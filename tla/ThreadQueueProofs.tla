-------------------------- MODULE ThreadQueueProofs --------------------------
(* What the list operations of ThreadQueue return.                         *)
EXTENDS ThreadQueue, SequenceTheorems, WellFoundedInduction, NaturalsInduction, TLAPS

(* A set of naturals that is not empty has a least element.                *)
LEMMA LeastElement ==
    ASSUME NEW S \in SUBSET Nat, S # {}
    PROVE  \E x \in S : \A y \in S : x <= y
<1>1. IsWellFoundedOn(OpToRel(<, Nat), Nat)
  BY NatLessThanWellFounded
<1>2. PICK x \in S : \A y \in S : ~ (<<y, x>> \in OpToRel(<, Nat))
  BY <1>1, WFMin
<1>3. \A y \in S : ~ (y < x)
  BY <1>2 DEF OpToRel
<1> QED
  BY <1>3

(* The insertion point exists: enqueue_by_priority always stops.           *)
LEMMA InsertPointStops ==
    ASSUME NEW s \in Seq(Thread), NEW t \in Thread
    PROVE  /\ InsertPoint(s, t) \in 1 .. Len(s) + 1
           /\ \A j \in 1 .. InsertPoint(s, t) - 1 : Pri[t] <= Pri[s[j]]
           /\ InsertPoint(s, t) <= Len(s) => Pri[s[InsertPoint(s, t)]] < Pri[t]
<1> DEFINE Stop == {i \in 1 .. Len(s) + 1 : i <= Len(s) => Pri[s[i]] < Pri[t]}
<1>1. Len(s) \in Nat
  BY LenProperties
<1>2. Len(s) + 1 \in Stop
  BY <1>1
<1>3. PICK i \in Stop : \A k \in Stop : i <= k
  <2>1. Stop \in SUBSET Nat /\ Stop # {}
    BY <1>1, <1>2
  <2> HIDE DEF Stop
  <2> QED
    BY <2>1, LeastElement
<1>4. \A j \in 1 .. i - 1 : Pri[t] <= Pri[s[j]]
  <2> SUFFICES ASSUME NEW j \in 1 .. i - 1 PROVE Pri[t] <= Pri[s[j]]
    OBVIOUS
  <2>1. j \in 1 .. Len(s) /\ j \notin Stop
    BY <1>1, <1>3
  <2>2. s[j] \in Thread
    BY <2>1, ElementOfSeq
  <2> QED
    BY <2>1, <2>2, PriAssumption
<1>5. \E k \in 1 .. Len(s) + 1 :
          /\ \A j \in 1 .. k - 1 : Pri[t] <= Pri[s[j]]
          /\ k <= Len(s) => Pri[s[k]] < Pri[t]
  BY <1>3, <1>4
<1> QED
  BY <1>5 DEF InsertPoint

(* Inserting puts the thread at one position and moves the rest by one.    *)
LEMMA InsertAtElements ==
    ASSUME NEW s \in Seq(Thread), NEW t \in Thread, NEW p \in 1 .. Len(s) + 1
    PROVE  /\ InsertAt(s, p, t) \in Seq(Thread)
           /\ Len(InsertAt(s, p, t)) = Len(s) + 1
           /\ \A k \in 1 .. Len(s) + 1 :
                 InsertAt(s, p, t)[k] = IF k < p THEN s[k] ELSE IF k = p THEN t ELSE s[k - 1]
<1> DEFINE front == SubSeq(s, 1, p - 1)
           rear == SubSeq(s, p, Len(s))
<1>1. Len(s) \in Nat /\ p \in Int /\ \A i \in 1 .. Len(s) : s[i] \in Thread
  BY LenProperties
<1>2. /\ front \in Seq(Thread) /\ Len(front) = p - 1
      /\ \A k \in 1 .. p - 1 : front[k] = s[k]
  BY <1>1, SubSeqProperties
<1>3. /\ rear \in Seq(Thread) /\ Len(rear) = Len(s) - p + 1
      /\ \A k \in 1 .. Len(s) - p + 1 : rear[k] = s[p + k - 1]
  BY <1>1, SubSeqProperties
<1>4. /\ <<t>> \in Seq(Thread) /\ Len(<<t>>) = 1 /\ <<t>>[1] = t
  OBVIOUS
<1> DEFINE left == front \o <<t>>
<1>5. /\ left \in Seq(Thread) /\ Len(left) = p
      /\ \A k \in 1 .. p : left[k] = IF k < p THEN s[k] ELSE t
  BY <1>1, <1>2, <1>4, ConcatProperties
<1> HIDE DEF front, rear, left
<1>6. /\ left \o rear \in Seq(Thread) /\ Len(left \o rear) = Len(s) + 1
      /\ \A k \in 1 .. Len(s) + 1 :
            (left \o rear)[k] = IF k <= p THEN left[k] ELSE rear[k - p]
  BY <1>1, <1>3, <1>5, ConcatProperties
<1>7. InsertAt(s, p, t) = left \o rear
  BY DEF InsertAt, left, front, rear
<1> QED
  BY <1>1, <1>3, <1>5, <1>6, <1>7

(* The list with the thread at the point where the code stops.             *)
LEMMA EnqueueElements ==
    ASSUME NEW s \in Seq(Thread), NEW t \in Thread
    PROVE  LET p == InsertPoint(s, t)
               e == EnqueueByPriority(s, t)
           IN /\ e \in Seq(Thread) /\ Len(e) = Len(s) + 1
              /\ \A k \in 1 .. Len(s) + 1 :
                    e[k] = IF k < p THEN s[k] ELSE IF k = p THEN t ELSE s[k - 1]
<1> DEFINE p == InsertPoint(s, t)
           e == EnqueueByPriority(s, t)
<1>1. e = InsertAt(s, p, t)
  BY DEF EnqueueByPriority
<1>2. p \in 1 .. Len(s) + 1
  BY InsertPointStops
<1> HIDE DEF p, e
<1>3. /\ InsertAt(s, p, t) \in Seq(Thread)
      /\ Len(InsertAt(s, p, t)) = Len(s) + 1
      /\ \A k \in 1 .. Len(s) + 1 :
            InsertAt(s, p, t)[k] = IF k < p THEN s[k] ELSE IF k = p THEN t ELSE s[k - 1]
  BY <1>2, InsertAtElements, ZenonT(30)
<1>4. /\ e \in Seq(Thread) /\ Len(e) = Len(s) + 1
      /\ \A k \in 1 .. Len(s) + 1 :
            e[k] = IF k < p THEN s[k] ELSE IF k = p THEN t ELSE s[k - 1]
  BY <1>1, <1>3, Zenon
<1> QED
  BY <1>4 DEF p, e

(* A queue after __osEnqueueThread: one more thread, none twice, and still *)
(* ordered by priority.                                                    *)
LEMMA EnqueueKeeps ==
    ASSUME NEW s \in Seq(Thread), NEW t \in Thread
    PROVE  /\ EnqueueByPriority(s, t) \in Seq(Thread)
           /\ EnqueueByPriority(s, t) # <<>>
           /\ Range(EnqueueByPriority(s, t)) = Range(s) \union {t}
           /\ IsInjective(s) /\ t \notin Range(s) => IsInjective(EnqueueByPriority(s, t))
           /\ Ordered(s) => Ordered(EnqueueByPriority(s, t))
<1> DEFINE p == InsertPoint(s, t)
           e == EnqueueByPriority(s, t)
<1>1. Len(s) \in Nat /\ DOMAIN s = 1 .. Len(s) /\ \A i \in 1 .. Len(s) : s[i] \in Thread
  BY LenProperties
<1>2. /\ p \in 1 .. Len(s) + 1
      /\ \A j \in 1 .. p - 1 : Pri[t] <= Pri[s[j]]
      /\ p <= Len(s) => Pri[s[p]] < Pri[t]
  BY InsertPointStops
<1>3. /\ e \in Seq(Thread) /\ Len(e) = Len(s) + 1
      /\ \A k \in 1 .. Len(s) + 1 :
            e[k] = IF k < p THEN s[k] ELSE IF k = p THEN t ELSE s[k - 1]
  BY EnqueueElements
<1>4. DOMAIN e = 1 .. Len(s) + 1
  BY <1>3, LenProperties
<1> HIDE DEF p, e
<1>5. e # <<>>
  BY <1>1, <1>3, EmptySeq
<1>6. Range(e) = Range(s) \union {t}
  <2>1. \A x \in Range(e) : x \in Range(s) \union {t}
    <3> SUFFICES ASSUME NEW k \in 1 .. Len(s) + 1 PROVE e[k] \in Range(s) \union {t}
      BY <1>4 DEF Range
    <3>1. CASE k < p
      BY <3>1, <1>1, <1>2, <1>3 DEF Range
    <3>2. CASE k = p
      BY <3>2, <1>1, <1>2, <1>3
    <3>3. CASE k > p
      <4>1. k - 1 \in DOMAIN s /\ e[k] = s[k - 1]
        BY <3>3, <1>1, <1>2, <1>3
      <4> QED
        BY <4>1 DEF Range
    <3> QED
      BY <3>1, <3>2, <3>3, <1>1, <1>2
  <2>2. t \in Range(e)
    BY <1>1, <1>2, <1>3, <1>4 DEF Range
  <2>3. ASSUME NEW k \in DOMAIN s PROVE s[k] \in Range(e)
    <3>1. CASE k < p
      BY <3>1, <1>1, <1>2, <1>3, <1>4 DEF Range
    <3>2. CASE k >= p
      <4>1. k + 1 \in DOMAIN e /\ e[k + 1] = s[k]
        BY <3>2, <1>1, <1>2, <1>3, <1>4
      <4> QED
        BY <4>1 DEF Range
    <3> QED
      BY <3>1, <3>2, <1>1, <1>2
  <2>4. \A x \in Range(s) : x \in Range(e)
    BY <2>3 DEF Range
  <2> QED
    BY <2>1, <2>2, <2>4
<1>7. ASSUME IsInjective(s), t \notin Range(s) PROVE IsInjective(e)
  <2>1. \A k \in 1 .. Len(s) : s[k] # t
    BY <1>7, <1>1 DEF Range
  <2> SUFFICES ASSUME NEW i \in 1 .. Len(s) + 1, NEW j \in 1 .. Len(s) + 1, i < j
               PROVE  e[i] # e[j]
    BY <1>1, <1>4 DEF IsInjective
  <2>2. \A k \in 1 .. Len(s), l \in 1 .. Len(s) : k # l => s[k] # s[l]
    BY <1>7, <1>1 DEF IsInjective
  <2> QED
    BY <2>1, <2>2, <1>1, <1>2, <1>3
<1>8. ASSUME Ordered(s) PROVE Ordered(e)
  <2>1. \A k \in 1 .. Len(s), l \in 1 .. Len(s) : k < l => Pri[s[k]] >= Pri[s[l]]
    BY <1>8, <1>1 DEF Ordered
  <2>2. Pri[t] \in Nat /\ \A k \in 1 .. Len(s) : Pri[s[k]] \in Nat
    BY <1>1, PriAssumption
  <2>3. \A k \in 1 .. Len(s) : k >= p => Pri[s[k]] < Pri[t]
    BY <2>1, <2>2, <1>1, <1>2
  <2> SUFFICES ASSUME NEW i \in 1 .. Len(s) + 1, NEW j \in 1 .. Len(s) + 1, i < j
               PROVE  Pri[e[i]] >= Pri[e[j]]
    BY <1>4 DEF Ordered
  <2>4. CASE i < p /\ j < p
    BY <2>4, <2>1, <1>1, <1>2, <1>3
  <2>5. CASE i < p /\ j = p
    BY <2>5, <2>2, <1>1, <1>2, <1>3
  <2>6. CASE i < p /\ j > p
    <3>1. i \in 1 .. Len(s) /\ j - 1 \in 1 .. Len(s) /\ i < j - 1
      BY <2>6, <1>1, <1>2
    <3>2. e[i] = s[i] /\ e[j] = s[j - 1]
      BY <2>6, <1>1, <1>2, <1>3
    <3> QED
      BY <3>1, <3>2, <2>1
  <2>7. CASE i = p
    <3>1. j - 1 \in 1 .. Len(s) /\ j - 1 >= p /\ e[i] = t /\ e[j] = s[j - 1]
      BY <2>7, <1>1, <1>2, <1>3
    <3> QED
      BY <3>1, <2>2, <2>3
  <2>8. CASE i > p
    <3>1. i - 1 \in 1 .. Len(s) /\ j - 1 \in 1 .. Len(s) /\ i - 1 < j - 1
      BY <2>8, <1>1, <1>2
    <3>2. e[i] = s[i - 1] /\ e[j] = s[j - 1]
      BY <2>8, <1>1, <1>2, <1>3
    <3> QED
      BY <3>1, <3>2, <2>1
  <2> QED
    BY <2>4, <2>5, <2>6, <2>7, <2>8, <1>1, <1>2
<1> QED
  BY <1>3, <1>5, <1>6, <1>7, <1>8 DEF e

(* Popping the head removes that thread and no other.                      *)
LEMMA TailKeeps ==
    ASSUME NEW s \in Seq(Thread), s # <<>>
    PROVE  /\ Head(s) \in Thread /\ Head(s) \in Range(s)
           /\ Tail(s) \in Seq(Thread)
           /\ IsInjective(s) => Range(Tail(s)) = Range(s) \ {Head(s)} /\ IsInjective(Tail(s))
           /\ Ordered(s) => /\ Ordered(Tail(s))
                            /\ \A t \in Range(s) : Pri[t] <= Pri[Head(s)]
<1> DEFINE r == Tail(s)
<1>1. Len(s) \in Nat \ {0} /\ DOMAIN s = 1 .. Len(s) /\ \A i \in 1 .. Len(s) : s[i] \in Thread
  BY LenProperties, EmptySeq
<1>2. /\ r \in Seq(Thread) /\ Len(r) = Len(s) - 1 /\ Head(s) = s[1]
      /\ \A i \in 1 .. Len(r) : r[i] = s[i + 1]
  BY HeadTailProperties
<1>3. DOMAIN r = 1 .. Len(s) - 1
  BY <1>2, LenProperties
<1> HIDE DEF r
<1>4. Head(s) \in Range(s) /\ Head(s) \in Thread
  BY <1>1, <1>2 DEF Range
<1>5. ASSUME IsInjective(s)
      PROVE  Range(r) = Range(s) \ {Head(s)} /\ IsInjective(r)
  <2>1. \A k \in 1 .. Len(s), l \in 1 .. Len(s) : k # l => s[k] # s[l]
    BY <1>5, <1>1 DEF IsInjective
  <2>2. \A i \in DOMAIN r : i + 1 \in 1 .. Len(s) /\ i + 1 # 1 /\ r[i] = s[i + 1]
    BY <1>1, <1>2, <1>3
  <2>3. \A x \in Range(r) : x \in Range(s) \ {Head(s)}
    BY <2>1, <2>2, <1>1, <1>2 DEF Range
  <2>4. ASSUME NEW i \in 1 .. Len(s), s[i] # Head(s) PROVE s[i] \in Range(r)
    <3>1. i - 1 \in DOMAIN r /\ r[i - 1] = s[i]
      BY <2>4, <1>1, <1>2, <1>3
    <3> QED
      BY <3>1 DEF Range
  <2>5. \A x \in Range(s) \ {Head(s)} : x \in Range(r)
    BY <2>4, <1>1 DEF Range
  <2>6. IsInjective(r)
    BY <2>1, <2>2, <1>1, <1>3 DEF IsInjective
  <2> QED
    BY <2>3, <2>5, <2>6
<1>6. ASSUME Ordered(s)
      PROVE  Ordered(r) /\ \A t \in Range(s) : Pri[t] <= Pri[Head(s)]
  <2>1. \A k \in 1 .. Len(s), l \in 1 .. Len(s) : k < l => Pri[s[k]] >= Pri[s[l]]
    BY <1>6, <1>1 DEF Ordered
  <2>2. Ordered(r)
    BY <2>1, <1>1, <1>2, <1>3 DEF Ordered
  <2>3. \A k \in 1 .. Len(s) : Pri[s[k]] <= Pri[s[1]]
    <3> TAKE k \in 1 .. Len(s)
    <3>1. Pri[s[1]] \in Nat
      BY <1>1, PriAssumption
    <3> QED
      BY <3>1, <2>1, <1>1
  <2> QED
    BY <2>2, <2>3, <1>1, <1>2 DEF Range
<1> QED
  BY <1>2, <1>4, <1>5, <1>6 DEF r

(* The list without the thread that stood at position p.                   *)
LEMMA UnlinkElements ==
    ASSUME NEW s \in Seq(Thread), NEW t, \E i \in DOMAIN s : s[i] = t
    PROVE  \E p \in 1 .. Len(s) :
              /\ s[p] = t
              /\ Unlink(s, t) \in Seq(Thread) /\ Len(Unlink(s, t)) = Len(s) - 1
              /\ \A k \in 1 .. Len(s) - 1 : Unlink(s, t)[k] = IF k < p THEN s[k] ELSE s[k + 1]
<1>0. Len(s) \in Nat /\ DOMAIN s = 1 .. Len(s) /\ \A i \in 1 .. Len(s) : s[i] \in Thread
  BY LenProperties
<1> DEFINE p == CHOOSE i \in DOMAIN s : s[i] = t
           u == Unlink(s, t)
           front == SubSeq(s, 1, p - 1)
           rear == SubSeq(s, p + 1, Len(s))
<1>1. p \in 1 .. Len(s) /\ s[p] = t
  BY <1>0
<1>2. u = front \o rear
  BY DEF Unlink, RemoveAt
<1> HIDE DEF p
<1>3. /\ front \in Seq(Thread) /\ Len(front) = p - 1
      /\ \A k \in 1 .. p - 1 : front[k] = s[k]
  BY <1>0, <1>1, SubSeqProperties
<1>4. /\ rear \in Seq(Thread) /\ Len(rear) = Len(s) - p
      /\ \A k \in 1 .. Len(s) - p : rear[k] = s[p + k]
  <2>1. /\ p \in Int /\ p + 1 \in Int /\ Len(s) \in Int
        /\ \A i \in p + 1 .. Len(s) : s[i] \in Thread
    BY <1>0, <1>1
  <2>2. /\ rear \in Seq(Thread)
        /\ Len(rear) = IF p + 1 <= Len(s) THEN Len(s) - (p + 1) + 1 ELSE 0
        /\ \A k \in 1 .. Len(s) - (p + 1) + 1 : rear[k] = s[p + 1 + k - 1]
    BY <2>1, SubSeqProperties
  <2>3. Len(rear) = Len(s) - p /\ Len(s) - (p + 1) + 1 = Len(s) - p
    <3>1. p \in Int /\ Len(s) \in Int /\ p <= Len(s)
      BY <1>0, <1>1
    <3>2. Len(rear) = IF p + 1 <= Len(s) THEN Len(s) - (p + 1) + 1 ELSE 0
      BY <2>2
    <3> HIDE DEF rear
    <3> QED
      BY <3>1, <3>2
  <2>4. \A k \in 1 .. Len(s) - p : p + 1 + k - 1 = p + k
    BY <2>1
  <2> QED
    BY <2>2, <2>3, <2>4
<1> HIDE DEF front, rear
<1>5. /\ front \o rear \in Seq(Thread) /\ Len(front \o rear) = Len(s) - 1
      /\ \A k \in 1 .. Len(s) - 1 :
            (front \o rear)[k] = IF k <= p - 1 THEN front[k] ELSE rear[k - (p - 1)]
  <2>1. Len(front) + Len(rear) = Len(s) - 1
    BY <1>0, <1>1, <1>3, <1>4
  <2>2. /\ front \o rear \in Seq(Thread) /\ Len(front \o rear) = Len(front) + Len(rear)
        /\ \A k \in 1 .. Len(front) + Len(rear) :
              (front \o rear)[k] = IF k <= Len(front) THEN front[k] ELSE rear[k - Len(front)]
    BY <1>3, <1>4, ConcatProperties
  <2> HIDE DEF front, rear
  <2>3. Len(front) = p - 1
    BY <1>3
  <2> QED
    BY <2>1, <2>2, <2>3, Zenon
<1> HIDE DEF u
<1>6. /\ u \in Seq(Thread) /\ Len(u) = Len(s) - 1
      /\ \A k \in 1 .. Len(s) - 1 : u[k] = IF k < p THEN s[k] ELSE s[k + 1]
  <2>1. u \in Seq(Thread) /\ Len(u) = Len(s) - 1
    BY <1>2, <1>5, Zenon
  <2>2. ASSUME NEW k \in 1 .. Len(s) - 1
        PROVE  u[k] = IF k < p THEN s[k] ELSE s[k + 1]
    <3>1. u[k] = IF k <= p - 1 THEN front[k] ELSE rear[k - (p - 1)]
      BY <1>2, <1>5, Zenon
    <3>2. k \in Int /\ 1 <= k /\ k <= Len(s) - 1 /\ p \in Int /\ Len(s) \in Int
      BY <1>0, <1>1
    <3>3. CASE k < p
      <4>1. k \in 1 .. p - 1 /\ k <= p - 1
        BY <3>2, <3>3
      <4>2. front[k] = s[k]
        BY <1>3, <4>1, Zenon
      <4> QED
        BY <3>1, <3>3, <4>1, <4>2, Zenon
    <3>4. CASE ~(k < p)
      <4>1. /\ ~(k <= p - 1)
            /\ k - (p - 1) \in 1 .. Len(s) - p
            /\ p + (k - (p - 1)) = k + 1
        BY <3>2, <3>4
      <4>2. rear[k - (p - 1)] = s[p + (k - (p - 1))]
        BY <1>4, <4>1, Zenon
      <4> QED
        BY <3>1, <3>4, <4>1, <4>2, Zenon
    <3> QED
      BY <3>3, <3>4
  <2> QED
    BY <2>1, <2>2
<1> QED
  BY <1>1, <1>6 DEF u

(* Unlinking removes the thread wherever it is, and no other.              *)
LEMMA UnlinkKeeps ==
    ASSUME NEW s \in Seq(Thread), NEW t \in Thread
    PROVE  /\ Unlink(s, t) \in Seq(Thread)
           /\ IsInjective(s) => Range(Unlink(s, t)) = Range(s) \ {t} /\ IsInjective(Unlink(s, t))
           /\ Ordered(s) => Ordered(Unlink(s, t))
<1>1. Len(s) \in Nat /\ DOMAIN s = 1 .. Len(s) /\ \A i \in 1 .. Len(s) : s[i] \in Thread
  BY LenProperties
<1>2. CASE ~ \E i \in DOMAIN s : s[i] = t
  <2>1. Unlink(s, t) = s
    BY <1>2 DEF Unlink
  <2>2. t \notin Range(s)
    BY <1>2 DEF Range
  <2> QED
    BY <2>1, <2>2
<1>3. CASE \E i \in DOMAIN s : s[i] = t
  <2> DEFINE u == Unlink(s, t)
  <2>1. PICK p \in 1 .. Len(s) :
           /\ s[p] = t
           /\ u \in Seq(Thread) /\ Len(u) = Len(s) - 1
           /\ \A k \in 1 .. Len(s) - 1 : u[k] = IF k < p THEN s[k] ELSE s[k + 1]
    BY <1>3, UnlinkElements
  <2> HIDE DEF u
  <2>2. /\ u \in Seq(Thread) /\ Len(u) = Len(s) - 1
        /\ \A k \in 1 .. Len(s) - 1 : u[k] = IF k < p THEN s[k] ELSE s[k + 1]
    BY <2>1
  <2>3. DOMAIN u = 1 .. Len(s) - 1
    BY <2>2, LenProperties
  <2>4. ASSUME IsInjective(s) PROVE Range(u) = Range(s) \ {t} /\ IsInjective(u)
    <3>1. \A k \in 1 .. Len(s), l \in 1 .. Len(s) : k # l => s[k] # s[l]
      BY <2>4, <1>1 DEF IsInjective
    <3>2. ASSUME NEW k \in 1 .. Len(s) - 1 PROVE u[k] \in Range(s) \ {t}
      <4>1. CASE k < p
        BY <4>1, <3>1, <2>1, <2>2, <1>1 DEF Range
      <4>2. CASE k >= p
        <5>1. k + 1 \in 1 .. Len(s) /\ k + 1 # p /\ u[k] = s[k + 1]
          BY <4>2, <2>1, <2>2, <1>1
        <5> QED
          BY <5>1, <3>1, <2>1, <1>1 DEF Range
      <4> QED
        BY <4>1, <4>2, <2>1, <1>1
    <3>3. ASSUME NEW k \in 1 .. Len(s), s[k] # t PROVE s[k] \in Range(u)
      <4>1. CASE k < p
        BY <4>1, <2>1, <2>2, <2>3, <1>1 DEF Range
      <4>2. CASE k > p
        <5>1. k - 1 \in DOMAIN u /\ u[k - 1] = s[k]
          BY <4>2, <2>1, <2>2, <2>3, <1>1
        <5> QED
          BY <5>1 DEF Range
      <4> QED
        BY <3>3, <4>1, <4>2, <2>1, <1>1
    <3>4. IsInjective(u)
      BY <3>1, <2>1, <2>2, <2>3, <1>1 DEF IsInjective
    <3>5. Range(u) = Range(s) \ {t}
      BY <3>2, <3>3, <2>3, <1>1 DEF Range
    <3> QED
      BY <3>4, <3>5
  <2>5. ASSUME Ordered(s) PROVE Ordered(u)
    <3>1. p \in 1 .. Len(s)
      BY <2>1
    <3>2. \A k \in 1 .. Len(s), l \in 1 .. Len(s) : k < l => Pri[s[k]] >= Pri[s[l]]
      BY <2>5, <1>1 DEF Ordered
    <3> QED
      BY <3>1, <3>2, <2>2, <2>3, <1>1 DEF Ordered
  <2> QED
    BY <2>2, <2>4, <2>5 DEF u
<1> QED
  BY <1>2, <1>3

-----------------------------------------------------------------------------
(* A family of lists: f[l] is the list l, of a set L of lists.             *)

ListsOver(L) == [L -> Seq(Thread)]

(* No thread twice, ordered by priority.                                   *)
Good(L, f) == \A l \in L : IsInjective(f[l]) /\ Ordered(f[l])

In(f, t, l) == t \in Range(f[l])

(* g is f after t was linked in l, or after h moved from l to r.           *)
Joined(L, f, g, t, l) ==
    /\ g \in ListsOver(L) /\ Good(L, g) /\ g[l] # <<>>
    /\ \A k \in L, u \in Thread : In(g, u, k) <=> In(f, u, k) \/ (u = t /\ k = l)
Moved(L, f, g, h, l, r) ==
    /\ h \in Thread /\ In(f, h, l)
    /\ g \in ListsOver(L) /\ Good(L, g) /\ g[r] # <<>>
    /\ \A k \in L, u \in Thread :
          In(g, u, k) <=> \/ In(f, u, k) /\ ~ (u = h /\ k = l)
                          \/ u = h /\ k = r

(* Linking a thread that is in no list.                                    *)
LEMMA EnqueueInLists ==
    ASSUME NEW L, NEW f \in ListsOver(L), Good(L, f), NEW l \in L, NEW t \in Thread, ~ In(f, t, l)
    PROVE  Joined(L, f, [f EXCEPT ![l] = EnqueueByPriority(@, t)], t, l)
<1> DEFINE g == [f EXCEPT ![l] = EnqueueByPriority(@, t)]
<1>1. f[l] \in Seq(Thread)
  BY DEF ListsOver
<1>2. /\ EnqueueByPriority(f[l], t) \in Seq(Thread)
      /\ EnqueueByPriority(f[l], t) # <<>>
      /\ Range(EnqueueByPriority(f[l], t)) = Range(f[l]) \union {t}
      /\ IsInjective(EnqueueByPriority(f[l], t))
      /\ Ordered(EnqueueByPriority(f[l], t))
  BY <1>1, EnqueueKeeps DEF Good, In
<1>3. g \in ListsOver(L) /\ g[l] = EnqueueByPriority(f[l], t) /\ \A k \in L \ {l} : g[k] = f[k]
  BY <1>2 DEF ListsOver
<1> HIDE DEF g
<1>4. Good(L, g)
  BY <1>2, <1>3 DEF Good
<1>5. \A k \in L, u \in Thread : In(g, u, k) <=> In(f, u, k) \/ (u = t /\ k = l)
  BY <1>2, <1>3 DEF In
<1>6. Joined(L, f, g, t, l)
  BY <1>2, <1>3, <1>4, <1>5 DEF Joined
<1> QED
  BY <1>6 DEF g

(* Popping the head of a list.                                             *)
LEMMA PopInLists ==
    ASSUME NEW L, NEW f \in ListsOver(L), Good(L, f), NEW l \in L, f[l] # <<>>
    PROVE  LET g == [f EXCEPT ![l] = Tail(@)] IN
           /\ g \in ListsOver(L) /\ Good(L, g)
           /\ Head(f[l]) \in Thread /\ In(f, Head(f[l]), l)
           /\ \A u \in Thread : In(f, u, l) => Pri[u] <= Pri[Head(f[l])]
           /\ \A k \in L, u \in Thread :
                 In(g, u, k) <=> In(f, u, k) /\ ~ (u = Head(f[l]) /\ k = l)
<1> DEFINE g == [f EXCEPT ![l] = Tail(@)]
<1>1. f[l] \in Seq(Thread) /\ IsInjective(f[l]) /\ Ordered(f[l])
  BY DEF ListsOver, Good
<1>2. /\ Head(f[l]) \in Thread /\ Head(f[l]) \in Range(f[l])
      /\ Tail(f[l]) \in Seq(Thread)
      /\ Range(Tail(f[l])) = Range(f[l]) \ {Head(f[l])}
      /\ IsInjective(Tail(f[l])) /\ Ordered(Tail(f[l]))
      /\ \A t \in Range(f[l]) : Pri[t] <= Pri[Head(f[l])]
  BY <1>1, TailKeeps
<1>3. g \in ListsOver(L) /\ g[l] = Tail(f[l]) /\ \A k \in L \ {l} : g[k] = f[k]
  BY <1>2 DEF ListsOver
<1> HIDE DEF g
<1>4. Good(L, g)
  BY <1>2, <1>3 DEF Good
<1>5. \A k \in L, u \in Thread :
         In(g, u, k) <=> In(f, u, k) /\ ~ (u = Head(f[l]) /\ k = l)
  BY <1>2, <1>3 DEF In
<1> QED
  BY <1>2, <1>3, <1>4, <1>5 DEF g, In

(* Unlinking a thread.                                                     *)
LEMMA UnlinkInLists ==
    ASSUME NEW L, NEW f \in ListsOver(L), Good(L, f), NEW l \in L, NEW t \in Thread
    PROVE  LET g == [f EXCEPT ![l] = Unlink(@, t)] IN
           /\ g \in ListsOver(L) /\ Good(L, g)
           /\ \A k \in L, u \in Thread : In(g, u, k) <=> In(f, u, k) /\ ~ (u = t /\ k = l)
<1> DEFINE g == [f EXCEPT ![l] = Unlink(@, t)]
<1>1. f[l] \in Seq(Thread) /\ IsInjective(f[l]) /\ Ordered(f[l])
  BY DEF ListsOver, Good
<1>2. /\ Unlink(f[l], t) \in Seq(Thread)
      /\ Range(Unlink(f[l], t)) = Range(f[l]) \ {t}
      /\ IsInjective(Unlink(f[l], t)) /\ Ordered(Unlink(f[l], t))
  BY <1>1, UnlinkKeeps
<1>3. g \in ListsOver(L) /\ g[l] = Unlink(f[l], t) /\ \A k \in L \ {l} : g[k] = f[k]
  BY <1>2 DEF ListsOver
<1> HIDE DEF g
<1>4. Good(L, g)
  BY <1>2, <1>3 DEF Good
<1>5. \A k \in L, u \in Thread : In(g, u, k) <=> In(f, u, k) /\ ~ (u = t /\ k = l)
  BY <1>2, <1>3 DEF In
<1> QED
  BY <1>2, <1>3, <1>4, <1>5 DEF g

(* Moving the head of a wait list to the run queue.                        *)
LEMMA WakeInLists ==
    ASSUME NEW L, NEW f \in ListsOver(L), Good(L, f), NEW l \in L, NEW r \in L, l # r,
           f[l] # <<>>, ~ In(f, Head(f[l]), r)
    PROVE  LET h == Head(f[l])
           IN  Moved(L, f, [f EXCEPT ![l] = Tail(@), ![r] = EnqueueByPriority(@, h)], h, l, r)
<1> DEFINE h == Head(f[l])
           e == [f EXCEPT ![l] = Tail(@)]
           g == [e EXCEPT ![r] = EnqueueByPriority(@, h)]
<1>2. /\ e \in ListsOver(L) /\ Good(L, e)
      /\ h \in Thread /\ In(f, h, l)
      /\ \A k \in L, u \in Thread : In(e, u, k) <=> In(f, u, k) /\ ~ (u = h /\ k = l)
  BY PopInLists
<1>3. g = [f EXCEPT ![l] = Tail(@), ![r] = EnqueueByPriority(@, h)]
  BY DEF ListsOver
<1> HIDE DEF h, e
<1>4. ~ In(e, h, r)
  BY <1>2 DEF h
<1>5. /\ g \in ListsOver(L) /\ Good(L, g) /\ g[r] # <<>>
      /\ \A k \in L, u \in Thread :
            In(g, u, k) <=> In(e, u, k) \/ (u = h /\ k = r)
  BY <1>2, <1>4, EnqueueInLists DEF Joined
<1> HIDE DEF g
<1>6. \A k \in L, u \in Thread :
         In(g, u, k) <=> \/ In(f, u, k) /\ ~ (u = h /\ k = l)
                         \/ u = h /\ k = r
  BY <1>2, <1>5
<1>7. Moved(L, f, g, h, l, r)
  BY <1>2, <1>5, <1>6 DEF Moved
<1> QED
  BY <1>3, <1>7 DEF h

-----------------------------------------------------------------------------
(* The order of the threads in a list.                                     *)

Before(s, t, u) == \E i, j \in DOMAIN s : i < j /\ s[i] = t /\ s[j] = u

(* List s became list r: a thread that was there is ahead of every other   *)
(* thread of its priority, but for those that were ahead of it already.    *)
NoOvertaking(s, r) ==
    \A t, u \in Thread :
        t # u /\ Pri[t] = Pri[u] /\ t \in Range(s) /\ t \in Range(r) /\ u \in Range(r)
        => Before(r, t, u) \/ Before(s, u, t)

(* Two threads of a list are in one order or the other.                    *)
LEMMA OneIsBefore ==
    ASSUME NEW s \in Seq(Thread), NEW t \in Range(s), NEW u \in Range(s), t # u
    PROVE  Before(s, t, u) \/ Before(s, u, t)
<1>1. PICK i \in DOMAIN s, j \in DOMAIN s : s[i] = t /\ s[j] = u
  BY DEF Range
<1>2. i \in Int /\ j \in Int /\ i # j
  BY <1>1, LenProperties
<1> QED
  BY <1>1, <1>2 DEF Before

(* An insertion keeps the order of the others, and puts the thread behind  *)
(* every thread of at least its priority.                                  *)
LEMMA EnqueueOrder ==
    ASSUME NEW s \in Seq(Thread), Ordered(s), NEW x \in Thread
    PROVE  LET e == EnqueueByPriority(s, x) IN
           /\ \A t, u : Before(s, t, u) => Before(e, t, u)
           /\ \A t \in Range(s) : Pri[x] <= Pri[t] => Before(e, t, x)
<1> DEFINE p == InsertPoint(s, x)
           e == EnqueueByPriority(s, x)
<1>1. /\ Len(s) \in Nat /\ DOMAIN s = 1 .. Len(s) /\ \A i \in 1 .. Len(s) : s[i] \in Thread
      /\ Pri[x] \in Nat
  BY LenProperties, PriAssumption
<1>2. p \in 1 .. Len(s) + 1 /\ (p <= Len(s) => Pri[s[p]] < Pri[x])
  BY InsertPointStops
<1>3. /\ e \in Seq(Thread) /\ Len(e) = Len(s) + 1
      /\ \A k \in 1 .. Len(s) + 1 :
            e[k] = IF k < p THEN s[k] ELSE IF k = p THEN x ELSE s[k - 1]
  BY EnqueueElements
<1>4. DOMAIN e = 1 .. Len(s) + 1
  BY <1>3, LenProperties
<1> HIDE DEF p, e
<1> DEFINE at(i) == IF i < p THEN i ELSE i + 1
<1>5. \A i \in 1 .. Len(s) : at(i) \in 1 .. Len(s) + 1 /\ at(i) # p /\ e[at(i)] = s[i]
  <2> TAKE i \in 1 .. Len(s)
  <2>1. CASE i < p
    BY <2>1, <1>1, <1>2, <1>3
  <2>2. CASE i >= p
    <3>1. i + 1 \in 1 .. Len(s) + 1 /\ ~ i + 1 < p /\ i + 1 # p /\ i + 1 - 1 = i /\ at(i) = i + 1
      BY <2>2, <1>1, <1>2
    <3>2. e[i + 1] = s[i + 1 - 1]
      BY <1>3, <3>1
    <3> QED
      BY <3>1, <3>2
  <2> QED
    BY <2>1, <2>2, <1>2
<1>6. \A i \in 1 .. Len(s), j \in 1 .. Len(s) : i < j => at(i) < at(j)
  BY <1>1, <1>2
<1>7. \A t, u : Before(s, t, u) => Before(e, t, u)
  <2> SUFFICES ASSUME NEW t, NEW u, NEW i \in 1 .. Len(s), NEW j \in 1 .. Len(s),
                      i < j, s[i] = t, s[j] = u
               PROVE  Before(e, t, u)
    BY <1>1 DEF Before
  <2>1. at(i) \in DOMAIN e /\ at(j) \in DOMAIN e /\ at(i) < at(j) /\ e[at(i)] = t /\ e[at(j)] = u
    BY <1>4, <1>5, <1>6
  <2> HIDE DEF at
  <2> QED
    BY <2>1 DEF Before
<1>8. \A t \in Range(s) : Pri[x] <= Pri[t] => Before(e, t, x)
  <2> SUFFICES ASSUME NEW i \in 1 .. Len(s), Pri[x] <= Pri[s[i]] PROVE Before(e, s[i], x)
    BY <1>1 DEF Range
  <2>1. i < p
    <3> SUFFICES ASSUME ~ i < p PROVE FALSE
      OBVIOUS
    <3>1. p \in 1 .. Len(s) /\ p <= i
      BY <1>1, <1>2
    <3>2. Pri[s[p]] < Pri[x] /\ Pri[s[p]] >= Pri[s[i]]
      <4>1. p = i \/ p < i
        BY <3>1
      <4>2. p < i => Pri[s[p]] >= Pri[s[i]]
        BY <3>1, <1>1 DEF Ordered
      <4> QED
        BY <3>1, <4>1, <4>2, <1>1, <1>2, PriAssumption
    <3>3. Pri[s[p]] \in Nat /\ Pri[s[i]] \in Nat
      BY <3>1, <1>1, PriAssumption
    <3> QED
      BY <3>2, <3>3, <1>1
  <2>2. p \in 1 .. Len(s) + 1 /\ i \in 1 .. Len(s) + 1 /\ e[p] = x /\ e[i] = s[i]
    BY <1>1, <1>2, <1>3, <2>1
  <2> QED
    BY <2>1, <2>2, <1>4 DEF Before
<1> QED
  BY <1>7, <1>8 DEF e

(* Removing threads keeps the order of those that stay.                    *)
LEMMA TailOrder ==
    ASSUME NEW s \in Seq(Thread), s # <<>>, NEW t, NEW u, Before(Tail(s), t, u)
    PROVE  Before(s, t, u)
<1> DEFINE r == Tail(s)
<1>1. Len(s) \in Nat \ {0} /\ DOMAIN s = 1 .. Len(s)
  BY LenProperties, EmptySeq
<1>2. /\ r \in Seq(Thread) /\ Len(r) = Len(s) - 1
      /\ \A i \in 1 .. Len(r) : r[i] = s[i + 1]
  BY HeadTailProperties
<1>3. DOMAIN r = 1 .. Len(s) - 1
  BY <1>2, LenProperties
<1>4. PICK i \in DOMAIN r, j \in DOMAIN r : i < j /\ r[i] = t /\ r[j] = u
  BY DEF Before
<1> HIDE DEF r
<1>5. i + 1 \in DOMAIN s /\ j + 1 \in DOMAIN s /\ i + 1 < j + 1 /\ s[i + 1] = t /\ s[j + 1] = u
  BY <1>1, <1>2, <1>3, <1>4
<1> QED
  BY <1>5 DEF Before

LEMMA UnlinkOrder ==
    ASSUME NEW s \in Seq(Thread), NEW x, NEW t, NEW u, Before(Unlink(s, x), t, u)
    PROVE  Before(s, t, u)
<1>1. CASE ~ \E i \in DOMAIN s : s[i] = x
  BY <1>1 DEF Unlink
<1>2. CASE \E i \in DOMAIN s : s[i] = x
  <2> DEFINE r == Unlink(s, x)
  <2>1. Len(s) \in Nat /\ DOMAIN s = 1 .. Len(s)
    BY LenProperties
  <2>2. PICK p \in 1 .. Len(s) :
           /\ s[p] = x
           /\ r \in Seq(Thread) /\ Len(r) = Len(s) - 1
           /\ \A k \in 1 .. Len(s) - 1 : r[k] = IF k < p THEN s[k] ELSE s[k + 1]
    BY <1>2, UnlinkElements
  <2>3. PICK i \in DOMAIN r, j \in DOMAIN r : i < j /\ r[i] = t /\ r[j] = u
    BY DEF Before
  <2> HIDE DEF r
  <2>4. DOMAIN r = 1 .. Len(s) - 1
    BY <2>2, LenProperties
  <2> DEFINE at(k) == IF k < p THEN k ELSE k + 1
  <2>5. \A k \in 1 .. Len(s) - 1 : at(k) \in DOMAIN s /\ r[k] = s[at(k)]
    BY <2>1, <2>2
  <2>6. at(i) < at(j)
    BY <2>1, <2>3, <2>4
  <2>7. at(i) \in DOMAIN s /\ at(j) \in DOMAIN s /\ s[at(i)] = t /\ s[at(j)] = u
    BY <2>3, <2>4, <2>5
  <2> HIDE DEF at
  <2> QED
    BY <2>6, <2>7 DEF Before
<1> QED
  BY <1>1, <1>2

LEMMA RemovalIsFair ==
    ASSUME NEW s \in Seq(Thread), NEW r \in Seq(Thread),
           \A t, u : Before(r, t, u) => Before(s, t, u)
    PROVE  NoOvertaking(s, r)
BY OneIsBefore DEF NoOvertaking

LEMMA EnqueueIsFair ==
    ASSUME NEW s \in Seq(Thread), Ordered(s), NEW x \in Thread, x \notin Range(s)
    PROVE  NoOvertaking(s, EnqueueByPriority(s, x))
<1> DEFINE e == EnqueueByPriority(s, x)
<1>1. /\ Range(e) = Range(s) \union {x}
      /\ \A t, u : Before(s, t, u) => Before(e, t, u)
      /\ \A t \in Range(s) : Pri[x] <= Pri[t] => Before(e, t, x)
  BY EnqueueKeeps, EnqueueOrder
<1>2. \A t \in Thread : Pri[t] \in Nat
  BY PriAssumption
<1> HIDE DEF e
<1>3. NoOvertaking(s, e)
  <2> SUFFICES ASSUME NEW t \in Thread, NEW u \in Thread, t # u, Pri[t] = Pri[u],
                      t \in Range(s), u \in Range(e)
               PROVE  Before(e, t, u) \/ Before(s, u, t)
    BY DEF NoOvertaking
  <2>1. CASE u = x
    BY <2>1, <1>1, <1>2
  <2>2. CASE u \in Range(s)
    BY <2>2, <1>1, OneIsBefore
  <2> QED
    BY <2>1, <2>2, <1>1
<1> QED
  BY <1>3 DEF e

(* A list to which two threads are added, one after the other.             *)
LEMMA EnqueueTwiceIsFair ==
    ASSUME NEW s \in Seq(Thread), Ordered(s), NEW x \in Thread, NEW y \in Thread,
           x \notin Range(s), y \notin Range(s), x # y
    PROVE  NoOvertaking(s, EnqueueByPriority(EnqueueByPriority(s, x), y))
<1> DEFINE e == EnqueueByPriority(s, x)
           d == EnqueueByPriority(e, y)
<1>1. /\ e \in Seq(Thread) /\ Ordered(e) /\ Range(e) = Range(s) \union {x}
      /\ NoOvertaking(s, e)
  BY EnqueueKeeps, EnqueueIsFair
<1> HIDE DEF e
<1>2. /\ Range(d) = Range(e) \union {y}
      /\ \A t, u : Before(e, t, u) => Before(d, t, u)
      /\ \A t \in Range(e) : Pri[y] <= Pri[t] => Before(d, t, y)
  BY <1>1, EnqueueKeeps, EnqueueOrder
<1>3. \A t \in Thread : Pri[t] \in Nat
  BY PriAssumption
<1> HIDE DEF d
<1>4. NoOvertaking(s, d)
  <2> SUFFICES ASSUME NEW t \in Thread, NEW u \in Thread, t # u, Pri[t] = Pri[u],
                      t \in Range(s), u \in Range(d)
               PROVE  Before(d, t, u) \/ Before(s, u, t)
    BY DEF NoOvertaking
  <2>1. CASE u = y
    BY <2>1, <1>1, <1>2, <1>3
  <2>2. CASE u \in Range(e)
    <3>1. Before(e, t, u) \/ Before(s, u, t)
      BY <2>2, <1>1 DEF NoOvertaking
    <3> QED
      BY <3>1, <1>2
  <2> QED
    BY <2>1, <2>2, <1>2
<1> QED
  BY <1>4 DEF d, e
=============================================================================
