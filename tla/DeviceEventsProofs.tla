------------------------- MODULE DeviceEventsProofs -------------------------
(***************************************************************************)
(* Type correctness of DeviceEvents, and the order of the RSP's            *)
(* interrupts, for every set of queues, every routing and every bound.     *)
(*                                                                         *)
(* The last sections are about the clock that says when a pass delivers a  *)
(* retrace.  The deadline and the counts of retraces are a matter of       *)
(* arithmetic on one step; the speed is an invariant only together with    *)
(* Overridden, which says when F11 and a replay can disagree.              *)
(***************************************************************************)
EXTENDS DeviceEvents, RetraceClock, FiniteSetTheorems, TLAPS

MsgsOK(ms) ==
    /\ ms \in [Queue -> Seq(Event)]
    /\ \A m \in Queue : Len(ms[m]) <= Cap[m]

(* Posting keeps every queue within its capacity.                          *)
LEMMA PostBounded ==
    ASSUME NEW ms, MsgsOK(ms), NEW e \in Event
    PROVE  MsgsOK(Post(ms, e)) /\ MsgsOK(PostIfOn(ms, e))
<1>1. Route[e] \in Queue /\ Cap \in [Queue -> Nat]
  BY DeviceEventsAssumption
<1>2. CASE Posts(ms, e)
  <2> DEFINE s == ms[Route[e]]
  <2>1. s \in Seq(Event) /\ Len(s) < Cap[Route[e]]
    BY <1>1, <1>2 DEF Posts, Room, MsgsOK
  <2>2. Append(s, e) \in Seq(Event) /\ Len(Append(s, e)) = Len(s) + 1
    BY <2>1
  <2>3. Len(s) \in Nat /\ Cap[Route[e]] \in Nat
    BY <1>1, <2>1
  <2>4. Len(Append(s, e)) <= Cap[Route[e]]
    BY <2>1, <2>2, <2>3
  <2>5. Post(ms, e) = [ms EXCEPT ![Route[e]] = Append(s, e)]
    BY <1>2 DEF Post
  <2>6. Post(ms, e) \in [Queue -> Seq(Event)]
    BY <1>1, <2>2, <2>5 DEF MsgsOK
  <2>7. ASSUME NEW m \in Queue
        PROVE  Len(Post(ms, e)[m]) <= Cap[m]
    BY <1>1, <2>4, <2>5 DEF MsgsOK
  <2> QED
    BY <1>2, <2>6, <2>7 DEF MsgsOK, PostIfOn
<1>3. CASE ~Posts(ms, e)
  BY <1>3 DEF Post, PostIfOn
<1> QED
  BY <1>2, <1>3

(* The number of SI messages of a drain is within the debt and the room.   *)
LEMMA LeastOfThree ==
    ASSUME NEW a \in Nat, NEW b \in Nat, NEW c \in Nat
    PROVE  /\ Least({a, b, c}) \in Nat
           /\ Least({a, b, c}) <= a
           /\ Least({a, b, c}) <= c
<1>1. \E n \in {a, b, c} : \A k \in {a, b, c} : n <= k
  <2>1. CASE a <= b /\ a <= c
    BY <2>1
  <2>2. CASE b <= a /\ b <= c
    BY <2>2
  <2>3. CASE c <= a /\ c <= b
    BY <2>3
  <2> QED
    BY <2>1, <2>2, <2>3
<1>2. Least({a, b, c}) \in {a, b, c} /\ \A k \in {a, b, c} : Least({a, b, c}) <= k
  BY <1>1 DEF Least
<1> QED
  BY <1>2

LEMMA DrainBounded ==
    ASSUME TypeOK, DrainSi
    PROVE  /\ MsgsOK(msgs') /\ siDone' \in Nat
           /\ Len(msgs'[Route["SI"]]) - Len(msgs[Route["SI"]]) = siDone - siDone'
<1> DEFINE r == Route["SI"]
<1> DEFINE room == Cap[r] - Len(msgs[r])
<1> DEFINE n == IF "SI" \in Mask \cap registered THEN Least({siDone, SiBatch, room}) ELSE 0
<1> DEFINE new == [i \in 1 .. n |-> "SI"]
<1>1. r \in Queue /\ Cap[r] \in Nat /\ SiBatch \in Nat
  BY DeviceEventsAssumption DEF Event
<1>2. msgs[r] \in Seq(Event) /\ Len(msgs[r]) <= Cap[r] /\ Len(msgs[r]) \in Nat
  BY <1>1 DEF TypeOK
<1>3. room \in Nat /\ siDone \in Nat
  BY <1>1, <1>2 DEF TypeOK
<1>4. n \in Nat /\ n <= siDone /\ n <= room
  <2> HIDE DEF room
  <2> QED
    BY <1>1, <1>3, LeastOfThree
<1>5. msgs' = [msgs EXCEPT ![r] = @ \o new] /\ siDone' = siDone - n
  BY DEF DrainSi
<1> HIDE DEF n
<1>6. new \in Seq(Event) /\ Len(new) = n
  BY <1>4 DEF Event
<1> HIDE DEF new
<1>7. msgs[r] \o new \in Seq(Event) /\ Len(msgs[r] \o new) = Len(msgs[r]) + n
  BY <1>2, <1>6
<1>8. Len(msgs[r] \o new) <= Cap[r]
  BY <1>1, <1>2, <1>4, <1>7
<1> HIDE DEF room, r
<1>9. msgs' \in [Queue -> Seq(Event)]
  BY <1>1, <1>5, <1>7 DEF TypeOK
<1>10. ASSUME NEW m \in Queue
       PROVE  Len(msgs'[m]) <= Cap[m]
  BY <1>1, <1>5, <1>8 DEF TypeOK
<1>11. siDone' \in Nat /\ siDone - siDone' = n
  BY <1>3, <1>4, <1>5
<1>12. msgs'[r] = msgs[r] \o new
  BY <1>1, <1>5 DEF TypeOK
<1>13. Len(msgs'[r]) - Len(msgs[r]) = siDone - siDone'
  BY <1>2, <1>4, <1>7, <1>11, <1>12
<1> QED
  BY <1>9, <1>10, <1>11, <1>13 DEF MsgsOK, r

-----------------------------------------------------------------------------
(* An AI completion is only ever owed for a DMA the AI holds.              *)
TypeInv == TypeOK /\ (aiOver => aiDmas > 0)

LEMMA TypeInit == Init => TypeInv
<1> SUFFICES ASSUME Init PROVE TypeInv
  OBVIOUS
<1>1. \A m \in Queue : Cap[m] \in Nat
  BY DeviceEventsAssumption
<1>2. msgs \in [Queue -> Seq(Event)] /\ \A m \in Queue : Len(msgs[m]) = 0
  BY DEF Init
<1>3. \A m \in Queue : Len(msgs[m]) <= Cap[m]
  BY <1>1, <1>2
<1>4. ring \in Seq(Task) /\ Len(ring) <= RingCap
  BY DeviceEventsAssumption DEF Init
<1>5. registered \in SUBSET Event
  BY DeviceEventsAssumption DEF Init
<1>6. served \in Seq(Interrupt) /\ accepted \in Seq(Task)
  BY DEF Init
<1>7. dpPending \in BOOLEAN /\ aiOver = FALSE /\ full \in BOOLEAN /\ expired \in BOOLEAN
  BY Zenon DEF Init
<1>8. /\ siDone \in Nat /\ taken \in Nat /\ transfers \in Nat /\ aiDmas \in 0 .. 2
      /\ compare = "off" /\ phase = "run"
  BY DEF Init
<1> QED
  BY <1>2, <1>3, <1>4, <1>5, <1>6, <1>7, <1>8 DEF TypeInv, TypeOK

LEMMA TypeNext == TypeInv /\ [Next]_vars => TypeInv'
<1> SUFFICES ASSUME TypeInv, [Next]_vars PROVE TypeInv'
  OBVIOUS
<1> USE DeviceEventsAssumption DEF rspVars, siVars, aiVars, passVars
<1>0. MsgsOK(msgs)
  BY DEF TypeInv, TypeOK, MsgsOK
<1>1. CASE UNCHANGED vars
  BY <1>1 DEF vars, TypeInv, TypeOK
<1>2. ASSUME NEW e \in Event, Register(e) PROVE TypeInv'
  BY <1>2 DEF Register, TypeInv, TypeOK
<1>3. ASSUME NEW m \in Queue, Receive(m) PROVE TypeInv'
  <2>1. msgs[m] \in Seq(Event) /\ msgs[m] # <<>> /\ Len(msgs[m]) \in Nat
    BY <1>3 DEF Receive, TypeInv, TypeOK
  <2>2. Tail(msgs[m]) \in Seq(Event) /\ Len(Tail(msgs[m])) = Len(msgs[m]) - 1
    BY <2>1
  <2>3. Len(Tail(msgs[m])) <= Cap[m]
    BY <2>1, <2>2 DEF TypeInv, TypeOK
  <2>4. MsgsOK(msgs')
    BY <1>3, <2>2, <2>3 DEF Receive, TypeInv, TypeOK, MsgsOK
  <2> QED
    BY <1>3, <2>4 DEF Receive, TypeInv, TypeOK, MsgsOK
<1>4. ASSUME NEW t \in Task, Submit(t) PROVE TypeInv'
  <2>1. Append(ring, t) \in Seq(Task) /\ Len(Append(ring, t)) = Len(ring) + 1
        /\ Append(accepted, t) \in Seq(Task)
    BY DEF TypeInv, TypeOK
  <2>2. Len(ring) \in Nat /\ (Len(ring) < RingCap => Len(Append(ring, t)) <= RingCap)
    BY <2>1 DEF TypeInv, TypeOK
  <2> QED
    BY <1>4, <2>1, <2>2 DEF Submit, TypeInv, TypeOK
<1>5. CASE StartSi
  BY <1>5 DEF StartSi, TypeInv, TypeOK
<1>6. CASE SetCompare
  BY <1>6 DEF SetCompare, TypeInv, TypeOK
<1>7. CASE QueueAi
  BY <1>7 DEF QueueAi, TypeInv, TypeOK
<1>8. CASE CountReaches
  BY <1>8 DEF CountReaches, TypeInv, TypeOK
<1>9. CASE AiPlayed
  BY <1>9 DEF AiPlayed, TypeInv, TypeOK
<1>10. CASE BeginPass
  BY <1>10 DEF BeginPass, TypeInv, TypeOK
<1>11. CASE BeginRspPass
  BY <1>11 DEF BeginRspPass, TypeInv, TypeOK
<1>12. CASE DeliverDp
  <2>1. MsgsOK(msgs')
    BY <1>0, <1>12, PostBounded DEF DeliverDp, Event
  <2>2. Append(served, <<"DP", taken>>) \in Seq(Interrupt)
    BY DEF TypeInv, TypeOK, Interrupt
  <2> QED
    BY <1>12, <2>1, <2>2 DEF DeliverDp, AfterRsp, TypeInv, TypeOK, MsgsOK
<1>13. CASE DeliverSp
  <2>1. MsgsOK(msgs')
    BY <1>0, <1>13, PostBounded DEF DeliverSp, Event
  <2>2. Append(served, <<"SP", taken + 1>>) \in Seq(Interrupt) /\ taken + 1 \in Nat
    BY DEF TypeInv, TypeOK, Interrupt
  <2>3. Tail(ring) \in Seq(Task) /\ Len(Tail(ring)) = Len(ring) - 1 /\ Len(ring) \in Nat
    BY <1>13 DEF DeliverSp, TypeInv, TypeOK
  <2>4. Len(Tail(ring)) <= RingCap
    BY <2>3 DEF TypeInv, TypeOK
  <2> QED
    BY <1>13, <2>1, <2>2, <2>3, <2>4 DEF DeliverSp, AfterRsp, TypeInv, TypeOK, MsgsOK
<1>14. CASE RspWaits
  BY <1>14 DEF RspWaits, AfterRsp, TypeInv, TypeOK
<1>15. CASE DrainSi
  <2>1. MsgsOK(msgs') /\ siDone' \in Nat
    BY <1>15, DrainBounded DEF TypeInv
  <2> QED
    BY <1>15, <2>1 DEF DrainSi, TypeInv, TypeOK, MsgsOK
<1>16. CASE PostVideo
  <2>1. MsgsOK(msgs')
    BY <1>0, <1>16, PostBounded DEF PostVideo, Event
  <2> QED
    BY <1>16, <2>1 DEF PostVideo, TypeInv, TypeOK, MsgsOK
<1>17. CASE PostCounter
  <2>1. MsgsOK(msgs')
    BY <1>0, <1>17, PostBounded DEF PostCounter, Event
  <2> QED
    BY <1>17, <2>1 DEF PostCounter, TypeInv, TypeOK, MsgsOK
<1>18. CASE PostAi
  <2>1. MsgsOK(msgs')
    BY <1>0, <1>18, PostBounded DEF PostAi, Event
  <2>2. aiDmas' \in 0 .. 2
    BY <1>18 DEF PostAi, TypeInv, TypeOK
  <2> QED
    BY <1>18, <2>1, <2>2 DEF PostAi, TypeInv, TypeOK, MsgsOK
<1> QED
  BY <1>1, <1>2, <1>3, <1>4, <1>5, <1>6, <1>7, <1>8, <1>9, <1>10, <1>11, <1>12,
     <1>13, <1>14, <1>15, <1>16, <1>17, <1>18
     DEF Next, PassStep, Game, Device

-----------------------------------------------------------------------------
(* Every interrupt served so far belongs to a task that left the ring.     *)
Numbered == \A k \in 1 .. Len(served) : served[k][2] \in 1 .. taken

OrderInv == TypeInv /\ InOrderOnce /\ Numbered

LEMMA OrderInit == Init => OrderInv
<1> SUFFICES ASSUME Init PROVE OrderInv
  OBVIOUS
<1>1. TypeInv
  BY TypeInit
<1>2. Owed(dpPending, taken) = <<"SP", 1>>
  BY DEF Init, Owed
<1>3. InOrderOnce /\ Numbered
  BY <1>2 DEF Init, InOrderOnce, Numbered
<1> QED
  BY <1>1, <1>3 DEF OrderInv

(* A step that leaves the RSP's variables alone keeps the order.           *)
LEMMA OrderUntouched ==
    ASSUME InOrderOnce, Numbered, UNCHANGED rspVars
    PROVE  InOrderOnce' /\ Numbered'
BY DEF InOrderOnce, Numbered, Following, Owed, rspVars

(* A task that ends joins the ring at its end.                             *)
LEMMA OrderSubmit ==
    ASSUME TypeOK, InOrderOnce, Numbered, NEW t \in Task, Submit(t)
    PROVE  InOrderOnce' /\ Numbered'
<1>1. CASE UNCHANGED <<ring, accepted>>
  <2>1. UNCHANGED rspVars
    BY <1>1 DEF Submit, rspVars
  <2> QED
    BY <2>1, OrderUntouched
<1>2. CASE ring' = Append(ring, t) /\ accepted' = Append(accepted, t)
  <2>1. ring \in Seq(Task) /\ accepted \in Seq(Task) /\ taken \in Nat /\ served \in Seq(Interrupt)
    BY DEF TypeOK
  <2>2. UNCHANGED <<dpPending, taken, served>>
    BY DEF Submit
  <2>3. Len(ring) = Len(accepted) - taken /\ Len(ring) \in Nat /\ Len(accepted) \in Nat
    BY <2>1 DEF InOrderOnce
  <2>4. Len(ring') = Len(ring) + 1 /\ Len(accepted') = Len(accepted) + 1
    BY <1>2, <2>1
  <2>5. \A n \in 1 .. taken : accepted'[n] = accepted[n]
    BY <1>2, <2>1, <2>3
  <2>6. \A k \in 1 .. Len(served) : Following(accepted', served[k]) = Following(accepted, served[k])
    BY <2>2, <2>5 DEF Following, Numbered
  <2>7. ASSUME NEW k \in 1 .. Len(ring')
        PROVE  ring'[k] = accepted'[taken + k]
    <3>1. CASE k <= Len(ring)
      <4>1. ring'[k] = ring[k] /\ ring[k] = accepted[taken + k]
        BY <1>2, <2>1, <2>3, <3>1 DEF InOrderOnce
      <4>2. taken + k \in 1 .. Len(accepted)
        BY <2>1, <2>3, <3>1
      <4>3. accepted'[taken + k] = accepted[taken + k]
        BY <1>2, <2>1, <4>2
      <4> QED
        BY <4>1, <4>3
    <3>2. CASE k = Len(ring) + 1
      <4>1. ring'[k] = t
        BY <1>2, <2>1, <3>2
      <4>2. taken + k = Len(accepted) + 1
        BY <2>1, <2>3, <3>2
      <4>3. accepted'[taken + k] = t
        BY <1>2, <2>1, <4>2
      <4> QED
        BY <4>1, <4>3
    <3> QED
      BY <2>3, <2>4, <3>1, <3>2
  <2>8. Len(ring') = Len(accepted') - taken'
    BY <2>1, <2>2, <2>3, <2>4
  <2>9. Owed(dpPending', taken') = Owed(dpPending, taken)
    BY <2>2
  <2>10. Len(served) \in Nat /\ (served # <<>> => Len(served) \in 1 .. Len(served))
    BY <2>1
  <2>11. served' = served /\ taken' = taken
    BY <2>2
  <2>12. \A k \in 1 .. Len(served) - 1 : served'[k + 1] = Following(accepted', served[k])
    BY <2>6, <2>10, <2>11 DEF InOrderOnce
  <2>13. served # <<>> => Following(accepted', served[Len(served)]) = Owed(dpPending', taken')
    BY <2>6, <2>9, <2>10 DEF InOrderOnce
  <2>14. Numbered'
    BY <2>11 DEF Numbered
  <2> QED
    BY <2>7, <2>8, <2>9, <2>11, <2>12, <2>13, <2>14 DEF InOrderOnce
<1> QED
  BY <1>1, <1>2 DEF Submit

(* Serving what is owed appends it to the interrupts served, where it is   *)
(* what follows the last one.                                              *)
LEMMA OrderServe ==
    ASSUME TypeOK, InOrderOnce, Numbered,
           accepted' = accepted,
           taken' \in Nat, taken <= taken', Owed(dpPending, taken)[2] \in 1 .. taken',
           served' = Append(served, Owed(dpPending, taken)),
           Following(accepted, Owed(dpPending, taken)) = Owed(dpPending', taken'),
           Len(ring') = Len(accepted') - taken',
           \A k \in 1 .. Len(ring') : ring'[k] = accepted'[taken' + k]
    PROVE  InOrderOnce' /\ Numbered'
<1> DEFINE i == Owed(dpPending, taken)
<1>1. served \in Seq(Interrupt) /\ taken \in Nat /\ i \in Interrupt
  BY DEF TypeOK, Owed, Interrupt
<1>2. Len(served) \in Nat /\ Len(served') = Len(served) + 1
  BY <1>1
<1>3. \A k \in 1 .. Len(served) : served'[k] = served[k]
  BY <1>1, <1>2
<1>4. served'[Len(served) + 1] = i
  BY <1>1, <1>2
<1>5. \A j : Following(accepted', j) = Following(accepted, j)
  OBVIOUS
<1> HIDE DEF i
<1>6. served'[1] = <<"SP", 1>>
  <2>1. CASE served = <<>>
    <3>1. Len(served) = 0 /\ i = <<"SP", 1>>
      BY <2>1 DEF InOrderOnce, i
    <3> QED
      BY <1>4, <3>1
  <2>2. CASE served # <<>>
    <3>1. 1 \in 1 .. Len(served) /\ served[1] = <<"SP", 1>>
      BY <1>1, <1>2, <2>2 DEF InOrderOnce
    <3> QED
      BY <1>3, <3>1
  <2> QED
    BY <2>1, <2>2
<1>7. Following(accepted', served'[Len(served')]) = Owed(dpPending', taken')
  BY <1>2, <1>4, <1>5 DEF i
<1>8. ASSUME NEW k \in 1 .. Len(served') - 1
      PROVE  served'[k + 1] = Following(accepted', served'[k])
  <2>1. k \in 1 .. Len(served) /\ served'[k] = served[k]
    BY <1>2, <1>3
  <2>2. CASE k < Len(served)
    <3>1. k \in 1 .. Len(served) - 1 /\ k + 1 \in 1 .. Len(served)
      BY <1>2, <2>1, <2>2
    <3>2. served[k + 1] = Following(accepted, served[k])
      BY <3>1 DEF InOrderOnce
    <3>3. served'[k + 1] = served[k + 1]
      BY <1>3, <3>1
    <3> QED
      BY <1>5, <2>1, <3>2, <3>3
  <2>3. CASE k = Len(served)
    <3>1. served # <<>>
      BY <1>2, <2>1, <2>3
    <3>2. Following(accepted, served[Len(served)]) = i
      BY <3>1 DEF InOrderOnce, i
    <3> QED
      BY <1>4, <1>5, <2>1, <2>3, <3>2
  <2> QED
    BY <1>2, <2>1, <2>2, <2>3
<1>9. served' # <<>>
  BY <1>1, <1>2
<1>10. InOrderOnce'
  BY <1>6, <1>7, <1>8, <1>9 DEF InOrderOnce
<1>11. ASSUME NEW k \in 1 .. Len(served')
       PROVE  served'[k][2] \in 1 .. taken'
  <2>1. CASE k \in 1 .. Len(served)
    <3>1. served'[k] = served[k] /\ served[k][2] \in 1 .. taken
      BY <1>3, <2>1 DEF Numbered
    <3> QED
      BY <1>1, <3>1
  <2>2. CASE k = Len(served) + 1
    BY <1>4, <2>2 DEF i
  <2> QED
    BY <1>2, <2>1, <2>2
<1> QED
  BY <1>10, <1>11 DEF Numbered

LEMMA OrderDp ==
    ASSUME TypeOK, InOrderOnce, Numbered, DeliverDp
    PROVE  InOrderOnce' /\ Numbered'
<1>1. /\ UNCHANGED <<ring, accepted, taken>>
      /\ dpPending /\ dpPending' = FALSE
      /\ served' = Append(served, <<"DP", taken>>)
  BY DEF DeliverDp
<1>2. Owed(dpPending, taken) = <<"DP", taken>> /\ Owed(dpPending', taken') = <<"SP", taken + 1>> /\ taken \in Nat
  BY <1>1 DEF Owed, TypeOK
<1>3. Following(accepted, Owed(dpPending, taken)) = Owed(dpPending', taken')
  BY <1>2 DEF Following
<1>4. taken \in 1 .. taken
  <2>1. served # <<>>
    BY <1>2 DEF InOrderOnce
  <2>2. Len(served) \in 1 .. Len(served) /\ served[Len(served)] \in Interrupt
    BY <2>1 DEF TypeOK
  <2>3. served[Len(served)][2] \in 1 .. taken
    BY <2>2 DEF Numbered
  <2> QED
    BY <1>2, <2>3
<1>5. Len(ring') = Len(accepted') - taken'
      /\ \A k \in 1 .. Len(ring') : ring'[k] = accepted'[taken' + k]
  BY <1>1 DEF InOrderOnce
<1>6. accepted' = accepted /\ taken' \in Nat /\ taken <= taken'
  BY <1>1, <1>2
<1>7. served' = Append(served, Owed(dpPending, taken))
  BY <1>1, <1>2
<1>8. Owed(dpPending, taken)[2] \in 1 .. taken'
  <2>1. <<"DP", taken>>[2] = taken
    OBVIOUS
  <2> QED
    BY <1>1, <1>2, <1>4, <2>1
<1> QED
  BY <1>3, <1>5, <1>6, <1>7, <1>8, OrderServe

LEMMA OrderSp ==
    ASSUME TypeOK, InOrderOnce, Numbered, DeliverSp
    PROVE  InOrderOnce' /\ Numbered'
<1>1. /\ UNCHANGED accepted
      /\ ~dpPending /\ dpPending' = (Head(ring) = "gfx" /\ "DP" \in Mask)
      /\ ring # <<>> /\ ring' = Tail(ring) /\ taken' = taken + 1
      /\ served' = Append(served, <<"SP", taken + 1>>)
  BY DEF DeliverSp
<1>2. ring \in Seq(Task) /\ taken \in Nat /\ Len(accepted) \in Nat
  BY DEF TypeOK
<1>3. Len(ring) \in Nat /\ Len(ring) > 0 /\ Len(ring) = Len(accepted) - taken
  BY <1>1, <1>2 DEF InOrderOnce
<1>4. Head(ring) = accepted[taken + 1]
  <2>1. Head(ring) = ring[1]
    BY <1>1, <1>2
  <2>2. ring[1] = accepted[taken + 1]
    BY <1>3 DEF InOrderOnce
  <2> QED
    BY <2>1, <2>2
<1>5. Owed(dpPending, taken) = <<"SP", taken + 1>>
  BY <1>1 DEF Owed
<1>6. Following(accepted, Owed(dpPending, taken)) = IF dpPending' THEN <<"DP", taken + 1>> ELSE <<"SP", taken + 2>>
  <2>1. (taken + 1) + 1 = taken + 2
    BY <1>2
  <2>2. <<"SP", taken + 1>>[1] = "SP" /\ <<"SP", taken + 1>>[2] = taken + 1
    OBVIOUS
  <2>3. Following(accepted, <<"SP", taken + 1>>) =
          IF accepted[taken + 1] = "gfx" /\ "DP" \in Mask
          THEN <<"DP", taken + 1>> ELSE <<"SP", taken + 2>>
    BY <2>1, <2>2 DEF Following
  <2> QED
    BY <1>1, <1>4, <1>5, <2>3
<1>7. Owed(dpPending', taken') = IF dpPending' THEN <<"DP", taken + 1>> ELSE <<"SP", taken + 2>>
  BY <1>1, <1>2 DEF Owed
<1>8. Len(ring') = Len(ring) - 1 /\ \A k \in 1 .. Len(ring) - 1 : ring'[k] = ring[k + 1]
  BY <1>1, <1>2, <1>3
<1>9. Len(ring') = Len(accepted') - taken'
  BY <1>1, <1>2, <1>3, <1>8
<1>10. ASSUME NEW k \in 1 .. Len(ring')
       PROVE  ring'[k] = accepted'[taken' + k]
  <2>1. k + 1 \in 1 .. Len(ring) /\ ring'[k] = ring[k + 1]
    BY <1>3, <1>8
  <2>2. ring[k + 1] = accepted[taken + (k + 1)]
    BY <2>1 DEF InOrderOnce
  <2>3. taken + (k + 1) = taken' + k
    BY <1>1, <1>2
  <2> QED
    BY <1>1, <2>1, <2>2, <2>3
<1>11. taken' \in Nat /\ taken <= taken' /\ Owed(dpPending, taken)[2] \in 1 .. taken'
  BY <1>1, <1>2, <1>5
<1> QED
  BY <1>1, <1>5, <1>6, <1>7, <1>9, <1>10, <1>11, OrderServe

LEMMA OrderNext == OrderInv /\ [Next]_vars => OrderInv'
<1> SUFFICES ASSUME OrderInv, [Next]_vars PROVE OrderInv'
  OBVIOUS
<1>1. TypeInv'
  BY TypeNext DEF OrderInv
<1>2. TypeOK /\ InOrderOnce /\ Numbered
  BY DEF OrderInv, TypeInv
<1>3. ASSUME NEW t \in Task, Submit(t) PROVE InOrderOnce' /\ Numbered'
  BY <1>2, <1>3, OrderSubmit
<1>4. ASSUME DeliverDp PROVE InOrderOnce' /\ Numbered'
  BY <1>2, <1>4, OrderDp
<1>5. ASSUME DeliverSp PROVE InOrderOnce' /\ Numbered'
  BY <1>2, <1>5, OrderSp
<1>6. ASSUME UNCHANGED rspVars PROVE InOrderOnce' /\ Numbered'
  BY <1>2, <1>6, OrderUntouched
<1>7. \/ UNCHANGED rspVars
      \/ \E t \in Task : Submit(t)
      \/ DeliverDp \/ DeliverSp
  BY DEF Next, PassStep, Game, Device, Register, Receive, StartSi, SetCompare, QueueAi,
         CountReaches, AiPlayed, BeginPass, BeginRspPass, RspWaits, DrainSi, PostVideo,
         PostCounter, PostAi, vars
<1>8. InOrderOnce' /\ Numbered'
  BY <1>3, <1>4, <1>5, <1>6, <1>7
<1> QED
  BY <1>1, <1>8 DEF OrderInv

-----------------------------------------------------------------------------
(* Type correctness: in particular every message queue stays within its    *)
(* capacity, whatever events are routed to it, and the AI never holds more *)
(* than two DMAs.                                                          *)
THEOREM DeviceTypeCorrect == Spec => []TypeOK
<1>1. TypeInv => TypeOK
  BY DEF TypeInv
<1> QED
  BY <1>1, TypeInit, TypeNext, PTL DEF Spec

(* The RSP's interrupts are served once each and in order, for every       *)
(* routing, capacity and number of tasks.                                  *)
THEOREM InOrderOnceCorrect == Spec => []InOrderOnce
<1>1. OrderInv => InOrderOnce
  BY DEF OrderInv
<1> QED
  BY <1>1, OrderInit, OrderNext, PTL DEF Spec

(* A posted message is at the end of its queue.                            *)
LEMMA PostKept ==
    ASSUME NEW e \in Event, ~Blocked(e), msgs' = PostIfOn(msgs, e)
    PROVE  Kept(e)
BY DEF Blocked, Kept, PostIfOn, Post, Posts

LEMMA KeptNext ==
    TypeInv /\ [Next]_vars =>
        /\ served' # served => Kept(served'[Len(served')][1])
        /\ siDone' < siDone =>
              Len(msgs'[Route["SI"]]) - Len(msgs[Route["SI"]]) = siDone - siDone'
        /\ compare = "reached" /\ compare' = "off" => Kept("COUNTER")
<1> SUFFICES ASSUME TypeInv, [Next]_vars
             PROVE  /\ served' # served => Kept(served'[Len(served')][1])
                    /\ siDone' < siDone =>
                          Len(msgs'[Route["SI"]]) - Len(msgs[Route["SI"]]) = siDone - siDone'
                    /\ compare = "reached" /\ compare' = "off" => Kept("COUNTER")
  OBVIOUS
<1> USE DEF rspVars, siVars, aiVars, passVars
<1>1. TypeOK /\ siDone \in Nat
  BY DEF TypeInv, TypeOK
<1>2. CASE DeliverDp
  <2>1. served' = Append(served, <<"DP", taken>>) /\ served \in Seq(Interrupt)
    BY <1>1, <1>2 DEF DeliverDp, TypeOK
  <2>2. served'[Len(served')] = <<"DP", taken>>
    BY <2>1
  <2>3. Kept("DP")
    BY <1>2, PostKept DEF DeliverDp, Event
  <2>4. siDone' = siDone /\ compare' = compare
    BY <1>2 DEF DeliverDp
  <2> QED
    BY <1>1, <2>2, <2>3, <2>4
<1>3. CASE DeliverSp
  <2>1. served' = Append(served, <<"SP", taken'>>) /\ served \in Seq(Interrupt)
    BY <1>1, <1>3 DEF DeliverSp, TypeOK
  <2>2. served'[Len(served')] = <<"SP", taken'>>
    BY <2>1
  <2>3. Kept("SP")
    BY <1>3, PostKept DEF DeliverSp, Event
  <2>4. siDone' = siDone /\ compare' = compare
    BY <1>3 DEF DeliverSp
  <2> QED
    BY <1>1, <2>2, <2>3, <2>4
<1>4. CASE DrainSi
  <2>1. UNCHANGED <<served, compare>>
    BY <1>4 DEF DrainSi
  <2>2. Len(msgs'[Route["SI"]]) - Len(msgs[Route["SI"]]) = siDone - siDone'
    BY <1>1, <1>4, DrainBounded
  <2> QED
    BY <2>1, <2>2
<1>5. CASE PostCounter
  <2>1. UNCHANGED <<served, siDone>>
    BY <1>5 DEF PostCounter
  <2>2. ASSUME compare = "reached", compare' = "off"
        PROVE  Kept("COUNTER")
    <3>1. Posts(msgs, "COUNTER") /\ msgs' = Post(msgs, "COUNTER")
      BY <1>5, <2>2 DEF PostCounter
    <3> QED
      BY <3>1 DEF Kept, Post
  <2> QED
    BY <1>1, <2>1, <2>2
<1>6. CASE UNCHANGED <<served, siDone, compare>>
  BY <1>1, <1>6
<1>7. CASE StartSi
  BY <1>1, <1>7 DEF StartSi
<1>8. CASE SetCompare \/ CountReaches
  <2>1. UNCHANGED <<served, siDone>> /\ compare' # "off"
    BY <1>8 DEF SetCompare, CountReaches
  <2>2. ~(siDone' < siDone) /\ served' = served
    BY <1>1, <2>1
  <2> QED
    BY <2>1, <2>2
<1>9. \/ UNCHANGED <<served, siDone, compare>>
      \/ DeliverDp \/ DeliverSp \/ DrainSi \/ PostCounter \/ StartSi
      \/ SetCompare \/ CountReaches
  BY DEF Next, PassStep, Game, Device, Register, Receive, Submit, QueueAi, AiPlayed,
         BeginPass, BeginRspPass, RspWaits, PostVideo, PostAi, vars
<1> QED
  BY <1>2, <1>3, <1>4, <1>5, <1>6, <1>7, <1>8, <1>9

(* No completion of the RSP, the SI or the counter is lost to a full       *)
(* queue, for every routing and every capacity.                            *)
THEOREM CompletionKeptCorrect == Spec => CompletionKept
BY TypeInit, TypeNext, KeptNext, PTL DEF Spec, CompletionKept

-----------------------------------------------------------------------------
(* How many messages of an event are in a queue.                           *)
Places(s, e) == {k \in DOMAIN s : s[k] = e}
Messages(ms, e) == Cardinality(Places(ms[Route[e]], e))

LEMMA PlacesFinite ==
    ASSUME NEW s \in Seq(Event), NEW e
    PROVE  /\ IsFiniteSet(Places(s, e)) /\ Cardinality(Places(s, e)) \in Nat
           /\ Places(s, e) \in SUBSET (1 .. Len(s)) /\ Len(s) \in Nat
<1>1. DOMAIN s = 1 .. Len(s) /\ Len(s) \in Nat
  OBVIOUS
<1>2. IsFiniteSet(1 .. Len(s)) /\ Places(s, e) \in SUBSET (1 .. Len(s))
  BY <1>1, FS_Interval DEF Places
<1> QED
  BY <1>1, <1>2, FS_Subset, FS_CardinalityType

LEMMA PlacesAppend ==
    ASSUME NEW s \in Seq(Event), NEW x \in Event, NEW e
    PROVE  Cardinality(Places(Append(s, x), e)) =
              Cardinality(Places(s, e)) + (IF x = e THEN 1 ELSE 0)
<1>1. /\ Len(s) \in Nat /\ DOMAIN s = 1 .. Len(s)
      /\ DOMAIN Append(s, x) = 1 .. Len(s) + 1 /\ Append(s, x)[Len(s) + 1] = x
      /\ \A k \in 1 .. Len(s) : Append(s, x)[k] = s[k]
  OBVIOUS
<1>2. IsFiniteSet(Places(s, e)) /\ Cardinality(Places(s, e)) \in Nat
      /\ Len(s) + 1 \notin Places(s, e)
  <2>1. Len(s) + 1 \notin 1 .. Len(s)
    BY <1>1
  <2> QED
    BY <2>1, PlacesFinite
<1>3. CASE x = e
  <2>1. Places(Append(s, x), e) = Places(s, e) \union {Len(s) + 1}
    BY <1>1, <1>3 DEF Places
  <2> QED
    BY <1>2, <1>3, <2>1, FS_AddElement
<1>4. CASE x # e
  <2>1. Places(Append(s, x), e) = Places(s, e)
    BY <1>1, <1>4 DEF Places
  <2> QED
    BY <1>2, <1>4, <2>1
<1> QED
  BY <1>3, <1>4

LEMMA PlacesTail ==
    ASSUME NEW s \in Seq(Event), s # <<>>, NEW e
    PROVE  Cardinality(Places(Tail(s), e)) <= Cardinality(Places(s, e))
<1>1. /\ Len(s) \in Nat /\ DOMAIN s = 1 .. Len(s) /\ Tail(s) \in Seq(Event)
      /\ DOMAIN Tail(s) = 1 .. Len(s) - 1
      /\ \A k \in 1 .. Len(s) - 1 : Tail(s)[k] = s[k + 1]
  OBVIOUS
<1> DEFINE f == [k \in Places(Tail(s), e) |-> k + 1]
<1>2. \A k \in Places(Tail(s), e) : k + 1 \in Places(s, e) /\ k \in Nat
  BY <1>1 DEF Places
<1>3. f \in Injection(Places(Tail(s), e), Places(s, e))
  BY <1>2 DEF Injection, IsInjective
<1> QED
  BY <1>3, PlacesFinite, FS_Injection

LEMMA PlacesConcat ==
    ASSUME NEW s \in Seq(Event), NEW new \in Seq(Event), NEW n \in Nat, Len(new) = n,
           NEW x \in Event, NEW e \in Event, \A k \in 1 .. n : new[k] = x
    PROVE  /\ x = e => Cardinality(Places(s \o new, e)) = Cardinality(Places(s, e)) + n
           /\ x # e => Cardinality(Places(s \o new, e)) = Cardinality(Places(s, e))
<1> DEFINE both == s \o new
           added == Len(s) + 1 .. Len(s) + n
<1>1. n \in Nat /\ Len(new) = n /\ \A k \in 1 .. n : new[k] = x
  OBVIOUS
<1>2. /\ Len(s) \in Nat /\ DOMAIN s = 1 .. Len(s)
      /\ DOMAIN both = 1 .. Len(s) + n
      /\ \A k \in 1 .. Len(s) : both[k] = s[k]
      /\ \A k \in added : both[k] = x
  BY <1>1
<1> HIDE DEF both
<1>3. /\ IsFiniteSet(Places(s, e)) /\ Cardinality(Places(s, e)) \in Nat
      /\ Places(s, e) \intersect added = {}
      /\ IsFiniteSet(added) /\ Cardinality(added) = n
  <2>1. IsFiniteSet(added) /\ Cardinality(added) = n
    BY <1>2, FS_Interval
  <2>2. (1 .. Len(s)) \intersect added = {}
    BY <1>2
  <2>3. /\ IsFiniteSet(Places(s, e)) /\ Cardinality(Places(s, e)) \in Nat
        /\ Places(s, e) \in SUBSET (1 .. Len(s))
    BY PlacesFinite
  <2> HIDE DEF added
  <2> QED
    BY <2>1, <2>2, <2>3
<1>4. CASE x = e
  <2>1. Places(both, e) = Places(s, e) \union added
    BY <1>2, <1>4 DEF Places
  <2>2. Cardinality({}) = 0
    BY FS_EmptySet
  <2> HIDE DEF added
  <2>3. Cardinality(Places(both, e)) = Cardinality(Places(s, e)) + n - 0
    <3> DEFINE P == Places(s, e)
    <3>1. IsFiniteSet(P) /\ IsFiniteSet(added) /\ P \intersect added = {}
          /\ Cardinality(P) \in Nat /\ Cardinality(added) = n
      BY <1>3
    <3> HIDE DEF P
    <3>2. Cardinality(P \union added)
            = Cardinality(P) + Cardinality(added) - Cardinality(P \intersect added)
      BY <3>1, FS_Union
    <3>3. Cardinality(P \union added) = Cardinality(P) + n - 0
      BY <2>2, <3>1, <3>2
    <3> QED
      BY <2>1, <3>3 DEF P
  <2> QED
    BY <1>3, <1>4, <2>3 DEF both
<1>5. CASE x # e
  <2>1. Places(both, e) = Places(s, e)
    BY <1>2, <1>5 DEF Places
  <2> QED
    BY <1>3, <1>5, <2>1 DEF both
<1> QED
  BY <1>4, <1>5

(* A post adds at most its own message.                                    *)
LEMMA PostAddsOne ==
    ASSUME NEW ms, MsgsOK(ms), NEW e \in Event, NEW f \in Event
    PROVE  /\ Messages(Post(ms, e), f) <= Messages(ms, f) + (IF e = f THEN 1 ELSE 0)
           /\ Messages(PostIfOn(ms, e), f) <=
                 Messages(ms, f) + (IF e = f /\ e \in Mask THEN 1 ELSE 0)
<1>1. /\ Route[e] \in Queue /\ Route[f] \in Queue /\ ms[Route[e]] \in Seq(Event)
      /\ ms[Route[f]] \in Seq(Event) /\ Messages(ms, f) \in Nat
      /\ DOMAIN ms = Queue
  BY DeviceEventsAssumption, PlacesFinite DEF MsgsOK, Messages
<1>2. Messages(Post(ms, e), f) <= Messages(ms, f) + (IF e = f THEN 1 ELSE 0)
  <2>1. CASE ~ Posts(ms, e) \/ Route[e] # Route[f]
    <3>1. Post(ms, e)[Route[f]] = ms[Route[f]]
      BY <1>1, <2>1 DEF Post
    <3>2. Messages(Post(ms, e), f) = Messages(ms, f)
      BY <3>1 DEF Messages
    <3> QED
      BY <1>1, <3>2
  <2>2. CASE Posts(ms, e) /\ Route[e] = Route[f]
    <3>1. Post(ms, e)[Route[f]] = Append(ms[Route[f]], e)
      BY <1>1, <2>2 DEF Post
    <3>2. Messages(Post(ms, e), f) = Messages(ms, f) + (IF e = f THEN 1 ELSE 0)
      BY <1>1, <3>1, PlacesAppend DEF Messages
    <3> QED
      BY <1>1, <3>2
  <2> QED
    BY <2>1, <2>2
<1> QED
  BY <1>1, <1>2 DEF PostIfOn

-----------------------------------------------------------------------------
(* No message without its cause.                                           *)

GfxTaken == {k \in 1 .. taken : accepted[k] = "gfx"}

(* A DP that is still owed counts as a message of its task.                *)
Counted ==
    /\ Messages(msgs, "SI") + siDone <= transfers
    /\ Messages(msgs, "SP") <= taken
    /\ Messages(msgs, "DP") + (IF dpPending THEN 1 ELSE 0) <= Cardinality(GfxTaken)

CountInv == OrderInv /\ Counted

LEMMA CountsAreNat ==
    ASSUME TypeInv
    PROVE  /\ \A e \in Event : Messages(msgs, e) \in Nat
           /\ siDone \in Nat /\ transfers \in Nat /\ taken \in Nat
           /\ MsgsOK(msgs)
           /\ IsFiniteSet(GfxTaken) /\ Cardinality(GfxTaken) \in Nat
<1>1. ASSUME NEW e \in Event PROVE Messages(msgs, e) \in Nat
  <2>1. msgs[Route[e]] \in Seq(Event)
    BY DeviceEventsAssumption DEF TypeInv, TypeOK
  <2> QED
    BY <2>1, PlacesFinite DEF Messages
<1>2. siDone \in Nat /\ transfers \in Nat /\ taken \in Nat /\ MsgsOK(msgs)
  BY DEF TypeInv, TypeOK, MsgsOK
<1>3. IsFiniteSet(1 .. taken) /\ GfxTaken \in SUBSET (1 .. taken)
  BY <1>2, FS_Interval DEF GfxTaken
<1> QED
  BY <1>1, <1>2, <1>3, FS_Subset, FS_CardinalityType

LEMMA CountInit == Init => CountInv
<1> SUFFICES ASSUME Init PROVE CountInv
  OBVIOUS
<1>1. OrderInv /\ TypeInv
  BY OrderInit, TypeInit
<1>2. ASSUME NEW e \in Event PROVE Messages(msgs, e) = 0
  <2>1. msgs[Route[e]] = <<>>
    BY DeviceEventsAssumption DEF Init
  <2>2. Places(<<>>, e) = {}
    BY DEF Places
  <2> QED
    BY <2>1, <2>2, FS_EmptySet DEF Messages
<1>3. Cardinality(GfxTaken) \in Nat
  BY <1>1, CountsAreNat
<1>4. siDone = 0 /\ transfers = 0 /\ taken = 0 /\ dpPending = FALSE
  BY DEF Init
<1> QED
  BY <1>1, <1>2, <1>3, <1>4 DEF CountInv, Counted, Event

(* A step that moves no device's account may only take messages away.      *)
LEMMA CountedAnyway ==
    ASSUME CountInv, TypeInv', UNCHANGED <<dpPending, accepted, taken, siDone>>,
           transfers' = transfers \/ transfers' = transfers + 1,
           \A e \in {"SI", "SP", "DP"} : Messages(msgs', e) <= Messages(msgs, e)
    PROVE  Counted'
<1>1. GfxTaken' = GfxTaken
  BY DEF GfxTaken
<1>2. /\ Messages(msgs, "SI") \in Nat /\ Messages(msgs, "SP") \in Nat
      /\ Messages(msgs, "DP") \in Nat /\ siDone \in Nat /\ transfers \in Nat /\ taken \in Nat
      /\ Cardinality(GfxTaken) \in Nat
  BY CountsAreNat DEF CountInv, OrderInv, Event
<1>3. /\ Messages(msgs', "SI") \in Nat /\ Messages(msgs', "SP") \in Nat
      /\ Messages(msgs', "DP") \in Nat
  <2>1. \A e \in Event : Messages(msgs', e) \in Nat
    <3>1. \A e \in Event : msgs'[Route[e]] \in Seq(Event)
      BY DeviceEventsAssumption DEF TypeInv, TypeOK
    <3> QED
      BY <3>1, PlacesFinite DEF Messages
  <2> QED
    BY <2>1 DEF Event
<1>4. /\ Messages(msgs', "SI") <= Messages(msgs, "SI")
      /\ Messages(msgs', "SP") <= Messages(msgs, "SP")
      /\ Messages(msgs', "DP") <= Messages(msgs, "DP")
  OBVIOUS
<1>5. Messages(msgs', "SI") + siDone' <= transfers'
  BY <1>2, <1>3, <1>4 DEF CountInv, Counted
<1>6. Messages(msgs', "SP") <= taken'
  BY <1>2, <1>3, <1>4 DEF CountInv, Counted
<1>7. Messages(msgs', "DP") + (IF dpPending' THEN 1 ELSE 0) <= Cardinality(GfxTaken')
  BY <1>1, <1>2, <1>3, <1>4 DEF CountInv, Counted
<1> QED
  BY <1>5, <1>6, <1>7 DEF Counted, Messages

LEMMA CountReceive ==
    ASSUME CountInv, TypeInv', NEW m \in Queue, Receive(m) PROVE Counted'
<1>1. /\ UNCHANGED <<dpPending, accepted, taken, siDone, transfers>>
      /\ msgs[m] # <<>> /\ msgs' = [msgs EXCEPT ![m] = Tail(@)]
  BY DEF Receive, rspVars, siVars
<1>2. ASSUME NEW e \in Event PROVE Messages(msgs', e) <= Messages(msgs, e)
  <2>1. Route[e] \in Queue /\ msgs[Route[e]] \in Seq(Event) /\ DOMAIN msgs = Queue
        /\ Messages(msgs, e) \in Nat
    BY DeviceEventsAssumption, CountsAreNat DEF CountInv, OrderInv, TypeInv, TypeOK
  <2>2. CASE m = Route[e]
    <3>1. msgs'[Route[e]] = Tail(msgs[Route[e]])
      BY <1>1, <2>1, <2>2
    <3> QED
      BY <1>1, <2>1, <2>2, <3>1, PlacesTail DEF Messages
  <2>3. CASE m # Route[e]
    <3>1. msgs'[Route[e]] = msgs[Route[e]]
      BY <1>1, <2>1, <2>3
    <3>2. Messages(msgs', e) = Messages(msgs, e)
      BY <3>1 DEF Messages
    <3> QED
      BY <2>1, <3>2
  <2> QED
    BY <2>2, <2>3
<1> QED
  BY <1>1, <1>2, CountedAnyway DEF Event

LEMMA CountDp ==
    ASSUME CountInv, DeliverDp PROVE Counted'
<1>1. /\ dpPending = TRUE /\ dpPending' = FALSE /\ msgs' = PostIfOn(msgs, "DP")
      /\ UNCHANGED <<accepted, taken, siDone, transfers>>
  BY DEF DeliverDp, siVars, CountInv, OrderInv, TypeInv, TypeOK
<1>2. GfxTaken' = GfxTaken
  BY <1>1 DEF GfxTaken
<1>3. /\ Messages(msgs, "SI") \in Nat /\ Messages(msgs, "SP") \in Nat
      /\ Messages(msgs, "DP") \in Nat /\ siDone \in Nat /\ transfers \in Nat /\ taken \in Nat
      /\ Cardinality(GfxTaken) \in Nat /\ MsgsOK(msgs)
  BY CountsAreNat DEF CountInv, OrderInv, Event
<1>4. MsgsOK(msgs')
  BY <1>1, <1>3, PostBounded DEF Event
<1>5. /\ Messages(msgs', "SI") \in Nat /\ Messages(msgs', "SP") \in Nat
      /\ Messages(msgs', "DP") \in Nat
  <2>1. \A e \in Event : msgs'[Route[e]] \in Seq(Event)
    BY <1>4, DeviceEventsAssumption DEF MsgsOK
  <2> QED
    BY <2>1, PlacesFinite DEF Messages, Event
<1>6. Messages(msgs', "SI") <= Messages(msgs, "SI")
  BY <1>1, <1>3, PostAddsOne DEF Event
<1>7. Messages(msgs', "SP") <= Messages(msgs, "SP")
  BY <1>1, <1>3, PostAddsOne DEF Event
<1>8. Messages(msgs', "DP") <= Messages(msgs, "DP") + 1
  <2>1. Messages(msgs', "DP") <= Messages(msgs, "DP") + (IF "DP" \in Mask THEN 1 ELSE 0)
    BY <1>1, <1>3, PostAddsOne DEF Event
  <2> QED
    BY <1>3, <1>5, <2>1
<1>9. Messages(msgs, "DP") + 1 <= Cardinality(GfxTaken)
  BY <1>1 DEF CountInv, Counted
<1>10. /\ Messages(msgs', "SI") + siDone' <= transfers' /\ Messages(msgs', "SP") <= taken'
  BY <1>1, <1>3, <1>5, <1>6, <1>7 DEF CountInv, Counted
<1>11. Messages(msgs', "DP") + (IF dpPending' THEN 1 ELSE 0) <= Cardinality(GfxTaken')
  BY <1>1, <1>2, <1>3, <1>5, <1>8, <1>9
<1> QED
  BY <1>10, <1>11 DEF Counted, Messages

(* The task whose SP is served is the next accepted one: if it is a        *)
(* graphics task, its DP is owed.                                          *)
LEMMA CountSp ==
    ASSUME CountInv, DeliverSp PROVE Counted'
<1>1. /\ dpPending = FALSE /\ dpPending' = (Head(ring) = "gfx" /\ "DP" \in Mask)
      /\ ring # <<>> /\ taken' = taken + 1
      /\ msgs' = PostIfOn(msgs, "SP") /\ UNCHANGED <<accepted, siDone, transfers>>
  BY DEF DeliverSp, siVars, CountInv, OrderInv, TypeInv, TypeOK
<1>2. /\ Messages(msgs, "SI") \in Nat /\ Messages(msgs, "SP") \in Nat
      /\ Messages(msgs, "DP") \in Nat /\ siDone \in Nat /\ transfers \in Nat /\ taken \in Nat
      /\ Cardinality(GfxTaken) \in Nat /\ IsFiniteSet(GfxTaken) /\ MsgsOK(msgs)
  BY CountsAreNat DEF CountInv, OrderInv, Event
<1>3. MsgsOK(msgs')
  BY <1>1, <1>2, PostBounded DEF Event
<1>4. /\ Messages(msgs', "SI") \in Nat /\ Messages(msgs', "SP") \in Nat
      /\ Messages(msgs', "DP") \in Nat
  <2>1. \A e \in Event : msgs'[Route[e]] \in Seq(Event)
    BY <1>3, DeviceEventsAssumption DEF MsgsOK
  <2> QED
    BY <2>1, PlacesFinite DEF Messages, Event
<1>5. /\ Messages(msgs', "SI") <= Messages(msgs, "SI")
      /\ Messages(msgs', "SP") <= Messages(msgs, "SP") + 1
      /\ Messages(msgs', "DP") <= Messages(msgs, "DP")
  <2>1. Messages(msgs', "SI") <= Messages(msgs, "SI")
    BY <1>1, <1>2, PostAddsOne DEF Event
  <2>2. Messages(msgs', "SP") <= Messages(msgs, "SP") + (IF "SP" \in Mask THEN 1 ELSE 0)
    BY <1>1, <1>2, PostAddsOne DEF Event
  <2>3. Messages(msgs', "DP") <= Messages(msgs, "DP")
    BY <1>1, <1>2, PostAddsOne DEF Event
  <2> QED
    BY <1>2, <1>4, <2>1, <2>2, <2>3
<1>6. Head(ring) = accepted[taken + 1]
  <2>1. ring \in Seq(Task) /\ ring # <<>> /\ \A k \in 1 .. Len(ring) : ring[k] = accepted[taken + k]
    BY <1>1 DEF CountInv, OrderInv, TypeInv, TypeOK, InOrderOnce
  <2>2. 1 \in 1 .. Len(ring) /\ Head(ring) = ring[1]
    BY <2>1
  <2> QED
    BY <2>1, <2>2
<1>7. Cardinality(GfxTaken') = Cardinality(GfxTaken) + (IF Head(ring) = "gfx" THEN 1 ELSE 0)
  <2>1. 1 .. taken' = (1 .. taken) \union {taken + 1} /\ taken + 1 \notin 1 .. taken
    BY <1>1, <1>2
  <2>2. GfxTaken' = {k \in 1 .. taken' : accepted[k] = "gfx"}
    BY <1>1 DEF GfxTaken
  <2>3. CASE Head(ring) = "gfx"
    <3>1. GfxTaken' = GfxTaken \union {taken + 1} /\ taken + 1 \notin GfxTaken
      BY <1>6, <2>1, <2>2, <2>3 DEF GfxTaken
    <3> QED
      BY <1>2, <2>3, <3>1, FS_AddElement
  <2>4. CASE Head(ring) # "gfx"
    <3>1. GfxTaken' = GfxTaken
      BY <1>6, <2>1, <2>2, <2>4 DEF GfxTaken
    <3> QED
      BY <1>2, <2>4, <3>1
  <2> QED
    BY <2>3, <2>4
<1>8. /\ Messages(msgs, "DP") + 0 <= Cardinality(GfxTaken)
      /\ Messages(msgs, "SP") <= taken /\ Messages(msgs, "SI") + siDone <= transfers
  BY <1>1 DEF CountInv, Counted
<1>9. /\ Messages(msgs', "SI") + siDone' <= transfers' /\ Messages(msgs', "SP") <= taken'
  BY <1>1, <1>2, <1>4, <1>5, <1>8
<1>10. Messages(msgs', "DP") + (IF dpPending' THEN 1 ELSE 0) <= Cardinality(GfxTaken')
  <2>1. dpPending' => Head(ring) = "gfx"
    BY <1>1
  <2>2. CASE Head(ring) = "gfx"
    <3>1. Cardinality(GfxTaken') = Cardinality(GfxTaken) + 1
      BY <1>7, <2>2
    <3> QED
      BY <1>2, <1>4, <1>5, <1>8, <3>1
  <2>3. CASE Head(ring) # "gfx"
    <3>1. Cardinality(GfxTaken') = Cardinality(GfxTaken) + 0 /\ ~ dpPending'
      BY <1>7, <2>1, <2>3
    <3> QED
      BY <1>2, <1>4, <1>5, <1>8, <3>1
  <2> QED
    BY <2>2, <2>3
<1> QED
  BY <1>9, <1>10 DEF Counted, Messages

LEMMA CountDrain ==
    ASSUME CountInv, DrainSi PROVE Counted'
<1> DEFINE room == Cap[Route["SI"]] - Len(msgs[Route["SI"]])
           n == IF "SI" \in Mask \cap registered THEN Least({siDone, SiBatch, room}) ELSE 0
           new == [i \in 1 .. n |-> "SI"]
<1>1. /\ msgs' = [msgs EXCEPT ![Route["SI"]] = @ \o new] /\ siDone' = siDone - n
      /\ UNCHANGED <<dpPending, accepted, taken, transfers>>
  BY DEF DrainSi, rspVars
<1>2. /\ Messages(msgs, "SI") \in Nat /\ Messages(msgs, "SP") \in Nat
      /\ Messages(msgs, "DP") \in Nat /\ siDone \in Nat /\ transfers \in Nat /\ taken \in Nat
      /\ Cardinality(GfxTaken) \in Nat /\ MsgsOK(msgs) /\ TypeOK
  BY CountsAreNat DEF CountInv, OrderInv, TypeInv, Event
<1>3. n \in Nat /\ n <= siDone
  <2>1. Route["SI"] \in Queue /\ Cap[Route["SI"]] \in Nat /\ SiBatch \in Nat
    BY DeviceEventsAssumption DEF Event
  <2>2. room \in Nat
    <3>1. Len(msgs[Route["SI"]]) \in Nat /\ Len(msgs[Route["SI"]]) <= Cap[Route["SI"]]
      BY <1>2, <2>1 DEF MsgsOK
    <3> QED
      BY <2>1, <3>1
  <2> HIDE DEF room
  <2> QED
    BY <1>2, <2>1, <2>2, LeastOfThree
<1> HIDE DEF n, room
<1>4. ASSUME NEW e \in Event
      PROVE  Messages(msgs', e) = Messages(msgs, e) + (IF e = "SI" THEN n ELSE 0)
  <2>1. /\ Route[e] \in Queue /\ Route["SI"] \in Queue /\ msgs[Route[e]] \in Seq(Event)
        /\ DOMAIN msgs = Queue /\ Messages(msgs, e) \in Nat
    BY <1>2, DeviceEventsAssumption, PlacesFinite DEF MsgsOK, Event, Messages
  <2>2. CASE Route[e] = Route["SI"]
    <3>1. msgs'[Route[e]] = msgs[Route[e]] \o new
      BY <1>1, <2>1, <2>2
    <3>2. "SI" \in Event
      BY DEF Event
    <3>3. Cardinality(Places(msgs[Route[e]] \o new, e)) =
             Cardinality(Places(msgs[Route[e]], e)) + (IF "SI" = e THEN n ELSE 0)
      <4>1. PICK q \in Seq(Event) : q = msgs[Route[e]]
        BY <2>1
      <4>2. /\ new \in Seq(Event) /\ Len(new) = n
            /\ \A k \in 1 .. n : new[k] = "SI"
        BY <1>3, <3>2
      <4> HIDE DEF new
      <4>3. PICK u \in Seq(Event), m \in Nat :
               u = new /\ m = n /\ Len(u) = m /\ \A k \in 1 .. m : u[k] = "SI"
        BY <1>3, <4>2
      <4>4. /\ "SI" = e => Cardinality(Places(q \o u, e)) = Cardinality(Places(q, e)) + m
            /\ "SI" # e => Cardinality(Places(q \o u, e)) = Cardinality(Places(q, e))
        <5>1. PICK x \in Event : x = "SI"
          BY <3>2
        <5>2. \A k \in 1 .. m : u[k] = x
          BY <4>3, <5>1
        <5>3. /\ x = e => Cardinality(Places(q \o u, e)) = Cardinality(Places(q, e)) + m
              /\ x # e => Cardinality(Places(q \o u, e)) = Cardinality(Places(q, e))
          BY <4>1, <4>3, <5>2, PlacesConcat
        <5> QED
          BY <5>1, <5>3
      <4>5. Cardinality(Places(q, e)) \in Nat
        BY <4>1, PlacesFinite
      <4> QED
        BY <4>1, <4>3, <4>4, <4>5
    <3> QED
      BY <3>1, <3>3 DEF Messages
  <2>3. CASE Route[e] # Route["SI"]
    <3>1. msgs'[Route[e]] = msgs[Route[e]] /\ e # "SI"
      BY <1>1, <2>1, <2>3
    <3>2. Messages(msgs', e) = Messages(msgs, e)
      BY <3>1 DEF Messages
    <3> QED
      BY <2>1, <3>1, <3>2
  <2> QED
    BY <2>2, <2>3
<1>5. /\ Messages(msgs', "SI") = Messages(msgs, "SI") + n
      /\ Messages(msgs', "SP") = Messages(msgs, "SP")
      /\ Messages(msgs', "DP") = Messages(msgs, "DP")
  BY <1>2, <1>4 DEF Event
<1>6. GfxTaken' = GfxTaken
  BY <1>1 DEF GfxTaken
<1>7. Messages(msgs', "SI") + siDone' <= transfers'
  BY <1>1, <1>2, <1>3, <1>5 DEF CountInv, Counted
<1>8. Messages(msgs', "SP") <= taken'
  BY <1>1, <1>5 DEF CountInv, Counted
<1>9. Messages(msgs', "DP") + (IF dpPending' THEN 1 ELSE 0) <= Cardinality(GfxTaken')
  BY <1>1, <1>5, <1>6 DEF CountInv, Counted
<1> QED
  BY <1>7, <1>8, <1>9 DEF Counted, Messages

(* The retrace and the AI post nothing that is counted.                    *)
LEMMA CountOthers ==
    ASSUME CountInv, TypeInv', PostVideo \/ PostCounter \/ PostAi PROVE Counted'
<1>1. UNCHANGED <<dpPending, accepted, taken, siDone, transfers>>
  BY DEF PostVideo, PostCounter, PostAi, rspVars, siVars
<1>2. MsgsOK(msgs)
  BY CountsAreNat DEF CountInv, OrderInv
<1>3. ASSUME NEW e \in {"SI", "SP", "DP"} PROVE Messages(msgs', e) <= Messages(msgs, e)
  <2>1. \A ms, f : MsgsOK(ms) /\ f \in {"VI", "PI", "COUNTER", "AI"}
           => /\ MsgsOK(PostIfOn(ms, f)) /\ MsgsOK(Post(ms, f))
              /\ Messages(PostIfOn(ms, f), e) <= Messages(ms, e)
              /\ Messages(Post(ms, f), e) <= Messages(ms, e)
              /\ Messages(ms, e) \in Nat
    <3> TAKE ms, f
    <3> HAVE MsgsOK(ms) /\ f \in {"VI", "PI", "COUNTER", "AI"}
    <3>1. e \in Event /\ f \in Event /\ e # f
      BY DEF Event
    <3>2. Messages(ms, e) \in Nat
      <4>1. ms[Route[e]] \in Seq(Event)
        BY <3>1, DeviceEventsAssumption DEF MsgsOK
      <4> QED
        BY <4>1, PlacesFinite DEF Messages
    <3>3. /\ Messages(Post(ms, f), e) <= Messages(ms, e) + 0
          /\ Messages(PostIfOn(ms, f), e) <= Messages(ms, e) + 0
      BY <3>1, PostAddsOne
    <3>4. MsgsOK(PostIfOn(ms, f)) /\ MsgsOK(Post(ms, f))
      BY <3>1, PostBounded
    <3> QED
      BY <3>2, <3>3, <3>4
  <2>2. Messages(msgs, e) \in Nat
    BY <1>2, <2>1
  <2>3. CASE PostVideo
    <3> DEFINE ms == PostIfOn(msgs, "VI")
    <3>1. msgs' = PostIfOn(ms, "PI")
      BY <2>3 DEF PostVideo
    <3>2. MsgsOK(ms) /\ Messages(ms, e) <= Messages(msgs, e)
      BY <1>2, <2>1
    <3> HIDE DEF ms
    <3>3. MsgsOK(PostIfOn(ms, "PI")) /\ Messages(PostIfOn(ms, "PI"), e) <= Messages(ms, e)
          /\ Messages(ms, e) \in Nat
      BY <2>1, <3>2
    <3>4. Messages(PostIfOn(ms, "PI"), e) \in Nat
      BY <2>1, <3>3
    <3> QED
      BY <2>2, <3>1, <3>2, <3>3, <3>4
  <2>4. CASE PostCounter
    <3>1. msgs' = msgs \/ msgs' = Post(msgs, "COUNTER")
      BY <2>4 DEF PostCounter
    <3> QED
      BY <1>2, <2>1, <2>2, <3>1
  <2>5. CASE PostAi
    <3>1. msgs' = msgs \/ msgs' = PostIfOn(msgs, "AI")
      BY <2>5 DEF PostAi
    <3> QED
      BY <1>2, <2>1, <2>2, <3>1
  <2> QED
    BY <2>3, <2>4, <2>5
<1> QED
  BY <1>1, <1>3, CountedAnyway

LEMMA CountNext == CountInv /\ [Next]_vars => CountInv'
<1> SUFFICES ASSUME CountInv, [Next]_vars PROVE CountInv'
  OBVIOUS
<1>1. OrderInv' /\ TypeInv'
  BY OrderNext, TypeNext DEF CountInv, OrderInv
<1>2. ASSUME NEW m \in Queue, Receive(m) PROVE Counted'
  BY <1>1, <1>2, CountReceive
<1>3. ASSUME DeliverDp \/ DeliverSp \/ DrainSi PROVE Counted'
  BY <1>3, CountDp, CountSp, CountDrain
<1>4. ASSUME PostVideo \/ PostCounter \/ PostAi PROVE Counted'
  BY <1>1, <1>4, CountOthers
<1>5. ASSUME NEW t \in Task, Submit(t) PROVE Counted'
  <2>1. UNCHANGED <<msgs, dpPending, taken, siDone, transfers>>
    BY <1>5 DEF Submit, siVars
  <2>2. /\ accepted \in Seq(Task) /\ Len(accepted) \in Nat /\ Len(ring) \in Nat /\ taken \in Nat
        /\ Len(ring) = Len(accepted) - taken
    BY DEF CountInv, OrderInv, TypeInv, TypeOK, InOrderOnce
  <2>3. taken <= Len(accepted)
    BY <2>2
  <2>4. \A k \in 1 .. taken : accepted'[k] = accepted[k]
    <3>1. accepted' = accepted \/ accepted' = Append(accepted, t)
      BY <1>5 DEF Submit
    <3>2. \A k \in 1 .. taken : k \in 1 .. Len(accepted)
      BY <2>2, <2>3
    <3> QED
      BY <2>2, <3>1, <3>2
  <2>5. GfxTaken' = GfxTaken
    BY <2>1, <2>4 DEF GfxTaken
  <2> QED
    BY <2>1, <2>5 DEF CountInv, Counted, Messages
<1>6. ASSUME StartSi PROVE Counted'
  <2>1. /\ transfers' = transfers + 1 /\ siDone' = siDone + 1
        /\ UNCHANGED <<msgs, dpPending, accepted, taken>>
    BY <1>6 DEF StartSi, rspVars
  <2>2. Messages(msgs, "SI") \in Nat /\ siDone \in Nat /\ transfers \in Nat
    BY CountsAreNat DEF CountInv, OrderInv, Event
  <2>3. GfxTaken' = GfxTaken
    BY <2>1 DEF GfxTaken
  <2>4. Messages(msgs', "SI") + siDone' <= transfers'
    BY <2>1, <2>2 DEF CountInv, Counted
  <2>5. /\ Messages(msgs', "SP") <= taken'
        /\ Messages(msgs', "DP") + (IF dpPending' THEN 1 ELSE 0) <= Cardinality(GfxTaken')
    BY <2>1, <2>3 DEF CountInv, Counted
  <2> QED
    BY <2>4, <2>5 DEF Counted, Messages
<1>7. ASSUME UNCHANGED <<msgs, dpPending, accepted, taken, siDone, transfers>> PROVE Counted'
  BY <1>7 DEF CountInv, Counted, Messages, GfxTaken
<1>8. \/ \E m \in Queue : Receive(m)
      \/ \E t \in Task : Submit(t)
      \/ DeliverDp \/ DeliverSp \/ DrainSi
      \/ PostVideo \/ PostCounter \/ PostAi
      \/ StartSi
      \/ UNCHANGED <<msgs, dpPending, accepted, taken, siDone, transfers>>
  BY DEF Next, PassStep, Game, Device, Register, SetCompare, QueueAi, CountReaches, AiPlayed,
         BeginPass, BeginRspPass, RspWaits, vars, rspVars, siVars
<1> QED
  BY <1>1, <1>2, <1>3, <1>4, <1>5, <1>6, <1>7, <1>8 DEF CountInv

(* Every message of a device in a queue stands for something the device    *)
(* did, for every routing (two events may share a queue), every capacity   *)
(* and every mask.                                                         *)
THEOREM NothingInventedCorrect == Spec => []NothingInvented
<1>1. CountInv => NothingInvented
  <2> SUFFICES ASSUME CountInv PROVE NothingInvented
    OBVIOUS
  <2>1. TypeOK
    BY DEF CountInv, OrderInv, TypeInv
  <2>2. /\ Messages(msgs, "SI") = Cardinality(Waiting("SI"))
        /\ Messages(msgs, "SP") = Cardinality(Waiting("SP"))
        /\ Messages(msgs, "DP") = Cardinality(Waiting("DP"))
    BY DEF Messages, Places, Waiting
  <2>3. Messages(msgs, "DP") \in Nat /\ Cardinality(GfxTaken) \in Nat
    BY CountsAreNat DEF CountInv, OrderInv, Event
  <2>4. Messages(msgs, "DP") <= Cardinality(GfxTaken)
    BY <2>3 DEF CountInv, Counted
  <2> QED
    BY <2>1, <2>2, <2>4 DEF NothingInvented, CountInv, Counted, GfxTaken
<1> QED
  BY <1>1, CountInit, CountNext, PTL DEF Spec

-----------------------------------------------------------------------------
(* The clock.                                                              *)

(* Retraces since the deadline started over are among those counted.       *)
ClockTypeInv == ClockTypeOK /\ vis <= retraces

(* A replay never begins while F11 is down, so a key that is down during   *)
(* one was pressed during it.                                              *)
Overridden == f11 /\ retraceTarget # 0 => f11InReplay

ClockInv == ClockTypeInv /\ RateKept /\ DeadlineNear /\ SpeedMatches /\ Overridden

LEMMA Periods ==
    /\ FastPeriod \in Nat /\ FastPeriod > 0
    /\ \A f \in BOOLEAN : Period(f) \in Nat /\ Period(f) > 0 /\ Period(f) <= MaxTime
BY ClockAssumption DEF Period

LEMMA ClockInitHolds == ClockInit => ClockInv
<1> SUFFICES ASSUME ClockInit PROVE ClockInv
  OBVIOUS
<1>1. ClockTypeInv
  <2>1. image = <<0, 0>> /\ retraces = 0 /\ polls = 0 /\ vis = 0 /\ since = 0 /\ lead = 0
    BY DEF ClockInit
  <2>2. image \in (0 .. MaxRetraces) \X (0 .. MaxRetraces)
    BY <2>1, ClockAssumption
  <2>3. retraceTarget \in RetraceTargets \union {0} /\ pollTarget \in PollTargets \union {0}
    BY DEF ClockInit
  <2>4. /\ armed \in BOOLEAN /\ fast \in BOOLEAN /\ audioFast \in BOOLEAN
        /\ f11 \in BOOLEAN /\ f11InReplay \in BOOLEAN /\ key \in Keys
    BY ClockAssumption DEF ClockInit
  <2> QED
    BY <2>1, <2>2, <2>3, <2>4, ClockAssumption DEF ClockTypeInv, ClockTypeOK
<1>2. RateKept /\ DeadlineNear
  BY DEF ClockInit, RateKept, DeadlineNear
<1>3. SpeedMatches /\ Overridden
  BY DEF ClockInit, SpeedMatches, Overridden
<1> QED
  BY <1>1, <1>2, <1>3 DEF ClockInv

-----------------------------------------------------------------------------
(* Every way a deadline can change.                                        *)

(* It starts over.                                                         *)
Anew == /\ lead' = Period(fast') /\ since' = 0 /\ vis' = 0
        /\ armed' \in BOOLEAN

(* It is due at once.                                                      *)
AtOnce == /\ lead' = 0 /\ since' = Period(fast) /\ vis' = 0
          /\ armed' \in BOOLEAN /\ fast' = fast

(* It stays as it is, or there is none yet.                                *)
Stays == /\ lead' = lead /\ since' = since /\ vis' = vis /\ armed' = armed
         /\ armed => fast' = fast

(* There is none after the step.                                           *)
Forgotten == armed' = FALSE /\ lead' = 0 /\ since' = 0 /\ vis' = 0

DeadlineStep == Anew \/ AtOnce \/ Stays \/ Forgotten \/ TimePasses \/ Retrace

LEMMA DeadlineSteps ==
  ASSUME ClockInv, [ClockNext]_clockVars
  PROVE  DeadlineStep
<1> USE DEF ClockInv, ClockTypeInv, ClockTypeOK
<1>1. CASE PassAhead
  <2>1. CASE StayAhead
    BY <1>1, <2>1 DEF PassAhead, StayAhead, Lead, DeadlineStep, Anew, Stays, history, speed
  <2>2. CASE ReleaseRetraceTarget
    BY <1>1, <2>2 DEF PassAhead, ReleaseRetraceTarget, StartOver, Lead, DeadlineStep, Anew,
       Stays, history
  <2>3. CASE RushToPollTarget
    BY <1>1, <2>3 DEF PassAhead, RushToPollTarget, Lead, DeadlineStep, Anew, AtOnce, Stays,
       history, speed
  <2> QED
    BY <1>1, <2>1, <2>2, <2>3 DEF PassAhead
<1>2. CASE Pump
  BY <1>2 DEF Pump, SetFast, StartOver, DeadlineStep, Anew, Stays, clock, history
<1>3. CASE Resync
  BY <1>3 DEF Resync, StartOver, DeadlineStep, Anew, speed
<1>4. CASE Load
  BY <1>4 DEF Load, DeadlineStep, Forgotten
<1>5. CASE KeyChanges \/ ReadController \/ Capture \/ UNCHANGED clockVars
  BY <1>5 DEF KeyChanges, ReadController, Capture, clockVars, DeadlineStep, Stays, clock, history, speed
<1>6. CASE TimePasses \/ Retrace
  BY <1>6 DEF DeadlineStep
<1> QED
  BY <1>1, <1>2, <1>3, <1>4, <1>5, <1>6 DEF ClockNext

(* The other variables keep their types.                                   *)
LEMMA OthersTyped ==
  ASSUME ClockInv, [ClockNext]_clockVars
  PROVE  /\ fast' \in BOOLEAN /\ audioFast' \in BOOLEAN /\ f11' \in BOOLEAN
         /\ f11InReplay' \in BOOLEAN /\ key' \in Keys
         /\ retraces' \in 0 .. MaxRetraces /\ polls' \in 0 .. MaxRetraces
         /\ retraceTarget' \in RetraceTargets \union {0}
         /\ pollTarget' \in PollTargets \union {0}
         /\ image' \in (0 .. MaxRetraces) \X (0 .. MaxRetraces)
         /\ retraces' = retraces \/ vis' = 0 \/ (retraces' = retraces + 1 /\ Retrace)
<1> USE ClockAssumption DEF ClockInv, ClockTypeInv, ClockTypeOK, speed, counts, targets
<1>1. CASE PassAhead
  BY <1>1 DEF PassAhead, StayAhead, ReleaseRetraceTarget, RushToPollTarget
<1>2. CASE Pump
  BY <1>2 DEF Pump, SetFast
<1>3. CASE Resync \/ TimePasses
  BY <1>3 DEF Resync, TimePasses
<1>4. CASE Load
  <2>1. image[1] \in 0 .. MaxRetraces /\ image[2] \in 0 .. MaxRetraces
    OBVIOUS
  <2> QED
    BY <1>4, <2>1 DEF Load
<1>5. CASE KeyChanges \/ ReadController
  BY <1>5 DEF KeyChanges, ReadController
<1>6. CASE Retrace
  BY <1>6 DEF Retrace
<1>7. CASE Capture
  BY <1>7 DEF Capture
<1>8. CASE UNCHANGED clockVars
  BY <1>8 DEF clockVars
<1> QED
  BY <1>1, <1>2, <1>3, <1>4, <1>5, <1>6, <1>7, <1>8 DEF ClockNext

-----------------------------------------------------------------------------
LEMMA DeadlineNext ==
  ASSUME ClockInv, [ClockNext]_clockVars
  PROVE  ClockTypeInv' /\ RateKept' /\ DeadlineNear'
<1>1. DeadlineStep
  BY DeadlineSteps
<1>2. /\ Period(fast) \in Nat /\ Period(fast) > 0 /\ Period(fast) <= MaxTime
      /\ Period(fast') \in Nat
  BY OthersTyped, Periods DEF ClockInv, ClockTypeInv, ClockTypeOK
<1>3. /\ armed \in BOOLEAN /\ lead \in Int /\ since \in 0 .. MaxTime /\ vis \in Nat
      /\ vis <= retraces /\ retraces \in 0 .. MaxRetraces /\ fast \in BOOLEAN
      /\ armed => lead = Period(fast) * (vis + 1) - since /\ lead <= Period(fast)
  BY ClockAssumption DEF ClockInv, ClockTypeInv, ClockTypeOK, RateKept, DeadlineNear
<1>4. MaxTime \in Nat /\ MaxRetraces \in Nat
  BY ClockAssumption
<1>5. ASSUME Retrace
      PROVE  /\ armed /\ lead <= 0 /\ lead' = lead + Period(fast) /\ vis' = vis + 1
             /\ armed' = armed /\ fast' = fast /\ since' = since /\ retraces' = retraces + 1
  BY <1>2, <1>3, <1>5 DEF Retrace, Lead, speed
<1>6. ASSUME TimePasses
      PROVE  /\ since < MaxTime /\ since' = since + 1 /\ lead' = lead - 1
             /\ armed' = armed /\ fast' = fast /\ vis' = vis /\ retraces' = retraces
  BY <1>6 DEF TimePasses, speed, counts
<1>7. armed' \in BOOLEAN /\ lead' \in Int /\ since' \in 0 .. MaxTime /\ vis' \in Nat
  <2>1. CASE Retrace
    BY <1>2, <1>3, <1>5, <2>1
  <2>2. CASE TimePasses
    BY <1>3, <1>4, <1>6, <2>2
  <2>3. CASE Anew \/ Forgotten
    <3>1. armed' \in BOOLEAN /\ (lead' = Period(fast') \/ lead' = 0) /\ since' = 0 /\ vis' = 0
      BY <2>3 DEF Anew, Forgotten
    <3>2. Period(fast') \in Int
      BY <1>2
    <3>3. lead' \in Int
      BY <3>1, <3>2
    <3> QED
      BY <1>4, <3>1, <3>3
  <2>4. CASE AtOnce
    <3>1. Period(fast) \in 0 .. MaxTime
      BY <1>2, <1>4
    <3> QED
      BY <2>4, <3>1 DEF AtOnce
  <2>5. CASE Stays
    BY <1>3, <2>5 DEF Stays
  <2> QED
    BY <1>1, <2>1, <2>2, <2>3, <2>4, <2>5 DEF DeadlineStep
<1>8. vis' <= retraces'
  <2>1. CASE retraces' = retraces
    BY <1>1, <1>3, <1>5, <1>6, <2>1 DEF DeadlineStep, Anew, AtOnce, Stays, Forgotten
  <2>2. CASE vis' = 0
    BY OthersTyped, <1>4, <2>2
  <2>3. CASE Retrace
    BY <1>3, <1>5, <2>3
  <2> QED
    BY OthersTyped, <2>1, <2>2, <2>3
<1>9. ClockTypeInv'
  BY OthersTyped, <1>4, <1>7, <1>8 DEF ClockTypeInv, ClockTypeOK
<1>10. RateKept'
  <2>1. CASE Retrace
    <3>1. lead = Period(fast) * (vis + 1) - since
      BY <1>3, <1>5, <2>1
    <3>2. lead' = Period(fast) * (vis' + 1) - since'
      BY <1>2, <1>3, <1>5, <2>1, <3>1
    <3> QED
      BY <1>5, <2>1, <3>2 DEF RateKept
  <2>2. CASE TimePasses
    <3>1. armed => lead - 1 = Period(fast) * (vis + 1) - (since + 1)
      BY <1>2, <1>3
    <3> QED
      BY <1>6, <2>2, <3>1 DEF RateKept
  <2>3. CASE Anew \/ AtOnce
    BY <1>2, <2>3 DEF Anew, AtOnce, RateKept
  <2>4. CASE Stays
    BY <1>3, <2>4 DEF Stays, RateKept
  <2>5. CASE Forgotten
    BY <2>5 DEF Forgotten, RateKept
  <2> QED
    BY <1>1, <2>1, <2>2, <2>3, <2>4, <2>5 DEF DeadlineStep
<1>11. DeadlineNear'
  <2>1. CASE Retrace
    BY <1>2, <1>3, <1>5, <2>1 DEF DeadlineNear
  <2>2. CASE TimePasses
    <3>1. lead \in Int /\ Period(fast) \in Int /\ (armed => lead - 1 <= Period(fast))
      BY <1>2, <1>3
    <3> QED
      BY <1>6, <2>2, <3>1 DEF DeadlineNear
  <2>3. CASE Anew \/ AtOnce \/ Forgotten
    <3>1. Period(fast') \in Nat /\ Period(fast) \in Nat
      BY <1>2
    <3> QED
      BY <3>1, <2>3 DEF Anew, AtOnce, Forgotten, DeadlineNear
  <2>4. CASE Stays
    BY <1>3, <2>4 DEF Stays, DeadlineNear
  <2> QED
    BY <1>1, <2>1, <2>2, <2>3, <2>4 DEF DeadlineStep
<1> QED
  BY <1>9, <1>10, <1>11

LEMMA SpeedNext ==
  ASSUME ClockInv, [ClockNext]_clockVars
  PROVE  SpeedMatches' /\ Overridden'
<1> USE DEF SpeedMatches, Overridden, speed, targets
<1>1. SpeedMatches /\ Overridden
  BY DEF ClockInv
<1>2. fast \in BOOLEAN /\ f11 \in BOOLEAN /\ f11InReplay \in BOOLEAN /\ key \in BOOLEAN
  BY ClockAssumption DEF ClockInv, ClockTypeInv, ClockTypeOK
<1>3. CASE PassAhead
  <2>1. f11' = f11 /\ f11InReplay' = f11InReplay
    BY <1>3 DEF PassAhead
  <2>2. CASE StayAhead \/ RushToPollTarget
    BY <1>1, <2>1, <2>2 DEF StayAhead, RushToPollTarget
  <2>3. CASE ReleaseRetraceTarget
    BY <1>1, <1>2, <2>1, <2>3 DEF ReleaseRetraceTarget
  <2> QED
    BY <1>3, <2>2, <2>3 DEF PassAhead
<1>4. CASE Pump
  BY <1>1, <1>2, <1>4 DEF Pump, SetFast
<1>5. CASE Resync \/ TimePasses \/ Retrace \/ Load
  BY <1>1, <1>5 DEF Resync, TimePasses, Retrace, Load
<1>6. CASE KeyChanges \/ ReadController \/ Capture \/ UNCHANGED clockVars
  BY <1>1, <1>6 DEF KeyChanges, ReadController, Capture, clockVars
<1> QED
  BY <1>3, <1>4, <1>5, <1>6 DEF ClockNext

-----------------------------------------------------------------------------
LEMMA ClockInvHolds == ClockSpec => []ClockInv
<1>1. ClockInv /\ [ClockNext]_clockVars => ClockInv'
  BY DeadlineNext, SpeedNext DEF ClockInv
<1> QED
  BY ClockInitHolds, <1>1, PTL DEF ClockSpec

(* The clock's variables keep their types.                                 *)
THEOREM ClockTypeCorrect == ClockSpec => []ClockTypeOK
<1>1. ClockInv => ClockTypeOK
  BY DEF ClockInv, ClockTypeInv
<1> QED
  BY <1>1, ClockInvHolds, PTL

(* No retrace is lost or invented, for every pair of periods and every     *)
(* order of lateness, keys, replays, resynchronisations and loads.         *)
THEOREM RateKeptCorrect == ClockSpec => []RateKept
<1>1. ClockInv => RateKept
  BY DEF ClockInv
<1> QED
  BY <1>1, ClockInvHolds, PTL

(* The run loop never waits longer than one period of the present speed.   *)
THEOREM DeadlineNearCorrect == ClockSpec => []DeadlineNear
<1>1. ClockInv => DeadlineNear
  BY DEF ClockInv
<1> QED
  BY <1>1, ClockInvHolds, PTL

(* Both, with the types.                                                   *)
THEOREM PacedCorrect == ClockSpec => []Paced
<1>1. ClockInv => Paced
  BY DEF ClockInv, ClockTypeInv, Paced
<1> QED
  BY <1>1, ClockInvHolds, PTL

(* Game and sound run at the same speed, and the 8x of F11 or of a replay  *)
(* is only ever taken away by the other of the two.                        *)
THEOREM SpeedMatchesCorrect == ClockSpec => []SpeedMatches
<1>1. ClockInv => SpeedMatches
  BY DEF ClockInv
<1> QED
  BY <1>1, ClockInvHolds, PTL
=============================================================================
