------------------------- MODULE SoundAndTextProofs -------------------------
(***************************************************************************)
(* The audio interface and the playback table, for every set of buffer     *)
(* sizes, every number of slots and every reserve: buffers are played once *)
(* and in order, none is retired early, and the table of slots, its count  *)
(* of frames and the host's device never disagree.                         *)
(*                                                                         *)
(* The texts, for every catalogue, every font and every memory: how lines  *)
(* are cut, and which cells a substitution, the sweep of a block and the   *)
(* patch of the cartridge may write.                                       *)
(*                                                                         *)
(* Both count: frames in the slots, pixels in a line.  The community       *)
(* modules define such sums by a recursive fold; the first section shows   *)
(* what a sum is when one of its terms is added, changed or taken away.    *)
(***************************************************************************)
EXTENDS Audio, TextBlocks, FiniteSetTheorems, SequenceTheorems, WellFoundedInduction,
        NaturalsInduction, TLAPS

-----------------------------------------------------------------------------
(* Sums over finite sets.                                                  *)

(* A set of naturals that is not empty has a least element.                *)
LEMMA LeastElement ==
    ASSUME NEW S \in SUBSET Nat, S # {}
    PROVE  \E x \in S : \A y \in S : x <= y
<1>1. IsWellFoundedOn(OpToRel(<, Nat), Nat)
  BY NatLessThanWellFounded
<1>2. PICK x \in S : \A y \in S : ~ (<<y, x>> \in OpToRel(<, Nat))
  BY <1>1, WFMin
<1>3. \A y \in S : ~ (y < x)
  BY <1>2 DEF OpToRel
<1> QED
  BY <1>3

(* A property of the subsets of a finite set, as the set P of those that   *)
(* have it, holds of all if it passes to a set from those one smaller.     *)
LEMMA SubsetInduction ==
    ASSUME NEW S, IsFiniteSet(S), NEW P,
           \A s \in SUBSET S : (\A x \in s : s \ {x} \in P) => s \in P
    PROVE  \A s \in SUBSET S : s \in P
<1> DEFINE Bad == {n \in Nat : \E s \in SUBSET S : Cardinality(s) = n /\ s \notin P}
<1> SUFFICES ASSUME NEW s0 \in SUBSET S, s0 \notin P PROVE FALSE
  OBVIOUS
<1>1. \A s \in SUBSET S : IsFiniteSet(s) /\ Cardinality(s) \in Nat
  BY FS_Subset, FS_CardinalityType
<1>2. Bad \in SUBSET Nat /\ Bad # {}
  BY <1>1
<1> HIDE DEF Bad
<1>3. PICK m \in Bad : \A n \in Bad : m <= n
  BY <1>2, LeastElement
<1>4. PICK s \in SUBSET S : Cardinality(s) = m /\ s \notin P
  BY <1>3 DEF Bad
<1>5. ASSUME NEW x \in s PROVE s \ {x} \in P
  <2>1. s \ {x} \in SUBSET S /\ Cardinality(s \ {x}) = m - 1 /\ Cardinality(s \ {x}) \in Nat
    BY <1>1, <1>4, FS_RemoveElement
  <2>2. m - 1 \notin Bad
    BY <1>2, <1>3, <2>1
  <2> QED
    BY <2>1, <2>2 DEF Bad
<1> QED
  BY <1>4, <1>5

Picked(s) == CHOOSE x \in s : TRUE

(* g is the function the fold over the subsets of T iterates.              *)
Iterates(f, T, g) ==
    g = [s \in SUBSET T |-> IF s = {} THEN 0 ELSE f[Picked(s)] + g[s \ {Picked(s)}]]

LEMMA SumUnfolds ==
    ASSUME NEW f, NEW T
    PROVE  SumFunctionOnSet(f, T) = (CHOOSE g : Iterates(f, T, g))[T]
BY DEF SumFunctionOnSet, FoldFunctionOnSet, MapThenFoldSet, Picked, Iterates

LEMMA PickedIsMember == \A s : s # {} => Picked(s) \in s
BY DEF Picked

(* Such a function exists: by induction on the size up to which it obeys   *)
(* its equation.                                                           *)
LEMMA IterationExists ==
    ASSUME NEW T, IsFiniteSet(T), NEW f \in [T -> Nat]
    PROVE  \E g : Iterates(f, T, g)
<1> DEFINE next(g, s) == IF s = {} THEN 0 ELSE f[Picked(s)] + g[s \ {Picked(s)}]
           upto(n) == {g \in [SUBSET T -> Nat] :
                          \A s \in SUBSET T : Cardinality(s) <= n => g[s] = next(g, s)}
           Bad == {n \in Nat : upto(n) = {}}
<1>1. \A s \in SUBSET T : /\ IsFiniteSet(s) /\ Cardinality(s) \in Nat
                          /\ Cardinality(s) <= Cardinality(T)
                          /\ Cardinality(s) = 0 => s = {}
  BY FS_Subset, FS_CardinalityType, FS_EmptySet
<1>2. \A s \in SUBSET T : s # {} => /\ Picked(s) \in T /\ s \ {Picked(s)} \in SUBSET T
                                    /\ Cardinality(s \ {Picked(s)}) = Cardinality(s) - 1
  BY <1>1, PickedIsMember, FS_RemoveElement
<1>3. Bad = {}
  <2> SUFFICES ASSUME Bad # {} PROVE FALSE
    OBVIOUS
  <2>1. Bad \in SUBSET Nat
    OBVIOUS
  <2> HIDE DEF Bad
  <2>2. PICK m \in Bad : \A n \in Bad : m <= n
    BY <2>1, LeastElement
  <2>3. CASE m = 0
    <3> DEFINE g == [s \in SUBSET T |-> 0]
    <3>1. \A s \in SUBSET T : Cardinality(s) <= 0 => s = {}
      BY <1>1
    <3>2. \A s \in SUBSET T : Cardinality(s) <= 0 => g[s] = next(g, s)
      BY <3>1
    <3>3. g \in [SUBSET T -> Nat]
      OBVIOUS
    <3> HIDE DEF g, next
    <3>4. g \in upto(0)
      BY <3>2, <3>3
    <3> QED
      BY <2>2, <2>3, <3>4 DEF Bad
  <2>4. CASE m # 0
    <3>1. m - 1 \in Nat /\ m - 1 \notin Bad
      BY <2>1, <2>2, <2>4
    <3>2. PICK g \in [SUBSET T -> Nat] :
             \A s \in SUBSET T : Cardinality(s) <= m - 1 => g[s] = next(g, s)
      BY <3>1 DEF Bad
    <3> DEFINE h == [s \in SUBSET T |-> next(g, s)]
    <3>3. h \in [SUBSET T -> Nat]
      <4>1. ASSUME NEW s \in SUBSET T, s # {} PROVE f[Picked(s)] + g[s \ {Picked(s)}] \in Nat
        <5>1. f[Picked(s)] \in Nat /\ g[s \ {Picked(s)}] \in Nat
          BY <1>2, <4>1
        <5> QED
          BY <5>1
      <4>2. \A s \in SUBSET T : next(g, s) \in Nat
        BY <4>1
      <4> HIDE DEF next
      <4> QED
        BY <4>2
    <3>4. ASSUME NEW s \in SUBSET T, Cardinality(s) <= m PROVE h[s] = next(h, s)
      <4>1. CASE s = {}
        BY <4>1
      <4>2. CASE s # {}
        <5> DEFINE r == s \ {Picked(s)}
        <5>1. r \in SUBSET T /\ Cardinality(r) <= m - 1
          BY <1>1, <1>2, <2>1, <3>4, <4>2
        <5>2. g[r] = next(g, r) /\ h[r] = next(g, r)
          BY <3>2, <5>1
        <5>3. h[s] = f[Picked(s)] + g[r]
          BY <4>2
        <5> QED
          BY <4>2, <5>2, <5>3
      <4> QED
        BY <4>1, <4>2
    <3>5. h \in upto(m)
      BY <3>3, <3>4
    <3> QED
      BY <2>2, <3>5 DEF Bad
  <2> QED
    BY <2>3, <2>4
<1>4. Cardinality(T) \in Nat
  BY <1>1
<1>5. upto(Cardinality(T)) # {}
  <2> HIDE DEF upto
  <2> QED
    BY <1>3, <1>4
<1>6. PICK g \in [SUBSET T -> Nat] : \A s \in SUBSET T : g[s] = next(g, s)
  <2>1. PICK g : g \in upto(Cardinality(T))
    BY <1>5
  <2> HIDE DEF next
  <2>2. g \in [SUBSET T -> Nat]
        /\ \A s \in SUBSET T : Cardinality(s) <= Cardinality(T) => g[s] = next(g, s)
    BY <2>1
  <2>3. \A s \in SUBSET T : g[s] = next(g, s)
    BY <1>1, <2>2
  <2> QED
    BY <2>2, <2>3
<1>7. g = [s \in SUBSET T |-> g[s]]
  OBVIOUS
<1>8. g = [s \in SUBSET T |-> next(g, s)]
  BY <1>6, <1>7
<1> QED
  BY <1>8 DEF Iterates

(* Two of them agree where both are defined.                               *)
LEMMA IterationsAgree ==
    ASSUME NEW A, NEW B, IsFiniteSet(A), NEW f, NEW g, NEW h,
           Iterates(f, A, g), Iterates(f, B, h)
    PROVE  \A s \in SUBSET (A \intersect B) : g[s] = h[s]
<1> DEFINE P == {s \in SUBSET (A \intersect B) : g[s] = h[s]}
<1>1. \A s \in SUBSET A : g[s] = IF s = {} THEN 0 ELSE f[Picked(s)] + g[s \ {Picked(s)}]
  BY DEF Iterates
<1>2. \A s \in SUBSET B : h[s] = IF s = {} THEN 0 ELSE f[Picked(s)] + h[s \ {Picked(s)}]
  BY DEF Iterates
<1>3. ASSUME NEW s \in SUBSET (A \intersect B), \A x \in s : s \ {x} \in P
      PROVE  s \in P
  <2>1. s \in SUBSET A /\ s \in SUBSET B
    OBVIOUS
  <2>2. CASE s = {}
    BY <1>1, <1>2, <2>1, <2>2
  <2>3. CASE s # {}
    <3>1. s \ {Picked(s)} \in P
      BY <1>3, <2>3, PickedIsMember
    <3>2. g[s \ {Picked(s)}] = h[s \ {Picked(s)}]
      BY <3>1
    <3> QED
      BY <1>1, <1>2, <2>1, <2>3, <3>2
  <2> QED
    BY <2>2, <2>3
<1>4. IsFiniteSet(A \intersect B)
  BY FS_Subset
<1> HIDE DEF P
<1>5. \A s \in SUBSET (A \intersect B) : s \in P
  BY <1>3, <1>4, SubsetInduction
<1> QED
  BY <1>5 DEF P

(* The equation of the sum.                                                *)
LEMMA SumEquation ==
    ASSUME NEW S, IsFiniteSet(S), NEW f \in [S -> Nat], NEW T \in SUBSET S
    PROVE  SumFunctionOnSet(f, T) =
              IF T = {} THEN 0
              ELSE f[Picked(T)] + SumFunctionOnSet(f, T \ {Picked(T)})
<1> DEFINE it(A) == CHOOSE g : Iterates(f, A, g)
           r == T \ {Picked(T)}
<1>1. ASSUME NEW A \in SUBSET S PROVE Iterates(f, A, it(A))
  <2> DEFINE e == [i \in A |-> f[i]]
  <2>1. e \in [A -> Nat] /\ IsFiniteSet(A)
    BY FS_Subset
  <2>2. PICK g : Iterates(e, A, g)
    BY <2>1, IterationExists
  <2>3. \A s \in SUBSET A : s # {} => e[Picked(s)] = f[Picked(s)]
    BY PickedIsMember
  <2>4. Iterates(f, A, g)
    BY <2>2, <2>3 DEF Iterates
  <2> QED
    BY <2>4
<1>2. SumFunctionOnSet(f, T) = it(T)[T] /\ SumFunctionOnSet(f, r) = it(r)[r]
  BY SumUnfolds
<1>3. Iterates(f, T, it(T)) /\ Iterates(f, r, it(r)) /\ IsFiniteSet(T)
  BY <1>1, FS_Subset
<1> HIDE DEF it
<1>4. it(T)[T] = IF T = {} THEN 0 ELSE f[Picked(T)] + it(T)[r]
  BY <1>3 DEF Iterates
<1>5. it(T)[r] = it(r)[r]
  BY <1>3, IterationsAgree
<1> QED
  BY <1>2, <1>4, <1>5

LEMMA SumIsNat ==
    ASSUME NEW S, IsFiniteSet(S), NEW f \in [S -> Nat]
    PROVE  \A T \in SUBSET S : SumFunctionOnSet(f, T) \in Nat
<1> DEFINE P == {T \in SUBSET S : SumFunctionOnSet(f, T) \in Nat}
<1>1. ASSUME NEW T \in SUBSET S, \A x \in T : T \ {x} \in P PROVE T \in P
  <2>1. CASE T = {}
    <3>1. SumFunctionOnSet(f, T) = 0
      BY <2>1, SumEquation
    <3> QED
      BY <3>1
  <2>2. CASE T # {}
    <3>1. T \ {Picked(T)} \in P /\ f[Picked(T)] \in Nat
      BY <1>1, <2>2, PickedIsMember
    <3> QED
      BY <2>2, <3>1, SumEquation
  <2> QED
    BY <2>1, <2>2
<1> HIDE DEF P
<1>2. \A T \in SUBSET S : T \in P
  BY <1>1, SubsetInduction
<1> QED
  BY <1>2 DEF P

(* Any element may be split off, not only the one the fold picks.          *)
LEMMA SumRemove ==
    ASSUME NEW S, IsFiniteSet(S), NEW f \in [S -> Nat]
    PROVE  \A T \in SUBSET S : \A x \in T :
              SumFunctionOnSet(f, T) = f[x] + SumFunctionOnSet(f, T \ {x})
<1> DEFINE P == {T \in SUBSET S : \A x \in T :
                    SumFunctionOnSet(f, T) = f[x] + SumFunctionOnSet(f, T \ {x})}
<1>1. ASSUME NEW T \in SUBSET S, \A x \in T : T \ {x} \in P PROVE T \in P
  <2> SUFFICES ASSUME NEW x \in T
               PROVE  SumFunctionOnSet(f, T) = f[x] + SumFunctionOnSet(f, T \ {x})
    OBVIOUS
  <2> DEFINE y == Picked(T)
  <2>1. y \in T /\ SumFunctionOnSet(f, T) = f[y] + SumFunctionOnSet(f, T \ {y})
    BY PickedIsMember, SumEquation
  <2> HIDE DEF y
  <2>2. CASE x # y
    <3>1. SumFunctionOnSet(f, T \ {y}) = f[x] + SumFunctionOnSet(f, (T \ {y}) \ {x})
      BY <1>1, <2>1, <2>2
    <3>2. SumFunctionOnSet(f, T \ {x}) = f[y] + SumFunctionOnSet(f, (T \ {x}) \ {y})
      BY <1>1, <2>1, <2>2
    <3>3. (T \ {y}) \ {x} = (T \ {x}) \ {y}
      OBVIOUS
    <3>4. /\ f[x] \in Nat /\ f[y] \in Nat /\ SumFunctionOnSet(f, (T \ {x}) \ {y}) \in Nat
      BY <2>1, SumIsNat
    <3> QED
      BY <2>1, <3>1, <3>2, <3>3, <3>4
  <2> QED
    BY <2>1, <2>2
<1> HIDE DEF P
<1>2. \A T \in SUBSET S : T \in P
  BY <1>1, SubsetInduction
<1> QED
  BY <1>2 DEF P

(* Functions that agree on a set have the same sum on it.                  *)
LEMMA SumAgrees ==
    ASSUME NEW S, IsFiniteSet(S), NEW f \in [S -> Nat], NEW g \in [S -> Nat]
    PROVE  \A T \in SUBSET S : (\A x \in T : f[x] = g[x])
              => SumFunctionOnSet(f, T) = SumFunctionOnSet(g, T)
<1> DEFINE P == {T \in SUBSET S : (\A x \in T : f[x] = g[x])
                    => SumFunctionOnSet(f, T) = SumFunctionOnSet(g, T)}
<1>1. ASSUME NEW T \in SUBSET S, \A x \in T : T \ {x} \in P PROVE T \in P
  <2> SUFFICES ASSUME \A x \in T : f[x] = g[x]
               PROVE  SumFunctionOnSet(f, T) = SumFunctionOnSet(g, T)
    OBVIOUS
  <2>1. CASE T = {}
    BY <2>1, SumEquation
  <2>2. CASE T # {}
    <3> DEFINE y == Picked(T)
    <3>1. y \in T /\ f[y] = g[y]
      BY <2>2, PickedIsMember
    <3>2. SumFunctionOnSet(f, T \ {y}) = SumFunctionOnSet(g, T \ {y})
      BY <1>1, <3>1
    <3> QED
      BY <2>2, <3>1, <3>2, SumEquation
  <2> QED
    BY <2>1, <2>2
<1> HIDE DEF P
<1>2. \A T \in SUBSET S : T \in P
  BY <1>1, SubsetInduction
<1> QED
  BY <1>2 DEF P

(* Nothing is left of a sum over the elements set to 0, and the rest loses *)
(* what they had.                                                          *)
LEMMA SumAfterClearing ==
    ASSUME NEW S, IsFiniteSet(S), NEW f \in [S -> Nat], NEW D \in SUBSET S
    PROVE  LET g == [x \in S |-> IF x \in D THEN 0 ELSE f[x]] IN
           SumFunctionOnSet(f, S) = SumFunctionOnSet(f, D) + SumFunctionOnSet(g, S)
<1> DEFINE g(E) == [x \in S |-> IF x \in E THEN 0 ELSE f[x]]
           P == {E \in SUBSET S :
                    SumFunctionOnSet(f, S) = SumFunctionOnSet(f, E) + SumFunctionOnSet(g(E), S)}
<1>1. \A E : g(E) \in [S -> Nat]
  OBVIOUS
<1>2. \A E \in SUBSET S : /\ SumFunctionOnSet(f, E) \in Nat
                          /\ SumFunctionOnSet(g(E), S) \in Nat
  BY <1>1, SumIsNat
<1>3. ASSUME NEW T \in SUBSET S, \A x \in T : T \ {x} \in P PROVE T \in P
  <2>1. CASE T = {}
    <3>1. SumFunctionOnSet(g(T), S) = SumFunctionOnSet(f, S)
      <4>1. \A x \in S : g(T)[x] = f[x]
        BY <2>1
      <4> HIDE DEF g
      <4> QED
        BY <1>1, <4>1, SumAgrees
    <3>2. SumFunctionOnSet(f, T) = 0
      BY <2>1, SumEquation
    <3> QED
      BY <1>2, <3>1, <3>2
  <2>2. CASE T # {}
    <3> DEFINE y == Picked(T)
               R == T \ {y}
    <3>1. y \in T /\ y \in S
      BY <2>2, PickedIsMember
    <3> HIDE DEF y
    <3>2. SumFunctionOnSet(f, T) = f[y] + SumFunctionOnSet(f, R)
      BY <3>1, SumRemove
    <3>3. SumFunctionOnSet(g(R), S) = f[y] + SumFunctionOnSet(g(R), S \ {y})
      <4>1. g(R)[y] = f[y]
        BY <3>1
      <4> HIDE DEF g
      <4> QED
        BY <1>1, <3>1, <4>1, SumRemove
    <3>4. SumFunctionOnSet(g(T), S) = 0 + SumFunctionOnSet(g(T), S \ {y})
      <4>1. g(T)[y] = 0
        BY <3>1
      <4> HIDE DEF g
      <4> QED
        BY <1>1, <3>1, <4>1, SumRemove
    <3>5. SumFunctionOnSet(g(T), S \ {y}) = SumFunctionOnSet(g(R), S \ {y})
      <4>1. \A x \in S \ {y} : g(T)[x] = g(R)[x]
        OBVIOUS
      <4> HIDE DEF g
      <4> QED
        BY <1>1, <4>1, SumAgrees
    <3>6. SumFunctionOnSet(f, S) = SumFunctionOnSet(f, R) + SumFunctionOnSet(g(R), S)
      BY <1>3, <3>1
    <3>7. /\ f[y] \in Nat /\ SumFunctionOnSet(f, R) \in Nat
          /\ SumFunctionOnSet(g(T), S \ {y}) \in Nat
      BY <1>1, <3>1, SumIsNat
    <3> HIDE DEF g, R
    <3>8. SumFunctionOnSet(f, S) = SumFunctionOnSet(f, T) + SumFunctionOnSet(g(T), S)
      BY <3>2, <3>3, <3>4, <3>5, <3>6, <3>7
    <3> QED
      BY <3>8
  <2> QED
    BY <2>1, <2>2
<1> HIDE DEF P
<1>4. D \in P
  BY <1>3, SubsetInduction
<1> QED
  BY <1>4 DEF P

(* A sum of terms of at least c.                                           *)
LEMMA SumAtLeast ==
    ASSUME NEW S, IsFiniteSet(S), NEW f \in [S -> Nat], NEW c \in Nat,
           \A x \in S : f[x] >= c
    PROVE  SumFunctionOnSet(f, S) >= Cardinality(S) * c
<1> DEFINE P == {T \in SUBSET S : SumFunctionOnSet(f, T) >= Cardinality(T) * c}
<1>1. ASSUME NEW T \in SUBSET S, \A x \in T : T \ {x} \in P PROVE T \in P
  <2>1. CASE T = {}
    <3>1. SumFunctionOnSet(f, T) = 0 /\ Cardinality(T) = 0
      BY <2>1, SumEquation, FS_EmptySet
    <3> QED
      BY <3>1
  <2>2. CASE T # {}
    <3> DEFINE y == Picked(T)
               n == Cardinality(T \ {y})
               rest == SumFunctionOnSet(f, T \ {y})
    <3>1. y \in T /\ f[y] \in Nat /\ f[y] >= c
      BY <2>2, PickedIsMember
    <3>2. /\ n \in Nat /\ rest \in Nat /\ Cardinality(T) = n + 1
      <4>1. IsFiniteSet(T) /\ Cardinality(T) \in Nat /\ IsFiniteSet(T \ {y}) /\ n \in Nat
        BY FS_Subset, FS_CardinalityType
      <4>2. n = Cardinality(T) - 1
        BY <3>1, <4>1, FS_RemoveElement
      <4> QED
        BY <4>1, <4>2, SumIsNat
    <3>3. rest >= n * c
      BY <1>1, <3>1
    <3>4. SumFunctionOnSet(f, T) = f[y] + rest
      BY <2>2, SumEquation
    <3> HIDE DEF y, n, rest
    <3>5. (n + 1) * c = n * c + c /\ n * c \in Nat
      BY <3>2
    <3> QED
      BY <3>1, <3>2, <3>3, <3>4, <3>5
  <2> QED
    BY <2>1, <2>2
<1> HIDE DEF P
<1>2. S \in P
  BY <1>1, SubsetInduction
<1> QED
  BY <1>2 DEF P

-----------------------------------------------------------------------------
(* The audio interface.                                                    *)

(* The savestate is as orderly as the device it was taken from, and is     *)
(* never ahead of it.                                                      *)
ImageInOrder ==
    image # None =>
        /\ image.completed <= completed
        /\ mode = "timed" =>
              /\ image.primary # None => image.primary.id = image.completed + 1
              /\ image.secondary # None =>
                    image.primary # None /\ image.secondary.id = image.completed + 2
              /\ image.accepted = image.completed
                                    + (IF image.primary # None THEN 1 ELSE 0)
                                    + (IF image.secondary # None THEN 1 ELSE 0)

(* What a DMA has left to play is never more than its deadline allows.     *)
RunsItsTime == mode = "timed" /\ primary # None => played + dueIn >= primary.size

InterfaceInv == InterfaceTypeOK /\ PlayedInOrder /\ ImageInOrder /\ RunsItsTime

(* What a step of the whole may do to the interface.                       *)
InterfaceStep ==
    SetNextBuffer \/ Tick \/ TakeDone \/ Capture \/ LoadInterface \/ UNCHANGED interfaceVars

LEMMA InterfaceSteps == [Next]_vars => InterfaceStep
<1> SUFFICES ASSUME [Next]_vars PROVE InterfaceStep
  OBVIOUS
<1>1. CASE UNCHANGED vars
  BY <1>1 DEF vars, InterfaceStep
<1>2. CASE QueueBufferOfGame \/ PlayBuffer \/ Passes \/ Plays
  BY <1>2 DEF QueueBufferOfGame, PlayBuffer, Passes, Plays, InterfaceStep
<1>3. CASE Retrace \/ Save \/ Load \/ Forward
  BY <1>3 DEF Retrace, Save, Load, Forward, InterfaceStep
<1> QED
  BY <1>1, <1>2, <1>3 DEF Next

LEMMA InterfaceConstants == (\A n \in Sizes : n \in Nat) /\ MaxBuffers \in Nat
BY AudioAssumption

LEMMA InterfaceInitially == Init => InterfaceInv
<1> SUFFICES ASSUME InterfaceInit PROVE InterfaceInv
  BY DEF Init
<1>1. InterfaceTypeOK
  <2>1. 0 \in 0 .. MaxBuffers
    BY InterfaceConstants
  <2>2. dueIn \in Nat /\ compatIn \in Nat /\ played \in Nat
    BY DEF InterfaceInit
  <2> QED
    BY <2>1, <2>2 DEF InterfaceInit, InterfaceTypeOK
<1>2. PlayedInOrder /\ ImageInOrder /\ RunsItsTime
  BY DEF InterfaceInit, PlayedInOrder, ImageInOrder, RunsItsTime
<1> QED
  BY <1>1, <1>2 DEF InterfaceInv

LEMMA BufferFields == \A b \in Buffer : b # None /\ b.id \in Nat /\ b.size \in Nat
<1> SUFFICES ASSUME NEW b \in Buffer PROVE b # None /\ b.id \in Nat /\ b.size \in Nat
  OBVIOUS
<1>1. b.id \in 1 .. MaxBuffers /\ b.size \in Sizes
  BY DEF Buffer
<1>2. b.id \in Nat /\ b.size \in Nat
  <2>1. \A n \in 1 .. MaxBuffers : n \in Nat
    BY InterfaceConstants
  <2> QED
    BY <1>1, <2>1, InterfaceConstants
<1>3. b = [id |-> b.id, size |-> b.size]
  BY DEF Buffer
<1>4. b \in [id : Nat, size : Nat]
  BY <1>2, <1>3
<1> QED
  BY <1>2, <1>4, AudioAssumption

LEMMA SetNextBufferKeeps ==
    ASSUME InterfaceInv, SetNextBuffer PROVE InterfaceInv'
<1> USE InterfaceConstants DEF InterfaceInv
<1>1. PICK size \in Sizes : LET b == [id |-> accepted + 1, size |-> size] IN
         QueueTimed(b) \/ QueueClocked(b) \/ QueueCompat
  BY DEF SetNextBuffer
<1> DEFINE b == [id |-> accepted + 1, size |-> size]
<1>2. accepted + 1 \in 1 .. MaxBuffers /\ size \in Nat
  <2>1. accepted \in 0 .. MaxBuffers /\ accepted < MaxBuffers
    BY DEF SetNextBuffer, InterfaceTypeOK
  <2> QED
    BY <2>1
<1>3. b \in Buffer /\ b # None /\ b.id = accepted + 1 /\ b.size \in Nat
  BY <1>2, BufferFields DEF Buffer
<1> HIDE DEF b
<1>4. /\ accepted' = accepted + 1 /\ mode' = mode /\ image' = image
      /\ completed' = completed /\ accepted' \in 0 .. MaxBuffers
  BY <1>2 DEF SetNextBuffer
<1>5. ImageInOrder'
  BY <1>4 DEF ImageInOrder
<1>6. CASE QueueTimed(b)
  <2>1. CASE primary = None /\ Arm(b) /\ UNCHANGED secondary
    <3>1. InterfaceTypeOK'
      BY <1>3, <1>4, <1>6, <2>1 DEF QueueTimed, Arm, InterfaceTypeOK
    <3>2. PlayedInOrder'
      BY <1>3, <1>4, <1>6, <2>1 DEF QueueTimed, Arm, PlayedInOrder, InterfaceTypeOK
    <3>3. RunsItsTime'
      BY <1>3, <2>1 DEF Arm, RunsItsTime
    <3> QED
      BY <1>5, <3>1, <3>2, <3>3
  <2>2. CASE /\ primary # None
             /\ secondary' = IF secondary = None THEN b ELSE secondary
             /\ freq' = TRUE
             /\ UNCHANGED <<primary, dueIn, played>>
    <3>1. InterfaceTypeOK'
      BY <1>3, <1>4, <1>6, <2>2 DEF QueueTimed, InterfaceTypeOK
    <3>2. secondary = None
      BY <1>6, <2>2 DEF QueueTimed, SetNextBuffer, Full
    <3>3. PlayedInOrder'
      BY <1>3, <1>4, <2>2, <3>2 DEF PlayedInOrder, InterfaceTypeOK
    <3>4. RunsItsTime'
      BY <1>4, <2>2 DEF RunsItsTime
    <3> QED
      BY <1>5, <3>1, <3>3, <3>4
  <2> QED
    BY <1>6, <2>1, <2>2 DEF QueueTimed
<1>7. CASE QueueClocked(b) \/ QueueCompat
  <2>1. mode # "timed" /\ UNCHANGED <<primary, secondary, dueIn>>
    BY <1>7 DEF QueueClocked, QueueCompat
  <2>2. /\ compatIn' \in Nat /\ active' \in BOOLEAN /\ pending' \in BOOLEAN
        /\ freq' = TRUE /\ played' = 0
    BY <1>3, <1>7 DEF QueueClocked, QueueCompat, InterfaceTypeOK
  <2>3. InterfaceTypeOK'
    BY <1>4, <2>1, <2>2 DEF InterfaceTypeOK
  <2> QED
    BY <1>4, <1>5, <2>1, <2>3 DEF PlayedInOrder, RunsItsTime
<1> QED
  BY <1>1, <1>6, <1>7 DEF b

LEMMA TickKeeps ==
    ASSUME InterfaceInv, Tick PROVE InterfaceInv'
<1>1. /\ dueIn \in Nat /\ compatIn \in Nat /\ played \in Nat
      /\ primary # None => primary.size \in Nat
  BY BufferFields DEF InterfaceInv, InterfaceTypeOK
<1>2. /\ dueIn' \in Nat /\ compatIn' \in Nat /\ played' = played + 1
      /\ dueIn' >= dueIn - 1
  BY <1>1 DEF Tick, Left
<1>3. UNCHANGED <<mode, primary, secondary, freq, pending, active, image, accepted, completed>>
  BY DEF Tick
<1>4. InterfaceTypeOK' /\ PlayedInOrder' /\ ImageInOrder'
  BY <1>1, <1>2, <1>3 DEF InterfaceInv, InterfaceTypeOK, PlayedInOrder, ImageInOrder
<1>5. RunsItsTime'
  <2> SUFFICES ASSUME mode = "timed", primary # None
               PROVE  played' + dueIn' >= primary.size
    BY <1>3 DEF RunsItsTime
  <2>1. played + dueIn >= primary.size
    BY DEF InterfaceInv, RunsItsTime
  <2> QED
    BY <1>1, <1>2, <2>1
<1> QED
  BY <1>4, <1>5 DEF InterfaceInv

(* The only step that counts a buffer as retired, and what it finds.       *)
LEMMA RetiresOnTime ==
    ASSUME InterfaceInv, TakeDone, mode = "timed"
    PROVE  /\ primary # None /\ played >= primary.size
           /\ completed' = completed + 1 /\ completed' <= accepted
<1>1. primary # None /\ dueIn = 0
  BY DEF TakeDone, DonePending
<1>2. primary.size \in Nat /\ played \in Nat /\ completed \in Nat
  BY <1>1, BufferFields DEF InterfaceInv, InterfaceTypeOK
<1>3. played >= primary.size
  BY <1>1, <1>2 DEF InterfaceInv, RunsItsTime
<1>4. completed' = completed + 1
  BY DEF TakeDone
<1> QED
  BY <1>1, <1>2, <1>3, <1>4 DEF InterfaceInv, PlayedInOrder

LEMMA TakeDoneKeeps ==
    ASSUME InterfaceInv, TakeDone PROVE InterfaceInv'
<1> USE InterfaceConstants DEF InterfaceInv
<1>0. UNCHANGED <<mode, image, accepted>>
  BY DEF TakeDone
<1>1. CASE mode = "timed" /\ secondary # None
  <2>1. /\ secondary' = None /\ primary' = secondary /\ dueIn' = secondary.size
        /\ freq' = TRUE /\ played' = 0 /\ completed' = completed + 1
        /\ UNCHANGED <<pending, active, compatIn>>
    BY <1>1 DEF TakeDone, Promote, Arm
  <2>2. completed' <= accepted
    BY <1>1, RetiresOnTime
  <2>3. secondary \in Buffer /\ secondary.size \in Nat
    BY <1>1, BufferFields DEF InterfaceTypeOK
  <2>4. InterfaceTypeOK'
    BY <1>0, <2>1, <2>2, <2>3 DEF InterfaceTypeOK
  <2>5. PlayedInOrder' /\ ImageInOrder'
    BY <1>0, <1>1, <2>1 DEF PlayedInOrder, ImageInOrder, InterfaceTypeOK, Image
  <2>6. RunsItsTime'
    BY <2>1, <2>3 DEF RunsItsTime
  <2> QED
    BY <2>4, <2>5, <2>6
<1>2. CASE mode = "timed" /\ secondary = None
  <2>1. /\ primary' = None /\ dueIn' = 0 /\ completed' = completed + 1
        /\ UNCHANGED <<secondary, freq, pending, active, compatIn, played>>
    BY <1>2 DEF TakeDone
  <2>2. completed' <= accepted /\ primary # None
    BY <1>2, RetiresOnTime
  <2>3. InterfaceTypeOK'
    BY <1>0, <2>1, <2>2 DEF InterfaceTypeOK
  <2>4. PlayedInOrder' /\ ImageInOrder'
    BY <1>0, <1>2, <2>1, <2>2 DEF PlayedInOrder, ImageInOrder, InterfaceTypeOK, Image
  <2>5. RunsItsTime'
    BY <2>1 DEF RunsItsTime
  <2> QED
    BY <2>3, <2>4, <2>5
<1>3. CASE mode # "timed"
  <2>1. /\ pending' = FALSE /\ active' = FALSE /\ compatIn' = 0
        /\ UNCHANGED <<primary, secondary, dueIn, freq, completed, played>>
    BY <1>3 DEF TakeDone
  <2> QED
    BY <1>0, <1>3, <2>1 DEF InterfaceTypeOK, PlayedInOrder, ImageInOrder, RunsItsTime
<1> QED
  BY <1>1, <1>2, <1>3

LEMMA CaptureKeeps ==
    ASSUME InterfaceInv, Capture PROVE InterfaceInv'
<1> USE InterfaceConstants DEF InterfaceInv
<1>1. image' \in Image /\ UNCHANGED <<mode, interface, history>>
  BY DEF Capture, Image, InterfaceTypeOK
<1>2. InterfaceTypeOK' /\ PlayedInOrder' /\ RunsItsTime'
  BY <1>1 DEF InterfaceTypeOK, PlayedInOrder, RunsItsTime, interface, history
<1>3. /\ image'.completed = completed /\ image'.accepted = accepted
      /\ image'.primary = primary /\ image'.secondary = secondary
  BY DEF Capture
<1>4. ImageInOrder'
  BY <1>1, <1>3 DEF PlayedInOrder, ImageInOrder, InterfaceTypeOK, interface, history
<1> QED
  BY <1>2, <1>4

LEMMA LoadKeeps ==
    ASSUME InterfaceInv, LoadInterface PROVE InterfaceInv'
<1>1. image # None /\ image \in Image
  BY DEF LoadInterface, InterfaceInv, InterfaceTypeOK
<1>2. /\ secondary' = image.secondary /\ pending' = image.pending
      /\ active' = image.active /\ compatIn' = 0
      /\ accepted' = image.accepted /\ completed' = image.completed
      /\ mode' = mode /\ image' = image
  BY DEF LoadInterface
<1>3. /\ primary' = image.primary /\ dueIn' \in Nat /\ freq' \in BOOLEAN /\ played' = 0
      /\ image.primary # None => dueIn' >= image.primary.size
  <2>1. image.primary # None => image.primary.size \in Nat
    BY <1>1, BufferFields DEF Image
  <2>2. CASE image.primary # None
    <3>1. Arm(image.primary)
      BY <2>2 DEF LoadInterface, Rearm
    <3> QED
      BY <2>1, <2>2, <3>1 DEF Arm
  <2>3. CASE image.primary = None
    <3>1. primary' = None /\ dueIn' = 0 /\ freq' = FALSE /\ played' = 0
      BY <2>3 DEF LoadInterface, Rearm
    <3> QED
      BY <2>3, <3>1
  <2> QED
    BY <2>2, <2>3
<1>4. InterfaceTypeOK'
  BY <1>1, <1>2, <1>3 DEF InterfaceInv, InterfaceTypeOK, Image
<1>5. PlayedInOrder'
  BY <1>1, <1>2, <1>3 DEF InterfaceInv, PlayedInOrder, ImageInOrder
<1>6. ImageInOrder'
  <2>1. image.completed \in Nat
    BY <1>1, InterfaceConstants DEF Image
  <2> QED
    BY <1>1, <1>2, <2>1 DEF InterfaceInv, ImageInOrder
<1>7. RunsItsTime'
  <2> SUFFICES ASSUME image.primary # None PROVE played' + dueIn' >= image.primary.size
    BY <1>3 DEF RunsItsTime
  <2> QED
    BY <1>3
<1> QED
  BY <1>4, <1>5, <1>6, <1>7 DEF InterfaceInv

LEMMA InterfaceInductive == InterfaceInv /\ [Next]_vars => InterfaceInv'
<1> SUFFICES ASSUME InterfaceInv, [Next]_vars PROVE InterfaceInv'
  OBVIOUS
<1>1. CASE UNCHANGED interfaceVars
  BY <1>1
     DEF interfaceVars, interface, history, InterfaceInv, InterfaceTypeOK, PlayedInOrder,
         ImageInOrder, RunsItsTime
<1> QED
  BY <1>1, InterfaceSteps, SetNextBufferKeeps, TickKeeps, TakeDoneKeeps, CaptureKeeps,
     LoadKeeps
     DEF InterfaceStep

LEMMA InterfaceCorrect == Spec => []InterfaceInv
<1>1. Spec => Init /\ [][Next]_vars
  BY PTL DEF Spec
<1> QED
  BY <1>1, InterfaceInitially, InterfaceInductive, PTL

(* Whatever mixture of buffers, retraces, savestates and loads came before, *)
(* the two DMA slots hold the buffers that follow those retired, in order   *)
(* (audio_queue_ai_buffer, audio_take_ai_done, audio_state_restore).        *)
THEOREM PlayedInOrderCorrect == Spec => []PlayedInOrder
<1>1. InterfaceInv => PlayedInOrder
  BY DEF InterfaceInv
<1> QED
  BY <1>1, InterfaceCorrect, PTL

(* No step retires a buffer before its whole duration has passed since its  *)
(* DMA began or was loaded, for every set of durations.                     *)
THEOREM NeverEarlyCorrect == Spec => NeverEarly
<1>1. ASSUME InterfaceInv, [Next]_vars
      PROVE  [completed' = completed + 1 => played >= primary.size]_interfaceVars
  <2> SUFFICES ASSUME completed' = completed + 1 PROVE played >= primary.size
    OBVIOUS
  <2>1. completed \in Nat
    BY <1>1, InterfaceConstants DEF InterfaceInv, InterfaceTypeOK
  <2>2. CASE TakeDone
    <3>1. mode = "timed"
      BY <2>1, <2>2 DEF TakeDone
    <3> QED
      BY <1>1, <2>2, <3>1, RetiresOnTime
  <2>3. CASE LoadInterface
    <3>1. image # None /\ image \in Image /\ completed' = image.completed
      BY <1>1, <2>3 DEF LoadInterface, InterfaceInv, InterfaceTypeOK
    <3>2. image.completed \in Nat /\ image.completed <= completed
      BY <1>1, <3>1, InterfaceConstants DEF InterfaceInv, ImageInOrder, Image
    <3> QED
      BY <2>1, <3>1, <3>2
  <2>4. CASE SetNextBuffer \/ Tick \/ Capture \/ UNCHANGED interfaceVars
    BY <2>1, <2>4 DEF SetNextBuffer, Tick, Capture, interfaceVars, history
  <2> QED
    BY <1>1, <2>2, <2>3, <2>4, InterfaceSteps DEF InterfaceStep
<1>2. Spec => [][Next]_vars
  BY PTL DEF Spec
<1> QED
  BY <1>1, <1>2, InterfaceCorrect, PTL DEF NeverEarly

-----------------------------------------------------------------------------
(* The table of play slots and its account.                                *)

LEMMA PlaybackConstants ==
    /\ Slots \in Nat \ {0} /\ Target \in Nat /\ WaitMs \in Nat
    /\ \A f \in Frames : f \in Nat /\ f # 0 /\ Slots * f >= Target
BY PlaybackAssumption

LEMMA SlotsAreFinite == IsFiniteSet(Slot) /\ Cardinality(Slot) = Slots
<1>1. Slots \in Nat
  BY PlaybackConstants
<1> QED
  BY <1>1, FS_Interval DEF Slot

LEMMA SumOfTable ==
    ASSUME NEW f \in [Slot -> Nat]
    PROVE  SumFunction(f) = SumFunctionOnSet(f, Slot) /\ SumFunction(f) \in Nat
<1>1. SumFunction(f) = SumFunctionOnSet(f, Slot)
  BY DEF SumFunction
<1> QED
  BY <1>1, SlotsAreFinite, SumIsNat

LEMMA SumOfEmptyTable == SumFunction([s \in Slot |-> 0]) = 0
<1> DEFINE z == [s \in Slot |-> 0]
<1>1. z \in [Slot -> Nat]
  OBVIOUS
<1>2. [s \in Slot |-> IF s \in Slot THEN 0 ELSE z[s]] = z
  OBVIOUS
<1> HIDE DEF z
<1>3. SumFunctionOnSet(z, Slot) = SumFunctionOnSet(z, Slot) + SumFunctionOnSet(z, Slot)
  BY <1>1, <1>2, SlotsAreFinite, SumAfterClearing
<1>4. SumFunction(z) = SumFunction(z) + SumFunction(z) /\ SumFunction(z) \in Nat
  BY <1>1, <1>3, SumOfTable
<1>5. \A n \in Nat : n = n + n => n = 0
  OBVIOUS
<1>6. SumFunction(z) = 0
  BY <1>4, <1>5, Zenon
<1> QED
  BY <1>6 DEF z

LEMMA FramesAreNats ==
    ASSUME PlaybackTypeOK
    PROVE  frames \in [Slot -> Nat] /\ \A s \in Slot : frames[s] # 0 => frames[s] \in Frames
<1>1. \A s \in Slot : frames[s] \in Frames \union {0}
  BY DEF PlaybackTypeOK
<1>2. \A s \in Slot : frames[s] \in Nat
  BY <1>1, PlaybackConstants
<1>3. frames = [s \in Slot |-> frames[s]]
  BY DEF PlaybackTypeOK
<1> QED
  BY <1>1, <1>2, <1>3

Reaped == [s \in Slot |-> IF s \in done THEN 0 ELSE frames[s]]

(* What is left is what the table without the slots played adds up to: the *)
(* subtraction never clips.                                                *)
LEMMA LeftIsAccounted ==
    ASSUME PlaybackTypeOK, QueueAccounted
    PROVE  /\ LeftQueued = SumFunction(Reaped)
           /\ LeftQueued \in Nat /\ LeftQueued <= queued
<1> DEFINE gone == SumFunctionOnSet(frames, done)
<1>1. frames \in [Slot -> Nat] /\ done \in SUBSET Slot /\ queued \in Nat
  BY FramesAreNats DEF PlaybackTypeOK
<1>2. Reaped \in [Slot -> Nat]
  BY <1>1 DEF Reaped
<1>3. gone \in Nat /\ SumFunction(Reaped) \in Nat
  BY <1>1, <1>2, SlotsAreFinite, SumIsNat, SumOfTable
<1>4. SumFunctionOnSet(frames, Slot) = gone + SumFunctionOnSet(Reaped, Slot)
  BY <1>1, SlotsAreFinite, SumAfterClearing DEF Reaped
<1>5. queued = gone + SumFunction(Reaped)
  BY <1>1, <1>2, <1>4, SumOfTable DEF QueueAccounted
<1>6. LeftQueued = Less(queued, gone)
  BY DEF LeftQueued
<1> HIDE DEF gone
<1> QED
  BY <1>1, <1>3, <1>5, <1>6 DEF Less

LEMMA SlotFilled ==
    ASSUME NEW f \in [Slot -> Nat], NEW s \in Slot, f[s] = 0, NEW n \in Nat
    PROVE  SumFunction([f EXCEPT ![s] = n]) = SumFunction(f) + n
<1> DEFINE g == [f EXCEPT ![s] = n]
           rest == Slot \ {s}
<1>1. g \in [Slot -> Nat] /\ g[s] = n /\ \A x \in rest : g[x] = f[x]
  OBVIOUS
<1> HIDE DEF g
<1>2. /\ SumFunctionOnSet(f, Slot) = f[s] + SumFunctionOnSet(f, rest)
      /\ SumFunctionOnSet(g, Slot) = g[s] + SumFunctionOnSet(g, rest)
  BY <1>1, SlotsAreFinite, SumRemove
<1>3. SumFunctionOnSet(g, rest) = SumFunctionOnSet(f, rest)
  BY <1>1, SlotsAreFinite, SumAgrees
<1>4. SumFunctionOnSet(f, rest) \in Nat
  BY SlotsAreFinite, SumIsNat
<1>5. SumFunction(g) = n + SumFunctionOnSet(f, rest) /\ SumFunction(f) = SumFunctionOnSet(f, rest)
  BY <1>1, <1>2, <1>3, <1>4, SumOfTable
<1>6. SumFunction(g) = SumFunction(f) + n
  BY <1>4, <1>5
<1> QED
  BY <1>6 DEF g

(* The device's queue when a slot is handed over or played.                *)
LEMMA SlotHandedOver ==
    ASSUME NEW d \in Seq(Slot), NEW s \in Slot, s \notin ToSet(d), IsInjective(d)
    PROVE  /\ Append(d, s) \in Seq(Slot)
           /\ ToSet(Append(d, s)) = ToSet(d) \union {s}
           /\ IsInjective(Append(d, s))
<1> DEFINE e == Append(d, s)
<1>1. /\ e \in Seq(Slot) /\ Len(e) = Len(d) + 1 /\ e[Len(d) + 1] = s /\ Len(d) \in Nat
      /\ \A i \in 1 .. Len(d) : e[i] = d[i]
      /\ DOMAIN e = 1 .. Len(e) /\ DOMAIN d = 1 .. Len(d)
  BY AppendProperties
<1> HIDE DEF e
<1>2. DOMAIN e = (DOMAIN d) \union {Len(d) + 1}
  BY <1>1
<1>3. ToSet(e) = ToSet(d) \union {s}
  BY <1>1, <1>2 DEF ToSet
<1>4. \A i \in 1 .. Len(d) : d[i] # s
  BY <1>1 DEF ToSet
<1>5. IsInjective(e)
  <2> SUFFICES ASSUME NEW i \in DOMAIN e, NEW j \in DOMAIN e, e[i] = e[j] PROVE i = j
    BY DEF IsInjective
  <2>1. CASE i \in DOMAIN d /\ j \in DOMAIN d
    BY <1>1, <2>1 DEF IsInjective
  <2>2. CASE i = Len(d) + 1 \/ j = Len(d) + 1
    BY <1>1, <1>2, <1>4, <2>2
  <2> QED
    BY <1>2, <2>1, <2>2
<1> QED
  BY <1>1, <1>3, <1>5 DEF e

LEMMA SlotPlayed ==
    ASSUME NEW d \in Seq(Slot), d # <<>>, IsInjective(d)
    PROVE  /\ Head(d) \in Slot /\ Tail(d) \in Seq(Slot)
           /\ ToSet(d) = ToSet(Tail(d)) \union {Head(d)}
           /\ Head(d) \notin ToSet(Tail(d))
           /\ IsInjective(Tail(d))
<1> DEFINE t == Tail(d)
<1>1. /\ Head(d) \in Slot /\ t \in Seq(Slot) /\ Len(t) = Len(d) - 1 /\ Head(d) = d[1]
      /\ \A i \in 1 .. Len(t) : t[i] = d[i + 1]
      /\ DOMAIN t = 1 .. Len(t) /\ DOMAIN d = 1 .. Len(d)
  BY HeadTailProperties
<1>2. Len(t) \in Nat /\ Len(d) \in Nat /\ 1 \in DOMAIN d
  BY <1>1, EmptySeq
<1> HIDE DEF t
<1>3. \A i \in DOMAIN t : i \in Nat /\ i + 1 \in DOMAIN d /\ i + 1 # 1
  BY <1>1, <1>2
<1>4. \A i \in DOMAIN d : i = 1 \/ (i - 1 \in DOMAIN t /\ d[i] = t[i - 1])
  BY <1>1, <1>2
<1>5. ToSet(d) = ToSet(t) \union {Head(d)}
  <2>1. \A x \in ToSet(t) : x \in ToSet(d)
    BY <1>1, <1>3 DEF ToSet
  <2>2. Head(d) \in ToSet(d)
    BY <1>1, <1>2 DEF ToSet
  <2>3. \A x \in ToSet(d) : x \in ToSet(t) \/ x = Head(d)
    BY <1>1, <1>4 DEF ToSet
  <2> QED
    BY <2>1, <2>2, <2>3
<1>6. Head(d) \notin ToSet(t)
  BY <1>1, <1>2, <1>3 DEF ToSet, IsInjective
<1>7. IsInjective(t)
  <2> SUFFICES ASSUME NEW i \in DOMAIN t, NEW j \in DOMAIN t, t[i] = t[j] PROVE i = j
    BY DEF IsInjective
  <2>1. d[i + 1] = d[j + 1]
    BY <1>1
  <2>2. i + 1 = j + 1
    BY <1>3, <2>1 DEF IsInjective
  <2> QED
    BY <1>3, <2>2
<1> QED
  BY <1>1, <1>5, <1>6, <1>7 DEF t

-----------------------------------------------------------------------------
(* Playback.                                                               *)

(* Without a device there is nothing to play, and no buffer waits.         *)
ClosedHoldsNothing ==
    /\ ~ open => Free = Slot /\ done = {} /\ device = <<>> /\ queued = 0
    /\ buffer # 0 => open

(* A device that was not started has not got its reserve.                  *)
ReserveNotReached == open /\ ~ started => queued = 0 \/ queued < Target

PlaybackInv ==
    /\ PlaybackTypeOK
    /\ QueueAccounted
    /\ SlotsMatchDevice
    /\ ClosedHoldsNothing
    /\ ReserveNotReached

PlaybackStep ==
    \/ BufferArrives \/ WaitForSlot \/ Drop \/ QueueBuffer \/ QueueFails
    \/ DevicePlays \/ SetFastForward \/ LoadPlayback \/ UNCHANGED playbackVars

LEMMA PlaybackSteps == [Next]_vars => PlaybackStep
<1> SUFFICES ASSUME [Next]_vars PROVE PlaybackStep
  OBVIOUS
<1>1. CASE UNCHANGED vars
  BY <1>1 DEF vars, PlaybackStep
<1>2. CASE QueueBufferOfGame
  <2>1. BufferArrives \/ UNCHANGED playbackVars
    BY <1>2 DEF QueueBufferOfGame
  <2> QED
    BY <2>1 DEF PlaybackStep
<1>3. CASE PlayBuffer \/ Passes \/ Plays
  BY <1>3 DEF PlayBuffer, Passes, Plays, PlaybackStep
<1>4. CASE Retrace \/ Save \/ Load \/ Forward
  BY <1>4 DEF Retrace, Save, Load, Forward, PlaybackStep
<1> QED
  BY <1>1, <1>2, <1>3, <1>4 DEF Next

(* A table whose slots are all in use holds at least the reserve: the      *)
(* device was started.                                                     *)
LEMMA FullTablePlays == PlaybackInv => FullMeansPlaying
<1> SUFFICES ASSUME PlaybackInv, open, Free = {} PROVE ~ paused
  BY DEF FullMeansPlaying
<1>1. frames \in [Slot -> Nat] /\ \A s \in Slot : frames[s] \in Frames
  BY FramesAreNats DEF PlaybackInv, Free
<1>2. DEFINE sizes == {frames[s] : s \in Slot}
<1>3. 1 \in Slot
  BY PlaybackConstants DEF Slot
<1>4. sizes \in SUBSET Nat /\ sizes # {}
  BY <1>1, <1>3
<1>5. PICK c \in sizes : \A n \in sizes : c <= n
  BY <1>4, LeastElement
<1>6. c \in Frames /\ c \in Nat /\ \A s \in Slot : frames[s] >= c
  BY <1>1, <1>5
<1>7. SumFunctionOnSet(frames, Slot) >= Slots * c
  BY <1>1, <1>6, SlotsAreFinite, SumAtLeast
<1>8. queued >= Slots * c /\ queued \in Nat
  BY <1>1, <1>7, SumOfTable DEF PlaybackInv, QueueAccounted, PlaybackTypeOK
<1>9. Slots * c >= Target /\ Slots * c \in Nat /\ Slots * c # 0
  <2>1. c # 0 /\ Slots * c >= Target
    BY <1>6, PlaybackConstants
  <2>2. \A m, n \in Nat \ {0} : m * n \in Nat /\ m * n # 0
    OBVIOUS
  <2> QED
    BY <1>6, <2>1, <2>2, PlaybackConstants
<1>10. ~ (queued = 0 \/ queued < Target)
  <2>1. Target \in Nat
    BY PlaybackConstants
  <2> HIDE <1>1, <1>5, <1>6, <1>7
  <2> QED
    BY <1>8, <1>9, <2>1
<1> QED
  BY <1>10 DEF PlaybackInv, ReserveNotReached, SlotsMatchDevice

LEMMA PlaybackInitially == Init => PlaybackInv
<1> SUFFICES ASSUME PlaybackInit PROVE PlaybackInv
  BY DEF Init
<1>1. PlaybackTypeOK
  <2>1. 0 \in 0 .. WaitMs
    BY PlaybackConstants
  <2>2. frames \in [Slot -> Frames \union {0}] /\ done \in SUBSET Slot /\ device \in Seq(Slot)
    BY DEF PlaybackInit
  <2>3. open \in BOOLEAN /\ enabled \in BOOLEAN /\ paused \in BOOLEAN /\ started \in BOOLEAN
        /\ fast \in BOOLEAN /\ buffer \in Frames \union {0} /\ queued \in Nat
    BY DEF PlaybackInit
  <2> QED
    BY <2>1, <2>2, <2>3 DEF PlaybackInit, PlaybackTypeOK
<1>2. QueueAccounted
  BY SumOfEmptyTable DEF PlaybackInit, QueueAccounted
<1>3. Free = Slot
  BY DEF PlaybackInit, Free
<1>4. SlotsMatchDevice
  BY <1>3 DEF PlaybackInit, SlotsMatchDevice, ToSet, IsInjective
<1>5. ClosedHoldsNothing /\ ReserveNotReached
  BY <1>3 DEF PlaybackInit, ClosedHoldsNothing, ReserveNotReached
<1> QED
  BY <1>1, <1>2, <1>4, <1>5 DEF PlaybackInv

(* audio_play_reap.                                                        *)
LEMMA ReapKeeps ==
    ASSUME PlaybackInv, Reap, open, open', UNCHANGED <<device, enabled, fast>>,
           buffer' \in Frames \union {0}, waited' \in 0 .. WaitMs
    PROVE  PlaybackInv'
<1>1. /\ frames' = Reaped /\ queued' = LeftQueued /\ done' = {}
      /\ started' = (started /\ ~ Starved) /\ paused' = (paused \/ Starved)
  BY DEF Reap, Reaped
<1>2. /\ LeftQueued = SumFunction(Reaped) /\ LeftQueued \in Nat /\ LeftQueued <= queued
  BY LeftIsAccounted DEF PlaybackInv
<1>3. PlaybackTypeOK'
  <2>1. Reaped \in [Slot -> Frames \union {0}]
    BY DEF Reaped, PlaybackInv, PlaybackTypeOK
  <2> QED
    BY <1>1, <1>2, <2>1 DEF PlaybackInv, PlaybackTypeOK
<1>4. QueueAccounted'
  BY <1>1, <1>2 DEF QueueAccounted
<1>5. SlotsMatchDevice'
  <2>1. Free' = Free \union done
    BY <1>1 DEF Free, Reaped, PlaybackInv, PlaybackTypeOK
  <2>2. paused' = ~ started'
    BY <1>1, Zenon DEF PlaybackInv, SlotsMatchDevice, PlaybackTypeOK, Starved
  <2>3. /\ Slot \ Free' = ToSet(device') \union done'
        /\ ToSet(device') \intersect done' = {}
        /\ IsInjective(device')
    BY <1>1, <2>1 DEF PlaybackInv, SlotsMatchDevice
  <2> QED
    BY <2>2, <2>3 DEF SlotsMatchDevice
<1>6. ClosedHoldsNothing'
  BY DEF ClosedHoldsNothing
<1>7. ReserveNotReached'
  <2> SUFFICES ASSUME ~ started' PROVE queued' = 0 \/ queued' < Target
    BY DEF ReserveNotReached
  <2>1. CASE started
    BY <1>1, <2>1 DEF Starved
  <2>2. CASE ~ started
    <3>1. (queued = 0 \/ queued < Target) /\ queued \in Nat /\ Target \in Nat
      BY <2>2, PlaybackConstants DEF PlaybackInv, ReserveNotReached, PlaybackTypeOK
    <3> QED
      BY <1>1, <1>2, <3>1
  <2> QED
    BY <2>1, <2>2
<1> QED
  BY <1>3, <1>4, <1>5, <1>6, <1>7 DEF PlaybackInv

LEMMA BufferArrivesKeeps ==
    ASSUME PlaybackInv, BufferArrives PROVE PlaybackInv'
<1>1. PICK f \in Frames : \/ OpenDevice(f)
                          \/ open /\ Reap /\ buffer' = f /\ UNCHANGED <<open, enabled>>
  BY DEF BufferArrives
<1>2. waited' = 0 /\ UNCHANGED <<device, fast>> /\ 0 \in 0 .. WaitMs /\ buffer = 0
  BY PlaybackConstants DEF BufferArrives
<1>3. CASE OpenDevice(f)
  <2>1. ~ open /\ UNCHANGED <<frames, done>> /\ Free' = Free
    BY <1>3 DEF OpenDevice, Free
  <2>2. Free = Slot /\ done = {} /\ device = <<>> /\ queued = 0
    BY <2>1 DEF PlaybackInv, ClosedHoldsNothing
  <2>3. CASE open' = TRUE /\ paused' = TRUE /\ started' = FALSE /\ queued' = 0
             /\ buffer' = f /\ UNCHANGED enabled
    <3>1. PlaybackTypeOK'
      BY <1>2, <2>1, <2>3 DEF PlaybackInv, PlaybackTypeOK
    <3>2. QueueAccounted'
      BY <2>1, <2>2, <2>3 DEF PlaybackInv, QueueAccounted
    <3>3. SlotsMatchDevice'
      BY <1>2, <2>1, <2>3 DEF PlaybackInv, SlotsMatchDevice
    <3>4. ClosedHoldsNothing' /\ ReserveNotReached'
      BY <2>3 DEF ClosedHoldsNothing, ReserveNotReached
    <3> QED
      BY <3>1, <3>2, <3>3, <3>4 DEF PlaybackInv
  <2>4. CASE enabled' = FALSE /\ UNCHANGED <<open, paused, started, queued, buffer>>
    <3>1. PlaybackTypeOK'
      BY <1>2, <2>1, <2>4 DEF PlaybackInv, PlaybackTypeOK
    <3> QED
      BY <1>2, <2>1, <2>4, <3>1
         DEF PlaybackInv, QueueAccounted, SlotsMatchDevice, ClosedHoldsNothing,
             ReserveNotReached
  <2> QED
    BY <1>3, <2>3, <2>4 DEF OpenDevice
<1>4. CASE open /\ Reap /\ buffer' = f /\ UNCHANGED <<open, enabled>>
  BY <1>2, <1>4, ReapKeeps
<1> QED
  BY <1>1, <1>3, <1>4

LEMMA WaitForSlotKeeps ==
    ASSUME PlaybackInv, WaitForSlot PROVE PlaybackInv'
<1>1. /\ buffer # 0 /\ waited < WaitMs /\ waited' = waited + 1
      /\ Reap /\ UNCHANGED <<open, enabled, device, fast, buffer>>
  BY DEF WaitForSlot, MayWait
<1>2. waited' \in 0 .. WaitMs
  <2>1. waited \in 0 .. WaitMs /\ WaitMs \in Nat
    BY PlaybackConstants DEF PlaybackInv, PlaybackTypeOK
  <2> QED
    BY <1>1, <2>1
<1>3. open /\ buffer' \in Frames \union {0}
  BY <1>1 DEF PlaybackInv, ClosedHoldsNothing, PlaybackTypeOK
<1> QED
  BY <1>1, <1>2, <1>3, ReapKeeps

(* The call gives the buffer up, for lack of time or of a working device.  *)
LEMMA GivesUpKeeps ==
    ASSUME PlaybackInv, Drop \/ QueueFails PROVE PlaybackInv'
<1>1. /\ buffer' = 0 /\ waited' = 0
      /\ UNCHANGED <<open, enabled, frames, done, queued, device, paused, started, fast>>
  BY DEF Drop, QueueFails, CallReturns, tableVars
<1>2. 0 \in 0 .. WaitMs
  BY PlaybackConstants
<1>3. Free' = Free
  BY <1>1 DEF Free
<1>4. PlaybackTypeOK'
  BY <1>1, <1>2 DEF PlaybackInv, PlaybackTypeOK
<1> QED
  BY <1>1, <1>3, <1>4
     DEF PlaybackInv, QueueAccounted, SlotsMatchDevice, ClosedHoldsNothing, ReserveNotReached

LEMMA QueueBufferKeeps ==
    ASSUME PlaybackInv, QueueBuffer PROVE PlaybackInv'
<1> DEFINE s == Min(Free)
           starts == ~ started /\ queued + buffer >= Target
<1>1. /\ buffer # 0 /\ Free # {} /\ buffer' = 0 /\ waited' = 0
      /\ frames' = [frames EXCEPT ![s] = buffer]
      /\ device' = Append(device, s)
      /\ queued' = queued + buffer
      /\ started' = (started \/ starts)
      /\ paused' = (paused /\ ~ starts)
      /\ UNCHANGED <<open, enabled, done, fast>>
  BY DEF QueueBuffer, CallReturns
<1>2. s \in Free
  <2>1. Free \in SUBSET Nat
    BY DEF Free, Slot
  <2>2. \E x \in Free : \A y \in Free : x <= y
    BY <1>1, <2>1, LeastElement
  <2> QED
    BY <2>2 DEF Min
<1> HIDE DEF s
<1>3. /\ s \in Slot /\ frames[s] = 0 /\ open /\ buffer \in Frames /\ buffer \in Nat
      /\ frames \in [Slot -> Nat] /\ queued \in Nat /\ Target \in Nat /\ 0 \in 0 .. WaitMs
  BY <1>1, <1>2, PlaybackConstants, FramesAreNats
     DEF Free, PlaybackInv, ClosedHoldsNothing, PlaybackTypeOK
<1>4. s \notin ToSet(device) /\ s \notin done
  BY <1>2 DEF PlaybackInv, SlotsMatchDevice
<1>5. /\ device' \in Seq(Slot) /\ ToSet(device') = ToSet(device) \union {s}
      /\ IsInjective(device')
  BY <1>1, <1>3, <1>4, SlotHandedOver DEF PlaybackInv, PlaybackTypeOK, SlotsMatchDevice
<1>6. Free' = Free \ {s}
  BY <1>1, <1>3 DEF Free, PlaybackInv, PlaybackTypeOK
<1>7. PlaybackTypeOK'
  <2>1. frames' \in [Slot -> Frames \union {0}] /\ queued' \in Nat
    BY <1>1, <1>3 DEF PlaybackInv, PlaybackTypeOK
  <2> QED
    BY <1>1, <1>3, <1>5, <2>1 DEF PlaybackInv, PlaybackTypeOK
<1>8. QueueAccounted'
  BY <1>1, <1>3, SlotFilled DEF PlaybackInv, QueueAccounted
<1>9. SlotsMatchDevice'
  <2>1. paused' = ~ started'
    BY <1>1, <1>3, Zenon DEF PlaybackInv, SlotsMatchDevice, PlaybackTypeOK
  <2>2. /\ Slot \ Free' = ToSet(device') \union done'
        /\ ToSet(device') \intersect done' = {}
    BY <1>1, <1>3, <1>4, <1>5, <1>6 DEF PlaybackInv, SlotsMatchDevice
  <2> QED
    BY <1>5, <2>1, <2>2 DEF SlotsMatchDevice
<1>10. ClosedHoldsNothing'
  BY <1>1, <1>3 DEF ClosedHoldsNothing
<1>11. ReserveNotReached'
  <2>1. starts \/ queued + buffer < Target \/ started
    BY <1>3
  <2> HIDE DEF starts
  <2> QED
    BY <1>1, <2>1, Zenon DEF ReserveNotReached
<1> QED
  BY <1>7, <1>8, <1>9, <1>10, <1>11 DEF PlaybackInv

LEMMA DevicePlaysKeeps ==
    ASSUME PlaybackInv, DevicePlays PROVE PlaybackInv'
<1>1. /\ open /\ device # <<>>
      /\ done' = done \union {Head(device)} /\ device' = Tail(device)
      /\ UNCHANGED <<open, enabled, frames, queued, paused, started, fast, buffer, waited>>
  BY DEF DevicePlays
<1>2. /\ Head(device) \in Slot /\ device' \in Seq(Slot)
      /\ ToSet(device) = ToSet(device') \union {Head(device)}
      /\ Head(device) \notin ToSet(device')
      /\ IsInjective(device')
  BY <1>1, SlotPlayed DEF PlaybackInv, PlaybackTypeOK, SlotsMatchDevice
<1>3. Free' = Free
  BY <1>1 DEF Free
<1>4. PlaybackTypeOK'
  BY <1>1, <1>2 DEF PlaybackInv, PlaybackTypeOK
<1>5. SlotsMatchDevice'
  BY <1>1, <1>2, <1>3 DEF PlaybackInv, SlotsMatchDevice
<1>6. QueueAccounted' /\ ClosedHoldsNothing' /\ ReserveNotReached'
  BY <1>1 DEF PlaybackInv, QueueAccounted, ClosedHoldsNothing, ReserveNotReached
<1> QED
  BY <1>4, <1>5, <1>6 DEF PlaybackInv

(* The table after FreeAll, whatever becomes of the device.                *)
LEMMA FreeAllKeeps ==
    ASSUME PlaybackInv, FreeAll, queued' = 0, open => open' = FALSE \/ (paused' /\ ~ started'),
           open' => open, open' \in BOOLEAN, enabled' \in BOOLEAN, paused' \in BOOLEAN,
           started' \in BOOLEAN, fast' \in BOOLEAN, buffer' = 0, waited' = waited
    PROVE  PlaybackInv'
<1>1. frames' = [s \in Slot |-> 0] /\ done' = {} /\ device' = <<>>
  BY DEF FreeAll
<1>2. PlaybackTypeOK'
  <2>1. frames' \in [Slot -> Frames \union {0}] /\ queued' \in Nat /\ device' \in Seq(Slot)
    BY <1>1
  <2> QED
    BY <1>1, <2>1 DEF PlaybackInv, PlaybackTypeOK
<1>3. Free' = Slot
  BY <1>1 DEF Free
<1>4. QueueAccounted'
  BY <1>1, SumOfEmptyTable DEF QueueAccounted
<1>5. SlotsMatchDevice'
  BY <1>1, <1>3 DEF SlotsMatchDevice, ToSet, IsInjective
<1>6. ClosedHoldsNothing' /\ ReserveNotReached'
  BY <1>1, <1>3 DEF ClosedHoldsNothing, ReserveNotReached
<1> QED
  BY <1>2, <1>4, <1>5, <1>6 DEF PlaybackInv

LEMMA SetFastForwardKeeps ==
    ASSUME PlaybackInv, SetFastForward PROVE PlaybackInv'
<1>1. buffer = 0 /\ fast' \in BOOLEAN /\ UNCHANGED <<open, enabled, buffer, waited>>
  BY DEF SetFastForward, PlaybackInv, PlaybackTypeOK
<1>2. CASE fast' /\ open
  <2>1. FreeAll /\ queued' = 0 /\ started' = FALSE /\ paused' = TRUE
    BY <1>2 DEF SetFastForward, ResetQueue
  <2> QED
    BY <1>1, <2>1, FreeAllKeeps DEF PlaybackInv, PlaybackTypeOK
<1>3. CASE ~ (fast' /\ open)
  <2>1. UNCHANGED <<frames, done, queued, device, paused, started>>
    BY <1>3 DEF SetFastForward, tableVars
  <2>2. PlaybackTypeOK' /\ Free' = Free
    BY <1>1, <2>1 DEF PlaybackInv, PlaybackTypeOK, Free
  <2> QED
    BY <1>1, <2>1, <2>2
       DEF PlaybackInv, QueueAccounted, SlotsMatchDevice, ClosedHoldsNothing, ReserveNotReached
<1> QED
  BY <1>2, <1>3

LEMMA LoadPlaybackKeeps ==
    ASSUME PlaybackInv, LoadPlayback PROVE PlaybackInv'
<1>1. /\ buffer = 0 /\ enabled' = TRUE
      /\ UNCHANGED <<paused, started, fast, buffer, waited>>
  BY DEF LoadPlayback
<1>2. CASE open
  <2>1. FreeAll /\ queued' = Less(queued, SumFunction(frames)) /\ open' = FALSE
    BY <1>2 DEF LoadPlayback
  <2>2. queued' = 0
    BY <2>1 DEF Less, PlaybackInv, QueueAccounted, PlaybackTypeOK
  <2> QED
    BY <1>1, <1>2, <2>1, <2>2, FreeAllKeeps DEF PlaybackInv, PlaybackTypeOK
<1>3. CASE ~ open
  <2>1. UNCHANGED <<open, frames, done, queued, device>>
    BY <1>3 DEF LoadPlayback, tableVars
  <2>2. PlaybackTypeOK' /\ Free' = Free
    BY <1>1, <2>1 DEF PlaybackInv, PlaybackTypeOK, Free
  <2> QED
    BY <1>1, <2>1, <2>2
       DEF PlaybackInv, QueueAccounted, SlotsMatchDevice, ClosedHoldsNothing, ReserveNotReached
<1> QED
  BY <1>2, <1>3

LEMMA PlaybackInductive == PlaybackInv /\ [Next]_vars => PlaybackInv'
<1> SUFFICES ASSUME PlaybackInv, [Next]_vars PROVE PlaybackInv'
  OBVIOUS
<1>1. CASE UNCHANGED playbackVars
  <2>1. UNCHANGED <<open, enabled, frames, done, queued, device, paused, started, fast,
                    buffer, waited>>
    BY <1>1 DEF playbackVars, tableVars
  <2>2. PlaybackTypeOK' /\ Free' = Free
    BY <2>1 DEF PlaybackInv, PlaybackTypeOK, Free
  <2> QED
    BY <2>1, <2>2
       DEF PlaybackInv, QueueAccounted, SlotsMatchDevice, ClosedHoldsNothing, ReserveNotReached
<1> QED
  BY <1>1, PlaybackSteps, BufferArrivesKeeps, WaitForSlotKeeps, GivesUpKeeps, QueueBufferKeeps,
     DevicePlaysKeeps, SetFastForwardKeeps, LoadPlaybackKeeps
     DEF PlaybackStep

(* The table, its count of frames, the host's device and the bounded wait  *)
(* of audio_play_buffer never disagree, whatever the number of slots and   *)
(* the sizes of the buffers; in particular a full table is being played.   *)
THEOREM PlaybackSoundCorrect == Spec => []PlaybackSound
<1>1. Spec => Init /\ [][Next]_vars
  BY PTL DEF Spec
<1>2. PlaybackInv => PlaybackSound
  BY FullTablePlays DEF PlaybackInv, PlaybackSound
<1> QED
  BY <1>1, <1>2, PlaybackInitially, PlaybackInductive, PTL

-----------------------------------------------------------------------------
(* Numbers.                                                                *)

LEMMA MinIs ==
    ASSUME NEW S \in SUBSET Nat, S # {}
    PROVE  Min(S) \in S /\ \A j \in S : Min(S) <= j
BY LeastElement DEF Min

LEMMA MaxIs ==
    ASSUME NEW n \in Nat, NEW S \in SUBSET (0 .. n), S # {}
    PROVE  Max(S) \in S /\ \A j \in S : j <= Max(S)
<1> DEFINE T == {n - x : x \in S}
<1>1. T \in SUBSET Nat /\ T # {}
  <2>1. \A x \in S : n - x \in Nat
    OBVIOUS
  <2>. QED
    BY <2>1
<1>2. PICK z \in T : \A y \in T : z <= y
  <2>. HIDE DEF T
  <2>. QED
    BY <1>1, LeastElement
<1>3. PICK x \in S : z = n - x
  BY <1>2
<1>4. \A y \in S : x >= y
  BY <1>2, <1>3
<1>5. Max(S) \in S /\ \A y \in S : Max(S) >= y
  BY <1>3, <1>4 DEF Max
<1>. QED
  BY <1>5

LEMMA MaxOfTwo ==
    ASSUME NEW a \in Nat, NEW b \in Nat
    PROVE  /\ Max({a, b}) \in Nat /\ Max({a, b}) = IF a >= b THEN a ELSE b
<1>1. {a, b} \in SUBSET (0 .. a + b)
  OBVIOUS
<1>2. Max({a, b}) \in {a, b} /\ \A j \in {a, b} : j <= Max({a, b})
  BY <1>1, MaxIs
<1>. QED
  BY <1>2

(* A set that holds 0, and of 1 .. n every number after one it holds.      *)
LEMMA Reaches ==
    ASSUME NEW n \in Nat, NEW P, 0 \in P, \A k \in 1 .. n : k - 1 \in P => k \in P
    PROVE  \A k \in 0 .. n : k \in P
<1> DEFINE Bad == {k \in 0 .. n : k \notin P}
<1>1. SUFFICES ASSUME Bad # {} PROVE FALSE
  OBVIOUS
<1>2. Bad \in SUBSET Nat
  OBVIOUS
<1>3. PICK k \in Bad : \A j \in Bad : k <= j
  <2>. HIDE DEF Bad
  <2>. QED
    BY <1>1, <1>2, LeastElement
<1>4. k \in 1 .. n /\ k - 1 \in 0 .. n /\ k - 1 < k
  BY <1>3
<1>5. k - 1 \in P
  BY <1>3, <1>4
<1>. QED
  BY <1>3, <1>4, <1>5

(* A loop of n turns whose steps stay in S is a function, into S.          *)
Turns(g, n, base, step) ==
    g = [k \in 0 .. n |-> IF k = 0 THEN base ELSE step[<<k, g[k - 1]>>]]

LEMMA LoopExists ==
    ASSUME NEW n \in Nat, NEW S, NEW base \in S, NEW step \in [(1 .. n) \X S -> S]
    PROVE  \E g \in [0 .. n -> S] : Turns(g, n, base, step)
<1> DEFINE P == {k \in 0 .. n : \E g \in [0 .. k -> S] : Turns(g, k, base, step)}
<1>1. 0 \in P
  <2>1. [k \in 0 .. 0 |-> base] \in [0 .. 0 -> S] /\ Turns([k \in 0 .. 0 |-> base], 0, base, step)
    BY DEF Turns
  <2>. QED
    BY <2>1
<1>2. ASSUME NEW k \in 1 .. n, k - 1 \in P PROVE k \in P
  <2>1. PICK g \in [0 .. k - 1 -> S] : Turns(g, k - 1, base, step)
    BY <1>2
  <2> DEFINE h == [j \in 0 .. k |-> IF j = k THEN step[<<k, g[k - 1]>>] ELSE g[j]]
  <2>2. step[<<k, g[k - 1]>>] \in S
    OBVIOUS
  <2>3. h \in [0 .. k -> S]
    BY <2>2
  <2>4. \A j \in 0 .. k - 1 : h[j] = g[j]
    OBVIOUS
  <2>5. \A j \in 0 .. k - 1 : g[j] = IF j = 0 THEN base ELSE step[<<j, g[j - 1]>>]
    BY <2>1 DEF Turns
  <2>6. ASSUME NEW j \in 0 .. k PROVE h[j] = IF j = 0 THEN base ELSE step[<<j, h[j - 1]>>]
    <3>1. CASE j = k
      BY <2>4, <3>1
    <3>2. CASE j # k
      <4>1. j \in 0 .. k - 1 /\ (j # 0 => j - 1 \in 0 .. k - 1)
        BY <3>2
      <4>. QED
        BY <2>4, <2>5, <4>1
    <3>. QED
      BY <3>1, <3>2
  <2>7. Turns(h, k, base, step)
    <3>1. h = [j \in 0 .. k |-> h[j]]
      OBVIOUS
    <3>. HIDE DEF h
    <3>. QED
      BY <2>6, <3>1 DEF Turns
  <2>. QED
    BY <2>3, <2>7
<1>. HIDE DEF P
<1>3. \A k \in 0 .. n : k \in P
  BY <1>1, <1>2, Reaches
<1>. QED
  BY <1>3 DEF P

-----------------------------------------------------------------------------
(* Layout.                                                                 *)

LEMMA WidthsAre == \A c : CellWidth(c) \in Nat
BY LayoutAssumption DEF CellWidth

LEMMA LastSpaceIs ==
    ASSUME NEW t, NEW from \in Nat, NEW to \in Nat
    PROVE  /\ LastSpace(t, from, to) \in 0 .. to
           /\ LastSpace(t, from, to) # 0 => LastSpace(t, from, to) >= from /\ t[LastSpace(t, from, to)] = Space
           /\ \A i \in from .. to : t[i] = Space => i <= LastSpace(t, from, to)
<1> DEFINE S == {0} \cup {i \in from .. to : t[i] = Space}
<1>1. S \in SUBSET (0 .. to) /\ S # {}
  OBVIOUS
<1>2. Max(S) \in S /\ \A j \in S : j <= Max(S)
  <2>. HIDE DEF S
  <2>. QED
    BY <1>1, MaxIs
<1>3. LastSpace(t, from, to) = Max(S)
  BY DEF LastSpace
<1>4. \A i : i \in S <=> i = 0 \/ (i \in from .. to /\ t[i] = Space)
  OBVIOUS
<1>. HIDE DEF S
<1>5. LastSpace(t, from, to) \in S /\ \A i \in S : i <= LastSpace(t, from, to)
  BY Zenon, <1>2, <1>3
<1>6. LastSpace(t, from, to) \in 0 .. to
  BY <1>1, <1>5
<1>. QED
  BY <1>4, <1>5, <1>6

LEMMA SumWithout ==
    ASSUME NEW S, IsFiniteSet(S), NEW f \in [S -> Nat], NEW A \in SUBSET S, NEW a \in A
    PROVE  SumFunctionOnSet(f, A) = f[a] + SumFunctionOnSet(f, A \ {a})
BY SumRemove

(* The width of a part of a text, cell by cell.                            *)
LEMMA TextWidthIs ==
    ASSUME NEW X, NEW t \in Seq(X), NEW from \in Nat \ {0}, NEW to \in 0 .. Len(t)
    PROVE  /\ TextWidth(t, from, to) \in Nat
           /\ from > to => TextWidth(t, from, to) = 0
           /\ from <= to => TextWidth(t, from, to) = TextWidth(t, from, to - 1) + CellWidth(t[to])
<1> DEFINE w == [i \in DOMAIN t |-> CellWidth(t[i])]
           D == 1 .. Len(t)
<1>1. Len(t) \in Nat /\ DOMAIN t = D
  OBVIOUS
<1>2. w \in [D -> Nat] /\ IsFiniteSet(D) /\ w = [i \in DOMAIN t |-> CellWidth(t[i])]
  <2>1. w \in [D -> Nat]
    BY Zenon, <1>1, WidthsAre
  <2>2. IsFiniteSet(D)
    BY <1>1, FS_Interval
  <2>. QED
    BY Zenon, <2>1, <2>2
<1>3. \A a, b : TextWidth(t, a, b) = SumFunctionOnSet(w, a .. b)
  BY Zenon DEF TextWidth, SumFunctionOnSet
<1>4. from .. to \in SUBSET D /\ from .. to - 1 \in SUBSET D
  OBVIOUS
<1>5. from <= to => w[to] = CellWidth(t[to]) /\ (from .. to) \ {to} = from .. to - 1 /\ to \in from .. to
  BY <1>1
<1>. HIDE DEF w, D
<1>6. SumFunctionOnSet(w, from .. to) \in Nat
  BY <1>2, <1>4, SumIsNat
<1>7. from > to => SumFunctionOnSet(w, from .. to) = 0
  <2>1. from > to => from .. to = {}
    OBVIOUS
  <2>. QED
    BY <1>2, <1>4, <2>1, SumEquation
<1>8. from <= to => SumFunctionOnSet(w, from .. to) = w[to] + SumFunctionOnSet(w, from .. to - 1)
  <2>0. w \in [D -> Nat] /\ IsFiniteSet(D)
    BY <1>2
  <2>1. ASSUME from <= to
        PROVE  SumFunctionOnSet(w, from .. to) = w[to] + SumFunctionOnSet(w, (from .. to) \ {to})
    BY <2>0, <1>4, <1>5, <2>1, SumWithout
  <2>. QED
    BY Zenon, <1>5, <2>1
<1>9. CellWidth(t[to]) \in Nat /\ SumFunctionOnSet(w, from .. to - 1) \in Nat
  BY <1>2, <1>4, SumIsNat, WidthsAre
<1>. QED
  BY <1>3, <1>5, <1>6, <1>7, <1>8, <1>9

(* The loop of Wrap.                                                       *)
WrapBase(t) == [text |-> t, start |-> 1, space |-> 0, pixels |-> 0]
WrapStep(t, i, p) ==
    LET space == IF t[i] = Space THEN i ELSE p.space
        pixels == p.pixels + CellWidth(t[i])
    IN  IF pixels <= LineWidth \/ space = 0
        THEN [p EXCEPT !.space = space, !.pixels = pixels]
        ELSE [text |-> [p.text EXCEPT ![space] = Break], start |-> space + 1,
              space |-> LastSpace(t, space + 1, i),
              pixels |-> TextWidth(t, space + 1, i)]
WrapStates(X, t) ==
    {p \in [text : Seq(X), start : Nat, space : Nat, pixels : Nat] : Len(p.text) = Len(t)}

LEMMA WrapTurns ==
    ASSUME NEW X, Break \in X, NEW t \in Seq(X), ~ Has(t, Break), ~ Has(t, Return)
    PROVE  \E f : /\ \A i \in 0 .. Len(t) : f[i] \in WrapStates(X, t)
                  /\ f[0] = WrapBase(t) /\ \A i \in 1 .. Len(t) : f[i] = WrapStep(t, i, f[i - 1])
                  /\ Wrap(t) = f[Len(t)].text
<1> DEFINE Step(i, p) == WrapStep(t, i, p)
           base == WrapBase(t)
           Loop(f) == f = [i \in 0 .. Len(t) |-> IF i = 0 THEN base ELSE Step(i, f[i - 1])]
           f == CHOOSE f : Loop(f)
           S == WrapStates(X, t)
<1>1. Wrap(t) = f[Len(t)].text
  BY Zenon DEF Wrap, WrapStep, WrapBase
<1>2. Len(t) \in Nat
  OBVIOUS
<1>3. ASSUME NEW k \in 1 .. Len(t), NEW s \in S PROVE Step(k, s) \in S
  <2> DEFINE space == IF t[k] = Space THEN k ELSE s.space
  <2>0. /\ s \in [text : Seq(X), start : Nat, space : Nat, pixels : Nat] /\ Len(s.text) = Len(t)
        /\ k \in Nat /\ k \in 0 .. Len(t)
    BY DEF WrapStates
  <2>1. space \in Nat /\ CellWidth(t[k]) \in Nat
    BY <2>0, WidthsAre
  <2>2. LastSpace(t, space + 1, k) \in Nat /\ TextWidth(t, space + 1, k) \in Nat
    <3>. HIDE DEF space
    <3>1. space + 1 \in Nat \ {0} /\ space + 1 \in Nat
      BY <2>1
    <3>2. LastSpace(t, space + 1, k) \in 0 .. k
      BY <2>0, <3>1, LastSpaceIs
    <3>3. TextWidth(t, space + 1, k) \in Nat
      BY <2>0, <3>1, TextWidthIs
    <3>. QED
      BY <2>0, <3>2, <3>3
  <2>3. [s.text EXCEPT ![space] = Break] \in Seq(X) /\ Len([s.text EXCEPT ![space] = Break]) = Len(t)
    <3>. HIDE DEF space
    <3>1. s.text \in Seq(X) /\ s.text \in [1 .. Len(t) -> X]
      <4>1. s.text \in Seq(X) /\ Len(s.text) = Len(t)
        BY <2>0
      <4>2. s.text \in [1 .. Len(s.text) -> X]
        BY ONLY <4>1, LenProperties
      <4>. QED
        BY Zenon, <4>1, <4>2
    <3>2. [s.text EXCEPT ![space] = Break] \in [1 .. Len(t) -> X]
      BY <3>1
    <3>3. \A g \in [1 .. Len(t) -> X] : g \in Seq(X) /\ Len(g) = Len(t)
      BY <1>2
    <3>. QED
      BY <3>2, <3>3
  <2>4. s.pixels + CellWidth(t[k]) \in Nat
    BY <2>1 DEF WrapStates
  <2>. HIDE DEF space
  <2>5. CASE s.pixels + CellWidth(t[k]) <= LineWidth \/ space = 0
    <3>1. WrapStep(t, k, s) = [s EXCEPT !.space = space, !.pixels = s.pixels + CellWidth(t[k])]
      BY Zenon, <2>5 DEF WrapStep, space
    <3>. QED
      BY <2>1, <2>4, <3>1 DEF WrapStates
  <2>6. CASE ~ (s.pixels + CellWidth(t[k]) <= LineWidth \/ space = 0)
    <3>1. WrapStep(t, k, s) = [text |-> [s.text EXCEPT ![space] = Break], start |-> space + 1,
              space |-> LastSpace(t, space + 1, k), pixels |-> TextWidth(t, space + 1, k)]
      BY Zenon, <2>6 DEF WrapStep, space
    <3>. QED
      BY <2>1, <2>2, <2>3, <3>1 DEF WrapStates
  <2>. QED
    BY <2>5, <2>6
<1>4. base \in S
  BY DEF WrapBase, WrapStates
<1>. HIDE DEF S
<1>5. \E g : Loop(g)
  <2> DEFINE step == [u \in (1 .. Len(t)) \X S |-> Step(u[1], u[2])]
  <2>1. step \in [(1 .. Len(t)) \X S -> S]
    BY <1>3
  <2>2. PICK g \in [0 .. Len(t) -> S] : Turns(g, Len(t), base, step)
    <3>. HIDE DEF step
    <3>. QED
      BY <1>2, <1>4, <2>1, LoopExists
  <2>3. \A k \in 0 .. Len(t) : k # 0 => step[<<k, g[k - 1]>>] = Step(k, g[k - 1])
    OBVIOUS
  <2>. HIDE DEF step, Step
  <2>4. Loop(g)
    BY <2>2, <2>3 DEF Turns
  <2>. QED
    BY <2>4
<1>6. Loop(f)
  BY <1>5
<1>. HIDE DEF f
<1>7. \A k \in 0 .. Len(t) : f[k] \in S
  <2> DEFINE P == {k \in 0 .. Len(t) : f[k] \in S}
  <2>1. 0 \in P
    <3>1. 0 \in 0 .. Len(t)
      BY <1>2
    <3>2. f[0] = base
      BY Zenon, <1>6, <3>1
    <3>. QED
      BY <1>4, <3>1, <3>2
  <2>2. ASSUME NEW k \in 1 .. Len(t), k - 1 \in P PROVE k \in P
    <3>1. k \in 0 .. Len(t) /\ k # 0
      OBVIOUS
    <3>2. f[k] = Step(k, f[k - 1])
      BY Zenon, <1>6, <3>1
    <3>3. f[k - 1] \in S
      BY <2>2
    <3>4. Step(k, f[k - 1]) \in S
      BY <1>3, <3>3
    <3>. QED
      BY <3>1, <3>2, <3>4
  <2>. HIDE DEF P, Step, Loop
  <2>3. \A k \in 0 .. Len(t) : k \in P
    BY <1>2, <2>1, <2>2, Reaches
  <2>. QED
    BY <2>3 DEF P
<1>8. \A i \in 1 .. Len(t) : f[i] = WrapStep(t, i, f[i - 1])
  <2>1. \A i \in 1 .. Len(t) : i \in 0 .. Len(t) /\ i # 0
    OBVIOUS
  <2>. QED
    BY Zenon, <1>6, <2>1
<1>9. f[0] = base
  <2>1. 0 \in 0 .. Len(t)
    BY <1>2
  <2>. QED
    BY Zenon, <1>6, <2>1
<1>. QED
  BY <1>1, <1>7, <1>8, <1>9 DEF S

LEMMA WrapIs ==
    ASSUME NEW X, Break \in X, NEW t \in Seq(X)
    PROVE  Wrap(t) \in Seq(X) /\ Len(Wrap(t)) = Len(t)
<1>1. CASE Has(t, Break) \/ Has(t, Return)
  BY <1>1 DEF Wrap
<1>2. CASE ~ (Has(t, Break) \/ Has(t, Return))
  <2>1. PICK f : /\ \A i \in 0 .. Len(t) : f[i] \in WrapStates(X, t)
                 /\ Wrap(t) = f[Len(t)].text
    BY <1>2, WrapTurns
  <2>2. Len(t) \in 0 .. Len(t)
    OBVIOUS
  <2>. QED
    BY <2>1, <2>2 DEF WrapStates
<1>. QED
  BY <1>1, <1>2

(* A longer part of a line is no narrower.                                 *)
LEMMA WidthGrows ==
    ASSUME NEW X, NEW t \in Seq(X), NEW from \in Nat \ {0}, NEW to \in 0 .. Len(t), NEW m \in 0 .. to
    PROVE  TextWidth(t, from, m) <= TextWidth(t, from, to)
<1> DEFINE W(k) == TextWidth(t, from, k)
           P == {k \in 0 .. to - m : W(m) <= W(m + k)}
<1>1. to - m \in Nat /\ Len(t) \in Nat
  OBVIOUS
<1>2. \A k \in 0 .. Len(t) : W(k) \in Nat
  BY TextWidthIs
<1>3. \A k \in 1 .. Len(t) : W(k - 1) <= W(k)
  <2>1. ASSUME NEW k \in 1 .. Len(t) PROVE W(k - 1) <= W(k)
    <3>0. k \in 0 .. Len(t) /\ k - 1 \in 0 .. Len(t)
      OBVIOUS
    <3>1. W(k - 1) \in Nat /\ W(k) \in Nat
      BY <1>2, <3>0
    <3>2. CASE from > k
      <4>1. W(k) = 0
        BY <3>0, <3>2, TextWidthIs
      <4>2. W(k - 1) = 0
        <5>1. from > k - 1
          BY <3>2
        <5>. QED
          BY <3>0, <5>1, TextWidthIs
      <4>. QED
        BY <4>1, <4>2
    <3>3. CASE from <= k
      <4>1. W(k) = W(k - 1) + CellWidth(t[k]) /\ CellWidth(t[k]) \in Nat
        BY <3>0, <3>3, TextWidthIs, WidthsAre
      <4>. HIDE DEF W
      <4>. QED
        BY <3>1, <4>1
    <3>. QED
      BY <3>2, <3>3
  <2>. QED
    BY <2>1
<1>. HIDE DEF W
<1>4. 0 \in P
  <2>1. W(m) \in Nat /\ W(m + 0) = W(m)
    BY <1>2
  <2>. QED
    BY <1>1, <2>1
<1>5. ASSUME NEW k \in 1 .. to - m, k - 1 \in P PROVE k \in P
  <2>1. m + k \in 1 .. Len(t) /\ m + (k - 1) = (m + k) - 1 /\ m \in 0 .. Len(t)
    OBVIOUS
  <2>2. W((m + k) - 1) <= W(m + k) /\ W(m) <= W((m + k) - 1)
    BY <1>3, <1>5, <2>1
  <2>3. W(m) \in Nat /\ W(m + k) \in Nat /\ W((m + k) - 1) \in Nat
    BY <1>2, <2>1
  <2>. QED
    BY <2>2, <2>3
<1>6. \A k \in 0 .. to - m : k \in P
  <2>. HIDE DEF P
  <2>. QED
    BY <1>1, <1>4, <1>5, Reaches
<1>7. to - m \in 0 .. to - m /\ m + (to - m) = to
  BY <1>1
<1>8. W(m) <= W(to)
  BY <1>6, <1>7
<1>. QED
  BY <1>8 DEF W

(* Texts that agree on a part of a line have the same widths and spaces on it. *)
LEMMA PartsAgree ==
    ASSUME NEW X, NEW t \in Seq(X), NEW u \in Seq(X), Len(u) = Len(t),
           NEW from \in Nat \ {0}, NEW to \in 0 .. Len(t), \A j \in from .. to : u[j] = t[j]
    PROVE  /\ TextWidth(u, from, to) = TextWidth(t, from, to)
           /\ LastSpace(u, from, to) = LastSpace(t, from, to)
<1> DEFINE P == {k \in 0 .. to : TextWidth(u, from, k) = TextWidth(t, from, k)}
<1>1. 0 \in P
  <2>1. from > 0 /\ 0 \in 0 .. Len(t) /\ 0 \in 0 .. Len(u)
    OBVIOUS
  <2>2. TextWidth(u, from, 0) = 0 /\ TextWidth(t, from, 0) = 0
    BY <2>1, TextWidthIs
  <2>. QED
    BY <2>2
<1>2. ASSUME NEW k \in 1 .. to, k - 1 \in P PROVE k \in P
  <2>1. k \in 0 .. Len(t) /\ k \in 0 .. Len(u)
    OBVIOUS
  <2>2. CASE from > k
    BY <2>1, <2>2, TextWidthIs
  <2>3. CASE from <= k
    <3>1. u[k] = t[k]
      BY <2>3
    <3>2. /\ TextWidth(u, from, k) = TextWidth(u, from, k - 1) + CellWidth(u[k])
          /\ TextWidth(t, from, k) = TextWidth(t, from, k - 1) + CellWidth(t[k])
      BY <2>1, <2>3, TextWidthIs
    <3>3. TextWidth(u, from, k) = TextWidth(t, from, k)
      BY Zenon, <1>2, <3>1, <3>2
    <3>. QED
      BY <3>3
  <2>. QED
    BY <2>2, <2>3
<1>3. \A k \in 0 .. to : k \in P
  <2>0. to \in Nat
    OBVIOUS
  <2>. HIDE DEF P
  <2>. QED
    BY <1>1, <1>2, <2>0, Reaches
<1>4. {i \in from .. to : u[i] = Space} = {i \in from .. to : t[i] = Space}
  OBVIOUS
<1>5. LastSpace(u, from, to) = LastSpace(t, from, to)
  BY Zenon, <1>4 DEF LastSpace
<1>6. to \in 0 .. to
  OBVIOUS
<1>. QED
  BY <1>3, <1>5, <1>6

LEMMA LastSpaceSteps ==
    ASSUME NEW t, NEW from \in Nat \ {0}, NEW to \in Nat
    PROVE  /\ from > to => LastSpace(t, from, to) = 0
           /\ from <= to => LastSpace(t, from, to) = IF t[to] = Space THEN to ELSE LastSpace(t, from, to - 1)
<1>1. /\ LastSpace(t, from, to) \in 0 .. to
      /\ LastSpace(t, from, to) # 0 => LastSpace(t, from, to) >= from /\ t[LastSpace(t, from, to)] = Space
      /\ \A i \in from .. to : t[i] = Space => i <= LastSpace(t, from, to)
  BY LastSpaceIs
<1>2. from > to => LastSpace(t, from, to) = 0
  BY <1>1
<1>3. ASSUME from <= to
      PROVE  LastSpace(t, from, to) = IF t[to] = Space THEN to ELSE LastSpace(t, from, to - 1)
  <2>1. CASE t[to] = Space
    <3>1. to \in from .. to
      BY <1>3
    <3>2. to <= LastSpace(t, from, to)
      BY <1>1, <2>1, <3>1
    <3>. QED
      BY <1>1, <2>1, <3>2
  <2>2. CASE t[to] # Space
    <3>1. {i \in from .. to : t[i] = Space} = {i \in from .. to - 1 : t[i] = Space}
      BY <2>2
    <3>. QED
      BY Zenon, <2>2, <3>1 DEF LastSpace
  <2>. QED
    BY <2>1, <2>2
<1>. QED
  BY <1>2, <1>3

(* What the loop knows after i letters: of the line being measured its     *)
(* width and its last space; and that the lines already cut fit.           *)
LineFits(t, from, to) == TextWidth(t, from, to) <= LineWidth \/ LastSpace(t, from, to) = 0
LineStarts(u, a) == a = 1 \/ u[a - 1] = Break
Measured(t, i, p) ==
    /\ p.start \in 1 .. i + 1
    /\ p.start # 1 => p.text[p.start - 1] = Break
    /\ p.space = LastSpace(t, p.start, i)
    /\ p.pixels = TextWidth(t, p.start, i)
    /\ LineFits(t, p.start, i)
OnlySpaces(t, p) ==
    \A j \in 1 .. Len(t) : \/ p.text[j] = t[j]
                           \/ j < p.start /\ t[j] = Space /\ p.text[j] = Break
CutFits(t, p) ==
    \A a \in 1 .. p.start - 1 : \A e \in a - 1 .. p.start - 2 :
        /\ LineStarts(p.text, a)
        /\ p.text[e + 1] = Break
        /\ \A j \in a .. e : p.text[j] # Break
        => LineFits(t, a, e)
WrapInv(t, i, p) == Measured(t, i, p) /\ OnlySpaces(t, p) /\ CutFits(t, p)

LEMMA WrapKeeps ==
    ASSUME NEW X, Break \in X, NEW t \in Seq(X), ~ Has(t, Break),
           NEW i \in 1 .. Len(t), NEW p \in WrapStates(X, t), WrapInv(t, i - 1, p)
    PROVE  WrapInv(t, i, WrapStep(t, i, p))
<1> DEFINE space == IF t[i] = Space THEN i ELSE p.space
           pixels == p.pixels + CellWidth(t[i])
           q == WrapStep(t, i, p)
<1>1. /\ Len(t) \in Nat /\ DOMAIN t = 1 .. Len(t) /\ i \in 1 .. Len(t) /\ i \in 0 .. Len(t) /\ i - 1 \in 0 .. Len(t)
      /\ i \in Nat /\ i - 1 \in Nat /\ i - 1 + 1 = i
      /\ \A j \in 1 .. Len(t) : t[j] # Break
  BY DEF Has
<1>2. p \in [text : Seq(X), start : Nat, space : Nat, pixels : Nat] /\ Len(p.text) = Len(t)
  BY DEF WrapStates
<1>3. p.start \in 1 .. i /\ p.start \in Nat \ {0} /\ p.start <= i
  BY <1>1 DEF WrapInv, Measured
<1>4. space = LastSpace(t, p.start, i)
  <2>1. LastSpace(t, p.start, i) = IF t[i] = Space THEN i ELSE LastSpace(t, p.start, i - 1)
    BY <1>1, <1>3, LastSpaceSteps
  <2>. QED
    BY Zenon, <2>1 DEF WrapInv, Measured
<1>5. pixels = TextWidth(t, p.start, i)
  <2>1. TextWidth(t, p.start, i) = TextWidth(t, p.start, i - 1) + CellWidth(t[i])
    BY <1>1, <1>3, TextWidthIs
  <2>. QED
    BY Zenon, <2>1 DEF WrapInv, Measured
<1>. HIDE DEF space, pixels
<1>6. CASE pixels <= LineWidth \/ space = 0
  <2>1. q = [p EXCEPT !.space = space, !.pixels = pixels]
    BY Zenon, <1>6 DEF WrapStep, space, pixels
  <2>2. q.text = p.text /\ q.start = p.start /\ q.space = space /\ q.pixels = pixels
    BY <1>2, <2>1
  <2>. HIDE DEF q
  <2>3. LineFits(t, p.start, i)
    BY Zenon, <1>4, <1>5, <1>6 DEF LineFits
  <2>4. p.start \in 1 .. i + 1
    BY <1>3
  <2>5. Measured(t, i, q)
    BY Zenon, <1>4, <1>5, <2>2, <2>3, <2>4 DEF WrapInv, Measured
  <2>6. OnlySpaces(t, q) /\ CutFits(t, q)
    BY Zenon, <2>2 DEF WrapInv, OnlySpaces, CutFits
  <2>. QED
    BY Zenon, <2>5, <2>6 DEF WrapInv, q
<1>7. CASE ~ (pixels <= LineWidth \/ space = 0)
  <2>1. q = [text |-> [p.text EXCEPT ![space] = Break], start |-> space + 1,
             space |-> LastSpace(t, space + 1, i), pixels |-> TextWidth(t, space + 1, i)]
    BY Zenon, <1>7 DEF WrapStep, space, pixels
  <2>2. /\ q.text = [p.text EXCEPT ![space] = Break] /\ q.start = space + 1
        /\ q.space = LastSpace(t, space + 1, i) /\ q.pixels = TextWidth(t, space + 1, i)
    BY ONLY <2>1
  <2>. HIDE DEF q
  <2>3. /\ space \in p.start .. i /\ t[space] = Space
        /\ \A j \in p.start .. i : t[j] = Space => j <= space
    <3>1. /\ LastSpace(t, p.start, i) \in 0 .. i
          /\ LastSpace(t, p.start, i) # 0 => LastSpace(t, p.start, i) >= p.start /\ t[LastSpace(t, p.start, i)] = Space
          /\ \A j \in p.start .. i : t[j] = Space => j <= LastSpace(t, p.start, i)
      BY <1>1, <1>3, LastSpaceIs
    <3>2. /\ space \in 0 .. i
          /\ space # 0 => space >= p.start /\ t[space] = Space
          /\ \A j \in p.start .. i : t[j] = Space => j <= space
      BY Zenon, <1>4, <3>1
    <3>. QED
      BY <1>3, <1>7, <3>2
  <2>4. /\ space \in Nat \ {0} /\ space + 1 \in Nat \ {0} /\ space + 1 \in 1 .. i + 1
        /\ space \in 1 .. Len(t) /\ space + 1 - 1 = space /\ space - 1 \in 0 .. i - 1
    BY <1>1, <1>3, <2>3
  <2>5. /\ DOMAIN p.text = 1 .. Len(t)
        /\ \A j \in 1 .. Len(t) : q.text[j] = IF j = space THEN Break ELSE p.text[j]
    <3>1. p.text \in Seq(X) /\ Len(p.text) = Len(t)
      BY <1>2
    <3>2. DOMAIN p.text = 1 .. Len(p.text)
      BY ONLY <3>1, LenProperties
    <3>3. DOMAIN p.text = 1 .. Len(t)
      BY Zenon, <3>1, <3>2
    <3>. QED
      BY Zenon, <2>2, <3>3
  (* The rest of the line holds no space, so that it cannot be cut.        *)
  <2>6. LastSpace(t, space + 1, i) = 0
    <3>1. /\ LastSpace(t, space + 1, i) \in 0 .. i
          /\ LastSpace(t, space + 1, i) # 0
             => LastSpace(t, space + 1, i) >= space + 1 /\ t[LastSpace(t, space + 1, i)] = Space
      BY <1>1, <2>4, LastSpaceIs
    <3>. QED
      BY <1>3, <2>3, <2>4, <3>1
  <2>7. Measured(t, i, q)
    <3>1. q.text[q.start - 1] = Break
      BY <2>2, <2>4, <2>5
    <3>2. LineFits(t, q.start, i)
      BY Zenon, <2>2, <2>6 DEF LineFits
    <3>. QED
      BY Zenon, <2>2, <2>4, <3>1, <3>2 DEF Measured
  <2>8. OnlySpaces(t, q)
    <3>1. ASSUME NEW j \in 1 .. Len(t)
          PROVE  q.text[j] = t[j] \/ (j < q.start /\ t[j] = Space /\ q.text[j] = Break)
      <4>1. CASE j = space
        <5>1. q.text[j] = Break /\ t[j] = Space
          BY Zenon, <2>3, <2>5, <4>1
        <5>2. j < q.start
          BY <2>2, <2>4, <4>1
        <5>. QED
          BY <5>1, <5>2
      <4>2. CASE j # space
        <5>1. q.text[j] = p.text[j]
          BY Zenon, <2>5, <4>2
        <5>2. p.text[j] = t[j] \/ (j < p.start /\ t[j] = Space /\ p.text[j] = Break)
          BY DEF WrapInv, OnlySpaces
        <5>3. j < p.start => j < q.start
          BY <1>3, <2>2, <2>3, <2>4
        <5>. QED
          BY <5>1, <5>2, <5>3
      <4>. QED
        BY <4>1, <4>2
    <3>. QED
      BY <3>1 DEF OnlySpaces
  (* The line that ends at the space fits.                                 *)
  <2>9. LineFits(t, p.start, space - 1)
    <3>1. space = i => LineFits(t, p.start, space - 1)
      BY DEF WrapInv, Measured
    <3>2. ASSUME space # i PROVE LineFits(t, p.start, space - 1)
      <4>1. t[i] # Space /\ space = p.space
        BY Zenon, <3>2 DEF space
      <4>2. TextWidth(t, p.start, i - 1) <= LineWidth
        BY <1>7, <4>1 DEF WrapInv, Measured, LineFits
      <4>3. TextWidth(t, p.start, space - 1) <= TextWidth(t, p.start, i - 1)
        BY <1>1, <1>3, <2>4, WidthGrows
      <4>4. /\ TextWidth(t, p.start, space - 1) \in Nat /\ TextWidth(t, p.start, i - 1) \in Nat
            /\ LineWidth \in Nat
        <5>1. space - 1 \in 0 .. Len(t)
          BY <1>1, <2>4
        <5>. QED
          BY <1>1, <1>3, <5>1, TextWidthIs, LayoutAssumption
      <4>5. TextWidth(t, p.start, space - 1) <= LineWidth
        BY ONLY <4>2, <4>3, <4>4
      <4>. QED
        BY Zenon, <4>5 DEF LineFits
    <3>. QED
      BY <3>1, <3>2
  <2>10. CutFits(t, q)
    <3>1. ASSUME NEW a \in 1 .. space, NEW e \in a - 1 .. space - 1,
                 LineStarts(q.text, a), q.text[e + 1] = Break, \A j \in a .. e : q.text[j] # Break
          PROVE  LineFits(t, a, e)
      <4>1. \A j \in p.start .. space - 1 : q.text[j] # Break
        <5>1. ASSUME NEW j \in p.start .. space - 1 PROVE q.text[j] # Break
          <6>1. j \in 1 .. Len(t) /\ j # space /\ ~ (j < p.start)
            BY <1>1, <1>3, <2>4
          <6>2. p.text[j] = t[j]
            BY Zenon, <6>1 DEF WrapInv, OnlySpaces
          <6>. QED
            BY Zenon, <1>1, <2>5, <6>1, <6>2
        <5>. QED
          BY <5>1
      <4>2. CASE a >= p.start
        <5>1. a = p.start
          <6>1. a # p.start => a # 1 /\ a - 1 \in p.start .. space - 1
            BY <1>3, <2>4, <4>2
          <6>. QED
            BY <3>1, <4>1, <6>1 DEF LineStarts
        <5>2. e = space - 1
          <6>1. e # space - 1 => e + 1 \in p.start .. space - 1
            BY <1>3, <2>4, <5>1
          <6>. QED
            BY <3>1, <4>1, <6>1
        <5>. QED
          BY Zenon, <2>9, <5>1, <5>2
      <4>3. CASE a < p.start
        <5>0. \A j \in 1 .. p.start - 1 : q.text[j] = p.text[j]
          <6>1. \A j \in 1 .. p.start - 1 : j \in 1 .. Len(t) /\ j # space
            BY <1>1, <1>3, <2>3, <2>4
          <6>. QED
            BY Zenon, <2>5, <6>1
        <5>1. p.text[p.start - 1] = Break /\ p.start - 1 \in 1 .. p.start - 1
          BY <1>3, <4>3 DEF WrapInv, Measured
        <5>2. e <= p.start - 2
          <6>1. ~ (e <= p.start - 2) => p.start - 1 \in a .. e
            BY <1>3, <4>3
          <6>. QED
            BY <3>1, <5>0, <5>1, <6>1
        <5>3. e + 1 \in 1 .. p.start - 1 /\ e \in a - 1 .. p.start - 2 /\ a \in 1 .. p.start - 1
          BY <1>3, <4>3, <5>2
        <5>4. p.text[e + 1] = Break
          BY Zenon, <3>1, <5>0, <5>3
        <5>5. \A j \in a .. e : p.text[j] # Break
          <6>1. \A j \in a .. e : j \in 1 .. p.start - 1
            BY <1>3, <5>2, <5>3
          <6>. QED
            BY <3>1, <5>0, <6>1
        <5>6. LineStarts(p.text, a)
          <6>1. a # 1 => a - 1 \in 1 .. p.start - 1
            BY <1>3, <4>3
          <6>2. a # 1 => q.text[a - 1] = p.text[a - 1]
            BY Zenon, <5>0, <6>1
          <6>. QED
            BY Zenon, <3>1, <6>2 DEF LineStarts
        <5>. QED
          BY Zenon, <5>3, <5>4, <5>5, <5>6 DEF WrapInv, CutFits
      <4>. QED
        BY <1>3, <4>2, <4>3
    <3>2. q.start - 1 = space /\ q.start - 2 = space - 1
      BY <2>2, <2>4
    <3>. QED
      BY Zenon, <3>1, <3>2 DEF CutFits
  <2>. QED
    BY Zenon, <2>7, <2>8, <2>10 DEF WrapInv, q
<1>. QED
  BY Zenon, <1>6, <1>7

(* A text without breaks, of any words and any widths of its letters, is   *)
(* cut only at its spaces, and no line that has a space is wider than the  *)
(* dialogue (legendas_ajustar_quebra_automatica): the part of LinesFit     *)
(* that does not depend on what the catalogue holds.                       *)
THEOREM WrapFits ==
    ASSUME NEW t \in Seq(Cells), ~ Has(t, Break), ~ Has(t, Return)
    PROVE  /\ Wrap(t) \in Seq(Cells) /\ Len(Wrap(t)) = Len(t)
           /\ \A j \in 1 .. Len(t) : Wrap(t)[j] = t[j] \/ (t[j] = Space /\ Wrap(t)[j] = Break)
           /\ Fits(Wrap(t))
<1> DEFINE n == Len(t)
           u == Wrap(t)
<1>1. n \in Nat /\ Break \in Cells
  BY DEF Cells
<1>2. PICK f : /\ \A i \in 0 .. n : f[i] \in WrapStates(Cells, t)
               /\ f[0] = WrapBase(t) /\ \A i \in 1 .. n : f[i] = WrapStep(t, i, f[i - 1])
               /\ Wrap(t) = f[n].text
  BY <1>1, WrapTurns
<1>3. \A i \in 0 .. n : WrapInv(t, i, f[i])
  <2> DEFINE P == {i \in 0 .. n : WrapInv(t, i, f[i])}
  <2>1. 0 \in P
    <3>1. f[0].text = t /\ f[0].start = 1 /\ f[0].space = 0 /\ f[0].pixels = 0
      BY <1>2 DEF WrapBase
    <3>2. 0 \in 0 .. n /\ 0 \in Nat /\ 1 \in Nat \ {0} /\ 1 > 0
      BY <1>1
    <3>3. LastSpace(t, 1, 0) = 0 /\ TextWidth(t, 1, 0) = 0
      BY <3>2, LastSpaceSteps, TextWidthIs
    <3>4. Measured(t, 0, f[0])
      BY <3>1, <3>3 DEF Measured, LineFits
    <3>5. OnlySpaces(t, f[0]) /\ CutFits(t, f[0])
      BY <3>1 DEF OnlySpaces, CutFits
    <3>. QED
      BY <3>2, <3>4, <3>5 DEF WrapInv
  <2>2. ASSUME NEW i \in 1 .. n, i - 1 \in P PROVE i \in P
    <3>1. i - 1 \in 0 .. n /\ i \in 0 .. n
      BY <1>1
    <3>2. f[i] = WrapStep(t, i, f[i - 1]) /\ f[i - 1] \in WrapStates(Cells, t) /\ WrapInv(t, i - 1, f[i - 1])
      BY <1>2, <2>2, <3>1
    <3>3. WrapInv(t, i, f[i])
      BY <1>1, <3>2, WrapKeeps
    <3>. QED
      BY <3>1, <3>3
  <2>3. \A i \in 0 .. n : i \in P
    <3>. HIDE DEF P
    <3>. QED
      BY <1>1, <2>1, <2>2, Reaches
  <2>. QED
    BY <2>3
<1> DEFINE p == f[n]
<1>4. WrapInv(t, n, p) /\ p \in WrapStates(Cells, t) /\ u = p.text
  BY <1>1, <1>2, <1>3
<1>. HIDE DEF p, u
<1>5. u \in Seq(Cells) /\ Len(u) = n /\ DOMAIN u = 1 .. n
  <2>1. p.text \in Seq(Cells) /\ Len(p.text) = n
    BY <1>4 DEF WrapStates
  <2>2. DOMAIN p.text = 1 .. Len(p.text)
    BY ONLY <2>1, LenProperties
  <2>. QED
    BY Zenon, <1>4, <2>1, <2>2
<1>6. \A j \in 1 .. n : u[j] = t[j] \/ (j < p.start /\ t[j] = Space /\ u[j] = Break)
  BY Zenon, <1>4 DEF WrapInv, OnlySpaces
<1>7. /\ p.start \in 1 .. n + 1 /\ (p.start # 1 => u[p.start - 1] = Break)
      /\ LineFits(t, p.start, n)
  BY Zenon, <1>4 DEF WrapInv, Measured
<1>8. \A j \in p.start .. n : u[j] # Break
  <2>1. \A j \in p.start .. n : j \in 1 .. n /\ ~ (j < p.start)
    BY <1>7
  <2>2. \A j \in 1 .. n : t[j] # Break
    BY DEF Has
  <2>. QED
    BY Zenon, <1>6, <2>1, <2>2
<1>9. ASSUME NEW a \in 1 .. n, LineStarts(u, a)
      PROVE  LineFits(u, a, LineEnd(u, a) - 1)
  <2> DEFINE E == {j \in a .. n : u[j] = Break} \cup {n + 1}
             end == LineEnd(u, a)
             e == end - 1
  <2>1. end = Min(E)
    BY Zenon, <1>5 DEF LineEnd
  <2>2. Min(E) \in E /\ \A j \in E : Min(E) <= j
    <3>1. E \in SUBSET Nat /\ E # {}
      BY <1>1
    <3>. HIDE DEF E
    <3>. QED
      BY <3>1, MinIs
  <2>. HIDE DEF end
  <2>3. /\ end \in a .. n + 1 /\ (end <= n => u[end] = Break)
        /\ \A j \in a .. n : u[j] = Break => end <= j
    BY <1>1, <2>1, <2>2
  <2>4. e \in 0 .. n /\ a \in Nat \ {0} /\ e \in a - 1 .. n /\ e + 1 = end
    BY <1>1, <2>3
  <2>5. \A j \in a .. e : u[j] # Break
    BY <2>3, <2>4
  <2>6. LineFits(t, a, e)
    <3>1. CASE a >= p.start
      <4>1. a = p.start
        <5>1. a # p.start => a # 1 /\ a - 1 \in p.start .. n
          BY <1>7, <3>1
        <5>. QED
          BY Zenon, <1>8, <1>9, <5>1 DEF LineStarts
      <4>2. e = n
        <5>1. e # n => end \in p.start .. n /\ end <= n
          BY <2>3, <2>4, <4>1
        <5>. QED
          BY Zenon, <1>8, <2>3, <5>1
      <4>. QED
        BY Zenon, <1>7, <4>1, <4>2
    <3>2. CASE a < p.start
      <4>1. p.start # 1 /\ p.start - 1 \in a .. n
        BY <1>7, <3>2
      <4>2. u[p.start - 1] = Break
        BY Zenon, <1>7, <4>1
      <4>3. end <= p.start - 1
        BY Zenon, <2>3, <4>1, <4>2
      <4>4. a \in 1 .. p.start - 1 /\ e \in a - 1 .. p.start - 2 /\ end <= n
        BY <1>7, <2>4, <3>2, <4>3
      <4>5. u[e + 1] = Break
        BY Zenon, <2>3, <2>4, <4>4
      <4>. QED
        BY Zenon, <1>4, <1>9, <2>5, <4>4, <4>5 DEF WrapInv, CutFits
    <3>. QED
      BY <1>7, <3>1, <3>2
  <2>7. \A j \in a .. e : u[j] = t[j]
    <3>1. \A j \in a .. e : j \in 1 .. n
      BY <2>4
    <3>. QED
      BY Zenon, <1>6, <2>5, <3>1
  <2>8. TextWidth(u, a, e) = TextWidth(t, a, e) /\ LastSpace(u, a, e) = LastSpace(t, a, e)
    BY <1>5, <2>4, <2>7, PartsAgree
  <2>9. LineFits(u, a, e)
    BY Zenon, <2>6, <2>8 DEF LineFits
  <2>. QED
    BY <2>9 DEF end
<1>10. Fits(u)
  BY Zenon, <1>5, <1>9 DEF Fits, LineStarts, LineFits
<1>11. \A j \in 1 .. n : u[j] = t[j] \/ (t[j] = Space /\ u[j] = Break)
  BY Zenon, <1>6
<1>. QED
  BY Zenon, <1>5, <1>10, <1>11 DEF u

-----------------------------------------------------------------------------
(* Characters.                                                             *)

LEMMA Alphabet ==
    /\ Textual = Characters /\ Characters \subseteq Cells /\ {Code, Arg} \subseteq Cells
    /\ {Til, TilBefore} \subseteq Letters /\ Letters \subseteq Printable
    /\ {Space, Break, Return} \subseteq Characters
BY CatalogueAssumption
   DEF Cells, Printable, Space, Break, Return, Code, Arg, Characters, Textual

(* The catalogue.                                                          *)

LEMMA EntriesAre ==
    /\ Len(Entries) \in Nat /\ DOMAIN Entries = 1 .. Len(Entries)
    /\ \A e \in DOMAIN Entries :
           /\ Entries[e].source \in Seq(Characters) /\ Entries[e].source # <<>>
           /\ Entries[e].translated \in Seq(Characters \cup DOMAIN Accent)
           /\ Entries[e].translated # <<>>
<1> DEFINE Step(k, s) == IF Usable(Lines[k]) /\ Len(s) < MaxEntries THEN Append(s, Lines[k]) ELSE s
           Loop(f) == f = [k \in 0 .. Len(Lines) |-> IF k = 0 THEN <<>> ELSE Step(k, f[k - 1])]
           f == CHOOSE f : Loop(f)
           Line == {l \in [source : Seq(Characters), translated : Seq(Characters \cup DOMAIN Accent)] : Usable(l)}
           S == {s \in Seq(Line) : Len(s) <= MaxEntries}
<1>1. Entries = f[Len(Lines)]
  BY Zenon DEF Entries
<1>2. Len(Lines) \in Nat /\ \A k \in 1 .. Len(Lines) :
        Lines[k] \in [source : Seq(Characters), translated : Seq(Characters \cup DOMAIN Accent)]
  <2> DEFINE R == [source : Seq(Characters), translated : Seq(Characters \cup DOMAIN Accent)]
  <2>1. Lines \in Seq(R)
    BY CatalogueAssumption
  <2>. HIDE DEF R
  <2>2. Len(Lines) \in Nat /\ \A k \in 1 .. Len(Lines) : Lines[k] \in R
    BY <2>1
  <2>. QED
    BY <2>2 DEF R
<1>3. ASSUME NEW k \in 1 .. Len(Lines), NEW s \in S PROVE Step(k, s) \in S
  <2>1. CASE Usable(Lines[k]) /\ Len(s) < MaxEntries
    <3>1. Lines[k] \in Line
      BY <1>2, <2>1
    <3>. HIDE DEF Line
    <3>. QED
      BY <2>1, <3>1, CatalogueAssumption
  <2>. QED
    BY <2>1
<1>4. <<>> \in S
  BY CatalogueAssumption
<1>. HIDE DEF S
<1>5. \E g : Loop(g)
  <2> DEFINE step == [t \in (1 .. Len(Lines)) \X S |-> Step(t[1], t[2])]
  <2>1. step \in [(1 .. Len(Lines)) \X S -> S]
    BY <1>3
  <2>2. PICK g \in [0 .. Len(Lines) -> S] : Turns(g, Len(Lines), <<>>, step)
    <3>. HIDE DEF step
    <3>. QED
      BY <1>2, <1>4, <2>1, LoopExists
  <2>3. \A k \in 0 .. Len(Lines) : k # 0 => step[<<k, g[k - 1]>>] = Step(k, g[k - 1])
    OBVIOUS
  <2>. HIDE DEF step, Step
  <2>4. Loop(g)
    BY <2>2, <2>3 DEF Turns
  <2>. QED
    BY <2>4
<1>6. Loop(f)
  BY <1>5
<1>. HIDE DEF f
<1>7. \A k \in 0 .. Len(Lines) : f[k] \in S
  <2> DEFINE P == {k \in 0 .. Len(Lines) : f[k] \in S}
  <2>1. 0 \in P
    <3>1. 0 \in 0 .. Len(Lines)
      BY <1>2
    <3>2. f[0] = <<>>
      BY Zenon, <1>6, <3>1
    <3>. QED
      BY <1>4, <3>1, <3>2
  <2>2. ASSUME NEW k \in 1 .. Len(Lines), k - 1 \in P PROVE k \in P
    <3>1. k \in 0 .. Len(Lines) /\ k # 0
      OBVIOUS
    <3>2. f[k] = Step(k, f[k - 1])
      BY Zenon, <1>6, <3>1
    <3>3. f[k - 1] \in S
      BY <2>2
    <3>4. Step(k, f[k - 1]) \in S
      BY <1>3, <3>3
    <3>. QED
      BY <3>1, <3>2, <3>4
  <2>. HIDE DEF P, Step, Loop
  <2>3. \A k \in 0 .. Len(Lines) : k \in P
    BY <1>2, <2>1, <2>2, Reaches
  <2>. QED
    BY <2>3 DEF P
<1>8. Entries \in Seq(Line)
  <2>1. Len(Lines) \in 0 .. Len(Lines)
    BY <1>2
  <2>. QED
    BY <1>1, <1>7, <2>1 DEF S
<1>9. \A e \in DOMAIN Entries : Entries[e] \in Line
  <2>. HIDE DEF Line
  <2>. QED
    BY <1>8
<1>10. Len(Entries) \in Nat /\ DOMAIN Entries = 1 .. Len(Entries)
  <2>. HIDE DEF Line
  <2>. QED
    BY <1>8
<1>. QED
  BY <1>9, <1>10 DEF Usable

LEMMA FindIs ==
    ASSUME NEW t
    PROVE  /\ Find(t) \in 0 .. Len(Entries)
           /\ Find(t) # 0 => Find(t) \in DOMAIN Entries /\ Entries[Find(t)].source = t
<1> DEFINE S == {0} \cup {e \in DOMAIN Entries : Entries[e].source = t}
<1>1. Len(Entries) \in Nat /\ S \in SUBSET (0 .. Len(Entries)) /\ S # {}
  BY EntriesAre
<1>2. Find(t) = Max(S)
  BY DEF Find
<1>3. Max(S) \in S
  <2>. HIDE DEF S
  <2>. QED
    BY <1>1, MaxIs
<1>. QED
  BY <1>1, <1>2, <1>3

LEMMA FindTranslatedIs ==
    ASSUME NEW t
    PROVE  FindTranslated(t) # 0 => FindTranslated(t) \in DOMAIN Entries
<1> DEFINE S == {0} \cup {e \in DOMAIN Entries : Encode(Entries[e].translated) = t}
<1>1. Len(Entries) \in Nat /\ S \in SUBSET (0 .. Len(Entries)) /\ S # {}
  BY EntriesAre
<1>2. FindTranslated(t) = Max(S)
  BY DEF FindTranslated
<1>3. Max(S) \in S
  <2>. HIDE DEF S
  <2>. QED
    BY <1>1, MaxIs
<1>. QED
  BY <1>2, <1>3

LEMMA EncodeIs ==
    ASSUME NEW t \in Seq(Characters \cup DOMAIN Accent)
    PROVE  /\ Encode(t) \in Seq(Characters) /\ Len(Encode(t)) = Len(t)
           /\ EncodeBefore(t) \in Seq(Characters) /\ Len(EncodeBefore(t)) = Len(t)
<1>1. ASSUME NEW c \in Characters \cup DOMAIN Accent PROVE Fold(c) \in Characters
  <2>1. CASE c \in DOMAIN Accent
    <3>1. Accent[c] \in Letters
      BY <2>1, CatalogueAssumption
    <3>. QED
      BY <2>1, <3>1 DEF Fold, Characters, Printable
  <2>2. CASE c \notin DOMAIN Accent
    BY <2>2 DEF Fold
  <2>. QED
    BY <2>1, <2>2
<1>2. TilBefore \in Characters
  BY CatalogueAssumption DEF Characters, Printable
<1>3. Len(t) \in Nat /\ DOMAIN t = 1 .. Len(t) /\ \A i \in DOMAIN t : t[i] \in Characters \cup DOMAIN Accent
  <2> DEFINE X == Characters \cup DOMAIN Accent
  <2>. HIDE DEF X
  <2>1. t \in Seq(X)
    BY DEF X
  <2>2. Len(t) \in Nat /\ DOMAIN t = 1 .. Len(t) /\ \A i \in DOMAIN t : t[i] \in X
    BY <2>1
  <2>. QED
    BY <2>2 DEF X
<1>4. /\ Encode(t) = [i \in 1 .. Len(t) |-> Fold(t[i])]
      /\ EncodeBefore(t) = [i \in 1 .. Len(t) |-> IF t[i] = ATilde THEN TilBefore ELSE Fold(t[i])]
  BY <1>3 DEF Encode, EncodeBefore
<1>5. /\ Encode(t) \in [1 .. Len(t) -> Characters] /\ EncodeBefore(t) \in [1 .. Len(t) -> Characters]
  BY <1>1, <1>2, <1>3, <1>4
<1>. HIDE DEF Characters
<1>. QED
  BY <1>3, <1>5


-----------------------------------------------------------------------------
(* Relocation.                                                             *)

LEMMA EntryOfIs ==
    ASSUME NEW key, NEW before
    PROVE  EntryOf(key, before) # 0 => EntryOf(key, before) \in DOMAIN Entries
<1>1. Find(key) # 0 => Find(key) \in DOMAIN Entries
  BY FindIs
<1>2. CASE Find(key) # 0 \/ ~ before
  BY Zenon, <1>1, <1>2 DEF EntryOf
<1>3. CASE ~ (Find(key) # 0 \/ ~ before)
  <2> DEFINE u == [i \in DOMAIN key |-> IF key[i] = TilBefore THEN Til ELSE key[i]]
  <2>1. EntryOf(key, before) = FindTranslated(u)
    BY Zenon, <1>3 DEF EntryOf
  <2>. HIDE DEF u
  <2>. QED
    BY <2>1, FindTranslatedIs
<1>. QED
  BY Zenon, <1>2, <1>3

(* What is shown of an entry has the length of its translation, whichever  *)
(* the encoding and the lines.                                             *)
LEMMA ShownIs ==
    ASSUME NEW e \in DOMAIN Entries, NEW key, NEW before
    PROVE  /\ Shown(e, key, before) \in Seq(Characters)
           /\ Len(Shown(e, key, before)) = Len(Entries[e].translated)
           /\ Len(Entries[e].translated) \in Nat
<1> DEFINE t == Entries[e].translated
           glyphs == IF before THEN EncodeBefore(t) ELSE Encode(t)
<1>1. t \in Seq(Characters \cup DOMAIN Accent)
  BY EntriesAre
<1>. HIDE DEF t
<1>2. glyphs \in Seq(Characters) /\ Len(glyphs) = Len(t)
  BY <1>1, EncodeIs
<1>. HIDE DEF glyphs
<1>3. Wrap(glyphs) \in Seq(Characters) /\ Len(Wrap(glyphs)) = Len(glyphs)
  BY <1>2, Alphabet, WrapIs
<1>4. Shown(e, key, before) = IF Has(key, Break) \/ Has(key, Return) THEN glyphs ELSE Wrap(glyphs)
  BY Zenon DEF Shown, glyphs, t
<1>5. Len(t) \in Nat
  <2> DEFINE C == Characters \cup DOMAIN Accent
  <2>. HIDE DEF C
  <2>1. t \in Seq(C)
    BY <1>1 DEF C
  <2>. QED
    BY <2>1
<1>6. Shown(e, key, before) \in Seq(Characters) /\ Len(Shown(e, key, before)) = Len(t)
  BY Zenon, <1>2, <1>3, <1>4
<1>. QED
  BY <1>5, <1>6 DEF t

(* FlattenSeq, turn by turn.                                               *)
LEMMA FlattenTurns ==
    ASSUME NEW X, NEW s \in Seq(Seq(X)), Len(s) # 0
    PROVE  \E f \in [1 .. Len(s) -> Seq(X)] :
               /\ f[1] = s[1] /\ \A i \in 2 .. Len(s) : f[i] = f[i - 1] \o s[i]
               /\ FlattenSeq(s) = f[Len(s)]
<1> DEFINE n == Len(s)
           Loop(f) == f = [i \in 1 .. n |-> IF i = 1 THEN s[i] ELSE f[i - 1] \o s[i]]
           f == CHOOSE f : Loop(f)
           S == Seq(X)
           step == [u \in (1 .. n) \X S |-> IF u[1] = 1 THEN s[1] ELSE u[2] \o s[u[1]]]
<1>1. n \in Nat \ {0} /\ \A i \in 1 .. n : s[i] \in S
  <2>. HIDE DEF S
  <2>1. s \in Seq(S)
    BY DEF S
  <2>. QED
    BY <2>1
<1>2. FlattenSeq(s) = f[n]
  BY Zenon, <1>1 DEF FlattenSeq
<1>3. step \in [(1 .. n) \X S -> S] /\ <<>> \in S
  <2>1. ASSUME NEW k \in 1 .. n, NEW x \in S PROVE (IF k = 1 THEN s[1] ELSE x \o s[k]) \in S
    <3>1. s[k] \in S /\ s[1] \in S
      BY <1>1
    <3>. QED
      BY <3>1
  <2>. HIDE DEF S
  <2>2. \A u \in (1 .. n) \X S : (IF u[1] = 1 THEN s[1] ELSE u[2] \o s[u[1]]) \in S
    BY <2>1
  <2>3. <<>> \in S
    BY DEF S
  <2>. QED
    BY <2>2, <2>3
<1>4. PICK g \in [0 .. n -> S] : Turns(g, n, <<>>, step)
  <2>. HIDE DEF step, S, n
  <2>. QED
    BY <1>1, <1>3, LoopExists
<1> DEFINE h == [i \in 1 .. n |-> g[i]]
<1>5. \A i \in 1 .. n : g[i] = IF i = 1 THEN s[1] ELSE g[i - 1] \o s[i]
  <2>1. ASSUME NEW i \in 1 .. n PROVE g[i] = IF i = 1 THEN s[1] ELSE g[i - 1] \o s[i]
    <3>1. i \in 0 .. n /\ i # 0 /\ i - 1 \in 0 .. n
      BY <1>1
    <3>2. g[i] = step[<<i, g[i - 1]>>]
      BY Zenon, <1>4, <3>1 DEF Turns
    <3>3. g[i - 1] \in S
      BY <1>4, <3>1
    <3>. HIDE DEF S, n
    <3>. QED
      BY <3>2, <3>3
  <2>. QED
    BY <2>1
<1>6. Loop(h)
  <2>1. ASSUME NEW i \in 1 .. n PROVE h[i] = IF i = 1 THEN s[i] ELSE h[i - 1] \o s[i]
    <3>1. i # 1 => i - 1 \in 1 .. n
      BY <1>1
    <3>2. h[i] = g[i] /\ (i # 1 => h[i - 1] = g[i - 1])
      BY Zenon, <3>1
    <3>. HIDE DEF h, n
    <3>. QED
      BY Zenon, <1>5, <3>2
  <2>2. h = [i \in 1 .. n |-> h[i]]
    OBVIOUS
  <2>. HIDE DEF h, n
  <2>. QED
    BY Zenon, <2>1, <2>2
<1>7. Loop(f)
  BY Zenon, <1>6
<1>. HIDE DEF f, h
<1>8. f[1] = s[1] /\ \A i \in 2 .. n : f[i] = f[i - 1] \o s[i]
  <2>1. 1 \in 1 .. n /\ \A i \in 2 .. n : i \in 1 .. n /\ i # 1
    BY <1>1
  <2>. HIDE DEF n
  <2>. QED
    BY Zenon, <1>7, <2>1
<1>9. \A i \in 1 .. n : f[i] \in S
  <2> DEFINE P == {0} \cup {i \in 1 .. n : f[i] \in S}
  <2>1. ASSUME NEW i \in 1 .. n, i - 1 \in P PROVE i \in P
    <3>1. CASE i = 1
      BY <1>1, <1>8, <3>1
    <3>2. CASE i # 1
      <4>1. i \in 2 .. n /\ i - 1 # 0
        BY <3>2
      <4>2. f[i - 1] \in S /\ s[i] \in S /\ f[i] = f[i - 1] \o s[i]
        BY <1>1, <1>8, <2>1, <4>1
      <4>3. f[i] \in S
        BY <4>2
      <4>. QED
        BY <4>3
    <3>. QED
      BY <3>1, <3>2
  <2>2. \A i \in 0 .. n : i \in P
    <3>1. 0 \in P
      OBVIOUS
    <3>. HIDE DEF P, n
    <3>. QED
      BY <1>1, <2>1, <3>1, Reaches
  <2>. HIDE DEF n
  <2>. QED
    BY <1>1, <2>2
<1>10. f \in [1 .. n -> S]
  <2>1. f = [i \in 1 .. n |-> f[i]]
    <3>. HIDE DEF n
    <3>1. f = [i \in 1 .. n |-> IF i = 1 THEN s[i] ELSE f[i - 1] \o s[i]]
      BY <1>7
    <3>2. DOMAIN f = 1 .. n
      BY <3>1
    <3>. QED
      BY <3>1, <3>2
  <2>. HIDE DEF n, S
  <2>. QED
    BY <1>9, <2>1
<1>. QED
  BY Zenon, <1>2, <1>8, <1>10

LEMMA FlattenIs ==
    ASSUME NEW X, NEW s \in Seq(Seq(X))
    PROVE  FlattenSeq(s) \in Seq(X)
<1>1. CASE Len(s) = 0
  <2>1. s = <<>>
    BY <1>1
  <2>. QED
    BY <1>1, <2>1 DEF FlattenSeq
<1>2. CASE Len(s) # 0
  <2>1. PICK f \in [1 .. Len(s) -> Seq(X)] : FlattenSeq(s) = f[Len(s)]
    BY <1>2, FlattenTurns
  <2>2. Len(s) \in 1 .. Len(s)
    BY <1>2
  <2>. QED
    BY <2>1, <2>2
<1>. QED
  BY <1>1, <1>2

(* m sequences of one element and an empty one.                            *)
LEMMA FlattenSingles ==
    ASSUME NEW X, NEW m \in Nat, NEW s \in Seq(Seq(X)), Len(s) = m + 1,
           \A i \in 1 .. m : Len(s[i]) = 1, Len(s[m + 1]) = 0
    PROVE  Len(FlattenSeq(s)) = m
<1>1. PICK f \in [1 .. m + 1 -> Seq(X)] :
          /\ f[1] = s[1] /\ \A i \in 2 .. m + 1 : f[i] = f[i - 1] \o s[i]
          /\ FlattenSeq(s) = f[m + 1]
  <2>1. Len(s) # 0
    OBVIOUS
  <2>2. \E f \in [1 .. Len(s) -> Seq(X)] :
            /\ f[1] = s[1] /\ \A i \in 2 .. Len(s) : f[i] = f[i - 1] \o s[i]
            /\ FlattenSeq(s) = f[Len(s)]
    BY ONLY <2>1, FlattenTurns, s \in Seq(Seq(X))
  <2>. QED
    BY Zenon, <2>2
<1>2. \A i \in 1 .. m + 1 : s[i] \in Seq(X)
  <2> DEFINE S == Seq(X)
  <2>. HIDE DEF S
  <2>1. s \in Seq(S)
    BY DEF S
  <2>2. \A i \in 1 .. Len(s) : s[i] \in S
    BY <2>1
  <2>. QED
    BY <2>2 DEF S
<1>3. \A i \in 2 .. m + 1 : Len(f[i]) = Len(f[i - 1]) + Len(s[i])
  <2>1. ASSUME NEW i \in 2 .. m + 1 PROVE Len(f[i]) = Len(f[i - 1]) + Len(s[i])
    <3>0. i - 1 \in 1 .. m + 1 /\ i \in 1 .. m + 1
      OBVIOUS
    <3>1. f[i - 1] \in Seq(X) /\ s[i] \in Seq(X) /\ f[i] = f[i - 1] \o s[i]
      BY Zenon, <1>1, <1>2, <3>0
    <3>. QED
      BY <3>1
  <2>. QED
    BY <2>1
<1> DEFINE P == {0} \cup {i \in 1 .. m : Len(f[i]) = i}
<1>4. ASSUME NEW i \in 1 .. m, i - 1 \in P PROVE i \in P
  <2>1. CASE i = 1
    <3>1. f[i] = s[i] /\ Len(s[i]) = 1
      BY <1>1, <2>1
    <3>2. Len(f[i]) = i
      BY Zenon, <2>1, <3>1
    <3>. QED
      BY <3>2
  <2>2. CASE i # 1
    <3>1. i \in 2 .. m + 1 /\ i - 1 # 0
      BY <2>2
    <3>2. Len(f[i]) = Len(f[i - 1]) + Len(s[i]) /\ Len(f[i - 1]) = i - 1 /\ Len(s[i]) = 1
      BY <1>3, <1>4, <3>1
    <3>3. Len(f[i]) = i
      BY <3>2
    <3>. QED
      BY <3>3
  <2>. QED
    BY <2>1, <2>2
<1>5. \A i \in 0 .. m : i \in P
  <2>1. 0 \in P
    OBVIOUS
  <2>. HIDE DEF P
  <2>. QED
    BY <1>4, <2>1, Reaches
<1>6. CASE m = 0
  <2>1. f[m + 1] = s[m + 1]
    BY <1>1, <1>6
  <2>2. Len(f[m + 1]) = 0
    BY Zenon, <2>1
  <2>. QED
    BY Zenon, <1>1, <1>6, <2>2
<1>7. CASE m # 0
  <2>1. m + 1 \in 2 .. m + 1 /\ (m + 1) - 1 = m /\ m \in 0 .. m
    BY <1>7
  <2>2. Len(f[m + 1]) = Len(f[m]) + Len(s[m + 1])
    <3>1. Len(f[m + 1]) = Len(f[(m + 1) - 1]) + Len(s[m + 1])
      BY ONLY <1>3, <2>1
    <3>. QED
      BY Zenon, <2>1, <3>1
  <2>3. Len(f[m]) = m
    BY <1>5, <1>7, <2>1
  <2>4. Len(f[m + 1]) = m
    BY <2>2, <2>3
  <2>. QED
    BY Zenon, <1>1, <2>4
<1>. QED
  BY <1>6, <1>7

LEMMA AssembleIs ==
    ASSUME NEW X, Code \in X, NEW shown \in Seq(X),
           NEW controls \in Seq([offset : Nat, arg : X]), NEW at
    PROVE  /\ Assemble(shown, controls, at) \in Seq(X)
           /\ controls = <<>> => Len(Assemble(shown, controls, at)) = Len(shown)
<1> DEFINE S == Seq(X)
           pieces(pos) == [i \in DOMAIN controls |->
                              IF at[i] = pos THEN <<Code, controls[i].arg>> ELSE <<>>]
           Here(pos) == FlattenSeq(pieces(pos))
           m == Len(shown)
           one(k) == IF k > m THEN <<>> ELSE <<shown[k]>>
           s == [k \in 1 .. m + 1 |-> Here(k - 1) \o one(k)]
<1>1. Assemble(shown, controls, at) = FlattenSeq(s)
  BY Zenon DEF Assemble
<1>2. /\ m \in Nat /\ (\A k \in 1 .. m : shown[k] \in X)
      /\ DOMAIN controls = 1 .. Len(controls) /\ Len(controls) \in Nat
  OBVIOUS
<1>3. ASSUME NEW pos PROVE Here(pos) \in S
  <2>1. \A i \in DOMAIN controls : controls[i].arg \in X
    <3> DEFINE R == [offset : Nat, arg : X]
    <3>1. \A i \in DOMAIN controls : controls[i] \in R
      <4>. HIDE DEF R
      <4>1. controls \in Seq(R)
        BY DEF R
      <4>. QED
        BY <4>1
    <3>. QED
      BY <3>1
  <2>2. \A i \in DOMAIN controls : (IF at[i] = pos THEN <<Code, controls[i].arg>> ELSE <<>>) \in S
    <3>1. ASSUME NEW x \in X PROVE <<Code, x>> \in S /\ <<>> \in S
      OBVIOUS
    <3>2. <<>> \in S
      OBVIOUS
    <3>. HIDE DEF S
    <3>. QED
      BY <2>1, <3>1, <3>2
  <2>3. pieces(pos) \in Seq(S)
    <3>. HIDE DEF S
    <3>1. pieces(pos) \in [1 .. Len(controls) -> S]
      BY <1>2, <2>2
    <3>. HIDE DEF pieces
    <3>. QED
      BY <1>2, <3>1
  <2>. HIDE DEF pieces
  <2>. QED
    BY <2>3, FlattenIs
<1>4. \A k \in 1 .. m + 1 : one(k) \in S /\ Len(one(k)) = IF k > m THEN 0 ELSE 1
  <2>1. ASSUME NEW k \in 1 .. m + 1 PROVE one(k) \in S /\ Len(one(k)) = IF k > m THEN 0 ELSE 1
    <3>1. CASE k > m
      BY <3>1
    <3>2. CASE ~ (k > m)
      <4>1. shown[k] \in X
        BY <1>2, <3>2
      <4>. QED
        BY <3>2, <4>1
    <3>. QED
      BY <3>1, <3>2
  <2>. QED
    BY <2>1
<1>5. controls = <<>> => \A pos : Here(pos) \in S /\ Len(Here(pos)) = 0
  <2>1. ASSUME controls = <<>>, NEW pos PROVE Len(Here(pos)) = 0
    <3>1. pieces(pos) = <<>>
      BY <2>1
    <3>2. FlattenSeq(<<>>) = <<>>
      BY DEF FlattenSeq
    <3>. QED
      BY <3>1, <3>2
  <2>. QED
    BY <1>3, <2>1
<1>. HIDE DEF Here, one
<1>6. s \in Seq(S)
  <2>1. \A k \in 1 .. m + 1 : Here(k - 1) \o one(k) \in S
    BY <1>3, <1>4
  <2>. HIDE DEF S
  <2>2. s \in [1 .. m + 1 -> S]
    BY <2>1
  <2>. HIDE DEF s
  <2>. QED
    BY <1>2, <2>2
<1>7. Assemble(shown, controls, at) \in S
  <2>. HIDE DEF s
  <2>. QED
    BY <1>1, <1>6, FlattenIs
<1>8. ASSUME controls = <<>> PROVE Len(Assemble(shown, controls, at)) = m
  <2>1. \A k \in 1 .. m + 1 : Len(s[k]) = IF k > m THEN 0 ELSE 1
    <3>1. ASSUME NEW k \in 1 .. m + 1 PROVE Len(s[k]) = IF k > m THEN 0 ELSE 1
      <4>1. Here(k - 1) \in S /\ Len(Here(k - 1)) = 0 /\ one(k) \in S
        BY <1>4, <1>5, <1>8
      <4>2. Len(Here(k - 1) \o one(k)) = Len(Here(k - 1)) + Len(one(k))
        BY <4>1
      <4>3. s[k] = Here(k - 1) \o one(k)
        OBVIOUS
      <4>4. Len(one(k)) = IF k > m THEN 0 ELSE 1
        BY <1>4
      <4>5. Len(s[k]) = 0 + Len(one(k))
        BY Zenon, <4>1, <4>2, <4>3
      <4>. QED
        BY <4>4, <4>5
    <3>. QED
      BY <3>1
  <2>2. Len(s) = m + 1 /\ (\A k \in 1 .. m : Len(s[k]) = 1) /\ Len(s[m + 1]) = 0
    BY <1>2, <2>1
  <2>. HIDE DEF s, m
  <2>3. Len(FlattenSeq(s)) = m
    BY <1>2, <1>6, <2>2, FlattenSingles
  <2>. QED
    BY Zenon, <1>1, <2>3
<1>. QED
  BY <1>7, <1>8

(* What ReadText finds: a text below the arena, and, when it is whole, the *)
(* NUL behind it.                                                          *)
ReadStep(mem, p, q) ==
    LET at == p + q.raw
    IN  IF q.state # "open" \/ q.raw >= MaxText \/ at >= RdramLimit THEN q
        ELSE IF mem[at] = Nul THEN [q EXCEPT !.state = "whole"]
        ELSE IF mem[at] = Code /\ q.raw + 1 < MaxText /\ at + 1 < RdramLimit
        THEN [q EXCEPT !.raw = @ + 2,
                       !.controls = IF Len(@) = MaxControls THEN @
                                    ELSE Append(@, [offset |-> Len(q.key), arg |-> mem[at + 1]])]
        ELSE IF mem[at] \in Textual
        THEN [q EXCEPT !.raw = @ + 1, !.key = Append(@, mem[at])]
        ELSE [q EXCEPT !.state = "binary"]
ReadBase == [raw |-> 0, key |-> <<>>, controls |-> <<>>, state |-> "open"]
ReadStates(V, mem, p) ==
    {q \in [raw : Nat, key : Seq(Textual), controls : Seq([offset : Nat, arg : V]),
            state : {"open", "whole", "binary"}] :
        /\ p + q.raw <= RdramLimit
        /\ q.state = "whole" => p + q.raw < RdramLimit /\ mem[p + q.raw] = Nul}

LEMMA ReadStepIs ==
    ASSUME NEW V, NEW n \in Nat, RdramLimit <= n, NEW mem \in [0 .. n - 1 -> V],
           NEW p \in Nat, NEW q \in ReadStates(V, mem, p)
    PROVE  ReadStep(mem, p, q) \in ReadStates(V, mem, p)
<1> DEFINE at == p + q.raw
           C == [offset : Nat, arg : V]
<1>1. /\ q \in [raw : Nat, key : Seq(Textual), controls : Seq(C), state : {"open", "whole", "binary"}]
      /\ p + q.raw <= RdramLimit /\ RdramLimit \in Nat /\ MaxText \in Nat /\ q.raw \in Nat
      /\ q.state = "whole" => p + q.raw < RdramLimit /\ mem[p + q.raw] = Nul
  BY CatalogueAssumption, ArenaAssumption DEF ReadStates
<1>2. q.key \in Seq(Textual) /\ q.controls \in Seq(C) /\ Len(q.key) \in Nat
  <2>1. q.key \in Seq(Textual) /\ q.controls \in Seq(C)
    BY <1>1
  <2>2. Len(q.key) \in Nat
    BY ONLY <2>1, LenProperties
  <2>. QED
    BY <2>1, <2>2
<1>3. CASE q.state # "open" \/ q.raw >= MaxText \/ at >= RdramLimit
  BY Zenon, <1>3 DEF ReadStep
<1>4. CASE ~ (q.state # "open" \/ q.raw >= MaxText \/ at >= RdramLimit)
  <2>1. at \in 0 .. n - 1 /\ at < RdramLimit /\ q.state = "open"
    BY <1>1, <1>4
  <2>2. CASE mem[at] = Nul
    <3>1. ReadStep(mem, p, q) = [q EXCEPT !.state = "whole"]
      BY Zenon, <1>4, <2>2 DEF ReadStep
    <3>. HIDE DEF C
    <3>. QED
      BY <1>1, <2>1, <2>2, <3>1 DEF ReadStates, C
  <2>3. CASE mem[at] # Nul /\ mem[at] = Code /\ q.raw + 1 < MaxText /\ at + 1 < RdramLimit
    <3> DEFINE c == [offset |-> Len(q.key), arg |-> mem[at + 1]]
               controls == IF Len(q.controls) = MaxControls THEN q.controls ELSE Append(q.controls, c)
    <3>1. ReadStep(mem, p, q) = [q EXCEPT !.raw = q.raw + 2, !.controls = controls]
      <4>1. ReadStep(mem, p, q) = [q EXCEPT !.raw = @ + 2, !.controls = IF Len(@) = MaxControls THEN @ ELSE Append(@, c)]
        BY Zenon, <1>4, <2>3 DEF ReadStep
      <4>. QED
        BY Zenon, <4>1
    <3>2. at + 1 \in 0 .. n - 1
      BY ONLY <2>1, <2>3, <1>1, n \in Nat, RdramLimit <= n
    <3>3. c \in C
      BY <1>2, <3>2
    <3>4. controls \in Seq(C)
      <4>. HIDE DEF c, C
      <4>. QED
        BY <1>2, <3>3
    <3>5. q.raw + 2 \in Nat /\ p + (q.raw + 2) <= RdramLimit
      BY <1>1, <2>3
    <3>. HIDE DEF controls, C, c, at
    <3>6. /\ [q EXCEPT !.raw = q.raw + 2, !.controls = controls]
               \in [raw : Nat, key : Seq(Textual), controls : Seq(C), state : {"open", "whole", "binary"}]
          /\ [q EXCEPT !.raw = q.raw + 2, !.controls = controls].raw = q.raw + 2
          /\ [q EXCEPT !.raw = q.raw + 2, !.controls = controls].state = "open"
      BY <1>1, <2>1, <3>4, <3>5
    <3>. QED
      BY <3>1, <3>5, <3>6 DEF ReadStates, C
  <2>4. CASE /\ mem[at] # Nul /\ ~ (mem[at] = Code /\ q.raw + 1 < MaxText /\ at + 1 < RdramLimit)
             /\ mem[at] \in Textual
    <3> DEFINE key == Append(q.key, mem[at])
    <3>1. ReadStep(mem, p, q) = [q EXCEPT !.raw = q.raw + 1, !.key = key]
      BY Zenon, <1>4, <2>4 DEF ReadStep
    <3>2. key \in Seq(Textual)
      BY <1>2, <2>4
    <3>3. q.raw + 1 \in Nat /\ p + (q.raw + 1) <= RdramLimit
      BY <1>1, <2>1
    <3>. HIDE DEF key, C, at
    <3>4. /\ [q EXCEPT !.raw = q.raw + 1, !.key = key]
               \in [raw : Nat, key : Seq(Textual), controls : Seq(C), state : {"open", "whole", "binary"}]
          /\ [q EXCEPT !.raw = q.raw + 1, !.key = key].raw = q.raw + 1
          /\ [q EXCEPT !.raw = q.raw + 1, !.key = key].state = "open"
      BY <1>1, <2>1, <3>2, <3>3
    <3>. QED
      BY <3>1, <3>3, <3>4 DEF ReadStates, C
  <2>5. CASE /\ mem[at] # Nul /\ ~ (mem[at] = Code /\ q.raw + 1 < MaxText /\ at + 1 < RdramLimit)
             /\ mem[at] \notin Textual
    <3>1. ReadStep(mem, p, q) = [q EXCEPT !.state = "binary"]
      BY Zenon, <1>4, <2>5 DEF ReadStep
    <3>. HIDE DEF C
    <3>. QED
      BY <1>1, <3>1 DEF ReadStates, C
  <2>. QED
    BY Zenon, <2>2, <2>3, <2>4, <2>5
<1>. QED
  BY Zenon, <1>3, <1>4

LEMMA ReadTextIs ==
    ASSUME NEW V, NEW n \in Nat, RdramLimit <= n, NEW mem \in [0 .. n - 1 -> V],
           NEW p \in Nat, p < RdramLimit
    PROVE  ReadText(mem, p) \in ReadStates(V, mem, p)
<1> DEFINE Step(k, q) == ReadStep(mem, p, q)
           base == ReadBase
           Loop(f) == f = [k \in 0 .. MaxText |-> IF k = 0 THEN base ELSE Step(k, f[k - 1])]
           f == CHOOSE f : Loop(f)
           S == ReadStates(V, mem, p)
<1>1. ReadText(mem, p) = f[MaxText]
  BY Zenon DEF ReadText, ReadStep, ReadBase
<1>2. MaxText \in Nat /\ RdramLimit \in Nat
  BY CatalogueAssumption, ArenaAssumption
<1>3. ASSUME NEW k \in 1 .. MaxText, NEW s \in S PROVE Step(k, s) \in S
  BY ReadStepIs
<1>4. base \in S
  <2>1. <<>> \in Seq(Textual) /\ <<>> \in Seq([offset : Nat, arg : V])
    OBVIOUS
  <2>. QED
    BY <1>2, <2>1 DEF ReadBase, ReadStates
<1>. HIDE DEF S, base
<1>5. \E g : Loop(g)
  <2> DEFINE step == [u \in (1 .. MaxText) \X S |-> Step(u[1], u[2])]
  <2>1. step \in [(1 .. MaxText) \X S -> S]
    BY <1>3
  <2>2. PICK g \in [0 .. MaxText -> S] : Turns(g, MaxText, base, step)
    <3>. HIDE DEF step
    <3>. QED
      BY <1>2, <1>4, <2>1, LoopExists
  <2>3. \A k \in 0 .. MaxText : k # 0 => step[<<k, g[k - 1]>>] = Step(k, g[k - 1])
    BY <1>2
  <2>. HIDE DEF step, Step
  <2>4. Loop(g)
    BY <2>2, <2>3 DEF Turns
  <2>. QED
    BY <2>4
<1>6. Loop(f)
  BY <1>5
<1>. HIDE DEF f
<1>7. \A k \in 0 .. MaxText : f[k] \in S
  <2> DEFINE P == {k \in 0 .. MaxText : f[k] \in S}
  <2>1. 0 \in P
    <3>1. 0 \in 0 .. MaxText
      BY <1>2
    <3>2. f[0] = base
      BY Zenon, <1>6, <3>1
    <3>. QED
      BY <1>4, <3>1, <3>2
  <2>2. ASSUME NEW k \in 1 .. MaxText, k - 1 \in P PROVE k \in P
    <3>1. k \in 0 .. MaxText /\ k # 0
      OBVIOUS
    <3>2. f[k] = Step(k, f[k - 1])
      BY Zenon, <1>6, <3>1
    <3>3. f[k - 1] \in S
      BY <2>2
    <3>4. Step(k, f[k - 1]) \in S
      BY <1>3, <3>3
    <3>. QED
      BY <3>1, <3>2, <3>4
  <2>. HIDE DEF P, Step, Loop
  <2>3. \A k \in 0 .. MaxText : k \in P
    BY <1>2, <2>1, <2>2, Reaches
  <2>. QED
    BY <2>3 DEF P
<1>8. MaxText \in 0 .. MaxText
  BY <1>2
<1>. QED
  BY Zenon, <1>1, <1>7, <1>8 DEF S

(* The zeros that Slack counts are the first ones behind p.                *)
LEMMA SlackIs ==
    ASSUME NEW mem, NEW p \in Nat
    PROVE  /\ Slack(mem, p) \in Nat /\ Slack(mem, p) <= SlackMax
           /\ \A a \in p .. p + Slack(mem, p) - 1 : a < RdramLimit /\ mem[a] = Nul
<1> DEFINE hi == Min({p + SlackMax, RdramLimit})
           Z == {a \in p .. hi - 1 : \A b \in p .. a : mem[b] = Nul}
           T == {a \in p .. hi : a \notin Z} 
<1>1. SlackMax \in Nat /\ RdramLimit \in Nat
  BY ArenaAssumption
<1>2. hi \in Nat /\ hi <= p + SlackMax /\ hi <= RdramLimit
  <2> DEFINE B == {p + SlackMax, RdramLimit}
  <2>1. B \in SUBSET Nat /\ B # {} /\ p + SlackMax \in B /\ RdramLimit \in B
    BY <1>1
  <2>. HIDE DEF B
  <2>2. Min(B) \in B /\ \A j \in B : Min(B) <= j
    BY <2>1, MinIs
  <2>3. hi = Min(B)
    BY Zenon DEF B
  <2>. QED
    BY <1>1, <2>1, <2>2, <2>3
<1>3. Slack(mem, p) = Cardinality(Z)
  BY Zenon DEF Slack
<1>. HIDE DEF hi
<1>4. CASE hi <= p
  <2>1. Z = {}
    BY <1>2, <1>4
  <2>2. Slack(mem, p) = 0
    BY <1>3, <2>1, FS_EmptySet
  <2>. QED
    BY <1>1, <2>2
<1>5. CASE hi > p
  <2>1. T \in SUBSET Nat /\ T # {}
    BY <1>2, <1>5
  <2>2. PICK m \in T : \A j \in T : m <= j
    <3>. HIDE DEF T
    <3>. QED
      BY <2>1, LeastElement
  <2>3. Z = p .. m - 1
    <3>1. \A a \in p .. m - 1 : a \in Z
      BY <1>2, <1>5, <2>2
    <3>2. \A a \in Z : a < m
      <4>1. ASSUME NEW a \in Z, ~ (a < m) PROVE FALSE
        <5>1. m \in p .. a /\ m \in p .. hi - 1
          BY <1>2, <1>5, <2>2, <4>1
        <5>2. \A b \in p .. m : mem[b] = Nul
          BY <4>1, <5>1
        <5>. QED
          BY <2>2, <5>1, <5>2
      <4>. QED
        BY <4>1
    <3>. QED
      BY <1>2, <2>2, <3>1, <3>2
  <2>4. m \in p .. hi
    BY <2>2
  <2>. HIDE DEF Z, T
  <2>5. Cardinality(p .. m - 1) = m - p
    <3>1. Cardinality(p .. m - 1) = IF p > m - 1 THEN 0 ELSE m - 1 - p + 1
      BY <1>2, <2>4, FS_Interval
    <3>. QED
      BY <1>2, <2>4, <3>1
  <2>6. Slack(mem, p) = m - p
    BY <1>3, <2>3, <2>5
  <2>7. \A a \in p .. m - 1 : a < RdramLimit /\ mem[a] = Nul
    <3>1. \A a \in p .. m - 1 : a \in Z
      BY Zenon, <2>3
    <3>2. \A a \in p .. m - 1 : a < RdramLimit /\ a \in p .. a
      BY <1>1, <1>2, <2>4
    <3>3. \A a \in Z : \A b \in p .. a : mem[b] = Nul
      BY DEF Z
    <3>. QED
      BY Zenon, <3>1, <3>2, <3>3
  <2>. QED
    BY <1>1, <1>2, <2>4, <2>6, <2>7
<1>. QED
  BY <1>2, <1>4, <1>5

(* The worlds of Relocation over memories of n cells, and the arena: the   *)
(* ring below, above it the fixed slots, none of which shares a cell with  *)
(* another or reaches the end of those taken.                              *)
FixedBase == ArenaBase + RingSlots * RingBytes
Worlds(V, n, C) ==
    [mem : [0 .. n - 1 -> V], mode : Nat, slot : [DOMAIN Entries -> Nat],
     ring : 0 .. RingSlots - 1, top : FixedBase .. ArenaEnd, cache : C]
TextCells(w, e) == w.slot[e] .. w.slot[e] + Len(Entries[e].translated)
SlotsApart(w) ==
    /\ \A e \in DOMAIN Entries :
           w.slot[e] # 0 => w.slot[e] >= FixedBase /\ w.slot[e] + Len(Entries[e].translated) < w.top
    /\ \A e, f \in DOMAIN Entries :
           e # f /\ w.slot[e] # 0 /\ w.slot[f] # 0 => TextCells(w, e) \cap TextCells(w, f) = {}

\* Where a string of `size` characters may be put: in cells not taken yet, in the
\* slot of its entry, or in one slot of the ring.
Taken(w, e, at, size) ==
    \/ at >= w.top /\ at + size < ArenaEnd
    \/ w.slot[e] # 0 /\ at = w.slot[e] /\ size = Len(Entries[e].translated)
    \/ at >= ArenaBase /\ at + size < FixedBase

LEMMA RemainderIs == \A x \in Nat, y \in Nat \ {0} : x % y \in 0 .. y - 1
OBVIOUS

LEMMA ArenaIs ==
    /\ RdramLimit \in Nat /\ ArenaBase = RdramLimit /\ RingBytes \in Nat /\ RingSlots \in Nat \ {0}
    /\ FixedBase \in Nat /\ ArenaEnd \in Nat /\ ArenaBase <= FixedBase /\ FixedBase <= ArenaEnd
    /\ \A r \in 0 .. RingSlots - 1 : /\ ArenaBase + r * RingBytes \in Nat
                                     /\ ArenaBase <= ArenaBase + r * RingBytes
                                     /\ ArenaBase + r * RingBytes + RingBytes <= FixedBase
<1>1. {RdramLimit, RingBytes, ArenaBytes} \subseteq Nat /\ RingSlots \in Nat \ {0}
      /\ RingSlots * RingBytes <= ArenaBytes
  BY ArenaAssumption
<1>2. \A a, b \in Nat : a * b \in Nat
  BY SMT
<1>3. \A a, b, c \in Nat : a + 1 <= b => a * c + c <= b * c
  <2>1. ASSUME NEW a \in Nat, NEW b \in Nat, NEW c \in Nat, a + 1 <= b PROVE a * c + c <= b * c
    <3>1. PICK d \in Nat : b = a + 1 + d
      <4>1. b - (a + 1) \in Nat /\ b = a + 1 + (b - (a + 1))
        BY <2>1
      <4>. QED
        BY <4>1
    <3>2. b * c = a * c + c + d * c
      BY ONLY <3>1, a \in Nat, c \in Nat
    <3>3. d * c \in Nat /\ a * c \in Nat
      BY <1>2
    <3>. QED
      BY ONLY <3>2, <3>3, c \in Nat
  <2>. QED
    BY <2>1
<1>4. RingSlots * RingBytes \in Nat
  BY <1>1, <1>2
<1>5. ASSUME NEW r \in 0 .. RingSlots - 1
      PROVE  r * RingBytes \in Nat /\ r * RingBytes + RingBytes <= RingSlots * RingBytes
  <2>1. r \in Nat /\ r + 1 <= RingSlots /\ RingSlots \in Nat /\ RingBytes \in Nat
    BY <1>1
  <2>. QED
    BY <1>2, <1>3, <2>1
<1> DEFINE whole == RingSlots * RingBytes
<1>6. FixedBase = RdramLimit + whole /\ ArenaEnd = RdramLimit + ArenaBytes /\ ArenaBase = RdramLimit
  BY DEF FixedBase, ArenaEnd, ArenaBase
<1>7. whole \in Nat /\ whole <= ArenaBytes
  BY <1>1, <1>4
<1>8. \A r \in 0 .. RingSlots - 1 : r * RingBytes \in Nat /\ r * RingBytes + RingBytes <= whole
  BY <1>5
<1>. HIDE DEF whole
<1>9. FixedBase \in Nat /\ ArenaEnd \in Nat /\ ArenaBase <= FixedBase /\ FixedBase <= ArenaEnd
  BY ONLY <1>1, <1>6, <1>7
<1>10. ASSUME NEW r \in 0 .. RingSlots - 1
       PROVE  /\ ArenaBase + r * RingBytes \in Nat
              /\ ArenaBase <= ArenaBase + r * RingBytes
              /\ ArenaBase + r * RingBytes + RingBytes <= FixedBase
  <2> DEFINE x == r * RingBytes
  <2>1. x \in Nat /\ x + RingBytes <= whole
    BY <1>8
  <2>. HIDE DEF x
  <2>2. ArenaBase + x \in Nat /\ ArenaBase <= ArenaBase + x /\ ArenaBase + x + RingBytes <= FixedBase
    BY ONLY <1>1, <1>6, <1>7, <2>1
  <2>. QED
    BY <2>2 DEF x
<1>. QED
  BY <1>1, <1>6, <1>9, <1>10

(* Where the theorem about substitutions begins: a process that has        *)
(* substituted nothing.                                                    *)
LEMMA FreshIsApart ==
    ASSUME NEW V, NEW n \in Nat, NEW C, <<>> \in C, NEW mem \in [0 .. n - 1 -> V], NEW realocar \in Nat
    PROVE  Freshly(mem, realocar) \in Worlds(V, n, C) /\ SlotsApart(Freshly(mem, realocar))
<1> DEFINE w == Freshly(mem, realocar)
<1>1. FixedBase \in FixedBase .. ArenaEnd /\ 0 \in 0 .. RingSlots - 1
  BY ArenaIs
<1>2. w = [mem |-> mem, mode |-> realocar, slot |-> [e \in DOMAIN Entries |-> 0], ring |-> 0,
           top |-> FixedBase, cache |-> <<>>]
  BY Zenon DEF Freshly, FixedBase
<1>3. w.slot = [e \in DOMAIN Entries |-> 0] /\ w \in Worlds(V, n, C)
  BY <1>1, <1>2 DEF Worlds
<1>. HIDE DEF w
<1>4. \A e \in DOMAIN Entries : w.slot[e] = 0
  BY <1>3
<1>5. SlotsApart(w)
  BY Zenon, <1>4 DEF SlotsApart
<1>. QED
  BY <1>3, <1>5 DEF w

LEMMA WriteIs ==
    ASSUME NEW V, Nul \in V, NEW n \in Nat, NEW mem \in [0 .. n - 1 -> V], NEW p \in Nat,
           NEW cells \in Seq(V), NEW zeros \in Nat, p + zeros < n, Len(cells) <= zeros + 1
    PROVE  /\ Write(mem, p, cells, zeros) \in [0 .. n - 1 -> V]
           /\ \A a \in 0 .. n - 1 : Write(mem, p, cells, zeros)[a] =
                 IF a \in p .. p + zeros
                 THEN IF a < p + Len(cells) THEN cells[a - p + 1] ELSE Nul ELSE mem[a]
<1> DEFINE f(a) == IF a \notin p .. p + zeros THEN mem[a]
                   ELSE IF a < p + Len(cells) THEN cells[a - p + 1] ELSE Nul
<1>1. Len(cells) \in Nat /\ \A i \in 1 .. Len(cells) : cells[i] \in V
  OBVIOUS
<1>2. \A a \in 0 .. n - 1 : f(a) \in V
  <2>1. ASSUME NEW a \in 0 .. n - 1 PROVE f(a) \in V
    <3>1. a \in p .. p + zeros /\ a < p + Len(cells) => a - p + 1 \in 1 .. Len(cells)
      BY <1>1
    <3>. QED
      BY <1>1, <3>1
  <2>. QED
    BY <2>1
<1>3. DOMAIN mem = 0 .. n - 1 /\ DOMAIN mem \cup (p .. p + zeros) = 0 .. n - 1
  OBVIOUS
<1>4. Write(mem, p, cells, zeros) = [a \in DOMAIN mem \cup (p .. p + zeros) |-> f(a)]
  BY Zenon DEF Write
<1>5. Write(mem, p, cells, zeros) = [a \in 0 .. n - 1 |-> f(a)]
  BY Zenon, <1>3, <1>4
<1>6. \A a \in 0 .. n - 1 : Write(mem, p, cells, zeros)[a] = f(a)
  BY Zenon, <1>5
<1>7. Write(mem, p, cells, zeros) \in [0 .. n - 1 -> V]
  BY Zenon, <1>2, <1>5
<1>. QED
  BY <1>6, <1>7

LEMMA FixedSlotIs ==
    ASSUME NEW V, NEW n \in Nat, NEW C, NEW w \in Worlds(V, n, C), NEW size \in Nat
    PROVE  \/ FixedSlot(w, size + 1) = [at |-> 0, world |-> w]
           \/ \E top \in FixedBase .. ArenaEnd :
                 /\ w.top + size < top
                 /\ FixedSlot(w, size + 1) = [at |-> w.top, world |-> [w EXCEPT !.top = top]]
<1> DEFINE top == w.top + 4 * ((size + 1 + 4) \div 4)
<1>1. w.top \in FixedBase .. ArenaEnd
  BY DEF Worlds
<1>2. w.top \in Nat /\ FixedBase \in Nat /\ ArenaEnd \in Nat
  BY <1>1, ArenaIs
<1>3. top \in Nat /\ w.top + size < top
  BY ONLY <1>2, size \in Nat
<1>4. FixedSlot(w, size + 1) = IF top > ArenaEnd THEN [at |-> 0, world |-> w]
                               ELSE [at |-> w.top, world |-> [w EXCEPT !.top = top]]
  BY Zenon DEF FixedSlot
<1>. HIDE DEF top
<1>5. CASE top > ArenaEnd
  BY Zenon, <1>4, <1>5
<1>6. CASE ~ (top > ArenaEnd)
  <2>1. top \in FixedBase .. ArenaEnd
    BY <1>1, <1>2, <1>3, <1>6
  <2>. QED
    BY Zenon, <1>3, <1>4, <1>6, <2>1
<1>. QED
  BY Zenon, <1>5, <1>6

LEMMA SlotForIs ==
    ASSUME NEW V, NEW n \in Nat, NEW C, NEW w \in Worlds(V, n, C), SlotsApart(w), ArenaBase > 0,
           NEW e \in DOMAIN Entries, NEW controls, NEW size \in Nat,
           controls = <<>> => size = Len(Entries[e].translated)
    PROVE  LET s == SlotFor(w, e, controls, size) IN
           /\ s.world \in Worlds(V, n, C) /\ s.world.mem = w.mem /\ SlotsApart(s.world)
           /\ s.at \in Nat /\ (s.at # 0 => Taken(w, e, s.at, size))
<1> DEFINE s == SlotFor(w, e, controls, size)
           L(f) == Len(Entries[f].translated)
<1>1. /\ w.mem \in [0 .. n - 1 -> V] /\ w.mode \in Nat /\ w.slot \in [DOMAIN Entries -> Nat]
      /\ w.ring \in 0 .. RingSlots - 1 /\ w.top \in FixedBase .. ArenaEnd /\ w.cache \in C
      /\ w = [mem |-> w.mem, mode |-> w.mode, slot |-> w.slot, ring |-> w.ring, top |-> w.top,
              cache |-> w.cache]
  BY DEF Worlds
<1>2. \A f \in DOMAIN Entries : L(f) \in Nat /\ w.slot[f] \in Nat
  <2>1. \A f \in DOMAIN Entries : L(f) \in Nat
    BY ShownIs
  <2>. QED
    BY <1>1, <2>1
<1>3. CASE controls = <<>> /\ w.slot[e] # 0
  <2>1. s = [at |-> w.slot[e], world |-> w]
    BY Zenon, <1>3 DEF SlotFor
  <2>2. s.at = w.slot[e] /\ s.world = w
    BY <2>1
  <2>. HIDE DEF s
  <2>3. Taken(w, e, s.at, size)
    BY Zenon, <1>3, <2>2 DEF Taken
  <2>. QED
    BY <1>2, <2>2, <2>3 DEF s
<1>4. CASE controls = <<>> /\ w.slot[e] = 0
  <2> DEFINE f == FixedSlot(w, size + 1)
  <2>1. s = [f EXCEPT !.world.slot[e] = f.at]
    BY Zenon, <1>4 DEF SlotFor
  <2>2. CASE f = [at |-> 0, world |-> w]
    <3>1. s = [at |-> 0, world |-> [w EXCEPT !.slot[e] = 0]]
      BY ONLY <2>1, <2>2
    <3>2. [w EXCEPT !.slot[e] = 0] = w
      <4>1. [w.slot EXCEPT ![e] = 0] = w.slot
        BY <1>1, <1>4
      <4>2. [w EXCEPT !.slot[e] = 0] = [w EXCEPT !.slot = [w.slot EXCEPT ![e] = 0]]
        BY Zenon
      <4>3. [w EXCEPT !.slot = w.slot] = w
        BY <1>1
      <4>. QED
        BY Zenon, <4>1, <4>2, <4>3
    <3>3. s.at = 0 /\ s.world = w
      BY ONLY <3>1, <3>2
    <3>. HIDE DEF s
    <3>. QED
      BY <3>3 DEF s
  <2>3. ASSUME NEW top \in FixedBase .. ArenaEnd, w.top + size < top,
               f = [at |-> w.top, world |-> [w EXCEPT !.top = top]]
        PROVE  /\ s.world \in Worlds(V, n, C) /\ s.world.mem = w.mem /\ SlotsApart(s.world)
               /\ s.at \in Nat /\ (s.at # 0 => Taken(w, e, s.at, size))
    <3> DEFINE slot == [w.slot EXCEPT ![e] = w.top]
    <3>1. s = [at |-> w.top, world |-> [mem |-> w.mem, mode |-> w.mode, slot |-> slot,
                                       ring |-> w.ring, top |-> top, cache |-> w.cache]]
      <4>1. f = [at |-> w.top, world |-> [mem |-> w.mem, mode |-> w.mode, slot |-> w.slot,
                                         ring |-> w.ring, top |-> top, cache |-> w.cache]]
        BY <1>1, <2>3
      <4>. HIDE DEF f
      <4>. QED
        BY ONLY <2>1, <4>1
    <3>2. /\ s.at = w.top /\ s.world.mem = w.mem /\ s.world.slot = slot /\ s.world.top = top
          /\ s.world = [mem |-> w.mem, mode |-> w.mode, slot |-> slot, ring |-> w.ring, top |-> top,
                        cache |-> w.cache]
      BY ONLY <3>1
    <3>3. w.top \in Nat /\ top \in Nat /\ FixedBase \in Nat /\ ArenaEnd \in Nat
      BY <1>1, ArenaIs
    <3>4. slot \in [DOMAIN Entries -> Nat]
      BY <1>1, <3>3
    <3>5. s.world \in Worlds(V, n, C)
      <4>. HIDE DEF slot
      <4>. QED
        BY <1>1, <3>2, <3>4 DEF Worlds
    <3>6. \A g \in DOMAIN Entries : slot[g] = IF g = e THEN w.top ELSE w.slot[g]
      BY <1>1
    <3>. HIDE DEF s, slot, f
    <3>7. \A g \in DOMAIN Entries :
              slot[g] # 0 => slot[g] >= FixedBase /\ slot[g] + L(g) < top
      <4>1. ASSUME NEW g \in DOMAIN Entries, slot[g] # 0
            PROVE  slot[g] >= FixedBase /\ slot[g] + L(g) < top
        <5>1. CASE g = e
          <6>1. slot[g] = w.top /\ L(g) = size
            BY <1>4, <3>6, <5>1
          <6>. QED
            BY <1>1, <2>3, <3>3, <6>1
        <5>2. CASE g # e
          <6>1. slot[g] = w.slot[g] /\ w.slot[g] # 0
            BY <3>6, <4>1, <5>2
          <6>2. w.slot[g] >= FixedBase /\ w.slot[g] + L(g) < w.top
            BY Zenon, <6>1 DEF SlotsApart
          <6>3. L(g) \in Nat /\ w.slot[g] \in Nat
            BY <1>2
          <6>. QED
            BY <2>3, <3>3, <6>1, <6>2, <6>3
        <5>. QED
          BY <5>1, <5>2
      <4>. QED
        BY <4>1
    <3>8. ASSUME NEW g \in DOMAIN Entries, NEW h \in DOMAIN Entries, g # h, slot[g] # 0, slot[h] # 0
          PROVE  (slot[g] .. slot[g] + L(g)) \cap (slot[h] .. slot[h] + L(h)) = {}
      <4>1. ASSUME NEW k \in DOMAIN Entries, k # e, slot[k] # 0
            PROVE  slot[k] = w.slot[k] /\ slot[k] + L(k) < w.top /\ w.slot[k] # 0 /\ slot[k] \in Nat /\ L(k) \in Nat
        <5>1. slot[k] = w.slot[k]
          BY <3>6, <4>1
        <5>2. w.slot[k] + L(k) < w.top
          BY Zenon, <4>1, <5>1 DEF SlotsApart
        <5>. QED
          BY <1>2, <4>1, <5>1, <5>2
      <4>2. slot[e] = w.top
        BY <3>6
      <4>3. CASE g = e
        BY <3>3, <3>8, <4>1, <4>2, <4>3
      <4>4. CASE h = e
        BY <3>3, <3>8, <4>1, <4>2, <4>4
      <4>5. CASE g # e /\ h # e
        <5>1. slot[g] = w.slot[g] /\ slot[h] = w.slot[h] /\ w.slot[g] # 0 /\ w.slot[h] # 0
          BY Zenon, <3>8, <4>1, <4>5
        <5>. QED
          BY Zenon, <3>8, <5>1 DEF SlotsApart, TextCells
      <4>. QED
        BY <4>3, <4>4, <4>5
    <3>9. SlotsApart(s.world)
      BY Zenon, <3>2, <3>7, <3>8 DEF SlotsApart, TextCells
    <3>10. Taken(w, e, s.at, size)
      BY <1>1, <2>3, <3>2, <3>3 DEF Taken
    <3>. QED
      BY <3>2, <3>3, <3>5, <3>9, <3>10
  <2>. QED
    BY Zenon, <2>2, <2>3, FixedSlotIs DEF s
<1>5. CASE controls # <<>> /\ size + 1 <= RingBytes
  <2> DEFINE ring == (w.ring + 1) % RingSlots
             at == ArenaBase + w.ring * RingBytes
  <2>1. s = [at |-> at, world |-> [w EXCEPT !.ring = ring]]
    BY Zenon, <1>5 DEF SlotFor, RingSlot
  <2>2. ring \in 0 .. RingSlots - 1
    <3>1. w.ring + 1 \in Nat /\ RingSlots \in Nat \ {0}
      BY <1>1, ArenaIs
    <3>. QED
      BY Zenon, <3>1, RemainderIs
  <2>3. at \in Nat /\ ArenaBase <= at /\ at + RingBytes <= FixedBase
    BY Zenon, <1>1, ArenaIs
  <2>. HIDE DEF ring, at
  <2>4. s.at = at /\ s.world = [mem |-> w.mem, mode |-> w.mode, slot |-> w.slot, ring |-> ring,
                               top |-> w.top, cache |-> w.cache]
    BY <1>1, <2>1
  <2>5. s.world \in Worlds(V, n, C) /\ s.world.mem = w.mem /\ s.world.slot = w.slot /\ s.world.top = w.top
    <3>. HIDE DEF s
    <3>. QED
      BY <1>1, <2>2, <2>4 DEF Worlds
  <2>. HIDE DEF s
  <2>6. SlotsApart(s.world)
    BY Zenon, <2>5 DEF SlotsApart, TextCells
  <2>7. Taken(w, e, s.at, size)
    BY <1>5, <2>3, <2>4, ArenaIs DEF Taken
  <2>. QED
    BY <2>3, <2>4, <2>5, <2>6, <2>7 DEF s
<1>6. CASE controls # <<>> /\ ~ (size + 1 <= RingBytes)
  <2>1. s = [at |-> 0, world |-> w]
    BY Zenon, <1>6 DEF SlotFor
  <2>2. s.at = 0 /\ s.world = w
    BY <2>1
  <2>. HIDE DEF s
  <2>. QED
    BY <2>2 DEF s
<1>. QED
  BY Zenon, <1>3, <1>4, <1>5, <1>6

\* The cells a substitution of the string at p may write: the string's own and the
\* zeros behind it, or the capacity its caller knows; and, in the arena, what is not
\* taken, the ring, and the slot of the entry whose pointer it returns.
OwnCell(mem, p, explicit, a) ==
    LET behind == p + ReadText(mem, p).raw
    IN  \/ a \in p .. behind - 1
        \/ explicit # 0 /\ a \in p .. p + explicit - 1
        \/ a \in behind .. RdramLimit - 1 /\ \A b \in behind .. a : mem[b] = Nul
ArenaCell(w, to, a) ==
    \/ a \in w.top .. ArenaEnd - 1
    \/ a \in ArenaBase .. FixedBase - 1
    \/ \E e \in DOMAIN Entries : w.slot[e] # 0 /\ to = w.slot[e] /\ a \in TextCells(w, e)
Inside(V, n, C, w, p, explicit, s) ==
    /\ s.world \in Worlds(V, n, C) /\ SlotsApart(s.world)
    /\ s.to = 0 \/ s.to \in ArenaBase .. ArenaEnd - 1
    /\ \A a \in 0 .. n - 1 : s.world.mem[a] # w.mem[a] =>
           OwnCell(w.mem, p, explicit, a) \/ (s.to # 0 /\ ArenaCell(w, s.to, a))

LEMMA RefusedIsInside ==
    ASSUME NEW V, NEW n \in Nat, NEW C, NEW w \in Worlds(V, n, C), SlotsApart(w), NEW p, NEW explicit
    PROVE  Inside(V, n, C, w, p, explicit, Refused(w))
BY DEF Inside, Refused

LEMMA MovedIsInside ==
    ASSUME NEW V, Nul \in V, NEW n \in Nat, ArenaEnd <= n, NEW C, NEW w \in Worlds(V, n, C),
           SlotsApart(w), ArenaBase > 0, NEW p, NEW explicit, NEW e \in DOMAIN Entries,
           NEW controls, NEW cells \in Seq(V), controls = <<>> => Len(cells) = Len(Entries[e].translated)
    PROVE  Inside(V, n, C, w, p, explicit, Moved(SlotFor(w, e, controls, Len(cells)), w, cells))
<1> DEFINE s == SlotFor(w, e, controls, Len(cells))
           at == s.at
           size == Len(cells)
           world == [s.world EXCEPT !.mem = Write(w.mem, at, cells, size)]
<1>1. /\ s.world \in Worlds(V, n, C) /\ s.world.mem = w.mem /\ SlotsApart(s.world)
      /\ at \in Nat /\ (at # 0 => Taken(w, e, at, size))
  <2>1. Len(cells) \in Nat
    OBVIOUS
  <2>. QED
    BY <2>1, SlotForIs
<1>. HIDE DEF s, at
<1>2. CASE at = 0
  <2>1. Moved(s, w, cells) = Refused(w)
    BY Zenon, <1>2 DEF Moved, at
  <2>. QED
    BY <2>1, RefusedIsInside DEF s
<1>3. CASE at # 0
  <2>1. Moved(s, w, cells) = [world |-> [s.world EXCEPT !.mem = Write(s.world.mem, at, cells, size)],
                              done |-> TRUE, to |-> at]
    BY Zenon, <1>3 DEF Moved, at
  <2>2. Moved(s, w, cells).world = world /\ Moved(s, w, cells).to = at
    BY <1>1, <2>1
  <2>3. size \in Nat /\ w.top \in Nat /\ w.top \in FixedBase .. ArenaEnd /\ w.mem \in [0 .. n - 1 -> V]
        /\ ArenaEnd \in Nat /\ FixedBase \in Nat /\ ArenaBase \in Nat /\ ArenaBase <= FixedBase /\ FixedBase <= ArenaEnd
    BY ArenaIs DEF Worlds
  <2>4. at >= ArenaBase /\ at + size < ArenaEnd
    <3>1. CASE at >= w.top /\ at + size < ArenaEnd
      BY <1>1, <2>3, <3>1
    <3>2. CASE w.slot[e] # 0 /\ at = w.slot[e] /\ size = Len(Entries[e].translated)
      <4>1. w.slot[e] >= FixedBase /\ w.slot[e] + Len(Entries[e].translated) < w.top
        BY Zenon, <3>2 DEF SlotsApart
      <4>2. at >= FixedBase /\ at + size < w.top
        BY Zenon, <3>2, <4>1
      <4>. QED
        BY <1>1, <2>3, <4>2
    <3>3. CASE at >= ArenaBase /\ at + size < FixedBase
      BY <1>1, <2>3, <3>3
    <3>. QED
      BY Zenon, <1>1, <1>3, <3>1, <3>2, <3>3 DEF Taken
  <2>5. at + size < n
    BY <1>1, <2>3, <2>4
  <2>6. /\ Write(w.mem, at, cells, size) \in [0 .. n - 1 -> V]
        /\ \A a \in 0 .. n - 1 : a \notin at .. at + size => Write(w.mem, at, cells, size)[a] = w.mem[a]
    <3>1. Len(cells) <= size + 1
      BY <2>3
    <3>2. /\ Write(w.mem, at, cells, size) \in [0 .. n - 1 -> V]
          /\ \A a \in 0 .. n - 1 : Write(w.mem, at, cells, size)[a] =
                 IF a \in at .. at + size
                 THEN IF a < at + Len(cells) THEN cells[a - at + 1] ELSE Nul ELSE w.mem[a]
      <4>. HIDE DEF size
      <4>. QED
        BY <1>1, <2>3, <2>5, <3>1, WriteIs
    <3>. QED
      BY Zenon, <3>2
  <2>7. world \in Worlds(V, n, C) /\ world.mem = Write(w.mem, at, cells, size)
        /\ world.slot = s.world.slot /\ world.top = s.world.top
    <3> DEFINE m == Write(w.mem, at, cells, size)
    <3>1. m \in [0 .. n - 1 -> V]
      BY <2>6
    <3>. HIDE DEF m
    <3>2. [s.world EXCEPT !.mem = m] \in Worlds(V, n, C) /\ [s.world EXCEPT !.mem = m].mem = m
          /\ [s.world EXCEPT !.mem = m].slot = s.world.slot /\ [s.world EXCEPT !.mem = m].top = s.world.top
      BY <1>1, <3>1 DEF Worlds
    <3>. QED
      BY <3>2 DEF m
  <2>8. SlotsApart(world)
    BY Zenon, <1>1, <2>7 DEF SlotsApart, TextCells
  <2>9. ASSUME NEW a \in at .. at + size PROVE ArenaCell(w, at, a)
    <3>1. CASE at >= w.top /\ at + size < ArenaEnd
      <4>1. a \in w.top .. ArenaEnd - 1
        BY <1>1, <2>3, <3>1
      <4>. QED
        BY Zenon, <4>1 DEF ArenaCell
    <3>2. CASE w.slot[e] # 0 /\ at = w.slot[e] /\ size = Len(Entries[e].translated)
      BY Zenon, <2>9, <3>2 DEF ArenaCell, TextCells
    <3>3. CASE at >= ArenaBase /\ at + size < FixedBase
      <4>1. a \in ArenaBase .. FixedBase - 1
        BY <1>1, <2>3, <3>3
      <4>. QED
        BY Zenon, <4>1 DEF ArenaCell
    <3>. QED
      BY Zenon, <1>1, <1>3, <3>1, <3>2, <3>3 DEF Taken
  <2>10. at \in ArenaBase .. ArenaEnd - 1
    BY <1>1, <2>3, <2>4
  <2>. HIDE DEF world, size
  <2>11. \A a \in 0 .. n - 1 : world.mem[a] # w.mem[a] => ArenaCell(w, at, a)
    BY Zenon, <2>6, <2>7, <2>9
  <2>12. Inside(V, n, C, w, p, explicit, Moved(s, w, cells))
    BY Zenon, <1>3, <2>2, <2>7, <2>8, <2>10, <2>11 DEF Inside
  <2>. QED
    BY <2>12 DEF s, size
<1>. QED
  BY <1>2, <1>3

(* In its place the string takes no more than its cells and the zeros      *)
(* behind them, or than its caller knows to be there.                      *)
LEMMA StaysInPlace ==
    ASSUME NEW V, Nul \in V, NEW n \in Nat, ArenaEnd <= n, NEW C, NEW w \in Worlds(V, n, C),
           SlotsApart(w), NEW p \in Nat, p < RdramLimit, NEW explicit \in Nat,
           explicit # 0 => p + explicit <= RdramLimit,
           NEW cells \in Seq(V), NEW q, q.p = p, q.explicit = explicit,
           NEW r, r = ReadText(w.mem, p), r.state = "whole", Len(cells) <= RoomAt(w.mem, q, r.raw)
    PROVE  Inside(V, n, C, w, p, explicit,
                  [world |-> [w EXCEPT !.mem = Write(@, q.p, cells, Max({Len(cells), r.raw}))],
                   done |-> TRUE, to |-> 0])
<1> DEFINE size == Len(cells)
           behind == p + r.raw
           slack == Slack(w.mem, behind)
           zeros == Max({size, r.raw})
           m == Write(w.mem, p, cells, zeros)
<1>1. /\ w.mem \in [0 .. n - 1 -> V] /\ size \in Nat /\ RdramLimit \in Nat /\ RdramLimit <= ArenaEnd
      /\ ArenaEnd \in Nat /\ RdramLimit <= n
  BY ArenaIs DEF Worlds
<1>2. r.raw \in Nat /\ behind < RdramLimit /\ w.mem[behind] = Nul
  <2>1. r \in ReadStates(V, w.mem, p)
    BY <1>1, ReadTextIs
  <2>. QED
    BY <2>1 DEF ReadStates
<1>3. slack \in Nat /\ \A a \in behind .. behind + slack - 1 : a < RdramLimit /\ w.mem[a] = Nul
  BY <1>2, SlackIs
<1>4. zeros \in Nat /\ size <= zeros /\ r.raw <= zeros /\ (zeros = size \/ zeros = r.raw)
  BY <1>1, <1>2, MaxOfTwo
<1>5. explicit # 0 => size <= explicit - 1
  BY Zenon DEF RoomAt
<1>6. explicit = 0 => size <= r.raw \/ size <= r.raw + slack - 1
  <2>1. ASSUME explicit = 0 PROVE size <= r.raw \/ size <= r.raw + slack - 1
    <3>1. RoomAt(w.mem, q, r.raw) = r.raw + Max({slack, 1}) - 1
      BY Zenon, <2>1 DEF RoomAt
    <3>2. Max({slack, 1}) = IF slack >= 1 THEN slack ELSE 1
      BY <1>3, MaxOfTwo
    <3>. HIDE DEF slack, size
    <3>3. size <= r.raw + Max({slack, 1}) - 1
      BY Zenon, <3>1 DEF size
    <3>. QED
      BY <1>1, <1>2, <1>3, <3>2, <3>3
  <2>. QED
    BY <2>1
<1>. HIDE DEF size, slack, zeros
(* Every cell written is the string's, its terminator, or one of its room. *)
<1>7. ASSUME NEW a \in p .. p + zeros PROVE a < RdramLimit /\ OwnCell(w.mem, p, explicit, a)
  <2>1. CASE a < behind
    <3>1. a \in p .. behind - 1
      BY <1>2, <2>1
    <3>. QED
      BY <1>1, <1>2, <2>1, <3>1 DEF OwnCell
  <2>2. CASE a = behind
    <3>1. a \in behind .. RdramLimit - 1 /\ \A b \in behind .. a : w.mem[b] = Nul
      BY <1>1, <1>2, <2>2
    <3>. QED
      BY <1>1, <1>2, <3>1 DEF OwnCell
  <2>3. CASE a > behind
    <3>1. zeros = size /\ a <= p + size /\ r.raw < size
      BY <1>1, <1>2, <1>4, <2>3
    <3>2. CASE explicit # 0
      <4>1. a \in p .. p + explicit - 1 /\ a < RdramLimit
        BY <1>1, <1>2, <1>5, <3>1, <3>2
      <4>. QED
        BY <3>2, <4>1 DEF OwnCell
    <3>3. CASE explicit = 0
      <4>1. a \in behind .. behind + slack - 1
        BY <1>1, <1>2, <1>3, <1>6, <2>3, <3>1, <3>3
      <4>2. a < RdramLimit /\ \A b \in behind .. a : w.mem[b] = Nul
        <5>1. \A b \in behind .. a : b \in behind .. behind + slack - 1
          BY <1>2, <1>3, <4>1
        <5>. QED
          BY Zenon, <1>3, <4>1, <5>1
      <4>3. a \in behind .. RdramLimit - 1
        BY <1>1, <1>2, <4>1, <4>2
      <4>. QED
        BY <4>2, <4>3 DEF OwnCell
    <3>. QED
      BY <3>2, <3>3
  <2>. QED
    BY <1>2, <2>1, <2>2, <2>3
<1>8. p + zeros < n
  <2>1. p + zeros \in p .. p + zeros
    BY <1>4
  <2>2. p + zeros < RdramLimit
    BY <1>7, <2>1
  <2>. QED
    BY <1>1, <1>4, <2>2
<1>9. /\ m \in [0 .. n - 1 -> V]
      /\ \A a \in 0 .. n - 1 : a \notin p .. p + zeros => m[a] = w.mem[a]
  <2>1. Len(cells) <= zeros + 1
    BY <1>1, <1>4 DEF size
  <2>2. /\ m \in [0 .. n - 1 -> V]
        /\ \A a \in 0 .. n - 1 : m[a] =
               IF a \in p .. p + zeros
               THEN IF a < p + Len(cells) THEN cells[a - p + 1] ELSE Nul ELSE w.mem[a]
    <3>1. w.mem \in [0 .. n - 1 -> V] /\ zeros \in Nat /\ p + zeros < n
      BY Zenon, <1>1, <1>4, <1>8
    <3>. HIDE DEF m
    <3>2. m = Write(w.mem, p, cells, zeros)
      BY DEF m
    <3>3. /\ Write(w.mem, p, cells, zeros) \in [0 .. n - 1 -> V]
          /\ \A a \in 0 .. n - 1 : Write(w.mem, p, cells, zeros)[a] =
                IF a \in p .. p + zeros
                THEN IF a < p + Len(cells) THEN cells[a - p + 1] ELSE Nul ELSE w.mem[a]
      BY <2>1, <3>1, WriteIs
    <3>. QED
      BY Zenon, <3>2, <3>3
  <2>. QED
    BY Zenon, <2>2
<1>. HIDE DEF m
<1> DEFINE world == [w EXCEPT !.mem = m]
<1>10. world \in Worlds(V, n, C) /\ world.mem = m /\ world.slot = w.slot /\ world.top = w.top
  BY <1>9 DEF Worlds
<1>11. [w EXCEPT !.mem = Write(@, q.p, cells, Max({Len(cells), r.raw}))] = world
  <2>1. Write(w.mem, q.p, cells, Max({Len(cells), r.raw})) = m
    BY Zenon DEF m, zeros, size
  <2>. QED
    BY Zenon, <2>1
<1>. HIDE DEF world
<1>12. SlotsApart(world)
  BY Zenon, <1>10 DEF SlotsApart, TextCells
<1> DEFINE s == [world |-> world, done |-> TRUE, to |-> 0]
<1>13. s.world = world /\ s.to = 0
  OBVIOUS
<1>. HIDE DEF s
<1>14. \A a \in 0 .. n - 1 : world.mem[a] # w.mem[a] => OwnCell(w.mem, p, explicit, a)
  BY Zenon, <1>7, <1>9, <1>10
<1>15. Inside(V, n, C, w, p, explicit, s)
  BY Zenon, <1>10, <1>12, <1>13, <1>14 DEF Inside
<1>. QED
  BY Zenon, <1>11, <1>15 DEF s

LEMMA ReplacementIs ==
    ASSUME NEW V, Cells \cup {Nul} \subseteq V, NEW mem, NEW p, NEW r \in ReadStates(V, mem, p),
           NEW e \in DOMAIN Entries, NEW key, NEW before
    PROVE  /\ Replacement(r, Len(key), Shown(e, key, before)) \in Seq(V)
           /\ r.controls = <<>> => Len(Replacement(r, Len(key), Shown(e, key, before)))
                                      = Len(Entries[e].translated)
<1> DEFINE shown == Shown(e, key, before)
           cut == IF Len(r.key) = Len(key) THEN r.key ELSE [r.key EXCEPT ![Len(key) + 1] = Nul]
           at == [i \in DOMAIN r.controls |-> Mapped(cut, Len(key), shown, r.controls[i].offset)]
           cells == Replacement(r, Len(key), Shown(e, key, before))
<1>1. shown \in Seq(Characters) /\ Len(shown) = Len(Entries[e].translated)
  BY ShownIs
<1>2. r.controls \in Seq([offset : Nat, arg : V]) /\ Code \in V /\ Characters \subseteq V
  BY Alphabet DEF ReadStates
<1>3. shown \in Seq(V)
  <2>. HIDE DEF shown
  <2>. QED
    BY <1>1, <1>2
<1>4. cells = Assemble(shown, r.controls, at)
  BY Zenon DEF Replacement
<1>. HIDE DEF shown, at, cells
<1>5. /\ Assemble(shown, r.controls, at) \in Seq(V)
      /\ r.controls = <<>> => Len(Assemble(shown, r.controls, at)) = Len(shown)
  BY <1>2, <1>3, AssembleIs
<1>6. cells \in Seq(V) /\ (r.controls = <<>> => Len(cells) = Len(Entries[e].translated))
  BY Zenon, <1>1, <1>4, <1>5
<1>. QED
  BY Zenon, <1>6 DEF cells

(* A substitution, wherever its string is and whatever replaces it, writes *)
(* only the string's own cells and the zeros behind it, or cells of the    *)
(* arena that no other entry and no composed message holds, and a pointer  *)
(* it returns is one into the arena (substituir_interno with arena_alocar_fixo *)
(* and arena_alocar_anel).  What it leaves is a world of the same kind, so *)
(* that this holds of any number of substitutions.                         *)
THEOREM SubstituteStaysInside ==
    ASSUME NEW V, Cells \cup {Nul} \subseteq V, NEW n \in Nat, ArenaEnd <= n, NEW C,
           NEW w \in Worlds(V, n, C), SlotsApart(w),
           NEW p \in Nat, NEW want \in BOOLEAN, NEW explicit \in Nat, NEW before \in BOOLEAN,
           explicit # 0 => p + explicit <= RdramLimit
    PROVE  Inside(V, n, C, w, p, explicit, Substitute(w, p, want, explicit, before))
<1> DEFINE q == [p |-> p, want |-> want, explicit |-> explicit, before |-> before]
           r == ReadText(w.mem, p)
           key == Stripped(r.key)
           e == EntryOf(key, before)
           cells == Replacement(r, Len(key), Shown(e, key, before))
           s == Substitute(w, p, want, explicit, before)
<1>1. q.p = p /\ q.want = want /\ q.explicit = explicit /\ q.before = before
  OBVIOUS
<1>2. Nul \in V /\ Code \in V /\ Characters \subseteq V
  BY Alphabet
<1>3. Inside(V, n, C, w, p, explicit, Refused(w))
  BY RefusedIsInside
<1>. HIDE DEF q
<1>4. CASE p >= RdramLimit
  BY Zenon, <1>3, <1>4 DEF Substitute
<1>5. CASE p < RdramLimit
  <2>0. ~ (p >= RdramLimit)
    BY <1>5, ArenaIs
  <2>1. s = Recognised(w, q, r, key)
    BY Zenon, <2>0 DEF Substitute, ReadAndReplace, q
  <2>2. r \in ReadStates(V, w.mem, p)
    <3>1. w.mem \in [0 .. n - 1 -> V] /\ RdramLimit <= n
      BY ArenaIs DEF Worlds
    <3>. QED
      BY <1>5, <3>1, ReadTextIs
  <2>. HIDE DEF r, key
  <2>3. CASE r.state # "whole" \/ key = <<>>
    BY Zenon, <1>3, <2>1, <2>3 DEF Recognised
  <2>4. CASE ~ (r.state # "whole" \/ key = <<>>)
    <3>1. s = Translated(w, q, r, key, e)
      BY Zenon, <1>1, <2>1, <2>4 DEF Recognised
    <3>2. CASE e = 0
      BY Zenon, <1>3, <3>1, <3>2 DEF Translated
    <3>3. CASE e # 0
      <4>1. e \in DOMAIN Entries
        BY <3>3, EntryOfIs
      <4>. HIDE DEF e
      <4>2. CASE want /\ r.controls = <<>> /\ w.slot[e] # 0 /\ ~ before
        <5>1. s = [world |-> w, done |-> TRUE, to |-> w.slot[e]]
          BY Zenon, <1>1, <3>1, <3>3, <4>2 DEF Translated
        <5>2. w.slot[e] \in ArenaBase .. ArenaEnd - 1
          <6>1. w.slot[e] >= FixedBase /\ w.slot[e] + Len(Entries[e].translated) < w.top
            BY Zenon, <4>1, <4>2 DEF SlotsApart
          <6>2. w.slot[e] \in Nat /\ w.top \in FixedBase .. ArenaEnd /\ Len(Entries[e].translated) \in Nat
            BY <4>1, ShownIs DEF Worlds
          <6>. QED
            BY <6>1, <6>2, ArenaIs
        <5>3. s.world = w /\ s.to = w.slot[e]
          BY <5>1
        <5>. HIDE DEF s
        <5>4. Inside(V, n, C, w, p, explicit, s)
          BY Zenon, <5>2, <5>3 DEF Inside
        <5>. QED
          BY <5>4 DEF s
      <4>3. CASE ~ (want /\ r.controls = <<>> /\ w.slot[e] # 0 /\ ~ before)
        <5>1. s = Replaced(w, q, r, e, cells)
          BY Zenon, <1>1, <3>1, <3>3, <4>3 DEF Translated
        <5>2. cells \in Seq(V) /\ (r.controls = <<>> => Len(cells) = Len(Entries[e].translated))
          BY <2>2, <4>1, ReplacementIs
        <5>. HIDE DEF cells
        <5>4. CASE Len(cells) <= RoomAt(w.mem, q, r.raw) /\ ~ (want /\ w.mode >= 2)
          <6>1. s = [world |-> [w EXCEPT !.mem = Write(@, q.p, cells, Max({Len(cells), r.raw}))],
                     done |-> TRUE, to |-> 0]
            BY Zenon, <1>1, <5>1, <5>4 DEF Replaced
          <6>2. Len(cells) <= RoomAt(w.mem, q, r.raw) /\ r.state = "whole" /\ r = ReadText(w.mem, p)
            BY <2>4, <5>4 DEF r
          <6>3. Inside(V, n, C, w, p, explicit,
                    [world |-> [w EXCEPT !.mem = Write(@, q.p, cells, Max({Len(cells), r.raw}))],
                     done |-> TRUE, to |-> 0])
            BY <1>1, <1>2, <1>5, <5>2, <6>2, StaysInPlace
          <6>. QED
            BY Zenon, <6>1, <6>3
        <5>5. CASE ~ (Len(cells) <= RoomAt(w.mem, q, r.raw) /\ ~ (want /\ w.mode >= 2))
          <6>1. CASE ~ want \/ w.mode = 0
            BY Zenon, <1>1, <1>3, <5>1, <5>5, <6>1 DEF Replaced
          <6>2. CASE ~ (~ want \/ w.mode = 0)
            <7>1. s = Moved(SlotFor(w, e, r.controls, Len(cells)), w, cells)
              BY Zenon, <1>1, <5>1, <5>5, <6>2 DEF Replaced
            <7>2. ArenaBase > 0
              BY <1>5, ArenaIs
            <7>3. Inside(V, n, C, w, p, explicit, Moved(SlotFor(w, e, r.controls, Len(cells)), w, cells))
              BY <1>2, <4>1, <5>2, <7>2, MovedIsInside
            <7>. QED
              BY Zenon, <7>1, <7>3
          <6>. QED
            BY <6>1, <6>2
        <5>. QED
          BY <5>4, <5>5
      <4>. QED
        BY <4>2, <4>3
    <3>. QED
      BY <3>2, <3>3
  <2>. QED
    BY <2>3, <2>4
<1>. QED
  BY <1>4, <1>5, ArenaIs

-----------------------------------------------------------------------------
(* A block of data.                                                        *)

\* A world in which nothing was replaced, or the string at p by one that fits.
InPlace(V, w, p, explicit, v) ==
    \/ v = w
    \/ \E cells \in Seq(V) :
          /\ Len(cells) <= explicit - 1
          /\ v = [w EXCEPT !.mem = Write(@, p, cells, Max({Len(cells), ReadText(w.mem, p).raw}))]

(* That is all that happens for a caller that takes no pointer and knows   *)
(* the capacity.                                                           *)
LEMMA WithoutPointer ==
    ASSUME NEW V, Cells \cup {Nul} \subseteq V, NEW n \in Nat, ArenaEnd <= n, NEW C,
           NEW w \in Worlds(V, n, C), NEW p \in Nat, p < RdramLimit,
           NEW explicit \in Nat \ {0}, NEW before \in BOOLEAN
    PROVE  InPlace(V, w, p, explicit, Substitute(w, p, FALSE, explicit, before).world)
<1> DEFINE q == [p |-> p, want |-> FALSE, explicit |-> explicit, before |-> before]
           r == ReadText(w.mem, p)
           key == Stripped(r.key)
           e == EntryOf(key, before)
           cells == Replacement(r, Len(key), Shown(e, key, before))
           s == Substitute(w, p, FALSE, explicit, before)
<1>1. q.p = p /\ q.want = FALSE /\ q.explicit = explicit /\ q.before = before
  OBVIOUS
<1>2. Refused(w).world = w
  BY DEF Refused
<1>. HIDE DEF q
<1>3. ~ (p >= RdramLimit) /\ RdramLimit <= n
  BY ArenaIs
<1>4. s = Recognised(w, q, r, key)
  BY Zenon, <1>3 DEF Substitute, ReadAndReplace, q
<1>5. r \in ReadStates(V, w.mem, p)
  <2>1. w.mem \in [0 .. n - 1 -> V]
    BY DEF Worlds
  <2>. QED
    BY <1>3, <2>1, ReadTextIs
<1>. HIDE DEF r, key
<1>6. s = Refused(w) \/ (e # 0 /\ s = Replaced(w, q, r, e, cells))
  BY Zenon, <1>1, <1>4 DEF Recognised, Translated
<1>7. CASE s = Refused(w)
  BY Zenon, <1>2, <1>7 DEF InPlace
<1>8. CASE e # 0 /\ s = Replaced(w, q, r, e, cells)
  <2>1. e \in DOMAIN Entries
    BY <1>8, EntryOfIs
  <2>. HIDE DEF e
  <2>2. cells \in Seq(V)
    BY <1>5, <2>1, ReplacementIs
  <2>. HIDE DEF cells
  <2>3. RoomAt(w.mem, q, r.raw) = explicit - 1
    <3>1. explicit # 0
      OBVIOUS
    <3>. QED
      BY Zenon, <1>1, <3>1 DEF RoomAt
  <2>4. CASE Len(cells) <= RoomAt(w.mem, q, r.raw) /\ ~ (q.want /\ w.mode >= 2)
    <3> DEFINE v == [w EXCEPT !.mem = Write(@, p, cells, Max({Len(cells), r.raw}))]
    <3>1. s = [world |-> v, done |-> TRUE, to |-> 0]
      BY Zenon, <1>1, <1>8, <2>4 DEF Replaced
    <3>2. s.world = v
      <4>. HIDE DEF v, s
      <4>. QED
        BY <3>1
    <3>3. Len(cells) <= explicit - 1
      BY Zenon, <2>3, <2>4
    <3>. QED
      BY Zenon, <2>2, <3>2, <3>3 DEF r, InPlace
  <2>5. CASE ~ (Len(cells) <= RoomAt(w.mem, q, r.raw) /\ ~ (q.want /\ w.mode >= 2))
    <3>1. s = Refused(w)
      BY Zenon, <1>1, <1>8, <2>5 DEF Replaced
    <3>. QED
      BY Zenon, <1>7, <3>1
  <2>. QED
    BY <2>4, <2>5
<1>. QED
  BY <1>6, <1>7, <1>8

(* The reading of a text without controls stops at its NUL.                *)
LEMMA ReadsNoFurther ==
    ASSUME NEW V, NEW n \in Nat, RdramLimit <= n, NEW mem \in [0 .. n - 1 -> V],
           NEW p \in Nat, NEW m \in Nat, p + m < RdramLimit, mem[p + m] = Nul,
           \A i \in 0 .. m - 1 : mem[p + i] \in Characters
    PROVE  ReadText(mem, p).raw <= m
<1> DEFINE Step(k, q) == ReadStep(mem, p, q)
           base == ReadBase
           Loop(f) == f = [k \in 0 .. MaxText |-> IF k = 0 THEN base ELSE Step(k, f[k - 1])]
           f == CHOOSE f : Loop(f)
           S == {q \in ReadStates(V, mem, p) : q.raw <= m}
<1>1. ReadText(mem, p) = f[MaxText]
  BY Zenon DEF ReadText, ReadStep, ReadBase
<1>2. MaxText \in Nat /\ RdramLimit \in Nat
  BY CatalogueAssumption, ArenaAssumption
<1>3. ASSUME NEW k \in 1 .. MaxText, NEW s \in S PROVE Step(k, s) \in S
  <2> DEFINE t == ReadStep(mem, p, s)
             at == p + s.raw
  <2>1. s \in ReadStates(V, mem, p) /\ s.raw <= m
    OBVIOUS
  <2>2. t \in ReadStates(V, mem, p)
    BY <2>1, ReadStepIs
  <2>3. /\ s \in [raw : Nat, key : Seq(Textual), controls : Seq([offset : Nat, arg : V]),
                  state : {"open", "whole", "binary"}]
    BY <2>1 DEF ReadStates
  <2>4. s.raw \in Nat
    BY <2>3
  <2>5. s.raw = m => mem[at] = Nul
    OBVIOUS
  <2>6. s.raw # m => mem[at] \in Characters /\ s.raw + 1 <= m
    <3>1. s.raw # m => s.raw \in 0 .. m - 1
      BY <2>1, <2>4
    <3>2. s.raw # m => mem[p + s.raw] \in Characters
      BY Zenon, <3>1
    <3>. QED
      BY <2>4, <3>1, <3>2
  <2>7. Code \notin Characters /\ Nul \notin Characters
    BY LayoutAssumption, CatalogueAssumption
       DEF Characters, Printable, Code, Space, Break, Return, Nul
  <2>8. \/ t.raw = s.raw
        \/ t.raw = s.raw + 1 /\ mem[at] # Nul
    <3>1. CASE s.state # "open" \/ s.raw >= MaxText \/ at >= RdramLimit
      <4>1. t = s
        BY Zenon, <3>1 DEF ReadStep
      <4>. QED
        BY <4>1
    <3>2. CASE ~ (s.state # "open" \/ s.raw >= MaxText \/ at >= RdramLimit)
      <4>1. CASE mem[at] = Nul
        <5>1. t = [s EXCEPT !.state = "whole"]
          BY Zenon, <3>2, <4>1 DEF ReadStep
        <5>. HIDE DEF t
        <5>. QED
          BY <2>3, <5>1
      <4>2. CASE mem[at] # Nul /\ mem[at] \in Textual
        <5>1. mem[at] # Code
          BY <2>5, <2>6, <2>7, <4>2
        <5>2. t = [s EXCEPT !.raw = @ + 1, !.key = Append(@, mem[at])]
          BY Zenon, <3>2, <4>2, <5>1 DEF ReadStep
        <5>. HIDE DEF t
        <5>3. t.raw = s.raw + 1
          BY <2>3, <5>2
        <5>. QED
          BY <4>2, <5>3
      <4>3. CASE mem[at] # Nul /\ mem[at] \notin Textual
        <5>1. FALSE
          BY <2>5, <2>6, <4>3, Alphabet
        <5>. QED
          BY <5>1
      <4>. QED
        BY <4>1, <4>2, <4>3
    <3>. QED
      BY <3>1, <3>2
  <2>. HIDE DEF t
  <2>9. t.raw <= m
    BY <2>1, <2>4, <2>5, <2>6, <2>8
  <2>10. t \in S
    BY <2>2, <2>9
  <2>. QED
    BY <2>10 DEF t
<1>4. base \in S
  <2>1. <<>> \in Seq(Textual) /\ <<>> \in Seq([offset : Nat, arg : V])
    OBVIOUS
  <2>. QED
    BY <1>2, <2>1 DEF ReadBase, ReadStates
<1>. HIDE DEF base
<1>. HIDE DEF S
<1>5. \E g : Loop(g)
  <2> DEFINE step == [u \in (1 .. MaxText) \X S |-> Step(u[1], u[2])]
  <2>1. step \in [(1 .. MaxText) \X S -> S]
    BY <1>3
  <2>2. PICK g \in [0 .. MaxText -> S] : Turns(g, MaxText, base, step)
    <3>. HIDE DEF step
    <3>. QED
      BY <1>2, <1>4, <2>1, LoopExists
  <2>3. \A k \in 0 .. MaxText : k # 0 => step[<<k, g[k - 1]>>] = Step(k, g[k - 1])
    BY <1>2
  <2>. HIDE DEF step, Step
  <2>4. Loop(g)
    BY <2>2, <2>3 DEF Turns
  <2>. QED
    BY <2>4
<1>6. Loop(f)
  BY <1>5
<1>. HIDE DEF f
<1>7. \A k \in 0 .. MaxText : f[k] \in S
  <2> DEFINE P == {k \in 0 .. MaxText : f[k] \in S}
  <2>1. 0 \in P
    <3>1. 0 \in 0 .. MaxText
      BY <1>2
    <3>2. f[0] = base
      BY Zenon, <1>6, <3>1
    <3>. QED
      BY <1>4, <3>1, <3>2
  <2>2. ASSUME NEW k \in 1 .. MaxText, k - 1 \in P PROVE k \in P
    <3>1. k \in 0 .. MaxText /\ k # 0
      OBVIOUS
    <3>2. f[k] = Step(k, f[k - 1])
      BY Zenon, <1>6, <3>1
    <3>3. f[k - 1] \in S
      BY <2>2
    <3>4. Step(k, f[k - 1]) \in S
      BY <1>3, <3>3
    <3>. QED
      BY <3>1, <3>2, <3>4
  <2>. HIDE DEF P, Step, Loop
  <2>3. \A k \in 0 .. MaxText : k \in P
    BY <1>2, <2>1, <2>2, Reaches
  <2>. QED
    BY <2>3 DEF P
<1>8. MaxText \in 0 .. MaxText
  BY <1>2
<1>. QED
  BY <1>1, <1>7, <1>8 DEF S

(* A text of a block ends at a NUL inside the block, and what is before it *)
(* is made of characters.                                                  *)
LEMMA BlockTextIs ==
    ASSUME NEW mem, NEW base \in Nat, NEW bytes \in Nat, NEW off \in Nat, off < bytes
    PROVE  LET t == BlockText(mem, base, bytes, off)
           IN  /\ Len(t) \in Nat
               /\ t # <<>> => /\ off + Len(t) < bytes /\ mem[base + off + Len(t)] = Nul
                              /\ \A i \in 0 .. Len(t) - 1 : mem[base + off + i] \in Characters
<1> DEFINE Good == Glyph \cup {Break, Return}
           T == {i \in off .. bytes - 1 : mem[base + i] \notin Good} \cup {bytes}
           end == Min(T)
           t == BlockText(mem, base, bytes, off)
           u == [i \in 1 .. end - off |-> mem[base + off + i - 1]]
           Ends == end < bytes /\ mem[base + end] = Nul /\ end - off <= MaxText
<1>1. t = IF Ends THEN u ELSE <<>>
  BY Zenon DEF BlockText
<1>2. end \in T /\ \A j \in T : end <= j
  <2>1. T \in SUBSET Nat /\ T # {}
    OBVIOUS
  <2>. HIDE DEF T
  <2>. QED
    BY <2>1, MinIs
<1>3. end \in off .. bytes
  BY <1>2
<1>. HIDE DEF end
<1>4. Len(u) = end - off /\ u \in Seq({mem[a] : a \in Nat})
  <2>1. \A i \in 1 .. end - off : base + off + i - 1 \in Nat
    BY <1>3
  <2>2. u \in [1 .. end - off -> {mem[a] : a \in Nat}] /\ end - off \in Nat
    BY <1>3, <2>1
  <2>. HIDE DEF u
  <2>. QED
    BY <2>2
<1>5. \A i \in 0 .. (end - off) - 1 : mem[base + off + i] \in Characters
  <2>1. ASSUME NEW i \in 0 .. (end - off) - 1 PROVE mem[base + off + i] \in Characters
    <3>1. off + i \in off .. bytes - 1 /\ off + i < end /\ base + (off + i) = base + off + i
      BY <1>3
    <3>2. mem[base + (off + i)] \in Good
      <4>1. off + i \notin T
        BY <1>2, <1>3, <3>1
      <4>. QED
        BY <3>1, <4>1
    <3>. QED
      BY <3>1, <3>2, Alphabet DEF Glyph, Characters
  <2>. QED
    BY <2>1
<1>. HIDE DEF T, u, Good
<1>6. CASE Ends
  <2>1. t = u /\ Len(t) = end - off
    BY Zenon, <1>1, <1>4, <1>6
  <2>. HIDE DEF t
  <2>2. Len(t) \in Nat /\ off + Len(t) = end /\ base + end = base + off + Len(t)
    BY <1>3, <2>1
  <2>3. off + Len(t) < bytes /\ mem[base + off + Len(t)] = Nul
    BY <1>6, <2>2
  <2>4. \A i \in 0 .. Len(t) - 1 : mem[base + off + i] \in Characters
    BY <1>5, <2>1
  <2>. QED
    BY <2>2, <2>3, <2>4 DEF t
<1>7. CASE ~ Ends
  <2>1. t = <<>>
    BY Zenon, <1>1, <1>7
  <2>. HIDE DEF t
  <2>. QED
    BY <2>1 DEF t
<1>. QED
  BY <1>6, <1>7

(* Its room is inside the block: its cells, its NUL and zeros behind it.   *)
LEMMA BlockRoomIs ==
    ASSUME NEW mem, NEW base \in Nat, NEW bytes \in Nat, NEW off \in Nat, NEW m \in Nat,
           off + m < bytes, mem[base + off + m] = Nul
    PROVE  LET room == BlockRoom(mem, base, bytes, off, m)
           IN  /\ room \in Nat /\ m < room /\ off + room <= bytes
               /\ \A i \in m .. room - 1 : mem[base + off + i] = Nul
<1> DEFINE hi == Min({m + 1 + SlackMax, bytes - off})
           T == {c \in m + 1 .. hi : \A i \in m .. c - 1 : mem[base + off + i] = Nul}
           room == BlockRoom(mem, base, bytes, off, m)
<1>1. SlackMax \in Nat
  BY ArenaAssumption
<1>2. hi \in {m + 1 + SlackMax, bytes - off} /\ \A j \in {m + 1 + SlackMax, bytes - off} : hi <= j
  <2>1. {m + 1 + SlackMax, bytes - off} \in SUBSET Nat
    BY <1>1
  <2>. QED
    BY <2>1, MinIs
<1>3. hi \in Nat /\ m + 1 <= hi /\ hi <= bytes - off
  BY <1>1, <1>2
<1>. HIDE DEF hi
<1>4. T \in SUBSET (0 .. hi) /\ m + 1 \in T
  BY <1>3
<1>5. room = Max(T)
  BY Zenon DEF BlockRoom, hi
<1>6. Max(T) \in T
  <2>. HIDE DEF T
  <2>. QED
    BY <1>3, <1>4, MaxIs
<1>7. room \in T
  BY Zenon, <1>5, <1>6
<1>. HIDE DEF room
<1>. QED
  BY <1>3, <1>7 DEF room

\* What the sweep of a block may do to a world: nothing to the arena's books, and
\* nothing to a cell outside the block, or to one that is no character and no NUL.
OnlyTexts(n, w, v, base, bytes) ==
    /\ v = [w EXCEPT !.mem = v.mem]
    /\ \A a \in 0 .. n - 1 : v.mem[a] # w.mem[a] =>
           a \in base .. base + bytes - 1 /\ w.mem[a] \in Characters \cup {Nul}
SweepStates(V, n, C, w, base, bytes) ==
    {q \in [off : Nat, world : Worlds(V, n, C)] :
        SlotsApart(q.world) /\ OnlyTexts(n, w, q.world, base, bytes)}

(* One string replaced within its room.                                    *)
LEMMA WithinIs ==
    ASSUME NEW V, Cells \cup {Nul} \subseteq V, NEW n \in Nat, ArenaEnd <= n, NEW C,
           NEW w \in Worlds(V, n, C), NEW base \in Nat, NEW bytes \in Nat, base + bytes <= RdramLimit,
           NEW u \in Worlds(V, n, C), SlotsApart(u), OnlyTexts(n, w, u, base, bytes),
           NEW off \in Nat, NEW m \in Nat, NEW room \in Nat, m < room, off + room <= bytes,
           \A i \in 0 .. m - 1 : u.mem[base + off + i] \in Characters,
           \A i \in m .. room - 1 : u.mem[base + off + i] = Nul
    PROVE  LET v == Substitute(u, base + off, FALSE, room, FALSE).world
           IN  v \in Worlds(V, n, C) /\ SlotsApart(v) /\ OnlyTexts(n, w, v, base, bytes)
<1> DEFINE p == base + off
           s == Substitute(u, p, FALSE, room, FALSE)
           v == s.world
           raw == ReadText(u.mem, p).raw
<1>1. /\ p \in Nat /\ p < RdramLimit /\ p + room <= RdramLimit /\ RdramLimit <= n /\ RdramLimit \in Nat
      /\ room \in Nat \ {0} /\ u.mem \in [0 .. n - 1 -> V]
  BY ArenaIs DEF Worlds
<1>. HIDE DEF p
<1>2. v \in Worlds(V, n, C) /\ SlotsApart(v)
  <2>1. Inside(V, n, C, u, p, room, s)
    BY <1>1, SubstituteStaysInside
  <2>. HIDE DEF s
  <2>. QED
    BY Zenon, <2>1 DEF Inside
<1>3. raw <= m /\ raw \in Nat
  <2>1. p + m < RdramLimit /\ m \in m .. room - 1
    BY <1>1
  <2>2. u.mem[p + m] = Nul /\ \A i \in 0 .. m - 1 : u.mem[p + i] \in Characters
    BY Zenon, <2>1 DEF p
  <2>3. ReadText(u.mem, p) \in ReadStates(V, u.mem, p)
    BY <1>1, ReadTextIs
  <2>. QED
    BY <1>1, <2>1, <2>2, <2>3, ReadsNoFurther DEF ReadStates
<1>. HIDE DEF raw
<1>4. CASE v = u
  BY Zenon, <1>2, <1>4 DEF p
<1>5. ASSUME NEW cells \in Seq(V), Len(cells) <= room - 1,
             v = [u EXCEPT !.mem = Write(@, p, cells, Max({Len(cells), raw}))]
      PROVE  OnlyTexts(n, w, v, base, bytes)
  <2> DEFINE zeros == Max({Len(cells), raw})
             wrote == Write(u.mem, p, cells, zeros)
  <2>1. Len(cells) \in Nat
    OBVIOUS
  <2>2. zeros \in Nat /\ zeros <= room - 1 /\ Len(cells) <= zeros + 1
    <3>1. Len(cells) <= room - 1 /\ raw <= room - 1
      BY <1>1, <1>3, <1>5
    <3>2. zeros \in Nat /\ zeros = IF Len(cells) >= raw THEN Len(cells) ELSE raw
      BY <1>3, <2>1, MaxOfTwo
    <3>. HIDE DEF zeros
    <3>. QED
      BY <1>3, <2>1, <3>1, <3>2
  <2>. HIDE DEF zeros
  <2>3. p + zeros < n /\ Nul \in V
    BY <1>1, <2>2
  <2>4. \A a \in 0 .. n - 1 : a \notin p .. p + zeros => wrote[a] = u.mem[a]
    <3>1. \A a \in 0 .. n - 1 : wrote[a] = IF a \in p .. p + zeros
                                       THEN IF a < p + Len(cells) THEN cells[a - p + 1] ELSE Nul
                                       ELSE u.mem[a]
      <4>1. p \in Nat /\ zeros \in Nat /\ p + zeros < n /\ Nul \in V /\ Len(cells) <= zeros + 1
            /\ u.mem \in [0 .. n - 1 -> V]
        BY <1>1, <2>2, <2>3
      <4>2. /\ Write(u.mem, p, cells, zeros) \in [0 .. n - 1 -> V]
            /\ \A a \in 0 .. n - 1 : Write(u.mem, p, cells, zeros)[a] =
                  IF a \in p .. p + zeros
                  THEN IF a < p + Len(cells) THEN cells[a - p + 1] ELSE Nul ELSE u.mem[a]
        BY ONLY <4>1, n \in Nat, cells \in Seq(V), WriteIs
      <4>. QED
        BY Zenon, <4>2
    <3>. HIDE DEF wrote
    <3>. QED
      BY Zenon, <3>1
  <2>. HIDE DEF wrote
  <2>5. v = [u EXCEPT !.mem = wrote]
    BY Zenon, <1>5 DEF wrote, zeros
  <2>. HIDE DEF s
  <2>6. v.mem = wrote /\ v = [w EXCEPT !.mem = v.mem]
    <3>1. u = [w EXCEPT !.mem = u.mem]
      BY DEF OnlyTexts
    <3>. QED
      BY <2>5, <3>1 DEF Worlds
  <2>7. ASSUME NEW a \in p .. p + zeros
        PROVE  a \in base .. base + bytes - 1 /\ u.mem[a] \in Characters \cup {Nul}
    <3>1. PICK i \in Nat : i = a - p /\ a = base + off + i
      BY <1>1 DEF p
    <3>2. i \in 0 .. m - 1 \/ i \in m .. room - 1
      BY <1>1, <2>2, <3>1
    <3>3. a \in base .. base + bytes - 1
      BY <3>1, <3>2
    <3>. QED
      BY <3>1, <3>2, <3>3
  <2>8. ASSUME NEW a \in 0 .. n - 1, v.mem[a] # w.mem[a]
        PROVE  a \in base .. base + bytes - 1 /\ w.mem[a] \in Characters \cup {Nul}
    <3>1. CASE u.mem[a] # w.mem[a]
      BY Zenon, <3>1 DEF OnlyTexts
    <3>2. CASE u.mem[a] = w.mem[a]
      <4>1. a \in p .. p + zeros
        BY Zenon, <2>4, <2>6, <2>8, <3>2
      <4>. QED
        BY Zenon, <2>7, <3>2, <4>1
    <3>. QED
      BY <3>1, <3>2
  <2>. QED
    BY Zenon, <2>6, <2>8 DEF OnlyTexts
<1>6. \/ v = u
      \/ \E cells \in Seq(V) :
            /\ Len(cells) <= room - 1
            /\ v = [u EXCEPT !.mem = Write(@, p, cells, Max({Len(cells), raw}))]
  <2>1. FALSE \in BOOLEAN
    OBVIOUS
  <2>2. InPlace(V, u, p, room, Substitute(u, p, FALSE, room, FALSE).world)
    BY <1>1, <2>1, WithoutPointer
  <2>. QED
    BY Zenon, <2>2 DEF raw, InPlace
<1>. HIDE DEF s
<1>7. OnlyTexts(n, w, v, base, bytes)
  BY Zenon, <1>4, <1>5, <1>6
<1>8. v \in Worlds(V, n, C) /\ SlotsApart(v) /\ OnlyTexts(n, w, v, base, bytes)
  BY <1>2, <1>7
<1>. QED
  BY Zenon, <1>8 DEF s, p

LEMMA BlockStepIs ==
    ASSUME NEW V, Cells \cup {Nul} \subseteq V, NEW n \in Nat, ArenaEnd <= n, NEW C,
           NEW w \in Worlds(V, n, C), NEW base \in Nat, NEW bytes \in Nat, base + bytes <= RdramLimit,
           NEW q \in SweepStates(V, n, C, w, base, bytes), q.off < bytes
    PROVE  BlockStep(q, base, bytes, BlockText(q.world.mem, base, bytes, q.off))
               \in SweepStates(V, n, C, w, base, bytes)
<1> DEFINE text == BlockText(q.world.mem, base, bytes, q.off)
           m == Len(text)
           room == BlockRoom(q.world.mem, base, bytes, q.off, m)
           v == Substitute(q.world, base + q.off, FALSE, room, FALSE).world
           S == SweepStates(V, n, C, w, base, bytes)
           Apart == (q.off > 0 /\ q.world.mem[base + q.off - 1] # Nul) \/ m < StaticMin
           next == BlockStep(q, base, bytes, text)
<1>1. /\ q \in [off : Nat, world : Worlds(V, n, C)]
      /\ SlotsApart(q.world) /\ OnlyTexts(n, w, q.world, base, bytes)
  BY DEF SweepStates
<1>2. q.off \in Nat /\ q.world \in Worlds(V, n, C)
  BY <1>1
<1>3. /\ m \in Nat
      /\ text # <<>> => /\ q.off + m < bytes /\ q.world.mem[base + q.off + m] = Nul
                        /\ \A i \in 0 .. m - 1 : q.world.mem[base + q.off + i] \in Characters
  BY <1>2, BlockTextIs
<1>4. next = IF Apart THEN [q EXCEPT !.off = @ + 1]
             ELSE IF Find(text) = 0 THEN [q EXCEPT !.off = @ + m + 1]
             ELSE [off |-> q.off + room, world |-> v]
  BY Zenon DEF BlockStep, Within
<1>5. text = <<>> => m = 0
  OBVIOUS
<1>. HIDE DEF text, m
<1>6. ASSUME NEW o \in Nat PROVE [q EXCEPT !.off = o] \in S
  BY <1>1, <1>2 DEF SweepStates
<1>7. CASE Apart
  <2>1. [q EXCEPT !.off = q.off + 1] \in S
    BY <1>2, <1>6
  <2>. QED
    BY Zenon, <1>4, <1>7, <2>1 DEF text
<1>8. CASE ~ Apart /\ Find(text) = 0
  <2>1. [q EXCEPT !.off = q.off + m + 1] \in S
    BY <1>2, <1>3, <1>6
  <2>. QED
    BY Zenon, <1>4, <1>8, <2>1 DEF text
<1>9. CASE ~ Apart /\ Find(text) # 0
  <2>1. text # <<>>
    <3>1. ~ (m < StaticMin) /\ StaticMin \in Nat \ {0}
      BY <1>9, ArenaAssumption
    <3>. QED
      BY <1>3, <1>5, <3>1
  <2>2. /\ room \in Nat /\ m < room /\ q.off + room <= bytes
        /\ \A i \in m .. room - 1 : q.world.mem[base + q.off + i] = Nul
    <3> DEFINE mem == q.world.mem
               off == q.off
    <3>1. off \in Nat /\ off + m < bytes /\ mem[base + off + m] = Nul
      BY <1>2, <1>3, <2>1
    <3>. HIDE DEF mem, off
    <3>2. LET z == BlockRoom(mem, base, bytes, off, m)
          IN  /\ z \in Nat /\ m < z /\ off + z <= bytes
              /\ \A i \in m .. z - 1 : mem[base + off + i] = Nul
      <4>1. m \in Nat
        BY <1>3
      <4>. QED
        BY ONLY <3>1, <4>1, base \in Nat, bytes \in Nat, BlockRoomIs
    <3>. QED
      BY Zenon, <3>2 DEF mem, off
  <2>. HIDE DEF room
  <2>3. v \in Worlds(V, n, C) /\ SlotsApart(v) /\ OnlyTexts(n, w, v, base, bytes)
    BY <1>1, <1>2, <1>3, <2>1, <2>2, WithinIs
  <2>. HIDE DEF v
  <2>4. [off |-> q.off + room, world |-> v] \in S
    BY <1>2, <2>2, <2>3 DEF SweepStates
  <2>. QED
    BY Zenon, <1>4, <1>9, <2>4 DEF text
<1>. QED
  BY <1>7, <1>8, <1>9

(* The sweep of a block of data replaces its strings where they are, for   *)
(* every catalogue and whatever the block holds: it writes no cell outside *)
(* the block, none that holds anything but a character or a NUL, and takes *)
(* nothing from the arena.  So the controls and the binary fields of a     *)
(* resource stay (legendas_substituir_bloco_estatico).                     *)
THEOREM BlockKeepsFields ==
    ASSUME NEW V, Cells \cup {Nul} \subseteq V, NEW n \in Nat, ArenaEnd <= n, NEW C,
           NEW w \in Worlds(V, n, C), SlotsApart(w), NEW from \in Nat, NEW bytes \in Nat
    PROVE  /\ Static(w, from, bytes) \in Worlds(V, n, C) /\ SlotsApart(Static(w, from, bytes))
           /\ OnlyTexts(n, w, Static(w, from, bytes), from, bytes)
<1> DEFINE base == [off |-> 0, world |-> w]
           Step(k, q) == IF q.off >= bytes THEN q
                         ELSE BlockStep(q, from, bytes, BlockText(q.world.mem, from, bytes, q.off))
           Loop(f) == f = [k \in 0 .. bytes |-> IF k = 0 THEN base ELSE Step(k, f[k - 1])]
           f == CHOOSE f : Loop(f)
           S == SweepStates(V, n, C, w, from, bytes)
           Off == ~ Enabled \/ bytes = 0 \/ from >= RdramLimit \/ from + bytes > RdramLimit
<1>0. OnlyTexts(n, w, w, from, bytes)
  BY DEF OnlyTexts, Worlds
<1>1. Static(w, from, bytes) = IF Off THEN w ELSE f[bytes].world
  BY Zenon DEF Static
<1>a. CASE Off
  BY Zenon, <1>0, <1>1, <1>a
<1>b. CASE ~ Off
  <2>. SUFFICES ASSUME from + bytes <= RdramLimit PROVE f[bytes] \in S
    <3>1. from + bytes <= RdramLimit
      BY <1>b, ArenaIs
    <3>. HIDE DEF f
    <3>2. Static(w, from, bytes) = f[bytes].world
      BY Zenon, <1>1, <1>b
    <3>3. f[bytes] \in S => /\ f[bytes].world \in Worlds(V, n, C) /\ SlotsApart(f[bytes].world)
                            /\ OnlyTexts(n, w, f[bytes].world, from, bytes)
      <4> DEFINE z == f[bytes]
      <4>. HIDE DEF z
      <4>1. z \in S => /\ z.world \in Worlds(V, n, C) /\ SlotsApart(z.world)
                       /\ OnlyTexts(n, w, z.world, from, bytes)
        BY DEF SweepStates
      <4>. QED
        BY Zenon, <4>1 DEF z
    <3>. QED
      BY Zenon, <3>1, <3>2, <3>3
  <2>2. bytes \in Nat
    OBVIOUS
  <2>3. ASSUME NEW k \in 1 .. bytes, NEW s \in S PROVE Step(k, s) \in S
    <3>1. CASE s.off >= bytes
      BY Zenon, <3>1
    <3>2. CASE ~ (s.off >= bytes)
      <4>1. s.off < bytes
        <5>1. s.off \in Nat
          BY DEF SweepStates
        <5>. QED
          BY <3>2, <5>1
      <4>2. BlockStep(s, from, bytes, BlockText(s.world.mem, from, bytes, s.off)) \in S
        BY <4>1, BlockStepIs
      <4>. QED
        BY Zenon, <3>2, <4>2
    <3>. QED
      BY <3>1, <3>2
  <2>4. base \in S
    BY <1>0 DEF SweepStates
  <2>. HIDE DEF base
  <2>. HIDE DEF S
  <2>5. \E g : Loop(g)
    <3> DEFINE step == [u \in (1 .. bytes) \X S |-> Step(u[1], u[2])]
    <3>1. step \in [(1 .. bytes) \X S -> S]
      BY <2>3
    <3>2. PICK g \in [0 .. bytes -> S] : Turns(g, bytes, base, step)
      <4>. HIDE DEF step
      <4>. QED
        BY <2>2, <2>4, <3>1, LoopExists
    <3>3. \A k \in 0 .. bytes : k # 0 => step[<<k, g[k - 1]>>] = Step(k, g[k - 1])
      BY <2>2
    <3>. HIDE DEF step, Step
    <3>4. Loop(g)
      BY <3>2, <3>3 DEF Turns
    <3>. QED
      BY <3>4
  <2>6. Loop(f)
    BY <2>5
  <2>. HIDE DEF f
  <2>7. \A k \in 0 .. bytes : f[k] \in S
    <3> DEFINE P == {k \in 0 .. bytes : f[k] \in S}
    <3>1. 0 \in P
      <4>1. 0 \in 0 .. bytes
        BY <2>2
      <4>2. f[0] = base
        BY Zenon, <2>6, <4>1
      <4>. QED
        BY <2>4, <4>1, <4>2
    <3>2. ASSUME NEW k \in 1 .. bytes, k - 1 \in P PROVE k \in P
      <4>1. k \in 0 .. bytes /\ k # 0
        OBVIOUS
      <4>2. f[k] = Step(k, f[k - 1])
        BY Zenon, <2>6, <4>1
      <4>3. f[k - 1] \in S
        BY <3>2
      <4>4. Step(k, f[k - 1]) \in S
        BY <2>3, <4>3
      <4>. QED
        BY <4>1, <4>2, <4>4
    <3>. HIDE DEF P, Step, Loop
    <3>3. \A k \in 0 .. bytes : k \in P
      BY <2>2, <3>1, <3>2, Reaches
    <3>. QED
      BY <3>3 DEF P
  <2>8. bytes \in 0 .. bytes
    BY <2>2
  <2>. QED
    BY Zenon, <2>7, <2>8 DEF S
<1>. QED
  BY <1>a, <1>b

-----------------------------------------------------------------------------
(* The cartridge.                                                          *)

\* The cartridges that differ from `cart` by their texts only: characters where it
\* has characters, and every other cell as it was.
Rewritten(V, n, cart) ==
    {c \in [0 .. n - 1 -> V] :
        \A a \in 0 .. n - 1 : IF cart[a] \in Characters THEN c[a] \in Characters ELSE c[a] = cart[a]}

(* A text found in the cartridge is made of characters, and what is written *)
(* over it as well.                                                         *)
LEMMA PutIs ==
    ASSUME NEW V, Characters \subseteq V, NEW n \in Nat, NEW cart, NEW c \in Rewritten(V, n, cart),
           NEW at \in Nat, NEW m \in Nat, at + m <= n, NEW s \in Seq(Characters), Len(s) = m,
           CartText(c, at, m) = s, NEW t \in Seq(Characters \cup DOMAIN Accent)
    PROVE  Put(c, at, EncodeFixed(t, m)) \in Rewritten(V, n, cart)
<1> DEFINE cells == EncodeFixed(t, m)
           put == Put(c, at, cells)
<1>1. Encode(t) \in Seq(Characters) /\ Space \in Characters
  BY EncodeIs, Alphabet
<1>2. Len(Encode(t)) \in Nat /\ \A i \in 1 .. Len(Encode(t)) : Encode(t)[i] \in Characters
  <2>. HIDE DEF Characters
  <2>. QED
    BY <1>1
<1>3. cells = [i \in 1 .. m |-> IF i <= Len(Encode(t)) THEN Encode(t)[i] ELSE Space]
  BY Zenon DEF EncodeFixed
<1>4. cells \in [1 .. m -> Characters]
  <2>. HIDE DEF Characters
  <2>. QED
    BY <1>1, <1>2, <1>3
<1>5. Len(cells) = m /\ \A i \in 1 .. m : cells[i] \in Characters
  <2>. HIDE DEF Characters, cells
  <2>. QED
    BY <1>4
<1>6. \A a \in at .. at + m - 1 : c[a] \in Characters
  <2>1. \A i \in 1 .. m : s[i] \in Characters
    <3>. HIDE DEF Characters
    <3>. QED
      OBVIOUS
  <2>2. s = [i \in 1 .. m |-> c[at + i - 1]]
    BY Zenon DEF CartText
  <2>3. ASSUME NEW a \in at .. at + m - 1 PROVE c[a] \in Characters
    <3>1. a - at + 1 \in 1 .. m /\ at + (a - at + 1) - 1 = a
      OBVIOUS
    <3>2. s[a - at + 1] = c[at + (a - at + 1) - 1]
      BY <2>2, <3>1
    <3>. QED
      BY <2>1, <3>1, <3>2
  <2>. QED
    BY <2>3
<1>7. c \in [0 .. n - 1 -> V] /\ DOMAIN c = 0 .. n - 1
  BY DEF Rewritten
<1>. HIDE DEF cells
<1>8. put = [a \in 0 .. n - 1 |-> IF a \in at .. at + m - 1 THEN cells[a - at + 1] ELSE c[a]]
  BY Zenon, <1>5, <1>7 DEF Put
<1>9. \A a \in at .. at + m - 1 : a - at + 1 \in 1 .. m
  OBVIOUS
<1>10. \A a \in 0 .. n - 1 :
         put[a] = IF a \in at .. at + m - 1 THEN cells[a - at + 1] ELSE c[a]
  BY Zenon, <1>8
<1>11. \A a \in 0 .. n - 1 : put[a] \in V
  BY Zenon, <1>5, <1>7, <1>9, <1>10
<1>12. put \in [0 .. n - 1 -> V]
  BY Zenon, <1>8, <1>10, <1>11
<1>13. ASSUME NEW a \in 0 .. n - 1
       PROVE  IF cart[a] \in Characters THEN put[a] \in Characters ELSE put[a] = cart[a]
  <2>0. IF cart[a] \in Characters THEN c[a] \in Characters ELSE c[a] = cart[a]
    BY Zenon DEF Rewritten
  <2>1. CASE a \in at .. at + m - 1
    <3>1. c[a] \in Characters /\ put[a] \in Characters
      BY Zenon, <1>5, <1>6, <1>9, <1>10, <2>1
    <3>. QED
      BY Zenon, <2>0, <3>1
  <2>2. CASE a \notin at .. at + m - 1
    BY Zenon, <1>10, <2>0, <2>2
  <2>. QED
    BY <2>1, <2>2
<1>. HIDE DEF put
<1>14. put \in Rewritten(V, n, cart)
  BY Zenon, <1>12, <1>13 DEF Rewritten
<1>. QED
  BY Zenon, <1>14 DEF put, cells

LEMMA PatchEntryIs ==
    ASSUME NEW V, Characters \subseteq V, NEW n \in Nat, NEW cart, NEW c \in Rewritten(V, n, cart),
           NEW at \in Nat, NEW e \in DOMAIN Entries
    PROVE  PatchEntry(c, at, e, n) \in Rewritten(V, n, cart)
<1> DEFINE s == SourceOf[e]
           t == Entries[e].translated
           Found == /\ Len(s) >= CartMin /\ at + Len(s) <= n /\ CartText(c, at, Len(s)) = s
                    /\ at + Len(s) < n => c[at + Len(s)] \notin Glyph
                    /\ ~ Collides(t) /\ Len(t) <= Len(s)
<1>1. s \in Seq(Characters) /\ t \in Seq(Characters \cup DOMAIN Accent)
  BY EntriesAre DEF SourceOf
<1>2. PatchEntry(c, at, e, n) = IF Found THEN Put(c, at, EncodeFixed(t, Len(s))) ELSE c
  BY Zenon DEF PatchEntry
<1>3. Len(s) \in Nat
  <2>. HIDE DEF s, Characters
  <2>. QED
    BY <1>1
<1>. HIDE DEF s, t
<1>4. CASE Found
  BY <1>1, <1>2, <1>3, <1>4, PutIs
<1>5. CASE ~ Found
  BY Zenon, <1>2, <1>5
<1>. QED
  BY <1>4, <1>5

LEMMA PatchExactIs ==
    ASSUME NEW V, Characters \subseteq V, NEW n \in Nat, NEW cart, NEW c \in Rewritten(V, n, cart),
           NEW x \in [at : Nat, source : Seq(Characters)]
    PROVE  PatchExact(c, x, n) \in Rewritten(V, n, cart)
<1> DEFINE e == Find(x.source)
           m == Len(x.source)
           t == Entries[e].translated
           Found == CartText(c, x.at, m) = x.source /\ ~ Collides(t) /\ Len(t) <= m
<1>1. x.source \in Seq(Characters) /\ x.at \in Nat
  OBVIOUS
<1>2. m \in Nat
  <2>. HIDE DEF Characters
  <2>. QED
    BY <1>1
<1>3. PatchExact(c, x, n) = IF e = 0 \/ x.at + m > n THEN c
                            ELSE IF Found THEN Put(c, x.at, EncodeFixed(t, m)) ELSE c
  BY Zenon DEF PatchExact
<1>4. CASE ~ (e = 0 \/ x.at + m > n) /\ Found
  <2>1. e \in DOMAIN Entries
    BY <1>4, FindIs
  <2>2. t \in Seq(Characters \cup DOMAIN Accent)
    BY <2>1, EntriesAre
  <2>. HIDE DEF e, t
  <2>3. x.at + m <= n
    BY <1>1, <1>2, <1>4
  <2>4. CartText(c, x.at, m) = x.source
    BY <1>4
  <2>. HIDE DEF m
  <2>5. Len(x.source) = m
    BY DEF m
  <2>6. Put(c, x.at, EncodeFixed(t, m)) \in Rewritten(V, n, cart)
    BY <1>1, <1>2, <2>2, <2>3, <2>4, <2>5, PutIs
  <2>. QED
    BY Zenon, <1>3, <1>4, <2>6
<1>5. CASE ~ (~ (e = 0 \/ x.at + m > n) /\ Found)
  BY Zenon, <1>3, <1>5
<1>. QED
  BY <1>4, <1>5

LEMMA PatchBucketIs ==
    ASSUME NEW V, Characters \subseteq V, NEW n \in Nat, NEW cart, NEW c \in Rewritten(V, n, cart),
           NEW at \in Nat
    PROVE  PatchBucket(c, at, n) \in Rewritten(V, n, cart)
<1> DEFINE all == Len(Entries)
           base == c
           Step(k, q) == IF KeyOf(SourceOf[all + 1 - k]) # CartText(c, at, KeyBytes) THEN q
                         ELSE PatchEntry(q, at, all + 1 - k, n)
           Loop(f) == f = [k \in 0 .. all |-> IF k = 0 THEN base ELSE Step(k, f[k - 1])]
           f == CHOOSE f : Loop(f)
           S == Rewritten(V, n, cart)
<1>1. PatchBucket(c, at, n) = f[all]
  BY Zenon DEF PatchBucket
<1>2. all \in Nat /\ DOMAIN Entries = 1 .. all
  BY EntriesAre
<1>. HIDE DEF all
<1>3. ASSUME NEW k \in 1 .. all, NEW s \in S PROVE Step(k, s) \in S
  <2>1. all + 1 - k \in DOMAIN Entries
    BY <1>2
  <2>2. PatchEntry(s, at, all + 1 - k, n) \in S
    BY <2>1, PatchEntryIs
  <2>. QED
    BY Zenon, <2>2
<1>4. base \in S
  OBVIOUS
<1>. HIDE DEF base
<1>. HIDE DEF S
<1>5. \E g : Loop(g)
  <2> DEFINE step == [u \in (1 .. all) \X S |-> Step(u[1], u[2])]
  <2>1. step \in [(1 .. all) \X S -> S]
    BY <1>3
  <2>2. PICK g \in [0 .. all -> S] : Turns(g, all, base, step)
    <3>. HIDE DEF step
    <3>. QED
      BY <1>2, <1>4, <2>1, LoopExists
  <2>3. \A k \in 0 .. all : k # 0 => step[<<k, g[k - 1]>>] = Step(k, g[k - 1])
    BY <1>2
  <2>. HIDE DEF step, Step
  <2>4. Loop(g)
    BY <2>2, <2>3 DEF Turns
  <2>. QED
    BY <2>4
<1>6. Loop(f)
  BY <1>5
<1>. HIDE DEF f
<1>7. \A k \in 0 .. all : f[k] \in S
  <2> DEFINE P == {k \in 0 .. all : f[k] \in S}
  <2>1. 0 \in P
    <3>1. 0 \in 0 .. all
      BY <1>2
    <3>2. f[0] = base
      BY Zenon, <1>6, <3>1
    <3>. QED
      BY <1>4, <3>1, <3>2
  <2>2. ASSUME NEW k \in 1 .. all, k - 1 \in P PROVE k \in P
    <3>1. k \in 0 .. all /\ k # 0
      OBVIOUS
    <3>2. f[k] = Step(k, f[k - 1])
      BY Zenon, <1>6, <3>1
    <3>3. f[k - 1] \in S
      BY <2>2
    <3>4. Step(k, f[k - 1]) \in S
      BY <1>3, <3>3
    <3>. QED
      BY <3>1, <3>2, <3>4
  <2>. HIDE DEF P, Step, Loop
  <2>3. \A k \in 0 .. all : k \in P
    BY <1>2, <2>1, <2>2, Reaches
  <2>. QED
    BY <2>3 DEF P
<1>8. all \in 0 .. all
  BY <1>2
<1>. QED
  BY Zenon, <1>1, <1>7, <1>8 DEF S

LEMMA SweptIs ==
    ASSUME NEW V, Characters \subseteq V, NEW n \in Nat, NEW cart \in [0 .. n - 1 -> V]
    PROVE  Swept(cart, n) \in Rewritten(V, n, cart)
<1> DEFINE base == cart
           Step(k, q) == IF k - 1 + KeyBytes > n THEN q ELSE PatchBucket(q, k - 1, n)
           Loop(f) == f = [k \in 0 .. n |-> IF k = 0 THEN base ELSE Step(k, f[k - 1])]
           f == CHOOSE f : Loop(f)
           S == Rewritten(V, n, cart)
<1>1. Swept(cart, n) = f[n]
  BY Zenon DEF Swept
<1>2. n \in Nat
  OBVIOUS
<1>3. ASSUME NEW k \in 1 .. n, NEW s \in S PROVE Step(k, s) \in S
  <2>1. k - 1 \in Nat
    OBVIOUS
  <2>2. PatchBucket(s, k - 1, n) \in S
    BY <2>1, PatchBucketIs
  <2>. QED
    BY Zenon, <2>2
<1>4. base \in S
  BY DEF Rewritten
<1>. HIDE DEF base
<1>. HIDE DEF S
<1>5. \E g : Loop(g)
  <2> DEFINE step == [u \in (1 .. n) \X S |-> Step(u[1], u[2])]
  <2>1. step \in [(1 .. n) \X S -> S]
    BY <1>3
  <2>2. PICK g \in [0 .. n -> S] : Turns(g, n, base, step)
    <3>. HIDE DEF step
    <3>. QED
      BY <1>2, <1>4, <2>1, LoopExists
  <2>3. \A k \in 0 .. n : k # 0 => step[<<k, g[k - 1]>>] = Step(k, g[k - 1])
    BY <1>2
  <2>. HIDE DEF step, Step
  <2>4. Loop(g)
    BY <2>2, <2>3 DEF Turns
  <2>. QED
    BY <2>4
<1>6. Loop(f)
  BY <1>5
<1>. HIDE DEF f
<1>7. \A k \in 0 .. n : f[k] \in S
  <2> DEFINE P == {k \in 0 .. n : f[k] \in S}
  <2>1. 0 \in P
    <3>1. 0 \in 0 .. n
      BY <1>2
    <3>2. f[0] = base
      BY Zenon, <1>6, <3>1
    <3>. QED
      BY <1>4, <3>1, <3>2
  <2>2. ASSUME NEW k \in 1 .. n, k - 1 \in P PROVE k \in P
    <3>1. k \in 0 .. n /\ k # 0
      OBVIOUS
    <3>2. f[k] = Step(k, f[k - 1])
      BY Zenon, <1>6, <3>1
    <3>3. f[k - 1] \in S
      BY <2>2
    <3>4. Step(k, f[k - 1]) \in S
      BY <1>3, <3>3
    <3>. QED
      BY <3>1, <3>2, <3>4
  <2>. HIDE DEF P, Step, Loop
  <2>3. \A k \in 0 .. n : k \in P
    BY <1>2, <2>1, <2>2, Reaches
  <2>. QED
    BY <2>3 DEF P
<1>8. n \in 0 .. n
  BY <1>2
<1>. QED
  BY Zenon, <1>1, <1>7, <1>8 DEF S

(* The cartridge the game boots from differs from the one on disk by its   *)
(* texts only, for every catalogue and every image: a cell that is no      *)
(* character (a NUL, a control, a binary field) is the one it was, and a   *)
(* character is replaced by a character, so that every string ends where   *)
(* it ended (legendas_aplicar_cartucho, whose loops go over every byte and *)
(* every entry, and the fixed addresses after them).                       *)
THEOREM CartridgeKeepsControls ==
    ASSUME NEW V, Characters \subseteq V, NEW n \in Nat, NEW cart \in [0 .. n - 1 -> V]
    PROVE  /\ Patched(cart) \in [0 .. n - 1 -> V]
           /\ \A a \in 0 .. n - 1 : IF cart[a] \in Characters THEN Patched(cart)[a] \in Characters
                                    ELSE Patched(cart)[a] = cart[a]
<1> DEFINE last == Len(Exact)
           size == Cardinality(DOMAIN cart)
           base == Swept(cart, size)
           Step(k, q) == PatchExact(q, Exact[k], size)
           Loop(f) == f = [k \in 0 .. last |-> IF k = 0 THEN base ELSE Step(k, f[k - 1])]
           f == CHOOSE f : Loop(f)
           S == Rewritten(V, n, cart)
<1>0. size = n
  <2>1. DOMAIN cart = 0 .. n - 1
    OBVIOUS
  <2>2. Cardinality(0 .. n - 1) = IF 0 > n - 1 THEN 0 ELSE (n - 1) - 0 + 1
    BY FS_Interval
  <2>. QED
    BY <2>1, <2>2
<1>1. Patched(cart) = IF Enabled THEN f[last] ELSE cart
  BY Zenon DEF Patched
<1>2. last \in Nat /\ \A k \in 1 .. last : Exact[k] \in [at : Nat, source : Seq(Characters)]
  <2> DEFINE X == [at : Nat, source : Seq(Characters)]
  <2>1. Exact \in Seq(X)
    BY ArenaAssumption
  <2>. HIDE DEF X
  <2>2. last \in Nat /\ \A k \in 1 .. last : Exact[k] \in X
    BY <2>1
  <2>. QED
    BY <2>2 DEF X
<1>. HIDE DEF last, size
<1>3. ASSUME NEW k \in 1 .. last, NEW s \in S PROVE Step(k, s) \in S
  BY <1>0, <1>2, PatchExactIs
<1>4. base \in S
  BY <1>0, SweptIs
<1>. HIDE DEF base
<1>. HIDE DEF S
<1>5. \E g : Loop(g)
  <2> DEFINE step == [u \in (1 .. last) \X S |-> Step(u[1], u[2])]
  <2>1. step \in [(1 .. last) \X S -> S]
    BY <1>3
  <2>2. PICK g \in [0 .. last -> S] : Turns(g, last, base, step)
    <3>. HIDE DEF step
    <3>. QED
      BY <1>2, <1>4, <2>1, LoopExists
  <2>3. \A k \in 0 .. last : k # 0 => step[<<k, g[k - 1]>>] = Step(k, g[k - 1])
    BY <1>2
  <2>. HIDE DEF step, Step
  <2>4. Loop(g)
    BY <2>2, <2>3 DEF Turns
  <2>. QED
    BY <2>4
<1>6. Loop(f)
  BY <1>5
<1>. HIDE DEF f
<1>7. \A k \in 0 .. last : f[k] \in S
  <2> DEFINE P == {k \in 0 .. last : f[k] \in S}
  <2>1. 0 \in P
    <3>1. 0 \in 0 .. last
      BY <1>2
    <3>2. f[0] = base
      BY Zenon, <1>6, <3>1
    <3>. QED
      BY <1>4, <3>1, <3>2
  <2>2. ASSUME NEW k \in 1 .. last, k - 1 \in P PROVE k \in P
    <3>1. k \in 0 .. last /\ k # 0
      OBVIOUS
    <3>2. f[k] = Step(k, f[k - 1])
      BY Zenon, <1>6, <3>1
    <3>3. f[k - 1] \in S
      BY <2>2
    <3>4. Step(k, f[k - 1]) \in S
      BY <1>3, <3>3
    <3>. QED
      BY <3>1, <3>2, <3>4
  <2>. HIDE DEF P, Step, Loop
  <2>3. \A k \in 0 .. last : k \in P
    BY <1>2, <2>1, <2>2, Reaches
  <2>. QED
    BY <2>3 DEF P
<1>8. last \in 0 .. last
  BY <1>2
<1>9. cart \in S
  BY DEF S, Rewritten
<1>10. Patched(cart) \in S
  BY Zenon, <1>1, <1>7, <1>8, <1>9
<1>. QED
  BY Zenon, <1>10 DEF S, Rewritten
=============================================================================
