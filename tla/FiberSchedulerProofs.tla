------------------------- MODULE FiberSchedulerProofs -------------------------
(***************************************************************************)
(* The scheduler of fibers is correct for every set of threads, every      *)
(* priority and every number of slots: its lists agree with the states of  *)
(* the threads (ListsSound), and no thread continues on the stack of the   *)
(* one that had its structure before (FreshFiber).  Lists are sequences    *)
(* there and in Scheduler; the last sections prove of ThreadList that the  *)
(* walks over the pointers in RDRAM compute these sequences (ListsMatch).  *)
(***************************************************************************)
EXTENDS FiberScheduler, ThreadList, ThreadQueueProofs, FiniteSetTheorems

List == {RunQ, WaitQ}

SlotRecord == [thread : Thread, finished : BOOLEAN, polling : BOOLEAN,
               at : {"game", "parking", "gone"}]

-----------------------------------------------------------------------------
(* The inductive invariant.  A thread can be put in the run queue when it  *)
(* is in neither list: so states and lists must agree, TH_QUEUE must be    *)
(* right when a thread is destroyed, and what the executing fiber's thread *)
(* may be found as must be known.  A fiber is fresh when a structure that  *)
(* was created again has no slot left that is not finished.                *)

Typed ==
    /\ TypeOK
    /\ q \in ListsOver(List)
    /\ slot \in Seq(SlotRecord)

(* A thread: the lists it is in, its state, TH_QUEUE and the active list.  *)
MatchesOne(t) ==
    /\ \A l \in List : In(q, t, l) => queueOf[t] = l
    /\ state[t] = "RUNNING" => queueOf[t] = RunQ
    /\ In(q, t, RunQ) <=> state[t] = "RUNNABLE"
    /\ In(q, t, WaitQ) => state[t] = "WAITING"
    /\ state[t] # "STOPPED" <=> t \in active

Matches == \A t \in Thread : MatchesOne(t)

(* A slot that is not finished belongs to the thread that has the          *)
(* structure now, which no list holds once the fiber is gone.              *)
SlotMatches(i) ==
    Live(i) =>
        /\ slot[i].thread \in active
        /\ slot[i].thread \notin remade
        /\ slot[i].at = "gone" => /\ state[slot[i].thread] = "WAITING"
                                  /\ ~ In(q, slot[i].thread, WaitQ)

OneSlotEach == \A i, j \in DOMAIN slot : slot[i].thread = slot[j].thread => i = j

(* A thread that is in no list and should run or wait.                     *)
Placed(t) ==
    state[t] \in {"RUNNING", "WAITING"} /\ ~ In(q, t, WaitQ) =>
        fiber = Main \/ t = current \/ \E i \in SlotsOf(t) : slot[i].at = "gone"

(* The thread of the fiber that executes.                                  *)
Executing ==
    IF OnFiber
    THEN /\ current = Me /\ Live(fiber) /\ slot[fiber].at # "gone"
         /\ \/ state[Me] = "RUNNING"
            \/ slot[fiber].at = "parking" /\ In(q, Me, WaitQ)
    ELSE current = None

FiberInv ==
    /\ Typed
    /\ Good(List, q)
    /\ Matches
    /\ OneSlotEach
    /\ \A i \in DOMAIN slot : SlotMatches(i)
    /\ \A t \in Thread : Placed(t)
    /\ Executing

-----------------------------------------------------------------------------
(* Facts every step uses.                                                  *)

LEMMA Constants ==
    /\ RunQ \in List /\ WaitQ \in List /\ RunQ # WaitQ
    /\ None \notin Thread /\ None \notin List
    /\ Main # Sched /\ Main \notin Nat /\ Sched \notin Nat
    /\ MaxSlots \in Nat \ {0} /\ Boot \in Thread
BY FiberAssumption DEF List

(* The thread of the fiber that executes is in no list, unless it parks.   *)
LEMMA ThreadOnFiber ==
    ASSUME FiberInv, OnFiber
    PROVE  /\ Me \in Thread /\ fiber \in DOMAIN slot /\ current = Me
           /\ fiber # Main /\ fiber # Sched /\ slot[fiber] \in SlotRecord
           /\ Live(fiber) /\ slot[fiber].at # "gone"
           /\ Me \notin remade /\ Me \in active
           /\ ~ In(q, Me, RunQ)
           /\ \/ state[Me] = "RUNNING" /\ ~ In(q, Me, WaitQ) /\ queueOf[Me] = RunQ
              \/ slot[fiber].at = "parking" /\ state[Me] = "WAITING" /\ In(q, Me, WaitQ)
<1>1. /\ fiber \in DOMAIN slot /\ fiber \in Nat
      /\ slot[fiber] \in SlotRecord /\ slot[fiber].thread \in Thread
  <2>1. slot \in Seq(SlotRecord) /\ fiber \in DOMAIN slot
    BY DEF FiberInv, Typed, OnFiber
  <2>2. fiber \in 1 .. Len(slot) /\ slot[fiber] \in SlotRecord
    BY <2>1
  <2> QED
    BY <2>1, <2>2 DEF SlotRecord
<1>2. /\ current = Me /\ Live(fiber) /\ slot[fiber].at # "gone"
      /\ (state[Me] = "RUNNING" \/ (slot[fiber].at = "parking" /\ In(q, Me, WaitQ)))
  BY DEF FiberInv, Executing
<1>3. Me \notin remade
  BY <1>1, <1>2 DEF FiberInv, SlotMatches, Me
<1>4. Me \in Thread /\ MatchesOne(Me)
  BY <1>1 DEF FiberInv, Matches, Me
<1> HIDE DEF Me
<1> QED
  BY <1>1, <1>2, <1>3, <1>4, Constants DEF MatchesOne

(* While it executes the game it is RUNNING.                               *)
LEMMA ThreadInGame ==
    ASSUME FiberInv, InGame
    PROVE  /\ OnFiber /\ state[Me] = "RUNNING" /\ queueOf[Me] = RunQ
           /\ ~ In(q, Me, WaitQ) /\ ~ In(q, Me, RunQ)
BY ThreadOnFiber DEF InGame

(* Overwriting one slot.                                                   *)
LEMMA SlotUpdate ==
    ASSUME slot \in Seq(SlotRecord), Len(slot) <= MaxSlots, OneSlotEach,
           NEW i \in DOMAIN slot, NEW r \in SlotRecord, r.thread = slot[i].thread,
           slot' = [slot EXCEPT ![i] = r]
    PROVE  /\ slot' \in Seq(SlotRecord) /\ Len(slot') <= MaxSlots /\ OneSlotEach'
           /\ DOMAIN slot' = DOMAIN slot
           /\ \A j \in DOMAIN slot : slot'[j] = IF j = i THEN r ELSE slot[j]
           /\ \A j \in DOMAIN slot : slot'[j].thread = slot[j].thread
<1>1. slot' \in Seq(SlotRecord) /\ Len(slot') = Len(slot) /\ DOMAIN slot' = DOMAIN slot
  BY ExceptSeq
<1>2. \A j \in DOMAIN slot : slot'[j] = IF j = i THEN r ELSE slot[j]
  OBVIOUS
<1> QED
  BY <1>1, <1>2 DEF OneSlotEach

(* What a step does to a thread it does not concern.                       *)
Untouched(t) ==
    /\ state'[t] = state[t] /\ queueOf'[t] = queueOf[t]
    /\ t \in active' <=> t \in active
    /\ \A l \in List : In(q', t, l) <=> In(q, t, l)

(* A step that concerns at most the threads c and d.                       *)
LEMMA OthersMatch ==
    ASSUME Matches, NEW c, NEW d, MatchesOne(c)', MatchesOne(d)',
           \A t \in Thread \ {c, d} : Untouched(t)
    PROVE  Matches'
<1> SUFFICES ASSUME NEW t \in Thread \ {c, d} PROVE MatchesOne(t)'
  BY DEF Matches
<1>1. MatchesOne(t)
  BY DEF Matches
<1> QED
  BY <1>1, Constants DEF MatchesOne, Untouched

(* Moving the head of the wait list to the run queue.                      *)
LEMMA WakeInFamily ==
    ASSUME NEW f \in ListsOver(List), Good(List, f), NEW l \in {WaitQ}, f[l] # <<>>,
           ~ In(f, Head(f[l]), RunQ)
    PROVE  LET h == Head(f[l])
               g == [f EXCEPT ![l] = Tail(@), ![RunQ] = EnqueueByPriority(@, h)] IN
           /\ h \in Thread /\ In(f, h, l)
           /\ g \in ListsOver(List) /\ Good(List, g) /\ g[RunQ] # <<>>
           /\ \A k \in List, u \in Thread :
                 In(g, u, k) <=> \/ In(f, u, k) /\ ~ (u = h /\ k = l)
                                 \/ u = h /\ k = RunQ
<1>1. l \in List /\ RunQ \in List /\ l # RunQ
  BY Constants
<1> DEFINE h == Head(f[l])
           g == [f EXCEPT ![l] = Tail(@), ![RunQ] = EnqueueByPriority(@, h)]
<1>2. Moved(List, f, g, h, l, RunQ)
  BY <1>1, WakeInLists
<1> HIDE DEF g, h
<1>3. /\ h \in Thread /\ In(f, h, l)
      /\ g \in ListsOver(List) /\ Good(List, g) /\ g[RunQ] # <<>>
      /\ \A k \in List, u \in Thread :
            In(g, u, k) <=> \/ In(f, u, k) /\ ~ (u = h /\ k = l)
                            \/ u = h /\ k = RunQ
  BY <1>2 DEF Moved
<1> QED
  BY <1>3 DEF g, h

(* What waking the head of the wait list does to q.                        *)
LEMMA WakeIn ==
    ASSUME FiberInv, q[WaitQ] # <<>>
    PROVE  LET h == Head(q[WaitQ])
               g == [q EXCEPT ![WaitQ] = Tail(@), ![RunQ] = EnqueueByPriority(@, h)] IN
           /\ h \in Thread /\ state[h] = "WAITING" /\ In(q, h, WaitQ) /\ ~ In(q, h, RunQ)
           /\ h \in active
           /\ g \in ListsOver(List) /\ Good(List, g)
           /\ \A k \in List, u \in Thread :
                 In(g, u, k) <=> \/ In(q, u, k) /\ ~ (u = h /\ k = WaitQ)
                                 \/ u = h /\ k = RunQ
<1>1. q \in ListsOver(List) /\ Good(List, q)
  BY DEF FiberInv, Typed
<1> DEFINE h == Head(q[WaitQ])
<1>2. h \in Thread /\ In(q, h, WaitQ)
  BY <1>1, PopInLists, Constants
<1>3. state[h] = "WAITING" /\ ~ In(q, h, RunQ) /\ h \in active
  BY <1>2 DEF FiberInv, Matches, MatchesOne
<1> DEFINE g == [q EXCEPT ![WaitQ] = Tail(@), ![RunQ] = EnqueueByPriority(@, h)]
<1>4. /\ g \in ListsOver(List) /\ Good(List, g)
      /\ \A k \in List, u \in Thread :
            In(g, u, k) <=> \/ In(q, u, k) /\ ~ (u = h /\ k = WaitQ)
                            \/ u = h /\ k = RunQ
  BY <1>1, <1>3, WakeInFamily, Zenon
<1> QED
  BY <1>2, <1>3, <1>4

(* Linking a thread that is in no list.                                    *)
LEMMA EnqueueIn ==
    ASSUME NEW f \in ListsOver(List), Good(List, f), NEW l \in List, NEW t \in Thread,
           ~ In(f, t, l)
    PROVE  LET g == [f EXCEPT ![l] = EnqueueByPriority(@, t)] IN
           /\ g \in ListsOver(List) /\ Good(List, g) /\ g[l] # <<>>
           /\ \A k \in List, u \in Thread : In(g, u, k) <=> In(f, u, k) \/ (u = t /\ k = l)
<1> DEFINE g == [f EXCEPT ![l] = EnqueueByPriority(@, t)]
<1>1. Joined(List, f, g, t, l)
  BY EnqueueInLists
<1> HIDE DEF g
<1>2. /\ g \in ListsOver(List) /\ Good(List, g) /\ g[l] # <<>>
      /\ \A k \in List, u \in Thread : In(g, u, k) <=> In(f, u, k) \/ (u = t /\ k = l)
  BY <1>1 DEF Joined
<1> QED
  BY <1>2 DEF g

-----------------------------------------------------------------------------
THEOREM InitFiberInv == Init => FiberInv
<1> SUFFICES ASSUME Init PROVE FiberInv
  OBVIOUS
<1> USE Constants DEF Init
<1>1. q \in ListsOver(List) /\ q[RunQ] = <<Boot>> /\ q[WaitQ] = <<>>
  <2>1. \A l \in List : (IF l = RunQ THEN <<Boot>> ELSE <<>>) \in Seq(Thread)
    OBVIOUS
  <2> QED
    BY <2>1 DEF ListsOver, List
<1>2. Good(List, q)
  <2>1. IsInjective(<<Boot>>) /\ Ordered(<<Boot>>)
    BY DEF IsInjective, Ordered
  <2>2. IsInjective(<<>>) /\ Ordered(<<>>)
    BY DEF IsInjective, Ordered
  <2> QED
    BY <1>1, <2>1, <2>2 DEF Good, List
<1>3. \A l \in List, t \in Thread : In(q, t, l) <=> t = Boot /\ l = RunQ
  <2>1. Range(<<Boot>>) = {Boot} /\ Range(<<>>) = {}
    BY DEF Range
  <2> QED
    BY <1>1, <2>1 DEF In, List
<1>4. Matches
  BY <1>3 DEF Matches, MatchesOne
<1>5. slot \in Seq(SlotRecord) /\ Len(slot) = 0 /\ DOMAIN slot = {}
  OBVIOUS
<1>6. Typed
  <2>1. state \in [Thread -> States] /\ queueOf \in [Thread -> {RunQ, WaitQ, None}]
    BY DEF States
  <2>2. DOMAIN q = {RunQ, WaitQ} /\ active \subseteq Thread /\ Len(slot) <= MaxSlots
    BY <1>5
  <2>3. TypeOK
    BY <1>5, <2>1, <2>2 DEF TypeOK
  <2> QED
    BY <1>1, <1>5, <2>3 DEF Typed
<1>7. OneSlotEach /\ (\A i \in DOMAIN slot : SlotMatches(i))
  BY <1>5 DEF OneSlotEach
<1>8. \A t \in Thread : Placed(t)
  BY DEF Placed
<1>9. Executing
  BY <1>5 DEF Executing, OnFiber
<1> QED
  BY <1>1, <1>2, <1>4, <1>6, <1>7, <1>8, <1>9 DEF FiberInv

-----------------------------------------------------------------------------
(* One lemma per kind of step.                                             *)

(* The head of the run queue is popped and becomes RUNNING.                *)
LEMMA PopStep ==
    ASSUME FiberInv, q[RunQ] # <<>>, NEW h, h = Head(q[RunQ]),
           q' = [q EXCEPT ![RunQ] = Tail(@)],
           state' = [state EXCEPT ![h] = "RUNNING"], UNCHANGED <<queueOf, active>>
    PROVE  /\ h \in Thread /\ state[h] = "RUNNABLE"
           /\ q' \in ListsOver(List) /\ Good(List, q') /\ Matches'
           /\ state' \in [Thread -> States]
           /\ \A t \in Thread : state'[t] = IF t = h THEN "RUNNING" ELSE state[t]
           /\ \A t \in Thread : In(q', t, WaitQ) <=> In(q, t, WaitQ)
<1>1. q \in ListsOver(List) /\ Good(List, q) /\ Matches
  BY DEF FiberInv, Typed
<1>2. /\ h \in Thread /\ In(q, h, RunQ) /\ q' \in ListsOver(List) /\ Good(List, q')
      /\ \A k \in List, u \in Thread : In(q', u, k) <=> In(q, u, k) /\ ~ (u = h /\ k = RunQ)
  BY <1>1, PopInLists, Constants
<1>3. /\ state' \in [Thread -> States]
      /\ \A t \in Thread : state'[t] = IF t = h THEN "RUNNING" ELSE state[t]
  BY <1>2 DEF FiberInv, Typed, TypeOK, States
<1>4. MatchesOne(h)
  BY <1>1, <1>2 DEF Matches
<1>5. MatchesOne(h)'
  BY <1>2, <1>3, <1>4, Constants DEF MatchesOne
<1>6. \A t \in Thread \ {h, h} : Untouched(t)
  BY <1>2, <1>3 DEF Untouched
<1>7. Matches'
  BY <1>1, <1>5, <1>6, OthersMatch
<1> QED
  BY <1>2, <1>3, <1>4, <1>7, Constants DEF MatchesOne

(* SwitchToFiber finds a fiber for the thread: the one its live slot has,  *)
(* or a fresh one.                                                         *)
LEMMA SlotFound ==
    ASSUME FiberInv, NEW h \in Thread, state[h] = "RUNNABLE", SlotFor(h),
           slot' = SlotAfterSwitch(h)
    PROVE  \E i \in DOMAIN slot' :
              /\ slot' \in Seq(SlotRecord) /\ Len(slot') <= MaxSlots
              /\ slot'[i].thread = h /\ ~ slot'[i].finished /\ slot'[i].at # "gone"
              /\ \A j \in DOMAIN slot' \ {i} :
                    j \in DOMAIN slot /\ slot'[j] = slot[j] /\ slot[j].thread # h
              /\ \A j \in DOMAIN slot : j \in DOMAIN slot' /\ slot'[j].thread = slot[j].thread
              /\ i \in DOMAIN slot /\ Live(i) => h \notin remade
<1>1. /\ slot \in Seq(SlotRecord) /\ Len(slot) <= MaxSlots /\ OneSlotEach
      /\ \A i \in DOMAIN slot : SlotMatches(i)
  BY DEF FiberInv, Typed, TypeOK
<1>2. NewSlot(h) \in SlotRecord /\ NewSlot(h).thread = h /\ ~ NewSlot(h).finished
      /\ NewSlot(h).at = "game"
  BY DEF NewSlot, SlotRecord
<1>3. CASE SlotsOf(h) = {}
  <2> DEFINE i == Len(slot) + 1
  <2>1. slot' = Append(slot, NewSlot(h)) /\ Len(slot) + 1 <= MaxSlots
    BY <1>3, <1>1, Constants DEF SlotAfterSwitch, SlotFor
  <2>2. /\ slot' \in Seq(SlotRecord) /\ Len(slot') = Len(slot) + 1
        /\ slot'[i] = NewSlot(h)
        /\ \A j \in 1 .. Len(slot) : slot'[j] = slot[j]
    BY <2>1, <1>1, <1>2, AppendProperties
  <2>3. DOMAIN slot' = 1 .. Len(slot) + 1 /\ DOMAIN slot = 1 .. Len(slot) /\ Len(slot) \in Nat
    BY <2>2, <1>1
  <2>4. \A j \in DOMAIN slot : slot[j].thread # h
    BY <1>3 DEF SlotsOf
  <2>5. i \in DOMAIN slot' /\ i \notin DOMAIN slot
    BY <2>3
  <2> QED
    BY <1>2, <2>1, <2>2, <2>3, <2>4, <2>5
<1>4. CASE SlotsOf(h) # {}
  <2> DEFINE i == CHOOSE j \in SlotsOf(h) : TRUE
             r == IF Live(i) THEN [slot[i] EXCEPT !.polling = FALSE] ELSE NewSlot(h)
  <2>1. i \in DOMAIN slot /\ slot[i].thread = h
    BY <1>4 DEF SlotsOf
  <2>2. slot' = [slot EXCEPT ![i] = r]
    BY <1>4 DEF SlotAfterSwitch
  <2> HIDE DEF i
  <2>3. slot[i] \in SlotRecord
    BY <2>1, <1>1
  <2>4. r \in SlotRecord /\ r.thread = h /\ ~ r.finished /\ (Live(i) => r.at = slot[i].at)
        /\ (~ Live(i) => r.at = "game")
    BY <2>1, <2>3, <1>2 DEF Live, SlotRecord
  <2>5. /\ slot' \in Seq(SlotRecord) /\ Len(slot') <= MaxSlots
        /\ DOMAIN slot' = DOMAIN slot
        /\ \A j \in DOMAIN slot : slot'[j] = IF j = i THEN r ELSE slot[j]
        /\ \A j \in DOMAIN slot : slot'[j].thread = slot[j].thread
    <3> HIDE DEF r
    <3> QED
      BY <1>1, <2>1, <2>2, <2>4, SlotUpdate
  <2>6. Live(i) => slot[i].at # "gone" /\ h \notin remade
    BY <1>1, <2>1 DEF SlotMatches
  <2>7. \A j \in DOMAIN slot \ {i} : slot[j].thread # h
    BY <1>1, <2>1 DEF OneSlotEach
  <2>8. slot'[i].thread = h /\ ~ slot'[i].finished /\ slot'[i].at # "gone"
    BY <2>1, <2>4, <2>5, <2>6
  <2> HIDE DEF r
  <2> QED
    BY <2>1, <2>5, <2>6, <2>7, <2>8
<1> QED
  BY <1>3, <1>4

LEMMA DispatchStep == ASSUME FiberInv, Dispatch PROVE FiberInv'
<1> DEFINE h == Head(q[RunQ])
<1>1. /\ fiber = Sched /\ q[RunQ] # <<>>
      /\ q' = [q EXCEPT ![RunQ] = Tail(@)] /\ state' = [state EXCEPT ![h] = "RUNNING"]
      /\ mirror' = h /\ UNCHANGED <<queueOf, active>>
  BY DEF Dispatch
<1>2. SlotFor(h) /\ slot' = SlotAfterSwitch(h)
  BY DEF Dispatch
<1> DEFINE c == CHOOSE j \in DOMAIN slot' : slot'[j].thread = h
<1>3. slot'[c].at # "gone" =>
         /\ current' = h /\ fiber' = c
         /\ inPoll' = IF c \in DOMAIN slot /\ Live(c) /\ slot[c].polling THEN FALSE ELSE inPoll
         /\ remade' = IF c \in DOMAIN slot /\ Live(c) THEN remade ELSE remade \ {h}
  BY DEF Dispatch
<1> HIDE DEF h
<1>4. /\ h \in Thread /\ state[h] = "RUNNABLE"
      /\ q' \in ListsOver(List) /\ Good(List, q') /\ Matches'
      /\ state' \in [Thread -> States]
      /\ \A t \in Thread : state'[t] = IF t = h THEN "RUNNING" ELSE state[t]
      /\ \A t \in Thread : In(q', t, WaitQ) <=> In(q, t, WaitQ)
  BY <1>1, PopStep DEF h
<1>5. PICK i \in DOMAIN slot' :
         /\ slot' \in Seq(SlotRecord) /\ Len(slot') <= MaxSlots
         /\ slot'[i].thread = h /\ ~ slot'[i].finished /\ slot'[i].at # "gone"
         /\ \A j \in DOMAIN slot' \ {i} :
               j \in DOMAIN slot /\ slot'[j] = slot[j] /\ slot[j].thread # h
         /\ \A j \in DOMAIN slot : j \in DOMAIN slot' /\ slot'[j].thread = slot[j].thread
         /\ (i \in DOMAIN slot /\ Live(i) => h \notin remade)
  BY <1>2, <1>4, SlotFound
<1>6. c = i
  BY <1>5
<1> HIDE DEF c
<1>7. /\ current' = h /\ fiber' = i /\ inPoll' \in BOOLEAN
      /\ remade' \subseteq remade /\ h \notin remade'
  <2>1. inPoll \in BOOLEAN
    BY DEF FiberInv, Typed, TypeOK
  <2> QED
    BY <1>3, <1>5, <1>6, <2>1
<1>8. Typed'
  <2>1. \A j \in DOMAIN slot' : slot'[j] \in SlotRecord
    BY <1>5
  <2>2. TypeOK'
    BY <1>1, <1>4, <1>5, <1>7, <2>1 DEF FiberInv, Typed, TypeOK, ListsOver, List, SlotRecord
  <2> QED
    BY <1>4, <1>5, <2>2 DEF Typed
<1>9. OneSlotEach'
  BY <1>5 DEF OneSlotEach, FiberInv
<1>10. ASSUME NEW j \in DOMAIN slot' PROVE SlotMatches(j)'
  <2>1. CASE j = i
    BY <2>1, <1>1, <1>4, <1>5, <1>7 DEF SlotMatches, Live, Matches, MatchesOne
  <2>2. CASE j # i
    <3>1. /\ j \in DOMAIN slot /\ slot'[j] = slot[j] /\ slot[j].thread # h
          /\ SlotMatches(j) /\ slot[j].thread \in Thread
      BY <2>2, <1>5 DEF FiberInv, Typed, TypeOK
    <3> QED
      BY <3>1, <1>1, <1>4, <1>7 DEF SlotMatches, Live
  <2> QED
    BY <2>1, <2>2
<1>11. ASSUME NEW t \in Thread PROVE Placed(t)'
  <2>1. CASE t = h
    BY <2>1, <1>7 DEF Placed
  <2>2. CASE t # h
    <3>1. current = None /\ t # None /\ fiber # Main /\ Placed(t)
      BY <1>1, Constants DEF FiberInv, Executing, OnFiber, Typed
    <3>2. SUFFICES ASSUME state[t] \in {"RUNNING", "WAITING"}, ~ In(q, t, WaitQ)
                   PROVE  \E j \in SlotsOf(t)' : slot'[j].at = "gone"
      BY <2>2, <1>4 DEF Placed
    <3>3. PICK j \in SlotsOf(t) : slot[j].at = "gone"
      BY <3>1, <3>2 DEF Placed
    <3>4. j \in DOMAIN slot /\ slot[j].thread = t
      BY DEF SlotsOf
    <3>5. j \in DOMAIN slot' /\ j # i
      BY <2>2, <3>4, <1>5
    <3> QED
      BY <3>3, <3>4, <3>5, <1>5 DEF SlotsOf
  <2> QED
    BY <2>1, <2>2
<1>12. Executing'
  BY <1>4, <1>5, <1>7 DEF Executing, OnFiber, Live, Me
<1> QED
  BY <1>4, <1>8, <1>9, <1>10, <1>11, <1>12 DEF FiberInv

LEMMA ExhaustSlotsStep == ASSUME FiberInv, ExhaustSlots PROVE FiberInv'
<1> DEFINE h == Head(q[RunQ])
<1>1. /\ fiber = Sched /\ q[RunQ] # <<>> /\ fiber' = Main
      /\ q' = [q EXCEPT ![RunQ] = Tail(@)] /\ state' = [state EXCEPT ![h] = "RUNNING"]
      /\ mirror' = h /\ UNCHANGED <<queueOf, active, slot, current, inPoll, remade>>
  BY DEF ExhaustSlots
<1> HIDE DEF h
<1>2. /\ h \in Thread /\ state[h] = "RUNNABLE"
      /\ q' \in ListsOver(List) /\ Good(List, q') /\ Matches'
      /\ state' \in [Thread -> States]
      /\ \A t \in Thread : state'[t] = IF t = h THEN "RUNNING" ELSE state[t]
      /\ \A t \in Thread : In(q', t, WaitQ) <=> In(q, t, WaitQ)
  BY <1>1, PopStep DEF h
<1>3. Typed'
  <2>1. TypeOK'
    BY <1>1, <1>2 DEF FiberInv, Typed, TypeOK, ListsOver, List
  <2> QED
    BY <1>1, <1>2, <2>1 DEF FiberInv, Typed
<1>4. OneSlotEach'
  BY <1>1 DEF FiberInv, OneSlotEach
<1>5. ASSUME NEW i \in DOMAIN slot' PROVE SlotMatches(i)'
  <2>1. i \in DOMAIN slot /\ SlotMatches(i) /\ slot[i].thread \in Thread
    BY <1>1 DEF FiberInv, Typed, TypeOK
  <2> QED
    BY <2>1, <1>1, <1>2 DEF SlotMatches, Live
<1>6. \A t \in Thread : Placed(t)'
  BY <1>1 DEF Placed
<1>7. Executing'
  <2>1. ~ OnFiber /\ ~ OnFiber' /\ current = None
    <3>1. \A n \in DOMAIN slot : n \in Nat
      BY DEF FiberInv, Typed
    <3>2. ~ OnFiber /\ ~ OnFiber'
      BY <1>1, <3>1, Constants DEF OnFiber
    <3> QED
      BY <3>2 DEF FiberInv, Executing
  <2> QED
    BY <2>1, <1>1 DEF Executing
<1> QED
  BY <1>2, <1>3, <1>4, <1>5, <1>6, <1>7 DEF FiberInv

(* Steps that leave the fibers alone: the lists change, and the state of   *)
(* every thread that is executing, gone or finished stays as it is.        *)
LEMMA ListStep ==
    ASSUME FiberInv, UNCHANGED <<mirror, slot, current, fiber, inPoll>>,
           q' \in ListsOver(List), Good(List, q'), Matches',
           state' \in [Thread -> States], queueOf' \in [Thread -> {RunQ, WaitQ, None}],
           active \subseteq active', active' \subseteq Thread,
           remade' \subseteq Thread,
           \A i \in DOMAIN slot : Live(i) => slot[i].thread \notin remade' \ remade,
           NEW h \in Thread, state'[h] = "RUNNABLE", h # current,
           state[h] = "STOPPED" \/ In(q, h, WaitQ), ~ In(q', h, WaitQ),
           \A t \in Thread \ {h} : /\ state'[t] = state[t]
                                   /\ In(q', t, WaitQ) <=> In(q, t, WaitQ)
    PROVE  FiberInv'
<1>1. Typed'
  <2>1. TypeOK'
    BY DEF FiberInv, Typed, TypeOK, ListsOver, List
  <2> QED
    BY <2>1 DEF FiberInv, Typed
<1>2. OneSlotEach'
  BY DEF FiberInv, OneSlotEach
<1>3. ASSUME NEW i \in DOMAIN slot' PROVE SlotMatches(i)'
  <2>1. i \in DOMAIN slot /\ SlotMatches(i) /\ slot[i].thread \in Thread
    BY DEF FiberInv, Typed, TypeOK
  <2>2. MatchesOne(slot[i].thread)
    BY <2>1 DEF FiberInv, Matches
  <2> QED
    BY <2>1, <2>2 DEF SlotMatches, Live, MatchesOne
<1>4. ASSUME NEW t \in Thread PROVE Placed(t)'
  <2>1. Placed(t)
    BY DEF FiberInv
  <2>2. SlotsOf(t)' = SlotsOf(t)
    BY DEF SlotsOf
  <2> QED
    BY <2>1, <2>2 DEF Placed
<1>5. Executing'
  <2>1. OnFiber' = OnFiber /\ Me' = Me
    BY DEF OnFiber, Me
  <2>2. CASE OnFiber
    <3>1. /\ Me \in Thread /\ current = Me /\ Live(fiber) /\ slot[fiber].at # "gone"
          /\ (state[Me] = "RUNNING" \/ (slot[fiber].at = "parking" /\ In(q, Me, WaitQ)))
      BY <2>2, ThreadOnFiber
    <3>2. state'[Me] = state[Me] /\ (In(q', Me, WaitQ) <=> In(q, Me, WaitQ))
      BY <3>1
    <3> QED
      BY <2>1, <2>2, <3>1, <3>2 DEF Executing, Live
  <2>3. CASE ~ OnFiber
    BY <2>1, <2>3 DEF Executing, FiberInv
  <2> QED
    BY <2>2, <2>3
<1> QED
  BY <1>1, <1>2, <1>3, <1>4, <1>5 DEF FiberInv

(* enqueue_thread on the head of the wait list.                            *)
LEMMA WakeHeadStep ==
    ASSUME FiberInv, q[WaitQ] # <<>>, WakeHead, UNCHANGED <<active, hostVars, remade>>,
           Head(q[WaitQ]) # current
    PROVE  FiberInv'
<1>0. PICK h : h = Head(q[WaitQ])
  OBVIOUS
<1> DEFINE g == [q EXCEPT ![WaitQ] = Tail(@), ![RunQ] = EnqueueByPriority(@, h)]
<1>1. /\ h \in Thread /\ state[h] = "WAITING" /\ In(q, h, WaitQ) /\ ~ In(q, h, RunQ)
      /\ h \in active
      /\ g \in ListsOver(List) /\ Good(List, g)
      /\ \A k \in List, u \in Thread :
            In(g, u, k) <=> \/ In(q, u, k) /\ ~ (u = h /\ k = WaitQ)
                            \/ u = h /\ k = RunQ
  BY <1>0, WakeIn
<1>2. q' = g /\ state' = [state EXCEPT ![h] = "RUNNABLE"]
      /\ queueOf' = [queueOf EXCEPT ![h] = RunQ] /\ active' = active
  BY <1>0 DEF WakeHead
<1>3. h # current
  BY <1>0
<1> HIDE DEF g
<1>4. /\ state' \in [Thread -> States] /\ queueOf' \in [Thread -> {RunQ, WaitQ, None}]
      /\ \A t \in Thread : state'[t] = IF t = h THEN "RUNNABLE" ELSE state[t]
      /\ \A t \in Thread : queueOf'[t] = IF t = h THEN RunQ ELSE queueOf[t]
  BY <1>1, <1>2 DEF FiberInv, Typed, TypeOK, States
<1>5. MatchesOne(h)'
  <2>1. /\ state'[h] = "RUNNABLE" /\ queueOf'[h] = RunQ /\ h \in active'
        /\ \A l \in List : In(q', h, l) <=> l = RunQ
    BY <1>1, <1>2, <1>4, Constants DEF List
  <2> QED
    BY <2>1, Constants DEF MatchesOne
<1>6. Matches'
  <2>1. \A t \in Thread \ {h, h} : Untouched(t)
    BY <1>1, <1>2, <1>4 DEF Untouched
  <2> QED
    BY <1>5, <2>1, OthersMatch DEF FiberInv
<1>7. active \subseteq Thread /\ remade \subseteq Thread
  BY DEF FiberInv, Typed, TypeOK
<1> QED
  BY <1>1, <1>2, <1>3, <1>4, <1>6, <1>7, Constants, ListStep DEF hostVars

LEMMA IdleDeliverStep == ASSUME FiberInv, IdleDeliver PROVE FiberInv'
<1>1. current = None
  <2>1. \A n \in DOMAIN slot : n \in Nat
    BY DEF FiberInv, Typed
  <2> QED
    BY <2>1, Constants DEF IdleDeliver, OnFiber, Executing, FiberInv
<1>2. Head(q[WaitQ]) \in Thread
  BY WakeIn DEF IdleDeliver
<1> QED
  BY <1>1, <1>2, WakeHeadStep, Constants DEF IdleDeliver

LEMMA SendStep == ASSUME FiberInv, Send PROVE FiberInv'
<1>1. InGame /\ q[WaitQ] # <<>> /\ WakeHead /\ UNCHANGED <<active, hostVars, remade>>
  BY DEF Send
<1>2. state[current] = "RUNNING"
  BY <1>1, ThreadOnFiber, ThreadInGame DEF InGame
<1>3. state[Head(q[WaitQ])] = "WAITING"
  BY <1>1, WakeIn
<1> QED
  BY <1>1, <1>2, <1>3, WakeHeadStep

(* osCreateThread and osStartThread.                                       *)
LEMMA CreateAndStartStep ==
    ASSUME FiberInv, NEW t \in Thread, CreateAndStart(t) PROVE FiberInv'
<1>1. /\ InGame /\ t \notin active /\ active' = active \cup {t}
      /\ state' = [state EXCEPT ![t] = "RUNNABLE"]
      /\ queueOf' = [queueOf EXCEPT ![t] = RunQ]
      /\ q' = [q EXCEPT ![RunQ] = EnqueueByPriority(@, t)]
      /\ remade' \in {remade, remade \cup {t}}
      /\ UNCHANGED <<mirror, slot, current, fiber, inPoll>>
  BY DEF CreateAndStart, hostVars
<1>2. MatchesOne(t) /\ state[t] = "STOPPED" /\ ~ In(q, t, RunQ) /\ ~ In(q, t, WaitQ)
  BY <1>1 DEF FiberInv, Matches, MatchesOne
<1>3. /\ q' \in ListsOver(List) /\ Good(List, q')
      /\ \A k \in List, u \in Thread : In(q', u, k) <=> In(q, u, k) \/ (u = t /\ k = RunQ)
  BY <1>1, <1>2, EnqueueIn, Constants DEF FiberInv, Typed
<1>4. /\ state' \in [Thread -> States] /\ queueOf' \in [Thread -> {RunQ, WaitQ, None}]
      /\ \A u \in Thread : state'[u] = IF u = t THEN "RUNNABLE" ELSE state[u]
      /\ \A u \in Thread : queueOf'[u] = IF u = t THEN RunQ ELSE queueOf[u]
  BY <1>1 DEF FiberInv, Typed, TypeOK, States
<1>5. MatchesOne(t)'
  <2>1. /\ state'[t] = "RUNNABLE" /\ queueOf'[t] = RunQ /\ t \in active'
        /\ \A l \in List : In(q', t, l) <=> l = RunQ
    BY <1>1, <1>2, <1>3, <1>4, Constants DEF List
  <2> QED
    BY <2>1, Constants DEF MatchesOne
<1>6. Matches'
  <2>1. \A u \in Thread \ {t, t} : Untouched(u)
    BY <1>1, <1>3, <1>4 DEF Untouched
  <2> QED
    BY <1>5, <2>1, OthersMatch DEF FiberInv
<1>7. active \subseteq Thread /\ remade \subseteq Thread
  BY DEF FiberInv, Typed, TypeOK
<1>8. \A i \in DOMAIN slot : Live(i) => slot[i].thread \notin remade' \ remade
  BY <1>1 DEF FiberInv, SlotMatches
<1>9. t # current
  BY <1>1, ThreadOnFiber DEF InGame
<1>10. ~ In(q', t, WaitQ)
  BY <1>2, <1>3, Constants
<1>11. /\ state'[t] = "RUNNABLE" /\ active \subseteq active' /\ active' \subseteq Thread
       /\ remade' \subseteq Thread
       /\ \A u \in Thread \ {t} : /\ state'[u] = state[u]
                                  /\ In(q', u, WaitQ) <=> In(q, u, WaitQ)
  BY <1>1, <1>3, <1>4, <1>7, Constants
<1> QED
  BY <1>1, <1>2, <1>3, <1>4, <1>6, <1>8, <1>9, <1>10, <1>11, ListStep

(* Steps that change the slot of the executing fiber, the state of its     *)
(* thread m and that of a thread h they wake.                              *)
LEMMA OwnSlotStep ==
    ASSUME FiberInv, OnFiber, NEW m, m = Me,
           NEW r \in SlotRecord, r.thread = m, slot' = [slot EXCEPT ![fiber] = r],
           q' \in ListsOver(List), Good(List, q'), Matches',
           state' \in [Thread -> States], queueOf' \in [Thread -> {RunQ, WaitQ, None}],
           active' = active, remade' = remade,
           mirror' \in Thread \cup {None}, inPoll' \in BOOLEAN,
           NEW h \in Thread, h = m \/ (In(q, h, WaitQ) /\ state'[h] = "RUNNABLE"),
           \A t \in Thread \ {m, h} : /\ state'[t] = state[t]
                                      /\ In(q', t, WaitQ) <=> In(q, t, WaitQ),
           ~ r.finished /\ r.at = "gone" => state'[m] = "WAITING" /\ ~ In(q', m, WaitQ),
           \/ fiber' = Sched /\ current' = None
              /\ (state'[m] \in {"RUNNING", "WAITING"} => In(q', m, WaitQ) \/ r.at = "gone")
           \/ fiber' = fiber /\ current' = current /\ r.at = "parking" /\ ~ r.finished
              /\ In(q', m, WaitQ)
    PROVE  FiberInv'
<1>1. /\ m \in Thread /\ fiber \in DOMAIN slot /\ current = m /\ Live(fiber)
      /\ fiber # Main /\ fiber # Sched /\ slot[fiber].thread = m
      /\ m \notin remade /\ m \in active
  BY ThreadOnFiber DEF Me
<1>2. /\ slot' \in Seq(SlotRecord) /\ Len(slot') <= MaxSlots /\ OneSlotEach'
      /\ DOMAIN slot' = DOMAIN slot
      /\ \A j \in DOMAIN slot : slot'[j] = IF j = fiber THEN r ELSE slot[j]
      /\ \A j \in DOMAIN slot : slot'[j].thread = slot[j].thread
  <2>1. slot \in Seq(SlotRecord) /\ Len(slot) <= MaxSlots /\ OneSlotEach
    BY DEF FiberInv, Typed, TypeOK
  <2> QED
    BY <1>1, <2>1, SlotUpdate
<1>3. Typed'
  <2>1. \A j \in DOMAIN slot' : slot'[j] \in SlotRecord
    BY <1>2
  <2>2. fiber' \in {Main, Sched} \cup DOMAIN slot' /\ current' \in Thread \cup {None}
    BY <1>1, <1>2
  <2>3. TypeOK'
    BY <1>2, <2>1, <2>2 DEF FiberInv, Typed, TypeOK, ListsOver, List, SlotRecord
  <2> QED
    BY <1>2, <2>3 DEF Typed
<1>4. ASSUME NEW i \in DOMAIN slot' PROVE SlotMatches(i)'
  <2>1. CASE i = fiber
    BY <2>1, <1>1, <1>2 DEF SlotMatches, Live
  <2>2. CASE i # fiber
    <3>1. i \in DOMAIN slot /\ slot'[i] = slot[i] /\ slot[i].thread \in Thread /\ SlotMatches(i)
      BY <2>2, <1>2 DEF FiberInv, Typed, TypeOK
    <3>2. slot[i].thread # m
      BY <2>2, <3>1, <1>1 DEF FiberInv, OneSlotEach
    <3> QED
      BY <3>1, <3>2 DEF SlotMatches, Live
  <2> QED
    BY <2>1, <2>2
<1>5. ASSUME NEW t \in Thread PROVE Placed(t)'
  <2>1. CASE t = m
    <3>1. fiber \in DOMAIN slot' /\ slot'[fiber].thread = m /\ slot'[fiber] = r
      BY <1>1, <1>2
    <3>2. ASSUME r.at = "gone" PROVE \E i \in SlotsOf(m)' : slot'[i].at = "gone"
      BY <3>1, <3>2 DEF SlotsOf
    <3> QED
      BY <2>1, <3>2 DEF Placed
  <2>2. CASE t # m /\ t = h
    BY <2>2 DEF Placed
  <2>3. CASE t # m /\ t # h
    <3>1. Placed(t) /\ fiber # Main /\ t # current
      BY <2>3, <1>1 DEF FiberInv
    <3>2. SUFFICES ASSUME state[t] \in {"RUNNING", "WAITING"}, ~ In(q, t, WaitQ)
                   PROVE  \E j \in SlotsOf(t)' : slot'[j].at = "gone"
      BY <2>3 DEF Placed
    <3>3. PICK j \in SlotsOf(t) : slot[j].at = "gone"
      BY <3>1, <3>2 DEF Placed
    <3>4. j \in DOMAIN slot /\ slot[j].thread = t
      BY DEF SlotsOf
    <3>5. j \in DOMAIN slot' /\ slot'[j] = slot[j]
      BY <2>3, <3>4, <1>1, <1>2
    <3> QED
      BY <3>3, <3>4, <3>5 DEF SlotsOf
  <2> QED
    BY <2>1, <2>2, <2>3
<1>6. Executing'
  <2>1. CASE fiber' = Sched /\ current' = None
    <3>1. \A n \in DOMAIN slot' : n \in Nat
      BY <1>2
    <3> QED
      BY <2>1, <3>1, Constants DEF Executing, OnFiber
  <2>2. CASE fiber' = fiber /\ current' = current /\ r.at = "parking" /\ ~ r.finished
             /\ In(q', m, WaitQ)
    <3>1. OnFiber' /\ Me' = m /\ slot'[fiber'] = r
      BY <2>2, <1>1, <1>2 DEF OnFiber, Me
    <3> QED
      BY <2>2, <3>1, <1>1 DEF Executing, Live
  <2> QED
    BY <2>1, <2>2
<1> QED
  BY <1>2, <1>3, <1>4, <1>5, <1>6 DEF FiberInv

(* The thread of the executing fiber, linked or not, when it is RUNNING.   *)
LEMMA RequeueIn ==
    ASSUME FiberInv, OnFiber, NEW m, m = Me, state[m] = "RUNNING",
           q' = [q EXCEPT ![RunQ] = EnqueueByPriority(@, m)],
           state' = [state EXCEPT ![m] = "RUNNABLE"],
           queueOf' = [queueOf EXCEPT ![m] = RunQ], active' = active
    PROVE  /\ q' \in ListsOver(List) /\ Good(List, q') /\ Matches'
           /\ state' \in [Thread -> States] /\ queueOf' \in [Thread -> {RunQ, WaitQ, None}]
           /\ state'[m] = "RUNNABLE"
           /\ \A t \in Thread \ {m} : /\ state'[t] = state[t]
                                      /\ In(q', t, WaitQ) <=> In(q, t, WaitQ)
<1>1. m \in Thread /\ ~ In(q, m, RunQ) /\ ~ In(q, m, WaitQ) /\ m \in active
  BY ThreadOnFiber
<1>2. /\ q' \in ListsOver(List) /\ Good(List, q')
      /\ \A k \in List, u \in Thread : In(q', u, k) <=> In(q, u, k) \/ (u = m /\ k = RunQ)
  BY <1>1, EnqueueIn, Constants DEF FiberInv, Typed
<1>3. /\ state' \in [Thread -> States] /\ queueOf' \in [Thread -> {RunQ, WaitQ, None}]
      /\ \A u \in Thread : state'[u] = IF u = m THEN "RUNNABLE" ELSE state[u]
      /\ \A u \in Thread : queueOf'[u] = IF u = m THEN RunQ ELSE queueOf[u]
  BY <1>1 DEF FiberInv, Typed, TypeOK, States
<1>4. MatchesOne(m)'
  <2>1. /\ state'[m] = "RUNNABLE" /\ queueOf'[m] = RunQ /\ m \in active'
        /\ \A l \in List : In(q', m, l) <=> l = RunQ
    BY <1>1, <1>2, <1>3, Constants DEF List
  <2> QED
    BY <2>1, Constants DEF MatchesOne
<1>5. Matches'
  <2>1. \A u \in Thread \ {m, m} : Untouched(u)
    BY <1>2, <1>3 DEF Untouched
  <2> QED
    BY <1>4, <2>1, OthersMatch DEF FiberInv
<1> QED
  BY <1>1, <1>2, <1>3, <1>5, Constants

(* The lists when a step leaves them alone.                                *)
LEMMA ListsAlone ==
    ASSUME FiberInv, UNCHANGED <<state, queueOf, q, active>>
    PROVE  /\ q' \in ListsOver(List) /\ Good(List, q') /\ Matches'
           /\ state' \in [Thread -> States] /\ queueOf' \in [Thread -> {RunQ, WaitQ, None}]
<1>1. q \in ListsOver(List) /\ Good(List, q) /\ Matches
      /\ state \in [Thread -> States] /\ queueOf \in [Thread -> {RunQ, WaitQ, None}]
  BY DEF FiberInv, Typed, TypeOK
<1>2. Matches'
  BY <1>1 DEF Matches, MatchesOne
<1> QED
  BY <1>1, <1>2

LEMMA PollStep == ASSUME FiberInv, Poll PROVE FiberInv'
<1>0. PICK m : m = Me
  OBVIOUS
<1> DEFINE r == [slot[fiber] EXCEPT !.polling = TRUE]
<1>1. /\ OnFiber /\ mirror' = m /\ slot' = [slot EXCEPT ![fiber] = r] /\ inPoll' = TRUE
      /\ fiber' = Sched /\ current' = None /\ active' = active /\ remade' = remade
  BY <1>0 DEF Poll, ToSched
<1>2. /\ m \in Thread /\ slot[fiber] \in SlotRecord /\ slot[fiber].at # "gone"
      /\ slot[fiber].thread = m
      /\ (state[m] # "RUNNING" => In(q, m, WaitQ))
  BY <1>0, <1>1, ThreadOnFiber DEF Me
<1>3. r \in SlotRecord /\ r.thread = m /\ r.at # "gone"
  BY <1>2 DEF SlotRecord
<1> HIDE DEF r
<1>4. CASE state[m] = "RUNNING"
  <2>1. /\ q' = [q EXCEPT ![RunQ] = EnqueueByPriority(@, m)]
        /\ state' = [state EXCEPT ![m] = "RUNNABLE"]
        /\ queueOf' = [queueOf EXCEPT ![m] = RunQ]
    BY <1>0, <1>4 DEF Poll, PreemptRequeues
  <2>2. /\ q' \in ListsOver(List) /\ Good(List, q') /\ Matches'
        /\ state' \in [Thread -> States] /\ queueOf' \in [Thread -> {RunQ, WaitQ, None}]
        /\ state'[m] = "RUNNABLE"
        /\ \A t \in Thread \ {m} : /\ state'[t] = state[t]
                                   /\ In(q', t, WaitQ) <=> In(q, t, WaitQ)
    BY <1>0, <1>1, <1>4, <2>1, RequeueIn
  <2> QED
    BY <1>0, <1>1, <1>2, <1>3, <2>2, OwnSlotStep
<1>5. CASE state[m] # "RUNNING"
  <2>1. UNCHANGED <<state, queueOf, q, active>>
    BY <1>0, <1>5 DEF Poll, PreemptRequeues
  <2>2. /\ q' \in ListsOver(List) /\ Good(List, q') /\ Matches'
        /\ state' \in [Thread -> States] /\ queueOf' \in [Thread -> {RunQ, WaitQ, None}]
    BY <2>1, ListsAlone
  <2>3. In(q', m, WaitQ)
    BY <1>2, <1>5, <2>1
  <2> QED
    BY <1>0, <1>1, <1>2, <1>3, <2>1, <2>2, <2>3, OwnSlotStep
<1> QED
  BY <1>4, <1>5

LEMMA PollWakesStep == ASSUME FiberInv, PollWakes PROVE FiberInv'
<1>0. PICK m, h : m = Me /\ h = Head(q[WaitQ])
  OBVIOUS
<1> DEFINE r == [slot[fiber] EXCEPT !.polling = TRUE]
           woken == [q EXCEPT ![WaitQ] = Tail(@), ![RunQ] = EnqueueByPriority(@, h)]
           concerned == {h} \cup (IF state[m] = "RUNNING" THEN {m} ELSE {})
<1>1. /\ OnFiber /\ mirror' = m /\ slot' = [slot EXCEPT ![fiber] = r] /\ inPoll' = TRUE
      /\ fiber' = Sched /\ current' = None /\ active' = active /\ remade' = remade
      /\ q[WaitQ] # <<>>
  BY <1>0 DEF PollWakes, ToSched
<1>2. /\ m \in Thread /\ slot[fiber] \in SlotRecord /\ slot[fiber].at # "gone"
      /\ slot[fiber].thread = m /\ ~ In(q, m, RunQ) /\ m \in active
      /\ (state[m] = "RUNNING" => ~ In(q, m, WaitQ))
      /\ (state[m] # "RUNNING" => In(q, m, WaitQ))
  BY <1>0, <1>1, ThreadOnFiber DEF Me
<1>3. r \in SlotRecord /\ r.thread = m /\ r.at # "gone"
  BY <1>2 DEF SlotRecord
<1>4. /\ h \in Thread /\ state[h] = "WAITING" /\ In(q, h, WaitQ) /\ ~ In(q, h, RunQ)
      /\ h \in active
      /\ woken \in ListsOver(List) /\ Good(List, woken)
      /\ \A k \in List, u \in Thread :
            In(woken, u, k) <=> \/ In(q, u, k) /\ ~ (u = h /\ k = WaitQ)
                                \/ u = h /\ k = RunQ
  BY <1>0, <1>1, WakeIn
<1>5. /\ state' = [u \in Thread |-> IF u \in concerned THEN "RUNNABLE" ELSE state[u]]
      /\ queueOf' = [u \in Thread |-> IF u \in concerned THEN RunQ ELSE queueOf[u]]
  BY <1>0 DEF PollWakes
<1>6. q' = IF state[m] = "RUNNING" THEN [woken EXCEPT ![RunQ] = EnqueueByPriority(@, m)]
           ELSE woken
  BY <1>0 DEF PollWakes
<1> HIDE DEF r, woken
<1>7. /\ q' \in ListsOver(List) /\ Good(List, q')
      /\ \A k \in List, u \in Thread :
            In(q', u, k) <=> IF u \in concerned THEN k = RunQ ELSE In(q, u, k)
  <2>1. CASE state[m] = "RUNNING"
    <3>1. ~ In(woken, m, RunQ) /\ m # h
      BY <2>1, <1>2, <1>4, Constants
    <3>2. /\ q' \in ListsOver(List) /\ Good(List, q')
          /\ \A k \in List, u \in Thread :
                In(q', u, k) <=> In(woken, u, k) \/ (u = m /\ k = RunQ)
      <4> DEFINE g == [woken EXCEPT ![RunQ] = EnqueueByPriority(@, m)]
      <4>1. q' = g
        BY <2>1, <1>6
      <4>2. /\ woken \in ListsOver(List) /\ Good(List, woken)
            /\ RunQ \in List /\ m \in Thread /\ ~ In(woken, m, RunQ)
        BY <3>1, <1>2, <1>4, Constants
      <4>3. /\ g \in ListsOver(List) /\ Good(List, g)
            /\ \A k \in List, u \in Thread :
                  In(g, u, k) <=> In(woken, u, k) \/ (u = m /\ k = RunQ)
        BY <4>2, EnqueueIn, Zenon
      <4> HIDE DEF g
      <4> QED
        BY <4>1, <4>3
    <3> QED
      BY <2>1, <3>1, <3>2, <1>2, <1>4, Constants DEF List
  <2>2. CASE state[m] # "RUNNING"
    BY <2>2, <1>4, <1>6, Constants DEF List
  <2> QED
    BY <2>1, <2>2
<1>8. /\ state' \in [Thread -> States] /\ queueOf' \in [Thread -> {RunQ, WaitQ, None}]
      /\ \A u \in Thread : state'[u] = IF u \in concerned THEN "RUNNABLE" ELSE state[u]
      /\ \A u \in Thread : queueOf'[u] = IF u \in concerned THEN RunQ ELSE queueOf[u]
      /\ concerned \subseteq active /\ concerned \subseteq {m, h}
      /\ h \in concerned /\ (state[m] = "RUNNING" => m \in concerned)
  BY <1>2, <1>4, <1>5 DEF FiberInv, Typed, TypeOK, States
<1> HIDE DEF concerned
<1>9. Matches'
  <2> SUFFICES ASSUME NEW u \in Thread PROVE MatchesOne(u)'
    BY DEF Matches
  <2>1. CASE u \in concerned
    <3>1. /\ state'[u] = "RUNNABLE" /\ queueOf'[u] = RunQ /\ u \in active'
          /\ \A l \in List : In(q', u, l) <=> l = RunQ
      BY <2>1, <1>1, <1>7, <1>8
    <3> QED
      BY <3>1, Constants DEF MatchesOne
  <2>2. CASE u \notin concerned
    <3>1. /\ state'[u] = state[u] /\ queueOf'[u] = queueOf[u]
          /\ \A l \in List : In(q', u, l) <=> In(q, u, l)
      BY <2>2, <1>7, <1>8
    <3> QED
      BY <3>1, <1>1, Constants DEF FiberInv, Matches, MatchesOne
  <2> QED
    BY <2>1, <2>2
<1>10. state'[h] = "RUNNABLE" /\ (state'[m] \in {"RUNNING", "WAITING"} => In(q', m, WaitQ))
  <2>1. CASE m \in concerned
    BY <2>1, <1>2, <1>4, <1>8
  <2>2. CASE m \notin concerned
    BY <2>2, <1>2, <1>4, <1>7, <1>8, Constants
  <2> QED
    BY <2>1, <2>2
<1>11. \A t \in Thread \ {m, h} : /\ state'[t] = state[t]
                                  /\ In(q', t, WaitQ) <=> In(q, t, WaitQ)
  BY <1>7, <1>8, Constants
<1>12. mirror' \in Thread \cup {None} /\ inPoll' \in BOOLEAN
  BY <1>1, <1>2
<1>13. /\ OnFiber /\ m = Me /\ r \in SlotRecord /\ r.thread = m
       /\ slot' = [slot EXCEPT ![fiber] = r]
       /\ q' \in ListsOver(List) /\ Good(List, q') /\ Matches'
       /\ state' \in [Thread -> States] /\ queueOf' \in [Thread -> {RunQ, WaitQ, None}]
       /\ active' = active /\ remade' = remade
  BY <1>0, <1>1, <1>3, <1>7, <1>8, <1>9
<1>14. /\ h = m \/ (In(q, h, WaitQ) /\ state'[h] = "RUNNABLE")
       /\ ~ r.finished /\ r.at = "gone" => state'[m] = "WAITING" /\ ~ In(q', m, WaitQ)
       /\ \/ /\ fiber' = Sched /\ current' = None
             /\ state'[m] \in {"RUNNING", "WAITING"} => In(q', m, WaitQ) \/ r.at = "gone"
          \/ /\ fiber' = fiber /\ current' = current /\ r.at = "parking" /\ ~ r.finished
             /\ In(q', m, WaitQ)
  BY <1>1, <1>3, <1>4, <1>10
<1> HIDE DEF r
<1> QED
  BY <1>4, <1>11, <1>12, <1>13, <1>14, OwnSlotStep, Zenon

(* osRecvMesg puts its thread in the wait list; the fiber goes on.         *)
LEMMA ParkStep == ASSUME FiberInv, Park PROVE FiberInv'
<1>0. PICK m : m = Me
  OBVIOUS
<1> DEFINE r == [slot[fiber] EXCEPT !.at = "parking"]
<1>1. /\ InGame /\ state' = [state EXCEPT ![m] = "WAITING"]
      /\ q' = [q EXCEPT ![WaitQ] = EnqueueByPriority(@, m)]
      /\ queueOf' = [queueOf EXCEPT ![m] = WaitQ]
      /\ slot' = [slot EXCEPT ![fiber] = r]
      /\ UNCHANGED <<active, mirror, current, fiber, inPoll, remade>>
  BY <1>0 DEF Park
<1>2. /\ OnFiber /\ state[m] = "RUNNING" /\ ~ In(q, m, WaitQ) /\ ~ In(q, m, RunQ)
      /\ m \in Thread /\ slot[fiber] \in SlotRecord /\ m \in active
      /\ slot[fiber].thread = m /\ ~ slot[fiber].finished
  BY <1>0, <1>1, ThreadInGame, ThreadOnFiber DEF Me, Live
<1>3. r \in SlotRecord /\ r.thread = m /\ r.at = "parking" /\ ~ r.finished
  BY <1>2 DEF SlotRecord
<1> HIDE DEF r
<1>4. /\ q' \in ListsOver(List) /\ Good(List, q')
      /\ \A k \in List, u \in Thread : In(q', u, k) <=> In(q, u, k) \/ (u = m /\ k = WaitQ)
  <2>1. q \in ListsOver(List) /\ Good(List, q)
    BY DEF FiberInv, Typed
  <2> DEFINE g == [q EXCEPT ![WaitQ] = EnqueueByPriority(@, m)]
  <2>2. WaitQ \in List /\ q' = g /\ m \in Thread /\ ~ In(q, m, WaitQ)
    BY <1>1, <1>2, Constants
  <2>3. /\ g \in ListsOver(List) /\ Good(List, g)
        /\ \A k \in List, u \in Thread : In(g, u, k) <=> In(q, u, k) \/ (u = m /\ k = WaitQ)
    BY <2>1, <2>2, EnqueueIn, Zenon
  <2> HIDE DEF g
  <2> QED
    BY <2>2, <2>3
<1>5. /\ state' \in [Thread -> States] /\ queueOf' \in [Thread -> {RunQ, WaitQ, None}]
      /\ \A u \in Thread : state'[u] = IF u = m THEN "WAITING" ELSE state[u]
      /\ \A u \in Thread : queueOf'[u] = IF u = m THEN WaitQ ELSE queueOf[u]
      /\ mirror \in Thread \cup {None} /\ inPoll \in BOOLEAN
  BY <1>1, <1>2 DEF FiberInv, Typed, TypeOK, States
<1>6. MatchesOne(m)'
  <2>1. /\ state'[m] = "WAITING" /\ queueOf'[m] = WaitQ /\ m \in active'
        /\ \A l \in List : In(q', m, l) <=> l = WaitQ
    <3>1. m \in Thread /\ ~ In(q, m, RunQ) /\ ~ In(q, m, WaitQ)
      BY <1>1, <1>2
    <3>2. \A l \in List : In(q', m, l) <=> l = WaitQ
      BY <1>4, <3>1 DEF List
    <3> QED
      BY <1>1, <1>2, <1>5, <3>1, <3>2
  <2> QED
    BY <2>1, Constants DEF MatchesOne
<1>7. Matches'
  <2>1. \A u \in Thread \ {m, m} : Untouched(u)
    BY <1>1, <1>4, <1>5 DEF Untouched
  <2> QED
    BY <1>6, <2>1, OthersMatch DEF FiberInv
<1>8. /\ In(q', m, WaitQ)
      /\ \A t \in Thread \ {m, m} : /\ state'[t] = state[t]
                                    /\ In(q', t, WaitQ) <=> In(q, t, WaitQ)
  BY <1>2, <1>4, <1>5, Constants
<1> QED
  BY <1>0, <1>1, <1>2, <1>3, <1>4, <1>5, <1>7, <1>8, OwnSlotStep

(* __osDispatchThread.                                                     *)
LEMMA DispatchThreadStep == ASSUME FiberInv, DispatchThread PROVE FiberInv'
<1>0. PICK m : m = Me
  OBVIOUS
<1> DEFINE r == [slot[fiber] EXCEPT !.at = "game"]
<1>1. /\ OnFiber /\ slot' = [slot EXCEPT ![fiber] = r] /\ fiber' = Sched /\ current' = None
      /\ UNCHANGED <<queueOf, active, mirror, inPoll, remade>>
  BY DEF DispatchThread, ToSched
<1>2. /\ m \in Thread /\ slot[fiber] \in SlotRecord /\ slot[fiber].thread = m
      /\ (state[m] # "RUNNING" => In(q, m, WaitQ))
      /\ (state[m] = "RUNNING" => queueOf[m] = RunQ)
  BY <1>0, <1>1, ThreadOnFiber DEF Me
<1>3. r \in SlotRecord /\ r.thread = m /\ r.at = "game"
  BY <1>2 DEF SlotRecord
<1> HIDE DEF r
<1>4. /\ mirror \in Thread \cup {None} /\ inPoll \in BOOLEAN
      /\ queueOf \in [Thread -> {RunQ, WaitQ, None}]
  BY DEF FiberInv, Typed, TypeOK
<1>5. CASE state[m] = "RUNNING"
  <2>1. /\ q' = [q EXCEPT ![RunQ] = EnqueueByPriority(@, m)]
        /\ state' = [state EXCEPT ![m] = "RUNNABLE"]
    BY <1>0, <1>5 DEF DispatchThread, DispatchRequeues
  <2>2. queueOf' = [queueOf EXCEPT ![m] = RunQ]
    BY <1>1, <1>2, <1>4, <1>5
  <2>3. /\ q' \in ListsOver(List) /\ Good(List, q') /\ Matches'
        /\ state' \in [Thread -> States] /\ queueOf' \in [Thread -> {RunQ, WaitQ, None}]
        /\ state'[m] = "RUNNABLE"
        /\ \A t \in Thread \ {m} : /\ state'[t] = state[t]
                                   /\ In(q', t, WaitQ) <=> In(q, t, WaitQ)
    BY <1>0, <1>1, <1>5, <2>1, <2>2, RequeueIn
  <2> QED
    BY <1>0, <1>1, <1>2, <1>3, <1>4, <2>3, OwnSlotStep
<1>6. CASE state[m] # "RUNNING"
  <2>1. UNCHANGED <<state, queueOf, q, active>>
    BY <1>0, <1>1, <1>6 DEF DispatchThread, DispatchRequeues
  <2>2. /\ q' \in ListsOver(List) /\ Good(List, q') /\ Matches'
        /\ state' \in [Thread -> States] /\ queueOf' \in [Thread -> {RunQ, WaitQ, None}]
    BY <2>1, ListsAlone
  <2>3. In(q', m, WaitQ)
    BY <1>2, <1>6, <2>1
  <2> QED
    BY <1>0, <1>1, <1>2, <1>3, <1>4, <2>1, <2>2, <2>3, OwnSlotStep
<1> QED
  BY <1>5, <1>6

(* sched_pause_current.                                                    *)
LEMMA PauseStep == ASSUME FiberInv, Pause PROVE FiberInv'
<1>0. PICK m : m = Me
  OBVIOUS
<1> DEFINE r == [slot[fiber] EXCEPT !.at = "gone"]
<1>1. /\ InGame /\ state' = [state EXCEPT ![m] = "WAITING"]
      /\ slot' = [slot EXCEPT ![fiber] = r] /\ fiber' = Sched /\ current' = None
      /\ UNCHANGED <<queueOf, q, active, mirror, inPoll, remade>>
  BY <1>0 DEF Pause, ToSched
<1>2. /\ OnFiber /\ state[m] = "RUNNING" /\ ~ In(q, m, WaitQ) /\ ~ In(q, m, RunQ)
      /\ m \in Thread /\ slot[fiber] \in SlotRecord /\ m \in active /\ slot[fiber].thread = m
  BY <1>0, <1>1, ThreadInGame, ThreadOnFiber DEF Me
<1>3. r \in SlotRecord /\ r.thread = m /\ r.at = "gone"
  BY <1>2 DEF SlotRecord
<1> HIDE DEF r
<1>4. /\ state' \in [Thread -> States]
      /\ \A u \in Thread : state'[u] = IF u = m THEN "WAITING" ELSE state[u]
      /\ mirror \in Thread \cup {None} /\ inPoll \in BOOLEAN
      /\ queueOf \in [Thread -> {RunQ, WaitQ, None}]
      /\ q \in ListsOver(List) /\ Good(List, q)
  BY <1>1, <1>2 DEF FiberInv, Typed, TypeOK, States
<1>5. MatchesOne(m)'
  <2>1. MatchesOne(m)
    BY <1>2 DEF FiberInv, Matches
  <2> QED
    BY <2>1, <1>1, <1>2, <1>4 DEF MatchesOne
<1>6. Matches'
  <2>1. \A u \in Thread \ {m, m} : Untouched(u)
    BY <1>1, <1>4 DEF Untouched
  <2> QED
    BY <1>5, <2>1, OthersMatch DEF FiberInv
<1>7. /\ ~ In(q', m, WaitQ) /\ state'[m] = "WAITING"
      /\ \A t \in Thread \ {m, m} : /\ state'[t] = state[t]
                                    /\ In(q', t, WaitQ) <=> In(q, t, WaitQ)
  BY <1>1, <1>2, <1>4
<1> QED
  BY <1>0, <1>1, <1>2, <1>3, <1>4, <1>6, <1>7, OwnSlotStep

(* A fault in the game's code.                                             *)
LEMMA FaultStep == ASSUME FiberInv, Fault PROVE FiberInv'
<1>0. PICK m : m = Me
  OBVIOUS
<1> DEFINE r == [slot[fiber] EXCEPT !.finished = TRUE, !.at = "gone"]
<1>1. /\ InGame /\ slot' = [slot EXCEPT ![fiber].finished = TRUE, ![fiber].at = "gone"]
      /\ fiber' = Sched /\ current' = None
      /\ UNCHANGED <<state, queueOf, q, active, mirror, inPoll, remade>>
  BY DEF Fault, ToSched, guestVars
<1>2. /\ OnFiber /\ m \in Thread /\ slot[fiber] \in SlotRecord /\ slot[fiber].thread = m
      /\ fiber \in DOMAIN slot /\ slot \in Seq(SlotRecord)
  BY <1>0, <1>1, ThreadOnFiber DEF Me, InGame, FiberInv, Typed
<1>3. slot' = [slot EXCEPT ![fiber] = r]
  BY <1>1, <1>2
<1>4. r \in SlotRecord /\ r.thread = m /\ r.at = "gone" /\ r.finished
  BY <1>2 DEF SlotRecord
<1> HIDE DEF r
<1>5. /\ q' \in ListsOver(List) /\ Good(List, q') /\ Matches'
      /\ state' \in [Thread -> States] /\ queueOf' \in [Thread -> {RunQ, WaitQ, None}]
  BY <1>1, ListsAlone
<1>6. mirror \in Thread \cup {None} /\ inPoll \in BOOLEAN
  BY DEF FiberInv, Typed, TypeOK
<1> QED
  BY <1>0, <1>1, <1>2, <1>3, <1>4, <1>5, <1>6, OwnSlotStep

(* A thread that is destroyed leaves the lists.                            *)
LEMMA UnlinkedIn ==
    ASSUME FiberInv, NEW t \in Thread, Unlinked(t)
    PROVE  /\ q' \in ListsOver(List) /\ Good(List, q') /\ Matches'
           /\ state' \in [Thread -> States]
           /\ \A u \in Thread : state'[u] = IF u = t THEN "STOPPED" ELSE state[u]
           /\ \A k \in List, u \in Thread : In(q', u, k) <=> In(q, u, k) /\ u # t
<1>1. q \in ListsOver(List) /\ Good(List, q) /\ Matches /\ MatchesOne(t)
  BY DEF FiberInv, Typed, Matches
<1>2. /\ q' = IF state[t] # "RUNNING" /\ queueOf[t] # None
              THEN [q EXCEPT ![queueOf[t]] = Unlink(@, t)] ELSE q
      /\ active' = active \ {t} /\ state' = [state EXCEPT ![t] = "STOPPED"]
      /\ queueOf' = queueOf
  BY DEF Unlinked
<1>3. /\ q' \in ListsOver(List) /\ Good(List, q')
      /\ \A k \in List, u \in Thread : In(q', u, k) <=> In(q, u, k) /\ u # t
  <2>1. CASE state[t] # "RUNNING" /\ queueOf[t] # None
    <3>1. PICK l : l = queueOf[t]
      OBVIOUS
    <3>2. l \in List
      BY <3>1, <2>1 DEF FiberInv, Typed, TypeOK, List
    <3> DEFINE g == [q EXCEPT ![l] = Unlink(@, t)]
    <3>3. /\ g \in ListsOver(List) /\ Good(List, g)
          /\ \A k \in List, u \in Thread : In(g, u, k) <=> In(q, u, k) /\ ~ (u = t /\ k = l)
      BY <1>1, <3>2, UnlinkInLists, ZenonT(60)
    <3>4. q' = g
      BY <1>2, <2>1, <3>1
    <3>5. \A k \in List : In(q, t, k) => k = l
      BY <1>1, <3>1 DEF MatchesOne
    <3> HIDE DEF g
    <3> QED
      BY <3>3, <3>4, <3>5
  <2>2. CASE ~ (state[t] # "RUNNING" /\ queueOf[t] # None)
    <3>1. q' = q
      BY <1>2, <2>2
    <3>2. \A k \in List : ~ In(q, t, k)
      BY <1>1, <2>2, Constants DEF MatchesOne, List
    <3> QED
      BY <1>1, <3>1, <3>2
  <2> QED
    BY <2>1, <2>2
<1>4. /\ state' \in [Thread -> States]
      /\ \A u \in Thread : state'[u] = IF u = t THEN "STOPPED" ELSE state[u]
  BY <1>2 DEF FiberInv, Typed, TypeOK, States
<1>5. MatchesOne(t)'
  BY <1>2, <1>3, <1>4, Constants DEF MatchesOne
<1>6. Matches'
  <2>1. \A u \in Thread \ {t, t} : Untouched(u)
    BY <1>2, <1>3, <1>4 DEF Untouched
  <2> QED
    BY <1>1, <1>5, <2>1, OthersMatch
<1> QED
  BY <1>3, <1>4, <1>6

(* Its slot is finished.                                                   *)
LEMMA SlotFinishes ==
    ASSUME slot \in Seq(SlotRecord), Len(slot) <= MaxSlots, OneSlotEach,
           NEW t \in Thread, slot' = FinishedSlot(t)
    PROVE  /\ slot' \in Seq(SlotRecord) /\ Len(slot') <= MaxSlots /\ OneSlotEach'
           /\ DOMAIN slot' = DOMAIN slot
           /\ \A i \in DOMAIN slot : /\ slot'[i] \in SlotRecord
                                     /\ slot'[i].thread = slot[i].thread
                                     /\ slot[i].thread = t => slot'[i].finished
                                     /\ slot[i].thread # t => slot'[i] = slot[i]
<1> DEFINE r(i) == IF slot[i].thread = t THEN [slot[i] EXCEPT !.finished = TRUE] ELSE slot[i]
           n == Len(slot)
<1>1. n \in Nat /\ DOMAIN slot = 1 .. n /\ \A i \in 1 .. n : slot[i] \in SlotRecord
  OBVIOUS
<1>2. \A i \in 1 .. n : /\ r(i) \in SlotRecord /\ r(i).thread = slot[i].thread
                        /\ slot[i].thread = t => r(i).finished
                        /\ slot[i].thread # t => r(i) = slot[i]
  BY <1>1 DEF SlotRecord
<1>3. slot' = [i \in 1 .. n |-> r(i)]
  BY <1>1 DEF FinishedSlot, WithSlot
<1> HIDE DEF r, n
<1>4. slot' \in Seq(SlotRecord) /\ DOMAIN slot' = 1 .. n /\ \A i \in 1 .. n : slot'[i] = r(i)
  BY <1>1, <1>2, <1>3
<1>5. Len(slot') = n
  BY <1>1, <1>4
<1> QED
  BY <1>1, <1>2, <1>4, <1>5 DEF OneSlotEach, n

LEMMA DestroyStep ==
    ASSUME FiberInv, OnFiber, NEW m, m = Me, NEW t \in Thread, Unlinked(t),
           slot' = FinishedSlot(t), UNCHANGED <<mirror, inPoll, remade>>,
           \/ t # m /\ fiber' = fiber /\ current' = current
           \/ t = m /\ fiber' = Sched /\ current' = None
    PROVE  FiberInv'
<1>1. /\ m \in Thread /\ fiber \in DOMAIN slot /\ current = m /\ Live(fiber)
      /\ fiber # Main /\ slot[fiber].thread = m /\ slot[fiber].at # "gone"
      /\ (state[m] = "RUNNING" \/ (slot[fiber].at = "parking" /\ In(q, m, WaitQ)))
  BY ThreadOnFiber DEF Me
<1>2. /\ q' \in ListsOver(List) /\ Good(List, q') /\ Matches'
      /\ state' \in [Thread -> States]
      /\ \A u \in Thread : state'[u] = IF u = t THEN "STOPPED" ELSE state[u]
      /\ \A k \in List, u \in Thread : In(q', u, k) <=> In(q, u, k) /\ u # t
  BY UnlinkedIn
<1>3. /\ slot' \in Seq(SlotRecord) /\ Len(slot') <= MaxSlots /\ OneSlotEach'
      /\ DOMAIN slot' = DOMAIN slot
      /\ \A i \in DOMAIN slot : /\ slot'[i] \in SlotRecord
                                /\ slot'[i].thread = slot[i].thread
                                /\ slot[i].thread = t => slot'[i].finished
                                /\ slot[i].thread # t => slot'[i] = slot[i]
  BY SlotFinishes DEF FiberInv, Typed, TypeOK
<1>4. active' = active \ {t} /\ queueOf' = queueOf
  BY DEF Unlinked
<1>5. Typed'
  <2>1. /\ fiber' \in {Main, Sched} \cup DOMAIN slot' /\ current' \in Thread \cup {None}
        /\ \A i \in DOMAIN slot' : slot'[i] \in SlotRecord
    BY <1>1, <1>3
  <2>2. TypeOK'
    BY <1>2, <1>3, <1>4, <2>1 DEF FiberInv, Typed, TypeOK, ListsOver, List, SlotRecord
  <2> QED
    BY <1>2, <1>3, <2>2 DEF Typed
<1>6. ASSUME NEW i \in DOMAIN slot' PROVE SlotMatches(i)'
  <2>1. i \in DOMAIN slot /\ slot[i].thread \in Thread /\ SlotMatches(i)
    BY <1>3 DEF FiberInv, Typed, TypeOK
  <2>2. CASE slot[i].thread = t
    BY <2>1, <2>2, <1>3 DEF SlotMatches, Live
  <2>3. CASE slot[i].thread # t
    BY <2>1, <2>3, <1>2, <1>3, <1>4, Constants DEF SlotMatches, Live
  <2> QED
    BY <2>2, <2>3
<1>7. ASSUME NEW u \in Thread PROVE Placed(u)'
  <2>1. CASE u = t
    BY <2>1, <1>2 DEF Placed
  <2>2. CASE u # t
    <3>1. Placed(u) /\ SlotsOf(u)' = SlotsOf(u)
      BY <1>3 DEF FiberInv, SlotsOf
    <3>2. \A i \in SlotsOf(u) : slot'[i] = slot[i]
      BY <2>2, <1>3 DEF SlotsOf
    <3>3. state'[u] = state[u] /\ (In(q', u, WaitQ) <=> In(q, u, WaitQ))
      BY <2>2, <1>2, Constants
    <3>4. fiber # Main /\ (u = current => u = current')
      BY <2>2, <1>1
    <3> QED
      BY <3>1, <3>2, <3>3, <3>4 DEF Placed
  <2> QED
    BY <2>1, <2>2
<1>8. Executing'
  <2>1. CASE t = m /\ fiber' = Sched /\ current' = None
    <3>1. \A n \in DOMAIN slot' : n \in Nat
      BY <1>3
    <3> QED
      BY <2>1, <3>1, Constants DEF Executing, OnFiber
  <2>2. CASE t # m /\ fiber' = fiber /\ current' = current
    <3>1. OnFiber' /\ Me' = m /\ slot'[fiber'] = slot[fiber]
      BY <2>2, <1>1, <1>3 DEF OnFiber, Me
    <3>2. state'[m] = state[m] /\ (In(q', m, WaitQ) <=> In(q, m, WaitQ))
      BY <2>2, <1>1, <1>2, Constants
    <3> QED
      BY <2>2, <3>1, <3>2, <1>1 DEF Executing, Live
  <2> QED
    BY <2>1, <2>2
<1> QED
  BY <1>2, <1>3, <1>5, <1>6, <1>7, <1>8 DEF FiberInv

-----------------------------------------------------------------------------
THEOREM FiberInvInductive == FiberInv /\ [Next]_vars => FiberInv'
<1> SUFFICES ASSUME FiberInv, [Next]_vars PROVE FiberInv'
  OBVIOUS
<1>1. CASE UNCHANGED vars
  <2>1. UNCHANGED <<state, queueOf, q, active, mirror, slot, current, fiber, inPoll, remade>>
    BY <1>1 DEF vars, guestVars, hostVars
  <2> QED
    BY <2>1 DEF FiberInv, Typed, TypeOK, Matches, MatchesOne, OneSlotEach, SlotMatches, Live,
                Placed, SlotsOf, Executing, OnFiber, Me, In
<1>2. ASSUME NEW t \in Thread, DestroyOther(t) PROVE FiberInv'
  <2>1. PICK m : m = Me
    OBVIOUS
  <2>2. /\ OnFiber /\ Unlinked(t) /\ t # m /\ slot' = FinishedSlot(t)
        /\ UNCHANGED <<mirror, current, fiber, inPoll, remade>>
    BY <1>2, <2>1 DEF DestroyOther, InGame
  <2> QED
    BY <2>1, <2>2, DestroyStep
<1>3. ASSUME DestroySelf PROVE FiberInv'
  <2>1. PICK m : m = Me
    OBVIOUS
  <2>2. /\ OnFiber /\ Unlinked(m) /\ slot' = FinishedSlot(m) /\ fiber' = Sched
        /\ current' = None /\ UNCHANGED <<mirror, inPoll, remade>>
    BY <1>3, <2>1 DEF DestroySelf, InGame, ToSched
  <2>3. m \in Thread
    BY <2>1, <2>2, ThreadOnFiber
  <2> QED
    BY <2>1, <2>2, <2>3, DestroyStep
<1>4. Over => UNCHANGED vars
  BY DEF Over
<1> QED
  BY <1>1, <1>2, <1>3, <1>4, DispatchStep, ExhaustSlotsStep, IdleDeliverStep, PollStep,
     PollWakesStep, ParkStep, DispatchThreadStep, SendStep, CreateAndStartStep, PauseStep,
     FaultStep DEF Next

THEOREM FiberInvHolds == Spec => []FiberInv
BY InitFiberInv, FiberInvInductive, PTL DEF Spec

(* ListsSound: a RUNNABLE thread is in the run queue, once, and is the     *)
(* only kind there; what waits is WAITING; a thread in neither list is on  *)
(* the CPU, stopped, paused or dead.                                       *)
THEOREM ListsSoundCorrect == Spec => []ListsSound
<1>1. FiberInv => ListsSound
  <2> SUFFICES ASSUME FiberInv PROVE ListsSound
    OBVIOUS
  <2>1. \A t \in Thread, l \in List : InList(t, l) <=> In(q, t, l)
    BY DEF InList, In, Range
  <2>2. \A t \in Thread : Placed(t) /\ MatchesOne(t)
    BY DEF FiberInv, Matches
  <2>3. TypeOK /\ \A l \in {RunQ, WaitQ} : IsInjective(q[l]) /\ Ordered(q[l])
    BY DEF FiberInv, Typed, Good, List
  <2> QED
    BY <2>1, <2>2, <2>3, Constants DEF ListsSound, Placed, MatchesOne
<1> QED
  BY <1>1, FiberInvHolds, PTL

(* FreshFiber: a thread whose structure was created again starts on a      *)
(* fiber of its own and never on the stack of the thread before it.        *)
THEOREM FreshFiberCorrect == Spec => []FreshFiber
<1>1. FiberInv => FreshFiber
  BY ThreadOnFiber DEF FreshFiber
<1> QED
  BY <1>1, FiberInvHolds, PTL

-----------------------------------------------------------------------------
(* The links of ThreadList.                                                *)

(* The nodes of a list: its head pointer, its threads, the fake thread.    *)
Size(l) == Len(held[l])
NodeAt(l, k) == IF k = 0 THEN l ELSE IF k <= Size(l) THEN held[l][k] ELSE Fake

Spelled(l) == \A k \in 0 .. Size(l) : After(l, NodeAt(l, k)) = NodeAt(l, k + 1)

(* No list has a thread twice, and no thread is in two lists linked by     *)
(* TH_NEXT: their links would be each other's.                             *)
OnceEach == \A l \in Lists : IsInjective(held[l])
Apart == \A l, m \in PriList : \A t \in Thread : Holds(t, l) /\ Holds(t, m) => l = m

(* The walk of an insertion has passed k threads, that outrank the one to  *)
(* insert or equal it; no list linked by TH_NEXT holds that one.           *)
AtEnqueue ==
    /\ thread \in Thread /\ list \in PriList
    /\ \A m \in PriList : ~ Holds(thread, m)
    /\ \E k \in 0 .. Size(list) :
          /\ pred = NodeAt(list, k)
          /\ cur = NodeAt(list, k + 1)
          /\ \A j \in 1 .. k : Pri[thread] <= Pri[held[list][j]]

(* The walk of a removal has passed some nodes, none of them the thread's, *)
(* which can be in no other list linked by TH_NEXT; past the fake thread   *)
(* there is nothing.                                                       *)
AtUnlink ==
    /\ thread \in Thread /\ list \in Lists
    /\ \A m \in PriList : Holds(thread, m) => m = list
    /\ passed <= Size(list) + 1
    /\ pred = NodeAt(list, passed)
    /\ passed <= Size(list) => cur = NodeAt(list, passed + 1)
    /\ passed = Size(list) + 1 => cur = Null
    /\ \A j \in 1 .. Size(list) : j <= passed => held[list][j] # thread

LinksInv ==
    /\ ListsTypeOK
    /\ \A l \in Lists : Spelled(l)
    /\ OnceEach
    /\ Apart
    /\ pc = "enqueue" => AtEnqueue
    /\ pc = "unlink" => AtUnlink

-----------------------------------------------------------------------------
(* Nodes.                                                                  *)

LEMMA ListFacts ==
    ASSUME ListsTypeOK, NEW l \in Lists
    PROVE  /\ held[l] \in Seq(Thread) /\ Size(l) \in Nat
           /\ DOMAIN held[l] = 1 .. Size(l)
           /\ \A k \in 1 .. Size(l) : held[l][k] \in Thread
           /\ NodeAt(l, 0) = l
           /\ \A k \in 1 .. Size(l) : NodeAt(l, k) = held[l][k]
           /\ NodeAt(l, Size(l) + 1) = Fake
           /\ \A k \in 0 .. Size(l) + 1 : NodeAt(l, k) \in Node
<1>1. held[l] \in Seq(Thread)
  BY DEF ListsTypeOK
<1>2. Size(l) \in Nat /\ DOMAIN held[l] = 1 .. Size(l)
  BY <1>1, LenProperties DEF Size
<1>3. \A k \in 1 .. Size(l) : held[l][k] \in Thread
  BY <1>1, ElementOfSeq DEF Size
<1>4. /\ NodeAt(l, 0) = l
      /\ \A k \in 1 .. Size(l) : NodeAt(l, k) = held[l][k]
      /\ NodeAt(l, Size(l) + 1) = Fake
  BY <1>2 DEF NodeAt
<1>5. \A k \in 0 .. Size(l) + 1 : NodeAt(l, k) \in Node
  <2>. TAKE k \in 0 .. Size(l) + 1
  <2>1. k = 0 \/ k \in 1 .. Size(l) \/ k = Size(l) + 1
    BY <1>2
  <2>. QED
    BY <1>3, <1>4, <2>1 DEF Node
<1>. QED
  BY <1>1, <1>2, <1>3, <1>4, <1>5

LEMMA HoldsIsRange ==
    ASSUME NEW l, NEW t
    PROVE  Holds(t, l) <=> t \in Range(held[l])
BY DEF Holds, Range

(* No node comes twice in a list.                                          *)
LEMMA NodesDiffer ==
    ASSUME ListsTypeOK, NEW l \in Lists, IsInjective(held[l]),
           NEW j \in 0 .. Size(l) + 1, NEW k \in 0 .. Size(l) + 1, NodeAt(l, j) = NodeAt(l, k)
    PROVE  j = k
<1>1. /\ Size(l) \in Nat /\ DOMAIN held[l] = 1 .. Size(l)
      /\ \A n \in 1 .. Size(l) : held[l][n] \in Thread /\ NodeAt(l, n) = held[l][n]
      /\ NodeAt(l, 0) = l /\ NodeAt(l, Size(l) + 1) = Fake
  BY ListFacts
<1>2. l \notin Thread /\ Fake \notin Thread /\ l # Fake
  BY ListAssumption
<1>3. /\ j = 0 \/ j \in 1 .. Size(l) \/ j = Size(l) + 1
      /\ k = 0 \/ k \in 1 .. Size(l) \/ k = Size(l) + 1
  BY <1>1
<1>4. CASE j \in 1 .. Size(l) /\ k \in 1 .. Size(l)
  BY <1>1, <1>4 DEF IsInjective
<1>5. CASE ~ (j \in 1 .. Size(l) /\ k \in 1 .. Size(l))
  BY <1>1, <1>2, <1>3, <1>5
<1>. QED
  BY <1>4, <1>5

(* Lists linked by TH_NEXT have only the fake thread in common.            *)
LEMMA ListsDiffer ==
    ASSUME ListsTypeOK, Apart, NEW l \in PriList, NEW m \in PriList, l # m,
           NEW j \in 0 .. Size(l), NEW k \in 0 .. Size(m)
    PROVE  NodeAt(l, j) # NodeAt(m, k)
<1>1. l \in Lists /\ m \in Lists
  BY DEF Lists
<1>2. /\ Size(l) \in Nat /\ Size(m) \in Nat
      /\ DOMAIN held[l] = 1 .. Size(l) /\ DOMAIN held[m] = 1 .. Size(m)
      /\ NodeAt(l, 0) = l /\ NodeAt(m, 0) = m
      /\ \A n \in 1 .. Size(l) : held[l][n] \in Thread /\ NodeAt(l, n) = held[l][n]
      /\ \A n \in 1 .. Size(m) : held[m][n] \in Thread /\ NodeAt(m, n) = held[m][n]
  BY <1>1, ListFacts
<1>3. l \notin Thread /\ m \notin Thread
  BY <1>1, ListAssumption
<1>4. (j = 0 \/ j \in 1 .. Size(l)) /\ (k = 0 \/ k \in 1 .. Size(m))
  BY <1>2
<1>5. CASE j \in 1 .. Size(l) /\ k \in 1 .. Size(m)
  <2>1. Holds(held[l][j], l) /\ Holds(held[m][k], m)
    BY <1>2, <1>5 DEF Holds
  <2>2. held[l][j] # held[m][k]
    BY <1>2, <1>5, <2>1 DEF Apart
  <2>. QED
    BY <1>2, <1>5, <2>2
<1>6. CASE ~ (j \in 1 .. Size(l) /\ k \in 1 .. Size(m))
  BY <1>2, <1>3, <1>4, <1>6
<1>. QED
  BY <1>5, <1>6

(* No list has more threads than there are: the bound of unlink_bounded is *)
(* never reached before the end of the list.                               *)
LEMMA ListFits ==
    ASSUME NEW s \in Seq(Thread), IsInjective(s)
    PROVE  Len(s) <= WalkBound
<1>1. Len(s) \in Nat /\ s \in [1 .. Len(s) -> Thread]
  BY LenProperties
<1>2. s \in Injection(1 .. Len(s), Thread)
  BY <1>1 DEF Injection
<1>3. Cardinality(1 .. Len(s)) <= Cardinality(Thread)
  BY <1>2, FS_Injection, ListAssumption
<1>4. Cardinality(1 .. Len(s)) = Len(s)
  <2>1. Cardinality(1 .. Len(s)) = IF 1 > Len(s) THEN 0 ELSE Len(s) - 1 + 1
    BY <1>1, FS_Interval
  <2>. QED
    BY <1>1, <2>1
<1>5. Cardinality(Thread) \in Nat
  BY FS_CardinalityType, ListAssumption
<1>. QED
  BY <1>1, <1>3, <1>4, <1>5, ListAssumption DEF WalkBound

-----------------------------------------------------------------------------
(* What the writes of an operation leave of a list.                        *)

(* The node after n in the next state.                                     *)
Then(l, n) == IF n = l THEN next'[n] ELSE IF l = Active THEN tlnext'[n] ELSE next'[n]

LEMMA AfterIs ==
    ASSUME NEW l, NEW n
    PROVE  After(l, n) = IF n = l THEN next[n] ELSE IF l = Active THEN tlnext[n] ELSE next[n]
BY DEF After, Link

LEMMA SpelledSame ==
    ASSUME ListsTypeOK, NEW l \in Lists, Spelled(l), held'[l] = held[l],
           \A k \in 0 .. Size(l) : Then(l, NodeAt(l, k)) = After(l, NodeAt(l, k))
    PROVE  Spelled(l)'
<1>1. Size(l)' = Size(l) /\ \A k : NodeAt(l, k)' = NodeAt(l, k)
  BY DEF Size, NodeAt
<1>2. \A k \in 0 .. Size(l) : Then(l, NodeAt(l, k)) = NodeAt(l, k + 1)
  BY DEF Spelled
<1>. QED
  BY <1>1, <1>2 DEF Spelled, Then, After, Link

LEMMA SpelledInsert ==
    ASSUME ListsTypeOK, NEW l \in Lists, Spelled(l),
           NEW t \in Thread, NEW p \in 1 .. Size(l) + 1,
           Len(held'[l]) = Size(l) + 1,
           \A k \in 1 .. Size(l) + 1 :
               held'[l][k] = IF k < p THEN held[l][k] ELSE IF k = p THEN t ELSE held[l][k - 1],
           Then(l, NodeAt(l, p - 1)) = t,
           Then(l, t) = NodeAt(l, p),
           \A k \in 0 .. Size(l) : k # p - 1 => Then(l, NodeAt(l, k)) = After(l, NodeAt(l, k))
    PROVE  Spelled(l)'
<1>. DEFINE n == Size(l)
<1>1. /\ n \in Nat /\ NodeAt(l, 0) = l /\ NodeAt(l, n + 1) = Fake
      /\ \A k \in 1 .. n : NodeAt(l, k) = held[l][k]
  BY ListFacts
<1>. HIDE DEF n
<1>2. Size(l)' = n + 1
  BY DEF Size, n
<1>3. ASSUME NEW k \in 0 .. n + 2
      PROVE  /\ k < p => NodeAt(l, k)' = NodeAt(l, k)
             /\ k = p => NodeAt(l, k)' = t
             /\ k > p => NodeAt(l, k)' = NodeAt(l, k - 1)
  <2>1. k = 0 => NodeAt(l, k)' = l
    BY DEF NodeAt
  <2>2. k = n + 2 => NodeAt(l, k)' = Fake
    BY <1>1, <1>2 DEF NodeAt
  <2>3. k \in 1 .. n + 1 => NodeAt(l, k)' = held'[l][k]
    BY <1>1, <1>2 DEF NodeAt
  <2>4. CASE k = 0
    BY <1>1, <2>1, <2>4 DEF n
  <2>5. CASE k = n + 2
    <3>1. k - 1 = n + 1 /\ k > p
      BY <1>1, <2>5 DEF n
    <3>. QED
      BY <1>1, <2>2, <2>5, <3>1
  <2>6. CASE k \in 1 .. n + 1
    <3>1. CASE k < p
      <4>1. k \in 1 .. n
        BY <1>1, <2>6, <3>1 DEF n
      <4>. QED
        BY <1>1, <2>3, <2>6, <3>1, <4>1 DEF n
    <3>2. CASE k = p
      BY <1>1, <2>3, <2>6, <3>2 DEF n
    <3>3. CASE k > p
      <4>1. k - 1 \in 1 .. n /\ k \in 1 .. n + 1
        BY <1>1, <2>6, <3>3 DEF n
      <4>2. held'[l][k] = held[l][k - 1]
        BY <2>6, <3>3 DEF n
      <4>. QED
        BY <1>1, <2>3, <3>3, <4>1, <4>2
    <3>. QED
      BY <1>1, <2>6, <3>1, <3>2, <3>3 DEF n
  <2>. QED
    BY <1>1, <2>4, <2>5, <2>6
<1>4. \A k \in 0 .. n : k # p - 1 => Then(l, NodeAt(l, k)) = NodeAt(l, k + 1)
  BY DEF Spelled, n
<1>5. ASSUME NEW k \in 0 .. n + 1
      PROVE  Then(l, NodeAt(l, k)') = NodeAt(l, k + 1)'
  <2>1. k \in 0 .. n + 2 /\ k + 1 \in 0 .. n + 2 /\ p \in 1 .. n + 1
    BY <1>1 DEF n
  <2>2. CASE k < p - 1
    <3>1. k \in 0 .. n /\ k < p /\ k + 1 < p /\ k # p - 1
      BY <1>1, <2>1, <2>2
    <3>2. NodeAt(l, k)' = NodeAt(l, k) /\ NodeAt(l, k + 1)' = NodeAt(l, k + 1)
      BY <1>3, <2>1, <3>1
    <3>. QED
      BY <1>4, <3>1, <3>2
  <2>3. CASE k = p - 1
    <3>1. k < p /\ k + 1 = p
      BY <1>1, <2>1, <2>3
    <3>2. NodeAt(l, k)' = NodeAt(l, k) /\ NodeAt(l, k + 1)' = t
      BY <1>3, <2>1, <3>1
    <3>. QED
      BY <2>3, <3>2
  <2>4. CASE k = p
    <3>1. k + 1 > p /\ k + 1 - 1 = p
      BY <1>1, <2>1, <2>4
    <3>2. NodeAt(l, k)' = t /\ NodeAt(l, k + 1)' = NodeAt(l, k + 1 - 1)
      BY <1>3, <2>1, <2>4, <3>1
    <3>. QED
      BY <3>1, <3>2
  <2>5. CASE k > p
    <3>1. k - 1 \in 0 .. n /\ k + 1 > p /\ k - 1 # p - 1 /\ k + 1 - 1 = k - 1 + 1
      BY <1>1, <2>1, <2>5
    <3>2. NodeAt(l, k)' = NodeAt(l, k - 1) /\ NodeAt(l, k + 1)' = NodeAt(l, k + 1 - 1)
      BY <1>3, <2>1, <2>5, <3>1
    <3>. QED
      BY <1>4, <3>1, <3>2
  <2>. QED
    BY <1>1, <2>1, <2>2, <2>3, <2>4, <2>5
<1>. QED
  BY <1>2, <1>5 DEF Spelled, Then, After, Link

LEMMA SpelledRemove ==
    ASSUME ListsTypeOK, NEW l \in Lists, Spelled(l), NEW p \in 1 .. Size(l),
           Len(held'[l]) = Size(l) - 1,
           \A k \in 1 .. Size(l) - 1 : held'[l][k] = IF k < p THEN held[l][k] ELSE held[l][k + 1],
           Then(l, NodeAt(l, p - 1)) = NodeAt(l, p + 1),
           \A k \in 0 .. Size(l) :
               k \notin {p - 1, p} => Then(l, NodeAt(l, k)) = After(l, NodeAt(l, k))
    PROVE  Spelled(l)'
<1>. DEFINE n == Size(l)
<1>1. /\ n \in Nat /\ NodeAt(l, 0) = l /\ NodeAt(l, n + 1) = Fake
      /\ \A k \in 1 .. n : NodeAt(l, k) = held[l][k]
  BY ListFacts
<1>. HIDE DEF n
<1>2. Size(l)' = n - 1
  BY DEF Size, n
<1>3. ASSUME NEW k \in 0 .. n
      PROVE  /\ k < p => NodeAt(l, k)' = NodeAt(l, k)
             /\ k >= p => NodeAt(l, k)' = NodeAt(l, k + 1)
  <2>1. k = 0 => NodeAt(l, k)' = l
    BY DEF NodeAt
  <2>2. k = n /\ k # 0 => NodeAt(l, k)' = Fake
    BY <1>1, <1>2 DEF NodeAt
  <2>3. k \in 1 .. n - 1 => NodeAt(l, k)' = held'[l][k]
    BY <1>1, <1>2 DEF NodeAt
  <2>4. CASE k = 0
    BY <1>1, <2>1, <2>4 DEF n
  <2>5. CASE k = n /\ k # 0
    <3>1. k + 1 = n + 1 /\ k >= p
      BY <1>1, <2>5 DEF n
    <3>. QED
      BY <1>1, <2>2, <2>5, <3>1
  <2>6. CASE k \in 1 .. n - 1
    <3>1. k \in 1 .. n /\ k + 1 \in 1 .. n
      BY <1>1, <2>6
    <3>2. k < p => held'[l][k] = held[l][k]
      BY <2>6 DEF n
    <3>3. k >= p => held'[l][k] = held[l][k + 1]
      BY <1>1, <2>6 DEF n
    <3>. QED
      BY <1>1, <2>3, <2>6, <3>1, <3>2, <3>3
  <2>. QED
    BY <1>1, <2>4, <2>5, <2>6
<1>4. \A k \in 0 .. n : k \notin {p - 1, p} => Then(l, NodeAt(l, k)) = NodeAt(l, k + 1)
  BY DEF Spelled, n
<1>5. ASSUME NEW k \in 0 .. n - 1
      PROVE  Then(l, NodeAt(l, k)') = NodeAt(l, k + 1)'
  <2>1. k \in 0 .. n /\ k + 1 \in 0 .. n /\ p \in 1 .. n
    BY <1>1 DEF n
  <2>2. CASE k < p - 1
    <3>1. k < p /\ k + 1 < p /\ k \notin {p - 1, p}
      BY <1>1, <2>1, <2>2
    <3>2. NodeAt(l, k)' = NodeAt(l, k) /\ NodeAt(l, k + 1)' = NodeAt(l, k + 1)
      BY <1>3, <2>1, <3>1
    <3>. QED
      BY <1>4, <2>1, <3>1, <3>2
  <2>3. CASE k = p - 1
    <3>1. k < p /\ k + 1 >= p /\ k + 1 + 1 = p + 1
      BY <1>1, <2>1, <2>3
    <3>2. NodeAt(l, k)' = NodeAt(l, k) /\ NodeAt(l, k + 1)' = NodeAt(l, k + 1 + 1)
      BY <1>3, <2>1, <3>1
    <3>. QED
      BY <2>3, <3>1, <3>2
  <2>4. CASE k >= p
    <3>1. k + 1 >= p /\ k + 1 \notin {p - 1, p}
      BY <1>1, <2>1, <2>4
    <3>2. NodeAt(l, k)' = NodeAt(l, k + 1) /\ NodeAt(l, k + 1)' = NodeAt(l, k + 1 + 1)
      BY <1>3, <2>1, <2>4, <3>1
    <3>. QED
      BY <1>4, <2>1, <3>1, <3>2
  <2>. QED
    BY <1>1, <2>1, <2>2, <2>3, <2>4
<1>. QED
  BY <1>2, <1>5 DEF Spelled, Then, After, Link

-----------------------------------------------------------------------------
(* The invariant is inductive.                                             *)

(* A thread that a list does not hold is none of its nodes.                *)
LEMMA NotNode ==
    ASSUME ListsTypeOK, NEW l \in Lists, NEW t \in Thread, ~ Holds(t, l)
    PROVE  \A k \in 0 .. Size(l) + 1 : NodeAt(l, k) # t
<1>1. /\ Size(l) \in Nat /\ DOMAIN held[l] = 1 .. Size(l)
      /\ \A k \in 1 .. Size(l) : NodeAt(l, k) = held[l][k]
      /\ NodeAt(l, 0) = l /\ NodeAt(l, Size(l) + 1) = Fake
  BY ListFacts
<1>2. l # t /\ Fake # t
  BY ListAssumption
<1>3. \A k \in 1 .. Size(l) : held[l][k] # t
  BY <1>1 DEF Holds
<1>. TAKE k \in 0 .. Size(l) + 1
<1>4. k = 0 \/ k \in 1 .. Size(l) \/ k = Size(l) + 1
  BY <1>1
<1>. QED
  BY <1>1, <1>2, <1>3, <1>4

(* The links a list is followed by.                                        *)
LEMMA Follows ==
    /\ \A l \in PriList : \A n : l # Active /\ After(l, n) = next[n] /\ Then(l, n) = next'[n]
    /\ After(Active, Active) = next[Active] /\ Then(Active, Active) = next'[Active]
    /\ \A n : n # Active => After(Active, n) = tlnext[n] /\ Then(Active, n) = tlnext'[n]
BY ListAssumption, AfterIs DEF Then

(* One list changes: it holds no thread twice, and none that another list  *)
(* linked by TH_NEXT holds.                                                *)
LEMMA HeldChanges ==
    ASSUME ListsTypeOK, OnceEach, Apart, NEW l \in Lists, NEW s \in Seq(Thread), IsInjective(s),
           held' = [held EXCEPT ![l] = s],
           \A t \in Range(s) : t \in Range(held[l]) \/ \A m \in PriList : l \in PriList => ~ Holds(t, m)
    PROVE  /\ held' \in [Lists -> Seq(Thread)]
           /\ held'[l] = s /\ \A m \in Lists : m # l => held'[m] = held[m]
           /\ OnceEach' /\ Apart'
<1>1. held \in [Lists -> Seq(Thread)]
  BY DEF ListsTypeOK
<1>2. held' \in [Lists -> Seq(Thread)] /\ held'[l] = s /\ \A m \in Lists : m # l => held'[m] = held[m]
  BY <1>1
<1>3. OnceEach'
  BY <1>2 DEF OnceEach
<1>4. \A m \in Lists : m # l => \A t : Holds(t, m)' <=> Holds(t, m)
  BY <1>2 DEF Holds
<1>5. \A t : Holds(t, l)' <=> t \in Range(s)
  BY <1>2 DEF Holds, Range
<1>6. Apart'
  <2>. SUFFICES ASSUME NEW m \in PriList, NEW k \in PriList, NEW t \in Thread,
                       Holds(t, m)', Holds(t, k)'
                PROVE  m = k
    BY DEF Apart
  <2>1. m \in Lists /\ k \in Lists
    BY DEF Lists
  <2>2. CASE m # l /\ k # l
    BY <1>4, <2>1, <2>2 DEF Apart
  <2>3. ASSUME NEW a \in PriList, NEW b \in PriList, a = l, b # l, Holds(t, a)', Holds(t, b)'
        PROVE  FALSE
    <3>1. Holds(t, b) /\ t \in Range(s) /\ b \in Lists
      BY <1>4, <1>5, <2>3 DEF Lists
    <3>2. t \in Range(held[l])
      BY <2>3, <3>1
    <3>3. Holds(t, a)
      BY <2>3, <3>2, HoldsIsRange
    <3>. QED
      BY <2>3, <3>1, <3>3 DEF Apart
  <2>. QED
    BY <2>2, <2>3
<1>. QED
  BY <1>2, <1>3, <1>6

(* Nothing is written.                                                     *)
LEMMA LinksKept ==
    ASSUME LinksInv, UNCHANGED <<next, tlnext, held>>
    PROVE  /\ \A l \in Lists : Spelled(l)'
           /\ OnceEach' /\ Apart'
           /\ \A l : Size(l)' = Size(l)
           /\ \A l, k : NodeAt(l, k)' = NodeAt(l, k)
           /\ \A t, l : Holds(t, l)' <=> Holds(t, l)
BY DEF LinksInv, Spelled, OnceEach, Apart, Size, NodeAt, Holds, After, Link

LEMMA InitLinks == ListsInit => LinksInv
<1>. USE ListAssumption
<1>. SUFFICES ASSUME ListsInit PROVE LinksInv
  OBVIOUS
<1>1. \A l \in Lists : held[l] = <<>> /\ held[l] \in Seq(Thread) /\ Size(l) = 0 /\ DOMAIN held[l] = {}
  <2>1. \A l \in Lists : held[l] = <<>>
    BY DEF ListsInit
  <2>2. <<>> \in Seq(Thread) /\ Len(<<>>) = 0 /\ DOMAIN <<>> = {}
    BY EmptySeq
  <2>. QED
    BY <2>1, <2>2 DEF Size
<1>2. ListsTypeOK
  <2>1. next \in [Node -> Node \union {Null}]
    BY DEF ListsInit, Node
  <2>2. tlnext \in [Thread \union {Fake} -> Node \union {Null}]
    BY DEF ListsInit
  <2>3. held \in [Lists -> Seq(Thread)]
    BY <1>1 DEF ListsInit
  <2>4. passed \in 0 .. WalkBound
    BY DEF ListsInit, WalkBound
  <2>5. next[Fake] = Null /\ tlnext[Fake] = Null
    BY DEF ListsInit, Node
  <2>. QED
    BY <2>1, <2>2, <2>3, <2>4, <2>5 DEF ListsTypeOK, ListsInit
<1>3. \A l \in Lists : Spelled(l)
  <2>. TAKE l \in Lists
  <2>1. NodeAt(l, 0) = l /\ NodeAt(l, 1) = Fake
    BY <1>1 DEF NodeAt
  <2>2. After(l, l) = Fake
    BY DEF ListsInit, After, Node
  <2>. QED
    BY <1>1, <2>1, <2>2 DEF Spelled
<1>4. OnceEach /\ Apart
  BY <1>1 DEF OnceEach, Apart, IsInjective, Holds, Lists
<1>. QED
  BY <1>2, <1>3, <1>4 DEF LinksInv, ListsInit

(* A walk begins at the head pointer.                                      *)
LEMMA BeginKeeps ==
    ASSUME LinksInv, NEW l \in Lists, NEW t \in Thread,
           \/ l \in PriList /\ EnqueueBegin(l, t)
           \/ DestroyBegin(l, t)
    PROVE  LinksInv'
<1>1. /\ UNCHANGED <<next, tlnext, held>>
      /\ thread' = t /\ list' = l /\ pred' = l /\ cur' = next[l] /\ passed' = 0
      /\ \/ pc' = "enqueue" /\ l \in PriList /\ \A m \in PriList : ~ Holds(t, m)
         \/ pc' = "unlink" /\ \A m \in PriList : Holds(t, m) => l = m
  BY DEF EnqueueBegin, DestroyBegin, Walk, linkVars
<1>2. ListsTypeOK /\ Spelled(l)
  BY DEF LinksInv
<1>3. /\ \A k \in Lists : Spelled(k)'
      /\ OnceEach' /\ Apart' /\ Size(l)' = Size(l)
      /\ \A k : NodeAt(l, k)' = NodeAt(l, k)
      /\ \A u, m : Holds(u, m)' <=> Holds(u, m)
  BY <1>1, LinksKept
<1>4. /\ Size(l) \in Nat /\ NodeAt(l, 0) = l /\ NodeAt(l, 1) \in Node
      /\ cur' = NodeAt(l, 1)
  <2>1. Size(l) \in Nat /\ NodeAt(l, 0) = l /\ \A k \in 0 .. Size(l) + 1 : NodeAt(l, k) \in Node
    BY <1>2, ListFacts
  <2>2. After(l, NodeAt(l, 0)) = NodeAt(l, 0 + 1)
    BY <1>2, <2>1 DEF Spelled
  <2>. QED
    BY <1>1, <2>1, <2>2 DEF After
<1>5. ListsTypeOK'
  BY <1>1, <1>2, <1>4, ListAssumption DEF ListsTypeOK, Node, WalkBound
<1>6. pc' = "enqueue" => AtEnqueue'
  <2>. SUFFICES ASSUME pc' = "enqueue" PROVE AtEnqueue'
    OBVIOUS
  <2>1. l \in PriList /\ \A m \in PriList : ~ Holds(t, m)'
    BY <1>1, <1>3
  <2>2. 0 \in 0 .. Size(l)' /\ pred' = NodeAt(l, 0)' /\ cur' = NodeAt(l, 0 + 1)'
        /\ \A j \in 1 .. 0 : Pri[t] <= Pri[held'[l][j]]
    BY <1>1, <1>3, <1>4
  <2>3. \E k \in 0 .. Size(l)' :
           /\ pred' = NodeAt(l, k)' /\ cur' = NodeAt(l, k + 1)'
           /\ \A j \in 1 .. k : Pri[t] <= Pri[held'[l][j]]
    BY <2>2
  <2>. QED
    BY <1>1, <2>1, <2>3 DEF AtEnqueue
<1>7. pc' = "unlink" => AtUnlink'
  <2>. SUFFICES ASSUME pc' = "unlink" PROVE AtUnlink'
    OBVIOUS
  <2>1. \A m \in PriList : Holds(t, m)' => m = l
    BY <1>1, <1>3
  <2>2. 0 <= Size(l)' + 1 /\ 0 # Size(l)' + 1 /\ \A j \in 1 .. Size(l)' : ~ (j <= 0)
    BY <1>3, <1>4
  <2>. QED
    BY <1>1, <1>3, <1>4, <2>1, <2>2 DEF AtUnlink
<1>. QED
  BY <1>3, <1>5, <1>6, <1>7 DEF LinksInv

(* The walk of an insertion passes a thread that outranks the new one.     *)
LEMMA EnqueueWalkKeeps == LinksInv /\ EnqueueWalk => LinksInv'
<1>. SUFFICES ASSUME LinksInv, EnqueueWalk PROVE LinksInv'
  OBVIOUS
<1>1. /\ ListsTypeOK /\ AtEnqueue
      /\ UNCHANGED <<next, tlnext, held, pc, thread, list, passed>>
      /\ pred' = cur /\ cur' = next[cur] /\ pc = "enqueue"
      /\ Pri[thread] <= Priority(cur)
  BY DEF LinksInv, EnqueueWalk, linkVars, Outranked
<1>2. /\ \A l \in Lists : Spelled(l)'
      /\ OnceEach' /\ Apart' /\ Size(list)' = Size(list)
      /\ \A k : NodeAt(list, k)' = NodeAt(list, k)
      /\ \A t, l : Holds(t, l)' <=> Holds(t, l)
  <2>1. list' = list
    BY <1>1
  <2>. QED
    BY <1>1, <2>1, LinksKept
<1>3. list \in PriList /\ list \in Lists /\ list # Active /\ thread \in Thread /\ Spelled(list)
  BY <1>1, ListAssumption DEF AtEnqueue, Lists, LinksInv
<1>4. PICK k \in 0 .. Size(list) :
          /\ pred = NodeAt(list, k) /\ cur = NodeAt(list, k + 1)
          /\ \A j \in 1 .. k : Pri[thread] <= Pri[held[list][j]]
  BY <1>1 DEF AtEnqueue
<1>5. /\ Size(list) \in Nat
      /\ \A j \in 1 .. Size(list) : NodeAt(list, j) = held[list][j] /\ held[list][j] \in Thread
      /\ NodeAt(list, Size(list) + 1) = Fake
      /\ \A j \in 0 .. Size(list) + 1 : NodeAt(list, j) \in Node
  BY <1>1, <1>3, ListFacts
<1>6. k + 1 \in 1 .. Size(list)
  <2>1. cur # Fake
    <3>1. Pri[thread] \in Nat
      BY <1>3, PriAssumption
    <3>. QED
      BY <1>1, <3>1 DEF Priority
  <2>2. k # Size(list)
    BY <1>4, <1>5, <2>1
  <2>. QED
    BY <1>4, <1>5, <2>2
<1>7. cur = held[list][k + 1] /\ Pri[thread] <= Pri[held[list][k + 1]] /\ cur \in Thread
  <2>1. cur = held[list][k + 1] /\ cur \in Thread
    BY <1>4, <1>5, <1>6
  <2>2. cur # Fake
    BY <2>1, ListAssumption
  <2>. QED
    BY <1>1, <2>1, <2>2 DEF Priority
<1>8. next[cur] = NodeAt(list, k + 1 + 1)
  <2>1. After(list, NodeAt(list, k + 1)) = NodeAt(list, k + 1 + 1)
    <3>1. k + 1 \in 0 .. Size(list)
      BY <1>5, <1>6
    <3>. QED
      BY <1>3, <3>1 DEF Spelled
  <2>2. After(list, cur) = next[cur]
    BY <1>3, Follows
  <2>. QED
    BY <1>4, <2>1, <2>2
<1>9. k + 1 \in 0 .. Size(list) /\ k + 1 + 1 \in 0 .. Size(list) + 1 /\ k + 1 \in 0 .. Size(list) + 1
  BY <1>5, <1>6
<1>10. ListsTypeOK'
  <2>1. pred' \in Node /\ cur' \in Node
    BY <1>1, <1>4, <1>5, <1>8, <1>9
  <2>. QED
    BY <1>1, <2>1 DEF ListsTypeOK
<1>11. \A j \in 1 .. k + 1 : Pri[thread] <= Pri[held[list][j]]
  <2>. TAKE j \in 1 .. k + 1
  <2>1. j \in 1 .. k \/ j = k + 1
    BY <1>4, <1>5
  <2>. QED
    BY <1>4, <1>7, <2>1
<1>12. AtEnqueue'
  <2>1. \E n \in 0 .. Size(list) :
           /\ cur = NodeAt(list, n) /\ next[cur] = NodeAt(list, n + 1)
           /\ \A j \in 1 .. n : Pri[thread] <= Pri[held[list][j]]
    BY <1>4, <1>8, <1>9, <1>11
  <2>2. \E n \in 0 .. Size(list)' :
           /\ pred' = NodeAt(list, n)' /\ cur' = NodeAt(list, n + 1)'
           /\ \A j \in 1 .. n : Pri[thread'] <= Pri[held'[list'][j]]
    <3>1. /\ Size(list)' = Size(list) /\ pred' = cur /\ cur' = next[cur] /\ thread' = thread
          /\ held' = held /\ list' = list /\ \A j : NodeAt(list, j)' = NodeAt(list, j)
      BY <1>1, <1>2
    <3>. QED
      BY <2>1, <3>1
  <2>. QED
    BY <1>1, <1>2, <2>2 DEF AtEnqueue
<1>. QED
  BY <1>1, <1>2, <1>10, <1>12 DEF LinksInv

(* Where the walk of an insertion stops is where the sequence is cut.      *)
LEMMA StopsAtInsertPoint ==
    ASSUME NEW s \in Seq(Thread), NEW t \in Thread, NEW k \in 0 .. Len(s),
           \A j \in 1 .. k : Pri[t] <= Pri[s[j]],
           k + 1 <= Len(s) => Pri[s[k + 1]] < Pri[t]
    PROVE  InsertPoint(s, t) = k + 1
<1>. DEFINE p == InsertPoint(s, t)
<1>1. /\ p \in 1 .. Len(s) + 1
      /\ \A j \in 1 .. p - 1 : Pri[t] <= Pri[s[j]]
      /\ p <= Len(s) => Pri[s[p]] < Pri[t]
  BY InsertPointStops
<1>2. Len(s) \in Nat /\ \A j \in 1 .. Len(s) : Pri[s[j]] \in Nat
  BY LenProperties, ElementOfSeq, PriAssumption
<1>3. Pri[t] \in Nat
  BY PriAssumption
<1>. HIDE DEF p
<1>4. ~ (p < k + 1)
  <2>. SUFFICES ASSUME p < k + 1 PROVE FALSE
    OBVIOUS
  <2>1. p \in 1 .. k /\ p \in 1 .. Len(s)
    BY <1>1, <1>2
  <2>2. Pri[t] <= Pri[s[p]] /\ Pri[s[p]] < Pri[t]
    BY <1>1, <2>1
  <2>. QED
    BY <1>2, <1>3, <2>1, <2>2
<1>5. ~ (p > k + 1)
  <2>. SUFFICES ASSUME p > k + 1 PROVE FALSE
    OBVIOUS
  <2>1. k + 1 \in 1 .. p - 1 /\ k + 1 \in 1 .. Len(s)
    BY <1>1, <1>2
  <2>2. Pri[t] <= Pri[s[k + 1]] /\ Pri[s[k + 1]] < Pri[t]
    BY <1>1, <2>1
  <2>. QED
    BY <1>2, <1>3, <2>1, <2>2
<1>. QED
  BY <1>1, <1>2, <1>4, <1>5 DEF p

(* The thread is linked after those that outrank it or equal it.           *)
LEMMA EnqueueLinkKeeps == LinksInv /\ EnqueueLink => LinksInv'
<1>. SUFFICES ASSUME LinksInv, EnqueueLink PROVE LinksInv'
  OBVIOUS
<1>1. /\ ListsTypeOK /\ OnceEach /\ Apart /\ AtEnqueue
      /\ next' = [next EXCEPT ![thread] = cur, ![pred] = thread]
      /\ held' = [held EXCEPT ![list] = EnqueueByPriority(@, thread)]
      /\ tlnext' = tlnext /\ Return
      /\ ~ Outranked
  BY DEF LinksInv, EnqueueLink
<1>2. /\ list \in PriList /\ list \in Lists /\ list # Active /\ thread \in Thread
      /\ \A l \in Lists : Spelled(l)
      /\ \A m \in PriList : ~ Holds(thread, m)
  BY <1>1, ListAssumption DEF AtEnqueue, Lists, LinksInv
<1>3. PICK k \in 0 .. Size(list) :
          /\ pred = NodeAt(list, k) /\ cur = NodeAt(list, k + 1)
          /\ \A j \in 1 .. k : Pri[thread] <= Pri[held[list][j]]
  BY <1>1 DEF AtEnqueue
<1>4. /\ Size(list) \in Nat /\ held[list] \in Seq(Thread)
      /\ \A j \in 1 .. Size(list) : NodeAt(list, j) = held[list][j] /\ held[list][j] \in Thread
      /\ NodeAt(list, 0) = list
      /\ \A j \in 0 .. Size(list) + 1 : NodeAt(list, j) \in Node
  BY <1>1, <1>2, ListFacts
<1>5. k \in 0 .. Size(list) + 1 /\ k + 1 \in 0 .. Size(list) + 1 /\ k + 1 \in 1 .. Size(list) + 1
  BY <1>4
<1>6. pred \in Node /\ cur \in Node /\ thread \in Node /\ pred # thread /\ pred # Fake /\ pred # Active
  <2>1. pred \in Node /\ cur \in Node /\ thread \in Node
    BY <1>2, <1>3, <1>4, <1>5 DEF Node
  <2>2. pred # thread
    BY <1>1, <1>2, <1>3, <1>5, NotNode
  <2>3. pred = list \/ pred \in Thread
    <3>1. k = 0 \/ k \in 1 .. Size(list)
      BY <1>4
    <3>. QED
      BY <1>3, <1>4, <3>1
  <2>4. Active \notin Thread /\ Fake \notin Thread /\ list # Fake
    BY <1>2, ListAssumption DEF Lists
  <2>. QED
    BY <1>2, <2>1, <2>2, <2>3, <2>4
<1>7. /\ next' \in [Node -> Node \union {Null}]
      /\ next'[thread] = cur /\ next'[pred] = thread
      /\ \A n \in Node : n # thread /\ n # pred => next'[n] = next[n]
  BY <1>1, <1>6 DEF ListsTypeOK
<1>. DEFINE e == EnqueueByPriority(held[list], thread)
<1>8. k + 1 = InsertPoint(held[list], thread)
  <2>1. k + 1 <= Size(list) => Pri[held[list][k + 1]] < Pri[thread]
    <3>. SUFFICES ASSUME k + 1 <= Size(list) PROVE Pri[held[list][k + 1]] < Pri[thread]
      OBVIOUS
    <3>1. k + 1 \in 1 .. Size(list)
      BY <1>4
    <3>2. cur = held[list][k + 1] /\ cur \in Thread
      BY <1>3, <1>4, <3>1
    <3>3. cur # Null /\ cur # Fake
      BY <1>6, <3>2, ListAssumption
    <3>4. ~ (Pri[thread] <= Pri[cur])
      BY <1>1, <3>3 DEF Outranked, Priority
    <3>5. Pri[thread] \in Nat /\ Pri[cur] \in Nat
      BY <1>2, <3>2, PriAssumption
    <3>. QED
      BY <3>2, <3>4, <3>5
  <2>2. k \in 0 .. Len(held[list]) /\ (k + 1 <= Len(held[list]) => Pri[held[list][k + 1]] < Pri[thread])
    BY <2>1 DEF Size
  <2>. QED
    BY <1>2, <1>3, <1>4, <2>2, StopsAtInsertPoint
<1>9. /\ e \in Seq(Thread) /\ Len(e) = Size(list) + 1
      /\ \A j \in 1 .. Size(list) + 1 :
            e[j] = IF j < k + 1 THEN held[list][j] ELSE IF j = k + 1 THEN thread ELSE held[list][j - 1]
  <2>. DEFINE p == InsertPoint(held[list], thread)
  <2>1. /\ e \in Seq(Thread) /\ Len(e) = Len(held[list]) + 1
        /\ \A j \in 1 .. Len(held[list]) + 1 :
              e[j] = IF j < p THEN held[list][j] ELSE IF j = p THEN thread ELSE held[list][j - 1]
    BY <1>2, <1>4, EnqueueElements
  <2>2. p = k + 1
    BY <1>8
  <2>. HIDE DEF p, e
  <2>. QED
    BY <2>1, <2>2 DEF Size
<1>10. Range(e) = Range(held[list]) \union {thread} /\ IsInjective(e)
  <2>1. IsInjective(held[list]) /\ thread \notin Range(held[list])
    BY <1>1, <1>2, HoldsIsRange DEF OnceEach
  <2>. QED
    BY <1>2, <1>4, <2>1, EnqueueKeeps
<1>11. held' = [held EXCEPT ![list] = e]
  BY <1>1
<1>. HIDE DEF e
<1>12. /\ held' \in [Lists -> Seq(Thread)] /\ held'[list] = e
       /\ \A m \in Lists : m # list => held'[m] = held[m]
       /\ OnceEach' /\ Apart'
  <2>1. \A t \in Range(e) : t \in Range(held[list]) \/ \A m \in PriList : list \in PriList => ~ Holds(t, m)
    BY <1>2, <1>10
  <2>. QED
    BY <1>1, <1>2, <1>9, <1>10, <1>11, <2>1, HeldChanges
<1>13. \A l \in Lists : Spelled(l)'
  <2>. SUFFICES ASSUME NEW l \in Lists PROVE Spelled(l)'
    OBVIOUS
  <2>1. CASE l = list
    <3>1. \A n \in Node : After(list, n) = next[n] /\ Then(list, n) = next'[n]
      BY <1>2, Follows
    <3>2. Then(list, NodeAt(list, k + 1 - 1)) = thread
      <4>1. k + 1 - 1 = k
        BY <1>4
      <4>. QED
        BY <1>3, <1>6, <1>7, <3>1, <4>1
    <3>3. Then(list, thread) = NodeAt(list, k + 1)
      BY <1>3, <1>6, <1>7, <3>1
    <3>4. \A j \in 0 .. Size(list) :
              j # k + 1 - 1 => Then(list, NodeAt(list, j)) = After(list, NodeAt(list, j))
      <4>. SUFFICES ASSUME NEW j \in 0 .. Size(list), j # k + 1 - 1
                    PROVE  Then(list, NodeAt(list, j)) = After(list, NodeAt(list, j))
        OBVIOUS
      <4>1. j \in 0 .. Size(list) + 1 /\ j # k
        BY <1>4
      <4>2. NodeAt(list, j) # pred
        BY <1>1, <1>2, <1>3, <1>5, <4>1, NodesDiffer DEF OnceEach
      <4>3. NodeAt(list, j) # thread /\ NodeAt(list, j) \in Node
        BY <1>1, <1>2, <1>4, <4>1, NotNode
      <4>. QED
        BY <1>7, <3>1, <4>2, <4>3
    <3>5. Len(held'[list]) = Size(list) + 1
          /\ \A j \in 1 .. Size(list) + 1 :
                held'[list][j] = IF j < k + 1 THEN held[list][j]
                                 ELSE IF j = k + 1 THEN thread ELSE held[list][j - 1]
      BY <1>9, <1>12
    <3>. DEFINE p == k + 1
    <3>6. /\ p \in 1 .. Size(l) + 1
          /\ \A j \in 1 .. Size(l) + 1 :
                held'[l][j] = IF j < p THEN held[l][j] ELSE IF j = p THEN thread ELSE held[l][j - 1]
          /\ Then(l, NodeAt(l, p - 1)) = thread
          /\ Then(l, thread) = NodeAt(l, p)
          /\ \A j \in 0 .. Size(l) : j # p - 1 => Then(l, NodeAt(l, j)) = After(l, NodeAt(l, j))
          /\ Len(held'[l]) = Size(l) + 1
      BY <1>5, <2>1, <3>2, <3>3, <3>4, <3>5
    <3>7. PICK t \in Thread : t = thread
      BY <1>2
    <3>. HIDE DEF p
    <3>8. ListsTypeOK /\ Spelled(l)
      BY <1>1, <1>2
    <3>. QED
      BY <3>6, <3>7, <3>8, SpelledInsert
  <2>2. CASE l = Active
    <3>1. held'[l] = held[l] /\ Spelled(l)
      BY <1>2, <1>12, <2>2
    <3>2. \A n \in Node : Then(l, n) = After(l, n)
      <4>1. next'[Active] = next[Active]
        <5>1. Active \in Node /\ Active # thread
          BY <1>2, <2>2, ListAssumption DEF Node
        <5>. QED
          BY <1>6, <1>7, <5>1
      <4>. QED
        BY <1>1, <2>2, <4>1, Follows
    <3>3. \A j \in 0 .. Size(l) : NodeAt(l, j) \in Node
      <4>1. Size(l) \in Nat /\ \A j \in 0 .. Size(l) + 1 : NodeAt(l, j) \in Node
        BY <1>1, ListFacts
      <4>. QED
        BY <4>1
    <3>. QED
      BY <1>1, <3>1, <3>2, <3>3, SpelledSame
  <2>3. CASE l # list /\ l # Active
    <3>1. l \in PriList /\ held'[l] = held[l] /\ Spelled(l)
      BY <1>2, <1>12, <2>3 DEF Lists
    <3>2. \A j \in 0 .. Size(l) : Then(l, NodeAt(l, j)) = After(l, NodeAt(l, j))
      <4>. TAKE j \in 0 .. Size(l)
      <4>1. j \in 0 .. Size(l) + 1
        BY <1>1, ListFacts
      <4>2. NodeAt(l, j) # pred
        BY <1>1, <1>2, <1>3, <2>3, <3>1, ListsDiffer
      <4>3. NodeAt(l, j) # thread /\ NodeAt(l, j) \in Node
        BY <1>1, <1>2, <3>1, <4>1, NotNode, ListFacts
      <4>. QED
        BY <1>7, <3>1, <4>2, <4>3, Follows
    <3>. QED
      BY <1>1, <3>1, <3>2, SpelledSame
  <2>. QED
    BY <2>1, <2>2, <2>3
<1>14. next'[Fake] = Null
  <2>1. Fake \in Node /\ Fake # thread
    BY <1>2, ListAssumption DEF Node
  <2>. QED
    BY <1>1, <1>6, <1>7, <2>1 DEF ListsTypeOK
<1>15. ListsTypeOK'
  BY <1>1, <1>7, <1>12, <1>14, ListAssumption DEF ListsTypeOK, Return, WalkBound
<1>. QED
  BY <1>1, <1>12, <1>13, <1>15 DEF LinksInv, Return

(* Between operations no walk is at a node.                                *)
LEMMA IdleKeeps ==
    ASSUME LinksInv, UNCHANGED <<pc, walkVars>>, pc = "idle", next' \in [Node -> Node \union {Null}],
           tlnext' \in [Thread \union {Fake} -> Node \union {Null}],
           held' \in [Lists -> Seq(Thread)], next'[Fake] = Null, tlnext'[Fake] = Null,
           \A l \in Lists : Spelled(l)', OnceEach', Apart'
    PROVE  LinksInv'
<1>1. ListsTypeOK'
  BY DEF LinksInv, ListsTypeOK, walkVars
<1>. QED
  BY <1>1 DEF LinksInv

(* The first thread leaves a list: the head pointer takes its link.        *)
LEMMA DequeueKeeps ==
    ASSUME LinksInv, NEW l \in PriList, Dequeue(l)
    PROVE  LinksInv'
<1>1. /\ ListsTypeOK /\ OnceEach /\ Apart /\ \A m \in Lists : Spelled(m)
      /\ pc = "idle" /\ next[next[l]] # Null
      /\ next' = [next EXCEPT ![l] = next[next[l]]]
      /\ held' = [held EXCEPT ![l] = Tail(@)]
      /\ UNCHANGED <<tlnext, pc, walkVars>>
  BY DEF LinksInv, Dequeue
<1>2. l \in Lists /\ l # Active /\ l # Fake /\ l \in Node
  BY ListAssumption DEF Lists, Node
<1>3. /\ Size(l) \in Nat /\ held[l] \in Seq(Thread)
      /\ \A j \in 1 .. Size(l) : NodeAt(l, j) = held[l][j] /\ held[l][j] \in Thread
      /\ NodeAt(l, 0) = l /\ NodeAt(l, Size(l) + 1) = Fake
      /\ \A j \in 0 .. Size(l) + 1 : NodeAt(l, j) \in Node
  BY <1>1, <1>2, ListFacts
<1>4. \A k \in 0 .. Size(l) : next[NodeAt(l, k)] = NodeAt(l, k + 1)
  BY <1>1, <1>2, Follows DEF Spelled
<1>5. next[l] = NodeAt(l, 1)
  <2>1. 0 \in 0 .. Size(l) /\ 0 + 1 = 1
    BY <1>3
  <2>. QED
    BY <1>3, <1>4, <2>1
<1>6. Size(l) # 0
  <2>1. next[Fake] = Null
    BY <1>1 DEF ListsTypeOK
  <2>. QED
    BY <1>1, <1>3, <1>5, <2>1
<1>7. next[next[l]] = NodeAt(l, 2) /\ NodeAt(l, 2) \in Node
  <2>1. 1 \in 0 .. Size(l) /\ 1 + 1 = 2 /\ 2 \in 0 .. Size(l) + 1
    BY <1>3, <1>6
  <2>. QED
    BY <1>3, <1>4, <1>5, <2>1
<1>8. /\ next' \in [Node -> Node \union {Null}] /\ next'[l] = NodeAt(l, 2)
      /\ \A n \in Node : n # l => next'[n] = next[n]
  BY <1>1, <1>2, <1>7 DEF ListsTypeOK
<1>. DEFINE r == Tail(held[l])
<1>9. /\ held[l] # <<>> /\ r \in Seq(Thread) /\ Len(r) = Size(l) - 1
      /\ \A k \in 1 .. Size(l) - 1 : r[k] = held[l][k + 1]
      /\ IsInjective(r) /\ Range(r) \subseteq Range(held[l])
  <2>1. held[l] # <<>> /\ IsInjective(held[l])
    BY <1>1, <1>2, <1>3, <1>6, EmptySeq DEF OnceEach, Size
  <2>2. r \in Seq(Thread) /\ Len(r) = Size(l) - 1 /\ \A k \in 1 .. Len(r) : r[k] = held[l][k + 1]
    BY <1>3, <2>1, HeadTailProperties DEF Size
  <2>3. IsInjective(r) /\ Range(r) = Range(held[l]) \ {Head(held[l])}
    BY <1>3, <2>1, TailKeeps
  <2>. QED
    BY <2>1, <2>2, <2>3
<1>10. held' = [held EXCEPT ![l] = r]
  BY <1>1
<1>. HIDE DEF r
<1>11. /\ held' \in [Lists -> Seq(Thread)] /\ held'[l] = r
       /\ \A m \in Lists : m # l => held'[m] = held[m]
       /\ OnceEach' /\ Apart'
  <2>1. \A t \in Range(r) : t \in Range(held[l]) \/ \A m \in PriList : l \in PriList => ~ Holds(t, m)
    BY <1>9
  <2>. QED
    BY <1>1, <1>2, <1>9, <1>10, <2>1, HeldChanges
<1>12. \A m \in Lists : Spelled(m)'
  <2>. SUFFICES ASSUME NEW m \in Lists PROVE Spelled(m)'
    OBVIOUS
  <2>1. CASE m = l
    <3>. DEFINE p == 1
    <3>1. \A n : Then(l, n) = next'[n] /\ After(l, n) = next[n]
      BY Follows
    <3>2. p \in 1 .. Size(l) /\ p - 1 = 0 /\ p + 1 = 2
      BY <1>3, <1>6
    <3>3. Then(l, NodeAt(l, p - 1)) = NodeAt(l, p + 1)
      BY <1>3, <1>8, <3>1, <3>2
    <3>4. \A k \in 0 .. Size(l) :
              k \notin {p - 1, p} => Then(l, NodeAt(l, k)) = After(l, NodeAt(l, k))
      <4>. SUFFICES ASSUME NEW k \in 0 .. Size(l), k \notin {p - 1, p}
                    PROVE  Then(l, NodeAt(l, k)) = After(l, NodeAt(l, k))
        OBVIOUS
      <4>1. k \in 0 .. Size(l) + 1 /\ 0 \in 0 .. Size(l) + 1 /\ k # 0
        BY <1>3
      <4>2. NodeAt(l, k) # l
        BY <1>1, <1>2, <1>3, <4>1, NodesDiffer DEF OnceEach
      <4>3. NodeAt(l, k) \in Node
        BY <1>3, <4>1
      <4>. QED
        BY <1>8, <3>1, <4>2, <4>3
    <3>5. \A k \in 1 .. Size(l) - 1 : held'[l][k] = IF k < p THEN held[l][k] ELSE held[l][k + 1]
      BY <1>9, <1>11
    <3>6. Len(held'[l]) = Size(l) - 1
      BY <1>9, <1>11
    <3>. HIDE DEF p
    <3>7. Spelled(l)'
      BY <1>1, <1>2, <3>2, <3>3, <3>4, <3>5, <3>6, SpelledRemove
    <3>. QED
      BY <2>1, <3>7
  <2>2. CASE m # l
    <3>1. held'[m] = held[m] /\ Spelled(m)
      BY <1>1, <1>11, <2>2
    <3>2. \A k \in 0 .. Size(m) : NodeAt(m, k) # l /\ NodeAt(m, k) \in Node
      <4>. TAKE k \in 0 .. Size(m)
      <4>1. /\ Size(m) \in Nat /\ NodeAt(m, 0) = m
            /\ \A j \in 1 .. Size(m) : NodeAt(m, j) = held[m][j] /\ held[m][j] \in Thread
            /\ \A j \in 0 .. Size(m) + 1 : NodeAt(m, j) \in Node
        BY <1>1, ListFacts
      <4>2. k = 0 \/ k \in 1 .. Size(m)
        BY <4>1
      <4>3. k \in 0 .. Size(m) + 1
        BY <4>1
      <4>. QED
        BY <1>2, <2>2, <4>1, <4>2, <4>3, ListAssumption
    <3>3. \A k \in 0 .. Size(m) : Then(m, NodeAt(m, k)) = After(m, NodeAt(m, k))
      BY <1>1, <1>8, <3>2, AfterIs DEF Then
    <3>. QED
      BY <1>1, <3>1, <3>3, SpelledSame
  <2>. QED
    BY <2>1, <2>2
<1>13. next'[Fake] = Null /\ tlnext'[Fake] = Null /\ tlnext' \in [Thread \union {Fake} -> Node \union {Null}]
  <2>1. Fake \in Node
    BY DEF Node
  <2>. QED
    BY <1>1, <1>2, <1>8, <2>1 DEF ListsTypeOK
<1>. QED
  BY <1>1, <1>8, <1>11, <1>12, <1>13, IdleKeeps

(* A new thread comes first in the active list.                            *)
LEMMA CreateKeeps ==
    ASSUME LinksInv, NEW t \in Thread, Create(t)
    PROVE  LinksInv'
<1>1. /\ ListsTypeOK /\ OnceEach /\ Apart /\ \A m \in Lists : Spelled(m)
      /\ pc = "idle" /\ ~ Holds(t, Active)
      /\ tlnext' = [tlnext EXCEPT ![t] = next[Active]]
      /\ next' = [next EXCEPT ![Active] = t]
      /\ held' = [held EXCEPT ![Active] = <<t>> \o @]
      /\ UNCHANGED <<pc, walkVars>>
  BY DEF LinksInv, Create
<1>2. Active \in Lists /\ Active \in Node /\ Active # Fake /\ Active # t /\ t # Fake /\ t \in Node
  BY ListAssumption DEF Lists, Node
<1>3. /\ Size(Active) \in Nat /\ held[Active] \in Seq(Thread) /\ DOMAIN held[Active] = 1 .. Size(Active)
      /\ \A j \in 1 .. Size(Active) : NodeAt(Active, j) = held[Active][j] /\ held[Active][j] \in Thread
      /\ NodeAt(Active, 0) = Active
      /\ \A j \in 0 .. Size(Active) + 1 : NodeAt(Active, j) \in Node
  BY <1>1, <1>2, ListFacts
<1>4. next[Active] = NodeAt(Active, 1) /\ NodeAt(Active, 1) \in Node
  <2>1. 0 \in 0 .. Size(Active) /\ 0 + 1 = 1 /\ 1 \in 0 .. Size(Active) + 1
    BY <1>3
  <2>2. After(Active, NodeAt(Active, 0)) = NodeAt(Active, 0 + 1)
    BY <1>1, <1>2, <2>1 DEF Spelled
  <2>. QED
    BY <1>3, <2>1, <2>2, Follows
<1>5. /\ next' \in [Node -> Node \union {Null}] /\ next'[Active] = t
      /\ \A n \in Node : n # Active => next'[n] = next[n]
      /\ tlnext' \in [Thread \union {Fake} -> Node \union {Null}] /\ tlnext'[t] = NodeAt(Active, 1)
      /\ \A n \in Thread \union {Fake} : n # t => tlnext'[n] = tlnext[n]
  BY <1>1, <1>2, <1>4 DEF ListsTypeOK
<1>. DEFINE s == held[Active]
            r == <<t>> \o s
<1>6. /\ r \in Seq(Thread) /\ Len(r) = Size(Active) + 1
      /\ \A k \in 1 .. Size(Active) + 1 : r[k] = IF k = 1 THEN t ELSE s[k - 1]
  <2>1. <<t>> \in Seq(Thread) /\ Len(<<t>>) = 1 /\ <<t>>[1] = t
    OBVIOUS
  <2>2. /\ r \in Seq(Thread) /\ Len(r) = 1 + Len(s)
        /\ \A k \in 1 .. 1 + Len(s) : r[k] = IF k <= 1 THEN <<t>>[k] ELSE s[k - 1]
    BY <1>3, <2>1, ConcatProperties
  <2>. HIDE DEF s, r
  <2>3. \A k \in 1 .. Size(Active) + 1 : r[k] = IF k = 1 THEN t ELSE s[k - 1]
    <3>. TAKE k \in 1 .. Size(Active) + 1
    <3>1. CASE k = 1
      BY <1>3, <2>1, <2>2, <3>1 DEF Size, s
    <3>2. CASE k # 1
      BY <1>3, <2>2, <3>2 DEF Size, s
    <3>. QED
      BY <3>1, <3>2
  <2>. QED
    BY <1>3, <2>2, <2>3 DEF Size, s
<1>7. held' = [held EXCEPT ![Active] = r]
  BY <1>1
<1>8. IsInjective(s) /\ \A k \in 1 .. Size(Active) : s[k] # t
  BY <1>1, <1>2, <1>3 DEF OnceEach, Holds
<1>. HIDE DEF s, r
<1>9. IsInjective(r) /\ \A u \in Range(r) : u = t \/ u \in Range(s)
  <2>1. DOMAIN r = 1 .. Size(Active) + 1 /\ DOMAIN s = 1 .. Size(Active)
    BY <1>3, <1>6, LenProperties DEF s
  <2>2. ASSUME NEW j \in 1 .. Size(Active) + 1, NEW k \in 1 .. Size(Active) + 1, r[j] = r[k]
        PROVE  j = k
    <3>1. /\ j = 1 \/ j - 1 \in 1 .. Size(Active)
          /\ k = 1 \/ k - 1 \in 1 .. Size(Active)
      BY <1>3
    <3>2. CASE j # 1 /\ k # 1
      <4>1. s[j - 1] = s[k - 1] /\ j - 1 \in DOMAIN s /\ k - 1 \in DOMAIN s
        BY <1>6, <2>1, <2>2, <3>1, <3>2
      <4>2. j - 1 = k - 1
        BY <1>8, <4>1 DEF IsInjective
      <4>. QED
        BY <1>3, <4>2
    <3>3. CASE j = 1 \/ k = 1
      BY <1>6, <1>8, <2>2, <3>1, <3>3
    <3>. QED
      BY <3>2, <3>3
  <2>3. IsInjective(r)
    BY <2>1, <2>2 DEF IsInjective
  <2>4. ASSUME NEW k \in 1 .. Size(Active) + 1
        PROVE  r[k] = t \/ \E j \in 1 .. Size(Active) : r[k] = s[j]
    <3>1. k # 1 => k - 1 \in 1 .. Size(Active)
      BY <1>3
    <3>. QED
      BY <1>6, <3>1
  <2>. QED
    BY <2>1, <2>3, <2>4 DEF Range
<1>10. /\ held' \in [Lists -> Seq(Thread)] /\ held'[Active] = r
       /\ \A m \in Lists : m # Active => held'[m] = held[m]
       /\ OnceEach' /\ Apart'
  <2>1. \A u \in Range(r) : u \in Range(held[Active])
                            \/ \A m \in PriList : Active \in PriList => ~ Holds(u, m)
    BY ListAssumption
  <2>. QED
    BY <1>1, <1>2, <1>6, <1>7, <1>9, <2>1, HeldChanges
<1>11. \A m \in Lists : Spelled(m)'
  <2>. SUFFICES ASSUME NEW m \in Lists PROVE Spelled(m)'
    OBVIOUS
  <2>1. CASE m = Active
    <3>. DEFINE p == 1
    <3>1. p \in 1 .. Size(Active) + 1 /\ p - 1 = 0
      BY <1>3
    <3>2. Then(Active, NodeAt(Active, p - 1)) = t /\ Then(Active, t) = NodeAt(Active, p)
      BY <1>2, <1>3, <1>5, <3>1, Follows
    <3>3. \A k \in 0 .. Size(Active) :
              k # p - 1 => Then(Active, NodeAt(Active, k)) = After(Active, NodeAt(Active, k))
      <4>. SUFFICES ASSUME NEW k \in 0 .. Size(Active), k # p - 1
                    PROVE  Then(Active, NodeAt(Active, k)) = After(Active, NodeAt(Active, k))
        OBVIOUS
      <4>1. k \in 1 .. Size(Active) /\ k \in 0 .. Size(Active) + 1
        BY <1>3
      <4>2. NodeAt(Active, k) \in Thread /\ NodeAt(Active, k) # t
        BY <1>1, <1>2, <1>3, <4>1, NotNode
      <4>3. NodeAt(Active, k) # Active
        BY <1>2, <4>2, ListAssumption
      <4>. QED
        BY <1>5, <4>2, <4>3, Follows
    <3>4. \A k \in 1 .. Size(Active) + 1 :
              held'[Active][k] = IF k < p THEN held[Active][k]
                                 ELSE IF k = p THEN t ELSE held[Active][k - 1]
      BY <1>6, <1>10 DEF s
    <3>5. Len(held'[Active]) = Size(Active) + 1
      BY <1>6, <1>10
    <3>. HIDE DEF p
    <3>6. Spelled(Active)'
      BY <1>1, <1>2, <3>1, <3>2, <3>3, <3>4, <3>5, SpelledInsert
    <3>. QED
      BY <2>1, <3>6
  <2>2. CASE m # Active
    <3>1. m \in PriList /\ held'[m] = held[m] /\ Spelled(m)
      BY <1>1, <1>10, <2>2 DEF Lists
    <3>2. \A k \in 0 .. Size(m) : NodeAt(m, k) # Active /\ NodeAt(m, k) \in Node
      <4>. TAKE k \in 0 .. Size(m)
      <4>1. /\ Size(m) \in Nat /\ NodeAt(m, 0) = m
            /\ \A j \in 1 .. Size(m) : NodeAt(m, j) = held[m][j] /\ held[m][j] \in Thread
            /\ \A j \in 0 .. Size(m) + 1 : NodeAt(m, j) \in Node
        BY <1>1, ListFacts
      <4>2. k = 0 \/ k \in 1 .. Size(m)
        BY <4>1
      <4>3. k \in 0 .. Size(m) + 1
        BY <4>1
      <4>. QED
        BY <1>2, <2>2, <4>1, <4>2, <4>3, ListAssumption
    <3>3. \A k \in 0 .. Size(m) : Then(m, NodeAt(m, k)) = After(m, NodeAt(m, k))
      BY <1>5, <3>1, <3>2, Follows
    <3>. QED
      BY <1>1, <3>1, <3>3, SpelledSame
  <2>. QED
    BY <2>1, <2>2
<1>12. next'[Fake] = Null /\ tlnext'[Fake] = Null
  <2>1. Fake \in Node
    BY DEF Node
  <2>. QED
    BY <1>1, <1>2, <1>5, <2>1 DEF ListsTypeOK
<1>. QED
  BY <1>1, <1>5, <1>10, <1>11, <1>12, IdleKeeps

(* The walk of a removal passes a node that is not the thread's.           *)
LEMMA UnlinkWalkKeeps == LinksInv /\ UnlinkWalk => LinksInv'
<1>. SUFFICES ASSUME LinksInv, UnlinkWalk PROVE LinksInv'
  OBVIOUS
<1>1. /\ ListsTypeOK /\ AtUnlink
      /\ UNCHANGED <<next, tlnext, held, pc, thread, list>>
      /\ pred' = cur /\ cur' = Link(list)[cur] /\ passed' = passed + 1
      /\ pc = "unlink" /\ cur # Null /\ passed < WalkBound /\ cur # thread
  BY DEF LinksInv, UnlinkWalk, linkVars, Searching
<1>2. /\ \A l \in Lists : Spelled(l)'
      /\ OnceEach' /\ Apart' /\ Size(list)' = Size(list)
      /\ \A k : NodeAt(list, k)' = NodeAt(list, k)
      /\ \A t, l : Holds(t, l)' <=> Holds(t, l)
  <2>1. list' = list
    BY <1>1
  <2>. QED
    BY <1>1, <2>1, LinksKept
<1>3. /\ list \in Lists /\ thread \in Thread /\ Spelled(list)
      /\ pred = NodeAt(list, passed) /\ passed <= Size(list) + 1
      /\ passed <= Size(list) => cur = NodeAt(list, passed + 1)
      /\ passed = Size(list) + 1 => cur = Null
      /\ \A j \in 1 .. Size(list) : j <= passed => held[list][j] # thread
      /\ \A m \in PriList : Holds(thread, m) => m = list
  BY <1>1 DEF AtUnlink, LinksInv
<1>4. /\ Size(list) \in Nat
      /\ \A j \in 1 .. Size(list) : NodeAt(list, j) = held[list][j] /\ held[list][j] \in Thread
      /\ NodeAt(list, Size(list) + 1) = Fake
      /\ \A j \in 0 .. Size(list) + 1 : NodeAt(list, j) \in Node
  BY <1>1, <1>3, ListFacts
<1>5. /\ passed \in Nat /\ WalkBound \in Nat /\ passed + 1 \in 0 .. WalkBound
      /\ passed <= Size(list) /\ cur = NodeAt(list, passed + 1)
      /\ passed + 1 \in 1 .. Size(list) + 1
  <2>1. passed \in Nat /\ WalkBound \in Nat
    BY <1>1, ListAssumption DEF ListsTypeOK, WalkBound
  <2>. QED
    BY <1>1, <1>3, <1>4, <2>1
<1>12. PICK p \in Nat : p = passed + 1
  BY <1>5
<1>6. p \in Nat /\ p \in 1 .. Size(list) + 1 /\ p \in 0 .. WalkBound /\ cur = NodeAt(list, p) /\ passed' = p
      /\ \A j \in 1 .. Size(list) : j <= p /\ j # p => held[list][j] # thread
  BY <1>1, <1>3, <1>4, <1>5, <1>12
<1>7. pred' = NodeAt(list, p) /\ pred' \in Node
  <2>1. p \in 0 .. Size(list) + 1
    BY <1>4, <1>6
  <2>. QED
    BY <1>1, <1>4, <1>6, <2>1
<1>8. /\ p <= Size(list) => cur' = NodeAt(list, p + 1) /\ held[list][p] # thread
      /\ p = Size(list) + 1 => cur' = Null
      /\ cur' \in Node \union {Null}
  <2>1. CASE p \in 1 .. Size(list)
    <3>1. cur \in Thread /\ cur # list /\ held[list][p] # thread
      BY <1>1, <1>3, <1>4, <1>6, <2>1, ListAssumption
    <3>2. p \in 0 .. Size(list) /\ p + 1 \in 0 .. Size(list) + 1 /\ p # Size(list) + 1
      BY <1>4, <2>1
    <3>3. After(list, cur) = NodeAt(list, p + 1)
      BY <1>3, <1>6, <3>2 DEF Spelled
    <3>4. After(list, cur) = Link(list)[cur]
      BY <3>1 DEF After
    <3>. QED
      BY <1>1, <1>4, <3>1, <3>2, <3>3, <3>4
  <2>2. CASE p = Size(list) + 1
    <3>1. cur = Fake
      BY <1>4, <1>6, <2>2
    <3>2. Link(list)[Fake] = Null
      BY <1>1 DEF Link, ListsTypeOK
    <3>3. ~ (p <= Size(list))
      BY <1>4, <2>2
    <3>. QED
      BY <1>1, <3>1, <3>2, <3>3
  <2>. QED
    BY <1>4, <1>6, <2>1, <2>2
<1>9. ListsTypeOK'
  BY <1>1, <1>6, <1>7, <1>8 DEF ListsTypeOK
<1>10. \A j \in 1 .. Size(list) : j <= p => held[list][j] # thread
  BY <1>4, <1>6, <1>8
<1>11. AtUnlink'
  <2>1. thread' \in Thread /\ list' \in Lists /\ \A m \in PriList : Holds(thread, m)' => m = list'
    BY <1>1, <1>2, <1>3
  <2>2. passed' <= Size(list)' + 1 /\ pred' = NodeAt(list, p)'
    BY <1>2, <1>4, <1>6, <1>7
  <2>3. /\ passed' <= Size(list)' => cur' = NodeAt(list, p + 1)'
        /\ passed' = Size(list)' + 1 => cur' = Null
    BY <1>2, <1>4, <1>6, <1>8
  <2>4. \A j \in 1 .. Size(list)' : j <= passed' => held'[list'][j] # thread'
    BY <1>1, <1>2, <1>6, <1>10
  <2>. QED
    BY <1>1, <1>2, <1>6, <2>1, <2>2, <2>3, <2>4 DEF AtUnlink
<1>. QED
  BY <1>1, <1>2, <1>9, <1>11 DEF LinksInv

(* An unsuccessful search has come to the end of the list.                 *)
LEMMA SearchIsComplete ==
    ASSUME LinksInv, pc = "unlink", ~ Searching
    PROVE  ~ Holds(thread, list) /\ Unlink(held[list], thread) = held[list]
<1>1. /\ ListsTypeOK /\ list \in Lists /\ OnceEach /\ passed \in Nat /\ passed <= Size(list) + 1
      /\ passed <= Size(list) => cur = NodeAt(list, passed + 1)
      /\ \A j \in 1 .. Size(list) : j <= passed => held[list][j] # thread
      /\ cur = Null \/ ~ (passed < WalkBound)
  BY DEF LinksInv, ListsTypeOK, AtUnlink, Searching
<1>2. /\ Size(list) \in Nat /\ held[list] \in Seq(Thread) /\ DOMAIN held[list] = 1 .. Size(list)
      /\ \A j \in 0 .. Size(list) + 1 : NodeAt(list, j) \in Node
  BY <1>1, ListFacts
<1>3. Size(list) <= WalkBound /\ WalkBound \in Nat
  BY <1>1, <1>2, ListFits, ListAssumption DEF OnceEach, Size, WalkBound
<1>4. Size(list) <= passed
  <2>1. CASE cur = Null
    <3>1. ~ (passed <= Size(list))
      <4>. SUFFICES ASSUME passed <= Size(list) PROVE FALSE
        OBVIOUS
      <4>1. passed + 1 \in 0 .. Size(list) + 1
        BY <1>1, <1>2
      <4>. QED
        BY <1>1, <1>2, <2>1, <4>1, ListAssumption
    <3>. QED
      BY <1>1, <1>2, <3>1
  <2>2. CASE ~ (passed < WalkBound)
    BY <1>1, <1>2, <1>3, <2>2
  <2>. QED
    BY <1>1, <2>1, <2>2
<1>5. \A j \in 1 .. Size(list) : held[list][j] # thread
  BY <1>1, <1>2, <1>4
<1>. QED
  BY <1>2, <1>5 DEF Holds, Unlink

(* Then the active list is searched from its head pointer.                 *)
LEMMA ActiveSearchBegins ==
    ASSUME ListsTypeOK', \A l \in Lists : Spelled(l)', OnceEach', Apart',
           pc' = "unlink", thread' \in Thread, list' = Active, pred' = Active,
           cur' = next'[Active], passed' = 0,
           \A m \in PriList : ~ Holds(thread, m)'
    PROVE  LinksInv'
<1>1. Active \in Lists
  BY DEF Lists
<1>2. Size(Active)' \in Nat
  <2>1. held'[Active] \in Seq(Thread)
    BY <1>1 DEF ListsTypeOK
  <2>. QED
    BY <2>1, LenProperties DEF Size
<1>3. NodeAt(Active, 0)' = Active
  BY DEF NodeAt
<1>4. cur' = NodeAt(Active, 1)'
  <2>1. 0 \in 0 .. Size(Active)' /\ 0 + 1 = 1
    BY <1>2
  <2>2. After(Active, NodeAt(Active, 0))' = NodeAt(Active, 0 + 1)'
    BY <1>1, <2>1 DEF Spelled
  <2>. QED
    BY <1>3, <2>1, <2>2 DEF After
<1>5. AtUnlink'
  <2>1. 0 <= Size(Active)' + 1 /\ 0 # Size(Active)' + 1 /\ \A j \in 1 .. Size(Active)' : ~ (j <= 0)
    BY <1>2
  <2>2. 0 + 1 = 1
    OBVIOUS
  <2>. QED
    BY <1>1, <1>3, <1>4, <2>1, <2>2 DEF AtUnlink
<1>. QED
  BY <1>5 DEF LinksInv

(* A search that finds nothing writes no link.                             *)
LEMMA UnlinkMissKeeps == LinksInv /\ UnlinkMiss => LinksInv'
<1>. SUFFICES ASSUME LinksInv, UnlinkMiss PROVE LinksInv'
  OBVIOUS
<1>1. /\ ListsTypeOK /\ OnceEach /\ Apart /\ AtUnlink /\ \A l \in Lists : Spelled(l)
      /\ Search(list, next, tlnext)
      /\ held' = [held EXCEPT ![list] = Unlink(@, thread)]
      /\ pc = "unlink" /\ ~ Searching
  BY DEF LinksInv, UnlinkMiss
<1>2. /\ list \in Lists /\ thread \in Thread
      /\ \A m \in PriList : Holds(thread, m) => m = list
  BY <1>1 DEF AtUnlink
<1>3. ~ Holds(thread, list) /\ Unlink(held[list], thread) = held[list]
  BY <1>1, SearchIsComplete
<1>4. held' = held
  BY <1>1, <1>2, <1>3 DEF ListsTypeOK
<1>5. \A m \in PriList : ~ Holds(thread, m)
  BY <1>2, <1>3
<1>6. CASE list # Active
  <2>1. /\ pc' = "unlink" /\ list' = Active /\ pred' = Active /\ cur' = next[Active] /\ passed' = 0
        /\ next' = next /\ tlnext' = tlnext /\ thread' = thread
    BY <1>1, <1>6 DEF Search
  <2>2. /\ \A l \in Lists : Spelled(l)'
        /\ OnceEach' /\ Apart' /\ \A t, l : Holds(t, l)' <=> Holds(t, l)
    BY <1>4, <2>1, LinksKept
  <2>3. \A m \in PriList : ~ Holds(thread, m)'
    BY <1>5, <2>1, <2>2
  <2>4. ListsTypeOK'
    <3>1. Active \in Node /\ next[Active] \in Node \union {Null}
      BY <1>1 DEF Node, Lists, ListsTypeOK
    <3>2. 0 \in 0 .. WalkBound
      BY ListAssumption DEF WalkBound
    <3>3. Active \in Lists
      BY DEF Lists
    <3>. QED
      BY <1>1, <1>4, <2>1, <3>1, <3>2, <3>3 DEF ListsTypeOK
  <2>. QED
    BY <1>2, <2>1, <2>2, <2>3, <2>4, ActiveSearchBegins
<1>7. CASE list = Active
  <2>1. /\ next' = [next EXCEPT ![thread] = Null]
        /\ tlnext' = [tlnext EXCEPT ![thread] = Null]
        /\ Return
    BY <1>1, <1>7 DEF Search
  <2>2. \A l \in Lists : ~ Holds(thread, l)
    BY <1>3, <1>5, <1>7 DEF Lists
  <2>3. PICK t \in Thread : t = thread
    BY <1>2
  <2>4. t # Fake /\ t \in Node /\ Fake \in Node /\ \A l \in Lists : l # t
    BY ListAssumption DEF Node
  <2>5. /\ next' \in [Node -> Node \union {Null}] /\ tlnext' \in [Thread \union {Fake} -> Node \union {Null}]
        /\ \A n \in Node : n # t => next'[n] = next[n]
        /\ \A n \in Thread \union {Fake} : n # t => tlnext'[n] = tlnext[n]
    BY <1>1, <2>1, <2>3, <2>4 DEF ListsTypeOK
  <2>6. \A l \in Lists : Spelled(l)'
    <3>. SUFFICES ASSUME NEW l \in Lists PROVE Spelled(l)'
      OBVIOUS
    <3>1. ~ Holds(t, l)
      BY <2>2, <2>3
    <3>2. /\ Size(l) \in Nat /\ NodeAt(l, 0) = l
          /\ \A k \in 1 .. Size(l) : NodeAt(l, k) = held[l][k] /\ held[l][k] \in Thread
      BY <1>1, ListFacts
    <3>3. \A k \in 0 .. Size(l) : NodeAt(l, k) # t
      <4>1. \A k \in 0 .. Size(l) + 1 : NodeAt(l, k) # t
        BY <1>1, <3>1, NotNode
      <4>. QED
        BY <3>2, <4>1
    <3>4. \A k \in 0 .. Size(l) : Then(l, NodeAt(l, k)) = After(l, NodeAt(l, k))
      <4>. SUFFICES ASSUME NEW k \in 0 .. Size(l)
                    PROVE  Then(l, NodeAt(l, k)) = After(l, NodeAt(l, k))
        OBVIOUS
      <4>1. k = 0 \/ k \in 1 .. Size(l)
        BY <3>2
      <4>2. NodeAt(l, k) = l \/ NodeAt(l, k) \in Thread
        BY <3>2, <4>1
      <4>3. NodeAt(l, k) # t /\ NodeAt(l, k) \in Node
        BY <3>3, <4>2 DEF Node
      <4>4. next'[NodeAt(l, k)] = next[NodeAt(l, k)]
        BY <2>5, <4>3
      <4>5. NodeAt(l, k) # l => tlnext'[NodeAt(l, k)] = tlnext[NodeAt(l, k)]
        BY <2>5, <4>2, <4>3
      <4>. QED
        BY <4>4, <4>5, AfterIs DEF Then
    <3>. QED
      BY <1>1, <1>4, <3>4, SpelledSame
  <2>7. OnceEach' /\ Apart'
    BY <1>1, <1>4 DEF OnceEach, Apart, Holds
  <2>8. ListsTypeOK'
    <3>1. next'[Fake] = Null /\ tlnext'[Fake] = Null
      BY <1>1, <2>4, <2>5 DEF ListsTypeOK
    <3>2. 0 \in 0 .. WalkBound
      BY ListAssumption DEF WalkBound
    <3>. QED
      BY <1>1, <1>4, <2>1, <2>5, <3>1, <3>2 DEF ListsTypeOK, Return
  <2>. QED
    BY <2>1, <2>6, <2>7, <2>8 DEF LinksInv, Return
<1>. QED
  BY <1>6, <1>7

(* Where a successful search has stopped.                                  *)
LEMMA SearchFinds ==
    ASSUME LinksInv, pc = "unlink", Searching, cur = thread
    PROVE  \E p \in 1 .. Size(list) :
              /\ pred = NodeAt(list, p - 1)
              /\ NodeAt(list, p) = thread /\ Link(list)[cur] = NodeAt(list, p + 1)
              /\ Unlink(held[list], thread) \in Seq(Thread)
              /\ Len(Unlink(held[list], thread)) = Size(list) - 1
              /\ \A k \in 1 .. Size(list) - 1 :
                     Unlink(held[list], thread)[k] = IF k < p THEN held[list][k] ELSE held[list][k + 1]
<1>1. /\ ListsTypeOK /\ OnceEach /\ list \in Lists /\ thread \in Thread /\ Spelled(list)
      /\ passed \in Nat /\ passed <= Size(list) + 1 /\ pred = NodeAt(list, passed)
      /\ passed <= Size(list) => cur = NodeAt(list, passed + 1)
      /\ passed = Size(list) + 1 => cur = Null
      /\ cur # Null /\ cur = thread
  BY DEF LinksInv, ListsTypeOK, AtUnlink, Searching
<1>2. /\ Size(list) \in Nat /\ held[list] \in Seq(Thread) /\ DOMAIN held[list] = 1 .. Size(list)
      /\ \A k \in 1 .. Size(list) : NodeAt(list, k) = held[list][k]
      /\ NodeAt(list, Size(list) + 1) = Fake
  BY <1>1, ListFacts
<1>3. passed <= Size(list)
  BY <1>1, <1>2
<1>4. PICK p \in Nat : p = passed + 1
  BY <1>1
<1>5. cur = NodeAt(list, p) /\ pred = NodeAt(list, p - 1)
  <2>1. p - 1 = passed
    BY <1>1, <1>4
  <2>. QED
    BY <1>1, <1>3, <1>4, <2>1
<1>6. p \in 1 .. Size(list)
  <2>1. p # Size(list) + 1
    BY <1>1, <1>2, <1>5, ListAssumption
  <2>. QED
    BY <1>1, <1>2, <1>3, <1>4, <2>1
<1>7. held[list][p] = thread
  BY <1>1, <1>2, <1>5, <1>6
<1>8. Link(list)[cur] = NodeAt(list, p + 1)
  <2>1. After(list, NodeAt(list, p)) = NodeAt(list, p + 1)
    BY <1>1, <1>2, <1>6 DEF Spelled
  <2>2. cur # list
    BY <1>1, ListAssumption
  <2>. QED
    BY <1>5, <2>1, <2>2 DEF After
<1>. DEFINE s == Unlink(held[list], thread)
<1>9. PICK r \in 1 .. Len(held[list]) :
          /\ held[list][r] = thread
          /\ s \in Seq(Thread) /\ Len(s) = Len(held[list]) - 1
          /\ \A k \in 1 .. Len(held[list]) - 1 :
                 s[k] = IF k < r THEN held[list][k] ELSE held[list][k + 1]
  <2>1. \E k \in DOMAIN held[list] : held[list][k] = thread
    BY <1>2, <1>6, <1>7
  <2>. QED
    BY <1>2, <2>1, UnlinkElements
<1>10. r = p
  <2>1. IsInjective(held[list])
    BY <1>1 DEF OnceEach
  <2>2. r \in DOMAIN held[list] /\ p \in DOMAIN held[list]
    BY <1>2, <1>6, <1>9 DEF Size
  <2>. QED
    BY <1>7, <1>9, <2>1, <2>2 DEF IsInjective
<1>. HIDE DEF s
<1>11. /\ s \in Seq(Thread) /\ Len(s) = Size(list) - 1
       /\ \A k \in 1 .. Size(list) - 1 : s[k] = IF k < p THEN held[list][k] ELSE held[list][k + 1]
  BY <1>9, <1>10 DEF Size
<1>. QED
  BY <1>1, <1>5, <1>6, <1>8, <1>11 DEF s

(* The predecessor of the thread takes its link.                           *)
LEMMA UnlinkFoundKeeps == LinksInv /\ UnlinkFound => LinksInv'
<1>. SUFFICES ASSUME LinksInv, UnlinkFound PROVE LinksInv'
  OBVIOUS
<1>1. /\ ListsTypeOK /\ OnceEach /\ Apart /\ AtUnlink /\ \A l \in Lists : Spelled(l)
      /\ held' = [held EXCEPT ![list] = Unlink(@, thread)]
      /\ pc = "unlink" /\ Searching /\ cur = thread
  BY DEF LinksInv, UnlinkFound
<1>2. PICK l \in Lists, t \in Thread : l = list /\ t = thread
  BY <1>1 DEF AtUnlink
<1>3. PICK s : s = Unlink(held[l], t)
  OBVIOUS
<1>4. PICK p \in 1 .. Size(l) :
          /\ pred = NodeAt(l, p - 1)
          /\ NodeAt(l, p) = t /\ Link(list)[cur] = NodeAt(l, p + 1)
          /\ s \in Seq(Thread) /\ Len(s) = Size(l) - 1
          /\ \A k \in 1 .. Size(l) - 1 : s[k] = IF k < p THEN held[l][k] ELSE held[l][k + 1]
  BY <1>1, <1>2, <1>3, SearchFinds
<1>5. /\ Size(l) \in Nat /\ held[l] \in Seq(Thread)
      /\ NodeAt(l, 0) = l
      /\ \A k \in 1 .. Size(l) : NodeAt(l, k) \in Thread
      /\ \A k \in 0 .. Size(l) + 1 : NodeAt(l, k) \in Node
  BY <1>1, ListFacts
<1>6. PICK f, n \in Node : f = pred /\ n = NodeAt(l, p + 1)
  <2>1. p - 1 \in 0 .. Size(l) + 1 /\ p + 1 \in 0 .. Size(l) + 1
    BY <1>5
  <2>. QED
    BY <1>4, <1>5, <2>1
<1>7. /\ f = l \/ f \in Thread
      /\ f # t /\ f # Fake /\ t # Fake /\ Fake # Active /\ Active \in Lists /\ t \notin Lists
      /\ Fake \in Node /\ t \in Node /\ Active \in Node
      /\ f = Active => l = Active
  <2>1. p - 1 \in 0 .. Size(l) + 1 /\ p \in 0 .. Size(l) + 1 /\ p - 1 # p
    BY <1>5
  <2>2. f # t
    BY <1>1, <1>4, <1>6, <2>1, NodesDiffer DEF OnceEach
  <2>3. p - 1 = 0 \/ p - 1 \in 1 .. Size(l)
    BY <1>5
  <2>4. f = l \/ f \in Thread
    BY <1>4, <1>5, <1>6, <2>3
  <2>. QED
    BY <2>2, <2>4, ListAssumption DEF Node, Lists
<1>8. /\ held' \in [Lists -> Seq(Thread)] /\ held'[l] = s
      /\ \A m \in Lists : m # l => held'[m] = held[m]
      /\ OnceEach' /\ Apart' /\ t \notin Range(s)
  <2>1. IsInjective(held[l])
    BY <1>1 DEF OnceEach
  <2>2. Range(s) = Range(held[l]) \ {t} /\ IsInjective(s)
    BY <1>3, <1>5, <2>1, UnlinkKeeps
  <2>3. held' = [held EXCEPT ![l] = s]
    BY <1>1, <1>2, <1>3
  <2>4. \A u \in Range(s) : u \in Range(held[l]) \/ \A m \in PriList : l \in PriList => ~ Holds(u, m)
    BY <2>2
  <2>. QED
    BY <1>1, <1>4, <2>2, <2>3, <2>4, HeldChanges
<1>9. \A m \in PriList : m # l => ~ Holds(t, m)
  BY <1>1, <1>2 DEF AtUnlink
<1>10. \A k \in 0 .. Size(l) : k \notin {p - 1, p} => NodeAt(l, k) # f /\ NodeAt(l, k) # t
  <2>. SUFFICES ASSUME NEW k \in 0 .. Size(l), k \notin {p - 1, p}
                PROVE  NodeAt(l, k) # f /\ NodeAt(l, k) # t
    OBVIOUS
  <2>1. k \in 0 .. Size(l) + 1 /\ p - 1 \in 0 .. Size(l) + 1 /\ p \in 0 .. Size(l) + 1
    BY <1>5
  <2>2. k # p - 1 /\ k # p
    OBVIOUS
  <2>3. NodeAt(l, k) # NodeAt(l, p - 1)
    BY <1>1, <2>1, <2>2, NodesDiffer DEF OnceEach
  <2>4. NodeAt(l, k) # NodeAt(l, p)
    BY <1>1, <2>1, <2>2, NodesDiffer DEF OnceEach
  <2>. QED
    BY <1>4, <1>6, <2>3, <2>4
<1>11. \A m \in Lists : \A k \in 0 .. Size(m) : NodeAt(m, k) = m \/ NodeAt(m, k) \in Thread
  <2>. SUFFICES ASSUME NEW m \in Lists, NEW k \in 0 .. Size(m)
                PROVE  NodeAt(m, k) = m \/ NodeAt(m, k) \in Thread
    OBVIOUS
  <2>1. /\ Size(m) \in Nat /\ NodeAt(m, 0) = m
        /\ \A j \in 1 .. Size(m) : NodeAt(m, j) = held[m][j] /\ held[m][j] \in Thread
    BY <1>1, ListFacts
  <2>2. k = 0 \/ k \in 1 .. Size(m)
    BY <2>1
  <2>. QED
    BY <2>1, <2>2
<1>12. ASSUME Then(l, f) = n,
              \A k \in 0 .. Size(l) :
                  k \notin {p - 1, p} => Then(l, NodeAt(l, k)) = After(l, NodeAt(l, k)),
              \A m \in Lists : m # l =>
                  \A k \in 0 .. Size(m) : Then(m, NodeAt(m, k)) = After(m, NodeAt(m, k))
       PROVE  \A m \in Lists : Spelled(m)'
  <2>1. Spelled(l)'
    <3>1. Then(l, NodeAt(l, p - 1)) = NodeAt(l, p + 1)
      BY <1>4, <1>6, <1>12
    <3>2. Len(held'[l]) = Size(l) - 1
          /\ \A k \in 1 .. Size(l) - 1 :
                 held'[l][k] = IF k < p THEN held[l][k] ELSE held[l][k + 1]
      BY <1>4, <1>8
    <3>3. Spelled(l)
      BY <1>1
    <3>. QED
      BY <1>1, <1>12, <3>1, <3>2, <3>3, SpelledRemove
  <2>2. ASSUME NEW m \in Lists, m # l PROVE Spelled(m)'
    BY <1>1, <1>8, <1>12, <2>2, SpelledSame
  <2>. QED
    BY <2>1, <2>2
<1>13. CASE l # Active
  <2>1. /\ pc' = "unlink" /\ list' = Active /\ pred' = Active /\ cur' = next'[Active] /\ passed' = 0
        /\ next' = [next EXCEPT ![f] = n] /\ tlnext' = tlnext /\ thread' = t
    <3>1. UnlinkWrites(n) = [next EXCEPT ![f] = n]
      BY <1>2, <1>6, <1>13 DEF UnlinkWrites
    <3>2. Search(list, UnlinkWrites(n), tlnext)
      BY <1>2, <1>4, <1>6, <1>13 DEF UnlinkFound
    <3>. QED
      BY <1>2, <1>13, <3>1, <3>2 DEF Search
  <2>2. /\ next' \in [Node -> Node \union {Null}] /\ next'[f] = n
        /\ \A x \in Node : x # f => next'[x] = next[x]
    BY <1>1, <1>6, <2>1 DEF ListsTypeOK
  <2>3. l \in PriList
    BY <1>13 DEF Lists
  <2>4. Then(l, f) = n
    BY <2>2, <2>3, Follows
  <2>5. \A k \in 0 .. Size(l) :
            k \notin {p - 1, p} => Then(l, NodeAt(l, k)) = After(l, NodeAt(l, k))
    <3>. SUFFICES ASSUME NEW k \in 0 .. Size(l), k \notin {p - 1, p}
                  PROVE  Then(l, NodeAt(l, k)) = After(l, NodeAt(l, k))
      OBVIOUS
    <3>1. NodeAt(l, k) # f
      BY <1>10
    <3>2. NodeAt(l, k) \in Node
      BY <1>11 DEF Node
    <3>. QED
      BY <2>2, <2>3, <3>1, <3>2, Follows
  <2>6. ASSUME NEW m \in Lists, m # l, NEW k \in 0 .. Size(m)
        PROVE  Then(m, NodeAt(m, k)) = After(m, NodeAt(m, k))
    <3>1. NodeAt(m, k) \in Node
      BY <1>11, <2>6 DEF Node
    <3>2. CASE m = Active
      <4>1. next'[Active] = next[Active]
        BY <1>7, <1>13, <2>2
      <4>. QED
        BY <2>1, <3>2, <4>1, Follows
    <3>3. CASE m # Active
      <4>1. m \in PriList
        BY <3>3, <2>6 DEF Lists
      <4>2. NodeAt(m, k) # f
        <5>1. p - 1 \in 0 .. Size(l)
          BY <1>5
        <5>. QED
          BY <1>1, <1>4, <1>6, <2>3, <2>6, <4>1, <5>1, ListsDiffer
      <4>. QED
        BY <2>2, <3>1, <4>1, <4>2, Follows
    <3>. QED
      BY <3>2, <3>3
  <2>7. \A m \in Lists : Spelled(m)'
    BY <1>12, <2>4, <2>5, <2>6
  <2>8. \A m \in PriList : ~ Holds(thread, m)'
    <3>. SUFFICES ASSUME NEW m \in PriList PROVE ~ Holds(t, m)'
      BY <2>1
    <3>1. CASE m = l
      BY <1>8, <3>1 DEF Holds, Range
    <3>2. CASE m # l
      BY <1>8, <1>9, <3>2 DEF Holds, Lists
    <3>. QED
      BY <3>1, <3>2
  <2>9. ListsTypeOK'
    <3>1. next'[Fake] = Null /\ tlnext'[Fake] = Null
      BY <1>1, <1>7, <2>1, <2>2 DEF ListsTypeOK
    <3>2. 0 \in 0 .. WalkBound
      BY ListAssumption DEF WalkBound
    <3>3. next'[Active] \in Node \union {Null}
      BY <1>7, <2>2
    <3>. QED
      BY <1>1, <1>7, <1>8, <2>1, <2>2, <3>1, <3>2, <3>3 DEF ListsTypeOK
  <2>. QED
    BY <1>8, <2>1, <2>7, <2>8, <2>9, ActiveSearchBegins
<1>14. CASE l = Active
  <2>1. /\ next' = [UnlinkWrites(n) EXCEPT ![t] = Null]
        /\ tlnext' = [IF f # l THEN [tlnext EXCEPT ![f] = n] ELSE tlnext EXCEPT ![t] = Null]
        /\ Return
    <3>1. Search(list, UnlinkWrites(n),
                 IF pred # list /\ list = Active THEN [tlnext EXCEPT ![pred] = n] ELSE tlnext)
      BY <1>4, <1>6 DEF UnlinkFound
    <3>. QED
      BY <1>2, <1>6, <1>14, <3>1 DEF Search
  <2>2. /\ next' \in [Node -> Node \union {Null}]
        /\ \A x \in Node : x # f /\ x # t => next'[x] = next[x]
        /\ f # l => next'[l] = next[l]
        /\ f = l => next'[f] = n
        /\ next'[Fake] = next[Fake]
    <3>1. CASE f = l
      <4>1. next' = [[next EXCEPT ![f] = n] EXCEPT ![t] = Null]
        BY <1>2, <1>6, <2>1, <3>1 DEF UnlinkWrites
      <4>. QED
        BY <1>1, <1>6, <1>7, <3>1, <4>1 DEF ListsTypeOK
    <3>2. CASE f # l
      <4>1. next' = [next EXCEPT ![t] = Null]
        BY <1>2, <1>6, <1>14, <2>1, <3>2 DEF UnlinkWrites
      <4>. QED
        BY <1>1, <1>7, <1>14, <3>2, <4>1 DEF ListsTypeOK
    <3>. QED
      BY <3>1, <3>2
  <2>3. /\ tlnext' \in [Thread \union {Fake} -> Node \union {Null}]
        /\ \A x \in Thread \union {Fake} : x # f /\ x # t => tlnext'[x] = tlnext[x]
        /\ f # l => tlnext'[f] = n
    <3>1. CASE f = l
      <4>1. tlnext' = [tlnext EXCEPT ![t] = Null]
        BY <2>1, <3>1
      <4>. QED
        BY <1>1, <1>7, <3>1, <4>1 DEF ListsTypeOK
    <3>2. CASE f # l
      <4>1. tlnext' = [[tlnext EXCEPT ![f] = n] EXCEPT ![t] = Null]
        BY <2>1, <3>2
      <4>. QED
        BY <1>1, <1>6, <1>7, <3>2, <4>1 DEF ListsTypeOK
    <3>. QED
      BY <3>1, <3>2
  <2>4. Then(l, f) = n
    BY <1>14, <2>2, <2>3, Follows
  <2>5. \A k \in 0 .. Size(l) :
            k \notin {p - 1, p} => Then(l, NodeAt(l, k)) = After(l, NodeAt(l, k))
    <3>. SUFFICES ASSUME NEW k \in 0 .. Size(l), k \notin {p - 1, p}
                  PROVE  Then(l, NodeAt(l, k)) = After(l, NodeAt(l, k))
      OBVIOUS
    <3>1. NodeAt(l, k) # f /\ NodeAt(l, k) # t
      BY <1>10
    <3>2. CASE NodeAt(l, k) = l
      BY <1>14, <2>2, <3>1, <3>2, Follows
    <3>3. CASE NodeAt(l, k) # l
      <4>1. NodeAt(l, k) \in Thread
        BY <1>11, <3>3
      <4>. QED
        BY <1>14, <2>3, <3>1, <3>3, <4>1, Follows
    <3>. QED
      BY <3>2, <3>3
  <2>6. ASSUME NEW m \in Lists, m # l, NEW k \in 0 .. Size(m)
        PROVE  Then(m, NodeAt(m, k)) = After(m, NodeAt(m, k))
    <3>1. m \in PriList /\ NodeAt(m, k) \in Node
      BY <1>11, <1>14, <2>6 DEF Lists, Node
    <3>2. NodeAt(m, k) # t
      <4>1. ~ Holds(t, m)
        BY <1>9, <2>6, <3>1
      <4>2. \A j \in 0 .. Size(m) + 1 : NodeAt(m, j) # t
        BY <1>1, <4>1, NotNode
      <4>3. Size(m) \in Nat
        BY <1>1, ListFacts
      <4>. QED
        BY <4>2, <4>3
    <3>3. next'[NodeAt(m, k)] = next[NodeAt(m, k)]
      <4>1. CASE f = l
        <5>1. NodeAt(m, k) # l
          BY <1>11, <2>6, ListAssumption
        <5>. QED
          BY <2>2, <3>1, <3>2, <4>1, <5>1
      <4>2. CASE f # l
        <5>1. next' = [next EXCEPT ![t] = Null]
          BY <1>2, <1>6, <1>14, <2>1, <4>2 DEF UnlinkWrites
        <5>. QED
          BY <1>1, <3>1, <3>2, <5>1 DEF ListsTypeOK
      <4>. QED
        BY <4>1, <4>2
    <3>. QED
      BY <3>1, <3>3, Follows
  <2>7. \A m \in Lists : Spelled(m)'
    BY <1>12, <2>4, <2>5, <2>6
  <2>8. ListsTypeOK'
    <3>1. next'[Fake] = Null /\ tlnext'[Fake] = Null
      BY <1>1, <1>7, <2>2, <2>3 DEF ListsTypeOK
    <3>2. 0 \in 0 .. WalkBound
      BY ListAssumption DEF WalkBound
    <3>. QED
      BY <1>8, <2>1, <2>2, <2>3, <3>1, <3>2 DEF ListsTypeOK, Return
  <2>. QED
    BY <1>8, <2>1, <2>7, <2>8 DEF LinksInv, Return
<1>. QED
  BY <1>13, <1>14

(* Every step of a caller and of the loops.                                *)
LEMMA NextLinks == LinksInv /\ [ListsNext]_listsVars => LinksInv'
<1>. SUFFICES ASSUME LinksInv, [ListsNext]_listsVars PROVE LinksInv'
  OBVIOUS
<1>1. CASE Caller
  <2>1. ASSUME NEW t \in Thread, Create(t) PROVE LinksInv'
    BY <2>1, CreateKeeps
  <2>2. ASSUME NEW t \in Thread, NEW l \in PriList, EnqueueBegin(l, t) PROVE LinksInv'
    BY <2>2, BeginKeeps DEF Lists
  <2>3. ASSUME NEW t \in Thread, NEW l \in Lists, DestroyBegin(l, t) PROVE LinksInv'
    BY <2>3, BeginKeeps
  <2>4. ASSUME NEW l \in PriList, Dequeue(l) PROVE LinksInv'
    BY <2>4, DequeueKeeps
  <2>. QED
    BY <1>1, <2>1, <2>2, <2>3, <2>4 DEF Caller
<1>2. CASE Loop
  BY <1>2, EnqueueWalkKeeps, EnqueueLinkKeeps, UnlinkWalkKeeps, UnlinkFoundKeeps, UnlinkMissKeeps
  DEF Loop
<1>3. CASE UNCHANGED listsVars
  <2>1. UNCHANGED <<next, tlnext, held, pc, walkVars>>
    BY <1>3 DEF listsVars, linkVars
  <2>2. LinksInv => LinksInv'
    BY <2>1 DEF LinksInv, ListsTypeOK, Spelled, OnceEach, Apart, AtEnqueue, AtUnlink, Size, NodeAt,
                Holds, After, Link, walkVars
  <2>. QED
    BY <2>2
<1>. QED
  BY <1>1, <1>2, <1>3 DEF ListsNext

(* What the nodes say of the pointers, Chain says of them.                 *)
LEMMA LinksInvMatch == LinksInv => ListsMatch
<1>. SUFFICES ASSUME LinksInv PROVE ListsMatch
  OBVIOUS
<1>. SUFFICES ASSUME NEW l \in Lists, NEW k \in 1 .. Len(held[l]) + 1
              PROVE  After(l, Chain(l)[k]) = Chain(l)[k + 1]
  BY DEF LinksInv, ListsMatch
<1>1. /\ Size(l) \in Nat /\ held[l] \in Seq(Thread) /\ Spelled(l) /\ ListsTypeOK
      /\ NodeAt(l, 0) = l /\ NodeAt(l, Size(l) + 1) = Fake
      /\ \A j \in 1 .. Size(l) : NodeAt(l, j) = held[l][j]
  BY ListFacts DEF LinksInv
<1>. DEFINE a == <<l>>
            b == held[l]
            c == <<Fake>>
<1>2. /\ a \in Seq(Node) /\ Len(a) = 1 /\ a[1] = l
      /\ c \in Seq(Node) /\ Len(c) = 1 /\ c[1] = Fake
  BY DEF Node
<1>3. b \in Seq(Node)
  <2>1. Thread \subseteq Node
    BY DEF Node
  <2>. QED
    BY <1>1, <2>1
<1>. HIDE DEF a, b, c
<1>4. /\ a \o b \in Seq(Node) /\ Len(a \o b) = 1 + Len(b)
      /\ \A j \in 1 .. 1 + Len(b) : (a \o b)[j] = IF j <= 1 THEN a[j] ELSE b[j - 1]
  <2>1. /\ a \o b \in Seq(Node) /\ Len(a \o b) = Len(a) + Len(b)
        /\ \A j \in 1 .. Len(a) + Len(b) : (a \o b)[j] = IF j <= Len(a) THEN a[j] ELSE b[j - Len(a)]
    BY <1>2, <1>3, ConcatProperties
  <2>. QED
    BY <1>2, <2>1
<1>5. /\ Len((a \o b) \o c) = 1 + Len(b) + 1
      /\ \A j \in 1 .. 1 + Len(b) + 1 :
             ((a \o b) \o c)[j] = IF j <= 1 + Len(b) THEN (a \o b)[j] ELSE c[j - (1 + Len(b))]
  BY <1>2, <1>3, <1>4, ConcatProperties
<1>6. Chain(l) = (a \o b) \o c
  BY DEF Chain, a, b, c
<1>7. Len(b) = Size(l) /\ Len(held[l]) = Size(l) /\ \A j \in 1 .. Size(l) : b[j] = held[l][j]
  BY DEF Size, b
<1>8. ASSUME NEW j \in 1 .. Size(l) + 2
      PROVE  Chain(l)[j] = NodeAt(l, j - 1)
  <2>1. CASE j = 1
    BY <1>1, <1>2, <1>4, <1>5, <1>6, <1>7, <2>1
  <2>2. CASE j = Size(l) + 2
    <3>1. j - (1 + Len(b)) = 1 /\ ~ (j <= 1 + Len(b)) /\ j \in 1 .. 1 + Len(b) + 1 /\ j - 1 = Size(l) + 1
      BY <1>1, <1>7, <2>2
    <3>. QED
      BY <1>1, <1>2, <1>5, <1>6, <3>1
  <2>3. CASE j \in 2 .. Size(l) + 1
    <3>1. j - 1 \in 1 .. Size(l) /\ j \in 1 .. 1 + Len(b) /\ ~ (j <= 1) /\ j <= 1 + Len(b)
          /\ j \in 1 .. 1 + Len(b) + 1
      BY <1>1, <1>7, <2>3
    <3>. QED
      BY <1>1, <1>4, <1>5, <1>6, <1>7, <3>1
  <2>. QED
    BY <1>1, <2>1, <2>2, <2>3
<1>9. PICK i, j \in Nat : j = k + 1 /\ i = k - 1
  BY <1>1, <1>7
<1>10. /\ k \in 1 .. Size(l) + 2 /\ j \in 1 .. Size(l) + 2
       /\ i \in 0 .. Size(l) /\ j - 1 = i + 1 /\ k - 1 = i
  BY <1>1, <1>7, <1>9
<1>11. Chain(l)[k] = NodeAt(l, i) /\ Chain(l)[j] = NodeAt(l, i + 1)
  BY <1>8, <1>10
<1>12. After(l, NodeAt(l, i)) = NodeAt(l, i + 1)
  BY <1>1, <1>10 DEF Spelled
<1>. QED
  BY <1>9, <1>11, <1>12

(* After any sequence of enqueues, dequeues, creations and destructions,   *)
(* stopped anywhere in their loops, the TH_NEXT and TH_TLNEXT links in     *)
(* RDRAM spell every list as ThreadQueue has it: for any number of threads *)
(* and of wait lists.                                                      *)
THEOREM ListsMatchAlways == ListsSpec => []ListsMatch
<1>1. LinksInv => ListsMatch
  BY LinksInvMatch
<1>. QED
  BY <1>1, InitLinks, NextLinks, PTL DEF ListsSpec
=============================================================================
