--------------------------- MODULE SchedulerProofs ---------------------------
(***************************************************************************)
(* The lists of the stateful scheduler are correct for every set of        *)
(* threads and queues, every priority, every capacity and every number of  *)
(* slots: ListsSound, the conjunction of their invariants, is inductive.   *)
(* The lemmas about families of lists reduce what an action does to q to   *)
(* which threads are linked in which list; the rest of every step is then  *)
(* about single threads.                                                   *)
(***************************************************************************)
EXTENDS Scheduler, ThreadQueueProofs, FiniteSetTheorems

-----------------------------------------------------------------------------
(* The inductive invariant: no conjunct is preserved without the others.   *)
(* That the head of a list can be woken or dispatched needs the states to  *)
(* match the lists; that needs TH_QUEUE to be right when a thread is       *)
(* destroyed, and the running thread to be the one the host executes.      *)
IInv ==
    /\ TypeOK
    /\ QueueMirror
    /\ NoDuplicate
    /\ StateMatchesList
    /\ HostMatchesGuest
    /\ PriorityOrder

(* The part of IInv about threads and lists, in terms of In: f holds the   *)
(* lists, s the states, w TH_QUEUE, r the calls to repeat, a the active    *)
(* list.                                                                   *)
MatchesOne(f, s, w, r, a, t) ==
    /\ \A l \in List : In(f, t, l) => w[t] = l
    /\ s[t] = "RUNNING" => w[t] = RunQ
    /\ In(f, t, RunQ) <=> s[t] = "RUNNABLE"
    /\ \A l \in WaitList : In(f, t, l) <=> s[t] = "WAITING" /\ r[t] = l
    /\ s[t] # "STOPPED" => t \in a

Matches(f, s, w, r, a) == \A t \in Thread : MatchesOne(f, s, w, r, a, t)

LEMMA ListPart ==
    QueueMirror /\ NoDuplicate /\ StateMatchesList /\ PriorityOrder <=> Good(List, q) /\ Matches(q, state, queueOf, resume, active)
BY DEF QueueMirror, NoDuplicate, StateMatchesList, PriorityOrder, Good, Matches, MatchesOne,
       Linked, In

LEMMA IInvNext ==
    ASSUME TypeOK', HostMatchesGuest', Good(List, q'), Matches(q', state', queueOf', resume', active')
    PROVE  IInv'
BY DEF IInv, QueueMirror, NoDuplicate, StateMatchesList, PriorityOrder, Good, Matches,
       MatchesOne, Linked, In

(* What a step does to a thread it does not concern.                       *)
Untouched(t) ==
    /\ state'[t] = state[t] /\ queueOf'[t] = queueOf[t]
    /\ state[t] = "WAITING" => resume'[t] = resume[t]
    /\ state[t] # "STOPPED" /\ t \in active => t \in active'
    /\ \A l \in List : In(q', t, l) <=> In(q, t, l)

(* A step that concerns at most the threads c and d.                       *)
LEMMA OthersMatch ==
    ASSUME Matches(q, state, queueOf, resume, active), NEW c, NEW d,
           MatchesOne(q', state', queueOf', resume', active', c),
           MatchesOne(q', state', queueOf', resume', active', d),
           \A t \in Thread \ {c, d} : Untouched(t)
    PROVE  Matches(q', state', queueOf', resume', active')
<1> SUFFICES ASSUME NEW t \in Thread \ {c, d}
             PROVE  MatchesOne(q', state', queueOf', resume', active', t)
  BY DEF Matches
<1>1. MatchesOne(q, state, queueOf, resume, active, t)
  BY DEF Matches
<1>2. RunQ \in List /\ WaitList \subseteq List
  BY DEF List
<1> QED
  BY <1>1, <1>2 DEF MatchesOne, Untouched

LEMMA Constants ==
    /\ RunQ \in List /\ RunQ \notin WaitList /\ WaitList \subseteq List
    /\ None \notin Thread /\ None \notin List
    /\ \A m \in Queue : <<m, "recv">> \in WaitList /\ <<m, "send">> \in WaitList
    /\ \A m \in Queue : Cap[m] \in Nat \ {0}
    /\ EventQueue \subseteq Queue
    /\ Boot \in Thread
BY SchedulerAssumption DEF List, WaitList

(* Linking a thread that is in no list of the scheduler.                   *)
LEMMA EnqueueIn ==
    ASSUME NEW f \in ListsOver(List), Good(List, f), NEW l \in List, NEW t \in Thread,
           ~ In(f, t, l)
    PROVE  LET g == [f EXCEPT ![l] = EnqueueByPriority(@, t)] IN
           /\ g \in ListsOver(List) /\ Good(List, g) /\ g[l] # <<>>
           /\ \A k \in List, u \in Thread : In(g, u, k) <=> In(f, u, k) \/ (u = t /\ k = l)
<1> DEFINE g == [f EXCEPT ![l] = EnqueueByPriority(@, t)]
<1>1. Joined(List, f, g, t, l)
  BY EnqueueInLists
<1> HIDE DEF g
<1>2. /\ g \in ListsOver(List) /\ Good(List, g) /\ g[l] # <<>>
      /\ \A k \in List, u \in Thread : In(g, u, k) <=> In(f, u, k) \/ (u = t /\ k = l)
  BY <1>1 DEF Joined
<1> QED
  BY <1>2 DEF g

(* Moving the head of a wait list to the run queue.                        *)
LEMMA WakeIn ==
    ASSUME NEW f \in ListsOver(List), Good(List, f), NEW l \in WaitList, f[l] # <<>>,
           ~ In(f, Head(f[l]), RunQ)
    PROVE  LET h == Head(f[l])
               g == [f EXCEPT ![l] = Tail(@), ![RunQ] = EnqueueByPriority(@, h)] IN
           /\ h \in Thread /\ In(f, h, l)
           /\ g \in ListsOver(List) /\ Good(List, g) /\ g[RunQ] # <<>>
           /\ \A k \in List, u \in Thread :
                 In(g, u, k) <=> \/ In(f, u, k) /\ ~ (u = h /\ k = l)
                                 \/ u = h /\ k = RunQ
<1>1. l \in List /\ RunQ \in List /\ l # RunQ
  BY Constants
<1> DEFINE h == Head(f[l])
           g == [f EXCEPT ![l] = Tail(@), ![RunQ] = EnqueueByPriority(@, h)]
<1>2. Moved(List, f, g, h, l, RunQ)
  BY <1>1, WakeInLists
<1> HIDE DEF g, h
<1>3. /\ h \in Thread /\ In(f, h, l)
      /\ g \in ListsOver(List) /\ Good(List, g) /\ g[RunQ] # <<>>
      /\ \A k \in List, u \in Thread :
            In(g, u, k) <=> \/ In(f, u, k) /\ ~ (u = h /\ k = l)
                            \/ u = h /\ k = RunQ
  BY <1>2 DEF Moved
<1> QED
  BY <1>3 DEF g, h

THEOREM InitIInv == Init => IInv
<1> SUFFICES ASSUME Init PROVE IInv
  OBVIOUS
<1> USE Constants DEF Init
<1>1. q \in ListsOver(List) /\ Good(List, q)
  <2>1. \A l \in List : q[l] \in Seq(Thread)
    OBVIOUS
  <2>2. \A l \in List : IsInjective(q[l]) /\ Ordered(q[l])
    <3>1. IsInjective(<<Boot>>) /\ Ordered(<<Boot>>)
      BY DEF IsInjective, Ordered
    <3>2. IsInjective(<<>>) /\ Ordered(<<>>)
      BY DEF IsInjective, Ordered
    <3> QED
      BY <3>1, <3>2
  <2> QED
    BY <2>1, <2>2 DEF ListsOver, Good
<1>2. \A l \in List, t \in Thread : In(q, t, l) <=> t = Boot /\ l = RunQ
  <2>1. Range(<<Boot>>) = {Boot} /\ Range(<<>>) = {}
    BY DEF Range
  <2> QED
    BY <2>1 DEF In
<1>3. Matches(q, state, queueOf, resume, active)
  BY <1>2 DEF Matches, MatchesOne
<1>4. TypeOK
  <2>1. state \in [Thread -> ThreadState] /\ queueOf \in [Thread -> List \union {None}]
    BY DEF ThreadState
  <2>2. valid \in [Queue -> Nat] /\ \A m \in Queue : valid[m] <= Cap[m]
    OBVIOUS
  <2>3. /\ slot \in [Thread -> {"none", "live", "finished"}]
        /\ resume \in [Thread -> WaitList \union {None}]
    OBVIOUS
  <2> QED
    BY <1>1, <2>1, <2>2, <2>3 DEF TypeOK, ListsOver, Phase
<1>5. HostMatchesGuest
  BY DEF HostMatchesGuest
<1> QED
  BY <1>1, <1>3, <1>4, <1>5, ListPart DEF IInv

-----------------------------------------------------------------------------
(* One lemma per kind of step.                                             *)

(* Steps that leave every list, state and message alone.                   *)
LEMMA QuietStep ==
    ASSUME IInv,
           UNCHANGED <<listVars, active, valid, slot, running, current, resume, orphaned>>,
           native' \in SUBSET Thread, delivered' \in BOOLEAN,
           inPoll' = (phase' = "poll"),
           \/ phase \in {"sched", "idle"} /\ phase' \in {"sched", "idle"}
           \/ phase \in {"game", "poll"} /\ phase' \in {"game", "poll"}
    PROVE  IInv'
<1>1. q' = q /\ Matches(q', state', queueOf', resume', active') /\ Good(List, q)'
  BY ListPart DEF IInv, listVars, Matches, MatchesOne
<1>2. TypeOK'
  BY DEF IInv, TypeOK, listVars, Phase
<1>3. HostMatchesGuest'
  BY DEF IInv, HostMatchesGuest, listVars
<1> QED
  BY <1>1, <1>2, <1>3, IInvNext

(* The head of the run queue is popped and becomes RUNNING.                *)
LEMMA PopStep ==
    ASSUME IInv, PopRunQueue,
           \A t \in Thread : t # Head(q[RunQ]) => resume'[t] = resume[t],
           active' = active
    PROVE  /\ Head(q[RunQ]) \in Thread /\ state[Head(q[RunQ])] = "RUNNABLE"
           /\ q' \in ListsOver(List) /\ Good(List, q') /\ Matches(q', state', queueOf', resume', active')
           /\ state' \in [Thread -> ThreadState]
           /\ \A t \in Thread :
                 state'[t] = IF t = Head(q[RunQ]) THEN "RUNNING" ELSE state[t]
<1> DEFINE h == Head(q[RunQ])
<1>1. q \in ListsOver(List) /\ Good(List, q) /\ Matches(q, state, queueOf, resume, active) /\ RunQ \in List
  BY ListPart, Constants DEF IInv, TypeOK, ListsOver
<1>2. /\ h \in Thread /\ In(q, h, RunQ) /\ q' \in ListsOver(List) /\ Good(List, q')
      /\ \A k \in List, u \in Thread : In(q', u, k) <=> In(q, u, k) /\ ~ (u = h /\ k = RunQ)
  BY <1>1, PopInLists DEF PopRunQueue
<1>3. /\ state' \in [Thread -> ThreadState]
      /\ \A t \in Thread : state'[t] = IF t = h THEN "RUNNING" ELSE state[t]
  BY <1>2 DEF PopRunQueue, IInv, TypeOK, ThreadState
<1>4. state[h] = "RUNNABLE" /\ queueOf' = queueOf
  BY <1>1, <1>2 DEF Matches, MatchesOne, PopRunQueue
<1> HIDE DEF h
<1>5. MatchesOne(q', state', queueOf', resume', active', h)
  <2>1. MatchesOne(q, state, queueOf, resume, active, h)
    BY <1>1, <1>2 DEF Matches
  <2> QED
    BY <2>1, <1>2, <1>3, <1>4, Constants DEF MatchesOne
<1>6. Matches(q', state', queueOf', resume', active')
  <2>1. \A t \in Thread \ {h, h} : Untouched(t)
    BY <1>2, <1>3, <1>4 DEF h, Untouched
  <2> QED
    BY <1>1, <1>5, <2>1, OthersMatch
<1> QED
  BY <1>2, <1>3, <1>4, <1>6 DEF h

LEMMA DispatchStep == ASSUME IInv, Dispatch PROVE IInv'
<1> DEFINE h == Head(q[RunQ])
<1>1. IInv /\ PopRunQueue /\ active' = active
  BY DEF Dispatch
<1>2. phase = "sched" /\ running' = h /\ current' = h /\ phase' = "game"
  BY DEF Dispatch, PopRunQueue
<1>3. slot' = [slot EXCEPT ![h] = "live"] /\ UNCHANGED <<valid, inPoll, delivered, orphaned>>
  BY DEF Dispatch
<1>4. /\ resume' = resume \/ resume' = [resume EXCEPT ![h] = None]
      /\ native' \in SUBSET native
  BY DEF Dispatch
<1>5. queueOf' = queueOf
  BY DEF Dispatch, PopRunQueue
<1> HIDE DEF h
<1>6. \A t \in Thread : t # Head(q[RunQ]) => resume'[t] = resume[t]
  BY <1>4 DEF IInv, TypeOK, h
<1>7. /\ h \in Thread /\ state[h] = "RUNNABLE"
      /\ q' \in ListsOver(List) /\ Good(List, q') /\ Matches(q', state', queueOf', resume', active')
      /\ state' \in [Thread -> ThreadState]
      /\ \A t \in Thread : state'[t] = IF t = h THEN "RUNNING" ELSE state[t]
  BY <1>1, <1>6, PopStep DEF h
<1>8. TypeOK'
  <2>1. slot' \in [Thread -> {"none", "live", "finished"}]
    BY <1>3, <1>7 DEF IInv, TypeOK
  <2>2. resume' \in [Thread -> WaitList \union {None}]
    BY <1>4, <1>7 DEF IInv, TypeOK
  <2> QED
    BY <1>1, <1>2, <1>3, <1>4, <1>5, <1>7, <2>1, <2>2 DEF IInv, TypeOK, ListsOver, Phase
<1>9. HostMatchesGuest'
  <2>1. \A t \in Thread : slot'[t] = IF t = h THEN "live" ELSE slot[t]
    BY <1>3, <1>7 DEF IInv, TypeOK
  <2> QED
    BY <1>2, <1>3, <1>7, <2>1, Constants DEF IInv, HostMatchesGuest
<1> QED
  BY <1>7, <1>8, <1>9, IInvNext

LEMMA ExhaustSlotsStep == ASSUME IInv, ExhaustSlots PROVE IInv'
<1> DEFINE h == Head(q[RunQ])
<1>1. /\ IInv /\ PopRunQueue /\ phase = "sched" /\ running' = h /\ phase' = "halted"
      /\ UNCHANGED <<queueOf, active, valid, slot, current, resume, native, inPoll,
                     delivered, orphaned>>
  BY DEF ExhaustSlots, PopRunQueue
<1> HIDE DEF h
<1>2. /\ h \in Thread /\ state[h] = "RUNNABLE"
      /\ q' \in ListsOver(List) /\ Good(List, q') /\ Matches(q', state', queueOf', resume', active')
      /\ state' \in [Thread -> ThreadState]
      /\ \A t \in Thread : state'[t] = IF t = h THEN "RUNNING" ELSE state[t]
  BY <1>1, PopStep DEF h
<1>3. TypeOK'
  BY <1>1, <1>2 DEF IInv, TypeOK, ListsOver, Phase
<1>4. HostMatchesGuest'
  BY <1>1, <1>2 DEF IInv, HostMatchesGuest
<1> QED
  BY <1>2, <1>3, <1>4, IInvNext

(* While game code or a poll runs, the running thread is linked nowhere.   *)
LEMMA RunningThread ==
    ASSUME IInv, phase \in {"game", "poll"}
    PROVE  /\ current \in Thread /\ running = current /\ current \in active
           /\ state[current] = "RUNNING" /\ slot[current] = "live"
           /\ queueOf[current] = RunQ
           /\ \A l \in List : ~ In(q, current, l)
<1>1. Matches(q, state, queueOf, resume, active)
  BY ListPart DEF IInv
<1>2. current \in Thread /\ running = current /\ state[current] = "RUNNING" /\ slot[current] = "live"
  BY DEF IInv, HostMatchesGuest, TypeOK
<1>3. \A l \in List : l = RunQ \/ l \in WaitList
  BY DEF List
<1> QED
  BY <1>1, <1>2, <1>3 DEF Matches, MatchesOne

(* A list after the head of wait list l was moved to the run queue.        *)
LEMMA WakeHeadStep ==
    ASSUME IInv, NEW l \in WaitList, q[l] # <<>>, WakeHead(l), active' = active,
           \A t \in Thread : state[t] = "WAITING" => resume'[t] = resume[t]
    PROVE  /\ Head(q[l]) \in Thread /\ state[Head(q[l])] = "WAITING"
           /\ slot[Head(q[l])] = "live"
           /\ q' \in ListsOver(List) /\ Good(List, q') /\ Matches(q', state', queueOf', resume', active')
           /\ state' \in [Thread -> ThreadState]
           /\ queueOf' \in [Thread -> List \union {None}]
           /\ \A t \in Thread : state'[t] = IF t = Head(q[l]) THEN "RUNNABLE" ELSE state[t]
<1> DEFINE h == Head(q[l])
<1>1. q \in ListsOver(List) /\ Good(List, q) /\ Matches(q, state, queueOf, resume, active)
  BY ListPart DEF IInv, TypeOK, ListsOver
<1>2. l \in List /\ h \in Thread /\ In(q, h, l)
  BY <1>1, Constants, PopInLists
<1> HIDE DEF h
<1>3. state[h] = "WAITING" /\ resume[h] = l /\ ~ In(q, h, RunQ)
  BY <1>1, <1>2 DEF Matches, MatchesOne
<1>4. /\ q' \in ListsOver(List) /\ Good(List, q')
      /\ \A k \in List, u \in Thread :
            In(q', u, k) <=> \/ In(q, u, k) /\ ~ (u = h /\ k = l)
                             \/ u = h /\ k = RunQ
  <2> DEFINE g == [q EXCEPT ![l] = Tail(@), ![RunQ] = EnqueueByPriority(@, Head(q[l]))]
  <2>1. q' = g
    BY DEF WakeHead
  <2>2. ~ In(q, Head(q[l]), RunQ)
    BY <1>3 DEF h
  <2>3. /\ g \in ListsOver(List) /\ Good(List, g)
        /\ \A k \in List, u \in Thread :
              In(g, u, k) <=> \/ In(q, u, k) /\ ~ (u = Head(q[l]) /\ k = l)
                              \/ u = Head(q[l]) /\ k = RunQ
    BY <2>2, <1>1, WakeIn, Zenon
  <2> HIDE DEF g
  <2> QED
    BY <2>1, <2>3 DEF h
<1>5. /\ state' \in [Thread -> ThreadState]
      /\ \A t \in Thread : state'[t] = IF t = h THEN "RUNNABLE" ELSE state[t]
  BY <1>2 DEF WakeHead, h, IInv, TypeOK, ThreadState
<1>6. /\ queueOf' \in [Thread -> List \union {None}]
      /\ \A t \in Thread : queueOf'[t] = IF t = h THEN RunQ ELSE queueOf[t]
  BY <1>2, Constants DEF WakeHead, h, IInv, TypeOK
<1>7. Matches(q', state', queueOf', resume', active')
  <2>1. MatchesOne(q, state, queueOf, resume, active, h)
    BY <1>1, <1>2 DEF Matches
  <2>2. MatchesOne(q', state', queueOf', resume', active', h)
    BY <2>1, <1>2, <1>3, <1>4, <1>5, <1>6, Constants DEF MatchesOne
  <2>3. \A t \in Thread \ {h, h} : Untouched(t)
    BY <1>4, <1>5, <1>6 DEF Untouched
  <2> QED
    BY <1>1, <2>2, <2>3, OthersMatch
<1>8. slot[h] = "live"
  BY <1>2, <1>3 DEF IInv, HostMatchesGuest
<1> QED
  BY <1>2, <1>3, <1>4, <1>5, <1>6, <1>7, <1>8 DEF h

(* A device event is posted while the scheduler idles or a thread polls.   *)
LEMMA PostEventStep ==
    ASSUME IInv, NEW m \in EventQueue, PostEvent(m), delivered' \in BOOLEAN,
           UNCHANGED <<active, slot, running, current, phase, inPoll, resume, native, orphaned>>
    PROVE  IInv'
<1>1. m \in Queue /\ <<m, "recv">> \in WaitList /\ Cap[m] \in Nat
  BY Constants
<1>2. valid' \in [Queue -> Nat] /\ \A k \in Queue : valid'[k] <= Cap[k]
  BY <1>1, Constants DEF PostEvent, IInv, TypeOK
<1>3. CASE q[<<m, "recv">>] # <<>> /\ WakeHead(<<m, "recv">>)
  <2> DEFINE h == Head(q[<<m, "recv">>])
  <2>1. /\ h \in Thread /\ state[h] = "WAITING" /\ slot[h] = "live"
        /\ q' \in ListsOver(List) /\ Good(List, q') /\ Matches(q', state', queueOf', resume', active')
        /\ state' \in [Thread -> ThreadState]
        /\ queueOf' \in [Thread -> List \union {None}]
        /\ \A t \in Thread : state'[t] = IF t = h THEN "RUNNABLE" ELSE state[t]
    BY <1>1, <1>3, WakeHeadStep
  <2> HIDE DEF h
  <2>2. TypeOK'
    BY <1>2, <2>1 DEF IInv, TypeOK, ListsOver
  <2>3. HostMatchesGuest'
    BY <2>1 DEF IInv, HostMatchesGuest, TypeOK
  <2> QED
    BY <2>1, <2>2, <2>3, IInvNext
<1>4. CASE UNCHANGED listVars
  <2>1. q' = q /\ Matches(q', state', queueOf', resume', active') /\ Good(List, q')
    BY <1>4, ListPart DEF IInv, listVars, Matches, MatchesOne
  <2>2. TypeOK'
    BY <1>2, <1>4 DEF IInv, TypeOK, listVars
  <2>3. HostMatchesGuest'
    BY <1>4 DEF IInv, HostMatchesGuest, listVars
  <2> QED
    BY <2>1, <2>2, <2>3, IInvNext
<1> QED
  BY <1>3, <1>4 DEF PostEvent

(* What YieldCurrent leaves behind, for the conjuncts about the host.      *)
LEMMA YieldStep ==
    ASSUME IInv, phase \in {"game", "poll"}, YieldCurrent,
           slot' = slot \/ slot' = [slot EXCEPT ![current] = "finished"],
           \A t \in Thread \ {current} : state'[t] = "RUNNING" => state[t] = "RUNNING",
           \A t \in Thread \ {current} : state'[t] = "WAITING" => state[t] = "WAITING",
           \/ state'[current] = "RUNNABLE" \/ state'[current] = "STOPPED"
           \/ state'[current] = "WAITING" /\ slot' = slot
    PROVE  HostMatchesGuest'
<1>1. current \in Thread /\ state[current] = "RUNNING" /\ slot[current] = "live"
  BY RunningThread
<1>2. current' = None /\ phase' = "sched" /\ inPoll' = FALSE
  BY DEF YieldCurrent
<1>3. \A t \in Thread \ {current} : slot'[t] = slot[t]
  BY <1>1 DEF IInv, TypeOK
<1> QED
  BY <1>1, <1>2, <1>3 DEF IInv, HostMatchesGuest

(* The running thread is linked in list l in state s and gives up the CPU. *)
LEMMA LinkCurrentStep ==
    ASSUME IInv, phase \in {"game", "poll"}, NEW l \in List, NEW s \in {"RUNNABLE", "WAITING"},
           state' = [state EXCEPT ![current] = s],
           queueOf' = [queueOf EXCEPT ![current] = l],
           q' = [q EXCEPT ![l] = EnqueueByPriority(@, current)],
           YieldCurrent,
           s = "RUNNABLE" => l = RunQ /\ resume' = resume,
           s = "WAITING" => l \in WaitList /\ resume' = [resume EXCEPT ![current] = l],
           UNCHANGED <<active, valid, slot, native, orphaned>>
    PROVE  IInv'
<1>1. /\ current \in Thread /\ state[current] = "RUNNING" /\ slot[current] = "live"
      /\ current \in active /\ \A k \in List : ~ In(q, current, k)
  BY RunningThread
<1>2. q \in ListsOver(List) /\ Good(List, q) /\ Matches(q, state, queueOf, resume, active)
  BY ListPart DEF IInv, TypeOK, ListsOver
<1>3. /\ q' \in ListsOver(List) /\ Good(List, q')
      /\ \A k \in List, u \in Thread : In(q', u, k) <=> In(q, u, k) \/ (u = current /\ k = l)
  BY <1>1, <1>2, EnqueueIn
<1>4. /\ state' \in [Thread -> ThreadState]
      /\ \A t \in Thread : state'[t] = IF t = current THEN s ELSE state[t]
  BY <1>1 DEF IInv, TypeOK, ThreadState
<1>5. /\ queueOf' \in [Thread -> List \union {None}]
      /\ \A t \in Thread : queueOf'[t] = IF t = current THEN l ELSE queueOf[t]
  BY <1>1 DEF IInv, TypeOK
<1>6. /\ resume' \in [Thread -> WaitList \union {None}]
      /\ \A t \in Thread \ {current} : resume'[t] = resume[t]
      /\ s = "WAITING" => resume'[current] = l
  BY <1>1 DEF IInv, TypeOK
<1>7. Matches(q', state', queueOf', resume', active')
  <2>1. MatchesOne(q', state', queueOf', resume', active', current)
    <3>1. \A k \in List : In(q', current, k) <=> k = l
      BY <1>1, <1>3
    <3>2. state'[current] = s /\ queueOf'[current] = l /\ current \in active'
      BY <1>1, <1>4, <1>5
    <3> HIDE DEF In
    <3> QED
      BY <3>1, <3>2, <1>6, Constants DEF MatchesOne
  <2>2. \A t \in Thread \ {current, current} : Untouched(t)
    BY <1>3, <1>4, <1>5, <1>6 DEF Untouched
  <2> QED
    BY <1>2, <2>1, <2>2, OthersMatch
<1>8. TypeOK'
  BY <1>3, <1>4, <1>5, <1>6 DEF IInv, TypeOK, ListsOver, YieldCurrent, Phase
<1>9. HostMatchesGuest'
  BY <1>1, <1>4, YieldStep
<1> QED
  BY <1>3, <1>7, <1>8, <1>9, IInvNext

(* A RUNNING thread is requeued and gives up the CPU.                      *)
LEMMA RequeueStep ==
    ASSUME IInv, phase \in {"game", "poll"}, RequeueCurrent, YieldCurrent,
           UNCHANGED <<active, valid, slot, resume, native, orphaned>>
    PROVE  IInv'
<1>1. current \in Thread /\ queueOf[current] = RunQ
  BY RunningThread
<1>2. queueOf' = [queueOf EXCEPT ![current] = RunQ]
  BY <1>1 DEF RequeueCurrent, IInv, TypeOK
<1>3. /\ state' = [state EXCEPT ![current] = "RUNNABLE"]
      /\ q' = [q EXCEPT ![RunQ] = EnqueueByPriority(@, current)]
  BY DEF RequeueCurrent
<1> QED
  BY <1>2, <1>3, LinkCurrentStep, Constants

LEMMA PreemptStep == ASSUME IInv, NEW vi \in BOOLEAN, Preempt(vi) PROVE IInv'
<1>1. phase \in {"game", "poll"} /\ state[current] = "RUNNING"
  BY RunningThread DEF Preempt
<1> QED
  BY <1>1, RequeueStep DEF Preempt

LEMMA DispatchThreadStep == ASSUME IInv, DispatchThread PROVE IInv'
BY RequeueStep DEF DispatchThread, InGame

LEMMA YieldActionStep == ASSUME IInv, Yield PROVE IInv'
<1>1. /\ phase \in {"game", "poll"} /\ YieldCurrent
      /\ state' = [state EXCEPT ![current] = "RUNNABLE"]
      /\ queueOf' = [queueOf EXCEPT ![current] = RunQ]
      /\ q' = [q EXCEPT ![RunQ] = EnqueueByPriority(@, current)]
      /\ UNCHANGED <<active, valid, slot, resume, native, orphaned>>
  BY DEF Yield, InGame, EnqueueAndYield
<1> QED
  BY <1>1, LinkCurrentStep, Constants

LEMMA WaitStep == ASSUME IInv, NEW l \in WaitList, Wait(l) PROVE IInv'
<1>1. /\ phase \in {"game", "poll"} /\ YieldCurrent
      /\ state' = [state EXCEPT ![current] = "WAITING"]
      /\ queueOf' = [queueOf EXCEPT ![current] = l]
      /\ q' = [q EXCEPT ![l] = EnqueueByPriority(@, current)]
      /\ resume' = [resume EXCEPT ![current] = l]
      /\ UNCHANGED <<active, valid, slot, native, orphaned>>
  BY DEF Wait, AtMessageCall, EnqueueAndYield
<1>2. l \in List
  BY Constants
<1> QED
  BY <1>1, <1>2, LinkCurrentStep

(* Pausing links the thread nowhere.                                       *)
LEMMA PauseStep == ASSUME IInv, Pause PROVE IInv'
<1>1. /\ phase = "game" /\ resume[current] = None /\ YieldCurrent
      /\ state' = [state EXCEPT ![current] = "WAITING"]
      /\ UNCHANGED <<queueOf, q, active, valid, slot, resume, native, orphaned>>
  BY DEF Pause, InGame
<1>2. /\ current \in Thread /\ state[current] = "RUNNING" /\ slot[current] = "live"
      /\ current \in active /\ \A k \in List : ~ In(q, current, k)
  BY <1>1, RunningThread
<1>3. q \in ListsOver(List) /\ Good(List, q) /\ Matches(q, state, queueOf, resume, active)
  BY ListPart DEF IInv, TypeOK, ListsOver
<1>4. /\ state' \in [Thread -> ThreadState]
      /\ \A t \in Thread : state'[t] = IF t = current THEN "WAITING" ELSE state[t]
  BY <1>1, <1>2 DEF IInv, TypeOK, ThreadState
<1>5. MatchesOne(q', state', queueOf', resume', active', current)
  BY <1>1, <1>2, <1>4, Constants DEF MatchesOne
<1>6. Matches(q', state', queueOf', resume', active')
  <2>1. \A t \in Thread \ {current, current} : Untouched(t)
    BY <1>1, <1>4 DEF Untouched
  <2> QED
    BY <1>3, <1>5, <2>1, OthersMatch
<1>7. TypeOK'
  BY <1>1, <1>4 DEF IInv, TypeOK, YieldCurrent, Phase
<1>8. HostMatchesGuest'
  BY <1>1, <1>2, <1>4, YieldStep
<1>9. Good(List, q')
  BY <1>1, <1>3
<1> QED
  BY <1>6, <1>7, <1>8, <1>9, IInvNext

(* A thread is woken by one of higher priority, which yields to it.        *)
LEMMA WakeHeadAndYieldStep ==
    ASSUME IInv, phase = "game", NEW l \in WaitList, q[l] # <<>>, WakeHeadAndYield(l),
           resume' = [resume EXCEPT ![current] = None],
           valid' \in [Queue -> Nat], \A m \in Queue : valid'[m] <= Cap[m],
           UNCHANGED <<active, slot, native, orphaned>>
    PROVE  IInv'
<1> DEFINE h == Head(q[l])
           woken == [q EXCEPT ![l] = Tail(@), ![RunQ] = EnqueueByPriority(@, h)]
<1>1. /\ current \in Thread /\ state[current] = "RUNNING" /\ slot[current] = "live"
      /\ current \in active /\ \A k \in List : ~ In(q, current, k)
  BY RunningThread
<1>2. q \in ListsOver(List) /\ Good(List, q) /\ Matches(q, state, queueOf, resume, active)
  BY ListPart DEF IInv, TypeOK, ListsOver
<1>3. l \in List /\ l # RunQ /\ h \in Thread /\ In(q, h, l)
  BY <1>2, Constants, PopInLists
<1>4. /\ state[h] = "WAITING" /\ resume[h] = l /\ ~ In(q, h, RunQ) /\ h \in active
      /\ \A k \in List : In(q, h, k) => k = l
  BY <1>2, <1>3, Constants DEF Matches, MatchesOne
<1>5. /\ woken \in ListsOver(List) /\ Good(List, woken)
      /\ \A k \in List, u \in Thread :
            In(woken, u, k) <=> \/ In(q, u, k) /\ ~ (u = h /\ k = l)
                                \/ u = h /\ k = RunQ
  <2>1. RunQ \in List /\ ~ In(q, Head(q[l]), RunQ)
    BY <1>4, Constants
  <2> QED
    BY <2>1, <1>2, <1>3, WakeIn, Zenon
<1>6. q' = [woken EXCEPT ![RunQ] = EnqueueByPriority(@, current)]
  BY <1>2, <1>3, Constants DEF WakeHeadAndYield, ListsOver
<1>7. /\ state' = [state EXCEPT ![h] = "RUNNABLE", ![current] = "RUNNABLE"]
      /\ queueOf' = [queueOf EXCEPT ![h] = RunQ, ![current] = RunQ]
      /\ YieldCurrent
  BY DEF WakeHeadAndYield
<1> HIDE DEF h, woken
<1>8. h # current
  BY <1>1, <1>4
<1>9. /\ q' \in ListsOver(List) /\ Good(List, q')
      /\ \A k \in List, u \in Thread :
            In(q', u, k) <=> In(woken, u, k) \/ (u = current /\ k = RunQ)
  <2>1. RunQ \in List /\ ~ In(woken, current, RunQ)
    BY <1>1, <1>5, <1>8, Constants
  <2> QED
    BY <1>1, <1>5, <1>6, <2>1, EnqueueIn
<1>10. /\ state' \in [Thread -> ThreadState]
       /\ \A t \in Thread : state'[t] = IF t \in {h, current} THEN "RUNNABLE" ELSE state[t]
  BY <1>1, <1>3, <1>7 DEF IInv, TypeOK, ThreadState
<1>11. /\ queueOf' \in [Thread -> List \union {None}]
       /\ \A t \in Thread : queueOf'[t] = IF t \in {h, current} THEN RunQ ELSE queueOf[t]
  BY <1>1, <1>3, <1>7, Constants DEF IInv, TypeOK
<1>12. /\ resume' \in [Thread -> WaitList \union {None}]
       /\ \A t \in Thread \ {current} : resume'[t] = resume[t]
  BY <1>1 DEF IInv, TypeOK
<1>13. Matches(q', state', queueOf', resume', active')
  <2>1. ASSUME NEW t \in {h, current}
        PROVE  MatchesOne(q', state', queueOf', resume', active', t)
    <3>1. \A k \in List : In(q', t, k) <=> k = RunQ
      BY <1>1, <1>3, <1>4, <1>5, <1>8, <1>9, Constants
    <3>2. state'[t] = "RUNNABLE" /\ queueOf'[t] = RunQ /\ t \in active'
      BY <1>1, <1>3, <1>4, <1>10, <1>11
    <3> QED
      BY <3>1, <3>2, Constants DEF MatchesOne
  <2>2. \A t \in Thread \ {h, current} : Untouched(t)
    BY <1>5, <1>9, <1>10, <1>11, <1>12 DEF Untouched
  <2> QED
    BY <1>2, <2>1, <2>2, OthersMatch
<1>14. TypeOK'
  BY <1>7, <1>9, <1>10, <1>11, <1>12 DEF IInv, TypeOK, ListsOver, YieldCurrent, Phase
<1>15. HostMatchesGuest'
  BY <1>1, <1>7, <1>10, YieldStep
<1> QED
  BY <1>9, <1>13, <1>14, <1>15, IInvNext

(* osRecvMesg or osSendMesg completes, waking a thread or not.             *)
LEMMA CompleteStep ==
    ASSUME IInv, NEW l \in WaitList, NEW other \in WaitList, Complete(l, other),
           valid' \in [Queue -> Nat], \A m \in Queue : valid'[m] <= Cap[m]
    PROVE  IInv'
<1>1. /\ phase = "game" /\ resume' = [resume EXCEPT ![current] = None]
      /\ UNCHANGED <<active, slot, native, orphaned>>
  BY DEF Complete, AtMessageCall
<1>2. current \in Thread /\ state[current] = "RUNNING" /\ slot[current] = "live"
  BY <1>1, RunningThread
<1>3. /\ resume' \in [Thread -> WaitList \union {None}]
      /\ \A t \in Thread \ {current} : resume'[t] = resume[t]
      /\ \A t \in Thread : state[t] = "WAITING" => resume'[t] = resume[t]
  BY <1>1, <1>2 DEF IInv, TypeOK
<1>4. CASE q[other] # <<>> /\ WakeHeadAndYield(other)
  BY <1>1, <1>4, WakeHeadAndYieldStep
<1>5. CASE q[other] # <<>> /\ WakeHead(other) /\ UNCHANGED hostVars
  <2> DEFINE h == Head(q[other])
  <2>1. /\ h \in Thread /\ state[h] = "WAITING" /\ slot[h] = "live"
        /\ q' \in ListsOver(List) /\ Good(List, q') /\ Matches(q', state', queueOf', resume', active')
        /\ state' \in [Thread -> ThreadState]
        /\ queueOf' \in [Thread -> List \union {None}]
        /\ \A t \in Thread : state'[t] = IF t = h THEN "RUNNABLE" ELSE state[t]
    BY <1>1, <1>3, <1>5, WakeHeadStep
  <2> HIDE DEF h
  <2>2. TypeOK'
    BY <1>1, <1>3, <1>5, <2>1 DEF IInv, TypeOK, ListsOver, hostVars
  <2>3. HostMatchesGuest'
    BY <1>1, <1>2, <1>5, <2>1 DEF IInv, HostMatchesGuest, TypeOK, hostVars
  <2> QED
    BY <2>1, <2>2, <2>3, IInvNext
<1>6. CASE UNCHANGED <<listVars, hostVars>>
  <2>1. q \in ListsOver(List) /\ Good(List, q) /\ Matches(q, state, queueOf, resume, active)
    BY ListPart DEF IInv, TypeOK, ListsOver
  <2>2. MatchesOne(q, state, queueOf, resume, active, current)
    BY <1>2, <2>1 DEF Matches
  <2>3. MatchesOne(q', state', queueOf', resume', active', current)
    BY <1>1, <1>2, <1>6, <2>2 DEF MatchesOne, listVars
  <2>4. \A t \in Thread \ {current, current} : Untouched(t)
    BY <1>1, <1>3, <1>6 DEF Untouched, listVars
  <2>5. Matches(q', state', queueOf', resume', active')
    BY <2>1, <2>3, <2>4, OthersMatch
  <2>6. TypeOK'
    BY <1>1, <1>3, <1>6 DEF IInv, TypeOK, listVars, hostVars
  <2>7. HostMatchesGuest'
    BY <1>1, <1>6 DEF IInv, HostMatchesGuest, listVars, hostVars
  <2>8. Good(List, q')
    BY <1>6, <2>1 DEF listVars
  <2> QED
    BY <2>5, <2>6, <2>7, <2>8, IInvNext
<1> QED
  BY <1>4, <1>5, <1>6 DEF Complete, StartHead

LEMMA RecvStep == ASSUME IInv, NEW m \in Queue, Recv(m) PROVE IInv'
<1>1. valid' \in [Queue -> Nat] /\ \A k \in Queue : valid'[k] <= Cap[k]
  BY Constants DEF Recv, IInv, TypeOK
<1> QED
  BY <1>1, CompleteStep, Constants DEF Recv

LEMMA SendStep == ASSUME IInv, NEW m \in Queue, Send(m) PROVE IInv'
<1>1. valid' \in [Queue -> Nat] /\ \A k \in Queue : valid'[k] <= Cap[k]
  BY Constants DEF Send, IInv, TypeOK
<1> QED
  BY <1>1, CompleteStep, Constants DEF Send

LEMMA CreateStep == ASSUME IInv, NEW u \in Thread, Create(u) PROVE IInv'
<1>1. /\ phase = "game" /\ u \notin active
      /\ state' = [state EXCEPT ![u] = "STOPPED"]
      /\ queueOf' = [queueOf EXCEPT ![u] = None]
      /\ active' = active \union {u}
      /\ UNCHANGED <<q, valid, slot, hostVars, resume, native, orphaned>>
  BY DEF Create, InGame
<1>2. q \in ListsOver(List) /\ Good(List, q) /\ Matches(q, state, queueOf, resume, active)
  BY ListPart DEF IInv, TypeOK, ListsOver
<1>3. MatchesOne(q, state, queueOf, resume, active, u) /\ state[u] = "STOPPED"
  BY <1>1, <1>2 DEF Matches, MatchesOne
<1>4. /\ state' = state
      /\ queueOf' \in [Thread -> List \union {None}]
      /\ \A t \in Thread \ {u} : queueOf'[t] = queueOf[t]
  BY <1>1, <1>3 DEF IInv, TypeOK
<1>5. \A k \in List : ~ In(q, u, k)
  BY <1>3 DEF MatchesOne, List
<1>6. MatchesOne(q', state', queueOf', resume', active', u)
  BY <1>1, <1>3, <1>4, <1>5, Constants DEF MatchesOne
<1>7. \A t \in Thread \ {u, u} : Untouched(t)
  BY <1>1, <1>4 DEF Untouched
<1>8. Matches(q', state', queueOf', resume', active')
  BY <1>2, <1>6, <1>7, OthersMatch
<1>9. TypeOK'
  BY <1>1, <1>4 DEF IInv, TypeOK, hostVars
<1>10. HostMatchesGuest'
  BY <1>1, <1>4 DEF IInv, HostMatchesGuest, hostVars
<1>11. Good(List, q')
  BY <1>1, <1>2
<1> QED
  BY <1>8, <1>9, <1>10, <1>11, IInvNext

(* The started thread is linked; if it is of higher priority the caller    *)
(* is linked behind it and yields.                                         *)
LEMMA StartStep == ASSUME IInv, NEW u \in Thread, Start(u) PROVE IInv'
<1> DEFINE ready == [q EXCEPT ![RunQ] = EnqueueByPriority(@, u)]
<1>1. /\ phase = "game" /\ u \in active /\ state[u] = "STOPPED"
      /\ UNCHANGED <<active, valid, slot, resume, native, orphaned>>
  BY DEF Start, InGame
<1>2. /\ current \in Thread /\ state[current] = "RUNNING" /\ slot[current] = "live"
      /\ current \in active /\ \A k \in List : ~ In(q, current, k)
  BY <1>1, RunningThread
<1>3. q \in ListsOver(List) /\ Good(List, q) /\ Matches(q, state, queueOf, resume, active)
  BY ListPart DEF IInv, TypeOK, ListsOver
<1>4. u # current /\ \A k \in List : ~ In(q, u, k)
  BY <1>1, <1>2, <1>3 DEF Matches, MatchesOne, List
<1>5. /\ ready \in ListsOver(List) /\ Good(List, ready)
      /\ \A k \in List, t \in Thread : In(ready, t, k) <=> In(q, t, k) \/ (t = u /\ k = RunQ)
  BY <1>3, <1>4, EnqueueIn, Constants
<1>6. CASE /\ state' = [state EXCEPT ![u] = "RUNNABLE", ![current] = "RUNNABLE"]
           /\ queueOf' = [queueOf EXCEPT ![u] = RunQ, ![current] = RunQ]
           /\ q' = [q EXCEPT ![RunQ] = EnqueueByPriority(EnqueueByPriority(q[RunQ], u), current)]
           /\ YieldCurrent
  <2>1. q' = [ready EXCEPT ![RunQ] = EnqueueByPriority(@, current)]
    BY <1>3, <1>6, Constants DEF ListsOver
  <2> HIDE DEF ready
  <2>2. /\ q' \in ListsOver(List) /\ Good(List, q')
        /\ \A k \in List, t \in Thread :
              In(q', t, k) <=> In(ready, t, k) \/ (t = current /\ k = RunQ)
    <3>1. RunQ \in List /\ ~ In(ready, current, RunQ)
      BY <1>2, <1>4, <1>5, Constants
    <3> QED
      BY <1>2, <1>5, <2>1, <3>1, EnqueueIn
  <2>3. /\ state' \in [Thread -> ThreadState]
        /\ \A t \in Thread : state'[t] = IF t \in {u, current} THEN "RUNNABLE" ELSE state[t]
    BY <1>2, <1>6 DEF IInv, TypeOK, ThreadState
  <2>4. /\ queueOf' \in [Thread -> List \union {None}]
        /\ \A t \in Thread : queueOf'[t] = IF t \in {u, current} THEN RunQ ELSE queueOf[t]
    BY <1>2, <1>6, Constants DEF IInv, TypeOK
  <2>5. ASSUME NEW t \in {u, current}
        PROVE  MatchesOne(q', state', queueOf', resume', active', t)
    <3>1. \A k \in List : In(q', t, k) <=> k = RunQ
      BY <1>2, <1>4, <1>5, <2>2, Constants
    <3>2. state'[t] = "RUNNABLE" /\ queueOf'[t] = RunQ /\ t \in active'
      BY <1>1, <1>2, <2>3, <2>4
    <3> QED
      BY <3>1, <3>2, Constants DEF MatchesOne
  <2>6. \A t \in Thread \ {u, current} : Untouched(t)
    BY <1>1, <1>5, <2>2, <2>3, <2>4 DEF Untouched
  <2>7. Matches(q', state', queueOf', resume', active')
    BY <1>3, <2>5, <2>6, OthersMatch
  <2>8. TypeOK'
    BY <1>1, <1>6, <2>2, <2>3, <2>4 DEF IInv, TypeOK, ListsOver, YieldCurrent, Phase
  <2>9. HostMatchesGuest'
    BY <1>1, <1>2, <1>6, <2>3, YieldStep
  <2> QED
    BY <2>2, <2>7, <2>8, <2>9, IInvNext
<1>7. CASE /\ state' = [state EXCEPT ![u] = "RUNNABLE"]
           /\ queueOf' = [queueOf EXCEPT ![u] = RunQ]
           /\ q' = ready
           /\ UNCHANGED hostVars
  <2>1. /\ state' \in [Thread -> ThreadState]
        /\ \A t \in Thread : state'[t] = IF t = u THEN "RUNNABLE" ELSE state[t]
    BY <1>7 DEF IInv, TypeOK, ThreadState
  <2>2. /\ queueOf' \in [Thread -> List \union {None}]
        /\ \A t \in Thread : queueOf'[t] = IF t = u THEN RunQ ELSE queueOf[t]
    BY <1>7, Constants DEF IInv, TypeOK
  <2>3. q' \in ListsOver(List) /\ Good(List, q')
    BY <1>5, <1>7
  <2>4. \A k \in List, t \in Thread : In(q', t, k) <=> In(q, t, k) \/ (t = u /\ k = RunQ)
    BY <1>5, <1>7
  <2> HIDE DEF ready
  <2>5. MatchesOne(q', state', queueOf', resume', active', u)
    <3>1. \A k \in List : In(q', u, k) <=> k = RunQ
      BY <1>4, <2>4, Constants
    <3>2. state'[u] = "RUNNABLE" /\ queueOf'[u] = RunQ /\ u \in active'
      BY <1>1, <2>1, <2>2
    <3> QED
      BY <3>1, <3>2, Constants DEF MatchesOne
  <2>6. \A t \in Thread \ {u, u} : Untouched(t)
    BY <1>1, <2>1, <2>2, <2>4 DEF Untouched
  <2>7. Matches(q', state', queueOf', resume', active')
    BY <1>3, <2>5, <2>6, OthersMatch
  <2>8. TypeOK'
    BY <1>1, <1>7, <2>1, <2>2, <2>3 DEF IInv, TypeOK, ListsOver, hostVars
  <2>9. HostMatchesGuest'
    BY <1>1, <1>2, <1>4, <1>7, <2>1 DEF IInv, HostMatchesGuest, hostVars
  <2> QED
    BY <2>3, <2>7, <2>8, <2>9, IInvNext
<1> QED
  BY <1>6, <1>7 DEF Start

(* A destroyed thread is linked nowhere afterwards.                        *)
LEMMA DestroyStep == ASSUME IInv, NEW u \in Thread, Destroy(u) PROVE IInv'
<1>1. /\ phase = "game" /\ Detach(u)
      /\ active' = active \ {u}
      /\ state' = [state EXCEPT ![u] = "STOPPED"]
      /\ slot' = [slot EXCEPT ![u] = IF @ = "none" THEN @ ELSE "finished"]
      /\ UNCHANGED <<queueOf, valid, resume, native>>
  BY DEF Destroy, InGame
<1>2. /\ current \in Thread /\ state[current] = "RUNNING" /\ slot[current] = "live"
      /\ \A k \in List : ~ In(q, current, k)
  BY <1>1, RunningThread
<1>3. q \in ListsOver(List) /\ Good(List, q) /\ Matches(q, state, queueOf, resume, active)
  BY ListPart DEF IInv, TypeOK, ListsOver
<1>4. MatchesOne(q, state, queueOf, resume, active, u)
  BY <1>3 DEF Matches
<1>5. \A k \in List : In(q, u, k) => k = queueOf[u] /\ state[u] # "RUNNING"
  BY <1>4, <1>3 DEF MatchesOne, List
<1>6. /\ q' \in ListsOver(List) /\ Good(List, q')
      /\ \A k \in List, t \in Thread : In(q', t, k) <=> In(q, t, k) /\ t # u
  <2>1. CASE state[u] # "RUNNING" /\ queueOf[u] # None
    <3> DEFINE l == queueOf[u]
    <3>1. l \in List /\ q' = [q EXCEPT ![l] = Unlink(@, u)]
      BY <1>1, <2>1 DEF Detach, IInv, TypeOK
    <3> HIDE DEF l
    <3>2. /\ q' \in ListsOver(List) /\ Good(List, q')
          /\ \A k \in List, t \in Thread : In(q', t, k) <=> In(q, t, k) /\ ~ (t = u /\ k = l)
      BY <1>3, <3>1, UnlinkInLists
    <3> QED
      BY <1>5, <3>2 DEF l
  <2>2. CASE ~ (state[u] # "RUNNING" /\ queueOf[u] # None)
    <3>1. q' = q
      BY <1>1, <2>2 DEF Detach
    <3>2. \A k \in List : ~ In(q, u, k)
      BY <1>5, <2>2, Constants
    <3> QED
      BY <1>3, <3>1, <3>2
  <2> QED
    BY <2>1, <2>2
<1>7. /\ state' \in [Thread -> ThreadState]
      /\ \A t \in Thread : state'[t] = IF t = u THEN "STOPPED" ELSE state[t]
  BY <1>1 DEF IInv, TypeOK, ThreadState
<1>8. /\ slot' \in [Thread -> {"none", "live", "finished"}]
      /\ \A t \in Thread \ {u} : slot'[t] = slot[t]
  BY <1>1 DEF IInv, TypeOK
<1>9. Matches(q', state', queueOf', resume', active')
  <2>1. MatchesOne(q', state', queueOf', resume', active', u)
    <3>1. state'[u] = "STOPPED" /\ \A k \in List : ~ In(q', u, k)
      BY <1>6, <1>7
    <3> QED
      BY <3>1, Constants DEF MatchesOne
  <2>2. \A t \in Thread \ {u, u} : Untouched(t)
    BY <1>1, <1>6, <1>7 DEF Untouched
  <2> QED
    BY <1>3, <2>1, <2>2, OthersMatch
<1>10. \/ u = current /\ YieldCurrent
       \/ u # current /\ UNCHANGED hostVars
  BY DEF Destroy
<1>11. orphaned' \in SUBSET WaitList
  BY DEF Destroy, IInv, TypeOK
<1>12. TypeOK'
  <2>1. CASE YieldCurrent
    BY <1>1, <1>6, <1>7, <1>8, <1>11, <2>1 DEF IInv, TypeOK, ListsOver, YieldCurrent, Phase
  <2>2. CASE UNCHANGED hostVars
    BY <1>1, <1>6, <1>7, <1>8, <1>11, <2>2 DEF IInv, TypeOK, ListsOver, hostVars
  <2> QED
    BY <1>10, <2>1, <2>2
<1>13. HostMatchesGuest'
  <2>1. CASE u = current /\ YieldCurrent
    <3>1. slot' = [slot EXCEPT ![current] = "finished"]
      BY <1>1, <1>2, <2>1 DEF IInv, TypeOK
    <3> QED
      BY <1>1, <1>2, <1>7, <2>1, <3>1, YieldStep
  <2>2. CASE u # current /\ UNCHANGED hostVars
    BY <1>1, <1>2, <1>7, <1>8, <2>2 DEF IInv, HostMatchesGuest, hostVars
  <2> QED
    BY <1>10, <2>1, <2>2
<1> QED
  BY <1>6, <1>9, <1>12, <1>13, IInvNext

LEMMA LeaveRootStep == ASSUME IInv, LeaveRoot PROVE IInv'
<1>1. /\ phase = "game" /\ slot' = [slot EXCEPT ![current] = "finished"]
      /\ current' = None /\ phase' = "sched"
      /\ UNCHANGED <<listVars, active, valid, running, resume, native, inPoll, delivered, orphaned>>
  BY DEF LeaveRoot, InGame
<1>2. current \in Thread /\ state[current] = "RUNNING"
  BY <1>1, RunningThread
<1>3. /\ slot' \in [Thread -> {"none", "live", "finished"}]
      /\ \A t \in Thread : slot'[t] = IF t = current THEN "finished" ELSE slot[t]
  BY <1>1, <1>2 DEF IInv, TypeOK
<1>4. Good(List, q') /\ Matches(q', state', queueOf', resume', active')
  BY <1>1, ListPart DEF IInv, listVars, Matches, MatchesOne
<1>5. TypeOK'
  BY <1>1, <1>3 DEF IInv, TypeOK, listVars, Phase
<1>6. HostMatchesGuest'
  BY <1>1, <1>2, <1>3 DEF IInv, HostMatchesGuest, listVars
<1> QED
  BY <1>4, <1>5, <1>6, IInvNext

-----------------------------------------------------------------------------
(* Every step of the scheduler, of a poll and of the game keeps IInv.      *)
THEOREM NextKeepsIInv == IInv /\ [Next]_vars => IInv'
<1> SUFFICES ASSUME IInv, [Next]_vars PROVE IInv'
  OBVIOUS
<1>1. CASE Dispatch
  BY <1>1, DispatchStep
<1>2. CASE ExhaustSlots
  BY <1>2, ExhaustSlotsStep
<1>3. CASE BeginIdle \/ EndIdle \/ BeginPoll \/ EnterNative \/ LeaveNative
  <2>1. /\ UNCHANGED <<listVars, active, valid, slot, running, current, resume, orphaned>>
        /\ \/ phase \in {"sched", "idle"} /\ phase' \in {"sched", "idle"}
           \/ phase \in {"game", "poll"} /\ phase' \in {"game", "poll"}
    BY <1>3 DEF BeginIdle, EndIdle, BeginPoll, EnterNative, LeaveNative, InGame, hostVars
  <2>2. delivered' \in BOOLEAN /\ inPoll' = (phase' = "poll")
    BY <1>3 DEF BeginIdle, EndIdle, BeginPoll, EnterNative, LeaveNative, InGame, hostVars,
                IInv, TypeOK, HostMatchesGuest
  <2>3. native' \in SUBSET Thread
    <3>1. native \in SUBSET Thread
      BY DEF IInv, TypeOK
    <3>2. CASE EnterNative
      BY <3>1, <3>2, RunningThread DEF EnterNative, InGame
    <3>3. CASE BeginIdle \/ EndIdle \/ BeginPoll \/ LeaveNative
      BY <3>1, <3>3 DEF BeginIdle, EndIdle, BeginPoll, LeaveNative
    <3> QED
      BY <1>3, <3>2, <3>3
  <2> QED
    BY <2>1, <2>2, <2>3, QuietStep
<1>4. ASSUME NEW vi \in BOOLEAN, EndPoll(vi) PROVE IInv'
  <2>1. /\ UNCHANGED <<listVars, active, valid, slot, running, current, resume, orphaned>>
        /\ native' = native /\ delivered' = FALSE /\ inPoll' = FALSE
        /\ phase = "poll" /\ phase' = "game"
    BY <1>4 DEF EndPoll
  <2>2. native' \in SUBSET Thread
    BY <2>1 DEF IInv, TypeOK
  <2> QED
    BY <2>1, <2>2, QuietStep
<1>5. ASSUME NEW vi \in BOOLEAN, Preempt(vi) PROVE IInv'
  BY <1>5, PreemptStep
<1>6. ASSUME NEW m \in EventQueue, IdlePost(m) \/ PollPost(m) PROVE IInv'
  <2>1. /\ PostEvent(m)
        /\ UNCHANGED <<active, slot, running, current, phase, inPoll, resume, native, orphaned>>
    BY <1>6 DEF IdlePost, PollPost, hostVars
  <2>2. delivered' \in BOOLEAN
    BY <1>6 DEF IdlePost, PollPost, hostVars, IInv, TypeOK
  <2> QED
    BY <2>1, <2>2, PostEventStep
<1>7. ASSUME NEW m \in Queue, RecvWait(m) \/ SendWait(m) PROVE IInv'
  BY <1>7, WaitStep, Constants DEF RecvWait, SendWait
<1>8. ASSUME NEW m \in Queue, Recv(m) PROVE IInv'
  BY <1>8, RecvStep
<1>9. ASSUME NEW m \in Queue, Send(m) PROVE IInv'
  BY <1>9, SendStep
<1>10. ASSUME NEW u \in Thread, Create(u) PROVE IInv'
  BY <1>10, CreateStep
<1>11. ASSUME NEW u \in Thread, Start(u) PROVE IInv'
  BY <1>11, StartStep
<1>12. ASSUME NEW u \in Thread, Destroy(u) PROVE IInv'
  BY <1>12, DestroyStep
<1>13. CASE Yield
  BY <1>13, YieldActionStep
<1>14. CASE DispatchThread
  BY <1>14, DispatchThreadStep
<1>15. CASE Pause
  BY <1>15, PauseStep
<1>16. CASE LeaveRoot
  BY <1>16, LeaveRootStep
<1>17. CASE UNCHANGED vars
  <2>1. /\ UNCHANGED <<listVars, active, valid, slot, hostVars, resume, native, orphaned>>
    BY <1>17 DEF vars
  <2>2. Good(List, q') /\ Matches(q', state', queueOf', resume', active')
    BY <2>1, ListPart DEF IInv, listVars, Matches, MatchesOne
  <2>3. TypeOK' /\ HostMatchesGuest'
    BY <2>1 DEF IInv, TypeOK, HostMatchesGuest, listVars, hostVars
  <2> QED
    BY <2>2, <2>3, IInvNext
<1> QED
  BY <1>1, <1>2, <1>3, <1>4, <1>5, <1>6, <1>7, <1>8, <1>9, <1>10, <1>11, <1>12, <1>13,
     <1>14, <1>15, <1>16, <1>17 DEF Next, RunLoop, Poll, Game

THEOREM IInvHolds == Spec => []IInv
BY InitIInv, NextKeepsIInv, PTL DEF Spec

(* The variables keep their types, and no queue holds more messages than   *)
(* its capacity.                                                           *)
THEOREM TypeCorrect == Spec => []TypeOK
<1>1. IInv => TypeOK
  BY DEF IInv
<1> QED
  BY <1>1, IInvHolds, PTL

(* TH_QUEUE is right whenever the code relies on it: a preempted or        *)
(* dispatching thread is requeued, and a destroyed one unlinked, in the    *)
(* list it really is in.                                                   *)
THEOREM QueueMirrorCorrect == Spec => []QueueMirror
<1>1. IInv => QueueMirror
  BY DEF IInv
<1> QED
  BY <1>1, IInvHolds, PTL

(* No thread is lost or linked twice by any interleaving of yields,        *)
(* wakeups, preemptions, creations and destructions.                       *)
THEOREM ListsCorrect == Spec => [](NoDuplicate /\ StateMatchesList)
<1>1. IInv => NoDuplicate /\ StateMatchesList
  BY DEF IInv
<1> QED
  BY <1>1, IInvHolds, PTL

(* The thread the host executes is the one RDRAM calls running, and the    *)
(* poll guard never stays up.                                              *)
THEOREM HostCorrect == Spec => []HostMatchesGuest
<1>1. IInv => HostMatchesGuest
  BY DEF IInv
<1> QED
  BY <1>1, IInvHolds, PTL

(* Every list stays ordered by priority.                                   *)
THEOREM OrderCorrect == Spec => []PriorityOrder
<1>1. IInv => PriorityOrder
  BY DEF IInv
<1> QED
  BY <1>1, IInvHolds, PTL

(* Lists, states and host agree, for every set of threads and queues,      *)
(* every priority, every capacity and every number of slots.               *)
THEOREM ListsSoundCorrect == Spec => []ListsSound
<1>1. IInv => ListsSound
  BY DEF IInv, ListsSound
<1> QED
  BY <1>1, IInvHolds, PTL

-----------------------------------------------------------------------------
(* The run loop dispatches a thread no ready thread outranks.              *)
THEOREM DispatchHighestCorrect == Spec => DispatchHighest
<1>1. ASSUME IInv, [Next]_vars, phase = "sched", phase' = "game"
      PROVE  \A t \in Thread : state[t] = "RUNNABLE" => Pri[t] <= Pri[current']
  <2>1. Dispatch
    BY <1>1 DEF Next, RunLoop, Poll, Game, ExhaustSlots, BeginIdle, EndIdle, BeginPoll,
             PollPost, Preempt, EndPoll, IdlePost, RecvWait, SendWait, Recv, Send, Wait,
             Complete, AtMessageCall, InGame, Create, Start, Destroy, Yield, DispatchThread,
             Pause, LeaveRoot, EnterNative, LeaveNative, hostVars, vars
  <2>2. /\ q[RunQ] # <<>> /\ current' = Head(q[RunQ])
    BY <2>1 DEF Dispatch, PopRunQueue
  <2>3. q \in ListsOver(List) /\ Good(List, q) /\ Matches(q, state, queueOf, resume, active) /\ RunQ \in List
    BY <1>1, ListPart, Constants DEF IInv, TypeOK, ListsOver
  <2>4. \A t \in Thread : In(q, t, RunQ) => Pri[t] <= Pri[Head(q[RunQ])]
    BY <2>2, <2>3, PopInLists
  <2> QED
    BY <2>2, <2>3, <2>4 DEF Matches, MatchesOne
<1>2. IInv /\ [Next]_vars =>
         [phase = "sched" /\ phase' = "game"
             => \A t \in Thread : state[t] = "RUNNABLE" => Pri[t] <= Pri[current']]_vars
  BY <1>1
<1> QED
  BY <1>2, IInvHolds, PTL DEF Spec, DispatchHighest

(* A poll takes the CPU only outside native wrappers, only for a ready     *)
(* thread of strictly higher priority, and leaves the preempted one ready. *)
THEOREM PreemptOnlyForHigherCorrect == Spec => PreemptOnlyForHigher
<1>1. ASSUME IInv, [Next]_vars, phase = "poll", phase' = "sched"
      PROVE  /\ current \notin native
             /\ \E t \in Thread : state[t] = "RUNNABLE" /\ Pri[t] > Pri[current]
             /\ state'[current] = "RUNNABLE"
  <2>1. PICK vi \in BOOLEAN : Preempt(vi)
    BY <1>1 DEF Next, RunLoop, Poll, Game, Dispatch, PopRunQueue, ExhaustSlots, BeginIdle,
             EndIdle, BeginPoll, PollPost, EndPoll, IdlePost, RecvWait, SendWait, Recv,
             Send, Wait, Complete, AtMessageCall, InGame, Create, Start, Destroy, Yield,
             DispatchThread, Pause, LeaveRoot, EnterNative, LeaveNative, hostVars, vars
  <2>2. /\ current \notin native /\ q[RunQ] # <<>>
        /\ Pri[Head(q[RunQ])] > Pri[current]
    BY <2>1 DEF Preempt, Preempts, HigherPriorityReady
  <2>3. q \in ListsOver(List) /\ Good(List, q) /\ Matches(q, state, queueOf, resume, active) /\ RunQ \in List
    BY <1>1, ListPart, Constants DEF IInv, TypeOK, ListsOver
  <2>4. Head(q[RunQ]) \in Thread /\ In(q, Head(q[RunQ]), RunQ)
    BY <2>2, <2>3, PopInLists
  <2>5. state[Head(q[RunQ])] = "RUNNABLE"
    BY <2>3, <2>4 DEF Matches, MatchesOne
  <2>6. current \in Thread /\ state[current] = "RUNNING"
    BY <1>1, RunningThread
  <2>7. state' = [state EXCEPT ![current] = "RUNNABLE"]
    BY <2>1, <2>6 DEF Preempt, RequeueCurrent
  <2>8. state'[current] = "RUNNABLE"
    BY <1>1, <2>6, <2>7 DEF IInv, TypeOK
  <2> QED
    BY <2>2, <2>4, <2>5, <2>8
<1>2. IInv /\ [Next]_vars =>
         [phase = "poll" /\ phase' = "sched"
             => /\ current \notin native
                /\ \E t \in Thread : state[t] = "RUNNABLE" /\ Pri[t] > Pri[current]
                /\ state'[current] = "RUNNABLE"]_vars
  BY <1>1
<1> QED
  BY <1>2, IInvHolds, PTL DEF Spec, PreemptOnlyForHigher

-----------------------------------------------------------------------------
(* NoLostWakeup.  Served(l) is its instance for one side l of a queue,     *)
(* Room(l) what that side could be served with at once: messages for a     *)
(* receiver, free places for a sender.                                     *)

Room(l) == IF l[2] = "recv" THEN valid[l[1]] ELSE Cap[l[1]] - valid[l[1]]

Served(l) == q[l] # <<>> /\ l \notin orphaned => Room(l) <= Cardinality(Woken(l))

AllServed == \A l \in WaitList : Served(l)

LEMMA ServedIsNoLostWakeup == AllServed <=> NoLostWakeup
<1>1. \A m \in Queue : /\ <<m, "recv">> \in WaitList /\ <<m, "send">> \in WaitList
                       /\ Room(<<m, "recv">>) = valid[m]
                       /\ Room(<<m, "send">>) = Cap[m] - valid[m]
  BY DEF WaitList, Room
<1>2. \A l \in WaitList : \E m \in Queue : l = <<m, "recv">> \/ l = <<m, "send">>
  BY DEF WaitList
<1> QED
  BY <1>1, <1>2 DEF AllServed, Served, NoLostWakeup

LEMMA ThreadSetFinite ==
    ASSUME NEW S \in SUBSET Thread
    PROVE  IsFiniteSet(S) /\ Cardinality(S) \in Nat
<1>1. IsFiniteSet(S)
  BY SchedulerAssumption, FS_Subset
<1> QED
  BY <1>1, FS_CardinalityType

(* A step after which l can be served no better than before, and that      *)
(* stops no woken thread from repeating its test, c perhaps excepted.      *)
LEMMA StaysServed ==
    ASSUME TypeOK, TypeOK', NEW l \in WaitList, Served(l),
           q'[l] # <<>> => q[l] # <<>>, l \notin orphaned' => l \notin orphaned,
           NEW c,
           l \notin orphaned' => Woken(l) \ {c} \subseteq Woken(l)',
           \/ Room(l)' <= Room(l) /\ c \notin Woken(l)
           \/ Room(l)' <= Room(l) - 1
    PROVE  Served(l)'
<1> SUFFICES ASSUME q'[l] # <<>>, l \notin orphaned'
             PROVE  Room(l)' <= Cardinality(Woken(l)')
  BY DEF Served
<1>1. Room(l) \in Nat /\ Room(l)' \in Nat
  BY SchedulerAssumption DEF TypeOK, WaitList, Room
<1>2. IsFiniteSet(Woken(l)) /\ IsFiniteSet(Woken(l)')
      /\ Cardinality(Woken(l)) \in Nat /\ Cardinality(Woken(l)') \in Nat
  BY ThreadSetFinite DEF Woken
<1>3. Room(l) <= Cardinality(Woken(l))
  BY DEF Served
<1>4. /\ Cardinality(Woken(l) \ {c}) \in Nat
      /\ Cardinality(Woken(l) \ {c}) >= Cardinality(Woken(l)) - 1
      /\ c \notin Woken(l) => Cardinality(Woken(l) \ {c}) = Cardinality(Woken(l))
      /\ Cardinality(Woken(l) \ {c}) <= Cardinality(Woken(l)')
  <2>1. IsFiniteSet(Woken(l) \ {c})
        /\ Cardinality(Woken(l) \ {c}) =
              IF c \in Woken(l) THEN Cardinality(Woken(l)) - 1 ELSE Cardinality(Woken(l))
    BY <1>2, FS_RemoveElement
  <2>2. Cardinality(Woken(l) \ {c}) \in Nat
    BY <2>1, FS_CardinalityType
  <2>3. Cardinality(Woken(l) \ {c}) <= Cardinality(Woken(l)')
    BY <1>2, FS_Subset
  <2> QED
    BY <1>2, <2>1, <2>2, <2>3
<1> QED
  BY <1>1, <1>2, <1>3, <1>4

(* A step that gives l one more message or place and wakes its head h.     *)
LEMMA WakingServes ==
    ASSUME TypeOK, TypeOK', NEW l \in WaitList, Served(l), q[l] # <<>>,
           l \notin orphaned' => l \notin orphaned,
           NEW h, h \notin Woken(l), h \in Woken(l)', Woken(l) \subseteq Woken(l)',
           Room(l)' <= Room(l) + 1
    PROVE  Served(l)'
<1> SUFFICES ASSUME l \notin orphaned'
             PROVE  Room(l)' <= Cardinality(Woken(l)')
  BY DEF Served
<1>1. Room(l) \in Nat /\ Room(l)' \in Nat
  BY SchedulerAssumption DEF TypeOK, WaitList, Room
<1>2. IsFiniteSet(Woken(l)) /\ IsFiniteSet(Woken(l)')
      /\ Cardinality(Woken(l)) \in Nat /\ Cardinality(Woken(l)') \in Nat
  BY ThreadSetFinite DEF Woken
<1>3. Room(l) <= Cardinality(Woken(l))
  BY DEF Served
<1>4. Cardinality(Woken(l)) + 1 <= Cardinality(Woken(l)')
  <2>1. IsFiniteSet(Woken(l) \cup {h})
        /\ Cardinality(Woken(l) \cup {h}) = Cardinality(Woken(l)) + 1
    BY <1>2, FS_AddElement
  <2>2. Cardinality(Woken(l) \cup {h}) <= Cardinality(Woken(l)')
    BY <1>2, FS_Subset
  <2> QED
    BY <2>1, <2>2
<1> QED
  BY <1>1, <1>2, <1>3, <1>4

(* Steps that change no message, empty no wait list and stop no woken      *)
(* thread from repeating its test.                                         *)
LEMMA NothingLost ==
    ASSUME IInv, IInv', AllServed, valid' = valid,
           \A l \in WaitList : q'[l] # <<>> => q[l] # <<>>,
           orphaned \subseteq orphaned',
           \A l \in WaitList : l \notin orphaned' => Woken(l) \subseteq Woken(l)'
    PROVE  AllServed'
<1> SUFFICES ASSUME NEW l \in WaitList PROVE Served(l)'
  BY DEF AllServed
<1>1. TypeOK /\ TypeOK' /\ Served(l)
  BY DEF IInv, AllServed
<1>2. None \notin Woken(l) /\ Room(l)' <= Room(l)
  <2>1. None \notin Woken(l)
    BY Constants DEF Woken
  <2>2. Room(l)' = Room(l) /\ Room(l) \in Nat
    BY <1>1, SchedulerAssumption DEF Room, TypeOK, WaitList
  <2> QED
    BY <2>1, <2>2
<1>3. l \notin orphaned' => Woken(l) \ {None} \subseteq Woken(l)'
  OBVIOUS
<1> QED
  BY <1>1, <1>2, <1>3, StaysServed

(* osRecvMesg or osSendMesg waits: it is that side nothing is left for.    *)
LEMMA WaitServes ==
    ASSUME IInv, IInv', AllServed, NEW l \in WaitList, Room(l) = 0, Wait(l)
    PROVE  AllServed'
<1>0. PICK c : c = current
  OBVIOUS
<1>1. /\ phase = "game" /\ resume[c] \in {None, l} /\ valid' = valid /\ slot' = slot
      /\ state' = [state EXCEPT ![c] = "WAITING"]
      /\ q' = [q EXCEPT ![l] = EnqueueByPriority(@, c)]
      /\ resume' = [resume EXCEPT ![c] = l] /\ orphaned' = orphaned
  BY <1>0 DEF Wait, AtMessageCall, EnqueueAndYield
<1>2. c \in Thread /\ TypeOK /\ TypeOK'
  BY <1>0, <1>1, RunningThread DEF IInv
<1>3. \A k \in WaitList : Room(k)' = Room(k) /\ Room(k) \in Nat
  BY <1>1, <1>2, SchedulerAssumption DEF Room, TypeOK, WaitList
<1>4. ASSUME NEW k \in WaitList, k # l PROVE Served(k)'
  <2>1. c \notin Woken(k) /\ q'[k] = q[k] /\ Served(k)
    BY <1>1, <1>2, <1>4, Constants DEF Woken, TypeOK, AllServed
  <2>2. Woken(k) \ {c} \subseteq Woken(k)'
    BY <1>1, <1>2 DEF Woken, TypeOK
  <2>3. Room(k)' <= Room(k)
    BY <1>3
  <2> QED
    BY <1>1, <1>2, <2>1, <2>2, <2>3, StaysServed
<1>5. Served(l)'
  <2>1. Room(l)' = 0
    BY <1>3
  <2>2. Cardinality(Woken(l)') \in Nat
    BY ThreadSetFinite DEF Woken
  <2> QED
    BY <2>1, <2>2 DEF Served
<1> QED
  BY <1>4, <1>5 DEF AllServed

(* osRecvMesg or osSendMesg completes: side l has one message or place     *)
(* less, the other side one more, and the first thread waiting there is    *)
(* woken.                                                                  *)
LEMMA CompleteServes ==
    ASSUME IInv, IInv', AllServed, NEW l \in WaitList, NEW other \in WaitList, l # other,
           Complete(l, other), Room(l)' = Room(l) - 1, Room(other)' = Room(other) + 1,
           \A k \in WaitList \ {l, other} : Room(k)' = Room(k)
    PROVE  AllServed'
<1>0. PICK c, h : c = current /\ h = Head(q[other])
  OBVIOUS
<1>1. /\ phase = "game" /\ resume[c] \in {None, l} /\ slot' = slot
      /\ resume' = [resume EXCEPT ![c] = None] /\ orphaned' = orphaned
  BY <1>0 DEF Complete, AtMessageCall
<1>2. c \in Thread /\ TypeOK /\ TypeOK' /\ state[c] = "RUNNING" /\ slot[c] = "live"
  BY <1>0, <1>1, RunningThread DEF IInv
<1>3. \A k \in WaitList : Room(k) \in Nat /\ Served(k)
  BY <1>2, SchedulerAssumption DEF Room, TypeOK, WaitList, AllServed
<1>4. /\ q[other] # <<>> => /\ h \in Thread /\ state[h] = "WAITING" /\ resume[h] = other
                            /\ slot[h] = "live" /\ state'[h] = "RUNNABLE"
      /\ \A t \in Thread : \/ state'[t] = state[t]
                           \/ t \in {c, h} /\ state'[t] = "RUNNABLE"
      /\ \A k \in WaitList \ {other} : q'[k] = q[k]
      /\ q[other] = <<>> => q'[other] = <<>>
  <2>1. CASE q[other] = <<>>
    BY <2>1, <1>0 DEF Complete, listVars
  <2>2. CASE q[other] # <<>>
    <3>1. q \in ListsOver(List) /\ Good(List, q) /\ Matches(q, state, queueOf, resume, active)
      BY ListPart DEF IInv, TypeOK, ListsOver
    <3>2. h \in Thread /\ In(q, h, other)
      BY <1>0, <2>2, <3>1, Constants, PopInLists
    <3>3. state[h] = "WAITING" /\ resume[h] = other /\ slot[h] = "live"
      BY <3>1, <3>2 DEF Matches, MatchesOne, IInv, HostMatchesGuest
    <3>4. \/ state' = [state EXCEPT ![h] = "RUNNABLE"]
          \/ state' = [state EXCEPT ![h] = "RUNNABLE", ![c] = "RUNNABLE"]
      BY <1>0, <2>2 DEF Complete, StartHead, WakeHead, WakeHeadAndYield
    <3>5. \A k \in WaitList \ {other} : q'[k] = q[k]
      <4>1. PICK r : q' = [q EXCEPT ![other] = Tail(@), ![RunQ] = r]
        BY <2>2 DEF Complete, StartHead, WakeHead, WakeHeadAndYield
      <4> QED
        BY <4>1, <1>2, Constants DEF TypeOK
    <3> QED
      BY <2>2, <3>2, <3>3, <3>4, <3>5, <1>2 DEF TypeOK
  <2> QED
    BY <2>1, <2>2
<1>5. \A k \in WaitList : Woken(k) \ {c} \subseteq Woken(k)'
  BY <1>1, <1>2, <1>4 DEF Woken, TypeOK
<1>6. \A k \in WaitList \ {l} : c \notin Woken(k)
  BY <1>1, Constants DEF Woken
<1>7. ASSUME NEW k \in WaitList \ {l, other} PROVE Served(k)'
  BY <1>1, <1>2, <1>3, <1>4, <1>5, <1>6, StaysServed
<1>8. Served(l)'
  <2>1. Room(l)' <= Room(l) - 1 /\ q'[l] = q[l]
    BY <1>3, <1>4
  <2> QED
    BY <1>1, <1>2, <1>3, <1>5, <2>1, StaysServed
<1>9. Served(other)'
  <2>1. CASE q[other] = <<>>
    BY <2>1, <1>4 DEF Served
  <2>2. CASE q[other] # <<>>
    <3>1. Woken(other) \subseteq Woken(other)'
      BY <1>5, <1>6
    <3>2. h \notin Woken(other)
      BY <2>2, <1>4 DEF Woken
    <3>3. h # c
      BY <2>2, <1>2, <1>4
    <3>4. h \in Woken(other)'
      BY <2>2, <3>3, <1>1, <1>2, <1>4 DEF Woken, TypeOK
    <3>5. Room(other)' <= Room(other) + 1
      BY <1>3
    <3> QED
      BY <2>2, <3>1, <3>2, <3>4, <3>5, <1>1, <1>2, <1>3, WakingServes
  <2> QED
    BY <2>1, <2>2
<1> QED
  BY <1>7, <1>8, <1>9 DEF AllServed

(* A device event is one message more, and wakes the first receiver.       *)
LEMMA PostEventServes ==
    ASSUME IInv, IInv', AllServed, NEW m \in EventQueue, PostEvent(m),
           UNCHANGED <<slot, resume, orphaned>>
    PROVE  AllServed'
<1> DEFINE l == <<m, "recv">>
           other == <<m, "send">>
<1>0. PICK h : h = Head(q[l])
  OBVIOUS
<1>1. l \in WaitList /\ other \in WaitList /\ l # other /\ m \in Queue /\ Cap[m] \in Nat
      /\ TypeOK /\ TypeOK'
  BY Constants DEF IInv
<1>2. valid' = [valid EXCEPT ![m] = @ + 1]
  BY DEF PostEvent
<1>3. /\ Room(l)' = Room(l) + 1 /\ Room(other)' = Room(other) - 1
      /\ \A k \in WaitList \ {l, other} : Room(k)' = Room(k)
  BY <1>1, <1>2 DEF Room, TypeOK, WaitList
<1>4. \A k \in WaitList : Room(k) \in Nat /\ Served(k)
  BY <1>1, SchedulerAssumption DEF Room, TypeOK, WaitList, AllServed
<1>5. CASE q[l] = <<>>
  <2>1. UNCHANGED listVars
    BY <1>5 DEF PostEvent
  <2>2. \A k \in WaitList : Woken(k)' = Woken(k) /\ q'[k] = q[k] /\ None \notin Woken(k)
    BY <2>1, Constants DEF Woken, listVars
  <2>3. ASSUME NEW k \in WaitList, k # l PROVE Served(k)'
    <3>1. Room(k)' <= Room(k)
      BY <1>3, <1>4, <2>3
    <3> QED
      BY <3>1, <2>2, <1>1, <1>4, StaysServed
  <2>4. Served(l)'
    BY <1>1, <1>5, <2>2 DEF Served
  <2> QED
    BY <2>3, <2>4 DEF AllServed
<1>6. CASE q[l] # <<>>
  <2>1. WakeHead(l)
    BY <1>6 DEF PostEvent
  <2>2. q \in ListsOver(List) /\ Good(List, q) /\ Matches(q, state, queueOf, resume, active)
    BY ListPart DEF IInv, TypeOK, ListsOver
  <2>3. h \in Thread /\ In(q, h, l)
    BY <1>0, <1>1, <1>6, <2>2, Constants, PopInLists
  <2>4. state[h] = "WAITING" /\ resume[h] = l /\ slot[h] = "live"
    BY <1>1, <2>2, <2>3 DEF Matches, MatchesOne, IInv, HostMatchesGuest
  <2>5. state' = [state EXCEPT ![h] = "RUNNABLE"]
        /\ \E r : q' = [q EXCEPT ![l] = Tail(@), ![RunQ] = r]
    BY <1>0, <2>1 DEF WakeHead
  <2>6. \A k \in WaitList \ {l} : q'[k] = q[k]
    BY <2>5, <1>1, Constants DEF TypeOK
  <2>7. \A k \in WaitList : Woken(k) \subseteq Woken(k)' /\ None \notin Woken(k)
    BY <2>3, <2>4, <2>5, <1>1, Constants DEF Woken, TypeOK
  <2>8. h \notin Woken(l) /\ h \in Woken(l)'
    BY <2>3, <2>4, <2>5, <1>1 DEF Woken, TypeOK
  <2>9. ASSUME NEW k \in WaitList, k # l PROVE Served(k)'
    <3>1. Room(k)' <= Room(k) /\ q'[k] = q[k] /\ Woken(k) \ {None} \subseteq Woken(k)'
      BY <1>3, <1>4, <2>6, <2>7, <2>9
    <3> QED
      BY <3>1, <2>7, <1>1, <1>4, StaysServed
  <2>10. Served(l)'
    <3>1. Room(l)' <= Room(l) + 1
      BY <1>1, <1>3, <1>4
    <3> QED
      BY <3>1, <1>1, <1>4, <1>6, <2>7, <2>8, WakingServes
  <2> QED
    BY <2>9, <2>10 DEF AllServed
<1> QED
  BY <1>5, <1>6

(* A thread is created, started or destroyed, or ends.                     *)
LEMMA CreateServes ==
    ASSUME IInv, IInv', AllServed, NEW u \in Thread, Create(u)
    PROVE  AllServed'
<1>1. state[u] = "STOPPED" /\ state' = [state EXCEPT ![u] = "STOPPED"]
      /\ UNCHANGED <<q, valid, slot, resume, orphaned>>
  BY DEF Create, IInv, StateMatchesList
<1>2. \A l \in WaitList : Woken(l) \subseteq Woken(l)'
  BY <1>1 DEF Woken, IInv, TypeOK
<1> QED
  BY <1>1, <1>2, NothingLost

LEMMA StartServes ==
    ASSUME IInv, IInv', AllServed, NEW u \in Thread, Start(u)
    PROVE  AllServed'
<1>1. UNCHANGED <<valid, slot, resume, orphaned>>
  BY DEF Start
<1>2. \A t \in Thread : state'[t] \in {state[t], "RUNNABLE"}
  BY DEF Start, IInv, TypeOK
<1>3. \A l \in WaitList : q'[l] = q[l]
  <2>1. \E r : q' = [q EXCEPT ![RunQ] = r]
    BY DEF Start
  <2> QED
    BY <2>1, Constants DEF IInv, TypeOK
<1>4. \A l \in WaitList : Woken(l) \subseteq Woken(l)'
  BY <1>1, <1>2 DEF Woken
<1> QED
  BY <1>1, <1>3, <1>4, NothingLost

LEMMA DestroyServes ==
    ASSUME IInv, IInv', AllServed, NEW u \in Thread, Destroy(u)
    PROVE  AllServed'
<1>1. /\ phase = "game" /\ resume[current] = None /\ UNCHANGED <<valid, resume>>
      /\ state' = [state EXCEPT ![u] = "STOPPED"]
      /\ slot' = [slot EXCEPT ![u] = IF @ = "none" THEN @ ELSE "finished"]
      /\ orphaned' = IF state[u] = "RUNNABLE" /\ slot[u] = "live" /\ resume[u] # None
                     THEN orphaned \union {resume[u]} ELSE orphaned
  BY DEF Destroy, InGame
<1>2. \A l \in WaitList : q'[l] # <<>> => q[l] # <<>>
  <2>1. CASE state[u] # "RUNNING" /\ queueOf[u] # None
    <3>1. q' = [q EXCEPT ![queueOf[u]] = Unlink(@, u)]
      BY <2>1 DEF Destroy, Detach
    <3>2. Unlink(<<>>, u) = <<>>
      BY DEF Unlink
    <3> QED
      BY <3>1, <3>2, Constants DEF IInv, TypeOK
  <2>2. CASE ~ (state[u] # "RUNNING" /\ queueOf[u] # None)
    BY <2>2 DEF Destroy, Detach
  <2> QED
    BY <2>1, <2>2
<1>3. ASSUME NEW l \in WaitList, l \notin orphaned' PROVE Woken(l) \subseteq Woken(l)'
  <2>1. u \notin Woken(l)
    <3>1. CASE state[u] = "RUNNABLE"
      BY <3>1, <1>1, <1>3, Constants DEF Woken
    <3>2. CASE state[u] = "RUNNING" /\ slot[u] = "live"
      <4>1. u = current
        BY <3>2, <1>1 DEF IInv, HostMatchesGuest
      <4> QED
        BY <4>1, <1>1, Constants DEF Woken
    <3> QED
      BY <3>1, <3>2 DEF Woken
  <2> QED
    BY <2>1, <1>1 DEF Woken, IInv, TypeOK
<1> QED
  BY <1>1, <1>2, <1>3, NothingLost

LEMMA LeaveServes ==
    ASSUME IInv, IInv', AllServed, Pause \/ LeaveRoot
    PROVE  AllServed'
<1>1. /\ phase = "game" /\ resume[current] = None
      /\ UNCHANGED <<q, valid, resume, orphaned>>
      /\ \A t \in Thread \ {current} : state'[t] = state[t] /\ slot'[t] = slot[t]
  BY DEF Pause, LeaveRoot, InGame, listVars, IInv, TypeOK
<1>2. \A l \in WaitList : current \notin Woken(l)
  BY <1>1, Constants DEF Woken
<1>3. \A l \in WaitList : Woken(l) \subseteq Woken(l)'
  BY <1>1, <1>2 DEF Woken
<1> QED
  BY <1>1, <1>3, NothingLost

(* A thread is dispatched, or gives the CPU up and stays ready.            *)
LEMMA DispatchServes ==
    ASSUME IInv, IInv', AllServed, Dispatch \/ ExhaustSlots
    PROVE  AllServed'
<1>0. PICK h : h = Head(q[RunQ])
  OBVIOUS
<1>1. /\ PopRunQueue /\ valid' = valid /\ active' = active /\ orphaned' = orphaned
      /\ slot' \in {slot, [slot EXCEPT ![h] = "live"]}
      /\ resume' \in {resume, [resume EXCEPT ![h] = None]}
      /\ slot[h] = "live" => resume' = resume
  BY <1>0 DEF Dispatch, ExhaustSlots
<1>2. \A l \in WaitList : q'[l] = q[l]
  BY <1>1, Constants DEF PopRunQueue, IInv, TypeOK
<1>3. /\ h \in Thread /\ state[h] = "RUNNABLE"
      /\ \A t \in Thread : state'[t] = IF t = h THEN "RUNNING" ELSE state[t]
  <2>1. \A t \in Thread : t # Head(q[RunQ]) => resume'[t] = resume[t]
    BY <1>0, <1>1 DEF IInv, TypeOK
  <2> QED
    BY <1>0, <1>1, <2>1, PopStep
<1>4. \A l \in WaitList : Woken(l) \subseteq Woken(l)'
  BY <1>1, <1>3 DEF Woken, IInv, TypeOK
<1> QED
  BY <1>1, <1>2, <1>4, NothingLost

LEMMA GiveUpServes ==
    ASSUME IInv, IInv', AllServed,
           Yield \/ DispatchThread \/ \E vi \in BOOLEAN : Preempt(vi)
    PROVE  AllServed'
<1>1. /\ UNCHANGED <<valid, slot, resume, orphaned>>
      /\ \/ UNCHANGED listVars
         \/ /\ state' = [state EXCEPT ![current] = "RUNNABLE"]
            /\ \E r : q' = [q EXCEPT ![RunQ] = r]
  BY DEF Yield, DispatchThread, Preempt, EnqueueAndYield, RequeueCurrent
<1>2. \A l \in WaitList : q'[l] = q[l]
  BY <1>1, Constants DEF listVars, IInv, TypeOK
<1>3. \A l \in WaitList : Woken(l) \subseteq Woken(l)'
  BY <1>1 DEF listVars, Woken, IInv, TypeOK
<1> QED
  BY <1>1, <1>2, <1>3, NothingLost

LEMMA QuietServes ==
    ASSUME IInv, IInv', AllServed, UNCHANGED <<listVars, valid, slot, resume, orphaned>>
    PROVE  AllServed'
<1>1. \A l \in WaitList : Woken(l) \subseteq Woken(l)' /\ q'[l] = q[l]
  BY DEF Woken, listVars
<1> QED
  BY <1>1, NothingLost

THEOREM NextServes == IInv /\ AllServed /\ [Next]_vars => AllServed'
<1> SUFFICES ASSUME IInv, AllServed, [Next]_vars PROVE AllServed'
  OBVIOUS
<1>1. IInv'
  BY NextKeepsIInv
<1>2. ASSUME NEW m \in Queue, RecvWait(m) \/ SendWait(m) PROVE AllServed'
  <2>1. CASE RecvWait(m)
    <3>1. <<m, "recv">> \in WaitList /\ Room(<<m, "recv">>) = 0 /\ Wait(<<m, "recv">>)
      BY <2>1, Constants DEF RecvWait, Room
    <3> QED
      BY <3>1, <1>1, WaitServes
  <2>2. CASE SendWait(m)
    <3>1. <<m, "send">> \in WaitList /\ valid[m] >= Cap[m] /\ Wait(<<m, "send">>)
      BY <2>2, Constants DEF SendWait
    <3>2. valid[m] \in Nat /\ Cap[m] \in Nat /\ valid[m] <= Cap[m]
      BY Constants DEF IInv, TypeOK
    <3>3. Room(<<m, "send">>) = 0
      BY <3>1, <3>2 DEF Room
    <3> QED
      BY <3>1, <3>3, <1>1, WaitServes
  <2> QED
    BY <1>2, <2>1, <2>2
<1>3. ASSUME NEW m \in Queue, Recv(m) \/ Send(m) PROVE AllServed'
  <2> DEFINE r == <<m, "recv">>
             s == <<m, "send">>
  <2>1. r \in WaitList /\ s \in WaitList /\ r # s /\ Cap[m] \in Nat
    BY Constants
  <2>2. CASE Recv(m)
    <3>1. /\ Room(r)' = Room(r) - 1 /\ Room(s)' = Room(s) + 1
          /\ \A k \in WaitList \ {r, s} : Room(k)' = Room(k)
      BY <2>1, <2>2 DEF Recv, Room, IInv, TypeOK, WaitList
    <3>2. Complete(r, s)
      BY <2>2 DEF Recv
    <3> HIDE DEF r, s
    <3> QED
      BY <2>1, <3>1, <3>2, <1>1, CompleteServes
  <2>3. CASE Send(m)
    <3>1. /\ Room(s)' = Room(s) - 1 /\ Room(r)' = Room(r) + 1
          /\ \A k \in WaitList \ {s, r} : Room(k)' = Room(k)
      BY <2>1, <2>3 DEF Send, Room, IInv, TypeOK, WaitList
    <3>2. Complete(s, r)
      BY <2>3 DEF Send
    <3> HIDE DEF r, s
    <3> QED
      BY <2>1, <3>1, <3>2, <1>1, CompleteServes
  <2> QED
    BY <1>3, <2>2, <2>3
<1>4. ASSUME NEW m \in EventQueue, IdlePost(m) \/ PollPost(m) PROVE AllServed'
  BY <1>1, <1>4, PostEventServes DEF IdlePost, PollPost
<1>5. ASSUME NEW u \in Thread, Create(u) \/ Start(u) \/ Destroy(u) PROVE AllServed'
  BY <1>1, <1>5, CreateServes, StartServes, DestroyServes
<1>6. CASE BeginIdle \/ EndIdle \/ BeginPoll \/ EnterNative \/ LeaveNative
           \/ \E vi \in BOOLEAN : EndPoll(vi)
  BY <1>1, <1>6, QuietServes
     DEF BeginIdle, EndIdle, BeginPoll, EnterNative, LeaveNative, EndPoll
<1>7. CASE UNCHANGED vars
  BY <1>1, <1>7, QuietServes DEF vars
<1> QED
  BY <1>1, <1>2, <1>3, <1>4, <1>5, <1>6, <1>7, LeaveServes, DispatchServes, GiveUpServes
     DEF Next, RunLoop, Poll, Game

(* NoLostWakeup: no interleaving of sends, receives, device events,        *)
(* preemptions and destructions leaves a thread asleep on a queue that     *)
(* could serve it, unless the thread woken for it died before it ran.      *)
THEOREM NoLostWakeupCorrect == Spec => []NoLostWakeup
<1>1. Init => AllServed
  BY Constants DEF Init, AllServed, Served
<1>2. Spec => [](IInv /\ AllServed)
  BY <1>1, InitIInv, NextKeepsIInv, NextServes, PTL DEF Spec
<1>3. AllServed => NoLostWakeup
  BY ServedIsNoLostWakeup
<1> QED
  BY <1>2, <1>3, PTL

-----------------------------------------------------------------------------
(* Scheduler implements PriorityScheduler.  Ready and Blocked are what the *)
(* refinement mapping substitutes for ready and blocked.                   *)

Ready == {t \in Thread : state[t] = "RUNNABLE"}
Blocked == {t \in Thread : state[t] = "WAITING"}

LEMMA OneStateChanges ==
    ASSUME IInv, NEW u \in Thread, NEW s \in ThreadState, state' = [state EXCEPT ![u] = s]
    PROVE  /\ Ready' = IF s = "RUNNABLE" THEN Ready \union {u} ELSE Ready \ {u}
           /\ Blocked' = IF s = "WAITING" THEN Blocked \union {u} ELSE Blocked \ {u}
<1>1. \A t \in Thread : state'[t] = IF t = u THEN s ELSE state[t]
  BY DEF IInv, TypeOK
<1> QED
  BY <1>1 DEF Ready, Blocked

(* The run queue holds the ready threads, its head outranks the others.    *)
LEMMA RunQueueIsReady ==
    ASSUME IInv
    PROVE  /\ q[RunQ] \in Seq(Thread) /\ Range(q[RunQ]) = Ready
           /\ q[RunQ] # <<>> => /\ Head(q[RunQ]) \in Ready
                                /\ \A u \in Ready : Pri[u] <= Pri[Head(q[RunQ])]
<1>1. RunQ \in List /\ q[RunQ] \in Seq(Thread) /\ Ordered(q[RunQ])
  BY Constants DEF IInv, TypeOK, PriorityOrder
<1>2. Range(q[RunQ]) = Ready
  <2>1. \A t \in Range(q[RunQ]) : t \in Thread
    BY <1>1, LenProperties DEF Range
  <2> QED
    BY <2>1 DEF IInv, StateMatchesList, Linked, Ready
<1> QED
  BY <1>1, <1>2, TailKeeps

(* What osStartThread compares with: the head after the insertion.         *)
LEMMA HeadAfterEnqueue ==
    ASSUME IInv, NEW t \in Thread
    PROVE  /\ Head(EnqueueByPriority(q[RunQ], t)) \in Ready \union {t}
           /\ \A u \in Ready \union {t} : Pri[u] <= Pri[Head(EnqueueByPriority(q[RunQ], t))]
<1> DEFINE e == EnqueueByPriority(q[RunQ], t)
<1>1. q[RunQ] \in Seq(Thread) /\ Ordered(q[RunQ]) /\ Range(q[RunQ]) = Ready
  BY RunQueueIsReady, Constants DEF IInv, PriorityOrder
<1>2. e \in Seq(Thread) /\ e # <<>> /\ Ordered(e) /\ Range(e) = Ready \union {t}
  BY <1>1, EnqueueKeeps
<1> HIDE DEF e
<1>3. Head(e) \in Range(e) /\ \A u \in Range(e) : Pri[u] <= Pri[Head(e)]
  BY <1>2, TailKeeps
<1> QED
  BY <1>2, <1>3 DEF e

(* The thread wants to start t; yields says whether it gives the CPU up.   *)
LEMMA YieldsForHigher ==
    ASSUME IInv, current \in Thread, NEW t \in Thread
    PROVE  Pri[current] < Pri[Head(EnqueueByPriority(q[RunQ], t))]
               <=> \E u \in Ready \union {t} : Pri[u] > Pri[current]
<1> DEFINE h == Head(EnqueueByPriority(q[RunQ], t))
<1>1. h \in Ready \union {t} /\ \A u \in Ready \union {t} : Pri[u] <= Pri[h]
  BY HeadAfterEnqueue
<1>2. \A u \in Ready \union {t} : Pri[u] \in Nat
  BY PriAssumption DEF Ready
<1>3. Pri[current] \in Nat
  BY PriAssumption
<1> HIDE DEF h
<1>4. Pri[current] < Pri[h] <=> \E u \in Ready \union {t} : Pri[u] > Pri[current]
  BY <1>1, <1>2, <1>3
<1> QED
  BY <1>4 DEF h

LEMMA SlotsKept ==
    ASSUME IInv, slot' = slot \/ \E u \in Thread : slot[u] # "none" /\ slot' = [slot EXCEPT ![u] = "finished"]
    PROVE  UsedSlots' = UsedSlots
<1>1. slot \in [Thread -> {"none", "live", "finished"}]
  BY DEF IInv, TypeOK
<1>2. \A t \in Thread : slot'[t] # "none" <=> slot[t] # "none"
  BY <1>1
<1> QED
  BY <1>2 DEF UsedSlots

(* The abstract module counts with the Cardinality it extends itself.      *)
LEMMA SameCount == ASSUME NEW S PROVE Abstract!Cardinality(S) = Cardinality(S)
BY Zenon DEF Cardinality, Abstract!Cardinality

LEMMA MapDispatch == ASSUME IInv, Dispatch PROVE Abstract!Schedule
<1> DEFINE h == Head(q[RunQ])
<1>1. /\ phase = "sched" /\ phase' = "game" /\ q[RunQ] # <<>> /\ current' = h
      /\ state' = [state EXCEPT ![h] = "RUNNING"]
      /\ slot' = [slot EXCEPT ![h] = "live"]
      /\ slot[h] # "none" \/ Cardinality(UsedSlots) < MaxSlots
  BY DEF Dispatch, PopRunQueue, SlotFree
<1>2. current = None
  BY <1>1 DEF IInv, HostMatchesGuest
<1>3. h \in Ready /\ h \in Thread /\ \A u \in Ready : Pri[u] <= Pri[h]
  BY <1>1, RunQueueIsReady DEF Ready
<1> HIDE DEF h
<1>4. Ready' = Ready \ {h} /\ Blocked' = Blocked \ {h} /\ h \notin Blocked
  BY <1>1, <1>3, OneStateChanges DEF ThreadState, Ready, Blocked
<1>5. UsedSlots' = UsedSlots \union {h}
  <2>1. \A t \in Thread : slot'[t] = IF t = h THEN "live" ELSE slot[t]
    BY <1>1 DEF IInv, TypeOK
  <2> QED
    BY <2>1, <1>3 DEF UsedSlots
<1>6. h \in Abstract!Top /\ Abstract!Admitted(h)
  BY <1>1, <1>3, SameCount DEF Abstract!Top, Abstract!Admitted, Ready, UsedSlots
<1> QED
  BY <1>1, <1>2, <1>4, <1>5, <1>6 DEF Abstract!Schedule, Ready, Blocked

LEMMA MapExhaustSlots == ASSUME IInv, ExhaustSlots PROVE Abstract!Halt
<1> DEFINE h == Head(q[RunQ])
<1>1. /\ phase = "sched" /\ phase' = "halted" /\ q[RunQ] # <<>> /\ current' = current
      /\ state' = [state EXCEPT ![h] = "RUNNING"]
      /\ slot' = slot /\ slot[h] = "none" /\ ~ Cardinality(UsedSlots) < MaxSlots
  BY DEF ExhaustSlots, PopRunQueue, SlotFree
<1>2. current = None
  BY <1>1 DEF IInv, HostMatchesGuest
<1>3. h \in Ready /\ h \in Thread /\ \A u \in Ready : Pri[u] <= Pri[h]
  BY <1>1, RunQueueIsReady DEF Ready
<1> HIDE DEF h
<1>4. Ready' = Ready \ {h} /\ Blocked' = Blocked \ {h} /\ h \notin Blocked
  BY <1>1, <1>3, OneStateChanges DEF ThreadState, Ready, Blocked
<1>5. UsedSlots' = UsedSlots
  BY <1>1, SlotsKept
<1>6. h \in Abstract!Top /\ ~ Abstract!Admitted(h)
  BY <1>1, <1>3, SameCount DEF Abstract!Top, Abstract!Admitted, Ready, UsedSlots
<1> QED
  BY <1>1, <1>2, <1>4, <1>5, <1>6 DEF Abstract!Halt, Ready, Blocked

(* Steps the abstract scheduler does not see.                              *)
LEMMA MapQuiet ==
    ASSUME state' = state, UsedSlots' = UsedSlots, current' = current,
           (phase' = "game") = (phase = "game"), (phase' = "halted") = (phase = "halted")
    PROVE  UNCHANGED Abstract!vars
BY DEF Abstract!vars

LEMMA MapPostEvent ==
    ASSUME IInv, NEW m \in EventQueue, PostEvent(m), phase \in {"idle", "poll"},
           UNCHANGED <<active, slot, current, phase, resume>>
    PROVE  [Abstract!Next]_(Abstract!vars)
<1> DEFINE l == <<m, "recv">>
           h == Head(q[l])
<1>1. l \in WaitList /\ UsedSlots' = UsedSlots
  BY Constants, SlotsKept
<1>2. CASE q[l] # <<>> /\ WakeHead(l)
  <2>1. h \in Thread /\ state[h] = "WAITING"
    BY <1>1, <1>2, WakeHeadStep
  <2>2. state' = [state EXCEPT ![h] = "RUNNABLE"]
    BY <1>2 DEF WakeHead
  <2> HIDE DEF h
  <2>3. h \in Blocked /\ Ready' = Ready \union {h} /\ Blocked' = Blocked \ {h}
    BY <2>1, <2>2, OneStateChanges DEF ThreadState, Blocked
  <2>4. Abstract!Wake
    BY <1>1, <2>3 DEF Abstract!Wake, Ready, Blocked
  <2> QED
    BY <2>4 DEF Abstract!Next
<1>3. CASE UNCHANGED listVars
  BY <1>1, <1>3, MapQuiet DEF listVars
<1> QED
  BY <1>2, <1>3 DEF PostEvent

(* The running thread starts t, and yields to a thread of higher priority. *)
LEMMA MapMakeReady ==
    ASSUME IInv, phase = "game", NEW t \in Thread, state[t] \in {"STOPPED", "WAITING"}, slot' = slot,
           \/ /\ Pri[current] < Pri[Head(EnqueueByPriority(q[RunQ], t))]
              /\ state' = [state EXCEPT ![t] = "RUNNABLE", ![current] = "RUNNABLE"]
              /\ current' = None /\ phase' = "sched"
           \/ /\ ~ Pri[current] < Pri[Head(EnqueueByPriority(q[RunQ], t))]
              /\ state' = [state EXCEPT ![t] = "RUNNABLE"]
              /\ UNCHANGED <<current, phase>>
    PROVE  Abstract!MakeReady
<1> DEFINE yields == Pri[current] < Pri[Head(EnqueueByPriority(q[RunQ], t))]
<1>1. current \in Thread /\ state[current] = "RUNNING" /\ current # None /\ t # current
  BY RunningThread, Constants
<1>2. yields <=> \E u \in Ready \union {t} : Pri[u] > Pri[current]
  BY <1>1, YieldsForHigher
<1>3. t \in Thread \ (Ready \union {current})
  BY <1>1 DEF Ready
<1>4. \A u \in Thread : state'[u] = IF u = t \/ (u = current /\ yields) THEN "RUNNABLE" ELSE state[u]
  <2>1. CASE yields
    <3>1. state' = [state EXCEPT ![t] = "RUNNABLE", ![current] = "RUNNABLE"]
      BY <2>1
    <3> HIDE DEF yields
    <3> QED
      BY <1>1, <2>1, <3>1 DEF IInv, TypeOK
  <2>2. CASE ~ yields
    <3>1. state' = [state EXCEPT ![t] = "RUNNABLE"]
      BY <2>2
    <3> HIDE DEF yields
    <3> QED
      BY <1>1, <2>2, <3>1 DEF IInv, TypeOK
  <2> QED
    BY <2>1, <2>2
<1>5. UsedSlots' = UsedSlots
  BY SlotsKept
<1>6. \/ yields /\ current' = None /\ phase' = "sched"
      \/ ~ yields /\ UNCHANGED <<current, phase>>
  OBVIOUS
<1> HIDE DEF yields
<1>7. /\ Blocked' = Blocked \ {t}
      /\ Ready' = IF yields THEN Ready \union {t} \union {current} ELSE Ready \union {t}
  BY <1>1, <1>3, <1>4 DEF Ready, Blocked
<1> QED
  BY <1>1, <1>2, <1>3, <1>5, <1>6, <1>7 DEF Abstract!MakeReady, Ready, Blocked

LEMMA MapComplete ==
    ASSUME IInv, NEW l, NEW other \in WaitList, Complete(l, other)
    PROVE  [Abstract!Next]_(Abstract!vars)
<1> DEFINE h == Head(q[other])
<1>1. phase = "game" /\ slot' = slot /\ active' = active /\ resume' = [resume EXCEPT ![current] = None]
  BY DEF Complete, AtMessageCall
<1>2. CASE q[other] # <<>> /\ StartHead(other)
  <2>1. h \in Thread /\ state[h] = "WAITING"
    <3>1. q \in ListsOver(List) /\ Good(List, q) /\ Matches(q, state, queueOf, resume, active) /\ other \in List
      BY ListPart, Constants DEF IInv, TypeOK, ListsOver
    <3>2. h \in Thread /\ In(q, h, other)
      BY <1>2, <3>1, PopInLists
    <3> HIDE DEF h
    <3> QED
      BY <3>1, <3>2 DEF Matches, MatchesOne
  <2>2. \/ /\ Pri[current] < Pri[Head(EnqueueByPriority(q[RunQ], h))]
           /\ state' = [state EXCEPT ![h] = "RUNNABLE", ![current] = "RUNNABLE"]
           /\ current' = None /\ phase' = "sched"
        \/ /\ ~ Pri[current] < Pri[Head(EnqueueByPriority(q[RunQ], h))]
           /\ state' = [state EXCEPT ![h] = "RUNNABLE"]
           /\ UNCHANGED <<current, phase>>
    BY <1>2 DEF StartHead, WakeHead, WakeHeadAndYield, YieldCurrent, hostVars
  <2> HIDE DEF h
  <2>3. Abstract!MakeReady
    BY <1>1, <2>1, <2>2, MapMakeReady
  <2> QED
    BY <2>3 DEF Abstract!Next
<1>3. CASE UNCHANGED <<listVars, hostVars>>
  <2>1. UsedSlots' = UsedSlots
    BY <1>1, SlotsKept
  <2> QED
    BY <1>3, <2>1, MapQuiet DEF listVars, hostVars
<1> QED
  BY <1>2, <1>3 DEF Complete

LEMMA MapStart == ASSUME IInv, NEW u \in Thread, Start(u) PROVE Abstract!MakeReady
<1>1. phase = "game" /\ slot' = slot /\ state[u] = "STOPPED"
  BY DEF Start, InGame
<1>2. \/ /\ Pri[current] < Pri[Head(EnqueueByPriority(q[RunQ], u))]
         /\ state' = [state EXCEPT ![u] = "RUNNABLE", ![current] = "RUNNABLE"]
         /\ current' = None /\ phase' = "sched"
      \/ /\ ~ Pri[current] < Pri[Head(EnqueueByPriority(q[RunQ], u))]
         /\ state' = [state EXCEPT ![u] = "RUNNABLE"]
         /\ UNCHANGED <<current, phase>>
  BY DEF Start, YieldCurrent, hostVars
<1> QED
  BY <1>1, <1>2, MapMakeReady

(* The running thread leaves the CPU in state s.                           *)
LEMMA MapLeave ==
    ASSUME IInv, phase \in {"game", "poll"}, NEW s \in {"RUNNABLE", "WAITING", "STOPPED", "RUNNING"},
           state' = [state EXCEPT ![current] = s],
           slot' = slot \/ slot' = [slot EXCEPT ![current] = "finished"],
           current' = None, phase' = "sched"
    PROVE  /\ current # None /\ UsedSlots' = UsedSlots
           /\ Ready' = IF s = "RUNNABLE" THEN Ready \union {current} ELSE Ready
           /\ Blocked' = IF s = "WAITING" THEN Blocked \union {current} ELSE Blocked
<1>1. current \in Thread /\ state[current] = "RUNNING" /\ current # None /\ slot[current] = "live"
  BY RunningThread, Constants
<1>2. UsedSlots' = UsedSlots
  BY <1>1, SlotsKept
<1>3. s \in ThreadState
  BY DEF ThreadState
<1>4. /\ Ready' = IF s = "RUNNABLE" THEN Ready \union {current} ELSE Ready \ {current}
      /\ Blocked' = IF s = "WAITING" THEN Blocked \union {current} ELSE Blocked \ {current}
  BY <1>1, <1>3, OneStateChanges
<1>5. current \notin Ready /\ current \notin Blocked
  BY <1>1 DEF Ready, Blocked
<1> QED
  BY <1>1, <1>2, <1>4, <1>5

LEMMA MapGiveUp ==
    ASSUME IInv, Yield \/ DispatchThread
    PROVE  Abstract!GiveUp
<1>1. /\ phase = "game" /\ state' = [state EXCEPT ![current] = "RUNNABLE"] /\ slot' = slot
      /\ current' = None /\ phase' = "sched"
  BY DEF Yield, DispatchThread, EnqueueAndYield, RequeueCurrent, YieldCurrent, InGame
<1>2. current # None /\ UsedSlots' = UsedSlots /\ Ready' = Ready \union {current} /\ Blocked' = Blocked
  BY <1>1, MapLeave
<1> QED
  BY <1>1, <1>2 DEF Abstract!GiveUp, Ready, Blocked

LEMMA MapBlock ==
    ASSUME IInv, Pause \/ \E l : Wait(l)
    PROVE  Abstract!Block
<1>1. /\ phase = "game" /\ state' = [state EXCEPT ![current] = "WAITING"] /\ slot' = slot
      /\ current' = None /\ phase' = "sched"
  BY DEF Pause, Wait, EnqueueAndYield, AtMessageCall, YieldCurrent, InGame
<1>2. current # None /\ UsedSlots' = UsedSlots /\ Ready' = Ready /\ Blocked' = Blocked \union {current}
  BY <1>1, MapLeave
<1> QED
  BY <1>1, <1>2 DEF Abstract!Block, Ready, Blocked

LEMMA MapLeaveRoot == ASSUME IInv, LeaveRoot PROVE Abstract!Exit
<1>1. /\ phase = "game" /\ state' = state /\ slot' = [slot EXCEPT ![current] = "finished"]
      /\ current' = None /\ phase' = "sched"
  BY DEF LeaveRoot, InGame, listVars
<1>2. current \in Thread /\ slot[current] = "live" /\ current # None
  BY <1>1, RunningThread, Constants
<1>3. UsedSlots' = UsedSlots
  BY <1>1, <1>2, SlotsKept
<1> QED
  BY <1>1, <1>2, <1>3 DEF Abstract!Exit

LEMMA MapPreempt == ASSUME IInv, NEW vi \in BOOLEAN, Preempt(vi) PROVE Abstract!Preempt
<1>1. phase = "poll" /\ current \in Thread /\ state[current] = "RUNNING"
  BY RunningThread DEF Preempt
<1>2. /\ state' = [state EXCEPT ![current] = "RUNNABLE"] /\ slot' = slot
      /\ current' = None /\ phase' = "sched"
  BY <1>1 DEF Preempt, RequeueCurrent, YieldCurrent
<1>3. current # None /\ UsedSlots' = UsedSlots /\ Ready' = Ready \union {current} /\ Blocked' = Blocked
  BY <1>1, <1>2, MapLeave
<1>4. \E t \in Ready : Pri[t] > Pri[current]
  BY RunQueueIsReady DEF Preempt, Preempts, HigherPriorityReady
<1> QED
  BY <1>1, <1>2, <1>3, <1>4 DEF Abstract!Preempt, Ready, Blocked

LEMMA MapDestroy ==
    ASSUME IInv, NEW u \in Thread, Destroy(u)
    PROVE  [Abstract!Next]_(Abstract!vars)
<1>1. phase = "game" /\ state' = [state EXCEPT ![u] = "STOPPED"]
  BY DEF Destroy, InGame
<1>2. current \in Thread /\ state[current] = "RUNNING" /\ current # None
  BY <1>1, RunningThread, Constants
<1>3. UsedSlots' = UsedSlots
  <2>1. slot' = [slot EXCEPT ![u] = IF @ = "none" THEN @ ELSE "finished"]
    BY DEF Destroy
  <2>2. CASE slot[u] = "none"
    <3>1. slot' = slot
      BY <2>1, <2>2 DEF IInv, TypeOK
    <3> QED
      BY <3>1, SlotsKept
  <2>3. CASE slot[u] # "none"
    <3>1. slot' = [slot EXCEPT ![u] = "finished"]
      BY <2>1, <2>3 DEF IInv, TypeOK
    <3> QED
      BY <2>3, <3>1, SlotsKept
  <2> QED
    BY <2>2, <2>3
<1>4. Ready' = Ready \ {u} /\ Blocked' = Blocked \ {u}
  BY <1>1, OneStateChanges DEF ThreadState
<1>5. CASE u = current /\ YieldCurrent
  <2>1. Ready' = Ready /\ Blocked' = Blocked
    BY <1>2, <1>4, <1>5 DEF Ready, Blocked
  <2>2. Abstract!Exit
    BY <1>1, <1>2, <1>3, <1>5, <2>1 DEF Abstract!Exit, YieldCurrent, Ready, Blocked
  <2> QED
    BY <2>2 DEF Abstract!Next
<1>6. CASE u # current /\ UNCHANGED hostVars
  <2>1. UNCHANGED <<current, phase>>
    BY <1>6 DEF hostVars
  <2>2. CASE u \in Ready \union Blocked
    <3>1. Abstract!Kill
      BY <1>1, <1>2, <1>3, <1>4, <2>1, <2>2 DEF Abstract!Kill, Ready, Blocked
    <3> QED
      BY <3>1 DEF Abstract!Next
  <2>3. CASE u \notin Ready \union Blocked
    <3>1. Ready' = Ready /\ Blocked' = Blocked
      BY <1>4, <2>3
    <3> QED
      BY <1>3, <2>1, <3>1 DEF Abstract!vars, Ready, Blocked
  <2> QED
    BY <2>2, <2>3
<1> QED
  BY <1>5, <1>6 DEF Destroy

LEMMA MapCreate == ASSUME IInv, NEW u \in Thread, Create(u) PROVE UNCHANGED Abstract!vars
<1>1. u \notin active /\ state' = [state EXCEPT ![u] = "STOPPED"] /\ UNCHANGED <<slot, hostVars>>
  BY DEF Create
<1>2. state[u] = "STOPPED"
  BY <1>1 DEF IInv, StateMatchesList
<1>3. state' = state
  BY <1>1, <1>2 DEF IInv, TypeOK
<1>4. UsedSlots' = UsedSlots
  BY <1>1, SlotsKept
<1> QED
  BY <1>1, <1>3, <1>4, MapQuiet DEF hostVars

LEMMA MapInit == Init => Abstract!Init
<1> SUFFICES ASSUME Init PROVE Abstract!Init
  OBVIOUS
<1>1. Boot \in Thread
  BY Constants
<1>2. Ready = {Boot} /\ Blocked = {} /\ UsedSlots = {}
  BY <1>1 DEF Init, Ready, Blocked, UsedSlots
<1>3. current = None /\ phase = "sched"
  BY DEF Init
<1> QED
  BY <1>2, <1>3 DEF Abstract!Init, Ready, Blocked

LEMMA MapNext == IInv /\ [Next]_vars => [Abstract!Next]_(Abstract!vars)
<1> SUFFICES ASSUME IInv, [Next]_vars PROVE [Abstract!Next]_(Abstract!vars)
  OBVIOUS
<1>1. CASE Dispatch
  BY <1>1, MapDispatch DEF Abstract!Next
<1>2. CASE ExhaustSlots
  BY <1>2, MapExhaustSlots DEF Abstract!Next
<1>3. CASE BeginIdle \/ EndIdle \/ EnterNative \/ LeaveNative
  <2>1. /\ state' = state /\ slot' = slot /\ current' = current
        /\ (phase' = "game") = (phase = "game") /\ (phase' = "halted") = (phase = "halted")
    BY <1>3 DEF BeginIdle, EndIdle, EnterNative, LeaveNative, InGame, hostVars, listVars
  <2> QED
    BY <2>1, SlotsKept, MapQuiet
<1>4. CASE BeginPoll
  <2>1. /\ phase = "game" /\ phase' = "poll" /\ UNCHANGED <<state, slot, current>>
    BY <1>4 DEF BeginPoll, listVars
  <2>2. current # None /\ UsedSlots' = UsedSlots
    BY <2>1, RunningThread, Constants, SlotsKept
  <2>3. Abstract!Interrupt
    BY <2>1, <2>2 DEF Abstract!Interrupt
  <2> QED
    BY <2>3 DEF Abstract!Next
<1>5. ASSUME NEW vi \in BOOLEAN, EndPoll(vi) PROVE [Abstract!Next]_(Abstract!vars)
  <2>1. /\ phase = "poll" /\ phase' = "game" /\ UNCHANGED <<state, slot, current>>
    BY <1>5 DEF EndPoll, listVars
  <2>2. current # None /\ UsedSlots' = UsedSlots
    BY <2>1, RunningThread, Constants, SlotsKept
  <2>3. Abstract!Return
    BY <2>1, <2>2 DEF Abstract!Return
  <2> QED
    BY <2>3 DEF Abstract!Next
<1>6. ASSUME NEW vi \in BOOLEAN, Preempt(vi) PROVE [Abstract!Next]_(Abstract!vars)
  BY <1>6, MapPreempt DEF Abstract!Next
<1>7. ASSUME NEW m \in EventQueue, IdlePost(m) \/ PollPost(m) PROVE [Abstract!Next]_(Abstract!vars)
  <2>1. PostEvent(m) /\ phase \in {"idle", "poll"} /\ UNCHANGED <<active, slot, current, phase, resume>>
    BY <1>7 DEF IdlePost, PollPost, hostVars
  <2> QED
    BY <2>1, MapPostEvent
<1>8. ASSUME NEW m \in Queue, RecvWait(m) \/ SendWait(m) PROVE [Abstract!Next]_(Abstract!vars)
  BY <1>8, MapBlock DEF RecvWait, SendWait, Abstract!Next
<1>9. ASSUME NEW m \in Queue, Recv(m) \/ Send(m) PROVE [Abstract!Next]_(Abstract!vars)
  BY <1>9, MapComplete, Constants DEF Recv, Send
<1>10. ASSUME NEW u \in Thread, Create(u) PROVE [Abstract!Next]_(Abstract!vars)
  BY <1>10, MapCreate
<1>11. ASSUME NEW u \in Thread, Start(u) PROVE [Abstract!Next]_(Abstract!vars)
  BY <1>11, MapStart DEF Abstract!Next
<1>12. ASSUME NEW u \in Thread, Destroy(u) PROVE [Abstract!Next]_(Abstract!vars)
  BY <1>12, MapDestroy
<1>13. CASE Yield \/ DispatchThread
  BY <1>13, MapGiveUp DEF Abstract!Next
<1>14. CASE Pause
  BY <1>14, MapBlock DEF Abstract!Next
<1>15. CASE LeaveRoot
  BY <1>15, MapLeaveRoot DEF Abstract!Next
<1>16. CASE UNCHANGED vars
  <2>1. state' = state /\ slot' = slot /\ current' = current /\ phase' = phase
    BY <1>16 DEF vars, listVars, hostVars
  <2> QED
    BY <2>1, SlotsKept, MapQuiet
<1> QED
  BY <1>1, <1>2, <1>3, <1>4, <1>5, <1>6, <1>7, <1>8, <1>9, <1>10, <1>11, <1>12, <1>13,
     <1>14, <1>15, <1>16 DEF Next, RunLoop, Poll, Game

(* The run loop, its polls and the message calls implement the priority    *)
(* scheduler the game was written for: every step is one of its steps or   *)
(* changes nothing it shows.                                               *)
THEOREM PrioritySchedulerImplemented == Spec => ImplementsPriorityScheduler
<1>1. Spec => Abstract!Init /\ [][Abstract!Next]_(Abstract!vars)
  BY MapInit, MapNext, IInvHolds, PTL DEF Spec
<1> QED
  BY <1>1 DEF ImplementsPriorityScheduler, Abstract!Spec

-----------------------------------------------------------------------------
(* FifoAmongEquals: no step moves a thread past one of its priority.       *)

Fair == \A l \in List : NoOvertaking(q[l], q'[l])

LEMMA SameListFair == ASSUME NEW s \in Seq(Thread) PROVE NoOvertaking(s, s)
BY RemovalIsFair

LEMMA TailFair == ASSUME NEW s \in Seq(Thread), s # <<>> PROVE NoOvertaking(s, Tail(s))
BY RemovalIsFair, TailOrder, TailKeeps

LEMMA QueueTypes ==
    ASSUME IInv
    PROVE  /\ DOMAIN q = List
           /\ \A l \in List : q[l] \in Seq(Thread) /\ Ordered(q[l]) /\ NoOvertaking(q[l], q[l])
BY SameListFair DEF IInv, TypeOK, PriorityOrder

LEMMA UnchangedFair == ASSUME IInv, q' = q PROVE Fair
BY QueueTypes DEF Fair

LEMMA LinkFair ==
    ASSUME IInv, NEW l \in List, NEW x \in Thread, ~ In(q, x, l),
           q' = [q EXCEPT ![l] = EnqueueByPriority(@, x)]
    PROVE  Fair
<1>1. \A k \in List : q'[k] = IF k = l THEN EnqueueByPriority(q[l], x) ELSE q[k]
  BY QueueTypes
<1>2. NoOvertaking(q[l], EnqueueByPriority(q[l], x))
  BY QueueTypes, EnqueueIsFair DEF In
<1> QED
  BY <1>1, <1>2, QueueTypes DEF Fair

LEMMA PopFair ==
    ASSUME IInv, q[RunQ] # <<>>, q' = [q EXCEPT ![RunQ] = Tail(@)]
    PROVE  Fair
<1>1. \A k \in List : q'[k] = IF k = RunQ THEN Tail(q[RunQ]) ELSE q[k]
  BY QueueTypes
<1>2. NoOvertaking(q[RunQ], Tail(q[RunQ]))
  BY QueueTypes, Constants, TailFair
<1> QED
  BY <1>1, <1>2, QueueTypes DEF Fair

(* The head of a wait list is in no other list.                            *)
LEMMA HeadWaits ==
    ASSUME IInv, NEW l \in WaitList, q[l] # <<>>
    PROVE  /\ Head(q[l]) \in Thread /\ state[Head(q[l])] = "WAITING"
           /\ Head(q[l]) \notin Range(q[RunQ])
           /\ NoOvertaking(q[l], Tail(q[l]))
<1> DEFINE h == Head(q[l])
<1>1. q[l] \in Seq(Thread)
  BY QueueTypes, Constants
<1>2. h \in Thread /\ h \in Range(q[l])
  BY <1>1, TailKeeps
<1> HIDE DEF h
<1>3. state[h] = "WAITING" /\ h \notin Range(q[RunQ])
  BY <1>2 DEF IInv, StateMatchesList, Linked
<1> QED
  BY <1>1, <1>2, <1>3, TailFair DEF h

LEMMA WakeFair ==
    ASSUME IInv, NEW l \in WaitList, q[l] # <<>>, WakeHead(l)
    PROVE  Fair
<1> DEFINE h == Head(q[l])
<1>1. h \in Thread /\ h \notin Range(q[RunQ]) /\ NoOvertaking(q[l], Tail(q[l]))
  BY HeadWaits
<1>2. q' = [q EXCEPT ![l] = Tail(@), ![RunQ] = EnqueueByPriority(@, h)]
  BY DEF WakeHead
<1> HIDE DEF h
<1>3. \A k \in List : q'[k] = IF k = RunQ THEN EnqueueByPriority(q[RunQ], h)
                              ELSE IF k = l THEN Tail(q[l]) ELSE q[k]
  BY <1>2, QueueTypes, Constants
<1>4. NoOvertaking(q[RunQ], EnqueueByPriority(q[RunQ], h))
  BY <1>1, QueueTypes, Constants, EnqueueIsFair
<1> QED
  BY <1>1, <1>3, <1>4, QueueTypes DEF Fair

LEMMA WakeAndYieldFair ==
    ASSUME IInv, phase = "game", NEW l \in WaitList, q[l] # <<>>, WakeHeadAndYield(l)
    PROVE  Fair
<1> DEFINE h == Head(q[l])
<1>1. /\ h \in Thread /\ h \notin Range(q[RunQ]) /\ NoOvertaking(q[l], Tail(q[l]))
      /\ state[h] = "WAITING"
  BY HeadWaits
<1>2. q' = [q EXCEPT ![l] = Tail(@),
                     ![RunQ] = EnqueueByPriority(EnqueueByPriority(@, h), current)]
  BY DEF WakeHeadAndYield
<1>3. current \in Thread /\ current \notin Range(q[RunQ]) /\ current # h
  BY <1>1, RunningThread, Constants DEF In
<1> HIDE DEF h
<1>4. \A k \in List : q'[k] = IF k = RunQ THEN EnqueueByPriority(EnqueueByPriority(q[RunQ], h), current)
                              ELSE IF k = l THEN Tail(q[l]) ELSE q[k]
  BY <1>2, QueueTypes, Constants
<1>5. NoOvertaking(q[RunQ], EnqueueByPriority(EnqueueByPriority(q[RunQ], h), current))
  BY <1>1, <1>3, QueueTypes, Constants, EnqueueTwiceIsFair
<1> QED
  BY <1>1, <1>4, <1>5, QueueTypes DEF Fair

LEMMA StartFair == ASSUME IInv, NEW u \in Thread, Start(u) PROVE Fair
<1>1. phase = "game" /\ state[u] = "STOPPED"
  BY DEF Start, InGame
<1>2. current \in Thread /\ current \notin Range(q[RunQ]) /\ state[current] = "RUNNING"
  BY <1>1, RunningThread, Constants DEF In
<1>3. u \notin Range(q[RunQ]) /\ u # current
  BY <1>1, <1>2 DEF IInv, StateMatchesList, Linked
<1>4. CASE q' = [q EXCEPT ![RunQ] = EnqueueByPriority(EnqueueByPriority(q[RunQ], u), current)]
  <2>1. \A k \in List : q'[k] = IF k = RunQ THEN EnqueueByPriority(EnqueueByPriority(q[RunQ], u), current)
                                ELSE q[k]
    BY <1>4, QueueTypes
  <2>2. NoOvertaking(q[RunQ], EnqueueByPriority(EnqueueByPriority(q[RunQ], u), current))
    BY <1>2, <1>3, QueueTypes, Constants, EnqueueTwiceIsFair
  <2> QED
    BY <2>1, <2>2, QueueTypes DEF Fair
<1>5. CASE q' = [q EXCEPT ![RunQ] = EnqueueByPriority(q[RunQ], u)]
  BY <1>3, <1>5, LinkFair, Constants DEF In
<1> QED
  BY <1>4, <1>5 DEF Start

LEMMA DetachFair == ASSUME IInv, NEW u \in Thread, Detach(u) PROVE Fair
<1>1. CASE state[u] # "RUNNING" /\ queueOf[u] # None
  <2> DEFINE l == queueOf[u]
  <2>1. l \in List /\ q' = [q EXCEPT ![l] = Unlink(@, u)]
    BY <1>1 DEF Detach, IInv, TypeOK
  <2> HIDE DEF l
  <2>2. \A k \in List : q'[k] = IF k = l THEN Unlink(q[l], u) ELSE q[k]
    BY <2>1, QueueTypes
  <2>3. NoOvertaking(q[l], Unlink(q[l], u))
    BY <2>1, QueueTypes, UnlinkKeeps, UnlinkOrder, RemovalIsFair
  <2> QED
    BY <2>2, <2>3, QueueTypes DEF Fair
<1>2. CASE ~ (state[u] # "RUNNING" /\ queueOf[u] # None)
  BY <1>2, UnchangedFair DEF Detach
<1> QED
  BY <1>1, <1>2

LEMMA NextFair == IInv /\ [Next]_vars => Fair
<1> SUFFICES ASSUME IInv, [Next]_vars PROVE Fair
  OBVIOUS
<1>1. CASE Dispatch \/ ExhaustSlots
  BY <1>1, PopFair DEF Dispatch, ExhaustSlots, PopRunQueue
<1>2. CASE \/ BeginIdle \/ EndIdle \/ BeginPoll \/ EnterNative \/ LeaveNative \/ Pause \/ LeaveRoot
           \/ UNCHANGED vars \/ \E u \in Thread : Create(u)
           \/ \E vi \in BOOLEAN : EndPoll(vi)
  BY <1>2, UnchangedFair
     DEF BeginIdle, EndIdle, BeginPoll, EnterNative, LeaveNative, Pause, LeaveRoot, vars, Create,
         EndPoll, listVars
<1>3. ASSUME NEW m \in EventQueue, PostEvent(m) PROVE Fair
  BY <1>3, WakeFair, UnchangedFair, Constants DEF PostEvent, listVars
<1>4. ASSUME NEW l \in List,
             phase \in {"game", "poll"}, q' = [q EXCEPT ![l] = EnqueueByPriority(@, current)]
      PROVE  Fair
  BY <1>4, RunningThread, LinkFair
<1>5. CASE \E vi \in BOOLEAN : Preempt(vi)
  <2>1. phase = "poll" /\ state[current] = "RUNNING"
    BY <1>5, RunningThread DEF Preempt
  <2> QED
    BY <1>4, <1>5, <2>1, Constants DEF Preempt, RequeueCurrent
<1>6. CASE Yield \/ DispatchThread
  BY <1>4, <1>6, Constants DEF Yield, DispatchThread, EnqueueAndYield, RequeueCurrent, InGame
<1>7. ASSUME NEW m \in Queue, RecvWait(m) \/ SendWait(m) PROVE Fair
  BY <1>4, <1>7, Constants DEF RecvWait, SendWait, Wait, AtMessageCall, EnqueueAndYield
<1>8. ASSUME NEW m \in Queue, Recv(m) \/ Send(m) PROVE Fair
  <2>1. PICK l \in WaitList, other \in WaitList : Complete(l, other)
    BY <1>8, Constants DEF Recv, Send
  <2>2. CASE q[other] # <<>> /\ StartHead(other)
    BY <2>1, <2>2, WakeFair, WakeAndYieldFair DEF StartHead, Complete, AtMessageCall
  <2>3. CASE UNCHANGED <<listVars, hostVars>>
    BY <2>3, UnchangedFair DEF listVars
  <2> QED
    BY <2>1, <2>2, <2>3 DEF Complete
<1>9. ASSUME NEW u \in Thread, Start(u) PROVE Fair
  BY <1>9, StartFair
<1>10. ASSUME NEW u \in Thread, Destroy(u) PROVE Fair
  BY <1>10, DetachFair DEF Destroy
<1> QED
  BY <1>1, <1>2, <1>3, <1>5, <1>6, <1>7, <1>8, <1>9, <1>10
     DEF Next, RunLoop, Poll, Game, IdlePost, PollPost

(* Threads of one priority are served in turn, whatever wakes, preempts or *)
(* destroys them: enqueue_by_priority stops behind the equals, and no step *)
(* reorders a list.                                                        *)
THEOREM FifoAmongEqualsCorrect == Spec => FifoAmongEquals
<1> DEFINE F == \A l \in List : \A t, u \in Thread :
                  t # u /\ Pri[t] = Pri[u] /\ Linked(t, l) /\ Linked(t, l)' /\ Linked(u, l)'
                  => (\E i, j \in DOMAIN q'[l] : i < j /\ q'[l][i] = t /\ q'[l][j] = u)
                     \/ (\E i, j \in DOMAIN q[l] : i < j /\ q[l][i] = u /\ q[l][j] = t)
<1>1. Fair => F
  BY DEF Fair, NoOvertaking, Before, Linked
<1>2. IInv /\ [Next]_vars => [F]_vars
  BY <1>1, NextFair
<1> QED
  BY <1>2, IInvHolds, PTL DEF Spec, FifoAmongEquals
=============================================================================
