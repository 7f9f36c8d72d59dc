--------------------------- MODULE FiberScheduler ---------------------------
(***************************************************************************)
(* The scheduler of runtime/sched.c, used by the builds without            *)
(* savestates: every OSThread runs on a host fiber of its own, made at its *)
(* first dispatch, and one more fiber picks the next thread.  A fiber      *)
(* keeps its stack while another one runs, so a preempted thread is        *)
(* suspended inside recomp_poll and leaves it only when it runs again.     *)
(*                                                                         *)
(* libultra's calls are modelled from how they use the replaced            *)
(* __osEnqueueThread and __osDispatchThread; one message queue (WaitQ).    *)
(***************************************************************************)
EXTENDS ThreadQueue, FiniteSets

CONSTANTS MaxSlots, Boot, RunQ, WaitQ, Main, Sched, None

ASSUME FiberAssumption ==
    /\ MaxSlots \in Nat \ {0}
    /\ Boot \in Thread
    /\ {Main, Sched} \cap Nat = {} /\ Main # Sched
    /\ RunQ # WaitQ /\ None \notin Thread \cup {RunQ, WaitQ}

VARIABLES
    state,      \* TH_STATE
    queueOf,    \* TH_QUEUE
    q,          \* the threads in the run queue and in the wait list
    active,     \* the threads of the global active list
    mirror,     \* __osRunningThread in RDRAM
    slot,       \* g_slots, the started ones: thread, finished, and where its
                \* fiber is (at) and whether it is suspended in sched_preempt
    current,    \* g_current
    fiber,      \* the fiber that executes: Main, Sched or the index of a slot
    inPoll,     \* g_in_poll
    remade      \* history: threads created again since their fiber was made

guestVars == <<state, queueOf, q, active>>
hostVars == <<mirror, slot, current, fiber, inPoll>>
vars == <<guestVars, hostVars, remade>>

States == {"STOPPED", "RUNNABLE", "RUNNING", "WAITING"}

TypeOK ==
    /\ state \in [Thread -> States]
    /\ queueOf \in [Thread -> {RunQ, WaitQ, None}]
    /\ DOMAIN q = {RunQ, WaitQ}
    /\ active \subseteq Thread
    /\ mirror \in Thread \cup {None} /\ current \in Thread \cup {None}
    /\ Len(slot) <= MaxSlots
    /\ \A i \in DOMAIN slot :
          slot[i] \in [thread : Thread, finished : BOOLEAN, polling : BOOLEAN,
                       at : {"game", "parking", "gone"}]
    /\ fiber \in {Main, Sched} \cup DOMAIN slot
    /\ inPoll \in BOOLEAN
    /\ remade \subseteq Thread

\* The entry point of the game has started its first thread and dispatches.
Init ==
    /\ state = [t \in Thread |-> IF t = Boot THEN "RUNNABLE" ELSE "STOPPED"]
    /\ queueOf = [t \in Thread |-> IF t = Boot THEN RunQ ELSE None]
    /\ q = [l \in {RunQ, WaitQ} |-> IF l = RunQ THEN <<Boot>> ELSE <<>>]
    /\ active = {Boot}
    /\ mirror = None /\ slot = <<>> /\ current = None
    /\ fiber = Sched /\ inPoll = FALSE /\ remade = {}

SlotsOf(t) == {i \in DOMAIN slot : slot[i].thread = t}
\* The slot loop that ends at the first match: a thread has one slot at most.
WithSlot(t, field, value) ==
    [i \in DOMAIN slot |-> IF slot[i].thread = t THEN [slot[i] EXCEPT ![field] = value] ELSE slot[i]]

-----------------------------------------------------------------------------
(* scheduler_loop, the fiber that chooses.                                 *)

NewSlot(t) == [thread |-> t, finished |-> FALSE, polling |-> FALSE, at |-> "game"]
Live(i) == ~ slot[i].finished

\* A thread has a slot to run on: its own, or a free one.
SlotFor(t) == SlotsOf(t) # {} \/ Len(slot) < MaxSlots

\* What SwitchToFiber finds: the fiber goes on where it left, unless its slot
\* is finished (the structure was created again: a new fiber) or new.
SlotAfterSwitch(t) ==
    IF SlotsOf(t) = {} THEN Append(slot, NewSlot(t))
    ELSE LET i == CHOOSE j \in SlotsOf(t) : TRUE
         IN  [slot EXCEPT ![i] = IF Live(i) THEN [@ EXCEPT !.polling = FALSE] ELSE NewSlot(t)]

Dispatch ==
    /\ fiber = Sched /\ q[RunQ] # <<>>
    /\ LET t == Head(q[RunQ]) IN
          /\ q' = [q EXCEPT ![RunQ] = Tail(@)]
          /\ mirror' = t
          /\ state' = [state EXCEPT ![t] = "RUNNING"]
          /\ SlotFor(t)
          /\ slot' = SlotAfterSwitch(t)
          /\ LET i == CHOOSE j \in DOMAIN slot' : slot'[j].thread = t IN
                IF slot'[i].at = "gone"
                THEN UNCHANGED <<current, fiber, inPoll, remade>>
                ELSE /\ current' = t
                     /\ fiber' = i
                     /\ inPoll' = IF i \in DOMAIN slot /\ Live(i) /\ slot[i].polling
                                  THEN FALSE ELSE inPoll
                     /\ remade' = IF i \in DOMAIN slot /\ Live(i) THEN remade ELSE remade \ {t}
    /\ UNCHANGED <<queueOf, active>>

\* No slot left: back to the main fiber, which ends the program.
ExhaustSlots ==
    /\ fiber = Sched /\ q[RunQ] # <<>>
    /\ LET t == Head(q[RunQ]) IN
          /\ ~ SlotFor(t)
          /\ q' = [q EXCEPT ![RunQ] = Tail(@)]
          /\ mirror' = t
          /\ state' = [state EXCEPT ![t] = "RUNNING"]
    /\ fiber' = Main
    /\ UNCHANGED <<queueOf, active, slot, current, inPoll, remade>>

\* enqueue_thread, for the first thread of the wait list.
WakeHead ==
    LET t == Head(q[WaitQ]) IN
    /\ state' = [state EXCEPT ![t] = "RUNNABLE"]
    /\ queueOf' = [queueOf EXCEPT ![t] = RunQ]
    /\ q' = [q EXCEPT ![WaitQ] = Tail(@), ![RunQ] = EnqueueByPriority(@, t)]

\* The idle scheduler delivers a device event itself.
IdleDeliver ==
    /\ fiber = Sched /\ q[RunQ] = <<>>
    /\ q[WaitQ] # <<>> /\ WakeHead
    /\ UNCHANGED <<active, hostVars, remade>>

-----------------------------------------------------------------------------
(* A thread of the game on its fiber.                                      *)

OnFiber == fiber \in DOMAIN slot
Me == slot[fiber].thread
InGame == OnFiber /\ slot[fiber].at = "game"

\* SwitchToFiber(g_sched_fiber); the scheduler then clears g_current.
ToSched == fiber' = Sched /\ current' = None

\* recomp_poll delivers an event and preempts: in this build without asking
\* whether a thread of higher priority is ready.  The thread goes back to the
\* run queue only when it is RUNNING: one that was parking already is not.
\* Variant: whatever its state.
PreemptWaiting ==
    /\ state' = [state EXCEPT ![Me] = "RUNNABLE"]
    /\ queueOf' = [queueOf EXCEPT ![Me] = RunQ]
    /\ q' = [q EXCEPT ![RunQ] = EnqueueByPriority(@, Me)]

PreemptRequeues ==
    IF state[Me] = "RUNNING"
    THEN /\ state' = [state EXCEPT ![Me] = "RUNNABLE"]
         /\ queueOf' = [queueOf EXCEPT ![Me] = RunQ]
         /\ q' = [q EXCEPT ![RunQ] = EnqueueByPriority(@, Me)]
    ELSE UNCHANGED <<state, queueOf, q>>

\* An event for which nobody waits.
Poll ==
    /\ OnFiber /\ ~inPoll
    /\ PreemptRequeues
    /\ mirror' = Me
    /\ slot' = [slot EXCEPT ![fiber].polling = TRUE]
    /\ inPoll' = TRUE
    /\ ToSched
    /\ UNCHANGED <<active, remade>>

\* An event that wakes a thread, perhaps the one that is parking right now.
PollWakes ==
    /\ OnFiber /\ ~inPoll /\ q[WaitQ] # <<>>
    /\ LET t == Head(q[WaitQ])
           woken == [q EXCEPT ![WaitQ] = Tail(@), ![RunQ] = EnqueueByPriority(@, t)]
           requeued == IF state[Me] = "RUNNING" THEN {Me} ELSE {}
       IN  /\ state' = [u \in Thread |-> IF u \in {t} \cup requeued THEN "RUNNABLE" ELSE state[u]]
           /\ queueOf' = [u \in Thread |-> IF u \in {t} \cup requeued THEN RunQ ELSE queueOf[u]]
           /\ q' = IF requeued = {} THEN woken
                   ELSE [woken EXCEPT ![RunQ] = EnqueueByPriority(@, Me)]
    /\ mirror' = Me
    /\ slot' = [slot EXCEPT ![fiber].polling = TRUE]
    /\ inPoll' = TRUE
    /\ ToSched
    /\ UNCHANGED <<active, remade>>

\* osRecvMesg on an empty queue: WAITING, then __osEnqueueThread...
Park ==
    /\ InGame
    /\ state' = [state EXCEPT ![Me] = "WAITING"]
    /\ q' = [q EXCEPT ![WaitQ] = EnqueueByPriority(@, Me)]
    /\ queueOf' = [queueOf EXCEPT ![Me] = WaitQ]
    /\ slot' = [slot EXCEPT ![fiber].at = "parking"]
    /\ UNCHANGED <<active, mirror, current, fiber, inPoll, remade>>

\* __osDispatchThread: a thread still RUNNING is in no queue and is put in
\* the run queue.
DispatchRequeues ==
    IF state[Me] = "RUNNING"
    THEN /\ state' = [state EXCEPT ![Me] = "RUNNABLE"]
         /\ q' = [q EXCEPT ![RunQ] = EnqueueByPriority(@, Me)]
    ELSE UNCHANGED <<state, q>>

\* ... and __osDispatchThread.  osYieldThread is the latter alone.
DispatchThread ==
    /\ OnFiber
    /\ DispatchRequeues
    /\ slot' = [slot EXCEPT ![fiber].at = "game"]
    /\ ToSched
    /\ UNCHANGED <<queueOf, active, mirror, inPoll, remade>>

\* osSendMesg to a queue somebody waits for.
Send ==
    /\ InGame /\ q[WaitQ] # <<>>
    /\ WakeHead
    /\ UNCHANGED <<active, hostVars, remade>>

\* osCreateThread and osStartThread, on a structure no thread uses.
CreateAndStart(t) ==
    /\ InGame /\ t \notin active
    /\ active' = active \cup {t}
    /\ state' = [state EXCEPT ![t] = "RUNNABLE"]
    /\ queueOf' = [queueOf EXCEPT ![t] = RunQ]
    /\ q' = [q EXCEPT ![RunQ] = EnqueueByPriority(@, t)]
    /\ remade' = IF SlotsOf(t) # {} THEN remade \cup {t} ELSE remade
    /\ UNCHANGED hostVars

\* sched_pause_current: the loop around SwitchToFiber has no exit.
Pause ==
    /\ InGame
    /\ state' = [state EXCEPT ![Me] = "WAITING"]
    /\ slot' = [slot EXCEPT ![fiber].at = "gone"]
    /\ ToSched
    /\ UNCHANGED <<queueOf, q, active, mirror, inPoll, remade>>

\* A fault in the game's code: the fiber ends, the OSThread is not touched.
Fault ==
    /\ InGame
    /\ slot' = [slot EXCEPT ![fiber].finished = TRUE, ![fiber].at = "gone"]
    /\ ToSched
    /\ UNCHANGED <<guestVars, mirror, inPoll, remade>>

-----------------------------------------------------------------------------
(* sched_destroy_thread and sched_terminate_current.                       *)

Unlinked(t) ==
    /\ q' = IF state[t] # "RUNNING" /\ queueOf[t] # None
            THEN [q EXCEPT ![queueOf[t]] = Unlink(@, t)] ELSE q
    /\ active' = active \ {t}
    /\ state' = [state EXCEPT ![t] = "STOPPED"]
    /\ UNCHANGED queueOf
\* Variant: only the lists are repaired.
UnfinishedSlot(t) == slot

FinishedSlot(t) == WithSlot(t, "finished", TRUE)

DestroyOther(t) ==
    /\ InGame /\ t \in active \ {Me}
    /\ Unlinked(t)
    /\ slot' = FinishedSlot(t)
    /\ UNCHANGED <<mirror, current, fiber, inPoll, remade>>

\* Of itself (osDestroyThread(NULL)), or when its root function returns into
\* __osCleanupThread, which does the same.
DestroySelf ==
    /\ InGame
    /\ Unlinked(Me)
    /\ slot' = FinishedSlot(Me)
    /\ ToSched
    /\ UNCHANGED <<mirror, inPoll, remade>>

-----------------------------------------------------------------------------
\* The main fiber has shown its report and the process ends; or every thread
\* sleeps and the events that come wake none.
Over ==
    /\ fiber = Main \/ (fiber = Sched /\ q[RunQ] = <<>>)
    /\ UNCHANGED vars

Next ==
    \/ Dispatch \/ ExhaustSlots \/ IdleDeliver
    \/ Poll \/ PollWakes \/ Park \/ DispatchThread \/ Send
    \/ \E t \in Thread : CreateAndStart(t) \/ DestroyOther(t)
    \/ Pause \/ Fault \/ DestroySelf
    \/ Over

Spec == Init /\ [][Next]_vars

-----------------------------------------------------------------------------
InList(t, l) == \E i \in DOMAIN q[l] : q[l][i] = t

\* A RUNNABLE thread is in the run queue, once, and is the only kind there;
\* what waits is WAITING; a thread in neither list is on the CPU, stopped,
\* paused or dead.
ListsSound ==
    /\ TypeOK
    /\ \A l \in {RunQ, WaitQ} : IsInjective(q[l]) /\ Ordered(q[l])
    /\ \A t \in Thread :
          /\ InList(t, RunQ) <=> state[t] = "RUNNABLE"
          /\ InList(t, WaitQ) => state[t] = "WAITING" /\ queueOf[t] = WaitQ
          /\ state[t] \in {"RUNNING", "WAITING"} /\ ~InList(t, WaitQ) =>
                fiber = Main \/ t = current \/ \E i \in SlotsOf(t) : slot[i].at = "gone"

\* A thread is never continued on the stack of the thread that had its
\* structure before.
FreshFiber == OnFiber => Me \notin remade /\ Live(fiber)
=============================================================================
