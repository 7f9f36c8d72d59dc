------------------------------ MODULE Scheduler ------------------------------
(***************************************************************************)
(* The stateful scheduler of runtime/sched_stateful.c: one host thread     *)
(* runs the game's OSThreads one at a time, each until it yields.  The run *)
(* loop (phase "sched") pops the head of the run queue and dispatches it   *)
(* (phase "game"); a running thread that reaches a RECOMP_POLL label       *)
(* enters recomp_poll (phase "poll"), where device events are posted and   *)
(* the thread may be preempted; with no thread ready the run loop waits    *)
(* inside hle_deliver_events (phase "idle").                               *)
(*                                                                         *)
(* libultra's own routines (osCreateThread, osStartThread, osSendMesg,     *)
(* osRecvMesg, osYieldThread) are recompiled from the ROM and are not part *)
(* of the repository; they are modelled from how the runtime's             *)
(* replacements of __osEnqueueThread and __osDispatchThread are called.    *)
(*                                                                         *)
(* A linked list of OSThreads is the sequence of its threads without the   *)
(* fake thread of priority -1 that ends it; module ThreadList shows that   *)
(* the pointer code implements these sequence operations.                  *)
(***************************************************************************)
EXTENDS ThreadQueue, FiniteSets

CONSTANTS
    Queue,      \* its OSMesgQueues
    EventQueue, \* the OSMesgQueues registered for a device event
    Cap,        \* msgCount of each queue
    MaxSlots,   \* MAX_THREADS, the size of the slot table
    Boot,       \* the thread the entry point starts
    RunQ,       \* __osRunQueue
    None        \* the null pointer

WaitList == Queue \X {"recv", "send"}   \* mtqueue and fullqueue of each queue
List == WaitList \union {RunQ}

ASSUME SchedulerAssumption ==
    /\ IsFiniteSet(Thread)
    /\ Cap \in [Queue -> Nat \ {0}]
    /\ MaxSlots \in Nat \ {0}
    /\ Boot \in Thread
    /\ EventQueue \subseteq Queue
    /\ None \notin Thread \union List
    /\ RunQ \notin WaitList

VARIABLES
    state,      \* TH_STATE
    queueOf,    \* TH_QUEUE, the list the thread believes it is linked in
    q,          \* the threads linked in each list, in order
    active,     \* the threads of the global active list
    valid,      \* validCount of each message queue
    slot,       \* slot of each thread: "none", "live" or "finished"
    running,    \* __osRunningThread in RDRAM
    current,    \* g_current, the thread whose slot is dispatched
    phase,      \* where the host thread is
    resume,     \* the wait list whose test a thread repeats when it resumes
    native,     \* threads with a native wrapper among their frames
    inPoll,     \* g_in_poll
    delivered,  \* this poll has posted an event
    orphaned    \* history: wait lists whose woken thread died before its retry

listVars == <<state, queueOf, q>>
hostVars == <<running, current, phase, inPoll, delivered>>
vars == <<listVars, active, valid, slot, hostVars, resume, native, orphaned>>

ThreadState == {"STOPPED", "RUNNABLE", "RUNNING", "WAITING"}
Phase == {"sched", "idle", "game", "poll", "halted"}

TypeOK ==
    /\ state \in [Thread -> ThreadState]
    /\ queueOf \in [Thread -> List \union {None}]
    /\ q \in [List -> Seq(Thread)]
    /\ active \in SUBSET Thread
    /\ valid \in [Queue -> Nat]
    /\ \A m \in Queue : valid[m] <= Cap[m]
    /\ slot \in [Thread -> {"none", "live", "finished"}]
    /\ running \in Thread \union {None}
    /\ current \in Thread \union {None}
    /\ phase \in Phase
    /\ resume \in [Thread -> WaitList \union {None}]
    /\ native \in SUBSET Thread
    /\ inPoll \in BOOLEAN
    /\ delivered \in BOOLEAN
    /\ orphaned \in SUBSET WaitList

-----------------------------------------------------------------------------
(* Leaving the CPU and making threads ready.                               *)

(* The running thread gives the CPU up: hle_prepare_scheduler_yield clears *)
(* the poll guard and the longjmp lands in the run loop.                   *)
YieldCurrent ==
    /\ current' = None
    /\ phase' = "sched"
    /\ inPoll' = FALSE
    /\ delivered' = FALSE
    /\ UNCHANGED running

(* A RUNNING thread goes back to the run queue.  TH_QUEUE is not written:  *)
(* sched_preempt and __osDispatchThread rely on it naming the run queue.   *)
RequeueCurrent ==
    /\ state' = [state EXCEPT ![current] = "RUNNABLE"]
    /\ q' = [q EXCEPT ![RunQ] = EnqueueByPriority(@, current)]
    /\ UNCHANGED queueOf

(* __osEnqueueThread on list l followed by __osDispatchThread, with the    *)
(* new state s already written: what __osEnqueueAndYield does.             *)
EnqueueAndYield(l, s) ==
    /\ state' = [state EXCEPT ![current] = s]
    /\ queueOf' = [queueOf EXCEPT ![current] = l]
    /\ q' = [q EXCEPT ![l] = EnqueueByPriority(@, current)]
    /\ YieldCurrent

(* Variant: the links are written but TH_QUEUE is not.                     *)
WakeHeadStaleQueue(l) ==
    LET h == Head(q[l]) IN
    /\ state' = [state EXCEPT ![h] = "RUNNABLE"]
    /\ q' = [q EXCEPT ![l] = Tail(@), ![RunQ] = EnqueueByPriority(@, h)]
    /\ UNCHANGED queueOf

(* The head of wait list l becomes ready: enqueue_thread, or osStartThread *)
(* through __osEnqueueThread.  Both write TH_QUEUE.                        *)
WakeHead(l) ==
    LET h == Head(q[l]) IN
    /\ state' = [state EXCEPT ![h] = "RUNNABLE"]
    /\ queueOf' = [queueOf EXCEPT ![h] = RunQ]
    /\ q' = [q EXCEPT ![l] = Tail(@), ![RunQ] = EnqueueByPriority(@, h)]

(* osStartThread ends by yielding to a thread of higher priority.          *)
WakeHeadAndYield(l) ==
    LET h == Head(q[l]) IN
    /\ state' = [state EXCEPT ![h] = "RUNNABLE", ![current] = "RUNNABLE"]
    /\ queueOf' = [queueOf EXCEPT ![h] = RunQ, ![current] = RunQ]
    /\ q' = [q EXCEPT ![l] = Tail(@),
                      ![RunQ] = EnqueueByPriority(EnqueueByPriority(@, h), current)]
    /\ YieldCurrent

-----------------------------------------------------------------------------
(* The state sched_run_stateful starts from: the entry point has created   *)
(* and started its first thread, and its __osDispatchThread ended the boot *)
(* phase.                                                                  *)
Init ==
    /\ state = [t \in Thread |-> IF t = Boot THEN "RUNNABLE" ELSE "STOPPED"]
    /\ queueOf = [t \in Thread |-> IF t = Boot THEN RunQ ELSE None]
    /\ q = [l \in List |-> IF l = RunQ THEN <<Boot>> ELSE <<>>]
    /\ active = {Boot}
    /\ valid = [m \in Queue |-> 0]
    /\ slot = [t \in Thread |-> "none"]
    /\ running = None
    /\ current = None
    /\ phase = "sched"
    /\ resume = [t \in Thread |-> None]
    /\ native = {}
    /\ inPoll = FALSE
    /\ delivered = FALSE
    /\ orphaned = {}

-----------------------------------------------------------------------------
(* The run loop.                                                           *)

UsedSlots == {t \in Thread : slot[t] # "none"}

PopRunQueue ==
    LET h == Head(q[RunQ]) IN
    /\ phase = "sched"
    /\ q[RunQ] # <<>>
    /\ q' = [q EXCEPT ![RunQ] = Tail(@)]
    /\ state' = [state EXCEPT ![h] = "RUNNING"]
    /\ running' = h
    /\ UNCHANGED queueOf

SlotFree == Cardinality(UsedSlots) < MaxSlots

(* The head gets its slot, a fresh one if it has none or a finished one,   *)
(* and is dispatched.  The loop also wants TH_CTX_PC or a live slot: every *)
(* thread in a list has the entry that osCreateThread wrote there, which   *)
(* nothing clears, so the test never fails for one.                        *)
Dispatch ==
    LET h == Head(q[RunQ]) IN
    /\ PopRunQueue
    /\ slot[h] # "none" \/ SlotFree
    /\ slot' = [slot EXCEPT ![h] = "live"]
    /\ IF slot[h] = "live"
       THEN UNCHANGED <<resume, native>>
       ELSE /\ resume' = [resume EXCEPT ![h] = None]
            /\ native' = native \ {h}
    /\ current' = h
    /\ phase' = "game"
    /\ UNCHANGED <<active, valid, inPoll, delivered, orphaned>>

(* No slot is left: the run loop prints a message and returns.             *)
ExhaustSlots ==
    LET h == Head(q[RunQ]) IN
    /\ PopRunQueue
    /\ slot[h] = "none" /\ ~SlotFree
    /\ phase' = "halted"
    /\ UNCHANGED <<active, valid, slot, current, resume, native, inPoll, delivered,
                   orphaned>>

(* Only the fake thread is left: the loop calls hle_deliver_events ...     *)
BeginIdle ==
    /\ phase = "sched"
    /\ q[RunQ] = <<>>
    /\ phase' = "idle"
    /\ UNCHANGED <<listVars, active, valid, slot, running, current, resume, native,
                   inPoll, delivered, orphaned>>

(* ... and looks at the run queue again when it returns.                   *)
EndIdle ==
    /\ phase = "idle"
    /\ phase' = "sched"
    /\ UNCHANGED <<listVars, active, valid, slot, running, current, resume, native,
                   inPoll, delivered, orphaned>>

-----------------------------------------------------------------------------
(* Device events.                                                          *)

(* Variant: only the message that ends an empty queue wakes a receiver.    *)
PostEventWakesOnce(m) ==
    /\ valid[m] < Cap[m]
    /\ valid' = [valid EXCEPT ![m] = @ + 1]
    /\ IF valid[m] = 0 /\ q[<<m, "recv">>] # <<>>
       THEN WakeHead(<<m, "recv">>)
       ELSE UNCHANGED listVars

(* post_event: a full queue drops the message; otherwise it is stored and  *)
(* the first receiver is made ready.                                       *)
PostEvent(m) ==
    /\ valid[m] < Cap[m]
    /\ valid' = [valid EXCEPT ![m] = @ + 1]
    /\ IF q[<<m, "recv">>] # <<>> THEN WakeHead(<<m, "recv">>)
                                  ELSE UNCHANGED listVars

IdlePost(m) ==
    /\ phase = "idle"
    /\ PostEvent(m)
    /\ UNCHANGED <<active, slot, hostVars, resume, native, orphaned>>

(* recomp_poll: the guard is raised while events are delivered.            *)
BeginPoll ==
    /\ phase = "game"
    /\ ~inPoll
    /\ running # None
    /\ phase' = "poll"
    /\ inPoll' = TRUE
    /\ delivered' = FALSE
    /\ UNCHANGED <<listVars, active, valid, slot, running, current, resume, native,
                   orphaned>>

PollPost(m) ==
    /\ phase = "poll"
    /\ PostEvent(m)
    /\ delivered' = TRUE
    /\ UNCHANGED <<active, slot, running, current, phase, inPoll, resume, native,
                   orphaned>>

(* Variant: a thread of the same priority preempts too.                    *)
EqualPriorityReady ==
    /\ q[RunQ] # <<>>
    /\ Pri[Head(q[RunQ])] >= Pri[current]

(* stateful_higher_priority_ready                                          *)
HigherPriorityReady ==
    /\ q[RunQ] # <<>>
    /\ Pri[Head(q[RunQ])] > Pri[current]

(* Variant: a poll inside a native wrapper preempts like any other.        *)
PreemptsInWrapper(vi) == (delivered \/ vi) /\ HigherPriorityReady

(* Variant: a retrace counts only when one of its messages was stored.     *)
PreemptsOnMessage(vi) == delivered /\ current \notin native /\ HigherPriorityReady

(* vi: the retrace deadline has passed, which counts as a delivery even    *)
(* when no queue had room for it.                                          *)
Preempts(vi) ==
    /\ delivered \/ vi
    /\ current \notin native
    /\ HigherPriorityReady

(* sched_preempt at the end of a poll: it yields whatever the state of the *)
(* thread, but only a RUNNING thread goes back to the run queue.           *)
Preempt(vi) ==
    /\ phase = "poll"
    /\ Preempts(vi)
    /\ IF state[current] = "RUNNING" THEN RequeueCurrent ELSE UNCHANGED listVars
    /\ YieldCurrent
    /\ UNCHANGED <<active, valid, slot, resume, native, orphaned>>

EndPoll(vi) ==
    /\ phase = "poll"
    /\ ~Preempts(vi)
    /\ phase' = "game"
    /\ inPoll' = FALSE
    /\ delivered' = FALSE
    /\ UNCHANGED <<listVars, active, valid, slot, running, current, resume, native,
                   orphaned>>

-----------------------------------------------------------------------------
(* What the running thread calls.                                          *)

InGame == phase = "game" /\ resume[current] = None

(* osRecvMesg and osSendMesg on side l[2] of queue l[1], entered from game *)
(* code or repeated when the thread resumes.                               *)
AtMessageCall(l) == phase = "game" /\ resume[current] \in {None, l}

(* The head of list l is made ready.  osStartThread keeps the CPU unless   *)
(* the run queue then starts with a thread of higher priority.             *)
StartHead(l) ==
    IF Pri[current] < Pri[Head(EnqueueByPriority(q[RunQ], Head(q[l])))]
    THEN WakeHeadAndYield(l)
    ELSE WakeHead(l) /\ UNCHANGED hostVars

Wait(l) ==
    /\ AtMessageCall(l)
    /\ EnqueueAndYield(l, "WAITING")
    /\ resume' = [resume EXCEPT ![current] = l]
    /\ UNCHANGED <<active, valid, slot, native, orphaned>>

RecvWait(m) == valid[m] = 0 /\ Wait(<<m, "recv">>)

SendWait(m) == valid[m] >= Cap[m] /\ Wait(<<m, "send">>)

(* A message is taken, or stored, and the first thread waiting on the      *)
(* other side of the queue is started.                                     *)
Complete(l, other) ==
    /\ AtMessageCall(l)
    /\ resume' = [resume EXCEPT ![current] = None]
    /\ IF q[other] # <<>> THEN StartHead(other) ELSE UNCHANGED <<listVars, hostVars>>
    /\ UNCHANGED <<active, slot, native, orphaned>>

Recv(m) ==
    /\ valid[m] > 0
    /\ valid' = [valid EXCEPT ![m] = @ - 1]
    /\ Complete(<<m, "recv">>, <<m, "send">>)

Send(m) ==
    /\ valid[m] < Cap[m]
    /\ valid' = [valid EXCEPT ![m] = @ + 1]
    /\ Complete(<<m, "send">>, <<m, "recv">>)

(* osCreateThread: TH_QUEUE is cleared, the thread joins the active list.  *)
Create(u) ==
    /\ InGame
    /\ u \notin active
    /\ state' = [state EXCEPT ![u] = "STOPPED"]
    /\ queueOf' = [queueOf EXCEPT ![u] = None]
    /\ active' = active \union {u}
    /\ UNCHANGED <<q, valid, slot, hostVars, resume, native, orphaned>>

(* osStartThread on a created thread.                                      *)
Start(u) ==
    LET ready == EnqueueByPriority(q[RunQ], u) IN
    /\ InGame
    /\ u \in active /\ state[u] = "STOPPED"
    /\ IF Pri[current] < Pri[Head(ready)]
       THEN /\ state' = [state EXCEPT ![u] = "RUNNABLE", ![current] = "RUNNABLE"]
            /\ queueOf' = [queueOf EXCEPT ![u] = RunQ, ![current] = RunQ]
            /\ q' = [q EXCEPT ![RunQ] = EnqueueByPriority(ready, current)]
            /\ YieldCurrent
       ELSE /\ state' = [state EXCEPT ![u] = "RUNNABLE"]
            /\ queueOf' = [queueOf EXCEPT ![u] = RunQ]
            /\ q' = [q EXCEPT ![RunQ] = ready]
            /\ UNCHANGED hostVars
    /\ UNCHANGED <<active, valid, slot, resume, native, orphaned>>

(* A thread that is not RUNNING is unlinked from the list TH_QUEUE names.  *)
Detach(u) ==
    IF state[u] # "RUNNING" /\ queueOf[u] # None
    THEN q' = [q EXCEPT ![queueOf[u]] = Unlink(@, u)]
    ELSE UNCHANGED q

(* sched_destroy_thread: the running thread does not come back.            *)
Destroy(u) ==
    /\ InGame
    /\ u \in active
    /\ Detach(u)
    /\ active' = active \ {u}
    /\ state' = [state EXCEPT ![u] = "STOPPED"]
    /\ slot' = [slot EXCEPT ![u] = IF @ = "none" THEN @ ELSE "finished"]
    /\ IF u = current THEN YieldCurrent ELSE UNCHANGED hostVars
    /\ orphaned' = IF state[u] = "RUNNABLE" /\ slot[u] = "live" /\ resume[u] # None
                   THEN orphaned \union {resume[u]}
                   ELSE orphaned
    /\ UNCHANGED <<queueOf, valid, resume, native>>

(* osYieldThread                                                           *)
Yield ==
    /\ InGame
    /\ EnqueueAndYield(RunQ, "RUNNABLE")
    /\ UNCHANGED <<active, valid, slot, resume, native, orphaned>>

(* __osDispatchThread reached with the thread still RUNNING.               *)
DispatchThread ==
    /\ InGame
    /\ state[current] = "RUNNING"
    /\ RequeueCurrent
    /\ YieldCurrent
    /\ UNCHANGED <<active, valid, slot, resume, native, orphaned>>

(* pause_self: an empty endless loop of the game parks its thread outside  *)
(* every list.                                                             *)
Pause ==
    /\ InGame
    /\ state' = [state EXCEPT ![current] = "WAITING"]
    /\ YieldCurrent
    /\ UNCHANGED <<queueOf, q, active, valid, slot, resume, native, orphaned>>

(* The root function returns, or faults: dispatch_slot marks the slot      *)
(* finished and leaves the OSThread as it was.                             *)
LeaveRoot ==
    /\ InGame
    /\ slot' = [slot EXCEPT ![current] = "finished"]
    /\ current' = None
    /\ phase' = "sched"
    /\ UNCHANGED <<listVars, active, valid, running, resume, native, inPoll,
                   delivered, orphaned>>

EnterNative ==
    /\ InGame
    /\ native' = native \union {current}
    /\ UNCHANGED <<listVars, active, valid, slot, hostVars, resume, orphaned>>

LeaveNative ==
    /\ InGame
    /\ native' = native \ {current}
    /\ UNCHANGED <<listVars, active, valid, slot, hostVars, resume, orphaned>>

-----------------------------------------------------------------------------
RunLoop == Dispatch \/ ExhaustSlots \/ BeginIdle \/ EndIdle

Poll ==
    \/ BeginPoll
    \/ \E m \in EventQueue : PollPost(m)
    \/ \E vi \in BOOLEAN : Preempt(vi) \/ EndPoll(vi)

Game ==
    \/ \E m \in Queue : RecvWait(m) \/ SendWait(m) \/ Recv(m) \/ Send(m)
    \/ \E u \in Thread : Create(u) \/ Start(u) \/ Destroy(u)
    \/ Yield \/ DispatchThread \/ Pause \/ LeaveRoot
    \/ EnterNative \/ LeaveNative

Next == RunLoop \/ Poll \/ Game \/ \E m \in EventQueue : IdlePost(m)

Spec == Init /\ [][Next]_vars

-----------------------------------------------------------------------------
(* Safety.                                                                 *)

Linked(t, l) == t \in Range(q[l])

(* TH_QUEUE names the list a thread is linked in, and names the run queue  *)
(* while the thread runs: sched_preempt and __osDispatchThread requeue it  *)
(* without writing the field, and sched_destroy_thread unlinks a thread    *)
(* only from the list the field names.                                     *)
QueueMirror ==
    /\ \A l \in List, t \in Thread : Linked(t, l) => queueOf[t] = l
    /\ \A t \in Thread : state[t] = "RUNNING" => queueOf[t] = RunQ

(* No thread is linked twice in a list.                                    *)
NoDuplicate ==
    \A l \in List : IsInjective(q[l])

(* A thread is in the list its state says, and in no other, and in the     *)
(* active list unless it is stopped: no thread is lost by a yield, a       *)
(* wakeup, a preemption or a destruction.                                  *)
StateMatchesList ==
    \A t \in Thread :
        /\ Linked(t, RunQ) <=> state[t] = "RUNNABLE"
        /\ \A l \in WaitList :
              Linked(t, l) <=> state[t] = "WAITING" /\ resume[t] = l
        /\ state[t] # "STOPPED" => t \in active

(* While a thread executes it is the one RDRAM says is running, its slot   *)
(* is live and it is RUNNING; the poll guard is up during a poll and at no *)
(* other time, or events would never be delivered again.                   *)
HostMatchesGuest ==
    /\ phase \in {"game", "poll"} =>
          current # None /\ running = current /\ state[current] = "RUNNING"
                         /\ slot[current] = "live"
    /\ phase \notin {"game", "poll"} => current = None
    /\ inPoll <=> phase = "poll"
    /\ \A t \in Thread : state[t] = "RUNNING" /\ slot[t] = "live" /\ phase # "halted"
                            => t = current
    /\ \A t \in Thread : state[t] = "WAITING" => slot[t] = "live"

(* Every list is ordered by priority, which is what lets the dispatcher    *)
(* take the head and the poll compare with the head only.                  *)
PriorityOrder ==
    \A l \in List : Ordered(q[l])

(* The lists of RDRAM, the states of the threads and what the host believes *)
(* agree after every interleaving of yields, wakeups, preemptions and      *)
(* destructions (yield_current, enqueue_by_priority, sched_destroy_thread).*)
ListsSound ==
    /\ TypeOK
    /\ QueueMirror
    /\ NoDuplicate
    /\ StateMatchesList
    /\ HostMatchesGuest
    /\ PriorityOrder

Woken(l) ==
    {t \in Thread : resume[t] = l /\ slot[t] = "live" /\ state[t] \in {"RUNNABLE", "RUNNING"}}

(* A thread sleeps on a queue that could serve it only while enough woken  *)
(* threads have yet to repeat their test, unless one of those was          *)
(* destroyed before it ran.                                                *)
NoLostWakeup ==
    \A m \in Queue :
        /\ q[<<m, "recv">>] # <<>> /\ <<m, "recv">> \notin orphaned
              => valid[m] <= Cardinality(Woken(<<m, "recv">>))
        /\ q[<<m, "send">>] # <<>> /\ <<m, "send">> \notin orphaned
              => Cap[m] - valid[m] <= Cardinality(Woken(<<m, "send">>))

(* The dispatched thread has the highest priority of all threads that are  *)
(* ready, wherever they are linked.                                        *)
DispatchHighest ==
    [][phase = "sched" /\ phase' = "game"
          => \A t \in Thread : state[t] = "RUNNABLE" => Pri[t] <= Pri[current']]_vars

(* Threads of one priority keep their order in a list, and a thread joins  *)
(* behind its equals: round-robin, never overtaking.                       *)
FifoAmongEquals ==
    [][\A l \in List : \A t, u \in Thread :
          t # u /\ Pri[t] = Pri[u] /\ Linked(t, l) /\ Linked(t, l)' /\ Linked(u, l)'
          => (\E i, j \in DOMAIN q'[l] : i < j /\ q'[l][i] = t /\ q'[l][j] = u)
             \/ (\E i, j \in DOMAIN q[l] : i < j /\ q[l][i] = u /\ q[l][j] = t)]_vars

(* A poll takes the CPU from a thread only outside native wrappers, whose  *)
(* C frames the longjmp would unwind (hle.c:1303), and only for a ready    *)
(* thread of strictly higher priority, wherever that one is linked; the    *)
(* preempted thread is left ready, whatever its poll has made of it.       *)
PreemptOnlyForHigher ==
    [][phase = "poll" /\ phase' = "sched"
          => /\ current \notin native
             /\ \E t \in Thread : state[t] = "RUNNABLE" /\ Pri[t] > Pri[current]
             /\ state'[current] = "RUNNABLE"]_vars

-----------------------------------------------------------------------------
(* Liveness.  The host keeps executing: the run loop, the delivery of      *)
(* events and a repeated message call terminate; polls may come before the *)
(* repetition, but not for ever.  Game code passes a RECOMP_POLL label in  *)
(* every loop, native wrappers return, and the retrace deadline passes 60  *)
(* times a second, so that polls outside a wrapper and polls with a        *)
(* retrace both keep happening.                                            *)

RepeatMessageCall ==
    /\ resume[current] # None
    /\ \E m \in Queue : RecvWait(m) \/ SendWait(m) \/ Recv(m) \/ Send(m)

Fairness ==
    /\ WF_vars(RunLoop)
    /\ WF_vars(\E vi \in BOOLEAN : Preempt(vi) \/ EndPoll(vi))
    /\ SF_vars(phase = "game" /\ RepeatMessageCall)
    /\ SF_vars(phase = "game" /\ current \in native /\ LeaveNative)
    /\ SF_vars(BeginPoll /\ current \notin native)
    /\ SF_vars(Preempt(TRUE))

LiveSpec == Spec /\ Fairness

(* A thread that became ready and outranks every other thread gets the CPU *)
(* (or is destroyed), whatever the running thread does: it polls, and the  *)
(* poll hands the CPU over at the latest with the next retrace.            *)
TopThreadRuns ==
    \A t \in Thread :
        (\A u \in Thread \ {t} : Pri[u] < Pri[t])
        => (state[t] = "RUNNABLE" ~> state[t] # "RUNNABLE")

-----------------------------------------------------------------------------
(* The run loop implements PriorityScheduler.                              *)
Abstract == INSTANCE PriorityScheduler WITH
    ready <- {t \in Thread : state[t] = "RUNNABLE"},
    blocked <- {t \in Thread : state[t] = "WAITING"},
    cpu <- current,
    asked <- phase = "game",
    known <- UsedSlots,
    halted <- phase = "halted"

(* Every step of the run loop, of a poll and of the running thread is a    *)
(* step of the abstract scheduler or leaves it as it is.                   *)
ImplementsPriorityScheduler == Abstract!Spec
=============================================================================
