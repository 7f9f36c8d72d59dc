---------------------------- MODULE DeviceEvents ----------------------------
(***************************************************************************)
(* How hle_deliver_events turns the completions of the devices into        *)
(* messages.  The host thread makes a pass (BeginPass) when no thread is   *)
(* ready, or from a poll of the running thread; a pass delivers at most    *)
(* one interrupt of the RSP, then the completed SI transfers, and, when    *)
(* the retrace deadline has passed, VI, PI, COUNTER and AI.  Each step of  *)
(* a pass is an action; game code runs between passes only.                *)
(*                                                                         *)
(* A message is the name of its event.  The RSP runs a task atomically     *)
(* when it is submitted, RT64 included, so that only its completion is     *)
(* left in the ring; arithmetic on the deadline is not modelled: a pass    *)
(* finds it passed or not.  What a message does to the thread that waits   *)
(* for it is in module Scheduler.                                          *)
(***************************************************************************)
EXTENDS Integers, Sequences, FiniteSets

Event == {"SP", "DP", "SI", "VI", "PI", "COUNTER", "AI"}
Task == {"gfx", "audio"}    \* OSTask.t.type 1 and 2

CONSTANTS
    Queue,      \* message queues of the game
    Cap,        \* msgCount of each
    Route,      \* the queue the game names when it registers for an event
    Early,      \* events registered from the start
    Mask,       \* g_event_mask
    RingCap,    \* TASK_DONE_CAP
    SiBatch,    \* most SI messages in a pass
    CompareMode,\* WPJ2_COUNTER_COMPARE
    IdleOnly,   \* WPJ2_EVENTS_IDLE_ONLY
    MaxTasks,   \* bound: tasks submitted
    MaxSi       \* bound: SI transfers

ASSUME DeviceEventsAssumption ==
    /\ Cap \in [Queue -> Nat]
    /\ Route \in [Event -> Queue]
    /\ Early \subseteq Event
    /\ Mask \subseteq Event
    /\ RingCap \in Nat \ {0}
    /\ SiBatch \in Nat \ {0}
    /\ CompareMode \in BOOLEAN
    /\ IdleOnly \in BOOLEAN
    /\ MaxTasks \in Nat
    /\ MaxSi \in Nat

VARIABLES
    registered, \* events with a queue in __osEventStateTab
    msgs,       \* messages in each queue
    ring,       \* g_task_done: tasks whose SP interrupt is owed
    dpPending,  \* g_rsp_dp_pending
    siDone,     \* g_si_done: SI transfers whose interrupt is owed
    compare,    \* COP0 Compare: "off", "armed" or, past its time, "reached"
    aiDmas,     \* DMAs the AI holds, at most two
    aiOver,     \* the first of them has played to its end
    phase,      \* step of the pass, "run" between passes
    full,       \* the pass goes beyond the RSP
    expired,    \* the retrace deadline had passed when the pass began
    accepted,   \* history: the tasks that entered the ring
    taken,      \* history: how many of them left it
    served,     \* history: the interrupts of the RSP, with their task's number
    transfers   \* history: SI transfers made

rspVars == <<ring, dpPending, accepted, taken, served>>
siVars == <<siDone, transfers>>
aiVars == <<aiDmas, aiOver>>
passVars == <<phase, full, expired>>
vars == <<registered, msgs, rspVars, siVars, compare, aiVars, passVars>>

Interrupt == {"SP", "DP"} \X Nat

TypeOK ==
    /\ registered \in SUBSET Event
    /\ msgs \in [Queue -> Seq(Event)]
    /\ \A m \in Queue : Len(msgs[m]) <= Cap[m]
    /\ ring \in Seq(Task) /\ Len(ring) <= RingCap
    /\ dpPending \in BOOLEAN
    /\ siDone \in Nat
    /\ compare \in {"off", "armed", "reached"}
    /\ aiDmas \in 0 .. 2
    /\ aiOver \in BOOLEAN
    /\ phase \in {"run", "rsp", "si", "vi", "counter", "ai"}
    /\ full \in BOOLEAN
    /\ expired \in BOOLEAN
    /\ accepted \in Seq(Task)
    /\ taken \in Nat
    /\ served \in Seq(Interrupt)
    /\ transfers \in Nat

Init ==
    /\ registered = Early
    /\ msgs = [m \in Queue |-> <<>>]
    /\ ring = <<>>
    /\ dpPending = FALSE
    /\ siDone = 0
    /\ compare = "off"
    /\ aiDmas = 0
    /\ aiOver = FALSE
    /\ phase = "run"
    /\ full = FALSE
    /\ expired = FALSE
    /\ accepted = <<>>
    /\ taken = 0
    /\ served = <<>>
    /\ transfers = 0

-----------------------------------------------------------------------------
(* Posting.                                                                *)

Room(ms, e) == Len(ms[Route[e]]) < Cap[Route[e]]

(* post_event succeeds on a registered queue with room.                    *)
Posts(ms, e) == e \in registered /\ Room(ms, e)

Post(ms, e) ==
    IF Posts(ms, e) THEN [ms EXCEPT ![Route[e]] = Append(@, e)] ELSE ms

(* The caller of post_event looks at the mask first.                       *)
PostIfOn(ms, e) == IF e \in Mask THEN Post(ms, e) ELSE ms

(* Variant: valid + 1 < count instead of valid < count.                    *)
BlockedEarly(e) ==
    /\ e \in Mask
    /\ e \in registered
    /\ Cap[Route[e]] > 0
    /\ Len(msgs[Route[e]]) + 1 >= Cap[Route[e]]

(* event_can_post fails: the completion has to stay with its device.  An   *)
(* event without receiver does not block, nor does a queue never created.  *)
Blocked(e) ==
    /\ e \in Mask
    /\ e \in registered
    /\ Cap[Route[e]] > 0
    /\ ~Room(msgs, e)

-----------------------------------------------------------------------------
(* Game code and devices, between passes.                                  *)

(* osSetEventMesg                                                          *)
Register(e) ==
    /\ phase = "run"
    /\ registered' = registered \union {e}
    /\ UNCHANGED <<msgs, rspVars, siVars, compare, aiVars, passVars>>

(* osRecvMesg on a queue that holds a message                              *)
Receive(m) ==
    /\ phase = "run"
    /\ msgs[m] # <<>>
    /\ msgs' = [msgs EXCEPT ![m] = Tail(@)]
    /\ UNCHANGED <<registered, rspVars, siVars, compare, aiVars, passVars>>

(* The RSP is released from HALT: it runs the task and halts again, and    *)
(* rsp_enqueue_task_done records it, or drops it when the ring is full.    *)
Submit(t) ==
    /\ phase = "run"
    /\ Len(accepted) < MaxTasks
    /\ IF Len(ring) < RingCap
       THEN ring' = Append(ring, t) /\ accepted' = Append(accepted, t)
       ELSE UNCHANGED <<ring, accepted>>
    /\ UNCHANGED <<registered, msgs, dpPending, taken, served, siVars, compare,
                   aiVars, passVars>>

(* __osSiRawStartDma completes at once.                                    *)
StartSi ==
    /\ phase = "run"
    /\ transfers < MaxSi
    /\ transfers' = transfers + 1
    /\ siDone' = siDone + 1
    /\ UNCHANGED <<registered, msgs, rspVars, compare, aiVars, passVars>>

(* __osSetCompare                                                          *)
SetCompare ==
    /\ phase = "run"
    /\ CompareMode
    /\ compare' = "armed"
    /\ UNCHANGED <<registered, msgs, rspVars, siVars, aiVars, passVars>>

CountReaches ==
    /\ compare = "armed"
    /\ compare' = "reached"
    /\ UNCHANGED <<registered, msgs, rspVars, siVars, aiVars, passVars>>

(* osAiSetNextBuffer: a third DMA is dropped.                              *)
QueueAi ==
    /\ phase = "run"
    /\ aiDmas < 2
    /\ aiDmas' = aiDmas + 1
    /\ UNCHANGED <<registered, msgs, rspVars, siVars, compare, aiOver, passVars>>

AiPlayed ==
    /\ aiDmas > 0 /\ ~aiOver
    /\ aiOver' = TRUE
    /\ UNCHANGED <<registered, msgs, rspVars, siVars, compare, aiDmas, passVars>>

-----------------------------------------------------------------------------
(* A pass.                                                                 *)

BeginPass ==
    /\ phase = "run"
    /\ phase' = "rsp"
    /\ full' = TRUE
    /\ expired' \in BOOLEAN
    /\ UNCHANGED <<registered, msgs, rspVars, siVars, compare, aiVars>>

(* With WPJ2_EVENTS_IDLE_ONLY a poll delivers nothing but the RSP's.       *)
BeginRspPass ==
    /\ IdleOnly
    /\ phase = "run"
    /\ phase' = "rsp"
    /\ full' = FALSE
    /\ expired' = FALSE
    /\ UNCHANGED <<registered, msgs, rspVars, siVars, compare, aiVars>>

AfterRsp == IF full THEN "si" ELSE "run"

(* deliver_rsp_task_done, with the DP interrupt of a graphics task owed.   *)
DeliverDp ==
    /\ phase = "rsp"
    /\ dpPending
    /\ ~Blocked("DP")
    /\ dpPending' = FALSE
    /\ msgs' = PostIfOn(msgs, "DP")
    /\ served' = Append(served, <<"DP", taken>>)
    /\ phase' = AfterRsp
    /\ UNCHANGED <<registered, ring, accepted, taken, siVars, compare, aiVars, full,
                   expired>>

(* Variant: the next task's SP overtakes the DP that is owed.              *)
DeliverSpOvertaking ==
    /\ phase = "rsp"
    /\ ring # <<>>
    /\ ~Blocked("SP")
    /\ ring' = Tail(ring)
    /\ taken' = taken + 1
    /\ dpPending' = (Head(ring) = "gfx" /\ "DP" \in Mask)
    /\ msgs' = PostIfOn(msgs, "SP")
    /\ served' = Append(served, <<"SP", taken'>>)
    /\ phase' = AfterRsp
    /\ UNCHANGED <<registered, accepted, siVars, compare, aiVars, full, expired>>

(* The oldest task's SP; the DP of a graphics task is left for later.      *)
DeliverSp ==
    /\ phase = "rsp"
    /\ ~dpPending
    /\ ring # <<>>
    /\ ~Blocked("SP")
    /\ ring' = Tail(ring)
    /\ taken' = taken + 1
    /\ dpPending' = (Head(ring) = "gfx" /\ "DP" \in Mask)
    /\ msgs' = PostIfOn(msgs, "SP")
    /\ served' = Append(served, <<"SP", taken'>>)
    /\ phase' = AfterRsp
    /\ UNCHANGED <<registered, accepted, siVars, compare, aiVars, full, expired>>

(* Nothing is owed, or the queue of what is owed first is full.            *)
RspWaits ==
    /\ phase = "rsp"
    /\ IF dpPending THEN Blocked("DP") ELSE ring = <<>> \/ Blocked("SP")
    /\ phase' = AfterRsp
    /\ UNCHANGED <<registered, msgs, rspVars, siVars, compare, aiVars, full, expired>>

Least(S) == CHOOSE n \in S : \A k \in S : n <= k

(* Variant: the transfers are not taken off the debt.                      *)
DrainSiKeeps ==
    LET room == Cap[Route["SI"]] - Len(msgs[Route["SI"]])
        n == IF "SI" \in Mask \cap registered THEN Least({siDone, SiBatch, room}) ELSE 0
    IN  /\ phase = "si"
        /\ msgs' = [msgs EXCEPT ![Route["SI"]] = @ \o [i \in 1 .. n |-> "SI"]]
        /\ phase' = IF expired THEN "vi" ELSE "run"
        /\ UNCHANGED <<registered, rspVars, siVars, compare, aiVars, full, expired>>

(* The SI drain: one message per owed transfer, until post_event fails.    *)
(* Before the deadline, the pass ends here.                                *)
DrainSi ==
    LET room == Cap[Route["SI"]] - Len(msgs[Route["SI"]])
        n == IF "SI" \in Mask \cap registered THEN Least({siDone, SiBatch, room}) ELSE 0
    IN  /\ phase = "si"
        /\ msgs' = [msgs EXCEPT ![Route["SI"]] = @ \o [i \in 1 .. n |-> "SI"]]
        /\ siDone' = siDone - n
        /\ phase' = IF expired THEN "vi" ELSE "run"
        /\ UNCHANGED <<registered, rspVars, transfers, compare, aiVars, full, expired>>

(* VI and PI keep no debt: a full queue drops the message.                 *)
PostVideo ==
    /\ phase = "vi"
    /\ msgs' = PostIfOn(PostIfOn(msgs, "VI"), "PI")
    /\ phase' = "counter"
    /\ UNCHANGED <<registered, rspVars, siVars, compare, aiVars, full, expired>>

(* Variant: Compare is disarmed whether or not the message was posted.     *)
PostCounterDisarms ==
    LET fires == "COUNTER" \in Mask /\ (CompareMode => compare = "reached")
    IN  /\ phase = "counter"
        /\ msgs' = IF fires THEN Post(msgs, "COUNTER") ELSE msgs
        /\ compare' = IF fires /\ CompareMode THEN "off" ELSE compare
        /\ phase' = "ai"
        /\ UNCHANGED <<registered, rspVars, siVars, aiVars, full, expired>>

(* COUNTER comes once per Compare, or, without that mode, with every VI;   *)
(* Compare is disarmed only by a message that was posted.                  *)
PostCounter ==
    LET fires == "COUNTER" \in Mask /\ (CompareMode => compare = "reached")
    IN  /\ phase = "counter"
        /\ msgs' = IF fires THEN Post(msgs, "COUNTER") ELSE msgs
        /\ compare' = IF fires /\ CompareMode /\ Posts(msgs, "COUNTER") THEN "off"
                                                                      ELSE compare
        /\ phase' = "ai"
        /\ UNCHANGED <<registered, rspVars, siVars, aiVars, full, expired>>

(* The AI retires its DMA before the interrupt, and whether or not a       *)
(* message can be posted.                                                  *)
PostAi ==
    /\ phase = "ai"
    /\ IF aiOver
       THEN /\ aiDmas' = aiDmas - 1
            /\ aiOver' = FALSE
            /\ msgs' = PostIfOn(msgs, "AI")
       ELSE UNCHANGED <<aiVars, msgs>>
    /\ phase' = "run"
    /\ UNCHANGED <<registered, rspVars, siVars, compare, full, expired>>

-----------------------------------------------------------------------------
PassStep ==
    \/ DeliverDp \/ DeliverSp \/ RspWaits
    \/ DrainSi \/ PostVideo \/ PostCounter \/ PostAi

Game ==
    \/ \E e \in Event : Register(e)
    \/ \E m \in Queue : Receive(m)
    \/ \E t \in Task : Submit(t)
    \/ StartSi \/ SetCompare \/ QueueAi

Device == CountReaches \/ AiPlayed

Next == BeginPass \/ BeginRspPass \/ PassStep \/ Game \/ Device

Spec == Init /\ [][Next]_vars

-----------------------------------------------------------------------------
(* Safety.                                                                 *)

(* The interrupt that comes after i when the tasks of sequence tasks each  *)
(* raise SP and a graphics task then raises DP.                            *)
Following(tasks, i) ==
    IF i[1] = "SP" /\ tasks[i[2]] = "gfx" /\ "DP" \in Mask
    THEN <<"DP", i[2]>>
    ELSE <<"SP", i[2] + 1>>

(* What deliver_rsp_task_done owes next, with n tasks taken off the ring.  *)
Owed(dp, n) == IF dp THEN <<"DP", n>> ELSE <<"SP", n + 1>>

(* The RSP's interrupts come once each, in the order the tasks ended, the  *)
(* DP of a graphics task right after its SP, and every accepted task       *)
(* whose SP was not served is still in the ring: nothing is lost,          *)
(* repeated or reordered while queues fill up.                             *)
InOrderOnce ==
    /\ served = <<>> => Owed(dpPending, taken) = <<"SP", 1>>
    /\ served # <<>> =>
          /\ served[1] = <<"SP", 1>>
          /\ Following(accepted, served[Len(served)]) = Owed(dpPending, taken)
    /\ \A k \in 1 .. Len(served) - 1 :
          served[k + 1] = Following(accepted, served[k])
    /\ Len(ring) = Len(accepted) - taken
    /\ \A k \in 1 .. Len(ring) : ring[k] = accepted[taken + k]

Waiting(e) == {k \in DOMAIN msgs[Route[e]] : msgs[Route[e]][k] = e}

(* A message of a device stands for something the device did: no more SI   *)
(* messages than transfers, no more SP messages than tasks, no DP message  *)
(* without its graphics task, in any queue at any time.                    *)
NothingInvented ==
    /\ TypeOK
    /\ Cardinality(Waiting("SI")) + siDone <= transfers
    /\ Cardinality(Waiting("SP")) <= taken
    /\ Cardinality(Waiting("DP")) <= Cardinality({k \in 1 .. taken : accepted[k] = "gfx"})

(* The step puts a message of event e in its queue, if anybody can         *)
(* receive it.                                                             *)
Kept(e) ==
    e \in Mask \cap registered /\ Cap[Route[e]] > 0
        => msgs' = [msgs EXCEPT ![Route[e]] = Append(@, e)]

(* A completion leaves its device only with its message in the queue: a    *)
(* full queue never costs an interrupt of the RSP, of the SI or of the     *)
(* counter.                                                                *)
CompletionKept ==
    [][/\ served' # served => Kept(served'[Len(served')][1])
       /\ siDone' < siDone =>
             Len(msgs'[Route["SI"]]) - Len(msgs[Route["SI"]]) = siDone - siDone'
       /\ compare = "reached" /\ compare' = "off" => Kept("COUNTER")]_vars

-----------------------------------------------------------------------------
(* Liveness.  The host thread ends its passes and begins others; retraces  *)
(* keep falling due; the threads of the game that wait on a queue get the  *)
(* CPU between passes.                                                     *)

Fairness ==
    /\ WF_vars(PassStep)
    /\ SF_vars(BeginPass /\ expired')
    /\ \A m \in Queue : SF_vars(Receive(m))

LiveSpec == Spec /\ Fairness

(* Whatever the queues are filled with, every task of the ring gets its    *)
(* interrupts, every transfer its own, and a Compare that was reached its  *)
(* own.                                                                    *)
EverythingDelivered ==
    /\ \A n \in 1 .. MaxTasks :
          Len(accepted) >= n ~> taken > n \/ (taken = n /\ ~dpPending)
    /\ "SI" \in registered /\ siDone > 0 ~> siDone = 0
    /\ "COUNTER" \in registered /\ compare = "reached" ~> compare # "reached"
=============================================================================
