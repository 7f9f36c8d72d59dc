------------------------------ MODULE RspTasks ------------------------------
(***************************************************************************)
(* The signal processor of rsp.c as the guest sees it: a task is copied to *)
(* DMEM, a write to SP_STATUS releases the processor, the whole task runs  *)
(* inside that write, and its end waits in a ring until the events of the  *)
(* next retraces take it (DeviceEvents).  A graphics task is drawn by RT64,*)
(* by the CPU, or, in fast-forward, not at all.                            *)
(***************************************************************************)
EXTENDS Rt64Backend, Sequences, FiniteSets

CONSTANTS
    RingCap,    \* TASK_DONE_CAP
    Every,      \* fast-forward draws one list in this many, 8
    Types,      \* types of OSTask, 1 is graphics
    SpmemSize   \* in units of an OSTask

ASSUME RspAssumption ==
    /\ RingCap \in Nat \ {0} /\ Every \in Nat \ {0}
    /\ Types \subseteq Nat \ {0} /\ SpmemSize \in Nat \ {0}

VARIABLES
    status,     \* g_status
    task,       \* the OSTask in DMEM: its type and the bytes of its list
    ring,       \* g_task_done, g_task_done_first, g_task_done_count
    turbo,      \* "off", "navigation" (F11), "replay"
    phase,      \* g_gfx_fast_phase
    pending,    \* the guest's view: tasks whose end it has not seen, in order
    lost,       \* g_task_done_lost
    dark        \* history: lists skipped since fast-forward last drew one

spVars == <<status, task, ring, turbo, phase, pending, lost, dark>>

Flags == {"halt", "broke", "intr", "sig"}
Graphics == 1
NoTask == [type |-> 0, size |-> 0]

EmptyRing == [done |-> [i \in 0 .. RingCap - 1 |-> 0], first |-> 0, count |-> 0]

SpTypeOK ==
    /\ status \subseteq Flags
    /\ task \in [type : Types \cup {0}, size : Nat]
    /\ ring.done \in [0 .. RingCap - 1 -> Types \cup {0}]
    /\ ring.first \in 0 .. RingCap - 1 /\ ring.count \in 0 .. RingCap
    /\ turbo \in {"off", "navigation", "replay"}
    /\ phase \in 0 .. Every - 1

SpInit ==
    /\ status = {"halt"} /\ task = NoTask /\ ring = EmptyRing
    /\ turbo = "off" /\ phase = 0
    /\ pending = <<>> /\ lost = 0 /\ dark = 0

-----------------------------------------------------------------------------
(* The ring.                                                               *)

\* rsp_enqueue_task_done; a task that finds no room is dropped.
Enqueue(r, t) ==
    IF r.count < RingCap
    THEN [r EXCEPT !.done[(r.first + r.count) % RingCap] = t, !.count = @ + 1] ELSE r

\* rsp_peek_task_done; 0 is "none".  (RT64 reports nothing of its own.)
Peek(r) == IF r.count = 0 THEN 0 ELSE r.done[r.first]

\* rsp_take_task_done, called once the guest's event queue has room.
Take ==
    /\ Peek(ring) # 0
    /\ ring' = [ring EXCEPT !.first = (@ + 1) % RingCap, !.count = @ - 1]
    /\ pending' = IF pending = <<>> THEN pending ELSE Tail(pending)
    /\ UNCHANGED <<status, task, turbo, phase, lost, dark>>

\* What the ring holds, oldest first.
Waiting == [i \in 1 .. ring.count |-> ring.done[(ring.first + i - 1) % RingCap]]

-----------------------------------------------------------------------------
\* func_800CD060, __osSpRawStartDma: a copy that does not fit in the
\* processor's memory is refused; dir 0 goes to RDRAM.
Dma(dir, sp, size, t) ==
    /\ task' = IF sp + size <= SpmemSize /\ dir # 0 THEN t ELSE task
    /\ UNCHANGED <<status, ring, turbo, phase, pending, lost, dark>>

\* Variant: the phase goes on where the last fast-forward stopped.
SkippedFreely ==
    CASE turbo = "replay" -> [skip |-> TRUE, phase |-> phase]
      [] turbo = "navigation" -> [skip |-> phase < Every, phase |-> (phase + 1) % Every]
      [] OTHER -> [skip |-> FALSE, phase |-> phase]

\* func_800CD010, pular_grafico: a replay draws nothing, fast-forward by hand
\* one list of Every.
Skipped ==
    CASE turbo = "replay" -> [skip |-> TRUE, phase |-> phase]
      [] turbo = "navigation" -> [skip |-> phase # 0, phase |-> (phase + 1) % Every]
      [] OTHER -> [skip |-> FALSE, phase |-> 0]

\* The body of a graphics task: skipped, or RT64's, or the CPU's.
RunGraphics(s, d) ==
    /\ phase' = Skipped.phase
    /\ dark' = IF turbo = "navigation" /\ Skipped.skip THEN dark + 1 ELSE 0
    /\ IF Skipped.skip THEN UNCHANGED rtVars ELSE Submit(s, d, task.size)

\* func_800CD010, __osSpSetStatus: each pair of bits takes a flag away or sets
\* it; a processor left running runs its task to the end before the return.
SetStatus(clear, set, s, d) ==
    LET written == (status \ clear) \cup (set \ {"broke"})
    IN  IF "halt" \in written
        THEN /\ status' = written
             /\ UNCHANGED <<task, ring, turbo, phase, pending, lost, dark, rtVars>>
        ELSE /\ IF task.type = Graphics
                THEN RunGraphics(s, d)
                ELSE UNCHANGED <<phase, dark, rtVars>>
             /\ status' = written \cup {"halt", "broke"}
             /\ ring' = Enqueue(ring, task.type)
             /\ pending' = IF ring.count < RingCap THEN Append(pending, task.type) ELSE pending
             /\ lost' = IF ring.count < RingCap THEN lost ELSE lost + 1
             /\ UNCHANGED <<task, turbo>>

\* F11, and a replay that begins or ends (RetraceClock).
SetTurbo(t) ==
    /\ turbo' = t
    /\ UNCHANGED <<status, task, ring, phase, pending, lost, dark>>

-----------------------------------------------------------------------------
\* rsp_state_capture.
SpCaptured == [status |-> status, task |-> task, ring |-> ring]

\* Variant: the ring starts at its first entry.
SpRestoreAtZero(i) ==
    /\ status' = i.status /\ task' = i.task
    /\ ring' = [i.ring EXCEPT !.first = 0]

\* rsp_state_restore.  What an image may hold was checked before.
SpRestore(i) ==
    /\ status' = i.status /\ task' = i.task
    /\ ring' = i.ring

-----------------------------------------------------------------------------
(* The ends of tasks that the guest still waits for are the ones in the    *)
(* ring, in order: at its limit, around its end, after fast-forward and    *)
(* after a savestate was loaded (func_800CD010, rsp_take_task_done).       *)
RingIsPending == Waiting = pending

(* Fast-forward by hand never leaves the player without a picture for      *)
(* Every lists (the comment at pular_grafico), even when it is switched    *)
(* off and on, or interrupted by a replay.                                 *)
PictureKept == dark < Every
=============================================================================
