-------------------------- MODULE PriorityScheduler --------------------------
(***************************************************************************)
(* What the stateful scheduler promises the game, without run queue, poll  *)
(* or slots: every thread is idle, ready, blocked or on the CPU; a free    *)
(* CPU goes to a ready thread of the highest priority; the CPU is taken    *)
(* from a thread that did not give it up only when a ready thread of       *)
(* strictly higher priority exists; a thread becomes ready only by being   *)
(* started, woken, or by leaving the CPU; and scheduling stops only when a *)
(* thread beyond the first MaxSlots different ones should run.             *)
(***************************************************************************)
EXTENDS Integers, FiniteSets

CONSTANTS Thread, Pri, Boot, None, MaxSlots

VARIABLES
    ready,      \* threads that may run
    blocked,    \* threads waiting for a message, or parked for good
    cpu,        \* the thread on the CPU, or None
    asked,      \* the thread on the CPU is inside one of its own calls
    known,      \* the threads that have been on the CPU
    halted      \* scheduling has stopped

vars == <<ready, blocked, cpu, asked, known, halted>>

Init ==
    /\ ready = {Boot}
    /\ blocked = {}
    /\ cpu = None
    /\ asked = FALSE
    /\ known = {}
    /\ halted = FALSE

Top == {t \in ready : \A u \in ready : Pri[u] <= Pri[t]}

Admitted(t) == t \in known \/ Cardinality(known) < MaxSlots

(* The CPU goes to one of the ready threads no other one outranks.         *)
Schedule ==
    /\ cpu = None /\ ~halted
    /\ \E t \in Top :
          /\ Admitted(t)
          /\ cpu' = t
          /\ ready' = ready \ {t}
          /\ known' = known \union {t}
    /\ asked' = TRUE
    /\ UNCHANGED <<blocked, halted>>

(* The thread to run next is one too many.                                 *)
Halt ==
    /\ cpu = None /\ ~halted
    /\ \E t \in Top : ~Admitted(t) /\ ready' = ready \ {t}
    /\ halted' = TRUE
    /\ UNCHANGED <<blocked, cpu, asked, known>>

(* An event arrives: asked is FALSE while the thread is interrupted.       *)
Interrupt ==
    /\ cpu # None /\ asked
    /\ asked' = FALSE
    /\ UNCHANGED <<ready, blocked, cpu, known, halted>>

Return ==
    /\ cpu # None /\ ~asked
    /\ asked' = TRUE
    /\ UNCHANGED <<ready, blocked, cpu, known, halted>>

(* A device event wakes a thread; the CPU is idle or interrupted.          *)
Wake ==
    /\ ~asked /\ ~halted
    /\ \E t \in blocked : blocked' = blocked \ {t} /\ ready' = ready \union {t}
    /\ UNCHANGED <<cpu, asked, known, halted>>

(* The interrupted thread loses the CPU to a thread that outranks it.      *)
Preempt ==
    /\ cpu # None /\ ~asked
    /\ \E t \in ready : Pri[t] > Pri[cpu]
    /\ ready' = ready \union {cpu}
    /\ cpu' = None
    /\ UNCHANGED <<blocked, asked, known, halted>>

(* The thread's own calls.                                                 *)
Block ==
    /\ cpu # None /\ asked
    /\ blocked' = blocked \union {cpu}
    /\ cpu' = None
    /\ asked' = FALSE
    /\ UNCHANGED <<ready, known, halted>>

GiveUp ==
    /\ cpu # None /\ asked
    /\ ready' = ready \union {cpu}
    /\ cpu' = None
    /\ asked' = FALSE
    /\ UNCHANGED <<blocked, known, halted>>

(* It starts an idle thread or wakes a blocked one, and gives the CPU up   *)
(* if and only if a ready thread then outranks it.                         *)
MakeReady ==
    /\ cpu # None /\ asked
    /\ \E t \in Thread \ (ready \union {cpu}) :
          LET now == ready \union {t} IN
          /\ blocked' = blocked \ {t}
          /\ IF \E u \in now : Pri[u] > Pri[cpu]
             THEN ready' = now \union {cpu} /\ cpu' = None /\ asked' = FALSE
             ELSE ready' = now /\ UNCHANGED <<cpu, asked>>
    /\ UNCHANGED <<known, halted>>

Kill ==
    /\ cpu # None /\ asked
    /\ \E t \in ready \union blocked :
          /\ ready' = ready \ {t}
          /\ blocked' = blocked \ {t}
    /\ UNCHANGED <<cpu, asked, known, halted>>

Exit ==
    /\ cpu # None /\ asked
    /\ cpu' = None
    /\ asked' = FALSE
    /\ UNCHANGED <<ready, blocked, known, halted>>

Next ==
    \/ Schedule \/ Halt \/ Interrupt \/ Return \/ Wake \/ Preempt
    \/ Block \/ GiveUp \/ MakeReady \/ Kill \/ Exit

Spec == Init /\ [][Next]_vars
=============================================================================
