----------------------------- MODULE MCScheduler -----------------------------
(* Small instances of Scheduler.                                           *)
EXTENDS Scheduler

CONSTANTS a, b, c, m1, m2

MCPri == [t \in Thread |-> IF t = a THEN 2 ELSE 1]
MCCap == [m \in Queue |-> 2]
=============================================================================
