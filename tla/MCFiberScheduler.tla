-------------------------- MODULE MCFiberScheduler --------------------------
(* A small instance of FiberScheduler: three threads of one priority below *)
(* a fourth, three slots.                                                  *)
EXTENDS FiberScheduler

CONSTANTS a, b, c, d

MCPri == [t \in Thread |-> IF t = a THEN 2 ELSE 1]
=============================================================================
