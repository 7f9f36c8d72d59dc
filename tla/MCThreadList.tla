---------------------------- MODULE MCThreadList ----------------------------
EXTENDS ThreadList

CONSTANTS t1, t2, t3, t4

(* Two threads of the same priority between a higher and a lower one.      *)
MCThread == {t1, t2, t3, t4}
MCPri == t1 :> 2 @@ t2 :> 1 @@ t3 :> 1 @@ t4 :> 0
=============================================================================
