--------------------------- MODULE MCContinuation ---------------------------
(* A small program: the root calls f or g through a register, g calls f or *)
(* itself, f polls and yields, g pauses.                                   *)
EXTENDS Continuation

MCFunc == {"root", "f", "g"}
MCSite == {"ri", "fp", "fy", "gf", "gg", "gp"}
MCOf == [s \in MCSite |->
            CASE s = "ri" -> "root" [] s \in {"fp", "fy"} -> "f" [] OTHER -> "g"]
MCKind == [s \in MCSite |->
              CASE s \in {"ri", "gf", "gg"} -> "call" [] s = "fp" -> "poll"
                [] s = "fy" -> "yield" [] s = "gp" -> "pause"]
MCCallees == [s \in MCSite |->
                 CASE s = "ri" -> {"f", "g"} [] s = "gf" -> {"f"} [] s = "gg" -> {"g"}
                   [] OTHER -> {}]

=============================================================================
