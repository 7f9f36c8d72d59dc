----------------------------- MODULE ThreadQueue -----------------------------
(***************************************************************************)
(* A list of OSThreads ordered by priority, as the sequence of its threads *)
(* from the head to the last one before libultra's fake thread.            *)
(***************************************************************************)
EXTENDS Integers, SequencesExt

CONSTANTS
    Thread,     \* the OSThread structures of the game
    Pri         \* priority of each (never negative: only the fake thread's is)

ASSUME PriAssumption == Pri \in [Thread -> Nat]

InsertPointBeforeEquals(s, t) ==
    CHOOSE i \in 1 .. Len(s) + 1 :
        /\ \A j \in 1 .. i - 1 : Pri[t] < Pri[s[j]]
        /\ i <= Len(s) => Pri[s[i]] <= Pri[t]

(* Where enqueue_by_priority stops: past every thread of at least the      *)
(* priority of t, before the first one of a lower priority.                *)
InsertPoint(s, t) ==
    CHOOSE i \in 1 .. Len(s) + 1 :
        /\ \A j \in 1 .. i - 1 : Pri[t] <= Pri[s[j]]
        /\ i <= Len(s) => Pri[s[i]] < Pri[t]

EnqueueByPriority(s, t) == InsertAt(s, InsertPoint(s, t), t)

(* unlink_bounded: a thread that is not in the list leaves it as it is.    *)
Unlink(s, t) ==
    IF \E i \in DOMAIN s : s[i] = t
    THEN RemoveAt(s, CHOOSE i \in DOMAIN s : s[i] = t)
    ELSE s

(* Every thread outranks, or equals in priority, those behind it.          *)
Ordered(s) == \A i, j \in DOMAIN s : i < j => Pri[s[i]] >= Pri[s[j]]
=============================================================================
