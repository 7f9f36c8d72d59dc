----------------------------- MODULE GuestCalls -----------------------------
(***************************************************************************)
(* What a thread of the game is promised: its chain of calls goes on after *)
(* every suspension exactly where it stopped, with the registers and the   *)
(* temporaries it had, also when the process has been replaced by one that *)
(* loaded a savestate.                                                     *)
(***************************************************************************)
EXTENDS Sequences, Integers

CONSTANTS
    Func,       \* functions of the game
    Root,       \* the thread's entry point
    Site,       \* call sites, polls and pauses
    Of,         \* the function a site belongs to
    Kind,       \* "call", "poll", "yield" (__osDispatchThread) or "pause"
    Callees,    \* the functions a call site may call
    Data,       \* contents of the registers, and of a function's temporaries
    Zero,       \* the temporaries of a function that has just been called
    None        \* no site

VARIABLES
    calls,      \* the active calls, outermost first: function, site reached
                \* or None in between, temporaries
    regs,       \* the registers
    status,     \* "running", "suspended" or "finished"
    saved       \* the savestate

guestVars == <<calls, regs, status, saved>>

Activation(f, s, d) == [fn |-> f, at |-> s, local |-> d]

Last == Len(calls)

Start ==
    /\ calls = <<>>
    /\ regs \in Data
    /\ status = "suspended"
    /\ saved = <<calls, regs, status>>

(* The function on top is between two sites.                               *)
Executing == status = "running" /\ calls # <<>> /\ calls[Last].at = None

(* The first dispatch calls the entry point.                               *)
GuestBegin ==
    /\ status = "suspended"
    /\ calls = <<>>
    /\ calls' = <<Activation(Root, None, Zero)>>
    /\ status' = "running"
    /\ UNCHANGED <<regs, saved>>

GuestWork ==
    /\ Executing
    /\ \E d \in Data : calls' = [calls EXCEPT ![Last].local = d]
    /\ regs' \in Data
    /\ UNCHANGED <<status, saved>>

GuestCall ==
    /\ Executing
    /\ \E s \in Site : \E g \in Callees[s] :
          /\ Of[s] = calls[Last].fn /\ Kind[s] = "call"
          /\ calls' = Append([calls EXCEPT ![Last].at = s], Activation(g, None, Zero))
    /\ UNCHANGED <<regs, status, saved>>

GuestReturn ==
    /\ Executing
    /\ IF Last = 1
       THEN calls' = <<>> /\ status' = "finished"
       ELSE /\ calls' = [SubSeq(calls, 1, Last - 1) EXCEPT ![Last - 1].at = None]
            /\ UNCHANGED status
    /\ UNCHANGED <<regs, saved>>

GuestSuspend ==
    /\ Executing
    /\ \E s \in Site :
          /\ Of[s] = calls[Last].fn /\ Kind[s] # "call"
          /\ calls' = [calls EXCEPT ![Last].at = s]
    /\ status' = "suspended"
    /\ UNCHANGED <<regs, saved>>

(* A thread that paused itself never goes on.                              *)
GuestResume ==
    /\ status = "suspended"
    /\ calls # <<>> /\ Kind[calls[Last].at] # "pause"
    /\ calls' = [calls EXCEPT ![Last].at = None]
    /\ status' = "running"
    /\ UNCHANGED <<regs, saved>>

GuestSave ==
    /\ status # "running"
    /\ saved' = <<calls, regs, status>>
    /\ UNCHANGED <<calls, regs, status>>

GuestLoad ==
    /\ status # "running"
    /\ calls' = saved[1]
    /\ regs' = saved[2]
    /\ status' = saved[3]
    /\ UNCHANGED saved

GuestNext ==
    \/ GuestBegin \/ GuestWork \/ GuestCall \/ GuestReturn
    \/ GuestSuspend \/ GuestResume \/ GuestSave \/ GuestLoad

GuestSpec == Start /\ [][GuestNext]_guestVars
=============================================================================
