---------------------------- MODULE Continuation ----------------------------
(***************************************************************************)
(* How a thread of the game gives up the host's stack and gets its chain   *)
(* of calls back: runtime/continuation.c, runtime/stateful_thread.c and    *)
(* the code that injetar_continuacoes.py puts around every call, poll and  *)
(* pause of the recompiled functions.                                      *)
(*                                                                         *)
(* A frame is pushed before each site and popped after it.  A yield        *)
(* longjmps out of the dispatch: the host's stack is gone, the frames      *)
(* stay.  The next dispatch calls the root function again; every function  *)
(* finds its frame, takes its temporaries and the registers from it and    *)
(* jumps to its site, until the innermost one is reached.                  *)
(*                                                                         *)
(* The words of the frames are whole: registers and temporaries are values *)
(* of Data.  Functions of the runtime that a site calls and that give the  *)
(* CPU up are sites of kind "yield" and "pause".                           *)
(***************************************************************************)
EXTENDS Sequences, Integers

CONSTANTS
    Func, Root, Site, Of, Kind, Callees, Data, Zero, None,  \* see GuestCalls
    MaxFrames   \* WPJ2_CONT_MAX_FRAMES

ASSUME ContinuationAssumption ==
    /\ Root \in Func
    /\ Of \in [Site -> Func]
    /\ Kind \in [Site -> {"call", "poll", "yield", "pause"}]
    /\ Callees \in [Site -> SUBSET Func]
    /\ Zero \in Data
    /\ None \notin Site \union Func
    /\ MaxFrames \in Nat \ {0}

VARIABLES
    frames,     \* cont->frames[0 .. depth - 1]
    cursor,     \* cont->cursor
    resuming,   \* cont->resuming
    stack,      \* the host's activations of recompiled functions
    host,       \* what the host does next: "enter" a function, "resume" or
                \* execute the "body" of the one on top, come "back" to it,
                \* or, "out" of the dispatch, run the scheduler
    target,     \* the function entered
    regs,       \* thread->context
    run,        \* thread->run_state
    image       \* the thread's part of the savestate

contVars == <<frames, cursor, resuming>>
hostVars == <<stack, host, target>>
vars == <<contVars, hostVars, regs, run, image>>

RunState == {"READY", "RUNNING", "WAITING", "FINISHED", "FAULTED"}
Frame == [fn : Func, at : Site, local : Data, target : Func \union {None}, regs : Data]
Activation ==
    [fn : Func, at : Site \union {None}, local : Data, frame : 0 .. MaxFrames]

TypeOK ==
    /\ frames \in Seq(Frame)
    /\ Len(frames) <= MaxFrames
    /\ cursor \in 0 .. Len(frames)
    /\ resuming \in BOOLEAN
    /\ stack \in Seq(Activation)
    /\ host \in {"enter", "resume", "body", "back", "out"}
    /\ target \in Func \union {None}
    /\ regs \in Data
    /\ run \in RunState
    /\ image \in [frames : Seq(Frame), regs : Data, run : RunState]

Depth == Len(frames)
Top == Len(stack)
Indirect(s) == \E g, h \in Callees[s] : g # h
Front(seq) == SubSeq(seq, 1, Len(seq) - 1)

Init ==
    /\ frames = <<>>
    /\ cursor = 0
    /\ resuming = FALSE
    /\ stack = <<>>
    /\ host = "out"
    /\ target = None
    /\ regs \in Data
    /\ run = "READY"
    /\ image = [frames |-> <<>>, regs |-> regs, run |-> "READY"]

-----------------------------------------------------------------------------
(* Leaving a function, and the dispatch.                                   *)

(* The function on top returns to its caller, or the root to the dispatch, *)
(* which looks at what is left of the frames.                              *)
Leave ==
    /\ stack' = Front(stack)
    /\ target' = None
    /\ IF Top > 1
       THEN host' = "back" /\ UNCHANGED run
       ELSE host' = "out" /\ run' = IF frames = <<>> THEN "FINISHED" ELSE "FAULTED"

(* wpj2_cont_yield and the longjmp to the dispatch.                        *)
GiveUp ==
    /\ stack' = <<>>
    /\ target' = None
    /\ host' = "out"
    /\ run' = "WAITING"

(* wpj2_stateful_thread_dispatch                                           *)
Dispatch ==
    /\ host = "out"
    /\ run \in {"READY", "WAITING"}
    /\ run' = "RUNNING"
    /\ cursor' = 0
    /\ resuming' = (frames # <<>>)
    /\ host' = "enter"
    /\ target' = Root
    /\ UNCHANGED <<frames, stack, regs, image>>

-----------------------------------------------------------------------------
(* The prologue of a function: wpj2_cont_enter_ex.                         *)

Rebuilding == resuming /\ cursor < Depth

EnterFresh ==
    /\ host = "enter"
    /\ ~ Rebuilding
    /\ stack' = Append(stack, [fn |-> target, at |-> None, local |-> Zero, frame |-> 0])
    /\ host' = "body"
    /\ target' = None
    /\ UNCHANGED <<contVars, regs, run, image>>

(* Variant: the temporaries start over.                                    *)
TakeZero(f) ==
    /\ stack' = Append(stack, [fn |-> target, at |-> f.at, local |-> Zero,
                               frame |-> cursor])
    /\ regs' = f.regs
    /\ cursor' = cursor + 1
    /\ host' = "resume"
    /\ UNCHANGED run

(* A function whose frame it is takes its temporaries, the registers and   *)
(* its place in the host's stack back; another one returns at once.        *)
Take(f) ==
    /\ stack' = Append(stack, [fn |-> target, at |-> f.at, local |-> f.local,
                               frame |-> cursor])
    /\ regs' = f.regs
    /\ cursor' = cursor + 1
    /\ host' = "resume"
    /\ UNCHANGED run

Refuse ==
    /\ IF stack = <<>> THEN host' = "out" /\ run' = "FAULTED"
                       ELSE host' = "back" /\ UNCHANGED run
    /\ UNCHANGED <<stack, regs, cursor>>

(* Variant: resuming stays up when the last frame has been entered, and    *)
(* the next function called returns at once.                               *)
EnterAgainOnAndOn ==
    /\ host = "enter"
    /\ resuming
    /\ IF cursor < Depth /\ frames[cursor + 1].fn = target
       THEN Take(frames[cursor + 1])
       ELSE Refuse
    /\ UNCHANGED resuming
    /\ target' = None
    /\ UNCHANGED <<frames, image>>

EnterAgain ==
    /\ host = "enter"
    /\ Rebuilding
    /\ IF frames[cursor + 1].fn = target
       THEN Take(frames[cursor + 1]) /\ resuming' = (cursor' # Depth)
       ELSE Refuse /\ UNCHANGED resuming
    /\ target' = None
    /\ UNCHANGED <<frames, image>>

(* The jump to the recorded site: a call is made again, to the function of *)
(* the frame if it was indirect; a poll and a dispatch are over; a pause   *)
(* pauses again.                                                           *)
ResumeCall ==
    LET s == stack[Top].at IN
    /\ host = "resume"
    /\ Kind[s] = "call"
    /\ host' = "enter"
    /\ target' = IF Indirect(s) THEN frames[stack[Top].frame + 1].target
                                ELSE CHOOSE g \in Callees[s] : TRUE
    /\ UNCHANGED <<contVars, stack, regs, run, image>>

(* Variant: __osDispatchThread is called again.                            *)
ResumeYieldAgain ==
    /\ host = "resume"
    /\ \/ /\ Kind[stack[Top].at] = "poll"
          /\ host' = "back"
          /\ UNCHANGED <<stack, target, run>>
       \/ Kind[stack[Top].at] = "yield" /\ GiveUp
    /\ UNCHANGED <<contVars, regs, image>>

ResumeYield ==
    /\ host = "resume"
    /\ Kind[stack[Top].at] \in {"poll", "yield"}
    /\ host' = "back"
    /\ UNCHANGED <<contVars, stack, target, regs, run, image>>

ResumePause ==
    /\ host = "resume"
    /\ Kind[stack[Top].at] = "pause"
    /\ GiveUp
    /\ UNCHANGED <<contVars, regs, image>>

-----------------------------------------------------------------------------
(* The body of the function on top.                                        *)

Work ==
    /\ host = "body"
    /\ \E d \in Data : stack' = [stack EXCEPT ![Top].local = d]
    /\ regs' \in Data
    /\ UNCHANGED <<contVars, host, target, run, image>>

Return ==
    /\ host = "body"
    /\ Leave
    /\ UNCHANGED <<contVars, regs, image>>

(* A site s is reached with room for its frame; t is the target recorded.  *)
Push(s, t) ==
    /\ Of[s] = stack[Top].fn
    /\ Depth < MaxFrames
    /\ frames' = Append(frames, [fn |-> stack[Top].fn, at |-> s, target |-> t,
                                 local |-> stack[Top].local, regs |-> regs])
    /\ UNCHANGED <<cursor, resuming>>

Call(s, g) ==
    /\ host = "body"
    /\ Kind[s] = "call" /\ g \in Callees[s]
    /\ Push(s, IF Indirect(s) THEN g ELSE None)
    /\ stack' = [stack EXCEPT ![Top].at = s, ![Top].frame = Depth]
    /\ host' = "enter"
    /\ target' = g
    /\ UNCHANGED <<regs, run, image>>

(* recomp_poll without a preemption                                        *)
Poll(s) ==
    /\ host = "body"
    /\ Kind[s] = "poll"
    /\ Push(s, None)
    /\ stack' = [stack EXCEPT ![Top].at = s, ![Top].frame = Depth]
    /\ host' = "back"
    /\ UNCHANGED <<target, regs, run, image>>

(* A poll that preempts, __osDispatchThread, or a pause                    *)
Yield(s) ==
    /\ host = "body"
    /\ Kind[s] # "call"
    /\ Push(s, None)
    /\ GiveUp
    /\ UNCHANGED <<regs, image>>

(* No frame is left: the rest of the function is lost.                     *)
Overflow(s) ==
    /\ host = "body"
    /\ Of[s] = stack[Top].fn
    /\ Depth >= MaxFrames
    /\ Leave
    /\ UNCHANGED <<contVars, regs, image>>

-----------------------------------------------------------------------------
(* Back from a site: wpj2_cont_after_call.                                 *)

Pop ==
    /\ frames' = Front(frames)
    /\ cursor' = IF cursor > Depth - 1 THEN Depth - 1 ELSE cursor
    /\ resuming' = (resuming /\ Depth > 1)

(* The innermost frame is popped; another one stays, and the function      *)
(* returns.                                                                *)
Back ==
    /\ host = "back"
    /\ IF stack[Top].frame + 1 = Depth
       THEN /\ Pop
            /\ stack' = [stack EXCEPT ![Top].at = None]
            /\ host' = "body"
            /\ UNCHANGED <<target, run>>
       ELSE Leave /\ UNCHANGED contVars
    /\ UNCHANGED <<regs, image>>

-----------------------------------------------------------------------------
(* Savestates, which the run loop takes between dispatches.                *)

Capture ==
    /\ host = "out"
    /\ image' = [frames |-> frames, regs |-> regs, run |-> run]
    /\ UNCHANGED <<contVars, hostVars, regs, run>>

Restore ==
    /\ host = "out"
    /\ frames' = image.frames
    /\ regs' = image.regs
    /\ run' = image.run
    /\ cursor' = 0
    /\ resuming' = (image.frames # <<>>)
    /\ UNCHANGED <<hostVars, image>>

-----------------------------------------------------------------------------
Rebuild == EnterFresh \/ EnterAgain \/ ResumeCall \/ ResumeYield \/ Back

Body ==
    \/ Work \/ Return
    \/ \E s \in Site :
        \/ \E g \in Func : Call(s, g)
        \/ Poll(s) \/ Yield(s) \/ Overflow(s)

Next ==
    \/ Dispatch \/ Rebuild \/ ResumePause \/ Body
    \/ Capture \/ Restore

Spec == Init /\ [][Next]_vars

-----------------------------------------------------------------------------
(* Safety.                                                                 *)

Mirrors(a, f, k) ==
    a.fn = f.fn /\ a.at = f.at /\ a.local = f.local /\ a.frame = k - 1

(* One frame per active call: while functions execute, the frames are the  *)
(* host's stack without the function on top; while they are rebuilt, the   *)
(* stack is the part of the frames already entered; a thread that gave up  *)
(* the CPU stands at a poll, a dispatch or a pause, never inside a call.   *)
FramesMirrorStack ==
    /\ TypeOK
    /\ host \in {"enter", "back"} /\ ~ Rebuilding => Top = Depth
    /\ host \in {"enter", "resume"} /\ resuming => Top = cursor
    /\ host = "body" => Top = Depth + 1 /\ stack[Top].at = None
    /\ host = "out" => stack = <<>>
    /\ \A k \in 1 .. Top : k <= Depth => Mirrors(stack[k], frames[k], k)
    /\ host # "out" /\ ~ resuming => cursor <= Depth
    /\ host \in {"out", "resume"} /\ frames # <<>> => Kind[frames[Depth].at] # "call"

-----------------------------------------------------------------------------
(* What the frames of a thread stand for in GuestCalls.                    *)

CallsOf(fs) == [k \in 1 .. Len(fs) |-> [fn |-> fs[k].fn, at |-> fs[k].at, local |-> fs[k].local]]
RegsOf(fs, r) == IF fs = <<>> THEN r ELSE fs[Len(fs)].regs
StatusOf(r) ==
    CASE r = "FINISHED" -> "finished" [] r = "FAULTED" -> "faulted" [] OTHER -> "suspended"

(* Until its innermost site is reached the thread is still suspended.      *)
Suspended == host \in {"out", "resume"} \/ (host = "enter" /\ Rebuilding)

(* The active calls: the functions between two sites have none.           *)
Calls ==
    IF Suspended THEN CallsOf(frames)
    ELSE CASE host = "enter" ->
                Append(CallsOf(stack), [fn |-> target, at |-> None, local |-> Zero])
           [] host = "back" -> [CallsOf(stack) EXCEPT ![Top].at = None]
           [] OTHER -> CallsOf(stack)
Registers == IF Suspended THEN RegsOf(frames, regs) ELSE regs
Status == IF Suspended THEN StatusOf(run) ELSE "running"
Saved == <<CallsOf(image.frames), RegsOf(image.frames, image.regs), StatusOf(image.run)>>

Guest ==
    INSTANCE GuestCalls WITH
        calls <- Calls, regs <- Registers, status <- Status, saved <- Saved

(* A thread goes on after every yield, and after every load, in the calls  *)
(* and with the registers and temporaries it had.                          *)
ImplementsGuestCalls == Guest!GuestSpec

-----------------------------------------------------------------------------
(* Liveness.  The scheduler dispatches a thread that is ready (module      *)
(* Scheduler), and the host executes what the dispatch calls.              *)

Fairness == WF_vars(Dispatch) /\ WF_vars(Rebuild) /\ WF_vars(ResumePause)

LiveSpec == Spec /\ Fairness

Paused == frames # <<>> /\ Kind[frames[Depth].at] = "pause"

(* A thread that gave up the CPU, other than by a pause, executes again    *)
(* after it is dispatched: no site makes it yield over and over.           *)
GoesOn == run = "WAITING" ~> host = "body" \/ Paused
=============================================================================
