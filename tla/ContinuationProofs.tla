------------------------- MODULE ContinuationProofs -------------------------
(***************************************************************************)
(* Theorems about Continuation: the frames mirror the host's stack, and    *)
(* the thread they rebuild is the one GuestCalls promises.                 *)
(***************************************************************************)
EXTENDS Continuation, SequenceTheorems, TLAPS

(* The function that the site of a frame calls again.                      *)
Called(f) == IF Indirect(f.at) THEN f.target ELSE CHOOSE g \in Callees[f.at] : TRUE

(* The function called at depth k: by the dispatch, or by the frame below. *)
CalledFrom(fs, k) == IF k = 0 THEN Root ELSE Called(fs[k])

(* A chain of calls: every frame but the last one stands at a call, of the *)
(* function of the next frame.                                             *)
Chained(fs) ==
    /\ fs \in Seq(Frame)
    /\ Len(fs) <= MaxFrames
    /\ \A k \in 1 .. Len(fs) : fs[k].fn = CalledFrom(fs, k - 1)
    /\ \A k \in 1 .. Len(fs) - 1 : Kind[fs[k].at] = "call"

(* The thread of these frames gave up the CPU.                             *)
GaveUp(fs) == fs # <<>> => Kind[fs[Len(fs)].at] # "call"

Matched == \A k \in 1 .. Top : k <= Depth => Mirrors(stack[k], frames[k], k)

(* The frames above the stack are being entered, the next one is the       *)
(* cursor's.                                                               *)
Climbing == resuming => Top = cursor /\ GaveUp(frames)

AtOut == stack = <<>> /\ GaveUp(frames) /\ (resuming => cursor < Depth)

AtEnter ==
    /\ target \in Func
    /\ Top <= Depth
    /\ resuming <=> Top < Depth
    /\ Climbing
    /\ target = CalledFrom(frames, Top)
    /\ Top # 0 => Kind[frames[Top].at] = "call"

AtResume ==
    /\ Top \in 1 .. Depth
    /\ Top = cursor
    /\ resuming <=> Top < Depth
    /\ GaveUp(frames)
    /\ regs = frames[Top].regs

AtBody ==
    /\ Top = Depth + 1
    /\ ~ resuming
    /\ stack[Top].at = None
    /\ stack[Top].fn = CalledFrom(frames, Depth)
    /\ Depth # 0 => Kind[frames[Depth].at] = "call"

AtBack == Top = Depth /\ Depth # 0 /\ ~ resuming

(* What holds of the host at each place it can be.                         *)
AtHost ==
    /\ host = "out" => AtOut
    /\ host = "enter" => AtEnter
    /\ host = "resume" => AtResume
    /\ host = "body" => AtBody
    /\ host = "back" => AtBack

ContInv ==
    /\ TypeOK
    /\ Chained(frames)
    /\ Chained(image.frames) /\ GaveUp(image.frames)
    /\ Matched
    /\ AtHost

-----------------------------------------------------------------------------
(* Sequences of frames and of activations.                                 *)

(* SubSeq(seq, 1, Len(seq) - 1), as Leave and Pop use it, drops the last   *)
(* element.                                                                *)
LEMMA FrontIs ==
    ASSUME NEW S, NEW seq \in Seq(S), seq # <<>>
    PROVE  /\ Len(seq) \in Nat \ {0}
           /\ Front(seq) \in Seq(S)
           /\ Len(Front(seq)) = Len(seq) - 1
           /\ \A k \in 1 .. Len(seq) - 1 : Front(seq)[k] = seq[k]
<1>1. Len(seq) \in Nat \ {0}
  BY EmptySeq
<1>2. \A k \in 1 .. Len(seq) - 1 : seq[k] \in S
  BY <1>1, ElementOfSeq
<1>3. /\ SubSeq(seq, 1, Len(seq) - 1) \in Seq(S)
      /\ Len(SubSeq(seq, 1, Len(seq) - 1))
            = IF 1 <= Len(seq) - 1 THEN Len(seq) - 1 - 1 + 1 ELSE 0
      /\ \A k \in 1 .. Len(seq) - 1 - 1 + 1 : SubSeq(seq, 1, Len(seq) - 1)[k] = seq[1 + k - 1]
  <2>1. 1 \in Int /\ Len(seq) - 1 \in Int
    BY <1>1
  <2>. QED
    BY <1>2, <2>1, SubSeqProperties
<1>. DEFINE n == Len(seq)
            fr == Front(seq)
<1>4. /\ n \in Nat \ {0} /\ fr \in Seq(S)
      /\ Len(fr) = IF 1 <= n - 1 THEN n - 1 - 1 + 1 ELSE 0
      /\ \A k \in 1 .. n - 1 - 1 + 1 : fr[k] = seq[1 + k - 1]
  BY <1>1, <1>3 DEF Front
<1>. HIDE DEF n, fr
<1>5. Len(fr) = n - 1 /\ \A k \in 1 .. n - 1 : fr[k] = seq[k]
  BY <1>4
<1>. QED
  BY <1>4, <1>5 DEF n, fr

(* Nothing is left of a sequence of one element.                           *)
LEMMA FrontOfOne ==
    ASSUME NEW S, NEW seq \in Seq(S), Len(seq) = 1
    PROVE  Front(seq) = <<>>
<1>1. seq # <<>>
  BY EmptySeq
<1>2. Front(seq) \in Seq(S) /\ Len(Front(seq)) = 0
  BY <1>1, FrontIs
<1>. QED
  BY <1>2, EmptySeq

(* An empty sequence is one of length 0.                                   *)
LEMMA EmptyIsZero ==
    ASSUME NEW S, NEW seq \in Seq(S)
    PROVE  seq = <<>> <=> Len(seq) = 0
BY EmptySeq

(* Pushing a frame of the function that the innermost frame called leaves  *)
(* a chain of calls.                                                       *)
LEMMA ChainedAppend ==
    ASSUME NEW fs, Chained(fs), Len(fs) < MaxFrames,
           NEW f \in Frame, f.fn = CalledFrom(fs, Len(fs)),
           Len(fs) # 0 => Kind[fs[Len(fs)].at] = "call"
    PROVE  /\ Chained(Append(fs, f))
           /\ Len(Append(fs, f)) = Len(fs) + 1
           /\ Append(fs, f)[Len(fs) + 1] = f
           /\ \A k \in 1 .. Len(fs) : Append(fs, f)[k] = fs[k]
<1>. USE ContinuationAssumption
<1>1. fs \in Seq(Frame) /\ Len(fs) \in Nat
  BY LenProperties DEF Chained
<1>2. /\ Append(fs, f) \in Seq(Frame)
      /\ Len(Append(fs, f)) = Len(fs) + 1
      /\ \A k \in 1 .. Len(fs) : Append(fs, f)[k] = fs[k]
      /\ Append(fs, f)[Len(fs) + 1] = f
  BY <1>1, AppendProperties
<1>. DEFINE n == Len(fs)
            gs == Append(fs, f)
<1>. HIDE DEF n, gs
<1>3. /\ n \in Nat /\ n < MaxFrames /\ Len(gs) = n + 1
      /\ \A k \in 1 .. n : gs[k] = fs[k]
      /\ gs[n + 1] = f
  BY <1>1, <1>2 DEF n, gs
<1>4. ASSUME NEW k \in 1 .. n + 1
      PROVE  gs[k].fn = CalledFrom(gs, k - 1)
  <2>1. CalledFrom(gs, k - 1) = CalledFrom(fs, k - 1)
    <3>1. k - 1 = 0 \/ (k - 1 \in 1 .. n /\ k - 1 # 0)
      BY <1>3
    <3>. QED
      BY <1>3, <3>1 DEF CalledFrom
  <2>2. CASE k = n + 1
    BY <1>3, <2>1, <2>2 DEF n
  <2>3. CASE k \in 1 .. n
    BY <1>3, <2>1, <2>3 DEF Chained, n
  <2>. QED
    BY <1>3, <2>2, <2>3
<1>5. ASSUME NEW k \in 1 .. n
      PROVE  Kind[gs[k].at] = "call"
  <2>1. gs[k] = fs[k]
    BY <1>3
  <2>2. CASE k = n
    <3>1. n # 0
      BY <1>3, <2>2
    <3>. QED
      BY <2>1, <2>2, <3>1 DEF n
  <2>3. CASE k \in 1 .. n - 1
    BY <2>1, <2>3 DEF Chained, n
  <2>. QED
    BY <1>3, <2>2, <2>3
<1>6. Chained(gs)
  <2>1. \A k \in 1 .. Len(gs) : gs[k].fn = CalledFrom(gs, k - 1)
    BY <1>3, <1>4
  <2>2. \A k \in 1 .. Len(gs) - 1 : Kind[gs[k].at] = "call"
    BY <1>3, <1>5
  <2>3. gs \in Seq(Frame) /\ Len(gs) <= MaxFrames
    BY <1>2, <1>3 DEF gs
  <2>. QED
    BY <2>1, <2>2, <2>3 DEF Chained
<1>. QED
  BY <1>2, <1>6 DEF gs

(* Popping the innermost frame leaves a chain of calls, that stands at the *)
(* call of the function of the frame popped.                               *)
LEMMA ChainedFront ==
    ASSUME NEW fs, Chained(fs), fs # <<>>
    PROVE  /\ Chained(Front(fs))
           /\ CalledFrom(Front(fs), Len(fs) - 1) = fs[Len(fs)].fn
           /\ Len(fs) - 1 # 0 => Kind[Front(fs)[Len(fs) - 1].at] = "call"
<1>. USE ContinuationAssumption
<1>. DEFINE n == Len(fs)
            gs == Front(fs)
<1>. HIDE DEF n, gs
<1>1. fs \in Seq(Frame)
  BY DEF Chained
<1>2. /\ n \in Nat \ {0} /\ gs \in Seq(Frame) /\ Len(gs) = n - 1
      /\ \A k \in 1 .. n - 1 : gs[k] = fs[k]
  BY <1>1, FrontIs DEF n, gs
<1>3. \A k \in 1 .. n : CalledFrom(gs, k - 1) = CalledFrom(fs, k - 1)
  <2>. TAKE k \in 1 .. n
  <2>1. k - 1 = 0 \/ (k - 1 \in 1 .. n - 1 /\ k - 1 # 0)
    BY <1>2
  <2>. QED
    BY <1>2, <2>1 DEF CalledFrom
<1>4. \A k \in 1 .. n : fs[k].fn = CalledFrom(gs, k - 1)
  BY <1>3 DEF Chained, n
<1>5. \A k \in 1 .. n - 1 : Kind[gs[k].at] = "call"
  BY <1>2 DEF Chained, n
<1>6. Chained(gs)
  <2>1. n - 1 <= MaxFrames
    BY <1>2 DEF Chained, n
  <2>2. \A k \in 1 .. n - 1 : gs[k].fn = CalledFrom(gs, k - 1)
    BY <1>2, <1>4
  <2>3. \A k \in 1 .. n - 1 - 1 : Kind[gs[k].at] = "call"
    BY <1>2, <1>5
  <2>. QED
    BY <1>2, <2>1, <2>2, <2>3 DEF Chained
<1>7. CalledFrom(gs, n - 1) = fs[n].fn
  BY <1>2, <1>4
<1>8. n - 1 # 0 => Kind[gs[n - 1].at] = "call"
  BY <1>2, <1>5
<1>. QED
  BY <1>6, <1>7, <1>8 DEF n, gs

-----------------------------------------------------------------------------
(* The invariant is inductive.                                             *)

(* What the typing gives of the lengths and of the elements.               *)
LEMMA Elements ==
    ASSUME TypeOK
    PROVE  /\ Top \in Nat /\ Depth \in Nat
           /\ \A k \in 1 .. Top : stack[k] \in Activation
           /\ \A k \in 1 .. Depth : frames[k] \in Frame
           /\ stack = <<>> <=> Top = 0
           /\ frames = <<>> <=> Depth = 0
<1>1. stack \in Seq(Activation) /\ frames \in Seq(Frame)
  BY DEF TypeOK
<1>2. Top \in Nat /\ Depth \in Nat
  BY <1>1, LenProperties DEF Top, Depth
<1>3. \A k \in 1 .. Top : stack[k] \in Activation
  BY <1>1, ElementOfSeq DEF Top
<1>4. \A k \in 1 .. Depth : frames[k] \in Frame
  BY <1>1, ElementOfSeq DEF Depth
<1>. QED
  BY <1>1, <1>2, <1>3, <1>4, EmptyIsZero DEF Top, Depth

(* A thread starts outside any dispatch, with no frames.                   *)
LEMMA InitCont == Init => ContInv
<1>. USE ContinuationAssumption
<1>. SUFFICES ASSUME Init PROVE ContInv
  OBVIOUS
<1>1. /\ frames \in Seq(Frame) /\ Len(frames) = 0
      /\ stack \in Seq(Activation) /\ Len(stack) = 0
      /\ image.frames \in Seq(Frame) /\ Len(image.frames) = 0
  BY EmptySeq DEF Init
<1>2. TypeOK
  <2>1. /\ host \in {"enter", "resume", "body", "back", "out"}
        /\ target \in Func \union {None}
        /\ run \in RunState /\ resuming \in BOOLEAN /\ regs \in Data
    BY DEF Init, RunState
  <2>2. image \in [frames : Seq(Frame), regs : Data, run : RunState]
    BY <1>1, <2>1 DEF Init
  <2>3. Len(frames) <= MaxFrames /\ cursor \in 0 .. Len(frames)
    BY <1>1 DEF Init
  <2>. QED
    BY <1>1, <2>1, <2>2, <2>3 DEF TypeOK
<1>3. Chained(frames) /\ Chained(image.frames)
  BY <1>1 DEF Chained
<1>4. GaveUp(image.frames) /\ AtHost
  BY DEF Init, GaveUp, AtHost, AtOut
<1>5. Matched
  BY <1>1 DEF Matched, Top
<1>. QED
  BY <1>2, <1>3, <1>4, <1>5 DEF ContInv

(* The dispatch enters the root function at the bottom of the frames.      *)
LEMMA DispatchKeeps == ContInv /\ Dispatch => ContInv'
<1>. USE ContinuationAssumption
<1>. SUFFICES ASSUME ContInv, Dispatch PROVE ContInv'
  OBVIOUS
<1>1. TypeOK /\ Chained(frames) /\ Chained(image.frames) /\ GaveUp(image.frames) /\ AtOut
  BY DEF ContInv, AtHost, Dispatch
<1>2. Top = 0 /\ Depth \in Nat /\ (frames = <<>> <=> Depth = 0)
  BY <1>1, Elements DEF AtOut
<1>3. frames' = frames /\ stack' = stack /\ image' = image /\ Top' = Top /\ Depth' = Depth
  BY DEF Dispatch, Top, Depth
<1>4. TypeOK'
  BY <1>1, <1>2, <1>3 DEF TypeOK, Dispatch, RunState, Depth
<1>5. Matched'
  BY <1>2, <1>3 DEF Matched
<1>6. AtEnter'
  <2>1. target' \in Func /\ Top' <= Depth' /\ (resuming' <=> Top' < Depth')
    <3>1. resuming' <=> frames # <<>>
      BY DEF Dispatch
    <3>. QED
      BY <1>2, <1>3, <3>1 DEF Dispatch
  <2>2. Climbing'
    BY <1>1, <1>2, <1>3 DEF Dispatch, AtOut, Climbing, GaveUp
  <2>3. target' = CalledFrom(frames', Top')
    BY <1>2, <1>3 DEF Dispatch, CalledFrom
  <2>4. Top' # 0 => Kind[frames'[Top'].at] = "call"
    BY <1>2, <1>3
  <2>. QED
    BY <2>1, <2>2, <2>3, <2>4 DEF AtEnter
<1>7. AtHost'
  BY <1>6 DEF AtHost, Dispatch
<1>. QED
  BY <1>1, <1>3, <1>4, <1>5, <1>7 DEF ContInv

(* A function with no frame starts at the top of the stack.                *)
LEMMA EnterFreshKeeps == ContInv /\ EnterFresh => ContInv'
<1>. USE ContinuationAssumption
<1>. SUFFICES ASSUME ContInv, EnterFresh PROVE ContInv'
  OBVIOUS
<1>1. TypeOK /\ Chained(frames) /\ Chained(image.frames) /\ GaveUp(image.frames)
      /\ Matched /\ AtEnter
  BY DEF ContInv, AtHost, EnterFresh
<1>2. /\ Top \in Nat /\ Depth \in Nat
      /\ frames' = frames /\ image' = image /\ Depth' = Depth
  BY <1>1, Elements DEF EnterFresh, contVars, Depth
<1>3. ~ resuming /\ Top = Depth
  <2>1. resuming => Top = cursor
    BY <1>1 DEF AtEnter, Climbing
  <2>2. cursor \in 0 .. Depth /\ ~ (resuming /\ cursor < Depth)
    BY <1>1 DEF TypeOK, Depth, EnterFresh, Rebuilding
  <2>3. Top <= Depth /\ (resuming <=> Top < Depth)
    BY <1>1 DEF AtEnter
  <2>. QED
    BY <1>2, <2>1, <2>2, <2>3
<1>. DEFINE a == [fn |-> target, at |-> None, local |-> Zero, frame |-> 0]
<1>4. a \in Activation
  BY <1>1 DEF AtEnter, Activation
<1>5. /\ stack' \in Seq(Activation) /\ Top' = Top + 1 /\ stack'[Top + 1] = a
      /\ \A k \in 1 .. Top : stack'[k] = stack[k]
  BY <1>1, <1>4, AppendProperties DEF TypeOK, EnterFresh, Top
<1>6. TypeOK'
  BY <1>1, <1>2, <1>5 DEF TypeOK, EnterFresh, contVars
<1>7. Matched'
  <2>. SUFFICES ASSUME NEW k \in 1 .. Top', k <= Depth
                PROVE  Mirrors(stack'[k], frames[k], k)
    BY <1>2 DEF Matched, Mirrors
  <2>1. k \in 1 .. Top
    BY <1>2, <1>3, <1>5
  <2>. QED
    BY <1>1, <1>5, <2>1 DEF Matched
<1>8. AtBody'
  <2>1. stack'[Top'].at = None /\ stack'[Top'].fn = target
    BY <1>5
  <2>. QED
    BY <1>1, <1>2, <1>3, <1>5, <2>1 DEF AtBody, AtEnter, EnterFresh, contVars
<1>9. AtHost'
  BY <1>8 DEF AtHost, EnterFresh
<1>. QED
  BY <1>1, <1>2, <1>6, <1>7, <1>9 DEF ContInv

(* The function entered again is the one of the next frame.                *)
LEMMA FrameIsTaken ==
    ASSUME ContInv, host = "enter", Rebuilding
    PROVE  /\ cursor = Top /\ Top \in Nat /\ Depth \in Nat /\ Top < Depth
           /\ frames[cursor + 1] \in Frame
           /\ frames[cursor + 1].fn = target
           /\ GaveUp(frames)
<1>1. TypeOK /\ Chained(frames) /\ AtEnter
  BY DEF ContInv, AtHost
<1>2. cursor = Top /\ Top \in Nat /\ Depth \in Nat /\ cursor < Depth /\ GaveUp(frames)
  BY <1>1, Elements DEF AtEnter, Climbing, Rebuilding
<1>3. cursor + 1 \in 1 .. Depth /\ cursor + 1 - 1 = Top
  BY <1>2
<1>4. frames[cursor + 1].fn = CalledFrom(frames, Top)
  <2>1. \A k \in 1 .. Depth : frames[k].fn = CalledFrom(frames, k - 1)
    BY <1>1 DEF Chained, Depth
  <2>2. PICK c \in 1 .. Depth : c - 1 = Top
    BY <1>2
  <2>3. frames[c].fn = CalledFrom(frames, c - 1)
    BY <2>1, <2>2, Zenon
  <2>. QED
    BY <1>2, <2>2, <2>3
<1>. QED
  BY <1>1, <1>2, <1>3, <1>4, Elements DEF AtEnter

(* It takes its place in the stack, its temporaries and the registers.     *)
LEMMA EnterAgainKeeps == ContInv /\ EnterAgain => ContInv'
<1>. USE ContinuationAssumption
<1>. SUFFICES ASSUME ContInv, EnterAgain PROVE ContInv'
  OBVIOUS
<1>1. TypeOK /\ Chained(frames) /\ Chained(image.frames) /\ GaveUp(image.frames)
      /\ Matched /\ AtEnter
  BY DEF ContInv, AtHost, EnterAgain
<1>. DEFINE f == frames[cursor + 1]
            a == [fn |-> target, at |-> f.at, local |-> f.local, frame |-> cursor]
<1>2. /\ cursor = Top /\ Top \in Nat /\ Depth \in Nat /\ Top < Depth
      /\ f \in Frame /\ f.fn = target /\ GaveUp(frames)
  BY FrameIsTaken DEF EnterAgain
<1>3. Take(f) /\ resuming' = (cursor' # Depth)
  BY <1>2 DEF EnterAgain
<1>4. frames' = frames /\ image' = image /\ Depth' = Depth
  BY DEF EnterAgain, Depth
<1>5. a \in Activation
  <2>1. f.at \in Site /\ f.local \in Data /\ f.regs \in Data
    BY <1>2 DEF Frame
  <2>2. Depth <= MaxFrames
    BY <1>1 DEF TypeOK, Depth
  <2>. QED
    BY <1>1, <1>2, <2>1, <2>2 DEF Activation, AtEnter
<1>6. /\ stack' \in Seq(Activation) /\ Top' = Top + 1 /\ stack'[Top + 1] = a
      /\ \A k \in 1 .. Top : stack'[k] = stack[k]
  BY <1>1, <1>3, <1>5, AppendProperties DEF TypeOK, Take, Top
<1>7. TypeOK'
  <2>1. cursor' \in 0 .. Len(frames') /\ resuming' \in BOOLEAN
    BY <1>2, <1>3, <1>4 DEF Take, Depth
  <2>2. regs' \in Data
    BY <1>2, <1>3 DEF Take, Frame
  <2>. QED
    BY <1>1, <1>3, <1>4, <1>6, <2>1, <2>2 DEF TypeOK, Take, EnterAgain
<1>8. Matched'
  <2>. SUFFICES ASSUME NEW k \in 1 .. Top'
                PROVE  Mirrors(stack'[k], frames[k], k)
    BY <1>4 DEF Matched, Mirrors
  <2>1. CASE k = Top + 1
    BY <1>2, <1>6, <2>1 DEF Mirrors
  <2>2. CASE k \in 1 .. Top
    BY <1>1, <1>2, <1>6, <2>2 DEF Matched, Mirrors
  <2>. QED
    BY <1>2, <1>6, <2>1, <2>2
<1>9. AtResume'
  <2>1. Top' \in 1 .. Depth' /\ Top' = cursor' /\ (resuming' <=> Top' < Depth')
    <3>1. resuming' <=> cursor' # Depth
      BY <1>3
    <3>. QED
      BY <1>2, <1>3, <1>4, <1>6, <3>1 DEF Take
  <2>2. regs' = frames'[Top'].regs
    BY <1>2, <1>3, <1>4, <1>6 DEF Take
  <2>3. GaveUp(frames')
    BY <1>2, <1>4
  <2>. QED
    BY <2>1, <2>2, <2>3 DEF AtResume
<1>10. AtHost'
  BY <1>3, <1>9 DEF AtHost, Take
<1>. QED
  BY <1>1, <1>4, <1>7, <1>8, <1>10 DEF ContInv

(* A call is made again: to the function of the next frame, or, above the  *)
(* innermost one, to the one the frame recorded.                           *)
LEMMA ResumeCallKeeps == ContInv /\ ResumeCall => ContInv'
<1>. USE ContinuationAssumption
<1>. SUFFICES ASSUME ContInv, ResumeCall PROVE ContInv'
  OBVIOUS
<1>1. TypeOK /\ Chained(frames) /\ Chained(image.frames) /\ GaveUp(image.frames)
      /\ Matched /\ AtResume
  BY DEF ContInv, AtHost, ResumeCall
<1>2. /\ Top \in Nat /\ Depth \in Nat /\ Top \in 1 .. Depth
      /\ frames' = frames /\ image' = image /\ stack' = stack
      /\ Depth' = Depth /\ Top' = Top
      /\ cursor' = cursor /\ resuming' = resuming /\ regs' = regs /\ run' = run
  BY <1>1, Elements DEF ResumeCall, contVars, Depth, Top, AtResume
<1>3. stack[Top].at = frames[Top].at /\ stack[Top].frame + 1 = Top
  <2>1. Mirrors(stack[Top], frames[Top], Top)
    BY <1>1, <1>2 DEF Matched
  <2>. QED
    BY <1>2, <2>1 DEF Mirrors
<1>4. target' = Called(frames[Top]) /\ Kind[frames[Top].at] = "call"
  BY <1>3 DEF ResumeCall, Called
<1>5. Top < Depth /\ frames # <<>>
  <2>1. frames # <<>>
    BY <1>1, <1>2, Elements
  <2>2. Top # Depth
    BY <1>1, <1>4, <2>1 DEF AtResume, GaveUp, Depth
  <2>. QED
    BY <1>2, <2>1, <2>2
<1>6. target' = CalledFrom(frames, Top) /\ target' \in Func
  <2>1. target' = CalledFrom(frames, Top)
    BY <1>2, <1>4 DEF CalledFrom
  <2>2. \A k \in 1 .. Depth : frames[k].fn = CalledFrom(frames, k - 1)
    BY <1>1 DEF Chained, Depth
  <2>3. PICK c \in 1 .. Depth : c - 1 = Top
    BY <1>2, <1>5
  <2>4. frames[c].fn = CalledFrom(frames, c - 1) /\ frames[c] \in Frame
    BY <1>1, <2>2, <2>3, Elements, Zenon
  <2>5. frames[c].fn \in Func
    BY <2>4 DEF Frame
  <2>. QED
    BY <2>1, <2>3, <2>4, <2>5
<1>7. TypeOK'
  BY <1>1, <1>2, <1>6 DEF TypeOK, ResumeCall
<1>8. Matched'
  BY <1>1, <1>2 DEF Matched
<1>9. AtEnter'
  <2>1. resuming' <=> Top' < Depth'
    BY <1>1, <1>2 DEF AtResume
  <2>2. Climbing'
    BY <1>1, <1>2 DEF Climbing, AtResume
  <2>3. Top' <= Depth' /\ target' = CalledFrom(frames', Top')
    BY <1>2, <1>6
  <2>4. Kind[frames'[Top'].at] = "call"
    BY <1>2, <1>4
  <2>. QED
    BY <1>6, <2>1, <2>2, <2>3, <2>4 DEF AtEnter
<1>10. AtHost'
  BY <1>9 DEF AtHost, ResumeCall
<1>. QED
  BY <1>1, <1>2, <1>7, <1>8, <1>10 DEF ContInv

(* The innermost frame is the one whose site is no call.                   *)
LEMMA InnermostReached ==
    ASSUME ContInv, host = "resume", Kind[stack[Top].at] # "call"
    PROVE  /\ Top \in Nat \ {0} /\ Top = Depth
           /\ stack[Top].at = frames[Depth].at
           /\ ~ resuming
<1>1. TypeOK /\ Chained(frames) /\ Matched /\ AtResume
  BY DEF ContInv, AtHost
<1>2. Top \in Nat /\ Depth \in Nat /\ Top \in 1 .. Depth /\ (resuming <=> Top < Depth)
  BY <1>1, Elements DEF AtResume
<1>3. stack[Top].at = frames[Top].at
  BY <1>1, <1>2 DEF Matched, Mirrors
<1>4. Top = Depth
  <2>1. \A k \in 1 .. Depth - 1 : Kind[frames[k].at] = "call"
    BY <1>1 DEF Chained, Depth
  <2>2. Top \notin 1 .. Depth - 1
    BY <1>3, <2>1
  <2>. QED
    BY <1>2, <2>2
<1>. QED
  BY <1>2, <1>3, <1>4

(* A poll or a dispatch that suspended the thread is over.                 *)
LEMMA ResumeYieldKeeps == ContInv /\ ResumeYield => ContInv'
<1>. SUFFICES ASSUME ContInv, ResumeYield PROVE ContInv'
  OBVIOUS
<1>1. TypeOK /\ Chained(frames) /\ Chained(image.frames) /\ GaveUp(image.frames) /\ Matched
  BY DEF ContInv
<1>2. Top \in Nat \ {0} /\ Top = Depth /\ ~ resuming
  BY InnermostReached DEF ResumeYield
<1>3. UNCHANGED <<frames, cursor, resuming, stack, target, regs, run, image, Top, Depth>>
  BY DEF ResumeYield, contVars, Top, Depth
<1>4. TypeOK' /\ Matched'
  BY <1>1, <1>3 DEF TypeOK, Matched, ResumeYield
<1>5. AtBack'
  BY <1>2, <1>3 DEF AtBack
<1>6. AtHost'
  BY <1>5 DEF AtHost, ResumeYield
<1>. QED
  BY <1>1, <1>3, <1>4, <1>6 DEF ContInv

(* A pause pauses again: the stack is given up, the frames stay.           *)
LEMMA ResumePauseKeeps == ContInv /\ ResumePause => ContInv'
<1>. SUFFICES ASSUME ContInv, ResumePause PROVE ContInv'
  OBVIOUS
<1>1. TypeOK /\ Chained(frames) /\ Chained(image.frames) /\ GaveUp(image.frames)
      /\ AtResume
  BY DEF ContInv, AtHost, ResumePause
<1>2. ~ resuming
  BY InnermostReached DEF ResumePause
<1>3. /\ UNCHANGED <<frames, cursor, resuming, regs, image>>
      /\ stack' = <<>> /\ target' = None /\ host' = "out" /\ run' = "WAITING"
  BY DEF ResumePause, GiveUp, contVars
<1>4. stack' \in Seq(Activation) /\ Len(stack') = 0
  BY <1>3, EmptySeq
<1>5. TypeOK'
  BY <1>1, <1>3, <1>4 DEF TypeOK, RunState
<1>6. Matched'
  BY <1>4 DEF Matched, Top
<1>7. AtHost'
  BY <1>1, <1>2, <1>3 DEF AtHost, AtOut, AtResume
<1>. QED
  BY <1>1, <1>3, <1>5, <1>6, <1>7 DEF ContInv

(* The function on top works: its registers and temporaries change.        *)
LEMMA WorkKeeps == ContInv /\ Work => ContInv'
<1>. SUFFICES ASSUME ContInv, Work PROVE ContInv'
  OBVIOUS
<1>1. TypeOK /\ Chained(frames) /\ Chained(image.frames) /\ GaveUp(image.frames)
      /\ Matched /\ AtBody
  BY DEF ContInv, AtHost, Work
<1>2. Top \in Nat /\ Depth \in Nat /\ Top = Depth + 1 /\ stack[Top] \in Activation
  BY <1>1, Elements DEF AtBody
<1>3. PICK d \in Data : stack' = [stack EXCEPT ![Top].local = d]
  BY DEF Work
<1>4. UNCHANGED <<frames, cursor, resuming, host, target, run, image, Depth>> /\ regs' \in Data
  BY DEF Work, contVars, Depth
<1>. DEFINE a == [stack[Top] EXCEPT !.local = d]
<1>5. a \in Activation /\ a.at = stack[Top].at /\ a.fn = stack[Top].fn
  BY <1>2, <1>3 DEF Activation
<1>6. /\ stack' \in Seq(Activation) /\ Top' = Top /\ stack'[Top] = a
      /\ \A k \in 1 .. Depth : stack'[k] = stack[k]
  <2>1. stack' = [stack EXCEPT ![Top] = a]
    BY <1>3
  <2>2. stack \in Seq(Activation) /\ Top \in 1 .. Len(stack)
    BY <1>1, <1>2 DEF TypeOK, Top
  <2>3. \A k \in 1 .. Depth : k \in 1 .. Len(stack) /\ k # Top
    BY <1>2 DEF Top
  <2>. QED
    BY <1>2, <1>5, <2>1, <2>2, <2>3, ExceptSeq DEF Top
<1>7. TypeOK'
  BY <1>1, <1>4, <1>6 DEF TypeOK
<1>8. Matched'
  BY <1>1, <1>2, <1>4, <1>6 DEF Matched
<1>9. AtBody'
  BY <1>1, <1>4, <1>5, <1>6 DEF AtBody
<1>10. AtHost'
  BY <1>4, <1>9 DEF AtHost, Work
<1>. QED
  BY <1>1, <1>4, <1>7, <1>8, <1>10 DEF ContInv

(* The function on top ends: its caller pops the frame of the call, or the *)
(* dispatch is over.                                                       *)
LEMMA LeaveKeeps ==
    ASSUME ContInv, host = "body", Leave, UNCHANGED <<contVars, regs, image>>
    PROVE  ContInv'
<1>. USE ContinuationAssumption
<1>1. TypeOK /\ Chained(frames) /\ Chained(image.frames) /\ GaveUp(image.frames)
      /\ Matched /\ AtBody
  BY DEF ContInv, AtHost
<1>2. /\ Top \in Nat /\ Depth \in Nat /\ Top = Depth + 1 /\ stack # <<>>
      /\ frames = <<>> <=> Depth = 0
  BY <1>1, Elements DEF AtBody
<1>3. UNCHANGED <<frames, cursor, resuming, regs, image, Depth>>
  BY DEF contVars, Depth
<1>4. /\ stack' \in Seq(Activation) /\ Top' = Depth
      /\ \A k \in 1 .. Depth : stack'[k] = stack[k]
  <2>1. stack \in Seq(Activation) /\ Len(stack) - 1 = Depth /\ stack' = Front(stack)
    BY <1>1, <1>2 DEF TypeOK, Leave, Top
  <2>2. /\ Front(stack) \in Seq(Activation) /\ Len(Front(stack)) = Depth
        /\ \A k \in 1 .. Depth : Front(stack)[k] = stack[k]
    BY <1>2, <2>1, FrontIs
  <2>. QED
    BY <2>1, <2>2 DEF Top
<1>5. /\ target' = None
      /\ Depth # 0 => host' = "back" /\ run' = run
      /\ Depth = 0 => host' = "out" /\ run' \in RunState
  BY <1>2 DEF Leave, RunState
<1>6. TypeOK'
  <2>1. host' \in {"enter", "resume", "body", "back", "out"} /\ run' \in RunState
    BY <1>1, <1>5 DEF TypeOK
  <2>. QED
    BY <1>1, <1>3, <1>4, <1>5, <2>1 DEF TypeOK
<1>7. Matched'
  BY <1>1, <1>2, <1>3, <1>4 DEF Matched
<1>8. AtHost'
  <2>1. CASE Depth # 0
    <3>1. AtBack'
      BY <1>1, <1>3, <1>4, <2>1 DEF AtBack, AtBody
    <3>. QED
      BY <1>5, <2>1, <3>1 DEF AtHost
  <2>2. CASE Depth = 0
    <3>1. stack' = <<>>
      BY <1>4, <2>2, EmptyIsZero DEF Top
    <3>2. AtOut'
      BY <1>1, <1>2, <1>3, <2>2, <3>1 DEF AtOut, GaveUp, AtBody
    <3>. QED
      BY <1>5, <2>2, <3>2 DEF AtHost
  <2>. QED
    BY <2>1, <2>2
<1>. QED
  BY <1>1, <1>3, <1>6, <1>7, <1>8 DEF ContInv

(* The frame pushed at a site, whose target is that of an indirect call.   *)
LEMMA PushGives ==
    ASSUME ContInv, host = "body", NEW s \in Site, NEW t \in Func \union {None}, Push(s, t)
    PROVE  /\ Top \in Nat /\ Depth \in Nat /\ Top = Depth + 1 /\ Top' = Len(stack')
           /\ stack[Top] \in Activation
           /\ Depth < MaxFrames /\ Depth' = Depth + 1
           /\ frames' \in Seq(Frame) /\ Chained(frames')
           /\ \A k \in 1 .. Depth : frames'[k] = frames[k]
           /\ frames'[Depth + 1] = [fn |-> stack[Top].fn, at |-> s, target |-> t,
                                    local |-> stack[Top].local, regs |-> regs]
           /\ cursor' = cursor /\ resuming' = resuming /\ ~ resuming
           /\ cursor' \in 0 .. Len(frames') /\ Len(frames') <= MaxFrames
<1>. USE ContinuationAssumption
<1>1. TypeOK /\ Chained(frames) /\ AtBody
  BY DEF ContInv, AtHost
<1>2. Top \in Nat /\ Depth \in Nat /\ Top = Depth + 1 /\ stack[Top] \in Activation
  BY <1>1, Elements DEF AtBody
<1>. DEFINE f == [fn |-> stack[Top].fn, at |-> s, target |-> t,
                  local |-> stack[Top].local, regs |-> regs]
<1>3. f \in Frame /\ f.fn = stack[Top].fn
  BY <1>1, <1>2 DEF TypeOK, Frame, Activation
<1>4. frames' = Append(frames, f) /\ Depth < MaxFrames
      /\ cursor' = cursor /\ resuming' = resuming
  BY DEF Push
<1>. HIDE DEF f
<1>5. /\ Chained(frames') /\ Len(frames') = Len(frames) + 1
      /\ frames'[Len(frames) + 1] = f
      /\ \A k \in 1 .. Len(frames) : frames'[k] = frames[k]
  <2>1. Len(frames) < MaxFrames
    BY <1>4 DEF Depth
  <2>2. f.fn = CalledFrom(frames, Len(frames))
    BY <1>1, <1>3 DEF AtBody, Depth
  <2>3. Len(frames) # 0 => Kind[frames[Len(frames)].at] = "call"
    BY <1>1 DEF AtBody, Depth
  <2>. QED
    BY <1>1, <1>3, <1>4, <2>1, <2>2, <2>3, ChainedAppend
<1>6. cursor' \in 0 .. Len(frames') /\ Len(frames') <= MaxFrames
  <2>1. cursor \in 0 .. Depth /\ Len(frames') = Depth + 1
    BY <1>1, <1>5 DEF TypeOK, Depth
  <2>. QED
    BY <1>2, <1>4, <2>1
<1>. QED
  BY <1>1, <1>2, <1>4, <1>5, <1>6 DEF f, Depth, Top, AtBody, Chained

(* The activation on top, once its site is recorded, is the one of the     *)
(* frame pushed.                                                           *)
LEMMA MarkedMatches ==
    ASSUME ContInv, host = "body", NEW s \in Site, NEW t \in Func \union {None}, Push(s, t),
           stack' = [stack EXCEPT ![Top].at = s, ![Top].frame = Depth]
    PROVE  /\ stack' \in Seq(Activation) /\ Top' = Top
           /\ stack'[Top] = [stack[Top] EXCEPT !.at = s, !.frame = Depth]
           /\ Matched'
<1>. USE ContinuationAssumption
<1>1. TypeOK /\ Matched
  BY DEF ContInv
<1>2. /\ Top \in Nat /\ Depth \in Nat /\ Top = Depth + 1 /\ stack[Top] \in Activation
      /\ Depth < MaxFrames /\ Depth' = Depth + 1
      /\ \A k \in 1 .. Depth : frames'[k] = frames[k]
      /\ frames'[Depth + 1] = [fn |-> stack[Top].fn, at |-> s, target |-> t,
                               local |-> stack[Top].local, regs |-> regs]
  BY PushGives
<1>. DEFINE a == [stack[Top] EXCEPT !.at = s, !.frame = Depth]
<1>3. /\ a \in Activation /\ a.at = s /\ a.frame = Depth
      /\ a.fn = stack[Top].fn /\ a.local = stack[Top].local
  <2>1. Depth \in 0 .. MaxFrames
    BY <1>2
  <2>. QED
    BY <1>2, <2>1 DEF Activation
<1>4. /\ stack' \in Seq(Activation) /\ Top' = Top /\ stack'[Top] = a
      /\ \A k \in 1 .. Depth : stack'[k] = stack[k]
  <2>1. stack \in Seq(Activation) /\ Top \in 1 .. Len(stack)
    BY <1>1, <1>2 DEF TypeOK, Top
  <2>2. stack' = [stack EXCEPT ![Top] = a]
    BY <1>2
  <2>3. \A k \in 1 .. Depth : k \in 1 .. Len(stack) /\ k # Top
    BY <1>2 DEF Top
  <2>. QED
    BY <1>2, <1>3, <2>1, <2>2, <2>3, ExceptSeq DEF Top
<1>5. Matched'
  <2>. SUFFICES ASSUME NEW k \in 1 .. Depth + 1
                PROVE  Mirrors(stack'[k], frames'[k], k)
    BY <1>2, <1>4 DEF Matched, Mirrors
  <2>1. CASE k = Depth + 1
    <3>1. stack'[k] = a /\ a.frame = k - 1
      BY <1>2, <1>3, <1>4, <2>1
    <3>2. /\ frames'[k].fn = stack[Top].fn /\ frames'[k].at = s
          /\ frames'[k].local = stack[Top].local
      BY <1>2, <2>1
    <3>. QED
      BY <1>3, <3>1, <3>2 DEF Mirrors
  <2>2. CASE k \in 1 .. Depth
    <3>1. Mirrors(stack[k], frames[k], k)
      BY <1>1, <1>2, <2>2 DEF Matched
    <3>2. stack'[k] = stack[k] /\ frames'[k] = frames[k]
      BY <1>2, <1>4, <2>2
    <3>. QED
      BY <3>1, <3>2
  <2>. QED
    BY <1>2, <2>1, <2>2
<1>. QED
  BY <1>4, <1>5

(* A function is called: its caller's frame is the innermost one.          *)
LEMMA CallKeeps ==
    ASSUME ContInv, NEW s \in Site, NEW g \in Func, Call(s, g)
    PROVE  ContInv'
<1>. USE ContinuationAssumption
<1>. DEFINE t == IF Indirect(s) THEN g ELSE None
<1>1. TypeOK /\ Chained(image.frames) /\ GaveUp(image.frames)
  BY DEF ContInv
<1>2. /\ host = "body" /\ Kind[s] = "call" /\ g \in Callees[s] /\ Push(s, t)
      /\ stack' = [stack EXCEPT ![Top].at = s, ![Top].frame = Depth]
      /\ host' = "enter" /\ target' = g
      /\ UNCHANGED <<regs, run, image>>
  BY DEF Call
<1>3. t \in Func \union {None}
  OBVIOUS
<1>. HIDE DEF t
<1>4. /\ Depth \in Nat /\ Top = Depth + 1 /\ Depth' = Depth + 1
      /\ frames' \in Seq(Frame) /\ Chained(frames')
      /\ frames'[Depth + 1] = [fn |-> stack[Top].fn, at |-> s, target |-> t,
                               local |-> stack[Top].local, regs |-> regs]
      /\ cursor' = cursor /\ resuming' = resuming /\ ~ resuming
      /\ cursor' \in 0 .. Len(frames') /\ Len(frames') <= MaxFrames
  BY <1>2, <1>3, PushGives
<1>5. stack' \in Seq(Activation) /\ Top' = Top /\ Matched'
  BY <1>2, <1>3, MarkedMatches
<1>6. TypeOK'
  BY <1>1, <1>2, <1>4, <1>5 DEF TypeOK
<1>7. target' = CalledFrom(frames', Top')
  <2>1. Top' # 0 /\ frames'[Top'].at = s /\ frames'[Top'].target = t
    BY <1>4, <1>5
  <2>2. Called(frames'[Top']) = g
    <3>1. CASE Indirect(s)
      BY <2>1, <3>1 DEF Called, t
    <3>2. CASE ~ Indirect(s)
      <4>1. (CHOOSE h \in Callees[s] : TRUE) \in Callees[s]
        BY <1>2
      <4>2. \A h \in Callees[s] : h = g
        BY <1>2, <3>2 DEF Indirect
      <4>. QED
        BY <2>1, <3>2, <4>1, <4>2 DEF Called
    <3>. QED
      BY <3>1, <3>2
  <2>. QED
    BY <1>2, <2>1, <2>2 DEF CalledFrom
<1>8. AtEnter'
  <2>1. target' \in Func /\ Top' <= Depth' /\ (resuming' <=> Top' < Depth') /\ Climbing'
    BY <1>2, <1>4, <1>5 DEF Climbing
  <2>2. Kind[frames'[Top'].at] = "call"
    BY <1>2, <1>4, <1>5
  <2>. QED
    BY <1>7, <2>1, <2>2 DEF AtEnter
<1>9. AtHost'
  BY <1>2, <1>8 DEF AtHost
<1>. QED
  BY <1>1, <1>2, <1>4, <1>5, <1>6, <1>9 DEF ContInv

(* A poll without a preemption is at once over.                            *)
LEMMA PollKeeps ==
    ASSUME ContInv, NEW s \in Site, Poll(s)
    PROVE  ContInv'
<1>1. TypeOK /\ Chained(image.frames) /\ GaveUp(image.frames)
  BY DEF ContInv
<1>2. /\ host = "body" /\ Push(s, None)
      /\ stack' = [stack EXCEPT ![Top].at = s, ![Top].frame = Depth]
      /\ host' = "back"
      /\ UNCHANGED <<target, regs, run, image>>
  BY DEF Poll
<1>3. /\ Depth \in Nat /\ Top = Depth + 1 /\ Depth' = Depth + 1
      /\ frames' \in Seq(Frame) /\ Chained(frames')
      /\ cursor' = cursor /\ resuming' = resuming /\ ~ resuming
      /\ cursor' \in 0 .. Len(frames') /\ Len(frames') <= MaxFrames
  BY <1>2, PushGives
<1>4. stack' \in Seq(Activation) /\ Top' = Top /\ Matched'
  BY <1>2, MarkedMatches
<1>5. TypeOK'
  BY <1>1, <1>2, <1>3, <1>4 DEF TypeOK
<1>6. AtHost'
  BY <1>2, <1>3, <1>4 DEF AtHost, AtBack
<1>. QED
  BY <1>1, <1>2, <1>3, <1>4, <1>5, <1>6 DEF ContInv

(* A preemption, a dispatch or a pause gives the stack up: the innermost   *)
(* frame is its site's.                                                    *)
LEMMA YieldKeeps ==
    ASSUME ContInv, NEW s \in Site, Yield(s)
    PROVE  ContInv'
<1>1. TypeOK /\ Chained(image.frames) /\ GaveUp(image.frames)
  BY DEF ContInv
<1>2. /\ host = "body" /\ Kind[s] # "call" /\ Push(s, None)
      /\ stack' = <<>> /\ target' = None /\ host' = "out" /\ run' = "WAITING"
      /\ UNCHANGED <<regs, image>>
  BY DEF Yield, GiveUp
<1>3. /\ Depth \in Nat /\ Depth' = Depth + 1
      /\ frames' \in Seq(Frame) /\ Chained(frames')
      /\ frames'[Depth + 1] = [fn |-> stack[Top].fn, at |-> s, target |-> None,
                               local |-> stack[Top].local, regs |-> regs]
      /\ cursor' = cursor /\ resuming' = resuming /\ ~ resuming
      /\ cursor' \in 0 .. Len(frames') /\ Len(frames') <= MaxFrames
  BY <1>2, PushGives
<1>4. stack' \in Seq(Activation) /\ Len(stack') = 0
  BY <1>2, EmptySeq
<1>5. TypeOK'
  BY <1>1, <1>2, <1>3, <1>4 DEF TypeOK, RunState
<1>6. Matched'
  BY <1>4 DEF Matched, Top
<1>7. AtOut'
  <2>1. Kind[frames'[Len(frames')].at] # "call"
    BY <1>2, <1>3 DEF Depth
  <2>. QED
    BY <1>2, <1>3, <2>1 DEF AtOut, GaveUp
<1>8. AtHost'
  BY <1>2, <1>7 DEF AtHost
<1>. QED
  BY <1>1, <1>2, <1>3, <1>5, <1>6, <1>8 DEF ContInv

(* The site's frame is popped, always: none stays above it.                *)
LEMMA BackPops ==
    ASSUME ContInv, Back
    PROVE  /\ Top \in Nat \ {0} /\ Top = Depth /\ ~ resuming
           /\ stack[Top] \in Activation
           /\ Mirrors(stack[Top], frames[Top], Top)
           /\ frames' = Front(frames) /\ ~ resuming' /\ resuming' \in BOOLEAN
           /\ cursor' = IF cursor > Depth - 1 THEN Depth - 1 ELSE cursor
           /\ stack' = [stack EXCEPT ![Top].at = None]
           /\ host' = "body" /\ UNCHANGED <<target, run, regs, image>>
<1>1. TypeOK /\ Matched /\ AtBack
  BY DEF ContInv, AtHost, Back
<1>2. Top \in Nat \ {0} /\ Top = Depth /\ ~ resuming /\ stack[Top] \in Activation
  BY <1>1, Elements DEF AtBack
<1>3. Mirrors(stack[Top], frames[Top], Top)
  BY <1>1, <1>2 DEF Matched
<1>4. stack[Top].frame + 1 = Depth
  BY <1>2, <1>3 DEF Mirrors
<1>5. /\ Pop /\ stack' = [stack EXCEPT ![Top].at = None]
      /\ host' = "body" /\ UNCHANGED <<target, run, regs, image>>
  BY <1>4 DEF Back
<1>. QED
  BY <1>2, <1>3, <1>5 DEF Pop

(* The function on top goes on after the site.                             *)
LEMMA BackKeeps == ContInv /\ Back => ContInv'
<1>. USE ContinuationAssumption
<1>. SUFFICES ASSUME ContInv, Back PROVE ContInv'
  OBVIOUS
<1>1. TypeOK /\ Chained(frames) /\ Chained(image.frames) /\ GaveUp(image.frames) /\ Matched
  BY DEF ContInv
<1>2. /\ Top \in Nat \ {0} /\ Top = Depth
      /\ stack[Top] \in Activation /\ Mirrors(stack[Top], frames[Top], Top)
      /\ frames' = Front(frames) /\ ~ resuming' /\ resuming' \in BOOLEAN
      /\ cursor' = IF cursor > Depth - 1 THEN Depth - 1 ELSE cursor
      /\ stack' = [stack EXCEPT ![Top].at = None]
      /\ host' = "body" /\ UNCHANGED <<target, run, regs, image>>
  BY BackPops
<1>3. frames # <<>> /\ frames \in Seq(Frame) /\ stack \in Seq(Activation)
  BY <1>1, <1>2, Elements DEF TypeOK
<1>4. /\ frames' \in Seq(Frame) /\ Depth' = Depth - 1
      /\ \A k \in 1 .. Depth - 1 : frames'[k] = frames[k]
  BY <1>2, <1>3, FrontIs DEF Depth
<1>5. /\ Chained(frames')
      /\ CalledFrom(frames', Depth - 1) = frames[Depth].fn
      /\ Depth - 1 # 0 => Kind[frames'[Depth - 1].at] = "call"
  BY <1>1, <1>2, <1>3, ChainedFront DEF Depth
<1>. DEFINE a == [stack[Top] EXCEPT !.at = None]
<1>6. a \in Activation /\ a.at = None /\ a.fn = stack[Top].fn
  BY <1>2 DEF Activation
<1>7. /\ stack' \in Seq(Activation) /\ Top' = Top /\ stack'[Top] = a
      /\ \A k \in 1 .. Depth - 1 : stack'[k] = stack[k]
  <2>1. stack' = [stack EXCEPT ![Top] = a]
    BY <1>2
  <2>2. Top \in 1 .. Len(stack)
    BY <1>2 DEF Top
  <2>3. \A k \in 1 .. Depth - 1 : k \in 1 .. Len(stack) /\ k # Top
    BY <1>2 DEF Top
  <2>4. /\ stack' \in Seq(Activation) /\ Len(stack') = Len(stack)
        /\ \A j \in 1 .. Len(stack) : stack'[j] = IF j = Top THEN a ELSE stack[j]
    BY <1>3, <1>6, <2>1, <2>2, ExceptSeq
  <2>. QED
    BY <2>2, <2>3, <2>4 DEF Top
<1>8. TypeOK'
  <2>1. cursor' \in 0 .. Depth - 1
    <3>1. cursor \in 0 .. Depth /\ Depth \in Nat \ {0}
      BY <1>1, <1>2 DEF TypeOK, Depth
    <3>2. cursor > Depth - 1 => cursor' = Depth - 1
      BY <1>2
    <3>3. ~ (cursor > Depth - 1) => cursor' = cursor
      BY <1>2
    <3>. QED
      BY <3>1, <3>2, <3>3
  <2>2. Depth <= MaxFrames
    BY <1>1 DEF TypeOK, Depth
  <2>3. cursor' \in 0 .. Len(frames') /\ Len(frames') <= MaxFrames
    BY <1>2, <1>4, <2>1, <2>2 DEF Depth
  <2>. QED
    BY <1>1, <1>2, <1>4, <1>7, <2>3 DEF TypeOK
<1>9. Matched'
  <2>. SUFFICES ASSUME NEW k \in 1 .. Depth - 1
                PROVE  Mirrors(stack'[k], frames'[k], k)
    BY <1>2, <1>4, <1>7 DEF Matched, Mirrors
  <2>1. Mirrors(stack[k], frames[k], k)
    BY <1>1, <1>2 DEF Matched
  <2>2. stack'[k] = stack[k] /\ frames'[k] = frames[k]
    BY <1>4, <1>7
  <2>. QED
    BY <2>1, <2>2
<1>10. AtBody'
  <2>1. stack'[Top'].fn = CalledFrom(frames', Depth')
    BY <1>2, <1>4, <1>5, <1>6, <1>7 DEF Mirrors
  <2>2. stack'[Top'].at = None /\ Top' = Depth' + 1
    BY <1>2, <1>4, <1>6, <1>7
  <2>3. Depth' # 0 => Kind[frames'[Depth'].at] = "call"
    BY <1>4, <1>5
  <2>. QED
    BY <1>2, <2>1, <2>2, <2>3 DEF AtBody
<1>11. AtHost'
  BY <1>2, <1>10 DEF AtHost
<1>. QED
  BY <1>1, <1>2, <1>5, <1>8, <1>9, <1>11 DEF ContInv

(* A savestate takes the frames of a thread outside a dispatch.            *)
LEMMA CaptureKeeps == ContInv /\ Capture => ContInv'
<1>. SUFFICES ASSUME ContInv, Capture PROVE ContInv'
  OBVIOUS
<1>1. TypeOK /\ Chained(frames) /\ Matched /\ AtOut
  BY DEF ContInv, AtHost, Capture
<1>2. /\ UNCHANGED <<frames, cursor, resuming, stack, host, target, regs, run, Top, Depth>>
      /\ host = "out" /\ image' = [frames |-> frames, regs |-> regs, run |-> run]
  BY DEF Capture, contVars, hostVars, Top, Depth
<1>3. image'.frames = frames /\ GaveUp(frames)
  BY <1>1, <1>2 DEF AtOut
<1>4. TypeOK'
  BY <1>1, <1>2 DEF TypeOK
<1>5. Matched' /\ AtHost'
  BY <1>1, <1>2 DEF Matched, AtHost, AtOut
<1>. QED
  BY <1>1, <1>2, <1>3, <1>4, <1>5 DEF ContInv

(* A load gives the thread the frames of the savestate.                    *)
LEMMA RestoreKeeps == ContInv /\ Restore => ContInv'
<1>. SUFFICES ASSUME ContInv, Restore PROVE ContInv'
  OBVIOUS
<1>1. TypeOK /\ Chained(image.frames) /\ GaveUp(image.frames) /\ AtOut
  BY DEF ContInv, AtHost, Restore
<1>2. /\ UNCHANGED <<stack, host, target, image>> /\ host = "out"
      /\ frames' = image.frames /\ regs' = image.regs /\ run' = image.run
      /\ cursor' = 0 /\ resuming' = (image.frames # <<>>)
  BY DEF Restore, hostVars
<1>3. frames' \in Seq(Frame) /\ Len(frames') <= MaxFrames /\ Len(frames') \in Nat
      /\ (frames' = <<>> <=> Len(frames') = 0)
  BY <1>1, <1>2, EmptyIsZero, LenProperties DEF Chained
<1>4. stack = <<>> /\ Top' = 0
  BY <1>1, <1>2, Elements DEF AtOut, Top
<1>5. TypeOK'
  <2>1. regs' \in Data /\ run' \in RunState /\ resuming' \in BOOLEAN
    BY <1>1, <1>2 DEF TypeOK
  <2>. QED
    BY <1>1, <1>2, <1>3, <2>1 DEF TypeOK
<1>6. Matched'
  BY <1>4 DEF Matched
<1>7. AtOut'
  <2>1. resuming' <=> image.frames # <<>>
    BY <1>2
  <2>. QED
    BY <1>1, <1>2, <1>3, <1>4, <2>1 DEF AtOut, Depth
<1>8. AtHost'
  BY <1>2, <1>7 DEF AtHost
<1>. QED
  BY <1>1, <1>2, <1>5, <1>6, <1>8 DEF ContInv

(* Every step keeps the invariant.                                         *)
LEMMA NextCont == ContInv /\ [Next]_vars => ContInv'
<1>. SUFFICES ASSUME ContInv, [Next]_vars PROVE ContInv'
  OBVIOUS
<1>1. CASE UNCHANGED vars
  <2>1. UNCHANGED <<frames, cursor, resuming, stack, host, target, regs, run, image, Top, Depth>>
    BY <1>1 DEF vars, contVars, hostVars, Top, Depth
  <2>. QED
    BY <2>1 DEF ContInv, TypeOK, Matched, Mirrors, AtHost, AtOut, AtEnter, AtResume, AtBody,
                AtBack, Climbing
<1>2. CASE Dispatch
  BY <1>2, DispatchKeeps
<1>3. CASE Rebuild
  BY <1>3, EnterFreshKeeps, EnterAgainKeeps, ResumeCallKeeps, ResumeYieldKeeps, BackKeeps
     DEF Rebuild
<1>4. CASE ResumePause
  BY <1>4, ResumePauseKeeps
<1>5. CASE Work
  BY <1>5, WorkKeeps
<1>6. CASE Return
  BY <1>6, LeaveKeeps DEF Return
<1>7. ASSUME NEW s \in Site, \/ \E g \in Func : Call(s, g)
                             \/ Poll(s) \/ Yield(s) \/ Overflow(s)
      PROVE  ContInv'
  <2>1. CASE Overflow(s)
    BY <2>1, LeaveKeeps DEF Overflow
  <2>. QED
    BY <1>7, <2>1, CallKeeps, PollKeeps, YieldKeeps
<1>8. CASE Capture
  BY <1>8, CaptureKeeps
<1>9. CASE Restore
  BY <1>9, RestoreKeeps
<1>. QED
  BY <1>1, <1>2, <1>3, <1>4, <1>5, <1>6, <1>7, <1>8, <1>9 DEF Next, Body

(* The invariant holds in every state.                                     *)
LEMMA ContInvariant == Spec => []ContInv
<1>1. Init => ContInv
  BY InitCont
<1>2. ContInv /\ [Next]_vars => ContInv'
  BY NextCont
<1>. QED
  BY <1>1, <1>2, PTL DEF Spec

(* The invariant says of each place of the host what the property does.    *)
LEMMA ContInvMirrors == ContInv => FramesMirrorStack
<1>. SUFFICES ASSUME ContInv PROVE FramesMirrorStack
  OBVIOUS
<1>1. TypeOK /\ Chained(frames) /\ Matched /\ AtHost
  BY DEF ContInv
<1>2. /\ Top \in Nat /\ Depth \in Nat /\ (stack = <<>> <=> Top = 0)
      /\ frames = <<>> <=> Depth = 0
  BY <1>1, Elements
<1>3. cursor \in 0 .. Depth
  BY <1>1 DEF TypeOK, Depth
<1>4. host \in {"enter", "back"} /\ ~ Rebuilding => Top = Depth
  <2>1. CASE host = "back"
    BY <1>1, <2>1 DEF AtHost, AtBack
  <2>2. ASSUME host = "enter", ~ (resuming /\ cursor < Depth)
        PROVE  Top = Depth
    <3>1. Top <= Depth /\ (resuming <=> Top < Depth) /\ (resuming => Top = cursor)
      BY <1>1, <2>2 DEF AtHost, AtEnter, Climbing
    <3>. QED
      BY <1>2, <1>3, <2>2, <3>1
  <2>. QED
    BY <2>1, <2>2 DEF Rebuilding
<1>5. host \in {"enter", "resume"} /\ resuming => Top = cursor
  BY <1>1 DEF AtHost, AtEnter, AtResume, Climbing
<1>6. host = "body" => Top = Depth + 1 /\ stack[Top].at = None
  BY <1>1 DEF AtHost, AtBody
<1>7. host = "out" => stack = <<>>
  BY <1>1 DEF AtHost, AtOut
<1>8. \A k \in 1 .. Top : k <= Depth => Mirrors(stack[k], frames[k], k)
  BY <1>1 DEF Matched
<1>9. host # "out" /\ ~ resuming => cursor <= Depth
  BY <1>2, <1>3
<1>10. host \in {"out", "resume"} /\ frames # <<>> => Kind[frames[Depth].at] # "call"
  BY <1>1 DEF AtHost, AtOut, AtResume, GaveUp, Depth
<1>. QED
  BY <1>1, <1>4, <1>5, <1>6, <1>7, <1>8, <1>9, <1>10 DEF FramesMirrorStack

(* For any functions, sites and depth: while recompiled functions execute, *)
(* the frames of wpj2_cont_push are the host's stack without the function  *)
(* on top; while wpj2_cont_enter_ex rebuilds them, the stack is the part   *)
(* of the frames already entered; and a thread that gave up the CPU, or    *)
(* was loaded, stands at a poll, a dispatch or a pause, never in a call.   *)
THEOREM FramesMirrorStackAlways == Spec => []FramesMirrorStack
<1>1. Spec => []ContInv
  BY ContInvariant
<1>2. ContInv => FramesMirrorStack
  BY ContInvMirrors
<1>. QED
  BY <1>1, <1>2, PTL

(* A function entered while frames are left is the function of the next    *)
(* frame: wpj2_cont_enter_ex never finds another one, so no load and no    *)
(* dispatch faults the thread over its frames.                             *)
THEOREM NextFrameIsTaken == Spec => [](host = "enter" /\ Rebuilding =>
                                            frames[cursor + 1].fn = target)
<1>1. ContInv => (host = "enter" /\ Rebuilding => frames[cursor + 1].fn = target)
  BY FrameIsTaken
<1>. QED
  BY <1>1, ContInvariant, PTL

(* No thread and no savestate of one is FAULTED: the dispatch ends with no *)
(* frame left, and no function refuses a frame.                            *)
NeverFaulted == run # "FAULTED" /\ image.run # "FAULTED"

(* For any functions, sites and depth, and whatever savestates are loaded: *)
(* wpj2_stateful_thread_dispatch never finds frames left over after the    *)
(* root returned, which is where it faults the thread.                     *)
THEOREM NoThreadFaults == Spec => []NeverFaulted
<1>1. Init => NeverFaulted
  BY DEF Init, NeverFaulted
<1>2. ContInv /\ NeverFaulted /\ [Next]_vars => NeverFaulted'
  <2>. SUFFICES ASSUME ContInv, NeverFaulted, [Next]_vars PROVE NeverFaulted'
    OBVIOUS
  <2>1. CASE UNCHANGED vars
    BY <2>1 DEF NeverFaulted, vars
  <2>2. CASE Dispatch \/ ResumePause \/ Capture \/ Restore
    BY <2>2 DEF NeverFaulted, Dispatch, ResumePause, Capture, Restore, GiveUp
  <2>3. CASE Rebuild
    <3>1. CASE EnterAgain
      <4>1. Take(frames[cursor + 1])
        BY <3>1, FrameIsTaken DEF EnterAgain
      <4>. QED
        BY <3>1, <4>1 DEF EnterAgain, Take, NeverFaulted
    <3>2. CASE Back
      BY <3>2, BackPops DEF NeverFaulted
    <3>. QED
      BY <2>3, <3>1, <3>2
         DEF Rebuild, EnterFresh, ResumeCall, ResumeYield, NeverFaulted
  <2>4. ASSUME host = "body", Leave, image' = image
        PROVE  NeverFaulted'
    <3>1. TypeOK /\ Top = Depth + 1
      BY <2>4 DEF ContInv, AtHost, AtBody
    <3>2. Depth \in Nat /\ (frames = <<>> <=> Depth = 0)
      BY <3>1, Elements
    <3>3. run' = run \/ run' = "FINISHED"
      BY <2>4, <3>1, <3>2 DEF Leave
    <3>. QED
      BY <2>4, <3>3 DEF NeverFaulted
  <2>5. CASE Body
    <3>1. CASE Work
      BY <3>1 DEF Work, NeverFaulted
    <3>2. CASE Return
      BY <2>4, <3>2 DEF Return
    <3>3. ASSUME NEW s \in Site, \/ \E g \in Func : Call(s, g)
                                 \/ Poll(s) \/ Yield(s) \/ Overflow(s)
          PROVE  NeverFaulted'
      <4>1. CASE Overflow(s)
        BY <2>4, <4>1 DEF Overflow
      <4>. QED
        BY <3>3, <4>1 DEF Call, Poll, Yield, GiveUp, NeverFaulted
    <3>. QED
      BY <2>5, <3>1, <3>2, <3>3 DEF Body
  <2>. QED
    BY <2>1, <2>2, <2>3, <2>5 DEF Next
<1>. QED
  BY <1>1, <1>2, ContInvariant, PTL DEF Spec

-----------------------------------------------------------------------------
(* The calls that frames and activations stand for.                        *)

CallRecord == [fn : Func, at : Site \union {None}, local : Data]

CallOf(f) == [fn |-> f.fn, at |-> f.at, local |-> f.local]

(* One call for each frame or activation.                                  *)
LEMMA CallsOfIs ==
    ASSUME NEW S, NEW fs \in Seq(S), \A k \in 1 .. Len(fs) : CallOf(fs[k]) \in CallRecord
    PROVE  /\ CallsOf(fs) \in Seq(CallRecord)
           /\ Len(CallsOf(fs)) = Len(fs)
           /\ \A k \in 1 .. Len(fs) : CallsOf(fs)[k] = CallOf(fs[k])
<1>. DEFINE n == Len(fs)
            cs == [k \in 1 .. n |-> CallOf(fs[k])]
<1>1. n \in Nat
  BY LenProperties
<1>2. CallsOf(fs) = cs
  BY DEF CallsOf, CallOf
<1>. HIDE DEF n
<1>3. cs \in [1 .. n -> CallRecord]
  BY DEF n
<1>4. cs \in Seq(CallRecord)
  BY <1>1, <1>3, SeqDef
<1>5. Len(cs) = n
  <2>1. DOMAIN cs = 1 .. n /\ DOMAIN cs = 1 .. Len(cs) /\ Len(cs) \in Nat
    BY <1>4, LenProperties
  <2>. HIDE DEF cs
  <2>. QED
    BY <1>1, <2>1
<1>. QED
  BY <1>2, <1>4, <1>5 DEF n

(* The frames and the stack of a thread.                                   *)
LEMMA CallsTyped ==
    ASSUME TypeOK
    PROVE  /\ CallsOf(frames) \in Seq(CallRecord) /\ Len(CallsOf(frames)) = Depth
           /\ \A k \in 1 .. Depth : CallsOf(frames)[k] = CallOf(frames[k])
           /\ CallsOf(stack) \in Seq(CallRecord) /\ Len(CallsOf(stack)) = Top
           /\ \A k \in 1 .. Top : CallsOf(stack)[k] = CallOf(stack[k])
<1>1. frames \in Seq(Frame) /\ stack \in Seq(Activation)
  BY DEF TypeOK
<1>2. \A k \in 1 .. Depth : CallOf(frames[k]) \in CallRecord
  BY Elements DEF Frame, CallRecord, CallOf
<1>3. \A k \in 1 .. Top : CallOf(stack[k]) \in CallRecord
  BY Elements DEF Activation, CallRecord, CallOf
<1>4. /\ CallsOf(frames) \in Seq(CallRecord) /\ Len(CallsOf(frames)) = Depth
      /\ \A k \in 1 .. Depth : CallsOf(frames)[k] = CallOf(frames[k])
  BY <1>1, <1>2, CallsOfIs DEF Depth
<1>5. /\ CallsOf(stack) \in Seq(CallRecord) /\ Len(CallsOf(stack)) = Top
      /\ \A k \in 1 .. Top : CallsOf(stack)[k] = CallOf(stack[k])
  BY <1>1, <1>3, CallsOfIs DEF Top
<1>. QED
  BY <1>4, <1>5

(* Where the function on top has just reached site s, or left it.          *)
LEMMA TopMoved ==
    ASSUME NEW cs \in Seq(CallRecord), NEW ds \in Seq(CallRecord), cs # <<>>,
           NEW s \in Site \union {None},
           Len(ds) = Len(cs), ds[Len(cs)] = [cs[Len(cs)] EXCEPT !.at = s],
           \A k \in 1 .. Len(cs) - 1 : ds[k] = cs[k]
    PROVE  ds = [cs EXCEPT ![Len(cs)].at = s]
<1>. DEFINE n == Len(cs)
            c == [cs[n] EXCEPT !.at = s]
            es == [cs EXCEPT ![n] = c]
<1>1. n \in Nat \ {0}
  BY EmptySeq
<1>2. cs[n] \in CallRecord
  BY <1>1, ElementOfSeq
<1>3. c \in CallRecord
  BY <1>2 DEF CallRecord
<1>4. /\ es \in Seq(CallRecord) /\ Len(es) = n
      /\ \A k \in 1 .. n : es[k] = IF k = n THEN c ELSE cs[k]
  BY <1>1, <1>3, ExceptSeq
<1>. HIDE DEF n, c, es
<1>5. \A k \in 1 .. n : ds[k] = es[k]
  <2>. TAKE k \in 1 .. n
  <2>1. CASE k = n
    BY <1>1, <1>4, <2>1 DEF n, c
  <2>2. CASE k # n
    BY <1>1, <1>4, <2>2 DEF n
  <2>. QED
    BY <2>1, <2>2
<1>6. ds = es
  <2>1. Len(ds) = Len(es) /\ Len(ds) = n
    BY <1>4 DEF n
  <2>. QED
    BY <1>4, <1>5, <2>1, SeqEqual
<1>. QED
  BY <1>6 DEF n, c, es

(* One more activation, one more call.                                     *)
LEMMA CallsOfPush ==
    ASSUME TypeOK, NEW a \in Activation
    PROVE  CallsOf(Append(stack, a)) = Append(CallsOf(stack), CallOf(a))
<1>. DEFINE st == Append(stack, a)
            cs == CallsOf(stack)
            ds == Append(cs, CallOf(a))
            n == Top
<1>1. /\ st \in Seq(Activation) /\ Len(st) = n + 1 /\ st[n + 1] = a
      /\ \A k \in 1 .. n : st[k] = stack[k]
      /\ n \in Nat
  BY AppendProperties, Elements DEF TypeOK, Top
<1>2. cs \in Seq(CallRecord) /\ Len(cs) = n /\ \A k \in 1 .. n : cs[k] = CallOf(stack[k])
  BY CallsTyped
<1>3. CallOf(a) \in CallRecord
  BY DEF CallOf, CallRecord, Activation
<1>. HIDE DEF cs
<1>4. /\ ds \in Seq(CallRecord) /\ Len(ds) = n + 1 /\ ds[n + 1] = CallOf(a)
      /\ \A k \in 1 .. n : ds[k] = cs[k]
  BY <1>2, <1>3, AppendProperties
<1>. HIDE DEF st, ds, n
<1>5. \A k \in 1 .. n + 1 : CallOf(st[k]) \in CallRecord /\ ds[k] = CallOf(st[k])
  <2>. TAKE k \in 1 .. n + 1
  <2>1. CASE k = n + 1
    BY <1>1, <1>3, <1>4, <2>1
  <2>2. CASE k \in 1 .. n
    <3>1. st[k] = stack[k] /\ ds[k] = CallOf(stack[k])
      BY <1>1, <1>2, <1>4, <2>2
    <3>2. ds[k] \in CallRecord
      <4>1. k \in 1 .. Len(ds)
        BY <1>1, <1>4, <2>2
      <4>. QED
        BY <1>4, <4>1, ElementOfSeq
    <3>. QED
      BY <3>1, <3>2
  <2>. QED
    BY <1>1, <2>1, <2>2
<1>6. /\ CallsOf(st) \in Seq(CallRecord) /\ Len(CallsOf(st)) = n + 1
      /\ \A k \in 1 .. n + 1 : CallsOf(st)[k] = CallOf(st[k])
  BY <1>1, <1>5, CallsOfIs
<1>7. CallsOf(st) = ds
  BY <1>4, <1>5, <1>6, SeqEqual
<1>. QED
  BY <1>7 DEF st, ds, cs

(* The function on top reaches a site, or leaves it.                       *)
LEMMA CallsOfMoved ==
    ASSUME TypeOK, Top # 0, NEW s \in Site \union {None}, NEW st \in Seq(Activation),
           Len(st) = Top, st[Top].fn = stack[Top].fn, st[Top].at = s,
           st[Top].local = stack[Top].local,
           \A k \in 1 .. Top - 1 : st[k] = stack[k]
    PROVE  CallsOf(st) = [CallsOf(stack) EXCEPT ![Top].at = s]
<1>. DEFINE n == Top
            cs == CallsOf(stack)
            ds == CallsOf(st)
<1>1. /\ n \in Nat \ {0} /\ cs \in Seq(CallRecord) /\ Len(cs) = n
      /\ \A k \in 1 .. n : cs[k] = CallOf(stack[k])
  BY CallsTyped, Elements
<1>. HIDE DEF n, cs, ds
<1>2. Len(st) = n
  BY DEF n
<1>3. \A k \in 1 .. n : CallOf(st[k]) \in CallRecord
  <2>1. \A k \in 1 .. n : st[k] \in Activation
    BY <1>2, ElementOfSeq
  <2>. QED
    BY <2>1 DEF CallOf, CallRecord, Activation
<1>4. /\ ds \in Seq(CallRecord) /\ Len(ds) = n
      /\ \A k \in 1 .. n : ds[k] = CallOf(st[k])
  BY <1>2, <1>3, CallsOfIs DEF ds
<1>5. ds[n] = [cs[n] EXCEPT !.at = s]
  <2>1. cs[n] = CallOf(stack[n]) /\ ds[n] = CallOf(st[n])
    BY <1>1, <1>4
  <2>. QED
    BY <2>1 DEF CallOf, n
<1>6. \A k \in 1 .. n - 1 : ds[k] = cs[k]
  BY <1>1, <1>4 DEF n
<1>7. cs # <<>>
  BY <1>1, EmptySeq
<1>8. ds = [cs EXCEPT ![Len(cs)].at = s]
  <2>1. Len(ds) = Len(cs) /\ ds[Len(cs)] = [cs[Len(cs)] EXCEPT !.at = s]
        /\ \A k \in 1 .. Len(cs) - 1 : ds[k] = cs[k]
    BY <1>1, <1>4, <1>5, <1>6
  <2>. QED
    BY <1>1, <1>4, <1>7, <2>1, TopMoved
<1>. QED
  BY <1>1, <1>8 DEF n, cs, ds

-----------------------------------------------------------------------------
(* Continuation implements GuestCalls: every step is a step of it, or      *)
(* changes nothing that the thread sees.                                   *)

(* A thread inside a dispatch is RUNNING.                                  *)
InDispatch == host # "out" => run = "RUNNING"

LEMMA InDispatchInvariant == Spec => []InDispatch
<1>1. Init => InDispatch
  BY DEF Init, InDispatch
<1>2. InDispatch /\ [Next]_vars => InDispatch'
  <2>. SUFFICES ASSUME InDispatch, [Next]_vars PROVE InDispatch'
    OBVIOUS
  <2>1. CASE UNCHANGED vars
    BY <2>1 DEF InDispatch, vars, hostVars
  <2>2. CASE Dispatch \/ ResumePause \/ Capture \/ Restore
    BY <2>2 DEF InDispatch, Dispatch, ResumePause, Capture, Restore, GiveUp, hostVars
  <2>3. CASE Rebuild
    BY <2>3 DEF InDispatch, Rebuild, EnterFresh, EnterAgain, Take, Refuse, ResumeCall,
                ResumeYield, Back, Leave
  <2>4. CASE Work \/ Return
    BY <2>4 DEF InDispatch, Work, Return, Leave
  <2>5. ASSUME NEW s \in Site, \/ \E g \in Func : Call(s, g)
                               \/ Poll(s) \/ Yield(s) \/ Overflow(s)
        PROVE  InDispatch'
    BY <2>5 DEF InDispatch, Call, Poll, Yield, Overflow, GiveUp, Leave
  <2>. QED
    BY <2>1, <2>2, <2>3, <2>4, <2>5 DEF Next, Body
<1>. QED
  BY <1>1, <1>2, PTL DEF Spec

RInv == ContInv /\ InDispatch

(* At the start: no calls.                                                 *)
LEMMA MapInit == Init => Guest!Start
<1>. SUFFICES ASSUME Init PROVE Guest!Start
  OBVIOUS
<1>1. Suspended /\ frames = <<>> /\ image.frames = <<>> /\ image.regs = regs
      /\ run = "READY" /\ image.run = "READY"
  BY DEF Init, Suspended
<1>2. CallsOf(<<>>) = <<>>
  BY DEF CallsOf
<1>3. Calls = <<>> /\ Registers = regs /\ Status = "suspended"
  BY <1>1, <1>2 DEF Calls, Registers, Status, RegsOf, StatusOf
<1>4. Saved = <<Calls, Registers, Status>>
  BY <1>1, <1>2, <1>3 DEF Saved, RegsOf, StatusOf
<1>. QED
  BY <1>3, <1>4 DEF Guest!Start, Init

(* What the thread sees, at each place of the host.                        *)
LEMMA WhatTheThreadSees ==
    ASSUME RInv
    PROVE  /\ Suspended => /\ Calls = CallsOf(frames) /\ Registers = RegsOf(frames, regs)
                           /\ Status = StatusOf(run)
           /\ host # "out" => StatusOf(run) = "suspended"
           /\ ~ Suspended => Registers = regs /\ Status = "running"
           /\ host = "body" => ~ Suspended /\ Calls = CallsOf(stack)
           /\ host = "back" => ~ Suspended /\ Calls = [CallsOf(stack) EXCEPT ![Top].at = None]
           /\ host = "enter" /\ ~ Suspended =>
                Calls = Append(CallsOf(stack), [fn |-> target, at |-> None, local |-> Zero])
           /\ host \in {"out", "resume"} => Suspended
           /\ host = "enter" => (Suspended <=> Rebuilding)
BY DEF RInv, InDispatch, Suspended, Calls, Registers, Status, StatusOf

(* What does not show.                                                     *)
LEMMA MapQuiet ==
    ASSUME Calls' = Calls, Registers' = Registers, Status' = Status, Saved' = Saved
    PROVE  UNCHANGED Guest!guestVars
BY DEF Guest!guestVars

LEMMA SavedKept == ASSUME image' = image PROVE Saved' = Saved
BY DEF Saved

(* The first dispatch begins the thread; the others rebuild its frames.    *)
LEMMA MapDispatch == ASSUME RInv, Dispatch PROVE [Guest!GuestNext]_(Guest!guestVars)
<1>1. TypeOK /\ AtOut
  BY DEF RInv, ContInv, AtHost, Dispatch
<1>2. /\ Suspended /\ frames' = frames /\ image' = image /\ regs' = regs /\ stack' = <<>>
      /\ host' = "enter" /\ target' = Root /\ Depth' = Depth /\ cursor' = 0
      /\ resuming' <=> frames # <<>>
  BY <1>1 DEF Dispatch, Suspended, AtOut, Depth
<1>3. /\ Calls = CallsOf(frames) /\ Registers = RegsOf(frames, regs)
      /\ Status = "suspended" /\ Saved' = Saved
  BY <1>2, SavedKept DEF Dispatch, Calls, Registers, Status, StatusOf
<1>4. Depth \in Nat /\ (frames = <<>> <=> Depth = 0)
  BY <1>1, Elements
<1>5. CASE frames = <<>>
  <2>1. ~ Suspended' /\ CallsOf(<<>>) = <<>>
    BY <1>2, <1>5 DEF Suspended, Rebuilding, CallsOf
  <2>2. Calls' = Append(<<>>, [fn |-> Root, at |-> None, local |-> Zero])
    BY <1>2, <2>1 DEF Calls
  <2>3. Calls' = <<Guest!Activation(Root, None, Zero)>>
    BY <2>2 DEF Guest!Activation
  <2>4. Registers' = Registers /\ Status' = "running" /\ Calls = <<>>
    BY <1>2, <1>3, <1>5, <2>1 DEF Registers, Status, RegsOf
  <2>5. Guest!GuestBegin
    BY <1>3, <2>3, <2>4 DEF Guest!GuestBegin
  <2>. QED
    BY <2>5 DEF Guest!GuestNext
<1>6. CASE frames # <<>>
  <2>1. Suspended'
    BY <1>2, <1>4, <1>6 DEF Suspended, Rebuilding
  <2>2. Calls' = Calls /\ Registers' = Registers /\ Status' = Status
    BY <1>2, <1>3, <2>1 DEF Dispatch, Calls, Registers, Status, StatusOf
  <2>. QED
    BY <1>3, <2>2, MapQuiet
<1>. QED
  BY <1>5, <1>6

(* The function entered is executed.                                       *)
LEMMA MapEnterFresh == ASSUME RInv, EnterFresh PROVE UNCHANGED Guest!guestVars
<1>1. TypeOK /\ AtEnter
  BY DEF RInv, ContInv, AtHost, EnterFresh
<1>2. /\ ~ Suspended /\ Registers = regs /\ Status = "running"
      /\ Calls = Append(CallsOf(stack), [fn |-> target, at |-> None, local |-> Zero])
  BY WhatTheThreadSees DEF EnterFresh
<1>3. ~ Suspended' /\ Calls' = CallsOf(stack') /\ Registers' = regs /\ Status' = "running"
      /\ image' = image
  BY DEF EnterFresh, Suspended, Calls, Registers, Status
<1>. DEFINE a == [fn |-> target, at |-> None, local |-> Zero, frame |-> 0]
<1>4. a \in Activation /\ CallOf(a) = [fn |-> target, at |-> None, local |-> Zero]
  BY <1>1, ContinuationAssumption DEF AtEnter, Activation, CallOf
<1>5. stack' = Append(stack, a) /\ stack \in Seq(Activation)
  BY <1>1 DEF EnterFresh, TypeOK
<1>. HIDE DEF a
<1>6. CallsOf(Append(stack, a)) = Append(CallsOf(stack), CallOf(a))
  BY <1>1, <1>4, <1>5, CallsOfPush
<1>. QED
  BY <1>2, <1>3, <1>4, <1>5, <1>6, SavedKept, MapQuiet

(* Frames are rebuilt, a call is made again, a pause pauses again: the     *)
(* thread is suspended all along.                                          *)
LEMMA StillSuspended ==
    ASSUME RInv, Suspended, Suspended', frames' = frames, frames # <<>>,
           StatusOf(run') = StatusOf(run), image' = image
    PROVE  UNCHANGED Guest!guestVars
<1>1. Calls' = Calls /\ Registers' = Registers /\ Status' = Status
  BY DEF Calls, Registers, Status, RegsOf
<1>. QED
  BY <1>1, SavedKept, MapQuiet

LEMMA MapEnterAgain == ASSUME RInv, EnterAgain PROVE UNCHANGED Guest!guestVars
<1>1. Take(frames[cursor + 1]) /\ Depth \in Nat /\ Top \in Nat /\ Top < Depth /\ TypeOK
  BY FrameIsTaken DEF EnterAgain, RInv, ContInv
<1>2. Suspended /\ Suspended' /\ frames' = frames /\ run' = run /\ image' = image
  BY <1>1 DEF EnterAgain, Take, Suspended
<1>3. frames # <<>>
  BY <1>1, Elements
<1>. QED
  BY <1>2, <1>3, StillSuspended

LEMMA MapResumeCall == ASSUME RInv, ResumeCall PROVE UNCHANGED Guest!guestVars
<1>1. TypeOK /\ Chained(frames) /\ Matched /\ AtResume
  BY DEF RInv, ContInv, AtHost, ResumeCall
<1>2. /\ Top \in Nat /\ Depth \in Nat /\ Top \in 1 .. Depth /\ Top = cursor
      /\ resuming <=> Top < Depth
  BY <1>1, Elements DEF AtResume
<1>3. frames # <<>>
  BY <1>1, <1>2, Elements
<1>4. resuming /\ cursor < Depth
  <2>1. Kind[frames[Top].at] = "call"
    BY <1>1, <1>2 DEF Matched, Mirrors, ResumeCall
  <2>2. Top # Depth
    BY <1>1, <1>3, <2>1 DEF AtResume, GaveUp, Depth
  <2>. QED
    BY <1>2, <2>2
<1>5. Suspended /\ Suspended' /\ frames' = frames /\ run' = run /\ image' = image
  BY <1>4 DEF ResumeCall, Suspended, Rebuilding, contVars, Depth
<1>. QED
  BY <1>3, <1>5, StillSuspended

LEMMA MapResumePause == ASSUME RInv, ResumePause PROVE UNCHANGED Guest!guestVars
<1>1. TypeOK /\ Depth \in Nat \ {0}
  BY InnermostReached DEF ResumePause, RInv, ContInv
<1>2. frames # <<>>
  BY <1>1, Elements
<1>3. Suspended /\ Suspended' /\ frames' = frames /\ image' = image
      /\ run' = "WAITING" /\ run = "RUNNING"
  BY DEF ResumePause, Suspended, contVars, GiveUp, RInv, InDispatch
<1>. QED
  BY <1>2, <1>3, StillSuspended DEF StatusOf

(* The site that suspended the thread is over: it goes on.                 *)
LEMMA MapResumeYield == ASSUME RInv, ResumeYield PROVE Guest!GuestResume
<1>1. TypeOK /\ Matched /\ AtResume
  BY DEF RInv, ContInv, AtHost, ResumeYield
<1>2. Top \in Nat \ {0} /\ Top = Depth /\ stack[Top].at = frames[Depth].at
  BY InnermostReached DEF ResumeYield, RInv
<1>3. /\ Calls = CallsOf(frames) /\ Registers = RegsOf(frames, regs) /\ Status = "suspended"
  BY WhatTheThreadSees DEF ResumeYield
<1>4. frames # <<>> /\ Registers = regs
  <2>1. frames # <<>>
    BY <1>1, <1>2, Elements
  <2>. QED
    BY <1>1, <1>2, <1>3, <2>1 DEF AtResume, RegsOf, Depth
<1>5. CallsOf(stack) = CallsOf(frames)
  <2>1. /\ CallsOf(frames) \in Seq(CallRecord) /\ Len(CallsOf(frames)) = Depth
        /\ \A k \in 1 .. Depth : CallsOf(frames)[k] = CallOf(frames[k])
        /\ CallsOf(stack) \in Seq(CallRecord) /\ Len(CallsOf(stack)) = Depth
        /\ \A k \in 1 .. Depth : CallsOf(stack)[k] = CallOf(stack[k])
    BY <1>1, <1>2, CallsTyped
  <2>2. \A k \in 1 .. Depth : CallOf(stack[k]) = CallOf(frames[k])
    BY <1>1, <1>2 DEF Matched, Mirrors, CallOf
  <2>3. \A k \in 1 .. Depth : CallsOf(stack)[k] = CallsOf(frames)[k]
    BY <2>1, <2>2
  <2>. QED
    BY <2>1, <2>3, SeqEqual
<1>6. /\ ~ Suspended' /\ Calls' = [CallsOf(stack) EXCEPT ![Top].at = None]
      /\ Registers' = regs /\ Status' = "running" /\ Saved' = Saved
  BY SavedKept DEF ResumeYield, Suspended, Calls, Registers, Status, Top
<1>7. /\ Len(Calls) = Top /\ Calls # <<>> /\ Calls[Top].at = stack[Top].at
  <2>1. /\ CallsOf(frames) \in Seq(CallRecord) /\ Len(CallsOf(frames)) = Depth
        /\ CallsOf(frames)[Depth] = CallOf(frames[Depth])
    BY <1>1, <1>2, CallsTyped
  <2>2. CallsOf(frames) # <<>>
    BY <1>2, <2>1, EmptySeq
  <2>. QED
    BY <1>2, <1>3, <2>1, <2>2 DEF CallOf
<1>. QED
  BY <1>3, <1>4, <1>5, <1>6, <1>7 DEF Guest!GuestResume, Guest!Last, ResumeYield

(* The frame of the site goes; the calls stay.                             *)
LEMMA MapBack == ASSUME RInv, Back PROVE UNCHANGED Guest!guestVars
<1>1. TypeOK
  BY DEF RInv, ContInv
<1>2. /\ Top \in Nat \ {0} /\ stack[Top] \in Activation
      /\ stack' = [stack EXCEPT ![Top].at = None]
      /\ host = "back" /\ host' = "body" /\ UNCHANGED <<regs, image>>
  BY BackPops DEF RInv, Back
<1>3. /\ Calls = [CallsOf(stack) EXCEPT ![Top].at = None]
      /\ Registers = regs /\ Status = "running"
  BY <1>2, WhatTheThreadSees
<1>4. Calls' = CallsOf(stack') /\ Registers' = regs /\ Status' = "running" /\ Saved' = Saved
  BY <1>2, SavedKept DEF Suspended, Calls, Registers, Status
<1>5. CallsOf(stack') = [CallsOf(stack) EXCEPT ![Top].at = None]
  <2>. DEFINE a == [stack[Top] EXCEPT !.at = None]
  <2>1. a \in Activation /\ a.at = None /\ a.fn = stack[Top].fn /\ a.local = stack[Top].local
    BY <1>2 DEF Activation
  <2>2. stack' = [stack EXCEPT ![Top] = a] /\ stack \in Seq(Activation) /\ Top \in 1 .. Len(stack)
    BY <1>1, <1>2 DEF TypeOK, Top
  <2>. HIDE DEF a
  <2>3. /\ stack' \in Seq(Activation) /\ Len(stack') = Top /\ stack'[Top] = a
        /\ \A k \in 1 .. Top - 1 : stack'[k] = stack[k]
    <3>1. /\ stack' \in Seq(Activation) /\ Len(stack') = Len(stack)
          /\ \A k \in 1 .. Len(stack) : stack'[k] = IF k = Top THEN a ELSE stack[k]
      BY <2>1, <2>2, ExceptSeq
    <3>. QED
      BY <1>2, <2>2, <3>1 DEF Top
  <2>. QED
    BY <1>1, <1>2, <2>1, <2>3, CallsOfMoved
<1>. QED
  BY <1>3, <1>4, <1>5, MapQuiet

(* While the function on top executes, its call is the last one.           *)
LEMMA InBody ==
    ASSUME RInv, host = "body"
    PROVE  /\ TypeOK /\ Top \in Nat \ {0} /\ Top = Depth + 1 /\ Depth \in Nat
           /\ stack[Top] \in Activation /\ stack[Top].at = None
           /\ Calls = CallsOf(stack) /\ Registers = regs /\ Status = "running"
           /\ CallsOf(stack) \in Seq(CallRecord) /\ Len(CallsOf(stack)) = Top
           /\ \A k \in 1 .. Top : CallsOf(stack)[k] = CallOf(stack[k])
           /\ CallsOf(stack) # <<>>
           /\ Guest!Executing /\ Guest!Last = Top
           /\ Calls[Top].fn = stack[Top].fn
<1>1. TypeOK /\ Top = Depth + 1 /\ stack[Top].at = None
  BY DEF RInv, ContInv, AtHost, AtBody
<1>2. Top \in Nat \ {0} /\ Depth \in Nat /\ stack[Top] \in Activation
  BY <1>1, Elements
<1>3. Calls = CallsOf(stack) /\ Registers = regs /\ Status = "running"
  BY WhatTheThreadSees
<1>4. /\ CallsOf(stack) \in Seq(CallRecord) /\ Len(CallsOf(stack)) = Top
      /\ \A k \in 1 .. Top : CallsOf(stack)[k] = CallOf(stack[k])
  BY <1>1, CallsTyped
<1>5. CallsOf(stack) # <<>>
  BY <1>2, <1>4, EmptySeq
<1>6. Calls[Top].fn = stack[Top].fn /\ Calls[Top].at = None
  <2>1. CallsOf(stack)[Top] = CallOf(stack[Top])
    BY <1>2, <1>4
  <2>. QED
    BY <1>1, <1>3, <2>1 DEF CallOf
<1>7. Guest!Last = Top
  BY <1>3, <1>4 DEF Guest!Last
<1>8. Guest!Executing
  BY <1>3, <1>5, <1>6, <1>7 DEF Guest!Executing
<1>. QED
  BY <1>1, <1>2, <1>3, <1>4, <1>5, <1>6, <1>7, <1>8

(* The function on top works.                                              *)
LEMMA MapWork == ASSUME RInv, Work PROVE Guest!GuestWork
<1>1. /\ TypeOK /\ Top \in Nat \ {0} /\ stack[Top] \in Activation
      /\ Calls = CallsOf(stack) /\ Status = "running"
      /\ CallsOf(stack) \in Seq(CallRecord) /\ Len(CallsOf(stack)) = Top
      /\ \A k \in 1 .. Top : CallsOf(stack)[k] = CallOf(stack[k])
      /\ Guest!Executing /\ Guest!Last = Top
  BY InBody DEF Work
<1>2. PICK d \in Data : stack' = [stack EXCEPT ![Top].local = d]
  BY DEF Work
<1>3. /\ Calls' = CallsOf(stack') /\ Registers' = regs' /\ Status' = "running"
      /\ Saved' = Saved /\ regs' \in Data
  BY SavedKept DEF Work, Suspended, Calls, Registers, Status
<1>. DEFINE a == [stack[Top] EXCEPT !.local = d]
            cs == CallsOf(stack)
            c == [cs[Top] EXCEPT !.local = d]
            ds == [cs EXCEPT ![Top] = c]
<1>4. a \in Activation /\ CallOf(a) = c
  <2>1. cs[Top] = CallOf(stack[Top])
    BY <1>1
  <2>. QED
    BY <1>1, <1>2, <2>1 DEF Activation, CallOf
<1>5. CallOf(a) \in CallRecord
  BY <1>4 DEF CallOf, CallRecord, Activation
<1>. HIDE DEF a, c, cs
<1>6. /\ stack' \in Seq(Activation) /\ Len(stack') = Top
      /\ \A k \in 1 .. Top : stack'[k] = IF k = Top THEN a ELSE stack[k]
  <2>1. stack' = [stack EXCEPT ![Top] = a] /\ stack \in Seq(Activation) /\ Top \in 1 .. Len(stack)
    BY <1>1, <1>2 DEF TypeOK, Top, a
  <2>. QED
    BY <1>4, <2>1, ExceptSeq DEF Top
<1>7. /\ ds \in Seq(CallRecord) /\ Len(ds) = Top
      /\ \A k \in 1 .. Top : ds[k] = IF k = Top THEN c ELSE cs[k]
  <2>1. cs \in Seq(CallRecord) /\ Top \in 1 .. Len(cs) /\ c \in CallRecord /\ Len(cs) = Top
    BY <1>1, <1>4, <1>5 DEF cs
  <2>2. /\ ds \in Seq(CallRecord) /\ Len(ds) = Len(cs)
        /\ \A k \in 1 .. Len(cs) : ds[k] = IF k = Top THEN c ELSE cs[k]
    BY <2>1, ExceptSeq
  <2>. QED
    BY <2>1, <2>2
<1>. HIDE DEF ds
<1>8. \A k \in 1 .. Top : CallOf(stack'[k]) = ds[k] /\ CallOf(stack'[k]) \in CallRecord
  <2>. TAKE k \in 1 .. Top
  <2>1. CallOf(stack'[k]) = ds[k]
    <3>1. CASE k = Top
      BY <1>4, <1>6, <1>7, <3>1
    <3>2. CASE k # Top
      BY <1>1, <1>6, <1>7, <3>2 DEF cs
    <3>. QED
      BY <3>1, <3>2
  <2>2. ds[k] \in CallRecord
    BY <1>7, ElementOfSeq
  <2>. QED
    BY <2>1, <2>2
<1>9. CallsOf(stack') = ds
  <2>1. /\ CallsOf(stack') \in Seq(CallRecord) /\ Len(CallsOf(stack')) = Top
        /\ \A k \in 1 .. Top : CallsOf(stack')[k] = CallOf(stack'[k])
    BY <1>6, <1>8, CallsOfIs
  <2>. QED
    BY <1>7, <1>8, <2>1, SeqEqual
<1>10. Calls' = [Calls EXCEPT ![Guest!Last].local = d]
  BY <1>1, <1>3, <1>9 DEF ds, c, cs
<1>. QED
  BY <1>1, <1>3, <1>10 DEF Guest!GuestWork

(* The function on top ends: its caller goes on, or the thread is over.    *)
LEMMA MapLeave ==
    ASSUME RInv, host = "body", Leave, UNCHANGED <<contVars, regs, image>>
    PROVE  Guest!GuestReturn
<1>1. /\ TypeOK /\ Top \in Nat \ {0} /\ Top = Depth + 1 /\ Depth \in Nat
      /\ Calls = CallsOf(stack) /\ Registers = regs /\ Status = "running"
      /\ CallsOf(stack) \in Seq(CallRecord) /\ Len(CallsOf(stack)) = Top
      /\ \A k \in 1 .. Top : CallsOf(stack)[k] = CallOf(stack[k])
      /\ Guest!Executing /\ Guest!Last = Top
  BY InBody
<1>2. frames' = frames /\ regs' = regs /\ Saved' = Saved /\ stack' = Front(stack)
  BY SavedKept DEF contVars, Leave
<1>3. CASE Top = 1
  <2>1. frames = <<>>
    BY <1>1, <1>3, Elements
  <2>2. host' = "out" /\ run' = "FINISHED"
    BY <1>3, <2>1 DEF Leave
  <2>3. Calls' = <<>> /\ Registers' = Registers /\ Status' = "finished"
    BY <1>1, <1>2, <2>1, <2>2
       DEF Suspended, Calls, Registers, Status, CallsOf, RegsOf, StatusOf
  <2>. QED
    BY <1>1, <1>2, <1>3, <2>3 DEF Guest!GuestReturn
<1>4. CASE Top # 1
  <2>1. host' = "back"
    BY <1>1, <1>4 DEF Leave
  <2>2. /\ Calls' = [CallsOf(stack') EXCEPT ![Top'].at = None]
        /\ Registers' = Registers /\ Status' = Status
    BY <1>1, <1>2, <2>1 DEF Suspended, Calls, Registers, Status
  <2>. DEFINE n == Top - 1
              cs == CallsOf(stack)
  <2>3. /\ stack' \in Seq(Activation) /\ Len(stack') = n
        /\ \A k \in 1 .. n : stack'[k] = stack[k]
    <3>1. stack \in Seq(Activation) /\ stack # <<>>
      BY <1>1, Elements DEF TypeOK
    <3>. QED
      BY <1>2, <3>1, FrontIs DEF Top
  <2>4. \A k \in 1 .. n : CallOf(stack[k]) \in CallRecord
    BY <1>1, Elements DEF CallOf, CallRecord, Activation
  <2>5. /\ CallsOf(stack') \in Seq(CallRecord) /\ Len(CallsOf(stack')) = n
        /\ \A k \in 1 .. n : CallsOf(stack')[k] = CallOf(stack[k])
    BY <2>3, <2>4, CallsOfIs
  <2>6. /\ Front(cs) \in Seq(CallRecord) /\ Len(Front(cs)) = n
        /\ \A k \in 1 .. n : Front(cs)[k] = cs[k]
    <3>1. cs # <<>>
      BY <1>1, EmptySeq
    <3>. QED
      BY <1>1, <3>1, FrontIs
  <2>7. CallsOf(stack') = Front(cs)
    <3>1. \A k \in 1 .. n : CallsOf(stack')[k] = Front(cs)[k]
      BY <1>1, <2>5, <2>6
    <3>. QED
      BY <2>5, <2>6, <3>1, SeqEqual
  <2>8. Calls' = [SubSeq(Calls, 1, Guest!Last - 1) EXCEPT ![Guest!Last - 1].at = None]
    <3>1. Top' = n /\ Front(cs) = SubSeq(cs, 1, Top - 1)
      BY <1>1, <2>3 DEF Top, Front
    <3>. QED
      BY <1>1, <2>2, <2>7, <3>1
  <2>. QED
    BY <1>1, <1>2, <1>4, <2>2, <2>8 DEF Guest!GuestReturn
<1>. QED
  BY <1>3, <1>4

(* A site is reached: the call on top stands at it.                        *)
LEMMA MarkedCalls ==
    ASSUME RInv, host = "body", NEW s \in Site, NEW t \in Func \union {None}, Push(s, t),
           stack' = [stack EXCEPT ![Top].at = s, ![Top].frame = Depth]
    PROVE  CallsOf(stack') = [CallsOf(stack) EXCEPT ![Top].at = s]
<1>1. TypeOK /\ Top \in Nat \ {0} /\ Depth \in Nat /\ Top = Depth + 1 /\ stack[Top] \in Activation
  BY InBody
<1>2. /\ stack' \in Seq(Activation) /\ Top' = Top
      /\ stack'[Top] = [stack[Top] EXCEPT !.at = s, !.frame = Depth]
  BY MarkedMatches DEF RInv
<1>3. /\ stack'[Top].fn = stack[Top].fn /\ stack'[Top].at = s
      /\ stack'[Top].local = stack[Top].local
  BY <1>1, <1>2 DEF Activation
<1>4. \A k \in 1 .. Top - 1 : stack'[k] = stack[k]
  <2>1. stack \in Seq(Activation) /\ DOMAIN stack = 1 .. Top
    BY <1>1, LenProperties DEF TypeOK, Top
  <2>. QED
    BY <1>1, <2>1
<1>5. Len(stack') = Top
  BY <1>2 DEF Top
<1>. QED
  BY <1>1, <1>2, <1>3, <1>4, <1>5, CallsOfMoved

(* A function is called.                                                   *)
LEMMA MapCall ==
    ASSUME RInv, NEW s \in Site, NEW g \in Func, Call(s, g)
    PROVE  Guest!GuestCall
<1>. DEFINE t == IF Indirect(s) THEN g ELSE None
<1>1. /\ host = "body" /\ Kind[s] = "call" /\ g \in Callees[s] /\ Push(s, t)
      /\ stack' = [stack EXCEPT ![Top].at = s, ![Top].frame = Depth]
      /\ host' = "enter" /\ target' = g /\ regs' = regs /\ image' = image
      /\ t \in Func \union {None}
  BY DEF Call
<1>. HIDE DEF t
<1>2. /\ Calls = CallsOf(stack) /\ Registers = regs /\ Status = "running"
      /\ Guest!Executing /\ Guest!Last = Top /\ Calls[Top].fn = stack[Top].fn
  BY <1>1, InBody
<1>3. ~ resuming' /\ Of[s] = stack[Top].fn
  BY <1>1, PushGives DEF RInv, Push
<1>4. /\ Calls' = Append(CallsOf(stack'), [fn |-> g, at |-> None, local |-> Zero])
      /\ Registers' = regs /\ Status' = "running"
  BY <1>1, <1>3 DEF Suspended, Rebuilding, Calls, Registers, Status
<1>5. CallsOf(stack') = [CallsOf(stack) EXCEPT ![Top].at = s]
  BY <1>1, MarkedCalls
<1>6. Calls' = Append([Calls EXCEPT ![Guest!Last].at = s], Guest!Activation(g, None, Zero))
  BY <1>2, <1>4, <1>5 DEF Guest!Activation
<1>. QED
  BY <1>1, <1>2, <1>3, <1>4, <1>6, SavedKept DEF Guest!GuestCall

(* A poll without a preemption does not show.                              *)
LEMMA MapPoll ==
    ASSUME RInv, NEW s \in Site, Poll(s)
    PROVE  UNCHANGED Guest!guestVars
<1>1. /\ host = "body" /\ Push(s, None)
      /\ stack' = [stack EXCEPT ![Top].at = s, ![Top].frame = Depth]
      /\ host' = "back" /\ regs' = regs /\ image' = image
  BY DEF Poll
<1>2. /\ TypeOK /\ Top \in Nat \ {0} /\ stack[Top] \in Activation /\ stack[Top].at = None
      /\ Calls = CallsOf(stack) /\ Registers = regs /\ Status = "running"
      /\ CallsOf(stack) \in Seq(CallRecord) /\ Len(CallsOf(stack)) = Top
      /\ \A k \in 1 .. Top : CallsOf(stack)[k] = CallOf(stack[k])
  BY <1>1, InBody
<1>3. Top' = Top
  BY <1>1, MarkedMatches DEF RInv
<1>4. /\ Calls' = [CallsOf(stack') EXCEPT ![Top].at = None]
      /\ Registers' = regs /\ Status' = "running"
  BY <1>1, <1>3 DEF Suspended, Calls, Registers, Status
<1>5. CallsOf(stack') = [CallsOf(stack) EXCEPT ![Top].at = s]
  BY <1>1, MarkedCalls
<1>6. [CallsOf(stack') EXCEPT ![Top].at = None] = CallsOf(stack)
  <2>. DEFINE cs == CallsOf(stack)
              c == cs[Top]
  <2>. HIDE DEF cs
  <2>1. cs \in Seq(CallRecord) /\ Top \in 1 .. Len(cs) /\ DOMAIN cs = 1 .. Len(cs)
    BY <1>2, LenProperties DEF cs
  <2>2. c \in CallRecord /\ c.at = None
    <3>1. c = CallOf(stack[Top])
      BY <1>2 DEF cs
    <3>. QED
      BY <1>2, <2>1, <3>1, ElementOfSeq DEF CallOf
  <2>3. [[c EXCEPT !.at = s] EXCEPT !.at = None] = c
    BY <2>2 DEF CallRecord
  <2>. HIDE DEF c
  <2>4. [cs EXCEPT ![Top] = c] = cs
    BY <2>1, LenProperties DEF c
  <2>5. [[cs EXCEPT ![Top].at = s] EXCEPT ![Top].at = None]
            = [cs EXCEPT ![Top] = [[cs[Top] EXCEPT !.at = s] EXCEPT !.at = None]]
    BY <2>1, LenProperties
  <2>. QED
    BY <1>5, <2>3, <2>4, <2>5 DEF cs, c
<1>. QED
  BY <1>1, <1>2, <1>4, <1>6, SavedKept, MapQuiet

(* The thread gives the CPU up at the site it reached.                     *)
LEMMA MapYield ==
    ASSUME RInv, NEW s \in Site, Yield(s)
    PROVE  Guest!GuestSuspend
<1>1. /\ host = "body" /\ Kind[s] # "call" /\ Push(s, None)
      /\ host' = "out" /\ run' = "WAITING" /\ regs' = regs /\ image' = image
  BY DEF Yield, GiveUp
<1>2. /\ TypeOK /\ Top \in Nat \ {0} /\ Top = Depth + 1 /\ Depth \in Nat
      /\ stack[Top] \in Activation
      /\ Calls = CallsOf(stack) /\ Registers = regs /\ Status = "running"
      /\ CallsOf(stack) \in Seq(CallRecord) /\ Len(CallsOf(stack)) = Top
      /\ \A k \in 1 .. Top : CallsOf(stack)[k] = CallOf(stack[k])
      /\ CallsOf(stack) # <<>>
      /\ Guest!Executing /\ Guest!Last = Top /\ Calls[Top].fn = stack[Top].fn
  BY <1>1, InBody
<1>3. /\ frames' \in Seq(Frame) /\ Len(frames') = Top
      /\ \A k \in 1 .. Depth : frames'[k] = frames[k]
      /\ frames'[Top] = [fn |-> stack[Top].fn, at |-> s, target |-> None,
                         local |-> stack[Top].local, regs |-> regs]
  BY <1>1, <1>2, PushGives DEF RInv, Depth
<1>4. frames' # <<>>
  BY <1>2, <1>3, EmptySeq
<1>5. Calls' = CallsOf(frames') /\ Registers' = regs /\ Status' = "suspended"
  BY <1>1, <1>3, <1>4 DEF Suspended, Calls, Registers, Status, RegsOf, StatusOf
<1>6. CallsOf(frames') = [CallsOf(stack) EXCEPT ![Top].at = s]
  <2>. DEFINE cs == CallsOf(stack)
              ds == CallsOf(frames')
  <2>1. \A k \in 1 .. Top : CallOf(frames'[k]) \in CallRecord
    <3>1. \A k \in 1 .. Top : frames'[k] \in Frame
      BY <1>3, ElementOfSeq
    <3>. QED
      BY <3>1 DEF CallOf, CallRecord, Frame
  <2>2. /\ ds \in Seq(CallRecord) /\ Len(ds) = Top
        /\ \A k \in 1 .. Top : ds[k] = CallOf(frames'[k])
    BY <1>3, <2>1, CallsOfIs
  <2>. HIDE DEF ds
  <2>3. ds[Top] = [cs[Top] EXCEPT !.at = s]
    BY <1>2, <1>3, <2>2 DEF CallOf
  <2>4. \A k \in 1 .. Top - 1 : ds[k] = cs[k]
    <3>1. \A k \in 1 .. Depth : Mirrors(stack[k], frames[k], k)
      BY <1>2 DEF RInv, ContInv, Matched
    <3>2. \A k \in 1 .. Depth : CallOf(stack[k]) = CallOf(frames[k])
      BY <3>1 DEF Mirrors, CallOf
    <3>3. \A k \in 1 .. Depth : ds[k] = CallOf(frames[k]) /\ cs[k] = CallOf(stack[k])
      BY <1>2, <1>3, <2>2
    <3>. QED
      BY <1>2, <3>2, <3>3
  <2>. HIDE DEF cs
  <2>5. ds = [cs EXCEPT ![Len(cs)].at = s]
    <3>1. cs \in Seq(CallRecord) /\ cs # <<>> /\ Len(cs) = Top
      BY <1>2 DEF cs
    <3>. QED
      BY <2>2, <2>3, <2>4, <3>1, TopMoved
  <2>. QED
    BY <1>2, <2>5 DEF cs, ds
<1>7. Of[s] = Calls[Guest!Last].fn
  BY <1>1, <1>2 DEF Push
<1>. QED
  BY <1>1, <1>2, <1>5, <1>6, <1>7, SavedKept DEF Guest!GuestSuspend

(* A savestate, and a load.                                                *)
LEMMA MapCapture == ASSUME RInv, Capture PROVE Guest!GuestSave
<1>1. /\ Calls = CallsOf(frames) /\ Registers = RegsOf(frames, regs) /\ Status = StatusOf(run)
  BY WhatTheThreadSees DEF Capture
<1>2. /\ image' = [frames |-> frames, regs |-> regs, run |-> run]
      /\ UNCHANGED <<Calls, Registers, Status>>
  BY DEF Capture, Calls, Registers, Status, Suspended, Rebuilding, contVars, hostVars, Top, Depth
<1>3. Saved' = <<Calls, Registers, Status>>
  BY <1>1, <1>2 DEF Saved
<1>4. Status # "running"
  BY <1>1 DEF StatusOf
<1>. QED
  BY <1>2, <1>3, <1>4 DEF Guest!GuestSave

LEMMA MapRestore == ASSUME RInv, Restore PROVE Guest!GuestLoad
<1>1. Suspended /\ Suspended' /\ frames' = image.frames /\ regs' = image.regs /\ run' = image.run
      /\ image' = image
  BY DEF Restore, Suspended, hostVars
<1>2. /\ Calls' = Saved[1] /\ Registers' = Saved[2] /\ Status' = Saved[3] /\ Saved' = Saved
  BY <1>1, SavedKept DEF Calls, Registers, Status, Saved
<1>3. Status # "running"
  BY <1>1 DEF Status, StatusOf
<1>. QED
  BY <1>2, <1>3 DEF Guest!GuestLoad

(* Every step is a step of the thread that was promised, or does not show. *)
LEMMA MapNext == RInv /\ [Next]_vars => [Guest!GuestNext]_(Guest!guestVars)
<1>. SUFFICES ASSUME RInv, [Next]_vars PROVE [Guest!GuestNext]_(Guest!guestVars)
  OBVIOUS
<1>1. CASE UNCHANGED vars
  <2>1. UNCHANGED <<Calls, Registers, Status, Saved>>
    BY <1>1 DEF vars, contVars, hostVars, Calls, Registers, Status, Saved, Suspended,
                Rebuilding, Top, Depth
  <2>. QED
    BY <2>1, MapQuiet
<1>2. CASE Dispatch
  BY <1>2, MapDispatch
<1>3. CASE EnterFresh \/ EnterAgain \/ ResumeCall \/ ResumePause \/ Back
  BY <1>3, MapEnterFresh, MapEnterAgain, MapResumeCall, MapResumePause, MapBack
<1>4. CASE ResumeYield
  BY <1>4, MapResumeYield DEF Guest!GuestNext
<1>5. CASE Work
  BY <1>5, MapWork DEF Guest!GuestNext
<1>6. CASE Return
  BY <1>6, MapLeave DEF Return, Guest!GuestNext
<1>7. ASSUME NEW s \in Site, \/ \E g \in Func : Call(s, g)
                             \/ Poll(s) \/ Yield(s) \/ Overflow(s)
      PROVE  [Guest!GuestNext]_(Guest!guestVars)
  <2>1. CASE \E g \in Func : Call(s, g)
    BY <2>1, MapCall DEF Guest!GuestNext
  <2>2. CASE Poll(s)
    BY <2>2, MapPoll
  <2>3. CASE Yield(s)
    BY <2>3, MapYield DEF Guest!GuestNext
  <2>4. CASE Overflow(s)
    BY <2>4, MapLeave DEF Overflow, Guest!GuestNext
  <2>. QED
    BY <1>7, <2>1, <2>2, <2>3, <2>4
<1>8. CASE Capture
  BY <1>8, MapCapture DEF Guest!GuestNext
<1>9. CASE Restore
  BY <1>9, MapRestore DEF Guest!GuestNext
<1>. QED
  BY <1>1, <1>2, <1>3, <1>4, <1>5, <1>6, <1>7, <1>8, <1>9 DEF Next, Rebuild, Body

(* For any functions, sites and depth: whatever a thread suspends at, and  *)
(* whatever savestate is loaded, wpj2_stateful_thread_dispatch and the     *)
(* frames give it back the chain of calls it had, each at its site with    *)
(* its temporaries, and its registers; nothing it does twice shows.        *)
THEOREM GuestCallsImplemented == Spec => ImplementsGuestCalls
<1>1. Spec => Guest!Start /\ [][Guest!GuestNext]_(Guest!guestVars)
  <2>1. RInv /\ [Next]_vars => [Guest!GuestNext]_(Guest!guestVars)
    BY MapNext
  <2>2. Spec => []RInv
    BY ContInvariant, InDispatchInvariant, PTL DEF RInv
  <2>. QED
    BY <2>1, <2>2, MapInit, PTL DEF Spec
<1>. QED
  BY <1>1 DEF ImplementsGuestCalls, Guest!GuestSpec
=============================================================================
