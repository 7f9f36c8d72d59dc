--------------------------- MODULE SavestateProofs ---------------------------
(***************************************************************************)
(* What the runs check of Savestate, RspTasks and Rt64Backend, for every   *)
(* number of slots, sessions of any length, rings of any size.  A load     *)
(* gives the world what a file holds, so that the invariant speaks of the  *)
(* images in the files as it does of the world (ImageOK).                  *)
(*                                                                         *)
(* And of the other user of the RSP's tasks, the walker of display lists:  *)
(* what is kept of the matrix stack and of a pixel's samples is what it    *)
(* would be if it were computed again, and lists end; and of the operators *)
(* it computes with: no seams, blends within their ends, blocks in place.  *)
(***************************************************************************)
EXTENDS Savestate, DisplayList, RasterMath, TextureMemory,
        SequenceTheorems, WellFoundedInduction, NaturalsInduction, TLAPS

\* What a ring holds, oldest first.
Contents(r) == [k \in 1 .. r.count |-> r.done[(r.first + k - 1) % RingCap]]

RingOK(r) ==
    /\ r = [done |-> r.done, first |-> r.first, count |-> r.count]
    /\ r.done \in [0 .. RingCap - 1 -> Types \cup {0}]
    /\ r.first \in 0 .. RingCap - 1 /\ r.count \in 0 .. RingCap

Tasks == [type : Types \cup {0}, size : Nat]

(* The backend is active only after an attempt; its first list is still to *)
(* come until it has drawn one, which also fills the caches of the bridge. *)
BackendInv ==
    /\ RtTypeOK /\ SetupNotCharged
    /\ rt.active => rt.attempted /\ (bridge.warm \/ rt.first)
    /\ ~ rt.active => rt.first

(* Fast-forward draws when its phase is 0, so that the lists skipped since *)
(* are fewer than the phase.                                               *)
PhaseInv == dark \in Nat /\ IF phase = 0 THEN dark < Every ELSE dark < phase

ProcessorInv ==
    /\ status \subseteq Flags /\ task \in Tasks
    /\ RingOK(ring) /\ Contents(ring) = pending
    /\ turbo \in {"off", "navigation", "replay"}
    /\ phase \in 0 .. Every - 1
    /\ PhaseInv

(* An image is a world of one moment whose ring is what its guest awaits.  *)
ImageOK(i) ==
    /\ i.switches \in 0 .. env.switches
    /\ i.moment = [p \in Parts |-> i.switches]
    /\ i.sp.status \subseteq Flags /\ i.sp.task \in Tasks
    /\ RingOK(i.sp.ring) /\ Contents(i.sp.ring) = i.pending

WorldInv ==
    /\ switches \in 0 .. env.switches
    /\ moment = [p \in Parts |-> switches]

DiskInv ==
    /\ files = [s \in Slots |-> files[s]]
    /\ tmp = [s \in Slots |-> tmp[s]]
    /\ saved = [s \in Slots |-> saved[s]]
    /\ \A s \in Slots : \/ files[s] \in {Absent, Torn, BadThread}
                        \/ \E i : ImageOK(i) /\ files[s] = Whole(i)
    /\ \A s \in Slots : tmp[s].kind \in {"absent", "torn", "whole"}
    /\ LastSaveSurvives

AutoTypes == [ready : BOOLEAN, save : Nat, delta : Nat, start : BOOLEAN, slot : Nat,
              saveDone : BOOLEAN, loadDone : BOOLEAN]

(* What the loop is about to do, and how many automatic loads it has done: *)
(* none before the environment was read, none while a load on start is due.*)
LoopInv ==
    /\ env \in Sessions
    /\ process \in 1 .. env.processes
    /\ at \in {"save", "load", "start", "autosave", "autoload", "guest"}
    /\ asked \in [save : Slots \cup {0}, load : Slots \cup {0}]
    /\ auto \in AutoTypes
    /\ auto.ready => auto.slot \in Slots
    /\ ~ auto.ready => auto = NoAuto
    /\ auto.start => at = "start" /\ ~ auto.loadDone
    /\ autoLoads = IF auto.loadDone THEN 1 ELSE 0

SaveInv == BackendInv /\ ProcessorInv /\ WorldInv /\ DiskInv /\ LoopInv

-----------------------------------------------------------------------------
(* The backend.                                                            *)

(* Shutting the renderer down is sound from any state.                     *)
LEMMA ShutDownSound ==
  ASSUME host \in [wanted : BOOLEAN, window : BOOLEAN], ShutDown
  PROVE  BackendInv'
BY DEF ShutDown, Shutdown, BridgeShutdown, NoApp, RtDown, BackendInv, RtTypeOK, SetupNotCharged

(* What a start leaves behind: a backend that is active has a bridge, owes *)
(* the clock nothing and is still to draw its first list.                  *)
LEMMA StartSound ==
  ASSUME NEW s \in Starts, BackendInv, ~ rt.active
  PROVE  LET got == Start(s) IN
         /\ got.rt \in [attempted : BOOLEAN, active : BOOLEAN, first : BOOLEAN]
         /\ got.bridge \in [app : BOOLEAN, warm : BOOLEAN] /\ got.late \in BOOLEAN
         /\ got.rt.attempted /\ got.rt.first
         /\ got.rt.active => ~ got.late
         /\ got.rt.active = got.bridge.app
         /\ ~ got.rt.active => got.bridge = bridge
<1> USE DEF BackendInv, RtTypeOK, SetupNotCharged, Start, Tried, BridgeInit
<1>1. CASE rt.attempted \/ ~ host.window \/ s = "no_module"
  BY <1>1
<1>2. CASE ~ (rt.attempted \/ ~ host.window \/ s = "no_module") /\ ~ BridgeInit(s).app
  BY <1>2
<1>3. CASE ~ (rt.attempted \/ ~ host.window \/ s = "no_module") /\ BridgeInit(s).app
  BY <1>3
<1> QED
  BY <1>1, <1>2, <1>3

LEMMA SubmitSound ==
  ASSUME NEW s \in Starts, NEW d \in Draws, NEW size \in Nat, BackendInv, Submit(s, d, size)
  PROVE  BackendInv'
<1> DEFINE ready == IF rt.active THEN Tried ELSE Start(s)
<1>1. /\ ready.rt \in [attempted : BOOLEAN, active : BOOLEAN, first : BOOLEAN]
      /\ ready.bridge \in [app : BOOLEAN, warm : BOOLEAN] /\ ready.late \in BOOLEAN
      /\ ready.rt.attempted
      /\ ready.rt.active => ~ ready.late /\ (ready.bridge.warm \/ ready.rt.first)
      /\ ready.rt.active = ready.bridge.app
      /\ ~ ready.rt.active => ready.rt.first /\ ready.bridge = bridge
  <2>1. CASE rt.active
    BY <2>1 DEF Tried, BackendInv, RtTypeOK, SetupNotCharged
  <2>2. CASE ~ rt.active
    BY <2>2, StartSound
  <2> QED
    BY <2>1, <2>2
<1> HIDE DEF ready
<1>2. CASE ~ host.wanted
  BY <1>2 DEF Submit, rtVars, BackendInv, RtTypeOK, SetupNotCharged
<1>3. CASE host.wanted /\ ~ ready.rt.active
  <2>1. rt' = ready.rt /\ late' = ready.late /\ UNCHANGED <<host, bridge>>
    BY <1>3 DEF Submit, ready
  <2> QED
    BY <1>1, <1>3, <2>1 DEF BackendInv, RtTypeOK, SetupNotCharged
<1>4. CASE host.wanted /\ ready.rt.active /\ ~ BridgeTakes(ready.bridge.app, d, size)
  <2>1. rt' = RtDown /\ bridge' = NoApp /\ late' = ready.late /\ UNCHANGED host
    BY <1>4 DEF Submit, ready, Shutdown, BridgeShutdown
  <2> QED
    BY <1>1, <2>1 DEF RtDown, NoApp, BackendInv, RtTypeOK, SetupNotCharged
<1>5. CASE host.wanted /\ ready.rt.active /\ BridgeTakes(ready.bridge.app, d, size)
  <2>1. rt' = Drawn(ready).rt /\ bridge' = Drawn(ready).bridge /\ late' = Drawn(ready).late
        /\ UNCHANGED host
    BY <1>5 DEF Submit, ready
  <2> QED
    BY <1>1, <1>5, <2>1 DEF Drawn, BackendInv, RtTypeOK, SetupNotCharged
<1> QED
  BY <1>2, <1>3, <1>4, <1>5

-----------------------------------------------------------------------------
(* The ring.                                                               *)

LEMMA ModuloWraps ==
  ASSUME NEW n \in Nat \ {0}, NEW a \in Nat, a < 2 * n
  PROVE  a % n = IF a < n THEN a ELSE a - n
<1>1. CASE a < n
  <2>1. a \in 0 .. n - 1
    BY <1>1
  <2> QED
    BY <1>1, <2>1
<1>2. CASE n <= a
  BY <1>2
<1> QED
  BY <1>1, <1>2

LEMMA ModuloPast ==
  ASSUME NEW n \in Nat \ {0}, NEW j \in 0 .. n - 1, NEW b, b = n + j
  PROVE  b % n = j % n
<1>1. b \in Nat /\ b < 2 * n /\ ~ (b < n) /\ b - n = j
  OBVIOUS
<1>2. b % n = j
  BY <1>1, ModuloWraps
<1>3. j % n = j
  OBVIOUS
<1> QED
  BY <1>2, <1>3

(* What a ring holds is a sequence of tasks.                               *)
LEMMA ContentsIsSequence ==
  ASSUME NEW r, RingOK(r)
  PROVE  Contents(r) \in Seq(Types \cup {0}) /\ Len(Contents(r)) = r.count
<1> DEFINE n == r.count
           f == [k \in 1 .. n |-> r.done[(r.first + k - 1) % RingCap]]
<1>1. RingCap \in Nat \ {0} /\ r.first \in 0 .. RingCap - 1 /\ r.count \in 0 .. RingCap
  BY RspAssumption DEF RingOK
<1>2. n \in Nat /\ \A k \in 1 .. n : (r.first + k - 1) % RingCap \in 0 .. RingCap - 1
  BY <1>1
<1>3. \A k \in 1 .. n : r.done[(r.first + k - 1) % RingCap] \in Types \cup {0}
  BY <1>2 DEF RingOK
<1> HIDE DEF n
<1>4. f \in [1 .. n -> Types \cup {0}]
  BY <1>3
<1>5. Contents(r) = f
  BY DEF Contents, n
<1> HIDE DEF f
<1>6. f \in Seq(Types \cup {0}) /\ Len(f) = n
  BY <1>2, <1>4
<1> QED
  BY <1>5, <1>6 DEF n

(* A ring with room takes a task at its end.                               *)
LEMMA EnqueueAppends ==
  ASSUME NEW r, RingOK(r), NEW t \in Types \cup {0}, r.count < RingCap
  PROVE  RingOK(Enqueue(r, t)) /\ Contents(Enqueue(r, t)) = Append(Contents(r), t)
<1> DEFINE e == Enqueue(r, t)
           free == (r.first + r.count) % RingCap
<1>1. RingCap \in Nat \ {0} /\ r.first \in 0 .. RingCap - 1 /\ r.count \in 0 .. RingCap
  BY RspAssumption DEF RingOK
<1>2. free \in 0 .. RingCap - 1
  BY <1>1
<1>3. /\ e = [done |-> [r.done EXCEPT ![free] = t], first |-> r.first, count |-> r.count + 1]
      /\ e.done \in [0 .. RingCap - 1 -> Types \cup {0}]
  BY <1>1, <1>2 DEF Enqueue, RingOK
<1>4. \A k \in 1 .. r.count : e.done[(r.first + k - 1) % RingCap] = r.done[(r.first + k - 1) % RingCap]
  <2> TAKE k \in 1 .. r.count
  <2>1. (r.first + k - 1) % RingCap \in 0 .. RingCap - 1
    BY <1>1
  <2>2. (r.first + k - 1) % RingCap # free
    <3> HIDE DEF free
    <3>1. (r.first + k - 1) % RingCap = IF r.first + k - 1 < RingCap THEN r.first + k - 1
                                        ELSE r.first + k - 1 - RingCap
      <4> DEFINE a == r.first + k - 1
      <4>1. a \in Nat /\ a < 2 * RingCap
        BY <1>1
      <4> HIDE DEF a
      <4>2. a % RingCap = IF a < RingCap THEN a ELSE a - RingCap
        BY <1>1, <4>1, ModuloWraps
      <4> QED
        BY <1>1, <4>2 DEF a
    <3>2. free = IF r.first + r.count < RingCap THEN r.first + r.count
                 ELSE r.first + r.count - RingCap
      <4> DEFINE a == r.first + r.count
      <4>1. a \in Nat /\ a < 2 * RingCap
        BY <1>1
      <4> HIDE DEF a
      <4>2. a % RingCap = IF a < RingCap THEN a ELSE a - RingCap
        BY <1>1, <4>1, ModuloWraps
      <4> QED
        BY <1>1, <4>2 DEF a, free
    <3> QED
      BY <1>1, <3>1, <3>2
  <2> HIDE DEF e
  <2> QED
    BY <1>2, <1>3, <2>1, <2>2 DEF RingOK
<1>5. e.done[(r.first + (r.count + 1) - 1) % RingCap] = t
  <2>1. r.first + (r.count + 1) - 1 = r.first + r.count
    BY <1>1
  <2> HIDE DEF e
  <2> QED
    BY <1>2, <1>3, <2>1 DEF RingOK
<1>6. Contents(r) \in Seq(Types \cup {0}) /\ Len(Contents(r)) = r.count
  BY ContentsIsSequence
<1>7. RingOK(e)
  BY <1>1, <1>3 DEF RingOK
<1>8. Contents(e) = Append(Contents(r), t)
  <2> HIDE DEF e
  <2>1. /\ Contents(e) = [k \in 1 .. r.count + 1 |-> e.done[(r.first + k - 1) % RingCap]]
        /\ Contents(r) = [k \in 1 .. r.count |-> r.done[(r.first + k - 1) % RingCap]]
    BY <1>3 DEF Contents
  <2>2. \A k \in 1 .. r.count + 1 :
          Contents(e)[k] = IF k = r.count + 1 THEN t ELSE Contents(r)[k]
    <3> TAKE k \in 1 .. r.count + 1
    <3>1. Contents(e)[k] = e.done[(r.first + k - 1) % RingCap]
      BY <2>1
    <3>2. CASE k = r.count + 1
      BY <1>5, <3>1, <3>2
    <3>3. CASE k # r.count + 1
      <4>1. k \in 1 .. r.count
        BY <1>1, <3>3
      <4>2. Contents(r)[k] = r.done[(r.first + k - 1) % RingCap]
        BY <2>1, <4>1
      <4> QED
        BY <1>4, <3>1, <3>3, <4>1, <4>2
    <3> QED
      BY <3>2, <3>3
  <2>3. \A k \in 1 .. r.count + 1 : (r.first + k - 1) % RingCap \in 0 .. RingCap - 1
    BY <1>1
  <2>4. Contents(e) \in Seq(Types \cup {0}) /\ Len(Contents(e)) = r.count + 1
    <3> DEFINE n == r.count + 1
               f == [k \in 1 .. n |-> e.done[(r.first + k - 1) % RingCap]]
    <3>1. \A k \in 1 .. n : e.done[(r.first + k - 1) % RingCap] \in Types \cup {0}
      BY <1>3, <2>3
    <3>2. n \in Nat
      BY <1>1
    <3> HIDE DEF n
    <3>3. f \in [1 .. n -> Types \cup {0}]
      BY <3>1
    <3> HIDE DEF f
    <3>4. f \in Seq(Types \cup {0}) /\ Len(f) = n
      BY <3>2, <3>3
    <3> QED
      BY <2>1, <3>4 DEF f, n
  <2>5. /\ Append(Contents(r), t) \in Seq(Types \cup {0})
        /\ Len(Append(Contents(r), t)) = r.count + 1
        /\ \A k \in 1 .. r.count : Append(Contents(r), t)[k] = Contents(r)[k]
        /\ Append(Contents(r), t)[r.count + 1] = t
    BY <1>6, AppendProperties
  <2> DEFINE x == Contents(e)
             y == Append(Contents(r), t)
  <2> HIDE DEF x, y
  <2>6. \A k \in 1 .. Len(x) : x[k] = y[k]
    BY <1>1, <2>2, <2>4, <2>5 DEF x, y
  <2>7. x \in Seq(Types \cup {0}) /\ y \in Seq(Types \cup {0}) /\ Len(x) = Len(y)
    BY <2>4, <2>5 DEF x, y
  <2>8. x = y
    BY <2>6, <2>7, SeqEqual
  <2> QED
    BY <2>8 DEF x, y
<1> QED
  BY <1>7, <1>8

(* Taking the oldest leaves the others in their order.                     *)
LEMMA TakeTails ==
  ASSUME NEW r, RingOK(r), r.count > 0,
         NEW e, e = [r EXCEPT !.first = (@ + 1) % RingCap, !.count = @ - 1]
  PROVE  RingOK(e) /\ Contents(r) # << >> /\ Contents(e) = Tail(Contents(r))
<1>1. RingCap \in Nat \ {0} /\ r.first \in 0 .. RingCap - 1 /\ r.count \in 0 .. RingCap
  BY RspAssumption DEF RingOK
<1>2. (r.first + 1) % RingCap \in 0 .. RingCap - 1
  BY <1>1
<1>3. e = [done |-> r.done, first |-> (r.first + 1) % RingCap, count |-> r.count - 1]
  BY DEF RingOK
<1>4. RingOK(e)
  <2>1. r.done \in [0 .. RingCap - 1 -> Types \cup {0}] /\ r.count - 1 \in 0 .. RingCap
    BY <1>1 DEF RingOK
  <2> QED
    BY <1>2, <1>3, <2>1 DEF RingOK
<1>5. \A k \in 1 .. r.count - 1 :
        (((r.first + 1) % RingCap) + k - 1) % RingCap = (r.first + (k + 1) - 1) % RingCap
  <2> TAKE k \in 1 .. r.count - 1
  <2>1. (r.first + 1) % RingCap = IF r.first + 1 < RingCap THEN r.first + 1 ELSE r.first + 1 - RingCap
    BY <1>1, ModuloWraps
  <2>2. CASE r.first + 1 < RingCap
    <3>1. ((r.first + 1) % RingCap) + k - 1 = r.first + k
      BY <1>1, <2>1, <2>2
    <3>2. r.first + (k + 1) - 1 = r.first + k
      BY <1>1
    <3> QED
      BY <3>1, <3>2
  <2>3. CASE r.first + 1 = RingCap
    <3> DEFINE j == k - 1
               x == ((r.first + 1) % RingCap) + k - 1
               y == r.first + (k + 1) - 1
    <3>1. x = j /\ j \in 0 .. RingCap - 1 /\ y = RingCap + j
      BY <1>1, <2>1, <2>3
    <3> HIDE DEF j, x, y
    <3>2. y % RingCap = j % RingCap
      BY <1>1, <3>1, ModuloPast
    <3>3. x % RingCap = y % RingCap
      BY <3>1, <3>2, Zenon
    <3> QED
      BY <3>3, Zenon DEF x, y
  <2> QED
    BY <1>1, <2>2, <2>3
<1>6. Contents(r) \in Seq(Types \cup {0}) /\ Len(Contents(r)) = r.count
  BY ContentsIsSequence
<1>7. Contents(e) = Tail(Contents(r))
  <2>1. Contents(e) = [k \in 1 .. r.count - 1 |-> r.done[(((r.first + 1) % RingCap) + k - 1) % RingCap]]
    BY <1>3 DEF Contents
  <2>2. \A k \in 1 .. r.count - 1 : (((r.first + 1) % RingCap) + k - 1) % RingCap \in 0 .. RingCap - 1
    BY <1>1, <1>2
  <2>3. Contents(e) \in Seq(Types \cup {0}) /\ Len(Contents(e)) = r.count - 1
    BY <1>3, <1>4, ContentsIsSequence
  <2>4. \A k \in 1 .. r.count - 1 : Contents(r)[k + 1] = r.done[(r.first + (k + 1) - 1) % RingCap]
    BY <1>1 DEF Contents
  <2>5. Contents(r) # << >>
    BY <1>1, <1>6
  <2>6. /\ Tail(Contents(r)) \in Seq(Types \cup {0})
        /\ Len(Tail(Contents(r))) = r.count - 1
        /\ \A k \in 1 .. r.count - 1 : Tail(Contents(r))[k] = Contents(r)[k + 1]
    BY <1>6, <2>5, HeadTailProperties
  <2> DEFINE x == Contents(e)
             y == Tail(Contents(r))
  <2> HIDE DEF x, y
  <2>7. \A k \in 1 .. Len(x) : x[k] = y[k]
    <3>1. Len(x) = r.count - 1
      BY <2>3 DEF x
    <3>2. SUFFICES ASSUME NEW k \in 1 .. r.count - 1 PROVE x[k] = y[k]
      BY <3>1
    <3>3. x[k] = r.done[(((r.first + 1) % RingCap) + k - 1) % RingCap]
      BY <2>1 DEF x
    <3>4. y[k] = r.done[(r.first + (k + 1) - 1) % RingCap]
      BY <2>4, <2>6 DEF y
    <3> QED
      BY <1>5, <3>3, <3>4
  <2>8. x \in Seq(Types \cup {0}) /\ y \in Seq(Types \cup {0}) /\ Len(x) = Len(y)
    BY <2>3, <2>6 DEF x, y
  <2>9. x = y
    BY <2>7, <2>8, SeqEqual
  <2> QED
    BY <2>9 DEF x, y
<1> QED
  BY <1>4, <1>6, <1>7

LEMMA EmptyRingOK == RingOK(EmptyRing) /\ Contents(EmptyRing) = << >>
BY RspAssumption DEF EmptyRing, RingOK, Contents

-----------------------------------------------------------------------------
(* The processor.                                                          *)

LEMMA PhaseSound ==
  ASSUME PhaseInv, phase \in 0 .. Every - 1, NEW s, NEW d, RunGraphics(s, d)
  PROVE  PhaseInv' /\ phase' \in 0 .. Every - 1
<1>1. Every \in Nat \ {0} /\ dark \in Nat
  BY RspAssumption DEF PhaseInv
<1>2. phase' = Skipped.phase
      /\ dark' = IF turbo = "navigation" /\ Skipped.skip THEN dark + 1 ELSE 0
  BY DEF RunGraphics
<1>3. CASE turbo = "navigation"
  <2>1. phase' = (phase + 1) % Every /\ dark' = IF phase # 0 THEN dark + 1 ELSE 0
    BY <1>2, <1>3 DEF Skipped
  <2>2. (phase + 1) % Every = IF phase + 1 < Every THEN phase + 1 ELSE phase + 1 - Every
    <3> DEFINE a == phase + 1
    <3>1. a \in Nat /\ a < 2 * Every
      BY <1>1
    <3> HIDE DEF a
    <3>2. a % Every = IF a < Every THEN a ELSE a - Every
      BY <1>1, <3>1, ModuloWraps
    <3> QED
      BY <1>1, <3>2 DEF a
  <2> QED
    BY <1>1, <2>1, <2>2 DEF PhaseInv
<1>4. CASE turbo # "navigation"
  BY <1>1, <1>2, <1>4 DEF Skipped, PhaseInv
<1> QED
  BY <1>3, <1>4

LEMMA SetStatusSound ==
  ASSUME BackendInv, ProcessorInv,
         NEW clear \in SUBSET Flags, NEW set \in SUBSET Flags,
         NEW s \in Starts, NEW d \in Draws, SetStatus(clear, set, s, d)
  PROVE  BackendInv' /\ ProcessorInv'
<1> DEFINE written == (status \ clear) \cup (set \ {"broke"})
<1>1. written \subseteq Flags /\ {"halt", "broke"} \subseteq Flags
  BY DEF ProcessorInv, Flags
<1>2. CASE "halt" \in written
  <2>1. status' = written /\ UNCHANGED <<task, ring, turbo, phase, pending, dark, host, rt, bridge, late>>
    BY <1>2 DEF SetStatus, rtVars
  <2>2. BackendInv'
    BY <2>1 DEF BackendInv, RtTypeOK, SetupNotCharged
  <2>3. ProcessorInv'
    BY <1>1, <2>1 DEF ProcessorInv, PhaseInv, RingOK, Contents
  <2> QED
    BY <2>2, <2>3
<1>3. CASE "halt" \notin written
  <2>1. /\ status' = written \cup {"halt", "broke"}
        /\ ring' = Enqueue(ring, task.type)
        /\ pending' = IF ring.count < RingCap THEN Append(pending, task.type) ELSE pending
        /\ UNCHANGED <<task, turbo>>
    BY <1>3 DEF SetStatus
  <2>2. task.type \in Types \cup {0} /\ task.size \in Nat
    BY DEF ProcessorInv, Tasks
  <2>3. BackendInv' /\ PhaseInv' /\ phase' \in 0 .. Every - 1
    <3>1. CASE task.type = Graphics
      <4>1. RunGraphics(s, d)
        BY <1>3, <3>1 DEF SetStatus
      <4>2. PhaseInv' /\ phase' \in 0 .. Every - 1
        BY <4>1, PhaseSound DEF ProcessorInv
      <4>3. CASE Skipped.skip
        <5>1. UNCHANGED rtVars
          BY <4>1, <4>3 DEF RunGraphics
        <5> QED
          BY <4>2, <5>1 DEF rtVars, BackendInv, RtTypeOK, SetupNotCharged
      <4>4. CASE ~ Skipped.skip
        <5>1. Submit(s, d, task.size)
          BY <4>1, <4>4 DEF RunGraphics
        <5>2. BackendInv'
          BY <2>2, <5>1, SubmitSound
        <5> QED
          BY <4>2, <5>2
      <4> QED
        BY <4>3, <4>4
    <3>2. CASE task.type # Graphics
      <4>1. UNCHANGED <<phase, dark, host, rt, bridge, late>>
        BY <1>3, <3>2 DEF SetStatus, rtVars
      <4> QED
        BY <4>1 DEF ProcessorInv, PhaseInv, BackendInv, RtTypeOK, SetupNotCharged
    <3> QED
      BY <3>1, <3>2
  <2>4. RingOK(ring') /\ Contents(ring') = pending'
    <3>1. CASE ring.count < RingCap
      BY <2>1, <2>2, <3>1, EnqueueAppends DEF ProcessorInv
    <3>2. CASE ~ (ring.count < RingCap)
      BY <2>1, <3>2 DEF Enqueue, ProcessorInv
    <3> QED
      BY <3>1, <3>2
  <2> HIDE DEF written
  <2>5. RingOK(ring)' /\ (Contents(ring) = pending)'
    BY <2>4 DEF RingOK, Contents
  <2>6. status' \subseteq Flags
    BY <1>1, <2>1
  <2> QED
    BY <2>1, <2>3, <2>5, <2>6 DEF ProcessorInv
<1> QED
  BY <1>2, <1>3

LEMMA TakeSound ==
  ASSUME ProcessorInv, Take
  PROVE  ProcessorInv'
<1> DEFINE e == [ring EXCEPT !.first = (@ + 1) % RingCap, !.count = @ - 1]
<1>1. RingOK(ring) /\ Contents(ring) = pending
  BY DEF ProcessorInv
<1>2. ring.count > 0
  <2>1. ring.count # 0
    BY DEF Take, Peek
  <2> QED
    BY <1>1, <2>1, RspAssumption DEF RingOK
<1>3. RingOK(e) /\ pending # << >> /\ Contents(e) = Tail(pending)
  <2> HIDE DEF e
  <2>1. e = [ring EXCEPT !.first = (@ + 1) % RingCap, !.count = @ - 1]
    BY DEF e
  <2> QED
    BY <1>1, <1>2, <2>1, TakeTails
<1>4. ring' = e /\ pending' = Tail(pending) /\ UNCHANGED <<status, task, turbo, phase, dark>>
  BY <1>3 DEF Take
<1> HIDE DEF e
<1>5. RingOK(ring)' /\ (Contents(ring) = pending)'
  BY <1>3, <1>4 DEF RingOK, Contents
<1> QED
  BY <1>4, <1>5 DEF ProcessorInv, PhaseInv

-----------------------------------------------------------------------------
(* Loads, saves and processes.                                             *)

LEMMA LoadSound ==
  ASSUME SaveInv, NEW s \in Slots, LoadFrom(s), UNCHANGED env
  PROVE  BackendInv' /\ ProcessorInv' /\ WorldInv'
<1> USE DEF SaveInv
<1>1. CASE Valid(s)
  <2>1. PICK i : ImageOK(i) /\ files[s] = Whole(i)
    BY <1>1 DEF DiskInv, Valid, Absent, Torn, BadThread
  <2>2. files[s].image[1] = i
    BY <2>1 DEF Whole
  <2>3. /\ moment' = i.moment /\ switches' = i.switches
        /\ status' = i.sp.status /\ task' = i.sp.task /\ ring' = i.sp.ring
        /\ pending' = i.pending /\ ShutDown /\ UNCHANGED <<turbo, phase, dark>>
    BY <1>1, <2>2 DEF LoadFrom, RestoreWorld, SpRestore
  <2>4. BackendInv'
    BY <2>3, ShutDownSound DEF BackendInv, RtTypeOK
  <2>5. ProcessorInv'
    BY <2>1, <2>3 DEF ImageOK, ProcessorInv, PhaseInv, RingOK, Contents
  <2>6. WorldInv'
    BY <2>1, <2>3 DEF ImageOK, WorldInv
  <2> QED
    BY <2>4, <2>5, <2>6
<1>2. CASE ~ Valid(s)
  BY <1>2 DEF LoadFrom, worldVars, rtVars, spVars, BackendInv, RtTypeOK, SetupNotCharged,
     ProcessorInv, PhaseInv, RingOK, Contents, WorldInv
<1> QED
  BY <1>1, <1>2

LEMMA SaveSound ==
  ASSUME SaveInv, NEW s \in Slots, NEW o \in Outcomes, SaveTo(s, o), UNCHANGED env
  PROVE  DiskInv'
<1> USE DEF SaveInv
<1>1. ImageOK(Captured)
  BY DEF Captured, SpCaptured, ImageOK, WorldInv, ProcessorInv
<1>2. \A i : ImageOK(i) => ImageOK(i)'
  BY DEF ImageOK, RingOK, Contents
<1>3. files' = IF o = "done" THEN [files EXCEPT ![s] = Whole(Captured)] ELSE files
  BY DEF SaveTo
<1>4. saved' = IF o = "done" THEN [saved EXCEPT ![s] = Whole(Captured)] ELSE saved
  BY DEF SaveTo
<1>5. \A t \in Slots : files'[t] = IF o = "done" /\ t = s THEN Whole(Captured) ELSE files[t]
  BY <1>3 DEF DiskInv
<1>6. \A t \in Slots : saved'[t] = IF o = "done" /\ t = s THEN Whole(Captured) ELSE saved[t]
  BY <1>4 DEF DiskInv
<1>7. files' = [t \in Slots |-> files'[t]] /\ saved' = [t \in Slots |-> saved'[t]]
  <2> USE DEF DiskInv
  <2>1. CASE o = "done"
    BY <1>3, <1>4, <2>1
  <2>2. CASE o # "done"
    BY <1>3, <1>4, <2>2
  <2> QED
    BY <2>1, <2>2
<1>8. /\ tmp' = [t \in Slots |-> tmp'[t]]
      /\ \A t \in Slots : tmp'[t].kind \in {"absent", "torn", "whole"}
  <2>1. PICK f : /\ tmp' = [tmp EXCEPT ![s] = f]
                 /\ f \in {Torn, Whole(Captured), tmp[s], Absent}
    BY DEF SaveTo
  <2>2. f.kind \in {"absent", "torn", "whole"}
    BY <2>1 DEF DiskInv, Torn, Whole, Absent
  <2> QED
    BY <2>1, <2>2 DEF DiskInv
<1>9. \A t \in Slots : \/ files'[t] \in {Absent, Torn, BadThread}
                       \/ \E i : ImageOK(i)' /\ files'[t] = Whole(i)
  <2> TAKE t \in Slots
  <2>1. CASE o = "done" /\ t = s
    BY <1>1, <1>2, <1>5, <2>1
  <2>2. CASE ~ (o = "done" /\ t = s)
    <3>1. files'[t] = files[t]
      BY <1>5, <2>2
    <3>2. CASE files[t] \in {Absent, Torn, BadThread}
      BY <3>1, <3>2
    <3>3. CASE \E i : ImageOK(i) /\ files[t] = Whole(i)
      BY <1>2, <3>1, <3>3
    <3> QED
      BY <3>2, <3>3 DEF DiskInv
  <2> QED
    BY <2>1, <2>2
<1>10. LastSaveSurvives'
  BY <1>5, <1>6 DEF DiskInv, LastSaveSurvives
<1> QED
  BY <1>7, <1>8, <1>9, <1>10 DEF DiskInv

LEMMA DiskKept ==
  ASSUME SaveInv, UNCHANGED <<diskVars, env>>
  PROVE  DiskInv'
<1>1. \A i : ImageOK(i) => ImageOK(i)'
  BY DEF ImageOK, RingOK, Contents
<1>2. files' = files /\ tmp' = tmp /\ saved' = saved
  BY DEF diskVars
<1> QED
  BY <1>1, <1>2 DEF SaveInv, DiskInv, LastSaveSurvives

LEMMA BootSound ==
  ASSUME SaveInv, Boot, process < env.processes
  PROVE  BackendInv' /\ ProcessorInv' /\ WorldInv' /\ LoopInv'
<1> USE DEF SaveInv
<1>1. BackendInv'
  BY DEF Boot, BackendInv, RtTypeOK, SetupNotCharged, RtDown, NoApp
<1>2. ProcessorInv'
  <2>1. RingOK(ring)' /\ (Contents(ring) = pending)'
    BY EmptyRingOK DEF Boot, RingOK, Contents
  <2>2. 0 \in 0 .. Every - 1 /\ 0 < Every
    BY RspAssumption
  <2>3. /\ status' = {"halt"} /\ task' = NoTask /\ turbo' = "off" /\ phase' = 0 /\ dark' = 0
    BY DEF Boot
  <2> QED
    BY <2>1, <2>2, <2>3 DEF ProcessorInv, PhaseInv, Flags, Tasks, NoTask
<1>3. env' = env /\ env.switches \in Nat
  BY SessionAssumption DEF Boot, LoopInv
<1>4. WorldInv'
  BY <1>3 DEF Boot, WorldInv
<1>5. LoopInv'
  <2>1. process' \in 1 .. env.processes
    BY SessionAssumption DEF Boot, LoopInv
  <2> QED
    BY <1>3, <2>1 DEF Boot, LoopInv, NoAuto, AutoTypes
<1> QED
  BY <1>1, <1>2, <1>4, <1>5

(* A save in the loop leaves the world alone, or the process is gone.      *)
LEMMA SavingSound ==
  ASSUME SaveInv, NEW s \in Slots, NEW next, NEW newAuto, Saving(s, next, newAuto)
  PROVE  /\ BackendInv' /\ ProcessorInv' /\ WorldInv' /\ DiskInv'
         /\ \/ LoopInv'
            \/ /\ UNCHANGED <<process, env, autoLoads>> /\ at' = next
               /\ auto' \in {newAuto[TRUE], newAuto[FALSE]}
               /\ asked' \in {asked, [asked EXCEPT !.save = 0]}
<1>1. PICK o \in Outcomes :
        /\ SaveTo(s, o)
        /\ IF o \in Killed
           THEN process < env.processes /\ Boot
           ELSE /\ at' = next
                /\ auto' = newAuto[o = "done"]
                /\ asked' = IF at = "save" THEN [asked EXCEPT !.save = 0] ELSE asked
                /\ UNCHANGED <<process, worldVars, rtVars, env, autoLoads>>
  BY DEF Saving
<1>2. CASE o \in Killed
  <2>1. Boot /\ process < env.processes /\ env' = env
    BY <1>1, <1>2 DEF Boot
  <2> QED
    BY <1>1, <2>1, BootSound, SaveSound
<1>3. CASE o \notin Killed
  <2>1. UNCHANGED <<process, worldVars, rtVars, env, autoLoads>>
    BY <1>1, <1>3
  <2>2. DiskInv'
    BY <1>1, <2>1, SaveSound
  <2>3. BackendInv' /\ ProcessorInv' /\ WorldInv'
    BY <2>1 DEF SaveInv, worldVars, rtVars, spVars, BackendInv, RtTypeOK, SetupNotCharged,
       ProcessorInv, PhaseInv, RingOK, Contents, WorldInv
  <2>4. auto' \in {newAuto[TRUE], newAuto[FALSE]}
    BY <1>1, <1>3
  <2>5. asked' \in {asked, [asked EXCEPT !.save = 0]}
    BY <1>1, <1>3
  <2>6. UNCHANGED <<process, env, autoLoads>> /\ at' = next
    BY <1>1, <1>3
  <2> QED
    BY <2>2, <2>3, <2>4, <2>5, <2>6
<1> QED
  BY <1>2, <1>3

-----------------------------------------------------------------------------
LEMMA SaveInit == Init => SaveInv
<1> SUFFICES ASSUME Init PROVE SaveInv
  OBVIOUS
<1>1. env \in Sessions /\ env.processes \in Nat \ {0} /\ env.switches \in Nat
      /\ env.strangers \subseteq {Absent, Torn, BadThread}
  BY SessionAssumption DEF Init
<1>2. BackendInv
  BY DEF Init, RtInit, RtDown, NoApp, BackendInv, RtTypeOK, SetupNotCharged
<1>3. ProcessorInv
  <2>1. 0 \in 0 .. Every - 1 /\ 0 < Every
    BY RspAssumption
  <2> QED
    BY <2>1, EmptyRingOK DEF Init, SpInit, ProcessorInv, PhaseInv, Flags, Tasks, NoTask
<1>4. WorldInv
  BY <1>1 DEF Init, WorldInv
<1>5. DiskInv
  <2>1. files \in [Slots -> env.strangers] /\ tmp = [s \in Slots |-> Absent]
        /\ saved = [s \in Slots |-> Absent]
    BY DEF Init
  <2>2. \A s \in Slots : files[s] \in {Absent, Torn, BadThread}
    BY <1>1, <2>1
  <2>3. LastSaveSurvives
    BY <2>1 DEF LastSaveSurvives
  <2>4. \A s \in Slots : tmp[s].kind \in {"absent", "torn", "whole"}
    BY <2>1 DEF Absent
  <2> QED
    BY <2>1, <2>2, <2>3, <2>4 DEF DiskInv
<1>6. LoopInv
  BY <1>1 DEF Init, LoopInv, NoAuto, AutoTypes
<1> QED
  BY <1>2, <1>3, <1>4, <1>5, <1>6 DEF SaveInv

(* Steps that leave a part alone keep its invariant.                       *)
LEMMA BackendKept == BackendInv /\ UNCHANGED rtVars => BackendInv'
BY DEF rtVars, BackendInv, RtTypeOK, SetupNotCharged

LEMMA ProcessorKept == ProcessorInv /\ UNCHANGED spVars => ProcessorInv'
BY DEF spVars, ProcessorInv, PhaseInv, RingOK, Contents

LEMMA WorldKept == WorldInv /\ UNCHANGED <<moment, switches, env>> => WorldInv'
BY DEF WorldInv

LEMMA LoopKept == LoopInv /\ UNCHANGED <<process, at, asked, env, auto, autoLoads>> => LoopInv'
BY DEF LoopInv

LEMMA SaveNext ==
  ASSUME SaveInv, [Next]_vars
  PROVE  SaveInv'
<1>1. BackendInv /\ ProcessorInv /\ WorldInv /\ DiskInv /\ LoopInv
  BY DEF SaveInv
<1>2. CASE SaveRequest
  <2>1. CASE asked.save # 0
    <3>1. asked.save \in Slots
      BY <1>1, <2>1 DEF LoopInv
    <3> DEFINE newAuto == [ok \in BOOLEAN |-> auto]
    <3>2. Saving(asked.save, "load", newAuto)
      BY <1>2, <2>1 DEF SaveRequest
    <3>3. newAuto[TRUE] = auto /\ newAuto[FALSE] = auto
      OBVIOUS
    <3> HIDE DEF newAuto
    <3>4. /\ BackendInv' /\ ProcessorInv' /\ WorldInv' /\ DiskInv'
          /\ \/ LoopInv'
             \/ /\ UNCHANGED <<process, env, autoLoads>> /\ at' = "load"
                /\ auto' \in {newAuto[TRUE], newAuto[FALSE]}
                /\ asked' \in {asked, [asked EXCEPT !.save = 0]}
      BY <3>1, <3>2, SavingSound
    <3>5. LoopInv'
      BY <1>1, <1>2, <3>3, <3>4 DEF SaveRequest, LoopInv
    <3> QED
      BY <3>4, <3>5 DEF SaveInv
  <2>2. CASE asked.save = 0
    <3>1. at' = "load" /\ UNCHANGED <<process, worldVars, rtVars, asked, env, auto, diskVars, autoLoads>>
      BY <1>2, <2>2 DEF SaveRequest
    <3>2. LoopInv'
      BY <1>1, <1>2, <3>1 DEF SaveRequest, LoopInv
    <3> QED
      BY <1>1, <3>1, <3>2, DiskKept, BackendKept, ProcessorKept, WorldKept DEF worldVars, SaveInv
  <2> QED
    BY <2>1, <2>2
<1>3. CASE LoadRequest
  <2>1. UNCHANGED <<process, env, diskVars, autoLoads>> /\ at' = "start" /\ auto' = ReadEnv(auto)
        /\ asked' = [asked EXCEPT !.load = 0]
    BY <1>3 DEF LoadRequest
  <2>2. BackendInv' /\ ProcessorInv' /\ WorldInv'
    <3>1. CASE asked.load # 0
      BY <1>1, <1>3, <2>1, <3>1, LoadSound DEF LoadRequest, LoopInv
    <3>2. CASE asked.load = 0
      BY <1>1, <1>3, <2>1, <3>2, BackendKept, ProcessorKept, WorldKept DEF LoadRequest, worldVars
    <3> QED
      BY <3>1, <3>2
  <2>3. LoopInv'
    <3>1. CASE auto.ready
      BY <1>1, <2>1, <3>1 DEF ReadEnv, LoopInv
    <3>2. CASE ~ auto.ready
      <4>1. auto = NoAuto /\ autoLoads = 0
        BY <1>1, <3>2 DEF LoopInv, NoAuto
      <4>2. /\ env.saveAt \in Nat /\ env.delta \in Nat /\ env.loadOnStart \in BOOLEAN
            /\ env.slot \in Slots /\ env.slot \in Nat
        BY <1>1, SessionAssumption, SaveAssumption DEF LoopInv
      <4>3. auto' = [ready |-> TRUE, save |-> env.saveAt, delta |-> env.delta,
                     start |-> env.loadOnStart, slot |-> env.slot,
                     saveDone |-> FALSE, loadDone |-> FALSE]
        BY <2>1, <3>2, <4>1 DEF ReadEnv, NoAuto
      <4>4. auto' \in AutoTypes /\ auto'.ready /\ auto'.slot \in Slots /\ ~ auto'.loadDone
        BY <4>2, <4>3 DEF AutoTypes
      <4>5. asked' \in [save : Slots \cup {0}, load : Slots \cup {0}]
        BY <1>1, <2>1 DEF LoopInv
      <4>6. env' \in Sessions /\ process' \in 1 .. env'.processes /\ autoLoads' = 0
        BY <1>1, <2>1, <4>1 DEF LoopInv
      <4> QED
        BY <2>1, <4>4, <4>5, <4>6 DEF LoopInv
    <3> QED
      BY <3>1, <3>2 DEF LoopInv
  <2> QED
    BY <2>1, <2>2, <2>3, DiskKept DEF SaveInv
<1>4. CASE StartLoad
  <2>1. UNCHANGED <<process, asked, env, diskVars>> /\ at' = "autosave"
    BY <1>4 DEF StartLoad
  <2>2. CASE auto.start
    <3>1. /\ LoadFrom(auto.slot)
          /\ auto' = [auto EXCEPT !.start = FALSE, !.loadDone = Valid(auto.slot)]
          /\ autoLoads' = autoLoads + IF Valid(auto.slot) THEN 1 ELSE 0
      BY <1>4, <2>2 DEF StartLoad
    <3>2. auto.ready /\ auto.slot \in Slots
      BY <1>1, <2>2 DEF LoopInv, NoAuto
    <3>3. BackendInv' /\ ProcessorInv' /\ WorldInv'
      BY <2>1, <3>1, <3>2, LoadSound
    <3>4. Valid(auto.slot) \in BOOLEAN
      BY DEF Valid
    <3>5. autoLoads = 0
      BY <1>1, <2>2 DEF LoopInv
    <3>6. autoLoads' = IF auto'.loadDone THEN 1 ELSE 0
      BY <1>1, <3>1, <3>4, <3>5 DEF LoopInv, AutoTypes
    <3>7. /\ auto' \in AutoTypes /\ auto'.ready /\ auto'.slot \in Slots /\ ~ auto'.start
      BY <1>1, <3>1, <3>2, <3>4 DEF LoopInv, AutoTypes
    <3>8. LoopInv'
      BY <1>1, <2>1, <3>6, <3>7 DEF LoopInv
    <3> QED
      BY <2>1, <3>3, <3>8, DiskKept DEF SaveInv
  <2>3. CASE ~ auto.start
    <3>1. UNCHANGED <<worldVars, rtVars, auto, autoLoads>>
      BY <1>4, <2>3 DEF StartLoad
    <3>2. LoopInv'
      BY <1>1, <2>1, <2>3, <3>1 DEF LoopInv
    <3> QED
      BY <1>1, <2>1, <3>1, <3>2, DiskKept, BackendKept, ProcessorKept, WorldKept DEF worldVars, SaveInv
  <2> QED
    BY <2>2, <2>3
<1>5. CASE AutoSave
  <2>1. CASE ~ auto.saveDone /\ auto.save # 0 /\ switches >= auto.save
    <3>1. auto.ready /\ auto.slot \in Slots
      BY <1>1, <2>1 DEF LoopInv, NoAuto
    <3> DEFINE newAuto == [ok \in BOOLEAN |-> [auto EXCEPT !.saveDone = ok]]
    <3>2. Saving(auto.slot, "autoload", newAuto)
      BY <1>5, <2>1 DEF AutoSave
    <3>3. newAuto[TRUE] = [auto EXCEPT !.saveDone = TRUE] /\ newAuto[FALSE] = [auto EXCEPT !.saveDone = FALSE]
      OBVIOUS
    <3> HIDE DEF newAuto
    <3>4. /\ BackendInv' /\ ProcessorInv' /\ WorldInv' /\ DiskInv'
          /\ \/ LoopInv'
             \/ /\ UNCHANGED <<process, env, autoLoads>> /\ at' = "autoload"
                /\ auto' \in {newAuto[TRUE], newAuto[FALSE]}
                /\ asked' \in {asked, [asked EXCEPT !.save = 0]}
      BY <3>1, <3>2, SavingSound
    <3>5. ASSUME NEW ok \in BOOLEAN, auto' = [auto EXCEPT !.saveDone = ok]
          PROVE  /\ auto' \in AutoTypes /\ auto'.ready /\ auto'.slot \in Slots
                 /\ auto'.start = auto.start /\ auto'.loadDone = auto.loadDone
      BY <1>1, <3>1, <3>5 DEF LoopInv, AutoTypes
    <3>6. LoopInv'
      BY <1>1, <1>5, <3>3, <3>4, <3>5 DEF AutoSave, LoopInv
    <3> QED
      BY <3>4, <3>6 DEF SaveInv
  <2>2. CASE ~ (~ auto.saveDone /\ auto.save # 0 /\ switches >= auto.save)
    <3>1. at' = "autoload" /\ UNCHANGED <<process, worldVars, rtVars, asked, env, auto, diskVars, autoLoads>>
      BY <1>5, <2>2 DEF AutoSave
    <3>2. LoopInv'
      BY <1>1, <1>5, <3>1 DEF AutoSave, LoopInv
    <3> QED
      BY <1>1, <3>1, <3>2, DiskKept, BackendKept, ProcessorKept, WorldKept DEF worldVars, SaveInv
  <2> QED
    BY <2>1, <2>2
<1>6. CASE AutoLoad
  <2>1. UNCHANGED <<process, asked, env, diskVars>> /\ at' = "guest"
    BY <1>6 DEF AutoLoad
  <2>2. CASE Due
    <3>1. /\ LoadFrom(auto.slot)
          /\ auto' = IF Valid(auto.slot)
                     THEN [auto EXCEPT !.loadDone = TRUE, !.save = 0, !.delta = 0] ELSE auto
          /\ autoLoads' = autoLoads + IF Valid(auto.slot) THEN 1 ELSE 0
      BY <1>6, <2>2 DEF AutoLoad
    <3>2. auto.ready /\ auto.slot \in Slots /\ ~ auto.loadDone
      BY <1>1, <2>2 DEF Due, LoopInv, NoAuto
    <3>3. BackendInv' /\ ProcessorInv' /\ WorldInv'
      BY <2>1, <3>1, <3>2, LoadSound
    <3>4. LoopInv'
      <4>1. CASE Valid(auto.slot)
        <5>1. auto' = [auto EXCEPT !.loadDone = TRUE, !.save = 0, !.delta = 0] /\ autoLoads' = 1
          BY <1>1, <3>1, <3>2, <4>1 DEF LoopInv
        <5>2. /\ auto' \in AutoTypes /\ auto'.ready /\ auto'.slot \in Slots
              /\ auto'.loadDone /\ auto'.start = auto.start
          BY <1>1, <3>2, <5>1 DEF LoopInv, AutoTypes
        <5>3. ~ auto.start
          BY <1>1, <1>6 DEF AutoLoad, LoopInv
        <5> QED
          BY <1>1, <2>1, <5>1, <5>2, <5>3 DEF LoopInv
      <4>2. CASE ~ Valid(auto.slot)
        BY <1>1, <1>6, <2>1, <3>1, <4>2 DEF AutoLoad, LoopInv
      <4> QED
        BY <4>1, <4>2
    <3> QED
      BY <2>1, <3>3, <3>4, DiskKept DEF SaveInv
  <2>3. CASE ~ Due
    <3>1. UNCHANGED <<worldVars, rtVars, auto, autoLoads>>
      BY <1>6, <2>3 DEF AutoLoad
    <3>2. LoopInv'
      BY <1>1, <1>6, <2>1, <3>1 DEF AutoLoad, LoopInv
    <3> QED
      BY <1>1, <2>1, <3>1, <3>2, DiskKept, BackendKept, ProcessorKept, WorldKept DEF worldVars, SaveInv
  <2> QED
    BY <2>2, <2>3
<1>7. CASE Dispatch
  <2>1. WorldInv'
    BY <1>1, <1>7, SessionAssumption DEF Dispatch, WorldInv, LoopInv
  <2>2. LoopInv'
    BY <1>1, <1>7 DEF Dispatch, LoopInv
  <2>3. UNCHANGED <<spVars, rtVars, diskVars, env>>
    BY <1>7 DEF Dispatch
  <2> QED
    BY <1>1, <2>1, <2>2, <2>3, DiskKept, BackendKept, ProcessorKept DEF SaveInv
<1>8. CASE LoadTask
  <2>1. UNCHANGED <<process, at, moment, switches, asked, env, auto, diskVars, autoLoads, rtVars>>
    BY <1>8 DEF LoadTask, outsideSp
  <2>2. PICK l \in env.loads : Dma(l.dir, l.sp, 1, l.task)
    BY <1>8 DEF LoadTask
  <2>3. l.task \in Tasks
    BY <1>1, SessionAssumption DEF LoopInv, Tasks
  <2>4. ProcessorInv'
    BY <1>1, <2>2, <2>3 DEF Dma, ProcessorInv, PhaseInv, RingOK, Contents
  <2> QED
    BY <1>1, <2>1, <2>4, DiskKept, BackendKept, WorldKept, LoopKept DEF SaveInv
<1>9. CASE WriteStatus
  <2>1. UNCHANGED <<process, at, moment, switches, asked, env, auto, diskVars, autoLoads>>
    BY <1>9 DEF WriteStatus, outsideSp
  <2>2. PICK w \in env.writes, s \in Starts, d \in Draws : SetStatus(w.clear, w.set, s, d)
    BY <1>9 DEF WriteStatus
  <2>3. w.clear \in SUBSET Flags /\ w.set \in SUBSET Flags
    BY <1>1, SessionAssumption DEF LoopInv
  <2>4. BackendInv' /\ ProcessorInv'
    BY <1>1, <2>2, <2>3, SetStatusSound
  <2> QED
    BY <1>1, <2>1, <2>4, DiskKept, WorldKept, LoopKept DEF SaveInv
<1>10. CASE TakeDone
  <2>1. UNCHANGED <<process, at, moment, switches, asked, env, auto, diskVars, autoLoads, rtVars>>
    BY <1>10 DEF TakeDone, outsideSp
  <2>2. ProcessorInv'
    BY <1>1, <1>10, TakeSound DEF TakeDone
  <2> QED
    BY <1>1, <2>1, <2>2, DiskKept, BackendKept, WorldKept, LoopKept DEF SaveInv
<1>11. CASE Turbo
  <2>1. UNCHANGED <<process, at, moment, switches, asked, env, auto, diskVars, autoLoads, rtVars>>
    BY <1>11 DEF Turbo, outsideSp
  <2>2. PICK t \in env.turbos : SetTurbo(t)
    BY <1>11 DEF Turbo
  <2>3. t \in {"off", "navigation", "replay"}
    BY <1>1, SessionAssumption DEF LoopInv
  <2>4. ProcessorInv'
    BY <1>1, <2>2, <2>3 DEF SetTurbo, ProcessorInv, PhaseInv, RingOK, Contents
  <2> QED
    BY <1>1, <2>1, <2>4, DiskKept, BackendKept, WorldKept, LoopKept DEF SaveInv
<1>12. CASE Press
  <2>1. UNCHANGED <<process, at, worldVars, rtVars, env, auto, diskVars, autoLoads>>
    BY <1>12 DEF Press
  <2>2. PICK s \in env.keys : asked' \in {[asked EXCEPT !.save = s], [asked EXCEPT !.load = s]}
    BY <1>12 DEF Press
  <2>3. s \in Slots
    BY <1>1, SessionAssumption DEF LoopInv
  <2>4. LoopInv'
    BY <1>1, <2>1, <2>2, <2>3 DEF LoopInv
  <2> QED
    BY <1>1, <2>1, <2>4, DiskKept, BackendKept, ProcessorKept, WorldKept DEF worldVars, SaveInv
<1>13. CASE Crash
  <2>1. Boot /\ process < env.processes /\ UNCHANGED <<diskVars, env>>
    BY <1>13 DEF Crash, Boot
  <2> QED
    BY <2>1, BootSound, DiskKept DEF SaveInv
<1>14. CASE UNCHANGED vars
  BY <1>1, <1>14, DiskKept, BackendKept, ProcessorKept, WorldKept, LoopKept DEF vars, worldVars, SaveInv
<1> QED
  BY <1>2, <1>3, <1>4, <1>5, <1>6, <1>7, <1>8, <1>9, <1>10, <1>11, <1>12, <1>13, <1>14 DEF Next

LEMMA SaveInvHolds == Spec => []SaveInv
<1>1. SaveInv /\ [Next]_vars => SaveInv'
  BY SaveNext
<1> QED
  BY SaveInit, <1>1, PTL DEF Spec

-----------------------------------------------------------------------------
(* Whatever was saved, refused, loaded or found in a file, all the parts   *)
(* of the world are of one moment, and all variables of their types        *)
(* (snapshot_save, snapshot_load).                                         *)
THEOREM OneMomentCorrect == Spec => []OneMoment
<1>1. SaveInv => OneMoment
  <2> SUFFICES ASSUME SaveInv PROVE OneMoment
    OBVIOUS
  <2> USE DEF SaveInv
  <2>1. \A s \in Slots : files[s].kind \in {"absent", "torn", "bad_thread", "whole"}
    BY DEF DiskInv, Absent, Torn, BadThread, Whole
  <2>2. SpTypeOK
    BY DEF ProcessorInv, RingOK, Tasks, SpTypeOK
  <2>3. moment \in [Parts -> 0 .. env.switches] /\ \A p \in Parts : moment[p] = switches
    BY DEF WorldInv
  <2> QED
    BY <2>1, <2>2, <2>3 DEF OneMoment, TypeOK, BackendInv, WorldInv, DiskInv, LoopInv
<1> QED
  BY <1>1, SaveInvHolds, PTL

(* No save that fails and no process that dies takes a save away that was  *)
(* reported as done (snapshot_save).                                       *)
THEOREM LastSaveSurvivesCorrect == Spec => []LastSaveSurvives
<1>1. SaveInv => LastSaveSurvives
  BY DEF SaveInv, DiskInv
<1> QED
  BY <1>1, SaveInvHolds, PTL

(* A process loads by itself at most once (snapshot_process_requests).     *)
THEOREM AutoLoadOnceCorrect == Spec => []AutoLoadOnce
<1>1. SaveInv => AutoLoadOnce
  BY DEF SaveInv, LoopInv, AutoLoadOnce
<1> QED
  BY <1>1, SaveInvHolds, PTL

(* The ring holds the ends the guest waits for, in order, for every        *)
(* capacity and wherever the ring begins (rsp_enqueue_task_done,           *)
(* rsp_take_task_done, rsp_state_restore).                                 *)
THEOREM RingIsPendingCorrect == Spec => []RingIsPending
<1>1. SaveInv => RingIsPending
  BY DEF SaveInv, ProcessorInv, Contents, RingIsPending, Waiting
<1> QED
  BY <1>1, SaveInvHolds, PTL

(* Fast-forward draws one list in Every at least (pular_grafico).          *)
THEOREM PictureKeptCorrect == Spec => []PictureKept
<1>1. SaveInv => PictureKept
  BY RspAssumption DEF SaveInv, ProcessorInv, PhaseInv, PictureKept
<1> QED
  BY <1>1, SaveInvHolds, PTL

(* The clock owes nothing to a renderer that draws (rt64_backend_submit).  *)
THEOREM SetupNotChargedCorrect == Spec => []SetupNotCharged
<1>1. SaveInv => SetupNotCharged
  BY DEF SaveInv, BackendInv
<1> QED
  BY <1>1, SaveInvHolds, PTL

-----------------------------------------------------------------------------
(* The matrix stack.                                                       *)

Factor == Matrix \cup Camera

(* While no push was lost, the entries up to the top are the game's stack; *)
(* a product that is kept is that of the top and the projection.           *)
StackOK ==
    /\ projection \in Seq(Factor)
    /\ model \in [0 .. MaxModel - 1 -> Seq(Factor)]
    /\ top \in 0 .. MaxModel - 1
    /\ ideal \in Seq(Seq(Factor)) /\ Len(ideal) >= 1
    /\ pushLost \in BOOLEAN /\ dirty \in BOOLEAN
    /\ ~pushLost => Len(ideal) = top + 1 /\ \A i \in 0 .. top : model[i] = ideal[i + 1]
    /\ ~dirty => combined = model[top] \o projection

LEMMA TimesType ==
    ASSUME NEW m \in Factor, NEW s \in Seq(Factor)
    PROVE  Times(m, s) \in Seq(Factor) /\ <<m>> \in Seq(Factor)
BY DEF Times

LEMMA StackInit == MtxInit => StackOK
<1>. SUFFICES ASSUME MtxInit PROVE StackOK
  OBVIOUS
<1>1. Identity \in Seq(Factor) /\ <<Identity>> \in Seq(Seq(Factor)) /\ Len(<<Identity>>) = 1
      /\ <<Identity>>[1] = Identity
  BY DEF Identity
<1>2. projection = Identity /\ model = [i \in 0 .. MaxModel - 1 |-> Identity] /\ top = 0
      /\ ideal = <<Identity>> /\ pushLost = FALSE /\ dirty = TRUE
  BY DEF MtxInit
<1>3. 0 \in 0 .. MaxModel - 1
  BY MatrixAssumption
<1>4. \A i \in 0 .. top : model[i] = ideal[i + 1]
  BY <1>1, <1>2, <1>3
<1>5. /\ dirty /\ pushLost \in BOOLEAN /\ dirty \in BOOLEAN
      /\ Len(ideal) = top + 1 /\ Len(ideal) >= 1
  <2>1. dirty /\ pushLost \in BOOLEAN /\ dirty \in BOOLEAN
    BY <1>2
  <2>2. Len(ideal) = 1 /\ top = 0
    BY <1>1, <1>2
  <2>. QED
    BY <2>1, <2>2
<1>6. model \in [0 .. MaxModel - 1 -> Seq(Factor)]
  BY <1>1, <1>2
<1>7. projection \in Seq(Factor) /\ ideal \in Seq(Seq(Factor)) /\ top \in 0 .. MaxModel - 1
  BY <1>1, <1>2, <1>3
<1>. QED
  BY <1>4, <1>5, <1>6, <1>7 DEF StackOK

LEMMA LoadProjectionKeeps ==
    ASSUME StackOK, NEW m \in Camera, NEW load \in BOOLEAN, LoadProjection(m, load)
    PROVE  StackOK'
<1>1. projection' \in Seq(Factor)
  <2>1. m \in Factor
    BY DEF Factor
  <2>. QED
    BY <2>1, TimesType DEF LoadProjection, StackOK
<1>. QED
  BY <1>1 DEF LoadProjection, StackOK

(* A push that is not lost puts the same product on both stacks; without a *)
(* push both tops are replaced.                                            *)
LEMMA LoadModelKeeps ==
    ASSUME StackOK, NEW m \in Matrix, NEW load \in BOOLEAN, NEW push \in BOOLEAN,
           LoadModel(m, load, push)
    PROVE  StackOK'
<1>. DEFINE p == PushTop(push)
            now == IF load THEN <<m>> ELSE Times(m, IdealTop)
            new == IF load THEN <<m>> ELSE Times(m, model[top])
<1>1. /\ model' = [model EXCEPT ![p.new] = new]
      /\ top' = p.new /\ dirty' = TRUE
      /\ ideal' = IF push THEN Append(ideal, now) ELSE [ideal EXCEPT ![Len(ideal)] = now]
      /\ pushLost' \in BOOLEAN /\ dirty' \in BOOLEAN /\ dirty'
      /\ pushLost' <=> pushLost \/ (push /\ p.new = top)
      /\ UNCHANGED <<projection, combined>>
  BY DEF LoadModel, PushTop
<1>2. p.new = IF push /\ top < MaxModel - 1 THEN top + 1 ELSE top
  BY DEF PushTop
<1>3. /\ MaxModel \in Nat /\ top \in 0 .. MaxModel - 1 /\ ideal \in Seq(Seq(Factor)) /\ Len(ideal) \in Nat
      /\ Len(ideal) >= 1 /\ pushLost \in BOOLEAN /\ dirty \in BOOLEAN
      /\ model \in [0 .. MaxModel - 1 -> Seq(Factor)]
  BY MatrixAssumption, LenProperties DEF StackOK
<1>4. /\ IdealTop = ideal[Len(ideal)] /\ IdealTop \in Seq(Factor)
      /\ ~pushLost => model[top] = IdealTop
  <2>1. IdealTop = ideal[Len(ideal)] /\ Len(ideal) \in 1 .. Len(ideal)
    BY <1>3 DEF IdealTop, Last
  <2>2. IdealTop \in Seq(Factor)
    BY <1>3, <2>1, ElementOfSeq
  <2>3. ~pushLost => Len(ideal) = top + 1 /\ top \in 0 .. top
    BY <1>3 DEF StackOK
  <2>4. ~pushLost => model[top] = ideal[top + 1]
    BY <2>3 DEF StackOK
  <2>. QED
    BY <2>1, <2>2, <2>3, <2>4
<1>5. now \in Seq(Factor) /\ new \in Seq(Factor) /\ (~pushLost => now = new)
  <2>1. m \in Factor
    BY DEF Factor
  <2>. QED
    BY <1>3, <1>4, <2>1, TimesType
<1>. HIDE DEF p, now, new
<1>6. top' \in 0 .. MaxModel - 1 /\ model' \in [0 .. MaxModel - 1 -> Seq(Factor)]
      /\ model'[top'] = new
      /\ \A i \in 0 .. MaxModel - 1 : i # top' => model'[i] = model[i]
  <2>1. top' \in 0 .. MaxModel - 1
    BY <1>1, <1>2, <1>3
  <2>. QED
    BY <1>1, <1>3, <1>5, <2>1
<1>7. CASE push
  <2>1. /\ ideal' \in Seq(Seq(Factor)) /\ Len(ideal') = Len(ideal) + 1
        /\ ideal'[Len(ideal) + 1] = now
        /\ \A i \in 1 .. Len(ideal) : ideal'[i] = ideal[i]
    BY <1>1, <1>3, <1>5, <1>7, AppendProperties
  <2>2. ~pushLost' => Len(ideal') = top' + 1 /\ \A i \in 0 .. top' : model'[i] = ideal'[i + 1]
    <3>. SUFFICES ASSUME ~pushLost' PROVE Len(ideal') = top' + 1 /\ \A i \in 0 .. top' : model'[i] = ideal'[i + 1]
      OBVIOUS
    <3>1. ~pushLost /\ p.new # top
      BY <1>1, <1>7
    <3>2. top' = top + 1 /\ Len(ideal) = top + 1 /\ \A i \in 0 .. top : model[i] = ideal[i + 1]
      BY <1>1, <1>2, <3>1 DEF StackOK
    <3>3. model'[top'] = ideal'[top' + 1]
      BY <1>5, <1>6, <2>1, <3>1, <3>2
    <3>4. ASSUME NEW i \in 0 .. top PROVE model'[i] = ideal'[i + 1]
      <4>1. i \in 0 .. MaxModel - 1 /\ i # top' /\ i + 1 \in 1 .. Len(ideal)
        BY <1>3, <3>2
      <4>. QED
        BY <1>6, <2>1, <3>2, <4>1
    <3>. QED
      BY <1>3, <2>1, <3>2, <3>3, <3>4
  <2>3. Len(ideal') >= 1 /\ projection' \in Seq(Factor)
    BY <1>1, <1>3, <2>1 DEF StackOK
  <2>. QED
    BY <1>1, <1>6, <2>1, <2>2, <2>3 DEF StackOK
<1>8. CASE ~push
  <2>1. /\ ideal' \in Seq(Seq(Factor)) /\ Len(ideal') = Len(ideal)
        /\ \A i \in 1 .. Len(ideal) : ideal'[i] = IF i = Len(ideal) THEN now ELSE ideal[i]
    <3>1. Len(ideal) \in 1 .. Len(ideal) /\ ideal' = [ideal EXCEPT ![Len(ideal)] = now]
      BY <1>1, <1>3, <1>8
    <3>. QED
      BY <1>3, <1>5, <3>1, ExceptSeq
  <2>2. ~pushLost' => Len(ideal') = top' + 1 /\ \A i \in 0 .. top' : model'[i] = ideal'[i + 1]
    <3>. SUFFICES ASSUME ~pushLost' PROVE Len(ideal') = top' + 1 /\ \A i \in 0 .. top' : model'[i] = ideal'[i + 1]
      OBVIOUS
    <3>1. ~pushLost /\ top' = top
      BY <1>1, <1>2, <1>8
    <3>2. Len(ideal) = top + 1 /\ \A i \in 0 .. top : model[i] = ideal[i + 1]
      BY <3>1 DEF StackOK
    <3>3. ASSUME NEW i \in 0 .. top PROVE model'[i] = ideal'[i + 1]
      <4>1. i \in 0 .. MaxModel - 1 /\ i + 1 \in 1 .. Len(ideal) /\ (i = top <=> i + 1 = Len(ideal))
        BY <1>3, <3>2
      <4>. QED
        BY <1>5, <1>6, <2>1, <3>1, <3>2, <4>1
    <3>. QED
      BY <2>1, <3>1, <3>2, <3>3
  <2>. QED
    BY <1>1, <1>3, <1>6, <2>1, <2>2 DEF StackOK
<1>. QED
  BY <1>7, <1>8

(* A pop takes as many entries from both stacks and leaves one.            *)
LEMMA PopKeeps ==
    ASSUME StackOK, NEW units \in 0 .. 2, PopMatrix(units)
    PROVE  StackOK'
<1>. DEFINE n == IF units = 0 THEN 1 ELSE units
            keep == IF Len(ideal) - n < 1 THEN 1 ELSE Len(ideal) - n
<1>1. /\ top' = IF n > top THEN 0 ELSE top - n
      /\ dirty' /\ dirty' \in BOOLEAN /\ ideal' = SubSeq(ideal, 1, keep)
      /\ UNCHANGED <<projection, model, combined, pushLost>>
  BY DEF PopMatrix, Pop
<1>2. /\ MaxModel \in Nat /\ top \in 0 .. MaxModel - 1 /\ ideal \in Seq(Seq(Factor)) /\ Len(ideal) \in Nat
      /\ Len(ideal) >= 1 /\ n \in 1 .. 2
  BY MatrixAssumption, LenProperties DEF StackOK
<1>3. keep \in 1 .. Len(ideal)
  BY <1>2
<1>4. ~pushLost => Len(ideal) = top + 1 /\ keep = top' + 1
  <2>1. ~pushLost => Len(ideal) = top + 1
    BY DEF StackOK
  <2>. QED
    BY <1>1, <1>2, <2>1
<1>. HIDE DEF keep
<1>5. /\ ideal' \in Seq(Seq(Factor)) /\ Len(ideal') = keep
      /\ \A i \in 1 .. keep : ideal'[i] = ideal[i]
  <2>1. \A i \in 1 .. keep : ideal[i] \in Seq(Factor)
    BY <1>2, <1>3, ElementOfSeq
  <2>2. /\ SubSeq(ideal, 1, keep) \in Seq(Seq(Factor))
        /\ Len(SubSeq(ideal, 1, keep)) = IF 1 <= keep THEN keep - 1 + 1 ELSE 0
        /\ \A i \in 1 .. keep - 1 + 1 : SubSeq(ideal, 1, keep)[i] = ideal[1 + i - 1]
    BY <1>2, <1>3, <2>1, SubSeqProperties
  <2>. QED
    BY <1>1, <1>2, <1>3, <2>2
<1>6. top' \in 0 .. MaxModel - 1 /\ top' <= top
  BY <1>1, <1>2
<1>7. ~pushLost => \A i \in 0 .. top' : model[i] = ideal'[i + 1]
  <2>. SUFFICES ASSUME ~pushLost, NEW i \in 0 .. top' PROVE model[i] = ideal'[i + 1]
    OBVIOUS
  <2>1. i \in 0 .. top /\ i + 1 \in 1 .. keep
    BY <1>1, <1>2, <1>4, <1>6
  <2>2. model[i] = ideal[i + 1]
    BY <2>1 DEF StackOK
  <2>. QED
    BY <1>5, <2>1, <2>2
<1>8. projection' \in Seq(Factor) /\ model' \in [0 .. MaxModel - 1 -> Seq(Factor)]
  BY <1>1 DEF StackOK
<1>9. Len(ideal') >= 1 /\ pushLost' \in BOOLEAN
  BY <1>1, <1>2, <1>3, <1>5 DEF StackOK
<1>10. ~pushLost' => Len(ideal') = top' + 1 /\ \A i \in 0 .. top' : model'[i] = ideal'[i + 1]
  BY <1>1, <1>4, <1>5, <1>7 DEF StackOK
<1>. QED
  BY <1>1, <1>5, <1>6, <1>8, <1>9, <1>10 DEF StackOK

LEMMA LoadVertexKeeps ==
    ASSUME StackOK, NEW lighting \in BOOLEAN, LoadVertex(lighting)
    PROVE  StackOK'
BY DEF StackOK, LoadVertex, Product

LEMMA StackSame == StackOK /\ UNCHANGED <<projection, model, top, combined, dirty, ideal, pushLost>> => StackOK'
BY DEF StackOK

LEMMA StackNext == StackOK /\ [DrawNext]_drawVars => StackOK'
<1>. SUFFICES ASSUME StackOK, [DrawNext]_drawVars PROVE StackOK'
  OBVIOUS
<1>1. CASE Matrices
  BY <1>1, LoadProjectionKeeps, LoadModelKeeps, PopKeeps, LoadVertexKeeps DEF Matrices
<1>2. CASE Lights
  <2>1. ASSUME NEW n \in 0 .. MaxLights, LoadLight(n) PROVE StackOK'
    BY <2>1, StackSame DEF LoadLight
  <2>2. ASSUME NEW n \in 0 .. MaxLights + 1, SetLightCount(n) PROVE StackOK'
    BY <2>2, StackSame DEF SetLightCount
  <2>. QED
    BY <1>2, <2>1, <2>2, LoadVertexKeeps DEF Lights
<1>3. CASE UNCHANGED mtxVars
  BY <1>3, StackSame DEF mtxVars
<1>4. Matrices \/ Lights \/ UNCHANGED mtxVars
  BY DEF DrawNext, Command, StartTask, EndList, CallList, SetSegment, SetScissor, SetTexture, Images,
         OtherModes, Rectangle, SpriteRectangle, Triangles, KeepMtx, drawVars
<1>. QED
  BY <1>1, <1>2, <1>3, <1>4

LEMMA StackShows == StackOK => VertexByStack
<1>. SUFFICES ASSUME StackOK, ~pushLost PROVE Product = IdealTop \o projection
  BY DEF VertexByStack
<1>1. Len(ideal) = top + 1 /\ top \in 0 .. top
  BY MatrixAssumption DEF StackOK
<1>2. model[top] = ideal[top + 1]
  BY <1>1 DEF StackOK
<1>3. IdealTop = model[top]
  BY <1>1, <1>2 DEF IdealTop, Last
<1>. QED
  BY <1>3 DEF Product, StackOK

(* As long as no push found the stack full, a vertex is transformed by the *)
(* product of the matrix on top of the game's stack and the projection:    *)
(* for a stack of any size, lists of any length and any number of pops.    *)
THEOREM VertexByStackAlways == DrawSpec => []VertexByStack
<1>1. DrawInit => StackOK
  BY StackInit DEF DrawInit
<1>. QED
  BY <1>1, StackNext, StackShows, PTL DEF DrawSpec

-----------------------------------------------------------------------------
(* The samples of a pixel.                                                 *)

Record(p) ==
    /\ p = [ram |-> p.ram, owner |-> p.owner, cover |-> p.cover, colour |-> p.colour,
            zValid |-> p.zValid, depth |-> p.depth]
    /\ p.ram = [b \in Buffer |-> p.ram[b]]
    /\ p.cover \in BOOLEAN /\ p.zValid \in BOOLEAN

(* Samples with a colour are those of a colour buffer (no depth that is    *)
(* written changes what they add up to).                                   *)
Coherent(p) ==
    /\ Record(p)
    /\ p.cover => p.owner[1] \in ColourBuffer /\ p.ram[p.owner[1]] = Resolve(p.colour)

PixelOK ==
    /\ cimg \in Buffer /\ zimg \in DepthBuffer /\ mode \in Mode
    /\ Coherent(pixel)

(* A write to a depth buffer.                                              *)
LEMMA DepthWrite ==
    ASSUME NEW p, Coherent(p), NEW b \in DepthBuffer, NEW z
    PROVE  Coherent([p EXCEPT !.ram[b] = z])
<1>. DEFINE q == [p EXCEPT !.ram[b] = z]
<1>1. /\ q = [ram |-> [p.ram EXCEPT ![b] = z], owner |-> p.owner, cover |-> p.cover,
              colour |-> p.colour, zValid |-> p.zValid, depth |-> p.depth]
      /\ p.cover \in BOOLEAN /\ p.zValid \in BOOLEAN
      /\ p.ram = [x \in Buffer |-> p.ram[x]]
  BY DEF Coherent, Record
<1>. HIDE DEF q
<1>2. /\ q.ram = [x \in Buffer |-> IF x = b THEN z ELSE p.ram[x]]
      /\ q.owner = p.owner /\ q.cover = p.cover /\ q.colour = p.colour
  BY <1>1
<1>3. Record(q)
  BY <1>1, <1>2 DEF Record
<1>4. \A x \in ColourBuffer : q.ram[x] = p.ram[x]
  BY <1>2, PixelAssumption DEF Buffer
<1>5. q.cover => q.owner[1] \in ColourBuffer /\ q.ram[q.owner[1]] = Resolve(q.colour)
  BY <1>2, <1>4 DEF Coherent
<1>. QED
  BY <1>3, <1>5 DEF Coherent, q

(* Samples without a colour are coherent with any pixel.                   *)
LEMMA UnsampledOK ==
    ASSUME NEW p, Record(p)
    PROVE  /\ Record(Unsampled(p)) /\ Coherent(Unsampled(p))
           /\ \A o : LET q == [Unsampled(p) EXCEPT !.owner = o] IN Coherent(q) /\ q.owner = o
<1>1. PICK no : no = FALSE
  OBVIOUS
<1>2. PICK r, w, c, k, y, d :
          /\ p = [ram |-> r, owner |-> w, cover |-> c, colour |-> k, zValid |-> y, depth |-> d]
          /\ r = [b \in Buffer |-> r[b]]
  <2>1. p = [ram |-> p.ram, owner |-> p.owner, cover |-> p.cover, colour |-> p.colour,
             zValid |-> p.zValid, depth |-> p.depth]
        /\ p.ram = [b \in Buffer |-> p.ram[b]]
    BY DEF Record
  <2>. QED
    BY <2>1
<1>3. Unsampled(p) = [[p EXCEPT !.cover = no] EXCEPT !.zValid = no]
  BY <1>1 DEF Unsampled
<1>4. Unsampled(p) = [ram |-> r, owner |-> w, cover |-> no, colour |-> k, zValid |-> no, depth |-> d]
  BY <1>2, <1>3
<1>5. ASSUME NEW o
      PROVE  LET q == [ram |-> r, owner |-> o, cover |-> no, colour |-> k, zValid |-> no, depth |-> d]
             IN  Record(q) /\ Coherent(q) /\ q.owner = o
  <2>. DEFINE q == [ram |-> r, owner |-> o, cover |-> no, colour |-> k, zValid |-> no, depth |-> d]
  <2>1. /\ q.ram = r /\ q.owner = o /\ q.cover = no /\ q.colour = k /\ q.zValid = no /\ q.depth = d
        /\ q = [ram |-> r, owner |-> o, cover |-> no, colour |-> k, zValid |-> no, depth |-> d]
    OBVIOUS
  <2>. HIDE DEF q
  <2>2. q.cover = FALSE /\ q.zValid = FALSE
    BY <1>1, <2>1
  <2>3. Record(q)
    <3>1. q = [ram |-> q.ram, owner |-> q.owner, cover |-> q.cover, colour |-> q.colour,
               zValid |-> q.zValid, depth |-> q.depth]
      BY <2>1
    <3>2. q.cover \in BOOLEAN /\ q.zValid \in BOOLEAN /\ q.ram = [b \in Buffer |-> q.ram[b]]
      BY <1>2, <2>1, <2>2
    <3>. QED
      BY <3>1, <3>2 DEF Record
  <2>4. Coherent(q)
    BY <2>2, <2>3 DEF Coherent
  <2>. QED
    BY <2>1, <2>3, <2>4 DEF q
<1>6. ASSUME NEW o
      PROVE  [Unsampled(p) EXCEPT !.owner = o]
                 = [ram |-> r, owner |-> o, cover |-> no, colour |-> k, zValid |-> no, depth |-> d]
  BY <1>4
<1>. QED
  BY <1>4, <1>5, <1>6

LEMMA WrittenRecord ==
    ASSUME NEW p, Record(p), cimg \in Buffer, NEW v
    PROVE  Record(Written(p, v))
<1>1. Written(p, v) = [ram |-> [p.ram EXCEPT ![cimg] = v], owner |-> p.owner, cover |-> p.cover,
                       colour |-> p.colour, zValid |-> p.zValid, depth |-> p.depth]
  BY DEF Record, Written
<1>. QED
  BY <1>1 DEF Record

LEMMA OwnedOK ==
    ASSUME NEW p, Record(p)
    PROVE  /\ Record(Owned(p)) /\ Owned(p).owner = <<cimg, zimg>>
           /\ Coherent(p) => Coherent(Owned(p))
<1>1. CASE p.owner = <<cimg, zimg>>
  BY <1>1 DEF Owned
<1>2. CASE p.owner # <<cimg, zimg>>
  <2>. DEFINE q == [Unsampled(p) EXCEPT !.owner = <<cimg, zimg>>]
  <2>1. Owned(p) = q
    BY <1>2 DEF Owned
  <2>2. Coherent(q) /\ q.owner = <<cimg, zimg>>
    BY UnsampledOK
  <2>. QED
    BY <2>1, <2>2 DEF Coherent
<1>. QED
  BY <1>1, <1>2

LEMMA FilledOK ==
    ASSUME NEW p, Record(p), cimg \in Buffer, NEW v
    PROVE  Coherent(Filled(p, v)) /\ Record(Filled(p, v))
<1>1. Record(Owned(Written(p, v)))
  BY WrittenRecord, OwnedOK
<1>. QED
  BY <1>1, UnsampledOK DEF Filled

LEMMA SpriteOK ==
    ASSUME NEW p, Record(p), cimg \in Buffer, NEW v
    PROVE  Coherent(Sprite(p, v))
BY WrittenRecord, UnsampledOK DEF Sprite

LEMMA DrawnPlainOK ==
    ASSUME NEW p, Coherent(p), cimg \in Buffer, zimg \in DepthBuffer, NEW z, NEW v, NEW opaque
    PROVE  Coherent(DrawnPlain(p, z, v, opaque))
<1>. DEFINE passes == ~mode.test \/ z <= p.ram[zimg]
            tested == IF passes /\ mode.write THEN [p EXCEPT !.ram[zimg] = z] ELSE p
<1>1. Coherent(tested) /\ Record(tested)
  BY DepthWrite DEF Coherent
<1>2. DrawnPlain(p, z, v, opaque) = IF passes /\ opaque THEN Unsampled(Written(tested, v)) ELSE tested
  BY DEF DrawnPlain
<1>. HIDE DEF tested
<1>. QED
  BY <1>1, <1>2, WrittenRecord, UnsampledOK

LEMMA DrawnSamplesOK ==
    ASSUME NEW p, Coherent(p), cimg \in ColourBuffer, zimg \in DepthBuffer,
           NEW mask, NEW z, NEW v, NEW opaque
    PROVE  Coherent(DrawnSamples(p, mask, z, v, opaque))
<1>. DEFINE o == Owned(p)
            depths == IF o.zValid THEN o.depth ELSE Same(o.ram[zimg])
            passing == IF mode.test THEN {s \in mask : z <= depths[s]} ELSE mask
            deeper == IF mode.write THEN After(depths, passing, z) ELSE depths
            near == IF mode.write /\ passing # {} THEN Nearest(deeper) ELSE o.ram[zimg]
            tested == IF ~UsesDepth THEN o
                      ELSE [o EXCEPT !.zValid = TRUE, !.depth = deeper,
                                     !.ram[zimg] = IF mode.write /\ passing # {} THEN Nearest(deeper) ELSE @]
            under == IF o.cover THEN o.colour ELSE Same(o.ram[cimg])
            colours == After(under, passing, v)
<1>1. DrawnSamples(p, mask, z, v, opaque) =
          IF passing # {} /\ opaque
          THEN [tested EXCEPT !.cover = TRUE, !.colour = colours, !.ram[cimg] = Resolve(colours)]
          ELSE tested
  BY DEF DrawnSamples
<1>2. Coherent(o) /\ o.owner = <<cimg, zimg>>
  BY OwnedOK DEF Coherent
<1>. HIDE DEF o, depths, passing, deeper, under, colours
<1>3. PICK yes : yes = TRUE
  OBVIOUS
<1>. DEFINE timed == [[o EXCEPT !.zValid = yes] EXCEPT !.depth = deeper]
<1>4. Coherent(tested) /\ tested.owner = <<cimg, zimg>>
  <2>1. CASE ~UsesDepth
    BY <1>2, <2>1
  <2>2. CASE UsesDepth
    <3>1. o = [ram |-> o.ram, owner |-> o.owner, cover |-> o.cover, colour |-> o.colour,
               zValid |-> o.zValid, depth |-> o.depth]
          /\ o.ram = [b \in Buffer |-> o.ram[b]] /\ o.cover \in BOOLEAN
      BY <1>2 DEF Coherent, Record
    <3>2. PICK r, w, c, k, y, d :
              /\ o = [ram |-> r, owner |-> w, cover |-> c, colour |-> k, zValid |-> y, depth |-> d]
              /\ r = [b \in Buffer |-> r[b]]
      BY <3>1
    <3>4. timed = [ram |-> r, owner |-> w, cover |-> c, colour |-> k, zValid |-> yes, depth |-> deeper]
      <4>1. [o EXCEPT !.zValid = yes]
                = [ram |-> r, owner |-> w, cover |-> c, colour |-> k, zValid |-> yes, depth |-> d]
        BY <3>2
      <4>2. PICK e, x : e = [o EXCEPT !.zValid = yes] /\ x = deeper
        OBVIOUS
      <4>3. e = [ram |-> r, owner |-> w, cover |-> c, colour |-> k, zValid |-> yes, depth |-> d]
        BY <4>1, <4>2
      <4>4. [e EXCEPT !.depth = x]
                = [ram |-> r, owner |-> w, cover |-> c, colour |-> k, zValid |-> yes, depth |-> x]
        BY <4>3
      <4>. QED
        BY <4>2, <4>4
    <3>5. tested = [timed EXCEPT !.ram[zimg] = near]
      <4>1. tested = [[[o EXCEPT !.zValid = yes] EXCEPT !.depth = deeper] EXCEPT !.ram[zimg] = near]
        <5>1. /\ [o EXCEPT !.zValid = yes]
                    = [ram |-> r, owner |-> w, cover |-> c, colour |-> k, zValid |-> yes, depth |-> d]
              /\ o.ram = r
          BY <3>2
        <5>2. [[o EXCEPT !.zValid = yes] EXCEPT !.depth = deeper].ram[zimg] = o.ram[zimg]
          BY <5>1
        <5>. QED
          BY <1>3, <2>2, <5>2
      <4>. QED
        BY <4>1
    <3>. HIDE DEF near, tested, timed
    <3>6. Coherent(timed) /\ timed.owner = <<cimg, zimg>>
      <4>1. /\ timed.ram = r /\ timed.owner = w /\ timed.cover = c /\ timed.colour = k
            /\ timed.zValid = yes /\ timed.depth = deeper
            /\ o.ram = r /\ o.owner = w /\ o.cover = c /\ o.colour = k
        BY <3>2, <3>4
      <4>2. Record(timed)
        <5>1. timed = [ram |-> timed.ram, owner |-> timed.owner, cover |-> timed.cover,
                       colour |-> timed.colour, zValid |-> timed.zValid, depth |-> timed.depth]
          BY <3>4, <4>1
        <5>2. timed.cover \in BOOLEAN /\ timed.zValid \in BOOLEAN
          BY <1>3, <3>1, <4>1
        <5>3. timed.ram = [b \in Buffer |-> timed.ram[b]]
          BY <3>2, <4>1
        <5>. QED
          BY <5>1, <5>2, <5>3 DEF Record
      <4>3. timed.cover => timed.owner[1] \in ColourBuffer
                           /\ timed.ram[timed.owner[1]] = Resolve(timed.colour)
        BY <1>2, <4>1 DEF Coherent
      <4>. QED
        BY <1>2, <4>1, <4>2, <4>3 DEF Coherent
    <3>7. Coherent(tested)
      BY <3>5, <3>6, DepthWrite
    <3>8. tested.owner = <<cimg, zimg>>
      BY <3>4, <3>5, <3>6
    <3>. QED
      BY <3>7, <3>8
  <2>. QED
    BY <2>1, <2>2
<1>. HIDE DEF tested
<1>. DEFINE q == [tested EXCEPT !.cover = TRUE, !.colour = colours, !.ram[cimg] = Resolve(colours)]
<1>5. Coherent(q)
  <2>1. tested = [ram |-> tested.ram, owner |-> tested.owner, cover |-> tested.cover,
                  colour |-> tested.colour, zValid |-> tested.zValid, depth |-> tested.depth]
        /\ tested.ram = [b \in Buffer |-> tested.ram[b]] /\ tested.zValid \in BOOLEAN
        /\ cimg \in Buffer
    BY <1>4 DEF Coherent, Record, Buffer
  <2>2. PICK r, c, k, y, d :
            /\ tested = [ram |-> r, owner |-> <<cimg, zimg>>, cover |-> c, colour |-> k,
                         zValid |-> y, depth |-> d]
            /\ r = [b \in Buffer |-> r[b]] /\ y \in BOOLEAN
    BY <1>4, <2>1
  <2>3. q = [[[tested EXCEPT !.cover = yes] EXCEPT !.colour = colours] EXCEPT !.ram[cimg] = Resolve(colours)]
    <3>1. [[[tested EXCEPT !.cover = TRUE] EXCEPT !.colour = colours] EXCEPT !.ram[cimg] = Resolve(colours)] = q
      OBVIOUS
    <3>. QED
      BY <1>3, <3>1
  <2>. DEFINE m == [r EXCEPT ![cimg] = Resolve(colours)]
  <2>4. q = [ram |-> m, owner |-> <<cimg, zimg>>, cover |-> yes, colour |-> colours,
             zValid |-> y, depth |-> d]
    <3>1. [tested EXCEPT !.cover = yes]
              = [ram |-> r, owner |-> <<cimg, zimg>>, cover |-> yes, colour |-> k, zValid |-> y, depth |-> d]
      BY <2>2
    <3>2. PICK e, f : e = [tested EXCEPT !.cover = yes] /\ f = [e EXCEPT !.colour = colours]
      OBVIOUS
    <3>3. f = [ram |-> r, owner |-> <<cimg, zimg>>, cover |-> yes, colour |-> colours,
               zValid |-> y, depth |-> d]
      BY <3>1, <3>2
    <3>4. [f EXCEPT !.ram[cimg] = Resolve(colours)]
              = [ram |-> m, owner |-> <<cimg, zimg>>, cover |-> yes, colour |-> colours,
                 zValid |-> y, depth |-> d]
      BY <3>3
    <3>. QED
      BY <2>3, <3>2, <3>4
  <2>5. m[cimg] = Resolve(colours) /\ m = [b \in Buffer |-> m[b]]
    BY <2>1, <2>2
  <2>. HIDE DEF q, m
  <2>6. /\ q.ram = m /\ q.owner = <<cimg, zimg>> /\ q.cover = yes /\ q.colour = colours
        /\ q.zValid = y /\ q.depth = d /\ q.owner[1] = cimg
    BY <2>4
  <2>7. Record(q)
    <3>1. q = [ram |-> q.ram, owner |-> q.owner, cover |-> q.cover, colour |-> q.colour,
               zValid |-> q.zValid, depth |-> q.depth]
      BY <2>4, <2>6
    <3>2. q.cover \in BOOLEAN /\ q.zValid \in BOOLEAN
      BY <1>3, <2>2, <2>6
    <3>. QED
      BY <2>5, <2>6, <3>1, <3>2 DEF Record
  <2>. QED
    BY <2>5, <2>6, <2>7 DEF Coherent
<1>. QED
  BY <1>1, <1>4, <1>5

LEMMA PixelInits == PixelInit => PixelOK
<1>1. Blank.cover = FALSE /\ Record(Blank)
  BY DEF Blank, Record
<1>. QED
  BY <1>1 DEF PixelInit, PixelOK, Coherent, Buffer, Mode

LEMMA PixelSame == PixelOK /\ UNCHANGED pixelVars => PixelOK'
BY DEF PixelOK, pixelVars

LEMMA TriangleKeeps ==
    ASSUME PixelOK, NEW clears \in BOOLEAN, NEW mask \in SUBSET Sample, NEW z \in Value,
           NEW v \in Value, NEW opaque \in BOOLEAN, Triangle(clears, mask, z, v, opaque)
    PROVE  PixelOK'
<1>. DEFINE p == IF clears THEN Cleared(pixel) ELSE pixel
<1>1. /\ cimg \in ColourBuffer /\ cimg \in Buffer /\ zimg \in DepthBuffer /\ mode \in Mode
      /\ pixel' = IF mode.aa THEN DrawnSamples(p, mask, z, v, opaque) ELSE DrawnPlain(p, z, v, opaque)
      /\ UNCHANGED <<cimg, zimg, mode>>
  BY DEF PixelOK, Triangle
<1>2. Coherent(p)
  <2>1. Coherent(pixel) /\ Record(pixel)
    BY DEF PixelOK, Coherent
  <2>. QED
    BY <1>1, <2>1, FilledOK DEF Cleared
<1>. HIDE DEF p
<1>3. Coherent(DrawnSamples(p, mask, z, v, opaque)) /\ Coherent(DrawnPlain(p, z, v, opaque))
  BY <1>1, <1>2, DrawnSamplesOK, DrawnPlainOK
<1>4. Coherent(pixel')
  BY <1>1, <1>3
<1>. QED
  BY <1>1, <1>4 DEF PixelOK

LEMMA PixelNext == PixelOK /\ [DrawNext]_drawVars => PixelOK'
<1>. SUFFICES ASSUME PixelOK, [DrawNext]_drawVars PROVE PixelOK'
  OBVIOUS
<1>1. cimg \in Buffer /\ zimg \in DepthBuffer /\ mode \in Mode /\ Record(pixel) /\ Coherent(pixel)
  BY DEF PixelOK, Coherent
<1>2. CASE UNCHANGED pixelVars
  BY <1>2, PixelSame
<1>3. CASE Images
  BY <1>1, <1>3 DEF Images, SetColourImage, SetDepthImage, PixelOK
<1>4. CASE OtherModes(Mode)
  BY <1>1, <1>4 DEF OtherModes, SetOtherMode, PixelOK
<1>5. CASE Rectangle
  <2>1. PICK v \in Value : FillRect(v)
    BY <1>5 DEF Rectangle
  <2>2. Coherent(Filled(pixel, v))
    BY <1>1, FilledOK
  <2>. QED
    BY <1>1, <2>1, <2>2 DEF FillRect, PixelOK
<1>6. CASE SpriteRectangle
  <2>1. PICK v \in Value : TexRect(v)
    BY <1>6 DEF SpriteRectangle
  <2>2. Coherent(Sprite(pixel, v))
    BY <1>1, SpriteOK
  <2>. QED
    BY <1>1, <2>1, <2>2 DEF TexRect, PixelOK
<1>7. CASE Triangles
  <2>1. PICK mask \in SUBSET Sample, z \in Value, v \in Value, opaque \in BOOLEAN :
            Triangle(scene3D /\ ~started3D, mask, z, v, opaque)
    BY <1>7 DEF Triangles
  <2>. DEFINE clears == scene3D /\ ~started3D
  <2>2. clears \in BOOLEAN /\ Triangle(clears, mask, z, v, opaque)
    BY <2>1
  <2>. HIDE DEF clears
  <2>. QED
    BY <2>2, TriangleKeeps
<1>8. UNCHANGED pixelVars \/ Images \/ OtherModes(Mode) \/ Rectangle \/ SpriteRectangle \/ Triangles
  BY DEF DrawNext, Command, StartTask, EndList, CallList, SetSegment, SetScissor, SetTexture,
         Matrices, Lights, KeepPixel, drawVars
<1>. QED
  BY <1>2, <1>3, <1>4, <1>5, <1>6, <1>7, <1>8

(* However rectangles, sprites and triangles with and without antialiasing *)
(* follow each other, in whatever buffers, the samples a pixel keeps add   *)
(* up to what its colour buffer shows: for any number of buffers, samples  *)
(* and colours.                                                            *)
THEOREM ColourCoherentAlways == DrawSpec => []ColourCoherent
<1>1. DrawInit => PixelOK
  BY PixelInits DEF DrawInit
<1>2. PixelOK => ColourCoherent
  BY DEF PixelOK, Coherent, ColourCoherent
<1>. QED
  BY <1>1, <1>2, PixelNext, PTL DEF DrawSpec

-----------------------------------------------------------------------------
(* The lists being drawn.                                                  *)

LEMMA CallFacts ==
    ASSUME NEW s \in Seq(0 .. MaxCommands), s # <<>>
    PROVE  /\ Len(s) \in Nat \ {0} /\ Last(s) = s[Len(s)] /\ Last(s) \in 0 .. MaxCommands
           /\ Front(s) \in Seq(0 .. MaxCommands) /\ Len(Front(s)) = Len(s) - 1
<1>1. Len(s) \in Nat \ {0} /\ \A i \in 1 .. Len(s) : s[i] \in 0 .. MaxCommands
  <2>1. Len(s) \in Nat /\ Len(s) # 0
    BY LenProperties, EmptySeq
  <2>2. \A i \in 1 .. Len(s) : s[i] \in 0 .. MaxCommands
    BY ElementOfSeq
  <2>. QED
    BY <2>1, <2>2
<1>2. Last(s) = s[Len(s)]
  BY DEF Last
<1>3. /\ SubSeq(s, 1, Len(s) - 1) \in Seq(0 .. MaxCommands)
      /\ Len(SubSeq(s, 1, Len(s) - 1)) = Len(s) - 1
  <2>1. \A i \in 1 .. Len(s) - 1 : s[i] \in 0 .. MaxCommands
    BY <1>1
  <2>2. PICK n \in Nat : n = Len(s) - 1
    BY <1>1
  <2>3. /\ SubSeq(s, 1, n) \in Seq(0 .. MaxCommands)
        /\ Len(SubSeq(s, 1, n)) = IF 1 <= n THEN n - 1 + 1 ELSE 0
    BY <2>1, <2>2, SubSeqProperties
  <2>4. Len(SubSeq(s, 1, n)) = n
    BY <2>3
  <2>. QED
    BY <2>2, <2>3, <2>4
<1>. QED
  BY <1>1, <1>2, <1>3 DEF Front

(* The place in the list being drawn moves on, those of its callers stay.  *)
Onward(after) ==
    /\ after \in Seq(0 .. MaxCommands) /\ Len(after) >= Len(calls)
    /\ \A i \in 1 .. Len(calls) - 1 : after[i] = calls[i]
    /\ after[Len(calls)] > calls[Len(calls)]

LEMMA PlaceMoves ==
    ASSUME calls \in Seq(0 .. MaxCommands), Reading, NEW n \in 1 .. 3
    PROVE  /\ Onward(NextPlace(n)) /\ Len(NextPlace(n)) = Len(calls)
           /\ \A branch \in BOOLEAN, resolved \in BOOLEAN :
                 LET e == EnterList(resolved, branch)
                 IN  Onward(e) /\ Len(e) <= IF Level < MaxLevel THEN Len(calls) + 1 ELSE Len(calls)
<1>1. /\ Len(calls) \in Nat \ {0} /\ calls[Len(calls)] \in 0 .. MaxCommands
      /\ calls[Len(calls)] < MaxCommands /\ MaxCommands \in Nat
  BY CallFacts, NestAssumption DEF Reading, Drawing
<1>2. ASSUME NEW v \in 0 .. MaxCommands, v > calls[Len(calls)]
      PROVE  /\ Onward([calls EXCEPT ![Len(calls)] = v])
             /\ Len([calls EXCEPT ![Len(calls)] = v]) = Len(calls)
  <2>. DEFINE s == [calls EXCEPT ![Len(calls)] = v]
  <2>1. Len(calls) \in 1 .. Len(calls)
    BY <1>1
  <2>2. /\ s \in Seq(0 .. MaxCommands) /\ Len(s) = Len(calls)
        /\ \A i \in 1 .. Len(calls) : s[i] = IF i = Len(calls) THEN v ELSE calls[i]
    BY <2>1, ExceptSeq
  <2>. HIDE DEF s
  <2>3. Len(s) >= Len(calls) /\ \A i \in 1 .. Len(calls) - 1 : s[i] = calls[i]
    BY <1>1, <2>2
  <2>4. s[Len(calls)] = v
    BY <2>1, <2>2
  <2>5. Onward(s)
    BY <1>2, <2>2, <2>3, <2>4 DEF Onward
  <2>. QED
    BY <2>2, <2>5 DEF s
<1>3. ASSUME NEW k \in 1 .. 3
      PROVE  Onward(NextPlace(k)) /\ Len(NextPlace(k)) = Len(calls)
  <2>. DEFINE v == IF calls[Len(calls)] + k > MaxCommands THEN MaxCommands ELSE calls[Len(calls)] + k
  <2>1. v \in 0 .. MaxCommands /\ v > calls[Len(calls)]
    BY <1>1
  <2>2. NextPlace(k) = [calls EXCEPT ![Len(calls)] = v]
    BY DEF NextPlace
  <2>. HIDE DEF v
  <2>3. PICK s : s = [calls EXCEPT ![Len(calls)] = v]
    OBVIOUS
  <2>4. Onward(s) /\ Len(s) = Len(calls)
    BY <1>2, <2>1, <2>3
  <2>. QED
    BY <2>2, <2>3, <2>4
<1>4. ASSUME NEW branch \in BOOLEAN, NEW resolved \in BOOLEAN
      PROVE  LET e == EnterList(resolved, branch)
             IN  Onward(e) /\ Len(e) <= IF Level < MaxLevel THEN Len(calls) + 1 ELSE Len(calls)
  <2>. DEFINE caller == IF branch THEN [NextPlace(1) EXCEPT ![Len(NextPlace(1))] = MaxCommands]
                        ELSE NextPlace(1)
  <2>1. Onward(NextPlace(1)) /\ Len(NextPlace(1)) = Len(calls)
    BY <1>3
  <2>2. Onward(caller) /\ Len(caller) = Len(calls)
    <3>1. CASE branch
      <4>1. Len(calls) \in 1 .. Len(NextPlace(1)) /\ MaxCommands \in 0 .. MaxCommands
        BY <1>1, <2>1
      <4>2. caller = [NextPlace(1) EXCEPT ![Len(calls)] = MaxCommands]
        BY <2>1, <3>1
      <4>. HIDE DEF caller
      <4>3. /\ caller \in Seq(0 .. MaxCommands) /\ Len(caller) = Len(calls)
            /\ \A i \in 1 .. Len(calls) : caller[i] = IF i = Len(calls) THEN MaxCommands ELSE NextPlace(1)[i]
        BY <2>1, <4>1, <4>2, ExceptSeq DEF Onward
      <4>. QED
        BY <1>1, <2>1, <4>3 DEF Onward
    <3>2. CASE ~branch
      BY <2>1, <3>2
    <3>. QED
      BY <3>1, <3>2
  <2>. HIDE DEF caller
  <2>3. EnterList(resolved, branch) = IF resolved /\ Level < MaxLevel THEN Append(caller, 0) ELSE caller
    BY DEF EnterList, caller
  <2>4. /\ Append(caller, 0) \in Seq(0 .. MaxCommands) /\ Len(Append(caller, 0)) = Len(calls) + 1
        /\ \A i \in 1 .. Len(calls) : Append(caller, 0)[i] = caller[i]
    <3>1. 0 \in 0 .. MaxCommands
      BY <1>1
    <3>. QED
      BY <2>2, <3>1, AppendProperties DEF Onward
  <2>5. Onward(Append(caller, 0))
    BY <1>1, <2>2, <2>4 DEF Onward
  <2>. QED
    BY <1>1, <2>2, <2>3, <2>4, <2>5
<1>. QED
  BY <1>3, <1>4

NestOK == calls \in Seq(0 .. MaxCommands) /\ Len(calls) <= MaxLevel + 1

(* While a list is drawn, every step ends the innermost one or moves on in *)
(* it.                                                                     *)
Advances == Drawing => calls' = Front(calls) \/ Onward(calls')

LEMMA CallsNext == NestOK /\ [DrawNext]_drawVars => NestOK' /\ (Advances \/ UNCHANGED drawVars)
<1>. SUFFICES ASSUME NestOK, [DrawNext]_drawVars PROVE NestOK' /\ (Advances \/ UNCHANGED drawVars)
  OBVIOUS
<1>1. CASE UNCHANGED drawVars
  BY <1>1 DEF NestOK, drawVars, listVars
<1>2. ASSUME NEW is3D \in BOOLEAN, StartTask(is3D) PROVE NestOK' /\ Advances
  <2>1. <<0>> \in Seq(0 .. MaxCommands) /\ Len(<<0>>) = 1
    BY NestAssumption
  <2>. QED
    BY <1>2, <2>1, NestAssumption DEF StartTask, NestOK, Advances
<1>3. CASE EndList
  <2>1. calls # <<>> /\ calls' = Front(calls)
    BY <1>3 DEF EndList, Drawing
  <2>2. Front(calls) \in Seq(0 .. MaxCommands) /\ Len(Front(calls)) = Len(calls) - 1 /\ Len(calls) \in Nat
    BY <2>1, CallFacts DEF NestOK
  <2>. QED
    BY <2>1, <2>2, NestAssumption DEF NestOK, Advances
<1>4. ASSUME NEW n \in 1 .. 3, Read(n) PROVE NestOK' /\ Advances
  <2>1. Onward(NextPlace(n)) /\ Len(NextPlace(n)) = Len(calls)
    BY <1>4, PlaceMoves DEF NestOK, Read
  <2>. QED
    BY <1>4, <2>1 DEF Read, NestOK, Advances, Onward
<1>5. ASSUME NEW s \in Segment, NEW branch \in BOOLEAN, CallList(s, branch) PROVE NestOK' /\ Advances
  <2>. DEFINE e == EnterList(Resolves(s), branch)
  <2>1. calls' = e /\ Reading /\ Resolves(s) \in BOOLEAN
    BY <1>5 DEF CallList, Resolves
  <2>2. Onward(e) /\ Len(e) <= IF Level < MaxLevel THEN Len(calls) + 1 ELSE Len(calls)
    BY <2>1, PlaceMoves DEF NestOK
  <2>. HIDE DEF e
  <2>3. Len(calls) \in Nat /\ Len(calls) <= MaxLevel + 1 /\ Len(e) \in Nat
    BY <2>2, LenProperties DEF NestOK, Onward
  <2>4. Len(e) <= MaxLevel + 1
    BY <2>2, <2>3, NestAssumption DEF Level
  <2>. QED
    BY <2>1, <2>2, <2>4 DEF NestOK, Advances, Onward
<1>6. \/ UNCHANGED drawVars \/ EndList \/ \E is3D \in BOOLEAN : StartTask(is3D)
      \/ \E s \in Segment, branch \in BOOLEAN : CallList(s, branch)
      \/ Read(1) \/ Read(3)
  BY DEF DrawNext, Command, SetSegment, SetScissor, SetTexture, Matrices, Lights, Images, OtherModes,
         Rectangle, SpriteRectangle, Triangles
<1>. QED
  BY <1>1, <1>2, <1>3, <1>4, <1>5, <1>6

(* However the lists of the game call each other, the recursion of         *)
(* desenhar_dl is never deeper than its bound, and every step taken while  *)
(* a list is drawn ends the innermost list or moves on in it, leaving the  *)
(* places of its callers: with both bounded, this is the measure that      *)
(* decreases until the first list ends.                                    *)
THEOREM ListsAdvance == DrawSpec => [](Len(calls) <= MaxLevel + 1) /\ [][Advances]_drawVars
<1>1. DrawInit => NestOK
  <2>1. <<>> \in Seq(0 .. MaxCommands) /\ Len(<<>>) = 0
    BY EmptySeq
  <2>. QED
    BY <2>1, NestAssumption DEF DrawInit, ListInit, NestOK
<1>2. NestOK => Len(calls) <= MaxLevel + 1
  BY DEF NestOK
<1>3. NestOK /\ [DrawNext]_drawVars => NestOK' /\ [Advances]_drawVars
  BY CallsNext
<1>. QED
  BY <1>1, <1>2, <1>3, PTL DEF DrawSpec

-----------------------------------------------------------------------------
(* The arithmetic of RasterMath.                                           *)

Point == Int \X Int

LEMMA AreaIsInt == \A a, b, c \in Point : Area(a, b, c) \in Int
BY DEF Area, Point

(* The signed area of a triangle turns with its corners and changes its    *)
(* sign when two are swapped; a point cuts it into three.                  *)
LEMMA AreaTurns ==
    ASSUME NEW a \in Point, NEW b \in Point, NEW c \in Point
    PROVE  /\ Area(b, c, a) = Area(a, b, c) /\ Area(c, a, b) = Area(a, b, c)
           /\ Area(b, a, c) = - Area(a, b, c) /\ Area(a, c, b) = - Area(a, b, c)
           /\ Area(c, b, a) = - Area(a, b, c)
           /\ Area(a, b, a) = 0 /\ Area(a, b, b) = 0
BY DEF Area, Point

LEMMA AreaSplits ==
    ASSUME NEW a \in Point, NEW b \in Point, NEW c \in Point, NEW p \in Point
    PROVE  Area(a, b, c) - Area(b, c, p) - Area(c, a, p) = Area(a, b, p)
BY DEF Area, Point

LEMMA Jacobi ==
    ASSUME NEW x1 \in Int, NEW x2 \in Int, NEW y1 \in Int, NEW y2 \in Int, NEW z1 \in Int, NEW z2 \in Int
    PROVE  /\ (y1 * z2 - y2 * z1) * x1 + (z1 * x2 - z2 * x1) * y1 + (x1 * y2 - x2 * y1) * z1 = 0
           /\ (y1 * z2 - y2 * z1) * x2 + (z1 * x2 - z2 * x1) * y2 + (x1 * y2 - x2 * y1) * z2 = 0
OBVIOUS

LEMMA MeanOf ==
    ASSUME NEW u \in Int, NEW v \in Int, NEW w \in Int, NEW k \in Int, NEW m \in Int, NEW n \in Int,
           NEW x1 \in Int, NEW x2 \in Int, NEW y1 \in Int, NEW y2 \in Int, NEW z1 \in Int, NEW z2 \in Int,
           u * x1 + v * y1 + w * z1 = 0, u * x2 + v * y2 + w * z2 = 0
    PROVE  (u + v + w) * k = u * (k + m * x1 + n * x2) + v * (k + m * y1 + n * y2) + w * (k + m * z1 + n * z2)
<1>1. m * (u * x1 + v * y1 + w * z1) = 0 /\ n * (u * x2 + v * y2 + w * z2) = 0
  OBVIOUS
<1>. QED
  BY <1>1

(* The side of the line through d and e that a point of a triangle lies on *)
(* is the mean of the sides of its corners.                                *)
LEMMA AreaIsMean ==
    ASSUME NEW a \in Point, NEW b \in Point, NEW c \in Point, NEW p \in Point,
           NEW d \in Point, NEW e \in Point
    PROVE  Area(a, b, c) * Area(d, e, p)
               = Area(b, c, p) * Area(d, e, a) + Area(c, a, p) * Area(d, e, b)
                 + Area(a, b, p) * Area(d, e, c)
<1>1. PICK x1 \in Int, x2 \in Int : x1 = a[1] - p[1] /\ x2 = a[2] - p[2]
  BY DEF Point
<1>2. PICK y1 \in Int, y2 \in Int : y1 = b[1] - p[1] /\ y2 = b[2] - p[2]
  BY DEF Point
<1>3. PICK z1 \in Int, z2 \in Int : z1 = c[1] - p[1] /\ z2 = c[2] - p[2]
  BY DEF Point
<1>4. PICK m \in Int, n \in Int : m = d[2] - e[2] /\ n = e[1] - d[1]
  BY DEF Point
<1>5. PICK k \in Int : k = Area(d, e, p)
  BY AreaIsInt
<1>6. Area(b, c, p) = y1 * z2 - y2 * z1
  BY <1>2, <1>3 DEF Area, Point
<1>7. Area(c, a, p) = z1 * x2 - z2 * x1
  BY <1>1, <1>3 DEF Area, Point
<1>8. Area(a, b, p) = x1 * y2 - x2 * y1
  BY <1>1, <1>2 DEF Area, Point
<1>9. Area(d, e, a) = k + m * x1 + n * x2
  BY <1>1, <1>4, <1>5 DEF Area, Point
<1>10. Area(d, e, b) = k + m * y1 + n * y2
  BY <1>2, <1>4, <1>5 DEF Area, Point
<1>11. Area(d, e, c) = k + m * z1 + n * z2
  BY <1>3, <1>4, <1>5 DEF Area, Point
<1>12. PICK u \in Int, v \in Int, w \in Int : u = Area(b, c, p) /\ v = Area(c, a, p) /\ w = Area(a, b, p)
  BY AreaIsInt
<1>13. u * x1 + v * y1 + w * z1 = 0 /\ u * x2 + v * y2 + w * z2 = 0
  BY <1>6, <1>7, <1>8, <1>12, Jacobi
<1>14. Area(a, b, c) = u + v + w
  BY <1>12, AreaSplits, AreaIsInt
<1>15. (u + v + w) * k = u * (k + m * x1 + n * x2) + v * (k + m * y1 + n * y2) + w * (k + m * z1 + n * z2)
  BY <1>13, MeanOf
<1>. QED
  BY <1>5, <1>9, <1>10, <1>11, <1>12, <1>14, <1>15

LEMMA ProductSign ==
    ASSUME NEW m \in Int, NEW n \in Int, m > 0, m * n >= 0
    PROVE  n >= 0
<1>1. n < 0 => m * n < 0
  OBVIOUS
<1>. QED
  BY <1>1

(* The weights of a sample are the sides of the edges it lies on.          *)
LEMMA CoversMeaning ==
    ASSUME NEW a \in Point, NEW b \in Point, NEW c \in Point, NEW p \in Point
    PROVE  Covers(a, b, c, p) <=>
               IF Area(a, b, c) > 0
               THEN Area(b, c, p) >= 0 /\ Area(c, a, p) >= 0 /\ Area(a, b, p) >= 0
               ELSE Area(b, c, p) <= 0 /\ Area(c, a, p) <= 0 /\ Area(a, b, p) <= 0
BY AreaSplits DEF Covers

(* A triangle covers what it covers, whichever way its corners are taken,  *)
(* and of two windings either is a face for one of the two cull modes      *)
(* (pintar_triangulo_raster).                                              *)
THEOREM WindingIrrelevant ==
    ASSUME NEW a \in Point, NEW b \in Point, NEW c \in Point, NEW p \in Point, Area(a, b, c) # 0
    PROVE  /\ Covers(a, b, c, p) <=> Covers(c, b, a, p)
           /\ Covers(a, b, c, p) <=> Covers(b, c, a, p)
           /\ Culled(a, b, c, TRUE, FALSE) <=> ~ Culled(a, b, c, FALSE, TRUE)
           /\ Culled(a, b, c, TRUE, FALSE) <=> Culled(c, b, a, FALSE, TRUE)
<1>1. /\ Area(a, b, c) \in Int /\ Area(b, c, p) \in Int /\ Area(c, a, p) \in Int
      /\ Area(a, b, p) \in Int
  BY AreaIsInt
<1>2. /\ Area(c, b, a) = - Area(a, b, c) /\ Area(b, c, a) = Area(a, b, c)
      /\ Area(c, b, p) = - Area(b, c, p) /\ Area(a, c, p) = - Area(c, a, p)
      /\ Area(b, a, p) = - Area(a, b, p)
  BY AreaTurns
<1>3. Covers(a, b, c, p) <=> Covers(c, b, a, p)
  BY <1>1, <1>2, CoversMeaning
<1>4. Covers(a, b, c, p) <=> Covers(b, c, a, p)
  BY <1>1, <1>2, CoversMeaning
<1>. QED
  BY <1>1, <1>2, <1>3, <1>4 DEF Culled

(* A point that a triangle covers is on the inner side of every line that  *)
(* all three corners are on the inner side of.                             *)
LEMMA CoveredWithin ==
    ASSUME NEW a \in Point, NEW b \in Point, NEW c \in Point, NEW p \in Point,
           NEW d \in Point, NEW e \in Point, Area(a, b, c) > 0, Covers(a, b, c, p),
           Area(d, e, a) >= 0, Area(d, e, b) >= 0, Area(d, e, c) >= 0
    PROVE  Area(d, e, p) >= 0
<1>1. /\ Area(a, b, c) \in Int /\ Area(d, e, p) \in Int
      /\ Area(b, c, p) \in Int /\ Area(c, a, p) \in Int /\ Area(a, b, p) \in Int
      /\ Area(d, e, a) \in Int /\ Area(d, e, b) \in Int /\ Area(d, e, c) \in Int
  BY AreaIsInt
<1>2. Area(b, c, p) >= 0 /\ Area(c, a, p) >= 0 /\ Area(a, b, p) >= 0
  BY CoversMeaning
<1>3. \A m, n \in Int : m >= 0 /\ n >= 0 => m * n >= 0 /\ m * n \in Int
  OBVIOUS
<1>4. /\ Area(b, c, p) * Area(d, e, a) >= 0 /\ Area(c, a, p) * Area(d, e, b) >= 0
      /\ Area(a, b, p) * Area(d, e, c) >= 0
      /\ Area(b, c, p) * Area(d, e, a) \in Int /\ Area(c, a, p) * Area(d, e, b) \in Int
      /\ Area(a, b, p) * Area(d, e, c) \in Int
  BY <1>1, <1>2, <1>3
<1>5. Area(a, b, c) * Area(d, e, p) >= 0
  <2>1. \A r, s, t \in Int : r >= 0 /\ s >= 0 /\ t >= 0 => r + s + t >= 0
    OBVIOUS
  <2>. QED
    BY <1>4, <2>1, AreaIsMean
<1>. QED
  BY <1>1, <1>5, ProductSign

(* A point of a convex quadrilateral is drawn by at least one of the two   *)
(* triangles it is cut into, and a point outside by neither: the diagonal  *)
(* leaves no seam, for all corners and samples.  By both it is drawn only  *)
(* on the diagonal itself (pintar_triangulo_raster).                       *)
THEOREM NoSeam ==
    ASSUME NEW a \in Point, NEW b \in Point, NEW c \in Point, NEW d \in Point, NEW p \in Point,
           Area(a, b, c) > 0, Area(b, c, d) > 0, Area(c, d, a) > 0, Area(d, a, b) > 0
    PROVE  /\ (/\ Area(a, b, p) >= 0 /\ Area(b, c, p) >= 0
               /\ Area(c, d, p) >= 0 /\ Area(d, a, p) >= 0)
              <=> Covers(a, b, c, p) \/ Covers(a, c, d, p)
           /\ Covers(a, b, c, p) /\ Covers(a, c, d, p) => Area(a, c, p) = 0
<1>1. /\ Area(a, b, c) \in Int /\ Area(b, c, d) \in Int /\ Area(c, d, a) \in Int
      /\ Area(d, a, b) \in Int /\ Area(a, c, p) \in Int /\ Area(c, a, p) \in Int
      /\ Area(a, b, p) \in Int /\ Area(b, c, p) \in Int /\ Area(c, d, p) \in Int
      /\ Area(d, a, p) \in Int
  BY AreaIsInt
<1>2. Area(a, c, d) = Area(c, d, a) /\ Area(c, a, p) = - Area(a, c, p)
  BY AreaTurns
<1>3. Covers(a, b, c, p) <=> Area(b, c, p) >= 0 /\ Area(c, a, p) >= 0 /\ Area(a, b, p) >= 0
  BY CoversMeaning
<1>4. Covers(a, c, d, p) <=> Area(c, d, p) >= 0 /\ Area(d, a, p) >= 0 /\ Area(a, c, p) >= 0
  BY <1>2, CoversMeaning
<1>5. ASSUME Covers(a, b, c, p) PROVE Area(c, d, p) >= 0 /\ Area(d, a, p) >= 0
  <2>1. Area(c, d, b) >= 0 /\ Area(c, d, c) >= 0 /\ Area(d, a, a) >= 0 /\ Area(d, a, c) >= 0
    BY <1>1, AreaTurns
  <2>. QED
    BY <1>1, <1>5, <2>1, CoveredWithin
<1>6. ASSUME Covers(a, c, d, p) PROVE Area(a, b, p) >= 0 /\ Area(b, c, p) >= 0
  <2>1. /\ Area(a, b, a) >= 0 /\ Area(a, b, d) >= 0 /\ Area(b, c, a) >= 0 /\ Area(b, c, c) >= 0
        /\ Area(a, c, d) > 0
    BY <1>1, AreaTurns
  <2>. QED
    BY <1>1, <1>6, <2>1, CoveredWithin
<1>. QED
  BY <1>1, <1>2, <1>3, <1>4, <1>5, <1>6

-----------------------------------------------------------------------------
(* Means with rounding.                                                    *)

LEMMA DivBounds64 ==
    ASSUME NEW n \in Int, NEW k \in Nat, NEW l \in Nat, - 64 * l - 63 <= n, n <= 64 * k + 63
    PROVE  Div(n, 64) \in - l .. k
<1>1. CASE n >= 0
  <2>1. n \div 64 \in 0 .. k
    BY <1>1
  <2>. QED
    BY <1>1, <2>1 DEF Div
<1>2. CASE ~(n >= 0)
  <2>1. (- n) \div 64 \in 0 .. l
    BY <1>2
  <2>. QED
    BY <1>2, <2>1 DEF Div
<1>. QED
  BY <1>1, <1>2

LEMMA DivBounds255 ==
    ASSUME NEW n \in Int, NEW k \in Nat, NEW l \in Nat, - 255 * l - 254 <= n, n <= 255 * k + 254
    PROVE  Div(n, 255) \in - l .. k
<1>1. CASE n >= 0
  <2>1. n \div 255 \in 0 .. k
    BY <1>1
  <2>. QED
    BY <1>1, <2>1 DEF Div
<1>2. CASE ~(n >= 0)
  <2>1. (- n) \div 255 \in 0 .. l
    BY <1>2
  <2>. QED
    BY <1>2, <2>1 DEF Div
<1>. QED
  BY <1>1, <1>2

(* A weight that is not negative keeps the order of what it weighs.        *)
LEMMA Weighed ==
    ASSUME NEW w \in Nat, NEW x \in Int, NEW low \in Int, NEW high \in Int, low <= x, x <= high
    PROVE  w * low <= w * x /\ w * x <= w * high
           /\ w * low \in Int /\ w * x \in Int /\ w * high \in Int
<1>1. \A i, j \in Int : i <= j => w * i <= w * j
  <2>. SUFFICES ASSUME NEW i \in Int, NEW j \in Int, i <= j PROVE w * i <= w * j
    OBVIOUS
  <2>1. w * (j - i) >= 0
    OBVIOUS
  <2>. QED
    BY <2>1
<1>. QED
  BY <1>1

(* From a corner towards its two neighbours, by shares of which the corner *)
(* keeps the rest.                                                         *)
LEMMA MeanOfThree ==
    ASSUME NEW x \in Int, NEW y \in Int, NEW z \in Int, NEW u \in Nat, NEW v \in Nat, u + v <= 64,
           NEW low \in Int, NEW high \in Int,
           low <= x, x <= high, low <= y, y <= high, low <= z, z <= high
    PROVE  x + Div(u * (y - x) + v * (z - x) + 32, 64) \in low .. high
<1> DEFINE s == u * (y - x) + v * (z - x)
<1>1. /\ u * (low - x) <= u * (y - x) /\ u * (y - x) <= u * (high - x)
      /\ v * (low - x) <= v * (z - x) /\ v * (z - x) <= v * (high - x)
  <2>1. /\ y - x \in Int /\ z - x \in Int /\ low - x \in Int /\ high - x \in Int
        /\ low - x <= y - x /\ y - x <= high - x /\ low - x <= z - x /\ z - x <= high - x
    OBVIOUS
  <2>. QED
    BY <2>1, Weighed
<1>2. (u + v) * (low - x) <= s /\ s <= (u + v) * (high - x) /\ s \in Int
  BY <1>1
<1>3. (u + v) * (high - x) <= 64 * (high - x) /\ 64 * (low - x) <= (u + v) * (low - x)
  <2>1. (64 - (u + v)) * (high - x) >= 0 /\ (64 - (u + v)) * (x - low) >= 0
    <3>1. 64 - (u + v) \in Nat /\ high - x \in Nat /\ x - low \in Nat
      OBVIOUS
    <3>2. \A i, j \in Nat : i * j >= 0
      OBVIOUS
    <3>. QED
      BY <3>1, <3>2
  <2>2. u + v \in Int /\ high - x \in Int /\ x - low \in Int
    OBVIOUS
  <2>3. \A w, h, l \in Int : (64 - w) * h >= 0 /\ (64 - w) * l >= 0 => w * h <= 64 * h /\ 64 * (- l) <= w * (- l)
    OBVIOUS
  <2>4. low - x = - (x - low)
    OBVIOUS
  <2>. QED
    BY <2>1, <2>2, <2>3, <2>4
<1>4. 64 * (low - x) <= s /\ s <= 64 * (high - x)
  <2>1. (u + v) * (low - x) \in Int /\ (u + v) * (high - x) \in Int
    OBVIOUS
  <2>. HIDE DEF s
  <2>. QED
    BY <1>2, <1>3, <2>1
<1>5. Div(s + 32, 64) \in - (x - low) .. high - x
  <2>. HIDE DEF s
  <2>1. s + 32 \in Int /\ - 64 * (x - low) - 63 <= s + 32 /\ s + 32 <= 64 * (high - x) + 63
    BY <1>2, <1>4
  <2>2. x - low \in Nat /\ high - x \in Nat
    OBVIOUS
  <2>. QED
    BY <2>1, <2>2, DivBounds64
<1>. QED
  BY <1>5

(* The three texels around a sample that cor_3p_canal8 chooses bound what  *)
(* it makes of them, for every sample; at a texel's own place it is that.  *)
THEOREM ThreePointBetween ==
    ASSUME NEW a \in 0 .. 255, NEW b \in 0 .. 255, NEW c \in 0 .. 255, NEW d \in 0 .. 255,
           NEW fs \in 0 .. 63, NEW ft \in 0 .. 63, NEW low \in 0 .. 255, NEW high \in 0 .. 255,
           \A x \in (IF fs + ft < 64 THEN {a, b, c} ELSE {b, c, d}) : low <= x /\ x <= high
    PROVE  /\ ThreePoint(a, b, c, d, fs, ft) \in low .. high
           /\ ThreePoint(a, b, c, d, 0, 0) = a
<1>1. ThreePoint(a, b, c, d, fs, ft) \in low .. high
  <2>1. CASE fs + ft < 64
    <3>1. /\ low <= a /\ a <= high /\ low <= b /\ b <= high /\ low <= c /\ c <= high
      BY <2>1
    <3>2. PICK u \in Nat, v \in Nat : u = fs /\ v = ft /\ u + v <= 64
      BY <2>1
    <3>3. a \in Int /\ b \in Int /\ c \in Int /\ low \in Int /\ high \in Int
      OBVIOUS
    <3>4. a + Div(u * (b - a) + v * (c - a) + 32, 64) \in low .. high
      BY ONLY <3>1, <3>2, <3>3, MeanOfThree
    <3>5. a + Div(fs * (b - a) + ft * (c - a) + 32, 64) \in low .. high
      BY <3>2, <3>4
    <3>. QED
      BY <2>1, <3>5 DEF ThreePoint, Clamp
  <2>2. CASE ~(fs + ft < 64)
    <3>1. /\ low <= d /\ d <= high /\ low <= b /\ b <= high /\ low <= c /\ c <= high
      BY <2>2
    <3>2. PICK u \in Nat, v \in Nat : u = 64 - fs /\ v = 64 - ft /\ u + v <= 64
      BY <2>2
    <3>3. d \in Int /\ b \in Int /\ c \in Int /\ low \in Int /\ high \in Int
      OBVIOUS
    <3>4. d + Div(u * (c - d) + v * (b - d) + 32, 64) \in low .. high
      BY ONLY <3>1, <3>2, <3>3, MeanOfThree
    <3>5. d + Div((64 - fs) * (c - d) + (64 - ft) * (b - d) + 32, 64) \in low .. high
      BY <3>2, <3>4
    <3>. QED
      BY <2>2, <3>5 DEF ThreePoint, Clamp
  <2>. QED
    BY <2>1, <2>2
<1>2. ThreePoint(a, b, c, d, 0, 0) = a
  BY DEF ThreePoint, Clamp, Div
<1>. QED
  BY <1>1, <1>2

(* So do all four texels what pintar_texrect makes of them.                *)
THEOREM BilinearBetween ==
    ASSUME NEW a \in 0 .. 255, NEW b \in 0 .. 255, NEW c \in 0 .. 255, NEW d \in 0 .. 255,
           NEW fs \in 0 .. 31, NEW ft \in 0 .. 31, NEW low \in 0 .. 255, NEW high \in 0 .. 255,
           \A x \in {a, b, c, d} : low <= x /\ x <= high
    PROVE  /\ Bilinear(a, b, c, d, fs, ft) \in low .. high
           /\ Bilinear(a, b, c, d, 0, 0) = a
<1>1. PICK u \in Nat, v \in Nat, w \in Nat, z \in Nat :
          /\ u = (32 - fs) * (32 - ft) /\ v = fs * (32 - ft) /\ w = (32 - fs) * ft /\ z = fs * ft
  <2>1. 32 - fs \in Nat /\ 32 - ft \in Nat /\ fs \in Nat /\ ft \in Nat
    OBVIOUS
  <2>2. \A i, j \in Nat : i * j \in Nat
    OBVIOUS
  <2>. QED
    BY <2>1, <2>2
<1>2. u + v + w + z = 1024
  BY <1>1
<1>3. /\ u * low <= u * a /\ u * a <= u * high /\ v * low <= v * b /\ v * b <= v * high
      /\ w * low <= w * c /\ w * c <= w * high /\ z * low <= z * d /\ z * d <= z * high
  <2>1. a \in Int /\ b \in Int /\ c \in Int /\ d \in Int /\ low \in Int /\ high \in Int
    OBVIOUS
  <2>. QED
    BY <2>1, Weighed
<1>4. /\ a * (32 - fs) * (32 - ft) = u * a /\ b * fs * (32 - ft) = v * b
      /\ c * (32 - fs) * ft = w * c /\ d * fs * ft = z * d
  BY <1>1
<1>5. /\ u * low + v * low + w * low + z * low = 1024 * low
      /\ u * high + v * high + w * high + z * high = 1024 * high
  <2>1. (u + v + w + z) * low = 1024 * low /\ (u + v + w + z) * high = 1024 * high
    BY <1>2
  <2>. QED
    BY <2>1
<1>6. PICK s \in Int : s = u * a + v * b + w * c + z * d
  OBVIOUS
<1>7. 1024 * low <= s /\ s <= 1024 * high
  <2>1. /\ u * low \in Int /\ u * a \in Int /\ u * high \in Int /\ v * low \in Int
        /\ v * b \in Int /\ v * high \in Int /\ w * low \in Int /\ w * c \in Int
        /\ w * high \in Int /\ z * low \in Int /\ z * d \in Int /\ z * high \in Int
    OBVIOUS
  <2>2. \A i1, i2, i3, i4, j1, j2, j3, j4 \in Int :
            i1 <= j1 /\ i2 <= j2 /\ i3 <= j3 /\ i4 <= j4 => i1 + i2 + i3 + i4 <= j1 + j2 + j3 + j4
    OBVIOUS
  <2>3. u * low + v * low + w * low + z * low <= u * a + v * b + w * c + z * d
    BY ONLY <1>3, <2>1, <2>2
  <2>4. u * a + v * b + w * c + z * d <= u * high + v * high + w * high + z * high
    BY ONLY <1>3, <2>1, <2>2
  <2>5. 1024 * low <= s
    BY ONLY <1>5, <1>6, <2>3
  <2>6. s <= 1024 * high
    BY ONLY <1>5, <1>6, <2>4
  <2>. QED
    BY <2>5, <2>6
<1>8. (s + 512) \div 1024 \in low .. high
  BY <1>7
<1>9. Bilinear(a, b, c, d, fs, ft) = (s + 512) \div 1024
  <2>1. s + 512 = a * (32 - fs) * (32 - ft) + b * fs * (32 - ft) + c * (32 - fs) * ft + d * fs * ft + 512
    BY <1>4, <1>6, Zenon
  <2>. QED
    BY <2>1, Zenon DEF Bilinear
<1>10. Bilinear(a, b, c, d, 0, 0) = a
  BY DEF Bilinear
<1>. QED
  BY <1>8, <1>9, <1>10

(* Inputs of one cycle of the combiner, and its four selectors.            *)
Byte8 == 0 .. 255
Inputs == [combined : Byte8, texel : Byte8, prim : Byte8, shade : Byte8, env : Byte8,
           texelAlpha : Byte8, primAlpha : Byte8, shadeAlpha : Byte8, envAlpha : Byte8]
Selectors == [a : Nat, b : Nat, c : Nat, d : Nat]

LEMMA SourcesTyped ==
    ASSUME NEW in \in Inputs, NEW sel \in Nat
    PROVE  SourceABD(sel, in) \in 0 .. 255 /\ SourceC(sel, in) \in 0 .. 255
<1>1. SourceABD(sel, in) \in 0 .. 255
  BY DEF SourceABD, Inputs, Byte8
<1>2. SourceC(sel, in) \in 0 .. 255
  <2>1. CASE sel \in {0, 1, 3, 4, 5}
    BY <1>1, <2>1 DEF SourceC
  <2>2. CASE sel \notin {0, 1, 3, 4, 5}
    BY <2>2 DEF SourceC, Inputs, Byte8
  <2>. QED
    BY <2>1, <2>2
<1>. QED
  BY <1>1, <1>2

(* comb_ciclo as a mixer, (A - D) * C + D: it runs from D to A, is D where *)
(* C is 0, and is A where C is 255, but for the rounding of a negative     *)
(* product.                                                                *)
THEOREM CombineBetween ==
    ASSUME NEW in \in Inputs, NEW s \in Selectors, SourceABD(s.b, in) = SourceABD(s.d, in),
           NEW low \in Int, NEW high \in Int,
           low <= SourceABD(s.a, in), SourceABD(s.a, in) <= high,
           low <= SourceABD(s.d, in), SourceABD(s.d, in) <= high
    PROVE  /\ CombineCycle(s, in) \in low .. high
           /\ SourceC(s.c, in) = 0 => CombineCycle(s, in) = SourceABD(s.d, in)
           /\ SourceC(s.c, in) = 255 =>
                  CombineCycle(s, in) - SourceABD(s.a, in) \in 0 .. 1
<1>1. PICK x \in 0 .. 255, y \in 0 .. 255, c \in 0 .. 255 :
          x = SourceABD(s.a, in) /\ y = SourceABD(s.d, in) /\ c = SourceC(s.c, in)
  BY SourcesTyped DEF Selectors
<1>2. CombineCycle(s, in) = Clamp(Div((x - y) * c + 127, 255) + y, 0, 255)
  BY <1>1 DEF CombineCycle
<1>3. CASE x >= y
  <2>1. PICK k \in Nat : k = x - y
    BY <1>3
  <2>2. c * 0 <= c * k /\ c * k <= 255 * k
    <3>1. (255 - c) * k >= 0 /\ c * k >= 0
      <4>1. \A i, j \in Nat : i * j >= 0
        OBVIOUS
      <4>2. 255 - c \in Nat /\ c \in Nat
        OBVIOUS
      <4>. QED
        BY <2>1, <4>1, <4>2
    <3>. QED
      BY <3>1
  <2>3. (x - y) * c = c * k
    BY <2>1
  <2>4. PICK n \in Int : n = c * k /\ 0 <= n /\ n <= 255 * k
    BY <2>2
  <2>5. Div(n + 127, 255) \in 0 .. k /\ (n = 0 => Div(n + 127, 255) = 0)
        /\ (n = 255 * k => Div(n + 127, 255) = k)
    BY <2>4 DEF Div
  <2>6. CombineCycle(s, in) = Div(n + 127, 255) + y
    BY <1>2, <2>1, <2>3, <2>4, <2>5 DEF Clamp
  <2>7. (c = 0 => n = 0) /\ (c = 255 => n = 255 * k)
    BY <2>4
  <2>8. PICK v \in 0 .. k : v = Div(n + 127, 255)
    BY <2>5
  <2>9. PICK w, u, z : w = CombineCycle(s, in) /\ u = SourceABD(s.a, in) /\ z = SourceABD(s.d, in)
    OBVIOUS
  <2>10. w = v + y /\ u = x /\ z = y /\ (c = 0 => v = 0) /\ (c = 255 => v = k)
    BY Zenon, <1>1, <2>5, <2>6, <2>7, <2>8, <2>9
  <2>11. w \in low .. high /\ (c = 0 => w = z) /\ (c = 255 => w - u \in 0 .. 1)
    <3>1. low <= y /\ y <= x /\ x <= high /\ x = y + k
      BY <1>1, <1>3, <2>1
    <3>. QED
      BY <2>10, <3>1
  <2>. QED
    BY Zenon, <1>1, <2>9, <2>11
<1>4. CASE ~(x >= y)
  <2>1. PICK k \in Nat \ {0} : k = y - x
    BY <1>4
  <2>2. c * k >= 0 /\ c * k <= 255 * k
    <3>1. (255 - c) * k >= 0 /\ c * k >= 0
      <4>1. \A i, j \in Nat : i * j >= 0
        OBVIOUS
      <4>2. 255 - c \in Nat /\ c \in Nat
        OBVIOUS
      <4>. QED
        BY <2>1, <4>1, <4>2
    <3>. QED
      BY <3>1
  <2>3. (x - y) * c = - (c * k)
    BY <2>1
  <2>4. PICK n \in Int : n = - (c * k) /\ - 255 * k <= n /\ n <= 0
    BY <2>2
  <2>5. Div(n + 127, 255) \in - k .. 0 /\ (n = 0 => Div(n + 127, 255) = 0)
        /\ (n = - 255 * k => Div(n + 127, 255) = 1 - k)
    <3>1. Div(n + 127, 255) \in - k .. 0
      BY <2>4, DivBounds255
    <3>2. n = - 255 * k => Div(n + 127, 255) = 1 - k
      <4>. SUFFICES ASSUME n = - 255 * k PROVE Div(n + 127, 255) = 1 - k
        OBVIOUS
      <4>1. n + 127 < 0 /\ (- (n + 127)) \div 255 = k - 1
        BY <2>1
      <4>. QED
        BY <4>1 DEF Div
    <3>3. n = 0 => Div(n + 127, 255) = 0
      BY DEF Div
    <3>. QED
      BY <3>1, <3>2, <3>3
  <2>6. CombineCycle(s, in) = Div(n + 127, 255) + y
    BY <1>2, <2>1, <2>3, <2>4, <2>5 DEF Clamp
  <2>7. (c = 0 => n = 0) /\ (c = 255 => n = - 255 * k)
    BY <2>4
  <2>8. PICK v \in - k .. 0 : v = Div(n + 127, 255)
    BY <2>5
  <2>9. PICK w, u, z : w = CombineCycle(s, in) /\ u = SourceABD(s.a, in) /\ z = SourceABD(s.d, in)
    OBVIOUS
  <2>10. w = v + y /\ u = x /\ z = y /\ (c = 0 => v = 0) /\ (c = 255 => v = 1 - k)
    BY Zenon, <1>1, <2>5, <2>6, <2>7, <2>8, <2>9
  <2>11. w \in low .. high /\ (c = 0 => w = z) /\ (c = 255 => w - u \in 0 .. 1)
    <3>1. low <= x /\ x <= y /\ y <= high /\ y = x + k
      BY <1>1, <1>4, <2>1
    <3>. QED
      BY <2>10, <3>1
  <2>. QED
    BY Zenon, <1>1, <2>9, <2>11
<1>. QED
  BY <1>3, <1>4

(* A second cycle that selects nothing but what the first one made passes  *)
(* it on unchanged (comb_aplicar).                                         *)
THEOREM SecondCyclePasses ==
    ASSUME NEW in \in Inputs, NEW s \in Selectors
    PROVE  Combine(s, [a |-> 7, b |-> 7, c |-> 13, d |-> 0], in)
               = CombineCycle(s, [in EXCEPT !.combined = 0])
<1> DEFINE got == CombineCycle(s, [in EXCEPT !.combined = 0])
           next == [in EXCEPT !.combined = got]
           pass == [a |-> 7, b |-> 7, c |-> 13, d |-> 0]
<1>1. got \in 0 .. 255
  <2>1. PICK zeroed \in Inputs : zeroed = [in EXCEPT !.combined = 0]
    <3>1. 0 \in Byte8
      BY DEF Byte8
    <3>2. [in EXCEPT !.combined = 0] \in Inputs
      BY <3>1 DEF Inputs
    <3>. QED
      BY <3>2
  <2>2. /\ SourceABD(s.a, zeroed) \in Int /\ SourceABD(s.b, zeroed) \in Int
        /\ SourceABD(s.d, zeroed) \in Int /\ SourceC(s.c, zeroed) \in Int
    <3>1. s.a \in Nat /\ s.b \in Nat /\ s.c \in Nat /\ s.d \in Nat
      BY DEF Selectors
    <3>2. \A sel \in Nat : SourceABD(sel, zeroed) \in 0 .. 255 /\ SourceC(sel, zeroed) \in 0 .. 255
      BY SourcesTyped
    <3>3. \A k \in 0 .. 255 : k \in Int
      OBVIOUS
    <3>. QED
      BY Zenon, <3>1, <3>2, <3>3
  <2>3. \A i, j \in Int : Clamp(Div(i, 255) + j, 0, 255) \in 0 .. 255
    <3>1. \A i \in Int : Div(i, 255) \in Int
      BY DEF Div
    <3>2. \A i \in Int : Clamp(i, 0, 255) \in 0 .. 255
      BY DEF Clamp
    <3>. QED
      BY <3>1, <3>2
  <2>4. \A i, j, k \in Int : (i - j) * k + 127 \in Int
    OBVIOUS
  <2>. QED
    BY <2>1, <2>2, <2>3, <2>4 DEF CombineCycle
<1>2. next.combined = got
  BY DEF Inputs
<1>. HIDE DEF got, next
<1>3. /\ SourceABD(pass.a, next) = 0 /\ SourceABD(pass.b, next) = 0
      /\ SourceC(pass.c, next) = 0 /\ SourceABD(pass.d, next) = got
  BY <1>2 DEF SourceABD, SourceC
<1>4. CombineCycle(pass, next) = Clamp(Div((0 - 0) * 0 + 127, 255) + got, 0, 255)
  BY <1>3 DEF CombineCycle
<1>5. Clamp(Div((0 - 0) * 0 + 127, 255) + got, 0, 255) = got
  BY <1>1 DEF Clamp, Div
<1>. QED
  BY <1>4, <1>5 DEF Combine, got, next

(* A blend keeps a channel at full alpha and what is under it at none, and *)
(* lies between them (rdp_blender_source_over); a channel of five bits     *)
(* survives its eight.                                                     *)
THEOREM OverBetween ==
    ASSUME NEW c \in 0 .. 31, NEW under \in 0 .. 31, NEW alpha \in 0 .. 255,
           NEW low \in 0 .. 31, NEW high \in 0 .. 31,
           low <= c, c <= high, low <= under, under <= high
    PROVE  /\ Over(c, under, alpha) \in low .. high
           /\ Over(c, under, 255) = c /\ Over(c, under, 0) = under
           /\ Pack5(Expand5(c)) = c
<1>1. PICK n \in Int : n = c * alpha + under * (255 - alpha)
  OBVIOUS
<1>2. 255 * low <= n /\ n <= 255 * high
  <2>1. /\ alpha * low <= alpha * c /\ alpha * c <= alpha * high
        /\ (255 - alpha) * low <= (255 - alpha) * under
        /\ (255 - alpha) * under <= (255 - alpha) * high
    <3>1. alpha \in Nat /\ 255 - alpha \in Nat /\ c \in Int /\ under \in Int /\ low \in Int /\ high \in Int
      OBVIOUS
    <3>. QED
      BY <3>1, Weighed
  <2>. QED
    BY <1>1, <2>1
<1>3. (n + 127) \div 255 \in low .. high
  BY <1>2
<1>4. Over(c, under, alpha) \in low .. high
  BY <1>1, <1>3 DEF Over
<1>5. Over(c, under, 255) = c /\ Over(c, under, 0) = under
  BY DEF Over
<1>6. Pack5(Expand5(c)) = c
  BY DEF Pack5, Expand5
<1>. QED
  BY <1>4, <1>5, <1>6

-----------------------------------------------------------------------------
(* The rows of a block of texture memory.                                  *)

(* A set that holds 0, and of 1 .. n every number after one it holds.      *)
LEMMA LeastOf ==
    ASSUME NEW S \in SUBSET Nat, S # {}
    PROVE  \E k \in S : \A j \in S : ~ (j < k)
<1>1. IsWellFoundedOn(OpToRel(<, Nat), Nat)
  BY NatLessThanWellFounded
<1>2. PICK k \in S : \A j \in S : ~ (<<j, k>> \in OpToRel(<, Nat))
  BY <1>1, WFMin
<1>. QED
  BY <1>2 DEF OpToRel

LEMMA HoldsUpTo ==
    ASSUME NEW n \in Nat, NEW P, 0 \in P, \A k \in 1 .. n : k - 1 \in P => k \in P
    PROVE  n \in P
<1> DEFINE Bad == {k \in 0 .. n : k \notin P}
<1>1. SUFFICES ASSUME Bad # {} PROVE FALSE
  OBVIOUS
<1>2. Bad \in SUBSET Nat
  OBVIOUS
<1>3. PICK k \in Bad : \A j \in Bad : ~ (j < k)
  <2>. HIDE DEF Bad
  <2>. QED
    BY <1>1, <1>2, LeastOf
<1>4. k \in 1 .. n /\ k - 1 \in 0 .. n /\ k - 1 < k
  BY <1>3
<1>5. k - 1 \in P
  BY <1>3, <1>4
<1>. QED
  BY <1>3, <1>4, <1>5

(* Quadwords whose row, counted in steps of DXT, is odd.                   *)
OddUpTo(n, dxt) == {k \in 0 .. n - 1 : ((k * dxt) \div DxtCarry) % 2 = 1}

CountUpTo(k, dxt) == [counter |-> k * dxt, odd |-> OddUpTo(k, dxt)]

(* One quadword of the loop of OddRows, and the loop.                      *)
CountRow(p, k, dxt) ==
    [counter |-> p.counter + dxt,
     odd |-> IF (p.counter \div DxtCarry) % 2 = 1 THEN p.odd \cup {k - 1} ELSE p.odd]

CountsRows(f, n, dxt) ==
    f = [k \in 0 .. n |-> IF k = 0 THEN [counter |-> 0, odd |-> {}] ELSE CountRow(f[k - 1], k, dxt)]

LEMMA OneMoreRow ==
    ASSUME NEW dxt \in Nat, NEW k \in Nat, k # 0
    PROVE  CountUpTo(k, dxt) = CountRow(CountUpTo(k - 1, dxt), k, dxt)
<1>1. k * dxt = (k - 1) * dxt + dxt
  OBVIOUS
<1>2. 0 .. k - 1 = (0 .. k - 2) \cup {k - 1}
  OBVIOUS
<1>3. OddUpTo(k, dxt) = IF (((k - 1) * dxt) \div DxtCarry) % 2 = 1
                        THEN OddUpTo(k - 1, dxt) \cup {k - 1} ELSE OddUpTo(k - 1, dxt)
  <2>1. k - 1 - 1 = k - 2
    OBVIOUS
  <2>. QED
    BY <1>2, <2>1, Zenon DEF OddUpTo
<1>. QED
  BY <1>1, <1>3 DEF CountRow, CountUpTo

(* carregar_bloco's counter is a product, however many quadwords it has    *)
(* counted and wherever its carry falls.                                   *)
LEMMA OddRowsRight ==
    ASSUME NEW n \in Nat, NEW dxt \in Nat
    PROVE  OddRows(n, dxt) = OddUpTo(n, dxt)
<1> DEFINE f == CHOOSE f : CountsRows(f, n, dxt)
           g == [k \in 0 .. n |-> CountUpTo(k, dxt)]
<1>1. OddRows(n, dxt) = f[n].odd
  BY Zenon DEF OddRows, CountsRows, CountRow
<1>2. CountUpTo(0, dxt) = [counter |-> 0, odd |-> {}]
  BY DEF CountUpTo, OddUpTo
<1>3. CountsRows(g, n, dxt)
  <2>1. ASSUME NEW k \in 0 .. n
        PROVE  g[k] = IF k = 0 THEN [counter |-> 0, odd |-> {}] ELSE CountRow(g[k - 1], k, dxt)
    <3>1. CASE k = 0
      BY <1>2, <3>1
    <3>2. CASE k # 0
      <4>1. k - 1 \in 0 .. n
        BY <3>2
      <4>. QED
        BY <3>2, <4>1, OneMoreRow
    <3>. QED
      BY <3>1, <3>2
  <2>. QED
    BY <2>1 DEF CountsRows
<1>4. CountsRows(f, n, dxt)
  BY <1>3
<1>. HIDE DEF f, g
<1>5. f[n] = CountUpTo(n, dxt)
  <2> DEFINE P == {k \in 0 .. n : f[k] = CountUpTo(k, dxt)}
  <2>1. 0 \in P
    BY <1>2, <1>4 DEF CountsRows
  <2>2. ASSUME NEW k \in 1 .. n, k - 1 \in P PROVE k \in P
    <3>1. k \in 0 .. n /\ k \in Nat /\ k # 0
      BY <2>2
    <3>2. f[k] = IF k = 0 THEN [counter |-> 0, odd |-> {}] ELSE CountRow(f[k - 1], k, dxt)
      BY Zenon, <1>4, <3>1 DEF CountsRows
    <3>3. f[k - 1] = CountUpTo(k - 1, dxt)
      BY Zenon, <2>2
    <3>4. f[k] = CountUpTo(k, dxt)
      BY <3>1, <3>2, <3>3, OneMoreRow
    <3>. QED
      BY <3>1, <3>4
  <2>. HIDE DEF P
  <2>3. n \in P
    BY <2>1, <2>2, HoldsUpTo
  <2>. QED
    BY <2>3 DEF P
<1>. QED
  BY <1>1, <1>5 DEF CountUpTo

\* Byte n of a block: the words of a quadword are swapped if its row is odd.
RowSwapped(k, bytes, dxt) == k < bytes \div 8 /\ ((k * dxt) \div DxtCarry) % 2 = 1

BlockSource(n, bytes, dxt) ==
    IF RowSwapped(n \div 8, bytes, dxt) THEN 8 * (n \div 8) + ((n + 4) % 8) ELSE n

LEMMA InQuadword ==
    ASSUME NEW n \in Nat, NEW bytes \in Nat, n \div 8 < bytes \div 8
    PROVE  /\ n = 8 * (n \div 8) + (n % 8) /\ n % 8 \in 0 .. 7
           /\ (n + 4) % 8 = ((n % 8) + 4) % 8
           /\ 8 * (n \div 8) + 7 < bytes
<1>1. PICK q \in Int : q = n \div 8
  OBVIOUS
<1>2. PICK b \in Int : b = bytes \div 8
  OBVIOUS
<1>3. 8 * b <= bytes /\ 8 * q <= n /\ n < 8 * q + 8 /\ q < b
  BY <1>1, <1>2
<1>4. n = 8 * (n \div 8) + (n % 8) /\ n % 8 \in 0 .. 7
  OBVIOUS
<1>5. (n + 4) % 8 = ((n % 8) + 4) % 8
  OBVIOUS
<1>. QED
  BY <1>1, <1>3, <1>4, <1>5

(* A block of RDRAM whose end fits in the texture memory, loaded in the    *)
(* corridor, lands where the tile says, for every texel size, length and   *)
(* DXT: the two words of a quadword are swapped exactly when its row,      *)
(* counted in steps of DXT, is odd, and no other byte changes.             *)
(* carregar_bloco with tmem_intercalar_qwords.                             *)
THEOREM BlockLands ==
    ASSUME NEW tmem, DOMAIN tmem = 0 .. TmemBytes - 1,
           NEW tile, tile.tmem \in Nat, NEW image, image.addr \in Nat \ {0},
           NEW lrs \in Nat, NEW dxt \in Nat \ {0},
           NEW bytes \in Nat \ {0}, bytes = ((lrs + 1) * 2 ^ (image.siz + 2)) \div 8,
           tile.tmem * 8 + bytes <= TmemBytes, image.addr + bytes <= RdramBytes,
           NEW setting, InBanks(image, dxt, setting),
           NEW i \in 0 .. TmemBytes - 1
    PROVE  LoadBlock(tmem, tile, image, lrs, dxt, setting)[i] =
             IF i - tile.tmem * 8 \in 0 .. bytes - 1
             THEN Byte(image.addr + BlockSource(i - tile.tmem * 8, bytes, dxt))
             ELSE tmem[i]
<1> DEFINE dst == tile.tmem * 8
           plain == Copied(tmem, dst, image.addr, bytes)
           n == i - dst
<1>0. /\ TmemBytes \in Nat /\ dst \in Nat /\ dst < TmemBytes /\ dst + bytes <= TmemBytes
      /\ bytes # 0 /\ bytes \div 8 \in Nat
  BY TmemAssumption
<1>1. LoadBlock(tmem, tile, image, lrs, dxt, setting) = Interleaved(plain, dst, bytes \div 8, dxt)
  <2>1. /\ ~ (dst + bytes > TmemBytes)
        /\ ~ (\/ dst >= TmemBytes \/ bytes = 0 \/ image.addr = 0 \/ image.addr + bytes > RdramBytes)
    BY <1>0, TmemAssumption
  <2>2. ~ OfMosaic(image, bytes, dxt, setting)
    BY DEF InBanks, OfMosaic
  <2>. QED
    BY <2>1, <2>2, Zenon DEF LoadBlock
<1>2. DOMAIN plain = 0 .. TmemBytes - 1
  BY DEF Copied
<1>3. \A j \in 0 .. TmemBytes - 1 :
        plain[j] = IF j \in dst .. dst + bytes - 1 THEN Byte(image.addr + j - dst) ELSE tmem[j]
  BY DEF Copied
<1>. HIDE DEF plain, dst
<1>4. Interleaved(plain, dst, bytes \div 8, dxt)[i] =
        IF i >= dst /\ (i - dst) \div 8 \in OddUpTo(bytes \div 8, dxt)
        THEN SwapWords(plain, dst + 8 * ((i - dst) \div 8), 1)[i] ELSE plain[i]
  <2>1. OddRows(bytes \div 8, dxt) = OddUpTo(bytes \div 8, dxt)
    BY <1>0, OddRowsRight
  <2>. QED
    BY <1>2, <2>1, Zenon DEF Interleaved
<1>5. CASE i >= dst /\ (i - dst) \div 8 \in OddUpTo(bytes \div 8, dxt)
  <2>1. n \in Nat
    BY <1>0, <1>5
  <2>2. PICK q \in Nat : q = n \div 8
    BY <2>1
  <2>3. q < bytes \div 8 /\ RowSwapped(q, bytes, dxt)
    BY <1>0, <1>5, <2>2 DEF OddUpTo, RowSwapped
  <2>4. /\ n = 8 * q + (n % 8) /\ n % 8 \in 0 .. 7
        /\ (n + 4) % 8 = ((n % 8) + 4) % 8 /\ 8 * q + 7 < bytes
    BY <2>1, <2>2, <2>3, InQuadword
  <2>. PICK r \in 0 .. 7 : r = n % 8
    BY <2>4
  <2>5. PICK m \in 0 .. 7 : m = (n + 4) % 8 /\ m = (r + 4) % 8
    <3>1. (r + 4) % 8 \in 0 .. 7
      OBVIOUS
    <3>. QED
      BY <2>4, <3>1
  <2>0. n = 8 * q + r /\ i = dst + 8 * q + r /\ dst + 8 * q + 7 < dst + bytes
    BY <1>0, <2>1, <2>4
  <2>6. (i - (dst + 8 * q)) \div 8 = 0 /\ ((i - (dst + 8 * q) - 8 * 0) + 4) % 8 = m
    BY <1>0, <2>0, <2>5
  <2>7. SwapWords(plain, dst + 8 * q, 1)[i] = plain[dst + 8 * q + m]
    <3>1. i >= dst + 8 * q /\ 0 < 1 /\ dst + 8 * q + 8 * 0 + 7 < TmemBytes
      BY <1>0, <2>0
    <3>2. SwapWords(plain, dst + 8 * q, 1)[i] = plain[dst + 8 * q + 8 * 0 + m]
      BY <1>2, <2>6, <3>1 DEF SwapWords
    <3>. QED
      BY <1>0, <3>2
  <2>8. plain[dst + 8 * q + m] = Byte(image.addr + (8 * q + m))
    <3> DEFINE j == dst + 8 * q + m
    <3>1. j \in 0 .. TmemBytes - 1 /\ j \in dst .. dst + bytes - 1
      BY <1>0, <2>0
    <3>2. image.addr + j - dst = image.addr + (8 * q + m)
      BY <1>0
    <3>3. plain[j] = Byte(image.addr + j - dst)
      BY <1>3, <3>1
    <3>. QED
      BY <3>2, <3>3, Zenon
  <2>9. n \in 0 .. bytes - 1
    BY <2>1, <2>4
  <2>10. BlockSource(n, bytes, dxt) = 8 * q + m
    BY <2>2, <2>3, <2>5 DEF BlockSource
  <2>. QED
    BY <1>1, <1>4, <1>5, <2>2, <2>7, <2>8, <2>9, <2>10 DEF dst
<1>6. CASE ~ (i >= dst /\ (i - dst) \div 8 \in OddUpTo(bytes \div 8, dxt))
  <2>1. LoadBlock(tmem, tile, image, lrs, dxt, setting)[i] = plain[i]
    BY <1>1, <1>4, <1>6
  <2>2. CASE n \in 0 .. bytes - 1
    <3>1. n \in Nat /\ n \div 8 \in Nat /\ i >= dst
      BY <1>0, <2>2
    <3>2. ~ RowSwapped(n \div 8, bytes, dxt)
      BY <1>0, <1>6, <3>1 DEF OddUpTo, RowSwapped
    <3>3. BlockSource(n, bytes, dxt) = n
      BY <3>2 DEF BlockSource
    <3>4. plain[i] = Byte(image.addr + n)
      <4>1. i \in dst .. dst + bytes - 1 /\ image.addr + i - dst = image.addr + n
        BY <1>0, <2>2
      <4>. QED
        BY <1>3, <4>1, Zenon
    <3>. QED
      BY <2>1, <2>2, <3>3, <3>4 DEF dst
  <2>3. CASE n \notin 0 .. bytes - 1
    <3>1. i \notin dst .. dst + bytes - 1
      BY <1>0, <2>3
    <3>. QED
      BY <1>3, <2>1, <2>3, <3>1 DEF dst
  <2>. QED
    BY <2>2, <2>3
<1>. QED
  BY <1>5, <1>6
=============================================================================
