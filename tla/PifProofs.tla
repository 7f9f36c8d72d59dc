----------------------------- MODULE PifProofs -----------------------------
(***************************************************************************)
(* The PIF, its recordings and the Controller Pack, for every set of       *)
(* sessions, every size of tape, recording and pack: a replayed bookmark   *)
(* gives what was recorded, no key is pressed but those last reported,     *)
(* reading the tape back samples controllers and nothing else, and what    *)
(* the end of the process takes from the pack was written within one batch.*)
(***************************************************************************)
EXTENDS Pif, SequenceTheorems, WellFoundedInduction, NaturalsInduction, TLAPS

-----------------------------------------------------------------------------
(* The Controller Pack: what an access keeps, for any m = [pack, disk,     *)
(* ledger] and any outcome of the host.                                    *)

PackRecord == [ram : Image, loaded : BOOLEAN, dirty : BOOLEAN, saved : 0 .. MaxTime]
Ledger == [written : [Blocks -> 0 .. MaxTime], saved : 0 .. MaxTime, refused : BOOLEAN]
Memory == [pack : PackRecord, disk : File, ledger : Ledger]

(* LossWindow of m, and the clock of the last save that the process keeps  *)
(* never ahead of the true one: a new process starts it at zero.           *)
Window(m) ==
    m.pack.loaded /\ ~m.ledger.refused =>
        \A b \in Blocks :
            ~m.disk.whole \/ m.disk.data[b] # m.pack.ram[b] =>
                m.ledger.written[b] - m.ledger.saved <= Batch
Sound(m) == m \in Memory /\ m.pack.saved <= m.ledger.saved /\ Window(m)

(* The image of the pack once loaded is one the process may go on with.    *)
LEMMA FlushSound ==
    ASSUME NEW m \in Memory, NEW io \in Outcomes, now \in 0 .. MaxTime,
           m.pack.saved <= m.ledger.saved
    PROVE  /\ Flush(m, io) \in Memory
           /\ Flush(m, io).pack.saved <= Flush(m, io).ledger.saved
           /\ Flush(m, io).pack.loaded = m.pack.loaded
           /\ Window(m) \/ m.pack.dirty => Window(Flush(m, io))
<1> USE PackAssumption
<1>1. CASE ~m.pack.dirty
  BY <1>1 DEF Flush
<1>2. CASE m.pack.dirty /\ io = "noopen"
  <2>1. Flush(m, io) = [m EXCEPT !.ledger.refused = TRUE]
    BY <1>2 DEF Flush
  <2> QED
    BY <2>1 DEF Memory, Ledger, Window
<1>3. CASE m.pack.dirty /\ io # "noopen"
  <2> DEFINE f == [pack   |-> [m.pack EXCEPT !.dirty = FALSE, !.saved = now],
                   disk   |-> IF io = "whole" THEN [whole |-> TRUE, data |-> m.pack.ram] ELSE NoFile,
                   ledger |-> [m.ledger EXCEPT !.saved = now, !.refused = (io = "short")]]
  <2>1. Flush(m, io) = f
    BY <1>3 DEF Flush
  <2>2. f.pack \in PackRecord /\ f.ledger \in Ledger
    BY DEF Memory, PackRecord, Ledger
  <2>3. f.disk \in File
    BY DEF Memory, PackRecord, File, NoFile, NewImage, Image
  <2>4. f.pack.saved = now /\ f.ledger.saved = now /\ f.pack.loaded = m.pack.loaded
    BY DEF Memory, PackRecord, Ledger
  <2>5. Window(f)
    <3>1. CASE io = "whole"
      BY <3>1 DEF Window, Memory, PackRecord
    <3>2. CASE io = "short"
      BY <3>2 DEF Window, Memory, Ledger
    <3> QED
      BY <1>3, <3>1, <3>2 DEF Outcomes
  <2> QED
    BY <2>1, <2>2, <2>3, <2>4, <2>5 DEF Memory
<1> QED
  BY <1>1, <1>2, <1>3

(* The first access loads a whole file, or formats a pack and saves it.    *)
LEMMA LoadSound ==
    ASSUME NEW m, NEW io \in Outcomes, now \in 0 .. MaxTime, Sound(m)
    PROVE  Sound(Load(m, io)) /\ Load(m, io).pack.loaded
<1> USE PackAssumption
<1>1. CASE m.pack.loaded
  BY <1>1 DEF Load
<1>2. CASE ~m.pack.loaded /\ m.disk.whole
  <2>1. Load(m, io) = [m EXCEPT !.pack = [@ EXCEPT !.ram = m.disk.data, !.loaded = TRUE]]
    BY <1>2 DEF Load
  <2>2. m.pack \in PackRecord /\ m.disk \in File
    BY DEF Sound, Memory
  <2> DEFINE p == [m.pack EXCEPT !.ram = m.disk.data, !.loaded = TRUE]
             l == [m EXCEPT !.pack = p]
  <2>3. p \in PackRecord
    BY <2>2 DEF PackRecord, File
  <2>4. p.saved = m.pack.saved /\ p.ram = m.disk.data /\ p.loaded
    BY <2>2 DEF PackRecord
  <2>5. m \in Memory /\ m.pack.saved <= m.ledger.saved
    BY DEF Sound
  <2>6. Load(m, io) = l
    BY <2>1
  <2> HIDE DEF p
  <2>7. l \in Memory /\ l.pack = p /\ l.disk = m.disk /\ l.ledger = m.ledger
    BY <2>3, <2>5 DEF Memory
  <2> HIDE DEF l
  <2>8. Window(l)
    BY <1>2, <2>4, <2>7 DEF Window
  <2> QED
    BY <2>4, <2>5, <2>6, <2>7, <2>8 DEF Sound
<1>3. CASE ~m.pack.loaded /\ ~m.disk.whole
  <2> DEFINE g == [m EXCEPT !.pack = [@ EXCEPT !.ram = NewImage, !.dirty = TRUE],
                            !.ledger = [@ EXCEPT !.written = [b \in Blocks |-> now]]]
             f == Flush(g, io)
  <2>1. Load(m, io) = [f EXCEPT !.pack.loaded = TRUE]
    BY <1>3 DEF Load
  <2>2. m \in Memory /\ m.pack \in PackRecord /\ m.ledger \in Ledger /\ m.disk \in File
    BY DEF Sound, Memory
  <2>3. g.pack \in PackRecord /\ g.ledger \in Ledger /\ g.disk \in File
    BY <2>2 DEF Memory, PackRecord, Ledger, NewImage, Image
  <2>4. g \in Memory /\ g.pack.saved <= g.ledger.saved /\ g.pack.dirty
    BY <2>2, <2>3 DEF Sound, Memory, PackRecord, Ledger
  <2> HIDE DEF g
  <2>5. f \in Memory /\ f.pack.saved <= f.ledger.saved
    BY <2>4, FlushSound
  <2>6. f.ledger.refused \/ \A b \in Blocks : f.disk.whole /\ f.disk.data[b] = f.pack.ram[b]
    BY <2>4 DEF Flush, Outcomes, Memory, PackRecord, Ledger
  <2> HIDE DEF f
  <2>7. f.pack \in PackRecord
    BY <2>5 DEF Memory
  <2>8. [f.pack EXCEPT !.loaded = TRUE] \in PackRecord
    BY <2>7 DEF PackRecord
  <2>9. /\ [f EXCEPT !.pack.loaded = TRUE] \in Memory
        /\ [f EXCEPT !.pack.loaded = TRUE].pack.saved = f.pack.saved
        /\ [f EXCEPT !.pack.loaded = TRUE].pack.loaded
        /\ [f EXCEPT !.pack.loaded = TRUE].pack.ram = f.pack.ram
        /\ [f EXCEPT !.pack.loaded = TRUE].disk = f.disk
        /\ [f EXCEPT !.pack.loaded = TRUE].ledger = f.ledger
    BY <2>5, <2>7, <2>8 DEF Memory, PackRecord
  <2> DEFINE l == [f EXCEPT !.pack.loaded = TRUE]
  <2>10. /\ l \in Memory /\ l.pack.saved = f.pack.saved /\ l.pack.loaded
         /\ l.pack.ram = f.pack.ram /\ l.disk = f.disk /\ l.ledger = f.ledger
    BY <2>9
  <2>11. Load(m, io) = l
    BY <2>1
  <2> HIDE DEF l
  <2>12. Window(l)
    BY <2>6, <2>10 DEF Window
  <2> QED
    BY <2>5, <2>10, <2>11, <2>12 DEF Sound
<1> QED
  BY <1>1, <1>2, <1>3

(* The end of an access: the file is brought up to date, or it is not yet  *)
(* late.                                                                   *)
LEMMA SaveSound ==
    ASSUME NEW m \in Memory, NEW io \in Outcomes, now \in 0 .. MaxTime,
           m.pack.saved <= m.ledger.saved,
           Window(m) \/ (m.pack.dirty /\ now - m.pack.saved > Batch)
    PROVE  Sound(SaveIfLate(m, io)) /\ SaveIfLate(m, io).pack.loaded = m.pack.loaded
<1>1. CASE now - m.pack.saved > Batch
  BY <1>1, FlushSound DEF SaveIfLate, Sound
<1>2. CASE ~(now - m.pack.saved > Batch)
  BY <1>2 DEF SaveIfLate, Sound
<1> QED
  BY <1>1, <1>2

(* A block that is read is one of the pack, and a read loses nothing.      *)
LEMMA ReadSound ==
    ASSUME NEW m, NEW io \in Outcomes, NEW addr \in Nat, now \in 0 .. MaxTime, Sound(m)
    PROVE  Sound(ReadBlock(m, addr, io).after) /\ ReadBlock(m, addr, io).data \in Data
<1>1. Sound(Load(m, io))
  BY LoadSound
<1>2. Sound(ReadBlock(m, addr, io).after)
  BY <1>1, SaveSound DEF ReadBlock, Sound
<1>3. Load(m, io).pack.ram \in Image
  BY <1>1 DEF Sound, Memory, PackRecord
<1>4. BlockOf(addr) \in Blocks
  BY PackAssumption DEF BlockOf, Blocks
<1> QED
  BY <1>2, <1>3, <1>4 DEF ReadBlock, Image

(* A block that is written now is in the file, or within the window.       *)
LEMMA WriteSound ==
    ASSUME NEW m, NEW io \in Outcomes, NEW addr \in Nat, NEW d \in Data,
           now \in 0 .. MaxTime, Sound(m)
    PROVE  Sound(WriteBlock(m, addr, d, io))
<1> USE PackAssumption
<1> DEFINE l == Load(m, io)
           w == [l EXCEPT !.pack = [@ EXCEPT !.ram[BlockOf(addr)] = d, !.dirty = TRUE],
                          !.ledger.written[BlockOf(addr)] = now]
<1>1. Sound(l)
  BY LoadSound
<1>2. BlockOf(addr) \in Blocks
  BY DEF BlockOf, Blocks
<1> HIDE DEF l
<1>3. l \in Memory /\ l.pack \in PackRecord /\ l.ledger \in Ledger
  BY <1>1 DEF Sound, Memory
<1>4. [l.pack EXCEPT !.ram[BlockOf(addr)] = d, !.dirty = TRUE] \in PackRecord
  BY <1>2, <1>3 DEF PackRecord, Image
<1>5. [l.ledger EXCEPT !.written[BlockOf(addr)] = now] \in Ledger
  BY <1>2, <1>3 DEF Ledger
<1>6. /\ w.pack = [l.pack EXCEPT !.ram[BlockOf(addr)] = d, !.dirty = TRUE]
      /\ w.ledger = [l.ledger EXCEPT !.written[BlockOf(addr)] = now]
      /\ w.disk = l.disk
  <2>1. PICK p \in PackRecord, f \in File, g \in Ledger : l = [pack |-> p, disk |-> f, ledger |-> g]
    BY <1>3 DEF Memory
  <2>2. w.pack = [l.pack EXCEPT !.ram[BlockOf(addr)] = d, !.dirty = TRUE]
    BY <2>1
  <2>3. w.ledger = [l.ledger EXCEPT !.written[BlockOf(addr)] = now]
    BY <2>1
  <2>4. w.disk = l.disk
    BY <2>1
  <2> QED
    BY <2>2, <2>3, <2>4
<1>7. w \in Memory /\ w.pack.dirty /\ w.pack.saved = l.pack.saved /\ w.ledger.saved = l.ledger.saved
  <2>1. w \in Memory
    BY <1>3, <1>4, <1>5 DEF Memory
  <2> HIDE DEF w
  <2> QED
    BY <1>3, <1>6, <2>1 DEF PackRecord, Ledger
<1> HIDE DEF w
<1>8. Window(w) \/ now - w.pack.saved > Batch
  <2>a. w.pack.saved \in Nat /\ w.ledger.saved \in Nat
    BY <1>7 DEF Memory, PackRecord, Ledger
  <2> SUFFICES ASSUME now - w.pack.saved <= Batch, w.pack.loaded, ~w.ledger.refused,
                      NEW b \in Blocks, ~w.disk.whole \/ w.disk.data[b] # w.pack.ram[b]
               PROVE  w.ledger.written[b] - w.ledger.saved <= Batch
    BY <2>a DEF Window
  <2>1. now - w.ledger.saved <= Batch
    BY <1>1, <1>7, <2>a DEF Sound
  <2>2. CASE b = BlockOf(addr)
    BY <1>3, <1>6, <2>1, <2>2 DEF Ledger
  <2>3. CASE b # BlockOf(addr)
    <3>1. /\ w.pack.ram[b] = l.pack.ram[b] /\ w.disk = l.disk
          /\ w.ledger.written[b] = l.ledger.written[b]
      BY <1>3, <1>6, <2>3 DEF PackRecord, Image, Ledger
    <3>2. w.pack.loaded = l.pack.loaded /\ w.ledger.refused = l.ledger.refused
      BY <1>3, <1>6 DEF PackRecord, Ledger
    <3> QED
      BY <1>1, <1>7, <3>1, <3>2 DEF Sound, Window
  <2> QED
    BY <2>2, <2>3
<1>9. w.pack.saved <= w.ledger.saved
  BY <1>1, <1>7 DEF Sound
<1>10. Sound(SaveIfLate(w, io))
  BY <1>7, <1>8, <1>9, SaveSound
<1> QED
  BY <1>10 DEF WriteBlock, w, l

-----------------------------------------------------------------------------
(* pif_process turn by turn.  The community modules fold over the set of   *)
(* the indices of a sequence, always taking out the greatest; this section *)
(* shows that the walk is what its turns make of it, one after another.    *)

(* A set of naturals that is not empty has a least element.                *)
LEMMA LeastElement ==
    ASSUME NEW S \in SUBSET Nat, S # {}
    PROVE  \E x \in S : \A y \in S : x <= y
<1>1. IsWellFoundedOn(OpToRel(<, Nat), Nat)
  BY NatLessThanWellFounded
<1>2. PICK x \in S : \A y \in S : ~ (<<y, x>> \in OpToRel(<, Nat))
  BY <1>1, WFMin
<1>3. \A y \in S : ~ (y < x)
  BY <1>2 DEF OpToRel
<1> QED
  BY <1>3

(* A set of numbers up to n that is not empty has a greatest.              *)
LEMMA MaxExists ==
    ASSUME NEW n \in Nat, NEW S \in SUBSET (0 .. n), S # {}
    PROVE  Max(S) \in S /\ \A y \in S : Max(S) >= y
<1> DEFINE T == {n - y : y \in S}
<1>1. T \in SUBSET Nat /\ T # {}
  <2>1. \A y \in S : n - y \in Nat
    OBVIOUS
  <2> QED
    BY <2>1
<1>2. PICK z \in T : \A y \in T : z <= y
  <2> HIDE DEF T
  <2> QED
    BY <1>1, LeastElement
<1>3. PICK x \in S : z = n - x
  BY <1>2
<1>4. \A y \in S : x >= y
  BY <1>2, <1>3
<1> QED
  BY <1>3, <1>4 DEF Max

(* What the fold computes for the sets of the first n places.              *)
Folded(g, tape, n, refresh, io) ==
    g = [s \in SUBSET (1 .. n) |->
           IF s = {} THEN Start ELSE Step(g[s \ {Max(s)}], tape[Max(s)], refresh, io)]

(* There is such a function, whatever the tape.                            *)
LEMMA FoldExists ==
    ASSUME NEW tape, NEW refresh, NEW io, NEW n \in Nat
    PROVE  \E g : Folded(g, tape, n, refresh, io)
<1> DEFINE Bad == {k \in Nat : ~ \E g : Folded(g, tape, k, refresh, io)}
<1>1. SUFFICES Bad = {}
  OBVIOUS
<1>2. SUFFICES ASSUME Bad # {} PROVE FALSE
  OBVIOUS
<1>3. PICK k \in Bad : \A j \in Bad : k <= j
  <2>1. Bad \in SUBSET Nat
    OBVIOUS
  <2> HIDE DEF Bad
  <2> QED
    BY <1>2, <2>1, LeastElement
<1>4. k \in Nat
  BY <1>3
<1>5. CASE k = 0
  <2> DEFINE g == [s \in SUBSET (1 .. 0) |-> Start]
  <2>1. \A s \in SUBSET (1 .. 0) : s = {}
    OBVIOUS
  <2>2. Folded(g, tape, k, refresh, io)
    BY <1>5, <2>1 DEF Folded
  <2> QED
    BY <1>3, <2>2
<1>6. CASE k # 0
  <2>1. k - 1 \in Nat /\ k - 1 \notin Bad
    BY <1>3, <1>4, <1>6
  <2>2. PICK g : Folded(g, tape, k - 1, refresh, io)
    BY <2>1
  <2>3. \A s \in SUBSET (1 .. k - 1) :
           g[s] = IF s = {} THEN Start ELSE Step(g[s \ {Max(s)}], tape[Max(s)], refresh, io)
    BY <2>2 DEF Folded
  <2> DEFINE h == [s \in SUBSET (1 .. k) |->
                     IF s \subseteq 1 .. k - 1 THEN g[s] ELSE Step(g[s \ {k}], tape[k], refresh, io)]
  <2>4. ASSUME NEW s \in SUBSET (1 .. k)
        PROVE  h[s] = IF s = {} THEN Start ELSE Step(h[s \ {Max(s)}], tape[Max(s)], refresh, io)
    <3>1. CASE s = {}
      BY <2>3, <3>1
    <3>2. CASE s # {} /\ s \subseteq 1 .. k - 1
      <4>1. s \ {Max(s)} \subseteq 1 .. k - 1
        BY <3>2
      <4>2. h[s \ {Max(s)}] = g[s \ {Max(s)}]
        BY <4>1, <1>4
      <4> QED
        BY <2>3, <3>2, <4>2
    <3>3. CASE ~ (s \subseteq 1 .. k - 1)
      <4>1. k \in s /\ s # {} /\ s \in SUBSET (0 .. k)
        BY <1>4, <3>3
      <4>2. Max(s) \in s /\ Max(s) >= k
        BY <1>4, <4>1, MaxExists
      <4>3. Max(s) = k
        <5>1. Max(s) \in 1 .. k
          BY <4>2
        <5> QED
          BY <1>4, <4>2, <5>1
      <4>4. s \ {k} \subseteq 1 .. k - 1 /\ s \ {k} \in SUBSET (1 .. k)
        BY <1>4
      <4>5. h[s \ {k}] = g[s \ {k}]
        BY <4>4
      <4> QED
        BY <3>3, <4>1, <4>3, <4>5
    <3> QED
      BY <3>1, <3>2, <3>3
  <2>5. Folded(h, tape, k, refresh, io)
    BY <2>4 DEF Folded
  <2> QED
    BY <1>3, <2>5
<1> QED
  BY <1>5, <1>6

(* The turns of the walk over a tape.                                      *)
Turns(f, tape, refresh, io) ==
    /\ f[0] = Start
    /\ \A k \in 1 .. Len(tape) : f[k] = Step(f[k - 1], tape[k], refresh, io)

(* The walk is where its turns lead.                                       *)
LEMMA WalkTurns ==
    ASSUME NEW C, NEW tape \in Seq(C), NEW refresh, NEW io
    PROVE  \E f : Turns(f, tape, refresh, io) /\ Walk(tape, refresh, io) = f[Len(tape)]
<1> DEFINE n == Len(tape)
<1>1. n \in Nat /\ DOMAIN tape = 1 .. n
  OBVIOUS
<1> DEFINE g == CHOOSE g : Folded(g, tape, n, refresh, io)
<1>2. Walk(tape, refresh, io) = g[1 .. n]
  BY <1>1 DEF Walk, FoldLeft, MapThenFoldSet, Folded
<1>3. Folded(g, tape, n, refresh, io)
  BY <1>1, FoldExists
<1> HIDE DEF g
<1>4. \A s \in SUBSET (1 .. n) :
         g[s] = IF s = {} THEN Start ELSE Step(g[s \ {Max(s)}], tape[Max(s)], refresh, io)
  BY <1>3 DEF Folded
<1> HIDE DEF n
<1> DEFINE f == [k \in 0 .. n |-> g[1 .. k]]
<1>5. f[0] = Start
  <2>1. 1 .. 0 = {} /\ 1 .. 0 \in SUBSET (1 .. n) /\ 0 \in 0 .. n
    BY <1>1
  <2>2. g[1 .. 0] = Start
    BY <1>4, <2>1
  <2> QED
    BY <2>1, <2>2
<1>6. ASSUME NEW k \in 1 .. n PROVE f[k] = Step(f[k - 1], tape[k], refresh, io)
  <2>1. k \in Nat /\ k - 1 \in 0 .. n /\ k \in 0 .. n
    BY <1>1
  <2>2. 1 .. k \in SUBSET (1 .. n) /\ 1 .. k \in SUBSET (0 .. k) /\ 1 .. k # {} /\ k \in 1 .. k
    BY <1>1, <2>1
  <2>3. Max(1 .. k) \in 1 .. k /\ Max(1 .. k) >= k
    BY <2>1, <2>2, MaxExists
  <2>4. Max(1 .. k) = k
    BY <2>1, <2>3
  <2>5. (1 .. k) \ {k} = 1 .. (k - 1)
    BY <2>1
  <2>6. g[1 .. k] = Step(g[1 .. (k - 1)], tape[k], refresh, io)
    BY <1>4, <2>2, <2>4, <2>5
  <2> QED
    BY <2>1, <2>6
<1>7. Turns(f, tape, refresh, io)
  BY <1>5, <1>6 DEF Turns, n
<1>8. f[n] = g[1 .. n]
  BY <1>1
<1> QED
  BY <1>2, <1>7, <1>8 DEF n

(* What holds at the start and passes from one place to the next, as the   *)
(* set P of the places where it holds, holds up to the last.               *)
LEMMA UpTo ==
    ASSUME NEW n \in Nat, NEW P, 0 \in P, \A k \in 1 .. n : k - 1 \in P => k \in P
    PROVE  \A k \in 0 .. n : k \in P
<1> DEFINE Bad == {k \in 0 .. n : k \notin P}
<1>1. SUFFICES ASSUME Bad # {} PROVE FALSE
  OBVIOUS
<1>2. Bad \in SUBSET Nat
  OBVIOUS
<1>3. PICK k \in Bad : \A j \in Bad : k <= j
  <2> HIDE DEF Bad
  <2> QED
    BY <1>1, <1>2, LeastElement
<1>4. k \in 1 .. n /\ k - 1 \in 0 .. n /\ ~ (k <= k - 1)
  BY <1>3
<1>5. k - 1 \in P
  BY <1>3, <1>4
<1> QED
  BY <1>3, <1>4, <1>5

-----------------------------------------------------------------------------
(* The inputs.                                                             *)

Recorded == [at : Nat, b : Keys \cup {None}, s : Sticks \cup {None}, poll : Nat]
ScriptStep == Timed \cup Recorded

InputsTyped ==
    /\ scripts \in [ms : Seq(ScriptStep), poll : Seq(ScriptStep), retrace : Seq(ScriptStep)]
    /\ stress \in [on : BOOLEAN, start : Nat]
    /\ live \in Keys \cup {None} /\ pressed \in Keys \cup {None} /\ stick \in Sticks \cup {None}
    /\ retrace \in 0 .. MaxRetrace /\ now \in 0 .. MaxTime

(* A script only gives what the controller has.                            *)
LEMMA AtTimeType ==
    ASSUME NEW list \in Seq(ScriptStep), NEW t, NEW s \in Sticks \cup {None}
    PROVE  AtTime(list, t, s) \in Input
<1> DEFINE due == {i \in DOMAIN list : list[i].at <= t}
           moves == {i \in due : list[i].s # "keep"}
<1>1. AtTime(list, t, s) = [b |-> IF due = {} THEN None ELSE list[Max(due)].b,
                            s |-> IF moves = {} THEN s ELSE list[Max(moves)].s]
  BY DEF AtTime
<1>2. Len(list) \in Nat /\ due \in SUBSET (0 .. Len(list)) /\ moves \in SUBSET (0 .. Len(list))
  OBVIOUS
<1>3. \A i \in DOMAIN list :
         list[i].b \in Keys \cup {None} /\ (list[i].s \in Sticks \cup {None} \/ list[i].s = "keep")
  BY DEF ScriptStep, Timed, Recorded
<1>4. due # {} => Max(due) \in DOMAIN list
  BY <1>2, MaxExists
<1>5. moves # {} => Max(moves) \in DOMAIN list /\ list[Max(moves)].s # "keep"
  BY <1>2, MaxExists
<1> HIDE DEF due, moves
<1> QED
  BY <1>1, <1>3, <1>4, <1>5 DEF Input

(* So does every source of input.                                          *)
LEMMA InputType ==
    ASSUME InputsTyped, NEW n \in Nat, NEW s \in Sticks \cup {None}
    PROVE  InputNow(n, s) \in Input
<1>1. StressInput(n, s) \in Input
  BY PifAssumption DEF StressInput, Input, Centre
<1>2. /\ AtTime(scripts.retrace, retrace, s) \in Input /\ AtTime(scripts.poll, n, s) \in Input
      /\ AtTime(scripts.ms, now, s) \in Input
  BY AtTimeType DEF InputsTyped
<1>3. [b |-> live, s |-> s] \in Input
  BY DEF Input, InputsTyped
<1> QED
  BY <1>1, <1>2, <1>3 DEF InputNow

Recording == [list : Seq(Recorded), last : {Nothing} \cup {<<i>> : i \in Input}]

(* A transition keeps the recording one, and within its bound.             *)
LEMMA RecordType ==
    ASSUME NEW rec \in Recording, NEW n \in Nat, NEW i \in Input, retrace \in 0 .. MaxRetrace
    PROVE  /\ Record(rec, n, i) \in Recording
           /\ Len(rec.list) <= RecordingMax => Len(Record(rec, n, i).list) <= RecordingMax
<1> DEFINE e == [at |-> retrace, b |-> i.b, s |-> i.s, poll |-> n]
<1>1. e \in Recorded
  BY DEF Recorded, Input
<1>2. rec.list \in Seq(Recorded) /\ Len(rec.list) \in Nat
  BY DEF Recording
<1>3. CASE rec.last = <<i>>
  BY <1>3 DEF Record
<1>4. CASE rec.last # <<i>> /\ Len(rec.list) < RecordingMax
  <2>1. Record(rec, n, i) = [list |-> Append(rec.list, e), last |-> <<i>>]
    BY <1>4 DEF Record
  <2> HIDE DEF e
  <2>2. Append(rec.list, e) \in Seq(Recorded) /\ Len(Append(rec.list, e)) = Len(rec.list) + 1
    BY <1>1, <1>2
  <2> QED
    BY <1>2, <1>4, <2>1, <2>2, PifAssumption DEF Recording
<1>5. CASE rec.last # <<i>> /\ ~ (Len(rec.list) < RecordingMax)
  <2>1. Record(rec, n, i) = [list |-> rec.list, last |-> <<i>>]
    BY <1>5 DEF Record
  <2> QED
    BY <1>2, <2>1 DEF Recording
<1> QED
  BY <1>3, <1>4, <1>5

-----------------------------------------------------------------------------
(* One walk.                                                               *)

Answers == {<<"unanswered">>, <<"nodevice", 0>>, <<"pack", 0>>}
           \cup {<<"read", i>> : i \in Input}
           \cup {<<"data", d>> : d \in Data} \cup {<<"crc", d>> : d \in Data}
Scanned == [op : Ops, tx : Nat, rx : Nat, addr : Nat, data : Data, ans : Answers]

Walker == [on : BOOLEAN, at : Nat, channel : Nat, tape : Seq(Scanned), polls : Nat,
           stick : Sticks \cup {None}, recording : Recording,
           read : {Nothing} \cup {<<i>> : i \in Input}, m : Memory]

(* The state a walk starts in.                                             *)
WalkTyped ==
    /\ InputsTyped /\ polls \in Nat
    /\ recording \in Recording /\ Len(recording.list) <= RecordingMax
    /\ Sound([pack |-> pack, disk |-> disk, ledger |-> ledger])

(* A walk samples the controller at most once, since only channel 0 has    *)
(* one and no turn goes back to it; until then it changes no input.        *)
Walked(w) ==
    /\ w \in Walker /\ Sound(w.m)
    /\ w.read = Nothing =>
          w.polls = polls /\ w.stick = stick /\ w.recording = recording
    /\ w.read # Nothing =>
          LET i == InputNow(polls + 1, stick)
          IN  /\ w.read = <<i>> /\ w.polls = polls + 1 /\ w.stick = i.s
              /\ w.recording = Record(recording, polls + 1, i)
              /\ w.channel # 0

LEMMA StartWalked == ASSUME WalkTyped PROVE Walked(Start)
<1>1. Start.tape \in Seq(Scanned)
  BY DEF Start
<1>2. Start.m \in Memory /\ Sound(Start.m)
  BY DEF Start, WalkTyped, Sound
<1>3. Start \in Walker
  BY <1>1, <1>2 DEF Start, Walker, WalkTyped, InputsTyped
<1> QED
  BY <1>2, <1>3 DEF Walked, Start, Nothing

LEMMA SaidScanned ==
    ASSUME NEW t \in Scanned, NEW a \in Answers
    PROVE  /\ [t EXCEPT !.ans = a] \in Scanned
           /\ \A e \in {[t EXCEPT !.ans = a]} :
                 /\ e.ans = a
                 /\ e.op = t.op /\ e.tx = t.tx /\ e.rx = t.rx /\ e.addr = t.addr /\ e.data = t.data
BY DEF Scanned

(* What a command that the PIF executes does to the inputs: nothing, or    *)
(* one sample of the controller.                                           *)
KeepsInputs(w, v) ==
    v.polls = w.polls /\ v.stick = w.stick /\ v.recording = w.recording /\ v.read = w.read
Samples(w, v) ==
    LET i == InputNow(w.polls + 1, w.stick)
    IN  /\ w.channel = 0 /\ v.read = <<i>> /\ v.polls = w.polls + 1 /\ v.stick = i.s
        /\ v.recording = Record(w.recording, w.polls + 1, i)

LEMMA AnswerWalked ==
    ASSUME WalkTyped, NEW w, NEW t \in Scanned, NEW refresh \in BOOLEAN, NEW io \in Outcomes,
           Walked(w)
    PROVE  /\ Answer(w, t, refresh, io) \in Walker /\ Sound(Answer(w, t, refresh, io).m)
           /\ Len(Answer(w, t, refresh, io).tape) = Len(w.tape) + 1
           /\ Answer(w, t, refresh, io).on = w.on /\ Answer(w, t, refresh, io).at = w.at
           /\ Answer(w, t, refresh, io).channel = w.channel
           /\ \/ KeepsInputs(w, Answer(w, t, refresh, io))
              \/ Samples(w, Answer(w, t, refresh, io))
<1> DEFINE said(what, x) == Append(w.tape, [t EXCEPT !.ans = <<what, x>>])
           v == Answer(w, t, refresh, io)
<1>1. /\ w \in Walker /\ w.tape \in Seq(Scanned) /\ w.channel \in Nat /\ w.polls \in Nat
      /\ w.stick \in Sticks \cup {None} /\ w.recording \in Recording /\ w.m \in Memory
      /\ w.on \in BOOLEAN /\ w.at \in Nat /\ Sound(w.m)
  BY DEF Walked, Walker
<1>2. /\ t.op \in Ops /\ t.addr \in Nat /\ t.data \in Data
      /\ now \in 0 .. MaxTime /\ retrace \in 0 .. MaxRetrace
  BY DEF Scanned, WalkTyped, InputsTyped
<1>3. ASSUME NEW what, NEW x, <<what, x>> \in Answers
      PROVE  said(what, x) \in Seq(Scanned) /\ Len(said(what, x)) = Len(w.tape) + 1
  <2>1. [t EXCEPT !.ans = <<what, x>>] \in Scanned
    BY <1>3, SaidScanned
  <2> QED
    BY <1>1, <2>1
<1>4. ASSUME NEW T \in Seq(Scanned), Len(T) = Len(w.tape) + 1, v = [w EXCEPT !.tape = T]
      PROVE  /\ v \in Walker /\ Sound(v.m) /\ Len(v.tape) = Len(w.tape) + 1
             /\ v.on = w.on /\ v.at = w.at /\ v.channel = w.channel /\ KeepsInputs(w, v)
  <2> HIDE DEF v
  <2> QED
    BY <1>1, <1>4 DEF Walker, KeepsInputs
<1>5. ASSUME NEW T \in Seq(Scanned), Len(T) = Len(w.tape) + 1, NEW m, Sound(m),
             v = [w EXCEPT !.m = m, !.tape = T]
      PROVE  /\ v \in Walker /\ Sound(v.m) /\ Len(v.tape) = Len(w.tape) + 1
             /\ v.on = w.on /\ v.at = w.at /\ v.channel = w.channel /\ KeepsInputs(w, v)
  <2>1. m \in Memory
    BY <1>5 DEF Sound
  <2> HIDE DEF v
  <2> QED
    BY <1>1, <1>5, <2>1 DEF Walker, KeepsInputs
<1>6. CASE w.channel # 0 \/ t.op = "other"
  <2>1. v = [w EXCEPT !.tape = said("nodevice", 0)]
    BY <1>6 DEF Answer
  <2>2. <<"nodevice", 0>> \in Answers
    BY DEF Answers
  <2> QED
    BY <1>3, <1>4, <2>1, <2>2
<1>7. CASE w.channel = 0 /\ t.op = "info" /\ t.rx >= 3
  <2>1. v = [w EXCEPT !.tape = said("pack", 0)]
    BY <1>7 DEF Answer
  <2>2. <<"pack", 0>> \in Answers
    BY DEF Answers
  <2> QED
    BY <1>3, <1>4, <2>1, <2>2
<1>8. CASE w.channel = 0 /\ t.op = "read" /\ t.rx >= 4
  <2> DEFINE n == w.polls + 1
             i == InputNow(n, w.stick)
  <2>1. v = [w EXCEPT !.polls = n, !.stick = i.s, !.tape = said("read", i),
                      !.recording = Record(@, n, i), !.read = <<i>>]
    BY <1>8 DEF Answer
  <2>2. i \in Input /\ n \in Nat
    BY <1>1, InputType DEF WalkTyped
  <2>3. <<"read", i>> \in Answers
    BY <2>2 DEF Answers
  <2>4. said("read", i) \in Seq(Scanned) /\ Len(said("read", i)) = Len(w.tape) + 1
    BY <1>3, <2>3
  <2>5. Record(w.recording, n, i) \in Recording
    BY <1>1, <1>2, <2>2, RecordType
  <2>6. i.s \in Sticks \cup {None}
    BY <2>2 DEF Input
  <2> HIDE DEF i, n, said
  <2>7. v \in Walker
    <3> DEFINE rec == Record(w.recording, n, i)
               tape == said("read", i)
               s == i.s
               read == <<i>>
    <3>1. read \in {<<x>> : x \in Input}
      BY <2>2
    <3>2. /\ n \in Nat /\ s \in Sticks \cup {None} /\ tape \in Seq(Scanned) /\ rec \in Recording
      BY <2>2, <2>4, <2>5, <2>6
    <3>3. v = [w EXCEPT !.polls = n, !.stick = s, !.tape = tape, !.recording = rec, !.read = read]
      BY <2>1
    <3> HIDE DEF rec, tape, s, read, v
    <3> QED
      BY <1>1, <3>1, <3>2, <3>3 DEF Walker
  <2>8. /\ v.read = <<i>> /\ v.polls = n /\ v.stick = i.s /\ v.recording = Record(w.recording, n, i)
        /\ v.m = w.m /\ v.on = w.on /\ v.at = w.at /\ v.channel = w.channel /\ v.tape = said("read", i)
    BY <1>1, <2>1 DEF Walker
  <2> HIDE DEF v
  <2>9. Samples(w, v)
    BY <1>8, <2>8 DEF Samples, i, n
  <2> QED
    BY <1>1, <2>4, <2>7, <2>8, <2>9 DEF v
<1>9. CASE w.channel = 0 /\ t.op = "pakread" /\ ~refresh /\ t.tx >= 3 /\ t.rx >= 33
  <2> DEFINE r == ReadBlock(w.m, t.addr, io)
  <2>1. v = [w EXCEPT !.m = r.after, !.tape = said("data", r.data)]
    BY <1>9 DEF Answer
  <2>2. Sound(r.after)
    BY <1>1, <1>2, ReadSound
  <2>3. r.data \in Data
    BY <1>1, <1>2, ReadSound
  <2>4. <<"data", r.data>> \in Answers
    BY <2>3 DEF Answers
  <2>5. said("data", r.data) \in Seq(Scanned) /\ Len(said("data", r.data)) = Len(w.tape) + 1
    BY <1>3, <2>4
  <2> HIDE DEF r, said, v
  <2> QED
    BY <1>5, <2>1, <2>2, <2>5 DEF v
<1>10. CASE w.channel = 0 /\ t.op = "pakwrite" /\ ~refresh /\ t.tx >= 35 /\ t.rx >= 1
  <2>1. v = [w EXCEPT !.m = WriteBlock(@, t.addr, t.data, io), !.tape = said("crc", t.data)]
    BY <1>10 DEF Answer
  <2>2. Sound(WriteBlock(w.m, t.addr, t.data, io))
    BY <1>1, <1>2, WriteSound
  <2>3. <<"crc", t.data>> \in Answers
    BY <1>2 DEF Answers
  <2>4. said("crc", t.data) \in Seq(Scanned) /\ Len(said("crc", t.data)) = Len(w.tape) + 1
    BY <1>3, <2>3
  <2> HIDE DEF said, v
  <2> QED
    BY <1>5, <2>1, <2>2, <2>4 DEF v
<1>11. CASE ~ (\/ w.channel # 0 \/ t.op = "other"
               \/ w.channel = 0 /\ t.op = "info" /\ t.rx >= 3
               \/ w.channel = 0 /\ t.op = "read" /\ t.rx >= 4
               \/ w.channel = 0 /\ t.op = "pakread" /\ ~refresh /\ t.tx >= 3 /\ t.rx >= 33
               \/ w.channel = 0 /\ t.op = "pakwrite" /\ ~refresh /\ t.tx >= 35 /\ t.rx >= 1)
  <2>1. v = [w EXCEPT !.tape = Append(@, t)]
    BY <1>11 DEF Answer
  <2>2. Append(w.tape, t) \in Seq(Scanned) /\ Len(Append(w.tape, t)) = Len(w.tape) + 1
    BY <1>1
  <2> HIDE DEF v
  <2> QED
    BY <1>4, <2>1, <2>2 DEF v
<1> QED
  BY <1>6, <1>7, <1>8, <1>9, <1>10, <1>11

LEMMA StepWalked ==
    ASSUME WalkTyped, NEW w, NEW t \in Scanned, NEW refresh \in BOOLEAN, NEW io \in Outcomes,
           Walked(w)
    PROVE  /\ Walked(Step(w, t, refresh, io))
           /\ Len(Step(w, t, refresh, io).tape) = Len(w.tape) + 1
<1> DEFINE v == Step(w, t, refresh, io)
<1>1. /\ w \in Walker /\ w.tape \in Seq(Scanned) /\ w.channel \in Nat /\ w.polls \in Nat
      /\ w.stick \in Sticks \cup {None} /\ w.recording \in Recording /\ w.m \in Memory
      /\ w.on \in BOOLEAN /\ w.at \in Nat /\ Sound(w.m)
  BY DEF Walked, Walker
<1>2. Append(w.tape, t) \in Seq(Scanned) /\ Len(Append(w.tape, t)) = Len(w.tape) + 1
  BY <1>1
<1>3. Size(t) \in Nat
  BY DEF Size, Scanned
<1>4. ASSUME v \in Walker, v.m = w.m, v.tape = Append(w.tape, t), v.channel >= w.channel,
             KeepsInputs(w, v)
      PROVE  Walked(v) /\ Len(v.tape) = Len(w.tape) + 1
  <2>1. v.channel \in Nat
    BY <1>4 DEF Walker
  <2> HIDE DEF v
  <2> QED
    BY <1>1, <1>2, <1>4, <2>1 DEF Walked, KeepsInputs
<1> DEFINE T == Append(w.tape, t)
<1>5. CASE ~w.on \/ w.at >= PifSize
  <2>1. v = [w EXCEPT !.tape = T]
    BY <1>5 DEF Step
  <2>a. T \in Seq(Scanned)
    BY <1>2
  <2> HIDE DEF v, T
  <2>2. v \in Walker
    BY <1>1, <2>a, <2>1 DEF Walker
  <2>3. /\ v.m = w.m /\ v.tape = T /\ v.channel >= w.channel
        /\ v.polls = w.polls /\ v.stick = w.stick /\ v.recording = w.recording /\ v.read = w.read
    BY <1>1, <2>1 DEF Walker
  <2> QED
    BY <1>4, <2>2, <2>3 DEF v, T, KeepsInputs
<1>6. CASE w.on /\ ~(w.at >= PifSize) /\ t.op = "skip"
  <2>b. PICK p \in Nat, c \in Nat : p = w.at + 1 /\ c = w.channel + 1
    BY <1>1
  <2>1. v = [w EXCEPT !.at = p, !.channel = c, !.tape = T]
    BY <1>6, <2>b DEF Step
  <2>a. T \in Seq(Scanned)
    BY <1>2
  <2> HIDE DEF v, T
  <2>2. v \in Walker
    BY <1>1, <2>a, <2>1 DEF Walker
  <2>3. /\ v.m = w.m /\ v.tape = T /\ v.channel >= w.channel
        /\ v.polls = w.polls /\ v.stick = w.stick /\ v.recording = w.recording /\ v.read = w.read
    BY <1>1, <2>b, <2>1 DEF Walker
  <2> QED
    BY <1>4, <2>2, <2>3 DEF v, T, KeepsInputs
<1>7. CASE w.on /\ ~(w.at >= PifSize) /\ t.op = "fill"
  <2>b. PICK p \in Nat : p = w.at + 1
    BY <1>1
  <2>1. v = [w EXCEPT !.at = p, !.tape = T]
    BY <1>7, <2>b DEF Step
  <2>a. T \in Seq(Scanned)
    BY <1>2
  <2> HIDE DEF v, T
  <2>2. v \in Walker
    BY <1>1, <2>a, <2>1 DEF Walker
  <2>3. /\ v.m = w.m /\ v.tape = T /\ v.channel >= w.channel
        /\ v.polls = w.polls /\ v.stick = w.stick /\ v.recording = w.recording /\ v.read = w.read
    BY <1>1, <2>1 DEF Walker
  <2> QED
    BY <1>4, <2>2, <2>3 DEF v, T, KeepsInputs
<1>8. CASE /\ w.on /\ ~(w.at >= PifSize)
           /\ \/ t.op = "end"
              \/ t.op \notin {"skip", "fill", "end"} /\ (t.tx = 0 \/ w.at + Size(t) > PifSize)
  <2>1. v = [w EXCEPT !.on = FALSE, !.tape = T]
    BY <1>8 DEF Step
  <2>a. T \in Seq(Scanned)
    BY <1>2
  <2> HIDE DEF v, T
  <2>2. v \in Walker
    BY <1>1, <2>a, <2>1 DEF Walker
  <2>3. /\ v.m = w.m /\ v.tape = T /\ v.channel >= w.channel
        /\ v.polls = w.polls /\ v.stick = w.stick /\ v.recording = w.recording /\ v.read = w.read
    BY <1>1, <2>1 DEF Walker
  <2> QED
    BY <1>4, <2>2, <2>3 DEF v, T, KeepsInputs
<1>9. CASE /\ w.on /\ ~(w.at >= PifSize) /\ t.op \notin {"skip", "fill", "end"}
           /\ ~(t.tx = 0 \/ w.at + Size(t) > PifSize)
  <2> DEFINE a == Answer(w, t, refresh, io)
  <2>1. v = [a EXCEPT !.at = @ + Size(t), !.channel = @ + 1]
    BY <1>9 DEF Step
  <2>2. /\ a \in Walker /\ Sound(a.m) /\ Len(a.tape) = Len(w.tape) + 1
        /\ a.channel = w.channel
        /\ KeepsInputs(w, a) \/ Samples(w, a)
    BY AnswerWalked
  <2> HIDE DEF a
  <2> DEFINE z == Size(t)
  <2> HIDE DEF v, z
  <2>a. a.at + z \in Nat /\ a.channel + 1 \in Nat /\ v = [a EXCEPT !.at = a.at + z, !.channel = a.channel + 1]
    BY <1>3, <2>1, <2>2 DEF z, Walker
  <2>b. v \in Walker
    BY <2>a, <2>2 DEF Walker
  <2>3. /\ v \in Walker /\ v.m = a.m /\ v.tape = a.tape /\ v.channel = w.channel + 1
        /\ v.polls = a.polls /\ v.stick = a.stick /\ v.recording = a.recording /\ v.read = a.read
    BY <2>a, <2>b, <2>2 DEF Walker
  <2>4. CASE KeepsInputs(w, a)
    <3>1. /\ v.polls = w.polls /\ v.stick = w.stick /\ v.recording = w.recording
          /\ v.read = w.read /\ v.channel # 0 /\ Sound(v.m)
      BY <1>1, <2>2, <2>3, <2>4 DEF KeepsInputs
    <3> QED
      BY <2>2, <2>3, <3>1 DEF Walked, v
  <2>5. CASE Samples(w, a)
    <3>1. w.read = Nothing
      BY <2>5 DEF Samples, Walked
    <3>2. w.polls = polls /\ w.stick = stick /\ w.recording = recording
      BY <3>1 DEF Walked
    <3>3. v.read # Nothing /\ v.channel # 0
      BY <1>1, <2>3, <2>5 DEF Samples, Nothing
    <3>4. /\ v.read = <<InputNow(polls + 1, stick)>> /\ v.polls = polls + 1
          /\ v.stick = InputNow(polls + 1, stick).s
          /\ v.recording = Record(recording, polls + 1, InputNow(polls + 1, stick))
      BY <2>3, <2>5, <3>2 DEF Samples
    <3>5. Sound(v.m) /\ v.tape = a.tape
      BY <2>2, <2>3
    <3> QED
      BY <2>2, <2>3, <3>3, <3>4, <3>5 DEF Walked, v
  <2> QED
    BY <2>2, <2>3, <2>4, <2>5 DEF v
<1> QED
  BY <1>5, <1>6, <1>7, <1>8, <1>9

(* Every turn of a walk, and so its end.                                   *)
LEMMA TurnsWalked ==
    ASSUME WalkTyped, NEW tape \in Seq(Scanned), NEW refresh \in BOOLEAN, NEW io \in Outcomes,
           NEW f, Turns(f, tape, refresh, io)
    PROVE  \A k \in 0 .. Len(tape) : Walked(f[k]) /\ Len(f[k].tape) = k
<1> DEFINE n == Len(tape)
           P == {k \in 0 .. n : Walked(f[k]) /\ Len(f[k].tape) = k}
<1>1. n \in Nat /\ \A k \in 1 .. n : tape[k] \in Scanned
  OBVIOUS
<1>2. 0 \in P
  BY <1>1, StartWalked DEF Turns, Start
<1>3. ASSUME NEW k \in 1 .. n, k - 1 \in P PROVE k \in P
  <2>1. f[k] = Step(f[k - 1], tape[k], refresh, io)
    BY DEF Turns
  <2>2. Walked(f[k]) /\ Len(f[k].tape) = Len(f[k - 1].tape) + 1
    BY <1>1, <1>3, <2>1, StepWalked
  <2> QED
    BY <1>1, <1>3, <2>2
<1> HIDE DEF P
<1>4. \A k \in 0 .. n : k \in P
  BY <1>1, <1>2, <1>3, UpTo
<1> QED
  BY <1>4 DEF P

LEMMA WalkWalked ==
    ASSUME WalkTyped, NEW tape \in Seq(Scanned), NEW refresh \in BOOLEAN, NEW io \in Outcomes
    PROVE  Walked(Walk(tape, refresh, io)) /\ Len(Walk(tape, refresh, io).tape) = Len(tape)
<1>1. PICK f : Turns(f, tape, refresh, io) /\ Walk(tape, refresh, io) = f[Len(tape)]
  BY WalkTurns
<1>2. Len(tape) \in 0 .. Len(tape)
  OBVIOUS
<1> QED
  BY <1>1, <1>2, TurnsWalked

-----------------------------------------------------------------------------
(* What a recording tells.                                                 *)

(* A recording tells, before the retrace it ran out of room in, what was   *)
(* last read by every retrace.                                             *)
Tells(list, read, lost) ==
    \A r \in 0 .. MaxRetrace : r < lost => AtTime(list, r, Centre) = read[r]

(* A step recorded now is in force from now on, and changes nothing before.*)
LEMMA AppendAtTime ==
    ASSUME NEW list \in Seq(Recorded), NEW e \in Recorded, NEW r \in Nat,
           \A i \in DOMAIN list : list[i].at <= e.at
    PROVE  /\ r >= e.at => AtTime(Append(list, e), r, Centre) = [b |-> e.b, s |-> e.s]
           /\ r < e.at => AtTime(Append(list, e), r, Centre) = AtTime(list, r, Centre)
<1> DEFINE n == Len(list)
           new == Append(list, e)
           due(l) == {i \in DOMAIN l : l[i].at <= r}
           moves(l) == {i \in due(l) : l[i].s # "keep"}
<1>1. /\ n \in Nat /\ DOMAIN list = 1 .. n /\ DOMAIN new = 1 .. n + 1 /\ new[n + 1] = e
      /\ \A i \in 1 .. n : new[i] = list[i]
  OBVIOUS
<1>2. e.at \in Nat /\ e.s # "keep" /\ \A i \in 1 .. n : list[i].at \in Nat
  <2>1. e.at \in Nat /\ e.s \in Sticks \cup {None}
    BY DEF Recorded
  <2>2. \A i \in DOMAIN list : list[i] \in Recorded
    OBVIOUS
  <2>3. \A i \in DOMAIN list : list[i].at \in Nat
    BY <2>2 DEF Recorded
  <2> QED
    BY <1>1, <2>1, <2>3, PifAssumption
<1>3. AtTime(new, r, Centre) = [b |-> IF due(new) = {} THEN None ELSE new[Max(due(new))].b,
                                s |-> IF moves(new) = {} THEN Centre ELSE new[Max(moves(new))].s]
  BY DEF AtTime
<1>4. AtTime(list, r, Centre) = [b |-> IF due(list) = {} THEN None ELSE list[Max(due(list))].b,
                                 s |-> IF moves(list) = {} THEN Centre ELSE list[Max(moves(list))].s]
  BY DEF AtTime
<1> HIDE DEF new, n
<1>5. ASSUME r >= e.at PROVE AtTime(new, r, Centre) = [b |-> e.b, s |-> e.s]
  <2>1. /\ n + 1 \in due(new) /\ n + 1 \in moves(new)
        /\ due(new) \in SUBSET (0 .. n + 1) /\ moves(new) \in SUBSET (0 .. n + 1)
    BY <1>1, <1>2, <1>5
  <2> DEFINE D == due(new)
             M == moves(new)
  <2> HIDE DEF D, M
  <2>2. /\ n + 1 \in D /\ n + 1 \in M /\ D \in SUBSET (0 .. n + 1) /\ M \in SUBSET (0 .. n + 1)
    BY <2>1 DEF D, M
  <2>a. n + 1 \in Nat
    BY <1>1
  <2>3. Max(D) \in D /\ Max(D) >= n + 1 /\ Max(M) \in M /\ Max(M) >= n + 1
    BY <2>a, <2>2, MaxExists
  <2>4. Max(D) \in 0 .. n + 1 /\ Max(M) \in 0 .. n + 1
    BY <2>2, <2>3
  <2>5. Max(D) = n + 1 /\ Max(M) = n + 1 /\ D # {} /\ M # {}
    BY <1>1, <2>2, <2>3, <2>4
  <2> QED
    BY <1>1, <1>3, <2>5 DEF D, M
<1>6. ASSUME r < e.at PROVE AtTime(new, r, Centre) = AtTime(list, r, Centre)
  <2>1. due(new) = due(list) /\ due(list) \subseteq 1 .. n
    BY <1>1, <1>2, <1>6
  <2>2. moves(new) = moves(list) /\ moves(list) \subseteq 1 .. n
    BY <1>1, <2>1
  <2>3. due(list) # {} => Max(due(list)) \in 1 .. n
    <3> DEFINE D == due(list)
    <3> HIDE DEF D
    <3>1. D \in SUBSET (0 .. n) /\ D \subseteq 1 .. n
      BY <1>1, <2>1 DEF D
    <3>2. D # {} => Max(D) \in 1 .. n
      BY <1>1, <3>1, MaxExists
    <3> QED
      BY <3>2 DEF D
  <2>4. moves(list) # {} => Max(moves(list)) \in 1 .. n
    <3> DEFINE D == moves(list)
    <3> HIDE DEF D
    <3>1. D \in SUBSET (0 .. n) /\ D \subseteq 1 .. n
      BY <1>1, <2>2 DEF D
    <3>2. D # {} => Max(D) \in 1 .. n
      BY <1>1, <3>1, MaxExists
    <3> QED
      BY <3>2 DEF D
  <2> HIDE DEF due, moves
  <2> QED
    BY <1>1, <1>3, <1>4, <2>1, <2>2, <2>3, <2>4
<1> QED
  BY <1>5, <1>6 DEF new

(* An empty recording tells that nothing was read.                         *)
LEMMA EmptyTells == \A lost : Tells(<<>>, NothingRead, lost)
BY DEF Tells, AtTime, NothingRead, Centre

(* The recording and the history agree: what was last recorded is what is  *)
(* read until the next reading, and no step is later than now.             *)
Agree(rec, read, lost) ==
    /\ rec.last # Nothing => \A r \in retrace .. MaxRetrace : read[r] = rec.last[1]
    /\ \A k \in DOMAIN rec.list : rec.list[k].at <= retrace
    /\ Tells(rec.list, read, lost)

(* The history after an input was read, and after there was no room.       *)
ReadNow(i, read, readAfter) ==
    /\ readAfter \in [0 .. MaxRetrace -> Input]
    /\ \A r \in 0 .. MaxRetrace : r >= retrace => readAfter[r] = i
    /\ \A r \in 0 .. MaxRetrace : r < retrace => readAfter[r] = read[r]
LostNow(rec, after, lost, lostAfter) ==
    LET full == after.last # rec.last /\ after.list = rec.list /\ lost > retrace
    IN  (full => lostAfter = retrace) /\ (~full => lostAfter = lost)

(* Recording an input, with the history of what was read.                  *)
LEMMA RecordTells ==
    ASSUME NEW rec \in Recording, NEW n \in Nat, NEW i \in Input, retrace \in 0 .. MaxRetrace,
           NEW read \in [0 .. MaxRetrace -> Input], NEW lost \in Nat,
           NEW after, after = Record(rec, n, i), NEW readAfter, NEW lostAfter,
           Agree(rec, read, lost), ReadNow(i, read, readAfter), LostNow(rec, after, lost, lostAfter)
    PROVE  Agree(after, readAfter, lostAfter) /\ after.last = <<i>>
<1> USE PifAssumption
<1> DEFINE e == [at |-> retrace, b |-> i.b, s |-> i.s, poll |-> n]
<1>0. /\ rec.last # Nothing => \A r \in retrace .. MaxRetrace : read[r] = rec.last[1]
      /\ \A k \in DOMAIN rec.list : rec.list[k].at <= retrace
      /\ Tells(rec.list, read, lost)
      /\ \A r \in 0 .. MaxRetrace : r >= retrace => readAfter[r] = i
      /\ \A r \in 0 .. MaxRetrace : r < retrace => readAfter[r] = read[r]
  BY DEF Agree, ReadNow
<1>1. \A r \in retrace .. MaxRetrace : readAfter[r] = i
  BY <1>0
<1>2. /\ after.last # rec.last /\ after.list = rec.list /\ lost > retrace => lostAfter = retrace
      /\ ~ (after.last # rec.last /\ after.list = rec.list /\ lost > retrace) => lostAfter = lost
  BY DEF LostNow
<1>3. e \in Recorded /\ e.at = retrace /\ i = [b |-> e.b, s |-> e.s]
  BY DEF Recorded, Input
<1>4. rec.list \in Seq(Recorded) /\ Len(rec.list) \in Nat
  BY DEF Recording
<1>5. CASE rec.last = <<i>>
  <2>1. after = rec
    BY <1>5 DEF Record
  <2>2. rec.last # Nothing /\ rec.last[1] = i
    BY <1>5 DEF Nothing
  <2>3. \A r \in 0 .. MaxRetrace : readAfter[r] = read[r]
    BY <1>0, <2>2
  <2>4. lostAfter = lost
    BY <1>2, <2>1
  <2> QED
    BY <1>0, <1>1, <1>5, <2>1, <2>3, <2>4 DEF Tells, Agree
<1>6. CASE rec.last # <<i>> /\ Len(rec.list) < RecordingMax
  <2>1. after = [list |-> Append(rec.list, e), last |-> <<i>>]
    BY <1>6 DEF Record
  <2> HIDE DEF e
  <2> DEFINE l == rec.list
  <2>a. l \in Seq(Recorded) /\ e \in Recorded /\ e.at = retrace /\ \A k \in DOMAIN l : l[k].at <= e.at
    BY <1>0, <1>3, <1>4
  <2>b. after.list = Append(l, e) /\ after.last = <<i>>
    BY <2>1
  <2> HIDE DEF l
  <2>c. Append(l, e) # l /\ \A k \in DOMAIN Append(l, e) : Append(l, e)[k].at <= retrace
    <3>1. /\ DOMAIN Append(l, e) = 1 .. Len(l) + 1 /\ Append(l, e)[Len(l) + 1] = e
          /\ \A k \in DOMAIN l : Append(l, e)[k] = l[k]
          /\ DOMAIN l = 1 .. Len(l) /\ Len(l) \in Nat /\ Len(Append(l, e)) = Len(l) + 1
      BY <2>a
    <3>2. Append(l, e) # l
      <4>1. \A x \in Nat : x # x + 1
        OBVIOUS
      <4>2. Len(Append(l, e)) # Len(l)
        BY <3>1, <4>1, Zenon
      <4> QED
        BY <4>2, Zenon
    <3>3. ASSUME NEW k \in DOMAIN Append(l, e) PROVE Append(l, e)[k].at <= retrace
      <4>1. k \in DOMAIN l \/ k = Len(l) + 1
        BY <3>1
      <4> QED
        BY <2>a, <3>1, <4>1
    <3> QED
      BY <3>2, <3>3
  <2>2. /\ after.list = Append(l, e) /\ after.last = <<i>> /\ after.list # rec.list
        /\ \A k \in DOMAIN after.list : after.list[k].at <= retrace
    BY <2>b, <2>c DEF l
  <2>3. lostAfter = lost
    BY <1>2, <2>2
  <2>4. ASSUME NEW r \in 0 .. MaxRetrace, r < lost
        PROVE  AtTime(after.list, r, Centre) = readAfter[r]
    <3>1. /\ r >= retrace => AtTime(Append(l, e), r, Centre) = [b |-> e.b, s |-> e.s]
          /\ r < retrace => AtTime(Append(l, e), r, Centre) = AtTime(l, r, Centre)
      <4>1. r \in Nat
        OBVIOUS
      <4> QED
        BY <2>a, <4>1, AppendAtTime
    <3>2. CASE r >= retrace
      BY <1>0, <1>3, <2>b, <3>1, <3>2
    <3>3. CASE r < retrace
      BY <1>0, <2>4, <2>b, <3>1, <3>3 DEF Tells, l
    <3> QED
      BY <3>2, <3>3
  <2> QED
    BY <1>1, <2>2, <2>3, <2>4 DEF Tells, Agree
<1>7. CASE rec.last # <<i>> /\ ~ (Len(rec.list) < RecordingMax)
  <2>1. after = [list |-> rec.list, last |-> <<i>>]
    BY <1>7 DEF Record
  <2>2. after.list = rec.list /\ after.last = <<i>> /\ after.last # rec.last
    BY <1>7, <2>1
  <2>3. lostAfter = IF lost > retrace THEN retrace ELSE lost
    BY <1>2, <2>2
  <2>4. ASSUME NEW r \in 0 .. MaxRetrace, r < lostAfter
        PROVE  AtTime(after.list, r, Centre) = readAfter[r]
    <3>1. r < lost /\ r < retrace
      BY <2>3, <2>4
    <3> QED
      BY <1>0, <2>2, <3>1 DEF Tells
  <2> QED
    BY <1>0, <1>1, <2>2, <2>4 DEF Tells, Agree
<1> QED
  BY <1>5, <1>6, <1>7

(* A bookmark replayed: where nothing of the script has come yet, the      *)
(* stick must not have moved.                                              *)
LEMMA ReplayAtTime ==
    ASSUME NEW list \in Seq(Recorded), NEW r \in Nat, NEW s,
           (\A i \in DOMAIN list : list[i].at > r) => s = Centre
    PROVE  AtTime(list, r, s) = AtTime(list, r, Centre)
<1> DEFINE due == {i \in DOMAIN list : list[i].at <= r}
           moves == {i \in due : list[i].s # "keep"}
<1>1. \A i \in DOMAIN list : list[i].at \in Nat /\ list[i].s # "keep"
  <2>1. \A i \in DOMAIN list : list[i] \in Recorded
    OBVIOUS
  <2>2. \A i \in DOMAIN list : list[i].at \in Nat /\ list[i].s \in Sticks \cup {None}
    BY <2>1 DEF Recorded
  <2> QED
    BY <2>2, PifAssumption
<1>2. moves = due
  BY <1>1
<1>3. due = {} => s = Centre
  BY <1>1
<1> QED
  BY <1>2, <1>3 DEF AtTime

(* A recording fits in a script: nothing of a bookmark is cut.             *)
LEMMA BookmarkFits ==
    ASSUME NEW list \in Seq(Recorded), Len(list) <= RecordingMax
    PROVE  RetraceScript(list) = [ms |-> <<>>, poll |-> <<>>, retrace |-> list]
<1>1. Len(list) \in Nat /\ ScriptMax \in Nat /\ Len(list) <= ScriptMax
  BY PifAssumption
<1>2. Min({Len(list), ScriptMax}) = Len(list)
  BY <1>1 DEF Min
<1>3. SubSeq(list, 1, Len(list)) = list
  BY SubSeqFull
<1>4. Fitting(list) = list
  BY <1>2, <1>3 DEF Fitting
<1> QED
  BY <1>4 DEF RetraceScript, NoScripts

-----------------------------------------------------------------------------
(* The inductive invariant.                                                *)

Bookmarks == [list : Seq(Recorded), target : Nat, pollTarget : Nat,
              read : [0 .. MaxRetrace -> Input], lost : Nat]
Images == [pif : Seq(Scanned), polls : 0 .. MaxPolls, stick : Sticks \cup {None},
           retrace : 0 .. MaxRetrace, live : Keys \cup {None}]

PifTyped ==
    /\ session \in Sessions /\ process \in 1 .. MaxProcesses
    /\ WalkTyped /\ polls \in 0 .. MaxPolls
    /\ pif \in Seq(Scanned)
    /\ bookmark \in Seq(Bookmarks) /\ image \in Seq(Images)
    /\ truth \in [read : [0 .. MaxRetrace -> Input], lost : Nat, replaying : Seq(Bookmarks)]

(* A bookmark is a recording that fits and tells what was read.            *)
Faithful(b) == Len(b.list) <= RecordingMax /\ Tells(b.list, b.read, b.lost)

(* With fibers retraces only go up, and what is recorded stays true.       *)
RecordingTrue ==
    /\ session.stateful => bookmark = Nothing /\ truth.replaying = Nothing
    /\ ~session.stateful =>
          /\ recording.last = Nothing => recording.list = <<>> /\ truth.read = NothingRead
          /\ Agree(recording, truth.read, truth.lost)
    /\ bookmark # Nothing => Faithful(bookmark[1])

(* The script of an undisturbed replay is its bookmark's, and the stick    *)
(* rests until a step of it moves it.                                      *)
ReplayOfBookmark ==
    truth.replaying # Nothing =>
        LET b == truth.replaying[1]
        IN  /\ Faithful(b) /\ ~stress.on
            /\ scripts = [ms |-> <<>>, poll |-> <<>>, retrace |-> b.list]
            /\ (\A i \in DOMAIN b.list : b.list[i].at > retrace) => stick = Centre

PifInv == PifTyped /\ RecordingTrue /\ ReplayOfBookmark

(* What the sessions are made of.                                          *)
LEMMA SessionFields ==
    ASSUME PifTyped
    PROVE  /\ session.tapes \subseteq Seq(Scanned) /\ session.outcomes \subseteq Outcomes
           /\ \A sc \in session.scripts :
                 sc \in [ms : Seq(ScriptStep), poll : Seq(ScriptStep), retrace : Seq(ScriptStep)]
           /\ session.stress \subseteq BOOLEAN
           /\ session.retraces <= MaxRetrace /\ session.retraces \in Nat
           /\ session.polls <= MaxPolls /\ session.polls \in Nat
           /\ session.time <= MaxTime /\ session.time \in Nat
           /\ session.processes <= MaxProcesses /\ session.processes \in Nat
<1>1. session \in Sessions
  BY DEF PifTyped
<1>2. Command \subseteq Scanned
  BY DEF Command, Scanned, Answers
<1>3. Seq(Command) \subseteq Seq(Scanned)
  BY <1>2
<1>4. Seq(Timed) \subseteq Seq(ScriptStep)
  BY DEF ScriptStep
<1>5. session.tapes \subseteq Seq(Scanned)
  BY <1>1, <1>3, SessionAssumption
<1>6. ASSUME NEW sc \in session.scripts
      PROVE  sc \in [ms : Seq(ScriptStep), poll : Seq(ScriptStep), retrace : Seq(ScriptStep)]
  <2>1. sc \in [ms : Seq(Timed), poll : Seq(Timed), retrace : Seq(Timed)]
    BY <1>1, SessionAssumption
  <2> QED
    BY <1>4, <2>1
<1> QED
  BY <1>1, <1>5, <1>6, SessionAssumption, PifAssumption, PackAssumption

LEMMA InitPif == Init => PifInv
<1> SUFFICES ASSUME Init PROVE PifInv
  OBVIOUS
<1> USE PifAssumption, PackAssumption
<1>1. InputsTyped
  BY DEF Init, PackInit, InputsTyped, NoScripts, NoStress
<1>2. recording \in Recording /\ Len(recording.list) <= RecordingMax
  BY DEF Init, NoRecording, Recording, Nothing
<1>3. Sound([pack |-> pack, disk |-> disk, ledger |-> ledger])
  <2>1. NewImage \in Image
    BY DEF NewImage, Image
  <2>2. pack \in PackRecord /\ pack.saved = 0 /\ ~pack.loaded
    BY <2>1 DEF Init, PackInit, Unloaded, PackRecord
  <2>3. disk \in File
    BY <2>1 DEF Init, PackInit, NoFile, File
  <2>4. ledger \in Ledger /\ ledger.saved = 0
    BY DEF Init, PackInit, Ledger
  <2> QED
    BY <2>2, <2>3, <2>4 DEF Sound, Memory, Window
<1>4. truth \in [read : [0 .. MaxRetrace -> Input], lost : Nat, replaying : Seq(Bookmarks)]
  <2>1. NothingRead \in [0 .. MaxRetrace -> Input]
    BY DEF NothingRead, Input
  <2> QED
    BY <2>1 DEF Init, Nothing
<1>5. PifTyped
  BY <1>1, <1>2, <1>3, <1>4 DEF PifTyped, WalkTyped, Init, Nothing
<1>6. RecordingTrue /\ ReplayOfBookmark
  BY EmptyTells DEF Init, RecordingTrue, ReplayOfBookmark, NoRecording, Nothing, Agree
<1> QED
  BY <1>5, <1>6 DEF PifInv

LEMMA TransferPif ==
    ASSUME PifInv, NEW tape \in Seq(Scanned), NEW refresh \in BOOLEAN, NEW io \in Outcomes,
           Transfer(Walk(tape, refresh, io))
    PROVE  PifInv'
<1> USE PifAssumption
<1> DEFINE w == Walk(tape, refresh, io)
           i == InputNow(polls + 1, stick)
<1>1. PifTyped /\ RecordingTrue /\ ReplayOfBookmark /\ WalkTyped /\ InputsTyped
  BY DEF PifInv, PifTyped, WalkTyped
<1>2. Walked(w)
  BY <1>1, WalkWalked
<1>3. /\ w.polls \in Nat /\ w.stick \in Sticks \cup {None} /\ w.recording \in Recording
      /\ w.tape \in Seq(Scanned) /\ Sound(w.m)
  BY <1>2 DEF Walked, Walker
<1>4. i \in Input
  BY <1>1, InputType DEF InputsTyped, WalkTyped
<1>5. /\ w.polls <= session.polls
      /\ pif' = w.tape /\ polls' = w.polls /\ stick' = w.stick /\ recording' = w.recording
      /\ pack' = w.m.pack /\ disk' = w.m.disk /\ ledger' = w.m.ledger
      /\ truth' = [truth EXCEPT
            !.read = [r \in 0 .. MaxRetrace |->
                        IF r >= retrace /\ w.read # Nothing THEN w.read[1] ELSE @[r]],
            !.lost = IF /\ w.recording.last # recording.last
                        /\ w.recording.list = recording.list
                        /\ @ > retrace
                     THEN retrace ELSE @]
      /\ UNCHANGED <<session, process, retrace, pressed, live, scripts, stress, bookmark, image, now>>
  BY DEF Transfer
<1>6. /\ w.read = Nothing => w.polls = polls /\ w.stick = stick /\ w.recording = recording
      /\ w.read # Nothing => /\ w.read = <<i>> /\ w.polls = polls + 1 /\ w.stick = i.s
                             /\ w.recording = Record(recording, polls + 1, i)
  BY <1>2 DEF Walked
<1> HIDE DEF w, i
<1>7. truth \in [read : [0 .. MaxRetrace -> Input], lost : Nat, replaying : Seq(Bookmarks)]
  BY <1>1 DEF PifTyped
<1>8. /\ truth'.replaying = truth.replaying
      /\ truth'.read = [r \in 0 .. MaxRetrace |->
                          IF r >= retrace /\ w.read # Nothing THEN w.read[1] ELSE truth.read[r]]
      /\ truth'.lost = IF /\ w.recording.last # recording.last
                          /\ w.recording.list = recording.list
                          /\ truth.lost > retrace
                       THEN retrace ELSE truth.lost
      /\ truth' = [read |-> truth'.read, lost |-> truth'.lost, replaying |-> truth'.replaying]
  BY <1>5, <1>7
<1>a. /\ session \in Sessions /\ process \in 1 .. MaxProcesses /\ polls \in 0 .. MaxPolls
      /\ bookmark \in Seq(Bookmarks) /\ image \in Seq(Images)
      /\ recording \in Recording /\ Len(recording.list) <= RecordingMax /\ stick \in Sticks \cup {None}
      /\ retrace \in 0 .. MaxRetrace
  BY <1>1 DEF PifTyped, WalkTyped, InputsTyped
<1>b. w.read # Nothing => w.read[1] = i
  BY <1>6
<1>c. truth'.read \in [0 .. MaxRetrace -> Input] /\ truth'.lost \in Nat
  <2>1. truth.read \in [0 .. MaxRetrace -> Input] /\ truth.lost \in Nat /\ retrace \in Nat
    BY <1>7, <1>a
  <2>2. \A r \in 0 .. MaxRetrace :
          (IF r >= retrace /\ w.read # Nothing THEN w.read[1] ELSE truth.read[r]) \in Input
    BY <1>4, <1>b, <2>1
  <2>3. truth'.read \in [0 .. MaxRetrace -> Input]
    BY <1>8, <2>2
  <2>4. truth'.lost \in Nat
    BY <1>8, <2>1
  <2> QED
    BY <2>3, <2>4
<1>d. w.read = Nothing => truth'.read = truth.read /\ truth'.lost = truth.lost
  BY <1>6, <1>7, <1>8
<1>9. PifTyped'
  <2>1. InputsTyped'
    BY <1>1, <1>3, <1>5 DEF InputsTyped
  <2>2. recording' \in Recording /\ Len(recording'.list) <= RecordingMax
    <3>1. CASE w.read = Nothing
      BY <1>5, <1>6, <1>a, <3>1
    <3>2. CASE w.read # Nothing
      <4>1. polls + 1 \in Nat
        BY <1>a
      <4>2. Len(Record(recording, polls + 1, i).list) <= RecordingMax
        BY <1>4, <1>a, <4>1, RecordType
      <4> QED
        BY <1>3, <1>5, <1>6, <3>2, <4>2
    <3> QED
      BY <3>1, <3>2
  <2>3. Sound([pack |-> pack', disk |-> disk', ledger |-> ledger'])
    <3>1. w.m = [pack |-> w.m.pack, disk |-> w.m.disk, ledger |-> w.m.ledger]
      BY <1>3 DEF Sound, Memory
    <3> QED
      BY <1>3, <1>5, <3>1
  <2>4. polls' \in 0 .. MaxPolls
    <3>1. session.polls \in Nat /\ session.polls <= MaxPolls
      BY <1>1, SessionFields
    <3> QED
      BY <1>3, <1>5, <3>1
  <2>5. WalkTyped'
    BY <2>1, <2>2, <2>3, <2>4 DEF WalkTyped
  <2>6. truth' \in [read : [0 .. MaxRetrace -> Input], lost : Nat, replaying : Seq(Bookmarks)]
    BY <1>7, <1>8, <1>c
  <2> QED
    BY <1>3, <1>5, <1>a, <2>4, <2>5, <2>6 DEF PifTyped
<1>10. RecordingTrue'
  <2>1. CASE session.stateful
    BY <1>1, <1>5, <1>8, <2>1 DEF RecordingTrue
  <2>2. CASE ~session.stateful /\ w.read = Nothing
    <3>1. /\ recording' = recording /\ truth'.read = truth.read /\ truth'.lost = truth.lost
          /\ session' = session /\ retrace' = retrace /\ bookmark' = bookmark
      BY <1>5, <1>6, <1>d, <2>2
    <3> QED
      BY <1>1, <2>2, <3>1 DEF RecordingTrue, Faithful, Tells, Agree
  <2>3. CASE ~session.stateful /\ w.read # Nothing
    <3>1. Agree(recording, truth.read, truth.lost) /\ (bookmark # Nothing => Faithful(bookmark[1]))
      BY <1>1, <2>3 DEF RecordingTrue
    <3>2. recording' = Record(recording, polls + 1, i)
      BY <1>5, <1>6, <2>3
    <3>3. ReadNow(i, truth.read, truth'.read)
      <4>1. truth'.read = [r \in 0 .. MaxRetrace |-> IF r >= retrace THEN i ELSE truth.read[r]]
        BY <1>8, <1>b, <2>3
      <4>2. retrace \in 0 .. MaxRetrace
        BY <1>a
      <4> QED
        BY <1>c, <4>1, <4>2 DEF ReadNow
    <3>4. LostNow(recording, recording', truth.lost, truth'.lost)
      BY <1>5, <1>8 DEF LostNow
    <3>5. truth.read \in [0 .. MaxRetrace -> Input] /\ truth.lost \in Nat /\ polls + 1 \in Nat
      BY <1>7, <1>a
    <3>6. Agree(recording', truth'.read, truth'.lost) /\ recording'.last = <<i>>
      <4>1. recording \in Recording /\ retrace \in 0 .. MaxRetrace
        BY <1>a
      <4>2. Agree(recording, truth.read, truth.lost)
        BY <3>1
      <4> DEFINE rec == recording
                 n == polls + 1
                 read == truth.read
                 lost == truth.lost
                 after == recording'
                 readAfter == truth'.read
                 lostAfter == truth'.lost
      <4>3. /\ rec \in Recording /\ n \in Nat /\ i \in Input /\ retrace \in 0 .. MaxRetrace
            /\ read \in [0 .. MaxRetrace -> Input] /\ lost \in Nat
            /\ after = Record(rec, n, i)
            /\ Agree(rec, read, lost) /\ ReadNow(i, read, readAfter) /\ LostNow(rec, after, lost, lostAfter)
        BY <1>4, <3>2, <3>3, <3>4, <3>5, <4>1, <4>2
      <4> HIDE DEF rec, n, read, lost, after, readAfter, lostAfter
      <4>4. Agree(after, readAfter, lostAfter) /\ after.last = <<i>>
        BY <4>3, RecordTells
      <4> QED
        BY <4>4 DEF after, readAfter, lostAfter
    <3>7. recording'.last # Nothing
      BY <3>6 DEF Nothing
    <3>8. Agree(recording, truth.read, truth.lost)'
      BY <1>5, <3>6 DEF Agree, Tells
    <3> QED
      BY <1>5, <2>3, <3>1, <3>7, <3>8 DEF RecordingTrue, Tells, Faithful
  <2> QED
    BY <2>1, <2>2, <2>3
<1>11. ReplayOfBookmark'
  <2> SUFFICES ASSUME truth.replaying # Nothing PROVE ReplayOfBookmark'
    BY <1>8 DEF ReplayOfBookmark
  <2> DEFINE b == truth.replaying[1]
  <2>1. /\ Faithful(b) /\ ~stress.on
        /\ scripts = [ms |-> <<>>, poll |-> <<>>, retrace |-> b.list]
        /\ (\A k \in DOMAIN b.list : b.list[k].at > retrace) => stick = Centre
    BY <1>1 DEF ReplayOfBookmark
  <2>2. ASSUME \A k \in DOMAIN b.list : b.list[k].at > retrace PROVE stick' = Centre
    <3>1. stick = Centre
      BY <2>1, <2>2
    <3>2. CASE w.read = Nothing
      BY <1>5, <1>6, <3>1, <3>2
    <3>3. CASE w.read # Nothing
      <4>1. stick' = InputNow(polls + 1, stick).s
        BY <1>5, <1>6, <3>3 DEF i
      <4>2. AtTime(b.list, retrace, stick).s = stick
        <5>1. b \in Bookmarks
          BY <1>7 DEF Nothing
        <5>2. \A k \in DOMAIN b.list : b.list[k] \in Recorded
          BY <5>1 DEF Bookmarks
        <5>3. \A k \in DOMAIN b.list : b.list[k].at \in Nat
          BY <5>2 DEF Recorded
        <5>4. {k \in DOMAIN b.list : b.list[k].at <= retrace} = {}
          BY <1>a, <2>2, <5>3
        <5> QED
          BY <5>4 DEF AtTime
      <4>3. InputNow(polls + 1, stick).s = stick
        BY <2>1, <4>2 DEF InputNow
      <4> QED
        BY <3>1, <4>1, <4>3
    <3> QED
      BY <3>2, <3>3
  <2>3. truth'.replaying[1] = b
    BY <1>8
  <2> HIDE DEF b
  <2> QED
    BY <1>5, <2>1, <2>2, <2>3 DEF ReplayOfBookmark, Faithful, Tells
<1> QED
  BY <1>9, <1>10, <1>11 DEF PifInv

(* The stress mode starts at a number: the latest of finitely many.        *)
LEMMA StressStartType ==
    ASSUME NEW env, env.target \in Nat, env.scripts.poll \in Seq(ScriptStep)
    PROVE  StressStart(env) \in Nat
<1> USE PifAssumption
<1> DEFINE list == env.scripts.poll
           n == Len(list)
           P == {k \in 0 .. n : \E m \in Nat : \A i \in 1 .. k : list[i].at + Delay <= m}
<1>1. n \in Nat /\ DOMAIN list = 1 .. n /\ \A i \in 1 .. n : list[i] \in ScriptStep
  OBVIOUS
<1>2. \A i \in 1 .. n : list[i].at \in Nat
  BY <1>1 DEF ScriptStep, Timed, Recorded
<1> HIDE DEF list, n
<1>3. 0 \in P
  BY <1>1
<1>4. ASSUME NEW k \in 1 .. n, k - 1 \in P PROVE k \in P
  <2>1. PICK m \in Nat : \A i \in 1 .. k - 1 : list[i].at + Delay <= m
    BY <1>4
  <2>2. PICK a \in Nat : a = list[k].at + Delay
    BY <1>2
  <2>3. \A i \in 1 .. k : i = k \/ i \in 1 .. k - 1
    BY <1>1
  <2>4. \A i \in 1 .. k : list[i].at + Delay <= m + a
    <3> SUFFICES ASSUME NEW i \in 1 .. k PROVE list[i].at + Delay <= m + a
      OBVIOUS
    <3>1. list[i].at \in Nat
      BY <1>1, <1>2
    <3>2. CASE i = k
      BY <2>2, <3>1, <3>2
    <3>3. CASE i \in 1 .. k - 1
      BY <2>1, <3>1, <3>3
    <3> QED
      BY <2>3, <3>2, <3>3
  <2> QED
    BY <1>1, <2>4
<1> HIDE DEF P
<1>5. n \in P
  <2>1. n \in Nat /\ \A k \in 1 .. n : k - 1 \in P => k \in P
    BY <1>1, <1>4
  <2>2. \A k \in 0 .. n : k \in P
    BY <1>3, <2>1, UpTo
  <2> QED
    BY <2>1, <2>2
<1>6. PICK m \in Nat : \A i \in 1 .. n : list[i].at + Delay <= m
  BY <1>5 DEF P
<1> DEFINE S == {env.target + Delay, Delay} \cup {list[i].at + Delay : i \in DOMAIN list}
           top == env.target + Delay + m
<1>7. top \in Nat /\ S # {}
  OBVIOUS
<1>8. S \in SUBSET (0 .. top)
  <2>1. \A i \in DOMAIN list : list[i].at + Delay \in 0 .. top
    BY <1>1, <1>2, <1>6
  <2>2. env.target + Delay \in 0 .. top /\ Delay \in 0 .. top
    OBVIOUS
  <2> QED
    BY <2>1, <2>2
<1>9. StressStart(env) = Max(S)
  BY DEF StressStart, list
<1> HIDE DEF S, top
<1>10. Max(S) \in S
  BY <1>7, <1>8, MaxExists
<1>11. Max(S) \in 0 .. top
  BY <1>8, <1>10
<1> QED
  BY <1>7, <1>9, <1>11

LEMMA RetracePif == PifInv /\ Retrace => PifInv'
<1> SUFFICES ASSUME PifInv, Retrace PROVE PifInv'
  OBVIOUS
<1>1. /\ retrace' = retrace + 1 /\ retrace < session.retraces
      /\ UNCHANGED <<session, process, pressed, live, stick, scripts, stress, recording, polls, pif,
                     bookmark, image, truth, now, pack, disk, ledger>>
  BY DEF Retrace, inputVars, packVars
<1>2. PifTyped /\ RecordingTrue /\ ReplayOfBookmark /\ retrace \in 0 .. MaxRetrace
  BY DEF PifInv, PifTyped, WalkTyped, InputsTyped
<1>3. retrace' \in 0 .. MaxRetrace
  BY <1>1, <1>2, SessionFields, PifAssumption
<1>4. PifTyped'
  BY <1>1, <1>2, <1>3 DEF PifTyped, WalkTyped, InputsTyped
<1>5. RecordingTrue'
  <2>1. Agree(recording, truth.read, truth.lost) => Agree(recording, truth.read, truth.lost)'
    <3> SUFFICES ASSUME Agree(recording, truth.read, truth.lost)
                 PROVE  Agree(recording, truth.read, truth.lost)'
      OBVIOUS
    <3>1. Tells(recording.list, truth.read, truth.lost)'
      BY <1>1 DEF Agree, Tells
    <3>2. \A k \in DOMAIN recording.list : recording.list[k].at <= retrace'
      <4>1. recording.list \in Seq(Recorded)
        BY <1>2 DEF PifTyped, WalkTyped, Recording
      <4>2. \A k \in DOMAIN recording.list : recording.list[k] \in Recorded
        BY <4>1
      <4>3. \A k \in DOMAIN recording.list : recording.list[k].at \in Nat
        BY <4>2 DEF Recorded
      <4> QED
        BY <1>1, <1>2, <4>3 DEF Agree
    <3>3. \A r \in retrace' .. MaxRetrace : r \in retrace .. MaxRetrace
      BY <1>1, <1>2
    <3> QED
      BY <1>1, <3>1, <3>2, <3>3 DEF Agree
  <2> QED
    BY <1>1, <1>2, <2>1 DEF RecordingTrue, Faithful, Tells
<1>6. ReplayOfBookmark'
  <2> SUFFICES ASSUME truth.replaying # Nothing PROVE ReplayOfBookmark'
    BY <1>1 DEF ReplayOfBookmark
  <2> DEFINE b == truth.replaying[1]
  <2>1. b \in Bookmarks
    BY <1>2 DEF PifTyped, Nothing
  <2>2. \A k \in DOMAIN b.list : b.list[k] \in Recorded
    BY <2>1 DEF Bookmarks
  <2>3. \A k \in DOMAIN b.list : b.list[k].at \in Nat
    BY <2>2 DEF Recorded
  <2>4. (\A k \in DOMAIN b.list : b.list[k].at > retrace')
           => \A k \in DOMAIN b.list : b.list[k].at > retrace
    BY <1>1, <1>2, <2>3
  <2> QED
    BY <1>1, <1>2, <2>4 DEF ReplayOfBookmark, Faithful, Tells
<1> QED
  BY <1>4, <1>5, <1>6 DEF PifInv

(* What leaves the recording, the script and the retrace alone.            *)
LEMMA QuietPif ==
    ASSUME PifInv, PifTyped',
           UNCHANGED <<session, retrace, stick, scripts, stress, recording, bookmark, truth>>
    PROVE  PifInv'
BY DEF PifInv, RecordingTrue, ReplayOfBookmark, Agree, Faithful, Tells

LEMMA TickPif == PifInv /\ Tick => PifInv'
<1> SUFFICES ASSUME PifInv, Tick PROVE PifInv'
  OBVIOUS
<1>1. /\ now' = now + 1 /\ now < session.time
      /\ UNCHANGED <<session, process, retrace, pressed, live, stick, scripts, stress, recording, polls,
                     pif, bookmark, image, truth, pack, disk, ledger>>
  BY DEF Tick, inputVars
<1>2. PifTyped /\ now \in 0 .. MaxTime
  BY DEF PifInv, PifTyped, WalkTyped, InputsTyped
<1>3. now' \in 0 .. MaxTime
  BY <1>1, <1>2, SessionFields, PackAssumption
<1>4. PifTyped'
  BY <1>1, <1>2, <1>3 DEF PifTyped, WalkTyped, InputsTyped
<1> QED
  BY <1>1, <1>4, QuietPif

LEMMA KeyPif ==
    ASSUME PifInv, NEW h \in Keys \cup {None}, NEW s \in Sticks \cup {None}, KeyEvent(h, s)
    PROVE  PifInv'
<1>1. /\ pressed' = h /\ stick' = s /\ scripts' = NoScripts /\ live' \in {h, live}
      /\ truth' = [truth EXCEPT !.replaying = Nothing]
      /\ UNCHANGED <<session, process, retrace, stress, recording, polls, pif, bookmark, image,
                     now, pack, disk, ledger>>
  BY DEF KeyEvent, UpdateStick, SetButtons, CancelScripts, packVars
<1>2. PifTyped /\ RecordingTrue
  BY DEF PifInv
<1>3. truth \in [read : [0 .. MaxRetrace -> Input], lost : Nat, replaying : Seq(Bookmarks)]
  BY <1>2 DEF PifTyped
<1>4. /\ truth'.read = truth.read /\ truth'.lost = truth.lost /\ truth'.replaying = Nothing
      /\ truth' \in [read : [0 .. MaxRetrace -> Input], lost : Nat, replaying : Seq(Bookmarks)]
  <2>1. Nothing \in Seq(Bookmarks)
    BY DEF Nothing
  <2> QED
    BY <1>1, <1>3, <2>1
<1>5. InputsTyped'
  BY <1>1, <1>2 DEF PifTyped, WalkTyped, InputsTyped, NoScripts
<1>6. PifTyped'
  BY <1>1, <1>2, <1>4, <1>5 DEF PifTyped, WalkTyped
<1>7. RecordingTrue'
  BY <1>1, <1>2, <1>4 DEF RecordingTrue, Agree, Faithful, Tells
<1>8. ReplayOfBookmark'
  BY <1>4 DEF ReplayOfBookmark
<1> QED
  BY <1>6, <1>7, <1>8 DEF PifInv

LEMMA SaveBookmarkPif == PifInv /\ SaveBookmark => PifInv'
<1> SUFFICES ASSUME PifInv, SaveBookmark PROVE PifInv'
  OBVIOUS
<1>1. /\ ~session.stateful /\ bookmark' = <<Bookmark>>
      /\ UNCHANGED <<session, process, retrace, pressed, live, stick, scripts, stress, recording, polls,
                     pif, image, truth, now, pack, disk, ledger>>
  BY DEF SaveBookmark, inputVars, packVars
<1>2. PifTyped /\ RecordingTrue /\ ReplayOfBookmark
  BY DEF PifInv
<1>3. /\ recording \in Recording /\ Len(recording.list) <= RecordingMax
      /\ retrace \in Nat /\ polls \in Nat
      /\ truth \in [read : [0 .. MaxRetrace -> Input], lost : Nat, replaying : Seq(Bookmarks)]
  BY <1>2, PifAssumption DEF PifTyped, WalkTyped, InputsTyped
<1>4. Bookmark \in Bookmarks
  BY <1>3 DEF Bookmark, Bookmarks, Recording
<1>5. Agree(recording, truth.read, truth.lost)
  BY <1>1, <1>2 DEF RecordingTrue
<1>6. Faithful(Bookmark)
  BY <1>3, <1>5 DEF Faithful, Agree, Bookmark
<1>7. PifTyped'
  BY <1>1, <1>2, <1>4 DEF PifTyped, WalkTyped, InputsTyped
<1>8. Faithful(bookmark[1])'
  BY <1>1, <1>6 DEF Faithful, Tells
<1>9. RecordingTrue'
  BY <1>1, <1>2, <1>8 DEF RecordingTrue, Agree, Faithful, Tells
<1>10. ReplayOfBookmark'
  BY <1>1, <1>2 DEF ReplayOfBookmark, Faithful, Tells
<1> QED
  BY <1>7, <1>9, <1>10 DEF PifInv

LEMMA SaveStatePif == PifInv /\ SaveState => PifInv'
<1> SUFFICES ASSUME PifInv, SaveState PROVE PifInv'
  OBVIOUS
<1>1. /\ image' = <<Captured>>
      /\ UNCHANGED <<session, process, retrace, pressed, live, stick, scripts, stress, recording, polls,
                     pif, bookmark, truth, now, pack, disk, ledger>>
  BY DEF SaveState, inputVars, packVars
<1>2. PifTyped
  BY DEF PifInv
<1>3. Captured \in Images
  BY <1>2 DEF PifTyped, WalkTyped, InputsTyped, Captured, Images
<1>4. PifTyped'
  BY <1>1, <1>2, <1>3 DEF PifTyped, WalkTyped, InputsTyped
<1> QED
  BY <1>1, <1>4, QuietPif

LEMMA LoadStatePif == PifInv /\ LoadState => PifInv'
<1> SUFFICES ASSUME PifInv, LoadState PROVE PifInv'
  OBVIOUS
<1> DEFINE i == image[1]
<1>1. /\ session.stateful /\ image # Nothing
      /\ pif' = i.pif /\ polls' = i.polls /\ stick' = i.stick /\ retrace' = i.retrace /\ live' = None
      /\ UNCHANGED <<session, process, pressed, scripts, stress, recording, bookmark, image, truth,
                     now, pack, disk, ledger>>
  BY DEF LoadState, Restore, packVars
<1>2. PifTyped /\ RecordingTrue /\ ReplayOfBookmark
  BY DEF PifInv
<1>3. i \in Images
  BY <1>1, <1>2 DEF PifTyped, Nothing
<1>4. i.pif \in Seq(Scanned) /\ i.polls \in 0 .. MaxPolls /\ i.stick \in Sticks \cup {None}
      /\ i.retrace \in 0 .. MaxRetrace
  BY <1>3 DEF Images
<1> HIDE DEF i
<1>5. InputsTyped'
  BY <1>1, <1>2, <1>4 DEF PifTyped, WalkTyped, InputsTyped
<1>6. PifTyped'
  BY <1>1, <1>2, <1>4, <1>5, PifAssumption DEF PifTyped, WalkTyped
<1>7. bookmark = Nothing /\ truth.replaying = Nothing
  BY <1>1, <1>2 DEF RecordingTrue
<1> QED
  BY <1>1, <1>6, <1>7 DEF PifInv, RecordingTrue, ReplayOfBookmark

(* A new process begins where nothing was recorded nor read.               *)
LEMMA NewProcessPif == PifInv /\ NewProcess => PifInv'
<1> SUFFICES ASSUME PifInv, NewProcess PROVE PifInv'
  OBVIOUS
<1> USE PifAssumption
<1>1. PICK env \in Env, mode \in session.stress :
         /\ scripts' = env.scripts
         /\ stress' = IF mode THEN [on |-> TRUE, start |-> StressStart(env)] ELSE NoStress
         /\ truth' = [read |-> NothingRead, lost |-> MaxRetrace + 1,
                      replaying |-> IF mode THEN Nothing ELSE env.replay]
  BY DEF NewProcess
<1>2. /\ process < session.processes /\ process' = process + 1
      /\ bookmark' = IF process' = session.processes THEN Nothing ELSE bookmark
      /\ retrace' = 0 /\ polls' = 0 /\ pif' = <<>>
      /\ pressed' = None /\ live' = None /\ stick' = None /\ recording' = NoRecording
      /\ pack' = Unloaded
      /\ UNCHANGED <<session, image, disk, ledger, now>>
  BY DEF NewProcess
<1>3. PifTyped /\ RecordingTrue
  BY DEF PifInv
<1>4. mode \in BOOLEAN
  BY <1>3, SessionFields
<1>5. \/ /\ env.scripts \in session.scripts /\ env.target = 0 /\ env.replay = Nothing
      \/ /\ bookmark # Nothing /\ env.scripts = RetraceScript(bookmark[1].list)
         /\ env.target = bookmark[1].pollTarget /\ env.replay = bookmark
  BY DEF Env
<1>6. bookmark # Nothing =>
         /\ bookmark[1] \in Bookmarks /\ Faithful(bookmark[1]) /\ ~session.stateful
         /\ RetraceScript(bookmark[1].list) = [ms |-> <<>>, poll |-> <<>>, retrace |-> bookmark[1].list]
  <2> SUFFICES ASSUME bookmark # Nothing
               PROVE  /\ bookmark[1] \in Bookmarks /\ Faithful(bookmark[1]) /\ ~session.stateful
                      /\ RetraceScript(bookmark[1].list)
                           = [ms |-> <<>>, poll |-> <<>>, retrace |-> bookmark[1].list]
    OBVIOUS
  <2>1. bookmark[1] \in Bookmarks
    BY <1>3 DEF PifTyped, Nothing
  <2>2. Faithful(bookmark[1]) /\ ~session.stateful
    BY <1>3 DEF RecordingTrue
  <2>3. bookmark[1].list \in Seq(Recorded) /\ Len(bookmark[1].list) <= RecordingMax
    BY <2>1, <2>2 DEF Bookmarks, Faithful
  <2> QED
    BY <2>1, <2>2, <2>3, BookmarkFits
<1>7. /\ env.scripts \in [ms : Seq(ScriptStep), poll : Seq(ScriptStep), retrace : Seq(ScriptStep)]
      /\ env.target \in Nat /\ env.replay \in Seq(Bookmarks)
  <2>1. CASE env.scripts \in session.scripts /\ env.target = 0 /\ env.replay = Nothing
    BY <1>3, <2>1, SessionFields DEF Nothing
  <2>2. CASE /\ bookmark # Nothing /\ env.scripts = RetraceScript(bookmark[1].list)
             /\ env.target = bookmark[1].pollTarget /\ env.replay = bookmark
    <3>1. bookmark[1].list \in Seq(Recorded) /\ bookmark[1].pollTarget \in Nat
      BY <1>6, <2>2 DEF Bookmarks
    <3>2. bookmark[1].list \in Seq(ScriptStep)
      BY <3>1 DEF ScriptStep
    <3>3. env.scripts = [ms |-> <<>>, poll |-> <<>>, retrace |-> bookmark[1].list]
      BY <1>6, <2>2
    <3>4. <<>> \in Seq(ScriptStep)
      OBVIOUS
    <3>5. env.scripts \in [ms : Seq(ScriptStep), poll : Seq(ScriptStep), retrace : Seq(ScriptStep)]
      BY <3>2, <3>3, <3>4
    <3>6. env.replay \in Seq(Bookmarks)
      BY <1>3, <2>2 DEF PifTyped
    <3> QED
      BY <2>2, <3>1, <3>5, <3>6
  <2> QED
    BY <1>5, <2>1, <2>2
<1>8. stress' \in [on : BOOLEAN, start : Nat] /\ (~mode => ~stress'.on)
  <2>1. StressStart(env) \in Nat
    BY <1>7, StressStartType
  <2> QED
    BY <1>1, <2>1 DEF NoStress
<1>9. InputsTyped'
  BY <1>1, <1>2, <1>3, <1>7, <1>8 DEF InputsTyped, PifTyped, WalkTyped
<1>10. recording' \in Recording /\ Len(recording'.list) <= RecordingMax
  BY <1>2 DEF NoRecording, Recording, Nothing
<1>11. Sound([pack |-> pack', disk |-> disk', ledger |-> ledger'])
  <2>1. disk \in File /\ ledger \in Ledger
    BY <1>3 DEF PifTyped, WalkTyped, Sound, Memory
  <2>2. NewImage \in Image
    BY PackAssumption DEF NewImage, Image
  <2>3. Unloaded \in PackRecord /\ Unloaded.saved = 0 /\ ~Unloaded.loaded
    BY <2>2, PackAssumption DEF Unloaded, PackRecord
  <2>4. ledger.saved \in Nat
    BY <2>1, PackAssumption DEF Ledger
  <2> QED
    BY <1>2, <2>1, <2>3, <2>4 DEF Sound, Memory, Window
<1>12. truth' \in [read : [0 .. MaxRetrace -> Input], lost : Nat, replaying : Seq(Bookmarks)]
  <2>1. NothingRead \in [0 .. MaxRetrace -> Input]
    BY DEF NothingRead, Input
  <2>2. Nothing \in Seq(Bookmarks)
    BY DEF Nothing
  <2> QED
    BY <1>1, <1>7, <2>1, <2>2
<1>13. bookmark' \in Seq(Bookmarks) /\ process' \in 1 .. MaxProcesses
  <2>1. process \in 1 .. MaxProcesses /\ bookmark \in Seq(Bookmarks)
    BY <1>3 DEF PifTyped
  <2>2. session.processes \in Nat /\ session.processes <= MaxProcesses
    BY <1>3, SessionFields
  <2>3. Nothing \in Seq(Bookmarks)
    BY DEF Nothing
  <2> QED
    BY <1>2, <2>1, <2>2, <2>3
<1>14. PifTyped'
  BY <1>2, <1>3, <1>9, <1>10, <1>11, <1>12, <1>13 DEF PifTyped, WalkTyped
<1>15. truth'.replaying # Nothing =>
          ~mode /\ bookmark # Nothing /\ truth'.replaying = bookmark /\ scripts' = RetraceScript(bookmark[1].list)
  BY <1>1, <1>4, <1>5
<1>16. RecordingTrue'
  <2>1. Agree(recording, truth.read, truth.lost)'
    <3>1. /\ recording'.list = <<>> /\ recording'.last = Nothing
          /\ truth'.read = NothingRead /\ truth'.lost = MaxRetrace + 1
      BY <1>1, <1>2 DEF NoRecording
    <3>2. \A r \in 0 .. MaxRetrace : AtTime(<<>>, r, Centre) = NothingRead[r]
      BY EmptyTells DEF Tells, AtTime, NothingRead, Centre
    <3>3. Tells(recording.list, truth.read, truth.lost)'
      BY <3>1, <3>2 DEF Tells
    <3>4. \A k \in DOMAIN recording'.list : recording'.list[k].at <= retrace'
      BY <3>1
    <3> QED
      BY <3>1, <3>3, <3>4 DEF Agree
  <2>2. bookmark' # Nothing => bookmark' = bookmark
    BY <1>2
  <2>3. session.stateful => bookmark' = Nothing /\ truth'.replaying = Nothing
    BY <1>6, <1>15, <2>2
  <2>4. recording'.list = <<>> /\ truth'.read = NothingRead
    BY <1>1, <1>2 DEF NoRecording
  <2> QED
    BY <1>2, <1>6, <2>1, <2>2, <2>3, <2>4 DEF RecordingTrue, Faithful, Tells, NothingRead
<1>17. ReplayOfBookmark'
  BY <1>2, <1>6, <1>8, <1>15 DEF ReplayOfBookmark, Faithful, Tells, Centre
<1> QED
  BY <1>14, <1>16, <1>17 DEF PifInv

-----------------------------------------------------------------------------
(* Theorems of the specification.                                          *)

LEMMA NextPif == PifInv /\ [Next]_vars => PifInv'
<1> SUFFICES ASSUME PifInv, [Next]_vars PROVE PifInv'
  OBVIOUS
<1>1. PifTyped
  BY DEF PifInv
<1>2. ASSUME NEW tape \in session.tapes, NEW io \in session.outcomes, Transfer(Walk(tape, FALSE, io))
      PROVE  PifInv'
  <2>1. tape \in Seq(Scanned) /\ io \in Outcomes
    BY <1>1, SessionFields
  <2> QED
    BY <1>2, <2>1, TransferPif
<1>3. ASSUME NEW io \in session.outcomes, Transfer(Walk(pif, TRUE, io))
      PROVE  PifInv'
  <2>1. pif \in Seq(Scanned) /\ io \in Outcomes
    BY <1>1, SessionFields DEF PifTyped
  <2> QED
    BY <1>3, <2>1, TransferPif
<1>4. CASE DmaWrite
  BY <1>2, <1>4 DEF DmaWrite
<1>5. CASE DmaRead
  BY <1>3, <1>5 DEF DmaRead
<1>6. ASSUME NEW h \in Keys \cup {None}, NEW s \in Sticks \cup {None}, KeyEvent(h, s) PROVE PifInv'
  BY <1>6, KeyPif
<1>7. CASE UNCHANGED vars
  <2>1. /\ UNCHANGED <<session, retrace, stick, scripts, stress, recording, bookmark, truth>>
        /\ UNCHANGED <<process, pressed, live, polls, pif, image, now, pack, disk, ledger>>
    BY <1>7 DEF vars, inputVars, packVars
  <2>2. PifTyped'
    BY <1>1, <2>1 DEF PifTyped, WalkTyped, InputsTyped
  <2> QED
    BY <2>1, <2>2, QuietPif
<1> QED
  BY <1>4, <1>5, <1>6, <1>7, RetracePif, TickPif, SaveBookmarkPif, SaveStatePif, LoadStatePif,
     NewProcessPif DEF Next

(* In every reachable state the PIF is well typed, the recording and the   *)
(* history agree and the script of an undisturbed replay is its bookmark's.*)
THEOREM PifInvariant == Spec => []PifInv
<1>1. PifInv /\ [Next]_vars => PifInv'
  BY NextPif
<1> QED
  BY <1>1, InitPif, PTL DEF Spec

(* A recording tells for every retrace what the game read by then, as long *)
(* as it has room, and a bookmark replayed undisturbed gives the game in   *)
(* every retrace what the recorded session gave it (pif.c:119), however    *)
(* many readings a retrace has, whatever the session's input came from, a  *)
(* replay included, and for every size of recording.                       *)
THEOREM ReplayFaithfulCorrect == Spec => []ReplayFaithful
<1>1. PifInv => ReplayFaithful
  <2> SUFFICES ASSUME PifInv PROVE ReplayFaithful
    OBVIOUS
  <2>1. PifTyped /\ RecordingTrue /\ ReplayOfBookmark /\ retrace \in 0 .. MaxRetrace
    BY DEF PifInv, PifTyped, WalkTyped, InputsTyped
  <2>2. PackTypeOK
    <3>1. [pack |-> pack, disk |-> disk, ledger |-> ledger] \in Memory
      BY <2>1 DEF PifTyped, WalkTyped, Sound
    <3>2. pack \in PackRecord /\ disk \in File /\ ledger \in Ledger
      BY <3>1 DEF Memory
    <3> QED
      BY <2>1, <3>2 DEF PackTypeOK, PackRecord, Ledger, PifTyped, WalkTyped, InputsTyped
  <2>3. TypeOK
    BY <2>1, <2>2 DEF TypeOK, PifTyped, WalkTyped, InputsTyped
  <2>4. ~session.stateful =>
           \A r \in 0 .. retrace :
              r < truth.lost => AtTime(recording.list, r, Centre) = truth.read[r]
    BY <2>1, PifAssumption DEF RecordingTrue, Agree, Tells
  <2>5. ASSUME truth.replaying # Nothing, scripts.retrace # <<>>, retrace < truth.replaying[1].lost
        PROVE  InputNow(polls + 1, stick) = truth.replaying[1].read[retrace]
    <3> DEFINE b == truth.replaying[1]
    <3>1. /\ Faithful(b) /\ ~stress.on
          /\ scripts = [ms |-> <<>>, poll |-> <<>>, retrace |-> b.list]
          /\ (\A i \in DOMAIN b.list : b.list[i].at > retrace) => stick = Centre
      BY <2>1, <2>5 DEF ReplayOfBookmark
    <3>2. b.list \in Seq(Recorded)
      <4>1. b \in Bookmarks
        BY <2>1, <2>5 DEF PifTyped, Nothing
      <4> QED
        BY <4>1 DEF Bookmarks
    <3>3. AtTime(b.list, retrace, Centre) = b.read[retrace]
      BY <2>1, <2>5, <3>1 DEF Faithful, Tells
    <3>4. AtTime(b.list, retrace, stick) = AtTime(b.list, retrace, Centre)
      BY <2>1, <3>1, <3>2, ReplayAtTime
    <3>5. InputNow(polls + 1, stick) = AtTime(b.list, retrace, stick)
      BY <2>5, <3>1 DEF InputNow
    <3> QED
      BY <3>3, <3>4, <3>5
  <2> QED
    BY <2>3, <2>4, <2>5 DEF ReplayFaithful
<1> QED
  BY <1>1, PifInvariant, PTL

(* Whatever the end of the process takes from the Controller Pack was      *)
(* written within Batch ticks of the last save (mempak.c:135 and :161),    *)
(* unless the host refused that save: for every order of reads, writes,    *)
(* ends and failures of the host, every size of pack and every batch.      *)
THEOREM LossWindowCorrect == Spec => []LossWindow
<1>1. PifInv => LossWindow
  BY DEF PifInv, PifTyped, WalkTyped, Sound, Window, LossWindow
<1> QED
  BY <1>1, PifInvariant, PTL

(* No key is pressed for the game but those the window's messages last     *)
(* reported down: a load brings none back, whatever was reported before,   *)
(* between or after, and neither does a new process.                       *)
THEOREM KeysAsReportedCorrect == Spec => []KeysAsReported
<1>1. Init => KeysAsReported
  BY DEF Init, KeysAsReported
<1>2. KeysAsReported /\ [Next]_vars => KeysAsReported'
  <2> SUFFICES ASSUME KeysAsReported, [Next]_vars PROVE KeysAsReported'
    OBVIOUS
  <2>1. ASSUME NEW w, Transfer(w) PROVE KeysAsReported'
    BY <2>1 DEF Transfer, KeysAsReported
  <2>2. CASE DmaWrite
    BY <2>1, <2>2 DEF DmaWrite
  <2>3. CASE DmaRead
    BY <2>1, <2>3 DEF DmaRead
  <2>4. CASE Retrace \/ Tick \/ SaveBookmark \/ SaveState
    BY <2>4 DEF Retrace, Tick, SaveBookmark, SaveState, inputVars, KeysAsReported
  <2>5. ASSUME NEW h \in Keys \cup {None}, NEW s \in Sticks \cup {None}, KeyEvent(h, s)
        PROVE  KeysAsReported'
    BY <2>5 DEF KeyEvent, SetButtons, KeysAsReported
  <2>6. CASE LoadState
    BY <2>6 DEF LoadState, Restore, KeysAsReported
  <2>7. CASE NewProcess
    BY <2>7 DEF NewProcess, KeysAsReported
  <2>8. CASE UNCHANGED vars
    BY <2>8 DEF vars, inputVars, KeysAsReported
  <2> QED
    BY <2>2, <2>3, <2>4, <2>5, <2>6, <2>7, <2>8 DEF Next
<1> QED
  BY <1>1, <1>2, PTL DEF Spec

-----------------------------------------------------------------------------
(* Reading the tape back.  Where a walk is on the tape depends on the      *)
(* commands and not on their answers, so that the tape with its answers is *)
(* walked like the one the game wrote, and each command finds the answer   *)
(* that the walk before gave it.                                           *)

FirstPlace == [on |-> TRUE, at |-> 0, channel |-> 0]
Places == [on : BOOLEAN, at : Nat, channel : Nat]
Place(w) == [on |-> w.on, at |-> w.at, channel |-> w.channel]

(* The PIF executes the command t at the place p.                          *)
Reached(p, t) ==
    /\ p.on /\ p.at < PifSize /\ t.op \notin {"skip", "fill", "end"}
    /\ t.tx # 0 /\ p.at + Size(t) <= PifSize
NextPlace(p, t) ==
    IF ~ (p.on /\ p.at < PifSize) THEN p
    ELSE IF t.op = "skip" THEN [on |-> p.on, at |-> p.at + 1, channel |-> p.channel + 1]
    ELSE IF t.op = "fill" THEN [on |-> p.on, at |-> p.at + 1, channel |-> p.channel]
    ELSE IF Reached(p, t) THEN [on |-> p.on, at |-> p.at + Size(t), channel |-> p.channel + 1]
    ELSE [on |-> FALSE, at |-> p.at, channel |-> p.channel]

(* The controller is sampled by t at p.                                    *)
Sampled(p, t) == Reached(p, t) /\ p.channel = 0 /\ t.op = "read" /\ t.rx >= 4

(* What a command that was walked over at p carries as its answer: that    *)
(* there is no device, or a pack, or an input where the controller was     *)
(* sampled and nowhere else.                                               *)
AnsweredAt(p, t) ==
    /\ Reached(p, t) /\ (p.channel # 0 \/ t.op = "other") => t.ans = <<"nodevice", 0>>
    /\ Reached(p, t) /\ p.channel = 0 /\ t.op = "info" /\ t.rx >= 3 => t.ans = <<"pack", 0>>
    /\ Sampled(p, t) => t.ans[1] = "read"
    /\ ~Sampled(p, t) => t.ans[1] # "read"

SameCommand(a, t) == a.op = t.op /\ a.tx = t.tx /\ a.rx = t.rx

LEMMA SamePlace ==
    ASSUME NEW a, NEW t, NEW p, SameCommand(a, t)
    PROVE  /\ Reached(p, a) <=> Reached(p, t)
           /\ Sampled(p, a) <=> Sampled(p, t)
           /\ NextPlace(p, a) = NextPlace(p, t)
<1>1. Size(a) = Size(t)
  BY DEF Size, SameCommand
<1>2. Reached(p, a) <=> Reached(p, t)
  BY <1>1 DEF Reached, SameCommand
<1> QED
  BY <1>1, <1>2 DEF NextPlace, Sampled, SameCommand

LEMMA HeadIsFirst == \A x \in Answers : Head(x) = x[1]
BY DEF Answers

(* The answer of one turn: a is the command t with the answer it gets.     *)
Turn(w, v, t, a, refresh) ==
    /\ a \in Scanned /\ v.tape = Append(w.tape, a) /\ SameCommand(a, t)
    /\ AnsweredAt(Place(w), a)
    /\ refresh => v.m = w.m
    /\ refresh /\ t.ans[1] # "read" => a = t
    /\ refresh /\ t.ans[1] = "read" => v.read = <<a.ans[2]>>
    /\ w.read # Nothing => v.read = w.read

(* The walk of a tape as the game wrote it, or of one walked before.       *)
Fresh(p, t, refresh) ==
    (~refresh => t.ans = <<"unanswered">>) /\ (refresh => AnsweredAt(p, t))

LEMMA AnswerTurn ==
    ASSUME WalkTyped, NEW w, NEW t \in Scanned, NEW refresh \in BOOLEAN, NEW io \in Outcomes,
           Walked(w), Reached(Place(w), t), Fresh(Place(w), t, refresh)
    PROVE  \E a : Turn(w, Answer(w, t, refresh, io), t, a, refresh)
<1> DEFINE v == Answer(w, t, refresh, io)
           p == Place(w)
<1>1. /\ w \in Walker /\ w.channel \in Nat /\ p.channel = w.channel
      /\ w.read # Nothing => w.channel # 0
  BY DEF Walked, Walker, Place
<1>2. t.ans \in Answers /\ t.op \in Ops
  BY DEF Scanned
<1>3. \A x \in Answers : /\ [t EXCEPT !.ans = x] \in Scanned
                         /\ [t EXCEPT !.ans = x].ans = x
                         /\ SameCommand([t EXCEPT !.ans = x], t)
  BY DEF Scanned, SameCommand
<1>4. \A a : SameCommand(a, t) => /\ Reached(p, a) <=> Reached(p, t)
                                 /\ Sampled(p, a) <=> Sampled(p, t)
                                 /\ a.op = t.op /\ a.rx = t.rx
  BY SamePlace DEF SameCommand
<1>5. Reached(p, t)
  OBVIOUS
<1> HIDE DEF p
<1>6. CASE w.channel # 0 \/ t.op = "other"
  <2> DEFINE a == [t EXCEPT !.ans = <<"nodevice", 0>>]
  <2>1. v = [w EXCEPT !.tape = Append(w.tape, a)]
    BY <1>6 DEF Answer
  <2>2. <<"nodevice", 0>> \in Answers
    BY DEF Answers
  <2>3. a \in Scanned /\ a.ans = <<"nodevice", 0>> /\ SameCommand(a, t)
    BY <1>3, <2>2
  <2>4. ~Sampled(p, t) /\ ~(p.channel = 0 /\ t.op = "info")
    BY <1>1, <1>6 DEF Sampled
  <2> HIDE DEF a, v
  <2>a. /\ Reached(p, a) <=> Reached(p, t)
        /\ Sampled(p, a) <=> Sampled(p, t)
        /\ a.op = t.op /\ a.rx = t.rx
    <3>1. SameCommand(a, t)
      BY <2>3
    <3> QED
      BY <3>1, SamePlace, Zenon DEF SameCommand
  <2>5. AnsweredAt(p, a)
    <3>1. a.ans[1] # "read"
      BY <2>3
    <3>2. ~Sampled(p, a)
      BY <2>a, <2>4
    <3>3. ~ (p.channel = 0 /\ a.op = "info")
      BY <2>a, <2>4
    <3> QED
      BY <2>3, <3>1, <3>2, <3>3 DEF AnsweredAt
  <2>6. v.tape = Append(w.tape, a) /\ v.m = w.m /\ v.read = w.read
    BY <1>1, <2>1 DEF Walker
  <2>7. refresh => t.ans = <<"nodevice", 0>>
    BY <1>1, <1>5, <1>6 DEF Fresh, AnsweredAt, p
  <2>8. t.ans = <<"nodevice", 0>> => a = t
    BY DEF Scanned, a
  <2>9. Turn(w, v, t, a, refresh)
    BY <2>3, <2>5, <2>6, <2>7, <2>8 DEF Turn, p
  <2> QED
    BY <2>9 DEF v
<1>7. CASE w.channel = 0 /\ t.op = "info" /\ t.rx >= 3
  <2> DEFINE a == [t EXCEPT !.ans = <<"pack", 0>>]
  <2>1. v = [w EXCEPT !.tape = Append(w.tape, a)]
    BY <1>7 DEF Answer
  <2>2. <<"pack", 0>> \in Answers
    BY DEF Answers
  <2>3. a \in Scanned /\ a.ans = <<"pack", 0>> /\ SameCommand(a, t)
    BY <1>3, <2>2
  <2>4. ~Sampled(p, t)
    BY <1>7 DEF Sampled
  <2> HIDE DEF a, v
  <2>a. /\ Reached(p, a) <=> Reached(p, t)
        /\ Sampled(p, a) <=> Sampled(p, t)
        /\ a.op = t.op /\ a.rx = t.rx
    <3>1. SameCommand(a, t)
      BY <2>3
    <3> QED
      BY <3>1, SamePlace, Zenon DEF SameCommand
  <2>5. AnsweredAt(p, a)
    BY <1>1, <1>7, <2>a, <2>3, <2>4 DEF AnsweredAt
  <2>6. v.tape = Append(w.tape, a) /\ v.m = w.m /\ v.read = w.read
    BY <1>1, <2>1 DEF Walker
  <2>7. refresh => t.ans = <<"pack", 0>>
    BY <1>1, <1>5, <1>7 DEF Fresh, AnsweredAt, p
  <2>8. t.ans = <<"pack", 0>> => a = t
    BY DEF Scanned, a
  <2>9. Turn(w, v, t, a, refresh)
    BY <2>3, <2>5, <2>6, <2>7, <2>8 DEF Turn, p
  <2> QED
    BY <2>9 DEF v
<1>8. CASE w.channel = 0 /\ t.op = "read" /\ t.rx >= 4
  <2> DEFINE n == w.polls + 1
             i == InputNow(n, w.stick)
             a == [t EXCEPT !.ans = <<"read", i>>]
  <2>1. v = [w EXCEPT !.polls = n, !.stick = i.s, !.tape = Append(w.tape, a),
                      !.recording = Record(@, n, i), !.read = <<i>>]
    BY <1>8 DEF Answer
  <2>2. i \in Input
    <3>1. n \in Nat /\ w.stick \in Sticks \cup {None}
      BY <1>1 DEF Walker
    <3> QED
      BY <3>1, InputType DEF WalkTyped
  <2>3. a \in Scanned /\ a.ans = <<"read", i>> /\ SameCommand(a, t)
    BY <1>3, <2>2 DEF Answers
  <2>4. Sampled(p, t)
    BY <1>1, <1>5, <1>8 DEF Sampled
  <2> HIDE DEF a, i, n
  <2>a. /\ Reached(p, a) <=> Reached(p, t)
        /\ Sampled(p, a) <=> Sampled(p, t)
        /\ a.op = t.op /\ a.rx = t.rx
    <3>1. SameCommand(a, t)
      BY <2>3
    <3> QED
      BY <3>1, SamePlace, Zenon DEF SameCommand
  <2>5. AnsweredAt(p, a)
    BY <1>1, <1>8, <2>a, <2>3, <2>4 DEF AnsweredAt
  <2>6. v.tape = Append(w.tape, a) /\ v.m = w.m /\ v.read = <<i>>
    BY <1>1, <2>1 DEF Walker
  <2>7. refresh => t.ans[1] = "read"
    BY <2>4 DEF Fresh, AnsweredAt, p
  <2> HIDE DEF v
  <2>8. Turn(w, v, t, a, refresh)
    BY <1>1, <1>8, <2>3, <2>5, <2>6, <2>7 DEF Turn, p
  <2> QED
    BY <2>8 DEF v
<1>9. CASE w.channel = 0 /\ t.op = "pakread" /\ ~refresh /\ t.tx >= 3 /\ t.rx >= 33
  <2> DEFINE r == ReadBlock(w.m, t.addr, io)
             a == [t EXCEPT !.ans = <<"data", r.data>>]
  <2>1. v = [w EXCEPT !.m = r.after, !.tape = Append(w.tape, a)]
    BY <1>9 DEF Answer
  <2>2. r.data \in Data
    <3>1. Sound(w.m) /\ t.addr \in Nat /\ now \in 0 .. MaxTime
      BY DEF Walked, Scanned, WalkTyped, InputsTyped
    <3> QED
      BY <3>1, ReadSound
  <2>3. a \in Scanned /\ a.ans = <<"data", r.data>> /\ SameCommand(a, t)
    BY <1>3, <2>2 DEF Answers
  <2> HIDE DEF a, r
  <2>4. v.tape = Append(w.tape, a) /\ v.read = w.read
    BY <1>1, <2>1 DEF Walker
  <2> HIDE DEF v
  <2>5. Turn(w, v, t, a, refresh)
    BY <1>1, <1>4, <1>9, <2>3, <2>4 DEF Turn, AnsweredAt, Sampled, SameCommand, p
  <2> QED
    BY <2>5 DEF v
<1>10. CASE w.channel = 0 /\ t.op = "pakwrite" /\ ~refresh /\ t.tx >= 35 /\ t.rx >= 1
  <2> DEFINE x == WriteBlock(w.m, t.addr, t.data, io)
             a == [t EXCEPT !.ans = <<"crc", t.data>>]
  <2>1. v = [w EXCEPT !.m = x, !.tape = Append(w.tape, a)]
    BY <1>10 DEF Answer
  <2>2. t.data \in Data
    BY DEF Scanned
  <2>3. a \in Scanned /\ a.ans = <<"crc", t.data>> /\ SameCommand(a, t)
    BY <1>3, <2>2 DEF Answers
  <2> HIDE DEF a, x
  <2>4. v.tape = Append(w.tape, a) /\ v.read = w.read
    BY <1>1, <2>1 DEF Walker
  <2> HIDE DEF v
  <2>5. Turn(w, v, t, a, refresh)
    BY <1>1, <1>4, <1>10, <2>3, <2>4 DEF Turn, AnsweredAt, Sampled, SameCommand, p
  <2> QED
    BY <2>5 DEF v
<1>11. CASE ~ (\/ w.channel # 0 \/ t.op = "other"
               \/ w.channel = 0 /\ t.op = "info" /\ t.rx >= 3
               \/ w.channel = 0 /\ t.op = "read" /\ t.rx >= 4
               \/ w.channel = 0 /\ t.op = "pakread" /\ ~refresh /\ t.tx >= 3 /\ t.rx >= 33
               \/ w.channel = 0 /\ t.op = "pakwrite" /\ ~refresh /\ t.tx >= 35 /\ t.rx >= 1)
  <2>1. v = [w EXCEPT !.tape = Append(w.tape, t)]
    BY <1>11 DEF Answer
  <2>2. v.tape = Append(w.tape, t) /\ v.m = w.m /\ v.read = w.read
    BY <1>1, <2>1 DEF Walker
  <2> HIDE DEF v
  <2>3. ~Sampled(p, t) /\ t.ans[1] # "read"
    <3>1. ~Sampled(p, t)
      BY <1>1, <1>11 DEF Sampled
    <3>2. ~refresh => t.ans[1] # "read"
      BY DEF Fresh
    <3> QED
      BY <3>1, <3>2 DEF Fresh, AnsweredAt, p
  <2>4. AnsweredAt(p, t)
    BY <1>1, <1>11, <2>3 DEF AnsweredAt
  <2>5. Turn(w, v, t, t, refresh)
    BY <2>2, <2>3, <2>4 DEF Turn, SameCommand, p
  <2> QED
    BY <2>5 DEF v
<1> QED
  BY <1>6, <1>7, <1>8, <1>9, <1>10, <1>11

LEMMA StepTurn ==
    ASSUME WalkTyped, NEW w, NEW t \in Scanned, NEW refresh \in BOOLEAN, NEW io \in Outcomes,
           Walked(w), Fresh(Place(w), t, refresh)
    PROVE  \E a : Turn(w, Step(w, t, refresh, io), t, a, refresh)
<1> DEFINE v == Step(w, t, refresh, io)
           p == Place(w)
<1>1. w \in Walker /\ p.on = w.on /\ p.at = w.at /\ p.channel = w.channel /\ w.at \in Nat
  BY DEF Walked, Walker, Place
<1>2. ASSUME ~Reached(p, t), v.tape = Append(w.tape, t), v.m = w.m, v.read = w.read
      PROVE  Turn(w, v, t, t, refresh)
  <2>1. ~Sampled(p, t)
    BY <1>2 DEF Sampled
  <2>2. t.ans[1] # "read"
    BY <2>1 DEF Fresh, AnsweredAt
  <2>3. AnsweredAt(p, t)
    BY <1>2, <2>1, <2>2 DEF AnsweredAt
  <2> QED
    BY <1>2, <2>2, <2>3 DEF Turn, SameCommand
<1>3. CASE ~w.on \/ w.at >= PifSize
  <2>1. v = [w EXCEPT !.tape = Append(w.tape, t)]
    BY <1>3 DEF Step
  <2>2. v.tape = Append(w.tape, t) /\ v.m = w.m /\ v.read = w.read
    BY <1>1, <2>1 DEF Walker
  <2>3. ~Reached(p, t)
    BY <1>1, <1>3, PifAssumption DEF Reached
  <2> QED
    BY <1>2, <2>2, <2>3
<1>4. CASE w.on /\ ~(w.at >= PifSize) /\ t.op = "skip"
  <2>1. v = [w EXCEPT !.at = @ + 1, !.channel = @ + 1, !.tape = Append(w.tape, t)]
    BY <1>4 DEF Step
  <2>2. v.tape = Append(w.tape, t) /\ v.m = w.m /\ v.read = w.read
    BY <1>1, <2>1 DEF Walker
  <2>3. ~Reached(p, t)
    BY <1>4 DEF Reached
  <2> QED
    BY <1>2, <2>2, <2>3
<1>5. CASE w.on /\ ~(w.at >= PifSize) /\ t.op = "fill"
  <2>1. v = [w EXCEPT !.at = @ + 1, !.tape = Append(w.tape, t)]
    BY <1>5 DEF Step
  <2>2. v.tape = Append(w.tape, t) /\ v.m = w.m /\ v.read = w.read
    BY <1>1, <2>1 DEF Walker
  <2>3. ~Reached(p, t)
    BY <1>5 DEF Reached
  <2> QED
    BY <1>2, <2>2, <2>3
<1>6. CASE /\ w.on /\ ~(w.at >= PifSize)
           /\ \/ t.op = "end"
              \/ t.op \notin {"skip", "fill", "end"} /\ (t.tx = 0 \/ w.at + Size(t) > PifSize)
  <2>1. v = [w EXCEPT !.on = FALSE, !.tape = Append(w.tape, t)]
    BY <1>6 DEF Step
  <2>2. v.tape = Append(w.tape, t) /\ v.m = w.m /\ v.read = w.read
    BY <1>1, <2>1 DEF Walker
  <2>3. ~Reached(p, t)
    <3>1. Size(t) \in Nat
      BY DEF Size, Scanned
    <3> QED
      BY <1>1, <1>6, <3>1, PifAssumption DEF Reached
  <2> QED
    BY <1>2, <2>2, <2>3
<1>7. CASE /\ w.on /\ ~(w.at >= PifSize) /\ t.op \notin {"skip", "fill", "end"}
           /\ ~(t.tx = 0 \/ w.at + Size(t) > PifSize)
  <2> DEFINE b == Answer(w, t, refresh, io)
  <2>1. v = [b EXCEPT !.at = @ + Size(t), !.channel = @ + 1]
    BY <1>7 DEF Step
  <2>2. Reached(p, t)
    <3>1. Size(t) \in Nat
      BY DEF Size, Scanned
    <3> QED
      BY <1>1, <1>7, <3>1, PifAssumption DEF Reached
  <2>3. PICK a : Turn(w, b, t, a, refresh)
    BY <2>2, AnswerTurn
  <2>4. b \in Walker
    BY AnswerWalked
  <2> HIDE DEF b
  <2>5. v.tape = b.tape /\ v.m = b.m /\ v.read = b.read
    BY <2>1, <2>4 DEF Walker
  <2> HIDE DEF v
  <2>6. Turn(w, v, t, a, refresh)
    BY <2>3, <2>5 DEF Turn
  <2> QED
    BY <2>6 DEF v
<1> QED
  BY <1>3, <1>4, <1>5, <1>6, <1>7

LEMMA StepPlace ==
    ASSUME WalkTyped, NEW w, NEW t \in Scanned, NEW refresh \in BOOLEAN, NEW io \in Outcomes,
           Walked(w)
    PROVE  Place(Step(w, t, refresh, io)) = NextPlace(Place(w), t)
<1> DEFINE v == Step(w, t, refresh, io)
           p == Place(w)
           q == NextPlace(p, t)
<1>1. /\ w \in Walker /\ p.on = w.on /\ p.at = w.at /\ p.channel = w.channel
      /\ w.at \in Nat /\ w.channel \in Nat /\ w.on \in BOOLEAN
  BY DEF Walked, Walker, Place
<1>2. Size(t) \in Nat
  BY DEF Size, Scanned
<1>3. CASE ~w.on \/ w.at >= PifSize
  <2>1. v = [w EXCEPT !.tape = Append(w.tape, t)]
    BY <1>3 DEF Step
  <2>2. v.on = w.on /\ v.at = w.at /\ v.channel = w.channel
    BY <1>1, <2>1 DEF Walker
  <2>3. q = p
    BY <1>1, <1>3, PifAssumption DEF NextPlace
  <2> QED
    BY <2>2, <2>3 DEF Place
<1>4. CASE w.on /\ ~(w.at >= PifSize) /\ t.op = "skip"
  <2>1. v = [w EXCEPT !.at = @ + 1, !.channel = @ + 1, !.tape = Append(w.tape, t)]
    BY <1>4 DEF Step
  <2>2. v.on = w.on /\ v.at = w.at + 1 /\ v.channel = w.channel + 1
    BY <1>1, <2>1 DEF Walker
  <2>3. p.on /\ p.at < PifSize
    BY <1>1, <1>4, PifAssumption
  <2>4. q = [on |-> p.on, at |-> p.at + 1, channel |-> p.channel + 1]
    BY <1>4, <2>3 DEF NextPlace
  <2> QED
    BY <1>1, <2>2, <2>4 DEF Place
<1>5. CASE w.on /\ ~(w.at >= PifSize) /\ t.op = "fill"
  <2>1. v = [w EXCEPT !.at = @ + 1, !.tape = Append(w.tape, t)]
    BY <1>5 DEF Step
  <2>2. v.on = w.on /\ v.at = w.at + 1 /\ v.channel = w.channel
    BY <1>1, <2>1 DEF Walker
  <2>3. p.on /\ p.at < PifSize
    BY <1>1, <1>5, PifAssumption
  <2>4. q = [on |-> p.on, at |-> p.at + 1, channel |-> p.channel]
    BY <1>5, <2>3 DEF NextPlace
  <2> QED
    BY <1>1, <2>2, <2>4 DEF Place
<1>6. CASE /\ w.on /\ ~(w.at >= PifSize)
           /\ \/ t.op = "end"
              \/ t.op \notin {"skip", "fill", "end"} /\ (t.tx = 0 \/ w.at + Size(t) > PifSize)
  <2>1. v = [w EXCEPT !.on = FALSE, !.tape = Append(w.tape, t)]
    BY <1>6 DEF Step
  <2>2. v.on = FALSE /\ v.at = w.at /\ v.channel = w.channel
    BY <1>1, <2>1 DEF Walker
  <2>3. ~Reached(p, t) /\ t.op \notin {"skip", "fill"}
    BY <1>1, <1>2, <1>6, PifAssumption DEF Reached
  <2>4. p.on /\ p.at < PifSize /\ t.op # "skip" /\ t.op # "fill"
    BY <1>1, <1>6, <2>3, PifAssumption
  <2>5. q = [on |-> FALSE, at |-> p.at, channel |-> p.channel]
    BY <2>3, <2>4 DEF NextPlace
  <2> QED
    BY <1>1, <2>2, <2>5 DEF Place
<1>7. CASE /\ w.on /\ ~(w.at >= PifSize) /\ t.op \notin {"skip", "fill", "end"}
           /\ ~(t.tx = 0 \/ w.at + Size(t) > PifSize)
  <2> DEFINE b == Answer(w, t, refresh, io)
  <2>1. v = [b EXCEPT !.at = @ + Size(t), !.channel = @ + 1]
    BY <1>7 DEF Step
  <2>2. b \in Walker /\ b.on = w.on /\ b.at = w.at /\ b.channel = w.channel
    BY AnswerWalked
  <2> HIDE DEF b
  <2>3. v.on = w.on /\ v.at = w.at + Size(t) /\ v.channel = w.channel + 1
    BY <1>1, <2>1, <2>2 DEF Walker
  <2>4. Reached(p, t)
    BY <1>1, <1>2, <1>7, PifAssumption DEF Reached
  <2>5. p.on /\ p.at < PifSize /\ t.op # "skip" /\ t.op # "fill"
    BY <1>1, <1>7, PifAssumption
  <2>6. q = [on |-> p.on, at |-> p.at + Size(t), channel |-> p.channel + 1]
    BY <2>4, <2>5 DEF NextPlace
  <2> QED
    BY <1>1, <2>3, <2>6 DEF Place
<1> QED
  BY <1>3, <1>4, <1>5, <1>6, <1>7

(* The places of a tape, and a tape each of whose commands was answered.   *)
CourseOf(c, tape) ==
    /\ c[0] = FirstPlace
    /\ \A k \in 1 .. Len(tape) : c[k] = NextPlace(c[k - 1], tape[k])
Answered(tape) ==
    \E c : CourseOf(c, tape) /\ \A k \in 1 .. Len(tape) : AnsweredAt(c[k - 1], tape[k])

LEMMA CourseOfTurns ==
    ASSUME WalkTyped, NEW tape \in Seq(Scanned), NEW refresh \in BOOLEAN, NEW io \in Outcomes,
           NEW f, Turns(f, tape, refresh, io)
    PROVE  CourseOf([k \in 0 .. Len(tape) |-> Place(f[k])], tape)
<1> DEFINE n == Len(tape)
           c == [k \in 0 .. n |-> Place(f[k])]
<1>1. n \in Nat /\ \A k \in 1 .. n : tape[k] \in Scanned
  OBVIOUS
<1>2. \A k \in 0 .. n : Walked(f[k])
  BY TurnsWalked
<1>3. f[0] = Start /\ \A k \in 1 .. n : f[k] = Step(f[k - 1], tape[k], refresh, io)
  BY DEF Turns
<1> HIDE DEF n
<1>4. c[0] = FirstPlace
  <2>1. 0 \in 0 .. n
    BY <1>1
  <2>2. c[0] = Place(Start)
    BY <1>3, <2>1
  <2>3. Place(Start) = FirstPlace
    BY DEF Start, Place, FirstPlace
  <2> HIDE DEF c
  <2> QED
    BY <2>2, <2>3
<1>5. ASSUME NEW k \in 1 .. n PROVE c[k] = NextPlace(c[k - 1], tape[k])
  <2>1. k - 1 \in 0 .. n /\ k \in 0 .. n
    BY <1>1
  <2>2. Walked(f[k - 1]) /\ tape[k] \in Scanned /\ f[k] = Step(f[k - 1], tape[k], refresh, io)
    BY <1>1, <1>2, <1>3, <2>1
  <2>3. Place(f[k]) = NextPlace(Place(f[k - 1]), tape[k])
    BY <2>2, StepPlace
  <2> QED
    BY <2>1, <2>3
<1> QED
  BY <1>4, <1>5 DEF CourseOf, n

(* A course is determined by its tape.                                     *)
LEMMA CourseUnique ==
    ASSUME NEW tape \in Seq(Scanned), NEW c, NEW d, CourseOf(c, tape), CourseOf(d, tape)
    PROVE  \A k \in 0 .. Len(tape) : c[k] = d[k]
<1> DEFINE n == Len(tape)
           P == {k \in 0 .. n : c[k] = d[k]}
<1>1. n \in Nat
  OBVIOUS
<1>2. c[0] = d[0] /\ \A k \in 1 .. n : c[k - 1] = d[k - 1] => c[k] = d[k]
  BY DEF CourseOf
<1> HIDE DEF n
<1>3. 0 \in P /\ \A k \in 1 .. n : k - 1 \in P => k \in P
  BY <1>1, <1>2
<1> HIDE DEF P
<1>4. \A k \in 0 .. n : k \in P
  BY <1>1, <1>3, UpTo
<1> QED
  BY <1>4 DEF P, n

(* What a walk w has made of the first k commands of the tape, along f.    *)
Kept(w, f, tape, k, refresh) ==
    /\ \A j \in 1 .. k :
          /\ SameCommand(w.tape[j], tape[j])
          /\ AnsweredAt(Place(f[j - 1]), w.tape[j])
          /\ refresh /\ tape[j].ans[1] # "read" => w.tape[j] = tape[j]
          /\ refresh /\ tape[j].ans[1] = "read" => w.read = <<w.tape[j].ans[2]>>
    /\ refresh => w.m = Start.m

LEMMA TurnsKept ==
    ASSUME WalkTyped, NEW tape \in Seq(Scanned), NEW refresh \in BOOLEAN, NEW io \in Outcomes,
           NEW f, Turns(f, tape, refresh, io),
           \A k \in 1 .. Len(tape) : Fresh(Place(f[k - 1]), tape[k], refresh)
    PROVE  \A k \in 0 .. Len(tape) : Kept(f[k], f, tape, k, refresh)
<1> DEFINE n == Len(tape)
           P == {k \in 0 .. n : Kept(f[k], f, tape, k, refresh)}
<1>1. n \in Nat /\ \A k \in 1 .. n : tape[k] \in Scanned
  OBVIOUS
<1>2. \A k \in 0 .. n : Walked(f[k]) /\ Len(f[k].tape) = k
  BY TurnsWalked
<1>3. f[0] = Start /\ \A k \in 1 .. n : f[k] = Step(f[k - 1], tape[k], refresh, io)
  BY DEF Turns
<1>4. \A k \in 1 .. n : Fresh(Place(f[k - 1]), tape[k], refresh)
  OBVIOUS
<1> HIDE DEF n
<1>5. 0 \in P
  BY <1>1, <1>3 DEF Kept
<1>6. ASSUME NEW k \in 1 .. n, Kept(f[k - 1], f, tape, k - 1, refresh)
      PROVE  Kept(f[k], f, tape, k, refresh)
  <2>1. k \in Nat /\ k - 1 \in 0 .. n /\ k - 1 \in Nat
    BY <1>1
  <2> DEFINE w == f[k - 1]
             v == f[k]
             t == tape[k]
  <2>2. /\ Walked(w) /\ Len(w.tape) = k - 1 /\ t \in Scanned
        /\ v = Step(w, t, refresh, io) /\ Fresh(Place(w), t, refresh)
    BY <1>1, <1>2, <1>3, <1>4, <2>1
  <2>3. w.tape \in Seq(Scanned)
    BY <2>2 DEF Walked, Walker
  <2>4. Kept(w, f, tape, k - 1, refresh)
    BY <1>6
  <2> HIDE DEF w, v, t
  <2>5. PICK a : Turn(w, v, t, a, refresh)
    BY <2>2, StepTurn
  <2>6. /\ \A j \in 1 .. k - 1 : v.tape[j] = w.tape[j]
        /\ v.tape[k] = a
    BY <2>1, <2>2, <2>3, <2>5 DEF Turn
  <2>7. ASSUME NEW j \in 1 .. k
        PROVE  /\ SameCommand(v.tape[j], tape[j])
               /\ AnsweredAt(Place(f[j - 1]), v.tape[j])
               /\ refresh /\ tape[j].ans[1] # "read" => v.tape[j] = tape[j]
               /\ refresh /\ tape[j].ans[1] = "read" => v.read = <<v.tape[j].ans[2]>>
    <3>1. CASE j = k
      <4>1. v.tape[j] = a /\ tape[j] = t /\ f[j - 1] = w
        BY <2>6, <3>1 DEF t, w
      <4> QED
        BY <2>5, <4>1 DEF Turn
    <3>2. CASE j # k
      <4>1. j \in 1 .. k - 1
        BY <2>1, <3>2
      <4>2. /\ SameCommand(w.tape[j], tape[j])
            /\ AnsweredAt(Place(f[j - 1]), w.tape[j])
            /\ refresh /\ tape[j].ans[1] # "read" => w.tape[j] = tape[j]
            /\ refresh /\ tape[j].ans[1] = "read" => w.read = <<w.tape[j].ans[2]>>
        BY <2>4, <4>1 DEF Kept
      <4>3. v.tape[j] = w.tape[j]
        BY <2>6, <4>1
      <4>4. w.read # Nothing => v.read = w.read
        BY <2>5 DEF Turn
      <4>5. \A x : <<x>> # Nothing
        BY DEF Nothing
      <4> QED
        BY <4>2, <4>3, <4>4, <4>5
    <3> QED
      BY <3>1, <3>2
  <2>8. refresh => v.m = Start.m
    BY <2>4, <2>5 DEF Turn, Kept
  <2> QED
    BY <2>7, <2>8 DEF Kept, v
<1>7. \A k \in 1 .. n : k - 1 \in P => k \in P
  BY <1>1, <1>6
<1> HIDE DEF P
<1>8. \A k \in 0 .. n : k \in P
  BY <1>1, <1>5, <1>7, UpTo
<1> QED
  BY <1>8 DEF P, n

(* The walk of a new tape leaves it answered; that of an answered one      *)
(* leaves it answered, changes only what was sampled and nothing of the    *)
(* pack.                                                                   *)
LEMMA WalkAnswered ==
    ASSUME WalkTyped, NEW tape \in Seq(Scanned), NEW refresh \in BOOLEAN, NEW io \in Outcomes,
           ~refresh => \A k \in 1 .. Len(tape) : tape[k].ans = <<"unanswered">>,
           refresh => Answered(tape)
    PROVE  /\ Answered(Walk(tape, refresh, io).tape)
           /\ refresh =>
                /\ Walk(tape, refresh, io).m = Start.m
                /\ \A j \in 1 .. Len(tape) :
                     IF tape[j].ans[1] = "read"
                     THEN /\ Walk(tape, refresh, io).read = <<Walk(tape, refresh, io).tape[j].ans[2]>>
                     ELSE Walk(tape, refresh, io).tape[j] = tape[j]
<1> DEFINE n == Len(tape)
           w == Walk(tape, refresh, io)
<1>1. n \in Nat /\ n \in 0 .. n
  OBVIOUS
<1>2. PICK f : Turns(f, tape, refresh, io) /\ w = f[n]
  BY WalkTurns
<1> DEFINE c == [k \in 0 .. n |-> Place(f[k])]
<1>3. CourseOf(c, tape)
  BY <1>2, CourseOfTurns
<1>4. Len(w.tape) = n
  BY <1>2, WalkWalked
<1> HIDE DEF w
<1>5. \A k \in 1 .. n : k - 1 \in 0 .. n /\ c[k - 1] = Place(f[k - 1])
  BY <1>1
<1>6. ASSUME NEW k \in 1 .. n PROVE Fresh(Place(f[k - 1]), tape[k], refresh)
  <2>1. ASSUME refresh PROVE AnsweredAt(Place(f[k - 1]), tape[k])
    <3>1. PICK d : CourseOf(d, tape) /\ \A j \in 1 .. n : AnsweredAt(d[j - 1], tape[j])
      BY <2>1 DEF Answered
    <3> HIDE DEF c
    <3>2. d[k - 1] = c[k - 1]
      BY <1>3, <1>5, <3>1, CourseUnique
    <3> QED
      BY <1>5, <3>1, <3>2
  <2> QED
    BY <2>1 DEF Fresh
<1>7. Kept(w, f, tape, n, refresh)
  BY <1>1, <1>2, <1>6, TurnsKept
<1> HIDE DEF c
<1>8. ASSUME NEW k \in 1 .. n
      PROVE  c[k] = NextPlace(c[k - 1], w.tape[k]) /\ AnsweredAt(c[k - 1], w.tape[k])
  <2>1. SameCommand(w.tape[k], tape[k]) /\ AnsweredAt(c[k - 1], w.tape[k])
    BY <1>5, <1>7 DEF Kept
  <2>2. c[k] = NextPlace(c[k - 1], tape[k])
    BY <1>3 DEF CourseOf
  <2>3. NextPlace(c[k - 1], w.tape[k]) = NextPlace(c[k - 1], tape[k])
    BY <2>1, SamePlace
  <2> QED
    BY <2>1, <2>2, <2>3
<1>9. CourseOf(c, w.tape)
  BY <1>3, <1>4, <1>8 DEF CourseOf
<1>10. Answered(w.tape)
  BY <1>4, <1>8, <1>9 DEF Answered
<1>11. ASSUME refresh
       PROVE  /\ w.m = Start.m
              /\ \A j \in 1 .. n : IF tape[j].ans[1] = "read" THEN w.read = <<w.tape[j].ans[2]>>
                                   ELSE w.tape[j] = tape[j]
  BY <1>7, <1>11 DEF Kept
<1> QED
  BY <1>10, <1>11 DEF w

(* The tape of the PIF was walked, and so was the one in a savestate.      *)
ImageAnswered == image # Nothing => Answered(image[1].pif)
AnsweredInv == Answered(pif) /\ ImageAnswered

LEMMA EmptyAnswered == Answered(<<>>)
<1> DEFINE c == [k \in {0} |-> FirstPlace]
<1>1. Len(<<>>) = 0
  OBVIOUS
<1>2. c[0] = FirstPlace /\ 1 .. 0 = {}
  OBVIOUS
<1> HIDE DEF c
<1>3. CourseOf(c, <<>>)
  BY <1>1, <1>2 DEF CourseOf
<1> QED
  BY <1>1, <1>2, <1>3 DEF Answered

(* The commands of a tape that the game writes carry no answer.            *)
LEMMA TapesUnanswered ==
    ASSUME PifTyped, NEW tape \in session.tapes
    PROVE  \A k \in 1 .. Len(tape) : tape[k].ans = <<"unanswered">>
<1>1. session \in Sessions
  BY DEF PifTyped
<1>2. tape \in Seq(Command)
  BY <1>1, SessionAssumption
<1>3. \A k \in 1 .. Len(tape) : tape[k] \in Command
  BY <1>2
<1> QED
  BY <1>3 DEF Command

LEMMA TransferAnswered ==
    ASSUME PifInv, AnsweredInv, NEW tape \in Seq(Scanned), NEW refresh \in BOOLEAN,
           NEW io \in Outcomes,
           ~refresh => \A k \in 1 .. Len(tape) : tape[k].ans = <<"unanswered">>,
           refresh => Answered(tape),
           Transfer(Walk(tape, refresh, io))
    PROVE  AnsweredInv'
<1>1. WalkTyped
  BY DEF PifInv, PifTyped
<1>2. Answered(Walk(tape, refresh, io).tape)
  BY <1>1, WalkAnswered
<1>3. pif' = Walk(tape, refresh, io).tape /\ image' = image
  BY DEF Transfer
<1>4. Answered(pif') /\ ImageAnswered'
  BY <1>2, <1>3 DEF AnsweredInv, ImageAnswered
<1> QED
  BY <1>4 DEF AnsweredInv

LEMMA NextAnswered == PifInv /\ AnsweredInv /\ [Next]_vars => AnsweredInv'
<1> SUFFICES ASSUME PifInv, AnsweredInv, [Next]_vars PROVE AnsweredInv'
  OBVIOUS
<1>1. PifTyped /\ Answered(pif) /\ ImageAnswered
  BY DEF PifInv, AnsweredInv
<1>2. ASSUME pif' = pif, image' = image PROVE AnsweredInv'
  BY <1>1, <1>2 DEF AnsweredInv, ImageAnswered
<1>3. CASE DmaWrite
  <2>1. PICK tape \in session.tapes, io \in session.outcomes : Transfer(Walk(tape, FALSE, io))
    BY <1>3 DEF DmaWrite
  <2>2. tape \in Seq(Scanned) /\ io \in Outcomes
    BY <1>1, SessionFields
  <2>3. \A k \in 1 .. Len(tape) : tape[k].ans = <<"unanswered">>
    BY <1>1, TapesUnanswered
  <2> QED
    BY <2>1, <2>2, <2>3, TransferAnswered
<1>4. CASE DmaRead
  <2>1. PICK io \in session.outcomes : Transfer(Walk(pif, TRUE, io))
    BY <1>4 DEF DmaRead
  <2>2. pif \in Seq(Scanned) /\ io \in Outcomes
    BY <1>1, SessionFields DEF PifTyped
  <2> QED
    BY <1>1, <2>1, <2>2, TransferAnswered
<1>5. CASE Retrace \/ Tick \/ SaveBookmark
  BY <1>2, <1>5 DEF Retrace, Tick, SaveBookmark
<1>6. ASSUME NEW h \in Keys \cup {None}, NEW s \in Sticks \cup {None}, KeyEvent(h, s)
      PROVE  AnsweredInv'
  BY <1>2, <1>6 DEF KeyEvent
<1>7. CASE SaveState
  <2>1. pif' = pif /\ image' = <<Captured>> /\ Captured.pif = pif
    BY <1>7 DEF SaveState, Captured
  <2>2. image'[1].pif = pif
    BY <2>1
  <2> QED
    BY <1>1, <2>1, <2>2 DEF AnsweredInv, ImageAnswered
<1>8. CASE LoadState
  <2>1. pif' = image[1].pif /\ image' = image /\ image # Nothing
    BY <1>8 DEF LoadState, Restore
  <2> QED
    BY <1>1, <2>1 DEF AnsweredInv, ImageAnswered
<1>9. CASE NewProcess
  <2>1. pif' = <<>> /\ image' = image
    BY <1>9 DEF NewProcess
  <2> QED
    BY <1>1, <2>1, EmptyAnswered DEF AnsweredInv, ImageAnswered
<1>10. CASE UNCHANGED vars
  BY <1>2, <1>10 DEF vars
<1> QED
  BY <1>3, <1>4, <1>5, <1>6, <1>7, <1>8, <1>9, <1>10 DEF Next

LEMMA AnsweredReadsBack == PifInv /\ AnsweredInv => RefreshIsControllers
<1> SUFFICES ASSUME PifInv, AnsweredInv, NEW io \in session.outcomes
             PROVE  LET w == Walk(pif, TRUE, io)
                    IN  /\ w.m.pack = pack /\ w.m.disk = disk
                        /\ \A k \in DOMAIN pif :
                              IF Head(pif[k].ans) = "read"
                              THEN <<w.tape[k].ans[2]>> = w.read /\ w.polls > polls
                              ELSE w.tape[k] = pif[k]
  BY DEF RefreshIsControllers
<1> DEFINE w == Walk(pif, TRUE, io)
<1>1. /\ PifTyped /\ WalkTyped /\ polls \in Nat /\ Answered(pif)
      /\ pif \in Seq(Scanned) /\ io \in Outcomes
  BY SessionFields DEF PifInv, PifTyped, WalkTyped, AnsweredInv
<1>2. Walked(w)
  BY <1>1, WalkWalked
<1>3. /\ w.m = Start.m
      /\ \A j \in 1 .. Len(pif) :
           IF pif[j].ans[1] = "read" THEN w.read = <<w.tape[j].ans[2]>> ELSE w.tape[j] = pif[j]
  BY <1>1, WalkAnswered
<1> HIDE DEF w
<1>4. w.m.pack = pack /\ w.m.disk = disk
  BY <1>3 DEF Start
<1>5. w.read # Nothing => w.polls > polls
  BY <1>1, <1>2 DEF Walked
<1>6. ASSUME NEW k \in DOMAIN pif
      PROVE  IF Head(pif[k].ans) = "read"
             THEN <<w.tape[k].ans[2]>> = w.read /\ w.polls > polls
             ELSE w.tape[k] = pif[k]
  <2>1. k \in 1 .. Len(pif) /\ pif[k] \in Scanned
    BY <1>1
  <2>2. Head(pif[k].ans) = pif[k].ans[1]
    <3>1. pif[k].ans \in Answers
      BY <2>1 DEF Scanned
    <3> QED
      BY <3>1, HeadIsFirst
  <2>3. CASE pif[k].ans[1] = "read"
    <3>1. w.read = <<w.tape[k].ans[2]>>
      BY <1>3, <2>1, <2>3
    <3>2. w.read # Nothing
      BY <3>1 DEF Nothing
    <3> QED
      BY <1>5, <2>2, <2>3, <3>1, <3>2
  <2>4. CASE pif[k].ans[1] # "read"
    BY <1>3, <2>1, <2>2, <2>4
  <2> QED
    BY <2>3, <2>4
<1> QED
  BY <1>4, <1>6 DEF w

(* Reading the tape back samples the controllers again and does nothing    *)
(* else twice: every answered reading shows the input of this transfer,    *)
(* every other command keeps its answer, and no block of the pack is read  *)
(* or written again (pif.c:641), for every tape the game writes, after any *)
(* number of transfers, savestates and processes.                          *)
THEOREM RefreshIsControllersCorrect == Spec => []RefreshIsControllers
<1>1. Init => PifInv /\ AnsweredInv
  BY InitPif, EmptyAnswered DEF Init, AnsweredInv, ImageAnswered
<1>2. (PifInv /\ AnsweredInv) /\ [Next]_vars => (PifInv /\ AnsweredInv)'
  BY NextPif, NextAnswered
<1> QED
  BY <1>1, <1>2, AnsweredReadsBack, PTL DEF Spec

=============================================================================
