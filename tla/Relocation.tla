----------------------------- MODULE Relocation -----------------------------
(***************************************************************************)
(* legendas.c: a translation is written where the English string is, or,   *)
(* when it has no room there, in an arena above the memory the game knows. *)
(* A world `w` is what these functions read and write:                     *)
(*   mem    the console's memory, low cells and arena                      *)
(*   mode   WPJ2_REALOCAR                                                  *)
(*   slot   the slot of each entry, 0 for none                             *)
(*   ring   the next ring slot;  top  the end of the fixed slots           *)
(*   cache  the composed messages: origin, text and slot                   *)
(***************************************************************************)
EXTENDS Catalogue

CONSTANTS
    RdramLimit,             \* the first cell of the arena
    RingSlots, RingBytes,   \* ARENA_ANEL_SLOTS, ARENA_ANEL_BYTES
    ArenaBytes,
    SlackMax,               \* FOLGA_MAX
    MaxControls,
    StaticMin, FragmentMin, CartMin,    \* 3, 12 and 8
    CacheCap,               \* COMPOSTO_CACHE
    Exact                   \* the addresses of the cartridge with a known short string

\* The ring is the lower part of the arena: 64 slots of 1 KiB of its 3 MiB.
ASSUME ArenaAssumption ==
    /\ {RdramLimit, RingBytes, ArenaBytes, SlackMax, MaxControls, FragmentMin, CartMin, CacheCap}
           \subseteq Nat
    /\ {RingSlots, StaticMin} \subseteq Nat \ {0}
    /\ RingSlots * RingBytes <= ArenaBytes
    /\ Exact \in Seq([at : Nat, source : Seq(Characters)])

ArenaBase == RdramLimit
ArenaEnd == ArenaBase + ArenaBytes
Address == 0 .. ArenaEnd - 1
Textual == Printable \cup {Break, Return, TilBefore}

Freshly(mem, mode) ==
    [mem |-> mem, mode |-> mode, slot |-> [e \in DOMAIN Entries |-> 0], ring |-> 0,
     top |-> ArenaBase + RingSlots * RingBytes, cache |-> <<>>]

\* The cells before the NUL.
RawText(mem, p) ==
    LET end == Min({a \in DOMAIN mem : a >= p /\ mem[a] = Nul} \cup {Cardinality(DOMAIN mem)})
    IN  [i \in 1 .. end - p |-> mem[p + i - 1]]

-----------------------------------------------------------------------------
(* The string at p: its key, its controls (offset in the key, argument)    *)
(* and its length.                                                         *)

ReadText(mem, p) ==
    LET after[k \in 0 .. MaxText] ==
            IF k = 0 THEN [raw |-> 0, key |-> <<>>, controls |-> <<>>, state |-> "open"]
            ELSE LET q == after[k - 1]
                     at == p + q.raw
                 IN  IF q.state # "open" \/ q.raw >= MaxText \/ at >= RdramLimit THEN q
                     ELSE IF mem[at] = Nul THEN [q EXCEPT !.state = "whole"]
                     ELSE IF mem[at] = Code /\ q.raw + 1 < MaxText /\ at + 1 < RdramLimit
                     THEN [q EXCEPT !.raw = @ + 2,
                                    !.controls = IF Len(@) = MaxControls THEN @
                                                 ELSE Append(@, [offset |-> Len(q.key),
                                                                 arg |-> mem[at + 1]])]
                     ELSE IF mem[at] \in Textual
                     THEN [q EXCEPT !.raw = @ + 1, !.key = Append(@, mem[at])]
                     ELSE [q EXCEPT !.state = "binary"]
    IN  after[MaxText]

\* The key without the breaks at its end.
Stripped(key) ==
    SubSeq(key, 1, Max({0} \cup {i \in DOMAIN key : key[i] \notin {Break, Return}}))

\* The entry of a key; before the formatter also by its translation.
EntryOf(key, before) ==
    IF Find(key) # 0 \/ ~ before THEN Find(key)
    ELSE FindTranslated([i \in DOMAIN key |-> IF key[i] = TilBefore THEN Til ELSE key[i]])

\* The glyphs that replace a key: lines are only cut where the original has one line.
Shown(e, key, before) ==
    LET t == Entries[e].translated
        glyphs == IF before THEN EncodeBefore(t) ELSE Encode(t)
    IN  IF Has(key, Break) \/ Has(key, Return) THEN glyphs ELSE Wrap(glyphs)

\* Variant: the cell after the zeros counts too.
SlackOneMore(mem, p) ==
    Cardinality({a \in p .. Min({p + SlackMax, RdramLimit}) - 1 : \A b \in p .. a : mem[b] = Nul}) + 1

\* The zeros from p on, the terminator among them.
Slack(mem, p) ==
    Cardinality({a \in p .. Min({p + SlackMax, RdramLimit}) - 1 : \A b \in p .. a : mem[b] = Nul})

\* Where a control goes: `key` is the key with its stripped end cut by a NUL, n
\* its length, `offset` the characters before the control.
Mapped(key, n, shown, offset) ==
    LET m == Len(shown)
        line == Cardinality({i \in 1 .. offset : key[i] = Break})
        Start(t, l) == Min({i \in 0 .. Len(t) : Cardinality({j \in 1 .. i : t[j] = Break}) = l})
        ColonAt(t, size) == Min({i \in 1 .. size : t[i] = ":"} \cup {size + 1}) - 1
        colon == ColonAt(key, n)
        shownColon == ColonAt(shown, m)
        Share(whole) == IF n = 0 THEN 0 ELSE (offset * whole) \div n
        Place ==
            IF offset = 0 THEN 0
            ELSE IF line > 0
            THEN IF Breaks(shown) < line THEN Share(m)
                 ELSE Min({Start(shown, line) + (offset - Start(key, line)),
                           LineEnd(shown, Start(shown, line) + 1) - 1})
            ELSE IF offset >= n THEN m
            ELSE IF colon = n \/ shownColon = m THEN Share(m)
            ELSE IF offset > colon THEN shownColon + (offset - colon)
            ELSE IF colon = 0 THEN 0 ELSE (offset * shownColon) \div colon
    IN  Min({Place, m})

\* The glyphs with every control before the glyph it is mapped to.
Assemble(shown, controls, at) ==
    LET Here(pos) == FlattenSeq([i \in DOMAIN controls |->
                                    IF at[i] = pos THEN <<Code, controls[i].arg>> ELSE <<>>])
    IN  FlattenSeq([k \in 1 .. Len(shown) + 1 |->
                        Here(k - 1) \o (IF k > Len(shown) THEN <<>> ELSE <<shown[k]>>)])

\* `cells` at p, and zeros up to and with the cell `zeros` after p.
Write(mem, p, cells, zeros) ==
    [a \in DOMAIN mem \cup p .. p + zeros |->
        IF a \notin p .. p + zeros THEN mem[a]
        ELSE IF a < p + Len(cells) THEN cells[a - p + 1] ELSE Nul]

-----------------------------------------------------------------------------
(* The arena.                                                              *)

\* Variant: rounded down.
FixedSlotShort(w, bytes) ==
    LET top == w.top + 4 * (bytes \div 4)
    IN  [at |-> IF top > ArenaEnd THEN 0 ELSE w.top, world |-> [w EXCEPT !.top = top]]

\* arena_alocar_fixo
FixedSlot(w, bytes) ==
    LET top == w.top + 4 * ((bytes + 4) \div 4)
    IN  IF top > ArenaEnd THEN [at |-> 0, world |-> w]
        ELSE [at |-> w.top, world |-> [w EXCEPT !.top = top]]

\* arena_alocar_anel
RingSlot(w) ==
    [at |-> ArenaBase + w.ring * RingBytes, world |-> [w EXCEPT !.ring = (@ + 1) % RingSlots]]

\* The slot of a string that does not stay where it is: the one of its entry, a
\* new one, or, with controls, one of the ring.
SlotFor(w, e, controls, size) ==
    IF controls = <<>>
    THEN IF w.slot[e] # 0 THEN [at |-> w.slot[e], world |-> w]
         ELSE LET f == FixedSlot(w, size + 1)
              IN  [f EXCEPT !.world.slot[e] = f.at]
    ELSE IF size + 1 <= RingBytes THEN RingSlot(w) ELSE [at |-> 0, world |-> w]

-----------------------------------------------------------------------------
Refused(w) == [world |-> w, done |-> FALSE, to |-> 0]

\* The bytes a string may take where it is: a known slot, or its own and its zeros.
RoomAt(mem, q, raw) ==
    IF q.explicit # 0 THEN q.explicit - 1
    ELSE raw + Max({Slack(mem, q.p + raw), 1}) - 1

\* The glyphs and controls of the replacement.
Replacement(r, n, shown) ==
    LET cut == IF Len(r.key) = n THEN r.key ELSE [r.key EXCEPT ![n + 1] = Nul]
    IN  Assemble(shown, r.controls,
                 [i \in DOMAIN r.controls |-> Mapped(cut, n, shown, r.controls[i].offset)])

\* To the slot s, with its terminator.
Moved(s, w, cells) ==
    IF s.at = 0 THEN Refused(w)
    ELSE [world |-> [s.world EXCEPT !.mem = Write(@, s.at, cells, Len(cells))],
          done |-> TRUE, to |-> s.at]

\* Where it is when it has room and nothing forces it out; else in the arena, for a
\* caller that takes a new pointer.  What is left of the original is cleared.
Replaced(w, q, r, e, cells) ==
    IF Len(cells) <= RoomAt(w.mem, q, r.raw) /\ ~ (q.want /\ w.mode >= 2)
    THEN [world |-> [w EXCEPT !.mem = Write(@, q.p, cells, Max({Len(cells), r.raw}))],
          done |-> TRUE, to |-> 0]
    ELSE IF ~ q.want \/ w.mode = 0 THEN Refused(w)
    ELSE Moved(SlotFor(w, e, r.controls, Len(cells)), w, cells)

\* A string without controls that has a slot is there already.
Translated(w, q, r, key, e) ==
    IF e = 0 THEN Refused(w)
    ELSE IF q.want /\ r.controls = <<>> /\ w.slot[e] # 0 /\ ~ q.before
    THEN [world |-> w, done |-> TRUE, to |-> w.slot[e]]
    ELSE Replaced(w, q, r, e, Replacement(r, Len(key), Shown(e, key, q.before)))

Recognised(w, q, r, key) ==
    IF r.state # "whole" \/ key = <<>> THEN Refused(w)
    ELSE Translated(w, q, r, key, EntryOf(key, q.before))

ReadAndReplace(w, q, r) == Recognised(w, q, r, Stripped(r.key))

\* substituir_interno: `want` a new pointer may be returned, `explicit` a known
\* capacity or 0, `before` the formatter is still to come.
Substitute(w, p, want, explicit, before) ==
    IF p >= RdramLimit THEN Refused(w)
    ELSE ReadAndReplace(w, [p |-> p, want |-> want, explicit |-> explicit, before |-> before],
                        ReadText(w.mem, p))

\* legendas_finalizar_pos_formatador
Finalise(mem, p) ==
    LET text == RawText(mem, p)
    IN  IF p \notin 1 .. ArenaEnd - 1 THEN mem
        ELSE [a \in {i \in p .. p + Len(text) - 1 : i < p + MaxText /\ mem[i] = TilBefore} |-> Til]
             @@ mem
=============================================================================
