----------------------------- MODULE TextBlocks -----------------------------
(***************************************************************************)
(* legendas.c over more than one string: the strings of a block of data, a *)
(* message the catalogue knows only in fragments, and the cartridge.       *)
(***************************************************************************)
EXTENDS Relocation

Glyph == Printable \ {TilBefore}        \* 0x20 to 0x7E
Enabled == Entries # <<>>

-----------------------------------------------------------------------------
\* The text at `off` of the block, when a NUL ends it inside the block.
BlockText(mem, base, bytes, off) ==
    LET end == Min({i \in off .. bytes - 1 : mem[base + i] \notin Glyph \cup {Break, Return}}
                   \cup {bytes})
    IN  IF end < bytes /\ mem[base + end] = Nul /\ end - off <= MaxText
        THEN [i \in 1 .. end - off |-> mem[base + off + i - 1]] ELSE <<>>

\* What a text of n bytes may take: the zeros behind it, within the block.
BlockRoom(mem, base, bytes, off, n) ==
    Max({c \in n + 1 .. Min({n + 1 + SlackMax, bytes - off}) :
            \A i \in n .. c - 1 : mem[base + off + i] = Nul})

Within(q, base, room) ==
    [off |-> q.off + room,
     world |-> Substitute(q.world, base + q.off, FALSE, room, FALSE).world]

BlockStep(q, base, bytes, text) ==
    IF (q.off > 0 /\ q.world.mem[base + q.off - 1] # Nul) \/ Len(text) < StaticMin
    THEN [q EXCEPT !.off = @ + 1]
    ELSE IF Find(text) = 0 THEN [q EXCEPT !.off = @ + Len(text) + 1]
    ELSE Within(q, base, BlockRoom(q.world.mem, base, bytes, q.off, Len(text)))

\* legendas_substituir_bloco_estatico: a string that follows a NUL (or begins the
\* block), ends in one, and is a key of the catalogue; the zeros after it are its own.
Static(w, base, bytes) ==
    LET after[k \in 0 .. bytes] ==
            IF k = 0 THEN [off |-> 0, world |-> w]
            ELSE LET q == after[k - 1]
                 IN  IF q.off >= bytes THEN q
                     ELSE BlockStep(q, base, bytes, BlockText(q.world.mem, base, bytes, q.off))
    IN  IF ~ Enabled \/ bytes = 0 \/ base >= RdramLimit \/ base + bytes > RdramLimit THEN w
        ELSE after[bytes].world

-----------------------------------------------------------------------------
(* A message in fragments.                                                 *)

\* `piece` stands for the first n characters of what is left.
Known(q, piece, n) ==
    [rest |-> SubSeq(q.rest, n + 1, Len(q.rest)), out |-> q.out \o piece,
     known |-> q.known + 1, longest |-> Max({q.longest, n})]

\* A translation with the spaces its key has at the ends.
Spaced(source, glyphs) ==
    (IF Head(source) = Space /\ Head(glyphs) # Space THEN <<Space>> ELSE <<>>)
    \o glyphs
    \o (IF Last(source) = Space /\ Last(glyphs) # Space THEN <<Space>> ELSE <<>>)

\* The longest English key, else a translation already there, else one character.
NextPiece(q, e, f) ==
    IF e # 0 THEN Known(q, Spaced(SourceOf[e], GlyphsOf[e]), Len(SourceOf[e]))
    ELSE IF f # 0 THEN Known(q, GlyphsOf[f], Len(GlyphsOf[f]))
    ELSE [q EXCEPT !.rest = Tail(@), !.out = Append(@, Head(q.rest))]

Fragment(t) ==
    LET after[k \in 0 .. Len(t)] ==
            IF k = 0 THEN [rest |-> t, out |-> <<>>, known |-> 0, longest |-> 0]
            ELSE LET q == after[k - 1]
                 IN  IF q.rest = <<>> THEN q
                     ELSE NextPiece(q, LongestPrefix(q.rest, SourceOf), LongestPrefix(q.rest, GlyphsOf))
    IN  after[Len(t)]

\* A run of characters ends at a control, a break or a byte that is no text.
RunEnd(mem, p, from) ==
    Min({n \in from .. MaxText : n = MaxText \/ p + n >= RdramLimit \/ mem[p + n] \notin Glyph})
Joined(q, end, g) ==
    [q EXCEPT !.raw = end, !.out = @ \o g.out, !.known = @ + g.known, !.longest = Max({@, g.longest})]

ReadOn(mem, p, q, c) ==
    IF c = Nul THEN [q EXCEPT !.state = "whole"]
    ELSE IF c = Code /\ q.raw + 1 < MaxText
    THEN IF p + q.raw + 2 > RdramLimit THEN [q EXCEPT !.state = "cut"]
         ELSE [q EXCEPT !.raw = @ + 2, !.out = @ \o <<c, mem[p + q.raw + 1]>>]
    ELSE IF c \notin Glyph
    THEN [q EXCEPT !.raw = @ + 1, !.out = Append(@, c), !.broke = @ \/ c \in {Break, Return}]
    ELSE Joined(q, RunEnd(mem, p, q.raw),
                Fragment([i \in 1 .. RunEnd(mem, p, q.raw) - q.raw |-> mem[p + q.raw + i - 1]]))

\* The message at p with its fragments translated; controls and breaks stay.
ReadFragments(mem, p) ==
    LET after[k \in 0 .. MaxText] ==
            IF k = 0 THEN [raw |-> 0, out |-> <<>>, known |-> 0, longest |-> 0,
                           broke |-> FALSE, state |-> "open"]
            ELSE LET q == after[k - 1]
                 IN  IF q.state # "open" \/ q.raw >= MaxText \/ p + q.raw >= RdramLimit THEN q
                     ELSE ReadOn(mem, p, q, mem[p + q.raw])
    IN  after[MaxText]

\* One known fragment is enough only when it is long and the message has a break.
EnoughKnown(r) ==
    /\ r.state = "whole"
    /\ r.known >= 2 \/ (r.known = 1 /\ r.longest >= FragmentMin /\ r.broke)

LaidOut(r) == IF r.broke THEN Reflow(r.out) ELSE Wrap(r.out)

\* A new fixed slot, remembered while the cache has room.
Composed(w, m, f, out) ==
    IF f.at = 0 THEN Refused(w)
    ELSE [world |-> [f.world EXCEPT !.mem = Write(@, f.at, out, Len(out)),
                                    !.cache = IF Len(@) >= CacheCap THEN @
                                              ELSE Append(@, m @@ [slot |-> f.at])],
          done |-> TRUE, to |-> f.at]

\* A message of the same place and text has its slot.
Cached(w, m, out) ==
    LET hits == {i \in DOMAIN w.cache : w.cache[i].origin = m.origin /\ w.cache[i].text = m.text}
    IN  IF hits # {} THEN [world |-> w, done |-> TRUE, to |-> w.cache[Min(hits)].slot]
        ELSE Composed(w, m, FixedSlot(w, Len(out) + 1), out)

ComposeRead(w, p, r) ==
    IF EnoughKnown(r) THEN Cached(w, [origin |-> p, text |-> RawText(w.mem, p)], LaidOut(r))
    ELSE Refused(w)

\* legendas_realocar_recurso_composto
Compose(w, p) ==
    IF ~ Enabled \/ w.mode = 0 \/ p >= RdramLimit THEN Refused(w)
    ELSE ComposeRead(w, p, ReadFragments(w.mem, p))

-----------------------------------------------------------------------------
(* The cartridge, once, before the game starts.                            *)

CartText(cart, at, n) == [i \in 1 .. n |-> cart[at + i - 1]]
Put(cart, at, cells) ==
    [a \in DOMAIN cart |-> IF a \in at .. at + Len(cells) - 1 THEN cells[a - at + 1] ELSE cart[a]]

\* A long string that is whole where it stands, and its translation no longer than it.
PatchEntry(cart, at, e, size) ==
    LET s == SourceOf[e]
        t == Entries[e].translated
    IN  IF /\ Len(s) >= CartMin /\ at + Len(s) <= size /\ CartText(cart, at, Len(s)) = s
           /\ at + Len(s) < size => cart[at + Len(s)] \notin Glyph
           /\ ~ Collides(t) /\ Len(t) <= Len(s)
        THEN Put(cart, at, EncodeFixed(t, Len(s))) ELSE cart

PatchExact(cart, x, size) ==
    LET e == Find(x.source)
        n == Len(x.source)
    IN  IF e = 0 \/ x.at + n > size THEN cart
        ELSE IF CartText(cart, x.at, n) = x.source /\ ~ Collides(Entries[e].translated)
                /\ Len(Entries[e].translated) <= n
        THEN Put(cart, x.at, EncodeFixed(Entries[e].translated, n)) ELSE cart

\* Of the entries of one bucket, the later first.
PatchBucket(cart, at, size) ==
    LET all == Len(Entries)
        after[k \in 0 .. all] ==
            IF k = 0 THEN cart
            ELSE IF KeyOf(SourceOf[all + 1 - k]) # CartText(cart, at, KeyBytes) THEN after[k - 1]
            ELSE PatchEntry(after[k - 1], at, all + 1 - k, size)
    IN  after[all]

\* Every place of the cartridge.
Swept(cart, size) ==
    LET after[pos \in 0 .. size] ==
            IF pos = 0 THEN cart
            ELSE IF pos - 1 + KeyBytes > size THEN after[pos - 1]
            ELSE PatchBucket(after[pos - 1], pos - 1, size)
    IN  after[size]

\* legendas_aplicar_cartucho
Patched(cart) ==
    LET size == Cardinality(DOMAIN cart)
        exact[k \in 0 .. Len(Exact)] ==
            IF k = 0 THEN Swept(cart, size) ELSE PatchExact(exact[k - 1], Exact[k], size)
    IN  IF Enabled THEN exact[Len(Exact)] ELSE cart
=============================================================================
