------------------------------ MODULE Subtitles ------------------------------
(***************************************************************************)
(* The routes a text of the game takes to the screen, as hle.c intercepts  *)
(* them: a resource is copied, decompressed or transferred from the ROM;   *)
(* the loader hands out a string and its copy; a message is published, is  *)
(* copied to the live buffer and formatted; a string is drawn, and hle.c   *)
(* is called again at every character of it.  The bodies of the game's own *)
(* routines are external.                                                  *)
(***************************************************************************)
EXTENDS TextBlocks, CartridgeDma

CONSTANTS
    Image,              \* resources: cells, places in the cartridge, where
                        \* their texts are, and which of these are spoken
    Block, Heap, Live,  \* where a resource, its copy and the live buffer are
    LiveBytes,          \* 0x60
    RomSize, MenuFrom, MenuTo,
    HostBytes,          \* RDRAM_DUMP_BYTES
    Mode,               \* the values of WPJ2_REALOCAR
    TableMax,           \* 24
    MaxPublished        \* a bound of the model

VARIABLES
    session,    \* the image, where it is in the ROM, WPJ2_REALOCAR_FMT
    world,      \* Relocation
    cart,       \* the cartridge, patched
    loaded,     \* the resource is in the block
    loader,     \* the text func_80096B38 returned last, -1 for none
    published,  \* [of, at]: the text and the pointer the game was given
    live,       \* the text in the live buffer, -1 for none, and whether the
                \* buffer has room for all of it
    shown       \* what is being drawn: the text, the next character, those drawn,
                \* and how many were when it went on in the arena, -1 for never

vars == <<session, world, cart, loaded, loader, published, live, shown>>

Resource == session.image.cells
Size == Len(Resource)
Texts == session.image.texts            \* offsets of strings
Spoken == session.image.spoken          \* those the loader hands out
Printed == Texts \ Spoken
Binary == "#"      \* a byte that is no text
Silence == [of |-> -1, whole |-> TRUE]
Nothing == [of |-> -1, at |-> 0, said |-> <<>>, moved |-> -1]

Rom(image, place) ==
    [a \in 0 .. RomSize - 1 |-> IF a \in place .. place + Len(image.cells) - 1
                                THEN image.cells[a - place + 1] ELSE Nul]

\* Behind the live buffer lies something else.
EmptyRam == [a \in 0 .. HostBytes - 1 |-> IF a = Live + LiveBytes THEN Binary ELSE Nul]

SubtitlesInit ==
    /\ \E image \in Image, fmt \in BOOLEAN : \E place \in image.places :
           session = [image |-> image, place |-> place, fmt |-> fmt]
    /\ \E mode \in Mode : world = Freshly(EmptyRam, mode)
    /\ cart = Patched(Rom(session.image, session.place))
    /\ loaded = FALSE /\ loader = -1 /\ published = <<>> /\ live = Silence /\ shown = Nothing

LivePointers == {published[i].at : i \in DOMAIN published} \cup {shown.at}

\* The ring holds more slots than texts live at once (legendas.c:301): no
\* text of the game outlives RingSlots later allocations.
Spares(w) ==
    w.ring # world.ring =>
        LET slot == ArenaBase + world.ring * RingBytes
        IN  LivePointers \cap slot .. slot + RingBytes - 1 = {}

-----------------------------------------------------------------------------
(* Resources.  The game loads none over one whose strings it published.    *)

Arrived(w) ==
    /\ published = <<>>
    /\ world' = w
    /\ loaded' = TRUE /\ shown' = Nothing
    /\ UNCHANGED <<session, cart, loader, published, live>>

Arriving(mem) == Static([world EXCEPT !.mem = mem], Block, Size)

\* A menu label has the whole of its slot.
WithLabel(w) ==
    IF session.place \in MenuFrom .. MenuTo - 1 /\ Size >= 2
    THEN Substitute(w, Block, FALSE, Size, FALSE).world ELSE w

\* func_800BD218 from the cartridge.
LoadResource ==
    Arrived(WithLabel(Arriving(CopyCart(world.mem, Block, cart, session.place, Size))))

\* func_800CB090, func_800D5060: osPiRawStartDma and __osEPiRawStartDma.  The
\* transfer to the cartridge, dir = 1, is left out.
LoadDma ==
    Arrived(Arriving(CopyPi(world.mem, Block, cart, session.place, Size)))

\* func_800BF0B4: the decompressed resource is there when its body did not yield.
LoadSpi ==
    Arrived(Arriving(Ordered(world.mem, Block, Rom(session.image, 0), 0, Size)))

-----------------------------------------------------------------------------
(* Messages.                                                               *)

LoaderReturns(x, w) ==
    /\ Spares(w)
    /\ world' = w /\ loader' = x
    /\ UNCHANGED <<session, cart, loaded, published, live, shown>>

CopyOfBlock == [world EXCEPT !.mem = Ordered(@, Heap, @, Block, Size)]

\* Variant: the copy stays as it is.
LoaderMovesCopy(x) ==
    /\ loaded /\ x \in Spoken
    /\ LoaderReturns(x, Substitute(CopyOfBlock, Block + x, FALSE, 0, TRUE).world)

\* func_80096B38: the body copies the block, not over a message; the copy is translated
\* where it is, then the source, which may get a slot.
Loader(x) ==
    /\ loaded /\ x \in Spoken
    /\ \A i \in DOMAIN published : published[i].at \notin Heap .. Heap + Size - 1
    /\ LoaderReturns(x, Substitute(Substitute(CopyOfBlock, Heap + x, FALSE, 0, TRUE).world,
                                  Block + x, TRUE, 0, TRUE).world)

Given(p, s) == IF s.to # 0 THEN s.to ELSE p

Published(x, p, s) ==
    /\ Spares(s.world)
    /\ world' = s.world
    /\ published' = Append(published, [of |-> x, at |-> Given(p, s)])
    /\ UNCHANGED <<session, cart, loaded, loader, live, shown>>

\* func_800319B0: the source, or its copy, as one message.
Publish(x, base) ==
    /\ loaded /\ x \in Spoken /\ Len(published) < MaxPublished
    /\ base = Heap => loader # -1
    /\ Published(x, base + x, Substitute(world, base + x, TRUE, 0, TRUE))

Listed(q, x, s) ==
    [world |-> s.world, table |-> Append(q.table, [of |-> x, at |-> Given(Block + x, s)])]

\* The messages `all` of a table; those beyond TableMax stay as they are.
Table(all) ==
    LET after[k \in 0 .. Len(all)] ==
            IF k = 0 THEN [world |-> world, table |-> <<>>]
            ELSE LET q == after[k - 1]
                 IN  Listed(q, all[k], IF k > TableMax THEN Refused(q.world)
                                       ELSE Substitute(q.world, Block + all[k], TRUE, 0, TRUE))
    IN  after[Len(all)]

TableGiven(t) ==
    /\ Spares(t.world)
    /\ world' = t.world /\ published' = t.table
    /\ UNCHANGED <<session, cart, loaded, loader, live, shown>>

\* func_80096D40: a table of the messages of the block.
PublishTable ==
    /\ loaded /\ published = <<>> /\ Spoken # {}
    /\ TableGiven(Table(SetToSortSeq(Spoken, <)))

\* func_8008EDA4 of the game: a-tilde is its operator.
Formatted(mem, p) ==
    LET text == RawText(mem, p)
    IN  [a \in {i \in p .. p + Len(text) - 1 : mem[i] = Til} |-> Binary] @@ mem

\* SysMem_DmaCopy (func_800BD218) of a message to the live buffer: from the arena
\* by hle.c, from low memory by its body; then the formatter.  The buffer takes
\* LiveBytes cells, and a longer message loses its end and its terminator.
CopyToLive(p) ==
    IF p >= ArenaBase THEN CopyRdram(world.mem, Live, p, LiveBytes)
    ELSE Ordered(world.mem, Live, world.mem, p, LiveBytes)

Activate ==
    /\ published # <<>>
    /\ world' = [world EXCEPT !.mem = Formatted(CopyToLive(published[1].at), Live)]
    /\ live' = [of |-> published[1].of, whole |-> Len(RawText(world.mem, published[1].at)) < LiveBytes]
    /\ published' = Tail(published) /\ shown' = Nothing
    /\ UNCHANGED <<session, cart, loaded, loader>>

-----------------------------------------------------------------------------
(* Drawing.                                                                *)

OrFragments(one, w, p) == IF one.done THEN one ELSE Compose(w, p)

\* func_80090E58 with its pointer at p: the glyph of a-tilde is put back; then what
\* begins at p is one entry, or fragments; with WPJ2_REALOCAR_FMT=0 it is replaced
\* only where it stands.
InterceptedIn(w, p) ==
    IF ~ session.fmt THEN Substitute(w, p, FALSE, 0, FALSE)
    ELSE OrFragments(Substitute(w, p, TRUE, 0, FALSE), w, p)
Intercepted(p) == InterceptedIn([world EXCEPT !.mem = Finalise(@, p)], p)

\* One character at `at`; a control goes with its argument.
Character(mem, at) == IF mem[at] = Code THEN <<Code, mem[at + 1]>> ELSE <<mem[at]>>

Drawn(x, at, said, character, moved) ==
    [of |-> x, at |-> at + Len(character), said |-> said \o character, moved |-> moved]

DrawnAs(x, p, said, moved, s) ==
    /\ Spares(s.world)
    /\ world' = s.world
    /\ shown' = Drawn(x, Given(p, s), said, Character(s.world.mem, Given(p, s)),
                      IF s.to # 0 THEN Len(said) ELSE moved)
    /\ UNCHANGED <<session, cart, loaded, loader, published, live>>

\* The game calls it for every character, with the pointer moved on (hle.c:252).
DrawAt(x, p, said, moved) ==
    world.mem[p] \notin {Nul, Binary} /\ DrawnAs(x, p, said, moved, Intercepted(p))

BeginLive == live.of # -1 /\ DrawAt(live.of, Live, <<>>, -1)
BeginPrinted(x) == loaded /\ x \in Printed /\ DrawAt(x, Block + x, <<>>, -1)
DrawOn == shown.of # -1 /\ DrawAt(shown.of, shown.at, shown.said, shown.moved)

Next ==
    \/ LoadResource \/ LoadDma \/ LoadSpi
    \/ \E x \in Texts : Loader(x) \/ BeginPrinted(x)
    \/ \E x \in Texts, base \in {Block, Heap} : Publish(x, base)
    \/ PublishTable \/ Activate \/ BeginLive \/ DrawOn

Spec == SubtitlesInit /\ [][Next]_vars

-----------------------------------------------------------------------------
\* State: slots lie in the arena, counters in their bounds.
TypeOK ==
    /\ world.mem \in [0 .. HostBytes - 1 -> Cells \cup {Nul, Binary}]
    /\ world.ring \in 0 .. RingSlots - 1
    /\ world.top \in ArenaBase + RingSlots * RingBytes .. ArenaEnd
    /\ Len(world.cache) <= CacheCap
    /\ \A e \in DOMAIN Entries :
           world.slot[e] \in {0} \cup ArenaBase + RingSlots * RingBytes .. world.top - 1
    /\ loaded \in BOOLEAN /\ loader \in Texts \cup {-1} /\ live.of \in Texts \cup {-1}
    /\ \A i \in DOMAIN published : published[i].of \in Texts

TextAt(p) == RawText(world.mem, p)

\* What a text says, whatever its layout and on which side of the formatter it is.
Words(t) ==
    LET said == SelectSeq(t, LAMBDA c : c \notin Blank \cup {Code, Arg})
    IN  [i \in DOMAIN said |-> IF said[i] = TilBefore THEN Til ELSE said[i]]
Controls(t) == SelectSeq(t, LAMBDA c : c \in {Code, Arg})
Uncontrolled(t) == SelectSeq(t, LAMBDA c : c \notin {Code, Arg})

OriginalOf ==
    [image \in Image |-> [x \in image.texts |->
        RawText([a \in 0 .. Len(image.cells) - 1 |-> image.cells[a + 1]], x)]]
OriginalAt(x) == OriginalOf[session.image][x]

\* What a text may say: it is cut in pieces, and a piece stays as it is or, if it is
\* a line of the catalogue, is replaced by the whole of its translation.
Readings(text) ==
    LET t == Uncontrolled(text)
        Begins(k) == {e \in DOMAIN Entries : IsPrefix(SourceOf[e], SubSeq(t, k, Len(t)))}
        from[k \in 1 .. Len(t) + 1] ==
            IF k > Len(t) THEN {<<>>}
            ELSE {<<t[k]>> \o rest : rest \in from[k + 1]}
                 \cup UNION {{GlyphsOf[Find(SourceOf[e])] \o rest : rest \in from[k + Len(SourceOf[e])]}
                            : e \in Begins(k)}
    IN  {Words(reading) : reading \in from[1]}

ReadingsOf == [image \in Image |-> [x \in image.texts |-> Readings(OriginalOf[image][x])]]
MaySay(x) == ReadingsOf[session.image][x]

Ended == shown.of # -1 /\ world.mem[shown.at] \in {Nul, Binary}
Cut == shown.of \in Spoken /\ ~ live.whole

\* The texts the game has been given or has drawn to the end.
Delivered == {[of |-> published[i].of, text |-> TextAt(published[i].at)] : i \in DOMAIN published}
          \cup (IF Ended /\ ~ Cut THEN {[of |-> shown.of, text |-> shown.said]} ELSE {})

\* No control is lost or doubled, and one that begins a line of the original begins
\* the same line of a translation with as many lines.
ControlsKept ==
    \A t \in Delivered :
        LET was == OriginalAt(t.of)
            Starts(u) == {Cardinality({j \in 1 .. i : u[j] = Break}) :
                            i \in {k \in DOMAIN u : u[k] = Code /\ (k = 1 \/ u[k - 1] = Break)}}
        IN  /\ Controls(t.text) = Controls(was)
            /\ Breaks(t.text) = Breaks(was) => Starts(was) \subseteq Starts(t.text)

\* A string of one line, not translated in the cartridge already, that is drawn as
\* one line of the catalogue, or composed from its beginning, is cut so that every
\* line that has a space fits the dialogue, whatever controls are in it; what a
\* control itself draws (the protagonist's name) has no width here nor in the code.
LinesFit ==
    Ended /\ ~ Cut =>
        LET was == OriginalAt(shown.of)
            line == Find(Stripped(Uncontrolled(was)))
            burnt == RawText(cart, session.place + shown.of)
        IN  /\ Breaks(was) = 0 /\ Words(burnt) = Words(was)
            /\ \/ line # 0 /\ Words(shown.said) = Words(GlyphsOf[line])
               \/ shown.moved = 0
            => Fits(shown.said)

\* Every text that is published, or drawn character by character while others are
\* loaded, published and translated, is the game's with some of its pieces replaced,
\* each by a whole line of the catalogue: no slot of the arena runs into another or is
\* taken while it is used, no text loses its terminator, its beginning or its end, and
\* the formatter meets no operator that is a glyph.  Of a message that the live buffer
\* cuts, what it has room for is drawn, and is the beginning of such a text.  Controls
\* stay, and the lines of a translation fit.
TextsWhole ==
    /\ TypeOK
    /\ \A t \in Delivered : Words(t.text) \in MaySay(t.of)
    /\ shown.of # -1 => \E reading \in MaySay(shown.of) : IsPrefix(Words(shown.said), reading)
    /\ Ended /\ Cut => Len(shown.said) >= LiveBytes
    /\ ControlsKept
    /\ LinesFit

\* A transfer of whole words, or between two alignments, keeps the console's order.
DmaInOrder ==
    ~ loaded => \A at \in 0 .. 7, n \in 0 .. 9 :
        (SameAlignment(Block, at) => n % 4 = 0) =>
            CopyPi(world.mem, Block, cart, at, n) = Ordered(world.mem, Block, cart, at, n)

\* The cells of a text at x and those behind it that a translation may take: the
\* zeros after it, but for the last, or the whole slot of a label.
SpareOf(image, place, x) ==
    LET end == x + Len(OriginalOf[image][x])
        Zeros(n) == \A o \in end .. end + n - 1 : o < Len(image.cells) => image.cells[o + 1] = Nul
    IN  IF place \in MenuFrom .. MenuTo - 1 /\ x = 0 THEN 0 .. Len(image.cells) - 2
        ELSE x .. end + Max({n \in 0 .. SlackMax : Zeros(n)}) - 2
OwnedOf ==
    [image \in Image |-> [place \in image.places |->
        UNION {SpareOf(image, place, x) : x \in image.texts}]]
Owned == OwnedOf[session.image][session.place]

\* A resource arrives as it is in the cartridge, and everything in it that is no text
\* and no zero to spare behind one stays, in the block and in its copy: binary fields,
\* terminators, the places its strings start at.  Nothing else in low memory changes,
\* wherever a text stands in its resource, the last place of it included.
ResourceKept ==
    LET KeptAt(base) ==
            \A o \in (0 .. Size - 1) \ Owned : world.mem[base + o] = Resource[o + 1]
        Reach(base) == base .. base + Size - 1 \cup {base + o : o \in Owned}
    IN  /\ DmaInOrder
        /\ loaded => KeptAt(Block)
        /\ loader # -1 => KeptAt(Heap)
        /\ \A a \in (0 .. RdramLimit - 1) \ (Reach(Block) \cup Reach(Heap) \cup Live .. Live + LiveBytes - 1) :
               world.mem[a] = EmptyRam[a]

\* The game walks the block and its copy with two cursors that advance by the length
\* of their strings: after the loader both have the same length, unless every string
\* is forced to the arena.
CursorsAgree ==
    [][loader' # loader /\ world.mode < 2 =>
          Len(RawText(world'.mem, Heap + loader')) = Len(RawText(world'.mem, Block + loader'))]_vars
=============================================================================
