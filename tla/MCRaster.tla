------------------------------ MODULE MCRaster ------------------------------
(***************************************************************************)
(* The CPU rasteriser for TLC: display lists on a small machine, and the   *)
(* arithmetic over every input of small ranges (`probe`, drawn at Init).   *)
(***************************************************************************)
EXTENDS DisplayList, RasterMath, TextureMemory

VARIABLES
    session,    \* the commands that the lists of this behaviour hold
    probe       \* the input of the arithmetic checked in this behaviour

\* The mosaic's block: four lines of two quadwords, all of the texture memory.
MCMosaic == [addr |-> 1000, bytes |-> 64, dxt |-> 2]

mcVars == <<drawVars, session, probe>>
NoProbe == [kind |-> "none"]

\* What the game's lists hold in one behaviour.
Sessions == { {"matrices"}, {"lights"}, {"calls", "scissor", "texture"},
              {"pixels"}, {"scene", "texture"}, {"probe"} }

\* Axis coordinates and tile modes; blocks; rectangles of an image; triangles
\* of the clip space; texels around a sample; inputs of the combiner.
CoordProbes == [kind : {"coord"}, v : -9 .. 9, size : 1 .. 4, mask : 0 .. 2, mode : 0 .. 3]
BlockProbes == [kind : {"block"}, lrs : {15, 36, 63}, dxt : 1 .. 5, tmem : 0 .. 1, line : 1 .. 2, addr : {0, 1000, 8980},
                siz : 1 .. 2, fmt : {"ci", "rgba"}, scene : Scenes, asked : BOOLEAN]
TileProbes == [kind : {"tile"}, siz : 1 .. 2, uls : 0 .. 1, ult : 0 .. 1, w : 1 .. 4, h : 1 .. 3, tmem : 0 .. 1]
Corner == { [x |-> x, y |-> y, w |-> w, u |-> 1] : x \in {-3, 0, 2}, y \in {-2, 2}, w \in {-1, 1, 2} }
ClipProbes == [kind : {"clip"}, a : Corner, b : Corner, c : Corner]
Spot == (-2 .. 2) \X (-2 .. 2)
QuadProbes == [kind : {"quad"}, a : {<<-2, -2>>, <<-1, -2>>}, b : {<<2, -2>>, <<1, -1>>}, c : {<<2, 2>>, <<0, 2>>},
               d : {<<-2, 1>>, <<-2, 2>>}, p : Spot]
Byte8 == {0, 60, 255}
FilterProbes == [kind : {"filter"}, a : Byte8, b : Byte8, c : Byte8, d : Byte8, fs : {0, 31, 63}, ft : {0, 33, 63}]
CombineProbes == [kind : {"combine"}, a : {1, 3, 4, 6}, c : {1, 3, 4, 5, 7, 8, 10, 11, 12, 13}, d : {1, 3, 4, 5, 7},
                  texel : Byte8, prim : Byte8, shade : Byte8, alpha : Byte8]
Probes == QuadProbes \cup CoordProbes \cup BlockProbes \cup TileProbes \cup ClipProbes \cup FilterProbes \cup CombineProbes

MCInit ==
    /\ session \in Sessions
    /\ probe \in (IF "probe" \in session THEN Probes ELSE {NoProbe})
    /\ DrawInit

Offered(command) == command \in session

\* Steps of DrawNext, of the commands on offer.
MCNext ==
    /\ \/ StartTask(Offered("scene"))
       \/ EndList
       \/ Offered("matrices") /\ ~pushLost /\ Matrices
       \/ Offered("lights") /\ Lights
       \/ Offered("calls") /\ \E s \in Segment, branch \in BOOLEAN : CallList(s, branch)
       \/ Offered("calls") /\ \E s \in Segment, based \in BOOLEAN : SetSegment(s, based)
       \/ Offered("scissor") /\ \E in \in BOOLEAN : SetScissor(in)
       \/ Offered("texture") /\ \E on \in BOOLEAN : SetTexture(on)
       \/ (Offered("pixels") \/ Offered("scene")) /\ (Rectangle \/ SpriteRectangle \/ Triangles)
       \/ Offered("pixels") /\ (Images \/ OtherModes(Mode))
       \/ Offered("scene") /\ OtherModes([aa : {TRUE}, test : {TRUE}, write : {TRUE}])
    /\ ~Offered("probe")
    /\ UNCHANGED <<session, probe>>

MCSpec == MCInit /\ [][MCNext]_mcVars /\ WF_mcVars(Drawing /\ MCNext)

\* Types of the variables.
TypeOK == MtxTypeOK /\ PixelTypeOK /\ ListTypeOK

-----------------------------------------------------------------------------
\* A point of a quadrilateral is drawn by at least one of the two triangles it
\* is cut into, whichever way they are wound, and a point outside by neither:
\* the diagonal leaves no seam.
SeamRight == probe.kind = "quad" =>
    LET Left(a, b) == Area(a, b, probe.p) >= 0
        within == Left(probe.a, probe.b) /\ Left(probe.b, probe.c) /\ Left(probe.c, probe.d) /\ Left(probe.d, probe.a)
        Drawn(a, b, c) == ~Culled(a, b, c, FALSE, FALSE) /\ Covers(a, b, c, probe.p)
    IN  /\ within <=> Drawn(probe.a, probe.b, probe.c) \/ Drawn(probe.a, probe.c, probe.d)
        /\ Drawn(probe.a, probe.b, probe.c) = Drawn(probe.c, probe.b, probe.a)
        /\ Culled(probe.a, probe.b, probe.c, TRUE, FALSE) = ~Culled(probe.a, probe.b, probe.c, FALSE, TRUE)

\* A coordinate picks the nearest texel of a clamped tile, and else the texel
\* the picture shows there when it is repeated or turned round for ever.
CoordRight == probe.kind = "coord" =>
    /\ LET got == TileCoord(probe.v, probe.size, probe.mask, probe.mode)
       IN  IF Clamps(probe.mode) \/ probe.mask = 0
           THEN \A other \in 0 .. probe.size - 1 : Abs(probe.v - got) <= Abs(probe.v - other)
           ELSE got = Min({Repeated(probe.v, probe.mask, probe.mode), probe.size - 1})
    /\ TextureScale(probe.v, 32768) = probe.v
    /\ TextureScale(-probe.v, 40000) = -TextureScale(probe.v, 40000)
    /\ TileShift(TileShift(probe.v, 16 - probe.mask), probe.mask) = probe.v

Image(siz) == [addr |-> 1000, siz |-> siz, width |-> 5]
Palette == [addr |-> 5000, siz |-> 2, width |-> 1]
ByteValue == [b \in 0 .. 9999 |-> b % 4]

\* The block of a probe, clipped at the end of the texture memory, and whether
\* it is the mosaic's.
Clipped(p) == Min({(p.lrs + 1) * p.siz, TmemBytes - 8 * p.tmem})
IsMosaic(p) == p.scene = "mosaic" /\ p.addr = Mosaic.addr /\ p.dxt = Mosaic.dxt /\ Clipped(p) = Mosaic.bytes
Loaded(p) ==
    LoadBlock(EmptyTmem, [tmem |-> p.tmem, line |-> p.line], [addr |-> p.addr, siz |-> p.siz, fmt |-> p.fmt],
              p.lrs, p.dxt, [scene |-> p.scene, interleave |-> TRUE, lines |-> TRUE, ci |-> p.asked, rgba16 |-> p.asked])

\* The block lies in TMEM where its tile says, with the two words of the
\* quadwords in `swapped` exchanged, and nothing else has changed.
Lands(p, swapped) ==
    \A i \in 0 .. TmemBytes - 1 :
        LET n == i - 8 * p.tmem
            q == n \div 8
            from == IF q \in swapped /\ 8 * q + 7 < Clipped(p) THEN 8 * q + ((n + 4) % 8) ELSE n
        IN  Loaded(p)[i] = IF n \in 0 .. Clipped(p) - 1 THEN p.addr + from ELSE Unloaded

\* A block outside RDRAM changes nothing. In the corridor the two words of a
\* quadword are swapped exactly when its row, counted in steps of DXT, is odd;
\* in the mosaic when its line, counted in bytes, is the second or third of
\* four (not the second and fourth: OddLinesSwapped); elsewhere none is.
BlockRight == probe.kind = "block" =>
    LET placed == probe.addr # 0 /\ probe.addr + (probe.lrs + 1) * probe.siz <= RdramBytes
        banked == /\ probe.scene = "corridor"
                  /\ probe.fmt = "ci" \/ probe.siz = 2 => probe.asked
        quadwords == 0 .. TmemBytes \div 8
    IN  IF ~placed THEN Loaded(probe) = EmptyTmem
        ELSE Lands(probe, IF banked THEN {q \in quadwords : ((q * probe.dxt) \div DxtCarry) % 2 = 1}
                          ELSE IF IsMosaic(probe) THEN {q \in quadwords : (q \div probe.line) % 4 \in {1, 2}}
                          ELSE {})

\* What the console does with the mosaic, as the comment at rsp.c:1621 has it:
\* the words of every quadword of the odd lines are swapped, of no other line.
OddLinesSwapped ==
    probe.kind = "block" /\ IsMosaic(probe) /\ probe.line = DxtCarry \div Mosaic.dxt =>
        Lands(probe, {q \in 0 .. TmemBytes \div 8 : (q \div probe.line) % 2 = 1})

\* The texel (s, t) of a tile loaded from a rectangle of an image is that of
\* the image, through the palette when there is one.
TileRight == probe.kind = "tile" =>
    LET image == Image(probe.siz)
        tile == [tmem |-> probe.tmem, line |-> 1, siz |-> probe.siz, ci |-> probe.siz = 1, palette |-> 0]
        palette == LoadTlut(EmptyTmem, [tmem |-> PaletteBase \div 8], Palette, 3)
        tmem == LoadTile(palette, tile, image, probe.uls, probe.ult,
                         probe.uls + probe.w - 1, probe.ult + probe.h - 1)
        Source(s, t) == 1000 + ((probe.ult + t) * 5 + probe.uls + s) * probe.siz
    IN  \A s \in 0 .. probe.w - 1, t \in 0 .. probe.h - 1 :
            LET b == IF tile.ci THEN 5000 + 2 * ByteValue[Source(s, t)] ELSE Source(s, t)
            IN  Texel(tmem, tile, s, t, ByteValue) = <<b, b + 1>>

\* carregar_bloco, carregar_tile, carregar_tlut, texel and tile_coord agree
\* on the layout of the texture memory and of a tile.
TextureRight == CoordRight /\ BlockRight /\ TileRight

\* What is left of a triangle lies inside the frustum, keeps every corner
\* that was inside, and never needs more than the eight vertices it has.
ClippedRight == probe.kind = "clip" =>
    LET triangle == <<probe.a, probe.b, probe.c>>
        got == ClipFrustum(triangle)
    IN  /\ Len(got) <= PolygonCap
        /\ \A i \in 1 .. Len(got) : Inside(got[i])
        /\ \A i \in 1 .. 3 : Inside(triangle[i]) => \E j \in 1 .. Len(got) : got[j] = triangle[i]

\* recortar_frustum_visivel and the coverage of pintar_triangulo_raster.
ShapeRight == ClippedRight /\ SeamRight

\* A filtered channel stays between the texels it is made of, and at a
\* texel's own place it is that texel.
FilterRight == probe.kind = "filter" =>
    LET half == IF probe.fs + probe.ft < 64 THEN {probe.a, probe.b, probe.c} ELSE {probe.b, probe.c, probe.d}
        three == ThreePoint(probe.a, probe.b, probe.c, probe.d, probe.fs, probe.ft)
        four == Bilinear(probe.a, probe.b, probe.c, probe.d, probe.fs \div 2, probe.ft \div 2)
        all == half \cup {probe.a, probe.d}
    IN  /\ three \in Min(half) .. Max(half) /\ four \in Min(all) .. Max(all)
        /\ probe.fs = 0 /\ probe.ft = 0 => three = probe.a /\ four = probe.a
        /\ \A c \in 0 .. 31 : Pack5(Expand5(c)) = c /\ Over(c, 31 - c, 255) = c /\ Over(c, 31 - c, 0) = 31 - c

\* (A - D) * C + D runs from D to A as C goes from 0 to 255, give or take
\* the rounding of a negative product, and a second cycle that passes the
\* first one on changes nothing.
CombineRight == probe.kind = "combine" =>
    LET in == [combined |-> 99, texel |-> probe.texel, prim |-> probe.prim, shade |-> probe.shade,
               env |-> 255 - probe.prim, texelAlpha |-> probe.alpha, primAlpha |-> probe.prim,
               shadeAlpha |-> probe.alpha, envAlpha |-> 255 - probe.alpha]
        first == [a |-> probe.a, b |-> probe.d, c |-> probe.c, d |-> probe.d]
        got == Combine(first, [a |-> 7, b |-> 7, c |-> 13, d |-> 0], in)
        a == SourceABD(probe.a, in)
        d == SourceABD(probe.d, in)
    IN  /\ got \in Min({a, d}) .. Max({a, d})
        /\ SourceC(probe.c, in) = 255 => Abs(got - a) <= 1
        /\ SourceC(probe.c, in) = 0 => got = d

\* cor_3p_canal8, the four-texel filter of pintar_texrect, the blender and
\* comb_aplicar.
ColourRight == FilterRight /\ CombineRight

\* What the rasteriser computes is what the console's texture memory, clipper,
\* rasteriser and blender do, but for the lines of the mosaic.
ArithmeticRight == TextureRight /\ ShapeRight /\ ColourRight
=============================================================================
