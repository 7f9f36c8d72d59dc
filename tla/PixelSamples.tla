---------------------------- MODULE PixelSamples ----------------------------
(***************************************************************************)
(* One pixel of the CPU rasteriser in every buffer of RDRAM, with the      *)
(* host's samples for it: pintar_triangulo_raster keeps a colour and a     *)
(* depth per subsample, so that two triangles that share an edge leave no  *)
(* seam, and the pixel and the depth in RDRAM are what these add up to.    *)
(* The samples belong to one pair of colour and depth buffers.             *)
(***************************************************************************)
EXTENDS Integers, FiniteSets, FiniteSetsExt, Functions

CONSTANTS
    ColourBuffer, DepthBuffer,  \* addresses the game draws to
    Sample,                     \* the subsamples of a pixel (four in the code)
    MaxValue                    \* colours and depths are 0 .. MaxValue

Buffer == ColourBuffer \cup DepthBuffer
Value == 0 .. MaxValue
None == "none"

ASSUME PixelAssumption == Sample # {} /\ IsFiniteSet(Sample) /\ ColourBuffer \cap DepthBuffer = {}

VARIABLES
    cimg, zimg,     \* g_cimg_addr, g_zimg_addr
    mode,           \* g_othermode_l: AA_EN, Z_CMP, Z_UPD
    pixel           \* the pixel in each buffer and the samples (Blank below)

pixelVars == <<cimg, zimg, mode, pixel>>

Same(v) == [s \in Sample |-> v]

\* ram: the pixel in each buffer; owner: g_aa_cimg, g_aa_zimg; cover and
\* zValid: the colours and depths of the samples are valid (g_aa_cobertura,
\* g_aa_z_valida).
Blank == [ram |-> [b \in Buffer |-> 0], owner |-> <<None, None>>,
          cover |-> FALSE, colour |-> Same(0), zValid |-> FALSE, depth |-> Same(0)]
Mode == [aa : BOOLEAN, test : BOOLEAN, write : BOOLEAN]

PixelInit ==
    /\ cimg \in ColourBuffer /\ zimg \in DepthBuffer
    /\ mode = [aa |-> FALSE, test |-> FALSE, write |-> FALSE]
    /\ pixel = Blank

PixelTypeOK ==
    /\ cimg \in Buffer /\ zimg \in DepthBuffer /\ mode \in Mode
    /\ pixel.ram \in [Buffer -> Value]
    /\ pixel.owner \in {<<None, None>>} \cup (Buffer \X DepthBuffer)
    /\ pixel.colour \in [Sample -> Value] /\ pixel.depth \in [Sample -> Value]
    /\ {pixel.cover, pixel.zValid} \subseteq BOOLEAN

\* The pixel in RDRAM is the rounded mean of the samples.
Resolve(c) == (SumFunction(c) + Cardinality(Sample) \div 2) \div Cardinality(Sample)
Nearest(d) == Min(Range(d))

SetColourImage(b) == cimg' = b /\ UNCHANGED <<zimg, mode, pixel>>
SetDepthImage(b) == zimg' = b /\ UNCHANGED <<cimg, mode, pixel>>
SetOtherMode(m) == mode' = m /\ UNCHANGED <<cimg, zimg, pixel>>

Unsampled(p) == [p EXCEPT !.cover = FALSE, !.zValid = FALSE]
Written(p, v) == [p EXCEPT !.ram[cimg] = v]

\* aa_preparar_alvo: samples of other buffers are dropped.
Owned(p) == IF p.owner = <<cimg, zimg>> THEN p ELSE [Unsampled(p) EXCEPT !.owner = <<cimg, zimg>>]

\* pintar_retangulo
Filled(p, v) == Unsampled(Owned(Written(p, v)))
\* limpar_alvo_entrada_3d: the scene 12/50 starts from black.
Cleared(p) == Filled(p, 0)

\* Variant: the pixel keeps the samples it had.
SpriteOverSamples(p, v) == Written(p, v)
\* pintar_texrect, an opaque texel; the owner of the samples is not looked at.
Sprite(p, v) == Unsampled(Written(p, v))

FillRect(v) == pixel' = Filled(pixel, v) /\ UNCHANGED <<cimg, zimg, mode>>
TexRect(v) ==
    /\ cimg \in ColourBuffer
    /\ pixel' = Sprite(pixel, v)
    /\ UNCHANGED <<cimg, zimg, mode>>

-----------------------------------------------------------------------------
(* A triangle of pintar_triangulo_raster at depth z, in colour v.          *)

After(samples, mask, v) == [s \in Sample |-> IF s \in mask THEN v ELSE samples[s]]
UsesDepth == mode.test \/ mode.write

\* AA_EN: the samples of the mask that are not behind take depth and colour;
\* a transparent texel is discovered after the depth is written.
DrawnSamples(p, mask, z, v, opaque) ==
    LET o == Owned(p)
        depths == IF o.zValid THEN o.depth ELSE Same(o.ram[zimg])
        passing == IF mode.test THEN {s \in mask : z <= depths[s]} ELSE mask
        deeper == IF mode.write THEN After(depths, passing, z) ELSE depths
        tested == IF ~UsesDepth THEN o
                  ELSE [o EXCEPT !.zValid = TRUE, !.depth = deeper,
                                 !.ram[zimg] = IF mode.write /\ passing # {} THEN Nearest(deeper) ELSE @]
        under == IF o.cover THEN o.colour ELSE Same(o.ram[cimg])
        colours == After(under, passing, v)
    IN  IF passing # {} /\ opaque
        THEN [tested EXCEPT !.cover = TRUE, !.colour = colours, !.ram[cimg] = Resolve(colours)]
        ELSE tested

\* Without AA_EN: one depth and one colour, and the samples are obsolete once
\* the pixel is written.
DrawnPlain(p, z, v, opaque) ==
    LET passes == ~mode.test \/ z <= p.ram[zimg]
        tested == IF passes /\ mode.write THEN [p EXCEPT !.ram[zimg] = z] ELSE p
    IN  IF passes /\ opaque THEN Unsampled(Written(tested, v)) ELSE tested

Triangle(clears, mask, z, v, opaque) ==
    /\ cimg \in ColourBuffer /\ mask # {}
    /\ LET p == IF clears THEN Cleared(pixel) ELSE pixel
       IN  pixel' = IF mode.aa THEN DrawnSamples(p, mask, z, v, opaque) ELSE DrawnPlain(p, z, v, opaque)
    /\ UNCHANGED <<cimg, zimg, mode>>

-----------------------------------------------------------------------------
\* The colours of the samples are those of the pixel that is shown: no write
\* of any command leaves samples that would bring an old colour back.
ColourCoherent == pixel.cover => pixel.ram[pixel.owner[1]] = Resolve(pixel.colour)
=============================================================================
