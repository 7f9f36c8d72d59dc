----------------------------- MODULE RasterMath -----------------------------
(***************************************************************************)
(* The arithmetic of the CPU rasteriser (rsp.c): texture coordinates,      *)
(* colours, the clipping of triangles, and what each must compute.         *)
(***************************************************************************)
EXTENDS Integers, Sequences, SequencesExt

\* C's division of integers: towards zero.
Div(a, b) == IF a >= 0 THEN a \div b ELSE - ((- a) \div b)
Clamp(v, low, high) == IF v < low THEN low ELSE IF v > high THEN high ELSE v
Abs(v) == IF v < 0 THEN - v ELSE v

-----------------------------------------------------------------------------
(* Texture coordinates.                                                    *)

MaxMask == 10
Mirrors(mode) == mode % 2 = 1
Clamps(mode) == (mode \div 2) % 2 = 1

\* tile_coord: clamp, repeat or mirror one axis of a tile of `size` texels.
TileCoord(v, size, mask, mode) ==
    IF size <= 0 THEN -1
    ELSE IF Clamps(mode) \/ mask = 0 THEN Clamp(v, 0, size - 1)
    ELSE LET period == 2 ^ (IF mask > MaxMask THEN MaxMask ELSE mask)
             back == v % (2 * period)
             texel == IF Mirrors(mode) /\ back >= period THEN 2 * period - 1 - back
                      ELSE v % period
         IN  IF texel >= size THEN size - 1 ELSE texel

\* Which texel of the picture, repeated or turned round for ever, is at v.
Repeated(v, mask, mode) ==
    LET period == 2 ^ mask IN
    CHOOSE m \in 0 .. period - 1 :
        IF Mirrors(mode) THEN (v - m) % (2 * period) = 0 \/ (v + 1 + m) % (2 * period) = 0
        ELSE (v - m) % period = 0

\* texture_aplicar_escala and tile_aplicar_shift, of the coordinate of a vertex.
TextureScale(v, scale) ==
    LET product == v * (IF scale = 0 THEN 65536 ELSE scale)
    IN  Div(IF product >= 0 THEN product + 16384 ELSE product - 16384, 32768)
TileShift(v, shift) == IF shift <= 10 THEN v \div 2 ^ shift ELSE v * 2 ^ (16 - shift)

-----------------------------------------------------------------------------
(* Coverage, in quarters of a pixel: a point is <<x, y>>.                  *)

Area(a, b, c) == (b[1] - a[1]) * (c[2] - a[2]) - (b[2] - a[2]) * (c[1] - a[1])

\* G_CULL_FRONT and G_CULL_BACK; a triangle without area is not drawn either.
Culled(a, b, c, front, back) ==
    LET area == Area(a, b, c) IN area = 0 \/ (front /\ area > 0) \/ (back /\ area < 0)

\* The three weights of pintar_triangulo_raster at a sample or at the centre.
Covers(a, b, c, p) ==
    LET weights == {Area(b, c, p), Area(c, a, p), Area(a, b, c) - Area(b, c, p) - Area(c, a, p)}
    IN  IF Area(a, b, c) > 0 THEN \A w \in weights : w >= 0 ELSE \A w \in weights : w <= 0

-----------------------------------------------------------------------------
(* Colours, one channel of eight bits at a time.                           *)

Expand5(c) == (c * 255) \div 31
Pack5(c) == (c * 31 + 127) \div 255

\* cor_3p_canal8: the triangle of texels that holds the sample.
ThreePoint(a, b, c, d, fs, ft) ==
    Clamp(IF fs + ft < 64
          THEN a + Div(fs * (b - a) + ft * (c - a) + 32, 64)
          ELSE d + Div((64 - fs) * (c - d) + (64 - ft) * (b - d) + 32, 64), 0, 255)

\* pintar_texrect: the square of texels around the sample.
Bilinear(a, b, c, d, fs, ft) ==
    (a * (32 - fs) * (32 - ft) + b * fs * (32 - ft) + c * (32 - fs) * ft + d * fs * ft + 512) \div 1024

\* comb_fonte_abd and comb_fonte_c, on the inputs of one cycle.
SourceABD(sel, in) ==
    CASE sel = 0 -> in.combined [] sel = 1 -> in.texel [] sel = 3 -> in.prim
      [] sel = 4 -> in.shade [] sel = 5 -> in.env [] sel = 6 -> 255 [] OTHER -> 0
SourceC(sel, in) ==
    CASE sel \in {0, 1, 3, 4, 5} -> SourceABD(sel, in)
      [] sel \in {7, 8} -> in.texelAlpha [] sel = 10 -> in.primAlpha
      [] sel = 11 -> in.shadeAlpha [] sel = 12 -> in.envAlpha [] OTHER -> 0

\* comb_ciclo: (A - B) * C + D.
CombineCycle(s, in) ==
    Clamp(Div((SourceABD(s.a, in) - SourceABD(s.b, in)) * SourceC(s.c, in) + 127, 255)
              + SourceABD(s.d, in), 0, 255)

\* comb_aplicar: the second cycle sees what the first one made.
Combine(first, second, in) ==
    CombineCycle(second, [in EXCEPT !.combined = CombineCycle(first, [in EXCEPT !.combined = 0])])

\* The source-over of rdp_blender_source_over.
Over(c, under, alpha) == (c * alpha + under * (255 - alpha) + 127) \div 255

-----------------------------------------------------------------------------
(* Clipping.  A point of the clip space is exact: [x, y, w] divided by u.  *)

CONSTANT NearW      \* the w of the near plane

Gcd[a \in Nat, b \in Nat] == IF b = 0 THEN a ELSE Gcd[b, a % b]
Reduced(p) ==
    LET g == Gcd[Gcd[Abs(p.x), Abs(p.y)], Gcd[Abs(p.w), p.u]]
    IN  [x |-> Div(p.x, g), y |-> Div(p.y, g), w |-> Div(p.w, g), u |-> p.u \div g]

Planes == 0 .. 4

\* distancia_plano_frustum
Distance(p, plane) ==
    CASE plane = 0 -> p.w - NearW * p.u
      [] plane = 1 -> p.x + p.w [] plane = 2 -> p.w - p.x
      [] plane = 3 -> p.y + p.w [] plane = 4 -> p.w - p.y

\* recortar_lerp: where the edge from a to b meets the plane.
Crossing(a, b, plane) ==
    LET da == Abs(Distance(a, plane))
        db == Abs(Distance(b, plane))
    IN  Reduced([x |-> a.x * db + b.x * da, y |-> a.y * db + b.y * da,
                 w |-> a.w * db + b.w * da, u |-> a.u * db + b.u * da])

PolygonCap == 8
\* What one edge adds to the polygon: the crossing, then its end if inside.
EdgeAdds(a, b, plane) ==
    (IF (Distance(a, plane) >= 0) # (Distance(b, plane) >= 0) THEN <<Crossing(a, b, plane)>> ELSE <<>>)
    \o (IF Distance(b, plane) >= 0 THEN <<b>> ELSE <<>>)

\* recortar_plano_frustum, with the bound of its buffer.
ClipPlane(polygon, plane) ==
    LET n == Len(polygon)
        Previous(i) == polygon[IF i = 1 THEN n ELSE i - 1]
        full == FlattenSeq([i \in 1 .. n |-> EdgeAdds(Previous(i), polygon[i], plane)])
    IN  SubSeq(full, 1, IF Len(full) > PolygonCap THEN PolygonCap ELSE Len(full))

\* recortar_frustum_visivel
ClipFrustum(triangle) ==
    LET after[k \in 0 .. 5] ==
            IF k = 0 THEN triangle
            ELSE IF Len(after[k - 1]) < 3 THEN <<>> ELSE ClipPlane(after[k - 1], k - 1)
    IN  after[5]

Inside(p) == \A plane \in Planes : Distance(p, plane) >= 0
=============================================================================
