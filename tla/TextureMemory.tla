--------------------------- MODULE TextureMemory ---------------------------
(***************************************************************************)
(* The texture memory of the RDP as rsp.c keeps it: what the three load    *)
(* commands put there and what a sample of a tile reads back.  A byte is   *)
(* named by where it comes from; TmemBytes and PaletteBase are 0x1000 and  *)
(* 0x800 in the code.                                                      *)
(***************************************************************************)
EXTENDS Integers, Sequences, FiniteSetsExt

CONSTANTS
    TmemBytes, PaletteBase, DxtCarry,
    RdramBytes,     \* the size of RDRAM
    Mosaic          \* the block of the mosaic of scene 8/1: [addr, bytes, dxt]

ASSUME TmemAssumption ==
    /\ TmemBytes \in Nat /\ PaletteBase \in 0 .. TmemBytes
    /\ DxtCarry \in Nat \ {0} /\ RdramBytes \in Nat

\* The switches of the environment (interleave, ci, rgba16, lines) and the
\* scene that two words of RDRAM name.
Scenes == {"corridor", "mosaic", "other"}

Byte(addr) == addr            \* what RDRAM holds at an address
Unloaded == -1
EmptyTmem == [i \in 0 .. TmemBytes - 1 |-> Unloaded]

\* A range of bytes of TMEM takes those of RDRAM; past the end nothing.
Copied(tmem, dst, src, n) ==
    [i \in DOMAIN tmem |-> IF i \in dst .. dst + n - 1 THEN Byte(src + i - dst) ELSE tmem[i]]

SwapWords(tmem, first, count) ==
    [i \in DOMAIN tmem |->
        LET k == (i - first) \div 8 IN
        IF i >= first /\ k < count /\ first + 8 * k + 7 < TmemBytes
        THEN tmem[first + 8 * k + (((i - first - 8 * k) + 4) % 8)] ELSE tmem[i]]

\* Variant: the counter is advanced before the first row ends.
OddRowsEarly(qwords, dxt) == {k \in 0 .. qwords - 1 : (((k + 1) * dxt) \div DxtCarry) % 2 = 1}

\* carregar_bloco's two loops: runs of qwords whose counter carries a 1.
OddRows(qwords, dxt) ==
    LET after[k \in 0 .. qwords] ==
            IF k = 0 THEN [counter |-> 0, odd |-> {}]
            ELSE LET p == after[k - 1]
                     here == (p.counter \div DxtCarry) % 2 = 1
                 IN  [counter |-> p.counter + dxt,
                      odd |-> IF here THEN p.odd \cup {k - 1} ELSE p.odd]
    IN  after[qwords].odd

\* tmem_intercalar_qwords over those runs.
Interleaved(tmem, dst, qwords, dxt) ==
    LET odd == OddRows(qwords, dxt) IN
    [i \in DOMAIN tmem |->
        IF i >= dst /\ (i - dst) \div 8 \in odd
        THEN SwapWords(tmem, dst + 8 * ((i - dst) \div 8), 1)[i] ELSE tmem[i]]

\* tmem_intercalar_ci8_linhas: the inner loop runs from every odd line to the
\* end of the block, not of the line, so a quadword is swapped once for every
\* odd line that begins at or before it.
InterleavedLines(tmem, dst, bytes, lineBytes) ==
    IF lineBytes < 8 THEN tmem
    ELSE [i \in DOMAIN tmem |->
            LET word == dst + 8 * ((i - dst) \div 8)
                passes == {line \in 1 .. bytes : /\ line % 2 = 1 /\ line * lineBytes < bytes
                                                 /\ dst + line * lineBytes <= word}
            IN  IF i >= dst /\ word + 7 < dst + bytes /\ word + 7 < TmemBytes /\ Cardinality(passes) % 2 = 1
                THEN SwapWords(tmem, word, 1)[i] ELSE tmem[i]]

\* The CI8 block of the mosaic, by its scene, its address and its shape.
OfMosaic(image, bytes, dxt, env) ==
    env.scene = "mosaic" /\ [addr |-> image.addr, bytes |-> bytes, dxt |-> dxt] = Mosaic

\* The corridor interleaves every block with a DXT, those of indices and of
\* 16-bit colours only if asked to.
InBanks(image, dxt, env) ==
    /\ env.scene = "corridor" /\ env.interleave /\ dxt > 0
    /\ image.fmt = "ci" => env.ci
    /\ image.fmt = "rgba" /\ image.siz = 2 => env.rgba16

\* carregar_bloco: the size of a texel is 2^siz nibbles.
LoadBlock(tmem, tile, image, lrs, dxt, env) ==
    LET bytes == ((lrs + 1) * 2 ^ (image.siz + 2)) \div 8
        dst == tile.tmem * 8
        fits == IF dst + bytes > TmemBytes THEN TmemBytes - dst ELSE bytes
        plain == Copied(tmem, dst, image.addr, fits)
        refused == \/ dst >= TmemBytes \/ bytes = 0
                   \/ image.addr = 0 \/ image.addr + bytes > RdramBytes
    IN  IF refused THEN tmem
        ELSE IF OfMosaic(image, fits, dxt, env) /\ env.lines
        THEN InterleavedLines(plain, dst, fits, tile.line * 8)
        ELSE IF InBanks(image, dxt, env) THEN Interleaved(plain, dst, fits \div 8, dxt)
        ELSE plain

\* carregar_tile: the rows of a rectangle of the image, at the tile's stride,
\* until one does not fit.  Corners are whole texels here.
LoadTile(tmem, tile, image, uls, ult, lrs, lrt) ==
    LET size == 2 ^ (image.siz - 1)
        row == (lrs - uls + 1) * size
        stride == IF tile.line = 0 THEN row ELSE tile.line * 8
        base == tile.tmem * 8
        Start(y) == base + y * stride
        whole == {y \in 0 .. lrt - ult : \A z \in 0 .. y : Start(z) < TmemBytes
                                            /\ (z < y => Start(z) + row <= TmemBytes)}
    IN  IF image.siz = 0 \/ lrs < uls \/ lrt < ult \/ base >= TmemBytes THEN tmem
        ELSE [i \in DOMAIN tmem |->
                LET rows == {y \in whole : i \in Start(y) .. Start(y) + row - 1} IN
                IF rows = {} THEN tmem[i]
                ELSE LET y == Max(rows)
                     IN  Byte(image.addr + ((ult + y) * image.width + uls) * size + i - Start(y))]

\* carregar_tlut: entries of two bytes.
LoadTlut(tmem, tile, image, count) ==
    LET dst == tile.tmem * 8
        entries == {i \in 0 .. count : dst + 2 * i + 1 < TmemBytes}
    IN  Copied(tmem, dst, image.addr, IF entries = {} THEN 0 ELSE 2 * (Max(entries) + 1))

NoTexel == <<>>
Pair(tmem, p) == IF p + 1 >= TmemBytes THEN NoTexel ELSE <<tmem[p], tmem[p + 1]>>

\* texel: the two bytes of the colour; value is the number each byte holds.
Texel(tmem, tile, s, t, value) ==
    LET line == tile.tmem * 8 + t * tile.line * 8 IN
    CASE tile.ci /\ tile.siz = 0 ->
            IF line + s \div 2 >= TmemBytes THEN NoTexel
            ELSE LET b == value[tmem[line + s \div 2]]
                     index == IF s % 2 = 1 THEN b % 16 ELSE b \div 16
                 IN  Pair(tmem, PaletteBase + (tile.palette * 16 + index) * 2)
      [] tile.ci /\ tile.siz = 1 ->
            IF line + s >= TmemBytes THEN NoTexel
            ELSE Pair(tmem, PaletteBase + value[tmem[line + s]] * 2)
      [] tile.siz = 2 -> Pair(tmem, line + s * 2)
      [] OTHER -> NoTexel
=============================================================================
