------------------------------ MODULE Catalogue ------------------------------
(***************************************************************************)
(* The catalogue of legendas.c: the English strings, their translations,   *)
(* how a translation is written with the glyphs of the game, and how a     *)
(* string is looked up.                                                    *)
(***************************************************************************)
EXTENDS TextLayout

CONSTANTS
    Lines,          \* the lines of the file: [source, translated]
    Accent,         \* an accented letter |-> the glyph it is written with
    Til,            \* the glyph of a-tilde, which is also the formatter's operator
    TilBefore,      \* what stands for it before the formatter
    KeyBytes,       \* 4, the bytes a bucket is chosen by
    MaxEntries, MaxText

Nul == "0"
ATilde == "ã"

Characters == Printable \cup {Break, Return}

\* The texts of the file hold no control, and every glyph is a letter.
ASSUME CatalogueAssumption ==
    /\ Accent[ATilde] = Til
    /\ {KeyBytes, MaxEntries, MaxText} \subseteq Nat
    /\ Nul \notin Letters /\ {Til, TilBefore} \subseteq Letters
    /\ Accent \in [DOMAIN Accent -> Letters]
    /\ Lines \in Seq([source : Seq(Characters), translated : Seq(Characters \cup DOMAIN Accent)])

\* init_once: lines without a source, without a translation or too long are skipped.
Usable(l) == l.source # <<>> /\ l.translated # <<>> /\ Len(l.source) <= MaxText

Entries ==
    LET after[k \in 0 .. Len(Lines)] ==
            IF k = 0 THEN <<>>
            ELSE IF Usable(Lines[k]) /\ Len(after[k - 1]) < MaxEntries
            THEN Append(after[k - 1], Lines[k]) ELSE after[k - 1]
    IN  after[Len(Lines)]

Fold(c) == IF c \in DOMAIN Accent THEN Accent[c] ELSE c

Encode(t) == [i \in DOMAIN t |-> Fold(t[i])]

EncodeBefore(t) == [i \in DOMAIN t |-> IF t[i] = ATilde THEN TilBefore ELSE Fold(t[i])]

\* A translation with an a-tilde does not go to the cartridge.
Collides(t) == Has(t, ATilde)

EncodeFixed(t, size) ==
    LET glyphs == Encode(t)
    IN  [i \in 1 .. size |-> IF i <= Len(glyphs) THEN glyphs[i] ELSE Space]

KeyOf(t) == SubSeq(t, 1, IF Len(t) < KeyBytes THEN Len(t) ELSE KeyBytes)

\* Of two lines with one source, the later one is found.
Find(t) == Max({0} \cup {e \in DOMAIN Entries : Entries[e].source = t})
FindTranslated(t) == Max({0} \cup {e \in DOMAIN Entries : Encode(Entries[e].translated) = t})

\* The longest form that t starts with, in the bucket of t.
LongestPrefix(t, form) ==
    LET match == {e \in DOMAIN Entries : /\ KeyOf(form[e]) = KeyOf(t)
                                         /\ IsPrefix(form[e], t)}
        longest == {e \in match : \A f \in match : Len(form[f]) <= Len(form[e])}
    IN  Max({0} \cup longest)

SourceOf == [e \in DOMAIN Entries |-> Entries[e].source]
GlyphsOf == [e \in DOMAIN Entries |-> Encode(Entries[e].translated)]
=============================================================================
