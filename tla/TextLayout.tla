----------------------------- MODULE TextLayout -----------------------------
(***************************************************************************)
(* Where legendas.c breaks the lines of a translated message.  A text is a *)
(* sequence of letters, spaces, breaks and controls (a code and its        *)
(* argument, which draw nothing); a letter is named by a string and has a  *)
(* width.                                                                  *)
(***************************************************************************)
EXTENDS Naturals, Sequences, SequencesExt

CONSTANTS
    LineWidth,      \* DIALOG_LINE_PIXELS
    Letters,        \* the printable bytes, without the space
    Width           \* dialogue_byte_width

Space == "s"
Break == "n"
Return == "r"
Code == "c"         \* E0, E1, E2
Arg == "g"          \* what follows a code

Printable == Letters \cup {Space}
Cells == Printable \cup {Break, Return, Code, Arg}

ASSUME LayoutAssumption ==
    /\ LineWidth \in Nat
    /\ Width \in [Printable -> Nat \ {0}]
    /\ Letters \cap {Space, Break, Return, Code, Arg} = {}

\* A control has no width, E0 included, which draws the protagonist's name: the code
\* counts on the game having put the name in its place already (legendas.c:2731), or
\* keeps the control where it is (legendas.c:133), and measures neither.
CellWidth(c) == IF c \in Printable THEN Width[c] ELSE 0
TextWidth(t, from, to) ==
    FoldFunctionOnSet(+, 0, [i \in DOMAIN t |-> CellWidth(t[i])], from .. to)

Has(t, c) == \E i \in DOMAIN t : t[i] = c
LastSpace(t, from, to) == Max({0} \cup {i \in from .. to : t[i] = Space})

\* Where the line that starts at `from` ends: the next break, or past the end.
LineEnd(t, from) == Min({i \in from .. Len(t) : t[i] = Break} \cup {Len(t) + 1})

\* legendas_ajustar_quebra_automatica: in a text without breaks, the last space
\* before a line overflows becomes one; what follows is measured again.
Wrap(t) ==
    LET after[i \in 0 .. Len(t)] ==
            IF i = 0 THEN [text |-> t, start |-> 1, space |-> 0, pixels |-> 0]
            ELSE LET p == after[i - 1]
                     space == IF t[i] = Space THEN i ELSE p.space
                     pixels == p.pixels + CellWidth(t[i])
                 IN  IF pixels <= LineWidth \/ space = 0
                     THEN [p EXCEPT !.space = space, !.pixels = pixels]
                     ELSE [text |-> [p.text EXCEPT ![space] = Break], start |-> space + 1,
                           space |-> LastSpace(t, space + 1, i),
                           pixels |-> TextWidth(t, space + 1, i)]
    IN  IF Has(t, Break) \/ Has(t, Return) THEN t ELSE after[Len(t)].text

\* reflow_dialogue_composto, first half: no returns, no spaces before a break.
Trim(t) ==
    LET Kept(i) == t[i] # Return
                   /\ ~ (t[i] = Space /\ \E j \in i + 1 .. Len(t) : t[j] = Break
                            /\ \A k \in i + 1 .. j - 1 : t[k] \in {Space, Return})
    IN  [i \in 1 .. Cardinality({j \in DOMAIN t : Kept(j)}) |->
            t[CHOOSE j \in DOMAIN t : Kept(j) /\ Cardinality({k \in 1 .. j : Kept(k)}) = i]]

\* The space at which a line that overflows is broken, 0 when it is not: the
\* last one at the time when the line, with a space seen, is too wide.
Overflow(t, from, to) ==
    LET late == {i \in from .. to : TextWidth(t, from, i) > LineWidth /\ LastSpace(t, from, i) # 0}
    IN  IF late = {} THEN 0 ELSE LastSpace(t, from, Min(late))

\* reflow_dialogue_composto, second half: the break of a line that overflows
\* moves to the space; a break that ends the text is not a line to use.
Reflow(t) ==
    LET after[k \in 0 .. Len(t)] ==
            IF k = 0 THEN [text |-> Trim(t), start |-> 1]
            ELSE LET p == after[k - 1]
                     end == LineEnd(p.text, p.start)
                     at == Overflow(p.text, p.start, end - 1)
                 IN  IF p.start > Len(p.text) THEN p
                     ELSE IF at = 0 THEN [p EXCEPT !.start = end + 1]
                     ELSE IF end = Len(p.text) THEN [p EXCEPT !.start = end + 1]
                     ELSE [text |-> [i \in DOMAIN p.text |->
                                        IF i = at THEN Break ELSE IF i = end THEN Space ELSE p.text[i]],
                           start |-> at + 1]
    IN  after[Len(t)].text

-----------------------------------------------------------------------------
(* What a layout must do, independently of how.                            *)

\* Every line fits, or has no space to break at.
Fits(t) ==
    \A i \in DOMAIN t :
        i = 1 \/ t[i - 1] = Break =>
            LET end == LineEnd(t, i) - 1
            IN  TextWidth(t, i, end) <= LineWidth \/ LastSpace(t, i, end) = 0

Blank == {Space, Break, Return}

\* The same words and controls in the same order.
SameWords(t, u) ==
    SelectSeq(t, LAMBDA c : c \notin Blank) = SelectSeq(u, LAMBDA c : c \notin Blank)

Breaks(t) == Cardinality({i \in DOMAIN t : t[i] = Break})
=============================================================================
