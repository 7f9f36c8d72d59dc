------------------------------- MODULE MCTexts -------------------------------
(* An instance of Subtitles: six resources and a catalogue of ten lines.  *)
EXTENDS Subtitles

MCLetters == {"a", "b", "d", "e", "i", ":", "T", "P"}
MCWidth == [c \in MCLetters \cup {Space} |-> 1]
MCAccent == ATilde :> "T" @@ "É" :> "e"

Line(s, t) == [source |-> s, translated |-> t]

MCLines == <<
    Line(<<"d", "a">>, <<"d", "i", "a">>),
    Line(<<"b", "e">>, <<"i", ATilde, "i">>),
    Line(<<>>, <<"a">>),
    Line(<<"a", "b", "i", "d">>, <<"d", "e", ATilde, "a">>),
    Line(<<"d", "a", "n", "b", "e">>, <<"i", "i", "i", "n", "É", "a">>),
    Line(<<"e", "a", "s">>, <<"e", "d", "i">>),
    Line(<<"a", "a", "b", "d">>, <<"b", "b", "a">>),
    Line(<<"a", "s", "b">>, <<"b", "b", "s", "a", "a", "s", "i">>),
    Line(<<"a", "b", "s", "i", "d">>, <<"d", "e", "s", ATilde, "a">>),
    Line(<<"d", "d">>, <<"a">>) >>

\* Printed strings: one grows into its zeros, one has no room, one is long enough
\* for the cartridge, one is cut into lines, and so is one with a control in it.
Labels == [cells |-> <<"#", "d", "a", "0", "0", "0", "b", "e", "0", "a", "a", "b", "d", "0",
                       "a", "s", "b", "0", "0", "#", "a", "c", "g", "s", "b", "0", "#", "#">>,
           places |-> {4, 18}, texts |-> {1, 6, 9, 14, 20}, spoken |-> {}]

\* A label in its slot of the menu, and a text at the end of its resource.
Menu == [cells |-> <<"b", "e", "0", "0">>, places |-> {0}, texts |-> {0}, spoken |-> {}]
LastText == [cells |-> <<"#", "a", "s", "b", "0">>, places |-> {18}, texts |-> {1}, spoken |-> {}]

\* Spoken strings with controls, at the beginning of a line and inside one.
Speech == [cells |-> <<"#", "d", "a", "n", "c", "g", "b", "e", "0", "0", "b", "c", "g", "e", "0", "#">>,
           places |-> {18}, texts |-> {1, 10}, spoken |-> {1, 10}]

\* Spoken strings without: one is translated where it is, one has no room.
Plain == [cells |-> <<"#", "a", "b", "i", "d", "0", "b", "e", "0", "#", "#", "#">>,
          places |-> {4}, texts |-> {1, 6}, spoken |-> {1, 6}]

\* A message the catalogue has in fragments, around a name and a control.
Message == [cells |-> <<"#", "e", "a", "s", "c", "g", "d", "a", "n", "a", "a", "b", "d", "0", "0", "#">>,
            places |-> {18}, texts |-> {1}, spoken |-> {}]

MCImage == {Labels, Menu, LastText, Speech, Plain, Message}
MCExact == << [at |-> 0, source |-> <<"b", "e">>], [at |-> 5, source |-> <<"d", "a">>] >>
=============================================================================
