------------------------------- MODULE MCPif -------------------------------
(* Constants for TLC: the real sizes of the PIF's commands.                *)
EXTENDS Pif

CONSTANTS A, Up, x, y, none

Cmd(o, tx, rx, addr, d) == [op |-> o, tx |-> tx, rx |-> rx, addr |-> addr, data |-> d, ans |-> <<"unanswered">>]
Byte(o) == Cmd(o, 0, 0, 0, x)

Read == Cmd("read", 1, 4, 0, x)

\* A game that reads a controller, played live, by a script, by a bookmark.
Playing == [tapes    |-> { << Read, Cmd("other", 1, 1, 0, x), Byte("fill"), Byte("end"), Read >> },
            pads     |-> { <<none, none>>, <<A, none>>, <<A, Up>> },
            outcomes |-> {"whole"}, stress |-> {FALSE}, stateful |-> FALSE,
            processes |-> 2, retraces |-> 2, time |-> 3, polls |-> 3,
            scripts  |-> { NoScripts,
                           PollScript(<< [at |-> 2, b |-> A, s |-> Up], [at |-> 1, b |-> none, s |-> "keep"] >>),
                           MsScript(<< [at |-> 3, b |-> A, s |-> "keep"] >>) }]

\* The same with savestates.
Loading == [Playing EXCEPT !.stateful = TRUE, !.retraces = 1, !.polls = 2,
                                !.pads = { <<none, none>>, <<A, none>> }, !.scripts = {NoScripts}]

\* A bookmark taken while another one is replayed, and replayed in its turn.
Replaying == [Playing EXCEPT !.processes = 3, !.retraces = 1, !.polls = 2,
                             !.pads = { <<none, none>>, <<A, Up>> }]

\* A game that saves: writes and reads of the pack, an address past its end, a
\* second transaction that does not fit on the tape, and the commands that ask
\* for the device, an absent one, or too short an answer.
Saving == [tapes    |-> { << Cmd("info", 1, 3, 0, x), Cmd("pakwrite", 35, 1, 0, y), Byte("end") >>,
                          << Cmd("pakwrite", 35, 1, 3, y), Cmd("pakread", 3, 33, 0, x) >>,
                          << Byte("fill"), Cmd("pakread", 3, 33, 0, x), Byte("end") >>,
                          << Byte("skip"), Read >>,
                          << Cmd("read", 1, 2, 0, x) >>,
                          << Cmd("pakwrite", 35, 1, 0, x), Read >> },
           pads     |-> {},
           outcomes |-> Outcomes, stress |-> BOOLEAN, stateful |-> FALSE,
           processes |-> 2, retraces |-> 0, time |-> 4, polls |-> 2,
           scripts  |-> {NoScripts}]

MCSessions == {Playing, Loading, Replaying, Saving}

=============================================================================
