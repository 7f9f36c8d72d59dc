----------------------------- MODULE MCSavestate -----------------------------
(* Constants for TLC.                                                      *)
EXTENDS Savestate

Gfx(size) == [type |-> 1, size |-> size]
Audio == [type |-> 2, size |-> 1]
ToSp(t) == [dir |-> 1, sp |-> 0, task |-> t]

\* osSpTaskLoad, osSpTaskStartGo, osSpTaskYield.
Load == [clear |-> {"sig", "broke"}, set |-> {"intr"}]
Go == [clear |-> {"halt", "broke"}, set |-> {}]
Yield == [clear |-> {}, set |-> {"sig"}]

AnyHost == [wanted : BOOLEAN, window : BOOLEAN]
Gpu == [wanted |-> TRUE, window |-> TRUE]

\* The renderer and fast-forward, with a save and its loads between lists.
Drawing == [saveAt |-> 0, delta |-> 0, loadOnStart |-> FALSE, slot |-> 1,
            keys |-> {1}, strangers |-> {Absent}, hosts |-> AnyHost,
            writes |-> {Go}, turbos |-> {"off", "navigation", "replay"},
            loads |-> {ToSp(Gfx(0)), ToSp(Gfx(1))},
            switches |-> 1, tasks |-> 1, processes |-> 1]

\* More tasks than the ring has room for, saved and loaded.
Crowded == [Drawing EXCEPT !.hosts = {[Gpu EXCEPT !.wanted = FALSE]}, !.turbos = {"off"}, !.tasks = 3,
                           !.loads = {ToSp(Gfx(1)), ToSp(Audio)}]

\* Every write of SP_STATUS and every copy, without saves.
Writing == [Crowded EXCEPT !.keys = {}, !.writes = {Load, Go, Yield},
                           !.loads = {ToSp(Gfx(1)), ToSp(Audio), [dir |-> 0, sp |-> 0, task |-> Audio],
                                      [dir |-> 1, sp |-> SpmemSize, task |-> Gfx(0)]}]

\* Saves and loads by hand and by the environment, files of every kind, kills.
Saves == [Drawing EXCEPT !.hosts = {Gpu}, !.turbos = {"off"}, !.writes = {Go}, !.loads = {},
                         !.keys = Slots, !.strangers = {Absent, Torn, BadThread},
                         !.switches = 3, !.processes = 2]

MCSessions ==
    {Drawing, Crowded, Writing}
    \cup {[Saves EXCEPT !.saveAt = a, !.delta = 1, !.loadOnStart = l] : a \in {0, 1}, l \in BOOLEAN}
=============================================================================
