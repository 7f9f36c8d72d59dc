------------------------------ MODULE Savestate ------------------------------
(***************************************************************************)
(* Savestates of the stateful build: sched_stateful.c asks for them at the *)
(* head of its loop, where no thread is running, and does what the keys    *)
(* (video.c) and the environment asked for.  The world is the guest's RDRAM*)
(* and threads with the devices of RspTasks and others; an image of it     *)
(* goes to a temporary file that is then renamed.  The process can be      *)
(* killed anywhere.                                                        *)
(***************************************************************************)
EXTENDS RspTasks, FiniteSetsExt

CONSTANTS
    Slots,          \* 1 .. 9
    Sessions        \* what is played: the environment (saveAt, delta, loadOnStart, slot
                    \* of WPJ2_STATEFUL_*), the slots whose keys are pressed, what may
                    \* lie in a slot before, the hosts, what the guest writes to
                    \* SP_STATUS and loads, and how long it all lasts (switches,
                    \* outstanding tasks, processes)

ASSUME SaveAssumption == Slots \subseteq Nat \ {0}

\* The parts of the world an image keeps besides the signal processor.
Parts == {"rdram", "threads", "hle", "pif", "audio"}

VARIABLES
    process,
    at,         \* the loop of sched_run_stateful, and where in
                \* snapshot_process_requests it is
    moment,     \* when each part of the world was last changed: g_switches
                \* then, as every dispatch changes all of it
    switches,   \* g_switches
    asked,      \* g_state_save_request, g_state_load_request; 0 is none
    env, auto,  \* the session, and the g_auto_* made of its environment
    files,      \* slotN.wpstate
    tmp,        \* slotN.wpstate.tmp
    saved,      \* history: the image of the last save that succeeded, per slot
    autoLoads   \* history: automatic loads that succeeded in this process

worldVars == <<moment, switches, spVars>>
diskVars == <<files, tmp, saved>>
vars == <<process, at, worldVars, rtVars, asked, env, auto, diskVars, autoLoads>>

\* A file: none, one whose length, header or hash is wrong, one that is right
\* but holds a thread that could not be resumed, or an image.
Absent == [kind |-> "absent", image |-> <<>>]
Torn == [kind |-> "torn", image |-> <<>>]
BadThread == [kind |-> "bad_thread", image |-> <<>>]
Whole(i) == [kind |-> "whole", image |-> <<i>>]

ASSUME SessionAssumption == \A e \in Sessions :
    /\ {e.saveAt, e.delta, e.switches, e.tasks} \subseteq Nat
    /\ e.processes \in Nat \ {0} /\ e.loadOnStart \in BOOLEAN
    /\ e.slot \in Slots /\ e.keys \subseteq Slots
    /\ e.strangers \subseteq {Absent, Torn, BadThread}
    /\ e.hosts \subseteq [wanted : BOOLEAN, window : BOOLEAN]
    /\ e.writes \subseteq [clear : SUBSET Flags, set : SUBSET Flags]
    /\ \A l \in e.loads : l.task \in [type : Types, size : Nat]
    /\ e.turbos \subseteq {"off", "navigation", "replay"}

NoAuto == [ready |-> FALSE, save |-> 0, delta |-> 0, start |-> FALSE, slot |-> 1,
           saveDone |-> FALSE, loadDone |-> FALSE]

TypeOK ==
    /\ RtTypeOK /\ SpTypeOK
    /\ process \in 1 .. env.processes
    /\ at \in {"save", "load", "start", "autosave", "autoload", "guest"}
    /\ moment \in [Parts -> 0 .. env.switches] /\ switches \in 0 .. env.switches
    /\ asked \in [save : Slots \cup {0}, load : Slots \cup {0}]
    /\ \A s \in Slots : files[s].kind \in {"absent", "torn", "bad_thread", "whole"}
    /\ \A s \in Slots : tmp[s].kind \in {"absent", "torn", "whole"}

-----------------------------------------------------------------------------
(* snapshot_save.                                                          *)

\* Every part, the processor, the counters, and what the guest waits for,
\* which its RDRAM holds.
Captured == [moment |-> moment, switches |-> switches, sp |-> SpCaptured, pending |-> pending]

\* What can become of a save: memory or a thread's capture refuses it, the file
\* cannot be written or renamed, it is done, or the process is killed while
\* writing or before the rename.
Outcomes == {"refused", "unwritten", "unrenamed", "done", "killed_writing", "killed_written"}
Killed == {"killed_writing", "killed_written"}

\* Variant: the file is written in place.
SaveInPlace(s, o) ==
    /\ files' = [files EXCEPT ![s] =
            CASE o = "done" -> Whole(Captured)
              [] o = "killed_writing" -> Torn
              [] OTHER -> @]
    /\ UNCHANGED tmp
    /\ saved' = [saved EXCEPT ![s] = IF o = "done" THEN files'[s] ELSE @]

\* The image goes to the temporary file, which takes the slot's name once it
\* is whole and is deleted otherwise.
SaveTo(s, o) ==
    /\ files' = IF o = "done" THEN [files EXCEPT ![s] = Whole(Captured)] ELSE files
    /\ tmp' = [tmp EXCEPT ![s] =
            CASE o = "killed_writing" -> Torn
              [] o = "killed_written" -> Whole(Captured)
              [] o = "refused" -> @
              [] OTHER -> Absent]
    /\ saved' = IF o = "done" THEN [saved EXCEPT ![s] = Whole(Captured)] ELSE saved

-----------------------------------------------------------------------------
(* snapshot_load.                                                          *)

\* The whole file is read and checked, threads included, before the world is
\* touched.
Valid(s) == files[s].kind = "whole"

\* Variant: the devices keep the state of the running world.
RestoreMemory(i) ==
    /\ moment' = [p \in Parts |-> IF p \in {"rdram", "threads"} THEN i.moment[p] ELSE moment[p]]
    /\ switches' = i.switches

\* RDRAM, the slots of the threads and the counters; then the devices.
RestoreWorld(i) ==
    /\ moment' = i.moment
    /\ switches' = i.switches

\* Nothing but the world is restored: fast-forward, the requests and the
\* window go on.
LoadFrom(s) ==
    IF Valid(s)
    THEN LET i == files[s].image[1] IN
         /\ RestoreWorld(i)
         /\ SpRestore(i.sp) /\ pending' = i.pending
         /\ ShutDown
         /\ UNCHANGED <<turbo, phase, lost, dark>>
    ELSE UNCHANGED <<worldVars, rtVars>>

-----------------------------------------------------------------------------
(* snapshot_process_requests, in its order.                                *)

\* A process that begins: boot has run, the environment is still to be read.
Boot ==
    /\ at' = "save"
    /\ moment' = [p \in Parts |-> 0] /\ switches' = 0
    /\ status' = {"halt"} /\ task' = NoTask /\ ring' = EmptyRing
    /\ turbo' = "off" /\ phase' = 0 /\ pending' = <<>> /\ lost' = 0 /\ dark' = 0
    /\ rt' = RtDown /\ bridge' = NoApp /\ late' = FALSE
    /\ asked' = [save |-> 0, load |-> 0] /\ auto' = NoAuto /\ autoLoads' = 0
    /\ process' = process + 1
    /\ UNCHANGED <<host, env>>

\* A save in the loop, after which the process may be gone.
Saving(s, next, newAuto) ==
    \E o \in Outcomes :
        /\ SaveTo(s, o)
        /\ IF o \in Killed
           THEN process < env.processes /\ Boot
           ELSE /\ at' = next
                /\ auto' = newAuto[o = "done"]
                /\ asked' = IF at = "save" THEN [asked EXCEPT !.save = 0] ELSE asked
                /\ UNCHANGED <<process, worldVars, rtVars, env, autoLoads>>

SaveRequest ==
    /\ at = "save"
    /\ IF asked.save # 0
       THEN Saving(asked.save, "load", [ok \in BOOLEAN |-> auto])
       ELSE /\ at' = "load"
            /\ UNCHANGED <<process, worldVars, rtVars, asked, env, auto, diskVars, autoLoads>>

\* Reading the environment follows the two requests of the first pass.
ReadEnv(a) ==
    IF a.ready THEN a
    ELSE [a EXCEPT !.ready = TRUE, !.save = env.saveAt, !.delta = env.delta,
                   !.start = env.loadOnStart, !.slot = env.slot]

LoadRequest ==
    /\ at = "load"
    /\ IF asked.load # 0 THEN LoadFrom(asked.load) ELSE UNCHANGED <<worldVars, rtVars>>
    /\ asked' = [asked EXCEPT !.load = 0]
    /\ auto' = ReadEnv(auto)
    /\ at' = "start"
    /\ UNCHANGED <<process, env, diskVars, autoLoads>>

\* The load on start is tried once, successful or not.
StartLoad ==
    /\ at = "start"
    /\ IF auto.start
       THEN /\ LoadFrom(auto.slot)
            /\ auto' = [auto EXCEPT !.start = FALSE, !.loadDone = Valid(auto.slot)]
            /\ autoLoads' = autoLoads + IF Valid(auto.slot) THEN 1 ELSE 0
       ELSE UNCHANGED <<worldVars, rtVars, auto, autoLoads>>
    /\ at' = "autosave"
    /\ UNCHANGED <<process, asked, env, diskVars>>

\* The automatic save is tried at every pass until it succeeds.
AutoSave ==
    /\ at = "autosave"
    /\ IF ~ auto.saveDone /\ auto.save # 0 /\ switches >= auto.save
       THEN Saving(auto.slot, "autoload", [ok \in BOOLEAN |-> [auto EXCEPT !.saveDone = ok]])
       ELSE /\ at' = "autoload"
            /\ UNCHANGED <<process, worldVars, rtVars, asked, env, auto, diskVars, autoLoads>>

\* Variant: a load that succeeded may be repeated once the counter is there again.
DueAgain == auto.saveDone /\ auto.delta # 0 /\ switches >= auto.save + auto.delta

\* The load is due a number of switches after the save.
Due == auto.saveDone /\ ~ auto.loadDone /\ auto.delta # 0 /\ switches >= auto.save + auto.delta

AutoLoad ==
    /\ at = "autoload"
    /\ IF Due
       THEN /\ LoadFrom(auto.slot)
            /\ auto' = IF Valid(auto.slot)
                       THEN [auto EXCEPT !.loadDone = TRUE, !.save = 0, !.delta = 0] ELSE auto
            /\ autoLoads' = autoLoads + IF Valid(auto.slot) THEN 1 ELSE 0
       ELSE UNCHANGED <<worldVars, rtVars, auto, autoLoads>>
    /\ at' = "guest"
    /\ UNCHANGED <<process, asked, env, diskVars>>

-----------------------------------------------------------------------------
(* The rest of the loop.                                                   *)

\* A dispatch: the thread runs to its yield and changes the world.
Dispatch ==
    /\ at = "guest" /\ switches < env.switches
    /\ switches' = switches + 1
    /\ moment' = [p \in Parts |-> switches + 1]
    /\ at' = "save"
    /\ UNCHANGED <<process, spVars, rtVars, asked, env, auto, diskVars, autoLoads>>

outsideSp == <<process, at, moment, switches, asked, env, auto, diskVars, autoLoads>>

\* What a dispatch may do to the signal processor, and an idle pass or a
\* retrace take from it.
LoadTask ==
    /\ at = "guest"
    /\ \E l \in env.loads : Dma(l.dir, l.sp, 1, l.task)
    /\ UNCHANGED <<outsideSp, rtVars>>

WriteStatus ==
    /\ at = "guest"
    /\ \E w \in env.writes, s \in Starts, d \in Draws :
        /\ "halt" \in w.clear => task # NoTask /\ Len(pending) + lost < env.tasks
        /\ SetStatus(w.clear, w.set, s, d)
    /\ UNCHANGED outsideSp

TakeDone ==
    /\ at = "guest"
    /\ Take
    /\ UNCHANGED <<outsideSp, rtVars>>

Turbo ==
    /\ at = "guest"
    /\ \E t \in env.turbos \ {turbo} : SetTurbo(t)
    /\ UNCHANGED <<outsideSp, rtVars>>

\* Ctrl+Shift+digit and Ctrl+digit: the last one pressed counts.  The window's
\* messages are read while the guest runs.
Press ==
    /\ at = "guest"
    /\ \E s \in env.keys : asked' \in {[asked EXCEPT !.save = s], [asked EXCEPT !.load = s]}
    /\ UNCHANGED <<process, at, worldVars, rtVars, env, auto, diskVars, autoLoads>>

Crash ==
    /\ process < env.processes
    /\ at = "guest"
    /\ Boot
    /\ UNCHANGED diskVars

-----------------------------------------------------------------------------
Init ==
    /\ env \in Sessions /\ auto = NoAuto
    /\ RtInit /\ host \in env.hosts /\ SpInit
    /\ process = 1 /\ at = "save"
    /\ moment = [p \in Parts |-> 0] /\ switches = 0
    /\ asked = [save |-> 0, load |-> 0]
    /\ files \in [Slots -> env.strangers]
    /\ tmp = [s \in Slots |-> Absent] /\ saved = [s \in Slots |-> Absent]
    /\ autoLoads = 0

Next == \/ SaveRequest \/ LoadRequest \/ StartLoad \/ AutoSave \/ AutoLoad
        \/ Dispatch \/ LoadTask \/ WriteStatus \/ TakeDone \/ Turbo \/ Press \/ Crash

Spec == Init /\ [][Next]_vars

-----------------------------------------------------------------------------
(* All the parts of the world belong to one moment, whatever was saved,    *)
(* refused, loaded or found in the file: no load stops half-way and none   *)
(* forgets a device (snapshot_load, "only change the live world once the   *)
(* whole file was validated").                                             *)
OneMoment ==
    /\ TypeOK
    /\ \A p \in Parts : moment[p] = switches

(* A save that was reported as done stays loadable until a later one to    *)
(* the same slot replaces it: a save that fails and a process that is      *)
(* killed while saving take nothing away (snapshot_save).                  *)
LastSaveSurvives == \A s \in Slots : saved[s] # Absent => files[s] = saved[s]

(* An automatic load happens at most once in a process: the counter it     *)
(* sends back does not make it due again (snapshot_process_requests).      *)
AutoLoadOnce == autoLoads <= 1
=============================================================================
