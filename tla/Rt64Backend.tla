----------------------------- MODULE Rt64Backend -----------------------------
(***************************************************************************)
(* The GPU renderer: rt64_backend.c, which loads a bridge DLL when the     *)
(* first display list arrives, and the bridge itself.  Everything is       *)
(* synchronous: a list is drawn when the call returns.  What the module    *)
(* follows is when the backend exists, when the CPU rasteriser replaces    *)
(* it, and whether the time its preparation takes is kept out of the       *)
(* console's clock (hle_clock_resync).                                     *)
(***************************************************************************)
EXTENDS Naturals

VARIABLES
    host,       \* of the process: RT64 is wanted, there is a window
    rt,         \* g_rt64_attempted, g_rt64_active, g_rt64_first_submit
    bridge,     \* the DLL: g_app, and whether a list has filled its caches
    late        \* the console's clock is behind by a preparation of the host

rtVars == <<host, rt, bridge, late>>

RtDown == [attempted |-> FALSE, active |-> FALSE, first |-> TRUE]
NoApp == [app |-> FALSE, warm |-> FALSE]

RtTypeOK ==
    /\ host \in [wanted : BOOLEAN, window : BOOLEAN]
    /\ rt \in [attempted : BOOLEAN, active : BOOLEAN, first : BOOLEAN]
    /\ bridge \in [app : BOOLEAN, warm : BOOLEAN]
    /\ late \in BOOLEAN

RtInit ==
    /\ host \in [wanted : BOOLEAN, window : BOOLEAN]
    /\ rt = RtDown /\ bridge = NoApp
    /\ late = FALSE

\* What a start or a submission finds: the DLL, its exports and the device are
\* there or not, and the renderer takes the list or throws.
Starts == {"up", "no_module", "no_device"}
Draws == {"drawn", "thrown"}

-----------------------------------------------------------------------------
(* The bridge.                                                             *)

\* wpj2_rt64_init: the device is set up, or nothing is kept.
BridgeInit(s) ==
    IF bridge.app THEN bridge ELSE [app |-> s = "up", warm |-> FALSE]

\* wpj2_rt64_submit takes a list unless it is empty or the renderer throws.
BridgeTakes(app, d, size) == app /\ size # 0 /\ d = "drawn"

\* wpj2_rt64_shutdown.
BridgeShutdown == NoApp

-----------------------------------------------------------------------------
(* The backend.                                                            *)

\* Variant: the next renderer's first list counts as an ordinary one.
ShutdownKeepsFirst == [rt |-> [RtDown EXCEPT !.first = rt.first], bridge |-> BridgeShutdown]

\* rt64_backend_shutdown.
Shutdown == [rt |-> RtDown, bridge |-> BridgeShutdown]

Tried == [rt |-> [rt EXCEPT !.attempted = TRUE], bridge |-> bridge, late |-> late]

\* rt64_backend_start: one attempt until the next shutdown.  Creating the
\* device takes time whether it succeeds or not; only success resyncs.
Start(s) ==
    IF rt.attempted \/ ~ host.window \/ s = "no_module" THEN Tried
    ELSE IF ~ BridgeInit(s).app THEN [Tried EXCEPT !.late = TRUE]
    ELSE [rt |-> [rt EXCEPT !.attempted = TRUE, !.active = TRUE],
          bridge |-> BridgeInit(s), late |-> FALSE]

\* The list is drawn, and an app's first one builds its caches; the backend's
\* first one resyncs.
Drawn(at) ==
    [rt |-> [at.rt EXCEPT !.first = FALSE],
     bridge |-> [app |-> TRUE, warm |-> TRUE],
     late |-> (at.late \/ ~ at.bridge.warm) /\ ~ at.rt.first]

\* rt64_backend_submit: who draws the list, and what is left behind.
Submit(s, d, size) ==
    LET at == IF rt.active THEN Tried ELSE Start(s)
    IN  IF ~ host.wanted
        THEN UNCHANGED rtVars
        ELSE IF ~ at.rt.active
        THEN /\ rt' = at.rt /\ late' = at.late
             /\ UNCHANGED <<host, bridge>>
        ELSE IF ~ BridgeTakes(at.bridge.app, d, size)
        THEN /\ rt' = Shutdown.rt /\ bridge' = Shutdown.bridge
             /\ late' = at.late
             /\ UNCHANGED host
        ELSE /\ rt' = Drawn(at).rt /\ bridge' = Drawn(at).bridge
             /\ late' = Drawn(at).late
             /\ UNCHANGED host

\* A load of a savestate: the clock starts over too (hle_state_restore).
ShutDown ==
    /\ rt' = Shutdown.rt /\ bridge' = Shutdown.bridge
    /\ late' = FALSE
    /\ UNCHANGED host

-----------------------------------------------------------------------------
(* While RT64 draws, the console's clock owes nothing to its preparation,  *)
(* be it at boot, after a rejected list or after a savestate was loaded    *)
(* (the comments of rt64_backend_start and rt64_backend_submit), and the   *)
(* bridge has an application exactly when the backend is active.           *)
SetupNotCharged == /\ rt.active => ~ late
                   /\ rt.active = bridge.app
=============================================================================
