---------------------------- MODULE RetraceClock ----------------------------
(***************************************************************************)
(* The clock that paces the retraces (VI) in runtime/hle.c: an absolute    *)
(* deadline moved by one period per retrace, the 8x speed that F11 and the *)
(* replay of a bookmark ask for, and what a savestate load does to them.   *)
(*                                                                         *)
(* lead is the deadline minus the clock: not yet due when positive, late   *)
(* when negative.  A pass is one call of hle_deliver_events_impl; module   *)
(* DeviceEvents says what it delivers besides the retrace.                 *)
(***************************************************************************)
EXTENDS Integers

CONSTANTS
    NormalPeriod,   \* ticks between retraces at the normal speed
    FastPeriod,     \* and at 8x
    RetraceTargets, \* the targets a bookmark may set, 0 for none: v2, retraces
    PollTargets,    \* and v1, readings of the controller
    Keys,           \* whether the player uses F11
    MaxRetraces,    \* bound: retraces and readings
    MaxTime         \* bound: ticks since the deadline last started over

ASSUME ClockAssumption ==
    /\ FastPeriod \in Nat \ {0}
    /\ NormalPeriod \in Nat
    /\ FastPeriod < NormalPeriod
    /\ RetraceTargets \subseteq Nat
    /\ PollTargets \subseteq Nat
    /\ Keys \subseteq BOOLEAN /\ FALSE \in Keys
    /\ MaxRetraces \in Nat
    /\ MaxTime \in Nat /\ NormalPeriod <= MaxTime

VARIABLES
    armed,      \* g_poll_freq has been read
    lead,       \* g_poll_deadline - now
    fast,       \* g_fast_forward
    audioFast,  \* g_play_fast_forward
    f11,        \* g_f11_down
    key,        \* F11 is held and the window has the focus
    retraces,   \* g_retraces
    polls,      \* pif_polls_atuais()
    retraceTarget,  \* g_alvo_turbo_retrace
    pollTarget, \* g_alvo_turbo
    image,      \* retraces and polls of the savestate
    since,      \* history: ticks since the deadline last started over
    vis,        \* history: retraces since then
    f11InReplay        \* history: F11 was pressed during a replay

clock == <<armed, lead>>
speed == <<fast, audioFast>>
counts == <<retraces, polls>>
targets == <<retraceTarget, pollTarget>>
history == <<since, vis>>
clockVars == <<clock, speed, f11, key, f11InReplay, counts, targets, image, history>>

ClockTypeOK ==
    /\ armed \in BOOLEAN
    /\ lead \in Int
    /\ fast \in BOOLEAN
    /\ audioFast \in BOOLEAN
    /\ f11 \in BOOLEAN
    /\ key \in Keys
    /\ retraces \in 0 .. MaxRetraces
    /\ polls \in 0 .. MaxRetraces
    /\ retraceTarget \in RetraceTargets \union {0}
    /\ pollTarget \in PollTargets \union {0}
    /\ image \in (0 .. MaxRetraces) \X (0 .. MaxRetraces)
    /\ since \in 0 .. MaxTime
    /\ vis \in 0 .. MaxRetraces
    /\ f11InReplay \in BOOLEAN

Period(f) == IF f THEN FastPeriod ELSE NormalPeriod

(* The deadline starts over, one period of the given speed from now.       *)
StartOver(f) ==
    /\ lead' = Period(f)
    /\ since' = 0
    /\ vis' = 0

-----------------------------------------------------------------------------
(* hle_set_fast_forward and audio_set_fast_forward, always called together.*)

SetFast(f) ==
    /\ fast' = f
    /\ audioFast' = f
    /\ IF f # fast /\ armed
       THEN StartOver(f) /\ UNCHANGED armed
       ELSE UNCHANGED <<clock, history>>

(* hle_clock_resync, after RT64 was created or drew its first list.        *)
Resync ==
    /\ armed
    /\ StartOver(fast)
    /\ UNCHANGED <<armed, speed, f11, key, f11InReplay, counts, targets, image>>

TimePasses ==
    /\ since < MaxTime
    /\ since' = since + 1
    /\ lead' = lead - 1
    /\ UNCHANGED <<armed, speed, f11, key, f11InReplay, counts, targets, image, vis>>

-----------------------------------------------------------------------------
(* hle_deliver_events_impl, as far as the clock goes.                      *)

(* The deadline this pass compares with; the first one sets it.            *)
Lead == IF armed THEN lead ELSE Period(fast)

(* The pass delivered a completion, or found no turbo: it returns, after a *)
(* sleep if no thread is ready.                                            *)
StayAhead ==
    /\ lead' = Lead
    /\ IF armed THEN UNCHANGED history ELSE since' = 0 /\ vis' = 0
    /\ UNCHANGED <<speed, counts, targets>>

(* Variant: the target is forgotten and the speed stays.                   *)
ReleaseKeepsSpeed ==
    /\ retraceTarget # 0
    /\ retraces >= retraceTarget
    /\ retraceTarget' = 0
    /\ lead' = Lead
    /\ IF armed THEN UNCHANGED history ELSE since' = 0 /\ vis' = 0
    /\ UNCHANGED <<speed, counts, pollTarget>>

(* hle_turbo_ativo: the replay of a v2 bookmark reaches its retrace.       *)
ReleaseRetraceTarget ==
    /\ retraceTarget # 0
    /\ retraces >= retraceTarget
    /\ retraceTarget' = 0
    /\ fast' = FALSE
    /\ audioFast' = FALSE
    /\ IF fast
       THEN StartOver(FALSE)
       ELSE /\ lead' = Lead
            /\ IF armed THEN UNCHANGED history ELSE since' = 0 /\ vis' = 0
    /\ UNCHANGED <<counts, pollTarget>>

(* The replay of a v1 bookmark makes the deadline due until the reading it *)
(* aims at.                                                                *)
RushToPollTarget ==
    /\ retraceTarget = 0
    /\ pollTarget # 0
    /\ IF polls < pollTarget
       THEN /\ lead' = 0
            /\ since' = Period(fast)
            /\ vis' = 0
            /\ UNCHANGED pollTarget
       ELSE /\ pollTarget' = 0
            /\ lead' = Lead
            /\ IF armed THEN UNCHANGED history ELSE since' = 0 /\ vis' = 0
    /\ UNCHANGED <<speed, counts, retraceTarget>>

PassAhead ==
    /\ Lead > 0
    /\ armed' = TRUE
    /\ \/ StayAhead
       \/ ReleaseRetraceTarget
       \/ RushToPollTarget
    /\ UNCHANGED <<f11, key, f11InReplay, image>>

(* Variant: the deadline is one period after this retrace, however late.   *)
RetraceRestarts ==
    /\ Lead <= 0
    /\ retraces < MaxRetraces
    /\ lead' = Period(fast)
    /\ retraces' = retraces + 1
    /\ vis' = vis + 1
    /\ UNCHANGED <<armed, speed, f11, key, f11InReplay, polls, targets, image, since>>

(* The deadline is due: one retrace, and the deadline moves by one period. *)
Retrace ==
    /\ Lead <= 0
    /\ retraces < MaxRetraces
    /\ lead' = lead + Period(fast)
    /\ retraces' = retraces + 1
    /\ vis' = vis + 1
    /\ UNCHANGED <<armed, speed, f11, key, f11InReplay, polls, targets, image, since>>

-----------------------------------------------------------------------------
(* The keyboard, the controller and savestates.                            *)

(* The player presses or releases F11, or the window changes focus.        *)
KeyChanges ==
    /\ key' \in Keys
    /\ key' # key
    /\ UNCHANGED <<clock, speed, f11, f11InReplay, counts, targets, image, history>>

(* video_pump_messages reads the key; video_set_f11 acts on a change.      *)
Pump ==
    /\ f11 # key
    /\ f11' = key
    /\ f11InReplay' = (f11InReplay \/ (key /\ retraceTarget # 0))
    /\ SetFast(key)
    /\ UNCHANGED <<key, counts, targets, image>>

(* pif_process counts a reading of the controller.                         *)
ReadController ==
    /\ polls < MaxRetraces
    /\ polls' = polls + 1
    /\ UNCHANGED <<clock, speed, f11, key, f11InReplay, retraces, targets, image, history>>

Capture ==
    /\ image' = counts
    /\ UNCHANGED <<clock, speed, f11, key, f11InReplay, counts, targets, history>>

(* hle_state_restore: the next pass sets the deadline anew.                *)
Load ==
    /\ retraces' = image[1]
    /\ polls' = image[2]
    /\ armed' = FALSE
    /\ lead' = 0
    /\ since' = 0
    /\ vis' = 0
    /\ UNCHANGED <<speed, f11, key, f11InReplay, targets, image>>

-----------------------------------------------------------------------------
(* A bookmark of either version, or none, is loaded before the game starts;*)
(* a savestate of an earlier process may be there.                         *)
ClockInit ==
    /\ armed = FALSE
    /\ lead = 0
    /\ \/ /\ retraceTarget \in RetraceTargets \union {0}
          /\ pollTarget = 0
       \/ /\ retraceTarget = 0
          /\ pollTarget \in PollTargets
    /\ fast = (retraceTarget # 0)
    /\ audioFast = fast
    /\ f11 = FALSE
    /\ key = FALSE
    /\ retraces = 0
    /\ polls = 0
    /\ image = <<0, 0>>
    /\ since = 0
    /\ vis = 0
    /\ f11InReplay = FALSE

ClockNext ==
    \/ TimePasses
    \/ PassAhead
    \/ Retrace
    \/ Resync
    \/ KeyChanges
    \/ Pump
    \/ ReadController
    \/ Capture
    \/ Load

ClockSpec == ClockInit /\ [][ClockNext]_clockVars

-----------------------------------------------------------------------------
(* Since the deadline last started over, the retraces delivered and those  *)
(* still owed are exactly the periods that have passed: a slow stretch     *)
(* loses no retrace and a pause that is resynchronised brings no burst.    *)
RateKept == armed => lead = Period(fast) * (vis + 1) - since

(* The deadline is never further away than one period of the present       *)
(* speed, whatever sequence of keys, replays and loads led there.          *)
DeadlineNear == armed => lead <= Period(fast)

(* Retraces come at the rate of the console, and the host's thread never   *)
(* waits for longer than one of them (hle_deliver_events_impl).            *)
Paced == ClockTypeOK /\ RateKept /\ DeadlineNear

(* The game and the host's sound change speed together; the game is at 8x  *)
(* only while F11 is held or a replay has not reached its retrace, and     *)
(* always then unless F11 was used during a replay.                        *)
SpeedMatches ==
    /\ audioFast = fast
    /\ fast => f11 \/ retraceTarget # 0
    /\ f11 \/ retraceTarget # 0 => fast \/ f11InReplay
=============================================================================
