--------------------------- MODULE AudioInterface ---------------------------
(***************************************************************************)
(* The audio interface of the console (AI) as runtime/audio.c keeps it:    *)
(* when a buffer handed over by osAiSetNextBuffer counts as played and its *)
(* OS_EVENT_AI is due.  Three modes, chosen by the environment at start:   *)
(*   "timed"    two DMA slots with their real duration (WPJ2_AI_TIMED);    *)
(*   "clocked"  one deadline, moved by each buffer (WPJ2_AI_COMPAT_CLOCKED)*)
(*   "compat"   a flag that the next retrace answers (the default).        *)
(*                                                                         *)
(* A buffer's size is its duration in ticks.  Deadlines are kept as the    *)
(* ticks left, so that no clock has to be bounded; a deadline that the     *)
(* code clears or leaves behind is 0 ticks away.  A load is                *)
(* snapshot_load's audio_shutdown, audio_init and audio_state_restore.     *)
(* What becomes of the event once posted is module DeviceEvents.           *)
(***************************************************************************)
EXTENDS Integers, TLC

CONSTANTS
    Modes,      \* the modes to check
    Sizes,      \* the sizes of a buffer
    MaxBuffers, \* bound: the buffers the game hands over
    None        \* an empty DMA slot, and no savestate yet

Mode == {"timed", "clocked", "compat"}

ASSUME AudioAssumption ==
    /\ Modes \subseteq Mode
    /\ Sizes \subseteq Nat \ {0}
    /\ MaxBuffers \in Nat
    /\ None \notin [id : Nat, size : Nat]

VARIABLES
    mode,       \* g_ai_timed, g_ai_compat_clocked
    primary,    \* g_ai_primary_bytes
    secondary,  \* g_ai_secondary_bytes
    dueIn,      \* g_ai_due, as ticks left
    freq,       \* g_ai_freq has been read
    pending,    \* g_ai_compat_pending
    active,     \* g_ai_compat_active
    compatIn,   \* g_ai_compat_due, as ticks left
    image,      \* the savestate
    accepted,   \* history: buffers the device has taken
    completed,  \* history: buffers (of the timed mode) it has retired
    played      \* history: ticks since the DMA, or the load, began

interface == <<primary, secondary, dueIn, freq, pending, active, compatIn>>
history == <<accepted, completed, played>>
interfaceVars == <<mode, interface, image, history>>

Buffer == [id : 1 .. MaxBuffers, size : Sizes]
Ticks == Sizes \union {0}

Image == [primary : Buffer \union {None}, secondary : Buffer \union {None},
          pending : BOOLEAN, active : BOOLEAN,
          accepted : 0 .. MaxBuffers, completed : 0 .. MaxBuffers]

InterfaceTypeOK ==
    /\ mode \in Modes
    /\ primary \in Buffer \union {None}
    /\ secondary \in Buffer \union {None}
    /\ dueIn \in Nat
    /\ freq \in BOOLEAN
    /\ pending \in BOOLEAN
    /\ active \in BOOLEAN
    /\ compatIn \in Nat
    /\ image \in Image \union {None}
    /\ accepted \in 0 .. MaxBuffers
    /\ completed \in 0 .. MaxBuffers
    /\ played \in Nat

-----------------------------------------------------------------------------
(* audio_ai_arm_primary: the deadline counts from now.                     *)
Arm(b) ==
    /\ primary' = b
    /\ dueIn' = b.size
    /\ freq' = TRUE
    /\ played' = 0

(* Variant: the promoted buffer inherits the deadline of the one before.   *)
PromoteLate(b) ==
    /\ primary' = b
    /\ played' = 0
    /\ UNCHANGED <<dueIn, freq>>

(* The second DMA starts when the first is retired.                        *)
Promote(b) == Arm(b)

(* Variant: the device never reports that its FIFO is full.                *)
NeverFull == FALSE

(* audio_ai_status: the FIFO is full, and __osAiDeviceBusy says so.        *)
Full == mode = "timed" /\ primary # None /\ secondary # None

-----------------------------------------------------------------------------
(* audio_queue_ai_buffer.                                                  *)

(* A third buffer would be dropped.                                        *)
QueueTimed(b) ==
    /\ mode = "timed"
    /\ \/ /\ primary = None
          /\ Arm(b)
          /\ UNCHANGED secondary
       \/ /\ primary # None
          /\ secondary' = IF secondary = None THEN b ELSE secondary
          /\ freq' = TRUE
          /\ UNCHANGED <<primary, dueIn, played>>
    /\ UNCHANGED <<pending, active, compatIn>>

QueueClocked(b) ==
    /\ mode = "clocked"
    /\ compatIn' = b.size
    /\ active' = TRUE
    /\ pending' = FALSE
    /\ freq' = TRUE
    /\ played' = 0
    /\ UNCHANGED <<primary, secondary, dueIn>>

QueueCompat ==
    /\ mode = "compat"
    /\ pending' = TRUE
    /\ freq' = TRUE
    /\ played' = 0
    /\ UNCHANGED <<primary, secondary, dueIn, active, compatIn>>

(* The ROM's osAiSetNextBuffer asks for the status first and gives up      *)
(* when the FIFO is full.                                                  *)
SetNextBuffer ==
    /\ accepted < MaxBuffers
    /\ ~ Full
    /\ \E size \in Sizes : LET b == [id |-> accepted + 1, size |-> size] IN
        QueueTimed(b) \/ QueueClocked(b) \/ QueueCompat
    /\ accepted' = accepted + 1
    /\ UNCHANGED <<mode, image, completed>>

(* osAiGetLength reads the clock outside the timed mode too, but only once *)
(* a buffer was queued since audio_init, and freq is then set already: it  *)
(* changes nothing here.  (WPJ2_AI_ZELDA_QUEUE, off, would read it first.) *)

-----------------------------------------------------------------------------
(* Time, and the end of a DMA.                                             *)

Left(n) == IF n > 0 THEN n - 1 ELSE 0

Tick ==
    /\ dueIn > 0 \/ compatIn > 0
    /\ dueIn' = Left(dueIn)
    /\ compatIn' = Left(compatIn)
    /\ played' = played + 1
    /\ UNCHANGED <<mode, primary, secondary, freq, pending, active, image, accepted, completed>>

(* audio_ai_done_pending.                                                  *)
DonePending ==
    CASE mode = "compat" -> pending
      [] mode = "clocked" -> active /\ freq /\ compatIn = 0
      [] mode = "timed" -> primary # None /\ freq /\ dueIn = 0

(* audio_take_ai_done, called by hle_deliver_events_impl at a retrace.     *)
TakeDone ==
    /\ DonePending
    /\ \/ /\ mode = "timed"
          /\ secondary # None
          /\ secondary' = None
          /\ Promote(secondary)
          /\ completed' = completed + 1
          /\ UNCHANGED <<pending, active, compatIn>>
       \/ /\ mode = "timed"
          /\ secondary = None
          /\ primary' = None
          /\ dueIn' = 0
          /\ completed' = completed + 1
          /\ UNCHANGED <<secondary, freq, pending, active, compatIn, played>>
       \/ /\ mode # "timed"
          /\ pending' = FALSE
          /\ active' = FALSE
          /\ compatIn' = 0
          /\ UNCHANGED <<primary, secondary, dueIn, freq, completed, played>>
    /\ UNCHANGED <<mode, image, accepted>>

-----------------------------------------------------------------------------
(* audio_state_capture.                                                    *)
Capture ==
    /\ image' = [primary |-> primary, secondary |-> secondary,
                 pending |-> pending, active |-> active,
                 accepted |-> accepted, completed |-> completed]
    /\ UNCHANGED <<mode, interface, history>>

(* Variant: the DMA comes back without its clock.                          *)
RearmWithoutClock ==
    /\ primary' = image.primary
    /\ dueIn' = 0
    /\ freq' = FALSE
    /\ played' = 0

(* The tail of audio_state_restore: clocks are forgotten and a primary DMA *)
(* starts over.                                                            *)
Rearm ==
    IF image.primary # None
    THEN Arm(image.primary)
    ELSE /\ primary' = None
         /\ dueIn' = 0
         /\ freq' = FALSE
         /\ played' = 0

LoadInterface ==
    /\ image # None
    /\ secondary' = image.secondary
    /\ pending' = image.pending
    /\ active' = image.active
    /\ compatIn' = 0
    /\ Rearm
    /\ accepted' = image.accepted
    /\ completed' = image.completed
    /\ UNCHANGED <<mode, image>>

-----------------------------------------------------------------------------
InterfaceInit ==
    /\ mode \in Modes
    /\ primary = None /\ secondary = None
    /\ dueIn = 0
    /\ freq = FALSE
    /\ pending = FALSE /\ active = FALSE
    /\ compatIn = 0
    /\ image = None
    /\ accepted = 0 /\ completed = 0 /\ played = 0

-----------------------------------------------------------------------------
(* Buffers are played once each and in the order they were handed over:    *)
(* the two slots hold the next ones after those retired, whatever mixture  *)
(* of queueing, completion and loads came before.                          *)
PlayedInOrder ==
    mode = "timed" =>
        /\ primary # None => primary.id = completed + 1
        /\ secondary # None => primary # None /\ secondary.id = completed + 2
        /\ accepted = completed + (IF primary # None THEN 1 ELSE 0)
                                + (IF secondary # None THEN 1 ELSE 0)

(* A DMA is retired only after its whole duration has passed since it      *)
(* began or, for one found in a savestate, since the load: a promotion or  *)
(* a load raises no interrupt early.                                       *)
NeverEarly == [][completed' = completed + 1 => played >= primary.size]_interfaceVars
=============================================================================
