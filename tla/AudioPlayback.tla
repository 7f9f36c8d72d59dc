---------------------------- MODULE AudioPlayback ----------------------------
(***************************************************************************)
(* How runtime/audio.c feeds the host's sound device (WinMM): a table of   *)
(* play slots, a device held paused until a reserve of frames is queued,   *)
(* and a bounded wait when every slot is taken.  The device plays on its   *)
(* own; everything else runs on the thread that runs the game.             *)
(***************************************************************************)
EXTENDS Integers, FiniteSets, SequencesExt

CONSTANTS
    Slots,      \* PLAY_SLOTS
    Frames,     \* the frames a buffer of the game may have
    Target,     \* g_play_target_frames
    WaitMs      \* g_play_wait_ms

Slot == 1 .. Slots

(* WPJ2_AUDIO_PREBUFFER is at most PLAY_SLOTS - 1 thirtieths of a second   *)
(* and the game's buffers are hardly shorter than that, so that a full     *)
(* table always reaches the reserve.                                       *)
ASSUME PlaybackAssumption ==
    /\ Slots \in Nat \ {0}
    /\ Frames \subseteq Nat \ {0}
    /\ Target \in Nat
    /\ WaitMs \in Nat
    /\ \A f \in Frames : Slots * f >= Target

VARIABLES
    open,       \* g_wave
    enabled,    \* g_play_enabled
    frames,     \* frames of each slot, 0 when its pcm is NULL
    done,       \* slots with WHDR_DONE
    device,     \* the slots the device holds, in order
    paused,     \* waveOutPause
    started,    \* g_play_started
    queued,     \* g_play_queued_frames
    fast,       \* g_play_fast_forward
    buffer,     \* frames of the buffer being queued, 0 outside the call
    waited      \* esperou_ms

tableVars == <<frames, done, queued>>
playbackVars == <<open, enabled, tableVars, device, paused, started, fast, buffer, waited>>

PlaybackTypeOK ==
    /\ open \in BOOLEAN
    /\ enabled \in BOOLEAN
    /\ frames \in [Slot -> Frames \union {0}]
    /\ done \in SUBSET Slot
    /\ device \in Seq(Slot)
    /\ paused \in BOOLEAN
    /\ started \in BOOLEAN
    /\ queued \in Nat
    /\ fast \in BOOLEAN
    /\ buffer \in Frames \union {0}
    /\ waited \in 0 .. WaitMs

Free == {s \in Slot : frames[s] = 0}
Less(m, n) == IF n >= m THEN 0 ELSE m - n

-----------------------------------------------------------------------------
(* audio_play_reap: the buffers played give their slots back, and a device *)
(* that has nothing left is paused until there is a reserve again.         *)

(* g_play_queued_frames without the slots that are done.                   *)
LeftQueued == Less(queued, SumFunctionOnSet(frames, done))

Starved == started /\ LeftQueued = 0

Reap ==
    /\ frames' = [s \in Slot |-> IF s \in done THEN 0 ELSE frames[s]]
    /\ queued' = LeftQueued
    /\ done' = {}
    /\ started' = (started /\ ~ Starved)
    /\ paused' = (paused \/ Starved)

(* waveOutReset hands every slot back, and audio_play_reap(1) frees it.    *)
FreeAll ==
    /\ frames' = [s \in Slot |-> 0]
    /\ done' = {}
    /\ device' = <<>>

(* Variant: the device goes on after the reset.                            *)
ResetQueuePlaying ==
    /\ FreeAll
    /\ queued' = 0
    /\ started' = FALSE
    /\ UNCHANGED paused

(* audio_play_reset_queue.                                                 *)
ResetQueue ==
    /\ FreeAll
    /\ queued' = 0
    /\ started' = FALSE
    /\ paused' = TRUE

-----------------------------------------------------------------------------
(* audio_play_buffer.                                                      *)

(* audio_play_open succeeds or gives playback up.                          *)
OpenDevice(f) ==
    /\ ~ open
    /\ \/ /\ open' = TRUE
          /\ paused' = TRUE
          /\ started' = FALSE
          /\ queued' = 0
          /\ buffer' = f
          /\ UNCHANGED enabled
       \/ /\ enabled' = FALSE
          /\ UNCHANGED <<open, paused, started, queued, buffer>>
    /\ UNCHANGED <<frames, done>>

(* audio_queue_ai_buffer, up to the search for a slot.                     *)
BufferArrives ==
    /\ buffer = 0
    /\ enabled
    /\ ~ fast
    /\ \E f \in Frames :
        \/ OpenDevice(f)
        \/ /\ open
           /\ Reap
           /\ buffer' = f
           /\ UNCHANGED <<open, enabled>>
    /\ waited' = 0
    /\ UNCHANGED <<device, fast>>

MayWait == waited < WaitMs

(* Sleep(1), and another look at what the device has played meanwhile.     *)
WaitForSlot ==
    /\ buffer # 0
    /\ Free = {}
    /\ MayWait
    /\ waited' = waited + 1
    /\ Reap
    /\ UNCHANGED <<open, enabled, device, fast, buffer>>

CallReturns ==
    /\ buffer' = 0
    /\ waited' = 0

Drop ==
    /\ buffer # 0
    /\ Free = {}
    /\ ~ MayWait
    /\ CallReturns
    /\ UNCHANGED <<open, enabled, tableVars, device, paused, started, fast>>

QueueBuffer ==
    /\ buffer # 0
    /\ Free # {}
    /\ LET s == Min(Free)
           starts == ~ started /\ queued + buffer >= Target
       IN  /\ frames' = [frames EXCEPT ![s] = buffer]
           /\ device' = Append(device, s)
           /\ queued' = queued + buffer
           /\ started' = (started \/ starts)
           /\ paused' = (paused /\ ~ starts)
    /\ CallReturns
    /\ UNCHANGED <<open, enabled, done, fast>>

(* malloc, waveOutPrepareHeader or waveOutWrite fails: the slot is cleared.*)
QueueFails ==
    /\ buffer # 0
    /\ Free # {}
    /\ CallReturns
    /\ UNCHANGED <<open, enabled, tableVars, device, paused, started, fast>>

-----------------------------------------------------------------------------
(* The host's device, fast forward, and a savestate load.                  *)

DevicePlays ==
    /\ open
    /\ ~ paused
    /\ device # <<>>
    /\ done' = done \union {Head(device)}
    /\ device' = Tail(device)
    /\ UNCHANGED <<open, enabled, frames, queued, paused, started, fast, buffer, waited>>

(* audio_set_fast_forward.                                                 *)
SetFastForward ==
    /\ buffer = 0
    /\ fast' = ~ fast
    /\ IF fast' /\ open
       THEN ResetQueue
       ELSE UNCHANGED <<tableVars, device, paused, started>>
    /\ UNCHANGED <<open, enabled, buffer, waited>>

(* snapshot_load calls audio_shutdown, audio_init and audio_state_restore, *)
(* whose audio_play_reset_queue then finds no device.                      *)
LoadPlayback ==
    /\ buffer = 0
    /\ IF open
       THEN /\ FreeAll
            /\ queued' = Less(queued, SumFunction(frames))
            /\ open' = FALSE
       ELSE UNCHANGED <<open, tableVars, device>>
    /\ enabled' = TRUE
    /\ UNCHANGED <<paused, started, fast, buffer, waited>>

-----------------------------------------------------------------------------
PlaybackInit ==
    /\ open = FALSE
    /\ enabled = TRUE
    /\ frames = [s \in Slot |-> 0]
    /\ done = {}
    /\ device = <<>>
    /\ paused = FALSE
    /\ started = FALSE
    /\ queued = 0
    /\ fast = FALSE
    /\ buffer = 0
    /\ waited = 0

-----------------------------------------------------------------------------
(* The frame count that decides when the device starts is the frames of    *)
(* the slots in use: it never drifts, so no clipping ever hides a buffer.  *)
QueueAccounted == queued = SumFunction(frames)

(* Every slot in use is in the hands of the device once, or waits to be    *)
(* reaped, and the device runs exactly when the code believes it does.     *)
SlotsMatchDevice ==
    /\ Slot \ Free = ToSet(device) \union done
    /\ ToSet(device) \intersect done = {}
    /\ IsInjective(device)
    /\ open => paused = ~ started

(* When the table is full the device is playing: a buffer is dropped for   *)
(* lack of time, never for ever because a full table waits for a reserve   *)
(* it can no longer reach.                                                 *)
FullMeansPlaying == open /\ Free = {} => ~ paused

(* The table, its account, the device and the bounded wait fit together.   *)
PlaybackSound ==
    /\ PlaybackTypeOK
    /\ QueueAccounted
    /\ SlotsMatchDevice
    /\ FullMeansPlaying
=============================================================================
