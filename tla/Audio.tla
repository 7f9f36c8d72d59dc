-------------------------------- MODULE Audio --------------------------------
(***************************************************************************)
(* runtime/audio.c as a whole: a buffer the game hands over goes to the    *)
(* audio interface of the console, which owes an interrupt for it, and to  *)
(* the host's sound device, which may hold the game's thread back until it *)
(* has a slot.  Time and the host's device go on meanwhile; retraces,      *)
(* savestates and keys wait for the call to return.                        *)
(***************************************************************************)
EXTENDS AudioInterface, AudioPlayback

vars == <<interfaceVars, playbackVars>>

Init == InterfaceInit /\ PlaybackInit

(* audio_queue_ai_buffer: nothing is played during fast forward or once    *)
(* playback was given up.                                                  *)
QueueBufferOfGame ==
    /\ SetNextBuffer
    /\ \/ BufferArrives
       \/ /\ buffer = 0 /\ (~ enabled \/ fast)
          /\ UNCHANGED playbackVars

(* audio_play_buffer goes on.                                              *)
PlayBuffer == (WaitForSlot \/ Drop \/ QueueBuffer \/ QueueFails) /\ UNCHANGED interfaceVars

Passes == Tick /\ UNCHANGED playbackVars
Plays == DevicePlays /\ UNCHANGED interfaceVars

(* hle_deliver_events_impl at a retrace.                                   *)
Retrace == buffer = 0 /\ TakeDone /\ UNCHANGED playbackVars

(* snapshot_save and snapshot_load.                                        *)
Save == buffer = 0 /\ Capture /\ UNCHANGED playbackVars
Load == LoadInterface /\ LoadPlayback

Forward == SetFastForward /\ UNCHANGED interfaceVars

Next ==
    \/ QueueBufferOfGame \/ PlayBuffer
    \/ Passes \/ Plays
    \/ Retrace \/ Save \/ Load \/ Forward

(* Time passes, retraces keep asking for the end of a DMA, and the host    *)
(* runs the thread that waits for a slot.                                  *)
Spec == Init /\ [][Next]_vars /\ WF_vars(Passes) /\ WF_vars(Retrace) /\ WF_vars(PlayBuffer)

-----------------------------------------------------------------------------
Owed == pending \/ active

(* A deadline of the clocked mode that came with a savestate: no clock is  *)
(* read again before the next buffer.                                      *)
Unclocked == mode = "clocked" /\ active /\ ~ freq

LoadsEnd == <>[][~ Load]_vars

(* The game's audio thread sleeps until its AI event.  In the timed mode   *)
(* every DMA the device took is retired, the last one, one that was alone  *)
(* and those found in a savestate too, however long the host's device lets *)
(* the game wait for a slot; only a load may take buffers back.  In the    *)
(* other modes the event that is owed comes, except for Unclocked.         *)
Answered ==
    LoadsEnd =>
    /\ \A n \in 1 .. MaxBuffers :
           (mode = "timed" /\ accepted >= n) ~> (completed >= n \/ accepted < n)
    /\ (mode # "timed" /\ Owed) ~> (~ Owed \/ Unclocked)
=============================================================================
