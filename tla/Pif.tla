-------------------------------- MODULE Pif --------------------------------
(***************************************************************************)
(* The PIF of pif.c: the tape of joybus commands that the game writes and  *)
(* reads back by SI transfers (their completions are DeviceEvents'), the four sources of input (live keys and    *)
(* three kinds of script, with a stress mode over them), the recording     *)
(* that becomes a bookmark, and the Controller Pack behind two of the      *)
(* commands.  Two builds share the code: with fibers a key saves a         *)
(* bookmark, with stateful threads it saves a savestate.                   *)
(***************************************************************************)
EXTENDS ControllerPack, Sequences, SequencesExt

CONSTANTS
    PifSize,        \* bytes of the tape, 64
    Sessions,       \* what is played: the build, the tapes the game writes, the
                    \* keys and sticks reported, the scripts, whether the stress mode
                    \* may be on, the outcomes of writing the pack's file; and how
                    \* many processes, retraces, readings and ticks it lasts
    Keys,           \* buttons, without None
    None,           \* no button, or a stick at rest
    Sticks,         \* stick positions, without None
    RecordingMax,   \* GRAVACAO_MAX
    ScriptMax,      \* ROTEIRO_MAX
    Delay, Hold,    \* the stress mode: readings before it, readings per step
    MaxRetrace, MaxPolls, MaxProcesses  \* bounds

ASSUME PifAssumption ==
    /\ None \notin Keys \cup Sticks /\ Keys # {} /\ "keep" \notin Sticks \cup {None}
    /\ PifSize \in Nat /\ RecordingMax \in Nat /\ ScriptMax \in Nat /\ Delay \in Nat /\ Hold \in Nat \ {0}
    /\ RecordingMax <= ScriptMax   \* a recording fits in a script
    /\ MaxRetrace \in Nat /\ MaxPolls \in Nat /\ MaxProcesses \in Nat \ {0}

\* A command of the tape, before and after the PIF answers it; and a step of a
\* script, from the time "at" on: "keep" leaves the stick where it is.
Ops == {"skip", "fill", "end", "info", "read", "pakread", "pakwrite", "other"}
Command == [op : Ops, tx : Nat, rx : Nat, addr : Nat, data : Data, ans : {<<"unanswered">>}]
Timed == [at : Nat, b : Keys \cup {None}, s : Sticks \cup {None, "keep"}]

ASSUME SessionAssumption ==
    \A p \in Sessions :
        /\ p.tapes \subseteq Seq(Command) /\ p.outcomes \subseteq Outcomes
        /\ p.scripts \subseteq [ms : Seq(Timed), poll : Seq(Timed), retrace : Seq(Timed)]
        /\ p.stateful \in BOOLEAN /\ p.stress \subseteq BOOLEAN
        /\ p.retraces \in 0 .. MaxRetrace /\ p.polls \in 0 .. MaxPolls
        /\ p.time \in 0 .. MaxTime /\ p.processes \in 1 .. MaxProcesses

VARIABLES
    session,        \* one of Sessions; session.stateful is RECOMP_STATEFUL
    process,        \* number of the process
    retrace,        \* hle_retraces()
    pressed,        \* pressionados: the keys the window was last told are down
    live,           \* g_buttons
    stick,          \* g_stick_x, g_stick_y
    scripts,        \* g_roteiro, g_roteiro_poll, g_roteiro_retrace
    stress,         \* g_stress_*
    polls,          \* g_polls_controle
    recording,      \* g_gravacao, and the last input it compared with
    pif,            \* g_pif: the tape with its answers
    bookmark,       \* quick.replay
    image,          \* the PIF part of a savestate
    truth           \* history: truth.read[r] is what the game last read by retrace r,
                    \* truth.lost the retrace from which the recording had no
                    \* room, truth.replaying the bookmark replayed undisturbed

inputVars == <<pressed, live, stick, scripts, stress, recording>>
vars == <<session, process, retrace, inputVars, polls, pif, bookmark, image, truth, packVars>>

\* "None yet" of a file, an image or an input; otherwise a sequence of one.
Nothing == <<>>
Centre == None
NoScripts == [ms |-> <<>>, poll |-> <<>>, retrace |-> <<>>]
NoStress == [on |-> FALSE, start |-> 0]
NoRecording == [list |-> <<>>, last |-> Nothing]
Input == [b : Keys \cup {None}, s : Sticks \cup {None}]
NothingRead == [r \in 0 .. MaxRetrace |-> [b |-> None, s |-> None]]

TypeOK ==
    /\ PackTypeOK
    /\ session \in Sessions /\ process \in 1 .. MaxProcesses
    /\ retrace \in 0 .. MaxRetrace /\ polls \in 0 .. MaxPolls
    /\ pressed \in Keys \cup {None} /\ live \in Keys \cup {None} /\ stick \in Sticks \cup {None}
    /\ Len(recording.list) <= RecordingMax
    /\ stress \in [on : BOOLEAN, start : Nat]
    /\ truth.read \in [0 .. MaxRetrace -> Input]

-----------------------------------------------------------------------------
(* Input.                                                                  *)

\* pif_set_script, pif_set_poll_script, pif_set_retrace_script: the steps of a
\* text, as many as fit.  The first kind has no stick.
Fitting(steps) == SubSeq(steps, 1, Min({Len(steps), ScriptMax}))
MsScript(steps) ==
    [NoScripts EXCEPT !.ms = [i \in DOMAIN Fitting(steps) |-> [steps[i] EXCEPT !.s = "keep"]]]
PollScript(steps) == [NoScripts EXCEPT !.poll = Fitting(steps)]
RetraceScript(steps) == [NoScripts EXCEPT !.retrace = Fitting(steps)]

\* The step of a script in force at t: the last one listed whose time has
\* come, and the last such one that moves the stick.  Lists are not sorted.
AtTime(list, t, s) ==
    LET due == {i \in DOMAIN list : list[i].at <= t}
        moves == {i \in due : list[i].s # "keep"}
    IN  [b |-> IF due = {} THEN None ELSE list[Max(due)].b,
         s |-> IF moves = {} THEN s ELSE list[Max(moves)].s]

\* The general stress mode: every Hold readings a press or a release; a
\* release centres the stick.  (Its table of buttons is one button here; the
\* "shop" mode is another table of the same kind, driven by texts.)
StressInput(n, s) ==
    IF ((n - stress.start) \div Hold) % 2 = 0
    THEN [b |-> CHOOSE k \in Keys : TRUE, s |-> s] ELSE [b |-> None, s |-> Centre]

\* botoes_agora at reading n: stress, then the scripts in their order, and the
\* live keys only when there is none.
InputNow(n, s) ==
    IF stress.on /\ n >= stress.start THEN StressInput(n, s)
    ELSE IF scripts.retrace # <<>> THEN AtTime(scripts.retrace, retrace, s)
    ELSE IF scripts.poll # <<>> THEN AtTime(scripts.poll, n, s)
    ELSE IF scripts.ms # <<>> THEN AtTime(scripts.ms, now, s)
    ELSE [b |-> live, s |-> s]

\* Variant: only a change of the buttons is a transition.
RecordButtons(rec, n, i) ==
    IF rec.last # Nothing /\ rec.last[1].b = i.b THEN rec
    ELSE [list |-> IF Len(rec.list) < RecordingMax
                   THEN Append(rec.list, [at |-> retrace, b |-> i.b, s |-> i.s, poll |-> n])
                   ELSE rec.list,
          last |-> <<i>>]

\* pif_gravar_transicao: a change is remembered as the last input whether or
\* not there was room to record it.
Record(rec, n, i) ==
    IF rec.last = <<i>> THEN rec
    ELSE [list |-> IF Len(rec.list) < RecordingMax
                   THEN Append(rec.list, [at |-> retrace, b |-> i.b, s |-> i.s, poll |-> n])
                   ELSE rec.list,
          last |-> <<i>>]

-----------------------------------------------------------------------------
(* The tape.  A byte 00 skips a channel, FD and FF are filling, FE ends it;*)
(* any other byte begins a command of 2 + tx + rx bytes.                   *)

Size(t) == IF t.op \in {"skip", "fill", "end"} THEN 1 ELSE 2 + t.tx + t.rx

\* Variant: reading back answers nothing, as if the PIF did not scan.
AnswerOnce(w, t, refresh, io) ==
    IF refresh THEN [w EXCEPT !.tape = Append(@, t)]
    ELSE IF w.channel = 0 /\ t.op = "read"
    THEN LET i == InputNow(w.polls + 1, w.stick)
         IN  [w EXCEPT !.polls = @ + 1, !.stick = i.s, !.recording = Record(@, w.polls + 1, i),
                       !.read = <<i>>, !.tape = Append(@, [t EXCEPT !.ans = <<"read", i>>])]
    ELSE [w EXCEPT !.tape = Append(@, t)]

\* What one command does to the walk w, at a place where it fits.
Answer(w, t, refresh, io) ==
    LET said(what, v) == Append(w.tape, [t EXCEPT !.ans = <<what, v>>])
    IN  CASE w.channel # 0 \/ t.op = "other" -> [w EXCEPT !.tape = said("nodevice", 0)]
          [] w.channel = 0 /\ t.op = "info" /\ t.rx >= 3 -> [w EXCEPT !.tape = said("pack", 0)]
          [] w.channel = 0 /\ t.op = "read" /\ t.rx >= 4 ->
                LET n == w.polls + 1
                    i == InputNow(n, w.stick)
                IN  [w EXCEPT !.polls = n, !.stick = i.s, !.tape = said("read", i),
                              !.recording = Record(@, n, i), !.read = <<i>>]
          [] w.channel = 0 /\ t.op = "pakread" /\ ~refresh /\ t.tx >= 3 /\ t.rx >= 33 ->
                LET r == ReadBlock(w.m, t.addr, io)
                IN  [w EXCEPT !.m = r.after, !.tape = said("data", r.data)]
          [] w.channel = 0 /\ t.op = "pakwrite" /\ ~refresh /\ t.tx >= 35 /\ t.rx >= 1 ->
                [w EXCEPT !.m = WriteBlock(@, t.addr, t.data, io), !.tape = said("crc", t.data)]
          [] OTHER -> [w EXCEPT !.tape = Append(@, t)]

\* One turn of the loop of pif_process.
Step(w, t, refresh, io) ==
    IF ~w.on \/ w.at >= PifSize THEN [w EXCEPT !.tape = Append(@, t)]
    ELSE CASE t.op = "skip" -> [w EXCEPT !.at = @ + 1, !.channel = @ + 1, !.tape = Append(@, t)]
           [] t.op = "fill" -> [w EXCEPT !.at = @ + 1, !.tape = Append(@, t)]
           [] t.op = "end"  -> [w EXCEPT !.on = FALSE, !.tape = Append(@, t)]
           [] OTHER ->
                IF t.tx = 0 \/ w.at + Size(t) > PifSize
                THEN [w EXCEPT !.on = FALSE, !.tape = Append(@, t)]
                ELSE [Answer(w, t, refresh, io) EXCEPT !.at = @ + Size(t), !.channel = @ + 1]

\* pif_process over a tape: the tape with its answers, and what it changed.
Start == [on |-> TRUE, at |-> 0, channel |-> 0, tape |-> <<>>, polls |-> polls,
          stick |-> stick, recording |-> recording, read |-> Nothing,
          m |-> [pack |-> pack, disk |-> disk, ledger |-> ledger]]
Walk(tape, refresh, io) == FoldLeft(LAMBDA w, t : Step(w, t, refresh, io), Start, tape)

-----------------------------------------------------------------------------
(* Actions.                                                                *)

Init ==
    /\ PackInit
    /\ session \in Sessions
    /\ process = 1 /\ retrace = 0 /\ polls = 0
    /\ pressed = None /\ live = None /\ stick = None
    /\ scripts = NoScripts /\ stress = NoStress /\ recording = NoRecording
    /\ pif = <<>> /\ bookmark = Nothing /\ image = Nothing
    /\ truth = [read |-> NothingRead, lost |-> MaxRetrace + 1, replaying |-> Nothing]

\* func_800CD4F0, after the walk of either direction.
Transfer(w) ==
    /\ w.polls <= session.polls
    /\ pif' = w.tape
    /\ polls' = w.polls /\ stick' = w.stick /\ recording' = w.recording
    /\ pack' = w.m.pack /\ disk' = w.m.disk /\ ledger' = w.m.ledger
    /\ truth' =
         [truth EXCEPT
            !.read = [r \in 0 .. MaxRetrace |->
                        IF r >= retrace /\ w.read # Nothing THEN w.read[1] ELSE @[r]],
            !.lost = IF /\ w.recording.last # recording.last
                        /\ w.recording.list = recording.list
                        /\ @ > retrace
                     THEN retrace ELSE @]
    /\ UNCHANGED <<session, process, retrace, pressed, live, scripts, stress, bookmark, image, now>>

\* dir 1: the game's tape is copied in and executed.
DmaWrite == \E t \in session.tapes, io \in session.outcomes : Transfer(Walk(t, FALSE, io))

\* dir 0: the controllers are read again, and the tape is copied out.
DmaRead == \E io \in session.outcomes : Transfer(Walk(pif, TRUE, io))

Retrace ==
    /\ retrace < session.retraces /\ retrace' = retrace + 1
    /\ UNCHANGED <<session, process, inputVars, polls, pif, bookmark, image, truth, packVars>>

Tick ==
    /\ now < session.time /\ now' = now + 1
    /\ UNCHANGED <<session, process, retrace, inputVars, polls, pif, bookmark, image, truth,
                   pack, disk, ledger>>

\* pif_set_buttons and pif_update_stick_from_keys both cancel the scripts.
CancelScripts == scripts' = NoScripts
SetButtons(h) == CancelScripts /\ live' = h
UpdateStick(s) == CancelScripts /\ stick' = s

\* video_wndproc, for a WM_KEYDOWN or WM_KEYUP that Windows delivers: any key of
\* the controller updates the stick and cancels the scripts; the buttons are set
\* when they changed. A key that moves without a message (WM_KEYUP is not always
\* delivered, video.c:644, and the window does nothing when it loses the focus)
\* changes nothing here: pressed is what was reported, not what is down.
KeyEvent(h, s) ==
    /\ <<h, s>> \in session.pads
    /\ pressed' = h
    /\ UpdateStick(s)
    /\ IF h # pressed THEN SetButtons(h) ELSE live' = live
    /\ truth' = [truth EXCEPT !.replaying = Nothing]
    /\ UNCHANGED <<session, process, retrace, stress, recording, polls, pif, bookmark, image, packVars>>

\* pif_gravar_replay.
Bookmark == [list |-> recording.list, target |-> retrace, pollTarget |-> polls,
             read |-> truth.read, lost |-> truth.lost]

\* Ctrl+Shift+digit with fibers (a bookmark of the last
\* process is never read again).
SaveBookmark ==
    /\ ~session.stateful /\ process < session.processes
    /\ bookmark' = <<Bookmark>>
    /\ UNCHANGED <<session, process, retrace, inputVars, polls, pif, image, truth, packVars>>

\* pif_state_capture, and the retrace count beside it.
Captured == [pif |-> pif, polls |-> polls, stick |-> stick, retrace |-> retrace, live |-> live]

\* The same key with stateful threads, at the next safe point, once.
SaveState ==
    /\ session.stateful /\ image = Nothing
    /\ image' = <<Captured>>
    /\ UNCHANGED <<session, process, retrace, inputVars, polls, pif, bookmark, truth, packVars>>

\* Variant: the keys of the moment of the save come back.
RestoreKeys(i) ==
    /\ pif' = i.pif /\ polls' = i.polls /\ stick' = i.stick
    /\ retrace' = i.retrace
    /\ live' = i.live

\* pif_state_restore, and the retrace count that hle_state_restore brings back.
\* The keys of the image are not used: one may have been released since.
Restore(i) ==
    /\ pif' = i.pif /\ polls' = i.polls /\ stick' = i.stick
    /\ retrace' = i.retrace
    /\ live' = None

LoadState ==
    /\ session.stateful /\ image # Nothing
    /\ Restore(image[1])
    /\ UNCHANGED <<session, process, pressed, scripts, stress, recording, bookmark, image, truth, packVars>>

\* The process ends at any moment (or is started again for a bookmark), and a
\* new one reads its environment: a bookmark or a script, and the stress mode,
\* which starts after the target and after the last step of a script by readings.
Env == {[scripts |-> sc, target |-> 0, replay |-> Nothing] : sc \in session.scripts}
       \cup IF bookmark = Nothing THEN {}
            ELSE {[scripts |-> RetraceScript(bookmark[1].list),
                   target |-> bookmark[1].pollTarget, replay |-> bookmark]}

StressStart(env) ==
    Max({env.target + Delay, Delay} \cup {env.scripts.poll[i].at + Delay : i \in DOMAIN env.scripts.poll})

NewProcess ==
    /\ process < session.processes /\ process' = process + 1
    /\ \E env \in Env, mode \in session.stress :
         /\ scripts' = env.scripts
         /\ stress' = IF mode THEN [on |-> TRUE, start |-> StressStart(env)] ELSE NoStress
         /\ truth' = [read |-> NothingRead, lost |-> MaxRetrace + 1,
                      replaying |-> IF mode THEN Nothing ELSE env.replay]
    \* the file stays; that of the last process is not looked at again
    /\ bookmark' = IF process' = session.processes THEN Nothing ELSE bookmark
    /\ retrace' = 0 /\ polls' = 0 /\ pif' = <<>>
    /\ pressed' = None /\ live' = None /\ stick' = None /\ recording' = NoRecording
    /\ pack' = Unloaded
    /\ UNCHANGED <<session, image, disk, ledger, now>>

Next ==
    \/ DmaWrite \/ DmaRead
    \/ Retrace \/ Tick
    \/ \E h \in Keys \cup {None}, s \in Sticks \cup {None} : KeyEvent(h, s)
    \/ SaveBookmark \/ SaveState \/ LoadState \/ NewProcess

Spec == Init /\ [][Next]_vars

-----------------------------------------------------------------------------
(* Properties.                                                             *)

\* A recording says, for every retrace before the one it ran out of room in,
\* what the game read last by then (pif.c:119); and a process that replays a
\* bookmark undisturbed gives the game, in every retrace, what the recorded
\* session gave it, wherever that session's own input came from: keys, a
\* script, an earlier replay.
ReplayFaithful ==
    /\ TypeOK
    /\ ~session.stateful =>
           /\ \A r \in 0 .. retrace :
                 r < truth.lost => AtTime(recording.list, r, Centre) = truth.read[r]
           /\ truth.replaying # Nothing /\ scripts.retrace # <<>> /\ retrace < truth.replaying[1].lost
                 => InputNow(polls + 1, stick) = truth.replaying[1].read[retrace]

\* A key that the game sees pressed is one that the window's last message
\* reported down: neither one remembered from the moment a savestate was taken
\* (pif.c:555), nor one of another process. Whether it is still down nobody knows.
KeysAsReported == live # None => live = pressed

\* Reading the tape back samples the controllers again, so that what the game
\* reads is never older than the transfer, and repeats nothing else: no block
\* of the pack is written or read twice (pif.c:641).
RefreshIsControllers ==
    \A io \in session.outcomes :
        LET w == Walk(pif, TRUE, io)
        IN  /\ w.m.pack = pack /\ w.m.disk = disk
            /\ \A k \in DOMAIN pif :
                  IF Head(pif[k].ans) = "read"
                  THEN <<w.tape[k].ans[2]>> = w.read /\ w.polls > polls
                  ELSE w.tape[k] = pif[k]
=============================================================================
