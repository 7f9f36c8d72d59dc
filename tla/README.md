# A formal model of the wpj2-decomp runtime

`src/` is a static recompilation of a Nintendo 64 game: the game's MIPS code is translated to C ahead of time
(that code is not in the repository), and the *runtime* under `src/runtime` plays the part of the console and of
libultra's scheduler around it. This directory holds TLA+ specifications of the runtime, TLC configurations that
check them on small instances, and TLAPS proofs of what holds for every instance. `PROJECT.json` lists components,
runs, the lines every definition models, the hazards the properties are for, and the theorems.

One host thread runs everything: the run loop, the game's threads one at a time, the RSP's tasks, and the delivery
of device events. Concurrency is therefore *cooperative*: what makes this code hard is the order in which yields,
preemptions, events, wakeups, destructions, savestate loads and key presses may follow one another, and state that
outlives a `longjmp` or a process.

## 1. Inventory

| Component (files of `src/runtime` unless said) | State | Operations | Hard behaviour | What makes it correct |
|---|---|---|---|---|
| Stateful scheduler (`sched_stateful.c`, `recomp_poll` in `hle.c`) | slots, run queue, wait lists, active list, thread states in RDRAM; `g_current`, `g_in_poll` | run loop, enqueue/dequeue/unlink, dispatch, yield, pause, destroy, preempt | threads destroyed while linked; polls left by `longjmp`; native wrappers on the stack | a thread is in exactly the list its state says; priority order; no lost wakeup; the top thread runs |
| Device events (`hle.c` 2059-2420, `rsp.c` completion ring) | event registrations, completion ring, SI count, Compare, masks, deadline | pass of `hle_deliver_events`, `post_event`, `deliver_rsp_task_done` | queues that are full; SP and DP sharing a queue; retries | every completion delivered once, in order, none invented |
| Message calls and native wrappers (`hle.c`) | nesting of wrappers | `osSendMesg`, `osRecvMesg`, wrapper entry and exit | a preemption inside a wrapper would unwind C frames | no preemption there |
| Continuations (`continuation.c`, `stateful_thread.c`, `src/scripts/injetar_continuacoes.py`) | frames, cursor, `resuming` of each thread | push, pop, enter, yield, dispatch, capture, restore | the host's stack is thrown away at each yield and rebuilt by calling the functions again | the call chain goes on exactly where it stopped |
| Savestates (`sched_stateful.c` 100-293, `savestate_devices.h`) | file, request flags | save, load, autosave and autoload | a load replaces memory, threads and devices under running code | all or nothing; host resources recreated |
| Audio interface (`audio.c`) | two DMA slots or a deadline, by mode | `osAiSetNextBuffer`, status, done, capture, restore | deadlines that belong to a process; promotion of the second DMA | played once, in order, never early, always answered |
| Audio playback (`audio.c`) | play slots, queued frames, WinMM device | reap, reset, open, queue, drop, fast forward | a paused device with a full table; failures half-way | frame count and slots agree with the device |
| Clock (`hle.c`, `video.c`) | retrace deadline, speed, F11, replay targets | retrace, F11, replay end, resync, load | three owners of one speed flag; slow hosts | no retrace lost or invented; speeds agree |
| RSP task submission and display lists (`rsp.c`) | `SP_STATUS`, task, ring of completions; matrix stack, segment table, RDP state | status write, task start, completion; display-list walk, commands | nested lists, stack limits, ring limit, lists skipped at 8x | completions in order; bounded walks; stack discipline |
| RT64 backend (`rt64_backend.c`, `src/rt64_bridge`) | attempted/active, module pointers | start, submit, present, shutdown | a GPU back end that fails or is torn down for a load | never used after shutdown; CPU fallback |
| PIF and input (`pif.c`) | scripts, recording, bookmark, buttons, PIF RAM | joybus walk, record, replay, savestate | three clocks for scripts; a full recording; a tape read again | a replay reads what was recorded; a repeated tape samples again and writes nothing twice |
| Controller Pack (`mempak.c`) | 32 KiB image, dirty flag, last save | init, read, write, save | batches of 500 ms; a process that ends | what a kill can lose is bounded |
| Cartridge DMA (`hle.c` 843-1178) | RDRAM, ROM | PI DMA, physical/logical copies | word-swapped bytes, alignments that differ | the bytes arrive in the console's order |
| Translation of texts (`legendas.c`, routes in `hle.c`) | catalogue, fixed and ring arenas, cache | substitute in place or move, blocks, fragments, patch the ROM, wrap lines | texts met twice, in two encodings, with pointers held | no byte beyond a text changes; every text shown is whole |
| Video window (`video.c`), process start (`runtime.c`) | window, key flags, memory map | window procedure, ROM load, watchdogs | host I/O | - |
| Rasteriser and audio ucode (`rsp.c`) | texture memory, samples per pixel, matrix stack, lights | loads, triangles, rectangles, combiner, lists | caches that outlive what they were made of; fixed-point edges | samples agree with the pixel; vertices use the stack's product; arithmetic as the console's |
| Legacy fibers (`sched.c`) | slots, fibers, the game's lists | dispatch, poll, preempt, pause, destroy | a structure created again while its old fiber lives | lists and states agree; no thread on a dead thread's stack |
| Tools (`tools/*.py`, `src/scripts/*.py`) | files | generation and analysis, offline | - | - |

How they interact: the run loop dispatches a thread through its continuation; game code polls at every loop label,
and a poll makes a pass of the device events, which asks the RSP ring, the SI, the AI and the clock what is due,
posts messages, wakes threads (scheduler) and may preempt. Savestates are taken and loaded by the run loop only,
between two dispatches, and touch every component. F11 and the window's messages are read inside a pass.

## 2. Modules

| Module | What it is | Correspondence with the code |
|---|---|---|
| `ThreadQueue` | a priority-ordered list as a sequence | `enqueue_by_priority`, `unlink_bounded`, dequeue as insertion, removal, tail |
| `Scheduler` | run loop, polls, message calls, thread life | `phase` is where the host thread is: `sched_run_stateful`'s loop ("sched"), its idle delivery ("idle"), game code ("game"), `recomp_poll` ("poll"), the exit on a full slot table ("halted"); one action per replaced libultra entry point; `resume[t]` is the message call a thread repeats when it is dispatched again |
| `PriorityScheduler` | abstract specification, which `Scheduler` is shown to implement | ready = RUNNABLE, blocked = WAITING, CPU = `g_current`, known = threads with a slot, halted = the run loop left on a full table |
| `ThreadList` | the pointers in RDRAM | each walk is a loop of actions over `TH_NEXT`/`TH_TLNEXT`; `ListsMatch` ties the pointers to the sequences of `ThreadQueue`, which justifies the sequences of `Scheduler` |
| `FiberScheduler` | the scheduler of builds without `RECOMP_STATEFUL` | `slot` is the table of fibers, `at` where in `sched.c` each fiber was left; a switch of fibers ends an action |
| `DeviceEvents` | a pass of `hle_deliver_events_impl` | `step` walks the code from the RSP to the AI; a message is the name of its event |
| `GuestCalls`, `Continuation` | what a thread's call chain is promised, and how frames keep the promise | `host` is what the host executes next; `stack` is the C stack that a yield drops |
| `AudioInterface`, `AudioPlayback`, `Audio` | the three AI modes; play slots and the WinMM device; both together | deadlines as ticks left; `device` and `done` are external, all else is `audio_play_*`; `Audio` is one call of `audio_queue_ai_buffer` through both, with retraces and savestates between calls |
| `RetraceClock` | deadline, F11, replay targets | `lead` is deadline minus clock |
| `ControllerPack`, `Pif` | the pack's blocks; the PIF's memory, scripts, recordings and bookmarks | `Walk` is the joybus walk over a tape of commands and changes the pack on its way |
| `Rt64Backend`, `RspTasks`, `Savestate` | GPU back end and bridge; task submission and ring; savestates | each module extends the one before it: a load shuts RT64 down, restores the ring and replaces the parts of the world one by one; `at` is the place in `snapshot_process_requests` |
| `RasterMath`, `TextureMemory` | clipping, coverage, filters, combiner; loads, tiles and texels | operators over small integers, one per C function |
| `MatrixStack`, `PixelSamples`, `DisplayList` | matrix stack with its cached product, and the lights; samples of one pixel; the walker of lists | one action per command; a nested list is a stack of positions, as the C recursion is; `DrawSpec` has every command and every value, `MCRaster` restricts it to the commands on offer and to pushes that fit the stack |
| `CartridgeDma`, `TextLayout`, `Catalogue`, `Relocation`, `TextBlocks`, `Subtitles` | word-swapped copies; line breaks; the catalogue and its encodings; one substitution with the arena; blocks, fragments and the patched ROM; the routes of `hle.c` | `shown` is a string being drawn: `func_80090E58` is intercepted again at every character, and the pointer it moves on may go to the arena; memory is a function from addresses to characters; a control of two bytes is two cells, so that every cursor and length is that of the code |
| `ThreadQueueProofs`, `SchedulerProofs`, `FiberSchedulerProofs`, `ContinuationProofs`, `DeviceEventsProofs`, `PifProofs`, `SavestateProofs`, `SoundAndTextProofs` | theorems and proofs about the modules they are named after; `FiberSchedulerProofs` also about `ThreadList`, `DeviceEventsProofs` about `RetraceClock`, `PifProofs` about `ControllerPack`, `SavestateProofs` about `Rt64Backend`, `RspTasks` and the rasteriser, `SoundAndTextProofs` about `AudioInterface`, `AudioPlayback`, `TextLayout` and `Relocation` | see section 5 |
| `MC*` | constants for TLC, and for `MCRaster` the scenes and probes | |

Definitions called "Variant" in a comment are mutations: each is a plausible bug (a dropped guard, a swapped
order), and a property must fail when it replaces the definition next to it. Nothing else uses them.

libultra's own `osSendMesg`, `osRecvMesg`, `osCreateThread`, `osStartThread` and `osYieldThread` are recompiled
from the ROM and not in the repository: `Scheduler` models them by how the runtime's replacements of
`__osEnqueueAndYield`, `__osPopThread` and `__osDispatchThread` are reached, and the map marks such parts external,
as it does the game's formatter and message loader in `Subtitles`.

## 3. Runs

| Run | Question | Instance and why it is enough |
|---|---|---|
| `scheduler` | Do lists, states, slots and dispatch agree whatever order threads are created, started, wake, yield, are preempted, paused and destroyed in? | three threads, two of equal priority (round-robin and overtaking need two, preemption a third), one queue that is both a message queue and an event queue, capacity 2 so that it is empty, half full and full; a native wrapper can be on the stack at any poll, and is never unwound (`PreemptOnlyForHigher`) |
| `scheduler_live` | Does the scheduler implement `PriorityScheduler`, a full slot table included? Does the top thread always get the CPU? | three threads and two slots: the third one fills the table, so the system may stop (no deadlock check) |
| `thread_list` | Do the pointer walks compute the sequence operations, and end? | four threads in three lists; the bound of the walks (2 * `MAX_THREADS`) is four, so a search really can hit it |
| `fibers` | Do lists and states agree, and does no thread run on a dead thread's fiber? | four threads, three slots (so that finished ones are reused), one message queue; structures created again while their fiber waits |
| `device_events` | Are completions lost, invented, reordered or left behind while queues are full? | queues of one message shared by SP/DP/VI and by SI/PI/AI, one for COUNTER; a ring of two, two tasks, a transfer, a Compare |
| `audio` | Is every buffer played once, in order, not early, and answered, across savestates and while calls wait for a slot? Do slots and counts agree with the device? | three modes, two sizes, four buffers: both DMA slots full with a third refused and a fourth after the promotion; three play slots, a reserve that needs all of them or two, waits of up to two |
| `clock` | Are retraces lost or invented, and do the speeds agree? | periods 3 and 1, one target of each kind, three retraces, six ticks: several periods of lateness |
| `continuation` | Does a thread go on where it stopped, after every yield and load? | a root with an indirect call, a recursive function, a poll, a dispatch and a pause; three frames, so that the limit is reached; two values for registers and temporaries |
| `input` | Does a bookmark replay what was recorded, whatever the source of the recorded input? Does a repeated tape sample controllers and repeat nothing? What can a kill take from the pack? Does the game see the keys the window reported, after a load too? | sessions with keys, scripts of both clocks, a bookmark of an earlier process; a recording of two entries, so that it overflows; two processes, and three where a bookmark is saved during a replay and replayed in its turn; tapes with a read, a pack read and a pack write |
| `savestate` | Is a savestate all or nothing, on disk and in memory? Do ring and renderer come back from it? | sessions for keys, automatic save and load, old files that are torn or hold a bad thread, kills at each step; a ring with room for fewer tasks than may end |
| `rsp` | Do the samples of a pixel agree with it, vertices with the matrix stack, and the arithmetic with its definition? Does every list end? | two colour buffers and one depth buffer, two samples; a stack of two matrices with pushes beyond it; lists that call themselves; 52880 probes of texture memory, clipping, seams, filters and combiner, blocks outside RDRAM and of every scene and switch among them |
| `texts` | Do translations leave every other byte of a resource, every control and every pointer alone, on every route to the screen? | six resources of up to 28 cells (printed, menu, one whose text ends it, spoken with and without controls, fragments) at aligned and unaligned places of the ROM, loaded again and again; ten catalogue lines: longer and shorter than their source, with a-tilde, with an accent, cut into two lines; texts of which only the rest, from some character on, is a line; a live buffer of eight cells, which one message fills and its translation does not fit; all values of `WPJ2_REALOCAR` and `WPJ2_REALOCAR_FMT` |

Bounds: `MaxTasks`, `MaxSi`, `MaxBuffers`, `MaxRetraces`, `MaxPolls`, `MaxProcesses`, `MaxTime`,
`MaxPublished` and the limits of a session cap counters in the guards of the environment's actions. The others are
limits the code has, made small: `MaxSlots`, `MaxThreads`, `RingCap`, `SiBatch`, `MaxFrames`, `ScriptMax`,
`MaxModel`, `MaxLights`, `RingSlots`, `RingBytes`, `ArenaBytes`, `SlackMax`, `CacheCap`, `TableMax`, `LiveBytes`, `RdramBytes`. No symmetry is
used where liveness is checked.

`AudioPlayback` assumes that a full table always holds the reserve, `Slots * f >= Target` for every buffer size
`f`. In the code `Slots` is 12 and the reserve at most 11 thirtieths of a second, 11 * 734 = 8074 frames at 22 kHz,
while the game's buffers have 720 frames or more: 12 * 720 = 8640. Buffers much shorter than that would leave the
device paused for ever with a full table; the assumption is where that shows.

`Subtitles` has three guards that are assumptions about the game: it loads no resource over one whose strings it
still shows, its loader does not copy over a message it has published, and no slot of the ring is taken again while a
text of the game is in it (the comment at `legendas.c:306`: 64 slots, more than the texts alive at once). Without the
first two a pointer dangles in the game itself. Two more are in its instance. No translation, and no end of one, is
itself an English line of the catalogue, or a text would be translated twice; the catalogue is a file that is not in
the repository. And no text is both spoken and printed (section 4).

### Fairness

* `Scheduler`: weak fairness of the run loop and of the end of a poll, because the host keeps executing. Strong
  fairness of polls outside wrappers and of polls with a retrace, because the generator puts a poll at every loop
  label, wrappers return, and the retrace deadline passes 60 times a second; and of the message call a thread repeats
  when it is dispatched again, which polls may precede but not for ever. Nothing is assumed about what game
  code does otherwise: it may never wait, receive or yield.
* `DeviceEvents`: passes end, passes with an expired deadline keep coming, and the threads that wait on a queue
  receive from it again and again. Without the last one a full queue would rightly stay full.
* `ThreadList`: a walk that has begun continues.
* `Audio`: time passes, retraces ask for the end of a DMA, and a call that waits for a slot goes on; loads
  eventually stop (`LoadsEnd`, an assumption of `Answered`: a player who loads for ever hears nothing). In the timed
  mode `Answered` counts: of the buffers the device took, the n-th is retired, the last one and a lone one too. In the
  clocked mode a deadline that came with a savestate is excepted (`Unclocked`, section 4).
* `Continuation`: a ready thread is dispatched and the host executes what the dispatch calls; nothing is assumed of
  the game's own code.
* `MCRaster`: the loop that draws a list goes on, for `ListEnds`.

## 4. Observed divergences

Places where a comment or the README of the repository says something the code does not do. None is known to show in
the shipped configuration. The models do what the code does; each formula below fails in the run named, if it is
added to its module and configuration.

* The comment at `rsp.c:1621` says that the words of the odd lines of the mosaic's block are swapped. The loop at
  `rsp.c:1631` goes from every odd line to the end of the block, so that a line is swapped once for each odd line
  up to it: of four lines the second and the third end up swapped. `InterleavedLines` follows the loop and
  `BlockRight` says what it does. In `rsp`: `OddLinesSwapped`.
* A key that is released while the window gets no `WM_KEYUP` stays pressed for the game until the key's next message:
  only F11 is read again from the keyboard (`video.c:644`, which says that `WM_KEYUP` is not always delivered), and
  the loss of the focus has no message of its own. `pressed` in `Pif` is what the messages said, and `KeysAsReported`
  promises that, not what a finger does.
* A preemption skipped inside a native wrapper is said to be postponed (`hle.c:1308`); no note of it is kept, and the
  next poll that delivers nothing does not preempt (`hle.c:2547`). In `scheduler`:
  `[][phase = "poll" /\ phase' = "game" => current \in native \/ ~HigherPriorityReady]_vars`.
* A pending completion is said never to be discarded by a full queue (`hle.c:2086`); the AI's is taken from the
  device before its message is known to fit (`hle.c:2392`). In `device_events`: `[][aiDmas' < aiDmas => Kept("AI")]_vars`.
* After a load the AI is said to be armed again (`audio.c:130`); in the clocked mode it is not, and the game's audio
  thread sleeps for ever. In `audio`: `Answered` without `Unclocked`.
* F11 held is said to be 8x (`README.md:192`); a replay that ends meanwhile makes it 1x until the key changes
  (`hle.c:2174`). In `clock`: `f11 => fast`.
* The pack is said to be saved after 500 ms without writes (`mempak.c:161`); it is saved by the next access only, and
  not at the end of the process (`mempak.c:162`). `LossWindow` states what does hold.
* A rejected display list is announced to leave the CPU drawing for the rest of the execution (`rt64_backend.c:161`);
  the shutdown it makes clears `g_rt64_attempted`, so that the next task starts RT64 again.
* A text cut by `\n` when its block was loaded is not recognised by the early routes, which compare with the entry
  without the cut (`legendas.c:2132`): a-tilde stays as 0x25 and the formatter takes it for its operator, against
  the comment at `legendas.c:2111`. The instance of `texts` has no spoken string of that kind.
* The slot of a catalogue line serves both routes. A message that waits in it for the formatter has 0x7F for a-tilde;
  if the same line is meanwhile drawn from the slot, as a label is, the drawing route puts 0x25 back
  (`legendas_finalizar_pos_formatador`), and the formatter meets its operator when the message's turn comes. The
  rewriting at `legendas.c:2200` covers a message published again, not one published before. In `texts`: `TextsWhole`
  with a line that is spoken and printed; the instance has none.
* A message the catalogue has in fragments is put together whole, lest the screen be half in English
  (`legendas.c:2664`). It can still be: where the whole text has no translation or no room, the rest of it from a later
  character on may have one, since the interception runs at every character (`hle.c:252`). `MaySay` admits such
  mixtures of whole lines. A rest that is translated so is not cut again together with the line it ends, and
  `LinesFit` does not speak of it.
* The zeros behind a string are said to be free (`legendas.c:2138`), and a comment of the patcher says that they may
  be a field (`legendas.c:3107`). `Slack` counts those that begin a binary field too, and those beyond the end of the
  resource; `ResourceKept` promises everything else.
* A message in the arena may have 1023 bytes, and 0x60 of them are copied to the live buffer (`hle.c:994`): a longer
  one loses its end and its NUL. `TextsWhole` has such a message; what is drawn of the memory behind the buffer is
  not modelled.
* E0 draws the protagonist's name. The code that cuts lines does not measure it (`legendas.c:131`), nor does
  `CellWidth`: a line that fits without the name may be too wide with it.
* `copy_pi_logical` copies whole words when both addresses have the same alignment (`hle.c:882`), which is wrong at
  the edges of an unaligned transfer, or one whose size is no multiple of 4; `DmaInOrder` excludes these.
* What is left of a string in the cartridge is said to be filled with zeros (`legendas.c:3118`); `make_fixed_ascii`
  fills it with spaces (`legendas.c:1929`).
* In the legacy build the poll guard is left up by a thread destroyed inside its own poll; the flag is global.
* The depth samples of a pixel outlive a depth buffer written as a colour image without an image command between.
* `func_80096B38` prepares a text for the formatter in its arena slot while the caller goes on with the low pointer;
  a text that has no newline at its end may get one more than its original (comment at `legendas.c:181`); once the
  cache of composed messages is full, each call takes another slot of the arena for good.

## 5. Proofs

Every invariant of the runs `scheduler`, `scheduler_live`, `thread_list`, `fibers`, `device_events`, `clock`,
`continuation`, `input`, `savestate` and `audio`, `ColourCoherent` and `VertexByStack` of the rasteriser, the step
properties `DispatchHighest`, `PreemptOnlyForHigher`, `FifoAmongEquals`, `CompletionKept` and `NeverEarly`, and the
refinements of `PriorityScheduler` and `GuestCalls` hold for every value of the constants that the `ASSUME`s admit. Of
the arithmetic of the rasteriser and of the texts, the theorems state what their operators do for every input.

* `ThreadQueueProofs`: insertion, removal and tail keep a list duplicate-free and ordered, change its set of
  threads by exactly one, and keep the order of the threads of one priority (lemmas used by both schedulers).
* `SchedulerProofs`: `TypeOK`, `QueueMirror`, `NoDuplicate`, `StateMatchesList`, `HostMatchesGuest` and
  `PriorityOrder`, whose conjunction is `ListsSound`, are one inductive invariant (`IInv`). None of them is
  inductive alone: a destruction unlinks a thread from the list `TH_QUEUE` names (`QueueMirror`), removes it from the
  state's list only if the two agree (`StateMatchesList`), leaves no second copy behind only if there was none
  (`NoDuplicate`), and preemption requeues the running thread, which must not be linked already
  (`HostMatchesGuest`). `DispatchHighest` and `PreemptOnlyForHigher` follow for each step: the popped head is the
  maximum of an ordered list that holds all ready threads. `NoLostWakeup` is proved for each side
  of a queue by itself (`Served`), by counting: whatever gives it something to be served with wakes a thread, if one
  waits, and a woken thread that repeats its test takes one away (`StaysServed`). `FifoAmongEquals` follows
  from the order lemmas, one per list operation. `PrioritySchedulerImplemented` maps every action of the run loop,
  the polls and the game to a step of `PriorityScheduler` or to a stutter.
* `FiberSchedulerProofs`: `ListsSound` and `FreshFiber` from `FiberInv`, which says what each slot of the fiber table
  stands for (`SlotMatches`: an unfinished one belongs to a thread that is active and was not created again, and if
  its fiber is gone the thread waits in no list), where each thread is (`Placed`), and what the fiber that executes
  may assume (`Executing`). Of `ThreadList`: `ListsMatch`, for any number of threads and queues, from `LinksInv`: every
  list spells its sequence link by link (`Spelled`), a thread is in one queue and once in the list of all threads
  (`OnceEach`, `Apart`), and a walk in progress stands behind the elements it has passed (`AtEnqueue`, `AtUnlink`).
* `ContinuationProofs`: `FramesMirrorStack` from `ContInv`: the frames are a chain of calls, each of the function that
  the site of the frame below it calls (`Chained`), the activations on the C stack are those of the lowest frames
  (`Matched`), the frames of a thread that is not running end at a site that gives the CPU up (`GaveUp`), and each
  place the host can be in (`AtHost`) says how many frames are not rebuilt yet. A site that may call several functions
  (`Indirect`) is followed by the target its frame recorded. From it `NextFrameIsTaken`, a function that is entered
  while frames are left is that of the next frame, so that `Refuse` is never reached; `NoThreadFaults`, no dispatch
  finds frames left over after the root returned; and the refinement of `GuestCalls`: a yield, a save and every step
  of a chain being rebuilt are stutters.
* `DeviceEventsProofs`: type correctness (strengthened: an AI completion pending implies a DMA in flight), the
  order of the RSP's interrupts (`InOrderOnce` plus the numbering of the accepted tasks), `CompletionKept` as a
  step property, and `NothingInvented` by counting (`CountInv`): messages in a queue plus completions still owed
  are no more than what the device did; two events may share a queue, so the count is per event and not per queue.
  The theorems also cover configurations no run has: masked events (no DP at all), unbounded tasks and any capacity.
  Of `RetraceClock`: its types, `RateKept` and `DeadlineNear` (together `Paced`) and `SpeedMatches`, for all
  periods and targets. Every step does one of six things to the deadline (`DeadlineStep`), and the arithmetic is
  about those six. The speed needs `Overridden`, a key that is down during a replay was pressed during it, and the
  types need that the retraces since the deadline started over are among those counted.
* `SoundAndTextProofs`: `PlayedInOrder` and `NeverEarly` need that a savestate holds an interval of the buffers too
  (`ImageInOrder`) and that the deadline of a DMA is never nearer than its unplayed rest (`RunsItsTime`).
  `PlaybackSound` needs that a closed device holds nothing (`ClosedHoldsNothing`) and that a paused one has not
  reached its reserve (`ReserveNotReached`); the account of frames is the sum of a function over the slots, and the
  lemmas say what a sum does when one slot changes or all are cleared.
* `SavestateProofs`: `OneMoment`, `LastSaveSurvives`, `AutoLoadOnce`, `RingIsPending`, `PictureKept` and
  `SetupNotCharged`. Since a load makes the world what a file holds, the invariant must speak of the files: a file
  is absent, damaged, or the image of a world that was of one moment and whose ring held what its guest waits for
  (`ImageOK`). The ring is an interval modulo its length, the automatic load needs that one on start comes
  before the loop (`LoopInv`), and fast-forward that the lists skipped are fewer than its phase (`PhaseInv`).
  Of the rasteriser: `VertexByStack` from `StackOK` (as long as no push was lost at the limit, the entries up to the
  top are the game's stack; a product that is not marked stale is that of the top and the projection),
  `ColourCoherent` from `PixelOK` (a pixel marked as covered belongs to a colour buffer, whose value in RDRAM is what
  its samples resolve to), and `ListsAdvance`: the nesting of lists never exceeds its bound, and every step taken
  while a list is drawn ends the innermost one or moves on in it, the safety half of `ListEnds`.
  Of its arithmetic, for every input in the ranges the C types and callers give: coverage does not depend on the
  winding (`WindingIrrelevant`); a point of a convex quadrilateral is covered by one of its two triangles at least,
  and by both on the diagonal only (`NoSeam`); filters, combiner and blender stay between what they mix
  (`ThreePointBetween`, `BilinearBetween`, `CombineBetween`, `OverBetween`); a second cycle that passes on changes
  nothing (`SecondCyclePasses`); a block load in the corridor swaps the two words of a quadword exactly when its row,
  counted in steps of DXT, is odd, and changes no byte beyond the block (`BlockLands`).
* `PifProofs`: the invariant `PifInv` says of the recording that it tells what was read (`RecordingTrue`), of a
  bookmark that it is such a recording and fits in a script, and of a replay that its script is its bookmark's and
  that the stick rests until the script moves it (`ReplayOfBookmark`); from it `ReplayFaithful` and `LossWindow`.
  The walk over the tape is a fold of the community modules: `WalkTurns` turns it into a sequence of turns of
  `Step`, over which properties are proved by induction. `RefreshIsControllers` needs that the tape in the PIF, and
  the one in a savestate, was walked before (`Answered`): where a walk is depends on the commands and not on their
  answers (`Place`), so that the walk that reads the tape back finds at each command the answer it would give.

* `SoundAndTextProofs`, the texts: `WrapFits`, the automatic break turns only spaces into breaks and leaves no line
  too wide that has a space, for any font and any text. The invariant of its loop (`WrapInv`) says that the line
  being measured is measured right, that it fits or has no space, and that every line cut already fits.
  `SubstituteStaysInside`: a substitution changes only the cells of the string, the zeros behind it or the capacity
  its caller knows, and in the arena what nothing else holds. It needs that the slots of the entries are apart and end
  below the next free cell (`SlotsApart`), which substitutions preserve and a fresh process has (`FreshIsApart`); that
  both encodings of a translation, and its lines, have one length (`ShownIs`), since a slot measured for one is written
  again with the other; and that a string that is whole ends in a NUL below the arena (`ReadTextIs`).
  `BlockKeepsFields` lifts it to the loop over a block of data: cells outside the block stay, and of those inside only
  characters and NULs change; the room of a string ends inside the block (`BlockRoomIs`), and a caller that knows the
  room needs no pointer (`WithoutPointer`). `CartridgeKeepsControls` says the same of the loops over the image: every
  cell that is no character stays, and a character stays a character, so that no string ends elsewhere.

Induction over data: the induction theorems of the library take an operator, which no installed prover can
instantiate. The forms needed here are proved for a *set* instead of an operator, from the well-foundedness of
`<` on `Nat`: a nonempty set of naturals has a least element (`LeastElement`), a set closed under successor contains
`0 .. n` (`UpTo`, `Reaches`), and one closed under adding an element contains every finite set (`SubsetInduction`). A
loop of the code that is a recursive function of the model exists and stays in the set its steps stay in
(`LoopExists`); an invariant of the loop is then proved turn by turn.

Assumptions: the `ASSUME`s of the modules, which TLC evaluates in the runs. Most give the constants their types. The
others, with their reasons: the threads are finitely many (they are structures in 8 MiB of RDRAM); a full sound table
holds the reserve (section 3); a recording fits in a script (`GRAVACAO_MAX` and `ROTEIRO_MAX` are both 4096,
`pif.c:186` and `pif.c:110`); a tape the game writes carries no answers yet; the catalogue holds no control bytes,
and the glyph of an accent is a letter; the ring of moved texts, 64 slots of 1 KiB, lies within the arena of 3 MiB
(`legendas.c:44-47`).

What attempting the proofs changed in the models: `PriorityScheduler` could not describe a run loop that gives up with
a full table, which only the run `scheduler_live` reaches; it now has `Halt`, and the refinement is checked there. And
with three processes a bookmark saved during a replay overwrote what `ReplayFaithful` compared that replay with: the
history variable now holds the bookmark being replayed, the run `input` has a session of three processes, and a file
stays until it is written again. Loops over texts were written with operators the provers cannot unfold (`SelectSeq`,
`@@`); they are functions of the loop's position now, as in the code. The type of a frame allowed chains in which no
site called the next function, so `ContInv` follows the calls. The rasteriser's specification had the constants of its
run built in; `DrawSpec` now has every command, and the run restricts it.

Only model-checked:

* liveness (`TopThreadRuns`, `EverythingDelivered`, `WalksEnd`, `Answered`, `GoesOn`, `ListEnds`): the prover
  does not reason about fairness and `ENABLED`;
* `ArithmeticRight` as a whole, which compares the rasteriser's operators with their definitions on 52880 inputs: its
  groups compose several operators (a clipped polygon, a texel through a tile, a combined pixel), of which the theorems
  above prove the parts that are about one;
* `TextsWhole`, its part `LinesFit`, and `CursorsAgree`, which say what the words of an instance become on their way through the
  game's formatter, which is external;
* `ResourceKept` as a whole: that the patch of the cartridge and the sweep of a block keep binary fields is proved
  (`CartridgeKeepsControls`, `BlockKeepsFields`), the later routes to the screen and the copies of the game's loader
  are not.

## 6. Not modelled, and why

* Window, console output, reports, watchdogs, process start: host I/O.
* Of the rasteriser: the arithmetic of lighting, fog and texture coordinate generation, and the audio ucode's
  decoder and filters: long fixed-point computations without state of their own.
* Of the texts: the composition of accented glyphs from the font's bitmaps, the audit of texts not found, the
  diagnostic switches `WPJ2_LEGENDAS_SEM_CARTUCHO`, `CART_ENTRY_LIMIT` and `ACENTOS_LEGADO`; collisions of the hash
  of the catalogue and of the patcher; the buffers of 1024 bytes, which no text of the game fills.
* Transfers from RDRAM to the cartridge (`dir` = 1).
* In `Continuation`: the work a native wrapper does again before its call while a chain is rebuilt (a property of
  each wrapper), and `wpj2_cont_validate` on damaged files (an outcome in `Savestate`). A frame whose function does
  not match (`Refuse`) is modelled, and `NextFrameIsTaken` proves that it is never met.
* A thread destroyed after it was woken and before it repeated its test takes the wakeup with it: `orphaned`
  remembers such lists, and `NoLostWakeup` excludes them: nothing in the runtime passes the wakeup on.
* Changes of a thread's priority: the runtime never writes `TH_PRIORITY`, so `Pri` is a constant.
* What RT64 draws, what the host's sound device does with a buffer, and what a kill leaves of a file being written,
  other than that a renamed file is whole.

## 7. Plan

All components with a protocol are modelled, and all their safety invariants but those of the texts are proved. What
is left is `ResourceKept` for every resource, which needs of `Subtitles` that its pointers stay at the beginnings of
strings, and of `Compose` what `SubstituteStaysInside` says of a substitution.
