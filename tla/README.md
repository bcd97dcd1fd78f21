# TLA+ models of Pairion-Client

Pairion-Client is a Qt 6 desktop voice assistant: it listens for a wake word,
streams speech to a server over a WebSocket, plays the server's speech, and shows
a scene and a memory browser. The difficulty lies in the coordination: three
threads (main, inference, encoder), Qt timers, a connection that comes and goes,
HTTP answers in any order, and a pipeline that is built when several conditions
come together. That coordination is what these modules model. Paths below are
relative to the repository; `audio/...`, `pipeline/...` and so on are under
`src/`.

## The system

| Component | State | Operations | Talks to |
|---|---|---|---|
| `AudioSessionOrchestrator` (main thread) | state, upload id, inbound stream id, streaming timeout, barge-in timer, saved VAD threshold | wake word, speech started/ended, encoded frame, timeouts, TTS started/ended, inbound stream, connection events, component errors | VAD and wake detector (queued signals in, direct calls out), playback, WebSocket client |
| `SileroVad` (inference thread) | Idle / Speaking / Trailing, threshold | one inference per 32 ms; `reset`, `setThreshold` called from the main thread | orchestrator |
| `OpenWakewordDetector` (inference thread) | sliding buffers, pre-roll, suppression window | one inference per 80 ms | orchestrator |
| `PairionAudioPlayback` (main thread) | speaking or not, silence timer, jitter buffer, drain timer, sink | frame, stream end, stop, prepare | orchestrator (synchronous signal) |
| `PairionWebSocketClient` (main thread) | socket, heartbeat and reconnect timers, attempts, intentional disconnect | connect, disconnect, messages, ticks | server; `ConnectionState`; orchestrator; startup code |
| `main.cpp` | microphone permission, models ready, retries | permission answer, models ready, `initAudioPipeline` | everything |
| `ModelDownloader` (main thread) | pending list; the files on disk | check, download next, answer | HTTP, startup code |
| `PipelineHealthMonitor` (main thread) | time of the last frame | periodic check, recovery | capture, client, `ConnectionState` |
| `PairionAudioCapture` (main thread) | running, source, accumulator | configure, start, stop, frames, device error | encoder, VAD, wake detector, monitor |
| `MemoryBrowserModel`, `MemoryClient` (main thread) | lists, selection, pending count, loading | refresh, select, clear, answers | HTTP, QML |
| `ConnectionState` (main thread) | what QML shows | setters | QML |
| `LayerManager.qml` (main thread) | two background slots, retiring slot, fades, cleanup timer, overlays | load background, sync overlays, end of a fade | `ConnectionState` |
| `Logger` (every thread) | buffer and session under a mutex | message handler, flush, set session | HTTP |
| `RingBuffer` (two threads) | slots, two atomic indices | push, pop, size | its test |
| codecs, settings, HUD | see `PROJECT.json` | | |

What is hard, and the properties that answer it, is listed per source line under
`hazards` in `PROJECT.json`. In short: signals of the inference thread are queued
while the main thread changes the VAD directly; playback reports changes
synchronously, in the middle of other handlers; a disconnect can hit any state;
timers outlive what they were started for; reconnects repeat startup work; and
answers do not say which request they belong to.

## The modules

```
UploadProtocol <---refines--- AudioSession ---uses------> Connection <---refines--- WebSocketClient
                              AudioSession ---refines---> SpeechEngine <---refines--- Playback
                              Startup -----uses---------> Connection
                              Startup -----extends------> ModelDownloader
Listening     Scene     MemoryBrowser     ClientLog ---extends---> WebSocketClient
BoundedQueue <---refines--- RingBuffer
```

**`AudioSession`** is one pipeline: orchestrator, VAD, the speaking flag of the
playback engine, and the connection and server around them. Variables carry the
names of the members (`state` is `m_state`, `activeStream` is `m_activeStreamId`,
...); each slot of the orchestrator is an action, and so is each early return that
consumes a signal (`IgnoreWakeWord`, ...). `inbox` is the main thread's queue of
signals from the inference thread. An inference is two steps, `InferBegin` (the
state and the threshold are read) and `InferCommit` (state written, signal queued),
so that a `reset()` from the main thread can fall between them, as it can in the
code. Signals the playback engine emits synchronously are part of the action that
causes them. `EndingSpeech` is never entered and is left out of `State`;
`shutdown()` is called by tests only. Five history variables (`strayFrame`,
`failed`, `playbackCut`, `interrupted`, `abandoned`) and the `stale` marks exist for
properties; no guard of the modelled code reads them, except that `interrupted` keeps a server
from reusing the identifier of a stream that was just interrupted.

**`UploadProtocol`**, **`Connection`** and **`SpeechEngine`** are abstract: at most one
upload in progress per connection, which is ended or, after a component error, abandoned
before the next one, and none that survives the connection; a link that comes up, gets a
session, and can be lost at any time; an engine that speaks on an open stream only
and is silent again before the next one. `Connection` and `SpeechEngine` are interfaces.
`WebSocketClient` and `Playback` provide them, which is shown as a refinement. `Connection`
is part of the environment of `AudioSession` and `Startup`, whose connection takes its
steps and no other. What `AudioSession` does with the engine is its own, so that it
refines `SpeechEngine` too.

**`Playback`** is `PairionAudioPlayback` with its sink. Audio is counted in units so
that a write can take part of a frame; `jitter` is the queue of what has not been
written, `device` says that `m_audioDevice` is not null. `handlePcmFrame` and the
drain timer contain the same loop, `WriteToSink`. The sink takes what it has room for
and may fail to start. `written`, `dropped` and `interrupted` are history variables.
The server's streams follow one another; each can end normally, abnormally, or with the
connection, of which nobody tells the engine. `start()` is called by tests only, and a
frame that cannot be decoded does not reach the engine.

**`WebSocketClient`** is `PairionWebSocketClient` with its `QWebSocket` (four states)
and a server that can vanish with or without the socket noticing. The delays are
numbered by their place in `kReconnectBackoffMs`. Pings and pongs change no state: a
pong is logged, and no code reads `kHeartbeatDeadlineMs`, although
`pairion-client-Audit.md:311` has it as the "Pong deadline before reconnect". `SessionClosed`
changes no state either: the client emits a signal that has no receiver. `main()` calls
`connectToServer` once; that tests also disconnect and connect again is modelled for a
closed socket, while a call with the socket closing or the reconnect timer running, against
which the code has no guard, is left out because no code makes it.

**`ModelDownloader`** and **`Startup`** are `core/model_downloader.cpp`, `main.cpp`
and the health monitor. `ModelDownloader` has actions but no `Next`: `Startup`
calls them, because `allModelsReady` is received synchronously. An answer carries
the model it was requested for only so that the model can say whether the hash
will match; the code does not look. A failed download ends its chain and leaves other
models pending; `failed` and `overlapped` speak of the latest check, so that `ModelsArrive`
requires of each new session that it gets what earlier ones left missing.
`initAudioPipeline` is three cases: the models do not load (a retry, or
`models_failed`), a thread does not start, or all is well.
`retries[c]` counts the running single-shot timers with `c` retries left.
`frames[m]` is the frame timer of health monitor `m`. Here a pipeline is only
counted; whether its orchestrator listens is `AudioSession`'s.

**`MemoryBrowser`** is the memory browser's model and HTTP client. `inFlight` holds
the unanswered requests; `turnsOf` is the episode whose turns are displayed. Two things
the header promises do not hold, and history variables delimit when. A late answer can show
the turns of an episode that is no longer selected, although `memory_browser_model.h:58`
has them "for the currently selected episode": `superseded` says that turns of another
episode were in flight when the selection last changed. And `refresh()` sets the counter
to two whatever is in flight, so that `loading` becomes false while requests are still
unanswered, against `memory_browser_model.h:26-27` and `:69`: `overlapped` says that a
refresh was made with requests in flight that are not all answered yet. The panel does so
when it is closed and opened again while loading (`qml/HUD/MemoryBrowser.qml:554-557`; its
button is disabled then, `:106`). `LoadingHeld` states that the promise is kept otherwise,
and `spinner_cleared_early` that it is broken here.

**`Listening`** follows the audio from the microphone into an upload: the capture cuts
frames, the encoder thread and the inference thread take them from queues of their own,
and Opus frames and wake words come back through the main thread's. Frames are numbered
and time counts frame periods, so a property can say which part of what was said an
upload holds. The update of the pre-roll is two steps, append and trim, because
`executeBargeIn` reads it from the main thread. The orchestrator is reduced to what
opens and closes an upload; its control is `AudioSession`'s. The classifier gives any
result on a full chunk; the suppression window is kept.

**`Scene`** is the scene part of `ConnectionState` with `LayerManager.qml`. `children`
are the items in the two slots, oldest first, because the code destroys `children[0]`
and QML removes a destroyed item only when control is back in the event loop
(`DeferredDeletes`). An item is the `"current"` background, an `"old"` one, or one of
these destroyed and not yet deleted (`"lost"`, `"dying"`). A fade is a step in which
both slots are visible; the cleanup timer may overtake its end. Signals of
`ConnectionState` are handled synchronously, in the order they are emitted. History
variables delimit what goes wrong: `broken`, when a second creation fails in a row or
one fails during a fade, after which the background shown can be destroyed although
nothing replaces it; `hurried`, when three backgrounds are asked for in one turn of the
event loop, which leaves one item too many in a slot. (The comment at
`LayerManager.qml:158`, "Alternate slots so a fading-out background is never
clobbered", holds for two changes within 800 ms; a third one empties the slot that
fades out.)

**`ClientLog`** is `Logger` beside the WebSocket client whose session labels the
records. A thread's message takes the mutex twice, so labelling and appending are two
steps. The logger keeps the last session's identifier after a disconnect, and a batch
whose POST fails is gone: `settled` holds what was delivered or lost.

**`RingBuffer`** is the contract of the class, "lock-free single-producer single-consumer" on
two threads (`ring_buffer.h:5-9`); at this commit only a test uses it, from one thread. `push`
and `pop` are split at their atomic accesses. An acquire load may
return an index that is out of date; `popsUnseen` and `pushesUnseen` bound by how much.
**`BoundedQueue`** is what the ring promises.

The modules `*Proofs` hold theorems; `MC*` give the constants for TLC.

## Runs

| Run | Checks | Bounds |
|---|---|---|
| `session` | `StreamingHeld`, `PlaybackHeld`, `BargeInNamesPlayingStream`, `IdleOnlyWhenBroken`, `BargeInTimerHeld`, `BargeInFollowsSpeech`, `ThresholdRestoredUnlessCut`, `AbandonedOnlyByErrors`, refinement of `SpeechEngine` and `UploadProtocol`, every upload ends | 2 upload ids, 3 inbound ids, 3 queued signals; disconnects and errors |
| `listening` | `DamageBounded`, `PreRollHeld`, `WakesAreApart` | 9 frame periods, pre-roll 3, window 4, confirmation 4, delay 1, 1 failure |
| `ws_client` | session, status and heartbeat agree with the connection, no stranded client, backoff schedule, `LogHeld`, refinement of `Connection`, reconnection | 2 sessions, 6 steps of backoff, attempts to 7, 2 logging threads, 3 records |
| `startup` | both gates, neither comes too late, verified files stay, startup settles, models arrive, the microphone recovers | 3 models, 3 retries, 3 sessions, 3 downloads at once |
| `playback` | `TimersHeld`, `PlayedInOrder`, `SilencedStaysSilent`, tails are played, refinement of `SpeechEngine` | 2 streams, 4 frames of 2 units, a sink of 3 units, 1 unit of warm-up |
| `scene` | `CurrentHeld`, `SettlesOnCurrent`, `OverlaysMatch` | 2 backgrounds, 1 overlay, 1 unknown id, 2 values of parameters and of data, 3 items in a slot |
| `memory` | `LoadingHeld`: loading exactly while requests are in flight unless a refresh overlapped; the spinner stops; turns match unless superseded | 2 episodes, 4 requests |
| `ring_buffer` | `NoSlotRace`, `SizesBracket`, refinement of `BoundedQueue` | capacity 4, 2 values |

The run with symmetry (`scene`) has no liveness property. Bounds: one upload can be open and one
new one started, so two identifiers show every confusion of old and new (one that an error
abandoned stays open until the connection ends, and beside it one more at a time); the server's
stream can be playing, interrupted or fresh, so three. Three queued signals are a
start and an end of a turn and a wake word, and a proof covers any length. The backoff
bound exceeds the table. Three sessions let two chains of downloads and two pipelines
coexist and a further one follow. Four requests are two overlapping refreshes. With
two units to a frame, three in the sink and one of warm-up, a write takes all, half or
nothing of a frame, and frames of two streams wait at once; the proofs cover any sizes.
Nine frame periods hold two wake words with a window between them, a device failure,
and a barge-in that is confirmed and gets live frames; the proportions are the code's
(a window of 25 frames, a pre-roll of 10, a confirmation of 20). Three items are an old,
a dying and a new one; a third background would only repeat what two identifiers and a
failed load show. Three records on two threads can be one in a post, one in the buffer
and one in between. A ring of four is empty, full and wrapped around in every position.
`MaxInbox`, `MaxAttempt`, `MaxSessions`, `MaxStreams`, `MaxUnits`, `MaxTime`,
`MaxFailures`, `MaxItems`, `MaxRecords` and `Request` are bounds of the models; the code
has none. At `MaxAttempt` the attempt counter stays put, which loses nothing since later
delays are all the last step.

Identifiers are fresh for each upload in the code (`QUuid::createUuid`); the model
reuses one only after it was closed.

Runs that end in a violation state what a comment or document says and the code does
not do; `findings` quotes the line.

| Run | What TLC finds |
|---|---|
| `barge_in_cut_short` | a frame of the interrupted stream ends the upload that a barge-in opened |
| `barge_in_beginning` | a barge-in is confirmed 400 ms after the speech was noticed, but the pre-roll holds 200 ms: the upload lacks the beginning |
| `one_pipeline` | each further session builds a further pipeline |
| `spinner_cleared_early` | two overlapping refreshes: after two of four answers `loading` is false |

Other behaviours the models have, which the properties are worded around: a disconnect
or an error during playback leaves the VAD at the barge-in threshold, and the next
playback saves it as the normal one (`ThresholdRestoredUnlessCut`); a `speechStarted`
queued before the playback starts the barge-in timer, and since the VAD was reset no
`speechEnded` follows to stop it (`BargeInFollowsSpeech`); after a capture error a
health check restarts the capture and reports ready while every orchestrator stays idle
until the next session (`IdleOnlyWhenBroken`); frames of an interrupted stream that
arrive after the barge-in are kept, and played with the next stream if theirs ends
normally or with the connection (`SilencedStaysSilent`).

Deadlock is checked in every run but those of `Playback`, where an engine without
streams, timers and buffered audio really is at rest, and of `Listening`, where time is
bounded.

## Timing and fairness

`AudioSession!TimersHaveRunOut` is one assumption on real time: the client waits
at least 1 s before it reconnects (`kReconnectBackoffMs[0]`), and the barge-in timer
(400 ms) and the silence timer (500 ms) fire before that on the same event loop. The
properties of playback and of the barge-in timer rest on it. `Listening!KeepsUp` is
another: no frame waits for more than `MaxLag` later ones, in any queue. The properties
hold for each such bound and name it; where the threads fall further behind, more is
repeated or skipped.

Fairness is weak and only on what Qt or the environment does by itself:

* `AudioSession`: the streaming timeout. A single-shot timer that stays active
  fires because the main thread never blocks. Nothing else is needed for
  `EveryUploadEnds`.
* `WebSocketClient`: the reconnect timer; an attempt to connect succeeds or fails;
  the server opens a session on each connection; the operating system notices a dead
  peer. The last one is an assumption the client depends on, having no pong deadline.
* `Startup`: retry timers, the monitors' timers, frames of a running capture, and an
  answer for each download. No fairness for the user, the device or the network, and
  none that makes loading or a download succeed.
* `Playback`: the drain timer fires and the device plays what the sink holds. Nothing
  is assumed of the server or of the sink's starting: `TailPlays` speaks of a started one.
* `MemoryBrowser`: an answer, good or bad, for each request. The HTTP client sets no
  transfer timeout, so without such a server nothing is promised.

`Reconnects` and `MicRecovers` further suppose that the server, or the device,
eventually stays; these conditions are part of the formulas.

## What is proved

TLAPS proves, for all values of the constants that satisfy the named assumptions
(identifiers differ from "none", bounds are natural numbers):

* `AudioSessionProofs`: type correctness; `StreamingHeld`; `PlaybackHeld` and
  `BargeInNamesPlayingStream`; `ThresholdRestoredUnlessCut`; `IdleOnlyWhenBroken` and
  `BargeInTimerHeld`; `BargeInFollowsSpeech`; `AbandonedOnlyByErrors`; the refinement of
  `SpeechEngine` and `UploadProtocol`. The properties are not inductive one by one. That playback implies a speaking engine on a
  live session needs to know that the barge-in timer and the engine are quiet before a
  new session; that the server knows the upload needs the equivalence of state,
  identifier and timeout; the refinement of `UploadProtocol` needs that no upload is open
  but the active one and those that errors abandoned; and that a barge-in follows speech needs the order of the signals in the queue.
  The invariant is the conjunction, proved action by action.
  `AbandonSafe` says where those come from: the pipeline drops an upload that is still open
  on the server in `onPipelineError` and nowhere else.
* `WebSocketClientProofs`: type correctness; `SessionIsCurrent`; `NeverStranded`;
  `BackoffFollowsSchedule`; the refinement of `Connection`. The invariant ties reconnect
  timer, socket, status and the intention to stay away to each other, and the attempt
  counter to the last delay. `LogHeld`, of `ClientLog`, is proved on top of it: a thread
  handles one record at a time and what it handed over before is older; no post is
  empty, so two different posts have no record in common.
* `StartupProofs`: type correctness; `BuiltWithBoth`; `NeitherComesLate`;
  `VerifiedFilesStay`. The invariant says that pending models are not cached, that a
  missing model after the first pending one is pending too, that every model before one
  that was asked for is cached, and that models are reported ready only when all are
  cached, whatever number of chains runs. That the first pending model is well defined
  (`FirstIsLeast`) uses the well-founded order of the naturals.
  `OnePipelinePerSession` completes the counterexample to `OnePipeline`: every pipeline,
  and every running retry, is owed to a session of its own (`OwedToSessions` counts the
  running timers as a finite set), so that only reconnects add pipelines, and the
  fairness on the monitors `1 .. MaxSessions` leaves none out. `ServerLossHidden` is what
  the order of the tests in `performHealthCheck` amounts to: "server_disconnected" is
  gone when the check that sets it ends. It depends on the threads' running, which once
  started they do until the application quits.
* `PlaybackProofs`: type correctness, which includes that the sink is never overfilled;
  `TimersHeld`; `PlayedInOrder`; `SilencedStaysSilent`; the refinement of `SpeechEngine`.
  The write loop is one lemma (`WriteKeepsUnits`): written and waiting units together do
  not change. Order then rests on two lemmas about concatenations, and needs that what
  was discarded had arrived; silence needs that nothing flushed waits.
* `RingBufferProofs`: type correctness; `NoSlotRace`; `SizesBracket`; the refinement of
  `BoundedQueue`. The invariant bounds what is in the ring together with what either
  thread has not seen by one lap, which makes the arithmetic modulo the capacity that of
  the naturals; the refinement follows each slot through a push, a wrap and a pop.
* `MemoryBrowserProofs`: type correctness; `LoadingHeld`; `TurnsMatchUnlessSuperseded`.
  `LoadingHeld` counts the requests in flight as a finite set, one more for each request and
  one less for each answer; `TurnsMatchUnlessSuperseded` needs that unless superseded all
  turns under way are those of the selection.
* `ListeningProofs`: type correctness; `DamageBounded`; and that `WakesAreApart` holds
  whenever the suppression window is at least the pre-roll and `MaxLag` together
  (`SuppressionSuffices`): 500 ms cover 200 ms and 300 ms of delay. The invariant relates
  frame numbers, real time and time not recorded. `PreRollHeld` (`PreRollSafe`) needs to
  know where every frame is: both threads' queues end with the latest frame, the pre-roll
  with the one before the inference queue, encoded frames wait in order, and an upload
  that waits for its first live frame has one pending near its seam or has just begun.
  It assumes that the pre-roll is not longer than the confirmation and twice the delay:
  200 ms and 400 ms in the code.
* `SceneProofs`: type correctness; `OverlaysMatch`, which has to know only that telling a
  background of parameters or data leaves its identifier alone; `CurrentHeld` and
  `SettlesOnCurrent`. These two follow the items of the slots position by position:
  lemmas say what a destruction (`DestroyOldestHolds`), a new item (`AddHolds`) and the
  deferred deletes (`KeptHolds`) leave where. The invariant names the slot of the current
  background: there it is the last item and nowhere else, a retiring slot is the other one
  and still ends with the old background, so that destroying `children[0]` of it twice
  cannot reach the new one; and a load finds at most one item in the slot it fills until
  the third of a turn.

Only model-checked: everything temporal with fairness (`EveryUploadEnds`,
`Reconnects`, `StartSettles`, `ModelsArrive`, `MicRecovers`, `SpinnerStops`, `TailPlays`),
which the prover does not reach.

## What is not modelled, and the plan

`components` in `PROJECT.json` lists every part and its status. Not modelled: the
codecs, settings, device identity, the vendor's inference library and rendering, which
are data conversions or I/O without protocol. In the components that are: the mel and
embedding buffers of the wake detector, which `warmup()` fills, decide only what the
classifier sees; transcripts, the map focus and the list of recent log lines of
`ConnectionState` are written and shown; `agentState` reaches the items of a scene the
way `sceneData` does. The logger's callback appends to that list from whatever thread
logs, without a lock: undefined behaviour of a container, of which no outcome can be
listed. The capture's rate can be configured, and frames are 640 bytes at any rate;
`Listening` counts frames and does not see their length. A pipeline in `AudioSession`
is alone; `Startup` shows that there can be several.

The order of the work was `AudioSession`, `WebSocketClient`, `Startup`, `MemoryBrowser`,
`Playback`, then `Scene`, `RingBuffer`, `ClientLog` and `Listening`, each with its proofs.
What would come next: several pipelines on one capture and one connection in one module.
