---------------------------- MODULE AudioSession ----------------------------
(***************************************************************************)
(* One audio pipeline: the AudioSessionOrchestrator on the main thread,    *)
(* the SileroVad and the wake detector on the inference thread, the part   *)
(* of PairionAudioPlayback the orchestrator sees (speaking or not), and    *)
(* the connection to the server.                                           *)
(*                                                                         *)
(* Signals of the inference thread reach the main thread through its event *)
(* queue (inbox).  The orchestrator however calls reset() and              *)
(* setThreshold() of the VAD directly, while the VAD may be in the middle  *)
(* of an inference: an inference is therefore two steps, InferBegin and    *)
(* InferCommit, and the second may overwrite what a reset did in between.  *)
(***************************************************************************)
EXTENDS Naturals, Sequences

CONSTANTS
    Stream,         \* identifiers of uploads (QUuid::createUuid)
    OutStream,      \* identifiers of the server's speech streams
    NoStream,       \* the empty QString
    MaxInbox,       \* bound: queued inference signals
    LinkDrops,      \* may the connection be lost?
    PipelineFaults  \* may the capture or the encoder report an error?

ASSUME StreamAssumption == NoStream \notin Stream \cup OutStream
ASSUME BoundAssumption ==
    /\ MaxInbox \in Nat
    /\ LinkDrops \in BOOLEAN
    /\ PipelineFaults \in BOOLEAN

VARIABLES
    \* the orchestrator (main thread)
    state, activeStream, inboundStream, streamingTimeout, bargeInTimer,
    normalVadThreshold,
    \* the VAD (inference thread) and the signals on their way to the main thread
    vadThreshold, vadState, vadTurn, inbox,
    \* the playback engine (main thread)
    isSpeaking,
    \* the connection, and what the server has sent and seen
    link, srvStream, uploads,
    \* history: see the comment of the properties that read them
    strayFrame, failed, playbackCut, interrupted, abandoned

orchestrator == <<state, activeStream, inboundStream, streamingTimeout,
                  bargeInTimer, normalVadThreshold>>
vad     == <<vadThreshold, vadState, vadTurn>>
server  == <<link, srvStream, uploads>>
history == <<strayFrame, failed, playbackCut, interrupted, abandoned>>
vars    == <<orchestrator, vad, inbox, isSpeaking, server, history>>

(* The connection is the one Connection describes and WebSocketClient      *)
(* provides.                                                               *)
Conn == INSTANCE Connection

State     == {"Idle", "AwaitingWake", "Streaming", "PlayingBack"}
VadState  == {"Idle", "Speaking", "Trailing"}
Threshold == {"normal", "bargeIn"}
Timer     == {"off", "on", "onStale"}    \* onStale: started by a stale speechStarted

(***************************************************************************)
(* A signal is stale when the VAD was reset after it was emitted.          *)
(***************************************************************************)
Signal == [kind: {"wake", "speechStarted", "speechEnded"}, stale: BOOLEAN]

(* An inference that has read its inputs and not yet acted on the result.  *)
Turn   == [busy: BOOLEAN, view: VadState, speech: BOOLEAN, stale: BOOLEAN]
NoTurn == [busy |-> FALSE, view |-> "Idle", speech |-> FALSE, stale |-> FALSE]

-----------------------------------------------------------------------------
(* Init: a pipeline is built and starts listening at once, whatever became *)
(* of the connection while the models were loading.                        *)

Init ==
    /\ state = "AwaitingWake"
    /\ activeStream = NoStream
    /\ inboundStream = NoStream
    /\ streamingTimeout = FALSE
    /\ bargeInTimer = "off"
    /\ normalVadThreshold = "normal"
    /\ vadThreshold = "normal"
    /\ vadState = "Idle"
    /\ vadTurn = NoTurn
    /\ inbox = <<>>
    /\ isSpeaking = FALSE
    /\ Conn!Init
    /\ srvStream = NoStream
    /\ uploads = {}
    /\ strayFrame = FALSE
    /\ failed = FALSE
    /\ playbackCut = FALSE
    /\ interrupted = NoStream
    /\ abandoned = {}

-----------------------------------------------------------------------------
(* The inference thread.                                                   *)

(* How likely speech is, as far as the two thresholds tell it apart. *)
Probability == {"low", "medium", "high"}
Reaches(p, threshold) ==
    \/ p = "high"
    \/ p = "medium" /\ threshold = "normal"

Emit(kind) ==
    inbox' = Append(inbox, [kind |-> kind, stale |-> vadTurn.stale])

(* A chunk of audio goes through the model; state and threshold are read. *)
InferBegin ==
    /\ ~vadTurn.busy
    /\ \E p \in Probability:
          vadTurn' = [busy |-> TRUE, view |-> vadState,
                      speech |-> Reaches(p, vadThreshold), stale |-> FALSE]
    /\ UNCHANGED <<orchestrator, vadThreshold, vadState, inbox, isSpeaking, server, history>>

SpeechStarts ==
    /\ vadTurn.view = "Idle" /\ vadTurn.speech
    /\ vadState' = "Speaking"
    /\ Emit("speechStarted")

SpeechContinues ==
    /\ vadTurn.view = "Trailing" /\ vadTurn.speech
    /\ vadState' = "Speaking"
    /\ UNCHANGED inbox

SilenceStarts ==
    /\ vadTurn.view = "Speaking" /\ ~vadTurn.speech
    /\ vadState' = "Trailing"
    /\ UNCHANGED inbox

SpeechEnds ==   \* the silence has lasted silenceEndMs
    /\ vadTurn.view = "Trailing" /\ ~vadTurn.speech
    /\ vadState' = "Idle"
    /\ Emit("speechEnded")

NothingNew ==
    /\ \/ vadTurn.view = "Idle" /\ ~vadTurn.speech
       \/ vadTurn.view = "Speaking" /\ vadTurn.speech
       \/ vadTurn.view = "Trailing" /\ ~vadTurn.speech
    /\ UNCHANGED <<vadState, inbox>>

InferCommit ==
    /\ vadTurn.busy
    /\ Len(inbox) < MaxInbox
    /\ SpeechStarts \/ SpeechContinues \/ SilenceStarts \/ SpeechEnds \/ NothingNew
    /\ vadTurn' = NoTurn
    /\ UNCHANGED <<orchestrator, vadThreshold, isSpeaking, server, history>>

WakeWordFires ==
    /\ Len(inbox) < MaxInbox
    /\ inbox' = Append(inbox, [kind |-> "wake", stale |-> FALSE])
    /\ UNCHANGED <<orchestrator, vad, isSpeaking, server, history>>

-----------------------------------------------------------------------------
(* What the main thread's handlers are built from.                         *)

(* m_vad->reset(), called from the main thread: signals that are already   *)
(* queued stay queued, an inference that is under way is not stopped.      *)
AllStale(q) == [i \in DOMAIN q |-> [q[i] EXCEPT !.stale = TRUE]]
ResetVad(queue) ==
    /\ vadState' = "Idle"
    /\ vadTurn' = [vadTurn EXCEPT !.stale = vadTurn.busy]
    /\ inbox' = AllStale(queue)

(* Messages about an upload; a socket that is down drops them. *)
SendStart(s) == uploads' = IF link = "down" THEN uploads ELSE uploads \cup {s}
SendEnd(s)   == uploads' = IF link = "down" THEN uploads ELSE uploads \ {s}

(* A new upload under a fresh identifier: AudioStreamStart, pre-roll,      *)
(* Streaming, timeout.                                                     *)
OpenUploadWithoutTimeout(s) ==   \* mutant
    /\ s \in Stream \ (uploads \cup {activeStream})
    /\ SendStart(s)
    /\ activeStream' = s
    /\ state' = "Streaming"
    /\ UNCHANGED streamingTimeout

OpenUpload(s) ==
    /\ s \in Stream \ (uploads \cup {activeStream})
    /\ SendStart(s)
    /\ activeStream' = s
    /\ state' = "Streaming"
    /\ streamingTimeout' = TRUE

(* The end of an upload: SpeechEnded, AudioStreamEnd, no identifier left. *)
EndUploadUnannounced ==   \* mutant: the server is not told
    /\ streamingTimeout' = FALSE
    /\ activeStream' = NoStream
    /\ UNCHANGED uploads

EndUpload ==
    /\ streamingTimeout' = FALSE
    /\ SendEnd(activeStream)
    /\ activeStream' = NoStream

(* The handler of the first signal in the queue. *)
Receives(kind) ==
    /\ inbox # <<>>
    /\ Head(inbox).kind = kind

Ignore ==
    /\ inbox' = Tail(inbox)
    /\ UNCHANGED <<orchestrator, vad, isSpeaking, server, history>>

-----------------------------------------------------------------------------
(* The main thread: signals of the inference thread.                       *)

OnWakeWordDetected ==
    /\ Receives("wake")
    /\ state = "AwaitingWake"
    /\ link # "down"
    /\ \E s \in Stream: OpenUpload(s)
    /\ ResetVad(Tail(inbox))
    /\ UNCHANGED <<inboundStream, bargeInTimer, normalVadThreshold, vadThreshold,
                   isSpeaking, link, srvStream, history>>

IgnoreWakeWord ==
    /\ Receives("wake")
    /\ state # "AwaitingWake" \/ link = "down"
    /\ Ignore

OnVadSpeechStarted ==
    /\ Receives("speechStarted")
    /\ state = "PlayingBack"
    /\ bargeInTimer' = IF Head(inbox).stale THEN "onStale" ELSE "on"
    /\ inbox' = Tail(inbox)
    /\ UNCHANGED <<state, activeStream, inboundStream, streamingTimeout,
                   normalVadThreshold, vad, isSpeaking, server, history>>

IgnoreSpeechStarted ==
    /\ Receives("speechStarted")
    /\ state # "PlayingBack"
    /\ Ignore

(* endStream: the upload is ended and the pipeline listens again. *)
EndStream ==
    /\ EndUpload
    /\ state' = "AwaitingWake"
    /\ UNCHANGED <<inboundStream, bargeInTimer, normalVadThreshold, vad,
                   isSpeaking, link, srvStream, history>>

SpeechEndedEndsStream ==
    /\ Receives("speechEnded")
    /\ state = "Streaming"
    /\ EndStream
    /\ inbox' = Tail(inbox)

SpeechEndIgnored ==   \* mutant: the end of the speech does not stop the timer
    /\ Receives("speechEnded")
    /\ state = "PlayingBack"
    /\ inbox' = Tail(inbox)
    /\ UNCHANGED <<orchestrator, vad, isSpeaking, server, history>>

SpeechEndedFiltersBargeIn ==
    /\ Receives("speechEnded")
    /\ state = "PlayingBack"
    /\ bargeInTimer' = "off"
    /\ inbox' = Tail(inbox)
    /\ UNCHANGED <<state, activeStream, inboundStream, streamingTimeout,
                   normalVadThreshold, vad, isSpeaking, server, history>>

IgnoreSpeechEnded ==
    /\ Receives("speechEnded")
    /\ state \in {"Idle", "AwaitingWake"}
    /\ Ignore

-----------------------------------------------------------------------------
(* The main thread: the encoder's frames, timers, errors.                  *)

(* The encoder encodes every captured frame, uploading or not. *)
OnOpusFrameEncoded ==
    /\ state = "Streaming"
    /\ strayFrame' = (strayFrame \/ activeStream \notin uploads)
    /\ UNCHANGED <<orchestrator, vad, inbox, isSpeaking, server, failed, playbackCut,
                   interrupted, abandoned>>

OnStreamingTimeout ==
    /\ streamingTimeout
    /\ state = "Streaming"
    /\ EndStream
    /\ UNCHANGED inbox

OnPipelineError ==
    /\ PipelineFaults
    /\ streamingTimeout' = FALSE
    /\ activeStream' = NoStream
    /\ state' = "Idle"
    /\ failed' = TRUE
    /\ abandoned' = abandoned \cup ({activeStream} \ {NoStream})
    /\ playbackCut' = (playbackCut \/ state = "PlayingBack")
    /\ UNCHANGED <<inboundStream, bargeInTimer, normalVadThreshold, vad, inbox,
                   isSpeaking, server, strayFrame, interrupted>>

-----------------------------------------------------------------------------
(* The main thread: playback.  The playback engine reports a change of     *)
(* isSpeaking synchronously, so its step and the orchestrator's handler    *)
(* are one action.                                                         *)

RaiseVadThreshold ==
    /\ normalVadThreshold' = vadThreshold
    /\ vadThreshold' = "bargeIn"
    /\ ResetVad(inbox)

(* "speaking".  PlaybackHeld makes the test for a burst that starts while  *)
(* PlayingBack redundant: an engine that is speaking does not start to.    *)
OnTtsPlaybackStarted ==
    IF state = "Idle"
    THEN UNCHANGED <<state, activeStream, streamingTimeout, bargeInTimer,
                     normalVadThreshold, vad, inbox, uploads>>
    ELSE /\ state' = "PlayingBack"
         /\ RaiseVadThreshold
         /\ bargeInTimer' = IF state = "PlayingBack" THEN "off" ELSE bargeInTimer
         /\ IF state = "Streaming"
            THEN EndUpload
            ELSE UNCHANGED <<streamingTimeout, uploads, activeStream>>

KeepTimerAfterPlayback ==   \* mutant: the barge-in filter is left running
    IF state = "PlayingBack"
    THEN /\ vadThreshold' = normalVadThreshold
         /\ ResetVad(inbox)
         /\ state' = "AwaitingWake"
         /\ UNCHANGED bargeInTimer
    ELSE UNCHANGED <<bargeInTimer, vad, inbox, state>>

KeepThresholdAfterPlayback ==   \* mutant: the threshold stays raised
    IF state = "PlayingBack"
    THEN /\ bargeInTimer' = "off"
         /\ ResetVad(inbox)
         /\ state' = "AwaitingWake"
         /\ UNCHANGED vadThreshold
    ELSE UNCHANGED <<bargeInTimer, vad, inbox, state>>

(* "idle"; in every state but PlayingBack the orchestrator ignores it. *)
OnTtsPlaybackEnded ==
    IF state = "PlayingBack"
    THEN /\ bargeInTimer' = "off"
         /\ vadThreshold' = normalVadThreshold
         /\ ResetVad(inbox)
         /\ state' = "AwaitingWake"
    ELSE UNCHANGED <<bargeInTimer, vad, inbox, state>>

(* executeBargeIn.  playback->stop() reports "idle" first, which runs      *)
(* OnTtsPlaybackEnded; the rest leaves the same values, then streams.      *)
ExecuteBargeIn ==
    /\ isSpeaking' = FALSE
    /\ vadThreshold' = normalVadThreshold
    /\ ResetVad(inbox)
    /\ \E s \in Stream: OpenUpload(s)
    /\ interrupted' = inboundStream
    /\ UNCHANGED <<inboundStream, normalVadThreshold, link, srvStream,
                   strayFrame, failed, playbackCut, abandoned>>

OnBargeInTimerExpired ==
    /\ bargeInTimer # "off"
    /\ bargeInTimer' = "off"
    /\ IF state = "PlayingBack"
       THEN ExecuteBargeIn
       ELSE UNCHANGED <<state, activeStream, inboundStream, streamingTimeout,
                        normalVadThreshold, vad, inbox, isSpeaking, server, history>>

(* No frame for 500 ms: the playback engine falls silent by itself. *)
OnSilenceTimeout ==
    /\ isSpeaking
    /\ isSpeaking' = FALSE
    /\ OnTtsPlaybackEnded
    /\ UNCHANGED <<activeStream, inboundStream, streamingTimeout,
                   normalVadThreshold, server, history>>

-----------------------------------------------------------------------------
(* The server's speech streams: start, frames, end, one after the other.   *)

ForgetInboundStream ==   \* mutant: the stream's identifier is not stored
    /\ link = "session"
    /\ srvStream = NoStream
    /\ \E d \in OutStream \ {inboundStream, interrupted}: srvStream' = d
    /\ UNCHANGED <<orchestrator, vad, inbox, isSpeaking, link, uploads, history>>

OnInboundAudioStreamStart ==
    /\ link = "session"
    /\ srvStream = NoStream
    /\ \E d \in OutStream \ {inboundStream, interrupted}:
          /\ srvStream' = d
          /\ inboundStream' = d
    /\ UNCHANGED <<state, activeStream, streamingTimeout, bargeInTimer,
                   normalVadThreshold, vad, inbox, isSpeaking, link, uploads, history>>

OnInboundAudio ==
    /\ srvStream # NoStream
    /\ ~isSpeaking      \* a frame while speaking changes nothing here
    /\ isSpeaking' = TRUE
    /\ OnTtsPlaybackStarted
    /\ UNCHANGED <<inboundStream, link, srvStream, history>>

EndStreamSilently ==   \* mutant: "idle" is not reported
    /\ srvStream # NoStream
    /\ srvStream' = NoStream
    /\ isSpeaking' = FALSE
    /\ UNCHANGED <<orchestrator, vad, inbox, link, uploads, history>>

KeepEndToItself ==   \* mutant: the end is not passed on to the engine
    /\ srvStream # NoStream
    /\ srvStream' = NoStream
    /\ UNCHANGED <<orchestrator, vad, inbox, isSpeaking, link, uploads, history>>

OnInboundStreamEnd ==
    /\ srvStream # NoStream
    /\ srvStream' = NoStream
    /\ isSpeaking' = FALSE
    /\ IF isSpeaking
       THEN OnTtsPlaybackEnded
       ELSE UNCHANGED <<bargeInTimer, vad, inbox, state>>
    /\ UNCHANGED <<activeStream, inboundStream, streamingTimeout,
                   normalVadThreshold, link, uploads, history>>

-----------------------------------------------------------------------------
(* The connection.                                                         *)

(* The connection is lost, or an attempt to connect fails. *)
OnWsDisconnected ==
    /\ LinkDrops
    /\ Conn!Lose
    /\ srvStream' = NoStream
    /\ uploads' = {}
    /\ abandoned' = {}
    /\ streamingTimeout' = FALSE
    /\ activeStream' = NoStream
    /\ state' = "Idle"
    /\ playbackCut' = (playbackCut \/ state = "PlayingBack")
    /\ UNCHANGED <<inboundStream, bargeInTimer, normalVadThreshold, vad, inbox,
                   isSpeaking, strayFrame, failed, interrupted>>

(* The client waits at least a second before it connects again: by then    *)
(* the 500 ms silence timer and the 400 ms barge-in timer have run out.    *)
TimersHaveRunOut ==
    /\ ~isSpeaking
    /\ bargeInTimer = "off"

Connect ==
    /\ TimersHaveRunOut
    /\ Conn!Open
    /\ UNCHANGED <<orchestrator, vad, inbox, isSpeaking, srvStream, uploads, history>>

ReconnectWithoutListening ==   \* mutant: startListening is not called
    /\ Conn!OpenSession
    /\ failed' = FALSE
    /\ UNCHANGED <<orchestrator, vad, inbox, isSpeaking, srvStream, uploads,
                   strayFrame, playbackCut, interrupted, abandoned>>

(* sessionOpened; startListening does nothing unless Idle. *)
OnWsReconnected ==
    /\ Conn!OpenSession
    /\ state' = IF state = "Idle" THEN "AwaitingWake" ELSE state
    /\ failed' = FALSE
    /\ UNCHANGED <<activeStream, inboundStream, streamingTimeout, bargeInTimer,
                   normalVadThreshold, vad, inbox, isSpeaking, srvStream, uploads,
                   strayFrame, playbackCut, interrupted, abandoned>>

-----------------------------------------------------------------------------
Next ==
    \/ InferBegin
    \/ InferCommit
    \/ WakeWordFires
    \/ OnWakeWordDetected
    \/ IgnoreWakeWord
    \/ OnVadSpeechStarted
    \/ IgnoreSpeechStarted
    \/ SpeechEndedEndsStream
    \/ SpeechEndedFiltersBargeIn
    \/ IgnoreSpeechEnded
    \/ OnOpusFrameEncoded
    \/ OnStreamingTimeout
    \/ OnPipelineError
    \/ OnBargeInTimerExpired
    \/ OnSilenceTimeout
    \/ OnInboundAudioStreamStart
    \/ OnInboundAudio
    \/ OnInboundStreamEnd
    \/ OnWsDisconnected
    \/ Connect
    \/ OnWsReconnected

Spec == Init /\ [][Next]_vars

(* The only timer a stream relies on is the streaming timeout: Qt fires a  *)
(* timer that stays active, because the main thread never blocks.          *)
FairSpec == Spec /\ WF_vars(OnStreamingTimeout)

-----------------------------------------------------------------------------
(* Properties.                                                             *)

(* The type invariant. *)
TypeOK ==
    /\ state \in State
    /\ activeStream \in Stream \cup {NoStream}
    /\ inboundStream \in OutStream \cup {NoStream}
    /\ streamingTimeout \in BOOLEAN
    /\ bargeInTimer \in Timer
    /\ normalVadThreshold \in Threshold
    /\ vadThreshold \in Threshold
    /\ vadState \in VadState
    /\ vadTurn \in Turn
    /\ inbox \in Seq(Signal) /\ Len(inbox) <= MaxInbox
    /\ isSpeaking \in BOOLEAN
    /\ link \in Conn!Link
    /\ srvStream \in OutStream \cup {NoStream}
    /\ uploads \in SUBSET Stream
    /\ strayFrame \in BOOLEAN
    /\ failed \in BOOLEAN
    /\ playbackCut \in BOOLEAN
    /\ interrupted \in OutStream \cup {NoStream}
    /\ abandoned \in SUBSET Stream

(* An upload has an identifier and a running 30 s timeout exactly while    *)
(* the pipeline is streaming, and the server knows it as started: whatever *)
(* ended the previous one (endStream, playback, barge-in, disconnect).     *)
(* Frames the encoder finishes late find neither a stale nor an empty      *)
(* identifier: none is sent outside an open upload (strayFrame).           *)
StreamingHeld ==
    /\ (state = "Streaming") <=> (activeStream # NoStream)
    /\ (state = "Streaming") <=> streamingTimeout
    /\ (state = "Streaming") => activeStream \in uploads /\ link # "down"
    /\ ~strayFrame

(* While the pipeline is playing back, the engine really is speaking, on a *)
(* live session, and the VAD runs at the barge-in threshold: no timer, end *)
(* of stream or barge-in leaves the orchestrator behind the engine.        *)
PlaybackHeld ==
    state = "PlayingBack" =>
        /\ isSpeaking
        /\ link = "session"
        /\ vadThreshold = "bargeIn"

(* The stream a barge-in would name as interrupted (m_inboundStreamId) is  *)
(* the one the server is sending, and there is one whenever the pipeline   *)
(* is playing back: no disconnect or earlier stream leaves a stale name.   *)
BargeInNamesPlayingStream ==
    /\ srvStream # NoStream => link = "session" /\ inboundStream = srvStream
    /\ state = "PlayingBack" => srvStream # NoStream

(* With a session open, the pipeline listens, uploads or plays; it is idle *)
(* only after a capture or encoder error of this session (history variable *)
(* failed): onWsReconnected never meets a pipeline it does not revive.     *)
IdleOnlyWhenBroken == state = "Idle" /\ link = "session" => failed

(* The barge-in filter runs during playback only; the one it outlives is a *)
(* playback that was cut off by a disconnect or an error.                  *)
BargeInTimerHeld ==
    bargeInTimer # "off" =>
        /\ link # "up"
        /\ state = "PlayingBack" \/ (state = "Idle" /\ (failed \/ link = "down"))

(* While a barge-in timer that was started by speech over this playback    *)
(* runs, the VAD hears that speech or its end is on its way to the         *)
(* orchestrator, which stops the timer.  A timer started by a speechStarted*)
(* from before the last reset (onStale) has no such warrant.               *)
BargeInFollowsSpeech ==
    state = "PlayingBack" /\ bargeInTimer = "on" =>
        vadState # "Idle" \/ \E i \in DOMAIN inbox : inbox[i].kind = "speechEnded"

(* As long as no playback was cut off by a disconnect or an error (history *)
(* variable playbackCut), the VAD runs at the normal threshold whenever    *)
(* the pipeline is not playing back, and the threshold saved for later is  *)
(* the normal one.                                                         *)
ThresholdRestoredUnlessCut ==
    ~playbackCut =>
        /\ vadThreshold = "bargeIn" => state = "PlayingBack"
        /\ normalVadThreshold = "normal"

(* The client is a well-behaved uploader: see UploadProtocol.  What errors *)
(* of the capture or the encoder leave open on the server (history         *)
(* variable abandoned) is all that is ever left open beside the upload in  *)
(* progress, and it goes with the connection.                              *)
Upload == INSTANCE UploadProtocol WITH online <- (link # "down")
ImplementsUploadProtocol == Upload!Spec

(* An upload is never dropped silently: when the pipeline gives up the     *)
(* identifier of its upload (end of speech, timeout, playback, barge-in,   *)
(* disconnect), the server no longer has it open.  Only an error of the    *)
(* capture or the encoder (onPipelineError) leaves it open.                *)
AbandonedOnlyByErrors ==
    [][activeStream # NoStream /\ activeStream' # activeStream =>
           activeStream \notin uploads' \/ OnPipelineError]_vars

(* The playback engine, as far as the pipeline sees it, is the one that    *)
(* Playback provides: it has fallen silent when a stream starts.           *)
Engine == INSTANCE SpeechEngine WITH speaking <- isSpeaking,
                                     streaming <- (srvStream # NoStream)
ImplementsSpeechEngine == Engine!Spec

(* Every upload is ended, unless an error abandons it: the streaming       *)
(* timeout bounds a stream whose speech never ends, also one that a        *)
(* barge-in opened.                                                        *)
EveryUploadEnds == \A s \in Stream: s \in uploads ~> s \notin uploads \/ s \in abandoned

-----------------------------------------------------------------------------
(* What a comment of the code says and the code does not do.               *)

(* audio_session_orchestrator.h: a barge-in opens an upload "so the user's *)
(* interruption is captured and forwarded to the server".  It is ended by  *)
(* frames of the very stream that was interrupted.                         *)
BargeInUploadKept ==
    [][state = "Streaming" /\ state' = "PlayingBack" => srvStream # interrupted]_vars

=============================================================================
