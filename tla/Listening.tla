----------------------------- MODULE Listening -----------------------------
(***************************************************************************)
(* The way of the user's audio from the microphone into an upload.         *)
(* PairionAudioCapture (main thread) cuts the device's bytes into frames   *)
(* and sends each to the encoder thread and to the inference thread; Opus  *)
(* frames and wake words come back through the main thread's queue.  An    *)
(* upload starts with the pre-roll that the wake detector keeps.  Frames   *)
(* are numbered; time counts frame periods.  AudioSession has the          *)
(* orchestrator's whole control, this module what becomes of the frames.   *)
(***************************************************************************)
EXTENDS Integers, SequencesExt

CONSTANTS
    PreRoll,        \* kPreRollBytes, in frames
    Chunk,          \* kMelChunkSamples
    Suppression,    \* kSuppressionMs
    Confirmation,   \* kBargeInMinDurationMs
    MaxLag,         \* assumed: no more frames than one above this are ever under way to a thread
    MaxTime,        \* bound: how long the model runs
    MaxFailures     \* bound: device errors and failed starts

ASSUME ListeningAssumption ==
    {PreRoll, Chunk, Suppression, Confirmation, MaxLag, MaxTime, MaxFailures} \subseteq Nat \ {0}

VARIABLES
    now,
    (* PairionAudioCapture *)
    running,
    source,          \* m_audioSource: "none", "live", or "dead" after a failure
    accumulator,     \* "stale" when it holds part of a frame of an earlier source
    frames,          \* frames emitted so far
    (* the threads' queues, and the main thread's *)
    encoderQueue, inferenceQueue, inbox,
    (* OpenWakewordDetector *)
    preRoll,         \* m_preRollBuffer
    updating,        \* processPcmFrame has appended a frame and not yet trimmed the buffer
    accumulated,     \* m_accumulatedSamples
    suppressedFrom,  \* when m_suppressionTimer was started
    (* AudioSessionOrchestrator *)
    mode,
    bargeInTimer,    \* when it expires; 0 when it does not run
    upload,          \* its pre-roll, and the first frame sent live
    (* history *)
    spliced,         \* frames with bytes of two sources
    leaked, failures,\* sources never deleted; device errors and failed starts
    spoken,          \* the frame in which the user began to speak over the playback
    lastWake,        \* the last wake word's frame, and how much was not recorded before it
    torn             \* a barge-in has read the pre-roll while it was updated

capture   == <<running, source, accumulator, frames, spliced, leaked, failures>>
queues    == <<encoderQueue, inferenceQueue, inbox>>
detector  == <<preRoll, updating, accumulated, suppressedFrom, lastWake>>
pipeline  == <<mode, bargeInTimer, upload, spoken, torn>>
vars == <<now, capture, queues, detector, pipeline>>

Frame == 1..MaxTime
Message == [kind: {"opus"}, frame: Frame]
              \cup [kind: {"wake"}, frame: Frame, preRoll: Seq(Frame)]

TypeOK ==
    /\ now \in 0..MaxTime
    /\ running \in BOOLEAN /\ source \in {"none", "live", "dead"}
    /\ accumulator \in {"empty", "stale"} /\ frames \in 0..now
    /\ encoderQueue \in Seq(Frame) /\ inferenceQueue \in Seq(Frame) /\ inbox \in Seq(Message)
    /\ preRoll \in Seq(Frame) /\ updating \in BOOLEAN /\ accumulated \in 0..Chunk - 1
    /\ suppressedFrom \in -Suppression..MaxTime
    /\ mode \in {"Idle", "AwaitingWake", "Streaming", "PlayingBack"}
    /\ bargeInTimer \in Nat
    /\ upload \in [preRoll: Seq(Frame), first: 0..MaxTime]
    /\ spliced \in Nat /\ leaked \in Nat /\ failures \in Nat
    /\ spoken \in 0..MaxTime
    /\ lastWake \in [frame: 0..MaxTime, lost: 0..MaxTime]
    /\ torn \in BOOLEAN

Upload(start) == [preRoll |-> start, first |-> 0]
Lost == now - frames      \* frame periods in which nothing was recorded

(* initAudioPipeline has started the capture; warmup() has filled the mel  *)
(* and feature buffers with silence, so any chunk can be classified.       *)
Init ==
    /\ now = 0 /\ frames = 0
    /\ running = TRUE /\ source = "live" /\ accumulator = "empty"
    /\ encoderQueue = <<>> /\ inferenceQueue = <<>> /\ inbox = <<>>
    /\ preRoll = <<>> /\ updating = FALSE /\ accumulated = 0
    /\ suppressedFrom = -Suppression
    /\ mode = "AwaitingWake" /\ bargeInTimer = 0 /\ upload = Upload(<<>>)
    /\ spliced = 0 /\ leaked = 0 /\ failures = 0
    /\ spoken = 0 /\ lastWake = [frame |-> 0, lost |-> 0] /\ torn = FALSE

-----------------------------------------------------------------------------
(* Time and the microphone.                                                *)

(* The assumption on the threads: a frame does not wait for MaxLag others. *)
KeepsUp ==
    /\ \A f \in ToSet(encoderQueue) \cup ToSet(inferenceQueue) : frames - f < MaxLag
    /\ \A m \in ToSet(inbox) : frames - m.frame < MaxLag
    /\ updating => frames - Last(preRoll) < MaxLag
    /\ bargeInTimer # 0 => now < bargeInTimer + MaxLag

Silence == ~ running /\ UNCHANGED <<capture, encoderQueue, inferenceQueue>>

(* onAudioDataReady, processAccumulator: a frame begins with what the      *)
(* accumulator holds.                                                      *)
OnAudioDataReady ==
    /\ running
    /\ frames' = frames + 1
    /\ encoderQueue' = Append(encoderQueue, frames')
    /\ inferenceQueue' = Append(inferenceQueue, frames')
    /\ accumulator' = "empty"
    /\ spliced' = IF accumulator = "stale" THEN spliced + 1 ELSE spliced
    /\ UNCHANGED <<running, source, leaked, failures>>

Tick ==
    /\ now < MaxTime /\ KeepsUp
    /\ now' = now + 1
    /\ Silence \/ OnAudioDataReady
    /\ UNCHANGED <<inbox, detector, pipeline>>

(* Every way out of Streaming clears m_activeStreamId. *)
Leave(next) == mode' = next /\ upload' = Upload(<<>>)

(* captureError makes the orchestrator idle (onPipelineError). *)
CaptureError ==
    /\ failures < MaxFailures
    /\ failures' = failures + 1
    /\ Leave("Idle")
    /\ UNCHANGED <<bargeInTimer, spoken, torn>>

(* onAudioSourceStateChanged: the source is kept, and so is the part of a  *)
(* frame it may have delivered.                                            *)
DeviceError ==
    /\ running
    /\ running' = FALSE
    /\ source' = "dead"
    /\ accumulator' \in {accumulator, "stale"}
    /\ CaptureError
    /\ UNCHANGED <<now, frames, spliced, leaked, queues, detector>>

(* start() makes a new source whatever became of the old one. *)
Start(old) ==
    \/ /\ running' = TRUE /\ source' = "live"
       /\ leaked' = IF old = "none" THEN leaked ELSE leaked + 1
       /\ UNCHANGED <<failures, pipeline>>
    \/ /\ running' = FALSE /\ source' = "dead"
       /\ leaked' = IF old = "none" THEN leaked ELSE leaked + 1
       /\ CaptureError
    \/ /\ running' = FALSE /\ source' = old /\ UNCHANGED leaked      \* format not supported
       /\ CaptureError

(* configure(), when the settings change: stop(), which deletes the source *)
(* and clears the accumulator, and start().                                *)
ConfigureKeeping ==   \* mutant: the source is not deleted
    /\ running
    /\ accumulator' = "empty"
    /\ Start(source)
    /\ UNCHANGED <<now, frames, spliced, queues, detector>>

Configure ==
    /\ running
    /\ accumulator' = "empty"
    /\ Start("none")
    /\ UNCHANGED <<now, frames, spliced, queues, detector>>

(* PipelineHealthMonitor restarts a capture that does not run: stop() then *)
(* returns early.                                                          *)
Restart ==
    /\ ~ running
    /\ Start(source)
    /\ UNCHANGED <<now, accumulator, frames, spliced, queues, detector>>

-----------------------------------------------------------------------------
(* The encoder thread.                                                     *)

EncodePcmFrame ==
    /\ encoderQueue # <<>>
    /\ encoderQueue' = Tail(encoderQueue)
    /\ inbox' = Append(inbox, [kind |-> "opus", frame |-> Head(encoderQueue)])
    /\ UNCHANGED <<now, capture, inferenceQueue, detector, pipeline>>

-----------------------------------------------------------------------------
(* The inference thread.  processPcmFrame appends to the pre-roll...       *)

AppendPreRoll ==
    /\ inferenceQueue # <<>> /\ ~ updating
    /\ inferenceQueue' = Tail(inferenceQueue)
    /\ preRoll' = Append(preRoll, Head(inferenceQueue))
    /\ updating' = TRUE
    /\ UNCHANGED <<now, capture, encoderQueue, inbox, accumulated, suppressedFrom, lastWake, pipeline>>

TrimmedLess == IF Len(preRoll) > PreRoll + 1 THEN Tail(preRoll) ELSE preRoll   \* mutant: off by one

Trimmed == IF Len(preRoll) > PreRoll THEN Tail(preRoll) ELSE preRoll      \* right(kPreRollBytes)

SuppressedLess == now - suppressedFrom < Suppression - 1     \* mutant: a shorter window

Suppressed == now - suppressedFrom < Suppression

(* ... trims it, and runs the three models on every full chunk, with any   *)
(* result.                                                                 *)
ProcessPcmFrame ==
    /\ updating
    /\ updating' = FALSE
    /\ preRoll' = Trimmed
    /\ accumulated' = (accumulated + 1) % Chunk
    /\ \/ UNCHANGED <<inbox, suppressedFrom, lastWake>>
       \/ /\ accumulated' = 0 /\ ~ Suppressed
          /\ suppressedFrom' = now
          /\ inbox' = Append(inbox, [kind |-> "wake", frame |-> Last(preRoll), preRoll |-> Trimmed])
          /\ lastWake' = [frame |-> Last(preRoll), lost |-> Lost]
    /\ UNCHANGED <<now, capture, encoderQueue, inferenceQueue, pipeline>>

-----------------------------------------------------------------------------
(* The main thread.                                                        *)

Receive(kind) ==
    /\ inbox # <<>> /\ Head(inbox).kind = kind
    /\ inbox' = Tail(inbox)
    /\ UNCHANGED <<now, capture, encoderQueue, inferenceQueue, detector>>

OnOpusFrameEncoded ==
    /\ Receive("opus")
    /\ upload' = IF mode = "Streaming" /\ upload.first = 0
                    THEN [upload EXCEPT !.first = Head(inbox).frame] ELSE upload
    /\ UNCHANGED <<mode, bargeInTimer, spoken, torn>>

(* A wake word is ignored in other states, and without a connection. *)
OnWakeWordDetected ==
    /\ Receive("wake")
    /\ \/ /\ mode = "AwaitingWake"
          /\ mode' = "Streaming"
          /\ upload' = Upload(Head(inbox).preRoll)
       \/ UNCHANGED <<mode, upload>>
    /\ UNCHANGED <<bargeInTimer, spoken, torn>>

(* The voice activity detector, on the inference thread, notices speech    *)
(* over the playback, or its end, in the frame that was examined last.     *)
(* What may happen before the main thread hears of it is AudioSession's.   *)
OnVadSpeechStarted ==
    /\ mode = "PlayingBack" /\ preRoll # <<>> /\ ~ updating
    /\ bargeInTimer' = now + Confirmation /\ spoken' = Last(preRoll)
    /\ UNCHANGED <<now, capture, queues, detector, mode, upload, torn>>

OnSpeechEnded ==
    /\ mode = "PlayingBack" /\ bargeInTimer # 0
    /\ bargeInTimer' = 0 /\ spoken' = 0
    /\ UNCHANGED <<now, capture, queues, detector, mode, upload, torn>>

(* executeBargeIn reads the inference thread's buffer: while that thread   *)
(* updates it, the main thread may find either length.                     *)
OnBargeInTimerExpired ==
    /\ bargeInTimer # 0 /\ now >= bargeInTimer
    /\ bargeInTimer' = 0
    /\ IF mode = "PlayingBack"
          THEN /\ mode' = "Streaming"
               /\ \E read \in {preRoll, Trimmed} : upload' = Upload(read)
               /\ torn' = updating
          ELSE UNCHANGED <<mode, upload, torn>>
    /\ UNCHANGED <<now, capture, queues, detector, spoken>>

(* The connection is lost (onWsDisconnected), or the encoder reports an    *)
(* error (onPipelineError); the barge-in timer is left running.            *)
BecomeIdle ==
    /\ mode # "Idle"
    /\ Leave("Idle")
    /\ UNCHANGED bargeInTimer

(* The orchestrator's other changes of state, which AudioSession models:   *)
(* speech ends, times out or is answered, the playback ends, a session     *)
(* opens or is lost, the encoder fails.                                    *)
OtherTransition ==
    /\ \/ mode = "Streaming"    /\ Leave("AwaitingWake") /\ UNCHANGED bargeInTimer
       \/ mode = "Streaming"    /\ Leave("PlayingBack")  /\ UNCHANGED bargeInTimer
       \/ mode = "AwaitingWake" /\ Leave("PlayingBack")  /\ UNCHANGED bargeInTimer
       \/ mode = "PlayingBack"  /\ Leave("AwaitingWake") /\ bargeInTimer' = 0
       \/ mode = "Idle"         /\ Leave("AwaitingWake") /\ UNCHANGED bargeInTimer
       \/ BecomeIdle
    /\ spoken' = 0 /\ torn' = FALSE
    /\ UNCHANGED <<now, capture, queues, detector>>

Next ==
    \/ Tick \/ DeviceError \/ Configure \/ Restart
    \/ EncodePcmFrame \/ AppendPreRoll \/ ProcessPcmFrame
    \/ OnOpusFrameEncoded \/ OnWakeWordDetected \/ OnVadSpeechStarted \/ OnSpeechEnded
    \/ OnBargeInTimerExpired \/ OtherTransition

Spec == Init /\ [][Next]_vars

-----------------------------------------------------------------------------
(* However the capture is stopped, reconfigured, restarted and fails, one  *)
(* source at most records, and each failure costs at most one source and   *)
(* one frame made of the bytes of two recordings (start, stop,             *)
(* onAudioSourceStateChanged).                                             *)
DamageBounded ==
    /\ running <=> source = "live"
    /\ leaked <= failures
    /\ spliced + (IF accumulator = "stale" THEN 1 ELSE 0) <= failures

(* The pre-rolls of two wake words share no audio while the microphone     *)
(* runs: the suppression window is real time, the pre-roll audio time, and *)
(* the first covers the second and the threads' delays (runClassifier).    *)
WakesAreApart ==
    [][ lastWake' # lastWake /\ lastWake.frame # 0 /\ lastWake'.lost = lastWake.lost
            => lastWake'.frame - lastWake.frame >= PreRoll ]_vars

(* An upload begins with one piece of at most PreRoll frames, one more if  *)
(* it was read during an update, and goes on with live frames: it repeats  *)
(* or skips no more of them than can be under way.  After a barge-in it    *)
(* reaches back from the confirmation by the pre-roll, less what is under  *)
(* way (processPcmFrame, onWakeWordDetected, executeBargeIn,               *)
(* onOpusFrameEncoded).                                                    *)
PreRollHeld ==
    mode = "Streaming" /\ upload.preRoll # <<>> =>
        /\ \A k \in DOMAIN upload.preRoll : upload.preRoll[k] = Head(upload.preRoll) + k - 1
        /\ Len(upload.preRoll) <= (IF torn THEN PreRoll + 1 ELSE PreRoll)
        /\ upload.first # 0 =>
              upload.first - Last(upload.preRoll) - 1 \in -(MaxLag + 1) .. MaxLag + 1
        /\ spoken # 0 => Head(upload.preRoll) - spoken <= Confirmation + 2 * MaxLag + 2 - PreRoll

(* What the user said from the moment the barge-in filter noticed it is in *)
(* the upload (audio_session_orchestrator.cpp:307: "so the server receives *)
(* the beginning of the user's interruption").                             *)
BargeInKeepsBeginning ==
    mode = "Streaming" /\ spoken # 0 => \E k \in DOMAIN upload.preRoll : upload.preRoll[k] = spoken

=============================================================================
