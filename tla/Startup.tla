------------------------------ MODULE Startup ------------------------------
(***************************************************************************)
(* main.cpp: when the audio pipeline is built, and what pipelineHealth     *)
(* shows.  The microphone permission and the models can become available   *)
(* in either order; every SessionOpened checks the models again; building  *)
(* a pipeline can fail and is retried; then a PipelineHealthMonitor looks  *)
(* after the connection, the microphone and the flow of audio frames.      *)
(***************************************************************************)
EXTENDS ModelDownloader

CONSTANTS
    MaxRetries,     \* 3: how often the loading of the models is retried
    MaxSessions     \* bound: sessions opened in a run

ASSUME StartupAssumption ==
    /\ MaxRetries \in Nat
    /\ MaxSessions \in Nat

VARIABLES
    link, sessions,         \* the connection; how many sessions it has had
    micPermission, modelsReady,
    retries,                \* [c |-> running retry timers with c retries left]
    pipelines,              \* pipelines (orchestrators) that were built
    threads,                \* do the encoder and inference threads run?
    device, capture,        \* is there an input device; is it being captured?
    frames,                 \* per health monitor: when it last saw a frame
    pipelineHealth

pipeline == <<retries, pipelines, threads, capture, frames, pipelineHealth>>
vars == <<downloader, link, sessions, micPermission, modelsReady, pipeline, device>>

Conn == INSTANCE Connection

Health == {"connecting", "models_loading", "initializing", "ready", "mic_offline",
           "wake_failed", "server_disconnected", "models_failed", "pipeline_error"}
Permission == {"undetermined", "granted", "denied"}
FrameTimer == {"none", "recent", "old"}     \* old: more than kFrameTimeoutMs ago
RetryCount == 0 .. MaxRetries

TypeOK ==
    /\ DownloaderTypeOK
    /\ link \in Conn!Link
    /\ sessions \in 0 .. MaxSessions
    /\ micPermission \in Permission
    /\ modelsReady \in BOOLEAN
    /\ retries \in [RetryCount -> Nat]
    /\ pipelines \in Nat
    /\ threads \in BOOLEAN
    /\ device \in BOOLEAN
    /\ capture \in BOOLEAN
    /\ frames \in Seq(FrameTimer) /\ Len(frames) <= pipelines
    /\ pipelineHealth \in Health

(* A permission that is decided already is handled before anything else. *)
Init ==
    /\ DownloaderInit
    /\ link = "down"
    /\ sessions = 0
    /\ micPermission \in Permission
    /\ modelsReady = FALSE
    /\ retries = [c \in RetryCount |-> 0]
    /\ pipelines = 0
    /\ threads = FALSE
    /\ device \in BOOLEAN
    /\ capture = FALSE
    /\ frames = <<>>
    /\ pipelineHealth = IF micPermission = "denied" THEN "mic_offline" ELSE "connecting"

-----------------------------------------------------------------------------
(* initAudioPipeline.  It finds pipelineHealth = health and the given retry *)
(* timers.                                                                 *)

GiveUpSilently(health, retryCount, timers) ==   \* mutant: nobody is told
    /\ retries' = IF retryCount > 0 THEN [timers EXCEPT ![retryCount - 1] = @ + 1] ELSE timers
    /\ pipelineHealth' = health
    /\ UNCHANGED <<pipelines, threads, capture, frames>>

ModelsDoNotLoad(health, retryCount, timers) ==
    /\ IF retryCount > 0
       THEN /\ retries' = [timers EXCEPT ![retryCount - 1] = @ + 1]
            /\ pipelineHealth' = health
       ELSE /\ retries' = timers
            /\ pipelineHealth' = "models_failed"
    /\ UNCHANGED <<pipelines, threads, capture, frames>>

(* The orchestrator exists, but a thread does not run: nothing is started. *)
ThreadsDoNotStart(timers) ==
    /\ ~threads
    /\ retries' = timers
    /\ pipelines' = pipelines + 1
    /\ pipelineHealth' = "pipeline_error"
    /\ UNCHANGED <<threads, capture, frames>>

(* capture->start() does nothing if it is running, and fails without a     *)
(* device; the health says ready either way.                               *)
PipelineStarts(timers) ==
    /\ retries' = timers
    /\ pipelines' = pipelines + 1
    /\ threads' = TRUE
    /\ capture' = (capture \/ device)
    /\ pipelineHealth' = "ready"
    /\ frames' = Append(frames, "none")

InitAudioPipeline(health, retryCount, timers) ==
    \/ ModelsDoNotLoad(health, retryCount, timers)
    \/ ThreadsDoNotStart(timers)
    \/ PipelineStarts(timers)

RetryTimerFires(c) ==
    /\ retries[c] > 0
    /\ InitAudioPipeline(pipelineHealth, c, [retries EXCEPT ![c] = @ - 1])
    /\ UNCHANGED <<downloader, link, sessions, micPermission, modelsReady, device>>

-----------------------------------------------------------------------------
(* The two gates of the pipeline.                                          *)

EitherGate(health) ==   \* mutant: one of the two is enough
    IF micPermission' = "granted" \/ modelsReady'
    THEN InitAudioPipeline(health, MaxRetries, retries)
    ELSE /\ pipelineHealth' = health
         /\ UNCHANGED <<retries, pipelines, threads, capture, frames>>

(* tryStartPipeline, in a handler that has just set pipelineHealth. *)
TryStartPipeline(health) ==
    IF micPermission' = "granted" /\ modelsReady'
    THEN InitAudioPipeline(health, MaxRetries, retries)
    ELSE /\ pipelineHealth' = health
         /\ UNCHANGED <<retries, pipelines, threads, capture, frames>>

OnlyRemember ==   \* mutant: the grant does not try to start the pipeline
    /\ micPermission = "undetermined"
    /\ micPermission' \in {"granted", "denied"}
    /\ UNCHANGED <<downloader, link, sessions, modelsReady, device, pipeline>>

(* The user answers the request for the microphone. *)
HandlePermission ==
    /\ micPermission = "undetermined"
    /\ micPermission' \in {"granted", "denied"}
    /\ UNCHANGED <<downloader, link, sessions, modelsReady, device>>
    /\ IF micPermission' = "granted"
       THEN TryStartPipeline(pipelineHealth)
       ELSE /\ pipelineHealth' = "mic_offline"
            /\ UNCHANGED <<retries, pipelines, threads, capture, frames>>

OnAllModelsReady ==
    /\ modelsReady' = TRUE
    /\ TryStartPipeline("initializing")

-----------------------------------------------------------------------------
(* Downloads.                                                              *)

DownloadFinished(r) ==
    /\ UNCHANGED <<link, sessions, micPermission, device>>
    /\ \/ DownloadSucceeds(r) /\ pending' = {} /\ OnAllModelsReady
       \/ DownloadSucceeds(r) /\ pending' # {} /\ UNCHANGED <<modelsReady, pipeline>>
       \/ DownloadFails(r) /\ UNCHANGED <<modelsReady, pipeline>>
       \/ ReplyIgnored(r) /\ UNCHANGED <<modelsReady, pipeline>>

-----------------------------------------------------------------------------
(* The connection.                                                         *)

LinkComesUp ==
    /\ Conn!Open
    /\ UNCHANGED <<downloader, sessions, micPermission, modelsReady, pipeline, device>>

(* What the orchestrators do then, and after an error of the capture, is   *)
(* AudioSession's.                                                         *)
OnDisconnected ==
    /\ Conn!Lose
    /\ UNCHANGED <<downloader, sessions, micPermission, modelsReady, retries, pipelines,
                   threads, capture, frames, pipelineHealth, device>>

(* sessionOpened: the models are checked again, whatever was found before. *)
OnSessionOpened ==
    /\ sessions < MaxSessions
    /\ sessions' = sessions + 1
    /\ Conn!OpenSession
    /\ CheckAndDownload
    /\ UNCHANGED <<micPermission, device>>
    /\ IF pending' = {}
       THEN OnAllModelsReady
       ELSE /\ pipelineHealth' = "models_loading"
            /\ UNCHANGED <<modelsReady, retries, pipelines, threads, capture, frames>>

-----------------------------------------------------------------------------
(* The microphone.                                                         *)

DeviceLost ==
    /\ device
    /\ device' = FALSE
    /\ capture' = FALSE
    /\ UNCHANGED <<downloader, link, sessions, micPermission, modelsReady, retries,
                   pipelines, threads, frames, pipelineHealth>>

DeviceBack ==
    /\ ~device
    /\ device' = TRUE
    /\ UNCHANGED <<downloader, link, sessions, micPermission, modelsReady, pipeline>>

FramesBecome(age) ==
    /\ frames' = age
    /\ UNCHANGED <<downloader, link, sessions, micPermission, modelsReady, retries,
                   pipelines, threads, capture, pipelineHealth, device>>

FramesArrive ==
    /\ capture
    /\ FramesBecome([m \in DOMAIN frames |-> "recent"])

FramesStop == FramesBecome([m \in DOMAIN frames |->
                               IF frames[m] = "recent" THEN "old" ELSE frames[m]])

-----------------------------------------------------------------------------
(* performHealthCheck of monitor m.  The threads, once started, run until  *)
(* the application quits: their checks find nothing.                       *)

Recoverable == {"mic_offline", "wake_failed", "pipeline_error", "server_disconnected"}

ForgetToRestore(m) ==   \* mutant: "ready" is never restored
    LET micWorks == device \/ capture
        healthy  == micWorks /\ frames[m] # "old"
        found    == IF link = "down" /\ pipelineHealth = "ready" THEN "server_disconnected"
                    ELSE pipelineHealth
    IN  /\ capture' = micWorks
        /\ pipelineHealth' = IF healthy THEN found ELSE "mic_offline"
        /\ UNCHANGED <<downloader, link, sessions, micPermission, modelsReady, retries,
                       pipelines, threads, frames, device>>

(* A capture that is off is started again, if there is a device. *)
PerformHealthCheck(m) ==
    LET micWorks == device \/ capture
        healthy  == micWorks /\ frames[m] # "old"
        found    == IF link = "down" /\ pipelineHealth = "ready" THEN "server_disconnected"
                    ELSE pipelineHealth
    IN  /\ capture' = micWorks
        /\ pipelineHealth' = IF ~healthy             THEN "mic_offline"
                             ELSE IF found \in Recoverable THEN "ready"
                             ELSE found
        /\ UNCHANGED <<downloader, link, sessions, micPermission, modelsReady, retries,
                       pipelines, threads, frames, device>>

Next ==
    \/ \E c \in RetryCount: RetryTimerFires(c)
    \/ HandlePermission
    \/ \E r \in replies: DownloadFinished(r)
    \/ LinkComesUp
    \/ OnDisconnected
    \/ OnSessionOpened
    \/ DeviceLost
    \/ DeviceBack
    \/ FramesArrive
    \/ FramesStop
    \/ \E m \in DOMAIN frames: PerformHealthCheck(m)

Spec == Init /\ [][Next]_vars

(* Qt fires the timers of retries and health checks, a capture that runs   *)
(* delivers frames, and the network answers every download.                *)
FairSpec ==
    /\ Spec
    /\ \A c \in RetryCount: WF_vars(RetryTimerFires(c))
    /\ WF_vars(FramesArrive)
    /\ \A m \in 1 .. MaxSessions: WF_vars(m \in DOMAIN frames /\ PerformHealthCheck(m))
    /\ \A q \in Request: WF_vars(\E r \in replies: r.request = q /\ DownloadFinished(r))

-----------------------------------------------------------------------------
(* Properties.                                                             *)

(* A pipeline is built, or waits to be built, only with the permission to  *)
(* use the microphone and with every model file verified: no order of the  *)
(* user's answer, downloads, errors and reconnects gets round one of them. *)
BuiltWithBoth ==
    pipelines > 0 \/ (\E c \in RetryCount: retries[c] > 0) =>
        micPermission = "granted" /\ cached = Model

(* Whichever of the permission and the models comes last starts the        *)
(* pipeline: with both there is a pipeline, a retry that will build one,   *)
(* or the health says that the models do not load.                         *)
NeitherComesLate ==
    micPermission = "granted" /\ modelsReady =>
        \/ pipelines > 0
        \/ \E c \in RetryCount: retries[c] > 0
        \/ pipelineHealth = "models_failed"

(* The retries end: with permission and models there is a pipeline in the  *)
(* end, or pipelineHealth says that the models do not load.                *)
StartSettles ==
    micPermission = "granted" /\ modelsReady ~>
        pipelines > 0 \/ pipelineHealth = "models_failed"

(* Each check that finds models missing gets them all, also after failures *)
(* in earlier sessions, whatever they left pending or removed: unless one  *)
(* of its own downloads fails, or it found a download of an earlier check  *)
(* under way (history variables failed, overlapped).                       *)
ModelsArrive == pending # {} ~> modelsReady \/ failed \/ overlapped

(* The health recovers from a lost microphone: if the device stays and     *)
(* frames do not stop, no monitor leaves "mic_offline" on display.         *)
MicRecovers ==
    <>[]device /\ <>[][~FramesStop]_vars
        => <>[](pipelineHealth = "mic_offline" => frames = <<>>)

-----------------------------------------------------------------------------
(* What comments and documents of the code say and the code does not do.   *)

(* There is one pipeline: pairion-client-Audit.md has the models downloaded *)
(* "on first WS connection" and, with the permission, "initAudioPipeline() *)
(* called".  Every later session builds another pipeline.                  *)
OnePipeline == pipelines <= 1

=============================================================================
