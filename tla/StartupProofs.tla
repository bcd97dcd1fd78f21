--------------------------- MODULE StartupProofs ---------------------------
(***************************************************************************)
(* Proofs about Startup, for every number of models, retries and sessions. *)
(***************************************************************************)
EXTENDS Startup, FiniteSetTheorems, WellFoundedInduction, TLAPS

-----------------------------------------------------------------------------
(* The first entry of a list of models is one of them, and the least.      *)
LEMMA FirstIsLeast ==
    ASSUME NEW models \in SUBSET Model, models # {}
    PROVE  /\ First(models) \in models
           /\ \A n \in models: First(models) <= n
<1>. DEFINE Less == {ss \in Nat \X Nat: ss[1] < ss[2]}
<1>1. IsWellFoundedOn(Less, Nat)
  BY NatLessThanWellFounded DEF OpToRel
<1>2. models \subseteq Nat
  BY ManifestAssumption DEF Model
<1>3. PICK m \in models: \A n \in models: <<n, m>> \notin Less
  <2>. HIDE DEF Less
  <2>. QED  BY <1>1, <1>2, WFMin
<1>4. \A n \in models: m <= n
  <2>. SUFFICES ASSUME NEW n \in models
                PROVE  m <= n
    OBVIOUS
  <2>. DEFINE ss == <<n, m>>
  <2>1. ss \in Nat \X Nat /\ ss[1] = n /\ ss[2] = m
    BY <1>2
  <2>2. ~(ss[1] < ss[2])
    <3>. HIDE DEF ss
    <3>. QED  BY <1>3, <2>1, Zenon DEF ss
  <2>. QED  BY <1>2, <2>1, <2>2
<1>. QED  BY <1>4 DEF First

-----------------------------------------------------------------------------
(* The downloader.  A request is only ever made for a model before which   *)
(* every other one is verified, and whatever is missing behind the first   *)
(* pending model is pending as well: so a successful answer that leaves    *)
(* nothing pending leaves nothing missing, whichever chain it belongs to.  *)

DInv ==
    /\ DownloaderTypeOK
    /\ \A m \in pending: m \notin cached
    /\ \A m \in Model \ cached: pending # {} /\ First(pending) <= m => m \in pending
    /\ \A r \in replies: \A m \in Model: m < r.model => m \in cached

LEMMA DownloadNextHolds ==
    ASSUME NEW models \in SUBSET Model, NEW waiting, NEW done \in SUBSET Model,
           waiting \subseteq [request: Request, model: Model],
           \A r \in waiting: \A m \in Model: m < r.model => m \in done,
           models # {} => \A m \in Model: m < First(models) => m \in done,
           DownloadNext(models, waiting)
    PROVE  /\ replies' \subseteq [request: Request, model: Model]
           /\ \A r \in replies': \A m \in Model: m < r.model => m \in done
<1>1. CASE models = {}
  BY <1>1 DEF DownloadNext
<1>2. CASE models # {}
  <2>1. PICK q \in Request:
            replies' = waiting \cup {[request |-> q, model |-> First(models)]}
    BY <1>2 DEF DownloadNext
  <2>2. First(models) \in Model
    BY <1>2, FirstIsLeast
  <2>. DEFINE new == [request |-> q, model |-> First(models)]
  <2>3. new \in [request: Request, model: Model] /\ new.model = First(models)
    BY <2>2
  <2>4. replies' = waiting \cup {new}
    BY <2>1
  <2>. HIDE DEF new
  <2>. QED  BY <1>2, <2>3, <2>4
<1>. QED  BY <1>1, <1>2

LEMMA CheckHolds ==
    ASSUME DInv, CheckAndDownload
    PROVE  DInv' /\ cached' = cached /\ (pending' = {} => cached = Model)
<1>1. pending' = Model \ cached /\ cached' = cached /\ cached \subseteq Model
  BY DEF CheckAndDownload, DInv, DownloaderTypeOK
<1>2. pending' # {} => \A m \in Model: m < First(pending') => m \in cached
  <2>. SUFFICES ASSUME pending' # {}, NEW m \in Model, m < First(pending'), m \notin cached
                PROVE  FALSE
    OBVIOUS
  <2>1. m \in pending' /\ pending' \in SUBSET Model
    BY <1>1
  <2>2. First(pending') <= m /\ First(pending') \in Model
    BY <2>1, FirstIsLeast
  <2>. QED  BY <2>2, ManifestAssumption DEF Model
<1>3. /\ replies' \subseteq [request: Request, model: Model]
      /\ \A r \in replies': \A m \in Model: m < r.model => m \in cached
  <2>1. pending' \in SUBSET Model /\ DownloadNext(pending', replies)
    BY <1>1 DEF CheckAndDownload
  <2>2. /\ replies \subseteq [request: Request, model: Model]
        /\ \A r \in replies: \A m \in Model: m < r.model => m \in cached
    BY DEF DInv, DownloaderTypeOK
  <2>. QED  BY <1>1, <1>2, <2>1, <2>2, DownloadNextHolds
<1>4. DownloaderTypeOK'
  BY <1>1, <1>3 DEF DInv, DownloaderTypeOK, CheckAndDownload
<1>. QED  BY <1>1, <1>3, <1>4 DEF DInv

(* What taking the first entry off the list leaves of it. *)
LEMMA RestOfPending ==
    ASSUME DInv, pending # {}, NEW rest, rest = pending \ {First(pending)}
    PROVE  /\ First(pending) \in Model \ cached
           /\ rest \in SUBSET Model
           /\ rest # {} => First(rest) \in rest /\ First(pending) < First(rest)
           /\ \A m \in Model \ cached:
                  rest # {} /\ First(rest) <= m => m \in rest
<1>1. pending \in SUBSET Model /\ Model \subseteq Nat
  BY ManifestAssumption DEF DInv, DownloaderTypeOK, Model
<1>2. First(pending) \in pending /\ \A n \in pending: First(pending) <= n
  BY <1>1, FirstIsLeast
<1>3. First(pending) \in Model \ cached
  BY <1>1, <1>2 DEF DInv
<1>4. rest \in SUBSET Model
  BY <1>1
<1>5. ASSUME rest # {}
      PROVE  First(rest) \in rest /\ First(pending) < First(rest)
  <2>1. First(rest) \in rest
    BY <1>4, <1>5, FirstIsLeast
  <2>2. First(rest) \in pending /\ First(rest) # First(pending)
    BY <2>1
  <2>3. First(pending) \in Nat /\ First(rest) \in Nat /\ First(pending) <= First(rest)
    BY <1>1, <1>2, <2>2
  <2>. QED  BY <2>1, <2>2, <2>3
<1>6. ASSUME NEW m \in Model \ cached, rest # {}, First(rest) <= m
      PROVE  m \in rest
  <2>1. /\ m \in Nat /\ First(pending) \in Nat /\ First(rest) \in Nat
        /\ First(pending) < First(rest)
    BY <1>1, <1>2, <1>5, <1>6, <1>4
  <2>2. First(pending) <= m /\ m # First(pending)
    BY <1>6, <2>1
  <2>. QED  BY <2>2 DEF DInv
<1>. QED  BY <1>3, <1>4, <1>5, <1>6

LEMMA SuccessHolds ==
    ASSUME DInv, NEW r \in replies, DownloadSucceeds(r)
    PROVE  DInv' /\ cached \subseteq cached' /\ (pending' = {} => cached' = Model)
<1>. DEFINE head == First(pending)
            rest == pending \ {head}
<1>1. /\ pending # {} /\ r.model = head
      /\ cached' = cached \cup {head}
      /\ pending' = rest
      /\ DownloadNext(rest, replies \ {r})
  BY DEF DownloadSucceeds
<1>2. /\ head \in Model \ cached
      /\ rest \in SUBSET Model
      /\ rest # {} => First(rest) \in rest /\ head < First(rest)
      /\ \A m \in Model \ cached: rest # {} /\ First(rest) <= m => m \in rest
  BY <1>1, RestOfPending
<1>3. \A m \in Model: m < head => m \in cached
  BY <1>1 DEF DInv
<1>4. \A m \in Model \ cached: head <= m => m \in pending
  BY <1>1 DEF DInv
<1>5. Model \subseteq Nat
  BY ManifestAssumption DEF Model
<1>. HIDE DEF head
<1>6. \A m \in Model: m \in cached \/ m = head \/ m \in rest
  BY <1>2, <1>3, <1>4, <1>5
<1>7. rest # {} => \A m \in Model: m < First(rest) => m \in cached'
  <2>. SUFFICES ASSUME rest # {}, NEW m \in Model, m < First(rest), m \in rest
                PROVE  FALSE
    BY <1>1, <1>6
  <2>1. First(rest) <= m /\ First(rest) \in Nat /\ m \in Nat
    BY <1>2, <1>5, FirstIsLeast
  <2>. QED  BY <2>1
<1>8. /\ replies' \subseteq [request: Request, model: Model]
      /\ \A s \in replies': \A m \in Model: m < s.model => m \in cached'
  <2>1. cached' \in SUBSET Model
    BY <1>1, <1>2 DEF DInv, DownloaderTypeOK
  <2>2. /\ replies \ {r} \subseteq [request: Request, model: Model]
        /\ \A s \in replies \ {r}: \A m \in Model: m < s.model => m \in cached'
    BY <1>1 DEF DInv, DownloaderTypeOK
  <2>3. rest \in SUBSET Model /\ DownloadNext(rest, replies \ {r})
    BY <1>1, <1>2
  <2>. HIDE DEF rest
  <2>. QED  BY <1>7, <2>1, <2>2, <2>3, DownloadNextHolds
<1>9. DownloaderTypeOK'
  BY <1>1, <1>2, <1>8 DEF DInv, DownloaderTypeOK, DownloadSucceeds
<1>10. \A m \in pending': m \notin cached'
  BY <1>1 DEF DInv
<1>11. \A m \in Model \ cached': pending' # {} /\ First(pending') <= m => m \in pending'
  BY <1>1, <1>2
<1>12. pending' = {} => cached' = Model
  BY <1>1, <1>6, <1>9 DEF DownloaderTypeOK
<1>. QED  BY <1>1, <1>8, <1>9, <1>10, <1>11, <1>12 DEF DInv

LEMMA FailureHolds ==
    ASSUME DInv, NEW r \in replies, DownloadFails(r) \/ ReplyIgnored(r)
    PROVE  DInv' /\ cached' = cached
<1>1. CASE ReplyIgnored(r)
  BY <1>1 DEF ReplyIgnored, DInv, DownloaderTypeOK
<1>2. CASE DownloadFails(r)
  <2>. DEFINE head == First(pending)
              rest == pending \ {head}
  <2>1. /\ pending # {}
        /\ pending' = rest
        /\ replies' = replies \ {r}
        /\ cached' = cached \/ cached' = cached \ {head}
        /\ failed' = TRUE /\ overlapped' = overlapped
    BY <1>2 DEF DownloadFails
  <2>2. /\ head \in Model \ cached
        /\ rest \in SUBSET Model
        /\ \A m \in Model \ cached: rest # {} /\ First(rest) <= m => m \in rest
    BY <2>1, RestOfPending
  <2>3. cached' = cached
    BY <2>1, <2>2
  <2>4. DownloaderTypeOK'
    BY <2>1, <2>2, <2>3 DEF DInv, DownloaderTypeOK
  <2>5. \A m \in Model \ cached: rest # {} /\ First(rest) <= m => m \in rest
    BY <2>2
  <2>. HIDE DEF head
  <2>. QED  BY <2>1, <2>3, <2>4, <2>5 DEF DInv
<1>. QED  BY <1>1, <1>2

-----------------------------------------------------------------------------
(* Building a pipeline.                                                    *)

Retrying == \E c \in RetryCount: retries[c] > 0

PipelineType ==
    /\ retries \in [RetryCount -> Nat]
    /\ pipelines \in Nat
    /\ threads \in BOOLEAN
    /\ capture \in BOOLEAN
    /\ frames \in Seq(FrameTimer) /\ Len(frames) <= pipelines
    /\ pipelineHealth \in Health

(* An attempt to build a pipeline, the first or a retry, is well-typed. *)
LEMMA AttemptType ==
    ASSUME PipelineType, device \in BOOLEAN, NEW health \in Health,
           NEW c \in RetryCount, NEW timers \in [RetryCount -> Nat],
           InitAudioPipeline(health, c, timers)
    PROVE  PipelineType'
<1>1. CASE ModelsDoNotLoad(health, c, timers)
  <2>1. CASE c > 0
    <3>1. c - 1 \in RetryCount
      BY <2>1, StartupAssumption DEF RetryCount
    <3>2. retries' = [timers EXCEPT ![c - 1] = @ + 1] /\ pipelineHealth' = health
      BY <1>1, <2>1 DEF ModelsDoNotLoad
    <3>3. retries' \in [RetryCount -> Nat]
      BY <3>1, <3>2
    <3>. QED  BY <1>1, <3>2, <3>3 DEF ModelsDoNotLoad, PipelineType
  <2>2. CASE ~(c > 0)
    BY <1>1, <2>2 DEF ModelsDoNotLoad, PipelineType, Health
  <2>. QED  BY <2>1, <2>2
<1>2. CASE ThreadsDoNotStart(timers)
  BY <1>2 DEF ThreadsDoNotStart, PipelineType, Health
<1>3. CASE PipelineStarts(timers)
  <2>1. frames' \in Seq(FrameTimer) /\ Len(frames') = Len(frames) + 1
    BY <1>3 DEF PipelineStarts, PipelineType, FrameTimer
  <2>2. Len(frames) \in Nat
    BY DEF PipelineType
  <2>3. pipelines' = pipelines + 1
    BY <1>3 DEF PipelineStarts
  <2>4. pipelines' \in Nat /\ Len(frames') <= pipelines'
    BY <2>1, <2>2, <2>3 DEF PipelineType
  <2>5. /\ retries' \in [RetryCount -> Nat]
        /\ threads' \in BOOLEAN
        /\ pipelineHealth' \in Health
    BY <1>3 DEF PipelineStarts, Health
  <2>6. capture' \in BOOLEAN
    BY <1>3 DEF PipelineStarts, PipelineType
  <2>. QED  BY <2>1, <2>4, <2>5, <2>6 DEF PipelineType
<1>. QED  BY <1>1, <1>2, <1>3 DEF InitAudioPipeline

LEMMA TryStartType ==
    ASSUME PipelineType, device \in BOOLEAN, NEW health \in Health,
           TryStartPipeline(health)
    PROVE  PipelineType'
<1>1. CASE micPermission' = "granted" /\ modelsReady'
  <2>1. MaxRetries \in RetryCount /\ retries \in [RetryCount -> Nat]
    BY StartupAssumption DEF RetryCount, PipelineType
  <2>2. InitAudioPipeline(health, MaxRetries, retries)
    BY <1>1 DEF TryStartPipeline
  <2>. QED  BY <2>1, <2>2, AttemptType
<1>2. CASE ~(micPermission' = "granted" /\ modelsReady')
  BY <1>2 DEF TryStartPipeline, PipelineType
<1>. QED  BY <1>1, <1>2

(* Only an open gate adds a pipeline or a retry. *)
LEMMA TryStartGated ==
    ASSUME NEW health, TryStartPipeline(health)
    PROVE  \/ micPermission' = "granted" /\ modelsReady'
           \/ pipelines' = pipelines /\ retries' = retries
  BY DEF TryStartPipeline

-----------------------------------------------------------------------------
(* The inductive invariant.                                                *)

EnvironmentType ==
    /\ link \in Conn!Link
    /\ sessions \in 0 .. MaxSessions
    /\ micPermission \in Permission
    /\ modelsReady \in BOOLEAN
    /\ device \in BOOLEAN

Gates ==
    /\ modelsReady => cached = Model
    /\ pipelines > 0 \/ Retrying => micPermission = "granted" /\ modelsReady

IInv ==
    /\ DInv
    /\ EnvironmentType
    /\ PipelineType
    /\ Gates

LEMMA InitHolds == Init => IInv
<1>. SUFFICES ASSUME Init
              PROVE  IInv
  OBVIOUS
<1>1. DInv
  BY DEF Init, DownloaderInit, DInv, DownloaderTypeOK
<1>2. EnvironmentType
  <2>1. 0 \in 0 .. MaxSessions
    BY StartupAssumption
  <2>. QED  BY <2>1 DEF Init, EnvironmentType, Conn!Link
<1>3. PipelineType
  <2>1. frames \in Seq(FrameTimer) /\ Len(frames) <= pipelines
    BY DEF Init
  <2>2. retries \in [RetryCount -> Nat]
    BY DEF Init
  <2>. QED  BY <2>1, <2>2 DEF Init, PipelineType, Health
<1>4. Gates
  BY DEF Init, Gates, Retrying
<1>. QED  BY <1>1, <1>2, <1>3, <1>4 DEF IInv

LEMMA AttemptHolds ==
    ASSUME IInv, NEW c \in RetryCount, RetryTimerFires(c)
    PROVE  IInv'
<1>1. UNCHANGED <<downloader, link, sessions, micPermission, modelsReady, device>>
  BY DEF RetryTimerFires
<1>2. DInv' /\ EnvironmentType'
  BY <1>1 DEF IInv, DInv, DownloaderTypeOK, EnvironmentType, downloader
<1>3. Retrying
  BY DEF RetryTimerFires, Retrying
<1>4. Gates'
  BY <1>1, <1>3 DEF IInv, Gates, downloader
<1>5. PipelineType'
  <2>. DEFINE timers == [retries EXCEPT ![c] = @ - 1]
  <2>1. retries \in [RetryCount -> Nat] /\ retries[c] > 0
    BY DEF IInv, PipelineType, RetryTimerFires
  <2>2. timers \in [RetryCount -> Nat]
    BY <2>1
  <2>3. InitAudioPipeline(pipelineHealth, c, timers)
    BY DEF RetryTimerFires
  <2>. HIDE DEF timers
  <2>. QED  BY <2>2, <2>3, AttemptType DEF IInv, EnvironmentType, PipelineType
<1>. QED  BY <1>2, <1>4, <1>5 DEF IInv

LEMMA PermissionHolds ==
    ASSUME IInv, HandlePermission
    PROVE  IInv'
<1>1. /\ UNCHANGED <<downloader, link, sessions, modelsReady, device>>
      /\ micPermission = "undetermined" /\ micPermission' \in {"granted", "denied"}
  BY DEF HandlePermission
<1>2. DInv' /\ EnvironmentType'
  BY <1>1 DEF IInv, DInv, DownloaderTypeOK, EnvironmentType, downloader, Permission
<1>3. pipelines = 0 /\ ~Retrying
  BY <1>1 DEF IInv, Gates, PipelineType
<1>4. CASE micPermission' = "granted"
  <2>1. TryStartPipeline(pipelineHealth)
    BY <1>4 DEF HandlePermission
  <2>2. PipelineType'
    BY <2>1, TryStartType DEF IInv, EnvironmentType, PipelineType
  <2>3. Gates'
    BY <1>1, <1>3, <2>1, TryStartGated DEF IInv, Gates, Retrying, downloader
  <2>. QED  BY <1>2, <2>2, <2>3 DEF IInv
<1>5. CASE micPermission' # "granted"
  <2>1. /\ pipelineHealth' = "mic_offline"
        /\ UNCHANGED <<retries, pipelines, threads, capture, frames>>
    BY <1>5 DEF HandlePermission
  <2>2. PipelineType'
    BY <2>1 DEF IInv, PipelineType, Health
  <2>3. Gates'
    BY <1>1, <1>3, <2>1 DEF IInv, Gates, Retrying, downloader
  <2>. QED  BY <1>2, <2>2, <2>3 DEF IInv
<1>. QED  BY <1>4, <1>5

(* Models that are reported ready are verified. *)
LEMMA ModelsReadyHolds ==
    ASSUME IInv, OnAllModelsReady, DInv', EnvironmentType',
           cached' = Model, micPermission' = micPermission
    PROVE  IInv'
<1>1. modelsReady' = TRUE /\ TryStartPipeline("initializing")
  BY DEF OnAllModelsReady
<1>2. PipelineType'
  BY <1>1, TryStartType DEF IInv, EnvironmentType, Health
<1>3. Gates'
  BY <1>1, TryStartGated DEF IInv, Gates, Retrying
<1>. QED  BY <1>2, <1>3 DEF IInv

LEMMA DownloadHolds ==
    ASSUME IInv, NEW r \in replies, DownloadFinished(r)
    PROVE  IInv'
<1>1. UNCHANGED <<link, sessions, micPermission, device>>
  BY DEF DownloadFinished
<1>2. ASSUME DInv', cached \subseteq cached', UNCHANGED <<modelsReady, pipeline>>
      PROVE  IInv'
  <2>1. EnvironmentType' /\ PipelineType'
    BY <1>1, <1>2 DEF IInv, EnvironmentType, PipelineType, pipeline
  <2>2. Gates'
    BY <1>1, <1>2 DEF IInv, Gates, Retrying, DInv, DownloaderTypeOK, pipeline
  <2>. QED  BY <1>2, <2>1, <2>2 DEF IInv
<1>3. CASE DownloadSucceeds(r) /\ pending' = {} /\ OnAllModelsReady
  <2>1. DInv' /\ cached' = Model
    BY <1>3, SuccessHolds DEF IInv
  <2>2. EnvironmentType'
    BY <1>1, <1>3 DEF IInv, EnvironmentType, OnAllModelsReady
  <2>. QED  BY <1>1, <1>3, <2>1, <2>2, ModelsReadyHolds
<1>4. CASE DownloadSucceeds(r) /\ UNCHANGED <<modelsReady, pipeline>>
  BY <1>2, <1>4, SuccessHolds DEF IInv
<1>5. CASE (DownloadFails(r) \/ ReplyIgnored(r)) /\ UNCHANGED <<modelsReady, pipeline>>
  BY <1>2, <1>5, FailureHolds DEF IInv
<1>. QED  BY <1>3, <1>4, <1>5 DEF DownloadFinished

LEMMA SessionHolds ==
    ASSUME IInv, OnSessionOpened
    PROVE  IInv'
<1>1. /\ sessions < MaxSessions /\ sessions' = sessions + 1
      /\ link' = "session"
      /\ CheckAndDownload
      /\ micPermission' = micPermission /\ device' = device
  BY DEF OnSessionOpened, Conn!OpenSession
<1>2. DInv' /\ cached' = cached /\ (pending' = {} => cached = Model)
  BY <1>1, CheckHolds DEF IInv
<1>3. sessions' \in 0 .. MaxSessions
  BY <1>1, StartupAssumption DEF IInv, EnvironmentType
<1>4. CASE pending' = {}
  <2>1. OnAllModelsReady
    BY <1>4 DEF OnSessionOpened
  <2>2. EnvironmentType'
    BY <1>1, <1>3, <2>1 DEF IInv, EnvironmentType, OnAllModelsReady, Conn!Link
  <2>. QED  BY <1>1, <1>2, <1>4, <2>1, <2>2, ModelsReadyHolds
<1>5. CASE pending' # {}
  <2>1. /\ pipelineHealth' = "models_loading"
        /\ UNCHANGED <<modelsReady, retries, pipelines, threads, capture, frames>>
    BY <1>5 DEF OnSessionOpened
  <2>2. EnvironmentType'
    BY <1>1, <1>3, <2>1 DEF IInv, EnvironmentType, Conn!Link
  <2>3. PipelineType'
    BY <2>1 DEF IInv, PipelineType, Health
  <2>4. Gates'
    BY <1>1, <1>2, <2>1 DEF IInv, Gates, Retrying
  <2>. QED  BY <1>2, <2>2, <2>3, <2>4 DEF IInv
<1>. QED  BY <1>4, <1>5

(* The link, the microphone and the monitors touch neither the models nor  *)
(* the gates.                                                              *)
LEMMA SurroundingsHold ==
    ASSUME IInv,
           \/ LinkComesUp \/ OnDisconnected \/ DeviceLost \/ DeviceBack
           \/ FramesArrive \/ FramesStop \/ \E m \in DOMAIN frames: PerformHealthCheck(m)
    PROVE  IInv'
<1>1. UNCHANGED <<downloader, sessions, micPermission, modelsReady, retries, pipelines, threads>>
  BY DEF LinkComesUp, OnDisconnected, DeviceLost, DeviceBack, FramesArrive, FramesStop,
         FramesBecome, PerformHealthCheck, pipeline
<1>2. link' \in Conn!Link /\ device' \in BOOLEAN
  BY DEF LinkComesUp, OnDisconnected, DeviceLost, DeviceBack, FramesArrive, FramesStop,
         FramesBecome, PerformHealthCheck, Conn!Open, Conn!Lose, Conn!Link, IInv,
         EnvironmentType
<1>3. DInv' /\ EnvironmentType' /\ Gates'
  BY <1>1, <1>2 DEF IInv, DInv, DownloaderTypeOK, EnvironmentType, Gates, Retrying, downloader
<1>4. PipelineType'
  <2>1. CASE LinkComesUp \/ OnDisconnected \/ DeviceLost \/ DeviceBack
    BY <1>1, <2>1 DEF LinkComesUp, OnDisconnected, DeviceLost, DeviceBack, pipeline, IInv,
        PipelineType
  <2>2. CASE FramesArrive \/ FramesStop
    <3>1. PICK age: /\ FramesBecome(age)
                    /\ age \in [DOMAIN frames -> FrameTimer]
      <4>1. \A m \in DOMAIN frames: frames[m] \in FrameTimer
        BY DEF IInv, PipelineType
      <4>. QED  BY <2>2, <4>1 DEF FramesArrive, FramesStop, FrameTimer
    <3>2. frames' \in [1 .. Len(frames) -> FrameTimer]
      BY <3>1 DEF FramesBecome, IInv, PipelineType
    <3>3. frames' \in Seq(FrameTimer) /\ Len(frames') = Len(frames)
      BY <3>2 DEF IInv, PipelineType
    <3>. QED  BY <1>1, <3>1, <3>3 DEF FramesBecome, IInv, PipelineType
  <2>3. ASSUME NEW m \in DOMAIN frames, PerformHealthCheck(m)
        PROVE  PipelineType'
    <3>1. pipelineHealth' \in Health
      BY <2>3 DEF PerformHealthCheck, IInv, PipelineType, Health
    <3>2. capture' \in BOOLEAN
      BY <2>3 DEF PerformHealthCheck
    <3>. QED  BY <1>1, <2>3, <3>1, <3>2 DEF PerformHealthCheck, IInv, PipelineType
  <2>. QED  BY <2>1, <2>2, <2>3
<1>. QED  BY <1>3, <1>4 DEF IInv

LEMMA StepHolds == IInv /\ [Next]_vars => IInv'
<1>1. ASSUME IInv, UNCHANGED vars
      PROVE  IInv'
  BY <1>1 DEF IInv, DInv, DownloaderTypeOK, EnvironmentType, PipelineType, Gates, Retrying,
      vars, downloader, pipeline
<1>. QED
  BY <1>1, AttemptHolds, PermissionHolds, DownloadHolds, SessionHolds, SurroundingsHold DEF Next

LEMMA InvariantHolds == Spec => []IInv
  BY InitHolds, StepHolds, PTL DEF Spec

-----------------------------------------------------------------------------
(* The later of the two gates.                                             *)

(* An attempt leaves a pipeline, a retry or the health that says it failed *)
LEMMA AttemptShows ==
    ASSUME PipelineType, NEW health, NEW c \in RetryCount, NEW timers \in [RetryCount -> Nat],
           InitAudioPipeline(health, c, timers)
    PROVE  pipelines' > 0 \/ Retrying' \/ pipelineHealth' = "models_failed"
<1>1. CASE ModelsDoNotLoad(health, c, timers) /\ c > 0
  <2>1. c - 1 \in RetryCount
    BY <1>1, StartupAssumption DEF RetryCount
  <2>2. retries' = [timers EXCEPT ![c - 1] = @ + 1]
    BY <1>1 DEF ModelsDoNotLoad
  <2>3. retries'[c - 1] > 0
    BY <2>1, <2>2
  <2>. QED  BY <2>1, <2>3 DEF Retrying
<1>2. CASE ModelsDoNotLoad(health, c, timers) /\ ~(c > 0)
  BY <1>2 DEF ModelsDoNotLoad
<1>3. CASE ThreadsDoNotStart(timers) \/ PipelineStarts(timers)
  BY <1>3 DEF ThreadsDoNotStart, PipelineStarts, PipelineType
<1>. QED  BY <1>1, <1>2, <1>3 DEF InitAudioPipeline

LEMMA LateInit == Init => NeitherComesLate
  BY DEF Init, NeitherComesLate

LEMMA LateStep == IInv /\ NeitherComesLate /\ [Next]_vars => NeitherComesLate'
<1>. SUFFICES ASSUME IInv, NeitherComesLate, [Next]_vars
              PROVE  NeitherComesLate'
  OBVIOUS
<1>. DEFINE Shown == pipelines > 0 \/ Retrying \/ pipelineHealth = "models_failed"
<1>1. NeitherComesLate <=> (micPermission = "granted" /\ modelsReady => Shown)
  BY DEF NeitherComesLate, Retrying
<1>2. NeitherComesLate' <=> (micPermission' = "granted" /\ modelsReady' => Shown')
  BY DEF NeitherComesLate, Retrying
<1>3. ASSUME NEW health, TryStartPipeline(health)
      PROVE  NeitherComesLate'
  <2>1. MaxRetries \in RetryCount /\ retries \in [RetryCount -> Nat] /\ PipelineType
    BY StartupAssumption DEF RetryCount, IInv, PipelineType
  <2>. QED  BY <1>2, <1>3, <2>1, AttemptShows DEF TryStartPipeline
<1>4. ASSUME UNCHANGED <<micPermission, modelsReady, retries, pipelines>>,
             pipelines > 0 \/ pipelineHealth' = pipelineHealth
      PROVE  NeitherComesLate'
  BY <1>1, <1>2, <1>4 DEF Retrying
<1>5. CASE \E c \in RetryCount: RetryTimerFires(c)
  <2>. PICK c \in RetryCount: RetryTimerFires(c)
    BY <1>5
  <2>. DEFINE timers == [retries EXCEPT ![c] = @ - 1]
  <2>1. retries \in [RetryCount -> Nat] /\ retries[c] > 0 /\ PipelineType
    BY DEF IInv, PipelineType, RetryTimerFires
  <2>2. timers \in [RetryCount -> Nat]
    BY <2>1
  <2>3. InitAudioPipeline(pipelineHealth, c, timers)
    BY DEF RetryTimerFires
  <2>. HIDE DEF timers
  <2>. QED  BY <1>2, <2>1, <2>2, <2>3, AttemptShows
<1>6. CASE HandlePermission
  BY <1>2, <1>3, <1>6 DEF HandlePermission
<1>7. CASE \E r \in replies: DownloadFinished(r)
  <2>1. micPermission' = micPermission
    BY <1>7 DEF DownloadFinished
  <2>2. CASE OnAllModelsReady
    BY <1>3, <2>2 DEF OnAllModelsReady
  <2>3. CASE UNCHANGED <<modelsReady, pipeline>>
    BY <1>4, <2>1, <2>3 DEF pipeline
  <2>. QED  BY <1>7, <2>2, <2>3 DEF DownloadFinished
<1>8. CASE OnSessionOpened
  <2>1. CheckAndDownload /\ micPermission' = micPermission
    BY <1>8 DEF OnSessionOpened
  <2>2. CASE pending' = {}
    BY <1>3, <1>8, <2>2 DEF OnSessionOpened, OnAllModelsReady
  <2>3. CASE pending' # {}
    <3>1. ~modelsReady /\ modelsReady' = modelsReady
      BY <1>8, <2>1, <2>3 DEF OnSessionOpened, CheckAndDownload, IInv, Gates
    <3>. QED  BY <1>2, <3>1
  <2>. QED  BY <2>2, <2>3
<1>9. CASE \E m \in DOMAIN frames: PerformHealthCheck(m)
  <2>1. pipelines > 0
    <3>1. /\ frames \in Seq(FrameTimer) /\ Len(frames) <= pipelines /\ pipelines \in Nat
          /\ DOMAIN frames # {}
      BY <1>9 DEF IInv, PipelineType
    <3>2. DOMAIN frames = 1 .. Len(frames) /\ Len(frames) \in Nat
      BY <3>1
    <3>. QED  BY <3>1, <3>2
  <2>. QED  BY <1>4, <1>9, <2>1 DEF PerformHealthCheck
<1>10. CASE LinkComesUp \/ OnDisconnected \/ DeviceLost \/ DeviceBack
            \/ FramesArrive \/ FramesStop \/ UNCHANGED vars
  BY <1>4, <1>10 DEF LinkComesUp, OnDisconnected, DeviceLost, DeviceBack, FramesArrive,
      FramesStop, FramesBecome, vars, pipeline
<1>. QED  BY <1>5, <1>6, <1>7, <1>8, <1>9, <1>10 DEF Next

-----------------------------------------------------------------------------
(* How many pipelines a reconnecting client can have.  Every one, and      *)
(* every running retry, is owed to a session of its own.                   *)

(* The running timers of [c |-> timers with c retries left], told apart.   *)
Timers(left) == {t \in RetryCount \X Nat: t[2] < left[t[1]]}

LEMMA TimerStarts ==
    ASSUME NEW left \in [RetryCount -> Nat], NEW c \in RetryCount, IsFiniteSet(Timers(left))
    PROVE  /\ IsFiniteSet(Timers([left EXCEPT ![c] = @ + 1]))
           /\ Cardinality(Timers([left EXCEPT ![c] = @ + 1])) = Cardinality(Timers(left)) + 1
<1>. DEFINE t == <<c, left[c]>>
            more == [left EXCEPT ![c] = @ + 1]
<1>1. more[c] = left[c] + 1 /\ left[c] \in Nat /\ \A d \in RetryCount \ {c}: more[d] = left[d]
  OBVIOUS
<1>2. t \in RetryCount \X Nat /\ t \notin Timers(left)
  BY <1>1 DEF Timers
<1>3. ASSUME NEW d \in RetryCount, NEW i \in Nat
      PROVE  i < more[d] <=> (i < left[d] \/ (d = c /\ i = left[c]))
  <2>1. CASE d = c
    BY <1>1, <2>1
  <2>2. CASE d # c
    BY <1>1, <2>2
  <2>. QED  BY <2>1, <2>2
<1>. HIDE DEF more
<1>4. Timers(more) = Timers(left) \cup {t}
  BY <1>1, <1>3 DEF Timers
<1>5. IsFiniteSet(Timers(more)) /\ Cardinality(Timers(more)) = Cardinality(Timers(left)) + 1
  <2>. HIDE DEF t
  <2>. QED  BY <1>2, <1>4, FS_AddElement
<1>. QED  BY <1>5 DEF more

LEMMA TimerExpires ==
    ASSUME NEW left \in [RetryCount -> Nat], NEW c \in RetryCount, left[c] > 0,
           IsFiniteSet(Timers(left))
    PROVE  /\ IsFiniteSet(Timers([left EXCEPT ![c] = @ - 1]))
           /\ Cardinality(Timers([left EXCEPT ![c] = @ - 1])) = Cardinality(Timers(left)) - 1
<1>. DEFINE less == [left EXCEPT ![c] = @ - 1]
<1>1. less \in [RetryCount -> Nat] /\ less[c] = left[c] - 1
  OBVIOUS
<1>2. [less EXCEPT ![c] = @ + 1] = left
  <2>1. left[c] \in Nat /\ less[c] + 1 = left[c]
    BY <1>1
  <2>2. [less EXCEPT ![c] = left[c]] = left
    OBVIOUS
  <2>. HIDE DEF less
  <2>. QED  BY <2>1, <2>2
<1>3. Timers(less) \subseteq Timers(left)
  <2>1. ASSUME NEW d \in RetryCount, NEW i \in Nat, i < less[d]
        PROVE  i < left[d]
    <3>1. CASE d = c
      BY <2>1, <3>1
    <3>2. CASE d # c
      BY <2>1, <3>2
    <3>. QED  BY <3>1, <3>2
  <2>. HIDE DEF less
  <2>. QED  BY <2>1 DEF Timers
<1>4. IsFiniteSet(Timers(less)) /\ Cardinality(Timers(less)) \in Nat
  <2>1. IsFiniteSet(Timers(less))
    BY <1>3, FS_Subset
  <2>. QED  BY <2>1, FS_CardinalityType
<1>5. Cardinality(Timers(left)) = Cardinality(Timers(less)) + 1
  <2>. HIDE DEF less
  <2>. QED  BY <1>1, <1>2, <1>4, TimerStarts
<1>6. Cardinality(Timers(less)) = Cardinality(Timers(left)) - 1
  <2>. HIDE DEF less
  <2>. QED  BY <1>4, <1>5
<1>. QED  BY <1>4, <1>6 DEF less

OwedToSessions ==
    /\ pending # {} \/ modelsReady => sessions > 0
    /\ IsFiniteSet(Timers(retries))
    /\ pipelines + Cardinality(Timers(retries)) <= sessions

(* An attempt adds a pipeline or a retry, or gives up. *)
LEMMA AttemptAddsOne ==
    ASSUME pipelines \in Nat, NEW health, NEW c \in RetryCount, NEW left \in [RetryCount -> Nat],
           IsFiniteSet(Timers(left)), InitAudioPipeline(health, c, left)
    PROVE  /\ IsFiniteSet(Timers(retries'))
           /\ pipelines' + Cardinality(Timers(retries')) <= pipelines + Cardinality(Timers(left)) + 1
<1>1. Cardinality(Timers(left)) \in Nat
  BY FS_CardinalityType
<1>2. CASE retries' = left /\ pipelines' \in {pipelines, pipelines + 1}
  BY <1>1, <1>2
<1>3. CASE c > 0 /\ retries' = [left EXCEPT ![c - 1] = @ + 1] /\ pipelines' = pipelines
  <2>1. c - 1 \in RetryCount
    BY <1>3, StartupAssumption DEF RetryCount
  <2>2. /\ IsFiniteSet(Timers(retries'))
        /\ Cardinality(Timers(retries')) = Cardinality(Timers(left)) + 1
    BY <1>3, <2>1, TimerStarts
  <2>. QED  BY <1>1, <1>3, <2>2
<1>. QED  BY <1>2, <1>3 DEF InitAudioPipeline, ModelsDoNotLoad, ThreadsDoNotStart, PipelineStarts

(* With nothing built and nothing to retry, or a session more, there is    *)
(* room for the one that an open gate adds.                                *)
LEMMA GateAddsOne ==
    ASSUME IInv, OwedToSessions, sessions' \in Nat, NEW health, TryStartPipeline(health),
           \/ sessions' = sessions + 1
           \/ ~modelsReady /\ sessions' = sessions /\ sessions > 0
           \/ micPermission # "granted" /\ sessions' = sessions /\ (modelsReady' => sessions > 0)
    PROVE  /\ IsFiniteSet(Timers(retries'))
           /\ pipelines' + Cardinality(Timers(retries')) <= sessions'
<1>1. /\ pipelines \in Nat /\ retries \in [RetryCount -> Nat] /\ sessions \in Nat
      /\ MaxRetries \in RetryCount
  BY StartupAssumption DEF IInv, PipelineType, EnvironmentType, RetryCount
<1>2. IsFiniteSet(Timers(retries)) /\ Cardinality(Timers(retries)) \in Nat
  BY FS_CardinalityType DEF OwedToSessions
<1>3. sessions' >= sessions
  BY <1>1
<1>4. CASE UNCHANGED <<retries, pipelines>>
  BY <1>1, <1>2, <1>3, <1>4 DEF OwedToSessions
<1>5. CASE modelsReady' /\ InitAudioPipeline(health, MaxRetries, retries)
  <2>1. /\ IsFiniteSet(Timers(retries'))
        /\ pipelines' + Cardinality(Timers(retries')) <= pipelines + Cardinality(Timers(retries)) + 1
    BY <1>1, <1>2, <1>5, AttemptAddsOne
  <2>2. pipelines + Cardinality(Timers(retries)) + 1 <= sessions'
    <3>1. CASE sessions' = sessions + 1
      BY <1>1, <1>2, <3>1 DEF OwedToSessions
    <3>2. CASE (~modelsReady \/ micPermission # "granted") /\ sessions' = sessions /\ sessions > 0
      <4>1. pipelines = 0 /\ ~Retrying
        BY <1>1, <3>2 DEF IInv, Gates
      <4>2. \A c \in RetryCount: retries[c] = 0
        BY <1>1, <4>1 DEF Retrying
      <4>3. Timers(retries) = {}
        BY <4>2 DEF Timers
      <4>. QED  BY <1>1, <3>2, <4>1, <4>3, FS_EmptySet
    <3>. QED  BY <1>5, <3>1, <3>2
  <2>3. pipelines' \in Nat /\ Cardinality(Timers(retries')) \in Nat
    BY <1>1, <1>5, <2>1, FS_CardinalityType
       DEF InitAudioPipeline, ModelsDoNotLoad, ThreadsDoNotStart, PipelineStarts
  <2>. QED  BY <1>1, <1>2, <2>1, <2>2, <2>3
<1>. QED  BY <1>4, <1>5 DEF TryStartPipeline

LEMMA OwedInit == Init => OwedToSessions
<1>. SUFFICES ASSUME Init
              PROVE  OwedToSessions
  OBVIOUS
<1>1. pending = {} /\ modelsReady = FALSE /\ pipelines = 0 /\ sessions = 0
      /\ retries = [c \in RetryCount |-> 0]
  BY DEF Init, DownloaderInit
<1>2. Timers(retries) = {}
  BY <1>1 DEF Timers
<1>. QED  BY <1>1, <1>2, FS_EmptySet DEF OwedToSessions

LEMMA OwedStep == IInv /\ IInv' /\ OwedToSessions /\ [Next]_vars => OwedToSessions'
<1>. SUFFICES ASSUME IInv, IInv', OwedToSessions, [Next]_vars
              PROVE  OwedToSessions'
  OBVIOUS
<1>1. /\ pipelines \in Nat /\ retries \in [RetryCount -> Nat] /\ sessions \in Nat /\ sessions' \in Nat
      /\ IsFiniteSet(Timers(retries)) /\ Cardinality(Timers(retries)) \in Nat
  BY FS_CardinalityType DEF IInv, PipelineType, EnvironmentType, OwedToSessions
<1>2. ASSUME UNCHANGED <<retries, pipelines>>, sessions' = sessions \/ sessions' = sessions + 1,
             pending' # {} \/ modelsReady' => sessions' > 0
      PROVE  OwedToSessions'
  BY <1>1, <1>2 DEF OwedToSessions
<1>3. CASE \E c \in RetryCount: RetryTimerFires(c)
  <2>. PICK c \in RetryCount: RetryTimerFires(c)
    BY <1>3
  <2>1. /\ retries[c] > 0 /\ UNCHANGED <<pending, modelsReady, sessions>>
        /\ InitAudioPipeline(pipelineHealth, c, [retries EXCEPT ![c] = @ - 1])
    BY DEF RetryTimerFires, downloader
  <2>. DEFINE less == [retries EXCEPT ![c] = @ - 1]
  <2>2. less \in [RetryCount -> Nat]
    BY <1>1, <2>1
  <2>3. IsFiniteSet(Timers(less)) /\ Cardinality(Timers(less)) = Cardinality(Timers(retries)) - 1
    BY <1>1, <2>1, TimerExpires
  <2>4. InitAudioPipeline(pipelineHealth, c, less)
    BY <2>1
  <2>. HIDE DEF less
  <2>5. /\ IsFiniteSet(Timers(retries'))
        /\ pipelines' + Cardinality(Timers(retries')) <= pipelines + Cardinality(Timers(less)) + 1
    BY <1>1, <2>2, <2>3, <2>4, AttemptAddsOne
  <2>6. pipelines + Cardinality(Timers(less)) + 1 = pipelines + Cardinality(Timers(retries))
    BY <1>1, <2>3
  <2>7. pipelines' \in Nat /\ Cardinality(Timers(retries')) \in Nat
    BY <2>5, FS_CardinalityType DEF IInv, PipelineType
  <2>. QED  BY <1>1, <2>1, <2>5, <2>6, <2>7 DEF OwedToSessions
<1>4. CASE HandlePermission
  <2>1. /\ UNCHANGED <<pending, sessions, modelsReady>> /\ micPermission # "granted"
        /\ TryStartPipeline(pipelineHealth) \/ UNCHANGED <<retries, pipelines>>
    BY <1>4 DEF HandlePermission, downloader
  <2>2. pending' # {} \/ modelsReady' => sessions' > 0
    BY <2>1 DEF OwedToSessions
  <2>3. CASE TryStartPipeline(pipelineHealth)
    BY <1>1, <2>1, <2>2, <2>3, GateAddsOne DEF OwedToSessions
  <2>. QED  BY <1>2, <2>1, <2>2, <2>3
<1>5. CASE \E r \in replies: DownloadFinished(r)
  <2>. PICK r \in replies: DownloadFinished(r)
    BY <1>5
  <2>1. sessions' = sessions /\ (pending' # {} => pending # {})
    BY DEF DownloadFinished, DownloadSucceeds, DownloadFails, ReplyIgnored
  <2>2. CASE DownloadSucceeds(r) /\ pending' = {} /\ OnAllModelsReady
    <3>1. pending # {} /\ sessions > 0
      BY <2>2 DEF DownloadSucceeds, OwedToSessions
    <3>2. ~modelsReady
      BY <3>1 DEF IInv, Gates, DInv, DownloaderTypeOK
    <3>3. TryStartPipeline("initializing")
      BY <2>2 DEF OnAllModelsReady
    <3>. QED  BY <1>1, <2>1, <3>1, <3>2, <3>3, GateAddsOne DEF OwedToSessions
  <2>3. CASE UNCHANGED <<modelsReady, pipeline>>
    BY <1>2, <2>1, <2>3 DEF pipeline, OwedToSessions
  <2>. QED  BY <2>2, <2>3 DEF DownloadFinished
<1>6. CASE OnSessionOpened
  <2>1. sessions' = sessions + 1
    BY <1>6 DEF OnSessionOpened
  <2>2. CASE OnAllModelsReady
    <3>1. TryStartPipeline("initializing")
      BY <2>2 DEF OnAllModelsReady
    <3>. QED  BY <1>1, <2>1, <3>1, GateAddsOne DEF OwedToSessions
  <2>3. CASE UNCHANGED <<retries, pipelines>>
    BY <1>1, <1>2, <2>1, <2>3
  <2>. QED  BY <1>6, <2>2, <2>3 DEF OnSessionOpened
<1>7. CASE \/ LinkComesUp \/ OnDisconnected \/ DeviceLost \/ DeviceBack \/ FramesArrive
           \/ FramesStop \/ (\E m \in DOMAIN frames: PerformHealthCheck(m)) \/ UNCHANGED vars
  <2>1. UNCHANGED <<pending, modelsReady, retries, pipelines, sessions>>
    BY <1>7 DEF LinkComesUp, OnDisconnected, DeviceLost, DeviceBack, FramesArrive, FramesStop,
                FramesBecome, PerformHealthCheck, vars, downloader, pipeline
  <2>. QED  BY <1>2, <2>1 DEF OwedToSessions
<1>. QED  BY <1>3, <1>4, <1>5, <1>6, <1>7 DEF Next

-----------------------------------------------------------------------------
(* The theorems.                                                           *)

(* Every reachable state is well-typed. *)
THEOREM TypeCorrect == Spec => []TypeOK
<1>1. IInv => TypeOK
  BY DEF IInv, DInv, EnvironmentType, PipelineType, TypeOK
<1>. QED  BY <1>1, InvariantHolds, PTL

(* A pipeline is built or retried only with the permission to use the      *)
(* microphone and with every model file verified.                          *)
THEOREM GatesSafe == Spec => []BuiltWithBoth
<1>1. IInv => BuiltWithBoth
  BY DEF IInv, Gates, Retrying, BuiltWithBoth
<1>. QED  BY <1>1, InvariantHolds, PTL

(* Whichever of the permission and the models comes last, and however the  *)
(* attempts to build a pipeline end: there is a pipeline, a retry or the   *)
(* health that says that the models do not load.                           *)
THEOREM NoGateComesLate == Spec => []NeitherComesLate
  BY LateInit, LateStep, InvariantHolds, PTL DEF Spec

(* Chains of downloads that mix up their answers leave every verified file *)
(* alone.                                                                  *)
THEOREM VerifiedFilesSafe == Spec => VerifiedFilesStay
<1>1. IInv /\ [Next]_vars => [cached \subseteq cached']_downloader
  <2>. SUFFICES ASSUME IInv, [Next]_vars, downloader' # downloader
                PROVE  cached \subseteq cached'
    OBVIOUS
  <2>1. \/ CheckAndDownload
        \/ \E r \in replies: DownloadSucceeds(r) \/ DownloadFails(r) \/ ReplyIgnored(r)
    BY DEF Next, vars, RetryTimerFires, HandlePermission, DownloadFinished, LinkComesUp,
           OnDisconnected, OnSessionOpened, DeviceLost, DeviceBack, FramesArrive, FramesStop,
           FramesBecome, PerformHealthCheck
  <2>. QED  BY <2>1, CheckHolds, SuccessHolds, FailureHolds DEF IInv
<1>. QED  BY <1>1, InvariantHolds, PTL DEF Spec, VerifiedFilesStay

(* A session builds at most one pipeline, whatever is retried and whatever *)
(* gate opens when: reconnects add pipelines (OnePipeline does not hold),  *)
(* but nothing else does.  So there are never more health monitors than    *)
(* the sessions that FairSpec has timers for.                              *)
THEOREM OnePipelinePerSession == Spec => [](pipelines <= sessions /\ Len(frames) <= MaxSessions)
<1>1. IInv /\ OwedToSessions => pipelines <= sessions /\ Len(frames) <= MaxSessions
  <2>. SUFFICES ASSUME IInv, OwedToSessions
                PROVE  pipelines <= sessions /\ Len(frames) <= MaxSessions
    OBVIOUS
  <2>1. Cardinality(Timers(retries)) \in Nat /\ pipelines \in Nat /\ sessions \in 0 .. MaxSessions
        /\ Len(frames) \in Nat /\ Len(frames) <= pipelines
    BY FS_CardinalityType DEF IInv, PipelineType, EnvironmentType, OwedToSessions
  <2>2. pipelines <= sessions
    BY <2>1 DEF OwedToSessions
  <2>. QED  BY <2>1, <2>2, StartupAssumption
<1>. QED  BY <1>1, OwedInit, OwedStep, InvariantHolds, PTL DEF Spec

(* The health never shows "server_disconnected" once a handler is done: a  *)
(* check that sets it goes on, and restores "ready" or reports the         *)
(* microphone before it ends (performHealthCheck).                         *)
THEOREM ServerLossHidden == Spec => [](pipelineHealth # "server_disconnected")
<1>. DEFINE Hidden == pipelineHealth # "server_disconnected"
<1>1. Init => Hidden
  BY DEF Init
<1>2. Hidden /\ [Next]_vars => Hidden'
  <2>. SUFFICES ASSUME Hidden, [Next]_vars
                PROVE  Hidden'
    OBVIOUS
  <2>1. ASSUME NEW health, health # "server_disconnected",
               \/ TryStartPipeline(health)
               \/ \E c, left: InitAudioPipeline(health, c, left)
        PROVE  Hidden'
    BY <2>1 DEF TryStartPipeline, InitAudioPipeline, ModelsDoNotLoad, ThreadsDoNotStart,
                PipelineStarts
  <2>2. CASE (\E c \in RetryCount: RetryTimerFires(c)) \/ HandlePermission
    BY <2>1, <2>2 DEF RetryTimerFires, HandlePermission
  <2>3. CASE (\E r \in replies: DownloadFinished(r)) \/ OnSessionOpened
    BY <2>1, <2>3 DEF DownloadFinished, OnSessionOpened, OnAllModelsReady, pipeline
  <2>4. CASE \E m \in DOMAIN frames: PerformHealthCheck(m)
    BY <2>4 DEF PerformHealthCheck, Recoverable
  <2>5. CASE LinkComesUp \/ OnDisconnected \/ DeviceLost \/ DeviceBack \/ FramesArrive
             \/ FramesStop \/ UNCHANGED vars
    BY <2>5 DEF LinkComesUp, OnDisconnected, DeviceLost, DeviceBack, FramesArrive, FramesStop,
                FramesBecome, vars, pipeline
  <2>. QED  BY <2>2, <2>3, <2>4, <2>5 DEF Next
<1>. QED  BY <1>1, <1>2, PTL DEF Spec

=============================================================================
