-------------------------- MODULE ModelDownloader --------------------------
(***************************************************************************)
(* ModelDownloader: checkAndDownload verifies the cached model files and   *)
(* starts a chain of downloads, one request at a time.  The answer to a    *)
(* request does not say what was asked for: onDownloadFinished stores it   *)
(* under the name of the first pending entry.  Nothing stops a second      *)
(* checkAndDownload while an answer of the first is on its way.            *)
(*                                                                         *)
(* The module has no Next of its own: Startup calls checkAndDownload and   *)
(* receives allModelsReady, which CheckAndDownload and DownloadSucceeds    *)
(* emit exactly when they leave nothing pending.                           *)
(***************************************************************************)
EXTENDS Naturals, Sequences

CONSTANTS
    ModelCount,     \* the entries of the manifest, numbered in its order
    Request         \* bound: the downloads that can be under way at once

Model == 1 .. ModelCount

ASSUME ManifestAssumption == ModelCount \in Nat

VARIABLES
    cached,         \* the models whose file is there and has the right hash
    pending,        \* m_pending: the models to download, the first one first
    replies,        \* the requests the network has not answered
    failed,         \* history: a downloadError was emitted since the last check
    overlapped      \* history: the last check found a download under way

downloader == <<cached, pending, replies, failed, overlapped>>

DownloaderTypeOK ==
    /\ cached \subseteq Model
    /\ pending \subseteq Model
    /\ replies \subseteq [request: Request, model: Model]
    /\ failed \in BOOLEAN
    /\ overlapped \in BOOLEAN

DownloaderInit ==
    /\ cached \in SUBSET Model
    /\ pending = {}
    /\ replies = {}
    /\ failed = FALSE
    /\ overlapped = FALSE

-----------------------------------------------------------------------------
(* The first entry of a list of models (0 if there is none). *)
First(models) ==
    IF models = {} THEN 0 ELSE CHOOSE m \in models: \A n \in models: m <= n

(* downloadNext: the first pending model is requested. *)
DownloadNext(models, waiting) ==
    IF models = {}
    THEN replies' = waiting
    ELSE \E q \in Request \ {r.request: r \in waiting}:
            replies' = waiting \cup {[request |-> q, model |-> First(models)]}

CheckUnlessPending ==   \* mutant: what an earlier check left pending is waited for
    /\ IF pending # {}
       THEN UNCHANGED <<pending, replies>>
       ELSE /\ pending' = Model \ cached
            /\ DownloadNext(pending', replies)
    /\ failed' = FALSE
    /\ overlapped' = (replies # {})
    /\ UNCHANGED cached

CheckAndDownload ==
    /\ pending' = Model \ cached
    /\ DownloadNext(pending', replies)
    /\ failed' = FALSE
    /\ overlapped' = (replies # {})
    /\ UNCHANGED cached

-----------------------------------------------------------------------------
(* onDownloadFinished. *)

(* The answer is intact and belongs to the first pending model. *)
DownloadSucceeds(r) ==
    /\ pending # {}
    /\ r.model = First(pending)
    /\ cached' = cached \cup {First(pending)}
    /\ pending' = pending \ {First(pending)}
    /\ DownloadNext(pending \ {First(pending)}, replies \ {r})
    /\ UNCHANGED <<failed, overlapped>>

RemoveWhatWasAskedFor(r) ==   \* mutant: the file of the answered request is removed
    /\ pending # {}
    /\ pending' = pending \ {First(pending)}
    /\ replies' = replies \ {r}
    /\ \/ UNCHANGED cached
       \/ cached' = cached \ {r.model}
    /\ failed' = TRUE
    /\ UNCHANGED overlapped

(* A network error or a file that cannot be written, which leave the file  *)
(* alone, or a wrong hash (damaged, or the answer to another request),     *)
(* which removes it.  The chain ends; what else is pending stays pending.  *)
DownloadFails(r) ==
    /\ pending # {}
    /\ pending' = pending \ {First(pending)}
    /\ replies' = replies \ {r}
    /\ \/ UNCHANGED cached
       \/ cached' = cached \ {First(pending)}
    /\ failed' = TRUE
    /\ UNCHANGED overlapped

(* Nothing is pending any more: the answer is dropped. *)
ReplyIgnored(r) ==
    /\ pending = {}
    /\ replies' = replies \ {r}
    /\ UNCHANGED <<cached, pending, failed, overlapped>>

-----------------------------------------------------------------------------
(* Properties.                                                             *)

(* A model file that was verified is never removed or overwritten, however *)
(* many chains of downloads run at once and mix up their answers.          *)
VerifiedFilesStay == [][cached \subseteq cached']_downloader

=============================================================================
