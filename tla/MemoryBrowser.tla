--------------------------- MODULE MemoryBrowser ---------------------------
(***************************************************************************)
(* The memory browser panel: MemoryBrowserModel, which the QML panel calls *)
(* (refresh, selectEpisode, clearSelection), and MemoryClient, which turns *)
(* each call into HTTP requests.  The network answers the requests in any  *)
(* order, each one once, with data or with an error, or never.  A reply    *)
(* does not say which episode it was asked for: the model takes whatever   *)
(* turns arrive.                                                           *)
(***************************************************************************)
EXTENDS Integers, FiniteSets

CONSTANTS
    Episode,        \* identifiers of episodes
    NoEpisode,      \* the empty QString
    Request         \* bound: the HTTP requests that can be in flight at once

ASSUME EpisodeAssumption == Episode \cap {NoEpisode, "episodes", "preferences"} = {}
ASSUME RequestAssumption == IsFiniteSet(Request)

VARIABLES
    selectedEpisodeId,
    turnsOf,            \* the episode whose turns selectedEpisodeTurns holds
    pendingRequests,
    loading,
    inFlight,           \* the requests the network has not answered
    superseded,         \* history: see TurnsMatchUnlessSuperseded
    overlapped          \* history: see LoadingHeld

history == <<superseded, overlapped>>
vars == <<selectedEpisodeId, turnsOf, pendingRequests, loading, inFlight, history>>

(* What a request asks for: a list of the refresh, or an episode's turns. *)
Query == {"episodes", "preferences"} \cup Episode

TypeOK ==
    /\ selectedEpisodeId \in Episode \cup {NoEpisode}
    /\ turnsOf \in Episode \cup {NoEpisode}
    /\ pendingRequests \in Nat
    /\ loading \in BOOLEAN
    /\ inFlight \in SUBSET [request: Request, query: Query]
    /\ superseded \in BOOLEAN
    /\ overlapped \in BOOLEAN

Init ==
    /\ selectedEpisodeId = NoEpisode
    /\ turnsOf = NoEpisode
    /\ pendingRequests = 0
    /\ loading = FALSE
    /\ inFlight = {}
    /\ superseded = FALSE
    /\ overlapped = FALSE

-----------------------------------------------------------------------------
(* Operations the panel calls.                                             *)

Unused == Request \ {f.request: f \in inFlight}

(* Turns of another episode than the new selection are on their way. *)
ChangeSelection(e) ==
    /\ selectedEpisodeId' = e
    /\ turnsOf' = NoEpisode
    /\ superseded' = \E f \in inFlight: f.query \in Episode \ {e}

(* refresh() sets the counter, whatever is still in flight. *)
Refresh ==
    /\ ChangeSelection(NoEpisode)
    /\ pendingRequests' = 2
    /\ loading' = TRUE
    /\ overlapped' = (inFlight # {})
    /\ \E r1, r2 \in Unused:
          /\ r1 # r2
          /\ inFlight' = inFlight \cup {[request |-> r1, query |-> "episodes"],
                                        [request |-> r2, query |-> "preferences"]}

Fetch(e) == \E r \in Unused: inFlight' = inFlight \cup {[request |-> r, query |-> e]}

SelectKeepsOldTurns(e) ==   \* mutant: the previous turns stay on display
    /\ selectedEpisodeId' = e
    /\ superseded' = \E f \in inFlight: f.query \in Episode \ {e}
    /\ pendingRequests' = pendingRequests + 1
    /\ loading' = TRUE
    /\ Fetch(e)
    /\ UNCHANGED <<turnsOf, overlapped>>

SelectCountsOne(e) ==   \* mutant: the counter is set, as refresh() does
    /\ ChangeSelection(e)
    /\ pendingRequests' = 1
    /\ loading' = TRUE
    /\ Fetch(e)
    /\ UNCHANGED overlapped

SelectEpisode(e) ==
    /\ ChangeSelection(e)
    /\ pendingRequests' = pendingRequests + 1
    /\ loading' = TRUE
    /\ Fetch(e)
    /\ UNCHANGED overlapped

ClearSelection ==
    /\ ChangeSelection(NoEpisode)
    /\ UNCHANGED <<pendingRequests, loading, inFlight, overlapped>>

-----------------------------------------------------------------------------
(* Answers of the network.                                                 *)

DecrementPending ==
    /\ pendingRequests' = IF pendingRequests > 0 THEN pendingRequests - 1 ELSE 0
    /\ loading' = (loading /\ pendingRequests' # 0)

Answered(f) ==
    /\ inFlight' = inFlight \ {f}
    /\ overlapped' = (overlapped /\ inFlight' # {})
    /\ DecrementPending

(* episodesReceived and preferencesReceived replace lists of their own. *)
ListReceived(f) ==
    /\ f.query \notin Episode
    /\ Answered(f)
    /\ UNCHANGED <<selectedEpisodeId, turnsOf, superseded>>

TurnsReceived(f) ==
    /\ f.query \in Episode
    /\ Answered(f)
    /\ turnsOf' = f.query
    /\ UNCHANGED <<selectedEpisodeId, superseded>>

ErrorsAreNotCounted(f) ==   \* mutant: a failed request is never counted off
    /\ inFlight' = inFlight \ {f}
    /\ UNCHANGED <<selectedEpisodeId, turnsOf, pendingRequests, loading, history>>

(* A network error or a body that is not JSON. *)
FetchError(f) ==
    /\ Answered(f)
    /\ UNCHANGED <<selectedEpisodeId, turnsOf, superseded>>

Next ==
    \/ Refresh
    \/ \E e \in Episode: SelectEpisode(e)
    \/ ClearSelection
    \/ \E f \in inFlight: ListReceived(f)
    \/ \E f \in inFlight: TurnsReceived(f)
    \/ \E f \in inFlight: FetchError(f)

Spec == Init /\ [][Next]_vars

(* A server that answers every request (the client sets no timeout): only  *)
(* then is anything promised about the spinner.                            *)
AnsweringSpec ==
    Spec /\ \A r \in Request:
        WF_vars(\E f \in inFlight:
            f.request = r /\ (ListReceived(f) \/ TurnsReceived(f) \/ FetchError(f)))

-----------------------------------------------------------------------------
(* Properties.                                                             *)

(* loading, behind the spinner, is true while any request is in flight, as *)
(* the header says, and false when none is: however selections, refreshes  *)
(* and errors follow one another, the counter is the number of requests to *)
(* be answered.  A refresh() made with requests in flight sets it to two   *)
(* all the same; until they are all answered (history variable overlapped) *)
(* it only never exceeds that number, so that the spinner is not left on.  *)
LoadingHeld ==
    /\ loading <=> pendingRequests > 0
    /\ pendingRequests <= Cardinality(inFlight)
    /\ ~overlapped => pendingRequests = Cardinality(inFlight)

(* As long as the selection did not last change with turns of another      *)
(* episode in flight (history variable superseded), the turns on display   *)
(* are those of the selected episode.                                      *)
TurnsMatchUnlessSuperseded ==
    ~superseded => turnsOf \in {NoEpisode, selectedEpisodeId}

(* If the server answers and the user stops asking, the spinner stops for  *)
(* good, whatever refreshes and selections overlapped before.              *)
Answers == \E f \in inFlight: ListReceived(f) \/ TurnsReceived(f) \/ FetchError(f)
SpinnerStops == <>[][Answers]_vars => <>[]~loading

-----------------------------------------------------------------------------
(* What the documentation says and the code does not do.                   *)

(* memory_browser_model.h: "loading becomes false only after ALL pending   *)
(* requests complete".  The answers to what was in flight when refresh()   *)
(* set the counter to two count for those of the refresh.                  *)
LoadingWhileInFlight == inFlight # {} => loading

=============================================================================
