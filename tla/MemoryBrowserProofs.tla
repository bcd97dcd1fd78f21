------------------------ MODULE MemoryBrowserProofs ------------------------
(***************************************************************************)
(* Proofs about the memory browser, for every set of episodes and any      *)
(* number of requests in flight.                                           *)
(***************************************************************************)
EXTENDS MemoryBrowser, FiniteSetTheorems, TLAPS

-----------------------------------------------------------------------------
(* The inductive invariant: besides the properties themselves, as long as  *)
(* nothing is superseded all turns in flight are the selected episode's.   *)

TurnsAreOfSelected ==
    ~superseded => \A f \in inFlight: f.query \in Episode => f.query = selectedEpisodeId

IInv ==
    /\ TypeOK
    /\ IsFiniteSet(inFlight)
    /\ LoadingHeld
    /\ TurnsMatchUnlessSuperseded
    /\ TurnsAreOfSelected

LEMMA InitHolds == Init => IInv
<1>. SUFFICES ASSUME Init
              PROVE  IInv
  OBVIOUS
<1>1. TypeOK
  BY DEF Init, TypeOK
<1>2. IsFiniteSet(inFlight) /\ LoadingHeld
  <2>1. IsFiniteSet({}) /\ Cardinality({}) = 0
    BY FS_EmptySet
  <2>. QED  BY <2>1 DEF Init, LoadingHeld
<1>3. TurnsMatchUnlessSuperseded /\ TurnsAreOfSelected
  BY DEF Init, TurnsMatchUnlessSuperseded, TurnsAreOfSelected
<1>. QED  BY <1>1, <1>2, <1>3 DEF IInv

(* A new request makes one more in flight. *)
LEMMA OneMore ==
    ASSUME NEW flying, IsFiniteSet(flying), NEW r \in Request, NEW q,
           \A f \in flying: f.request # r
    PROVE  /\ IsFiniteSet(flying \cup {[request |-> r, query |-> q]})
           /\ Cardinality(flying) \in Nat
           /\ Cardinality(flying \cup {[request |-> r, query |-> q]}) = Cardinality(flying) + 1
<1>1. [request |-> r, query |-> q] \notin flying
  OBVIOUS
<1>. QED  BY <1>1, FS_AddElement, FS_CardinalityType

LEMMA RefreshHolds ==
    ASSUME IInv, Refresh
    PROVE  IInv'
<1>. USE DEF IInv
<1>1. PICK r1 \in Unused, r2 \in Unused:
          /\ r1 # r2
          /\ inFlight' = inFlight \cup {[request |-> r1, query |-> "episodes"],
                                        [request |-> r2, query |-> "preferences"]}
  BY DEF Refresh
<1>. DEFINE one == inFlight \cup {[request |-> r1, query |-> "episodes"]}
<1>2. /\ r1 \in Request /\ \A f \in inFlight: f.request # r1
      /\ r2 \in Request /\ \A f \in inFlight: f.request # r2
  BY DEF Unused
<1>3. IsFiniteSet(one) /\ Cardinality(inFlight) \in Nat /\ Cardinality(one) = Cardinality(inFlight) + 1
  BY <1>2, OneMore
<1>4. inFlight' = one \cup {[request |-> r2, query |-> "preferences"]}
  BY <1>1
<1>5. \A f \in one: f.request # r2
  BY <1>1, <1>2
<1>6. IsFiniteSet(inFlight') /\ Cardinality(inFlight') = Cardinality(one) + 1
  <2>. HIDE DEF one
  <2>. QED  BY <1>2, <1>3, <1>4, <1>5, OneMore
<1>7. /\ selectedEpisodeId' = NoEpisode /\ turnsOf' = NoEpisode
      /\ superseded' = \E f \in inFlight: f.query \in Episode \ {NoEpisode}
      /\ pendingRequests' = 2 /\ loading' = TRUE
      /\ overlapped' = (inFlight # {})
  BY DEF Refresh, ChangeSelection
<1>8. TypeOK'
  BY <1>1, <1>2, <1>7 DEF TypeOK, Query
<1>9. LoadingHeld'
  <2>1. Cardinality(inFlight') = Cardinality(inFlight) + 2
    <3>. HIDE DEF one
    <3>. QED  BY <1>3, <1>6
  <2>2. ~overlapped' => Cardinality(inFlight) = 0
    BY <1>7, FS_EmptySet
  <2>. QED  BY <1>3, <1>7, <2>1, <2>2 DEF LoadingHeld
<1>10. TurnsMatchUnlessSuperseded'
  BY <1>7 DEF TurnsMatchUnlessSuperseded
<1>11. TurnsAreOfSelected'
  <2>. SUFFICES ASSUME ~superseded', NEW f \in inFlight', f.query \in Episode
                PROVE  FALSE
    BY DEF TurnsAreOfSelected
  <2>1. f \notin inFlight
    BY <1>7, EpisodeAssumption
  <2>2. f.query \in {"episodes", "preferences"}
    BY <1>1, <2>1
  <2>. QED  BY <2>2, EpisodeAssumption
<1>. QED  BY <1>6, <1>8, <1>9, <1>10, <1>11

LEMMA SelectHolds ==
    ASSUME IInv, NEW e \in Episode, SelectEpisode(e)
    PROVE  IInv'
<1>. USE DEF IInv
<1>1. PICK r \in Unused: inFlight' = inFlight \cup {[request |-> r, query |-> e]}
  BY DEF SelectEpisode, Fetch
<1>2. r \in Request /\ \A f \in inFlight: f.request # r
  BY DEF Unused
<1>3. /\ IsFiniteSet(inFlight') /\ Cardinality(inFlight) \in Nat
      /\ Cardinality(inFlight') = Cardinality(inFlight) + 1
  BY <1>1, <1>2, OneMore
<1>4. /\ selectedEpisodeId' = e /\ turnsOf' = NoEpisode
      /\ superseded' = \E f \in inFlight: f.query \in Episode \ {e}
      /\ pendingRequests' = pendingRequests + 1 /\ loading' = TRUE /\ overlapped' = overlapped
  BY DEF SelectEpisode, ChangeSelection
<1>5. TypeOK'
  BY <1>1, <1>2, <1>4 DEF TypeOK, Query
<1>6. LoadingHeld'
  BY <1>3, <1>4 DEF LoadingHeld, TypeOK
<1>7. TurnsMatchUnlessSuperseded'
  BY <1>4 DEF TurnsMatchUnlessSuperseded
<1>8. TurnsAreOfSelected'
  <2>. SUFFICES ASSUME ~superseded', NEW f \in inFlight', f.query \in Episode
                PROVE  f.query = e
    BY <1>4 DEF TurnsAreOfSelected
  <2>1. CASE f \in inFlight
    BY <1>4, <2>1
  <2>2. CASE f \notin inFlight
    BY <1>1, <2>2
  <2>. QED  BY <2>1, <2>2
<1>. QED  BY <1>3, <1>5, <1>6, <1>7, <1>8

LEMMA ClearHolds ==
    ASSUME IInv, ClearSelection
    PROVE  IInv'
<1>1. /\ selectedEpisodeId' = NoEpisode /\ turnsOf' = NoEpisode
      /\ superseded' = \E f \in inFlight: f.query \in Episode \ {NoEpisode}
      /\ UNCHANGED <<pendingRequests, loading, inFlight, overlapped>>
  BY DEF ClearSelection, ChangeSelection
<1>2. TypeOK' /\ LoadingHeld' /\ IsFiniteSet(inFlight')
  BY <1>1 DEF IInv, TypeOK, LoadingHeld
<1>3. TurnsMatchUnlessSuperseded'
  BY <1>1 DEF TurnsMatchUnlessSuperseded
<1>4. TurnsAreOfSelected'
  BY <1>1, EpisodeAssumption DEF TurnsAreOfSelected
<1>. QED  BY <1>2, <1>3, <1>4 DEF IInv

(* An answer, of whatever kind, is counted off. *)
LEMMA AnsweredHolds ==
    ASSUME IInv, NEW f \in inFlight, Answered(f), UNCHANGED <<selectedEpisodeId, superseded>>,
           \/ turnsOf' = turnsOf
           \/ f.query \in Episode /\ turnsOf' = f.query
    PROVE  IInv'
<1>. USE DEF IInv
<1>1. /\ inFlight' = inFlight \ {f}
      /\ overlapped' = (overlapped /\ inFlight' # {})
      /\ pendingRequests' = IF pendingRequests > 0 THEN pendingRequests - 1 ELSE 0
      /\ loading' = (loading /\ pendingRequests' # 0)
  BY DEF Answered, DecrementPending
<1>2. /\ IsFiniteSet(inFlight') /\ Cardinality(inFlight) \in Nat
      /\ Cardinality(inFlight') \in Nat
      /\ Cardinality(inFlight') = Cardinality(inFlight) - 1
  BY <1>1, FS_RemoveElement, FS_CardinalityType
<1>3. pendingRequests \in Nat /\ loading \in BOOLEAN /\ overlapped \in BOOLEAN
  BY DEF TypeOK
<1>4. TypeOK'
  BY <1>1, <1>3 DEF TypeOK
<1>5. LoadingHeld'
  <2>1. /\ loading <=> pendingRequests > 0
        /\ pendingRequests <= Cardinality(inFlight)
        /\ ~overlapped => pendingRequests = Cardinality(inFlight)
    BY DEF LoadingHeld
  <2>2. pendingRequests' <= Cardinality(inFlight')
    BY <1>1, <1>2, <1>3, <2>1
  <2>3. loading' <=> pendingRequests' > 0
    <3>1. pendingRequests' > 0 <=> (pendingRequests > 0 /\ pendingRequests' # 0)
      BY <1>1, <1>3
    <3>. QED  BY <1>1, <2>1, <3>1, Zenon
  <2>4. CASE overlapped /\ overlapped'
    BY <2>2, <2>3, <2>4 DEF LoadingHeld
  <2>5. CASE overlapped /\ ~overlapped'
    <3>1. Cardinality(inFlight') = 0
      BY <1>1, <2>5, FS_EmptySet
    <3>2. pendingRequests' = 0
      BY <1>1, <1>2, <1>3, <2>1, <3>1
    <3>. QED  BY <2>2, <2>3, <3>1, <3>2 DEF LoadingHeld
  <2>6. CASE ~overlapped
    <3>1. pendingRequests' = Cardinality(inFlight')
      BY <1>1, <1>2, <1>3, <2>1, <2>6
    <3>. QED  BY <2>2, <2>3, <3>1 DEF LoadingHeld
  <2>. QED  BY <2>4, <2>5, <2>6
<1>6. TurnsMatchUnlessSuperseded'
  BY DEF TurnsMatchUnlessSuperseded, TurnsAreOfSelected
<1>7. TurnsAreOfSelected'
  BY <1>1 DEF TurnsAreOfSelected
<1>. QED  BY <1>2, <1>4, <1>5, <1>6, <1>7

LEMMA StepHolds == IInv /\ [Next]_vars => IInv'
<1>. SUFFICES ASSUME IInv, [Next]_vars
              PROVE  IInv'
  OBVIOUS
<1>1. CASE \E f \in inFlight: ListReceived(f) \/ TurnsReceived(f) \/ FetchError(f)
  BY <1>1, AnsweredHolds DEF ListReceived, TurnsReceived, FetchError
<1>2. CASE UNCHANGED vars
  BY <1>2 DEF vars, history, IInv, TypeOK, LoadingHeld, TurnsMatchUnlessSuperseded, TurnsAreOfSelected
<1>. QED  BY <1>1, <1>2, RefreshHolds, SelectHolds, ClearHolds DEF Next

LEMMA InvariantHolds == Spec => []IInv
  BY InitHolds, StepHolds, PTL DEF Spec

-----------------------------------------------------------------------------
(* The theorems.                                                           *)

(* Every reachable state is well-typed. *)
THEOREM TypeCorrect == Spec => []TypeOK
<1>1. IInv => TypeOK
  BY DEF IInv
<1>. QED  BY <1>1, InvariantHolds, PTL

(* The spinner turns exactly while requests are in flight, and if a        *)
(* refresh overlapped earlier requests, at least not beyond the last one.  *)
THEOREM LoadingSafe == Spec => []LoadingHeld
<1>1. IInv => LoadingHeld
  BY DEF IInv
<1>. QED  BY <1>1, InvariantHolds, PTL

(* Only turns that were on their way when another episode was selected can *)
(* be on display beside its name.                                          *)
THEOREM TurnsSafe == Spec => []TurnsMatchUnlessSuperseded
<1>1. IInv => TurnsMatchUnlessSuperseded
  BY DEF IInv
<1>. QED  BY <1>1, InvariantHolds, PTL

=============================================================================
