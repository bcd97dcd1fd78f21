---------------------------- MODULE SceneProofs ----------------------------
(***************************************************************************)
(* Proofs about the overlays and the backgrounds of the scene, for any     *)
(* identifiers, parameters and data: what the overlays show; which item is *)
(* the current background, and that no other action than the loads that    *)
(* fail can destroy it.                                                    *)
(***************************************************************************)
EXTENDS Scene, FiniteSetTheorems, TLAPS

Shown == IF currentBackground = Null THEN Null ELSE currentBackground.id

(* What the overlays and the background they are told of consist of.       *)
BackgroundType ==
    /\ backgroundParams \in Params /\ sceneData \in Data
    /\ currentBackground \in Item \cup {Null}
OverlayType ==
    /\ overlayParams \in [activeOverlayIds -> Params]
    /\ overlayMap \in [DOMAIN overlayMap -> OverlayItem]

IInv == BackgroundType /\ OverlayType /\ OverlaysMatch

LEMMA TellKeepsId ==
    ASSUME BackgroundType,
           \/ \E p \in Params: currentBackground' = Tell("params", p)
           \/ \E d \in Data: currentBackground' = Tell("data", d)
           \/ currentBackground' = currentBackground
    PROVE  currentBackground' \in Item \cup {Null} /\ Shown' = Shown
<1>1. Null \notin Item
  BY SceneAssumption DEF Item
<1>2. CASE currentBackground = Null
  BY <1>2 DEF Tell, Shown
<1>3. CASE currentBackground \in Item
  <2>1. currentBackground # Null
    BY <1>1, <1>3
  <2>2. currentBackground' \in Item /\ currentBackground'.id = currentBackground.id
    BY <1>3, <2>1 DEF Tell, Item
  <2>. QED  BY <1>1, <2>1, <2>2 DEF Shown
<1>. QED  BY <1>2, <1>3 DEF BackgroundType

(* Told of the background or of the data, the overlays keep the rest. *)
LEMMA TellOverlaysHolds ==
    ASSUME OverlayType, NEW field \in {"data", "background"}, NEW value,
           field = "data" => value \in Data, field = "background" => value \in Plugin \cup {Null},
           overlayMap' = TellOverlays(field, value)
    PROVE  /\ DOMAIN overlayMap' = DOMAIN overlayMap
           /\ overlayMap' \in [DOMAIN overlayMap' -> OverlayItem]
           /\ \A o \in DOMAIN overlayMap:
                 /\ overlayMap'[o].params = overlayMap[o].params
                 /\ overlayMap'[o].data = IF field = "data" THEN value ELSE overlayMap[o].data
                 /\ overlayMap'[o].background =
                       IF field = "background" THEN value ELSE overlayMap[o].background
<1>1. overlayMap' = [o \in DOMAIN overlayMap |-> [overlayMap[o] EXCEPT ![field] = value]]
  BY DEF TellOverlays
<1>2. ASSUME NEW o \in DOMAIN overlayMap
      PROVE  /\ overlayMap'[o] \in OverlayItem
             /\ overlayMap'[o].params = overlayMap[o].params
             /\ overlayMap'[o].data = IF field = "data" THEN value ELSE overlayMap[o].data
             /\ overlayMap'[o].background =
                   IF field = "background" THEN value ELSE overlayMap[o].background
  <2>1. overlayMap[o] \in OverlayItem /\ overlayMap'[o] = [overlayMap[o] EXCEPT ![field] = value]
    BY <1>1 DEF OverlayType
  <2>2. CASE field = "data"
    BY <2>1, <2>2 DEF OverlayItem
  <2>3. CASE field = "background"
    BY <2>1, <2>3 DEF OverlayItem
  <2>. QED  BY <2>2, <2>3
<1>. QED  BY <1>1, <1>2

-----------------------------------------------------------------------------
(* The background.                                                         *)

LEMMA LoadHolds ==
    ASSUME IInv, NEW id, NEW transition, NEW told, LoadBackground(id, transition, told),
           backgroundParams' \in Params,
           told = currentBackground \/ \E p \in Params: told = Tell("params", p),
           UNCHANGED <<sceneData, activeOverlayIds, overlayParams>>
    PROVE  IInv'
<1>1. CASE currentBackground' = told /\ UNCHANGED overlayMap
  <2>1. currentBackground' \in Item \cup {Null} /\ Shown' = Shown
    BY <1>1, TellKeepsId DEF IInv
  <2>. QED  BY <1>1, <2>1 DEF IInv, BackgroundType, OverlayType, OverlaysMatch, Shown
<1>2. CASE Show(id, transition)
  <2>1. /\ id \in Plugin
        /\ currentBackground' = [id |-> id, params |-> backgroundParams', data |-> sceneData]
        /\ overlayMap' = TellOverlays("background", id)
    BY <1>2 DEF Show
  <2>2. currentBackground' \in Item /\ Shown' = id
    BY <2>1, SceneAssumption DEF IInv, BackgroundType, Item, Shown
  <2>3. /\ DOMAIN overlayMap' = DOMAIN overlayMap
        /\ overlayMap' \in [DOMAIN overlayMap' -> OverlayItem]
        /\ \A o \in DOMAIN overlayMap: /\ overlayMap'[o].params = overlayMap[o].params
                                       /\ overlayMap'[o].data = overlayMap[o].data
                                       /\ overlayMap'[o].background = id
    BY <2>1, TellOverlaysHolds DEF IInv
  <2>4. BackgroundType' /\ OverlayType'
    BY <2>2, <2>3 DEF IInv, BackgroundType, OverlayType
  <2>5. OverlaysMatch'
    BY <2>2, <2>3 DEF IInv, OverlaysMatch, Shown
  <2>. QED  BY <2>4, <2>5 DEF IInv
<1>. QED  BY <1>1, <1>2 DEF LoadBackground, LoadFails, CreationFails

LEMMA BackgroundHolds ==
    ASSUME IInv, BackgroundChange \/ SetActiveBackgroundId
    PROVE  IInv'
<1>1. CASE BackgroundChange
  <2>1. PICK id \in Plugin \cup Unknown, p \in Params, t \in {"crossfade", "instant"}:
            SetBackground(id, p, t)
    BY <1>1 DEF BackgroundChange
  <2>2. /\ backgroundParams' = p /\ UNCHANGED <<sceneData, activeOverlayIds, overlayParams>>
        /\ \/ LoadBackground(id, t, Tell("params", p))
           \/ currentBackground' = Tell("params", p) /\ UNCHANGED overlayMap
    BY <2>1 DEF SetBackground
  <2>3. CASE LoadBackground(id, t, Tell("params", p))
    BY <2>2, <2>3, LoadHolds
  <2>4. CASE currentBackground' = Tell("params", p) /\ UNCHANGED overlayMap
    <3>1. currentBackground' \in Item \cup {Null} /\ Shown' = Shown
      BY <2>4, TellKeepsId DEF IInv
    <3>. QED  BY <2>2, <2>4, <3>1 DEF IInv, BackgroundType, OverlayType, OverlaysMatch, Shown
  <2>. QED  BY <2>2, <2>3, <2>4
<1>2. CASE SetActiveBackgroundId
  <2>1. PICK id: /\ LoadBackground(id, sceneTransition, currentBackground)
                 /\ UNCHANGED <<backgroundParams, sceneData, activeOverlayIds, overlayParams>>
    BY <1>2 DEF SetActiveBackgroundId
  <2>. QED  BY <2>1, LoadHolds DEF IInv, BackgroundType
<1>. QED  BY <1>1, <1>2

-----------------------------------------------------------------------------
(* The overlays.                                                           *)

LEMMA SyncHolds ==
    ASSUME IInv, OverlaysChange, overlayParams' \in [activeOverlayIds' -> Params]
    PROVE  IInv'
<1>1. UNCHANGED <<backgroundParams, sceneData, currentBackground>>
  BY DEF OverlaysChange
<1>2. BackgroundType' /\ Shown' = Shown /\ Shown \in Plugin \cup {Null} /\ sceneData \in Data
  BY <1>1 DEF IInv, BackgroundType, Shown, Item
<1>. DEFINE kept == DOMAIN overlayMap \cap activeOverlayIds'
<1>3. PICK created \in SUBSET ((activeOverlayIds' \cap Overlay) \ kept):
        overlayMap' = [o \in kept \cup created |->
            [params     |-> overlayParams'[o],
             data       |-> IF o \in kept THEN overlayMap[o].data ELSE sceneData,
             background |-> IF o \in kept THEN overlayMap[o].background ELSE Shown]]
  BY DEF OverlaysChange, SyncOverlays, Shown
<1>4. DOMAIN overlayMap' = kept \cup created /\ DOMAIN overlayMap' \subseteq activeOverlayIds'
  BY <1>3
<1>5. ASSUME NEW o \in DOMAIN overlayMap'
      PROVE  /\ overlayMap'[o] = [params |-> overlayParams'[o], data |-> sceneData,
                                  background |-> Shown]
             /\ overlayMap'[o] \in OverlayItem
  <2>1. o \in kept => overlayMap[o].data = sceneData /\ overlayMap[o].background = Shown
    BY DEF IInv, OverlaysMatch, Shown
  <2>2. overlayMap'[o] = [params |-> overlayParams'[o], data |-> sceneData, background |-> Shown]
    BY <1>3, <1>4, <2>1
  <2>3. overlayParams'[o] \in Params
    BY <1>4
  <2>. QED  BY <1>2, <2>2, <2>3 DEF OverlayItem
<1>6. overlayMap' \in [DOMAIN overlayMap' -> OverlayItem]
  BY <1>3, <1>4, <1>5
<1>7. OverlaysMatch'
  <2>1. ASSUME NEW o \in DOMAIN overlayMap'
        PROVE  /\ overlayMap'[o].params = overlayParams'[o]
               /\ overlayMap'[o].data = sceneData'
               /\ overlayMap'[o].background = Shown'
    <3>1. overlayMap'[o] = [params |-> overlayParams'[o], data |-> sceneData, background |-> Shown]
      BY <1>5
    <3>. HIDE DEF kept
    <3>. QED  BY <1>1, <1>2, <3>1
  <2>. QED  BY <1>4, <2>1 DEF OverlaysMatch, Shown
<1>. QED  BY <1>2, <1>6, <1>7 DEF IInv, OverlayType

LEMMA OverlaysHold ==
    ASSUME IInv, AddOverlay \/ RemoveOverlay \/ ClearOverlays
    PROVE  IInv'
<1>1. OverlaysChange
  BY DEF AddOverlay, RemoveOverlay, ClearOverlays
<1>2. overlayParams \in [activeOverlayIds -> Params]
  BY DEF IInv, OverlayType
<1>3. overlayParams' \in [activeOverlayIds' -> Params]
  <2>1. CASE AddOverlay
    BY <1>2, <2>1 DEF AddOverlay
  <2>2. CASE RemoveOverlay
    BY <1>2, <2>2 DEF RemoveOverlay
  <2>3. CASE ClearOverlays
    <3>1. <<>> \in [{} -> Params]
      OBVIOUS
    <3>. QED  BY <2>3, <3>1 DEF ClearOverlays
  <2>. QED  BY <2>1, <2>2, <2>3
<1>. QED  BY <1>1, <1>3, SyncHolds

LEMMA DataHolds ==
    ASSUME IInv, SetSceneData
    PROVE  IInv'
<1>1. PICK d \in Data: /\ sceneData' = d /\ currentBackground' = Tell("data", d)
                       /\ overlayMap' = TellOverlays("data", d)
                       /\ UNCHANGED <<backgroundParams, activeOverlayIds, overlayParams>>
  BY DEF SetSceneData
<1>2. currentBackground' \in Item \cup {Null} /\ Shown' = Shown
  BY <1>1, TellKeepsId DEF IInv
<1>3. /\ DOMAIN overlayMap' = DOMAIN overlayMap
      /\ overlayMap' \in [DOMAIN overlayMap' -> OverlayItem]
      /\ \A o \in DOMAIN overlayMap: /\ overlayMap'[o].params = overlayMap[o].params
                                     /\ overlayMap'[o].data = d
                                     /\ overlayMap'[o].background = overlayMap[o].background
  BY <1>1, TellOverlaysHolds DEF IInv
<1>4. BackgroundType' /\ OverlayType'
  BY <1>1, <1>2, <1>3 DEF IInv, BackgroundType, OverlayType
<1>5. OverlaysMatch'
  BY <1>1, <1>2, <1>3 DEF IInv, OverlaysMatch, Shown
<1>. QED  BY <1>4, <1>5 DEF IInv

-----------------------------------------------------------------------------
(* The event loop: a lost background leaves the overlays without one.      *)

LEMMA DeletesHold ==
    ASSUME IInv, DeferredDeletes
    PROVE  IInv'
<1>1. UNCHANGED <<backgroundParams, sceneData, activeOverlayIds, overlayParams>>
  BY DEF DeferredDeletes, connectionState
<1>2. CASE UNCHANGED <<currentBackground, overlayMap>>
  BY <1>1, <1>2 DEF IInv, BackgroundType, OverlayType, OverlaysMatch
<1>3. CASE currentBackground' = Null /\ overlayMap' = TellOverlays("background", Null)
  <2>1. /\ DOMAIN overlayMap' = DOMAIN overlayMap
        /\ overlayMap' \in [DOMAIN overlayMap' -> OverlayItem]
        /\ \A o \in DOMAIN overlayMap: /\ overlayMap'[o].params = overlayMap[o].params
                                       /\ overlayMap'[o].data = overlayMap[o].data
                                       /\ overlayMap'[o].background = Null
    BY <1>3, TellOverlaysHolds DEF IInv
  <2>2. BackgroundType' /\ OverlayType'
    BY <1>1, <1>3, <2>1 DEF IInv, BackgroundType, OverlayType
  <2>3. OverlaysMatch'
    BY <1>1, <1>3, <2>1 DEF IInv, OverlaysMatch
  <2>. QED  BY <2>2, <2>3 DEF IInv
<1>. QED  BY <1>2, <1>3 DEF DeferredDeletes

LEMMA StepHolds == IInv /\ [Next]_vars => IInv'
<1>. SUFFICES ASSUME IInv, [Next]_vars
              PROVE  IInv'
  OBVIOUS
<1>1. CASE Fade \/ FadesFinish \/ CleanupTimer \/ UNCHANGED vars
  <2>1. UNCHANGED <<backgroundParams, sceneData, activeOverlayIds, overlayParams, currentBackground,
                    overlayMap>>
    BY <1>1 DEF Fade, FadesFinish, CleanupTimer, Retire, vars, connectionState
  <2>. QED  BY <2>1 DEF IInv, BackgroundType, OverlayType, OverlaysMatch
<1>. QED  BY <1>1, BackgroundHolds, OverlaysHold, DataHolds, DeletesHold DEF Next

-----------------------------------------------------------------------------
(* The slots.                                                              *)

Child == {"current", "old", "lost", "dying"}
Slots == [Slot -> Seq(Child)]

-----------------------------------------------------------------------------
(* What a slot holds after each operation on it, position by position.     *)

(* Only the oldest item of the slot is destroyed. *)
LEMMA DestroyOldestHolds ==
    ASSUME NEW kids \in Slots, NEW s \in Slot \cup {Null}
    PROVE  /\ DestroyOldest(kids, s) \in Slots
           /\ \A t \in Slot:
                 /\ Len(DestroyOldest(kids, s)[t]) = Len(kids[t])
                 /\ \A k \in 1..Len(kids[t]):
                       DestroyOldest(kids, s)[t][k] =
                           IF t = s /\ k = 1 THEN Destroyed(kids[t][k]) ELSE kids[t][k]
<1>1. CASE s = Null \/ kids[s] = <<>>
  <2>1. s # Null => Len(kids[s]) = 0
    BY <1>1
  <2>2. DestroyOldest(kids, s) = kids /\ Null \notin Slot
    BY <1>1, SceneAssumption DEF DestroyOldest, Slot
  <2>. QED  BY <2>1, <2>2
<1>2. CASE s \in Slot /\ kids[s] # <<>>
  <2>1. Null \notin Slot /\ kids[s] \in Seq(Child)
    BY <1>2, SceneAssumption DEF Slots, Slot
  <2>. DEFINE q == [kids[s] EXCEPT ![1] = Destroyed(kids[s][1])]
  <2>2. DestroyOldest(kids, s) = [kids EXCEPT ![s] = q]
    BY <1>2, <2>1 DEF DestroyOldest
  <2>3. Destroyed(kids[s][1]) \in Child
    BY DEF Destroyed, Child
  <2>4. Len(kids[s]) \in Nat /\ 1 \in 1..Len(kids[s])
    BY <1>2, <2>1
  <2>5. /\ q \in Seq(Child) /\ Len(q) = Len(kids[s])
        /\ \A k \in 1..Len(kids[s]): q[k] = IF k = 1 THEN Destroyed(kids[s][k]) ELSE kids[s][k]
    BY <2>1, <2>3, <2>4
  <2>. HIDE DEF q
  <2>. QED  BY <1>2, <2>2, <2>5 DEF Slots
<1>. QED  BY <1>1, <1>2

(* The one added comes last, and the others are no longer current. *)
LEMMA AddHolds ==
    ASSUME NEW kids \in Slots, NEW in \in Slot
    PROVE  /\ Add(kids, in) \in Slots
           /\ \A t \in Slot:
                 /\ Len(Add(kids, in)[t]) = IF t = in THEN Len(kids[t]) + 1 ELSE Len(kids[t])
                 /\ \A k \in 1..Len(kids[t]): Add(kids, in)[t][k] = Replaced(kids[t][k])
           /\ Add(kids, in)[in][Len(kids[in]) + 1] = "current"
<1>1. ASSUME NEW t \in Slot
      PROVE  /\ Add(kids, in)[t] \in Seq(Child)
             /\ Len(Add(kids, in)[t]) = IF t = in THEN Len(kids[t]) + 1 ELSE Len(kids[t])
             /\ \A k \in 1..Len(kids[t]): Add(kids, in)[t][k] = Replaced(kids[t][k])
             /\ t = in => Add(kids, in)[t][Len(kids[t]) + 1] = "current"
  <2>. DEFINE others == [k \in 1..Len(kids[t]) |-> Replaced(kids[t][k])]
  <2>1. kids[t] \in Seq(Child) /\ Len(kids[t]) \in Nat /\ DOMAIN kids[t] = 1..Len(kids[t])
    BY DEF Slots
  <2>2. \A k \in 1..Len(kids[t]): Replaced(kids[t][k]) \in Child
    BY <2>1 DEF Replaced, Child
  <2>3. others \in Seq(Child) /\ Len(others) = Len(kids[t])
    BY <2>1, <2>2
  <2>4. Add(kids, in)[t] = IF t = in THEN Append(others, "current") ELSE others
    BY <2>1 DEF Add
  <2>5. \A k \in 1..Len(kids[t]): others[k] = Replaced(kids[t][k])
    OBVIOUS
  <2>. HIDE DEF others
  <2>6. CASE t # in
    BY <2>1, <2>3, <2>4, <2>5, <2>6
  <2>7. CASE t = in
    <3>1. "current" \in Child
      BY DEF Child
    <3>2. Add(kids, in)[t] = Append(others, "current")
      BY <2>4, <2>7
    <3>3. /\ Append(others, "current") \in Seq(Child)
          /\ Len(Append(others, "current")) = Len(others) + 1
          /\ Append(others, "current")[Len(others) + 1] = "current"
          /\ \A k \in 1..Len(others): Append(others, "current")[k] = others[k]
      BY <2>3, <3>1
    <3>. QED  BY <2>1, <2>3, <2>5, <2>7, <3>2, <3>3
  <2>. QED  BY <2>6, <2>7
<1>2. Add(kids, in) \in Slots
  <2>1. DOMAIN Add(kids, in) = Slot /\ Add(kids, in) = [t \in Slot |-> Add(kids, in)[t]]
    BY DEF Add
  <2>. QED  BY <1>1, <2>1 DEF Slots
<1>. QED  BY <1>1, <1>2

(* Those alive keep their order, so that the last one stays the last. *)
LEMMA KeptHolds ==
    ASSUME children \in Slots, NEW s \in Slot, NEW at \in Places(s)
    PROVE  /\ Alive(s) \subseteq 1..Len(children[s]) /\ IsFiniteSet(Alive(s))
           /\ Kept(s, at) \in Seq(Child) /\ Len(Kept(s, at)) = Cardinality(Alive(s))
           /\ \A j \in 1..Len(Kept(s, at)):
                 at[j] \in Alive(s) /\ Kept(s, at)[j] = children[s][at[j]]
           /\ Len(children[s]) \in Alive(s) =>
                 /\ Len(Kept(s, at)) > 0
                 /\ \A j \in 1..Len(Kept(s, at)):
                       at[j] = Len(children[s]) <=> j = Len(Kept(s, at))
<1>1. children[s] \in Seq(Child) /\ Len(children[s]) \in Nat
      /\ DOMAIN children[s] = 1..Len(children[s])
  BY DEF Slots
<1>2. Alive(s) \subseteq 1..Len(children[s])
  BY <1>1 DEF Alive
<1>3. IsFiniteSet(Alive(s)) /\ Cardinality(Alive(s)) \in Nat
  <2>1. IsFiniteSet(1..Len(children[s]))
    BY <1>1, FS_Interval
  <2>2. IsFiniteSet(Alive(s))
    BY <1>2, <2>1, FS_Subset
  <2>. QED  BY <2>2, FS_CardinalityType
<1>. DEFINE n == Cardinality(Alive(s))
<1>4. /\ at \in [1..n -> Alive(s)]
      /\ \A j, k \in 1..n: j < k => at[j] < at[k]
      /\ \A k \in Alive(s): \E j \in 1..n: at[j] = k
  BY DEF Places
<1>5. Kept(s, at) = [j \in 1..n |-> children[s][at[j]]]
  BY <1>4 DEF Kept
<1>. HIDE DEF n
<1>6. n \in Nat /\ n = Cardinality(Alive(s))
  BY <1>3 DEF n
<1>7. \A j \in 1..n: at[j] \in Alive(s) /\ at[j] \in 1..Len(children[s])
                     /\ children[s][at[j]] \in Child
  BY <1>1, <1>2, <1>4
<1>8. Kept(s, at) \in Seq(Child) /\ Len(Kept(s, at)) = n
      /\ \A j \in 1..n: Kept(s, at)[j] = children[s][at[j]]
  BY <1>5, <1>6, <1>7
<1>9. ASSUME Len(children[s]) \in Alive(s)
      PROVE  n > 0 /\ \A j \in 1..n: at[j] = Len(children[s]) <=> j = n
  <2>1. PICK i \in 1..n: at[i] = Len(children[s])
    BY <1>4, <1>9
  <2>2. n > 0 /\ n \in 1..n
    BY <1>6, <2>1
  <2>3. \A j \in 1..n: at[j] = Len(children[s]) => j = n
    <3>. SUFFICES ASSUME NEW j \in 1..n, at[j] = Len(children[s]), j # n
                  PROVE  FALSE
      OBVIOUS
    <3>1. j < n
      BY <1>6
    <3>2. at[j] < at[n]
      BY <1>4, <2>2, <3>1
    <3>3. at[n] \in 1..Len(children[s])
      BY <1>7, <2>2
    <3>. QED  BY <1>1, <3>2, <3>3
  <2>. QED  BY <2>1, <2>2, <2>3
<1>. QED  BY <1>2, <1>3, <1>6, <1>7, <1>8, <1>9
-----------------------------------------------------------------------------
(* The invariant. *)

(* The slot of the current background: a creation that failed has already  *)
(* made its slot the target of the next.                                   *)
Current == IF unmade THEN Target ELSE Other(Target)

SlotsType ==
    /\ children \in Slots /\ useA \in BOOLEAN
    /\ opacity \in [Slot -> {"hidden", "partial", "full"}]
    /\ retiring \in Slot \cup {Null} /\ fadingIn \in Slot \cup {Null} /\ cleanupTimer \in BOOLEAN
    /\ loads \in 0..3 /\ hurried \in BOOLEAN
    /\ missed \in BOOLEAN /\ unmade \in BOOLEAN /\ broken \in BOOLEAN

FadesTimed == retiring # Null => cleanupTimer /\ fadingIn = Other(retiring)

(* The last item of its slot, and it alone, is the current background.     *)
Held ==
    /\ Len(children[Current]) > 0
    /\ \A s \in Slot: \A k \in 1..Len(children[s]):
          /\ children[s][k] # "lost"
          /\ children[s][k] = "current" <=> s = Current /\ k = Len(children[s])

(* The retiring slot, the other one, still holds what has to be destroyed. *)
FadesTurn ==
    /\ retiring \in {Null, Other(Current)} /\ fadingIn \in {Null, Current}
    /\ unmade => fadingIn = Null /\ retiring = Null
    /\ fadingIn = Null => opacity[Current] = "full" /\ opacity[Other(Current)] = "hidden"
    /\ retiring # Null => /\ Len(children[retiring]) > 0
                          /\ children[retiring][Len(children[retiring])] = "old"

(* Two loads in a turn find at most one item in the slot they fill.        *)
AloneInSlot ==
    /\ loads < 3
    /\ loads = 0 => \A s \in Slot: Len(children[s]) <= 1
    /\ loads = 1 => Len(children[Target]) <= 1
    /\ \A s \in Slot: \A j, k \in 1..Len(children[s]):
          children[s][j] \in {"current", "old"} /\ children[s][k] \in {"current", "old"} => j = k

SlotInv ==
    /\ SlotsType /\ FadesTimed
    /\ ~ broken => Held /\ FadesTurn
    /\ ~ broken /\ ~ hurried => AloneInSlot

LEMMA OtherSlot == /\ \A s \in Slot: Other(s) \in Slot /\ Other(s) # s /\ Other(Other(s)) = s
                   /\ \A s, t \in Slot: t = s \/ t = Other(s)
                   /\ Null \notin Slot
BY SceneAssumption DEF Slot, Other

LEMMA TargetTurns == SlotsType /\ useA' = ~useA => Target \in Slot /\ Target' = Other(Target)
BY DEF SlotsType, Target, Other, Slot

-----------------------------------------------------------------------------
(* Loading a background.                                                   *)

LEMMA CreationFailsHolds ==
    ASSUME SlotInv, NEW id, NEW told, CreationFails(id, told)
    PROVE  SlotInv'
<1>1. /\ useA' = ~useA /\ children' = DestroyOldest(children, Target)
      /\ missed' = TRUE /\ unmade' = TRUE
      /\ broken' = (broken \/ unmade \/ fadingIn # Null \/ retiring # Null)
      /\ loads' = (IF loads < 3 THEN loads + 1 ELSE 3) /\ hurried' = (hurried \/ loads >= 2)
      /\ UNCHANGED <<opacity, retiring, fadingIn, cleanupTimer>>
  BY DEF CreationFails, CountLoad, fades
<1>2. Target \in Slot /\ Target' = Other(Target) /\ children \in Slots
  BY <1>1, TargetTurns DEF SlotInv, SlotsType
<1>3. /\ children' \in Slots
      /\ \A t \in Slot:
            /\ Len(children'[t]) = Len(children[t]) /\ Len(children[t]) \in Nat
            /\ \A k \in 1..Len(children[t]):
                  children'[t][k] =
                      IF t = Target /\ k = 1 THEN Destroyed(children[t][k]) ELSE children[t][k]
  <2>1. \A t \in Slot: Len(children[t]) \in Nat
    BY <1>2 DEF Slots
  <2>. QED  BY <1>1, <1>2, <2>1, DestroyOldestHolds
<1>4. SlotsType' /\ FadesTimed'
  BY <1>1, <1>3 DEF SlotInv, SlotsType, FadesTimed
<1>5. ASSUME ~ broken'
      PROVE  Held' /\ FadesTurn'
  <2>1. ~ broken /\ ~ unmade /\ fadingIn = Null /\ retiring = Null
    BY <1>1, <1>5 DEF SlotInv, SlotsType
  <2>2. Held /\ FadesTurn /\ Current = Other(Target) /\ Current' = Other(Target)
    BY <1>1, <1>2, <2>1 DEF SlotInv, Current
  <2>3. Current \in Slot /\ Current # Target
    BY <1>2, <2>2, OtherSlot
  <2>4. ASSUME NEW s \in Slot, NEW k \in 1..Len(children'[s])
        PROVE  /\ children'[s][k] # "lost"
               /\ children'[s][k] = "current" <=> s = Current /\ k = Len(children'[s])
    <3>1. /\ children[s][k] # "lost"
          /\ children[s][k] = "current" <=> s = Current /\ k = Len(children[s])
      BY <1>3, <2>2 DEF Held
    <3>. QED  BY <1>3, <2>3, <3>1 DEF Destroyed
  <2>5. Held'
    BY <1>3, <2>2, <2>3, <2>4 DEF Held
  <2>6. FadesTurn'
    BY <1>1, <2>1, <2>2 DEF FadesTurn
  <2>. QED  BY <2>5, <2>6
<1>6. ASSUME ~ broken', ~ hurried'
      PROVE  AloneInSlot'
  <2>1. loads \in {0, 1} /\ loads' = loads + 1 /\ AloneInSlot
    <3>1. ~ broken /\ ~ hurried /\ ~(loads >= 2)
      BY <1>1, <1>6
    <3>2. loads \in 0..3
      BY DEF SlotInv, SlotsType
    <3>3. loads \in {0, 1} /\ loads' = loads + 1
      BY <1>1, <3>1, <3>2
    <3>. QED  BY <3>1, <3>3 DEF SlotInv
  <2>2. \A s \in Slot: \A j, k \in 1..Len(children'[s]):
          children'[s][j] \in {"current", "old"} /\ children'[s][k] \in {"current", "old"} => j = k
    BY <1>3, <2>1 DEF AloneInSlot, Destroyed
  <2>3. loads' = 1 => Len(children'[Target']) <= 1
    BY <1>2, <1>3, <2>1, OtherSlot DEF AloneInSlot
  <2>. QED  BY <2>1, <2>2, <2>3 DEF AloneInSlot
<1>. QED  BY <1>4, <1>5, <1>6 DEF SlotInv

LEMMA LoadFailsHolds ==
    ASSUME SlotInv, NEW id, NEW told, LoadFails(id, told)
    PROVE  SlotInv'
BY DEF LoadFails, fades, SlotInv, SlotsType, FadesTimed, Held, FadesTurn, AloneInSlot, Current, Target

LEMMA ShowHolds ==
    ASSUME SlotInv, NEW id, NEW transition, Show(id, transition)
    PROVE  SlotInv'
<1>. DEFINE
       emptied == DestroyOldest(children, Target)
       added == Add(emptied, Target)
       instant == transition = "instant" \/ opacity[Other(Target)] = "hidden"
<1>1. /\ useA' = ~useA /\ children' = DestroyOldest(added, retiring)
      /\ IF instant THEN Instant ELSE Crossfade
      /\ missed' = FALSE /\ unmade' = FALSE /\ broken' = broken
      /\ loads' = (IF loads < 3 THEN loads + 1 ELSE 3) /\ hurried' = (hurried \/ loads >= 2)
  BY DEF Show, CountLoad
<1>2. /\ Target \in Slot /\ Target' = Other(Target) /\ children \in Slots /\ Current' = Target
      /\ retiring \in Slot \cup {Null} /\ Null \notin Slot /\ Other(Target) \in Slot
      /\ Other(Target) # Target
  <2>1. Target \in Slot /\ Target' = Other(Target) /\ children \in Slots
        /\ retiring \in Slot \cup {Null}
    BY <1>1, TargetTurns DEF SlotInv, SlotsType
  <2>2. Current' = Other(Target')
    BY <1>1 DEF Current
  <2>. QED  BY <2>1, <2>2, OtherSlot
<1>3. \A t \in Slot: Len(children[t]) \in Nat
  BY <1>2 DEF Slots
<1>4. /\ emptied \in Slots
      /\ \A t \in Slot:
            /\ Len(emptied[t]) = Len(children[t])
            /\ \A k \in 1..Len(children[t]):
                  emptied[t][k] =
                      IF t = Target /\ k = 1 THEN Destroyed(children[t][k]) ELSE children[t][k]
  BY <1>2, DestroyOldestHolds
<1>. HIDE DEF emptied
<1>5. /\ added \in Slots
      /\ \A t \in Slot:
            /\ Len(added[t]) = IF t = Target THEN Len(children[t]) + 1 ELSE Len(children[t])
            /\ \A k \in 1..Len(children[t]): added[t][k] = Replaced(emptied[t][k])
      /\ added[Target][Len(children[Target]) + 1] = "current"
  <2>1. /\ added \in Slots
        /\ \A t \in Slot:
              /\ Len(added[t]) = IF t = Target THEN Len(emptied[t]) + 1 ELSE Len(emptied[t])
              /\ \A k \in 1..Len(emptied[t]): added[t][k] = Replaced(emptied[t][k])
        /\ added[Target][Len(emptied[Target]) + 1] = "current"
    BY <1>2, <1>4, AddHolds
  <2>. HIDE DEF added
  <2>. QED  BY <1>2, <1>4, <2>1
<1>. HIDE DEF added
<1>6. /\ children' \in Slots
      /\ \A t \in Slot:
            /\ Len(children'[t]) = Len(added[t])
            /\ \A k \in 1..Len(added[t]):
                  children'[t][k] = IF t = retiring /\ k = 1 THEN Destroyed(added[t][k]) ELSE added[t][k]
  <2>1. children' = DestroyOldest(added, retiring)
    BY <1>1
  <2>2. added \in Slots /\ retiring \in Slot \cup {Null}
    BY <1>2, <1>5
  <2>. QED  BY <2>1, <2>2, DestroyOldestHolds
<1>7. ASSUME NEW t \in Slot
      PROVE  /\ Len(children[t]) \in Nat /\ Len(children'[t]) = Len(added[t])
             /\ t = Target => Len(children'[t]) = Len(children[t]) + 1
             /\ t # Target => Len(children'[t]) = Len(children[t])
             /\ \A k \in 1..Len(children[t]): k \in 1..Len(children'[t])
  <2>1. CASE t = Target
    BY <1>3, <1>5, <1>6, <2>1
  <2>2. CASE t # Target
    BY <1>3, <1>5, <1>6, <2>2
  <2>. QED  BY <2>1, <2>2
(* Every item that was there, with the slots not yet in their new roles. *)
<1>8. ASSUME NEW s \in Slot, NEW k \in 1..Len(children[s])
      PROVE  /\ k \in 1..Len(children'[s])
             /\ children'[s][k] \in {"old", "dying"}
             /\ children'[s][k] = "old" => children[s][k] \in {"current", "old"}
             /\ s = Target /\ k = 1 => children'[s][k] = "dying"
             /\ s # Target /\ children[s][k] \in {"current", "old"} /\ (s = retiring => k # 1) =>
                    children'[s][k] = "old"
  <2>1. k \in 1..Len(added[s]) /\ k \in 1..Len(children'[s])
    BY <1>7
  <2>2. children[s][k] \in Child
    BY <1>2 DEF Slots
  <2>3. emptied[s][k] = IF s = Target /\ k = 1 THEN Destroyed(children[s][k]) ELSE children[s][k]
    BY <1>4
  <2>4. added[s][k] = Replaced(emptied[s][k])
    BY <1>5
  <2>5. children'[s][k] = IF s = retiring /\ k = 1 THEN Destroyed(added[s][k]) ELSE added[s][k]
    BY <1>6, <2>1
  <2>6. emptied[s][k] \in Child
    BY <2>2, <2>3 DEF Destroyed, Child
  <2>7. /\ added[s][k] \in {"old", "dying"}
        /\ s = Target /\ k = 1 => added[s][k] = "dying"
        /\ added[s][k] = "old" => children[s][k] \in {"current", "old"}
        /\ s # Target /\ children[s][k] \in {"current", "old"} => added[s][k] = "old"
    BY <2>2, <2>3, <2>4, <2>6 DEF Destroyed, Replaced, Child
  <2>. QED  BY <2>1, <2>2, <2>5, <2>7 DEF Destroyed
<1>9. SlotsType'
  <2>1. /\ opacity' \in [Slot -> {"hidden", "partial", "full"}]
        /\ retiring' \in Slot \cup {Null} /\ fadingIn' \in Slot \cup {Null} /\ cleanupTimer' \in BOOLEAN
    BY <1>1, <1>2 DEF Instant, Crossfade
  <2>2. useA' \in BOOLEAN /\ loads' \in 0..3 /\ hurried' \in BOOLEAN /\ broken' \in BOOLEAN
    BY <1>1 DEF SlotInv, SlotsType
  <2>. QED  BY <1>1, <1>6, <2>1, <2>2 DEF SlotsType
<1>10. FadesTimed'
  BY <1>1, <1>2, OtherSlot DEF Instant, Crossfade, FadesTimed
<1>11. ASSUME ~ broken'
       PROVE  Held' /\ FadesTurn'
  <2>1. Held /\ FadesTurn /\ ~ broken
    BY <1>1, <1>11 DEF SlotInv
  <2>2. retiring # Null => retiring = Target /\ Len(children[Target]) > 0
    BY <1>2, <2>1, OtherSlot DEF FadesTurn, Current
  (* The new one is not taken for the retiring one. *)
  <2>3. children'[Target][Len(children[Target]) + 1] = "current"
    <3>1. Len(children[Target]) + 1 \in 1..Len(added[Target])
      BY <1>2, <1>7
    <3>2. ~(Target = retiring /\ Len(children[Target]) + 1 = 1)
      BY <1>2, <1>3, <2>2
    <3>. QED  BY <1>2, <1>5, <1>6, <3>1, <3>2
  <2>4. /\ Len(children'[Target]) = Len(children[Target]) + 1
        /\ Len(children'[Other(Target)]) = Len(children[Other(Target)])
    BY <1>2, <1>7
  <2>5. ASSUME NEW s \in Slot, NEW k \in 1..Len(children'[s])
        PROVE  /\ children'[s][k] # "lost"
               /\ children'[s][k] = "current" <=> s = Target /\ k = Len(children'[s])
    <3>1. CASE s = Target /\ k = Len(children[Target]) + 1
      BY <2>3, <2>4, <3>1
    <3>2. CASE ~(s = Target /\ k = Len(children[Target]) + 1)
      <4>1. k \in 1..Len(children[s])
        BY <1>2, <1>3, <2>4, <3>2, OtherSlot
      <4>2. children'[s][k] \in {"old", "dying"}
        BY <1>8, <4>1
      <4>. QED  BY <2>4, <3>2, <4>2
    <3>. QED  BY <3>1, <3>2
  <2>6. Held'
    BY <1>2, <1>3, <2>4, <2>5 DEF Held
  <2>7. CASE instant
    <3>1. Instant
      BY <1>1, <2>7
    <3>. QED  BY <1>1, <1>2, <2>6, <3>1 DEF Instant, FadesTurn
  <2>8. CASE ~ instant
    <3>1. Crossfade
      BY <1>1, <2>8
    <3>2. ~ unmade /\ Current = Other(Target)
      <4>1. CASE unmade
        <5>1. fadingIn = Null /\ Current = Target
          BY <2>1, <4>1 DEF FadesTurn, Current
        <5>. QED  BY <2>1, <2>8, <5>1 DEF FadesTurn
      <4>. QED  BY <4>1 DEF Current
    <3>3. children[Other(Target)][Len(children[Other(Target)])] = "current"
          /\ Len(children[Other(Target)]) > 0
      BY <1>2, <1>3, <2>1, <3>2 DEF Held
    <3>4. children'[Other(Target)][Len(children[Other(Target)])] = "old"
      BY <1>2, <1>3, <1>8, <2>2, <3>3
    <3>5. FadesTurn'
      BY <1>1, <1>2, <2>4, <3>1, <3>3, <3>4 DEF Crossfade, FadesTurn
    <3>. QED  BY <2>6, <3>5
  <2>. QED  BY <2>7, <2>8
<1>12. ASSUME ~ broken', ~ hurried'
       PROVE  AloneInSlot'
  <2>1. loads \in {0, 1} /\ loads' = loads + 1 /\ AloneInSlot
    <3>1. ~ broken /\ ~ hurried /\ ~(loads >= 2)
      BY <1>1, <1>12
    <3>2. loads \in 0..3
      BY DEF SlotInv, SlotsType
    <3>3. loads \in {0, 1} /\ loads' = loads + 1
      BY <1>1, <3>1, <3>2
    <3>. QED  BY <3>1, <3>3 DEF SlotInv
  <2>2. Len(children[Target]) <= 1
    BY <1>2, <2>1 DEF AloneInSlot
  <2>3. loads' = 1 => Len(children'[Target']) <= 1
    BY <1>2, <1>7, <2>1 DEF AloneInSlot
  <2>4. ASSUME NEW s \in Slot, NEW j \in 1..Len(children'[s]), NEW k \in 1..Len(children'[s]),
               children'[s][j] \in {"current", "old"}, children'[s][k] \in {"current", "old"}
        PROVE  j = k
    <3>1. CASE s = Target
      <4>1. Len(children'[s]) = Len(children[s]) + 1 /\ Len(children[s]) \in Nat
        BY <1>7, <3>1
      <4>2. Len(children[s]) = 0 \/ Len(children[s]) = 1
        <5>1. Len(children[s]) <= 1
          BY <2>2, <3>1
        <5>2. \A n \in Nat: n <= 1 => n = 0 \/ n = 1
          OBVIOUS
        <5>. QED  BY <4>1, <5>1, <5>2
      <4>3. CASE Len(children[s]) = 0
        BY <4>1, <4>3
      <4>4. CASE Len(children[s]) = 1
        <5>1. 1 \in 1..Len(children[s])
          BY <4>4
        <5>2. children'[s][1] = "dying"
          BY <1>8, <3>1, <5>1
        <5>3. j # 1 /\ k # 1
          BY <2>4, <5>2
        <5>. QED  BY <4>1, <4>4, <5>3
      <4>. QED  BY <4>1, <4>2, <4>3, <4>4
    <3>2. CASE s # Target
      <4>1. j \in 1..Len(children[s]) /\ k \in 1..Len(children[s])
        BY <1>7, <3>2
      <4>2. children[s][j] \in {"current", "old"} /\ children[s][k] \in {"current", "old"}
        BY <1>8, <2>4, <4>1
      <4>. QED  BY <2>1, <4>1, <4>2 DEF AloneInSlot
    <3>. QED  BY <3>1, <3>2
  <2>. QED  BY <2>1, <2>3, <2>4 DEF AloneInSlot
<1>. QED  BY <1>9, <1>10, <1>11, <1>12 DEF SlotInv

LEMMA LoadBackgroundHolds ==
    ASSUME SlotInv, NEW id, NEW transition, NEW told, LoadBackground(id, transition, told)
    PROVE  SlotInv'
BY LoadFailsHolds, CreationFailsHolds, ShowHolds DEF LoadBackground

-----------------------------------------------------------------------------
(* The event loop, the fades and the timer.                                *)

(* A slot that retires is not the current one's. *)
LEMMA RetireHolds ==
    ASSUME SlotInv, children' = DestroyOldest(children, retiring), retiring' = Null,
           UNCHANGED <<useA, history>>
    PROVE  /\ children' \in Slots
           /\ ~ broken' => Held'
           /\ ~ broken' /\ ~ hurried' => AloneInSlot'
<1>1. children \in Slots /\ retiring \in Slot \cup {Null}
  BY DEF SlotInv, SlotsType
<1>2. /\ children' \in Slots
      /\ \A t \in Slot:
            /\ Len(children'[t]) = Len(children[t])
            /\ \A k \in 1..Len(children[t]):
                  children'[t][k] =
                      IF t = retiring /\ k = 1 THEN Destroyed(children[t][k]) ELSE children[t][k]
  BY <1>1, DestroyOldestHolds
<1>3. UNCHANGED <<useA, loads, hurried, missed, unmade, broken>> /\ Current' = Current
      /\ Target' = Target /\ Target \in Slot /\ Current \in Slot
  BY DEF history, Current, Target, Other, Slot
<1>4. ASSUME ~ broken'
      PROVE  Held'
  <2>1. Held /\ FadesTurn
    BY <1>3, <1>4 DEF SlotInv
  <2>2. retiring # Current
    BY <1>3, <2>1, OtherSlot DEF FadesTurn
  <2>3. ASSUME NEW s \in Slot, NEW k \in 1..Len(children'[s])
        PROVE  /\ children'[s][k] # "lost"
               /\ children'[s][k] = "current" <=> s = Current /\ k = Len(children'[s])
    <3>1. /\ children[s][k] # "lost"
          /\ children[s][k] = "current" <=> s = Current /\ k = Len(children[s])
      BY <1>2, <2>1 DEF Held
    <3>. QED  BY <1>2, <2>2, <3>1 DEF Destroyed
  <2>. QED  BY <1>2, <1>3, <2>1, <2>3 DEF Held
<1>5. ASSUME ~ broken', ~ hurried'
      PROVE  AloneInSlot'
  <2>1. AloneInSlot
    BY <1>3, <1>5 DEF SlotInv
  <2>2. \A s \in Slot: \A j, k \in 1..Len(children'[s]):
          children'[s][j] \in {"current", "old"} /\ children'[s][k] \in {"current", "old"} => j = k
    BY <1>2, <2>1 DEF AloneInSlot, Destroyed
  <2>. QED  BY <1>2, <1>3, <2>1, <2>2 DEF AloneInSlot
<1>. QED  BY <1>2, <1>4, <1>5

LEMMA FadesHold ==
    ASSUME SlotInv, Fade \/ FadesFinish \/ CleanupTimer
    PROVE  SlotInv'
<1>1. UNCHANGED <<useA, history>>
  BY DEF Fade, FadesFinish, CleanupTimer, Retire
<1>2. Target' = Target /\ Current' = Current /\ Current \in Slot /\ Other(Current) # Current
      /\ Slot = {Current, Other(Current)} /\ Null \notin Slot
  BY <1>1, SceneAssumption DEF history, Current, Target, Other, Slot
<1>3. UNCHANGED <<useA, loads, hurried, missed, unmade, broken>>
  BY <1>1 DEF history
<1>4. CASE Fade
  <2>1. UNCHANGED <<children, retiring, fadingIn, cleanupTimer>> /\ fadingIn # Null
        /\ opacity' = [s \in Slot |-> "partial"]
    BY <1>4 DEF Fade
  <2>2. SlotsType' /\ FadesTimed'
    BY <1>3, <2>1 DEF SlotInv, SlotsType, FadesTimed
  <2>3. ~ broken' => Held' /\ FadesTurn'
    BY <1>2, <1>3, <2>1 DEF SlotInv, Held, FadesTurn
  <2>4. ~ broken' /\ ~ hurried' => AloneInSlot'
    BY <1>2, <1>3, <2>1 DEF SlotInv, AloneInSlot
  <2>. QED  BY <2>2, <2>3, <2>4 DEF SlotInv
<1>5. CASE FadesFinish \/ CleanupTimer
  <2>1. children' = DestroyOldest(children, retiring) /\ retiring' = Null
    BY <1>5 DEF FadesFinish, CleanupTimer, Retire
  <2>2. /\ children' \in Slots
        /\ ~ broken' => Held'
        /\ ~ broken' /\ ~ hurried' => AloneInSlot'
    BY <1>1, <2>1, RetireHolds
  <2>3. \/ fadingIn' = Null /\ opacity' = [s \in Slot |-> IF s = fadingIn THEN "full" ELSE "hidden"]
           /\ fadingIn # Null /\ cleanupTimer' = cleanupTimer
        \/ fadingIn' = fadingIn /\ cleanupTimer' = FALSE
           /\ opacity' = [s \in Slot |-> IF s = retiring THEN "hidden" ELSE opacity[s]]
    BY <1>5 DEF FadesFinish, CleanupTimer
  <2>4. SlotsType' /\ FadesTimed'
    BY <1>3, <2>1, <2>2, <2>3 DEF SlotInv, SlotsType, FadesTimed
  <2>5. ASSUME ~ broken'
        PROVE  FadesTurn'
    <3>1. FadesTurn /\ (retiring # Null => fadingIn = Other(retiring))
      BY <1>3, <2>5 DEF SlotInv, FadesTimed
    <3>2. retiring # Null => retiring = Other(Current) /\ fadingIn = Current
      BY <1>2, <3>1, OtherSlot DEF FadesTurn
    <3>. QED  BY <1>2, <1>3, <2>1, <2>3, <3>1, <3>2 DEF FadesTurn
  <2>. QED  BY <2>2, <2>4, <2>5 DEF SlotInv
<1>. QED  BY <1>4, <1>5

LEMMA SlotDeletesHold ==
    ASSUME SlotInv, DeferredDeletes
    PROVE  SlotInv' /\ (~ broken => UNCHANGED <<currentBackground, overlayMap>>)
<1>1. PICK a \in Places("A"), b \in Places("B"): children' = [A |-> Kept("A", a), B |-> Kept("B", b)]
  BY DEF DeferredDeletes
<1>. DEFINE at == [s \in Slot |-> IF s = "A" THEN a ELSE b]
<1>2. /\ loads' = 0 /\ UNCHANGED <<useA, opacity, retiring, fadingIn, cleanupTimer>>
      /\ UNCHANGED <<hurried, missed, unmade, broken>>
      /\ Target' = Target /\ Current' = Current /\ Current \in Slot
  BY DEF DeferredDeletes, fades, Current, Target, Other, Slot
<1>3. ASSUME NEW s \in Slot
      PROVE  at[s] \in Places(s) /\ children'[s] = Kept(s, at[s])
  <2>1. CASE s = "A"
    BY <1>1, <2>1 DEF Slot
  <2>2. CASE s = "B"
    BY <1>1, <2>2 DEF Slot
  <2>. QED  BY <2>1, <2>2 DEF Slot
<1>. HIDE DEF at
<1>4. children \in Slots
  BY DEF SlotInv, SlotsType
<1>5. ASSUME NEW s \in Slot
      PROVE  /\ Alive(s) \subseteq 1..Len(children[s]) /\ IsFiniteSet(Alive(s))
             /\ children'[s] \in Seq(Child) /\ Len(children'[s]) = Cardinality(Alive(s))
             /\ \A j \in 1..Len(children'[s]):
                   at[s][j] \in Alive(s) /\ children'[s][j] = children[s][at[s][j]]
             /\ Len(children[s]) \in Alive(s) =>
                   /\ Len(children'[s]) > 0
                   /\ \A j \in 1..Len(children'[s]):
                         at[s][j] = Len(children[s]) <=> j = Len(children'[s])
  BY <1>3, <1>4, KeptHolds
<1>6. SlotsType'
  <2>1. children' \in Slots
    BY <1>1, <1>5 DEF Slots, Slot
  <2>. QED  BY <1>2, <2>1 DEF SlotInv, SlotsType
<1>7. FadesTimed'
  BY <1>2 DEF SlotInv, FadesTimed
<1>8. ASSUME NEW s \in Slot, NEW c \in {"current", "old"}, Len(children[s]) > 0,
             children[s][Len(children[s])] = c
      PROVE  /\ Len(children[s]) \in Alive(s)
             /\ Len(children'[s]) > 0 /\ children'[s][Len(children'[s])] = c
  <2>1. children[s] \in Seq(Child) /\ DOMAIN children[s] = 1..Len(children[s])
        /\ Len(children[s]) \in 1..Len(children[s])
    BY <1>4, <1>8 DEF Slots
  <2>2. Len(children[s]) \in Alive(s)
    BY <1>8, <2>1 DEF Alive
  <2>3. Len(children'[s]) \in 1..Len(children'[s])
    BY <1>5, <2>2
  <2>. QED  BY <1>5, <1>8, <2>2, <2>3
<1>9. ASSUME ~ broken
      PROVE  Held' /\ FadesTurn' /\ UNCHANGED <<currentBackground, overlayMap>>
  <2>1. Held /\ FadesTurn
    BY <1>9 DEF SlotInv
  <2>2. \A s \in Slot: \A k \in 1..Len(children[s]):
          /\ children[s][k] # "lost"
          /\ children[s][k] = "current" <=> s = Current /\ k = Len(children[s])
    BY <2>1 DEF Held
  <2>3. Len(children[Current]) > 0 /\ children[Current][Len(children[Current])] = "current"
    BY <1>2, <1>4, <2>1 DEF Held, Slots
  <2>4. ASSUME NEW s \in Slot, NEW j \in 1..Len(children'[s])
        PROVE  /\ children'[s][j] # "lost"
               /\ children'[s][j] = "current" <=> s = Current /\ j = Len(children'[s])
    <3>1. at[s][j] \in 1..Len(children[s]) /\ children'[s][j] = children[s][at[s][j]]
      BY <1>5
    <3>2. /\ children'[s][j] # "lost"
          /\ children'[s][j] = "current" <=> s = Current /\ at[s][j] = Len(children[s])
      BY <2>2, <3>1
    <3>3. s = Current => (at[s][j] = Len(children[s]) <=> j = Len(children'[s]))
      BY <1>5, <1>8, <2>3
    <3>. QED  BY <3>2, <3>3
  <2>5. Held'
    BY <1>2, <1>8, <2>3, <2>4 DEF Held
  <2>6. FadesTurn'
    <3>1. retiring # Null => retiring \in Slot
      BY <1>2, <2>1, OtherSlot DEF FadesTurn
    <3>2. retiring # Null => /\ Len(children'[retiring]) > 0
                             /\ children'[retiring][Len(children'[retiring])] = "old"
      BY <1>8, <2>1, <3>1 DEF FadesTurn
    <3>. QED  BY <1>2, <2>1, <3>2 DEF FadesTurn
  <2>7. UNCHANGED <<currentBackground, overlayMap>>
    <3>1. \A s \in Slot: ~ Holds(s, "lost")
      BY <1>4, <2>2 DEF Holds, Slots
    <3>. QED  BY <3>1 DEF DeferredDeletes
  <2>. QED  BY <2>5, <2>6, <2>7
<1>10. ASSUME ~ broken', ~ hurried'
       PROVE  AloneInSlot'
  <2>1. AloneInSlot
    BY <1>2, <1>10 DEF SlotInv
  <2>2. ASSUME NEW s \in Slot
        PROVE  Len(children'[s]) <= 1
    <3>1. \A j, k \in Alive(s): j = k
      BY <1>4, <1>5, <2>1 DEF AloneInSlot, Alive, Slots
    <3>2. CASE Alive(s) = {}
      BY <1>5, <3>2, FS_EmptySet
    <3>3. CASE \E k: Alive(s) = {k}
      <4>1. Cardinality(Alive(s)) = 1
        BY <3>3, FS_Singleton
      <4>. QED  BY <1>5, <4>1
    <3>. QED  BY <3>1, <3>2, <3>3
  <2>3. ASSUME NEW s \in Slot, NEW j \in 1..Len(children'[s]), NEW k \in 1..Len(children'[s])
        PROVE  j = k
    <3>1. Len(children'[s]) <= 1 /\ children'[s] \in Seq(Child)
      BY <1>5, <2>2
    <3>. QED  BY <3>1
  <2>4. Target \in Slot
    BY DEF Target, Slot
  <2>. QED  BY <1>2, <2>2, <2>3, <2>4 DEF AloneInSlot
<1>. QED  BY <1>2, <1>6, <1>7, <1>9, <1>10 DEF SlotInv


(* Whatever leaves the slots alone. *)
LEMMA SlotsStay ==
    ASSUME SlotInv, UNCHANGED <<useA, children, fades, history>>
    PROVE  SlotInv'
BY DEF fades, history, SlotInv, SlotsType, FadesTimed, Held, FadesTurn, AloneInSlot, Current, Target

LEMMA SlotStepHolds == SlotInv /\ [Next]_vars => SlotInv'
<1>. SUFFICES ASSUME SlotInv, [Next]_vars
              PROVE  SlotInv'
  OBVIOUS
<1>1. CASE BackgroundChange
  <2>1. PICK id, p, t: SetBackground(id, p, t)
    BY <1>1 DEF BackgroundChange
  <2>2. \/ LoadBackground(id, t, Tell("params", p))
        \/ UNCHANGED <<useA, children, fades, history>>
    BY <2>1 DEF SetBackground
  <2>. QED  BY <2>2, LoadBackgroundHolds, SlotsStay
<1>2. CASE SetActiveBackgroundId
  <2>1. PICK id: LoadBackground(id, sceneTransition, currentBackground)
    BY <1>2 DEF SetActiveBackgroundId
  <2>. QED  BY <2>1, LoadBackgroundHolds
<1>3. CASE AddOverlay \/ RemoveOverlay \/ ClearOverlays \/ SetSceneData \/ UNCHANGED vars
  <2>1. UNCHANGED <<useA, children, fades, history>>
    BY <1>3 DEF AddOverlay, RemoveOverlay, ClearOverlays, OverlaysChange, SetSceneData, vars
  <2>. QED  BY <2>1, SlotsStay
<1>. QED  BY <1>1, <1>2, <1>3, SlotDeletesHold, FadesHold DEF Next

LEMMA SlotInit == Init => SlotInv
<1>. SUFFICES ASSUME Init
              PROVE  SlotInv
  OBVIOUS
<1>1. children = [A |-> <<"current">>, B |-> <<>>] /\ useA = FALSE /\ unmade = FALSE
      /\ opacity = [A |-> "full", B |-> "hidden"]
      /\ retiring = Null /\ fadingIn = Null /\ cleanupTimer = FALSE
      /\ loads = 0 /\ hurried = FALSE /\ missed = FALSE /\ broken = FALSE
  BY DEF Init
<1>2. Current = "A" /\ Target = "B" /\ Slot = {"A", "B"} /\ Other(Current) = "B" /\ Null \notin Slot
  BY <1>1, SceneAssumption DEF Current, Target, Other, Slot
<1>3. /\ Len(children["A"]) = 1 /\ children["A"][1] = "current" /\ Len(children["B"]) = 0
      /\ children["A"] \in Seq(Child) /\ children["B"] \in Seq(Child)
  <2>1. children["A"] = <<"current">> /\ children["B"] = <<>>
    BY <1>1
  <2>. QED  BY <2>1 DEF Child
<1>4. SlotsType /\ FadesTimed
  <2>1. children \in Slots
    BY <1>1, <1>3 DEF Slots, Slot
  <2>2. opacity \in [Slot -> {"hidden", "partial", "full"}]
    BY <1>1 DEF Slot
  <2>3. retiring \in Slot \cup {Null} /\ fadingIn \in Slot \cup {Null} /\ FadesTimed
    BY <1>1 DEF FadesTimed
  <2>4. useA \in BOOLEAN /\ cleanupTimer \in BOOLEAN /\ hurried \in BOOLEAN
        /\ missed \in BOOLEAN /\ unmade \in BOOLEAN /\ broken \in BOOLEAN
    BY <1>1
  <2>5. loads \in 0..3
    BY <1>1
  <2>. QED  BY <2>1, <2>2, <2>3, <2>4, <2>5 DEF SlotsType
<1>5. Held
  <2>1. ASSUME NEW s \in Slot, NEW k \in 1..Len(children[s])
        PROVE  s = "A" /\ k = 1
    <3>1. CASE s = "A"
      <4>1. Len(children[s]) = 1 /\ s = "A"
        BY <1>3, <3>1
      <4>2. k \in 1..1
        BY <4>1
      <4>. QED  BY <4>1, <4>2
    <3>2. CASE s = "B"
      BY <1>3, <2>1, <3>2
    <3>. QED  BY <1>2, <3>1, <3>2
  <2>2. children["A"][1] # "lost" /\ Len(children[Current]) > 0
    BY <1>2, <1>3
  <2>. QED  BY <1>2, <1>3, <2>1, <2>2 DEF Held
<1>6. FadesTurn
  BY <1>1, <1>2 DEF FadesTurn
<1>7. AloneInSlot
  BY <1>1, <1>2, <1>3 DEF AloneInSlot
<1>. QED  BY <1>4, <1>5, <1>6, <1>7 DEF SlotInv

-----------------------------------------------------------------------------
(* What the current background has been told.                              *)

Told ==
    /\ currentBackground \in Item
    /\ currentBackground.params = backgroundParams /\ currentBackground.data = sceneData
    /\ ~ missed => currentBackground.id = activeBackgroundId

LEMMA TellHolds ==
    ASSUME currentBackground \in Item
    PROVE  /\ \A p \in Params:
                 /\ Tell("params", p) \in Item
                 /\ Tell("params", p).id = currentBackground.id
                 /\ Tell("params", p).params = p /\ Tell("params", p).data = currentBackground.data
           /\ \A d \in Data:
                 /\ Tell("data", d) \in Item
                 /\ Tell("data", d).id = currentBackground.id
                 /\ Tell("data", d).params = currentBackground.params /\ Tell("data", d).data = d
<1>1. currentBackground # Null
  BY SceneAssumption DEF Item
<1>. QED  BY <1>1 DEF Tell, Item

LEMMA LoadTells ==
    ASSUME NEW id, NEW transition, NEW told, LoadBackground(id, transition, told),
           told \in Item, told.params = backgroundParams', told.data = sceneData,
           backgroundParams' \in Params, sceneData \in Data, sceneData' = sceneData,
           activeBackgroundId' = id
    PROVE  Told'
<1>1. CASE LoadFails(id, told) \/ CreationFails(id, told)
  <2>1. currentBackground' = told /\ missed' = TRUE
    BY <1>1 DEF LoadFails, CreationFails
  <2>. QED  BY <2>1 DEF Told
<1>2. CASE Show(id, transition)
  <2>1. /\ id \in Plugin
        /\ currentBackground' = [id |-> id, params |-> backgroundParams', data |-> sceneData]
    BY <1>2 DEF Show
  <2>2. currentBackground' \in Item
    BY <2>1 DEF Item
  <2>. QED  BY <2>1, <2>2 DEF Told
<1>. QED  BY <1>1, <1>2 DEF LoadBackground

(* Nothing mends a broken scene. *)
LEMMA BrokenStays == SlotInv /\ [Next]_vars /\ broken => broken'
<1>. SUFFICES ASSUME SlotInv, [Next]_vars, broken
              PROVE  broken'
  OBVIOUS
<1>1. ASSUME NEW id, NEW transition, NEW told, LoadBackground(id, transition, told)
      PROVE  broken'
  BY <1>1 DEF LoadBackground, LoadFails, CreationFails, Show
<1>2. CASE BackgroundChange
  <2>1. PICK id, p, t: SetBackground(id, p, t)
    BY <1>2 DEF BackgroundChange
  <2>. QED  BY <1>1, <2>1 DEF SetBackground, history
<1>3. CASE SetActiveBackgroundId
  BY <1>1, <1>3 DEF SetActiveBackgroundId
<1>4. CASE AddOverlay \/ RemoveOverlay \/ ClearOverlays \/ SetSceneData \/ DeferredDeletes \/ UNCHANGED vars
  BY <1>4 DEF AddOverlay, RemoveOverlay, ClearOverlays, OverlaysChange, SetSceneData,
              DeferredDeletes, vars, history
<1>5. CASE Fade \/ FadesFinish \/ CleanupTimer
  BY <1>5 DEF Fade, FadesFinish, CleanupTimer, Retire, history
<1>. QED  BY <1>2, <1>3, <1>4, <1>5 DEF Next

LEMMA ToldHolds ==
    ASSUME IInv, SlotInv, Told, ~ broken, [Next]_vars
    PROVE  Told'
<1>1. currentBackground \in Item /\ backgroundParams \in Params /\ sceneData \in Data
  BY DEF Told, IInv, BackgroundType
<1>2. CASE BackgroundChange
  <2>1. PICK id \in Plugin \cup Unknown, p \in Params, t \in {"crossfade", "instant"}:
            SetBackground(id, p, t)
    BY <1>2 DEF BackgroundChange
  <2>2. /\ backgroundParams' = p /\ activeBackgroundId' = id /\ sceneData' = sceneData
        /\ IF id # activeBackgroundId
              THEN LoadBackground(id, t, Tell("params", p))
              ELSE currentBackground' = Tell("params", p) /\ UNCHANGED history
    BY <2>1 DEF SetBackground
  <2>3. /\ Tell("params", p) \in Item /\ Tell("params", p).id = currentBackground.id
        /\ Tell("params", p).params = p /\ Tell("params", p).data = sceneData
    BY <1>1, TellHolds DEF Told
  <2>4. CASE id # activeBackgroundId
    BY <1>1, <2>2, <2>3, <2>4, LoadTells
  <2>5. CASE id = activeBackgroundId
    BY <2>2, <2>3, <2>5 DEF Told, history
  <2>. QED  BY <2>4, <2>5
<1>3. CASE SetActiveBackgroundId
  <2>1. PICK id: /\ LoadBackground(id, sceneTransition, currentBackground)
                 /\ activeBackgroundId' = id /\ UNCHANGED <<backgroundParams, sceneData>>
    BY <1>3 DEF SetActiveBackgroundId
  <2>. QED  BY <1>1, <2>1, LoadTells DEF Told
<1>4. CASE SetSceneData
  <2>1. PICK d \in Data: /\ sceneData' = d /\ currentBackground' = Tell("data", d)
                         /\ UNCHANGED <<activeBackgroundId, backgroundParams, history>>
    BY <1>4 DEF SetSceneData
  <2>2. /\ Tell("data", d) \in Item /\ Tell("data", d).id = currentBackground.id
        /\ Tell("data", d).params = backgroundParams /\ Tell("data", d).data = d
    BY <1>1, TellHolds DEF Told
  <2>. QED  BY <2>1, <2>2 DEF Told, history
<1>5. CASE DeferredDeletes
  <2>1. UNCHANGED <<activeBackgroundId, backgroundParams, sceneData, missed, currentBackground>>
    BY <1>5, SlotDeletesHold DEF DeferredDeletes, connectionState
  <2>. QED  BY <2>1 DEF Told
<1>6. CASE AddOverlay \/ RemoveOverlay \/ ClearOverlays \/ UNCHANGED vars
  <2>1. UNCHANGED <<activeBackgroundId, backgroundParams, sceneData, missed, currentBackground>>
    BY <1>6 DEF AddOverlay, RemoveOverlay, ClearOverlays, OverlaysChange, vars, history, connectionState
  <2>. QED  BY <2>1 DEF Told
<1>7. CASE Fade \/ FadesFinish \/ CleanupTimer
  <2>1. UNCHANGED <<activeBackgroundId, backgroundParams, sceneData, missed, currentBackground>>
    BY <1>7 DEF Fade, FadesFinish, CleanupTimer, Retire, history, connectionState
  <2>. QED  BY <2>1 DEF Told
<1>. QED  BY <1>2, <1>3, <1>4, <1>5, <1>6, <1>7 DEF Next

-----------------------------------------------------------------------------
(* The types.                                                              *)

ConnectionType ==
    /\ activeBackgroundId \in Plugin \cup Unknown /\ sceneTransition \in {"crossfade", "instant"}
    /\ activeOverlayIds \in SUBSET (Overlay \cup Unknown) /\ DOMAIN overlayMap \subseteq Overlay

LEMMA ConnectionTypeHolds == ConnectionType /\ [Next]_vars => ConnectionType'
<1>. SUFFICES ASSUME ConnectionType, [Next]_vars
              PROVE  ConnectionType'
  OBVIOUS
<1>1. ASSUME NEW id, NEW transition, NEW told, LoadBackground(id, transition, told)
      PROVE  DOMAIN overlayMap' = DOMAIN overlayMap
  BY <1>1 DEF LoadBackground, LoadFails, CreationFails, Show, TellOverlays
<1>2. CASE BackgroundChange
  <2>1. PICK id \in Plugin \cup Unknown, p \in Params, t \in {"crossfade", "instant"}:
            SetBackground(id, p, t)
    BY <1>2 DEF BackgroundChange
  <2>. QED  BY <1>1, <2>1 DEF SetBackground, ConnectionType
<1>3. CASE SetActiveBackgroundId
  BY <1>1, <1>3 DEF SetActiveBackgroundId, ConnectionType
<1>4. CASE AddOverlay \/ RemoveOverlay \/ ClearOverlays
  <2>1. activeOverlayIds' \in SUBSET (Overlay \cup Unknown) /\ OverlaysChange
    BY <1>4 DEF AddOverlay, RemoveOverlay, ClearOverlays, ConnectionType
  <2>2. DOMAIN overlayMap' \subseteq Overlay
    BY <2>1 DEF OverlaysChange, SyncOverlays, ConnectionType
  <2>. QED  BY <2>1, <2>2 DEF OverlaysChange, ConnectionType
<1>5. CASE SetSceneData \/ DeferredDeletes
  BY <1>5 DEF SetSceneData, DeferredDeletes, TellOverlays, connectionState, ConnectionType
<1>6. CASE Fade \/ FadesFinish \/ CleanupTimer \/ UNCHANGED vars
  BY <1>6 DEF Fade, FadesFinish, CleanupTimer, Retire, vars, connectionState, ConnectionType
<1>. QED  BY <1>2, <1>3, <1>4, <1>5, <1>6 DEF Next

-----------------------------------------------------------------------------
(* The results.                                                            *)

Inductive ==
    /\ IInv /\ SlotInv /\ ConnectionType
    /\ ~ broken => Told

LEMMA OverlaysInit == Init => IInv
<1>. SUFFICES ASSUME Init
              PROVE  IInv
  OBVIOUS
<1>1. DOMAIN <<>> = {} /\ <<>> \in [{} -> Params] /\ <<>> \in [{} -> OverlayItem]
  OBVIOUS
<1>2. OverlayType /\ OverlaysMatch
  BY <1>1 DEF Init, OverlayType, OverlaysMatch
<1>3. BackgroundType
  BY SceneAssumption DEF Init, BackgroundType, Item
<1>. QED  BY <1>2, <1>3 DEF IInv

LEMMA InductiveInit == Init => Inductive
<1>. SUFFICES ASSUME Init
              PROVE  Inductive
  OBVIOUS
<1>1. IInv /\ SlotInv
  BY OverlaysInit, SlotInit
<1>2. ConnectionType
  BY SceneAssumption DEF Init, ConnectionType
<1>3. Told
  BY SceneAssumption DEF Init, Told, Item
<1>. QED  BY <1>1, <1>2, <1>3 DEF Inductive

LEMMA InductiveHolds == Inductive /\ [Next]_vars => Inductive'
<1>. SUFFICES ASSUME Inductive, [Next]_vars
              PROVE  Inductive'
  OBVIOUS
<1>1. IInv' /\ SlotInv' /\ ConnectionType'
  BY StepHolds, SlotStepHolds, ConnectionTypeHolds DEF Inductive
<1>2. ~ broken' => Told'
  BY BrokenStays, ToldHolds DEF Inductive
<1>. QED  BY <1>1, <1>2 DEF Inductive

LEMMA InductiveAlways == Spec => []Inductive
BY InductiveInit, InductiveHolds, PTL DEF Spec

(* Whatever order the signals come in and whatever backgrounds fail, the   *)
(* overlays have the latest parameters and data and the background on the  *)
(* screen.                                                                 *)
THEOREM OverlaysSafe == Spec => []OverlaysMatch
<1>1. Inductive => OverlaysMatch
  BY DEF Inductive, IInv
<1>. QED  BY <1>1, InductiveAlways, PTL

(* The variables keep their types, the slots' contents among them.         *)
THEOREM TypeCorrect == Spec => []TypeOK
<1>1. Inductive => TypeOK
  <2>. SUFFICES ASSUME Inductive
                PROVE  TypeOK
    OBVIOUS
  <2>1. overlayMap \in UNION {[ids -> OverlayItem] : ids \in SUBSET Overlay}
    <3>1. DOMAIN overlayMap \in SUBSET Overlay /\ overlayMap \in [DOMAIN overlayMap -> OverlayItem]
      BY DEF Inductive, IInv, OverlayType, ConnectionType
    <3>. QED  BY <3>1
  <2>. QED  BY <2>1 DEF Inductive, IInv, BackgroundType, OverlayType, ConnectionType, SlotInv, SlotsType,
               Slots, Child, TypeOK
<1>. QED  BY <1>1, InductiveAlways, PTL

(* Unless a creation fails right after another or during a fade, there is  *)
(* a background on the screen with the latest parameters and data, and it  *)
(* is the one asked for unless that one failed to load: no order of        *)
(* changes, fades, timer and deferred deletes destroys it.                 *)
THEOREM CurrentSafe == Spec => []CurrentHeld
<1>1. Inductive => CurrentHeld
  <2>. SUFFICES ASSUME Inductive, ~ broken
                PROVE  /\ \E s \in Slot: Holds(s, "current")
                       /\ Told
    BY DEF CurrentHeld, Told
  <2>1. Held /\ children \in Slots
    BY DEF Inductive, SlotInv, SlotsType
  <2>2. Current \in Slot
    BY DEF Current, Target, Other, Slot
  <2>3. Len(children[Current]) \in DOMAIN children[Current]
        /\ children[Current][Len(children[Current])] = "current"
    BY <2>1, <2>2 DEF Held, Slots
  <2>. QED  BY <2>2, <2>3 DEF Inductive, Holds
<1>. QED  BY <1>1, InductiveAlways, PTL

(* When the fades are over the current background alone is visible, and it *)
(* is alone in its slot unless three changes came in one turn; a retiring  *)
(* slot always has its timer.                                              *)
THEOREM SettlesSafe == Spec => []SettlesOnCurrent
<1>1. Inductive => SettlesOnCurrent
  <2>. SUFFICES ASSUME Inductive
                PROVE  SettlesOnCurrent
    OBVIOUS
  <2>1. children \in Slots /\ retiring \in Slot \cup {Null} /\ FadesTimed
    BY DEF Inductive, SlotInv, SlotsType
  <2>2. retiring # Null => cleanupTimer /\ retiring # fadingIn
    BY <2>1, OtherSlot DEF FadesTimed
  <2>3. ASSUME ~ broken, NEW s \in Slot, Holds(s, "current")
        PROVE  /\ fadingIn = Null => opacity[s] = "full" /\ opacity[Other(s)] = "hidden"
               /\ fadingIn # Null => fadingIn = s
               /\ ~ hurried => \E k \in DOMAIN children[s] : Alive(s) = {k}
    <3>1. Held /\ FadesTurn
      BY <2>3 DEF Inductive, SlotInv
    <3>2. DOMAIN children[s] = 1..Len(children[s])
      BY <2>1 DEF Slots
    <3>3. PICK k \in 1..Len(children[s]): children[s][k] = "current"
      BY <2>3, <3>2 DEF Holds
    <3>4. s = Current
      BY <3>1, <3>3 DEF Held
    <3>5. ASSUME ~ hurried
          PROVE  Alive(s) = {k}
      <4>1. AloneInSlot
        BY <2>3, <3>5 DEF Inductive, SlotInv
      <4>. QED  BY <3>2, <3>3, <4>1 DEF AloneInSlot, Alive
    <3>. QED  BY <3>1, <3>2, <3>4, <3>5 DEF FadesTurn
  <2>. QED  BY <2>2, <2>3 DEF SettlesOnCurrent
<1>. QED  BY <1>1, InductiveAlways, PTL

=============================================================================
