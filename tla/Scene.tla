------------------------------- MODULE Scene -------------------------------
(***************************************************************************)
(* The scene: the server's BackgroundChange, Overlay* and SceneDataPush    *)
(* messages and the keyboard shortcuts set ConnectionState, whose signals  *)
(* LayerManager handles at once.  LayerManager keeps two slots: the new    *)
(* background fades in in one while the old one fades out in the other.    *)
(* QML's destroy() is deferred: a destroyed item stays its slot's child    *)
(* until control returns to the event loop, and children[0] is the oldest  *)
(* child.                                                                  *)
(***************************************************************************)
EXTENDS Naturals, Sequences, FiniteSets

CONSTANTS
    Plugin,          \* background identifiers, and those of overlays: the
    Overlay,         \*    ones that have a QML file,
    Unknown,         \*    and identifiers without one
    First,           \* "globe"
    Params, Data,    \* what the messages carry
    MaxItems,        \* bound: background items in one slot
    Null             \* no background, no slot

ASSUME SceneAssumption ==
    /\ First \in Plugin /\ Unknown \cap (Plugin \cup Overlay) = {}
    /\ Null \notin Plugin \cup {"A", "B"} \cup [id: Plugin, params: Params, data: Data]
    /\ MaxItems \in Nat

VARIABLES
    (* ConnectionState *)
    activeBackgroundId, sceneTransition, backgroundParams, sceneData,
    activeOverlayIds, overlayParams,
    (* LayerManager *)
    currentBackground, \* what it was created for and has been told
    useA,
    children,          \* the background items in each slot, oldest first
    opacity,           \* of each slot: "hidden", "partial" or "full"
    retiring,
    fadingIn,          \* the target of _fadeIn while the fades run; _fadeOut's is the other slot
    cleanupTimer,
    overlayMap,
    (* history *)
    loads,             \* items asked for since the event loop last ran, up to three
    hurried,           \* there were three in one turn, once
    missed,            \* the last load showed nothing
    unmade,            \* the last item asked for could not be created
    broken             \* nor could the one before it, or one asked for during a fade

connectionState == <<activeBackgroundId, sceneTransition, backgroundParams, sceneData,
                     activeOverlayIds, overlayParams>>
fades == <<opacity, retiring, fadingIn, cleanupTimer>>
history == <<loads, hurried, missed, unmade, broken>>
vars == <<connectionState, currentBackground, useA, children, fades, overlayMap, history>>

Slot == {"A", "B"}
Other(s) == IF s = "A" THEN "B" ELSE "A"
Item == [id: Plugin, params: Params, data: Data]
OverlayItem == [params: Params, data: Data, background: Plugin \cup {Null}]

TypeOK ==
    /\ activeBackgroundId \in Plugin \cup Unknown /\ sceneTransition \in {"crossfade", "instant"}
    /\ backgroundParams \in Params /\ sceneData \in Data
    /\ activeOverlayIds \in SUBSET (Overlay \cup Unknown)
    /\ overlayParams \in [activeOverlayIds -> Params]
    /\ currentBackground \in Item \cup {Null}
    /\ useA \in BOOLEAN
    /\ children \in [Slot -> Seq({"current", "old", "lost", "dying"})]
    /\ opacity \in [Slot -> {"hidden", "partial", "full"}]
    /\ retiring \in Slot \cup {Null} /\ fadingIn \in Slot \cup {Null}
    /\ cleanupTimer \in BOOLEAN
    /\ overlayMap \in UNION {[ids -> OverlayItem] : ids \in SUBSET Overlay}
    /\ loads \in 0..3 /\ hurried \in BOOLEAN
    /\ missed \in BOOLEAN /\ unmade \in BOOLEAN /\ broken \in BOOLEAN

(* Component.onCompleted loads the first background, at once. *)
Init ==
    /\ activeBackgroundId = First /\ sceneTransition = "crossfade"
    /\ backgroundParams \in Params /\ sceneData \in Data
    /\ activeOverlayIds = {} /\ overlayParams = <<>>
    /\ currentBackground = [id |-> First, params |-> backgroundParams, data |-> sceneData]
    /\ useA = FALSE
    /\ children = [A |-> <<"current">>, B |-> <<>>]
    /\ opacity = [A |-> "full", B |-> "hidden"]
    /\ retiring = Null /\ fadingIn = Null /\ cleanupTimer = FALSE
    /\ overlayMap = <<>>
    /\ loads = 0 /\ hurried = FALSE /\ missed = FALSE /\ unmade = FALSE /\ broken = FALSE

-----------------------------------------------------------------------------
(* Helpers.                                                                *)

(* children[0].destroy(): the current background is "lost", an old one     *)
(* "dying", until the event loop deletes it.                               *)
Destroyed(child) == IF child \in {"current", "lost"} THEN "lost" ELSE "dying"
DestroyOldest(kids, s) ==
    IF s = Null \/ kids[s] = <<>> THEN kids ELSE [kids EXCEPT ![s][1] = Destroyed(@)]

Replaced(child) == CASE child = "current" -> "old" [] child = "lost" -> "dying" [] OTHER -> child
Add(kids, in) ==
    [s \in Slot |-> LET others == [k \in DOMAIN kids[s] |-> Replaced(kids[s][k])]
                    IN  IF s = in THEN Append(others, "current") ELSE others]

Alive(s) == {k \in DOMAIN children[s] : children[s][k] \in {"current", "old"}}

(* The others go, and those alive close up in their order. *)
Places(s) ==
    {at \in [1..Cardinality(Alive(s)) -> Alive(s)] :
        /\ \A j, k \in DOMAIN at : j < k => at[j] < at[k]
        /\ \A k \in Alive(s) : \E j \in DOMAIN at : at[j] = k}
Kept(s, at) == [j \in DOMAIN at |-> children[s][at[j]]]

Holds(s, child) == \E k \in DOMAIN children[s] : children[s][k] = child

Tell(field, value) ==
    IF currentBackground = Null THEN Null ELSE [currentBackground EXCEPT ![field] = value]
TellOverlays(field, value) == [o \in DOMAIN overlayMap |-> [overlayMap[o] EXCEPT ![field] = value]]

-----------------------------------------------------------------------------
(* _loadBackground.  told is the current background after                  *)
(* backgroundParamsChanged.                                                *)

CountLoad ==
    /\ loads' = IF loads < 3 THEN loads + 1 ELSE 3
    /\ hurried' = (hurried \/ loads >= 2)

(* No plugin: nothing changes... *)
LoadFails(id, told) ==
    /\ id \in Unknown
    /\ currentBackground' = told
    /\ missed' = TRUE
    /\ UNCHANGED <<useA, children, fades, overlayMap, loads, hurried, unmade, broken>>

TargetSwapped == IF useA THEN "B" ELSE "A"      \* mutant: the slots change roles

Target == IF useA THEN "A" ELSE "B"      \* activeSlot

(* ... the item cannot be created: the slot has been emptied already... *)
CreationFails(id, told) ==
    /\ id \in Plugin
    /\ useA' = ~useA
    /\ children' = DestroyOldest(children, Target)
    /\ currentBackground' = told
    /\ missed' = TRUE /\ unmade' = TRUE
    /\ broken' = (broken \/ unmade \/ fadingIn # Null \/ retiring # Null)
    /\ CountLoad
    /\ UNCHANGED <<fades, overlayMap>>

InstantOver ==   \* mutant: the fades that run are not stopped
    /\ fadingIn' = fadingIn /\ cleanupTimer' = FALSE /\ retiring' = Null
    /\ opacity' = [s \in Slot |-> IF s = Target THEN "full" ELSE "hidden"]

Instant ==
    /\ fadingIn' = Null /\ cleanupTimer' = FALSE /\ retiring' = Null
    /\ opacity' = [s \in Slot |-> IF s = Target THEN "full" ELSE "hidden"]

Crossfade ==
    /\ fadingIn' = Target /\ cleanupTimer' = TRUE /\ retiring' = Other(Target)
    /\ opacity' = [s \in Slot |-> IF s = Target THEN "hidden" ELSE "full"]

(* ... or it is, and replaces the one in the other slot, at once if that   *)
(* slot is invisible.                                                      *)
Show(id, transition) ==
    /\ id \in Plugin
    /\ Len(children[Target]) < MaxItems
    /\ useA' = ~useA
    /\ children' = DestroyOldest(Add(DestroyOldest(children, Target), Target), retiring)
    /\ currentBackground' = [id |-> id, params |-> backgroundParams', data |-> sceneData]
    /\ overlayMap' = TellOverlays("background", id)
    /\ IF transition = "instant" \/ opacity[Other(Target)] = "hidden" THEN Instant ELSE Crossfade
    /\ missed' = FALSE /\ unmade' = FALSE
    /\ CountLoad
    /\ UNCHANGED broken

LoadBackground(id, transition, told) ==
    LoadFails(id, told) \/ CreationFails(id, told) \/ Show(id, transition)

(* The parameters are announced before the identifier, to the background   *)
(* that is about to be replaced.                                           *)
SetBackground(id, p, t) ==
    /\ backgroundParams' = p /\ sceneTransition' = t
    /\ activeBackgroundId' = id
    /\ IF id # activeBackgroundId
          THEN LoadBackground(id, t, Tell("params", p))
          ELSE /\ currentBackground' = Tell("params", p)
               /\ UNCHANGED <<useA, children, fades, overlayMap, history>>
    /\ UNCHANGED <<sceneData, activeOverlayIds, overlayParams>>

BackgroundChange ==
    \E id \in Plugin \cup Unknown, p \in Params, t \in {"crossfade", "instant"} : SetBackground(id, p, t)

(* The "B" shortcut. *)
SetActiveBackgroundId ==
    \E id \in Plugin \ {activeBackgroundId} :
        /\ activeBackgroundId' = id
        /\ UNCHANGED <<sceneTransition, backgroundParams, sceneData, activeOverlayIds, overlayParams>>
        /\ LoadBackground(id, sceneTransition, currentBackground)

-----------------------------------------------------------------------------
(* Overlays.  Parameters reach the overlays that exist, then _syncOverlays *)
(* drops those no longer active and creates the missing ones, if it can.   *)

SyncOverlaysOnly ==   \* mutant: overlayParamsChanged is not handled
    LET kept == DOMAIN overlayMap \cap activeOverlayIds'
        shown == IF currentBackground = Null THEN Null ELSE currentBackground.id
    IN  \E created \in SUBSET ((activeOverlayIds' \cap Overlay) \ kept) :
            overlayMap' = [o \in kept \cup created |-> IF o \in kept THEN overlayMap[o] ELSE
                [params |-> overlayParams'[o], data |-> sceneData, background |-> shown]]

SyncOverlays ==
    LET kept == DOMAIN overlayMap \cap activeOverlayIds'
        shown == IF currentBackground = Null THEN Null ELSE currentBackground.id
    IN  \E created \in SUBSET ((activeOverlayIds' \cap Overlay) \ kept) :
            overlayMap' = [o \in kept \cup created |->
                [params     |-> overlayParams'[o],
                 data       |-> IF o \in kept THEN overlayMap[o].data ELSE sceneData,
                 background |-> IF o \in kept THEN overlayMap[o].background ELSE shown]]

OverlaysChange ==
    /\ SyncOverlays
    /\ UNCHANGED <<activeBackgroundId, sceneTransition, backgroundParams, sceneData,
                   currentBackground, useA, children, fades, history>>

AddOverlay ==
    \E o \in Overlay \cup Unknown, p \in Params :
        /\ activeOverlayIds' = activeOverlayIds \cup {o}
        /\ overlayParams' = [q \in activeOverlayIds' |-> IF q = o THEN p ELSE overlayParams[q]]
        /\ OverlaysChange

RemoveOverlay ==
    \E o \in activeOverlayIds :
        /\ activeOverlayIds' = activeOverlayIds \ {o}
        /\ overlayParams' = [q \in activeOverlayIds' |-> overlayParams[q]]
        /\ OverlaysChange

ClearOverlays ==
    /\ activeOverlayIds # {}
    /\ activeOverlayIds' = {} /\ overlayParams' = <<>>
    /\ OverlaysChange

(* sceneData, and agentState in the same way, reach whatever is shown. *)
SetSceneData ==
    \E d \in Data :
        /\ sceneData' = d
        /\ currentBackground' = Tell("data", d)
        /\ overlayMap' = TellOverlays("data", d)
        /\ UNCHANGED <<activeBackgroundId, sceneTransition, backgroundParams, activeOverlayIds,
                       overlayParams, useA, children, fades, history>>

-----------------------------------------------------------------------------
(* The event loop.                                                         *)

DeferredDeletes ==
    /\ loads > 0 \/ \E s \in Slot : Alive(s) # DOMAIN children[s]
    /\ \E a \in Places("A"), b \in Places("B") : children' = [A |-> Kept("A", a), B |-> Kept("B", b)]
    /\ loads' = 0
    /\ IF \E s \in Slot : Holds(s, "lost")
          THEN currentBackground' = Null /\ overlayMap' = TellOverlays("background", Null)
          ELSE UNCHANGED <<currentBackground, overlayMap>>
    /\ UNCHANGED <<connectionState, useA, fades, hurried, missed, unmade, broken>>

(* What the end of the fade and the cleanup timer do to a retiring slot. *)
Retire ==
    /\ children' = DestroyOldest(children, retiring)
    /\ retiring' = Null
    /\ UNCHANGED <<connectionState, currentBackground, useA, overlayMap, history>>

Fade ==
    /\ fadingIn # Null
    /\ opacity' = [s \in Slot |-> "partial"]
    /\ UNCHANGED <<connectionState, currentBackground, useA, children, retiring, fadingIn,
                   cleanupTimer, overlayMap, history>>

(* The two fades start and end together. *)
FadesFinish ==
    /\ fadingIn # Null
    /\ opacity' = [s \in Slot |-> IF s = fadingIn THEN "full" ELSE "hidden"]
    /\ fadingIn' = Null
    /\ Retire
    /\ UNCHANGED cleanupTimer

(* The failsafe may come before the fade has ended, when frames are late. *)
CleanupTimer ==
    /\ cleanupTimer
    /\ cleanupTimer' = FALSE
    /\ opacity' = [s \in Slot |-> IF s = retiring THEN "hidden" ELSE opacity[s]]
    /\ Retire
    /\ UNCHANGED fadingIn

Next ==
    \/ BackgroundChange \/ SetActiveBackgroundId
    \/ AddOverlay \/ RemoveOverlay \/ ClearOverlays \/ SetSceneData
    \/ DeferredDeletes \/ Fade \/ FadesFinish \/ CleanupTimer

Spec == Init /\ [][Next]_vars

-----------------------------------------------------------------------------
(* The background the user is looking at is never destroyed before another *)
(* takes its place, and it is the one last asked for unless that one       *)
(* failed to load.  Creations that fail twice in a row, or during a fade,  *)
(* can lose it (_loadBackground empties the slot before it creates).       *)
CurrentHeld ==
    ~ broken =>
        /\ \E s \in Slot : Holds(s, "current")
        /\ ~ missed => currentBackground.id = activeBackgroundId
        /\ currentBackground.params = backgroundParams
        /\ currentBackground.data = sceneData

(* Once the fades are over the current background alone is visible, and    *)
(* it is all there is in its slot unless three changes came in one turn.   *)
(* A retiring slot has a timer that will clear it, whatever the fade does. *)
SettlesOnCurrent ==
    /\ retiring # Null => cleanupTimer /\ retiring # fadingIn
    /\ ~ broken =>
        \A s \in Slot : Holds(s, "current") =>
            /\ fadingIn = Null => opacity[s] = "full" /\ opacity[Other(s)] = "hidden"
            /\ fadingIn # Null => fadingIn = s
            /\ ~ hurried => \E k \in DOMAIN children[s] : Alive(s) = {k}

(* The overlays are among the active ones and each has the latest          *)
(* parameters and data and the background on the screen, whichever of the  *)
(* signals came first (addOverlay, _syncOverlays, _loadBackground).        *)
OverlaysMatch ==
    /\ DOMAIN overlayMap \subseteq activeOverlayIds
    /\ \A o \in DOMAIN overlayMap :
          /\ overlayMap[o].params = overlayParams[o]
          /\ overlayMap[o].data = sceneData
          /\ overlayMap[o].background =
                IF currentBackground = Null THEN Null ELSE currentBackground.id

=============================================================================
