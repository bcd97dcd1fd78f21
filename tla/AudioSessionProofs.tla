------------------------- MODULE AudioSessionProofs -------------------------
(***************************************************************************)
(* Proofs of the safety properties of AudioSession, for every set of       *)
(* stream identifiers, every queue bound, with and without faults.         *)
(***************************************************************************)
EXTENDS AudioSession, SequenceTheorems, TLAPS

-----------------------------------------------------------------------------
(* The queue of signals.                                                   *)

(* Marking the queued signals stale, as a reset of the VAD does, keeps     *)
(* them in place: none is lost, none is added.                             *)
LEMMA AllStaleType ==
    ASSUME NEW q \in Seq(Signal)
    PROVE  /\ AllStale(q) \in Seq(Signal)
           /\ Len(AllStale(q)) = Len(q)
<1>1. /\ Len(q) \in Nat
      /\ DOMAIN q = 1 .. Len(q)
      /\ \A i \in 1 .. Len(q): q[i] \in Signal
  BY LenProperties, ElementOfSeq
<1>2. \A i \in 1 .. Len(q): [q[i] EXCEPT !.stale = TRUE] \in Signal
  BY <1>1 DEF Signal
<1>3. AllStale(q) \in [1 .. Len(q) -> Signal]
  BY <1>1, <1>2 DEF AllStale
<1>. QED  BY <1>1, <1>3

(* What is left of the queue when its first signal is taken. *)
LEMMA TailType ==
    ASSUME NEW q \in Seq(Signal), q # <<>>
    PROVE  /\ Head(q) \in Signal
           /\ Tail(q) \in Seq(Signal)
           /\ Len(Tail(q)) < Len(q)
  BY HeadTailProperties, LenProperties

(* A reset leaves the VAD and the queue well-typed. *)
LEMMA ResetVadType ==
    ASSUME NEW q \in Seq(Signal), Len(q) <= MaxInbox, vadTurn \in Turn, ResetVad(q)
    PROVE  /\ vadState' \in VadState
           /\ vadTurn' \in Turn
           /\ inbox' \in Seq(Signal)
           /\ Len(inbox') <= MaxInbox
  BY AllStaleType DEF ResetVad, VadState, Turn

-----------------------------------------------------------------------------
(* The type invariant.                                                     *)

LEMMA InitType == Init => TypeOK
<1>1. <<>> \in Seq(Signal) /\ Len(<<>>) <= MaxInbox
  BY BoundAssumption, EmptySeq
<1>2. NoTurn \in Turn
  BY DEF NoTurn, Turn, VadState
<1>. QED  BY <1>1, <1>2 DEF Init, TypeOK, State, Timer, Threshold, VadState, Conn!Init, Conn!Link

(* The steps of the inference thread. *)
LEMMA InferenceType ==
    ASSUME TypeOK, InferBegin \/ InferCommit \/ WakeWordFires
    PROVE  TypeOK'
<1>. USE DEF TypeOK
<1>1. CASE InferBegin
  BY <1>1 DEF InferBegin, Turn, orchestrator, server, history, Reaches
<1>2. CASE InferCommit
  <2>1. inbox' \in Seq(Signal) /\ Len(inbox') <= MaxInbox
    <3>1. CASE UNCHANGED inbox
      BY <3>1
    <3>2. CASE \E kind \in {"speechStarted", "speechEnded"}: Emit(kind)
      BY <1>2, <3>2, BoundAssumption DEF InferCommit, Emit, Signal, Turn
    <3>. QED  BY <1>2, <3>1, <3>2 DEF InferCommit, SpeechStarts, SpeechContinues,
                SilenceStarts, SpeechEnds, NothingNew
  <2>2. vadState' \in VadState
    BY <1>2 DEF InferCommit, SpeechStarts, SpeechContinues, SilenceStarts,
                SpeechEnds, NothingNew, VadState
  <2>. QED  BY <1>2, <2>1, <2>2
            DEF InferCommit, NoTurn, Turn, VadState, orchestrator, server, history
<1>3. CASE WakeWordFires
  BY <1>3, BoundAssumption DEF WakeWordFires, Signal, orchestrator, vad, server, history
<1>. QED  BY <1>1, <1>2, <1>3

(* The handlers of the signals of the inference thread. *)
LEMMA SignalType ==
    ASSUME TypeOK,
           \/ OnWakeWordDetected \/ IgnoreWakeWord
           \/ OnVadSpeechStarted \/ IgnoreSpeechStarted
           \/ SpeechEndedEndsStream \/ SpeechEndedFiltersBargeIn \/ IgnoreSpeechEnded
    PROVE  TypeOK'
<1>. USE DEF TypeOK
<1>1. inbox # <<>>
  BY DEF OnWakeWordDetected, IgnoreWakeWord, OnVadSpeechStarted, IgnoreSpeechStarted,
         SpeechEndedEndsStream, SpeechEndedFiltersBargeIn, IgnoreSpeechEnded, Receives
<1>2. /\ Tail(inbox) \in Seq(Signal)
      /\ Len(Tail(inbox)) <= MaxInbox
  BY <1>1, TailType, LenProperties, BoundAssumption
<1>3. CASE OnWakeWordDetected
  BY <1>2, <1>3, ResetVadType
     DEF OnWakeWordDetected, OpenUpload, SendStart, State, history
<1>4. CASE IgnoreWakeWord \/ IgnoreSpeechStarted \/ IgnoreSpeechEnded
  BY <1>2, <1>4 DEF IgnoreWakeWord, IgnoreSpeechStarted, IgnoreSpeechEnded, Ignore,
                    orchestrator, vad, server, history
<1>5. CASE OnVadSpeechStarted
  BY <1>2, <1>5 DEF OnVadSpeechStarted, Timer, vad, server, history
<1>6. CASE SpeechEndedEndsStream
  BY <1>2, <1>6 DEF SpeechEndedEndsStream, EndStream, EndUpload, SendEnd, State, vad, history
<1>7. CASE SpeechEndedFiltersBargeIn
  BY <1>2, <1>7 DEF SpeechEndedFiltersBargeIn, Timer, vad, server, history
<1>. QED  BY <1>3, <1>4, <1>5, <1>6, <1>7

(* The handlers of the playback engine's and the server's signals. *)
LEMMA PlaybackType ==
    ASSUME TypeOK,
           OnSilenceTimeout \/ OnInboundAudioStreamStart \/ OnInboundAudio \/ OnInboundStreamEnd
    PROVE  TypeOK'
<1>. USE DEF TypeOK
<1>1. ASSUME OnTtsPlaybackEnded
      PROVE  /\ state' \in State /\ bargeInTimer' \in Timer /\ vadThreshold' \in Threshold
             /\ vadState' \in VadState /\ vadTurn' \in Turn
             /\ inbox' \in Seq(Signal) /\ Len(inbox') <= MaxInbox
  BY <1>1, ResetVadType DEF OnTtsPlaybackEnded, State, Timer, vad
<1>2. CASE OnSilenceTimeout
  BY <1>1, <1>2 DEF OnSilenceTimeout, server, history
<1>3. CASE OnInboundAudioStreamStart
  BY <1>3 DEF OnInboundAudioStreamStart, vad, history
<1>4. CASE OnInboundAudio
  <2>1. CASE state = "Idle"
    BY <1>4, <2>1 DEF OnInboundAudio, OnTtsPlaybackStarted, vad, history
  <2>2. CASE state # "Idle"
    BY <1>4, <2>2, ResetVadType
       DEF OnInboundAudio, OnTtsPlaybackStarted, RaiseVadThreshold, EndUpload, SendEnd,
           State, Timer, Threshold, history
  <2>. QED  BY <2>1, <2>2
<1>5. CASE OnInboundStreamEnd
  BY <1>1, <1>5 DEF OnInboundStreamEnd, vad, history
<1>. QED  BY <1>2, <1>3, <1>4, <1>5

(* Timers, errors, frames and the connection. *)
LEMMA OtherType ==
    ASSUME TypeOK,
           \/ OnOpusFrameEncoded \/ OnStreamingTimeout \/ OnPipelineError
           \/ OnBargeInTimerExpired \/ OnWsDisconnected \/ Connect \/ OnWsReconnected
    PROVE  TypeOK'
<1>. USE DEF TypeOK
<1>1. CASE OnOpusFrameEncoded
  BY <1>1 DEF OnOpusFrameEncoded, orchestrator, vad, server
<1>2. CASE OnStreamingTimeout
  BY <1>2 DEF OnStreamingTimeout, EndStream, EndUpload, SendEnd, State, vad, history
<1>3. CASE OnPipelineError
  BY <1>3 DEF OnPipelineError, State, vad, server
<1>4. CASE OnBargeInTimerExpired
  <2>1. CASE state = "PlayingBack"
    BY <1>4, <2>1, ResetVadType
       DEF OnBargeInTimerExpired, ExecuteBargeIn, OpenUpload, SendStart, State, Timer
  <2>2. CASE state # "PlayingBack"
    BY <1>4, <2>2 DEF OnBargeInTimerExpired, Timer, vad, server, history
  <2>. QED  BY <2>1, <2>2
<1>5. CASE OnWsDisconnected
  BY <1>5 DEF OnWsDisconnected, Conn!Lose, State, Conn!Link, vad
<1>6. CASE Connect
  BY <1>6 DEF Connect, Conn!Open, Conn!Link, orchestrator, vad, history
<1>7. CASE OnWsReconnected
  BY <1>7 DEF OnWsReconnected, Conn!OpenSession, State, Conn!Link, vad
<1>. QED  BY <1>1, <1>2, <1>3, <1>4, <1>5, <1>6, <1>7

LEMMA NextType == TypeOK /\ [Next]_vars => TypeOK'
<1>1. ASSUME TypeOK, UNCHANGED vars  PROVE TypeOK'
  BY <1>1 DEF TypeOK, vars, orchestrator, vad, server, history
<1>. QED  BY <1>1, InferenceType, SignalType, PlaybackType, OtherType DEF Next

(* Every reachable state is well-typed, and the queue stays within bounds. *)
THEOREM TypeCorrect == Spec => []TypeOK
  BY InitType, NextType, PTL DEF Spec

-----------------------------------------------------------------------------
(* The safety properties.  They are inductive together: what the playback  *)
(* guarantees needs the server's stream, the barge-in timer needs the      *)
(* connection, the saved threshold needs the playback.                     *)

IInv ==
    /\ TypeOK
    /\ StreamingHeld
    /\ PlaybackHeld
    /\ BargeInNamesPlayingStream
    /\ IdleOnlyWhenBroken
    /\ BargeInTimerHeld
    /\ ThresholdRestoredUnlessCut

LEMMA InitInv == Init => IInv
  BY InitType, StreamAssumption
     DEF Init, IInv, StreamingHeld, PlaybackHeld,
         BargeInNamesPlayingStream, IdleOnlyWhenBroken, BargeInTimerHeld,
         ThresholdRestoredUnlessCut

LEMMA NextInv == IInv /\ [Next]_vars => IInv'
<1>. SUFFICES ASSUME IInv, [Next]_vars  PROVE IInv'
  OBVIOUS
<1>. USE DEF StreamingHeld, PlaybackHeld, BargeInNamesPlayingStream,
             IdleOnlyWhenBroken, BargeInTimerHeld, ThresholdRestoredUnlessCut
<1>1. TypeOK /\ TypeOK'
  BY NextType DEF IInv
<1>2. CASE InferBegin \/ InferCommit \/ WakeWordFires \/ IgnoreWakeWord
           \/ IgnoreSpeechStarted \/ IgnoreSpeechEnded
  BY <1>1, <1>2 DEF IInv, InferBegin, InferCommit, WakeWordFires, IgnoreWakeWord,
      IgnoreSpeechStarted, IgnoreSpeechEnded, Ignore, orchestrator, vad, server, history
<1>3. CASE OnWakeWordDetected
  BY <1>1, <1>3, StreamAssumption
     DEF IInv, TypeOK, OnWakeWordDetected, OpenUpload, SendStart, history
<1>4. CASE OnVadSpeechStarted
  BY <1>1, <1>4 DEF IInv, OnVadSpeechStarted, vad, server, history
<1>5. CASE SpeechEndedEndsStream \/ OnStreamingTimeout
  BY <1>1, <1>5 DEF IInv, SpeechEndedEndsStream, OnStreamingTimeout, EndStream,
      EndUpload, vad, history
<1>6. CASE SpeechEndedFiltersBargeIn
  BY <1>1, <1>6 DEF IInv, SpeechEndedFiltersBargeIn, vad, server, history
<1>7. CASE OnOpusFrameEncoded
  BY <1>1, <1>7 DEF IInv, OnOpusFrameEncoded, orchestrator, vad, server
<1>8. CASE OnPipelineError
  BY <1>1, <1>8 DEF IInv, OnPipelineError, vad, server
<1>9. CASE OnBargeInTimerExpired
  <2>1. CASE state = "PlayingBack"
    BY <1>1, <1>9, <2>1, StreamAssumption
       DEF IInv, TypeOK, OnBargeInTimerExpired, ExecuteBargeIn, OpenUpload, SendStart
  <2>2. CASE state # "PlayingBack"
    BY <1>1, <1>9, <2>2 DEF IInv, OnBargeInTimerExpired, vad, server, history
  <2>. QED  BY <2>1, <2>2
<1>10. CASE OnSilenceTimeout
  BY <1>1, <1>10 DEF IInv, OnSilenceTimeout, OnTtsPlaybackEnded, vad, server, history
<1>11. CASE OnInboundAudioStreamStart
  BY <1>1, <1>11 DEF IInv, OnInboundAudioStreamStart, vad, history
<1>12. CASE OnInboundAudio
  <2>1. CASE state = "Idle"
    BY <1>1, <1>12, <2>1
       DEF IInv, OnInboundAudio, OnTtsPlaybackStarted, vad, history
  <2>2. CASE state # "Idle"
    <3>1. ~playbackCut => vadThreshold = "normal"
      BY <1>1, <1>12, <2>2 DEF IInv, TypeOK, Threshold, OnInboundAudio
    <3>. QED
      BY <1>1, <1>12, <2>2, <3>1
         DEF IInv, TypeOK, OnInboundAudio, OnTtsPlaybackStarted, RaiseVadThreshold,
             EndUpload, history
  <2>. QED  BY <2>1, <2>2
<1>13. CASE OnInboundStreamEnd
  BY <1>1, <1>13 DEF IInv, OnInboundStreamEnd, OnTtsPlaybackEnded, vad, history
<1>14. CASE OnWsDisconnected
  BY <1>1, <1>14 DEF IInv, OnWsDisconnected, Conn!Lose, vad
<1>15. CASE Connect
  BY <1>1, <1>15 DEF IInv, Connect, Conn!Open, TimersHaveRunOut, orchestrator, vad, history
<1>16. CASE OnWsReconnected
  BY <1>1, <1>16 DEF IInv, OnWsReconnected, Conn!OpenSession, vad
<1>17. CASE UNCHANGED vars
  BY <1>1, <1>17 DEF IInv, vars, orchestrator, vad, server, history
<1>. QED
  BY <1>2, <1>3, <1>4, <1>5, <1>6, <1>7, <1>8, <1>9, <1>10, <1>11, <1>12, <1>13,
     <1>14, <1>15, <1>16, <1>17 DEF Next

LEMMA InvariantHolds == Spec => []IInv
  BY InitInv, NextInv, PTL DEF Spec

(* An upload is open, named and timed exactly while the pipeline streams,  *)
(* and no frame is sent outside one.                                       *)
THEOREM StreamingSafe == Spec => []StreamingHeld
<1>1. IInv => StreamingHeld
  BY DEF IInv
<1>. QED  BY <1>1, InvariantHolds, PTL

(* The orchestrator plays back only what the engine is playing on a live   *)
(* session.                                                                *)
THEOREM PlaybackSafe == Spec => []PlaybackHeld
<1>1. IInv => PlaybackHeld
  BY DEF IInv
<1>. QED  BY <1>1, InvariantHolds, PTL

(* During a playback, a barge-in would name the stream that is played.     *)
THEOREM BargeInNameSafe == Spec => []BargeInNamesPlayingStream
<1>1. IInv => BargeInNamesPlayingStream
  BY DEF IInv
<1>. QED  BY <1>1, InvariantHolds, PTL

(* The VAD threshold is raised during playback only, unless a playback was *)
(* cut off by a disconnect or an error.                                    *)
THEOREM ThresholdSafe == Spec => []ThresholdRestoredUnlessCut
<1>1. IInv => ThresholdRestoredUnlessCut
  BY DEF IInv
<1>. QED  BY <1>1, InvariantHolds, PTL

(* With a session open the pipeline is idle only after a component error.  *)
THEOREM IdleSafe == Spec => []IdleOnlyWhenBroken
<1>1. IInv => IdleOnlyWhenBroken
  BY DEF IInv
<1>. QED  BY <1>1, InvariantHolds, PTL

(* The barge-in timer outlives a playback only after an error or while     *)
(* disconnected.                                                           *)
THEOREM BargeInTimerSafe == Spec => []BargeInTimerHeld
<1>1. IInv => BargeInTimerHeld
  BY DEF IInv
<1>. QED  BY <1>1, InvariantHolds, PTL

-----------------------------------------------------------------------------
(* The barge-in timer and the speech it was started by.  A signal that     *)
(* waits in the queue promises as much as a running timer.                 *)

EndFollows(i) == \E j \in DOMAIN inbox : j > i /\ inbox[j].kind = "speechEnded"

StartsHeld ==
    \A i \in DOMAIN inbox :
        inbox[i].kind = "speechStarted" /\ ~inbox[i].stale => vadState # "Idle" \/ EndFollows(i)

SpeechHeld == StartsHeld /\ BargeInFollowsSpeech

(* A handler takes the first signal; what follows it keeps its order.      *)
LEMMA TailKeepsStarts ==
    ASSUME TypeOK, StartsHeld, inbox # <<>>, inbox' = Tail(inbox), vadState' = vadState
    PROVE  /\ StartsHeld'
           /\ \A j \in DOMAIN inbox : j > 1 => j - 1 \in DOMAIN inbox' /\ inbox'[j - 1] = inbox[j]
<1>1. /\ inbox \in Seq(Signal) /\ Len(inbox) \in Nat /\ Len(inbox) > 0
      /\ DOMAIN inbox = 1 .. Len(inbox)
  BY DEF TypeOK
<1>2. /\ DOMAIN inbox' = 1 .. Len(inbox) - 1
      /\ \A i \in 1 .. Len(inbox) - 1 : inbox'[i] = inbox[i + 1]
  BY <1>1
<1>3. \A j \in DOMAIN inbox : j > 1 => j - 1 \in DOMAIN inbox' /\ inbox'[j - 1] = inbox[j]
  BY <1>1, <1>2
<1>4. StartsHeld'
  <2>. SUFFICES ASSUME NEW i \in DOMAIN inbox', inbox'[i].kind = "speechStarted",
                       ~inbox'[i].stale, vadState' = "Idle"
                PROVE  EndFollows(i)'
    BY DEF StartsHeld
  <2>1. i + 1 \in DOMAIN inbox /\ inbox[i + 1] = inbox'[i] /\ i \in Nat
    BY <1>1, <1>2
  <2>2. PICK j \in DOMAIN inbox : j > i + 1 /\ inbox[j].kind = "speechEnded"
    BY <2>1 DEF StartsHeld, EndFollows
  <2>3. j - 1 \in DOMAIN inbox' /\ j - 1 > i /\ inbox'[j - 1].kind = "speechEnded"
    BY <1>1, <1>3, <2>1, <2>2
  <2>. QED  BY <2>3 DEF EndFollows
<1>. QED  BY <1>3, <1>4

(* A reset leaves no signal that could promise anything.                   *)
LEMMA ResetKeepsStarts ==
    ASSUME NEW q \in Seq(Signal), ResetVad(q)
    PROVE  StartsHeld'
<1>1. /\ inbox' = AllStale(q)
      /\ DOMAIN q = 1 .. Len(q) /\ \A i \in DOMAIN q : q[i] \in Signal
  BY LenProperties, ElementOfSeq DEF ResetVad
<1>2. \A i \in DOMAIN inbox' : inbox'[i].stale
  BY <1>1 DEF AllStale, Signal
<1>. QED  BY <1>2 DEF StartsHeld

(* The VAD becomes idle only with a speechEnded.                           *)
LEMMA CommitKeepsSpeech ==
    ASSUME TypeOK, SpeechHeld, InferCommit
    PROVE  SpeechHeld'
<1>. DEFINE n == Len(inbox)
<1>1. inbox \in Seq(Signal) /\ n \in Nat /\ DOMAIN inbox = 1 .. n
  BY DEF TypeOK
<1>2. UNCHANGED <<state, bargeInTimer>>
  BY DEF InferCommit, orchestrator
<1>3. ASSUME NEW kind, Emit(kind)
      PROVE  /\ DOMAIN inbox' = 1 .. n + 1 /\ inbox'[n + 1].kind = kind
             /\ \A i \in 1 .. n : inbox'[i] = inbox[i]
  BY <1>1, <1>3 DEF Emit
<1>4. CASE SpeechStarts
  <2>1. vadState' # "Idle"
    BY <1>4 DEF SpeechStarts
  <2>. QED  BY <2>1 DEF SpeechHeld, StartsHeld, BargeInFollowsSpeech
<1>5. CASE SpeechContinues \/ SilenceStarts
  <2>1. vadState' # "Idle"
    BY <1>5 DEF SpeechContinues, SilenceStarts
  <2>. QED  BY <2>1 DEF SpeechHeld, StartsHeld, BargeInFollowsSpeech
<1>6. CASE SpeechEnds
  <2>1. /\ DOMAIN inbox' = 1 .. n + 1 /\ inbox'[n + 1].kind = "speechEnded"
    BY <1>3, <1>6 DEF SpeechEnds
  <2>2. ASSUME NEW i \in DOMAIN inbox', inbox'[i].kind = "speechStarted"
        PROVE  EndFollows(i)'
    BY <1>1, <2>1, <2>2 DEF EndFollows
  <2>3. n + 1 \in DOMAIN inbox'
    BY <1>1, <2>1
  <2>. QED  BY <2>1, <2>2, <2>3 DEF SpeechHeld, StartsHeld, BargeInFollowsSpeech
<1>7. CASE NothingNew
  BY <1>2, <1>7 DEF NothingNew, SpeechHeld, StartsHeld, EndFollows, BargeInFollowsSpeech
<1>. QED  BY <1>4, <1>5, <1>6, <1>7 DEF InferCommit

LEMMA SpeechInductive == IInv /\ SpeechHeld /\ [Next]_vars => SpeechHeld'
<1>. SUFFICES ASSUME IInv, SpeechHeld, [Next]_vars  PROVE SpeechHeld'
  OBVIOUS
<1>. USE DEF SpeechHeld
<1>1. TypeOK /\ BargeInTimerHeld /\ inbox \in Seq(Signal)
  BY DEF IInv, TypeOK
<1>2. ASSUME UNCHANGED <<vadState, inbox>>,
             state' # "PlayingBack" \/ bargeInTimer' = "off" \/ UNCHANGED <<state, bargeInTimer>>
      PROVE  SpeechHeld'
  BY <1>2 DEF StartsHeld, EndFollows, BargeInFollowsSpeech
<1>3. ASSUME NEW q \in Seq(Signal), ResetVad(q), state' # "PlayingBack" \/ bargeInTimer' = "off"
      PROVE  SpeechHeld'
  BY <1>3, ResetKeepsStarts DEF BargeInFollowsSpeech
<1>4. ASSUME inbox # <<>>, inbox' = Tail(inbox), vadState' = vadState,
             \/ state' # "PlayingBack" \/ bargeInTimer' = "off"
             \/ UNCHANGED <<state, bargeInTimer>> /\ Head(inbox).kind # "speechEnded"
      PROVE  SpeechHeld'
  <2>1. StartsHeld'
    BY <1>1, <1>4, TailKeepsStarts
  <2>2. ASSUME state' = "PlayingBack", bargeInTimer' = "on", vadState' = "Idle"
        PROVE  \E i \in DOMAIN inbox' : inbox'[i].kind = "speechEnded"
    <3>1. PICK j \in DOMAIN inbox : inbox[j].kind = "speechEnded"
      BY <1>4, <2>2 DEF BargeInFollowsSpeech
    <3>2. j \in Nat /\ j > 1
      BY <1>1, <1>4, <2>2, <3>1 DEF TypeOK
    <3>. QED  BY <1>1, <1>4, <3>1, <3>2, TailKeepsStarts
  <2>. QED  BY <2>1, <2>2 DEF BargeInFollowsSpeech
<1>5. CASE InferBegin
  BY <1>2, <1>5 DEF InferBegin, orchestrator
<1>6. CASE InferCommit
  BY <1>1, <1>6, CommitKeepsSpeech
<1>7. CASE WakeWordFires
  <2>1. /\ inbox \in Seq(Signal) /\ DOMAIN inbox = 1 .. Len(inbox) /\ Len(inbox) \in Nat
    BY <1>1 DEF TypeOK
  <2>2. /\ DOMAIN inbox' = 1 .. Len(inbox) + 1 /\ inbox'[Len(inbox) + 1].kind = "wake"
        /\ \A i \in 1 .. Len(inbox) : inbox'[i] = inbox[i]
    BY <1>7, <2>1 DEF WakeWordFires
  <2>3. UNCHANGED <<state, bargeInTimer, vadState>>
    BY <1>7 DEF WakeWordFires, orchestrator, vad
  <2>4. StartsHeld'
    BY <2>1, <2>2, <2>3 DEF StartsHeld, EndFollows
  <2>. QED  BY <2>1, <2>2, <2>3, <2>4 DEF BargeInFollowsSpeech
<1>8. CASE OnWakeWordDetected
  <2>1. Tail(inbox) \in Seq(Signal)
    BY <1>1, <1>8, TailType DEF OnWakeWordDetected, Receives
  <2>. QED  BY <1>3, <1>8, <2>1 DEF OnWakeWordDetected, OpenUpload
<1>9. CASE IgnoreWakeWord \/ IgnoreSpeechStarted \/ IgnoreSpeechEnded
  BY <1>4, <1>9 DEF IgnoreWakeWord, IgnoreSpeechStarted, IgnoreSpeechEnded, Ignore, Receives,
      orchestrator, vad
<1>10. CASE OnVadSpeechStarted
  <2>1. /\ inbox # <<>> /\ inbox' = Tail(inbox) /\ vadState' = vadState
        /\ Head(inbox).kind = "speechStarted"
    BY <1>10 DEF OnVadSpeechStarted, Receives, vad
  <2>2. 1 \in DOMAIN inbox /\ inbox[1] = Head(inbox)
    BY <1>1, <2>1 DEF TypeOK
  <2>3. ASSUME bargeInTimer' = "on", vadState' = "Idle"
        PROVE  \E i \in DOMAIN inbox' : inbox'[i].kind = "speechEnded"
    <3>1. ~Head(inbox).stale
      BY <1>10, <2>3 DEF OnVadSpeechStarted
    <3>2. PICK j \in DOMAIN inbox : j > 1 /\ inbox[j].kind = "speechEnded"
      BY <2>1, <2>2, <2>3, <3>1 DEF StartsHeld, EndFollows
    <3>. QED  BY <1>1, <2>1, <3>2, TailKeepsStarts
  <2>. QED  BY <1>1, <2>1, <2>3, TailKeepsStarts DEF BargeInFollowsSpeech
<1>11. CASE SpeechEndedEndsStream \/ SpeechEndedFiltersBargeIn
  BY <1>4, <1>11 DEF SpeechEndedEndsStream, SpeechEndedFiltersBargeIn, EndStream, Receives, vad
<1>12. CASE OnOpusFrameEncoded \/ OnPipelineError \/ OnWsDisconnected \/ Connect
            \/ OnInboundAudioStreamStart
  BY <1>2, <1>12 DEF OnOpusFrameEncoded, OnPipelineError, OnWsDisconnected, Conn!Lose,
      Connect, Conn!Open,
      OnInboundAudioStreamStart, orchestrator, vad
<1>13. CASE OnStreamingTimeout
  BY <1>2, <1>13 DEF OnStreamingTimeout, EndStream, vad
<1>14. CASE OnBargeInTimerExpired
  <2>1. CASE state = "PlayingBack"
    BY <1>1, <1>3, <1>14, <2>1 DEF OnBargeInTimerExpired, ExecuteBargeIn, OpenUpload
  <2>2. CASE state # "PlayingBack"
    BY <1>2, <1>14, <2>2 DEF OnBargeInTimerExpired, vad
  <2>. QED  BY <2>1, <2>2
<1>15. CASE OnSilenceTimeout \/ OnInboundStreamEnd
  <2>1. CASE OnTtsPlaybackEnded
    BY <1>1, <1>2, <1>3, <2>1 DEF OnTtsPlaybackEnded, vad
  <2>2. CASE UNCHANGED <<bargeInTimer, vad, inbox, state>>
    BY <1>2, <2>2 DEF vad
  <2>. QED  BY <1>15, <2>1, <2>2 DEF OnSilenceTimeout, OnInboundStreamEnd
<1>16. CASE OnInboundAudio
  <2>1. CASE state = "Idle"
    BY <1>2, <1>16, <2>1 DEF OnInboundAudio, OnTtsPlaybackStarted, vad
  <2>2. CASE state # "Idle"
    <3>1. bargeInTimer' = "off"
      BY <1>1, <1>16, <2>2 DEF OnInboundAudio, OnTtsPlaybackStarted, BargeInTimerHeld
    <3>. QED  BY <1>1, <1>3, <1>16, <2>2, <3>1 DEF OnInboundAudio, OnTtsPlaybackStarted, RaiseVadThreshold
  <2>. QED  BY <2>1, <2>2
<1>17. CASE OnWsReconnected
  <2>1. state' = state \/ state' # "PlayingBack"
    BY <1>17 DEF OnWsReconnected, Conn!OpenSession
  <2>. QED  BY <1>2, <1>17, <2>1 DEF OnWsReconnected, Conn!OpenSession, vad
<1>18. CASE UNCHANGED vars
  BY <1>2, <1>18 DEF vars, orchestrator, vad
<1>. QED
  BY <1>5, <1>6, <1>7, <1>8, <1>9, <1>10, <1>11, <1>12, <1>13, <1>14, <1>15, <1>16,
     <1>17, <1>18 DEF Next

(* A barge-in timer that speech over the playback started runs only as     *)
(* long as the speech does, or until its end has been delivered.           *)
THEOREM BargeInSafe == Spec => []BargeInFollowsSpeech
<1>1. Init => SpeechHeld
  BY DEF Init, SpeechHeld, StartsHeld, BargeInFollowsSpeech
<1>2. IInv /\ SpeechHeld /\ [Next]_vars => SpeechHeld'
  BY SpeechInductive
<1>3. SpeechHeld => BargeInFollowsSpeech
  BY DEF SpeechHeld
<1>. QED  BY <1>1, <1>2, <1>3, InvariantHolds, PTL DEF Spec

-----------------------------------------------------------------------------
(* Uploads that are left open on the server.                               *)

(* Only an error of the capture or the encoder leaves the active upload    *)
(* without ending it: every other way out of Streaming tells the server,   *)
(* or has lost the connection and the upload with it.                      *)
THEOREM AbandonSafe == Spec => AbandonedOnlyByErrors
<1>1. ASSUME IInv, [Next]_vars, activeStream # NoStream, activeStream' # activeStream,
             ~OnPipelineError
      PROVE  activeStream \notin uploads'
  <2>1. state = "Streaming" /\ link # "down"
    BY <1>1 DEF IInv, StreamingHeld
  <2>2. ASSUME EndUpload
        PROVE  activeStream \notin uploads'
    BY <2>1, <2>2 DEF EndUpload, SendEnd
  <2>3. CASE SpeechEndedEndsStream \/ OnStreamingTimeout
    BY <2>2, <2>3 DEF SpeechEndedEndsStream, OnStreamingTimeout, EndStream
  <2>4. CASE OnInboundAudio
    BY <2>1, <2>2, <2>4 DEF OnInboundAudio, OnTtsPlaybackStarted
  <2>5. CASE OnWsDisconnected
    BY <2>5 DEF OnWsDisconnected, Conn!Lose
  <2>6. ~OnWakeWordDetected
    BY <2>1 DEF OnWakeWordDetected
  <2>7. ~OnBargeInTimerExpired
    BY <1>1, <2>1 DEF OnBargeInTimerExpired
  <2>. QED
    BY <1>1, <2>3, <2>4, <2>5, <2>6, <2>7
       DEF Next, vars, orchestrator, InferBegin, InferCommit, WakeWordFires, IgnoreWakeWord,
           IgnoreSpeechStarted, IgnoreSpeechEnded, Ignore, OnOpusFrameEncoded,
           OnVadSpeechStarted, SpeechEndedFiltersBargeIn, OnInboundAudioStreamStart,
           OnSilenceTimeout, OnInboundStreamEnd, OnTtsPlaybackEnded, Connect, Conn!Open,
           OnWsReconnected, Conn!OpenSession
<1>2. IInv /\ [Next]_vars =>
          [activeStream # NoStream /\ activeStream' # activeStream =>
               activeStream \notin uploads' \/ OnPipelineError]_vars
  BY <1>1
<1>. QED  BY <1>2, InvariantHolds, PTL DEF Spec, AbandonedOnlyByErrors

-----------------------------------------------------------------------------
(* The client implements UploadProtocol: what is open on the server is     *)
(* what the pipeline is streaming, and what errors made it abandon.        *)

UploadsHeld == abandoned = uploads \ {activeStream}

LEMMA UploadsInductive ==
    ASSUME IInv, IInv', UploadsHeld, [Next]_vars
    PROVE  UploadsHeld' /\ [Upload!Next]_(Upload!vars)
<1>. USE DEF UploadsHeld, Upload!vars
<1>. /\ TypeOK /\ StreamingHeld /\ PlaybackHeld
     /\ TypeOK' /\ StreamingHeld'
     /\ NoStream \notin Stream
  BY StreamAssumption DEF IInv
<1>1. CASE InferBegin \/ InferCommit \/ WakeWordFires \/ IgnoreWakeWord
           \/ IgnoreSpeechStarted \/ IgnoreSpeechEnded \/ OnOpusFrameEncoded
  BY <1>1 DEF InferBegin, InferCommit, WakeWordFires, IgnoreWakeWord, IgnoreSpeechStarted,
      IgnoreSpeechEnded, OnOpusFrameEncoded, Ignore, orchestrator, server, history
<1>2. CASE OnVadSpeechStarted \/ SpeechEndedFiltersBargeIn \/ OnInboundAudioStreamStart
  BY <1>2 DEF OnVadSpeechStarted, SpeechEndedFiltersBargeIn, OnInboundAudioStreamStart, server,
      history
<1>3. ASSUME NEW s \in Stream, OpenUpload(s), link # "down", state # "Streaming",
             UNCHANGED <<link, abandoned>>
      PROVE  UploadsHeld' /\ Upload!Next
  <2>1. s \notin uploads /\ uploads' = uploads \cup {s} /\ activeStream' = s
    BY <1>3 DEF OpenUpload, SendStart
  <2>2. abandoned = uploads
    BY <1>3 DEF StreamingHeld, TypeOK
  <2>. QED  BY <1>3, <2>1, <2>2 DEF Upload!Next, Upload!Start
<1>4. CASE OnWakeWordDetected
  BY <1>3, <1>4 DEF OnWakeWordDetected, history
<1>5. CASE OnBargeInTimerExpired
  <2>1. CASE state = "PlayingBack"
    BY <1>3, <1>5, <2>1 DEF OnBargeInTimerExpired, ExecuteBargeIn, PlaybackHeld
  <2>2. CASE state # "PlayingBack"
    BY <1>5, <2>2 DEF OnBargeInTimerExpired, server, history
  <2>. QED  BY <2>1, <2>2
<1>6. ASSUME EndUpload, state = "Streaming", UNCHANGED <<link, abandoned>>
      PROVE  UploadsHeld' /\ Upload!Next
  <2>1. /\ activeStream \in uploads /\ link # "down"
        /\ uploads' = uploads \ {activeStream} /\ activeStream' = NoStream
    BY <1>6 DEF EndUpload, SendEnd, StreamingHeld
  <2>2. uploads # abandoned /\ uploads' = abandoned
    BY <2>1
  <2>3. UploadsHeld'
    BY <1>6, <2>1, <2>2 DEF TypeOK
  <2>. QED  BY <1>6, <2>1, <2>2, <2>3 DEF Upload!Next, Upload!End
<1>7. CASE SpeechEndedEndsStream \/ OnStreamingTimeout
  BY <1>6, <1>7 DEF SpeechEndedEndsStream, OnStreamingTimeout, EndStream, history
<1>8. CASE OnInboundAudio
  <2>1. CASE state = "Streaming"
    BY <1>6, <1>8, <2>1 DEF OnInboundAudio, OnTtsPlaybackStarted, history
  <2>2. CASE state # "Streaming"
    BY <1>8, <2>2 DEF OnInboundAudio, OnTtsPlaybackStarted, history
  <2>. QED  BY <2>1, <2>2
<1>9. CASE OnSilenceTimeout \/ OnInboundStreamEnd
  BY <1>9 DEF OnSilenceTimeout, OnInboundStreamEnd, OnTtsPlaybackEnded, server, history
<1>10. CASE OnPipelineError
  <2>1. UNCHANGED <<link, uploads>> /\ activeStream' = NoStream
    BY <1>10 DEF OnPipelineError, server
  <2>2. CASE state = "Streaming"
    <3>1. activeStream \in uploads /\ link # "down" /\ activeStream # NoStream
      BY <2>2 DEF StreamingHeld
    <3>2. abandoned' = uploads
      BY <1>10, <3>1 DEF OnPipelineError
    <3>. QED  BY <2>1, <3>1, <3>2 DEF TypeOK, Upload!Next, Upload!Abandon
  <2>3. CASE state # "Streaming"
    <3>1. activeStream = NoStream /\ abandoned' = abandoned
      BY <1>10, <2>3 DEF OnPipelineError, StreamingHeld
    <3>. QED  BY <2>1, <3>1
  <2>. QED  BY <2>2, <2>3
<1>11. CASE OnWsDisconnected
  BY <1>11 DEF OnWsDisconnected, Conn!Lose, Upload!Next, Upload!LoseConnection
<1>12. CASE Connect
  BY <1>12 DEF Connect, Conn!Open, orchestrator, history, Upload!Next, Upload!Connect
<1>13. CASE OnWsReconnected
  BY <1>13 DEF OnWsReconnected, Conn!OpenSession
<1>14. CASE UNCHANGED vars
  BY <1>14 DEF vars, orchestrator, server, history
<1>. QED
  BY <1>1, <1>2, <1>4, <1>5, <1>7, <1>8, <1>9, <1>10, <1>11, <1>12, <1>13, <1>14
     DEF Next

(* Every behaviour of the client is one of UploadProtocol: at most one     *)
(* upload is in progress, a new one is started only after the previous     *)
(* ended or was abandoned by an error, and an abandoned one stays alone.   *)
THEOREM RefinesUploadProtocol == Spec => ImplementsUploadProtocol
<1>1. Init => UploadsHeld /\ Upload!Init
  BY DEF Init, UploadsHeld, Upload!Init, Conn!Init
<1>2. IInv /\ IInv' /\ UploadsHeld /\ [Next]_vars => UploadsHeld' /\ [Upload!Next]_(Upload!vars)
  BY UploadsInductive
<1>. QED  BY <1>1, <1>2, InvariantHolds, PTL DEF Spec, ImplementsUploadProtocol, Upload!Spec

-----------------------------------------------------------------------------
(* The engine is silent, or speaks on a stream, whenever there is a link:  *)
(* so it is silent when the server starts a stream.                        *)
SpeakingHeld == isSpeaking /\ link # "down" => srvStream # NoStream

LEMMA SpeakingInductive ==
    ASSUME IInv, SpeakingHeld, [Next]_vars
    PROVE  SpeakingHeld' /\ [Engine!Next]_(Engine!vars)
<1>. USE DEF SpeakingHeld, Engine!vars
<1>1. BargeInNamesPlayingStream /\ PlaybackHeld
  BY DEF IInv
<1>2. CASE InferBegin \/ InferCommit \/ WakeWordFires \/ IgnoreWakeWord
           \/ IgnoreSpeechStarted \/ IgnoreSpeechEnded \/ OnOpusFrameEncoded
  BY <1>2 DEF InferBegin, InferCommit, WakeWordFires, IgnoreWakeWord, IgnoreSpeechStarted,
      IgnoreSpeechEnded, OnOpusFrameEncoded, Ignore, server
<1>3. CASE OnWakeWordDetected \/ OnVadSpeechStarted \/ SpeechEndedFiltersBargeIn
  BY <1>3 DEF OnWakeWordDetected, OnVadSpeechStarted, SpeechEndedFiltersBargeIn, server
<1>4. CASE SpeechEndedEndsStream \/ OnStreamingTimeout \/ OnPipelineError
  BY <1>4 DEF SpeechEndedEndsStream, OnStreamingTimeout, EndStream, OnPipelineError, server
<1>5. CASE OnBargeInTimerExpired
  <2>1. CASE state = "PlayingBack"
    BY <1>5, <2>1 DEF OnBargeInTimerExpired, ExecuteBargeIn, Engine!Next, Engine!FallsSilent
  <2>2. CASE state # "PlayingBack"
    BY <1>5, <2>2 DEF OnBargeInTimerExpired, server
  <2>. QED  BY <2>1, <2>2
<1>6. CASE OnSilenceTimeout
  BY <1>6 DEF OnSilenceTimeout, server, Engine!Next, Engine!FallsSilent
<1>7. CASE OnInboundAudioStreamStart
  BY <1>7, StreamAssumption DEF IInv, TypeOK, OnInboundAudioStreamStart, Engine!Next,
                                Engine!StreamStarts
<1>8. CASE OnInboundAudio
  BY <1>8 DEF OnInboundAudio, Engine!Next, Engine!Speaks
<1>9. CASE OnInboundStreamEnd
  BY <1>9 DEF OnInboundStreamEnd, Engine!Next, Engine!StreamEnds
<1>10. CASE OnWsDisconnected
  BY <1>10 DEF OnWsDisconnected, Conn!Lose, Engine!Next, Engine!StreamIsLost
<1>11. CASE Connect
  BY <1>11 DEF Connect, Conn!Open, TimersHaveRunOut
<1>12. CASE OnWsReconnected
  BY <1>12 DEF OnWsReconnected, Conn!OpenSession
<1>13. CASE UNCHANGED vars
  BY <1>13 DEF vars, server
<1>. QED
  BY <1>2, <1>3, <1>4, <1>5, <1>6, <1>7, <1>8, <1>9, <1>10, <1>11, <1>12, <1>13 DEF Next

(* The pipeline and the playback engine agree on what the engine does.     *)
THEOREM RefinesSpeechEngine == Spec => ImplementsSpeechEngine
<1>1. Init => SpeakingHeld /\ Engine!Init
  BY DEF Init, SpeakingHeld, Engine!Init
<1>2. IInv /\ SpeakingHeld /\ [Next]_vars => SpeakingHeld' /\ [Engine!Next]_(Engine!vars)
  BY SpeakingInductive
<1>. QED  BY <1>1, <1>2, InvariantHolds, PTL DEF Spec, ImplementsSpeechEngine, Engine!Spec

=============================================================================
