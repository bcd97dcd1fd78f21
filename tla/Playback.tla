------------------------------ MODULE Playback ------------------------------
(***************************************************************************)
(* PairionAudioPlayback: decoded speech goes into the jitter buffer and    *)
(* from there into the bounded buffer of the audio sink, which plays it.   *)
(* What the sink cannot take waits in the jitter buffer for the next frame *)
(* or, once the stream has ended, for the drain timer.                     *)
(*                                                                         *)
(* Audio is counted in units, some of which make a frame: the sink may     *)
(* take a frame in part.  Units are numbered in the order of arrival.      *)
(***************************************************************************)
EXTENDS Naturals, Sequences

CONSTANTS
    FrameUnits,     \* units in a frame
    SinkRoom,       \* units the sink buffers (kSinkBufferBytes)
    Warmup,         \* units of silence preparePlayback writes (kJitterMs)
    MaxStreams,     \* bound: streams the server starts
    MaxUnits        \* bound: units that arrive

ASSUME PlaybackAssumption ==
    /\ FrameUnits \in Nat \ {0}
    /\ SinkRoom \in Nat \ {0}
    /\ Warmup \in Nat
    /\ MaxStreams \in Nat
    /\ MaxUnits \in Nat

VARIABLES
    isSpeaking, silenceTimer, drainTimer,
    jitter,         \* m_jitterBuffer, as the units it holds
    device,         \* m_audioDevice is not null: the sink is started
    buffered,       \* units in the sink's own buffer
    stream,         \* the number of the server's latest stream, 0 before the first
    outcome,        \* how each stream stands
    received,       \* units that have arrived
    written,        \* history: the units written to the sink
    dropped,        \* history: the numbers of the units that were discarded
    interrupted     \* history: the streams that were stopped by a barge-in

engine  == <<isSpeaking, silenceTimer, drainTimer, jitter, device, buffered>>
server  == <<stream, outcome, received>>
history == <<written, dropped, interrupted>>
vars    == <<engine, server, history>>

Streams == 1 .. MaxStreams
Outcome == {"none", "open", "normal", "abnormal", "lost"}
Unit    == [no: 1 .. MaxUnits, stream: Streams]

TypeOK ==
    /\ isSpeaking \in BOOLEAN
    /\ silenceTimer \in BOOLEAN
    /\ drainTimer \in BOOLEAN
    /\ jitter \in Seq(Unit)
    /\ device \in BOOLEAN
    /\ buffered \in 0 .. SinkRoom
    /\ stream \in 0 .. MaxStreams
    /\ outcome \in [Streams -> Outcome]
    /\ received \in 0 .. MaxUnits
    /\ written \in Seq(Unit)
    /\ dropped \in SUBSET (1 .. MaxUnits)
    /\ interrupted \in SUBSET Streams

(* The sink may fail to start, here and in PreparePlayback. *)
Init ==
    /\ isSpeaking = FALSE
    /\ silenceTimer = FALSE
    /\ drainTimer = FALSE
    /\ jitter = <<>>
    /\ device \in BOOLEAN
    /\ buffered = 0
    /\ stream = 0
    /\ outcome = [s \in Streams |-> "none"]
    /\ received = 0
    /\ written = <<>>
    /\ dropped = {}
    /\ interrupted = {}

Open == stream # 0 /\ outcome[stream] = "open"

Numbers(units) == {units[i].no: i \in DOMAIN units}

-----------------------------------------------------------------------------
(* What the handlers are built from.                                       *)

Smaller(m, n) == IF m < n THEN m ELSE n

(* The loop that writes the head of the jitter buffer until a write falls  *)
(* short: as many units as the sink has room for, in order.                *)
Fitting(units) == IF device THEN Smaller(Len(units), SinkRoom - buffered) ELSE 0

DequeuePartlyWritten(units) ==   \* mutant: the rest of a frame cut short is lost
    LET n == Fitting(units)
        frame(u) == (u.no - 1) \div FrameUnits
    IN  /\ jitter' = SelectSeq(SubSeq(units, n + 1, Len(units)),
                               LAMBDA u: n = 0 \/ frame(u) # frame(units[n]))
        /\ written' = written \o SubSeq(units, 1, n)
        /\ buffered' = buffered + n

WriteToSink(units) ==
    LET n == Fitting(units)
    IN  /\ jitter' = SubSeq(units, n + 1, Len(units))
        /\ written' = written \o SubSeq(units, 1, n)
        /\ buffered' = buffered + n

NotSpeaking ==
    /\ silenceTimer' = FALSE
    /\ isSpeaking' = FALSE

(* sink->stop(): its buffer is played out or thrown away, by platform; in  *)
(* either case nothing written later is behind it.                         *)
Discard ==
    /\ drainTimer' = FALSE
    /\ jitter' = <<>>
    /\ dropped' = dropped \cup Numbers(jitter)
    /\ device' = FALSE
    /\ buffered' = 0

-----------------------------------------------------------------------------
(* The server's streams, one after the other.                              *)

(* A stream starts.  After a loss the client waits at least a second before *)
(* it connects again: the silence timer (500 ms) has run out.              *)
PreparePlayback ==
    /\ ~Open
    /\ ~silenceTimer
    /\ stream < MaxStreams
    /\ stream' = stream + 1
    /\ outcome' = [outcome EXCEPT ![stream + 1] = "open"]
    /\ device' \in IF device THEN {TRUE} ELSE BOOLEAN
    /\ buffered' = IF device' THEN Smaller(buffered + Warmup, SinkRoom) ELSE buffered
    /\ UNCHANGED <<isSpeaking, silenceTimer, drainTimer, jitter, received, history>>

SpeakWithoutTimer(frame) ==   \* mutant: the silence timer is not restarted
    /\ isSpeaking' = TRUE
    /\ WriteToSink(jitter \o frame)
    /\ UNCHANGED silenceTimer

Speak(frame) ==
    /\ isSpeaking' = TRUE
    /\ silenceTimer' = TRUE
    /\ WriteToSink(jitter \o frame)

HandlePcmFrame ==
    /\ Open
    /\ received + FrameUnits <= MaxUnits
    /\ received' = received + FrameUnits
    /\ Speak([i \in 1 .. FrameUnits |-> [no |-> received + i, stream |-> stream]])
    /\ UNCHANGED <<drainTimer, device, stream, outcome, dropped, interrupted>>

EndWithoutDraining ==   \* mutant: the drain timer is not started
    /\ outcome' = [outcome EXCEPT ![stream] = "normal"]
    /\ UNCHANGED <<drainTimer, jitter, device, buffered, dropped>>

NormalEnd ==
    /\ outcome' = [outcome EXCEPT ![stream] = "normal"]
    /\ drainTimer' = (drainTimer \/ jitter # <<>>)
    /\ UNCHANGED <<jitter, device, buffered, dropped>>

KeepBufferedSpeech ==   \* mutant: the jitter buffer is not cleared
    /\ outcome' = [outcome EXCEPT ![stream] = "abnormal"]
    /\ drainTimer' = FALSE
    /\ device' = FALSE
    /\ buffered' = 0
    /\ UNCHANGED <<jitter, dropped>>

AbnormalEnd ==
    /\ outcome' = [outcome EXCEPT ![stream] = "abnormal"]
    /\ Discard

HandleStreamEnd ==
    /\ Open
    /\ NotSpeaking
    /\ NormalEnd \/ AbnormalEnd
    /\ UNCHANGED <<stream, received, written, interrupted>>

(* The connection is lost: nobody tells the playback engine. *)
StreamIsLost ==
    /\ Open
    /\ outcome' = [outcome EXCEPT ![stream] = "lost"]
    /\ UNCHANGED <<engine, stream, received, history>>

-----------------------------------------------------------------------------
(* The barge-in, the timers and the audio device.                          *)

(* stop(), which the orchestrator calls while it is PlayingBack: then the  *)
(* engine speaks on an open stream (AudioSession!PlaybackHeld).            *)
Stop ==
    /\ Open
    /\ isSpeaking
    /\ NotSpeaking
    /\ Discard
    /\ interrupted' = interrupted \cup {stream}
    /\ UNCHANGED <<server, written>>

OnSilenceTimeout ==
    /\ silenceTimer
    /\ NotSpeaking
    /\ UNCHANGED <<drainTimer, jitter, device, buffered, server, history>>

OnDrainTick ==
    /\ drainTimer
    /\ WriteToSink(jitter)
    /\ drainTimer' = (jitter' # <<>>)
    /\ UNCHANGED <<isSpeaking, silenceTimer, device, server, dropped, interrupted>>

SinkPlays ==
    /\ buffered > 0
    /\ buffered' = buffered - 1
    /\ UNCHANGED <<isSpeaking, silenceTimer, drainTimer, jitter, device, server, history>>

Next ==
    \/ PreparePlayback
    \/ HandlePcmFrame
    \/ HandleStreamEnd
    \/ StreamIsLost
    \/ Stop
    \/ OnSilenceTimeout
    \/ OnDrainTick
    \/ SinkPlays

Spec == Init /\ [][Next]_vars

(* The event loop runs the drain timer and the device plays what it has. *)
RunningSpec == Spec /\ WF_vars(OnDrainTick) /\ WF_vars(SinkPlays)

-----------------------------------------------------------------------------
(* Properties.                                                             *)

(* Whatever is to end by itself has the timer running that ends it: the    *)
(* engine speaks exactly while the silence timer runs, and units wait in   *)
(* the jitter buffer only for the drain timer, for a further frame of the  *)
(* stream, or, after the loss of a stream, for the next stream.            *)
TimersHeld ==
    /\ isSpeaking <=> silenceTimer
    /\ jitter # <<>> => drainTimer \/ Open \/ (stream # 0 /\ outcome[stream] = "lost")

(* Nothing is lost, repeated or reordered on the way to the sink, however  *)
(* writes fall short and whichever of the two loops makes them: the units  *)
(* written and those that wait are, in the order of their arrival, all     *)
(* that arrived and were not discarded by a barge-in or an abnormal end.   *)
InOrder(units) == \A i, j \in DOMAIN units: i < j => units[i].no < units[j].no
PlayedInOrder ==
    /\ InOrder(written \o jitter)
    /\ Numbers(written \o jitter) = (1 .. received) \ dropped

(* Architecture.md, 7.2: an abnormal end flushes the buffer immediately.   *)
(* Nothing of a stream that ended so is written afterwards, with whatever  *)
(* follows it; and after a barge-in nothing of the interrupted stream is,  *)
(* for as long as the server goes on sending it (handleStreamEnd, stop).   *)
Silenced(s) ==
    \/ outcome[s] = "abnormal"
    \/ s \in interrupted /\ outcome[s] = "open"
SilencedStaysSilent ==
    [][\A i \in DOMAIN written' \ DOMAIN written: ~ Silenced(written'[i].stream)]_vars

(* The tail of a stream that ended normally on a working sink is written   *)
(* or discarded, though the sink was full when the stream ended.           *)
Waits(n) == \E i \in DOMAIN jitter: jitter[i].no = n
InTail(n) == \E i \in DOMAIN jitter: jitter[i].no = n /\ outcome[jitter[i].stream] = "normal"
TailPlays ==
    \A n \in 1 .. MaxUnits: device /\ InTail(n) ~> ~Waits(n)

(* The engine is what the audio session takes it for. *)
Engine == INSTANCE SpeechEngine WITH speaking <- isSpeaking, streaming <- Open
ImplementsSpeechEngine == Engine!Spec

=============================================================================
