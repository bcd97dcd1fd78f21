--------------------------- MODULE PlaybackProofs ---------------------------
(***************************************************************************)
(* Proofs about the playback engine, for every frame length, every size of *)
(* the sink's buffer, every warm-up and any number of streams and units.   *)
(***************************************************************************)
EXTENDS Playback, SequenceTheorems, TLAPS

-----------------------------------------------------------------------------
(* The write loop.                                                         *)

(* Cutting a sequence in two loses nothing. *)
LEMMA CutInTwo ==
    ASSUME NEW S, NEW s \in Seq(S), NEW n \in 0 .. Len(s)
    PROVE  /\ SubSeq(s, 1, n) \in Seq(S) /\ Len(SubSeq(s, 1, n)) = n
           /\ SubSeq(s, n + 1, Len(s)) \in Seq(S)
           /\ SubSeq(s, 1, n) \o SubSeq(s, n + 1, Len(s)) = s
<1>1. Len(s) \in Nat /\ \A i \in 1 .. Len(s): s[i] \in S
  BY LenProperties, ElementOfSeq
<1>2. /\ SubSeq(s, 1, n) \in Seq(S)
      /\ Len(SubSeq(s, 1, n)) = IF 1 <= n THEN n - 1 + 1 ELSE 0
  <2>1. \A i \in 1 .. n: s[i] \in S
    BY <1>1
  <2>. QED  BY <1>1, <2>1, SubSeqProperties
<1>3. SubSeq(s, n + 1, Len(s)) \in Seq(S)
  <2>1. \A i \in n + 1 .. Len(s): s[i] \in S
    BY <1>1
  <2>. QED  BY <1>1, <2>1, SubSeqProperties
<1>4. SubSeq(s, 1, n) \o SubSeq(s, n + 1, Len(s)) = SubSeq(s, 1, Len(s))
  <2>1. 1 \in 1 .. Len(s) + 1 /\ n \in 1 - 1 .. Len(s) /\ Len(s) \in n .. Len(s)
    BY <1>1
  <2>. QED  BY <2>1, ConcatAdjacentSubSeq
<1>5. SubSeq(s, 1, Len(s)) = s
  BY SubSeqFull
<1>6. Len(SubSeq(s, 1, n)) = n
  BY <1>1, <1>2
<1>. QED  BY <1>2, <1>3, <1>4, <1>5, <1>6

(* The loop stays within the units given to it and the room of the sink. *)
LEMMA FittingBounds ==
    ASSUME NEW units \in Seq(Unit), buffered \in 0 .. SinkRoom
    PROVE  /\ Fitting(units) \in 0 .. Len(units)
           /\ buffered + Fitting(units) \in 0 .. SinkRoom
<1>1. Len(units) \in Nat
  BY LenProperties
<1>. QED  BY <1>1, PlaybackAssumption DEF Fitting, Smaller

(* The loop moves units from the jitter buffer to the sink and changes     *)
(* neither what there is in the two nor its order.                         *)
LEMMA WriteKeepsUnits ==
    ASSUME NEW units \in Seq(Unit), TypeOK, WriteToSink(units)
    PROVE  /\ jitter' \in Seq(Unit)
           /\ written' \in Seq(Unit)
           /\ buffered' \in 0 .. SinkRoom
           /\ written' \o jitter' = written \o units
<1>. DEFINE n == Fitting(units)
            first == SubSeq(units, 1, n)
            rest == SubSeq(units, n + 1, Len(units))
<1>1. n \in 0 .. Len(units) /\ buffered + n \in 0 .. SinkRoom
  BY FittingBounds DEF TypeOK
<1>2. first \in Seq(Unit) /\ rest \in Seq(Unit) /\ first \o rest = units
  BY <1>1, CutInTwo
<1>3. jitter' = rest /\ written' = written \o first /\ buffered' = buffered + n
  BY DEF WriteToSink
<1>4. written \in Seq(Unit)
  BY DEF TypeOK
<1>5. written \o first \in Seq(Unit)
  BY <1>2, <1>4, ConcatProperties
<1>6. (written \o first) \o rest = written \o (first \o rest)
  <2>1. first \in Seq(Unit) /\ rest \in Seq(Unit)
    BY <1>2
  <2>. HIDE DEF first, rest
  <2>. QED  BY <2>1, <1>4, ConcatAssociative
<1>. QED  BY <1>1, <1>2, <1>3, <1>5, <1>6

(* The numbers in a concatenation. *)
LEMMA NumbersOfConcat ==
    ASSUME NEW s \in Seq(Unit), NEW t \in Seq(Unit)
    PROVE  Numbers(s \o t) = Numbers(s) \cup Numbers(t)
<1>1. /\ Len(s) \in Nat /\ DOMAIN s = 1 .. Len(s)
      /\ Len(t) \in Nat /\ DOMAIN t = 1 .. Len(t)
  BY LenProperties
<1>2. /\ s \o t \in Seq(Unit)
      /\ Len(s \o t) = Len(s) + Len(t)
      /\ \A i \in 1 .. Len(s) + Len(t):
            (s \o t)[i] = IF i <= Len(s) THEN s[i] ELSE t[i - Len(s)]
  BY ConcatProperties
<1>3. DOMAIN (s \o t) = 1 .. Len(s) + Len(t)
  BY <1>2, LenProperties
<1>4. ASSUME NEW i \in DOMAIN (s \o t)
      PROVE  (s \o t)[i].no \in Numbers(s) \cup Numbers(t)
  <2>1. CASE i <= Len(s)
    BY <1>1, <1>2, <1>3, <2>1 DEF Numbers
  <2>2. CASE i > Len(s)
    <3>1. i - Len(s) \in DOMAIN t /\ (s \o t)[i] = t[i - Len(s)]
      BY <1>1, <1>2, <1>3, <2>2
    <3>. QED  BY <3>1 DEF Numbers
  <2>. QED  BY <1>1, <1>3, <2>1, <2>2
<1>5. ASSUME NEW i \in DOMAIN s
      PROVE  s[i].no \in Numbers(s \o t)
  <2>1. i \in DOMAIN (s \o t) /\ (s \o t)[i] = s[i]
    BY <1>1, <1>2, <1>3
  <2>. QED  BY <2>1 DEF Numbers
<1>6. ASSUME NEW i \in DOMAIN t
      PROVE  t[i].no \in Numbers(s \o t)
  <2>1. i + Len(s) \in DOMAIN (s \o t) /\ (s \o t)[i + Len(s)] = t[i]
    BY <1>1, <1>2, <1>3
  <2>. QED  BY <2>1 DEF Numbers
<1>. QED  BY <1>4, <1>5, <1>6 DEF Numbers

(* A concatenation is in order if its parts are and the first part's       *)
(* numbers are the smaller ones; and the parts of what is in order are.    *)
LEMMA OrderOfConcat ==
    ASSUME NEW s \in Seq(Unit), NEW t \in Seq(Unit)
    PROVE  InOrder(s \o t) <=>
               /\ InOrder(s) /\ InOrder(t)
               /\ \A i \in DOMAIN s, j \in DOMAIN t: s[i].no < t[j].no
<1>1. /\ Len(s) \in Nat /\ DOMAIN s = 1 .. Len(s)
      /\ Len(t) \in Nat /\ DOMAIN t = 1 .. Len(t)
  BY LenProperties
<1>2. /\ s \o t \in Seq(Unit)
      /\ Len(s \o t) = Len(s) + Len(t)
      /\ \A i \in 1 .. Len(s) + Len(t):
            (s \o t)[i] = IF i <= Len(s) THEN s[i] ELSE t[i - Len(s)]
  BY ConcatProperties
<1>3. DOMAIN (s \o t) = 1 .. Len(s) + Len(t)
  BY <1>2, LenProperties
<1>4. ASSUME InOrder(s), InOrder(t),
             \A i \in DOMAIN s, j \in DOMAIN t: s[i].no < t[j].no,
             NEW i \in DOMAIN (s \o t), NEW j \in DOMAIN (s \o t), i < j
      PROVE  (s \o t)[i].no < (s \o t)[j].no
  <2>1. CASE j <= Len(s)
    BY <1>1, <1>2, <1>3, <1>4, <2>1 DEF InOrder
  <2>2. CASE i <= Len(s) /\ Len(s) < j
    <3>1. j - Len(s) \in DOMAIN t /\ i \in DOMAIN s
      BY <1>1, <1>3, <2>2
    <3>. QED  BY <1>1, <1>2, <1>3, <1>4, <2>2, <3>1
  <2>3. CASE Len(s) < i
    <3>1. /\ i - Len(s) \in DOMAIN t /\ j - Len(s) \in DOMAIN t
          /\ i - Len(s) < j - Len(s)
      BY <1>1, <1>3, <1>4, <2>3
    <3>2. (s \o t)[i] = t[i - Len(s)] /\ (s \o t)[j] = t[j - Len(s)]
      BY <1>1, <1>2, <1>3, <1>4, <2>3
    <3>. QED  BY <1>4, <3>1, <3>2 DEF InOrder
  <2>. QED  BY <1>1, <1>3, <1>4, <2>1, <2>2, <2>3
<1>5. ASSUME InOrder(s \o t)
      PROVE  InOrder(s) /\ InOrder(t) /\
             \A i \in DOMAIN s, j \in DOMAIN t: s[i].no < t[j].no
  <2>1. ASSUME NEW i \in DOMAIN s, NEW j \in DOMAIN s, i < j
        PROVE  s[i].no < s[j].no
    <3>1. i \in DOMAIN (s \o t) /\ j \in DOMAIN (s \o t)
      BY <1>1, <1>3
    <3>2. (s \o t)[i] = s[i] /\ (s \o t)[j] = s[j]
      BY <1>1, <1>2
    <3>. QED  BY <1>5, <2>1, <3>1, <3>2 DEF InOrder
  <2>2. ASSUME NEW i \in DOMAIN t, NEW j \in DOMAIN t, i < j
        PROVE  t[i].no < t[j].no
    <3>1. /\ i + Len(s) \in DOMAIN (s \o t) /\ j + Len(s) \in DOMAIN (s \o t)
          /\ i + Len(s) < j + Len(s)
      BY <1>1, <1>3, <2>2
    <3>2. (s \o t)[i + Len(s)] = t[i] /\ (s \o t)[j + Len(s)] = t[j]
      BY <1>1, <1>2
    <3>. QED  BY <1>5, <3>1, <3>2 DEF InOrder
  <2>3. ASSUME NEW i \in DOMAIN s, NEW j \in DOMAIN t
        PROVE  s[i].no < t[j].no
    <3>1. /\ i \in DOMAIN (s \o t) /\ j + Len(s) \in DOMAIN (s \o t)
          /\ i < j + Len(s)
      BY <1>1, <1>3
    <3>2. (s \o t)[i] = s[i] /\ (s \o t)[j + Len(s)] = t[j]
      BY <1>1, <1>2
    <3>. QED  BY <1>5, <3>1, <3>2 DEF InOrder
  <2>. QED  BY <2>1, <2>2, <2>3 DEF InOrder
<1>. QED  BY <1>4, <1>5 DEF InOrder

-----------------------------------------------------------------------------
(* The type invariant.                                                     *)

(* The units of a frame carry the next numbers and the open stream.        *)
Frame == [i \in 1 .. FrameUnits |-> [no |-> received + i, stream |-> stream]]

LEMMA FrameType ==
    ASSUME TypeOK, Open, received + FrameUnits <= MaxUnits
    PROVE  /\ Frame \in Seq(Unit)
           /\ DOMAIN Frame = 1 .. FrameUnits
           /\ Numbers(Frame) = received + 1 .. received + FrameUnits
           /\ InOrder(Frame)
<1>1. /\ stream \in Streams /\ received \in 0 .. MaxUnits
      /\ FrameUnits \in Nat /\ MaxUnits \in Nat /\ MaxStreams \in Nat
  BY PlaybackAssumption DEF TypeOK, Open, Streams
<1>2. \A i \in 1 .. FrameUnits: received + i \in 1 .. MaxUnits
  BY <1>1
<1>3. Frame \in [1 .. FrameUnits -> Unit]
  BY <1>1, <1>2 DEF Frame, Unit
<1>4. Frame \in Seq(Unit)
  BY <1>1, <1>3
<1>5. \A i \in 1 .. FrameUnits: Frame[i].no = received + i
  BY DEF Frame
<1>6. DOMAIN Frame = 1 .. FrameUnits
  BY DEF Frame
<1>7. ASSUME NEW k \in received + 1 .. received + FrameUnits
      PROVE  k \in Numbers(Frame)
  <2>1. k - received \in 1 .. FrameUnits /\ received + (k - received) = k
    BY <1>1
  <2>. QED  BY <1>5, <1>6, <2>1 DEF Numbers
<1>8. Numbers(Frame) \subseteq received + 1 .. received + FrameUnits
  BY <1>1, <1>5, <1>6 DEF Numbers
<1>9. InOrder(Frame)
  BY <1>1, <1>5, <1>6 DEF InOrder
<1>. QED  BY <1>4, <1>6, <1>7, <1>8, <1>9

LEMMA NumbersType ==
    ASSUME NEW s \in Seq(Unit)
    PROVE  Numbers(s) \subseteq 1 .. MaxUnits
<1>1. \A i \in DOMAIN s: s[i] \in Unit
  BY LenProperties, ElementOfSeq
<1>. QED  BY <1>1 DEF Numbers, Unit

(* What a frame appended to the jitter buffer and written leaves.          *)
LEMMA SpeakKeepsUnits ==
    ASSUME TypeOK, HandlePcmFrame
    PROVE  /\ jitter' \in Seq(Unit)
           /\ written' \in Seq(Unit)
           /\ buffered' \in 0 .. SinkRoom
           /\ written' \o jitter' = (written \o jitter) \o Frame
<1>1. jitter \in Seq(Unit) /\ written \in Seq(Unit) /\ Frame \in Seq(Unit)
  BY FrameType DEF TypeOK, HandlePcmFrame
<1>2. jitter \o Frame \in Seq(Unit)
  BY <1>1, ConcatProperties
<1>3. WriteToSink(jitter \o Frame)
  BY DEF HandlePcmFrame, Speak, Frame
<1>4. /\ jitter' \in Seq(Unit) /\ written' \in Seq(Unit) /\ buffered' \in 0 .. SinkRoom
      /\ written' \o jitter' = written \o (jitter \o Frame)
  BY <1>2, <1>3, WriteKeepsUnits
<1>5. (written \o jitter) \o Frame = written \o (jitter \o Frame)
  BY <1>1, ConcatAssociative
<1>. QED  BY <1>4, <1>5

LEMMA InitType == Init => TypeOK
<1>1. <<>> \in Seq(Unit)
  BY EmptySeq
<1>2. 0 \in 0 .. SinkRoom /\ 0 \in 0 .. MaxStreams /\ 0 \in 0 .. MaxUnits
  BY PlaybackAssumption
<1>3. [s \in Streams |-> "none"] \in [Streams -> Outcome]
  BY DEF Outcome
<1>4. Init => device \in BOOLEAN
  BY Zenon DEF Init
<1>. QED  BY <1>1, <1>2, <1>3, <1>4, Zenon DEF Init, TypeOK

LEMMA NextType == TypeOK /\ [Next]_vars => TypeOK'
<1>. SUFFICES ASSUME TypeOK, [Next]_vars  PROVE TypeOK'
  OBVIOUS
<1>. USE DEF TypeOK
<1>1. MaxStreams \in Nat /\ SinkRoom \in Nat /\ MaxUnits \in Nat /\ Warmup \in Nat
      /\ FrameUnits \in Nat
  BY PlaybackAssumption
<1>2. CASE PreparePlayback
  <2>1. stream' \in 0 .. MaxStreams /\ outcome' \in [Streams -> Outcome]
    BY <1>1, <1>2 DEF PreparePlayback, Outcome, Streams
  <2>2. device' \in BOOLEAN
    BY <1>2, Zenon DEF PreparePlayback
  <2>3. buffered' \in {buffered, Smaller(buffered + Warmup, SinkRoom)}
    BY <1>2, Zenon DEF PreparePlayback
  <2>4. buffered' \in 0 .. SinkRoom
    BY <1>1, <2>3 DEF Smaller
  <2>. QED  BY <1>2, <2>1, <2>2, <2>4 DEF PreparePlayback, history
<1>3. CASE HandlePcmFrame
  <2>1. jitter' \in Seq(Unit) /\ written' \in Seq(Unit) /\ buffered' \in 0 .. SinkRoom
    BY <1>3, SpeakKeepsUnits
  <2>2. received' \in 0 .. MaxUnits
    BY <1>1, <1>3 DEF HandlePcmFrame
  <2>. QED  BY <1>3, <2>1, <2>2 DEF HandlePcmFrame, Speak
<1>4. CASE HandleStreamEnd
  <2>1. outcome' \in [Streams -> Outcome]
    BY <1>4 DEF HandleStreamEnd, NormalEnd, AbnormalEnd, Outcome
  <2>2. CASE NormalEnd
    BY <1>4, <2>1, <2>2 DEF HandleStreamEnd, NormalEnd, NotSpeaking
  <2>3. CASE AbnormalEnd
    <3>1. dropped' \subseteq 1 .. MaxUnits
      BY <2>3, NumbersType DEF AbnormalEnd, Discard
    <3>2. jitter' \in Seq(Unit) /\ buffered' \in 0 .. SinkRoom
      BY <1>1, <2>3, EmptySeq DEF AbnormalEnd, Discard
    <3>. QED  BY <1>4, <2>1, <2>3, <3>1, <3>2
              DEF HandleStreamEnd, AbnormalEnd, Discard, NotSpeaking
  <2>. QED  BY <1>4, <2>2, <2>3 DEF HandleStreamEnd
<1>5. CASE StreamIsLost
  BY <1>5 DEF StreamIsLost, Outcome, engine, history
<1>6. CASE Stop
  <2>1. dropped' \subseteq 1 .. MaxUnits
    BY <1>6, NumbersType DEF Stop, Discard
  <2>2. jitter' \in Seq(Unit) /\ buffered' \in 0 .. SinkRoom
    BY <1>1, <1>6, EmptySeq DEF Stop, Discard
  <2>3. stream \in Streams
    BY <1>1, <1>6 DEF Stop, Open, Streams
  <2>. QED  BY <1>6, <2>1, <2>2, <2>3 DEF Stop, Discard, NotSpeaking, server
<1>7. CASE OnSilenceTimeout
  BY <1>7 DEF OnSilenceTimeout, NotSpeaking, server, history
<1>8. CASE OnDrainTick
  <2>1. jitter' \in Seq(Unit) /\ written' \in Seq(Unit) /\ buffered' \in 0 .. SinkRoom
    BY <1>8, WriteKeepsUnits DEF OnDrainTick
  <2>. QED  BY <1>8, <2>1 DEF OnDrainTick, server
<1>9. CASE SinkPlays
  BY <1>1, <1>9 DEF SinkPlays, server, history
<1>10. CASE UNCHANGED vars
  BY <1>10 DEF vars, engine, server, history
<1>. QED
  BY <1>2, <1>3, <1>4, <1>5, <1>6, <1>7, <1>8, <1>9, <1>10 DEF Next

(* Every reachable state is well-typed; the sink never holds more than it  *)
(* has room for.                                                           *)
THEOREM TypeCorrect == Spec => []TypeOK
  BY InitType, NextType, PTL DEF Spec

-----------------------------------------------------------------------------
(* Safety.  Besides the two invariants the induction needs that nothing of *)
(* a stream that ended abnormally waits, and that what was discarded had   *)
(* arrived, so that no later unit is taken for a discarded one.            *)

NothingFlushedWaits ==
    \A i \in DOMAIN jitter: outcome[jitter[i].stream] # "abnormal"

(* No device while an interrupted stream is open, which only the latest is *)
InterruptedIsMute ==
    /\ \A s \in Streams: outcome[s] = "open" => s = stream
    /\ interrupted \subseteq 1 .. stream
    /\ stream \in interrupted /\ Open => ~device

DroppedHadArrived == dropped \subseteq 1 .. received

IInv ==
    /\ TypeOK
    /\ TimersHeld
    /\ PlayedInOrder
    /\ DroppedHadArrived
    /\ NothingFlushedWaits
    /\ InterruptedIsMute

(* A discard takes the units that wait out of the account. *)
LEMMA DiscardKeepsOrder ==
    ASSUME TypeOK, PlayedInOrder, DroppedHadArrived, Discard,
           UNCHANGED <<written, received>>
    PROVE  PlayedInOrder' /\ DroppedHadArrived'
<1>1. written \in Seq(Unit) /\ jitter \in Seq(Unit)
  BY DEF TypeOK
<1>2. /\ InOrder(written)
      /\ \A i \in DOMAIN written, j \in DOMAIN jitter: written[i].no < jitter[j].no
  BY <1>1, OrderOfConcat DEF PlayedInOrder
<1>3. Numbers(written) \cup Numbers(jitter) = (1 .. received) \ dropped
  BY <1>1, NumbersOfConcat DEF PlayedInOrder
<1>4. Numbers(written) \cap Numbers(jitter) = {}
  <2>1. \A i \in DOMAIN written: written[i].no \in 1 .. MaxUnits
    BY <1>1, NumbersType DEF Numbers
  <2>2. \A j \in DOMAIN jitter: jitter[j].no \in 1 .. MaxUnits
    BY <1>1, NumbersType DEF Numbers
  <2>3. \A i \in DOMAIN written, j \in DOMAIN jitter: written[i].no # jitter[j].no
    BY <1>2, <2>1, <2>2
  <2>. QED  BY <2>3 DEF Numbers
<1>5. Numbers(written) = (1 .. received) \ (dropped \cup Numbers(jitter))
  BY <1>3, <1>4
<1>6. jitter' = <<>> /\ dropped' = dropped \cup Numbers(jitter)
  BY DEF Discard
<1>7. written' \o jitter' = written
  BY <1>1, <1>6, ConcatEmptySeq
<1>8. DroppedHadArrived'
  BY <1>3, <1>6 DEF DroppedHadArrived
<1>. QED  BY <1>2, <1>5, <1>6, <1>7, <1>8 DEF PlayedInOrder

(* A frame adds the next numbers at the end. *)
LEMMA FrameKeepsOrder ==
    ASSUME TypeOK, PlayedInOrder, DroppedHadArrived, HandlePcmFrame
    PROVE  PlayedInOrder' /\ DroppedHadArrived'
<1>. DEFINE old == written \o jitter
<1>1. /\ received \in Nat /\ FrameUnits \in Nat /\ dropped \subseteq 1 .. MaxUnits
      /\ received' = received + FrameUnits /\ dropped' = dropped
      /\ written \in Seq(Unit) /\ jitter \in Seq(Unit)
  BY PlaybackAssumption DEF TypeOK, HandlePcmFrame
<1>2. old \in Seq(Unit)
  BY <1>1, ConcatProperties
<1>3. /\ Frame \in Seq(Unit) /\ InOrder(Frame)
      /\ Numbers(Frame) = received + 1 .. received + FrameUnits
      /\ DOMAIN Frame = 1 .. FrameUnits
  BY FrameType DEF HandlePcmFrame
<1>4. InOrder(old) /\ Numbers(old) = (1 .. received) \ dropped
  BY DEF PlayedInOrder
<1>5. ASSUME NEW i \in DOMAIN old, NEW j \in DOMAIN Frame
      PROVE  old[i].no < Frame[j].no
  <2>1. old[i].no \in 1 .. received
    BY <1>4 DEF Numbers
  <2>2. Frame[j].no = received + j /\ j \in Nat \ {0}
    BY <1>3 DEF Frame
  <2>. QED  BY <1>1, <2>1, <2>2
<1>6. InOrder(old \o Frame)
  <2>. HIDE DEF old
  <2>. QED  BY <1>2, <1>3, <1>4, <1>5, OrderOfConcat
<1>7. Numbers(old \o Frame) = Numbers(old) \cup Numbers(Frame)
  <2>. HIDE DEF old
  <2>. QED  BY <1>2, <1>3, NumbersOfConcat
<1>8. written' \o jitter' = old \o Frame
  BY SpeakKeepsUnits
<1>9. Numbers(old \o Frame) = (1 .. received + FrameUnits) \ dropped
  <2>. HIDE DEF old
  <2>. QED  BY <1>1, <1>3, <1>4, <1>7 DEF DroppedHadArrived
<1>10. DroppedHadArrived'
  BY <1>1 DEF DroppedHadArrived
<1>. QED  BY <1>1, <1>6, <1>8, <1>9, <1>10 DEF PlayedInOrder

LEMMA InitInv == Init => IInv
<1>. SUFFICES ASSUME Init  PROVE IInv
  OBVIOUS
<1>1. written \o jitter = <<>>
  BY DEF Init
<1>2. (1 .. 0) \ {} = {} /\ Numbers(<<>>) = {} /\ InOrder(<<>>)
  BY DEF Numbers, InOrder
<1>3. PlayedInOrder
  BY <1>1, <1>2, Zenon DEF Init, PlayedInOrder
<1>4. TimersHeld /\ NothingFlushedWaits /\ DroppedHadArrived /\ InterruptedIsMute
  BY DEF Init, TimersHeld, NothingFlushedWaits, DroppedHadArrived, InterruptedIsMute
<1>. QED  BY <1>3, <1>4, InitType DEF IInv

(* Units in order stay so under a step that only writes from the jitter    *)
(* buffer to the sink, or does not touch the two.                          *)
LEMMA DrainKeepsOrder ==
    ASSUME TypeOK, PlayedInOrder, DroppedHadArrived, UNCHANGED <<received, dropped>>,
           WriteToSink(jitter) \/ UNCHANGED <<written, jitter>>
    PROVE  PlayedInOrder' /\ DroppedHadArrived'
<1>1. jitter \in Seq(Unit)
  BY DEF TypeOK
<1>2. written' \o jitter' = written \o jitter
  BY <1>1, WriteKeepsUnits
<1>. QED  BY <1>2 DEF PlayedInOrder, DroppedHadArrived

LEMMA NextOrder ==
    ASSUME TypeOK, PlayedInOrder, DroppedHadArrived, [Next]_vars
    PROVE  PlayedInOrder' /\ DroppedHadArrived'
<1>1. CASE PreparePlayback \/ StreamIsLost \/ OnSilenceTimeout \/ SinkPlays \/ OnDrainTick
           \/ UNCHANGED vars
  BY <1>1, DrainKeepsOrder
     DEF PreparePlayback, StreamIsLost, OnSilenceTimeout, SinkPlays, OnDrainTick,
         vars, engine, server, history
<1>2. CASE HandlePcmFrame
  BY <1>2, FrameKeepsOrder
<1>3. CASE HandleStreamEnd
  <2>1. CASE NormalEnd
    BY <1>3, <2>1, DrainKeepsOrder DEF HandleStreamEnd, NormalEnd
  <2>2. CASE AbnormalEnd
    BY <1>3, <2>2, DiscardKeepsOrder DEF HandleStreamEnd, AbnormalEnd
  <2>. QED  BY <1>3, <2>1, <2>2 DEF HandleStreamEnd
<1>4. CASE Stop
  BY <1>4, DiscardKeepsOrder DEF Stop, server
<1>. QED  BY <1>1, <1>2, <1>3, <1>4 DEF Next

(* What is left in the jitter buffer by a write was there before it.       *)
LEMMA RestIsOld ==
    ASSUME TypeOK, NEW units \in Seq(Unit), WriteToSink(units), NEW i \in DOMAIN jitter'
    PROVE  \E j \in DOMAIN units: jitter'[i] = units[j]
<1>1. Len(units) \in Nat /\ DOMAIN units = 1 .. Len(units)
  BY LenProperties
<1>2. Fitting(units) \in 0 .. Len(units)
  BY FittingBounds DEF TypeOK
<1>. DEFINE n == Fitting(units)
<1>3. jitter' = SubSeq(units, n + 1, Len(units))
  BY DEF WriteToSink
<1>4. /\ Len(SubSeq(units, n + 1, Len(units))) = Len(units) - n
      /\ \A k \in 1 .. Len(units) - (n + 1) + 1: SubSeq(units, n + 1, Len(units))[k] = units[n + 1 + k - 1]
      /\ SubSeq(units, n + 1, Len(units)) \in Seq(Unit)
  <2>1. \A k \in n + 1 .. Len(units): units[k] \in Unit
    BY <1>1, <1>2, ElementOfSeq
  <2>2. n + 1 \in Int /\ Len(units) \in Int
    BY <1>1, <1>2
  <2>. HIDE DEF n
  <2>3. /\ Len(SubSeq(units, n + 1, Len(units)))
             = IF n + 1 <= Len(units) THEN Len(units) - (n + 1) + 1 ELSE 0
        /\ \A k \in 1 .. Len(units) - (n + 1) + 1:
              SubSeq(units, n + 1, Len(units))[k] = units[n + 1 + k - 1]
        /\ SubSeq(units, n + 1, Len(units)) \in Seq(Unit)
    BY <2>1, <2>2, SubSeqProperties
  <2>. QED  BY <1>1, <1>2, <2>3 DEF n
<1>5. i \in 1 .. Len(units) - n
  BY <1>3, <1>4, LenProperties
<1>6. n + i \in DOMAIN units /\ jitter'[i] = units[n + i]
  BY <1>1, <1>2, <1>3, <1>4, <1>5
<1>. QED  BY <1>6

(* Neither the units of a flushed stream are written, nor any while the    *)
(* interrupted stream is being sent.                                       *)
FlushedStays ==
    \A i \in DOMAIN written' \ DOMAIN written:
        outcome[written'[i].stream] # "abnormal" /\ device

(* What a write adds to the written units was given to it.                 *)
LEMMA AddedIsGiven ==
    ASSUME TypeOK, NEW units \in Seq(Unit), WriteToSink(units),
           NEW i \in DOMAIN written' \ DOMAIN written
    PROVE  \E j \in DOMAIN units: written'[i] = units[j]
<1>. DEFINE n == Fitting(units)
            first == SubSeq(units, 1, n)
<1>1. Len(units) \in Nat /\ DOMAIN units = 1 .. Len(units)
  BY LenProperties
<1>2. n \in 0 .. Len(units)
  BY FittingBounds DEF TypeOK
<1>3. first \in Seq(Unit) /\ Len(first) = n
  BY <1>2, CutInTwo
<1>4. \A k \in 1 .. n: first[k] = units[k]
  <2>1. \A k \in 1 .. n: units[k] \in Unit
    BY <1>1, <1>2, ElementOfSeq
  <2>2. 1 \in Int /\ n \in Int
    BY <1>1, <1>2
  <2>. HIDE DEF n
  <2>3. \A k \in 1 .. n - 1 + 1: SubSeq(units, 1, n)[k] = units[1 + k - 1]
    BY <2>1, <2>2, SubSeqProperties
  <2>4. \A k \in 1 .. n: SubSeq(units, 1, n)[k] = units[k]
    BY <2>2, <2>3
  <2>. QED  BY <2>4
<1>5. /\ written \in Seq(Unit) /\ Len(written) \in Nat /\ DOMAIN written = 1 .. Len(written)
      /\ written' = written \o first
  BY LenProperties DEF TypeOK, WriteToSink
<1>6. /\ written \o first \in Seq(Unit)
      /\ Len(written \o first) = Len(written) + n
      /\ \A k \in 1 .. Len(written) + n:
            (written \o first)[k] = IF k <= Len(written) THEN written[k] ELSE first[k - Len(written)]
  <2>. HIDE DEF first, n
  <2>. QED  BY <1>3, <1>5, ConcatProperties
<1>7. DOMAIN (written \o first) = 1 .. Len(written) + n
  BY <1>6, LenProperties
<1>8. i - Len(written) \in 1 .. n /\ written'[i] = first[i - Len(written)]
  <2>. HIDE DEF first, n
  <2>. QED  BY <1>2, <1>5, <1>6, <1>7
<1>. QED  BY <1>1, <1>2, <1>4, <1>8

LEMMA NextFlushed ==
    ASSUME TypeOK, NothingFlushedWaits, [Next]_vars
    PROVE  NothingFlushedWaits' /\ FlushedStays
<1>. USE DEF NothingFlushedWaits, FlushedStays
<1>1. ASSUME NEW units \in Seq(Unit), WriteToSink(units), UNCHANGED outcome,
             \A j \in DOMAIN units: outcome[units[j].stream] # "abnormal"
      PROVE  NothingFlushedWaits' /\ FlushedStays
  <2>1. ~device => written' = written
    <3>1. ASSUME ~device
          PROVE  written' = written \o SubSeq(units, 1, 0)
      BY <1>1, <3>1 DEF WriteToSink, Fitting
    <3>2. SubSeq(units, 1, 0) = <<>>
      BY <1>1, CutInTwo
    <3>. QED  BY <3>1, <3>2, ConcatEmptySeq DEF TypeOK
  <2>. QED  BY <1>1, <2>1, RestIsOld, AddedIsGiven
<1>2. \A i \in DOMAIN jitter: jitter[i].stream \in Streams
  <2>1. \A i \in DOMAIN jitter: jitter[i] \in Unit
    BY LenProperties, ElementOfSeq DEF TypeOK
  <2>. QED  BY <2>1 DEF Unit
<1>3. outcome \in [Streams -> Outcome]
  BY DEF TypeOK
<1>4. CASE PreparePlayback \/ StreamIsLost
  BY <1>2, <1>3, <1>4 DEF PreparePlayback, StreamIsLost, engine, history
<1>5. CASE HandlePcmFrame
  <2>1. /\ jitter \in Seq(Unit) /\ Frame \in Seq(Unit) /\ DOMAIN Frame = 1 .. FrameUnits
        /\ outcome[stream] = "open"
    BY <1>5, FrameType DEF TypeOK, HandlePcmFrame, Open
  <2>2. jitter \o Frame \in Seq(Unit)
    BY <2>1, ConcatProperties
  <2>3. \A j \in DOMAIN Frame: Frame[j].stream = stream
    BY <2>1 DEF Frame
  <2>4. ASSUME NEW j \in DOMAIN (jitter \o Frame)
        PROVE  outcome[(jitter \o Frame)[j].stream] # "abnormal"
    <3>1. /\ Len(jitter) \in Nat /\ DOMAIN jitter = 1 .. Len(jitter)
          /\ Len(Frame) \in Nat /\ DOMAIN Frame = 1 .. Len(Frame)
      BY <2>1, LenProperties
    <3>2. /\ DOMAIN (jitter \o Frame) = 1 .. Len(jitter \o Frame)
          /\ Len(jitter \o Frame) = Len(jitter) + Len(Frame)
          /\ \A k \in 1 .. Len(jitter) + Len(Frame):
                (jitter \o Frame)[k] = IF k <= Len(jitter) THEN jitter[k] ELSE Frame[k - Len(jitter)]
      BY <2>1, <2>2, ConcatProperties, LenProperties
    <3>3. CASE j <= Len(jitter)
      BY <3>1, <3>2, <3>3
    <3>4. CASE j > Len(jitter)
      <4>1. j - Len(jitter) \in DOMAIN Frame /\ (jitter \o Frame)[j] = Frame[j - Len(jitter)]
        BY <3>1, <3>2, <3>4
      <4>. QED  BY <2>1, <2>3, <4>1
    <3>. QED  BY <3>1, <3>2, <3>3, <3>4
  <2>5. WriteToSink(jitter \o Frame) /\ UNCHANGED outcome
    BY <1>5 DEF HandlePcmFrame, Speak, Frame
  <2>. QED  BY <1>1, <2>2, <2>4, <2>5
<1>6. CASE HandleStreamEnd
  <2>1. CASE NormalEnd
    BY <1>2, <1>3, <1>6, <2>1 DEF HandleStreamEnd, NormalEnd
  <2>2. CASE AbnormalEnd
    BY <1>6, <2>2 DEF HandleStreamEnd, AbnormalEnd, Discard
  <2>. QED  BY <1>6, <2>1, <2>2 DEF HandleStreamEnd
<1>7. CASE Stop
  BY <1>7 DEF Stop, Discard
<1>8. CASE OnDrainTick
  BY <1>1, <1>8 DEF OnDrainTick, TypeOK, server
<1>9. CASE OnSilenceTimeout \/ SinkPlays \/ UNCHANGED vars
  BY <1>9 DEF OnSilenceTimeout, SinkPlays, vars, engine, server, history
<1>. QED  BY <1>4, <1>5, <1>6, <1>7, <1>8, <1>9 DEF Next

LEMMA NextTimers ==
    ASSUME TypeOK, TimersHeld, [Next]_vars
    PROVE  TimersHeld'
<1>. USE DEF TimersHeld
<1>1. stream \in 0 .. MaxStreams /\ outcome \in [Streams -> Outcome] /\ MaxStreams \in Nat
  BY PlaybackAssumption DEF TypeOK
<1>2. CASE PreparePlayback
  BY <1>1, <1>2 DEF PreparePlayback, Open, Streams
<1>3. CASE HandlePcmFrame
  BY <1>3 DEF HandlePcmFrame, Speak, Open
<1>4. CASE HandleStreamEnd
  BY <1>1, <1>4 DEF HandleStreamEnd, NormalEnd, AbnormalEnd, NotSpeaking, Discard, Open
<1>5. CASE StreamIsLost
  BY <1>1, <1>5 DEF StreamIsLost, Open, Streams, engine
<1>6. CASE Stop
  BY <1>6 DEF Stop, NotSpeaking, Discard
<1>7. CASE OnSilenceTimeout
  BY <1>7 DEF OnSilenceTimeout, NotSpeaking, Open, server
<1>8. CASE OnDrainTick
  BY <1>8 DEF OnDrainTick, Open, server
<1>9. CASE SinkPlays \/ UNCHANGED vars
  BY <1>9 DEF SinkPlays, Open, vars, engine, server
<1>. QED  BY <1>2, <1>3, <1>4, <1>5, <1>6, <1>7, <1>8, <1>9 DEF Next

LEMMA NextMute ==
    ASSUME TypeOK, InterruptedIsMute, [Next]_vars
    PROVE  InterruptedIsMute'
<1>. USE DEF InterruptedIsMute, Open
<1>1. /\ stream \in 0 .. MaxStreams /\ outcome \in [Streams -> Outcome] /\ MaxStreams \in Nat
      /\ interrupted \in SUBSET Streams
  BY PlaybackAssumption DEF TypeOK
<1>2. CASE PreparePlayback
  <2>1. /\ stream' = stream + 1 /\ stream + 1 \in Streams /\ interrupted' = interrupted
        /\ \A s \in Streams: outcome'[s] = IF s = stream + 1 THEN "open" ELSE outcome[s]
    BY <1>1, <1>2 DEF PreparePlayback, Streams, history
  <2>2. \A s \in Streams: outcome'[s] = "open" => s = stream'
    BY <1>1, <1>2, <2>1 DEF PreparePlayback, Streams
  <2>3. interrupted' \subseteq 1 .. stream' /\ stream' \notin interrupted'
    <3>. SUFFICES ASSUME NEW s \in interrupted
                  PROVE  s \in 1 .. stream + 1 /\ s # stream + 1
      BY <2>1
    <3>1. s \in 1 .. stream
      OBVIOUS
    <3>. QED  BY <1>1, <3>1
  <2>. QED  BY <2>2, <2>3
<1>3. CASE HandlePcmFrame \/ OnDrainTick
  <2>1. UNCHANGED <<stream, outcome, device, interrupted>>
    BY <1>3 DEF HandlePcmFrame, OnDrainTick, server
  <2>. QED  BY <2>1 DEF Streams
<1>4. CASE HandleStreamEnd
  BY <1>1, <1>4 DEF HandleStreamEnd, NormalEnd, AbnormalEnd, Discard
<1>5. CASE StreamIsLost
  BY <1>1, <1>5 DEF StreamIsLost, engine, history
<1>6. CASE Stop
  <2>1. stream # 0 /\ interrupted' = interrupted \cup {stream} /\ ~device' /\ UNCHANGED server
    BY <1>6 DEF Stop, Discard
  <2>2. stream \in 1 .. stream /\ interrupted \cup {stream} \subseteq 1 .. stream
    BY <1>1, <2>1
  <2>. QED  BY <2>1, <2>2 DEF server
<1>7. CASE OnSilenceTimeout \/ SinkPlays \/ UNCHANGED vars
  <2>1. UNCHANGED <<stream, outcome, device, interrupted>>
    BY <1>7 DEF OnSilenceTimeout, SinkPlays, vars, engine, server, history
  <2>. QED  BY <2>1 DEF Streams
<1>. QED  BY <1>2, <1>3, <1>4, <1>5, <1>6, <1>7 DEF Next

LEMMA NextInv == IInv /\ [Next]_vars => IInv'
  BY NextType, NextTimers, NextOrder, NextFlushed, NextMute DEF IInv

LEMMA InvariantHolds == Spec => []IInv
  BY InitInv, NextInv, PTL DEF Spec

(* The engine cannot be left speaking, nor a tail be left waiting, without *)
(* the timer, the stream or the reconnect that ends it.                    *)
THEOREM TimersSafe == Spec => []TimersHeld
<1>1. IInv => TimersHeld
  BY DEF IInv
<1>. QED  BY <1>1, InvariantHolds, PTL

(* Whatever the length of frames and the size of the sink's buffer, speech *)
(* reaches the sink complete and in order, but for what was discarded.     *)
THEOREM OrderSafe == Spec => []PlayedInOrder
<1>1. IInv => PlayedInOrder
  BY DEF IInv
<1>. QED  BY <1>1, InvariantHolds, PTL

(* Nothing of a stream that ended abnormally is written after its end, and *)
(* nothing of an interrupted one before.                                   *)
THEOREM FlushSafe == Spec => SilencedStaysSilent
<1>1. IInv /\ [Next]_vars =>
          [\A i \in DOMAIN written' \ DOMAIN written: ~ Silenced(written'[i].stream)]_vars
  <2>. SUFFICES ASSUME IInv, [Next]_vars, NEW i \in DOMAIN written' \ DOMAIN written
                PROVE  ~ Silenced(written'[i].stream)
    OBVIOUS
  <2>1. outcome[written'[i].stream] # "abnormal" /\ device
    BY NextFlushed DEF IInv, FlushedStays
  <2>2. interrupted \in SUBSET Streams
    BY DEF IInv, TypeOK
  <2>3. ASSUME NEW s \in interrupted, outcome[s] = "open"
        PROVE  FALSE
    <3>1. s = stream /\ s \in Streams
      BY <2>2, <2>3 DEF IInv, InterruptedIsMute
    <3>. QED  BY <2>1, <2>3, <3>1 DEF IInv, InterruptedIsMute, Open, Streams
  <2>. QED  BY <2>1, <2>3 DEF Silenced
<1>. QED  BY <1>1, InvariantHolds, PTL DEF Spec, SilencedStaysSilent

-----------------------------------------------------------------------------
(* The engine the audio session takes it for: see SpeechEngine.            *)
THEOREM RefinesSpeechEngine == Spec => ImplementsSpeechEngine
<1>1. Init => Engine!Init
  BY DEF Init, Engine!Init, Open
<1>2. IInv /\ [Next]_vars => [Engine!Next]_(Engine!vars)
  <2>. SUFFICES ASSUME TypeOK, TimersHeld, [Next]_vars
                PROVE  [Engine!Next]_(Engine!vars)
    BY DEF IInv
  <2>. USE DEF Engine!vars, Engine!Next, Open
  <2>1. stream \in 0 .. MaxStreams /\ outcome \in [Streams -> Outcome] /\ MaxStreams \in Nat
    BY PlaybackAssumption DEF TypeOK
  <2>2. CASE PreparePlayback
    BY <2>1, <2>2 DEF PreparePlayback, TimersHeld, Streams, Engine!StreamStarts
  <2>3. CASE HandlePcmFrame
    BY <2>3 DEF HandlePcmFrame, Speak, Engine!Speaks
  <2>4. CASE HandleStreamEnd
    BY <2>1, <2>4 DEF HandleStreamEnd, NormalEnd, AbnormalEnd, NotSpeaking, Streams,
                      Engine!StreamEnds
  <2>5. CASE StreamIsLost
    BY <2>1, <2>5 DEF StreamIsLost, engine, Streams, Engine!StreamIsLost
  <2>6. CASE Stop \/ OnSilenceTimeout
    BY <2>6 DEF Stop, OnSilenceTimeout, NotSpeaking, server, Engine!FallsSilent
  <2>7. CASE OnDrainTick \/ SinkPlays \/ UNCHANGED vars
    BY <2>7 DEF OnDrainTick, SinkPlays, vars, engine, server
  <2>. QED  BY <2>2, <2>3, <2>4, <2>5, <2>6, <2>7 DEF Next
<1>. QED  BY <1>1, <1>2, InvariantHolds, PTL DEF Spec, ImplementsSpeechEngine, Engine!Spec

=============================================================================
