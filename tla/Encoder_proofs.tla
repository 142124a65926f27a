--------------------------- MODULE Encoder_proofs ---------------------------
(***************************************************************************)
(* Proofs about the transmit path for every number of sends, every set of  *)
(* waveform lengths, every queue limit, channel count and buffer size.     *)
(***************************************************************************)
EXTENDS Encoder, SequenceTheorems, TLAPS

\* What the two threads know at each of their program points: the pieces the
\* named invariants lack to be inductive.
Positions ==
    /\ sender = "render" => out \in Wave
    /\ audio = "copy" => out_queue # <<>> /\ p = Head(out_queue)
    /\ out_queue = <<>> => out_ptr = 0
    /\ out_queue # <<>> => out_ptr <= Head(out_queue).size
    /\ audio = "fill" /\ Len(buffer) < BufSize => out_ptr = 0
    /\ Channels = 0 => out_ptr = 0 /\ audio \notin {"front", "copy"}

IInv == /\ TypeOK
        /\ Positions
        /\ BacklogBound
        /\ ResumedWaveIsKeyed
        /\ NotKeyedForNothing

USE EncoderAssumption DEF EncoderAssumption

\* A waveform has at least one sample.
LEMMA WaveSize == \A w \in Wave : w.size \in Nat \ {0}
  BY DEF Wave

\* A sequence that repeats one element.
LEMMA ConstSeq ==
  ASSUME NEW S, NEW x \in S, NEW n \in Nat
  PROVE  /\ [i \in 1..n |-> x] \in Seq(S)
         /\ Len([i \in 1..n |-> x]) = n
<1> DEFINE f == [i \in 1..n |-> x]
<1>1. f \in [1..n -> S]
  OBVIOUS
<1>2. f \in Seq(S) /\ Len(f) = n
  BY <1>1
<1> QED
  BY <1>2

\* The initial state satisfies the inductive invariant.
LEMMA InitInv == Init => IInv
<1> SUFFICES ASSUME Init PROVE IInv
  OBVIOUS
<1>1. /\ out_queue \in Seq(Wave) /\ Len(out_queue) = 0
      /\ buffer \in Seq(Cell) /\ Len(buffer) = 0
  BY EmptySeq DEF Init
<1>2. line \in Cell
  BY DEF Init, Silence, Cell
<1>3. TypeOK
  <2>1. sent \in 0..MaxSends /\ out_ptr \in Nat
    BY DEF Init
  <2> QED
    BY <1>1, <1>2, <2>1, Zenon DEF Init, TypeOK
<1>4. Positions
  BY DEF Init, Positions
<1>5. BacklogBound /\ ResumedWaveIsKeyed /\ NotKeyedForNothing
  BY <1>1 DEF Init, BacklogBound, ResumedWaveIsKeyed, NotKeyedForNothing
<1> QED
  BY <1>3, <1>4, <1>5 DEF IInv

\* Every step preserves the types.
LEMMA NextType == TypeOK /\ Positions /\ [Next]_vars => TypeOK'
<1> SUFFICES ASSUME TypeOK, Positions, [Next]_vars PROVE TypeOK'
  OBVIOUS
<1> USE DEF TypeOK, sendVars, audioVars
<1>1. CASE SendDrop
  BY <1>1 DEF SendDrop
<1>2. CASE SendRender
  BY <1>2 DEF SendRender, Wave
<1>3. CASE SendPush
  BY <1>3 DEF SendPush, Positions
<1>4. CASE CallbackEnter
  BY <1>4 DEF CallbackEnter, KeyedOnEntry
<1>5. CASE CallbackFront
  BY <1>5 DEF CallbackFront
<1>6. CASE CallbackLeaveLoop
  BY <1>6 DEF CallbackLeaveLoop
<1>7. CASE CallbackCopy
  <2>1. p \in Wave
    BY <1>7 DEF CallbackCopy, Positions
  <2>2. line' \in Cell
    BY <1>7, <2>1 DEF CallbackCopy, Wave, Cell
  <2>3. [c \in 1..Channels |-> line'] \in Seq(Cell)
    BY <2>2, ConstSeq
  <2> QED
    BY <1>7, <2>2, <2>3 DEF CallbackCopy
<1>8. CASE CallbackPop
  <2>1. Tail(out_queue) \in Seq(Wave)
    BY <1>8, HeadTailProperties DEF CallbackPop, Positions
  <2> QED
    BY <1>8, <2>1 DEF CallbackPop
<1>9. CASE CallbackFill
  <2> DEFINE pad == [j \in 1..(BufSize - Len(buffer)) |-> Silence]
  <2>1. Silence \in Cell
    BY DEF Silence, Cell
  <2>2. CASE Len(buffer) < BufSize
    <3>1. BufSize - Len(buffer) \in Nat
      BY <2>2
    <3>2. pad \in Seq(Cell)
      BY <2>1, <3>1, ConstSeq
    <3>3. buffer' = buffer \o pad /\ line' = Silence
      BY <1>9, <2>2 DEF CallbackFill
    <3> HIDE DEF pad
    <3>4. buffer' \in Seq(Cell)
      BY <3>2, <3>3, ConcatProperties
    <3> QED
      BY <1>9, <2>1, <3>3, <3>4 DEF CallbackFill
  <2> QED
    BY <1>9, <2>2 DEF CallbackFill
<1>10. CASE CallbackReturn
  BY <1>10 DEF CallbackReturn, KeyedOnReturn
<1>11. CASE UNCHANGED vars
  BY <1>11 DEF vars
<1> QED
  BY <1>1, <1>2, <1>3, <1>4, <1>5, <1>6, <1>7, <1>8, <1>9, <1>10, <1>11
     DEF Next, Send, OutputCallback

\* Every step preserves what the program points know.
LEMMA NextPositions == TypeOK /\ Positions /\ [Next]_vars => Positions'
<1> SUFFICES ASSUME TypeOK, Positions, [Next]_vars PROVE Positions'
  OBVIOUS
<1> USE DEF TypeOK, Positions, sendVars, audioVars
<1>1. CASE SendDrop
  BY <1>1 DEF SendDrop
<1>2. CASE SendRender
  BY <1>2 DEF SendRender, Wave
<1>3. CASE SendPush
  <2>1. out_queue' # <<>>
    BY <1>3 DEF SendPush
  <2>2. CASE out_queue = <<>>
    BY <1>3, <2>1, <2>2, WaveSize DEF SendPush
  <2>3. CASE out_queue # <<>>
    BY <1>3, <2>1, <2>3 DEF SendPush
  <2> QED
    BY <2>2, <2>3
<1>4. CASE CallbackEnter
  BY <1>4 DEF CallbackEnter
<1>5. CASE CallbackFront
  BY <1>5 DEF CallbackFront
<1>6. CASE CallbackLeaveLoop
  BY <1>6 DEF CallbackLeaveLoop
<1>7. CASE CallbackCopy
  BY <1>7, WaveSize DEF CallbackCopy, CopyRoom
<1>8. CASE CallbackPop
  <2>1. out_queue # <<>> /\ Tail(out_queue) \in Seq(Wave)
    BY <1>8 DEF CallbackPop
  <2>2. out_queue' # <<>> => Head(out_queue').size \in Nat
    BY <1>8, <2>1, WaveSize DEF CallbackPop
  <2> QED
    BY <1>8, <2>1, <2>2 DEF CallbackPop
<1>9. CASE CallbackFill
  BY <1>9 DEF CallbackFill
<1>10. CASE CallbackReturn
  BY <1>10 DEF CallbackReturn
<1>11. CASE UNCHANGED vars
  BY <1>11 DEF vars
<1> QED
  BY <1>1, <1>2, <1>3, <1>4, <1>5, <1>6, <1>7, <1>8, <1>9, <1>10, <1>11
     DEF Next, Send, OutputCallback

\* Every step preserves the bound of the queue and the two PTT invariants.
LEMMA NextSafe == IInv /\ [Next]_vars
                    => BacklogBound' /\ ResumedWaveIsKeyed' /\ NotKeyedForNothing'
<1> SUFFICES ASSUME IInv, [Next]_vars
             PROVE  BacklogBound' /\ ResumedWaveIsKeyed' /\ NotKeyedForNothing'
  OBVIOUS
<1> USE DEF IInv, TypeOK, BacklogBound, ResumedWaveIsKeyed, NotKeyedForNothing,
            sendVars, audioVars
<1>1. CASE SendDrop
  BY <1>1 DEF SendDrop
<1>2. CASE SendRender
  BY <1>2 DEF SendRender, QueueIsShort
<1>3. CASE SendPush
  BY <1>3 DEF SendPush, Positions
<1>4. CASE CallbackEnter
  <2>1. Len(buffer') = 0
    BY <1>4 DEF CallbackEnter
  <2>2. out_ptr * Channels > 0 => out_queue # <<>>
    BY DEF Positions
  <2> QED
    BY <1>4, <2>1, <2>2 DEF CallbackEnter, KeyedOnEntry
<1>5. CASE CallbackFront
  BY <1>5 DEF CallbackFront
<1>6. CASE CallbackLeaveLoop
  BY <1>6 DEF CallbackLeaveLoop
<1>7. CASE CallbackCopy
  <2>1. line' \in Cell
    BY <1>7, NextType DEF IInv
  <2>2. Len(buffer') = Len(buffer) + Channels
    BY <1>7, <2>1, ConstSeq, ConcatProperties DEF CallbackCopy
  <2>3. out_ptr' * Channels = out_ptr * Channels + Channels
    BY <1>7 DEF CallbackCopy
  <2> QED
    BY <1>7, <2>2, <2>3 DEF CallbackCopy
<1>8. CASE CallbackPop
  <2>1. CASE out_ptr = p.size
    <3>1. out_queue # <<>>
      BY <1>8 DEF CallbackPop, Positions
    <3>2. Len(out_queue') = Len(out_queue) - 1
      BY <1>8, <2>1, <3>1 DEF CallbackPop, Finished
    <3>3. out_ptr' * Channels = 0
      BY <1>8, <2>1 DEF CallbackPop, Finished
    <3> QED
      BY <1>8, <3>2, <3>3 DEF CallbackPop
  <2>2. CASE out_ptr # p.size
    BY <1>8, <2>2 DEF CallbackPop, Finished
  <2> QED
    BY <2>1, <2>2
<1>9. CASE CallbackFill
  <2>1. Len(buffer') >= Len(buffer)
    <3>1. CASE Len(buffer) < BufSize
      <4>1. Silence \in Cell
        BY DEF Silence, Cell
      <4> QED
        BY <1>9, <3>1, <4>1, ConstSeq, ConcatProperties DEF CallbackFill
    <3> QED
      BY <1>9, <3>1 DEF CallbackFill
  <2>2. buffer' \in Seq(Cell)
    BY <1>9, NextType DEF IInv
  <2>3. /\ out_ptr' = out_ptr /\ keyed' = keyed /\ audio' = "unkey"
        /\ UNCHANGED <<out_queue, sender>> /\ audio = "fill"
    BY <1>9 DEF CallbackFill
  <2>4. Len(buffer') \in Nat /\ Len(buffer) \in Nat /\ out_ptr * Channels \in Nat
    BY <2>2
  <2> QED
    BY <2>1, <2>3, <2>4
<1>10. CASE CallbackReturn
  BY <1>10 DEF CallbackReturn, KeyedOnReturn
<1>11. CASE UNCHANGED vars
  BY <1>11 DEF vars
<1> QED
  BY <1>1, <1>2, <1>3, <1>4, <1>5, <1>6, <1>7, <1>8, <1>9, <1>10, <1>11
     DEF Next, Send, OutputCallback

\* The types, the bound of the queue (never more than MaxQueue + 1 waveforms),
\* the key held through every waveform and released when nothing waits.
THEOREM EncoderInvariant == Spec => []IInv
<1>1. IInv /\ [Next]_vars => IInv'
  BY NextType, NextPositions, NextSafe DEF IInv
<1> QED
  BY InitInv, <1>1, PTL DEF Spec

\* Every variable of the encoder keeps its type.
THEOREM TypeCorrect == Spec => []TypeOK
  BY EncoderInvariant, PTL DEF IInv

\* The queue of waveforms is bounded although send() checks and appends in
\* two critical sections.
THEOREM BacklogBounded == Spec => []BacklogBound
  BY EncoderInvariant, PTL DEF IInv

\* A waveform under way is continued with the transmitter keyed.
THEOREM ResumedKeyed == Spec => []ResumedWaveIsKeyed
  BY EncoderInvariant, PTL DEF IInv

\* Between callbacks the transmitter is keyed only for a waiting waveform.
THEOREM KeyedForTraffic == Spec => []NotKeyedForNothing
  BY EncoderInvariant, PTL DEF IInv
-----------------------------------------------------------------------------
(* The copy loop stays inside the buffer: in the loop the elements written *)
(* are a whole number of frames of all channels.                           *)

WholeFrames ==
    audio \in {"front", "copy"} => \E q \in Nat : Len(buffer) = q * Channels

OInv == NoOverrun /\ WholeFrames

\* If fewer than m frames are written, there is room for one frame.
LEMMA RoomForFrame ==
  ASSUME NEW c \in Nat, NEW q \in Nat, NEW m \in Nat, q * c < m * c
  PROVE  q * c + c <= m * c
<1>1. q < m
  BY Z3
<1>2. PICK d \in Nat : m = q + 1 + d
  <2>1. m - q - 1 \in Nat /\ m = q + 1 + (m - q - 1)
    BY <1>1
  <2> QED
    BY <2>1
<1>3. m * c = q * c + c + d * c
  BY <1>2
<1>4. d * c >= 0 /\ d * c \in Nat /\ q * c \in Nat
  OBVIOUS
<1> QED
  BY <1>3, <1>4

\* The empty buffer is not overrun.
LEMMA InitO == Init => OInv
<1> SUFFICES ASSUME Init PROVE OInv
  OBVIOUS
<1>1. Len(buffer) = 0 /\ audio = "idle"
  BY EmptySeq DEF Init
<1>2. BufSize + Channels - 1 >= 0 \/ Channels = 0
  OBVIOUS
<1> QED
  BY <1>1, <1>2 DEF OInv, NoOverrun, WholeFrames

\* Every step keeps the buffer from being overrun.
LEMMA NextO == IInv /\ OInv /\ [Next]_vars => OInv'
<1> SUFFICES ASSUME IInv, OInv, [Next]_vars PROVE OInv'
  OBVIOUS
<1>t. buffer \in Seq(Cell) /\ Len(buffer) \in Nat
  BY DEF IInv, TypeOK
<1>1. CASE CallbackEnter
  <2>1. Len(buffer') = 0
    BY <1>1, EmptySeq DEF CallbackEnter
  <2>2. 0 * Channels = 0
    OBVIOUS
  <2>3. WholeFrames'
    BY <2>1, <2>2 DEF WholeFrames
  <2> QED
    BY <2>1, <2>3 DEF OInv, NoOverrun
<1>2. CASE CallbackCopy
  <2>1. line' \in Cell
    BY <1>2, NextType DEF IInv, TypeOK
  <2>2. Len(buffer') = Len(buffer) + Channels
    BY <1>2, <1>t, <2>1, ConstSeq, ConcatProperties DEF CallbackCopy
  <2>3. Len(buffer) < BufSize /\ audio = "copy" /\ audio' = "copy"
    BY <1>2 DEF CallbackCopy, CopyRoom
  <2>4. Channels >= 1
    BY <2>3 DEF IInv, Positions
  <2>5. PICK q \in Nat : Len(buffer) = q * Channels
    BY <2>3 DEF OInv, WholeFrames
  <2>6. Len(buffer') = (q + 1) * Channels
    BY <2>2, <2>5
  <2>7. WholeFrames'
    BY <2>6 DEF WholeFrames
  <2>8. ASSUME BufSize % Channels = 0 PROVE Len(buffer') <= BufSize
    <3>1. BufSize \div Channels \in Nat /\ BufSize = (BufSize \div Channels) * Channels
      BY <2>4, <2>8
    <3> QED
      BY <2>2, <2>3, <2>5, <3>1, RoomForFrame
  <2> QED
    BY <1>t, <2>2, <2>3, <2>4, <2>7, <2>8 DEF OInv, NoOverrun
<1>3. CASE CallbackFill
  <2>1. CASE Len(buffer) < BufSize
    <3> DEFINE pad == [j \in 1..(BufSize - Len(buffer)) |-> Silence]
    <3>1. BufSize - Len(buffer) \in Nat /\ Silence \in Cell
      BY <1>t, <2>1 DEF Silence, Cell
    <3>2. pad \in Seq(Cell) /\ Len(pad) = BufSize - Len(buffer)
      BY <3>1, ConstSeq
    <3>3. buffer' = buffer \o pad
      BY <1>3, <2>1 DEF CallbackFill
    <3> HIDE DEF pad
    <3>4. Len(buffer') = BufSize
      BY <1>t, <3>2, <3>3, ConcatProperties
    <3> QED
      BY <1>3, <3>4 DEF CallbackFill, OInv, NoOverrun, WholeFrames
  <2> QED
    BY <1>3, <2>1 DEF CallbackFill, OInv, NoOverrun, WholeFrames
<1>4. CASE SendDrop \/ SendRender \/ SendPush
  BY <1>4 DEF SendDrop, SendRender, SendPush, audioVars, OInv, NoOverrun, WholeFrames
<1>5. CASE CallbackFront \/ CallbackLeaveLoop \/ CallbackPop \/ CallbackReturn
  BY <1>5 DEF CallbackFront, CallbackLeaveLoop, CallbackPop, CallbackReturn,
              OInv, NoOverrun, WholeFrames
<1>6. CASE UNCHANGED vars
  BY <1>6 DEF vars, OInv, NoOverrun, WholeFrames
<1> QED
  BY <1>1, <1>2, <1>3, <1>4, <1>5, <1>6 DEF Next, Send, OutputCallback

\* output_callback() never writes past a buffer of whole frames, and at most
\* one frame less an element past any other.
THEOREM BufferNotOverrun == Spec => []NoOverrun
<1>1. OInv => NoOverrun
  BY DEF OInv
<1> QED
  BY InitInv, InitO, NextO, EncoderInvariant, <1>1, PTL DEF Spec
-----------------------------------------------------------------------------
(* The encoder implements Transmitter.                                     *)

\* Every step is one of the transmitter, or leaves what it shows as it is.
LEMMA StepRefines ==
  ASSUME IInv, IInv', [Next]_vars
  PROVE  [Transmit!TNext]_(Transmit!tvars)
<1> USE DEF Transmit!TNext, Transmit!tvars
<1>t. out_queue \in Seq(Wave) /\ out_ptr \in Nat
  BY DEF IInv, TypeOK
<1>1. CASE SendPush
  <2>1. Len(out_queue) <= MaxQueue
    BY <1>1, <1>t DEF SendPush, IInv, BacklogBound
  <2>2. out \in Wave
    BY <1>1 DEF SendPush, IInv, Positions
  <2> QED
    BY <1>1, <2>1, <2>2 DEF SendPush, audioVars, Transmit!Accept
<1>2. CASE CallbackCopy
  <2>1. out_queue # <<>> /\ p = Head(out_queue)
    BY <1>2 DEF CallbackCopy, IInv, Positions
  <2> QED
    BY <1>2, <2>1 DEF CallbackCopy, CopyRoom, Transmit!Sound
<1>3. CASE CallbackPop
  <2>1. out_queue # <<>> /\ p = Head(out_queue)
    BY <1>3 DEF CallbackPop, IInv, Positions
  <2> QED
    BY <1>3, <2>1 DEF CallbackPop, Transmit!Retire, Finished
<1>4. CASE CallbackFill
  BY <1>4 DEF CallbackFill, IInv, Positions, Transmit!Quiet, Silence, Transmit!Silence
<1>5. CASE SendDrop \/ SendRender
  BY <1>5 DEF SendDrop, SendRender, audioVars
<1>6. CASE \/ CallbackEnter \/ CallbackFront \/ CallbackLeaveLoop \/ CallbackReturn
  BY <1>6 DEF CallbackEnter, CallbackFront, CallbackLeaveLoop, CallbackReturn
<1>7. CASE UNCHANGED vars
  BY <1>7 DEF vars
<1> QED
  BY <1>1, <1>2, <1>3, <1>4, <1>5, <1>6, <1>7 DEF Next, Send, OutputCallback

\* Every behaviour of the two threads is one of the transmitter's promise:
\* accepted frames leave in order, complete, and without a gap inside.
THEOREM EncoderImplementsTransmitter == Spec => TransmitSpec
<1>1. Init => Transmit!TInit
  BY DEF Init, Transmit!TInit, Silence, Transmit!Silence
<1>2. IInv /\ IInv' /\ [Next]_vars => [Transmit!TNext]_(Transmit!tvars)
  BY StepRefines
<1> QED
  BY EncoderInvariant, <1>1, <1>2, PTL DEF Spec, TransmitSpec, Transmit!TSpec
=============================================================================
