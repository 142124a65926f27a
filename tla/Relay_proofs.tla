---------------------------- MODULE Relay_proofs ----------------------------
(***************************************************************************)
(* Proofs about the relay for every number of decoders, whichever of them  *)
(* lag behind, every set of CRCs and of clients, and any number of         *)
(* transmissions in a behaviour or in one buffer.                          *)
(***************************************************************************)
EXTENDS Relay, SequenceTheorems, TLAPS

\* The numbers from a + 1 to a + n.
Segment(a, n) == [i \in 1..n |-> a + i]

\* The queue holds the packets behind those that were written, in order.
QueueIsRest == /\ flushed \in Nat
               /\ output_queue = Segment(flushed, Len(output_queue))

\* A client has seen nothing while it is away, and came not later than now.
JoinedBefore == \A c \in Clients : /\ joined[c] <= flushed
                                   /\ c \notin subscribed => stream[c] = <<>>

\* The remembered CRC is that of the last packet dispatched.
RemembersLast == last_crc = IF log = <<>> THEN 0 ELSE air[log[Len(log)]]

\* If no decoder ever had two transmissions to judge, all that wait to be judged
\* are the last one.
AllJudgeTheLast ==
    ~overlapped => \A d \in 1..NumDecoders :
                      to_decode[d] = <<>> \/ to_decode[d] = <<Len(air)>>

AirBound == Len(air) <= MaxAir

IInv == /\ TypeOK
        /\ AirBound
        /\ QueueIsRest
        /\ JoinedBefore
        /\ NothingStranded
        /\ KissStreamIsSegment
        /\ RemembersLast
        /\ HeardIsDispatched
        /\ AllJudgeTheLast
        /\ RelayedOnce

USE RelayAssumption DEF RelayAssumption
-----------------------------------------------------------------------------
(* Segments of the natural numbers.                                        *)

LEMMA SegmentIsSeq ==
  ASSUME NEW a \in Nat, NEW n \in Nat
  PROVE  /\ Segment(a, n) \in Seq(1..(a + n)) /\ Segment(a, n) \in Seq(Nat)
         /\ Len(Segment(a, n)) = n
         /\ \A i \in 1..n : Segment(a, n)[i] = a + i
<1>1. Segment(a, n) \in [1..n -> 1..(a + n)]
  BY DEF Segment
<1>2. Segment(a, n) \in Seq(1..(a + n)) /\ Len(Segment(a, n)) = n
  BY <1>1
<1>3. Segment(a, n) \in [1..n -> Nat]
  BY DEF Segment
<1>4. Segment(a, n) \in Seq(Nat)
  BY <1>3
<1> QED
  BY <1>2, <1>4 DEF Segment

\* Two segments that meet.
LEMMA SegmentConcat ==
  ASSUME NEW a \in Nat, NEW m \in Nat, NEW n \in Nat
  PROVE  Segment(a, m) \o Segment(a + m, n) = Segment(a, m + n)
<1> DEFINE p == Segment(a, m)
           q == Segment(a + m, n)
           r == Segment(a, m + n)
<1>1. /\ p \in Seq(Nat) /\ Len(p) = m /\ \A i \in 1..m : p[i] = a + i
      /\ q \in Seq(Nat) /\ Len(q) = n /\ \A i \in 1..n : q[i] = a + m + i
      /\ r \in Seq(Nat) /\ Len(r) = m + n /\ \A i \in 1..(m + n) : r[i] = a + i
  <2>1. m + n \in Nat /\ a + m \in Nat
    OBVIOUS
  <2> QED
    BY <2>1, SegmentIsSeq
<1> HIDE DEF p, q, r
<1>c. /\ p \o q \in Seq(Nat) /\ Len(p \o q) = Len(p) + Len(q)
      /\ \A i \in 1..Len(p) + Len(q) : (p \o q)[i] = IF i <= Len(p) THEN p[i] ELSE q[i - Len(p)]
  <2>1. p \in Seq(Nat) /\ q \in Seq(Nat)
    BY <1>1
  <2> QED
    BY <2>1, ConcatProperties
<1>2. p \o q \in Seq(Nat) /\ Len(p \o q) = m + n
  BY <1>1, <1>c
<1>3. \A i \in 1..(m + n) : (p \o q)[i] = IF i <= m THEN p[i] ELSE q[i - m]
  <2>1. Len(p) = m /\ Len(q) = n
    BY <1>1
  <2> QED
    BY <1>c, <2>1
<1>4. \A i \in 1..(m + n) : (p \o q)[i] = r[i]
  <2> SUFFICES ASSUME NEW i \in 1..(m + n) PROVE (p \o q)[i] = r[i]
    OBVIOUS
  <2>1. CASE i <= m
    BY <1>1, <1>3, <2>1
  <2>2. CASE ~(i <= m)
    <3>1. i - m \in 1..n
      BY <2>2
    <3>2. q[i - m] = a + m + (i - m)
      BY <1>1, <3>1
    <3>3. (p \o q)[i] = q[i - m]
      BY <1>3, <2>2, Zenon
    <3>4. r[i] = a + i
      BY <1>1
    <3>5. a + m + (i - m) = a + i
      OBVIOUS
    <3> QED
      BY <3>2, <3>3, <3>4, <3>5, Zenon
  <2> QED
    BY <2>1, <2>2
<1>5. p \o q = r
  BY <1>1, <1>2, <1>4, SeqEqual
<1> QED
  BY <1>5 DEF p, q, r

\* The next number behind a segment.
LEMMA SegmentAppend ==
  ASSUME NEW a \in Nat, NEW n \in Nat
  PROVE  Append(Segment(a, n), a + n + 1) = Segment(a, n + 1)
<1> DEFINE p == Segment(a, n)
           r == Segment(a, n + 1)
<1>1. /\ p \in Seq(Nat) /\ Len(p) = n /\ \A i \in 1..n : p[i] = a + i
      /\ r \in Seq(Nat) /\ Len(r) = n + 1 /\ \A i \in 1..(n + 1) : r[i] = a + i
  BY SegmentIsSeq
<1> HIDE DEF p, r
<1>2. /\ Append(p, a + n + 1) \in Seq(Nat) /\ Len(Append(p, a + n + 1)) = n + 1
      /\ \A i \in 1..n : Append(p, a + n + 1)[i] = p[i]
      /\ Append(p, a + n + 1)[n + 1] = a + n + 1
  BY <1>1, AppendProperties
<1>3. \A i \in 1..(n + 1) : Append(p, a + n + 1)[i] = r[i]
  BY <1>1, <1>2
<1>4. Append(p, a + n + 1) = r
  BY <1>1, <1>2, <1>3, SeqEqual
<1> QED
  BY <1>4 DEF p, r
-----------------------------------------------------------------------------
\* What TypeOK says of the sequences, and that their lengths are numbers.
LEMMA TypeParts ==
  TypeOK => /\ air \in Seq(Crcs) /\ Len(air) \in Nat
            /\ log \in Seq(1..Len(air)) /\ Len(log) \in Nat
            /\ output_queue \in Seq(1..Len(log)) /\ Len(output_queue) \in Nat
            /\ to_decode \in [1..NumDecoders -> Seq(1..Len(air))]
            /\ stream \in [Clients -> Seq(1..Len(log))]
            /\ joined \in [Clients -> 0..Len(log)]
  BY DEF TypeOK

\* The initial state satisfies the inductive invariant.
LEMMA InitInv == Init => IInv
<1> SUFFICES ASSUME Init PROVE IInv
  OBVIOUS
<1> USE DEF Init
<1>1. \A S : <<>> \in Seq(S)
  BY EmptySeq
<1>2. Len(air) = 0 /\ Len(log) = 0 /\ Len(output_queue) = 0 /\ flushed = 0
  BY DEF flushed
<1>3. TypeOK
  <2>1. /\ air \in Seq(Crcs) /\ log \in Seq(1..Len(air))
        /\ output_queue \in Seq(1..Len(log))
    BY <1>1
  <2>2. /\ to_decode \in [1..NumDecoders -> Seq(1..Len(air))]
        /\ stream \in [Clients -> Seq(1..Len(log))]
    BY <1>1
  <2>3. joined \in [Clients -> 0..Len(log)] /\ decoder \in 1..(NumDecoders + 1)
    BY <1>2
  <2> QED
    BY <2>1, <2>2, <2>3 DEF TypeOK
<1>4. AirBound /\ JoinedBefore /\ NothingStranded /\ RemembersLast
  BY <1>2 DEF AirBound, JoinedBefore, NothingStranded, RemembersLast
<1>5. QueueIsRest
  BY <1>2 DEF QueueIsRest, Segment
<1>6. KissStreamIsSegment /\ HeardIsDispatched /\ AllJudgeTheLast
  BY DEF KissStreamIsSegment, HeardIsDispatched, AllJudgeTheLast
<1>7. RelayedOnce
  BY <1>2 DEF RelayedOnce
<1> QED
  BY <1>3, <1>4, <1>5, <1>6, <1>7 DEF IInv
-----------------------------------------------------------------------------
(* What the steps of the audio thread do.                                  *)

\* A callback appends to the air and hands the same to each decoder.
Received(n) ==
    /\ air' \in Seq(Crcs) /\ Len(air') = Len(air) + n /\ Len(air') <= MaxAir
    /\ \A i \in 1..Len(air) : air'[i] = air[i]
    /\ to_decode' = [d \in 1..NumDecoders |-> to_decode[d] \o Segment(Len(air), n)]
    /\ overlapped' = (overlapped \/ \E d \in 1..NumDecoders : Len(to_decode'[d]) > 1)

\* What an input callback hears, any number of frames, goes on the air and to every decoder.
LEMMA InputEffect ==
  ASSUME TypeOK, InputCallback
  PROVE  \E n \in Nat : Received(n)
<1>p. PICK n \in 0..MaxBatch : \E crcs \in [1..n -> Crcs] :
         /\ Len(air) + n <= MaxAir
         /\ air' = air \o crcs
         /\ to_decode' = [d \in 1..NumDecoders |->
                            to_decode[d] \o [i \in 1..n |-> Len(air) + i]]
         /\ overlapped' = (overlapped \/ \E d \in 1..NumDecoders : Len(to_decode'[d]) > 1)
  BY DEF InputCallback
<1>1. PICK crcs \in [1..n -> Crcs] :
         /\ Len(air) + n <= MaxAir
         /\ air' = air \o crcs
         /\ to_decode' = [d \in 1..NumDecoders |->
                            to_decode[d] \o [i \in 1..n |-> Len(air) + i]]
         /\ overlapped' = (overlapped \/ \E d \in 1..NumDecoders : Len(to_decode'[d]) > 1)
  BY <1>p
<1>2. n \in Nat /\ crcs \in Seq(Crcs) /\ Len(crcs) = n
  <2>1. n \in Nat
    OBVIOUS
  <2> QED
    BY <2>1
<1>3. air \in Seq(Crcs) /\ Len(air) \in Nat
  BY TypeParts
<1>4. /\ air \o crcs \in Seq(Crcs) /\ Len(air \o crcs) = Len(air) + n
      /\ \A i \in 1..(Len(air) + n) : i <= Len(air) => (air \o crcs)[i] = air[i]
  BY <1>2, <1>3, ConcatProperties
<1>5. \A i \in 1..Len(air) : (air \o crcs)[i] = air[i]
  BY <1>2, <1>3, <1>4
<1>6. Received(n)
  BY <1>1, <1>2, <1>4, <1>5, Zenon DEF Received, Segment
<1> QED
  BY <1>2, <1>6

\* The transmission a decoder is about to judge.
LEMMA AtPacketKnows ==
  ASSUME TypeOK, AtPacket
  PROVE  /\ decoder \in 1..NumDecoders
         /\ Head(to_decode[decoder]) \in 1..Len(air)
         /\ air[Head(to_decode[decoder])] \in Crcs
         /\ Tail(to_decode[decoder]) \in Seq(1..Len(air))
<1> DEFINE q == to_decode[decoder]
<1>1. decoder \in 1..NumDecoders
  BY DEF TypeOK, AtPacket
<1>2. q \in Seq(1..Len(air)) /\ q # <<>>
  BY <1>1, TypeParts DEF AtPacket
<1> HIDE DEF q
<1>3. Head(q) \in 1..Len(air) /\ Tail(q) \in Seq(1..Len(air))
  BY <1>2, HeadTailProperties
<1>4. air[Head(q)] \in Crcs
  BY <1>3, TypeParts, ElementOfSeq
<1> QED
  BY <1>1, <1>3, <1>4 DEF q

\* Every step preserves the types.
LEMMA NextType == TypeOK /\ AirBound /\ QueueIsRest /\ [Next]_vars => TypeOK' /\ AirBound'
<1> SUFFICES ASSUME TypeOK, AirBound, QueueIsRest, [Next]_vars PROVE TypeOK' /\ AirBound'
  OBVIOUS
<1> USE DEF AirBound
<1>1. CASE InputCallback
  <2>1. PICK n \in Nat : Received(n)
    BY <1>1, InputEffect
  <2>2. /\ air' \in Seq(Crcs) /\ Len(air) \in Nat /\ Len(air') \in Nat
        /\ 1..Len(air) \subseteq 1..Len(air')
    BY <2>1, TypeParts DEF Received
  <2>3. \A q \in Seq(1..Len(air)) : q \in Seq(1..Len(air'))
    BY <2>2, SeqMonotonic
  <2>4. to_decode' \in [1..NumDecoders -> Seq(1..Len(air'))]
    <3>1. Segment(Len(air), n) \in Seq(1..Len(air'))
      BY <2>1, <2>2, SegmentIsSeq DEF Received
    <3>2. ASSUME NEW d \in 1..NumDecoders
          PROVE  to_decode[d] \o Segment(Len(air), n) \in Seq(1..Len(air'))
      <4>1. to_decode[d] \in Seq(1..Len(air'))
        BY <2>3, TypeParts
      <4> QED
        BY <3>1, <4>1, ConcatProperties
    <3> QED
      BY <2>1, <3>2 DEF Received
  <2>5. log' \in Seq(1..Len(air')) /\ heard' \subseteq 1..Len(air')
    BY <1>1, <2>2, <2>3, TypeParts DEF InputCallback, relay, TypeOK
  <2>6. overlapped' \in BOOLEAN
    BY <2>1 DEF Received, TypeOK
  <2>7. decoder' \in 1..(NumDecoders + 1) /\ audio' = "decode"
    BY <1>1 DEF InputCallback
  <2>8. UNCHANGED <<last_crc, output_queue, log, posted, running, subscribed, raw, joined, stream>>
    BY <1>1 DEF InputCallback, relay, network
  <2> QED
    BY <2>1, <2>2, <2>4, <2>5, <2>6, <2>7, <2>8, Zenon DEF TypeOK, Received
<1>2. CASE Miss \/ Suppress
  <2>1. AtPacket /\ to_decode' = [to_decode EXCEPT ![decoder] = Tail(to_decode[decoder])]
    BY <1>2 DEF Miss, Suppress, DropSamples
  <2>2. to_decode' \in [1..NumDecoders -> Seq(1..Len(air))]
    BY <2>1, AtPacketKnows, TypeParts
  <2>3. heard' \subseteq 1..Len(air)
    BY <1>2, <2>1, AtPacketKnows DEF Miss, Suppress, TypeOK
  <2>4. UNCHANGED <<air, overlapped, decoder, last_crc, audio, relay, network>>
    BY <1>2 DEF Miss, Suppress
  <2> QED
    BY <2>2, <2>3, <2>4 DEF TypeOK, relay, network
<1>3. CASE Dispatch
  <2> DEFINE t == Head(to_decode[decoder])
  <2>1. /\ AtPacket /\ to_decode' = [to_decode EXCEPT ![decoder] = Tail(to_decode[decoder])]
        /\ last_crc' = air[t] /\ heard' = heard \cup {t} /\ log' = Append(log, t)
        /\ output_queue' = Append(output_queue, Len(log) + 1) /\ audio' = "post"
        /\ UNCHANGED <<air, overlapped, decoder, posted, network>>
    BY <1>3 DEF Dispatch, DropSamples
  <2>2. t \in 1..Len(air) /\ air[t] \in Nat
    BY <2>1, AtPacketKnows
  <2>3. to_decode' \in [1..NumDecoders -> Seq(1..Len(air))]
    BY <2>1, AtPacketKnows, TypeParts
  <2> HIDE DEF t
  <2>4. log' \in Seq(1..Len(air)) /\ Len(log') = Len(log) + 1 /\ Len(log) \in Nat
    BY <2>1, <2>2, TypeParts, AppendProperties
  <2>5. 1..Len(log) \subseteq 1..Len(log') /\ 0..Len(log) \subseteq 0..Len(log')
        /\ Len(log) + 1 \in 1..Len(log')
    BY <2>4
  <2>6. \A q \in Seq(1..Len(log)) : q \in Seq(1..Len(log'))
    BY <2>5, SeqMonotonic
  <2>7. output_queue' \in Seq(1..Len(log'))
    BY <2>1, <2>5, <2>6, TypeParts, AppendProperties
  <2>8. stream' \in [Clients -> Seq(1..Len(log'))] /\ joined' \in [Clients -> 0..Len(log')]
    BY <2>1, <2>5, <2>6, TypeParts DEF network
  <2> QED
    BY <2>1, <2>2, <2>3, <2>4, <2>7, <2>8 DEF TypeOK, network
<1>4. CASE PostFlush \/ NextDecoder \/ CallbackReturns \/ Run
  <2>1. CASE PostFlush
    BY <2>1 DEF TypeOK, PostFlush, radio, network
  <2>2. CASE NextDecoder
    BY <2>2 DEF TypeOK, NextDecoder, relay, network
  <2>3. CASE CallbackReturns \/ Run
    BY <2>3 DEF TypeOK, CallbackReturns, Run, radio, relay, network
  <2> QED
    BY <1>4, <2>1, <2>2, <2>3
<1>5. CASE Flush
  <2>1. /\ output_queue' = <<>> /\ log' = log /\ posted' = posted - 1 /\ posted > 0
        /\ stream' = [c \in Clients |->
               IF Receives(c) THEN stream[c] \o output_queue ELSE stream[c]]
        /\ UNCHANGED <<radio, audio, running, subscribed, raw, joined>>
    BY <1>5 DEF Flush, FlushDue, PopAll
  <2>2. ASSUME NEW c \in Clients PROVE stream[c] \o output_queue \in Seq(1..Len(log))
    BY TypeParts, ConcatProperties
  <2>3. stream' \in [Clients -> Seq(1..Len(log))]
    BY <2>1, <2>2, TypeParts
  <2>4. <<>> \in Seq(1..Len(log))
    BY EmptySeq
  <2> QED
    BY <2>1, <2>3, <2>4 DEF TypeOK, radio
<1>6. ASSUME NEW c \in Clients, Join(c) PROVE TypeOK' /\ AirBound'
  <2>1. flushed \in 0..Len(log)
    BY TypeParts DEF QueueIsRest, flushed
  <2>2. joined' \in [Clients -> 0..Len(log)]
    BY <1>6, <2>1, TypeParts DEF Join
  <2> QED
    BY <1>6, <2>2 DEF TypeOK, Join, radio, relay
<1>7. ASSUME NEW c \in Clients, Leave(c) PROVE TypeOK' /\ AirBound'
  <2>1. <<>> \in Seq(1..Len(log)) /\ 0 \in 0..Len(log)
    BY TypeParts
  <2>2. joined' \in [Clients -> 0..Len(log)] /\ stream' \in [Clients -> Seq(1..Len(log))]
    BY <1>7, <2>1, TypeParts DEF Leave
  <2> QED
    BY <1>7, <2>2 DEF TypeOK, Leave, radio, relay
<1>8. ASSUME NEW c \in Clients, ToggleRaw(c) PROVE TypeOK' /\ AirBound'
  BY <1>8 DEF TypeOK, ToggleRaw, radio, relay
<1>9. CASE UNCHANGED vars
  BY <1>9 DEF TypeOK, vars, radio, relay, network
<1> QED
  BY <1>1, <1>2, <1>3, <1>4, <1>5, <1>6, <1>7, <1>8, <1>9 DEF Next, Audio
-----------------------------------------------------------------------------
(* The queue, the posted flushes and the clients.                          *)

ClientInv == QueueIsRest /\ JoinedBefore /\ NothingStranded /\ KissStreamIsSegment

\* Every step preserves what holds of the queue and of the streams.
LEMMA NextClients == TypeOK /\ ClientInv /\ [Next]_vars => ClientInv'
<1> SUFFICES ASSUME TypeOK, ClientInv, [Next]_vars PROVE ClientInv'
  OBVIOUS
<1> USE DEF ClientInv
<1>t. /\ Len(log) \in Nat /\ Len(output_queue) \in Nat /\ flushed \in Nat
      /\ Len(log) = flushed + Len(output_queue)
      /\ joined \in [Clients -> Nat] /\ posted \in Nat
      /\ output_queue = Segment(flushed, Len(output_queue))
  BY TypeParts DEF QueueIsRest, flushed, TypeOK
<1>1. CASE UNCHANGED <<output_queue, log, subscribed, joined, stream>>
           /\ (NothingStranded => NothingStranded')
  BY <1>1 DEF QueueIsRest, JoinedBefore, KissStreamIsSegment, flushed
<1>2. CASE InputCallback \/ Miss \/ Suppress \/ PostFlush \/ NextDecoder
             \/ CallbackReturns \/ Run \/ UNCHANGED vars
  <2>1. UNCHANGED <<output_queue, log, subscribed, joined, stream>>
    BY <1>2 DEF InputCallback, Miss, Suppress, PostFlush, NextDecoder, CallbackReturns, Run,
                vars, relay, network
  <2>2. NothingStranded => NothingStranded'
    BY <1>2, <1>t DEF InputCallback, Miss, AtPacket, Suppress, PostFlush, NextDecoder,
                      CallbackReturns, Run, vars, relay, network, NothingStranded
  <2> QED
    BY <1>1, <2>1, <2>2
<1>3. ASSUME NEW c \in Clients, ToggleRaw(c) PROVE ClientInv'
  BY <1>1, <1>3 DEF ToggleRaw, relay, NothingStranded
<1>4. CASE Dispatch
  <2>1. /\ output_queue' = Append(output_queue, Len(log) + 1) /\ audio' = "post"
        /\ UNCHANGED <<posted, subscribed, joined, stream>>
        /\ Len(log') = Len(log) + 1
    <3>1. AtPacket /\ log' = Append(log, Head(to_decode[decoder]))
      BY <1>4 DEF Dispatch
    <3>2. Len(log') = Len(log) + 1
      BY <3>1, AtPacketKnows, TypeParts, AppendProperties
    <3> QED
      BY <1>4, <3>2 DEF Dispatch, network
  <2>2. output_queue' = Segment(flushed, Len(output_queue) + 1)
    BY <1>t, <2>1, SegmentAppend
  <2>3. Len(output_queue') = Len(output_queue) + 1
    <3>1. flushed \in Nat /\ Len(output_queue) + 1 \in Nat
      BY <1>t
    <3>2. Len(Segment(flushed, Len(output_queue) + 1)) = Len(output_queue) + 1
      BY <3>1, SegmentIsSeq
    <3> QED
      BY <2>2, <3>2, Zenon
  <2>4. flushed' = flushed
    BY <1>t, <2>1, <2>3 DEF flushed
  <2> QED
    BY <1>t, <2>1, <2>2, <2>3, <2>4
       DEF QueueIsRest, JoinedBefore, NothingStranded, KissStreamIsSegment
<1>5. CASE Flush
  <2>1. /\ output_queue' = <<>> /\ log' = log
        /\ stream' = [c \in Clients |->
               IF Receives(c) THEN stream[c] \o output_queue ELSE stream[c]]
        /\ UNCHANGED <<subscribed, joined>>
    BY <1>5 DEF Flush, PopAll
  <2>2. flushed' = Len(log) /\ Len(output_queue') = 0
    BY <1>t, <2>1 DEF flushed
  <2>3. QueueIsRest' /\ NothingStranded'
    BY <1>t, <2>1, <2>2 DEF QueueIsRest, NothingStranded, Segment
  <2>4. JoinedBefore'
    BY <1>t, <2>1, <2>2 DEF JoinedBefore, Receives
  <2>5. KissStreamIsSegment'
    <3> SUFFICES ASSUME NEW c \in subscribed \cap KissClients
                 PROVE  stream'[c] = Segment(joined'[c], flushed' - joined'[c])
      BY <2>1 DEF KissStreamIsSegment, Segment
    <3>1. c \in Clients /\ Receives(c)
      BY DEF Receives, Clients
    <3>2. stream'[c] = Segment(joined[c], flushed - joined[c]) \o output_queue
      BY <2>1, <3>1 DEF KissStreamIsSegment, Segment
    <3> DEFINE a == joined[c]
               m == flushed - joined[c]
               n == Len(output_queue)
    <3>3. a \in Nat /\ m \in Nat /\ n \in Nat /\ flushed = a + m /\ Len(log) - a = m + n
      <4>1. joined[c] \in Nat /\ joined[c] <= flushed
        BY <1>t, <3>1 DEF JoinedBefore
      <4> QED
        BY <1>t, <4>1
    <3>4. Segment(a, m) \o Segment(a + m, n) = Segment(a, m + n)
      <4>1. a \in Nat /\ m \in Nat /\ n \in Nat
        BY <3>3
      <4> HIDE DEF a, m, n
      <4> QED
        BY <4>1, SegmentConcat
    <3>5. stream'[c] = Segment(a, m) \o Segment(a + m, n)
      <4>1. output_queue = Segment(flushed, n)
        BY <1>t, Zenon DEF n
      <4>2. output_queue = Segment(a + m, n)
        BY <3>3, <4>1, Zenon
      <4> QED
        BY <3>2, <4>2, Zenon
    <3>6. joined'[c] = a /\ flushed' = Len(log)
      BY <2>1, <2>2
    <3> QED
      BY <3>3, <3>4, <3>5, <3>6
  <2> QED
    BY <2>3, <2>4, <2>5
<1>6. ASSUME NEW c \in Clients, Join(c) PROVE ClientInv'
  <2>1. /\ c \notin subscribed /\ subscribed' = subscribed \cup {c}
        /\ joined' = [joined EXCEPT ![c] = flushed]
        /\ UNCHANGED <<output_queue, log, posted, audio, stream>>
    BY <1>6 DEF Join, relay
  <2>2. flushed' = flushed
    BY <2>1 DEF flushed
  <2>3. QueueIsRest' /\ NothingStranded'
    BY <2>1, <2>2 DEF QueueIsRest, NothingStranded
  <2>4. JoinedBefore'
    BY <1>t, <2>1, <2>2 DEF JoinedBefore
  <2>5. KissStreamIsSegment'
    <3>1. stream[c] = Segment(flushed, 0) /\ joined'[c] = flushed
      BY <1>t, <2>1 DEF JoinedBefore, Segment
    <3> QED
      BY <1>t, <2>1, <2>2, <3>1 DEF KissStreamIsSegment, Segment
  <2> QED
    BY <2>3, <2>4, <2>5
<1>7. ASSUME NEW c \in Clients, Leave(c) PROVE ClientInv'
  <2>1. /\ subscribed' = subscribed \ {c}
        /\ joined' = [joined EXCEPT ![c] = 0] /\ stream' = [stream EXCEPT ![c] = <<>>]
        /\ UNCHANGED <<output_queue, log, posted, audio>>
    BY <1>7 DEF Leave, relay
  <2>2. flushed' = flushed
    BY <2>1 DEF flushed
  <2>3. QueueIsRest' /\ NothingStranded'
    BY <2>1, <2>2 DEF QueueIsRest, NothingStranded
  <2>4. JoinedBefore'
    BY <1>t, <2>1, <2>2, TypeParts DEF JoinedBefore
  <2>5. KissStreamIsSegment'
    BY <1>t, <2>1, <2>2, TypeParts DEF KissStreamIsSegment
  <2> QED
    BY <2>3, <2>4, <2>5
<1> QED
  BY <1>2, <1>3, <1>4, <1>5, <1>6, <1>7 DEF Next, Audio
-----------------------------------------------------------------------------
(* The decoders and the suppression of repeats.                            *)

RadioInv == RemembersLast /\ HeardIsDispatched /\ AllJudgeTheLast /\ RelayedOnce

\* With one transmission to judge at a time, what is on the air last is either
\* not dispatched yet or the CRC remembered.
LEMMA NewIsNotLogged ==
  ASSUME TypeOK, RemembersLast, RelayedOnce, ~overlapped, Len(air) \in Nat \ {0},
         ~IsRepeat(air[Len(air)])
  PROVE  \A i \in 1..Len(log) : log[i] < Len(air)
<1> SUFFICES ASSUME NEW i \in 1..Len(log) PROVE log[i] < Len(air)
  OBVIOUS
<1>t. Len(log) \in Nat /\ \A j \in 1..Len(log) : log[j] \in 1..Len(air)
  BY TypeParts, ElementOfSeq
<1>1. log[i] \in 1..Len(air) /\ log[Len(log)] \in 1..Len(air)
  BY <1>t
<1>2. CASE i < Len(log)
  <2>1. log[i] < log[Len(log)]
    BY <1>t, <1>2 DEF RelayedOnce
  <2> QED
    BY <1>1, <2>1
<1>3. CASE i = Len(log)
  <2>1. log # <<>>
    BY <1>t
  <2>2. last_crc = air[log[i]]
    BY <1>3, <2>1 DEF RemembersLast
  <2>3. log[i] # Len(air)
    BY <2>2 DEF IsRepeat
  <2> QED
    BY <1>1, <2>3
<1> QED
  BY <1>t, <1>2, <1>3

\* Judging a transmission leaves no older one behind.
LEMMA JudgedIsDropped ==
  ASSUME TypeOK, AllJudgeTheLast, AtPacket, UNCHANGED <<air, overlapped>>,
         to_decode' = [to_decode EXCEPT ![decoder] = Tail(to_decode[decoder])]
  PROVE  AllJudgeTheLast'
<1> SUFFICES ASSUME ~overlapped, NEW d \in 1..NumDecoders
             PROVE  to_decode'[d] = <<>> \/ to_decode'[d] = <<Len(air)>>
  BY DEF AllJudgeTheLast
<1>1. to_decode[d] = <<>> \/ to_decode[d] = <<Len(air)>>
  BY DEF AllJudgeTheLast
<1>2. CASE d = decoder
  <2>1. to_decode[d] = <<Len(air)>> /\ to_decode'[d] = Tail(to_decode[d])
    BY <1>1, <1>2, TypeParts DEF AtPacket
  <2>2. Tail(<<Len(air)>>) = <<>>
    OBVIOUS
  <2> QED
    BY <2>1, <2>2
<1>3. CASE d # decoder
  BY <1>1, <1>3, TypeParts
<1> QED
  BY <1>2, <1>3

\* Every step preserves what holds of the log.
LEMMA NextRadio == TypeOK /\ RadioInv /\ [Next]_vars => RadioInv'
<1> SUFFICES ASSUME TypeOK, RadioInv, [Next]_vars PROVE RadioInv'
  OBVIOUS
<1> USE DEF RadioInv
<1>t. /\ Len(air) \in Nat /\ Len(log) \in Nat /\ \A i \in 1..Len(log) : log[i] \in 1..Len(air)
      /\ log # <<>> => Len(log) \in 1..Len(log)
      /\ heard \subseteq 1..Len(air)
  <2>1. \A i \in 1..Len(log) : log[i] \in 1..Len(air)
    BY TypeParts, ElementOfSeq
  <2>2. log # <<>> => Len(log) # 0
    BY TypeParts, EmptySeq
  <2> QED
    BY <2>1, <2>2, TypeParts DEF TypeOK
<1>1. CASE InputCallback
  <2>1. PICK n \in Nat : Received(n)
    BY <1>1, InputEffect
  <2>2. UNCHANGED <<heard, last_crc, log>>
    BY <1>1 DEF InputCallback, relay
  <2>3. RemembersLast'
    BY <1>t, <2>1, <2>2 DEF RemembersLast, Received
  <2>4. HeardIsDispatched'
    <3> SUFFICES ASSUME NEW t \in heard
                 PROVE  /\ air'[t] = 0 \/ \E i \in 1..Len(log) : air'[log[i]] = air'[t]
                        /\ ~overlapped' => RepeatsLastDispatched(t)'
      BY <2>2 DEF HeardIsDispatched
    <3>1. t \in 1..Len(air) /\ air'[t] = air[t] /\ \A i \in 1..Len(log) : air'[log[i]] = air[log[i]]
      BY <1>t, <2>1 DEF Received
    <3>2. ~overlapped' => ~overlapped
      BY <2>1, Zenon DEF Received
    <3>3. RepeatsLastDispatched(t) => RepeatsLastDispatched(t)'
      BY <2>2, <3>1 DEF RepeatsLastDispatched
    <3> QED
      BY <3>1, <3>2, <3>3 DEF HeardIsDispatched
  <2>5. RelayedOnce'
    <3>1. ~overlapped' => ~overlapped
      BY <2>1, Zenon DEF Received
    <3> QED
      BY <2>2, <3>1, Zenon DEF RelayedOnce
  <2>6. AllJudgeTheLast'
    <3> SUFFICES ASSUME ~overlapped', NEW d \in 1..NumDecoders
                 PROVE  to_decode'[d] = <<>> \/ to_decode'[d] = <<Len(air')>>
      BY DEF AllJudgeTheLast
    <3> DEFINE q == to_decode[d]
               r == to_decode'[d]
    <3>1. /\ q = <<>> \/ q = <<Len(air)>>
          /\ r = q \o Segment(Len(air), n) /\ ~(Len(r) > 1)
          /\ q \in Seq(Nat)
      <4>1. q \in Seq(1..Len(air)) /\ 1..Len(air) \subseteq Nat
        BY <1>t, TypeParts
      <4>2. q \in Seq(Nat)
        BY <4>1, SeqMonotonic
      <4> QED
        BY <2>1, <4>2 DEF AllJudgeTheLast, Received
    <3>2. /\ Segment(Len(air), n) \in Seq(Nat) /\ Len(Segment(Len(air), n)) = n
          /\ Len(air') = Len(air) + n
      BY <1>t, <2>1, SegmentIsSeq DEF Received
    <3> HIDE DEF q, r
    <3>3. Len(r) = Len(q) + n /\ Len(q) \in Nat
      BY <3>1, <3>2, ConcatProperties
    <3>4. CASE n = 0
      <4>1. Segment(Len(air), n) = <<>>
        BY <3>4 DEF Segment
      <4>2. r = q
        BY <3>1, <4>1, ConcatEmptySeq
      <4>3. Len(air') = Len(air)
        BY <1>t, <3>2, <3>4
      <4> QED
        BY <3>1, <4>2, <4>3 DEF r
    <3>5. CASE n # 0
      <4>1. n = 1 /\ Len(q) = 0
        BY <3>1, <3>3, <3>5
      <4>2. q = <<>> /\ r = Segment(Len(air), 1)
        BY <3>1, <3>2, <4>1, ConcatEmptySeq
      <4>3. Segment(Len(air), 1) = <<Len(air) + 1>>
        BY DEF Segment
      <4> QED
        BY <3>2, <4>1, <4>2, <4>3 DEF r
    <3> QED
      BY <3>4, <3>5
  <2> QED
    BY <2>3, <2>4, <2>5, <2>6
<1>2. CASE Miss
  <2>1. /\ AtPacket /\ to_decode' = [to_decode EXCEPT ![decoder] = Tail(to_decode[decoder])]
        /\ UNCHANGED <<air, overlapped, last_crc, log, heard>>
    BY <1>2 DEF Miss, DropSamples, relay
  <2>2. AllJudgeTheLast'
    BY <2>1, JudgedIsDropped
  <2> QED
    BY <2>1, <2>2 DEF RemembersLast, RelayedOnce, HeardIsDispatched, RepeatsLastDispatched
<1>s. CASE Suppress
  <2>h. PICK t : t = Head(to_decode[decoder])
    OBVIOUS
  <2>1. /\ AtPacket /\ to_decode' = [to_decode EXCEPT ![decoder] = Tail(to_decode[decoder])]
        /\ UNCHANGED <<air, overlapped, last_crc, log>>
        /\ IsRepeat(air[t]) /\ heard' = heard \cup {t}
    BY <1>s, <2>h DEF Suppress, DropSamples, relay
  <2>2. AllJudgeTheLast'
    BY <2>1, JudgedIsDropped
  <2>3. HeardIsDispatched'
    <3>1. air[t] = 0 \/ \E i \in 1..Len(log) : air[log[i]] = air[t]
      BY <1>t, <2>1 DEF IsRepeat, RemembersLast
    <3>2. ~overlapped => t = Len(air)
      BY <2>h, <2>1, AtPacketKnows DEF AllJudgeTheLast, AtPacket
    <3>3. ~overlapped => RepeatsLastDispatched(t)
      <4> SUFFICES ASSUME ~overlapped PROVE RepeatsLastDispatched(t)
        OBVIOUS
      <4>1. CASE log = <<>>
        BY <2>1, <4>1 DEF IsRepeat, RemembersLast, RepeatsLastDispatched
      <4>2. CASE log # <<>>
        <5>1. Len(log) \in 1..Len(log) /\ air[log[Len(log)]] = air[t]
          BY <1>t, <2>1, <4>2 DEF IsRepeat, RemembersLast
        <5>2. \A j \in 1..Len(log) : log[j] <= log[Len(log)]
          <6> TAKE j \in 1..Len(log)
          <6>1. CASE j = Len(log)
            BY <1>t, <6>1
          <6>2. CASE j < Len(log)
            BY <1>t, <5>1, <6>2 DEF RelayedOnce
          <6> QED
            BY <1>t, <6>1, <6>2
        <5>3. log[Len(log)] <= t
          BY <1>t, <3>2, <5>1
        <5> QED
          BY <5>1, <5>2, <5>3 DEF RepeatsLastDispatched
      <4> QED
        BY <4>1, <4>2
    <3>4. \A u \in heard : RepeatsLastDispatched(u) => RepeatsLastDispatched(u)'
      BY <2>1 DEF RepeatsLastDispatched
    <3>5. RepeatsLastDispatched(t) => RepeatsLastDispatched(t)'
      BY <2>1 DEF RepeatsLastDispatched
    <3> QED
      BY <2>1, <3>1, <3>3, <3>4, <3>5 DEF HeardIsDispatched
  <2> QED
    BY <2>1, <2>2, <2>3 DEF RemembersLast, RelayedOnce
<1>3. CASE Dispatch
  <2>h. PICK t : t = Head(to_decode[decoder])
    OBVIOUS
  <2>1. /\ AtPacket /\ to_decode' = [to_decode EXCEPT ![decoder] = Tail(to_decode[decoder])]
        /\ ~IsRepeat(air[t]) /\ last_crc' = air[t]
        /\ heard' = heard \cup {t} /\ log' = Append(log, t)
        /\ UNCHANGED <<air, overlapped>>
    BY <1>3, <2>h DEF Dispatch, DropSamples
  <2>2. t \in 1..Len(air)
    BY <2>h, <2>1, AtPacketKnows
  <2>3. AllJudgeTheLast'
    BY <2>1, JudgedIsDropped
  <2>4. ~overlapped => t = Len(air)
    BY <2>h, <2>1, AtPacketKnows DEF AllJudgeTheLast, AtPacket
  <2>5. /\ log' # <<>> /\ Len(log') = Len(log) + 1 /\ log'[Len(log) + 1] = t
        /\ \A i \in 1..Len(log) : log'[i] = log[i]
    <3>1. log \in Seq(1..Len(air))
      BY TypeParts
    <3>2. /\ Append(log, t) # <<>> /\ Len(Append(log, t)) = Len(log) + 1
          /\ Append(log, t)[Len(log) + 1] = t
          /\ \A i \in 1..Len(log) : Append(log, t)[i] = log[i]
      BY <2>2, <3>1, AppendProperties
    <3> QED
      BY <2>1, <3>2
  <2>6. RemembersLast'
    BY <2>1, <2>5 DEF RemembersLast
  <2>7. HeardIsDispatched'
    <3> SUFFICES ASSUME NEW u \in heard \cup {t}
                 PROVE  /\ air[u] = 0 \/ \E i \in 1..Len(log') : air[log'[i]] = air[u]
                        /\ ~overlapped => RepeatsLastDispatched(u)'
      BY <2>1 DEF HeardIsDispatched
    <3>1. CASE u = t
      <4>1. ~overlapped => \A j \in 1..Len(log') : log'[j] <= t
        <5> SUFFICES ASSUME ~overlapped, NEW j \in 1..Len(log') PROVE log'[j] <= t
          OBVIOUS
        <5>1. CASE j = Len(log) + 1
          BY <2>2, <2>5, <5>1
        <5>2. CASE j \in 1..Len(log)
          BY <1>t, <2>4, <2>5, <5>2
        <5> QED
          BY <1>t, <2>5, <5>1, <5>2
      <4>2. Len(log) + 1 \in 1..Len(log') /\ log'[Len(log) + 1] = t
        BY <1>t, <2>5
      <4>3. ~overlapped => RepeatsLastDispatched(t)'
        BY <2>1, <2>2, <4>1, <4>2 DEF RepeatsLastDispatched
      <4> QED
        BY <3>1, <4>2, <4>3
    <3>2. CASE u \in heard /\ u # t
      <4>1. air[u] = 0 \/ \E i \in 1..Len(log') : air[log'[i]] = air[u]
        BY <1>t, <2>5, <3>2 DEF HeardIsDispatched
      <4>2. ASSUME ~overlapped PROVE RepeatsLastDispatched(u)'
        <5>1. u \in 1..Len(air) /\ u < t
          BY <1>t, <2>4, <3>2, <4>2
        <5>2. {i \in 1..Len(log') : log'[i] <= u} = {i \in 1..Len(log) : log[i] <= u}
          BY <1>t, <2>2, <2>5, <5>1
        <5>3. RepeatsLastDispatched(u)
          BY <3>2, <4>2 DEF HeardIsDispatched
        <5> QED
          BY <1>t, <2>1, <2>5, <5>2, <5>3 DEF RepeatsLastDispatched
      <4> QED
        BY <4>1, <4>2
    <3> QED
      BY <3>1, <3>2
  <2>8. RelayedOnce'
    <3> SUFFICES ASSUME ~overlapped, NEW i \in 1..Len(log'), NEW j \in 1..Len(log'), i < j
                 PROVE  log'[i] < log'[j]
      BY <2>1 DEF RelayedOnce
    <3>1. i \in 1..Len(log)
      BY <1>t, <2>5
    <3>2. CASE j <= Len(log)
      <4>1. j \in 1..Len(log)
        BY <1>t, <2>5, <3>2
      <4> QED
        BY <2>5, <3>1, <4>1 DEF RelayedOnce
    <3>3. CASE j = Len(log) + 1
      <4>1. t = Len(air) /\ Len(air) \in Nat \ {0}
        BY <1>t, <2>2, <2>4
      <4>2. log[i] < Len(air)
        BY <2>1, <3>1, <4>1, NewIsNotLogged
      <4> QED
        BY <2>5, <3>1, <3>3, <4>1, <4>2
    <3> QED
      BY <1>t, <2>5, <3>2, <3>3
  <2> QED
    BY <2>3, <2>6, <2>7, <2>8
<1>4. CASE UNCHANGED <<radio, log>>
  BY <1>4 DEF radio, RemembersLast, HeardIsDispatched, RepeatsLastDispatched, AllJudgeTheLast,
              RelayedOnce
<1>5. CASE NextDecoder
  BY <1>5 DEF NextDecoder, relay, RemembersLast, HeardIsDispatched, RepeatsLastDispatched,
              AllJudgeTheLast, RelayedOnce
<1>6. CASE \/ PostFlush \/ CallbackReturns \/ Run \/ Flush \/ UNCHANGED vars
           \/ \E c \in Clients : Join(c) \/ Leave(c) \/ ToggleRaw(c)
  <2>1. UNCHANGED <<radio, log>>
    BY <1>6 DEF PostFlush, CallbackReturns, Run, Flush, Join, Leave, ToggleRaw, vars, relay
  <2> QED
    BY <1>4, <2>1
<1> QED
  BY <1>1, <1>2, <1>s, <1>3, <1>5, <1>6 DEF Next, Audio
-----------------------------------------------------------------------------
\* Types, queue, streams and log together.
THEOREM RelayInvariant == Spec => []IInv
<1>1. IInv /\ [Next]_vars => IInv'
  BY NextType, NextClients, NextRadio DEF IInv, ClientInv, RadioInv
<1> QED
  BY InitInv, <1>1, PTL DEF Spec

\* Every variable of the relay keeps its type.
THEOREM TypeCorrect == Spec => []TypeOK
  BY RelayInvariant, PTL DEF IInv

\* A queued packet always has a flush posted, or about to be.
THEOREM NoPacketStranded == Spec => []NothingStranded
  BY RelayInvariant, PTL DEF IInv

\* A KISS client receives exactly the packets flushed since it came, in order.
THEOREM KissStreamComplete == Spec => []KissStreamIsSegment
  BY RelayInvariant, PTL DEF IInv

\* What a decoder heard is dispatched, if not its CRC was before or is 0; and with
\* one transmission to judge at a time only the packet dispatched last counts.
THEOREM HeardDispatched == Spec => []HeardIsDispatched
  BY RelayInvariant, PTL DEF IInv

\* One remembered CRC keeps any number of decoders from relaying a transmission
\* twice, as long as each judges it before the next one ends.
THEOREM NoRepeats == Spec => []RelayedOnce
  BY RelayInvariant, PTL DEF IInv
-----------------------------------------------------------------------------
(* The relay implements Broadcast.                                         *)

\* Every step is one of the broadcast, or leaves what it shows as it is.
LEMMA StepRefines ==
  ASSUME IInv, [Next]_vars
  PROVE  [Abstract!BNext]_(Abstract!bvars)
<1> USE DEF Abstract!BNext, Abstract!bvars
<1>t. /\ TypeOK /\ Len(log) \in Nat /\ Len(output_queue) \in Nat /\ flushed \in Nat
      /\ Len(log) = flushed + Len(output_queue)
      /\ output_queue = Segment(flushed, Len(output_queue))
  BY TypeParts DEF IInv, QueueIsRest, flushed
<1>1. CASE Dispatch
  <2> DEFINE t == Head(to_decode[decoder])
  <2>1. /\ AtPacket /\ log' = Append(log, t)
        /\ output_queue' = Append(output_queue, Len(log) + 1)
        /\ UNCHANGED <<subscribed, stream>>
    BY <1>1 DEF Dispatch, network
  <2>2. t \in 1..Len(air) /\ t \in 1..MaxAir
    <3>1. t \in 1..Len(air)
      BY <1>t, <2>1, AtPacketKnows
    <3>2. Len(air) \in Nat /\ Len(air) <= MaxAir
      BY <1>t, TypeParts DEF IInv, AirBound
    <3> HIDE DEF t
    <3> QED
      BY <3>1, <3>2
  <2> HIDE DEF t
  <2>3. Len(log') = Len(log) + 1
    <3>1. log \in Seq(1..Len(air))
      BY <1>t, TypeParts
    <3> QED
      BY <2>1, <2>2, <3>1, AppendProperties
  <2>4. Len(output_queue') = Len(output_queue) + 1
    <3>1. output_queue \in Seq(1..Len(log)) /\ 1..Len(log) \subseteq Nat
      BY <1>t, TypeParts
    <3>2. output_queue \in Seq(Nat) /\ Len(log) + 1 \in Nat
      BY <1>t, <3>1, SeqMonotonic
    <3> QED
      BY <2>1, <3>2, AppendProperties
  <2>5. flushed' = flushed
    BY <1>t, <2>3, <2>4 DEF flushed
  <2> QED
    BY <2>1, <2>2, <2>5 DEF Abstract!Announce
<1>2. CASE Flush
  <2>1. /\ output_queue' = <<>> /\ UNCHANGED <<log, subscribed>>
        /\ stream' = [c \in Clients |->
               IF Receives(c) THEN stream[c] \o output_queue ELSE stream[c]]
    BY <1>2 DEF Flush, PopAll
  <2>2. flushed' = Len(log)
    BY <1>t, <2>1 DEF flushed
  <2>3. Abstract!Pending = output_queue
    BY <1>t DEF Abstract!Pending, Segment
  <2> DEFINE takers == {c \in Clients : Receives(c)}
  <2>4. takers \in SUBSET subscribed /\ subscribed \cap KissClients \subseteq takers
    BY <1>t DEF Receives, Clients
  <2>5. stream' = [c \in Clients |->
           IF c \in takers THEN stream[c] \o Abstract!Pending ELSE stream[c]]
    BY <2>1, <2>3
  <2> HIDE DEF takers
  <2> QED
    BY <2>1, <2>2, <2>4, <2>5, Zenon DEF Abstract!GiveOut
<1>3. ASSUME NEW c \in Clients, Join(c) PROVE Abstract!Come(c)
  <2>1. UNCHANGED <<log, output_queue>>
    BY <1>3 DEF Join, relay
  <2> QED
    BY <1>3, <2>1 DEF Join, Abstract!Come, flushed
<1>4. ASSUME NEW c \in Clients, Leave(c) PROVE Abstract!Go(c)
  <2>1. UNCHANGED <<log, output_queue>>
    BY <1>4 DEF Leave, relay
  <2> QED
    BY <1>4, <2>1 DEF Leave, Abstract!Go, flushed
<1>5. CASE UNCHANGED <<log, output_queue, subscribed, stream>>
  BY <1>5 DEF flushed
<1>6. CASE \/ InputCallback \/ Miss \/ Suppress \/ PostFlush \/ NextDecoder \/ CallbackReturns
           \/ Run \/ UNCHANGED vars \/ \E c \in Clients : ToggleRaw(c)
  <2>1. UNCHANGED <<log, output_queue, subscribed, stream>>
    BY <1>6 DEF InputCallback, Miss, Suppress, PostFlush, NextDecoder, CallbackReturns, Run,
                ToggleRaw, vars, relay, network
  <2> QED
    BY <1>5, <2>1
<1> QED
  BY <1>1, <1>2, <1>3, <1>4, <1>6 DEF Next, Audio

\* Whatever the decoders hear and however threads, posts and clients interleave,
\* each packet is given out once, in order, to all who are to have it.
THEOREM RelayImplementsBroadcast == Spec => BroadcastSpec
<1>1. Init => Abstract!BInit
  BY DEF Init, Abstract!BInit, flushed
<1>2. IInv /\ [Next]_vars => [Abstract!BNext]_(Abstract!bvars)
  BY StepRefines
<1> QED
  BY RelayInvariant, <1>1, <1>2, PTL DEF Spec, BroadcastSpec, Abstract!BSpec
=============================================================================
