------------------------- MODULE AsioSession_proofs -------------------------
(***************************************************************************)
(* Proofs about the TCP sessions for every set of session addresses and    *)
(* every number of messages.                                               *)
(***************************************************************************)
EXTENDS AsioSession, SequenceTheorems, TLAPS

\* A handler is due exactly when the flag says so, which on_error() relies on.
FlagsTell ==
    \A s \in Sessions : /\ waiting_read[s] <=> read_op[s] # "none"
                        /\ waiting_write[s] <=> write_op[s] # "none"

\* The fields of an address no session has, or that of the listening one.
Unused(s) ==
    /\ ~closing[s] /\ ~is_open[s] /\ in_flight[s] = 0
    /\ out_queue[s] = <<>> /\ written[s] = 0 /\ delivered[s] = <<>>

FreshUnused == \A s \in Sessions : s \notin alive \/ s = listening => Unused(s)

IInv == /\ TypeOK
        /\ FlagsTell
        /\ FreshUnused
        /\ NoHandlerOnDeletedSession
        /\ ClientsAreLive
        /\ ClientsArePumped
        /\ InFlightIsFront
        /\ StreamIsComplete

USE AsioAssumption DEF AsioAssumption
-----------------------------------------------------------------------------
(* Queues.                                                                 *)

Numbers(n) == [i \in 1..n |-> i]

\* The next number behind all the others.
LEMMA NextNumber ==
  ASSUME NEW n \in Nat
  PROVE  Numbers(n + 1) = Append(Numbers(n), n + 1)
<1>1. Numbers(n) \in Seq(Nat) /\ Len(Numbers(n)) = n
  <2>1. Numbers(n) \in [1..n -> Nat]
    BY DEF Numbers
  <2> QED
    BY <2>1
<1>2. Numbers(n + 1) \in Seq(Nat) /\ Len(Numbers(n + 1)) = n + 1
  <2>1. Numbers(n + 1) \in [1..(n + 1) -> Nat]
    BY DEF Numbers
  <2> QED
    BY <2>1
<1>3. \A i \in 1..(n + 1) : Numbers(n + 1)[i] = Append(Numbers(n), n + 1)[i]
  BY <1>1, AppendProperties DEF Numbers
<1>4. /\ Append(Numbers(n), n + 1) \in Seq(Nat)
      /\ Len(Append(Numbers(n), n + 1)) = n + 1
  BY <1>1, AppendProperties
<1> QED
  BY <1>2, <1>3, <1>4, SeqEqual

\* A session that has written nothing.
LEMMA EmptyStream == <<>> \o <<>> = [i \in 1..0 |-> i]
<1>1. <<>> \o <<>> = <<>>
  BY ConcatEmptySeq, EmptySeq
<1>2. [i \in 1..0 |-> i] = <<>>
  OBVIOUS
<1> QED
  BY <1>1, <1>2

\* What is pushed to the queue joins the stream at its end.
LEMMA StreamPush ==
  ASSUME NEW T, NEW d \in Seq(T), NEW q \in Seq(T), NEW m \in T
  PROVE  d \o Append(q, m) = Append(d \o q, m)
<1>1. d \o Append(q, m) = d \o (q \o <<m>>)
  BY AppendIsConcat
<1>2. d \o (q \o <<m>>) = (d \o q) \o <<m>>
  BY ConcatAssociative
<1>3. d \o q \in Seq(T)
  BY ConcatProperties
<1> QED
  BY <1>1, <1>2, <1>3, AppendIsConcat

\* What is popped and delivered stays where it was in the stream.
LEMMA StreamPop ==
  ASSUME NEW T, NEW d \in Seq(T), NEW q \in Seq(T), q # <<>>
  PROVE  Append(d, Head(q)) \o Tail(q) = d \o q
<1>1. Head(q) \in T /\ Tail(q) \in Seq(T)
  BY HeadTailProperties
<1>2. q = <<Head(q)>> \o Tail(q)
  <2>1. /\ <<Head(q)>> \o Tail(q) \in Seq(T)
        /\ Len(<<Head(q)>> \o Tail(q)) = Len(q)
    BY <1>1, ConcatProperties, HeadTailProperties
  <2>2. \A i \in 1..Len(q) : (<<Head(q)>> \o Tail(q))[i] = q[i]
    BY <1>1, ConcatProperties, HeadTailProperties
  <2> QED
    BY <2>1, <2>2, SeqEqual
<1>3. (d \o <<Head(q)>>) \o Tail(q) = d \o (<<Head(q)>> \o Tail(q))
  BY <1>1, ConcatAssociative
<1> QED
  BY <1>1, <1>2, <1>3, AppendIsConcat
-----------------------------------------------------------------------------
\* The type invariant, one conjunct per variable.
LEMMA TypeParts ==
  TypeOK => /\ alive \subseteq Sessions /\ listening \in alive /\ clients \subseteq Sessions
            /\ waiting_read \in [Sessions -> BOOLEAN]
            /\ waiting_write \in [Sessions -> BOOLEAN]
            /\ closing \in [Sessions -> BOOLEAN] /\ is_open \in [Sessions -> BOOLEAN]
            /\ read_op \in [Sessions -> OpState] /\ write_op \in [Sessions -> OpState]
            /\ in_flight \in [Sessions -> 0..MaxWrites]
            /\ written \in [Sessions -> 0..MaxWrites]
            /\ out_queue \in [Sessions -> Seq(1..MaxWrites)]
            /\ delivered \in [Sessions -> Seq(1..MaxWrites)]
  BY DEF TypeOK

\* And back, for the state a step leads to.
LEMMA NextType ==
  ASSUME alive' \subseteq Sessions, listening' \in alive', clients' \subseteq Sessions,
         waiting_read' \in [Sessions -> BOOLEAN], waiting_write' \in [Sessions -> BOOLEAN],
         closing' \in [Sessions -> BOOLEAN], is_open' \in [Sessions -> BOOLEAN],
         read_op' \in [Sessions -> OpState], write_op' \in [Sessions -> OpState],
         in_flight' \in [Sessions -> 0..MaxWrites], written' \in [Sessions -> 0..MaxWrites],
         out_queue' \in [Sessions -> Seq(1..MaxWrites)],
         delivered' \in [Sessions -> Seq(1..MaxWrites)]
  PROVE  TypeOK'
  BY DEF TypeOK

\* The initial state satisfies the inductive invariant.
LEMMA InitInv == Init => IInv
<1> SUFFICES ASSUME NEW s \in Sessions, alive = {s}, listening = s, Init PROVE IInv
  BY DEF Init
<1> USE DEF Init
<1>1. TypeOK
  <2>1. <<>> \in Seq(1..MaxWrites)
    BY EmptySeq
  <2> QED
    BY <2>1 DEF TypeOK, OpState
<1>2. FlagsTell /\ FreshUnused
  BY DEF FlagsTell, FreshUnused, Unused
<1>3. NoHandlerOnDeletedSession /\ ClientsAreLive /\ ClientsArePumped /\ InFlightIsFront
  BY DEF NoHandlerOnDeletedSession, ClientsAreLive, ClientsArePumped, InFlightIsFront
<1>4. StreamIsComplete
  <2>1. \A x \in Sessions : delivered[x] \o out_queue[x] = <<>> \o <<>> /\ written[x] = 0
    OBVIOUS
  <2> QED
    BY <2>1, EmptyStream DEF StreamIsComplete
<1> QED
  BY <1>1, <1>2, <1>3, <1>4 DEF IInv

\* What write_raw() for the sessions of S does to each of them.
Wrote(S) ==
    /\ waiting_write' \in [Sessions -> BOOLEAN]
    /\ write_op' \in [Sessions -> OpState]
    /\ in_flight' \in [Sessions -> 0..MaxWrites]
    /\ written' \in [Sessions -> 0..MaxWrites]
    /\ out_queue' \in [Sessions -> Seq(1..MaxWrites)]
    /\ delivered' = delivered
    /\ \A s \in Sessions :
         /\ waiting_write'[s] <=> write_op'[s] # "none"
         /\ s \in S => write_op'[s] # "none"
         /\ s \notin S => /\ out_queue'[s] = out_queue[s]
                          /\ written'[s] = written[s]
                          /\ in_flight'[s] = in_flight[s]
                          /\ write_op'[s] # "none" <=> write_op[s] # "none"
         /\ write_op'[s] # "none"
              => out_queue'[s] # <<>> /\ in_flight'[s] = Head(out_queue'[s])
    /\ \A s \in alive : delivered[s] \o out_queue'[s] = [i \in 1..written'[s] |-> i]

\* What is queued behind others leaves the one at the front.
LEMMA Queued ==
  ASSUME NEW T, NEW queue \in Seq(T), NEW m \in T
  PROVE  /\ Append(queue, m) \in Seq(T) /\ Append(queue, m) # <<>>
         /\ queue # <<>> => Head(Append(queue, m)) = Head(queue)
  BY AppendProperties, HeadTailAppend

\* It is that, whichever sockets are open.
LEMMA WriteRawEffect ==
  ASSUME IInv, NEW S \in SUBSET (alive \ {listening}),
         NEW open \in [Sessions -> BOOLEAN], WriteRaw(S, open)
  PROVE  Wrote(S)
<1>t. /\ S \subseteq Sessions /\ S \subseteq alive
      /\ waiting_write \in [Sessions -> BOOLEAN] /\ write_op \in [Sessions -> OpState]
      /\ in_flight \in [Sessions -> 0..MaxWrites] /\ written \in [Sessions -> 0..MaxWrites]
      /\ out_queue \in [Sessions -> Seq(1..MaxWrites)]
      /\ delivered \in [Sessions -> Seq(1..MaxWrites)]
  BY TypeParts DEF IInv
<1>1. written' \in [Sessions -> 0..MaxWrites] /\ delivered' = delivered
  BY <1>t DEF WriteRaw
<1>2. \A s \in S : /\ written[s] + 1 \in 1..MaxWrites
                   /\ written'[s] = written[s] + 1
                   /\ out_queue'[s] = Append(out_queue[s], written[s] + 1)
  BY <1>t DEF WriteRaw, Push
<1>3. \A s \in S : /\ out_queue'[s] \in Seq(1..MaxWrites)
                   /\ out_queue'[s] # <<>>
                   /\ out_queue[s] # <<>> => Head(out_queue'[s]) = Head(out_queue[s])
  <2> SUFFICES ASSUME NEW s \in S
               PROVE  /\ out_queue'[s] \in Seq(1..MaxWrites)
                      /\ out_queue'[s] # <<>>
                      /\ out_queue[s] # <<>> => Head(out_queue'[s]) = Head(out_queue[s])
    OBVIOUS
  <2>1. out_queue[s] \in Seq(1..MaxWrites) /\ written[s] + 1 \in 1..MaxWrites
    BY <1>t, <1>2
  <2> DEFINE q == Append(out_queue[s], written[s] + 1)
  <2>2. q \in Seq(1..MaxWrites) /\ q # <<>>
    BY <2>1, Queued, Zenon
  <2>3. out_queue[s] # <<>> => Head(q) = Head(out_queue[s])
    BY <2>1, Queued, Zenon
  <2>4. out_queue'[s] = q
    BY <1>2
  <2> HIDE DEF q
  <2> QED
    BY <2>2, <2>3, <2>4
<1>4. \A s \in Sessions \ S :
         out_queue'[s] = out_queue[s] /\ written'[s] = written[s] /\ in_flight'[s] = in_flight[s]
  BY <1>t DEF WriteRaw
<1>5. out_queue' \in [Sessions -> Seq(1..MaxWrites)]
  <2>1. \A s \in Sessions : out_queue'[s] \in Seq(1..MaxWrites)
    BY <1>t, <1>3, <1>4
  <2>2. \E f : out_queue' = [s \in Sessions |-> f[s]]
    <3>1. out_queue' = [s \in Sessions |->
              [x \in Sessions |-> IF x \in S THEN Push(out_queue[x], written[x] + 1)
                                             ELSE out_queue[x]][s]]
      BY DEF WriteRaw
    <3> QED
      BY <3>1
  <2> QED
    BY <2>1, <2>2
<1>6. waiting_write' \in [Sessions -> BOOLEAN] /\ write_op' \in [Sessions -> OpState]
  BY <1>t DEF WriteRaw, NewOp, Abort, OpState
<1>7. \A s \in Sessions :
        /\ waiting_write'[s] <=> write_op'[s] # "none"
        /\ s \in S => write_op'[s] # "none"
        /\ s \notin S => (write_op'[s] # "none" <=> write_op[s] # "none")
  BY <1>t DEF WriteRaw, NewOp, Abort, OpState, IInv, FlagsTell
<1>8. in_flight' \in [Sessions -> 0..MaxWrites]
  <2>1. \A s \in S : Head(out_queue'[s]) \in 1..MaxWrites
    BY <1>3, HeadTailProperties
  <2> DEFINE ToWrite(x) == IF x \in S /\ ~waiting_write[x] THEN Head(out_queue'[x])
                                                         ELSE in_flight[x]
  <2>2. in_flight' = [x \in Sessions |-> ToWrite(x)]
    BY DEF WriteRaw
  <2>3. ASSUME NEW x \in Sessions PROVE ToWrite(x) \in 0..MaxWrites
    <3>1. in_flight[x] \in 0..MaxWrites
      BY <1>t
    <3> QED
      BY <2>1, <3>1
  <2> QED
    BY <2>2, <2>3
<1>9. \A s \in Sessions : write_op'[s] # "none"
        => out_queue'[s] # <<>> /\ in_flight'[s] = Head(out_queue'[s])
  <2> SUFFICES ASSUME NEW s \in Sessions, write_op'[s] # "none"
               PROVE  out_queue'[s] # <<>> /\ in_flight'[s] = Head(out_queue'[s])
    OBVIOUS
  <2>1. CASE s \notin S
    BY <1>4, <1>7, <2>1 DEF IInv, InFlightIsFront
  <2>2. CASE s \in S /\ waiting_write[s]
    <3>1. write_op[s] # "none" /\ in_flight'[s] = in_flight[s]
      BY <1>t, <2>2 DEF IInv, FlagsTell, WriteRaw
    <3> QED
      BY <1>3, <2>2, <3>1 DEF IInv, InFlightIsFront
  <2>3. CASE s \in S /\ ~waiting_write[s]
    BY <1>t, <1>3, <2>3 DEF WriteRaw
  <2> QED
    BY <2>1, <2>2, <2>3
<1>10. \A s \in alive : delivered[s] \o out_queue'[s] = [i \in 1..written'[s] |-> i]
  <2> SUFFICES ASSUME NEW s \in alive
               PROVE  delivered[s] \o out_queue'[s] = [i \in 1..written'[s] |-> i]
    OBVIOUS
  <2>1. s \in Sessions /\ delivered[s] \o out_queue[s] = Numbers(written[s])
    BY TypeParts DEF IInv, StreamIsComplete, Numbers
  <2>2. CASE s \notin S
    <3>1. out_queue'[s] = out_queue[s] /\ written'[s] = written[s]
      BY <1>4, <2>1, <2>2
    <3> QED
      BY <2>1, <3>1 DEF Numbers
  <2>3. CASE s \in S
    <3>1. /\ out_queue[s] \in Seq(1..MaxWrites) /\ delivered[s] \in Seq(1..MaxWrites)
          /\ written[s] \in Nat /\ written[s] + 1 \in 1..MaxWrites
      BY <1>t, <1>2, <2>1, <2>3
    <3> DEFINE d == delivered[s]
               q == out_queue[s]
               m == written[s] + 1
    <3>2. d \o Append(q, m) = Append(d \o q, m)
      <4>1. d \in Seq(1..MaxWrites) /\ q \in Seq(1..MaxWrites) /\ m \in 1..MaxWrites
        BY <3>1
      <4> HIDE DEF d, q, m
      <4> QED
        BY <4>1, StreamPush
    <3>3. Append(Numbers(written[s]), written[s] + 1) = Numbers(written'[s])
      BY <1>2, <2>3, <3>1, NextNumber
    <3> QED
      BY <1>2, <2>1, <2>3, <3>2, <3>3 DEF Numbers
  <2> QED
    BY <2>2, <2>3
<1> QED
  BY <1>1, <1>4, <1>5, <1>6, <1>7, <1>8, <1>9, <1>10 DEF Wrote
-----------------------------------------------------------------------------
(* One lemma per handler: it preserves the inductive invariant.            *)

\* A client is accepted and another session listens.
LEMMA AcceptInv == IInv /\ Accept => IInv'
<1> SUFFICES ASSUME IInv, Accept PROVE IInv'
  OBVIOUS
<1> DEFINE l == listening
<1>t. TypeOK /\ l \in Sessions /\ l \in alive
  BY TypeParts DEF IInv
<1>1. PICK n \in Sessions \ alive : listening' = n /\ alive' = alive \cup {n}
  BY DEF Accept, StartAccept
<1>2. /\ clients' = clients \cup {l} /\ is_open' = [is_open EXCEPT ![l] = TRUE]
      /\ waiting_read' = [waiting_read EXCEPT ![l] = TRUE]
      /\ read_op' = [read_op EXCEPT ![l] = "waiting"]
      /\ UNCHANGED <<waiting_write, closing, write_op, in_flight, output>>
  BY DEF Accept
<1>3. Unused(l) /\ Unused(n) /\ n # l
  BY <1>t, <1>1 DEF IInv, FreshUnused
<1>4. read_op[l] = "none" /\ write_op[l] = "none" /\ read_op[n] = "none" /\ write_op[n] = "none"
  BY <1>t, <1>1 DEF IInv, NoHandlerOnDeletedSession
<1>5. TypeOK'
  <2>1. /\ alive' \subseteq Sessions /\ listening' \in alive' /\ clients' \subseteq Sessions
        /\ waiting_read' \in [Sessions -> BOOLEAN] /\ is_open' \in [Sessions -> BOOLEAN]
        /\ read_op' \in [Sessions -> OpState]
    BY <1>t, <1>1, <1>2, TypeParts DEF OpState
  <2> QED
    BY <1>t, <1>2, <2>1, TypeParts DEF TypeOK, output
<1>6. FlagsTell' /\ FreshUnused'
  BY <1>t, <1>1, <1>2, TypeParts DEF IInv, FlagsTell, FreshUnused, Unused, output
<1>7. NoHandlerOnDeletedSession' /\ ClientsAreLive'
  BY <1>t, <1>1, <1>2, <1>3, <1>4, TypeParts
     DEF IInv, NoHandlerOnDeletedSession, ClientsAreLive, Unused
<1>8. ClientsArePumped' /\ InFlightIsFront'
  BY <1>t, <1>1, <1>2, <1>3, <1>4, TypeParts
     DEF IInv, ClientsArePumped, InFlightIsFront, Unused, output
<1>9. StreamIsComplete'
  <2>1. \A s \in alive : delivered'[s] \o out_queue'[s] = [i \in 1..written'[s] |-> i]
    BY <1>2 DEF IInv, StreamIsComplete, output
  <2>2. delivered'[n] \o out_queue'[n] = [i \in 1..written'[n] |-> i]
    BY <1>2, <1>3, EmptyStream DEF Unused, output
  <2> QED
    BY <1>1, <2>1, <2>2 DEF StreamIsComplete
<1> QED
  BY <1>5, <1>6, <1>7, <1>8, <1>9 DEF IInv

\* A failed accept replaces the listening session.
LEMMA AcceptErrorInv == IInv /\ AcceptError => IInv'
<1> SUFFICES ASSUME IInv, AcceptError PROVE IInv'
  OBVIOUS
<1>t. TypeOK /\ listening \in alive
  BY TypeParts DEF IInv
<1>1. PICK n \in Sessions \ (alive \ {listening}) :
         listening' = n /\ alive' = (alive \ {listening}) \cup {n}
  BY DEF AcceptError, StartAccept
<1>2. UNCHANGED <<clients, waiting_read, waiting_write, closing, is_open, read_op, write_op,
                  in_flight, out_queue, written, delivered>>
  BY DEF AcceptError, flags, ops, output
<1>3. Unused(n)
  BY <1>t, <1>1 DEF IInv, FreshUnused
<1>4. TypeOK'
  <2>1. alive' \subseteq Sessions /\ listening' \in alive'
    BY <1>t, <1>1, TypeParts
  <2> QED
    BY <1>t, <1>2, <2>1 DEF TypeOK
<1>5. FlagsTell' /\ FreshUnused'
  BY <1>t, <1>1, <1>2, TypeParts DEF IInv, FlagsTell, FreshUnused, Unused
<1>6. NoHandlerOnDeletedSession' /\ ClientsAreLive'
  BY <1>t, <1>1, <1>2, TypeParts DEF IInv, NoHandlerOnDeletedSession, ClientsAreLive
<1>7. ClientsArePumped' /\ InFlightIsFront'
  BY <1>2 DEF IInv, ClientsArePumped, InFlightIsFront
<1>8. StreamIsComplete'
  <2>1. \A s \in alive : delivered'[s] \o out_queue'[s] = [i \in 1..written'[s] |-> i]
    BY <1>2 DEF IInv, StreamIsComplete
  <2>2. delivered'[n] \o out_queue'[n] = [i \in 1..written'[n] |-> i]
    BY <1>2, <1>3, EmptyStream DEF Unused
  <2> QED
    BY <1>1, <2>1, <2>2 DEF StreamIsComplete
<1> QED
  BY <1>4, <1>5, <1>6, <1>7, <1>8 DEF IInv

\* The network completes an operation.
LEMMA NetworkInv ==
  ASSUME IInv, NEW s \in Sessions, ReadCompletes(s) \/ WriteCompletes(s)
  PROVE  IInv'
<1>t. TypeOK
  BY DEF IInv
<1>1. /\ UNCHANGED <<alive, listening, clients, waiting_read, waiting_write, closing, is_open,
                     in_flight, out_queue, written, delivered>>
      /\ read_op' \in [Sessions -> OpState] /\ write_op' \in [Sessions -> OpState]
      /\ \A x \in Sessions : /\ read_op'[x] # "none" <=> read_op[x] # "none"
                             /\ write_op'[x] # "none" <=> write_op[x] # "none"
  BY <1>t, TypeParts DEF ReadCompletes, WriteCompletes, OpState, flags, output
<1>2. TypeOK'
  BY <1>t, <1>1 DEF TypeOK
<1>3. FlagsTell' /\ FreshUnused' /\ NoHandlerOnDeletedSession'
  BY <1>1 DEF IInv, FlagsTell, FreshUnused, Unused, NoHandlerOnDeletedSession
<1>4. ClientsAreLive' /\ InFlightIsFront' /\ StreamIsComplete'
  BY <1>1 DEF IInv, ClientsAreLive, InFlightIsFront, StreamIsComplete
<1>5. ClientsArePumped'
  BY <1>t, <1>1, TypeParts DEF IInv, ClientsArePumped
<1> QED
  BY <1>2, <1>3, <1>4, <1>5 DEF IInv

\* All clients are sent a message.
LEMMA WriteToAllInv == IInv /\ WriteToAll => IInv'
<1> SUFFICES ASSUME IInv, WriteToAll PROVE IInv'
  OBVIOUS
<1>t. TypeOK /\ clients \in SUBSET (alive \ {listening}) /\ is_open \in [Sessions -> BOOLEAN]
  BY TypeParts DEF IInv, ClientsAreLive
<1>1. /\ WriteRaw(clients, is_open)
      /\ UNCHANGED <<alive, listening, clients, waiting_read, closing, is_open, read_op>>
  BY DEF WriteToAll
<1>2. Wrote(clients)
  BY <1>t, <1>1, WriteRawEffect
<1>3. TypeOK'
  BY <1>t, <1>1, <1>2 DEF TypeOK, Wrote
<1>4. FlagsTell' /\ InFlightIsFront' /\ StreamIsComplete'
  BY <1>t, <1>1, <1>2 DEF IInv, FlagsTell, InFlightIsFront, StreamIsComplete, Wrote
<1>5. FreshUnused' /\ NoHandlerOnDeletedSession'
  BY <1>t, <1>1, <1>2, TypeParts
     DEF IInv, FreshUnused, Unused, NoHandlerOnDeletedSession, Wrote
<1>6. ClientsAreLive' /\ ClientsArePumped'
  BY <1>t, <1>1, <1>2, TypeParts DEF IInv, ClientsAreLive, ClientsArePumped, Wrote
<1> QED
  BY <1>3, <1>4, <1>5, <1>6 DEF IInv

\* A handler that has read data, replies or gives up, and reads again.
LEMMA ReadDataInv ==
  ASSUME IInv, NEW s \in Sessions, HandleReadData(s)
  PROVE  IInv'
<1>t. TypeOK /\ read_op[s] = "ok" /\ s \in alive \ {listening}
  BY DEF HandleReadData, IInv, NoHandlerOnDeletedSession
<1>1. PICK open \in BOOLEAN, reply \in {{}, {s}} :
         /\ is_open' = [is_open EXCEPT ![s] = open]
         /\ read_op' = [read_op EXCEPT ![s] = NewOp(open)]
         /\ WriteRaw(reply, is_open')
  BY <1>t, TypeParts DEF HandleReadData
<1>2. /\ UNCHANGED <<alive, listening, clients, closing>>
      /\ waiting_read' = [waiting_read EXCEPT ![s] = TRUE]
  BY DEF HandleReadData
<1>3. is_open' \in [Sessions -> BOOLEAN] /\ reply \in SUBSET (alive \ {listening})
  BY <1>t, <1>1, TypeParts
<1>4. Wrote(reply)
  BY <1>1, <1>3, WriteRawEffect
<1>5. /\ waiting_read' \in [Sessions -> BOOLEAN] /\ read_op' \in [Sessions -> OpState]
      /\ \A x \in Sessions : /\ waiting_read'[x] <=> read_op'[x] # "none"
                             /\ x # s => /\ read_op'[x] = read_op[x]
                                         /\ is_open'[x] = is_open[x]
      /\ waiting_read'[s] /\ read_op'[s] # "none"
  BY <1>t, <1>1, <1>2, TypeParts DEF NewOp, OpState, IInv, FlagsTell
<1>w. /\ delivered' = delivered
      /\ \A x \in Sessions \ reply : /\ out_queue'[x] = out_queue[x]
                                     /\ written'[x] = written[x]
                                     /\ in_flight'[x] = in_flight[x]
                                     /\ write_op'[x] # "none" <=> write_op[x] # "none"
      /\ \A x \in reply : write_op'[x] # "none" /\ x = s
  BY <1>3, <1>4, TypeParts, <1>t DEF Wrote
<1>6. TypeOK'
  <2>1. /\ alive' \subseteq Sessions /\ listening' \in alive' /\ clients' \subseteq Sessions
        /\ closing' \in [Sessions -> BOOLEAN] /\ delivered' \in [Sessions -> Seq(1..MaxWrites)]
    BY <1>t, <1>2, <1>w, TypeParts
  <2>2. /\ waiting_write' \in [Sessions -> BOOLEAN] /\ write_op' \in [Sessions -> OpState]
        /\ in_flight' \in [Sessions -> 0..MaxWrites] /\ written' \in [Sessions -> 0..MaxWrites]
        /\ out_queue' \in [Sessions -> Seq(1..MaxWrites)]
    BY <1>4, Zenon DEF Wrote
  <2> QED
    BY <1>3, <1>5, <2>1, <2>2, NextType
<1>7. FlagsTell' /\ InFlightIsFront' /\ StreamIsComplete'
  BY <1>2, <1>4, <1>5 DEF FlagsTell, InFlightIsFront, StreamIsComplete, Wrote
<1>8. FreshUnused' /\ NoHandlerOnDeletedSession'
  <2>1. FreshUnused'
    <3> SUFFICES ASSUME NEW x \in Sessions, x \notin alive \/ x = listening PROVE Unused(x)'
      BY <1>2 DEF FreshUnused
    <3>1. Unused(x) /\ x # s /\ x \notin reply
      BY <1>t, <1>w DEF IInv, FreshUnused
    <3>2. /\ is_open'[x] = is_open[x] /\ closing' = closing /\ delivered' = delivered
          /\ out_queue'[x] = out_queue[x] /\ written'[x] = written[x] /\ in_flight'[x] = in_flight[x]
      BY <1>2, <1>w, <1>5, <3>1
    <3> QED
      BY <3>1, <3>2 DEF Unused
  <2>2. NoHandlerOnDeletedSession'
    BY <1>t, <1>2, <1>w, <1>5, TypeParts DEF IInv, NoHandlerOnDeletedSession
  <2> QED
    BY <2>1, <2>2
<1>9. ClientsAreLive' /\ ClientsArePumped'
  BY <1>t, <1>2, <1>w, <1>5, TypeParts DEF IInv, FlagsTell, ClientsAreLive, ClientsArePumped
<1> QED
  BY <1>6, <1>7, <1>8, <1>9 DEF IInv

\* A handler that has written the front message goes on with the next.
LEMMA WriteDoneInv ==
  ASSUME IInv, NEW s \in Sessions, HandleWriteDone(s)
  PROVE  IInv'
<1> DEFINE m == in_flight[s]
           q == out_queue[s]
           d == delivered[s]
           more == Tail(q) # <<>>
<1>t. TypeOK /\ write_op[s] = "ok" /\ s \in alive \ {listening}
  BY DEF HandleWriteDone, IInv, NoHandlerOnDeletedSession
<1>1. /\ q # <<>> /\ q \in Seq(1..MaxWrites) /\ d \in Seq(1..MaxWrites) /\ m = Head(q)
  BY <1>t, TypeParts DEF IInv, InFlightIsFront
<1>2. /\ m \in 1..MaxWrites /\ Tail(q) \in Seq(1..MaxWrites)
      /\ Append(d, m) \in Seq(1..MaxWrites)
      /\ more => Head(Tail(q)) \in 1..MaxWrites
      /\ Append(d, m) \o Tail(q) = d \o q
  <2> HIDE DEF m, q, d
  <2>1. m \in 1..MaxWrites /\ Tail(q) \in Seq(1..MaxWrites)
    BY <1>1, HeadTailProperties
  <2>2. Append(d, m) \in Seq(1..MaxWrites)
    BY <1>1, <2>1, AppendProperties
  <2>3. Append(d, m) \o Tail(q) = d \o q
    BY <1>1, StreamPop
  <2>4. more => Head(Tail(q)) \in 1..MaxWrites
    BY <2>1, HeadTailProperties
  <2> QED
    BY <2>1, <2>2, <2>3, <2>4
<1>3. /\ delivered' = [delivered EXCEPT ![s] = Append(d, m)]
      /\ out_queue' = [out_queue EXCEPT ![s] = Tail(q)]
  BY DEF HandleWriteDone, Pop
<1>4. out_queue'[s] = Tail(q)
  BY <1>3, TypeParts, <1>t
<1>5. /\ waiting_write' = [waiting_write EXCEPT ![s] = more]
      /\ write_op' = [write_op EXCEPT ![s] = IF more THEN NewOp(is_open[s]) ELSE "none"]
      /\ in_flight' = [in_flight EXCEPT ![s] = IF more THEN Head(Tail(q)) ELSE 0]
  <2>1. HasData(out_queue'[s]) <=> more
    BY <1>4 DEF HasData
  <2>2. HasData(out_queue'[s]) \in BOOLEAN /\ more \in BOOLEAN
    BY DEF HasData
  <2>3. HasData(out_queue'[s]) = more
    BY <2>1, <2>2
  <2>4. waiting_write' = [waiting_write EXCEPT ![s] = HasData(out_queue'[s])]
    BY Zenon DEF HandleWriteDone
  <2>5. /\ write_op' = [write_op EXCEPT ![s] =
                          IF HasData(out_queue'[s]) THEN NewOp(is_open[s]) ELSE "none"]
        /\ in_flight' = [in_flight EXCEPT ![s] =
                          IF HasData(out_queue'[s]) THEN Head(out_queue'[s]) ELSE 0]
    BY Zenon DEF HandleWriteDone
  <2> HIDE DEF more
  <2> QED
    BY <1>4, <2>3, <2>4, <2>5, Zenon
<1>6. UNCHANGED <<alive, listening, clients, waiting_read, closing, is_open, read_op, written>>
  BY DEF HandleWriteDone
<1> HIDE DEF m, q, d
<1>7. TypeOK'
  <2>1. /\ waiting_write' \in [Sessions -> BOOLEAN] /\ write_op' \in [Sessions -> OpState]
        /\ in_flight' \in [Sessions -> 0..MaxWrites]
    <3>1. /\ NewOp(is_open[s]) \in OpState /\ "none" \in OpState /\ more \in BOOLEAN
          /\ (IF more THEN Head(Tail(q)) ELSE 0) \in 0..MaxWrites
      BY <1>2 DEF NewOp, OpState
    <3> HIDE DEF more
    <3> QED
      BY <1>t, <1>5, <3>1, TypeParts
  <2>2. /\ out_queue' \in [Sessions -> Seq(1..MaxWrites)]
        /\ delivered' \in [Sessions -> Seq(1..MaxWrites)]
    BY <1>t, <1>2, <1>3, TypeParts
  <2> QED
    BY <1>t, <1>6, <2>1, <2>2 DEF TypeOK
<1>8. FlagsTell' /\ FreshUnused' /\ NoHandlerOnDeletedSession'
  BY <1>t, <1>3, <1>5, <1>6, TypeParts
     DEF IInv, FlagsTell, FreshUnused, Unused, NoHandlerOnDeletedSession, NewOp
<1>9. ClientsAreLive' /\ ClientsArePumped' /\ InFlightIsFront'
  BY <1>t, <1>3, <1>4, <1>5, <1>6, TypeParts
     DEF IInv, ClientsAreLive, ClientsArePumped, InFlightIsFront, NewOp
<1>10. StreamIsComplete'
  <2>1. \A x \in alive \ {s} : delivered'[x] \o out_queue'[x] = [i \in 1..written'[x] |-> i]
    BY <1>t, <1>3, <1>6, TypeParts DEF IInv, StreamIsComplete
  <2>2. d \o q = [i \in 1..written[s] |-> i]
    BY <1>t DEF IInv, StreamIsComplete, d, q
  <2>3. delivered'[s] = Append(d, m)
    BY <1>t, <1>3, TypeParts
  <2> QED
    BY <1>2, <1>4, <1>6, <2>1, <2>2, <2>3 DEF StreamIsComplete
<1> QED
  BY <1>7, <1>8, <1>9, <1>10 DEF IInv

\* on_error() with the flags and operations as the failed handler leaves them:
\* the session closes, or is deleted and its address unused again.
LEMMA OnErrorInv ==
  ASSUME IInv, NEW s \in alive \ {listening},
         NEW r \in BOOLEAN, NEW w \in BOOLEAN, NEW rop \in OpState, NEW wop \in OpState,
         r <=> rop # "none", w <=> wop # "none", wop \in {"none", write_op[s]},
         OnError(s, r, w, rop, wop)
  PROVE  IInv'
<1>t. TypeOK /\ s \in Sessions
  BY TypeParts DEF IInv
<1>1. /\ closing' = [closing EXCEPT ![s] = r \/ w] /\ clients' = clients \ {s}
      /\ is_open' = [is_open EXCEPT ![s] = FALSE]
      /\ waiting_read' = [waiting_read EXCEPT ![s] = r]
      /\ waiting_write' = [waiting_write EXCEPT ![s] = w]
      /\ read_op' = [read_op EXCEPT ![s] = Abort(rop)]
      /\ write_op' = [write_op EXCEPT ![s] = Abort(wop)]
      /\ listening' = listening
  BY DEF OnError, HandlerDue, SessionClosed
<1>2. /\ waiting_read' \in [Sessions -> BOOLEAN] /\ waiting_write' \in [Sessions -> BOOLEAN]
      /\ closing' \in [Sessions -> BOOLEAN] /\ is_open' \in [Sessions -> BOOLEAN]
      /\ read_op' \in [Sessions -> OpState] /\ write_op' \in [Sessions -> OpState]
      /\ read_op'[s] # "none" <=> r
      /\ write_op'[s] # "none" <=> w
  BY <1>t, <1>1, TypeParts DEF Abort, OpState
<1>3. FlagsTell'
  BY <1>t, <1>1, <1>2, TypeParts DEF IInv, FlagsTell
<1>4. CASE r \/ w
  <2>1. UNCHANGED <<alive, in_flight, out_queue, written, delivered>>
    BY <1>4 DEF OnError, HandlerDue, output
  <2>2. TypeOK'
    BY <1>t, <1>1, <1>2, <2>1 DEF TypeOK
  <2>3. FreshUnused' /\ NoHandlerOnDeletedSession'
    BY <1>t, <1>1, <1>2, <2>1, TypeParts
       DEF IInv, FreshUnused, Unused, NoHandlerOnDeletedSession
  <2>4. ClientsAreLive' /\ ClientsArePumped' /\ StreamIsComplete'
    BY <1>t, <1>1, <1>2, <2>1, TypeParts
       DEF IInv, ClientsAreLive, ClientsArePumped, StreamIsComplete
  <2>5. InFlightIsFront'
    BY <1>t, <1>1, <1>2, <2>1, TypeParts DEF IInv, InFlightIsFront
  <2> QED
    BY <1>3, <2>2, <2>3, <2>4, <2>5 DEF IInv
<1>5. CASE ~(r \/ w)
  <2>1. /\ alive' = alive \ {s}
        /\ in_flight' = [in_flight EXCEPT ![s] = 0]
        /\ out_queue' = [out_queue EXCEPT ![s] = <<>>]
        /\ written' = [written EXCEPT ![s] = 0]
        /\ delivered' = [delivered EXCEPT ![s] = <<>>]
    BY <1>5 DEF OnError, HandlerDue
  <2>2. TypeOK'
    <3>1. <<>> \in Seq(1..MaxWrites)
      BY EmptySeq
    <3>2. /\ in_flight' \in [Sessions -> 0..MaxWrites] /\ written' \in [Sessions -> 0..MaxWrites]
          /\ out_queue' \in [Sessions -> Seq(1..MaxWrites)]
          /\ delivered' \in [Sessions -> Seq(1..MaxWrites)]
          /\ alive' \subseteq Sessions /\ listening' \in alive' /\ clients' \subseteq Sessions
      BY <1>t, <1>1, <2>1, <3>1, TypeParts
    <3> QED
      BY <1>2, <3>2 DEF TypeOK
  <2>3. FreshUnused'
    BY <1>t, <1>1, <1>5, <2>1, TypeParts DEF IInv, FreshUnused, Unused
  <2>4. NoHandlerOnDeletedSession' /\ ClientsAreLive'
    BY <1>t, <1>1, <1>2, <1>5, <2>1, TypeParts
       DEF IInv, NoHandlerOnDeletedSession, ClientsAreLive
  <2>5. ClientsArePumped' /\ InFlightIsFront'
    BY <1>t, <1>1, <1>2, <1>5, <2>1, TypeParts DEF IInv, ClientsArePumped, InFlightIsFront
  <2>6. StreamIsComplete'
    BY <1>t, <2>1, TypeParts DEF IInv, StreamIsComplete
  <2> QED
    BY <1>3, <2>2, <2>3, <2>4, <2>5, <2>6 DEF IInv
<1> QED
  BY <1>4, <1>5

\* The two handlers that run on_error().
LEMMA HandleErrorInv ==
  ASSUME IInv, NEW s \in Sessions, HandleReadError(s) \/ HandleWriteError(s)
  PROVE  IInv'
<1>t. /\ s \in alive \ {listening} /\ waiting_read[s] \in BOOLEAN /\ waiting_write[s] \in BOOLEAN
      /\ read_op[s] \in OpState /\ write_op[s] \in OpState /\ "none" \in OpState
      /\ waiting_read[s] <=> read_op[s] # "none"
      /\ waiting_write[s] <=> write_op[s] # "none"
  BY TypeParts DEF HandleReadError, HandleWriteError, IInv, NoHandlerOnDeletedSession,
                   FlagsTell, OpState
<1>1. CASE HandleReadError(s)
  <2>1. OnError(s, FALSE, waiting_write[s], "none", write_op[s])
    BY <1>1 DEF HandleReadError
  <2> QED
    BY <1>t, <2>1, OnErrorInv
<1>2. CASE HandleWriteError(s)
  <2>1. OnError(s, waiting_read[s], FALSE, read_op[s], "none")
    BY <1>2 DEF HandleWriteError
  <2> QED
    BY <1>t, <2>1, OnErrorInv
<1> QED
  BY <1>1, <1>2
-----------------------------------------------------------------------------
\* Every step preserves the inductive invariant.
LEMMA NextInv == IInv /\ [Next]_vars => IInv'
<1> SUFFICES ASSUME IInv, [Next]_vars PROVE IInv'
  OBVIOUS
<1>1. CASE Accept
  BY <1>1, AcceptInv
<1>2. CASE AcceptError
  BY <1>2, AcceptErrorInv
<1>3. CASE WriteToAll
  BY <1>3, WriteToAllInv
<1>4. ASSUME NEW s \in Sessions, ReadCompletes(s) \/ WriteCompletes(s) PROVE IInv'
  BY <1>4, NetworkInv
<1>5. ASSUME NEW s \in Sessions, Handlers(s) PROVE IInv'
  <2>1. CASE HandleReadData(s)
    BY <2>1, ReadDataInv
  <2>2. CASE HandleWriteDone(s)
    BY <2>2, WriteDoneInv
  <2>3. CASE HandleReadError(s) \/ HandleWriteError(s)
    BY <2>3, HandleErrorInv
  <2> QED
    BY <1>5, <2>1, <2>2, <2>3 DEF Handlers
<1>6. CASE UNCHANGED vars
  <2>1. UNCHANGED <<alive, listening, clients, waiting_read, waiting_write, closing, is_open,
                    read_op, write_op, in_flight, out_queue, written, delivered>>
    BY <1>6 DEF vars, flags, ops, output
  <2> QED
    BY <2>1 DEF IInv, TypeOK, FlagsTell, FreshUnused, Unused, NoHandlerOnDeletedSession,
                ClientsAreLive, ClientsArePumped, InFlightIsFront, StreamIsComplete
<1> QED
  BY <1>1, <1>2, <1>3, <1>4, <1>5, <1>6 DEF Next

\* All the invariants of the sessions at once, with what makes them inductive.
THEOREM SessionInvariant == Spec => []IInv
  BY InitInv, NextInv, PTL DEF Spec

\* Every variable of the sessions keeps its type.
THEOREM TypeCorrect == Spec => []TypeOK
  BY SessionInvariant, PTL DEF IInv

\* No handler is due on a session object that was deleted.
THEOREM HandlersAreSafe == Spec => []NoHandlerOnDeletedSession
  BY SessionInvariant, PTL DEF IInv

\* write_to_all() never follows a dangling pointer in clients_.
THEOREM ClientsStayLive == Spec => []ClientsAreLive
  BY SessionInvariant, PTL DEF IInv

\* A client's input is always awaited, and its output never stalls.
THEOREM ClientsStayPumped == Spec => []ClientsArePumped
  BY SessionInvariant, PTL DEF IInv

\* The buffer of an outstanding write is the front of the queue.
THEOREM WriteBufferStays == Spec => []InFlightIsFront
  BY SessionInvariant, PTL DEF IInv

\* Every message of a session is delivered once, in order, or waits.
THEOREM NothingLostOrRepeated == Spec => []StreamIsComplete
  BY SessionInvariant, PTL DEF IInv
-----------------------------------------------------------------------------
\* Only a successful last write leaves a closed session with no handler to
\* delete it.
LEMMA OrphanStep ==
  ASSUME IInv, IInv', [Next]_vars, NEW s \in Sessions, ~Orphan(s), Orphan(s)'
  PROVE  closing[s] /\ write_op[s] = "ok" /\ Len(out_queue[s]) = 1
<1>t. /\ TypeOK /\ s \in alive' /\ closing'[s]
      /\ read_op'[s] = "none" /\ write_op'[s] = "none"
      /\ ~waiting_read'[s] /\ ~waiting_write'[s]
  BY DEF Orphan, IInv, FlagsTell
<1>1. CASE Accept
  <2>1. closing' = closing /\ write_op' = write_op
    BY <1>1 DEF Accept
  <2>2. s # listening /\ s \in alive /\ read_op'[s] = read_op[s]
    BY <1>1, <1>t, <2>1, TypeParts DEF Accept, StartAccept, IInv, FreshUnused, Unused
  <2> QED
    BY <1>t, <2>1, <2>2 DEF Orphan
<1>2. CASE AcceptError
  <2>1. UNCHANGED <<closing, write_op, read_op>>
    BY <1>2 DEF AcceptError, flags, ops
  <2>2. s \in alive
    BY <1>2, <1>t, <2>1, TypeParts DEF AcceptError, StartAccept, IInv, FreshUnused, Unused
  <2> QED
    BY <1>t, <2>1, <2>2 DEF Orphan
<1>3. CASE WriteToAll
  <2>1. /\ WriteRaw(clients, is_open) /\ clients \in SUBSET (alive \ {listening})
        /\ is_open \in [Sessions -> BOOLEAN]
        /\ UNCHANGED <<alive, closing, read_op>>
    BY <1>3, TypeParts DEF WriteToAll, IInv, ClientsAreLive
  <2>2. write_op[s] = "none"
    BY <1>t, <2>1, WriteRawEffect DEF Wrote
  <2> QED
    BY <1>t, <2>1, <2>2 DEF Orphan
<1>4. ASSUME NEW x \in Sessions, ReadCompletes(x) \/ WriteCompletes(x) PROVE FALSE
  <2>1. CASE ReadCompletes(x)
    <3>1. s \in alive /\ closing[s] /\ write_op[s] = "none"
      BY <1>t, <2>1 DEF ReadCompletes, flags
    <3>2. read_op[s] = "none"
      BY <1>t, <2>1, TypeParts DEF ReadCompletes
    <3> QED
      BY <3>1, <3>2 DEF Orphan
  <2>2. CASE WriteCompletes(x)
    <3>1. s \in alive /\ closing[s] /\ read_op[s] = "none"
      BY <1>t, <2>2 DEF WriteCompletes, flags
    <3>2. write_op[s] = "none"
      BY <1>t, <2>2, TypeParts DEF WriteCompletes
    <3> QED
      BY <3>1, <3>2 DEF Orphan
  <2> QED
    BY <1>4, <2>1, <2>2
<1>5. ASSUME NEW x \in Sessions, x # s, Handlers(x) PROVE FALSE
  <2>1. s \in alive /\ closing'[s] = closing[s] /\ read_op'[s] = read_op[s]
    <3>1. CASE HandleReadData(x)
      BY <1>5, <1>t, <3>1, TypeParts DEF HandleReadData
    <3>2. CASE HandleWriteDone(x)
      BY <1>t, <3>2 DEF HandleWriteDone
    <3>3. ASSUME NEW r, NEW w, NEW rop, NEW wop, OnError(x, r, w, rop, wop)
          PROVE  s \in alive /\ closing'[s] = closing[s] /\ read_op'[s] = read_op[s]
      BY <1>5, <1>t, <3>3, TypeParts DEF OnError
    <3>4. CASE HandleReadError(x)
      BY <3>3, <3>4, Zenon DEF HandleReadError
    <3>5. CASE HandleWriteError(x)
      BY <3>3, <3>5, Zenon DEF HandleWriteError
    <3> QED
      BY <1>5, <3>1, <3>2, <3>4, <3>5, Zenon DEF Handlers
  <2>2. write_op[s] = "none"
    <3>1. CASE HandleReadData(x)
      <4>1. PICK open \in BOOLEAN, reply \in {{}, {x}} :
               /\ is_open' = [is_open EXCEPT ![x] = open]
               /\ WriteRaw(reply, is_open')
        BY <1>t, <3>1, TypeParts DEF HandleReadData
      <4>2. /\ is_open' \in [Sessions -> BOOLEAN] /\ reply \in SUBSET (alive \ {listening})
            /\ s \notin reply
        BY <1>5, <1>t, <3>1, <4>1, TypeParts DEF HandleReadData, IInv, NoHandlerOnDeletedSession
      <4>3. Wrote(reply)
        BY <4>1, <4>2, WriteRawEffect
      <4> QED
        BY <1>t, <4>2, <4>3 DEF Wrote
    <3>2. CASE HandleReadError(x) \/ HandleWriteDone(x) \/ HandleWriteError(x)
      BY <1>5, <1>t, <3>2, TypeParts
         DEF HandleReadError, HandleWriteDone, HandleWriteError, OnError
    <3> QED
      BY <1>5, <3>1, <3>2 DEF Handlers
  <2> QED
    BY <1>t, <2>1, <2>2 DEF Orphan
<1>6. CASE HandleReadData(s)
  BY <1>6, <1>t, TypeParts DEF HandleReadData
<1>7. CASE HandleReadError(s) \/ HandleWriteError(s)
  BY <1>7, <1>t, TypeParts DEF HandleReadError, HandleWriteError, OnError, HandlerDue
<1>8. CASE HandleWriteDone(s)
  <2>1. write_op[s] = "ok" /\ closing[s] /\ out_queue[s] # <<>>
    BY <1>8, <1>t DEF HandleWriteDone, IInv, InFlightIsFront
  <2>2. out_queue[s] \in Seq(1..MaxWrites) /\ out_queue'[s] = Tail(out_queue[s])
    BY <1>8, <1>t, TypeParts DEF HandleWriteDone, Pop
  <2>3. Tail(out_queue[s]) = <<>>
    BY <1>8, <1>t, <2>2, TypeParts DEF HandleWriteDone, HasData
  <2>4. Len(out_queue[s]) = 1
    <3> DEFINE q == out_queue[s]
    <3>1. q \in Seq(1..MaxWrites) /\ q # <<>> /\ Len(Tail(q)) = 0
      BY <2>1, <2>2, <2>3
    <3> HIDE DEF q
    <3>2. Len(Tail(q)) = Len(q) - 1
      BY <3>1, HeadTailProperties
    <3>3. Len(q) = 1
      <4>1. Len(q) \in Nat
        BY <3>1
      <4> QED
        BY <3>1, <3>2, <4>1
    <3> QED
      BY <3>3 DEF q
  <2> QED
    BY <2>1, <2>4
<1>9. CASE UNCHANGED vars
  BY <1>9, <1>t DEF vars, flags, ops, Orphan
<1> QED
  BY <1>1, <1>2, <1>3, <1>4, <1>5, <1>6, <1>7, <1>8, <1>9 DEF Next, Handlers

\* A session is leaked in no other way.
THEOREM LeakedOnlyByLateWrite == Spec => OrphanedOnlyByLateWrite
<1>1. IInv /\ IInv' /\ [Next]_vars
        => [\A s \in Sessions : ~Orphan(s) /\ Orphan(s)'
               => closing[s] /\ write_op[s] = "ok" /\ Len(out_queue[s]) = 1]_vars
  BY OrphanStep
<1> QED
  BY <1>1, SessionInvariant, PTL DEF Spec, OrphanedOnlyByLateWrite
=============================================================================
