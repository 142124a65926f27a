---------------------------- MODULE AsioSession ----------------------------
(***************************************************************************)
(* The life of the TCP sessions of one server, src/src/tcpserver_base.cpp: *)
(* basic_asio_server accepts them, basic_asio_session reads and writes     *)
(* through asynchronous operations whose handlers hold a bare `this', and  *)
(* the session deletes itself.  One thread runs io_service::run(), so one  *)
(* handler is one action; the network completes operations in between.     *)
(* Ready handlers may run in any order.                                    *)
(***************************************************************************)
EXTENDS Integers, Sequences, FiniteSets

CONSTANTS Sessions,    \* BOUND: the addresses session objects may have
          MaxWrites    \* BOUND: write_raw() calls on one session

ASSUME AsioAssumption == MaxWrites \in Nat

VARIABLES
    alive,          \* the session objects that exist
    listening,      \* the one async_accept() will connect
    clients,        \* clients_ of the server
    waiting_read, waiting_write, closing,    \* the flags of each session
    is_open,        \* its socket is open
    read_op,        \* the outstanding read: "none", "waiting" or, once it has
    write_op,       \*   completed and its handler is queued, "ok" or "error"
    out_queue,      \* out_data_queue_, the numbers of its messages
    in_flight,      \* the message whose buffer async_write() refers to
    written,        \* history: write_raw() calls on this session
    delivered       \* history: the messages written completely, in order

flags == <<waiting_read, waiting_write, closing>>
ops == <<read_op, write_op, in_flight>>
output == <<out_queue, written, delivered>>
vars == <<alive, listening, clients, flags, is_open, ops, output>>

OpState == {"none", "waiting", "ok", "error"}

Init == \E s \in Sessions :
    /\ alive = {s} /\ listening = s
    /\ clients = {}
    /\ waiting_read = [x \in Sessions |-> FALSE]
    /\ waiting_write = [x \in Sessions |-> FALSE]
    /\ closing = [x \in Sessions |-> FALSE]
    /\ is_open = [x \in Sessions |-> FALSE]
    /\ read_op = [x \in Sessions |-> "none"]
    /\ write_op = [x \in Sessions |-> "none"]
    /\ in_flight = [x \in Sessions |-> 0]
    /\ out_queue = [x \in Sessions |-> <<>>]
    /\ written = [x \in Sessions |-> 0]
    /\ delivered = [x \in Sessions |-> <<>>]
-----------------------------------------------------------------------------
\* An operation begun on a closed socket completes with an error.
NewOp(open) == IF open THEN "waiting" ELSE "error"

\* mutants: an operation that is aborted calls no handler; nothing is aborted.
AbortSilently(op) == IF op = "waiting" THEN "none" ELSE op
NeverAbort(op) == op

\* The operation that close() finds still waiting is aborted; a completed one
\* keeps its result.
Abort(op) == IF op = "waiting" THEN "error" ELSE op

StartAcceptUnrecorded(used) ==                                     \* mutant
    \E n \in Sessions \ used : listening' = n /\ alive' = used

\* start_accept() allocates the next session; used are the addresses taken.
StartAccept(used) ==
    \E n \in Sessions \ used : listening' = n /\ alive' = used \cup {n}

\* A connection arrives: handle_accept() registers the session and start()s it.
Accept ==
    /\ clients' = clients \cup {listening}
    /\ is_open' = [is_open EXCEPT ![listening] = TRUE]
    /\ waiting_read' = [waiting_read EXCEPT ![listening] = TRUE]
    /\ read_op' = [read_op EXCEPT ![listening] = "waiting"]
    /\ StartAccept(alive)
    /\ UNCHANGED <<waiting_write, closing, write_op, in_flight, output>>

\* handle_accept() with an error: delete the session, listen with another.
AcceptError ==
    /\ StartAccept(alive \ {listening})
    /\ UNCHANGED <<clients, flags, is_open, ops, output>>
-----------------------------------------------------------------------------
(* The network.                                                            *)

ReadCompletes(s) ==
    /\ read_op[s] = "waiting"
    /\ \E r \in {"ok", "error"} : read_op' = [read_op EXCEPT ![s] = r]
    /\ UNCHANGED <<alive, listening, clients, flags, is_open, write_op,
                   in_flight, output>>

WriteCompletes(s) ==
    /\ write_op[s] = "waiting"
    /\ \E r \in {"ok", "error"} : write_op' = [write_op EXCEPT ![s] = r]
    /\ UNCHANGED <<alive, listening, clients, flags, is_open, read_op,
                   in_flight, output>>
-----------------------------------------------------------------------------
\* out_data_queue_ is a deque that is filled at its back and drained at its front.
PushFront(queue, m) == <<m>> \o queue                              \* mutant
Push(queue, m) == Append(queue, m)
PopBack(queue) == SubSeq(queue, 1, Len(queue) - 1)                 \* mutant
Pop(queue) == Tail(queue)

\* write_raw() and start_write() for every session of S: append the message,
\* begin to write the front one unless a write is outstanding.
WriteRaw(S, open) ==
    /\ \A s \in S : written[s] < MaxWrites
    /\ written' = [s \in Sessions |-> written[s] + (IF s \in S THEN 1 ELSE 0)]
    /\ out_queue' = [s \in Sessions |->
          IF s \in S THEN Push(out_queue[s], written[s] + 1) ELSE out_queue[s]]
    /\ LET starts == {s \in S : ~waiting_write[s]}
       IN /\ waiting_write' = [s \in Sessions |-> waiting_write[s] \/ s \in starts]
          /\ write_op' = [s \in Sessions |->
                IF s \in starts THEN NewOp(open[s])
                ELSE IF open[s] THEN write_op[s] ELSE Abort(write_op[s])]
          /\ in_flight' = [s \in Sessions |->
                IF s \in starts THEN Head(out_queue'[s]) ELSE in_flight[s]]
    /\ UNCHANGED delivered

\* write_to_all(): every registered client gets the message.
WriteToAll ==
    /\ clients # {}
    /\ WriteRaw(clients, is_open)
    /\ UNCHANGED <<alive, listening, clients, waiting_read, closing, is_open,
                   read_op>>

\* session_closed() takes the session out of clients_.
SessionStaysListed(s) == UNCHANGED clients                         \* mutant
SessionClosed(s) == clients' = clients \ {s}

\* Some handler of the session is still due, given its two waiting flags.
BothDue(r, w) == r /\ w                                            \* mutant
HandlerDue(r, w) == r \/ w

\* on_error(), run by the handler that has just cleared its waiting flag
\* (r and w are the flags as it leaves them, rop and wop the operations): the
\* session leaves clients_ and closes its socket, which aborts the operation
\* that waits, and deletes itself when no handler is due.  A deleted session's
\* fields return to those of a new one, whose address it may become.
OnError(s, r, w, rop, wop) ==
    /\ closing' = [closing EXCEPT ![s] = HandlerDue(r, w)]
    /\ SessionClosed(s)
    /\ is_open' = [is_open EXCEPT ![s] = FALSE]
    /\ waiting_read' = [waiting_read EXCEPT ![s] = r]
    /\ waiting_write' = [waiting_write EXCEPT ![s] = w]
    /\ read_op' = [read_op EXCEPT ![s] = Abort(rop)]
    /\ write_op' = [write_op EXCEPT ![s] = Abort(wop)]
    /\ IF HandlerDue(r, w)
         THEN UNCHANGED <<alive, in_flight, output>>
         ELSE /\ alive' = alive \ {s}      \* delete this
              /\ in_flight' = [in_flight EXCEPT ![s] = 0]
              /\ out_queue' = [out_queue EXCEPT ![s] = <<>>]
              /\ written' = [written EXCEPT ![s] = 0]
              /\ delivered' = [delivered EXCEPT ![s] = <<>>]
    /\ UNCHANGED listening

\* handle_read() with data: the protocol may reply with a message, give the
\* connection up (AGWPE's close()), or neither; then it reads again.
HandleReadData(s) ==
    /\ read_op[s] = "ok"
    /\ \E open \in {is_open[s], FALSE}, reply \in {{}, {s}} :
         /\ is_open' = [is_open EXCEPT ![s] = open]
         /\ read_op' = [read_op EXCEPT ![s] = NewOp(open)]
         /\ WriteRaw(reply, is_open')
    /\ waiting_read' = [waiting_read EXCEPT ![s] = TRUE]
    /\ UNCHANGED <<alive, listening, clients, closing>>

HandleReadError(s) ==
    /\ read_op[s] = "error"
    /\ OnError(s, FALSE, waiting_write[s], "none", write_op[s])

MoreThanOne(queue) == Len(queue) > 1                               \* mutant
HasData(queue) == queue # <<>>

\* handle_write() after success: drop the message, write the next one.
HandleWriteDone(s) ==
    /\ write_op[s] = "ok"
    /\ delivered' = [delivered EXCEPT ![s] = Append(@, in_flight[s])]
    /\ out_queue' = [out_queue EXCEPT ![s] = Pop(@)]
    /\ LET more == HasData(out_queue'[s])
       IN /\ waiting_write' = [waiting_write EXCEPT ![s] = more]
          /\ write_op' = [write_op EXCEPT ![s] =
                             IF more THEN NewOp(is_open[s]) ELSE "none"]
          /\ in_flight' = [in_flight EXCEPT ![s] =
                             IF more THEN Head(out_queue'[s]) ELSE 0]
    /\ UNCHANGED <<alive, listening, clients, waiting_read, closing, is_open,
                   read_op, written>>

HandleWriteError(s) ==
    /\ write_op[s] = "error"
    /\ OnError(s, waiting_read[s], FALSE, read_op[s], "none")
-----------------------------------------------------------------------------
Handlers(s) == \/ HandleReadData(s) \/ HandleReadError(s)
               \/ HandleWriteDone(s) \/ HandleWriteError(s)

Next == \/ Accept \/ AcceptError \/ WriteToAll
        \/ \E s \in Sessions :
             \/ ReadCompletes(s) \/ WriteCompletes(s) \/ Handlers(s)

Spec == Init /\ [][Next]_vars

\* run() executes every handler that is ready.
FairSpec == Spec /\ \A s \in Sessions :
                      /\ WF_vars(HandleReadError(s)) /\ WF_vars(HandleWriteError(s))
                      /\ WF_vars(HandleReadData(s)) /\ WF_vars(HandleWriteDone(s))
-----------------------------------------------------------------------------
\* Every variable has its type.
TypeOK ==
    /\ alive \subseteq Sessions /\ listening \in alive
    /\ clients \subseteq Sessions
    /\ \A f \in {waiting_read, waiting_write, closing, is_open} :
          f \in [Sessions -> BOOLEAN]
    /\ \A f \in {read_op, write_op} : f \in [Sessions -> OpState]
    /\ \A f \in {in_flight, written} : f \in [Sessions -> 0..MaxWrites]
    /\ \A f \in {out_queue, delivered} : f \in [Sessions -> Seq(1..MaxWrites)]

\* No handler is ever due on a deleted session, nor on the one that still
\* listens: each raw `this' bound to a handler is valid when the handler runs
\* (tcpserver_base.cpp:49, :63), so `delete this' never leaves one behind and
\* never happens twice.
NoHandlerOnDeletedSession ==
    \A s \in Sessions : read_op[s] # "none" \/ write_op[s] # "none"
        => s \in alive \ {listening}

\* write_to_all() reaches live sessions only, and none that is closing.
ClientsAreLive == \A s \in clients : s \in alive \ {listening} /\ ~closing[s]

\* A registered client always listens to its peer, and its output never stalls:
\* as long as messages wait, a write is outstanding.
ClientsArePumped ==
    \A s \in clients : /\ waiting_read[s] /\ read_op[s] # "none"
                       /\ out_queue[s] # <<>> => write_op[s] # "none"

\* The buffer handed to async_write() stays the front of out_data_queue_ until
\* its handler runs, whatever is appended meanwhile.
InFlightIsFront ==
    \A s \in Sessions : write_op[s] # "none"
        => out_queue[s] # <<>> /\ in_flight[s] = Head(out_queue[s])

\* The peer receives every message of its session once and in order: what was
\* delivered and what waits are together what was written.
StreamIsComplete ==
    \A s \in alive : delivered[s] \o out_queue[s] = [i \in 1..written[s] |-> i]

\* A session that closed but that nothing will delete any more.
Orphan(s) == /\ s \in alive /\ closing[s]
             /\ read_op[s] = "none" /\ write_op[s] = "none"

\* on_error() leaves the deletion to the last outstanding handler, but
\* handle_write() deletes nothing when it succeeds: a session whose last write
\* had completed before its read failed is leaked (tcpserver_base.cpp:87 and
\* :106).  That is the only way to leak one.
OrphanedOnlyByLateWrite ==
    [][\A s \in Sessions : ~Orphan(s) /\ Orphan(s)'
          => closing[s] /\ write_op[s] = "ok" /\ Len(out_queue[s]) = 1]_vars

\* Every session that closes is deleted in the end, but for that leak.
ClosedSessionsAreDeleted ==
    \A s \in Sessions : closing[s] ~> (~closing[s] \/ Orphan(s))
=============================================================================
