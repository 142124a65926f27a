----------------------------- MODULE Broadcast -----------------------------
(***************************************************************************)
(* What the receive side promises to the clients: every packet the modem   *)
(* announces is given out exactly once, all that is pending at a time and  *)
(* in the order announced, to every member that is loyal and to those of   *)
(* the others that want it at that moment.  No decoder, thread, queue or   *)
(* posted handler is seen here.  Relay.tla implements this.                *)
(***************************************************************************)
EXTENDS Integers, Sequences

CONSTANTS Packets,    \* what may be announced
          Everyone,   \* those who may become members
          Loyal       \* those who take everything while they are members

VARIABLES log,        \* the packets announced, in order
          given,      \* how many of them were given out
          members,
          stream      \* per member, the positions in log it was given

bvars == <<log, given, members, stream>>

BInit == /\ log = <<>> /\ given = 0 /\ members = {}
         /\ stream = [c \in Everyone |-> <<>>]

Announce == /\ \E p \in Packets : log' = Append(log, p)
            /\ UNCHANGED <<given, members, stream>>

Pending == [i \in 1..(Len(log) - given) |-> given + i]

GiveOut == /\ given' = Len(log)
           /\ \E takers \in SUBSET members :
                /\ members \cap Loyal \subseteq takers
                /\ stream' = [c \in Everyone |->
                      IF c \in takers THEN stream[c] \o Pending ELSE stream[c]]
           /\ UNCHANGED <<log, members>>

Come(c) == /\ c \notin members
           /\ members' = members \cup {c}
           /\ UNCHANGED <<log, given, stream>>

\* A member that leaves and comes again starts afresh.
Go(c) == /\ c \in members
         /\ members' = members \ {c}
         /\ stream' = [stream EXCEPT ![c] = <<>>]
         /\ UNCHANGED <<log, given>>

BNext == Announce \/ GiveOut \/ \E c \in Everyone : Come(c) \/ Go(c)

BSpec == BInit /\ [][BNext]_bvars
=============================================================================
