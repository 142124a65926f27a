---------------------------- MODULE Transmitter ----------------------------
(***************************************************************************)
(* What the transmit side of the modem promises to the clients that submit *)
(* frames: accepted waveforms wait in a bounded backlog, go on the line in *)
(* the order they were accepted, each one sample after the other from its  *)
(* first to its last, and silence is only ever heard between waveforms.    *)
(* Encoder.tla refines this.                                               *)
(***************************************************************************)
EXTENDS Integers, Sequences

CONSTANTS MaxQueue,   \* a frame is accepted while at most MaxQueue wait
          Wave        \* [id, size]: a rendered frame and its sample count

VARIABLES backlog,    \* the accepted waveforms not finished yet
          pos,        \* samples of Head(backlog) already on the line
          line        \* the last sample put on the line

tvars == <<backlog, pos, line>>

Silence == [id |-> 0, k |-> 0]

TInit == backlog = <<>> /\ pos = 0 /\ line = Silence

Accept == /\ Len(backlog) <= MaxQueue
          /\ \E w \in Wave : backlog' = Append(backlog, w)
          /\ UNCHANGED <<pos, line>>

Sound == /\ backlog # <<>>
         /\ pos < Head(backlog).size
         /\ line' = [id |-> Head(backlog).id, k |-> pos + 1]
         /\ pos' = pos + 1
         /\ UNCHANGED backlog

Retire == /\ backlog # <<>>
          /\ pos = Head(backlog).size
          /\ backlog' = Tail(backlog)
          /\ pos' = 0
          /\ UNCHANGED line

Quiet == /\ pos = 0
         /\ line' = Silence
         /\ UNCHANGED <<backlog, pos>>

TNext == Accept \/ Sound \/ Retire \/ Quiet

TSpec == TInit /\ [][TNext]_tvars
=============================================================================
