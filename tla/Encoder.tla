------------------------------ MODULE Encoder ------------------------------
(***************************************************************************)
(* The transmit path, src/src/encoder_af1200stj.cpp.  The io_service       *)
(* thread calls send() for every frame a client submits; the audio thread  *)
(* calls output_callback() whenever the sound driver wants a buffer.  They *)
(* share out_queue_ and the PTT under out_queue_mutex_.  Each block the    *)
(* code runs under the mutex is one action; between two such blocks the    *)
(* other thread may run.  A rendered frame is abstracted to its length.    *)
(***************************************************************************)
EXTENDS Integers, Sequences

CONSTANTS Sizes,      \* the sample counts a rendered frame may have
          MaxSends,   \* BOUND: calls of send() in a behaviour
          MaxQueue,   \* send() drops the frame when more than this wait (5)
          Channels,   \* get_out_channel_count()
          BufSize     \* the length argument of output_callback()

ASSUME EncoderAssumption ==
    /\ Sizes \subseteq Nat \ {0}   \* the CRC alone renders sixteen symbols
    /\ MaxSends \in Nat
    /\ MaxQueue \in Nat
    /\ Channels \in Nat
    /\ BufSize \in Nat

VARIABLES
    sent,       \* calls of send() so far; numbers the waveforms
    sender,     \* "idle", or "render" after the queue was found short enough
    out,        \* the waveform send() is rendering
    out_queue,  \* the waveforms waiting for the sound card
    out_ptr,    \* out_queue_ptr_: samples of the front one already copied
    keyed,      \* ptt_->get_tx()
    audio,      \* where output_callback() stands
    p,          \* its local copy of the front waveform
    buffer,     \* the elements it has written so far
    line        \* history: the last element written to any buffer

vars == <<sent, sender, out, out_queue, out_ptr, keyed, audio, p, buffer, line>>

Wave == [id : 1..MaxSends, size : Sizes]
NoWave == [id |-> 0, size |-> 0]
Silence == [id |-> 0, k |-> 0]
Cell == [id : 0..MaxSends, k : Nat]

Init == /\ sent = 0 /\ sender = "idle" /\ out = NoWave
        /\ out_queue = <<>> /\ out_ptr = 0
        /\ keyed = FALSE
        /\ audio = "idle" /\ p = NoWave /\ buffer = <<>> /\ line = Silence

audioVars == <<out_ptr, keyed, audio, p, buffer, line>>
sendVars == <<sent, sender, out>>
-----------------------------------------------------------------------------
(* send(): look at the queue under the mutex, render the frame without it, *)
(* take the mutex again to append the waveform.                            *)

QueueIsNotTooLong == Len(out_queue) <= MaxQueue + 1                \* mutant
QueueIsShort == Len(out_queue) <= MaxQueue

SendDrop ==
    /\ sender = "idle" /\ sent < MaxSends
    /\ ~QueueIsShort
    /\ sent' = sent + 1
    /\ UNCHANGED <<sender, out, out_queue, audioVars>>

SendRender ==
    /\ sender = "idle" /\ sent < MaxSends
    /\ QueueIsShort
    /\ sent' = sent + 1
    /\ \E n \in Sizes : out' = [id |-> sent + 1, size |-> n]
    /\ sender' = "render"
    /\ UNCHANGED <<out_queue, audioVars>>

\* mutant: out is reset before it is appended.
SendPushAfterReset ==
    /\ sender = "render"
    /\ out' = NoWave
    /\ out_queue' = Append(out_queue, out')
    /\ sender' = "idle"
    /\ UNCHANGED <<sent, audioVars>>

SendPush ==
    /\ sender = "render"
    /\ out_queue' = Append(out_queue, out)
    /\ out' = NoWave
    /\ sender' = "idle"
    /\ UNCHANGED <<sent, audioVars>>
-----------------------------------------------------------------------------
(* output_callback(): key the transmitter if something waits, copy samples *)
(* until the buffer is full or the queue empty, pad with silence, and      *)
(* release the transmitter if nothing waits any more.                      *)

KeyedAtFirstSample == keyed \/ (out_queue # <<>> /\ out_ptr = 0)   \* mutant
KeyedOnEntry == keyed \/ out_queue # <<>>

CallbackEnter ==
    /\ audio = "idle"
    /\ keyed' = KeyedOnEntry
    /\ buffer' = <<>>
    /\ audio' = IF Channels >= 1 THEN "front" ELSE "fill"
    /\ UNCHANGED <<out_queue, out_ptr, p, line, sendVars>>

CallbackFront ==
    /\ audio = "front"
    /\ Len(buffer) < BufSize /\ out_queue # <<>>
    /\ p' = Head(out_queue)
    /\ audio' = "copy"
    /\ UNCHANGED <<out_queue, out_ptr, keyed, buffer, line, sendVars>>

CallbackLeaveLoop ==
    /\ audio = "front"
    /\ Len(buffer) >= BufSize \/ out_queue = <<>>
    /\ audio' = "fill"
    /\ UNCHANGED <<out_queue, out_ptr, keyed, p, buffer, line, sendVars>>

CopyWholeWave == out_ptr < p.size                                  \* mutant
CopyRoom == Len(buffer) < BufSize /\ out_ptr < p.size

\* One sample of the waveform goes to every channel.
CallbackCopy ==
    /\ audio = "copy"
    /\ CopyRoom
    /\ line' = [id |-> p.id, k |-> out_ptr + 1]
    /\ buffer' = buffer \o [c \in 1..Channels |-> line']
    /\ out_ptr' = out_ptr + 1
    /\ UNCHANGED <<out_queue, keyed, audio, p, sendVars>>

LastSampleLeft == out_ptr + 1 >= p.size                            \* mutant
PassedTheEnd == out_ptr > p.size                                   \* mutant
Finished == out_ptr = p.size

CallbackPop ==
    /\ audio = "copy"
    /\ ~CopyRoom
    /\ IF Finished
         THEN out_queue' = Tail(out_queue) /\ out_ptr' = 0
         ELSE UNCHANGED <<out_queue, out_ptr>>
    /\ audio' = "front"
    /\ UNCHANGED <<keyed, p, buffer, line, sendVars>>

CallbackFill ==
    /\ audio = "fill"
    /\ IF Len(buffer) < BufSize
         THEN /\ buffer' = buffer \o [j \in 1..(BufSize - Len(buffer)) |-> Silence]
              /\ line' = Silence
         ELSE UNCHANGED <<buffer, line>>
    /\ audio' = "unkey"
    /\ UNCHANGED <<out_queue, out_ptr, keyed, p, sendVars>>

StaysKeyed == keyed                                                \* mutant
KeyedOnReturn == keyed /\ out_queue # <<>>

CallbackReturn ==
    /\ audio = "unkey"
    /\ keyed' = KeyedOnReturn
    /\ audio' = "idle"
    /\ UNCHANGED <<out_queue, out_ptr, p, buffer, line, sendVars>>
-----------------------------------------------------------------------------
Send == SendDrop \/ SendRender \/ SendPush

OutputCallback ==
    \/ CallbackEnter \/ CallbackFront \/ CallbackLeaveLoop
    \/ CallbackCopy \/ CallbackPop \/ CallbackFill \/ CallbackReturn

Next == Send \/ OutputCallback

Spec == Init /\ [][Next]_vars

\* The driver asks for buffers for ever and the callback never blocks but on
\* the mutex, held for a few instructions; send() finishes what it began.
FairSpec == Spec /\ WF_vars(OutputCallback) /\ WF_vars(SendPush)
-----------------------------------------------------------------------------
\* Every variable has its type.
TypeOK ==
    /\ sent \in 0..MaxSends
    /\ sender \in {"idle", "render"}
    /\ out \in Wave \cup {NoWave}
    /\ out_queue \in Seq(Wave)
    /\ out_ptr \in Nat
    /\ keyed \in BOOLEAN
    /\ audio \in {"idle", "front", "copy", "fill", "unkey"}
    /\ p \in Wave \cup {NoWave}
    /\ buffer \in Seq(Cell)
    /\ line \in Cell

\* The queue never holds more than MaxQueue + 1 waveforms although send()
\* checks its length in one critical section and appends in another: the
\* waveform being rendered is counted (encoder_af1200stj.cpp:195 and :244).
BacklogBound ==
    Len(out_queue) + (IF sender = "render" THEN 1 ELSE 0) <= MaxQueue + 1

\* The copy loop advances by Channels elements per sample and tests the room
\* once per sample: it stays inside the buffer when the buffer holds whole
\* frames of all channels, and is short of one frame past its end otherwise.
NoOverrun ==
    Len(buffer) <= IF Channels >= 1 /\ BufSize % Channels # 0
                     THEN BufSize + Channels - 1 ELSE BufSize

\* A waveform that began in an earlier callback is only ever continued with the
\* transmitter keyed, and its PTT is not released before its last sample is
\* written.  (The first buffer of a waveform may go out unkeyed: it can be
\* queued after the callback looked at the PTT.)
ResumedWaveIsKeyed ==
    audio \in {"front", "copy", "fill", "unkey"} /\ out_ptr * Channels > Len(buffer)
        => keyed

\* Between two callbacks the transmitter is keyed only if a waveform waits.
NotKeyedForNothing == audio = "idle" /\ keyed => out_queue # <<>>

\* Samples leave in order, each waveform complete and without a gap, and the
\* backlog obeys the drop rule: the encoder implements Transmitter.
Transmit == INSTANCE Transmitter WITH backlog <- out_queue, pos <- out_ptr
TransmitSpec == Transmit!TSpec

\* Every waveform that enters the queue is played to its end.
Queued(n) == \E i \in 1..Len(out_queue) : out_queue[i].id = n
EveryWaveIsPlayed == \A n \in 1..MaxSends : Queued(n) ~> ~Queued(n)

\* The transmitter does not stay keyed once the clients fall silent.
TransmitterIsReleased == keyed ~> ~keyed
=============================================================================
