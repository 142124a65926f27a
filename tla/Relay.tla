------------------------------- MODULE Relay -------------------------------
(***************************************************************************)
(* The receive path from the decoders to the TCP clients:                  *)
(* modem::input_callback and ::dispatch_packet in src/src/extmodem.cpp,    *)
(* tcpserver::write_to_all_safe and ::flush_output_queue in                *)
(* src/src/tcpserver.cpp.  The audio thread feeds every buffer to several  *)
(* decoders, which may all decode the same transmission; dispatch_packet   *)
(* suppresses a packet whose CRC is that of the previous one and queues    *)
(* the others under output_queue_mutex_ for the main thread, to which it   *)
(* then posts a flush.  A packet is abstracted to its CRC.                 *)
(***************************************************************************)
EXTENDS Integers, Sequences

CONSTANTS
    NumDecoders,    \* decoders of the enabled channels, called in this order
    Buffering,      \* those that collect samples over callbacks (mm)
    Crcs,           \* CRCs of the packets on the air; 0 is one of 65536
    MaxAir,         \* BOUND: transmissions in a behaviour
    MaxBatch,       \* BOUND: transmissions that end within one audio buffer
    KissClients, AgwpeClients

ASSUME RelayAssumption ==
    /\ NumDecoders \in Nat /\ MaxAir \in Nat /\ MaxBatch \in Nat
    /\ Buffering \subseteq 1..NumDecoders
    /\ Crcs \subseteq Nat
    /\ KissClients \cap AgwpeClients = {}

VARIABLES
    air,            \* history: the CRCs of the transmissions so far
    to_decode,      \* per decoder: transmissions in samples it has not judged
    overlapped,     \* history: a decoder had two transmissions to judge at once
    heard,          \* history: the transmissions some decoder decoded
    audio,          \* "idle", "decode" or "post" (pushed, flush not posted yet)
    decoder,        \* the decoder input_callback() is at
    last_crc,       \* last_packet_crc_
    output_queue,   \* output_queue_, as positions in log
    log,            \* history: the transmissions dispatched, in order
    posted,         \* flush_output_queue handlers waiting in the io_service
    running,        \* io_service_.run() has been called
    subscribed,     \* the clients in clients_ of either server
    raw,            \* the AGWPE clients with want_raw_frames_
    joined,         \* history: how much of log was flushed when a client came
    stream          \* what write() was called with on each client

Clients == KissClients \cup AgwpeClients
radio == <<air, to_decode, overlapped, heard, decoder, last_crc>>
relay == <<output_queue, log, posted>>
network == <<running, subscribed, raw, joined, stream>>
vars == <<radio, audio, relay, network>>

Init ==
    /\ air = <<>> /\ heard = {} /\ overlapped = FALSE
    /\ to_decode = [d \in 1..NumDecoders |-> <<>>]
    /\ audio = "idle" /\ decoder = 1 /\ last_crc = 0
    /\ output_queue = <<>> /\ log = <<>> /\ posted = 0
    /\ running = FALSE /\ subscribed = {} /\ raw = {}
    /\ joined = [c \in Clients |-> 0]
    /\ stream = [c \in Clients |-> <<>>]

\* How many of the dispatched packets have been written to the clients.
flushed == Len(log) - Len(output_queue)
-----------------------------------------------------------------------------
(* The audio thread.                                                       *)

\* A buffer arrives; the ends of the transmissions crcs are in it.
InputCallback ==
    /\ audio = "idle"
    /\ \E n \in 0..MaxBatch : \E crcs \in [1..n -> Crcs] :
         /\ Len(air) + n <= MaxAir
         /\ air' = air \o crcs
         /\ to_decode' = [d \in 1..NumDecoders |->
                            to_decode[d] \o [i \in 1..n |-> Len(air) + i]]
         /\ overlapped' = (overlapped \/ \E d \in 1..NumDecoders : Len(to_decode'[d]) > 1)
    /\ audio' = "decode" /\ decoder' = 1
    /\ UNCHANGED <<heard, last_crc, relay, network>>

AtPacket == /\ audio = "decode" /\ decoder <= NumDecoders
            /\ to_decode[decoder] # <<>>

DropSamples == to_decode' = [to_decode EXCEPT ![decoder] = Tail(@)]

\* The decoder cannot make the packet out, or its CRC is bad.
Miss ==
    /\ AtPacket
    /\ DropSamples
    /\ UNCHANGED <<air, overlapped, heard, decoder, last_crc, audio, relay, network>>

IsRepeatInLowBit(crc) == crc % 2 = last_crc % 2                    \* mutant
NeverRepeat(crc) == FALSE                                          \* mutant
IsRepeat(crc) == crc = last_crc

\* dispatch_packet() with a new packet: push it, the flush is posted next.
Dispatch ==
    /\ AtPacket
    /\ LET t == Head(to_decode[decoder])
       IN /\ ~IsRepeat(air[t])
          /\ last_crc' = air[t]
          /\ heard' = heard \cup {t}
          /\ log' = Append(log, t)
          /\ output_queue' = Append(output_queue, Len(log) + 1)
    /\ DropSamples
    /\ audio' = "post"
    /\ UNCHANGED <<air, overlapped, decoder, posted, network>>

\* dispatch_packet() with the CRC of the previous packet: nothing happens.
Suppress ==
    /\ AtPacket
    /\ LET t == Head(to_decode[decoder])
       IN /\ IsRepeat(air[t])
          /\ heard' = heard \cup {t}
    /\ DropSamples
    /\ UNCHANGED <<air, overlapped, decoder, last_crc, audio, relay, network>>

PostIfRunning ==                                                   \* mutant
    /\ audio = "post"
    /\ posted' = posted + (IF running THEN 1 ELSE 0)
    /\ audio' = "decode"
    /\ UNCHANGED <<radio, output_queue, log, network>>

PostFlush ==
    /\ audio = "post"
    /\ posted' = posted + 1
    /\ audio' = "decode"
    /\ UNCHANGED <<radio, output_queue, log, network>>

\* The decoder is through with its samples, or waits for more of them.
NextDecoder ==
    /\ audio = "decode" /\ decoder <= NumDecoders
    /\ to_decode[decoder] = <<>> \/ decoder \in Buffering
    /\ decoder' = decoder + 1
    /\ UNCHANGED <<air, to_decode, overlapped, heard, last_crc, audio, relay, network>>

CallbackReturns ==
    /\ audio = "decode" /\ decoder > NumDecoders
    /\ audio' = "idle"
    /\ UNCHANGED <<radio, relay, network>>
-----------------------------------------------------------------------------
(* The main thread.                                                        *)

\* start_and_run() reaches io_service_.run() after the audio threads started.
Run == /\ ~running
       /\ running' = TRUE
       /\ UNCHANGED <<radio, audio, relay, subscribed, raw, joined, stream>>

FlushUnasked == running /\ posted >= 0                             \* mutant
FlushDue == running /\ posted > 0

\* write_to_all() and write(): a KISS client gets the frame, an AGWPE one if it
\* wants raw frames.
RawClientsOnly(c) == c \in subscribed \cap raw                      \* mutant
Receives(c) == c \in subscribed /\ (c \in AgwpeClients => c \in raw)

PopOne(queue) == SubSeq(queue, 2, Len(queue))                      \* mutant
PopAll(queue) == <<>>

\* flush_output_queue() writes all that is queued to all that are connected.
Flush ==
    /\ FlushDue
    /\ posted' = posted - 1
    /\ output_queue' = PopAll(output_queue)
    /\ stream' = [c \in Clients |->
          IF Receives(c) THEN stream[c] \o output_queue ELSE stream[c]]
    /\ UNCHANGED <<radio, audio, log, running, subscribed, raw, joined>>

Join(c) ==
    /\ running /\ c \notin subscribed
    /\ subscribed' = subscribed \cup {c}
    /\ joined' = [joined EXCEPT ![c] = flushed]
    /\ UNCHANGED <<radio, audio, relay, running, raw, stream>>

\* The session object, and want_raw_frames_ with it, is gone.
Leave(c) ==
    /\ c \in subscribed
    /\ subscribed' = subscribed \ {c}
    /\ raw' = raw \ {c}
    /\ joined' = [joined EXCEPT ![c] = 0]
    /\ stream' = [stream EXCEPT ![c] = <<>>]
    /\ UNCHANGED <<radio, audio, relay, running>>

\* AGWPE's `k' frame turns the raw stream on, or off again.
ToggleRaw(c) ==
    /\ c \in subscribed \cap AgwpeClients
    /\ raw' = IF c \in raw THEN raw \ {c} ELSE raw \cup {c}
    /\ UNCHANGED <<radio, audio, relay, running, subscribed, joined, stream>>
-----------------------------------------------------------------------------
Audio == \/ InputCallback \/ Miss \/ Dispatch \/ Suppress \/ PostFlush
         \/ NextDecoder \/ CallbackReturns

Next == \/ Audio \/ Run \/ Flush
        \/ \E c \in Clients : Join(c) \/ Leave(c) \/ ToggleRaw(c)

Spec == Init /\ [][Next]_vars

\* run() is reached, executes what is posted, and dispatch_packet() returns.
FairSpec == Spec /\ WF_vars(Run) /\ WF_vars(Flush) /\ WF_vars(PostFlush)
-----------------------------------------------------------------------------
\* Every variable has its type.
TypeOK ==
    /\ air \in Seq(Crcs)
    /\ to_decode \in [1..NumDecoders -> Seq(1..Len(air))]
    /\ heard \subseteq 1..Len(air) /\ overlapped \in BOOLEAN
    /\ audio \in {"idle", "decode", "post"}
    /\ decoder \in 1..(NumDecoders + 1)
    /\ last_crc \in Nat
    /\ log \in Seq(1..Len(air))
    /\ output_queue \in Seq(1..Len(log))
    /\ posted \in Nat
    /\ running \in BOOLEAN
    /\ subscribed \subseteq Clients /\ raw \subseteq AgwpeClients
    /\ joined \in [Clients -> 0..Len(log)]
    /\ stream \in [Clients -> Seq(1..Len(log))]

\* No packet is stranded in the queue: whenever one waits, a flush is posted or
\* about to be, although the push and the post are not one step and an earlier
\* flush may already have taken the packet (tcpserver.cpp:82 and :86).
NothingStranded == output_queue # <<>> => posted > 0 \/ audio = "post"

\* A KISS client that stays receives every packet dispatched since it came,
\* each once and in the order of the dispatches.
KissStreamIsSegment ==
    \A c \in subscribed \cap KissClients :
        stream[c] = [i \in 1..(flushed - joined[c]) |-> joined[c] + i]

\* The queue, the two threads and the posted flushes are invisible: each flush gives
\* all that is pending, once and in order, to every KISS client connected then
\* and to the AGWPE clients that want raw frames then, and nothing else is ever
\* written to one (flush_output_queue() pops what it writes to both servers).
Abstract == INSTANCE Broadcast WITH
    Packets <- 1..MaxAir, Everyone <- Clients, Loyal <- KissClients,
    given <- flushed, members <- subscribed
BroadcastSpec == Abstract!BSpec

\* Transmission t repeats the last packet dispatched until its end, which may be t
\* itself, or the 0 that last_packet_crc_ starts with (extmodem.h:114).
RepeatsLastDispatched(t) ==
    LET until == {i \in 1..Len(log) : log[i] <= t}
    IN \/ \E i \in until : /\ air[log[i]] = air[t]
                           /\ \A j \in until : log[j] <= log[i]
       \/ until = {} /\ air[t] = 0

\* What some decoder heard is dispatched, or its CRC was dispatched already or is 0.
\* As long as each decoder has judged one transmission before the next ends, it is
\* suppressed only for the CRC of the packet dispatched last before it, or for a 0
\* before any was, whatever other decoders miss.
HeardIsDispatched ==
    \A t \in heard :
        /\ air[t] = 0 \/ \E i \in 1..Len(log) : air[log[i]] = air[t]
        /\ ~overlapped => RepeatsLastDispatched(t)

\* As long as each decoder has judged one transmission before the next ends, a
\* transmission is relayed at most once and in the order on the air, however many
\* decoders hear it: remembering one CRC is then enough.
RelayedOnce ==
    ~overlapped => \A i, j \in 1..Len(log) : i < j => log[i] < log[j]

\* Every packet dispatched is written to the clients in the end.
QueueIsFlushed == output_queue # <<>> ~> output_queue = <<>>
=============================================================================
