---------------------------- MODULE KissSession ----------------------------
(***************************************************************************)
(* One KISS client: it submits frames over TCP, which delivers the bytes   *)
(* in chunks of any size; kiss_session::handle_incoming_data in            *)
(* src/src/tcpserver_kiss.cpp collects them in inbuff_, cuts frames out    *)
(* and hands them to the transmitter.  In the other direction              *)
(* kiss_session::write encodes a received frame for the client, which      *)
(* decodes the stream with the rules kiss.cpp quotes.                      *)
(***************************************************************************)
EXTENDS Kiss, Selection

CONSTANTS
    Payloads,    \* frames the client submits
    Noise,       \* byte sequences without FEND it may send between frames
    Packets,     \* frames that are received on the air
    MaxFrames,   \* BOUND: frames submitted in a behaviour
    MaxPackets,  \* BOUND: packets relayed to the client
    MaxChunk,    \* BOUND: bytes one read delivers (in_data_ holds 4096)
    UInt,        \* the values of `unsigned int', 2^32, scaled down
    Pointer      \* the values of a pointer difference, UInt on a 32-bit build
                 \*   and larger on a 64-bit one

ASSUME KissAssumption ==
    /\ Payloads \subseteq Seq(0..255) /\ Packets \subseteq Seq(0..255)
    /\ Noise \subseteq Seq(0..255 \ {FEND})
    /\ MaxFrames \in Nat /\ MaxPackets \in Nat /\ MaxChunk \in Nat
    /\ UInt \in Nat \ {0} /\ Pointer \in Nat /\ Pointer >= UInt

\* A frame and what is read behind it can be counted with an `unsigned int'.
ASSUME SizeAssumption ==
    /\ MaxChunk < UInt
    /\ \A data \in Payloads : Len(KissEncode(data)) + MaxChunk <= UInt

VARIABLES
    sent,        \* history: the frames the client submitted
    wire,        \* the bytes on their way
    inbuff,      \* inbuff_
    submitted,   \* history: what output_packet_to_sc() was called with
    relayed,     \* history: the packets write() was called with
    to_client,   \* the bytes written to the client
    defined      \* FALSE once inbuff_.erase() was called with a bad range,
                 \*   after which the program's behaviour is undefined

upstream == <<sent, wire, inbuff, submitted, defined>>
vars == <<upstream, relayed, to_client>>

Init == /\ sent = <<>> /\ wire = <<>> /\ inbuff = <<>>
        /\ submitted = <<>> /\ defined = TRUE
        /\ relayed = <<>> /\ to_client = <<>>
-----------------------------------------------------------------------------
\* The client writes a frame, preceded by bytes that belong to none.
ClientSends ==
    /\ Len(sent) < MaxFrames
    /\ \E data \in Payloads, junk \in Noise :
         /\ sent' = Append(sent, data)
         /\ wire' = wire \o junk \o KissEncode(data)
    /\ UNCHANGED <<inbuff, submitted, defined, relayed, to_client>>

\* kiss_session::write()
Write ==
    /\ Len(relayed) < MaxPackets
    /\ \E data \in Packets : /\ relayed' = Append(relayed, data)
                             /\ to_client' = to_client \o KissEncode(data)
    /\ UNCHANGED upstream
-----------------------------------------------------------------------------
\* The positions of the FENDs in a buffer, in order.
Fends(buf) == Chosen(Numbers(Len(buf)), {i \in 1..Len(buf) : buf[i] = FEND})

\* The scan pairs the FENDs off: the first opens a frame, the second closes
\* it, the third opens the next one.  Rejected and empty frames are skipped.
FramesIn(buf) ==
    LET f == Fends(buf)
        decoded == [k \in 1..(Len(f) \div 2) |->
                      KissDecode(SubSeq(buf, f[2 * k - 1], f[2 * k]))]
    IN Chosen([k \in 1..Len(decoded) |-> decoded[k].data],
              {k \in 1..Len(decoded) : decoded[k].ok /\ decoded[k].data # <<>>})

\* mutant: the FEND that opens the unfinished frame is used up.
LastGoodPosAtFend(buf) ==
    LET f == Fends(buf)
    IN (IF Len(f) % 2 = 1 THEN Last(f) - 1 ELSE Len(buf) - 1) % UInt

\* last_good_pos, an unsigned int: the last byte (from 0) that is used up, that
\* is all of them, or those before a FEND whose partner has not come yet.
LastGoodPos(buf) ==
    LET f == Fends(buf)
    IN (IF Len(f) % 2 = 1 THEN Last(f) - 2 ELSE Len(buf) - 1) % UInt

\* inbuff_.begin() + last_good_pos + 1, pointer arithmetic.
Erased(buf) == (LastGoodPos(buf) + 1) % Pointer

HandleIncomingData ==
    /\ defined
    /\ \E n \in 1..MaxChunk :
         /\ n <= Len(wire)
         /\ wire' = SubSeq(wire, n + 1, Len(wire))
         /\ LET buf == inbuff \o SubSeq(wire, 1, n)
            IN /\ submitted' = submitted \o FramesIn(buf)
               /\ defined' = (Erased(buf) <= Len(buf))
               /\ inbuff' = SubSeq(buf, Erased(buf) + 1, Len(buf))
    /\ UNCHANGED <<sent, relayed, to_client>>

Next == ClientSends \/ Write \/ HandleIncomingData

Spec == Init /\ [][Next]_vars
-----------------------------------------------------------------------------
\* Every variable has its type.
TypeOK ==
    /\ sent \in Seq(Payloads)
    /\ \A s \in {wire, inbuff, to_client} : s \in Seq(0..255)
    /\ submitted \in Seq(Seq(0..255))
    /\ defined \in BOOLEAN
    /\ relayed \in Seq(Packets)

\* However TCP cuts the stream, the transmitter gets the client's frames, each
\* whole, once and in order, up to those still under way, but for the frames
\* that carry an FESC: they are dropped (kiss.cpp:91), as those without data are,
\* never garbled, and take no other with them.  Nothing stays in inbuff_ but one
\* unfinished frame.
Intact(data) == data # <<>> /\ \A i \in 1..Len(data) : data[i] # FESC
Decodable(frames) == Chosen(frames, {k \in 1..Len(frames) : Intact(frames[k])})
FramesSurviveChunks ==
    /\ IsPrefix(submitted, Decodable(sent))
    /\ wire = <<>> => submitted = Decodable(sent)
    /\ defined /\ inbuff # <<>> => Head(inbuff) = FEND /\ Len(Fends(inbuff)) = 1

\* The rules of kiss.cpp:44-62 as a client reads them: frames lie between FENDs,
\* begin with a type byte, and FESC introduces a transposed byte.
Standard(body) ==
    LET data[k \in 0..Len(body)] ==
          IF k <= 1 THEN <<>>
          ELSE IF body[k] = FESC THEN data[k - 1]
          ELSE Append(data[k - 1],
                      IF body[k - 1] = FESC /\ body[k] = TFEND THEN FEND
                      ELSE IF body[k - 1] = FESC /\ body[k] = TFESC THEN FESC
                      ELSE body[k])
    IN data[Len(body)]

\* A client that follows the rules reads every packet as it was received, in
\* order, whatever bytes the packets carry.
ClientReadsEveryPacket ==
    LET f == Fends(to_client)
    IN relayed = [k \in 1..(Len(f) \div 2) |->
                    Standard(SubSeq(to_client, f[2 * k - 1] + 1, f[2 * k] - 1))]

\* README.md:104: "You can use any TCP KISS capable program to send and receive
\* packets".  A frame is received whatever data it carries ...
AnyDataIsReceived == wire = <<>> => Len(submitted) = Len(sent)

\* ... and however the reads cut it.
SplitFramesAreReceived == defined
=============================================================================
