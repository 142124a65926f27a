---------------------------- MODULE AgwpeSession ----------------------------
(***************************************************************************)
(* One AGWPE client: agwpe_session::handle_incoming_data and               *)
(* ::handle_agwpe_frame, and agwpe_decode_frame(), in                      *)
(* src/src/tcpserver_agwpe.cpp.  The client sends frames, a header and     *)
(* then data; TCP delivers the bytes in chunks.  The stream is modelled by *)
(* its frames and by how far into it the reads and the decoder are.  One   *)
(* round of the decoding loop is one action; nothing else of the program   *)
(* runs on the session meanwhile.  write() passes received packets on.     *)
(***************************************************************************)
EXTENDS Ax25

CONSTANTS
    Header,       \* bytes of a frame header, 36, scaled down
    MaxData,      \* bytes of raw_data, 512, scaled down
    DataLens,     \* the lengths of data the client's frames carry
    From, To,     \* the call signs in the headers of V frames
    Vias,         \* the repeaters and the text in their data
    PacketSizes,  \* the lengths of the packets that are received
    MaxFrames,    \* BOUND: frames in a behaviour
    MaxPackets,   \* BOUND: packets received in a behaviour
    MaxChunk      \* BOUND: bytes one read delivers (in_data_ holds 4096)

\* The data of a V frame: how many repeaters, a field for each, ten bytes scaled
\* down to one, and the text.
ViaLen(via) == 1 + Len(via.repeaters) + Len(via.text)

ASSUME AgwpeAssumption ==
    /\ Header \in Nat \ {0} /\ MaxData \in Nat \ {0}
    /\ DataLens \subseteq 0..MaxData - 1
    /\ From \in Address /\ To \in Address
    /\ Vias \subseteq [repeaters : Seq(Address), text : Seq(0..255)]
    /\ \A via \in Vias : ViaLen(via) < MaxData
    /\ PacketSizes \subseteq Nat
    /\ MaxFrames \in Nat /\ MaxPackets \in Nat /\ MaxChunk \in Nat

VARIABLES
    sent,        \* history: the frames the client sent
    arrived,     \* bytes of the stream read so far
    cut,         \* history: some read ended inside a frame
    erased,      \* bytes of it erased from inbuff_ again
    pc,          \* "idle", or "decode" inside handle_incoming_data()
    length,      \* its argument: how many bytes this read delivered
    offset,      \* p - inbuff_.data()
    decoded,     \* how many frames of the stream were decoded
    transmitted, \* history: the frames passed to output_packet_to_sc(), and
                 \*   the octets of those composed here
    replies,     \* history: the frames passed to write_raw()
    packets,     \* how many packets write() was called with
    want_raw,    \* want_raw_frames_
    open,        \* FALSE after close()
    defined      \* FALSE once memory outside inbuff_ was read, after which the
                 \*   program's behaviour is undefined

vars == <<sent, arrived, cut, erased, pc, length, offset, decoded, transmitted,
          replies, packets, want_raw, open, defined>>

\* K and V transmit, k toggles the raw stream, R (like G) is answered, M (like P,
\* D, v, and without data X, m, g and others) is only decoded; "bad" has an
\* unknown kind or a length that its kind does not allow.
Plain == [kind : {"k", "R", "bad"}, len : {0}]
WithData == [kind : {"K", "M"}, len : DataLens]
ViaFrame == {[kind |-> "V", len |-> ViaLen(v), via |-> v] : v \in Vias}
Frame == Plain \cup WithData \cup ViaFrame

Init == /\ sent = <<>> /\ arrived = 0 /\ cut = FALSE /\ erased = 0
        /\ pc = "idle" /\ length = 0 /\ offset = 0
        /\ decoded = 0 /\ transmitted = <<>> /\ replies = <<>>
        /\ packets = 0
        /\ want_raw = FALSE /\ open = TRUE /\ defined = TRUE

\* The bytes of the first n frames of the stream.
BytesOf(n) ==
    LET sum[i \in 0..n] == IF i = 0 THEN 0 ELSE sum[i - 1] + Header + sent[i].len
    IN sum[n]
-----------------------------------------------------------------------------
ClientSends ==
    /\ Len(sent) < MaxFrames
    /\ \E f \in Frame : sent' = Append(sent, f)
    /\ UNCHANGED <<arrived, cut, erased, pc, length, offset, decoded, transmitted,
                   replies, packets, want_raw, open, defined>>

\* handle_incoming_data(): append the chunk, start at the front of inbuff_.
Read ==
    /\ pc = "idle" /\ open /\ defined
    /\ \E n \in 1..MaxChunk :
         /\ arrived + n <= BytesOf(Len(sent))
         /\ arrived' = arrived + n
         /\ length' = n
    /\ cut' = (cut \/ \A i \in 1..Len(sent) : arrived' # BytesOf(i))
    /\ offset' = 0 /\ pc' = "decode"
    /\ UNCHANGED <<sent, erased, decoded, transmitted, replies, packets, want_raw,
                   open, defined>>

\* The decoder is told that length - offset bytes are left, though inbuff_ may
\* hold more; once offset exceeds length the unsigned difference is huge.
SeesMoreThanHeader == offset > length \/ length - offset > Header   \* mutant
SeesHeader == offset > length \/ length - offset >= Header
HeaderArrived == erased + offset + Header <= arrived

\* agwpe_decode_frame() returns 0: erase what was decoded and wait.
DecodeNothing ==
    /\ pc = "decode" /\ ~SeesHeader
    /\ erased' = erased + offset
    /\ offset' = 0 /\ pc' = "idle"
    /\ UNCHANGED <<sent, arrived, cut, length, decoded, transmitted, replies,
                   packets, want_raw, open, defined>>

AtFrame(f) == /\ pc = "decode" /\ defined /\ SeesHeader /\ HeaderArrived
              /\ f = sent[decoded + 1]

\* It returns -1: close() the socket; inbuff_ stays as it is.
DecodeBad ==
    /\ \E f \in Frame : AtFrame(f) /\ f.kind = "bad"
    /\ open' = FALSE
    /\ pc' = "idle"
    /\ UNCHANGED <<sent, arrived, cut, erased, length, offset, decoded, transmitted,
                   replies, packets, want_raw, defined>>

\* mutants: the size without the header; the size and one byte.
DataSize(f) == f.len
SizeAndOne(f) == Header + f.len + 1
FrameSize(f) == Header + f.len

Transmits(f) == f.kind \in {"K", "V"}

\* The text of V is a C string: its first zero ends it.
UpToNul(text) ==
    LET nuls == {i \in 1..Len(text) : text[i] = 0}
    IN IF nuls = {} THEN text ELSE SubSeq(text, 1, (CHOOSE i \in nuls : \A j \in nuls : i <= j) - 1)

\* The data of K is passed on but for its first byte, that of V composed.
Compose(f) ==
    IF f.kind = "V" THEN EncodeFrame(From, To, f.via.repeaters, UpToNul(f.via.text))
                    ELSE <<>>

\* The length of K's data less one is an unsigned number.
WrapsAround(f) == f.kind = "K" /\ f.len = 0

\* A reply, and how many frames were decoded before it.
Reply(kind) == Append(replies, [kind |-> kind, at |-> decoded])

\* It returns the frame's size and handle_agwpe_frame() acts on the frame.
DecodeFrame ==
    /\ \E f \in Frame :
         /\ AtFrame(f) /\ f.kind # "bad" /\ ~WrapsAround(f)
         /\ erased + offset + Header + f.len <= arrived
         /\ offset' = offset + FrameSize(f)
         /\ transmitted' = IF Transmits(f)
                             THEN Append(transmitted, [from |-> decoded + 1, octets |-> Compose(f)])
                             ELSE transmitted
         /\ replies' = IF f.kind = "R" THEN Reply("R") ELSE replies
         /\ want_raw' = IF f.kind = "k" THEN ~want_raw ELSE want_raw
    /\ decoded' = decoded + 1
    /\ UNCHANGED <<sent, arrived, cut, erased, pc, length, packets, open, defined>>

\* The header, or the data it announces, reaches beyond the end of inbuff_: the
\* decoder copies what is behind it.  Or a frame of nearly 2^32 bytes is built.
DecodePastEnd ==
    /\ pc = "decode" /\ defined /\ SeesHeader
    /\ \/ ~HeaderArrived
       \/ \E f \in Frame : /\ AtFrame(f)
                           /\ \/ erased + offset + Header + f.len > arrived
                              \/ WrapsAround(f)
    /\ defined' = FALSE
    /\ UNCHANGED <<sent, arrived, cut, erased, pc, length, offset, decoded,
                   transmitted, replies, packets, want_raw, open>>

\* write(): a received packet goes to a client that asked for raw frames, behind a
\* byte for the port.  Nothing checks that raw_data has room for it.
Fits(size) == 1 + size <= MaxData

Write ==
    /\ pc = "idle" /\ open /\ defined /\ packets < MaxPackets
    /\ packets' = packets + 1
    /\ \E size \in PacketSizes :
         /\ replies' = IF want_raw /\ Fits(size) THEN Reply("K") ELSE replies
         /\ defined' = (want_raw => Fits(size))
    /\ UNCHANGED <<sent, arrived, cut, erased, pc, length, offset, decoded,
                   transmitted, want_raw, open>>

Decode == DecodeNothing \/ DecodeBad \/ DecodeFrame \/ DecodePastEnd

Next == ClientSends \/ Read \/ Decode \/ Write

Spec == Init /\ [][Next]_vars

\* The loop of handle_incoming_data() is one call, which runs to its end.
FairSpec == Spec /\ WF_vars(Decode)
-----------------------------------------------------------------------------
\* Every variable has its type, and the decoder is inside the stream.
TypeOK ==
    /\ sent \in Seq(Frame)
    /\ arrived \in 0..BytesOf(Len(sent)) /\ erased \in 0..arrived
    /\ pc \in {"idle", "decode"}
    /\ length \in 0..MaxChunk /\ offset \in 0..(arrived - erased)
    /\ decoded \in 0..Len(sent)
    /\ transmitted \in Seq([from : 1..Len(sent), octets : Seq(0..255)])
    /\ replies \in Seq([kind : {"R", "K"}, at : 0..Len(sent)])
    /\ packets \in 0..MaxPackets
    /\ want_raw \in BOOLEAN /\ open \in BOOLEAN /\ defined \in BOOLEAN

\* The decoder is always where a frame begins, so no data is taken for a header.
AtFrameBoundary == erased + offset = BytesOf(decoded)

\* The frames decoded so far that one of the kinds has, in order.
Decoded(n, kinds) == Chosen(Numbers(n), {i \in 1..n : sent[i].kind \in kinds})

\* The answers to R.
Answers == Chosen(replies, {i \in 1..Len(replies) : replies[i].kind = "R"})

\* Characters that an address has seven bits for and that do not pad it.
Legible(address) ==
    \A i \in 1..Len(address.call) : address.call[i] \in 0..127 \ {Space}
LegibleVia(via) ==
    /\ Legible(From) /\ Legible(To)
    /\ \A k \in 1..Len(via.repeaters) : Legible(via.repeaters[k])

\* What a V frame asks for: call signs cut to six characters, SSIDs to four bits.
Cut(address) == [call |-> SubSeq(address.call, 1, AtMost(CallLen, Len(address.call))),
                 ssid |-> address.ssid % 16]
Meant(via) ==
    <<[from |-> Cut(From), to |-> Cut(To),
       via |-> [k \in 1..Len(via.repeaters) |-> Cut(via.repeaters[k])],
       control |-> <<UIFrame>>, info |-> UpToNul(via.text)]>>

\* Every frame decoded has had its effect, once and in order, and none behind a bad
\* one: K and V are transmitted, and a station that prints what V sent reads the
\* addresses, if they are legible, and the text it was given; each R is answered;
\* and packets are passed on after an odd number of k only.
HandledInOrder ==
    /\ Decoded(decoded, {"bad"}) = <<>>
    /\ Decoded(decoded, {"K", "V"}) = [i \in 1..Len(transmitted) |-> transmitted[i].from]
    /\ \A i \in 1..Len(transmitted) :
         LET f == sent[transmitted[i].from]
         IN f.kind = "V" /\ LegibleVia(f.via) => Printed(transmitted[i].octets) = Meant(f.via)
    /\ Len(Decoded(decoded, {"R"})) = Len(Answers)
    /\ \A i \in 1..Len(replies) :
         replies[i].kind = "K" => Len(Decoded(replies[i].at, {"k"})) % 2 = 1

\* A client whose reads all end where frames end has every frame handled as it
\* arrives, and nothing read that did not arrive: the program stays defined but
\* for a K frame without data (tcpserver_agwpe.cpp:445) and a packet that
\* raw_data has no room for (:515).
WholeFramesAreHandled ==
    ~cut => /\ pc = "idle" /\ open /\ defined => BytesOf(decoded) = arrived
            /\ defined \/ IF pc = "idle" THEN want_raw /\ \E size \in PacketSizes : ~Fits(size)
                           ELSE WrapsAround(sent[decoded + 1])

\* tcpserver_agwpe.cpp:162: agwpe_decode_frame() "Returns -1 on error, 0 on
\* insufficient data, else the read size of the new frame", so when the header is
\* there but not all of its data it copies none ...
WaitsForWholeFrame ==
    pc = "decode" /\ ~defined /\ HeaderArrived => BytesOf(decoded + 1) <= arrived

\* ... and leaves no frame that has arrived whole.
NothingWholeIsLeft ==
    pc = "idle" /\ open /\ defined /\ decoded < Len(sent)
        => BytesOf(decoded + 1) > arrived

\* Less than that line says: of its two promises, a connection on which every call
\* of the decoder comes to its end sees at least one kept throughout.  What refutes
\* this refutes both.
ReturnsSizeOrZero == []WaitsForWholeFrame \/ []NothingWholeIsLeft
=============================================================================
