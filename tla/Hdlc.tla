-------------------------------- MODULE Hdlc --------------------------------
(***************************************************************************)
(* The HDLC deframer every decoder feeds its bits to, src/src/hdlc.cpp.    *)
(* rxbit() is one action with a disjunct for each way out of it.           *)
(***************************************************************************)
EXTENDS Crc

CONSTANT RxBufSize    \* sizeof(rxbuf), 1024

ASSUME HdlcAssumption == RxBufSize \in Nat

VARIABLES
    rxbitstream,    \* the last eight bits, the newest last
    rxstate,        \* a flag was seen and nothing went wrong since
    rxbits,         \* rxbitbuf: the bits of the byte being assembled
    rxbuf,          \* the bytes since the flag
    dispatched      \* history: the frames given to modem::dispatch_packet()

hdlcVars == <<rxbitstream, rxstate, rxbits, rxbuf, dispatched>>

Flag == <<0, 1, 1, 1, 1, 1, 1, 0>>

HdlcInit == /\ rxbitstream = [i \in 1..8 |-> 0]
            /\ rxstate = FALSE
            /\ rxbits = <<>> /\ rxbuf = <<>> /\ dispatched = <<>>

IsFiveOnes(stream) == \A i \in 4..8 : stream[i] = 1                \* mutant
IsAbort(stream) == \A i \in 2..8 : stream[i] = 1
IsStuffed(stream) == SubSeq(stream, 3, 8) = <<1, 1, 1, 1, 1, 0>>

\* ax25_dispatch_packet(): a frame with a good CRC goes on without it.
Dispatch(bytes) ==
    IF CheckCrc(bytes)
      THEN dispatched' = Append(dispatched, SubSeq(bytes, 1, Len(bytes) - 2))
      ELSE UNCHANGED dispatched

RxFlag(stream) ==
    /\ stream = Flag
    /\ IF rxstate /\ Len(rxbuf) > 2 THEN Dispatch(rxbuf) ELSE UNCHANGED dispatched
    /\ rxstate' = TRUE /\ rxbuf' = <<>> /\ rxbits' = <<>>

\* Seven ones: not a frame any more.
RxAbort(stream) ==
    /\ stream # Flag /\ IsAbort(stream)
    /\ rxstate' = FALSE
    /\ UNCHANGED <<rxbits, rxbuf, dispatched>>

\* Outside of a frame, and for the zero stuffed after five ones, nothing happens.
RxIgnore(stream) ==
    /\ stream # Flag /\ ~IsAbort(stream)
    /\ ~rxstate \/ IsStuffed(stream)
    /\ UNCHANGED <<rxstate, rxbits, rxbuf, dispatched>>

IsData(stream) ==
    rxstate /\ stream # Flag /\ ~IsAbort(stream) /\ ~IsStuffed(stream)

RxDataBit(stream) ==
    /\ IsData(stream) /\ Len(rxbits) < 7
    /\ rxbits' = Append(rxbits, stream[8])
    /\ UNCHANGED <<rxstate, rxbuf, dispatched>>

RoomAndOneMore == Len(rxbuf) <= RxBufSize                          \* mutant
RoomForByte == Len(rxbuf) < RxBufSize

RxByte(stream) ==
    /\ IsData(stream) /\ Len(rxbits) = 7 /\ RoomForByte
    /\ rxbuf' = Append(rxbuf, Append(rxbits, stream[8]))
    /\ rxbits' = <<>>
    /\ UNCHANGED <<rxstate, dispatched>>

\* The frame is too long: give it up.
RxTooLong(stream) ==
    /\ IsData(stream) /\ Len(rxbits) = 7 /\ ~RoomForByte
    /\ rxstate' = FALSE
    /\ UNCHANGED <<rxbits, rxbuf, dispatched>>

\* hdlc::rxbit(bit)
RxBit(bit) ==
    LET stream == Append(Tail(rxbitstream), bit)
    IN /\ rxbitstream' = stream
       /\ \/ RxFlag(stream) \/ RxAbort(stream) \/ RxIgnore(stream)
          \/ RxDataBit(stream) \/ RxByte(stream) \/ RxTooLong(stream)

HdlcTypeOK ==
    /\ rxbitstream \in Seq(Bit) /\ Len(rxbitstream) = 8
    /\ rxstate \in BOOLEAN
    /\ rxbits \in Seq(Bit) /\ Len(rxbits) <= 7
    /\ rxbuf \in Seq(Seq(Bit)) /\ Len(rxbuf) <= RxBufSize
    /\ dispatched \in Seq(Seq(Seq(Bit)))
=============================================================================
