-------------------------------- MODULE Link --------------------------------
(***************************************************************************)
(* The modulator and a demodulator with an ideal channel between them.     *)
(* encoder_af1200stj::send and ::byteToSymbols turn a frame into symbols,  *)
(* one of two tones each, changing the tone for a zero and stuffing a zero *)
(* after five ones; the decoders read a kept tone as a one, a changed one  *)
(* as a zero, and feed the bits to the deframer of Hdlc.  Between the      *)
(* transmissions the demodulator hears noise.                              *)
(***************************************************************************)
EXTENDS Hdlc, Selection

CONSTANTS
    Frames,       \* the frames that are sent, sequences of bytes
    Delays,       \* pairs of --tx-delay and --tx-tail, milliseconds
    MaxFrames,    \* BOUND: transmissions in a behaviour
    MaxNoise      \* BOUND: symbols of noise between two transmissions

ASSUME LinkAssumption ==
    /\ Frames \subseteq Seq(Byte)
    /\ Delays \subseteq Nat \X Nat
    /\ MaxFrames \in Nat /\ MaxNoise \in Nat

VARIABLES
    tx_delay, tx_tail,
    sent,          \* history: the frames transmitted so far
    to_send,       \* what is left: bytes with their `stuff' argument
    bit,           \* the bit of the first of them that byteToSymbols() is at
    stuff_count,   \* tx_stuff_count
    tx_symbol,     \* tx_last_symbol
    rx_symbol,     \* the demodulator's previous symbol
    noise,         \* symbols of noise since the last transmission
    noisy,         \* history: there was noise since the last flag heard
    received       \* history: the frames dispatched with no noise in them

txVars == <<sent, to_send, bit, stuff_count, tx_symbol>>
config == <<tx_delay, tx_tail>>
vars == <<config, txVars, rx_symbol, noise, noisy, received, hdlcVars>>

Init == /\ HdlcInit
        /\ \E d \in Delays : tx_delay = d[1] /\ tx_tail = d[2]
        /\ sent = <<>> /\ to_send = <<>> /\ bit = 1
        /\ stuff_count = 0 /\ tx_symbol = 0
        /\ rx_symbol \in Bit
        /\ noise = 0 /\ noisy = FALSE /\ received = <<>>
-----------------------------------------------------------------------------
\* Milliseconds as a number of flags at 1200 baud, rounded down.
FlagsIn(ms) == (ms * 1200) \div (1000 * 8)

Unstuffed(bytes) == [i \in 1..Len(bytes) |-> [byte |-> bytes[i], stuff |-> FALSE]]
Stuffed(bytes) == [i \in 1..Len(bytes) |-> [byte |-> bytes[i], stuff |-> TRUE]]
Flags(n) == Unstuffed([i \in 1..n |-> Flag])

\* send(): preamble, data, CRC, tail.
Transmission(frame) ==
    Flags(FlagsIn(tx_delay)) \o Stuffed(frame \o CalcCrc(frame)) \o Flags(FlagsIn(tx_tail))

\* The decoders: bit = 1 for the tone of the symbol before, 0 for the other.
Demodulate(symbol) ==
    /\ RxBit(IF symbol = rx_symbol THEN 1 ELSE 0)
    /\ rx_symbol' = symbol

\* History: what was dispatched with no noise in it.
Hear(is_noise) ==
    /\ noisy' = ((noisy \/ is_noise) /\ rxbitstream' # Flag)
    /\ received' = IF noisy \/ is_noise \/ dispatched' = dispatched THEN received
                   ELSE Append(received, dispatched'[Len(dispatched')])

\* generateSymbolSamples(), heard at the other end.
Emit(symbol) ==
    /\ tx_symbol' = symbol
    /\ Demodulate(symbol) /\ Hear(FALSE)

StartFrame ==
    /\ to_send = <<>> /\ Len(sent) < MaxFrames
    /\ \E frame \in Frames : /\ sent' = Append(sent, frame)
                             /\ to_send' = Transmission(frame)
    /\ bit' = 1
    /\ tx_symbol' = 0 /\ stuff_count' = 0
    /\ noise' = 0
    /\ UNCHANGED <<config, rx_symbol, noisy, received, hdlcVars>>

\* A zero is stuffed after so many ones.
StuffAfterSix == 6                                                 \* mutant
StuffAfter == 5

\* byteToSymbols(), one bit: a zero changes the tone, a one keeps it.
SendBit ==
    /\ to_send # <<>> /\ stuff_count < StuffAfter
    /\ LET b == Head(to_send).byte[bit]
       IN /\ Emit(IF b = 0 THEN 1 - tx_symbol ELSE tx_symbol)
          /\ stuff_count' = IF ~Head(to_send).stuff THEN stuff_count
                            ELSE IF b = 0 THEN 0 ELSE stuff_count + 1
          \* the last bit of a byte is left to StuffZero if a zero must follow
          /\ IF bit = 8 /\ stuff_count' < StuffAfter
               THEN to_send' = Tail(to_send) /\ bit' = 1
               ELSE bit' = (IF stuff_count' < StuffAfter THEN bit + 1 ELSE bit) /\ UNCHANGED to_send
    /\ UNCHANGED <<config, sent, noise>>

\* Five ones went out: send a zero that the receiver will take out again.
StuffZero ==
    /\ stuff_count = StuffAfter
    /\ Emit(1 - tx_symbol)
    /\ stuff_count' = 0
    /\ IF bit = 8 THEN to_send' = Tail(to_send) /\ bit' = 1
                  ELSE bit' = bit + 1 /\ UNCHANGED to_send
    /\ UNCHANGED <<config, sent, noise>>

HearNoise ==
    /\ to_send = <<>> /\ noise < MaxNoise
    /\ \E symbol \in Bit : Demodulate(symbol)
    /\ Hear(TRUE)
    /\ noise' = noise + 1
    /\ UNCHANGED <<config, txVars>>

Next == StartFrame \/ SendBit \/ StuffZero \/ HearNoise

Spec == Init /\ [][Next]_vars
-----------------------------------------------------------------------------
\* Every variable has its type.
TypeOK ==
    /\ HdlcTypeOK
    /\ <<tx_delay, tx_tail>> \in Delays
    /\ sent \in Seq(Frames)
    /\ \A i \in 1..Len(to_send) : to_send[i] \in [byte : Byte, stuff : BOOLEAN]
    /\ bit \in 1..8 /\ stuff_count \in 0..5
    /\ tx_symbol \in Bit /\ rx_symbol \in Bit
    /\ noise \in 0..MaxNoise /\ noisy \in BOOLEAN
    /\ received \in Seq(Seq(Seq(Bit)))

\* Some of the frames that were sent, and those that are not empty and the receiver
\* has room for, with their CRC.
Of(numbers) == Chosen(sent, numbers)
Fits(frame) == Len(frame) > 0 /\ Len(frame) + 2 <= RxBufSize
Fitting == {i \in 1..Len(sent) : Fits(sent[i])}

\* The delays give at least two flags before a frame, of which noise may spoil
\* one, and one behind.
FlagsEnough == FlagsIn(tx_delay) >= 2 /\ FlagsIn(tx_tail) >= 1

\* Whatever the data, the receiver makes out frames that were sent, as they were,
\* once and in order, and nothing else but what there is noise in; eight symbols of
\* noise between transmissions are too few to make something of.  With flags enough
\* it makes out every frame, except that one without data, or too long for rxbuf,
\* is lost alone.
EveryFrameArrives ==
    /\ \E heard \in SUBSET Fitting : received = Of(heard)
    /\ MaxNoise <= 8 => \E heard \in SUBSET Fitting : dispatched = Of(heard)
    /\ FlagsEnough => /\ to_send = <<>> => received = Of(Fitting)
                      /\ MaxNoise <= 8 => dispatched = received

\* While data, CRC or stuffed zeros go out, the receiver stays in the frame: no
\* data looks like a flag or an abort to it, unless the frame is too long or the
\* flags are too few.
DataIsTransparent ==
    to_send # <<>> /\ Head(to_send).stuff /\ Len(sent[Len(sent)]) + 2 <= RxBufSize
       /\ FlagsEnough
        => rxstate
=============================================================================
