-------------------------------- MODULE Ax25 --------------------------------
(***************************************************************************)
(* The frames that AGWPE clients have composed for them: ax25_utils.cpp    *)
(* writes addresses and information into octets, and ax25_print_packet()   *)
(* in hdlc.cpp reads them back.  An address, text in the code, is its call *)
(* sign and the number behind the dash, or 0.                              *)
(***************************************************************************)
EXTENDS Integers, SequencesExt, Selection

CONSTANT CallLen    \* characters of a call sign in an address: 6, scaled down

ASSUME Ax25Assumption == CallLen \in Nat \ {0}

Space == 32
UIFrame == 3        \* AX25_UI_FRAME
NoLayer3 == 240     \* AX25_PID_NO_LAYER_3

Address == [call : Seq(0..255), ssid : Int]

Flag01(b) == IF b THEN 1 ELSE 0
AtMost(n, m) == IF n < m THEN n ELSE m

\* encode_addr(): the call sign padded and shifted, then an octet with a flag at
\* either end, two ones and what has room of the SSID.
EncodeAddr(address, first_bit, last_bit) ==
    [i \in 1..CallLen |->
        (2 * (IF i <= Len(address.call) THEN address.call[i] ELSE Space)) % 256]
      \o <<128 * Flag01(first_bit) + 96 + 2 * (address.ssid % 16) + Flag01(last_bit)>>

\* The last address of the path has its last bit set.
EncodeDestination(address) == EncodeAddr(address, TRUE, FALSE)
EncodeSource(address, has_repeaters) == EncodeAddr(address, TRUE, ~has_repeaters)
EncodeRepeater(address, is_last) == EncodeAddr(address, FALSE, is_last)

\* mutant: every repeater is marked as the last.
EncodeAllLast(reps) == FlattenSeq([k \in 1..Len(reps) |-> EncodeRepeater(reps[k], TRUE)])

EncodeRepeaters(reps) ==
    FlattenSeq([k \in 1..Len(reps) |-> EncodeRepeater(reps[k], k = Len(reps))])

\* encode_frame_data_repeater_mode()
EncodeFrame(source, destination, reps, data) ==
    EncodeDestination(destination) \o EncodeSource(source, reps # <<>>)
      \o EncodeRepeaters(reps) \o <<UIFrame, NoLayer3>> \o data
-----------------------------------------------------------------------------
(* ax25_print_packet(), of a frame with a normal header.                    *)

AddrLen == CallLen + 1
AddrAt(octets, k) == SubSeq(octets, AddrLen * (k - 1) + 1, AddrLen * k)
Another(octets, k) == octets[AddrLen * k] % 2 = 0 /\ Len(octets) >= AddrLen * (k + 1)

\* The addresses end where one is marked as the last, or the octets run out.
AddrCount(octets) ==
    CHOOSE n \in 2..(Len(octets) \div AddrLen) :
        /\ \A k \in 2..n - 1 : Another(octets, k)
        /\ ~Another(octets, n)

\* Spaces are left out of a call sign.
PrintedAddr(a) ==
    LET shown == Chosen(SubSeq(a, 1, CallLen), {i \in 1..CallLen : a[i] \div 2 # Space})
    IN [call |-> [i \in 1..Len(shown) |-> shown[i] \div 2],
        ssid |-> (a[AddrLen] \div 2) % 16]

\* What is printed, or nothing of a frame too short to have a header.  How the
\* control octet is spelled out, and the information laid out, is left out.
Printed(octets) ==
    IF Len(octets) < 2 * AddrLen + 1 THEN <<>>
    ELSE LET n == AddrCount(octets)
             path == [k \in 1..n |-> PrintedAddr(AddrAt(octets, k))]
             rest == SubSeq(octets, AddrLen * n + 1, Len(octets))
         IN <<[from |-> path[2], to |-> path[1], via |-> SubSeq(path, 3, n),
               control |-> SubSeq(rest, 1, AtMost(1, Len(rest))),
               info |-> SubSeq(rest, 3, Len(rest))]>>
=============================================================================
