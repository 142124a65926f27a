-------------------------------- MODULE Crc --------------------------------
(***************************************************************************)
(* The CRC-CCITT of src/src/hdlc.cpp on bytes given as their bits, least   *)
(* significant first.  The code looks a byte at a time up in a table; one  *)
(* bit at a time is the same polynomial, 0x8408 reflected.                 *)
(***************************************************************************)
EXTENDS Integers, Sequences

Bit == 0..1
Byte == [1..8 -> Bit]
CrcStart == [i \in 1..16 |-> 1]                              \* 0xffff
CrcGood == <<0,0,0,1, 1,1,0,1, 0,0,0,0, 1,1,1,1>>            \* 0xf0b8

CrcBit(crc, b) ==
    LET feedback == (crc[1] + b) % 2
    IN [i \in 1..16 |->
          ((IF i < 16 THEN crc[i + 1] ELSE 0)
             + (IF i \in {4, 11, 16} THEN feedback ELSE 0)) % 2]

\* The register after all bits of the bytes.
CrcOf(bytes) ==
    LET reg[n \in 0..(8 * Len(bytes))] ==
          IF n = 0 THEN CrcStart
          ELSE CrcBit(reg[n - 1], bytes[((n - 1) \div 8) + 1][((n - 1) % 8) + 1])
    IN reg[8 * Len(bytes)]

\* calc_crc_ccitt() as the two bytes that send() appends, low byte first.
CalcCrc(bytes) ==
    LET reg == CrcOf(bytes)
    IN <<[i \in 1..8 |-> 1 - reg[i]], [i \in 1..8 |-> 1 - reg[8 + i]]>>

\* check_crc_ccitt() of bytes that end in their CRC.
CheckCrc(bytes) == CrcOf(bytes) = CrcGood
=============================================================================
