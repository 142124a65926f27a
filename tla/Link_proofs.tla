---------------------------- MODULE Link_proofs ----------------------------
(***************************************************************************)
(* Proofs about the link for all frames, delays and sizes of the receive   *)
(* buffer, and any number of transmissions with any noise between them.    *)
(***************************************************************************)
EXTENDS Link, Recursion, SequenceTheorems

-----------------------------------------------------------------------------
(* The CRC.                                                                *)

Register == [1..16 -> Bit]

\* The CRC register stays sixteen bits.
LEMMA CrcBitType ==
  ASSUME NEW crc \in Register, NEW b \in Bit
  PROVE  CrcBit(crc, b) \in Register
<1> DEFINE feedback == (crc[1] + b) % 2
<1>1. feedback \in 0..1
  <2>1. crc[1] \in 0..1 /\ b \in 0..1
    BY DEF Register, Bit
  <2> DEFINE c == crc[1]
  <2> HIDE DEF c
  <2>2. (c + b) % 2 \in 0..1
    BY <2>1 DEF c
  <2> QED
    BY <2>2 DEF c
<1> HIDE DEF feedback
<1>2. ASSUME NEW x \in 0..1, NEW y \in 0..1 PROVE (x + y) % 2 \in Bit
  BY DEF Bit
<1>3. \A i \in 1..16 : (IF i < 16 THEN crc[i + 1] ELSE 0) \in 0..1
  BY DEF Register, Bit
<1>4. \A i \in 1..16 : (IF i \in {4, 11, 16} THEN feedback ELSE 0) \in 0..1
  BY <1>1
<1>5. \A i \in 1..16 : ((IF i < 16 THEN crc[i + 1] ELSE 0) + (IF i \in {4, 11, 16} THEN feedback ELSE 0)) % 2 \in Bit
  BY <1>2, <1>3, <1>4
<1>6. CrcBit(crc, b) = [i \in 1..16 |-> ((IF i < 16 THEN crc[i + 1] ELSE 0) + (IF i \in {4, 11, 16} THEN feedback ELSE 0)) % 2]
  BY DEF CrcBit, feedback
<1> QED
  BY <1>5, <1>6 DEF Register

\* The bit that the CRC of some bytes takes up as its nth.
BitAt(bytes, n) == bytes[((n - 1) \div 8) + 1][((n - 1) % 8) + 1]

\* Less than eight more than a multiple of eight is its remainder.
LEMMA DivideByEight ==
  ASSUME NEW n \in Nat, NEW k \in 0..7
  PROVE  (8 * n + k) \div 8 = n /\ (8 * n + k) % 8 = k
  OBVIOUS

\* The bits of a byte follow those of the n bytes before it.
LEMMA BitOfByte ==
  ASSUME NEW bytes, NEW n \in Nat, NEW k \in 0..7
  PROVE  BitAt(bytes, 8 * n + k + 1) = bytes[n + 1][k + 1]
<1>1. (8 * n + k) \div 8 = n /\ (8 * n + k) % 8 = k
  BY DivideByEight
<1>2. 8 * n + k + 1 - 1 = 8 * n + k
  OBVIOUS
<1> QED
  BY <1>1, <1>2 DEF BitAt

\* A bit of bytes is a bit.
LEMMA BitAtType ==
  ASSUME NEW bytes \in Seq(Byte), NEW n \in 1..(8 * Len(bytes))
  PROVE  BitAt(bytes, n) \in Bit
<1>1. Len(bytes) \in Nat /\ \A i \in 1..Len(bytes) : bytes[i] \in Byte
  OBVIOUS
<1>2. ((n - 1) \div 8) + 1 \in 1..Len(bytes) /\ ((n - 1) % 8) + 1 \in 1..8
  BY <1>1
<1>3. bytes[((n - 1) \div 8) + 1] \in Byte
  BY <1>1, <1>2
<1> QED
  BY <1>2, <1>3 DEF BitAt, Byte

\* The registers after each bit of some bytes are one function.
Registers(bytes, reg) ==
    /\ reg \in [0..8 * Len(bytes) -> Register]
    /\ reg[0] = CrcStart
    /\ \A n \in 1..8 * Len(bytes) : reg[n] = CrcBit(reg[n - 1], BitAt(bytes, n))

\* CrcOf(bytes) is the register after the last bit, of the registers its loop goes through.
LEMMA CrcRegisters ==
  ASSUME NEW bytes \in Seq(Byte)
  PROVE  \E reg : Registers(bytes, reg) /\ CrcOf(bytes) = reg[8 * Len(bytes)]
<1> DEFINE top == 8 * Len(bytes)
           step == [vi \in Register \X (1..top) |-> CrcBit(vi[1], BitAt(bytes, vi[2]))]
           Is(f) == f = [n \in 0..top |-> IF n = 0 THEN CrcStart
                                           ELSE CrcBit(f[n - 1], bytes[((n - 1) \div 8) + 1][((n - 1) % 8) + 1])]
<1>1. top \in Nat /\ CrcStart \in Register
  BY DEF CrcStart, Register, Bit
<1>2. step \in [Register \X (1..top) -> Register]
  BY CrcBitType, BitAtType
<1>3. \E g : Recurs(g, top, Register, CrcStart, step)
  <2> HIDE DEF step, top
  <2> QED
    BY <1>1, <1>2, RecursionDefines
<1>4. PICK g \in [0..top -> Register] : \A i \in 0..top : g[i] = IF i = 0 THEN CrcStart ELSE step[<<g[i - 1], i>>]
  <2> HIDE DEF step, top
  <2> QED
    BY <1>3 DEF Recurs
<1>5. Is(g)
  <2>1. ASSUME NEW i \in 0..top PROVE g[i] = IF i = 0 THEN CrcStart ELSE CrcBit(g[i - 1], BitAt(bytes, i))
    <3>1. CASE i = 0
      BY <1>4, <3>1
    <3>2. CASE i # 0
      <4>1. i \in 1..top /\ g[i - 1] \in Register
        BY <1>1, <1>4, <3>2
      <4> QED
        BY <1>4, <3>2, <4>1
    <3> QED
      BY <3>1, <3>2
  <2> QED
    BY <2>1 DEF BitAt
<1> DEFINE f == CHOOSE h : Is(h)
<1>6. Is(f)
  BY <1>5
<1>7. CrcOf(bytes) = f[top]
  BY DEF CrcOf
<1>8. \A n \in 0..top : f[n] = IF n = 0 THEN CrcStart ELSE CrcBit(f[n - 1], BitAt(bytes, n))
  BY <1>6, Zenon DEF BitAt
<1>9. f = [n \in 0..top |-> f[n]]
  BY <1>6
<1> HIDE DEF f
<1> DEFINE S == {n \in 0..top : f[n] \in Register}
<1>10. 0 \in S
  BY <1>1, <1>8
<1>11. ASSUME NEW n \in 1..top, n - 1 \in S PROVE n \in S
  <2>1. n \in 0..top /\ n # 0 /\ f[n - 1] \in Register
    BY <1>1, <1>11
  <2>2. f[n] = CrcBit(f[n - 1], BitAt(bytes, n))
    BY <1>8, <2>1
  <2> QED
    BY <2>1, <2>2, CrcBitType, BitAtType
<1> HIDE DEF S
<1>12. 0..top \subseteq S
  <2> HIDE DEF top
  <2> QED
    BY <1>1, <1>10, <1>11, UpTo
<1>13. f \in [0..top -> Register]
  BY <1>9, <1>12 DEF S
<1>14. Registers(bytes, f)
  <2>1. 0 \in 0..top /\ \A n \in 1..top : n \in 0..top /\ n # 0
    BY <1>1
  <2> QED
    BY <1>8, <1>13, <2>1 DEF Registers
<1> QED
  BY <1>7, <1>14

\* The CRC is a register, and what is sent of it is two bytes.
LEMMA CrcType ==
  ASSUME NEW bytes \in Seq(Byte)
  PROVE  CrcOf(bytes) \in Register /\ CalcCrc(bytes) \in Seq(Byte) /\ Len(CalcCrc(bytes)) = 2
<1>1. CrcOf(bytes) \in Register
  <2>1. 8 * Len(bytes) \in 0..8 * Len(bytes)
    OBVIOUS
  <2> QED
    BY <2>1, CrcRegisters DEF Registers
<1> DEFINE r == CrcOf(bytes)
           low == [i \in 1..8 |-> 1 - r[i]]
           high == [i \in 1..8 |-> 1 - r[8 + i]]
<1>2. CalcCrc(bytes) = <<low, high>>
  BY DEF CalcCrc
<1> HIDE DEF r
<1>3. low \in Byte /\ high \in Byte
  <2>1. ASSUME NEW i \in 1..16 PROVE 1 - r[i] \in Bit
    <3>1. r[i] \in Bit
      BY <1>1 DEF r, Register
    <3> QED
      BY <3>1 DEF Bit
  <2>2. \A i \in 1..8 : i \in 1..16 /\ 8 + i \in 1..16
    OBVIOUS
  <2> QED
    BY <2>1, <2>2 DEF Byte
<1> QED
  BY <1>1, <1>2, <1>3

\* What the bits of a register leave in it when it takes them up itself, inverted.
Rest(reg, r, j) == [i \in 1..16 |-> (reg[i] + (IF i + j <= 16 THEN r[i + j] ELSE 0)) % 2]

\* It does not depend on them: it is what a cleared register makes of as many ones.
LEMMA RestStep ==
  ASSUME NEW r \in Register, NEW reg \in Register, NEW j \in 1..16
  PROVE  Rest(CrcBit(reg, 1 - r[j]), r, j) = CrcBit(Rest(reg, r, j - 1), 1)
<1> DEFINE next == CrcBit(reg, 1 - r[j])
           was == Rest(reg, r, j - 1)
           Tap(i) == i \in {4, 11, 16}
           f == (reg[1] + (1 - r[j])) % 2
           g == (was[1] + 1) % 2
           Shift(i) == IF i < 16 THEN reg[i + 1] ELSE 0
<1>1. r[j] \in 0..1 /\ \A i \in 1..16 : reg[i] \in 0..1 /\ r[i] \in 0..1
  BY DEF Register, Bit
<1>2. was[1] = (reg[1] + r[j]) % 2
  BY DEF Rest
<1>3. f = g /\ f \in 0..1
  <2> DEFINE a == reg[1]
             b == r[j]
  <2>1. a \in 0..1 /\ b \in 0..1
    BY <1>1
  <2> HIDE DEF a, b
  <2>2. (a + (1 - b)) % 2 = (((a + b) % 2) + 1) % 2 /\ (a + (1 - b)) % 2 \in 0..1
    BY <2>1
  <2> QED
    BY <1>2, <2>2 DEF a, b
<1> HIDE DEF f, g
<1>4. next = [i \in 1..16 |-> (Shift(i) + (IF Tap(i) THEN f ELSE 0)) % 2]
  BY DEF CrcBit, f
<1>5. CrcBit(was, 1) = [i \in 1..16 |-> ((IF i < 16 THEN was[i + 1] ELSE 0) + (IF Tap(i) THEN g ELSE 0)) % 2]
  BY DEF CrcBit, g
<1> DEFINE Left(i) == (((Shift(i) + (IF Tap(i) THEN f ELSE 0)) % 2) + (IF i + j <= 16 THEN r[i + j] ELSE 0)) % 2
           Right(i) == ((IF i < 16 THEN was[i + 1] ELSE 0) + (IF Tap(i) THEN g ELSE 0)) % 2
<1>6. ASSUME NEW i \in 1..16 PROVE Left(i) = Right(i)
  <2> DEFINE x == IF i < 16 THEN reg[i + 1] ELSE 0
             t == IF Tap(i) THEN f ELSE 0
             y == IF i + j <= 16 THEN r[i + j] ELSE 0
             w == IF i < 16 THEN was[i + 1] ELSE 0
  <2>1. x \in 0..1 /\ t \in 0..1 /\ y \in 0..1
    <3>1. i < 16 => i + 1 \in 1..16
      OBVIOUS
    <3>2. i + j <= 16 => i + j \in 1..16
      OBVIOUS
    <3>3. x \in 0..1
      BY <1>1, <3>1
    <3>4. y \in 0..1
      BY <1>1, <3>2
    <3> QED
      BY <1>3, <3>3, <3>4
  <2>2. w = (x + y) % 2
    <3>1. CASE i < 16
      <4>1. was[i + 1] = (reg[i + 1] + (IF (i + 1) + (j - 1) <= 16 THEN r[(i + 1) + (j - 1)] ELSE 0)) % 2
        BY <3>1 DEF Rest
      <4>2. (i + 1) + (j - 1) = i + j
        OBVIOUS
      <4> QED
        BY <3>1, <4>1, <4>2
    <3>2. CASE i = 16
      <4>1. x = 0 /\ y = 0 /\ w = 0
        BY <3>2
      <4> QED
        BY <4>1
    <3> QED
      BY <3>1, <3>2
  <2>3. (IF Tap(i) THEN g ELSE 0) = t
    BY <1>3
  <2> HIDE DEF x, t, y, w
  <2>4. (((x + t) % 2) + y) % 2 = (((x + y) % 2) + t) % 2
    BY <2>1
  <2> QED
    BY <2>2, <2>3, <2>4 DEF x, t, y, w
<1>7. Rest(next, r, j) = [i \in 1..16 |-> Left(i)]
  BY <1>4 DEF Rest
<1>8. CrcBit(was, 1) = [i \in 1..16 |-> Right(i)]
  BY <1>5
<1>9. \A i \in 1..16 : Left(i) = Right(i)
  BY <1>6
<1> HIDE DEF Left, Right, next, was
<1>10. Rest(next, r, j) = CrcBit(was, 1)
  BY <1>7, <1>8, <1>9
<1> QED
  BY <1>10 DEF next, was

\* A cleared register takes up sixteen ones.
Ones(z) ==
    /\ z[0] = <<0,0,0,0, 0,0,0,0, 0,0,0,0, 0,0,0,0>>
    /\ \A j \in 1..16 : z[j] = CrcBit(z[j - 1], 1)

\* Sixteen ones shifted into a cleared register leave the one the receiver expects.
LEMMA SixteenOnes ==
  ASSUME NEW z, Ones(z)
  PROVE  z[16] = CrcGood
<1>0. z[0] = <<0,0,0,0, 0,0,0,0, 0,0,0,0, 0,0,0,0>>
  BY DEF Ones
<1>next. ASSUME NEW j \in 1..16 PROVE z[j] = CrcBit(z[j - 1], 1)
  BY Zenon DEF Ones
<1>1. z[1] = <<0,0,0,1, 0,0,0,0, 0,0,1,0, 0,0,0,1>>
  <2>1. z[1] = CrcBit(z[0], 1)
    BY <1>next
  <2>2. CrcBit(<<0,0,0,0, 0,0,0,0, 0,0,0,0, 0,0,0,0>>, 1) = <<0,0,0,1, 0,0,0,0, 0,0,1,0, 0,0,0,1>>
    BY DEF CrcBit
  <2> QED
    BY <1>0, <2>1, <2>2, Zenon
<1>2. z[2] = <<0,0,1,1, 0,0,0,0, 0,1,1,0, 0,0,1,1>>
  <2>1. z[2] = CrcBit(z[1], 1)
    BY <1>next
  <2>2. CrcBit(<<0,0,0,1, 0,0,0,0, 0,0,1,0, 0,0,0,1>>, 1) = <<0,0,1,1, 0,0,0,0, 0,1,1,0, 0,0,1,1>>
    BY DEF CrcBit
  <2> QED
    BY <1>1, <2>1, <2>2, Zenon
<1>3. z[3] = <<0,1,1,1, 0,0,0,0, 1,1,1,0, 0,1,1,1>>
  <2>1. z[3] = CrcBit(z[2], 1)
    BY <1>next
  <2>2. CrcBit(<<0,0,1,1, 0,0,0,0, 0,1,1,0, 0,0,1,1>>, 1) = <<0,1,1,1, 0,0,0,0, 1,1,1,0, 0,1,1,1>>
    BY DEF CrcBit
  <2> QED
    BY <1>2, <2>1, <2>2, Zenon
<1>4. z[4] = <<1,1,1,1, 0,0,0,1, 1,1,1,0, 1,1,1,1>>
  <2>1. z[4] = CrcBit(z[3], 1)
    BY <1>next
  <2>2. CrcBit(<<0,1,1,1, 0,0,0,0, 1,1,1,0, 0,1,1,1>>, 1) = <<1,1,1,1, 0,0,0,1, 1,1,1,0, 1,1,1,1>>
    BY DEF CrcBit
  <2> QED
    BY <1>3, <2>1, <2>2, Zenon
<1>5. z[5] = <<1,1,1,0, 0,0,1,1, 1,1,0,1, 1,1,1,0>>
  <2>1. z[5] = CrcBit(z[4], 1)
    BY <1>next
  <2>2. CrcBit(<<1,1,1,1, 0,0,0,1, 1,1,1,0, 1,1,1,1>>, 1) = <<1,1,1,0, 0,0,1,1, 1,1,0,1, 1,1,1,0>>
    BY DEF CrcBit
  <2> QED
    BY <1>4, <2>1, <2>2, Zenon
<1>6. z[6] = <<1,1,0,0, 0,1,1,1, 1,0,1,1, 1,1,0,0>>
  <2>1. z[6] = CrcBit(z[5], 1)
    BY <1>next
  <2>2. CrcBit(<<1,1,1,0, 0,0,1,1, 1,1,0,1, 1,1,1,0>>, 1) = <<1,1,0,0, 0,1,1,1, 1,0,1,1, 1,1,0,0>>
    BY DEF CrcBit
  <2> QED
    BY <1>5, <2>1, <2>2, Zenon
<1>7. z[7] = <<1,0,0,0, 1,1,1,1, 0,1,1,1, 1,0,0,0>>
  <2>1. z[7] = CrcBit(z[6], 1)
    BY <1>next
  <2>2. CrcBit(<<1,1,0,0, 0,1,1,1, 1,0,1,1, 1,1,0,0>>, 1) = <<1,0,0,0, 1,1,1,1, 0,1,1,1, 1,0,0,0>>
    BY DEF CrcBit
  <2> QED
    BY <1>6, <2>1, <2>2, Zenon
<1>8. z[8] = <<0,0,0,1, 1,1,1,0, 1,1,1,1, 0,0,0,0>>
  <2>1. z[8] = CrcBit(z[7], 1)
    BY <1>next
  <2>2. CrcBit(<<1,0,0,0, 1,1,1,1, 0,1,1,1, 1,0,0,0>>, 1) = <<0,0,0,1, 1,1,1,0, 1,1,1,1, 0,0,0,0>>
    BY DEF CrcBit
  <2> QED
    BY <1>7, <2>1, <2>2, Zenon
<1>9. z[9] = <<0,0,1,0, 1,1,0,1, 1,1,0,0, 0,0,0,1>>
  <2>1. z[9] = CrcBit(z[8], 1)
    BY <1>next
  <2>2. CrcBit(<<0,0,0,1, 1,1,1,0, 1,1,1,1, 0,0,0,0>>, 1) = <<0,0,1,0, 1,1,0,1, 1,1,0,0, 0,0,0,1>>
    BY DEF CrcBit
  <2> QED
    BY <1>8, <2>1, <2>2, Zenon
<1>10. z[10] = <<0,1,0,0, 1,0,1,1, 1,0,1,0, 0,0,1,1>>
  <2>1. z[10] = CrcBit(z[9], 1)
    BY <1>next
  <2>2. CrcBit(<<0,0,1,0, 1,1,0,1, 1,1,0,0, 0,0,0,1>>, 1) = <<0,1,0,0, 1,0,1,1, 1,0,1,0, 0,0,1,1>>
    BY DEF CrcBit
  <2> QED
    BY <1>9, <2>1, <2>2, Zenon
<1>11. z[11] = <<1,0,0,0, 0,1,1,1, 0,1,1,0, 0,1,1,1>>
  <2>1. z[11] = CrcBit(z[10], 1)
    BY <1>next
  <2>2. CrcBit(<<0,1,0,0, 1,0,1,1, 1,0,1,0, 0,0,1,1>>, 1) = <<1,0,0,0, 0,1,1,1, 0,1,1,0, 0,1,1,1>>
    BY DEF CrcBit
  <2> QED
    BY <1>10, <2>1, <2>2, Zenon
<1>12. z[12] = <<0,0,0,0, 1,1,1,0, 1,1,0,0, 1,1,1,0>>
  <2>1. z[12] = CrcBit(z[11], 1)
    BY <1>next
  <2>2. CrcBit(<<1,0,0,0, 0,1,1,1, 0,1,1,0, 0,1,1,1>>, 1) = <<0,0,0,0, 1,1,1,0, 1,1,0,0, 1,1,1,0>>
    BY DEF CrcBit
  <2> QED
    BY <1>11, <2>1, <2>2, Zenon
<1>13. z[13] = <<0,0,0,0, 1,1,0,1, 1,0,1,1, 1,1,0,1>>
  <2>1. z[13] = CrcBit(z[12], 1)
    BY <1>next
  <2>2. CrcBit(<<0,0,0,0, 1,1,1,0, 1,1,0,0, 1,1,1,0>>, 1) = <<0,0,0,0, 1,1,0,1, 1,0,1,1, 1,1,0,1>>
    BY DEF CrcBit
  <2> QED
    BY <1>12, <2>1, <2>2, Zenon
<1>14. z[14] = <<0,0,0,0, 1,0,1,1, 0,1,0,1, 1,0,1,1>>
  <2>1. z[14] = CrcBit(z[13], 1)
    BY <1>next
  <2>2. CrcBit(<<0,0,0,0, 1,1,0,1, 1,0,1,1, 1,1,0,1>>, 1) = <<0,0,0,0, 1,0,1,1, 0,1,0,1, 1,0,1,1>>
    BY DEF CrcBit
  <2> QED
    BY <1>13, <2>1, <2>2, Zenon
<1>15. z[15] = <<0,0,0,0, 0,1,1,0, 1,0,0,1, 0,1,1,1>>
  <2>1. z[15] = CrcBit(z[14], 1)
    BY <1>next
  <2>2. CrcBit(<<0,0,0,0, 1,0,1,1, 0,1,0,1, 1,0,1,1>>, 1) = <<0,0,0,0, 0,1,1,0, 1,0,0,1, 0,1,1,1>>
    BY DEF CrcBit
  <2> QED
    BY <1>14, <2>1, <2>2, Zenon
<1>16. z[16] = <<0,0,0,1, 1,1,0,1, 0,0,0,0, 1,1,1,1>>
  <2>1. z[16] = CrcBit(z[15], 1)
    BY <1>next
  <2>2. CrcBit(<<0,0,0,0, 0,1,1,0, 1,0,0,1, 0,1,1,1>>, 1) = <<0,0,0,1, 1,1,0,1, 0,0,0,0, 1,1,1,1>>
    BY DEF CrcBit
  <2> QED
    BY <1>15, <2>1, <2>2, Zenon
<1> QED
  BY <1>16 DEF CrcGood

\* The registers of some bytes begin with those of their beginning.
LEMMA RegistersOfPart ==
  ASSUME NEW bytes \in Seq(Byte), NEW more \in Seq(Byte),
         NEW reg, Registers(bytes \o more, reg)
  PROVE  CrcOf(bytes) = reg[8 * Len(bytes)]
<1> DEFINE top == 8 * Len(bytes)
           whole == bytes \o more
<1>1. /\ Len(bytes) \in Nat /\ Len(more) \in Nat /\ Len(whole) = Len(bytes) + Len(more)
      /\ \A i \in 1..Len(bytes) : whole[i] = bytes[i]
  OBVIOUS
<1>2. PICK part : Registers(bytes, part) /\ CrcOf(bytes) = part[8 * Len(bytes)]
  BY CrcRegisters
<1> HIDE DEF whole
<1> DEFINE S == {n \in 0..top : reg[n] = part[n]}
<1>3. 0 \in S
  BY <1>1, <1>2 DEF Registers
<1>4. ASSUME NEW n \in 1..top, n - 1 \in S PROVE n \in S
  <2>1. n \in 1..8 * Len(whole) /\ n \in 0..top /\ ((n - 1) \div 8) + 1 \in 1..Len(bytes)
    BY <1>1
  <2>2. BitAt(whole, n) = BitAt(bytes, n)
    BY <1>1, <2>1 DEF BitAt
  <2>3. part[n] = CrcBit(part[n - 1], BitAt(bytes, n))
    BY <1>2 DEF Registers
  <2>4. reg[n] = CrcBit(reg[n - 1], BitAt(whole, n))
    BY <2>1 DEF Registers, whole
  <2> QED
    BY <1>4, <2>1, <2>2, <2>3, <2>4
<1> HIDE DEF S
<1>5. 0..top \subseteq S
  <2>1. top \in Nat
    BY <1>1
  <2> HIDE DEF top
  <2> QED
    BY <1>3, <1>4, <2>1, UpTo
<1>6. top \in S
  BY <1>1, <1>5
<1> QED
  BY <1>2, <1>6 DEF S

\* What two elements behind a sequence make it, element by element.
LEMMA AppendedTwo ==
  ASSUME NEW T, NEW s \in Seq(T), NEW t \in Seq(T), Len(t) = 2
  PROVE  /\ s \o t \in Seq(T) /\ Len(s) \in Nat /\ Len(s \o t) = Len(s) + 2
         /\ \A i \in 1..Len(s) : (s \o t)[i] = s[i]
         /\ (s \o t)[Len(s) + 1] = t[1] /\ (s \o t)[Len(s) + 2] = t[2]
<1> DEFINE n == Len(s)
           whole == s \o t
<1>1. /\ n \in Nat /\ whole \in Seq(T) /\ Len(whole) = n + 2
      /\ \A i \in 1..n + 2 : whole[i] = IF i <= n THEN s[i] ELSE t[i - n]
  <2>1. /\ n \in Nat /\ whole \in Seq(T) /\ Len(whole) = n + Len(t)
        /\ \A i \in 1..n + Len(t) : whole[i] = IF i <= n THEN s[i] ELSE t[i - n]
    <3>1. n \in Nat
      OBVIOUS
    <3>2. whole \in Seq(T) /\ Len(whole) = Len(s) + Len(t)
      BY ConcatProperties, Zenon
    <3>3. \A i \in 1..Len(s) + Len(t) : whole[i] = IF i <= Len(s) THEN s[i] ELSE t[i - Len(s)]
      BY ConcatProperties, Zenon
    <3> QED
      BY <3>1, <3>2, <3>3, Zenon
  <2> HIDE DEF n, whole
  <2> QED
    BY <2>1
<1> HIDE DEF n, whole
<1>2. /\ n + 1 \in 1..n + 2 /\ n + 2 \in 1..n + 2 /\ ~(n + 1 <= n) /\ ~(n + 2 <= n)
      /\ (n + 1) - n = 1 /\ (n + 2) - n = 2 /\ \A i \in 1..n : i \in 1..n + 2 /\ i <= n
  BY <1>1
<1>3. whole[n + 1] = t[1] /\ whole[n + 2] = t[2] /\ \A i \in 1..n : whole[i] = s[i]
  BY <1>1, <1>2
<1> QED
  BY <1>1, <1>3 DEF n, whole

\* Whatever the bytes, they pass the check with the CRC behind them that is
\* computed for them.
THEOREM CrcIsGood ==
  ASSUME NEW bytes \in Seq(Byte)
  PROVE  CheckCrc(bytes \o CalcCrc(bytes))
<1> DEFINE n == Len(bytes)
           crc == CalcCrc(bytes)
           whole == bytes \o crc
           r == CrcOf(bytes)
<1>1. crc \in Seq(Byte) /\ Len(crc) = 2 /\ r \in Register
  BY CrcType
<1> HIDE DEF crc
<1>2. whole \in Seq(Byte) /\ n \in Nat /\ Len(whole) = n + 2
      /\ whole[n + 1] = crc[1] /\ whole[n + 2] = crc[2]
  BY <1>1, AppendedTwo
<1>3. PICK reg : Registers(whole, reg) /\ CrcOf(whole) = reg[8 * Len(whole)]
  BY <1>2, CrcRegisters
<1>4. r = reg[8 * n]
  BY <1>1, <1>3, RegistersOfPart
<1> HIDE DEF whole, r
<1>5. ASSUME NEW j \in 1..16 PROVE BitAt(whole, 8 * n + j) = 1 - r[j]
  <2>1. crc[1] = [i \in 1..8 |-> 1 - r[i]] /\ crc[2] = [i \in 1..8 |-> 1 - r[8 + i]]
    BY DEF crc, CalcCrc, r
  <2>2. CASE j <= 8
    <3>1. 8 * n + j = 8 * n + (j - 1) + 1 /\ j - 1 \in 0..7 /\ (j - 1) + 1 = j /\ j \in 1..8
      BY <1>2, <2>2
    <3>2. BitAt(whole, 8 * n + (j - 1) + 1) = whole[n + 1][(j - 1) + 1]
      BY <1>2, <3>1, BitOfByte
    <3>3. BitAt(whole, 8 * n + j) = crc[1][j]
      BY <1>2, <3>1, <3>2, Zenon
    <3>4. crc[1][j] = 1 - r[j]
      BY <2>1, <3>1
    <3> QED
      BY <3>3, <3>4, Zenon
  <2>3. CASE j > 8
    <3>1. 8 * n + j = 8 * (n + 1) + (j - 9) + 1 /\ j - 9 \in 0..7 /\ n + 1 \in Nat
      BY <1>2, <2>3
    <3>2. (n + 1) + 1 = n + 2 /\ (j - 9) + 1 = j - 8 /\ j - 8 \in 1..8 /\ 8 + (j - 8) = j
      BY <1>2, <2>3
    <3>3. BitAt(whole, 8 * (n + 1) + (j - 9) + 1) = whole[(n + 1) + 1][(j - 9) + 1]
      BY <3>1, BitOfByte
    <3>4. BitAt(whole, 8 * n + j) = crc[2][j - 8]
      BY <1>2, <3>1, <3>2, <3>3, Zenon
    <3>5. crc[2][j - 8] = 1 - r[j]
      BY <2>1, <3>2
    <3> QED
      BY <3>4, <3>5, Zenon
  <2> QED
    BY <2>2, <2>3
<1> DEFINE z == [j \in 0..16 |-> Rest(reg[8 * n + j], r, j)]
<1>6. \A j \in 0..16 : reg[8 * n + j] \in Register
  <2>1. \A j \in 0..16 : 8 * n + j \in 0..8 * Len(whole)
    BY <1>2
  <2>2. reg \in [0..8 * Len(whole) -> Register]
    BY <1>3, Zenon DEF Registers
  <2> QED
    BY <2>1, <2>2, Zenon
<1>7. z[0] = [i \in 1..16 |-> 0]
  <2>1. 8 * n + 0 = 8 * n
    BY <1>2
  <2>2. ASSUME NEW i \in 1..16 PROVE (r[i] + (IF i + 0 <= 16 THEN r[i + 0] ELSE 0)) % 2 = 0
    <3> DEFINE b == r[i]
    <3>1. i + 0 = i /\ i + 0 <= 16
      OBVIOUS
    <3>2. b \in 0..1
      BY <1>1 DEF Register, Bit
    <3>3. (r[i] + (IF i + 0 <= 16 THEN r[i + 0] ELSE 0)) % 2 = (b + b) % 2
      BY <3>1
    <3> HIDE DEF b
    <3>4. (b + b) % 2 = 0
      BY <3>2
    <3> QED
      BY <3>3, <3>4
  <2>3. z[0] = Rest(r, r, 0)
    BY <1>4, <2>1
  <2> QED
    BY <2>2, <2>3 DEF Rest
<1>8. ASSUME NEW j \in 1..16 PROVE z[j] = CrcBit(z[j - 1], 1)
  <2>1. 8 * n + j \in 1..8 * Len(whole) /\ (8 * n + j) - 1 = 8 * n + (j - 1) /\ j - 1 \in 0..16 /\ j \in 0..16
    BY <1>2
  <2>2. reg[8 * n + j] = CrcBit(reg[8 * n + (j - 1)], 1 - r[j])
    BY <1>3, <1>5, <2>1 DEF Registers
  <2>3. Rest(reg[8 * n + j], r, j) = CrcBit(Rest(reg[8 * n + (j - 1)], r, j - 1), 1)
    <3>1. r \in Register /\ reg[8 * n + (j - 1)] \in Register
      BY <1>1, <1>6, <2>1, Zenon
    <3>2. Rest(CrcBit(reg[8 * n + (j - 1)], 1 - r[j]), r, j) = CrcBit(Rest(reg[8 * n + (j - 1)], r, j - 1), 1)
      BY <3>1, RestStep, Zenon
    <3> QED
      BY <2>2, <3>2, Zenon
  <2> QED
    BY <2>1, <2>3
<1>9. z[16] = CrcGood
  <2>1. z[0] = <<0,0,0,0, 0,0,0,0, 0,0,0,0, 0,0,0,0>>
    <3> HIDE DEF z
    <3> QED
      BY <1>7
  <2> HIDE DEF z
  <2>2. Ones(z)
    BY <1>8, <2>1 DEF Ones
  <2> QED
    BY <2>2, SixteenOnes
<1>10. z[16] = reg[8 * n + 16]
  <2> DEFINE last == reg[8 * n + 16]
  <2>1. last \in Register
    BY <1>6
  <2> HIDE DEF last
  <2>2. \A i \in 1..16 : (last[i] + (IF i + 16 <= 16 THEN r[i + 16] ELSE 0)) % 2 = last[i]
    <3>1. SUFFICES ASSUME NEW i \in 1..16 PROVE (last[i] + (IF i + 16 <= 16 THEN r[i + 16] ELSE 0)) % 2 = last[i]
      OBVIOUS
    <3> DEFINE b == last[i]
    <3>2. b \in 0..1
      BY <2>1 DEF Register, Bit
    <3>3. ~(i + 16 <= 16)
      OBVIOUS
    <3> HIDE DEF b
    <3>4. (b + 0) % 2 = b
      BY <3>2
    <3> QED
      BY <3>3, <3>4 DEF b
  <2>3. Rest(last, r, 16) = [i \in 1..16 |-> last[i]]
    BY <2>2 DEF Rest
  <2>4. Rest(last, r, 16) = last
    BY <2>1, <2>3 DEF Register
  <2> QED
    BY <2>4 DEF last
<1> QED
  BY <1>2, <1>3, <1>9, <1>10 DEF CheckCrc, whole, crc
-----------------------------------------------------------------------------
(* The inductive invariant.                                                *)

Item == [byte : Byte, stuff : BOOLEAN]

\* The transmission that goes out or was the last: its frame, how many flags come
\* before and behind, and how many of its bytes have gone out whole.
Body(frame) == frame \o CalcCrc(frame)
Frame == sent[Len(sent)]
Before == FlagsIn(tx_delay)
Length == Len(Frame) + 2
Gone == Len(Transmission(Frame)) - Len(to_send)
Sending == to_send # <<>>

\* What is left to send is the end of a transmission.
RestIsTransmission ==
    /\ to_send \in Seq(Item)
    /\ Sending => /\ sent # <<>> /\ Gone >= 0
                  /\ \A i \in 1..Len(to_send) : to_send[i] = Transmission(Frame)[Gone + i]

\* Ones are counted in data only.
StuffingIsOfData ==
    /\ Sending /\ Gone < Before => stuff_count = 0
    /\ stuff_count = 5 => Sending /\ Head(to_send).stuff

\* From the first symbol on both sides remember the same tone.
TonesAgree == Sending /\ (Gone > 0 \/ bit > 1) => rx_symbol = tx_symbol

\* A zero and then n ones were heard last.
OnesLast(stream, n) == stream[8 - n] = 0 /\ \A i \in 9 - n..8 : stream[i] = 1

\* A flag but the first, which noise may have spoiled, is heard as it is.
FlagIsHeard ==
    Sending /\ FlagsEnough /\ Gone \in 1..Before - 1 /\ bit > 1 =>
       OnesLast(rxbitstream, bit - 2)

\* While the body goes out the receiver knows the transmitter's count of ones, and
\* what it heard is what was sent of it, bit by bit.
BitsSent == IF stuff_count = 5 THEN bit ELSE bit - 1
BytesSent == Gone - Before

BodyIsHeard ==
    Sending /\ FlagsEnough /\ Gone \in Before..Before + Length - 1 /\ Length <= RxBufSize =>
       /\ rxstate /\ OnesLast(rxbitstream, stuff_count)
       /\ IF BitsSent = 8
            THEN /\ Len(rxbuf) = BytesSent + 1 /\ rxbits = <<>>
            ELSE /\ Len(rxbuf) = BytesSent /\ Len(rxbits) = BitsSent
                 /\ \A k \in 1..BitsSent : rxbits[k] = Body(Frame)[BytesSent + 1][k]
       /\ \A i \in 1..Len(rxbuf) : rxbuf[i] = Body(Frame)[i]

\* Then the flag that closes it is.
ClosingFlagIsHeard ==
    Sending /\ FlagsEnough /\ Gone = Before + Length /\ Length <= RxBufSize =>
       /\ rxstate /\ rxbuf = Body(Frame) /\ Len(rxbits) = bit - 1
       /\ OnesLast(rxbitstream, IF bit = 1 THEN stuff_count ELSE bit - 2)

\* How many transmissions have come to the end of their closing flag.
Closed == IF Sending /\ Gone <= Before + Length THEN Len(sent) - 1 ELSE Len(sent)

\* Where the receiver has dispatched each of the first n frames.
HeardAt(at, n) ==
    \A i \in 1..n : Fits(sent[i]) =>
       /\ at[i] \in 1..Len(dispatched) /\ dispatched[at[i]] = sent[i]
       /\ \A j \in 1..i - 1 : Fits(sent[j]) => at[j] < at[i]

FramesAreHeard ==
    FlagsEnough => \E at \in [1..Closed -> 0..Len(dispatched)] : HeardAt(at, Closed)

IInv == /\ TypeOK
        /\ RestIsTransmission
        /\ StuffingIsOfData
        /\ TonesAgree
        /\ FlagIsHeard
        /\ BodyIsHeard
        /\ ClosingFlagIsHeard
        /\ FramesAreHeard
-----------------------------------------------------------------------------
(* What one bit does to the receiver.                                      *)

USE HdlcAssumption, LinkAssumption

Shifted(b) == Append(Tail(rxbitstream), b)

\* A bit received is shifted in at the end of the last eight.
LEMMA ShiftIn ==
  ASSUME HdlcTypeOK, NEW b \in Bit
  PROVE  /\ Shifted(b) \in Seq(Bit) /\ Len(Shifted(b)) = 8
         /\ \A i \in 1..7 : Shifted(b)[i] = rxbitstream[i + 1]
         /\ Shifted(b)[8] = b
<1> DEFINE t == Tail(rxbitstream)
<1>1. t \in Seq(Bit) /\ Len(t) = 7 /\ \A i \in 1..7 : t[i] = rxbitstream[i + 1]
  <2> DEFINE s == rxbitstream
  <2>1. s \in Seq(Bit) /\ Len(s) = 8
    BY DEF HdlcTypeOK
  <2>2. s # <<>>
    BY <2>1
  <2>3. Tail(s) \in Seq(Bit) /\ Len(Tail(s)) = Len(s) - 1
        /\ \A i \in 1..Len(s) - 1 : Tail(s)[i] = s[i + 1]
    BY <2>1, <2>2, HeadTailProperties, Zenon
  <2>4. Len(s) - 1 = 7
    BY <2>1
  <2> QED
    BY <2>3, <2>4, Zenon
<1> HIDE DEF t
<1>2. /\ Append(t, b) \in Seq(Bit) /\ Len(Append(t, b)) = 8
      /\ \A i \in 1..7 : Append(t, b)[i] = t[i]
      /\ Append(t, b)[8] = b
  <2>1. /\ Append(t, b) \in Seq(Bit) /\ Len(Append(t, b)) = Len(t) + 1
        /\ \A i \in 1..Len(t) : Append(t, b)[i] = t[i]
        /\ Append(t, b)[Len(t) + 1] = b
    <3>1. t \in Seq(Bit) /\ b \in Bit
      BY <1>1
    <3> DEFINE T == Bit
    <3>2. t \in Seq(T) /\ b \in T
      BY <3>1
    <3> HIDE DEF T
    <3>3. Append(t, b) \in Seq(T)
      BY <3>2, Appended
    <3>4. Len(Append(t, b)) = Len(t) + 1
      BY <3>2, Appended
    <3>5. \A i \in 1..Len(t) : Append(t, b)[i] = t[i]
      BY <3>2, Appended
    <3>6. Append(t, b)[Len(t) + 1] = b
      BY <3>2, Appended
    <3> QED
      BY <3>3, <3>4, <3>5, <3>6 DEF T
  <2> QED
    BY <1>1, <2>1
<1> QED
  BY <1>1, <1>2 DEF t, Shifted

\* A stream as its bits.
LEMMA StreamIsFlag ==
  ASSUME NEW s \in Seq(Bit), Len(s) = 8
  PROVE  s = Flag <=> \A i \in 1..8 : s[i] = Flag[i]
<1>1. Flag \in Seq(Bit) /\ Len(Flag) = 8
  BY DEF Flag, Bit
<1> QED
  BY <1>1

\* A zero behind five ones, of the last eight bits, is a stuffed one.
LEMMA StreamIsStuffed ==
  ASSUME NEW s \in Seq(Bit), Len(s) = 8
  PROVE  IsStuffed(s) <=> s[8] = 0 /\ \A i \in 3..7 : s[i] = 1
<1> DEFINE u == SubSeq(s, 3, 8)
<1>1. u \in Seq(Bit) /\ Len(u) = 6 /\ u[1] = s[3] /\ u[2] = s[4] /\ u[3] = s[5]
      /\ u[4] = s[6] /\ u[5] = s[7] /\ u[6] = s[8]
  <2>1. \A i \in 3..8 : s[i] \in Bit
    OBVIOUS
  <2>2. u \in Seq(Bit) /\ Len(u) = 6 /\ \A i \in 1..6 : u[i] = s[3 + i - 1]
    BY <2>1, SubSeqProperties
  <2> HIDE DEF u
  <2> QED
    BY <2>2
<1> HIDE DEF u
<1>2. u = <<1, 1, 1, 1, 1, 0>> <=> u[1] = 1 /\ u[2] = 1 /\ u[3] = 1 /\ u[4] = 1 /\ u[5] = 1 /\ u[6] = 0
  <2>1. <<1, 1, 1, 1, 1, 0>> \in Seq(Bit)
    BY DEF Bit
  <2> QED
    BY <1>1, <2>1
<1>3. (\A i \in 3..7 : s[i] = 1) <=> s[3] = 1 /\ s[4] = 1 /\ s[5] = 1 /\ s[6] = 1 /\ s[7] = 1
  OBVIOUS
<1> QED
  BY <1>1, <1>2, <1>3 DEF IsStuffed, u

\* One more bit after some ones.
LEMMA OnesThenBit ==
  ASSUME HdlcTypeOK, NEW n \in 0..6, OnesLast(rxbitstream, n), NEW b \in Bit
  PROVE  /\ b = 0 => OnesLast(Shifted(b), 0)
         /\ b = 1 => OnesLast(Shifted(b), n + 1)
<1> DEFINE u == Shifted(b)
<1>1. u[8] = b /\ \A i \in 1..7 : u[i] = rxbitstream[i + 1]
  BY ShiftIn
<1> HIDE DEF u
<1>2. ASSUME b = 0 PROVE OnesLast(u, 0)
  BY <1>1, <1>2 DEF OnesLast
<1>3. ASSUME b = 1 PROVE OnesLast(u, n + 1)
  <2>1. 8 - (n + 1) \in 1..7 /\ (8 - (n + 1)) + 1 = 8 - n
    OBVIOUS
  <2>2. u[8 - (n + 1)] = 0
    BY <1>1, <2>1 DEF OnesLast
  <2>3. ASSUME NEW i \in 9 - (n + 1)..8 PROVE u[i] = 1
    <3>1. CASE i = 8
      BY <1>1, <1>3, <3>1
    <3>2. CASE i # 8
      <4>1. i \in 1..7 /\ i + 1 \in 9 - n..8
        BY <3>2
      <4> QED
        BY <1>1, <4>1 DEF OnesLast
    <3> QED
      BY <3>1, <3>2
  <2> QED
    BY <2>2, <2>3 DEF OnesLast
<1> QED
  BY <1>2, <1>3 DEF u

\* After up to four ones any bit, and after five a sixth one, is data to the receiver.
LEMMA LooksLikeData ==
  ASSUME HdlcTypeOK, NEW n \in 0..5, OnesLast(rxbitstream, n), NEW b \in Bit, n = 5 => b = 1
  PROVE  Shifted(b) # Flag /\ ~IsAbort(Shifted(b)) /\ ~IsStuffed(Shifted(b))
<1> DEFINE u == Shifted(b)
<1>1. u \in Seq(Bit) /\ Len(u) = 8 /\ u[8] = b /\ \A i \in 1..7 : u[i] = rxbitstream[i + 1]
  BY ShiftIn
<1> HIDE DEF u
<1>2. 8 - n \in 3..8 /\ rxbitstream[8 - n] = 0
  BY DEF OnesLast
<1>3. n < 5 => 7 - n \in 3..7 /\ 7 - n \in 1..7 /\ (7 - n) + 1 = 8 - n
  OBVIOUS
<1>4. b = 0 => n < 5 /\ u[7 - n] = 0
  BY <1>1, <1>2, <1>3
<1>5. u # Flag
  <2>1. b = 0 => \E i \in 3..7 : u[i] # Flag[i]
    <3>1. \A i \in 3..7 : Flag[i] = 1
      BY DEF Flag
    <3> QED
      BY <1>3, <1>4, <3>1
  <2>2. b = 1 => u[8] # Flag[8]
    BY <1>1 DEF Flag
  <2> QED
    BY <1>1, <2>1, <2>2, StreamIsFlag DEF Bit
<1>6. ~IsAbort(u)
  <2>1. b = 1 => u[7 - n] = 0 /\ 7 - n \in 2..8
    BY <1>1, <1>2
  <2>2. b = 0 => u[8] # 1
    BY <1>1
  <2> QED
    BY <2>1, <2>2 DEF IsAbort, Bit
<1>7. ~IsStuffed(u)
  <2>1. b = 0 => ~(\A i \in 3..7 : u[i] = 1)
    BY <1>3, <1>4
  <2> QED
    BY <1>1, <2>1, StreamIsStuffed DEF Bit
<1> QED
  BY <1>5, <1>6, <1>7 DEF u

\* What goes out as data is data to the receiver: after up to four ones any bit,
\* and the sixth one of a flag.
LEMMA DataIsHeard ==
  ASSUME HdlcTypeOK, NEW n \in 0..5, OnesLast(rxbitstream, n), NEW b \in Bit,
         n = 5 => b = 1, rxstate, Len(rxbits) = 7 => RoomForByte, RxBit(b)
  PROVE  /\ rxbitstream' = Shifted(b) /\ rxstate' = TRUE /\ dispatched' = dispatched
         /\ IF Len(rxbits) < 7 THEN rxbits' = Append(rxbits, b) /\ rxbuf' = rxbuf
              ELSE rxbits' = <<>> /\ rxbuf' = Append(rxbuf, Append(rxbits, b))
<1> DEFINE u == Shifted(b)
<1>1. u[8] = b
  BY ShiftIn
<1>2. u # Flag /\ ~IsAbort(u) /\ ~IsStuffed(u)
  BY LooksLikeData
<1> HIDE DEF u
<1>3. u = Append(Tail(rxbitstream), b)
  BY DEF u, Shifted
<1>4. rxbitstream' = u /\ (RxFlag(u) \/ RxAbort(u) \/ RxIgnore(u) \/ RxDataBit(u) \/ RxByte(u) \/ RxTooLong(u))
  BY <1>3 DEF RxBit
<1>5. RxDataBit(u) \/ RxByte(u)
  <2>1. ~RxFlag(u) /\ ~RxAbort(u) /\ ~RxIgnore(u)
    BY <1>2 DEF RxFlag, RxAbort, RxIgnore
  <2>2. ~RxTooLong(u)
    BY DEF RxTooLong
  <2> QED
    BY <1>4, <2>1, <2>2
<1>6. CASE RxDataBit(u)
  <2>1. Len(rxbits) < 7 /\ rxbits' = Append(rxbits, b) /\ rxbuf' = rxbuf /\ rxstate' = rxstate /\ dispatched' = dispatched
    BY <1>1, <1>6 DEF RxDataBit
  <2> QED
    BY <1>4, <2>1 DEF u, HdlcTypeOK
<1>7. CASE RxByte(u)
  <2>1. /\ ~(Len(rxbits) < 7) /\ rxbits' = <<>> /\ rxbuf' = Append(rxbuf, Append(rxbits, b))
        /\ rxstate' = rxstate /\ dispatched' = dispatched
    BY <1>1, <1>7 DEF RxByte
  <2> QED
    BY <1>4, <2>1 DEF u, HdlcTypeOK
<1> QED
  BY <1>5, <1>6, <1>7

\* After five ones the receiver takes the stuffed zero out.
LEMMA StuffingIsTakenOut ==
  ASSUME HdlcTypeOK, OnesLast(rxbitstream, 5), RxBit(0)
  PROVE  /\ rxbitstream' = Shifted(0)
         /\ UNCHANGED <<rxstate, rxbits, rxbuf, dispatched>>
<1> DEFINE u == Shifted(0)
<1>1. u \in Seq(Bit) /\ Len(u) = 8 /\ u[8] = 0 /\ \A i \in 1..7 : u[i] = rxbitstream[i + 1]
  BY ShiftIn DEF Bit
<1> HIDE DEF u
<1>2. u[2] = 0 /\ \A i \in 3..7 : u[i] = 1
  BY <1>1 DEF OnesLast
<1>3. u # Flag
  <2>1. Flag[2] # u[2]
    BY <1>2 DEF Flag
  <2> QED
    BY <1>1, <2>1, StreamIsFlag
<1>4. ~IsAbort(u)
  BY <1>2 DEF IsAbort
<1>5. IsStuffed(u)
  BY <1>1, <1>2, StreamIsStuffed
<1>6. rxbitstream' = u /\ (RxFlag(u) \/ RxAbort(u) \/ RxIgnore(u) \/ RxDataBit(u) \/ RxByte(u) \/ RxTooLong(u))
  BY DEF RxBit, u, Shifted
<1>7. RxIgnore(u)
  BY <1>3, <1>4, <1>5, <1>6 DEF RxFlag, RxAbort, RxDataBit, RxByte, RxTooLong, IsData
<1> QED
  BY <1>6, <1>7 DEF RxIgnore, u

\* A zero after six ones ends a flag.
LEMMA FlagEnds ==
  ASSUME HdlcTypeOK, OnesLast(rxbitstream, 6), RxBit(0)
  PROVE  /\ OnesLast(rxbitstream', 0)
         /\ rxstate' = TRUE /\ rxbuf' = <<>> /\ rxbits' = <<>>
         /\ IF rxstate /\ Len(rxbuf) > 2 THEN Dispatch(rxbuf) ELSE UNCHANGED dispatched
<1> DEFINE u == Shifted(0)
<1>1. u \in Seq(Bit) /\ Len(u) = 8 /\ u[8] = 0 /\ \A i \in 1..7 : u[i] = rxbitstream[i + 1]
  BY ShiftIn DEF Bit
<1> HIDE DEF u
<1>2. u = Flag
  <2>1. u[1] = 0 /\ u[2] = 1 /\ u[3] = 1 /\ u[4] = 1 /\ u[5] = 1 /\ u[6] = 1 /\ u[7] = 1
    BY <1>1 DEF OnesLast
  <2>2. \A i \in 1..8 : u[i] = Flag[i]
    BY <1>1, <2>1 DEF Flag
  <2> QED
    BY <1>1, <2>2, StreamIsFlag
<1>3. rxbitstream' = u /\ (RxFlag(u) \/ RxAbort(u) \/ RxIgnore(u) \/ RxDataBit(u) \/ RxByte(u) \/ RxTooLong(u))
  BY DEF RxBit, u, Shifted
<1>4. RxFlag(u)
  BY <1>2, <1>3 DEF RxAbort, RxIgnore, RxDataBit, RxByte, RxTooLong, IsData
<1>5. OnesLast(u, 0)
  BY <1>1 DEF OnesLast
<1> QED
  BY <1>3, <1>4, <1>5 DEF RxFlag

\* rxbit() keeps within rxbitbuf and rxbuf.
LEMMA HdlcTypeKeeps ==
  ASSUME HdlcTypeOK, NEW b \in Bit, RxBit(b)
  PROVE  HdlcTypeOK'
<1> DEFINE u == Shifted(b)
<1>1. u \in Seq(Bit) /\ Len(u) = 8 /\ u[8] = b
  BY ShiftIn
<1>2. rxbitstream' = u /\ (RxFlag(u) \/ RxAbort(u) \/ RxIgnore(u) \/ RxDataBit(u) \/ RxByte(u) \/ RxTooLong(u))
  BY DEF RxBit, Shifted
<1> HIDE DEF u
<1>3. rxbitstream' \in Seq(Bit) /\ Len(rxbitstream') = 8
  BY <1>1, <1>2
<1> DEFINE Bits == Seq(Bit)
           Packets == Seq(Bits)
<1>4. /\ rxbits \in Bits /\ Len(rxbits) <= 7 /\ rxbuf \in Packets /\ Len(rxbuf) <= RxBufSize
      /\ rxstate \in BOOLEAN /\ dispatched \in Seq(Packets)
  BY DEF HdlcTypeOK
<1>5. <<>> \in Bits /\ <<>> \in Packets /\ Len(<<>>) = 0
  BY EmptySeq
<1>6. Append(rxbits, b) \in Bits /\ Len(Append(rxbits, b)) = Len(rxbits) + 1 /\ Len(rxbits) \in Nat
  <2> DEFINE T == Bit
  <2>1. rxbits \in Seq(T) /\ b \in T
    BY <1>4
  <2> HIDE DEF T
  <2>2. Append(rxbits, b) \in Seq(T) /\ Len(Append(rxbits, b)) = Len(rxbits) + 1 /\ Len(rxbits) \in Nat
    BY <2>1, Appended, LenProperties
  <2> QED
    BY <2>2 DEF T
<1> HIDE DEF Bits
<1>7. Len(rxbuf) \in Nat /\ Append(rxbuf, Append(rxbits, b)) \in Packets
      /\ Len(Append(rxbuf, Append(rxbits, b))) = Len(rxbuf) + 1
  BY <1>4, <1>6, Appended, LenProperties
<1>8. Len(rxbuf) > 2 => SubSeq(rxbuf, 1, Len(rxbuf) - 2) \in Packets
  <2>1. \A i \in 1..Len(rxbuf) - 2 : rxbuf[i] \in Bits
    BY <1>4, <1>7
  <2>2. Len(rxbuf) - 2 \in Int
    BY <1>7
  <2> QED
    BY <2>1, <2>2, SubSeqProperties
<1> HIDE DEF Packets
<1>9. /\ rxbits' \in Bits /\ Len(rxbits') <= 7 /\ rxbuf' \in Packets /\ Len(rxbuf') <= RxBufSize
      /\ rxstate' \in BOOLEAN
  <2>1. CASE RxFlag(u)
    BY <1>5, <2>1 DEF RxFlag
  <2>2. CASE RxAbort(u) \/ RxTooLong(u) \/ RxIgnore(u)
    BY <1>4, <2>2 DEF RxAbort, RxTooLong, RxIgnore
  <2>3. CASE RxDataBit(u)
    BY <1>1, <1>4, <1>6, <2>3 DEF RxDataBit
  <2>4. CASE RxByte(u)
    <3>1. rxbits' = <<>> /\ rxbuf' = Append(rxbuf, Append(rxbits, b)) /\ rxstate' = rxstate /\ Len(rxbuf) < RxBufSize
      BY <1>1, <2>4 DEF RxByte, RoomForByte
    <3> QED
      BY <1>4, <1>5, <1>7, <3>1
  <2> QED
    BY <1>2, <2>1, <2>2, <2>3, <2>4
<1>10. dispatched' \in Seq(Packets)
  <2>1. CASE dispatched' = dispatched
    BY <1>4, <2>1
  <2>2. CASE dispatched' # dispatched
    <3>1. Len(rxbuf) > 2 /\ dispatched' = Append(dispatched, SubSeq(rxbuf, 1, Len(rxbuf) - 2))
      BY <1>2, <2>2 DEF RxFlag, RxAbort, RxIgnore, RxDataBit, RxByte, RxTooLong, Dispatch
    <3> QED
      BY <1>4, <1>8, <3>1, Appended
  <2> QED
    BY <2>1, <2>2
<1> QED
  BY <1>3, <1>9, <1>10 DEF HdlcTypeOK, Packets, Bits

\* What was dispatched stays.
LEMMA DispatchedStays ==
  ASSUME HdlcTypeOK, NEW b \in Bit, RxBit(b)
  PROVE  /\ Len(dispatched) \in Nat /\ Len(dispatched') \in Nat /\ Len(dispatched) <= Len(dispatched')
         /\ \A i \in 1..Len(dispatched) : dispatched'[i] = dispatched[i]
<1> DEFINE Packets == Seq(Seq(Bit))
           new == SubSeq(rxbuf, 1, Len(rxbuf) - 2)
<1>1. dispatched \in Seq(Packets) /\ dispatched' \in Seq(Packets)
  BY HdlcTypeKeeps DEF HdlcTypeOK
<1>2. dispatched' = dispatched \/ dispatched' = Append(dispatched, new)
  BY DEF RxBit, RxFlag, RxAbort, RxIgnore, RxDataBit, RxByte, RxTooLong, Dispatch
<1> HIDE DEF Packets, new
<1>3. Len(dispatched) \in Nat /\ Len(dispatched') \in Nat
  BY <1>1, LenProperties
<1>4. CASE dispatched' = dispatched
  BY <1>3, <1>4
<1>5. CASE dispatched' = Append(dispatched, new)
  <2>1. /\ Len(Append(dispatched, new)) = Len(dispatched) + 1
        /\ \A i \in 1..Len(dispatched) : Append(dispatched, new)[i] = dispatched[i]
    BY <1>1, <1>3
  <2> QED
    BY <1>3, <1>5, <2>1
<1> QED
  BY <1>2, <1>4, <1>5

\* What is heard keeps the types of its history.
LEMMA HearType ==
  ASSUME TypeOK, NEW b \in Bit, RxBit(b), NEW spoilt \in BOOLEAN, Hear(spoilt)
  PROVE  noisy' \in BOOLEAN /\ received' \in Seq(Seq(Seq(Bit)))
<1> DEFINE Bytes == Seq(Seq(Bit))
           last == dispatched'[Len(dispatched')]
<1>1. noisy' \in BOOLEAN
  BY DEF Hear
<1>2. received \in Seq(Bytes) /\ dispatched \in Seq(Bytes) /\ dispatched' \in Seq(Bytes)
  BY HdlcTypeKeeps DEF TypeOK, HdlcTypeOK
<1>3. received' = received \/ (dispatched' # dispatched /\ received' = Append(received, last))
  BY DEF Hear
<1> HIDE DEF Bytes
<1>4. ASSUME dispatched' # dispatched PROVE last \in Bytes
  <2>1. Len(dispatched') # 0
    <3>1. Len(dispatched') = 0 => dispatched' = dispatched
      <4>1. Len(dispatched) <= Len(dispatched') /\ Len(dispatched) \in Nat
        BY DispatchedStays DEF TypeOK
      <4>2. Len(dispatched') = 0 => Len(dispatched) = 0
        BY <4>1
      <4> QED
        BY <1>2, <4>2, EmptySeq
    <3> QED
      BY <1>4, <3>1
  <2>2. Len(dispatched') \in 1..Len(dispatched')
    BY <1>2, <2>1
  <2> QED
    BY <1>2, <2>2
<1> HIDE DEF last
<1>5. received' \in Seq(Bytes)
  <2>1. CASE received' = received
    BY <1>2, <2>1
  <2>2. CASE received' # received
    <3>1. dispatched' # dispatched /\ received' = Append(received, last)
      BY <1>3, <2>2, Zenon
    <3>2. last \in Bytes
      BY <1>4, <3>1
    <3>3. Append(received, last) \in Seq(Bytes)
      BY <1>2, <3>2, Appended
    <3> QED
      BY <3>1, <3>3
  <2> QED
    BY <2>1, <2>2
<1> QED
  BY <1>1, <1>5 DEF Bytes
-----------------------------------------------------------------------------
(* A transmission.                                                         *)

LEMMA BodyType ==
  ASSUME NEW frame \in Seq(Byte)
  PROVE  Body(frame) \in Seq(Byte) /\ Len(frame) \in Nat /\ Len(Body(frame)) = Len(frame) + 2
  BY CrcType, AppendedTwo DEF Body

\* There is a natural number of flags before the frame and after it.
LEMMA DelayType ==
  ASSUME <<tx_delay, tx_tail>> \in Delays
  PROVE  Before \in Nat /\ FlagsIn(tx_tail) \in Nat
<1>1. tx_delay \in Nat /\ tx_tail \in Nat
  OBVIOUS
<1>2. ASSUME NEW ms \in Nat PROVE FlagsIn(ms) \in Nat
  BY DEF FlagsIn
<1> QED
  BY <1>1, <1>2 DEF Before

\* Flags(n) is n flags, sent without stuffing.
LEMMA FlagsAre ==
  ASSUME NEW n \in Nat
  PROVE  /\ Flags(n) \in Seq(Item) /\ Len(Flags(n)) = n
         /\ \A i \in 1..n : Flags(n)[i] = [byte |-> Flag, stuff |-> FALSE]
<1> DEFINE f == [i \in 1..n |-> Flag]
           item == [byte |-> Flag, stuff |-> FALSE]
<1>1. Len(f) = n /\ \A i \in 1..n : f[i] = Flag
  OBVIOUS
<1>2. Flags(n) = [i \in 1..Len(f) |-> [byte |-> f[i], stuff |-> FALSE]]
  BY DEF Flags, Unstuffed
<1>3. item \in Item
  <2>1. Flag \in Byte
    BY DEF Flag, Byte, Bit
  <2> QED
    BY <2>1 DEF Item
<1>4. Flags(n) = [i \in 1..n |-> item]
  BY <1>1, <1>2
<1> HIDE DEF item
<1>5. [i \in 1..n |-> item] \in Seq(Item) /\ Len([i \in 1..n |-> item]) = n
  BY <1>3, IsASeq
<1>6. \A i \in 1..n : [j \in 1..n |-> item][i] = item
  OBVIOUS
<1> QED
  BY <1>4, <1>5, <1>6, Zenon DEF item

\* Stuffed(bytes) is the bytes, sent with stuffing.
LEMMA StuffedAre ==
  ASSUME NEW bytes \in Seq(Byte)
  PROVE  /\ Stuffed(bytes) \in Seq(Item) /\ Len(Stuffed(bytes)) = Len(bytes)
         /\ \A i \in 1..Len(bytes) : Stuffed(bytes)[i] = [byte |-> bytes[i], stuff |-> TRUE]
<1>1. Len(bytes) \in Nat /\ \A i \in 1..Len(bytes) : bytes[i] \in Byte
  OBVIOUS
<1>2. \A i \in 1..Len(bytes) : [byte |-> bytes[i], stuff |-> TRUE] \in Item
  BY <1>1 DEF Item
<1>3. Stuffed(bytes) = [i \in 1..Len(bytes) |-> [byte |-> bytes[i], stuff |-> TRUE]]
  BY DEF Stuffed
<1>4. [i \in 1..Len(bytes) |-> [byte |-> bytes[i], stuff |-> TRUE]] \in Seq(Item)
  BY <1>1, <1>2, IsASeq
<1> QED
  BY <1>1, <1>3, <1>4

\* Flags, the data with its CRC, flags.
LEMMA TransmissionIs ==
  ASSUME NEW frame \in Seq(Byte), <<tx_delay, tx_tail>> \in Delays
  PROVE  /\ Transmission(frame) \in Seq(Item)
         /\ Len(Transmission(frame)) = Before + (Len(frame) + 2) + FlagsIn(tx_tail)
         /\ \A i \in 1..Len(Transmission(frame)) :
              Transmission(frame)[i] =
                IF i \in Before + 1..Before + (Len(frame) + 2)
                  THEN [byte |-> Body(frame)[i - Before], stuff |-> TRUE]
                  ELSE [byte |-> Flag, stuff |-> FALSE]
<1> DEFINE a == Before
           z == FlagsIn(tx_tail)
           n == Len(frame) + 2
           x == Flags(a)
           y == Stuffed(Body(frame))
           w == Flags(z)
           T == Item
           flag == [byte |-> Flag, stuff |-> FALSE]
           data(i) == [byte |-> Body(frame)[i], stuff |-> TRUE]
<1>1. a \in Nat /\ z \in Nat /\ n \in Nat
  BY DelayType, BodyType
<1>2. x \in Seq(T) /\ Len(x) = a /\ \A i \in 1..a : x[i] = flag
  <2> HIDE DEF a
  <2> QED
    BY <1>1, FlagsAre
<1>3. w \in Seq(T) /\ Len(w) = z /\ \A i \in 1..z : w[i] = flag
  <2> HIDE DEF z
  <2> QED
    BY <1>1, FlagsAre
<1>4. y \in Seq(T) /\ Len(y) = n /\ \A i \in 1..n : y[i] = data(i)
  BY BodyType, StuffedAre
<1>5. Transmission(frame) = (x \o y) \o w
  BY DEF Transmission, Body, Before
<1> HIDE DEF a, z, n, x, y, w, T, flag, data
<1>6. /\ x \o y \in Seq(T) /\ Len(x \o y) = a + n
      /\ \A i \in 1..a + n : (x \o y)[i] = IF i <= a THEN x[i] ELSE y[i - a]
  BY <1>2, <1>4, ConcatProperties
<1> DEFINE xy == x \o y
<1> HIDE DEF xy
<1>7. /\ xy \o w \in Seq(T) /\ Len(xy \o w) = (a + n) + z
      /\ \A i \in 1..(a + n) + z : (xy \o w)[i] = IF i <= a + n THEN xy[i] ELSE w[i - (a + n)]
  <2>1. xy \in Seq(T) /\ Len(xy) = a + n
    BY <1>6 DEF xy
  <2>2. Len(xy \o w) = Len(xy) + Len(w) /\ xy \o w \in Seq(T)
    BY <1>3, <2>1, ConcatProperties, Zenon
  <2>3. \A i \in 1..Len(xy) + Len(w) : (xy \o w)[i] = IF i <= Len(xy) THEN xy[i] ELSE w[i - Len(xy)]
    BY <1>3, <2>1, ConcatProperties, Zenon
  <2> QED
    BY <1>3, <2>1, <2>2, <2>3, Zenon
<1> DEFINE t == xy \o w
<1> HIDE DEF t
<1>8. ASSUME NEW i \in 1..(a + n) + z
      PROVE  t[i] = IF i \in a + 1..a + n THEN data(i - a) ELSE flag
  <2>1. t[i] = IF i <= a + n THEN xy[i] ELSE w[i - (a + n)]
    BY <1>7 DEF t
  <2>2. CASE i <= a
    <3>1. i \in 1..a + n /\ i \in 1..a /\ i <= a + n /\ i \notin a + 1..a + n
      BY <1>1, <2>2
    <3>2. xy[i] = x[i]
      BY <1>6, <2>2, <3>1 DEF xy
    <3> QED
      BY <1>2, <2>1, <3>1, <3>2
  <2>3. CASE i > a /\ i <= a + n
    <3>1. i \in 1..a + n /\ ~(i <= a) /\ i - a \in 1..n /\ i \in a + 1..a + n
      BY <1>1, <2>3
    <3>2. xy[i] = y[i - a]
      BY <1>6, <3>1 DEF xy
    <3> QED
      BY <1>4, <2>1, <2>3, <3>1, <3>2
  <2>4. CASE i > a + n
    <3>1. ~(i <= a + n) /\ i - (a + n) \in 1..z /\ i \notin a + 1..a + n
      BY <1>1, <2>4
    <3> QED
      BY <1>3, <2>1, <3>1
  <2> QED
    BY <1>1, <2>2, <2>3, <2>4
<1>9. Transmission(frame) = t
  BY <1>5 DEF t, xy
<1>10. t \in Seq(T) /\ Len(t) = (a + n) + z
  BY <1>7 DEF t
<1> QED
  BY <1>8, <1>9, <1>10 DEF T, a, z, n, flag, data
-----------------------------------------------------------------------------
(* The steps.                                                              *)

FlagItem == [byte |-> Flag, stuff |-> FALSE]

\* Where the transmitter is.
LEMMA RestIs ==
  ASSUME IInv, Sending
  PROVE  /\ sent \in Seq(Frames) /\ Len(sent) \in Nat \ {0} /\ Frame \in Seq(Byte)
         /\ Length \in Nat /\ Length = Len(Frame) + 2 /\ Len(Frame) \in Nat
         /\ Body(Frame) \in Seq(Byte) /\ Len(Body(Frame)) = Length
         /\ Before \in Nat /\ FlagsIn(tx_tail) \in Nat
         /\ to_send \in Seq(Item) /\ Len(to_send) \in Nat \ {0}
         /\ Gone \in Nat /\ Gone + Len(to_send) = Before + Length + FlagsIn(tx_tail)
         /\ Head(to_send) = IF Gone \in Before..Before + Length - 1
                              THEN [byte |-> Body(Frame)[BytesSent + 1], stuff |-> TRUE]
                              ELSE FlagItem
<1>1. sent \in Seq(Frames) /\ sent # <<>> /\ <<tx_delay, tx_tail>> \in Delays
  BY DEF IInv, TypeOK, RestIsTransmission
<1>2. Len(sent) \in Nat \ {0} /\ Frame \in Frames
  <2>1. Len(sent) \in Nat \ {0}
    BY <1>1, EmptySeq
  <2>2. Len(sent) \in 1..Len(sent)
    BY <2>1
  <2> QED
    BY <1>1, <2>1, <2>2 DEF Frame
<1>3. Frame \in Seq(Byte)
  BY <1>2
<1>4. /\ Len(Frame) \in Nat /\ Length = Len(Frame) + 2 /\ Length \in Nat
      /\ Body(Frame) \in Seq(Byte) /\ Len(Body(Frame)) = Length
  BY <1>3, BodyType DEF Length
<1>5. Before \in Nat /\ FlagsIn(tx_tail) \in Nat
  BY <1>1, DelayType
<1>6. to_send \in Seq(Item) /\ Len(to_send) \in Nat \ {0} /\ Head(to_send) = to_send[1]
  <2>1. to_send \in Seq(Item) /\ to_send # <<>>
    BY DEF IInv, RestIsTransmission, Sending
  <2> QED
    BY <2>1, EmptySeq
<1> DEFINE t == Transmission(Frame)
           total == Before + Length + FlagsIn(tx_tail)
<1>7. /\ Len(t) = total /\ total \in Nat
      /\ \A i \in 1..total : t[i] = IF i \in Before + 1..Before + Length
                                       THEN [byte |-> Body(Frame)[i - Before], stuff |-> TRUE]
                                       ELSE FlagItem
  <2>1. /\ Len(t) = Before + Length + FlagsIn(tx_tail)
        /\ \A i \in 1..Len(t) : t[i] = IF i \in Before + 1..Before + Length
                                          THEN [byte |-> Body(Frame)[i - Before], stuff |-> TRUE]
                                          ELSE FlagItem
    BY <1>1, <1>3, TransmissionIs, Zenon DEF FlagItem, Length
  <2>2. total \in Nat
    BY <1>4, <1>5
  <2> QED
    BY <2>1, <2>2, Zenon
<1>8. Gone >= 0 /\ Gone = Len(t) - Len(to_send) /\ to_send[1] = t[Gone + 1]
  BY <1>6 DEF IInv, RestIsTransmission, Gone
<1> HIDE DEF t, total
<1>9. Gone \in Nat /\ Gone + Len(to_send) = total /\ Gone + 1 \in 1..total
  BY <1>6, <1>7, <1>8
<1>10. to_send[1] = IF Gone + 1 \in Before + 1..Before + Length
                      THEN [byte |-> Body(Frame)[(Gone + 1) - Before], stuff |-> TRUE]
                      ELSE FlagItem
  <2> DEFINE k == Gone + 1
  <2>1. k \in 1..total /\ to_send[1] = t[k]
    BY <1>8, <1>9
  <2> HIDE DEF k
  <2>2. to_send[1] = IF k \in Before + 1..Before + Length
                       THEN [byte |-> Body(Frame)[k - Before], stuff |-> TRUE]
                       ELSE FlagItem
    BY <1>7, <2>1, Zenon
  <2> QED
    BY <2>2 DEF k
<1>11. (Gone + 1 \in Before + 1..Before + Length <=> Gone \in Before..Before + Length - 1)
       /\ (Gone + 1) - Before = (Gone - Before) + 1
  BY <1>4, <1>5, <1>9
<1> QED
  BY <1>1, <1>2, <1>3, <1>4, <1>5, <1>6, <1>9, <1>10, <1>11 DEF total, BytesSent

\* The transmission stays what it is as long as the frame and the delays do.
LEMMA SameTransmission ==
  ASSUME UNCHANGED <<config, sent>>
  PROVE  /\ Before' = Before /\ FlagsIn(tx_tail)' = FlagsIn(tx_tail) /\ FlagsEnough' = FlagsEnough
         /\ Frame' = Frame /\ Length' = Length /\ Body(Frame)' = Body(Frame)
         /\ Transmission(Frame)' = Transmission(Frame)
  BY DEF config, Before, FlagsEnough, FlagsIn, Frame, Length, Body, Transmission

\* A byte has gone out whole.
LEMMA NextByte ==
  ASSUME IInv, Sending, UNCHANGED <<config, sent>>, to_send' = Tail(to_send)
  PROVE  /\ RestIsTransmission' /\ Gone' = Gone + 1
         /\ Sending' <=> Gone + 1 < Before + Length + FlagsIn(tx_tail)
<1> DEFINE t == Transmission(Frame)
           rest == Tail(to_send)
<1>1. /\ to_send \in Seq(Item) /\ to_send # <<>> /\ Len(to_send) \in Nat \ {0} /\ Gone \in Nat
      /\ Gone + Len(to_send) = Before + Length + FlagsIn(tx_tail)
      /\ Before \in Nat /\ Length \in Nat /\ FlagsIn(tx_tail) \in Nat
  BY RestIs DEF Sending
<1>2. /\ rest \in Seq(Item) /\ Len(rest) = Len(to_send) - 1
      /\ \A i \in 1..Len(rest) : rest[i] = to_send[i + 1]
  BY <1>1, HeadTailProperties
<1>3. Transmission(Frame)' = t /\ to_send' = rest
  BY SameTransmission
<1>4. Gone = Len(t) - Len(to_send) /\ \A i \in 1..Len(to_send) : to_send[i] = t[Gone + i]
  BY DEF IInv, RestIsTransmission, Gone
<1> HIDE DEF t, rest
<1>5. Len(t) = Gone + Len(to_send)
  <2>1. Len(t) = Before + Length + FlagsIn(tx_tail)
    BY RestIs, TransmissionIs DEF IInv, TypeOK, t
  <2> QED
    BY <1>1, <2>1
<1>6. Gone' = Len(t) - Len(rest)
  BY <1>3 DEF Gone
<1>7. Gone' = Gone + 1
  BY <1>1, <1>2, <1>5, <1>6
<1>8. \A i \in 1..Len(rest) : rest[i] = t[(Gone + 1) + i]
  <2>1. SUFFICES ASSUME NEW i \in 1..Len(rest) PROVE rest[i] = t[(Gone + 1) + i]
    OBVIOUS
  <2>2. i + 1 \in 1..Len(to_send) /\ (Gone + 1) + i = Gone + (i + 1)
    BY <1>1, <1>2
  <2> QED
    BY <1>2, <1>4, <2>2
<1>9. sent' # <<>>
  BY DEF IInv, RestIsTransmission
<1>10. RestIsTransmission'
  BY <1>1, <1>2, <1>3, <1>7, <1>8, <1>9 DEF RestIsTransmission
<1>11. Sending' <=> Len(rest) # 0
  BY <1>2, <1>3, EmptySeq DEF Sending
<1>12. Len(rest) # 0 <=> Gone + 1 < Before + Length + FlagsIn(tx_tail)
  BY <1>1, <1>2
<1> QED
  BY <1>7, <1>10, <1>11, <1>12

\* A bit that does not finish the byte leaves the rest of the transmission as it is.
LEMMA SameByte ==
  ASSUME IInv, UNCHANGED <<config, sent>>, to_send' = to_send
  PROVE  RestIsTransmission' /\ Gone' = Gone /\ Sending' = Sending
<1>1. Gone' = Gone /\ Sending' = Sending
  BY SameTransmission DEF Gone, Sending
<1> QED
  BY <1>1, SameTransmission DEF IInv, RestIsTransmission

\* byteToSymbols() goes on to the next bit.
NextBit == IF bit = 8 THEN to_send' = Tail(to_send) /\ bit' = 1
                      ELSE to_send' = to_send /\ bit' = bit + 1

\* A bit b goes out and the receiver hears h, the same once the tones agree.
BitGoesOut(b, h) ==
    /\ RxBit(h) /\ tx_symbol' \in Bit /\ rx_symbol' = tx_symbol'
    /\ Gone > 0 \/ bit > 1 => h = b
    /\ Hear(FALSE) /\ UNCHANGED <<config, sent, noise>>

\* A bit sent goes out, and is heard as it is once the tones agree.
LEMMA Heard ==
  ASSUME IInv, Sending, NEW b \in Bit,
         Emit(IF b = 0 THEN 1 - tx_symbol ELSE tx_symbol),
         UNCHANGED <<config, sent, noise>>
  PROVE  \E h \in Bit : BitGoesOut(b, h)
<1> DEFINE symbol == IF b = 0 THEN 1 - tx_symbol ELSE tx_symbol
           h == IF symbol = rx_symbol THEN 1 ELSE 0
<1>1. tx_symbol \in 0..1 /\ rx_symbol \in 0..1 /\ b \in 0..1
  BY DEF IInv, TypeOK, Bit
<1>2. symbol \in Bit /\ h \in Bit
  BY <1>1 DEF Bit
<1>3. RxBit(h) /\ tx_symbol' = symbol /\ rx_symbol' = symbol /\ Hear(FALSE)
  BY DEF Emit, Demodulate
<1>4. rx_symbol = tx_symbol => h = b
  BY <1>1
<1>5. Gone > 0 \/ bit > 1 => rx_symbol = tx_symbol
  BY DEF IInv, TonesAgree
<1> HIDE DEF symbol, h
<1>6. BitGoesOut(b, h)
  BY <1>2, <1>3, <1>4, <1>5 DEF BitGoesOut
<1> QED
  BY <1>2, <1>6

\* What SendBit does: a bit of the byte goes out and the ones are counted.
LEMMA SendBitDoes ==
  ASSUME IInv, SendBit
  PROVE  /\ Sending /\ stuff_count \in 0..4 /\ bit \in 1..8
         /\ \E b, h \in Bit :
              /\ b = Head(to_send).byte[bit] /\ BitGoesOut(b, h)
              /\ stuff_count' = IF ~Head(to_send).stuff THEN stuff_count
                                  ELSE IF b = 0 THEN 0 ELSE stuff_count + 1
              /\ stuff_count' \in 0..5
              /\ IF stuff_count' = 5 THEN to_send' = to_send /\ bit' = bit ELSE NextBit
<1> DEFINE b == Head(to_send).byte[bit]
<1>1. Sending /\ stuff_count < StuffAfter /\ UNCHANGED <<config, sent, noise>>
  BY DEF SendBit, Sending
<1>2. stuff_count \in 0..4 /\ bit \in 1..8
  BY <1>1 DEF StuffAfter, IInv, TypeOK
<1>3. b \in Bit
  <2>1. Head(to_send) \in Item
    BY <1>1, RestIs, HeadTailProperties, EmptySeq
  <2> QED
    BY <1>2, <2>1 DEF Item, Byte
<1>4. /\ Emit(IF b = 0 THEN 1 - tx_symbol ELSE tx_symbol)
      /\ stuff_count' = IF ~Head(to_send).stuff THEN stuff_count
                          ELSE IF b = 0 THEN 0 ELSE stuff_count + 1
      /\ IF bit = 8 /\ stuff_count' < StuffAfter
           THEN to_send' = Tail(to_send) /\ bit' = 1
           ELSE bit' = (IF stuff_count' < StuffAfter THEN bit + 1 ELSE bit) /\ UNCHANGED to_send
  BY DEF SendBit
<1> HIDE DEF b
<1>5. PICK h \in Bit : BitGoesOut(b, h)
  BY <1>1, <1>3, <1>4, Heard
<1>6. stuff_count' \in 0..5
  BY <1>2, <1>4
<1>7. IF stuff_count' = 5 THEN to_send' = to_send /\ bit' = bit ELSE NextBit
  <2>1. CASE stuff_count' = 5
    BY <1>4, <2>1 DEF StuffAfter
  <2>2. CASE stuff_count' # 5
    <3>1. stuff_count' < StuffAfter
      BY <1>6, <2>2 DEF StuffAfter
    <3> QED
      BY <1>4, <2>2, <3>1 DEF NextBit
  <2> QED
    BY <2>1, <2>2
<1> QED
  BY <1>1, <1>2, <1>3, <1>4, <1>5, <1>6, <1>7 DEF b

\* What StuffZero does: a zero goes out after five ones and the byte goes on.
LEMMA StuffZeroDoes ==
  ASSUME IInv, StuffZero
  PROVE  /\ Sending /\ stuff_count = 5 /\ bit \in 1..8 /\ Head(to_send).stuff
         /\ stuff_count' = 0 /\ NextBit
         /\ \E h \in Bit : BitGoesOut(0, h)
<1>1. stuff_count = 5 /\ stuff_count' = 0 /\ NextBit /\ UNCHANGED <<config, sent, noise>>
  BY DEF StuffZero, StuffAfter, NextBit
<1>2. Sending /\ Head(to_send).stuff
  BY <1>1 DEF IInv, StuffingIsOfData
<1>3. 0 \in Bit /\ Emit(IF 0 = 0 THEN 1 - tx_symbol ELSE tx_symbol)
  BY DEF StuffZero, Bit
<1>4. \E h \in Bit : BitGoesOut(0, h)
  BY <1>1, <1>2, <1>3, Heard
<1> QED
  BY <1>1, <1>2, <1>4 DEF IInv, TypeOK

\* The sequence of what is left, after either.
LEMMA RestKeeps ==
  ASSUME IInv, Sending, UNCHANGED <<config, sent>>, bit \in 1..8,
         NextBit \/ (to_send' = to_send /\ bit' = bit)
  PROVE  /\ RestIsTransmission' /\ bit' \in 1..8
         /\ \A i \in 1..Len(to_send') : to_send'[i] \in [byte : Byte, stuff : BOOLEAN]
<1>1. RestIsTransmission'
  BY NextByte, SameByte DEF NextBit
<1>2. bit' \in 1..8
  BY DEF NextBit
<1>3. \A i \in 1..Len(to_send') : to_send'[i] \in Item
  <2>1. to_send' \in Seq(Item)
    BY <1>1 DEF RestIsTransmission
  <2> DEFINE s == to_send'
  <2> HIDE DEF s
  <2>2. s \in Seq(Item)
    BY <2>1 DEF s
  <2>3. \A i \in 1..Len(s) : s[i] \in Item
    BY <2>2
  <2> QED
    BY <2>3 DEF s
<1> QED
  BY <1>1, <1>2, <1>3 DEF Item

\* A bit that goes out keeps the types.
LEMMA TypeKeeps ==
  ASSUME IInv, Sending, UNCHANGED <<config, sent, noise>>, bit \in 1..8,
         NextBit \/ (to_send' = to_send /\ bit' = bit), stuff_count' \in 0..5,
         NEW b, NEW h \in Bit, BitGoesOut(b, h)
  PROVE  TypeOK'
<1>1. HdlcTypeOK'
  BY HdlcTypeKeeps DEF IInv, TypeOK, BitGoesOut
<1>2. tx_symbol' \in Bit /\ rx_symbol' \in Bit
  BY DEF BitGoesOut
<1>3. noisy' \in BOOLEAN /\ received' \in Seq(Seq(Seq(Bit)))
  BY HearType DEF IInv, BitGoesOut
<1> QED
  BY <1>1, <1>2, <1>3, RestKeeps DEF IInv, TypeOK, config

\* After a zero the receiver has no ones last.
LEMMA ZeroLast ==
  ASSUME HdlcTypeOK
  PROVE  OnesLast(Shifted(0), 0)
<1>1. 0 \in Bit
  BY DEF Bit
<1>2. Shifted(0)[8] = 0
  BY <1>1, ShiftIn
<1> QED
  BY <1>2 DEF OnesLast

\* The flags do not count their ones.
LEMMA StuffingKeeps ==
  ASSUME IInv, SendBit
  PROVE  StuffingIsOfData'
<1>1. /\ Sending /\ stuff_count \in 0..4 /\ UNCHANGED <<config, sent>>
      /\ ~Head(to_send).stuff => stuff_count' = stuff_count
      /\ IF stuff_count' = 5 THEN to_send' = to_send /\ bit' = bit ELSE NextBit
  BY SendBitDoes DEF BitGoesOut
<1>2. Gone \in Nat /\ Before \in Nat /\ (Gone < Before => ~Head(to_send).stuff)
  BY <1>1, RestIs DEF FlagItem
<1>3. (Gone' = Gone \/ Gone' = Gone + 1) /\ Before' = Before
  BY <1>1, NextByte, SameByte, SameTransmission DEF NextBit
<1>4. Gone' < Before' => stuff_count' = 0
  <2>1. Gone' < Before' => Gone < Before
    BY <1>2, <1>3
  <2>2. Gone < Before => stuff_count = 0
    BY <1>1 DEF IInv, StuffingIsOfData
  <2> QED
    BY <1>1, <1>2, <2>1, <2>2
<1>5. stuff_count' = 5 => Sending' /\ Head(to_send').stuff
  <2>1. stuff_count' = 5 => Head(to_send).stuff
    <3>1. ~Head(to_send).stuff => stuff_count' # 5
      BY <1>1
    <3> QED
      BY <3>1
  <2> QED
    BY <1>1, <2>1 DEF Sending
<1> QED
  BY <1>4, <1>5 DEF StuffingIsOfData

\* A flag goes bit by bit.
LEMMA FlagKeeps ==
  ASSUME IInv, SendBit
  PROVE  FlagIsHeard'
<1> SUFFICES ASSUME Sending', FlagsEnough', Gone' \in 1..Before' - 1, bit' > 1
             PROVE  OnesLast(rxbitstream', bit' - 2)
  BY DEF FlagIsHeard
<1>1. PICK b \in Bit, h \in Bit : b = Head(to_send).byte[bit] /\ BitGoesOut(b, h)
  BY SendBitDoes
<1>2. /\ Sending /\ stuff_count \in 0..4 /\ bit \in 1..8 /\ UNCHANGED <<config, sent>>
      /\ ~Head(to_send).stuff => stuff_count' = stuff_count
      /\ IF stuff_count' = 5 THEN to_send' = to_send /\ bit' = bit ELSE NextBit
  BY SendBitDoes DEF BitGoesOut
<1>3. Gone \in Nat /\ Before \in Nat /\ (Gone < Before => Head(to_send) = FlagItem)
  BY <1>2, RestIs
<1>4. Before' = Before /\ FlagsEnough
  BY <1>2, SameTransmission
<1>5. bit' = bit + 1 /\ bit \in 1..7 /\ Gone' = Gone
  <2>1. CASE stuff_count' = 5
    <3>1. Gone' = Gone
      BY <1>2, <2>1, SameByte
    <3>2. ~Head(to_send).stuff
      BY <1>3, <1>4, <3>1 DEF FlagItem
    <3> QED
      BY <1>2, <2>1, <3>2
  <2>2. CASE stuff_count' # 5
    <3>1. bit # 8
      BY <1>2, <2>2 DEF NextBit
    <3> QED
      BY <1>2, <2>2, <3>1, SameByte DEF NextBit
  <2> QED
    BY <2>1, <2>2
<1>6. h = b /\ b = Flag[bit]
  BY <1>1, <1>3, <1>4, <1>5 DEF BitGoesOut, FlagItem
<1>7. rxbitstream' = Shifted(b)
  BY <1>1, <1>6 DEF BitGoesOut, RxBit, Shifted
<1>8. CASE bit = 1
  <2>1. b = 0
    BY <1>6, <1>8 DEF Flag
  <2>2. bit' - 2 = 0
    BY <1>5, <1>8
  <2> QED
    BY <1>7, <2>1, <2>2, ZeroLast DEF IInv, TypeOK
<1>9. CASE bit > 1
  <2>1. b = 1
    BY <1>5, <1>6, <1>9 DEF Flag
  <2>2. bit - 2 \in 0..6 /\ (bit - 2) + 1 = bit' - 2
    BY <1>5, <1>9
  <2>3. OnesLast(rxbitstream, bit - 2)
    BY <1>2, <1>4, <1>5, <1>9 DEF IInv, FlagIsHeard
  <2>4. OnesLast(Shifted(b), (bit - 2) + 1)
    BY <2>1, <2>2, <2>3, OnesThenBit DEF IInv, TypeOK
  <2> QED
    BY <1>7, <2>2, <2>4
<1> QED
  BY <1>5, <1>8, <1>9

\* The receiver has heard the byte of the body that goes out up to some bit.
HeardUpTo(bits) ==
    /\ rxstate' = TRUE /\ OnesLast(rxbitstream', stuff_count')
    /\ IF bits = 8
         THEN Len(rxbuf') = BytesSent + 1 /\ rxbits' = <<>>
         ELSE /\ Len(rxbuf') = BytesSent /\ Len(rxbits') = bits
              /\ \A k \in 1..bits : rxbits'[k] = Body(Frame)[BytesSent + 1][k]
    /\ \A i \in 1..Len(rxbuf') : rxbuf'[i] = Body(Frame)[i]

InBody == FlagsEnough /\ Gone \in Before..Before + Length - 1 /\ Length <= RxBufSize

\* Data goes bit by bit, until a zero must be stuffed.
LEMMA DataGoesOut ==
  ASSUME IInv, SendBit, InBody
  PROVE  HeardUpTo(bit)
<1>1. PICK b \in Bit, h \in Bit : b = Head(to_send).byte[bit] /\ BitGoesOut(b, h)
         /\ stuff_count' = IF ~Head(to_send).stuff THEN stuff_count
                             ELSE IF b = 0 THEN 0 ELSE stuff_count + 1
  BY SendBitDoes
<1>2. Sending /\ stuff_count \in 0..4 /\ bit \in 1..8
  BY SendBitDoes
<1> DEFINE byte == Body(Frame)[BytesSent + 1]
           n == stuff_count
<1>3. /\ Gone \in Nat /\ Before \in Nat /\ Length \in Nat
      /\ Body(Frame) \in Seq(Byte) /\ Len(Body(Frame)) = Length
      /\ Head(to_send) = [byte |-> byte, stuff |-> TRUE]
  BY <1>2, RestIs DEF InBody
<1>4. Gone > 0
  BY <1>3 DEF InBody, FlagsEnough, Before
<1>5. h = b /\ b = byte[bit] /\ stuff_count' = IF b = 0 THEN 0 ELSE n + 1
  BY <1>1, <1>3, <1>4 DEF BitGoesOut
<1>6. RxBit(b)
  BY <1>1, <1>5 DEF BitGoesOut
<1>7. BitsSent = bit - 1 /\ BitsSent \in 0..7
  BY <1>2 DEF BitsSent
<1>8. BytesSent \in Nat /\ BytesSent < Length /\ BytesSent < RxBufSize
  BY <1>3 DEF InBody, BytesSent
<1>9. /\ rxstate /\ OnesLast(rxbitstream, n)
      /\ Len(rxbuf) = BytesSent /\ Len(rxbits) = bit - 1
      /\ \A k \in 1..bit - 1 : rxbits[k] = byte[k]
      /\ \A i \in 1..Len(rxbuf) : rxbuf[i] = Body(Frame)[i]
  <2>1. /\ rxstate /\ OnesLast(rxbitstream, n)
        /\ Len(rxbuf) = BytesSent /\ Len(rxbits) = BitsSent
        /\ \A k \in 1..BitsSent : rxbits[k] = byte[k]
        /\ \A i \in 1..Len(rxbuf) : rxbuf[i] = Body(Frame)[i]
    <3>1. BitsSent # 8
      BY <1>7
    <3> QED
      BY <1>2, <3>1 DEF IInv, BodyIsHeard, InBody
  <2> QED
    BY <1>7, <2>1
<1>10. HdlcTypeOK
  BY DEF IInv, TypeOK
<1>11. /\ rxbitstream' = Shifted(b) /\ rxstate' = TRUE
       /\ IF Len(rxbits) < 7 THEN rxbits' = Append(rxbits, b) /\ rxbuf' = rxbuf
            ELSE rxbits' = <<>> /\ rxbuf' = Append(rxbuf, Append(rxbits, b))
  <2>1. RoomForByte
    BY <1>8, <1>9 DEF RoomForByte
  <2>2. n \in 0..5 /\ n # 5
    BY <1>2
  <2> QED
    BY <1>6, <1>9, <1>10, <2>1, <2>2, DataIsHeard
<1>12. OnesLast(rxbitstream', stuff_count')
  <2>1. n \in 0..6
    BY <1>2
  <2>2. b = 0 \/ b = 1
    BY DEF Bit
  <2> QED
    BY <1>5, <1>9, <1>10, <1>11, <2>1, <2>2, OnesThenBit
<1>13. /\ Append(rxbits, b) \in Seq(Bit) /\ Len(Append(rxbits, b)) = bit
       /\ \A k \in 1..bit : Append(rxbits, b)[k] = byte[k]
  <2>1. rxbits \in Seq(Bit)
    BY <1>10 DEF HdlcTypeOK
  <2> DEFINE T == Bit
             new == Append(rxbits, b)
  <2>2. rxbits \in Seq(T) /\ b \in T
    BY <2>1
  <2> HIDE DEF T
  <2>3. /\ new \in Seq(T) /\ Len(new) = Len(rxbits) + 1
        /\ (\A i \in 1..Len(rxbits) : new[i] = rxbits[i]) /\ new[Len(rxbits) + 1] = b
    <3>1. new \in Seq(T)
      BY <2>2, Appended
    <3>2. Len(new) = Len(rxbits) + 1
      BY <2>2, Appended
    <3>3. \A i \in 1..Len(rxbits) : new[i] = rxbits[i]
      BY <2>2, Appended
    <3>4. new[Len(rxbits) + 1] = b
      BY <2>2, Appended
    <3> QED
      BY <3>1, <3>2, <3>3, <3>4
  <2> HIDE DEF new, byte
  <2>4. Len(new) = bit /\ new[bit] = b
    BY <1>2, <1>9, <2>3
  <2>5. ASSUME NEW k \in 1..bit PROVE new[k] = byte[k]
    <3>1. k = bit \/ k \in 1..bit - 1
      BY <1>2
    <3> QED
      BY <1>5, <1>9, <2>3, <2>4, <3>1
  <2> QED
    BY <2>3, <2>4, <2>5 DEF T, new
<1>14. CASE bit # 8
  <2>1. Len(rxbits) < 7
    BY <1>2, <1>9, <1>14
  <2> QED
    BY <1>9, <1>11, <1>12, <1>13, <1>14, <2>1 DEF HeardUpTo
<1>15. CASE bit = 8
  <2> DEFINE whole == Append(rxbits, b)
             T == Seq(Bit)
  <2>1. ~(Len(rxbits) < 7)
    BY <1>9, <1>15
  <2>2. whole = byte
    <3>1. BytesSent + 1 \in 1..Length
      BY <1>3, <1>8
    <3>2. byte \in Byte
      BY <1>3, <3>1
    <3>3. byte \in [1..8 -> Bit]
      BY <3>2 DEF Byte
    <3>4. whole \in Seq(Bit) /\ Len(whole) = 8 /\ \A k \in 1..8 : whole[k] = byte[k]
      BY <1>13, <1>15
    <3> HIDE DEF whole, byte
    <3> QED
      BY <3>3, <3>4
  <2>3. rxbuf \in Seq(T) /\ whole \in T
    BY <1>10, <1>13 DEF HdlcTypeOK
  <2>4. rxbuf' = Append(rxbuf, whole) /\ rxbits' = <<>>
    BY <1>11, <2>1
  <2> HIDE DEF whole, T, byte
  <2>5. /\ Len(rxbuf') = Len(rxbuf) + 1 /\ rxbuf'[Len(rxbuf) + 1] = whole
        /\ \A i \in 1..Len(rxbuf) : rxbuf'[i] = rxbuf[i]
    BY <2>3, <2>4, Appended
  <2>6. Len(rxbuf') = BytesSent + 1 /\ rxbuf'[BytesSent + 1] = byte
    BY <1>9, <2>2, <2>5
  <2>7. ASSUME NEW i \in 1..Len(rxbuf') PROVE rxbuf'[i] = Body(Frame)[i]
    <3>1. i \in 1..BytesSent \/ i = BytesSent + 1
      BY <1>8, <2>6
    <3> QED
      BY <1>9, <2>5, <2>6, <3>1 DEF byte
  <2> QED
    BY <1>11, <1>12, <1>15, <2>4, <2>6, <2>7 DEF HeardUpTo
<1> QED
  BY <1>14, <1>15

\* The zero after five ones adds nothing to it.
LEMMA ZeroGoesOut ==
  ASSUME IInv, StuffZero, InBody
  PROVE  HeardUpTo(bit)
<1>1. /\ Sending /\ stuff_count = 5 /\ bit \in 1..8 /\ Head(to_send).stuff /\ stuff_count' = 0
  BY StuffZeroDoes
<1>2. PICK h \in Bit : BitGoesOut(0, h)
  BY StuffZeroDoes
<1>3. Gone > 0
  BY <1>1, RestIs DEF InBody, FlagsEnough, Before
<1>4. RxBit(0)
  BY <1>2, <1>3 DEF BitGoesOut
<1>5. /\ rxstate /\ OnesLast(rxbitstream, 5) /\ BitsSent = bit
      /\ IF BitsSent = 8
           THEN Len(rxbuf) = BytesSent + 1 /\ rxbits = <<>>
           ELSE /\ Len(rxbuf) = BytesSent /\ Len(rxbits) = BitsSent
                /\ \A k \in 1..BitsSent : rxbits[k] = Body(Frame)[BytesSent + 1][k]
      /\ \A i \in 1..Len(rxbuf) : rxbuf[i] = Body(Frame)[i]
  <2>1. BitsSent = bit
    BY <1>1 DEF BitsSent
  <2> QED
    BY <1>1, <2>1 DEF IInv, BodyIsHeard, InBody
<1>6. HdlcTypeOK /\ rxstate \in BOOLEAN
  BY DEF IInv, TypeOK, HdlcTypeOK
<1>7. rxbitstream' = Shifted(0) /\ UNCHANGED <<rxstate, rxbits, rxbuf>>
  BY <1>4, <1>5, <1>6, StuffingIsTakenOut
<1>8. OnesLast(rxbitstream', stuff_count')
  BY <1>1, <1>6, <1>7, ZeroLast
<1>9. rxstate' = TRUE
  BY <1>5, <1>6, <1>7
<1> QED
  BY <1>5, <1>7, <1>8, <1>9 DEF HeardUpTo

\* After a bit of the body: still in the body, or before the closing flag.
LEMMA AfterBodyBit ==
  ASSUME IInv, Sending, InBody, UNCHANGED <<config, sent>>, HdlcTypeOK',
         bit \in 1..8, stuff_count' \in 0..5,
         IF stuff_count' = 5 THEN to_send' = to_send /\ bit' = bit ELSE NextBit,
         HeardUpTo(bit)
  PROVE  BodyIsHeard' /\ ClosingFlagIsHeard'
<1>1. /\ Gone \in Nat /\ Before \in Nat /\ Length \in Nat
      /\ Body(Frame) \in Seq(Byte) /\ Len(Body(Frame)) = Length
  BY RestIs
<1>2. /\ Before' = Before /\ Length' = Length /\ Body(Frame)' = Body(Frame) /\ FlagsEnough' = FlagsEnough
  BY SameTransmission
<1>3. CASE stuff_count' = 5
  <2>1. Gone' = Gone /\ bit' = bit /\ BytesSent' = BytesSent
    BY <1>2, <1>3, SameByte DEF BytesSent
  <2>2. BitsSent' = bit
    BY <1>3, <2>1 DEF BitsSent
  <2>3. BodyIsHeard'
    BY <1>2, <2>1, <2>2 DEF BodyIsHeard, HeardUpTo
  <2>4. Gone' # Before' + Length'
    BY <1>1, <1>2, <2>1 DEF InBody
  <2> QED
    BY <2>3, <2>4 DEF ClosingFlagIsHeard
<1>4. CASE stuff_count' # 5 /\ bit # 8
  <2>1. Gone' = Gone /\ bit' = bit + 1 /\ BytesSent' = BytesSent
    BY <1>2, <1>4, SameByte DEF BytesSent, NextBit
  <2>2. BitsSent' = bit
    BY <1>4, <2>1 DEF BitsSent
  <2>3. BodyIsHeard'
    BY <1>2, <2>1, <2>2 DEF BodyIsHeard, HeardUpTo
  <2>4. Gone' # Before' + Length'
    BY <1>1, <1>2, <2>1 DEF InBody
  <2> QED
    BY <2>3, <2>4 DEF ClosingFlagIsHeard
<1>5. CASE stuff_count' # 5 /\ bit = 8
  <2>1. Gone' = Gone + 1 /\ bit' = 1
    BY <1>5, NextByte DEF NextBit
  <2>2. BytesSent' = BytesSent + 1 /\ BitsSent' = 0
    BY <1>1, <1>2, <1>5, <2>1 DEF BytesSent, BitsSent
  <2>3. /\ rxstate' /\ OnesLast(rxbitstream', stuff_count')
        /\ Len(rxbuf') = BytesSent + 1 /\ rxbits' = <<>> /\ Len(rxbits') = 0
        /\ \A i \in 1..Len(rxbuf') : rxbuf'[i] = Body(Frame)[i]
    BY <1>5 DEF HeardUpTo
  <2>4. BodyIsHeard'
    <3>1. BitsSent' # 8 /\ \A k \in 1..BitsSent' : FALSE
      BY <2>2
    <3> QED
      BY <1>2, <2>2, <2>3, <3>1 DEF BodyIsHeard
  <2>5. ASSUME Gone' = Before + Length PROVE rxbuf' = Body(Frame)
    <3>1. Len(rxbuf') = Length
      BY <1>1, <2>1, <2>3, <2>5 DEF BytesSent
    <3> DEFINE x == rxbuf'
               y == Body(Frame)
    <3>2. x \in Seq(Seq(Bit))
      BY DEF HdlcTypeOK
    <3>3. Len(x) = Len(y) /\ y \in Seq(Byte) /\ \A i \in 1..Len(x) : x[i] = y[i]
      BY <1>1, <2>3, <3>1
    <3> HIDE DEF x, y
    <3>4. x = [i \in 1..Len(x) |-> x[i]]
      BY <3>2
    <3>5. y = [i \in 1..Len(y) |-> y[i]]
      BY <3>3
    <3>6. x = y
      BY <3>3, <3>4, <3>5
    <3> QED
      BY <3>6 DEF x, y
  <2>6. ClosingFlagIsHeard'
    BY <1>2, <2>1, <2>3, <2>5 DEF ClosingFlagIsHeard
  <2> QED
    BY <2>4, <2>6
<1> QED
  BY <1>3, <1>4, <1>5

\* Right before the body and right behind it a flag is sent.
LEMMA FlagFollows ==
  ASSUME IInv, Sending, Gone = Before - 1 \/ Gone = Before + Length
  PROVE  /\ Gone \in Nat /\ Before \in Nat /\ Length \in Nat /\ Length >= 2
         /\ Head(to_send) = FlagItem
<1>1. Gone \in Nat /\ Before \in Nat /\ Length \in Nat /\ Length = Len(Frame) + 2 /\ Len(Frame) \in Nat
  BY RestIs, Zenon
<1>2. Length >= 2 /\ Gone \notin Before..Before + Length - 1
  BY <1>1
<1>3. Head(to_send) = FlagItem
  BY <1>2, RestIs, Zenon
<1> QED
  BY <1>1, <1>2, <1>3

\* A flag ends before the body.
LEMMA BodyBegins ==
  ASSUME IInv, SendBit, FlagsEnough, Gone = Before - 1, Gone' = Before
  PROVE  BodyIsHeard' /\ ClosingFlagIsHeard'
<1>1. PICK b \in Bit, h \in Bit : b = Head(to_send).byte[bit] /\ BitGoesOut(b, h)
  BY SendBitDoes
<1>2. /\ Sending /\ stuff_count \in 0..4 /\ bit \in 1..8 /\ UNCHANGED <<config, sent>>
      /\ ~Head(to_send).stuff => stuff_count' = stuff_count
      /\ IF stuff_count' = 5 THEN to_send' = to_send /\ bit' = bit ELSE NextBit
  BY SendBitDoes DEF BitGoesOut
<1>3. /\ Gone \in Nat /\ Before \in Nat /\ Length \in Nat /\ Length >= 2
      /\ Head(to_send) = FlagItem
  BY <1>2, FlagFollows
<1>4. /\ Before' = Before /\ Length' = Length /\ Body(Frame)' = Body(Frame)
  BY <1>2, SameTransmission
<1>5. Gone > 0
  BY <1>3 DEF FlagsEnough, Before
<1>6. stuff_count = 0 /\ stuff_count' = 0
  BY <1>2, <1>3 DEF IInv, StuffingIsOfData, FlagItem
<1>7. bit = 8 /\ bit' = 1
  <2>1. NextBit
    BY <1>2, <1>6
  <2>2. bit = 8
    <3>1. bit # 8 => Gone' = Gone
      BY <1>2, <2>1, SameByte DEF NextBit
    <3> QED
      BY <1>3, <3>1
  <2> QED
    BY <2>1, <2>2 DEF NextBit
<1>8. h = 0
  BY <1>1, <1>3, <1>5, <1>7 DEF BitGoesOut, FlagItem, Flag
<1>9. OnesLast(rxbitstream, 6)
  <2>1. Gone \in 1..Before - 1 /\ bit > 1 /\ bit - 2 = 6
    BY <1>3, <1>5, <1>7
  <2> QED
    BY <1>2, <2>1 DEF IInv, FlagIsHeard
<1>10. OnesLast(rxbitstream', 0) /\ rxstate' = TRUE /\ rxbuf' = <<>> /\ rxbits' = <<>>
  BY <1>1, <1>8, <1>9, FlagEnds DEF BitGoesOut, IInv, TypeOK
<1>11. BytesSent' = 0 /\ BitsSent' = 0
  BY <1>3, <1>4, <1>6, <1>7 DEF BytesSent, BitsSent
<1>12. Len(rxbuf') = 0 /\ Len(rxbits') = 0 /\ (\A k \in 1..0 : FALSE) /\ 0 # 8
  BY <1>10
<1>13. BodyIsHeard'
  BY <1>6, <1>10, <1>11, <1>12, Zenon DEF BodyIsHeard
<1>14. Gone' # Before' + Length'
  BY <1>3, <1>4
<1> QED
  BY <1>13, <1>14 DEF ClosingFlagIsHeard

\* The closing flag goes bit by bit; its six ones are data until the zero comes.
LEMMA ClosingGoesOut ==
  ASSUME IInv, SendBit, FlagsEnough, Gone = Before + Length, Gone' = Gone
  PROVE  BodyIsHeard' /\ ClosingFlagIsHeard'
<1>1. PICK b \in Bit, h \in Bit : b = Head(to_send).byte[bit] /\ BitGoesOut(b, h)
  BY SendBitDoes
<1>2. /\ Sending /\ stuff_count \in 0..4 /\ bit \in 1..8 /\ UNCHANGED <<config, sent>>
      /\ ~Head(to_send).stuff => stuff_count' = stuff_count
      /\ IF stuff_count' = 5 THEN to_send' = to_send /\ bit' = bit ELSE NextBit
  BY SendBitDoes DEF BitGoesOut
<1>3. /\ Gone \in Nat /\ Before \in Nat /\ Length \in Nat /\ Length >= 2
      /\ Head(to_send) = FlagItem
  BY <1>2, FlagFollows
<1>4. Before' = Before /\ Length' = Length /\ Body(Frame)' = Body(Frame)
  BY <1>2, SameTransmission
<1>5. BodyIsHeard'
  BY <1>3, <1>4 DEF BodyIsHeard
<1>6. bit \in 1..7 /\ bit' = bit + 1 /\ stuff_count' = stuff_count
  <2>1. stuff_count' = stuff_count
    BY <1>2, <1>3 DEF FlagItem
  <2>2. NextBit
    BY <1>2, <2>1
  <2>3. bit # 8
    BY <1>2, <1>3, <2>2, NextByte DEF NextBit
  <2> QED
    BY <1>2, <2>1, <2>2, <2>3 DEF NextBit
<1> SUFFICES ASSUME Length <= RxBufSize PROVE ClosingFlagIsHeard'
  BY <1>4, <1>5 DEF ClosingFlagIsHeard
<1> DEFINE n == IF bit = 1 THEN stuff_count ELSE bit - 2
<1>7. rxstate /\ rxbuf = Body(Frame) /\ Len(rxbits) = bit - 1 /\ OnesLast(rxbitstream, n)
  BY <1>2 DEF IInv, ClosingFlagIsHeard
<1>8. h = b /\ b = Flag[bit]
  BY <1>1, <1>3 DEF BitGoesOut, FlagItem
<1>9. HdlcTypeOK /\ RxBit(b)
  BY <1>1, <1>8 DEF BitGoesOut, IInv, TypeOK
<1>10. n \in 0..5 /\ n \in 0..6 /\ (n = 5 => bit = 7)
  BY <1>2, <1>6
<1>11. b = IF bit = 1 THEN 0 ELSE 1
  BY <1>6, <1>8 DEF Flag
<1>12. Len(rxbits) < 7
  BY <1>6, <1>7
<1>13. /\ rxbitstream' = Shifted(b) /\ rxstate' = TRUE /\ rxbits' = Append(rxbits, b) /\ rxbuf' = rxbuf
  <2>1. n = 5 => b = 1
    BY <1>10, <1>11
  <2>2. Len(rxbits) = 7 => RoomForByte
    BY <1>12
  <2> HIDE DEF n
  <2>3. n \in 0..5 /\ OnesLast(rxbitstream, n) /\ rxstate /\ HdlcTypeOK /\ RxBit(b)
    BY <1>7, <1>9, <1>10
  <2>4. /\ rxbitstream' = Shifted(b) /\ rxstate' = TRUE
        /\ IF Len(rxbits) < 7 THEN rxbits' = Append(rxbits, b) /\ rxbuf' = rxbuf
             ELSE rxbits' = <<>> /\ rxbuf' = Append(rxbuf, Append(rxbits, b))
    BY <2>1, <2>2, <2>3, DataIsHeard
  <2> QED
    BY <1>12, <2>4
<1>14. OnesLast(rxbitstream', bit' - 2)
  <2>1. CASE bit = 1
    <3>1. bit' - 2 = 0 /\ b = 0
      BY <1>6, <1>11, <2>1
    <3> QED
      BY <1>9, <1>13, <3>1, ZeroLast
  <2>2. CASE bit # 1
    <3>1. n + 1 = bit' - 2 /\ b = 1
      BY <1>6, <1>11, <2>2
    <3>2. OnesLast(Shifted(b), n + 1)
      BY <1>7, <1>9, <1>10, <3>1, OnesThenBit
    <3> QED
      BY <1>13, <3>1, <3>2
  <2> QED
    BY <2>1, <2>2
<1>15. Len(rxbits') = bit' - 1
  <2> DEFINE T == Bit
  <2>1. rxbits \in Seq(T) /\ b \in T
    BY <1>9 DEF HdlcTypeOK
  <2> HIDE DEF T
  <2>2. Len(Append(rxbits, b)) = Len(rxbits) + 1
    BY <2>1, Appended
  <2> QED
    BY <1>6, <1>7, <1>13, <2>2
<1>16. bit' # 1
  BY <1>6
<1> QED
  BY <1>4, <1>7, <1>13, <1>14, <1>15, <1>16 DEF ClosingFlagIsHeard

\* A bit sent keeps what was heard of the body and of the closing flag,
LEMMA BodyKeepsSending ==
  ASSUME IInv, SendBit
  PROVE  BodyIsHeard' /\ ClosingFlagIsHeard'
<1>1. /\ Sending /\ stuff_count \in 0..4 /\ bit \in 1..8 /\ UNCHANGED <<config, sent, noise>>
      /\ stuff_count' \in 0..5
      /\ IF stuff_count' = 5 THEN to_send' = to_send /\ bit' = bit ELSE NextBit
  BY SendBitDoes DEF BitGoesOut
<1>2. Gone \in Nat /\ Before \in Nat /\ Length \in Nat
  BY <1>1, RestIs
<1>3. Before' = Before /\ Length' = Length /\ FlagsEnough' = FlagsEnough
  BY <1>1, SameTransmission
<1>4. Gone' = Gone \/ Gone' = Gone + 1
  BY <1>1, NextByte, SameByte DEF NextBit
<1>5. CASE ~FlagsEnough \/ ~(Length <= RxBufSize) \/ ~(Gone' \in Before..Before + Length)
  <2>1. Gone' = Before' + Length' => Gone' \in Before..Before + Length
    BY <1>2, <1>3
  <2>2. Gone' \in Before'..Before' + Length' - 1 => Gone' \in Before..Before + Length
    BY <1>2, <1>3
  <2> QED
    BY <1>3, <1>5, <2>1, <2>2 DEF BodyIsHeard, ClosingFlagIsHeard
<1>6. CASE FlagsEnough /\ Length <= RxBufSize /\ Gone' \in Before..Before + Length
  <2>1. \/ Gone = Before - 1 /\ Gone' = Before
        \/ Gone \in Before..Before + Length - 1
        \/ Gone = Before + Length /\ Gone' = Gone
    BY <1>2, <1>4, <1>6
  <2>2. ASSUME Gone \in Before..Before + Length - 1 PROVE BodyIsHeard' /\ ClosingFlagIsHeard'
    <3>1. InBody
      BY <1>6, <2>2 DEF InBody
    <3>2. HdlcTypeOK'
      BY SendBitDoes, HdlcTypeKeeps DEF BitGoesOut, IInv, TypeOK
    <3> QED
      BY <1>1, <3>1, <3>2, DataGoesOut, AfterBodyBit
  <2> QED
    BY <1>6, <2>1, <2>2, BodyBegins, ClosingGoesOut
<1> QED
  BY <1>5, <1>6

\* and a stuffed zero keeps it too, and what was heard of the flag before it.
LEMMA BodyKeepsStuffing ==
  ASSUME IInv, StuffZero
  PROVE  FlagIsHeard' /\ BodyIsHeard' /\ ClosingFlagIsHeard'
<1>1. /\ Sending /\ stuff_count = 5 /\ bit \in 1..8 /\ Head(to_send).stuff
      /\ UNCHANGED <<config, sent, noise>> /\ stuff_count' = 0 /\ NextBit
  BY StuffZeroDoes DEF BitGoesOut
<1>2. Gone \in Before..Before + Length - 1 /\ Gone \in Nat /\ Before \in Nat /\ Length \in Nat
  <2>1. ~FlagItem.stuff
    BY DEF FlagItem
  <2> QED
    BY <1>1, <2>1, RestIs
<1>3. Before' = Before /\ Length' = Length /\ FlagsEnough' = FlagsEnough
  BY <1>1, SameTransmission
<1>4. Gone' = Gone \/ Gone' = Gone + 1
  BY <1>1, NextByte, SameByte DEF NextBit
<1>5. FlagIsHeard'
  BY <1>2, <1>3, <1>4 DEF FlagIsHeard
<1>6. CASE InBody
  <2>1. HdlcTypeOK' /\ stuff_count' \in 0..5 /\ stuff_count' # 5
    <3>1. PICK h \in Bit : BitGoesOut(0, h)
      BY StuffZeroDoes
    <3>2. HdlcTypeOK'
      BY <3>1, HdlcTypeKeeps DEF BitGoesOut, IInv, TypeOK
    <3>3. stuff_count' = 0
      BY StuffZeroDoes
    <3> QED
      BY <3>2, <3>3
  <2> QED
    BY <1>1, <1>5, <1>6, <2>1, ZeroGoesOut, AfterBodyBit
<1>7. CASE ~InBody
  <2>1. ~(FlagsEnough' /\ Length' <= RxBufSize)
    BY <1>2, <1>3, <1>7 DEF InBody
  <2> QED
    BY <1>5, <2>1 DEF BodyIsHeard, ClosingFlagIsHeard
<1> QED
  BY <1>6, <1>7

\* Nothing that was dispatched goes away.
Kept == /\ Len(dispatched) \in Nat /\ Len(dispatched') \in Nat /\ Len(dispatched) <= Len(dispatched')
        /\ \A i \in 1..Len(dispatched) : dispatched'[i] = dispatched[i]

\* Frames heard at a place of what was dispatched stay heard when more is.
LEMMA HeardStays ==
  ASSUME NEW n \in Nat, \A i \in 1..n : sent'[i] = sent[i], Kept,
         NEW at \in [1..n -> 0..Len(dispatched)], HeardAt(at, n)
  PROVE  at \in [1..n -> 0..Len(dispatched')] /\ HeardAt(at, n)'
<1>1. at \in [1..n -> 0..Len(dispatched')]
  <2>1. 0..Len(dispatched) \subseteq 0..Len(dispatched')
    BY DEF Kept
  <2> QED
    BY <2>1
<1>2. \A i \in 1..n : Fits(sent'[i]) <=> Fits(sent[i])
  BY DEF Fits
<1>3. ASSUME NEW i \in 1..n, Fits(sent'[i])
      PROVE  /\ at[i] \in 1..Len(dispatched') /\ dispatched'[at[i]] = sent'[i]
             /\ \A j \in 1..i - 1 : Fits(sent'[j]) => at[j] < at[i]
  <2>1. /\ at[i] \in 1..Len(dispatched) /\ dispatched[at[i]] = sent[i]
        /\ \A j \in 1..i - 1 : Fits(sent[j]) => at[j] < at[i]
    BY <1>2, <1>3 DEF HeardAt
  <2>2. at[i] \in 1..Len(dispatched') /\ dispatched'[at[i]] = dispatched[at[i]]
    BY <2>1 DEF Kept
  <2>3. \A j \in 1..i - 1 : j \in 1..n
    OBVIOUS
  <2> QED
    BY <1>2, <2>1, <2>2, <2>3
<1>4. HeardAt(at, n)'
  BY <1>3 DEF HeardAt, Fits
<1> QED
  BY <1>1, <1>4

\* The frames heard, from one state to the next while none is closed.
LEMMA NoneCloses ==
  ASSUME IInv, Closed \in Nat, Closed' = Closed, FlagsEnough' = FlagsEnough,
         \A i \in 1..Closed : sent'[i] = sent[i], Kept
  PROVE  FramesAreHeard'
<1> SUFFICES ASSUME FlagsEnough
             PROVE  \E at \in [1..Closed' -> 0..Len(dispatched')] : HeardAt(at, Closed)'
  BY DEF FramesAreHeard
<1>1. PICK n \in Nat : n = Closed
  OBVIOUS
<1>2. PICK at \in [1..n -> 0..Len(dispatched)] : HeardAt(at, n)
  BY <1>1 DEF IInv, FramesAreHeard
<1>3. at \in [1..n -> 0..Len(dispatched')] /\ HeardAt(at, n)'
  BY <1>1, <1>2, HeardStays
<1>4. HeardAt(at, n)' => HeardAt(at, Closed)'
  BY <1>1 DEF HeardAt
<1> QED
  BY <1>1, <1>3, <1>4

\* What check_crc_ccitt() leaves of a frame with its CRC is the frame.
LEMMA FrameOfBody ==
  ASSUME NEW frame \in Seq(Byte)
  PROVE  SubSeq(Body(frame), 1, Len(Body(frame)) - 2) = frame
<1> DEFINE crc == CalcCrc(frame)
           n == Len(frame)
           whole == frame \o crc
<1>1. crc \in Seq(Byte) /\ Len(crc) = 2
  BY CrcType
<1> HIDE DEF crc
<1>2. whole \in Seq(Byte) /\ n \in Nat /\ Len(whole) = n + 2 /\ \A i \in 1..n : whole[i] = frame[i]
  BY <1>1, AppendedTwo
<1>3. Body(frame) = whole
  BY DEF Body, crc
<1> HIDE DEF whole
<1>4. Len(whole) - 2 = n
  BY <1>2
<1>5. SubSeq(whole, 1, n) = frame
  <2> DEFINE part == SubSeq(whole, 1, n)
  <2>1. part \in Seq(Byte) /\ Len(part) = n /\ \A i \in 1..n : part[i] = whole[i]
    <3>1. \A i \in 1..n : whole[i] \in Byte
      BY <1>2
    <3> QED
      BY <1>2, <3>1, SubSeqProperties
  <2> HIDE DEF part
  <2>2. part = frame
    BY <1>2, <2>1
  <2> QED
    BY <2>2 DEF part
<1> QED
  BY <1>3, <1>4, <1>5

\* The zero of a closing flag has the receiver dispatch the frame.
LEMMA FrameCloses ==
  ASSUME IInv, SendBit, FlagsEnough, Gone = Before + Length, bit = 8, Fits(Frame)
  PROVE  dispatched' = Append(dispatched, Frame)
<1>1. PICK b \in Bit, h \in Bit : b = Head(to_send).byte[bit] /\ BitGoesOut(b, h)
  BY SendBitDoes
<1>2. Sending
  BY SendBitDoes
<1>3. /\ Gone \in Nat /\ Before \in Nat /\ Length \in Nat /\ Length = Len(Frame) + 2
      /\ Frame \in Seq(Byte) /\ Len(Body(Frame)) = Length /\ Len(Frame) \in Nat
      /\ Head(to_send) = FlagItem
  BY <1>2, RestIs
<1>4. h = 0
  BY <1>1, <1>3 DEF BitGoesOut, FlagItem, Flag
<1>5. rxstate /\ rxbuf = Body(Frame) /\ OnesLast(rxbitstream, 6)
  <2>1. Length <= RxBufSize /\ bit # 1 /\ bit - 2 = 6
    BY <1>3 DEF Fits
  <2> QED
    BY <1>2, <2>1 DEF IInv, ClosingFlagIsHeard
<1>6. Len(rxbuf) > 2
  BY <1>3, <1>5 DEF Fits
<1>7. Dispatch(rxbuf)
  <2>1. IF rxstate /\ Len(rxbuf) > 2 THEN Dispatch(rxbuf) ELSE UNCHANGED dispatched
    BY <1>1, <1>4, <1>5, FlagEnds DEF BitGoesOut, IInv, TypeOK
  <2> QED
    BY <1>5, <1>6, <2>1
<1>8. CheckCrc(rxbuf) /\ SubSeq(rxbuf, 1, Len(rxbuf) - 2) = Frame
  BY <1>3, <1>5, CrcIsGood, FrameOfBody DEF Body
<1> QED
  BY <1>7, <1>8 DEF Dispatch

\* Only the end of the closing flag closes a frame.
LEMMA ClosedIs ==
  ASSUME IInv, Sending, UNCHANGED <<config, sent>>, FlagsEnough,
         NextBit \/ (to_send' = to_send /\ bit' = bit)
  PROVE  /\ Closed \in Nat /\ Closed <= Len(sent)
         /\ IF Gone = Before + Length /\ Gone' # Gone
              THEN Closed = Len(sent) - 1 /\ Closed' = Len(sent) /\ bit = 8
              ELSE Closed' = Closed
<1>1. /\ Len(sent) \in Nat \ {0} /\ Gone \in Nat /\ Before \in Nat /\ Length \in Nat
      /\ FlagsIn(tx_tail) \in Nat
  BY RestIs
<1>2. Before' = Before /\ Length' = Length /\ Len(sent') = Len(sent)
  BY SameTransmission
<1>3. CASE to_send' = to_send
  <2>1. Gone' = Gone /\ Sending' = Sending
    BY <1>3, SameByte
  <2> QED
    BY <1>1, <1>2, <2>1 DEF Closed
<1>4. CASE to_send' # to_send
  <2>1. to_send' = Tail(to_send) /\ bit = 8
    BY <1>4 DEF NextBit
  <2>2. Gone' = Gone + 1 /\ (Sending' <=> Gone + 1 < Before + Length + FlagsIn(tx_tail))
    BY <2>1, NextByte
  <2>3. FlagsIn(tx_tail) >= 1
    BY DEF FlagsEnough
  <2>4. Closed = IF Gone <= Before + Length THEN Len(sent) - 1 ELSE Len(sent)
    BY DEF Closed
  <2>5. Closed' = IF Sending' /\ Gone + 1 <= Before + Length THEN Len(sent) - 1 ELSE Len(sent)
    BY <1>2, <2>2 DEF Closed
  <2>6. Gone + 1 <= Before + Length => Sending'
    BY <1>1, <2>2, <2>3
  <2>7. Closed' = IF Gone + 1 <= Before + Length THEN Len(sent) - 1 ELSE Len(sent)
    BY <2>5, <2>6
  <2> QED
    BY <1>1, <2>1, <2>2, <2>4, <2>7
<1> QED
  BY <1>3, <1>4

\* A bit sent keeps every frame that is over heard,
LEMMA FramesKeepSending ==
  ASSUME IInv, SendBit
  PROVE  FramesAreHeard'
<1>1. /\ Sending /\ UNCHANGED <<config, sent>>
      /\ NextBit \/ (to_send' = to_send /\ bit' = bit)
  BY SendBitDoes DEF BitGoesOut
<1>2. Kept
  BY SendBitDoes, DispatchedStays DEF BitGoesOut, IInv, TypeOK, Kept
<1>3. FlagsEnough' = FlagsEnough
  BY <1>1, SameTransmission
<1> SUFFICES ASSUME FlagsEnough PROVE FramesAreHeard'
  BY <1>3 DEF FramesAreHeard
<1>4. Closed \in Nat /\ Closed <= Len(sent)
  BY <1>1, ClosedIs
<1>5. CASE ~(Gone = Before + Length /\ Gone' # Gone)
  <2>1. Closed' = Closed
    BY <1>1, <1>5, ClosedIs
  <2> QED
    BY <1>1, <1>2, <1>3, <1>4, <2>1, NoneCloses
<1>6. CASE Gone = Before + Length /\ Gone' # Gone
  <2>1. PICK n \in Nat : n = Closed
    BY <1>4
  <2>2. Len(sent) = n + 1 /\ Closed' = n + 1 /\ bit = 8 /\ n + 1 \in Nat
    <3>1. Closed = Len(sent) - 1 /\ Closed' = Len(sent) /\ bit = 8
      BY <1>1, <1>6, ClosedIs
    <3>2. Len(sent) \in Nat \ {0}
      BY <1>1, RestIs
    <3> QED
      BY <2>1, <3>1, <3>2
  <2>3. PICK was \in [1..n -> 0..Len(dispatched)] : HeardAt(was, n)
    BY <2>1 DEF IInv, FramesAreHeard
  <2>4. was \in [1..n -> 0..Len(dispatched')] /\ HeardAt(was, n)'
    BY <1>1, <1>2, <2>3, HeardStays
  <2>5. Fits(Frame) => dispatched' = Append(dispatched, Frame)
    BY <1>6, <2>2, FrameCloses
  <2> DEFINE m == n + 1
             last == IF Fits(sent[m]) THEN Len(dispatched) + 1 ELSE 0
             next == [i \in 1..m |-> IF i = m THEN last ELSE was[i]]
  <2>6. Frame = sent[m] /\ sent' = sent
    BY <1>1, <2>2 DEF Frame
  <2>7. Fits(sent[m]) => last \in 1..Len(dispatched') /\ dispatched'[last] = sent[m] /\ last > Len(dispatched)
    <3> DEFINE T == Seq(Seq(Seq(Bit)))
    <3>1. ASSUME NEW e, dispatched' = Append(dispatched, e)
          PROVE  Len(dispatched') = Len(dispatched) + 1 /\ dispatched'[Len(dispatched) + 1] = e
      <4>1. dispatched \in Seq(Seq(Seq(Bit)))
        BY DEF IInv, TypeOK, HdlcTypeOK
      <4> QED
        BY <3>1, <4>1
    <3>2. Len(dispatched) \in Nat
      BY <1>2 DEF Kept
    <3>3. SUFFICES ASSUME Fits(sent[m])
                   PROVE  last \in 1..Len(dispatched') /\ dispatched'[last] = sent[m] /\ last > Len(dispatched)
      OBVIOUS
    <3>4. Len(dispatched') = Len(dispatched) + 1 /\ dispatched'[Len(dispatched) + 1] = sent[m]
      BY <2>5, <2>6, <3>1, <3>3
    <3> QED
      BY <3>2, <3>3, <3>4
  <2>8. last \in 0..Len(dispatched')
    BY <1>2, <2>7 DEF Kept
  <2> HIDE DEF last
  <2>at. PICK at : at = next
    OBVIOUS
  <2>9. at \in [1..m -> 0..Len(dispatched')]
    <3>1. \A i \in 1..m : i # m => i \in 1..n
      OBVIOUS
    <3> QED
      BY <2>4, <2>8, <2>at, <3>1
  <2>10. ASSUME NEW i \in 1..m, Fits(sent[i])
         PROVE  /\ at[i] \in 1..Len(dispatched') /\ dispatched'[at[i]] = sent[i]
                /\ \A j \in 1..i - 1 : Fits(sent[j]) => at[j] < at[i]
    <3>1. ASSUME NEW k \in 1..n PROVE at[k] = was[k]
      BY <2>2, <2>at
    <3>2. CASE i = m
      <4>1. at[i] = last
        BY <2>at, <3>2
      <4>2. ASSUME NEW j \in 1..i - 1, Fits(sent[j]) PROVE at[j] < at[i]
        <5>1. j \in 1..n
          BY <2>2, <3>2
        <5>2. was[j] \in 1..Len(dispatched)
          BY <2>3, <4>2, <5>1 DEF HeardAt
        <5>3. last > Len(dispatched) /\ Len(dispatched) \in Nat /\ last \in Int
          BY <1>2, <2>7, <2>8, <2>10, <3>2 DEF Kept
        <5>4. was[j] < last
          BY <5>2, <5>3
        <5> QED
          BY <3>1, <4>1, <5>1, <5>4
      <4> QED
        BY <2>7, <2>10, <3>2, <4>1, <4>2
    <3>3. CASE i # m
      <4>1. i \in 1..n
        BY <2>2, <3>3
      <4>2. /\ was[i] \in 1..Len(dispatched') /\ dispatched'[was[i]] = sent[i]
            /\ \A j \in 1..i - 1 : Fits(sent[j]) => was[j] < was[i]
        BY <2>4, <2>6, <2>10, <4>1 DEF HeardAt, Fits
      <4>3. \A j \in 1..i - 1 : j \in 1..n
        BY <4>1
      <4> QED
        BY <3>1, <4>1, <4>2, <4>3
    <3> QED
      BY <3>2, <3>3
  <2> HIDE DEF m
  <2>11. \A i \in 1..m : Fits(sent'[i]) =>
            /\ at[i] \in 1..Len(dispatched') /\ dispatched'[at[i]] = sent'[i]
            /\ \A j \in 1..i - 1 : Fits(sent'[j]) => at[j] < at[i]
    BY <2>6, <2>10 DEF Fits
  <2>12. HeardAt(at, m)'
    BY <2>11 DEF HeardAt, Fits
  <2>13. Closed' = m
    BY <2>2 DEF m
  <2>14. HeardAt(at, Closed)'
    BY <2>12, <2>13 DEF HeardAt
  <2>15. at \in [1..Closed' -> 0..Len(dispatched')]
    BY <2>9, <2>13
  <2> QED
    BY <2>14, <2>15 DEF FramesAreHeard
<1> QED
  BY <1>5, <1>6

\* and so does a stuffed zero.
LEMMA FramesKeepStuffing ==
  ASSUME IInv, StuffZero
  PROVE  FramesAreHeard'
<1>1. Sending /\ UNCHANGED <<config, sent>> /\ NextBit /\ Head(to_send).stuff
  BY StuffZeroDoes DEF BitGoesOut
<1>2. Kept
  <2>1. 0 \in Bit
    BY DEF Bit
  <2> QED
    BY <2>1, StuffZeroDoes, DispatchedStays DEF BitGoesOut, IInv, TypeOK, Kept
<1>3. FlagsEnough' = FlagsEnough
  BY <1>1, SameTransmission
<1> SUFFICES ASSUME FlagsEnough PROVE FramesAreHeard'
  BY <1>3 DEF FramesAreHeard
<1>4. Gone # Before + Length
  <2>1. ~FlagItem.stuff
    BY DEF FlagItem
  <2>2. Gone \in Before..Before + Length - 1 /\ Before \in Nat /\ Length \in Nat
    BY <1>1, <2>1, RestIs
  <2> QED
    BY <2>2
<1>5. Closed \in Nat /\ Closed' = Closed
  BY <1>1, <1>4, ClosedIs
<1> QED
  BY <1>1, <1>2, <1>3, <1>5, NoneCloses

\* The invariant holds before the first transmission.
LEMMA InitEstablishes ==
  ASSUME Init
  PROVE  IInv
<1>1. PICK d \in Delays : tx_delay = d[1] /\ tx_tail = d[2]
  BY DEF Init
<1>2. /\ HdlcInit /\ sent = <<>> /\ to_send = <<>> /\ bit = 1 /\ stuff_count = 0
      /\ tx_symbol = 0 /\ rx_symbol \in Bit /\ noise = 0 /\ noisy = FALSE /\ received = <<>>
  BY DEF Init
<1>3. HdlcTypeOK /\ Len(dispatched) = 0
  <2> DEFINE x == [i \in 1..8 |-> 0]
  <2>1. rxbitstream = x /\ rxstate = FALSE /\ rxbits = <<>> /\ rxbuf = <<>> /\ dispatched = <<>>
    BY <1>2 DEF HdlcInit
  <2>2. x \in Seq(Bit) /\ Len(x) = 8
    BY DEF Bit
  <2> HIDE DEF x
  <2>3. \A T : <<>> \in Seq(T)
    BY EmptySeq
  <2>4. Len(<<>>) = 0
    OBVIOUS
  <2>5. rxbits \in Seq(Bit) /\ rxbuf \in Seq(Seq(Bit)) /\ dispatched \in Seq(Seq(Seq(Bit)))
    BY <2>1, <2>3
  <2>6. Len(rxbits) <= 7 /\ Len(rxbuf) <= RxBufSize /\ Len(dispatched) = 0
    BY <2>1, <2>4
  <2> QED
    BY <2>1, <2>2, <2>5, <2>6 DEF HdlcTypeOK
<1>4. TypeOK
  <2>1. <<tx_delay, tx_tail>> \in Delays
    <3>1. d \in Nat \X Nat
      OBVIOUS
    <3> QED
      BY <1>1, <3>1
  <2>2. sent \in Seq(Frames) /\ Len(to_send) = 0 /\ received \in Seq(Seq(Seq(Bit)))
    BY <1>2, EmptySeq
  <2>3. /\ tx_symbol \in Bit /\ bit \in 1..8 /\ stuff_count \in 0..5 /\ noise \in 0..MaxNoise
        /\ rx_symbol \in Bit
    BY <1>2 DEF Bit
  <2>4. noisy \in BOOLEAN
    BY <1>2, Zenon
  <2> QED
    BY <1>3, <2>1, <2>2, <2>3, <2>4 DEF TypeOK
<1>5. ~Sending /\ stuff_count # 5 /\ to_send \in Seq(Item)
  BY <1>2, EmptySeq DEF Sending
<1>6. FramesAreHeard
  <2>1. Closed = 0
    BY <1>2, <1>5 DEF Closed
  <2>2. \E at : at \in [1..0 -> 0..Len(dispatched)] /\ HeardAt(at, 0)
    <3>1. [i \in 1..0 |-> 0] \in [1..0 -> 0..Len(dispatched)] /\ HeardAt([i \in 1..0 |-> 0], 0)
      BY DEF HeardAt
    <3> QED
      BY <3>1
  <2> QED
    BY <2>1, <2>2 DEF FramesAreHeard
<1> QED
  BY <1>4, <1>5, <1>6
     DEF IInv, RestIsTransmission, StuffingIsOfData, TonesAgree, FlagIsHeard, BodyIsHeard,
         ClosingFlagIsHeard

\* It is kept when a transmission starts,
LEMMA StartFrameKeeps ==
  ASSUME IInv, StartFrame
  PROVE  IInv'
<1>1. PICK frame \in Frames : sent' = Append(sent, frame) /\ to_send' = Transmission(frame)
  BY DEF StartFrame
<1>2. /\ ~Sending /\ bit' = 1 /\ tx_symbol' = 0 /\ stuff_count' = 0
      /\ noise' = 0 /\ UNCHANGED <<tx_delay, tx_tail, rx_symbol, noisy, received, hdlcVars>>
  BY DEF StartFrame, Sending, config
<1>3. /\ HdlcTypeOK /\ <<tx_delay, tx_tail>> \in Delays /\ sent \in Seq(Frames) /\ frame \in Seq(Byte)
      /\ rx_symbol \in Bit /\ 0 \in 0..MaxNoise /\ noisy \in BOOLEAN /\ received \in Seq(Seq(Seq(Bit)))
  BY DEF IInv, TypeOK
<1>4. /\ sent' \in Seq(Frames) /\ Len(sent) \in Nat /\ Len(sent') = Len(sent) + 1
      /\ sent'[Len(sent) + 1] = frame /\ \A i \in 1..Len(sent) : sent'[i] = sent[i]
  BY <1>1, <1>3, Appended
<1>5. Frame' = frame /\ sent' # <<>>
  <2>1. Frame' = frame
    BY <1>4 DEF Frame
  <2>2. Len(sent') # 0
    BY <1>4
  <2> QED
    BY <2>1, <2>2
<1>6. Transmission(Frame)' = to_send' /\ Before' = Before /\ FlagsEnough' = FlagsEnough
  BY <1>1, <1>2, <1>5 DEF Transmission, Before, FlagsEnough
<1> DEFINE t == Transmission(frame)
<1>7. t \in Seq(Item) /\ Len(t) \in Nat /\ Len(t) # 0
  <2>1. t \in Seq(Item) /\ Len(t) = Before + (Len(frame) + 2) + FlagsIn(tx_tail)
    BY <1>3, TransmissionIs
  <2>2. Before \in Nat /\ FlagsIn(tx_tail) \in Nat /\ Len(frame) \in Nat
    BY <1>3, DelayType
  <2> QED
    BY <2>1, <2>2
<1>8. Gone' = 0 /\ Sending' /\ Before' \in Nat /\ Length' \in Nat
  <2>1. to_send' = t
    BY <1>1
  <2> HIDE DEF t
  <2>2. Gone' = Len(t) - Len(t)
    BY <1>6, <2>1 DEF Gone
  <2>3. Length' = Len(frame) + 2
    BY <1>5 DEF Length
  <2>4. Before \in Nat /\ Len(frame) \in Nat
    BY <1>3, DelayType
  <2>5. Sending'
    BY <1>7, <2>1 DEF Sending
  <2>6. Gone' = 0
    BY <1>7, <2>2
  <2> QED
    BY <1>6, <2>3, <2>4, <2>5, <2>6
<1>arith. ASSUME NEW b \in Nat, NEW l \in Nat
        PROVE  0 <= b + l /\ (b > 0 => 0 # b + l /\ 0 \notin b..b + l - 1)
  OBVIOUS
<1>9. RestIsTransmission'
  <2>1. to_send' \in Seq(Item)
    BY <1>1, <1>7
  <2>2. \A i \in 1..Len(to_send)' : to_send'[i] = Transmission(Frame)'[Gone' + i]
    <3> SUFFICES ASSUME NEW i \in 1..Len(to_send') PROVE to_send'[i] = Transmission(Frame)'[Gone' + i]
      OBVIOUS
    <3>1. Gone' + i = i
      BY <1>8
    <3> QED
      BY <1>6, <3>1
  <2> QED
    BY <1>5, <1>8, <2>1, <2>2 DEF RestIsTransmission
<1>10. TypeOK'
  <2>1. HdlcTypeOK'
    BY <1>2, <1>3 DEF HdlcTypeOK, hdlcVars
  <2>2. \A i \in 1..Len(to_send') : to_send'[i] \in [byte : Byte, stuff : BOOLEAN]
    <3>1. \A i \in 1..Len(t) : t[i] \in Item
      <4> HIDE DEF t
      <4> QED
        BY <1>7
    <3> QED
      BY <1>1, <3>1 DEF Item
  <2>3. tx_symbol' \in Bit /\ bit' \in 1..8 /\ stuff_count' \in 0..5
    BY <1>2 DEF Bit
  <2> QED
    BY <1>2, <1>3, <1>4, <2>1, <2>2, <2>3 DEF TypeOK
<1>11. /\ StuffingIsOfData' /\ TonesAgree' /\ FlagIsHeard'
  BY <1>2, <1>8 DEF StuffingIsOfData, TonesAgree, FlagIsHeard
<1>12. BodyIsHeard' /\ ClosingFlagIsHeard'
  <2>1. FlagsEnough' => Before' > 0
    BY <1>8 DEF FlagsEnough, Before
  <2>2. FlagsEnough' => ~(Gone' \in Before'..Before' + Length' - 1) /\ Gone' # Before' + Length'
    BY <1>8, <1>arith, <2>1
  <2> QED
    BY <2>2 DEF BodyIsHeard, ClosingFlagIsHeard
<1>13. FramesAreHeard'
  <2>1. Closed = Len(sent)
    BY <1>2 DEF Closed
  <2>2. Closed' = Len(sent)
    <3>1. Gone' <= Before' + Length'
      BY <1>8, <1>arith
    <3>2. Closed' = Len(sent') - 1
      BY <1>8, <3>1 DEF Closed
    <3> QED
      BY <1>4, <3>2
  <2>3. Kept
    <3>1. dispatched' = dispatched /\ Len(dispatched) \in Nat
      BY <1>2, <1>3 DEF hdlcVars, HdlcTypeOK
    <3> QED
      BY <3>1 DEF Kept
  <2> QED
    BY <1>4, <1>6, <2>1, <2>2, <2>3, NoneCloses
<1> QED
  BY <1>9, <1>10, <1>11, <1>12, <1>13 DEF IInv

\* when noise is heard between two of them,
LEMMA HearNoiseKeeps ==
  ASSUME IInv, HearNoise
  PROVE  IInv'
<1>1. PICK symbol \in Bit : Demodulate(symbol)
  BY DEF HearNoise
<1> DEFINE h == IF symbol = rx_symbol THEN 1 ELSE 0
<1>2. h \in Bit /\ RxBit(h) /\ rx_symbol' = symbol
  BY <1>1 DEF Demodulate, Bit
<1> HIDE DEF h
<1>3. /\ ~Sending /\ to_send' = to_send /\ sent' = sent /\ bit' = bit
      /\ stuff_count' = stuff_count /\ tx_symbol' = tx_symbol
      /\ noise < MaxNoise /\ noise' = noise + 1 /\ UNCHANGED <<config, sent>>
      /\ tx_delay' = tx_delay /\ tx_tail' = tx_tail
  BY DEF HearNoise, Sending, txVars, config
<1>4. ~Sending'
  BY <1>3 DEF Sending
<1>5. TypeOK'
  <2>1. HdlcTypeOK'
    BY <1>2, HdlcTypeKeeps DEF IInv, TypeOK
  <2>2. noise' \in 0..MaxNoise
    BY <1>3 DEF IInv, TypeOK
  <2>3. noisy' \in BOOLEAN /\ received' \in Seq(Seq(Seq(Bit)))
    <3>1. Hear(TRUE)
      BY DEF HearNoise
    <3> QED
      BY <1>2, <3>1, HearType DEF IInv
  <2> QED
    BY <1>2, <1>3, <2>1, <2>2, <2>3 DEF IInv, TypeOK
<1>6. RestIsTransmission' /\ StuffingIsOfData'
  BY <1>3, <1>4 DEF IInv, RestIsTransmission, StuffingIsOfData
<1>7. TonesAgree' /\ FlagIsHeard' /\ BodyIsHeard' /\ ClosingFlagIsHeard'
  BY <1>4 DEF TonesAgree, FlagIsHeard, BodyIsHeard, ClosingFlagIsHeard
<1>8. FramesAreHeard'
  <2>1. Closed = Len(sent) /\ Closed' = Len(sent) /\ Len(sent) \in Nat
    BY <1>3, <1>4 DEF Closed, IInv, TypeOK
  <2>2. Kept
    BY <1>2, DispatchedStays DEF IInv, TypeOK, Kept
  <2> QED
    BY <1>3, <2>1, <2>2, SameTransmission, NoneCloses
<1> QED
  BY <1>5, <1>6, <1>7, <1>8 DEF IInv

\* when a bit is sent,
LEMMA SendBitKeeps ==
  ASSUME IInv, SendBit
  PROVE  IInv'
<1>1. PICK b \in Bit, h \in Bit : BitGoesOut(b, h)
  BY SendBitDoes
<1>2. /\ Sending /\ bit \in 1..8 /\ stuff_count' \in 0..5
      /\ UNCHANGED <<config, sent, noise>> /\ UNCHANGED <<config, sent>>
      /\ NextBit \/ (to_send' = to_send /\ bit' = bit)
  BY SendBitDoes DEF BitGoesOut
<1>3. TypeOK'
  BY <1>1, <1>2, TypeKeeps
<1>4. RestIsTransmission'
  BY <1>2, RestKeeps
<1>5. TonesAgree'
  BY <1>1 DEF BitGoesOut, TonesAgree
<1> QED
  BY <1>3, <1>4, <1>5, StuffingKeeps, FlagKeeps, BodyKeepsSending, FramesKeepSending DEF IInv

\* when a zero is stuffed,
LEMMA StuffZeroKeeps ==
  ASSUME IInv, StuffZero
  PROVE  IInv'
<1>1. PICK h \in Bit : BitGoesOut(0, h)
  BY StuffZeroDoes
<1>2. /\ Sending /\ bit \in 1..8 /\ stuff_count' = 0 /\ stuff_count' \in 0..5
      /\ UNCHANGED <<config, sent, noise>> /\ UNCHANGED <<config, sent>>
      /\ NextBit \/ (to_send' = to_send /\ bit' = bit)
  BY <1>1, StuffZeroDoes DEF BitGoesOut
<1>3. TypeOK'
  BY <1>1, <1>2, TypeKeeps
<1>4. RestIsTransmission'
  BY <1>2, RestKeeps
<1>5. TonesAgree'
  BY <1>1 DEF BitGoesOut, TonesAgree
<1>6. StuffingIsOfData'
  BY <1>2 DEF StuffingIsOfData
<1> QED
  BY <1>3, <1>4, <1>5, <1>6, BodyKeepsStuffing, FramesKeepStuffing DEF IInv

\* and when nothing happens.
LEMMA NothingHappens ==
  ASSUME IInv, UNCHANGED vars
  PROVE  IInv'
<1>1. /\ UNCHANGED <<config, sent>> /\ to_send' = to_send /\ sent' = sent /\ bit' = bit
      /\ tx_delay' = tx_delay /\ tx_tail' = tx_tail
      /\ stuff_count' = stuff_count /\ tx_symbol' = tx_symbol /\ rx_symbol' = rx_symbol /\ noise' = noise
      /\ rxbitstream' = rxbitstream /\ rxstate' = rxstate /\ rxbits' = rxbits /\ rxbuf' = rxbuf
      /\ dispatched' = dispatched /\ noisy' = noisy /\ received' = received
  BY DEF vars, config, txVars, hdlcVars
<1>2. /\ Before' = Before /\ FlagsEnough' = FlagsEnough /\ Length' = Length /\ Body(Frame)' = Body(Frame)
  BY <1>1, SameTransmission
<1>3. RestIsTransmission' /\ Gone' = Gone /\ Sending' = Sending
  BY <1>1, SameByte
<1>4. BytesSent' = BytesSent /\ BitsSent' = BitsSent
  BY <1>1, <1>2, <1>3 DEF BytesSent, BitsSent
<1>5. TypeOK'
  BY <1>1 DEF IInv, TypeOK, HdlcTypeOK
<1>6. StuffingIsOfData' /\ TonesAgree' /\ FlagIsHeard'
  BY <1>1, <1>2, <1>3 DEF IInv, StuffingIsOfData, TonesAgree, FlagIsHeard
<1>7. BodyIsHeard' /\ ClosingFlagIsHeard'
  BY <1>1, <1>2, <1>3, <1>4 DEF IInv, BodyIsHeard, ClosingFlagIsHeard
<1>8. FramesAreHeard'
  BY <1>1, <1>2, <1>3 DEF IInv, FramesAreHeard, Closed, HeardAt, Fits
<1> QED
  BY <1>3, <1>5, <1>6, <1>7, <1>8 DEF IInv
-----------------------------------------------------------------------------
(* Nothing but the frames arrives.                                         *)

\* How many bits the receiver has put together since the last flag.
Assembled == 8 * Len(rxbuf) + Len(rxbits)

\* Between the transmissions it has no more than the noise, and nothing at all if
\* there was none.
NoiseIsShort == ~Sending => Assembled <= noise /\ (~noisy => Assembled = 0)

\* The second flag is certain to be heard, and each one after it.
PreambleIsShort ==
    Sending /\ Gone < Before =>
       IF Gone < 2 THEN /\ Assembled <= MaxNoise + 8 * Gone + bit - 1
                        /\ ~noisy => Assembled <= 8 * Gone + bit - 1
                   ELSE Assembled <= bit - 1 /\ ~noisy

\* The receiver counts the bits of a body, until it gives up because there are too many.
BodyIsCounted ==
    Sending /\ Gone \in Before..Before + Length - 1 =>
       /\ ~noisy /\ OnesLast(rxbitstream, stuff_count)
       /\ rxstate => Assembled = 8 * BytesSent + BitsSent

ClosingFlagIsCounted ==
    Sending /\ Gone = Before + Length =>
       /\ ~noisy /\ OnesLast(rxbitstream, IF bit = 1 THEN stuff_count ELSE bit - 2)
       /\ Length > RxBufSize => ~rxstate

\* Each flag of the tail is heard.
TailIsShort ==
    Sending /\ Gone > Before + Length =>
       /\ ~noisy /\ Assembled <= bit - 1
       /\ bit > 1 => OnesLast(rxbitstream, bit - 2)

Counted ==
    /\ NoiseIsShort
    /\ PreambleIsShort
    /\ BodyIsCounted
    /\ ClosingFlagIsCounted
    /\ TailIsShort

\* What was received are the frames whose closing flag is out.
ClosedFitting == {i \in 1..Closed : Fits(sent[i])}

OnlyFramesAreReceived ==
    /\ received = Of(ClosedFitting)
    /\ MaxNoise <= 8 => dispatched = received

\* With flags enough: it is an invariant as long as IInv is.
Arrivals == FlagsEnough => Counted /\ OnlyFramesAreReceived

\* How much is put together, at the most.
LEMMA BufferType ==
  ASSUME HdlcTypeOK
  PROVE  /\ rxbits \in Seq(Bit) /\ Len(rxbits) \in 0..7
         /\ rxbuf \in Seq(Seq(Bit)) /\ Len(rxbuf) \in 0..RxBufSize
<1>1. rxbits \in Seq(Bit) /\ rxbuf \in Seq(Seq(Bit)) /\ Len(rxbits) <= 7 /\ Len(rxbuf) <= RxBufSize
  BY DEF HdlcTypeOK
<1>2. Len(rxbits) \in Nat /\ Len(rxbuf) \in Nat
  BY <1>1, LenProperties
<1>3. ASSUME NEW n \in Nat, NEW m \in Nat, n <= m PROVE n \in 0..m
  BY <1>3
<1>4. Len(rxbits) \in 0..7 /\ Len(rxbuf) \in 0..RxBufSize
  BY <1>1, <1>2, <1>3
<1> QED
  BY <1>1, <1>4, Zenon

\* A bit adds at most one to what is put together; a flag starts anew, and only a
\* flag behind three bytes has a frame dispatched.
LEMMA Assembling ==
  ASSUME HdlcTypeOK, NEW b \in Bit, RxBit(b)
  PROVE  /\ Assembled \in Nat /\ Assembled' \in Nat /\ Assembled' <= Assembled + 1
         /\ rxbitstream' = Flag => Assembled' = 0
         /\ dispatched' # dispatched => rxbitstream' = Flag /\ rxstate /\ Assembled >= 24
<1> DEFINE stream == Shifted(b)
<1>1. /\ rxbits \in Seq(Bit) /\ Len(rxbits) \in 0..7 /\ rxbuf \in Seq(Seq(Bit)) /\ Len(rxbuf) \in Nat
      /\ stream[8] \in Bit
  BY BufferType, ShiftIn
<1>2. rxbitstream' = stream
  BY DEF RxBit, Shifted
<1>3. \/ RxFlag(stream) \/ RxAbort(stream) \/ RxIgnore(stream)
      \/ RxDataBit(stream) \/ RxByte(stream) \/ RxTooLong(stream)
  BY DEF RxBit, Shifted
<1> HIDE DEF stream
<1>4. Assembled \in Nat
  BY <1>1 DEF Assembled
<1>5. CASE RxFlag(stream)
  <2>1. stream = Flag /\ rxbuf' = <<>> /\ rxbits' = <<>>
    BY <1>5 DEF RxFlag
  <2>2. Len(<<>>) = 0
    OBVIOUS
  <2>3. Assembled' = 0
    BY <2>1, <2>2 DEF Assembled
  <2>4. dispatched' # dispatched => rxstate /\ Len(rxbuf) > 2
    BY <1>5 DEF RxFlag
  <2>5. Len(rxbuf) > 2 => Assembled >= 24
    BY <1>1 DEF Assembled
  <2> QED
    BY <1>2, <1>4, <2>1, <2>3, <2>4, <2>5
<1>6. CASE RxAbort(stream) \/ RxIgnore(stream) \/ RxTooLong(stream)
  <2>1. stream # Flag /\ UNCHANGED <<rxbits, rxbuf, dispatched>>
    BY <1>6 DEF RxAbort, RxIgnore, RxTooLong, IsData
  <2>2. Assembled' = Assembled
    BY <2>1 DEF Assembled
  <2> QED
    BY <1>2, <1>4, <2>1, <2>2
<1>7. CASE RxDataBit(stream)
  <2>1. stream # Flag /\ rxbits' = Append(rxbits, stream[8]) /\ rxbuf' = rxbuf /\ dispatched' = dispatched
    BY <1>7 DEF RxDataBit, IsData
  <2>2. Len(Append(rxbits, stream[8])) = Len(rxbits) + 1
    BY <1>1, Appended
  <2>3. Assembled' = Assembled + 1
    BY <1>1, <2>1, <2>2 DEF Assembled
  <2> QED
    BY <1>2, <1>4, <2>1, <2>3
<1>8. CASE RxByte(stream)
  <2> DEFINE byte == Append(rxbits, stream[8])
  <2>1. /\ stream # Flag /\ rxbits' = <<>> /\ rxbuf' = Append(rxbuf, byte) /\ dispatched' = dispatched
        /\ Len(rxbits) = 7
    BY <1>8 DEF RxByte, IsData
  <2>2. byte \in Seq(Bit)
    BY <1>1, Appended
  <2> HIDE DEF byte
  <2>3. Len(Append(rxbuf, byte)) = Len(rxbuf) + 1
    BY <1>1, <2>2
  <2>4. Len(<<>>) = 0
    OBVIOUS
  <2>5. Assembled' = Assembled + 1
    BY <1>1, <2>1, <2>3, <2>4 DEF Assembled
  <2> QED
    BY <1>2, <1>4, <2>1, <2>5
<1> QED
  BY <1>3, <1>5, <1>6, <1>7, <1>8

\* What ends with six ones and a zero, after a zero, is a flag.
LEMMA FlagStartsAnew ==
  ASSUME HdlcTypeOK, OnesLast(rxbitstream, 6), RxBit(0)
  PROVE  rxbitstream' = Flag /\ Assembled' = 0
<1> DEFINE stream == Shifted(0)
<1>1. 0 \in Bit
  BY DEF Bit
<1>2. /\ stream \in Seq(Bit) /\ Len(stream) = 8 /\ stream[8] = 0
      /\ \A i \in 1..7 : stream[i] = rxbitstream[i + 1]
  BY <1>1, ShiftIn
<1>3. rxbitstream' = stream
  BY DEF RxBit, Shifted
<1> HIDE DEF stream
<1>4. rxbitstream[2] = 0 /\ \A i \in 3..8 : rxbitstream[i] = 1
  BY DEF OnesLast
<1>5. stream = Flag
  <2>1. \A i \in 1..8 : stream[i] = Flag[i]
    BY <1>2, <1>4 DEF Flag
  <2> QED
    BY <1>2, <2>1, StreamIsFlag
<1>6. rxbitstream' = Flag
  BY <1>3, <1>5
<1> QED
  BY <1>1, <1>6, Assembling

\* What does not is none.
LEMMA NoFlag ==
  ASSUME HdlcTypeOK, NEW n \in 0..5, OnesLast(rxbitstream, n), NEW b \in Bit, RxBit(b)
  PROVE  rxbitstream' = Shifted(b) /\ rxbitstream' # Flag /\ dispatched' = dispatched
<1> DEFINE stream == Shifted(b)
<1>1. /\ stream \in Seq(Bit) /\ Len(stream) = 8 /\ stream[8] = b
      /\ \A i \in 1..7 : stream[i] = rxbitstream[i + 1]
  BY ShiftIn
<1>2. rxbitstream' = stream
  BY DEF RxBit, Shifted
<1> HIDE DEF stream
<1>3. stream # Flag
  <2>1. 7 - n \in 2..7 /\ 7 - n \in 1..7 /\ (7 - n) + 1 = 8 - n
    OBVIOUS
  <2>2. stream[7 - n] = 0
    BY <1>1, <2>1 DEF OnesLast
  <2>3. \A i \in 2..7 : Flag[i] = 1
    BY DEF Flag
  <2> QED
    BY <2>1, <2>2, <2>3
<1>4. dispatched' = dispatched
  BY <1>2, <1>3, Assembling
<1> QED
  BY <1>2, <1>3, <1>4 DEF stream

\* As data it is counted, as long as the receiver is in the frame.
LEMMA DataIsCounted ==
  ASSUME HdlcTypeOK, NEW n \in 0..5, OnesLast(rxbitstream, n), NEW b \in Bit,
         n = 5 => b = 1, RxBit(b)
  PROVE  /\ OnesLast(rxbitstream', IF b = 0 THEN 0 ELSE n + 1)
         /\ rxstate' => rxstate /\ Assembled' = Assembled + 1
<1>1. rxbitstream' = Shifted(b) /\ rxbitstream' # Flag
  BY NoFlag
<1>2. OnesLast(rxbitstream', IF b = 0 THEN 0 ELSE n + 1)
  BY <1>1, OnesThenBit DEF Bit
<1>3. ASSUME rxstate' PROVE rxstate /\ (Len(rxbits) = 7 => RoomForByte)
  <2>1. ~RxFlag(Shifted(b)) /\ ~RxAbort(Shifted(b)) /\ ~RxTooLong(Shifted(b))
    BY <1>1, <1>3, Zenon DEF RxFlag, RxAbort, RxTooLong
  <2>2. RxIgnore(Shifted(b)) \/ RxDataBit(Shifted(b)) \/ RxByte(Shifted(b))
    BY <2>1, Zenon DEF RxBit, Shifted
  <2>3. rxstate
    BY <1>3, <2>2, Zenon DEF RxIgnore, RxDataBit, RxByte, IsData
  <2>4. ~RxIgnore(Shifted(b))
    BY <2>3, LooksLikeData DEF RxIgnore
  <2>5. RxDataBit(Shifted(b)) => Len(rxbits) < 7
    BY DEF RxDataBit
  <2>6. RxByte(Shifted(b)) => RoomForByte
    BY DEF RxByte
  <2>7. Len(rxbits) = 7 => ~(Len(rxbits) < 7)
    <3>1. ASSUME NEW k, k = 7 PROVE ~(k < 7)
      BY <3>1
    <3> QED
      BY <3>1, Zenon
  <2> QED
    BY <2>2, <2>3, <2>4, <2>5, <2>6, <2>7, Zenon
<1>4. ASSUME rxstate, Len(rxbits) = 7 => RoomForByte PROVE Assembled' = Assembled + 1
  <2>1. IF Len(rxbits) < 7 THEN rxbits' = Append(rxbits, b) /\ rxbuf' = rxbuf
          ELSE rxbits' = <<>> /\ rxbuf' = Append(rxbuf, Append(rxbits, b))
    BY <1>4, DataIsHeard
  <2>2. rxbits \in Seq(Bit) /\ Len(rxbits) \in 0..7 /\ rxbuf \in Seq(Seq(Bit)) /\ Len(rxbuf) \in Nat
    BY BufferType
  <2> DEFINE byte == Append(rxbits, b)
  <2>3. byte \in Seq(Bit) /\ Len(byte) = Len(rxbits) + 1
    BY <2>2, Appended
  <2> HIDE DEF byte
  <2>4. Len(Append(rxbuf, byte)) = Len(rxbuf) + 1 /\ Len(<<>>) = 0
    BY <2>2, <2>3
  <2>5. CASE Len(rxbits) < 7
    <3>1. Len(rxbits') = Len(rxbits) + 1 /\ rxbuf' = rxbuf
      BY <2>1, <2>3, <2>5 DEF byte
    <3> QED
      BY <2>2, <3>1 DEF Assembled
  <2>6. CASE ~(Len(rxbits) < 7)
    <3>1. Len(rxbits') = 0 /\ Len(rxbuf') = Len(rxbuf) + 1
      BY <2>1, <2>4, <2>6 DEF byte
    <3>2. Len(rxbits) = 7
      <4>1. ASSUME NEW k \in 0..7, ~(k < 7) PROVE k = 7
        BY <4>1
      <4> QED
        BY <2>2, <2>6, <4>1, Zenon
    <3> QED
      BY <2>2, <3>1, <3>2 DEF Assembled
  <2> QED
    BY <2>5, <2>6
<1> QED
  BY <1>2, <1>3, <1>4

\* What the receiver hears adds to the history.
LEMMA HearingIs ==
  ASSUME TypeOK, NEW spoilt \in BOOLEAN, Hear(spoilt)
  PROVE  /\ noisy' => rxbitstream' # Flag /\ (noisy \/ spoilt)
         /\ ~noisy' => rxbitstream' = Flag \/ (~noisy /\ ~spoilt)
         /\ noisy \/ spoilt \/ dispatched' = dispatched => received' = received
         /\ ~noisy /\ ~spoilt /\ dispatched' # dispatched =>
               received' = Append(received, dispatched'[Len(dispatched')])
<1>1. noisy \in BOOLEAN
  BY DEF TypeOK
<1>2. noisy' = ((noisy \/ spoilt) /\ rxbitstream' # Flag)
  BY DEF Hear
<1>3. received' = IF noisy \/ spoilt \/ dispatched' = dispatched THEN received
                  ELSE Append(received, dispatched'[Len(dispatched')])
  BY DEF Hear
<1> QED
  BY <1>1, <1>2, <1>3, Zenon

\* Nothing new has been received.
NothingNew == received' = received /\ (MaxNoise <= 8 => dispatched' = dispatched)

\* Then what was received stays right while no frame is closed.
LEMMA NothingReceived ==
  ASSUME OnlyFramesAreReceived, sent' = sent, Closed' = Closed, NothingNew
  PROVE  OnlyFramesAreReceived'
<1>1. ClosedFitting' = ClosedFitting
  BY DEF ClosedFitting, Fits
<1>2. Of(ClosedFitting)' = Of(ClosedFitting)
  BY <1>1, Zenon DEF Of
<1> QED
  BY <1>2, Zenon DEF OnlyFramesAreReceived, NothingNew

\* Each position in a transmission has its own count.
LEMMA CountedIn ==
  ASSUME Sending', Gone' \in Nat, Before' \in Nat, Length' \in Nat
  PROVE  /\ Gone' < Before' /\ PreambleIsShort' => Counted'
         /\ Gone' \in Before'..Before' + Length' - 1 /\ BodyIsCounted' => Counted'
         /\ Gone' = Before' + Length' /\ ClosingFlagIsCounted' => Counted'
         /\ Gone' > Before' + Length' /\ TailIsShort' => Counted'
<1>1. ASSUME NEW g \in Nat, NEW b \in Nat, NEW l \in Nat
      PROVE  /\ g < b => g \notin b..b + l - 1 /\ g # b + l /\ ~(g > b + l)
             /\ g \in b..b + l - 1 => ~(g < b) /\ g # b + l /\ ~(g > b + l)
             /\ g = b + l => ~(g < b) /\ g \notin b..b + l - 1 /\ ~(g > b + l)
             /\ g > b + l => ~(g < b) /\ g \notin b..b + l - 1 /\ g # b + l
  OBVIOUS
<1>2. /\ Gone' < Before' => Gone' \notin Before'..Before' + Length' - 1 /\ Gone' # Before' + Length' /\ ~(Gone' > Before' + Length')
      /\ Gone' \in Before'..Before' + Length' - 1 => ~(Gone' < Before') /\ Gone' # Before' + Length' /\ ~(Gone' > Before' + Length')
      /\ Gone' = Before' + Length' => ~(Gone' < Before') /\ Gone' \notin Before'..Before' + Length' - 1 /\ ~(Gone' > Before' + Length')
      /\ Gone' > Before' + Length' => ~(Gone' < Before') /\ Gone' \notin Before'..Before' + Length' - 1 /\ Gone' # Before' + Length'
  BY <1>1
<1>3. NoiseIsShort'
  BY DEF NoiseIsShort
<1>4. ~(Gone' < Before') => PreambleIsShort'
  BY DEF PreambleIsShort
<1>5. Gone' \notin Before'..Before' + Length' - 1 => BodyIsCounted'
  BY DEF BodyIsCounted
<1>6. Gone' # Before' + Length' => ClosingFlagIsCounted'
  BY DEF ClosingFlagIsCounted
<1>7. ~(Gone' > Before' + Length') => TailIsShort'
  BY DEF TailIsShort
<1> QED
  BY <1>2, <1>3, <1>4, <1>5, <1>6, <1>7, Zenon DEF Counted

\* Where the transmitter is after a bit.
LEMMA Position ==
  ASSUME IInv, Sending, UNCHANGED <<config, sent>>, bit \in 1..8
  PROVE  /\ Gone \in Nat /\ Before \in Nat /\ Length \in Nat /\ Length >= 2
         /\ FlagsIn(tx_tail) \in Nat /\ sent' = sent
         /\ Before' = Before /\ Length' = Length /\ FlagsEnough' = FlagsEnough
         /\ to_send' = to_send => Gone' = Gone /\ Sending'
         /\ to_send' = Tail(to_send) =>
               Gone' = Gone + 1 /\ (Sending' <=> Gone + 1 < Before + Length + FlagsIn(tx_tail))
<1>1. /\ Gone \in Nat /\ Before \in Nat /\ Length \in Nat /\ Length >= 2 /\ FlagsIn(tx_tail) \in Nat
  BY RestIs
<1>2. Before' = Before /\ Length' = Length /\ FlagsEnough' = FlagsEnough
  BY SameTransmission
<1>3. to_send' = to_send => Gone' = Gone /\ Sending'
  BY SameByte
<1>4. to_send' = Tail(to_send) => Gone' = Gone + 1 /\ (Sending' <=> Gone + 1 < Before + Length + FlagsIn(tx_tail))
  BY NextByte
<1> QED
  BY <1>1, <1>2, <1>3, <1>4

\* A bit of a flag goes out, and no ones are counted.
LEMMA FlagBitGoesOut ==
  ASSUME IInv, SendBit, Head(to_send) = FlagItem
  PROVE  /\ Sending /\ UNCHANGED <<config, sent>> /\ noise' = noise
         /\ bit \in 1..8 /\ stuff_count \in 0..4 /\ stuff_count' = stuff_count /\ NextBit
         /\ \E h \in Bit : BitGoesOut(Flag[bit], h)
<1>1. ~FlagItem.stuff /\ FlagItem.byte = Flag
  BY DEF FlagItem
<1>2. PICK b \in Bit, h \in Bit :
         /\ b = Head(to_send).byte[bit] /\ BitGoesOut(b, h)
         /\ stuff_count' = IF ~Head(to_send).stuff THEN stuff_count
                             ELSE IF b = 0 THEN 0 ELSE stuff_count + 1
         /\ IF stuff_count' = 5 THEN to_send' = to_send /\ bit' = bit ELSE NextBit
  BY SendBitDoes
<1>3. Sending /\ bit \in 1..8 /\ stuff_count \in 0..4
  BY SendBitDoes
<1>4. stuff_count' = stuff_count /\ b = Flag[bit]
  BY <1>1, <1>2
<1>5. NextBit
  BY <1>2, <1>3, <1>4
<1>6. UNCHANGED <<config, sent>> /\ noise' = noise
  BY <1>2 DEF BitGoesOut
<1> QED
  BY <1>2, <1>3, <1>4, <1>5, <1>6

\* A flag that the receiver hears to its end has it start anew.
LEMMA FlagIsOver ==
  ASSUME IInv, bit = 8, OnesLast(rxbitstream, 6), NEW h \in Bit, BitGoesOut(Flag[bit], h)
  PROVE  Assembled' = 0 /\ OnesLast(rxbitstream', 0) /\ ~noisy'
<1>1. Flag[8] = 0 /\ HdlcTypeOK /\ TypeOK
  BY DEF Flag, IInv, TypeOK
<1>2. h = 0
  BY <1>1 DEF BitGoesOut
<1>3. RxBit(0) /\ Hear(FALSE)
  BY <1>2 DEF BitGoesOut
<1>4. rxbitstream' = Flag /\ Assembled' = 0 /\ OnesLast(rxbitstream', 0)
  BY <1>1, <1>3, FlagStartsAnew, FlagEnds
<1>5. noisy' => rxbitstream' # Flag
  BY <1>1, <1>3, HearingIs
<1> QED
  BY <1>4, <1>5

\* While the flags before a frame go out nothing is received.
LEMMA PreambleArrives ==
  ASSUME IInv, Arrivals, FlagsEnough, SendBit, Sending, Gone < Before
  PROVE  Counted' /\ OnlyFramesAreReceived'
<1>1. /\ Gone \in Nat /\ Before \in Nat /\ Before >= 2 /\ Length \in Nat /\ Length >= 2
      /\ FlagsIn(tx_tail) \in Nat
      /\ Head(to_send) = FlagItem
  <2>1. /\ Gone \in Nat /\ Before \in Nat /\ Length \in Nat /\ Length = Len(Frame) + 2 /\ Len(Frame) \in Nat
        /\ FlagsIn(tx_tail) \in Nat
        /\ Head(to_send) = IF Gone \in Before..Before + Length - 1
                             THEN [byte |-> Body(Frame)[BytesSent + 1], stuff |-> TRUE]
                             ELSE FlagItem
    BY RestIs
  <2>2. Before >= 2
    BY DEF FlagsEnough, Before
  <2>3. Gone \notin Before..Before + Length - 1
    BY <2>1
  <2> QED
    BY <2>1, <2>2, <2>3
<1>2. PICK h \in Bit : BitGoesOut(Flag[bit], h)
  BY <1>1, FlagBitGoesOut
<1>3. /\ UNCHANGED <<config, sent>> /\ bit \in 1..8 /\ NextBit /\ stuff_count' = stuff_count
      /\ stuff_count = 0
  BY <1>1, FlagBitGoesOut DEF IInv, StuffingIsOfData
<1>4. HdlcTypeOK /\ TypeOK /\ RxBit(h) /\ Hear(FALSE) /\ MaxNoise \in Nat
  BY <1>2 DEF BitGoesOut, IInv, TypeOK
<1>5. IF Gone < 2 THEN /\ Assembled <= MaxNoise + 8 * Gone + bit - 1
                       /\ ~noisy => Assembled <= 8 * Gone + bit - 1
                  ELSE Assembled <= bit - 1 /\ ~noisy
  BY DEF Arrivals, Counted, PreambleIsShort
<1>6. /\ Assembled \in Nat /\ Assembled' \in Nat /\ Assembled' <= Assembled + 1
      /\ rxbitstream' = Flag => Assembled' = 0
      /\ dispatched' # dispatched => Assembled >= 24
  BY <1>4, Assembling
<1>7. NothingNew
  <2>1. noisy \/ Assembled <= 15
    BY <1>1, <1>3, <1>5, <1>6
  <2>2. MaxNoise <= 8 => Assembled <= 23
    BY <1>1, <1>3, <1>4, <1>5, <1>6
  <2>3. Assembled <= 23 => dispatched' = dispatched
    BY <1>6
  <2>4. Assembled <= 15 => Assembled <= 23
    BY <1>6
  <2>5. received' = received
    BY <1>4, <2>1, <2>3, <2>4, HearingIs
  <2> QED
    BY <2>2, <2>3, <2>5 DEF NothingNew
<1>8. /\ Before' = Before /\ Length' = Length /\ sent' = sent
      /\ to_send' = to_send => Gone' = Gone /\ Sending'
      /\ to_send' = Tail(to_send) => Gone' = Gone + 1 /\ (Sending' <=> Gone + 1 < Before + Length + FlagsIn(tx_tail))
  BY <1>3, Position
<1>9. OnlyFramesAreReceived'
  <2>1. Closed' = Closed
    <3>1. Gone # Before + Length
      BY <1>1
    <3> QED
      BY <1>3, <3>1, ClosedIs DEF NextBit
  <2>2. OnlyFramesAreReceived
    BY DEF Arrivals
  <2> QED
    BY <1>7, <1>8, <2>1, <2>2, NothingReceived
<1>10. ~noisy' => ~noisy \/ Assembled' = 0
  BY <1>4, <1>6, HearingIs
<1>11. CASE bit < 8
  <2>1. Gone' = Gone /\ bit' = bit + 1 /\ Sending'
    BY <1>3, <1>8, <1>11 DEF NextBit
  <2>2. ~noisy => ~noisy'
    BY <1>4, HearingIs
  <2>3. IF Gone < 2 THEN /\ Assembled' <= MaxNoise + 8 * Gone + (bit + 1) - 1
                         /\ ~noisy' => Assembled' <= 8 * Gone + (bit + 1) - 1
                    ELSE Assembled' <= (bit + 1) - 1 /\ ~noisy'
    BY <1>1, <1>3, <1>4, <1>5, <1>6, <1>10, <2>2
  <2>4. PreambleIsShort'
    BY <2>1, <2>3 DEF PreambleIsShort
  <2> QED
    BY <1>1, <1>8, <1>9, <2>1, <2>4, CountedIn
<1>12. CASE bit = 8 /\ Gone = 0
  <2>1. Gone' = 1 /\ bit' = 1 /\ Sending'
    BY <1>1, <1>3, <1>8, <1>12 DEF NextBit
  <2>2. /\ Assembled' <= MaxNoise + 8 * 1 + 1 - 1
        /\ ~noisy' => Assembled' <= 8 * 1 + 1 - 1
    BY <1>4, <1>5, <1>6, <1>10, <1>12
  <2>3. PreambleIsShort'
    BY <2>1, <2>2 DEF PreambleIsShort
  <2> QED
    BY <1>1, <1>8, <1>9, <2>1, <2>3, CountedIn
<1>13. CASE bit = 8 /\ Gone # 0
  <2>1. Gone' = Gone + 1 /\ bit' = 1 /\ Sending' /\ Gone' \in Nat
    BY <1>1, <1>3, <1>8, <1>13 DEF NextBit
  <2>2. OnesLast(rxbitstream, 6)
    <3>1. Gone \in 1..Before - 1 /\ bit > 1 /\ bit - 2 = 6
      BY <1>1, <1>13
    <3>2. OnesLast(rxbitstream, bit - 2)
      BY <3>1 DEF IInv, FlagIsHeard
    <3> QED
      BY <3>1, <3>2
  <2>3. Assembled' = 0 /\ OnesLast(rxbitstream', 0) /\ ~noisy'
    BY <1>2, <1>13, <2>2, FlagIsOver
  <2>4. CASE Gone' < Before
    <3>1. PreambleIsShort'
      BY <1>1, <1>13, <2>1, <2>3 DEF PreambleIsShort
    <3> QED
      BY <1>1, <1>8, <1>9, <2>1, <2>4, <3>1, CountedIn
  <2>5. CASE Gone' = Before
    <3>1. BytesSent' = 0 /\ BitsSent' = 0 /\ stuff_count' = 0
      BY <1>1, <1>3, <1>8, <2>1, <2>5 DEF BytesSent, BitsSent
    <3>2. BodyIsCounted'
      BY <2>3, <3>1 DEF BodyIsCounted
    <3>3. Gone' \in Before'..Before' + Length' - 1
      BY <1>1, <1>8, <2>5
    <3> QED
      BY <1>1, <1>8, <1>9, <2>1, <3>2, <3>3, CountedIn
  <2> QED
    BY <1>1, <2>1, <2>4, <2>5
<1> QED
  BY <1>3, <1>11, <1>12, <1>13

\* The receiver has counted the bits of the body up to some bit of a byte.
CountedUpTo(bits) ==
    /\ ~noisy' /\ OnesLast(rxbitstream', stuff_count')
    /\ rxstate' => Assembled' = 8 * BytesSent + bits

\* What is put together fits its buffers after a bit, too.
LEMMA RoomAfter ==
  ASSUME HdlcTypeOK'
  PROVE  Len(rxbits') \in 0..7 /\ Len(rxbuf') \in 0..RxBufSize
<1>1. rxbits' \in Seq(Bit) /\ rxbuf' \in Seq(Seq(Bit)) /\ Len(rxbits') <= 7 /\ Len(rxbuf') <= RxBufSize
  BY DEF HdlcTypeOK
<1>2. Len(rxbits') \in Nat /\ Len(rxbuf') \in Nat
  BY <1>1, LenProperties
<1>3. ASSUME NEW n \in Nat, NEW m \in Nat, n <= m PROVE n \in 0..m
  BY <1>3
<1> QED
  BY <1>1, <1>2, <1>3

\* After a bit of the body: still in the body, or before the closing flag.
LEMMA AfterCountedBit ==
  ASSUME IInv, Sending, FlagsEnough, UNCHANGED <<config, sent>>, HdlcTypeOK',
         Gone \in Before..Before + Length - 1,
         bit \in 1..8, stuff_count' \in 0..5,
         IF stuff_count' = 5 THEN to_send' = to_send /\ bit' = bit ELSE NextBit,
         CountedUpTo(bit)
  PROVE  Counted'
<1>1. /\ Gone \in Nat /\ Before \in Nat /\ Length \in Nat /\ FlagsIn(tx_tail) \in Nat
      /\ Before' = Before /\ Length' = Length
      /\ to_send' = to_send => Gone' = Gone /\ Sending'
      /\ to_send' = Tail(to_send) => Gone' = Gone + 1 /\ (Sending' <=> Gone + 1 < Before + Length + FlagsIn(tx_tail))
  BY Position
<1>2. ~noisy' /\ OnesLast(rxbitstream', stuff_count') /\ (rxstate' => Assembled' = 8 * BytesSent + bit)
  BY DEF CountedUpTo
<1>3. CASE to_send' = to_send
  <2>1. Gone' = Gone /\ Sending' /\ BytesSent' = BytesSent /\ bit' = IF stuff_count' = 5 THEN bit ELSE bit + 1
    BY <1>1, <1>3 DEF BytesSent, NextBit
  <2>2. BitsSent' = bit
    BY <2>1 DEF BitsSent
  <2>3. BodyIsCounted'
    BY <1>2, <2>1, <2>2 DEF BodyIsCounted
  <2>4. Gone' \in Before'..Before' + Length' - 1
    BY <1>1, <2>1
  <2> QED
    BY <1>1, <2>1, <2>3, <2>4, CountedIn
<1>4. CASE to_send' # to_send
  <2>1. bit = 8 /\ stuff_count' # 5 /\ to_send' = Tail(to_send) /\ bit' = 1
    BY <1>4 DEF NextBit
  <2>2. Gone' = Gone + 1 /\ Gone' \in Nat /\ BytesSent' = BytesSent + 1 /\ BytesSent \in Nat /\ BitsSent' = 0
    BY <1>1, <2>1 DEF BytesSent, BitsSent
  <2>3. rxstate' => Assembled' = 8 * BytesSent' + 0
    BY <1>2, <2>1, <2>2
  <2>4. Sending'
    <3>1. FlagsIn(tx_tail) >= 1
      BY DEF FlagsEnough
    <3>2. Gone + 1 < Before + Length + FlagsIn(tx_tail)
      BY <1>1, <3>1
    <3> QED
      BY <1>1, <2>1, <3>2
  <2>5. CASE Gone' # Before + Length
    <3>1. Gone' \in Before'..Before' + Length' - 1
      BY <1>1, <2>2, <2>5
    <3>2. BodyIsCounted'
      BY <1>2, <2>2, <2>3 DEF BodyIsCounted
    <3> QED
      BY <1>1, <2>2, <2>4, <3>1, <3>2, CountedIn
  <2>6. CASE Gone' = Before + Length
    <3>1. Length > RxBufSize => ~rxstate'
      <4>1. ASSUME Length > RxBufSize, rxstate' PROVE FALSE
        <5>1. Assembled' = 8 * Length
          <6>1. BytesSent' = Length
            BY <1>1, <2>2, <2>6 DEF BytesSent
          <6> QED
            BY <1>1, <2>3, <4>1, <6>1
        <5>2. Len(rxbuf') \in 0..RxBufSize /\ Len(rxbits') \in 0..7
          BY RoomAfter
        <5>3. Assembled' = 8 * Len(rxbuf') + Len(rxbits')
          BY DEF Assembled
        <5>4. ASSUME NEW n \in 0..RxBufSize, NEW m \in 0..7, NEW l \in Nat, l > RxBufSize
              PROVE  8 * n + m # 8 * l
          BY <5>4
        <5> QED
          BY <1>1, <4>1, <5>1, <5>2, <5>3, <5>4
      <4> QED
        BY <4>1
    <3>2. ClosingFlagIsCounted'
      BY <1>1, <1>2, <2>1, <3>1 DEF ClosingFlagIsCounted
    <3> QED
      BY <1>1, <2>2, <2>4, <2>6, <3>2, CountedIn
  <2> QED
    BY <2>5, <2>6
<1> QED
  BY <1>3, <1>4

\* While the body goes out nothing is received.
LEMMA BodyArrives ==
  ASSUME IInv, Arrivals, FlagsEnough, SendBit, Sending, Gone \in Before..Before + Length - 1
  PROVE  Counted' /\ OnlyFramesAreReceived'
<1>1. PICK b \in Bit, h \in Bit :
         /\ b = Head(to_send).byte[bit] /\ BitGoesOut(b, h)
         /\ stuff_count' = IF ~Head(to_send).stuff THEN stuff_count
                             ELSE IF b = 0 THEN 0 ELSE stuff_count + 1
         /\ stuff_count' \in 0..5
         /\ IF stuff_count' = 5 THEN to_send' = to_send /\ bit' = bit ELSE NextBit
  BY SendBitDoes
<1>2. /\ bit \in 1..8 /\ stuff_count \in 0..4 /\ UNCHANGED <<config, sent>> /\ HdlcTypeOK /\ TypeOK
      /\ RxBit(h) /\ Hear(FALSE)
  BY <1>1, SendBitDoes DEF BitGoesOut, IInv, TypeOK
<1>3. /\ Gone \in Nat /\ Before \in Nat /\ Before >= 2 /\ Length \in Nat /\ Head(to_send).stuff
  <2>1. /\ Gone \in Nat /\ Before \in Nat /\ Length \in Nat
        /\ Head(to_send) = [byte |-> Body(Frame)[BytesSent + 1], stuff |-> TRUE]
    BY RestIs
  <2>2. Before >= 2
    BY DEF FlagsEnough, Before
  <2> QED
    BY <2>1, <2>2
<1>4. h = b
  <2>1. Gone > 0
    BY <1>3
  <2> QED
    BY <1>1, <2>1 DEF BitGoesOut
<1>5. ~noisy /\ OnesLast(rxbitstream, stuff_count) /\ (rxstate => Assembled = 8 * BytesSent + BitsSent)
  BY DEF Arrivals, Counted, BodyIsCounted
<1>6. BitsSent = bit - 1 /\ BytesSent \in Nat
  BY <1>2, <1>3 DEF BitsSent, BytesSent
<1>7. stuff_count \in 0..5 /\ stuff_count # 5
  BY <1>2
<1>8. dispatched' = dispatched
  BY <1>2, <1>5, <1>7, NoFlag
<1>9. /\ OnesLast(rxbitstream', IF h = 0 THEN 0 ELSE stuff_count + 1)
      /\ rxstate' => rxstate /\ Assembled' = Assembled + 1
  BY <1>2, <1>5, <1>7, DataIsCounted
<1>10. CountedUpTo(bit)
  <2>1. OnesLast(rxbitstream', stuff_count')
    BY <1>1, <1>3, <1>4, <1>9
  <2>2. ~noisy'
    BY <1>2, <1>5, HearingIs
  <2>3. rxstate' => Assembled' = 8 * BytesSent + bit
    BY <1>2, <1>5, <1>6, <1>9
  <2> QED
    BY <2>1, <2>2, <2>3 DEF CountedUpTo
<1>11. Counted'
  BY <1>1, <1>2, <1>10, HdlcTypeKeeps, AfterCountedBit
<1>12. OnlyFramesAreReceived'
  <2>1. Closed' = Closed
    <3>1. Gone # Before + Length
      BY <1>3
    <3> QED
      BY <1>1, <1>2, <3>1, ClosedIs
  <2>2. NothingNew
    BY <1>2, <1>8, HearingIs DEF NothingNew
  <2>3. OnlyFramesAreReceived /\ sent' = sent
    BY <1>2 DEF Arrivals
  <2> QED
    BY <2>1, <2>2, <2>3, NothingReceived
<1> QED
  BY <1>11, <1>12

\* Neither is anything by the zeros stuffed in it.
LEMMA StuffingArrives ==
  ASSUME IInv, Arrivals, FlagsEnough, StuffZero
  PROVE  Counted' /\ OnlyFramesAreReceived'
<1>1. /\ Sending /\ stuff_count = 5 /\ bit \in 1..8 /\ Head(to_send).stuff /\ stuff_count' = 0 /\ NextBit
  BY StuffZeroDoes
<1>2. PICK h \in Bit : BitGoesOut(0, h)
  BY StuffZeroDoes
<1>3. /\ Gone \in Nat /\ Before \in Nat /\ Before >= 2 /\ Length \in Nat
      /\ Gone \in Before..Before + Length - 1
  <2>1. /\ Gone \in Nat /\ Before \in Nat /\ Length \in Nat
        /\ Head(to_send) = IF Gone \in Before..Before + Length - 1
                             THEN [byte |-> Body(Frame)[BytesSent + 1], stuff |-> TRUE]
                             ELSE FlagItem
    BY <1>1, RestIs
  <2>2. Before >= 2
    BY DEF FlagsEnough, Before
  <2>3. ~FlagItem.stuff
    BY DEF FlagItem
  <2> QED
    BY <1>1, <2>1, <2>2, <2>3
<1>4. h = 0
  <2>1. Gone > 0
    BY <1>3
  <2> QED
    BY <1>2, <2>1 DEF BitGoesOut
<1>5. RxBit(0) /\ Hear(FALSE) /\ UNCHANGED <<config, sent>> /\ HdlcTypeOK /\ TypeOK /\ 0 \in Bit
  BY <1>2, <1>4 DEF BitGoesOut, IInv, TypeOK
<1>6. ~noisy /\ OnesLast(rxbitstream, 5) /\ (rxstate => Assembled = 8 * BytesSent + BitsSent)
  BY <1>1, <1>3 DEF Arrivals, Counted, BodyIsCounted
<1>7. rxbitstream' = Shifted(0) /\ UNCHANGED <<rxstate, rxbits, rxbuf, dispatched>>
  BY <1>5, <1>6, StuffingIsTakenOut
<1>8. CountedUpTo(bit)
  <2>1. OnesLast(rxbitstream', stuff_count')
    BY <1>1, <1>5, <1>7, ZeroLast
  <2>2. ~noisy'
    BY <1>5, <1>6, HearingIs
  <2>3. Assembled' = Assembled /\ BitsSent = bit
    BY <1>1, <1>7 DEF Assembled, BitsSent
  <2>4. rxstate' => Assembled' = 8 * BytesSent + bit
    BY <1>6, <1>7, <2>3
  <2> QED
    BY <2>1, <2>2, <2>4 DEF CountedUpTo
<1>9. Counted'
  <2>1. stuff_count' \in 0..5 /\ stuff_count' # 5
    BY <1>1
  <2>2. HdlcTypeOK'
    BY <1>5, HdlcTypeKeeps
  <2> QED
    BY <1>1, <1>3, <1>5, <1>8, <2>1, <2>2, AfterCountedBit
<1>10. OnlyFramesAreReceived'
  <2>1. Closed' = Closed
    <3>1. Gone # Before + Length
      BY <1>3
    <3> QED
      BY <1>1, <1>5, <3>1, ClosedIs
  <2>2. NothingNew
    BY <1>5, <1>7, HearingIs DEF NothingNew
  <2>3. OnlyFramesAreReceived /\ sent' = sent
    BY <1>5 DEF Arrivals
  <2> QED
    BY <2>1, <2>2, <2>3, NothingReceived
<1> QED
  BY <1>9, <1>10

\* The end of a closing flag has the frame received if it fits, and nothing otherwise.
LEMMA FrameIsReceived ==
  ASSUME IInv, Arrivals, FlagsEnough, SendBit, Sending, Gone = Before + Length, bit = 8
  PROVE  OnlyFramesAreReceived'
<1>1. /\ sent \in Seq(Frames) /\ Len(sent) \in Nat \ {0} /\ Frame \in Seq(Byte) /\ Before \in Nat
      /\ Length = Len(Frame) + 2 /\ Len(Frame) \in Nat /\ Len(Body(Frame)) = Length /\ Length \in Nat
  BY RestIs
<1>2. PICK h \in Bit : BitGoesOut(Flag[bit], h)
  BY FlagFollows, FlagBitGoesOut
<1>3. UNCHANGED <<config, sent>> /\ NextBit /\ sent' = sent /\ bit \in 1..8
  BY FlagFollows, FlagBitGoesOut
<1>4. HdlcTypeOK /\ TypeOK /\ RxBit(h) /\ Hear(FALSE)
  BY <1>2 DEF BitGoesOut, IInv, TypeOK
<1>5. PICK n \in Nat : n = Len(sent) - 1
  <2>1. Len(sent) - 1 \in Nat
    BY <1>1
  <2> QED
    BY <2>1
<1>6. Closed = n /\ Closed' = n + 1 /\ Len(sent) = n + 1
  <2>1. Gone' # Gone
    BY <1>1, <1>3, Position DEF NextBit
  <2> QED
    BY <1>1, <1>3, <1>5, <2>1, ClosedIs
<1>7. ~noisy /\ (Length > RxBufSize => ~rxstate)
  BY DEF Arrivals, Counted, ClosingFlagIsCounted
<1>8. OnlyFramesAreReceived
  BY DEF Arrivals
<1>9. sent[n + 1] = Frame
  BY <1>6 DEF Frame
<1>10. CASE Fits(Frame)
  <2>1. dispatched' = Append(dispatched, Frame)
    BY <1>10, FrameCloses
  <2>2. received' = Append(received, Frame)
    <3>1. dispatched \in Seq(Seq(Seq(Bit)))
      BY <1>4 DEF HdlcTypeOK
    <3> DEFINE d == Append(dispatched, Frame)
    <3>2. Len(dispatched) \in Nat /\ Len(d) = Len(dispatched) + 1 /\ d[Len(dispatched) + 1] = Frame
      BY <3>1
    <3> HIDE DEF d
    <3>3. dispatched' = d
      BY <2>1 DEF d
    <3>4. d[Len(d)] = Frame /\ d # dispatched
      BY <3>2
    <3>5. received' = Append(received, dispatched'[Len(dispatched')])
      BY <1>4, <1>7, <3>3, <3>4, HearingIs
    <3> QED
      BY <3>3, <3>4, <3>5, Zenon
  <2>3. Of(ClosedFitting)' = Append(Of(ClosedFitting), Frame)
    <3> DEFINE P == {i \in 1..n : Fits(sent[i])}
               Q == {i \in 1..n + 1 : Fits(sent[i])}
    <3>1. n + 1 \notin P /\ n + 1 \in Q /\ \A k \in 1..n : k \in P <=> k \in Q
      BY <1>9, <1>10
    <3>2. P = ClosedFitting /\ Q = ClosedFitting'
      BY <1>3, <1>6 DEF ClosedFitting, Fits
    <3> HIDE DEF P, Q
    <3>3. Chosen(sent, Q) = Append(Chosen(sent, P), sent[n + 1])
      BY <1>1, <1>6, <3>1, ChosenLast
    <3> QED
      BY <1>3, <1>9, <3>2, <3>3 DEF Of
  <2> QED
    BY <1>8, <2>1, <2>2, <2>3 DEF OnlyFramesAreReceived
<1>11. CASE ~Fits(Frame)
  <2>1. NothingNew
    <3>1. dispatched' # dispatched => rxstate /\ Assembled >= 24
      BY <1>4, Assembling
    <3>2. rxstate => Assembled = 23
      <4>1. SUFFICES ASSUME rxstate PROVE Assembled = 23
        OBVIOUS
      <4>2. ~(Length > RxBufSize)
        BY <1>7, <4>1
      <4>3. Length = 2 /\ Length <= RxBufSize
        BY <1>1, <1>11, <4>2 DEF Fits
      <4>4. rxbuf = Body(Frame) /\ Len(rxbits) = bit - 1
        BY <4>3 DEF IInv, ClosingFlagIsHeard
      <4>5. Len(rxbuf) = 2 /\ Len(rxbits) = 7
        BY <1>1, <4>3, <4>4
      <4> QED
        BY <4>5 DEF Assembled
    <3>3. dispatched' = dispatched
      BY <3>1, <3>2
    <3> QED
      BY <1>4, <3>3, HearingIs DEF NothingNew
  <2>2. ClosedFitting' = ClosedFitting
    <3>1. {i \in 1..n + 1 : Fits(sent[i])} = {i \in 1..n : Fits(sent[i])}
      <4>1. \A i \in 1..n + 1 : Fits(sent[i]) => i \in 1..n
        BY <1>9, <1>11
      <4>2. \A i \in 1..n : i \in 1..n + 1
        OBVIOUS
      <4> QED
        BY <4>1, <4>2, Zenon
    <3>2. ClosedFitting' = {i \in 1..n + 1 : Fits(sent[i])}
      BY <1>3, <1>6 DEF ClosedFitting, Fits
    <3>3. ClosedFitting = {i \in 1..n : Fits(sent[i])}
      BY <1>6 DEF ClosedFitting
    <3> QED
      BY <3>1, <3>2, <3>3, Zenon
  <2>3. Of(ClosedFitting)' = Of(ClosedFitting)
    BY <1>3, <2>2, Zenon DEF Of
  <2> QED
    BY <1>8, <2>1, <2>3, Zenon DEF OnlyFramesAreReceived, NothingNew
<1> QED
  BY <1>10, <1>11

\* Behind the closing flag, or at the end, the receiver has nothing after a flag.
LEMMA AfterFlag ==
  ASSUME Before' \in Nat, Length' \in Nat, Gone' \in Nat, Gone' > Before' + Length',
         bit' = 1, Assembled' = 0, ~noisy', noise' \in Nat
  PROVE  Counted'
<1>1. CASE Sending'
  <2>1. TailIsShort'
    BY DEF TailIsShort
  <2> QED
    BY <1>1, <2>1, CountedIn
<1>2. CASE ~Sending'
  <2>1. NoiseIsShort'
    BY DEF NoiseIsShort
  <2> QED
    BY <1>2, <2>1 DEF Counted, PreambleIsShort, BodyIsCounted, ClosingFlagIsCounted, TailIsShort
<1> QED
  BY <1>1, <1>2

\* While a closing flag goes out nothing is received but, in the end, the frame.
LEMMA ClosingFlagArrives ==
  ASSUME IInv, Arrivals, FlagsEnough, SendBit, Sending, Gone = Before + Length
  PROVE  Counted' /\ OnlyFramesAreReceived'
<1>1. PICK h \in Bit : BitGoesOut(Flag[bit], h)
  BY FlagFollows, FlagBitGoesOut
<1>2. /\ UNCHANGED <<config, sent>> /\ NextBit /\ sent' = sent /\ bit \in 1..8 /\ stuff_count \in 0..4
  BY FlagFollows, FlagBitGoesOut
<1>3. HdlcTypeOK /\ TypeOK /\ RxBit(h) /\ Hear(FALSE) /\ noise' \in Nat
  <2>1. noise' = noise /\ noise \in 0..MaxNoise
    BY <1>1 DEF BitGoesOut, IInv, TypeOK
  <2>2. noise' \in Nat
    BY <2>1
  <2> QED
    BY <1>1, <2>2 DEF BitGoesOut, IInv, TypeOK
<1>4. /\ Gone \in Nat /\ Before \in Nat /\ Length \in Nat /\ Length >= 2
      /\ FlagsIn(tx_tail) \in Nat /\ Before' = Before /\ Length' = Length
      /\ to_send' = to_send => Gone' = Gone /\ Sending'
      /\ to_send' = Tail(to_send) => Gone' = Gone + 1
  BY <1>2, Position
<1>5. h = Flag[bit]
  <2>1. Gone > 0
    BY <1>4
  <2> QED
    BY <1>1, <2>1 DEF BitGoesOut
<1>6. /\ ~noisy /\ OnesLast(rxbitstream, IF bit = 1 THEN stuff_count ELSE bit - 2)
      /\ Length > RxBufSize => ~rxstate
  BY DEF Arrivals, Counted, ClosingFlagIsCounted
<1>7. CASE bit < 8
  <2>1. Gone' = Gone /\ bit' = bit + 1 /\ Sending'
    BY <1>2, <1>4, <1>7 DEF NextBit
  <2> DEFINE n == IF bit = 1 THEN stuff_count ELSE bit - 2
  <2>2. n \in 0..5 /\ OnesLast(rxbitstream, n) /\ (n = 5 => h = 1)
    BY <1>2, <1>5, <1>6, <1>7 DEF Flag
  <2>3. OnesLast(rxbitstream', (bit + 1) - 2)
    <3>1. (IF h = 0 THEN 0 ELSE n + 1) = (bit + 1) - 2
      BY <1>2, <1>5, <1>7 DEF Flag
    <3> HIDE DEF n
    <3>2. OnesLast(rxbitstream', IF h = 0 THEN 0 ELSE n + 1)
      BY <1>3, <2>2, DataIsCounted
    <3> QED
      BY <3>1, <3>2
  <2> HIDE DEF n
  <2>4. dispatched' = dispatched
    BY <1>3, <2>2, NoFlag
  <2>5. rxstate' => rxstate
    BY <1>3, <2>2, DataIsCounted
  <2>6. ~noisy'
    BY <1>3, <1>6, HearingIs
  <2>7. ClosingFlagIsCounted'
    <3>1. bit' # 1
      BY <1>2, <2>1
    <3> QED
      BY <1>4, <1>6, <2>1, <2>3, <2>5, <2>6, <3>1 DEF ClosingFlagIsCounted
  <2>8. OnlyFramesAreReceived'
    <3>1. Closed' = Closed
      BY <1>2, <2>1, ClosedIs
    <3>2. NothingNew
      BY <1>3, <2>4, HearingIs DEF NothingNew
    <3>3. OnlyFramesAreReceived
      BY DEF Arrivals
    <3> QED
      BY <1>2, <3>1, <3>2, <3>3, NothingReceived
  <2> QED
    BY <1>4, <2>1, <2>7, <2>8, CountedIn
<1>8. CASE bit = 8
  <2>1. Gone' = Gone + 1 /\ bit' = 1
    BY <1>2, <1>4, <1>8 DEF NextBit
  <2>2. OnesLast(rxbitstream, 6)
    BY <1>6, <1>8
  <2>3. Assembled' = 0 /\ ~noisy'
    BY <1>1, <1>8, <2>2, FlagIsOver
  <2>4. Counted'
    BY <1>3, <1>4, <2>1, <2>3, AfterFlag
  <2> QED
    BY <1>8, <2>4, FrameIsReceived
<1> QED
  BY <1>2, <1>7, <1>8

\* Neither is anything received while the flags behind it go out.
LEMMA TailArrives ==
  ASSUME IInv, Arrivals, FlagsEnough, SendBit, Sending, Gone > Before + Length
  PROVE  Counted' /\ OnlyFramesAreReceived'
<1>1. /\ Gone \in Nat /\ Before \in Nat /\ Length \in Nat /\ Head(to_send) = FlagItem
  <2>1. /\ Gone \in Nat /\ Before \in Nat /\ Length \in Nat
        /\ Head(to_send) = IF Gone \in Before..Before + Length - 1
                             THEN [byte |-> Body(Frame)[BytesSent + 1], stuff |-> TRUE]
                             ELSE FlagItem
    BY RestIs
  <2>2. Gone \notin Before..Before + Length - 1
    BY <2>1
  <2> QED
    BY <2>1, <2>2
<1>2. PICK h \in Bit : BitGoesOut(Flag[bit], h)
  BY <1>1, FlagBitGoesOut
<1>3. /\ UNCHANGED <<config, sent>> /\ NextBit /\ sent' = sent /\ bit \in 1..8
  BY <1>1, FlagBitGoesOut
<1>4. HdlcTypeOK /\ TypeOK /\ RxBit(h) /\ Hear(FALSE) /\ noise' \in Nat
  <2>1. noise' = noise /\ noise \in 0..MaxNoise
    BY <1>2 DEF BitGoesOut, IInv, TypeOK
  <2>2. noise' \in Nat
    BY <2>1
  <2> QED
    BY <1>2, <2>2 DEF BitGoesOut, IInv, TypeOK
<1>5. /\ Before' = Before /\ Length' = Length
      /\ to_send' = to_send => Gone' = Gone /\ Sending'
      /\ to_send' = Tail(to_send) => Gone' = Gone + 1
  BY <1>3, Position
<1>6. h = Flag[bit]
  <2>1. Gone > 0
    BY <1>1
  <2> QED
    BY <1>2, <2>1 DEF BitGoesOut
<1>7. ~noisy /\ Assembled <= bit - 1 /\ (bit > 1 => OnesLast(rxbitstream, bit - 2))
  BY DEF Arrivals, Counted, TailIsShort
<1>8. /\ Assembled \in Nat /\ Assembled' \in Nat /\ Assembled' <= Assembled + 1
      /\ dispatched' # dispatched => Assembled >= 24
  BY <1>4, Assembling
<1>9. ~noisy'
  BY <1>4, <1>7, HearingIs
<1>10. OnlyFramesAreReceived'
  <2>1. Closed' = Closed
    <3>1. Gone # Before + Length
      BY <1>1
    <3> QED
      BY <1>3, <3>1, ClosedIs DEF NextBit
  <2>2. dispatched' = dispatched
    BY <1>3, <1>7, <1>8
  <2>3. NothingNew
    BY <1>4, <2>2, HearingIs DEF NothingNew
  <2>4. OnlyFramesAreReceived
    BY DEF Arrivals
  <2> QED
    BY <1>3, <2>1, <2>3, <2>4, NothingReceived
<1>11. CASE bit < 8
  <2>1. Gone' = Gone /\ bit' = bit + 1 /\ Sending'
    BY <1>3, <1>5, <1>11 DEF NextBit
  <2>2. Assembled' <= (bit + 1) - 1
    BY <1>3, <1>7, <1>8
  <2>3. OnesLast(rxbitstream', (bit + 1) - 2)
    <3>1. CASE bit = 1
      <4>1. h = 0
        BY <1>6, <3>1 DEF Flag
      <4>2. rxbitstream' = Shifted(0)
        BY <1>4, <4>1 DEF RxBit, Shifted
      <4>3. OnesLast(rxbitstream', 0)
        BY <1>4, <4>2, ZeroLast
      <4>4. (bit + 1) - 2 = 0
        BY <3>1
      <4> QED
        BY <4>3, <4>4
    <3>2. CASE bit # 1
      <4>1. PICK n \in 0..5 : n = bit - 2
        BY <1>3, <1>11, <3>2
      <4>2. h = 1 /\ OnesLast(rxbitstream, n)
        BY <1>3, <1>6, <1>7, <1>11, <3>2, <4>1 DEF Flag
      <4>3. OnesLast(rxbitstream', IF h = 0 THEN 0 ELSE n + 1)
        BY <1>4, <4>2, DataIsCounted
      <4>4. (IF h = 0 THEN 0 ELSE n + 1) = (bit + 1) - 2
        BY <1>3, <4>1, <4>2
      <4> QED
        BY <4>3, <4>4
    <3> QED
      BY <3>1, <3>2
  <2>4. TailIsShort'
    BY <1>9, <2>1, <2>2, <2>3 DEF TailIsShort
  <2> QED
    BY <1>1, <1>5, <1>10, <2>1, <2>4, CountedIn
<1>12. CASE bit = 8
  <2>1. Gone' = Gone + 1 /\ bit' = 1
    BY <1>3, <1>5, <1>12 DEF NextBit
  <2>2. OnesLast(rxbitstream, 6)
    BY <1>7, <1>12
  <2>3. Assembled' = 0
    BY <1>2, <1>12, <2>2, FlagIsOver
  <2>4. Counted'
    BY <1>1, <1>4, <1>5, <1>9, <2>1, <2>3, AfterFlag
  <2> QED
    BY <1>10, <2>4
<1> QED
  BY <1>3, <1>11, <1>12

\* With flags enough or not, a bit sent keeps it so,
LEMMA SendBitArrives ==
  ASSUME IInv, Arrivals, SendBit
  PROVE  Arrivals'
<1>1. Sending /\ UNCHANGED <<config, sent>>
  BY SendBitDoes DEF BitGoesOut
<1>2. FlagsEnough' = FlagsEnough
  BY <1>1, SameTransmission
<1>3. /\ Gone \in Nat /\ Before \in Nat /\ Length \in Nat
  BY <1>1, RestIs
<1>4. \/ Gone < Before \/ Gone \in Before..Before + Length - 1
      \/ Gone = Before + Length \/ Gone > Before + Length
  BY <1>3
<1>5. FlagsEnough => Counted' /\ OnlyFramesAreReceived'
  BY <1>1, <1>4, PreambleArrives, BodyArrives, ClosingFlagArrives, TailArrives
<1> QED
  BY <1>2, <1>5 DEF Arrivals

\* and a stuffed zero does,
LEMMA StuffZeroArrives ==
  ASSUME IInv, Arrivals, StuffZero
  PROVE  Arrivals'
<1>1. UNCHANGED <<config, sent>>
  <2>1. PICK h \in Bit : BitGoesOut(0, h)
    BY StuffZeroDoes
  <2> QED
    BY <2>1 DEF BitGoesOut
<1>2. FlagsEnough' = FlagsEnough
  BY <1>1, SameTransmission
<1> QED
  BY <1>2, StuffingArrives DEF Arrivals

\* noise does,
LEMMA HearNoiseArrives ==
  ASSUME IInv, Arrivals, HearNoise
  PROVE  Arrivals'
<1>1. PICK symbol \in Bit : Demodulate(symbol)
  BY DEF HearNoise
<1> DEFINE h == IF symbol = rx_symbol THEN 1 ELSE 0
<1>2. h \in Bit /\ RxBit(h)
  BY <1>1 DEF Demodulate, Bit
<1> HIDE DEF h
<1>3. /\ ~Sending /\ to_send' = to_send /\ sent' = sent /\ Hear(TRUE)
      /\ noise < MaxNoise /\ noise' = noise + 1 /\ UNCHANGED <<config, sent>>
  BY DEF HearNoise, Sending, txVars
<1>4. ~Sending' /\ FlagsEnough' = FlagsEnough
  BY <1>3, SameTransmission DEF Sending
<1>5. HdlcTypeOK /\ TypeOK /\ noise \in Nat /\ MaxNoise \in Nat
  BY DEF IInv, TypeOK
<1> SUFFICES ASSUME FlagsEnough PROVE Counted' /\ OnlyFramesAreReceived'
  BY <1>4 DEF Arrivals
<1>6. Assembled <= noise
  BY <1>3 DEF Arrivals, Counted, NoiseIsShort
<1>7. /\ Assembled \in Nat /\ Assembled' \in Nat /\ Assembled' <= Assembled + 1
      /\ rxbitstream' = Flag => Assembled' = 0
      /\ dispatched' # dispatched => Assembled >= 24
  BY <1>2, <1>5, Assembling
<1>8. NoiseIsShort'
  <2>1. ~noisy' => Assembled' = 0
    BY <1>3, <1>5, <1>7, HearingIs
  <2>2. Assembled' <= noise'
    BY <1>3, <1>5, <1>6, <1>7
  <2> QED
    BY <2>1, <2>2 DEF NoiseIsShort
<1>9. Counted'
  BY <1>4, <1>8 DEF Counted, PreambleIsShort, BodyIsCounted, ClosingFlagIsCounted, TailIsShort
<1>10. OnlyFramesAreReceived'
  <2>1. Closed' = Closed
    BY <1>3, <1>4 DEF Closed
  <2>2. received' = received
    BY <1>3, <1>5, HearingIs
  <2>3. MaxNoise <= 8 => dispatched' = dispatched
    BY <1>3, <1>5, <1>6, <1>7
  <2>4. OnlyFramesAreReceived
    BY DEF Arrivals
  <2> QED
    BY <1>3, <2>1, <2>2, <2>3, <2>4, NothingReceived DEF NothingNew
<1> QED
  BY <1>9, <1>10

\* the start of a transmission does,
LEMMA StartFrameArrives ==
  ASSUME IInv, Arrivals, StartFrame
  PROVE  Arrivals'
<1>1. PICK frame \in Frames : sent' = Append(sent, frame) /\ to_send' = Transmission(frame)
  BY DEF StartFrame
<1>2. /\ ~Sending /\ bit' = 1 /\ noise' = 0 /\ tx_delay' = tx_delay /\ tx_tail' = tx_tail
      /\ noisy' = noisy /\ received' = received /\ rxbuf' = rxbuf /\ rxbits' = rxbits /\ dispatched' = dispatched
  BY DEF StartFrame, Sending, config, hdlcVars
<1>3. HdlcTypeOK /\ <<tx_delay, tx_tail>> \in Delays /\ sent \in Seq(Frames) /\ frame \in Seq(Byte) /\ noise \in 0..MaxNoise
  BY DEF IInv, TypeOK
<1>4. /\ Len(sent) \in Nat /\ Len(sent') = Len(sent) + 1
      /\ sent'[Len(sent) + 1] = frame /\ \A i \in 1..Len(sent) : sent'[i] = sent[i]
  BY <1>1, <1>3, Appended
<1>5. Frame' = frame
  BY <1>4 DEF Frame
<1>6. Transmission(Frame)' = to_send' /\ Before' = Before /\ FlagsEnough' = FlagsEnough
  BY <1>1, <1>2, <1>5 DEF Transmission, Before, FlagsEnough
<1> SUFFICES ASSUME FlagsEnough PROVE Counted' /\ OnlyFramesAreReceived'
  BY <1>6 DEF Arrivals
<1>7. Len(to_send') = Before + (Len(frame) + 2) + FlagsIn(tx_tail) /\ Before \in Nat /\ FlagsIn(tx_tail) \in Nat /\ Len(frame) \in Nat
  <2>1. Len(Transmission(frame)) = Before + (Len(frame) + 2) + FlagsIn(tx_tail)
    BY <1>3, TransmissionIs
  <2>2. Before \in Nat /\ FlagsIn(tx_tail) \in Nat /\ Len(frame) \in Nat
    BY <1>3, DelayType
  <2> QED
    BY <1>1, <2>1, <2>2, Zenon
<1>8. Gone' = 0 /\ Sending' /\ Before' >= 2 /\ Before' \in Nat /\ Length' \in Nat /\ Length' = Len(frame) + 2
  <2>1. Len(to_send') # 0 /\ Len(to_send') \in Nat
    BY <1>7
  <2>2. Gone' = Len(to_send') - Len(to_send')
    BY <1>6 DEF Gone
  <2>3. Sending'
    <3>1. Len(<<>>) = 0
      OBVIOUS
    <3> QED
      BY <2>1, <3>1 DEF Sending
  <2>4. Before >= 2
    BY DEF FlagsEnough, Before
  <2>5. Length' = Len(frame) + 2
    BY <1>5 DEF Length
  <2> QED
    BY <1>6, <1>7, <2>1, <2>2, <2>3, <2>4, <2>5
<1>9. Counted'
  <2>1. Assembled <= noise /\ (~noisy => Assembled = 0)
    BY <1>2 DEF Arrivals, Counted, NoiseIsShort
  <2>2. Assembled' = Assembled /\ Assembled \in Nat
    BY <1>2, <1>3, BufferType DEF Assembled
  <2>3. Assembled' <= MaxNoise + 8 * 0 + 1 - 1 /\ (~noisy' => Assembled' <= 8 * 0 + 1 - 1)
    BY <1>2, <1>3, <2>1, <2>2
  <2>4. PreambleIsShort'
    BY <1>2, <1>8, <2>3 DEF PreambleIsShort
  <2> QED
    BY <1>8, <2>4, CountedIn
<1>10. OnlyFramesAreReceived'
  <2>1. Closed = Len(sent)
    BY <1>2 DEF Closed
  <2>2. Closed' = Len(sent)
    <3>1. Gone' <= Before' + Length'
      BY <1>8
    <3> QED
      BY <1>4, <1>8, <3>1 DEF Closed
  <2> DEFINE P == {i \in 1..Len(sent) : Fits(sent[i])}
  <2>3. P = ClosedFitting
    BY <2>1 DEF ClosedFitting
  <2>4. P = ClosedFitting'
    BY <1>4, <2>2 DEF ClosedFitting, Fits
  <2>5. Len(sent) + 1 \notin P
    BY <1>4
  <2> HIDE DEF P
  <2>6. Chosen(Append(sent, frame), P) = Chosen(sent, P)
    BY <1>3, <2>5, ChosenAppend
  <2>7. Of(ClosedFitting)' = Of(ClosedFitting)
    BY <1>1, <2>3, <2>4, <2>6, Zenon DEF Of
  <2>8. OnlyFramesAreReceived
    BY DEF Arrivals
  <2> QED
    BY <1>2, <2>7, <2>8, Zenon DEF OnlyFramesAreReceived
<1> QED
  BY <1>9, <1>10

\* and so does nothing at all.
LEMMA NothingArrives ==
  ASSUME IInv, Arrivals, UNCHANGED vars
  PROVE  Arrivals'
<1>1. /\ UNCHANGED <<config, sent>> /\ to_send' = to_send /\ sent' = sent /\ bit' = bit
      /\ stuff_count' = stuff_count /\ noise' = noise /\ noisy' = noisy /\ received' = received
      /\ rxbitstream' = rxbitstream /\ rxstate' = rxstate /\ rxbits' = rxbits /\ rxbuf' = rxbuf
      /\ dispatched' = dispatched
  BY DEF vars, config, txVars, hdlcVars
<1>2. Before' = Before /\ FlagsEnough' = FlagsEnough /\ Length' = Length
  BY <1>1, SameTransmission
<1>3. Gone' = Gone /\ Sending' = Sending
  BY <1>1, SameByte
<1>4. BytesSent' = BytesSent /\ BitsSent' = BitsSent /\ Assembled' = Assembled /\ Closed' = Closed
  BY <1>1, <1>2, <1>3 DEF BytesSent, BitsSent, Assembled, Closed
<1>5. Counted => Counted'
  BY <1>1, <1>2, <1>3, <1>4
     DEF Counted, NoiseIsShort, PreambleIsShort, BodyIsCounted, ClosingFlagIsCounted, TailIsShort
<1>6. OnlyFramesAreReceived => OnlyFramesAreReceived'
  BY <1>1, <1>4, NothingReceived DEF NothingNew
<1> QED
  BY <1>2, <1>5, <1>6 DEF Arrivals

\* Nothing has arrived before the first transmission.
LEMMA InitArrives ==
  ASSUME Init
  PROVE  Arrivals
<1>1. /\ sent = <<>> /\ to_send = <<>> /\ noise = 0 /\ received = <<>>
      /\ rxbits = <<>> /\ rxbuf = <<>> /\ dispatched = <<>>
  BY DEF Init, HdlcInit
<1>2. ~Sending /\ Len(<<>>) = 0
  BY <1>1 DEF Sending
<1>3. Assembled = 0
  BY <1>1, <1>2 DEF Assembled
<1>4. Counted
  BY <1>1, <1>2, <1>3
     DEF Counted, NoiseIsShort, PreambleIsShort, BodyIsCounted, ClosingFlagIsCounted, TailIsShort
<1>5. Of(ClosedFitting) = <<>>
  BY <1>1, ChosenEmpty, Zenon DEF Of
<1>6. OnlyFramesAreReceived
  BY <1>1, <1>5 DEF OnlyFramesAreReceived
<1> QED
  BY <1>4, <1>6 DEF Arrivals
-----------------------------------------------------------------------------
(* The results.                                                            *)

\* The invariant holds whatever the frames, delays, noise and size of rxbuf: what
\* the receiver has heard is what byteToSymbols() has sent.
THEOREM LinkInvariant == Spec => []IInv
<1>1. Init => IInv
  BY InitEstablishes
<1>2. IInv /\ [Next]_vars => IInv'
  BY StartFrameKeeps, SendBitKeeps, StuffZeroKeeps, HearNoiseKeeps, NothingHappens DEF Next
<1> QED
  BY <1>1, <1>2, PTL DEF Spec

\* Every variable has its type: among others rxbit() keeps within rxbitbuf and
\* rxbuf, and byteToSymbols() never counts more than five ones.
THEOREM TypeCorrect == Spec => []TypeOK
<1>1. IInv => TypeOK
  BY DEF IInv
<1> QED
  BY <1>1, LinkInvariant, PTL

\* No data looks like a flag or an abort to the receiver: while a frame that fits
\* rxbuf goes out, whatever its bytes, rxbit() stays in the frame.
THEOREM DataTransparent == Spec => []DataIsTransparent
<1>1. IInv => DataIsTransparent
  <2> SUFFICES ASSUME IInv, Sending, Head(to_send).stuff, Length <= RxBufSize, FlagsEnough
               PROVE  rxstate
    BY DEF DataIsTransparent, Sending, Length, Frame
  <2>1. Gone \in Before..Before + Length - 1
    <3>1. ~FlagItem.stuff
      BY DEF FlagItem
    <3> QED
      BY <3>1, RestIs
  <2> QED
    BY <2>1 DEF IInv, BodyIsHeard
<1> QED
  BY <1>1, LinkInvariant, PTL

\* Every frame that is not empty and fits rxbuf with its CRC is dispatched by the
\* time its closing flag is out, as it was sent and after those sent before it,
\* whatever its bytes, the frames between and the noise between the transmissions,
\* if the delays give the flags for it.
THEOREM FramesHeard == Spec => []FramesAreHeard
<1>1. IInv => FramesAreHeard
  BY DEF IInv
<1> QED
  BY <1>1, LinkInvariant, PTL

\* With flags enough the receiver makes out every frame that has data and fits rxbuf,
\* as it was sent, once and in order, and nothing else but what there is noise in;
\* and eight symbols of noise between two transmissions make no frame: then the
\* dispatched frames are exactly those that were sent.
THEOREM FramesArrive == Spec => [](FlagsEnough => EveryFrameArrives)
<1>1. Init => Arrivals
  BY InitArrives
<1>2. IInv /\ Arrivals /\ [Next]_vars => Arrivals'
  BY StartFrameArrives, SendBitArrives, StuffZeroArrives, HearNoiseArrives, NothingArrives DEF Next
<1>3. IInv /\ Arrivals => (FlagsEnough => EveryFrameArrives)
  <2> SUFFICES ASSUME IInv, OnlyFramesAreReceived PROVE EveryFrameArrives
    BY DEF Arrivals
  <2>1. received = Of(ClosedFitting) /\ (MaxNoise <= 8 => dispatched = received)
    BY DEF OnlyFramesAreReceived
  <2>2. ClosedFitting \in SUBSET Fitting
    <3>1. Len(sent) \in Nat /\ (Closed = Len(sent) \/ Closed = Len(sent) - 1)
      BY DEF Closed, IInv, TypeOK
    <3> QED
      BY <3>1 DEF ClosedFitting, Fitting
  <2>3. to_send = <<>> => ClosedFitting = Fitting
    BY DEF ClosedFitting, Fitting, Closed, Sending
  <2> QED
    BY <2>1, <2>2, <2>3, Zenon DEF EveryFrameArrives
<1> QED
  BY <1>1, <1>2, <1>3, LinkInvariant, PTL DEF Spec
=============================================================================
