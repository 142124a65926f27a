------------------------- MODULE KissSession_proofs -------------------------
(***************************************************************************)
(* Proofs about a KISS session, for all frames, packets and noise and all  *)
(* ways to cut the stream.                                                 *)
(***************************************************************************)
EXTENDS KissSession, Recursion, SequenceTheorems

-----------------------------------------------------------------------------
(* Sequences.                                                              *)

\* Numbers moved along are chosen like the numbers.
Moved(s, d) == [i \in 1..Len(s) |-> d + s[i]]

\* Positions that are moved stay as many and stay positions.
LEMMA MovedType ==
  ASSUME NEW s \in Seq(Nat), NEW d \in Nat
  PROVE  Moved(s, d) \in Seq(Nat) /\ Len(Moved(s, d)) = Len(s)
  BY DEF Moved

\* Moving a position appended is appending it moved.
LEMMA MovedAppend ==
  ASSUME NEW s \in Seq(Nat), NEW d \in Nat, NEW e \in Nat
  PROVE  Moved(Append(s, e), d) = Append(Moved(s, d), d + e)
<1> DEFINE t == Append(s, e)
           m == Moved(s, d)
           T == Nat
<1>1. m \in Seq(T) /\ Len(m) = Len(s) /\ d + e \in T /\ s \in Seq(T) /\ e \in T
  BY MovedType
<1>2. \A i \in 1..Len(s) : m[i] = d + s[i]
  BY DEF Moved
<1> HIDE DEF m, T
<1>3. /\ t \in Seq(T) /\ Len(s) \in Nat /\ Len(t) = Len(s) + 1
      /\ \A i \in 1..Len(s) : t[i] = s[i]
      /\ t[Len(s) + 1] = e
  BY <1>1, Appended
<1>4. /\ Append(m, d + e) \in Seq(T) /\ Len(Append(m, d + e)) = Len(m) + 1
      /\ \A i \in 1..Len(m) : Append(m, d + e)[i] = m[i]
      /\ Append(m, d + e)[Len(m) + 1] = d + e
  BY <1>1, Appended
<1> DEFINE v == Append(m, d + e)
<1> HIDE DEF t, v
<1>5. Moved(t, d) \in Seq(T) /\ Len(Moved(t, d)) = Len(t)
  BY <1>3, MovedType DEF T
<1>6. \A i \in 1..Len(t) : Moved(t, d)[i] = d + t[i]
  BY DEF Moved
<1>7. \A i \in 1..Len(t) : Moved(t, d)[i] = v[i]
  <2> TAKE i \in 1..Len(t)
  <2>1. CASE i \in 1..Len(s)
    BY <1>1, <1>2, <1>3, <1>4, <1>6, <2>1 DEF v
  <2>2. CASE i = Len(s) + 1
    BY <1>1, <1>3, <1>4, <1>6, <2>2 DEF v
  <2> QED
    BY <1>3, <2>1, <2>2
<1>8. v \in Seq(T) /\ Len(v) = Len(t)
  BY <1>1, <1>3, <1>4 DEF v
<1>9. Moved(t, d) = v
  BY <1>5, <1>7, <1>8, SeqEqual
<1> QED
  BY <1>9 DEF t, v, m

\* It is the same to move what is chosen and to choose from what is moved.
LEMMA ChosenMoved ==
  ASSUME NEW s \in Seq(Nat), NEW d \in Nat, NEW P
  PROVE  Chosen(Moved(s, d), P) = Moved(Chosen(s, P), d)
<1> DEFINE t == Moved(s, d)
           T == Nat
<1>1. t \in Seq(T) /\ Len(t) = Len(s) /\ Len(s) \in Nat /\ s \in Seq(T)
  BY MovedType
<1>2. \A k \in 1..Len(s) : t[k] = d + s[k] /\ s[k] \in Nat
  BY DEF Moved
<1> HIDE DEF t, T
<1>3. PICK n \in Nat : n = Len(s)
  BY <1>1
<1>4. PICK f : Choice(s, P, T, f) /\ Chosen(s, P) = f[Len(s)]
  BY <1>1, ChosenRounds
<1>5. PICK g : Choice(t, P, T, g) /\ Chosen(t, P) = g[Len(t)]
  BY <1>1, ChosenRounds
<1> DEFINE S == {k \in 0..n : g[k] = Moved(f[k], d)}
<1>6. 0 \in S
  <2>1. Moved(<<>>, d) = <<>>
    BY DEF Moved
  <2>2. f[0] = <<>> /\ g[0] = <<>>
    BY <1>4, <1>5 DEF Choice
  <2> QED
    BY <2>1, <2>2
<1>7. ASSUME NEW k \in 1..n, k - 1 \in S PROVE k \in S
  <2>1. k \in 1..Len(s) /\ k \in 1..Len(t) /\ k \in 0..n /\ k - 1 \in 0..n
    BY <1>1, <1>3
  <2>2. f[k] = IF k \in P THEN Append(f[k - 1], s[k]) ELSE f[k - 1]
    BY <1>4, <2>1, Zenon DEF Choice
  <2>3. g[k] = IF k \in P THEN Append(g[k - 1], t[k]) ELSE g[k - 1]
    BY <1>5, <2>1, Zenon DEF Choice
  <2>4. f[k - 1] \in Seq(Nat) /\ g[k - 1] = Moved(f[k - 1], d)
    BY <1>3, <1>4, <1>7, <2>1 DEF Choice, T
  <2>5. t[k] = d + s[k] /\ s[k] \in Nat
    BY <1>2, <2>1
  <2>6. Moved(Append(f[k - 1], s[k]), d) = Append(Moved(f[k - 1], d), d + s[k])
    BY <2>4, <2>5, MovedAppend
  <2>7. g[k] = Moved(f[k], d)
    BY <2>2, <2>3, <2>4, <2>5, <2>6, Zenon
  <2> QED
    BY <2>1, <2>7
<1> HIDE DEF S
<1>8. 0..n \subseteq S
  BY <1>6, <1>7, UpTo
<1>9. n \in S
  BY <1>8
<1> QED
  BY <1>1, <1>3, <1>4, <1>5, <1>9 DEF S, t

-----------------------------------------------------------------------------
(* The FENDs of a buffer.                                                  *)

Byte == 0..255

\* Fends(b) is a sequence of positions of b.
LEMMA FendsType ==
  ASSUME NEW b \in Seq(Byte)
  PROVE  Fends(b) \in Seq(1..Len(b)) /\ Fends(b) \in Seq(Nat) /\ Len(Fends(b)) \in Nat
<1>1. Len(b) \in Nat
  OBVIOUS
<1> DEFINE T == 1..Len(b)
           s == Numbers(Len(b))
           P == {i \in 1..Len(b) : b[i] = FEND}
<1>2. s \in Seq(T)
  BY <1>1, NumbersType
<1> HIDE DEF T, s, P
<1>3. Chosen(s, P) \in Seq(T)
  BY <1>2, ChosenType
<1>4. Fends(b) \in Seq(1..Len(b))
  BY <1>3 DEF Fends, T, s, P
<1>5. 1..Len(b) \subseteq Nat
  BY <1>1
<1>6. Fends(b) \in Seq(Nat)
  BY <1>4, <1>5, SeqMonotonic
<1> QED
  BY <1>4, <1>6

\* There is a FEND at every one of them.
LEMMA FendsAreFends ==
  ASSUME NEW b \in Seq(Byte), NEW k \in 1..Len(Fends(b))
  PROVE  b[Fends(b)[k]] = FEND
<1> DEFINE s == Numbers(Len(b))
           P == {i \in 1..Len(b) : b[i] = FEND}
           U == {s[i] : i \in (1..Len(s)) \cap P}
<1>1. s \in Seq(Nat) /\ Len(s) = Len(b) /\ \A i \in 1..Len(b) : s[i] = i
  <2>1. Len(b) \in Nat
    OBVIOUS
  <2> QED
    BY <2>1, NumbersType
<1>2. U \subseteq P
  BY <1>1
<1> HIDE DEF s, P
<1>3. Chosen(s, P) \in Seq(U)
  BY <1>1, ChosenFrom
<1>4. Fends(b) \in Seq(U)
  BY <1>3 DEF Fends, s, P
<1> HIDE DEF U
<1>5. Fends(b)[k] \in U
  BY <1>4, Elements
<1> QED
  BY <1>2, <1>5 DEF P

\* There are none in bytes without a FEND.
LEMMA FendsNone ==
  ASSUME NEW b \in Seq(Byte), \A i \in 1..Len(b) : b[i] # FEND
  PROVE  Fends(b) = <<>>
<1> DEFINE s == Numbers(Len(b))
           P == {i \in 1..Len(b) : b[i] = FEND}
<1>1. s \in Seq(Nat) /\ Len(s) = Len(b) /\ \A k \in 1..Len(s) : k \notin P
  BY NumbersType
<1> HIDE DEF s, P
<1>2. Chosen(s, P) = <<>>
  BY <1>1, ChosenNone
<1> QED
  BY <1>2 DEF Fends, s, P

\* The FENDs of two sequences of bytes are those of the first and, that much
\* farther on, those of the second.
LEMMA FendsConcat ==
  ASSUME NEW a \in Seq(Byte), NEW b \in Seq(Byte)
  PROVE  Fends(a \o b) = Fends(a) \o Moved(Fends(b), Len(a))
<1> DEFINE u == a \o b
           P == {i \in 1..Len(u) : u[i] = FEND}
           Pa == {i \in 1..Len(a) : a[i] = FEND}
           Q == {i \in 1..Len(b) : b[i] = FEND}
<1>1. Len(a) \in Nat /\ Len(b) \in Nat /\ u \in Seq(Byte) /\ Len(u) = Len(a) + Len(b)
  BY ConcatProperties
<1>2. \A i \in 1..Len(a) + Len(b) : u[i] = IF i <= Len(a) THEN a[i] ELSE b[i - Len(a)]
  BY ConcatProperties, Zenon
<1> HIDE DEF u
<1>3. \A k \in 1..Len(a) : k \in P <=> k \in Pa
  BY <1>1, <1>2
<1>4. \A k \in 1..Len(b) : k \in Q <=> Len(a) + k \in P
  <2> TAKE k \in 1..Len(b)
  <2>1. Len(a) + k \in 1..Len(u) /\ ~(Len(a) + k <= Len(a)) /\ (Len(a) + k) - Len(a) = k
    BY <1>1
  <2>2. u[Len(a) + k] = b[k]
    BY <1>1, <1>2, <2>1
  <2> QED
    BY <2>1, <2>2
<1> DEFINE n == Len(a)
           m == Len(b)
           s == Numbers(n)
           t == Numbers(m)
           v == Moved(t, n)
<1>5. s \in Seq(Nat) /\ Len(s) = n /\ \A i \in 1..n : s[i] = i
  BY <1>1, NumbersType
<1>6. t \in Seq(Nat) /\ Len(t) = m /\ \A i \in 1..m : t[i] = i
  BY <1>1, NumbersType
<1>7. v \in Seq(Nat) /\ Len(v) = m /\ \A i \in 1..m : v[i] = n + i
  <2>1. v \in Seq(Nat) /\ Len(v) = m
    BY <1>1, <1>6, MovedType
  <2> QED
    BY <1>6, <2>1 DEF Moved
<1>8. Numbers(n + m) = s \o v
  <2> DEFINE w == Numbers(n + m)
             x == s \o v
             T == Nat
  <2>1. w \in Seq(T) /\ Len(w) = n + m /\ \A i \in 1..n + m : w[i] = i
    BY <1>1, NumbersType
  <2>2. s \in Seq(T) /\ v \in Seq(T)
    BY <1>5, <1>7
  <2> HIDE DEF s, v, w, T, n, m
  <2>3. x \in Seq(T) /\ Len(x) = Len(s) + Len(v)
    BY <2>2, ConcatProperties, Zenon
  <2>4. \A i \in 1..Len(s) + Len(v) : x[i] = IF i <= Len(s) THEN s[i] ELSE v[i - Len(s)]
    BY <2>2, ConcatProperties, Zenon
  <2> HIDE DEF x
  <2>5. n \in Nat /\ m \in Nat
    BY <1>1 DEF n, m
  <2>6. \A i \in 1..n + m : x[i] = w[i]
    <3> TAKE i \in 1..n + m
    <3>1. CASE i <= n
      BY <1>5, <1>7, <2>1, <2>4, <2>5, <3>1
    <3>2. CASE ~(i <= n)
      <4>1. i - n \in 1..m
        BY <2>5, <3>2
      <4> QED
        BY <1>5, <1>7, <2>1, <2>4, <2>5, <3>2, <4>1
    <3> QED
      BY <3>1, <3>2
  <2>7. Len(x) = Len(w) /\ \A i \in 1..Len(x) : x[i] = w[i]
    BY <1>5, <1>7, <2>1, <2>3, <2>5, <2>6
  <2>8. x = w
    BY <2>1, <2>3, <2>7, SeqEqual
  <2> QED
    BY <2>8 DEF w, x
<1> HIDE DEF s, t, v, P, Pa, Q
<1>9. Chosen(s \o v, P) = Chosen(s, P) \o Chosen(v, Q)
  <2>1. \A k \in 1..Len(v) : k \in Q <=> Len(s) + k \in P
    BY <1>4, <1>5, <1>7
  <2> DEFINE T == Nat
  <2>2. s \in Seq(T) /\ v \in Seq(T)
    BY <1>5, <1>7
  <2> HIDE DEF n, m, T
  <2> QED
    BY <2>1, <2>2, ChosenConcat
<1>10. Chosen(s, P) = Chosen(s, Pa)
  <2>1. \A k \in 1..Len(s) : (k \in P <=> k \in Pa) /\ (k \in P => s[k] = s[k])
    BY <1>3, <1>5
  <2> HIDE DEF n, m
  <2> QED
    BY <1>5, <2>1, ChosenSame
<1>11. Chosen(v, Q) = Moved(Chosen(t, Q), n)
  BY <1>1, <1>6, ChosenMoved DEF v
<1>12. Fends(u) = Chosen(s \o v, P)
  BY <1>1, <1>8 DEF Fends, P
<1>13. Fends(a) = Chosen(s, Pa) /\ Fends(b) = Chosen(t, Q)
  BY DEF Fends, Pa, Q, s, t
<1> QED
  BY <1>9, <1>10, <1>11, <1>12, <1>13 DEF u

-----------------------------------------------------------------------------
(* What kiss_encode() writes.                                              *)

Special(b) == b \in {FEND, FESC}
Transposed(b) == IF b = FEND THEN TFEND ELSE TFESC

\* A FEND and a FESC are escaped to two bytes, any other to itself, none of them a FEND.
LEMMA EscapeIs ==
  ASSUME NEW b \in Byte
  PROVE  /\ Escape(b) = IF Special(b) THEN <<FESC, Transposed(b)>> ELSE <<b>>
         /\ Escape(b) \in Seq(Byte)
         /\ Len(Escape(b)) = IF Special(b) THEN 2 ELSE 1
         /\ \A i \in 1..Len(Escape(b)) : Escape(b)[i] # FEND
<1>1. Escape(b) = IF Special(b) THEN <<FESC, Transposed(b)>> ELSE <<b>>
  BY DEF Escape, Special, Transposed, FEND, FESC
<1>2. /\ FESC \in Byte /\ Transposed(b) \in Byte
      /\ FESC # FEND /\ Transposed(b) # FEND /\ (~Special(b) => b # FEND)
  BY DEF Byte, Special, Transposed, FEND, FESC, TFEND, TFESC
<1> QED
  BY <1>1, <1>2

\* The bytes that are written before each byte of the data, and after the last.
Coding(data, dst) ==
    /\ dst \in [0..Len(data) -> Seq(Byte)]
    /\ dst[0] = <<FEND, 0>>
    /\ \A k \in 1..Len(data) : dst[k] = dst[k - 1] \o Escape(data[k])

\* KissEncode closes the last of the sequences its loop builds with a FEND.
LEMMA EncodeRounds ==
  ASSUME NEW data \in Seq(Byte)
  PROVE  \E dst : Coding(data, dst) /\ KissEncode(data) = Append(dst[Len(data)], FEND)
<1> DEFINE n == Len(data)
           T == Seq(Byte)
           Round(v, k) == v \o Escape(data[k])
           step == [vi \in T \X (1..n) |-> Round(vi[1], vi[2])]
           Is(f) == f = [k \in 0..n |-> IF k = 0 THEN <<FEND, 0>> ELSE f[k - 1] \o Escape(data[k])]
<1>1. n \in Nat /\ <<FEND, 0>> \in T /\ \A k \in 1..n : data[k] \in Byte
  <2>1. FEND \in Byte /\ 0 \in Byte
    BY DEF FEND, Byte
  <2> QED
    BY <2>1
<1>2. \A v \in T, k \in 1..n : Round(v, k) \in T
  <2> TAKE v \in T, k \in 1..n
  <2>1. v \in Seq(Byte) /\ Escape(data[k]) \in Seq(Byte)
    BY <1>1, EscapeIs
  <2> DEFINE w == Escape(data[k])
  <2> HIDE DEF w
  <2>2. v \o w \in Seq(Byte)
    BY <2>1, ConcatProperties DEF w
  <2> QED
    BY <2>2 DEF w
<1> HIDE DEF n, T, Round
<1>3. step \in [T \X (1..n) -> T]
  BY <1>2
<1>4. \E g : Recurs(g, n, T, <<FEND, 0>>, step)
  <2> HIDE DEF step
  <2> QED
    BY <1>1, <1>3, RecursionDefines
<1>5. PICK g \in [0..n -> T] : \A i \in 0..n : g[i] = IF i = 0 THEN <<FEND, 0>> ELSE step[<<g[i - 1], i>>]
  <2> HIDE DEF step
  <2> QED
    BY <1>4 DEF Recurs
<1>6. Is(g)
  <2>1. ASSUME NEW i \in 0..n PROVE g[i] = IF i = 0 THEN <<FEND, 0>> ELSE Round(g[i - 1], i)
    <3>1. CASE i = 0
      BY <1>5, <3>1
    <3>2. CASE i # 0
      <4>1. i \in 1..n /\ g[i - 1] \in T
        <5>1. i \in 1..n /\ i - 1 \in 0..n
          BY <1>1, <3>2
        <5>2. g \in [0..n -> T]
          BY <1>5, Zenon
        <5> QED
          BY <5>1, <5>2, Zenon
      <4> QED
        BY <1>5, <3>2, <4>1
    <3> QED
      BY <3>1, <3>2
  <2> QED
    BY <2>1 DEF Round
<1> DEFINE f == CHOOSE h : Is(h)
<1>7. Is(f)
  BY <1>6
<1>8. KissEncode(data) = Append(f[n], FEND)
  BY DEF KissEncode, n
<1> HIDE DEF f
<1>9. \A k \in 0..n : f[k] = IF k = 0 THEN <<FEND, 0>> ELSE Round(f[k - 1], k)
  BY <1>7, Zenon DEF Round
<1>10. f = [k \in 0..n |-> f[k]]
  BY <1>7
<1> DEFINE S == {k \in 0..n : f[k] \in T}
<1>11. f[0] = <<FEND, 0>>
  <2>1. 0 \in 0..n
    BY <1>1
  <2> QED
    BY <1>9, <2>1, Zenon
<1>12. 0 \in S
  BY <1>1, <1>11
<1>13. ASSUME NEW k \in 1..n, k - 1 \in S PROVE k \in S
  <2>1. k \in 0..n /\ k # 0 /\ f[k - 1] \in T
    BY <1>1, <1>13
  <2>2. f[k] = Round(f[k - 1], k)
    BY <1>9, <2>1
  <2> QED
    BY <1>2, <2>1, <2>2
<1> HIDE DEF S
<1>14. 0..n \subseteq S
  BY <1>1, <1>12, <1>13, UpTo
<1>15. f \in [0..n -> T]
  BY <1>10, <1>14 DEF S
<1>16. Coding(data, f)
  <2>1. \A k \in 1..n : k \in 0..n /\ k # 0
    BY <1>1
  <2>2. \A k \in 1..n : f[k] = f[k - 1] \o Escape(data[k])
    BY <1>9, <2>1, Zenon DEF Round
  <2> QED
    BY <1>11, <1>15, <2>2 DEF Coding, n, T
<1> QED
  BY <1>8, <1>16 DEF n

\* Every byte of the data stands at its place of the frame, by itself or
\* escaped; at[k] is the place behind which byte k + 1 begins.
Framed(data, e, at) ==
    /\ at \in [0..Len(data) -> Nat] /\ at[0] = 2
    /\ e \in Seq(Byte) /\ Len(e) = at[Len(data)] + 1
    /\ e[1] = FEND /\ e[2] = 0 /\ e[Len(e)] = FEND
    /\ \A i \in 2..Len(e) - 1 : e[i] # FEND
    /\ \A k \in 1..Len(data) :
         /\ at[k - 1] \in 2..at[k] /\ at[k] <= at[Len(data)]
         /\ IF Special(data[k])
              THEN /\ at[k] = at[k - 1] + 2
                   /\ e[at[k - 1] + 1] = FESC /\ e[at[k - 1] + 2] = Transposed(data[k])
              ELSE at[k] = at[k - 1] + 1 /\ e[at[k]] = data[k]

\* KissEncode(data) is framed: each byte of data is at a known place in it.
LEMMA EncodeFrames ==
  ASSUME NEW data \in Seq(Byte)
  PROVE  \E at : Framed(data, KissEncode(data), at)
<1>1. PICK dst : Coding(data, dst) /\ KissEncode(data) = Append(dst[Len(data)], FEND)
  BY EncodeRounds
<1>2. PICK n \in Nat : n = Len(data)
  OBVIOUS
<1>3. /\ \A k \in 0..n : dst[k] \in Seq(Byte) /\ Len(dst[k]) \in Nat
      /\ dst[0] = <<FEND, 0>>
      /\ \A k \in 1..n : dst[k] = dst[k - 1] \o Escape(data[k])
  <2>1. dst \in [0..n -> Seq(Byte)]
    BY <1>1, <1>2 DEF Coding
  <2>2. \A k \in 0..n : dst[k] \in Seq(Byte)
    BY <2>1
  <2>3. \A k \in 0..n : Len(dst[k]) \in Nat
    BY <2>2, Elements
  <2> QED
    BY <1>1, <1>2, <2>2, <2>3 DEF Coding
<1>4. \A k \in 1..n : data[k] \in Byte
  BY <1>2
<1> DEFINE Begins(k) == /\ Len(dst[k]) >= 2 /\ dst[k][1] = FEND /\ dst[k][2] = 0
                        /\ \A i \in 2..Len(dst[k]) : dst[k][i] # FEND
           Extends(k) == \A j \in 0..k : /\ Len(dst[j]) <= Len(dst[k])
                                         /\ \A i \in 1..Len(dst[j]) : dst[k][i] = dst[j][i]
           S == {k \in 0..n : Begins(k) /\ Extends(k)}
<1>5. 0 \in S
  <2>1. 0 \in 0..n /\ 0..0 = {0}
    OBVIOUS
  <2>2. Begins(0)
    <3>1. Len(<<FEND, 0>>) = 2 /\ <<FEND, 0>>[1] = FEND /\ <<FEND, 0>>[2] = 0 /\ 0 # FEND
      BY DEF FEND
    <3>2. Len(dst[0]) = 2 /\ dst[0][1] = FEND /\ dst[0][2] = 0
      BY <1>3, <3>1
    <3>3. 2..2 = {2}
      OBVIOUS
    <3> QED
      BY <3>1, <3>2, <3>3
  <2>3. Extends(0)
    <3>1. PICK l \in Nat : l = Len(dst[0])
      BY <1>3, <2>1
    <3>2. \A j \in 0..0 : j = 0
      OBVIOUS
    <3>3. l <= Len(dst[0])
      BY <3>1
    <3> QED
      BY <3>1, <3>2, <3>3, Zenon
  <2> QED
    BY <2>1, <2>2, <2>3
<1>6. ASSUME NEW k \in 1..n
      PROVE  /\ Len(dst[k]) = Len(dst[k - 1]) + Len(Escape(data[k]))
             /\ \A i \in 1..Len(dst[k - 1]) : dst[k][i] = dst[k - 1][i]
             /\ \A i \in 1..Len(Escape(data[k])) : dst[k][Len(dst[k - 1]) + i] = Escape(data[k])[i]
  <2> DEFINE a == dst[k - 1]
             b == Escape(data[k])
             T == Byte
  <2>1. k - 1 \in 0..n /\ a \in Seq(T) /\ b \in Seq(T)
    BY <1>3, <1>4, EscapeIs
  <2>2. dst[k] = a \o b
    BY <1>3
  <2> HIDE DEF a, b, T
  <2>3. /\ Len(a \o b) = Len(a) + Len(b)
        /\ \A i \in 1..Len(a) : (a \o b)[i] = a[i]
        /\ \A i \in 1..Len(b) : (a \o b)[Len(a) + i] = b[i]
    BY <2>1, Concatenated
  <2> QED
    BY <2>2, <2>3 DEF a, b
<1>7. ASSUME NEW k \in 1..n, k - 1 \in S PROVE k \in S
  <2>1. k - 1 \in 0..n /\ k \in 0..n /\ Len(dst[k - 1]) \in Nat /\ Begins(k - 1) /\ Extends(k - 1)
    <3>1. k - 1 \in 0..n /\ k \in 0..n
      OBVIOUS
    <3> HIDE DEF Begins, Extends
    <3>2. Begins(k - 1) /\ Extends(k - 1)
      BY <1>7
    <3> QED
      BY <1>3, <3>1, <3>2
  <2>2. Len(Escape(data[k])) \in {1, 2} /\ \A i \in 1..Len(Escape(data[k])) : Escape(data[k])[i] # FEND
    BY <1>4, EscapeIs
  <2>3. PICK l \in Nat : l = Len(dst[k - 1])
    BY <2>1
  <2>4. PICK m \in {1, 2} : m = Len(Escape(data[k]))
    BY <2>2
  <2>5. /\ Len(dst[k]) = l + m
        /\ \A i \in 1..l : dst[k][i] = dst[k - 1][i]
        /\ \A i \in 1..m : dst[k][l + i] = Escape(data[k])[i]
    BY <1>6, <2>3, <2>4
  <2>6. \A i \in 2..l + m : dst[k][i] # FEND
    <3> TAKE i \in 2..l + m
    <3>1. CASE i <= l
      <4>1. i \in 1..l /\ i \in 2..Len(dst[k - 1])
        BY <2>3, <3>1
      <4>2. dst[k][i] = dst[k - 1][i] /\ dst[k - 1][i] # FEND
        BY <2>1, <2>5, <4>1, Zenon
      <4> QED
        BY <4>2
    <3>2. CASE ~(i <= l)
      <4>1. PICK j \in 1..m : l + j = i
        <5>1. i - l \in 1..m /\ l + (i - l) = i
          BY <3>2
        <5> QED
          BY <5>1
      <4>2. Escape(data[k])[j] # FEND
        BY <2>2, <2>4
      <4>3. dst[k][l + j] = Escape(data[k])[j]
        BY <2>5
      <4> QED
        BY <4>1, <4>2, <4>3
    <3> QED
      BY <3>1, <3>2
  <2>7. Begins(k)
    <3>1. l >= 2 /\ 1 \in 1..l /\ 2 \in 1..l
      BY <2>1, <2>3
    <3>2. dst[k][1] = FEND /\ dst[k][2] = 0
      BY <2>1, <2>5, <3>1
    <3> QED
      BY <2>5, <2>6, <3>1, <3>2
  <2>8. Extends(k)
    <3> SUFFICES ASSUME NEW j \in 0..k
                 PROVE  Len(dst[j]) <= Len(dst[k]) /\ \A i \in 1..Len(dst[j]) : dst[k][i] = dst[j][i]
      OBVIOUS
    <3>1. CASE j = k
      BY <1>3, <2>1, <3>1
    <3>2. CASE j # k
      <4>1. j \in 0..k - 1 /\ Len(dst[j]) \in Nat
        BY <1>3, <3>2
      <4>2. Len(dst[j]) <= l /\ \A i \in 1..Len(dst[j]) : dst[k - 1][i] = dst[j][i]
        BY <2>1, <2>3, <4>1
      <4> QED
        BY <2>5, <4>1, <4>2
    <3> QED
      BY <3>1, <3>2
  <2> QED
    BY <2>1, <2>7, <2>8
<1> HIDE DEF S
<1>8. 0..n \subseteq S
  BY <1>5, <1>7, UpTo
<1>9. Begins(n) /\ Extends(n) /\ \A k \in 0..n : Begins(k)
  BY <1>8 DEF S
<1> DEFINE at == [k \in 0..n |-> Len(dst[k])]
           e == KissEncode(data)
           d == dst[n]
<1>10. d \in Seq(Byte) /\ FEND \in Byte /\ e = Append(d, FEND)
  BY <1>1, <1>2, <1>3 DEF FEND, Byte
<1>11. /\ e \in Seq(Byte) /\ Len(e) = Len(d) + 1 /\ e[Len(d) + 1] = FEND
       /\ \A i \in 1..Len(d) : e[i] = d[i]
  <2> HIDE DEF e, d
  <2> QED
    BY <1>10, Appended
<1>12. at \in [0..n -> Nat] /\ at[0] = 2 /\ Len(d) = at[n] /\ \A k \in 0..n : at[k] = Len(dst[k])
  <2>1. 0 \in 0..n /\ n \in 0..n
    OBVIOUS
  <2>2. Len(dst[0]) = 2
    BY <1>3
  <2> QED
    BY <1>3, <2>1, <2>2
<1> HIDE DEF e
<1>13. /\ e[1] = FEND /\ e[2] = 0 /\ e[Len(e)] = FEND
       /\ \A i \in 2..Len(e) - 1 : e[i] # FEND
  <2>1. Len(d) \in Nat /\ Len(d) >= 2 /\ d[1] = FEND /\ d[2] = 0 /\ \A i \in 2..Len(d) : d[i] # FEND
    BY <1>9, <1>10
  <2> HIDE DEF d
  <2>2. 1 \in 1..Len(d) /\ 2 \in 1..Len(d) /\ Len(e) - 1 = Len(d)
    BY <1>11, <2>1
  <2> QED
    BY <1>11, <2>1, <2>2
<1>14. ASSUME NEW k \in 1..n
       PROVE  /\ at[k - 1] \in 2..at[k] /\ at[k] <= at[n]
              /\ IF Special(data[k])
                   THEN /\ at[k] = at[k - 1] + 2
                        /\ e[at[k - 1] + 1] = FESC /\ e[at[k - 1] + 2] = Transposed(data[k])
                   ELSE at[k] = at[k - 1] + 1 /\ e[at[k]] = data[k]
  <2>1. k \in 0..n /\ k - 1 \in 0..n /\ n \in 0..n
    OBVIOUS
  <2>2. /\ Len(dst[k - 1]) >= 2 /\ Len(dst[k]) <= Len(d)
        /\ \A i \in 1..Len(dst[k]) : d[i] = dst[k][i]
    BY <1>9, <2>1
  <2>3. PICK l \in Nat : l = Len(dst[k - 1]) /\ l = at[k - 1]
    BY <1>3, <1>12, <2>1
  <2>4. /\ Escape(data[k]) = (IF Special(data[k]) THEN <<FESC, Transposed(data[k])>> ELSE <<data[k]>>)
        /\ Len(Escape(data[k])) = IF Special(data[k]) THEN 2 ELSE 1
    BY <1>4, EscapeIs
  <2>5. PICK m \in {1, 2} : m = Len(Escape(data[k]))
    BY <2>4
  <2>6. Len(dst[k]) = l + m /\ at[k] = l + m /\ \A i \in 1..m : dst[k][l + i] = Escape(data[k])[i]
    BY <1>6, <1>12, <2>1, <2>3, <2>5
  <2>7. \A i \in 1..m : e[l + i] = Escape(data[k])[i]
    <3> TAKE i \in 1..m
    <3>1. l + i \in 1..Len(dst[k]) /\ l + i \in 1..Len(d)
      BY <1>12, <2>1, <2>2, <2>6
    <3> QED
      BY <1>11, <2>2, <2>6, <3>1
  <2>8. at[k - 1] \in 2..at[k] /\ at[k] <= at[n]
    BY <1>12, <2>1, <2>2, <2>3, <2>6
  <2>9. CASE Special(data[k])
    <3>1. m = 2 /\ Escape(data[k])[1] = FESC /\ Escape(data[k])[2] = Transposed(data[k])
      BY <2>4, <2>5, <2>9
    <3>2. 1 \in 1..m /\ 2 \in 1..m
      BY <3>1
    <3>3. e[l + 1] = FESC /\ e[l + 2] = Transposed(data[k])
      BY <2>7, <3>1, <3>2
    <3> QED
      BY <2>3, <2>6, <2>8, <2>9, <3>1, <3>3
  <2>10. CASE ~Special(data[k])
    <3>1. m = 1 /\ Escape(data[k])[1] = data[k]
      BY <2>4, <2>5, <2>10
    <3>2. e[l + 1] = data[k]
      BY <2>7, <3>1
    <3> QED
      BY <2>3, <2>6, <2>8, <2>10, <3>1, <3>2
  <2> QED
    BY <2>9, <2>10
<1>15. Framed(data, e, at)
  <2> HIDE DEF at
  <2> QED
    BY <1>2, <1>11, <1>12, <1>13, <1>14 DEF Framed
<1> QED
  BY <1>15 DEF e

\* It has its two FENDs at its ends.
LEMMA FendsOne == Fends(<<FEND>>) = <<1>>
<1> DEFINE s == <<1>>
           P == {i \in 1..1 : <<FEND>>[i] = FEND}
           T == Nat
<1>1. Numbers(1) = s
  <2>1. 1 \in Nat
    OBVIOUS
  <2> QED
    BY <2>1 DEF Numbers
<1>2. Len(<<FEND>>) = 1 /\ 1 \in P
  OBVIOUS
<1>3. Fends(<<FEND>>) = Chosen(s, P)
  BY <1>1, <1>2 DEF Fends
<1>4. s = Append(<<>>, 1) /\ <<>> \in Seq(T) /\ 1 \in T /\ Len(<<>>) + 1 = 1
  OBVIOUS
<1> HIDE DEF P, T
<1>5. Chosen(Append(<<>>, 1), P) = IF Len(<<>>) + 1 \in P THEN Append(Chosen(<<>>, P), 1) ELSE Chosen(<<>>, P)
  <2> DEFINE z == <<>>
             a == 1
  <2>1. z \in Seq(T) /\ a \in T
    BY <1>4
  <2> HIDE DEF z, a
  <2>2. Chosen(Append(z, a), P) = IF Len(z) + 1 \in P THEN Append(Chosen(z, P), a) ELSE Chosen(z, P)
    BY <2>1, ChosenAppend
  <2> QED
    BY <2>2 DEF z, a
<1>6. Chosen(<<>>, P) = <<>>
  BY ChosenEmpty
<1> QED
  BY <1>2, <1>3, <1>4, <1>5, <1>6

\* The only FENDs of an encoded packet are its first byte and its last.
LEMMA EncodeFends ==
  ASSUME NEW data \in Seq(Byte)
  PROVE  /\ KissEncode(data) \in Seq(Byte)
         /\ Len(KissEncode(data)) \in Nat /\ Len(KissEncode(data)) >= 3
         /\ Fends(KissEncode(data)) = <<1, Len(KissEncode(data))>>
<1> DEFINE e == KissEncode(data)
<1>1. PICK at : Framed(data, e, at)
  BY EncodeFrames
<1> HIDE DEF e
<1>2. /\ e \in Seq(Byte) /\ e[1] = FEND /\ e[Len(e)] = FEND /\ Len(e) = at[Len(data)] + 1
      /\ \A i \in 2..Len(e) - 1 : e[i] # FEND
  BY <1>1 DEF Framed
<1>3. PICK l \in Nat : l = Len(e) /\ l >= 3
  <2>9. at[Len(data)] \in Int
    <3>1. at \in [0..Len(data) -> Nat] /\ Len(data) \in 0..Len(data)
      BY <1>1 DEF Framed
    <3> QED
      BY <3>1
  <2>1. at[Len(data)] >= 2
    <3>1. CASE Len(data) = 0
      BY <1>1, <3>1 DEF Framed
    <3>2. CASE Len(data) # 0
      <4>1. Len(data) \in 1..Len(data)
        BY <3>2
      <4>2. at[Len(data) - 1] \in 2..at[Len(data)]
        BY <1>1, <4>1 DEF Framed
      <4> QED
        BY <2>9, <4>2
    <3> QED
      BY <3>1, <3>2
  <2>2. Len(e) \in Nat
    BY <1>2
  <2> QED
    BY <1>2, <2>9, <2>1, <2>2
<1> DEFINE one == <<FEND>>
           mid == SubSeq(e, 2, l - 1)
           a == one \o mid
           T == Byte
<1>4. one \in Seq(T) /\ Len(one) = 1 /\ one[1] = FEND
  BY DEF FEND, Byte
<1>5. mid \in Seq(T) /\ Len(mid) = l - 2 /\ \A i \in 1..l - 2 : mid[i] = e[i + 1]
  <2>1. 2 \in Nat /\ l - 1 \in Nat /\ 2 <= l - 1 /\ l - 1 <= Len(e) /\ e \in Seq(Byte)
    BY <1>2, <1>3
  <2>2. mid \in Seq(Byte)
    BY <2>1, SubSeqType
  <2>3. Len(mid) = (l - 1) - 2 + 1
    BY <2>1, SubSeqType
  <2>4. \A i \in 1..(l - 1) - 2 + 1 : mid[i] = e[2 + i - 1]
    BY <2>1, SubSeqType
  <2> HIDE DEF mid
  <2> QED
    BY <1>3, <2>2, <2>3, <2>4
<1> HIDE DEF one, mid, T
<1>6. /\ a \in Seq(T) /\ Len(a) = Len(one) + Len(mid)
      /\ \A i \in 1..Len(one) : a[i] = one[i]
      /\ \A i \in 1..Len(mid) : a[Len(one) + i] = mid[i]
  <2>1. one \in Seq(T) /\ mid \in Seq(T)
    BY <1>4, <1>5
  <2> QED
    BY <2>1, Concatenated
<1> HIDE DEF a
<1>7. /\ a \o one \in Seq(T) /\ Len(a \o one) = Len(a) + Len(one)
      /\ \A i \in 1..Len(a) : (a \o one)[i] = a[i]
      /\ \A i \in 1..Len(one) : (a \o one)[Len(a) + i] = one[i]
  <2>1. one \in Seq(T) /\ a \in Seq(T)
    BY <1>4, <1>6
  <2> QED
    BY <2>1, Concatenated
<1> DEFINE u == a \o one
<1> HIDE DEF u
<1>8. Len(u) = l /\ Len(a) = l - 1
  BY <1>3, <1>4, <1>5, <1>6, <1>7 DEF u
<1>9. \A i \in 1..l : u[i] = e[i]
  <2> TAKE i \in 1..l
  <2>1. CASE i = 1
    <3>1. 1 \in 1..Len(a) /\ 1 \in 1..Len(one)
      BY <1>3, <1>4, <1>8
    <3> QED
      BY <1>2, <1>4, <1>6, <1>7, <2>1, <3>1 DEF u
  <2>2. CASE i \in 2..l - 1
    <3>1. i \in 1..Len(a) /\ i - 1 \in 1..Len(mid) /\ i - 1 \in 1..l - 2 /\ 1 + (i - 1) = i /\ (i - 1) + 1 = i
      BY <1>3, <1>5, <1>8, <2>2
    <3>2. a[i] = mid[i - 1]
      BY <1>4, <1>6, <3>1
    <3> QED
      BY <1>5, <1>7, <3>1, <3>2 DEF u
  <2>3. CASE i = l
    <3>1. Len(a) + 1 = l /\ 1 \in 1..Len(one)
      BY <1>3, <1>4, <1>8
    <3> QED
      BY <1>2, <1>3, <1>4, <1>7, <2>3, <3>1 DEF u
  <2> QED
    BY <1>3, <2>1, <2>2, <2>3
<1>10. e = u
  <2>1. Len(e) = Len(u) /\ \A i \in 1..Len(e) : e[i] = u[i]
    BY <1>3, <1>8, <1>9
  <2>2. e \in Seq(T)
    BY <1>2, Zenon DEF T
  <2>3. u \in Seq(T)
    BY <1>7, Zenon DEF u
  <2> QED
    BY <2>1, <2>2, <2>3, SeqEqual
<1>11. Fends(mid) = <<>>
  <2>1. mid \in Seq(Byte)
    BY <1>5, Zenon DEF T
  <2>2. ASSUME NEW i \in 1..Len(mid) PROVE mid[i] # FEND
    <3>1. i \in 1..l - 2
      BY <1>5, <2>2
    <3>2. mid[i] = e[i + 1]
      BY <1>5, <3>1, Zenon
    <3>3. i + 1 \in 2..l - 1
      BY <1>3, <3>1
    <3>4. e[i + 1] # FEND
      BY <1>2, <1>3, <3>3
    <3> QED
      BY <3>2, <3>4, Zenon
  <2> QED
    BY <2>1, <2>2, FendsNone
<1>12. Fends(a) = <<1>>
  <2>1. Fends(a) = Fends(one) \o Moved(Fends(mid), Len(one))
    BY <1>4, <1>5, FendsConcat DEF T, a
  <2>2. Moved(<<>>, Len(one)) = <<>>
    BY DEF Moved
  <2>3. <<1>> \o <<>> = <<1>>
    OBVIOUS
  <2> QED
    BY <1>11, <2>1, <2>2, <2>3, FendsOne DEF one
<1>13. Fends(u) = <<1>> \o Moved(<<1>>, Len(a))
  <2>1. Fends(u) = Fends(a) \o Moved(Fends(one), Len(a))
    BY <1>4, <1>6, FendsConcat DEF T, u
  <2> QED
    BY <1>12, <2>1, FendsOne DEF one
<1>14. Moved(<<1>>, Len(a)) = <<l>>
  <2>1. Len(a) + 1 = l
    BY <1>3, <1>8
  <2> QED
    BY <2>1 DEF Moved
<1>15. Fends(e) = <<1, Len(e)>>
  <2>1. <<1>> \o <<l>> = <<1, l>>
    <3> DEFINE x == <<1>>
               y == <<l>>
               z == <<1, l>>
               N == Nat
    <3>1. x \in Seq(N) /\ Len(x) = 1 /\ x[1] = 1
      OBVIOUS
    <3>2. y \in Seq(N) /\ Len(y) = 1 /\ y[1] = l
      OBVIOUS
    <3>3. z \in Seq(N) /\ Len(z) = 2 /\ z[1] = 1 /\ z[2] = l
      OBVIOUS
    <3> HIDE DEF x, y, z, N
    <3>4. /\ x \o y \in Seq(N) /\ Len(x \o y) = Len(x) + Len(y)
          /\ \A i \in 1..Len(x) : (x \o y)[i] = x[i]
          /\ \A i \in 1..Len(y) : (x \o y)[Len(x) + i] = y[i]
      <4>1. x \in Seq(N) /\ y \in Seq(N)
        BY <3>1, <3>2
      <4> QED
        BY <4>1, Concatenated
    <3>5. Len(x \o y) = 2 /\ (x \o y)[1] = 1 /\ (x \o y)[1 + 1] = l
      BY <3>1, <3>2, <3>4
    <3>6. Len(x \o y) = Len(z) /\ \A i \in 1..Len(x \o y) : (x \o y)[i] = z[i]
      BY <3>3, <3>5
    <3>7. x \o y = z
      BY <3>3, <3>4, <3>6, SeqEqual
    <3> QED
      BY <3>7 DEF x, y, z
  <2> QED
    BY <1>3, <1>10, <1>13, <1>14, <2>1
<1> QED
  BY <1>2, <1>3, <1>15 DEF e

\* A prefix is the one that is shorter by one and one more element.
LEMMA OneMore ==
  ASSUME NEW T, NEW s \in Seq(T), NEW k \in 1..Len(s)
  PROVE  SubSeq(s, 1, k) = Append(SubSeq(s, 1, k - 1), s[k])
<1> DEFINE a == SubSeq(s, 1, k)
           b == SubSeq(s, 1, k - 1)
<1>1. Len(s) \in Nat /\ k \in Nat /\ k - 1 \in Nat /\ 1 <= k /\ k <= Len(s) /\ k - 1 <= Len(s) /\ s[k] \in T
  OBVIOUS
<1>2. a \in Seq(T) /\ Len(a) = k /\ \A i \in 1..k : a[i] = s[i]
  BY <1>1
<1>3. b \in Seq(T) /\ Len(b) = k - 1 /\ \A i \in 1..k - 1 : b[i] = s[i]
  BY <1>1
<1> HIDE DEF a, b
<1> DEFINE e == s[k]
           v == Append(b, e)
<1>4. e \in T
  BY <1>1
<1> HIDE DEF e
<1>5. v \in Seq(T) /\ Len(v) = Len(b) + 1 /\ (\A i \in 1..Len(b) : v[i] = b[i]) /\ v[Len(b) + 1] = e
  BY <1>3, <1>4, Appended
<1> HIDE DEF v
<1>6. \A i \in 1..k : a[i] = v[i]
  <2> TAKE i \in 1..k
  <2>1. CASE i = k
    BY <1>1, <1>2, <1>3, <1>5, <2>1 DEF e
  <2>2. CASE i \in 1..k - 1
    BY <1>1, <1>2, <1>3, <1>5, <2>2
  <2> QED
    BY <1>1, <2>1, <2>2
<1>7. a = v
  <2>1. Len(a) = Len(v) /\ \A i \in 1..Len(a) : a[i] = v[i]
    BY <1>1, <1>2, <1>3, <1>5, <1>6
  <2> QED
    BY <1>2, <1>5, <2>1, SeqEqual
<1> QED
  BY <1>7 DEF a, b, e, v

-----------------------------------------------------------------------------
(* What kiss_decode() makes of it.                                         *)

DecoderState == [ok : BOOLEAN, escaped : BOOLEAN, data : Seq(Byte)]
DecoderStart == [ok |-> TRUE, escaped |-> FALSE, data |-> <<>>]

\* The decoder stays in its states.
LEMMA UnescapeType ==
  ASSUME NEW st \in DecoderState, NEW b \in Byte
  PROVE  Unescape(st, b) \in DecoderState
<1>1. FEND \in Byte /\ st.data \in Seq(Byte)
  BY DEF FEND, Byte, DecoderState
<1>2. Append(st.data, FEND) \in Seq(Byte) /\ Append(st.data, b) \in Seq(Byte)
  <2> DEFINE d == st.data
             T == Byte
  <2>1. d \in Seq(T) /\ b \in T /\ FEND \in T
    BY <1>1
  <2> HIDE DEF d, T
  <2>2. Append(d, FEND) \in Seq(T) /\ Append(d, b) \in Seq(T)
    BY <2>1, AppendProperties
  <2> QED
    BY <2>2 DEF d, T
<1> HIDE DEF Byte
<1>3. CASE ~st.ok
  BY <1>3 DEF Unescape
<1>4. CASE st.ok /\ st.escaped
  BY <1>2, <1>4 DEF Unescape, DecoderState
<1>5. CASE st.ok /\ ~st.escaped
  BY <1>2, <1>5 DEF Unescape, DecoderState
<1> QED
  BY <1>3, <1>4, <1>5

\* A decoder that has seen no FESC takes a byte as it is, or a FESC as the first of two.
LEMMA UnescapePlain ==
  ASSUME NEW st \in DecoderState, NEW b, st.ok, ~st.escaped, NEW u, u = Unescape(st, b)
  PROVE  IF b = FESC THEN u.ok /\ u.escaped /\ u.data = st.data
                     ELSE u.ok /\ ~u.escaped /\ u.data = Append(st.data, b)
<1> DEFINE more == Append(st.data, b)
<1>1. u = IF b = FESC THEN [st EXCEPT !.escaped = TRUE] ELSE [st EXCEPT !.data = more]
  BY DEF Unescape
<1> HIDE DEF more
<1> QED
  BY <1>1 DEF DecoderState, more

\* After a FESC it takes a TFEND for a FEND and refuses the frame otherwise.
LEMMA UnescapeSecond ==
  ASSUME NEW st \in DecoderState, NEW b, st.ok, st.escaped, NEW u, u = Unescape(st, b)
  PROVE  IF b = TFEND THEN u.ok /\ ~u.escaped /\ u.data = Append(st.data, FEND)
                      ELSE ~u.ok
<1> DEFINE more == Append(st.data, FEND)
<1>1. u = IF b = TFEND THEN [st EXCEPT !.escaped = FALSE, !.data = more]
                       ELSE [st EXCEPT !.ok = FALSE]
  BY DEF Unescape
<1> HIDE DEF more
<1> QED
  BY <1>1 DEF DecoderState, more

\* What has been decoded after each byte between the type and the last FEND.
Decoding(body, st) ==
    /\ st \in [0..Len(body) -> DecoderState]
    /\ st[0] = DecoderStart
    /\ \A k \in 1..Len(body) : st[k] = Unescape(st[k - 1], body[k])

\* KissDecode of a well delimited data frame is where the loop over its body ends.
LEMMA DecodeRounds ==
  ASSUME NEW frame \in Seq(Byte), Len(frame) >= 3, frame[1] = FEND, frame[Len(frame)] = FEND, frame[2] = 0
  PROVE  \E st : LET body == SubSeq(frame, 3, Len(frame) - 1)
                     end == st[Len(body)]
                 IN /\ Decoding(body, st)
                    /\ KissDecode(frame) = IF end.ok /\ ~end.escaped THEN Decoded(end.data) ELSE Rejected
<1> DEFINE body == SubSeq(frame, 3, Len(frame) - 1)
           n == Len(body)
           step == [vi \in DecoderState \X (1..n) |-> Unescape(vi[1], body[vi[2]])]
           Is(f) == f = [k \in 0..n |-> IF k = 0 THEN [ok |-> TRUE, escaped |-> FALSE, data |-> <<>>]
                                        ELSE Unescape(f[k - 1], body[k])]
           f == CHOOSE h : Is(h)
<1>1. body \in Seq(Byte)
  <2>1. 3 \in Nat /\ Len(frame) - 1 \in Nat /\ 1 <= 3 /\ Len(frame) - 1 <= Len(frame)
    OBVIOUS
  <2> QED
    BY <2>1, SubSeqType
<1>2. KissDecode(frame) = IF f[n].ok /\ ~f[n].escaped THEN Decoded(f[n].data) ELSE Rejected
  <2>1. Head(frame) = FEND /\ Last(frame) = FEND /\ frame[2] % 16 = 0 /\ ~(Len(frame) < 3)
    BY DEF Last
  <2> QED
    BY <2>1, Zenon DEF KissDecode
<1> HIDE DEF body
<1>3. n \in Nat /\ \A k \in 1..n : body[k] \in Byte
  BY <1>1, Elements
<1>4. DecoderStart \in DecoderState
  BY DEF DecoderStart, DecoderState
<1> HIDE DEF n
<1>5. step \in [DecoderState \X (1..n) -> DecoderState]
  BY <1>3, UnescapeType
<1>6. \E g : Recurs(g, n, DecoderState, DecoderStart, step)
  <2> HIDE DEF step
  <2> QED
    BY <1>3, <1>4, <1>5, RecursionDefines
<1>7. PICK g \in [0..n -> DecoderState] : \A i \in 0..n : g[i] = IF i = 0 THEN DecoderStart ELSE step[<<g[i - 1], i>>]
  <2> HIDE DEF step
  <2> QED
    BY <1>6 DEF Recurs
<1>8. Is(g)
  <2>1. ASSUME NEW i \in 0..n PROVE g[i] = IF i = 0 THEN DecoderStart ELSE Unescape(g[i - 1], body[i])
    <3>1. CASE i = 0
      BY <1>7, <3>1
    <3>2. CASE i # 0
      <4>1. i \in 1..n /\ g[i - 1] \in DecoderState
        <5>1. i \in 1..n /\ i - 1 \in 0..n
          BY <1>3, <3>2
        <5>2. g \in [0..n -> DecoderState]
          BY <1>7, Zenon
        <5> QED
          BY <5>1, <5>2, Zenon
      <4> QED
        BY <1>7, <3>2, <4>1
    <3> QED
      BY <3>1, <3>2
  <2> QED
    BY <2>1 DEF DecoderStart
<1>9. Is(f)
  BY <1>8
<1> HIDE DEF f
<1>10. \A k \in 0..n : f[k] = IF k = 0 THEN DecoderStart ELSE Unescape(f[k - 1], body[k])
  BY <1>9, Zenon DEF DecoderStart
<1>11. f = [k \in 0..n |-> f[k]]
  BY <1>9
<1> DEFINE S == {k \in 0..n : f[k] \in DecoderState}
<1>12. f[0] = DecoderStart
  <2>1. 0 \in 0..n
    BY <1>3
  <2> QED
    BY <1>10, <2>1, Zenon
<1>13. 0 \in S
  BY <1>3, <1>4, <1>12
<1>14. ASSUME NEW k \in 1..n, k - 1 \in S PROVE k \in S
  <2>1. k \in 0..n /\ k # 0 /\ f[k - 1] \in DecoderState
    BY <1>3, <1>14
  <2>2. f[k] = Unescape(f[k - 1], body[k])
    BY <1>10, <2>1
  <2> QED
    BY <1>3, <2>1, <2>2, UnescapeType
<1> HIDE DEF S
<1>15. 0..n \subseteq S
  BY <1>3, <1>13, <1>14, UpTo
<1>16. f \in [0..n -> DecoderState]
  BY <1>11, <1>15 DEF S
<1>17. Decoding(body, f)
  <2>1. \A k \in 1..n : k \in 0..n /\ k # 0
    BY <1>3
  <2>2. \A k \in 1..n : f[k] = Unescape(f[k - 1], body[k])
    BY <1>10, <2>1, Zenon
  <2> QED
    BY <1>12, <1>16, <2>2 DEF Decoding, n
<1> QED
  BY <1>2, <1>17 DEF n, body

\* A frame is decoded to the data that was encoded, unless it carries an FESC.
LEMMA DecodeOfEncode ==
  ASSUME NEW data \in Seq(Byte)
  PROVE  /\ KissDecode(KissEncode(data)).ok <=> \A i \in 1..Len(data) : data[i] # FESC
         /\ KissDecode(KissEncode(data)).ok => KissDecode(KissEncode(data)).data = data
         /\ ~KissDecode(KissEncode(data)).ok => KissDecode(KissEncode(data)).data = <<>>
<1> DEFINE e == KissEncode(data)
           body == SubSeq(e, 3, Len(e) - 1)
<1>1. PICK at : Framed(data, e, at)
  BY EncodeFrames
<1>2. e \in Seq(Byte) /\ Len(e) \in Nat /\ Len(e) >= 3
  BY EncodeFends
<1> HIDE DEF e
<1>3. e[1] = FEND /\ e[2] = 0 /\ e[Len(e)] = FEND
  BY <1>1 DEF Framed
<1>4. PICK st : /\ Decoding(body, st)
                /\ KissDecode(e) = IF st[Len(body)].ok /\ ~st[Len(body)].escaped
                                     THEN Decoded(st[Len(body)].data) ELSE Rejected
  BY <1>2, <1>3, DecodeRounds
<1>5. Len(body) = Len(e) - 3 /\ \A i \in 1..Len(e) - 3 : body[i] = e[i + 2]
  <2>1. 3 \in Nat /\ Len(e) - 1 \in Nat /\ 1 <= 3 /\ Len(e) - 1 <= Len(e) /\ (3 <= Len(e) - 1 \/ Len(e) = 3)
    <3>1. PICK l \in Nat : l = Len(e)
      BY <1>2
    <3> QED
      BY <1>2, <3>1
  <2>2. Len(body) = IF 3 <= Len(e) - 1 THEN (Len(e) - 1) - 3 + 1 ELSE 0
    BY <1>2, <2>1, SubSeqType
  <2>3. \A i \in 1..(Len(e) - 1) - 3 + 1 : body[i] = e[3 + i - 1]
    BY <1>2, <2>1, SubSeqType
  <2> HIDE DEF body
  <2> QED
    BY <1>2, <2>1, <2>2, <2>3
<1> HIDE DEF body
<1>6. PICK n \in Nat : n = Len(data)
  OBVIOUS
<1>7. PICK m \in Nat : m = Len(body) /\ m = Len(e) - 3 /\ m = at[n] - 2
  <2>1. Len(e) - 3 \in Nat /\ Len(e) = at[n] + 1
    BY <1>1, <1>2, <1>6 DEF Framed
  <2>2. at[n] \in Int
    <3>1. at \in [0..n -> Nat] /\ n \in 0..n
      BY <1>1, <1>6 DEF Framed
    <3> QED
      BY <3>1
  <2> QED
    BY <1>5, <2>1, <2>2
<1>8. /\ \A k \in 0..m : st[k] \in DecoderState
      /\ st[0] = DecoderStart
      /\ \A k \in 1..m : st[k] = Unescape(st[k - 1], e[k + 2])
  <2>1. st \in [0..m -> DecoderState] /\ st[0] = DecoderStart
    BY <1>4, <1>7 DEF Decoding
  <2>2. \A k \in 1..m : st[k] = Unescape(st[k - 1], body[k])
    BY <1>4, <1>7 DEF Decoding
  <2>3. \A k \in 1..m : body[k] = e[k + 2]
    BY <1>5, <1>7
  <2> QED
    BY <2>1, <2>2, <2>3
<1>9. at \in [0..n -> Nat] /\ at[0] = 2
  BY <1>1, <1>6 DEF Framed
<1>10. \A k \in 1..n :
         /\ at[k - 1] \in 2..at[k] /\ at[k] <= at[n]
         /\ IF Special(data[k])
              THEN /\ at[k] = at[k - 1] + 2
                   /\ e[at[k - 1] + 1] = FESC /\ e[at[k - 1] + 2] = Transposed(data[k])
              ELSE at[k] = at[k - 1] + 1 /\ e[at[k]] = data[k]
  BY <1>1, <1>6 DEF Framed
<1> DEFINE Clean(k) == \A i \in 1..k : data[i] # FESC
           Plain(u, k) == u.ok /\ ~u.escaped /\ u.data = SubSeq(data, 1, k)
           S == {k \in 0..n : IF Clean(k) THEN Plain(st[at[k] - 2], k) ELSE ~st[at[k] - 2].ok}
<1>11. 0 \in S
  <2>1. 0 \in 0..n /\ at[0] - 2 = 0 /\ Clean(0)
    BY <1>9
  <2>2. SubSeq(data, 1, 0) = <<>>
    BY SubSeqEmpty
  <2>3. Plain(st[0], 0)
    BY <1>8, <2>2 DEF DecoderStart
  <2> QED
    BY <2>1, <2>3
<1>12. ASSUME NEW k \in 1..n, k - 1 \in S PROVE k \in S
  <2>1. PICK p \in Nat : p = at[k - 1] - 2
    <3>1. at[k - 1] \in 2..at[k]
      BY <1>10
    <3>2. at[k] \in Nat
      BY <1>9
    <3>3. at[k - 1] - 2 \in Nat
      BY <3>1, <3>2
    <3> QED
      BY <3>3
  <2>2. at[k - 1] = p + 2 /\ k \in 0..n
    BY <1>9, <2>1
  <2>3. at[k] <= at[n] /\ at[k] \in Nat /\ at[n] = m + 2
    BY <1>7, <1>9, <1>10
  <2>4. st[p] \in DecoderState /\ (IF Clean(k - 1) THEN Plain(st[p], k - 1) ELSE ~st[p].ok)
    <3>1. p \in 0..m
      <4>1. at[k - 1] \in 2..at[k]
        BY <1>10
      <4> QED
        BY <2>2, <2>3, <4>1
    <3> QED
      BY <1>8, <1>12, <2>1, <3>1
  <2>5. Clean(k) <=> Clean(k - 1) /\ data[k] # FESC
    <3>1. k \in 1..k /\ \A i \in 1..k : i \in 1..k - 1 \/ i = k
      OBVIOUS
    <3>2. \A i \in 1..k - 1 : i \in 1..k
      OBVIOUS
    <3> QED
      BY <3>1, <3>2
  <2>6. SubSeq(data, 1, k) = Append(SubSeq(data, 1, k - 1), data[k])
    <3>1. k \in 1..Len(data)
      BY <1>6
    <3> QED
      BY <3>1, OneMore
  <2> HIDE DEF Clean
  <2>7. CASE Special(data[k])
    <3>1. /\ at[k] = p + 4 /\ p + 1 \in 1..m /\ p + 2 \in 1..m
          /\ e[p + 3] = FESC /\ e[p + 4] = Transposed(data[k])
      <4>1. /\ at[k] = at[k - 1] + 2
            /\ e[at[k - 1] + 1] = FESC /\ e[at[k - 1] + 2] = Transposed(data[k])
        BY <1>10, <2>7
      <4>2. at[k - 1] + 2 = p + 4 /\ at[k - 1] + 1 = p + 3
        BY <2>2
      <4> QED
        BY <2>3, <4>1, <4>2
    <3>2. st[p + 1] = Unescape(st[p], FESC)
      <4>1. (p + 1) - 1 = p /\ (p + 1) + 2 = p + 3
        OBVIOUS
      <4> QED
        BY <1>8, <3>1, <4>1
    <3>3. st[p + 2] = Unescape(st[p + 1], Transposed(data[k]))
      <4>1. (p + 2) - 1 = p + 1 /\ (p + 2) + 2 = p + 4
        OBVIOUS
      <4> QED
        BY <1>8, <3>1, <4>1
    <3>4. at[k] - 2 = p + 2
      BY <3>1
    <3>5. CASE ~Clean(k - 1)
      <4>1. st[p + 1] = st[p]
        BY <2>4, <3>2, <3>5 DEF Unescape
      <4>2. st[p + 2] = st[p]
        BY <2>4, <3>3, <3>5, <4>1 DEF Unescape
      <4> QED
        BY <2>2, <2>4, <2>5, <3>4, <3>5, <4>2
    <3>6. CASE Clean(k - 1)
      <4>1. st[p] \in DecoderState /\ Plain(st[p], k - 1)
        BY <2>4, <3>6
      <4>2. st[p + 1].ok /\ st[p + 1].escaped /\ st[p + 1].data = SubSeq(data, 1, k - 1)
        BY <3>2, <4>1, UnescapePlain
      <4>5. st[p + 1] \in DecoderState
        <5>1. p + 1 \in 0..m
          BY <3>1
        <5> QED
          BY <1>8, <5>1
      <4>3. CASE data[k] = FEND
        <5>1. Transposed(data[k]) = TFEND /\ data[k] # FESC
          BY <4>3 DEF Transposed, FEND, FESC
        <5>2. st[p + 2].ok /\ ~st[p + 2].escaped /\ st[p + 2].data = Append(SubSeq(data, 1, k - 1), FEND)
          BY <3>3, <4>2, <4>5, <5>1, UnescapeSecond
        <5>3. Plain(st[p + 2], k)
          BY <2>6, <4>3, <5>2
        <5> QED
          BY <2>2, <2>5, <3>4, <3>6, <5>1, <5>3
      <4>4. CASE data[k] # FEND
        <5>1. data[k] = FESC /\ Transposed(data[k]) # TFEND
          BY <2>7, <4>4 DEF Special, Transposed, TFEND, TFESC
        <5>2. ~st[p + 2].ok
          BY <3>3, <4>2, <4>5, <5>1, UnescapeSecond
        <5> QED
          BY <2>2, <2>5, <3>4, <5>1, <5>2
      <4> QED
        BY <4>3, <4>4
    <3> QED
      BY <3>5, <3>6
  <2>8. CASE ~Special(data[k])
    <3>1. at[k] = p + 3 /\ p + 1 \in 1..m /\ e[p + 3] = data[k]
      <4>1. at[k] = at[k - 1] + 1 /\ e[at[k]] = data[k]
        BY <1>10, <2>8
      <4>2. at[k - 1] + 1 = p + 3
        BY <2>2
      <4> QED
        BY <2>3, <4>1, <4>2
    <3>2. st[p + 1] = Unescape(st[p], data[k])
      <4>1. (p + 1) - 1 = p /\ (p + 1) + 2 = p + 3
        OBVIOUS
      <4> QED
        BY <1>8, <3>1, <4>1
    <3>3. at[k] - 2 = p + 1
      BY <3>1
    <3>4. data[k] # FESC
      BY <2>8 DEF Special
    <3>5. CASE ~Clean(k - 1)
      <4>1. st[p + 1] = st[p]
        BY <2>4, <3>2, <3>5 DEF Unescape
      <4> QED
        BY <2>2, <2>4, <2>5, <3>3, <3>5, <4>1
    <3>6. CASE Clean(k - 1)
      <4>1. st[p] \in DecoderState /\ Plain(st[p], k - 1)
        BY <2>4, <3>6
      <4>2. st[p + 1].ok /\ ~st[p + 1].escaped /\ st[p + 1].data = Append(SubSeq(data, 1, k - 1), data[k])
        <5> DEFINE v == st[p]
                   u == st[p + 1]
                   b == data[k]
        <5>1. v \in DecoderState /\ v.ok /\ ~v.escaped /\ u = Unescape(v, b) /\ b # FESC
          BY <3>2, <3>4, <4>1
        <5> HIDE DEF u, v, b
        <5>2. u.ok /\ ~u.escaped /\ u.data = Append(v.data, b)
          BY <5>1, UnescapePlain
        <5>3. v.data = SubSeq(data, 1, k - 1)
          BY <4>1 DEF v
        <5> QED
          BY <5>2, <5>3 DEF u, b
      <4>3. Plain(st[p + 1], k)
        BY <2>6, <4>2
      <4> QED
        BY <2>2, <2>5, <3>3, <3>4, <3>6, <4>3
    <3> QED
      BY <3>5, <3>6
  <2> QED
    BY <2>7, <2>8
<1> HIDE DEF S
<1>13. 0..n \subseteq S
  BY <1>11, <1>12, UpTo
<1>14. IF Clean(n) THEN Plain(st[m], n) ELSE ~st[m].ok
  <2>1. n \in S
    BY <1>13
  <2> QED
    BY <1>7, <2>1 DEF S
<1>15. SubSeq(data, 1, n) = data
  BY <1>6, SubSeqFull
<1>16. KissDecode(e) = IF st[m].ok /\ ~st[m].escaped THEN Decoded(st[m].data) ELSE Rejected
  BY <1>4, <1>7
<1>17. CASE Clean(n)
  BY <1>6, <1>14, <1>15, <1>16, <1>17 DEF Decoded, e
<1>18. CASE ~Clean(n)
  BY <1>6, <1>14, <1>16, <1>18 DEF Rejected, e
<1> QED
  BY <1>17, <1>18

-----------------------------------------------------------------------------
(* What a client makes of it that follows the rules.                       *)

\* The byte that one byte of the frame stands for, after the one before it.
StandsFor(before, b) ==
    IF before = FESC /\ b = TFEND THEN FEND
    ELSE IF before = FESC /\ b = TFESC THEN FESC
    ELSE b

\* What has been read after each byte.
Reading(body, data) ==
    /\ data \in [0..Len(body) -> Seq(Byte)]
    /\ \A k \in 0..Len(body) :
         data[k] = IF k <= 1 THEN <<>>
                   ELSE IF body[k] = FESC THEN data[k - 1]
                   ELSE Append(data[k - 1], StandsFor(body[k - 1], body[k]))

\* Standard(body) is the last of the sequences its recursion builds.
LEMMA StandardRounds ==
  ASSUME NEW body \in Seq(Byte)
  PROVE  \E data : Reading(body, data) /\ Standard(body) = data[Len(body)]
<1> DEFINE n == Len(body)
           T == Seq(Byte)
           Round(v, k) == IF k <= 1 THEN <<>>
                          ELSE IF body[k] = FESC THEN v
                          ELSE Append(v, StandsFor(body[k - 1], body[k]))
           step == [vi \in T \X (1..n) |-> Round(vi[1], vi[2])]
           Is(f) == f = [k \in 0..n |->
                           IF k <= 1 THEN <<>>
                           ELSE IF body[k] = FESC THEN f[k - 1]
                           ELSE Append(f[k - 1],
                                       IF body[k - 1] = FESC /\ body[k] = TFEND THEN FEND
                                       ELSE IF body[k - 1] = FESC /\ body[k] = TFESC THEN FESC
                                       ELSE body[k])]
           f == CHOOSE h : Is(h)
<1>1. n \in Nat /\ <<>> \in T
  OBVIOUS
<1>2. \A k \in 1..n : body[k] \in Byte
  BY Elements
<1>3. Standard(body) = f[n]
  BY DEF Standard
<1> HIDE DEF n
<1>4. \A v \in T, k \in 1..n : Round(v, k) \in T
  <2> TAKE v \in T, k \in 1..n
  <2>1. CASE k <= 1
    BY <1>1, <2>1
  <2>2. CASE body[k] = FESC
    BY <1>1, <2>2
  <2>3. CASE ~(k <= 1) /\ body[k] # FESC
    <3> DEFINE b == StandsFor(body[k - 1], body[k])
    <3>1. b \in Byte /\ v \in Seq(Byte)
      BY <1>2 DEF StandsFor, Byte, FEND, FESC
    <3> HIDE DEF b
    <3>2. Append(v, b) \in Seq(Byte)
      BY <3>1, AppendProperties
    <3> QED
      BY <2>3, <3>2 DEF b
  <2> QED
    BY <2>1, <2>2, <2>3
<1> HIDE DEF T
<1>5. step \in [T \X (1..n) -> T]
  <2> HIDE DEF Round
  <2> QED
    BY <1>4
<1>6. \E g : Recurs(g, n, T, <<>>, step)
  <2> HIDE DEF step
  <2> QED
    BY <1>1, <1>5, RecursionDefines
<1>7. PICK g \in [0..n -> T] : \A i \in 0..n : g[i] = IF i = 0 THEN <<>> ELSE step[<<g[i - 1], i>>]
  <2> HIDE DEF step
  <2> QED
    BY <1>6 DEF Recurs
<1>8. Is(g)
  <2>1. ASSUME NEW i \in 0..n PROVE g[i] = Round(g[i - 1], i)
    <3>1. CASE i = 0
      <4>1. i <= 1
        BY <3>1
      <4>2. g[i] = <<>>
        BY <1>7, <3>1, Zenon
      <4> QED
        BY <4>1, <4>2, Zenon
    <3>2. CASE i # 0
      <4>1. i \in 1..n /\ g[i - 1] \in T
        BY <1>1, <1>7, <3>2
      <4>2. step[<<g[i - 1], i>>] = Round(g[i - 1], i)
        <5> DEFINE vi == <<g[i - 1], i>>
        <5>1. vi \in T \X (1..n) /\ vi[1] = g[i - 1] /\ vi[2] = i
          BY <4>1
        <5>2. step[vi] = Round(vi[1], vi[2])
          <6> HIDE DEF Round, vi
          <6> QED
            BY <5>1, Zenon
        <5> QED
          BY <5>1, <5>2, Zenon
      <4> QED
        BY <1>7, <3>2, <4>2, Zenon
    <3> QED
      BY <3>1, <3>2
  <2> QED
    BY <2>1 DEF StandsFor
<1>9. Is(f)
  BY <1>8
<1> HIDE DEF f
<1>10. \A k \in 0..n : f[k] = Round(f[k - 1], k)
  BY <1>9, Zenon DEF StandsFor
<1>11. f = [k \in 0..n |-> f[k]]
  BY <1>9
<1> DEFINE S == {k \in 0..n : f[k] \in T}
<1>12. 0 \in S
  <2>1. 0 \in 0..n /\ 0 <= 1
    BY <1>1
  <2>2. f[0] = <<>>
    BY <1>10, <2>1, Zenon
  <2> QED
    BY <1>1, <2>1, <2>2
<1>13. ASSUME NEW k \in 1..n, k - 1 \in S PROVE k \in S
  <2>1. k \in 0..n /\ f[k - 1] \in T
    BY <1>1, <1>13
  <2> HIDE DEF Round
  <2>2. f[k] = Round(f[k - 1], k)
    BY <1>10, <2>1
  <2> QED
    BY <1>4, <2>1, <2>2
<1> HIDE DEF S
<1>14. 0..n \subseteq S
  BY <1>1, <1>12, <1>13, UpTo
<1>15. f \in [0..n -> T]
  BY <1>11, <1>14 DEF S
<1>16. Reading(body, f)
  BY <1>10, <1>15 DEF Reading, n, T
<1> QED
  BY <1>3, <1>16 DEF n

\* Such a client reads any packet as it is.
LEMMA StandardOfEncode ==
  ASSUME NEW data \in Seq(Byte)
  PROVE  Standard(SubSeq(KissEncode(data), 2, Len(KissEncode(data)) - 1)) = data
<1> DEFINE e == KissEncode(data)
           body == SubSeq(e, 2, Len(e) - 1)
<1>1. PICK at : Framed(data, e, at)
  BY EncodeFrames
<1>2. e \in Seq(Byte) /\ Len(e) \in Nat /\ Len(e) >= 3
  BY EncodeFends
<1> HIDE DEF e
<1>3. PICK l \in Nat : l = Len(e) - 2
  BY <1>2
<1>4. body \in Seq(Byte) /\ Len(body) = l /\ \A i \in 1..l : body[i] = e[i + 1]
  <2>1. 2 \in Nat /\ Len(e) - 1 \in Nat /\ 1 <= 2 /\ Len(e) - 1 <= Len(e) /\ 2 <= Len(e) - 1
    BY <1>2
  <2>2. Len(body) = IF 2 <= Len(e) - 1 THEN (Len(e) - 1) - 2 + 1 ELSE 0
    BY <1>2, <2>1, SubSeqType
  <2>3. \A i \in 1..(Len(e) - 1) - 2 + 1 : body[i] = e[2 + i - 1]
    BY <1>2, <2>1, SubSeqType
  <2>4. body \in Seq(Byte)
    BY <1>2, <2>1, SubSeqType
  <2> HIDE DEF body
  <2> QED
    BY <1>2, <1>3, <2>1, <2>2, <2>3, <2>4
<1> HIDE DEF body
<1>5. PICK f : Reading(body, f) /\ Standard(body) = f[Len(body)]
  BY <1>4, StandardRounds
<1>6. PICK n \in Nat : n = Len(data)
  OBVIOUS
<1>7. at \in [0..n -> Nat] /\ at[0] = 2 /\ at[n] = l + 1 /\ e[2] = 0
  <2>1. Len(e) = at[n] + 1 /\ at \in [0..n -> Nat] /\ at[0] = 2 /\ e[2] = 0
    BY <1>1, <1>6 DEF Framed
  <2>2. at[n] \in Nat
    BY <2>1
  <2>3. PICK q \in Nat : q = at[n]
    BY <2>2
  <2>4. q = l + 1
    BY <1>2, <1>3, <2>1, <2>3
  <2> QED
    BY <2>1, <2>3, <2>4, Zenon
<1>8. \A k \in 1..n :
         /\ at[k - 1] \in 2..at[k] /\ at[k] <= at[n]
         /\ IF Special(data[k])
              THEN /\ at[k] = at[k - 1] + 2
                   /\ e[at[k - 1] + 1] = FESC /\ e[at[k - 1] + 2] = Transposed(data[k])
              ELSE at[k] = at[k - 1] + 1 /\ e[at[k]] = data[k]
  BY <1>1, <1>6 DEF Framed
<1>9. \A k \in 0..l :
        f[k] = IF k <= 1 THEN <<>>
               ELSE IF body[k] = FESC THEN f[k - 1]
               ELSE Append(f[k - 1], StandsFor(body[k - 1], body[k]))
  BY <1>4, <1>5 DEF Reading
<1> DEFINE S == {k \in 0..n : f[at[k] - 1] = SubSeq(data, 1, k) /\ body[at[k] - 1] # FESC}
<1>10. 0 \in S
  <2>1. 0 \in 0..n /\ at[0] - 1 = 1 /\ 1 <= 1
    BY <1>7
  <2>2. 1 \in 0..l /\ 1 \in 1..l /\ 1 + 1 = 2
    BY <1>2, <1>3
  <2>3. f[1] = <<>>
    BY <1>9, <2>1, <2>2
  <2>4. SubSeq(data, 1, 0) = <<>>
    BY SubSeqEmpty
  <2>5. body[1] # FESC
    BY <1>4, <1>7, <2>2 DEF FESC
  <2> QED
    BY <2>1, <2>3, <2>4, <2>5
<1>11. ASSUME NEW k \in 1..n, k - 1 \in S PROVE k \in S
  <2>1. PICK p \in Nat : p = at[k - 1] - 1 /\ p >= 1
    <3>1. at[k - 1] \in 2..at[k]
      BY <1>8
    <3>2. at[k] \in Nat
      BY <1>7
    <3>3. at[k - 1] - 1 \in Nat /\ at[k - 1] - 1 >= 1
      BY <3>1, <3>2
    <3> QED
      BY <3>3
  <2>2. at[k - 1] = p + 1 /\ k \in 0..n
    BY <1>7, <2>1
  <2>3. at[k] <= l + 1 /\ at[k] \in Nat
    BY <1>7, <1>8
  <2>4. f[p] = SubSeq(data, 1, k - 1) /\ body[p] # FESC
    BY <1>11, <2>1
  <2>5. SubSeq(data, 1, k) = Append(SubSeq(data, 1, k - 1), data[k])
    <3>1. k \in 1..Len(data)
      BY <1>6
    <3> QED
      BY <3>1, OneMore
  <2>6. /\ (p + 1) - 1 = p /\ ~(p + 1 <= 1) /\ (p + 1) + 1 = p + 2
        /\ (p + 2) - 1 = p + 1 /\ ~(p + 2 <= 1) /\ (p + 2) + 1 = p + 3
    BY <2>1
  <2>7. CASE Special(data[k])
    <3>1. /\ at[k] = p + 3 /\ p + 1 \in 1..l /\ p + 2 \in 1..l /\ p + 1 \in 0..l /\ p + 2 \in 0..l
          /\ e[p + 2] = FESC /\ e[p + 3] = Transposed(data[k])
      <4>1. /\ at[k] = at[k - 1] + 2
            /\ e[at[k - 1] + 1] = FESC /\ e[at[k - 1] + 2] = Transposed(data[k])
        BY <1>8, <2>7
      <4>2. at[k - 1] + 2 = p + 3 /\ at[k - 1] + 1 = p + 2
        BY <2>2
      <4> QED
        BY <2>3, <4>1, <4>2
    <3>2. body[p + 1] = FESC /\ body[p + 2] = Transposed(data[k])
      BY <1>4, <2>6, <3>1
    <3>3. Transposed(data[k]) # FESC
      BY DEF Transposed, FESC, TFEND, TFESC
    <3>4. f[p + 1] = f[p]
      BY <1>9, <2>6, <3>1, <3>2
    <3>5. f[p + 2] = Append(f[p + 1], StandsFor(FESC, Transposed(data[k])))
      BY <1>9, <2>6, <3>1, <3>2, <3>3
    <3>6. StandsFor(FESC, Transposed(data[k])) = data[k]
      BY <2>7 DEF Special, Transposed, StandsFor, FEND, FESC, TFEND, TFESC
    <3>7. at[k] - 1 = p + 2
      BY <3>1
    <3> QED
      BY <2>2, <2>4, <2>5, <3>2, <3>3, <3>4, <3>5, <3>6, <3>7
  <2>8. CASE ~Special(data[k])
    <3>1. at[k] = p + 2 /\ p + 1 \in 1..l /\ p + 1 \in 0..l /\ e[p + 2] = data[k]
      <4>1. at[k] = at[k - 1] + 1 /\ e[at[k]] = data[k]
        BY <1>8, <2>8
      <4>2. at[k - 1] + 1 = p + 2
        BY <2>2
      <4> QED
        BY <2>3, <4>1, <4>2
    <3>2. body[p + 1] = data[k] /\ data[k] # FESC
      BY <1>4, <2>6, <2>8, <3>1 DEF Special
    <3>3. f[p + 1] = Append(f[p], StandsFor(body[p], data[k]))
      BY <1>9, <2>6, <3>1, <3>2
    <3>4. StandsFor(body[p], data[k]) = data[k]
      BY <2>4 DEF StandsFor
    <3>5. at[k] - 1 = p + 1
      BY <3>1
    <3> QED
      BY <2>2, <2>4, <2>5, <3>2, <3>3, <3>4, <3>5
  <2> QED
    BY <2>7, <2>8
<1> HIDE DEF S
<1>12. 0..n \subseteq S
  BY <1>10, <1>11, UpTo
<1>13. f[l] = SubSeq(data, 1, n)
  <2>1. n \in S /\ at[n] - 1 = l
    BY <1>7, <1>12
  <2> QED
    BY <2>1 DEF S
<1>14. SubSeq(data, 1, n) = data
  BY <1>6, SubSeqFull
<1> QED
  BY <1>4, <1>5, <1>13, <1>14 DEF body, e

-----------------------------------------------------------------------------
(* Streams of frames.                                                      *)

Frames == Seq(Seq(Byte))

\* The stream consists of these frames and of bytes between them that are no
\* FENDs: its FENDs, paired off, enclose the frames.
Carries(w, frames) ==
    /\ Len(Fends(w)) = 2 * Len(frames)
    /\ \A k \in 1..Len(frames) :
         SubSeq(w, Fends(w)[2 * k - 1], Fends(w)[2 * k]) = KissEncode(frames[k])

\* The FENDs of the first of two sequences of bytes are where they were, those
\* of the second are that much farther on.
FendsAdd(a, b) ==
    /\ Len(Fends(a \o b)) = Len(Fends(a)) + Len(Fends(b))
    /\ \A k \in 1..Len(Fends(a)) : Fends(a \o b)[k] = Fends(a)[k] /\ Fends(a)[k] \in 1..Len(a)
    /\ \A k \in 1..Len(Fends(b)) : /\ Fends(a \o b)[Len(Fends(a)) + k] = Len(a) + Fends(b)[k]
                                   /\ Fends(b)[k] \in 1..Len(b)

\* Every FEND of a concatenation is a FEND of one part, at its place in the whole.
LEMMA FendsOfTwo ==
  ASSUME NEW a \in Seq(Byte), NEW b \in Seq(Byte)
  PROVE  FendsAdd(a, b)
<1> DEFINE f == Fends(a)
           g == Fends(b)
           m == Moved(g, Len(a))
           N == Nat
<1>1. f \in Seq(N) /\ g \in Seq(N) /\ Len(a) \in Nat
  BY FendsType
<1>2. (\A k \in 1..Len(f) : f[k] \in 1..Len(a)) /\ (\A k \in 1..Len(g) : g[k] \in 1..Len(b))
  <2>1. f \in Seq(1..Len(a)) /\ g \in Seq(1..Len(b))
    BY FendsType
  <2> HIDE DEF f, g
  <2> QED
    BY <2>1, Elements
<1> HIDE DEF f, g
<1>3. m \in Seq(N) /\ Len(m) = Len(g)
  BY <1>1, MovedType
<1>4. \A k \in 1..Len(g) : m[k] = Len(a) + g[k]
  BY DEF Moved
<1> HIDE DEF m, N
<1>5. /\ Len(f \o m) = Len(f) + Len(m)
      /\ \A i \in 1..Len(f) : (f \o m)[i] = f[i]
      /\ \A i \in 1..Len(m) : (f \o m)[Len(f) + i] = m[i]
  <2>1. f \in Seq(N) /\ m \in Seq(N)
    BY <1>1, <1>3
  <2> QED
    BY <2>1, Concatenated
<1>6. Fends(a \o b) = f \o m
  BY FendsConcat DEF f, g, m
<1> QED
  BY <1>2, <1>3, <1>4, <1>5, <1>6 DEF FendsAdd, f, g

\* One more frame, with noise before it, ...
LEMMA CarriesMore ==
  ASSUME NEW w \in Seq(Byte), NEW junk \in Seq(Byte), Fends(junk) = <<>>,
         NEW frames \in Frames, NEW data \in Seq(Byte), Carries(w, frames)
  PROVE  Carries((w \o junk) \o KissEncode(data), Append(frames, data))
<1> DEFINE e == KissEncode(data)
           x == w \o junk
           y == x \o e
           more == Append(frames, data)
<1>1. e \in Seq(Byte) /\ Len(e) \in Nat /\ Len(e) >= 3 /\ Fends(e) = <<1, Len(e)>>
  BY EncodeFends
<1> HIDE DEF e
<1>2. /\ x \in Seq(Byte) /\ Len(w) \in Nat /\ Len(junk) \in Nat /\ Len(x) = Len(w) + Len(junk)
  BY ConcatProperties
<1>3. PICK n \in Nat : n = Len(frames)
  BY DEF Frames
<1>4. /\ Len(Fends(w)) = 2 * n
      /\ \A k \in 1..n : SubSeq(w, Fends(w)[2 * k - 1], Fends(w)[2 * k]) = KissEncode(frames[k])
  BY <1>3 DEF Carries
<1>5. /\ Len(Fends(x)) = 2 * n
      /\ \A k \in 1..2 * n : Fends(x)[k] = Fends(w)[k] /\ Fends(w)[k] \in 1..Len(w)
  <2>1. FendsAdd(w, junk)
    BY FendsOfTwo
  <2>2. /\ Len(Fends(x)) = Len(Fends(w)) + Len(Fends(junk))
        /\ \A k \in 1..Len(Fends(w)) : Fends(x)[k] = Fends(w)[k] /\ Fends(w)[k] \in 1..Len(w)
    BY <2>1, Zenon DEF FendsAdd
  <2>3. Len(Fends(junk)) = 0
    OBVIOUS
  <2> HIDE DEF x
  <2> QED
    BY <1>4, <2>2, <2>3
<1>6. Len(more) = n + 1 /\ more[n + 1] = data /\ \A k \in 1..n : more[k] = frames[k]
  <2> DEFINE T == Seq(Byte)
  <2>1. frames \in Seq(T) /\ data \in T
    BY DEF Frames
  <2> HIDE DEF T
  <2>2. /\ Len(Append(frames, data)) = Len(frames) + 1
        /\ \A i \in 1..Len(frames) : Append(frames, data)[i] = frames[i]
        /\ Append(frames, data)[Len(frames) + 1] = data
    BY <2>1, Appended
  <2> QED
    BY <1>3, <2>2
<1> HIDE DEF more
<1>7. /\ Len(Fends(y)) = 2 * n + 2
      /\ \A k \in 1..2 * n : Fends(y)[k] = Fends(w)[k]
      /\ Fends(y)[2 * n + 1] = Len(x) + 1 /\ Fends(y)[2 * n + 2] = Len(x) + Len(e)
  <2> HIDE DEF x
  <2>1. /\ Len(Fends(y)) = Len(Fends(x)) + Len(Fends(e))
        /\ \A k \in 1..Len(Fends(x)) : Fends(y)[k] = Fends(x)[k]
        /\ \A k \in 1..Len(Fends(e)) : Fends(y)[Len(Fends(x)) + k] = Len(x) + Fends(e)[k]
    <3>1. FendsAdd(x, e)
      BY <1>1, <1>2, FendsOfTwo
    <3> QED
      BY <3>1, Zenon DEF FendsAdd
  <2>2. Len(Fends(e)) = 2 /\ Fends(e)[1] = 1 /\ Fends(e)[2] = Len(e)
    BY <1>1
  <2> QED
    BY <1>5, <2>1, <2>2
<1>8. \A k \in 1..n : SubSeq(y, Fends(y)[2 * k - 1], Fends(y)[2 * k]) = KissEncode(more[k])
  <2> TAKE k \in 1..n
  <2> DEFINE a == Fends(w)[2 * k - 1]
             b == Fends(w)[2 * k]
  <2>1. 2 * k - 1 \in 1..2 * n /\ 2 * k \in 1..2 * n
    BY <1>3
  <2>2. a \in 1..Len(w) /\ b \in 1..Len(w) /\ Fends(y)[2 * k - 1] = a /\ Fends(y)[2 * k] = b
    BY <1>5, <1>7, <2>1
  <2>3. SubSeq(w, a, b) = KissEncode(more[k])
    BY <1>4, <1>6
  <2> HIDE DEF a, b
  <2>4. SubSeq(x, a, b) = SubSeq(w, a, b)
    BY <2>2, SubSeqOfConcat1
  <2>5. a \in 1..Len(x) /\ b \in 1..Len(x)
    BY <1>2, <2>2
  <2> HIDE DEF x
  <2>6. SubSeq(y, a, b) = SubSeq(x, a, b)
    BY <1>1, <1>2, <2>5, SubSeqOfConcat1
  <2> QED
    BY <2>2, <2>3, <2>4, <2>6
<1>9. SubSeq(y, Fends(y)[2 * n + 1], Fends(y)[2 * n + 2]) = e
  <2> HIDE DEF x
  <2>1. Len(x) \in Nat /\ Len(x) + 1 \in Len(x) + 1..Len(x) + Len(e) /\ Len(x) + Len(e) \in Len(x) + 1..Len(x) + Len(e)
    BY <1>1, <1>2
  <2>2. SubSeq(y, Len(x) + 1, Len(x) + Len(e)) = SubSeq(e, (Len(x) + 1) - Len(x), (Len(x) + Len(e)) - Len(x))
    BY <1>1, <1>2, <2>1, SubSeqOfConcat2
  <2>3. (Len(x) + 1) - Len(x) = 1 /\ (Len(x) + Len(e)) - Len(x) = Len(e)
    BY <1>1, <2>1
  <2>4. SubSeq(e, 1, Len(e)) = e
    BY <1>1, SubSeqFull
  <2> QED
    BY <1>7, <2>2, <2>3, <2>4
<1> HIDE DEF y
<1>10. \A k \in 1..n + 1 : SubSeq(y, Fends(y)[2 * k - 1], Fends(y)[2 * k]) = KissEncode(more[k])
  <2> TAKE k \in 1..n + 1
  <2>1. CASE k \in 1..n
    BY <1>8, <2>1
  <2>2. CASE k = n + 1
    <3>1. 2 * k - 1 = 2 * n + 1 /\ 2 * k = 2 * n + 2
      BY <2>2
    <3> QED
      BY <1>6, <1>9, <2>2, <3>1 DEF e
  <2> QED
    BY <2>1, <2>2
<1>11. Len(Fends(y)) = 2 * Len(more)
  BY <1>6, <1>7
<1> QED
  BY <1>6, <1>10, <1>11 DEF Carries, y, e, more

\* ... and the two parts of a stream that is cut between frames.
LEMMA CarriesSplit ==
  ASSUME NEW u \in Seq(Byte), NEW v \in Seq(Byte), NEW frames \in Frames, Carries(u \o v, frames),
         NEW j \in Nat, Len(Fends(u)) = 2 * j
  PROVE  /\ j <= Len(frames)
         /\ Carries(u, SubSeq(frames, 1, j))
         /\ Carries(v, SubSeq(frames, j + 1, Len(frames)))
<1> DEFINE w == u \o v
           first == SubSeq(frames, 1, j)
           last == SubSeq(frames, j + 1, Len(frames))
<1>1. PICK n \in Nat : n = Len(frames)
  BY DEF Frames
<1>2. /\ Len(Fends(w)) = 2 * n
      /\ \A k \in 1..n : SubSeq(w, Fends(w)[2 * k - 1], Fends(w)[2 * k]) = KissEncode(frames[k])
  BY <1>1 DEF Carries
<1>3. Len(Fends(v)) \in Nat /\ Len(u) \in Nat /\ Len(v) \in Nat
  BY FendsType
<1>4. /\ Len(Fends(w)) = 2 * j + Len(Fends(v))
      /\ \A k \in 1..2 * j : Fends(w)[k] = Fends(u)[k] /\ Fends(u)[k] \in 1..Len(u)
      /\ \A k \in 1..Len(Fends(v)) : Fends(w)[2 * j + k] = Len(u) + Fends(v)[k] /\ Fends(v)[k] \in 1..Len(v)
  <2>1. /\ Len(Fends(w)) = Len(Fends(u)) + Len(Fends(v))
        /\ \A k \in 1..Len(Fends(u)) : Fends(w)[k] = Fends(u)[k] /\ Fends(u)[k] \in 1..Len(u)
        /\ \A k \in 1..Len(Fends(v)) : /\ Fends(w)[Len(Fends(u)) + k] = Len(u) + Fends(v)[k]
                                       /\ Fends(v)[k] \in 1..Len(v)
    <3>1. FendsAdd(u, v)
      BY FendsOfTwo
    <3> QED
      BY <3>1, Zenon DEF FendsAdd
  <2> HIDE DEF w
  <2> QED
    BY <2>1
<1>5. PICK m \in Nat : n = j + m /\ Len(Fends(v)) = 2 * m
  <2>1. 2 * n = 2 * j + Len(Fends(v))
    BY <1>2, <1>4
  <2>2. n - j \in Nat /\ n = j + (n - j) /\ Len(Fends(v)) = 2 * (n - j)
    BY <1>3, <2>1
  <2> QED
    BY <2>2
<1>6. Len(first) = j /\ \A k \in 1..j : first[k] = frames[k]
  <2> DEFINE T == Seq(Byte)
  <2>1. frames \in Seq(T)
    BY DEF Frames
  <2> HIDE DEF T
  <2>2. (\A i \in 1..j : frames[i] \in T) /\ 1 \in Int /\ j \in Int
    <3>1. \A i \in 1..Len(frames) : frames[i] \in T
      BY <2>1
    <3>2. j \in Nat /\ \A i \in 1..j : i \in 1..Len(frames)
      BY <1>1, <1>5
    <3> QED
      BY <3>1, <3>2
  <2>3. /\ Len(SubSeq(frames, 1, j)) = IF 1 <= j THEN j - 1 + 1 ELSE 0
        /\ \A i \in 1..j - 1 + 1 : SubSeq(frames, 1, j)[i] = frames[1 + i - 1]
    BY <2>2, SubSeqProperties
  <2> HIDE DEF first
  <2>4. Len(SubSeq(frames, 1, j)) = j /\ \A i \in 1..j : SubSeq(frames, 1, j)[i] = frames[i]
    <3>1. j - 1 + 1 = j /\ \A i \in 1..j : 1 + i - 1 = i
      OBVIOUS
    <3> QED
      BY <2>3, <3>1
  <2> QED
    BY <2>4, Zenon DEF first
<1>7. Len(last) = m /\ \A k \in 1..m : last[k] = frames[j + k]
  <2> DEFINE T == Seq(Byte)
  <2>1. frames \in Seq(T)
    BY DEF Frames
  <2> HIDE DEF T
  <2>2. \A i \in j + 1..n : frames[i] \in T
    BY <1>1, <2>1
  <2>3. j + 1 \in Int /\ n \in Int
    OBVIOUS
  <2>4. /\ Len(SubSeq(frames, j + 1, n)) = IF j + 1 <= n THEN n - (j + 1) + 1 ELSE 0
        /\ \A i \in 1..n - (j + 1) + 1 : SubSeq(frames, j + 1, n)[i] = frames[(j + 1) + i - 1]
    BY <2>2, <2>3, SubSeqProperties
  <2>5. last = SubSeq(frames, j + 1, n)
    BY <1>1
  <2>6. n - (j + 1) + 1 = m /\ (j + 1 <= n \/ m = 0) /\ \A i \in 1..m : (j + 1) + i - 1 = j + i
    BY <1>5
  <2> HIDE DEF last
  <2>7. Len(last) = m
    BY <2>4, <2>5, <2>6
  <2> QED
    BY <2>4, <2>5, <2>6, <2>7
<1> HIDE DEF first, last
<1>8. \A k \in 1..j : SubSeq(u, Fends(u)[2 * k - 1], Fends(u)[2 * k]) = KissEncode(first[k])
  <2> TAKE k \in 1..j
  <2> DEFINE a == Fends(u)[2 * k - 1]
             b == Fends(u)[2 * k]
  <2>1. 2 * k - 1 \in 1..2 * j /\ 2 * k \in 1..2 * j /\ k \in 1..n
    BY <1>5
  <2>2. a \in 1..Len(u) /\ b \in 1..Len(u) /\ Fends(w)[2 * k - 1] = a /\ Fends(w)[2 * k] = b
    BY <1>4, <2>1
  <2>3. SubSeq(w, a, b) = KissEncode(first[k])
    BY <1>2, <1>6, <2>1, <2>2
  <2> HIDE DEF a, b
  <2>4. SubSeq(w, a, b) = SubSeq(u, a, b)
    BY <2>2, SubSeqOfConcat1
  <2> QED
    BY <2>3, <2>4 DEF a, b
<1>9. \A k \in 1..m : SubSeq(v, Fends(v)[2 * k - 1], Fends(v)[2 * k]) = KissEncode(last[k])
  <2> TAKE k \in 1..m
  <2> DEFINE a == Fends(v)[2 * k - 1]
             b == Fends(v)[2 * k]
  <2>1. /\ 2 * k - 1 \in 1..2 * m /\ 2 * k \in 1..2 * m /\ j + k \in 1..n
        /\ 2 * (j + k) - 1 = 2 * j + (2 * k - 1) /\ 2 * (j + k) = 2 * j + 2 * k
    BY <1>5
  <2>2. /\ a \in 1..Len(v) /\ b \in 1..Len(v)
        /\ Fends(w)[2 * (j + k) - 1] = Len(u) + a /\ Fends(w)[2 * (j + k)] = Len(u) + b
    BY <1>4, <1>5, <2>1
  <2>3. SubSeq(w, Len(u) + a, Len(u) + b) = KissEncode(last[k])
    BY <1>2, <1>7, <2>1, <2>2
  <2> HIDE DEF a, b
  <2>4. /\ Len(u) + a \in Len(u) + 1..Len(u) + Len(v) /\ Len(u) + b \in Len(u) + 1..Len(u) + Len(v)
        /\ (Len(u) + a) - Len(u) = a /\ (Len(u) + b) - Len(u) = b
    BY <1>3, <2>2
  <2>5. SubSeq(w, Len(u) + a, Len(u) + b) = SubSeq(v, (Len(u) + a) - Len(u), (Len(u) + b) - Len(u))
    BY <2>4, SubSeqOfConcat2
  <2> QED
    BY <2>3, <2>4, <2>5 DEF a, b
<1>10. Carries(u, first)
  BY <1>6, <1>8 DEF Carries
<1>11. Carries(v, last)
  BY <1>5, <1>7, <1>9 DEF Carries
<1> QED
  BY <1>1, <1>5, <1>10, <1>11 DEF first, last

\* What the scan finds in whole frames, with or without the beginning of one
\* more behind them.
LEMMA FramesInIs ==
  ASSUME NEW u \in Seq(Byte), NEW x \in Seq(Byte), NEW frames \in Frames, Carries(u, frames),
         Len(Fends(x)) <= 1
  PROVE  FramesIn(u \o x) = Decodable(frames)
<1> DEFINE buf == u \o x
           f == Fends(buf)
           decoded == [k \in 1..(Len(f) \div 2) |-> KissDecode(SubSeq(buf, f[2 * k - 1], f[2 * k]))]
           Dec(k) == KissDecode(KissEncode(frames[k]))
           data == [k \in 1..Len(decoded) |-> decoded[k].data]
           P == {k \in 1..Len(decoded) : decoded[k].ok /\ decoded[k].data # <<>>}
           Q == {k \in 1..Len(frames) : Intact(frames[k])}
           T == Seq(Byte)
<1>1. FramesIn(buf) = Chosen(data, P)
  BY DEF FramesIn
<1>2. Decodable(frames) = Chosen(frames, Q)
  BY DEF Decodable
<1>3. PICK n \in Nat : n = Len(frames)
  BY DEF Frames
<1>4. Len(f) \div 2 = n /\ \A k \in 1..2 * n : f[k] = Fends(u)[k] /\ Fends(u)[k] \in 1..Len(u)
  <2>1. /\ Len(f) = Len(Fends(u)) + Len(Fends(x))
        /\ \A k \in 1..Len(Fends(u)) : f[k] = Fends(u)[k] /\ Fends(u)[k] \in 1..Len(u)
    <3>1. FendsAdd(u, x)
      BY FendsOfTwo
    <3> QED
      BY <3>1, Zenon DEF FendsAdd
  <2>2. Len(Fends(u)) = 2 * n /\ Len(Fends(x)) \in {0, 1}
    <3>1. PICK l \in Nat : l = Len(Fends(x))
      BY FendsType
    <3>2. Len(Fends(u)) = 2 * n
      BY <1>3 DEF Carries
    <3>3. l <= 1
      BY <3>1
    <3>4. l \in {0, 1}
      BY <3>3
    <3> QED
      BY <3>1, <3>2, <3>4
  <2> HIDE DEF f
  <2>3. Len(f) = 2 * n \/ Len(f) = 2 * n + 1
    BY <2>1, <2>2
  <2>4. Len(f) \div 2 = n
    BY <2>3
  <2> QED
    BY <2>1, <2>2, <2>4
<1>5. \A k \in 1..n : SubSeq(buf, f[2 * k - 1], f[2 * k]) = KissEncode(frames[k])
  <2> TAKE k \in 1..n
  <2> DEFINE a == Fends(u)[2 * k - 1]
             b == Fends(u)[2 * k]
  <2>1. 2 * k - 1 \in 1..2 * n /\ 2 * k \in 1..2 * n
    OBVIOUS
  <2>2. a \in 1..Len(u) /\ b \in 1..Len(u) /\ f[2 * k - 1] = a /\ f[2 * k] = b
    BY <1>4, <2>1
  <2>3. SubSeq(u, a, b) = KissEncode(frames[k])
    BY <1>3 DEF Carries
  <2> HIDE DEF a, b
  <2>4. SubSeq(buf, a, b) = SubSeq(u, a, b)
    BY <2>2, SubSeqOfConcat1
  <2> QED
    BY <2>2, <2>3, <2>4
<1> HIDE DEF f, buf, Q
<1>6. Len(decoded) = n /\ \A k \in 1..n : decoded[k] = Dec(k)
  <2> DEFINE FrameAt(k) == SubSeq(buf, f[2 * k - 1], f[2 * k])
  <2>1. decoded = [k \in 1..n |-> KissDecode(FrameAt(k))]
    BY <1>4
  <2>2. Len([k \in 1..n |-> KissDecode(FrameAt(k))]) = n
    <3> HIDE DEF FrameAt
    <3> QED
      OBVIOUS
  <2> QED
    BY <1>5, <2>1, <2>2
<1> HIDE DEF decoded
<1>7. frames \in Seq(T) /\ \A k \in 1..n : frames[k] \in Seq(Byte)
  BY <1>3 DEF Frames
<1>8. ASSUME NEW k \in 1..n
      PROVE  /\ Dec(k).data \in Seq(Byte)
             /\ (k \in P <=> k \in Q) /\ (k \in P => Dec(k).data = frames[k])
  <2>1. frames[k] \in Seq(Byte)
    BY <1>7
  <2> DEFINE d == frames[k]
             r == KissDecode(KissEncode(d))
  <2>2. /\ r.ok <=> \A i \in 1..Len(d) : d[i] # FESC
        /\ r.ok => r.data = d
        /\ ~r.ok => r.data = <<>>
    BY <2>1, DecodeOfEncode
  <2>3. k \in P <=> r.ok /\ r.data # <<>>
    BY <1>6
  <2>4. k \in Q <=> Intact(d)
    BY <1>3 DEF Q
  <2> HIDE DEF r, P
  <2>5. r.data \in Seq(Byte)
    <3>1. d \in Seq(Byte) /\ <<>> \in Seq(Byte)
      BY <2>1
    <3> QED
      BY <2>2, <3>1, Zenon
  <2> HIDE DEF d
  <2>6. k \in P <=> k \in Q
    BY <2>2, <2>3, <2>4 DEF Intact
  <2> QED
    BY <2>2, <2>3, <2>5, <2>6 DEF r, d
<1>9. data \in Seq(T) /\ Len(data) = n /\ \A k \in 1..n : data[k] = Dec(k).data
  <2> HIDE DEF P, Dec
  <2>1. \A k \in 1..n : Dec(k).data \in T
    BY <1>8
  <2> HIDE DEF T
  <2> QED
    BY <1>6, <2>1
<1>10. Chosen(data, P) = Chosen(frames, Q)
  <2>1. Len(data) = Len(frames) /\ \A k \in 1..Len(data) : (k \in P <=> k \in Q) /\ (k \in P => data[k] = frames[k])
    BY <1>3, <1>8, <1>9
  <2> HIDE DEF data, P, T
  <2>2. data \in Seq(T) /\ frames \in Seq(T)
    BY <1>7, <1>9
  <2> QED
    BY <2>1, <2>2, ChosenSame
<1> QED
  BY <1>1, <1>2, <1>10 DEF buf

\* What is decodable of some frames and then of others.
LEMMA DecodableType ==
  ASSUME NEW T, NEW s \in Seq(T)
  PROVE  Decodable(s) \in Seq(T)
  BY ChosenType DEF Decodable

DecodesAdd(s, t) == Decodable(s \o t) = Decodable(s) \o Decodable(t)

\* What is decodable of two runs of frames is what is of the first and then of the second.
LEMMA DecodableOfTwo ==
  ASSUME NEW T, NEW s \in Seq(T), NEW t \in Seq(T)
  PROVE  DecodesAdd(s, t)
<1> DEFINE u == s \o t
           P == {k \in 1..Len(u) : Intact(u[k])}
           Ps == {k \in 1..Len(s) : Intact(s[k])}
           Q == {k \in 1..Len(t) : Intact(t[k])}
<1>1. /\ Len(s) \in Nat /\ Len(t) \in Nat /\ Len(u) = Len(s) + Len(t)
      /\ \A i \in 1..Len(s) : u[i] = s[i]
      /\ \A i \in 1..Len(t) : u[Len(s) + i] = t[i]
  BY Concatenated
<1>2. Decodable(u) = Chosen(u, P) /\ Decodable(s) = Chosen(s, Ps) /\ Decodable(t) = Chosen(t, Q)
  BY DEF Decodable
<1> HIDE DEF u
<1>3. \A k \in 1..Len(t) : k \in Q <=> Len(s) + k \in P
  <2> TAKE k \in 1..Len(t)
  <2>1. Len(s) + k \in 1..Len(u)
    BY <1>1
  <2>2. u[Len(s) + k] = t[k]
    BY <1>1
  <2> QED
    BY <2>1, <2>2
<1>4. \A k \in 1..Len(s) : (k \in P <=> k \in Ps) /\ (k \in P => s[k] = s[k])
  <2> TAKE k \in 1..Len(s)
  <2>1. k \in 1..Len(u) /\ u[k] = s[k]
    BY <1>1
  <2> QED
    BY <2>1
<1> HIDE DEF P, Ps, Q
<1>5. Chosen(s \o t, P) = Chosen(s, P) \o Chosen(t, Q)
  BY <1>3, ChosenConcat
<1>6. Chosen(s, P) = Chosen(s, Ps)
  BY <1>4, ChosenSame
<1>7. Decodable(s \o t) = Decodable(s) \o Decodable(t)
  BY <1>2, <1>5, <1>6, Zenon DEF u
<1> QED
  BY <1>7, Zenon DEF DecodesAdd

-----------------------------------------------------------------------------
(* What one read leaves behind.                                            *)

USE KissAssumption, SizeAssumption

\* Bytes that begin with a FEND have that one first and those of the rest behind it.
LEMMA FromFend ==
  ASSUME NEW x \in Seq(Byte), x # <<>>, x[1] = FEND
  PROVE  \E y \in Seq(Byte) : /\ Len(Fends(x)) = 1 + Len(Fends(y)) /\ Fends(x)[1] = 1
                              /\ \A k \in 1..Len(Fends(y)) : Fends(x)[1 + k] = 1 + Fends(y)[k] /\ Fends(y)[k] >= 1
<1> DEFINE one == <<FEND>>
           y == SubSeq(x, 2, Len(x))
           l == Len(x)
<1>1. l \in Nat /\ l >= 1
  BY EmptySeq
<1>2. one \in Seq(Byte) /\ Len(one) = 1 /\ one[1] = FEND /\ Fends(one) = <<1>>
  <2>1. FEND \in Byte
    BY DEF FEND, Byte
  <2> QED
    BY <2>1, FendsOne
<1>3. x = one \o y /\ y \in Seq(Byte)
  <2> DEFINE T == Byte
  <2>1. x \in Seq(T) /\ 1 \in 1..Len(x) /\ Len(x) \in 1..Len(x)
    BY <1>1
  <2> HIDE DEF T
  <2>2. SubSeq(x, 1, Len(x)) = <<x[1]>> \o SubSeq(x, 1 + 1, Len(x))
    BY <2>1, SubSeqRecursiveFirst
  <2>3. SubSeq(x, 1, Len(x)) = x /\ 1 + 1 = 2
    BY <2>1, SubSeqFull
  <2>4. \A i \in 2..Len(x) : x[i] \in T
    BY <2>1
  <2>5. 2 \in Int /\ Len(x) \in Int
    BY <1>1
  <2>6. y \in Seq(T)
    BY <2>4, <2>5, SubSeqProperties
  <2> QED
    BY <2>2, <2>3, <2>6 DEF T
<1> HIDE DEF one, y
<1>4. /\ Len(Fends(one \o y)) = Len(Fends(one)) + Len(Fends(y))
      /\ \A k \in 1..Len(Fends(one)) : Fends(one \o y)[k] = Fends(one)[k]
      /\ \A k \in 1..Len(Fends(y)) : /\ Fends(one \o y)[Len(Fends(one)) + k] = Len(one) + Fends(y)[k]
                                     /\ Fends(y)[k] \in 1..Len(y)
  <2>1. FendsAdd(one, y)
    BY <1>2, <1>3, FendsOfTwo
  <2> QED
    BY <2>1, Zenon DEF FendsAdd
<1>5. Len(Fends(one)) = 1 /\ Fends(one)[1] = 1 /\ Len(y) \in Nat
  BY <1>2, <1>3
<1>6. /\ Len(Fends(x)) = 1 + Len(Fends(y)) /\ Fends(x)[1] = 1
      /\ \A k \in 1..Len(Fends(y)) : Fends(x)[1 + k] = 1 + Fends(y)[k] /\ Fends(y)[k] >= 1
  BY <1>2, <1>3, <1>4, <1>5
<1> QED
  BY <1>3, <1>6

\* A buffer with an odd number of FENDs ends in the beginning of a frame, which
\* is the only FEND of it that is left over.
Begun(x) == x # <<>> /\ Head(x) = FEND /\ Fends(x) = <<1>>

OpenAt(b, c, p) ==
    /\ p \in 1..Len(b)
    /\ SubSeq(b, 1, p - 1) \in Seq(Byte) /\ SubSeq(b, p, Len(b)) \in Seq(Byte)
    /\ b = SubSeq(b, 1, p - 1) \o SubSeq(b, p, Len(b))
    /\ Len(Fends(SubSeq(b, 1, p - 1))) = c - 1
    /\ Begun(SubSeq(b, p, Len(b)))

\* From its last FEND on, a buffer is a frame that has begun and not ended.
LEMMA OpenFrame ==
  ASSUME NEW b \in Seq(Byte), NEW c \in Nat, c = Len(Fends(b)), c >= 1, NEW p, p = Fends(b)[c]
  PROVE  OpenAt(b, c, p)
<1> DEFINE u == SubSeq(b, 1, p - 1)
           x == SubSeq(b, p, Len(b))
           T == Byte
<1>1. PICK l \in Nat : l = Len(b)
  OBVIOUS
<1>2. p \in 1..l /\ b[p] = FEND
  <2>1. Fends(b) \in Seq(1..Len(b)) /\ c \in 1..Len(Fends(b))
    BY FendsType
  <2>2. Fends(b)[c] \in 1..Len(b)
    BY <2>1, Elements
  <2> QED
    BY <1>1, <2>1, <2>2, FendsAreFends
<1>3. b \in Seq(T) /\ \A i \in 1..l : b[i] \in T
  BY <1>1
<1> HIDE DEF T
<1>4. u \in Seq(T) /\ Len(u) = p - 1
  <2>1. 1 \in Int /\ p - 1 \in Int /\ (\A i \in 1..p - 1 : b[i] \in T) /\ (1 <= p - 1 \/ p - 1 = 0)
    BY <1>2, <1>3
  <2>2. u \in Seq(T) /\ Len(u) = IF 1 <= p - 1 THEN (p - 1) - 1 + 1 ELSE 0
    BY <2>1, SubSeqProperties
  <2> QED
    BY <1>2, <2>1, <2>2
<1>5. x \in Seq(T) /\ Len(x) = l - p + 1 /\ x[1] = FEND
  <2>1. p \in Int /\ l \in Int /\ (\A i \in p..l : b[i] \in T) /\ p <= l
    BY <1>2, <1>3
  <2>2. /\ SubSeq(b, p, l) \in Seq(T) /\ Len(SubSeq(b, p, l)) = IF p <= l THEN l - p + 1 ELSE 0
        /\ \A i \in 1..l - p + 1 : SubSeq(b, p, l)[i] = b[p + i - 1]
    <3>1. p \in Nat /\ l \in Nat /\ 1 <= p /\ l <= Len(b)
      BY <1>1, <1>2
    <3>2. b \in Seq(T)
      BY <1>3
    <3> QED
      BY <3>1, <3>2, SubSeqType
  <2>3. 1 \in 1..l - p + 1 /\ p + 1 - 1 = p
    BY <1>2
  <2> QED
    BY <1>1, <1>2, <2>1, <2>2, <2>3
<1>6. b = u \o x
  <2>1. 1 \in 1..Len(b) + 1 /\ p - 1 \in 1 - 1..Len(b) /\ Len(b) \in p - 1..Len(b) /\ (p - 1) + 1 = p
    BY <1>1, <1>2
  <2>2. SubSeq(b, 1, p - 1) \o SubSeq(b, (p - 1) + 1, Len(b)) = SubSeq(b, 1, Len(b))
    BY <1>3, <2>1, ConcatAdjacentSubSeq
  <2>3. SubSeq(b, 1, Len(b)) = b
    BY <1>3, SubSeqFull
  <2> QED
    BY <2>1, <2>2, <2>3
<1> HIDE DEF u, x
<1>7. x # <<>> /\ Head(x) = FEND
  <2>1. Len(x) # 0
    BY <1>2, <1>5
  <2>2. x # <<>>
    BY <2>1, EmptySeq
  <2> QED
    BY <1>5, <2>2
<1>8. PICK y \in Seq(Byte) :
        /\ Len(Fends(x)) = 1 + Len(Fends(y)) /\ Fends(x)[1] = 1
        /\ \A k \in 1..Len(Fends(y)) : Fends(x)[1 + k] = 1 + Fends(y)[k] /\ Fends(y)[k] >= 1
  BY <1>5, <1>7, FromFend DEF T
<1>9. PICK d \in Nat : d = Len(Fends(y))
  BY FendsType
<1>10. PICK e \in Nat : e = Len(Fends(u))
  <2>1. u \in Seq(Byte)
    BY <1>4 DEF T
  <2> QED
    BY <2>1, FendsType
<1>11. c = e + (1 + d) /\ \A k \in 1..1 + d : Fends(b)[e + k] = (p - 1) + Fends(x)[k]
  <2>1. u \in Seq(Byte) /\ x \in Seq(Byte)
    BY <1>4, <1>5 DEF T
  <2>2. /\ Len(Fends(u \o x)) = Len(Fends(u)) + Len(Fends(x))
        /\ \A k \in 1..Len(Fends(x)) : Fends(u \o x)[Len(Fends(u)) + k] = Len(u) + Fends(x)[k]
    <3>1. FendsAdd(u, x)
      BY <2>1, FendsOfTwo
    <3> QED
      BY <3>1, Zenon DEF FendsAdd
  <2> QED
    BY <1>4, <1>6, <1>8, <1>9, <1>10, <2>2
<1>12. d = 0
  <2> SUFFICES ASSUME d >= 1 PROVE FALSE
    BY <1>9
  <2>1. d \in 1..d /\ 1 + d \in 1..1 + d
    OBVIOUS
  <2>2. Fends(x)[1 + d] = 1 + Fends(y)[d] /\ Fends(y)[d] >= 1
    BY <1>8, <1>9, <2>1
  <2>3. Fends(b)[c] = (p - 1) + Fends(x)[1 + d]
    BY <1>11, <2>1
  <2>4. Fends(y)[d] \in Nat
    <3>1. Fends(y) \in Seq(Nat) /\ d \in 1..Len(Fends(y))
      BY <1>9, <2>1, FendsType
    <3> QED
      BY <3>1
  <2>5. PICK f \in Nat : f = Fends(y)[d]
    BY <2>4
  <2>6. Fends(b)[c] = (p - 1) + (1 + f) /\ f >= 1
    BY <2>2, <2>3, <2>5
  <2> QED
    BY <1>2, <2>6
<1>13. Fends(x) = <<1>>
  <2>1. x \in Seq(Byte)
    BY <1>5 DEF T
  <2>2. Fends(x) \in Seq(Nat) /\ Len(Fends(x)) = 1 /\ Fends(x)[1] = 1
    BY <1>8, <1>9, <1>12, <2>1, FendsType
  <2> QED
    BY <2>2
<1>14. Len(Fends(u)) = c - 1
  BY <1>10, <1>11, <1>12
<1> QED
  BY <1>1, <1>2, <1>4, <1>5, <1>6, <1>7, <1>13, <1>14 DEF OpenAt, Begun, T, u, x

\* A remainder by more than the number is the number.
LEMMA SmallMod ==
  ASSUME NEW a \in Nat, NEW m \in Nat, a < m
  PROVE  a % m = a
  OBVIOUS

\* What stays is nothing, or the one frame that has begun; in a program whose
\* pointers are wider than its integers, it can be lost with all the rest.
LEMMA Cut ==
  ASSUME NEW buf \in Seq(Byte), NEW l \in Nat, l = Len(buf), l >= 1, l < UInt
  PROVE  \E u, x \in Seq(Byte) :
           /\ buf = u \o x
           /\ Len(Fends(u)) = 2 * (Len(Fends(buf)) \div 2)
           /\ x = <<>> \/ Begun(x)
           /\ IF Erased(buf) <= Len(buf) THEN SubSeq(buf, Erased(buf) + 1, Len(buf)) = x
                                         ELSE SubSeq(buf, Erased(buf) + 1, Len(buf)) = <<>> /\ x # <<>>
<1>1. PICK c \in Nat : c = Len(Fends(buf))
  BY FendsType
<1>2. (c % 2 = 0 /\ c = 2 * (c \div 2)) \/ (c % 2 = 1 /\ c = 2 * (c \div 2) + 1)
  OBVIOUS
<1>3. CASE c % 2 = 0
  <2>1. LastGoodPos(buf) = (l - 1) % UInt
    BY <1>1, <1>3 DEF LastGoodPos
  <2>2. Erased(buf) = l
    <3>1. l - 1 \in Nat /\ l - 1 < UInt /\ (l - 1) + 1 = l /\ l < Pointer
      OBVIOUS
    <3>2. (l - 1) % UInt = l - 1 /\ l % Pointer = l
      BY <3>1, SmallMod
    <3> QED
      BY <2>1, <3>1, <3>2 DEF Erased
  <2>3. buf \o <<>> = buf /\ <<>> \in Seq(Byte)
    BY ConcatEmptySeq
  <2>4. SubSeq(buf, l + 1, l) = <<>>
    BY SubSeqEmpty
  <2>5. Len(Fends(buf)) = 2 * (c \div 2)
    BY <1>1, <1>2, <1>3
  <2> DEFINE u == buf
             x == <<>>
  <2>6. u \in Seq(Byte) /\ x \in Seq(Byte) /\ buf = u \o x
    BY <2>3
  <2>7. Len(Fends(u)) = 2 * (Len(Fends(buf)) \div 2)
    BY <1>1, <2>5
  <2>8. Erased(buf) <= Len(buf) /\ SubSeq(buf, Erased(buf) + 1, Len(buf)) = x
    BY <2>2, <2>4
  <2>9. x = <<>>
    OBVIOUS
  <2> HIDE DEF u, x
  <2> QED
    BY <2>6, <2>7, <2>8, <2>9
<1>4. CASE c % 2 = 1
  <2>1. c >= 1
    BY <1>4
  <2> DEFINE p == Fends(buf)[c]
             u == SubSeq(buf, 1, p - 1)
             x == SubSeq(buf, p, l)
  <2>2. /\ p \in 1..l
        /\ u \in Seq(Byte) /\ x \in Seq(Byte)
        /\ buf = u \o x
        /\ Len(Fends(u)) = c - 1
        /\ Begun(x)
    <3>1. OpenAt(buf, c, p)
      BY <1>1, <2>1, OpenFrame
    <3> QED
      BY <1>1, <3>1, Zenon DEF OpenAt
  <2>3. LastGoodPos(buf) = (p - 2) % UInt
    BY <1>1, <1>4 DEF LastGoodPos, Last
  <2>4. c - 1 = 2 * (c \div 2)
    BY <1>2, <1>4
  <2> HIDE DEF p
  <2>5. p - 1 >= 0 /\ (p - 1) + 1 = p /\ x = SubSeq(buf, p, l) /\ (p >= 2 \/ p = 1)
    BY <2>2
  <2> HIDE DEF u, x
  <2>6. IF Erased(buf) <= l THEN SubSeq(buf, Erased(buf) + 1, l) = x
                            ELSE SubSeq(buf, Erased(buf) + 1, l) = <<>> /\ x # <<>>
    <3>1. CASE p >= 2
      <4>1. p - 2 \in Nat /\ p - 2 < UInt /\ (p - 2) + 1 = p - 1 /\ p - 1 \in Nat /\ p - 1 < Pointer
        BY <2>2, <3>1
      <4>2. (p - 2) % UInt = p - 2 /\ (p - 1) % Pointer = p - 1
        BY <4>1, SmallMod
      <4>3. Erased(buf) = p - 1
        BY <2>3, <4>1, <4>2 DEF Erased
      <4>4. Erased(buf) <= l
        BY <2>2, <4>3
      <4>5. Erased(buf) + 1 = p
        BY <2>5, <4>3
      <4> QED
        BY <2>5, <4>4, <4>5
    <3>2. CASE p = 1
      <4>1. (p - 2) % UInt = UInt - 1
        BY <3>2
      <4>2. Erased(buf) = UInt % Pointer
        BY <2>3, <4>1 DEF Erased
      <4>3. CASE Pointer = UInt
        <5>1. Erased(buf) = 0
          BY <4>2, <4>3
        <5> QED
          BY <2>5, <3>2, <5>1
      <4>4. CASE Pointer > UInt
        <5>1. Erased(buf) = UInt
          BY <4>2, <4>4, SmallMod
        <5>2. SubSeq(buf, UInt + 1, l) = <<>>
          BY SubSeqEmpty
        <5> QED
          BY <2>2, <5>1, <5>2 DEF Begun
      <4>5. Pointer = UInt \/ Pointer > UInt
        OBVIOUS
      <4> QED
        BY <4>3, <4>4, <4>5, Zenon
    <3> QED
      BY <2>5, <3>1, <3>2, Zenon
  <2> QED
    BY <1>1, <2>2, <2>4, <2>6
<1> QED
  BY <1>2, <1>3, <1>4, Zenon

\* A frame that has begun is shorter than the whole.
LEMMA BegunIsShort ==
  ASSUME NEW x \in Seq(Byte), Begun(x), NEW rest \in Seq(Byte),
         NEW frames \in Frames, Carries(x \o rest, frames)
  PROVE  /\ frames # <<>> /\ rest # <<>>
         /\ Len(x) < Len(KissEncode(frames[1]))
<1> DEFINE w == x \o rest
<1>1. PICK n \in Nat : n = Len(frames)
  BY DEF Frames
<1>2. PICK d \in Nat : d = Len(Fends(rest))
  BY FendsType
<1>3. /\ Len(Fends(w)) = 1 + d /\ Fends(w)[1] = 1
      /\ \A k \in 1..d : Fends(w)[1 + k] = Len(x) + Fends(rest)[k] /\ Fends(rest)[k] \in 1..Len(rest)
  <2>1. /\ Len(Fends(w)) = Len(Fends(x)) + Len(Fends(rest))
        /\ \A k \in 1..Len(Fends(x)) : Fends(w)[k] = Fends(x)[k]
        /\ \A k \in 1..Len(Fends(rest)) : /\ Fends(w)[Len(Fends(x)) + k] = Len(x) + Fends(rest)[k]
                                          /\ Fends(rest)[k] \in 1..Len(rest)
    <3>1. FendsAdd(x, rest)
      BY FendsOfTwo
    <3> QED
      BY <3>1, Zenon DEF FendsAdd
  <2>2. Len(Fends(x)) = 1 /\ Fends(x)[1] = 1
    BY DEF Begun
  <2> HIDE DEF w
  <2> QED
    BY <1>2, <2>1, <2>2
<1>4. Len(Fends(w)) = 2 * n
  BY <1>1 DEF Carries
<1>5. n >= 1 /\ d >= 1
  BY <1>3, <1>4
<1>6. frames # <<>>
  BY <1>1, <1>5
<1>7. PICK q \in Nat : q = Fends(rest)[1] /\ q >= 1 /\ q <= Len(rest)
  <2>1. Fends(rest)[1] \in 1..Len(rest) /\ Len(rest) \in Nat
    BY <1>3, <1>5
  <2> QED
    BY <2>1
<1>8. rest # <<>>
  BY <1>7
<1>9. KissEncode(frames[1]) = SubSeq(w, 1, Len(x) + q)
  <2> HIDE DEF w
  <2>1. 1 \in 1..Len(frames) /\ 2 * 1 - 1 = 1 /\ 2 * 1 = 2 /\ 1 + 1 = 2 /\ 1 \in 1..d
    BY <1>1, <1>5
  <2>2. SubSeq(w, Fends(w)[2 * 1 - 1], Fends(w)[2 * 1]) = KissEncode(frames[1])
    BY <2>1, Zenon DEF Carries, w
  <2>3. Fends(w)[1 + 1] = Len(x) + q
    BY <1>3, <1>7, <2>1
  <2> QED
    BY <1>3, <2>1, <2>2, <2>3
<1>10. Len(SubSeq(w, 1, Len(x) + q)) = Len(x) + q /\ Len(x) \in Nat
  <2>1. /\ w \in Seq(Byte) /\ Len(x) \in Nat /\ Len(rest) \in Nat /\ Len(w) = Len(x) + Len(rest)
    BY ConcatProperties
  <2> HIDE DEF w
  <2>2. 1 \in Nat /\ Len(x) + q \in Nat /\ 1 <= 1 /\ Len(x) + q <= Len(w) /\ 1 <= Len(x) + q
    BY <1>7, <2>1
  <2>3. Len(SubSeq(w, 1, Len(x) + q)) = IF 1 <= Len(x) + q THEN (Len(x) + q) - 1 + 1 ELSE 0
    BY <2>1, <2>2, SubSeqType
  <2> QED
    BY <2>1, <2>2, <2>3
<1> QED
  BY <1>6, <1>7, <1>8, <1>9, <1>10

\* Payloads, packets and noise are bytes, and the noise has no FEND.
LEMMA ByteTypes ==
  /\ Payloads \subseteq Seq(Byte) /\ Packets \subseteq Seq(Byte)
  /\ \A junk \in Noise : junk \in Seq(Byte) /\ Fends(junk) = <<>>
<1>1. Payloads \subseteq Seq(Byte) /\ Packets \subseteq Seq(Byte)
  BY DEF Byte
<1>2. ASSUME NEW junk \in Noise PROVE junk \in Seq(Byte) /\ Fends(junk) = <<>>
  <2> DEFINE T == 0..255 \ {FEND}
  <2>1. junk \in Seq(T)
    OBVIOUS
  <2>2. T \subseteq Byte /\ \A b \in T : b # FEND
    BY DEF Byte
  <2> HIDE DEF T
  <2>3. junk \in Seq(Byte)
    BY <2>1, <2>2, SeqMonotonic
  <2>4. \A i \in 1..Len(junk) : junk[i] # FEND
    BY <2>1, <2>2, Elements
  <2> QED
    BY <2>3, <2>4, FendsNone
<1> QED
  BY <1>1, <1>2

\* Payloads, one after another, are frames the client may send.
LEMMA FramesOf ==
  ASSUME NEW s \in Seq(Payloads)
  PROVE  s \in Frames
  BY ByteTypes, SeqMonotonic DEF Frames

\* A read submits the frames that are complete, and leaves the rest of the
\* stream; or it loses the beginning of one whose end has not come yet.
LEMMA ReadLeaves ==
  ASSUME NEW in \in Seq(Byte), NEW bytes \in Seq(Byte), NEW n \in 1..MaxChunk, n <= Len(bytes),
         NEW frames \in Seq(Payloads), Carries(in \o bytes, frames), in = <<>> \/ Begun(in)
  PROVE  LET buf == in \o SubSeq(bytes, 1, n)
             left == SubSeq(buf, Erased(buf) + 1, Len(buf))
             coming == SubSeq(bytes, n + 1, Len(bytes))
         IN /\ left \in Seq(Byte) /\ coming \in Seq(Byte)
            /\ \E first, last \in Seq(Payloads) :
                 /\ frames = first \o last
                 /\ FramesIn(buf) = Decodable(first)
                 /\ IF Erased(buf) <= Len(buf)
                      THEN Carries(left \o coming, last) /\ (left = <<>> \/ Begun(left))
                      ELSE last # <<>> /\ coming # <<>>
<1> DEFINE chunk == SubSeq(bytes, 1, n)
           coming == SubSeq(bytes, n + 1, Len(bytes))
           buf == in \o chunk
           left == SubSeq(buf, Erased(buf) + 1, Len(buf))
           T == Byte
<1>1. n \in Nat /\ n >= 1 /\ n <= MaxChunk /\ Len(bytes) \in Nat /\ Len(in) \in Nat
  OBVIOUS
<1>2. chunk \in Seq(T) /\ Len(chunk) = n /\ coming \in Seq(T) /\ bytes = chunk \o coming
  <2>1. bytes \in Seq(T) /\ in \in Seq(T)
    OBVIOUS
  <2> HIDE DEF T
  <2>2. chunk \in Seq(T) /\ Len(chunk) = IF 1 <= n THEN n - 1 + 1 ELSE 0
    BY <1>1, <2>1, SubSeqType
  <2>3. coming \in Seq(T)
    <3>1. (\A i \in n + 1..Len(bytes) : bytes[i] \in T) /\ n + 1 \in Int /\ Len(bytes) \in Int
      BY <1>1, <2>1
    <3> QED
      BY <3>1, SubSeqProperties
  <2>4. chunk \o coming = SubSeq(bytes, 1, Len(bytes))
    <3>1. 1 \in 1..Len(bytes) + 1 /\ n \in 1 - 1..Len(bytes) /\ Len(bytes) \in n..Len(bytes)
      BY <1>1
    <3> QED
      BY <2>1, <3>1, ConcatAdjacentSubSeq
  <2>5. SubSeq(bytes, 1, Len(bytes)) = bytes
    BY <2>1, SubSeqFull
  <2> HIDE DEF chunk, coming
  <2>6. Len(chunk) = n
    BY <1>1, <2>2
  <2> QED
    BY <2>2, <2>3, <2>4, <2>5, <2>6, Zenon
<1> HIDE DEF chunk, coming
<1>3. buf \in Seq(Byte) /\ Len(buf) = Len(in) + n
  <2> DEFINE U == Byte
  <2>1. in \in Seq(U) /\ chunk \in Seq(U)
    BY <1>2 DEF T
  <2> HIDE DEF U
  <2>2. buf \in Seq(U) /\ Len(buf) = Len(in) + Len(chunk)
    BY <2>1, Concatenated
  <2> QED
    BY <1>2, <2>2 DEF U
<1>4. frames \in Frames
  BY FramesOf
<1>5. Len(buf) < UInt
  <2>1. CASE in = <<>>
    <3>1. Len(in) = 0
      BY <2>1
    <3> QED
      BY <1>1, <1>3, <3>1
  <2>2. CASE Begun(in)
    <3>1. frames # <<>> /\ Len(in) < Len(KissEncode(frames[1]))
      BY <1>4, <2>2, BegunIsShort
    <3>2. frames[1] \in Payloads
      BY <3>1, EmptySeq
    <3>3. PICK m \in Nat : m = Len(KissEncode(frames[1]))
      <4>1. frames[1] \in Seq(Byte)
        BY <3>2, ByteTypes
      <4> QED
        BY <4>1, EncodeFends
    <3>4. m + MaxChunk <= UInt
      BY <3>2, <3>3
    <3> HIDE DEF buf
    <3> QED
      BY <1>1, <1>3, <3>1, <3>3, <3>4
  <2> QED
    BY <2>1, <2>2
<1> HIDE DEF T, buf
<1>6. PICK u, x \in Seq(Byte) :
        /\ buf = u \o x
        /\ Len(Fends(u)) = 2 * (Len(Fends(buf)) \div 2)
        /\ x = <<>> \/ Begun(x)
        /\ IF Erased(buf) <= Len(buf) THEN left = x ELSE left = <<>> /\ x # <<>>
  <2>1. Len(buf) \in Nat /\ Len(buf) >= 1
    BY <1>1, <1>3
  <2> QED
    BY <1>3, <1>5, <2>1, Cut
<1>7. PICK j \in Nat : Len(Fends(u)) = 2 * j
  <2>1. Len(Fends(buf)) \div 2 \in Nat
    <3>1. Len(Fends(buf)) \in Nat
      BY <1>3, FendsType
    <3> QED
      BY <3>1
  <2> QED
    BY <1>6, <2>1
<1>8. in \o bytes = u \o (x \o coming) /\ x \o coming \in Seq(Byte)
  <2>1. in \in Seq(Byte) /\ chunk \in Seq(Byte) /\ coming \in Seq(Byte) /\ u \in Seq(Byte) /\ x \in Seq(Byte)
    BY <1>2 DEF T
  <2>2. in \o chunk = u \o x
    BY <1>6, Zenon DEF buf
  <2>3. in \o (chunk \o coming) = u \o (x \o coming)
    <3>1. Assoc(in, chunk, coming) /\ Assoc(u, x, coming)
      BY <2>1, Associative
    <3>2. (in \o chunk) \o coming = (u \o x) \o coming
      BY <2>2, Zenon
    <3> QED
      BY <3>1, <3>2, Zenon DEF Assoc
  <2>4. x \o coming \in Seq(Byte)
    BY <2>1, ConcatProperties
  <2> QED
    BY <1>2, <2>2, <2>3, <2>4, Zenon
<1> DEFINE v == x \o coming
           first == SubSeq(frames, 1, j)
           last == SubSeq(frames, j + 1, Len(frames))
<1>9. j <= Len(frames) /\ Carries(u, first) /\ Carries(v, last)
  <2>1. v \in Seq(Byte) /\ Carries(u \o v, frames)
    <3>1. in \o bytes = u \o v /\ v \in Seq(Byte)
      BY <1>8, Zenon
    <3>2. Carries(in \o bytes, frames)
      OBVIOUS
    <3> DEFINE w == in \o bytes
               z == u \o v
    <3>3. w = z /\ Carries(w, frames)
      BY <3>1, <3>2, Zenon
    <3> HIDE DEF v, w, z
    <3>4. Carries(z, frames)
      BY <3>3, Zenon
    <3> QED
      BY <3>1, <3>4, Zenon DEF z
  <2> HIDE DEF v
  <2> QED
    BY <1>4, <1>7, <2>1, CarriesSplit
<1>10. first \in Seq(Payloads) /\ last \in Seq(Payloads) /\ frames = first \o last
  <2>1. Len(frames) \in Nat
    OBVIOUS
  <2>2. (\A i \in 1..j : frames[i] \in Payloads) /\ (\A i \in j + 1..Len(frames) : frames[i] \in Payloads)
    <3>1. PICK m \in Nat : m = Len(frames) /\ j <= m
      BY <1>9, <2>1
    <3>2. \A i \in 1..m : frames[i] \in Payloads
      BY <3>1
    <3>3. (\A i \in 1..j : frames[i] \in Payloads) /\ (\A i \in j + 1..m : frames[i] \in Payloads)
      BY <3>1, <3>2
    <3> QED
      BY <3>1, <3>3
  <2>3. first \in Seq(Payloads) /\ last \in Seq(Payloads)
    BY <2>1, <2>2, SubSeqProperties
  <2>4. first \o last = SubSeq(frames, 1, Len(frames))
    <3>1. 1 \in 1..Len(frames) + 1 /\ j \in 1 - 1..Len(frames) /\ Len(frames) \in j..Len(frames)
      BY <1>9, <2>1
    <3> QED
      BY <3>1, ConcatAdjacentSubSeq
  <2>5. SubSeq(frames, 1, Len(frames)) = frames
    BY SubSeqFull
  <2> HIDE DEF first, last
  <2> QED
    BY <2>3, <2>4, <2>5
<1> HIDE DEF first, last
<1>11. FramesIn(buf) = Decodable(first)
  <2>1. Len(Fends(x)) <= 1
    <3>1. CASE x = <<>>
      <4>1. Fends(x) = <<>>
        <5>1. \A i \in 1..Len(x) : x[i] # FEND
          BY <3>1
        <5> QED
          BY <5>1, FendsNone
      <4> QED
        BY <4>1
    <3>2. CASE Begun(x)
      BY <3>2 DEF Begun
    <3> QED
      BY <1>6, <3>1, <3>2
  <2>2. first \in Frames
    BY <1>10, FramesOf
  <2> QED
    BY <1>6, <1>9, <2>1, <2>2, FramesInIs
<1> HIDE DEF left
<1>12. left \in Seq(Byte) /\ coming \in Seq(Byte)
  <2>1. <<>> \in Seq(Byte)
    OBVIOUS
  <2>2. left \in Seq(Byte)
    BY <1>6, <2>1, Zenon
  <2> QED
    BY <1>2, <2>2 DEF T
<1>13. CASE Erased(buf) <= Len(buf)
  <2>1. Carries(left \o coming, last) /\ (left = <<>> \/ Begun(left))
    BY <1>6, <1>9, <1>13, Zenon
  <2> QED
    BY <1>10, <1>11, <1>12, <1>13, <2>1, Zenon DEF left, buf, chunk, coming
<1>14. CASE ~(Erased(buf) <= Len(buf))
  <2>1. Begun(x) /\ last \in Frames
    BY <1>6, <1>10, <1>14, FramesOf
  <2>2. last # <<>> /\ coming # <<>>
    BY <1>9, <1>12, <2>1, BegunIsShort
  <2> QED
    BY <1>10, <1>11, <1>12, <1>14, <2>2, Zenon DEF left, buf, chunk, coming
<1> QED
  BY <1>13, <1>14

-----------------------------------------------------------------------------
(* The invariant.                                                          *)

\* The transmitter got what can be decoded of the frames that were read; the
\* others are in inbuff and on the wire, in order, and inbuff holds nothing but
\* the beginning of the first.  The exception is the read that loses such a
\* beginning; then the rest of its frame is on the wire.
Halfway(done, rest) ==
    /\ sent = done \o rest
    /\ submitted = Decodable(done)
    /\ IF defined THEN Carries(inbuff \o wire, rest) /\ (inbuff = <<>> \/ Begun(inbuff))
                  ELSE rest # <<>> /\ wire # <<>>

Upstream == \E done, rest \in Seq(Payloads) : Halfway(done, rest)

\* The client is sent the packets, each in a frame.
Downstream == Carries(to_client, relayed)

IInv == TypeOK /\ Upstream /\ Downstream

\* The two ways to group what is read and what is sent after it are the same bytes.
LEMMA Regrouped ==
  \A a, b, c, d \in Seq(Byte) : a \o ((b \o c) \o d) = ((a \o b) \o c) \o d
<1> TAKE a, b, c, d \in Seq(Byte)
<1>1. b \o c \in Seq(Byte)
  BY ConcatProperties
<1>2. Assoc(a, b \o c, d) /\ Assoc(a, b, c)
  BY <1>1, Associative
<1> QED
  BY <1>2, Zenon DEF Assoc

\* No bytes carry no frames.
LEMMA Nothing ==
  /\ <<>> \in Seq(Byte) /\ <<>> \in Frames /\ <<>> \in Seq(Payloads) /\ <<>> \in Seq(Packets)
  /\ Fends(<<>>) = <<>> /\ Decodable(<<>>) = <<>> /\ Carries(<<>>, <<>>)
<1>1. <<>> \in Seq(Byte) /\ <<>> \in Frames /\ <<>> \in Seq(Payloads) /\ <<>> \in Seq(Packets)
  BY DEF Frames
<1>2. Fends(<<>>) = <<>>
  <2>1. \A i \in 1..Len(<<>>) : <<>>[i] # FEND
    OBVIOUS
  <2> QED
    BY <1>1, <2>1, FendsNone
<1>3. Decodable(<<>>) = <<>>
  BY ChosenEmpty DEF Decodable
<1>4. Carries(<<>>, <<>>)
  BY <1>2 DEF Carries
<1> QED
  BY <1>1, <1>2, <1>3, <1>4

\* The invariant holds when the client connects.
LEMMA InitEstablishes == Init => IInv
<1> SUFFICES ASSUME Init PROVE IInv
  OBVIOUS
<1>1. /\ sent = <<>> /\ wire = <<>> /\ inbuff = <<>> /\ submitted = <<>> /\ defined = TRUE
      /\ relayed = <<>> /\ to_client = <<>>
  BY DEF Init
<1>2. TypeOK
  <2>1. <<>> \in Seq(0..255) /\ <<>> \in Seq(Seq(0..255)) /\ <<>> \in Seq(Payloads) /\ <<>> \in Seq(Packets)
    OBVIOUS
  <2> QED
    BY <1>1, <2>1, Zenon DEF TypeOK
<1>3. Upstream
  <2>1. <<>> \in Seq(Payloads) /\ <<>> \in Seq(Byte)
    BY Nothing
  <2>2. sent = <<>> \o <<>> /\ inbuff \o wire = <<>>
    BY <1>1
  <2>3. Halfway(<<>>, <<>>)
    BY <1>1, <2>2, Nothing, Zenon DEF Halfway
  <2> QED
    BY <2>1, <2>3 DEF Upstream
<1>4. Downstream
  BY <1>1, Nothing, Zenon DEF Downstream
<1> QED
  BY <1>2, <1>3, <1>4 DEF IInv

\* The types in the form the lemmas about streams want.
LEMMA Typed ==
  ASSUME TypeOK
  PROVE  /\ sent \in Seq(Payloads) /\ relayed \in Seq(Packets) /\ relayed \in Frames
         /\ wire \in Seq(Byte) /\ inbuff \in Seq(Byte) /\ to_client \in Seq(Byte)
         /\ submitted \in Frames /\ defined \in BOOLEAN
<1>1. sent \in Seq(Payloads) /\ relayed \in Seq(Packets) /\ defined \in BOOLEAN
  BY DEF TypeOK
<1>2. wire \in Seq(Byte) /\ inbuff \in Seq(Byte) /\ to_client \in Seq(Byte) /\ submitted \in Frames
  BY Zenon DEF TypeOK, Byte, Frames
<1>3. relayed \in Frames
  BY <1>1, ByteTypes, SeqMonotonic DEF Frames
<1> QED
  BY <1>1, <1>2, <1>3

\* A frame the client sends, with the noise before it, keeps the invariant.
LEMMA ClientSendsKeeps == IInv /\ ClientSends => IInv'
<1> SUFFICES ASSUME IInv, ClientSends PROVE IInv'
  OBVIOUS
<1>1. PICK data \in Payloads, junk \in Noise :
        sent' = Append(sent, data) /\ wire' = (wire \o junk) \o KissEncode(data)
  BY DEF ClientSends
<1>2. UNCHANGED <<inbuff, submitted, defined, relayed, to_client>>
  BY DEF ClientSends
<1>3. TypeOK
  BY DEF IInv
<1>4. /\ sent \in Seq(Payloads) /\ wire \in Seq(Byte) /\ inbuff \in Seq(Byte)
      /\ data \in Seq(Byte) /\ junk \in Seq(Byte) /\ Fends(junk) = <<>>
  BY <1>3, Typed, ByteTypes
<1> DEFINE e == KissEncode(data)
<1>5. e \in Seq(Byte) /\ e # <<>>
  <2>1. e \in Seq(Byte) /\ Len(e) >= 3
    BY <1>4, EncodeFends
  <2> HIDE DEF e
  <2> QED
    BY <2>1
<1>6. wire \o junk \in Seq(Byte)
  BY <1>4, ConcatProperties
<1>7. wire' \in Seq(Byte) /\ wire' # <<>>
  <2> HIDE DEF e
  <2>1. (wire \o junk) \o e \in Seq(Byte) /\ (wire \o junk) \o e # <<>>
    BY <1>5, <1>6, ConcatProperties, ConcatEqualIffEmpty
  <2> QED
    BY <1>1, <2>1, Zenon DEF e
<1>8. TypeOK'
  <2>1. sent' \in Seq(Payloads)
    BY <1>1, <1>4, Appended
  <2>2. wire' \in Seq(0..255) /\ inbuff' \in Seq(0..255) /\ to_client' \in Seq(0..255)
    BY <1>2, <1>3, <1>7 DEF TypeOK, Byte
  <2>3. submitted' \in Seq(Seq(0..255)) /\ defined' \in BOOLEAN /\ relayed' \in Seq(Packets)
    BY <1>2, <1>3 DEF TypeOK
  <2> QED
    BY <2>1, <2>2, <2>3 DEF TypeOK
<1>9. Upstream'
  <2>1. PICK done, rest \in Seq(Payloads) : Halfway(done, rest)
    BY DEF IInv, Upstream
  <2> DEFINE more == Append(rest, data)
  <2>2. more \in Seq(Payloads) /\ more # <<>>
    <3>1. more \in Seq(Payloads) /\ Len(rest) \in Nat /\ Len(more) = Len(rest) + 1
      BY Appended
    <3> HIDE DEF more
    <3> QED
      BY <3>1
  <2>3. sent' = done \o more
    <3>1. Behind(done, rest, data)
      BY AppendBehind
    <3> QED
      BY <1>1, <2>1, <3>1, Zenon DEF Halfway, Behind
  <2>4. CASE defined
    <3>1. Carries(inbuff \o wire, rest) /\ inbuff \o wire \in Seq(Byte)
      <4>1. inbuff \o wire \in Seq(Byte)
        BY <1>4, ConcatProperties
      <4> QED
        BY <2>1, <2>4, <4>1 DEF Halfway
    <3>2. rest \in Frames
      BY FramesOf
    <3>3. Carries(((inbuff \o wire) \o junk) \o e, more)
      BY <1>4, <3>1, <3>2, CarriesMore
    <3>4. inbuff \o ((wire \o junk) \o e) = ((inbuff \o wire) \o junk) \o e
      <4> HIDE DEF e
      <4>1. \A c, d \in Seq(Byte) : inbuff \o ((wire \o c) \o d) = ((inbuff \o wire) \o c) \o d
        BY <1>4, Regrouped, Zenon
      <4> QED
        BY <1>4, <1>5, <4>1, Zenon
    <3>5. Carries(inbuff' \o wire', more)
      BY <1>1, <1>2, <3>3, <3>4, Zenon
    <3>6. Halfway(done, more)'
      BY <1>2, <2>1, <2>3, <2>4, <3>5, Zenon DEF Halfway
    <3> QED
      BY <2>2, <3>6, Zenon DEF Upstream
  <2>5. CASE ~defined
    <3>1. Halfway(done, more)'
      BY <1>2, <1>7, <2>1, <2>2, <2>3, <2>5, Zenon DEF Halfway
    <3> QED
      BY <2>2, <3>1, Zenon DEF Upstream
  <2> QED
    BY <2>4, <2>5
<1>10. Downstream'
  BY <1>2, Zenon DEF IInv, Downstream
<1> QED
  BY <1>8, <1>9, <1>10 DEF IInv

\* A packet written to the client keeps it.
LEMMA WriteKeeps == IInv /\ Write => IInv'
<1> SUFFICES ASSUME IInv, Write PROVE IInv'
  OBVIOUS
<1>1. PICK data \in Packets :
        relayed' = Append(relayed, data) /\ to_client' = to_client \o KissEncode(data)
  BY DEF Write
<1>2. UNCHANGED <<sent, wire, inbuff, submitted, defined>>
  BY DEF Write, upstream
<1>3. TypeOK
  BY DEF IInv
<1>4. /\ relayed \in Seq(Packets) /\ relayed \in Frames /\ to_client \in Seq(Byte)
      /\ data \in Seq(Byte) /\ KissEncode(data) \in Seq(Byte)
  BY <1>3, Typed, ByteTypes, EncodeFends
<1>5. TypeOK'
  <2>1. relayed' \in Seq(Packets)
    BY <1>1, <1>4, Appended
  <2>2. to_client' \in Seq(Byte)
    BY <1>1, <1>4, ConcatProperties
  <2>3. wire' \in Seq(0..255) /\ inbuff' \in Seq(0..255) /\ to_client' \in Seq(0..255)
    BY <1>2, <1>3, <2>2 DEF TypeOK, Byte
  <2>4. submitted' \in Seq(Seq(0..255)) /\ defined' \in BOOLEAN /\ sent' \in Seq(Payloads)
    BY <1>2, <1>3 DEF TypeOK
  <2> QED
    BY <2>1, <2>3, <2>4 DEF TypeOK
<1>6. Upstream'
  <2>1. PICK done, rest \in Seq(Payloads) : Halfway(done, rest)
    BY DEF IInv, Upstream
  <2>2. Halfway(done, rest)'
    BY <1>2, <2>1, Zenon DEF Halfway
  <2> QED
    BY <2>2, Zenon DEF Upstream
<1>7. Downstream'
  <2>1. Carries(to_client, relayed)
    BY DEF IInv, Downstream
  <2>2. Carries((to_client \o <<>>) \o KissEncode(data), Append(relayed, data))
    BY <1>4, <2>1, Nothing, CarriesMore
  <2>3. to_client \o <<>> = to_client
    BY <1>4, ConcatEmptySeq
  <2> QED
    BY <1>1, <2>2, <2>3, Zenon DEF Downstream
<1> QED
  BY <1>5, <1>6, <1>7 DEF IInv

\* A read of any length keeps it: handle_incoming_data takes the whole frames
\* out of the buffer and leaves the one that has begun.
LEMMA HandleIncomingDataKeeps == IInv /\ HandleIncomingData => IInv'
<1> SUFFICES ASSUME IInv, HandleIncomingData PROVE IInv'
  OBVIOUS
<1>1. TypeOK /\ Upstream /\ Downstream /\ defined /\ UNCHANGED <<sent, relayed, to_client>>
  BY DEF IInv, HandleIncomingData
<1>2. PICK n \in 1..MaxChunk :
        /\ n <= Len(wire)
        /\ wire' = SubSeq(wire, n + 1, Len(wire))
        /\ LET buf == inbuff \o SubSeq(wire, 1, n)
           IN /\ submitted' = submitted \o FramesIn(buf)
              /\ defined' = (Erased(buf) <= Len(buf))
              /\ inbuff' = SubSeq(buf, Erased(buf) + 1, Len(buf))
  BY DEF HandleIncomingData
<1> DEFINE buf == inbuff \o SubSeq(wire, 1, n)
<1>3. PICK done, rest \in Seq(Payloads) : Halfway(done, rest)
  BY <1>1 DEF Upstream
<1>4. wire \in Seq(Byte) /\ inbuff \in Seq(Byte)
  BY <1>1, Typed
<1>5. Carries(inbuff \o wire, rest) /\ (inbuff = <<>> \/ Begun(inbuff))
  BY <1>1, <1>3 DEF Halfway
<1>6. /\ inbuff' \in Seq(Byte) /\ wire' \in Seq(Byte)
      /\ \E first, last \in Seq(Payloads) :
           /\ rest = first \o last
           /\ FramesIn(buf) = Decodable(first)
           /\ IF defined' THEN Carries(inbuff' \o wire', last) /\ (inbuff' = <<>> \/ Begun(inbuff'))
                          ELSE last # <<>> /\ wire' # <<>>
  <2>1. LET b == inbuff \o SubSeq(wire, 1, n)
            left == SubSeq(b, Erased(b) + 1, Len(b))
            coming == SubSeq(wire, n + 1, Len(wire))
        IN /\ left \in Seq(Byte) /\ coming \in Seq(Byte)
           /\ \E first, last \in Seq(Payloads) :
                /\ rest = first \o last
                /\ FramesIn(b) = Decodable(first)
                /\ IF Erased(b) <= Len(b)
                     THEN Carries(left \o coming, last) /\ (left = <<>> \/ Begun(left))
                     ELSE last # <<>> /\ coming # <<>>
    BY <1>2, <1>4, <1>5, ReadLeaves
  <2> QED
    BY <1>2, <2>1, Zenon
<1> HIDE DEF buf
<1>7. PICK first, last \in Seq(Payloads) :
        /\ rest = first \o last
        /\ FramesIn(buf) = Decodable(first)
        /\ IF defined' THEN Carries(inbuff' \o wire', last) /\ (inbuff' = <<>> \/ Begun(inbuff'))
                       ELSE last # <<>> /\ wire' # <<>>
  BY <1>6
<1> DEFINE U == Payloads
           read == done \o first
<1>8. done \in Seq(U) /\ first \in Seq(U) /\ last \in Seq(U)
  OBVIOUS
<1> HIDE DEF U
<1>9. read \in Seq(U) /\ read \o last = done \o (first \o last)
  <2>1. read \in Seq(U)
    BY <1>8, ConcatProperties
  <2>2. Assoc(done, first, last)
    BY <1>8, Associative
  <2> QED
    BY <2>1, <2>2, Zenon DEF Assoc
<1>10. submitted' = Decodable(read) /\ Decodable(read) \in Seq(U)
  <2>1. submitted' = Decodable(done) \o Decodable(first)
    <3>1. submitted' = submitted \o FramesIn(buf)
      BY <1>2, Zenon DEF buf
    <3>2. submitted = Decodable(done)
      BY <1>3, Zenon DEF Halfway
    <3>3. FramesIn(buf) = Decodable(first)
      BY <1>7, Zenon
    <3> QED
      BY <3>1, <3>2, <3>3, Zenon
  <2>2. Decodable(read) = Decodable(done) \o Decodable(first)
    <3>1. DecodesAdd(done, first)
      BY <1>8, DecodableOfTwo
    <3> QED
      BY <3>1, Zenon DEF DecodesAdd
  <2>3. Decodable(read) \in Seq(U)
    <3> HIDE DEF read
    <3> QED
      BY <1>9, DecodableType
  <2> QED
    BY <2>1, <2>2, <2>3, Zenon
<1>11. sent' = read \o last
  BY <1>1, <1>3, <1>7, <1>9 DEF Halfway
<1> HIDE DEF read
<1>12. TypeOK'
  <2>1. submitted' \in Seq(Seq(0..255))
    <3>1. Decodable(read) \in Seq(Payloads)
      BY <1>10 DEF U
    <3>2. Decodable(read) \in Frames
      BY <3>1, FramesOf
    <3> QED
      BY <1>10, <3>2 DEF Frames, Byte
  <2>2. defined' \in BOOLEAN
    BY <1>2
  <2>3. inbuff' \in Seq(0..255) /\ wire' \in Seq(0..255) /\ to_client' \in Seq(0..255)
    BY <1>1, <1>6 DEF TypeOK, Byte
  <2>4. sent' \in Seq(Payloads) /\ relayed' \in Seq(Packets)
    BY <1>1 DEF TypeOK
  <2> QED
    BY <2>1, <2>2, <2>3, <2>4 DEF TypeOK
<1>13. Upstream'
  <2>1. read \in Seq(Payloads)
    BY <1>9 DEF U
  <2>2. Halfway(read, last)'
    BY <1>7, <1>10, <1>11, Zenon DEF Halfway
  <2> QED
    BY <2>1, <2>2, Zenon DEF Upstream
<1>14. Downstream'
  BY <1>1, Zenon DEF Downstream
<1> QED
  BY <1>12, <1>13, <1>14 DEF IInv

\* Nothing that the invariant reads changes in a stuttering step.
LEMMA StutterKeeps == IInv /\ UNCHANGED vars => IInv'
<1> SUFFICES ASSUME IInv, UNCHANGED vars PROVE IInv'
  OBVIOUS
<1>1. UNCHANGED <<sent, wire, inbuff, submitted, defined, relayed, to_client>>
  BY DEF vars, upstream
<1>2. TypeOK'
  BY <1>1 DEF IInv, TypeOK
<1>3. Upstream'
  <2>1. PICK done, rest \in Seq(Payloads) : Halfway(done, rest)
    BY DEF IInv, Upstream
  <2>2. Halfway(done, rest)'
    BY <1>1, <2>1, Zenon DEF Halfway
  <2> QED
    BY <2>2, Zenon DEF Upstream
<1>4. Downstream'
  BY <1>1, Zenon DEF IInv, Downstream
<1> QED
  BY <1>2, <1>3, <1>4 DEF IInv

-----------------------------------------------------------------------------
(* The theorems.                                                           *)

\* In every behaviour the frames a client submitted are accounted for, in
\* order: handed to the transmitter, or in inbuff_ and on the wire; so are the
\* packets write() was given (kiss_session::handle_incoming_data, ::write).
THEOREM KissInvariant == Spec => []IInv
<1>1. Init => IInv
  BY InitEstablishes
<1>2. IInv /\ [Next]_vars => IInv'
  BY ClientSendsKeeps, WriteKeeps, HandleIncomingDataKeeps, StutterKeeps DEF Next
<1> QED
  BY <1>1, <1>2, PTL DEF Spec

\* Every variable keeps its type: bytes stay bytes in both buffers, and the
\* transmitter gets sequences of bytes (kiss_encode, kiss_decode).
THEOREM TypeCorrect == Spec => []TypeOK
<1>1. IInv => TypeOK
  BY DEF IInv
<1> QED
  BY <1>1, KissInvariant, PTL

\* Decodable frames of the ones that were read come first among those of all.
LEMMA PrefixOfConcat ==
  ASSUME NEW T, NEW s \in Seq(T), NEW t \in Seq(T)
  PROVE  IsPrefix(s, s \o t)
<1>1. Len(s) \in Nat /\ Len(t) \in Nat /\ Len(s \o t) = Len(s) + Len(t)
  BY Concatenated
<1>2. SubSeq(s \o t, 1, Len(s)) = s
  BY SubSeqOfConcat1
<1>3. SubSeq(s, 1, Len(s)) = s
  BY SubSeqFull
<1>4. Len(s) <= Len(s \o t)
  BY <1>1
<1> QED
  BY <1>2, <1>3, <1>4 DEF IsPrefix

\* When inbuff_ holds the beginning of a frame at most, it carries none.
LEMMA CarriesNone ==
  ASSUME NEW x, x = <<>> \/ Begun(x), NEW frames \in Seq(Payloads), Carries(x, frames)
  PROVE  frames = <<>>
<1>1. PICK l \in Nat : l = Len(frames)
  OBVIOUS
<1>2. Len(Fends(x)) = 2 * l
  BY <1>1 DEF Carries
<1>3. Len(Fends(x)) <= 1
  <2>1. CASE x = <<>>
    <3>1. Fends(x) = <<>>
      BY <2>1, Nothing
    <3> QED
      BY <3>1
  <2>2. CASE Begun(x)
    <3>1. Fends(x) = <<1>>
      BY <2>2 DEF Begun
    <3> QED
      BY <3>1
  <2> QED
    BY <2>1, <2>2
<1>4. l = 0
  BY <1>2, <1>3
<1> QED
  BY <1>1, <1>4, EmptySeq

\* The transmitter gets the client's frames whole, once and in order, however
\* the reads cut the stream, and all of them but those with an FESC or without
\* data; inbuff_ keeps nothing but one unfinished frame
\* (kiss_session::handle_incoming_data).
THEOREM FramesSurvive == Spec => []FramesSurviveChunks
<1>1. IInv => FramesSurviveChunks
  <2> SUFFICES ASSUME IInv PROVE FramesSurviveChunks
    OBVIOUS
  <2>1. TypeOK
    BY DEF IInv
  <2>2. PICK done, rest \in Seq(Payloads) : Halfway(done, rest)
    BY DEF IInv, Upstream
  <2>3. sent = done \o rest /\ submitted = Decodable(done)
    BY <2>2 DEF Halfway
  <2>4. IsPrefix(submitted, Decodable(sent))
    <3> DEFINE a == Decodable(done)
               b == Decodable(rest)
    <3>1. a \in Seq(Payloads) /\ b \in Seq(Payloads)
      BY DecodableType
    <3>2. Decodable(sent) = a \o b
      <4>1. DecodesAdd(done, rest)
        BY DecodableOfTwo
      <4> QED
        BY <2>3, <4>1, Zenon DEF DecodesAdd
    <3>3. submitted = a
      BY <2>3
    <3> HIDE DEF a, b
    <3>4. IsPrefix(a, a \o b)
      BY <3>1, PrefixOfConcat
    <3> QED
      BY <3>2, <3>3, <3>4, Zenon
  <2>5. ASSUME wire = <<>> PROVE submitted = Decodable(sent)
    <3>1. defined
      BY <2>1, <2>2, <2>5, Zenon DEF Halfway, TypeOK
    <3>2. Carries(inbuff \o wire, rest) /\ (inbuff = <<>> \/ Begun(inbuff))
      BY <2>2, <3>1 DEF Halfway
    <3>3. inbuff \o wire = inbuff
      <4>1. inbuff \in Seq(Byte)
        BY <2>1, Typed
      <4> QED
        BY <2>5, <4>1, ConcatEmptySeq
    <3>4. rest = <<>>
      BY <3>2, <3>3, CarriesNone
    <3>5. done \o rest = done
      BY <3>4, ConcatEmptySeq
    <3> QED
      BY <2>3, <3>5, Zenon
  <2>6. ASSUME defined, inbuff # <<>> PROVE Head(inbuff) = FEND /\ Len(Fends(inbuff)) = 1
    <3>1. Begun(inbuff)
      BY <2>2, <2>6 DEF Halfway
    <3>2. Len(<<1>>) = 1
      OBVIOUS
    <3> QED
      BY <3>1, <3>2, Zenon DEF Begun
  <2> QED
    BY <2>4, <2>5, <2>6 DEF FramesSurviveChunks
<1> QED
  BY <1>1, KissInvariant, PTL

\* A client that follows the rules of kiss.cpp:44-62 reads the packets write()
\* was given, in order and byte for byte, special bytes included
\* (kiss_session::write, kiss_encode).
THEOREM ClientReads == Spec => []ClientReadsEveryPacket
<1>1. IInv => ClientReadsEveryPacket
  <2> SUFFICES ASSUME IInv PROVE ClientReadsEveryPacket
    OBVIOUS
  <2> DEFINE f == Fends(to_client)
             w == to_client
             l == Len(w)
  <2>1. Carries(w, relayed) /\ w \in Seq(Byte) /\ relayed \in Frames
    BY Typed DEF IInv, Downstream
  <2>2. PICK n \in Nat : n = Len(relayed)
    BY <2>1 DEF Frames
  <2>3. Len(f) = 2 * n
    BY <2>1, <2>2 DEF Carries
  <2>4. l \in Nat /\ \A i \in 1..2 * n : f[i] \in 1..l
    <3>1. f \in Seq(1..l) /\ l \in Nat
      BY <2>1, FendsType
    <3> HIDE DEF f, l
    <3>2. \A i \in 1..Len(f) : f[i] \in 1..l
      BY <3>1
    <3> QED
      BY <2>3, <3>1, <3>2
  <2>5. ASSUME NEW k \in 1..n
        PROVE  relayed[k] = Standard(SubSeq(w, f[2 * k - 1] + 1, f[2 * k] - 1))
    <3> DEFINE data == relayed[k]
               e == KissEncode(data)
               i == f[2 * k - 1]
               j == f[2 * k]
    <3>1. data \in Seq(Byte) /\ SubSeq(w, i, j) = e
      BY <2>1, <2>2 DEF Carries, Frames
    <3>2. i \in 1..l /\ j \in 1..l
      <4>1. 2 * k - 1 \in 1..2 * n /\ 2 * k \in 1..2 * n
        OBVIOUS
      <4> HIDE DEF f, l
      <4> QED
        BY <2>4, <4>1
    <3>3. Len(e) \in Nat /\ Len(e) >= 3
      BY <3>1, EncodeFends
    <3>4. Standard(SubSeq(e, 2, Len(e) - 1)) = data
      BY <3>1, StandardOfEncode
    <3> HIDE DEF f, data, e, i, j
    <3>5. Len(e) = j - i + 1
      <4>1. Len(SubSeq(w, i, j)) = IF i <= j THEN j - i + 1 ELSE 0
        <5>1. i \in Nat /\ j \in Nat /\ 1 <= i /\ j <= Len(w)
          BY <2>4, <3>2
        <5> HIDE DEF w
        <5> QED
          BY <2>1, <5>1, SubSeqType
      <4>2. i \in Nat /\ j \in Nat
        BY <2>4, <3>2
      <4> HIDE DEF w
      <4> QED
        BY <3>1, <3>3, <4>1, <4>2
    <3>6. SubSeq(e, 2, Len(e) - 1) = SubSeq(w, i + 1, j - 1)
      <4>1. i \in 1..Len(w) /\ j \in 1..Len(w) /\ 2 \in 1..j - i + 1 /\ Len(e) - 1 \in 1..j - i + 1
        BY <2>4, <3>2, <3>3, <3>5
      <4>2. SubSeq(SubSeq(w, i, j), 2, Len(e) - 1) = SubSeq(w, i + 2 - 1, i + (Len(e) - 1) - 1)
        <5> HIDE DEF w, l
        <5> QED
          BY <2>1, <4>1, SubSeqOfSubSeq
      <4>3. i + 2 - 1 = i + 1 /\ i + (Len(e) - 1) - 1 = j - 1
        BY <2>4, <3>2, <3>3, <3>5
      <4> QED
        BY <3>1, <4>2, <4>3
    <3> QED
      BY <3>4, <3>6 DEF data, i, j
  <2>6. Len(f) \div 2 = n
    BY <2>3
  <2>7. relayed = [k \in 1..n |-> relayed[k]]
    BY <2>1, <2>2 DEF Frames
  <2> HIDE DEF f, w, l
  <2>8. relayed = [k \in 1..Len(f) \div 2 |-> Standard(SubSeq(w, f[2 * k - 1] + 1, f[2 * k] - 1))]
    BY <2>5, <2>6, <2>7
  <2> QED
    BY <2>8 DEF ClientReadsEveryPacket, f, w
<1> QED
  BY <1>1, KissInvariant, PTL
=============================================================================
