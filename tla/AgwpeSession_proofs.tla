------------------------ MODULE AgwpeSession_proofs ------------------------
(***************************************************************************)
(* Proofs about AGWPE sessions for every size of header and data, any      *)
(* number of frames and packets, and reads that end anywhere.              *)
(***************************************************************************)
EXTENDS AgwpeSession, Recursion, SequenceTheorems

USE Ax25Assumption, AgwpeAssumption
-----------------------------------------------------------------------------
(* The bytes of a stream of frames.                                        *)

\* BytesOf(n) for a stream that is not a variable.
Bytes(s, n) ==
    LET sum[i \in 0..n] == IF i = 0 THEN 0 ELSE sum[i - 1] + Header + s[i].len
    IN sum[n]

\* The length of any frame is a natural number.
LEMMA FrameLength == \A f \in Frame : f.len \in Nat
<1>1. ASSUME NEW f \in Plain \cup WithData PROVE f.len \in Nat
  <2>1. CASE f \in Plain
    BY <2>1 DEF Plain
  <2>2. CASE f \in WithData
    <3>1. f.len \in DataLens
      BY <2>2 DEF WithData
    <3>2. DataLens \subseteq Nat
      OBVIOUS
    <3> QED
      BY <3>1, <3>2, Zenon
  <2> QED
    BY <2>1, <2>2
<1>2. \A v \in Vias : ViaLen(v) \in Nat
  <2>1. SUFFICES ASSUME NEW v \in Vias PROVE ViaLen(v) \in Nat
    OBVIOUS
  <2>2. v.repeaters \in Seq(Address) /\ v.text \in Seq(0..255)
    OBVIOUS
  <2> DEFINE r == Len(v.repeaters)
             t == Len(v.text)
  <2>3. r \in Nat /\ t \in Nat
    BY <2>2, LenProperties
  <2>4. ViaLen(v) = 1 + r + t
    BY DEF ViaLen
  <2> HIDE DEF r, t
  <2> QED
    BY <2>3, <2>4
<1>3. \A f \in ViaFrame : f.len \in Nat
  BY <1>2 DEF ViaFrame
<1> QED
  BY <1>1, <1>3 DEF Frame

\* The sums for all beginnings of a stream are one function.
LEMMA BytesAreSums ==
  ASSUME NEW s \in Seq(Frame), NEW m \in 0..Len(s)
  PROVE  \E f \in [0..m -> Nat] :
           /\ \A i \in 0..m : f[i] = IF i = 0 THEN 0 ELSE f[i - 1] + Header + s[i].len
           /\ Bytes(s, m) = f[m]
<1>1. m \in Nat /\ \A i \in 1..m : s[i].len \in Nat
  BY FrameLength
<1> DEFINE step == [vi \in Nat \X (1..m) |-> vi[1] + Header + s[vi[2]].len]
           Is(f) == f = [i \in 0..m |-> IF i = 0 THEN 0 ELSE f[i - 1] + Header + s[i].len]
<1>2. step \in [Nat \X (1..m) -> Nat]
  BY <1>1
<1>3. \E g : Recurs(g, m, Nat, 0, step)
  <2> HIDE DEF step
  <2> QED
    BY <1>1, <1>2, RecursionDefines
<1>4. PICK g \in [0..m -> Nat] : \A i \in 0..m : g[i] = IF i = 0 THEN 0 ELSE step[<<g[i - 1], i>>]
  <2> HIDE DEF step
  <2> QED
    BY <1>3 DEF Recurs
<1>5. Is(g)
  <2>1. ASSUME NEW i \in 0..m PROVE g[i] = IF i = 0 THEN 0 ELSE g[i - 1] + Header + s[i].len
    <3>1. CASE i = 0
      BY <1>4, <3>1
    <3>2. CASE i # 0
      <4>1. i \in 1..m /\ g[i - 1] \in Nat
        BY <1>4, <3>2
      <4> QED
        BY <1>4, <3>2, <4>1
    <3> QED
      BY <3>1, <3>2
  <2> QED
    BY <2>1
<1> DEFINE f == CHOOSE h : Is(h)
<1>6. Is(f)
  BY <1>5
<1>7. Bytes(s, m) = f[m]
  BY DEF Bytes
<1>8. \A i \in 0..m : f[i] = IF i = 0 THEN 0 ELSE f[i - 1] + Header + s[i].len
  BY <1>6, Zenon
<1> HIDE DEF f
<1>9. \A i \in 0..m : f[i] \in Nat
  <2> DEFINE S == {i \in 0..m : f[i] \in Nat}
  <2>1. 0 \in S
    BY <1>1, <1>8
  <2>2. ASSUME NEW i \in 1..m, i - 1 \in S PROVE i \in S
    <3>1. f[i] = f[i - 1] + Header + s[i].len
      BY <1>1, <1>8
    <3>2. PICK x \in Nat, l \in Nat : x = f[i - 1] /\ l = s[i].len
      BY <1>1, <2>2
    <3>3. f[i] = x + Header + l /\ Header \in Nat
      BY <3>1, <3>2, AgwpeAssumption, Zenon
    <3>4. f[i] \in Nat /\ i \in 0..m
      BY <1>1, <3>3
    <3> QED
      BY <3>4
  <2> HIDE DEF S
  <2>3. 0..m \subseteq S
    BY <1>1, <2>1, <2>2, UpTo
  <2> QED
    BY <2>3 DEF S
<1>10. f \in [0..m -> Nat]
  BY <1>6, <1>9
<1> QED
  BY <1>7, <1>8, <1>10

\* The sums begin with nothing, and go from one frame to the next.
LEMMA BytesStep ==
  ASSUME NEW s \in Seq(Frame)
  PROVE  /\ Bytes(s, 0) = 0
         /\ \A n \in 1..Len(s) : Bytes(s, n) = Bytes(s, n - 1) + Header + s[n].len
         /\ \A n \in 0..Len(s) : Bytes(s, n) \in Nat
<1>1. Len(s) \in Nat
  OBVIOUS
<1>2. Bytes(s, 0) = 0
  <2>1. 0 \in 0..Len(s)
    BY <1>1
  <2> QED
    BY <2>1, BytesAreSums
<1>3. \A n \in 0..Len(s) : Bytes(s, n) \in Nat
  <2>1. SUFFICES ASSUME NEW n \in 0..Len(s) PROVE Bytes(s, n) \in Nat
    OBVIOUS
  <2>2. PICK f \in [0..n -> Nat] : Bytes(s, n) = f[n]
    BY BytesAreSums
  <2>3. n \in 0..n
    BY <1>1
  <2> QED
    BY <2>2, <2>3
<1>4. ASSUME NEW n \in 1..Len(s) PROVE Bytes(s, n) = Bytes(s, n - 1) + Header + s[n].len
  <2>1. n \in Nat /\ n \in 0..Len(s) /\ n - 1 \in 0..Len(s) /\ n - 1 \in Nat
    BY <1>1
  <2>2. PICK f \in [0..n -> Nat] :
           /\ \A i \in 0..n : f[i] = IF i = 0 THEN 0 ELSE f[i - 1] + Header + s[i].len
           /\ Bytes(s, n) = f[n]
    BY <2>1, BytesAreSums
  <2>3. PICK g \in [0..n - 1 -> Nat] :
           /\ \A i \in 0..n - 1 : g[i] = IF i = 0 THEN 0 ELSE g[i - 1] + Header + s[i].len
           /\ Bytes(s, n - 1) = g[n - 1]
    BY <2>1, BytesAreSums
  <2> DEFINE S == {i \in 0..n - 1 : f[i] = g[i]}
  <2>4. 0 \in S
    BY <2>1, <2>2, <2>3
  <2>5. ASSUME NEW i \in 1..n - 1, i - 1 \in S PROVE i \in S
    <3>1. i \in 0..n /\ i \in 0..n - 1 /\ i # 0
      BY <2>1
    <3>2. f[i] = f[i - 1] + Header + s[i].len /\ g[i] = g[i - 1] + Header + s[i].len
      BY <2>2, <2>3, <3>1
    <3> QED
      BY <2>5, <3>1, <3>2
  <2> HIDE DEF S
  <2>6. 0..n - 1 \subseteq S
    BY <2>1, <2>4, <2>5, UpTo
  <2>7. f[n - 1] = g[n - 1]
    BY <2>1, <2>6 DEF S
  <2>8. n \in 0..n /\ n # 0
    BY <2>1
  <2>9. f[n] = f[n - 1] + Header + s[n].len
    BY <2>2, <2>8
  <2> QED
    BY <2>2, <2>3, <2>7, <2>9
<1> QED
  BY <1>2, <1>3, <1>4

\* A stream is longer than a beginning of it by a header and data at least.
LEMMA BytesGrow ==
  ASSUME NEW s \in Seq(Frame), NEW n \in 0..Len(s), NEW m \in 0..Len(s), n < m
  PROVE  Bytes(s, n) + Header + s[n + 1].len <= Bytes(s, m)
<1>1. n \in Nat /\ m \in Nat /\ Len(s) \in Nat /\ n + 1 \in 1..Len(s) /\ (n + 1) - 1 = n
  OBVIOUS
<1>2. Bytes(s, n + 1) = Bytes(s, n) + Header + s[n + 1].len
  BY <1>1, BytesStep
<1> DEFINE S == {k \in 0..m : n < k => Bytes(s, n + 1) <= Bytes(s, k)}
<1>3. 0 \in S
  BY <1>1
<1>4. ASSUME NEW k \in 1..m, k - 1 \in S PROVE k \in S
  <2>1. k \in 1..Len(s) /\ k \in 0..Len(s) /\ k - 1 \in 0..Len(s) /\ n + 1 \in 0..Len(s) /\ k \in 0..m
    BY <1>1
  <2>2. /\ Bytes(s, k) = Bytes(s, k - 1) + Header + s[k].len /\ s[k].len \in Nat
        /\ Bytes(s, k) \in Nat /\ Bytes(s, k - 1) \in Nat /\ Bytes(s, n + 1) \in Nat
    BY <2>1, BytesStep, FrameLength
  <2>3. CASE k = n + 1
    BY <2>1, <2>2, <2>3
  <2>4. CASE k < n + 1
    BY <1>1, <2>1, <2>4
  <2>5. CASE k > n + 1
    <3>1. n < k - 1
      BY <1>1, <2>5
    <3>2. Bytes(s, n + 1) <= Bytes(s, k - 1)
      BY <1>4, <3>1
    <3> QED
      BY <2>1, <2>2, <3>2
  <2> QED
    BY <1>1, <2>3, <2>4, <2>5
<1> HIDE DEF S
<1>5. 0..m \subseteq S
  BY <1>1, <1>3, <1>4, UpTo
<1>6. m \in S
  BY <1>1, <1>5
<1> QED
  BY <1>1, <1>2, <1>6 DEF S

\* What the client sends later does not move what it sent before.
LEMMA BytesStay ==
  ASSUME NEW s \in Seq(Frame), NEW f \in Frame, NEW n \in 0..Len(s)
  PROVE  Bytes(Append(s, f), n) = Bytes(s, n)
<1> DEFINE t == Append(s, f)
<1>1. /\ t \in Seq(Frame) /\ Len(t) = Len(s) + 1 /\ Len(s) \in Nat /\ n \in Nat
      /\ \A i \in 1..Len(s) : t[i] = s[i]
  BY AppendProperties
<1> HIDE DEF t
<1> DEFINE S == {k \in 0..n : Bytes(t, k) = Bytes(s, k)}
<1>2. 0 \in S
  BY <1>1, BytesStep
<1>3. ASSUME NEW k \in 1..n, k - 1 \in S PROVE k \in S
  <2>1. k \in 1..Len(s) /\ k \in 1..Len(t) /\ k \in 0..n
    BY <1>1
  <2>2. Bytes(s, k) = Bytes(s, k - 1) + Header + s[k].len
    BY <2>1, BytesStep
  <2>3. Bytes(t, k) = Bytes(t, k - 1) + Header + t[k].len
    BY <1>1, <2>1, BytesStep
  <2> QED
    BY <1>1, <1>3, <2>1, <2>2, <2>3
<1> HIDE DEF S
<1>4. 0..n \subseteq S
  BY <1>1, <1>2, <1>3, UpTo
<1>5. n \in S
  BY <1>1, <1>4
<1> QED
  BY <1>5 DEF S, t
-----------------------------------------------------------------------------
(* The octets composed for a V frame.                                      *)

\* What has been flattened after each sequence.
Flattened(seqs, T, f) ==
    /\ f \in [1..Len(seqs) -> Seq(T)]
    /\ f[1] = seqs[1]
    /\ \A i \in 2..Len(seqs) : f[i] = f[i - 1] \o seqs[i]

\* FlattenSeq(seqs) is the last of the sequences its recursion builds.
LEMMA FlattenRounds ==
  ASSUME NEW T, NEW seqs \in Seq(Seq(T)), Len(seqs) # 0
  PROVE  \E f : Flattened(seqs, T, f) /\ FlattenSeq(seqs) = f[Len(seqs)]
<1> DEFINE n == Len(seqs)
           step == [vi \in Seq(T) \X (1..n - 1) |-> vi[1] \o seqs[vi[2] + 1]]
           Is(f) == f = [i \in 1..n |-> IF i = 1 THEN seqs[i] ELSE f[i - 1] \o seqs[i]]
<1>1. n \in Nat /\ n # 0 /\ \A i \in 1..n : seqs[i] \in Seq(T)
  OBVIOUS
<1>2. FlattenSeq(seqs) = (CHOOSE f : Is(f))[n]
  BY <1>1 DEF FlattenSeq
<1> HIDE DEF n
<1>3. \A v \in Seq(T), i \in 1..n - 1 : v \o seqs[i + 1] \in Seq(T)
  BY <1>1, ConcatProperties
<1>4. step \in [Seq(T) \X (1..n - 1) -> Seq(T)]
  BY <1>3
<1>5. n - 1 \in Nat /\ seqs[1] \in Seq(T)
  BY <1>1
<1>6. \E g : Recurs(g, n - 1, Seq(T), seqs[1], step)
  <2> HIDE DEF step
  <2> QED
    BY <1>4, <1>5, RecursionDefines
<1>7. PICK g \in [0..n - 1 -> Seq(T)] :
        \A i \in 0..n - 1 : g[i] = IF i = 0 THEN seqs[1] ELSE step[<<g[i - 1], i>>]
  <2> HIDE DEF step
  <2> QED
    BY <1>6 DEF Recurs
<1> DEFINE shifted == [i \in 1..n |-> g[i - 1]]
<1>8. Is(shifted)
  <2>1. ASSUME NEW i \in 1..n, i # 1 PROVE g[i - 1] = g[i - 2] \o seqs[i]
    <3>1. i - 1 \in 1..n - 1 /\ i - 1 \in 0..n - 1 /\ i - 1 # 0 /\ (i - 1) - 1 = i - 2 /\ (i - 1) + 1 = i
      BY <1>1, <2>1
    <3>2. g[i - 2] \in Seq(T)
      BY <1>1, <1>7, <3>1
    <3>3. step[<<g[i - 2], i - 1>>] = g[i - 2] \o seqs[i]
      BY <3>1, <3>2
    <3> QED
      BY <1>7, <3>1, <3>3
  <2>2. g[0] = seqs[1]
    <3>1. 0 \in 0..n - 1
      BY <1>5
    <3> QED
      BY <1>7, <3>1
  <2>3. ASSUME NEW i \in 1..n PROVE shifted[i] = IF i = 1 THEN seqs[i] ELSE shifted[i - 1] \o seqs[i]
    <3>1. CASE i = 1
      BY <2>2, <3>1
    <3>2. CASE i # 1
      <4>1. i - 1 \in 1..n /\ (i - 1) - 1 = i - 2
        BY <1>1, <3>2
      <4> QED
        BY <2>1, <3>2, <4>1
    <3> QED
      BY <3>1, <3>2
  <2> QED
    BY <2>3
<1> DEFINE f == CHOOSE h : Is(h)
<1>9. Is(f)
  BY <1>8
<1> HIDE DEF f
<1>10. \A i \in 1..n : f[i] = IF i = 1 THEN seqs[i] ELSE f[i - 1] \o seqs[i]
  BY <1>9, Zenon
<1> DEFINE S == {i \in 0..n - 1 : f[i + 1] \in Seq(T)}
<1>11. 0 \in S
  <2>1. 1 \in 1..n /\ 0 + 1 = 1 /\ 0 \in 0..n - 1
    BY <1>1
  <2>2. f[1] = seqs[1]
    BY <1>10, <2>1
  <2> QED
    BY <1>5, <2>1, <2>2
<1>12. ASSUME NEW i \in 1..n - 1, i - 1 \in S PROVE i \in S
  <2>1. i + 1 \in 1..n /\ i + 1 # 1 /\ (i + 1) - 1 = i /\ i \in 0..n - 1
    BY <1>1
  <2>2. f[i + 1] = f[i] \o seqs[i + 1] /\ seqs[i + 1] \in Seq(T) /\ i \in 0..n - 1
    BY <1>1, <1>10, <2>1
  <2>3. f[i] \in Seq(T)
    BY <1>1, <1>12
  <2>4. f[i + 1] \in Seq(T)
    BY <2>2, <2>3, ConcatProperties
  <2> QED
    BY <2>2, <2>4
<1> HIDE DEF S
<1>13. 0..n - 1 \subseteq S
  BY <1>5, <1>11, <1>12, UpTo
<1>14. f \in [1..n -> Seq(T)]
  <2>1. ASSUME NEW i \in 1..n PROVE f[i] \in Seq(T)
    <3>1. i - 1 \in 0..n - 1 /\ (i - 1) + 1 = i
      BY <1>1
    <3>2. i - 1 \in S
      BY <1>13, <3>1
    <3> QED
      BY <3>1, <3>2 DEF S
  <2>2. f = [i \in 1..n |-> f[i]]
    BY <1>9
  <2> QED
    BY <2>1, <2>2
<1>15. f[1] = seqs[1] /\ \A i \in 2..n : f[i] = f[i - 1] \o seqs[i]
  <2>1. 1 \in 1..n /\ \A i \in 2..n : i \in 1..n /\ i # 1
    BY <1>1
  <2> QED
    BY <1>10, <2>1
<1>16. Flattened(seqs, T, f)
  BY <1>14, <1>15 DEF Flattened, n
<1> QED
  BY <1>2, <1>16 DEF f, n

\* What is flattened has the type of the parts.
LEMMA FlattenType ==
  ASSUME NEW T, NEW seqs \in Seq(Seq(T))
  PROVE  FlattenSeq(seqs) \in Seq(T)
<1>1. CASE Len(seqs) = 0
  BY <1>1, EmptySeq DEF FlattenSeq
<1>2. CASE Len(seqs) # 0
  <2>1. PICK f : Flattened(seqs, T, f) /\ FlattenSeq(seqs) = f[Len(seqs)]
    BY <1>2, FlattenRounds
  <2>2. Len(seqs) \in 1..Len(seqs)
    BY <1>2
  <2> QED
    BY <2>1, <2>2, Zenon DEF Flattened
<1> QED
  BY <1>1, <1>2

\* Multiples, one after the other and in order.
LEMMA Multiples ==
  ASSUME NEW w \in Nat, NEW k \in Nat
  PROVE  w * k \in Nat /\ w * (k + 1) = w * k + w /\ w * 0 = 0
  OBVIOUS

\* A smaller multiple is no larger.
LEMMA MultiplesInOrder ==
  ASSUME NEW w \in Nat, NEW k \in Nat, NEW m \in Nat, k <= m
  PROVE  w * k <= w * m
  OBVIOUS

\* Element i of part k.
InPart(flat, w, seqs, n) ==
    \A k \in 1..n, i \in 1..w : flat[w * (k - 1) + i] = seqs[k][i]

\* One more part of width w behind n of them.
LEMMA OneMorePart ==
  ASSUME NEW T, NEW w \in Nat, NEW n \in Nat, NEW seqs \in Seq(Seq(T)), n + 1 <= Len(seqs),
         NEW flat \in Seq(T), Len(flat) = w * n, InPart(flat, w, seqs, n),
         Len(seqs[n + 1]) = w
  PROVE  /\ Len(flat \o seqs[n + 1]) = w * (n + 1)
         /\ InPart(flat \o seqs[n + 1], w, seqs, n + 1)
<1> DEFINE last == seqs[n + 1]
           whole == flat \o last
<1>1. PICK x \in Nat : x = w * n /\ w * (n + 1) = x + w
  BY Multiples
<1>2. n + 1 \in 1..Len(seqs) /\ (n + 1) - 1 = n
  OBVIOUS
<1>3. last \in Seq(T) /\ Len(last) = w
  BY <1>2, Elements
<1> HIDE DEF last
<1>4. /\ Len(whole) = x + w
      /\ \A i \in 1..x : whole[i] = flat[i]
      /\ \A i \in 1..w : whole[x + i] = last[i]
  <2>1. Joined(whole, flat, last, Len(flat), Len(last))
    BY <1>3, JoinedOfTwo
  <2>2. Joined(whole, flat, last, x, w)
    BY <1>1, <1>3, <2>1
  <2> QED
    BY <2>2, Zenon DEF Joined
<1> HIDE DEF whole
<1>5. ASSUME NEW k \in 1..n + 1, NEW i \in 1..w PROVE whole[w * (k - 1) + i] = seqs[k][i]
  <2>1. CASE k = n + 1
    <3>1. whole[x + i] = last[i]
      BY <1>4
    <3> QED
      BY <1>1, <1>2, <2>1, <3>1 DEF last
  <2>2. CASE k # n + 1
    <3>1. k \in 1..n /\ k - 1 \in Nat /\ (k - 1) + 1 = k /\ k \in Nat
      BY <2>2
    <3>2. PICK y \in Nat : y = w * (k - 1) /\ w * k = y + w
      BY <3>1, Multiples
    <3>3. y + w <= x
      BY <1>1, <3>1, <3>2, MultiplesInOrder
    <3>4. y + i \in 1..x
      BY <3>3
    <3>5. whole[y + i] = flat[y + i]
      BY <1>4, <3>4
    <3>6. flat[w * (k - 1) + i] = seqs[k][i]
      BY <3>1, Zenon DEF InPart
    <3> QED
      BY <3>2, <3>5, <3>6
  <2> QED
    BY <2>1, <2>2
<1> QED
  BY <1>1, <1>4, <1>5 DEF InPart, whole, last

\* Parts of one width stand at its multiples.
LEMMA FlattenEqual ==
  ASSUME NEW T, NEW w \in Nat, NEW seqs \in Seq(Seq(T)),
         \A k \in 1..Len(seqs) : Len(seqs[k]) = w
  PROVE  /\ Len(FlattenSeq(seqs)) = w * Len(seqs)
         /\ InPart(FlattenSeq(seqs), w, seqs, Len(seqs))
<1>1. CASE Len(seqs) = 0
  <2>1. FlattenSeq(seqs) = seqs /\ w * 0 = 0
    BY <1>1, Multiples DEF FlattenSeq
  <2> QED
    BY <1>1, <2>1 DEF InPart
<1>2. CASE Len(seqs) # 0
  <2>1. PICK f : Flattened(seqs, T, f) /\ FlattenSeq(seqs) = f[Len(seqs)]
    BY <1>2, FlattenRounds
  <2>2. PICK n \in Nat : n + 1 = Len(seqs)
    <3>1. Len(seqs) - 1 \in Nat /\ (Len(seqs) - 1) + 1 = Len(seqs)
      BY <1>2
    <3> QED
      BY <3>1, Zenon
  <2>3. /\ \A i \in 1..n + 1 : f[i] \in Seq(T)
        /\ f[1] = seqs[1]
        /\ \A i \in 2..n + 1 : f[i] = f[i - 1] \o seqs[i]
    BY <2>1, <2>2 DEF Flattened
  <2> DEFINE S == {i \in 0..n : Len(f[i + 1]) = w * (i + 1) /\ InPart(f[i + 1], w, seqs, i + 1)}
  <2>4. 0 \in S
    <3>1. w * 1 = w /\ w * 0 = 0 /\ 1 \in 1..Len(seqs) /\ 0 + 1 = 1 /\ 1 - 1 = 0
      BY <2>2
    <3>2. Len(f[1]) = w * (0 + 1)
      BY <2>3, <3>1
    <3>3. InPart(f[1], w, seqs, 1)
      <4>1. SUFFICES ASSUME NEW i \in 1..w PROVE f[1][w * (1 - 1) + i] = seqs[1][i]
        BY DEF InPart
      <4>2. w * (1 - 1) + i = i
        BY <3>1
      <4> QED
        BY <2>3, <4>2
    <3> QED
      BY <3>1, <3>2, <3>3
  <2>5. ASSUME NEW i \in 1..n, i - 1 \in S PROVE i \in S
    <3>1. /\ (i - 1) + 1 = i /\ i \in 0..n /\ i \in 1..n + 1 /\ i + 1 \in 2..n + 1 /\ (i + 1) - 1 = i
          /\ i + 1 \in 1..Len(seqs) /\ i + 1 <= Len(seqs) /\ i \in Nat
      BY <2>2
    <3>2. Len(f[i]) = w * i /\ InPart(f[i], w, seqs, i)
      BY <2>5, <3>1
    <3>3. f[i] \in Seq(T) /\ Len(seqs[i + 1]) = w
      BY <2>3, <3>1
    <3>4. f[i + 1] = f[i] \o seqs[i + 1]
      BY <2>3, <3>1
    <3>5. Len(f[i] \o seqs[i + 1]) = w * (i + 1) /\ InPart(f[i] \o seqs[i + 1], w, seqs, i + 1)
      <4> DEFINE flat == f[i]
      <4>1. flat \in Seq(T) /\ Len(flat) = w * i /\ InPart(flat, w, seqs, i) /\ i + 1 <= Len(seqs)
        BY <3>1, <3>2, <3>3
      <4> HIDE DEF flat
      <4>2. Len(flat \o seqs[i + 1]) = w * (i + 1) /\ InPart(flat \o seqs[i + 1], w, seqs, i + 1)
        BY <3>1, <3>3, <4>1, OneMorePart
      <4> QED
        BY <4>2 DEF flat
    <3> QED
      BY <3>1, <3>4, <3>5
  <2> HIDE DEF S
  <2>6. n \in S
    <3>1. 0..n \subseteq S
      BY <2>4, <2>5, UpTo
    <3> QED
      BY <3>1
  <2> QED
    BY <2>1, <2>2, <2>6 DEF S
<1> QED
  BY <1>1, <1>2

\* An address is octets: the SSID and the flags leave room for each other.
LEMMA AddrType ==
  ASSUME NEW address \in Address, NEW first \in BOOLEAN, NEW last \in BOOLEAN
  PROVE  EncodeAddr(address, first, last) \in Seq(0..255)
<1>1. Flag01(first) \in 0..1 /\ Flag01(last) \in 0..1
  BY DEF Flag01
<1>2. address.ssid \in Int /\ address.call \in Seq(0..255)
  BY DEF Address
<1> DEFINE octet == 128 * Flag01(first) + 96 + 2 * (address.ssid % 16) + Flag01(last)
           Char(i) == IF i <= Len(address.call) THEN address.call[i] ELSE Space
           chars == [i \in 1..CallLen |-> (2 * Char(i)) % 256]
<1>3. address.ssid % 16 \in 0..15
  BY <1>2
<1>4. octet \in 0..255
  <2> DEFINE x == Flag01(first)
             y == Flag01(last)
             z == address.ssid % 16
  <2>1. x \in 0..1 /\ y \in 0..1 /\ z \in 0..15
    BY <1>1, <1>3
  <2>2. octet = 128 * x + 96 + 2 * z + y
    OBVIOUS
  <2> HIDE DEF x, y, z, octet
  <2> QED
    BY <2>1, <2>2
<1>5. ASSUME NEW i \in 1..CallLen PROVE Char(i) \in 0..255
  <2>1. CASE i <= Len(address.call)
    <3> DEFINE call == address.call
               n == Len(call)
    <3>1. n \in Nat /\ \A k \in 1..n : call[k] \in 0..255
      BY <1>2, Elements
    <3> HIDE DEF n
    <3>2. i \in 1..n
      BY <2>1, <3>1 DEF n
    <3>3. call[i] \in 0..255
      BY <3>1, <3>2, Zenon
    <3> QED
      BY <2>1, <3>3
  <2>2. CASE ~(i <= Len(address.call))
    BY <2>2 DEF Space
  <2> QED
    BY <2>1, <2>2
<1>6. ASSUME NEW i \in 1..CallLen PROVE (2 * Char(i)) % 256 \in 0..255
  <2> DEFINE c == Char(i)
  <2>1. c \in 0..255
    BY <1>5
  <2> HIDE DEF c
  <2>2. (2 * c) % 256 \in 0..255
    BY <2>1
  <2> QED
    BY <2>2 DEF c
<1>7. chars \in Seq(0..255) /\ <<octet>> \in Seq(0..255)
  <2>1. CallLen \in Nat
    OBVIOUS
  <2> HIDE DEF octet, Char
  <2>2. chars \in [1..CallLen -> 0..255]
    BY <1>6
  <2>3. chars \in Seq(0..255)
    BY <2>1, <2>2, IsASeq
  <2> QED
    BY <1>4, <2>3
<1>8. EncodeAddr(address, first, last) = chars \o <<octet>>
  BY DEF EncodeAddr
<1> HIDE DEF octet, chars
<1> QED
  BY <1>7, <1>8, ConcatProperties

\* What a client reads of a text field, up to its NUL, is bytes.
LEMMA UpToNulType ==
  ASSUME NEW text \in Seq(0..255)
  PROVE  UpToNul(text) \in Seq(0..255)
<1> DEFINE nuls == {i \in 1..Len(text) : text[i] = 0}
           First(i) == \A j \in nuls : i <= j
           end == CHOOSE i \in nuls : First(i)
<1>1. CASE nuls = {}
  BY <1>1 DEF UpToNul
<1>2. CASE nuls # {}
  <2>1. nuls \subseteq Nat
    OBVIOUS
  <2>2. \E i \in nuls : First(i)
    <3> HIDE DEF nuls
    <3> QED
      BY <1>2, <2>1, LeastNumber
  <2>3. end \in 1..Len(text)
    BY <2>2
  <2>4. UpToNul(text) = SubSeq(text, 1, end - 1)
    BY <1>2 DEF UpToNul
  <2> HIDE DEF end
  <2> DEFINE n == Len(text)
  <2>5. end \in 1..n /\ n \in Nat
    BY <2>3
  <2> HIDE DEF n
  <2>6. n \in Nat /\ end - 1 \in Nat /\ end - 1 <= n
    BY <2>5
  <2>7. ASSUME NEW i \in 1..end - 1 PROVE text[i] \in 0..255
    <3>1. i \in 1..n
      BY <2>6
    <3>2. text[i] \in 0..255
      BY <3>1, Elements DEF n
    <3> QED
      BY <3>2
  <2> HIDE DEF n
  <2> QED
    BY <2>4, <2>6, <2>7, SubSeqProperties
<1> QED
  BY <1>1, <1>2

\* What is composed for any frame is octets, none for those not composed here.
LEMMA ComposeType ==
  ASSUME NEW f \in Frame
  PROVE  Compose(f) \in Seq(0..255)
<1>1. CASE f.kind # "V"
  BY <1>1, EmptySeq DEF Compose
<1>2. CASE f.kind = "V"
  <2>1. f \in ViaFrame
    BY <1>2 DEF Frame, Plain, WithData
  <2>2. f.via \in Vias
    BY <2>1 DEF ViaFrame
  <2> DEFINE reps == f.via.repeaters
             n == Len(reps)
             each == [k \in 1..n |-> EncodeRepeater(reps[k], k = n)]
             text == UpToNul(f.via.text)
  <2>3. reps \in Seq(Address) /\ text \in Seq(0..255)
    BY <2>2, UpToNulType
  <2>4. n \in Nat
    BY <2>3
  <2>5. \A k \in 1..n : reps[k] \in Address
    BY <2>3
  <2>6. EncodeRepeaters(reps) = FlattenSeq(each)
    BY DEF EncodeRepeaters
  <2> HIDE DEF n
  <2>7. each \in Seq(Seq(0..255))
    <3>1. \A k \in 1..n : EncodeRepeater(reps[k], k = n) \in Seq(0..255)
      BY <2>5, AddrType DEF EncodeRepeater
    <3>2. each \in [1..n -> Seq(0..255)]
      BY <3>1
    <3> HIDE DEF each
    <3> QED
      BY <2>4, <3>2, IsASeq
  <2>8. EncodeRepeaters(reps) \in Seq(0..255)
    <3> HIDE DEF each
    <3> QED
      BY <2>6, <2>7, FlattenType
  <2>9. EncodeDestination(To) \in Seq(0..255) /\ EncodeSource(From, reps # <<>>) \in Seq(0..255)
    BY AddrType DEF EncodeDestination, EncodeSource
  <2>10. <<UIFrame, NoLayer3>> \in Seq(0..255)
    BY DEF UIFrame, NoLayer3
  <2>11. Compose(f) = EncodeDestination(To) \o EncodeSource(From, reps # <<>>)
                        \o EncodeRepeaters(reps) \o <<UIFrame, NoLayer3>> \o text
    BY <1>2 DEF Compose, EncodeFrame
  <2> HIDE DEF reps, text
  <2> QED
    BY <2>3, <2>8, <2>9, <2>10, <2>11, ConcatProperties
<1> QED
  BY <1>1, <1>2
-----------------------------------------------------------------------------
(* What is printed of a frame composed.                                    *)

\* The octets of an address, one by one.
LEMMA AddrOctets ==
  ASSUME NEW address \in Address, NEW first \in BOOLEAN, NEW last \in BOOLEAN
  PROVE  LET a == EncodeAddr(address, first, last)
         IN /\ a \in Seq(0..255) /\ Len(a) = AddrLen
            /\ \A i \in 1..CallLen :
                 a[i] = (2 * (IF i <= Len(address.call) THEN address.call[i] ELSE Space)) % 256
            /\ a[AddrLen] = 128 * Flag01(first) + 96 + 2 * (address.ssid % 16) + Flag01(last)
<1> DEFINE octet == 128 * Flag01(first) + 96 + 2 * (address.ssid % 16) + Flag01(last)
           Char(i) == (2 * (IF i <= Len(address.call) THEN address.call[i] ELSE Space)) % 256
           chars == [i \in 1..CallLen |-> Char(i)]
           a == EncodeAddr(address, first, last)
<1>1. a \in Seq(0..255)
  BY AddrType
<1>2. a = chars \o <<octet>>
  BY DEF EncodeAddr
<1> HIDE DEF a, octet, Char
<1>3. chars \in Seq({Char(i) : i \in 1..CallLen} \cup {octet}) /\ Len(chars) = CallLen
  BY IsASeq
<1>4. <<octet>> \in Seq({Char(i) : i \in 1..CallLen} \cup {octet}) /\ Len(<<octet>>) = 1 /\ <<octet>>[1] = octet
  OBVIOUS
<1> DEFINE one == <<octet>>
<1> HIDE DEF one, chars
<1>5. Joined(a, chars, one, Len(chars), Len(one))
  BY <1>2, <1>3, <1>4, JoinedOfTwo DEF one
<1>6. Joined(a, chars, one, CallLen, 1)
  BY <1>3, <1>4, <1>5 DEF one
<1>7. Len(a) = AddrLen /\ a[AddrLen] = octet
  BY <1>4, <1>6 DEF Joined, one, AddrLen
<1>8. \A i \in 1..CallLen : a[i] = Char(i)
  BY <1>6 DEF Joined, chars
<1> QED
  BY <1>1, <1>7, <1>8 DEF octet, a, Char

\* All addresses have one length.
LEMMA AddrLength ==
  ASSUME NEW address \in Address, NEW first \in BOOLEAN, NEW last \in BOOLEAN
  PROVE  EncodeAddr(address, first, last) \in Seq(0..255) /\ Len(EncodeAddr(address, first, last)) = AddrLen
  BY AddrOctets

\* A legible character is shifted into an octet and out of it again.
LEMMA ShiftedOut ==
  ASSUME NEW c \in 0..127
  PROVE  ((2 * c) % 256) \div 2 = c
  OBVIOUS

\* The SSID is read from between the flags.
LEMMA SsidReadOut ==
  ASSUME NEW x \in 0..1, NEW y \in 0..1, NEW z \in 0..15
  PROVE  ((128 * x + 96 + 2 * z + y) \div 2) % 16 = z
<1>1. (128 * x + 96 + 2 * z + y) \div 2 = 64 * x + 48 + z
  OBVIOUS
<1>2. (64 * x + 48 + z) % 16 = z
  OBVIOUS
<1> QED
  BY <1>1, <1>2

\* The last bit of an address is its flag.
LEMMA LastBit ==
  ASSUME NEW x \in 0..1, NEW y \in 0..1, NEW z \in 0..15
  PROVE  (128 * x + 96 + 2 * z + y) % 2 = y
  OBVIOUS

\* An address that is printed is the one encoded, cut to what it has room for.
LEMMA PrintedAddrIs ==
  ASSUME NEW address \in Address, Legible(address), NEW first \in BOOLEAN, NEW last \in BOOLEAN
  PROVE  PrintedAddr(EncodeAddr(address, first, last)) = Cut(address)
<1> DEFINE a == EncodeAddr(address, first, last)
           call == address.call
<1>1. PICK l \in Nat : l = Len(call) /\ call \in Seq(0..255) /\ address.ssid \in Int
  BY DEF Address
<1>2. \A i \in 1..l : call[i] \in 0..127 /\ call[i] # Space
  BY <1>1 DEF Legible
<1>3. /\ a \in Seq(0..255) /\ Len(a) = AddrLen
      /\ \A i \in 1..CallLen : a[i] = (2 * (IF i <= l THEN call[i] ELSE Space)) % 256
      /\ a[AddrLen] = 128 * Flag01(first) + 96 + 2 * (address.ssid % 16) + Flag01(last)
  BY <1>1, AddrOctets
<1> HIDE DEF a, call
<1> DEFINE m == AtMost(CallLen, l)
           s == SubSeq(a, 1, CallLen)
           P == {i \in 1..CallLen : a[i] \div 2 # Space}
           shown == Chosen(s, P)
<1>4. m \in Nat /\ m <= CallLen /\ m <= l /\ CallLen \in Nat /\ \A i \in 1..CallLen : i <= m <=> i <= l
  BY <1>1 DEF AtMost
<1>5. \A i \in 1..CallLen : a[i] \div 2 = IF i <= m THEN call[i] ELSE Space
  <2> TAKE i \in 1..CallLen
  <2>1. CASE i <= m
    <3>1. i \in 1..l /\ a[i] = (2 * call[i]) % 256
      BY <1>3, <1>4, <2>1
    <3>2. PICK c \in 0..127 : c = call[i]
      BY <1>2, <3>1
    <3>3. ((2 * c) % 256) \div 2 = c
      BY ShiftedOut
    <3> QED
      BY <2>1, <3>1, <3>2, <3>3, Zenon
  <2>2. CASE ~(i <= m)
    <3>1. a[i] = (2 * Space) % 256
      BY <1>3, <1>4, <2>2
    <3>2. ((2 * Space) % 256) \div 2 = Space
      BY DEF Space
    <3> QED
      BY <2>2, <3>1, <3>2, Zenon
  <2> QED
    BY <2>1, <2>2
<1> HIDE DEF m
<1>6. s \in Seq(0..255) /\ Len(s) = CallLen /\ \A i \in 1..CallLen : s[i] = a[i]
  <2>1. CallLen <= Len(a)
    BY <1>3, <1>4 DEF AddrLen
  <2>2. a \in Seq(0..255) /\ CallLen \in Nat
    BY <1>3
  <2> QED
    <3>1. PICK O : O = 0..255 /\ a \in Seq(O)
      BY <2>2, Zenon
    <3>2. SubSeq(a, 1, CallLen) \in Seq(O) /\ Len(SubSeq(a, 1, CallLen)) = CallLen
          /\ \A i \in 1..CallLen : SubSeq(a, 1, CallLen)[i] = a[i]
      <4>1. a \in Seq(O) /\ CallLen \in Nat
        BY <2>2, <3>1, Zenon
      <4> QED
        BY <2>1, <4>1, Beginning
    <3> QED
      BY <3>1, <3>2, Zenon
<1>7. \A k \in 1..Len(s) : k \in P <=> k <= m
  <2> TAKE k \in 1..Len(s)
  <2>1. k \in 1..CallLen
    BY <1>6
  <2>2. k <= m => k \in 1..l /\ call[k] # Space
    BY <1>2, <1>4, <2>1
  <2> QED
    BY <1>5, <2>1, <2>2
<1> HIDE DEF s, P
<1>8. Len(shown) = m /\ \A i \in 1..m : shown[i] = s[i]
  BY <1>4, <1>6, <1>7, ChosenPrefix
<1>9. [i \in 1..Len(shown) |-> shown[i] \div 2] = SubSeq(call, 1, m)
  <2> DEFINE t == [i \in 1..Len(shown) |-> shown[i] \div 2]
             u == SubSeq(call, 1, m)
  <2>1. u \in Seq(0..255) /\ Len(u) = m /\ \A i \in 1..m : u[i] = call[i]
    <3>1. call \in Seq(0..255) /\ m <= Len(call)
      BY <1>1, <1>4
    <3> QED
      BY <1>4, <3>1, Beginning
  <2>2. Len(t) = m /\ \A i \in 1..m : t[i] = call[i]
    <3>1. \A i \in 1..m : i \in 1..CallLen /\ i <= m
      BY <1>4
    <3> QED
      BY <1>4, <1>5, <1>6, <1>8, <3>1
  <2>3. t \in Seq(0..255)
    <3>1. \A i \in 1..m : call[i] \in 0..255
      <4>1. \A i \in 1..m : i \in 1..l
        BY <1>4
      <4>2. \A i \in 1..l : call[i] \in 0..255
        BY <1>2
      <4> QED
        BY <4>1, <4>2
    <3>2. t = [i \in 1..m |-> t[i]]
      BY <1>8, Zenon
    <3> HIDE DEF t
    <3>3. t \in [1..m -> 0..255]
      BY <2>2, <3>1, <3>2
    <3> QED
      BY <1>4, <3>3, IsASeq
  <2> HIDE DEF t, u
  <2>4. t = u
    BY <2>1, <2>2, <2>3, Alike
  <2> QED
    BY <2>4 DEF t, u
<1>10. (a[AddrLen] \div 2) % 16 = address.ssid % 16
  <2>1. Flag01(first) \in 0..1 /\ Flag01(last) \in 0..1 /\ address.ssid % 16 \in 0..15
    BY <1>1 DEF Flag01
  <2> DEFINE x == Flag01(first)
             y == Flag01(last)
             z == address.ssid % 16
  <2>2. x \in 0..1 /\ y \in 0..1 /\ z \in 0..15 /\ a[AddrLen] = 128 * x + 96 + 2 * z + y
    BY <1>3, <2>1
  <2> HIDE DEF x, y, z
  <2>3. ((128 * x + 96 + 2 * z + y) \div 2) % 16 = z
    BY <2>2, SsidReadOut
  <2> QED
    BY <2>2, <2>3, Zenon DEF z
<1>11. PrintedAddr(a) = [call |-> [i \in 1..Len(shown) |-> shown[i] \div 2], ssid |-> (a[AddrLen] \div 2) % 16]
  BY DEF PrintedAddr, s, P
<1>12. Cut(address) = [call |-> SubSeq(call, 1, m), ssid |-> address.ssid % 16]
  BY <1>1 DEF Cut, call, m
<1> QED
  BY <1>9, <1>10, <1>11, <1>12 DEF a
\* The addresses of a frame in the order in which they stand in it.
Path(via) == [k \in 1..Len(via.repeaters) + 2 |->
                IF k = 1 THEN To ELSE IF k = 2 THEN From ELSE via.repeaters[k - 2]]

\* What becomes of address k: the last one is marked.
Encoded(via, k) == EncodeAddr(Path(via)[k], k <= 2, k = Len(via.repeaters) + 2)

\* What stands where in octets o: m addresses of w octets, the control octet and the
\* layer, and the text.
Layout(o, via, text, m, w) ==
    /\ Len(o) = w * m + 2 + Len(text)
    /\ \A k \in 1..m, i \in 1..w : o[w * (k - 1) + i] = Encoded(via, k)[i]
    /\ o[w * m + 1] = UIFrame
    /\ \A i \in 1..Len(text) : o[w * m + 2 + i] = text[i]

\* The addresses of a path are addresses.
LEMMA PathType ==
  ASSUME NEW via \in Vias, NEW n \in Nat, n = Len(via.repeaters)
  PROVE  /\ via.repeaters \in Seq(Address) /\ via.text \in Seq(0..255)
         /\ \A k \in 1..n + 2 :
              /\ Path(via)[k] = IF k = 1 THEN To ELSE IF k = 2 THEN From ELSE via.repeaters[k - 2]
              /\ Path(via)[k] \in Address
<1>1. via.repeaters \in Seq(Address) /\ via.text \in Seq(0..255)
  OBVIOUS
<1>2. \A k \in 1..n + 2 : Path(via)[k] = IF k = 1 THEN To ELSE IF k = 2 THEN From ELSE via.repeaters[k - 2]
  BY DEF Path
<1>3. ASSUME NEW k \in 1..n + 2 PROVE Path(via)[k] \in Address
  <2>1. CASE k = 1 \/ k = 2
    BY <1>2, <2>1
  <2>2. CASE k # 1 /\ k # 2
    <3>1. k - 2 \in 1..Len(via.repeaters)
      BY <2>2
    <3>2. via.repeaters[k - 2] \in Address
      BY <1>1, <3>1, Elements
    <3> QED
      BY <1>2, <2>2, <3>2
  <2> QED
    BY <2>1, <2>2
<1> QED
  BY <1>1, <1>2, <1>3

\* The repeaters stand one behind the other.
LEMMA RepeatersLayout ==
  ASSUME NEW via \in Vias, NEW n \in Nat, n = Len(via.repeaters)
  PROVE  /\ EncodeRepeaters(via.repeaters) \in Seq(0..255)
         /\ Len(EncodeRepeaters(via.repeaters)) = AddrLen * n
         /\ \A k \in 1..n, i \in 1..AddrLen :
              EncodeRepeaters(via.repeaters)[AddrLen * (k - 1) + i] = Encoded(via, k + 2)[i]
<1> DEFINE reps == via.repeaters
           each == [k \in 1..n |-> EncodeRepeater(reps[k], k = n)]
           all == EncodeRepeaters(reps)
<1>1. ASSUME NEW k \in 1..n
      PROVE  /\ EncodeRepeater(reps[k], k = n) = Encoded(via, k + 2)
             /\ EncodeRepeater(reps[k], k = n) \in Seq(0..255)
             /\ Len(EncodeRepeater(reps[k], k = n)) = AddrLen
  <2>1. k + 2 \in 1..n + 2 /\ k + 2 # 1 /\ k + 2 # 2 /\ (k + 2) - 2 = k /\ ~(k + 2 <= 2) /\ (k + 2 = n + 2 <=> k = n)
    OBVIOUS
  <2>2. Path(via)[k + 2] = reps[k] /\ reps[k] \in Address
    <3>1. /\ Path(via)[k + 2] = IF k + 2 = 1 THEN To ELSE IF k + 2 = 2 THEN From ELSE reps[(k + 2) - 2]
          /\ Path(via)[k + 2] \in Address
      BY <2>1, PathType, Zenon
    <3>2. Path(via)[k + 2] = reps[(k + 2) - 2]
      BY <2>1, <3>1, Zenon
    <3>3. reps[(k + 2) - 2] = reps[k]
      BY <2>1
    <3> QED
      BY <3>1, <3>2, <3>3, Zenon
  <2>3. EncodeRepeater(reps[k], k = n) = EncodeAddr(reps[k], FALSE, k = n)
    BY DEF EncodeRepeater
  <2>4. Encoded(via, k + 2) = EncodeAddr(reps[k], FALSE, k = n)
    <3>1. (k + 2 <= 2) = FALSE /\ (k + 2 = n + 2) = (k = n)
      OBVIOUS
    <3>2. Encoded(via, k + 2) = EncodeAddr(Path(via)[k + 2], k + 2 <= 2, k + 2 = n + 2)
      BY Zenon DEF Encoded
    <3> QED
      BY <2>2, <3>1, <3>2, Zenon
  <2>5. EncodeAddr(reps[k], FALSE, k = n) \in Seq(0..255) /\ Len(EncodeAddr(reps[k], FALSE, k = n)) = AddrLen
    BY <2>2, AddrLength
  <2> QED
    BY <2>3, <2>4, <2>5, Zenon
<1>2. each \in Seq(Seq(0..255)) /\ Len(each) = n /\ \A k \in 1..n : each[k] = Encoded(via, k + 2) /\ Len(each[k]) = AddrLen
  <2>1. \A k \in 1..n : EncodeRepeater(reps[k], k = n) \in Seq(0..255)
    BY <1>1
  <2>2. each \in Seq(Seq(0..255))
    BY <2>1, IsASeq
  <2>3. Len(each) = n
    OBVIOUS
  <2>4. \A k \in 1..n : each[k] = Encoded(via, k + 2) /\ Len(each[k]) = AddrLen
    BY <1>1
  <2> QED
    BY <2>2, <2>3, <2>4
<1>3. all = FlattenSeq(each)
  BY DEF EncodeRepeaters
<1> HIDE DEF each, all
<1>4. all \in Seq(0..255)
  BY <1>2, <1>3, FlattenType
<1>5. Len(all) = AddrLen * n /\ InPart(all, AddrLen, each, n)
  <2>1. AddrLen \in Nat /\ \A k \in 1..Len(each) : Len(each[k]) = AddrLen
    BY <1>2 DEF AddrLen
  <2>2. Len(FlattenSeq(each)) = AddrLen * Len(each) /\ InPart(FlattenSeq(each), AddrLen, each, Len(each))
    BY <1>2, <2>1, FlattenEqual
  <2> QED
    BY <1>2, <1>3, <2>2, Zenon
<1>6. \A k \in 1..n, i \in 1..AddrLen : all[AddrLen * (k - 1) + i] = Encoded(via, k + 2)[i]
  BY <1>2, <1>5, Zenon DEF InPart
<1> QED
  BY <1>4, <1>5, <1>6 DEF all

\* Five parts, one behind the other.
FiveJoined(o, a, b, c, d, e, w, q, t) ==
    /\ Len(o) = w + w + q + 2 + t
    /\ \A i \in 1..w : o[i] = a[i] /\ o[w + i] = b[i]
    /\ \A i \in 1..q : o[w + w + i] = c[i]
    /\ \A i \in 1..2 : o[w + w + q + i] = d[i]
    /\ \A i \in 1..t : o[w + w + q + 2 + i] = e[i]

\* Where the elements of five parts are when the parts are concatenated.
LEMMA FiveBehind ==
  ASSUME NEW T, NEW a \in Seq(T), NEW b \in Seq(T), NEW c \in Seq(T), NEW d \in Seq(T), NEW e \in Seq(T),
         Len(b) = Len(a), Len(d) = 2
  PROVE  /\ a \o b \o c \o d \o e \in Seq(T)
         /\ FiveJoined(a \o b \o c \o d \o e, a, b, c, d, e, Len(a), Len(c), Len(e))
<1>0. PICK w \in Nat, q \in Nat, t \in Nat : w = Len(a) /\ q = Len(c) /\ t = Len(e)
  OBVIOUS
<1> DEFINE ab == a \o b
           abc == ab \o c
           abcd == abc \o d
           o == abcd \o e
<1>1. ab \in Seq(T) /\ abc \in Seq(T) /\ abcd \in Seq(T) /\ o \in Seq(T)
  BY ConcatProperties
<1>2. Joined(ab, a, b, Len(a), Len(b))
  BY JoinedOfTwo
<1> HIDE DEF ab
<1>3. Joined(abc, ab, c, Len(ab), Len(c))
  BY <1>1, JoinedOfTwo
<1> HIDE DEF abc
<1>4. Joined(abcd, abc, d, Len(abc), Len(d))
  BY <1>1, JoinedOfTwo
<1> HIDE DEF abcd
<1>5. Joined(o, abcd, e, Len(abcd), Len(e))
  BY <1>1, JoinedOfTwo
<1> HIDE DEF o
<1>6. Joined(ab, a, b, w, w) /\ Len(ab) = w + w
  BY <1>0, <1>2 DEF Joined
<1>7. Joined(abc, ab, c, w + w, q) /\ Len(abc) = w + w + q
  BY <1>0, <1>3, <1>6 DEF Joined
<1>8. Joined(abcd, abc, d, w + w + q, 2) /\ Len(abcd) = w + w + q + 2
  BY <1>4, <1>7 DEF Joined
<1>9. Joined(o, abcd, e, w + w + q + 2, t)
  BY <1>0, <1>5, <1>8
<1>10. \A i \in 1..w + w + q + 2 : o[i] = abcd[i]
  BY <1>9, Zenon DEF Joined
<1>11. \A i \in 1..w + w + q : o[i] = abc[i]
  <2>1. \A i \in 1..w + w + q : i \in 1..w + w + q + 2
    OBVIOUS
  <2> QED
    BY <1>8, <1>10, <2>1, Zenon DEF Joined
<1>12. \A i \in 1..w + w : o[i] = ab[i]
  <2>1. \A i \in 1..w + w : i \in 1..w + w + q
    OBVIOUS
  <2> QED
    BY <1>7, <1>11, <2>1, Zenon DEF Joined
<1>13. \A i \in 1..w : o[i] = a[i] /\ o[w + i] = b[i]
  <2>1. \A i \in 1..w : i \in 1..w + w /\ w + i \in 1..w + w
    OBVIOUS
  <2> QED
    BY <1>6, <1>12, <2>1, Zenon DEF Joined
<1>14. \A i \in 1..q : o[w + w + i] = c[i]
  <2>1. \A i \in 1..q : w + w + i \in 1..w + w + q
    OBVIOUS
  <2> QED
    BY <1>7, <1>11, <2>1, Zenon DEF Joined
<1>15. \A i \in 1..2 : o[w + w + q + i] = d[i]
  <2>1. \A i \in 1..2 : w + w + q + i \in 1..w + w + q + 2
    OBVIOUS
  <2> QED
    BY <1>8, <1>10, <2>1, Zenon DEF Joined
<1>16. \A i \in 1..t : o[w + w + q + 2 + i] = e[i]
  BY <1>9, Zenon DEF Joined
<1>17. Len(o) = w + w + q + 2 + t
  BY <1>9, Zenon DEF Joined
<1>18. FiveJoined(o, a, b, c, d, e, w, q, t)
  BY <1>13, <1>14, <1>15, <1>16, <1>17, Zenon DEF FiveJoined
<1> QED
  BY <1>0, <1>1, <1>18 DEF o, ab, abc, abcd

\* A frame composed is its addresses and its text.
LEMMA FrameLayout ==
  ASSUME NEW f \in ViaFrame, NEW n \in Nat, n = Len(f.via.repeaters)
  PROVE  /\ Compose(f) \in Seq(0..255)
         /\ Layout(Compose(f), f.via, UpToNul(f.via.text), n + 2, AddrLen)
<1> DEFINE via == f.via
           text == UpToNul(via.text)
           L == AddrLen
           a == EncodeDestination(To)
           b == EncodeSource(From, via.repeaters # <<>>)
           c == EncodeRepeaters(via.repeaters)
           d == <<UIFrame, NoLayer3>>
           o == a \o b \o c \o d \o text
<1>1. f.kind = "V" /\ via \in Vias
  BY DEF ViaFrame
<1>2. Compose(f) = o
  BY <1>1, Zenon DEF Compose, EncodeFrame
<1>3. via.repeaters \in Seq(Address) /\ via.text \in Seq(0..255) /\ text \in Seq(0..255)
  BY <1>1, PathType, UpToNulType
<1>4. L \in Nat
  BY DEF AddrLen
<1>5. a = Encoded(via, 1) /\ b = Encoded(via, 2)
  <2>1. Path(via)[1] = To /\ Path(via)[2] = From
    BY <1>1, PathType
  <2>2. (1 <= 2) = TRUE /\ (2 <= 2) = TRUE /\ (1 = n + 2) = FALSE /\ (2 = n + 2) = (n = 0)
    OBVIOUS
  <2>3. (~(via.repeaters # <<>>)) = (n = 0)
    BY <1>3, EmptySeq
  <2>4. a = EncodeAddr(To, TRUE, FALSE) /\ b = EncodeAddr(From, TRUE, n = 0)
    BY <2>3, Zenon DEF EncodeDestination, EncodeSource
  <2>5. Encoded(via, 1) = EncodeAddr(To, 1 <= 2, 1 = n + 2) /\ Encoded(via, 2) = EncodeAddr(From, 2 <= 2, 2 = n + 2)
    BY <2>1, Zenon DEF Encoded
  <2> QED
    BY <2>2, <2>4, <2>5, Zenon
<1>6. a \in Seq(0..255) /\ Len(a) = L /\ b \in Seq(0..255) /\ Len(b) = L
  <2>1. From \in Address /\ To \in Address
    OBVIOUS
  <2>2. \A last \in BOOLEAN : EncodeAddr(From, TRUE, last) \in Seq(0..255) /\ Len(EncodeAddr(From, TRUE, last)) = L
    BY <2>1, AddrLength
  <2>3. EncodeAddr(To, TRUE, FALSE) \in Seq(0..255) /\ Len(EncodeAddr(To, TRUE, FALSE)) = L
    BY <2>1, AddrLength
  <2> QED
    BY <2>2, <2>3, Zenon DEF EncodeDestination, EncodeSource
<1>7. /\ c \in Seq(0..255) /\ Len(c) = L * n
      /\ \A k \in 1..n, i \in 1..L : c[L * (k - 1) + i] = Encoded(via, k + 2)[i]
  BY <1>1, RepeatersLayout
<1>8. d \in Seq(0..255) /\ Len(d) = 2 /\ d[1] = UIFrame
  BY DEF UIFrame, NoLayer3
<1> DEFINE q == L * n
           t == Len(text)
<1>9. q \in Nat /\ t \in Nat
  BY <1>3, <1>4, Multiples
<1>10. L * (n + 2) = L + L + q /\ L * 0 = 0 /\ L * 1 = L
  <2>1. n + 1 \in Nat /\ (n + 1) + 1 = n + 2 /\ L * (n + 1) = L * n + L /\ L * ((n + 1) + 1) = L * (n + 1) + L
    BY <1>4, Multiples
  <2>2. L * 0 = 0 /\ L * 1 = L
    BY <1>4
  <2>3. L * (n + 2) = (q + L) + L
    BY <2>1, Zenon
  <2> HIDE DEF L, q
  <2>4. (q + L) + L = L + L + q
    BY <1>4, <1>9
  <2> QED
    BY <2>2, <2>3, <2>4, Zenon
<1>11. Len(c) = q /\ Len(text) = t
  BY <1>7
<1> HIDE DEF via, text, L, a, b, c, d, q, t
<1>12. /\ o \in Seq(0..255) /\ Len(o) = L + L + q + 2 + t
       /\ \A i \in 1..L : o[i] = a[i] /\ o[L + i] = b[i]
       /\ \A i \in 1..q : o[L + L + i] = c[i]
       /\ \A i \in 1..2 : o[L + L + q + i] = d[i]
       /\ \A i \in 1..t : o[L + L + q + 2 + i] = text[i]
  <2>1. Len(b) = Len(a)
    BY <1>6, Zenon
  <2>2. o \in Seq(0..255) /\ FiveJoined(o, a, b, c, d, text, Len(a), Len(c), Len(text))
    BY <1>3, <1>6, <1>7, <1>8, <2>1, FiveBehind
  <2>3. FiveJoined(o, a, b, c, d, text, L, q, t)
    BY <1>6, <1>11, <2>2, Zenon
  <2> QED
    BY <2>2, <2>3, Zenon DEF FiveJoined
<1> HIDE DEF o
<1>13. ASSUME NEW k \in 1..n + 2, NEW i \in 1..L PROVE o[L * (k - 1) + i] = Encoded(via, k)[i]
  <2>1. CASE k = 1
    <3>1. k - 1 = 0 /\ L * 0 + i = i
      BY <1>4, <1>10, <2>1
    <3> QED
      BY <1>5, <1>12, <2>1, <3>1
  <2>2. CASE k = 2
    <3>1. k - 1 = 1 /\ L * 1 + i = L + i
      BY <1>10, <2>2
    <3> QED
      BY <1>5, <1>12, <2>2, <3>1
  <2>3. CASE k # 1 /\ k # 2
    <3>1. PICK j \in 1..n : k = j + 2 /\ j - 1 \in Nat /\ k - 1 = ((j - 1) + 1) + 1 /\ j - 1 \in Nat /\ (j - 1) + 1 = j
      <4>1. k - 2 \in 1..n /\ k = (k - 2) + 2 /\ (k - 2) - 1 \in Nat /\ k - 1 = (((k - 2) - 1) + 1) + 1 /\ ((k - 2) - 1) + 1 = k - 2
        BY <2>3
      <4> QED
        BY <4>1, Zenon
    <3>2. PICK p \in Nat : p = L * (j - 1) /\ L * j = p + L /\ L * (k - 1) = p + L + L
      <4>1. L * (j - 1) \in Nat /\ L * ((j - 1) + 1) = L * (j - 1) + L
        BY <1>4, <3>1, Multiples
      <4>2. L * (((j - 1) + 1) + 1) = L * ((j - 1) + 1) + L
        BY <1>4, <3>1, Multiples
      <4> QED
        BY <3>1, <4>1, <4>2
    <3>3. p + L <= q
      <4>0. j \in Nat /\ j <= n
        BY <3>1
      <4>1. L * j <= L * n
        BY <1>4, <4>0, MultiplesInOrder
      <4> QED
        BY <3>2, <4>1 DEF q
    <3>4. p + i \in 1..q /\ L * (k - 1) + i = L + L + (p + i)
      BY <1>4, <1>9, <3>2, <3>3
    <3>5. o[L + L + (p + i)] = c[p + i]
      BY <1>12, <3>4
    <3>6. c[L * (j - 1) + i] = Encoded(via, j + 2)[i]
      BY <1>7, <3>1, Zenon
    <3> QED
      BY <3>1, <3>2, <3>4, <3>5, <3>6, Zenon
  <2> QED
    BY <2>1, <2>2, <2>3
<1>14. Len(o) = L * (n + 2) + 2 + t /\ o[L * (n + 2) + 1] = UIFrame
  BY <1>8, <1>10, <1>12
<1>15. \A i \in 1..t : o[L * (n + 2) + 2 + i] = text[i]
  BY <1>10, <1>12, Zenon
<1>16. Layout(o, via, text, n + 2, L)
  BY <1>11, <1>13, <1>14, <1>15 DEF Layout
<1> QED
  BY <1>2, <1>12, <1>16 DEF via, text, L

\* What fits m times goes in at least m times.
LEMMA QuotientAtLeast ==
  ASSUME NEW a \in Nat \ {0}, NEW x \in Nat, NEW m \in Nat, a * m <= x
  PROVE  m <= x \div a
  OBVIOUS

\* What a legible address is after encoding: what is printed of it, and its mark.
LEMMA EncodedAddr ==
  ASSUME NEW address \in Address, Legible(address), NEW first \in BOOLEAN, NEW last \in BOOLEAN
  PROVE  /\ EncodeAddr(address, first, last) \in Seq(0..255)
         /\ Len(EncodeAddr(address, first, last)) = AddrLen
         /\ PrintedAddr(EncodeAddr(address, first, last)) = Cut(address)
         /\ EncodeAddr(address, first, last)[AddrLen] % 2 = Flag01(last)
<1> DEFINE a == EncodeAddr(address, first, last)
           x == Flag01(first)
           y == Flag01(last)
           z == address.ssid % 16
<1>1. a \in Seq(0..255) /\ Len(a) = AddrLen /\ PrintedAddr(a) = Cut(address)
  BY AddrLength, PrintedAddrIs
<1>2. a[AddrLen] = 128 * x + 96 + 2 * z + y
  BY AddrOctets
<1>3. x \in 0..1 /\ y \in 0..1
  BY DEF Flag01
<1>4. z \in 0..15
  <2>1. address.ssid \in Int
    BY DEF Address
  <2> QED
    BY <2>1
<1> HIDE DEF a, x, y, z
<1>6. (128 * x + 96 + 2 * z + y) % 2 = y
  BY <1>3, <1>4, LastBit
<1>7. a[AddrLen] % 2 = Flag01(last)
  BY <1>2, <1>6, Zenon DEF y
<1> QED
  BY <1>1, <1>7, Zenon DEF a

\* What is printed of a frame composed of legible addresses is what was asked for.
LEMMA PrintedIs ==
  ASSUME NEW f \in ViaFrame, LegibleVia(f.via)
  PROVE  Printed(Compose(f)) = Meant(f.via)
<1> DEFINE via == f.via
           text == UpToNul(via.text)
           o == Compose(f)
           L == AddrLen
<1>1. via \in Vias
  BY DEF ViaFrame
<1>2. PICK n \in Nat : n = Len(via.repeaters)
  <2>1. via.repeaters \in Seq(Address)
    BY <1>1
  <2> QED
    BY <2>1
<1> DEFINE m == n + 2
           Nth(k) == Encoded(via, k)
<1>3. /\ via.repeaters \in Seq(Address) /\ via.text \in Seq(0..255) /\ text \in Seq(0..255)
      /\ \A k \in 1..m :
           /\ Path(via)[k] = IF k = 1 THEN To ELSE IF k = 2 THEN From ELSE via.repeaters[k - 2]
           /\ Path(via)[k] \in Address
  <2>1. m = n + 2
    OBVIOUS
  <2>2. via.repeaters \in Seq(Address) /\ via.text \in Seq(0..255)
    BY <1>1
  <2>3. text \in Seq(0..255)
    BY <2>2, UpToNulType
  <2>4. \A k \in 1..n + 2 :
           /\ Path(via)[k] = IF k = 1 THEN To ELSE IF k = 2 THEN From ELSE via.repeaters[k - 2]
           /\ Path(via)[k] \in Address
    BY <1>1, <1>2, PathType, Zenon
  <2> QED
    BY <2>2, <2>3, <2>4, Zenon
<1>4. PICK t \in Nat : t = Len(text)
  BY <1>3
<1>5. o \in Seq(0..255) /\ Layout(o, via, text, m, L)
  BY <1>2, FrameLayout
<1>6. L \in Nat \ {0} /\ m \in Nat /\ m >= 2
  BY DEF AddrLen
<1>7. \A k \in 1..m : Legible(Path(via)[k])
  <2> TAKE k \in 1..m
  <2>1. CASE k # 1 /\ k # 2
    <3>1. k - 2 \in 1..Len(via.repeaters)
      BY <1>2, <2>1
    <3>2. Legible(via.repeaters[k - 2])
      BY <3>1 DEF LegibleVia
    <3> QED
      BY <1>3, <2>1, <3>2
  <2>2. CASE k = 1 \/ k = 2
    BY <1>3, <2>2 DEF LegibleVia
  <2> QED
    BY <2>1, <2>2
<1> HIDE DEF text, o, L
<1>8. /\ Len(o) = L * m + 2 + t
      /\ \A k \in 1..m, i \in 1..L : o[L * (k - 1) + i] = Nth(k)[i]
      /\ o[L * m + 1] = UIFrame
      /\ \A i \in 1..t : o[L * m + 2 + i] = text[i]
  BY <1>4, <1>5, Zenon DEF Layout
<1> HIDE DEF m
<1>9. \A k \in 1..m : (k <= 2) \in BOOLEAN /\ (k = m) \in BOOLEAN
  OBVIOUS
<1>10. \A k \in 1..m : /\ Nth(k) \in Seq(0..255) /\ Len(Nth(k)) = L
                       /\ PrintedAddr(Nth(k)) = Cut(Path(via)[k])
                       /\ Nth(k)[L] % 2 = 0 <=> k # m
  <2> TAKE k \in 1..m
  <2>1. Nth(k) = EncodeAddr(Path(via)[k], k <= 2, k = m)
    BY <1>2, Zenon DEF Encoded, m
  <2>2. Path(via)[k] \in Address /\ Legible(Path(via)[k])
    BY <1>3, <1>7
  <2> HIDE DEF Nth
  <2>3. PICK address \in Address, first \in BOOLEAN, last \in BOOLEAN :
          address = Path(via)[k] /\ first = (k <= 2) /\ last = (k = m) /\ Legible(address)
    BY <1>9, <2>2, Zenon
  <2>4. /\ EncodeAddr(address, first, last) \in Seq(0..255)
        /\ Len(EncodeAddr(address, first, last)) = AddrLen
        /\ PrintedAddr(EncodeAddr(address, first, last)) = Cut(address)
        /\ EncodeAddr(address, first, last)[AddrLen] % 2 = Flag01(last)
    <3>1. address \in Address /\ Legible(address) /\ first \in BOOLEAN /\ last \in BOOLEAN
      BY <2>3, Zenon
    <3> QED
      BY <3>1, EncodedAddr
  <2>5. Nth(k) = EncodeAddr(address, first, last)
    BY <2>1, <2>3, Zenon
  <2>6. Flag01(last) = 0 <=> k # m
    <3>1. CASE k = m
      <4>1. last = TRUE
        BY <2>3, <3>1, Zenon
      <4> QED
        BY <3>1, <4>1 DEF Flag01
    <3>2. CASE k # m
      <4>1. last = FALSE
        BY <2>3, <3>2, Zenon
      <4> QED
        BY <3>2, <4>1 DEF Flag01
    <3> QED
      BY <3>1, <3>2
  <2> QED
    BY <2>3, <2>4, <2>5, <2>6, Zenon DEF L
<1> HIDE DEF Nth
<1>11. ASSUME NEW k \in 1..m
       PROVE  /\ AddrAt(o, k) = Nth(k)
              /\ o[L * k] = Nth(k)[L]
              /\ L * (k + 1) = L * k + L
              /\ L * k <= L * m
  <2>1. k \in Nat /\ k - 1 \in Nat /\ (k - 1) + 1 = k /\ k <= m /\ L \in Nat
    BY <1>6
  <2>2. PICK y \in Nat : y = L * (k - 1) /\ L * k = y + L
    BY <2>1, Multiples
  <2>3. L * k <= L * m /\ L * (k + 1) = L * k + L
    BY <1>6, <2>1, Multiples, MultiplesInOrder
  <2>4. \A i \in 1..L : o[y + i] = Nth(k)[i]
    BY <1>8, <2>2, Zenon
  <2>5. o[L * k] = Nth(k)[L]
    BY <1>6, <2>2, <2>4
  <2>6. y + L <= Len(o)
    <3>1. PICK z \in Nat : z = L * m
      BY <1>6, Multiples
    <3>2. Len(o) = z + 2 + t /\ y + L <= z
      BY <1>8, <2>2, <2>3, <3>1, Zenon
    <3> QED
      BY <1>6, <2>2, <3>2
  <2>7. AddrAt(o, k) = SubSeq(o, y + 1, y + L)
    BY <2>2, Zenon DEF AddrAt, L
  <2> DEFINE s == SubSeq(o, y + 1, y + L)
  <2>8. s \in Seq(0..255) /\ Len(s) = L /\ \A i \in 1..L : s[i] = o[y + i]
    <3>1. o \in Seq(0..255) /\ L \in Nat /\ y \in Nat /\ y + L <= Len(o)
      BY <1>5, <2>1, <2>2, <2>6, Zenon
    <3>2. PICK x, z : x = y + 1 /\ z = y + L
      OBVIOUS
    <3>3. PICK O : O = 0..255 /\ o \in Seq(O)
      BY <3>1, Zenon
    <3>4. SubSeq(o, x, z) \in Seq(O) /\ Part(SubSeq(o, x, z), o, y, L)
      <4>1. o \in Seq(O) /\ L \in Nat /\ y \in Nat
        BY <3>1, <3>3, Zenon
      <4> QED
        BY <3>1, <3>2, <4>1, Middle
    <3> QED
      BY <3>2, <3>3, <3>4, Zenon DEF Part
  <2> HIDE DEF s
  <2>10. s = Nth(k)
    <3>1. Nth(k) \in Seq(0..255) /\ Len(Nth(k)) = Len(s) /\ \A i \in 1..Len(s) : s[i] = Nth(k)[i]
      BY <1>10, <2>4, <2>8
    <3> QED
      BY <2>8, <3>1, Alike
  <2> QED
    BY <2>3, <2>5, <2>7, <2>10 DEF s
<1>12. PICK w \in Nat : w = L * m /\ Len(o) = w + 2 + t
  BY <1>6, <1>8, Multiples
<1>13. \A k \in 2..m : Another(o, k) <=> k # m
  <2> TAKE k \in 2..m
  <2>1. k \in 1..m /\ k \in Nat /\ k + 1 \in Nat /\ (k # m => k + 1 <= m) /\ L \in Nat
    BY <1>6
  <2>2. o[L * k] % 2 = 0 <=> k # m
    BY <1>10, <1>11, <2>1, Zenon
  <2>3. k # m => L * (k + 1) <= L * m
    BY <1>6, <2>1, MultiplesInOrder
  <2>4. k # m => Len(o) >= L * (k + 1)
    <3>1. PICK x \in Nat : x = L * (k + 1)
      BY <2>1, Multiples
    <3>2. k # m => x <= w
      BY <1>12, <2>3, <3>1, Zenon
    <3> QED
      BY <1>12, <3>1, <3>2
  <2> QED
    BY <2>2, <2>4, Zenon DEF Another, L
<1>14. m \in 2..(Len(o) \div L)
  <2>1. PICK l \in Nat : l = Len(o) /\ L * m <= l
    BY <1>12
  <2>2. m <= l \div L
    BY <1>6, <2>1, QuotientAtLeast
  <2>3. l \div L \in Int
    BY <1>6, <2>1
  <2> QED
    BY <1>6, <2>1, <2>2, <2>3
<1>15. AddrCount(o) = m
  <2> DEFINE C == 2..(Len(o) \div L)
             Ends(x) == (\A k \in 2..x - 1 : Another(o, k)) /\ ~Another(o, x)
  <2>1. AddrCount(o) = CHOOSE x \in C : Ends(x)
    BY Zenon DEF AddrCount, L
  <2>2. Ends(m)
    <3>1. m \in 2..m /\ \A k \in 2..m - 1 : k \in 2..m /\ k # m
      BY <1>6
    <3> QED
      BY <1>13, <3>1, Zenon
  <2>3. \A x \in C : Ends(x) => x = m
    <3> SUFFICES ASSUME NEW x \in C, Ends(x), x # m PROVE FALSE
      OBVIOUS
    <3>1. x \in Int /\ 2 <= x
      OBVIOUS
    <3>2. CASE x < m
      <4>1. x \in 2..m /\ x # m
        BY <1>6, <3>1, <3>2
      <4> QED
        BY <1>13, <4>1, Zenon
    <3>3. CASE x > m
      <4>1. m \in 2..x - 1
        BY <1>6, <3>1, <3>3
      <4> QED
        BY <2>2, <4>1, Zenon
    <3> QED
      BY <1>6, <3>1, <3>2, <3>3
  <2> HIDE DEF C, Ends
  <2> QED
    BY <1>14, <2>1, <2>2, <2>3, Zenon DEF C
<1>16. ~(Len(o) < 2 * AddrLen + 1)
  <2>1. L \in Nat /\ 2 \in Nat /\ 2 <= m
    BY <1>6
  <2>2. L * 2 <= L * m
    BY <1>6, <2>1, MultiplesInOrder
  <2>3. L * 2 <= w
    BY <1>12, <2>2, Zenon
  <2> QED
    BY <1>12, <2>1, <2>3 DEF L
<1> DEFINE path == [k \in 1..m |-> PrintedAddr(AddrAt(o, k))]
           cuts == {Cut(Path(via)[k]) : k \in 1..m}
<1>17. path \in Seq(cuts) /\ Len(path) = m /\ \A k \in 1..m : path[k] = Cut(Path(via)[k])
  <2>1. \A k \in 1..m : PrintedAddr(AddrAt(o, k)) = Cut(Path(via)[k])
    BY <1>10, <1>11, Zenon
  <2>2. \A k \in 1..m : path[k] = Cut(Path(via)[k])
    BY <2>1, Zenon
  <2>3. path \in [1..m -> cuts]
    BY <2>1, Zenon
  <2>4. Len(path) = m
    BY <1>6
  <2>5. m \in Nat
    BY <1>6
  <2> HIDE DEF path, cuts
  <2>6. path \in Seq(cuts)
    BY <2>3, <2>5, IsASeq
  <2> QED
    BY <2>2, <2>4, <2>6, Zenon
<1> HIDE DEF path
<1> DEFINE reps == [k \in 1..Len(via.repeaters) |-> Cut(via.repeaters[k])]
<1>18. SubSeq(path, 3, m) = reps
  <2> DEFINE c == SubSeq(path, 3, m)
  <2>1. c \in Seq(cuts) /\ Part(c, path, 2, n)
    <3>1. 2 + n <= Len(path) /\ 3 = 2 + 1 /\ m = 2 + n /\ 2 \in Nat
      BY <1>17 DEF m
    <3>2. path \in Seq(cuts)
      BY <1>17
    <3> HIDE DEF cuts, m
    <3> QED
      BY <3>1, <3>2, Middle
  <2> HIDE DEF c
  <2>2. \A k \in 1..n : 2 + k \in 1..m /\ 2 + k # 1 /\ 2 + k # 2 /\ (2 + k) - 2 = k
    BY DEF m
  <2>3. \A k \in 1..n : path[2 + k] = Cut(via.repeaters[k])
    <3> TAKE k \in 1..n
    <3>1. via.repeaters[(2 + k) - 2] = via.repeaters[k]
      BY <2>2
    <3>2. Path(via)[2 + k] = via.repeaters[(2 + k) - 2]
      BY <1>3, <2>2, Zenon
    <3>3. path[2 + k] = Cut(Path(via)[2 + k])
      BY <1>17, <2>2, Zenon
    <3> QED
      BY <3>1, <3>2, <3>3, Zenon
  <2>4. Len(c) = n /\ \A k \in 1..n : c[k] = Cut(via.repeaters[k])
    BY <2>1, <2>3, Zenon DEF Part
  <2>5. c = [k \in 1..Len(c) |-> c[k]]
    BY <2>1, Elements
  <2> QED
    BY <1>2, <2>4, <2>5, Zenon DEF c
<1>19. path[1] = Cut(To) /\ path[2] = Cut(From)
  <2>1. 1 \in 1..m /\ 2 \in 1..m /\ 2 # 1
    BY <1>6
  <2>2. Path(via)[1] = To /\ Path(via)[2] = From
    BY <1>3, <2>1
  <2> QED
    BY <1>17, <2>1, <2>2, Zenon
<1> DEFINE rest == SubSeq(o, w + 1, Len(o))
<1>20. rest \in Seq(0..255) /\ Part(rest, o, w, 2 + t)
  <2>1. PICK a, b : a = w + 1 /\ b = w + (2 + t) /\ rest = SubSeq(o, a, b)
    <3>1. Len(o) = w + (2 + t)
      BY <1>12
    <3> QED
      BY <3>1, Zenon
  <2>2. o \in Seq(0..255) /\ w + (2 + t) <= Len(o) /\ 2 + t \in Nat
    BY <1>5, <1>12
  <2> HIDE DEF rest
  <2>3. PICK x \in Nat : x = 2 + t
    BY <2>2
  <2>4. PICK O : O = 0..255 /\ o \in Seq(O)
    BY <2>2, Zenon
  <2>5. SubSeq(o, a, b) \in Seq(O) /\ Part(SubSeq(o, a, b), o, w, x)
    <3>1. o \in Seq(O) /\ w + x <= Len(o) /\ a = w + 1 /\ b = w + x
      BY <2>1, <2>2, <2>3, <2>4, Zenon
    <3> QED
      BY <3>1, Middle
  <2> QED
    BY <2>1, <2>3, <2>4, <2>5, Zenon
<1> HIDE DEF rest
<1>21. Len(rest) = 2 + t /\ \A i \in 1..2 + t : rest[i] = o[w + i]
  BY <1>20, Zenon DEF Part
<1>22. SubSeq(rest, 1, AtMost(1, Len(rest))) = <<UIFrame>>
  <2>1. AtMost(1, Len(rest)) = 1
    BY <1>21 DEF AtMost
  <2>2. rest[1] = UIFrame
    <3>1. 1 \in 1..2 + t
      OBVIOUS
    <3> QED
      BY <1>8, <1>12, <1>21, <3>1, Zenon
  <2>3. rest \in Seq(0..255) /\ 1 <= Len(rest) /\ 1 \in Nat
    BY <1>20, <1>21
  <2>4. /\ SubSeq(rest, 1, 1) \in Seq(0..255) /\ Len(SubSeq(rest, 1, 1)) = 1
        /\ \A i \in 1..1 : SubSeq(rest, 1, 1)[i] = rest[i]
    BY <2>3, Beginning
  <2> DEFINE c == SubSeq(rest, 1, 1)
  <2>5. c \in Seq(0..255) /\ Len(c) = 1 /\ c[1] = UIFrame
    BY <2>2, <2>4
  <2> HIDE DEF c
  <2>6. <<UIFrame>> \in Seq(0..255) /\ Len(<<UIFrame>>) = 1 /\ <<UIFrame>>[1] = UIFrame
    BY DEF UIFrame
  <2>7. c = <<UIFrame>>
    BY <2>5, <2>6, Alike
  <2> QED
    BY <2>1, <2>7, Zenon DEF c
<1>23. SubSeq(rest, 3, Len(rest)) = text
  <2> DEFINE c == SubSeq(rest, 3, Len(rest))
  <2>1. 2 + t <= Len(rest) /\ 3 = 2 + 1 /\ Len(rest) = 2 + t /\ 2 \in Nat /\ rest \in Seq(0..255)
    BY <1>20, <1>21
  <2>2. c \in Seq(0..255) /\ Part(c, rest, 2, t)
    <3>1. PICK b, O : b = Len(rest) /\ O = 0..255 /\ rest \in Seq(O)
      BY <2>1, Zenon
    <3>2. rest \in Seq(O) /\ 2 + t <= Len(rest) /\ 3 = 2 + 1 /\ b = 2 + t
      BY <2>1, <3>1, Zenon
    <3>3. SubSeq(rest, 3, b) \in Seq(O) /\ Part(SubSeq(rest, 3, b), rest, 2, t)
      BY <2>1, <3>2, Middle
    <3> QED
      BY <3>1, <3>3, Zenon
  <2> HIDE DEF c
  <2>3. Len(c) = t /\ \A i \in 1..t : c[i] = rest[2 + i]
    BY <2>2, Zenon DEF Part
  <2>4. \A i \in 1..t : c[i] = text[i]
    <3> TAKE i \in 1..t
    <3>1. 2 + i \in 1..2 + t /\ w + (2 + i) = w + 2 + i
      OBVIOUS
    <3>2. rest[2 + i] = o[w + (2 + i)]
      BY <1>21, <3>1, Zenon
    <3>3. o[w + 2 + i] = text[i]
      BY <1>8, <1>12, Zenon
    <3> QED
      BY <2>3, <3>1, <3>2, <3>3, Zenon
  <2>5. Len(c) = Len(text) /\ text \in Seq(0..255) /\ \A i \in 1..Len(c) : c[i] = text[i]
    BY <1>3, <1>4, <2>3, <2>4
  <2>6. c = text
    BY <2>2, <2>5, Alike
  <2> QED
    BY <2>6, Zenon DEF c
<1>24. Printed(o) = <<[from |-> path[2], to |-> path[1], via |-> SubSeq(path, 3, m),
                       control |-> SubSeq(rest, 1, AtMost(1, Len(rest))),
                       info |-> SubSeq(rest, 3, Len(rest))]>>
  <2>1. rest = SubSeq(o, AddrLen * m + 1, Len(o))
    BY <1>12 DEF rest, L
  <2> QED
    BY <1>15, <1>16, <2>1, Zenon DEF Printed, path
<1>25. Meant(via) = <<[from |-> Cut(From), to |-> Cut(To), via |-> reps,
                       control |-> <<UIFrame>>, info |-> text]>>
  BY Zenon DEF Meant, text
<1>26. Printed(o) = Meant(via)
  BY <1>18, <1>19, <1>22, <1>23, <1>24, <1>25, Zenon
<1> QED
  BY <1>26, Zenon DEF o

-----------------------------------------------------------------------------
(* The inductive invariant.                                                *)

\* Between two reads the cursor is at the front of inbuff_, which is why the next
\* read may start there.
CursorAtFront == pc = "idle" /\ open => offset = 0

\* A decoder that has read past the end does not come back from there.
StuckInDecoder == pc = "decode" /\ ~defined => SeesHeader

\* As long as reads end where frames end, inbuff_ holds what the read delivered and
\* nothing else, which is what the decoder is told.
ReadIsBuffer ==
    ~cut /\ pc = "decode" =>
       IF defined THEN /\ arrived = erased + length /\ offset <= length
                       /\ \E i \in 0..Len(sent) : arrived = BytesOf(i)
                  ELSE decoded < Len(sent)

IInv == /\ TypeOK
        /\ AtFrameBoundary
        /\ CursorAtFront
        /\ StuckInDecoder
        /\ ReadIsBuffer
        /\ WholeFramesAreHandled

\* BytesOf sums over what was sent by then, before a step and after it.
LEMMA BytesAreOfSent ==
  /\ BytesOf(Len(sent)) = Bytes(sent, Len(sent)) /\ BytesOf(Len(sent))' = Bytes(sent', Len(sent'))
  /\ BytesOf(decoded) = Bytes(sent, decoded) /\ BytesOf(decoded)' = Bytes(sent', decoded')
  /\ \A i : BytesOf(i) = Bytes(sent, i) /\ BytesOf(i)' = Bytes(sent', i)
  BY DEF BytesOf, Bytes

\* The invariant holds when a client connects.
LEMMA InitInvariant == Init => IInv
<1> SUFFICES ASSUME Init PROVE IInv
  OBVIOUS
<1>1. Len(sent) = 0 /\ Bytes(sent, 0) = 0 /\ decoded = 0
  <2>1. sent = <<>> /\ <<>> \in Seq(Frame) /\ Len(<<>>) = 0
    BY EmptySeq DEF Init
  <2> QED
    BY <2>1, BytesStep DEF Init
<1>2. TypeOK
  <2>1. /\ sent \in Seq(Frame)
        /\ transmitted \in Seq([from : 1..Len(sent), octets : Seq(0..255)])
        /\ replies \in Seq([kind : {"R", "K"}, at : 0..Len(sent)])
    BY EmptySeq DEF Init
  <2>2. /\ arrived \in 0..BytesOf(Len(sent)) /\ erased \in 0..arrived /\ decoded \in 0..Len(sent)
        /\ length \in 0..MaxChunk /\ offset \in 0..(arrived - erased) /\ packets \in 0..MaxPackets
    <3>1. arrived = 0 /\ erased = 0 /\ length = 0 /\ offset = 0 /\ packets = 0 /\ BytesOf(Len(sent)) = 0
      BY <1>1, BytesAreOfSent DEF Init
    <3> QED
      BY <1>1, <3>1
  <2> QED
    BY <2>1, <2>2 DEF Init, TypeOK
<1>3. AtFrameBoundary
  BY <1>1, BytesAreOfSent DEF Init, AtFrameBoundary
<1>4. CursorAtFront /\ StuckInDecoder /\ ReadIsBuffer
  BY DEF Init, CursorAtFront, StuckInDecoder, ReadIsBuffer
<1>5. WholeFramesAreHandled
  BY <1>1, BytesAreOfSent DEF Init, WholeFramesAreHandled
<1> QED
  BY <1>2, <1>3, <1>4, <1>5 DEF IInv

\* A sequence whose elements may be more.
LEMMA MoreElements ==
  ASSUME NEW S, NEW T, S \subseteq T, NEW s \in Seq(S)
  PROVE  s \in Seq(T)
<1>1. Len(s) \in Nat /\ \A i \in 1..Len(s) : s[i] \in T
  BY Elements
<1>2. s = [i \in 1..Len(s) |-> s[i]]
  OBVIOUS
<1> QED
  BY <1>1, <1>2, IsASeq

\* A client that sends a frame keeps the invariant.
LEMMA ClientSendsKeeps ==
  ASSUME IInv, ClientSends
  PROVE  IInv'
<1> USE DEF IInv
<1>1. /\ sent \in Seq(Frame) /\ decoded \in 0..Len(sent) /\ Len(sent) \in Nat
      /\ arrived \in 0..Bytes(sent, Len(sent))
  BY BytesAreOfSent DEF TypeOK
<1>2. PICK f \in Frame : sent' = Append(sent, f)
  BY DEF ClientSends
<1>3. /\ sent' \in Seq(Frame) /\ Len(sent') = Len(sent) + 1
      /\ \A i \in 1..Len(sent) : sent'[i] = sent[i]
  BY <1>1, <1>2, AppendProperties
<1>4. \A n \in 0..Len(sent) : Bytes(sent', n) = Bytes(sent, n)
  BY <1>1, <1>2, BytesStay
<1>5. Bytes(sent, Len(sent)) \in Nat /\ Bytes(sent', Len(sent')) \in Nat
      /\ Bytes(sent, Len(sent)) <= Bytes(sent', Len(sent'))
  <2>1. Len(sent') \in 1..Len(sent') /\ Len(sent') \in 0..Len(sent') /\ Len(sent') - 1 = Len(sent) /\ Len(sent) \in 0..Len(sent)
    BY <1>1, <1>3
  <2>2. Bytes(sent', Len(sent')) = Bytes(sent', Len(sent)) + Header + sent'[Len(sent')].len
    BY <1>3, <2>1, BytesStep
  <2>3. sent'[Len(sent')].len \in Nat
    BY <1>3, <2>1, Elements, FrameLength
  <2>4. Bytes(sent, Len(sent)) \in Nat /\ Bytes(sent', Len(sent)) = Bytes(sent, Len(sent))
    BY <1>1, <1>4, <2>1, BytesStep
  <2> QED
    BY <2>2, <2>3, <2>4
<1>6. UNCHANGED <<arrived, cut, erased, pc, length, offset, decoded, transmitted,
                  replies, packets, want_raw, open, defined>>
  BY DEF ClientSends
<1>7. TypeOK'
  <2>1. arrived' \in 0..Bytes(sent', Len(sent')) /\ decoded' \in 0..Len(sent')
    BY <1>1, <1>3, <1>5, <1>6
  <2>2. transmitted' \in Seq([from : 1..Len(sent'), octets : Seq(0..255)])
    <3>1. [from : 1..Len(sent), octets : Seq(0..255)] \subseteq [from : 1..Len(sent'), octets : Seq(0..255)]
      BY <1>1, <1>3
    <3>2. transmitted \in Seq([from : 1..Len(sent), octets : Seq(0..255)])
      BY DEF TypeOK
    <3> DEFINE was == [from : 1..Len(sent), octets : Seq(0..255)]
               is == [from : 1..Len(sent'), octets : Seq(0..255)]
    <3> HIDE DEF was, is
    <3>3. was \subseteq is /\ transmitted \in Seq(was)
      BY <3>1, <3>2 DEF was, is
    <3>4. transmitted \in Seq(is)
      BY <3>3, MoreElements
    <3> QED
      BY <1>6, <3>4 DEF is
  <2>3. replies' \in Seq([kind : {"R", "K"}, at : 0..Len(sent')])
    <3>1. [kind : {"R", "K"}, at : 0..Len(sent)] \subseteq [kind : {"R", "K"}, at : 0..Len(sent')]
      BY <1>1, <1>3
    <3>2. replies \in Seq([kind : {"R", "K"}, at : 0..Len(sent)])
      BY DEF TypeOK
    <3> QED
      BY <1>6, <3>1, <3>2, MoreElements, Zenon
  <2>4. /\ erased' \in 0..arrived' /\ pc' \in {"idle", "decode"} /\ length' \in 0..MaxChunk
        /\ offset' \in 0..(arrived' - erased') /\ packets' \in 0..MaxPackets
    BY <1>6 DEF TypeOK
  <2>5. want_raw' \in BOOLEAN /\ open' \in BOOLEAN /\ defined' \in BOOLEAN
    BY <1>6 DEF TypeOK
  <2> QED
    BY <1>3, <2>1, <2>2, <2>3, <2>4, <2>5, BytesAreOfSent DEF TypeOK
<1>8. AtFrameBoundary'
  BY <1>1, <1>4, <1>6, BytesAreOfSent DEF AtFrameBoundary
<1>9. CursorAtFront' /\ StuckInDecoder'
  BY <1>6 DEF CursorAtFront, StuckInDecoder, SeesHeader
<1>10. ReadIsBuffer'
  <2>1. ASSUME NEW i \in 0..Len(sent), arrived = BytesOf(i)
        PROVE  \E j \in 0..Len(sent') : arrived' = Bytes(sent', j)
    <3>1. i \in 0..Len(sent') /\ arrived' = Bytes(sent', i)
      BY <1>1, <1>3, <1>4, <1>6, <2>1, BytesAreOfSent
    <3> QED
      BY <3>1
  <2>2. decoded < Len(sent) => decoded' < Len(sent')
    BY <1>1, <1>3, <1>6
  <2> QED
    BY <1>6, <2>1, <2>2, BytesAreOfSent DEF ReadIsBuffer
<1>11. WholeFramesAreHandled'
  <2>1. BytesOf(decoded)' = BytesOf(decoded)
    BY <1>1, <1>4, <1>6, BytesAreOfSent
  <2>2. ASSUME decoded < Len(sent) PROVE WrapsAround(sent[decoded + 1])' <=> WrapsAround(sent[decoded + 1])
    <3>1. decoded + 1 \in 1..Len(sent)
      BY <1>1, <2>2
    <3>2. sent'[decoded + 1] = sent[decoded + 1]
      BY <1>3, <3>1
    <3> QED
      BY <1>6, <3>2 DEF WrapsAround
  <2>3. ~cut /\ pc = "decode" /\ ~defined => decoded < Len(sent)
    BY DEF ReadIsBuffer
  <2>4. ASSUME NEW size PROVE Fits(size)' <=> Fits(size)
    BY DEF Fits
  <2>5. ~cut' => ((pc = "idle" /\ open /\ defined)' => (BytesOf(decoded) = arrived)')
    BY <1>6, <2>1 DEF WholeFramesAreHandled
  <2>6. ~cut' => (defined \/ IF pc = "idle" THEN want_raw /\ \E size \in PacketSizes : ~Fits(size)
                              ELSE WrapsAround(sent[decoded + 1]))'
    <3>1. CASE pc = "idle"
      BY <1>6, <2>4, <3>1 DEF WholeFramesAreHandled
    <3>2. CASE pc # "idle"
      BY <1>6, <2>2, <2>3, <3>2 DEF WholeFramesAreHandled, TypeOK
    <3> QED
      BY <3>1, <3>2
  <2> QED
    BY <2>5, <2>6 DEF WholeFramesAreHandled
<1> QED
  BY <1>7, <1>8, <1>9, <1>10, <1>11

\* Where the decoder is in the stream.
LEMMA Cursor ==
  ASSUME IInv
  PROVE  /\ sent \in Seq(Frame) /\ Len(sent) \in Nat /\ decoded \in 0..Len(sent)
         /\ arrived \in Nat /\ erased \in Nat /\ offset \in Nat /\ length \in Nat
         /\ erased + offset = Bytes(sent, decoded) /\ erased + offset <= arrived
         /\ arrived <= Bytes(sent, Len(sent)) /\ Bytes(sent, Len(sent)) \in Nat
<1> USE DEF IInv
<1>1. sent \in Seq(Frame) /\ Len(sent) \in Nat /\ decoded \in 0..Len(sent)
  BY DEF TypeOK
<1>2. Bytes(sent, Len(sent)) \in Nat
  <2>1. Len(sent) \in 0..Len(sent)
    BY <1>1
  <2> QED
    BY <1>1, <2>1, BytesStep
<1>3. arrived \in 0..Bytes(sent, Len(sent)) /\ erased + offset = Bytes(sent, decoded)
  BY BytesAreOfSent DEF TypeOK, AtFrameBoundary
<1>4. erased \in 0..arrived /\ length \in 0..MaxChunk /\ offset \in 0..(arrived - erased)
  BY DEF TypeOK
<1>5. arrived \in Nat /\ arrived <= Bytes(sent, Len(sent))
  BY <1>2, <1>3
<1> QED
  BY <1>1, <1>2, <1>3, <1>4, <1>5

\* A header in inbuff_ is the header of the frame the decoder is at.
LEMMA HeaderIsOfFrame ==
  ASSUME IInv, HeaderArrived
  PROVE  /\ decoded + 1 \in 1..Len(sent) /\ sent[decoded + 1] \in Frame
         /\ Bytes(sent, decoded + 1) = erased + offset + Header + sent[decoded + 1].len
<1>1. decoded # Len(sent)
  <2>1. erased + offset + Header <= arrived
    BY DEF HeaderArrived
  <2> QED
    BY <2>1, Cursor
<1>2. decoded + 1 \in 1..Len(sent) /\ (decoded + 1) - 1 = decoded
  BY <1>1, Cursor
<1>3. sent[decoded + 1] \in Frame
  BY <1>2, Cursor, Elements
<1> QED
  BY <1>2, <1>3, Cursor, BytesStep

\* What the decoder is told is true when reads end where frames end.
LEMMA WholeRead ==
  ASSUME IInv, pc = "decode", defined, ~cut
  PROVE  /\ SeesHeader <=> HeaderArrived
         /\ HeaderArrived => Bytes(sent, decoded + 1) <= arrived
         /\ ~HeaderArrived => arrived = Bytes(sent, decoded)
<1>1. /\ arrived = erased + length /\ offset <= length
      /\ \E i \in 0..Len(sent) : arrived = Bytes(sent, i)
  BY BytesAreOfSent DEF IInv, ReadIsBuffer
<1>2. PICK i \in 0..Len(sent) : arrived = Bytes(sent, i)
  BY <1>1
<1>3. SeesHeader <=> HeaderArrived
  BY <1>1, Cursor DEF SeesHeader, HeaderArrived
<1>4. CASE i = decoded
  <2>1. ~HeaderArrived
    BY <1>2, <1>4, Cursor DEF HeaderArrived
  <2> QED
    BY <1>2, <1>3, <1>4, <2>1
<1>5. CASE i < decoded
  <2>1. Bytes(sent, i) + Header + sent[i + 1].len <= Bytes(sent, decoded)
    BY <1>5, Cursor, BytesGrow
  <2>2. i + 1 \in 1..Len(sent)
    BY <1>5, Cursor
  <2>3. sent[i + 1].len \in Nat
    BY <2>2, Cursor, Elements, FrameLength
  <2>4. PICK l \in Nat : l = sent[i + 1].len
    BY <2>3
  <2>5. arrived + Header + l <= erased + offset
    BY <1>2, <2>1, <2>4, Cursor, Zenon
  <2>6. Header \in Nat \ {0}
    BY AgwpeAssumption
  <2>7. arrived \in Nat /\ erased + offset \in Nat /\ erased + offset <= arrived
    BY Cursor
  <2> QED
    BY <2>4, <2>5, <2>6, <2>7
<1>6. CASE i > decoded
  <2>1. Bytes(sent, decoded) + Header + sent[decoded + 1].len <= Bytes(sent, i)
    BY <1>6, Cursor, BytesGrow
  <2>2. decoded + 1 \in 1..Len(sent) /\ (decoded + 1) - 1 = decoded
    BY <1>6, Cursor
  <2>3. sent[decoded + 1].len \in Nat
    BY <2>2, Cursor, Elements, FrameLength
  <2>4. HeaderArrived
    <3>1. PICK l \in Nat : l = sent[decoded + 1].len
      BY <2>3
    <3>2. erased + offset + Header + l <= arrived
      BY <1>2, <2>1, <3>1, Cursor, Zenon
    <3>3. arrived \in Nat /\ erased \in Nat /\ offset \in Nat /\ Header \in Nat
      BY Cursor, AgwpeAssumption
    <3> QED
      BY <3>2, <3>3 DEF HeaderArrived
  <2>5. Bytes(sent, decoded + 1) = Bytes(sent, decoded) + Header + sent[decoded + 1].len
    BY <2>2, Cursor, BytesStep
  <2> QED
    BY <1>2, <1>3, <2>1, <2>4, <2>5
<1> QED
  BY <1>4, <1>5, <1>6, Cursor

\* The part of the type invariant that most steps leave as it is.
LEMMA TypeKeeps ==
  ASSUME TypeOK, sent' = sent, packets' = packets, want_raw' \in BOOLEAN,
         open' \in BOOLEAN, defined' \in BOOLEAN, pc' \in {"idle", "decode"},
         decoded' \in 0..Len(sent), length' \in 0..MaxChunk,
         arrived' \in 0..Bytes(sent, Len(sent)), erased' \in 0..arrived',
         offset' \in 0..(arrived' - erased'),
         transmitted' \in Seq([from : 1..Len(sent), octets : Seq(0..255)]),
         replies' \in Seq([kind : {"R", "K"}, at : 0..Len(sent)])
  PROVE  TypeOK'
  BY BytesAreOfSent DEF TypeOK

\* A chunk of any length that is read keeps it.
LEMMA ReadKeeps ==
  ASSUME IInv, Read
  PROVE  IInv'
<1>1. PICK n \in 1..MaxChunk : arrived + n <= BytesOf(Len(sent)) /\ arrived' = arrived + n /\ length' = n
  BY DEF Read
<1>2. /\ UNCHANGED <<sent, erased, decoded, transmitted, replies, packets, want_raw, open, defined>>
      /\ pc = "idle" /\ open /\ defined /\ pc' = "decode" /\ offset' = 0
  BY DEF Read
<1>3. arrived' \in Nat /\ arrived' <= Bytes(sent, Len(sent)) /\ offset = 0 /\ arrived <= arrived'
  BY <1>1, <1>2, Cursor, BytesAreOfSent DEF IInv, CursorAtFront
<1>4. TypeOK'
  <2>1. arrived' \in 0..Bytes(sent, Len(sent)) /\ erased' \in 0..arrived'
        /\ offset' \in 0..(arrived' - erased') /\ length' \in 0..MaxChunk
    BY <1>1, <1>2, <1>3, Cursor
  <2>2. decoded' \in 0..Len(sent) /\ pc' \in {"idle", "decode"} /\ packets' = packets
        /\ transmitted' \in Seq([from : 1..Len(sent), octets : Seq(0..255)])
        /\ replies' \in Seq([kind : {"R", "K"}, at : 0..Len(sent)])
    BY <1>2 DEF IInv, TypeOK
  <2>3. want_raw' \in BOOLEAN /\ open' \in BOOLEAN /\ defined' \in BOOLEAN
    BY <1>2 DEF IInv, TypeOK
  <2> QED
    BY <1>2, <2>1, <2>2, <2>3, TypeKeeps DEF IInv
<1>5. AtFrameBoundary'
  BY <1>2, <1>3, Cursor, BytesAreOfSent DEF AtFrameBoundary
<1>6. CursorAtFront' /\ StuckInDecoder'
  BY <1>2 DEF CursorAtFront, StuckInDecoder
<1>7. ReadIsBuffer'
  <2>1. SUFFICES ASSUME ~cut'
                 PROVE  /\ arrived' = erased' + length' /\ offset' <= length'
                        /\ \E i \in 0..Len(sent') : arrived' = Bytes(sent', i)
    BY <1>2, BytesAreOfSent DEF ReadIsBuffer
  <2>2. ~cut /\ \E i \in 1..Len(sent) : arrived' = BytesOf(i)'
    BY <1>2, <2>1, BytesAreOfSent DEF Read
  <2>3. arrived = Bytes(sent, decoded)
    BY <1>2, <2>2, BytesAreOfSent DEF IInv, WholeFramesAreHandled
  <2> QED
    BY <1>1, <1>2, <1>3, <2>2, <2>3, Cursor, BytesAreOfSent
<1>8. WholeFramesAreHandled'
  BY <1>2 DEF WholeFramesAreHandled
<1> QED
  BY <1>4, <1>5, <1>6, <1>7, <1>8 DEF IInv

\* So does a decoder that finds less than a frame and asks for more,
LEMMA DecodeNothingKeeps ==
  ASSUME IInv, DecodeNothing
  PROVE  IInv'
<1>1. /\ UNCHANGED <<sent, arrived, cut, length, decoded, transmitted, replies,
                     packets, want_raw, open, defined>>
      /\ pc = "decode" /\ pc' = "idle" /\ ~SeesHeader
      /\ erased' = erased + offset /\ offset' = 0
  BY DEF DecodeNothing
<1>2. defined
  BY <1>1 DEF IInv, StuckInDecoder
<1>3. TypeOK'
  <2>1. arrived' \in 0..Bytes(sent, Len(sent)) /\ erased' \in 0..arrived'
        /\ offset' \in 0..(arrived' - erased')
    BY <1>1, Cursor
  <2>2. decoded' \in 0..Len(sent) /\ pc' \in {"idle", "decode"} /\ packets' = packets
        /\ transmitted' \in Seq([from : 1..Len(sent), octets : Seq(0..255)])
        /\ replies' \in Seq([kind : {"R", "K"}, at : 0..Len(sent)])
        /\ length' \in 0..MaxChunk
    BY <1>1 DEF IInv, TypeOK
  <2>3. want_raw' \in BOOLEAN /\ open' \in BOOLEAN /\ defined' \in BOOLEAN
    BY <1>1 DEF IInv, TypeOK
  <2> QED
    BY <1>1, <2>1, <2>2, <2>3, TypeKeeps DEF IInv
<1>4. AtFrameBoundary'
  BY <1>1, Cursor, BytesAreOfSent DEF AtFrameBoundary
<1>5. CursorAtFront' /\ StuckInDecoder' /\ ReadIsBuffer'
  BY <1>1 DEF CursorAtFront, StuckInDecoder, ReadIsBuffer
<1>6. WholeFramesAreHandled'
  <2>1. ~cut => arrived = Bytes(sent, decoded)
    BY <1>1, <1>2, WholeRead
  <2> QED
    BY <1>1, <1>2, <2>1, BytesAreOfSent DEF WholeFramesAreHandled
<1> QED
  BY <1>3, <1>4, <1>5, <1>6 DEF IInv

\* one that refuses the frame,
LEMMA DecodeBadKeeps ==
  ASSUME IInv, DecodeBad
  PROVE  IInv'
<1>1. /\ UNCHANGED <<sent, arrived, cut, erased, length, offset, decoded, transmitted,
                     replies, packets, want_raw, defined>>
      /\ pc' = "idle" /\ open' = FALSE /\ defined
  BY DEF DecodeBad, AtFrame
<1>2. TypeOK'
  <2>1. arrived' \in 0..Bytes(sent, Len(sent)) /\ erased' \in 0..arrived'
        /\ offset' \in 0..(arrived' - erased')
    BY <1>1, Cursor
  <2>2. decoded' \in 0..Len(sent) /\ pc' \in {"idle", "decode"} /\ packets' = packets
        /\ transmitted' \in Seq([from : 1..Len(sent), octets : Seq(0..255)])
        /\ replies' \in Seq([kind : {"R", "K"}, at : 0..Len(sent)])
        /\ length' \in 0..MaxChunk
    BY <1>1 DEF IInv, TypeOK
  <2>3. want_raw' \in BOOLEAN /\ open' \in BOOLEAN /\ defined' \in BOOLEAN
    BY <1>1 DEF IInv, TypeOK
  <2> QED
    BY <1>1, <2>1, <2>2, <2>3, TypeKeeps DEF IInv
<1>3. AtFrameBoundary'
  BY <1>1, Cursor, BytesAreOfSent DEF AtFrameBoundary
<1>4. CursorAtFront' /\ StuckInDecoder' /\ ReadIsBuffer' /\ WholeFramesAreHandled'
  BY <1>1 DEF CursorAtFront, StuckInDecoder, ReadIsBuffer, WholeFramesAreHandled
<1> QED
  BY <1>2, <1>3, <1>4 DEF IInv

\* one that takes a whole frame and acts on it,
LEMMA DecodeFrameKeeps ==
  ASSUME IInv, DecodeFrame
  PROVE  IInv'
<1> DEFINE Sent == [from : 1..Len(sent), octets : Seq(0..255)]
           Answer == [kind : {"R", "K"}, at : 0..Len(sent)]
<1>1. PICK f \in Frame :
        /\ AtFrame(f)
        /\ erased + offset + Header + f.len <= arrived
        /\ offset' = offset + FrameSize(f)
        /\ transmitted' = IF Transmits(f)
                            THEN Append(transmitted, [from |-> decoded + 1, octets |-> Compose(f)])
                            ELSE transmitted
        /\ replies' = IF f.kind = "R" THEN Reply("R") ELSE replies
        /\ want_raw' = IF f.kind = "k" THEN ~want_raw ELSE want_raw
  BY DEF DecodeFrame
<1>2. /\ UNCHANGED <<sent, arrived, cut, erased, pc, length, packets, open, defined>>
      /\ decoded' = decoded + 1
  BY DEF DecodeFrame
<1>3. pc = "decode" /\ defined /\ HeaderArrived /\ f = sent[decoded + 1]
  BY <1>1 DEF AtFrame
<1>4. /\ decoded + 1 \in 1..Len(sent)
      /\ Bytes(sent, decoded + 1) = erased + offset + Header + f.len
      /\ f.len \in Nat
  BY <1>3, HeaderIsOfFrame, FrameLength
<1>5. offset' = offset + Header + f.len /\ erased + offset' <= arrived /\ offset' \in Nat
  <2>1. erased + offset + Header + f.len <= arrived /\ offset' = offset + (Header + f.len)
    BY <1>1, Zenon DEF FrameSize
  <2>2. f.len \in Nat /\ erased \in Nat /\ offset \in Nat /\ arrived \in Nat /\ Header \in Nat
    BY <1>4, Cursor
  <2> QED
    BY <2>1, <2>2
<1>6. transmitted' \in Seq(Sent)
  <2>1. transmitted \in Seq(Sent)
    BY DEF IInv, TypeOK
  <2>2. [from |-> decoded + 1, octets |-> Compose(f)] \in Sent
    BY <1>4, ComposeType
  <2> HIDE DEF Sent
  <2>3. Append(transmitted, [from |-> decoded + 1, octets |-> Compose(f)]) \in Seq(Sent)
    BY <2>1, <2>2, AppendProperties
  <2> QED
    BY <1>1, <2>1, <2>3
<1>7. replies' \in Seq(Answer)
  <2>1. replies \in Seq(Answer)
    BY DEF IInv, TypeOK
  <2>2. [kind |-> "R", at |-> decoded] \in Answer
    BY Cursor
  <2> HIDE DEF Answer
  <2>3. Reply("R") \in Seq(Answer)
    BY <2>1, <2>2, AppendProperties DEF Reply
  <2> QED
    BY <1>1, <2>1, <2>3
<1>8. TypeOK'
  <2>1. arrived' \in 0..Bytes(sent, Len(sent)) /\ erased' \in 0..arrived'
        /\ offset' \in 0..(arrived' - erased') /\ decoded' \in 0..Len(sent)
    <3>1. decoded' \in 0..Len(sent)
      BY <1>2, <1>4
    <3> QED
      BY <1>2, <1>5, <3>1, Cursor
  <2>2. pc' \in {"idle", "decode"} /\ packets' = packets /\ length' \in 0..MaxChunk
    BY <1>2 DEF IInv, TypeOK
  <2>3. want_raw' \in BOOLEAN
    BY <1>1 DEF IInv, TypeOK
  <2>4. open' \in BOOLEAN /\ defined' \in BOOLEAN
    BY <1>2 DEF IInv, TypeOK
  <2> QED
    BY <1>2, <1>6, <1>7, <2>1, <2>2, <2>3, <2>4, TypeKeeps DEF IInv
<1>9. AtFrameBoundary'
  <2>1. erased + offset' = erased + offset + Header + f.len
    <3>1. f.len \in Nat /\ erased \in Nat /\ offset \in Nat /\ Header \in Nat
      BY <1>4, Cursor
    <3> QED
      BY <1>5, <3>1
  <2>2. erased' + offset' = Bytes(sent', decoded')
    BY <1>2, <1>4, <2>1, Zenon
  <2> QED
    BY <2>2, BytesAreOfSent, Zenon DEF AtFrameBoundary
<1>10. CursorAtFront' /\ StuckInDecoder' /\ WholeFramesAreHandled'
  BY <1>2, <1>3 DEF CursorAtFront, StuckInDecoder, WholeFramesAreHandled
<1>11. ReadIsBuffer'
  <2>1. ~cut => /\ arrived = erased + length
                /\ \E i \in 0..Len(sent) : arrived = Bytes(sent, i)
    BY <1>3, BytesAreOfSent DEF IInv, ReadIsBuffer
  <2>2. ~cut => offset' <= length
    BY <1>5, <2>1, Cursor
  <2> QED
    BY <1>2, <1>3, <2>1, <2>2, BytesAreOfSent DEF ReadIsBuffer
<1> QED
  BY <1>8, <1>9, <1>10, <1>11 DEF IInv

\* and one that reads behind the end of inbuff_.
LEMMA DecodePastEndKeeps ==
  ASSUME IInv, DecodePastEnd
  PROVE  IInv'
<1>1. /\ UNCHANGED <<sent, arrived, cut, erased, pc, length, offset, decoded,
                     transmitted, replies, packets, want_raw, open>>
      /\ pc = "decode" /\ defined /\ SeesHeader /\ defined' = FALSE
  BY DEF DecodePastEnd
<1>2. TypeOK'
  <2>1. arrived' \in 0..Bytes(sent, Len(sent)) /\ erased' \in 0..arrived'
        /\ offset' \in 0..(arrived' - erased')
    BY <1>1, Cursor
  <2>2. decoded' \in 0..Len(sent) /\ pc' \in {"idle", "decode"} /\ packets' = packets
        /\ transmitted' \in Seq([from : 1..Len(sent), octets : Seq(0..255)])
        /\ replies' \in Seq([kind : {"R", "K"}, at : 0..Len(sent)])
        /\ length' \in 0..MaxChunk
    BY <1>1 DEF IInv, TypeOK
  <2>3. want_raw' \in BOOLEAN /\ open' \in BOOLEAN /\ defined' \in BOOLEAN
    BY <1>1 DEF IInv, TypeOK
  <2> QED
    BY <1>1, <2>1, <2>2, <2>3, TypeKeeps DEF IInv
<1>3. AtFrameBoundary'
  BY <1>1, Cursor, BytesAreOfSent DEF AtFrameBoundary
<1>4. CursorAtFront' /\ StuckInDecoder'
  BY <1>1 DEF CursorAtFront, StuckInDecoder, SeesHeader
\* Only K without data leads here when reads end where frames end.
<1>5. ~cut => decoded < Len(sent) /\ WrapsAround(sent[decoded + 1])
  <2>1. SUFFICES ASSUME ~cut
                 PROVE  decoded < Len(sent) /\ WrapsAround(sent[decoded + 1])
    OBVIOUS
  <2>2. HeaderArrived /\ Bytes(sent, decoded + 1) <= arrived
    BY <1>1, <2>1, WholeRead
  <2>3. PICK f \in Frame : AtFrame(f) /\ (erased + offset + Header + f.len > arrived \/ WrapsAround(f))
    BY <2>2 DEF DecodePastEnd
  <2>4. f = sent[decoded + 1]
    BY <2>3 DEF AtFrame
  <2>5. decoded + 1 \in 1..Len(sent) /\ ~(erased + offset + Header + f.len > arrived)
    <3>1. f.len \in Nat
      BY FrameLength
    <3> QED
      BY <2>2, <2>4, <3>1, HeaderIsOfFrame, Cursor
  <2>6. decoded < Len(sent)
    BY <2>5, Cursor
  <2> QED
    BY <2>3, <2>4, <2>5, <2>6
<1>6. ReadIsBuffer'
  BY <1>1, <1>5 DEF ReadIsBuffer
<1>7. WholeFramesAreHandled'
  BY <1>1, <1>5 DEF WholeFramesAreHandled, WrapsAround
<1> QED
  BY <1>2, <1>3, <1>4, <1>6, <1>7 DEF IInv

\* A write that hands the client the first packet keeps it.
LEMMA WriteKeeps ==
  ASSUME IInv, Write
  PROVE  IInv'
<1> DEFINE Answer == [kind : {"R", "K"}, at : 0..Len(sent)]
<1>1. PICK size \in PacketSizes :
         /\ replies' = IF want_raw /\ Fits(size) THEN Reply("K") ELSE replies
         /\ defined' = (want_raw => Fits(size))
  BY DEF Write
<1>2. /\ UNCHANGED <<sent, arrived, cut, erased, pc, length, offset, decoded,
                     transmitted, want_raw, open>>
      /\ pc = "idle" /\ open /\ defined /\ packets < MaxPackets /\ packets' = packets + 1
  BY DEF Write
<1>3. replies' \in Seq(Answer)
  <2>1. replies \in Seq(Answer)
    BY DEF IInv, TypeOK
  <2>2. [kind |-> "K", at |-> decoded] \in Answer
    BY Cursor
  <2> HIDE DEF Answer
  <2>3. Reply("K") \in Seq(Answer)
    BY <2>1, <2>2, AppendProperties DEF Reply
  <2> QED
    BY <1>1, <2>1, <2>3
<1>4. TypeOK'
  <2>1. arrived' \in 0..BytesOf(Len(sent))' /\ erased' \in 0..arrived'
        /\ offset' \in 0..(arrived' - erased')
    BY <1>2, Cursor, BytesAreOfSent
  <2>2. packets' \in 0..MaxPackets
    BY <1>2 DEF IInv, TypeOK
  <2>3. defined' \in BOOLEAN
    <3>1. Fits(size) \in BOOLEAN
      BY DEF Fits
    <3> QED
      BY <1>1, <3>1
  <2>4. /\ sent' \in Seq(Frame) /\ pc' \in {"idle", "decode"} /\ length' \in 0..MaxChunk
        /\ decoded' \in 0..Len(sent')
        /\ transmitted' \in Seq([from : 1..Len(sent'), octets : Seq(0..255)])
        /\ want_raw' \in BOOLEAN /\ open' \in BOOLEAN
    BY <1>2 DEF IInv, TypeOK
  <2>5. replies' \in Seq([kind : {"R", "K"}, at : 0..Len(sent')])
    BY <1>2, <1>3
  <2> QED
    BY <2>1, <2>2, <2>3, <2>4, <2>5 DEF TypeOK
<1>5. AtFrameBoundary'
  BY <1>2, Cursor, BytesAreOfSent DEF AtFrameBoundary
<1>6. CursorAtFront' /\ StuckInDecoder' /\ ReadIsBuffer'
  BY <1>2 DEF IInv, CursorAtFront, StuckInDecoder, ReadIsBuffer
<1>7. WholeFramesAreHandled'
  <2>1. ~cut => arrived' = Bytes(sent', decoded')
    BY <1>2, BytesAreOfSent DEF IInv, WholeFramesAreHandled
  <2>2. defined' \/ (want_raw /\ ~Fits(size))
    BY <1>1
  <2> QED
    BY <1>2, <2>1, <2>2, BytesAreOfSent DEF WholeFramesAreHandled, Fits
<1> QED
  BY <1>4, <1>5, <1>6, <1>7 DEF IInv

\* Nothing that the invariant reads changes in a stuttering step.
LEMMA StutterKeeps ==
  ASSUME IInv, UNCHANGED vars
  PROVE  IInv'
<1> USE DEF vars
<1>1. TypeOK' /\ AtFrameBoundary'
  BY BytesAreOfSent DEF IInv, TypeOK, AtFrameBoundary
<1>2. CursorAtFront' /\ StuckInDecoder'
  BY DEF IInv, CursorAtFront, StuckInDecoder, SeesHeader
<1>3. ReadIsBuffer' /\ WholeFramesAreHandled'
  BY BytesAreOfSent DEF IInv, ReadIsBuffer, WholeFramesAreHandled, Fits, WrapsAround
<1> QED
  BY <1>1, <1>2, <1>3 DEF IInv
-----------------------------------------------------------------------------
\* The inductive invariant is one: it holds of every session.
THEOREM AgwpeInvariant == Spec => []IInv
<1>1. IInv /\ [Next]_vars => IInv'
  BY ClientSendsKeeps, ReadKeeps, DecodeNothingKeeps, DecodeBadKeeps, DecodeFrameKeeps,
     DecodePastEndKeeps, WriteKeeps, StutterKeeps DEF Next, Decode
<1> QED
  BY InitInvariant, <1>1, PTL DEF Spec

\* Every variable has its type: the decoder (agwpe_decode_frame()) does not leave
\* the bytes that have arrived, and what is composed for V frames is octets.
THEOREM TypeCorrect == Spec => []TypeOK
<1>1. IInv => TypeOK
  BY DEF IInv
<1> QED
  BY AgwpeInvariant, <1>1, PTL

\* handle_incoming_data() always stands where a frame begins, however the stream is
\* cut into reads, so no data is taken for a header.
THEOREM DecoderAtBoundary == Spec => []AtFrameBoundary
<1>1. IInv => AtFrameBoundary
  BY DEF IInv
<1> QED
  BY AgwpeInvariant, <1>1, PTL

\* When reads end where frames end, every frame is handled as it arrives, and only
\* K without data, or a packet too long for raw_data, reads or writes out of bounds.
THEOREM WholeFramesHandled == Spec => []WholeFramesAreHandled
<1>1. IInv => WholeFramesAreHandled
  BY DEF IInv
<1> QED
  BY AgwpeInvariant, <1>1, PTL
-----------------------------------------------------------------------------
(* What the frames that were decoded had for effects: HandledInOrder, with  *)
(* the octets of each frame and the state of want_raw_frames_ that it needs *)
(* to be inductive.                                                         *)

NoneBad == Decoded(decoded, {"bad"}) = <<>>

TransmittedInOrder ==
    Decoded(decoded, {"K", "V"}) = [i \in 1..Len(transmitted) |-> transmitted[i].from]

OctetsAreComposed ==
    \A i \in 1..Len(transmitted) : transmitted[i].octets = Compose(sent[transmitted[i].from])

EachAnswered == Len(Decoded(decoded, {"R"})) = Len(Answers)

PassedOnWhenWanted ==
    \A i \in 1..Len(replies) :
       replies[i].kind = "K" => Len(Decoded(replies[i].at, {"k"})) % 2 = 1

WantedAfterOdd == want_raw <=> Len(Decoded(decoded, {"k"})) % 2 = 1

Effects == /\ NoneBad
           /\ TransmittedInOrder
           /\ OctetsAreComposed
           /\ EachAnswered
           /\ PassedOnWhenWanted
           /\ WantedAfterOdd

\* Decoded of the frames s, and Answers among the replies r.
Taken(s, n, kinds) == Chosen(Numbers(n), {i \in 1..n : s[i].kind \in kinds})
AnswersIn(r) == Chosen(r, {i \in 1..Len(r) : r[i].kind = "R"})

\* Decoded and Answers before a step and after it.
LEMMA EffectsAreOfSent ==
  /\ \A n, kinds : Decoded(n, kinds) = Taken(sent, n, kinds) /\ Decoded(n, kinds)' = Taken(sent', n, kinds)
  /\ \A kinds : Decoded(decoded, kinds)' = Taken(sent', decoded', kinds)
  /\ \A i : Decoded(replies[i].at, {"k"})' = Taken(sent', replies'[i].at, {"k"})
  /\ Answers = AnswersIn(replies) /\ Answers' = AnswersIn(replies')
  BY DEF Decoded, Taken, Answers, AnswersIn

\* One more frame is taken or left out.
LEMMA OneMoreTaken ==
  ASSUME NEW s \in Seq(Frame), NEW n \in Nat, NEW kinds
  PROVE  /\ Taken(s, n, kinds) \in Seq(Nat)
         /\ Taken(s, n + 1, kinds) = IF s[n + 1].kind \in kinds THEN Append(Taken(s, n, kinds), n + 1)
                                                              ELSE Taken(s, n, kinds)
<1> DEFINE P == {i \in 1..n : s[i].kind \in kinds}
           Q == {i \in 1..n + 1 : s[i].kind \in kinds}
           u == Numbers(n)
<1>1. u \in Seq(Nat) /\ Len(u) = n /\ \A i \in 1..n : u[i] = i
  BY NumbersType
<1>2. Numbers(n + 1) = Append(u, n + 1)
  <2>1. /\ Numbers(n + 1) \in Seq(Nat) /\ Len(Numbers(n + 1)) = n + 1
        /\ \A i \in 1..n + 1 : Numbers(n + 1)[i] = i
    BY NumbersType
  <2>2. n + 1 \in Nat
    OBVIOUS
  <2> HIDE DEF u
  <2>3. /\ Append(u, n + 1) \in Seq(Nat) /\ Len(Append(u, n + 1)) = n + 1
        /\ \A i \in 1..n : Append(u, n + 1)[i] = u[i]
        /\ Append(u, n + 1)[n + 1] = n + 1
    BY <1>1, <2>2, Appended
  <2>4. \A i \in 1..n + 1 : Append(u, n + 1)[i] = i
    BY <1>1, <2>3
  <2> QED
    BY <2>1, <2>3, <2>4, Alike
<1> HIDE DEF u
<1>3. n + 1 \in Nat /\ Len(u) + 1 = n + 1 /\ Len(u) = Len(u)
  BY <1>1
<1>4. Chosen(Append(u, n + 1), Q) = IF Len(u) + 1 \in Q THEN Append(Chosen(u, Q), n + 1) ELSE Chosen(u, Q)
  <2>1. ASSUME NEW e \in Nat
        PROVE  Chosen(Append(u, e), Q) = IF Len(u) + 1 \in Q THEN Append(Chosen(u, Q), e) ELSE Chosen(u, Q)
    <3>1. u \in Seq(Nat)
      BY <1>1
    <3> HIDE DEF Q
    <3> QED
      BY <3>1, ChosenAppend
  <2> QED
    BY <1>3, <2>1, Zenon
<1>5. \A k \in 1..Len(u) : u[k] = u[k] /\ (k \in P <=> k \in Q)
  BY <1>1
<1>6. n + 1 \in Q <=> s[n + 1].kind \in kinds
  OBVIOUS
<1> HIDE DEF P, Q
<1>7. Chosen(u, P) = Chosen(u, Q)
  BY <1>1, <1>5, ChosenSame
<1>8. Taken(s, n, kinds) = Chosen(u, P) /\ Taken(s, n + 1, kinds) = Chosen(Append(u, n + 1), Q)
  BY <1>2, Zenon DEF Taken, P, Q, u
<1>9. Chosen(u, P) \in Seq(Nat)
  BY <1>1, ChosenType
<1> QED
  BY <1>3, <1>4, <1>6, <1>7, <1>8, <1>9, Zenon

\* Frames sent later do not change what was taken of the first n.
SameFrames(s, t, n) == \A i \in 1..n : s[i] = t[i]
LEMMA TakenStays ==
  ASSUME NEW s, NEW t, NEW n, NEW kinds, SameFrames(s, t, n)
  PROVE  Taken(s, n, kinds) = Taken(t, n, kinds)
<1>1. {i \in 1..n : s[i].kind \in kinds} = {i \in 1..n : t[i].kind \in kinds}
  BY DEF SameFrames
<1> QED
  BY <1>1, Zenon DEF Taken

\* An answer is one more, any other reply is not.
LEMMA OneMoreAnswer ==
  ASSUME NEW T, NEW r \in Seq(T), NEW e \in T
  PROVE  /\ Len(AnswersIn(r)) \in Nat
         /\ Len(AnswersIn(Append(r, e))) = IF e.kind = "R" THEN Len(AnswersIn(r)) + 1
                                                          ELSE Len(AnswersIn(r))
<1> DEFINE q == Append(r, e)
           P == {i \in 1..Len(r) : r[i].kind = "R"}
           Q == {i \in 1..Len(q) : q[i].kind = "R"}
<1>1. /\ Len(r) \in Nat /\ Len(q) = Len(r) + 1 /\ \A i \in 1..Len(r) : q[i] = r[i]
      /\ q[Len(r) + 1] = e
  BY Appended
<1>2. \A k \in 1..Len(r) : r[k] = r[k] /\ (k \in P <=> k \in Q)
  BY <1>1
<1>3. Len(r) + 1 \in Q <=> e.kind = "R"
  BY <1>1
<1>4. AnswersIn(r) = Chosen(r, P) /\ AnswersIn(q) = Chosen(Append(r, e), Q)
  BY Zenon DEF AnswersIn
<1> HIDE DEF P, Q
<1>5. Chosen(r, P) = Chosen(r, Q)
  BY <1>2, ChosenSame
<1>6. Chosen(Append(r, e), Q) = IF Len(r) + 1 \in Q THEN Append(Chosen(r, Q), e) ELSE Chosen(r, Q)
  BY ChosenAppend
<1>7. Chosen(r, Q) \in Seq(T)
  BY ChosenType
<1>8. Len(Chosen(r, Q)) \in Nat /\ Len(Append(Chosen(r, Q), e)) = Len(Chosen(r, Q)) + 1
  BY <1>7, Appended
<1> QED
  BY <1>3, <1>4, <1>5, <1>6, <1>8, Zenon

\* The frames that transmitted is from, with one more.
LEMMA OneMoreFrom ==
  ASSUME NEW T, NEW s \in Seq(T), NEW e \in T
  PROVE  [i \in 1..Len(Append(s, e)) |-> Append(s, e)[i].from]
           = Append([i \in 1..Len(s) |-> s[i].from], e.from)
<1> DEFINE p == Append(s, e)
           F == [i \in 1..Len(s) |-> s[i].from]
           S == {s[i].from : i \in 1..Len(s)} \cup {e.from}
           G == [i \in 1..Len(p) |-> p[i].from]
<1>1. /\ Len(s) \in Nat /\ Len(p) = Len(s) + 1 /\ \A i \in 1..Len(s) : p[i] = s[i]
      /\ p[Len(s) + 1] = e
  BY Appended
<1>2. F \in Seq(S) /\ Len(F) = Len(s) /\ \A i \in 1..Len(s) : F[i] = s[i].from
  <2>1. \A i \in 1..Len(s) : s[i].from \in S
    OBVIOUS
  <2>2. F \in [1..Len(s) -> S]
    BY <2>1, Zenon
  <2>3. Len(F) = Len(s) /\ \A i \in 1..Len(s) : F[i] = s[i].from
    BY <1>1
  <2> HIDE DEF F, S
  <2>4. F \in Seq(S)
    BY <1>1, <2>2, IsASeq
  <2> QED
    BY <2>3, <2>4, Zenon
<1>3. G \in Seq(S) /\ Len(G) = Len(s) + 1 /\ \A i \in 1..Len(s) + 1 : G[i] = p[i].from
  <2>1. \A i \in 1..Len(p) : p[i].from \in S
    BY <1>1
  <2>2. G \in [1..Len(p) -> S]
    BY <2>1, Zenon
  <2>3. Len(G) = Len(p) /\ \A i \in 1..Len(p) : G[i] = p[i].from
    BY <1>1
  <2> HIDE DEF G, S, p
  <2>4. Len(p) \in Nat
    BY <1>1
  <2>5. G \in Seq(S)
    BY <2>2, <2>4, IsASeq
  <2> QED
    BY <1>1, <2>3, <2>5
<1>4. e.from \in S
  OBVIOUS
<1> HIDE DEF F, G, S, p
<1>5. /\ Append(F, e.from) \in Seq(S) /\ Len(Append(F, e.from)) = Len(F) + 1
      /\ \A i \in 1..Len(F) : Append(F, e.from)[i] = F[i]
      /\ Append(F, e.from)[Len(F) + 1] = e.from
  BY <1>2, <1>4, Appended
<1>6. \A i \in 1..Len(G) : G[i] = Append(F, e.from)[i]
  <2>1. \A i \in 1..Len(s) : G[i] = F[i]
    BY <1>1, <1>2, <1>3
  <2>2. G[Len(s) + 1] = e.from
    BY <1>1, <1>3
  <2> QED
    BY <1>1, <1>2, <1>3, <1>5, <2>1, <2>2
<1>7. Len(G) = Len(Append(F, e.from))
  BY <1>2, <1>3, <1>5
<1>8. G = Append(F, e.from)
  BY <1>3, <1>5, <1>6, <1>7, Alike
<1> QED
  BY <1>8, Zenon DEF G, F, p

\* Nothing has been decoded when a client connects.
LEMMA InitEffects == Init => Effects
<1> SUFFICES ASSUME Init PROVE Effects
  OBVIOUS
<1>1. decoded = 0 /\ sent = <<>> /\ transmitted = <<>> /\ replies = <<>> /\ want_raw = FALSE
  BY DEF Init
<1>2. ASSUME NEW kinds PROVE Decoded(0, kinds) = <<>>
  <2>1. Numbers(0) = <<>>
    BY DEF Numbers
  <2> QED
    BY <2>1, ChosenEmpty, Zenon DEF Decoded
<1>3. Answers = <<>>
  BY <1>1, ChosenEmpty, Zenon DEF Answers
<1>4. <<>> = [k \in 1..Len(transmitted) |-> transmitted[k].from]
  BY <1>1
<1>5. Len(<<>>) = 0 /\ 0 % 2 = 0
  OBVIOUS
<1>6. NoneBad /\ TransmittedInOrder /\ EachAnswered
  BY <1>1, <1>2, <1>3, <1>4, Zenon DEF NoneBad, TransmittedInOrder, EachAnswered
<1>7. OctetsAreComposed /\ PassedOnWhenWanted
  BY <1>1 DEF OctetsAreComposed, PassedOnWhenWanted
<1>8. WantedAfterOdd
  <2>1. Len(Decoded(decoded, {"k"})) = 0
    BY <1>1, <1>2, <1>5, Zenon
  <2> QED
    BY <1>1, <2>1 DEF WantedAfterOdd
<1> QED
  BY <1>6, <1>7, <1>8 DEF Effects

\* A step that neither decodes nor writes has no effect.
LEMMA NoEffect ==
  ASSUME Effects, UNCHANGED <<sent, decoded, transmitted, replies, want_raw>>
  PROVE  Effects'
<1>1. NoneBad' /\ TransmittedInOrder' /\ EachAnswered'
  BY DEF Effects, NoneBad, TransmittedInOrder, EachAnswered, Decoded, Answers
<1>2. OctetsAreComposed' /\ WantedAfterOdd'
  BY DEF Effects, OctetsAreComposed, WantedAfterOdd, Decoded, Compose
<1>3. PassedOnWhenWanted'
  <2>1. \A n : Decoded(n, {"k"})' = Decoded(n, {"k"})
    BY DEF Decoded
  <2>2. \A i : Decoded(replies[i].at, {"k"})' = Decoded(replies[i].at, {"k"})
    BY EffectsAreOfSent, Zenon
  <2> QED
    BY <2>1, <2>2, Zenon DEF Effects, PassedOnWhenWanted
<1> QED
  BY <1>1, <1>2, <1>3 DEF Effects

\* What is recorded of the frames decoded names frames that were sent.
LEMMA RecordsAreOfSent ==
  ASSUME TypeOK
  PROVE  /\ transmitted \in Seq([from : 1..Len(sent), octets : Seq(0..255)])
         /\ replies \in Seq([kind : {"R", "K"}, at : 0..Len(sent)])
         /\ Len(transmitted) \in Nat /\ \A i \in 1..Len(transmitted) : transmitted[i].from \in 1..Len(sent)
         /\ Len(replies) \in Nat /\ \A i \in 1..Len(replies) : replies[i].at \in 0..Len(sent)
<1> DEFINE S == [from : 1..Len(sent), octets : Seq(0..255)]
           R == [kind : {"R", "K"}, at : 0..Len(sent)]
<1>1. transmitted \in Seq(S) /\ replies \in Seq(R)
  BY DEF TypeOK
<1>2. (\A e \in S : e.from \in 1..Len(sent)) /\ (\A e \in R : e.at \in 0..Len(sent))
  OBVIOUS
<1> HIDE DEF S, R
<1>3. Len(transmitted) \in Nat /\ \A i \in 1..Len(transmitted) : transmitted[i] \in S
  BY <1>1, Elements
<1>4. Len(replies) \in Nat /\ \A i \in 1..Len(replies) : replies[i] \in R
  BY <1>1, Elements
<1> QED
  BY <1>1, <1>2, <1>3, <1>4, Zenon DEF S, R

\* A frame that is sent has no effect yet.
LEMMA SendingHasNoEffect ==
  ASSUME IInv, Effects, ClientSends
  PROVE  Effects'
<1>1. PICK f \in Frame : sent' = Append(sent, f)
  BY DEF ClientSends
<1>2. decoded' = decoded /\ transmitted' = transmitted /\ replies' = replies /\ want_raw' = want_raw
  BY DEF ClientSends
<1>3. /\ sent \in Seq(Frame) /\ Len(sent) \in Nat /\ decoded \in 0..Len(sent)
      /\ \A i \in 1..Len(sent) : sent'[i] = sent[i]
  BY <1>1, Cursor, Appended
<1>4. ASSUME NEW n \in 0..Len(sent), NEW kinds
      PROVE  Taken(sent', n, kinds) = Decoded(n, kinds)
  <2>1. SameFrames(sent', sent, n)
    BY <1>3 DEF SameFrames
  <2>2. Taken(sent', n, kinds) = Taken(sent, n, kinds)
    BY <2>1, TakenStays
  <2> QED
    BY <2>2, EffectsAreOfSent, Zenon
<1>5. \A kinds : Decoded(decoded, kinds)' = Decoded(decoded, kinds)
  BY <1>2, <1>3, <1>4, EffectsAreOfSent, Zenon
<1>6. Answers' = Answers
  BY <1>2, EffectsAreOfSent, Zenon
<1>7. NoneBad' /\ TransmittedInOrder' /\ EachAnswered' /\ WantedAfterOdd'
  BY <1>2, <1>5, <1>6, Zenon DEF Effects, NoneBad, TransmittedInOrder, EachAnswered, WantedAfterOdd
<1>8. OctetsAreComposed'
  <2>1. \A i \in 1..Len(transmitted) : transmitted[i].from \in 1..Len(sent)
    BY RecordsAreOfSent DEF IInv
  <2>2. \A i \in 1..Len(transmitted) : sent'[transmitted[i].from] = sent[transmitted[i].from]
    BY <1>3, <2>1, Zenon
  <2>3. \A i \in 1..Len(transmitted) : transmitted[i].octets = Compose(sent[transmitted[i].from])
    BY DEF Effects, OctetsAreComposed
  <2>4. \A i \in 1..Len(transmitted) : transmitted[i].octets = Compose(sent'[transmitted[i].from])
    BY <2>2, <2>3, Zenon
  <2> QED
    BY <1>2, <2>4 DEF OctetsAreComposed, Compose
<1>9. PassedOnWhenWanted'
  <2>1. \A i \in 1..Len(replies) : replies[i].at \in 0..Len(sent)
    BY RecordsAreOfSent DEF IInv
  <2>2. \A i \in 1..Len(replies) : Decoded(replies[i].at, {"k"})' = Decoded(replies[i].at, {"k"})
    BY <1>2, <1>4, <2>1, EffectsAreOfSent, Zenon
  <2> QED
    BY <1>2, <2>2, Zenon DEF Effects, PassedOnWhenWanted
<1> QED
  BY <1>7, <1>8, <1>9 DEF Effects

\* A packet is passed on to a client that wants it, which is no answer to R.
LEMMA WritingKeepsEffects ==
  ASSUME IInv, Effects, Write
  PROVE  Effects'
<1>1. PICK size \in PacketSizes : replies' = IF want_raw /\ Fits(size) THEN Reply("K") ELSE replies
  BY DEF Write
<1>2. sent' = sent /\ decoded' = decoded /\ transmitted' = transmitted /\ want_raw' = want_raw
  BY DEF Write
<1>3. CASE ~(want_raw /\ Fits(size))
  BY <1>1, <1>2, <1>3, NoEffect
<1>4. CASE want_raw /\ Fits(size)
  <2> DEFINE e == [kind |-> "K", at |-> decoded]
             R == [kind : {"R", "K"}, at : 0..Len(sent)]
  <2>1. replies' = Append(replies, e) /\ e.kind = "K" /\ e.at = decoded /\ "K" # "R"
    BY <1>1, <1>4 DEF Reply
  <2>2. replies \in Seq(R) /\ e \in R
    BY RecordsAreOfSent, Cursor DEF IInv
  <2> HIDE DEF e, R
  <2>3. Answers' = AnswersIn(Append(replies, e)) /\ Len(AnswersIn(Append(replies, e))) = Len(AnswersIn(replies))
    BY <2>1, <2>2, OneMoreAnswer, EffectsAreOfSent
  <2>4. \A n, kinds : Decoded(n, kinds)' = Decoded(n, kinds)
    BY <1>2, EffectsAreOfSent, Zenon
  <2>5. \A kinds : Decoded(decoded, kinds)' = Decoded(decoded, kinds)
    BY <1>2, EffectsAreOfSent, Zenon
  <2>6. NoneBad' /\ TransmittedInOrder' /\ WantedAfterOdd'
    BY <1>2, <2>5, Zenon DEF Effects, NoneBad, TransmittedInOrder, WantedAfterOdd
  <2>7. EachAnswered'
    BY <2>3, <2>5, EffectsAreOfSent, Zenon DEF Effects, EachAnswered
  <2>8. OctetsAreComposed'
    BY <1>2 DEF Effects, OctetsAreComposed, Compose
  <2>9. PassedOnWhenWanted'
    <3>1. /\ Len(replies) \in Nat /\ Len(replies') = Len(replies) + 1
          /\ \A i \in 1..Len(replies) : replies'[i] = replies[i]
          /\ replies'[Len(replies) + 1] = e
      BY <2>1, <2>2, Appended
    <3>2. ASSUME NEW i \in 1..Len(replies'), replies'[i].kind = "K"
          PROVE  Len(Decoded(replies'[i].at, {"k"})) % 2 = 1
      <4>1. CASE i \in 1..Len(replies)
        BY <3>1, <3>2, <4>1, Zenon DEF Effects, PassedOnWhenWanted
      <4>2. CASE i \notin 1..Len(replies)
        <5>1. i = Len(replies) + 1
          BY <3>1, <4>2
        <5>2. replies'[i].at = decoded
          BY <2>1, <3>1, <5>1, Zenon
        <5>3. Len(Decoded(decoded, {"k"})) % 2 = 1
          BY <1>4, Zenon DEF Effects, WantedAfterOdd
        <5> QED
          BY <5>2, <5>3, Zenon
      <4> QED
        BY <4>1, <4>2
    <3>3. \A i : Decoded(replies[i].at, {"k"})' = Decoded(replies'[i].at, {"k"})
      BY <1>2, EffectsAreOfSent, Zenon
    <3> QED
      BY <3>2, <3>3, Zenon DEF PassedOnWhenWanted
  <2> QED
    BY <2>6, <2>7, <2>8, <2>9 DEF Effects
<1> QED
  BY <1>3, <1>4

\* A frame that is decoded has its effect, at the end of what went before.
LEMMA DecodingAddsItsEffect ==
  ASSUME IInv, Effects, DecodeFrame
  PROVE  Effects'
<1> DEFINE S == [from : 1..Len(sent), octets : Seq(0..255)]
           R == [kind : {"R", "K"}, at : 0..Len(sent)]
<1>1. PICK f \in Frame :
        /\ AtFrame(f) /\ f.kind # "bad"
        /\ transmitted' = IF Transmits(f)
                            THEN Append(transmitted, [from |-> decoded + 1, octets |-> Compose(f)])
                            ELSE transmitted
        /\ replies' = IF f.kind = "R" THEN Reply("R") ELSE replies
        /\ want_raw' = IF f.kind = "k" THEN ~want_raw ELSE want_raw
  BY DEF DecodeFrame
<1>2. sent' = sent /\ decoded' = decoded + 1
  BY DEF DecodeFrame
<1>3. PICK n \in Nat : n = decoded
  BY Cursor
<1>4. /\ f = sent[n + 1] /\ n + 1 \in 1..Len(sent) /\ sent \in Seq(Frame)
      /\ transmitted \in Seq(S) /\ replies \in Seq(R) /\ Len(transmitted) \in Nat /\ Len(replies) \in Nat
  BY <1>1, <1>3, HeaderIsOfFrame, Cursor, RecordsAreOfSent DEF AtFrame, IInv
<1>5. ASSUME NEW kinds
      PROVE  /\ Decoded(decoded, kinds) \in Seq(Nat)
             /\ Decoded(decoded, kinds)' = IF f.kind \in kinds THEN Append(Decoded(decoded, kinds), n + 1)
                                                              ELSE Decoded(decoded, kinds)
  <2>1. /\ Taken(sent, n, kinds) \in Seq(Nat)
        /\ Taken(sent, n + 1, kinds) = IF sent[n + 1].kind \in kinds THEN Append(Taken(sent, n, kinds), n + 1)
                                                                    ELSE Taken(sent, n, kinds)
    BY <1>4, OneMoreTaken
  <2>2. Decoded(decoded, kinds) = Taken(sent, n, kinds) /\ Decoded(decoded, kinds)' = Taken(sent, n + 1, kinds)
    BY <1>2, <1>3, EffectsAreOfSent, Zenon
  <2> QED
    BY <1>4, <2>1, <2>2, Zenon
<1>6. ASSUME NEW kinds
      PROVE  /\ Len(Decoded(decoded, kinds)) \in Nat
             /\ Len(Decoded(decoded, kinds)') = IF f.kind \in kinds THEN Len(Decoded(decoded, kinds)) + 1
                                                                   ELSE Len(Decoded(decoded, kinds))
  <2> DEFINE d == Decoded(decoded, kinds)
             p == Decoded(decoded, kinds)'
  <2>1. d \in Seq(Nat) /\ p = IF f.kind \in kinds THEN Append(d, n + 1) ELSE d
    BY <1>5
  <2>2. n + 1 \in Nat
    BY <1>3
  <2> HIDE DEF d, p
  <2>3. Len(d) \in Nat /\ Len(Append(d, n + 1)) = Len(d) + 1
    BY <2>1, <2>2, AppendProperties
  <2>4. Len(d) \in Nat /\ Len(p) = IF f.kind \in kinds THEN Len(d) + 1 ELSE Len(d)
    BY <2>1, <2>3, Zenon
  <2> QED
    BY <2>4 DEF d, p
<1>7. \A k, kinds : Decoded(k, kinds) = Taken(sent, k, kinds) /\ Decoded(k, kinds)' = Decoded(k, kinds)
  BY <1>2, EffectsAreOfSent, Zenon
<1>8. NoneBad'
  <2>1. f.kind \notin {"bad"}
    BY <1>1
  <2> QED
    BY <1>5, <2>1, Zenon DEF Effects, NoneBad
<1> DEFINE e == [from |-> n + 1, octets |-> Compose(f)]
<1>9. e \in S /\ e.from = n + 1 /\ e.octets = Compose(f)
  BY <1>4, ComposeType
<1> HIDE DEF S, e
<1>10. transmitted' = IF Transmits(f) THEN Append(transmitted, e) ELSE transmitted
  BY <1>1, <1>3, Zenon DEF e
<1>11. Transmits(f) <=> f.kind \in {"K", "V"}
  BY DEF Transmits
<1>12. TransmittedInOrder'
  <2>1. CASE ~Transmits(f)
    <3>1. Decoded(decoded, {"K", "V"})' = Decoded(decoded, {"K", "V"})
      BY <1>5, <1>11, <2>1, Zenon
    <3>2. transmitted' = transmitted
      BY <1>10, <2>1, Zenon
    <3> QED
      BY <3>1, <3>2, Zenon DEF Effects, TransmittedInOrder
  <2>2. CASE Transmits(f)
    <3>1. [k \in 1..Len(Append(transmitted, e)) |-> Append(transmitted, e)[k].from]
            = Append([k \in 1..Len(transmitted) |-> transmitted[k].from], e.from)
      BY <1>4, <1>9, OneMoreFrom
    <3>2. Decoded(decoded, {"K", "V"})' = Append(Decoded(decoded, {"K", "V"}), n + 1)
      BY <1>5, <1>11, <2>2, Zenon
    <3>3. Decoded(decoded, {"K", "V"}) = [k \in 1..Len(transmitted) |-> transmitted[k].from]
      BY DEF Effects, TransmittedInOrder
    <3>4. transmitted' = Append(transmitted, e)
      BY <1>10, <2>2, Zenon
    <3>5. Decoded(decoded, {"K", "V"})' = [k \in 1..Len(transmitted') |-> transmitted'[k].from]
      BY <1>9, <3>1, <3>2, <3>3, <3>4, Zenon
    <3> QED
      BY <3>5, Zenon DEF TransmittedInOrder
  <2> QED
    BY <2>1, <2>2
<1>13. OctetsAreComposed'
  <2>1. CASE ~Transmits(f)
    BY <1>2, <1>10, <2>1 DEF Effects, OctetsAreComposed, Compose
  <2>2. CASE Transmits(f)
    <3>1. /\ Len(transmitted') = Len(transmitted) + 1 /\ transmitted'[Len(transmitted) + 1] = e
          /\ \A i \in 1..Len(transmitted) : transmitted'[i] = transmitted[i]
      BY <1>4, <1>9, <1>10, <2>2, Appended
    <3>2. ASSUME NEW i \in 1..Len(transmitted')
          PROVE  transmitted'[i].octets = Compose(sent[transmitted'[i].from])
      <4>1. CASE i \in 1..Len(transmitted)
        BY <3>1, <4>1, Zenon DEF Effects, OctetsAreComposed
      <4>2. CASE i \notin 1..Len(transmitted)
        <5>1. i = Len(transmitted) + 1
          BY <1>4, <3>1, <4>2
        <5> QED
          BY <1>4, <1>9, <3>1, <5>1, Zenon
      <4> QED
        BY <4>1, <4>2
    <3> QED
      BY <1>2, <3>2 DEF OctetsAreComposed, Compose
  <2> QED
    BY <2>1, <2>2
<1>14. EachAnswered' /\ PassedOnWhenWanted'
  <2> DEFINE r == [kind |-> "R", at |-> decoded]
  <2>1. r \in R /\ r.kind = "R"
    BY Cursor
  <2>2. replies' = IF f.kind = "R" THEN Append(replies, r) ELSE replies
    BY <1>1, Zenon DEF Reply
  <2>3. f.kind \in {"R"} <=> f.kind = "R"
    OBVIOUS
  <2> HIDE DEF r, R
  <2>4. Len(AnswersIn(Append(replies, r))) = Len(AnswersIn(replies)) + 1
    BY <1>4, <2>1, OneMoreAnswer
  <2>5. EachAnswered'
    <3>1. Answers = AnswersIn(replies) /\ Answers' = AnswersIn(replies')
      BY EffectsAreOfSent
    <3>2. Len(Decoded(decoded, {"R"})) = Len(Answers)
      BY DEF Effects, EachAnswered
    <3>3. Len(Decoded(decoded, {"R"})') = Len(Answers')
      BY <1>6, <2>2, <2>3, <2>4, <3>1, <3>2, Zenon
    <3> QED
      BY <3>3, Zenon DEF EachAnswered
  <2>6. \A i : Decoded(replies[i].at, {"k"})' = Decoded(replies'[i].at, {"k"})
    BY <1>2, EffectsAreOfSent, Zenon
  <2>7. ASSUME NEW i \in 1..Len(replies'), replies'[i].kind = "K"
        PROVE  Len(Decoded(replies'[i].at, {"k"})) % 2 = 1
    <3>1. CASE f.kind # "R"
      BY <2>2, <2>7, <3>1, Zenon DEF Effects, PassedOnWhenWanted
    <3>2. CASE f.kind = "R"
      <4>1. /\ Len(replies') = Len(replies) + 1 /\ replies'[Len(replies) + 1] = r
            /\ \A j \in 1..Len(replies) : replies'[j] = replies[j]
        BY <1>4, <2>1, <2>2, <3>2, Appended
      <4>2. i # Len(replies) + 1
        <5>1. "R" # "K"
          OBVIOUS
        <5> QED
          BY <2>1, <2>7, <4>1, <5>1, Zenon
      <4>3. i \in 1..Len(replies)
        BY <1>4, <4>1, <4>2
      <4> QED
        BY <2>7, <4>1, <4>3, Zenon DEF Effects, PassedOnWhenWanted
    <3> QED
      BY <3>1, <3>2
  <2>8. PassedOnWhenWanted'
    BY <2>6, <2>7, Zenon DEF PassedOnWhenWanted
  <2> QED
    BY <2>5, <2>8
<1>15. WantedAfterOdd'
  <2>1. PICK x \in Nat, y \in Nat : /\ x = Len(Decoded(decoded, {"k"})) /\ y = Len(Decoded(decoded, {"k"})')
                                    /\ y = IF f.kind = "k" THEN x + 1 ELSE x
    <3>1. f.kind \in {"k"} <=> f.kind = "k"
      OBVIOUS
    <3>2. PICK x \in Nat : x = Len(Decoded(decoded, {"k"}))
      BY <1>6, Zenon
    <3>3. Len(Decoded(decoded, {"k"})') = IF f.kind = "k" THEN x + 1 ELSE x
      BY <1>6, <3>1, <3>2, Zenon
    <3>4. (IF f.kind = "k" THEN x + 1 ELSE x) \in Nat
      OBVIOUS
    <3> QED
      BY <3>2, <3>3, <3>4, Zenon
  <2>2. want_raw <=> x % 2 = 1
    BY <2>1, Zenon DEF Effects, WantedAfterOdd
  <2>3. want_raw' <=> y % 2 = 1
    <3>1. CASE f.kind = "k"
      <4>1. (x + 1) % 2 = 1 <=> ~(x % 2 = 1)
        OBVIOUS
      <4>2. want_raw' <=> ~want_raw
        BY <1>1, <3>1, Zenon
      <4> QED
        BY <2>1, <2>2, <3>1, <4>1, <4>2, Zenon
    <3>2. CASE f.kind # "k"
      BY <1>1, <2>1, <2>2, <3>2, Zenon
    <3> QED
      BY <3>1, <3>2
  <2> QED
    BY <2>1, <2>3, Zenon DEF WantedAfterOdd
<1> QED
  BY <1>8, <1>12, <1>13, <1>14, <1>15 DEF Effects

\* What the frames decoded had for effects is what HandledInOrder says.
LEMMA EffectsAreInOrder == IInv /\ Effects => HandledInOrder
<1> SUFFICES ASSUME IInv, Effects PROVE HandledInOrder
  OBVIOUS
<1>1. ASSUME NEW i \in 1..Len(transmitted), NEW f, f = sent[transmitted[i].from],
             f.kind = "V", LegibleVia(f.via)
      PROVE  Printed(transmitted[i].octets) = Meant(f.via)
  <2>1. transmitted[i].from \in 1..Len(sent) /\ sent \in Seq(Frame)
    BY RecordsAreOfSent, Cursor DEF IInv
  <2>2. f \in Frame
    BY <1>1, <2>1, Elements
  <2>3. f \in ViaFrame
    BY <1>1, <2>2 DEF Frame, Plain, WithData
  <2>4. transmitted[i].octets = Compose(f)
    BY <1>1, Zenon DEF Effects, OctetsAreComposed
  <2>5. Printed(Compose(f)) = Meant(f.via)
    BY <1>1, <2>3, PrintedIs
  <2> QED
    BY <2>4, <2>5, Zenon
<1>2. /\ Decoded(decoded, {"bad"}) = <<>>
      /\ Decoded(decoded, {"K", "V"}) = [i \in 1..Len(transmitted) |-> transmitted[i].from]
      /\ Len(Decoded(decoded, {"R"})) = Len(Answers)
  BY DEF Effects, NoneBad, TransmittedInOrder, EachAnswered
<1>3. \A i \in 1..Len(replies) :
        replies[i].kind = "K" => Len(Decoded(replies[i].at, {"k"})) % 2 = 1
  BY DEF Effects, PassedOnWhenWanted
<1> QED
  BY <1>1, <1>2, <1>3, Zenon DEF HandledInOrder

\* handle_incoming_data() and handle_agwpe_frame() act on every frame that is decoded
\* once and in order: what is transmitted is what K and V frames asked for, as a
\* station prints it again, each R is answered, and write() passes packets on after
\* an odd number of k only.
THEOREM FramesHandledInOrder == Spec => []HandledInOrder
<1>1. IInv /\ Effects /\ [Next]_vars => Effects'
  <2> SUFFICES ASSUME IInv, Effects, [Next]_vars PROVE Effects'
    OBVIOUS
  <2>1. CASE ClientSends
    BY <2>1, SendingHasNoEffect
  <2>2. CASE Read
    BY <2>2, NoEffect DEF Read
  <2>3. CASE DecodeNothing
    BY <2>3, NoEffect DEF DecodeNothing
  <2>4. CASE DecodeBad
    BY <2>4, NoEffect DEF DecodeBad
  <2>5. CASE DecodeFrame
    BY <2>5, DecodingAddsItsEffect
  <2>6. CASE DecodePastEnd
    BY <2>6, NoEffect DEF DecodePastEnd
  <2>7. CASE Write
    BY <2>7, WritingKeepsEffects
  <2>8. CASE UNCHANGED vars
    BY <2>8, NoEffect DEF vars
  <2> QED
    BY <2>1, <2>2, <2>3, <2>4, <2>5, <2>6, <2>7, <2>8 DEF Next, Decode
<1> QED
  BY InitEffects, AgwpeInvariant, EffectsAreInOrder, <1>1, PTL DEF Spec
=============================================================================
