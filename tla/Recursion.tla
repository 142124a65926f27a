----------------------------- MODULE Recursion -----------------------------
(***************************************************************************)
(* Induction without operators: what the proofs need of functions that are *)
(* defined by recursion over the numbers up to n.  The induction theorems  *)
(* of the library take the predicate as an operator; a set serves as well. *)
(* Then, by it, what the functions of Selection return.                    *)
(***************************************************************************)
EXTENDS Selection, SequenceTheorems, WellFoundedInduction, TLAPS

\* Numbers have a least one among them.
LEMMA LeastNumber ==
  ASSUME NEW T, T \subseteq Nat, T # {}
  PROVE  \E x \in T : \A y \in T : x <= y
<1> DEFINE Less == {ss \in Nat \X Nat : ss[1] < ss[2]}
<1>1. IsWellFoundedOn(Less, Nat)
  BY NatLessThanWellFounded, Zenon DEF OpToRel
<1> HIDE DEF Less
<1>2. PICK x \in T : \A y \in T : <<y, x>> \notin Less
  BY <1>1, WFMin
<1>3. \A y \in T : ~(y < x)
  BY <1>2 DEF Less
<1> QED
  BY <1>3

\* What holds for zero and goes from each number up to n to the next holds for
\* all of them.
LEMMA UpTo ==
  ASSUME NEW n \in Nat, NEW S, 0 \in S,
         \A i \in 1..n : i - 1 \in S => i \in S
  PROVE  0..n \subseteq S
<1> SUFFICES ASSUME (0..n) \ S # {} PROVE FALSE
  OBVIOUS
<1>1. PICK x \in (0..n) \ S : \A y \in (0..n) \ S : x <= y
  <2>1. (0..n) \ S \subseteq Nat
    OBVIOUS
  <2> QED
    BY <2>1, LeastNumber
<1>2. x \in 1..n /\ x - 1 \in 0..n /\ ~(x <= x - 1)
  BY <1>1
<1>3. x - 1 \in S
  BY <1>1, <1>2
<1> QED
  BY <1>1, <1>2, <1>3

\* f begins with c and goes on with what step makes of a value and a number.
Recurs(f, n, T, c, step) ==
    /\ f \in [0..n -> T]
    /\ \A i \in 0..n : f[i] = IF i = 0 THEN c ELSE step[<<f[i - 1], i>>]

\* A recursive definition has a function that it defines, if its step, given as
\* a function, stays in some set.
LEMMA RecursionDefines ==
  ASSUME NEW n \in Nat, NEW T, NEW c \in T, NEW step \in [T \X (1..n) -> T]
  PROVE  \E f : Recurs(f, n, T, c, step)
<1> DEFINE Good(k) == {f \in [0..k -> T] : \A i \in 0..k : f[i] = IF i = 0 THEN c ELSE step[<<f[i - 1], i>>]}
           S == {k \in 0..n : Good(k) # {}}
<1>1. 0 \in S
  <2>1. [i \in 0..0 |-> c] \in Good(0)
    OBVIOUS
  <2> QED
    BY <2>1
<1>2. ASSUME NEW k \in 1..n, k - 1 \in S PROVE k \in S
  <2>1. PICK f \in [0..k - 1 -> T] : \A i \in 0..k - 1 : f[i] = IF i = 0 THEN c ELSE step[<<f[i - 1], i>>]
    BY <1>2
  <2> DEFINE g == [i \in 0..k |-> IF i = k THEN step[<<f[k - 1], k>>] ELSE f[i]]
  <2>2. k - 1 \in 0..k - 1 /\ step[<<f[k - 1], k>>] \in T
    BY <2>1
  <2>3. g \in [0..k -> T]
    BY <2>1, <2>2
  <2>4. ASSUME NEW i \in 0..k PROVE g[i] = IF i = 0 THEN c ELSE step[<<g[i - 1], i>>]
    <3>1. CASE i = k
      <4>1. k # 0 /\ k - 1 \in 0..k /\ k - 1 # k /\ k \in 0..k
        OBVIOUS
      <4>2. g[k - 1] = f[k - 1] /\ g[k] = step[<<f[k - 1], k>>]
        BY <4>1
      <4> QED
        BY <3>1, <4>1, <4>2, Zenon
    <3>2. CASE i < k
      <4>1. i \in 0..k - 1 /\ g[i] = f[i]
        BY <3>2
      <4>2. CASE i = 0
        BY <2>1, <4>1, <4>2
      <4>3. CASE i # 0
        <5>1. i - 1 \in 0..k /\ i - 1 # k
          BY <4>1, <4>3
        <5>2. g[i - 1] = f[i - 1]
          BY <5>1
        <5> QED
          BY <2>1, <4>1, <4>3, <5>2
      <4> QED
        BY <4>2, <4>3
    <3> QED
      BY <3>1, <3>2
  <2>5. g \in Good(k)
    BY <2>3, <2>4
  <2>6. k \in 0..n
    OBVIOUS
  <2> HIDE DEF Good
  <2> QED
    BY <2>5, <2>6
<1> HIDE DEF S
<1>3. 0..n \subseteq S
  BY <1>1, <1>2, UpTo
<1>4. n \in S
  BY <1>3
<1> QED
  BY <1>4 DEF S, Recurs
-----------------------------------------------------------------------------
(* Sequences.                                                              *)

\* What an element appended makes of a sequence.
LEMMA Appended ==
  ASSUME NEW T, NEW s \in Seq(T), NEW e \in T
  PROVE  /\ Append(s, e) \in Seq(T) /\ Len(s) \in Nat /\ Len(Append(s, e)) = Len(s) + 1
         /\ \A i \in 1..Len(s) : Append(s, e)[i] = s[i]
         /\ Append(s, e)[Len(s) + 1] = e
  BY AppendProperties

\* The elements of a sequence over T are in T.
LEMMA Elements ==
  ASSUME NEW T, NEW s \in Seq(T)
  PROVE  Len(s) \in Nat /\ \A i \in 1..Len(s) : s[i] \in T
  OBVIOUS

\* What the concatenation of two sequences is, element by element.
LEMMA Concatenated ==
  ASSUME NEW T, NEW s \in Seq(T), NEW t \in Seq(T)
  PROVE  /\ s \o t \in Seq(T) /\ Len(s) \in Nat /\ Len(t) \in Nat /\ Len(s \o t) = Len(s) + Len(t)
         /\ \A i \in 1..Len(s) : (s \o t)[i] = s[i]
         /\ \A i \in 1..Len(t) : (s \o t)[Len(s) + i] = t[i]
<1> DEFINE u == s \o t
<1>1. u \in Seq(T) /\ Len(u) = Len(s) + Len(t) /\ Len(s) \in Nat /\ Len(t) \in Nat
  BY ConcatProperties
<1>2. \A i \in 1..Len(s) + Len(t) : u[i] = IF i <= Len(s) THEN s[i] ELSE t[i - Len(s)]
  BY ConcatProperties, Zenon
<1> HIDE DEF u
<1>3. \A i \in 1..Len(s) : u[i] = s[i]
  BY <1>1, <1>2
<1>4. \A i \in 1..Len(t) : u[Len(s) + i] = t[i]
  <2> TAKE i \in 1..Len(t)
  <2>1. Len(s) + i \in 1..Len(s) + Len(t) /\ ~(Len(s) + i <= Len(s)) /\ (Len(s) + i) - Len(s) = i
    BY <1>1
  <2> QED
    BY <1>2, <2>1
<1> QED
  BY <1>1, <1>3, <1>4 DEF u

\* The same under a name, with the lengths apart, which may then be replaced by
\* what they are.
Joined(u, s, t, x, y) ==
    /\ Len(u) = x + y
    /\ \A i \in 1..x : u[i] = s[i]
    /\ \A i \in 1..y : u[x + i] = t[i]

\* What the concatenation of two sequences is, under that name.
LEMMA JoinedOfTwo ==
  ASSUME NEW T, NEW s \in Seq(T), NEW t \in Seq(T)
  PROVE  Joined(s \o t, s, t, Len(s), Len(t))
<1>1. /\ Len(s \o t) = Len(s) + Len(t)
      /\ \A i \in 1..Len(s) : (s \o t)[i] = s[i]
      /\ \A i \in 1..Len(t) : (s \o t)[Len(s) + i] = t[i]
  BY Concatenated
<1> QED
  BY <1>1, Zenon DEF Joined

\* What a subsequence within the bounds is, element by element.
LEMMA SubSeqType ==
  ASSUME NEW T, NEW s \in Seq(T), NEW a \in Nat, NEW b \in Nat, 1 <= a, b <= Len(s)
  PROVE  /\ SubSeq(s, a, b) \in Seq(T)
         /\ Len(SubSeq(s, a, b)) = IF a <= b THEN b - a + 1 ELSE 0
         /\ \A i \in 1..b - a + 1 : SubSeq(s, a, b)[i] = s[a + i - 1]
<1>1. \A i \in a..b : s[i] \in T
  OBVIOUS
<1> QED
  BY <1>1, SubSeqProperties

\* What a beginning is.
LEMMA Beginning ==
  ASSUME NEW T, NEW s \in Seq(T), NEW m \in Nat, m <= Len(s)
  PROVE  /\ SubSeq(s, 1, m) \in Seq(T) /\ Len(SubSeq(s, 1, m)) = m
         /\ \A i \in 1..m : SubSeq(s, 1, m)[i] = s[i]
<1> DEFINE b == SubSeq(s, 1, m)
<1>1. /\ b \in Seq(T)
      /\ Len(b) = IF 1 <= m THEN m - 1 + 1 ELSE 0
      /\ \A i \in 1..m - 1 + 1 : b[i] = s[1 + i - 1]
  BY SubSeqType
<1> HIDE DEF b
<1>2. m - 1 + 1 = m /\ \A i \in 1..m : i \in 1..m - 1 + 1 /\ 1 + i - 1 = i
  OBVIOUS
<1> QED
  BY <1>1, <1>2 DEF b

\* n elements of s behind the first y of it.
Part(c, s, y, n) == Len(c) = n /\ \A i \in 1..n : c[i] = s[y + i]

\* What n elements behind the first y are.
LEMMA Middle ==
  ASSUME NEW T, NEW s \in Seq(T), NEW y \in Nat, NEW n \in Nat, NEW a, NEW b,
         y + n <= Len(s), a = y + 1, b = y + n
  PROVE  SubSeq(s, a, b) \in Seq(T) /\ Part(SubSeq(s, a, b), s, y, n)
<1> DEFINE c == SubSeq(s, y + 1, y + n)
<1>1. /\ c \in Seq(T)
      /\ Len(c) = IF y + 1 <= y + n THEN y + n - (y + 1) + 1 ELSE 0
      /\ \A i \in 1..y + n - (y + 1) + 1 : c[i] = s[y + 1 + i - 1]
  BY SubSeqType
<1>2. c = SubSeq(s, a, b)
  OBVIOUS
<1> HIDE DEF c
<1>3. y + n - (y + 1) + 1 = n /\ \A i \in 1..n : i \in 1..y + n - (y + 1) + 1 /\ y + 1 + i - 1 = y + i
  OBVIOUS
<1>4. c \in Seq(T) /\ Len(c) = n /\ \A i \in 1..n : c[i] = s[y + i]
  BY <1>1, <1>3
<1> QED
  BY <1>2, <1>4, Zenon DEF Part

\* Sequences that are alike are equal.
LEMMA Alike ==
  ASSUME NEW T, NEW s \in Seq(T), NEW t \in Seq(T), Len(s) = Len(t),
         \A i \in 1..Len(s) : s[i] = t[i]
  PROVE  s = t
  OBVIOUS

\* Under a name an equation is found, and not rewritten with, by the provers.
Assoc(a, b, c) == (a \o b) \o c = a \o (b \o c)

\* Concatenation is associative.
LEMMA Associative ==
  ASSUME NEW T, NEW a \in Seq(T), NEW b \in Seq(T), NEW c \in Seq(T)
  PROVE  Assoc(a, b, c)
  BY ConcatAssociative DEF Assoc

-----------------------------------------------------------------------------
(* The elements of a sequence at some positions.                           *)

\* What has been chosen after each element.
Choice(s, P, T, f) ==
    /\ f \in [0..Len(s) -> Seq(T)]
    /\ f[0] = <<>>
    /\ \A k \in 1..Len(s) : f[k] = IF k \in P THEN Append(f[k - 1], s[k]) ELSE f[k - 1]

\* Chosen(s, P) is the last of the sequences its recursion builds.
LEMMA ChosenRounds ==
  ASSUME NEW T, NEW s \in Seq(T), NEW P
  PROVE  \E f : Choice(s, P, T, f) /\ Chosen(s, P) = f[Len(s)]
<1> DEFINE n == Len(s)
           Round(v, k) == IF k \in P THEN Append(v, s[k]) ELSE v
           step == [vi \in Seq(T) \X (1..n) |-> Round(vi[1], vi[2])]
           Is(f) == f = [k \in 0..n |-> IF k = 0 THEN <<>>
                                        ELSE IF k \in P THEN Append(f[k - 1], s[k]) ELSE f[k - 1]]
<1>1. n \in Nat /\ <<>> \in Seq(T) /\ \A k \in 1..n : s[k] \in T
  OBVIOUS
<1>2. \A v \in Seq(T), k \in 1..n : Round(v, k) \in Seq(T)
  <2> TAKE v \in Seq(T), k \in 1..n
  <2>1. Append(v, s[k]) \in Seq(T)
    BY <1>1, Appended
  <2> QED
    BY <2>1
<1> HIDE DEF n, Round
<1>3. step \in [Seq(T) \X (1..n) -> Seq(T)]
  BY <1>2
<1>4. \E g : Recurs(g, n, Seq(T), <<>>, step)
  <2> HIDE DEF step
  <2> QED
    BY <1>1, <1>3, RecursionDefines
<1>5. PICK g \in [0..n -> Seq(T)] : \A i \in 0..n : g[i] = IF i = 0 THEN <<>> ELSE step[<<g[i - 1], i>>]
  <2> HIDE DEF step
  <2> QED
    BY <1>4 DEF Recurs
<1>6. Is(g)
  <2>1. ASSUME NEW i \in 0..n PROVE g[i] = IF i = 0 THEN <<>> ELSE Round(g[i - 1], i)
    <3>1. CASE i = 0
      BY <1>5, <3>1
    <3>2. CASE i # 0
      <4>1. i \in 1..n /\ g[i - 1] \in Seq(T)
        <5>1. i \in 1..n /\ i - 1 \in 0..n
          BY <1>1, <3>2
        <5>2. g \in [0..n -> Seq(T)]
          BY <1>5, Zenon
        <5> QED
          BY <5>1, <5>2, Zenon
      <4> QED
        BY <1>5, <3>2, <4>1
    <3> QED
      BY <3>1, <3>2
  <2> QED
    BY <2>1 DEF Round
<1> DEFINE f == CHOOSE h : Is(h)
<1>7. Is(f)
  BY <1>6
<1>8. Chosen(s, P) = f[n]
  BY DEF Chosen, n
<1> HIDE DEF f
<1>9. \A k \in 0..n : f[k] = IF k = 0 THEN <<>> ELSE Round(f[k - 1], k)
  BY <1>7, Zenon DEF Round
<1>10. f = [k \in 0..n |-> f[k]]
  BY <1>7
<1> DEFINE S == {k \in 0..n : f[k] \in Seq(T)}
<1>11. 0 \in S
  <2>1. 0 \in 0..n
    BY <1>1
  <2>2. f[0] = <<>>
    BY <1>9, <2>1, Zenon
  <2> QED
    BY <1>1, <2>1, <2>2
<1>12. ASSUME NEW k \in 1..n, k - 1 \in S PROVE k \in S
  <2>1. k \in 0..n /\ k # 0 /\ f[k - 1] \in Seq(T)
    BY <1>1, <1>12
  <2>2. f[k] = Round(f[k - 1], k)
    BY <1>9, <2>1
  <2> QED
    BY <1>2, <2>1, <2>2
<1> HIDE DEF S
<1>13. 0..n \subseteq S
  BY <1>1, <1>11, <1>12, UpTo
<1>14. f \in [0..n -> Seq(T)]
  BY <1>10, <1>13 DEF S
<1>15. Choice(s, P, T, f)
  <2>1. 0 \in 0..n /\ \A k \in 1..n : k \in 0..n /\ k # 0
    BY <1>1
  <2> QED
    BY <1>9, <1>14, <2>1 DEF Choice, n, Round
<1> QED
  BY <1>8, <1>15 DEF n

\* It is of the same type, ...
LEMMA ChosenType ==
  ASSUME NEW T, NEW s \in Seq(T), NEW P
  PROVE  Chosen(s, P) \in Seq(T)
<1>1. PICK f : Choice(s, P, T, f) /\ Chosen(s, P) = f[Len(s)]
  BY ChosenRounds
<1>2. Len(s) \in 0..Len(s)
  OBVIOUS
<1> QED
  BY <1>1, <1>2 DEF Choice

\* ... consists of elements at these positions, ...
LEMMA ChosenFrom ==
  ASSUME NEW T, NEW s \in Seq(T), NEW P
  PROVE  Chosen(s, P) \in Seq({s[i] : i \in (1..Len(s)) \cap P})
<1> DEFINE U == {s[i] : i \in (1..Len(s)) \cap P}
<1>1. PICK f : Choice(s, P, T, f) /\ Chosen(s, P) = f[Len(s)]
  BY ChosenRounds
<1>2. PICK n \in Nat : n = Len(s)
  OBVIOUS
<1>3. \A k \in 1..n : k \in P => s[k] \in U
  BY <1>2
<1> HIDE DEF U
<1> DEFINE S == {k \in 0..n : f[k] \in Seq(U)}
<1>4. 0 \in S
  <2>1. f[0] = <<>>
    BY <1>1 DEF Choice
  <2>2. f[0] \in Seq(U)
    BY <2>1, EmptySeq
  <2> QED
    BY <2>2
<1>5. ASSUME NEW k \in 1..n, k - 1 \in S PROVE k \in S
  <2>1. f[k] = IF k \in P THEN Append(f[k - 1], s[k]) ELSE f[k - 1]
    BY <1>1, <1>2 DEF Choice
  <2>2. f[k - 1] \in Seq(U)
    BY <1>5
  <2>3. CASE k \in P
    <3> DEFINE d == f[k - 1]
               a == s[k]
    <3>1. d \in Seq(U) /\ a \in U
      BY <1>3, <2>2, <2>3
    <3> HIDE DEF d, a
    <3>2. Append(d, a) \in Seq(U)
      BY <3>1, AppendProperties
    <3>3. f[k] \in Seq(U)
      BY <2>1, <2>3, <3>2, Zenon DEF d, a
    <3>4. k \in 0..n
      OBVIOUS
    <3> QED
      BY <3>3, <3>4
  <2>4. CASE k \notin P
    BY <2>1, <2>2, <2>4
  <2> QED
    BY <2>3, <2>4
<1> HIDE DEF S
<1>6. 0..n \subseteq S
  BY <1>4, <1>5, UpTo
<1>7. n \in S
  BY <1>6
<1> QED
  BY <1>1, <1>2, <1>7 DEF S, U

\* ... depends on nothing but the elements that are chosen, ...
ChosenAlike(s, P, t, Q, n) ==
    /\ n <= Len(s) /\ n <= Len(t)
    /\ \A k \in 1..n : (k \in P <=> k \in Q) /\ (k \in P => s[k] = t[k])

\* Two choices of alike elements have built the same after n rounds.
LEMMA SameChoice ==
  ASSUME NEW T, NEW s \in Seq(T), NEW P, NEW t \in Seq(T), NEW Q,
         NEW f, Choice(s, P, T, f), NEW g, Choice(t, Q, T, g),
         NEW n \in Nat, ChosenAlike(s, P, t, Q, n)
  PROVE  f[n] = g[n]
<1>0. /\ n <= Len(s) /\ n <= Len(t)
      /\ \A k \in 1..n : (k \in P <=> k \in Q) /\ (k \in P => s[k] = t[k])
  BY DEF ChosenAlike
<1> DEFINE S == {k \in 0..n : f[k] = g[k]}
<1>1. 0 \in S
  BY DEF Choice
<1>2. ASSUME NEW k \in 1..n, k - 1 \in S PROVE k \in S
  <2>1. k \in 1..Len(s) /\ k \in 1..Len(t) /\ k \in 0..n /\ f[k - 1] = g[k - 1]
    BY <1>0, <1>2
  <2>2. f[k] = IF k \in P THEN Append(f[k - 1], s[k]) ELSE f[k - 1]
    BY <2>1 DEF Choice
  <2>3. g[k] = IF k \in Q THEN Append(g[k - 1], t[k]) ELSE g[k - 1]
    BY <2>1 DEF Choice
  <2>4. (k \in P <=> k \in Q) /\ (k \in P => s[k] = t[k])
    BY <1>0
  <2>5. f[k] = g[k]
    BY <2>1, <2>2, <2>3, <2>4
  <2> QED
    BY <2>1, <2>5
<1> HIDE DEF S
<1>3. 0..n \subseteq S
  BY <1>1, <1>2, UpTo
<1>4. n \in S
  BY <1>3
<1> QED
  BY <1>4 DEF S

\* Chosen only depends on the positions chosen and on what is there.
LEMMA ChosenSame ==
  ASSUME NEW T, NEW s \in Seq(T), NEW P, NEW t \in Seq(T), NEW Q, Len(s) = Len(t),
         \A k \in 1..Len(s) : (k \in P <=> k \in Q) /\ (k \in P => s[k] = t[k])
  PROVE  Chosen(s, P) = Chosen(t, Q)
<1>1. PICK f : Choice(s, P, T, f) /\ Chosen(s, P) = f[Len(s)]
  BY ChosenRounds
<1>2. PICK g : Choice(t, Q, T, g) /\ Chosen(t, Q) = g[Len(t)]
  BY ChosenRounds
<1>3. PICK n \in Nat : n = Len(s)
  OBVIOUS
<1>4. ChosenAlike(s, P, t, Q, n)
  BY <1>3 DEF ChosenAlike
<1>5. f[n] = g[n]
  BY <1>1, <1>2, <1>4, SameChoice
<1> QED
  BY <1>1, <1>2, <1>3, <1>5

\* ... is empty when none is, ...
LEMMA ChosenNone ==
  ASSUME NEW T, NEW s \in Seq(T), NEW P, \A k \in 1..Len(s) : k \notin P
  PROVE  Chosen(s, P) = <<>>
<1>1. PICK f : Choice(s, P, T, f) /\ Chosen(s, P) = f[Len(s)]
  BY ChosenRounds
<1>2. PICK n \in Nat : n = Len(s)
  OBVIOUS
<1> DEFINE S == {k \in 0..n : f[k] = <<>>}
<1>3. 0 \in S
  BY <1>1 DEF Choice
<1>4. ASSUME NEW k \in 1..n, k - 1 \in S PROVE k \in S
  BY <1>1, <1>2, <1>4 DEF Choice
<1> HIDE DEF S
<1>5. 0..n \subseteq S
  BY <1>3, <1>4, UpTo
<1>6. n \in S
  BY <1>5
<1> QED
  BY <1>1, <1>2, <1>6 DEF S

\* ... grows by at most the last element, ...
LEMMA ChosenAppend ==
  ASSUME NEW T, NEW s \in Seq(T), NEW e \in T, NEW P
  PROVE  Chosen(Append(s, e), P) = IF Len(s) + 1 \in P THEN Append(Chosen(s, P), e) ELSE Chosen(s, P)
<1> DEFINE t == Append(s, e)
<1>1. /\ t \in Seq(T) /\ Len(s) \in Nat /\ Len(t) = Len(s) + 1
      /\ \A i \in 1..Len(s) : t[i] = s[i]
      /\ t[Len(s) + 1] = e
  BY Appended
<1> HIDE DEF t
<1>2. PICK f : Choice(s, P, T, f) /\ Chosen(s, P) = f[Len(s)]
  BY ChosenRounds
<1>3. PICK g : Choice(t, P, T, g) /\ Chosen(t, P) = g[Len(t)]
  BY <1>1, ChosenRounds
<1>4. PICK n \in Nat : n = Len(s)
  BY <1>1
<1>5. f[n] = g[n]
  <2>1. n <= Len(s) /\ n <= Len(t) /\ t \in Seq(T) /\ \A k \in 1..n : s[k] = t[k]
    BY <1>1, <1>4
  <2>2. ChosenAlike(s, P, t, P, n)
    BY <2>1 DEF ChosenAlike
  <2> QED
    BY <1>2, <1>3, <2>1, <2>2, SameChoice
<1>6. g[n + 1] = IF n + 1 \in P THEN Append(g[n], t[n + 1]) ELSE g[n]
  <2>1. n + 1 \in 1..Len(t) /\ (n + 1) - 1 = n
    BY <1>1, <1>4
  <2>2. g[n + 1] = IF n + 1 \in P THEN Append(g[(n + 1) - 1], t[n + 1]) ELSE g[(n + 1) - 1]
    BY <1>3, <2>1, Zenon DEF Choice
  <2> QED
    BY <2>1, <2>2
<1> QED
  BY <1>1, <1>2, <1>3, <1>4, <1>5, <1>6 DEF t

\* ... or by the last element if its position is added, ...
LEMMA ChosenLast ==
  ASSUME NEW T, NEW s \in Seq(T), NEW P, NEW Q, NEW n \in Nat, Len(s) = n + 1,
         n + 1 \notin P, n + 1 \in Q, \A k \in 1..n : k \in P <=> k \in Q
  PROVE  Chosen(s, Q) = Append(Chosen(s, P), s[n + 1])
<1>1. PICK f : Choice(s, P, T, f) /\ Chosen(s, P) = f[Len(s)]
  BY ChosenRounds
<1>2. PICK g : Choice(s, Q, T, g) /\ Chosen(s, Q) = g[Len(s)]
  BY ChosenRounds
<1>3. f[n] = g[n]
  <2>1. ChosenAlike(s, P, s, Q, n)
    BY DEF ChosenAlike
  <2> QED
    BY <1>1, <1>2, <2>1, SameChoice
<1>4. n + 1 \in 1..Len(s) /\ (n + 1) - 1 = n
  OBVIOUS
<1>5. f[n + 1] = f[n]
  <2>1. f[n + 1] = IF n + 1 \in P THEN Append(f[(n + 1) - 1], s[n + 1]) ELSE f[(n + 1) - 1]
    BY <1>1, <1>4, Zenon DEF Choice
  <2> QED
    BY <1>4, <2>1
<1>6. g[n + 1] = Append(g[n], s[n + 1])
  <2>1. g[n + 1] = IF n + 1 \in Q THEN Append(g[(n + 1) - 1], s[n + 1]) ELSE g[(n + 1) - 1]
    BY <1>2, <1>4, Zenon DEF Choice
  <2> QED
    BY <1>4, <2>1
<1> QED
  BY <1>1, <1>2, <1>3, <1>5, <1>6

\* There is nothing to choose from nothing.
LEMMA ChosenEmpty == \A P : Chosen(<<>>, P) = <<>>
<1> TAKE P
<1> DEFINE s == <<>>
<1>1. s \in Seq({}) /\ \A k \in 1..Len(s) : k \notin P
  BY EmptySeq
<1> HIDE DEF s
<1>2. Chosen(s, P) = <<>>
  BY <1>1, ChosenNone
<1> QED
  BY <1>2 DEF s

Behind(s, t, e) == s \o Append(t, e) = Append(s \o t, e)

\* An element appended to the second part is appended to the whole.
LEMMA AppendBehind ==
  ASSUME NEW T, NEW s \in Seq(T), NEW t \in Seq(T), NEW e \in T
  PROVE  Behind(s, t, e)
<1>1. Append(t, e) = t \o <<e>> /\ <<e>> \in Seq(T) /\ s \o t \in Seq(T)
  BY ConcatProperties
<1>2. Append(s \o t, e) = (s \o t) \o <<e>>
  <2> DEFINE u == s \o t
  <2>1. u \in Seq(T)
    BY <1>1
  <2> HIDE DEF u
  <2>2. Append(u, e) = u \o <<e>>
    BY <2>1
  <2> QED
    BY <2>2 DEF u
<1>3. (s \o t) \o <<e>> = s \o (t \o <<e>>)
  <2> DEFINE one == <<e>>
  <2>1. one \in Seq(T)
    BY <1>1
  <2> HIDE DEF one
  <2>2. Assoc(s, t, one)
    BY <2>1, Associative
  <2> QED
    BY <2>2, Zenon DEF Assoc, one
<1> QED
  BY <1>1, <1>2, <1>3, Zenon DEF Behind

\* ... and goes through one sequence after the other.
LEMMA ChosenConcat ==
  ASSUME NEW T, NEW s \in Seq(T), NEW t \in Seq(T), NEW P, NEW Q,
         \A k \in 1..Len(t) : k \in Q <=> Len(s) + k \in P
  PROVE  Chosen(s \o t, P) = Chosen(s, P) \o Chosen(t, Q)
<1> DEFINE u == s \o t
<1>1. u \in Seq(T) /\ Len(u) = Len(s) + Len(t) /\ Len(s) \in Nat /\ Len(t) \in Nat
  BY ConcatProperties
<1>2. \A i \in 1..Len(s) + Len(t) : u[i] = IF i <= Len(s) THEN s[i] ELSE t[i - Len(s)]
  BY ConcatProperties, Zenon
<1> HIDE DEF u
<1>3. PICK n \in Nat : n = Len(s)
  BY <1>1
<1>4. PICK m \in Nat : m = Len(t)
  BY <1>1
<1>5. PICK f : Choice(s, P, T, f) /\ Chosen(s, P) = f[Len(s)]
  BY ChosenRounds
<1>6. PICK g : Choice(t, Q, T, g) /\ Chosen(t, Q) = g[Len(t)]
  BY ChosenRounds
<1>7. PICK h : Choice(u, P, T, h) /\ Chosen(u, P) = h[Len(u)]
  BY <1>1, ChosenRounds
<1> DEFINE S == {k \in 0..m : h[n + k] = f[n] \o g[k]}
<1>8. f[n] \in Seq(T) /\ \A k \in 0..m : g[k] \in Seq(T)
  <2>1. f \in [0..n -> Seq(T)] /\ g \in [0..m -> Seq(T)]
    BY <1>3, <1>4, <1>5, <1>6, Zenon DEF Choice
  <2>2. n \in 0..n
    OBVIOUS
  <2> QED
    BY <2>1, <2>2
<1>9. 0 \in S
  <2>1. n <= Len(s) /\ n <= Len(u) /\ u \in Seq(T) /\ \A k \in 1..n : s[k] = u[k]
    BY <1>1, <1>2, <1>3
  <2>2. ChosenAlike(s, P, u, P, n)
    BY <2>1 DEF ChosenAlike
  <2>3. f[n] = h[n]
    <3>1. Choice(s, P, T, f) /\ Choice(u, P, T, h) /\ u \in Seq(T)
      BY <1>5, <1>7, <2>1
    <3> QED
      BY <2>2, <3>1, SameChoice
  <2>4. g[0] = <<>> /\ f[n] \o <<>> = f[n]
    BY <1>6, <1>8, ConcatEmptySeq DEF Choice
  <2>5. 0 \in 0..m /\ n + 0 = n
    OBVIOUS
  <2> QED
    BY <2>3, <2>4, <2>5
<1>10. ASSUME NEW k \in 1..m, k - 1 \in S PROVE k \in S
  <2>1. /\ n + k \in 1..Len(u) /\ (n + k) - 1 = n + (k - 1) /\ ~(n + k <= Len(s)) /\ (n + k) - Len(s) = k
        /\ k \in 1..Len(t) /\ k \in 0..m /\ k - 1 \in 0..m
    BY <1>1, <1>3, <1>4
  <2>2. h[n + k] = IF n + k \in P THEN Append(h[(n + k) - 1], u[n + k]) ELSE h[(n + k) - 1]
    BY <1>7, <2>1, Zenon DEF Choice
  <2>3. g[k] = IF k \in Q THEN Append(g[k - 1], t[k]) ELSE g[k - 1]
    BY <1>6, <2>1, Zenon DEF Choice
  <2>4. u[n + k] = t[k] /\ t[k] \in T
    <3>1. n + k \in 1..Len(s) + Len(t)
      BY <1>1, <2>1
    <3>2. u[n + k] = IF n + k <= Len(s) THEN s[n + k] ELSE t[(n + k) - Len(s)]
      BY <1>2, <3>1, Zenon
    <3>3. u[n + k] = t[k]
      BY <2>1, <3>2, Zenon
    <3>4. t[k] \in T
      BY <2>1, Elements
    <3> QED
      BY <3>3, <3>4
  <2>5. k \in Q <=> n + k \in P
    BY <1>3, <2>1
  <2>6. h[(n + k) - 1] = f[n] \o g[k - 1]
    BY <1>10, <2>1
  <2>7. f[n] \o Append(g[k - 1], t[k]) = Append(f[n] \o g[k - 1], t[k])
    <3>1. f[n] \in Seq(T) /\ g[k - 1] \in Seq(T) /\ t[k] \in T
      BY <1>8, <2>1, <2>4
    <3> DEFINE a == f[n]
               b == g[k - 1]
               e == t[k]
    <3>2. a \in Seq(T) /\ b \in Seq(T) /\ e \in T
      BY <3>1
    <3> HIDE DEF a, b, e
    <3>3. Behind(a, b, e)
      BY <3>2, AppendBehind
    <3> QED
      BY <3>3, Zenon DEF Behind, a, b, e
  <2>8. h[n + k] = f[n] \o g[k]
    <3>1. CASE k \in Q
      <4>1. h[n + k] = Append(f[n] \o g[k - 1], t[k])
        BY <2>2, <2>4, <2>5, <2>6, <3>1, Zenon
      <4>2. g[k] = Append(g[k - 1], t[k])
        BY <2>3, <3>1, Zenon
      <4> QED
        BY <2>7, <4>1, <4>2, Zenon
    <3>2. CASE k \notin Q
      BY <2>2, <2>3, <2>5, <2>6, <3>2, Zenon
    <3> QED
      BY <3>1, <3>2
  <2> QED
    BY <2>1, <2>8
<1> HIDE DEF S
<1>11. 0..m \subseteq S
  BY <1>9, <1>10, UpTo
<1>12. m \in S
  BY <1>11
<1>13. h[n + m] = f[n] \o g[m]
  BY <1>12 DEF S
<1>14. Chosen(u, P) = h[n + m]
  BY <1>1, <1>3, <1>4, <1>7
<1> QED
  BY <1>3, <1>4, <1>5, <1>6, <1>13, <1>14 DEF u

\* ... and is the beginning if that is what is chosen.
LEMMA ChosenPrefix ==
  ASSUME NEW T, NEW s \in Seq(T), NEW P, NEW m \in Nat, m <= Len(s),
         \A k \in 1..Len(s) : k \in P <=> k <= m
  PROVE  /\ Len(Chosen(s, P)) = m
         /\ \A i \in 1..m : Chosen(s, P)[i] = s[i]
<1>1. PICK f : Choice(s, P, T, f) /\ Chosen(s, P) = f[Len(s)]
  BY ChosenRounds
<1>2. PICK n \in Nat : n = Len(s)
  OBVIOUS
<1>3. \A k \in 0..n : f[k] \in Seq(T)
  BY <1>1, <1>2 DEF Choice
<1> DEFINE Built(k) == IF k <= m THEN Len(f[k]) = k /\ \A i \in 1..k : f[k][i] = s[i]
                                 ELSE f[k] = f[m]
           S == {k \in 0..n : Built(k)}
<1>4. 0 \in S
  BY <1>1 DEF Choice
<1>5. ASSUME NEW k \in 1..n, k - 1 \in S PROVE k \in S
  <2>1. f[k] = IF k \in P THEN Append(f[k - 1], s[k]) ELSE f[k - 1]
    BY <1>1, <1>2 DEF Choice
  <2>2. k \in 0..n /\ k - 1 \in 0..n /\ (k \in P <=> k <= m) /\ s[k] \in T
    BY <1>2
  <2>3. CASE k <= m
    <3>1. f[k] = Append(f[k - 1], s[k]) /\ f[k - 1] \in Seq(T)
      BY <1>3, <2>1, <2>2, <2>3
    <3>2. Len(f[k - 1]) = k - 1 /\ \A i \in 1..k - 1 : f[k - 1][i] = s[i]
      BY <1>5, <2>3
    <3>3. Len(f[k]) = k /\ \A i \in 1..k : f[k][i] = s[i]
      <4> DEFINE d == f[k - 1]
      <4>1. d \in Seq(T) /\ Len(d) = k - 1 /\ \A i \in 1..k - 1 : d[i] = s[i]
        BY <3>1, <3>2
      <4> HIDE DEF d
      <4>2. /\ Len(Append(d, s[k])) = Len(d) + 1 /\ Append(d, s[k])[Len(d) + 1] = s[k]
            /\ \A i \in 1..Len(d) : Append(d, s[k])[i] = d[i]
        BY <2>2, <4>1, Appended
      <4>3. Len(Append(d, s[k])) = k /\ \A i \in 1..k : Append(d, s[k])[i] = s[i]
        BY <4>1, <4>2
      <4> QED
        BY <3>1, <4>3 DEF d
    <3> QED
      BY <2>2, <2>3, <3>3
  <2>4. CASE ~(k <= m)
    <3>1. f[k] = f[k - 1]
      BY <2>1, <2>2, <2>4
    <3>2. f[k - 1] = f[m]
      <4>1. CASE k - 1 <= m
        <5>1. k - 1 = m
          BY <2>4, <4>1
        <5> QED
          BY <5>1
      <4>2. CASE ~(k - 1 <= m)
        BY <1>5, <4>2
      <4> QED
        BY <4>1, <4>2
    <3> QED
      BY <2>2, <2>4, <3>1, <3>2
  <2> QED
    BY <2>3, <2>4
<1> HIDE DEF S
<1>6. n \in S /\ m \in S
  <2>1. 0..n \subseteq S
    BY <1>4, <1>5, UpTo
  <2>2. n \in 0..n /\ m \in 0..n
    BY <1>2
  <2> QED
    BY <2>1, <2>2
<1>7. Len(f[m]) = m /\ \A i \in 1..m : f[m][i] = s[i]
  BY <1>6 DEF S
<1>8. f[n] = f[m]
  <2>1. CASE n = m
    BY <2>1
  <2>2. CASE n # m
    BY <1>2, <1>6, <2>2 DEF S
  <2> QED
    BY <2>1, <2>2
<1> QED
  BY <1>1, <1>2, <1>7, <1>8

\* Numbers(n) counts from 1 to n.
LEMMA NumbersType ==
  ASSUME NEW n \in Nat
  PROVE  /\ Numbers(n) \in Seq(1..n) /\ Numbers(n) \in Seq(Nat) /\ Len(Numbers(n)) = n
         /\ \A i \in 1..n : Numbers(n)[i] = i
  BY DEF Numbers
=============================================================================
