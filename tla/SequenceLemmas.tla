--------------------------- MODULE SequenceLemmas ---------------------------
(***************************************************************************)
(* Lemmas about numbers and concatenations that the proofs about messages  *)
(* rest on.  The library states induction for a predicate, which no        *)
(* backend can take from it; here it is stated for a set, from the fact    *)
(* that < is well founded on Nat.                                          *)
(***************************************************************************)
EXTENDS Naturals, Sequences, SequencesExt, SequenceTheorems, WellFoundedInduction, TLAPS

Below == {p \in Nat \X Nat : p[1] < p[2]}

LEMMA LessIsWellFounded == IsWellFoundedOn(Below, Nat)
<1>1. IsWellFoundedOn(OpToRel(<, Nat), Nat)
  BY NatLessThanWellFounded
<1> QED BY <1>1 DEF OpToRel, Below

\* A set of numbers has a least one, and a bounded one a greatest.
LEMMA LeastOf ==
    ASSUME NEW T, T \subseteq Nat, T # {}
    PROVE  \E x \in T : \A y \in T : x <= y
<1>1. PICK x \in T : \A y \in T : ~ (<<y, x>> \in Below)
  BY WFMin, LessIsWellFounded, Zenon
<1>2. ASSUME NEW y \in T PROVE x <= y
  <2>1. CASE y < x
    <3>1. <<y, x>> \in Below
      BY <2>1 DEF Below
    <3> QED BY <1>1, <3>1
  <2> QED BY <2>1
<1> QED BY <1>2

LEMMA MinOf ==
    ASSUME NEW T, T \subseteq Nat, T # {}
    PROVE  Min(T) \in T /\ \A y \in T : Min(T) <= y
<1>1. \E x \in T : \A y \in T : x <= y
  BY LeastOf, Zenon
<1> QED BY <1>1 DEF Min

LEMMA MaxOf ==
    ASSUME NEW n \in Nat, NEW T, T \subseteq 1 .. n, T # {}
    PROVE  Max(T) \in T /\ \A y \in T : y <= Max(T)
<1> DEFINE Back == {k \in Nat : n - k \in T}
<1>1. PICK y \in T : TRUE
  OBVIOUS
<1>2. n - y \in Nat /\ n - (n - y) = y
  OBVIOUS
<1>3. Back \subseteq Nat /\ Back # {}
  BY <1>2
<1> HIDE DEF Back
<1>4. PICK k \in Back : \A j \in Back : k <= j
  BY <1>3, LeastOf, Zenon
<1>5. k \in Nat /\ n - k \in T
  BY <1>4 DEF Back
<1>6. ASSUME NEW z \in T PROVE n - k >= z
  <2>1. n - z \in Nat /\ n - (n - z) = z /\ z \in Nat
    OBVIOUS
  <2>2. n - z \in Back
    BY <2>1 DEF Back
  <2>3. k <= n - z
    BY <1>4, <2>2
  <2> QED BY <1>5, <2>1, <2>3
<1>7. \E x \in T : \A z \in T : x >= z
  BY <1>5, <1>6
<1>8. Max(T) \in T /\ \A z \in T : Max(T) >= z
  BY <1>7 DEF Max
<1> QED BY <1>8

\* Induction, for a set in place of a predicate.
LEMMA NatSetInduction ==
    ASSUME NEW S, 0 \in S, \A n \in Nat : n \in S => n + 1 \in S
    PROVE  Nat \subseteq S
<1>1. SUFFICES ASSUME Nat \ S # {} PROVE FALSE
  OBVIOUS
<1>2. PICK x \in Nat \ S : \A y \in Nat \ S : x <= y
  BY <1>1, LeastOf, Zenon
<1>3. x # 0 /\ x - 1 \in Nat /\ (x - 1) + 1 = x
  BY <1>2
<1>4. x - 1 \in S
  BY <1>2, <1>3
<1> QED BY <1>2, <1>3, <1>4

-----------------------------------------------------------------------------
(* FlattenSeq.                                                             *)

\* f solves the recursion of FlattenSeq up to n.
Solves(f, seqs, n) ==
    \A i \in 1 .. n : f[i] = IF i = 1 THEN seqs[i] ELSE f[i - 1] \o seqs[i]

LEMMA FlattenExtends ==
    ASSUME NEW S, NEW seqs \in Seq(Seq(S)), NEW n \in Nat, n + 1 <= Len(seqs),
           NEW f \in [1 .. n -> Seq(S)], Solves(f, seqs, n)
    PROVE  \E g \in [1 .. n + 1 -> Seq(S)] : Solves(g, seqs, n + 1)
<1> DEFINE last == IF n = 0 THEN seqs[1] ELSE f[n] \o seqs[n + 1]
<1> DEFINE g == [i \in 1 .. n + 1 |-> IF i = n + 1 THEN last ELSE f[i]]
<1>1. seqs[n + 1] \in Seq(S)
  OBVIOUS
<1>2. last \in Seq(S)
  <2>1. CASE n = 0
    BY <1>1, <2>1
  <2>2. CASE n # 0
    <3>1. f[n] \in Seq(S)
      BY <2>2
    <3> QED BY <1>1, <2>2, <3>1
  <2> QED BY <2>1, <2>2
<1>3. n = 0 => last = seqs[n + 1]
  OBVIOUS
<1>4. n # 0 => last = f[n] \o seqs[n + 1]
  OBVIOUS
<1> HIDE DEF last
<1>5. g \in [1 .. n + 1 -> Seq(S)]
  BY <1>2
<1>6. \A i \in 1 .. n : g[i] = f[i]
  OBVIOUS
<1>7. g[n + 1] = last
  OBVIOUS
<1> HIDE DEF g
<1>8. ASSUME NEW i \in 1 .. n + 1
      PROVE  g[i] = IF i = 1 THEN seqs[i] ELSE g[i - 1] \o seqs[i]
  <2>1. CASE i = n + 1 /\ n = 0
    BY <1>3, <1>7, <2>1
  <2>2. CASE i = n + 1 /\ n # 0
    <3>1. i - 1 = n /\ n \in 1 .. n /\ i # 1
      BY <2>2
    <3> QED BY <1>4, <1>6, <1>7, <2>2, <3>1
  <2>3. CASE i # n + 1
    <3>1. i \in 1 .. n /\ (i # 1 => i - 1 \in 1 .. n)
      BY <2>3
    <3> QED BY <1>6, <3>1 DEF Solves
  <2> QED BY <2>1, <2>2, <2>3
<1> QED BY <1>5, <1>8 DEF Solves

LEMMA FlattenExists ==
    ASSUME NEW S, NEW seqs \in Seq(Seq(S))
    PROVE  \E f \in [1 .. Len(seqs) -> Seq(S)] : Solves(f, seqs, Len(seqs))
<1> DEFINE Good == {n \in Nat : n <= Len(seqs) =>
        \E f \in [1 .. n -> Seq(S)] : Solves(f, seqs, n)}
<1>1. 0 \in Good
  <2> DEFINE f == [i \in 1 .. 0 |-> <<>>]
  <2>1. f \in [1 .. 0 -> Seq(S)] /\ Solves(f, seqs, 0)
    BY DEF Solves
  <2>2. \E h \in [1 .. 0 -> Seq(S)] : Solves(h, seqs, 0)
    BY <2>1
  <2> QED BY <2>2
<1>2. \A n \in Nat : n \in Good => n + 1 \in Good
  BY FlattenExtends
<1>3. Nat \subseteq Good
  <2> HIDE DEF Good
  <2> QED BY <1>1, <1>2, NatSetInduction
<1> QED BY <1>3

\* The recursion has a solution, hence the function that FlattenSeq defines is one.
LEMMA FlattenSolves ==
    ASSUME NEW S, NEW seqs \in Seq(Seq(S)), Len(seqs) # 0
    PROVE  \E f : f = [i \in 1 .. Len(seqs) |-> f[i]] /\ Solves(f, seqs, Len(seqs))
                  /\ FlattenSeq(seqs) = f[Len(seqs)]
<1> DEFINE Is(f) ==
        f = [i \in 1 .. Len(seqs) |-> IF i = 1 THEN seqs[i] ELSE f[i - 1] \o seqs[i]]
<1> DEFINE flat == CHOOSE f : Is(f)
<1>1. PICK f \in [1 .. Len(seqs) -> Seq(S)] : Solves(f, seqs, Len(seqs))
  BY FlattenExists
<1>2. Is(f)
  BY <1>1 DEF Solves
<1>3. Is(flat)
  BY <1>2, Zenon
<1>4. FlattenSeq(seqs) = flat[Len(seqs)]
  BY DEF FlattenSeq
<1> HIDE DEF flat
<1>5. Solves(flat, seqs, Len(seqs)) /\ flat = [i \in 1 .. Len(seqs) |-> flat[i]]
  BY <1>3 DEF Solves
<1> QED BY <1>4, <1>5

\* A concatenation of sequences over S is a sequence over S.
LEMMA FlattenTyped ==
    ASSUME NEW S, NEW seqs \in Seq(Seq(S))
    PROVE  FlattenSeq(seqs) \in Seq(S)
<1>1. CASE Len(seqs) = 0
  BY <1>1 DEF FlattenSeq
<1>2. CASE Len(seqs) # 0
  <2>1. PICK f : Solves(f, seqs, Len(seqs)) /\ FlattenSeq(seqs) = f[Len(seqs)]
    BY <1>2, FlattenSolves
  <2> DEFINE Good == {n \in Nat : n \in 1 .. Len(seqs) => f[n] \in Seq(S)}
  <2>2. ASSUME NEW n \in Nat, n \in Good, n + 1 \in 1 .. Len(seqs)
        PROVE  f[n + 1] \in Seq(S)
    <3>1. seqs[n + 1] \in Seq(S)
      BY <2>2
    <3>2. CASE n = 0
      BY <2>1, <2>2, <3>1, <3>2 DEF Solves
    <3>3. CASE n # 0
      <4>1. n \in 1 .. Len(seqs) /\ (n + 1) - 1 = n /\ n + 1 # 1
        BY <2>2, <3>3
      <4>2. f[n + 1] = f[n] \o seqs[n + 1] /\ f[n] \in Seq(S)
        BY <2>1, <2>2, <4>1 DEF Solves
      <4> QED BY <3>1, <4>2
    <3> QED BY <3>2, <3>3
  <2>3. 0 \in Good /\ \A n \in Nat : n \in Good => n + 1 \in Good
    BY <2>2
  <2>4. Nat \subseteq Good
    <3> HIDE DEF Good
    <3> QED BY <2>3, NatSetInduction
  <2> QED BY <1>2, <2>1, <2>4
<1> QED BY <1>1, <1>2

\* The steps of the recursion, with the empty concatenation before the first one.
LEMMA FlattenSteps ==
    ASSUME NEW S, NEW seqs \in Seq(Seq(S))
    PROVE  \E f \in [0 .. Len(seqs) -> Seq(S)] :
              /\ f[0] = <<>> /\ f[Len(seqs)] = FlattenSeq(seqs)
              /\ \A n \in 0 .. Len(seqs) - 1 : f[n + 1] = f[n] \o seqs[n + 1]
<1>1. <<>> \in Seq(S) /\ Len(seqs) \in Nat
  OBVIOUS
<1>2. CASE Len(seqs) = 0
  <2> DEFINE f == [n \in 0 .. Len(seqs) |-> <<>>]
  <2>1. FlattenSeq(seqs) = <<>>
    BY <1>2 DEF FlattenSeq
  <2>2. f \in [0 .. Len(seqs) -> Seq(S)] /\ f[0] = <<>> /\ f[Len(seqs)] = <<>>
    BY <1>1
  <2>3. \A n \in 0 .. Len(seqs) - 1 : FALSE
    BY <1>2
  <2> HIDE DEF f
  <2> QED BY <2>1, <2>2, <2>3
<1>3. CASE Len(seqs) # 0
  <2>1. PICK g : Solves(g, seqs, Len(seqs)) /\ FlattenSeq(seqs) = g[Len(seqs)]
    BY <1>3, FlattenSolves
  <2> DEFINE Good == {n \in Nat : n \in 1 .. Len(seqs) => g[n] \in Seq(S)}
  <2>2. 0 \in Good /\ \A n \in Nat : n \in Good => n + 1 \in Good
    <3>1. ASSUME NEW n \in Nat, n \in Good, n + 1 \in 1 .. Len(seqs) PROVE g[n + 1] \in Seq(S)
      <4>1. seqs[n + 1] \in Seq(S)
        BY <3>1
      <4>2. CASE n = 0
        BY <2>1, <3>1, <4>1, <4>2 DEF Solves
      <4>3. CASE n # 0
        <5>1. n \in 1 .. Len(seqs) /\ (n + 1) - 1 = n /\ n + 1 # 1
          BY <3>1, <4>3
        <5>2. g[n + 1] = g[n] \o seqs[n + 1] /\ g[n] \in Seq(S)
          BY <2>1, <3>1, <5>1 DEF Solves
        <5> QED BY <4>1, <5>2
      <4> QED BY <4>2, <4>3
    <3> QED BY <3>1
  <2>3. Nat \subseteq Good
    <3> HIDE DEF Good
    <3> QED BY <2>2, NatSetInduction
  <2> DEFINE f == [n \in 0 .. Len(seqs) |-> IF n = 0 THEN <<>> ELSE g[n]]
  <2>4. f \in [0 .. Len(seqs) -> Seq(S)] /\ f[0] = <<>> /\ f[Len(seqs)] = g[Len(seqs)]
    BY <1>1, <1>3, <2>3
  <2>5. ASSUME NEW n \in 0 .. Len(seqs) - 1 PROVE f[n + 1] = f[n] \o seqs[n + 1]
    <3>1. n + 1 \in 1 .. Len(seqs) /\ seqs[n + 1] \in Seq(S)
      BY <1>1, <2>5
    <3>2. f[n + 1] = g[n + 1]
      BY <3>1
    <3>3. CASE n = 0
      <4>1. g[n + 1] = seqs[n + 1] /\ f[n] = <<>>
        BY <2>1, <3>1, <3>3 DEF Solves
      <4>2. <<>> \o seqs[n + 1] = seqs[n + 1]
        BY <3>1, ConcatEmptySeq
      <4> QED BY <3>2, <4>1, <4>2
    <3>4. CASE n # 0
      <4>1. n \in 1 .. Len(seqs) /\ (n + 1) - 1 = n /\ n + 1 # 1
        BY <1>1, <2>5, <3>4
      <4>2. g[n + 1] = g[n] \o seqs[n + 1]
        BY <2>1, <3>1, <4>1 DEF Solves
      <4>3. f[n] = g[n]
        BY <4>1
      <4> QED BY <3>2, <4>2, <4>3
    <3> QED BY <3>3, <3>4
  <2> HIDE DEF f
  <2>6. \A n \in 0 .. Len(seqs) - 1 : f[n + 1] = f[n] \o seqs[n + 1]
    BY <2>5
  <2> QED BY <2>1, <2>4, <2>6
<1> QED BY <1>2, <1>3

\* What holds of a concatenation: G relates how many sequences are put together to the result.
LEMMA FlattenInduction ==
    ASSUME NEW S, NEW seqs \in Seq(Seq(S)), NEW G,
           <<0, <<>>>> \in G,
           \A n \in Nat : n < Len(seqs) =>
              \A s \in Seq(S) : <<n, s>> \in G => <<n + 1, s \o seqs[n + 1]>> \in G
    PROVE  <<Len(seqs), FlattenSeq(seqs)>> \in G
<1>1. PICK f \in [0 .. Len(seqs) -> Seq(S)] :
        /\ f[0] = <<>> /\ f[Len(seqs)] = FlattenSeq(seqs)
        /\ \A n \in 0 .. Len(seqs) - 1 : f[n + 1] = f[n] \o seqs[n + 1]
  BY FlattenSteps
<1> DEFINE Good == {n \in Nat : n <= Len(seqs) => <<n, f[n]>> \in G}
<1>2. 0 \in Good
  BY <1>1
<1>3. ASSUME NEW n \in Nat, n \in Good PROVE n + 1 \in Good
  <2>1. SUFFICES ASSUME n + 1 <= Len(seqs) PROVE <<n + 1, f[n + 1]>> \in G
    OBVIOUS
  <2>2. n \in 0 .. Len(seqs) - 1 /\ n \in 0 .. Len(seqs) /\ n < Len(seqs)
    BY <2>1
  <2>3. f[n] \in Seq(S) /\ f[n + 1] = f[n] \o seqs[n + 1]
    BY <1>1, <2>2
  <2>4. <<n, f[n]>> \in G
    BY <1>3, <2>2
  <2> HIDE DEF Good
  <2> QED BY <2>2, <2>3, <2>4
<1>4. Nat \subseteq Good
  <2> HIDE DEF Good
  <2> QED BY <1>2, <1>3, NatSetInduction
<1>5. Len(seqs) \in Nat
  OBVIOUS
<1> QED BY <1>1, <1>4, <1>5

-----------------------------------------------------------------------------
(* Elements put in and taken out.                                          *)

\* t is s with e put in at place i.
PutIn(s, i, e, t) ==
    /\ Len(t) = Len(s) + 1
    /\ \A j \in 1 .. Len(s) + 1 : t[j] = IF j < i THEN s[j] ELSE IF j = i THEN e ELSE s[j - 1]

LEMMA AppendPutsIn ==
    ASSUME NEW S, NEW s \in Seq(S), NEW e \in S
    PROVE  Append(s, e) \in Seq(S) /\ PutIn(s, Len(s) + 1, e, Append(s, e))
BY DEF PutIn

LEMMA InsertAtPutsIn ==
    ASSUME NEW S, NEW s \in Seq(S), NEW e \in S, NEW i \in 1 .. Len(s) + 1
    PROVE  InsertAt(s, i, e) \in Seq(S) /\ PutIn(s, i, e, InsertAt(s, i, e))
<1> DEFINE a == SubSeq(s, 1, i - 1)
<1> DEFINE b == SubSeq(s, i, Len(s))
<1>1. /\ a \in Seq(S) /\ Len(a) = i - 1 /\ \A j \in 1 .. i - 1 : a[j] = s[j]
  <2>1. \A j \in 1 .. i - 1 : s[j] \in S
    OBVIOUS
  <2>2. i - 1 \in Int /\ 1 \in Int /\ i - 1 >= 0
    OBVIOUS
  <2>3. /\ a \in Seq(S) /\ Len(a) = (IF 1 <= i - 1 THEN i - 1 - 1 + 1 ELSE 0)
        /\ \A j \in 1 .. i - 1 - 1 + 1 : a[j] = s[1 + j - 1]
    BY <2>1, <2>2, SubSeqProperties
  <2> HIDE DEF a
  <2>4. \A j \in 1 .. i - 1 : 1 + j - 1 = j
    OBVIOUS
  <2> QED BY <2>2, <2>3, <2>4
<1>2. /\ b \in Seq(S) /\ Len(b) = Len(s) + 1 - i
      /\ \A j \in 1 .. Len(s) + 1 - i : b[j] = s[i + j - 1]
  <2>1. \A j \in i .. Len(s) : s[j] \in S
    OBVIOUS
  <2>2. i \in Int /\ Len(s) \in Int
    OBVIOUS
  <2>3. /\ b \in Seq(S) /\ Len(b) = (IF i <= Len(s) THEN Len(s) - i + 1 ELSE 0)
        /\ \A j \in 1 .. Len(s) - i + 1 : b[j] = s[i + j - 1]
    BY <2>1, <2>2, SubSeqProperties
  <2> HIDE DEF b
  <2> QED BY <2>2, <2>3
<1> HIDE DEF a, b
<1>3. <<e>> \in Seq(S) /\ Len(<<e>>) = 1 /\ <<e>>[1] = e
  OBVIOUS
<1>4. /\ a \o <<e>> \in Seq(S) /\ Len(a \o <<e>>) = Len(a) + Len(<<e>>)
      /\ \A j \in 1 .. Len(a) + Len(<<e>>) :
            (a \o <<e>>)[j] = IF j <= Len(a) THEN a[j] ELSE <<e>>[j - Len(a)]
  BY <1>1, <1>3, ConcatProperties, Zenon
<1> DEFINE c == a \o <<e>>
<1>5. /\ c \in Seq(S) /\ Len(c) = i
      /\ \A j \in 1 .. i : c[j] = IF j <= i - 1 THEN a[j] ELSE e
  BY <1>1, <1>3, <1>4
<1> HIDE DEF c
<1>6. /\ c \o b \in Seq(S) /\ Len(c \o b) = Len(c) + Len(b)
      /\ \A j \in 1 .. Len(c) + Len(b) : (c \o b)[j] = IF j <= Len(c) THEN c[j] ELSE b[j - Len(c)]
  BY <1>2, <1>5, ConcatProperties, Zenon
<1>7. InsertAt(s, i, e) = c \o b
  BY DEF InsertAt, a, b, c
<1> DEFINE t == c \o b
<1>8. Len(t) = Len(s) + 1 /\ t \in Seq(S)
  BY <1>2, <1>5, <1>6
<1>9. \A j \in 1 .. Len(s) + 1 : t[j] = IF j <= i THEN c[j] ELSE b[j - i]
  BY <1>2, <1>5, <1>6
<1> HIDE DEF t
<1>10. ASSUME NEW j \in 1 .. Len(s) + 1
      PROVE  t[j] = IF j < i THEN s[j] ELSE IF j = i THEN e ELSE s[j - 1]
  <2>1. t[j] = IF j <= i THEN c[j] ELSE b[j - i]
    BY <1>9
  <2>2. CASE j <= i
    BY <1>1, <1>5, <2>1, <2>2
  <2>3. CASE j > i
    <3>1. j - i \in 1 .. Len(s) + 1 - i /\ i + (j - i) - 1 = j - 1
      BY <2>3
    <3> QED BY <1>2, <2>1, <2>3, <3>1
  <2> QED BY <2>2, <2>3
<1> QED BY <1>7, <1>8, <1>10 DEF PutIn, t

LEMMA RemoveAtTakesOut ==
    ASSUME NEW S, NEW s \in Seq(S), NEW i \in 1 .. Len(s)
    PROVE  RemoveAt(s, i) \in Seq(S) /\ PutIn(RemoveAt(s, i), i, s[i], s)
<1> DEFINE a == SubSeq(s, 1, i - 1)
<1> DEFINE b == SubSeq(s, i + 1, Len(s))
<1>1. /\ a \in Seq(S) /\ Len(a) = i - 1 /\ \A j \in 1 .. i - 1 : a[j] = s[j]
  <2>1. \A j \in 1 .. i - 1 : s[j] \in S
    OBVIOUS
  <2>2. i - 1 \in Int /\ 1 \in Int /\ i - 1 >= 0
    OBVIOUS
  <2>3. /\ a \in Seq(S) /\ Len(a) = (IF 1 <= i - 1 THEN i - 1 - 1 + 1 ELSE 0)
        /\ \A j \in 1 .. i - 1 - 1 + 1 : a[j] = s[1 + j - 1]
    BY <2>1, <2>2, SubSeqProperties
  <2> HIDE DEF a
  <2>4. \A j \in 1 .. i - 1 : 1 + j - 1 = j
    OBVIOUS
  <2> QED BY <2>2, <2>3, <2>4
<1>2. /\ b \in Seq(S) /\ Len(b) = Len(s) - i
      /\ \A j \in 1 .. Len(s) - i : b[j] = s[i + j]
  <2>1. \A j \in i + 1 .. Len(s) : s[j] \in S
    OBVIOUS
  <2>2. i + 1 \in Int /\ Len(s) \in Int
    OBVIOUS
  <2>3. /\ b \in Seq(S) /\ Len(b) = (IF i + 1 <= Len(s) THEN Len(s) - (i + 1) + 1 ELSE 0)
        /\ \A j \in 1 .. Len(s) - (i + 1) + 1 : b[j] = s[i + 1 + j - 1]
    BY <2>1, <2>2, SubSeqProperties
  <2> HIDE DEF b
  <2>4. \A j \in 1 .. Len(s) - i : i + 1 + j - 1 = i + j
    OBVIOUS
  <2> QED BY <2>2, <2>3, <2>4
<1> HIDE DEF a, b
<1>3. /\ a \o b \in Seq(S) /\ Len(a \o b) = Len(a) + Len(b)
      /\ \A j \in 1 .. Len(a) + Len(b) : (a \o b)[j] = IF j <= Len(a) THEN a[j] ELSE b[j - Len(a)]
  BY <1>1, <1>2, ConcatProperties, Zenon
<1>4. RemoveAt(s, i) = a \o b
  BY DEF RemoveAt, a, b
<1> DEFINE t == a \o b
<1>5. Len(t) + 1 = Len(s) /\ Len(t) \in Nat
  BY <1>1, <1>2, <1>3
<1>6. \A j \in 1 .. Len(t) : t[j] = IF j <= i - 1 THEN a[j] ELSE b[j - (i - 1)]
  BY <1>1, <1>2, <1>3
<1> HIDE DEF t
<1>7. ASSUME NEW j \in 1 .. Len(s)
      PROVE  s[j] = IF j < i THEN t[j] ELSE IF j = i THEN s[i] ELSE t[j - 1]
  <2>1. CASE j < i
    BY <1>1, <1>5, <1>6, <2>1
  <2>2. CASE j > i
    <3>1. j - 1 \in 1 .. Len(t) /\ ~(j - 1 <= i - 1) /\ (j - 1) - (i - 1) = j - i
          /\ j - i \in 1 .. Len(s) - i /\ i + (j - i) = j
      BY <1>5, <2>2
    <3> QED BY <1>2, <1>6, <2>2, <3>1
  <2> QED BY <2>1, <2>2
<1> QED BY <1>3, <1>4, <1>5, <1>7 DEF PutIn, t

LEMMA PutInMembers ==
    ASSUME NEW S, NEW s \in Seq(S), NEW t \in Seq(S), NEW e, NEW i \in 1 .. Len(s) + 1,
           PutIn(s, i, e, t)
    PROVE  /\ Range(t) = Range(s) \cup {e}
           /\ \A j \in 1 .. Len(s) : s[j] = t[IF j < i THEN j ELSE j + 1]
           /\ IsInjective(s) /\ e \notin Range(s) <=> IsInjective(t)
<1>1. DOMAIN s = 1 .. Len(s) /\ DOMAIN t = 1 .. Len(s) + 1 /\ Len(s) \in Nat
  BY DEF PutIn
<1>2. ASSUME NEW j \in 1 .. Len(s) PROVE s[j] = t[IF j < i THEN j ELSE j + 1]
  BY DEF PutIn
<1>3. t[i] = e
  BY DEF PutIn
<1>4. ASSUME NEW j \in 1 .. Len(s) + 1, j # i
      PROVE  \E k \in 1 .. Len(s) : t[j] = s[k] /\ k = IF j < i THEN j ELSE j - 1
  BY <1>4 DEF PutIn
<1>5. Range(t) = Range(s) \cup {e}
  <2>1. Range(s) \subseteq Range(t)
    BY <1>1, <1>2 DEF Range
  <2>2. Range(t) \subseteq Range(s) \cup {e}
    <3> SUFFICES ASSUME NEW j \in 1 .. Len(s) + 1, j # i PROVE t[j] \in Range(s)
      BY <1>1, <1>3 DEF Range
    <3> QED BY <1>1, <1>4 DEF Range
  <2> QED BY <1>1, <1>3, <2>1, <2>2 DEF Range
<1>6. ASSUME IsInjective(s), e \notin Range(s) PROVE IsInjective(t)
  <2> SUFFICES ASSUME NEW a \in 1 .. Len(s) + 1, NEW b \in 1 .. Len(s) + 1, t[a] = t[b]
               PROVE  a = b
    BY <1>1 DEF IsInjective
  <2>1. CASE a = i \/ b = i
    BY <1>1, <1>3, <1>4, <1>6, <2>1 DEF Range
  <2>2. CASE a # i /\ b # i
    <3>1. PICK k \in 1 .. Len(s) : t[a] = s[k] /\ k = IF a < i THEN a ELSE a - 1
      BY <1>4, <2>2
    <3>2. PICK l \in 1 .. Len(s) : t[b] = s[l] /\ l = IF b < i THEN b ELSE b - 1
      BY <1>4, <2>2
    <3>3. k = l
      BY <1>1, <1>6, <3>1, <3>2 DEF IsInjective
    <3> QED BY <2>2, <3>1, <3>2, <3>3
  <2> QED BY <2>1, <2>2
<1>7. ASSUME IsInjective(t) PROVE IsInjective(s) /\ e \notin Range(s)
  <2>1. ASSUME NEW a \in 1 .. Len(s), NEW b \in 1 .. Len(s), s[a] = s[b] PROVE a = b
    BY <1>1, <1>2, <1>7, <2>1 DEF IsInjective
  <2>2. ASSUME NEW a \in 1 .. Len(s), s[a] = e PROVE FALSE
    BY <1>1, <1>2, <1>3, <1>7, <2>2 DEF IsInjective
  <2> QED BY <1>1, <2>1, <2>2 DEF IsInjective, Range
<1> QED BY <1>2, <1>5, <1>6, <1>7
=============================================================================
