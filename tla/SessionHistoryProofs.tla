------------------------ MODULE SessionHistoryProofs ------------------------
(***************************************************************************)
(* Proofs about SessionHistory.  They build on one picture of the list a   *)
(* reader puts in order: `Laid', where every row but the outputs stands    *)
(* once, in the order of the sequence, each answered call followed by its  *)
(* last output.  From it come what a write, an insertion and a deletion do *)
(* to the ordered list (`Later', `Abreast') and four inductive invariants: *)
(*    Written   the rows are distinct, and a turn writes nothing twice;    *)
(*    Stands    no filler is behind the result of a tool;                  *)
(*    Pairs     what a turn relies on is answered or still on its list;    *)
(*    Told      a summary tells what it covers, now and in every list that *)
(*              a compression has read.                                    *)
(* Each theorem follows from Written and one of them.                      *)
(***************************************************************************)
EXTENDS SessionHistory, SequenceLemmas

-----------------------------------------------------------------------------
(* How a list is put in order.                                             *)

Pieces(list) == [i \in DOMAIN list |-> WithOutput(list, list[i])]

LEMMA LastOutputIs ==
    ASSUME NEW list \in Seq(Row), NEW c, Answered(list, c)
    PROVE  /\ LastOutput(list, c) \in Row /\ LastOutput(list, c) \in Range(list)
           /\ IsOutput(LastOutput(list, c)) /\ CallOf(LastOutput(list, c)) = c
           /\ \E i \in OutputsAt(list, c) : /\ list[i] = LastOutput(list, c)
                                            /\ \A j \in OutputsAt(list, c) : j <= i
<1> DEFINE at == OutputsAt(list, c)
<1>1. at \subseteq 1 .. Len(list) /\ at # {} /\ Len(list) \in Nat
  BY DEF OutputsAt, Answered
<1>2. Max(at) \in at /\ \A y \in at : y <= Max(at)
  <2> HIDE DEF at
  <2> QED BY <1>1, MaxOf
<1>3. PICK i \in at : i = Max(at) /\ \A y \in at : y <= i
  BY <1>2
<1>4. LastOutput(list, c) = list[i]
  BY <1>3 DEF LastOutput
<1>5. i \in 1 .. Len(list) /\ IsOutput(list[i]) /\ CallOf(list[i]) = c /\ list[i] \in Row
  BY <1>1, <1>3 DEF OutputsAt
<1>6. list[i] \in Range(list)
  BY <1>5 DEF Range
<1> QED BY <1>3, <1>4, <1>5, <1>6

LEMMA OneAndTwo ==
    ASSUME NEW S, NEW a \in S, NEW b \in S
    PROVE  /\ <<a>> \in Seq(S) /\ Len(<<a>>) = 1 /\ <<a>>[1] = a
           /\ <<a, b>> \in Seq(S) /\ Len(<<a, b>>) = 2 /\ <<a, b>>[1] = a /\ <<a, b>>[2] = b
OBVIOUS

\* A piece is empty, the row, or the call and its output.
LEMMA PieceIs ==
    ASSUME NEW list \in Seq(Row), NEW r \in Row
    PROVE  /\ WithOutput(list, r) \in Seq(Row)
           /\ IsOutput(r) => WithOutput(list, r) = <<>>
           /\ ~IsOutput(r) /\ ~(r.kind = "call" /\ Answered(list, r)) => WithOutput(list, r) = <<r>>
           /\ r.kind = "call" /\ Answered(list, r) => WithOutput(list, r) = <<r, LastOutput(list, r)>>
<1>1. r.kind = "call" /\ Answered(list, r) => LastOutput(list, r) \in Row
  BY LastOutputIs
<1>2. r.kind = "call" => ~IsOutput(r)
  BY DEF IsOutput
<1>3. <<>> \in Seq(Row)
  OBVIOUS
<1> QED BY <1>1, <1>2, <1>3, OneAndTwo DEF WithOutput

LEMMA PiecesTyped ==
    ASSUME NEW list \in Seq(Row)
    PROVE  Pieces(list) \in Seq(Seq(Row)) /\ Len(Pieces(list)) = Len(list)
<1>1. DOMAIN list = 1 .. Len(list) /\ Len(list) \in Nat /\ \A i \in 1 .. Len(list) : list[i] \in Row
  OBVIOUS
<1>2. \A i \in 1 .. Len(list) : WithOutput(list, list[i]) \in Seq(Row)
  BY <1>1, PieceIs
<1> QED BY <1>1, <1>2 DEF Pieces

\* s puts the first n rows of the list in order.
Laid(list, n, s) ==
    /\ \A p \in 1 .. Len(s) : ~IsOutput(s[p]) => s[p] \in Range(list)
    /\ \A p \in 1 .. Len(s) : IsOutput(s[p]) =>
          /\ p > 1 /\ s[p - 1].kind = "call" /\ s[p - 1] = CallOf(s[p])
          /\ Answered(list, s[p - 1]) /\ s[p] = LastOutput(list, s[p - 1])
    /\ \A p \in 1 .. Len(s) : s[p].kind = "call" /\ Answered(list, s[p]) =>
          p < Len(s) /\ s[p + 1] = LastOutput(list, s[p])
    /\ \A i \in 1 .. n : ~IsOutput(list[i]) => \E p \in 1 .. Len(s) : s[p] = list[i]

LEMMA ConcatIs ==
    ASSUME NEW S, NEW s \in Seq(S), NEW t \in Seq(S)
    PROVE  /\ s \o t \in Seq(S) /\ Len(s \o t) = Len(s) + Len(t) /\ Len(s) \in Nat /\ Len(t) \in Nat
           /\ \A p \in 1 .. Len(s) : (s \o t)[p] = s[p]
           /\ \A p \in 1 .. Len(t) : (s \o t)[Len(s) + p] = t[p]
<1>1. /\ s \o t \in Seq(S) /\ Len(s \o t) = Len(s) + Len(t)
      /\ \A i \in 1 .. Len(s) + Len(t) : (s \o t)[i] = IF i <= Len(s) THEN s[i] ELSE t[i - Len(s)]
  BY ConcatProperties, Zenon
<1>2. Len(s) \in Nat /\ Len(t) \in Nat
  OBVIOUS
<1>3. ASSUME NEW p \in 1 .. Len(t) PROVE (s \o t)[Len(s) + p] = t[p]
  <2>1. Len(s) + p \in 1 .. Len(s) + Len(t) /\ ~(Len(s) + p <= Len(s)) /\ Len(s) + p - Len(s) = p
    BY <1>2
  <2> QED BY <1>1, <2>1
<1> QED BY <1>1, <1>2, <1>3

LEMMA LaidOn ==
    ASSUME NEW list \in Seq(Row), NEW n \in Nat, n < Len(list), NEW s \in Seq(Row), Laid(list, n, s)
    PROVE  Laid(list, n + 1, s \o WithOutput(list, list[n + 1]))
<1> DEFINE r == list[n + 1]
<1> DEFINE t == WithOutput(list, r)
<1>1. n + 1 \in 1 .. Len(list) /\ r \in Row /\ r \in Range(list) /\ DOMAIN list = 1 .. Len(list)
  BY DEF Range
<1>2. /\ t \in Seq(Row)
      /\ IsOutput(r) => t = <<>>
      /\ ~IsOutput(r) /\ ~(r.kind = "call" /\ Answered(list, r)) => t = <<r>>
      /\ r.kind = "call" /\ Answered(list, r) => t = <<r, LastOutput(list, r)>>
  <2> HIDE DEF r
  <2> QED BY <1>1, PieceIs
<1> HIDE DEF t, r
<1> DEFINE u == s \o t
<1>3. /\ u \in Seq(Row) /\ Len(u) = Len(s) + Len(t) /\ Len(s) \in Nat /\ Len(t) \in Nat
      /\ \A p \in 1 .. Len(s) : u[p] = s[p]
      /\ \A p \in 1 .. Len(t) : u[Len(s) + p] = t[p]
  BY <1>2, ConcatIs
<1> HIDE DEF u
<1>4. ASSUME NEW i \in 1 .. n, ~IsOutput(list[i]) PROVE \E p \in 1 .. Len(u) : u[p] = list[i]
  <2>1. PICK p \in 1 .. Len(s) : s[p] = list[i]
    BY <1>4 DEF Laid
  <2> QED BY <1>3, <2>1
<1>5. CASE IsOutput(r)
  <2>1. Len(t) = 0 /\ Len(u) = Len(s)
    BY <1>2, <1>3, <1>5
  <2>2. \A i \in 1 .. n + 1 : ~IsOutput(list[i]) => i \in 1 .. n
    BY <1>5 DEF r
  <2>3. \A p \in 1 .. Len(u) : u[p] = s[p] /\ (p > 1 => u[p - 1] = s[p - 1]) /\ (p < Len(u) => u[p + 1] = s[p + 1])
    BY <1>3, <2>1
  <2>4. Laid(list, n + 1, u)
    BY <1>4, <2>1, <2>2, <2>3 DEF Laid
  <2> QED BY <2>4 DEF u, t, r
<1>6. CASE ~IsOutput(r)
  <2> DEFINE o == LastOutput(list, r)
  <2>1. \/ /\ ~(r.kind = "call" /\ Answered(list, r)) /\ Len(t) = 1 /\ t[1] = r
        \/ /\ r.kind = "call" /\ Answered(list, r) /\ o \in Row
           /\ Len(t) = 2 /\ t[1] = r /\ t[2] = o
    <3>1. CASE r.kind = "call" /\ Answered(list, r)
      <4>1. o \in Row /\ t = <<r, o>>
        BY <1>2, <3>1, LastOutputIs
      <4> HIDE DEF o
      <4> QED BY <1>1, <3>1, <4>1, OneAndTwo
    <3>2. CASE ~(r.kind = "call" /\ Answered(list, r))
      BY <1>1, <1>2, <1>6, <3>2, OneAndTwo
    <3> QED BY <3>1, <3>2
  <2>2. Len(t) = 2 => r.kind = "call" /\ Answered(list, r) /\ t[2] = LastOutput(list, r)
    BY <2>1
  <2>3. Len(t) = 1 => ~(r.kind = "call" /\ Answered(list, r))
    BY <2>1
  <2>4. u[Len(s) + 1] = r /\ (Len(t) = 2 => u[Len(s) + 2] = LastOutput(list, r))
    BY <1>3, <2>1, <2>2
  <2>5. Len(t) = 2 => IsOutput(LastOutput(list, r)) /\ CallOf(LastOutput(list, r)) = r
    BY <2>2, LastOutputIs
  <2>6. ASSUME NEW p \in 1 .. Len(u), ~IsOutput(u[p]) PROVE u[p] \in Range(list)
    <3>1. CASE p <= Len(s)
      BY <1>3, <2>6, <3>1 DEF Laid
    <3>2. CASE p > Len(s)
      <4>1. p = Len(s) + 1 \/ (p = Len(s) + 2 /\ Len(t) = 2)
        BY <1>3, <2>1, <3>2
      <4> QED BY <1>1, <2>4, <2>5, <2>6, <4>1
    <3> QED BY <1>3, <3>1, <3>2
  <2>7. ASSUME NEW p \in 1 .. Len(u), IsOutput(u[p])
        PROVE  /\ p > 1 /\ u[p - 1].kind = "call" /\ u[p - 1] = CallOf(u[p])
               /\ Answered(list, u[p - 1]) /\ u[p] = LastOutput(list, u[p - 1])
    <3>1. CASE p <= Len(s)
      <4>1. p \in 1 .. Len(s) /\ u[p] = s[p] /\ (p > 1 => u[p - 1] = s[p - 1])
        BY <1>3, <3>1
      <4> QED BY <2>7, <4>1 DEF Laid
    <3>2. CASE p > Len(s)
      <4>0. p = Len(s) + 1 \/ (p = Len(s) + 2 /\ Len(t) = 2)
        BY <1>3, <2>1, <3>2
      <4>1. p = Len(s) + 2 /\ Len(t) = 2 /\ p - 1 = Len(s) + 1
        BY <1>3, <1>6, <2>4, <2>7, <4>0
      <4> QED BY <1>3, <2>2, <2>4, <2>5, <4>1
    <3> QED BY <1>3, <3>1, <3>2
  <2>8. ASSUME NEW p \in 1 .. Len(u), u[p].kind = "call" /\ Answered(list, u[p])
        PROVE  p < Len(u) /\ u[p + 1] = LastOutput(list, u[p])
    <3>1. CASE p <= Len(s)
      <4>1. p \in 1 .. Len(s) /\ u[p] = s[p]
        BY <1>3, <3>1
      <4>2. p < Len(s) /\ s[p + 1] = LastOutput(list, s[p])
        BY <2>8, <4>1 DEF Laid
      <4> QED BY <1>3, <4>1, <4>2
    <3>2. CASE p > Len(s)
      <4>1. p = Len(s) + 1 \/ (p = Len(s) + 2 /\ Len(t) = 2)
        BY <1>3, <2>1, <3>2
      <4>2. p # Len(s) + 2
        BY <2>4, <2>5, <2>8, <4>1 DEF IsOutput
      <4>3. p = Len(s) + 1 /\ u[p] = r
        BY <2>4, <4>1, <4>2
      <4>4. Len(t) = 2
        BY <2>1, <2>3, <2>8, <4>3
      <4> QED BY <1>3, <2>4, <4>3, <4>4
    <3> QED BY <1>3, <3>1, <3>2
  <2>9. ASSUME NEW i \in 1 .. n + 1, ~IsOutput(list[i]) PROVE \E p \in 1 .. Len(u) : u[p] = list[i]
    <3>1. CASE i = n + 1
      <4>1. Len(s) + 1 \in 1 .. Len(u)
        BY <1>3, <2>1
      <4> QED BY <2>4, <3>1, <4>1 DEF r
    <3>2. CASE i # n + 1
      BY <1>4, <2>9, <3>2
    <3> QED BY <3>1, <3>2
  <2>10. Laid(list, n + 1, u)
    BY <2>6, <2>7, <2>8, <2>9 DEF Laid
  <2> QED BY <2>10 DEF u, t, r
<1> QED BY <1>5, <1>6

LEMMA ReorderedLaid ==
    ASSUME NEW list \in Seq(Row)
    PROVE  Reordered(list) \in Seq(Row) /\ Laid(list, Len(list), Reordered(list))
<1> DEFINE G == {x \in Nat \X Seq(Row) : x[1] <= Len(list) => Laid(list, x[1], x[2])}
<1>1. Pieces(list) \in Seq(Seq(Row)) /\ Len(Pieces(list)) = Len(list)
  BY PiecesTyped
<1>0. \A m \in Nat : \A e \in Seq(Row) : <<m, e>> \in G <=> (m <= Len(list) => Laid(list, m, e))
  OBVIOUS
<1> HIDE DEF G
<1>2. <<0, <<>>>> \in G
  <2>1. <<>> \in Seq(Row) /\ Len(<<>>) = 0
    OBVIOUS
  <2>2. PICK e \in Seq(Row) : e = <<>> /\ Len(e) = 0
    BY <2>1
  <2>3. Laid(list, 0, e)
    BY <2>2 DEF Laid
  <2> QED BY <1>0, <2>2, <2>3
<1>3. ASSUME NEW n \in Nat, n < Len(Pieces(list)), NEW s \in Seq(Row), <<n, s>> \in G
      PROVE  <<n + 1, s \o Pieces(list)[n + 1]>> \in G
  <2>1. n < Len(list) /\ n + 1 \in 1 .. Len(list)
    BY <1>1, <1>3
  <2>2. Laid(list, n, s)
    BY <1>0, <1>3, <2>1
  <2>3. Pieces(list)[n + 1] = WithOutput(list, list[n + 1])
    BY <2>1 DEF Pieces
  <2>4. list[n + 1] \in Row
    BY <2>1
  <2>5. WithOutput(list, list[n + 1]) \in Seq(Row)
    BY <2>4, PieceIs
  <2>6. s \o WithOutput(list, list[n + 1]) \in Seq(Row)
    BY <2>5, ConcatIs
  <2>7. Laid(list, n + 1, s \o Pieces(list)[n + 1])
    BY <2>1, <2>2, <2>3, LaidOn
  <2>8. s \o Pieces(list)[n + 1] \in Seq(Row)
    BY <2>3, <2>6
  <2>9. n + 1 \in Nat
    OBVIOUS
  <2> QED BY <1>0, <2>7, <2>8, <2>9
<1>4. <<Len(Pieces(list)), FlattenSeq(Pieces(list))>> \in G
  <2> HIDE DEF G
  <2> QED BY <1>1, <1>2, <1>3, FlattenInduction
<1>5. Reordered(list) = FlattenSeq(Pieces(list))
  BY DEF Reordered, Pieces
<1>6. Reordered(list) \in Seq(Row)
  BY <1>1, <1>5, FlattenTyped
<1> QED BY <1>0, <1>1, <1>4, <1>5, <1>6

LEMMA ReorderedSteps ==
    ASSUME NEW list \in Seq(Row)
    PROVE  \E f \in [0 .. Len(list) -> Seq(Row)] :
              /\ f[0] = <<>> /\ f[Len(list)] = Reordered(list)
              /\ \A n \in 0 .. Len(list) - 1 : f[n + 1] = f[n] \o WithOutput(list, list[n + 1])
<1>1. Pieces(list) \in Seq(Seq(Row)) /\ Len(Pieces(list)) = Len(list)
  BY PiecesTyped
<1>2. Reordered(list) = FlattenSeq(Pieces(list))
  BY DEF Reordered, Pieces
<1>3. \A n \in 0 .. Len(list) - 1 : Pieces(list)[n + 1] = WithOutput(list, list[n + 1])
  <2> SUFFICES ASSUME NEW n \in 0 .. Len(list) - 1
               PROVE  Pieces(list)[n + 1] = WithOutput(list, list[n + 1])
    OBVIOUS
  <2>1. n + 1 \in DOMAIN list
    OBVIOUS
  <2> QED BY <2>1 DEF Pieces
<1> DEFINE seqs == Pieces(list)
<1>4. seqs \in Seq(Seq(Row)) /\ Len(seqs) = Len(list) /\ FlattenSeq(seqs) = Reordered(list)
      /\ \A n \in 0 .. Len(list) - 1 : seqs[n + 1] = WithOutput(list, list[n + 1])
  BY <1>1, <1>2, <1>3
<1> HIDE DEF seqs
<1>5. PICK f \in [0 .. Len(seqs) -> Seq(Row)] :
        /\ f[0] = <<>> /\ f[Len(seqs)] = FlattenSeq(seqs)
        /\ \A n \in 0 .. Len(seqs) - 1 : f[n + 1] = f[n] \o seqs[n + 1]
  BY <1>4, FlattenSteps
<1> QED BY <1>4, <1>5

\* An output put into a list is no piece of its own: the others stay in step.
LEMMA Alignment ==
    ASSUME NEW a \in Seq(Row), NEW b \in Seq(Row), NEW k \in 1 .. Len(a) + 1, NEW r \in Row,
           IsOutput(r), PutIn(a, k, r, b), NEW Rel, <<<<>>, <<>>>> \in Rel,
           \A i \in 1 .. Len(a) : \A s \in Seq(Row) : \A t \in Seq(Row) :
              <<s, t>> \in Rel => <<s \o WithOutput(a, a[i]), t \o WithOutput(b, a[i])>> \in Rel
    PROVE  <<Reordered(a), Reordered(b)>> \in Rel
<1>1. PICK f \in [0 .. Len(a) -> Seq(Row)] :
        /\ f[0] = <<>> /\ f[Len(a)] = Reordered(a)
        /\ \A n \in 0 .. Len(a) - 1 : f[n + 1] = f[n] \o WithOutput(a, a[n + 1])
  BY ReorderedSteps
<1>3. /\ Len(b) = Len(a) + 1 /\ Len(a) \in Nat /\ DOMAIN a = 1 .. Len(a) /\ DOMAIN b = 1 .. Len(a) + 1
      /\ k \in Nat /\ 1 <= k /\ k <= Len(a) + 1
  BY DEF PutIn
<1>2. PICK g \in [0 .. Len(b) -> Seq(Row)] :
        /\ g[0] = <<>> /\ g[Len(b)] = Reordered(b)
        /\ \A n \in 0 .. Len(b) - 1 : g[n + 1] = g[n] \o WithOutput(b, b[n + 1])
  BY ReorderedSteps
<1>5. ASSUME NEW n \in 0 .. Len(a)
      PROVE  g[n + 1] = g[n] \o WithOutput(b, b[n + 1]) /\ g[n] \in Seq(Row)
  <2>1. n \in 0 .. Len(b) - 1 /\ n \in 0 .. Len(b)
    BY <1>3
  <2> QED BY <1>2, <2>1
<1>6. g[k] = g[k - 1]
  <2>1. k - 1 \in 0 .. Len(a) /\ (k - 1) + 1 = k
    BY <1>3
  <2>2. b[k] = r
    BY DEF PutIn
  <2>3. WithOutput(b, r) = <<>>
    BY DEF WithOutput
  <2>4. g[k] = g[k - 1] \o WithOutput(b, b[k]) /\ g[k - 1] \in Seq(Row)
    BY <1>5, <2>1
  <2>5. g[k] = g[k - 1] \o <<>>
    BY <2>2, <2>3, <2>4
  <2> QED BY <2>4, <2>5, ConcatEmptySeq
<1> DEFINE sh(n) == IF n < k THEN n ELSE n + 1
<1> DEFINE Good == {n \in Nat : n <= Len(a) => <<f[n], g[sh(n)]>> \in Rel}
<1>7. 0 \in Good
  <2>1. sh(0) = 0
    BY <1>3
  <2> QED BY <1>1, <1>2, <2>1
<1>8. ASSUME NEW n \in Nat, n \in Good PROVE n + 1 \in Good
  <2>1. SUFFICES ASSUME n + 1 <= Len(a) PROVE <<f[n + 1], g[sh(n + 1)]>> \in Rel
    OBVIOUS
  <2>2. n \in 0 .. Len(a) - 1 /\ n \in 0 .. Len(a) /\ n + 1 \in 1 .. Len(a) /\ n <= Len(a)
    BY <1>3, <2>1
  <2>3. <<f[n], g[sh(n)]>> \in Rel
    BY <1>8, <2>2
  <2>4. f[n] \in Seq(Row) /\ f[n + 1] = f[n] \o WithOutput(a, a[n + 1])
    BY <1>1, <2>2
  <2>5. a[n + 1] = b[sh(n + 1)]
    BY <1>3, <2>2 DEF PutIn
  <2>6. g[sh(n + 1)] = g[sh(n)] \o WithOutput(b, b[sh(n + 1)]) /\ g[sh(n)] \in Seq(Row)
    <3>1. CASE n + 1 < k
      <4>1. sh(n) = n /\ sh(n + 1) = n + 1
        BY <2>2, <3>1
      <4> HIDE DEF sh
      <4> QED BY <1>5, <2>2, <4>1
    <3>2. CASE n + 1 = k
      <4>1. sh(n) = n /\ sh(n + 1) = k + 1 /\ k \in 0 .. Len(a) /\ k - 1 = n
        BY <1>3, <2>2, <3>2
      <4>2. g[k + 1] = g[k] \o WithOutput(b, b[k + 1]) /\ g[n] \in Seq(Row)
        BY <1>5, <2>2, <4>1
      <4>3. g[k] = g[n]
        BY <1>6, <4>1
      <4> HIDE DEF sh
      <4> QED BY <4>1, <4>2, <4>3
    <3>3. CASE n + 1 > k
      <4>1. sh(n) = n + 1 /\ sh(n + 1) = (n + 1) + 1 /\ n + 1 \in 0 .. Len(a)
        BY <2>2, <3>3
      <4>2. g[(n + 1) + 1] = g[n + 1] \o WithOutput(b, b[(n + 1) + 1]) /\ g[n + 1] \in Seq(Row)
        BY <1>5, <4>1
      <4> HIDE DEF sh
      <4> QED BY <4>1, <4>2
    <3>4. n + 1 < k \/ n + 1 = k \/ n + 1 > k
      BY <1>3
    <3> HIDE DEF sh
    <3> QED BY <3>1, <3>2, <3>3, <3>4
  <2> HIDE DEF sh, Good
  <2>7. <<f[n] \o WithOutput(a, a[n + 1]), g[sh(n)] \o WithOutput(b, a[n + 1])>> \in Rel
    BY <2>2, <2>3, <2>4, <2>6
  <2> QED BY <2>4, <2>5, <2>6, <2>7
<1>9. Nat \subseteq Good
  <2> HIDE DEF Good
  <2> QED BY <1>7, <1>8, NatSetInduction
<1>10. <<f[Len(a)], g[sh(Len(a))]>> \in Rel
  BY <1>3, <1>9
<1>11. g[sh(Len(a))] = g[Len(b)]
  <2>1. CASE k = Len(a) + 1
    <3>1. sh(Len(a)) = Len(a)
      <4>1. Len(a) \in Nat
        BY <1>3
      <4>2. Len(a) < k
        BY <2>1, <4>1
      <4> QED BY <4>2
    <3>2. Len(b) = k
      BY <1>3, <2>1, Zenon
    <3>3. k - 1 = Len(a)
      <4>1. Len(a) \in Nat
        BY <1>3
      <4> QED BY <2>1, <4>1
    <3> HIDE DEF sh
    <3> QED BY <1>6, <3>1, <3>2, <3>3
  <2>2. CASE k # Len(a) + 1
    <3>1. sh(Len(a)) = Len(b)
      BY <1>3, <2>2
    <3> HIDE DEF sh
    <3> QED BY <3>1
  <2> QED BY <2>1, <2>2
<1> HIDE DEF sh
<1> QED BY <1>1, <1>2, <1>10, <1>11

LEMMA LastIs ==
    ASSUME NEW list \in Seq(Row), NEW c, NEW i \in OutputsAt(list, c),
           \A j \in OutputsAt(list, c) : j <= i
    PROVE  LastOutput(list, c) = list[i]
<1>1. Answered(list, c)
  BY DEF Answered
<1>2. PICK m \in OutputsAt(list, c) : list[m] = LastOutput(list, c) /\ \A j \in OutputsAt(list, c) : j <= m
  BY <1>1, LastOutputIs
<1>3. i \in Nat /\ m \in Nat
  BY DEF OutputsAt
<1>4. i = m
  BY <1>2, <1>3
<1> QED BY <1>2, <1>4

\* An output put into a list answers its call; what another call is answered stays.
LEMMA OutputPutIn ==
    ASSUME NEW a \in Seq(Row), NEW b \in Seq(Row), NEW k \in 1 .. Len(a) + 1, NEW r \in Row,
           IsOutput(r), PutIn(a, k, r, b), NEW c
    PROVE  /\ c = CallOf(r) \/ Answered(a, c) <=> Answered(b, c)
           /\ c # CallOf(r) /\ Answered(a, c) => LastOutput(b, c) = LastOutput(a, c)
<1> DEFINE sh(n) == IF n < k THEN n ELSE n + 1
<1>1. /\ Len(b) = Len(a) + 1 /\ Len(a) \in Nat /\ DOMAIN a = 1 .. Len(a)
      /\ DOMAIN b = 1 .. Len(a) + 1 /\ b[k] = r
  BY DEF PutIn
<1>2. \A i \in 1 .. Len(a) : sh(i) \in 1 .. Len(a) + 1 /\ a[i] = b[sh(i)] /\ sh(i) # k
  BY <1>1 DEF PutIn
<1>3. \A j \in 1 .. Len(a) + 1 : j = k \/ \E i \in 1 .. Len(a) : j = sh(i)
  <2> SUFFICES ASSUME NEW j \in 1 .. Len(a) + 1, j # k PROVE \E i \in 1 .. Len(a) : j = sh(i)
    OBVIOUS
  <2>1. CASE j < k
    <3>1. j \in 1 .. Len(a) /\ j = sh(j)
      BY <1>1, <2>1
    <3> QED BY <3>1
  <2>2. CASE j > k
    <3>1. j - 1 \in 1 .. Len(a) /\ j = sh(j - 1)
      BY <1>1, <2>2
    <3> QED BY <3>1
  <2> QED BY <1>1, <2>1, <2>2
<1>4. \A i \in OutputsAt(a, c) : sh(i) \in OutputsAt(b, c)
  BY <1>1, <1>2 DEF OutputsAt
<1>5. ASSUME NEW j \in OutputsAt(b, c), j # k PROVE \E i \in OutputsAt(a, c) : j = sh(i)
  <2>1. j \in 1 .. Len(a) + 1 /\ IsOutput(b[j]) /\ CallOf(b[j]) = c
    BY <1>1 DEF OutputsAt
  <2>2. PICK i \in 1 .. Len(a) : j = sh(i)
    BY <1>3, <1>5, <2>1
  <2>3. a[i] = b[j]
    BY <1>2, <2>2
  <2>4. i \in OutputsAt(a, c)
    BY <1>1, <2>1, <2>3 DEF OutputsAt
  <2> QED BY <2>2, <2>4
<1>6. k \in OutputsAt(b, c) <=> c = CallOf(r)
  BY <1>1 DEF OutputsAt
<1>7. c = CallOf(r) \/ Answered(a, c) <=> Answered(b, c)
  BY <1>4, <1>5, <1>6 DEF Answered
<1>8. ASSUME c # CallOf(r), Answered(a, c) PROVE LastOutput(b, c) = LastOutput(a, c)
  <2>1. PICK m \in OutputsAt(a, c) : a[m] = LastOutput(a, c) /\ \A j \in OutputsAt(a, c) : j <= m
    BY <1>8, LastOutputIs
  <2>2. m \in 1 .. Len(a) /\ sh(m) \in OutputsAt(b, c)
    BY <1>1, <1>4 DEF OutputsAt
  <2>3. ASSUME NEW j \in OutputsAt(b, c) PROVE j <= sh(m)
    <3>0. j # k
      BY <1>6, <1>8, <2>3
    <3>1. PICK i \in OutputsAt(a, c) : j = sh(i)
      BY <1>5, <3>0
    <3>2. i <= m /\ i \in 1 .. Len(a)
      BY <1>1, <2>1 DEF OutputsAt
    <3> QED BY <2>2, <3>1, <3>2
  <2> HIDE DEF sh
  <2>4. LastOutput(b, c) = b[sh(m)]
    BY <2>2, <2>3, LastIs
  <2> QED BY <1>2, <2>1, <2>2, <2>4
<1> QED BY <1>7, <1>8

-----------------------------------------------------------------------------
(* How an ordered list grows.                                              *)

\* t came of s: what is no output stands in t where it stood in s, or behind; what is new
\* stands behind all of s.
Later(s, t) ==
    /\ Len(s) <= Len(t)
    /\ \A p \in 1 .. Len(s) : ~IsOutput(t[p]) => \E o \in 1 .. p : s[o] = t[p]

LEMMA LaterSelf ==
    ASSUME NEW s \in Seq(Row)
    PROVE  Later(s, s)
BY DEF Later

LEMMA LaterOn ==
    ASSUME NEW s \in Seq(Row), NEW t \in Seq(Row), NEW u \in Seq(Row), Later(s, t), Later(t, u)
    PROVE  Later(s, u)
<1>1. Len(s) \in Nat /\ Len(t) \in Nat /\ Len(u) \in Nat /\ Len(s) <= Len(t) /\ Len(t) <= Len(u)
  BY DEF Later
<1>2. ASSUME NEW p \in 1 .. Len(s), ~IsOutput(u[p]) PROVE \E o \in 1 .. p : s[o] = u[p]
  <2>1. p \in 1 .. Len(t)
    BY <1>1
  <2>2. PICK o \in 1 .. p : t[o] = u[p]
    BY <1>2, <2>1 DEF Later
  <2>3. o \in 1 .. Len(s)
    BY <1>1, <2>2
  <2>4. PICK q \in 1 .. o : s[q] = t[o]
    BY <1>2, <2>2, <2>3 DEF Later
  <2>5. q \in 1 .. p
    BY <1>1, <2>2, <2>4
  <2> QED BY <2>2, <2>4, <2>5
<1> QED BY <1>1, <1>2 DEF Later

\* t came of s by outputs alone.
Abreast(s, t) ==
    /\ Len(s) <= Len(t)
    /\ \A p \in 1 .. Len(t) : ~IsOutput(t[p]) => \E o \in 1 .. Len(s) : o <= p /\ s[o] = t[p]

LEMMA AbreastIsLater ==
    ASSUME NEW s \in Seq(Row), NEW t \in Seq(Row), Abreast(s, t)
    PROVE  Later(s, t)
<1>1. Len(s) \in Nat /\ Len(t) \in Nat /\ Len(s) <= Len(t)
  BY DEF Abreast
<1>2. ASSUME NEW p \in 1 .. Len(s), ~IsOutput(t[p]) PROVE \E o \in 1 .. p : s[o] = t[p]
  <2>1. p \in 1 .. Len(t)
    BY <1>1
  <2>2. PICK o \in 1 .. Len(s) : o <= p /\ s[o] = t[p]
    BY <1>2, <2>1 DEF Abreast
  <2> QED BY <2>2
<1> QED BY <1>1, <1>2 DEF Later

LEMMA BehindByTwo ==
    ASSUME NEW m \in Nat, NEW n \in Nat, NEW p \in 1 .. m + n, p > m, n <= 2
    PROVE  n >= 1 /\ (p = m + 1 \/ (p = m + 2 /\ n = 2))
OBVIOUS

LEMMA AbreastOn ==
    ASSUME NEW s \in Seq(Row), NEW t \in Seq(Row), NEW u \in Seq(Row), NEW v \in Seq(Row),
           Abreast(s, t), Len(u) <= Len(v), Len(v) <= 2, Len(v) >= 1 => Len(u) >= 1 /\ v[1] = u[1],
           Len(v) = 2 => IsOutput(v[2])
    PROVE  Abreast(s \o u, t \o v)
<1> DEFINE su == s \o u
<1> DEFINE tv == t \o v
<1>1. /\ Len(su) = Len(s) + Len(u) /\ Len(s) \in Nat /\ Len(u) \in Nat
      /\ \A p \in 1 .. Len(s) : su[p] = s[p]
      /\ \A p \in 1 .. Len(u) : su[Len(s) + p] = u[p]
  BY ConcatIs
<1>2. /\ Len(tv) = Len(t) + Len(v) /\ Len(t) \in Nat /\ Len(v) \in Nat
      /\ \A p \in 1 .. Len(t) : tv[p] = t[p]
      /\ \A p \in 1 .. Len(v) : tv[Len(t) + p] = v[p]
  BY ConcatIs
<1> HIDE DEF su, tv
<1>3. Len(s) <= Len(t)
  BY DEF Abreast
<1>4. ASSUME NEW p \in 1 .. Len(tv), ~IsOutput(tv[p])
      PROVE  \E o \in 1 .. Len(su) : o <= p /\ su[o] = tv[p]
  <2>1. CASE p <= Len(t)
    <3>1. p \in 1 .. Len(t) /\ tv[p] = t[p]
      BY <1>2, <2>1
    <3>2. PICK o \in 1 .. Len(s) : o <= p /\ s[o] = t[p]
      BY <1>4, <3>1 DEF Abreast
    <3>3. o \in 1 .. Len(su) /\ su[o] = s[o]
      BY <1>1, <3>2
    <3> QED BY <3>1, <3>2, <3>3
  <2>2. CASE p > Len(t)
    <3>1. p = Len(t) + 1 /\ Len(v) >= 1
      <4>0. Len(v) \in Nat /\ Len(t) \in Nat /\ p \in 1 .. Len(t) + Len(v) /\ Len(v) <= 2 /\ p > Len(t)
        BY <1>2, <2>2
      <4>1. Len(v) >= 1 /\ (p = Len(t) + 1 \/ (p = Len(t) + 2 /\ Len(v) = 2))
        BY <4>0, BehindByTwo
      <4>2. Len(v) = 2 => tv[Len(t) + 2] = v[2]
        BY <1>2
      <4> QED BY <1>4, <4>1, <4>2
    <3>2. tv[p] = u[1] /\ Len(u) >= 1
      BY <1>2, <3>1
    <3>3. Len(s) + 1 \in 1 .. Len(su) /\ su[Len(s) + 1] = u[1] /\ Len(s) + 1 <= p
      BY <1>1, <1>3, <3>1, <3>2
    <3> QED BY <3>2, <3>3
  <2> QED BY <1>2, <2>1, <2>2
<1>5. Abreast(su, tv)
  BY <1>1, <1>2, <1>3, <1>4 DEF Abreast
<1> QED BY <1>5 DEF su, tv

\* The piece of a row in two lists of which the second answers more.
LEMMA PiecesAbreast ==
    ASSUME NEW a \in Seq(Row), NEW b \in Seq(Row), NEW q \in Row, Answered(a, q) => Answered(b, q)
    PROVE  LET u == WithOutput(a, q)
               v == WithOutput(b, q)
           IN  /\ u \in Seq(Row) /\ v \in Seq(Row)
               /\ Len(u) <= Len(v) /\ Len(v) <= 2
               /\ Len(v) >= 1 => Len(u) >= 1 /\ v[1] = u[1]
               /\ Len(v) = 2 => IsOutput(v[2])
<1> DEFINE u == WithOutput(a, q)
<1> DEFINE v == WithOutput(b, q)
<1>1. /\ u \in Seq(Row)
      /\ IsOutput(q) => u = <<>>
      /\ ~IsOutput(q) /\ ~(q.kind = "call" /\ Answered(a, q)) => u = <<q>>
      /\ q.kind = "call" /\ Answered(a, q) => u = <<q, LastOutput(a, q)>>
  BY PieceIs
<1>2. /\ v \in Seq(Row)
      /\ IsOutput(q) => v = <<>>
      /\ ~IsOutput(q) /\ ~(q.kind = "call" /\ Answered(b, q)) => v = <<q>>
      /\ q.kind = "call" /\ Answered(b, q) => v = <<q, LastOutput(b, q)>>
  BY PieceIs
<1>3. q.kind = "call" => ~IsOutput(q)
  BY DEF IsOutput
<1> HIDE DEF u, v
<1>4. CASE IsOutput(q)
  <2>1. Len(u) = 0 /\ Len(v) = 0
    BY <1>1, <1>2, <1>4
  <2> QED BY <1>1, <1>2, <2>1 DEF u, v
<1>5. CASE ~IsOutput(q)
  <2>1. (Len(u) = 1 \/ Len(u) = 2) /\ u[1] = q /\ (Len(u) = 2 => q.kind = "call" /\ Answered(a, q))
    <3>1. CASE q.kind = "call" /\ Answered(a, q)
      <4>1. PICK o \in Row : u = <<q, o>>
        BY <1>1, <3>1, LastOutputIs
      <4> QED BY <3>1, <4>1, OneAndTwo
    <3>2. CASE ~(q.kind = "call" /\ Answered(a, q))
      BY <1>1, <1>5, <3>2, OneAndTwo
    <3> QED BY <3>1, <3>2
  <2>2. /\ v[1] = q
        /\ \/ Len(v) = 2 /\ IsOutput(v[2])
           \/ Len(v) = 1 /\ ~(q.kind = "call" /\ Answered(b, q))
    <3>1. CASE q.kind = "call" /\ Answered(b, q)
      <4>1. PICK o \in Row : v = <<q, o>> /\ IsOutput(o)
        BY <1>2, <3>1, LastOutputIs
      <4> QED BY <3>1, <4>1, OneAndTwo
    <3>2. CASE ~(q.kind = "call" /\ Answered(b, q))
      BY <1>2, <1>5, <3>2, OneAndTwo
    <3> QED BY <3>1, <3>2
  <2>3. v[1] = u[1]
    BY <2>1, <2>2
  <2>4. Len(v) = 2 => IsOutput(v[2])
    BY <2>2
  <2>5. Len(u) = 2 => Len(v) = 2
    BY <1>1, <1>2, <2>1, <2>2
  <2>6. Len(u) <= Len(v) /\ Len(v) <= 2 /\ Len(u) >= 1
    <3>1. PICK m \in {1, 2} : Len(u) = m
      BY <2>1
    <3>2. PICK n \in {1, 2} : Len(v) = n
      BY <2>2
    <3>3. m = 2 => n = 2
      BY <2>5, <3>1, <3>2
    <3>4. m <= n /\ n <= 2 /\ m >= 1
      BY <3>3
    <3> QED BY <3>1, <3>2, <3>4
  <2> QED BY <1>1, <1>2, <2>3, <2>4, <2>6 DEF u, v
<1> QED BY <1>4, <1>5

LEMMA OutputGrows ==
    ASSUME NEW a \in Seq(Row), NEW b \in Seq(Row), NEW k \in 1 .. Len(a) + 1, NEW r \in Row,
           IsOutput(r), PutIn(a, k, r, b)
    PROVE  Later(Reordered(a), Reordered(b))
<1> DEFINE Rel == {x \in Seq(Row) \X Seq(Row) : Abreast(x[1], x[2])}
<1>1. \A s \in Seq(Row) : \A t \in Seq(Row) : <<s, t>> \in Rel <=> Abreast(s, t)
  OBVIOUS
<1> HIDE DEF Rel
<1>2. <<<<>>, <<>>>> \in Rel
  <2>0. <<>> \in Seq(Row) /\ Len(<<>>) = 0
    OBVIOUS
  <2>1. PICK e \in Seq(Row) : e = <<>> /\ Len(e) = 0
    BY <2>0
  <2>2. Abreast(e, e)
    BY <2>1 DEF Abreast
  <2> QED BY <1>1, <2>1, <2>2
<1>3. ASSUME NEW i \in 1 .. Len(a), NEW s \in Seq(Row), NEW t \in Seq(Row), <<s, t>> \in Rel
      PROVE  <<s \o WithOutput(a, a[i]), t \o WithOutput(b, a[i])>> \in Rel
  <2> DEFINE q == a[i]
  <2>1. q \in Row /\ (Answered(a, q) => Answered(b, q))
    <3>1. \A c : c = CallOf(r) \/ Answered(a, c) <=> Answered(b, c)
      BY OutputPutIn
    <3> QED BY <3>1
  <2> HIDE DEF q
  <2> DEFINE u == WithOutput(a, q)
  <2> DEFINE v == WithOutput(b, q)
  <2>2. /\ u \in Seq(Row) /\ v \in Seq(Row)
        /\ Len(u) <= Len(v) /\ Len(v) <= 2
        /\ Len(v) >= 1 => Len(u) >= 1 /\ v[1] = u[1]
        /\ Len(v) = 2 => IsOutput(v[2])
    BY <2>1, PiecesAbreast
  <2>3. Abreast(s, t)
    BY <1>1, <1>3
  <2> HIDE DEF u, v
  <2>4. Abreast(s \o u, t \o v) /\ s \o u \in Seq(Row) /\ t \o v \in Seq(Row)
    BY <2>2, <2>3, AbreastOn, ConcatIs
  <2> QED BY <1>1, <2>4 DEF u, v, q
<1>4. <<Reordered(a), Reordered(b)>> \in Rel
  BY <1>2, <1>3, Alignment
<1>5. Reordered(a) \in Seq(Row) /\ Reordered(b) \in Seq(Row)
  BY ReorderedLaid
<1> QED BY <1>1, <1>4, <1>5, AbreastIsLater

\* An output without a call is not in the order, whether it is stored or not.
LEMMA OrphanIsOut ==
    ASSUME NEW a \in Seq(Row), NEW b \in Seq(Row), NEW k \in 1 .. Len(a) + 1, NEW r \in Row,
           IsOutput(r), PutIn(a, k, r, b), CallOf(r) \notin Range(a)
    PROVE  Reordered(a) = Reordered(b)
<1> DEFINE Rel == {x \in Seq(Row) \X Seq(Row) : x[1] = x[2]}
<1>1. \A s \in Seq(Row) : \A t \in Seq(Row) : <<s, t>> \in Rel <=> s = t
  OBVIOUS
<1> HIDE DEF Rel
<1>2. <<<<>>, <<>>>> \in Rel
  <2>1. <<>> \in Seq(Row)
    OBVIOUS
  <2> QED BY <1>1, <2>1
<1>3. ASSUME NEW i \in 1 .. Len(a), NEW s \in Seq(Row), NEW t \in Seq(Row), <<s, t>> \in Rel
      PROVE  <<s \o WithOutput(a, a[i]), t \o WithOutput(b, a[i])>> \in Rel
  <2>1. a[i] \in Row /\ a[i] # CallOf(r)
    BY DEF Range
  <2>2. /\ a[i] = CallOf(r) \/ Answered(a, a[i]) <=> Answered(b, a[i])
        /\ a[i] # CallOf(r) /\ Answered(a, a[i]) => LastOutput(b, a[i]) = LastOutput(a, a[i])
    BY OutputPutIn
  <2>3. WithOutput(a, a[i]) = WithOutput(b, a[i])
    BY <2>1, <2>2 DEF WithOutput
  <2>4. s = t /\ WithOutput(a, a[i]) \in Seq(Row)
    BY <1>1, <1>3, <2>1, PieceIs
  <2>5. s \o WithOutput(a, a[i]) \in Seq(Row)
    BY <2>4, ConcatIs
  <2> QED BY <1>1, <2>3, <2>4, <2>5
<1>4. <<Reordered(a), Reordered(b)>> \in Rel
  BY <1>2, <1>3, Alignment
<1>5. Reordered(a) \in Seq(Row) /\ Reordered(b) \in Seq(Row)
  BY ReorderedLaid
<1> QED BY <1>1, <1>4, <1>5

\* What is appended, and is no output, comes behind all that is in order.
LEMMA RowGrows ==
    ASSUME NEW a \in Seq(Row), NEW r \in Row, ~IsOutput(r)
    PROVE  Later(Reordered(a), Reordered(Append(a, r)))
<1> DEFINE b == Append(a, r)
<1>1. /\ b \in Seq(Row) /\ Len(b) = Len(a) + 1 /\ Len(a) \in Nat
      /\ DOMAIN a = 1 .. Len(a) /\ DOMAIN b = 1 .. Len(a) + 1
      /\ b[Len(a) + 1] = r /\ \A i \in 1 .. Len(a) : b[i] = a[i]
  OBVIOUS
<1> HIDE DEF b
<1>2. ASSUME NEW c PROVE OutputsAt(b, c) = OutputsAt(a, c)
  BY <1>1 DEF OutputsAt
<1>3. \A c : /\ Answered(a, c) <=> Answered(b, c)
             /\ Answered(a, c) => LastOutput(b, c) = LastOutput(a, c)
  <2> SUFFICES ASSUME NEW c
               PROVE  /\ Answered(a, c) <=> Answered(b, c)
                      /\ Answered(a, c) => LastOutput(b, c) = LastOutput(a, c)
    OBVIOUS
  <2>1. Answered(a, c) <=> Answered(b, c)
    BY <1>2 DEF Answered
  <2>2. ASSUME Answered(a, c) PROVE LastOutput(b, c) = LastOutput(a, c)
    <3>1. PICK m \in OutputsAt(a, c) : a[m] = LastOutput(a, c) /\ \A j \in OutputsAt(a, c) : j <= m
      BY <2>2, LastOutputIs
    <3>2. m \in OutputsAt(b, c) /\ \A j \in OutputsAt(b, c) : j <= m
      BY <1>2, <3>1
    <3>3. LastOutput(b, c) = b[m]
      BY <1>1, <3>2, LastIs
    <3>4. m \in 1 .. Len(a)
      BY <1>1, <3>1 DEF OutputsAt
    <3> QED BY <1>1, <3>1, <3>3, <3>4
  <2> QED BY <2>1, <2>2
<1>4. \A q : WithOutput(a, q) = WithOutput(b, q)
  BY <1>3 DEF WithOutput
<1>5. PICK f \in [0 .. Len(a) -> Seq(Row)] :
        /\ f[0] = <<>> /\ f[Len(a)] = Reordered(a)
        /\ \A n \in 0 .. Len(a) - 1 : f[n + 1] = f[n] \o WithOutput(a, a[n + 1])
  BY ReorderedSteps
<1>6. PICK g \in [0 .. Len(b) -> Seq(Row)] :
        /\ g[0] = <<>> /\ g[Len(b)] = Reordered(b)
        /\ \A n \in 0 .. Len(b) - 1 : g[n + 1] = g[n] \o WithOutput(b, b[n + 1])
  BY <1>1, ReorderedSteps
<1> DEFINE Good == {n \in Nat : n <= Len(a) => f[n] = g[n]}
<1>7. 0 \in Good
  BY <1>5, <1>6
<1>8. ASSUME NEW n \in Nat, n \in Good PROVE n + 1 \in Good
  <2>1. SUFFICES ASSUME n + 1 <= Len(a) PROVE f[n + 1] = g[n + 1]
    OBVIOUS
  <2>2. n \in 0 .. Len(a) - 1 /\ n \in 0 .. Len(b) - 1 /\ n + 1 \in 1 .. Len(a) /\ n <= Len(a)
    BY <1>1, <2>1
  <2>3. f[n] = g[n] /\ a[n + 1] = b[n + 1]
    BY <1>1, <1>8, <2>2
  <2>4. f[n + 1] = f[n] \o WithOutput(a, a[n + 1]) /\ g[n + 1] = g[n] \o WithOutput(b, b[n + 1])
    BY <1>5, <1>6, <2>2
  <2> QED BY <1>4, <2>3, <2>4
<1>9. Nat \subseteq Good
  <2> HIDE DEF Good
  <2> QED BY <1>7, <1>8, NatSetInduction
<1>10. Reordered(b) = Reordered(a) \o WithOutput(b, r)
  <2>1. f[Len(a)] = g[Len(a)]
    BY <1>1, <1>9
  <2>2. Len(a) \in 0 .. Len(b) - 1
    BY <1>1
  <2>3. g[Len(a) + 1] = g[Len(a)] \o WithOutput(b, b[Len(a) + 1])
    BY <1>6, <2>2
  <2> QED BY <1>1, <1>5, <1>6, <2>1, <2>3
<1>11. Reordered(a) \in Seq(Row) /\ WithOutput(b, r) \in Seq(Row)
  BY <1>1, ReorderedLaid, PieceIs
<1> DEFINE s == Reordered(a)
<1> DEFINE w == WithOutput(b, r)
<1>12. /\ Len(s \o w) = Len(s) + Len(w) /\ Len(s) \in Nat /\ Len(w) \in Nat
       /\ \A p \in 1 .. Len(s) : (s \o w)[p] = s[p]
  BY <1>11, ConcatIs
<1>13. Later(s, s \o w)
  <2> HIDE DEF s, w
  <2>1. \A p \in 1 .. Len(s) : p \in 1 .. p
    BY <1>12
  <2> QED BY <1>12, <2>1 DEF Later
<1> QED BY <1>10, <1>13 DEF b

-----------------------------------------------------------------------------
(* What rows are and how they are written.                                 *)

Writers == Turns \cup {"agent"}

LEMMA RowsAre ==
    /\ \A t \in Turns : /\ User(t) \in Row /\ User(t).kind = "user" /\ User(t).turn = t
                        /\ Text(t) \in Row /\ Text(t).kind = "text" /\ Text(t).turn = t
    /\ \A t \in Turns : \A n \in Numbers :
          /\ Call(t, n) \in Row /\ Call(t, n).kind = "call"
          /\ Call(t, n).turn = t /\ Call(t, n).no = n
          /\ CallOf(Call(t, n)) = Call(t, n)
    /\ \A r \in Row : /\ r.turn \in Turns /\ r.no \in Numbers /\ CallOf(r) \in Row
                      /\ CallOf(r).kind = "call" /\ CallOf(CallOf(r)) = CallOf(r)
                      /\ CallOf(r).turn = r.turn /\ CallOf(r).no = r.no
<1>1. 0 \in Numbers
  BY DEF Numbers
<1> QED BY <1>1 DEF Row, User, Text, Call, CallOf

LEMMA OutputsAre ==
    ASSUME NEW c \in Row, NEW b \in Writers
    PROVE  /\ Output(c, b) \in Row /\ IsOutput(Output(c, b)) /\ Output(c, b).by = b
           /\ Output(c, b).turn = c.turn /\ Output(c, b).no = c.no
           /\ CallOf(Output(c, b)) = CallOf(c)
BY DEF Row, Output, IsOutput, Writers, CallOf, Call

\* An output is known by its call and its writer.
LEMMA OutputIs ==
    ASSUME NEW r \in Row, IsOutput(r)
    PROVE  r = Output(CallOf(r), r.by)
<1>1. r = [kind |-> r.kind, turn |-> r.turn, no |-> r.no, by |-> r.by]
  BY DEF Row
<1>2. r.kind = "output"
  BY DEF IsOutput
<1>3. r.turn \in Turns /\ r.no \in Numbers /\ r.by \in Turns \cup {"agent", None}
  BY DEF Row
<1> DEFINE o == Output(CallOf(r), r.by)
<1>4. /\ o \in Row /\ o.kind = "output" /\ o.turn = r.turn /\ o.no = r.no /\ o.by = r.by
  BY <1>3 DEF Row, Output, CallOf, Call
<1> HIDE DEF o
<1>5. o = [kind |-> o.kind, turn |-> o.turn, no |-> o.no, by |-> o.by]
  BY <1>4 DEF Row
<1>6. o = r
  BY <1>1, <1>2, <1>4, <1>5
<1> QED BY <1>6 DEF o

LEMMA InsertedIs ==
    ASSUME NEW list \in Seq(Row), NEW r \in Row, CallOf(r) \in Range(list),
           NEW b \in InsertedAfter(list, r)
    PROVE  /\ b \in Seq(Row)
           /\ \E k \in 1 .. Len(list) + 1 :
                 /\ PutIn(list, k, r, b)
                 /\ \E at \in 1 .. k - 1 : /\ list[at] = CallOf(r)
                                           /\ \A i \in at + 1 .. k - 1 : Inserted(list[i])
<1> DEFINE at == CHOOSE i \in DOMAIN list : list[i] = CallOf(r)
<1>1. at \in DOMAIN list /\ list[at] = CallOf(r)
  BY DEF Range
<1>2. PICK n \in at .. Len(list) :
        /\ b = InsertAt(list, n + 1, r)
        /\ \A i \in at + 1 .. n : Inserted(list[i]) /\ CallOf(list[i]) = CallOf(r)
  BY DEF InsertedAfter
<1> HIDE DEF at
<1>3. at \in 1 .. Len(list) /\ Len(list) \in Nat /\ n \in at .. Len(list)
  BY <1>1
<1>4. n + 1 \in 1 .. Len(list) + 1 /\ at \in 1 .. (n + 1) - 1
  BY <1>3
<1>5. b \in Seq(Row) /\ PutIn(list, n + 1, r, b)
  BY <1>2, <1>4, InsertAtPutsIn
<1>6. \A i \in at + 1 .. (n + 1) - 1 : Inserted(list[i])
  <2> SUFFICES ASSUME NEW i \in at + 1 .. (n + 1) - 1 PROVE Inserted(list[i])
    OBVIOUS
  <2>1. i \in at + 1 .. n
    BY <1>3
  <2> QED BY <1>2, <2>1
<1>7. \E h \in 1 .. (n + 1) - 1 : list[h] = CallOf(r) /\ \A i \in h + 1 .. (n + 1) - 1 : Inserted(list[i])
  BY <1>1, <1>4, <1>6
<1> QED BY <1>4, <1>5, <1>7

-----------------------------------------------------------------------------
(* Who may still write what.                                               *)

TurnState == [pc : {"new", "created", "repairing", "running", "stopping", "left", "over"},
              agent : {"idle", "ready", "streamed", "calling"},
              calls : Numbers, has : Summary, todo : SUBSET Row,
              blind : BOOLEAN, settled : SUBSET Turns]

RowsOK(list) ==
    /\ list \in Seq(Row) /\ IsInjective(list)
    /\ \A r \in Range(list) : r.kind = "call" => r = CallOf(r)

\* The agent of turn t, in state w, has not yet written what it is going to write.
Fresh(w, t, R) ==
    /\ w.pc \in {"new", "created", "repairing"} =>
          User(t) \notin R /\ Text(t) \notin R /\ w.agent = "idle" /\ w.calls = 0
    /\ w.agent # "idle" => w.pc \in {"running", "stopping", "left", "over"} /\ Text(t) \notin R
    /\ w.agent \in {"streamed", "calling"} =>
          w.calls >= 1 /\ Output(Call(t, w.calls), "agent") \notin R
    /\ w.agent = "streamed" => Call(t, w.calls) \notin R
    /\ w.agent = "calling" => Call(t, w.calls) \in R
    /\ w.pc # "over" \/ w.agent # "idle" => \A n \in Numbers :
          Call(t, n) \in R \/ Output(Call(t, n), "agent") \in R => n \in 1 .. w.calls

\* Nor has its consumer filled what it has yet to fill.
Filling(w, t, R) ==
    /\ w.pc \in {"new", "created"} => \A r \in R : IsOutput(r) => r.by # t
    /\ w.pc \in {"repairing", "running"} => \A r \in R : IsOutput(r) /\ r.by = t => r.turn # t
    /\ \A c \in w.todo : c = CallOf(c) /\ Output(c, t) \notin R
    /\ w.pc = "repairing" => \A c \in w.todo : c.turn # t /\ c \in R
    /\ w.pc = "stopping" => \A c \in w.todo : c.turn = t
    /\ w.pc \notin {"stopping", "over"} => ~w.blind

TurnOK(w, t, R) == w \in TurnState /\ Fresh(w, t, R) /\ Filling(w, t, R)

\* The summary, the compressions and what a reader wants to delete.
RestOK ==
    /\ summary \in Summary \cup {None}
    /\ compress \in [Compressors -> [pc : {"idle", "read", "asking", "done"}, list : Seq(Row),
                                     to : Summary]]
    /\ doomed \subseteq Row /\ \A r \in doomed : IsOutput(r)
    /\ faults \in 0 .. MaxFaults
    /\ swept \subseteq Row

Written ==
    /\ RowsOK(rows)
    /\ turn \in [Turns -> TurnState]
    /\ \A t \in Turns : TurnOK(turn[t], t, Range(rows))
    /\ RestOK

LEMMA WrittenIsTyped == Written => TypeOK
BY DEF Written, TypeOK, RowsOK, RestOK, TurnState

LEMMA RowsPut ==
    ASSUME NEW a, RowsOK(a), NEW r \in Row, r \notin Range(a), r.kind = "call" => r = CallOf(r),
           NEW b \in Seq(Row), NEW k \in 1 .. Len(a) + 1, PutIn(a, k, r, b)
    PROVE  RowsOK(b) /\ Range(b) = Range(a) \cup {r}
<1>1. a \in Seq(Row) /\ IsInjective(a)
  BY DEF RowsOK
<1>2. /\ Range(b) = Range(a) \cup {r}
      /\ IsInjective(a) /\ r \notin Range(a) <=> IsInjective(b)
  BY <1>1, PutInMembers
<1> QED BY <1>1, <1>2 DEF RowsOK

\* What another writes does not disturb a turn.
LEMMA TurnPut ==
    ASSUME NEW t \in Turns, NEW w, NEW R \in SUBSET Row, TurnOK(w, t, R), NEW r \in Row,
           r.turn # t \/ (IsOutput(r) /\ r.by # "agent"),
           IsOutput(r) => r.by # t
    PROVE  TurnOK(w, t, R \cup {r})
<1>1. w \in TurnState /\ Fresh(w, t, R) /\ Filling(w, t, R) /\ w.calls \in Numbers /\ w.todo \subseteq Row
  BY DEF TurnOK, TurnState
<1>2. \A n \in Numbers : Call(t, n) # r /\ Output(Call(t, n), "agent") # r
  <2> SUFFICES ASSUME NEW n \in Numbers PROVE Call(t, n) # r /\ Output(Call(t, n), "agent") # r
    OBVIOUS
  <2>1. Call(t, n) \in Row /\ Call(t, n).kind = "call" /\ Call(t, n).turn = t
    BY RowsAre
  <2>2. Output(Call(t, n), "agent").by = "agent" /\ Output(Call(t, n), "agent").turn = t
    BY <2>1, OutputsAre DEF Writers
  <2> QED BY <2>1, <2>2 DEF IsOutput
<1>3. User(t) # r /\ Text(t) # r
  BY RowsAre DEF IsOutput
<1>4. Fresh(w, t, R \cup {r})
  BY <1>1, <1>2, <1>3 DEF Fresh
<1>5. \A c \in w.todo : Output(c, t) # r
  <2> SUFFICES ASSUME NEW c \in w.todo PROVE Output(c, t) # r
    OBVIOUS
  <2>1. IsOutput(Output(c, t)) /\ Output(c, t).by = t
    BY <1>1, OutputsAre DEF Writers
  <2> QED BY <2>1
<1>6. Filling(w, t, R \cup {r})
  BY <1>1, <1>5 DEF Filling
<1> QED BY <1>1, <1>4, <1>6 DEF TurnOK

\* Nor does the deletion of an output.
LEMMA TurnOut ==
    ASSUME NEW t \in Turns, NEW w, NEW R \in SUBSET Row, NEW S \in SUBSET R, TurnOK(w, t, R),
           \A r \in R : r \in S \/ IsOutput(r)
    PROVE  TurnOK(w, t, S)
<1>1. w \in TurnState /\ Fresh(w, t, R) /\ Filling(w, t, R) /\ w.calls \in Numbers /\ w.todo \subseteq Row
  BY DEF TurnOK, TurnState
<1>2. ~IsOutput(Call(t, w.calls))
  BY <1>1, RowsAre DEF IsOutput
<1>3. \A c \in w.todo : c = CallOf(c) /\ ~IsOutput(c)
  BY <1>1, RowsAre DEF IsOutput, Filling
<1>4. Fresh(w, t, S)
  BY <1>1, <1>2 DEF Fresh
<1>5. Filling(w, t, S)
  BY <1>1, <1>3 DEF Filling
<1> QED BY <1>1, <1>4, <1>5 DEF TurnOK

\* How a step of one turn is put together.
LEMMA TurnStep ==
    ASSUME Written, NEW t \in Turns, NEW w, turn' = [turn EXCEPT ![t] = w],
           RowsOK(rows'), TurnOK(w, t, Range(rows')), RestOK',
           \A u \in Turns \ {t} : TurnOK(turn[u], u, Range(rows'))
    PROVE  Written'
<1>1. turn \in [Turns -> TurnState] /\ w \in TurnState
  BY DEF Written, TurnOK
<1>2. turn' \in [Turns -> TurnState] /\ turn'[t] = w /\ \A u \in Turns : u # t => turn'[u] = turn[u]
  BY <1>1
<1>3. \A u \in Turns : TurnOK(turn'[u], u, Range(rows'))
  BY <1>2
<1> QED BY <1>2, <1>3 DEF Written

\* A step that writes nothing.
LEMMA QuietStep ==
    ASSUME Written, NEW t \in Turns, NEW w, turn' = [turn EXCEPT ![t] = w], rows' = rows,
           TurnOK(w, t, Range(rows)), RestOK'
    PROVE  Written'
<1>1. RowsOK(rows') /\ \A u \in Turns \ {t} : TurnOK(turn[u], u, Range(rows'))
  BY DEF Written
<1> QED BY <1>1, TurnStep

LEMMA OrphansAre ==
    ASSUME NEW list \in Seq(Row)
    PROVE  \A r \in Orphans(list) : r \in Row /\ IsOutput(r)
<1> SUFFICES ASSUME NEW q \in Range(list), IsOutput(q)
             PROVE  /\ LastOutput(list, CallOf(q)) \in Row
                    /\ IsOutput(LastOutput(list, CallOf(q)))
  BY DEF Orphans
<1>1. PICK i \in DOMAIN list : list[i] = q
  BY DEF Range
<1>2. Answered(list, CallOf(q))
  BY <1>1 DEF Answered, OutputsAt
<1> QED BY <1>2, LastOutputIs

LEMMA ReadingKeeps ==
    ASSUME Written, Reading, UNCHANGED <<summary, compress, faults, swept>>
    PROVE  RestOK'
BY OrphansAre DEF Written, RestOK, RowsOK, Reading

LEMMA RestKeeps ==
    ASSUME Written, UNCHANGED <<summary, compress, doomed, faults, swept>>
    PROVE  RestOK'
BY DEF Written, RestOK

\* What a turn writes, at whatever place, and what becomes of the turn.
LEMMA WritingStep ==
    ASSUME Written, NEW t \in Turns, NEW w, turn' = [turn EXCEPT ![t] = w],
           NEW r \in Row, r \notin Range(rows), r.kind = "call" => r = CallOf(r),
           NEW k \in 1 .. Len(rows) + 1, PutIn(rows, k, r, rows'), rows' \in Seq(Row),
           r.turn = t \/ (IsOutput(r) /\ r.by = t), IsOutput(r) => r.by \in {t, "agent"},
           TurnOK(w, t, Range(rows) \cup {r}), RestOK'
    PROVE  Written'
<1>1. RowsOK(rows)
  BY DEF Written
<1> DEFINE b == rows'
<1>2. RowsOK(b) /\ Range(b) = Range(rows) \cup {r}
  <2> HIDE DEF b
  <2>1. PutIn(rows, k, r, b) /\ b \in Seq(Row)
    BY DEF b
  <2> QED BY <1>1, <2>1, RowsPut
<1>3. ASSUME NEW u \in Turns \ {t} PROVE TurnOK(turn[u], u, Range(rows'))
  <2>1. TurnOK(turn[u], u, Range(rows)) /\ Range(rows) \in SUBSET Row
    BY <1>1 DEF Written, RowsOK, Range
  <2>2. r.turn # u \/ (IsOutput(r) /\ r.by # "agent")
    BY HistoryAssumption
  <2>3. IsOutput(r) => r.by # u
    BY HistoryAssumption
  <2> QED BY <1>2, <2>1, <2>2, <2>3, TurnPut
<1> QED BY <1>2, <1>3, TurnStep

LEMMA AppendsIn ==
    ASSUME Written, NEW r \in Row, Write(r)
    PROVE  /\ rows' \in Seq(Row) /\ Len(rows) + 1 \in 1 .. Len(rows) + 1
           /\ PutIn(rows, Len(rows) + 1, r, rows')
<1>1. rows \in Seq(Row)
  BY DEF Written, RowsOK
<1> QED BY <1>1, AppendPutsIn DEF Write

\* A turn that is over writes no more.
LEMMA EndedIs ==
    ASSUME Written, NEW t \in Turns, NEW R
    PROVE  TurnOK(Ended(t), t, R)
<1>1. turn[t] \in TurnState
  BY DEF Written
<1>2. 0 \in Numbers /\ NoSummary \in Summary
  BY DEF Numbers, NoSummary, Summary
<1>3. Idle \in TurnState
  BY <1>2 DEF Idle, TurnState
<1>4. Ended(t) \in TurnState
  BY <1>1, <1>3 DEF Ended, TurnState
<1>5. Ended(t).pc = "over" /\ Ended(t).agent = "idle" /\ Ended(t).todo = {}
  BY DEF Ended, Idle
<1> QED BY <1>4, <1>5 DEF TurnOK, Fresh, Filling

LEMMA StoredIs ==
    ASSUME Written
    PROVE  Stored \in Summary
<1>1. NoSummary \in Summary
  BY DEF NoSummary, Summary
<1> QED BY <1>1 DEF Written, RestOK, Stored

LEMMA TurnIs ==
    ASSUME Written, NEW t \in Turns
    PROVE  /\ turn[t] \in TurnState /\ turn \in [Turns -> TurnState]
           /\ Fresh(turn[t], t, Range(rows)) /\ Filling(turn[t], t, Range(rows))
           /\ Range(rows) \in SUBSET Row /\ rows \in Seq(Row)
BY DEF Written, TurnOK, RowsOK, Range

LEMMA BeginWrites == ASSUME Written, NEW t \in Turns, Begin(t) PROVE Written'
<1> DEFINE w == [turn[t] EXCEPT !.pc = "created", !.has = Stored]
<1>1. turn[t] \in TurnState /\ turn \in [Turns -> TurnState] /\ Stored \in Summary
      /\ Fresh(turn[t], t, Range(rows)) /\ Filling(turn[t], t, Range(rows))
  BY TurnIs, StoredIs
<1>2. turn' = [turn EXCEPT ![t] = w]
  BY <1>1 DEF Begin, TurnState
<1>3. /\ w.pc = "created" /\ w.agent = turn[t].agent /\ w.calls = turn[t].calls
      /\ w.todo = turn[t].todo /\ w.blind = turn[t].blind /\ turn[t].pc = "new" /\ w \in TurnState
  BY <1>1 DEF Begin, At, TurnState
<1> HIDE DEF w
<1>4. TurnOK(w, t, Range(rows))
  BY <1>1, <1>3 DEF TurnOK, Fresh, Filling
<1>5. RestOK' /\ rows' = rows
  BY RestKeeps DEF Begin
<1> QED BY <1>2, <1>4, <1>5, QuietStep

LEMMA RepairWrites == ASSUME Written, NEW t \in Turns, Repair(t) PROVE Written'
<1> DEFINE w == [turn[t] EXCEPT !.pc = "repairing", !.todo = Unpaired(Reordered(rows)),
                                !.settled = {u \in Turns : Quiet(u)}]
<1>1. /\ turn[t] \in TurnState /\ turn \in [Turns -> TurnState] /\ rows \in Seq(Row)
      /\ Fresh(turn[t], t, Range(rows)) /\ Filling(turn[t], t, Range(rows))
      /\ Range(rows) \in SUBSET Row
  BY TurnIs
<1>2. turn' = [turn EXCEPT ![t] = w]
  BY <1>1 DEF Repair, TurnState
<1>3. \A c \in Unpaired(Reordered(rows)) : c \in Range(rows) /\ c = CallOf(c) /\ c.kind = "call"
  <2> SUFFICES ASSUME NEW c \in Range(Reordered(rows)), c.kind = "call"
               PROVE  c \in Range(rows) /\ c = CallOf(c)
    BY DEF Unpaired
  <2>1. PICK p \in 1 .. Len(Reordered(rows)) : Reordered(rows)[p] = c
    BY <1>1, ReorderedLaid DEF Range
  <2>2. c \in Range(rows)
    BY <1>1, <2>1, ReorderedLaid DEF Laid, IsOutput
  <2> QED BY <2>2 DEF Written, RowsOK
<1>4. /\ w.pc = "repairing" /\ w.agent = turn[t].agent /\ w.calls = turn[t].calls
      /\ w.todo = Unpaired(Reordered(rows)) /\ w.blind = turn[t].blind
      /\ turn[t].pc = "created" /\ w \in TurnState
  BY <1>1, <1>3 DEF Repair, At, TurnState
<1> HIDE DEF w
<1>5. ASSUME NEW c \in w.todo PROVE c.turn # t /\ Output(c, t) \notin Range(rows)
  <2>1. c \in Row /\ c \in Range(rows) /\ c = Call(c.turn, c.no) /\ c.no \in Numbers
    BY <1>1, <1>3, <1>4, RowsAre DEF CallOf
  <2>2. c.turn # t
    BY <1>1, <1>4, <2>1 DEF Fresh
  <2>3. IsOutput(Output(c, t)) /\ Output(c, t).by = t
    BY <2>1, OutputsAre DEF Writers
  <2> QED BY <1>1, <1>4, <2>2, <2>3 DEF Filling
<1>6. Fresh(w, t, Range(rows))
  BY <1>1, <1>4 DEF Fresh
<1>7. Filling(w, t, Range(rows))
  BY <1>1, <1>3, <1>4, <1>5 DEF Filling
<1>8. RestOK' /\ rows' = rows
  BY ReadingKeeps DEF Repair
<1> QED BY <1>2, <1>4, <1>6, <1>7, <1>8, QuietStep DEF TurnOK

LEMMA StartWrites == ASSUME Written, NEW t \in Turns, Start(t) PROVE Written'
<1> DEFINE w == [turn[t] EXCEPT !.pc = "running", !.agent = "ready"]
<1> DEFINE r == User(t)
<1>1. /\ turn[t] \in TurnState /\ turn \in [Turns -> TurnState]
      /\ Fresh(turn[t], t, Range(rows)) /\ Filling(turn[t], t, Range(rows))
      /\ Range(rows) \in SUBSET Row
  BY TurnIs
<1>2. turn' = [turn EXCEPT ![t] = w]
  BY <1>1 DEF Start, TurnState
<1>3. /\ w.pc = "running" /\ w.agent = "ready" /\ w.calls = turn[t].calls
      /\ w.todo = {} /\ w.blind = turn[t].blind
      /\ turn[t].pc = "repairing" /\ w \in TurnState
  BY <1>1 DEF Start, At, TurnState
<1>4. r \in Row /\ r.kind = "user" /\ r.turn = t /\ ~IsOutput(r)
  BY RowsAre DEF IsOutput
<1> HIDE DEF w
<1>5. User(t) \notin Range(rows)
  BY <1>1, <1>3 DEF Fresh
<1>6. Text(t) # r /\ \A n \in Numbers : Call(t, n) # r /\ Output(Call(t, n), "agent") # r
  BY <1>4, RowsAre, OutputsAre DEF Writers
<1> HIDE DEF r
<1>7. Fresh(w, t, Range(rows) \cup {r})
  BY <1>1, <1>3, <1>6 DEF Fresh
<1>8. Filling(w, t, Range(rows) \cup {r})
  BY <1>1, <1>3, <1>4 DEF Filling
<1>9. RestOK' /\ Write(r)
  BY RestKeeps DEF Start, r
<1>10. r \notin Range(rows)
  BY <1>5 DEF r
<1>11. TurnOK(w, t, Range(rows) \cup {r})
  BY <1>3, <1>7, <1>8 DEF TurnOK
<1>12. PICK k \in 1 .. Len(rows) + 1 : PutIn(rows, k, r, rows') /\ rows' \in Seq(Row)
  BY <1>4, <1>9, AppendsIn
<1> QED BY <1>2, <1>4, <1>9, <1>10, <1>11, <1>12, WritingStep

LEMMA StreamWrites == ASSUME Written, NEW t \in Turns, Stream(t) PROVE Written'
<1> DEFINE w == [turn[t] EXCEPT !.agent = "streamed", !.calls = turn[t].calls + 1]
<1>1. /\ turn[t] \in TurnState /\ turn \in [Turns -> TurnState]
      /\ Fresh(turn[t], t, Range(rows)) /\ Filling(turn[t], t, Range(rows))
  BY TurnIs
<1>2. turn' = [turn EXCEPT ![t] = w]
  BY <1>1 DEF Stream, TurnState
<1> DEFINE n == turn[t].calls + 1
<1>3. turn[t].calls \in Nat /\ n \in Nat /\ n >= 1 /\ n \in Numbers /\ turn[t].calls < n
  <2>1. turn[t].calls \in Nat /\ turn[t].calls < Calls[t] /\ Calls[t] \in Nat
    BY <1>1, HistoryAssumption DEF TurnState, Numbers, Stream
  <2>2. n \in 1 .. Calls[t]
    BY <2>1
  <2> QED BY <2>1, <2>2 DEF Numbers
<1>4. /\ w.pc = turn[t].pc /\ w.agent = "streamed" /\ w.calls = n
      /\ w.todo = turn[t].todo /\ w.blind = turn[t].blind
      /\ turn[t].pc \in {"running", "left"} /\ turn[t].agent = "ready" /\ w \in TurnState
  BY <1>1, <1>3 DEF Stream, At, TurnState
<1> HIDE DEF w
<1>5. \A m \in Numbers : Call(t, m) \in Range(rows) \/ Output(Call(t, m), "agent") \in Range(rows)
         => m \in 1 .. turn[t].calls
  BY <1>1, <1>4 DEF Fresh
<1>6. ~(n \in 1 .. turn[t].calls) /\ \A m \in 1 .. turn[t].calls : m \in 1 .. n
  BY <1>3
<1> HIDE DEF n
<1>7. Fresh(w, t, Range(rows))
  BY <1>1, <1>3, <1>4, <1>5, <1>6 DEF Fresh
<1>8. Filling(w, t, Range(rows))
  BY <1>1, <1>4 DEF Filling
<1>9. RestOK' /\ rows' = rows
  <2>1. CASE t \in Direct
    BY <2>1, RestKeeps DEF Stream
  <2>2. CASE t \notin Direct
    BY <2>2, ReadingKeeps DEF Stream
  <2> QED BY <2>1, <2>2 DEF Stream
<1> QED BY <1>2, <1>4, <1>7, <1>8, <1>9, QuietStep DEF TurnOK

LEMMA StoreCallWrites == ASSUME Written, NEW t \in Turns, StoreCall(t) PROVE Written'
<1> DEFINE w == [turn[t] EXCEPT !.agent = "calling"]
<1> DEFINE r == Current(t)
<1>1. /\ turn[t] \in TurnState /\ turn \in [Turns -> TurnState]
      /\ Fresh(turn[t], t, Range(rows)) /\ Filling(turn[t], t, Range(rows))
      /\ Range(rows) \in SUBSET Row /\ turn[t].calls \in Numbers
  BY TurnIs DEF TurnState
<1>2. turn' = [turn EXCEPT ![t] = w]
  BY <1>1 DEF StoreCall, TurnState
<1>3. /\ w.pc = turn[t].pc /\ w.agent = "calling" /\ w.calls = turn[t].calls
      /\ w.todo = turn[t].todo /\ w.blind = turn[t].blind
      /\ turn[t].agent = "streamed" /\ w \in TurnState
  BY <1>1 DEF StoreCall, TurnState
<1>4. r \in Row /\ r.kind = "call" /\ r.turn = t /\ r.no = turn[t].calls /\ r = CallOf(r)
      /\ ~IsOutput(r) /\ r = Call(t, turn[t].calls)
  BY <1>1, RowsAre DEF IsOutput, Current
<1> HIDE DEF w, r
<1>5. r \notin Range(rows) /\ turn[t].pc \in {"running", "stopping", "left", "over"} /\ turn[t].calls >= 1
  BY <1>1, <1>3, <1>4 DEF Fresh
<1>6. Text(t) # r /\ User(t) # r
  BY <1>4, RowsAre
<1>7. ASSUME NEW n \in Numbers
      PROVE  Output(Call(t, n), "agent") # r /\ (Call(t, n) = r => n = turn[t].calls)
  BY <1>4, RowsAre, OutputsAre DEF Writers
<1>8. ASSUME NEW n \in Numbers,
             Call(t, n) \in Range(rows) \cup {r} \/ Output(Call(t, n), "agent") \in Range(rows) \cup {r}
      PROVE  n \in 1 .. turn[t].calls
  <2>1. CASE n = turn[t].calls
    <3>1. turn[t].calls \in Nat
      BY <1>1, HistoryAssumption DEF Numbers
    <3> QED BY <1>5, <2>1, <3>1
  <2>2. CASE n # turn[t].calls
    BY <1>1, <1>3, <1>5, <1>7, <1>8, <2>2 DEF Fresh
  <2> QED BY <2>1, <2>2
<1>9. Fresh(w, t, Range(rows) \cup {r})
  <2>1. Output(Call(t, w.calls), "agent") \notin Range(rows) \cup {r}
    BY <1>1, <1>3, <1>7 DEF Fresh
  <2>2. Text(t) \notin Range(rows) \cup {r}
    BY <1>1, <1>3, <1>6 DEF Fresh
  <2> QED BY <1>3, <1>4, <1>5, <1>8, <2>1, <2>2 DEF Fresh
<1>10. Filling(w, t, Range(rows) \cup {r})
  <2>1. \A c \in w.todo : Output(c, t) # r
    BY <1>1, <1>3, <1>4, OutputsAre DEF Writers, TurnState
  <2> QED BY <1>1, <1>3, <1>4, <1>5, <2>1 DEF Filling
<1>11. RestOK' /\ Write(r)
  BY RestKeeps DEF StoreCall, r
<1>12. TurnOK(w, t, Range(rows) \cup {r})
  BY <1>3, <1>9, <1>10 DEF TurnOK
<1>13. PICK k \in 1 .. Len(rows) + 1 : PutIn(rows, k, r, rows') /\ rows' \in Seq(Row)
  BY <1>4, <1>11, AppendsIn
<1> QED BY <1>2, <1>4, <1>5, <1>11, <1>12, <1>13, WritingStep

LEMMA ResultWrites == ASSUME Written, NEW t \in Turns, Result(t) PROVE Written'
<1> DEFINE w == [turn[t] EXCEPT !.agent = "ready"]
<1> DEFINE r == Output(Current(t), "agent")
<1>1. /\ turn[t] \in TurnState /\ turn \in [Turns -> TurnState] /\ rows \in Seq(Row)
      /\ Fresh(turn[t], t, Range(rows)) /\ Filling(turn[t], t, Range(rows))
      /\ Range(rows) \in SUBSET Row /\ turn[t].calls \in Numbers
  BY TurnIs DEF TurnState
<1>2. turn' = [turn EXCEPT ![t] = w]
  BY <1>1 DEF Result, TurnState
<1>3. /\ w.pc = turn[t].pc /\ w.agent = "ready" /\ w.calls = turn[t].calls
      /\ w.todo = turn[t].todo /\ w.blind = turn[t].blind
      /\ turn[t].agent = "calling" /\ w \in TurnState
  BY <1>1 DEF Result, TurnState
<1>4. Current(t) \in Row /\ Current(t).turn = t /\ Current(t).no = turn[t].calls
      /\ CallOf(Current(t)) = Current(t) /\ Current(t) = Call(t, turn[t].calls)
  BY <1>1, RowsAre DEF Current
<1>5. r \in Row /\ IsOutput(r) /\ r.by = "agent" /\ r.turn = t /\ r.no = turn[t].calls
      /\ CallOf(r) = Current(t) /\ "agent" \notin Turns
  BY <1>4, OutputsAre, HistoryAssumption DEF Writers
<1> HIDE DEF w
<1>6. r \notin Range(rows) /\ turn[t].pc \in {"running", "stopping", "left", "over"} /\ turn[t].calls >= 1
      /\ Current(t) \in Range(rows)
  BY <1>1, <1>3, <1>4 DEF Fresh
<1>7. PICK k \in 1 .. Len(rows) + 1 : PutIn(rows, k, r, rows') /\ rows' \in Seq(Row)
  <2>1. CASE t \in Direct
    <3>1. rows' \in InsertedAfter(rows, r)
      BY <2>1 DEF Result
    <3> DEFINE b == rows'
    <3>2. /\ b \in Seq(Row)
          /\ \E k \in 1 .. Len(rows) + 1 : PutIn(rows, k, r, b)
      <4> HIDE DEF b, r
      <4>1. b \in InsertedAfter(rows, r)
        BY <3>1 DEF b
      <4> QED BY <1>1, <1>5, <1>6, <4>1, InsertedIs
    <3> QED BY <3>2
  <2>2. CASE t \notin Direct
    BY <1>5, <2>2, AppendsIn DEF Result
  <2> QED BY <2>1, <2>2
<1> HIDE DEF r
<1>8. Text(t) # r /\ User(t) # r
  BY <1>5, RowsAre DEF IsOutput
<1>9. ASSUME NEW n \in Numbers
      PROVE  Call(t, n) # r /\ (Output(Call(t, n), "agent") = r => n = turn[t].calls)
  BY <1>5, RowsAre, OutputsAre DEF Writers, IsOutput
<1>10. ASSUME NEW n \in Numbers,
             Call(t, n) \in Range(rows) \cup {r} \/ Output(Call(t, n), "agent") \in Range(rows) \cup {r}
      PROVE  n \in 1 .. turn[t].calls
  <2>1. CASE n = turn[t].calls
    <3>1. turn[t].calls \in Nat
      BY <1>1, HistoryAssumption DEF Numbers
    <3> QED BY <1>6, <2>1, <3>1
  <2>2. CASE n # turn[t].calls
    BY <1>1, <1>3, <1>6, <1>9, <1>10, <2>2 DEF Fresh
  <2> QED BY <2>1, <2>2
<1>11. Fresh(w, t, Range(rows) \cup {r})
  <2>2. Text(t) \notin Range(rows) \cup {r}
    BY <1>1, <1>3, <1>8 DEF Fresh
  <2> QED BY <1>3, <1>6, <1>10, <2>2 DEF Fresh
<1>12. Filling(w, t, Range(rows) \cup {r})
  <2>1. \A c \in w.todo : Output(c, t) # r
    <3> SUFFICES ASSUME NEW c \in w.todo PROVE Output(c, t).by # r.by
      OBVIOUS
    <3>1. Output(c, t).by = t
      BY <1>1, <1>3, OutputsAre DEF Writers, TurnState
    <3> QED BY <1>5, <3>1
  <2>2. r.by # t
    BY <1>5
  <2> QED BY <1>1, <1>3, <1>6, <2>1, <2>2 DEF Filling
<1>13. RestOK'
  BY RestKeeps DEF Result
<1>14. TurnOK(w, t, Range(rows) \cup {r})
  BY <1>3, <1>11, <1>12 DEF TurnOK
<1>15. r.kind # "call"
  BY <1>5 DEF IsOutput
<1> QED BY <1>2, <1>5, <1>6, <1>7, <1>13, <1>14, <1>15, WritingStep

LEMMA AnswerWrites == ASSUME Written, NEW t \in Turns, Answer(t) PROVE Written'
<1> DEFINE w == IF turn[t].pc = "stopping" THEN [turn[t] EXCEPT !.agent = "idle"] ELSE Ended(t)
<1> DEFINE r == Text(t)
<1>1. /\ turn[t] \in TurnState /\ turn \in [Turns -> TurnState]
      /\ Fresh(turn[t], t, Range(rows)) /\ Filling(turn[t], t, Range(rows))
      /\ Range(rows) \in SUBSET Row
  BY TurnIs
<1>2. turn' = [turn EXCEPT ![t] = w]
  BY <1>1 DEF Answer
<1>3. turn[t].agent = "ready" /\ turn[t].pc \in {"running", "stopping", "left", "over"} /\ r \notin Range(rows)
  BY <1>1 DEF Answer, Fresh
<1>4. r \in Row /\ r.kind = "text" /\ r.turn = t /\ ~IsOutput(r)
  BY RowsAre DEF IsOutput
<1>5. TurnOK(w, t, Range(rows) \cup {r})
  <2>1. CASE turn[t].pc # "stopping"
    BY <2>1, EndedIs
  <2>2. CASE turn[t].pc = "stopping"
    <3>1. /\ w.pc = "stopping" /\ w.agent = "idle" /\ w.calls = turn[t].calls
          /\ w.todo = turn[t].todo /\ w.blind = turn[t].blind /\ w \in TurnState
      BY <1>1, <2>2 DEF TurnState
    <3> HIDE DEF w, r
    <3>2. \A n \in Numbers : Call(t, n) # r /\ Output(Call(t, n), "agent") # r
      BY <1>4, RowsAre, OutputsAre DEF Writers
    <3>3. Fresh(w, t, Range(rows) \cup {r})
      BY <1>1, <2>2, <3>1, <3>2 DEF Fresh
    <3>4. \A c \in w.todo : Output(c, t) # r
      BY <1>1, <1>4, <3>1, OutputsAre DEF Writers, TurnState
    <3>5. Filling(w, t, Range(rows) \cup {r})
      BY <1>1, <2>2, <3>1, <3>4 DEF Filling
    <3> QED BY <3>1, <3>3, <3>5 DEF TurnOK
  <2> QED BY <1>3, <2>1, <2>2
<1>6. RestOK'
  <2>1. CASE t \in Direct \/ turn[t].pc \in {"stopping", "over"}
    BY <2>1, RestKeeps DEF Answer
  <2>2. CASE ~(t \in Direct \/ turn[t].pc \in {"stopping", "over"})
    BY <2>2, ReadingKeeps DEF Answer
  <2> QED BY <2>1, <2>2
<1>7. Write(r)
  BY DEF Answer
<1> HIDE DEF r, w
<1>8. PICK k \in 1 .. Len(rows) + 1 : PutIn(rows, k, r, rows') /\ rows' \in Seq(Row)
  BY <1>4, <1>7, AppendsIn
<1>9. r.kind # "call"
  BY <1>4
<1> QED BY <1>2, <1>3, <1>4, <1>5, <1>6, <1>8, <1>9, WritingStep

LEMMA InterruptWrites == ASSUME Written, NEW t \in Turns, Interrupt(t) PROVE Written'
<1>1. /\ turn[t] \in TurnState /\ turn \in [Turns -> TurnState]
      /\ Fresh(turn[t], t, Range(rows)) /\ Filling(turn[t], t, Range(rows))
      /\ Range(rows) \in SUBSET Row /\ turn[t].calls \in Numbers
  BY TurnIs DEF TurnState
<1>2. PICK waiting \in SUBSET (IF turn[t].calls = 0 THEN {} ELSE {Current(t)}) :
        turn' = [turn EXCEPT ![t].pc = "stopping", ![t].todo = waiting,
                             ![t].blind = turn[t].agent = "streamed"]
  BY DEF Interrupt
<1> DEFINE blinded == turn[t].agent = "streamed"
<1> DEFINE w == [turn[t] EXCEPT !.pc = "stopping", !.todo = waiting, !.blind = blinded]
<1>3. turn' = [turn EXCEPT ![t] = w]
  BY <1>1, <1>2 DEF TurnState
<1>4. Current(t) \in Row /\ Current(t).turn = t /\ CallOf(Current(t)) = Current(t)
  BY <1>1, RowsAre DEF Current
<1>5. blinded \in BOOLEAN
  OBVIOUS
<1> HIDE DEF blinded
<1>6. /\ w.pc = "stopping" /\ w.agent = turn[t].agent /\ w.calls = turn[t].calls
      /\ w.todo = waiting /\ turn[t].pc = "running" /\ waiting \subseteq {Current(t)}
      /\ w \in TurnState
  BY <1>1, <1>4, <1>5 DEF Interrupt, TurnState
<1> HIDE DEF w
<1>7. Output(Current(t), t) \notin Range(rows)
  <2>1. LET r == Output(Current(t), t) IN IsOutput(r) /\ r.by = t /\ r.turn = t
    BY <1>4, OutputsAre DEF Writers
  <2> QED BY <1>1, <1>6, <2>1 DEF Filling
<1>8. Fresh(w, t, Range(rows))
  BY <1>1, <1>6 DEF Fresh
<1>9. Filling(w, t, Range(rows))
  BY <1>4, <1>6, <1>7 DEF Filling
<1>10. RestOK' /\ rows' = rows
  BY RestKeeps DEF Interrupt
<1> QED BY <1>3, <1>6, <1>8, <1>9, <1>10, QuietStep DEF TurnOK

\* The agent of a turn that is over keeps what it has to write.
LEMMA StopWrites == ASSUME Written, NEW t \in Turns, Stop(t) PROVE Written'
<1> DEFINE w == [Ended(t) EXCEPT !.agent = turn[t].agent, !.calls = turn[t].calls]
<1>1. /\ turn[t] \in TurnState /\ turn \in [Turns -> TurnState]
      /\ Fresh(turn[t], t, Range(rows))
  BY TurnIs
<1>2. turn' = [turn EXCEPT ![t] = w] /\ rows' = rows
  BY DEF Stop
<1>3. Ended(t) \in TurnState /\ Ended(t).pc = "over" /\ Ended(t).todo = {}
  BY EndedIs DEF TurnOK, Ended, Idle
<1>4. /\ w \in TurnState /\ w.pc = "over" /\ w.todo = {}
      /\ w.agent = turn[t].agent /\ w.calls = turn[t].calls /\ turn[t].pc = "stopping"
  BY <1>1, <1>3 DEF Stop, TurnState
<1> HIDE DEF w
<1>5. Fresh(w, t, Range(rows)) /\ Filling(w, t, Range(rows))
  BY <1>1, <1>4 DEF Fresh, Filling
<1>6. RestOK'
  BY HistoryAssumption DEF Stop, Written, RestOK
<1> QED BY <1>2, <1>4, <1>5, <1>6, QuietStep DEF TurnOK

LEMMA LeaveWrites == ASSUME Written, NEW t \in Turns, Leave(t) PROVE Written'
<1> DEFINE w == [turn[t] EXCEPT !.pc = "left"]
<1>1. /\ turn[t] \in TurnState /\ turn \in [Turns -> TurnState]
      /\ Fresh(turn[t], t, Range(rows)) /\ Filling(turn[t], t, Range(rows))
  BY TurnIs
<1>2. turn' = [turn EXCEPT ![t] = w]
  BY <1>1 DEF Leave, TurnState
<1>3. /\ w \in TurnState /\ w.pc = "left" /\ w.agent = turn[t].agent /\ w.calls = turn[t].calls
      /\ w.todo = turn[t].todo /\ w.blind = turn[t].blind /\ turn[t].pc = "running"
  BY <1>1 DEF Leave, TurnState
<1> HIDE DEF w
<1>4. Fresh(w, t, Range(rows)) /\ Filling(w, t, Range(rows))
  BY <1>1, <1>3 DEF Fresh, Filling
<1>5. RestOK' /\ rows' = rows
  BY RestKeeps DEF Leave
<1> QED BY <1>2, <1>3, <1>4, <1>5, QuietStep DEF TurnOK

LEMMA LoopClosesWrites == ASSUME Written, NEW t \in Turns, LoopCloses(t) PROVE Written'
<1>1. turn' = [turn EXCEPT ![t] = Ended(t)] /\ rows' = rows /\ RestOK'
  BY RestKeeps DEF LoopCloses
<1> QED BY <1>1, EndedIs, QuietStep

LEMMA CrashWrites == ASSUME Written, NEW t \in Turns, Crash(t) PROVE Written'
<1>1. turn' = [turn EXCEPT ![t] = Ended(t)] /\ rows' = rows
  BY DEF Crash
<1>2. RestOK'
  BY HistoryAssumption DEF Crash, Written, RestOK
<1> QED BY <1>1, <1>2, EndedIs, QuietStep

LEMMA FillWrites == ASSUME Written, NEW t \in Turns, NEW c \in turn[t].todo, Fill(t, c) PROVE Written'
<1> DEFINE w == [turn[t] EXCEPT !.todo = turn[t].todo \ {c}]
<1> DEFINE r == Output(c, t)
<1>1. /\ turn[t] \in TurnState /\ turn \in [Turns -> TurnState] /\ rows \in Seq(Row)
      /\ Fresh(turn[t], t, Range(rows)) /\ Filling(turn[t], t, Range(rows))
      /\ Range(rows) \in SUBSET Row /\ c \in Row
  BY TurnIs DEF TurnState
<1>2. turn' = [turn EXCEPT ![t] = w]
  BY <1>1 DEF Fill, TurnState
<1>3. /\ w.pc = turn[t].pc /\ w.agent = turn[t].agent /\ w.calls = turn[t].calls
      /\ w.todo = turn[t].todo \ {c} /\ w.blind = turn[t].blind /\ w \in TurnState
      /\ turn[t].pc \in {"repairing", "stopping"}
  BY <1>1 DEF Fill, TurnState
<1>4. r \in Row /\ IsOutput(r) /\ r.by = t /\ r.turn = c.turn /\ CallOf(r) = c
      /\ r \notin Range(rows) /\ t # "agent"
  BY <1>1, OutputsAre, HistoryAssumption DEF Writers, Filling
<1> HIDE DEF w
<1>5. PICK k \in 1 .. Len(rows) + 1 : PutIn(rows, k, r, rows') /\ rows' \in Seq(Row)
  <2>1. CASE c \in Range(rows) /\ rows' \in InsertedAfter(rows, r)
    <3> DEFINE b == rows'
    <3>1. /\ b \in Seq(Row)
          /\ \E k \in 1 .. Len(rows) + 1 : PutIn(rows, k, r, b)
      <4> HIDE DEF b, r
      <4>1. b \in InsertedAfter(rows, r)
        BY <2>1 DEF b
      <4> QED BY <1>1, <1>4, <2>1, <4>1, InsertedIs
    <3> QED BY <3>1
  <2>2. CASE Write(r)
    BY <1>4, <2>2, AppendsIn
  <2> QED BY <2>1, <2>2 DEF Fill
<1>6. \A d \in w.todo : Output(d, t) # r
  <2> SUFFICES ASSUME NEW d \in w.todo PROVE CallOf(Output(d, t)) # CallOf(r)
    OBVIOUS
  <2>1. d \in turn[t].todo /\ d # c /\ d \in Row
    BY <1>1, <1>3 DEF TurnState
  <2>2. CallOf(Output(d, t)) = CallOf(d) /\ d = CallOf(d)
    BY <1>1, <2>1, OutputsAre DEF Writers, Filling
  <2> QED BY <1>4, <2>1, <2>2
<1>7. User(t) # r /\ Text(t) # r
  BY <1>4, RowsAre DEF IsOutput
<1>8. ASSUME NEW n \in Numbers PROVE Call(t, n) # r /\ Output(Call(t, n), "agent") # r
  BY <1>4, RowsAre, OutputsAre DEF Writers, IsOutput
<1> HIDE DEF r
<1>9. Fresh(w, t, Range(rows) \cup {r})
  <2>1. turn[t].calls \in Numbers
    BY <1>1 DEF TurnState
  <2> QED BY <1>1, <1>3, <1>7, <1>8, <2>1 DEF Fresh
<1>10. Filling(w, t, Range(rows) \cup {r})
  <2>1. w.pc = "repairing" => r.turn # t
    BY <1>1, <1>3, <1>4 DEF Filling
  <2> QED BY <1>1, <1>3, <1>4, <1>6, <2>1 DEF Filling
<1>11. RestOK'
  BY RestKeeps DEF Fill
<1>12. TurnOK(w, t, Range(rows) \cup {r})
  BY <1>3, <1>9, <1>10 DEF TurnOK
<1>13. r.kind # "call"
  BY <1>4 DEF IsOutput
<1> QED BY <1>2, <1>4, <1>5, <1>11, <1>12, <1>13, WritingStep

\* What is deleted is an output, from one place of the list.
LEMMA DeleteIs ==
    ASSUME Written, NEW r \in doomed, Delete(r)
    PROVE  /\ r \in Row /\ IsOutput(r) /\ rows' \in Seq(Row) /\ rows \in Seq(Row)
           /\ r \notin Range(rows) => rows' = rows
           /\ r \in Range(rows) =>
                 /\ \E k \in 1 .. Len(rows') + 1 : PutIn(rows', k, r, rows)
                 /\ Range(rows) = Range(rows') \cup {r} /\ RowsOK(rows')
<1>1. r \in Row /\ IsOutput(r) /\ rows \in Seq(Row) /\ IsInjective(rows)
  BY DEF Written, RestOK, RowsOK
<1>2. CASE r \notin Range(rows)
  BY <1>1, <1>2 DEF Delete
<1>3. CASE r \in Range(rows)
  <2>1. PICK i \in DOMAIN rows : rows[i] = r /\ rows' = RemoveAt(rows, i)
    BY <1>3 DEF Delete
  <2>2. i \in 1 .. Len(rows) /\ Len(rows) \in Nat
    BY <1>1, <2>1
  <2> DEFINE b == rows'
  <2>3. b \in Seq(Row) /\ PutIn(b, i, r, rows)
    BY <1>1, <2>1, <2>2, RemoveAtTakesOut
  <2> HIDE DEF b
  <2>4. i \in 1 .. Len(b) + 1
    BY <1>1, <2>2, <2>3 DEF PutIn
  <2>5. Range(rows) = Range(b) \cup {r} /\ IsInjective(b)
    BY <1>1, <2>3, <2>4, PutInMembers
  <2>6. RowsOK(b)
    BY <2>3, <2>5 DEF Written, RowsOK
  <2> QED BY <1>1, <1>3, <2>3, <2>4, <2>5, <2>6 DEF b
<1> QED BY <1>2, <1>3

LEMMA DeleteWrites == ASSUME Written, NEW r \in doomed, Delete(r) PROVE Written'
<1>1. r \in Row /\ IsOutput(r) /\ RowsOK(rows')
      /\ Range(rows') \in SUBSET Range(rows) /\ Range(rows) \in SUBSET Row
      /\ \A q \in Range(rows) : q \in Range(rows') \/ IsOutput(q)
  <2>1. RowsOK(rows) /\ Range(rows) \in SUBSET Row
    BY DEF Written, RowsOK, Range
  <2>2. CASE r \notin Range(rows)
    <3>1. rows' = rows /\ r \in Row /\ IsOutput(r)
      BY <2>2, DeleteIs
    <3> QED BY <2>1, <3>1
  <2>3. CASE r \in Range(rows)
    <3>1. Range(rows) = Range(rows') \cup {r} /\ RowsOK(rows') /\ r \in Row /\ IsOutput(r)
      BY <2>3, DeleteIs
    <3> QED BY <2>1, <3>1
  <2> QED BY <2>2, <2>3
<1>2. turn' = turn
  BY DEF Delete
<1>3. \A t \in Turns : TurnOK(turn[t], t, Range(rows'))
  BY <1>1, TurnOut DEF Written
<1>4. RestOK'
  BY <1>1 DEF Delete, Written, RestOK
<1> QED BY <1>1, <1>2, <1>3, <1>4 DEF Written

\* What a compression does is nothing to rows and turns.
LEMMA RestStep ==
    ASSUME Written, UNCHANGED <<rows, turn>>, RestOK'
    PROVE  Written'
BY DEF Written

LEMMA BrowseWrites == ASSUME Written, Browse PROVE Written'
BY ReadingKeeps, RestStep DEF Browse

\* A list is cut where the rest does not begin with an output.
LEMMA SafeCutIs ==
    ASSUME NEW list \in Seq(Row), NEW n \in Nat, n < Len(list)
    PROVE  \E k \in n .. Len(list) :
              /\ SafeCut(list, n) = k
              /\ k = Len(list) \/ ~IsOutput(list[k + 1])
              /\ \A j \in n .. k - 1 : IsOutput(list[j + 1])
<1> DEFINE T == {k \in n .. Len(list) : k = Len(list) \/ ~IsOutput(list[k + 1])}
<1>1. Len(list) \in T /\ T \subseteq Nat /\ Len(list) \in Nat
  OBVIOUS
<1> DEFINE Is(k) == /\ k = Len(list) \/ ~IsOutput(list[k + 1])
                    /\ \A j \in n .. k - 1 : IsOutput(list[j + 1])
<1>2. \E k \in n .. Len(list) : Is(k)
  <2> HIDE DEF T
  <2>1. PICK k \in T : \A j \in T : k <= j
    BY <1>1, LeastOf, Zenon
  <2> USE DEF T
  <2>2. k \in n .. Len(list) /\ (k = Len(list) \/ ~IsOutput(list[k + 1]))
    BY <2>1
  <2>3. ASSUME NEW j \in n .. k - 1, ~IsOutput(list[j + 1]) PROVE FALSE
    <3>1. j \in T /\ j < k
      BY <1>1, <2>2, <2>3
    <3> QED BY <2>1, <2>2, <3>1
  <2> QED BY <2>2, <2>3
<1>3. SafeCut(list, n) = CHOOSE k \in n .. Len(list) : Is(k)
  BY <1>1 DEF SafeCut
<1> DEFINE cut == CHOOSE k \in n .. Len(list) : Is(k)
<1>4. cut \in n .. Len(list) /\ Is(cut)
  BY <1>2
<1> HIDE DEF cut
<1>5. SafeCut(list, n) = cut
  BY <1>3 DEF cut
<1> QED BY <1>4, <1>5

LEMMA SubSeqIs ==
    ASSUME NEW list \in Seq(Row), NEW m \in Nat, NEW n \in Nat, n <= Len(list), m <= n
    PROVE  /\ SubSeq(list, m + 1, n) \in Seq(Row) /\ Len(SubSeq(list, m + 1, n)) = n - m
           /\ \A j \in 1 .. n - m : SubSeq(list, m + 1, n)[j] = list[m + j]
<1> DEFINE s == SubSeq(list, m + 1, n)
<1>1. \A j \in m + 1 .. n : list[j] \in Row
  OBVIOUS
<1>2. m + 1 \in Int /\ n \in Int
  OBVIOUS
<1>3. /\ s \in Seq(Row) /\ Len(s) = (IF m + 1 <= n THEN n - (m + 1) + 1 ELSE 0)
      /\ \A j \in 1 .. n - (m + 1) + 1 : s[j] = list[m + 1 + j - 1]
  BY <1>1, <1>2, SubSeqProperties
<1> HIDE DEF s
<1>4. n - (m + 1) + 1 = n - m /\ (IF m + 1 <= n THEN n - (m + 1) + 1 ELSE 0) = n - m
  OBVIOUS
<1>5. \A j \in 1 .. n - m : s[j] = list[m + j]
  <2> SUFFICES ASSUME NEW j \in 1 .. n - m PROVE s[j] = list[m + j]
    OBVIOUS
  <2>1. m + 1 + j - 1 = m + j /\ j \in 1 .. n - (m + 1) + 1
    OBVIOUS
  <2>2. s[j] = list[m + 1 + j - 1]
    BY <1>3, <2>1
  <2> QED BY <2>1, <2>2
<1> QED BY <1>3, <1>4, <1>5 DEF s

\* What is summarised of a list that is covered so far.
LEMMA CutIs ==
    ASSUME NEW list \in Seq(Row), NEW covered \in Nat,
           NEW u, u = SubSeq(list, covered + 1, Len(list)),
           NEW cut, cut = CutOf(u), cut # 0
    PROVE  /\ cut \in Nat /\ covered + cut < Len(list) /\ Len(list) \in Nat
           /\ Len(list) <= covered + cut + KeepRecent
           /\ covered + KeepRecent < Len(list)
           /\ ~IsOutput(list[covered + cut + 1])
           /\ Range(SubSeq(u, 1, cut)) = {list[p] : p \in covered + 1 .. covered + cut}
<1>0. Len(list) \in Nat /\ KeepRecent \in Nat
  BY HistoryAssumption
<1>1. covered < Len(list)
  <2> SUFFICES ASSUME ~(covered < Len(list)) PROVE FALSE
    OBVIOUS
  <2>1. \A j \in covered + 1 .. Len(list) : list[j] \in Row
    BY <1>0
  <2>2. covered + 1 \in Int /\ Len(list) \in Int
    BY <1>0
  <2>3. Len(u) = IF covered + 1 <= Len(list) THEN Len(list) - (covered + 1) + 1 ELSE 0
    BY <2>1, <2>2, SubSeqProperties
  <2>4. Len(u) = 0
    BY <1>0, <2>3
  <2>5. CutOf(u) = 0
    BY <1>0, <2>4 DEF CutOf
  <2> QED BY <2>5
<1>2. /\ u \in Seq(Row) /\ Len(u) = Len(list) - covered
      /\ \A j \in 1 .. Len(list) - covered : u[j] = list[covered + j]
  BY <1>0, <1>1, SubSeqIs
<1>3. Len(u) > KeepRecent /\ KeepRecent # 0 /\ Len(u) \in Nat
  BY <1>0, <1>2 DEF CutOf
<1> DEFINE n == Len(u) - KeepRecent
<1>4. n \in Nat /\ n < Len(u)
  BY <1>0, <1>3
<1>5. cut = SafeCut(u, n) /\ ~(cut >= Len(u))
  BY <1>0, <1>3 DEF CutOf
<1>6. PICK k \in n .. Len(u) : SafeCut(u, n) = k /\ (k = Len(u) \/ ~IsOutput(u[k + 1]))
  <2> HIDE DEF n
  <2> QED BY <1>2, <1>4, SafeCutIs
<1>7. cut = k /\ cut \in Nat /\ cut < Len(u) /\ cut >= n /\ ~IsOutput(u[cut + 1])
  BY <1>0, <1>3, <1>5, <1>6
<1>8. cut + 1 \in 1 .. Len(list) - covered /\ covered + (cut + 1) = covered + cut + 1
  BY <1>0, <1>2, <1>7
<1>9. ~IsOutput(list[covered + cut + 1])
  BY <1>2, <1>7, <1>8
<1> DEFINE v == SubSeq(u, 0 + 1, cut)
<1>10. v \in Seq(Row) /\ Len(v) = cut - 0 /\ \A j \in 1 .. cut - 0 : v[j] = u[0 + j]
  <2>1. u \in Seq(Row) /\ cut \in Nat /\ 0 \in Nat /\ cut <= Len(u) /\ 0 <= cut
    BY <1>2, <1>3, <1>7
  <2> HIDE DEF n
  <2> QED BY <2>1, SubSeqIs, Zenon
<1>11. SubSeq(u, 1, cut) = v
  OBVIOUS
<1> HIDE DEF v
<1>12. DOMAIN v = 1 .. cut /\ \A j \in 1 .. cut : v[j] = list[covered + j]
  <2>1. cut - 0 = cut /\ \A j \in 1 .. cut : 0 + j = j /\ j \in 1 .. Len(list) - covered
    BY <1>0, <1>2, <1>7
  <2> QED BY <1>2, <1>10, <2>1
<1>13. ASSUME NEW r PROVE r \in Range(v) <=> \E p \in covered + 1 .. covered + cut : list[p] = r
  <2>1. ASSUME r \in Range(v) PROVE \E p \in covered + 1 .. covered + cut : list[p] = r
    <3>1. PICK j \in 1 .. cut : v[j] = r
      BY <1>12, <2>1 DEF Range
    <3>2. covered + j \in covered + 1 .. covered + cut
      BY <1>7, <3>1
    <3> QED BY <1>12, <3>1, <3>2
  <2>2. ASSUME NEW p \in covered + 1 .. covered + cut, list[p] = r PROVE r \in Range(v)
    <3>1. p - covered \in 1 .. cut /\ covered + (p - covered) = p
      BY <1>7
    <3>2. v[p - covered] = r
      BY <1>12, <2>2, <3>1
    <3> QED BY <1>12, <3>1, <3>2 DEF Range
  <2> QED BY <2>1, <2>2
<1>15. Range(v) = {list[p] : p \in covered + 1 .. covered + cut}
  BY <1>13
<1>14. covered + cut < Len(list) /\ Len(list) <= covered + cut + KeepRecent /\ covered + KeepRecent < Len(list)
  BY <1>0, <1>2, <1>3, <1>7
<1> QED BY <1>0, <1>7, <1>9, <1>11, <1>14, <1>15

CompressState == [pc : {"idle", "read", "asking", "done"}, list : Seq(Row), to : Summary]

LEMMA CompressStep ==
    ASSUME Written, NEW k \in Compressors, NEW w \in CompressState,
           compress' = [compress EXCEPT ![k] = w], summary' \in Summary \cup {None},
           faults' \in 0 .. MaxFaults, doomed' \subseteq Row, \A r \in doomed' : IsOutput(r),
           UNCHANGED <<rows, turn, swept>>
    PROVE  Written'
<1>1. compress' \in [Compressors -> CompressState] /\ swept' \subseteq Row
  BY DEF Written, RestOK, CompressState
<1>2. RestOK'
  BY <1>1 DEF RestOK, CompressState
<1> QED BY <1>2, RestStep

LEMMA CompressIs ==
    ASSUME Written, NEW k \in Compressors
    PROVE  /\ compress \in [Compressors -> CompressState] /\ compress[k] \in CompressState
           /\ compress[k].list \in Seq(Row) /\ compress[k].to \in Summary
           /\ summary \in Summary \cup {None} /\ faults \in 0 .. MaxFaults
           /\ doomed \subseteq Row /\ \A r \in doomed : IsOutput(r)
           /\ Rest \in CompressState /\ [Rest EXCEPT !.pc = "done"] \in CompressState
<1>1. NoSummary \in Summary /\ <<>> \in Seq(Row)
  BY DEF NoSummary, Summary
<1>2. Rest \in CompressState
  BY <1>1 DEF Rest, CompressState
<1>3. [Rest EXCEPT !.pc = "done"] \in CompressState
  BY <1>2 DEF CompressState
<1>4. compress \in [Compressors -> CompressState]
  BY DEF Written, RestOK, CompressState
<1>5. compress[k].list \in Seq(Row) /\ compress[k].to \in Summary
  BY <1>4 DEF CompressState
<1> QED BY <1>2, <1>3, <1>4, <1>5 DEF Written, RestOK

LEMMA ReadRowsWrites == ASSUME Written, NEW k \in Compressors, ReadRows(k) PROVE Written'
<1> DEFINE w == [compress[k] EXCEPT !.pc = "read", !.list = Reordered(rows)]
<1>1. compress \in [Compressors -> CompressState] /\ compress[k] \in CompressState
  BY CompressIs
<1>2. rows \in Seq(Row) /\ Reordered(rows) \in Seq(Row)
  BY ReorderedLaid DEF Written, RowsOK
<1>3. w \in CompressState
  BY <1>1, <1>2 DEF CompressState
<1>4. compress' = [compress EXCEPT ![k] = w]
  BY <1>1 DEF ReadRows, CompressState
<1>5. summary' \in Summary \cup {None} /\ faults' \in 0 .. MaxFaults
  BY CompressIs DEF ReadRows
<1>6. doomed' \subseteq Row /\ \A r \in doomed' : IsOutput(r)
  BY <1>2, CompressIs, OrphansAre DEF ReadRows, Reading
<1>7. UNCHANGED <<rows, turn, swept>>
  BY DEF ReadRows
<1> QED BY <1>3, <1>4, <1>5, <1>6, <1>7, CompressStep

\* The summary that compression k makes, of cut messages of its list.
Cut(k) == CutOf(SubSeq(compress[k].list, Stored.covered + 1, Len(compress[k].list)))
Made(k) ==
    LET list == compress[k].list
        taken == Range(SubSeq(SubSeq(list, Stored.covered + 1, Len(list)), 1, Cut(k)))
    IN  [covered |-> Stored.covered + Cut(k), text |-> Stored.text \cup taken,
         gone |-> Stored.gone,
         early |-> Stored.early \cup {c \in taken : c.kind = "call" /\
                                        Output(c, "agent") \notin Range(list)}]

LEMMA ReadSummaryIs ==
    ASSUME NEW k \in Compressors, ReadSummary(k)
    PROVE  /\ compress[k].pc = "read"
           /\ UNCHANGED <<rows, summary, turn, doomed, faults, swept>>
           /\ compress' = [compress EXCEPT ![k] =
                IF Cut(k) = 0 THEN [Rest EXCEPT !.pc = "done"]
                ELSE [Rest EXCEPT !.pc = "asking", !.to = Made(k)]]
BY DEF ReadSummary, Cut, Made

\* What is made of a list: everything up to where it is cut.
LEMMA MadeIs ==
    ASSUME Written, NEW k \in Compressors, Cut(k) # 0
    PROVE  LET list == compress[k].list
               cut == Cut(k)
           IN  /\ Made(k) \in Summary
               /\ cut \in Nat /\ Stored.covered \in Nat /\ Len(list) \in Nat
               /\ Stored.covered + cut < Len(list)
               /\ Len(list) <= Stored.covered + cut + KeepRecent
               /\ Stored.covered + KeepRecent < Len(list)
               /\ ~IsOutput(list[Stored.covered + cut + 1])
               /\ Made(k).covered = Stored.covered + cut
               /\ Made(k).gone = Stored.gone
               /\ Stored.text \subseteq Made(k).text /\ Stored.early \subseteq Made(k).early
               /\ \A p \in Stored.covered + 1 .. Stored.covered + cut : list[p] \in Made(k).text
               /\ \A c \in Made(k).text : \/ c \in Stored.text
                      \/ \E p \in Stored.covered + 1 .. Stored.covered + cut : list[p] = c
               /\ \A p \in Stored.covered + 1 .. Stored.covered + cut :
                     list[p].kind = "call" => \/ list[p] \in Made(k).early
                                              \/ Output(list[p], "agent") \in Range(list)
<1> DEFINE list == compress[k].list
<1> DEFINE covered == Stored.covered
<1> DEFINE u == SubSeq(list, covered + 1, Len(list))
<1> DEFINE cut == Cut(k)
<1> DEFINE taken == Range(SubSeq(u, 1, cut))
<1> DEFINE early == {c \in taken : c.kind = "call" /\ Output(c, "agent") \notin Range(list)}
<1>1. /\ list \in Seq(Row) /\ Stored \in Summary /\ covered \in Nat
      /\ Stored.text \subseteq Row /\ Stored.gone \subseteq Row /\ Stored.early \subseteq Row
  BY CompressIs, StoredIs DEF Summary
<1>2. cut = CutOf(u) /\ cut # 0
  BY DEF Cut
<1>3. Made(k) = [covered |-> covered + cut, text |-> Stored.text \cup taken,
                 gone |-> Stored.gone, early |-> Stored.early \cup early]
  BY DEF Made
<1>4. /\ cut \in Nat /\ covered + cut < Len(list) /\ Len(list) \in Nat
      /\ Len(list) <= covered + cut + KeepRecent
      /\ covered + KeepRecent < Len(list)
      /\ ~IsOutput(list[covered + cut + 1])
      /\ \A r : r \in taken <=> \E p \in covered + 1 .. covered + cut : list[p] = r
  <2>1. /\ cut \in Nat /\ covered + cut < Len(list) /\ Len(list) \in Nat
        /\ Len(list) <= covered + cut + KeepRecent
        /\ covered + KeepRecent < Len(list)
        /\ ~IsOutput(list[covered + cut + 1])
        /\ taken = {list[p] : p \in covered + 1 .. covered + cut}
    <3> HIDE DEF list, covered, cut
    <3> QED BY <1>1, <1>2, CutIs, Zenon
  <2> HIDE DEF list, covered, u, cut, taken
  <2> QED BY <2>1
<1> HIDE DEF taken, cut
<1>5. taken \subseteq Row
  <2> SUFFICES ASSUME NEW p \in covered + 1 .. covered + cut PROVE list[p] \in Row
    BY <1>4
  <2>1. p \in 1 .. Len(list)
    BY <1>1, <1>4
  <2> QED BY <1>1, <2>1
<1>6. early \subseteq Row
  BY <1>5
<1>7. \A p \in covered + 1 .. covered + cut : list[p] \in taken
  BY <1>4
<1>8. \A p \in covered + 1 .. covered + cut :
         list[p].kind = "call" => list[p] \in early \/ Output(list[p], "agent") \in Range(list)
  BY <1>7
<1>9. \A c \in taken : \E p \in covered + 1 .. covered + cut : list[p] = c
  BY <1>4
<1> HIDE DEF early
<1>10. Made(k) \in Summary
  BY <1>1, <1>3, <1>4, <1>5, <1>6 DEF Summary
<1>11. /\ Made(k).covered = covered + cut /\ Made(k).text = Stored.text \cup taken
       /\ Made(k).gone = Stored.gone /\ Made(k).early = Stored.early \cup early
  BY <1>3
<1> HIDE DEF list, covered
<1>12. /\ Made(k) \in Summary
       /\ cut \in Nat /\ covered \in Nat /\ Len(list) \in Nat
       /\ covered + cut < Len(list)
       /\ Len(list) <= covered + cut + KeepRecent
       /\ covered + KeepRecent < Len(list)
       /\ ~IsOutput(list[covered + cut + 1])
       /\ Made(k).covered = covered + cut
       /\ Made(k).gone = Stored.gone
       /\ Stored.text \subseteq Made(k).text /\ Stored.early \subseteq Made(k).early
  BY <1>1, <1>4, <1>10, <1>11
<1>13. /\ \A p \in covered + 1 .. covered + cut : list[p] \in Made(k).text
       /\ \A c \in Made(k).text : \/ c \in Stored.text
              \/ \E p \in covered + 1 .. covered + cut : list[p] = c
       /\ \A p \in covered + 1 .. covered + cut :
             list[p].kind = "call" => \/ list[p] \in Made(k).early
                                      \/ Output(list[p], "agent") \in Range(list)
  BY <1>7, <1>8, <1>9, <1>11
<1> QED BY <1>12, <1>13 DEF list, covered, cut

LEMMA ReadSummaryWrites == ASSUME Written, NEW k \in Compressors, ReadSummary(k) PROVE Written'
<1> DEFINE w == IF Cut(k) = 0 THEN [Rest EXCEPT !.pc = "done"]
                ELSE [Rest EXCEPT !.pc = "asking", !.to = Made(k)]
<1>1. w \in CompressState
  <2>1. CASE Cut(k) = 0
    BY <2>1, CompressIs
  <2>2. CASE Cut(k) # 0
    <3>1. Rest \in CompressState /\ Made(k) \in Summary
      BY <2>2, CompressIs, MadeIs
    <3> QED BY <2>2, <3>1 DEF CompressState
  <2> QED BY <2>1, <2>2
<1>2. compress' = [compress EXCEPT ![k] = w] /\ UNCHANGED <<rows, summary, turn, doomed, faults, swept>>
  BY ReadSummaryIs
<1> HIDE DEF w
<1> QED BY <1>1, <1>2, CompressIs, CompressStep

LEMMA SaveWrites == ASSUME Written, NEW k \in Compressors, Save(k) PROVE Written'
BY CompressIs, CompressStep DEF Save

LEMMA SaveStubWrites == ASSUME Written, NEW k \in Compressors, SaveStub(k) PROVE Written'
<1>1. compress[k].to \in Summary
  BY CompressIs
<1>2. [compress[k].to EXCEPT !.text = {}, !.gone = @ \cup compress[k].to.text] \in Summary
  BY <1>1 DEF Summary
<1>3. faults' \in 0 .. MaxFaults
  BY CompressIs, HistoryAssumption DEF SaveStub
<1> QED BY <1>2, <1>3, CompressIs, CompressStep DEF SaveStub

LEMMA GiveUpWrites == ASSUME Written, NEW k \in Compressors, GiveUp(k) PROVE Written'
BY CompressIs, CompressStep DEF GiveUp

LEMMA ExpireWrites == ASSUME Written, Expire PROVE Written'
<1>1. RestOK'
  BY DEF Expire, Written, RestOK
<1> QED BY <1>1, RestStep DEF Expire

LEMMA InitWrites == ASSUME Init PROVE Written
<1>1. NoSummary \in Summary /\ 0 \in Numbers /\ <<>> \in Seq(Row) /\ Range(<<>>) = {}
  BY DEF NoSummary, Summary, Numbers, Range
<1>2. RowsOK(rows) /\ Range(rows) = {}
  BY <1>1 DEF Init, RowsOK, IsInjective
<1>3. Idle \in TurnState /\ Idle.pc = "new" /\ Idle.agent = "idle" /\ Idle.calls = 0
      /\ Idle.todo = {} /\ ~Idle.blind
  BY <1>1 DEF Idle, TurnState
<1>4. \A t \in Turns : TurnOK(Idle, t, {})
  BY <1>3 DEF TurnOK, Fresh, Filling
<1>5. turn \in [Turns -> TurnState] /\ \A t \in Turns : turn[t] = Idle
  BY <1>3 DEF Init
<1>6. Rest \in CompressState
  BY <1>1 DEF Rest, CompressState
<1>7. RestOK
  BY <1>6, HistoryAssumption DEF Init, RestOK, CompressState
<1> QED BY <1>2, <1>4, <1>5, <1>7 DEF Written

LEMMA NextWrites == ASSUME Written, [Next]_vars PROVE Written'
<1>1. CASE UNCHANGED vars
  BY <1>1 DEF vars, Written, RestOK
<1>2. ASSUME NEW t \in Turns,
             Begin(t) \/ Repair(t) \/ Start(t) \/ Stream(t) \/ StoreCall(t) \/ Result(t)
             \/ Answer(t) \/ Interrupt(t) \/ Stop(t) \/ Leave(t) \/ LoopCloses(t) \/ Crash(t)
      PROVE  Written'
  BY <1>2, BeginWrites, RepairWrites, StartWrites, StreamWrites, StoreCallWrites, ResultWrites,
     AnswerWrites, InterruptWrites, StopWrites, LeaveWrites, LoopClosesWrites, CrashWrites
<1>3. ASSUME NEW t \in Turns, NEW c \in turn[t].todo, Fill(t, c) PROVE Written'
  BY <1>3, FillWrites
<1>4. CASE Browse \/ Expire
  BY <1>4, BrowseWrites, ExpireWrites
<1>5. ASSUME NEW r \in doomed, Delete(r) PROVE Written'
  BY <1>5, DeleteWrites
<1>6. ASSUME NEW k \in Compressors,
             ReadRows(k) \/ ReadSummary(k) \/ Save(k) \/ SaveStub(k) \/ GiveUp(k)
      PROVE  Written'
  BY <1>6, ReadRowsWrites, ReadSummaryWrites, SaveWrites, SaveStubWrites, GiveUpWrites
<1> QED BY <1>1, <1>2, <1>3, <1>4, <1>5, <1>6 DEF Next

LEMMA AlwaysWritten == Spec => []Written
<1>1. Init => Written
  BY InitWrites
<1>2. Written /\ [Next]_vars => Written'
  BY NextWrites
<1> QED BY <1>1, <1>2, PTL DEF Spec

\* TypeOK: the state is well typed; in particular no row is stored twice, so that the place of a row
\* in the sequence is one, whichever turn or repair writes it.
THEOREM TypeCorrect == Spec => []TypeOK
BY AlwaysWritten, WrittenIsTyped, PTL

-----------------------------------------------------------------------------
(* The result of a tool is the last output of its call.                    *)

\* r stands behind its call, and no output of the call behind r.
Newest(list, r) ==
    \E h \in DOMAIN list : \E i \in DOMAIN list :
        /\ h < i /\ list[h] = CallOf(r) /\ list[i] = r
        /\ \A j \in OutputsAt(list, CallOf(r)) : j <= i

\* The agent's results that no filler may hide.
Real(r) == IsOutput(r) /\ r.by = "agent" /\ r.turn \notin Direct

\* Unless the consumer looked for the call before it was stored.
Stands == \A r \in Range(rows) : Real(r) /\ ~turn[r.turn].blind => Newest(rows, r)

\* It stays the last one when something else is put in, unless that is an output behind it.
LEMMA NewestPut ==
    ASSUME NEW a \in Seq(Row), NEW b \in Seq(Row), NEW k \in 1 .. Len(a) + 1, NEW q,
           PutIn(a, k, q, b), NEW r, Newest(a, r),
           ~(IsOutput(q) /\ CallOf(q) = CallOf(r)) \/ \A i \in DOMAIN a : a[i] = r => k <= i
    PROVE  Newest(b, r)
<1> DEFINE sh(n) == IF n < k THEN n ELSE n + 1
<1>1. /\ Len(b) = Len(a) + 1 /\ Len(a) \in Nat /\ DOMAIN a = 1 .. Len(a)
      /\ DOMAIN b = 1 .. Len(a) + 1 /\ b[k] = q /\ k \in Nat
  BY DEF PutIn
<1>2. PICK h \in DOMAIN a, i \in DOMAIN a :
        /\ h < i /\ a[h] = CallOf(r) /\ a[i] = r
        /\ \A j \in OutputsAt(a, CallOf(r)) : j <= i
  BY DEF Newest
<1>3. sh(h) \in 1 .. Len(a) + 1 /\ sh(i) \in 1 .. Len(a) + 1 /\ sh(h) < sh(i)
  BY <1>1, <1>2
<1>4. b[sh(h)] = a[h] /\ b[sh(i)] = a[i]
  BY <1>1 DEF PutIn
<1>5. ASSUME NEW j \in OutputsAt(b, CallOf(r)) PROVE j <= sh(i)
  <2>1. j \in 1 .. Len(a) + 1 /\ IsOutput(b[j]) /\ CallOf(b[j]) = CallOf(r)
    BY <1>1 DEF OutputsAt
  <2>2. CASE j = k
    <3>1. k <= i
      BY <1>1, <1>2, <2>1, <2>2
    <3> QED BY <1>1, <2>2, <3>1
  <2>3. CASE j < k
    <3>1. j \in 1 .. Len(a) /\ b[j] = a[j]
      BY <1>1, <2>1, <2>3 DEF PutIn
    <3>2. j \in OutputsAt(a, CallOf(r))
      BY <1>1, <2>1, <3>1 DEF OutputsAt
    <3> QED BY <1>1, <1>2, <2>1, <3>2
  <2>4. CASE j > k
    <3>1. j - 1 \in 1 .. Len(a) /\ b[j] = a[j - 1]
      BY <1>1, <2>1, <2>4 DEF PutIn
    <3>2. j - 1 \in OutputsAt(a, CallOf(r))
      BY <1>1, <2>1, <3>1 DEF OutputsAt
    <3>3. j - 1 <= i
      BY <1>2, <3>2
    <3> QED BY <1>1, <2>1, <2>4, <3>3
  <2> QED BY <1>1, <2>1, <2>2, <2>3, <2>4
<1> HIDE DEF sh
<1> QED BY <1>1, <1>2, <1>3, <1>4, <1>5 DEF Newest

LEMMA NewestOut ==
    ASSUME NEW a \in Seq(Row), NEW b \in Seq(Row), NEW k \in 1 .. Len(a) + 1, NEW q,
           PutIn(a, k, q, b), NEW r, Newest(b, r), q # r, q # CallOf(r)
    PROVE  Newest(a, r)
<1> DEFINE back(n) == IF n < k THEN n ELSE n - 1
<1>1. /\ Len(b) = Len(a) + 1 /\ Len(a) \in Nat /\ DOMAIN a = 1 .. Len(a)
      /\ DOMAIN b = 1 .. Len(a) + 1 /\ b[k] = q /\ k \in Nat
  BY DEF PutIn
<1>2. PICK h \in DOMAIN b, i \in DOMAIN b :
        /\ h < i /\ b[h] = CallOf(r) /\ b[i] = r
        /\ \A j \in OutputsAt(b, CallOf(r)) : j <= i
  BY DEF Newest
<1>3. h # k /\ i # k
  BY <1>1, <1>2
<1>4. back(h) \in 1 .. Len(a) /\ back(i) \in 1 .. Len(a) /\ back(h) < back(i)
  BY <1>1, <1>2, <1>3
<1>5. a[back(h)] = b[h] /\ a[back(i)] = b[i]
  BY <1>1, <1>2, <1>3 DEF PutIn
<1>6. ASSUME NEW j \in OutputsAt(a, CallOf(r)) PROVE j <= back(i)
  <2>1. j \in 1 .. Len(a) /\ IsOutput(a[j]) /\ CallOf(a[j]) = CallOf(r)
    BY <1>1 DEF OutputsAt
  <2>2. CASE j < k
    <3>1. j \in 1 .. Len(a) + 1 /\ b[j] = a[j]
      BY <1>1, <2>1, <2>2 DEF PutIn
    <3>2. j \in OutputsAt(b, CallOf(r))
      BY <1>1, <2>1, <3>1 DEF OutputsAt
    <3> QED BY <1>1, <1>2, <1>3, <2>1, <2>2, <3>2
  <2>3. CASE j >= k
    <3>1. j + 1 \in 1 .. Len(a) + 1 /\ b[j + 1] = a[j]
      BY <1>1, <2>1, <2>3 DEF PutIn
    <3>2. j + 1 \in OutputsAt(b, CallOf(r))
      BY <1>1, <2>1, <3>1 DEF OutputsAt
    <3>3. j + 1 <= i
      BY <1>2, <3>2
    <3> QED BY <1>1, <1>2, <2>1, <2>3, <3>3
  <2> QED BY <1>1, <2>1, <2>2, <2>3
<1> HIDE DEF back
<1> QED BY <1>1, <1>2, <1>4, <1>5, <1>6 DEF Newest

LEMMA NewestAppended ==
    ASSUME NEW a \in Seq(Row), NEW b \in Seq(Row), NEW r \in Row, CallOf(r) \in Range(a),
           PutIn(a, Len(a) + 1, r, b)
    PROVE  Newest(b, r)
<1>1. PICK h \in DOMAIN a : a[h] = CallOf(r)
  BY DEF Range
<1>2. /\ Len(b) = Len(a) + 1 /\ Len(a) \in Nat /\ DOMAIN b = 1 .. Len(a) + 1
      /\ b[Len(a) + 1] = r /\ h \in 1 .. Len(a) /\ b[h] = a[h]
  BY <1>1 DEF PutIn
<1>3. \A j \in OutputsAt(b, CallOf(r)) : j <= Len(a) + 1
  BY <1>2 DEF OutputsAt
<1>4. h \in DOMAIN b /\ Len(a) + 1 \in DOMAIN b /\ h < Len(a) + 1
  BY <1>2
<1> QED BY <1>1, <1>2, <1>3, <1>4 DEF Newest

\* The last output of a stored call is in the order.
LEMMA NewestShown ==
    ASSUME NEW list \in Seq(Row), NEW r \in Row, IsOutput(r), Newest(list, r)
    PROVE  r \in Range(Reordered(list))
<1> DEFINE s == Reordered(list)
<1>1. PICK h \in DOMAIN list, i \in DOMAIN list :
        /\ h < i /\ list[h] = CallOf(r) /\ list[i] = r
        /\ \A j \in OutputsAt(list, CallOf(r)) : j <= i
  BY DEF Newest
<1>2. i \in OutputsAt(list, CallOf(r))
  BY <1>1 DEF OutputsAt
<1>3. Answered(list, CallOf(r)) /\ LastOutput(list, CallOf(r)) = r
  <2>1. LastOutput(list, CallOf(r)) = list[i]
    BY <1>1, <1>2, LastIs
  <2> QED BY <1>1, <1>2, <2>1 DEF Answered
<1>4. s \in Seq(Row) /\ Laid(list, Len(list), s)
  BY ReorderedLaid
<1> HIDE DEF s
<1>5. h \in 1 .. Len(list) /\ CallOf(r).kind = "call" /\ ~IsOutput(list[h])
  BY <1>1, RowsAre DEF IsOutput
<1>6. PICK p \in 1 .. Len(s) : s[p] = CallOf(r)
  BY <1>1, <1>4, <1>5 DEF Laid
<1>7. p < Len(s) /\ s[p + 1] = r
  BY <1>3, <1>4, <1>5, <1>6 DEF Laid
<1>8. p + 1 \in DOMAIN s
  BY <1>4, <1>7
<1> QED BY <1>7, <1>8 DEF Range, s

LEMMA BlindStays ==
    ASSUME Written, [Next]_vars
    PROVE  \A t \in Turns : turn[t].blind => turn'[t].blind
<1> SUFFICES ASSUME NEW u \in Turns, turn[u].blind PROVE turn'[u].blind
  OBVIOUS
<1>0. turn \in [Turns -> TurnState] /\ \A t \in Turns : turn[t] \in TurnState
  BY DEF Written
<1>1. CASE UNCHANGED turn
  BY <1>1
<1>2. ASSUME NEW t \in Turns, NEW w, turn' = [turn EXCEPT ![t] = w], turn[t].blind => w.blind
      PROVE  turn'[u].blind
  BY <1>0, <1>2
<1>3. ASSUME NEW t \in Turns,
             Begin(t) \/ Repair(t) \/ Start(t) \/ Stream(t) \/ StoreCall(t) \/ Result(t) \/ Leave(t)
      PROVE  turn'[u].blind
  BY <1>0, <1>3 DEF Begin, Repair, Start, Stream, StoreCall, Result, Leave, TurnState
<1>4. ASSUME NEW t \in Turns, Answer(t) \/ Stop(t) \/ LoopCloses(t) \/ Crash(t) PROVE turn'[u].blind
  <2>1. /\ Ended(t).blind = turn[t].blind
        /\ [Ended(t) EXCEPT !.agent = turn[t].agent, !.calls = turn[t].calls].blind = turn[t].blind
    BY <1>0 DEF Ended, Idle
  <2>2. [turn[t] EXCEPT !.agent = "idle"].blind = turn[t].blind
    BY <1>0 DEF TurnState
  <2> QED BY <1>2, <1>4, <2>1, <2>2 DEF Answer, Stop, LoopCloses, Crash
<1>5. ASSUME NEW t \in Turns, Interrupt(t) PROVE turn'[u].blind
  <2>1. ~turn[t].blind /\ t # u
    BY <1>5, TurnIs DEF Interrupt, Filling
  <2> QED BY <1>0, <1>5, <2>1 DEF Interrupt
<1>6. ASSUME NEW t \in Turns, NEW c \in turn[t].todo, Fill(t, c) PROVE turn'[u].blind
  BY <1>0, <1>6 DEF Fill, TurnState
<1>7. CASE \E k \in Compressors : ReadRows(k) \/ ReadSummary(k) \/ Save(k) \/ SaveStub(k) \/ GiveUp(k)
  <2>1. UNCHANGED turn
    BY <1>7, ReadSummaryIs DEF ReadRows, Save, SaveStub, GiveUp
  <2> QED BY <1>1, <2>1
<1>8. CASE Browse \/ Expire \/ \E r \in doomed : Delete(r)
  BY <1>1, <1>8 DEF Browse, Expire, Delete
<1>9. CASE UNCHANGED vars
  BY <1>1, <1>9 DEF vars
<1> QED BY <1>3, <1>4, <1>5, <1>6, <1>7, <1>8, <1>9 DEF Next

\* What keeps the results where they are.
LEMMA StandsPut ==
    ASSUME Written, Written', Stands, \A t \in Turns : turn[t].blind => turn'[t].blind,
           NEW q \in Row, NEW k \in 1 .. Len(rows) + 1, PutIn(rows, k, q, rows'),
           \A r \in Range(rows) : Real(r) /\ ~turn[r.turn].blind =>
              \/ ~(IsOutput(q) /\ CallOf(q) = CallOf(r))
              \/ \A i \in DOMAIN rows : rows[i] = r => k <= i,
           Real(q) /\ ~turn'[q.turn].blind => Newest(rows', q)
    PROVE  Stands'
<1> DEFINE b == rows'
<1>1. rows \in Seq(Row) /\ b \in Seq(Row) /\ Range(rows) \in SUBSET Row
  BY DEF Written, RowsOK, Range
<1>2. PutIn(rows, k, q, b)
  OBVIOUS
<1> HIDE DEF b
<1>3. Range(b) = Range(rows) \cup {q}
  BY <1>1, <1>2, PutInMembers
<1>4. ASSUME NEW r \in Range(b), Real(r), ~turn'[r.turn].blind PROVE Newest(b, r)
  <2>1. CASE r = q
    BY <1>4, <2>1 DEF b
  <2>2. CASE r \in Range(rows)
    <3>1. r.turn \in Turns
      BY <1>1, <2>2, RowsAre
    <3>2. Newest(rows, r)
      BY <1>4, <2>2, <3>1 DEF Stands
    <3>3. \/ ~(IsOutput(q) /\ CallOf(q) = CallOf(r))
          \/ \A i \in DOMAIN rows : rows[i] = r => k <= i
      BY <1>4, <2>2, <3>1
    <3> QED BY <1>1, <1>2, <3>2, <3>3, NewestPut
  <2> QED BY <1>3, <2>1, <2>2
<1> QED BY <1>4 DEF Stands, b

LEMMA StandsQuiet ==
    ASSUME Written, Stands, \A t \in Turns : turn[t].blind => turn'[t].blind, rows' = rows
    PROVE  Stands'
<1>1. \A r \in Range(rows) : r.turn \in Turns
  BY RowsAre DEF Written, RowsOK, Range
<1> QED BY <1>1 DEF Stands

\* An output that is put behind its call, or behind what was put there before, hides nothing.
LEMMA InsertHidesNothing ==
    ASSUME Written, Stands, NEW q \in Row, NEW k \in 1 .. Len(rows) + 1,
           NEW at \in 1 .. k - 1, rows[at] = CallOf(q),
           \A i \in at + 1 .. k - 1 : Inserted(rows[i]),
           NEW r \in Range(rows), Real(r), ~turn[r.turn].blind, CallOf(q) = CallOf(r)
    PROVE  \A i \in DOMAIN rows : rows[i] = r => k <= i
<1> SUFFICES ASSUME NEW i \in DOMAIN rows, rows[i] = r, i < k PROVE FALSE
  BY DEF Written, RowsOK
<1>1. PICK h \in DOMAIN rows, j \in DOMAIN rows : h < j /\ rows[h] = CallOf(r) /\ rows[j] = r
  BY DEF Stands, Newest
<1>2. rows \in Seq(Row) /\ IsInjective(rows) /\ DOMAIN rows = 1 .. Len(rows) /\ Len(rows) \in Nat
  BY DEF Written, RowsOK
<1>3. at \in DOMAIN rows
  BY <1>2
<1>4. i = j /\ at = h
  BY <1>1, <1>2, <1>3 DEF IsInjective
<1>5. i \in at + 1 .. k - 1
  BY <1>1, <1>2, <1>4
<1> QED BY <1>5 DEF Inserted, Real

LEMMA FillStands == ASSUME Written, Written', Stands, \A t \in Turns : turn[t].blind => turn'[t].blind,
                           NEW t \in Turns, NEW c \in turn[t].todo, Fill(t, c)
                    PROVE  Stands'
<1> DEFINE q == Output(c, t)
<1>1. /\ turn[t] \in TurnState /\ rows \in Seq(Row)
      /\ Filling(turn[t], t, Range(rows)) /\ Range(rows) \in SUBSET Row /\ c \in Row
  BY TurnIs DEF TurnState
<1>2. q \in Row /\ IsOutput(q) /\ q.by = t /\ CallOf(q) = c /\ t # "agent" /\ ~Real(q)
  BY <1>1, OutputsAre, HistoryAssumption DEF Writers, Filling, Real
<1>3. CASE c \in Range(rows) /\ rows' \in InsertedAfter(rows, q)
  <2>1. PICK k \in 1 .. Len(rows) + 1 :
          /\ PutIn(rows, k, q, rows')
          /\ \E at \in 1 .. k - 1 : /\ rows[at] = CallOf(q)
                                    /\ \A i \in at + 1 .. k - 1 : Inserted(rows[i])
    <3> DEFINE b == rows'
    <3>1. \E k \in 1 .. Len(rows) + 1 :
            /\ PutIn(rows, k, q, b)
            /\ \E at \in 1 .. k - 1 : /\ rows[at] = CallOf(q)
                                      /\ \A i \in at + 1 .. k - 1 : Inserted(rows[i])
      <4> HIDE DEF b, q
      <4>1. b \in InsertedAfter(rows, q)
        BY <1>3 DEF b
      <4> QED BY <1>1, <1>2, <1>3, <4>1, InsertedIs
    <3> QED BY <3>1
  <2> HIDE DEF q
  <2>2. PICK at \in 1 .. k - 1 : rows[at] = CallOf(q) /\ \A i \in at + 1 .. k - 1 : Inserted(rows[i])
    BY <2>1
  <2>3. \A r \in Range(rows) : Real(r) /\ ~turn[r.turn].blind =>
           \/ ~(IsOutput(q) /\ CallOf(q) = CallOf(r))
           \/ \A i \in DOMAIN rows : rows[i] = r => k <= i
    BY <1>2, <2>2, InsertHidesNothing
  <2> QED BY <1>2, <2>1, <2>3, StandsPut
<1>4. CASE (c \notin Range(rows) \/ turn[t].blind) /\ Write(q)
  <2>1. PICK k \in 1 .. Len(rows) + 1 : PutIn(rows, k, q, rows')
    BY <1>2, <1>4, AppendsIn
  <2>2. ASSUME NEW r \in Range(rows), Real(r), ~turn[r.turn].blind, CallOf(q) = CallOf(r)
        PROVE  FALSE
    <3>1. c = CallOf(r) /\ c \in Range(rows)
      BY <1>2, <2>2 DEF Stands, Newest, Range
    <3>2. turn[t].blind
      BY <1>4, <3>1
    <3>3. c.turn = t /\ r.turn = c.turn
      BY <1>1, <3>1, <3>2, RowsAre DEF Fill, Filling
    <3> QED BY <2>2, <3>2, <3>3
  <2> HIDE DEF q
  <2> QED BY <1>2, <2>1, <2>2, StandsPut
<1> QED BY <1>3, <1>4 DEF Fill

LEMMA ResultStays == ASSUME Written, Written', Stands, \A t \in Turns : turn[t].blind => turn'[t].blind,
                            NEW t \in Turns, Result(t)
                     PROVE  Stands'
<1> DEFINE q == Output(Current(t), "agent")
<1>1. /\ turn[t] \in TurnState /\ rows \in Seq(Row)
      /\ Fresh(turn[t], t, Range(rows)) /\ Range(rows) \in SUBSET Row /\ turn[t].calls \in Numbers
  BY TurnIs DEF TurnState
<1>2. Current(t) \in Row /\ Current(t).turn = t /\ CallOf(Current(t)) = Current(t)
      /\ Current(t) = Call(t, turn[t].calls)
  BY <1>1, RowsAre DEF Current
<1>3. q \in Row /\ IsOutput(q) /\ q.turn = t /\ CallOf(q) = Current(t) /\ Current(t) \in Range(rows)
      /\ q \notin Range(rows)
  BY <1>1, <1>2, OutputsAre DEF Writers, Result, Fresh
<1>4. CASE t \in Direct
  <2>1. PICK k \in 1 .. Len(rows) + 1 : PutIn(rows, k, q, rows')
    <3> DEFINE b == rows'
    <3>1. \E k \in 1 .. Len(rows) + 1 : PutIn(rows, k, q, b)
      <4>1. b \in InsertedAfter(rows, q)
        BY <1>4 DEF Result
      <4> HIDE DEF b, q
      <4> QED BY <1>1, <1>3, <4>1, InsertedIs
    <3> QED BY <3>1
  <2>2. ~Real(q)
    BY <1>3, <1>4 DEF Real
  <2>3. ASSUME NEW r \in Range(rows), Real(r), CallOf(q) = CallOf(r) PROVE FALSE
    <3>1. r.turn = q.turn
      BY <1>1, <1>3, <2>3, RowsAre
    <3> QED BY <1>3, <1>4, <2>3, <3>1 DEF Real
  <2> HIDE DEF q
  <2> QED BY <1>3, <2>1, <2>2, <2>3, StandsPut
<1>5. CASE t \notin Direct
  <2> DEFINE b == rows'
  <2>1. Write(q)
    BY <1>5 DEF Result
  <2>2. b \in Seq(Row) /\ Len(rows) + 1 \in 1 .. Len(rows) + 1 /\ PutIn(rows, Len(rows) + 1, q, b)
    BY <1>3, <2>1, AppendsIn
  <2>3. Newest(b, q)
    <3> HIDE DEF b, q
    <3> QED BY <1>1, <1>3, <2>2, NewestAppended
  <2>4. ASSUME NEW r \in Range(rows), Real(r), CallOf(q) = CallOf(r) PROVE FALSE
    <3>1. r \in Row /\ r = Output(CallOf(r), "agent")
      BY <1>1, <2>4, OutputIs DEF Real
    <3>2. q = Output(CallOf(q), "agent")
      BY <1>3
    <3> QED BY <1>3, <2>4, <3>1, <3>2
  <2> HIDE DEF q
  <2> QED BY <1>3, <2>2, <2>3, <2>4, StandsPut
<1> QED BY <1>4, <1>5

\* A user's message, a call or an answer is no output.
LEMMA WriteStands ==
    ASSUME Written, Written', Stands, \A t \in Turns : turn[t].blind => turn'[t].blind,
           NEW q \in Row, ~IsOutput(q), Write(q)
    PROVE  Stands'
<1>1. PICK k \in 1 .. Len(rows) + 1 : PutIn(rows, k, q, rows')
  BY AppendsIn
<1>2. ~Real(q)
  BY DEF Real
<1> QED BY <1>1, <1>2, StandsPut

LEMMA DeleteStands == ASSUME Written, Written', Stands, NEW q \in doomed, Delete(q)
                      PROVE  Stands'
<1>1. /\ q \in Row /\ IsOutput(q) /\ rows' \in Seq(Row) /\ rows \in Seq(Row)
      /\ q \notin Range(rows) => rows' = rows
      /\ q \in Range(rows) =>
            /\ \E k \in 1 .. Len(rows') + 1 : PutIn(rows', k, q, rows)
            /\ Range(rows) = Range(rows') \cup {q} /\ RowsOK(rows')
  BY DeleteIs
<1>2. turn' = turn
  BY DEF Delete
<1>3. CASE q \notin Range(rows)
  BY <1>1, <1>2, <1>3, StandsQuiet
<1>4. CASE q \in Range(rows)
  <2> DEFINE b == rows'
  <2>1. PICK k \in 1 .. Len(b) + 1 : PutIn(b, k, q, rows)
    BY <1>1, <1>4
  <2>2. b \in Seq(Row) /\ Range(rows) = Range(b) \cup {q}
    BY <1>1, <1>4
  <2> HIDE DEF b
  <2>3. IsInjective(rows)
    BY DEF Written, RowsOK
  <2>4. q \notin Range(b)
    BY <1>1, <2>1, <2>2, <2>3, PutInMembers
  <2>5. ASSUME NEW r \in Range(b), Real(r), ~turn[r.turn].blind PROVE Newest(b, r)
    <3>1. Newest(rows, r) /\ r # q /\ r \in Row
      BY <2>2, <2>4, <2>5 DEF Stands, Range
    <3>2. q # CallOf(r)
      BY <1>1, <3>1, RowsAre DEF IsOutput
    <3> QED BY <1>1, <2>1, <2>2, <3>1, <3>2, NewestOut
  <2> QED BY <1>2, <2>5 DEF Stands, b
<1> QED BY <1>3, <1>4

LEMMA NextStands == ASSUME Written, Stands, [Next]_vars PROVE Stands'
<1>1. Written' /\ \A t \in Turns : turn[t].blind => turn'[t].blind
  BY NextWrites, BlindStays
<1>2. ASSUME NEW t \in Turns,
             Begin(t) \/ Repair(t) \/ Stream(t) \/ Interrupt(t) \/ Stop(t) \/ Leave(t)
             \/ LoopCloses(t) \/ Crash(t)
      PROVE  Stands'
  <2>1. rows' = rows
    BY <1>2 DEF Begin, Repair, Stream, Interrupt, Stop, Leave, LoopCloses, Crash
  <2> QED BY <1>1, <2>1, StandsQuiet
<1>3. ASSUME NEW t \in Turns, Start(t) \/ StoreCall(t) \/ Answer(t) PROVE Stands'
  <2>1. User(t) \in Row /\ ~IsOutput(User(t)) /\ Text(t) \in Row /\ ~IsOutput(Text(t))
    BY RowsAre DEF IsOutput
  <2>2. Current(t) \in Row /\ ~IsOutput(Current(t))
    BY RowsAre, TurnIs DEF IsOutput, Current, TurnState
  <2> QED BY <1>1, <1>3, <2>1, <2>2, WriteStands DEF Start, StoreCall, Answer
<1>4. ASSUME NEW t \in Turns, Result(t) PROVE Stands'
  BY <1>1, <1>4, ResultStays
<1>5. ASSUME NEW t \in Turns, NEW c \in turn[t].todo, Fill(t, c) PROVE Stands'
  BY <1>1, <1>5, FillStands
<1>6. CASE \E k \in Compressors : ReadRows(k) \/ ReadSummary(k) \/ Save(k) \/ SaveStub(k) \/ GiveUp(k)
  <2>1. rows' = rows
    BY <1>6, ReadSummaryIs DEF ReadRows, Save, SaveStub, GiveUp
  <2> QED BY <1>1, <2>1, StandsQuiet
<1>7. CASE Browse \/ Expire \/ UNCHANGED vars
  <2>1. rows' = rows
    BY <1>7 DEF Browse, Expire, vars
  <2> QED BY <1>1, <2>1, StandsQuiet
<1>8. ASSUME NEW r \in doomed, Delete(r) PROVE Stands'
  BY <1>1, <1>8, DeleteStands
<1> QED BY <1>2, <1>3, <1>4, <1>5, <1>6, <1>7, <1>8 DEF Next

LEMMA StandsIs == Written /\ Stands => ResultStands
<1> SUFFICES ASSUME Written, Stands, NEW r \in Range(rows), r.by = "agent", r.turn \notin Direct,
                    ~turn[r.turn].blind
             PROVE  r \in Range(Reordered(rows))
  BY DEF ResultStands
<1>1. rows \in Seq(Row) /\ r \in Row
  BY DEF Written, RowsOK, Range
<1>2. CASE IsOutput(r)
  BY <1>1, <1>2, NewestShown DEF Stands, Real
<1>3. CASE ~IsOutput(r)
  <2>1. PICK i \in 1 .. Len(rows) : rows[i] = r
    BY <1>1 DEF Range
  <2> DEFINE s == Reordered(rows)
  <2>2. s \in Seq(Row) /\ Laid(rows, Len(rows), s)
    BY <1>1, ReorderedLaid
  <2> HIDE DEF s
  <2>3. PICK p \in 1 .. Len(s) : s[p] = r
    BY <1>3, <2>1, <2>2 DEF Laid
  <2> QED BY <2>2, <2>3 DEF Range, s
<1> QED BY <1>2, <1>3

\* ResultStands: what an interrupt or a repair writes beside a call never hides the result of the
\* tool from the ordered list, whichever turns interrupt, repair, crash and delete meanwhile.
THEOREM ResultsStand == Spec => []ResultStands
<1>1. Init => Stands
  BY DEF Init, Stands, Range
<1>2. Written /\ Stands /\ [Next]_vars => Stands'
  BY NextStands
<1> QED BY <1>1, <1>2, AlwaysWritten, StandsIs, PTL DEF Spec

-----------------------------------------------------------------------------
(* The memory of a model.                                                  *)

\* It is the rest of the list from a place where no output begins it.
LEMMA MemoryIs ==
    ASSUME NEW list \in Seq(Row), NEW skip \in Nat
    PROVE  \E k \in 0 .. Len(list) :
              /\ Memory(list, skip) \in Seq(Row) /\ Len(Memory(list, skip)) = Len(list) - k
              /\ \A i \in 1 .. Len(list) - k : Memory(list, skip)[i] = list[k + i]
              /\ k = 0 \/ k = Len(list) \/ ~IsOutput(list[k + 1])
              /\ k # 0 => skip <= k /\ \A j \in skip .. k - 1 : IsOutput(list[j + 1])
<1>0. Len(list) \in Nat
  OBVIOUS
<1>1. CASE ~(skip > 0 /\ Len(list) > skip)
  <2>1. Memory(list, skip) = list
    BY <1>1 DEF Memory
  <2>2. 0 \in 0 .. Len(list) /\ Len(list) = Len(list) - 0 /\ \A i \in 1 .. Len(list) - 0 : list[i] = list[0 + i]
    BY <1>0
  <2> QED BY <2>1, <2>2
<1>2. CASE skip > 0 /\ Len(list) > skip
  <2>1. PICK k \in skip .. Len(list) :
          /\ SafeCut(list, skip) = k
          /\ k = Len(list) \/ ~IsOutput(list[k + 1])
          /\ \A j \in skip .. k - 1 : IsOutput(list[j + 1])
    BY <1>2, SafeCutIs
  <2>2. Memory(list, skip) = SubSeq(list, k + 1, Len(list))
    BY <1>2, <2>1 DEF Memory
  <2>3. k \in Nat /\ k <= Len(list) /\ Len(list) <= Len(list) /\ k \in 0 .. Len(list) /\ skip <= k
    BY <1>0, <2>1
  <2>4. /\ SubSeq(list, k + 1, Len(list)) \in Seq(Row) /\ Len(SubSeq(list, k + 1, Len(list))) = Len(list) - k
        /\ \A j \in 1 .. Len(list) - k : SubSeq(list, k + 1, Len(list))[j] = list[k + j]
    BY <1>0, <2>3, SubSeqIs
  <2> QED BY <2>1, <2>2, <2>3, <2>4
<1> QED BY <1>1, <1>2

-----------------------------------------------------------------------------
(* Every call is answered.                                                 *)

\* What a turn in state w, once it has repaired the history, still owes an answer: the calls on
\* its list and its own current call. The others are answered, or were until a reader deleted it.
Paid(w, t, list, sw, c) ==
    \/ Answered(list, c)
    \/ \E r \in sw : CallOf(r) = c
    \/ w.pc = "repairing" /\ c \in w.todo
    \/ w.agent = "calling" /\ c = Call(t, w.calls)

Owes(w, t, list, sw) ==
    w.pc \in {"repairing", "running", "left"} =>
        \A c \in Range(list) :
            c.kind = "call" /\ c.turn \in w.settled \cup {t} => Paid(w, t, list, sw, c)

\* The invariant; the turns that were over when a turn looked are over.
Pairs ==
    \A t \in Turns :
        /\ turn[t].pc \in {"repairing", "running", "left"} => \A u \in turn[t].settled : Quiet(u)
        /\ Owes(turn[t], t, rows, swept)

LEMMA OwesPut ==
    ASSUME NEW w, NEW t, NEW sw, NEW a \in Seq(Row), NEW b \in Seq(Row), NEW k \in 1 .. Len(a) + 1,
           NEW q \in Row, PutIn(a, k, q, b), Owes(w, t, a, sw),
           q.kind = "call" => q.turn \notin w.settled \cup {t}
    PROVE  Owes(w, t, b, sw)
<1>1. Range(b) = Range(a) \cup {q}
  BY PutInMembers
<1>2. ASSUME NEW c, Answered(a, c) PROVE Answered(b, c)
  <2>1. PICK i \in 1 .. Len(a) : IsOutput(a[i]) /\ CallOf(a[i]) = c
    BY <1>2 DEF Answered, OutputsAt
  <2>2. \E j \in DOMAIN b : b[j] = a[i]
    <3>1. a[i] \in Range(a)
      BY <2>1 DEF Range
    <3>2. a[i] \in Range(b)
      BY <1>1, <3>1
    <3> QED BY <3>2 DEF Range
  <2>3. PICK j \in DOMAIN b : b[j] = a[i]
    BY <2>2
  <2> QED BY <2>1, <2>3 DEF Answered, OutputsAt
<1> QED BY <1>1, <1>2 DEF Owes, Paid

LEMMA AnsweredBy ==
    ASSUME NEW list, NEW r \in Range(list), IsOutput(r)
    PROVE  Answered(list, CallOf(r))
BY DEF Range, Answered, OutputsAt

\* How a step of one turn is put together; the others have settled no turn that is not over.
LEMMA PairsStep ==
    ASSUME Written, Pairs, NEW t \in Turns, ~Quiet(t), NEW w, turn' = [turn EXCEPT ![t] = w],
           \A u \in Turns \ {t} :
              /\ turn[u].pc \in {"repairing", "running", "left"} => t \notin turn[u].settled
              /\ Owes(turn[u], u, rows, swept)
                 => Owes(turn[u], u, rows', swept'),
           w.pc \in {"repairing", "running", "left"} => \A u \in w.settled : u \in Turns /\ Quiet(u),
           Owes(w, t, rows', swept')
    PROVE  Pairs'
<1>1. turn'[t] = w /\ \A u \in Turns \ {t} : turn'[u] = turn[u]
  BY DEF Written
<1>2. ASSUME NEW u \in Turns, turn'[u].pc \in {"repairing", "running", "left"}, NEW v \in turn'[u].settled
      PROVE  turn'[v].pc = "over" /\ turn'[v].agent = "idle"
  <2>1. v \in Turns /\ turn[v].pc = "over" /\ turn[v].agent = "idle"
    BY <1>1, <1>2 DEF Pairs, Quiet, At, Written, TurnState
  <2>2. v # t
    BY <2>1 DEF Quiet, At
  <2> QED BY <1>1, <2>1, <2>2
<1>3. \A u \in Turns : Owes(turn'[u], u, rows', swept')
  BY <1>1 DEF Pairs
<1> QED BY <1>2, <1>3 DEF Pairs, Quiet, At

LEMMA OthersSettled ==
    ASSUME Written, Pairs, NEW t \in Turns, ~Quiet(t)
    PROVE  \A u \in Turns : turn[u].pc \in {"repairing", "running", "left"} => t \notin turn[u].settled
BY DEF Pairs

\* A step that writes nothing.
LEMMA PairsQuiet ==
    ASSUME Written, Pairs, NEW t \in Turns, ~Quiet(t), NEW w, turn' = [turn EXCEPT ![t] = w],
           w.pc \in {"repairing", "running", "left"} => \A u \in w.settled : u \in Turns /\ Quiet(u),
           Owes(w, t, rows, swept), rows' = rows, swept' = swept
    PROVE  Pairs'
<1>1. \A u \in Turns \ {t} : turn[u].pc \in {"repairing", "running", "left"} => t \notin turn[u].settled
  BY OthersSettled
<1> QED BY <1>1, PairsStep

\* A step that writes a row.
LEMMA PairsWriting ==
    ASSUME Written, Pairs, NEW t \in Turns, ~Quiet(t), NEW w, turn' = [turn EXCEPT ![t] = w],
           w.pc \in {"repairing", "running", "left"} => \A u \in w.settled : u \in Turns /\ Quiet(u),
           NEW q \in Row, NEW k \in 1 .. Len(rows) + 1, PutIn(rows, k, q, rows'), rows' \in Seq(Row),
           q.kind = "call" => q.turn = t, Owes(w, t, rows', swept), swept' = swept
    PROVE  Pairs'
<1>1. \A u \in Turns \ {t} : turn[u].pc \in {"repairing", "running", "left"} => t \notin turn[u].settled
  BY OthersSettled
<1>2. ASSUME NEW u \in Turns \ {t}, Owes(turn[u], u, rows, swept)
      PROVE  Owes(turn[u], u, rows', swept')
  <2> DEFINE b == rows'
  <2> DEFINE s == turn[u]
  <2>1. rows \in Seq(Row) /\ b \in Seq(Row) /\ PutIn(rows, k, q, b)
    BY DEF Written, RowsOK
  <2>2. CASE s.pc \in {"repairing", "running", "left"}
    <3>1. q.kind = "call" => q.turn \notin s.settled \cup {u}
      BY <1>1, <2>2
    <3>2. Owes(s, u, rows, swept)
      BY <1>2
    <3> HIDE DEF b, s
    <3>3. Owes(s, u, b, swept)
      BY <2>1, <3>1, <3>2, OwesPut
    <3> QED BY <3>3 DEF b, s
  <2>3. CASE s.pc \notin {"repairing", "running", "left"}
    BY <2>3 DEF Owes
  <2> QED BY <2>2, <2>3
<1> QED BY <1>1, <1>2, PairsStep

\* What is vacuous: a turn that has not repaired the history, or has stopped.
LEMMA OutsidePays ==
    ASSUME NEW w, w.pc \notin {"repairing", "running", "left"}
    PROVE  /\ w.pc \in {"repairing", "running", "left"} => \A u \in w.settled : u \in Turns /\ Quiet(u)
           /\ \A t, list, sw : Owes(w, t, list, sw)
BY DEF Owes

LEMMA RepairPairs == ASSUME Written, Pairs, NEW t \in Turns, Repair(t) PROVE Pairs'
<1> DEFINE w == [turn[t] EXCEPT !.pc = "repairing", !.todo = Unpaired(Reordered(rows)),
                                !.settled = {u \in Turns : Quiet(u)}]
<1>1. turn[t] \in TurnState /\ turn \in [Turns -> TurnState] /\ rows \in Seq(Row)
  BY TurnIs
<1>2. turn' = [turn EXCEPT ![t] = w] /\ rows' = rows /\ swept' = swept /\ ~Quiet(t)
  BY <1>1 DEF Repair, TurnState, Quiet, At
<1>3. w.pc = "repairing" /\ w.todo = Unpaired(Reordered(rows)) /\ w.settled = {u \in Turns : Quiet(u)}
  BY <1>1 DEF TurnState
<1> HIDE DEF w
<1> DEFINE s == Reordered(rows)
<1>4. s \in Seq(Row) /\ Laid(rows, Len(rows), s)
  BY <1>1, ReorderedLaid
<1>5. ASSUME NEW c \in Range(rows), c.kind = "call", ~Answered(rows, c) PROVE c \in w.todo
  <2> HIDE DEF s
  <2>1. PICK i \in 1 .. Len(rows) : rows[i] = c
    BY <1>1 DEF Range
  <2>2. PICK p \in 1 .. Len(s) : s[p] = c
    BY <1>4, <1>5, <2>1 DEF Laid, IsOutput
  <2>3. c \in Range(s)
    BY <1>4, <2>2 DEF Range
  <2>4. ~Answered(s, c)
    <3> SUFFICES ASSUME NEW o \in 1 .. Len(s), IsOutput(s[o]), CallOf(s[o]) = c PROVE FALSE
      BY <1>4 DEF Answered, OutputsAt
    <3>1. Answered(rows, s[o - 1]) /\ s[o - 1] = CallOf(s[o])
      BY <1>4 DEF Laid
    <3> QED BY <1>5, <3>1
  <2>5. c \in Unpaired(s)
    BY <1>5, <2>3, <2>4 DEF Unpaired
  <2> QED BY <1>3, <2>5 DEF s
<1>6. Owes(w, t, rows, swept)
  BY <1>3, <1>5 DEF Owes, Paid
<1>7. w.pc \in {"repairing", "running", "left"} => \A u \in w.settled : u \in Turns /\ Quiet(u)
  BY <1>3
<1> QED BY <1>2, <1>6, <1>7, PairsQuiet

LEMMA StartPairs == ASSUME Written, Pairs, NEW t \in Turns, Start(t) PROVE Pairs'
<1> DEFINE w == [turn[t] EXCEPT !.pc = "running", !.agent = "ready"]
<1> DEFINE q == User(t)
<1>1. turn[t] \in TurnState /\ turn \in [Turns -> TurnState] /\ rows \in Seq(Row)
  BY TurnIs
<1>2. turn' = [turn EXCEPT ![t] = w] /\ swept' = swept /\ ~Quiet(t)
  BY <1>1 DEF Start, TurnState, Quiet, At
<1>3. /\ w.pc = "running" /\ w.settled = turn[t].settled
      /\ turn[t].pc = "repairing" /\ turn[t].todo = {} /\ turn[t].agent = "idle"
  BY <1>1 DEF Start, At, TurnState
<1> HIDE DEF w
<1>4. q \in Row /\ q.kind = "user"
  BY RowsAre
<1>5. PICK k \in 1 .. Len(rows) + 1 : PutIn(rows, k, q, rows') /\ rows' \in Seq(Row)
  BY <1>4, AppendsIn DEF Start
<1> HIDE DEF q
<1>6. Owes(w, t, rows, swept)
  BY <1>3 DEF Pairs, Owes, Paid
<1> DEFINE b == rows'
<1>7. PutIn(rows, k, q, b) /\ b \in Seq(Row)
  BY <1>5
<1> HIDE DEF b
<1>8. Owes(w, t, b, swept)
  BY <1>1, <1>4, <1>6, <1>7, OwesPut
<1>9. \A u \in w.settled : u \in Turns /\ Quiet(u)
  BY <1>1, <1>3 DEF Pairs, TurnState
<1> QED BY <1>2, <1>4, <1>5, <1>8, <1>9, PairsWriting DEF b

LEMMA StreamPairs == ASSUME Written, Pairs, NEW t \in Turns, Stream(t) PROVE Pairs'
<1> DEFINE w == [turn[t] EXCEPT !.agent = "streamed", !.calls = turn[t].calls + 1]
<1>1. turn[t] \in TurnState /\ turn \in [Turns -> TurnState]
  BY TurnIs
<1>2. turn' = [turn EXCEPT ![t] = w] /\ rows' = rows /\ swept' = swept /\ ~Quiet(t)
  BY <1>1 DEF Stream, TurnState, Quiet, At
<1>3. /\ w.pc = turn[t].pc /\ w.settled = turn[t].settled
      /\ turn[t].pc \in {"running", "left"} /\ turn[t].agent = "ready"
  BY <1>1 DEF Stream, At, TurnState
<1> HIDE DEF w
<1>4. Owes(w, t, rows, swept)
  BY <1>3 DEF Pairs, Owes, Paid
<1>5. \A u \in w.settled : u \in Turns /\ Quiet(u)
  BY <1>1, <1>3 DEF Pairs, TurnState
<1> QED BY <1>2, <1>4, <1>5, PairsQuiet

\* An agent that is left relies on what it relied on before.
LEMMA LeavePairs == ASSUME Written, Pairs, NEW t \in Turns, Leave(t) PROVE Pairs'
<1> DEFINE w == [turn[t] EXCEPT !.pc = "left"]
<1>1. turn[t] \in TurnState /\ turn \in [Turns -> TurnState]
  BY TurnIs
<1>2. turn' = [turn EXCEPT ![t] = w] /\ rows' = rows /\ swept' = swept /\ ~Quiet(t)
  BY <1>1 DEF Leave, TurnState, Quiet, At
<1>3. /\ w.pc = "left" /\ w.settled = turn[t].settled /\ w.agent = turn[t].agent
      /\ w.calls = turn[t].calls /\ turn[t].pc = "running"
  BY <1>1 DEF Leave, TurnState
<1> HIDE DEF w
<1>4. Owes(w, t, rows, swept)
  BY <1>3 DEF Pairs, Owes, Paid
<1>5. \A u \in w.settled : u \in Turns /\ Quiet(u)
  BY <1>1, <1>3 DEF Pairs, TurnState
<1> QED BY <1>2, <1>4, <1>5, PairsQuiet

LEMMA StoreCallPairs == ASSUME Written, Pairs, NEW t \in Turns, StoreCall(t) PROVE Pairs'
<1> DEFINE w == [turn[t] EXCEPT !.agent = "calling"]
<1> DEFINE q == Current(t)
<1>1. /\ turn[t] \in TurnState /\ turn \in [Turns -> TurnState] /\ rows \in Seq(Row)
      /\ Fresh(turn[t], t, Range(rows)) /\ turn[t].calls \in Numbers
  BY TurnIs DEF TurnState
<1>2. turn' = [turn EXCEPT ![t] = w] /\ swept' = swept
  BY <1>1 DEF StoreCall, TurnState
<1>3. /\ w.pc = turn[t].pc /\ w.settled = turn[t].settled /\ w.agent = "calling"
      /\ w.calls = turn[t].calls /\ turn[t].agent = "streamed"
      /\ turn[t].pc \in {"running", "stopping", "left", "over"} /\ ~Quiet(t)
  BY <1>1 DEF StoreCall, TurnState, Fresh, Quiet, At
<1> HIDE DEF w
<1>4. q \in Row /\ q.kind = "call" /\ q.turn = t /\ q = Call(t, w.calls)
  BY <1>1, <1>3, RowsAre DEF Current
<1>5. PICK k \in 1 .. Len(rows) + 1 : PutIn(rows, k, q, rows') /\ rows' \in Seq(Row)
  BY <1>4, AppendsIn DEF StoreCall
<1> HIDE DEF q
<1> DEFINE b == rows'
<1>6. PutIn(rows, k, q, b) /\ b \in Seq(Row)
  BY <1>5
<1> HIDE DEF b
<1>7. Owes(w, t, b, swept)
  <2>1. Range(b) = Range(rows) \cup {q}
    BY <1>1, <1>6, PutInMembers
  <2>2. \A c : Answered(rows, c) => Answered(b, c)
    <3> SUFFICES ASSUME NEW c, NEW i \in DOMAIN rows, IsOutput(rows[i]), CallOf(rows[i]) = c
                 PROVE  Answered(b, c)
      BY DEF Answered, OutputsAt
    <3>1. rows[i] \in Range(b)
      BY <2>1 DEF Range
    <3> QED BY <3>1, AnsweredBy
  <2> QED BY <1>3, <1>4, <2>1, <2>2 DEF Pairs, Owes, Paid
<1>8. w.pc \in {"repairing", "running", "left"} => \A u \in w.settled : u \in Turns /\ Quiet(u)
  BY <1>1, <1>3 DEF Pairs, TurnState
<1> QED BY <1>2, <1>3, <1>4, <1>5, <1>7, <1>8, PairsWriting DEF b

\* An output that is written pays its call.
LEMMA OutputPays ==
    ASSUME NEW w, NEW v, NEW t, NEW sw, NEW a \in Seq(Row), NEW b \in Seq(Row),
           NEW k \in 1 .. Len(a) + 1, NEW q \in Row, IsOutput(q), PutIn(a, k, q, b),
           Owes(v, t, a, sw), w.pc = v.pc, w.settled = v.settled,
           \A c \in Row : Paid(v, t, a, sw, c) =>
              \/ c = CallOf(q) \/ Answered(a, c) \/ \E r \in sw : CallOf(r) = c
              \/ w.pc = "repairing" /\ c \in w.todo
              \/ w.agent = "calling" /\ c = Call(t, w.calls)
    PROVE  Owes(w, t, b, sw)
<1>0. Range(a) \subseteq Row
  BY DEF Range
<1>1. Range(b) = Range(a) \cup {q}
  BY PutInMembers
<1>2. \A c : c = CallOf(q) \/ Answered(a, c) <=> Answered(b, c)
  BY OutputPutIn
<1>3. q.kind # "call"
  BY DEF IsOutput
<1> QED BY <1>0, <1>1, <1>2, <1>3 DEF Owes, Paid

LEMMA ResultPairs == ASSUME Written, Pairs, NEW t \in Turns, Result(t) PROVE Pairs'
<1> DEFINE w == [turn[t] EXCEPT !.agent = "ready"]
<1> DEFINE q == Output(Current(t), "agent")
<1>1. /\ turn[t] \in TurnState /\ turn \in [Turns -> TurnState] /\ rows \in Seq(Row)
      /\ Fresh(turn[t], t, Range(rows)) /\ turn[t].calls \in Numbers
  BY TurnIs DEF TurnState
<1>2. turn' = [turn EXCEPT ![t] = w] /\ swept' = swept
  BY <1>1 DEF Result, TurnState
<1>3. /\ w.pc = turn[t].pc /\ w.settled = turn[t].settled /\ w.agent = "ready"
      /\ w.todo = turn[t].todo /\ turn[t].agent = "calling"
      /\ turn[t].pc \in {"running", "stopping", "left", "over"} /\ ~Quiet(t)
  BY <1>1 DEF Result, TurnState, Fresh, Quiet, At
<1> HIDE DEF w
<1>4. Current(t) \in Row /\ CallOf(Current(t)) = Current(t) /\ Current(t) = Call(t, turn[t].calls)
  BY <1>1, RowsAre DEF Current
<1>5. q \in Row /\ IsOutput(q) /\ CallOf(q) = Call(t, turn[t].calls) /\ CallOf(q) \in Range(rows)
  BY <1>1, <1>3, <1>4, OutputsAre DEF Writers, Fresh
<1> DEFINE b == rows'
<1>6. b \in Seq(Row) /\ \E k \in 1 .. Len(rows) + 1 : PutIn(rows, k, q, b)
  <2>1. CASE t \in Direct
    <3>1. b \in InsertedAfter(rows, q)
      BY <2>1 DEF Result
    <3> HIDE DEF b, q
    <3> QED BY <1>1, <1>5, <3>1, InsertedIs
  <2>2. CASE t \notin Direct
    BY <1>5, <2>2, AppendsIn DEF Result
  <2> QED BY <2>1, <2>2
<1> HIDE DEF b, q
<1>7. PICK k \in 1 .. Len(rows) + 1 : PutIn(rows, k, q, b)
  BY <1>6
<1>8. Owes(w, t, b, swept)
  <2>1. Owes(turn[t], t, rows, swept)
    BY DEF Pairs
  <2>2. \A c \in Row : Paid(turn[t], t, rows, swept, c) =>
          \/ c = CallOf(q) \/ Answered(rows, c) \/ \E r \in swept : CallOf(r) = c
          \/ w.pc = "repairing" /\ c \in w.todo
    BY <1>3, <1>5 DEF Paid
  <2> QED BY <1>1, <1>3, <1>5, <1>6, <1>7, <2>1, <2>2, OutputPays
<1>9. w.pc \in {"repairing", "running", "left"} => \A u \in w.settled : u \in Turns /\ Quiet(u)
  BY <1>1, <1>3 DEF Pairs, TurnState
<1>10. q.kind # "call"
  BY <1>5 DEF IsOutput
<1> QED BY <1>2, <1>3, <1>5, <1>6, <1>7, <1>8, <1>9, <1>10, PairsWriting DEF b

LEMMA FillPairs == ASSUME Written, Pairs, NEW t \in Turns, NEW c \in turn[t].todo, Fill(t, c) PROVE Pairs'
<1> DEFINE w == [turn[t] EXCEPT !.todo = turn[t].todo \ {c}]
<1> DEFINE q == Output(c, t)
<1>1. /\ turn[t] \in TurnState /\ turn \in [Turns -> TurnState] /\ rows \in Seq(Row)
      /\ Filling(turn[t], t, Range(rows)) /\ c \in Row
  BY TurnIs DEF TurnState
<1>2. turn' = [turn EXCEPT ![t] = w] /\ swept' = swept
  BY <1>1 DEF Fill, TurnState
<1>3. /\ w.pc = turn[t].pc /\ w.settled = turn[t].settled /\ w.agent = turn[t].agent
      /\ w.calls = turn[t].calls /\ w.todo = turn[t].todo \ {c}
      /\ turn[t].pc \in {"repairing", "stopping"} /\ ~Quiet(t)
  BY <1>1 DEF Fill, TurnState, Quiet, At
<1> HIDE DEF w
<1>4. q \in Row /\ IsOutput(q) /\ CallOf(q) = c
  BY <1>1, OutputsAre DEF Writers, Filling
<1> DEFINE b == rows'
<1>5. b \in Seq(Row) /\ \E k \in 1 .. Len(rows) + 1 : PutIn(rows, k, q, b)
  <2>1. CASE c \in Range(rows) /\ b \in InsertedAfter(rows, q)
    <3> HIDE DEF b, q
    <3> QED BY <1>1, <1>4, <2>1, InsertedIs
  <2>2. CASE Write(q)
    BY <1>4, <2>2, AppendsIn
  <2> QED BY <2>1, <2>2 DEF Fill
<1> HIDE DEF b, q
<1>6. PICK k \in 1 .. Len(rows) + 1 : PutIn(rows, k, q, b)
  BY <1>5
<1>7. Owes(w, t, b, swept)
  <2>1. Owes(turn[t], t, rows, swept)
    BY DEF Pairs
  <2>2. \A d \in Row : Paid(turn[t], t, rows, swept, d) =>
          \/ d = CallOf(q) \/ Answered(rows, d) \/ \E r \in swept : CallOf(r) = d
          \/ w.pc = "repairing" /\ d \in w.todo
          \/ w.agent = "calling" /\ d = Call(t, w.calls)
    BY <1>3, <1>4 DEF Paid
  <2> QED BY <1>1, <1>3, <1>4, <1>5, <1>6, <2>1, <2>2, OutputPays
<1>8. w.pc \in {"repairing", "running", "left"} => \A u \in w.settled : u \in Turns /\ Quiet(u)
  BY <1>1, <1>3 DEF Pairs, TurnState
<1>9. q.kind # "call"
  BY <1>4 DEF IsOutput
<1> QED BY <1>2, <1>3, <1>4, <1>5, <1>6, <1>7, <1>8, <1>9, PairsWriting DEF b

\* A turn that ends, or whose consumer has stopped, relies on nothing.
LEMMA LeavingPairs ==
    ASSUME Written, Pairs, NEW t \in Turns,
           Begin(t) \/ Answer(t) \/ Interrupt(t) \/ Stop(t) \/ LoopCloses(t) \/ Crash(t)
    PROVE  Pairs'
<1>1. turn[t] \in TurnState /\ turn \in [Turns -> TurnState] /\ rows \in Seq(Row)
      /\ Fresh(turn[t], t, Range(rows))
  BY TurnIs
<1>2. ~Quiet(t) /\ swept' = swept
  BY <1>1 DEF Begin, Answer, Interrupt, Stop, LoopCloses, Crash, Quiet, At, At, Fresh
<1>3. \E w : turn' = [turn EXCEPT ![t] = w] /\ w.pc \notin {"repairing", "running", "left"}
  <2>1. CASE Begin(t)
    <3> DEFINE w == [turn[t] EXCEPT !.pc = "created", !.has = Stored]
    <3>1. turn' = [turn EXCEPT ![t] = w] /\ w.pc = "created"
      BY <1>1, <2>1 DEF Begin, TurnState
    <3> QED BY <3>1
  <2>2. CASE LoopCloses(t) \/ Crash(t) \/ (Answer(t) /\ turn[t].pc # "stopping")
    <3>1. turn' = [turn EXCEPT ![t] = Ended(t)] /\ Ended(t).pc = "over"
      BY <2>2 DEF LoopCloses, Crash, Answer, Ended, Idle
    <3> QED BY <3>1
  <2>5. CASE Stop(t)
    <3> DEFINE w == [Ended(t) EXCEPT !.agent = turn[t].agent, !.calls = turn[t].calls]
    <3>1. turn' = [turn EXCEPT ![t] = w] /\ w.pc = "over"
      BY <2>5 DEF Stop, Ended, Idle
    <3> QED BY <3>1
  <2>3. CASE Answer(t) /\ turn[t].pc = "stopping"
    <3> DEFINE w == [turn[t] EXCEPT !.agent = "idle"]
    <3>1. turn' = [turn EXCEPT ![t] = w] /\ w.pc = turn[t].pc /\ turn[t].pc = "stopping"
      BY <1>1, <2>3 DEF Answer, TurnState, Fresh
    <3> QED BY <3>1
  <2>4. CASE Interrupt(t)
    <3>1. PICK waiting \in SUBSET (IF turn[t].calls = 0 THEN {} ELSE {Current(t)}) :
            turn' = [turn EXCEPT ![t].pc = "stopping", ![t].todo = waiting,
                                 ![t].blind = turn[t].agent = "streamed"]
      BY <2>4 DEF Interrupt
    <3> DEFINE blinded == turn[t].agent = "streamed"
    <3> DEFINE w == [turn[t] EXCEPT !.pc = "stopping", !.todo = waiting, !.blind = blinded]
    <3>2. turn' = [turn EXCEPT ![t] = w] /\ w.pc = "stopping"
      BY <1>1, <3>1 DEF TurnState
    <3> QED BY <3>2
  <2> QED BY <1>1, <2>1, <2>2, <2>3, <2>4, <2>5
<1>4. PICK w : turn' = [turn EXCEPT ![t] = w] /\ w.pc \notin {"repairing", "running", "left"}
  BY <1>3
<1>5. /\ w.pc \in {"repairing", "running", "left"} => \A u \in w.settled : u \in Turns /\ Quiet(u)
      /\ \A list, sw : Owes(w, t, list, sw)
  BY <1>4, OutsidePays
<1>6. CASE rows' = rows
  BY <1>2, <1>4, <1>5, <1>6, PairsQuiet
<1>7. CASE Write(Text(t))
  <2>1. Text(t) \in Row /\ Text(t).kind = "text"
    BY RowsAre
  <2>2. PICK k \in 1 .. Len(rows) + 1 : PutIn(rows, k, Text(t), rows') /\ rows' \in Seq(Row)
    BY <1>7, <2>1, AppendsIn
  <2>3. Owes(w, t, rows', swept)
    BY <1>5
  <2> QED BY <1>2, <1>4, <1>5, <2>1, <2>2, <2>3, PairsWriting
<1> QED BY <1>6, <1>7 DEF Begin, Answer, Interrupt, Stop, LoopCloses, Crash

LEMMA DeletePairs == ASSUME Written, Pairs, NEW q \in doomed, Delete(q) PROVE Pairs'
<1>1. /\ q \in Row /\ IsOutput(q) /\ rows' \in Seq(Row) /\ rows \in Seq(Row)
      /\ q \notin Range(rows) => rows' = rows
      /\ q \in Range(rows) =>
            /\ \E k \in 1 .. Len(rows') + 1 : PutIn(rows', k, q, rows)
            /\ Range(rows) = Range(rows') \cup {q} /\ RowsOK(rows')
  BY DeleteIs
<1>2. turn' = turn /\ swept' = swept \cup {r \in {q} : q \in Range(rows) /\ CallOf(q) \in Range(rows)}
  BY DEF Delete
<1>3. ASSUME NEW t \in Turns PROVE Owes(turn[t], t, rows', swept')
  <2>1. Owes(turn[t], t, rows, swept)
    BY DEF Pairs
  <2>2. CASE q \notin Range(rows)
    BY <1>1, <1>2, <2>1, <2>2 DEF Owes, Paid
  <2>3. CASE q \in Range(rows)
    <3> DEFINE b == rows'
    <3>1. PICK k \in 1 .. Len(b) + 1 : PutIn(b, k, q, rows)
      BY <1>1, <2>3
    <3>2. b \in Seq(Row) /\ Range(rows) = Range(b) \cup {q}
      BY <1>1, <2>3
    <3> HIDE DEF b
    <3>3. \A c : c = CallOf(q) \/ Answered(b, c) <=> Answered(rows, c)
      BY <1>1, <3>1, <3>2, OutputPutIn
    <3>4. ASSUME NEW c \in Range(b), Paid(turn[t], t, rows, swept, c)
          PROVE  Paid(turn[t], t, b, swept', c)
      <4>1. CASE c = CallOf(q)
        <5>1. q \in swept'
          BY <1>2, <2>3, <3>2, <4>1
        <5> QED BY <4>1, <5>1 DEF Paid
      <4>2. CASE c # CallOf(q)
        BY <1>2, <3>3, <3>4, <4>2 DEF Paid
      <4> QED BY <4>1, <4>2
    <3> QED BY <2>1, <3>2, <3>4 DEF Owes, b
  <2> QED BY <2>2, <2>3
<1> QED BY <1>2, <1>3 DEF Pairs, Quiet, At

LEMMA NextPairs == ASSUME Written, Pairs, [Next]_vars PROVE Pairs'
<1>1. ASSUME NEW t \in Turns,
             Begin(t) \/ Repair(t) \/ Start(t) \/ Stream(t) \/ StoreCall(t) \/ Result(t)
             \/ Answer(t) \/ Interrupt(t) \/ Stop(t) \/ Leave(t) \/ LoopCloses(t) \/ Crash(t)
      PROVE  Pairs'
  BY <1>1, RepairPairs, StartPairs, StreamPairs, LeavePairs, StoreCallPairs, ResultPairs,
     LeavingPairs
<1>2. ASSUME NEW t \in Turns, NEW c \in turn[t].todo, Fill(t, c) PROVE Pairs'
  BY <1>2, FillPairs
<1>3. CASE UNCHANGED <<rows, turn, swept>>
  BY <1>3 DEF Pairs, Quiet, At
<1>4. ASSUME NEW r \in doomed, Delete(r) PROVE Pairs'
  BY <1>4, DeletePairs
<1>5. ASSUME NEW k \in Compressors,
             ReadRows(k) \/ ReadSummary(k) \/ Save(k) \/ SaveStub(k) \/ GiveUp(k)
      PROVE  UNCHANGED <<rows, turn, swept>>
  BY <1>5, ReadSummaryIs DEF ReadRows, Save, SaveStub, GiveUp
<1>6. CASE Browse \/ Expire \/ UNCHANGED vars
  BY <1>3, <1>6 DEF Browse, Expire, vars
<1> QED BY <1>1, <1>2, <1>3, <1>4, <1>5, <1>6 DEF Next

LEMMA PairsIs == Written /\ Pairs => Paired
<1> SUFFICES ASSUME Written, Pairs, NEW t \in Turns, At(t, "running", "ready") \/ At(t, "left", "ready"),
                    NEW i \in DOMAIN MemoryOf(t)
             PROVE  /\ /\ MemoryOf(t)[i].kind = "call"
                       /\ MemoryOf(t)[i].turn \in turn[t].settled \cup {t}
                       /\ \A r \in swept : CallOf(r) # MemoryOf(t)[i]
                       => i < Len(MemoryOf(t)) /\ IsOutput(MemoryOf(t)[i + 1])
                    /\ IsOutput(MemoryOf(t)[i]) =>
                         i > 1 /\ MemoryOf(t)[i - 1] = CallOf(MemoryOf(t)[i])
  BY DEF Paired
<1> DEFINE s == Reordered(rows)
<1> DEFINE m == MemoryOf(t)
<1>1. turn[t].has.covered \in Nat /\ rows \in Seq(Row)
  BY TurnIs DEF TurnState, Summary
<1>2. s \in Seq(Row) /\ Laid(rows, Len(rows), s)
  BY <1>1, ReorderedLaid
<1>3. PICK k \in 0 .. Len(s) :
        /\ m \in Seq(Row) /\ Len(m) = Len(s) - k
        /\ \A j \in 1 .. Len(s) - k : m[j] = s[k + j]
        /\ k = 0 \/ k = Len(s) \/ ~IsOutput(s[k + 1])
  <2> HIDE DEF s
  <2> QED BY <1>1, <1>2, MemoryIs DEF MemoryOf, s
<1> HIDE DEF s, m
<1>4. i \in 1 .. Len(s) - k /\ m[i] = s[k + i] /\ k + i \in 1 .. Len(s) /\ Len(s) \in Nat /\ i \in Nat
  BY <1>2, <1>3 DEF m
<1>5. ASSUME IsOutput(m[i]) PROVE i > 1 /\ m[i - 1] = CallOf(m[i])
  <2>1. k + i > 1 /\ s[k + i].kind = "output" /\ s[(k + i) - 1] = CallOf(s[k + i])
    BY <1>2, <1>4, <1>5 DEF Laid, IsOutput
  <2>2. i # 1
    <3> SUFFICES ASSUME i = 1 PROVE FALSE
      OBVIOUS
    <3>1. k # 0 /\ k # Len(s)
      BY <1>3, <1>4, <2>1
    <3> QED BY <1>3, <1>4, <1>5, <3>1
  <2>3. i - 1 \in 1 .. Len(s) - k /\ k + (i - 1) = (k + i) - 1
    BY <1>3, <1>4, <2>2
  <2>4. m[i - 1] = s[(k + i) - 1]
    BY <1>3, <2>3
  <2> QED BY <1>4, <2>1, <2>2, <2>4
<1>6. ASSUME m[i].kind = "call", m[i].turn \in turn[t].settled \cup {t}, \A r \in swept : CallOf(r) # m[i]
      PROVE  i < Len(m) /\ IsOutput(m[i + 1])
  <2> DEFINE c == s[k + i]
  <2>1. c.kind = "call" /\ c \in Range(rows) /\ c.turn \in turn[t].settled \cup {t}
    BY <1>2, <1>4, <1>6 DEF Laid, IsOutput
  <2>2. turn[t].pc \in {"running", "left"} /\ turn[t].agent = "ready"
    BY DEF At
  <2>3. Answered(rows, c)
    BY <1>4, <1>6, <2>1, <2>2 DEF Pairs, Owes, Paid
  <2>4. k + i < Len(s) /\ s[(k + i) + 1] = LastOutput(rows, c)
    BY <1>2, <1>4, <2>1, <2>3 DEF Laid
  <2>5. IsOutput(LastOutput(rows, c))
    BY <1>1, <2>3, LastOutputIs
  <2>6. i + 1 \in 1 .. Len(s) - k /\ k + (i + 1) = (k + i) + 1 /\ i < Len(m)
    BY <1>3, <1>4, <2>4
  <2>7. m[i + 1] = s[(k + i) + 1]
    BY <1>3, <2>6
  <2> QED BY <2>4, <2>5, <2>6, <2>7
<1> QED BY <1>5, <1>6 DEF m

\* Paired: what a model is given is well formed: every output stands behind its call, and every
\* call of the turn, or of one whose consumer and agent were both at their end when it repaired
\* the history, is answered, whatever the other turns, their interrupts, crashes, agents left
\* behind and compressions do in between.
THEOREM MemoryIsPaired == Spec => []Paired
<1>1. Init => Pairs
  BY DEF Init, Pairs, Owes, Range, Idle
<1>2. Written /\ Pairs /\ [Next]_vars => Pairs'
  BY NextPairs
<1> QED BY <1>1, <1>2, AlwaysWritten, PairsIs, PTL DEF Spec

-----------------------------------------------------------------------------
(* The ordered list only grows, unless the output of a stored call is      *)
(* deleted.                                                                *)

LEMMA WriteGrows ==
    ASSUME Written, NEW r \in Row, r \notin Range(rows), Write(r)
    PROVE  Later(Reordered(rows), Reordered(rows'))
<1> DEFINE b == rows'
<1>1. rows \in Seq(Row)
  BY DEF Written, RowsOK
<1>2. CASE IsOutput(r)
  <2>1. b \in Seq(Row) /\ Len(rows) + 1 \in 1 .. Len(rows) + 1 /\ PutIn(rows, Len(rows) + 1, r, b)
    BY AppendsIn
  <2> HIDE DEF b
  <2>2. Later(Reordered(rows), Reordered(b))
    BY <1>1, <1>2, <2>1, OutputGrows
  <2> QED BY <2>2 DEF b
<1>3. CASE ~IsOutput(r)
  BY <1>1, <1>3, RowGrows DEF Write
<1> QED BY <1>2, <1>3

LEMMA InsertGrows ==
    ASSUME Written, NEW r \in Row, IsOutput(r), CallOf(r) \in Range(rows),
           rows' \in InsertedAfter(rows, r)
    PROVE  Later(Reordered(rows), Reordered(rows'))
<1> DEFINE b == rows'
<1>1. rows \in Seq(Row)
  BY DEF Written, RowsOK
<1>2. b \in InsertedAfter(rows, r)
  OBVIOUS
<1> HIDE DEF b
<1>3. b \in Seq(Row) /\ \E k \in 1 .. Len(rows) + 1 : PutIn(rows, k, r, b)
  BY <1>1, <1>2, InsertedIs
<1>4. PICK k \in 1 .. Len(rows) + 1 : PutIn(rows, k, r, b)
  BY <1>3
<1>5. Later(Reordered(rows), Reordered(b))
  BY <1>1, <1>3, <1>4, OutputGrows
<1> QED BY <1>5 DEF b

LEMMA SameGrows ==
    ASSUME Written, rows' = rows
    PROVE  Later(Reordered(rows), Reordered(rows'))
<1>1. Reordered(rows) \in Seq(Row)
  BY ReorderedLaid DEF Written, RowsOK
<1> QED BY <1>1, LaterSelf

LEMMA DeleteGrows ==
    ASSUME Written, NEW q \in doomed, Delete(q), swept' = {}
    PROVE  Later(Reordered(rows), Reordered(rows'))
<1>1. /\ q \in Row /\ IsOutput(q) /\ rows' \in Seq(Row) /\ rows \in Seq(Row)
      /\ q \notin Range(rows) => rows' = rows
      /\ q \in Range(rows) =>
            /\ \E k \in 1 .. Len(rows') + 1 : PutIn(rows', k, q, rows)
            /\ Range(rows) = Range(rows') \cup {q} /\ RowsOK(rows')
  BY DeleteIs
<1>2. CASE q \notin Range(rows)
  BY <1>1, <1>2, SameGrows
<1>3. CASE q \in Range(rows)
  <2>1. CallOf(q) \notin Range(rows)
    BY <1>3 DEF Delete
  <2> DEFINE b == rows'
  <2>2. PICK k \in 1 .. Len(b) + 1 : PutIn(b, k, q, rows)
    BY <1>1, <1>3
  <2>3. b \in Seq(Row) /\ CallOf(q) \notin Range(b)
    BY <1>1, <1>3, <2>1
  <2> HIDE DEF b
  <2>4. Reordered(b) = Reordered(rows)
    BY <1>1, <2>2, <2>3, OrphanIsOut
  <2>5. Reordered(rows) \in Seq(Row)
    BY <1>1, ReorderedLaid
  <2>6. Later(Reordered(rows), Reordered(b))
    BY <2>4, <2>5, LaterSelf
  <2> QED BY <2>6 DEF b
<1> QED BY <1>2, <1>3

LEMMA OrderGrows ==
    ASSUME Written, [Next]_vars, swept' = {}
    PROVE  Later(Reordered(rows), Reordered(rows'))
<1>1. ASSUME NEW t \in Turns,
             Begin(t) \/ Repair(t) \/ Stream(t) \/ Interrupt(t) \/ Stop(t) \/ Leave(t)
             \/ LoopCloses(t) \/ Crash(t)
      PROVE  rows' = rows
  BY <1>1 DEF Begin, Repair, Stream, Interrupt, Stop, Leave, LoopCloses, Crash
<1>2. ASSUME NEW t \in Turns, Start(t) \/ StoreCall(t) \/ Answer(t)
      PROVE  Later(Reordered(rows), Reordered(rows'))
  <2>1. User(t) \in Row /\ Text(t) \in Row /\ Current(t) \in Row
    BY TurnIs, RowsAre DEF Current, TurnState
  <2>2. /\ Start(t) => User(t) \notin Range(rows)
        /\ StoreCall(t) => Current(t) \notin Range(rows)
        /\ Answer(t) => Text(t) \notin Range(rows)
    BY TurnIs DEF Fresh, Start, At, StoreCall, Answer, Current
  <2> QED BY <1>2, <2>1, <2>2, WriteGrows DEF Start, StoreCall, Answer
<1>3. ASSUME NEW t \in Turns, Result(t) PROVE Later(Reordered(rows), Reordered(rows'))
  <2> DEFINE q == Output(Current(t), "agent")
  <2>1. Fresh(turn[t], t, Range(rows)) /\ turn[t].calls \in Numbers
    BY TurnIs DEF TurnState
  <2>2. Current(t) \in Row /\ CallOf(Current(t)) = Current(t) /\ Current(t) = Call(t, turn[t].calls)
    BY <2>1, RowsAre DEF Current
  <2>3. q \in Row /\ IsOutput(q) /\ CallOf(q) \in Range(rows) /\ q \notin Range(rows)
    BY <1>3, <2>1, <2>2, OutputsAre DEF Writers, Fresh, Result
  <2>4. rows' \in InsertedAfter(rows, q) \/ Write(q)
    BY <1>3 DEF Result
  <2> HIDE DEF q
  <2> QED BY <2>3, <2>4, WriteGrows, InsertGrows
<1>4. ASSUME NEW t \in Turns, NEW c \in turn[t].todo, Fill(t, c)
      PROVE  Later(Reordered(rows), Reordered(rows'))
  <2> DEFINE q == Output(c, t)
  <2>1. Filling(turn[t], t, Range(rows)) /\ c \in Row
    BY TurnIs DEF TurnState
  <2>2. q \in Row /\ IsOutput(q) /\ CallOf(q) = c /\ q \notin Range(rows)
    BY <2>1, OutputsAre DEF Writers, Filling
  <2>3. (c \in Range(rows) /\ rows' \in InsertedAfter(rows, q)) \/ Write(q)
    BY <1>4 DEF Fill
  <2> HIDE DEF q
  <2> QED BY <2>2, <2>3, WriteGrows, InsertGrows
<1>5. ASSUME NEW k \in Compressors,
             ReadRows(k) \/ ReadSummary(k) \/ Save(k) \/ SaveStub(k) \/ GiveUp(k)
      PROVE  rows' = rows
  BY <1>5, ReadSummaryIs DEF ReadRows, Save, SaveStub, GiveUp
<1>6. CASE Browse \/ Expire \/ UNCHANGED vars
  BY <1>6, SameGrows DEF Browse, Expire, vars
<1>7. ASSUME NEW r \in doomed, Delete(r) PROVE Later(Reordered(rows), Reordered(rows'))
  BY <1>7, DeleteGrows
<1> QED BY <1>1, <1>2, <1>3, <1>4, <1>5, <1>6, <1>7, SameGrows DEF Next

-----------------------------------------------------------------------------
(* Nothing is forgotten.                                                   *)

\* What a summary covers of a list it tells, outputs aside.
Fits(s, list) ==
    /\ s.covered <= Len(list)
    /\ \A p \in 1 .. s.covered : ~IsOutput(list[p]) => list[p] \in s.text \cup s.gone

\* It tells a call together with the agent's output, or was made before there was one.
Traced(s) ==
    \A c \in s.text \cup s.gone :
        c.kind = "call" => c \in s.early \/ Output(c, "agent") \in s.text \cup s.gone

\* In a list the agent's output stands directly behind its call.
Tidy(list) ==
    \A p \in 1 .. Len(list) :
        list[p].kind = "call" /\ Output(list[p], "agent") \in Range(list)
            => p < Len(list) /\ list[p + 1] = Output(list[p], "agent")

\* The lists that compressions have read, and the summaries that somebody may use.
Snapshots == {compress[k].list : k \in {j \in Compressors : compress[j].pc = "read"}}
Sums == {Stored} \cup {turn[t].has : t \in Turns} \cup {compress[k].to : k \in Compressors}

\* What is read is a stage of what there is now, and one reading a stage of another.
ListsTold(lists, now) ==
    /\ \A L \in lists : Later(L, now) /\ Tidy(L)
    /\ \A L \in lists : \A M \in lists : Later(L, M) \/ Later(M, L)

\* Of a list that was read before another that the summary was made of, there may be outputs
\* too many before the cut; but then too few messages are left to summarise.
SumTold(s, lists, now) ==
    /\ Fits(s, now) /\ Traced(s)
    /\ \A L \in lists : Fits(s, L) \/ Len(L) <= s.covered + KeepRecent

\* The invariant; once a reader has deleted the output of a stored call, the count of covered
\* messages means nothing.
Told ==
    swept = {} =>
        /\ ListsTold(Snapshots, Reordered(rows))
        /\ \A s \in Sums : SumTold(s, Snapshots, Reordered(rows))

LEMMA FitsLater ==
    ASSUME NEW s \in Summary, NEW a \in Seq(Row), NEW b \in Seq(Row), Fits(s, a), Later(a, b)
    PROVE  Fits(s, b)
<1>1. Len(a) \in Nat /\ Len(b) \in Nat /\ s.covered \in Nat /\ s.covered <= Len(a) /\ Len(a) <= Len(b)
  BY DEF Fits, Later, Summary
<1>2. ASSUME NEW p \in 1 .. s.covered, ~IsOutput(b[p]) PROVE b[p] \in s.text \cup s.gone
  <2>1. p \in 1 .. Len(a)
    BY <1>1
  <2>2. PICK o \in 1 .. p : a[o] = b[p]
    BY <1>2, <2>1 DEF Later
  <2>3. o \in 1 .. s.covered
    BY <1>1, <2>2
  <2> QED BY <1>2, <2>2, <2>3 DEF Fits
<1> QED BY <1>1, <1>2 DEF Fits

LEMMA OrderIsTidy ==
    ASSUME NEW list, RowsOK(list)
    PROVE  Tidy(Reordered(list))
<1> DEFINE s == Reordered(list)
<1>1. list \in Seq(Row)
  BY DEF RowsOK
<1>2. s \in Seq(Row) /\ Laid(list, Len(list), s)
  BY <1>1, ReorderedLaid
<1> HIDE DEF s
<1>3. ASSUME NEW p \in 1 .. Len(s), s[p].kind = "call", Output(s[p], "agent") \in Range(s)
      PROVE  p < Len(s) /\ s[p + 1] = Output(s[p], "agent")
  <2> DEFINE c == s[p]
  <2> DEFINE o == Output(c, "agent")
  <2>1. c \in Row /\ c = CallOf(c)
    BY <1>2, <1>3 DEF Laid, IsOutput, RowsOK
  <2>2. IsOutput(o) /\ CallOf(o) = c
    BY <2>1, OutputsAre DEF Writers
  <2>3. PICK q \in 1 .. Len(s) : s[q] = o
    BY <1>2, <1>3 DEF Range
  <2> HIDE DEF o
  <2>4. Answered(list, c) /\ o = LastOutput(list, c)
    BY <1>2, <2>2, <2>3 DEF Laid
  <2>5. p < Len(s) /\ s[p + 1] = LastOutput(list, c)
    BY <1>2, <1>3, <2>4 DEF Laid
  <2> QED BY <2>4, <2>5 DEF o
<1> QED BY <1>3 DEF Tidy, s

LEMMA NoSummaryTold ==
    ASSUME NEW list \in Seq(Row)
    PROVE  Fits(NoSummary, list) /\ Traced(NoSummary)
BY DEF NoSummary, Fits, Traced

\* What a compression makes of its list.
LEMMA MadeTold ==
    ASSUME Written, Told, swept = {}, NEW k \in Compressors, compress[k].pc = "read", Cut(k) # 0
    PROVE  SumTold(Made(k), Snapshots, Reordered(rows))
<1> DEFINE M == compress[k].list
<1> DEFINE s == Made(k)
<1> DEFINE old == Stored
<1> DEFINE cut == Cut(k)
<1> DEFINE now == Reordered(rows)
<1>1. /\ s \in Summary
      /\ cut \in Nat /\ old.covered \in Nat /\ Len(M) \in Nat
      /\ old.covered + cut < Len(M)
      /\ Len(M) <= old.covered + cut + KeepRecent
      /\ old.covered + KeepRecent < Len(M)
      /\ ~IsOutput(M[old.covered + cut + 1])
      /\ s.covered = old.covered + cut
      /\ s.gone = old.gone
      /\ old.text \subseteq s.text /\ old.early \subseteq s.early
  BY MadeIs
<1>2. /\ \A p \in old.covered + 1 .. old.covered + cut : M[p] \in s.text
      /\ \A c \in s.text : \/ c \in old.text
             \/ \E p \in old.covered + 1 .. old.covered + cut : M[p] = c
      /\ \A p \in old.covered + 1 .. old.covered + cut :
            M[p].kind = "call" => \/ M[p] \in s.early
                                  \/ Output(M[p], "agent") \in Range(M)
  BY MadeIs
<1>3. /\ M \in Snapshots /\ M \in Seq(Row) /\ old \in Sums /\ now \in Seq(Row)
      /\ \A L \in Snapshots : L \in Seq(Row)
  BY CompressIs, ReorderedLaid DEF Snapshots, Sums, Written, RowsOK
<1>4. /\ ListsTold(Snapshots, now) /\ SumTold(old, Snapshots, now) /\ KeepRecent \in Nat
  BY <1>3, HistoryAssumption DEF Told
<1> HIDE DEF M, s, old, cut, now
<1>5. Fits(old, M)
  <2>1. ~(Len(M) <= old.covered + KeepRecent)
    BY <1>1, <1>4
  <2> QED BY <1>3, <1>4, <2>1 DEF SumTold
<1>6. Fits(s, M)
  <2>1. ASSUME NEW p \in 1 .. s.covered, ~IsOutput(M[p]) PROVE M[p] \in s.text \cup s.gone
    <3>1. CASE p <= old.covered
      <4>1. p \in 1 .. old.covered
        BY <1>1, <3>1
      <4> QED BY <1>1, <1>5, <2>1, <4>1 DEF Fits
    <3>2. CASE p > old.covered
      <4>1. p \in old.covered + 1 .. old.covered + cut
        BY <1>1, <3>2
      <4> QED BY <1>2, <4>1
    <3> QED BY <1>1, <3>1, <3>2
  <2>2. s.covered <= Len(M)
    BY <1>1
  <2> QED BY <2>1, <2>2 DEF Fits
<1>7. Traced(s)
  <2> SUFFICES ASSUME NEW c \in s.text \cup s.gone, c.kind = "call", c \notin s.early
               PROVE  Output(c, "agent") \in s.text \cup s.gone
    BY DEF Traced
  <2>1. CASE c \in old.text \cup old.gone
    BY <1>1, <1>4, <2>1 DEF SumTold, Traced
  <2>2. CASE c \notin old.text \cup old.gone
    <3>1. PICK p \in old.covered + 1 .. old.covered + cut : M[p] = c
      BY <1>1, <1>2, <2>2
    <3>2. Output(c, "agent") \in Range(M)
      BY <1>2, <3>1
    <3>3. p \in 1 .. Len(M) /\ p \in Nat
      BY <1>1, <3>1
    <3>4. M[p + 1] = Output(c, "agent")
      BY <1>3, <1>4, <3>1, <3>2, <3>3 DEF ListsTold, Tidy
    <3>5. c \in Row
      BY <1>3, <3>1, <3>3
    <3>6. IsOutput(M[p + 1])
      BY <3>4, <3>5, OutputsAre DEF Writers
    <3>7. p # old.covered + cut
      BY <1>1, <3>6
    <3>8. p + 1 \in old.covered + 1 .. old.covered + cut
      BY <1>1, <3>1, <3>7
    <3> QED BY <1>2, <3>4, <3>8
  <2> QED BY <2>1, <2>2
<1>8. Fits(s, now)
  BY <1>1, <1>3, <1>4, <1>6, FitsLater DEF ListsTold
<1>9. ASSUME NEW L \in Snapshots PROVE Fits(s, L) \/ Len(L) <= s.covered + KeepRecent
  <2>0. L \in Seq(Row) /\ Len(L) \in Nat
    BY <1>3
  <2>1. CASE Later(M, L)
    BY <1>1, <1>3, <1>6, <2>0, <2>1, FitsLater
  <2>2. CASE Later(L, M)
    <3>1. Len(L) <= Len(M)
      BY <2>2 DEF Later
    <3> QED BY <1>1, <1>4, <2>0, <3>1
  <2> QED BY <1>3, <1>4, <2>1, <2>2 DEF ListsTold
<1> QED BY <1>7, <1>8, <1>9 DEF SumTold, s, now

\* Two summaries that cover and tell the same.
Same(s, o) == s.covered = o.covered /\ s.text \cup s.gone = o.text \cup o.gone /\ s.early = o.early

LEMMA SameTold ==
    ASSUME NEW s, NEW o, Same(s, o), NEW lists, NEW now, SumTold(o, lists, now)
    PROVE  SumTold(s, lists, now)
BY DEF Same, SumTold, Fits, Traced

\* What summaries there are after a step.
LEMMA SumsStep ==
    ASSUME Written, [Next]_vars
    PROVE  \A s \in Sums' :
              \/ \E o \in Sums \cup {NoSummary} : Same(s, o)
              \/ \E k \in Compressors : compress[k].pc = "read" /\ Cut(k) # 0 /\ s = Made(k)
<1>0. /\ turn \in [Turns -> TurnState] /\ compress \in [Compressors -> CompressState]
      /\ \A t \in Turns : turn[t] \in TurnState
      /\ \A k \in Compressors : compress[k] \in CompressState
  BY DEF Written, RestOK, CompressState
<1>1. \A s : Same(s, s)
  BY DEF Same
<1>2. Sums' = {Stored'} \cup {turn'[t].has : t \in Turns} \cup {compress'[k].to : k \in Compressors}
  BY DEF Sums
<1>3. Rest.to = NoSummary /\ [Rest EXCEPT !.pc = "done"].to = NoSummary
  BY DEF Rest
<1>4. CASE UNCHANGED <<summary, turn, compress>>
  <2>1. Sums' = Sums
    BY <1>4 DEF Sums, Stored
  <2> QED BY <1>1, <2>1
<1>5. ASSUME NEW t \in Turns, NEW w, turn' = [turn EXCEPT ![t] = w],
             w.has \in {turn[t].has, Stored, NoSummary}, UNCHANGED <<summary, compress>>
      PROVE  \A s \in Sums' : s \in Sums \cup {NoSummary}
  <2>1. Stored' = Stored /\ compress' = compress
    BY <1>5 DEF Stored
  <2>2. \A u \in Turns : turn'[u].has \in {turn[u].has, Stored, NoSummary}
    BY <1>0, <1>5
  <2> QED BY <1>2, <2>1, <2>2 DEF Sums
<1>6. ASSUME NEW t \in Turns, Begin(t) PROVE \A s \in Sums' : s \in Sums \cup {NoSummary}
  <2> DEFINE w == [turn[t] EXCEPT !.pc = "created", !.has = Stored]
  <2>1. /\ turn[t] \in TurnState /\ turn \in [Turns -> TurnState] /\ Stored \in Summary
    BY TurnIs, StoredIs
  <2>2. turn' = [turn EXCEPT ![t] = w]
    BY <1>6, <2>1 DEF Begin, TurnState
  <2>3. w.has = Stored
    BY <2>1 DEF TurnState
  <2> HIDE DEF w
  <2> QED BY <1>5, <1>6, <2>2, <2>3 DEF Begin
<1>7. ASSUME NEW t \in Turns,
             Repair(t) \/ Start(t) \/ Stream(t) \/ StoreCall(t) \/ Result(t) \/ Interrupt(t)
             \/ Leave(t)
      PROVE  \A s \in Sums' : s \in Sums \cup {NoSummary}
  <2>1. UNCHANGED <<summary, compress>>
    BY <1>7 DEF Repair, Start, Stream, StoreCall, Result, Interrupt, Leave
  <2> USE <1>0 DEF TurnState
  <2>2. ASSUME Repair(t) PROVE \A u \in Turns : turn'[u].has = turn[u].has
    BY <2>2 DEF Repair
  <2>3. ASSUME Start(t) \/ Stream(t) PROVE \A u \in Turns : turn'[u].has = turn[u].has
    BY <2>3 DEF Start, Stream
  <2>4. ASSUME StoreCall(t) \/ Result(t) PROVE \A u \in Turns : turn'[u].has = turn[u].has
    BY <2>4 DEF StoreCall, Result
  <2>5. ASSUME Interrupt(t) PROVE \A u \in Turns : turn'[u].has = turn[u].has
    <3>1. PICK waiting : turn' = [turn EXCEPT ![t].pc = "stopping", ![t].todo = waiting,
                                              ![t].blind = turn[t].agent = "streamed"]
      BY <2>5 DEF Interrupt
    <3> QED BY <3>1
  <2>8. ASSUME Leave(t) PROVE \A u \in Turns : turn'[u].has = turn[u].has
    BY <2>8 DEF Leave
  <2>6. \A u \in Turns : turn'[u].has = turn[u].has
    BY <1>7, <2>2, <2>3, <2>4, <2>5, <2>8
  <2>7. Stored' = Stored /\ compress' = compress
    BY <2>1 DEF Stored
  <2> QED BY <1>2, <2>6, <2>7 DEF Sums
<1>8. ASSUME NEW t \in Turns, Answer(t) \/ Stop(t) \/ LoopCloses(t) \/ Crash(t)
      PROVE  \A s \in Sums' : s \in Sums \cup {NoSummary}
  <2>1. /\ Ended(t).has = NoSummary
        /\ [Ended(t) EXCEPT !.agent = turn[t].agent, !.calls = turn[t].calls].has = NoSummary
    BY DEF Ended, Idle
  <2>2. [turn[t] EXCEPT !.agent = "idle"].has = turn[t].has
    BY <1>0 DEF TurnState
  <2>3. UNCHANGED <<summary, compress>>
    BY <1>8 DEF Answer, Stop, LoopCloses, Crash
  <2> QED BY <1>5, <1>8, <2>1, <2>2, <2>3 DEF Answer, Stop, LoopCloses, Crash
<1>9. ASSUME NEW t \in Turns, NEW c \in turn[t].todo, Fill(t, c)
      PROVE  \A s \in Sums' : s \in Sums \cup {NoSummary}
  <2>1. \A u \in Turns : turn'[u].has = turn[u].has
    BY <1>0, <1>9 DEF Fill, TurnState
  <2>2. Stored' = Stored /\ compress' = compress
    BY <1>9 DEF Fill, Stored
  <2> QED BY <1>2, <2>1, <2>2 DEF Sums
<1>10. CASE Browse \/ UNCHANGED vars \/ \E r \in doomed : Delete(r)
  BY <1>4, <1>10 DEF Browse, vars, Delete
<1>11. CASE Expire
  <2>1. Stored' \in {Stored, NoSummary} /\ turn' = turn /\ compress' = compress
    BY <1>11 DEF Expire, Stored
  <2>2. \A s \in Sums' : s \in Sums \cup {NoSummary}
    BY <1>2, <2>1 DEF Sums
  <2> QED BY <1>1, <2>2
<1>12. ASSUME NEW k \in Compressors, NEW w, compress' = [compress EXCEPT ![k] = w], turn' = turn
       PROVE  /\ Sums' \subseteq Sums \cup {Stored', w.to}
              /\ compress[k].to \in Sums
  BY <1>0, <1>2, <1>12 DEF Sums
<1>13. ASSUME NEW k \in Compressors, ReadRows(k) PROVE \A s \in Sums' : s \in Sums \cup {NoSummary}
  <2> DEFINE w == [compress[k] EXCEPT !.pc = "read", !.list = Reordered(rows)]
  <2>1. compress' = [compress EXCEPT ![k] = w] /\ w.to = compress[k].to
    BY <1>0, <1>13 DEF ReadRows, CompressState
  <2>2. Stored' = Stored /\ turn' = turn /\ Stored \in Sums
    BY <1>13 DEF ReadRows, Stored, Sums
  <2> HIDE DEF w
  <2> QED BY <1>12, <2>1, <2>2
<1>14. ASSUME NEW k \in Compressors, ReadSummary(k)
       PROVE  \A s \in Sums' : s \in Sums \cup {NoSummary} \/ (Cut(k) # 0 /\ s = Made(k))
  <2> DEFINE w == IF Cut(k) = 0 THEN [Rest EXCEPT !.pc = "done"]
                  ELSE [Rest EXCEPT !.pc = "asking", !.to = Made(k)]
  <2>1. compress' = [compress EXCEPT ![k] = w] /\ turn' = turn /\ summary' = summary
    BY <1>14, ReadSummaryIs
  <2>2. w.to = NoSummary \/ (Cut(k) # 0 /\ w.to = Made(k))
    BY <1>3 DEF Rest
  <2>3. Stored' = Stored /\ Stored \in Sums
    BY <2>1 DEF Stored, Sums
  <2> HIDE DEF w
  <2> QED BY <1>12, <2>1, <2>2, <2>3
<1>15. ASSUME NEW k \in Compressors, Save(k) PROVE \A s \in Sums' : s \in Sums \cup {NoSummary}
  <2>1. compress' = [compress EXCEPT ![k] = [Rest EXCEPT !.pc = "done"]] /\ turn' = turn
    BY <1>15 DEF Save
  <2>2. Stored' \in {compress[k].to, NoSummary}
    BY <1>15 DEF Save, Stored
  <2>3. Sums' \subseteq Sums \cup {Stored', NoSummary} /\ compress[k].to \in Sums
    BY <1>3, <1>12, <2>1
  <2> QED BY <2>2, <2>3
<1>16. ASSUME NEW k \in Compressors, SaveStub(k)
       PROVE  \A s \in Sums' : \E o \in Sums \cup {NoSummary} : Same(s, o)
  <2> DEFINE to == compress[k].to
  <2> DEFINE stub == [to EXCEPT !.text = {}, !.gone = @ \cup to.text]
  <2>1. compress' = [compress EXCEPT ![k] = [Rest EXCEPT !.pc = "done"]] /\ turn' = turn
    BY <1>16 DEF SaveStub
  <2>2. Stored' \in {stub, NoSummary}
    BY <1>16 DEF SaveStub, Stored
  <2>3. Sums' \subseteq Sums \cup {Stored', NoSummary} /\ to \in Sums
    BY <1>3, <1>12, <2>1
  <2>4. to \in Summary
    BY CompressIs
  <2> HIDE DEF to
  <2>5. Same(stub, to)
    BY <2>4 DEF Same, Summary
  <2> HIDE DEF stub
  <2> QED BY <1>1, <2>2, <2>3, <2>5
<1>17. ASSUME NEW k \in Compressors, GiveUp(k) PROVE \A s \in Sums' : s \in Sums \cup {NoSummary}
  <2>1. compress' = [compress EXCEPT ![k] = [Rest EXCEPT !.pc = "done"]] /\ turn' = turn /\ Stored' = Stored
    BY <1>17 DEF GiveUp, Stored
  <2>2. Sums' \subseteq Sums \cup {Stored', NoSummary} /\ Stored \in Sums
    BY <1>3, <1>12, <2>1 DEF Sums
  <2> QED BY <2>1, <2>2
<1>18. CASE \A s \in Sums' : s \in Sums \cup {NoSummary}
  BY <1>1, <1>18
<1>19. ASSUME NEW k \in Compressors, ReadSummary(k)
       PROVE  \A s \in Sums' :
                 \/ \E o \in Sums \cup {NoSummary} : Same(s, o)
                 \/ compress[k].pc = "read" /\ Cut(k) # 0 /\ s = Made(k)
  BY <1>1, <1>14, <1>19, ReadSummaryIs
<1>20. CASE \E t \in Turns : Begin(t) \/ Repair(t) \/ Start(t) \/ Stream(t) \/ StoreCall(t) \/ Result(t)
                             \/ Answer(t) \/ Interrupt(t) \/ Stop(t) \/ Leave(t) \/ LoopCloses(t) \/ Crash(t)
  BY <1>6, <1>7, <1>8, <1>18, <1>20
<1>21. CASE \E t \in Turns : \E c \in turn[t].todo : Fill(t, c)
  BY <1>9, <1>18, <1>21
<1>22. CASE \E k \in Compressors : ReadRows(k) \/ ReadSummary(k) \/ Save(k) \/ SaveStub(k) \/ GiveUp(k)
  BY <1>13, <1>15, <1>16, <1>17, <1>18, <1>19, <1>22
<1> QED BY <1>10, <1>11, <1>20, <1>21, <1>22 DEF Next

\* What lists the compressions hold after a step.
LEMMA SnapshotsStep ==
    ASSUME Written, [Next]_vars
    PROVE  \A L \in Snapshots' : L \in Snapshots \/ L = Reordered(rows)
<1>0. compress \in [Compressors -> CompressState] /\ \A k \in Compressors : compress[k] \in CompressState
  BY DEF Written, RestOK, CompressState
<1>1. Snapshots' = {compress'[k].list : k \in {j \in Compressors : compress'[j].pc = "read"}}
  BY DEF Snapshots
<1>2. CASE UNCHANGED compress
  BY <1>2 DEF Snapshots
<1>3. ASSUME NEW k \in Compressors, NEW w, compress' = [compress EXCEPT ![k] = w],
             w.pc = "read" => w.list = Reordered(rows)
      PROVE  \A L \in Snapshots' : L \in Snapshots \/ L = Reordered(rows)
  BY <1>0, <1>1, <1>3 DEF Snapshots
<1>4. [Rest EXCEPT !.pc = "done"].pc # "read" /\ \A s : [Rest EXCEPT !.pc = "asking", !.to = s].pc # "read"
  BY DEF Rest
<1>5. ASSUME NEW k \in Compressors, ReadRows(k) PROVE \A L \in Snapshots' : L \in Snapshots \/ L = Reordered(rows)
  <2> DEFINE w == [compress[k] EXCEPT !.pc = "read", !.list = Reordered(rows)]
  <2>1. compress' = [compress EXCEPT ![k] = w] /\ w.list = Reordered(rows)
    BY <1>0, <1>5 DEF ReadRows, CompressState
  <2> HIDE DEF w
  <2> QED BY <1>3, <2>1
<1>6. ASSUME NEW k \in Compressors, ReadSummary(k) PROVE \A L \in Snapshots' : L \in Snapshots \/ L = Reordered(rows)
  <2> DEFINE w == IF Cut(k) = 0 THEN [Rest EXCEPT !.pc = "done"]
                  ELSE [Rest EXCEPT !.pc = "asking", !.to = Made(k)]
  <2>1. compress' = [compress EXCEPT ![k] = w]
    BY <1>6, ReadSummaryIs
  <2>2. w.pc # "read"
    BY <1>4
  <2> HIDE DEF w
  <2> QED BY <1>3, <2>1, <2>2
<1>7. ASSUME NEW k \in Compressors, Save(k) \/ SaveStub(k) \/ GiveUp(k)
      PROVE  \A L \in Snapshots' : L \in Snapshots \/ L = Reordered(rows)
  BY <1>3, <1>4, <1>7 DEF Save, SaveStub, GiveUp
<1>8. ASSUME NEW t \in Turns,
             Begin(t) \/ Repair(t) \/ Start(t) \/ Stream(t) \/ StoreCall(t) \/ Result(t)
             \/ Answer(t) \/ Interrupt(t) \/ Stop(t) \/ Leave(t) \/ LoopCloses(t) \/ Crash(t)
      PROVE  UNCHANGED compress
  BY <1>8 DEF Begin, Repair, Start, Stream, StoreCall, Result, Answer, Interrupt, Stop,
         Leave, LoopCloses, Crash
<1>9. ASSUME NEW t \in Turns, NEW c \in turn[t].todo, Fill(t, c) PROVE UNCHANGED compress
  BY <1>9 DEF Fill
<1>10. CASE Browse \/ Expire \/ UNCHANGED vars \/ \E r \in doomed : Delete(r)
  BY <1>2, <1>10 DEF Browse, Expire, vars, Delete
<1> QED BY <1>2, <1>5, <1>6, <1>7, <1>8, <1>9, <1>10 DEF Next

\* What is told of a list is told of what the list grows to.
LEMMA ToldLater ==
    ASSUME NEW s \in Summary, NEW now \in Seq(Row), NEW next \in Seq(Row), Later(now, next),
           NEW old \in SUBSET Seq(Row), NEW new \in SUBSET (old \cup {now}), SumTold(s, old, now)
    PROVE  SumTold(s, new, next)
<1>1. Fits(s, next)
  BY FitsLater DEF SumTold
<1>2. \A L \in new : Fits(s, L) \/ Len(L) <= s.covered + KeepRecent
  BY DEF SumTold
<1> QED BY <1>1, <1>2 DEF SumTold

LEMMA ListsLater ==
    ASSUME NEW now \in Seq(Row), NEW next \in Seq(Row), Later(now, next), Tidy(now),
           NEW old \in SUBSET Seq(Row), NEW new \in SUBSET (old \cup {now}), ListsTold(old, now)
    PROVE  ListsTold(new, next)
<1>1. \A L \in new : Later(L, now) /\ Tidy(L) /\ L \in Seq(Row)
  BY LaterSelf DEF ListsTold
<1>2. \A L \in new : Later(L, next)
  BY <1>1, LaterOn
<1>3. \A L \in new : \A M \in new : Later(L, M) \/ Later(M, L)
  BY <1>1 DEF ListsTold
<1> QED BY <1>1, <1>2, <1>3 DEF ListsTold

LEMMA SumsTyped == Written => \A s \in Sums : s \in Summary
<1> SUFFICES ASSUME Written, NEW s \in Sums PROVE s \in Summary
  OBVIOUS
<1>1. Stored \in Summary
  BY StoredIs
<1>2. \A t \in Turns : turn[t].has \in Summary
  BY TurnIs DEF TurnState
<1>3. \A k \in Compressors : compress[k].to \in Summary
  BY CompressIs
<1> QED BY <1>1, <1>2, <1>3 DEF Sums

LEMMA NextTold == ASSUME Written, Told, [Next]_vars PROVE Told'
<1> SUFFICES ASSUME swept' = {}
             PROVE  /\ ListsTold(Snapshots', Reordered(rows'))
                    /\ \A s \in Sums' : SumTold(s, Snapshots', Reordered(rows'))
  BY DEF Told
<1>1. swept = {}
  <2>1. swept \subseteq swept'
    BY ReadSummaryIs DEF Next, vars, Begin, Repair, Start, Stream, StoreCall, Result, Answer, Interrupt,
       Stop, Leave, LoopCloses, Crash, Fill, Browse, Expire, Delete, ReadRows, Save, SaveStub, GiveUp
  <2> QED BY <2>1
<1> DEFINE now == Reordered(rows)
<1> DEFINE next == Reordered(rows')
<1> DEFINE old == Snapshots
<1> DEFINE new == Snapshots'
<1>2. now \in Seq(Row) /\ Tidy(now)
  BY ReorderedLaid, OrderIsTidy DEF Written, RowsOK
<1>3. Written'
  BY NextWrites
<1>4. next \in Seq(Row)
  BY <1>3, ReorderedLaid DEF Written, RowsOK
<1>5. Later(now, next)
  BY OrderGrows
<1>6. old \in SUBSET Seq(Row) /\ new \in SUBSET (old \cup {now})
  BY CompressIs, SnapshotsStep DEF Snapshots
<1>7. ListsTold(old, now) /\ \A s \in Sums : SumTold(s, old, now)
  BY <1>1 DEF Told
<1>8. \A s \in Sums' : \/ \E o \in Sums \cup {NoSummary} : Same(s, o)
                       \/ \E k \in Compressors : compress[k].pc = "read" /\ Cut(k) # 0 /\ s = Made(k)
  BY SumsStep
<1>9. \A k \in Compressors : compress[k].pc = "read" /\ Cut(k) # 0 => SumTold(Made(k), old, now)
  BY <1>1, MadeTold
<1>10. SumTold(NoSummary, old, now)
  BY <1>2, <1>6, NoSummaryTold DEF SumTold
<1>11. \A s \in Sums' : s \in Summary
  <2>1. (\A s \in Sums : s \in Summary)'
    BY <1>3, SumsTyped, PTL
  <2> QED BY <2>1
<1> HIDE DEF now, next, old, new
<1>12. ASSUME NEW s \in Sums' PROVE SumTold(s, old, now)
  BY <1>7, <1>8, <1>9, <1>10, SameTold
<1> QED BY <1>2, <1>4, <1>5, <1>6, <1>7, <1>11, <1>12, ToldLater, ListsLater DEF now, next, old, new

LEMMA ToldTells ==
    ASSUME NEW list, RowsOK(list), NEW s \in Summary, Fits(s, Reordered(list)), Traced(s)
    PROVE  Tells(s, Reordered(list))
<1> DEFINE o == Reordered(list)
<1> DEFINE m == Memory(o, s.covered)
<1>1. list \in Seq(Row) /\ s.covered \in Nat
  BY DEF RowsOK, Summary
<1>2. o \in Seq(Row) /\ Laid(list, Len(list), o)
  BY <1>1, ReorderedLaid
<1> HIDE DEF o
<1>3. PICK k \in 0 .. Len(o) :
        /\ m \in Seq(Row) /\ Len(m) = Len(o) - k
        /\ \A i \in 1 .. Len(o) - k : m[i] = o[k + i]
        /\ k # 0 => s.covered <= k /\ \A j \in s.covered .. k - 1 : IsOutput(o[j + 1])
  BY <1>1, <1>2, MemoryIs
<1> HIDE DEF m
<1>4. SUFFICES ASSUME NEW r \in Range(o), r \notin s.text \cup s.gone \cup Range(m)
               PROVE  IsOutput(r) /\ (r.by # "agent" \/ CallOf(r) \in s.early)
  BY DEF Tells, m, o
<1>5. PICK p \in 1 .. Len(o) : o[p] = r
  BY <1>2 DEF Range
<1>6. Len(o) \in Nat /\ k \in Nat /\ p \in Nat
  BY <1>2, <1>3
<1>7. p <= k
  <2> SUFFICES ASSUME p > k PROVE FALSE
    BY <1>6
  <2>1. p - k \in 1 .. Len(o) - k /\ k + (p - k) = p
    BY <1>3, <1>5, <1>6
  <2>2. m[p - k] = r /\ p - k \in DOMAIN m
    BY <1>3, <1>5, <2>1
  <2> QED BY <1>4, <2>2 DEF Range
\* What stands before the cut and is no output is told.
<1>8. ASSUME NEW i \in 1 .. k, ~IsOutput(o[i]) PROVE o[i] \in s.text \cup s.gone
  <2>1. CASE i <= s.covered
    <3>1. i \in 1 .. s.covered
      BY <1>1, <1>6, <2>1
    <3> QED BY <1>8, <3>1 DEF Fits, o
  <2>2. CASE i > s.covered
    <3>1. i - 1 \in s.covered .. k - 1 /\ (i - 1) + 1 = i /\ k # 0
      BY <1>1, <1>6, <2>2
    <3> QED BY <1>3, <1>8, <3>1
  <2> QED BY <1>1, <1>6, <2>1, <2>2
<1>9. IsOutput(r)
  BY <1>4, <1>5, <1>6, <1>7, <1>8
<1>10. ASSUME r.by = "agent" PROVE CallOf(r) \in s.early
  <2>1. p > 1 /\ o[p - 1].kind = "call" /\ o[p - 1] = CallOf(r)
    BY <1>2, <1>5, <1>9 DEF Laid
  <2>2. p - 1 \in 1 .. k
    BY <1>6, <1>7, <2>1
  <2>3. CallOf(r) \in s.text \cup s.gone /\ CallOf(r).kind = "call"
    BY <1>8, <2>1, <2>2 DEF IsOutput
  <2>4. r \in Row
    BY <1>2, <1>5
  <2>5. r = Output(CallOf(r), "agent")
    BY <1>9, <1>10, <2>4, OutputIs
  <2> QED BY <1>4, <2>3, <2>5 DEF Traced
<1> QED BY <1>9, <1>10

LEMMA ToldIs == Written /\ Told => NothingForgotten
<1> SUFFICES ASSUME Written, Told, swept = {},
                    NEW s \in {Stored} \cup {turn[t].has : t \in {u \in Turns : ~Over(u)}}
             PROVE  Tells(s, Reordered(rows))
  BY DEF NothingForgotten
<1>1. s \in Sums
  BY DEF Sums
<1>2. s \in Summary
  BY StoredIs, TurnIs DEF TurnState
<1>3. Fits(s, Reordered(rows)) /\ Traced(s)
  BY <1>1 DEF Told, SumTold
<1> QED BY <1>2, <1>3, ToldTells DEF Written

LEMMA InitTold == Init => Told
<1> SUFFICES ASSUME Init PROVE Told
  OBVIOUS
<1>1. Written
  BY InitWrites
<1>2. Snapshots = {}
  BY DEF Init, Snapshots, Rest
<1>3. \A s \in Sums : s = NoSummary
  BY DEF Init, Sums, Stored, Idle, Rest
<1>4. Reordered(rows) \in Seq(Row)
  BY <1>1, ReorderedLaid DEF Written, RowsOK
<1>5. Fits(NoSummary, Reordered(rows)) /\ Traced(NoSummary)
  BY <1>4, NoSummaryTold
<1> QED BY <1>2, <1>3, <1>5 DEF Told, ListsTold, SumTold

\* NothingForgotten: every stored message is in what the model is given or in what the summary was
\* made of, also when compressions overtake each other and rows are inserted among the covered.
THEOREM NothingIsForgotten == Spec => []NothingForgotten
<1>1. Init => Told
  BY InitTold
<1>2. Written /\ Told /\ [Next]_vars => Told'
  BY NextTold
<1> QED BY <1>1, <1>2, AlwaysWritten, ToldIs, PTL DEF Spec
=============================================================================
