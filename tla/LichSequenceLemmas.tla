-------------------------- MODULE LichSequenceLemmas ---------------------------
(***************************************************************************)
(* What FlattenSeq of the community modules computes, for every sequence   *)
(* of sequences.  The provers do not do inductions, so each one is led     *)
(* back to the least number at which the statement fails.                  *)
(***************************************************************************)
EXTENDS Integers, Sequences, SequencesExt, SequenceTheorems, WellFoundedInduction, TLAPS

(* A set of natural numbers that is not empty has a least element. *)
LEMMA LeastNat ==
    ASSUME NEW T, T \subseteq Nat, T # {}
    PROVE  \E m \in T : \A k \in T : m <= k
<1>. DEFINE R == OpToRel(<, Nat)
<1>1. IsWellFoundedOn(R, Nat)
  BY NatLessThanWellFounded
<1>2. \A x, y \in Nat : y < x => <<y, x>> \in R
  BY DEF OpToRel
<1>. HIDE DEF R
<1>3. PICK m \in T : \A y \in T : ~ (<<y, m>> \in R)
  BY <1>1, WFMin
<1>4. ASSUME NEW k \in T PROVE m <= k
  <2>1. ~ (k < m)
    BY <1>2, <1>3
  <2>. QED
    BY <2>1
<1>. QED
  BY <1>4

(* Induction over 0..N, for the members of a set. *)
LEMMA InductionUpTo ==
    ASSUME NEW N \in Nat, NEW S, 0 \in S,
           \A n \in 0..(N - 1) : n \in S => n + 1 \in S
    PROVE  \A n \in 0..N : n \in S
<1>. DEFINE T == {n \in 0..N : n \notin S}
<1>. SUFFICES ASSUME T # {} PROVE FALSE
  OBVIOUS
<1>1. T \subseteq Nat
  OBVIOUS
<1>2. PICK m \in T : \A k \in T : m <= k
  BY <1>1, LeastNat
<1>3. m \in 0..N /\ m \notin S /\ m # 0
  BY <1>2
<1>4. m - 1 \in 0..(N - 1) /\ m - 1 \notin T
  BY <1>2, <1>3
<1>5. m - 1 \in S
  BY <1>3, <1>4
<1>6. (m - 1) + 1 \in S
  BY <1>4, <1>5
<1>. QED
  BY <1>3, <1>6

(* Two sequences of the same length with the same elements are one. *)
LEMMA SameSeq ==
    ASSUME NEW X, NEW s, NEW t, s \in Seq(X), t \in Seq(X),
           NEW n, Len(s) = n, Len(t) = n, \A i \in 1..n : s[i] = t[i]
    PROVE  s = t
BY SeqEqual

(* r is a followed by b: a name the provers take as it is. *)
Joins(r, a, b) == r = a \o b

(* Concatenation is associative. *)
LEMMA Concat3 ==
    ASSUME NEW X, NEW a \in Seq(X), NEW b \in Seq(X), NEW d \in Seq(X)
    PROVE  (a \o b) \o d = a \o (b \o d)
BY ConcatAssociative

(* An element more at the end of the second of two sequences. *)
AppendsAfter(a, b, e) == a \o Append(b, e) = Append(a \o b, e)

LEMMA ConcatAppend ==
    ASSUME NEW X, NEW a, NEW b, NEW e, a \in Seq(X), b \in Seq(X), e \in X
    PROVE  AppendsAfter(a, b, e)
BY DEF AppendsAfter

Assoc(a, b, d) == (a \o b) \o d = a \o (b \o d)

LEMMA ConcatAssoc ==
    ASSUME NEW X, NEW a, NEW b, NEW d, a \in Seq(X), b \in Seq(X), d \in Seq(X)
    PROVE  Assoc(a, b, d)
BY Concat3 DEF Assoc

LEMMA JoinsAssociative ==
    ASSUME NEW X, NEW a, NEW b, NEW d, a \in Seq(X), b \in Seq(X), d \in Seq(X),
           NEW r, NEW u, NEW v, Joins(u, a, b), Joins(v, b, d), Joins(r, u, d)
    PROVE  Joins(r, a, v)
BY Concat3 DEF Joins

-------------------------------------------------------------------------------
(* f gives the concatenation of the first i of the sequences ss, for i      *)
(* from 1 to n.                                                             *)
Flattens(f, ss, n) ==
    f = [i \in 1..n |-> IF i = 1 THEN ss[i] ELSE f[i - 1] \o ss[i]]

LEMMA FlattensAt ==
    ASSUME NEW f, NEW ss, NEW n \in Nat, Flattens(f, ss, n), NEW i \in 1..n
    PROVE  f[i] = IF i = 1 THEN ss[i] ELSE f[i - 1] \o ss[i]
BY DEF Flattens

LEMMA FlattensStep ==
    ASSUME NEW X, NEW ss \in Seq(Seq(X)), NEW k \in Nat, k + 1 \in 1..Len(ss),
           NEW g \in [1..k -> Seq(X)], Flattens(g, ss, k)
    PROVE  \E f \in [1..(k + 1) -> Seq(X)] : Flattens(f, ss, k + 1)
<1>. DEFINE m == k + 1
            f == [i \in 1..m |-> IF i = m THEN (IF m = 1 THEN ss[m] ELSE g[k] \o ss[m])
                                          ELSE g[i]]
<1>1. \A i \in 1..m : ss[i] \in Seq(X)
  OBVIOUS
<1>2. ASSUME NEW i \in 1..m PROVE f[i] \in Seq(X)
  <2>1. CASE i = m /\ m # 1
    <3>1. g[k] \in Seq(X) /\ ss[m] \in Seq(X)
      BY <1>1, <2>1
    <3>2. g[k] \o ss[m] \in Seq(X)
      BY <3>1, ConcatProperties
    <3>. QED
      BY <2>1, <3>2
  <2>2. CASE i = m /\ m = 1
    BY <1>1, <2>2
  <2>3. CASE i # m
    BY <2>3
  <2>. QED
    BY <2>1, <2>2, <2>3
<1>3. ASSUME NEW i \in 1..m
      PROVE  f[i] = IF i = 1 THEN ss[i] ELSE f[i - 1] \o ss[i]
  <2>1. CASE i = m
    BY <2>1
  <2>2. CASE i # m
    <3>1. i \in 1..k
      BY <2>2
    <3>2. g[i] = IF i = 1 THEN ss[i] ELSE g[i - 1] \o ss[i]
      BY <3>1 DEF Flattens
    <3>3. f[i] = g[i] /\ (i # 1 => i - 1 \in 1..m /\ f[i - 1] = g[i - 1])
      BY <2>2
    <3>. QED
      BY <3>2, <3>3
  <2>. QED
    BY <2>1, <2>2
<1>4. f \in [1..m -> Seq(X)]
  BY <1>2
<1>. HIDE DEF f
<1>5. Flattens(f, ss, m)
  BY <1>3, <1>4 DEF Flattens
<1>. QED
  BY <1>4, <1>5

LEMMA FlattensExists ==
    ASSUME NEW X, NEW ss \in Seq(Seq(X))
    PROVE  \E f \in [1..Len(ss) -> Seq(X)] : Flattens(f, ss, Len(ss))
<1>. DEFINE P(n) == \E f \in [1..n -> Seq(X)] : Flattens(f, ss, n)
            S == {n \in Nat : P(n)}
<1>1. 0 \in S
  <2>. DEFINE f == [i \in 1..0 |-> <<>>]
  <2>1. f \in [1..0 -> Seq(X)] /\ Flattens(f, ss, 0)
    BY DEF Flattens
  <2>. QED
    BY <2>1
<1>2. ASSUME NEW n \in 0..(Len(ss) - 1), n \in S PROVE n + 1 \in S
  <2>1. PICK g \in [1..n -> Seq(X)] : Flattens(g, ss, n)
    BY <1>2
  <2>2. n \in Nat /\ n + 1 \in 1..Len(ss)
    BY <1>2, LenProperties
  <2>3. P(n + 1)
    BY <2>1, <2>2, FlattensStep
  <2>. QED
    BY <2>2, <2>3
<1>3. Len(ss) \in Nat /\ Len(ss) \in 0..Len(ss)
  BY LenProperties
<1>. HIDE DEF S
<1>4. Len(ss) \in S
  BY <1>1, <1>2, <1>3, InductionUpTo
<1>. QED
  BY <1>4 DEF S

LEMMA FlattensUnique ==
    ASSUME NEW ss, NEW tt, NEW n \in Nat, NEW k \in Nat, NEW f, NEW g, n <= k,
           \A i \in 1..n : ss[i] = tt[i],
           Flattens(f, ss, n), Flattens(g, tt, k)
    PROVE  \A i \in 1..n : f[i] = g[i]
<1>. DEFINE S == {i \in Nat : i = 0 \/ f[i] = g[i]}
<1>1. 0 \in S
  OBVIOUS
<1>2. ASSUME NEW i \in 0..(n - 1), i \in S PROVE i + 1 \in S
  <2>1. i + 1 \in 1..n /\ i + 1 \in 1..k
    BY <1>2
  <2>2. f[i + 1] = IF i + 1 = 1 THEN ss[i + 1] ELSE f[i + 1 - 1] \o ss[i + 1]
    BY <2>1, FlattensAt
  <2>3. g[i + 1] = IF i + 1 = 1 THEN tt[i + 1] ELSE g[i + 1 - 1] \o tt[i + 1]
    BY <2>1, FlattensAt
  <2>4. ss[i + 1] = tt[i + 1]
    BY <2>1
  <2>5. i + 1 # 1 => f[i + 1 - 1] = g[i + 1 - 1]
    BY <1>2
  <2>6. f[i + 1] = g[i + 1]
    BY <2>2, <2>3, <2>4, <2>5
  <2>. QED
    BY <2>1, <2>6
<1>. HIDE DEF S
<1>3. \A i \in 0..n : i \in S
  BY <1>1, <1>2, InductionUpTo
<1>. QED
  BY <1>3 DEF S

LEMMA FlattensFirst ==
    ASSUME NEW f, NEW ss, NEW n, Flattens(f, ss, n), n = 1
    PROVE  f[n] = ss[n]
BY DEF Flattens

LEMMA FlattensNext ==
    ASSUME NEW f, NEW ss, NEW n \in Nat, Flattens(f, ss, n), NEW j \in Nat, j # 0, n = j + 1
    PROVE  Joins(f[n], f[j], ss[n])
<1>1. n \in 1..n /\ n # 1 /\ j = n - 1
  OBVIOUS
<1>2. \A i \in 1..n : i # 1 => Joins(f[i], f[i - 1], ss[i])
  BY DEF Flattens, Joins
<1>3. Joins(f[n], f[n - 1], ss[n])
  BY <1>1, <1>2
<1>. QED
  BY <1>1, <1>3

LEMMA FlattensLast ==
    ASSUME NEW f, NEW ss, NEW k \in Nat, NEW g, NEW tt, NEW n \in Nat, k # 0, n = k + 1,
           \A i \in 1..k : ss[i] = tt[i],
           Flattens(f, ss, k), Flattens(g, tt, n)
    PROVE  Joins(g[n], f[k], tt[n])
<1>0. k <= n
  OBVIOUS
<1>1. \A i \in 1..k : f[i] = g[i]
  BY FlattensUnique
<1>2. f[k] = g[k]
  BY <1>1
<1>3. Joins(g[n], g[k], tt[n])
  BY FlattensNext
<1>. QED
  BY <1>2, <1>3

(* The defining equation of FlattenSeq. *)
LEMMA FlattenIs ==
    ASSUME NEW X, NEW ss \in Seq(Seq(X)), NEW n \in Nat, n = Len(ss), n # 0
    PROVE  \E f \in [1..n -> Seq(X)] : Flattens(f, ss, n) /\ FlattenSeq(ss) = f[n]
<1>. DEFINE F == CHOOSE f : Flattens(f, ss, n)
<1>1. PICK f \in [1..n -> Seq(X)] : Flattens(f, ss, n)
  BY FlattensExists
<1>2. Flattens(F, ss, n)
  BY <1>1
<1>3. FlattenSeq(ss) = F[n]
  BY DEF FlattenSeq, Flattens
<1>. HIDE DEF F
<1>4. \A i \in 1..n : F[i] = f[i]
  BY <1>1, <1>2, FlattensUnique
<1>5. F[n] = f[n]
  BY <1>4
<1>. QED
  BY <1>1, <1>3, <1>5

-------------------------------------------------------------------------------
LEMMA FlattenEmpty == FlattenSeq(<<>>) = <<>>
BY DEF FlattenSeq

LEMMA FlattenType ==
    ASSUME NEW X, NEW ss \in Seq(Seq(X))
    PROVE  FlattenSeq(ss) \in Seq(X)
<1>1. CASE ss = <<>>
  BY <1>1, FlattenEmpty, EmptySeq
<1>2. CASE ss # <<>>
  <2>1. Len(ss) \in Nat /\ Len(ss) # 0
    BY <1>2, EmptySeq
  <2>2. PICK f \in [1..Len(ss) -> Seq(X)] : FlattenSeq(ss) = f[Len(ss)]
    BY <2>1, FlattenIs
  <2>3. Len(ss) \in 1..Len(ss)
    BY <2>1
  <2>4. f[Len(ss)] \in Seq(X)
    BY <2>2, <2>3
  <2>. QED
    BY <2>2, <2>4
<1>. QED
  BY <1>1, <1>2

LEMMA FlattenAppend ==
    ASSUME NEW X, NEW ss \in Seq(Seq(X)), NEW s \in Seq(X)
    PROVE  FlattenSeq(Append(ss, s)) = FlattenSeq(ss) \o s
<1>. DEFINE tt == Append(ss, s)
<1>1. PICK k \in Nat : k = Len(ss)
  BY LenProperties
<1>2. PICK n \in Nat : n = k + 1
  OBVIOUS
<1>3. /\ tt \in Seq(Seq(X)) /\ Len(tt) = n
      /\ tt[n] = s /\ \A i \in 1..k : ss[i] = tt[i]
  BY <1>1, <1>2, AppendProperties
<1>. HIDE DEF tt
<1>4. PICK g \in [1..n -> Seq(X)] : Flattens(g, tt, n) /\ FlattenSeq(tt) = g[n]
  BY <1>2, <1>3, FlattenIs
<1>5. n \in 1..n /\ n - 1 = k /\ k <= n /\ (n = 1 <=> k = 0)
  BY <1>2
<1>6. n = 1 => g[n] = tt[n]
  BY <1>4, <1>5, FlattensFirst
<1>7. CASE k = 0
  <2>1. ss = <<>>
    BY <1>1, <1>7, EmptySeq
  <2>2. <<>> \o s = s
    BY ConcatEmptySeq
  <2>3. FlattenSeq(tt) = s
    BY <1>3, <1>4, <1>5, <1>6, <1>7
  <2>. QED
    BY <2>1, <2>2, <2>3, FlattenEmpty DEF tt
<1>8. CASE k # 0
  <2>1. PICK f \in [1..k -> Seq(X)] : Flattens(f, ss, k) /\ FlattenSeq(ss) = f[k]
    BY <1>1, <1>8, FlattenIs
  <2>2. Joins(g[n], f[k], tt[n])
    BY <1>2, <1>3, <1>4, <1>8, <2>1, FlattensLast
  <2>4. FlattenSeq(tt) = f[k] \o s
    BY <1>3, <1>4, <2>2 DEF Joins
  <2>. QED
    BY <2>1, <2>4 DEF tt
<1>. QED
  BY <1>7, <1>8

(* Flattening ss followed by the first n of tt. *)
FlattensApart(ss, tt, n) ==
    FlattenSeq(ss \o SubSeq(tt, 1, n)) = FlattenSeq(ss) \o FlattenSeq(SubSeq(tt, 1, n))

LEMMA FlattensApartZero ==
    ASSUME NEW X, NEW ss \in Seq(Seq(X)), NEW tt \in Seq(Seq(X))
    PROVE  FlattensApart(ss, tt, 0)
<1>1. SubSeq(tt, 1, 0) = <<>>
  BY SubSeqEmpty
<1>2. ss \o <<>> = ss
  BY ConcatEmptySeq
<1>3. FlattenSeq(ss) \o <<>> = FlattenSeq(ss)
  BY FlattenType, ConcatEmptySeq
<1>. QED
  BY <1>1, <1>2, <1>3, FlattenEmpty DEF FlattensApart

LEMMA FlattensApartStep ==
    ASSUME NEW X, NEW ss \in Seq(Seq(X)), NEW tt \in Seq(Seq(X)), NEW m \in 1..Len(tt),
           FlattensApart(ss, tt, m - 1)
    PROVE  FlattensApart(ss, tt, m)
<1>. DEFINE V == SubSeq(tt, 1, m - 1)
            W == SubSeq(tt, 1, m)
<1>1. V \in Seq(Seq(X)) /\ tt[m] \in Seq(X)
  OBVIOUS
<1>2. W = Append(V, tt[m])
  BY SubSeqRecursiveSecond
<1>3. Joins(FlattenSeq(ss \o V), FlattenSeq(ss), FlattenSeq(V))
  BY DEF FlattensApart, Joins
<1>. SUFFICES Joins(FlattenSeq(ss \o W), FlattenSeq(ss), FlattenSeq(W))
  BY DEF FlattensApart, Joins
<1>. HIDE DEF V, W
<1>4. ss \o Append(V, tt[m]) = Append(ss \o V, tt[m]) /\ ss \o V \in Seq(Seq(X))
  BY <1>1, SMTT(30)
<1>5. Joins(FlattenSeq(ss \o W), FlattenSeq(ss \o V), tt[m])
  BY <1>1, <1>2, <1>4, FlattenAppend DEF Joins
<1>6. Joins(FlattenSeq(W), FlattenSeq(V), tt[m])
  BY <1>1, <1>2, FlattenAppend DEF Joins
<1>7. FlattenSeq(ss) \in Seq(X) /\ FlattenSeq(V) \in Seq(X)
  BY <1>1, FlattenType
<1>. QED
  BY <1>1, <1>3, <1>5, <1>6, <1>7, JoinsAssociative

LEMMA FlattenConcat ==
    ASSUME NEW X, NEW ss \in Seq(Seq(X)), NEW tt \in Seq(Seq(X))
    PROVE  FlattenSeq(ss \o tt) = FlattenSeq(ss) \o FlattenSeq(tt)
<1>1. \A n \in 0..Len(tt) : FlattensApart(ss, tt, n)
  <2>. DEFINE S == {n \in Nat : FlattensApart(ss, tt, n)}
  <2>1. 0 \in S
    BY FlattensApartZero
  <2>2. ASSUME NEW n \in 0..(Len(tt) - 1), n \in S PROVE n + 1 \in S
    <3>1. n + 1 \in 1..Len(tt) /\ (n + 1) - 1 = n
      BY <2>2, LenProperties
    <3>2. FlattensApart(ss, tt, (n + 1) - 1)
      BY <2>2, <3>1
    <3>3. FlattensApart(ss, tt, n + 1)
      BY <3>1, <3>2, FlattensApartStep
    <3>. QED
      BY <2>2, <3>3
  <2>3. Len(tt) \in Nat
    BY LenProperties
  <2>. HIDE DEF S
  <2>4. \A n \in 0..Len(tt) : n \in S
    BY <2>1, <2>2, <2>3, InductionUpTo
  <2>. QED
    BY <2>4 DEF S
<1>2. SubSeq(tt, 1, Len(tt)) = tt /\ Len(tt) \in 0..Len(tt)
  BY SubSeqFull, LenProperties
<1>. QED
  BY <1>1, <1>2 DEF FlattensApart

-------------------------------------------------------------------------------
(* The sequences of one element each that h is made of, and n empty ones. *)
Singles(h, n) == [i \in 1..n |-> <<h[i]>>]
Blanks(n) == [i \in 1..n |-> <<>>]

LEMMA SinglesStep ==
    ASSUME NEW X, NEW h \in Seq(X), NEW n \in Nat, n + 1 <= Len(h)
    PROVE  /\ Singles(h, n) \in Seq(Seq(X))
           /\ <<h[n + 1]>> \in Seq(X)
           /\ Singles(h, n + 1) = Append(Singles(h, n), <<h[n + 1]>>)
           /\ SubSeq(h, 1, n) \o <<h[n + 1]>> = SubSeq(h, 1, n + 1)
<1>1. \A i \in 1..(n + 1) : h[i] \in X /\ <<h[i]>> \in Seq(X)
  OBVIOUS
<1>2. Singles(h, n) \in [1..n -> Seq(X)] /\ Singles(h, n + 1) \in [1..(n + 1) -> Seq(X)]
  BY <1>1 DEF Singles
<1>3. /\ Singles(h, n) \in Seq(Seq(X)) /\ Len(Singles(h, n)) = n
      /\ Singles(h, n + 1) \in Seq(Seq(X)) /\ Len(Singles(h, n + 1)) = n + 1
  BY <1>2
<1>4. /\ \A i \in 1..n : Singles(h, n)[i] = <<h[i]>>
      /\ \A i \in 1..(n + 1) : Singles(h, n + 1)[i] = <<h[i]>>
  BY DEF Singles
<1>5. <<h[n + 1]>> \in Seq(X)
  BY <1>1
<1>6. Singles(h, n + 1) = Append(Singles(h, n), <<h[n + 1]>>)
  <2>. DEFINE a == Append(Singles(h, n), <<h[n + 1]>>)
  <2>1. a \in Seq(Seq(X)) /\ Len(a) = n + 1
    BY <1>3, <1>5, AppendProperties
  <2>2. \A i \in 1..(n + 1) : a[i] = <<h[i]>>
    BY <1>3, <1>4, <1>5, AppendProperties
  <2>. HIDE DEF a
  <2>3. \A i \in 1..(n + 1) : a[i] = Singles(h, n + 1)[i]
    BY <1>4, <2>2
  <2>4. Singles(h, n + 1) = a
    BY <1>3, <2>1, <2>3, SameSeq
  <2>. QED
    BY <2>4 DEF a
<1>7. SubSeq(h, 1, n) \o <<h[n + 1]>> = SubSeq(h, 1, n + 1)
  BY <1>1
<1>. QED
  BY <1>3, <1>5, <1>6, <1>7

LEMMA FlattenSingles ==
    ASSUME NEW X, NEW h \in Seq(X)
    PROVE  FlattenSeq(Singles(h, Len(h))) = h
<1>. DEFINE S == {n \in Nat : FlattenSeq(Singles(h, n)) = SubSeq(h, 1, n)}
<1>1. 0 \in S
  <2>1. Singles(h, 0) = <<>> /\ SubSeq(h, 1, 0) = <<>>
    BY DEF Singles
  <2>. QED
    BY <2>1, FlattenEmpty
<1>2. ASSUME NEW n \in 0..(Len(h) - 1), n \in S PROVE n + 1 \in S
  <2>1. n \in Nat /\ n + 1 \in Nat /\ n + 1 <= Len(h)
    BY <1>2
  <2>0. PICK e \in Seq(X) :
          /\ e = <<h[n + 1]>>
          /\ Singles(h, n) \in Seq(Seq(X))
          /\ Singles(h, n + 1) = Append(Singles(h, n), e)
          /\ SubSeq(h, 1, n) \o e = SubSeq(h, 1, n + 1)
    BY <2>1, SinglesStep
  <2>2. FlattenSeq(Append(Singles(h, n), e)) = FlattenSeq(Singles(h, n)) \o e
    BY <2>0, FlattenAppend
  <2>3. FlattenSeq(Singles(h, n)) = SubSeq(h, 1, n)
    BY <1>2
  <2>4. FlattenSeq(Singles(h, n + 1)) = SubSeq(h, 1, n + 1)
    BY <2>0, <2>2, <2>3
  <2>. QED
    BY <2>1, <2>4
<1>3. Len(h) \in Nat /\ Len(h) \in 0..Len(h) /\ SubSeq(h, 1, Len(h)) = h
  OBVIOUS
<1>. HIDE DEF S
<1>4. Len(h) \in S
  BY <1>1, <1>2, <1>3, InductionUpTo
<1>. QED
  BY <1>3, <1>4 DEF S

LEMMA FlattenBlanks ==
    ASSUME NEW n \in Nat
    PROVE  FlattenSeq(Blanks(n)) = <<>>
<1>. DEFINE S == {k \in Nat : FlattenSeq(Blanks(k)) = <<>>}
<1>1. 0 \in S
  <2>1. Blanks(0) = <<>>
    BY DEF Blanks
  <2>. QED
    BY <2>1, FlattenEmpty
<1>2. ASSUME NEW k \in 0..(n - 1), k \in S PROVE k + 1 \in S
  <2>1. Blanks(k) \in Seq(Seq({})) /\ <<>> \in Seq({})
    BY DEF Blanks
  <2>2. Blanks(k + 1) = Append(Blanks(k), <<>>)
    BY DEF Blanks
  <2>3. FlattenSeq(Blanks(k + 1)) = FlattenSeq(Blanks(k)) \o <<>>
    BY <2>1, <2>2, FlattenAppend
  <2>4. FlattenSeq(Blanks(k)) = <<>>
    BY <1>2
  <2>5. FlattenSeq(Blanks(k + 1)) = <<>>
    BY <2>3, <2>4
  <2>. QED
    BY <2>5
<1>. HIDE DEF S
<1>3. \A k \in 0..n : k \in S
  BY <1>1, <1>2, InductionUpTo
<1>. QED
  BY <1>3 DEF S

-------------------------------------------------------------------------------
(* A map over a sequence, for the concatenation of two. *)
LEMMA MapConcat ==
    ASSUME NEW X, NEW Y, NEW g, NEW s \in Seq(X), NEW t \in Seq(X),
           \A x \in X : g[x] \in Y
    PROVE  /\ [i \in 1..Len(s) |-> g[s[i]]] \in Seq(Y)
           /\ [i \in 1..Len(s \o t) |-> g[(s \o t)[i]]]
                = [i \in 1..Len(s) |-> g[s[i]]] \o [i \in 1..Len(t) |-> g[t[i]]]
<1>. DEFINE u == [i \in 1..Len(s) |-> g[s[i]]]
            v == [i \in 1..Len(t) |-> g[t[i]]]
            w == [i \in 1..Len(s \o t) |-> g[(s \o t)[i]]]
<1>0. Len(s) \in Nat /\ Len(t) \in Nat
  OBVIOUS
<1>1. u \in Seq(Y) /\ v \in Seq(Y) /\ Len(u) = Len(s) /\ Len(v) = Len(t)
  BY <1>0
<1>2. s \o t \in Seq(X) /\ Len(s \o t) = Len(s) + Len(t)
  OBVIOUS
<1>3. w \in Seq(Y) /\ Len(w) = Len(s) + Len(t)
  BY <1>0, <1>2
<1>4. u \o v \in Seq(Y) /\ Len(u \o v) = Len(s) + Len(t)
  BY <1>1
<1>5. ASSUME NEW i \in 1..(Len(s) + Len(t)) PROVE w[i] = (u \o v)[i]
  <2>1. w[i] = g[(s \o t)[i]]
    BY <1>2
  <2>2. (s \o t)[i] = IF i <= Len(s) THEN s[i] ELSE t[i - Len(s)]
    BY ConcatProperties
  <2>3. (u \o v)[i] = IF i <= Len(s) THEN u[i] ELSE v[i - Len(s)]
    BY <1>1, ConcatProperties
  <2>4. CASE i <= Len(s)
    BY <1>0, <2>1, <2>2, <2>3, <2>4
  <2>5. CASE ~ (i <= Len(s))
    <3>1. i - Len(s) \in 1..Len(t)
      BY <1>0, <2>5
    <3>. QED
      BY <2>1, <2>2, <2>3, <2>5, <3>1
  <2>. QED
    BY <2>4, <2>5
<1>. HIDE DEF u, v, w
<1>6. w = u \o v
  BY <1>3, <1>4, <1>5, SameSeq
<1>. QED
  BY <1>1, <1>6 DEF u, v, w

(* ... and its flattening. *)
FlatMap(g, s) == FlattenSeq([i \in 1..Len(s) |-> g[s[i]]])

LEMMA FlatMapConcat ==
    ASSUME NEW X, NEW Y, NEW g, NEW s \in Seq(X), NEW t \in Seq(X),
           \A x \in X : g[x] \in Seq(Y)
    PROVE  /\ FlatMap(g, s) \in Seq(Y)
           /\ Joins(FlatMap(g, s \o t), FlatMap(g, s), FlatMap(g, t))
<1>. DEFINE u == [i \in 1..Len(s) |-> g[s[i]]]
            v == [i \in 1..Len(t) |-> g[t[i]]]
            w == [i \in 1..Len(s \o t) |-> g[(s \o t)[i]]]
<1>1. u \in Seq(Seq(Y)) /\ v \in Seq(Seq(Y)) /\ w = u \o v
  BY MapConcat
<1>. HIDE DEF u, v, w
<1>2. FlattenSeq(w) = FlattenSeq(u) \o FlattenSeq(v)
  BY <1>1, FlattenConcat
<1>3. FlattenSeq(u) \in Seq(Y)
  BY <1>1, FlattenType
<1>. QED
  BY <1>2, <1>3 DEF FlatMap, Joins, u, v, w

LEMMA FlatMapOne ==
    ASSUME NEW Y, NEW g, NEW x, g[x] \in Seq(Y)
    PROVE  FlatMap(g, <<x>>) = g[x]
<1>1. [i \in 1..Len(<<x>>) |-> g[<<x>>[i]]] = <<g[x]>>
  OBVIOUS
<1>2. <<g[x]>> = Append(<<>>, g[x]) /\ <<>> \in Seq(Seq(Y))
  OBVIOUS
<1>3. FlattenSeq(Append(<<>>, g[x])) = <<>> \o g[x]
  BY <1>2, FlattenAppend, FlattenEmpty
<1>4. <<>> \o g[x] = g[x]
  BY ConcatEmptySeq
<1>. QED
  BY <1>1, <1>2, <1>3, <1>4 DEF FlatMap

-------------------------------------------------------------------------------
(* Cutting sequences: two pieces that meet, ... *)
CutsMeet(s, a, b) == SubSeq(s, 1, a) \o SubSeq(s, a + 1, b) = SubSeq(s, 1, b)

LEMMA SubSeqsMeet ==
    ASSUME NEW X, NEW s, s \in Seq(X), NEW a \in Nat, NEW b \in Nat, a <= b, b <= Len(s)
    PROVE  CutsMeet(s, a, b)
<1>1. 1 \in 1..(Len(s) + 1) /\ a \in 0..Len(s) /\ b \in a..Len(s)
  OBVIOUS
<1>. QED
  BY <1>1, ConcatAdjacentSubSeq DEF CutsMeet

(* ... a prefix and the rest, ... *)
LEMMA SplitSeq ==
    ASSUME NEW X, NEW s, NEW n, s \in Seq(X), n \in 0..Len(s)
    PROVE  /\ SubSeq(s, 1, n) \in Seq(X) /\ Len(SubSeq(s, 1, n)) = n
           /\ SubSeq(s, n + 1, Len(s)) \in Seq(X) /\ Len(SubSeq(s, n + 1, Len(s))) = Len(s) - n
           /\ Joins(s, SubSeq(s, 1, n), SubSeq(s, n + 1, Len(s)))
<1>1. /\ SubSeq(s, 1, n) \in Seq(X) /\ Len(SubSeq(s, 1, n)) = n
      /\ SubSeq(s, n + 1, Len(s)) \in Seq(X) /\ Len(SubSeq(s, n + 1, Len(s))) = Len(s) - n
  OBVIOUS
<1>2. CutsMeet(s, n, Len(s))
  BY SubSeqsMeet
<1>3. SubSeq(s, 1, Len(s)) = s
  BY SubSeqFull
<1>. QED
  BY <1>1, <1>2, <1>3 DEF Joins, CutsMeet

(* ... what is left of a sequence without its front, when another cut of    *)
(* the whole is known, ... *)
CutsOff(X, x, n, y, a, b) ==
    SubSeq(x, 1, n) = a /\ SubSeq(x, n + 1, Len(x)) \in Seq(X) /\ Joins(b, SubSeq(x, n + 1, Len(x)), y)

LEMMA CutFirst ==
    ASSUME NEW X, NEW x, NEW y, NEW a, NEW b,
           x \in Seq(X), y \in Seq(X), a \in Seq(X), b \in Seq(X),
           NEW r, Joins(r, x, y), Joins(r, a, b), Len(a) <= Len(x)
    PROVE  CutsOff(X, x, Len(a), y, a, b)
<1>. DEFINE n == Len(a)
<1>1. n \in Nat /\ Len(x) \in Nat /\ Len(y) \in Nat /\ Len(b) \in Nat
  OBVIOUS
<1>2. /\ Len(r) = Len(x) + Len(y) /\ Len(r) = n + Len(b) /\ n <= Len(x)
      /\ \A i \in 1..Len(x) : r[i] = x[i]
      /\ \A i \in 1..Len(y) : r[Len(x) + i] = y[i]
      /\ \A i \in 1..n : r[i] = a[i]
      /\ \A i \in 1..Len(b) : r[n + i] = b[i]
  <2>1. r = x \o y /\ r = a \o b
    BY DEF Joins
  <2>2. /\ Len(x \o y) = Len(x) + Len(y)
        /\ \A i \in 1..Len(x) : (x \o y)[i] = x[i]
        /\ \A i \in 1..Len(y) : (x \o y)[Len(x) + i] = y[i]
    OBVIOUS
  <2>3. /\ Len(a \o b) = Len(a) + Len(b)
        /\ \A i \in 1..Len(a) : (a \o b)[i] = a[i]
        /\ \A i \in 1..Len(b) : (a \o b)[Len(a) + i] = b[i]
    OBVIOUS
  <2>. QED
    BY <2>1, <2>2, <2>3
<1>. HIDE DEF n
<1>3. /\ SubSeq(x, 1, n) \in Seq(X) /\ Len(SubSeq(x, 1, n)) = n
      /\ SubSeq(x, n + 1, Len(x)) \in Seq(X) /\ Len(SubSeq(x, n + 1, Len(x))) = Len(x) - n
      /\ \A i \in 1..n : SubSeq(x, 1, n)[i] = x[i]
      /\ \A i \in 1..(Len(x) - n) : SubSeq(x, n + 1, Len(x))[i] = x[n + i]
  BY <1>1 DEF n
<1>4. SubSeq(x, 1, n) = a
  <2>1. \A i \in 1..n : SubSeq(x, 1, n)[i] = a[i]
    BY <1>1, <1>2, <1>3 DEF n
  <2>2. Len(a) = n
    BY DEF n
  <2>. DEFINE u == SubSeq(x, 1, n)
  <2>3. u \in Seq(X) /\ Len(u) = n /\ \A i \in 1..n : u[i] = a[i]
    BY <1>3, <2>1
  <2>. HIDE DEF u
  <2>4. u = a
    BY <2>2, <2>3, SameSeq
  <2>. QED
    BY <2>4 DEF u
<1>. DEFINE e == SubSeq(x, n + 1, Len(x))
<1>5. /\ e \in Seq(X) /\ Len(e) = Len(x) - n
      /\ \A i \in 1..(Len(x) - n) : e[i] = x[n + i]
  BY <1>3
<1>. HIDE DEF e
<1>6. e \o y = b
  <2>. DEFINE u == e \o y
  <2>1. /\ u \in Seq(X) /\ Len(u) = Len(b)
        /\ \A i \in 1..(Len(x) - n) : u[i] = e[i]
        /\ \A i \in 1..Len(y) : u[(Len(x) - n) + i] = y[i]
    BY <1>1, <1>2, <1>5, SMTT(30)
  <2>. HIDE DEF u
  <2>2. ASSUME NEW i \in 1..Len(b) PROVE u[i] = b[i]
    <3>1. b[i] = r[n + i]
      BY <1>2
    <3>2. CASE i <= Len(x) - n
      <4>1. i \in 1..(Len(x) - n) /\ n + i \in 1..Len(x)
        BY <1>1, <3>2
      <4>. QED
        BY <1>2, <1>5, <2>1, <3>1, <4>1
    <3>3. CASE ~(i <= Len(x) - n)
      <4>. DEFINE j == i - (Len(x) - n)
      <4>1. j \in 1..Len(y) /\ i = (Len(x) - n) + j /\ n + i = Len(x) + j
        BY <1>1, <1>2, <3>3
      <4>. HIDE DEF j
      <4>. QED
        BY <1>2, <2>1, <3>1, <4>1
    <3>. QED
      BY <3>2, <3>3
  <2>3. u = b
    BY <2>1, <2>2, SameSeq
  <2>. QED
    BY <2>3 DEF u
<1>. QED
  BY <1>4, <1>5, <1>6 DEF CutsOff, Joins, n, e

(* ... a piece of a piece, ... *)
CutOfCut(u, s, a, c, d) == SubSeq(u, c + 1, d) = SubSeq(s, a + c + 1, a + d)

LEMMA CutPiece ==
    ASSUME NEW X, NEW s, s \in Seq(X), NEW a \in Nat, NEW b \in Nat, NEW c \in Nat, NEW d \in Nat,
           a <= b, b <= Len(s), c <= d, d <= b - a,
           NEW u, u = SubSeq(s, a + 1, b)
    PROVE  CutOfCut(u, s, a, c, d)
<1>. DEFINE v == SubSeq(u, c + 1, d)
            w == SubSeq(s, a + c + 1, a + d)
<1>1. u \in Seq(X) /\ Len(u) = b - a /\ \A i \in 1..(b - a) : u[i] = s[a + i]
  OBVIOUS
<1>2. w \in Seq(X) /\ Len(w) = d - c /\ \A i \in 1..(d - c) : w[i] = s[a + c + i]
  OBVIOUS
<1>3. v \in Seq(X) /\ Len(v) = d - c /\ \A i \in 1..(d - c) : v[i] = u[c + i]
  BY <1>1
<1>. HIDE DEF v, w
<1>4. ASSUME NEW i \in 1..(d - c) PROVE v[i] = w[i]
  <2>1. c + i \in 1..(b - a) /\ a + (c + i) = a + c + i
    OBVIOUS
  <2>. QED
    BY <1>1, <1>2, <1>3, <2>1
<1>5. v = w
  BY <1>2, <1>3, <1>4, SameSeq
<1>. QED
  BY <1>5 DEF CutOfCut, v, w

(* ... and a piece of a sequence that has grown. *)
CutKept(s, e, a, b) == SubSeq(Append(s, e), a + 1, b) = SubSeq(s, a + 1, b)
CutGrown(s, e, a) ==
    SubSeq(Append(s, e), a + 1, Len(s) + 1) = Append(SubSeq(s, a + 1, Len(s)), e)

LEMMA SubSeqOfAppend ==
    ASSUME NEW X, NEW s, s \in Seq(X), NEW e \in X, NEW a \in Nat, NEW b \in Nat, a <= b, b <= Len(s)
    PROVE  CutKept(s, e, a, b) /\ CutGrown(s, e, a)
<1>. DEFINE t == Append(s, e)
<1>1. t \in Seq(X) /\ Len(t) = Len(s) + 1 /\ (\A i \in 1..Len(s) : t[i] = s[i]) /\ t[Len(s) + 1] = e
  OBVIOUS
<1>. HIDE DEF t
<1>2. SubSeq(t, a + 1, b) = SubSeq(s, a + 1, b)
  <2>. DEFINE u == SubSeq(t, a + 1, b)
              v == SubSeq(s, a + 1, b)
  <2>1. u \in Seq(X) /\ Len(u) = b - a /\ \A i \in 1..(b - a) : u[i] = t[a + i]
    BY <1>1
  <2>2. v \in Seq(X) /\ Len(v) = b - a /\ \A i \in 1..(b - a) : v[i] = s[a + i]
    OBVIOUS
  <2>. HIDE DEF u, v
  <2>3. ASSUME NEW i \in 1..(b - a) PROVE u[i] = v[i]
    <3>1. a + i \in 1..Len(s)
      OBVIOUS
    <3>. QED
      BY <1>1, <2>1, <2>2, <3>1
  <2>4. u = v
    BY <2>1, <2>2, <2>3, SameSeq
  <2>. QED
    BY <2>4 DEF u, v
<1>3. SubSeq(t, a + 1, Len(s) + 1) = Append(SubSeq(s, a + 1, Len(s)), e)
  <2>. DEFINE u == SubSeq(t, a + 1, Len(s) + 1)
              v == SubSeq(s, a + 1, Len(s))
              n == Len(s) - a
  <2>0. n \in Nat /\ a + n = Len(s)
    OBVIOUS
  <2>1. u \in Seq(X) /\ Len(u) = n + 1 /\ \A i \in 1..(n + 1) : u[i] = t[a + i]
    BY <1>1
  <2>2. v \in Seq(X) /\ Len(v) = n /\ \A i \in 1..n : v[i] = s[a + i]
    OBVIOUS
  <2>. HIDE DEF u, v, n
  <2>3. Append(v, e) \in Seq(X) /\ Len(Append(v, e)) = n + 1
        /\ (\A i \in 1..n : Append(v, e)[i] = v[i]) /\ Append(v, e)[n + 1] = e
    BY <2>2, AppendProperties
  <2>4. ASSUME NEW i \in 1..(n + 1) PROVE u[i] = Append(v, e)[i]
    <3>1. CASE i = n + 1
      <4>1. a + i = Len(s) + 1
        BY <2>0, <3>1
      <4>. QED
        BY <1>1, <2>1, <2>3, <3>1, <4>1
    <3>2. CASE i # n + 1
      <4>1. i \in 1..n /\ a + i \in 1..Len(s)
        BY <2>0, <3>2
      <4>. QED
        BY <1>1, <2>1, <2>2, <2>3, <4>1
    <3>. QED
      BY <3>1, <3>2
  <2>5. u = Append(v, e)
    BY <2>1, <2>3, <2>4, SameSeq
  <2>. QED
    BY <2>5 DEF u, v
<1>. QED
  BY <1>2, <1>3 DEF CutKept, CutGrown, t
===============================================================================
