--------------------------- MODULE SequenceLemmas --------------------------
(***************************************************************************)
(* What the proofs need of induction and of sequences: induction over the  *)
(* naturals for a set, concatenation seen element by element, and          *)
(* FlattenSeq, which is defined by recursion.                              *)
(***************************************************************************)
EXTENDS Integers, Sequences, SequencesExt, SequenceTheorems,
        WellFoundedInduction, TLAPS

(***************************************************************************)
(* Induction: what fails for some number fails for a least one.            *)
(***************************************************************************)
Less == {p \in Nat \X Nat : p[1] < p[2]}

LEMMA LeastNat ==
    ASSUME NEW T, T \subseteq Nat, T # {}
    PROVE  \E m \in T : \A n \in T : m <= n
<1>1. IsWellFoundedOn(Less, Nat)
  BY NatLessThanWellFounded DEF OpToRel, Less
<1>2. PICK m \in T : \A n \in T : ~ (<< n, m >> \in Less)
  BY <1>1, WFMin
<1>3. ASSUME NEW n \in T PROVE m <= n
  <2>1. m \in Nat /\ n \in Nat
    OBVIOUS
  <2>2. n < m => << n, m >> \in Less
    BY <2>1 DEF Less
  <2> QED
    BY <1>2, <2>1, <2>2
<1> QED
  BY <1>3

\* The induction rule, for the set of the numbers that have a property.
LEMMA Induction ==
    ASSUME NEW G, 0 \in G, \A n \in Nat : n \in G => n + 1 \in G
    PROVE  \A n \in Nat : n \in G
<1> DEFINE T == {n \in Nat : n \notin G}
<1>1. SUFFICES ASSUME T # {} PROVE FALSE
  OBVIOUS
<1>2. PICK m \in T : \A n \in T : m <= n
  BY <1>1, LeastNat
<1>3. m # 0 /\ m \in Nat
  BY <1>2
<1>4. m - 1 \in Nat /\ ~ (m <= m - 1)
  BY <1>3
<1>5. m - 1 \in G
  BY <1>2, <1>4
<1>6. (m - 1) + 1 \in G
  BY <1>4, <1>5
<1> QED
  BY <1>2, <1>3, <1>6

(***************************************************************************)
(* Concatenation, element by element.                                      *)
(***************************************************************************)
LEMMA ConcatElements ==
    ASSUME NEW S, NEW s \in Seq(S), NEW t \in Seq(S)
    PROVE  /\ s \o t \in Seq(S)
           /\ Len(s) \in Nat /\ Len(t) \in Nat
           /\ Len(s \o t) = Len(s) + Len(t)
           /\ \A i \in 1..Len(s) : (s \o t)[i] = s[i]
           /\ \A i \in 1..Len(t) : (s \o t)[Len(s) + i] = t[i]
<1>1. /\ s \o t \in Seq(S) /\ Len(s \o t) = Len(s) + Len(t)
      /\ \A i \in 1..(Len(s) + Len(t)) :
           (s \o t)[i] = IF i <= Len(s) THEN s[i] ELSE t[i - Len(s)]
  BY ConcatProperties
<1>2. Len(s) \in Nat /\ Len(t) \in Nat
  BY LenProperties
<1>3. ASSUME NEW i \in 1..Len(s) PROVE (s \o t)[i] = s[i]
  BY <1>1, <1>2
<1>4. ASSUME NEW i \in 1..Len(t) PROVE (s \o t)[Len(s) + i] = t[i]
  <2>1. /\ Len(s) + i \in 1..(Len(s) + Len(t)) /\ ~ (Len(s) + i <= Len(s))
        /\ Len(s) + i - Len(s) = i
    BY <1>2
  <2> QED
    BY <1>1, <2>1
<1> QED
  BY <1>1, <1>2, <1>3, <1>4

\* A part of a sequence.
LEMMA PartElements ==
    ASSUME NEW S, NEW s \in Seq(S), NEW m \in Nat, m >= 1, NEW n \in Nat, n <= Len(s)
    PROVE  /\ SubSeq(s, m, n) \in Seq(S)
           /\ Len(SubSeq(s, m, n)) = IF m <= n THEN n - m + 1 ELSE 0
           /\ \A i \in 1..(n - m + 1) : SubSeq(s, m, n)[i] = s[m + i - 1]
<1>1. \A i \in m..n : s[i] \in S
  BY LenProperties, ElementOfSeq
<1> QED
  BY <1>1, SubSeqProperties

\* The first n elements and the others.
LEMMA CutInTwo ==
    ASSUME NEW S, NEW s \in Seq(S), NEW n \in Nat, n <= Len(s)
    PROVE  s = SubSeq(s, 1, n) \o SubSeq(s, n + 1, Len(s))
<1>1. Len(s) \in Nat
  BY LenProperties
<1>2. 1 \in 1..(Len(s) + 1) /\ n \in (1 - 1)..Len(s) /\ Len(s) \in n..Len(s)
  BY <1>1
<1>3. SubSeq(s, 1, n) \o SubSeq(s, n + 1, Len(s)) = SubSeq(s, 1, Len(s))
  BY <1>2, ConcatAdjacentSubSeq
<1> QED
  BY <1>3, SubSeqFull

LEMMA OneElement ==
    ASSUME NEW S, NEW e \in S
    PROVE  << e >> \in Seq(S) /\ Len(<< e >>) = 1 /\ << e >>[1] = e
OBVIOUS

(***************************************************************************)
(* FlattenSeq: the function of its recursion                                *)
(***************************************************************************)
Joins(g, ss, n) == g = [i \in 1..n |-> IF i = 1 THEN ss[i] ELSE g[i-1] \o ss[i]]

LEMMA JoinsAt ==
    ASSUME NEW g, NEW ss, NEW n \in Nat, Joins(g, ss, n), NEW i \in 1..n
    PROVE  g[i] = IF i = 1 THEN ss[i] ELSE g[i-1] \o ss[i]
BY DEF Joins

LEMMA JoinsExists == ASSUME NEW ss, NEW n \in Nat PROVE \E g : Joins(g, ss, n)
<1> DEFINE T == {m \in Nat : ~ \E g : Joins(g, ss, m)}
<1>1. SUFFICES ASSUME n \in T PROVE FALSE
  OBVIOUS
<1>2. PICK m \in T : \A k \in T : m <= k
  BY <1>1, LeastNat
<1>3. CASE m = 0
  <2>1. Joins([i \in 1..0 |-> ss[i]], ss, 0)
    BY DEF Joins
  <2> QED
    BY <1>2, <1>3, <2>1
<1>4. CASE m # 0
  <2>1. m \in Nat /\ m - 1 \in Nat /\ m - 1 \notin T
    BY <1>2, <1>4
  <2>2. PICK h : Joins(h, ss, m - 1)
    BY <2>1
  <2> DEFINE last == IF m = 1 THEN ss[m] ELSE h[m-1] \o ss[m]
             g == [i \in 1..m |-> IF i = m THEN last ELSE h[i]]
  <2>3. ASSUME NEW i \in 1..m PROVE g[i] = IF i = 1 THEN ss[i] ELSE g[i-1] \o ss[i]
    <3>1. CASE i = m /\ i = 1
      BY <3>1
    <3>2. CASE i = m /\ i # 1
      <4>1. i - 1 \in 1..m /\ i - 1 # m
        BY <2>1, <3>2
      <4>2. g[i-1] = h[i-1]
        BY <4>1
      <4>3. g[i] = h[m-1] \o ss[m]
        BY <3>2
      <4> QED
        BY <3>2, <4>2, <4>3
    <3>3. CASE i # m
      <4>1. i \in 1..(m - 1)
        BY <2>1, <3>3
      <4>2. h[i] = IF i = 1 THEN ss[i] ELSE h[i-1] \o ss[i]
        BY <2>1, <2>2, <4>1, JoinsAt
      <4>3. i # 1 => i - 1 \in 1..m /\ i - 1 # m
        BY <2>1, <4>1
      <4> QED
        BY <3>3, <4>2, <4>3
    <3> QED
      BY <3>1, <3>2, <3>3
  <2>4. Joins(g, ss, m)
    BY <2>3 DEF Joins
  <2> QED
    BY <2>1, <2>4
<1> QED
  BY <1>3, <1>4

LEMMA JoinsUnique ==
    ASSUME NEW g, NEW ss, NEW n \in Nat, Joins(g, ss, n),
           NEW h, NEW tt, NEW l \in Nat, Joins(h, tt, l),
           NEW i \in Nat, 1 <= i, i <= n, i <= l, \A j \in 1..i : ss[j] = tt[j]
    PROVE  g[i] = h[i]
<1> DEFINE T == {m \in Nat : 1 <= m /\ m <= i /\ g[m] # h[m]}
<1>1. SUFFICES ASSUME i \in T PROVE FALSE
  OBVIOUS
<1>2. PICK m \in T : \A k \in T : m <= k
  BY <1>1, LeastNat
<1>3. m \in 1..n /\ m \in 1..l /\ m \in 1..i /\ g[m] # h[m]
  BY <1>2
<1>4. /\ g[m] = IF m = 1 THEN ss[m] ELSE g[m-1] \o ss[m]
      /\ h[m] = IF m = 1 THEN tt[m] ELSE h[m-1] \o tt[m]
  BY <1>3, JoinsAt
<1>5. ss[m] = tt[m]
  BY <1>3
<1>6. CASE m # 1
  <2>1. m - 1 \in Nat /\ 1 <= m - 1 /\ m - 1 <= i /\ ~ (m <= m - 1)
    BY <1>3, <1>6
  <2>2. m - 1 \notin T
    BY <1>2, <2>1
  <2>3. g[m-1] = h[m-1]
    BY <2>1, <2>2
  <2> QED
    BY <1>3, <1>4, <1>5, <1>6, <2>3
<1> QED
  BY <1>3, <1>4, <1>5, <1>6

LEMMA JoinsLast ==
    ASSUME NEW h, NEW ss, NEW k \in Nat, 1 < k, Joins(h, ss, k)
    PROVE  h[k] = h[k - 1] \o ss[k]
<1> DEFINE F == [i \in 1..k |-> IF i = 1 THEN ss[i] ELSE h[i-1] \o ss[i]]
<1>1. k \in 1..k /\ k # 1
  OBVIOUS
<1>2. h = F
  BY DEF Joins
<1>3. F[k] = IF k = 1 THEN ss[k] ELSE h[k-1] \o ss[k]
  BY <1>1
<1> HIDE DEF F
<1>4. h[k] = IF k = 1 THEN ss[k] ELSE h[k-1] \o ss[k]
  BY <1>2, <1>3
<1> QED
  BY <1>1, <1>4

\* FlattenSeq is the last value of that function.
LEMMA FlattenJoin ==
    ASSUME NEW ss, NEW n \in Nat \ {0}, Len(ss) = n
    PROVE  \E g : Joins(g, ss, n) /\ FlattenSeq(ss) = g[n]
<1> DEFINE g == CHOOSE h : h = [i \in 1..n |-> IF i = 1 THEN ss[i] ELSE h[i-1] \o ss[i]]
<1>1. PICK h : Joins(h, ss, n)
  BY JoinsExists
<1>2. Joins(g, ss, n)
  BY <1>1 DEF Joins
<1>3. FlattenSeq(ss) = g[n]
  BY DEF FlattenSeq
<1> QED
  BY <1>2, <1>3

LEMMA FlattenEmpty == FlattenSeq(<< >>) = << >>
BY DEF FlattenSeq

\* One more at the end.
LEMMA FlattenMore ==
    ASSUME NEW ss, NEW tt, NEW n \in Nat \ {0}, Len(ss) = n, Len(tt) = n + 1,
           \A i \in 1..n : tt[i] = ss[i]
    PROVE  FlattenSeq(tt) = FlattenSeq(ss) \o tt[n + 1]
<1>1. PICK g : Joins(g, ss, n) /\ FlattenSeq(ss) = g[n]
  BY FlattenJoin
<1>2. PICK h : Joins(h, tt, n + 1) /\ FlattenSeq(tt) = h[n + 1]
  BY FlattenJoin
<1>3. g[n] = h[n]
  BY <1>1, <1>2, JoinsUnique
<1> DEFINE k == n + 1
<1>4. k \in Nat /\ 1 < k /\ k - 1 = n
  OBVIOUS
<1>5. Joins(h, tt, k)
  BY <1>2
<1> HIDE DEF k
<1>6. h[k] = h[k - 1] \o tt[k]
  BY <1>4, <1>5, JoinsLast
<1>7. h[n + 1] = h[n] \o tt[n + 1]
  BY <1>4, <1>6 DEF k
<1> QED
  BY <1>1, <1>2, <1>3, <1>7

LEMMA FlattenFirst ==
    ASSUME NEW ss, Len(ss) = 1 PROVE FlattenSeq(ss) = ss[1]
<1> DEFINE n == 1
<1>1. n \in Nat \ {0} /\ Len(ss) = n /\ n \in 1..n /\ n = 1
  OBVIOUS
<1> HIDE DEF n
<1>2. PICK g : Joins(g, ss, n) /\ FlattenSeq(ss) = g[n]
  BY <1>1, FlattenJoin
<1>3. g[n] = IF n = 1 THEN ss[n] ELSE g[n - 1] \o ss[n]
  BY <1>1, <1>2, JoinsAt
<1> QED
  BY <1>1, <1>2, <1>3

LEMMA FlattenAppend ==
    ASSUME NEW S, NEW ss \in Seq(Seq(S)), NEW s \in Seq(S)
    PROVE  FlattenSeq(Append(ss, s)) = FlattenSeq(ss) \o s
<1> DEFINE tt == Append(ss, s)
           n == Len(ss)
<1>1. n \in Nat /\ Len(tt) = n + 1 /\ tt[n + 1] = s /\ \A i \in 1..n : tt[i] = ss[i]
  BY AppendProperties, LenProperties
<1>2. CASE n = 0
  <2>1. ss = << >>
    BY <1>2, EmptySeq
  <2>2. FlattenSeq(tt) = s
    BY <1>1, <1>2, FlattenFirst
  <2> QED
    BY <2>1, <2>2, FlattenEmpty, ConcatEmptySeq
<1>3. CASE n # 0
  <2>1. n \in Nat \ {0} /\ Len(ss) = n
    BY <1>1, <1>3
  <2> HIDE DEF n, tt
  <2>2. FlattenSeq(tt) = FlattenSeq(ss) \o tt[n + 1]
    BY <1>1, <2>1, FlattenMore
  <2> QED
    BY <1>1, <2>2 DEF tt
<1> QED
  BY <1>2, <1>3

LEMMA FlattenType ==
    ASSUME NEW S, NEW ss \in Seq(Seq(S)) PROVE FlattenSeq(ss) \in Seq(S)
<1> DEFINE G == {n \in Nat : \A tt \in Seq(Seq(S)) : Len(tt) = n => FlattenSeq(tt) \in Seq(S)}
<1>1. 0 \in G
  <2>1. \A tt \in Seq(Seq(S)) : Len(tt) = 0 => tt = << >>
    BY EmptySeq
  <2> QED
    BY <2>1, FlattenEmpty, EmptySeq
<1>2. ASSUME NEW n \in Nat, n \in G PROVE n + 1 \in G
  <2> SUFFICES ASSUME NEW tt \in Seq(Seq(S)), Len(tt) = n + 1
               PROVE  FlattenSeq(tt) \in Seq(S)
    OBVIOUS
  <2>1. tt # << >>
    BY EmptySeq
  <2>2. PICK uu \in Seq(Seq(S)), u \in Seq(S) : tt = Append(uu, u)
    BY <2>1, SequenceEmptyOrAppend
  <2>3. Len(uu) = n
    BY <2>2, AppendProperties, LenProperties
  <2> QED
    BY <1>2, <2>2, <2>3, FlattenAppend, ConcatProperties
<1> HIDE DEF G
<1>3. \A n \in Nat : n \in G
  BY <1>1, <1>2, Induction
<1> QED
  BY <1>3, LenProperties DEF G

\* Concatenation of sequences over S may be regrouped.
Regroups(S) == \A a, b, c \in Seq(S) : (a \o b) \o c = a \o (b \o c)

LEMMA ConcatRegroups == ASSUME NEW S PROVE Regroups(S)
<1> SUFFICES ASSUME NEW a \in Seq(S), NEW b \in Seq(S), NEW c \in Seq(S)
             PROVE  (a \o b) \o c = a \o (b \o c)
  BY DEF Regroups
<1> QED
  BY ConcatAssociative

LEMMA FlattenConcat ==
    ASSUME NEW S, NEW ss \in Seq(Seq(S)), NEW tt \in Seq(Seq(S))
    PROVE  FlattenSeq(ss \o tt) = FlattenSeq(ss) \o FlattenSeq(tt)
<1> DEFINE G == {n \in Nat : \A uu \in Seq(Seq(S)) : Len(uu) = n =>
                   FlattenSeq(ss \o uu) = FlattenSeq(ss) \o FlattenSeq(uu)}
<1>1. 0 \in G
  <2>1. \A uu \in Seq(Seq(S)) : Len(uu) = 0 => uu = << >>
    BY EmptySeq
  <2>2. ss \o << >> = ss /\ FlattenSeq(ss) \o << >> = FlattenSeq(ss)
    BY FlattenType, ConcatEmptySeq
  <2> QED
    BY <2>1, <2>2, FlattenEmpty
<1>2. ASSUME NEW n \in Nat, n \in G PROVE n + 1 \in G
  <2> SUFFICES ASSUME NEW uu \in Seq(Seq(S)), Len(uu) = n + 1
               PROVE  FlattenSeq(ss \o uu) = FlattenSeq(ss) \o FlattenSeq(uu)
    OBVIOUS
  <2>1. uu # << >>
    BY EmptySeq
  <2>2. PICK vv \in Seq(Seq(S)), v \in Seq(S) : uu = Append(vv, v)
    BY <2>1, SequenceEmptyOrAppend
  <2>3. Len(vv) = n
    BY <2>2, AppendProperties, LenProperties
  <2>4. FlattenSeq(ss \o vv) = FlattenSeq(ss) \o FlattenSeq(vv)
    BY <1>2, <2>3
  <2>5. ss \o uu = Append(ss \o vv, v) /\ ss \o vv \in Seq(Seq(S))
    <3>1. uu = vv \o << v >> /\ << v >> \in Seq(Seq(S))
      BY <2>2, AppendIsConcat, OneElement
    <3>2. Regroups(Seq(S))
      BY ConcatRegroups
    <3>3. ss \o (vv \o << v >>) = (ss \o vv) \o << v >>
      BY <3>1, <3>2 DEF Regroups
    <3> QED
      BY <3>1, <3>3, ConcatProperties, AppendIsConcat
  <2>6. FlattenSeq(ss \o uu) = (FlattenSeq(ss) \o FlattenSeq(vv)) \o v
    BY <2>4, <2>5, FlattenAppend
  <2>7. FlattenSeq(uu) = FlattenSeq(vv) \o v
    BY <2>2, FlattenAppend
  <2>8. FlattenSeq(ss) \in Seq(S) /\ FlattenSeq(vv) \in Seq(S)
    BY FlattenType
  <2>9. (FlattenSeq(ss) \o FlattenSeq(vv)) \o v = FlattenSeq(ss) \o (FlattenSeq(vv) \o v)
    <3> DEFINE a == FlattenSeq(ss)
               b == FlattenSeq(vv)
    <3>1. a \in Seq(S) /\ b \in Seq(S) /\ v \in Seq(S)
      BY <2>8
    <3> HIDE DEF a, b
    <3>2. Regroups(S)
      BY ConcatRegroups
    <3>3. (a \o b) \o v = a \o (b \o v)
      BY <3>1, <3>2, Zenon DEF Regroups
    <3> QED
      BY <3>3 DEF a, b
  <2> QED
    BY <2>6, <2>7, <2>9
<1> HIDE DEF G
<1>3. \A n \in Nat : n \in G
  BY <1>1, <1>2, Induction
<1> QED
  BY <1>3, LenProperties DEF G

LEMMA FlattenOne ==
    ASSUME NEW S, NEW s \in Seq(S) PROVE FlattenSeq(<< s >>) = s
BY FlattenFirst

\* One more in front.
LEMMA FlattenCons ==
    ASSUME NEW S, NEW s \in Seq(S), NEW tt \in Seq(Seq(S))
    PROVE  FlattenSeq(<< s >> \o tt) = s \o FlattenSeq(tt)
<1>1. << s >> \in Seq(Seq(S))
  BY OneElement
<1>2. FlattenSeq(<< s >> \o tt) = FlattenSeq(<< s >>) \o FlattenSeq(tt)
  BY <1>1, FlattenConcat
<1>3. FlattenSeq(<< s >>) = s
  BY FlattenOne
<1> QED
  BY <1>2, <1>3
=============================================================================
