-------------------------- MODULE ZoneStoreProofs --------------------------
(***************************************************************************)
(* Proofs about names and about ZoneStore, for every set of goroutines,    *)
(* every choice of seeds, calls and names, every serial width, with and    *)
(* without a state file, with and without disk faults; and that the store  *)
(* implements AtomicZone.                                                  *)
(***************************************************************************)
EXTENDS ZoneStore, SequenceTheorems, TLAPS

(***************************************************************************)
(* Names: what the operations on them return, for every set of labels and  *)
(* every zone.                                                             *)
(***************************************************************************)

\* Lower-casing keeps a sequence of labels a sequence of labels.
LEMMA ToLowerType == ASSUME NEW n \in Name PROVE ToLower(n) \in Name
<1>1. ASSUME NEW i \in 1..Len(n) PROVE LowerOf[n[i]] \in Label
  <2>1. n[i] \in Label
    BY DEF Name
  <2>2. LowerOf \in [Label -> Label]
    BY LabelAssumption DEF LabelAssumption
  <2> QED
    BY <2>1, <2>2
<1>2. ToLower(n) = [i \in 1..Len(n) |-> LowerOf[n[i]]]
  BY DEF ToLower, Name
<1>3. Len(n) \in Nat
  BY DEF Name
<1> QED
  BY <1>1, <1>2, <1>3 DEF Name

\* Trimming the trailing dot keeps a sequence of labels one.
LEMMA TrimDotType == ASSUME NEW n \in Name PROVE TrimDot(n) \in Name
<1>1. ASSUME Len(n) > 1 PROVE SubSeq(n, 1, Len(n) - 1) \in Seq(Label)
  <2>1. n \in Seq(Label) /\ Len(n) \in Nat
    BY DEF Name
  <2>2. \A i \in 1..(Len(n) - 1) : n[i] \in Label
    BY <1>1, <2>1
  <2> QED
    BY <1>1, <2>1, <2>2, SubSeqProperties
<1> QED
  BY <1>1 DEF TrimDot, Name

\* CanonicalName maps names to names.
LEMMA CanonicalNameType == ASSUME NEW n \in Name PROVE CanonicalName(n) \in Name
BY ToLowerType, TrimDotType DEF CanonicalName

\* A name's length and labels, and those of its lower-case form.
LEMMA ToLowerLabels ==
    ASSUME NEW n \in Name
    PROVE  /\ Len(n) \in Nat /\ DOMAIN n = 1..Len(n)
           /\ \A i \in 1..Len(n) : n[i] \in Label
           /\ Len(ToLower(n)) = Len(n)
           /\ \A i \in 1..Len(n) : ToLower(n)[i] = LowerOf[n[i]]
<1>1. Len(n) \in Nat /\ DOMAIN n = 1..Len(n) /\ \A i \in 1..Len(n) : n[i] \in Label
  BY LenProperties, ElementOfSeq DEF Name
<1>2. ToLower(n) = [i \in 1..Len(n) |-> LowerOf[n[i]]]
  BY <1>1 DEF ToLower
<1>3. ToLower(n) \in Seq(Label) /\ DOMAIN ToLower(n) = 1..Len(n)
  BY <1>2, ToLowerType DEF Name
<1>4. Len(ToLower(n)) = Len(n)
  BY <1>1, <1>3, LenProperties
<1> QED
  BY <1>1, <1>2, <1>4

\* Names with the same labels are the same.
LEMMA NameEqual ==
    ASSUME NEW n \in Name, NEW m \in Name, Len(n) = Len(m),
           \A i \in 1..Len(n) : n[i] = m[i]
    PROVE  n = m
BY SeqEqual DEF Name

\* A part of a name, label by label.
LEMMA PartLabels ==
    ASSUME NEW n \in Name, NEW a \in Nat, NEW b \in Nat,
           a >= 1, b <= Len(n), a <= b + 1
    PROVE  /\ SubSeq(n, a, b) \in Name
           /\ Len(SubSeq(n, a, b)) = b - a + 1
           /\ \A i \in 1..(b - a + 1) : SubSeq(n, a, b)[i] = n[a + i - 1]
<1>1. \A i \in a..b : n[i] \in Label
  BY ToLowerLabels
<1>2. /\ SubSeq(n, a, b) \in Seq(Label)
      /\ Len(SubSeq(n, a, b)) = IF a <= b THEN b - a + 1 ELSE 0
      /\ \A i \in 1..(b - a + 1) : SubSeq(n, a, b)[i] = n[a + i - 1]
  BY <1>1, SubSeqProperties
<1> QED
  BY <1>2 DEF Name

\* Trimming a trailing dot, label by label.
LEMMA TrimDotLabels ==
    ASSUME NEW n \in Name
    PROVE  /\ Len(TrimDot(n)) = IF Len(n) > 1 /\ n[Len(n)] = ""
                                THEN Len(n) - 1 ELSE Len(n)
           /\ \A i \in 1..Len(TrimDot(n)) : TrimDot(n)[i] = n[i]
<1>1. Len(n) \in Nat
  BY ToLowerLabels
<1>2. CASE Len(n) > 1 /\ n[Len(n)] = ""
  <2> DEFINE k == Len(n) - 1
  <2>1. Len(n) > 1
    BY <1>2
  <2>2. k \in Nat /\ k <= Len(n) /\ 1 <= k + 1
    BY <1>1, <2>1
  <2>3. TrimDot(n) = SubSeq(n, 1, k)
    BY <1>2 DEF TrimDot
  <2> HIDE DEF k
  <2>4. /\ Len(SubSeq(n, 1, k)) = k - 1 + 1
        /\ \A i \in 1..(k - 1 + 1) : SubSeq(n, 1, k)[i] = n[1 + i - 1]
    BY <2>2, PartLabels
  <2>5. k - 1 + 1 = k /\ \A i \in 1..k : 1 + i - 1 = i
    BY <2>2
  <2>6. Len(TrimDot(n)) = k /\ \A i \in 1..k : TrimDot(n)[i] = n[i]
    BY <2>3, <2>4, <2>5
  <2> QED
    BY <1>2, <2>6 DEF k
<1>3. CASE ~ (Len(n) > 1 /\ n[Len(n)] = "")
  BY <1>1, <1>3 DEF TrimDot
<1> QED
  BY <1>2, <1>3

\* The order of lower-casing and trimming does not matter: relName and acme
\* trim last, CanonicalName first.
LEMMA TrimOfLower ==
    ASSUME NEW n \in Name PROVE TrimDot(ToLower(n)) = CanonicalName(n)
<1> DEFINE low == ToLower(n)
           cut == TrimDot(n)
           a   == TrimDot(low)
           b   == ToLower(cut)
<1>1. low \in Name /\ cut \in Name /\ a \in Name /\ b \in Name
  BY ToLowerType, TrimDotType
<1>2. /\ Len(n) \in Nat /\ \A i \in 1..Len(n) : n[i] \in Label
      /\ Len(low) = Len(n) /\ \A i \in 1..Len(n) : low[i] = LowerOf[n[i]]
  BY ToLowerLabels
<1>3. /\ Len(a) = IF Len(low) > 1 /\ low[Len(low)] = "" THEN Len(low) - 1 ELSE Len(low)
      /\ \A i \in 1..Len(a) : a[i] = low[i]
  BY <1>1, TrimDotLabels
<1>4. /\ Len(cut) = IF Len(n) > 1 /\ n[Len(n)] = "" THEN Len(n) - 1 ELSE Len(n)
      /\ \A i \in 1..Len(cut) : cut[i] = n[i]
  BY TrimDotLabels
<1>5. Len(b) = Len(cut) /\ \A i \in 1..Len(cut) : b[i] = LowerOf[cut[i]]
  BY <1>1, ToLowerLabels
<1> HIDE DEF low, cut, a, b
<1>6. ASSUME NEW i \in 1..Len(n) PROVE (low[i] = "") <=> (n[i] = "")
  BY <1>2, LabelAssumption DEF LabelAssumption
<1>8. Len(a) = Len(cut) /\ Len(cut) \in Nat /\ Len(cut) <= Len(n)
  <2>1. CASE Len(n) > 1 /\ n[Len(n)] = ""
    <3>1. Len(n) > 1 /\ Len(n) \in Nat
      BY <1>2, <2>1
    <3>2. Len(n) \in 1..Len(n)
      BY <3>1
    <3>3. low[Len(low)] = ""
      BY <1>2, <1>6, <2>1, <3>2
    <3>4. Len(a) = Len(low) - 1 /\ Len(cut) = Len(n) - 1
      BY <1>2, <1>3, <1>4, <2>1, <3>3
    <3>5. Len(low) = Len(n)
      BY <1>2
    <3> QED
      BY <3>1, <3>4, <3>5
  <2>2. CASE ~ (Len(n) > 1 /\ n[Len(n)] = "")
    <3>1. Len(n) > 1 => Len(n) \in 1..Len(n)
      BY <1>2
    <3>2. ~ (Len(low) > 1 /\ low[Len(low)] = "")
      BY <1>2, <1>6, <2>2, <3>1
    <3>3. Len(a) = Len(low) /\ Len(cut) = Len(n)
      BY <1>3, <1>4, <2>2, <3>2
    <3> QED
      BY <1>2, <3>3
  <2> QED
    BY <2>1, <2>2
<1>9. \A i \in 1..Len(a) : a[i] = b[i]
  <2> SUFFICES ASSUME NEW i \in 1..Len(a) PROVE a[i] = b[i]
    OBVIOUS
  <2>1. i \in 1..Len(cut) /\ i \in 1..Len(n)
    BY <1>2, <1>8
  <2>2. a[i] = low[i]
    BY <1>3
  <2>3. low[i] = LowerOf[n[i]]
    BY <1>2, <2>1
  <2>4. b[i] = LowerOf[cut[i]] /\ cut[i] = n[i]
    BY <1>4, <1>5, <2>1
  <2> QED
    BY <2>2, <2>3, <2>4
<1>10. a = b
  BY <1>1, <1>5, <1>8, <1>9, NameEqual
<1> QED
  BY <1>10 DEF low, cut, a, b, CanonicalName

\* A valid name is in lower case.
LEMMA ValidIsLower ==
    ASSUME NEW n \in Name, ValidName(n) PROVE ToLower(n) = n
<1>1. \A i \in 1..Len(n) : LowerOf[n[i]] = n[i]
  BY ToLowerLabels, ValidLabelAssumption DEF ValidName, ValidLabelAssumption
<1> QED
  BY <1>1, ToLowerType, ToLowerLabels, NameEqual

\* A name under the zone is its relative part followed by the zone.
LEMMA LeftOfZone ==
    ASSUME NEW n \in Name, NEW z \in Name, Under(n, z)
    PROVE  /\ Left(n, z) \in Name
           /\ Len(Left(n, z)) = Len(n) - Len(z)
           /\ \A i \in 1..(Len(n) - Len(z)) : Left(n, z)[i] = n[i]
           /\ Left(n, z) \o z = n
<1> DEFINE k == Len(n) - Len(z)
           l == Left(n, z)
           w == l \o z
<1>1. Len(n) \in Nat /\ Len(z) \in Nat /\ k \in Nat /\ k <= Len(n) /\ k + Len(z) = Len(n)
  BY ToLowerLabels DEF Under
<1>2. l = SubSeq(n, 1, k) /\ z = SubSeq(n, k + 1, Len(n))
  BY DEF Left, Under
<1> HIDE DEF k, l
<1>3. /\ l \in Name /\ Len(l) = k
      /\ \A i \in 1..k : l[i] = n[i]
  <2>1. /\ l \in Name /\ Len(l) = k - 1 + 1
        /\ \A i \in 1..(k - 1 + 1) : l[i] = n[1 + i - 1]
    BY <1>1, <1>2, PartLabels
  <2>2. k - 1 + 1 = k /\ \A i \in 1..k : 1 + i - 1 = i
    BY <1>1
  <2> QED
    BY <2>1, <2>2
<1>4. \A i \in 1..Len(z) : z[i] = n[k + i]
  <2>1. k + 1 \in Nat /\ k + 1 >= 1 /\ k + 1 <= Len(n) + 1 /\ Len(n) \in Nat /\ Len(n) <= Len(n)
    BY <1>1
  <2>2. \A i \in 1..(Len(n) - (k + 1) + 1) :
          SubSeq(n, k + 1, Len(n))[i] = n[(k + 1) + i - 1]
    BY <2>1, PartLabels
  <2>3. Len(n) - (k + 1) + 1 = Len(z) /\ \A i \in 1..Len(z) : (k + 1) + i - 1 = k + i
    BY <1>1
  <2> QED
    BY <1>2, <2>2, <2>3
<1>5. /\ w \in Name
      /\ Len(w) = Len(n)
      /\ \A i \in 1..Len(n) : w[i] = IF i <= k THEN l[i] ELSE z[i - k]
  BY <1>1, <1>3, ConcatProperties DEF Name
<1> HIDE DEF w
<1>6. \A i \in 1..Len(n) : w[i] = n[i]
  <2> SUFFICES ASSUME NEW i \in 1..Len(n) PROVE w[i] = n[i]
    OBVIOUS
  <2>1. CASE i <= k
    BY <1>1, <1>3, <1>5, <2>1
  <2>2. CASE ~ (i <= k)
    <3>1. i - k \in 1..Len(z) /\ k + (i - k) = i
      BY <1>1, <2>2
    <3> QED
      BY <1>4, <1>5, <2>2, <3>1
  <2> QED
    BY <2>1, <2>2
<1>7. w = n
  BY <1>5, <1>6, NameEqual
<1> QED
  BY <1>3, <1>7 DEF k, l, w

\* A non-empty part followed by the zone is a name under the zone, and the
\* part is what is left of the zone.
LEMMA ConcatIsUnder ==
    ASSUME NEW n \in Name, NEW z \in Name, n # << >>
    PROVE  n \o z \in Name /\ Under(n \o z, z) /\ Left(n \o z, z) = n
<1>1. Len(n) \in Nat \ {0} /\ Len(z) \in Nat
  BY ToLowerLabels, EmptySeq DEF Name
<1>2. /\ n \o z \in Name /\ Len(n \o z) = Len(n) + Len(z)
      /\ \A i \in 1..(Len(n) + Len(z)) :
           (n \o z)[i] = IF i <= Len(n) THEN n[i] ELSE z[i - Len(n)]
  BY ConcatProperties DEF Name
<1>3. \A i \in 1..(Len(n) + Len(z)) : (n \o z)[i] \in Label
  BY <1>2, ToLowerLabels
<1> DEFINE w == n \o z
<1> HIDE DEF w
<1>4. SubSeq(w, Len(n) + 1, Len(n) + Len(z)) = z
  <2>1. \A i \in (Len(n) + 1)..(Len(n) + Len(z)) : w[i] \in Label
    BY <1>1, <1>3 DEF w
  <2>2. /\ SubSeq(w, Len(n) + 1, Len(n) + Len(z)) \in Name
        /\ Len(SubSeq(w, Len(n) + 1, Len(n) + Len(z))) = Len(z)
        /\ \A i \in 1..Len(z) :
             SubSeq(w, Len(n) + 1, Len(n) + Len(z))[i] = w[Len(n) + 1 + i - 1]
    BY <1>1, <2>1, SubSeqProperties DEF Name
  <2>3. ASSUME NEW i \in 1..Len(z)
        PROVE  SubSeq(w, Len(n) + 1, Len(n) + Len(z))[i] = z[i]
    <3>1. Len(n) + 1 + i - 1 \in 1..(Len(n) + Len(z)) /\ Len(n) + 1 + i - 1 > Len(n)
      BY <1>1
    <3>2. w[Len(n) + 1 + i - 1] = z[Len(n) + 1 + i - 1 - Len(n)]
      BY <1>1, <1>2, <3>1 DEF w
    <3>3. Len(n) + 1 + i - 1 - Len(n) = i
      BY <1>1
    <3> QED
      BY <2>2, <3>2, <3>3
  <2> QED
    BY <2>2, <2>3, NameEqual
<1>5. SubSeq(w, 1, Len(n)) = n
  <2>1. \A i \in 1..Len(n) : w[i] = n[i] /\ w[i] \in Label
    BY <1>1, <1>2, <1>3 DEF w
  <2>2. /\ SubSeq(w, 1, Len(n)) \in Name /\ Len(SubSeq(w, 1, Len(n))) = Len(n)
        /\ \A i \in 1..Len(n) : SubSeq(w, 1, Len(n))[i] = w[i]
    BY <1>1, <2>1, SubSeqProperties DEF Name
  <2> QED
    BY <2>1, <2>2, NameEqual
<1>6. /\ Len(w) > Len(z) /\ Len(w) - Len(z) = Len(n)
      /\ Len(w) - Len(z) + 1 = Len(n) + 1 /\ Len(w) = Len(n) + Len(z)
  BY <1>1, <1>2 DEF w
<1>7. Under(w, z) /\ Left(w, z) = n
  BY <1>4, <1>5, <1>6 DEF Under, Left
<1> QED
  BY <1>2, <1>7 DEF w

\* Names under a zone with the same relative part are the same.
LEMMA SameLeft ==
    ASSUME NEW n \in Name, NEW m \in Name, NEW z \in Name,
           Under(n, z), Under(m, z), Left(n, z) = Left(m, z)
    PROVE  n = m
<1>1. Left(n, z) \o z = n
  BY LeftOfZone
<1>2. Left(m, z) \o z = m
  BY LeftOfZone
<1> QED
  BY <1>1, <1>2

\* A label is a name.
LEMMA OneLabel ==
    ASSUME NEW l \in Label
    PROVE  << l >> \in Name /\ << l >> # << >> /\ Len(<< l >>) = 1
BY DEF Name

\* Names are put together in any order.
LEMMA NameConcat ==
    ASSUME NEW a \in Name, NEW b \in Name, NEW c \in Name
    PROVE  (a \o b) \o c = a \o (b \o c)
BY ConcatAssociative DEF Name

\* The zone's apex, and a name below it, is under it once a label is put
\* before it.
LEMMA LabelBefore ==
    ASSUME NEW n \in Name, NEW z \in Name, n = z \/ Under(n, z), NEW l \in Label
    PROVE  Under(<< l >> \o n, z)
<1>1. << l >> \in Name /\ << l >> # << >> /\ Len(<< l >>) = 1
  BY OneLabel
<1>2. CASE n = z
  BY <1>1, <1>2, ConcatIsUnder
<1>3. CASE Under(n, z)
  <2> DEFINE k == Left(n, z)
             w == << l >> \o k
  <2>1. k \in Name /\ k \o z = n
    BY <1>3, LeftOfZone
  <2>2. w \in Name /\ Len(w) = 1 + Len(k) /\ Len(k) \in Nat
    BY <1>1, <2>1, ConcatProperties, ToLowerLabels DEF Name
  <2>4. w \o z = << l >> \o n
    <3>1. << l >> \in Seq(Label) /\ k \in Seq(Label) /\ z \in Seq(Label)
      BY <1>1, <2>1 DEF Name
    <3> HIDE DEF k
    <3>2. (<< l >> \o k) \o z = << l >> \o (k \o z)
      BY <3>1, ConcatAssociative
    <3> QED
      BY <2>1, <3>2
  <2> HIDE DEF w
  <2>3. w # << >>
    <3>1. Len(w) # 0
      BY <2>2
    <3> QED
      BY <3>1
  <2> QED
    BY <2>2, <2>3, <2>4, ConcatIsUnder
<1> QED
  BY <1>2, <1>3

\* The zone is a name.
LEMMA ZoneType == Zone \in Name /\ Len(Zone) \in Nat /\ Len(Zone) > 0
BY ZoneAssumption, ToLowerLabels, EmptySeq DEF ZoneAssumption, Name

\* A canonical name is in lower case, and so is its relative part.
LEMMA CanonicalIsLower ==
    ASSUME NEW n \in Name
    PROVE  /\ ToLower(CanonicalName(n)) = CanonicalName(n)
           /\ Under(CanonicalName(n), Zone) =>
                ToLower(Left(CanonicalName(n), Zone)) = Left(CanonicalName(n), Zone)
<1> DEFINE c == CanonicalName(n)
           t == TrimDot(n)
<1>1. c \in Name /\ t \in Name /\ c = ToLower(t)
  BY CanonicalNameType, TrimDotType DEF CanonicalName
<1> HIDE DEF c, t
<1>2. \A i \in 1..Len(c) : LowerOf[c[i]] = c[i]
  <2>1. /\ Len(c) = Len(t) /\ \A i \in 1..Len(t) : t[i] \in Label
        /\ \A i \in 1..Len(t) : c[i] = LowerOf[t[i]]
    BY <1>1, ToLowerLabels
  <2> QED
    BY <2>1, LabelAssumption DEF LabelAssumption
<1>3. ASSUME NEW m \in Name, \A i \in 1..Len(m) : LowerOf[m[i]] = m[i]
      PROVE  ToLower(m) = m
  BY <1>3, ToLowerType, ToLowerLabels, NameEqual
<1>4. ASSUME Under(c, Zone) PROVE ToLower(Left(c, Zone)) = Left(c, Zone)
  <2> DEFINE l == Left(c, Zone)
  <2>1. /\ l \in Name /\ Len(l) = Len(c) - Len(Zone)
        /\ \A i \in 1..(Len(c) - Len(Zone)) : l[i] = c[i]
    BY <1>1, <1>4, ZoneType, LeftOfZone
  <2>2. Len(c) \in Nat /\ Len(Zone) \in Nat
    BY <1>1, ZoneType, ToLowerLabels
  <2> HIDE DEF l
  <2>3. \A i \in 1..Len(l) : LowerOf[l[i]] = l[i]
    BY <1>2, <2>1, <2>2
  <2>4. ToLower(l) = l
    BY <1>3, <2>1, <2>3
  <2> QED
    BY <2>4 DEF l
<1>5. ToLower(c) = c
  BY <1>1, <1>2, <1>3
<1> QED
  BY <1>4, <1>5 DEF c

(***************************************************************************)
(* The proofs are about the store in the hands of any callers: goroutines  *)
(* that make whatever calls they like, and the next one at once or later.  *)
(* ZoneStore's Spec is one such use, the update API and the resolver are   *)
(* two more.                                                               *)
(***************************************************************************)
Use(O) ==
    \/ Life
    \/ \E g \in Goroutine : Step(g)
    \/ \E g \in Proc : \/ Return(g)
                       \/ \E o \in O : Call(g, o) \/ CallAgain(g, o)

AnyUse == Use(Op)

Usage == Init /\ [][AnyUse]_vars

\* The calls of Ops are one use of the store.
LEMMA SpecIsUsage == Spec => Usage
<1>1. [Next]_vars => [AnyUse]_vars
  BY OpsAssumption DEF Next, AnyUse, Use, OpsAssumption
<1> QED
  BY <1>1, PTL DEF Spec, Usage

(***************************************************************************)
(* Records.                                                                *)
(***************************************************************************)

\* Writing a record as JSON and reading it back gives the record: omitted
\* fields (a zero TTL, the value of a TXT record) come back as they were.
LEMMA RecordRoundTrip ==
    ASSUME NEW r \in Record PROVE UnmarshalJSON(MarshalJSON(r)) = r
<1>1. CASE r.type = "TXT"
  <2>1. /\ r = [type |-> r.type, addr |-> r.addr, txt |-> r.txt, ttl |-> r.ttl]
        /\ r.addr = NoAddr /\ r.ttl \in Nat
    BY <1>1 DEF Record
  <2> QED
    BY <1>1, <2>1 DEF MarshalJSON, UnmarshalJSON
<1>2. CASE r.type # "TXT"
  <2>1. /\ r = [type |-> r.type, addr |-> r.addr, txt |-> r.txt, ttl |-> r.ttl]
        /\ r.txt = << >> /\ r.ttl \in Nat
    BY <1>2 DEF Record
  <2> QED
    BY <1>2, <2>1 DEF MarshalJSON, UnmarshalJSON, AddrString, ParseAddr
<1> QED
  BY <1>1, <1>2

\* A seed's record is one of the records the store holds.
LEMMA SeedRecordType ==
    ASSUME NEW a \in Addr PROVE SeedRecord(a) \in Record
<1>1. Unmap(a) \in Addr
  BY DEF Unmap, Addr, Is4In6
<1> QED
  BY <1>1 DEF SeedRecord, Record

(***************************************************************************)
(* The state file.                                                         *)
(***************************************************************************)

\* A restart restores what was written, but for a serial of 0, which it
\* reads as 1.
LEMMA StateRoundTrip ==
    ASSUME NEW s, State(s)
    PROVE  Loaded(ToDisk(s)) = Restorable(s)
<1> DEFINE D == ToDisk(s)
<1>1. /\ D.kind = "snapshot" /\ D.serial = s.serial
      /\ D.records = [n \in DOMAIN s.records |->
                        {MarshalJSON(r) : r \in s.records[n]}]
  BY DEF ToDisk
<1>2. ASSUME NEW n \in DOMAIN s.records
      PROVE  {UnmarshalJSON(j) : j \in D.records[n]} = s.records[n]
  <2>1. \A r \in s.records[n] : UnmarshalJSON(MarshalJSON(r)) = r
    BY RecordRoundTrip DEF State, RecordMap
  <2>2. D.records[n] = {MarshalJSON(r) : r \in s.records[n]}
    BY <1>1
  <2> HIDE DEF D
  <2> QED
    BY <2>1, <2>2
<1>3. DOMAIN D.records = DOMAIN s.records
  BY <1>1
<1>4. [n \in DOMAIN D.records |-> {UnmarshalJSON(j) : j \in D.records[n]}]
        = [n \in DOMAIN s.records |-> s.records[n]]
  BY <1>2, <1>3
<1>5. s = [serial |-> s.serial, records |-> s.records]
  BY DEF State
<1>6. [n \in DOMAIN s.records |-> s.records[n]] = s.records
  BY DEF State, RecordMap
<1>7. Loaded(D) = [serial |-> LoadedSerial(s.serial), records |-> s.records]
  BY <1>1, <1>4, <1>6 DEF Loaded
<1>8. Restorable(s) = [serial |-> LoadedSerial(s.serial), records |-> s.records]
  BY <1>5 DEF Restorable
<1> QED
  BY <1>7, <1>8

\* The JSON of a state is a file a restart accepts.
LEMMA ToDiskType == ASSUME NEW s, State(s) PROVE FileOK(ToDisk(s))
<1>1. Loaded(ToDisk(s)) = [serial |-> LoadedSerial(s.serial), records |-> s.records]
  <2>1. s = [serial |-> s.serial, records |-> s.records]
    BY DEF State
  <2> QED
    BY <2>1, StateRoundTrip DEF Restorable
<1>2. LoadedSerial(s.serial) \in 0..(SerialMod - 1)
  BY SerialModAssumption DEF LoadedSerial, State, SerialModAssumption
<1>3. State(Loaded(ToDisk(s)))
  BY <1>1, <1>2 DEF State
<1> QED
  BY <1>3 DEF FileOK, ToDisk

\* A new store, and so a missing or a torn file, is a state.
LEMMA NewStoreType == State(NewStore) /\ FileOK(NoFile) /\ FileOK(Torn)
<1>1. State(NewStore)
  BY SerialModAssumption
  DEF State, NewStore, RecordMap, NoRecords, SerialModAssumption
<1> QED
  BY <1>1 DEF FileOK, NoFile, Torn, Loaded

(***************************************************************************)
(* What the mutations make of the map.                                     *)
(***************************************************************************)

\* The entry of a name holds records, whether the name has one or not.
LEMMA AtType ==
    ASSUME NEW recs, RecordMap(recs), NEW n PROVE At(recs, n) \subseteq Record
BY DEF At, RecordMap

\* Set's map is a map of records.
LEMMA SetInType ==
    ASSUME NEW recs, RecordMap(recs), NEW n \in Name, NEW r \in Record
    PROVE  RecordMap(SetIn(recs, n, r))
<1>1. Kept(At(recs, n), r.type) \cup {r} \subseteq Record
  BY AtType DEF Kept
<1> QED
  BY <1>1 DEF SetIn, RecordMap

\* Delete's map is a map of records.
LEMMA DeleteInType ==
    ASSUME NEW recs, RecordMap(recs), NEW n \in DOMAIN recs, NEW typ
    PROVE  RecordMap(DeleteIn(recs, n, typ))
<1>1. KeptByDelete(recs[n], typ) \subseteq recs[n]
  BY DEF KeptByDelete, Kept
<1>2. CASE KeptByDelete(recs[n], typ) = {}
  BY <1>2 DEF DeleteIn, RecordMap
<1>3. CASE KeptByDelete(recs[n], typ) # {}
  BY <1>1, <1>3 DEF DeleteIn, RecordMap
<1> QED
  BY <1>2, <1>3

\* The serial wraps, it does not overflow.
LEMMA BumpType ==
    ASSUME NEW s \in 0..(SerialMod - 1) PROVE Bump(s) \in 0..(SerialMod - 1)
BY SerialModAssumption DEF Bump, SerialModAssumption

\* The fields of a call.
LEMMA OpFields ==
    ASSUME NEW o \in Op
    PROVE  /\ o.op \in {"Set", "Delete", "Lookup", "Names", "Serial"}
           /\ o.op = "Set" => o.name \in Name /\ o.rec \in Record
           /\ o.op = "Delete" =>
                o.name \in Name /\ o.typ \in Type \cup {AllTypes}
           /\ o.op = "Lookup" => o.name \in Name
BY DEF Op

\* What a mutation promises has the type of acked.
LEMMA PromisedType ==
    ASSUME NEW o \in Op, o.op \in {"Set", "Delete"}
    PROVE  Promised(o) \subseteq [name : Name, type : Type, recs : SUBSET Record]
<1>1. o.name \in Name /\ ToLower(o.name) \in Name
  BY OpFields, ToLowerType
<1>2. CASE o.op = "Set"
  <2>1. o.rec \in Record /\ o.rec.type \in Type
    BY <1>2, OpFields DEF Record, Type
  <2> QED
    BY <1>1, <1>2, <2>1 DEF Promised
<1>3. CASE o.op = "Delete"
  <2>1. (IF o.typ = AllTypes THEN Type ELSE {o.typ}) \subseteq Type
    BY <1>3, OpFields
  <2> QED
    BY <1>1, <1>3, <2>1 DEF Promised
<1> QED
  BY <1>2, <1>3

(***************************************************************************)
(* Types and the lock.                                                     *)
(***************************************************************************)

\* The program counters of a goroutine.
Pcs == {"idle", "enter", "done"} \cup LockedPcs

\* What Finish does to the calls' variables.
LEMMA FinishType ==
    ASSUME TypeOK, NEW g \in Goroutine, NEW r \in Ret, Finish(g, r)
    PROVE  /\ call' \in [Goroutine -> Op]
           /\ pc' \in [Goroutine -> Pcs]
           /\ ret' \in [Goroutine -> Ret]
           /\ pc'[g] = "done"
           /\ \A h \in Goroutine : h # g => pc'[h] = pc[h]
BY DEF Finish, TypeOK, Pcs

\* The results of the calls are results.
LEMMA RetTypes ==
    /\ NoRet \in Ret
    /\ \A e \in Err : [err |-> e] \in Ret
    /\ \A e \in Err : [removed |-> TRUE, err |-> e] \in Ret
    /\ \A e \in Err : [removed |-> FALSE, err |-> e] \in Ret
    /\ \A rs \in SUBSET Record : [recs |-> rs] \in Ret
    /\ \A ns \in SUBSET Name : [names |-> ns] \in Ret
    /\ \A n \in 0..(SerialMod - 1) : [serial |-> n] \in Ret
BY DEF NoRet, Ret, Err

\* A call that enters: Call and SeedCall.
LEMMA EnterStep ==
    ASSUME TypeOK, LockInv, phase # "down", phase' = phase,
           NEW g \in Goroutine, NEW o \in Op, Enter(g, o),
           seeded' \in 0..Len(Seeds)
    PROVE  TypeOK' /\ LockInv'
<1>1. TypeOK'
  BY DEF TypeOK, Enter, memVars, diskVars, history, Snapshot
<1>2. \A h \in Goroutine : h # g => pc'[h] = pc[h] /\ call'[h] = call[h]
  BY DEF TypeOK, Enter
<1>3. pc'[g] = "enter" /\ pc[g] = "idle" /\ mu' = mu
  BY DEF TypeOK, Enter, memVars
<1>4. LockInv'
  BY <1>2, <1>3 DEF LockInv, LockedPcs
<1> QED
  BY <1>1, <1>4

\* A call that leaves: Return and SeedReturn.
LEMMA LeaveStep ==
    ASSUME TypeOK, LockInv, phase # "down",
           NEW g \in Goroutine, Leave(g), UNCHANGED << phase, seeded >>
    PROVE  TypeOK' /\ LockInv'
<1>1. NamesCall \in Op
  BY DEF NamesCall, Op
<1>2. TypeOK'
  BY <1>1, RetTypes DEF TypeOK, Leave, memVars, diskVars, history, Snapshot
<1>3. \A h \in Goroutine : h # g => pc'[h] = pc[h] /\ call'[h] = call[h]
  BY DEF TypeOK, Leave
<1>4. pc'[g] = "idle" /\ pc[g] = "done" /\ mu' = mu
  BY DEF TypeOK, Leave, memVars
<1>5. LockInv'
  BY <1>3, <1>4 DEF LockInv, LockedPcs
<1> QED
  BY <1>2, <1>5

\* A call that follows on another: CallAgain.
LEMMA AgainStep ==
    ASSUME TypeOK, LockInv, NEW g \in Goroutine, NEW o \in Op, CallAgain(g, o)
    PROVE  TypeOK' /\ LockInv'
<1>1. TypeOK'
  BY RetTypes DEF TypeOK, CallAgain, memVars, diskVars, history, Snapshot
<1>2. \A h \in Goroutine : h # g => pc'[h] = pc[h] /\ call'[h] = call[h]
  BY DEF TypeOK, CallAgain
<1>3. pc'[g] = "enter" /\ pc[g] = "done" /\ mu' = mu /\ phase' = phase
  BY DEF TypeOK, CallAgain, memVars
<1>4. LockInv'
  BY <1>2, <1>3 DEF LockInv, LockedPcs
<1> QED
  BY <1>1, <1>4

\* A call that returns without a change: SetInvalid, DeleteMiss and Read.
LEMMA QuietStep ==
    ASSUME TypeOK, LockInv, NEW g \in Goroutine, NEW r \in Ret,
           pc[g] = "enter", Finish(g, r),
           UNCHANGED << phase, seeded, memVars, diskVars, history >>
    PROVE  TypeOK' /\ LockInv'
<1>1. TypeOK'
  BY FinishType DEF TypeOK, Pcs, memVars, diskVars, history, Snapshot
<1>2. call' = call /\ mu' = mu
  BY DEF Finish, memVars
<1>3. LockInv'
  BY <1>2, FinishType DEF LockInv, LockedPcs
<1> QED
  BY <1>1, <1>3

\* A call that takes the lock and changes the map: SetLocked, DeleteLocked.
LEMMA MutateStep ==
    ASSUME TypeOK, LockInv, NEW g \in Goroutine, NEW recs, RecordMap(recs),
           call[g].op \in {"Set", "Delete"}, pc[g] = "enter", Mutate(g, recs)
    PROVE  TypeOK' /\ LockInv'
<1>1. Snapshot' = [serial |-> Bump(serial), records |-> recs]
  BY DEF Mutate, Snapshot
<1>2. serial \in 0..(SerialMod - 1)
  BY DEF TypeOK, State, Snapshot
<1>3. State(Snapshot')
  BY <1>1, <1>2, BumpType DEF State
<1>4. acked' \subseteq acked
  BY DEF Mutate
<1>5. TypeOK'
  BY <1>3, <1>4 DEF TypeOK, Mutate, diskVars, LockedPcs
<1>6. \A h \in Goroutine : h # g => pc'[h] = pc[h]
  BY DEF TypeOK, Mutate
<1>7. pc'[g] = "open" /\ mu = Nobody /\ mu' = g /\ call' = call /\ phase' = phase
  BY DEF TypeOK, Mutate
<1>8. LockInv'
  BY <1>6, <1>7, ProcAssumption DEF LockInv, LockedPcs, ProcAssumption
<1> QED
  BY <1>5, <1>8

\* A call that unlocks and returns: Persisted, PersistFail.
LEMMA UnlockStep ==
    ASSUME TypeOK, LockInv, NEW g \in Goroutine, NEW err \in Err,
           pc[g] \in LockedPcs, Unlock(g, err),
           UNCHANGED diskVars, stale' \in BOOLEAN
    PROVE  TypeOK' /\ LockInv'
<1>1. Mutated(call[g], err) \in Ret
  BY RetTypes DEF Mutated
<1>2. call[g] \in Op /\ call[g].op \in {"Set", "Delete"}
  BY DEF TypeOK, LockInv
<1>3. acked' \subseteq acked \cup Promised(call[g])
  BY DEF Unlock
<1>4. acked' \subseteq [name : Name, type : Type, recs : SUBSET Record]
  BY <1>2, <1>3, PromisedType DEF TypeOK
<1>5. Finish(g, Mutated(call[g], err))
  BY DEF Unlock
<1>6. TypeOK'
  BY <1>1, <1>4, <1>5, FinishType DEF TypeOK, Unlock, Pcs, diskVars, Snapshot
<1>7. mu = g /\ mu' = Nobody /\ call' = call /\ phase' = phase
  BY DEF LockInv, Unlock, Finish
<1>8. LockInv'
  <2>1. \A h \in Goroutine : h # g => pc[h] \notin LockedPcs
    BY <1>7 DEF LockInv
  <2>2. \A h \in Goroutine : pc'[h] \notin LockedPcs
    BY <1>1, <1>5, <2>1, FinishType DEF LockedPcs
  <2>3. phase # "down"
    BY DEF LockInv, LockedPcs
  <2> QED
    BY <1>7, <2>2, <2>3, ProcAssumption DEF LockInv, ProcAssumption
<1> QED
  BY <1>6, <1>8

\* A step of persistLocked that keeps the lock: OpenTmp, FillTmp, RenameTmp.
LEMMA WriteStep ==
    ASSUME TypeOK, LockInv, NEW g \in Goroutine, NEW p \in LockedPcs,
           pc[g] \in LockedPcs, pc' = [pc EXCEPT ![g] = p],
           UNCHANGED << phase, seeded, memVars, call, ret, visible, acked >>,
           FileOK(file'), FileOK(tmp'), stale' \in BOOLEAN
    PROVE  TypeOK' /\ LockInv'
<1>1. TypeOK'
  BY DEF TypeOK, memVars, Snapshot
<1>2. \A h \in Goroutine : h # g => pc'[h] = pc[h]
  BY DEF TypeOK
<1>3. pc'[g] = p /\ mu' = mu /\ call' = call /\ phase' = phase
  BY DEF TypeOK, memVars
<1>4. phase # "down"
  BY DEF LockInv, LockedPcs
<1>5. LockInv'
  BY <1>2, <1>3, <1>4 DEF LockInv
<1> QED
  BY <1>1, <1>5

\* Every step keeps the types and the lock discipline.
LEMMA TypeLockStep ==
    ASSUME TypeOK, LockInv, [AnyUse]_vars PROVE TypeOK' /\ LockInv'
<1>1. CASE UNCHANGED vars
  BY <1>1
  DEF TypeOK, LockInv, vars, memVars, procVars, diskVars, history, Snapshot
<1>2. CASE Start
  <2>1. State(Loaded(file)) /\ State(Snapshot')
    <3>1. Snapshot' = [serial |-> Loaded(file).serial, records |-> Loaded(file).records]
      BY <1>2 DEF Start, Snapshot
    <3> QED
      BY <3>1 DEF TypeOK, FileOK, State
  <2>2. TypeOK'
    BY <1>2, <2>1 DEF TypeOK, Start, procVars, diskVars
  <2>3. LockInv'
    BY <1>2 DEF LockInv, Start, procVars
  <2> QED
    BY <2>2, <2>3
<1>3. CASE SeedCall
  <2>1. seeded + 1 \in 1..Len(Seeds)
    BY <1>3, SeedsAssumption DEF SeedCall, TypeOK, SeedsAssumption
  <2>2. Seeds[seeded + 1] \in [name : Name, addr : Addr]
    <3> DEFINE S == [name : Name, addr : Addr]
    <3>1. Seeds \in Seq(S)
      BY SeedsAssumption DEF SeedsAssumption
    <3> HIDE DEF S
    <3>2. Seeds[seeded + 1] \in S
      BY <2>1, <3>1, ElementOfSeq
    <3> QED
      BY <3>2 DEF S
  <2> DEFINE o == SetCall(CanonicalName(Seeds[seeded + 1].name),
                          SeedRecord(Seeds[seeded + 1].addr))
  <2>3. o \in Op
    <3>1. CanonicalName(Seeds[seeded + 1].name) \in Name
      BY <2>2, CanonicalNameType
    <3>2. SeedRecord(Seeds[seeded + 1].addr) \in Record
      BY <2>2, SeedRecordType
    <3> QED
      BY <3>1, <3>2 DEF SetCall, Op
  <2>4. /\ Enter(Main, o) /\ phase # "down" /\ phase' = phase
        /\ seeded' \in 0..Len(Seeds)
    BY <1>3, <2>1 DEF SeedCall
  <2> HIDE DEF o
  <2> QED
    BY <2>3, <2>4, EnterStep DEF Goroutine
<1>4. CASE SeedReturn
  BY <1>4, LeaveStep DEF SeedReturn, Goroutine
<1>5. CASE Listen
  BY <1>5 DEF Listen, TypeOK, LockInv, memVars, procVars, diskVars, history, Snapshot
<1>6. CASE Stop
  <2>1. Snapshot' = NewStore
    BY <1>6 DEF Stop, Snapshot, NewStore
  <2>2. acked' \subseteq acked
    BY <1>6 DEF Stop
  <2>3. NamesCall \in Op
    BY DEF NamesCall, Op
  <2>4. 0 \in 0..Len(Seeds)
    BY SeedsAssumption DEF SeedsAssumption
  <2>5. TypeOK'
    BY <1>6, <2>1, <2>2, <2>3, <2>4, NewStoreType, RetTypes
    DEF TypeOK, Stop, diskVars
  <2>6. LockInv'
    BY <1>6, ProcAssumption DEF Stop, LockInv, LockedPcs, ProcAssumption
  <2> QED
    BY <2>5, <2>6
<1>7. CASE \E g \in Goroutine : Step(g)
  <2> PICK g \in Goroutine : Step(g)
    BY <1>7
  <2>1. call[g] \in Op
    BY DEF TypeOK
  <2>2. CASE SetInvalid(g)
    <3>1. [err |-> "ErrBadName"] \in Ret
      BY RetTypes DEF Err
    <3> QED
      BY <2>2, <3>1, QuietStep DEF SetInvalid
  <2>3. CASE SetLocked(g)
    <3>1. RecordMap(SetIn(records, ToLower(call[g].name), call[g].rec))
      BY <2>1, <2>3, OpFields, ToLowerType, SetInType
      DEF SetLocked, TypeOK, State, Snapshot
    <3> QED
      BY <2>3, <3>1, MutateStep DEF SetLocked
  <2>4. CASE DeleteMiss(g)
    <3>1. [removed |-> FALSE, err |-> "nil"] \in Ret
      BY RetTypes DEF Err
    <3> QED
      BY <2>4, <3>1, QuietStep DEF DeleteMiss
  <2>5. CASE DeleteLocked(g)
    <3>1. RecordMap(DeleteIn(records, ToLower(call[g].name), call[g].typ))
      BY <2>5, DeleteInType DEF DeleteLocked, Removes, TypeOK, State, Snapshot
    <3> QED
      BY <2>5, <3>1, MutateStep DEF DeleteLocked
  <2>6. CASE Read(g)
    <3>1. RecordMap(records) /\ serial \in 0..(SerialMod - 1)
      BY DEF TypeOK, State, Snapshot
    <3>2. /\ [recs |-> At(records, ToLower(call[g].name))] \in Ret
          /\ [names |-> DOMAIN records] \in Ret
          /\ [serial |-> serial] \in Ret
      BY <3>1, AtType, RetTypes DEF RecordMap
    <3> QED
      BY <2>6, <3>2, QuietStep DEF Read
  <2>7. CASE Persisted(g) /\ ~ Persistent
    BY <2>7, UnlockStep DEF Persisted, LockedPcs, Err, TypeOK
  <2>8. CASE OpenTmp(g)
    <3>1. FileOK(file') /\ FileOK(tmp')
      BY <2>8, NewStoreType DEF OpenTmp, TypeOK
    <3> QED
      BY <2>8, <3>1, WriteStep DEF OpenTmp, LockedPcs, history, TypeOK
  <2>9. CASE FillTmp(g)
    <3>1. FileOK(file') /\ FileOK(tmp')
      BY <2>9, ToDiskType DEF FillTmp, TypeOK
    <3> QED
      BY <2>9, <3>1, WriteStep DEF FillTmp, LockedPcs, history, TypeOK
  <2>10. CASE RenameTmp(g)
    <3>1. FileOK(file') /\ FileOK(tmp')
      BY <2>10, NewStoreType DEF RenameTmp, TypeOK
    <3> QED
      BY <2>10, <3>1, WriteStep DEF RenameTmp, LockedPcs
  <2>11. CASE Persisted(g) /\ Persistent
    BY <2>11, UnlockStep DEF Persisted, LockedPcs, Err, TypeOK
  <2>12. CASE PersistFail(g)
    BY <2>12, UnlockStep DEF PersistFail, LockedPcs, Err
  <2> QED
    BY <2>2, <2>3, <2>4, <2>5, <2>6, <2>7, <2>8, <2>9, <2>10, <2>11, <2>12
    DEF Step
<1>8. CASE \E g \in Proc : Return(g) \/ \E o \in Op : Call(g, o) \/ CallAgain(g, o)
  <2> PICK g \in Proc : Return(g) \/ \E o \in Op : Call(g, o) \/ CallAgain(g, o)
    BY <1>8
  <2>1. g \in Goroutine
    BY DEF Goroutine
  <2>2. CASE Return(g)
    BY <2>1, <2>2, LeaveStep DEF Return
  <2>3. ASSUME NEW o \in Op, Call(g, o) PROVE TypeOK' /\ LockInv'
    <3>1. seeded' \in 0..Len(Seeds)
      BY <2>3 DEF Call, TypeOK
    <3> QED
      BY <2>1, <2>3, <3>1, EnterStep DEF Call
  <2>4. ASSUME NEW o \in Op, CallAgain(g, o) PROVE TypeOK' /\ LockInv'
    BY <2>1, <2>4, AgainStep
  <2> QED
    BY <2>2, <2>3, <2>4
<1> QED
  BY <1>1, <1>2, <1>3, <1>4, <1>5, <1>6, <1>7, <1>8 DEF AnyUse, Use, Life

\* The initial state has the types and the lock discipline.
LEMMA TypeLockInit == Init => TypeOK /\ LockInv
<1> SUFFICES ASSUME Init PROVE TypeOK /\ LockInv
  OBVIOUS
<1>1. NamesCall \in Op
  BY DEF NamesCall, Op
<1>2. Snapshot = NewStore
  BY DEF Init, Snapshot, NewStore
<1>3. 0 \in 0..Len(Seeds)
  BY SeedsAssumption DEF SeedsAssumption
<1>4. TypeOK
  BY <1>1, <1>2, <1>3, NewStoreType, RetTypes DEF Init, TypeOK
<1>5. LockInv
  BY ProcAssumption DEF Init, LockInv, LockedPcs, ProcAssumption
<1> QED
  BY <1>4, <1>5

\* The store is type-correct for every set of goroutines, names and calls,
\* and the serial stays within its width.
THEOREM TypeCorrect == Spec => []TypeOK
<1>1. TypeOK /\ LockInv /\ [AnyUse]_vars => (TypeOK /\ LockInv)'
  BY TypeLockStep
<1> QED
  BY <1>1, TypeLockInit, SpecIsUsage, PTL DEF Usage

\* Set and Delete exclude one another from the change of the map to the
\* return, the write of the state file included.
THEOREM MutualExclusion == Spec => []LockInv
<1>1. TypeOK /\ LockInv /\ [AnyUse]_vars => (TypeOK /\ LockInv)'
  BY TypeLockStep
<1> QED
  BY <1>1, TypeLockInit, SpecIsUsage, PTL DEF Usage

(***************************************************************************)
(* The state file.                                                         *)
(***************************************************************************)

\* A restored state is restored as itself.
LEMMA RestoredTwice ==
    ASSUME NEW f, FileOK(f) PROVE Restorable(Loaded(f)) = Loaded(f)
<1>1. LoadedSerial(Loaded(f).serial) = Loaded(f).serial
  BY DEF Loaded, LoadedSerial, NewStore
<1>2. Loaded(f) = [serial |-> Loaded(f).serial, records |-> Loaded(f).records]
  BY DEF FileOK, State
<1> QED
  BY <1>1, <1>2 DEF Restorable

\* No second goroutine is past the lock.
LEMMA OnlyHolder ==
    ASSUME LockInv, NEW g \in Goroutine, pc[g] \in LockedPcs,
           NEW h \in Goroutine, h # g
    PROVE  pc[h] \notin LockedPcs
BY DEF LockInv

\* While the lock is free, no goroutine is past it.
LEMMA FreeLock ==
    ASSUME LockInv, mu = Nobody, NEW h \in Goroutine
    PROVE  pc[h] \notin LockedPcs
BY ProcAssumption DEF LockInv, ProcAssumption

\* While nothing runs, the lock is free.
LEMMA DownIsFree == ASSUME TypeOK, LockInv, phase = "down" PROVE mu = Nobody
BY DEF TypeOK, LockInv, LockedPcs

\* A step that moves one goroutine between program counters outside the
\* lock, and nothing else DiskInv speaks of.
LEMMA DiskInvQuiet ==
    ASSUME TypeOK, DiskInv, NEW g \in Goroutine,
           NEW p \in {"idle", "enter", "done"}, pc[g] \notin LockedPcs,
           pc' = [pc EXCEPT ![g] = p],
           UNCHANGED << phase, memVars, diskVars, history >>
    PROVE  DiskInv'
<1>1. pc'[g] = p /\ \A h \in Goroutine : h # g => pc'[h] = pc[h]
  BY DEF TypeOK
<1>2. UNCHANGED << phase, mu, Snapshot, file, tmp, visible, stale >>
  BY DEF memVars, diskVars, history, Snapshot
<1> QED
  BY <1>1, <1>2 DEF DiskInv, LockedPcs

\* A mutation changes memory while nothing else is under way.
LEMMA DiskInvMutate ==
    ASSUME TypeOK, LockInv, DiskInv, NEW g \in Goroutine, NEW recs,
           pc[g] = "enter", Mutate(g, recs)
    PROVE  DiskInv'
<1>1. \A h \in Goroutine : pc[h] \notin LockedPcs
  BY FreeLock DEF Mutate
<1>2. pc'[g] = "open" /\ \A h \in Goroutine : h # g => pc'[h] = pc[h]
  BY DEF TypeOK, Mutate
<1>3. mu' # Nobody
  BY ProcAssumption DEF Mutate, ProcAssumption
<1> QED
  BY <1>1, <1>2, <1>3 DEF DiskInv, Mutate, diskVars, LockedPcs

\* Every step keeps the files and the readable state in step.
LEMMA DiskInvStep ==
    ASSUME TypeOK, LockInv, DiskInv, [AnyUse]_vars PROVE DiskInv'
<1>1. CASE UNCHANGED vars
  BY <1>1 DEF DiskInv, vars, memVars, procVars, diskVars, history, Snapshot
<1>2. CASE Start
  <2>1. FileOK(file) /\ State(Loaded(file))
    BY DEF TypeOK, FileOK
  <2>2. Snapshot' = Loaded(file)
    BY <1>2, <2>1 DEF Start, Snapshot, State
  <2>3. \A h \in Goroutine : pc'[h] = "idle"
    BY <1>2 DEF Start, procVars, LockInv
  <2>4. file' = file /\ visible' = Loaded(file)
    BY <1>2 DEF Start, diskVars
  <2> QED
    BY <2>1, <2>2, <2>3, <2>4, RestoredTwice DEF DiskInv
<1>3. CASE SeedCall
  BY <1>3, DiskInvQuiet DEF SeedCall, Enter, Goroutine, LockedPcs
<1>4. CASE SeedReturn
  BY <1>4, DiskInvQuiet DEF SeedReturn, Leave, Goroutine, LockedPcs
<1>5. CASE Listen
  BY <1>5 DEF Listen, DiskInv, memVars, procVars, diskVars, history, Snapshot
<1>6. CASE Stop
  <2>1. phase' = "down" /\ file' = file /\ \A h \in Goroutine : pc'[h] = "idle"
    BY <1>6 DEF Stop, diskVars
  <2> QED
    BY <2>1 DEF DiskInv
<1>7. CASE \E g \in Goroutine : Step(g)
  <2> PICK g \in Goroutine : Step(g)
    BY <1>7
  <2>1. CASE SetInvalid(g)
    BY <2>1, DiskInvQuiet DEF SetInvalid, Finish, LockedPcs
  <2>2. CASE SetLocked(g)
    BY <2>2, DiskInvMutate DEF SetLocked
  <2>3. CASE DeleteMiss(g)
    BY <2>3, DiskInvQuiet DEF DeleteMiss, Finish, LockedPcs
  <2>4. CASE DeleteLocked(g)
    BY <2>4, DiskInvMutate DEF DeleteLocked
  <2>5. CASE Read(g)
    BY <2>5, DiskInvQuiet DEF Read, Finish, LockedPcs
  <2>6. ASSUME pc[g] \in LockedPcs, NEW err, Unlock(g, err),
               \/ ~ Persistent
               \/ stale'
               \/ Loaded(file) = Restorable(Snapshot),
               UNCHANGED diskVars
        PROVE  DiskInv'
    <3>1. \A h \in Goroutine : pc'[h] \notin LockedPcs
      BY <2>6, OnlyHolder DEF Unlock, Finish, TypeOK, LockedPcs
    <3>2. visible' = Snapshot /\ Snapshot' = Snapshot /\ file' = file
      BY <2>6 DEF Unlock, Snapshot, diskVars
    <3> QED
      BY <2>6, <3>1, <3>2 DEF DiskInv, LockedPcs
  <2>7. CASE Persisted(g) /\ ~ Persistent
    BY <2>6, <2>7 DEF Persisted, LockedPcs
  <2>8. CASE Persisted(g) /\ Persistent
    <3>1. Loaded(file) = Restorable(Snapshot)
      BY <2>8, StateRoundTrip DEF Persisted, DiskInv, TypeOK
    <3> QED
      BY <2>6, <2>8, <3>1 DEF Persisted, LockedPcs
  <2>9. CASE PersistFail(g)
    BY <2>6, <2>9 DEF PersistFail, LockedPcs
  <2>10. CASE OpenTmp(g)
    <3>1. pc[g] = "open" /\ pc'[g] = "write"
      BY <2>10 DEF OpenTmp, TypeOK
    <3>2. \A h \in Goroutine : h # g => pc[h] \notin LockedPcs /\ pc'[h] = pc[h]
      BY <2>10, <3>1, OnlyHolder DEF OpenTmp, TypeOK, LockedPcs
    <3>3. UNCHANGED << phase, mu, Snapshot, file, visible, stale >>
      BY <2>10 DEF OpenTmp, memVars, history, Snapshot
    <3> QED
      BY <3>1, <3>2, <3>3 DEF DiskInv, LockedPcs
  <2>11. CASE FillTmp(g)
    <3>1. pc[g] = "write" /\ pc'[g] = "rename"
      BY <2>11 DEF FillTmp, TypeOK
    <3>2. \A h \in Goroutine : h # g => pc[h] \notin LockedPcs /\ pc'[h] = pc[h]
      BY <2>11, <3>1, OnlyHolder DEF FillTmp, TypeOK, LockedPcs
    <3>3. UNCHANGED << phase, mu, Snapshot, file, visible, stale >>
      BY <2>11 DEF FillTmp, memVars, history, Snapshot
    <3>4. tmp' = ToDisk(Snapshot')
      BY <2>11, <3>3 DEF FillTmp
    <3> QED
      BY <3>1, <3>2, <3>3, <3>4 DEF DiskInv, LockedPcs
  <2>12. CASE RenameTmp(g)
    <3>1. pc[g] = "rename" /\ pc'[g] = "unlock"
      BY <2>12 DEF RenameTmp, TypeOK
    <3>2. \A h \in Goroutine : h # g => pc[h] \notin LockedPcs /\ pc'[h] = pc[h]
      BY <2>12, <3>1, OnlyHolder DEF RenameTmp, TypeOK, LockedPcs
    <3>3. UNCHANGED << phase, mu, Snapshot, visible >>
      BY <2>12 DEF RenameTmp, memVars, Snapshot
    <3>4. file' = ToDisk(Snapshot') /\ file'.kind = "snapshot"
      BY <2>12, <3>1, <3>3 DEF RenameTmp, DiskInv, ToDisk
    <3> QED
      BY <3>1, <3>2, <3>3, <3>4 DEF DiskInv, LockedPcs
  <2> QED
    BY <2>1, <2>2, <2>3, <2>4, <2>5, <2>7, <2>8, <2>9, <2>10, <2>11, <2>12
    DEF Step
<1>8. CASE \E g \in Proc : Return(g) \/ \E o \in Op : Call(g, o) \/ CallAgain(g, o)
  <2> PICK g \in Proc : Return(g) \/ \E o \in Op : Call(g, o) \/ CallAgain(g, o)
    BY <1>8
  <2>1. CASE Return(g)
    BY <2>1, DiskInvQuiet DEF Return, Leave, Goroutine, LockedPcs
  <2>2. ASSUME NEW o \in Op, Call(g, o) \/ CallAgain(g, o) PROVE DiskInv'
    BY <2>2, DiskInvQuiet DEF Call, CallAgain, Enter, Goroutine, LockedPcs
  <2> QED
    BY <2>1, <2>2
<1> QED
  BY <1>1, <1>2, <1>3, <1>4, <1>5, <1>6, <1>7, <1>8 DEF AnyUse, Use, Life

\* Initially there is no file and nothing is under way.
LEMMA DiskInvInit == Init => DiskInv
BY DEF Init, DiskInv, NoFile

\* Types, lock and files together are inductive.
LEMMA DiskInvAlways == Usage => [](TypeOK /\ LockInv /\ DiskInv)
<1>1. /\ TypeOK /\ LockInv /\ DiskInv
      /\ [AnyUse]_vars
      => (TypeOK /\ LockInv /\ DiskInv)'
  BY TypeLockStep, DiskInvStep
<1> QED
  BY <1>1, TypeLockInit, DiskInvInit, PTL DEF Usage

\* However writes fail and whenever the process dies, the state file is
\* never half-written: a restart always finds a file that Load accepts.
THEOREM NeverTorn == Spec => []StateFileNeverTorn
<1>1. DiskInv => StateFileNeverTorn
  BY DEF DiskInv, StateFileNeverTorn, Torn
<1> QED
  BY <1>1, DiskInvAlways, SpecIsUsage, PTL

\* Unless the last write failed, a restart restores what readers see, or the
\* one mutation that is on disk and about to be unlocked.
THEOREM Durable == Spec => []VisibleIsDurable
<1>1. TypeOK /\ LockInv /\ DiskInv => VisibleIsDurable
  <2> SUFFICES ASSUME TypeOK, LockInv, DiskInv,
                      Persistent, phase # "down", ~ stale,
                      Loaded(file) # Restorable(visible)
               PROVE  /\ mu # Nobody /\ pc[mu] = "unlock"
                      /\ Loaded(file) = Restorable(Snapshot)
    BY DEF VisibleIsDurable
  <2>1. PICK g \in Goroutine : pc[g] = "unlock"
    BY DEF DiskInv
  <2>2. mu = g /\ g # Nobody
    BY <2>1, ProcAssumption DEF LockInv, LockedPcs, ProcAssumption
  <2>3. Loaded(file) = Restorable(Snapshot)
    BY <2>1, StateRoundTrip DEF DiskInv, TypeOK
  <2> QED
    BY <2>1, <2>2, <2>3
<1> QED
  BY <1>1, DiskInvAlways, SpecIsUsage, PTL

(***************************************************************************)
(* What callers were told.                                                 *)
(***************************************************************************)

\* Set leaves exactly its record of its type at its name ...
LEMMA SetKeeps ==
    ASSUME NEW recs, NEW n, NEW r
    PROVE  OfType(At(SetIn(recs, n, r), n), r.type) = {r}
<1>1. At(SetIn(recs, n, r), n) = Kept(At(recs, n), r.type) \cup {r}
  BY DEF At, SetIn
<1> QED
  BY <1>1 DEF OfType, Kept

\* ... and every other name and type alone.
LEMMA SetKeepsOthers ==
    ASSUME NEW recs, NEW n, NEW r, NEW p, Keeps(recs, p),
           p.name # n \/ p.type # r.type
    PROVE  Keeps(SetIn(recs, n, r), p)
<1>1. CASE p.name # n
  <2>1. At(SetIn(recs, n, r), p.name) = At(recs, p.name)
    BY <1>1 DEF At, SetIn
  <2> QED
    BY <2>1 DEF Keeps
<1>2. CASE p.name = n /\ p.type # r.type
  <2>1. At(SetIn(recs, n, r), n) = Kept(At(recs, n), r.type) \cup {r}
    BY DEF At, SetIn
  <2>2. OfType(At(SetIn(recs, n, r), n), p.type) = OfType(At(recs, n), p.type)
    BY <1>2, <2>1 DEF OfType, Kept
  <2> QED
    BY <1>2, <2>2 DEF Keeps
<1> QED
  BY <1>1, <1>2

\* The entry that Delete leaves.
LEMMA DeleteAt ==
    ASSUME NEW recs, RecordMap(recs), NEW n \in DOMAIN recs, NEW typ
    PROVE  At(DeleteIn(recs, n, typ), n) = KeptByDelete(recs[n], typ)
BY DEF At, DeleteIn, RecordMap

\* Delete leaves every other name alone.
LEMMA DeleteElsewhere ==
    ASSUME NEW recs, RecordMap(recs), NEW n \in DOMAIN recs, NEW typ,
           NEW m, m # n
    PROVE  At(DeleteIn(recs, n, typ), m) = At(recs, m)
BY DEF At, DeleteIn, RecordMap

\* Delete leaves nothing of the types it removes ...
LEMMA DeleteKeeps ==
    ASSUME NEW recs, RecordMap(recs), NEW n \in DOMAIN recs, NEW typ,
           NEW t, typ = AllTypes \/ typ = t
    PROVE  OfType(At(DeleteIn(recs, n, typ), n), t) = {}
BY DeleteAt DEF OfType, KeptByDelete, Kept

\* ... and every other name and type alone.
LEMMA DeleteKeepsOthers ==
    ASSUME NEW recs, RecordMap(recs), NEW n \in DOMAIN recs, NEW typ,
           NEW p, Keeps(recs, p),
           p.name # n \/ (typ # AllTypes /\ p.type # typ)
    PROVE  Keeps(DeleteIn(recs, n, typ), p)
<1>1. CASE p.name # n
  BY <1>1, DeleteElsewhere DEF Keeps
<1>2. CASE p.name = n /\ typ # AllTypes /\ p.type # typ
  <2>1. At(DeleteIn(recs, n, typ), n) = Kept(recs[n], typ)
    BY <1>2, DeleteAt DEF KeptByDelete
  <2>2. At(recs, n) = recs[n]
    BY DEF At
  <2>3. OfType(Kept(recs[n], typ), p.type) = OfType(recs[n], p.type)
    BY <1>2 DEF OfType, Kept
  <2> QED
    BY <1>2, <2>1, <2>2, <2>3 DEF Keeps
<1> QED
  BY <1>1, <1>2

\* A step that moves one goroutine outside the lock keeps every promise.
LEMMA AckInvQuiet ==
    ASSUME TypeOK, AckInv, NEW g \in Goroutine,
           NEW p \in {"idle", "enter", "done"},
           pc' = [pc EXCEPT ![g] = p],
           \A h \in Goroutine : h # g => call'[h] = call[h],
           UNCHANGED << phase, memVars, diskVars, history >>
    PROVE  AckInv'
<1>1. pc'[g] \notin LockedPcs /\ \A h \in Goroutine : h # g => pc'[h] = pc[h]
  BY DEF TypeOK, LockedPcs
<1>2. UNCHANGED << phase, records, file, acked >>
  BY DEF memVars, diskVars, history
<1> QED
  BY <1>1, <1>2 DEF AckInv, AckedSurvives

\* A mutation keeps its own promise and all it does not withdraw.
LEMMA AckInvMutate ==
    ASSUME TypeOK, LockInv, AckInv, NEW g \in Goroutine, NEW recs,
           pc[g] = "enter", Mutate(g, recs),
           \A p \in Promised(call[g]) : Keeps(recs, p),
           \A p \in acked \ Withdrawn(call[g]) : Keeps(records, p) => Keeps(recs, p)
    PROVE  AckInv'
<1>1. \A h \in Goroutine : pc[h] \notin LockedPcs
  BY FreeLock DEF Mutate
<1>2. pc'[g] = "open" /\ \A h \in Goroutine : h # g => pc'[h] = pc[h]
  BY DEF TypeOK, Mutate
<1>3. phase # "down"
  BY DEF LockInv
<1>4. /\ UNCHANGED << phase, call, file >> /\ records' = recs
      /\ acked' = acked \ Withdrawn(call[g])
  BY DEF Mutate, diskVars
<1> QED
  BY <1>1, <1>2, <1>3, <1>4 DEF AckInv, AckedSurvives

\* Every step keeps what callers were told.
LEMMA AckInvStep ==
    ASSUME TypeOK, LockInv, DiskInv, AckInv, [AnyUse]_vars PROVE AckInv'
<1>1. CASE UNCHANGED vars
  BY <1>1 DEF AckInv, AckedSurvives, vars, memVars, procVars, diskVars, history
<1>2. CASE Start
  <2>1. \A h \in Goroutine : pc'[h] = "idle"
    BY <1>2 DEF Start, procVars, LockInv
  <2>2. UNCHANGED << file, acked >> /\ records' = Loaded(file).records
    BY <1>2 DEF Start, diskVars
  <2>3. phase = "down" /\ phase' # "down"
    BY <1>2 DEF Start
  <2> QED
    BY <2>1, <2>2, <2>3, FlagAssumption
    DEF AckInv, AckedSurvives, LockedPcs, FlagAssumption
<1>3. CASE SeedCall
  BY <1>3, AckInvQuiet DEF SeedCall, Enter, Goroutine, TypeOK
<1>4. CASE SeedReturn
  BY <1>4, AckInvQuiet DEF SeedReturn, Leave, Goroutine, TypeOK
<1>5. CASE Listen
  BY <1>5 DEF Listen, AckInv, AckedSurvives, memVars, procVars, diskVars, history
<1>6. CASE Stop
  <2>1. \A h \in Goroutine : pc'[h] = "idle"
    BY <1>6 DEF Stop
  <2>2. /\ file' = file /\ phase' = "down"
        /\ acked' = IF Persistent THEN acked ELSE {}
    BY <1>6 DEF Stop, diskVars
  <2> QED
    BY <2>1, <2>2 DEF AckInv, AckedSurvives, LockedPcs
<1>7. CASE \E g \in Goroutine : Step(g)
  <2> PICK g \in Goroutine : Step(g)
    BY <1>7
  <2>1. call[g] \in Op /\ RecordMap(records)
    BY DEF TypeOK, State, Snapshot
  <2>2. CASE SetInvalid(g)
    BY <2>2, AckInvQuiet DEF SetInvalid, Finish
  <2>3. CASE SetLocked(g)
    <3> DEFINE n == ToLower(call[g].name)
               r == call[g].rec
               new == SetIn(records, n, r)
    <3>1. Promised(call[g]) = {[name |-> n, type |-> r.type, recs |-> {r}]}
      BY <2>3 DEF SetLocked, Promised
    <3>2. \A p \in Promised(call[g]) : Keeps(new, p)
      <4>1. OfType(At(new, n), r.type) = {r}
        BY SetKeeps
      <4> HIDE DEF new, n, r
      <4> QED
        BY <3>1, <4>1 DEF Keeps
    <3>3. ASSUME NEW p \in acked \ Withdrawn(call[g]), Keeps(records, p)
          PROVE  Keeps(new, p)
      BY <3>1, <3>3, SetKeepsOthers DEF Withdrawn
    <3>4. pc[g] = "enter" /\ Mutate(g, new)
      BY <2>3 DEF SetLocked
    <3> HIDE DEF new
    <3> QED
      BY <3>2, <3>3, <3>4, AckInvMutate
  <2>4. CASE DeleteMiss(g)
    BY <2>4, AckInvQuiet DEF DeleteMiss, Finish
  <2>5. CASE DeleteLocked(g)
    <3> DEFINE n == ToLower(call[g].name)
               typ == call[g].typ
               new == DeleteIn(records, n, typ)
    <3>1. n \in DOMAIN records /\ call[g].op # "Set"
      BY <2>5 DEF DeleteLocked, Removes
    <3>2. Promised(call[g]) = {[name |-> n, type |-> t, recs |-> {}] :
                                 t \in IF typ = AllTypes THEN Type ELSE {typ}}
      BY <3>1 DEF Promised
    <3>3. \A p \in Promised(call[g]) : Keeps(new, p)
      <4>1. ASSUME NEW t, typ = AllTypes \/ typ = t
            PROVE  OfType(At(new, n), t) = {}
        BY <2>1, <3>1, <4>1, DeleteKeeps
      <4>2. \A p \in Promised(call[g]) :
              p.name = n /\ p.recs = {} /\ (typ = AllTypes \/ typ = p.type)
        BY <3>2
      <4> HIDE DEF new, n, typ
      <4> QED
        BY <4>1, <4>2 DEF Keeps
    <3>4. ASSUME NEW p \in acked \ Withdrawn(call[g]), Keeps(records, p)
          PROVE  Keeps(new, p)
      <4>1. p.type \in Type
        BY DEF TypeOK
      <4>2. \A q \in Promised(call[g]) : p.name # q.name \/ p.type # q.type
        BY DEF Withdrawn
      <4>3. \A t \in (IF typ = AllTypes THEN Type ELSE {typ}) :
              p.name # n \/ p.type # t
        <5> SUFFICES ASSUME NEW t \in (IF typ = AllTypes THEN Type ELSE {typ})
                     PROVE  p.name # n \/ p.type # t
          OBVIOUS
        <5> DEFINE q == [name |-> n, type |-> t, recs |-> {}]
        <5>1. q \in Promised(call[g])
          BY <3>2
        <5>2. q.name = n /\ q.type = t
          OBVIOUS
        <5> HIDE DEF q
        <5> QED
          BY <4>2, <5>1, <5>2
      <4>4. p.name # n \/ (typ # AllTypes /\ p.type # typ)
        <5> HIDE DEF n, typ
        <5> QED
          BY <4>1, <4>3
      <4> QED
        BY <2>1, <3>1, <3>4, <4>4, DeleteKeepsOthers
    <3>5. pc[g] = "enter" /\ Mutate(g, new)
      BY <2>5 DEF DeleteLocked
    <3> HIDE DEF new
    <3> QED
      BY <3>3, <3>4, <3>5, AckInvMutate
  <2>6. CASE Read(g)
    BY <2>6, AckInvQuiet DEF Read, Finish
  <2>7. ASSUME pc[g] \in LockedPcs, NEW err, Unlock(g, err), UNCHANGED diskVars,
               (err = "nil" /\ Persistent) =>
                  \A p \in Promised(call[g]) : Keeps(Loaded(file).records, p)
        PROVE  AckInv'
    <3>1. \A h \in Goroutine : pc'[h] \notin LockedPcs
      BY <2>7, OnlyHolder DEF Unlock, Finish, TypeOK, LockedPcs
    <3>2. /\ UNCHANGED << phase, records, file >>
          /\ acked' = IF err = "nil" THEN acked \cup Promised(call[g]) ELSE acked
      BY <2>7 DEF Unlock, diskVars
    <3>3. phase # "down"
      BY <2>7 DEF LockInv, LockedPcs
    <3>4. \A p \in Promised(call[g]) : Keeps(records, p)
      BY <2>7 DEF AckInv
    <3>5. acked' \subseteq acked \cup Promised(call[g])
      BY <3>2
    <3>6. \A p \in acked' : Keeps(records', p)
      BY <3>2, <3>3, <3>4, <3>5 DEF AckInv, AckedSurvives
    <3>7. Persistent => \A p \in acked' : Keeps(Loaded(file').records, p)
      BY <2>7, <3>2 DEF AckInv, AckedSurvives
    <3> QED
      BY <3>1, <3>2, <3>3, <3>6, <3>7 DEF AckInv, AckedSurvives, LockedPcs
  <2>8. CASE Persisted(g) /\ ~ Persistent
    BY <2>7, <2>8 DEF Persisted, LockedPcs
  <2>9. CASE Persisted(g) /\ Persistent
    <3>1. Loaded(file) = Restorable(Snapshot)
      BY <2>9, StateRoundTrip DEF Persisted, DiskInv, TypeOK
    <3>2. Loaded(file).records = records
      BY <3>1 DEF Restorable, Snapshot
    <3>3. \A p \in Promised(call[g]) : Keeps(records, p)
      BY <2>9 DEF Persisted, AckInv, LockedPcs
    <3> QED
      BY <2>7, <2>9, <3>2, <3>3 DEF Persisted, LockedPcs
  <2>10. CASE PersistFail(g)
    BY <2>7, <2>10 DEF PersistFail, LockedPcs
  <2>11. ASSUME pc[g] \in LockedPcs, NEW q \in LockedPcs,
                pc' = [pc EXCEPT ![g] = q], Persistent,
                UNCHANGED << phase, memVars, call, acked >>,
                file' = file \/ Loaded(file').records = records
         PROVE  AckInv'
    <3>1. \A h \in Goroutine : pc'[h] \in LockedPcs => pc[h] \in LockedPcs
      BY <2>11 DEF TypeOK
    <3>2. phase # "down"
      BY <2>11 DEF LockInv, LockedPcs
    <3>3. records' = records
      BY <2>11 DEF memVars
    <3> QED
      BY <2>11, <3>1, <3>2, <3>3 DEF AckInv, AckedSurvives
  <2>12. CASE OpenTmp(g)
    BY <2>11, <2>12 DEF OpenTmp, history, LockedPcs
  <2>13. CASE FillTmp(g) /\ Persistent
    BY <2>11, <2>13 DEF FillTmp, history, LockedPcs
  <2>14. CASE RenameTmp(g) /\ Persistent
    <3>1. tmp = ToDisk(Snapshot)
      BY <2>14 DEF RenameTmp, DiskInv
    <3>2. Loaded(file') = Restorable(Snapshot)
      BY <2>14, <3>1, StateRoundTrip DEF RenameTmp, TypeOK
    <3>3. Loaded(file').records = records
      BY <3>2 DEF Restorable, Snapshot
    <3> QED
      BY <2>11, <2>14, <3>3 DEF RenameTmp, LockedPcs
  <2>15. (FillTmp(g) \/ RenameTmp(g)) => Persistent
    BY DEF FillTmp, RenameTmp, AckInv
  <2> QED
    BY <2>2, <2>3, <2>4, <2>5, <2>6, <2>8, <2>9, <2>10, <2>12, <2>13, <2>14, <2>15
    DEF Step
<1>8. CASE \E g \in Proc : Return(g) \/ \E o \in Op : Call(g, o) \/ CallAgain(g, o)
  <2> PICK g \in Proc : Return(g) \/ \E o \in Op : Call(g, o) \/ CallAgain(g, o)
    BY <1>8
  <2>1. CASE Return(g)
    BY <2>1, AckInvQuiet DEF Return, Leave, Goroutine, TypeOK
  <2>2. ASSUME NEW o \in Op, Call(g, o) \/ CallAgain(g, o) PROVE AckInv'
    BY <2>2, AckInvQuiet DEF Call, CallAgain, Enter, Goroutine, TypeOK
  <2> QED
    BY <2>1, <2>2
<1> QED
  BY <1>1, <1>2, <1>3, <1>4, <1>5, <1>6, <1>7, <1>8 DEF AnyUse, Use, Life

\* Initially nobody was told anything.
LEMMA AckInvInit == Init => AckInv
BY DEF Init, AckInv, AckedSurvives, LockedPcs

\* The four parts together are inductive.
LEMMA IInvAlways == Usage => []IInv
<1>1. IInv /\ [AnyUse]_vars => IInv'
  BY TypeLockStep, DiskInvStep, AckInvStep DEF IInv
<1>2. Init => IInv
  BY TypeLockInit, DiskInvInit, AckInvInit DEF IInv
<1> QED
  BY <1>1, <1>2, PTL DEF Usage

\* A mutation that returned nil stays done, in memory and on disk, until
\* another mutation of the same name and type begins, through failed writes,
\* crashes and restarts.
THEOREM Acknowledged == Spec => []AckedSurvives
<1>1. IInv => AckedSurvives
  BY DEF IInv, AckInv
<1> QED
  BY <1>1, IInvAlways, SpecIsUsage, PTL

(***************************************************************************)
(* The shape of the map, in memory and in the file.                        *)
(***************************************************************************)
\* Set under a valid name keeps the map well formed: it leaves one record of
\* the type it stores and touches no other name.
LEMMA SetWellFormed ==
    ASSUME NEW recs, WellFormed(recs), NEW n, ValidName(n), NEW r
    PROVE  WellFormed(SetIn(recs, n, r))
<1> DEFINE new == SetIn(recs, n, r)
<1>1. DOMAIN new = DOMAIN recs \cup {n}
  BY DEF SetIn
<1>2. new[n] = Kept(At(recs, n), r.type) \cup {r}
  BY DEF SetIn
<1>3. \A m \in DOMAIN recs : m # n => new[m] = recs[m]
  BY DEF SetIn
<1>4. \A r1, r2 \in At(recs, n) : r1.type = r2.type => r1 = r2
  BY DEF At, WellFormed
<1>5. \A r1, r2 \in new[n] : r1.type = r2.type => r1 = r2
  BY <1>2, <1>4 DEF Kept
<1>6. ASSUME NEW m \in DOMAIN new
      PROVE  /\ ValidName(m)
             /\ new[m] # {}
             /\ \A r1, r2 \in new[m] : r1.type = r2.type => r1 = r2
  <2>1. CASE m = n
    BY <1>2, <1>5, <2>1
  <2>2. CASE m # n
    <3>1. m \in DOMAIN recs /\ new[m] = recs[m]
      BY <1>1, <1>3, <2>2
    <3> HIDE DEF new
    <3> QED
      BY <3>1 DEF WellFormed
  <2> QED
    BY <2>1, <2>2
<1> HIDE DEF new
<1>7. WellFormed(new)
  BY <1>6 DEF WellFormed
<1> QED
  BY <1>7 DEF new

\* Delete keeps it well formed: an entry it empties leaves the map.
LEMMA DeleteWellFormed ==
    ASSUME NEW recs, RecordMap(recs), WellFormed(recs),
           NEW n \in DOMAIN recs, NEW typ
    PROVE  WellFormed(DeleteIn(recs, n, typ))
<1>1. KeptByDelete(recs[n], typ) \subseteq recs[n]
  BY DEF KeptByDelete, Kept
<1>2. CASE KeptByDelete(recs[n], typ) = {}
  BY <1>2 DEF DeleteIn, WellFormed
<1>3. CASE KeptByDelete(recs[n], typ) # {}
  <2> DEFINE kept == KeptByDelete(recs[n], typ)
             new  == [recs EXCEPT ![n] = kept]
  <2>1. DeleteIn(recs, n, typ) = new
    BY <1>3 DEF DeleteIn
  <2>2. DOMAIN new = DOMAIN recs /\ new[n] = kept
    BY DEF RecordMap
  <2>3. \A m \in DOMAIN recs : m # n => new[m] = recs[m]
    BY DEF RecordMap
  <2> HIDE DEF kept, new
  <2>4. kept \subseteq recs[n] /\ kept # {}
    BY <1>1, <1>3 DEF kept
  <2>5. WellFormed(new)
    BY <2>2, <2>3, <2>4 DEF WellFormed
  <2> QED
    BY <2>1, <2>5
<1> QED
  BY <1>2, <1>3

\* What a step makes of the map and of the file's map.
LEMMA WellFormedStep ==
    ASSUME TypeOK, LockInv, DiskInv, StoreWellFormed, [AnyUse]_vars
    PROVE  StoreWellFormed'
<1> USE DEF StoreWellFormed
<1>1. CASE UNCHANGED << records, file >>
  BY <1>1 DEF Loaded
<1>2. CASE Start
  BY <1>2 DEF Start, diskVars
<1>3. CASE SeedCall \/ SeedReturn \/ Listen
  BY <1>1, <1>3
  DEF SeedCall, SeedReturn, Listen, Enter, Leave, memVars, diskVars
<1>4. CASE Stop
  BY <1>4 DEF Stop, diskVars, NoRecords, WellFormed
<1>5. CASE \E g \in Goroutine : Step(g)
  <2> PICK g \in Goroutine : Step(g)
    BY <1>5
  <2>1. CASE SetInvalid(g) \/ DeleteMiss(g) \/ Read(g) \/ OpenTmp(g) \/ FillTmp(g)
    BY <1>1, <2>1
    DEF SetInvalid, DeleteMiss, Read, OpenTmp, FillTmp, memVars, diskVars
  <2>2. CASE Persisted(g) \/ PersistFail(g)
    BY <1>1, <2>2 DEF Persisted, PersistFail, Unlock, diskVars
  <2>3. CASE SetLocked(g)
    <3>1. /\ records' = SetIn(records, ToLower(call[g].name), call[g].rec)
          /\ file' = file /\ ValidName(ToLower(call[g].name))
      BY <2>3 DEF SetLocked, Mutate, diskVars
    <3> QED
      BY <3>1, SetWellFormed
  <2>4. CASE DeleteLocked(g)
    <3>1. /\ records' = DeleteIn(records, ToLower(call[g].name), call[g].typ)
          /\ file' = file /\ ToLower(call[g].name) \in DOMAIN records
      BY <2>4 DEF DeleteLocked, Removes, Mutate, diskVars
    <3>2. RecordMap(records)
      BY DEF TypeOK, State, Snapshot
    <3> QED
      BY <3>1, <3>2, DeleteWellFormed
  <2>5. CASE RenameTmp(g)
    <3>1. file' = ToDisk(Snapshot) /\ records' = records
      BY <2>5 DEF RenameTmp, DiskInv, memVars
    <3>2. State(Snapshot)
      BY DEF TypeOK
    <3>3. Loaded(ToDisk(Snapshot)).records = records
      BY <3>2, StateRoundTrip DEF Restorable, Snapshot
    <3> QED
      BY <3>1, <3>3
  <2> QED
    BY <2>1, <2>2, <2>3, <2>4, <2>5 DEF Step
<1>6. CASE \E g \in Proc : Return(g) \/ \E o \in Op : Call(g, o) \/ CallAgain(g, o)
  BY <1>1, <1>6 DEF Return, Call, CallAgain, Enter, Leave, memVars, diskVars
<1>7. CASE UNCHANGED vars
  BY <1>1, <1>7 DEF vars, memVars, diskVars
<1> QED
  BY <1>2, <1>3, <1>4, <1>5, <1>6, <1>7 DEF AnyUse, Use, Life

\* However the store is used, the map stays well formed.
LEMMA WellFormedAlways == Usage => []StoreWellFormed
<1>1. Init => StoreWellFormed
  BY DEF Init, StoreWellFormed, WellFormed, NoRecords, NoFile, Loaded, NewStore
<1>2. /\ TypeOK /\ LockInv /\ DiskInv
      /\ StoreWellFormed /\ [AnyUse]_vars
      => StoreWellFormed'
  BY WellFormedStep
<1> QED
  BY <1>1, <1>2, DiskInvAlways, PTL DEF Usage

\* Memory and the state file hold valid names only, no name without records
\* and one record of a type at a name, whatever was set, deleted, lost and
\* restored before.
THEOREM MapWellFormed == Spec => []StoreWellFormed
BY WellFormedAlways, SpecIsUsage, PTL

(***************************************************************************)
(* Which records are stored: what is put in, by calls and seeds, and       *)
(* nothing else.                                                           *)
(***************************************************************************)
StoredIn(G) ==
    /\ \A n \in DOMAIN records : records[n] \subseteq G
    /\ \A n \in DOMAIN Loaded(file).records : Loaded(file).records[n] \subseteq G

CallsIn(G) == \A g \in Goroutine : call[g].op = "Set" => call[g].rec \in G

\* If calls and seeds bring records of G only, calls under way do.
LEMMA CallsInStep ==
    ASSUME TypeOK, NEW G, CallsIn(G), NEW O, [Use(O)]_vars,
           \A o \in O : o.op = "Set" => o.rec \in G,
           \A a \in Addr : SeedRecord(a) \in G
    PROVE  CallsIn(G)'
<1>1. NamesCall.op = "Names"
  BY DEF NamesCall
<1>2. CASE UNCHANGED call
  BY <1>2 DEF CallsIn
<1>3. ASSUME NEW g \in Goroutine, NEW o, o.op = "Set" => o.rec \in G,
             call' = [call EXCEPT ![g] = o]
      PROVE  CallsIn(G)'
  BY <1>3 DEF CallsIn, TypeOK
<1>4. CASE SeedCall
  <2>1. seeded + 1 \in 1..Len(Seeds)
    BY <1>4, SeedsAssumption DEF SeedCall, TypeOK, SeedsAssumption
  <2>2. Seeds[seeded + 1] \in [name : Name, addr : Addr]
    <3> DEFINE S == [name : Name, addr : Addr]
    <3>1. Seeds \in Seq(S)
      BY SeedsAssumption DEF SeedsAssumption
    <3> HIDE DEF S
    <3>2. Seeds[seeded + 1] \in S
      BY <2>1, <3>1, ElementOfSeq
    <3> QED
      BY <3>2 DEF S
  <2> DEFINE o == SetCall(CanonicalName(Seeds[seeded + 1].name),
                          SeedRecord(Seeds[seeded + 1].addr))
  <2>3. o.rec \in G
    BY <2>2 DEF SetCall
  <2>4. call' = [call EXCEPT ![Main] = o] /\ Main \in Goroutine
    BY <1>4 DEF SeedCall, Enter, Goroutine
  <2> HIDE DEF o
  <2> QED
    BY <1>3, <2>3, <2>4
<1>5. CASE SeedReturn
  BY <1>1, <1>3, <1>5 DEF SeedReturn, Leave, Goroutine
<1>6. CASE Stop
  BY <1>1, <1>6 DEF Stop, CallsIn
<1>7. CASE Start \/ Listen
  BY <1>2, <1>7 DEF Start, Listen, procVars
<1>8. CASE \E g \in Goroutine : Step(g)
  BY <1>2, <1>8
  DEF Step, SetInvalid, SetLocked, DeleteMiss, DeleteLocked, Read, Mutate, Finish,
      OpenTmp, FillTmp, RenameTmp, Persisted, PersistFail, Unlock
<1>9. CASE \E g \in Proc : Return(g) \/ \E o \in O : Call(g, o) \/ CallAgain(g, o)
  BY <1>1, <1>3, <1>9 DEF Return, Leave, Call, Enter, CallAgain, Goroutine
<1>10. CASE UNCHANGED vars
  BY <1>2, <1>10 DEF vars, procVars
<1> QED
  BY <1>4, <1>5, <1>6, <1>7, <1>8, <1>9, <1>10 DEF Use, Life

\* If the calls under way bring records of G only, memory and the state file
\* hold records of G only.
LEMMA StoredInStep ==
    ASSUME TypeOK, LockInv, DiskInv, NEW G, StoredIn(G), CallsIn(G), [AnyUse]_vars
    PROVE  StoredIn(G)'
<1> USE DEF StoredIn
<1>1. CASE UNCHANGED << records, file >>
  BY <1>1 DEF Loaded
<1>2. CASE Start
  BY <1>2 DEF Start, diskVars
<1>3. CASE SeedCall \/ SeedReturn \/ Listen
  BY <1>1, <1>3
  DEF SeedCall, SeedReturn, Listen, Enter, Leave, memVars, diskVars
<1>4. CASE Stop
  BY <1>4 DEF Stop, diskVars, NoRecords
<1>5. CASE \E g \in Goroutine : Step(g)
  <2> PICK g \in Goroutine : Step(g)
    BY <1>5
  <2>1. CASE SetInvalid(g) \/ DeleteMiss(g) \/ Read(g) \/ OpenTmp(g) \/ FillTmp(g)
    BY <1>1, <2>1
    DEF SetInvalid, DeleteMiss, Read, OpenTmp, FillTmp, memVars, diskVars
  <2>2. CASE Persisted(g) \/ PersistFail(g)
    BY <1>1, <2>2 DEF Persisted, PersistFail, Unlock, diskVars
  <2>3. CASE SetLocked(g)
    <3>1. /\ records' = SetIn(records, ToLower(call[g].name), call[g].rec)
          /\ file' = file /\ call[g].rec \in G
      BY <2>3 DEF SetLocked, Mutate, diskVars, CallsIn
    <3>2. \A n \in DOMAIN records' : records'[n] \subseteq G
      BY <3>1 DEF SetIn, At, Kept
    <3> QED
      BY <3>1, <3>2
  <2>4. CASE DeleteLocked(g)
    <3>1. /\ records' = DeleteIn(records, ToLower(call[g].name), call[g].typ)
          /\ file' = file /\ ToLower(call[g].name) \in DOMAIN records
      BY <2>4 DEF DeleteLocked, Removes, Mutate, diskVars
    <3>2. \A n \in DOMAIN records' : records'[n] \subseteq G
      BY <3>1 DEF DeleteIn, KeptByDelete, Kept
    <3> QED
      BY <3>1, <3>2
  <2>5. CASE RenameTmp(g)
    <3>1. file' = ToDisk(Snapshot) /\ records' = records
      BY <2>5 DEF RenameTmp, DiskInv, memVars
    <3>2. State(Snapshot)
      BY DEF TypeOK
    <3>3. Loaded(ToDisk(Snapshot)).records = records
      BY <3>2, StateRoundTrip DEF Restorable, Snapshot
    <3> QED
      BY <3>1, <3>3
  <2> QED
    BY <2>1, <2>2, <2>3, <2>4, <2>5 DEF Step
<1>6. CASE \E g \in Proc : Return(g) \/ \E o \in Op : Call(g, o) \/ CallAgain(g, o)
  BY <1>1, <1>6 DEF Return, Call, CallAgain, Enter, Leave, memVars, diskVars
<1>7. CASE UNCHANGED vars
  BY <1>1, <1>7 DEF vars, memVars, diskVars
<1> QED
  BY <1>2, <1>3, <1>4, <1>5, <1>6, <1>7 DEF AnyUse, Use, Life

\* Initially nothing is stored and nothing called.
LEMMA StoredInInit == ASSUME NEW G, Init PROVE StoredIn(G) /\ CallsIn(G)
BY DEF Init, StoredIn, CallsIn, NoRecords, NoFile, Loaded, NewStore, NamesCall

(***************************************************************************)
(* What readers see: as well-formed as memory, of the same records, and    *)
(* true to every promise.                                                  *)
(***************************************************************************)
SeenInv(G) ==
    phase # "down" =>
      /\ \A p \in acked : Keeps(visible.records, p)
      /\ WellFormed(visible.records)
      /\ \A n \in DOMAIN visible.records : visible.records[n] \subseteq G

\* While a writer holds the lock, what readers see stays and promises are
\* at most withdrawn.
LEMMA LockedStep ==
    ASSUME TypeOK, LockInv, [AnyUse]_vars, mu' # Nobody
    PROVE  /\ visible' = visible /\ acked' \subseteq acked
           /\ phase' # "down" => phase # "down"
<1>1. CASE Start
  <2>1. mu' = mu /\ phase = "down"
    BY <1>1 DEF Start
  <2> QED
    BY <2>1, DownIsFree
<1>2. CASE SeedCall \/ SeedReturn \/ Listen \/ Stop
  BY <1>2 DEF SeedCall, SeedReturn, Listen, Stop, Enter, Leave, history
<1>3. CASE \E g \in Goroutine : Step(g)
  <2> PICK g \in Goroutine : Step(g)
    BY <1>3
  <2>1. ~ Persisted(g) /\ ~ PersistFail(g)
    BY DEF Persisted, PersistFail, Unlock
  <2> QED
    BY <2>1
    DEF Step, SetInvalid, SetLocked, DeleteMiss, DeleteLocked, Read, Mutate,
        OpenTmp, FillTmp, RenameTmp, history
<1>4. CASE \E g \in Proc : Return(g) \/ \E o \in Op : Call(g, o) \/ CallAgain(g, o)
  BY <1>4 DEF Return, Call, CallAgain, Enter, Leave, history
<1>5. CASE UNCHANGED vars
  BY <1>5 DEF vars, history
<1> QED
  BY <1>1, <1>2, <1>3, <1>4, <1>5 DEF AnyUse, Use, Life

\* Every step keeps what readers see in order, if it keeps memory in order.
LEMMA SeenStep ==
    ASSUME TypeOK, LockInv, [AnyUse]_vars, NEW G, SeenInv(G),
           DiskInv', AckInv', StoreWellFormed', StoredIn(G)'
    PROVE  SeenInv(G)'
<1>1. CASE mu' # Nobody
  BY <1>1, LockedStep DEF SeenInv
<1>2. CASE mu' = Nobody
  <2> SUFFICES ASSUME phase' # "down" PROVE SeenInv(G)'
    BY DEF SeenInv
  <2>1. visible'.records = records'
    BY <1>2 DEF DiskInv, Snapshot
  <2>2. \A p \in acked' : Keeps(records', p)
    BY DEF AckInv, AckedSurvives
  <2> QED
    BY <2>1, <2>2 DEF SeenInv, StoreWellFormed, StoredIn
<1> QED
  BY <1>1, <1>2

(***************************************************************************)
(* What a step is to the other goroutines.                                 *)
(***************************************************************************)

\* A step of another goroutine leaves a goroutine's call alone.
LEMMA OtherStep ==
    ASSUME TypeOK, NEW h \in Goroutine, Step(h), NEW g \in Goroutine, g # h
    PROVE  pc'[g] = pc[g] /\ call'[g] = call[g] /\ ret'[g] = ret[g]
BY DEF TypeOK, Step, SetInvalid, SetLocked, DeleteMiss, DeleteLocked, Read, Mutate,
   OpenTmp, FillTmp, RenameTmp, Persisted, PersistFail, Unlock, Finish

\* No step of a goroutine ends or starts the process.
LEMMA StepPhase == ASSUME NEW g, Step(g) PROVE phase' = phase
BY DEF Step, SetInvalid, SetLocked, DeleteMiss, DeleteLocked, Read, Mutate, OpenTmp,
   FillTmp, RenameTmp, Persisted, PersistFail, Unlock

(***************************************************************************)
(* What readers return.                                                    *)
(***************************************************************************)
\* The program counter of a goroutine moves from "enter" to "done" only in
\* a call that fails or misses, or in a read.
LEMMA EnterToDone ==
    ASSUME TypeOK, [AnyUse]_vars, NEW g \in Goroutine,
           pc[g] = "enter", pc'[g] = "done"
    PROVE  SetInvalid(g) \/ DeleteMiss(g) \/ Read(g)
<1>1. ~ UNCHANGED vars
  BY DEF vars, procVars
<1>2. ~ Start /\ ~ Listen /\ ~ Stop
  BY DEF Start, Listen, Stop, procVars
<1>3. ~ SeedCall /\ ~ SeedReturn
  BY DEF SeedCall, SeedReturn, Enter, Leave, TypeOK, Goroutine
<1>4. ASSUME NEW h \in Proc,
             Return(h) \/ \E o \in Op : Call(h, o) \/ CallAgain(h, o)
      PROVE  FALSE
  BY <1>4 DEF Return, Call, CallAgain, Enter, Leave, TypeOK, Goroutine
<1>5. PICK h \in Goroutine : Step(h)
  BY <1>1, <1>2, <1>3, <1>4 DEF AnyUse, Use, Life
<1>6. CASE h = g
  BY <1>5, <1>6 DEF Step, SetLocked, DeleteLocked, Mutate, OpenTmp,
     FillTmp, RenameTmp, Persisted, PersistFail, TypeOK
<1>7. CASE h # g
  <2>1. pc'[g] = pc[g]
    BY <1>5, <1>7 DEF Step, SetInvalid, SetLocked, DeleteMiss, DeleteLocked,
       Read, Mutate, OpenTmp, FillTmp, RenameTmp, Persisted,
       PersistFail, Unlock, Finish, TypeOK
  <2> QED
    BY <2>1
<1> QED
  BY <1>6, <1>7

\* What a step returns to a reader is what was last unlocked.
LEMMA ReadStep ==
    ASSUME TypeOK, LockInv, DiskInv, NEW g \in Goroutine,
           Read(g)
    PROVE  /\ call[g].op = "Lookup" =>
                ret'[g].recs = At(visible.records, ToLower(call[g].name))
           /\ call[g].op = "Names" => ret'[g].names = DOMAIN visible.records
           /\ call[g].op = "Serial" => ret'[g].serial = visible.serial
<1>1. mu = Nobody /\ phase # "down"
  BY DEF Read, Readable, LockInv
<1>2. visible.records = records /\ visible.serial = serial
  BY <1>1 DEF DiskInv, Snapshot
<1> QED
  BY <1>2 DEF Read, Finish, TypeOK

\* A reader never sees a mutation before its write to disk has ended:
\* Lookup, Names and Serial return the last state that was unlocked.
THEOREM ReadersSeeUnlocked == Spec => ReadsSeeUnlocked
<1> DEFINE A == \A g \in Goroutine : (pc[g] = "enter" /\ pc'[g] = "done") =>
                  LET o == call[g] IN
                  CASE o.op = "Lookup" ->
                         ret'[g].recs = At(visible.records, ToLower(o.name))
                    [] o.op = "Names"  -> ret'[g].names = DOMAIN visible.records
                    [] o.op = "Serial" -> ret'[g].serial = visible.serial
                    [] OTHER -> TRUE
<1>1. TypeOK /\ LockInv /\ DiskInv /\ [AnyUse]_vars => A
  <2> SUFFICES ASSUME TypeOK, LockInv, DiskInv, [AnyUse]_vars,
                      NEW g \in Goroutine, pc[g] = "enter", pc'[g] = "done"
               PROVE  CASE call[g].op = "Lookup" ->
                             ret'[g].recs = At(visible.records,
                                               ToLower(call[g].name))
                        [] call[g].op = "Names" ->
                             ret'[g].names = DOMAIN visible.records
                        [] call[g].op = "Serial" ->
                             ret'[g].serial = visible.serial
                        [] OTHER -> TRUE
    OBVIOUS
  <2>1. CASE SetInvalid(g) \/ DeleteMiss(g)
    <3>1. call[g].op \in {"Set", "Delete"}
      BY <2>1 DEF SetInvalid, DeleteMiss
    <3> QED
      BY <3>1
  <2>2. CASE Read(g)
    <3>1. call[g].op \in {"Lookup", "Names", "Serial"}
      BY <2>2 DEF Read
    <3> QED
      BY <2>2, <3>1, ReadStep
  <2> QED
    BY <2>1, <2>2, EnterToDone
<1> HIDE DEF A
<1>2. Spec => [][A]_vars
  BY <1>1, DiskInvAlways, SpecIsUsage, PTL DEF Usage
<1> QED
  BY <1>2 DEF A, ReadsSeeUnlocked

(***************************************************************************)
(* The serial.                                                             *)
(***************************************************************************)

\* How the serial in memory and the one in the file stand to the one that
\* readers see, before, during and after a write, a crash and a restart.
SerialInv ==
    /\ \A g \in Goroutine :
         pc[g] \in LockedPcs => serial = Bump(visible.serial)
    /\ (Persistent /\ ~ stale) =>
         \/ Loaded(file) = Restorable(visible)
         \/ Loaded(file).serial = LoadedSerial(Bump(visible.serial))

\* A serial and its successor differ: the serial has at least two values.
LEMMA BumpMoves ==
    ASSUME NEW s \in 0..(SerialMod - 1) PROVE Bump(s) # s
BY SerialModAssumption DEF Bump, SerialModAssumption

\* The serial that is read as 1 is the successor of the one it replaces.
LEMMA RestoredSerial ==
    ASSUME NEW s, State(s)
    PROVE  /\ Restorable(s) = s \/ Restorable(s).serial = Bump(s.serial)
           /\ Restorable(s).serial = LoadedSerial(s.serial)
<1>1. s = [serial |-> s.serial, records |-> s.records] /\ s.serial \in 0..(SerialMod - 1)
  BY DEF State
<1>2. Restorable(s) = [serial |-> LoadedSerial(s.serial), records |-> s.records]
  BY <1>1 DEF Restorable
<1>3. CASE s.serial = 0
  BY <1>2, <1>3, SerialModAssumption DEF LoadedSerial, Bump, SerialModAssumption
<1>4. CASE s.serial # 0
  BY <1>1, <1>2, <1>4, SerialModAssumption DEF LoadedSerial, SerialModAssumption
<1> QED
  BY <1>3, <1>4

\* A step that changes neither memory nor file nor history, and moves no
\* goroutine past the lock.
LEMMA SerialInvQuiet ==
    ASSUME SerialInv, UNCHANGED << serial, file, visible, stale >>,
           \A g \in Goroutine : pc'[g] \in LockedPcs => pc[g] \in LockedPcs
    PROVE  SerialInv'
BY DEF SerialInv, Loaded, Restorable

\* A goroutine that moves within the lock, or outside it, takes no other
\* goroutine across.
LEMMA MovesOne ==
    ASSUME TypeOK, NEW g \in Goroutine, NEW p, pc' = [pc EXCEPT ![g] = p],
           p \in LockedPcs => pc[g] \in LockedPcs
    PROVE  \A h \in Goroutine : pc'[h] \in LockedPcs => pc[h] \in LockedPcs
BY DEF TypeOK

\* Every step keeps the serials in step.
LEMMA SerialInvStep ==
    ASSUME TypeOK, LockInv, DiskInv, SerialInv, [AnyUse]_vars PROVE SerialInv'
<1>1. State(Snapshot) /\ State(visible) /\ FileOK(file) /\ State(Loaded(file))
  BY DEF TypeOK, FileOK
<1>2. CASE UNCHANGED vars
  BY <1>2, SerialInvQuiet DEF vars, memVars, procVars, diskVars, history
<1>3. CASE Start
  <2>1. /\ file' = file /\ visible' = Loaded(file)
        /\ \A h \in Goroutine : pc'[h] = "idle"
    BY <1>3 DEF Start, diskVars, procVars, LockInv
  <2>2. Loaded(file') = Restorable(visible')
    BY <1>1, <2>1, RestoredTwice
  <2> QED
    BY <2>1, <2>2 DEF SerialInv, LockedPcs
<1>4. CASE SeedCall \/ SeedReturn \/ Listen
  <2>1. \A h \in Goroutine : pc'[h] \in LockedPcs => pc[h] \in LockedPcs
    <3>1. CASE SeedCall \/ SeedReturn
      <4>1. \E p \in {"idle", "enter"} : pc' = [pc EXCEPT ![Main] = p]
        BY <3>1 DEF SeedCall, SeedReturn, Enter, Leave
      <4> QED
        BY <4>1, MovesOne DEF LockedPcs, Goroutine
    <3> QED
      BY <1>4, <3>1 DEF Listen, procVars
  <2> QED
    BY <1>4, <2>1, SerialInvQuiet
    DEF SeedCall, SeedReturn, Listen, Enter, Leave, memVars, diskVars, history
<1>5. CASE Stop
  BY <1>5 DEF Stop, SerialInv, diskVars, LockedPcs
<1>6. CASE \E g \in Goroutine : Step(g)
  <2> PICK g \in Goroutine : Step(g)
    BY <1>6
  <2>1. CASE SetInvalid(g) \/ DeleteMiss(g) \/ Read(g) \/ OpenTmp(g) \/ FillTmp(g)
    <3>1. \A h \in Goroutine : pc'[h] \in LockedPcs => pc[h] \in LockedPcs
      BY <2>1, MovesOne
      DEF SetInvalid, DeleteMiss, Read, OpenTmp, FillTmp, Finish, LockedPcs
    <3> QED
      BY <2>1, <3>1, SerialInvQuiet
      DEF SetInvalid, DeleteMiss, Read, OpenTmp, FillTmp, memVars, diskVars, history
  <2>2. ASSUME NEW recs, pc[g] = "enter", Mutate(g, recs) PROVE SerialInv'
    <3>1. visible = Snapshot
      BY <2>2 DEF Mutate, DiskInv, LockInv
    <3>2. serial' = Bump(visible'.serial) /\ file' = file /\ visible' = visible
      BY <2>2, <3>1 DEF Mutate, Snapshot, diskVars
    <3> QED
      BY <2>2, <3>2 DEF SerialInv, Mutate
  <2>3. CASE SetLocked(g) \/ DeleteLocked(g)
    BY <2>2, <2>3 DEF SetLocked, DeleteLocked
  <2>4. CASE RenameTmp(g)
    <3>1. file' = ToDisk(Snapshot) /\ visible' = visible /\ serial' = serial
      BY <2>4 DEF RenameTmp, DiskInv, memVars
    <3>2. serial = Bump(visible.serial)
      BY <2>4 DEF RenameTmp, SerialInv, LockedPcs
    <3>3. Loaded(file').serial = LoadedSerial(serial)
      BY <1>1, <3>1, StateRoundTrip, RestoredSerial DEF Snapshot
    <3> QED
      BY <3>1, <3>2, <3>3 DEF SerialInv
  <2>5. CASE Persisted(g) \/ PersistFail(g)
    <3>1. pc[g] \in LockedPcs
      BY <2>5 DEF Persisted, PersistFail, LockedPcs
    <3>2. \A h \in Goroutine : pc'[h] \notin LockedPcs
      BY <2>5, <3>1, OnlyHolder
      DEF Persisted, PersistFail, Unlock, Finish, TypeOK, LockedPcs
    <3>3. visible' = Snapshot /\ file' = file
      BY <2>5 DEF Persisted, PersistFail, Unlock, diskVars
    <3>4. (Persistent /\ ~ stale') => file = ToDisk(Snapshot)
      BY <2>5 DEF Persisted, PersistFail, DiskInv
    <3>5. (Persistent /\ ~ stale') => Loaded(file') = Restorable(visible')
      BY <1>1, <3>3, <3>4, StateRoundTrip
    <3> QED
      BY <3>2, <3>5 DEF SerialInv
  <2> QED
    BY <2>1, <2>3, <2>4, <2>5 DEF Step
<1>7. CASE \E g \in Proc : Return(g) \/ \E o \in Op : Call(g, o) \/ CallAgain(g, o)
  <2>1. \A h \in Goroutine : pc'[h] \in LockedPcs => pc[h] \in LockedPcs
    BY <1>7, MovesOne
    DEF Return, Call, CallAgain, Enter, Leave, LockedPcs, Goroutine
  <2> QED
    BY <1>7, <2>1, SerialInvQuiet
    DEF Return, Call, CallAgain, Enter, Leave, memVars, diskVars, history
<1> QED
  BY <1>2, <1>3, <1>4, <1>5, <1>6, <1>7 DEF AnyUse, Use, Life

\* Types, lock, files and serials together are inductive.
LEMMA SerialInvAlways == Usage => [](TypeOK /\ LockInv /\ DiskInv /\ SerialInv)
<1>1. Init => SerialInv
  <2> SUFFICES ASSUME Init PROVE SerialInv
    OBVIOUS
  <2>1. Loaded(file) = NewStore /\ visible = NewStore
    BY DEF Init, NoFile, Loaded
  <2>2. Restorable(NewStore) = NewStore
    BY DEF Restorable, NewStore, LoadedSerial
  <2> QED
    BY <2>1, <2>2 DEF Init, SerialInv, LockedPcs
<1>2. /\ TypeOK /\ LockInv /\ DiskInv
      /\ SerialInv /\ [AnyUse]_vars
      => SerialInv'
  BY SerialInvStep
<1> QED
  BY <1>1, <1>2, DiskInvAlways, PTL DEF Usage

\* What readers see changes only where a writer unlocks, to what it made of
\* the store, and where a process starts, to what the file restores.
LEMMA VisibleStep ==
    ASSUME [AnyUse]_vars
    PROVE  \/ visible' = visible
           \/ visible' = Loaded(file) /\ phase = "down"
           \/ visible' = Snapshot /\ \E g \in Goroutine : pc[g] \in LockedPcs
<1>1. CASE UNCHANGED visible
  BY <1>1
<1>2. CASE Life
  BY <1>1, <1>2
  DEF Life, Start, SeedCall, SeedReturn, Listen, Stop, Enter, Leave, history
<1>3. CASE \E g \in Goroutine : Step(g)
  <2> PICK g \in Goroutine : Step(g)
    BY <1>3
  <2>1. CASE Persisted(g) \/ PersistFail(g)
    BY <2>1 DEF Persisted, PersistFail, Unlock, LockedPcs
  <2> QED
    BY <2>1
    DEF Step, SetInvalid, SetLocked, DeleteMiss, DeleteLocked, Read, Mutate,
        OpenTmp, FillTmp, RenameTmp, history
<1>4. CASE \E g \in Proc : Return(g) \/ \E o \in Op : Call(g, o) \/ CallAgain(g, o)
  BY <1>1, <1>4 DEF Return, Call, CallAgain, Enter, Leave, history
<1> QED
  BY <1>1, <1>2, <1>3, <1>4 DEF AnyUse, Use, vars, history

\* As long as no write failed, what readers see changes only together with
\* the serial's next value, across crashes and restarts, for every width of
\* the serial.
THEOREM SerialForward == Spec => SerialMovesForward
<1> DEFINE A == (Persistent /\ ~ stale) =>
                  \/ visible' = visible
                  \/ visible'.serial \in
                       {Bump(visible.serial), LoadedSerial(Bump(visible.serial))}
<1>1. TypeOK /\ LockInv /\ DiskInv /\ SerialInv /\ [AnyUse]_vars => A
  <2> SUFFICES ASSUME TypeOK, SerialInv, [AnyUse]_vars,
                      Persistent, ~ stale, visible' # visible
               PROVE  visible'.serial \in
                        {Bump(visible.serial), LoadedSerial(Bump(visible.serial))}
    OBVIOUS
  <2>1. CASE visible' = Loaded(file)
    <3>1. State(visible)
      BY DEF TypeOK
    <3> QED
      BY <2>1, <3>1, RestoredSerial DEF SerialInv
  <2>2. CASE visible' = Snapshot /\ \E g \in Goroutine : pc[g] \in LockedPcs
    BY <2>2 DEF SerialInv, Snapshot
  <2> QED
    BY <2>1, <2>2, VisibleStep
<1> HIDE DEF A
<1>2. Spec => [][A]_vars
  BY <1>1, SerialInvAlways, SpecIsUsage, PTL DEF Usage
<1> QED
  BY <1>2 DEF A, SerialMovesForward

(***************************************************************************)
(* The refinement.                                                         *)
(***************************************************************************)

\* The entry of a name that Set or Delete does not speak of stays.
LEMMA OneEntry ==
    ASSUME TypeOK, NEW g \in Goroutine, SetLocked(g) \/ DeleteLocked(g),
           NEW m, m # ToLower(call[g].name)
    PROVE  At(records', m) = At(records, m)
<1>1. CASE SetLocked(g)
  <2>1. records' = SetIn(records, ToLower(call[g].name), call[g].rec)
    BY <1>1 DEF SetLocked, Mutate
  <2> QED
    BY <2>1 DEF SetIn, At
<1>2. CASE DeleteLocked(g)
  <2>1. /\ records' = DeleteIn(records, ToLower(call[g].name), call[g].typ)
        /\ ToLower(call[g].name) \in DOMAIN records
        /\ RecordMap(records)
    BY <1>2 DEF DeleteLocked, Removes, Mutate, TypeOK, State, Snapshot
  <2> QED
    BY <2>1, DeleteElsewhere
<1> QED
  BY <1>1, <1>2

\* While a mutation is pending, its outcome is not what readers see.
LEMMA PendingDiffers ==
    ASSUME TypeOK, SerialInv, NEW g \in Goroutine, pc[g] \in LockedPcs
    PROVE  Snapshot # visible
<1>1. serial = Bump(visible.serial) /\ visible.serial \in 0..(SerialMod - 1)
  BY DEF SerialInv, TypeOK, State
<1> QED
  BY <1>1, BumpMoves DEF Snapshot

\* The abstract store restores what Load restores.
LEMMA RestoredIsRestorable ==
    ASSUME NEW s, State(s) PROVE Atomic!Restored(s) = Restorable(s)
BY DEF Atomic!Restored, Restorable, LoadedSerial, State

\* A step that changes nothing of what the abstract store is made of.
LEMMA AtomicStutter ==
    ASSUME UNCHANGED << phase, visible, mu, records, serial, file >>
    PROVE  UNCHANGED Atomic!avars
BY DEF Atomic!avars, Snapshot, Loaded

\* Every step of the store is a step of the abstract one, or none.
LEMMA AtomicStep ==
    ASSUME TypeOK, LockInv, DiskInv, SerialInv, [AnyUse]_vars
    PROVE  [Atomic!ANext]_(Atomic!avars)
<1>1. State(Snapshot) /\ Snapshot = [serial |-> serial, records |-> records]
  BY DEF TypeOK, Snapshot
<1>2. CASE UNCHANGED vars
  BY <1>2, AtomicStutter DEF vars, memVars, diskVars, history
<1>3. CASE Start
  <2>1. mu = Nobody /\ mu' = Nobody
    BY <1>3, DownIsFree DEF Start
  <2>2. Atomic!Boot
    BY <1>3, <2>1 DEF Start, diskVars, Atomic!Boot
  <2> QED
    BY <2>2 DEF Atomic!ANext
<1>4. CASE SeedCall \/ SeedReturn
  BY <1>4, AtomicStutter
  DEF SeedCall, SeedReturn, Enter, Leave, memVars, diskVars, history
<1>5. CASE Listen
  <2>1. UNCHANGED Atomic!avars
    BY <1>5 DEF Listen, memVars, diskVars, history, Atomic!avars, Snapshot, Loaded
  <2> QED
    BY <2>1
<1>6. CASE Stop
  <2>1. Atomic!Die
    BY <1>6 DEF Stop, diskVars, Atomic!Die
  <2> QED
    BY <2>1 DEF Atomic!ANext
<1>7. CASE \E g \in Goroutine : Step(g)
  <2> PICK g \in Goroutine : Step(g)
    BY <1>7
  <2>1. CASE SetInvalid(g) \/ DeleteMiss(g) \/ Read(g) \/ OpenTmp(g) \/ FillTmp(g)
    BY <2>1, AtomicStutter
    DEF SetInvalid, DeleteMiss, Read, OpenTmp, FillTmp, memVars, diskVars, history
  <2>2. CASE SetLocked(g) \/ DeleteLocked(g)
    <3>1. /\ mu = Nobody /\ mu' = g /\ g # Nobody /\ phase # "down"
          /\ serial' = Bump(serial)
          /\ UNCHANGED << phase, visible, file >>
      BY <2>2, ProcAssumption
      DEF SetLocked, DeleteLocked, Mutate, diskVars, LockInv, ProcAssumption
    <3>2. visible = Snapshot
      BY <3>1 DEF DiskInv
    <3>3. ASSUME NEW n, NEW m,
                 Atomic!Entry(visible, n) # Atomic!Entry(Snapshot', n),
                 Atomic!Entry(visible, m) # Atomic!Entry(Snapshot', m)
          PROVE  n = m
      <4>1. \A k : /\ Atomic!Entry(visible, k) = At(records, k)
                   /\ Atomic!Entry(Snapshot', k) = At(records', k)
        BY <3>2 DEF Atomic!Entry, At, Snapshot
      <4> QED
        BY <2>2, <3>3, <4>1, OneEntry
    <3>4. Snapshot'.serial = (visible.serial + 1) % SerialMod
      BY <3>1, <3>2 DEF Snapshot, Bump
    <3>5. Atomic!Mutation(visible, Snapshot')
      BY <3>3, <3>4 DEF Atomic!Mutation
    <3>6. Atomic!Begin
      BY <3>1, <3>5 DEF Atomic!Begin, Loaded
    <3> QED
      BY <3>6 DEF Atomic!ANext
  <2>3. CASE RenameTmp(g)
    <3>1. /\ pc[g] = "rename" /\ mu' = mu /\ phase' = phase /\ visible' = visible
          /\ Snapshot' = Snapshot /\ file' = ToDisk(Snapshot)
      BY <2>3 DEF RenameTmp, DiskInv, memVars, Snapshot
    <3>2. mu # Nobody /\ phase # "down" /\ Snapshot # visible
      BY <3>1, ProcAssumption, PendingDiffers DEF LockInv, LockedPcs, ProcAssumption
    <3>3. Loaded(file') = Atomic!Restored(Snapshot)
      BY <1>1, <3>1, StateRoundTrip, RestoredIsRestorable
    <3>4. Atomic!Write
      BY <3>1, <3>2, <3>3 DEF Atomic!Write
    <3> QED
      BY <3>4 DEF Atomic!ANext
  <2>4. CASE Persisted(g) \/ PersistFail(g)
    <3>1. pc[g] \in LockedPcs
      BY <2>4 DEF Persisted, PersistFail, LockedPcs
    <3>2. mu # Nobody /\ phase # "down" /\ Snapshot # visible
      BY <3>1, ProcAssumption, PendingDiffers DEF LockInv, LockedPcs, ProcAssumption
    <3>3. mu' = Nobody /\ phase' = phase /\ visible' = Snapshot /\ file' = file
      BY <2>4 DEF Persisted, PersistFail, Unlock, diskVars
    <3>4. Atomic!Publish
      BY <3>2, <3>3 DEF Atomic!Publish, Loaded
    <3> QED
      BY <3>4 DEF Atomic!ANext
  <2> QED
    BY <2>1, <2>2, <2>3, <2>4 DEF Step
<1>8. CASE \E g \in Proc : Return(g) \/ \E o \in Op : Call(g, o) \/ CallAgain(g, o)
  BY <1>8, AtomicStutter
  DEF Return, Call, CallAgain, Enter, Leave, memVars, diskVars, history
<1> QED
  BY <1>2, <1>3, <1>4, <1>5, <1>6, <1>7, <1>8 DEF AnyUse, Use, Life

\* A store that was never used is the abstract store that was never used.
LEMMA AtomicInit == Init => Atomic!AInit
BY DEF Init, Atomic!AInit, Loaded, NoFile

\* However it is used, the store is an atomic store.
LEMMA UsageIsAtomic == Usage => IsAtomic
<1>1. /\ TypeOK /\ LockInv /\ DiskInv /\ SerialInv
      /\ [AnyUse]_vars
      => [Atomic!ANext]_(Atomic!avars)
  BY AtomicStep
<1> QED
  BY <1>1, AtomicInit, SerialInvAlways, PTL DEF Usage, IsAtomic, Atomic!ASpec

\* The store with its lock, its write in three steps, its failing disk, its
\* crashes and restarts implements the atomic store: one mutation at a time,
\* of one name, with the serial moved by one, made durable in one step and
\* shown to readers in one step.
THEOREM Refinement == Spec => IsAtomic
BY SpecIsUsage, UsageIsAtomic, PTL
=============================================================================
