------------------------------ MODULE WireProofs ------------------------------
(***************************************************************************)
(* Proofs about reading the wire format: what the calls of Decode make of  *)
(* any octets, said without them - where a name, a record and a section    *)
(* end, and what they hold.                                                *)
(***************************************************************************)
EXTENDS WireMessages, SequenceLemmas

(***************************************************************************)
(* Octets in pieces.                                                       *)
(***************************************************************************)
LEMMA PartOctets ==
    ASSUME NEW s \in Octets, NEW m \in Nat \ {0}, NEW n \in Nat, n <= Len(s)
    PROVE  /\ SubSeq(s, m, n) \in Octets
           /\ Len(SubSeq(s, m, n)) = IF m <= n THEN n - m + 1 ELSE 0
           /\ \A i \in 1..(n - m + 1) : SubSeq(s, m, n)[i] = s[m + i - 1]
<1>1. Len(s) \in Nat /\ \A i \in 1..Len(s) : s[i] \in Byte
  BY LenProperties, ElementOfSeq DEF Octets
<1>2. \A i \in m..n : s[i] \in Byte
  BY <1>1
<1> QED
  BY <1>2, SubSeqProperties DEF Octets

\* t is s and then u.  (A definition, so that the provers do not join what
\* they have joined.)
Joined(s, u, t) ==
    /\ t \in Octets /\ Len(s) \in Nat /\ Len(u) \in Nat
    /\ Len(t) = Len(s) + Len(u)
    /\ \A i \in 1..Len(s) : t[i] = s[i]
    /\ \A i \in 1..Len(u) : t[i + Len(s)] = u[i]

LEMMA JoinedOctets ==
    ASSUME NEW s \in Octets, NEW u \in Octets PROVE Joined(s, u, s \o u)
<1>1. Len(s) \in Nat /\ Len(u) \in Nat
  BY LenProperties DEF Octets
<1>2. /\ s \o u \in Octets /\ Len(s \o u) = Len(s) + Len(u)
      /\ \A i \in 1..(Len(s) + Len(u)) :
           (s \o u)[i] = IF i <= Len(s) THEN s[i] ELSE u[i - Len(s)]
  BY ConcatProperties DEF Octets
<1>3. ASSUME NEW i \in 1..Len(s) PROVE (s \o u)[i] = s[i]
  <2>1. i \in 1..(Len(s) + Len(u)) /\ i <= Len(s)
    BY <1>1
  <2> QED
    BY <1>2, <2>1
<1>4. ASSUME NEW i \in 1..Len(u) PROVE (s \o u)[i + Len(s)] = u[i]
  <2>1. /\ i + Len(s) \in 1..(Len(s) + Len(u)) /\ ~ (i + Len(s) <= Len(s))
        /\ i + Len(s) - Len(s) = i
    BY <1>1
  <2> QED
    BY <1>2, <2>1
<1> QED
  BY <1>1, <1>2, <1>3, <1>4 DEF Joined

LEMMA Regroup ==
    ASSUME NEW x \in Octets, NEW y \in Octets, NEW z \in Octets
    PROVE  (x \o y) \o z = x \o (y \o z)
BY ConcatAssociative DEF Octets

Grouped(x, y, z) == (x \o y) \o z = x \o (y \o z)

LEMMA Groups ==
    ASSUME NEW x \in Octets, NEW y \in Octets, NEW z \in Octets PROVE Grouped(x, y, z)
BY Regroup DEF Grouped

LEMMA EmptyOctets == << >> \in Octets /\ Len(<< >>) = 0 /\ << >> \o << >> = << >>
BY EmptySeq, ConcatEmptySeq DEF Octets

LEMMA JoinOctets == ASSUME NEW s \in Octets, NEW u \in Octets PROVE s \o u \in Octets
BY JoinedOctets DEF Joined

LEMMA SplitAt ==
    ASSUME NEW u \in Octets, NEW n \in Nat, n <= Len(u)
    PROVE  /\ SubSeq(u, 1, n) \in Octets /\ Len(SubSeq(u, 1, n)) = n
           /\ SubSeq(u, n + 1, Len(u)) \in Octets
           /\ SubSeq(u, 1, n) \o SubSeq(u, n + 1, Len(u)) = u
<1>1. Len(u) \in Nat
  BY LenProperties DEF Octets
<1>2. SubSeq(u, 1, n) \in Octets /\ Len(SubSeq(u, 1, n)) = n
  BY <1>1, PartOctets
<1>3. SubSeq(u, n + 1, Len(u)) \in Octets
  BY <1>1, PartOctets
<1>4. 1 \in 1..(Len(u) + 1) /\ n \in (1 - 1)..Len(u) /\ Len(u) \in n..Len(u)
  BY <1>1
<1>5. SubSeq(u, 1, n) \o SubSeq(u, n + 1, Len(u)) = SubSeq(u, 1, Len(u))
  BY <1>4, ConcatAdjacentSubSeq DEF Octets
<1> QED
  BY <1>2, <1>3, <1>5, SubSeqFull DEF Octets

LEMMA CutStream ==
    ASSUME NEW u \in Octets, NEW s \in Octets, NEW n \in Nat, n <= Len(u)
    PROVE  u \o s = SubSeq(u, 1, n) \o (SubSeq(u, n + 1, Len(u)) \o s)
<1> DEFINE x == SubSeq(u, 1, n)
           y == SubSeq(u, n + 1, Len(u))
<1>1. x \in Octets /\ y \in Octets
  BY SplitAt
<1>2. x \o y = u
  BY SplitAt
<1> HIDE DEF x, y
<1>3. (x \o y) \o s = x \o (y \o s)
  BY <1>1, Regroup, Zenon
<1> QED
  BY <1>2, <1>3 DEF x, y

LEMMA PrefixOctets ==
    ASSUME NEW x \in Byte, NEW y \in Byte
    PROVE  << x, y >> \in Octets /\ Len(<< x, y >>) = 2
BY DEF Octets

(***************************************************************************)
(* The walk over a name.                                                   *)
(***************************************************************************)
\* The states of cursor.name's loop, n iterations from w on.
Walks(f, buf, w, n) ==
    f = [i \in 0..n |-> IF i = 0 THEN w ELSE NameStep(buf, f[i - 1])]

LEMMA WalksAt ==
    ASSUME NEW f, NEW buf, NEW w, NEW n \in Nat, Walks(f, buf, w, n), NEW i \in 0..n
    PROVE  f[i] = IF i = 0 THEN w ELSE NameStep(buf, f[i - 1])
BY DEF Walks

LEMMA WalksExists ==
    ASSUME NEW buf, NEW w, NEW n \in Nat PROVE \E f : Walks(f, buf, w, n)
<1> DEFINE G == {m \in Nat : \E f : Walks(f, buf, w, m)}
<1>1. 0 \in G
  <2> DEFINE f == [i \in 0..0 |-> w]
  <2>1. Walks(f, buf, w, 0)
    BY DEF Walks
  <2> QED
    BY <2>1
<1>2. ASSUME NEW m \in Nat, m \in G PROVE m + 1 \in G
  <2>1. PICK h : Walks(h, buf, w, m)
    BY <1>2
  <2> DEFINE last == NameStep(buf, h[m])
             g == [i \in 0..(m + 1) |-> IF i = m + 1 THEN last ELSE h[i]]
  <2>2. ASSUME NEW i \in 0..(m + 1)
        PROVE  g[i] = IF i = 0 THEN w ELSE NameStep(buf, g[i - 1])
    <3>1. CASE i = m + 1
      <4>1. i # 0 /\ i - 1 = m /\ m \in 0..(m + 1) /\ m # m + 1
        BY <3>1
      <4>2. g[i - 1] = h[m] /\ g[i] = last
        BY <3>1, <4>1
      <4> QED
        BY <3>1, <4>1, <4>2
    <3>2. CASE i # m + 1
      <4>1. i \in 0..m
        BY <3>2
      <4>2. h[i] = IF i = 0 THEN w ELSE NameStep(buf, h[i - 1])
        BY <2>1, <4>1, WalksAt
      <4>3. i # 0 => i - 1 \in 0..(m + 1) /\ i - 1 # m + 1
        BY <4>1
      <4>4. g[i] = h[i] /\ (i # 0 => g[i - 1] = h[i - 1])
        BY <3>2, <4>3
      <4> QED
        BY <4>2, <4>4
    <3> QED
      BY <3>1, <3>2
  <2>3. Walks(g, buf, w, m + 1)
    BY <2>2 DEF Walks
  <2> QED
    BY <2>3
<1> HIDE DEF G
<1>3. \A m \in Nat : m \in G
  BY <1>1, <1>2, Induction
<1> QED
  BY <1>3 DEF G

LEMMA WalkIs ==
    ASSUME NEW buf, NEW pos
    PROVE  \E f : Walks(f, buf, WalkFrom(pos), WalkBound) /\ Walk(buf, pos) = f[WalkBound]
<1> DEFINE f == CHOOSE h : h = [i \in 0..WalkBound |->
                                  IF i = 0 THEN WalkFrom(pos) ELSE NameStep(buf, h[i - 1])]
<1>1. WalkBound \in Nat
  BY WireAssumption DEF WalkBound
<1>2. PICK h : Walks(h, buf, WalkFrom(pos), WalkBound)
  BY <1>1, WalksExists
<1>3. Walks(f, buf, WalkFrom(pos), WalkBound)
  BY <1>2 DEF Walks
<1>4. Walk(buf, pos) = f[WalkBound]
  BY DEF Walk
<1> QED
  BY <1>3, <1>4

LEMMA OctetAt ==
    ASSUME NEW s \in Octets, NEW i \in 1..Len(s)
    PROVE  s[i] \in 0..255 /\ s[i] \in Nat
<1> DEFINE v == s[i]
<1>1. v \in Byte
  BY ElementOfSeq DEF Octets
<1> HIDE DEF v
<1>2. v \in 0..255 /\ v \in Nat
  BY <1>1 DEF Byte
<1> QED
  BY <1>2 DEF v

LEMMA OctetsLen == ASSUME NEW s \in Octets PROVE Len(s) \in Nat
BY LenProperties DEF Octets

\* The seven things an iteration can do.
Stands(buf, w) == w.at = "walk" /\ w.pos \in 0..Len(buf)

Truncates(buf, w) == NameStep(buf, w) = [w EXCEPT !.at = "truncated"]

Ends(buf, w) ==
    /\ w.pos < Len(buf) /\ buf[w.pos + 1] = 0
    /\ NameStep(buf, w) = [w EXCEPT !.at = "nil", !.end = EndAt(w, w.pos + 1)]

IsReserved(buf, w) ==
    /\ w.pos < Len(buf) /\ buf[w.pos + 1] \in 64..191
    /\ NameStep(buf, w) = [w EXCEPT !.at = "reserved"]

Follows(buf, w) ==
    /\ w.pos + 1 < Len(buf) /\ buf[w.pos + 1] \in 192..255
    /\ NameStep(buf, w) = FollowPointer(buf, w)

TakesLabel(buf, w) ==
    /\ w.pos + 1 + buf[w.pos + 1] <= Len(buf) /\ buf[w.pos + 1] \in 1..63
    /\ NameStep(buf, w) = TakeLabel(buf, w)

LEMMA StepOf ==
    ASSUME NEW buf \in Octets, NEW w, Stands(buf, w)
    PROVE  \/ Truncates(buf, w) \/ Ends(buf, w) \/ IsReserved(buf, w)
           \/ Follows(buf, w) \/ TakesLabel(buf, w)
<1> DEFINE len  == Len(buf)
           left == Len(buf) - w.pos
           l    == buf[w.pos + 1]
           cut  == [w EXCEPT !.at = "truncated"]
           end  == [w EXCEPT !.at = "nil", !.end = EndAt(w, w.pos + 1)]
           res  == [w EXCEPT !.at = "reserved"]
           next == NameStep(buf, w)
<1>1. len \in Nat /\ w.pos \in Nat /\ w.pos <= len /\ left = len - w.pos
  BY OctetsLen DEF Stands
<1>2. left >= 1 => l \in 0..255
  <2>1. left >= 1 => w.pos + 1 \in 1..Len(buf)
    BY <1>1
  <2> QED
    BY <2>1, OctetAt
<1>3. next =
        CASE left < 1             -> cut
          [] left >= 1 /\ l = 0   -> end
          [] left = 1 /\ l >= 192 -> cut
          [] left > 1 /\ l >= 192 -> FollowPointer(buf, w)
          [] left >= 1 /\ l \in 64..191 -> res
          [] left >= 1 /\ l \in 1..63   -> IF left < 1 + l THEN cut ELSE TakeLabel(buf, w)
  BY DEF NameStep, Stands
<1>4. /\ next = cut => Truncates(buf, w)
      /\ w.pos < len /\ l = 0 /\ next = end => Ends(buf, w)
      /\ w.pos < len /\ l \in 64..191 /\ next = res => IsReserved(buf, w)
      /\ w.pos + 1 < len /\ l \in 192..255 /\ next = FollowPointer(buf, w) => Follows(buf, w)
      /\ w.pos + 1 + l <= len /\ l \in 1..63 /\ next = TakeLabel(buf, w) => TakesLabel(buf, w)
  BY DEF Truncates, Ends, IsReserved, Follows, TakesLabel
<1> HIDE DEF len, left, l, cut, end, res, next
<1>5. CASE left < 1
  BY <1>1, <1>3, <1>4, <1>5
<1>6. CASE left >= 1 /\ l = 0
  BY <1>1, <1>3, <1>4, <1>6
<1>7. CASE left = 1 /\ l >= 192
  BY <1>1, <1>2, <1>3, <1>4, <1>7
<1>8. CASE left > 1 /\ l >= 192
  BY <1>1, <1>2, <1>3, <1>4, <1>8
<1>9. CASE left >= 1 /\ l \in 64..191
  BY <1>1, <1>2, <1>3, <1>4, <1>9
<1>10. CASE left >= 1 /\ l \in 1..63
  BY <1>1, <1>2, <1>3, <1>4, <1>10
<1> QED
  BY <1>1, <1>2, <1>5, <1>6, <1>7, <1>8, <1>9, <1>10

\* A walk stays within the octets and within both limits, and every hop and
\* every label counts.
Failures == {"truncated", "forward", "loop", "too long", "reserved"}

WalkState ==
    [at : Failures \cup {"walk", "nil"}, pos : Nat, hops : Nat, jumped : BOOLEAN, total : Nat,
     labels : Seq(Octets), end : Nat]

LEMMA StateStops ==
    ASSUME NEW w \in WalkState, NEW e \in Failures
    PROVE  [w EXCEPT !.at = e] \in WalkState /\ [w EXCEPT !.at = e].at = e
BY DEF WalkState

\* v is w after the end of the name, after a jump to t, after a label s.
EndsIn(w, k, v) == v = [w EXCEPT !.at = "nil", !.end = k]

JumpsTo(w, k, t, v) ==
    v = [w EXCEPT !.end = k, !.jumped = TRUE, !.hops = @ + 1, !.pos = t]

TakesOn(w, l, s, v) ==
    v = [w EXCEPT !.total = @ + l + 1, !.pos = @ + 1 + l, !.labels = Append(@, s)]

LEMMA StateEnds ==
    ASSUME NEW w \in WalkState, NEW k \in Nat, NEW v, EndsIn(w, k, v)
    PROVE  v \in WalkState /\ v.at = "nil" /\ v.end = k /\ v.labels = w.labels
BY DEF WalkState, EndsIn

LEMMA StateJumps ==
    ASSUME NEW w \in WalkState, NEW k \in Nat, NEW t \in Nat, NEW v, JumpsTo(w, k, t, v)
    PROVE  /\ v \in WalkState /\ v.at = w.at /\ v.pos = t /\ v.hops = w.hops + 1
           /\ v.jumped /\ v.total = w.total /\ v.labels = w.labels /\ v.end = k
<1> DEFINE h == w.hops + 1
<1>1. h \in Nat
  BY DEF WalkState
<1>2. v = [w EXCEPT !.end = k, !.jumped = TRUE, !.hops = h, !.pos = t]
  BY DEF JumpsTo
<1>3. h = w.hops + 1
  OBVIOUS
<1> HIDE DEF h
<1>4. v \in WalkState
  BY <1>1, <1>2 DEF WalkState
<1>5. /\ v.at = w.at /\ v.pos = t /\ v.hops = h
      /\ v.jumped /\ v.total = w.total /\ v.labels = w.labels /\ v.end = k
  BY <1>2 DEF WalkState
<1> QED
  BY <1>3, <1>4, <1>5

LEMMA StateTakes ==
    ASSUME NEW w \in WalkState, NEW l \in Nat, NEW s \in Octets, NEW v, TakesOn(w, l, s, v)
    PROVE  /\ v \in WalkState /\ v.at = w.at /\ v.pos = w.pos + 1 + l /\ v.hops = w.hops
           /\ v.jumped = w.jumped /\ v.total = w.total + l + 1
           /\ v.labels = Append(w.labels, s) /\ v.end = w.end
<1> DEFINE ls == Append(w.labels, s)
           k  == w.total + l + 1
           p  == w.pos + 1 + l
<1>1. ls \in Seq(Octets)
  BY AppendProperties DEF WalkState
<1>2. v = [w EXCEPT !.total = k, !.pos = p, !.labels = ls]
  BY DEF TakesOn
<1>3. k \in Nat /\ p \in Nat
  BY DEF WalkState
<1>4. k = w.total + l + 1 /\ p = w.pos + 1 + l /\ ls = Append(w.labels, s)
  OBVIOUS
<1> HIDE DEF ls, k, p
<1>5. v \in WalkState
  BY <1>1, <1>2, <1>3 DEF WalkState
<1>6. /\ v.at = w.at /\ v.pos = p /\ v.hops = w.hops
      /\ v.jumped = w.jumped /\ v.total = k /\ v.labels = ls /\ v.end = w.end
  BY <1>2 DEF WalkState
<1> QED
  BY <1>4, <1>5, <1>6

Within(len, start, w) ==
    /\ w.pos <= len
    /\ w.hops <= MaxPointerHops
    /\ 2 * Len(w.labels) <= w.total /\ w.total <= MaxNameWire
    /\ IF w.jumped THEN start < w.end /\ w.end <= len ELSE w.pos >= start

WalkInv(len, start, w, i) ==
    /\ w \in WalkState
    /\ w.at = "walk" => Within(len, start, w) /\ i = w.hops + Len(w.labels)
    /\ w.at = "nil" => start < w.end /\ w.end <= len

LEMMA WalkStarts ==
    ASSUME NEW len \in Nat, NEW start \in 0..len
    PROVE  WalkInv(len, start, WalkFrom(start), 0)
<1>1. << >> \in Seq(Octets) /\ Len(<< >>) = 0
  BY EmptySeq
<1>2. WalkFrom(start) \in WalkState
  BY <1>1 DEF WalkFrom, WalkState
<1>3. Within(len, start, WalkFrom(start))
  BY <1>1, WireAssumption DEF WalkFrom, Within
<1> QED
  BY <1>1, <1>2, <1>3 DEF WalkInv, WalkFrom

LEMMA WalkFails ==
    ASSUME NEW w \in WalkState, NEW e \in Failures, NEW v, v = [w EXCEPT !.at = e],
           NEW len, NEW start, NEW i
    PROVE  WalkInv(len, start, v, i)
<1>2. v \in WalkState /\ v.at = e
  BY StateStops
<1>3. e # "walk" /\ e # "nil"
  BY DEF Failures
<1> QED
  BY <1>2, <1>3 DEF WalkInv

LEMMA EndWithin ==
    ASSUME NEW len \in Nat, NEW start \in Nat, NEW w \in WalkState, Within(len, start, w),
           NEW p \in Nat, w.pos < p, p <= len
    PROVE  EndAt(w, p) \in Nat /\ start < EndAt(w, p) /\ EndAt(w, p) <= len
<1>1. w.pos \in Nat /\ w.end \in Nat
  BY DEF WalkState
<1> QED
  BY <1>1 DEF EndAt, Within

\* What FollowPointer and TakeLabel do, with their parts named.
Jumps(buf, w, t, v) ==
    /\ w.pos + 2 <= Len(buf) /\ buf[w.pos + 1] \in 192..255
    /\ t = (buf[w.pos + 1] - 192) * 256 + buf[w.pos + 2]
    /\ \/ t >= w.pos /\ v = [w EXCEPT !.at = "forward"]
       \/ w.hops + 1 > MaxPointerHops /\ v = [w EXCEPT !.at = "loop"]
       \/ t < w.pos /\ w.hops + 1 <= MaxPointerHops /\ JumpsTo(w, EndAt(w, w.pos + 2), t, v)

LEMMA WalkJumps ==
    ASSUME NEW buf \in Octets, NEW w \in WalkState, Follows(buf, w)
    PROVE  \E t \in Nat : Jumps(buf, w, t, NameStep(buf, w))
<1> DEFINE x == buf[w.pos + 1]
           y == buf[w.pos + 2]
           t == (x - 192) * 256 + y
           v == NameStep(buf, w)
           len == Len(buf)
<1>1. x \in 192..255
  BY DEF Follows
<1>2. w.pos \in Nat /\ w.hops \in Nat /\ len \in Nat
  BY OctetsLen DEF WalkState
<1>3. w.pos + 2 <= len
  <2>1. w.pos + 1 < len
    BY DEF Follows
  <2> HIDE DEF len
  <2> QED
    BY <1>2, <2>1
<1>4. y \in Nat
  <2>1. w.pos + 2 \in 1..len
    <3> HIDE DEF len
    <3> QED
      BY <1>2, <1>3
  <2> QED
    BY <2>1, OctetAt
<1>5. v = IF t >= w.pos THEN [w EXCEPT !.at = "forward"]
          ELSE IF w.hops + 1 > MaxPointerHops THEN [w EXCEPT !.at = "loop"]
          ELSE [w EXCEPT !.end = EndAt(w, w.pos + 2), !.jumped = TRUE,
                         !.hops = @ + 1, !.pos = t]
  BY DEF Follows, FollowPointer
<1> HIDE DEF x, y, v, len
<1>6. t \in Nat
  BY <1>1, <1>4
<1> HIDE DEF t
<1>7. \/ t >= w.pos /\ v = [w EXCEPT !.at = "forward"]
      \/ w.hops + 1 > MaxPointerHops /\ v = [w EXCEPT !.at = "loop"]
      \/ t < w.pos /\ w.hops + 1 <= MaxPointerHops /\ JumpsTo(w, EndAt(w, w.pos + 2), t, v)
  <2>1. MaxPointerHops \in Nat
    BY WireAssumption
  <2> QED
    BY <1>2, <1>5, <1>6, <2>1 DEF JumpsTo
<1>8. Jumps(buf, w, t, v)
  BY <1>1, <1>3, <1>7 DEF Jumps, t, x, y, len
<1> QED
  BY <1>6, <1>8 DEF v

Labels(buf, w, l, s, v) ==
    /\ l = buf[w.pos + 1] /\ w.pos + 1 + l <= Len(buf)
    /\ s = SubSeq(buf, w.pos + 2, w.pos + 1 + l) /\ Len(s) = l
    /\ \/ w.total + l + 1 > MaxNameWire /\ v = [w EXCEPT !.at = "too long"]
       \/ w.total + l + 1 <= MaxNameWire /\ TakesOn(w, l, s, v)

LEMMA WalkTakes ==
    ASSUME NEW buf \in Octets, NEW w \in WalkState, TakesLabel(buf, w)
    PROVE  \E l \in 1..63, s \in Octets : Labels(buf, w, l, s, NameStep(buf, w))
<1> DEFINE l == buf[w.pos + 1]
           p == w.pos + 1 + l
           s == SubSeq(buf, w.pos + 2, p)
           v == NameStep(buf, w)
<1>1. l \in 1..63
  BY DEF TakesLabel
<1>2. w.pos \in Nat /\ w.total \in Nat /\ MaxNameWire \in Nat
  BY WireAssumption DEF WalkState
<1>3. p <= Len(buf)
  BY DEF TakesLabel
<1>4. v = IF w.total + l + 1 > MaxNameWire THEN [w EXCEPT !.at = "too long"]
          ELSE [w EXCEPT !.total = @ + l + 1, !.pos = @ + 1 + l, !.labels = Append(@, s)]
  BY DEF TakesLabel, TakeLabel
<1>5. p = w.pos + 1 + l
  OBVIOUS
<1> HIDE DEF l, p, v
<1>6. w.pos + 2 \in Nat \ {0} /\ p \in Nat /\ p - (w.pos + 2) + 1 = l /\ w.pos + 2 <= p
  BY <1>1, <1>2, <1>5
<1>7. s \in Octets /\ Len(s) = l
  BY <1>3, <1>6, PartOctets
<1>8. s = SubSeq(buf, w.pos + 2, p)
  OBVIOUS
<1> HIDE DEF s
<1>9. \/ w.total + l + 1 > MaxNameWire /\ v = [w EXCEPT !.at = "too long"]
      \/ w.total + l + 1 <= MaxNameWire /\ TakesOn(w, l, s, v)
  <2>1. w.total + l + 1 > MaxNameWire \/ w.total + l + 1 <= MaxNameWire
    BY <1>1, <1>2
  <2>2. CASE w.total + l + 1 > MaxNameWire
    BY <1>4, <2>2
  <2>3. CASE ~ (w.total + l + 1 > MaxNameWire)
    BY <1>4, <2>1, <2>3 DEF TakesOn
  <2> QED
    BY <2>2, <2>3
<1>10. Labels(buf, w, l, s, v)
  BY <1>3, <1>5, <1>7, <1>8, <1>9 DEF Labels, l
<1> QED
  BY <1>1, <1>7, <1>10 DEF v

LEMMA WalkGoesOn ==
    ASSUME NEW buf \in Octets, NEW start \in Nat, NEW i \in Nat, NEW w,
           WalkInv(Len(buf), start, w, i)
    PROVE  WalkInv(Len(buf), start, NameStep(buf, w), i + 1)
<1> DEFINE len  == Len(buf)
           next == NameStep(buf, w)
<1>1. /\ len \in Nat /\ MaxPointerHops \in Nat /\ MaxNameWire \in Nat
      /\ w \in WalkState
  BY OctetsLen, WireAssumption DEF WalkInv
<1>2. CASE w.at # "walk"
  <2>1. NameStep(buf, w) = w
    BY <1>2 DEF NameStep
  <2> QED
    BY <1>2, <2>1 DEF WalkInv
<1>3. CASE w.at = "walk"
  <2>1. /\ Within(len, start, w) /\ i = w.hops + Len(w.labels) /\ Len(w.labels) \in Nat
        /\ w.pos \in Nat /\ w.hops \in Nat /\ w.total \in Nat /\ w.end \in Nat
        /\ w.jumped \in BOOLEAN /\ w.labels \in Seq(Octets)
    BY <1>1, <1>3, LenProperties DEF WalkInv, WalkState
  <2>2. Stands(buf, w)
    BY <1>1, <1>3, <2>1 DEF Stands, Within
  <2>3. Truncates(buf, w) \/ Ends(buf, w) \/ IsReserved(buf, w) \/ Follows(buf, w)
          \/ TakesLabel(buf, w)
    BY <2>2, StepOf
  <2>4. CASE Truncates(buf, w)
    <3>1. next = [w EXCEPT !.at = "truncated"] /\ "truncated" \in Failures
      BY <2>4 DEF Truncates, Failures
    <3> HIDE DEF len, next
    <3>2. WalkInv(len, start, next, i + 1)
      BY <1>1, <3>1, WalkFails
    <3> QED
      BY <3>2 DEF len, next
  <2>5. CASE IsReserved(buf, w)
    <3>1. next = [w EXCEPT !.at = "reserved"] /\ "reserved" \in Failures
      BY <2>5 DEF IsReserved, Failures
    <3> HIDE DEF len, next
    <3>2. WalkInv(len, start, next, i + 1)
      BY <1>1, <3>1, WalkFails
    <3> QED
      BY <3>2 DEF len, next
  <2>6. CASE Ends(buf, w)
    <3> DEFINE p == w.pos + 1
               k == EndAt(w, p)
    <3>1. w.pos < len /\ EndsIn(w, k, next)
      BY <2>6 DEF Ends, EndsIn
    <3> HIDE DEF len, next
    <3>2. p \in Nat /\ w.pos < p /\ p <= len
      BY <1>1, <2>1, <3>1
    <3> HIDE DEF p
    <3>3. k \in Nat /\ start < k /\ k <= len
      BY <1>1, <2>1, <3>2, EndWithin
    <3> HIDE DEF k
    <3>4. next \in WalkState /\ next.at = "nil" /\ next.end = k
      BY <1>1, <3>1, <3>3, StateEnds
    <3>5. WalkInv(len, start, next, i + 1)
      BY <3>3, <3>4 DEF WalkInv
    <3> QED
      BY <3>5 DEF len, next
  <2>7. CASE Follows(buf, w)
    <3>1. PICK t \in Nat : Jumps(buf, w, t, next)
      BY <1>1, <2>7, WalkJumps
    <3> DEFINE p == w.pos + 2
               k == EndAt(w, p)
    <3>2. /\ p <= len
          /\ \/ next = [w EXCEPT !.at = "forward"] \/ next = [w EXCEPT !.at = "loop"]
             \/ t < w.pos /\ w.hops + 1 <= MaxPointerHops /\ JumpsTo(w, k, t, next)
      BY <3>1 DEF Jumps
    <3> HIDE DEF len, next
    <3>3. p \in Nat /\ w.pos < p
      BY <2>1
    <3> HIDE DEF p
    <3>4. k \in Nat /\ start < k /\ k <= len
      BY <1>1, <2>1, <3>2, <3>3, EndWithin
    <3> HIDE DEF k
    <3>5. WalkInv(len, start, next, i + 1)
      <4>1. CASE next = [w EXCEPT !.at = "forward"] \/ next = [w EXCEPT !.at = "loop"]
        <5>1. "forward" \in Failures /\ "loop" \in Failures
          BY DEF Failures
        <5> QED
          BY <1>1, <4>1, <5>1, WalkFails
      <4>2. CASE t < w.pos /\ w.hops + 1 <= MaxPointerHops /\ JumpsTo(w, k, t, next)
        <5>1. t \in Nat /\ w \in WalkState /\ k \in Nat /\ JumpsTo(w, k, t, next)
          BY <1>1, <3>4, <4>2
        <5>2. /\ next \in WalkState /\ next.at = w.at /\ next.pos = t
              /\ next.hops = w.hops + 1 /\ next.jumped /\ next.total = w.total
              /\ next.labels = w.labels /\ next.end = k
          BY <5>1, StateJumps, SMTT(30)
        <5>3. i + 1 = next.hops + Len(next.labels)
          BY <2>1, <5>2
        <5>4. Within(len, start, next)
          BY <1>1, <2>1, <3>4, <4>2, <5>2 DEF Within
        <5> QED
          BY <1>3, <5>2, <5>3, <5>4 DEF WalkInv
      <4> QED
        BY <3>2, <4>1, <4>2
    <3> QED
      BY <3>5 DEF len, next
  <2>8. CASE TakesLabel(buf, w)
    <3>1. PICK l \in 1..63, s \in Octets : Labels(buf, w, l, s, next)
      BY <1>1, <2>8, WalkTakes
    <3>2. /\ w.pos + 1 + l <= len
          /\ \/ next = [w EXCEPT !.at = "too long"]
             \/ w.total + l + 1 <= MaxNameWire /\ TakesOn(w, l, s, next)
      BY <3>1 DEF Labels
    <3>3. l \in Nat /\ l >= 1
      OBVIOUS
    <3> HIDE DEF len, next
    <3>4. WalkInv(len, start, next, i + 1)
      <4>1. CASE next = [w EXCEPT !.at = "too long"]
        <5>1. "too long" \in Failures
          BY DEF Failures
        <5> QED
          BY <1>1, <4>1, <5>1, WalkFails
      <4>2. CASE w.total + l + 1 <= MaxNameWire /\ TakesOn(w, l, s, next)
        <5>1. /\ next \in WalkState /\ next.at = w.at /\ next.pos = w.pos + 1 + l
              /\ next.hops = w.hops /\ next.jumped = w.jumped
              /\ next.total = w.total + l + 1
              /\ next.labels = Append(w.labels, s) /\ next.end = w.end
          BY <1>1, <3>3, <4>2, StateTakes
        <5>2. Len(next.labels) = Len(w.labels) + 1
          BY <2>1, <5>1, AppendProperties
        <5>3. i + 1 = next.hops + Len(next.labels)
          <6> DEFINE n == Len(w.labels)
          <6>1. i = w.hops + n /\ n \in Nat /\ w.hops \in Nat
            BY <2>1
          <6>2. Len(next.labels) = n + 1 /\ next.hops = w.hops
            BY <5>1, <5>2
          <6> HIDE DEF n
          <6> QED
            BY <6>1, <6>2
        <5>4. Within(len, start, next)
          <6> DEFINE n == Len(w.labels)
                     m == Len(next.labels)
          <6>1. /\ w.hops <= MaxPointerHops /\ 2 * n <= w.total /\ n \in Nat
                /\ IF w.jumped THEN start < w.end /\ w.end <= len ELSE w.pos >= start
            BY <2>1 DEF Within
          <6>2. m = n + 1
            BY <5>2
          <6> HIDE DEF n, m
          <6>3. next.pos <= len /\ next.hops <= MaxPointerHops /\ next.total <= MaxNameWire
            BY <3>2, <4>2, <5>1, <6>1
          <6>4. 2 * m <= next.total
            BY <2>1, <3>3, <5>1, <6>1, <6>2
          <6>5. IF next.jumped THEN start < next.end /\ next.end <= len ELSE next.pos >= start
            BY <2>1, <3>3, <5>1, <6>1
          <6> QED
            BY <6>3, <6>4, <6>5 DEF Within, m
        <5> QED
          BY <1>3, <5>1, <5>3, <5>4 DEF WalkInv
      <4> QED
        BY <3>2, <4>1, <4>2
    <3> QED
      BY <3>4 DEF len, next
  <2> QED
    BY <2>3, <2>4, <2>5, <2>6, <2>7, <2>8
<1> QED
  BY <1>2, <1>3

LEMMA WalkRuns ==
    ASSUME NEW buf \in Octets, NEW start \in 0..Len(buf), NEW n \in Nat, NEW f,
           Walks(f, buf, WalkFrom(start), n)
    PROVE  \A i \in 0..n : WalkInv(Len(buf), start, f[i], i)
<1> DEFINE G == {i \in Nat : i <= n => WalkInv(Len(buf), start, f[i], i)}
<1>1. 0 \in G
  <2>1. 0 \in 0..n
    OBVIOUS
  <2>2. f[0] = WalkFrom(start)
    BY <2>1, WalksAt
  <2>3. Len(buf) \in Nat
    BY OctetsLen
  <2> QED
    BY <2>2, <2>3, WalkStarts
<1>2. ASSUME NEW i \in Nat, i \in G PROVE i + 1 \in G
  <2> SUFFICES ASSUME i + 1 <= n PROVE WalkInv(Len(buf), start, f[i + 1], i + 1)
    OBVIOUS
  <2> DEFINE k == i + 1
  <2>1. k \in 0..n /\ k # 0 /\ k - 1 = i /\ i <= n /\ start \in Nat
    BY OctetsLen
  <2> HIDE DEF k
  <2>2. f[k] = NameStep(buf, f[k - 1])
    BY <2>1, WalksAt
  <2>3. f[i + 1] = NameStep(buf, f[i])
    BY <2>1, <2>2 DEF k
  <2>4. WalkInv(Len(buf), start, f[i], i)
    BY <1>2, <2>1
  <2> QED
    BY <2>1, <2>3, <2>4, WalkGoesOn
<1> HIDE DEF G
<1>3. \A i \in Nat : i \in G
  BY <1>1, <1>2, Induction
<1> QED
  BY <1>3 DEF G

\* Reading a name ends, and within the octets.
Walked(len, start, w) ==
    /\ w \in WalkState /\ w.at \in Failures \cup {"nil"}
    /\ w.at = "nil" => start < w.end /\ w.end <= len

LEMMA WalkEnding ==
    ASSUME NEW buf \in Octets, NEW start \in 0..Len(buf)
    PROVE  Walked(Len(buf), start, Walk(buf, start))
<1>1. PICK f : /\ Walks(f, buf, WalkFrom(start), WalkBound)
               /\ Walk(buf, start) = f[WalkBound]
  BY WalkIs
<1>2. /\ WalkBound \in Nat /\ MaxNameWire \in Nat /\ MaxPointerHops \in Nat
      /\ MaxNameWire < 2 * (MaxNameWire \div 2) + 2 /\ MaxNameWire \div 2 \in Nat
      /\ WalkBound = MaxPointerHops + (MaxNameWire \div 2) + 1
  BY WireAssumption DEF WalkBound
<1>3. WalkBound \in 0..WalkBound
  BY <1>2
<1> DEFINE w == Walk(buf, start)
           len == Len(buf)
<1>4. WalkInv(len, start, w, WalkBound)
  BY <1>1, <1>2, <1>3, WalkRuns
<1> HIDE DEF w, len
<1>5. w.at # "walk"
  <2> SUFFICES ASSUME w.at = "walk" PROVE FALSE
    OBVIOUS
  <2>1. /\ WalkBound = w.hops + Len(w.labels) /\ w.hops <= MaxPointerHops
        /\ 2 * Len(w.labels) <= w.total /\ w.total <= MaxNameWire
        /\ w.hops \in Nat /\ w.total \in Nat /\ Len(w.labels) \in Nat
    BY <1>4, LenProperties DEF WalkInv, Within, WalkState
  <2> QED
    BY <1>2, <2>1
<1>6. w \in WalkState /\ (w.at = "nil" => start < w.end /\ w.end <= len)
  BY <1>4 DEF WalkInv
<1>7. w.at \in Failures \cup {"nil"}
  BY <1>5, <1>6 DEF WalkState
<1>8. Walked(len, start, w)
  BY <1>6, <1>7 DEF Walked
<1> QED
  BY <1>8 DEF w, len

LEMMA Append1 ==
    ASSUME NEW a, NEW b PROVE Append(<< a >>, b) = << a, b >>
<1> DEFINE S == {a, b}
           s == << a >>
           t == << a, b >>
           u == Append(s, b)
<1>1. s \in Seq(S) /\ t \in Seq(S) /\ b \in S /\ Len(s) = 1 /\ Len(t) = 2
  OBVIOUS
<1>2. s[1] = a
  OBVIOUS
<1>3. t[1] = a /\ t[2] = b
  OBVIOUS
<1>4. /\ u \in Seq(S) /\ Len(u) = Len(s) + 1 /\ u[Len(s) + 1] = b
      /\ \A i \in 1..Len(s) : u[i] = s[i]
  BY <1>1, AppendProperties
<1> HIDE DEF s, t, u
<1>5. u[1] = a /\ u[2] = b
  BY <1>1, <1>2, <1>4
<1>6. \A i \in 1..2 : u[i] = t[i]
  BY <1>3, <1>5
<1>7. u = t
  BY <1>1, <1>4, <1>6, SeqEqual
<1> QED
  BY <1>7 DEF s, t, u

LEMMA Append2 ==
    ASSUME NEW a, NEW b, NEW c PROVE Append(<< a, b >>, c) = << a, b, c >>
<1> DEFINE S == {a, b, c}
           s == << a, b >>
           t == << a, b, c >>
           u == Append(s, c)
<1>1. s \in Seq(S) /\ t \in Seq(S) /\ c \in S /\ Len(s) = 2 /\ Len(t) = 3
  OBVIOUS
<1>2. s[1] = a /\ s[2] = b
  OBVIOUS
<1>3. t[1] = a /\ t[2] = b /\ t[3] = c
  OBVIOUS
<1>4. /\ u \in Seq(S) /\ Len(u) = Len(s) + 1 /\ u[Len(s) + 1] = c
      /\ \A i \in 1..Len(s) : u[i] = s[i]
  BY <1>1, AppendProperties
<1> HIDE DEF s, t, u
<1>5. u[1] = a /\ u[2] = b /\ u[3] = c
  BY <1>1, <1>2, <1>4
<1>6. \A i \in 1..3 : u[i] = t[i]
  BY <1>3, <1>5
<1>7. u = t
  BY <1>1, <1>4, <1>6, SeqEqual
<1> QED
  BY <1>7 DEF s, t, u

LEMMA Append3 ==
    ASSUME NEW a, NEW b, NEW c, NEW d PROVE Append(<< a, b, c >>, d) = << a, b, c, d >>
<1> DEFINE S == {a, b, c, d}
           s == << a, b, c >>
           t == << a, b, c, d >>
           u == Append(s, d)
<1>1. s \in Seq(S) /\ t \in Seq(S) /\ d \in S /\ Len(s) = 3 /\ Len(t) = 4
  OBVIOUS
<1>2. s[1] = a /\ s[2] = b /\ s[3] = c
  OBVIOUS
<1>3. t[1] = a /\ t[2] = b /\ t[3] = c /\ t[4] = d
  OBVIOUS
<1>4. /\ u \in Seq(S) /\ Len(u) = Len(s) + 1 /\ u[Len(s) + 1] = d
      /\ \A i \in 1..Len(s) : u[i] = s[i]
  BY <1>1, AppendProperties
<1> HIDE DEF s, t, u
<1>5. u[1] = a /\ u[2] = b /\ u[3] = c /\ u[4] = d
  BY <1>1, <1>2, <1>4
<1>6. \A i \in 1..4 : u[i] = t[i]
  BY <1>3, <1>5
<1>7. u = t
  BY <1>1, <1>4, <1>6, SeqEqual
<1> QED
  BY <1>7 DEF s, t, u

LEMMA Append4 ==
    ASSUME NEW a, NEW b, NEW c, NEW d, NEW e PROVE Append(<< a, b, c, d >>, e) = << a, b, c, d, e >>
<1> DEFINE S == {a, b, c, d, e}
           s == << a, b, c, d >>
           t == << a, b, c, d, e >>
           u == Append(s, e)
<1>1. s \in Seq(S) /\ t \in Seq(S) /\ e \in S /\ Len(s) = 4 /\ Len(t) = 5
  OBVIOUS
<1>2. s[1] = a /\ s[2] = b /\ s[3] = c /\ s[4] = d
  OBVIOUS
<1>3. t[1] = a /\ t[2] = b /\ t[3] = c /\ t[4] = d /\ t[5] = e
  OBVIOUS
<1>4. /\ u \in Seq(S) /\ Len(u) = Len(s) + 1 /\ u[Len(s) + 1] = e
      /\ \A i \in 1..Len(s) : u[i] = s[i]
  BY <1>1, AppendProperties
<1> HIDE DEF s, t, u
<1>5. u[1] = a /\ u[2] = b /\ u[3] = c /\ u[4] = d /\ u[5] = e
  BY <1>1, <1>2, <1>4
<1>6. \A i \in 1..5 : u[i] = t[i]
  BY <1>3, <1>5
<1>7. u = t
  BY <1>1, <1>4, <1>6, SeqEqual
<1> QED
  BY <1>7 DEF s, t, u

LEMMA Append5 ==
    ASSUME NEW a, NEW b, NEW c, NEW d, NEW e, NEW f PROVE Append(<< a, b, c, d, e >>, f) = << a, b, c, d, e, f >>
<1> DEFINE S == {a, b, c, d, e, f}
           s == << a, b, c, d, e >>
           t == << a, b, c, d, e, f >>
           u == Append(s, f)
<1>1. s \in Seq(S) /\ t \in Seq(S) /\ f \in S /\ Len(s) = 5 /\ Len(t) = 6
  OBVIOUS
<1>2. s[1] = a /\ s[2] = b /\ s[3] = c /\ s[4] = d /\ s[5] = e
  OBVIOUS
<1>3. t[1] = a /\ t[2] = b /\ t[3] = c /\ t[4] = d /\ t[5] = e /\ t[6] = f
  OBVIOUS
<1>4. /\ u \in Seq(S) /\ Len(u) = Len(s) + 1 /\ u[Len(s) + 1] = f
      /\ \A i \in 1..Len(s) : u[i] = s[i]
  BY <1>1, AppendProperties
<1> HIDE DEF s, t, u
<1>5. u[1] = a /\ u[2] = b /\ u[3] = c /\ u[4] = d /\ u[5] = e /\ u[6] = f
  BY <1>1, <1>2, <1>4
<1>6. \A i \in 1..6 : u[i] = t[i]
  BY <1>3, <1>5
<1>7. u = t
  BY <1>1, <1>4, <1>6, SeqEqual
<1> QED
  BY <1>7 DEF s, t, u

LEMMA Append6 ==
    ASSUME NEW a, NEW b, NEW c, NEW d, NEW e, NEW f, NEW g PROVE Append(<< a, b, c, d, e, f >>, g) = << a, b, c, d, e, f, g >>
<1> DEFINE S == {a, b, c, d, e, f, g}
           s == << a, b, c, d, e, f >>
           t == << a, b, c, d, e, f, g >>
           u == Append(s, g)
<1>1. s \in Seq(S) /\ t \in Seq(S) /\ g \in S /\ Len(s) = 6 /\ Len(t) = 7
  OBVIOUS
<1>2. s[1] = a /\ s[2] = b /\ s[3] = c /\ s[4] = d /\ s[5] = e /\ s[6] = f
  OBVIOUS
<1>3. t[1] = a /\ t[2] = b /\ t[3] = c /\ t[4] = d /\ t[5] = e /\ t[6] = f /\ t[7] = g
  OBVIOUS
<1>4. /\ u \in Seq(S) /\ Len(u) = Len(s) + 1 /\ u[Len(s) + 1] = g
      /\ \A i \in 1..Len(s) : u[i] = s[i]
  BY <1>1, AppendProperties
<1> HIDE DEF s, t, u
<1>5. u[1] = a /\ u[2] = b /\ u[3] = c /\ u[4] = d /\ u[5] = e /\ u[6] = f /\ u[7] = g
  BY <1>1, <1>2, <1>4
<1>6. \A i \in 1..7 : u[i] = t[i]
  BY <1>3, <1>5
<1>7. u = t
  BY <1>1, <1>4, <1>6, SeqEqual
<1> QED
  BY <1>7 DEF s, t, u

(***************************************************************************)
(* What the cursor's readers do.                                           *)
(***************************************************************************)
\* The cursor at pos, with what it has read.
At(buf, pos, vals) == [buf |-> buf, pos |-> pos, err |-> "nil", vals |-> vals]

Cursors(buf, pos, vals) == [buf : {buf}, pos : {pos}, err : {"nil"}, vals : {vals}]

LEMMA OneCursor ==
    ASSUME NEW b, NEW p, NEW vs PROVE At(b, p, vs) \in Cursors(b, p, vs)
BY DEF At, Cursors

LEMMA TheCursor ==
    ASSUME NEW b, NEW p, NEW vs, NEW c \in Cursors(b, p, vs) PROVE c = At(b, p, vs)
BY DEF At, Cursors

LEMMA AtFields ==
    ASSUME NEW b, NEW p, NEW vs
    PROVE  /\ At(b, p, vs).buf = b /\ At(b, p, vs).pos = p
           /\ At(b, p, vs).err = "nil" /\ At(b, p, vs).vals = vs
BY DEF At

\* (Definitions, so that the provers see one term.)
Moved(c, pos, vals) == [c EXCEPT !.pos = pos, !.vals = vals]
Holding(c, vals) == [c EXCEPT !.vals = vals]

LEMMA AtMoves ==
    ASSUME NEW b, NEW p, NEW vs, NEW q, NEW us, NEW c, c = At(b, p, vs)
    PROVE  Moved(c, q, us) = At(b, q, us)
<1> DEFINE d == Moved(c, q, us)
<1>1. c \in Cursors(b, p, vs)
  BY OneCursor
<1>2. d \in Cursors(b, q, us)
  BY <1>1 DEF Cursors, Moved
<1> HIDE DEF d
<1>3. d = At(b, q, us)
  BY <1>2, TheCursor
<1> QED
  BY <1>3 DEF d

LEMMA AtValues ==
    ASSUME NEW b, NEW p, NEW vs, NEW us, NEW c, c = At(b, p, vs)
    PROVE  Holding(c, us) = At(b, p, us)
<1> DEFINE d == Holding(c, us)
<1>1. c \in Cursors(b, p, vs)
  BY OneCursor
<1>2. d \in Cursors(b, p, us)
  BY <1>1 DEF Cursors, Holding
<1> HIDE DEF d
<1>3. d = At(b, p, us)
  BY <1>2, TheCursor
<1> QED
  BY <1>3 DEF d

LEMMA AtFails ==
    ASSUME NEW c, NEW b, NEW p, NEW vs, NEW e, c = At(b, p, vs) PROVE FailRead(c, e).err = e /\ FailRead(c, e).buf = b
<1>1. c \in Cursors(b, p, vs)
  BY OneCursor
<1>2. c.err = "nil" /\ [c EXCEPT !.err = e].err = e /\ [c EXCEPT !.err = e].buf = b
  BY <1>1 DEF Cursors
<1> QED
  BY <1>2 DEF FailRead

\* The errors of Decode.
Errors == Failures \cup {"short read", "bad address", "bad TXT"}

Fails(c) == c.err \in Errors

\* A failed cursor still has its octets.
Stuck(c, b) == Fails(c) /\ c.buf = b

LEMMA FailsIsError == ASSUME NEW c, Fails(c) PROVE c.err # "nil" /\ c.err # "walk"
BY DEF Fails, Errors, Failures

LEMMA StuckIsError ==
    ASSUME NEW c, NEW b, Stuck(c, b)
    PROVE  c.err # "nil" /\ c.err # "walk" /\ Fails(c) /\ c.buf = b
BY FailsIsError DEF Stuck

\* A read that goes beyond the end fails.
Reads(c, b, p, vs) ==
    \/ p <= Len(b) /\ c = At(b, p, vs)
    \/ p > Len(b) /\ Stuck(c, b)

LEMMA TakeReads ==
    ASSUME NEW b \in Octets, NEW p \in Nat, NEW vs, NEW c, Reads(c, b, p, vs),
           NEW n \in Nat, NEW v
    PROVE  Reads(Take(c, n, v), b, p + n, Append(vs, v))
<1> DEFINE len == Len(b)
           us  == Append(vs, v)
           q   == p + n
<1>1. len \in Nat
  BY OctetsLen
<1>2. CASE p <= len /\ c = At(b, p, vs)
  <2>1. c = At(b, p, vs)
    BY <1>2
  <2>2. c.err = "nil" /\ c.pos = p /\ c.buf = b /\ c.vals = vs
    BY <2>1, AtFields
  <2>3. CASE p + n > len
    <3>1. Take(c, n, v) = FailRead(c, "short read")
      BY <2>2, <2>3 DEF Take
    <3>2. Take(c, n, v).err = "short read" /\ Take(c, n, v).buf = b
      <4> DEFINE e == "short read"
      <4>1. FailRead(c, e).err = e /\ FailRead(c, e).buf = b
        <5> HIDE DEF e
        <5> QED
          BY <2>1, AtFails
      <4>2. FailRead(c, "short read").err = "short read" /\ FailRead(c, "short read").buf = b
        BY <4>1
      <4> QED
        BY <3>1, <4>2
    <3>3. Stuck(Take(c, n, v), b)
      BY <3>2 DEF Fails, Errors, Stuck
    <3> QED
      BY <2>3, <3>3 DEF Reads
  <2>4. CASE ~ (p + n > len)
    <3>1. Take(c, n, v) = Moved(c, q, us)
      BY <2>2, <2>4 DEF Take, Moved
    <3>2. q <= len
      BY <1>1, <2>4
    <3> HIDE DEF us, q
    <3>3. Take(c, n, v) = At(b, q, us)
      <4>1. Moved(c, q, us) = At(b, q, us)
        BY <2>1, AtMoves
      <4> QED
        BY <3>1, <4>1
    <3> QED
      BY <3>2, <3>3 DEF Reads, us, q
  <2> QED
    BY <2>3, <2>4
<1>3. CASE p > len /\ Stuck(c, b)
  <2>1. Take(c, n, v) = c
    BY <1>3, StuckIsError DEF Take, FailRead
  <2> HIDE DEF len
  <2>2. p + n > len
    BY <1>1, <1>3
  <2> QED
    BY <1>3, <2>1, <2>2 DEF Reads, len
<1> QED
  BY <1>2, <1>3 DEF Reads

WordAt(b, p) == Word(SubSeq(b, p + 1, p + 2))
LongAt(b, p) == << WordAt(b, p), Word(SubSeq(SubSeq(b, p + 1, p + 4), 3, 4)) >>

LEMMA U16Reads ==
    ASSUME NEW b \in Octets, NEW p \in Nat, NEW vs, NEW c, Reads(c, b, p, vs)
    PROVE  Reads(ReadU16(c), b, p + 2, Append(vs, WordAt(b, p)))
<1> DEFINE v == Word(Ahead(c, 2))
<1>1. Reads(Take(c, 2, v), b, p + 2, Append(vs, v))
  <2> HIDE DEF v
  <2> QED
    BY TakeReads
<1>2. CASE c = At(b, p, vs)
  <2>1. v = WordAt(b, p)
    BY <1>2, AtFields DEF Ahead, WordAt
  <2> QED
    BY <1>1, <2>1 DEF ReadU16
<1>3. CASE Stuck(c, b) /\ p > Len(b)
  <2>1. ReadU16(c) = c
    BY <1>3, StuckIsError DEF ReadU16, Take, FailRead
  <2> DEFINE len == Len(b)
  <2>2. len \in Nat /\ p > len
    BY <1>3, OctetsLen
  <2> HIDE DEF len
  <2>3. p + 2 > len
    BY <2>2
  <2> QED
    BY <1>3, <2>1, <2>3 DEF Reads, len
<1> QED
  BY <1>2, <1>3 DEF Reads

LEMMA U32Reads ==
    ASSUME NEW b \in Octets, NEW p \in Nat, NEW vs, NEW c, Reads(c, b, p, vs)
    PROVE  Reads(ReadU32(c), b, p + 4, Append(vs, LongAt(b, p)))
<1> DEFINE v == << Word(Ahead(c, 2)), Word(SubSeq(Ahead(c, 4), 3, 4)) >>
<1>1. Reads(Take(c, 4, v), b, p + 4, Append(vs, v))
  <2> HIDE DEF v
  <2> QED
    BY TakeReads
<1>2. CASE c = At(b, p, vs)
  <2>1. v = LongAt(b, p)
    BY <1>2, AtFields DEF Ahead, WordAt, LongAt
  <2> QED
    BY <1>1, <2>1 DEF ReadU32
<1>3. CASE Stuck(c, b) /\ p > Len(b)
  <2>1. Take(c, 4, v) = c
    <3> HIDE DEF v
    <3> QED
      BY <1>3, StuckIsError DEF Take, FailRead
  <2>2. ReadU32(c) = c
    BY <2>1 DEF ReadU32
  <2> DEFINE len == Len(b)
  <2>3. len \in Nat /\ p > len
    BY <1>3, OctetsLen
  <2> HIDE DEF len
  <2>4. p + 4 > len
    BY <2>3
  <2> QED
    BY <1>3, <2>2, <2>4 DEF Reads, len
<1> QED
  BY <1>2, <1>3 DEF Reads

LEMMA BytesRead ==
    ASSUME NEW b \in Octets, NEW p \in Nat, NEW vs, NEW c, Reads(c, b, p, vs), NEW n \in Nat
    PROVE  Reads(ReadBytes(c, n), b, p + n, Append(vs, SubSeq(b, p + 1, p + n)))
<1> DEFINE v == Ahead(c, n)
<1>1. Reads(Take(c, n, v), b, p + n, Append(vs, v))
  <2> HIDE DEF v
  <2> QED
    BY TakeReads
<1>2. CASE c = At(b, p, vs)
  <2>1. c.buf = b /\ c.pos = p
    BY <1>2, AtFields
  <2>2. v = SubSeq(b, p + 1, p + n)
    BY <2>1 DEF Ahead
  <2> QED
    BY <1>1, <2>2 DEF ReadBytes
<1>3. CASE Stuck(c, b) /\ p > Len(b)
  <2>1. ReadBytes(c, n) = c
    BY <1>3, StuckIsError DEF ReadBytes, Take, FailRead
  <2> DEFINE len == Len(b)
  <2>2. len \in Nat /\ p > len
    BY <1>3, OctetsLen
  <2> HIDE DEF len
  <2>3. p + n > len
    BY <2>2
  <2> QED
    BY <1>3, <2>1, <2>3 DEF Reads, len
<1> QED
  BY <1>2, <1>3 DEF Reads

LEMMA FunctionSeq ==
    ASSUME NEW S, NEW n \in Nat, NEW f \in [1..n -> S]
    PROVE  f \in Seq(S) /\ Len(f) = n
OBVIOUS

LEMMA SeqFunction == ASSUME NEW S, NEW s \in Seq(S)
    PROVE DOMAIN s = 1..Len(s) /\ Len(s) \in Nat
BY LenProperties

\* One octet in lower case.
LowerOf(s, i) ==
    CASE s[i] \in 65..90 -> << s[i] + 32 >>
      [] s[i] > 127 /\ ~ InRune(s, i) -> RuneError
      [] OTHER -> << s[i] >>

LEMMA LowerOfOctets ==
    ASSUME NEW s \in Octets, NEW i \in 1..Len(s) PROVE LowerOf(s, i) \in Octets
<1> DEFINE v == s[i]
<1>1. v \in 0..255
  BY OctetAt
<1>2. LowerOf(s, i) = CASE v \in 65..90 -> << v + 32 >>
                        [] v > 127 /\ ~ InRune(s, i) -> RuneError
                        [] OTHER -> << v >>
  BY DEF LowerOf
<1> HIDE DEF v
<1>3. << v >> \in Octets /\ RuneError \in Octets
  BY <1>1 DEF Octets, Byte, RuneError
<1>4. v \in 65..90 => << v + 32 >> \in Octets
  BY <1>1 DEF Octets, Byte
<1> QED
  BY <1>1, <1>2, <1>3, <1>4

LEMMA ToLowerOctets == ASSUME NEW s \in Octets PROVE ToLower(s) \in Octets
<1> DEFINE f == [i \in 1..Len(s) |-> LowerOf(s, i)]
<1>1. Len(s) \in Nat /\ DOMAIN s = 1..Len(s)
  BY LenProperties DEF Octets
<1>2. ToLower(s) = FlattenSeq(f)
  BY <1>1 DEF ToLower, LowerOf
<1>3. f \in [1..Len(s) -> Octets]
  BY LowerOfOctets
<1> HIDE DEF f
<1>4. f \in Seq(Octets)
  BY <1>1, <1>3, FunctionSeq
<1>5. FlattenSeq(f) \in Octets
  BY <1>4, FlattenType DEF Octets
<1> QED
  BY <1>2, <1>5

LEMMA JoinLabelsOctets ==
    ASSUME NEW labels \in Seq(Octets) PROVE Join(labels) \in Octets
<1> DEFINE f == [i \in DOMAIN labels |->
                   IF i = 1 THEN labels[i] ELSE << Dot >> \o labels[i]]
<1>1. Len(labels) \in Nat /\ DOMAIN labels = 1..Len(labels)
  BY LenProperties
<1>2. << Dot >> \in Octets
  BY WireAssumption DEF Octets, Byte
<1>3. ASSUME NEW i \in 1..Len(labels)
      PROVE  labels[i] \in Octets /\ << Dot >> \o labels[i] \in Octets
  <2>1. labels[i] \in Octets
    BY ElementOfSeq
  <2> QED
    BY <1>2, <2>1, JoinOctets
<1>4. f \in [1..Len(labels) -> Octets]
  BY <1>1, <1>3
<1> HIDE DEF f
<1>5. f \in Seq(Octets)
  BY <1>1, <1>4, FunctionSeq
<1>6. FlattenSeq(f) \in Octets
  BY <1>5, FlattenType DEF Octets
<1> QED
  BY <1>6 DEF Join, f

(***************************************************************************)
(* What is where in the octets: names.                                     *)
(***************************************************************************)
GoodName(b, p) == p <= Len(b) /\ Walk(b, p).at = "nil"
NameEnd(b, p)  == IF GoodName(b, p) THEN Walk(b, p).end ELSE Len(b) + 1
NameOf(b, p)   == ToLower(Join(Walk(b, p).labels))

LEMMA NameType ==
    ASSUME NEW b \in Octets, NEW p \in Nat
    PROVE  /\ NameEnd(b, p) \in Nat
           /\ GoodName(b, p) => p < NameEnd(b, p) /\ NameOf(b, p) \in Octets
           /\ GoodName(b, p) <=> NameEnd(b, p) <= Len(b)
<1> DEFINE len == Len(b)
           w   == Walk(b, p)
<1>1. len \in Nat
  BY OctetsLen
<1>2. ASSUME GoodName(b, p)
      PROVE  w \in WalkState /\ p < w.end /\ w.end <= len
  <2>1. p \in 0..len /\ w.at = "nil"
    <3>1. p <= len
      BY <1>2 DEF GoodName
    <3> HIDE DEF len
    <3> QED
      BY <1>1, <1>2, <3>1 DEF GoodName
  <2>2. Walked(len, p, w)
    BY <2>1, WalkEnding
  <2> QED
    BY <2>1, <2>2 DEF Walked
<1>3. ASSUME GoodName(b, p) PROVE NameOf(b, p) \in Octets
  <2>1. w.labels \in Seq(Octets)
    BY <1>2, <1>3 DEF WalkState
  <2> QED
    BY <2>1, JoinLabelsOctets, ToLowerOctets DEF NameOf
<1>4. GoodName(b, p) => w.end \in Nat
  BY <1>2 DEF WalkState
<1>5. NameEnd(b, p) = IF GoodName(b, p) THEN w.end ELSE len + 1
  BY DEF NameEnd
<1> HIDE DEF len, w
<1> SUFFICES /\ NameEnd(b, p) \in Nat
             /\ GoodName(b, p) => p < NameEnd(b, p) /\ NameOf(b, p) \in Octets
             /\ GoodName(b, p) <=> NameEnd(b, p) <= len
  BY DEF len
<1> QED
  BY <1>1, <1>2, <1>3, <1>4, <1>5

LEMMA NameReads ==
    ASSUME NEW b \in Octets, NEW p \in Nat, NEW vs, NEW c, Reads(c, b, p, vs)
    PROVE  Reads(ReadName(c), b, NameEnd(b, p), Append(vs, NameOf(b, p)))
<1> DEFINE len == Len(b)
           w   == Walk(b, p)
<1>1. len \in Nat
  BY OctetsLen
<1>2. CASE p <= len /\ c = At(b, p, vs)
  <2>1. c = At(b, p, vs)
    BY <1>2
  <2>2. c.err = "nil" /\ c.pos = p /\ c.buf = b /\ c.vals = vs
    BY <2>1, AtFields
  <2>3. ReadName(c) = IF w.at # "nil" THEN FailRead(c, w.at)
                      ELSE Moved(c, w.end, Append(vs, NameOf(b, p)))
    BY <2>2 DEF ReadName, Moved, NameOf
  <2>4. CASE GoodName(b, p)
    <3>1. ReadName(c) = Moved(c, NameEnd(b, p), Append(vs, NameOf(b, p)))
      BY <2>3, <2>4 DEF GoodName, NameEnd
    <3>2. ReadName(c) = At(b, NameEnd(b, p), Append(vs, NameOf(b, p)))
      BY <2>1, <3>1, AtMoves
    <3>3. NameEnd(b, p) <= Len(b)
      BY <2>4, NameType
    <3> QED
      BY <3>2, <3>3 DEF Reads
  <2>5. CASE ~ GoodName(b, p)
    <3>1. w.at # "nil"
      BY <1>2, <2>5 DEF GoodName
    <3>2. p \in 0..len
      <4> HIDE DEF len
      <4> QED
        BY <1>1, <1>2
    <3>3. w.at \in Failures
      BY <3>1, <3>2, WalkEnding DEF Walked
    <3>4. FailRead(c, w.at).err = w.at /\ FailRead(c, w.at).buf = b
      BY <2>1, AtFails
    <3>5. Stuck(ReadName(c), b)
      BY <2>3, <3>1, <3>3, <3>4 DEF Fails, Errors, Stuck
    <3>6. NameEnd(b, p) = len + 1
      BY <2>5 DEF NameEnd
    <3>7. NameEnd(b, p) > len
      <4> HIDE DEF len
      <4> QED
        BY <1>1, <3>6
    <3> QED
      BY <3>5, <3>7 DEF Reads
  <2> QED
    BY <2>4, <2>5
<1>3. CASE Stuck(c, b) /\ p > Len(b)
  <2>1. ReadName(c) = c
    BY <1>3, StuckIsError DEF ReadName
  <2>2. p > len
    BY <1>3
  <2>3. ~ (p <= len)
    <3> HIDE DEF len
    <3> QED
      BY <1>1, <2>2
  <2>4. NameEnd(b, p) = len + 1
    BY <2>3 DEF NameEnd, GoodName
  <2>5. NameEnd(b, p) > len
    <3> HIDE DEF len
    <3> QED
      BY <1>1, <2>4
  <2> QED
    BY <1>3, <2>1, <2>5 DEF Reads
<1> QED
  BY <1>2, <1>3 DEF Reads

LEMMA Append0 == ASSUME NEW a PROVE Append(<< >>, a) = << a >>
OBVIOUS

LEMMA Part37 ==
    ASSUME NEW a, NEW b, NEW c, NEW d, NEW e, NEW f, NEW g
    PROVE  SubSeq(<< a, b, c, d, e, f, g >>, 3, 7) = << c, d, e, f, g >>
<1> DEFINE S == {a, b, c, d, e, f, g}
           s == << a, b, c, d, e, f, g >>
           t == << c, d, e, f, g >>
           u == SubSeq(s, 3, 7)
<1>1. s \in Seq(S) /\ t \in Seq(S) /\ Len(s) = 7 /\ Len(t) = 5
  OBVIOUS
<1>2. s[3] = c /\ s[4] = d /\ s[5] = e /\ s[6] = f /\ s[7] = g
  OBVIOUS
<1>3. t[1] = c /\ t[2] = d /\ t[3] = e /\ t[4] = f /\ t[5] = g
  OBVIOUS
<1> HIDE DEF s, t, u
<1>4. /\ u \in Seq(S) /\ Len(u) = IF 3 <= 7 THEN 7 - 3 + 1 ELSE 0
      /\ \A i \in 1..(7 - 3 + 1) : u[i] = s[3 + i - 1]
  <2>1. \A i \in 3..7 : s[i] \in S
    BY <1>2
  <2> QED
    BY <2>1, SubSeqProperties DEF u
<1>5. Len(u) = 5 /\ u[1] = c /\ u[2] = d /\ u[3] = e /\ u[4] = f /\ u[5] = g
  BY <1>2, <1>4
<1>6. \A i \in 1..5 : u[i] = t[i]
  BY <1>3, <1>5
<1>7. u = t
  BY <1>1, <1>4, <1>5, <1>6, SeqEqual
<1> QED
  BY <1>7 DEF s, t, u

LEMMA InRange == ASSUME NEW n \in Nat, NEW k \in Nat, k <= n PROVE k \in 0..n
OBVIOUS

LEMMA RangeNat == ASSUME NEW n \in Nat, NEW k \in 0..n PROVE k \in Nat /\ k <= n
OBVIOUS

LEMMA TwoOctets ==
    ASSUME NEW x \in Byte, NEW y \in Byte PROVE x * 256 + y \in Word16
<1> DEFINE v == x * 256 + y
<1>1. x \in Nat /\ x <= 255 /\ y \in Nat /\ y <= 255
  BY DEF Byte
<1>2. v \in Nat /\ v <= 65535
  BY <1>1
<1> HIDE DEF v
<1> DEFINE most == 65535
<1>3. most \in Nat /\ v <= most
  BY <1>2
<1>4. Word16 = 0..most
  BY SMT DEF Word16
<1> HIDE DEF most
<1>5. v \in 0..most
  BY <1>2, <1>3, InRange
<1>6. v \in Word16
  BY <1>4, <1>5
<1> QED
  BY <1>6 DEF v

LEMMA WordNat == ASSUME NEW x \in Word16 PROVE x \in Nat /\ x <= 65535
<1> DEFINE most == 65535
<1>1. most \in Nat
  OBVIOUS
<1>2. Word16 = 0..most
  BY SMT DEF Word16
<1> HIDE DEF most
<1>3. x \in Nat /\ x <= most
  BY <1>1, <1>2, RangeNat
<1> QED
  BY <1>3 DEF most

LEMMA ByteNat == ASSUME NEW x \in Byte PROVE x \in Nat /\ x <= 255
BY DEF Byte

LEMMA WordType ==
    ASSUME NEW b \in Octets, NEW p \in Nat, p + 2 <= Len(b)
    PROVE  /\ b[p + 1] \in Byte /\ b[p + 2] \in Byte
           /\ WordAt(b, p) = b[p + 1] * 256 + b[p + 2]
           /\ WordAt(b, p) \in Word16
<1> DEFINE s == SubSeq(b, p + 1, p + 2)
           x == b[p + 1]
           y == b[p + 2]
<1>1. /\ p + 1 \in Nat \ {0} /\ p + 2 \in Nat
      /\ 1 \in 1..((p + 2) - (p + 1) + 1) /\ 2 \in 1..((p + 2) - (p + 1) + 1)
      /\ (p + 1) + 1 - 1 = p + 1 /\ (p + 1) + 2 - 1 = p + 2
  OBVIOUS
<1>2. \A i \in 1..((p + 2) - (p + 1) + 1) : s[i] = b[(p + 1) + i - 1]
  BY <1>1, PartOctets
<1>3. s[1] = x /\ s[2] = y
  BY <1>1, <1>2
<1>4. p + 1 \in 1..Len(b) /\ p + 2 \in 1..Len(b)
  BY OctetsLen
<1>5. x \in Byte /\ y \in Byte
  BY <1>4, ElementOfSeq DEF Octets
<1>6. WordAt(b, p) = s[1] * 256 + s[2]
  BY DEF WordAt, Word
<1>9. x = b[p + 1] /\ y = b[p + 2]
  OBVIOUS
<1> HIDE DEF s, x, y
<1>7. WordAt(b, p) = x * 256 + y
  BY <1>3, <1>6, Zenon
<1>8. x * 256 + y \in Word16
  BY <1>5, TwoOctets
<1> QED
  BY <1>5, <1>7, <1>8, <1>9, Zenon

(***************************************************************************)
(* Questions.                                                              *)
(***************************************************************************)
QuestionEnd(b, p) == NameEnd(b, p) + 4

QuestionAt(b, p) ==
    LET e == NameEnd(b, p) IN
    [name |-> NameOf(b, p), type |-> WordAt(b, e), class |-> WordAt(b, e + 2)]

LEMMA QuestionReads ==
    ASSUME NEW b \in Octets, NEW p \in Nat, NEW vs, p <= Len(b)
    PROVE  Reads(DecodeQuestion(At(b, p, vs)), b, QuestionEnd(b, p),
                 Append(vs, QuestionAt(b, p)))
<1> DEFINE c  == At(b, p, vs)
           e  == NameEnd(b, p)
           n  == NameOf(b, p)
           t  == WordAt(b, e)
           k  == WordAt(b, e + 2)
           c0 == [c EXCEPT !.vals = << >>]
           c1 == ReadName(c0)
           c2 == ReadU16(c1)
           c3 == ReadU16(c2)
           q  == QuestionAt(b, p)
<1>1. c0 = At(b, p, << >>)
  <2>1. c0 = Holding(c, << >>)
    BY DEF Holding
  <2> HIDE DEF c0
  <2> QED
    BY <2>1, AtValues
<1>2. Reads(c0, b, p, << >>)
  BY <1>1 DEF Reads
<1>3. DecodeQuestion(c) = IF c3.err # "nil" THEN c3
        ELSE [c3 EXCEPT !.vals =
                Append(c.vals, [name |-> @[1], type |-> @[2], class |-> @[3]])]
  BY DEF DecodeQuestion
<1>4. e \in Nat
  BY NameType
<1>5. e + 2 \in Nat /\ (e + 2) + 2 = QuestionEnd(b, p)
  BY <1>4 DEF QuestionEnd
<1>6. q = [name |-> n, type |-> t, class |-> k]
  BY DEF QuestionAt
<1>7. c.vals = vs
  BY AtFields
<1> HIDE DEF c0, c, q
<1>8. Reads(c1, b, e, << n >>)
  BY <1>2, NameReads, Append0
<1> HIDE DEF c1, e, n
<1>9. Reads(c2, b, e + 2, << n, t >>)
  BY <1>4, <1>8, U16Reads, Append1
<1> HIDE DEF c2, t
<1>10. Reads(c3, b, (e + 2) + 2, << n, t, k >>)
  BY <1>5, <1>9, U16Reads, Append2
<1> HIDE DEF c3, k
<1>11. CASE QuestionEnd(b, p) <= Len(b) /\ c3 = At(b, QuestionEnd(b, p), << n, t, k >>)
  <2> DEFINE vals == << n, t, k >>
  <2>1. vals[1] = n /\ vals[2] = t /\ vals[3] = k
    OBVIOUS
  <2> HIDE DEF vals
  <2>2. c3 = At(b, QuestionEnd(b, p), vals)
    BY <1>11 DEF vals
  <2>3. c3.err = "nil" /\ c3.vals = vals
    BY <2>2, AtFields
  <2>4. DecodeQuestion(c) = Holding(c3, Append(vs, q))
    BY <1>3, <1>6, <1>7, <2>1, <2>3 DEF Holding
  <2>5. DecodeQuestion(c) = At(b, QuestionEnd(b, p), Append(vs, q))
    BY <2>2, <2>4, AtValues
  <2> QED
    BY <1>11, <2>5 DEF Reads, c, q
<1>12. CASE QuestionEnd(b, p) > Len(b) /\ Stuck(c3, b)
  <2>1. DecodeQuestion(c) = c3
    BY <1>3, <1>12, StuckIsError
  <2> QED
    BY <1>12, <2>1 DEF Reads, c
<1> QED
  BY <1>5, <1>10, <1>11, <1>12 DEF Reads

(***************************************************************************)
(* Record data, and records.                                               *)
(***************************************************************************)
\* Where the names and the numbers of SOA data are.
SoaSecond(b, base) == NameEnd(b, base)
SoaNumbers(b, base) == NameEnd(b, SoaSecond(b, base))
SoaEnd(b, base) == SoaNumbers(b, base) + 20

SoaVals(b, p) ==
    << LongAt(b, p), LongAt(b, p + 4), LongAt(b, p + 8), LongAt(b, p + 12), LongAt(b, p + 16) >>

SoaAt(b, base) ==
    [kind |-> "SOA", mname |-> NameOf(b, base), rname |-> NameOf(b, SoaSecond(b, base)),
     vals |-> SoaVals(b, SoaNumbers(b, base))]

GoodData(type, rdata, b, base) ==
    CASE type \in {TypeA, TypeAAAA} -> Len(rdata) = IF type = TypeA THEN 4 ELSE 16
      [] type = TypeTXT -> rdata # << >> /\ Tear(rdata).ok
      [] type \in {TypeNS, TypeCNAME} -> GoodName(b, base)
      [] type = TypeSOA -> SoaEnd(b, base) <= Len(b)
      [] OTHER -> TRUE

DataAt(type, rdata, b, base) ==
    CASE type \in {TypeA, TypeAAAA} ->
           [kind |-> IF type = TypeA THEN "A" ELSE "AAAA", addr |-> rdata]
      [] type = TypeTXT -> [kind |-> "TXT", strings |-> Tear(rdata).strings]
      [] type \in {TypeNS, TypeCNAME} ->
           [kind |-> IF type = TypeNS THEN "NS" ELSE "CNAME", host |-> NameOf(b, base)]
      [] type = TypeSOA -> SoaAt(b, base)
      [] OTHER -> [kind |-> "raw", data |-> rdata]

\* The result of decodeRData.
Gives(r, good, v) == IF good THEN r = [err |-> "nil", val |-> v] ELSE Fails(r)

LEMMA ErrFails ==
    /\ Fails([err |-> "bad address"]) /\ Fails([err |-> "bad TXT"])
    /\ "bad address" # "nil" /\ "bad TXT" # "nil"
BY DEF Fails, Errors

\* A name, a name and five numbers.
LEMMA SoaReads ==
    ASSUME NEW b \in Octets, NEW base \in Nat, base <= Len(b)
    PROVE  Reads(ReadU32(ReadU32(ReadU32(ReadU32(ReadU32(
                   ReadName(ReadName(Cursor(b, base)))))))), b, SoaEnd(b, base),
                 << NameOf(b, base), NameOf(b, SoaSecond(b, base)),
                    LongAt(b, SoaNumbers(b, base)), LongAt(b, SoaNumbers(b, base) + 4),
                    LongAt(b, SoaNumbers(b, base) + 8), LongAt(b, SoaNumbers(b, base) + 12),
                    LongAt(b, SoaNumbers(b, base) + 16) >>)
<1> DEFINE p  == SoaSecond(b, base)
           q  == SoaNumbers(b, base)
           m  == NameOf(b, base)
           n  == NameOf(b, p)
           v1 == LongAt(b, q)
           v2 == LongAt(b, q + 4)
           v3 == LongAt(b, q + 8)
           v4 == LongAt(b, q + 12)
           v5 == LongAt(b, q + 16)
           c0 == Cursor(b, base)
           c1 == ReadName(c0)
           c2 == ReadName(c1)
           c3 == ReadU32(c2)
           c4 == ReadU32(c3)
           c5 == ReadU32(c4)
           c6 == ReadU32(c5)
           c7 == ReadU32(c6)
<1>1. Reads(c0, b, base, << >>)
  BY DEF Reads, Cursor, At
<1>2. p \in Nat /\ q \in Nat
  BY NameType DEF SoaSecond, SoaNumbers
<1>3. /\ q + 4 \in Nat /\ q + 8 \in Nat /\ q + 12 \in Nat /\ q + 16 \in Nat
      /\ (q + 4) + 4 = q + 8 /\ (q + 8) + 4 = q + 12 /\ (q + 12) + 4 = q + 16
      /\ (q + 16) + 4 = q + 20
  BY <1>2
<1> HIDE DEF c0
<1>4. Reads(c1, b, NameEnd(b, base), << m >>)
  BY <1>1, NameReads, Append0
<1>5. Reads(c1, b, p, << m >>)
  BY <1>4 DEF SoaSecond
<1> HIDE DEF c1, m
<1>6. Reads(c2, b, NameEnd(b, p), << m, n >>)
  <2> HIDE DEF p
  <2> QED
    BY <1>2, <1>5, NameReads, Append1
<1>7. Reads(c2, b, q, << m, n >>)
  BY <1>6 DEF SoaNumbers
<1> HIDE DEF c2, n, p, q
<1>8. Reads(c3, b, q + 4, << m, n, v1 >>)
  BY <1>2, <1>7, U32Reads, Append2
<1> HIDE DEF c3, v1
<1>9. Reads(c4, b, (q + 4) + 4, << m, n, v1, v2 >>)
  BY <1>3, <1>8, U32Reads, Append3
<1> HIDE DEF c4, v2
<1>10. Reads(c5, b, (q + 8) + 4, << m, n, v1, v2, v3 >>)
  BY <1>3, <1>9, U32Reads, Append4
<1> HIDE DEF c5, v3
<1>11. Reads(c6, b, (q + 12) + 4, << m, n, v1, v2, v3, v4 >>)
  BY <1>3, <1>10, U32Reads, Append5
<1> HIDE DEF c6, v4
<1>12. Reads(c7, b, (q + 16) + 4, << m, n, v1, v2, v3, v4, v5 >>)
  <2> DEFINE u == << m, n, v1, v2, v3, v4 >>
  <2>1. Append(u, v5) = << m, n, v1, v2, v3, v4, v5 >>
    BY Append6
  <2>2. Reads(c6, b, q + 16, u) /\ q + 16 \in Nat
    BY <1>3, <1>11
  <2> HIDE DEF u
  <2>3. Reads(c7, b, (q + 16) + 4, Append(u, v5))
    BY <2>2, U32Reads
  <2> QED
    BY <2>1, <2>3
<1>13. Reads(c7, b, q + 20, << m, n, v1, v2, v3, v4, v5 >>)
  BY <1>3, <1>12
<1> QED
  BY <1>13 DEF SoaEnd, c0, c1, c2, c3, c4, c5, c6, c7, m, n, p, q, v1, v2, v3, v4, v5

LEMMA SoaGives ==
    ASSUME NEW b \in Octets, NEW base \in Nat, base <= Len(b), NEW rdata
    PROVE  Gives(DecodeRData(TypeSOA, rdata, b, base),
                 SoaEnd(b, base) <= Len(b), SoaAt(b, base))
<1> DEFINE q  == SoaNumbers(b, base)
           m  == NameOf(b, base)
           n  == NameOf(b, SoaSecond(b, base))
           v1 == LongAt(b, q)
           v2 == LongAt(b, q + 4)
           v3 == LongAt(b, q + 8)
           v4 == LongAt(b, q + 12)
           v5 == LongAt(b, q + 16)
           c  == ReadU32(ReadU32(ReadU32(ReadU32(ReadU32(
                   ReadName(ReadName(Cursor(b, base))))))))
           vs == << m, n, v1, v2, v3, v4, v5 >>
           r  == DecodeRData(TypeSOA, rdata, b, base)
<1>1. Reads(c, b, SoaEnd(b, base), vs)
  BY SoaReads
<1>2. r = IF c.err # "nil" THEN c
          ELSE [err |-> "nil",
                val |-> [kind |-> "SOA", mname |-> c.vals[1], rname |-> c.vals[2],
                         vals |-> SubSeq(c.vals, 3, 7)]]
  BY DEF DecodeRData, TypeSOA, TypeA, TypeAAAA, TypeTXT, TypeNS, TypeCNAME
<1>3. vs[1] = m /\ vs[2] = n /\ SubSeq(vs, 3, 7) = << v1, v2, v3, v4, v5 >>
  <2> HIDE DEF m, n, v1, v2, v3, v4, v5
  <2> QED
    BY Part37
<1>4. SoaAt(b, base) = [kind |-> "SOA", mname |-> m, rname |-> n,
                        vals |-> << v1, v2, v3, v4, v5 >>]
  BY DEF SoaAt, SoaVals
<1> DEFINE us == << v1, v2, v3, v4, v5 >>
<1> HIDE DEF c, vs, r, m, n, us
<1>5. CASE SoaEnd(b, base) <= Len(b) /\ c = At(b, SoaEnd(b, base), vs)
  <2>1. c = At(b, SoaEnd(b, base), vs)
    BY <1>5
  <2>2. c.err = "nil" /\ c.vals = vs
    BY <2>1, AtFields
  <2>3. r = [err |-> "nil", val |-> SoaAt(b, base)]
    BY <1>2, <1>3, <1>4, <2>2 DEF us
  <2> QED
    BY <1>5, <2>3 DEF Gives, r
<1>6. CASE SoaEnd(b, base) > Len(b) /\ Stuck(c, b)
  <2>1. Fails(r)
    BY <1>2, <1>6, StuckIsError
  <2>2. ~ (SoaEnd(b, base) <= Len(b))
    <3> DEFINE len == Len(b)
               e   == SoaEnd(b, base)
    <3>1. len \in Nat /\ e \in Nat
      BY OctetsLen, NameType DEF SoaEnd, SoaNumbers, SoaSecond
    <3>2. e > len
      BY <1>6
    <3> HIDE DEF len, e
    <3>3. ~ (e <= len)
      BY <3>1, <3>2
    <3> QED
      BY <3>3 DEF len, e
  <2> QED
    BY <2>1, <2>2 DEF Gives, r
<1> QED
  BY <1>1, <1>5, <1>6 DEF Reads

LEMMA HostGives ==
    ASSUME NEW b \in Octets, NEW base \in Nat, base <= Len(b), NEW rdata,
           NEW type \in {TypeNS, TypeCNAME}
    PROVE  Gives(DecodeRData(type, rdata, b, base), GoodName(b, base),
                 [kind |-> IF type = TypeNS THEN "NS" ELSE "CNAME", host |-> NameOf(b, base)])
<1> DEFINE c == ReadName(Cursor(b, base))
           n == NameOf(b, base)
           r == DecodeRData(type, rdata, b, base)
           k == IF type = TypeNS THEN "NS" ELSE "CNAME"
<1>1. TypeA = 1 /\ TypeNS = 2 /\ TypeCNAME = 5 /\ TypeSOA = 6 /\ TypeTXT = 16 /\ TypeAAAA = 28
  BY DEF TypeA, TypeNS, TypeCNAME, TypeSOA, TypeTXT, TypeAAAA
<1>2. Reads(Cursor(b, base), b, base, << >>)
  BY DEF Reads, Cursor, At
<1>3. Reads(c, b, NameEnd(b, base), << n >>)
  BY <1>2, NameReads, Append0
<1>4. r = IF c.err # "nil" THEN c
          ELSE [err |-> "nil", val |-> [kind |-> k, host |-> c.vals[1]]]
  <2>1. CASE type = TypeNS
    BY <1>1, <2>1 DEF DecodeRData
  <2>2. CASE type = TypeCNAME
    BY <1>1, <2>2 DEF DecodeRData
  <2> QED
    BY <1>1, <2>1, <2>2
<1> HIDE DEF c, r, n, k
<1>5. CASE NameEnd(b, base) <= Len(b) /\ c = At(b, NameEnd(b, base), << n >>)
  <2>1. c = At(b, NameEnd(b, base), << n >>)
    BY <1>5
  <2>2. c.err = "nil" /\ c.vals = << n >>
    BY <2>1, AtFields
  <2>3. c.vals[1] = n
    BY <2>2
  <2>4. r = [err |-> "nil", val |-> [kind |-> k, host |-> n]]
    BY <1>4, <2>2, <2>3
  <2>5. GoodName(b, base)
    BY <1>5, NameType
  <2> QED
    BY <2>4, <2>5 DEF Gives, r, k, n
<1>6. CASE NameEnd(b, base) > Len(b) /\ Stuck(c, b)
  <2>1. Fails(r)
    BY <1>4, <1>6, StuckIsError
  <2>2. ~ (NameEnd(b, base) <= Len(b))
    <3> DEFINE len == Len(b)
               e   == NameEnd(b, base)
    <3>1. len \in Nat /\ e \in Nat
      BY OctetsLen, NameType
    <3>2. e > len
      BY <1>6
    <3> HIDE DEF len, e
    <3>3. ~ (e <= len)
      BY <3>1, <3>2
    <3> QED
      BY <3>3 DEF len, e
  <2>3. ~ GoodName(b, base)
    BY <2>2, NameType
  <2> QED
    BY <2>1, <2>3 DEF Gives, r
<1> QED
  BY <1>3, <1>5, <1>6 DEF Reads

LEMMA DataReads ==
    ASSUME NEW b \in Octets, NEW base \in Nat, base <= Len(b), NEW rdata, NEW type
    PROVE  Gives(DecodeRData(type, rdata, b, base), GoodData(type, rdata, b, base),
                 DataAt(type, rdata, b, base))
<1> DEFINE r == DecodeRData(type, rdata, b, base)
           k == IF type = TypeA THEN "A" ELSE "AAAA"
           n == IF type = TypeA THEN 4 ELSE 16
<1>1. TypeA = 1 /\ TypeNS = 2 /\ TypeCNAME = 5 /\ TypeSOA = 6 /\ TypeTXT = 16 /\ TypeAAAA = 28
  BY DEF TypeA, TypeNS, TypeCNAME, TypeSOA, TypeTXT, TypeAAAA
<1>2. CASE type \in {TypeA, TypeAAAA}
  <2>1. r = IF Len(rdata) # n THEN [err |-> "bad address"]
            ELSE [err |-> "nil", val |-> [kind |-> k, addr |-> rdata]]
    <3>1. CASE type = TypeA
      BY <1>1, <3>1 DEF DecodeRData
    <3>2. CASE type = TypeAAAA
      BY <1>1, <3>2 DEF DecodeRData
    <3> QED
      BY <1>2, <3>1, <3>2
  <2>2. /\ GoodData(type, rdata, b, base) <=> Len(rdata) = n
        /\ DataAt(type, rdata, b, base) = [kind |-> k, addr |-> rdata]
    <3>1. CASE type = TypeA
      BY <1>1, <3>1 DEF GoodData, DataAt
    <3>2. CASE type = TypeAAAA
      BY <1>1, <3>2 DEF GoodData, DataAt
    <3> QED
      BY <1>2, <3>1, <3>2
  <2> HIDE DEF r, k, n
  <2>3. Gives(r, GoodData(type, rdata, b, base), DataAt(type, rdata, b, base))
    BY <2>1, <2>2, ErrFails DEF Gives
  <2> QED
    BY <2>3 DEF r
<1>3. CASE type = TypeTXT
  <2>1. r = IF rdata = << >> \/ ~ Tear(rdata).ok THEN [err |-> "bad TXT"]
            ELSE [err |-> "nil", val |-> [kind |-> "TXT", strings |-> Tear(rdata).strings]]
    BY <1>1, <1>3 DEF DecodeRData
  <2>2. /\ GoodData(type, rdata, b, base) <=> rdata # << >> /\ Tear(rdata).ok
        /\ DataAt(type, rdata, b, base) = [kind |-> "TXT", strings |-> Tear(rdata).strings]
    BY <1>1, <1>3 DEF GoodData, DataAt
  <2> HIDE DEF r
  <2>3. Gives(r, GoodData(type, rdata, b, base), DataAt(type, rdata, b, base))
    BY <2>1, <2>2, ErrFails DEF Gives
  <2> QED
    BY <2>3 DEF r
<1>4. CASE type \in {TypeNS, TypeCNAME}
  <2>1. /\ GoodData(type, rdata, b, base) <=> GoodName(b, base)
        /\ DataAt(type, rdata, b, base) =
             [kind |-> IF type = TypeNS THEN "NS" ELSE "CNAME", host |-> NameOf(b, base)]
    BY <1>1, <1>4 DEF GoodData, DataAt
  <2>2. Gives(r, GoodName(b, base),
              [kind |-> IF type = TypeNS THEN "NS" ELSE "CNAME", host |-> NameOf(b, base)])
    BY <1>4, HostGives
  <2> HIDE DEF r
  <2>3. Gives(r, GoodData(type, rdata, b, base), DataAt(type, rdata, b, base))
    BY <2>1, <2>2 DEF Gives
  <2> QED
    BY <2>3 DEF r
<1>5. CASE type = TypeSOA
  <2>1. /\ GoodData(type, rdata, b, base) <=> SoaEnd(b, base) <= Len(b)
        /\ DataAt(type, rdata, b, base) = SoaAt(b, base)
    BY <1>1, <1>5 DEF GoodData, DataAt
  <2>2. Gives(r, SoaEnd(b, base) <= Len(b), SoaAt(b, base))
    BY <1>5, SoaGives
  <2> HIDE DEF r
  <2>3. Gives(r, GoodData(type, rdata, b, base), DataAt(type, rdata, b, base))
    BY <2>1, <2>2 DEF Gives
  <2> QED
    BY <2>3 DEF r
<1>6. CASE type \notin {TypeA, TypeAAAA, TypeTXT, TypeNS, TypeCNAME, TypeSOA}
  <2>1. r = [err |-> "nil", val |-> [kind |-> "raw", data |-> rdata]]
    BY <1>6 DEF DecodeRData
  <2>2. /\ GoodData(type, rdata, b, base)
        /\ DataAt(type, rdata, b, base) = [kind |-> "raw", data |-> rdata]
    BY <1>6 DEF GoodData, DataAt
  <2> HIDE DEF r
  <2>3. Gives(r, GoodData(type, rdata, b, base), DataAt(type, rdata, b, base))
    BY <2>1, <2>2 DEF Gives
  <2> QED
    BY <2>3 DEF r
<1> QED
  BY <1>2, <1>3, <1>4, <1>5, <1>6

\* The record at p: its data begins at base and is as long as RDLENGTH says.
Base(b, p)     == NameEnd(b, p) + 10
RDLength(b, p) == WordAt(b, NameEnd(b, p) + 8)
RRType(b, p)   == WordAt(b, NameEnd(b, p))
RDataAt(b, p)  == SubSeq(b, Base(b, p) + 1, Base(b, p) + RDLength(b, p))

RRFits(b, p) ==
    /\ Base(b, p) <= Len(b)
    /\ Base(b, p) + RDLength(b, p) <= Len(b)

GoodRR(b, p) == RRFits(b, p) /\ GoodData(RRType(b, p), RDataAt(b, p), b, Base(b, p))

RREnd(b, p) == IF GoodRR(b, p) THEN Base(b, p) + RDLength(b, p) ELSE Len(b) + 1

RRAt(b, p) ==
    LET e == NameEnd(b, p) IN
    [name |-> NameOf(b, p), type |-> WordAt(b, e), class |-> WordAt(b, e + 2),
     ttl |-> LongAt(b, e + 4), data |-> DataAt(RRType(b, p), RDataAt(b, p), b, Base(b, p))]

LEMMA RRTypes ==
    ASSUME NEW b \in Octets, NEW p \in Nat
    PROVE  /\ Base(b, p) \in Nat /\ RREnd(b, p) \in Nat
           /\ RRFits(b, p) => RDLength(b, p) \in Word16 /\ RDLength(b, p) \in Nat
           /\ GoodRR(b, p) <=> RREnd(b, p) <= Len(b)
           /\ GoodRR(b, p) => p + 11 <= RREnd(b, p)
<1> DEFINE len == Len(b)
           e   == NameEnd(b, p)
           n   == RDLength(b, p)
<1>1. len \in Nat /\ e \in Nat /\ Base(b, p) = e + 10
  BY OctetsLen, NameType DEF Base
<1>2. RRFits(b, p) => e + 10 <= len /\ e + 10 + n <= len
  BY DEF RRFits, Base
<1>3. RRFits(b, p) => n \in Word16
  <2> SUFFICES ASSUME RRFits(b, p) PROVE n \in Word16
    OBVIOUS
  <2>1. e + 8 \in Nat /\ (e + 8) + 2 <= len
    <3>1. e + 10 <= len
      BY <1>2
    <3> HIDE DEF len, e
    <3> QED
      BY <1>1, <3>1
  <2>2. n = WordAt(b, e + 8)
    BY DEF RDLength
  <2> QED
    BY <2>1, <2>2, WordType
<1>4. RRFits(b, p) => n \in Nat
  BY <1>3, WordNat
<1>5. e <= len => p < e
  BY NameType
<1>6. RREnd(b, p) = IF GoodRR(b, p) THEN e + 10 + n ELSE len + 1
  BY DEF RREnd, Base
<1>7. GoodRR(b, p) => RRFits(b, p)
  BY DEF GoodRR
<1> HIDE DEF len, e, n
<1>8. /\ e + 10 \in Nat /\ RREnd(b, p) \in Nat
      /\ GoodRR(b, p) <=> RREnd(b, p) <= len
      /\ GoodRR(b, p) => p + 11 <= RREnd(b, p)
  BY <1>1, <1>2, <1>4, <1>5, <1>6, <1>7
<1> QED
  BY <1>1, <1>3, <1>4, <1>8 DEF len, n

LEMMA RRReads ==
    ASSUME NEW b \in Octets, NEW p \in Nat, NEW vs, p <= Len(b)
    PROVE  Reads(DecodeRR(At(b, p, vs)), b, RREnd(b, p), Append(vs, RRAt(b, p)))
<1> DEFINE c  == At(b, p, vs)
           e  == NameEnd(b, p)
           n  == NameOf(b, p)
           t  == WordAt(b, e)
           k  == WordAt(b, e + 2)
           l  == LongAt(b, e + 4)
           s  == WordAt(b, e + 8)
           c0 == [c EXCEPT !.vals = << >>]
           c1 == ReadName(c0)
           c2 == ReadU16(c1)
           c3 == ReadU16(c2)
           c4 == ReadU32(c3)
           h  == ReadU16(c4)
           f  == ReadBytes(h, h.vals[5])
           data == DecodeRData(f.vals[2], f.vals[6], f.buf, f.pos - f.vals[5])
           q  == RRAt(b, p)
           r  == DecodeRR(c)
           len == Len(b)
           base == Base(b, p)
           rdata == RDataAt(b, p)
           v  == DataAt(t, rdata, b, base)
<1>1. c0 = At(b, p, << >>)
  <2>1. c0 = Holding(c, << >>)
    BY DEF Holding
  <2> HIDE DEF c0
  <2> QED
    BY <2>1, AtValues
<1>2. Reads(c0, b, p, << >>)
  BY <1>1 DEF Reads
<1>3. r = IF h.err # "nil" THEN h
          ELSE IF f.err # "nil" THEN f
          ELSE IF data.err # "nil" THEN FailRead(f, data.err)
          ELSE [f EXCEPT !.vals =
                  Append(c.vals, [name |-> @[1], type |-> @[2], class |-> @[3],
                                  ttl |-> @[4], data |-> data.val])]
  BY DEF DecodeRR
<1>4. e \in Nat /\ len \in Nat
  BY NameType, OctetsLen
<1>5. /\ e + 2 \in Nat /\ (e + 2) + 2 = e + 4 /\ e + 4 \in Nat /\ (e + 4) + 4 = e + 8
      /\ e + 8 \in Nat /\ (e + 8) + 2 = base /\ base \in Nat
  BY <1>4 DEF Base
<1>6. /\ q = [name |-> n, type |-> t, class |-> k, ttl |-> l, data |-> v]
      /\ s = RDLength(b, p) /\ t = RRType(b, p)
      /\ rdata = SubSeq(b, base + 1, base + s)
  BY DEF RRAt, RRType, RDLength, RDataAt
<1>7. c.vals = vs
  BY AtFields
<1>8. /\ GoodRR(b, p) <=> base <= len /\ base + s <= len /\ GoodData(t, rdata, b, base)
      /\ RREnd(b, p) = IF GoodRR(b, p) THEN base + s ELSE len + 1
  BY DEF GoodRR, RRFits, RREnd, RRType, RDLength
<1>9. base <= len => s \in Nat
  <2>1. base <= len => s \in Word16
    BY <1>5, WordType
  <2> QED
    BY <2>1, WordNat
<1>10. ASSUME RREnd(b, p) = len + 1, Stuck(r, b)
       PROVE  Reads(DecodeRR(At(b, p, vs)), b, RREnd(b, p), Append(vs, RRAt(b, p)))
  <2>1. RREnd(b, p) > len
    <3> HIDE DEF len
    <3> QED
      BY <1>4, <1>10
  <2> QED
    BY <1>10, <2>1 DEF Reads
<1> HIDE DEF c0, c, q, r, base, rdata, v
<1>11. Reads(c1, b, e, << n >>)
  BY <1>2, NameReads, Append0
<1> HIDE DEF c1, e, n
<1>12. Reads(c2, b, e + 2, << n, t >>)
  BY <1>4, <1>11, U16Reads, Append1
<1> HIDE DEF c2, t
<1>13. Reads(c3, b, (e + 2) + 2, << n, t, k >>)
  BY <1>5, <1>12, U16Reads, Append2
<1> HIDE DEF c3, k
<1>14. Reads(c4, b, (e + 4) + 4, << n, t, k, l >>)
  BY <1>5, <1>13, U32Reads, Append3
<1> HIDE DEF c4, l
<1>15. Reads(h, b, (e + 8) + 2, << n, t, k, l, s >>)
  BY <1>5, <1>14, U16Reads, Append4
<1> HIDE DEF h, s
<1>16. Reads(h, b, base, << n, t, k, l, s >>)
  BY <1>5, <1>15
<1>17. CASE base > len /\ Stuck(h, b)
  <2>1. Stuck(r, b)
    BY <1>3, <1>17, StuckIsError
  <2>2. ~ (base <= len)
    <3> HIDE DEF len
    <3> QED
      BY <1>4, <1>5, <1>17
  <2>3. RREnd(b, p) = len + 1
    BY <1>8, <2>2
  <2> QED
    BY <1>10, <2>1, <2>3
<1>18. CASE base <= len /\ h = At(b, base, << n, t, k, l, s >>)
  <2>1. h = At(b, base, << n, t, k, l, s >>)
    BY <1>18
  <2>2. h.err = "nil" /\ h.vals = << n, t, k, l, s >>
    BY <2>1, AtFields
  <2>3. h.vals[5] = s
    BY <2>2
  <2>4. s \in Nat
    BY <1>9, <1>18
  <2>5. Reads(f, b, base + s, << n, t, k, l, s, rdata >>)
    <3> DEFINE five == << n, t, k, l, s >>
    <3>1. f = ReadBytes(h, s)
      BY <2>3
    <3>2. Append(five, rdata) = << n, t, k, l, s, rdata >>
      BY Append5
    <3>3. base \in Nat /\ Reads(h, b, base, five)
      BY <1>5, <1>16
    <3> HIDE DEF five, f, base
    <3>4. Reads(f, b, base + s, Append(five, rdata))
      BY <1>6, <2>4, <3>1, <3>3, BytesRead
    <3> QED
      BY <3>2, <3>4
  <2> DEFINE vals == << n, t, k, l, s, rdata >>
             end  == base + s
  <2>6. end \in Nat /\ end - s = base
    BY <1>5, <2>4
  <2>7. vals[1] = n /\ vals[2] = t /\ vals[3] = k /\ vals[4] = l /\ vals[5] = s /\ vals[6] = rdata
    OBVIOUS
  <2> HIDE DEF f, vals, end
  <2>8. CASE end > len /\ Stuck(f, b)
    <3>1. Stuck(r, b)
      BY <1>3, <2>2, <2>8, StuckIsError
    <3>2. ~ (end <= len)
      <4> HIDE DEF len
      <4> QED
        BY <1>4, <2>6, <2>8
    <3>3. RREnd(b, p) = len + 1
      BY <1>8, <3>2 DEF end
    <3> QED
      BY <1>10, <3>1, <3>3
  <2>9. CASE end <= len /\ f = At(b, end, vals)
    <3>1. f = At(b, end, vals)
      BY <2>9
    <3>2. f.err = "nil" /\ f.vals = vals /\ f.buf = b /\ f.pos = end
      BY <3>1, AtFields
    <3>3. data = DecodeRData(t, rdata, b, base)
      BY <2>6, <2>7, <3>2
    <3>4. Gives(data, GoodData(t, rdata, b, base), v)
      BY <1>5, <1>18, <3>3, DataReads DEF v
    <3> HIDE DEF data
    <3>5. CASE GoodData(t, rdata, b, base)
      <4>1. data.err = "nil" /\ data.val = v
        BY <3>4, <3>5 DEF Gives
      <4>2. r = Holding(f, Append(vs, q))
        BY <1>3, <1>6, <1>7, <2>2, <2>7, <3>2, <4>1 DEF Holding
      <4>3. r = At(b, end, Append(vs, q))
        BY <3>1, <4>2, AtValues
      <4>4. RREnd(b, p) = end
        BY <1>8, <1>18, <2>9, <3>5 DEF end
      <4> QED
        BY <2>9, <4>3, <4>4 DEF Reads, r, q, c
    <3>6. CASE ~ GoodData(t, rdata, b, base)
      <4>1. Fails(data)
        BY <3>4, <3>6 DEF Gives
      <4>2. r = FailRead(f, data.err)
        BY <1>3, <2>2, <3>2, <4>1, FailsIsError
      <4>3. FailRead(f, data.err).err = data.err /\ FailRead(f, data.err).buf = b
        BY <3>1, AtFails
      <4>4. Stuck(r, b)
        BY <4>1, <4>2, <4>3 DEF Fails, Stuck
      <4>5. RREnd(b, p) = len + 1
        BY <1>8, <3>6
      <4> QED
        BY <1>10, <4>4, <4>5
    <3> QED
      BY <3>5, <3>6
  <2> QED
    BY <2>5, <2>8, <2>9 DEF Reads, vals, end
<1> QED
  BY <1>16, <1>17, <1>18 DEF Reads

(***************************************************************************)
(* Sections.                                                               *)
(***************************************************************************)
Values(b) == {QuestionAt(b, p) : p \in Nat} \cup {RRAt(b, p) : p \in Nat}

LEMMA SmallOf ==
    ASSUME NEW x \in Nat, NEW y \in Nat
    PROVE  /\ Min({x, y}) \in Nat /\ Min({x, y}) <= x /\ Min({x, y}) <= y
           /\ Min({x, y}) = x \/ Min({x, y}) = y
<1>1. \E m \in {x, y} : \A n \in {x, y} : m <= n
  OBVIOUS
<1>2. Min({x, y}) \in {x, y} /\ \A n \in {x, y} : Min({x, y}) <= n
  BY <1>1 DEF Min
<1> QED
  BY <1>2

LEMMA MostIs ==
    ASSUME NEW c, NEW b \in Octets, c.buf = b, NEW count \in Nat
    PROVE  /\ Most(c, count) \in Nat /\ Most(c, count) <= count
           /\ Most(c, count) < count => Len(b) < 5 * Most(c, count)
<1> DEFINE len == Len(b)
           k   == (len \div 5) + 1
           m   == Min({count, k})
<1>1. len \in Nat
  BY OctetsLen
<1>2. Most(c, count) = m
  BY DEF Most
<1> HIDE DEF len
<1>3. k \in Nat /\ len < 5 * k
  BY <1>1
<1> HIDE DEF k
<1>4. m \in Nat /\ m <= count /\ (m = count \/ m = k)
  BY <1>3, SmallOf
<1> HIDE DEF m
<1>5. m \in Nat /\ m <= count /\ (m < count => len < 5 * m)
  BY <1>3, <1>4
<1> QED
  BY <1>2, <1>5 DEF len

LEMMA QuestionEndType ==
    ASSUME NEW b \in Octets, NEW p \in Nat
    PROVE  /\ QuestionEnd(b, p) \in Nat
           /\ QuestionEnd(b, p) > Len(b) \/ QuestionEnd(b, p) >= p + 5
           /\ p > Len(b) => QuestionEnd(b, p) > Len(b)
<1> DEFINE len == Len(b)
           e   == NameEnd(b, p)
           q   == QuestionEnd(b, p)
<1>1. len \in Nat /\ e \in Nat /\ q = e + 4
  BY OctetsLen, NameType DEF QuestionEnd
<1>2. e <= len => p < e
  BY NameType
<1>3. p > len => e = len + 1
  <2>1. p > len => ~ (p <= len)
    <3> HIDE DEF len
    <3> QED
      BY <1>1
  <2> QED
    BY <2>1 DEF NameEnd, GoodName
<1> HIDE DEF len, e, q
<1>4. q \in Nat /\ (q > len \/ q >= p + 5) /\ (p > len => q > len)
  BY <1>1, <1>2, <1>3
<1> QED
  BY <1>4 DEF len, q

LEMMA RREndType ==
    ASSUME NEW b \in Octets, NEW p \in Nat
    PROVE  /\ RREnd(b, p) \in Nat
           /\ RREnd(b, p) > Len(b) \/ RREnd(b, p) >= p + 5
           /\ p > Len(b) => RREnd(b, p) > Len(b)
<1> DEFINE len == Len(b)
           q   == RREnd(b, p)
<1>1. len \in Nat /\ q \in Nat
  BY OctetsLen, RRTypes
<1>2. (GoodRR(b, p) <=> q <= len) /\ (GoodRR(b, p) => p + 11 <= q)
  BY RRTypes
<1> HIDE DEF len, q
<1>3. q \in Nat /\ (q > len \/ q >= p + 5) /\ (p > len => q > len)
  BY <1>1, <1>2
<1> QED
  BY <1>3 DEF len, q

\* Where the questions from p on end.
QuestionEnds(f, b, p, n) ==
    f = [i \in 0..n |-> IF i = 0 THEN p ELSE QuestionEnd(b, f[i - 1])]

LEMMA QuestionEndsAt ==
    ASSUME NEW f, NEW b, NEW p, NEW n \in Nat, QuestionEnds(f, b, p, n), NEW i \in 0..n
    PROVE  f[i] = IF i = 0 THEN p ELSE QuestionEnd(b, f[i - 1])
BY DEF QuestionEnds

LEMMA QuestionEndsExists ==
    ASSUME NEW b, NEW p, NEW n \in Nat PROVE \E f : QuestionEnds(f, b, p, n)
<1> DEFINE G == {m \in Nat : \E f : QuestionEnds(f, b, p, m)}
<1>1. 0 \in G
  <2> DEFINE f == [i \in 0..0 |-> p]
  <2>1. QuestionEnds(f, b, p, 0)
    BY DEF QuestionEnds
  <2> QED
    BY <2>1
<1>2. ASSUME NEW m \in Nat, m \in G PROVE m + 1 \in G
  <2>1. PICK h : QuestionEnds(h, b, p, m)
    BY <1>2
  <2> DEFINE last == QuestionEnd(b, h[m])
             g == [i \in 0..(m + 1) |-> IF i = m + 1 THEN last ELSE h[i]]
  <2>2. ASSUME NEW i \in 0..(m + 1)
        PROVE  g[i] = IF i = 0 THEN p ELSE QuestionEnd(b, g[i - 1])
    <3>1. CASE i = m + 1
      <4>1. i # 0 /\ i - 1 = m /\ m \in 0..(m + 1) /\ m # m + 1
        BY <3>1
      <4>2. g[i - 1] = h[m] /\ g[i] = last
        BY <3>1, <4>1
      <4> QED
        BY <3>1, <4>1, <4>2
    <3>2. CASE i # m + 1
      <4>1. i \in 0..m
        BY <3>2
      <4>2. h[i] = IF i = 0 THEN p ELSE QuestionEnd(b, h[i - 1])
        BY <2>1, <4>1, QuestionEndsAt
      <4>3. i # 0 => i - 1 \in 0..(m + 1) /\ i - 1 # m + 1
        BY <4>1
      <4>4. g[i] = h[i] /\ (i # 0 => g[i - 1] = h[i - 1])
        BY <3>2, <4>3
      <4> QED
        BY <4>2, <4>4
    <3> QED
      BY <3>1, <3>2
  <2>3. QuestionEnds(g, b, p, m + 1)
    BY <2>2 DEF QuestionEnds
  <2> QED
    BY <2>3
<1> HIDE DEF G
<1>3. \A m \in Nat : m \in G
  BY <1>1, <1>2, Induction
<1> QED
  BY <1>3 DEF G

LEMMA QuestionEndsOne ==
    ASSUME NEW b, NEW p, NEW n \in Nat, NEW f, QuestionEnds(f, b, p, n), NEW g, QuestionEnds(g, b, p, n)
    PROVE  f = g
<1> DEFINE G == {i \in Nat : i <= n => f[i] = g[i]}
<1>1. 0 \in G
  <2>1. 0 \in 0..n
    OBVIOUS
  <2> QED
    BY <2>1, QuestionEndsAt
<1>2. ASSUME NEW i \in Nat, i \in G PROVE i + 1 \in G
  <2> SUFFICES ASSUME i + 1 <= n PROVE f[i + 1] = g[i + 1]
    OBVIOUS
  <2>1. i + 1 \in 0..n /\ i + 1 # 0 /\ (i + 1) - 1 = i /\ i <= n
    OBVIOUS
  <2>2. f[i + 1] = QuestionEnd(b, f[i]) /\ g[i + 1] = QuestionEnd(b, g[i])
    BY <2>1, QuestionEndsAt
  <2>3. f[i] = g[i]
    BY <1>2, <2>1
  <2> QED
    BY <2>2, <2>3
<1> HIDE DEF G
<1>3. \A i \in Nat : i \in G
  BY <1>1, <1>2, Induction
<1>4. \A i \in 0..n : f[i] = g[i]
  BY <1>3 DEF G
<1> QED
  BY <1>4 DEF QuestionEnds

Questions(b, f, n) == [i \in 1..n |-> QuestionAt(b, f[i - 1])]

LEMMA QuestionsMore ==
    ASSUME NEW b, NEW f, NEW n \in Nat, \A i \in 0..n : f[i] \in Nat
    PROVE  /\ Questions(b, f, n) \in Seq(Values(b)) /\ Len(Questions(b, f, n)) = n
           /\ QuestionAt(b, f[n]) \in Values(b)
           /\ Questions(b, f, n + 1) = Append(Questions(b, f, n), QuestionAt(b, f[n]))
<1> DEFINE V == Values(b)
           s == Questions(b, f, n)
           t == Questions(b, f, n + 1)
           e == QuestionAt(b, f[n])
           u == Append(s, e)
<1>1. \A i \in 0..n : QuestionAt(b, f[i]) \in V
  BY DEF Values
<1>2. e \in V
  BY <1>1
<1>3. s \in [1..n -> V]
  <2>1. \A i \in 1..n : i - 1 \in 0..n
    OBVIOUS
  <2> QED
    BY <1>1, <2>1 DEF Questions
<1>4. t \in [1..(n + 1) -> V]
  <2>1. \A i \in 1..(n + 1) : i - 1 \in 0..n
    OBVIOUS
  <2> QED
    BY <1>1, <2>1 DEF Questions
<1>5. \A i \in 1..n : s[i] = QuestionAt(b, f[i - 1])
  BY DEF Questions
<1>6. \A i \in 1..(n + 1) : t[i] = QuestionAt(b, f[i - 1])
  BY DEF Questions
<1>7. t[n + 1] = e
  <2>1. n + 1 \in 1..(n + 1) /\ (n + 1) - 1 = n
    OBVIOUS
  <2> QED
    BY <1>6, <2>1
<1>8. \A i \in 1..n : t[i] = s[i]
  BY <1>5, <1>6
<1> HIDE DEF V, s, t, e, u
<1>9. s \in Seq(V) /\ Len(s) = n
  BY <1>3, FunctionSeq
<1>10. t \in Seq(V) /\ Len(t) = n + 1
  BY <1>4, FunctionSeq
<1>11. /\ u \in Seq(V) /\ Len(u) = n + 1 /\ u[n + 1] = e /\ \A i \in 1..n : u[i] = s[i]
  BY <1>2, <1>9, AppendProperties DEF u
<1>12. \A i \in 1..(n + 1) : u[i] = t[i]
  BY <1>7, <1>8, <1>11
<1>13. u = t
  BY <1>10, <1>11, <1>12, SeqEqual
<1> QED
  BY <1>2, <1>9, <1>13 DEF V, s, t, e, u

\* Every item takes five octets or more, and what fails has failed.
LEMMA QuestionEndsGrow ==
    ASSUME NEW b \in Octets, NEW p \in Nat, NEW n \in Nat, NEW f, QuestionEnds(f, b, p, n)
    PROVE  \A i \in 0..n : f[i] \in Nat /\ (f[i] > Len(b) \/ f[i] >= p + 5 * i)
<1> DEFINE len == Len(b)
           G == {i \in Nat : i <= n => f[i] \in Nat /\ (f[i] > len \/ f[i] >= p + 5 * i)}
<1>1. 0 \in G
  <2>1. 0 \in 0..n
    OBVIOUS
  <2>2. f[0] = p
    BY <2>1, QuestionEndsAt
  <2> HIDE DEF len
  <2> QED
    BY <2>2
<1>2. ASSUME NEW i \in Nat, i \in G PROVE i + 1 \in G
  <2> SUFFICES ASSUME i + 1 <= n
               PROVE  /\ f[i + 1] \in Nat
                      /\ f[i + 1] > len \/ f[i + 1] >= p + 5 * (i + 1)
    OBVIOUS
  <2>1. i + 1 \in 0..n /\ i + 1 # 0 /\ (i + 1) - 1 = i /\ i <= n
    OBVIOUS
  <2>2. f[i + 1] = QuestionEnd(b, f[i])
    BY <2>1, QuestionEndsAt
  <2>3. f[i] \in Nat /\ (f[i] > len \/ f[i] >= p + 5 * i)
    BY <1>2, <2>1
  <2>4. QuestionEnd(b, f[i]) \in Nat /\ (QuestionEnd(b, f[i]) > len \/ QuestionEnd(b, f[i]) >= f[i] + 5)
    BY <2>3, QuestionEndType
  <2>5. f[i] > len => QuestionEnd(b, f[i]) > len
    BY <2>3, QuestionEndType
  <2>6. len \in Nat
    BY OctetsLen
  <2> DEFINE x == f[i]
             y == QuestionEnd(b, x)
  <2> HIDE DEF len, x, y
  <2>7. y \in Nat /\ (y > len \/ y >= p + 5 * (i + 1))
    <3>1. y \in Nat /\ (y > len \/ y >= x + 5)
      BY <2>4 DEF x, y
    <3>2. x \in Nat /\ (x > len \/ x >= p + 5 * i)
      BY <2>3 DEF x
    <3>3. x > len => y > len
      BY <2>5 DEF x, y
    <3> QED
      BY <2>6, <3>1, <3>2, <3>3
  <2> QED
    BY <2>2, <2>7 DEF x, y
<1> HIDE DEF G
<1>3. \A i \in Nat : i \in G
  BY <1>1, <1>2, Induction
<1> QED
  BY <1>3 DEF G

\* The loop of ReadQuestions.
QuestionRun(f, c, n) ==
    f = [i \in 0..n |-> IF i = 0 THEN c ELSE (IF f[i - 1].err # "nil" THEN f[i - 1] ELSE DecodeQuestion(f[i - 1]))]

LEMMA QuestionRunAt ==
    ASSUME NEW f, NEW c, NEW n \in Nat, QuestionRun(f, c, n), NEW i \in 0..n
    PROVE  f[i] = IF i = 0 THEN c ELSE (IF f[i - 1].err # "nil" THEN f[i - 1] ELSE DecodeQuestion(f[i - 1]))
BY DEF QuestionRun

LEMMA QuestionRunExists ==
    ASSUME NEW c, NEW n \in Nat PROVE \E f : QuestionRun(f, c, n)
<1> DEFINE G == {m \in Nat : \E f : QuestionRun(f, c, m)}
<1>1. 0 \in G
  <2> DEFINE f == [i \in 0..0 |-> c]
  <2>1. QuestionRun(f, c, 0)
    BY DEF QuestionRun
  <2> QED
    BY <2>1
<1>2. ASSUME NEW m \in Nat, m \in G PROVE m + 1 \in G
  <2>1. PICK h : QuestionRun(h, c, m)
    BY <1>2
  <2> DEFINE last == (IF h[m].err # "nil" THEN h[m] ELSE DecodeQuestion(h[m]))
             g == [i \in 0..(m + 1) |-> IF i = m + 1 THEN last ELSE h[i]]
  <2>2. ASSUME NEW i \in 0..(m + 1)
        PROVE  g[i] = IF i = 0 THEN c ELSE (IF g[i - 1].err # "nil" THEN g[i - 1] ELSE DecodeQuestion(g[i - 1]))
    <3>1. CASE i = m + 1
      <4>1. i # 0 /\ i - 1 = m /\ m \in 0..(m + 1) /\ m # m + 1
        BY <3>1
      <4>2. g[i - 1] = h[m] /\ g[i] = last
        BY <3>1, <4>1
      <4> QED
        BY <3>1, <4>1, <4>2
    <3>2. CASE i # m + 1
      <4>1. i \in 0..m
        BY <3>2
      <4>2. h[i] = IF i = 0 THEN c ELSE (IF h[i - 1].err # "nil" THEN h[i - 1] ELSE DecodeQuestion(h[i - 1]))
        BY <2>1, <4>1, QuestionRunAt
      <4>3. i # 0 => i - 1 \in 0..(m + 1) /\ i - 1 # m + 1
        BY <4>1
      <4>4. g[i] = h[i] /\ (i # 0 => g[i - 1] = h[i - 1])
        BY <3>2, <4>3
      <4> QED
        BY <4>2, <4>4
    <3> QED
      BY <3>1, <3>2
  <2>3. QuestionRun(g, c, m + 1)
    BY <2>2 DEF QuestionRun
  <2> QED
    BY <2>3
<1> HIDE DEF G
<1>3. \A m \in Nat : m \in G
  BY <1>1, <1>2, Induction
<1> QED
  BY <1>3 DEF G

LEMMA QuestionRunIs ==
    ASSUME NEW c, NEW count, Most(c, count) \in Nat
    PROVE  \E f : QuestionRun(f, c, Most(c, count)) /\ ReadQuestions(c, count) = f[Most(c, count)]
<1> DEFINE f == CHOOSE h : h = [i \in 0..Most(c, count) |->
                  IF i = 0 THEN c
                  ELSE IF h[i - 1].err # "nil" THEN h[i - 1] ELSE DecodeQuestion(h[i - 1])]
<1>1. PICK h : QuestionRun(h, c, Most(c, count))
  BY QuestionRunExists
<1>2. QuestionRun(f, c, Most(c, count))
  BY <1>1 DEF QuestionRun
<1>3. ReadQuestions(c, count) = f[Most(c, count)]
  BY DEF ReadQuestions
<1> QED
  BY <1>2, <1>3

LEMMA QuestionRunReads ==
    ASSUME NEW b \in Octets, NEW p \in Nat, NEW c, NEW vs \in Seq(Values(b)), Reads(c, b, p, vs),
           NEW n \in Nat, NEW f, QuestionEnds(f, b, p, n), NEW r, QuestionRun(r, c, n)
    PROVE  \A i \in 0..n : Reads(r[i], b, f[i], vs \o Questions(b, f, i))
<1> DEFINE G == {i \in Nat : i <= n => Reads(r[i], b, f[i], vs \o Questions(b, f, i))}
<1>1. \A i \in 0..n : f[i] \in Nat
  BY QuestionEndsGrow
<1>2. 0 \in G
  <2>1. 0 \in 0..n
    OBVIOUS
  <2>2. f[0] = p /\ r[0] = c
    BY <2>1, QuestionEndsAt, QuestionRunAt
  <2>3. Questions(b, f, 0) = << >>
    BY DEF Questions
  <2>4. vs \o << >> = vs
    BY ConcatEmptySeq
  <2> QED
    BY <2>2, <2>3, <2>4
<1>3. ASSUME NEW i \in Nat, i \in G PROVE i + 1 \in G
  <2> SUFFICES ASSUME i + 1 <= n
               PROVE  Reads(r[i + 1], b, f[i + 1], vs \o Questions(b, f, i + 1))
    OBVIOUS
  <2>1. i + 1 \in 0..n /\ i + 1 # 0 /\ (i + 1) - 1 = i /\ i <= n /\ i \in 0..n
    OBVIOUS
  <2>2. f[i + 1] = QuestionEnd(b, f[i])
    BY <2>1, QuestionEndsAt
  <2>3. r[i + 1] = IF r[i].err # "nil" THEN r[i] ELSE DecodeQuestion(r[i])
    BY <2>1, QuestionRunAt
  <2> DEFINE x  == f[i]
             us == vs \o Questions(b, f, i)
             ts == vs \o Questions(b, f, i + 1)
             e  == QuestionAt(b, x)
             d  == r[i]
             d2 == r[i + 1]
             y  == f[i + 1]
  <2>4. x \in Nat
    BY <1>1, <2>1
  <2>5. Append(us, e) = ts
    <3>1. \A j \in 0..i : f[j] \in Nat
      BY <1>1, <2>1
    <3>2. /\ Questions(b, f, i) \in Seq(Values(b)) /\ e \in Values(b)
          /\ Questions(b, f, i + 1) = Append(Questions(b, f, i), e)
      BY <3>1, QuestionsMore
    <3> DEFINE k == Questions(b, f, i)
               V == Values(b)
    <3>3. k \in Seq(V) /\ e \in V /\ vs \in Seq(V)
      BY <3>2
    <3> HIDE DEF e, k, V
    <3>4. Append(vs \o k, e) = vs \o Append(k, e)
      <4>1. << e >> \in Seq(V) /\ vs \o k \in Seq(V)
        BY <3>3, OneElement, ConcatProperties
      <4>2. Append(vs \o k, e) = (vs \o k) \o << e >> /\ Append(k, e) = k \o << e >>
        BY <3>3, <4>1, AppendIsConcat
      <4>3. (vs \o k) \o << e >> = vs \o (k \o << e >>)
        BY <3>3, <4>1, ConcatAssociative
      <4> QED
        BY <4>2, <4>3
    <3> QED
      BY <3>2, <3>4, Zenon DEF k
  <2>6. Reads(d, b, x, us)
    BY <1>3, <2>1
  <2>7. d2 = (IF d.err # "nil" THEN d ELSE DecodeQuestion(d)) /\ y = QuestionEnd(b, x)
    BY <2>2, <2>3
  <2> HIDE DEF x, us, ts, e, d, d2, y
  <2>8. CASE x <= Len(b) /\ d = At(b, x, us)
    <3>1. d = At(b, x, us)
      BY <2>8
    <3>2. d.err = "nil"
      BY <3>1, AtFields
    <3>3. d2 = DecodeQuestion(At(b, x, us))
      BY <2>7, <3>1, <3>2
    <3>4. Reads(d2, b, y, Append(us, e))
      BY <2>4, <2>7, <2>8, <3>3, QuestionReads DEF e
    <3> QED
      BY <2>5, <3>4 DEF d2, y, ts
  <2>9. CASE x > Len(b) /\ Stuck(d, b)
    <3>1. d2 = d
      BY <2>7, <2>9, StuckIsError
    <3>2. y > Len(b)
      BY <2>4, <2>7, <2>9, QuestionEndType
    <3>3. Reads(d2, b, y, ts)
      BY <2>9, <3>1, <3>2 DEF Reads
    <3> QED
      BY <3>3 DEF d2, y, ts
  <2> QED
    BY <2>6, <2>8, <2>9 DEF Reads
<1> HIDE DEF G
<1>4. \A i \in Nat : i \in G
  BY <1>2, <1>3, Induction
<1> QED
  BY <1>4 DEF G

\* A section of the given count: what is there, or an error.
LEMMA QuestionsRead ==
    ASSUME NEW b \in Octets, NEW p \in Nat, NEW c, NEW vs \in Seq(Values(b)), Reads(c, b, p, vs),
           NEW count \in Nat, NEW f, QuestionEnds(f, b, p, count)
    PROVE  Reads(ReadQuestions(c, count), b, f[count], vs \o Questions(b, f, count))
<1> DEFINE len == Len(b)
           m   == Most(c, count)
           d   == ReadQuestions(c, count)
<1>1. len \in Nat
  BY OctetsLen
<1>2. c = At(b, p, vs) \/ Stuck(c, b)
  BY DEF Reads
<1>3. c.buf = b
  BY <1>2, AtFields, StuckIsError
<1>4. m \in Nat /\ m <= count /\ (m < count => len < 5 * m)
  BY <1>3, MostIs
<1>5. PICK r : QuestionRun(r, c, m) /\ d = r[m]
  BY <1>4, QuestionRunIs
<1>6. PICK g : QuestionEnds(g, b, p, m)
  BY <1>4, QuestionEndsExists
<1> HIDE DEF len, m, d
<1>7. m \in 0..m
  BY <1>4
<1>8. Reads(d, b, g[m], vs \o Questions(b, g, m))
  BY <1>4, <1>5, <1>6, <1>7, QuestionRunReads
<1>9. CASE m = count
  <2>1. g = f
    BY <1>6, <1>9, QuestionEndsOne
  <2> QED
    BY <1>8, <1>9, <2>1 DEF d
<1>10. CASE m # count
  <2>1. g[m] \in Nat /\ (g[m] > len \/ g[m] >= p + 5 * m)
    BY <1>4, <1>6, <1>7, QuestionEndsGrow DEF len
  <2>2. f[count] \in Nat /\ (f[count] > len \/ f[count] >= p + 5 * count)
    <3>1. count \in 0..count
      OBVIOUS
    <3> QED
      BY <3>1, QuestionEndsGrow DEF len
  <2> DEFINE x == g[m]
             y == f[count]
  <2>3. /\ x \in Nat /\ (x > len \/ x >= p + 5 * m)
        /\ y \in Nat /\ (y > len \/ y >= p + 5 * count)
    BY <2>1, <2>2
  <2> HIDE DEF x, y
  <2>4. len < 5 * m /\ 5 * m <= 5 * count
    BY <1>4, <1>10
  <2>5. x > len /\ ~ (x <= len) /\ y > len
    BY <1>1, <1>4, <2>3, <2>4
  <2>6. Stuck(d, b)
    BY <1>8, <2>5 DEF Reads, x, len
  <2> QED
    BY <2>5, <2>6 DEF Reads, y, d, len
<1> QED
  BY <1>9, <1>10

\* Where the records from p on end.
RREnds(f, b, p, n) ==
    f = [i \in 0..n |-> IF i = 0 THEN p ELSE RREnd(b, f[i - 1])]

LEMMA RREndsAt ==
    ASSUME NEW f, NEW b, NEW p, NEW n \in Nat, RREnds(f, b, p, n), NEW i \in 0..n
    PROVE  f[i] = IF i = 0 THEN p ELSE RREnd(b, f[i - 1])
BY DEF RREnds

LEMMA RREndsExists ==
    ASSUME NEW b, NEW p, NEW n \in Nat PROVE \E f : RREnds(f, b, p, n)
<1> DEFINE G == {m \in Nat : \E f : RREnds(f, b, p, m)}
<1>1. 0 \in G
  <2> DEFINE f == [i \in 0..0 |-> p]
  <2>1. RREnds(f, b, p, 0)
    BY DEF RREnds
  <2> QED
    BY <2>1
<1>2. ASSUME NEW m \in Nat, m \in G PROVE m + 1 \in G
  <2>1. PICK h : RREnds(h, b, p, m)
    BY <1>2
  <2> DEFINE last == RREnd(b, h[m])
             g == [i \in 0..(m + 1) |-> IF i = m + 1 THEN last ELSE h[i]]
  <2>2. ASSUME NEW i \in 0..(m + 1)
        PROVE  g[i] = IF i = 0 THEN p ELSE RREnd(b, g[i - 1])
    <3>1. CASE i = m + 1
      <4>1. i # 0 /\ i - 1 = m /\ m \in 0..(m + 1) /\ m # m + 1
        BY <3>1
      <4>2. g[i - 1] = h[m] /\ g[i] = last
        BY <3>1, <4>1
      <4> QED
        BY <3>1, <4>1, <4>2
    <3>2. CASE i # m + 1
      <4>1. i \in 0..m
        BY <3>2
      <4>2. h[i] = IF i = 0 THEN p ELSE RREnd(b, h[i - 1])
        BY <2>1, <4>1, RREndsAt
      <4>3. i # 0 => i - 1 \in 0..(m + 1) /\ i - 1 # m + 1
        BY <4>1
      <4>4. g[i] = h[i] /\ (i # 0 => g[i - 1] = h[i - 1])
        BY <3>2, <4>3
      <4> QED
        BY <4>2, <4>4
    <3> QED
      BY <3>1, <3>2
  <2>3. RREnds(g, b, p, m + 1)
    BY <2>2 DEF RREnds
  <2> QED
    BY <2>3
<1> HIDE DEF G
<1>3. \A m \in Nat : m \in G
  BY <1>1, <1>2, Induction
<1> QED
  BY <1>3 DEF G

LEMMA RREndsOne ==
    ASSUME NEW b, NEW p, NEW n \in Nat, NEW f, RREnds(f, b, p, n), NEW g, RREnds(g, b, p, n)
    PROVE  f = g
<1> DEFINE G == {i \in Nat : i <= n => f[i] = g[i]}
<1>1. 0 \in G
  <2>1. 0 \in 0..n
    OBVIOUS
  <2> QED
    BY <2>1, RREndsAt
<1>2. ASSUME NEW i \in Nat, i \in G PROVE i + 1 \in G
  <2> SUFFICES ASSUME i + 1 <= n PROVE f[i + 1] = g[i + 1]
    OBVIOUS
  <2>1. i + 1 \in 0..n /\ i + 1 # 0 /\ (i + 1) - 1 = i /\ i <= n
    OBVIOUS
  <2>2. f[i + 1] = RREnd(b, f[i]) /\ g[i + 1] = RREnd(b, g[i])
    BY <2>1, RREndsAt
  <2>3. f[i] = g[i]
    BY <1>2, <2>1
  <2> QED
    BY <2>2, <2>3
<1> HIDE DEF G
<1>3. \A i \in Nat : i \in G
  BY <1>1, <1>2, Induction
<1>4. \A i \in 0..n : f[i] = g[i]
  BY <1>3 DEF G
<1> QED
  BY <1>4 DEF RREnds

RRs(b, f, n) == [i \in 1..n |-> RRAt(b, f[i - 1])]

LEMMA RRsMore ==
    ASSUME NEW b, NEW f, NEW n \in Nat, \A i \in 0..n : f[i] \in Nat
    PROVE  /\ RRs(b, f, n) \in Seq(Values(b)) /\ Len(RRs(b, f, n)) = n
           /\ RRAt(b, f[n]) \in Values(b)
           /\ RRs(b, f, n + 1) = Append(RRs(b, f, n), RRAt(b, f[n]))
<1> DEFINE V == Values(b)
           s == RRs(b, f, n)
           t == RRs(b, f, n + 1)
           e == RRAt(b, f[n])
           u == Append(s, e)
<1>1. \A i \in 0..n : RRAt(b, f[i]) \in V
  BY DEF Values
<1>2. e \in V
  BY <1>1
<1>3. s \in [1..n -> V]
  <2>1. \A i \in 1..n : i - 1 \in 0..n
    OBVIOUS
  <2> QED
    BY <1>1, <2>1 DEF RRs
<1>4. t \in [1..(n + 1) -> V]
  <2>1. \A i \in 1..(n + 1) : i - 1 \in 0..n
    OBVIOUS
  <2> QED
    BY <1>1, <2>1 DEF RRs
<1>5. \A i \in 1..n : s[i] = RRAt(b, f[i - 1])
  BY DEF RRs
<1>6. \A i \in 1..(n + 1) : t[i] = RRAt(b, f[i - 1])
  BY DEF RRs
<1>7. t[n + 1] = e
  <2>1. n + 1 \in 1..(n + 1) /\ (n + 1) - 1 = n
    OBVIOUS
  <2> QED
    BY <1>6, <2>1
<1>8. \A i \in 1..n : t[i] = s[i]
  BY <1>5, <1>6
<1> HIDE DEF V, s, t, e, u
<1>9. s \in Seq(V) /\ Len(s) = n
  BY <1>3, FunctionSeq
<1>10. t \in Seq(V) /\ Len(t) = n + 1
  BY <1>4, FunctionSeq
<1>11. /\ u \in Seq(V) /\ Len(u) = n + 1 /\ u[n + 1] = e /\ \A i \in 1..n : u[i] = s[i]
  BY <1>2, <1>9, AppendProperties DEF u
<1>12. \A i \in 1..(n + 1) : u[i] = t[i]
  BY <1>7, <1>8, <1>11
<1>13. u = t
  BY <1>10, <1>11, <1>12, SeqEqual
<1> QED
  BY <1>2, <1>9, <1>13 DEF V, s, t, e, u

\* Every item takes five octets or more, and what fails has failed.
LEMMA RREndsGrow ==
    ASSUME NEW b \in Octets, NEW p \in Nat, NEW n \in Nat, NEW f, RREnds(f, b, p, n)
    PROVE  \A i \in 0..n : f[i] \in Nat /\ (f[i] > Len(b) \/ f[i] >= p + 5 * i)
<1> DEFINE len == Len(b)
           G == {i \in Nat : i <= n => f[i] \in Nat /\ (f[i] > len \/ f[i] >= p + 5 * i)}
<1>1. 0 \in G
  <2>1. 0 \in 0..n
    OBVIOUS
  <2>2. f[0] = p
    BY <2>1, RREndsAt
  <2> HIDE DEF len
  <2> QED
    BY <2>2
<1>2. ASSUME NEW i \in Nat, i \in G PROVE i + 1 \in G
  <2> SUFFICES ASSUME i + 1 <= n
               PROVE  /\ f[i + 1] \in Nat
                      /\ f[i + 1] > len \/ f[i + 1] >= p + 5 * (i + 1)
    OBVIOUS
  <2>1. i + 1 \in 0..n /\ i + 1 # 0 /\ (i + 1) - 1 = i /\ i <= n
    OBVIOUS
  <2>2. f[i + 1] = RREnd(b, f[i])
    BY <2>1, RREndsAt
  <2>3. f[i] \in Nat /\ (f[i] > len \/ f[i] >= p + 5 * i)
    BY <1>2, <2>1
  <2>4. RREnd(b, f[i]) \in Nat /\ (RREnd(b, f[i]) > len \/ RREnd(b, f[i]) >= f[i] + 5)
    BY <2>3, RREndType
  <2>5. f[i] > len => RREnd(b, f[i]) > len
    BY <2>3, RREndType
  <2>6. len \in Nat
    BY OctetsLen
  <2> DEFINE x == f[i]
             y == RREnd(b, x)
  <2> HIDE DEF len, x, y
  <2>7. y \in Nat /\ (y > len \/ y >= p + 5 * (i + 1))
    <3>1. y \in Nat /\ (y > len \/ y >= x + 5)
      BY <2>4 DEF x, y
    <3>2. x \in Nat /\ (x > len \/ x >= p + 5 * i)
      BY <2>3 DEF x
    <3>3. x > len => y > len
      BY <2>5 DEF x, y
    <3> QED
      BY <2>6, <3>1, <3>2, <3>3
  <2> QED
    BY <2>2, <2>7 DEF x, y
<1> HIDE DEF G
<1>3. \A i \in Nat : i \in G
  BY <1>1, <1>2, Induction
<1> QED
  BY <1>3 DEF G

\* The loop of ReadRecords.
RecordRun(f, c, n) ==
    f = [i \in 0..n |-> IF i = 0 THEN c ELSE (IF f[i - 1].err # "nil" THEN f[i - 1] ELSE DecodeRR(f[i - 1]))]

LEMMA RecordRunAt ==
    ASSUME NEW f, NEW c, NEW n \in Nat, RecordRun(f, c, n), NEW i \in 0..n
    PROVE  f[i] = IF i = 0 THEN c ELSE (IF f[i - 1].err # "nil" THEN f[i - 1] ELSE DecodeRR(f[i - 1]))
BY DEF RecordRun

LEMMA RecordRunExists ==
    ASSUME NEW c, NEW n \in Nat PROVE \E f : RecordRun(f, c, n)
<1> DEFINE G == {m \in Nat : \E f : RecordRun(f, c, m)}
<1>1. 0 \in G
  <2> DEFINE f == [i \in 0..0 |-> c]
  <2>1. RecordRun(f, c, 0)
    BY DEF RecordRun
  <2> QED
    BY <2>1
<1>2. ASSUME NEW m \in Nat, m \in G PROVE m + 1 \in G
  <2>1. PICK h : RecordRun(h, c, m)
    BY <1>2
  <2> DEFINE last == (IF h[m].err # "nil" THEN h[m] ELSE DecodeRR(h[m]))
             g == [i \in 0..(m + 1) |-> IF i = m + 1 THEN last ELSE h[i]]
  <2>2. ASSUME NEW i \in 0..(m + 1)
        PROVE  g[i] = IF i = 0 THEN c ELSE (IF g[i - 1].err # "nil" THEN g[i - 1] ELSE DecodeRR(g[i - 1]))
    <3>1. CASE i = m + 1
      <4>1. i # 0 /\ i - 1 = m /\ m \in 0..(m + 1) /\ m # m + 1
        BY <3>1
      <4>2. g[i - 1] = h[m] /\ g[i] = last
        BY <3>1, <4>1
      <4> QED
        BY <3>1, <4>1, <4>2
    <3>2. CASE i # m + 1
      <4>1. i \in 0..m
        BY <3>2
      <4>2. h[i] = IF i = 0 THEN c ELSE (IF h[i - 1].err # "nil" THEN h[i - 1] ELSE DecodeRR(h[i - 1]))
        BY <2>1, <4>1, RecordRunAt
      <4>3. i # 0 => i - 1 \in 0..(m + 1) /\ i - 1 # m + 1
        BY <4>1
      <4>4. g[i] = h[i] /\ (i # 0 => g[i - 1] = h[i - 1])
        BY <3>2, <4>3
      <4> QED
        BY <4>2, <4>4
    <3> QED
      BY <3>1, <3>2
  <2>3. RecordRun(g, c, m + 1)
    BY <2>2 DEF RecordRun
  <2> QED
    BY <2>3
<1> HIDE DEF G
<1>3. \A m \in Nat : m \in G
  BY <1>1, <1>2, Induction
<1> QED
  BY <1>3 DEF G

LEMMA RecordRunIs ==
    ASSUME NEW c, NEW count, Most(c, count) \in Nat
    PROVE  \E f : RecordRun(f, c, Most(c, count)) /\ ReadRecords(c, count) = f[Most(c, count)]
<1> DEFINE f == CHOOSE h : h = [i \in 0..Most(c, count) |->
                  IF i = 0 THEN c
                  ELSE IF h[i - 1].err # "nil" THEN h[i - 1] ELSE DecodeRR(h[i - 1])]
<1>1. PICK h : RecordRun(h, c, Most(c, count))
  BY RecordRunExists
<1>2. RecordRun(f, c, Most(c, count))
  BY <1>1 DEF RecordRun
<1>3. ReadRecords(c, count) = f[Most(c, count)]
  BY DEF ReadRecords
<1> QED
  BY <1>2, <1>3

LEMMA RecordRunReads ==
    ASSUME NEW b \in Octets, NEW p \in Nat, NEW c, NEW vs \in Seq(Values(b)), Reads(c, b, p, vs),
           NEW n \in Nat, NEW f, RREnds(f, b, p, n), NEW r, RecordRun(r, c, n)
    PROVE  \A i \in 0..n : Reads(r[i], b, f[i], vs \o RRs(b, f, i))
<1> DEFINE G == {i \in Nat : i <= n => Reads(r[i], b, f[i], vs \o RRs(b, f, i))}
<1>1. \A i \in 0..n : f[i] \in Nat
  BY RREndsGrow
<1>2. 0 \in G
  <2>1. 0 \in 0..n
    OBVIOUS
  <2>2. f[0] = p /\ r[0] = c
    BY <2>1, RREndsAt, RecordRunAt
  <2>3. RRs(b, f, 0) = << >>
    BY DEF RRs
  <2>4. vs \o << >> = vs
    BY ConcatEmptySeq
  <2> QED
    BY <2>2, <2>3, <2>4
<1>3. ASSUME NEW i \in Nat, i \in G PROVE i + 1 \in G
  <2> SUFFICES ASSUME i + 1 <= n
               PROVE  Reads(r[i + 1], b, f[i + 1], vs \o RRs(b, f, i + 1))
    OBVIOUS
  <2>1. i + 1 \in 0..n /\ i + 1 # 0 /\ (i + 1) - 1 = i /\ i <= n /\ i \in 0..n
    OBVIOUS
  <2>2. f[i + 1] = RREnd(b, f[i])
    BY <2>1, RREndsAt
  <2>3. r[i + 1] = IF r[i].err # "nil" THEN r[i] ELSE DecodeRR(r[i])
    BY <2>1, RecordRunAt
  <2> DEFINE x  == f[i]
             us == vs \o RRs(b, f, i)
             ts == vs \o RRs(b, f, i + 1)
             e  == RRAt(b, x)
             d  == r[i]
             d2 == r[i + 1]
             y  == f[i + 1]
  <2>4. x \in Nat
    BY <1>1, <2>1
  <2>5. Append(us, e) = ts
    <3>1. \A j \in 0..i : f[j] \in Nat
      BY <1>1, <2>1
    <3>2. /\ RRs(b, f, i) \in Seq(Values(b)) /\ e \in Values(b)
          /\ RRs(b, f, i + 1) = Append(RRs(b, f, i), e)
      BY <3>1, RRsMore
    <3> DEFINE k == RRs(b, f, i)
               V == Values(b)
    <3>3. k \in Seq(V) /\ e \in V /\ vs \in Seq(V)
      BY <3>2
    <3> HIDE DEF e, k, V
    <3>4. Append(vs \o k, e) = vs \o Append(k, e)
      <4>1. << e >> \in Seq(V) /\ vs \o k \in Seq(V)
        BY <3>3, OneElement, ConcatProperties
      <4>2. Append(vs \o k, e) = (vs \o k) \o << e >> /\ Append(k, e) = k \o << e >>
        BY <3>3, <4>1, AppendIsConcat
      <4>3. (vs \o k) \o << e >> = vs \o (k \o << e >>)
        BY <3>3, <4>1, ConcatAssociative
      <4> QED
        BY <4>2, <4>3
    <3> QED
      BY <3>2, <3>4, Zenon DEF k
  <2>6. Reads(d, b, x, us)
    BY <1>3, <2>1
  <2>7. d2 = (IF d.err # "nil" THEN d ELSE DecodeRR(d)) /\ y = RREnd(b, x)
    BY <2>2, <2>3
  <2> HIDE DEF x, us, ts, e, d, d2, y
  <2>8. CASE x <= Len(b) /\ d = At(b, x, us)
    <3>1. d = At(b, x, us)
      BY <2>8
    <3>2. d.err = "nil"
      BY <3>1, AtFields
    <3>3. d2 = DecodeRR(At(b, x, us))
      BY <2>7, <3>1, <3>2
    <3>4. Reads(d2, b, y, Append(us, e))
      BY <2>4, <2>7, <2>8, <3>3, RRReads DEF e
    <3> QED
      BY <2>5, <3>4 DEF d2, y, ts
  <2>9. CASE x > Len(b) /\ Stuck(d, b)
    <3>1. d2 = d
      BY <2>7, <2>9, StuckIsError
    <3>2. y > Len(b)
      BY <2>4, <2>7, <2>9, RREndType
    <3>3. Reads(d2, b, y, ts)
      BY <2>9, <3>1, <3>2 DEF Reads
    <3> QED
      BY <3>3 DEF d2, y, ts
  <2> QED
    BY <2>6, <2>8, <2>9 DEF Reads
<1> HIDE DEF G
<1>4. \A i \in Nat : i \in G
  BY <1>2, <1>3, Induction
<1> QED
  BY <1>4 DEF G

\* A section of the given count: what is there, or an error.
LEMMA RRsRead ==
    ASSUME NEW b \in Octets, NEW p \in Nat, NEW c, NEW vs \in Seq(Values(b)), Reads(c, b, p, vs),
           NEW count \in Nat, NEW f, RREnds(f, b, p, count)
    PROVE  Reads(ReadRecords(c, count), b, f[count], vs \o RRs(b, f, count))
<1> DEFINE len == Len(b)
           m   == Most(c, count)
           d   == ReadRecords(c, count)
<1>1. len \in Nat
  BY OctetsLen
<1>2. c = At(b, p, vs) \/ Stuck(c, b)
  BY DEF Reads
<1>3. c.buf = b
  BY <1>2, AtFields, StuckIsError
<1>4. m \in Nat /\ m <= count /\ (m < count => len < 5 * m)
  BY <1>3, MostIs
<1>5. PICK r : RecordRun(r, c, m) /\ d = r[m]
  BY <1>4, RecordRunIs
<1>6. PICK g : RREnds(g, b, p, m)
  BY <1>4, RREndsExists
<1> HIDE DEF len, m, d
<1>7. m \in 0..m
  BY <1>4
<1>8. Reads(d, b, g[m], vs \o RRs(b, g, m))
  BY <1>4, <1>5, <1>6, <1>7, RecordRunReads
<1>9. CASE m = count
  <2>1. g = f
    BY <1>6, <1>9, RREndsOne
  <2> QED
    BY <1>8, <1>9, <2>1 DEF d
<1>10. CASE m # count
  <2>1. g[m] \in Nat /\ (g[m] > len \/ g[m] >= p + 5 * m)
    BY <1>4, <1>6, <1>7, RREndsGrow DEF len
  <2>2. f[count] \in Nat /\ (f[count] > len \/ f[count] >= p + 5 * count)
    <3>1. count \in 0..count
      OBVIOUS
    <3> QED
      BY <3>1, RREndsGrow DEF len
  <2> DEFINE x == g[m]
             y == f[count]
  <2>3. /\ x \in Nat /\ (x > len \/ x >= p + 5 * m)
        /\ y \in Nat /\ (y > len \/ y >= p + 5 * count)
    BY <2>1, <2>2
  <2> HIDE DEF x, y
  <2>4. len < 5 * m /\ 5 * m <= 5 * count
    BY <1>4, <1>10
  <2>5. x > len /\ ~ (x <= len) /\ y > len
    BY <1>1, <1>4, <2>3, <2>4
  <2>6. Stuck(d, b)
    BY <1>8, <2>5 DEF Reads, x, len
  <2> QED
    BY <2>5, <2>6 DEF Reads, y, d, len
<1> QED
  BY <1>9, <1>10


(***************************************************************************)
(* Decode: where the questions and the records end, and what they are.     *)
(***************************************************************************)
QuestionCount(b) == WordAt(b, 4)
RecordCount(b)   == WordAt(b, 6) + WordAt(b, 8) + WordAt(b, 10)

Ended(b, f, g) ==
    /\ QuestionEnds(f, b, 12, QuestionCount(b))
    /\ RREnds(g, b, f[QuestionCount(b)], RecordCount(b))

Items(b, f, g) == Questions(b, f, QuestionCount(b)) \o RRs(b, g, RecordCount(b))

DecodedMsg(b, items) ==
    LET n(i) == WordAt(b, 2 * i - 2)
        section(from, i) == SubSeq(items, from + 1, from + n(i))
    IN  [header     |-> HeaderFromFlags(n(1), n(2)),
         questions  |-> section(0, 3),
         answers    |-> section(n(3), 4),
         authority  |-> section(n(3) + n(4), 5),
         additional |-> section(n(3) + n(4) + n(5), 6)]

LEMMA CountTypes ==
    ASSUME NEW b \in Octets, 12 <= Len(b)
    PROVE  /\ QuestionCount(b) \in Nat /\ RecordCount(b) \in Nat
           /\ \A p \in {0, 2, 4, 6, 8, 10} : WordAt(b, p) \in Word16 /\ WordAt(b, p) \in Nat
<1> DEFINE len == Len(b)
<1>1. \A p \in {0, 2, 4, 6, 8, 10} : p \in Nat /\ p + 2 <= len
  <2>1. len \in Nat /\ 12 <= len
    BY OctetsLen
  <2> HIDE DEF len
  <2> QED
    BY <2>1
<1>2. \A p \in {0, 2, 4, 6, 8, 10} : WordAt(b, p) \in Word16
  BY <1>1, WordType
<1>3. \A p \in {0, 2, 4, 6, 8, 10} : WordAt(b, p) \in Nat
  BY <1>2, WordNat
<1>4. /\ WordAt(b, 4) \in Nat /\ WordAt(b, 6) \in Nat /\ WordAt(b, 8) \in Nat
      /\ WordAt(b, 10) \in Nat
  BY <1>3
<1> QED
  BY <1>2, <1>3, <1>4 DEF QuestionCount, RecordCount

LEMMA EndsExist ==
    ASSUME NEW b \in Octets, 12 <= Len(b)
    PROVE  \E f, g : Ended(b, f, g)
<1>1. QuestionCount(b) \in Nat /\ RecordCount(b) \in Nat
  BY CountTypes
<1>2. PICK f : QuestionEnds(f, b, 12, QuestionCount(b))
  BY <1>1, QuestionEndsExists
<1>3. PICK g : RREnds(g, b, f[QuestionCount(b)], RecordCount(b))
  BY <1>1, RREndsExists
<1> QED
  BY <1>2, <1>3 DEF Ended

LEMMA EndsTypes ==
    ASSUME NEW b \in Octets, 12 <= Len(b), NEW f, NEW g, Ended(b, f, g)
    PROVE  /\ \A i \in 0..QuestionCount(b) : f[i] \in Nat
           /\ \A i \in 0..RecordCount(b) : g[i] \in Nat
           /\ Questions(b, f, QuestionCount(b)) \in Seq(Values(b))
           /\ Len(Questions(b, f, QuestionCount(b))) = QuestionCount(b)
           /\ RRs(b, g, RecordCount(b)) \in Seq(Values(b))
           /\ Len(RRs(b, g, RecordCount(b))) = RecordCount(b)
<1> DEFINE m == QuestionCount(b)
           n == RecordCount(b)
<1>1. m \in Nat /\ n \in Nat
  BY CountTypes
<1>2. QuestionEnds(f, b, 12, m) /\ RREnds(g, b, f[m], n)
  BY DEF Ended
<1> HIDE DEF m, n
<1>3. \A i \in 0..m : f[i] \in Nat
  BY <1>1, <1>2, QuestionEndsGrow
<1>4. f[m] \in Nat
  BY <1>1, <1>3
<1>5. \A i \in 0..n : g[i] \in Nat
  BY <1>1, <1>2, <1>4, RREndsGrow
<1>6. Questions(b, f, m) \in Seq(Values(b)) /\ Len(Questions(b, f, m)) = m
  BY <1>1, <1>3, QuestionsMore
<1>7. RRs(b, g, n) \in Seq(Values(b)) /\ Len(RRs(b, g, n)) = n
  BY <1>1, <1>5, RRsMore
<1> QED
  BY <1>3, <1>5, <1>6, <1>7 DEF m, n

LEMMA DecodeReads ==
    ASSUME NEW b \in Octets, 12 <= Len(b), NEW f, NEW g, Ended(b, f, g)
    PROVE  \/ /\ g[RecordCount(b)] <= Len(b)
              /\ Decode(b) = [err |-> "nil", msg |-> DecodedMsg(b, Items(b, f, g))]
           \/ /\ g[RecordCount(b)] > Len(b)
              /\ Fails(Decode(b))
<1> DEFINE m  == QuestionCount(b)
           n  == RecordCount(b)
           c0 == Cursor(b, 12)
           c1 == ReadQuestions(c0, m)
           c2 == ReadRecords(c1, n)
           qs == Questions(b, f, m)
           rs == RRs(b, g, n)
           msg(vs) == DecodedMsg(b, vs)
           len == Len(b)
           w(i) == Word(SubSeq(b, 2 * i - 1, 2 * i))
<1>1. m \in Nat /\ n \in Nat /\ len \in Nat
  BY CountTypes, OctetsLen
<1>2. QuestionEnds(f, b, 12, m) /\ RREnds(g, b, f[m], n)
  BY DEF Ended
<1>3. /\ w(1) = WordAt(b, 0) /\ w(2) = WordAt(b, 2) /\ w(3) = WordAt(b, 4)
      /\ w(4) = WordAt(b, 6) /\ w(5) = WordAt(b, 8) /\ w(6) = WordAt(b, 10)
  BY DEF WordAt
<1>4. Decode(b) =
        IF len < 12 THEN [err |-> "short read"]
        ELSE IF c2.err # "nil" THEN [err |-> c2.err]
        ELSE [err |-> "nil", msg |-> msg(c2.vals)]
  <2>1. /\ 2 * 1 - 2 = 0 /\ 2 * 2 - 2 = 2 /\ 2 * 3 - 2 = 4 /\ 2 * 4 - 2 = 6
        /\ 2 * 5 - 2 = 8 /\ 2 * 6 - 2 = 10
    OBVIOUS
  <2> QED
    BY <1>3, <2>1 DEF Decode, DecodedMsg, QuestionCount, RecordCount
<1>5. Reads(c0, b, 12, << >>)
  BY DEF Reads, Cursor, At
<1>6. << >> \in Seq(Values(b))
  BY EmptySeq
<1>7. \A i \in 0..m : f[i] \in Nat
  BY <1>1, <1>2, QuestionEndsGrow
<1>8. f[m] \in Nat
  BY <1>1, <1>7
<1>9. ~ (len < 12)
  <2>1. 12 <= len
    OBVIOUS
  <2> HIDE DEF len
  <2> QED
    BY <1>1, <2>1
<1>10. qs \in Seq(Values(b))
  BY EndsTypes
<1> HIDE DEF m, n, c0, len, w, msg
<1>11. Reads(c1, b, f[m], << >> \o qs)
  BY <1>1, <1>2, <1>5, <1>6, QuestionsRead DEF qs
<1>12. << >> \o qs = qs
  <2> HIDE DEF qs
  <2> QED
    BY <1>10, ConcatEmptySeq
<1>13. Reads(c1, b, f[m], qs)
  BY <1>11, <1>12
<1> HIDE DEF c1, qs
<1>14. Reads(c2, b, g[n], qs \o rs)
  BY <1>1, <1>2, <1>8, <1>10, <1>13, RRsRead DEF rs
<1>15. CASE g[n] <= Len(b) /\ c2 = At(b, g[n], qs \o rs)
  <2> DEFINE us == qs \o rs
  <2> HIDE DEF us, c2, rs
  <2>1. c2 = At(b, g[n], us)
    BY <1>15 DEF us
  <2>2. c2.err = "nil" /\ c2.vals = us
    BY <2>1, AtFields
  <2>3. Decode(b) = [err |-> "nil", msg |-> msg(us)]
    BY <1>4, <1>9, <2>2
  <2> QED
    BY <1>15, <2>3 DEF us, msg, Items, qs, rs, m, n
<1>16. CASE g[n] > Len(b) /\ Stuck(c2, b)
  <2>1. Decode(b) = [err |-> c2.err]
    BY <1>4, <1>9, <1>16, StuckIsError
  <2> HIDE DEF c2
  <2>2. Fails(c2)
    BY <1>16, StuckIsError
  <2>3. Fails(Decode(b))
    BY <2>1, <2>2 DEF Fails
  <2> QED
    BY <1>16, <2>3 DEF n
<1> QED
  BY <1>14, <1>15, <1>16 DEF Reads

\* Decode ends, with a message or with one of its errors.
LEMMA DecodeEnds ==
    ASSUME NEW b \in Octets
    PROVE  Decode(b).err = "nil" \/ Fails(Decode(b))
<1> DEFINE len == Len(b)
<1>1. CASE len < 12
  <2>1. Decode(b) = [err |-> "short read"]
    BY <1>1 DEF Decode
  <2> DEFINE e == "short read"
  <2>2. e \in Errors
    BY DEF Errors
  <2>3. Decode(b) = [err |-> e]
    BY <2>1
  <2> HIDE DEF len, e
  <2>4. Decode(b).err = e
    BY <2>3
  <2> QED
    BY <2>2, <2>4 DEF Fails
<1>2. CASE ~ (len < 12)
  <2>1. 12 <= len
    <3>1. len \in Nat
      BY OctetsLen
    <3> HIDE DEF len
    <3> QED
      BY <1>2, <3>1
  <2>2. PICK f, g : Ended(b, f, g)
    BY <2>1, EndsExist
  <2> DEFINE n == g[RecordCount(b)]
             x == Items(b, f, g)
  <2>3. \/ Decode(b) = [err |-> "nil", msg |-> DecodedMsg(b, x)]
        \/ Fails(Decode(b))
    BY <2>1, <2>2, DecodeReads
  <2> HIDE DEF x
  <2> QED
    BY <2>3
<1> QED
  BY <1>1, <1>2
===============================================================================
