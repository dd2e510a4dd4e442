-------------------------- MODULE WireMessagesProofs --------------------------
(***************************************************************************)
(* Proofs about writing and reading the wire format: what Encode lays out, *)
(* that Decode finds it there, that a part of it is refused, and that what *)
(* Decode returns is a message.                                            *)
(***************************************************************************)
EXTENDS WireProofs, FiniteSetTheorems

(***************************************************************************)
(* What stands in octets at an offset.                                     *)
(***************************************************************************)
Holds(b, p, x) == p + Len(x) <= Len(b) /\ \A i \in 1..Len(x) : b[p + i] = x[i]

LEMMA HoldsPart ==
    ASSUME NEW b \in Octets, NEW x \in Octets, NEW p \in Nat, Holds(b, p, x)
    PROVE  SubSeq(b, p + 1, p + Len(x)) = x
<1> DEFINE len == Len(b)
           n == Len(x)
           y == SubSeq(b, p + 1, p + n)
           elem(i) == b[p + i] = x[i]
           part(i) == y[i] = b[p + 1 + i - 1]
<1>1. len \in Nat /\ n \in Nat
  BY OctetsLen
<1>2. p + n <= len /\ \A i \in 1..n : elem(i)
  BY DEF Holds
<1>3. p + 1 \in Nat \ {0} /\ p + n \in Nat /\ p + n - (p + 1) + 1 = n
  <2> HIDE DEF len, n
  <2> QED
    BY <1>1
<1>4. /\ y \in Octets
      /\ Len(y) = IF p + 1 <= p + n THEN p + n - (p + 1) + 1 ELSE 0
      /\ \A i \in 1..(p + n - (p + 1) + 1) : part(i)
  BY <1>2, <1>3, PartOctets
<1>5. Len(y) = n
  <2> DEFINE ylen == Len(y)
  <2>1. ylen = IF p + 1 <= p + n THEN p + n - (p + 1) + 1 ELSE 0
    BY <1>4
  <2> HIDE DEF len, n, ylen
  <2>2. ylen = n
    BY <1>1, <2>1
  <2> QED
    BY <2>2 DEF ylen
<1>6. ASSUME NEW i \in 1..n PROVE y[i] = x[i]
  <2>1. elem(i) /\ part(i)
    BY <1>2, <1>3, <1>4
  <2>2. p + 1 + i - 1 = p + i
    <3> HIDE DEF n
    <3> QED
      BY <1>1
  <2> QED
    BY <2>1, <2>2
<1> QED
  BY <1>4, <1>5, <1>6, SeqEqual DEF Octets

LEMMA HoldsJoin ==
    ASSUME NEW b \in Octets, NEW x \in Octets, NEW y \in Octets, NEW p \in Nat,
           Holds(b, p, x \o y)
    PROVE  Holds(b, p, x) /\ Holds(b, p + Len(x), y)
<1> DEFINE len == Len(b)
           m == Len(x)
           n == Len(y)
           t == x \o y
           k == Len(t)
<1>1. Joined(x, y, t)
  BY JoinedOctets
<1>2. /\ len \in Nat /\ m \in Nat /\ n \in Nat /\ k = m + n
      /\ \A i \in 1..m : t[i] = x[i]
      /\ \A i \in 1..n : t[i + m] = y[i]
  BY <1>1, OctetsLen DEF Joined
<1>3. p + k <= len /\ \A i \in 1..k : b[p + i] = t[i]
  BY DEF Holds
<1> HIDE DEF len, m, n, t, k
<1>4. p + m <= len /\ p + m + n <= len
  BY <1>2, <1>3
<1>5. ASSUME NEW i \in 1..m PROVE b[p + i] = x[i]
  <2>1. i \in 1..k
    BY <1>2
  <2> QED
    BY <1>2, <1>3, <2>1
<1>6. ASSUME NEW i \in 1..n PROVE b[p + m + i] = y[i]
  <2>1. i + m \in 1..k /\ p + (i + m) = p + m + i
    BY <1>2
  <2> QED
    BY <1>2, <1>3, <2>1
<1> QED
  BY <1>4, <1>5, <1>6 DEF Holds, len, m, n

LEMMA HoldsMore ==
    ASSUME NEW b \in Octets, NEW x \in Octets, NEW y \in Octets, NEW p \in Nat, Holds(b, p, x)
    PROVE  Holds(b \o y, p, x)
<1> DEFINE len == Len(b)
           m == Len(x)
           n == Len(y)
           t == b \o y
           k == Len(t)
<1>1. Joined(b, y, t)
  BY JoinedOctets
<1>2. /\ len \in Nat /\ m \in Nat /\ n \in Nat /\ k = len + n
      /\ \A i \in 1..len : t[i] = b[i]
  BY <1>1, OctetsLen DEF Joined
<1>3. p + m <= len /\ \A i \in 1..m : b[p + i] = x[i]
  BY DEF Holds
<1> HIDE DEF len, m, n, t, k
<1>4. p + m <= k
  BY <1>2, <1>3
<1>5. ASSUME NEW i \in 1..m PROVE t[p + i] = x[i]
  <2>1. p + i \in 1..len
    BY <1>2, <1>3
  <2> QED
    BY <1>2, <1>3, <2>1
<1> QED
  BY <1>4, <1>5 DEF Holds, k, m, t

LEMMA HoldsLast ==
    ASSUME NEW b \in Octets, NEW x \in Octets PROVE Holds(b \o x, Len(b), x)
<1> DEFINE len == Len(b)
           m == Len(x)
           t == b \o x
           k == Len(t)
<1>1. Joined(b, x, t)
  BY JoinedOctets
<1>2. /\ len \in Nat /\ m \in Nat /\ k = len + m
      /\ \A i \in 1..m : t[i + len] = x[i]
  BY <1>1, OctetsLen DEF Joined
<1> HIDE DEF len, m, t, k
<1>3. len + m <= k
  BY <1>2
<1>4. ASSUME NEW i \in 1..m PROVE t[len + i] = x[i]
  <2>1. i + len = len + i
    BY <1>2
  <2> QED
    BY <1>2, <2>1
<1> QED
  BY <1>3, <1>4 DEF Holds, k, m, t, len

\* What was appended in pieces.
LEMMA HoldsMiddle ==
    ASSUME NEW b \in Octets, NEW x \in Octets, NEW y \in Octets
    PROVE  Holds(b \o (x \o y), Len(b), x)
<1>1. x \o y \in Octets
  BY JoinOctets
<1>2. Holds(b \o (x \o y), Len(b), x \o y)
  BY <1>1, HoldsLast
<1>3. b \o (x \o y) \in Octets /\ Len(b) \in Nat
  BY <1>1, JoinOctets, OctetsLen
<1> QED
  BY <1>2, <1>3, HoldsJoin

(***************************************************************************)
(* Numbers, and a pointer's offset.                                        *)
(***************************************************************************)
LEMMA HalvesOf ==
    ASSUME NEW v \in Nat
    PROVE  /\ (v \div 256) % 256 \in Byte /\ v % 256 \in Byte
           /\ v \in Word16 => ((v \div 256) % 256) * 256 + (v % 256) = v
<1> DEFINE q == v \div 256
           r == v % 256
           h == q % 256
<1>1. q \in Nat /\ r \in 0..255 /\ v = 256 * q + r
  OBVIOUS
<1>2. h \in Byte /\ r \in Byte /\ (v \in Word16 => h * 256 + r = v)
  <2> DEFINE k == h
  <2>1. k \in 0..255 /\ (q < 256 => k = q)
    <3> HIDE DEF q, r
    <3> QED
      BY <1>1
  <2> HIDE DEF q, r, h, k
  <2>2. v \in Word16 => k * 256 + r = v
    BY <1>1, <2>1, WordNat
  <2>3. k \in Byte /\ r \in Byte
    BY <1>1, <2>1 DEF Byte
  <2> QED
    BY <2>2, <2>3 DEF k
<1> QED
  BY <1>2

LEMMA U16Octets ==
    ASSUME NEW v \in Nat PROVE U16(v) \in Octets /\ Len(U16(v)) = 2
BY HalvesOf, PrefixOctets DEF U16

LEMMA U16Word ==
    ASSUME NEW v \in Word16 PROVE Word(U16(v)) = v
<1> DEFINE h == (v \div 256) % 256
           r == v % 256
<1>1. h * 256 + r = v
  BY WordNat, HalvesOf
<1> HIDE DEF h, r
<1>2. Word(<< h, r >>) = v
  BY <1>1 DEF Word
<1> QED
  BY <1>2 DEF U16, h, r

LEMMA HoldsWord ==
    ASSUME NEW b \in Octets, NEW p \in Nat, NEW v \in Word16, Holds(b, p, U16(v))
    PROVE  WordAt(b, p) = v /\ p + 2 <= Len(b)
<1> DEFINE x == U16(v)
<1>1. x \in Octets /\ Len(x) = 2
  BY WordNat, U16Octets
<1>2. Word(x) = v
  BY U16Word
<1> HIDE DEF x
<1>3. Holds(b, p, x)
  BY DEF x
<1>4. SubSeq(b, p + 1, p + Len(x)) = x
  BY <1>1, <1>3, HoldsPart
<1>5. p + Len(x) <= Len(b)
  BY <1>3 DEF Holds
<1> QED
  BY <1>1, <1>2, <1>4, <1>5 DEF WordAt

LEMMA U32Octets ==
    ASSUME NEW v \in Word32 PROVE U32(v) \in Octets /\ Len(U32(v)) = 4
<1> DEFINE x == U16(v[1])
           y == U16(v[2])
<1>1. v[1] \in Nat /\ v[2] \in Nat
  BY WordNat DEF Word32
<1>2. x \in Octets /\ Len(x) = 2 /\ y \in Octets /\ Len(y) = 2
  BY <1>1, U16Octets
<1> HIDE DEF x, y
<1>3. x \o y \in Octets /\ Len(x \o y) = 4
  <2> DEFINE t == x \o y
  <2>1. Joined(x, y, t)
    BY <1>2, JoinedOctets
  <2> HIDE DEF t
  <2>2. t \in Octets /\ Len(t) = Len(x) + Len(y)
    BY <2>1 DEF Joined
  <2>3. Len(t) = 4
    BY <1>2, <2>2
  <2> QED
    BY <2>2, <2>3 DEF t
<1> QED
  BY <1>3 DEF U32, x, y

LEMMA HoldsLong ==
    ASSUME NEW b \in Octets, NEW p \in Nat, NEW v \in Word32, Holds(b, p, U32(v))
    PROVE  LongAt(b, p) = v /\ p + 4 <= Len(b)
<1> DEFINE x == U16(v[1])
           y == U16(v[2])
           t == U32(v)
           u == SubSeq(b, p + 1, p + 4)
<1>1. v[1] \in Word16 /\ v[2] \in Word16 /\ v = << v[1], v[2] >>
  BY DEF Word32
<1>2. x \in Octets /\ Len(x) = 2 /\ y \in Octets /\ Len(y) = 2
  BY <1>1, WordNat, U16Octets
<1>3. t \in Octets /\ Len(t) = 4 /\ t = x \o y
  BY U32Octets DEF U32
<1>4. Word(y) = v[2]
  BY <1>1, U16Word
<1> HIDE DEF x, y, t
<1>5. Holds(b, p, t)
  BY DEF t
<1>6. Holds(b, p, x) /\ u = t /\ p + 4 <= Len(b)
  <2>1. SubSeq(b, p + 1, p + Len(t)) = t
    BY <1>3, <1>5, HoldsPart
  <2>2. p + Len(t) <= Len(b)
    BY <1>5 DEF Holds
  <2>3. Holds(b, p, x \o y)
    BY <1>3, <1>5
  <2> QED
    BY <1>2, <1>3, <2>1, <2>2, <2>3, HoldsJoin
<1>7. WordAt(b, p) = v[1]
  BY <1>1, <1>6, HoldsWord DEF x
<1>8. SubSeq(t, 3, 4) = y
  <2>1. Joined(x, y, t)
    BY <1>2, <1>3, JoinedOctets
  <2>2. t[3] = y[1] /\ t[4] = y[2]
    <3>1. \A i \in 1..2 : t[i + 2] = y[i]
      BY <1>2, <2>1 DEF Joined
    <3>2. 1 + 2 = 3 /\ 2 + 2 = 4 /\ 1 \in 1..2 /\ 2 \in 1..2
      OBVIOUS
    <3> QED
      BY <3>1, <3>2
  <2> DEFINE w == SubSeq(t, 3, 4)
  <2>3. w \in Octets /\ Len(w) = 2 /\ \A i \in 1..2 : w[i] = t[3 + i - 1]
    <3>1. 3 \in Nat \ {0} /\ 4 \in Nat /\ 4 - 3 + 1 = 2 /\ 3 <= 4 /\ 4 <= Len(t)
      BY <1>3
    <3>2. 4 - 3 + 1 = 2
      OBVIOUS
    <3>3. /\ w \in Octets /\ Len(w) = 4 - 3 + 1
          /\ \A i \in 1..(4 - 3 + 1) : w[i] = t[3 + i - 1]
      BY <1>3, <3>1, PartOctets
    <3> QED
      BY <3>2, <3>3
  <2>4. \A i \in 1..2 : w[i] = y[i]
    <3>1. 3 + 1 - 1 = 3 /\ 3 + 2 - 1 = 4 /\ 1 \in 1..2 /\ 2 \in 1..2
      OBVIOUS
    <3>2. w[1] = y[1] /\ w[2] = y[2]
      BY <2>2, <2>3, <3>1
    <3> QED
      BY <3>2
  <2> QED
    BY <1>2, <2>3, <2>4, SeqEqual DEF Octets
<1> QED
  BY <1>1, <1>4, <1>6, <1>7, <1>8 DEF LongAt

LEMMA PointerOctets ==
    ASSUME NEW off \in Nat
    PROVE  /\ Pointer(off) \in Octets /\ Len(Pointer(off)) = 2
           /\ off < PointerSpan =>
                /\ Pointer(off)[1] \in 192..255 /\ Pointer(off)[2] \in Byte
                /\ (Pointer(off)[1] - 192) * 256 + Pointer(off)[2] = off
<1> DEFINE k == off % PointerSpan
           v == 192 * 256 + k
           q == off \div 256
           r == off % 256
<1>1. PointerSpan \in Nat /\ 1 <= PointerSpan /\ PointerSpan <= 16384
  BY WireAssumption
<1>2. k \in Nat
  BY <1>1
<1>3. off < PointerSpan => k = off
  BY <1>1
<1> HIDE DEF k
<1>4. v \in Nat
  BY <1>2
<1>5. U16(v) \in Octets /\ Len(U16(v)) = 2
  BY <1>4, U16Octets
<1>6. q \in Nat /\ r \in 0..255 /\ off = 256 * q + r
  OBVIOUS
<1>7. ASSUME off < PointerSpan
      PROVE  (v \div 256) % 256 = 192 + q /\ v % 256 = r /\ q < 64
  <2>1. v = 256 * (192 + q) + r
    BY <1>3, <1>6, <1>7
  <2>2. q < 64
    BY <1>1, <1>6, <1>7
  <2> HIDE DEF v, q, r
  <2>3. v \div 256 = 192 + q /\ v % 256 = r
    BY <1>6, <2>1, <2>2
  <2> QED
    BY <1>6, <2>2, <2>3
<1>8. Pointer(off) = U16(v)
  BY DEF Pointer, k
<1> DEFINE s == << (v \div 256) % 256, v % 256 >>
<1>9. U16(v) = s /\ s[1] = (v \div 256) % 256 /\ s[2] = v % 256
  BY DEF U16
<1> HIDE DEF v, q, r, s
<1>10. ASSUME off < PointerSpan
       PROVE  s[1] \in 192..255 /\ s[2] \in Byte /\ (s[1] - 192) * 256 + s[2] = off
  BY <1>6, <1>7, <1>9, <1>10 DEF Byte
<1> QED
  BY <1>5, <1>8, <1>9, <1>10

(***************************************************************************)
(* Labels on the wire.                                                     *)
(***************************************************************************)
Label == {l \in Octets : Len(l) \in 1..63}

Piece(l) == << Len(l) >> \o l
Pieces(x) == [i \in DOMAIN x |-> Piece(x[i])]

LEMMA PieceOctets ==
    ASSUME NEW l \in Label
    PROVE  /\ l \in Octets /\ << Len(l) >> \in Octets
           /\ Piece(l) \in Octets /\ Len(Piece(l)) = 1 + Len(l)
           /\ Len(l) \in 1..63 /\ Len(l) \in Nat
<1> DEFINE n == Len(l)
           x == << n >>
           t == x \o l
<1>1. l \in Octets /\ n \in 1..63
  BY DEF Label
<1> HIDE DEF n
<1>2. n \in Byte
  BY <1>1 DEF Byte
<1>3. x \in Octets /\ Len(x) = 1
  BY <1>2, OneElement DEF Octets
<1> HIDE DEF x, t
<1>4. Joined(x, l, t)
  BY <1>1, <1>3, JoinedOctets DEF t
<1>5. t \in Octets /\ Len(t) = 1 + n
  BY <1>3, <1>4 DEF Joined, n
<1>6. n \in Nat
  BY <1>1
<1> QED
  BY <1>1, <1>3, <1>5, <1>6 DEF Piece, n, x, t

LEMMA PiecesType ==
    ASSUME NEW x \in Seq(Label)
    PROVE  /\ Pieces(x) \in Seq(Octets) /\ Len(Pieces(x)) = Len(x)
           /\ \A i \in 1..Len(x) : Pieces(x)[i] = Piece(x[i])
<1> DEFINE n == Len(x)
           f == [i \in 1..n |-> Piece(x[i])]
<1>1. n \in Nat /\ DOMAIN x = 1..n
  BY LenProperties
<1>2. \A i \in 1..n : Piece(x[i]) \in Octets
  BY ElementOfSeq, PieceOctets
<1>3. f \in [1..n -> Octets]
  BY <1>2
<1>4. Pieces(x) = f
  BY <1>1 DEF Pieces
<1>5. \A i \in 1..n : f[i] = Piece(x[i])
  OBVIOUS
<1> HIDE DEF f
<1>6. f \in Seq(Octets) /\ Len(f) = n
  BY <1>1, <1>3, FunctionSeq
<1> QED
  BY <1>4, <1>5, <1>6

LEMMA WireOctets ==
    ASSUME NEW x \in Seq(Label)
    PROVE  WireLabels(x) = FlattenSeq(Pieces(x)) /\ WireLabels(x) \in Octets
<1>1. WireLabels(x) = FlattenSeq(Pieces(x))
  BY DEF WireLabels, Pieces, Piece
<1>2. FlattenSeq(Pieces(x)) \in Octets
  BY PiecesType, FlattenType DEF Octets
<1> QED
  BY <1>1, <1>2

LEMMA PiecesConcat ==
    ASSUME NEW x \in Seq(Label), NEW y \in Seq(Label)
    PROVE  Pieces(x \o y) = Pieces(x) \o Pieces(y)
<1> DEFINE m == Len(x)
           n == Len(y)
           t == x \o y
           f == Pieces(x)
           g == Pieces(y)
           h == Pieces(t)
           u == f \o g
<1>1. /\ t \in Seq(Label) /\ m \in Nat /\ n \in Nat /\ Len(t) = m + n
      /\ \A i \in 1..m : t[i] = x[i]
      /\ \A i \in 1..n : t[m + i] = y[i]
  BY ConcatElements
<1>2. /\ f \in Seq(Octets) /\ Len(f) = m /\ \A i \in 1..m : f[i] = Piece(x[i])
      /\ g \in Seq(Octets) /\ Len(g) = n /\ \A i \in 1..n : g[i] = Piece(y[i])
  BY PiecesType
<1>3. h \in Seq(Octets) /\ Len(h) = m + n /\ \A i \in 1..(m + n) : h[i] = Piece(t[i])
  BY <1>1, PiecesType
<1> HIDE DEF m, n, t, f, g, h
<1>4. /\ u \in Seq(Octets) /\ Len(u) = m + n
      /\ \A i \in 1..m : u[i] = f[i]
      /\ \A i \in 1..n : u[m + i] = g[i]
  <2>1. /\ u \in Seq(Octets) /\ Len(u) = Len(f) + Len(g)
        /\ \A i \in 1..Len(f) : u[i] = f[i]
        /\ \A i \in 1..Len(g) : u[Len(f) + i] = g[i]
    <3>1. f \in Seq(Octets) /\ g \in Seq(Octets)
      BY <1>2
    <3> QED
      BY <3>1, ConcatElements
  <2> HIDE DEF u
  <2> QED
    BY <1>2, <2>1
<1> HIDE DEF u
<1>5. ASSUME NEW i \in 1..(m + n) PROVE h[i] = u[i]
  <2>1. CASE i <= m
    <3>1. i \in 1..m
      BY <1>1, <2>1
    <3> QED
      BY <1>1, <1>2, <1>3, <1>4, <3>1
  <2>2. CASE i > m
    <3> DEFINE k == i - m
    <3>1. k \in 1..n /\ i = m + k
      BY <1>1, <2>2
    <3> HIDE DEF k
    <3>2. h[i] = Piece(y[k])
      BY <1>1, <1>3, <3>1
    <3>3. u[i] = Piece(y[k])
      BY <1>2, <1>4, <3>1
    <3> QED
      BY <3>2, <3>3
  <2> QED
    BY <1>1, <2>1, <2>2
<1>6. h = u
  BY <1>3, <1>4, <1>5, SeqEqual
<1> QED
  BY <1>6 DEF h, u, f, g, t

LEMMA WireConcat ==
    ASSUME NEW x \in Seq(Label), NEW y \in Seq(Label)
    PROVE  /\ x \o y \in Seq(Label)
           /\ WireLabels(x \o y) = WireLabels(x) \o WireLabels(y)
           /\ WireLabels(x) \in Octets /\ WireLabels(y) \in Octets
           /\ Len(WireLabels(x \o y)) = Len(WireLabels(x)) + Len(WireLabels(y))
<1> DEFINE f == Pieces(x)
           g == Pieces(y)
           t == x \o y
           wx == WireLabels(x)
           wy == WireLabels(y)
           wt == WireLabels(t)
<1>1. t \in Seq(Label)
  BY ConcatElements
<1>2. f \in Seq(Octets) /\ g \in Seq(Octets)
  BY PiecesType
<1>3. /\ wx = FlattenSeq(f) /\ wy = FlattenSeq(g) /\ wx \in Octets /\ wy \in Octets
      /\ wt = FlattenSeq(Pieces(t))
  BY <1>1, WireOctets
<1>4. Pieces(t) = f \o g
  BY PiecesConcat
<1> HIDE DEF f, g, wx, wy, wt, t
<1>5. FlattenSeq(f \o g) = FlattenSeq(f) \o FlattenSeq(g)
  BY <1>2, FlattenConcat DEF Octets
<1>6. wt = wx \o wy
  BY <1>3, <1>4, <1>5
<1>7. Joined(wx, wy, wt)
  BY <1>3, <1>6, JoinedOctets
<1>8. Len(wt) = Len(wx) + Len(wy)
  BY <1>7 DEF Joined
<1> QED
  BY <1>1, <1>3, <1>6, <1>8 DEF wx, wy, wt, t

LEMMA WireEmpty == WireLabels(<< >>) = << >> /\ Len(WireLabels(<< >>)) = 0
<1> DEFINE x == << >>
           f == Pieces(x)
<1>1. x \in Seq(Label) /\ Len(x) = 0
  BY EmptySeq
<1>2. WireLabels(x) = FlattenSeq(f) /\ f \in Seq(Octets) /\ Len(f) = 0
  BY <1>1, WireOctets, PiecesType
<1> HIDE DEF f
<1>3. f = << >>
  BY <1>2, EmptySeq
<1> QED
  BY <1>2, <1>3, FlattenEmpty, EmptyOctets

LEMMA WireOne ==
    ASSUME NEW l \in Label
    PROVE  << l >> \in Seq(Label) /\ WireLabels(<< l >>) = Piece(l)
<1> DEFINE x == << l >>
           f == Pieces(x)
<1>1. x \in Seq(Label) /\ Len(x) = 1 /\ x[1] = l
  BY OneElement
<1> HIDE DEF x
<1>2. WireLabels(x) = FlattenSeq(f) /\ f \in Seq(Octets) /\ Len(f) = 1 /\ f[1] = Piece(l)
  BY <1>1, WireOctets, PiecesType
<1> HIDE DEF f
<1>3. FlattenSeq(f) = f[1]
  BY <1>2, FlattenFirst
<1> QED
  BY <1>1, <1>2, <1>3 DEF x

(***************************************************************************)
(* Places: the octets in which a name, or the rest of one, is spelled.     *)
(***************************************************************************)
Place == [off : Nat, labels : Seq(Label), hops : Nat, end : Nat]

\* s is the root, or a label before t, or a pointer to t.
IsRoot(b, s) ==
    /\ s.labels = << >> /\ s.hops = 0 /\ s.end = s.off + 1
    /\ Holds(b, s.off, << 0 >>)

Precedes(b, s, l, t) ==
    /\ l \in Label /\ s.labels = << l >> \o t.labels
    /\ Holds(b, s.off, Piece(l))
    /\ t.off = s.off + (1 + Len(l)) /\ s.hops = t.hops /\ s.end = t.end

PointsTo(b, s, t) ==
    /\ s.labels = t.labels /\ s.hops = t.hops + 1 /\ s.end = s.off + 2
    /\ Holds(b, s.off, Pointer(t.off))
    /\ t.off < s.off /\ t.off < PointerSpan

Continues(b, P, s) ==
    \/ IsRoot(b, s)
    \/ \E t \in P, l \in Label : Precedes(b, s, l, t)
    \/ \E t \in P : PointsTo(b, s, t)

Sound(b, P) == P \subseteq Place /\ \A s \in P : Continues(b, P, s)

Spelled(b, s) == \E P : Sound(b, P) /\ s \in P

LEMMA SoundMore ==
    ASSUME NEW b \in Octets, NEW y \in Octets, NEW P, Sound(b, P)
    PROVE  Sound(b \o y, P)
<1> DEFINE c == b \o y
<1>2. ASSUME NEW t \in P PROVE Continues(c, P, t)
  <2>1. t \in Place /\ Continues(b, P, t)
    BY DEF Sound
  <2>2. t.off \in Nat
    BY <2>1 DEF Place
  <2>3. CASE IsRoot(b, t)
    <3>1. << 0 >> \in Octets
      BY OneElement DEF Octets, Byte
    <3>2. Holds(c, t.off, << 0 >>)
      BY <2>2, <2>3, <3>1, HoldsMore DEF IsRoot
    <3> QED
      BY <2>3, <3>2 DEF IsRoot, Continues
  <2>4. ASSUME NEW u \in P, NEW l \in Label, Precedes(b, t, l, u) PROVE Continues(c, P, t)
    <3>1. Holds(c, t.off, Piece(l))
      BY <2>2, <2>4, PieceOctets, HoldsMore DEF Precedes
    <3> HIDE DEF c
    <3>2. Precedes(c, t, l, u)
      BY <2>4, <3>1 DEF Precedes
    <3> QED
      BY <3>2 DEF Continues
  <2>5. ASSUME NEW u \in P, PointsTo(b, t, u) PROVE Continues(c, P, t)
    <3>1. u.off \in Nat
      BY DEF Sound, Place
    <3>2. Holds(c, t.off, Pointer(u.off))
      BY <2>2, <2>5, <3>1, PointerOctets, HoldsMore DEF PointsTo
    <3> HIDE DEF c
    <3>3. PointsTo(c, t, u)
      BY <2>5, <3>2 DEF PointsTo
    <3> QED
      BY <3>3 DEF Continues
  <2> QED
    BY <2>1, <2>3, <2>4, <2>5 DEF Continues
<1> QED
  BY <1>2 DEF Sound

LEMMA SpelledMore ==
    ASSUME NEW b \in Octets, NEW y \in Octets, NEW s, Spelled(b, s)
    PROVE  Spelled(b \o y, s)
BY SoundMore DEF Spelled

\* Where the walk over a name spelled at s is.
RestOf(w, s, t) ==
    /\ t.off = w.pos /\ w.labels \o t.labels = s.labels
    /\ w.hops + t.hops = s.hops
    /\ w.total + Len(WireLabels(t.labels)) = Len(WireLabels(s.labels))
    /\ (IF w.jumped THEN w.end ELSE t.end) = s.end

OnTrack(P, s, w) ==
    /\ w \in WalkState
    /\ w.at \in {"walk", "nil", "loop"}
    /\ w.at = "walk" => \E t \in P : RestOf(w, s, t)
    /\ w.at = "nil"  => w.labels = s.labels /\ w.end = s.end
    /\ w.at = "loop" => s.hops > MaxPointerHops

LEMMA OnTrackStarts ==
    ASSUME NEW P, P \subseteq Place, NEW s \in P
    PROVE  OnTrack(P, s, WalkFrom(s.off))
<1> DEFINE w == WalkFrom(s.off)
<1>1. s.off \in Nat /\ s.hops \in Nat /\ s.labels \in Seq(Label)
  BY DEF Place
<1>2. /\ w.at = "walk" /\ w.pos = s.off /\ w.hops = 0 /\ w.jumped = FALSE
      /\ w.total = 0 /\ w.labels = << >>
  BY DEF WalkFrom
<1>3. w \in WalkState
  BY <1>1, EmptySeq DEF WalkFrom, WalkState
<1>4. w.labels \o s.labels = s.labels
  BY <1>1, <1>2, ConcatEmptySeq
<1>5. Len(WireLabels(s.labels)) \in Nat
  BY <1>1, WireOctets, OctetsLen
<1> HIDE DEF w
<1>6. RestOf(w, s, s)
  BY <1>1, <1>2, <1>4, <1>5 DEF RestOf
<1>7. OnTrack(P, s, w)
  BY <1>2, <1>3, <1>6 DEF OnTrack
<1> QED
  BY <1>7 DEF w

\* What an iteration does, by the octet it finds.
LEMMA StepByOctet ==
    ASSUME NEW buf \in Octets, NEW w, Stands(buf, w), w.pos + 1 <= Len(buf)
    PROVE  /\ buf[w.pos + 1] = 0 => Ends(buf, w)
           /\ buf[w.pos + 1] \in 192..255 /\ w.pos + 2 <= Len(buf) => Follows(buf, w)
           /\ buf[w.pos + 1] \in 1..63 /\ w.pos + (1 + buf[w.pos + 1]) <= Len(buf) =>
                TakesLabel(buf, w)
<1> DEFINE len  == Len(buf)
           left == Len(buf) - w.pos
           l    == buf[w.pos + 1]
           cut  == [w EXCEPT !.at = "truncated"]
           end  == [w EXCEPT !.at = "nil", !.end = EndAt(w, w.pos + 1)]
           res  == [w EXCEPT !.at = "reserved"]
           next == NameStep(buf, w)
<1>1. /\ len \in Nat /\ w.pos \in Nat /\ w.pos <= len /\ left = len - w.pos
      /\ w.pos + 1 <= len
  BY OctetsLen DEF Stands
<1>2. l \in 0..255
  <2>1. w.pos + 1 \in 1..Len(buf)
    BY <1>1
  <2> QED
    BY <2>1, OctetAt
<1>3. next =
        CASE left < 1             -> cut
          [] left >= 1 /\ l = 0   -> end
          [] left = 1 /\ l >= 192 -> cut
          [] left > 1 /\ l >= 192 -> FollowPointer(buf, w)
          [] left >= 1 /\ l \in 64..191 -> res
          [] left >= 1 /\ l \in 1..63   -> IF left < 1 + l THEN cut ELSE TakeLabel(buf, w)
  BY DEF NameStep, Stands
<1>4. /\ w.pos < len /\ l = 0 /\ next = end => Ends(buf, w)
      /\ w.pos + 1 < len /\ l \in 192..255 /\ next = FollowPointer(buf, w) => Follows(buf, w)
      /\ w.pos + 1 + l <= len /\ l \in 1..63 /\ next = TakeLabel(buf, w) => TakesLabel(buf, w)
  BY DEF Ends, Follows, TakesLabel
<1> SUFFICES /\ l = 0 => Ends(buf, w)
             /\ l \in 192..255 /\ w.pos + 2 <= len => Follows(buf, w)
             /\ l \in 1..63 /\ w.pos + (1 + l) <= len => TakesLabel(buf, w)
  OBVIOUS
<1> HIDE DEF len, left, l, cut, end, res, next
<1>5. CASE l = 0
  BY <1>1, <1>3, <1>4, <1>5
<1>6. ASSUME l \in 192..255, w.pos + 2 <= len PROVE Follows(buf, w)
  <2>1. left > 1 /\ l >= 192 /\ w.pos + 1 < len
    BY <1>1, <1>6
  <2>2. ~ (left < 1) /\ ~ (left >= 1 /\ l = 0) /\ ~ (left = 1 /\ l >= 192)
    BY <1>1, <1>2, <2>1
  <2>3. ~ (left >= 1 /\ l \in 64..191) /\ ~ (left >= 1 /\ l \in 1..63)
    BY <1>1, <1>2, <2>1
  <2>4. next = FollowPointer(buf, w)
    BY <1>3, <2>1, <2>2, <2>3
  <2> QED
    BY <1>4, <1>6, <2>1, <2>4
<1>7. ASSUME l \in 1..63, w.pos + (1 + l) <= len PROVE TakesLabel(buf, w)
  <2>1. left >= 1 /\ l \in 1..63 /\ w.pos + 1 + l <= len /\ ~ (left < 1 + l)
    BY <1>1, <1>7
  <2>2. /\ ~ (left < 1) /\ ~ (left >= 1 /\ l = 0) /\ ~ (left = 1 /\ l >= 192)
        /\ ~ (left > 1 /\ l >= 192) /\ ~ (left >= 1 /\ l \in 64..191)
    <3>1. l \in Nat /\ l # 0 /\ l < 64 /\ left >= 1 /\ left \in Int
      BY <1>1, <1>7, <2>1
    <3> QED
      BY <3>1
  <2>4. next = TakeLabel(buf, w)
    BY <1>3, <2>1, <2>2
  <2> QED
    BY <1>4, <1>7, <2>1, <2>4
<1> QED
  BY <1>5, <1>6, <1>7

\* Three steps: over the root, over a label, over a pointer.
LEMMA TrackEnds ==
    ASSUME NEW b \in Octets, NEW P, P \subseteq Place, NEW s \in P,
           NEW w \in WalkState, Stands(b, w), NEW t \in P, RestOf(w, s, t), IsRoot(b, t)
    PROVE  OnTrack(P, s, NameStep(b, w))
<1> DEFINE next == NameStep(b, w)
           k    == EndAt(w, w.pos + 1)
<1>1. /\ w.pos \in Nat /\ w.labels \in Seq(Octets) /\ w.end \in Nat
      /\ t.off = w.pos /\ t.labels = << >> /\ t.end = w.pos + 1
  BY DEF WalkState, RestOf, IsRoot
<1>2. b[w.pos + 1] = 0 /\ w.pos + 1 <= Len(b)
  <2> DEFINE z == << 0 >>
  <2>1. Len(z) = 1 /\ z[1] = 0 /\ 1 \in 1..1
    OBVIOUS
  <2>2. Holds(b, w.pos, z)
    BY <1>1 DEF IsRoot
  <2> HIDE DEF z
  <2> QED
    BY <2>1, <2>2 DEF Holds
<1>3. EndsIn(w, k, next)
  BY <1>2, StepByOctet DEF Ends, EndsIn
<1>4. w.labels = s.labels
  <2>1. w.labels \o t.labels = s.labels
    BY DEF RestOf
  <2> QED
    BY <1>1, <2>1, ConcatEmptySeq
<1>5. k \in Nat /\ k = s.end
  BY <1>1 DEF EndAt, RestOf
<1> HIDE DEF k, next
<1>6. next \in WalkState /\ next.at = "nil" /\ next.end = k /\ next.labels = w.labels
  BY <1>3, <1>5, StateEnds
<1>7. OnTrack(P, s, next)
  BY <1>4, <1>5, <1>6 DEF OnTrack
<1> QED
  BY <1>7 DEF next

LEMMA TrackTakes ==
    ASSUME NEW b \in Octets, NEW P, P \subseteq Place, NEW s \in P,
           Len(WireLabels(s.labels)) + 1 <= MaxNameWire,
           NEW w \in WalkState, Stands(b, w), NEW t \in P, RestOf(w, s, t),
           NEW u \in P, NEW x \in Label, Precedes(b, t, x, u)
    PROVE  OnTrack(P, s, NameStep(b, w))
<1> DEFINE next == NameStep(b, w)
           n    == Len(x)
           rest == Len(WireLabels(u.labels))
           full == Len(WireLabels(s.labels))
           pc   == Piece(x)
           len  == Len(b)
<1>1. /\ w.pos \in Nat /\ w.labels \in Seq(Octets) /\ w.end \in Nat /\ w.total \in Nat
      /\ w.hops \in Nat /\ w.at = "walk"
      /\ t.off = w.pos /\ t.labels = << x >> \o u.labels /\ u.off = w.pos + (1 + n)
      /\ t.hops = u.hops /\ t.end = u.end
      /\ u.labels \in Seq(Label) /\ s.labels \in Seq(Label) /\ MaxNameWire \in Nat
  <2>1. /\ w.pos \in Nat /\ w.labels \in Seq(Octets) /\ w.end \in Nat /\ w.total \in Nat
        /\ w.hops \in Nat
    BY DEF WalkState
  <2>2. w.at = "walk"
    BY DEF Stands
  <2>3. t.off = w.pos
    BY DEF RestOf
  <2>4. /\ t.labels = << x >> \o u.labels /\ u.off = t.off + (1 + n)
        /\ t.hops = u.hops /\ t.end = u.end
    BY DEF Precedes
  <2>5. u \in Place /\ s \in Place
    OBVIOUS
  <2>6. u.labels \in Seq(Label) /\ s.labels \in Seq(Label)
    BY <2>5 DEF Place
  <2> QED
    BY <2>1, <2>2, <2>3, <2>4, <2>6, WireAssumption
<1>2. /\ x \in Octets /\ n \in 1..63 /\ n \in Nat
      /\ pc \in Octets /\ Len(pc) = 1 + n /\ pc = << n >> \o x
      /\ << n >> \in Octets
  BY PieceOctets DEF Piece
<1>3. Holds(b, w.pos, pc)
  BY <1>1 DEF Precedes
<1>4. Holds(b, w.pos, << n >>) /\ Holds(b, w.pos + 1, x)
  <2> DEFINE z == << n >>
  <2>1. Len(z) = 1
    OBVIOUS
  <2>2. z \in Octets /\ pc = z \o x
    BY <1>2
  <2> HIDE DEF z, pc, n
  <2>3. Holds(b, w.pos, z) /\ Holds(b, w.pos + Len(z), x)
    <3> DEFINE p == w.pos
    <3>1. p \in Nat /\ x \in Octets /\ Holds(b, p, z \o x)
      BY <1>1, <1>2, <1>3, <2>2
    <3> HIDE DEF p
    <3>2. Holds(b, p, z) /\ Holds(b, p + Len(z), x)
      BY <2>2, <3>1, HoldsJoin
    <3> QED
      BY <3>2 DEF p
  <2> QED
    BY <2>1, <2>3 DEF z
<1>5. b[w.pos + 1] = n
  <2> DEFINE z == << n >>
  <2>1. Len(z) = 1 /\ z[1] = n /\ 1 \in 1..1
    OBVIOUS
  <2>2. Holds(b, w.pos, z)
    BY <1>4
  <2> HIDE DEF z, n
  <2> QED
    BY <2>1, <2>2 DEF Holds
<1>6. SubSeq(b, w.pos + 2, w.pos + 1 + n) = x
  <2> DEFINE p == w.pos
  <2>11. p \in Nat
    BY <1>1
  <2> HIDE DEF p
  <2>12. p + 1 \in Nat /\ p + 1 + 1 = p + 2
    BY <2>11
  <2>1. w.pos + 1 \in Nat /\ w.pos + 1 + 1 = w.pos + 2
    BY <2>12 DEF p
  <2>2. SubSeq(b, w.pos + 1 + 1, w.pos + 1 + Len(x)) = x
    BY <1>2, <1>4, <2>1, HoldsPart
  <2> QED
    BY <2>1, <2>2
<1>7. len \in Nat /\ w.pos + (1 + n) <= len
  BY <1>2, <1>3, OctetsLen DEF Holds
<1>8. w.total + (1 + n + rest) = full /\ rest \in Nat
  <2> DEFINE y == << x >>
             z == u.labels
             wl == Len(WireLabels(y \o z))
  <2>1. y \in Seq(Label) /\ WireLabels(y) = pc /\ z \in Seq(Label)
    BY <1>1, WireOne
  <2>2. wl = Len(pc) + rest /\ rest \in Nat
    <3> HIDE DEF y, z, pc
    <3>1. Len(WireLabels(y \o z)) = Len(WireLabels(y)) + Len(WireLabels(z))
      BY <2>1, WireConcat
    <3>2. Len(WireLabels(z)) \in Nat
      BY <2>1, WireOctets, OctetsLen
    <3> QED
      BY <2>1, <3>1, <3>2 DEF z
  <2>3. w.total + wl = full
    BY <1>1 DEF RestOf
  <2> HIDE DEF wl, rest, full, pc
  <2> QED
    BY <1>2, <2>2, <2>3
<1>9. w.total + n + 1 <= MaxNameWire
  <2> HIDE DEF full, rest, n
  <2>1. full + 1 <= MaxNameWire
    BY DEF full
  <2> QED
    BY <1>1, <1>2, <1>8, <2>1
<1>10. TakesOn(w, n, x, next)
  <2> HIDE DEF n, len
  <2>1. TakesLabel(b, w)
    <3>1. w.pos + 1 <= len
      <4>1. w.pos \in Nat /\ n \in Nat /\ w.pos + (1 + n) <= len /\ len \in Nat
        BY <1>1, <1>2, <1>7
      <4> QED
        BY <4>1
    <3>2. b[w.pos + 1] \in 1..63 /\ w.pos + (1 + b[w.pos + 1]) <= Len(b)
      BY <1>2, <1>5, <1>7 DEF len
    <3>3. w.pos + 1 <= Len(b)
      BY <3>1 DEF len
    <3> QED
      BY <3>2, <3>3, StepByOctet
  <2>2. PICK l \in 1..63, y \in Octets : Labels(b, w, l, y, next)
    BY <2>1, WalkTakes
  <2> HIDE DEF next
  <2>3. l = n /\ y = x
    BY <1>5, <1>6, <2>2 DEF Labels
  <2>4. \/ w.total + n + 1 > MaxNameWire
        \/ TakesOn(w, n, x, next)
    BY <2>2, <2>3 DEF Labels
  <2> QED
    BY <1>1, <1>2, <1>9, <2>4
<1> HIDE DEF n, next, rest, full, pc, len
<1>11. /\ next \in WalkState /\ next.at = "walk" /\ next.pos = w.pos + 1 + n
       /\ next.hops = w.hops /\ next.jumped = w.jumped
       /\ next.total = w.total + n + 1
       /\ next.labels = Append(w.labels, x) /\ next.end = w.end
  <2>1. w \in WalkState /\ n \in Nat /\ x \in Octets /\ TakesOn(w, n, x, next)
    BY <1>2, <1>10
  <2>2. /\ next \in WalkState /\ next.at = w.at /\ next.pos = w.pos + 1 + n
        /\ next.hops = w.hops /\ next.jumped = w.jumped
        /\ next.total = w.total + n + 1
        /\ next.labels = Append(w.labels, x) /\ next.end = w.end
    BY <2>1, StateTakes, SMTT(30)
  <2> QED
    BY <1>1, <2>2
<1>12. next.labels \o u.labels = s.labels
  <2> DEFINE y == << x >>
             z == u.labels
             v == w.labels
  <2>1. v \o (y \o z) = s.labels
    BY <1>1 DEF RestOf
  <2>2. y \in Seq(Octets) /\ z \in Seq(Octets) /\ v \in Seq(Octets)
    <3>1. \A l \in Label : l \in Octets
      BY DEF Label
    <3>2. z \in Seq(Octets)
      BY <1>1, <3>1
    <3> QED
      BY <1>1, <1>2, <3>2, OneElement
  <2>3. next.labels = v \o y
    BY <1>2, <1>11, <2>2, AppendIsConcat
  <2> HIDE DEF y, z, v
  <2>4. (v \o y) \o z = v \o (y \o z)
    BY <2>2, ConcatAssociative
  <2> QED
    BY <2>1, <2>3, <2>4 DEF z
<1>13. u.off = next.pos /\ next.hops + u.hops = s.hops
       /\ (IF next.jumped THEN next.end ELSE u.end) = s.end
  <2>1. u.off = next.pos
    <3>1. w.pos \in Nat /\ n \in Nat /\ u.off = w.pos + (1 + n) /\ next.pos = w.pos + 1 + n
      BY <1>1, <1>2, <1>11
    <3> QED
      BY <3>1
  <2>2. next.hops + u.hops = s.hops
    <3>1. next.hops = w.hops /\ t.hops = u.hops /\ w.hops + t.hops = s.hops
      BY <1>1, <1>11 DEF RestOf
    <3> QED
      BY <3>1
  <2>3. (IF next.jumped THEN next.end ELSE u.end) = s.end
    <3>1. /\ next.jumped = w.jumped /\ next.end = w.end /\ u.end = t.end
          /\ (IF w.jumped THEN w.end ELSE t.end) = s.end
      BY <1>1, <1>11 DEF RestOf
    <3> QED
      BY <3>1
  <2> QED
    BY <2>1, <2>2, <2>3
<1>14. next.total + Len(WireLabels(u.labels)) = Len(WireLabels(s.labels))
  <2>1. next.total + rest = full
    BY <1>1, <1>2, <1>8, <1>11
  <2> QED
    BY <2>1 DEF rest, full
<1>15. RestOf(next, s, u)
  BY <1>12, <1>13, <1>14 DEF RestOf
<1>16. OnTrack(P, s, next)
  BY <1>11, <1>15 DEF OnTrack
<1> QED
  BY <1>16 DEF next

LEMMA TrackJumps ==
    ASSUME NEW b \in Octets, NEW P, P \subseteq Place, NEW s \in P,
           NEW w \in WalkState, Stands(b, w), NEW t \in P, RestOf(w, s, t),
           NEW u \in P, PointsTo(b, t, u)
    PROVE  OnTrack(P, s, NameStep(b, w))
<1> DEFINE next == NameStep(b, w)
           len  == Len(b)
           ptr  == Pointer(u.off)
           k    == EndAt(w, w.pos + 2)
<1>1. /\ w.pos \in Nat /\ w.labels \in Seq(Octets) /\ w.end \in Nat /\ w.total \in Nat
      /\ w.hops \in Nat /\ w.at = "walk" /\ MaxPointerHops \in Nat
      /\ t.off = w.pos /\ t.labels = u.labels /\ t.hops = u.hops + 1 /\ t.end = w.pos + 2
      /\ u.hops \in Nat /\ u.off \in Nat /\ s.hops \in Nat
      /\ u.off < w.pos /\ u.off < PointerSpan
  BY WireAssumption DEF WalkState, RestOf, PointsTo, Place, Stands
<1>2. /\ ptr \in Octets /\ Len(ptr) = 2 /\ ptr[1] \in 192..255 /\ ptr[2] \in Byte
      /\ (ptr[1] - 192) * 256 + ptr[2] = u.off
  BY <1>1, PointerOctets
<1>3. Holds(b, w.pos, ptr)
  BY <1>1 DEF PointsTo
<1>4. b[w.pos + 1] = ptr[1] /\ b[w.pos + 2] = ptr[2] /\ w.pos + 2 <= Len(b)
  <2> HIDE DEF ptr
  <2>1. 1 \in 1..2 /\ 2 \in 1..2
    OBVIOUS
  <2> QED
    BY <1>2, <1>3, <2>1 DEF Holds
<1>5. Follows(b, w)
  <2>1. w.pos + 1 <= Len(b)
    <3>1. len \in Nat /\ w.pos + 2 <= len
      BY <1>4, OctetsLen
    <3> HIDE DEF len
    <3>2. w.pos + 1 <= len
      BY <1>1, <3>1
    <3> QED
      BY <3>2 DEF len
  <2>2. b[w.pos + 1] \in 192..255
    BY <1>2, <1>4
  <2> QED
    BY <1>4, <2>1, <2>2, StepByOctet
<1>6. PICK off \in Nat : Jumps(b, w, off, next)
  BY <1>5, WalkJumps
<1> HIDE DEF next, len
<1>7. off = u.off
  <2>1. off = (b[w.pos + 1] - 192) * 256 + b[w.pos + 2]
    BY <1>6 DEF Jumps
  <2> HIDE DEF ptr
  <2> QED
    BY <1>2, <1>4, <2>1
<1>8. w.hops + t.hops = s.hops /\ w.labels \o u.labels = s.labels
      /\ w.total + Len(WireLabels(u.labels)) = Len(WireLabels(s.labels))
      /\ (IF w.jumped THEN w.end ELSE t.end) = s.end
  BY <1>1 DEF RestOf
<1>9. k \in Nat /\ k = s.end
  BY <1>1, <1>8 DEF EndAt
<1>10. CASE w.hops + 1 > MaxPointerHops /\ next = [w EXCEPT !.at = "loop"]
  <2>1. next \in WalkState /\ next.at = "loop"
    BY <1>10, StateStops DEF Failures
  <2>2. s.hops > MaxPointerHops
    BY <1>1, <1>8, <1>10
  <2>3. OnTrack(P, s, next)
    BY <2>1, <2>2 DEF OnTrack
  <2> QED
    BY <2>3 DEF next
<1>11. CASE JumpsTo(w, k, off, next)
  <2> HIDE DEF k
  <2>1. /\ next \in WalkState /\ next.at = w.at /\ next.pos = off
        /\ next.hops = w.hops + 1 /\ next.jumped /\ next.total = w.total
        /\ next.labels = w.labels /\ next.end = k
    BY <1>9, <1>11, StateJumps, SMTT(30)
  <2>2. next.hops + u.hops = s.hops
    <3>1. w.hops \in Nat /\ u.hops \in Nat
      BY <1>1
    <3>2. next.hops = w.hops + 1 /\ t.hops = u.hops + 1 /\ w.hops + t.hops = s.hops
      BY <1>1, <1>8, <2>1
    <3> QED
      BY <3>1, <3>2
  <2>3. RestOf(next, s, u)
    BY <1>7, <1>8, <1>9, <2>1, <2>2 DEF RestOf
  <2>4. OnTrack(P, s, next)
    BY <1>1, <2>1, <2>3 DEF OnTrack
  <2> QED
    BY <2>4 DEF next
<1>12. ~ (off >= w.pos)
  BY <1>1, <1>7
<1>13. \/ w.hops + 1 > MaxPointerHops /\ next = [w EXCEPT !.at = "loop"]
       \/ JumpsTo(w, k, off, next)
  BY <1>6, <1>12 DEF Jumps
<1> QED
  BY <1>10, <1>11, <1>13

LEMMA PlaceWithin ==
    ASSUME NEW b \in Octets, NEW P, Sound(b, P), NEW t \in P
    PROVE  t.off \in 0..Len(b) /\ t.off < Len(b) /\ t.off \in Nat
<1> DEFINE len == Len(b)
<1>1. t \in Place /\ t.off \in Nat /\ Continues(b, P, t) /\ P \subseteq Place
  BY DEF Sound, Place
<1>2. len \in Nat
  BY OctetsLen
<1>3. \A x : Len(x) \in Nat \ {0} /\ Holds(b, t.off, x) => t.off < len
  <2> TAKE x
  <2> HAVE Len(x) \in Nat \ {0} /\ Holds(b, t.off, x)
  <2> DEFINE n == Len(x)
  <2>1. n \in Nat \ {0} /\ t.off + n <= len
    BY DEF Holds
  <2> HIDE DEF n, len
  <2> QED
    BY <1>1, <1>2, <2>1
<1>4. CASE IsRoot(b, t)
  <2>1. Len(<< 0 >>) \in Nat \ {0}
    OBVIOUS
  <2>2. t.off < len
    BY <1>3, <1>4, <2>1 DEF IsRoot
  <2> QED
    BY <1>1, <2>2
<1>5. ASSUME NEW u \in P, NEW l \in Label, Precedes(b, t, l, u) PROVE t.off < len
  <2> DEFINE n == Len(Piece(l))
             m == Len(l)
  <2>1. m \in Nat /\ n = 1 + m
    BY PieceOctets
  <2> HIDE DEF n, m
  <2>2. n \in Nat \ {0}
    BY <2>1
  <2> QED
    BY <1>3, <1>5, <2>2 DEF Precedes, n
<1>6. ASSUME NEW u \in P, PointsTo(b, t, u) PROVE t.off < len
  <2>1. u.off \in Nat
    BY <1>1 DEF Place
  <2>2. Len(Pointer(u.off)) \in Nat \ {0}
    BY <2>1, PointerOctets
  <2> QED
    BY <1>3, <1>6, <2>2 DEF PointsTo
<1>7. t.off < len
  BY <1>1, <1>4, <1>5, <1>6 DEF Continues
<1> HIDE DEF len
<1>8. t.off \in 0..len
  BY <1>1, <1>2, <1>7
<1> QED
  BY <1>1, <1>7, <1>8 DEF len

LEMMA TrackGoesOn ==
    ASSUME NEW b \in Octets, NEW P, Sound(b, P), NEW s \in P,
           Len(WireLabels(s.labels)) + 1 <= MaxNameWire, NEW w, OnTrack(P, s, w)
    PROVE  OnTrack(P, s, NameStep(b, w))
<1>1. P \subseteq Place /\ w \in WalkState
  BY DEF Sound, OnTrack
<1>2. CASE w.at # "walk"
  <2>1. NameStep(b, w) = w
    BY <1>2 DEF NameStep
  <2> QED
    BY <2>1
<1>3. CASE w.at = "walk"
  <2>1. PICK t \in P : RestOf(w, s, t)
    BY <1>3 DEF OnTrack
  <2>2. Stands(b, w)
    BY <1>3, <2>1, PlaceWithin DEF Stands, RestOf
  <2>3. Continues(b, P, t)
    BY DEF Sound
  <2>4. CASE IsRoot(b, t)
    BY <1>1, <2>1, <2>2, <2>4, TrackEnds
  <2>5. ASSUME NEW u \in P, NEW l \in Label, Precedes(b, t, l, u)
        PROVE  OnTrack(P, s, NameStep(b, w))
    BY <1>1, <2>1, <2>2, <2>5, TrackTakes
  <2>6. ASSUME NEW u \in P, PointsTo(b, t, u)
        PROVE  OnTrack(P, s, NameStep(b, w))
    BY <1>1, <2>1, <2>2, <2>6, TrackJumps
  <2> QED
    BY <2>3, <2>4, <2>5, <2>6 DEF Continues
<1> QED
  BY <1>2, <1>3

\* A name that is spelled is read, unless it takes too many hops.
LEMMA SpelledReads ==
    ASSUME NEW b \in Octets, NEW s, Spelled(b, s),
           Len(WireLabels(s.labels)) + 1 <= MaxNameWire
    PROVE  /\ GoodName(b, s.off) =>
                NameEnd(b, s.off) = s.end /\ NameOf(b, s.off) = ToLower(Join(s.labels))
           /\ s.hops <= MaxPointerHops => GoodName(b, s.off)
<1>1. PICK P : Sound(b, P) /\ s \in P
  BY DEF Spelled
<1>2. PICK f : /\ Walks(f, b, WalkFrom(s.off), WalkBound)
               /\ Walk(b, s.off) = f[WalkBound]
  BY WalkIs
<1>3. WalkBound \in Nat
  BY WireAssumption DEF WalkBound
<1> DEFINE G == {i \in Nat : i <= WalkBound => OnTrack(P, s, f[i])}
<1>4. 0 \in G
  <2>1. 0 \in 0..WalkBound
    BY <1>3
  <2>2. f[0] = WalkFrom(s.off)
    BY <1>2, <1>3, <2>1, WalksAt
  <2> QED
    BY <1>1, <2>2, OnTrackStarts DEF Sound
<1>5. ASSUME NEW i \in Nat, i \in G PROVE i + 1 \in G
  <2> SUFFICES ASSUME i + 1 <= WalkBound PROVE OnTrack(P, s, f[i + 1])
    OBVIOUS
  <2> DEFINE k == i + 1
  <2>1. k \in 0..WalkBound /\ k # 0 /\ k - 1 = i /\ i <= WalkBound
    BY <1>3
  <2> HIDE DEF k
  <2>2. f[k] = NameStep(b, f[k - 1])
    BY <1>2, <1>3, <2>1, WalksAt
  <2>3. f[i + 1] = NameStep(b, f[i])
    BY <2>1, <2>2 DEF k
  <2>4. OnTrack(P, s, f[i])
    BY <1>5, <2>1
  <2> QED
    BY <1>1, <2>3, <2>4, TrackGoesOn
<1> HIDE DEF G
<1>6. WalkBound \in G
  BY <1>3, <1>4, <1>5, Induction
<1>7. OnTrack(P, s, Walk(b, s.off))
  BY <1>2, <1>3, <1>6 DEF G
<1>8. s.off \in 0..Len(b) /\ s.off <= Len(b)
  <2> DEFINE len == Len(b)
  <2>1. s.off \in 0..len /\ s.off < len /\ s.off \in Nat /\ len \in Nat
    BY <1>1, PlaceWithin, OctetsLen
  <2> HIDE DEF len
  <2>2. s.off <= len
    BY <2>1
  <2> QED
    BY <2>1, <2>2 DEF len
<1> DEFINE w == Walk(b, s.off)
<1>9. Walked(Len(b), s.off, w)
  BY <1>8, WalkEnding
<1> HIDE DEF w
<1>10. w.at = "nil" \/ w.at = "loop"
  BY <1>7, <1>9 DEF OnTrack, Walked, Failures, w
<1>11. w.at = "nil" => w.labels = s.labels /\ w.end = s.end
  BY <1>7 DEF OnTrack, w
<1>12. w.at = "loop" => s.hops > MaxPointerHops
  BY <1>7 DEF OnTrack, w
<1>13. GoodName(b, s.off) <=> w.at = "nil"
  BY <1>8 DEF GoodName, w
<1>14. ASSUME GoodName(b, s.off)
       PROVE  NameEnd(b, s.off) = s.end /\ NameOf(b, s.off) = ToLower(Join(s.labels))
  BY <1>11, <1>13, <1>14 DEF NameEnd, NameOf, w
<1>15. ASSUME s.hops <= MaxPointerHops PROVE GoodName(b, s.off)
  <2>1. s.hops \in Nat /\ MaxPointerHops \in Nat
    BY <1>1, WireAssumption DEF Sound, Place
  <2> QED
    BY <1>10, <1>12, <1>13, <1>15, <2>1
<1> QED
  BY <1>14, <1>15

(***************************************************************************)
(* The builder: every suffix it remembers is spelled where it says.        *)
(***************************************************************************)
Suffix(labels, i) == SubSeq(labels, i, Len(labels))

LEMMA WireParts ==
    ASSUME NEW x \in Seq(Label), NEW i \in 1..Len(x)
    PROVE  /\ x[i] \in Label /\ i \in Nat /\ i + 1 - 1 = i
           /\ SubSeq(x, 1, i - 1) \in Seq(Label) /\ SubSeq(x, 1, i) \in Seq(Label)
           /\ Suffix(x, i) \in Seq(Label) /\ Suffix(x, i + 1) \in Seq(Label)
           /\ Suffix(x, i) = << x[i] >> \o Suffix(x, i + 1)
           /\ WireLabels(x) = WireLabels(SubSeq(x, 1, i - 1))
                                \o (Piece(x[i]) \o WireLabels(Suffix(x, i + 1)))
           /\ Len(WireLabels(SubSeq(x, 1, i)))
                = Len(WireLabels(SubSeq(x, 1, i - 1))) + (1 + Len(x[i]))
<1> DEFINE n == Len(x)
           m == i - 1
           a == SubSeq(x, 1, m)
           z == SubSeq(x, i, n)
           y == SubSeq(x, i + 1, n)
           l == x[i]
           o == << l >>
           c == SubSeq(x, 1, i)
<1>1. /\ n \in Nat /\ i \in Nat /\ i >= 1 /\ i <= n /\ m \in Nat /\ m <= n /\ m + 1 = i
      /\ i + 1 - 1 = i
  BY LenProperties
<1>2. l \in Label
  BY <1>1, ElementOfSeq
<1>3. x = a \o z
  <2>1. x = SubSeq(x, 1, m) \o SubSeq(x, m + 1, Len(x))
    BY <1>1, CutInTwo
  <2> QED
    BY <1>1, <2>1
<1>4. /\ a \in Seq(Label) /\ z \in Seq(Label) /\ y \in Seq(Label) /\ c \in Seq(Label)
      /\ Len(z) = n - i + 1
      /\ \A k \in 1..(n - i + 1) : z[k] = x[i + k - 1]
  <2> HIDE DEF n, m
  <2>1. i >= 1 /\ 1 >= 1 /\ i + 1 >= 1 /\ i + 1 \in Nat /\ n <= Len(x) /\ n \in Nat
        /\ m <= Len(x) /\ i <= Len(x)
    BY <1>1 DEF n
  <2>2. a \in Seq(Label) /\ y \in Seq(Label) /\ c \in Seq(Label)
    BY <1>1, <2>1, PartElements
  <2>3. /\ z \in Seq(Label) /\ Len(z) = IF i <= n THEN n - i + 1 ELSE 0
        /\ \A k \in 1..(n - i + 1) : z[k] = x[i + k - 1]
    BY <1>1, <2>1, PartElements
  <2> QED
    BY <1>1, <2>2, <2>3
<1>5. z = o \o y
  <2>1. SubSeq(x, i, i) = o
    <3> DEFINE s == SubSeq(x, i, i)
    <3>1. /\ s \in Seq(Label) /\ Len(s) = IF i <= i THEN i - i + 1 ELSE 0
          /\ \A k \in 1..(i - i + 1) : s[k] = x[i + k - 1]
      BY <1>1, PartElements
    <3>2. i - i + 1 = 1 /\ i + 1 - 1 = i /\ 1 \in 1..1
      BY <1>1
    <3>3. Len(s) = 1 /\ s[1] = l
      BY <3>1, <3>2
    <3>4. o \in Seq(Label) /\ Len(o) = 1 /\ o[1] = l
      BY <1>2, OneElement
    <3> HIDE DEF s, o, l
    <3>5. \A k \in 1..1 : s[k] = o[k]
      BY <3>3, <3>4
    <3> QED
      BY <3>1, <3>3, <3>4, <3>5, SeqEqual DEF s
  <2>2. SubSeq(x, i, i) \o SubSeq(x, i + 1, n) = SubSeq(x, i, n)
    <3> HIDE DEF n
    <3>1. i \in 1..(Len(x) + 1) /\ i \in (i - 1)..Len(x) /\ n \in i..Len(x)
      BY <1>1 DEF n
    <3> QED
      BY <3>1, ConcatAdjacentSubSeq
  <2> QED
    BY <2>1, <2>2
<1>6. o \in Seq(Label) /\ WireLabels(o) = Piece(l)
  BY <1>2, WireOne
<1>7. c = a \o o
  <2>2. SubSeq(x, 1, m) \o SubSeq(x, m + 1, i) = SubSeq(x, 1, i)
    <3> HIDE DEF n, m
    <3>1. 1 \in 1..(Len(x) + 1) /\ m \in (1 - 1)..Len(x) /\ i \in m..Len(x)
      BY <1>1 DEF n
    <3> QED
      BY <3>1, ConcatAdjacentSubSeq
  <2>3. SubSeq(x, m + 1, i) = o
    <3> DEFINE s == SubSeq(x, i, i)
    <3>1. /\ s \in Seq(Label) /\ Len(s) = IF i <= i THEN i - i + 1 ELSE 0
          /\ \A k \in 1..(i - i + 1) : s[k] = x[i + k - 1]
      BY <1>1, PartElements
    <3>2. i - i + 1 = 1 /\ i + 1 - 1 = i /\ 1 \in 1..1
      BY <1>1
    <3>3. Len(s) = 1 /\ s[1] = l
      BY <3>1, <3>2
    <3>4. o \in Seq(Label) /\ Len(o) = 1 /\ o[1] = l
      BY <1>2, OneElement
    <3> HIDE DEF o, l
    <3>5. s = o
      <4> HIDE DEF s
      <4>1. \A k \in 1..1 : s[k] = o[k]
        BY <3>3, <3>4
      <4> QED
        BY <3>1, <3>3, <3>4, <4>1, SeqEqual
    <3> QED
      BY <1>1, <3>5
  <2> QED
    BY <2>2, <2>3
<1> HIDE DEF a, z, y, l, o, c
<1>8. WireLabels(x) = WireLabels(a) \o (Piece(l) \o WireLabels(y))
  <2>1. WireLabels(z) = WireLabels(o) \o WireLabels(y)
    BY <1>4, <1>5, <1>6, WireConcat
  <2>2. WireLabels(x) = WireLabels(a) \o WireLabels(z)
    BY <1>3, <1>4, WireConcat
  <2> QED
    BY <1>6, <2>1, <2>2
<1>9. Len(WireLabels(c)) = Len(WireLabels(a)) + (1 + Len(l))
  <2>1. Len(WireLabels(c)) = Len(WireLabels(a)) + Len(WireLabels(o))
    BY <1>4, <1>6, <1>7, WireConcat
  <2>2. Len(WireLabels(o)) = 1 + Len(l)
    BY <1>2, <1>6, PieceOctets
  <2> QED
    BY <2>1, <2>2
<1> QED
  BY <1>1, <1>2, <1>4, <1>5, <1>8, <1>9 DEF Suffix, a, z, y, l, o, c, m, n

LEMMA PrefixOfPrefix ==
    ASSUME NEW S, NEW s \in Seq(S), NEW n \in Nat, n <= Len(s), NEW m \in Nat, m <= n
    PROVE  /\ SubSeq(s, 1, n) \in Seq(S) /\ Len(SubSeq(s, 1, n)) = n
           /\ \A i \in 1..n : SubSeq(s, 1, n)[i] = s[i]
           /\ SubSeq(SubSeq(s, 1, n), 1, m) = SubSeq(s, 1, m)
<1> DEFINE len == Len(s)
<1>1. ASSUME NEW t \in Seq(S), NEW k \in Nat, k <= Len(t)
      PROVE  /\ SubSeq(t, 1, k) \in Seq(S) /\ Len(SubSeq(t, 1, k)) = k
             /\ \A i \in 1..k : SubSeq(t, 1, k)[i] = t[i]
  <2> DEFINE d == SubSeq(t, 1, k)
  <2>1. 1 \in Nat /\ 1 >= 1
    OBVIOUS
  <2>2. /\ d \in Seq(S) /\ Len(d) = IF 1 <= k THEN k - 1 + 1 ELSE 0
        /\ \A i \in 1..(k - 1 + 1) : d[i] = t[1 + i - 1]
    BY <1>1, <2>1, PartElements
  <2>3. k - 1 + 1 = k /\ \A i \in 1..k : 1 + i - 1 = i
    OBVIOUS
  <2> HIDE DEF d
  <2>4. Len(d) = k
    BY <2>2
  <2> QED
    BY <2>2, <2>3, <2>4 DEF d
<1> DEFINE x == SubSeq(s, 1, n)
           y == SubSeq(x, 1, m)
           z == SubSeq(s, 1, m)
<1>2. x \in Seq(S) /\ Len(x) = n /\ \A i \in 1..n : x[i] = s[i]
  BY <1>1
<1>3. m <= Len(s)
  <2>1. len \in Nat /\ n <= len
    BY LenProperties
  <2> HIDE DEF len
  <2>2. m <= len
    BY <2>1
  <2> QED
    BY <2>2 DEF len
<1>4. z \in Seq(S) /\ Len(z) = m /\ \A i \in 1..m : z[i] = s[i]
  BY <1>1, <1>3
<1>5. y \in Seq(S) /\ Len(y) = m /\ \A i \in 1..m : y[i] = x[i]
  <2> HIDE DEF x
  <2> QED
    BY <1>1, <1>2
<1> HIDE DEF x, y, z
<1>6. \A i \in 1..m : y[i] = z[i]
  <2> SUFFICES ASSUME NEW i \in 1..m PROVE y[i] = z[i]
    OBVIOUS
  <2>1. i \in 1..n
    OBVIOUS
  <2> QED
    BY <1>2, <1>4, <1>5, <2>1
<1>7. y = z
  BY <1>4, <1>5, <1>6, SeqEqual
<1> QED
  BY <1>2, <1>7 DEF x, y, z

Pl(off, labels, hops, end) ==
    [off |-> off, labels |-> labels, hops |-> hops, end |-> end]

LEMMA PlIs ==
    ASSUME NEW off, NEW labels, NEW hops, NEW end
    PROVE  /\ Pl(off, labels, hops, end).off = off
           /\ Pl(off, labels, hops, end).labels = labels
           /\ Pl(off, labels, hops, end).hops = hops
           /\ Pl(off, labels, hops, end).end = end
BY DEF Pl

LEMMA PlPlace ==
    ASSUME NEW off \in Nat, NEW labels \in Seq(Label), NEW hops \in Nat, NEW end \in Nat
    PROVE  Pl(off, labels, hops, end) \in Place
BY DEF Pl, Place

\* The offset of the i-th label of a name that is put after the octets o.
OffsetOf(o, labels, i) == Len(o) + Len(WireLabels(SubSeq(labels, 1, i - 1)))

LEMMA OffsetType ==
    ASSUME NEW o \in Octets, NEW labels \in Seq(Label), NEW i \in 1..(Len(labels) + 1)
    PROVE  /\ OffsetOf(o, labels, i) \in Nat /\ Len(o) <= OffsetOf(o, labels, i)
           /\ OffsetOf(o, labels, 1) = Len(o)
           /\ Suffix(labels, i) \in Seq(Label) /\ Suffix(labels, 1) = labels
           /\ Suffix(labels, Len(labels) + 1) = << >>
<1> DEFINE a == SubSeq(labels, 1, i - 1)
           e == SubSeq(labels, 1, 1 - 1)
           k == Len(WireLabels(a))
           len == Len(labels)
<1>1. len \in Nat /\ i - 1 \in Nat /\ i - 1 <= len /\ i \in Nat /\ i >= 1
  BY LenProperties
<1>2. Len(o) \in Nat
  BY OctetsLen
<1>3. a \in Seq(Label)
  <2> HIDE DEF len
  <2>1. i - 1 <= Len(labels)
    BY <1>1 DEF len
  <2> QED
    BY <1>1, <2>1, PrefixOfPrefix
<1>4. k \in Nat
  <2> HIDE DEF a
  <2> QED
    BY <1>3, WireOctets, OctetsLen
<1>5. e = << >>
  <2>1. Len(e) = 0 /\ e \in Seq(Label)
    <3>1. 0 \in Nat /\ 0 <= Len(labels) /\ 1 - 1 = 0 /\ 0 <= 0
      BY <1>1 DEF len
    <3> QED
      BY <3>1, PrefixOfPrefix
  <2> HIDE DEF e
  <2> QED
    BY <2>1, EmptySeq
<1>6. OffsetOf(o, labels, 1) = Len(o)
  <2>1. OffsetOf(o, labels, 1) = Len(o) + Len(WireLabels(e))
    BY DEF OffsetOf
  <2>2. Len(WireLabels(e)) = 0
    BY <1>5, WireEmpty
  <2> QED
    BY <1>2, <2>1, <2>2
<1>7. OffsetOf(o, labels, i) = Len(o) + k
  BY DEF OffsetOf
<1>8. Suffix(labels, i) \in Seq(Label) /\ Suffix(labels, len + 1) = << >>
  <2> HIDE DEF len
  <2>1. len <= Len(labels) /\ len + 1 >= 1 /\ len + 1 \in Nat /\ ~ (len + 1 <= len)
    BY <1>1 DEF len
  <2>2. SubSeq(labels, i, len) \in Seq(Label)
    BY <1>1, <2>1, PartElements
  <2> DEFINE z == SubSeq(labels, len + 1, len)
  <2>3. z \in Seq(Label) /\ Len(z) = IF len + 1 <= len THEN len - (len + 1) + 1 ELSE 0
    BY <1>1, <2>1, PartElements
  <2>4. Len(z) = 0
    BY <2>1, <2>3
  <2> HIDE DEF z
  <2>5. z = << >>
    BY <2>3, <2>4, EmptySeq
  <2> QED
    BY <2>2, <2>5 DEF Suffix, len, z
<1>9. Suffix(labels, 1) = labels
  BY SubSeqFull DEF Suffix
<1> HIDE DEF k
<1> QED
  BY <1>2, <1>4, <1>6, <1>7, <1>8, <1>9 DEF len

\* The places of a name: as many labels as are new, and then an ending.
LEMMA NameSpelled ==
    ASSUME NEW o \in Octets, NEW P, Sound(o, P), NEW labels \in Seq(Label),
           NEW stop \in 1..(Len(labels) + 1), NEW h \in Nat, NEW e \in Nat,
           NEW tail \in Octets, NEW c,
           c = o \o (WireLabels(SubSeq(labels, 1, stop - 1)) \o tail),
           Continues(c, P, Pl(OffsetOf(o, labels, stop), Suffix(labels, stop), h, e))
    PROVE  \A i \in 1..stop :
             Spelled(c, Pl(OffsetOf(o, labels, i), Suffix(labels, i), h, e))
<1> DEFINE own(i) == Pl(OffsetOf(o, labels, i), Suffix(labels, i), h, e)
           owns   == {own(i) : i \in 1..stop}
           Q      == P \cup owns
           x      == SubSeq(labels, 1, stop - 1)
           wx     == WireLabels(x)
           len    == Len(labels)
<1>1. /\ stop - 1 \in Nat /\ stop - 1 <= len /\ len \in Nat /\ stop \in Nat
      /\ \A i \in 1..stop : i \in 1..(len + 1)
  BY LenProperties
<1>2. x \in Seq(Label) /\ Len(x) = stop - 1
  BY <1>1, PrefixOfPrefix
<1>3. wx \in Octets /\ wx \o tail \in Octets /\ c \in Octets
  <2>1. wx \in Octets
    BY <1>2, WireOctets
  <2> HIDE DEF wx
  <2>2. wx \o tail \in Octets
    BY <2>1, JoinOctets
  <2>3. c = o \o (wx \o tail)
    BY DEF wx
  <2> QED
    BY <2>1, <2>2, <2>3, JoinOctets
<1>4. Sound(c, P)
  <2> DEFINE y == wx \o tail
  <2>1. y \in Octets /\ c = o \o y
    BY <1>3
  <2> HIDE DEF y
  <2> QED
    BY <2>1, SoundMore
<1>5. ASSUME NEW i \in 1..stop PROVE own(i) \in Place
  <2>1. i \in 1..(Len(labels) + 1)
    BY <1>1
  <2>2. OffsetOf(o, labels, i) \in Nat /\ Suffix(labels, i) \in Seq(Label)
    BY <2>1, OffsetType
  <2> QED
    BY <2>2, PlPlace
<1>6. ASSUME NEW i \in 1..(stop - 1) PROVE Precedes(c, own(i), labels[i], own(i + 1))
  <2> DEFINE l == labels[i]
             a == SubSeq(labels, 1, i - 1)
             p == OffsetOf(o, labels, i)
             q == OffsetOf(o, labels, i + 1)
             wa == WireLabels(a)
  <2>1. /\ i \in 1..len /\ i \in Nat /\ i - 1 \in Nat /\ i - 1 <= stop - 1
        /\ i + 1 - 1 = i /\ i \in 1..(len + 1)
    BY <1>1
  <2>2. /\ l \in Label /\ a \in Seq(Label)
        /\ Suffix(labels, i) = << l >> \o Suffix(labels, i + 1)
        /\ Len(WireLabels(SubSeq(labels, 1, i))) = Len(wa) + (1 + Len(l))
    BY <2>1, WireParts
  <2>3. p = Len(o) + Len(wa) /\ q = Len(o) + (Len(wa) + (1 + Len(l)))
    <3>1. p = Len(o) + Len(wa)
      BY DEF OffsetOf
    <3>2. q = Len(o) + Len(WireLabels(SubSeq(labels, 1, i)))
      BY <2>1 DEF OffsetOf
    <3> QED
      BY <2>2, <3>1, <3>2
  <2>4. x[i] = l /\ SubSeq(x, 1, i - 1) = a
    <3>1. \A k \in 1..(stop - 1) : x[k] = labels[k]
      BY <1>1, PrefixOfPrefix
    <3>2. SubSeq(x, 1, i - 1) = a
      BY <1>1, <2>1, PrefixOfPrefix
    <3> QED
      BY <3>1, <3>2
  <2> DEFINE rest == WireLabels(Suffix(x, i + 1))
  <2>5. wx = wa \o (Piece(l) \o rest) /\ rest \in Octets
    <3>1. i \in 1..Len(x)
      BY <1>2
    <3> HIDE DEF x, a, l
    <3>2. WireLabels(x) = WireLabels(SubSeq(x, 1, i - 1)) \o (Piece(x[i]) \o rest)
      BY <1>2, <3>1, WireParts
    <3>3. Suffix(x, i + 1) \in Seq(Label)
      BY <1>2, <3>1, WireParts
    <3>4. rest \in Octets
      BY <3>3, WireOctets
    <3> QED
      BY <2>4, <3>2, <3>4
  <2>6. wa \in Octets /\ Piece(l) \in Octets /\ Len(l) \in Nat
    BY <2>2, WireOctets, PieceOctets
  <2>7. Holds(c, p, Piece(l))
    <3> DEFINE pc == Piece(l)
               y == pc \o rest
    <3> HIDE DEF pc, rest, wx, wa
    <3>1. y \in Octets
      BY <2>5, <2>6, JoinOctets DEF pc
    <3>2. wx = wa \o y
      BY <2>5 DEF pc
    <3> HIDE DEF y
    <3>3. Holds(c, Len(o), wx)
      <4>1. c = o \o (wx \o tail)
        BY DEF wx
      <4> QED
        BY <1>3, <4>1, HoldsMiddle
    <3>4. Holds(c, Len(o), wa \o y) /\ Len(o) \in Nat
      BY <3>2, <3>3, OctetsLen
    <3>5. Holds(c, Len(o) + Len(wa), y)
      BY <1>3, <2>6, <3>1, <3>4, HoldsJoin
    <3>6. Len(o) + Len(wa) \in Nat
      BY <2>6, <3>4, OctetsLen
    <3>7. Holds(c, Len(o) + Len(wa), pc)
      BY <1>3, <2>5, <2>6, <3>1, <3>5, <3>6, HoldsJoin DEF y, pc
    <3> QED
      BY <2>3, <3>7 DEF pc
  <2>8. q = p + (1 + Len(l))
    <3>1. Len(o) \in Nat /\ Len(wa) \in Nat
      BY <2>6, OctetsLen
    <3> DEFINE lo == Len(o)
               la == Len(wa)
               ll == Len(l)
    <3>2. lo \in Nat /\ la \in Nat /\ ll \in Nat /\ p = lo + la /\ q = lo + (la + (1 + ll))
      BY <2>3, <2>6, <3>1
    <3> HIDE DEF lo, la, ll, p, q
    <3>3. q = p + (1 + ll)
      BY <3>2
    <3> QED
      BY <3>3 DEF ll
  <2> HIDE DEF l, p, q
  <2>9. /\ own(i).off = p /\ own(i).labels = Suffix(labels, i) /\ own(i).hops = h
        /\ own(i).end = e
        /\ own(i + 1).off = q /\ own(i + 1).labels = Suffix(labels, i + 1)
        /\ own(i + 1).hops = h /\ own(i + 1).end = e
    BY PlIs DEF p, q
  <2> HIDE DEF own
  <2>10. Precedes(c, own(i), l, own(i + 1))
    BY <2>2, <2>7, <2>8, <2>9 DEF Precedes
  <2> QED
    BY <2>10 DEF l
<1>7. ASSUME NEW t \in Q PROVE t \in Place /\ Continues(c, Q, t)
  <2>1. CASE t \in P
    <3>1. t \in Place /\ Continues(c, P, t)
      BY <1>4, <2>1 DEF Sound
    <3> HIDE DEF owns
    <3> QED
      BY <3>1 DEF Continues
  <2>2. CASE t \in owns
    <3>1. PICK i \in 1..stop : t = own(i)
      BY <2>2
    <3>2. t \in Place
      BY <1>5, <3>1
    <3>3. CASE i = stop
      <4>1. Continues(c, P, t)
        BY <3>1, <3>3
      <4> HIDE DEF owns
      <4> QED
        BY <3>2, <4>1 DEF Continues
    <3>4. CASE i # stop
      <4>1. i \in 1..(stop - 1) /\ i + 1 \in 1..stop
        BY <1>1, <3>4
      <4>2. own(i + 1) \in Q
        BY <4>1
      <4>3. Precedes(c, t, labels[i], own(i + 1)) /\ labels[i] \in Label
        BY <1>6, <3>1, <4>1 DEF Precedes
      <4> HIDE DEF own, Q
      <4> QED
        BY <3>2, <4>2, <4>3 DEF Continues
    <3> QED
      BY <3>3, <3>4
  <2> QED
    BY <2>1, <2>2
<1>8. Sound(c, Q)
  <2> HIDE DEF Q
  <2> QED
    BY <1>7 DEF Sound
<1>9. \A i \in 1..stop : own(i) \in Q
  OBVIOUS
<1> HIDE DEF Q
<1> QED
  BY <1>8, <1>9 DEF Spelled

(***************************************************************************)
(* PutLabels, with its parts named.                                        *)
(***************************************************************************)
IsBuilder(b) == b = [buf |-> b.buf, offsets |-> b.offsets, err |-> b.err]

Build(buf, offsets, err) == [buf |-> buf, offsets |-> offsets, err |-> err]

LEMMA BuildIs ==
    ASSUME NEW buf, NEW offsets, NEW err
    PROVE  /\ IsBuilder(Build(buf, offsets, err))
           /\ Build(buf, offsets, err).buf = buf
           /\ Build(buf, offsets, err).offsets = offsets
           /\ Build(buf, offsets, err).err = err
BY DEF IsBuilder, Build

Known(b, labels) == {i \in DOMAIN labels : Suffix(labels, i) \in DOMAIN b.offsets}

StopAt(b, labels) == Min(Known(b, labels) \cup {Len(labels) + 1})

Fresh(b, labels) ==
    {i \in 1..(StopAt(b, labels) - 1) : Remembered(OffsetOf(b.buf, labels, i))}

NewOffsets(b, labels) ==
    [s \in {Suffix(labels, i) : i \in Fresh(b, labels)} |->
       OffsetOf(b.buf, labels, Len(labels) - Len(s) + 1)]

Ending(b, labels) ==
    IF StopAt(b, labels) > Len(labels) THEN << 0 >>
    ELSE Pointer(b.offsets[Suffix(labels, StopAt(b, labels))])

NewLabels(b, labels) == SubSeq(labels, 1, StopAt(b, labels) - 1)

LEMMA PutLabelsIs ==
    ASSUME NEW b, IsBuilder(b), b.err = "nil", NEW labels, PutLabels(b, labels).err = "nil"
    PROVE  /\ Encodable(labels)
           /\ PutLabels(b, labels) =
                Build((b.buf \o WireLabels(NewLabels(b, labels))) \o Ending(b, labels),
                      Beside(NewOffsets(b, labels), b.offsets), "nil")
<1> DEFINE w == WireLabels(NewLabels(b, labels))
           t == Ending(b, labels)
           n == NewOffsets(b, labels)
           r == PutLabels(b, labels)
<1>1. r = IF ~ Encodable(labels) THEN Refuse(b, "bad name")
          ELSE [b EXCEPT !.buf = (@ \o w) \o t, !.offsets = Beside(n, @)]
  BY DEF PutLabels, Suffix, Known, StopAt, Fresh, NewOffsets, Ending, NewLabels, OffsetOf
<1> HIDE DEF w, t, n, r
<1>2. Encodable(labels)
  <2> SUFFICES ASSUME ~ Encodable(labels) PROVE FALSE
    OBVIOUS
  <2>1. r = [b EXCEPT !.err = "bad name"]
    BY <1>1 DEF Refuse
  <2>2. b = [buf |-> b.buf, offsets |-> b.offsets, err |-> b.err]
    BY DEF IsBuilder
  <2>3. r.err = "bad name"
    BY <2>1, <2>2
  <2> QED
    BY <2>3 DEF r
<1>3. r = Build((b.buf \o w) \o t, Beside(n, b.offsets), "nil")
  <2>1. b = [buf |-> b.buf, offsets |-> b.offsets, err |-> b.err]
    BY DEF IsBuilder
  <2>2. r = [b EXCEPT !.buf = (b.buf \o w) \o t, !.offsets = Beside(n, b.offsets)]
    BY <1>1, <1>2
  <2> DEFINE x == (b.buf \o w) \o t
             y == Beside(n, b.offsets)
  <2> HIDE DEF x, y
  <2>3. r = [b EXCEPT !.buf = x, !.offsets = y]
    BY <2>2 DEF x, y
  <2>4. r = [buf |-> x, offsets |-> y, err |-> b.err]
    BY <2>1, <2>3
  <2> QED
    BY <2>4 DEF x, y, Build
<1> QED
  BY <1>2, <1>3 DEF w, t, n, r

LEMMA StopIs ==
    ASSUME NEW b, NEW labels \in Seq(Label)
    PROVE  /\ StopAt(b, labels) \in 1..(Len(labels) + 1)
           /\ StopAt(b, labels) \in Nat /\ Len(labels) \in Nat
           /\ \A i \in 1..(StopAt(b, labels) - 1) : Suffix(labels, i) \notin DOMAIN b.offsets
           /\ StopAt(b, labels) <= Len(labels) =>
                Suffix(labels, StopAt(b, labels)) \in DOMAIN b.offsets
<1> DEFINE n == Len(labels)
           K == Known(b, labels)
           T == K \cup {n + 1}
           m == StopAt(b, labels)
<1>1. n \in Nat /\ DOMAIN labels = 1..n
  BY LenProperties
<1>2. K \subseteq 1..n
  BY <1>1 DEF Known
<1>3. \A i \in 1..n : i \in K <=> Suffix(labels, i) \in DOMAIN b.offsets
  BY <1>1 DEF Known
<1> HIDE DEF n, K
<1>4. T \subseteq Nat /\ T # {}
  BY <1>1, <1>2
<1> HIDE DEF T
<1>5. \E x \in T : \A y \in T : x <= y
  BY <1>4, LeastNat
<1>6. m \in T /\ \A y \in T : m <= y
  <2>1. m = Min(T)
    BY DEF StopAt, T, K, n
  <2> HIDE DEF m
  <2> QED
    BY <1>5, <2>1 DEF Min
<1> HIDE DEF m
<1>7. m \in 1..(n + 1) /\ m \in Nat
  BY <1>1, <1>2, <1>6 DEF T
<1>8. ASSUME NEW i \in 1..(m - 1) PROVE Suffix(labels, i) \notin DOMAIN b.offsets
  <2>1. i \in 1..n /\ ~ (m <= i)
    BY <1>1, <1>7
  <2>2. i \notin K
    BY <1>6, <2>1 DEF T
  <2> QED
    BY <1>3, <2>1, <2>2
<1>9. ASSUME m <= n PROVE Suffix(labels, m) \in DOMAIN b.offsets
  <2>1. m \in K /\ m \in 1..n
    BY <1>1, <1>6, <1>7, <1>9 DEF T
  <2> QED
    BY <1>3, <2>1
<1> QED
  BY <1>1, <1>7, <1>8, <1>9 DEF n, m

LEMMA SuffixLen ==
    ASSUME NEW labels \in Seq(Label), NEW i \in 1..Len(labels)
    PROVE  Len(labels) - Len(Suffix(labels, i)) + 1 = i /\ Suffix(labels, i) # << >>
<1> DEFINE n == Len(labels)
           z == SubSeq(labels, i, n)
           m == Len(z)
<1>1. n \in Nat /\ i \in Nat /\ i >= 1 /\ i <= n
  BY LenProperties
<1>2. z \in Seq(Label) /\ m = IF i <= n THEN n - i + 1 ELSE 0
  <2> HIDE DEF n
  <2>1. n <= Len(labels)
    BY <1>1 DEF n
  <2> QED
    BY <1>1, <2>1, PartElements
<1> HIDE DEF n, m
<1>3. n - m + 1 = i /\ m # 0
  BY <1>1, <1>2
<1>4. z # << >>
  <2> HIDE DEF z
  <2> QED
    BY <1>3, EmptySeq DEF m
<1> QED
  BY <1>3, <1>4 DEF Suffix, n, m

(***************************************************************************)
(* A builder, with the names that have been put so far.                    *)
(***************************************************************************)
Remembers(buf, offsets, W) ==
    \A s \in DOMAIN offsets :
      /\ s \in Seq(Label) /\ offsets[s] \in Nat /\ offsets[s] < PointerSpan
      /\ \E h \in Nat, e \in Nat :
           h < Cardinality(W) /\ Spelled(buf, Pl(offsets[s], s, h, e))

Built(b, W) ==
    /\ IsBuilder(b) /\ b.buf \in Octets /\ IsFiniteSet(W)
    /\ Remembers(b.buf, b.offsets, W)
    /\ \A x \in W : x \in DOMAIN b.offsets \/ PointerSpan <= Len(b.buf)

\* The labels are spelled from p to q, with n hops or fewer.
NamedAt(buf, p, q, labels, n) ==
    /\ labels \in Seq(Label) /\ Len(WireLabels(labels)) + 1 <= MaxNameWire
    /\ \E h \in Nat : h <= n /\ Spelled(buf, Pl(p, labels, h, q))

With(W, labels) == W \cup ({labels} \ {<< >>})

LEMMA RemembersMore ==
    ASSUME NEW buf \in Octets, NEW y \in Octets, NEW offsets, NEW W, Remembers(buf, offsets, W)
    PROVE  Remembers(buf \o y, offsets, W)
BY SpelledMore DEF Remembers

LEMMA WithIs ==
    ASSUME NEW W, IsFiniteSet(W), NEW labels
    PROVE  /\ IsFiniteSet(With(W, labels)) /\ Cardinality(W) \in Nat
           /\ Cardinality(With(W, labels)) \in Nat
           /\ Cardinality(W) <= Cardinality(With(W, labels))
           /\ labels # << >> /\ labels \notin W =>
                Cardinality(With(W, labels)) = Cardinality(W) + 1
           /\ labels \in W => With(W, labels) = W
           /\ W \subseteq With(W, labels)
<1>1. Cardinality(W) \in Nat
  BY FS_CardinalityType
<1>2. CASE labels = << >>
  <2>1. With(W, labels) = W
    BY <1>2 DEF With
  <2> QED
    BY <1>1, <1>2, <2>1
<1>3. CASE labels # << >>
  <2>1. With(W, labels) = W \cup {labels}
    BY <1>3 DEF With
  <2>2. /\ IsFiniteSet(W \cup {labels})
        /\ Cardinality(W \cup {labels}) =
             IF labels \in W THEN Cardinality(W) ELSE Cardinality(W) + 1
    BY FS_AddElement
  <2>3. labels \in W => W \cup {labels} = W
    OBVIOUS
  <2> QED
    BY <1>1, <2>1, <2>2, <2>3
<1> QED
  BY <1>2, <1>3

\* How a name ends: with the root, or with a pointer to what is known.
LEMMA NameEnds ==
    ASSUME NEW b, NEW W, Built(b, W), NEW labels \in Seq(Label), NEW stop,
           stop = StopAt(b, labels), NEW tail, tail = Ending(b, labels), NEW c,
           c = b.buf \o (WireLabels(SubSeq(labels, 1, stop - 1)) \o tail)
    PROVE  /\ tail \in Octets /\ c \in Octets /\ Len(c) \in Nat /\ Len(b.buf) <= Len(c)
           /\ WireLabels(SubSeq(labels, 1, stop - 1)) \in Octets
           /\ \E h \in Nat : \E P :
                /\ Sound(b.buf, P) /\ h <= Cardinality(W)
                /\ Continues(c, P, Pl(OffsetOf(b.buf, labels, stop), Suffix(labels, stop),
                                      h, Len(c)))
<1> DEFINE o   == b.buf
           n   == Len(labels)
           x   == SubSeq(labels, 1, stop - 1)
           wx  == WireLabels(x)
           off == OffsetOf(o, labels, stop)
           suf == Suffix(labels, stop)
           lo  == Len(o)
           lw  == Len(wx)
           lt  == Len(tail)
           lc  == Len(c)
           card == Cardinality(W)
           own(h) == Pl(off, suf, h, lc)
<1>1. /\ stop \in 1..(n + 1) /\ n \in Nat /\ stop \in Nat
      /\ stop <= n => suf \in DOMAIN b.offsets
  BY StopIs
<1>2. o \in Octets /\ card \in Nat /\ Remembers(o, b.offsets, W)
  BY FS_CardinalityType DEF Built
<1>3. x \in Seq(Label)
  <2>1. stop - 1 \in Nat /\ stop - 1 <= Len(labels)
    BY <1>1
  <2> QED
    BY <2>1, PrefixOfPrefix
<1>4. wx \in Octets
  <2> HIDE DEF x
  <2> QED
    BY <1>3, WireOctets
<1>5. off \in Nat /\ lo <= off /\ off = lo + lw /\ suf \in Seq(Label)
  BY <1>1, <1>2, OffsetType DEF OffsetOf
<1>6. ASSUME tail \in Octets
      PROVE  /\ c \in Octets /\ lc = off + lt /\ lc \in Nat /\ lo <= lc
             /\ Holds(c, off, tail)
  <2> DEFINE y == wx \o tail
  <2> HIDE DEF wx
  <2>1. y \in Octets /\ Joined(wx, tail, y)
    BY <1>4, <1>6, JoinOctets, JoinedOctets
  <2>2. c = o \o y
    BY DEF wx
  <2> HIDE DEF y
  <2>3. c \in Octets /\ Joined(o, y, c)
    BY <1>2, <2>1, <2>2, JoinOctets, JoinedOctets
  <2>4. lc = lo + Len(y) /\ Len(y) = lw + lt /\ lw \in Nat /\ lt \in Nat /\ lo \in Nat
    BY <2>1, <2>3 DEF Joined
  <2>5. Holds(c, lo, y)
    BY <1>2, <2>1, <2>2, HoldsLast
  <2>6. Holds(c, lo + lw, tail)
    <3>1. Holds(c, lo, wx \o tail)
      BY <2>5 DEF y
    <3> HIDE DEF lo
    <3>2. Holds(c, lo + Len(wx), tail)
      BY <1>4, <1>6, <2>3, <2>4, <3>1, HoldsJoin
    <3> QED
      BY <3>2
  <2>7. Holds(c, off, tail)
    <3> HIDE DEF off, lo, lw
    <3> QED
      BY <1>5, <2>6
  <2> DEFINE ly == Len(y)
  <2> HIDE DEF lo, lw, lt, lc, off, ly
  <2>8. lc = lo + ly /\ ly = lw + lt
    BY <2>4 DEF ly
  <2>9. lc = off + lt /\ lc \in Nat /\ lo <= lc
    BY <1>5, <2>4, <2>8
  <2> QED
    BY <2>3, <2>7, <2>9
<1>7. ASSUME stop > n
      PROVE  /\ tail \in Octets /\ c \in Octets /\ lc \in Nat /\ lo <= lc
             /\ \E h \in Nat : \E P : Sound(o, P) /\ h <= card /\ Continues(c, P, own(h))
  <2>1. tail = << 0 >> /\ stop = n + 1
    BY <1>1, <1>7 DEF Ending
  <2>2. tail \in Octets /\ lt = 1
    <3>1. 0 \in Byte
      BY DEF Byte
    <3> QED
      BY <2>1, <3>1, OneElement DEF Octets
  <2>3. suf = << >>
    BY <1>2, <2>1, OffsetType
  <2>4. c \in Octets /\ lc = off + lt /\ lc \in Nat /\ lo <= lc /\ Holds(c, off, tail)
    BY <1>6, <2>2
  <2>6. Sound(o, {})
    BY DEF Sound
  <2> HIDE DEF off, suf, lc, lt, lo, card
  <2>5. /\ own(0).off = off /\ own(0).labels = suf /\ own(0).hops = 0 /\ own(0).end = lc
    BY PlIs
  <2> HIDE DEF own
  <2>7. IsRoot(c, own(0))
    BY <2>1, <2>2, <2>3, <2>4, <2>5 DEF IsRoot
  <2>8. Continues(c, {}, own(0))
    BY <2>7 DEF Continues
  <2>9. 0 \in Nat /\ 0 <= card
    BY <1>2
  <2> QED
    BY <2>2, <2>4, <2>6, <2>8, <2>9
<1>8. ASSUME stop <= n
      PROVE  /\ tail \in Octets /\ c \in Octets /\ lc \in Nat /\ lo <= lc
             /\ \E h \in Nat : \E P : Sound(o, P) /\ h <= card /\ Continues(c, P, own(h))
  <2> DEFINE to == b.offsets[suf]
  <2>1. tail = Pointer(to)
    <3>1. ~ (stop > n)
      BY <1>1, <1>8
    <3> QED
      BY <3>1 DEF Ending
  <2>2. suf \in DOMAIN b.offsets
    BY <1>1, <1>8
  <2>3. to \in Nat /\ to < PointerSpan
    BY <1>2, <2>2 DEF Remembers
  <2>4. PICK h \in Nat, e \in Nat : h < card /\ Spelled(o, Pl(to, suf, h, e))
    BY <1>2, <2>2 DEF Remembers
  <2> DEFINE t == Pl(to, suf, h, e)
  <2>5. PICK P : Sound(o, P) /\ t \in P
    BY <2>4 DEF Spelled
  <2>6. t.off = to /\ t.labels = suf /\ t.hops = h
    BY PlIs
  <2>7. tail \in Octets /\ lt = 2
    BY <2>1, <2>3, PointerOctets
  <2>8. c \in Octets /\ lc = off + lt /\ lc \in Nat /\ lo <= lc /\ Holds(c, off, tail)
    BY <1>6, <2>7
  <2>9. to < off
    <3>1. to < lo
      BY <1>2, <2>5, <2>6, PlaceWithin
    <3>2. lo \in Nat
      BY <1>2, OctetsLen
    <3> HIDE DEF lo, off, to
    <3> QED
      BY <1>5, <2>3, <3>1, <3>2
  <2> DEFINE k == h + 1
  <2>11. k \in Nat /\ k <= card /\ k = h + 1
    <3> HIDE DEF card
    <3> QED
      BY <1>2, <2>4
  <2> HIDE DEF off, suf, lc, lt, lo, card, t, k, to
  <2>10. /\ own(k).off = off /\ own(k).labels = suf /\ own(k).hops = k /\ own(k).end = lc
    BY PlIs
  <2> HIDE DEF own
  <2>12. PointsTo(c, own(k), t)
    BY <2>1, <2>3, <2>6, <2>7, <2>8, <2>9, <2>10, <2>11 DEF PointsTo
  <2>13. Continues(c, P, own(k))
    BY <2>5, <2>12 DEF Continues
  <2> QED
    BY <2>5, <2>7, <2>8, <2>11, <2>13
<1> DEFINE good == /\ tail \in Octets /\ c \in Octets /\ lc \in Nat /\ lo <= lc
                   /\ \E h \in Nat : \E P :
                        Sound(o, P) /\ h <= card /\ Continues(c, P, own(h))
<1>9. good
  <2>1. stop > n \/ stop <= n
    <3> HIDE DEF n
    <3> QED
      BY <1>1
  <2>2. stop > n => good
    BY <1>7, Zenon
  <2>3. stop <= n => good
    BY <1>8, Zenon
  <2> QED
    BY <2>1, <2>2, <2>3, Zenon
<1> QED
  BY <1>4, <1>9

LEMMA BesideIs ==
    ASSUME NEW new, NEW old
    PROVE  /\ DOMAIN Beside(new, old) = DOMAIN new \cup DOMAIN old
           /\ \A s \in DOMAIN new : Beside(new, old)[s] = new[s]
           /\ \A s \in DOMAIN old : s \notin DOMAIN new => Beside(new, old)[s] = old[s]
BY DEF Beside

Puts(b, r, labels, W) ==
    \E x \in Octets :
      /\ r.buf = b.buf \o x /\ r.err = "nil" /\ Built(r, With(W, labels))
      /\ NamedAt(r.buf, Len(b.buf), Len(r.buf), labels, Cardinality(With(W, labels)))

LEMMA PutLabelsBuilt ==
    ASSUME NEW b, NEW W, Built(b, W), b.err = "nil", NEW labels \in Seq(Octets),
           PutLabels(b, labels).err = "nil"
    PROVE  Puts(b, PutLabels(b, labels), labels, W)
<1> DEFINE o    == b.buf
           r    == PutLabels(b, labels)
           n    == Len(labels)
           stop == StopAt(b, labels)
           tail == Ending(b, labels)
           x    == SubSeq(labels, 1, stop - 1)
           wx   == WireLabels(x)
           new  == NewOffsets(b, labels)
           old  == b.offsets
           V    == With(W, labels)
           y    == wx \o tail
           c    == o \o y
           lo   == Len(o)
           lc   == Len(c)
           off(i) == OffsetOf(o, labels, i)
<1>1. IsBuilder(b) /\ o \in Octets /\ IsFiniteSet(W) /\ Remembers(o, old, W)
  BY DEF Built
<1>2. Encodable(labels) /\ r = Build((o \o wx) \o tail, Beside(new, old), "nil")
  BY <1>1, PutLabelsIs DEF NewLabels
<1>3. labels \in Seq(Label)
  <2>1. n \in Nat /\ DOMAIN labels = 1..n
    BY LenProperties
  <2>2. ASSUME NEW i \in 1..n PROVE labels[i] \in Label
    <3>1. labels[i] \in Octets /\ Len(labels[i]) \in 1..MaxLabelLen
      BY <1>2, <2>1, ElementOfSeq DEF Encodable
    <3> QED
      BY <3>1 DEF Label, MaxLabelLen
  <2>3. labels \in [1..n -> Label]
    <3>1. labels = [i \in 1..n |-> labels[i]]
      BY <2>1
    <3> QED
      BY <2>2, <3>1
  <2> QED
    BY <2>1, <2>3, FunctionSeq
<1>4. /\ stop \in 1..(n + 1) /\ stop \in Nat /\ n \in Nat
      /\ \A i \in 1..(stop - 1) : Suffix(labels, i) \notin DOMAIN old
      /\ stop <= n => Suffix(labels, stop) \in DOMAIN old
  BY <1>3, StopIs
<1>5. /\ tail \in Octets /\ c \in Octets /\ lc \in Nat /\ lo <= lc /\ wx \in Octets
      /\ \E h \in Nat : \E P :
           /\ Sound(o, P) /\ h <= Cardinality(W)
           /\ Continues(c, P, Pl(off(stop), Suffix(labels, stop), h, lc))
  BY <1>3, NameEnds
<1>6. y \in Octets /\ (o \o wx) \o tail = c
  <2> HIDE DEF wx, tail, o
  <2>1. wx \o tail \in Octets
    BY <1>5, JoinOctets
  <2>2. (o \o wx) \o tail = o \o (wx \o tail)
    BY <1>1, <1>5, Regroup, Zenon
  <2> QED
    BY <2>1, <2>2
<1>7. /\ IsBuilder(r) /\ r.buf = c /\ r.offsets = Beside(new, old) /\ r.err = "nil"
  <2> DEFINE z == (o \o wx) \o tail
             m == Beside(new, old)
  <2>1. r = Build(z, m, "nil") /\ z = c
    BY <1>2, <1>6
  <2> DEFINE e == "nil"
  <2> HIDE DEF z, m, r, e
  <2>3. r = Build(z, m, e)
    BY <2>1 DEF e
  <2>2. IsBuilder(r) /\ r.buf = z /\ r.offsets = m /\ r.err = e
    BY <2>3, BuildIs
  <2> QED
    BY <2>1, <2>2 DEF m, e
<1>8. PICK h \in Nat : \E P :
        /\ Sound(o, P) /\ h <= Cardinality(W)
        /\ Continues(c, P, Pl(off(stop), Suffix(labels, stop), h, lc))
  BY <1>5
<1>9. \A i \in 1..stop : Spelled(c, Pl(off(i), Suffix(labels, i), h, lc))
  BY <1>1, <1>3, <1>4, <1>5, <1>8, NameSpelled
<1>10. /\ IsFiniteSet(V) /\ Cardinality(W) \in Nat /\ Cardinality(V) \in Nat
       /\ Cardinality(W) <= Cardinality(V)
       /\ labels # << >> /\ labels \notin W => Cardinality(V) = Cardinality(W) + 1
       /\ labels \in W => V = W
  BY <1>1, WithIs
<1>11. \A i \in 1..(n + 1) : /\ off(i) \in Nat /\ lo <= off(i)
                             /\ off(1) = lo /\ Suffix(labels, 1) = labels
                             /\ Suffix(labels, i) \in Seq(Label)
  BY <1>1, <1>3, OffsetType
<1>12. lo \in Nat /\ PointerSpan \in Nat
  BY <1>1, WireAssumption, OctetsLen
<1> HIDE DEF o, r, n, tail, x, wx, new, old, V, y, c, lo, lc, off
<1>13. Len(WireLabels(labels)) + 1 <= MaxNameWire
  BY <1>2 DEF Encodable
<1>14. NamedAt(c, lo, lc, labels, Cardinality(V))
  <2>1. 1 \in 1..stop /\ 1 \in 1..(n + 1)
    BY <1>4
  <2>2. Spelled(c, Pl(lo, labels, h, lc))
    BY <1>9, <1>11, <2>1
  <2>3. h <= Cardinality(V)
    BY <1>8, <1>10
  <2> QED
    BY <1>3, <1>13, <2>2, <2>3 DEF NamedAt
<1>15. DOMAIN Beside(new, old) = DOMAIN new \cup DOMAIN old
  BY BesideIs
<1>16. ASSUME NEW i \in 1..(stop - 1), off(i) < PointerSpan
       PROVE  h < Cardinality(V)
  <2>1. 1 \in 1..(stop - 1) /\ 1 \in 1..(n + 1) /\ n # 0 /\ i \in 1..(n + 1)
    BY <1>4
  <2>2. labels # << >>
    <3>1. Len(<< >>) = 0
      BY EmptySeq
    <3> QED
      BY <2>1, <3>1 DEF n
  <2>3. labels \notin DOMAIN old
    BY <1>4, <1>11, <2>1
  <2>4. ~ (PointerSpan <= lo)
    <3>1. lo <= off(i) /\ off(i) \in Nat
      BY <1>11, <2>1
    <3> QED
      BY <1>12, <1>16, <3>1
  <2>5. labels \notin W
    BY <2>3, <2>4 DEF Built, old, lo, o
  <2>6. Cardinality(V) = Cardinality(W) + 1
    BY <1>10, <2>2, <2>5
  <2> QED
    BY <1>8, <1>10, <2>6
<1>17. ASSUME NEW s \in DOMAIN new
       PROVE  /\ s \in Seq(Label) /\ new[s] \in Nat /\ new[s] < PointerSpan
              /\ \E g \in Nat, e \in Nat :
                   g < Cardinality(V) /\ Spelled(c, Pl(new[s], s, g, e))
  <2>1. PICK i \in Fresh(b, labels) : s = Suffix(labels, i)
    BY DEF new, NewOffsets
  <2>2. i \in 1..(stop - 1) /\ off(i) < PointerSpan
    BY DEF Fresh, Remembered, off, o
  <2>3. i \in 1..Len(labels) /\ i \in 1..(n + 1) /\ i \in 1..stop
    BY <1>4, <2>2 DEF n
  <2>4. new[s] = off(Len(labels) - Len(s) + 1)
    BY DEF new, NewOffsets, off, o
  <2>5. Len(labels) - Len(s) + 1 = i
    BY <1>3, <2>1, <2>3, SuffixLen
  <2>6. new[s] = off(i)
    BY <2>4, <2>5
  <2>7. Spelled(c, Pl(new[s], s, h, lc))
    BY <1>9, <2>1, <2>3, <2>6
  <2>8. h < Cardinality(V)
    BY <1>16, <2>2
  <2>9. s \in Seq(Label) /\ new[s] \in Nat
    BY <1>11, <2>1, <2>3, <2>6
  <2> QED
    BY <1>5, <2>2, <2>6, <2>7, <2>8, <2>9
<1>18. ASSUME NEW s \in DOMAIN old
       PROVE  /\ s \in Seq(Label) /\ old[s] \in Nat /\ old[s] < PointerSpan
              /\ \E g \in Nat, e \in Nat :
                   g < Cardinality(V) /\ Spelled(c, Pl(old[s], s, g, e))
  <2>1. Remembers(c, old, W)
    BY <1>1, <1>6, RemembersMore DEF c
  <2>2. PICK g \in Nat, e \in Nat :
          g < Cardinality(W) /\ Spelled(c, Pl(old[s], s, g, e))
    BY <2>1 DEF Remembers
  <2>3. g < Cardinality(V)
    BY <1>10, <2>2
  <2> QED
    BY <2>1, <2>2, <2>3 DEF Remembers
<1>19. Remembers(c, Beside(new, old), V)
  <2> DEFINE m == Beside(new, old)
  <2> HIDE DEF m
  <2>1. /\ DOMAIN m = DOMAIN new \cup DOMAIN old
        /\ \A s \in DOMAIN new : m[s] = new[s]
        /\ \A s \in DOMAIN old : s \notin DOMAIN new => m[s] = old[s]
    <3>1. m = Beside(new, old)
      BY DEF m
    <3> HIDE DEF m
    <3>2. DOMAIN m = DOMAIN new \cup DOMAIN old
      BY <3>1, BesideIs
    <3>3. ASSUME NEW s \in DOMAIN new PROVE m[s] = new[s]
      BY <3>1 DEF Beside
    <3>4. ASSUME NEW s \in DOMAIN old, s \notin DOMAIN new PROVE m[s] = old[s]
      <4>1. s \in DOMAIN new \cup DOMAIN old
        BY <3>4
      <4>2. m = [t \in DOMAIN new \cup DOMAIN old |-> IF t \in DOMAIN new THEN new[t] ELSE old[t]]
        BY <3>1 DEF Beside
      <4> QED
        BY <3>4, <4>1, <4>2
    <3> QED
      BY <3>2, <3>3, <3>4
  <2>2. ASSUME NEW s \in DOMAIN m
        PROVE  /\ s \in Seq(Label) /\ m[s] \in Nat /\ m[s] < PointerSpan
               /\ \E g \in Nat, e \in Nat :
                    g < Cardinality(V) /\ Spelled(c, Pl(m[s], s, g, e))
    <3>1. CASE s \in DOMAIN new
      BY <1>17, <2>1, <3>1
    <3>2. CASE s \notin DOMAIN new
      <4>1. s \in DOMAIN old /\ m[s] = old[s]
        BY <2>1, <3>2
      <4> QED
        BY <1>18, <4>1
    <3> QED
      BY <3>1, <3>2
  <2>3. Remembers(c, m, V)
    BY <2>2 DEF Remembers
  <2> QED
    BY <2>3 DEF m
<1>20. ASSUME NEW s \in V PROVE s \in DOMAIN Beside(new, old) \/ PointerSpan <= lc
  <2> DEFINE m == Beside(new, old)
  <2> HIDE DEF m
  <2>1. DOMAIN m = DOMAIN new \cup DOMAIN old
    BY <1>15 DEF m
  <2>2. PointerSpan <= lo => PointerSpan <= lc
    BY <1>5, <1>12
  <2>3. CASE s \in W
    <3>1. s \in DOMAIN old \/ PointerSpan <= lo
      BY <2>3 DEF Built, old, lo, o
    <3> QED
      BY <2>1, <2>2, <3>1 DEF m
  <2>4. CASE s = labels /\ labels # << >>
    <3>1. 1 \in 1..(n + 1) /\ Suffix(labels, 1) = labels /\ off(1) = lo
      BY <1>4, <1>11
    <3>2. n # 0
      <4>1. n = 0 => labels = << >>
        BY <1>3, EmptySeq DEF n
      <4> QED
        BY <2>4, <4>1
    <3>3. CASE stop = 1
      <4>1. stop <= n
        BY <1>4, <3>2, <3>3
      <4> QED
        BY <1>4, <2>1, <2>4, <3>1, <3>3, <4>1 DEF m
    <3>4. CASE stop # 1 /\ lo < PointerSpan
      <4>1. 1 \in 1..(stop - 1)
        BY <1>4, <3>4
      <4>2. 1 \in Fresh(b, labels)
        BY <3>1, <3>4, <4>1 DEF Fresh, Remembered, off, o
      <4>3. labels \in DOMAIN new
        BY <3>1, <4>2 DEF new, NewOffsets
      <4> QED
        BY <2>1, <2>4, <4>3 DEF m
    <3>5. CASE ~ (lo < PointerSpan)
      <4>1. PointerSpan <= lo
        BY <1>12, <3>5
      <4> QED
        BY <2>2, <4>1
    <3> QED
      BY <3>3, <3>4, <3>5
  <2> QED
    BY <2>3, <2>4 DEF V, With
<1>21. Built(r, V)
  BY <1>5, <1>7, <1>10, <1>19, <1>20 DEF Built, lc
<1> QED
  BY <1>6, <1>7, <1>14, <1>21 DEF Puts, r, c, o, lo, lc, V

(***************************************************************************)
(* SplitLabels is undone by Join.                                          *)
(***************************************************************************)
JoinPieces(labels) ==
    [i \in DOMAIN labels |-> IF i = 1 THEN labels[i] ELSE << Dot >> \o labels[i]]

LEMMA JoinPiecesType ==
    ASSUME NEW labels \in Seq(Octets)
    PROVE  /\ JoinPieces(labels) \in Seq(Octets) /\ Len(JoinPieces(labels)) = Len(labels)
           /\ \A i \in 1..Len(labels) :
                JoinPieces(labels)[i] = IF i = 1 THEN labels[i] ELSE << Dot >> \o labels[i]
<1> DEFINE n == Len(labels)
           f == [i \in 1..n |-> IF i = 1 THEN labels[i] ELSE << Dot >> \o labels[i]]
<1>1. n \in Nat /\ DOMAIN labels = 1..n
  BY LenProperties
<1>2. << Dot >> \in Octets
  BY WireAssumption DEF Octets, Byte
<1>3. ASSUME NEW i \in 1..n
      PROVE  labels[i] \in Octets /\ << Dot >> \o labels[i] \in Octets
  <2>1. labels[i] \in Octets
    BY ElementOfSeq
  <2> QED
    BY <1>2, <2>1, JoinOctets
<1>4. f \in [1..n -> Octets]
  BY <1>3
<1>5. JoinPieces(labels) = f
  BY <1>1 DEF JoinPieces
<1>6. \A i \in 1..n : f[i] = IF i = 1 THEN labels[i] ELSE << Dot >> \o labels[i]
  OBVIOUS
<1> HIDE DEF f
<1>7. f \in Seq(Octets) /\ Len(f) = n
  BY <1>1, <1>4, FunctionSeq
<1> QED
  BY <1>5, <1>6, <1>7

LEMMA JoinAppend ==
    ASSUME NEW F \in Seq(Octets), NEW l \in Octets
    PROVE  /\ Append(F, l) \in Seq(Octets) /\ Join(F) \in Octets
           /\ << Dot >> \o l \in Octets
           /\ Join(Append(F, l)) = IF F = << >> THEN l ELSE Join(F) \o (<< Dot >> \o l)
<1> DEFINE A == Append(F, l)
           n == Len(F)
           d == << Dot >> \o l
           e == IF F = << >> THEN l ELSE d
           f == JoinPieces(F)
           g == JoinPieces(A)
<1>1. /\ A \in Seq(Octets) /\ Len(A) = n + 1 /\ n \in Nat
      /\ \A i \in 1..n : A[i] = F[i]
      /\ A[n + 1] = l
  BY AppendProperties, LenProperties
<1>2. d \in Octets
  BY WireAssumption, JoinOctets DEF Octets, Byte
<1>3. F = << >> <=> n = 0
  BY EmptySeq
<1>4. /\ f \in Seq(Octets) /\ Len(f) = n
      /\ \A i \in 1..n : f[i] = IF i = 1 THEN F[i] ELSE << Dot >> \o F[i]
  BY JoinPiecesType
<1> HIDE DEF A
<1>5. /\ g \in Seq(Octets) /\ Len(g) = n + 1
      /\ \A i \in 1..(n + 1) : g[i] = IF i = 1 THEN A[i] ELSE << Dot >> \o A[i]
  BY <1>1, JoinPiecesType
<1> HIDE DEF f, g, n
<1>6. ASSUME NEW i \in 1..n PROVE g[i] = f[i]
  <2>1. i \in 1..(n + 1)
    BY <1>1
  <2>2. A[i] = F[i]
    BY <1>1
  <2>3. g[i] = IF i = 1 THEN A[i] ELSE << Dot >> \o A[i]
    BY <1>5, <2>1
  <2>4. f[i] = IF i = 1 THEN F[i] ELSE << Dot >> \o F[i]
    BY <1>4
  <2> QED
    BY <2>2, <2>3, <2>4
<1>7. g[n + 1] = e
  <2>1. n + 1 \in 1..(n + 1) /\ (n + 1 = 1 <=> n = 0)
    BY <1>1
  <2> QED
    BY <1>1, <1>3, <1>5, <2>1
<1>8. CASE n = 0
  <2>1. Len(g) = 1 /\ g[1] = l /\ F = << >>
    BY <1>3, <1>5, <1>7, <1>8
  <2>2. FlattenSeq(g) = l
    BY <2>1, FlattenFirst
  <2>3. Join(F) \in Octets /\ Join(A) = l
    BY <2>2, JoinLabelsOctets DEF g, Join, JoinPieces
  <2> QED
    BY <1>1, <1>2, <2>1, <2>3 DEF A
<1>9. CASE n # 0
  <2>1. n \in Nat \ {0} /\ Len(f) = n /\ Len(g) = n + 1
    BY <1>1, <1>4, <1>5, <1>9
  <2>2. FlattenSeq(g) = FlattenSeq(f) \o g[n + 1]
    BY <1>6, <2>1, FlattenMore
  <2>3. g[n + 1] = d /\ F # << >>
    BY <1>3, <1>7, <1>9
  <2>4. Join(F) \in Octets /\ Join(A) = Join(F) \o d
    BY <2>2, <2>3, JoinLabelsOctets DEF f, g, Join, JoinPieces
  <2> QED
    BY <1>1, <1>2, <2>3, <2>4 DEF A
<1> QED
  BY <1>8, <1>9

\* The recursion of SplitLabels.
SplitRun(f, name, n) ==
    f = [i \in 0..n |-> IF i = 0 THEN << << >> >> ELSE (IF name[i] = Dot THEN Append(f[i - 1], << >>) ELSE [f[i - 1] EXCEPT ![Len(f[i - 1])] = Append(@, name[i])])]

LEMMA SplitRunAt ==
    ASSUME NEW f, NEW name, NEW n \in Nat, SplitRun(f, name, n), NEW i \in 0..n
    PROVE  f[i] = IF i = 0 THEN << << >> >> ELSE (IF name[i] = Dot THEN Append(f[i - 1], << >>) ELSE [f[i - 1] EXCEPT ![Len(f[i - 1])] = Append(@, name[i])])
BY DEF SplitRun

LEMMA SplitRunExists ==
    ASSUME NEW name, NEW n \in Nat PROVE \E f : SplitRun(f, name, n)
<1> DEFINE G == {m \in Nat : \E f : SplitRun(f, name, m)}
<1>1. 0 \in G
  <2> DEFINE f == [i \in 0..0 |-> << << >> >>]
  <2>1. SplitRun(f, name, 0)
    BY DEF SplitRun
  <2> QED
    BY <2>1
<1>2. ASSUME NEW m \in Nat, m \in G PROVE m + 1 \in G
  <2>1. PICK h : SplitRun(h, name, m)
    BY <1>2
  <2> DEFINE last == (IF name[(m + 1)] = Dot THEN Append(h[m], << >>) ELSE [h[m] EXCEPT ![Len(h[m])] = Append(@, name[(m + 1)])])
             g == [i \in 0..(m + 1) |-> IF i = m + 1 THEN last ELSE h[i]]
  <2>2. ASSUME NEW i \in 0..(m + 1)
        PROVE  g[i] = IF i = 0 THEN << << >> >> ELSE (IF name[i] = Dot THEN Append(g[i - 1], << >>) ELSE [g[i - 1] EXCEPT ![Len(g[i - 1])] = Append(@, name[i])])
    <3>1. CASE i = m + 1
      <4>1. i # 0 /\ i - 1 = m /\ m \in 0..(m + 1) /\ m # m + 1
        BY <3>1
      <4>2. g[i - 1] = h[m] /\ g[i] = last
        BY <3>1, <4>1
      <4> QED
        BY <3>1, <4>1, <4>2
    <3>2. CASE i # m + 1
      <4>1. i \in 0..m
        BY <3>2
      <4>2. h[i] = IF i = 0 THEN << << >> >> ELSE (IF name[i] = Dot THEN Append(h[i - 1], << >>) ELSE [h[i - 1] EXCEPT ![Len(h[i - 1])] = Append(@, name[i])])
        BY <2>1, <4>1, SplitRunAt
      <4>3. i # 0 => i - 1 \in 0..(m + 1) /\ i - 1 # m + 1
        BY <4>1
      <4>4. g[i] = h[i] /\ (i # 0 => g[i - 1] = h[i - 1])
        BY <3>2, <4>3
      <4> QED
        BY <4>2, <4>4
    <3> QED
      BY <3>1, <3>2
  <2>3. SplitRun(g, name, m + 1)
    BY <2>2 DEF SplitRun
  <2> QED
    BY <2>3
<1> HIDE DEF G
<1>3. \A m \in Nat : m \in G
  BY <1>1, <1>2, Induction
<1> QED
  BY <1>3 DEF G


LEMMA SplitRunIs ==
    ASSUME NEW name, name # << >>, Len(name) \in Nat
    PROVE  \E f : SplitRun(f, name, Len(name)) /\ SplitLabels(name) = f[Len(name)]
<1> DEFINE n == Len(name)
           g == CHOOSE h : h = [i \in 0..n |-> IF i = 0 THEN << << >> >> ELSE
                  (IF name[i] = Dot THEN Append(h[i - 1], << >>)
                   ELSE [h[i - 1] EXCEPT ![Len(h[i - 1])] = Append(@, name[i])])]
<1>1. PICK h : SplitRun(h, name, n)
  BY SplitRunExists
<1>2. SplitRun(g, name, n)
  BY <1>1 DEF SplitRun
<1>3. SplitLabels(name) = g[n]
  BY DEF SplitLabels
<1> QED
  BY <1>2, <1>3

\* (A definition, so that the provers see one term.)
Changed(s, i, e) == [s EXCEPT ![i] = e]
SameBut(s, t, i) == \A j \in 1..Len(s) : j # i => t[j] = s[j]

LEMMA ChangedIs ==
    ASSUME NEW S, NEW s \in Seq(S), NEW i \in 1..Len(s), NEW e \in S
    PROVE  /\ Changed(s, i, e) \in Seq(S) /\ Len(Changed(s, i, e)) = Len(s)
           /\ Changed(s, i, e)[i] = e
           /\ SameBut(s, Changed(s, i, e), i)
<1> DEFINE n == Len(s)
           f == [j \in 1..n |-> IF j = i THEN e ELSE s[j]]
<1>1. n \in Nat /\ DOMAIN s = 1..n /\ s = [j \in 1..n |-> s[j]]
  BY LenProperties
<1>2. Changed(s, i, e) = f
  BY <1>1 DEF Changed
<1>3. f \in [1..n -> S]
  BY ElementOfSeq
<1>4. f[i] = e /\ \A j \in 1..n : j # i => f[j] = s[j]
  OBVIOUS
<1> HIDE DEF f
<1>5. f \in Seq(S) /\ Len(f) = n
  BY <1>1, <1>3, FunctionSeq
<1> QED
  BY <1>2, <1>4, <1>5 DEF SameBut

LEMMA ChangedLast ==
    ASSUME NEW A \in Seq(Octets), NEW k \in 1..Len(A), NEW x \in Octets,
           NEW C \in Seq(Octets), Len(C) = Len(A), C[k] = x, SameBut(A, C, k)
    PROVE  Changed(A, k, x) = C
<1> DEFINE B == Changed(A, k, x)
<1>1. B \in Seq(Octets) /\ Len(B) = Len(A)
  BY ChangedIs
<1>2. B[k] = x /\ SameBut(A, B, k)
  BY ChangedIs, Zenon
<1> HIDE DEF B
<1>3. \A i \in 1..Len(B) : B[i] = C[i]
  BY <1>1, <1>2 DEF SameBut
<1>4. B = C
  BY <1>1, <1>3, SeqEqual
<1> QED
  BY <1>4 DEF B

LEMMA LastChanged ==
    ASSUME NEW F \in Seq(Octets), NEW l \in Octets, NEW x \in Octets, NEW A, A = Append(F, l)
    PROVE  Changed(A, Len(A), x) = Append(F, x) /\ A[Len(A)] = l
<1> DEFINE n == Len(F)
           C == Append(F, x)
<1>1. /\ A \in Seq(Octets) /\ Len(A) = n + 1 /\ n \in Nat
      /\ \A i \in 1..n : A[i] = F[i]
      /\ A[n + 1] = l
  BY AppendProperties, LenProperties
<1>2. /\ C \in Seq(Octets) /\ Len(C) = n + 1 /\ C[n + 1] = x
      /\ \A i \in 1..n : C[i] = F[i]
  BY AppendProperties
<1> DEFINE k == n + 1
<1> HIDE DEF C
<1>3. \A i \in 1..k : i # k => C[i] = A[i]
  <2> SUFFICES ASSUME NEW i \in 1..k, i # k PROVE C[i] = A[i]
    OBVIOUS
  <2>1. i \in 1..n
    BY <1>1
  <2> QED
    BY <1>1, <1>2, <2>1
<1>4. k \in 1..Len(A) /\ k = Len(A)
  BY <1>1
<1> HIDE DEF n, k
<1>5. Len(C) = Len(A) /\ C[k] = x /\ SameBut(A, C, k)
  BY <1>2, <1>3, <1>4 DEF k, SameBut
<1>6. C \in Seq(Octets) /\ A \in Seq(Octets)
  BY <1>1, <1>2
<1>7. Changed(A, k, x) = C
  BY <1>4, <1>5, <1>6, ChangedLast
<1> QED
  BY <1>1, <1>4, <1>7 DEF C, k


LEMMA PrefixMore ==
    ASSUME NEW s \in Octets, NEW i \in Nat, i + 1 <= Len(s)
    PROVE  /\ SubSeq(s, 1, i) \in Octets /\ s[i + 1] \in Byte /\ << s[i + 1] >> \in Octets
           /\ SubSeq(s, 1, i + 1) = SubSeq(s, 1, i) \o << s[i + 1] >>
<1> DEFINE k == i + 1
           len == Len(s)
           z == SubSeq(s, 1, k)
           y == SubSeq(s, 1, i)
           o == << s[k] >>
           w == y \o o
<1>1. len \in Nat /\ k \in Nat /\ i <= len /\ k <= len /\ k \in 1..len /\ i <= k
  BY LenProperties DEF Octets
<1>2. s[k] \in Byte
  <2> HIDE DEF k
  <2> QED
    BY <1>1, ElementOfSeq DEF Octets
<1>3. z \in Octets /\ Len(z) = k /\ \A j \in 1..k : z[j] = s[j]
  <2> HIDE DEF k
  <2> QED
    BY <1>1, PrefixOfPrefix DEF Octets
<1>4. y \in Octets /\ Len(y) = i /\ \A j \in 1..i : y[j] = s[j]
  BY <1>1, PrefixOfPrefix DEF Octets
<1>5. o \in Octets /\ Len(o) = 1 /\ o[1] = s[k]
  <2> HIDE DEF k
  <2> QED
    BY <1>2, OneElement DEF Octets
<1> HIDE DEF k, len, z, y, o
<1>6. Joined(y, o, w)
  BY <1>4, <1>5, JoinedOctets
<1> HIDE DEF w
<1>7. /\ w \in Octets /\ Len(w) = k /\ w[k] = s[k]
      /\ \A j \in 1..i : w[j] = s[j]
  <2>1. w[1 + Len(y)] = o[1] /\ 1 + Len(y) = k
    BY <1>4, <1>5, <1>6 DEF Joined, k
  <2>2. Len(w) = k
    BY <1>4, <1>5, <1>6 DEF Joined, k
  <2> QED
    BY <1>4, <1>5, <1>6, <2>1, <2>2 DEF Joined
<1>8. \A j \in 1..k : z[j] = w[j]
  <2> SUFFICES ASSUME NEW j \in 1..k PROVE z[j] = w[j]
    OBVIOUS
  <2>1. j = k \/ j \in 1..i
    BY DEF k
  <2> QED
    BY <1>3, <1>7, <2>1
<1>9. z = w
  BY <1>3, <1>7, <1>8, SeqEqual DEF Octets
<1> QED
  BY <1>2, <1>4, <1>5, <1>9 DEF z, w, y, o, k

\* How far SplitLabels is when it has read the first i octets.
SplitTo(A, s) ==
    \E F \in Seq(Octets), l \in Octets : A = Append(F, l) /\ Join(A) = s

LEMMA SplitDot ==
    ASSUME NEW A, NEW s \in Octets, SplitTo(A, s)
    PROVE  SplitTo(Append(A, << >>), s \o << Dot >>)
<1>1. PICK F \in Seq(Octets), l \in Octets : A = Append(F, l) /\ Join(A) = s
  BY DEF SplitTo
<1>2. A \in Seq(Octets) /\ A # << >>
  BY <1>1, AppendProperties
<1> DEFINE B == Append(A, << >>)
           d == << Dot >>
<1>3. d \in Octets /\ << >> \in Octets /\ d \o << >> = d
  BY WireAssumption, EmptyOctets, ConcatEmptySeq DEF Octets, Byte
<1>4. Join(B) = Join(A) \o (d \o << >>)
  BY <1>2, <1>3, JoinAppend
<1>5. Join(B) = s \o d
  BY <1>1, <1>3, <1>4
<1> HIDE DEF d
<1> QED
  BY <1>2, <1>3, <1>5 DEF SplitTo, d

Lengthened(A, o) == [A EXCEPT ![Len(A)] = Append(@, o)]

LEMMA SplitOther ==
    ASSUME NEW A, NEW s \in Octets, SplitTo(A, s), NEW o \in Byte
    PROVE  SplitTo(Lengthened(A, o), s \o << o >>)
<1>1. PICK F \in Seq(Octets), l \in Octets : A = Append(F, l) /\ Join(A) = s
  BY DEF SplitTo
<1> DEFINE x == Append(l, o)
           e == << o >>
           d == << Dot >>
           B == Append(F, x)
           jf == Join(F)
           dl == d \o l
<1>2. x \in Octets /\ x = l \o e /\ e \in Octets /\ d \in Octets
  <2>1. Dot \in Byte
    BY WireAssumption DEF Byte
  <2>2. e \in Octets /\ d \in Octets
    BY <2>1, OneElement DEF Octets
  <2>3. x \in Octets
    BY AppendProperties DEF Octets
  <2>4. x = l \o e
    BY AppendIsConcat DEF Octets
  <2> QED
    BY <2>2, <2>3, <2>4
<1>3. Lengthened(A, o) = B
  <2>1. A[Len(A)] = l
    BY <1>1, <1>2, LastChanged
  <2> HIDE DEF x
  <2>2. Changed(A, Len(A), x) = B
    <3>1. A = Append(F, l) /\ x \in Octets
      BY <1>1, <1>2
    <3> HIDE DEF x
    <3> QED
      BY <3>1, LastChanged, Zenon
  <2>3. Lengthened(A, o) = Changed(A, Len(A), x)
    BY <2>1 DEF x, Lengthened, Changed
  <2> QED
    BY <2>2, <2>3
<1>4. /\ s = IF F = << >> THEN l ELSE jf \o dl
      /\ jf \in Octets /\ dl \in Octets
  BY <1>1, JoinAppend
<1> HIDE DEF x
<1>5. Join(B) = IF F = << >> THEN x ELSE jf \o (d \o x)
  BY <1>2, JoinAppend
<1>6. ASSUME F # << >> PROVE Join(B) = s \o e
  <2> HIDE DEF d, e, jf, dl, B
  <2>1. d \o (l \o e) = dl \o e
    <3>1. Grouped(d, l, e)
      BY <1>2, Groups
    <3> QED
      BY <3>1 DEF Grouped, dl
  <2>2. jf \in Octets /\ dl \in Octets /\ e \in Octets
    BY <1>2, <1>4
  <2>3. (jf \o dl) \o e = jf \o (dl \o e)
    <3>1. Grouped(jf, dl, e)
      BY <2>2, Groups
    <3> QED
      BY <3>1 DEF Grouped
  <2> QED
    BY <1>2, <1>4, <1>5, <1>6, <2>1, <2>3
<1>7. Join(B) = s \o e
  BY <1>2, <1>4, <1>5, <1>6
<1> HIDE DEF e
<1>8. SplitTo(B, s \o e)
  BY <1>2, <1>7 DEF SplitTo
<1> QED
  BY <1>3, <1>8 DEF e

LEMMA SplitLabelsIs ==
    ASSUME NEW name \in Octets
    PROVE  SplitLabels(name) \in Seq(Octets) /\ Join(SplitLabels(name)) = name
<1> DEFINE n == Len(name)
<1>1. n \in Nat
  BY OctetsLen
<1>2. CASE name = << >>
  <2>1. SplitLabels(name) = << >>
    BY <1>2 DEF SplitLabels
  <2>2. << >> \in Seq(Octets) /\ Len(<< >>) = 0
    BY EmptySeq
  <2>3. JoinPieces(<< >>) \in Seq(Octets) /\ Len(JoinPieces(<< >>)) = 0
    BY <2>2, JoinPiecesType
  <2>4. JoinPieces(<< >>) = << >>
    BY <2>3, EmptySeq
  <2>5. Join(<< >>) = << >>
    BY <2>4, FlattenEmpty DEF Join, JoinPieces
  <2> QED
    BY <1>2, <2>1, <2>2, <2>5
<1>3. CASE name # << >>
  <2>1. PICK f : SplitRun(f, name, n) /\ SplitLabels(name) = f[n]
    BY <1>1, <1>3, SplitRunIs
  <2> DEFINE G == {i \in Nat : i <= n => SplitTo(f[i], SubSeq(name, 1, i))}
  <2>2. 0 \in G
    <3>1. f[0] = << << >> >>
      <4> DEFINE z == 0
      <4>1. z \in 0..n /\ z = 0
        BY <1>1
      <4> HIDE DEF z, n
      <4>2. f[z] = << << >> >>
        BY <1>1, <2>1, <4>1, SplitRunAt
      <4> QED
        BY <4>1, <4>2
    <3>2. << >> \in Octets /\ << >> \in Seq(Octets)
      BY EmptyOctets, EmptySeq
    <3>3. << << >> >> = Append(<< >>, << >>)
      OBVIOUS
    <3>4. Join(Append(<< >>, << >>)) = << >>
      BY <3>2, JoinAppend
    <3>5. SubSeq(name, 1, 0) = << >>
      <4> DEFINE y == SubSeq(name, 1, 0)
      <4>1. y \in Octets /\ Len(y) = 0
        BY <1>1, PrefixOfPrefix DEF Octets
      <4> HIDE DEF y
      <4>2. y = << >>
        BY <4>1, EmptySeq DEF Octets
      <4> QED
        BY <4>2 DEF y
    <3>6. SplitTo(f[0], << >>)
      BY <3>1, <3>2, <3>3, <3>4 DEF SplitTo
    <3> QED
      BY <3>5, <3>6
  <2>3. ASSUME NEW i \in Nat, i \in G PROVE i + 1 \in G
    <3> SUFFICES ASSUME i + 1 <= n PROVE SplitTo(f[i + 1], SubSeq(name, 1, i + 1))
      OBVIOUS
    <3> DEFINE s == SubSeq(name, 1, i)
               o == name[i + 1]
    <3>1. i <= n /\ i + 1 \in 0..n /\ i + 1 # 0 /\ i + 1 - 1 = i
      BY <1>1
    <3>2. SplitTo(f[i], s)
      BY <2>3, <3>1
    <3>3. s \in Octets /\ o \in Byte /\ SubSeq(name, 1, i + 1) = s \o << o >>
      BY PrefixMore
    <3>4. f[i + 1] = IF o = Dot THEN Append(f[i], << >>)
                     ELSE Lengthened(f[i], o)
      <4> DEFINE k == i + 1
      <4>1. k \in 0..n /\ k # 0 /\ k - 1 = i
        BY <3>1
      <4> HIDE DEF k, n
      <4>2. f[k] = IF name[k] = Dot THEN Append(f[k - 1], << >>)
                     ELSE [f[k - 1] EXCEPT ![Len(f[k - 1])] = Append(@, name[k])]
        BY <1>1, <2>1, <4>1, SplitRunAt
      <4> QED
        BY <4>1, <4>2 DEF k, Lengthened
    <3> HIDE DEF s, o
    <3>5. CASE o = Dot
      BY <3>2, <3>3, <3>4, <3>5, SplitDot
    <3>6. CASE o # Dot
      BY <3>2, <3>3, <3>4, <3>6, SplitOther
    <3> QED
      BY <3>5, <3>6
  <2> HIDE DEF G
  <2>4. \A i \in Nat : i \in G
    BY <2>2, <2>3, Induction
  <2>5. SplitTo(f[n], SubSeq(name, 1, n))
    BY <1>1, <2>4 DEF G
  <2>6. SubSeq(name, 1, n) = name
    BY SubSeqFull DEF Octets
  <2>7. PICK F \in Seq(Octets), l \in Octets : f[n] = Append(F, l) /\ Join(f[n]) = name
    BY <2>5, <2>6 DEF SplitTo
  <2> QED
    BY <2>1, <2>7, AppendProperties
<1> QED
  BY <1>2, <1>3


(***************************************************************************)
(* A builder that has put names of N only.                                 *)
(***************************************************************************)
Grown(b, N) == \E W \in SUBSET N : Built(b, W)

\* r is b with more octets.
Adds(b, r, N) == r.err = "nil" /\ Grown(r, N) /\ \E x \in Octets : r.buf = b.buf \o x

LEMMA GrownIs ==
    ASSUME NEW b, NEW N, Grown(b, N)
    PROVE  IsBuilder(b) /\ b.buf \in Octets /\ Len(b.buf) \in Nat
BY OctetsLen DEF Grown, Built

LEMMA AddsChain ==
    ASSUME NEW a, NEW b, NEW c, NEW N, a.buf \in Octets, Adds(a, b, N), Adds(b, c, N)
    PROVE  Adds(a, c, N)
<1>1. PICK x \in Octets : b.buf = a.buf \o x
  BY DEF Adds
<1>2. PICK y \in Octets : c.buf = b.buf \o y
  BY DEF Adds
<1> DEFINE o == a.buf
<1>3. o \in Octets
  OBVIOUS
<1> HIDE DEF o
<1>4. (o \o x) \o y = o \o (x \o y)
  BY <1>3, Regroup, Zenon
<1>5. x \o y \in Octets
  BY JoinOctets
<1>6. c.buf = a.buf \o (x \o y)
  BY <1>1, <1>2, <1>4 DEF o
<1> QED
  BY <1>5, <1>6 DEF Adds

LEMMA AddsLen ==
    ASSUME NEW a, NEW b, NEW N, a.buf \in Octets, Adds(a, b, N)
    PROVE  Len(a.buf) \in Nat /\ Len(b.buf) \in Nat /\ Len(a.buf) <= Len(b.buf)
<1> DEFINE o == a.buf
           u == b.buf
<1>1. PICK x \in Octets : u = o \o x
  BY DEF Adds
<1>2. o \in Octets
  OBVIOUS
<1> HIDE DEF o, u
<1>3. Joined(o, x, u)
  BY <1>1, <1>2, JoinedOctets
<1> QED
  BY <1>3, OctetsLen DEF Joined, o, u

LEMMA ErrStays ==
    ASSUME NEW b
    PROVE  /\ \A s : PutBytes(b, s).err = "nil" => b.err = "nil"
           /\ \A s : PutName(b, s).err = "nil" => b.err = "nil"
           /\ \A e : e # "nil" /\ IsBuilder(b) => Refuse(b, e).err # "nil"
<1>1. ASSUME NEW e, e # "nil", IsBuilder(b) PROVE Refuse(b, e).err # "nil"
  <2>1. CASE b.err # "nil"
    BY <2>1 DEF Refuse
  <2>2. CASE b.err = "nil"
    <3>1. Refuse(b, e) = [b EXCEPT !.err = e]
      BY <2>2 DEF Refuse
    <3>2. b = [buf |-> b.buf, offsets |-> b.offsets, err |-> b.err]
      BY <1>1 DEF IsBuilder
    <3>3. Refuse(b, e).err = e
      BY <3>1, <3>2
    <3> QED
      BY <1>1, <3>3
  <2> QED
    BY <2>1, <2>2
<1>2. \A s : PutBytes(b, s).err = "nil" => b.err = "nil"
  BY DEF PutBytes
<1>3. \A s : PutName(b, s).err = "nil" => b.err = "nil"
  BY DEF PutName, PutLabels
<1> QED
  BY <1>1, <1>2, <1>3

LEMMA PutBytesIs ==
    ASSUME NEW b, IsBuilder(b), b.err = "nil", NEW s
    PROVE  PutBytes(b, s) = Build(b.buf \o s, b.offsets, "nil")
<1>1. b = [buf |-> b.buf, offsets |-> b.offsets, err |-> b.err]
  BY DEF IsBuilder
<1> DEFINE x == b.buf \o s
<1>2. PutBytes(b, s) = [b EXCEPT !.buf = x]
  BY DEF PutBytes
<1> HIDE DEF x
<1>3. PutBytes(b, s) = [buf |-> x, offsets |-> b.offsets, err |-> b.err]
  BY <1>1, <1>2
<1> QED
  BY <1>3 DEF x, Build

LEMMA PutBytesAdds ==
    ASSUME NEW b, NEW N, Grown(b, N), b.err = "nil", NEW s \in Octets
    PROVE  /\ Adds(b, PutBytes(b, s), N) /\ PutBytes(b, s).buf = b.buf \o s
           /\ PutBytes(b, s).offsets = b.offsets /\ IsBuilder(PutBytes(b, s))
           /\ PutBytes(b, s).err = "nil"
           /\ Holds(PutBytes(b, s).buf, Len(b.buf), s)
           /\ Len(PutBytes(b, s).buf) = Len(b.buf) + Len(s) /\ Len(s) \in Nat
<1> DEFINE r == PutBytes(b, s)
           o == b.buf
           u == o \o s
           e == "nil"
           f == b.offsets
<1>1. PICK W \in SUBSET N : Built(b, W)
  BY DEF Grown
<1>2. IsBuilder(b) /\ o \in Octets /\ IsFiniteSet(W) /\ Remembers(o, f, W)
  BY <1>1 DEF Built
<1>3. r = Build(u, f, e)
  BY <1>2, PutBytesIs
<1> HIDE DEF u, e, f
<1>4. IsBuilder(r) /\ r.buf = u /\ r.offsets = f /\ r.err = e
  <2> HIDE DEF r
  <2> QED
    BY <1>3, BuildIs
<1> HIDE DEF r
<1>5. Joined(o, s, u) /\ u \in Octets /\ Holds(u, Len(o), s)
  BY <1>2, JoinedOctets, JoinOctets, HoldsLast DEF u
<1>6. Remembers(u, f, W)
  BY <1>2, RemembersMore DEF u
<1>7. Len(u) = Len(o) + Len(s) /\ Len(s) \in Nat /\ Len(o) \in Nat
  BY <1>5 DEF Joined
<1>8. ASSUME NEW x \in W PROVE x \in DOMAIN f \/ PointerSpan <= Len(u)
  <2>1. x \in DOMAIN f \/ PointerSpan <= Len(o)
    BY <1>1 DEF Built, f
  <2> QED
    BY <1>7, <2>1, WireAssumption
<1>9. Built(r, W)
  BY <1>2, <1>4, <1>5, <1>6, <1>8 DEF Built
<1>10. Grown(r, N)
  BY <1>9 DEF Grown
<1> HIDE DEF o
<1>11. Adds(b, r, N)
  BY <1>4, <1>10 DEF Adds, u, e, o
<1> QED
  BY <1>4, <1>5, <1>7, <1>11 DEF r, u, e, f, o

LEMMA NamedMore ==
    ASSUME NEW buf \in Octets, NEW y \in Octets, NEW p, NEW q, NEW labels, NEW n,
           NamedAt(buf, p, q, labels, n)
    PROVE  NamedAt(buf \o y, p, q, labels, n)
BY SpelledMore DEF NamedAt

LEMMA PutNameAdds ==
    ASSUME NEW b, NEW N, IsFiniteSet(N), Grown(b, N), NEW name \in Octets,
           SplitLabels(name) \in N \cup {<< >>}, PutName(b, name).err = "nil"
    PROVE  /\ Adds(b, PutName(b, name), N) /\ b.err = "nil"
           /\ NamedAt(PutName(b, name).buf, Len(b.buf), Len(PutName(b, name).buf),
                      SplitLabels(name), Cardinality(N))
<1> DEFINE r == PutName(b, name)
           labels == SplitLabels(name)
<1>1. PICK W \in SUBSET N : Built(b, W)
  BY DEF Grown
<1>2. b.err = "nil"
  BY ErrStays
<1>3. labels \in Seq(Octets)
  BY SplitLabelsIs
<1> DEFINE V == With(W, labels)
<1>4. r = PutLabels(b, labels)
  BY DEF PutName
<1> HIDE DEF labels, r
<1>5. Puts(b, r, labels, W)
  <2>1. PutLabels(b, labels).err = "nil"
    BY <1>4 DEF r
  <2> QED
    BY <1>1, <1>2, <1>3, <1>4, <2>1, PutLabelsBuilt
<1>6. V \in SUBSET N
  BY DEF With, labels
<1> HIDE DEF V
<1>7. PICK x \in Octets :
        /\ r.buf = b.buf \o x /\ r.err = "nil" /\ Built(r, V)
        /\ NamedAt(r.buf, Len(b.buf), Len(r.buf), labels, Cardinality(V))
  BY <1>5 DEF Puts, V
<1>8. Adds(b, r, N)
  BY <1>6, <1>7 DEF Adds, Grown
<1>9. Cardinality(V) \in Nat /\ Cardinality(N) \in Nat /\ Cardinality(V) <= Cardinality(N)
  BY <1>6, FS_Subset, FS_CardinalityType
<1>10. NamedAt(r.buf, Len(b.buf), Len(r.buf), labels, Cardinality(N))
  <2> DEFINE cv == Cardinality(V)
             cn == Cardinality(N)
             p == Len(b.buf)
             q == Len(r.buf)
  <2>1. PICK h \in Nat : h <= cv /\ Spelled(r.buf, Pl(p, labels, h, q))
    BY <1>7 DEF NamedAt
  <2>2. h <= cn
    <3>1. cv \in Nat /\ cn \in Nat /\ cv <= cn
      BY <1>9
    <3> HIDE DEF cv, cn
    <3> QED
      BY <2>1, <3>1
  <2>3. labels \in Seq(Label) /\ Len(WireLabels(labels)) + 1 <= MaxNameWire
    BY <1>7 DEF NamedAt
  <2> HIDE DEF cv, cn, p, q
  <2>4. NamedAt(r.buf, p, q, labels, cn)
    BY <2>1, <2>2, <2>3 DEF NamedAt
  <2> QED
    BY <2>4 DEF cn, p, q
<1> QED
  BY <1>2, <1>8, <1>10 DEF r, labels


(***************************************************************************)
(* A builder with other octets, as many as it had, puts the same octets.   *)
(***************************************************************************)
OnBuf(b, u) == Build(u, b.offsets, b.err)

LEMMA OnBufIs ==
    ASSUME NEW b, NEW u, b.err = "nil"
    PROVE  /\ IsBuilder(OnBuf(b, u)) /\ OnBuf(b, u).buf = u
           /\ OnBuf(b, u).offsets = b.offsets /\ OnBuf(b, u).err = "nil"
<1> DEFINE f == b.offsets
           e == b.err
<1> HIDE DEF f, e
<1>1. OnBuf(b, u) = Build(u, f, e)
  BY DEF OnBuf, f, e
<1>2. IsBuilder(OnBuf(b, u)) /\ OnBuf(b, u).buf = u /\ OnBuf(b, u).offsets = f /\ OnBuf(b, u).err = e
  BY <1>1, BuildIs
<1> QED
  BY <1>2 DEF f, e

LEMMA PutLabelsPut ==
    ASSUME NEW b, IsBuilder(b), b.err = "nil", NEW labels, Encodable(labels)
    PROVE  PutLabels(b, labels) =
             Build((b.buf \o WireLabels(NewLabels(b, labels))) \o Ending(b, labels),
                   Beside(NewOffsets(b, labels), b.offsets), "nil")
<1> DEFINE w == WireLabels(NewLabels(b, labels))
           t == Ending(b, labels)
           n == NewOffsets(b, labels)
           r == PutLabels(b, labels)
<1>1. r = IF ~ Encodable(labels) THEN Refuse(b, "bad name")
          ELSE [b EXCEPT !.buf = (@ \o w) \o t, !.offsets = Beside(n, @)]
  BY DEF PutLabels, Suffix, Known, StopAt, Fresh, NewOffsets, Ending, NewLabels, OffsetOf
<1> HIDE DEF w, t, n, r
<1>3. r = Build((b.buf \o w) \o t, Beside(n, b.offsets), "nil")
  <2>1. b = [buf |-> b.buf, offsets |-> b.offsets, err |-> b.err]
    BY DEF IsBuilder
  <2>2. r = [b EXCEPT !.buf = (b.buf \o w) \o t, !.offsets = Beside(n, b.offsets)]
    BY <1>1
  <2> DEFINE x == (b.buf \o w) \o t
             y == Beside(n, b.offsets)
  <2> HIDE DEF x, y
  <2>3. r = [b EXCEPT !.buf = x, !.offsets = y]
    BY <2>2 DEF x, y
  <2>4. r = [buf |-> x, offsets |-> y, err |-> b.err]
    BY <2>1, <2>3
  <2> QED
    BY <2>4 DEF x, y, Build
<1> QED
  BY <1>3 DEF w, t, n, r

LEMMA EncodableLabels ==
    ASSUME NEW labels \in Seq(Octets), Encodable(labels) PROVE labels \in Seq(Label)
<1> DEFINE n == Len(labels)
<1>1. n \in Nat /\ DOMAIN labels = 1..n
  BY LenProperties
<1>2. ASSUME NEW i \in 1..n PROVE labels[i] \in Label
  <2>1. labels[i] \in Octets /\ Len(labels[i]) \in 1..MaxLabelLen
    BY <1>1, ElementOfSeq DEF Encodable
  <2> QED
    BY <2>1 DEF Label, MaxLabelLen
<1>3. labels \in [1..n -> Label]
  <2>1. labels = [i \in 1..n |-> labels[i]]
    BY <1>1
  <2> QED
    BY <1>2, <2>1
<1> QED
  BY <1>1, <1>3, FunctionSeq

\* s is r, with the octets that were added to b added to u.
SameOn(b, r, u, s) == \E x \in Octets : r.buf = b.buf \o x /\ s = OnBuf(r, u \o x)

LEMMA SameLen ==
    ASSUME NEW b, b.buf \in Octets, NEW r, NEW u \in Octets, Len(u) = Len(b.buf), NEW x \in Octets,
           r.buf = b.buf \o x
    PROVE  u \o x \in Octets /\ Len(u \o x) = Len(r.buf) /\ r.buf \in Octets
<1> DEFINE o == b.buf
           v == r.buf
<1>1. o \in Octets /\ v = o \o x /\ Len(u) = Len(o)
  OBVIOUS
<1> HIDE DEF o, v
<1>2. Joined(o, x, v) /\ Joined(u, x, u \o x)
  BY <1>1, JoinedOctets
<1> QED
  BY <1>1, <1>2 DEF Joined, v

LEMMA PutBytesSame ==
    ASSUME NEW b, IsBuilder(b), b.err = "nil", NEW u, NEW x \in Octets
    PROVE  SameOn(b, PutBytes(b, x), u, PutBytes(OnBuf(b, u), x))
<1> DEFINE c == OnBuf(b, u)
           f == b.offsets
           e == "nil"
           v == b.buf \o x
           w == u \o x
           r == PutBytes(b, x)
           s == PutBytes(c, x)
<1>1. IsBuilder(c) /\ c.buf = u /\ c.offsets = f /\ c.err = e
  BY OnBufIs
<1>2. r = Build(v, f, e)
  BY PutBytesIs
<1>3. s = Build(w, f, e)
  <2> HIDE DEF c
  <2> QED
    BY <1>1, PutBytesIs
<1> HIDE DEF f, e, v, w, r, s
<1>4. r.buf = v /\ r.offsets = f /\ r.err = e
  BY <1>2, BuildIs
<1>5. s = OnBuf(r, w)
  BY <1>3, <1>4 DEF OnBuf
<1> QED
  BY <1>4, <1>5 DEF SameOn, v, w, r, s, c

LEMMA PutNameSame ==
    ASSUME NEW b, NEW N, Grown(b, N), b.err = "nil", NEW name \in Octets,
           PutName(b, name).err = "nil", NEW u \in Octets, Len(u) = Len(b.buf)
    PROVE  SameOn(b, PutName(b, name), u, PutName(OnBuf(b, u), name))
<1> DEFINE c == OnBuf(b, u)
           labels == SplitLabels(name)
           f == b.offsets
           o == b.buf
           r == PutLabels(b, labels)
           s == PutLabels(c, labels)
           wx == WireLabels(NewLabels(b, labels))
           t == Ending(b, labels)
           g == Beside(NewOffsets(b, labels), f)
           e == "nil"
<1>1. IsBuilder(c) /\ c.buf = u /\ c.offsets = f /\ c.err = e
  BY OnBufIs
<1>2. PICK W \in SUBSET N : Built(b, W)
  BY DEF Grown
<1>3. IsBuilder(b) /\ o \in Octets
  BY <1>2 DEF Built
<1>4. labels \in Seq(Octets)
  BY SplitLabelsIs
<1>5. PutName(b, name) = r /\ PutName(c, name) = s
  BY DEF PutName
<1> HIDE DEF labels, c
<1>6. Encodable(labels)
  BY <1>3, <1>5, PutLabelsIs
<1>7. labels \in Seq(Label)
  BY <1>4, <1>6, EncodableLabels
<1>8. r = Build((o \o wx) \o t, g, e)
  BY <1>3, <1>6, PutLabelsPut
<1>9. s = Build((u \o wx) \o t, g, e)
  <2> DEFINE wc == WireLabels(NewLabels(c, labels))
             tc == Ending(c, labels)
             gc == Beside(NewOffsets(c, labels), c.offsets)
  <2>1. s = Build((c.buf \o wc) \o tc, gc, e)
    BY <1>1, <1>6, PutLabelsPut
  <2>2. StopAt(c, labels) = StopAt(b, labels)
    BY <1>1 DEF StopAt, Known
  <2>3. wc = wx /\ tc = t
    BY <1>1, <2>2 DEF NewLabels, Ending
  <2>4. \A i : OffsetOf(c.buf, labels, i) = OffsetOf(o, labels, i)
    BY <1>1 DEF OffsetOf
  <2>5. Fresh(c, labels) = Fresh(b, labels)
    BY <2>2, <2>4 DEF Fresh
  <2>6. NewOffsets(c, labels) = NewOffsets(b, labels)
    BY <2>4, <2>5 DEF NewOffsets
  <2> QED
    BY <1>1, <2>1, <2>3, <2>6
<1>10. wx \in Octets /\ t \in Octets
  <2>1. t \in Octets /\ WireLabels(SubSeq(labels, 1, StopAt(b, labels) - 1)) \in Octets
    BY <1>2, <1>7, NameEnds
  <2> QED
    BY <2>1 DEF NewLabels
<1> DEFINE x == wx \o t
           p == (o \o wx) \o t
           q == (u \o wx) \o t
<1> HIDE DEF f, o, wx, t, g, e, r, s
<1>11. o \in Octets /\ wx \in Octets /\ t \in Octets
  BY <1>3, <1>10
<1>12. x \in Octets /\ p = o \o x
  <2>1. x \in Octets
    BY <1>11, JoinOctets
  <2>2. p = o \o x
    <3>1. Grouped(o, wx, t)
      BY <1>11, Groups
    <3> QED
      BY <3>1 DEF Grouped
  <2> QED
    BY <2>1, <2>2
<1>13. ASSUME u \in Octets PROVE q = u \o x
  BY <1>10, <1>13, Regroup, Zenon
<1> HIDE DEF p, q, x
<1>14. r.buf = p /\ r.offsets = g /\ r.err = e
  <2>1. r = Build(p, g, e)
    BY <1>8 DEF p
  <2> QED
    BY <2>1, BuildIs
<1>15. ASSUME u \in Octets PROVE s = OnBuf(r, u \o x)
  <2>1. s = Build(u \o x, g, e)
    BY <1>9, <1>13, <1>15 DEF q
  <2> QED
    BY <1>14, <2>1 DEF OnBuf
<1>16. ASSUME u \in Octets PROVE SameOn(b, r, u, s)
  BY <1>12, <1>14, <1>15, <1>16 DEF SameOn, o
<1> QED
  BY <1>5, <1>16 DEF c, r, s


(***************************************************************************)
(* Strings of octets in a row.                                             *)
(***************************************************************************)
LEMMA RowMore ==
    ASSUME NEW f, NEW n \in Nat \ {0}
    PROVE  FlattenSeq([i \in 1..(n + 1) |-> f[i]]) = FlattenSeq([i \in 1..n |-> f[i]]) \o f[n + 1]
<1> DEFINE ss == [i \in 1..n |-> f[i]]
           tt == [i \in 1..(n + 1) |-> f[i]]
<1>1. n + 1 \in Nat /\ n \in Nat
  OBVIOUS
<1>2. Len(ss) = n /\ Len(tt) = n + 1
  BY <1>1
<1>3. (\A i \in 1..n : tt[i] = ss[i]) /\ tt[n + 1] = f[n + 1]
  OBVIOUS
<1> HIDE DEF ss, tt
<1>4. FlattenSeq(tt) = FlattenSeq(ss) \o tt[n + 1]
  BY <1>2, <1>3, FlattenMore
<1> QED
  BY <1>3, <1>4 DEF ss, tt

LEMMA RowOne ==
    ASSUME NEW f PROVE FlattenSeq([i \in 1..1 |-> f[i]]) = f[1]
<1> DEFINE ss == [i \in 1..1 |-> f[i]]
<1>1. Len(ss) = 1 /\ ss[1] = f[1]
  OBVIOUS
<1> HIDE DEF ss
<1>2. FlattenSeq(ss) = ss[1]
  BY <1>1, FlattenFirst
<1> QED
  BY <1>1, <1>2 DEF ss

Four(a, b, c, d) == ((a \o b) \o c) \o d

LEMMA RowFour ==
    ASSUME NEW f
    PROVE  /\ FlattenSeq([i \in 1..4 |-> f[i]]) = Four(f[1], f[2], f[3], f[4])
           /\ FlattenSeq([i \in 1..5 |-> f[i]]) = Four(f[1], f[2], f[3], f[4]) \o f[5]
<1> DEFINE row(n) == FlattenSeq([i \in 1..n |-> f[i]])
<1>1. row(1) = f[1]
  BY RowOne
<1>2. \A n \in Nat \ {0} : row(n + 1) = row(n) \o f[n + 1]
  BY RowMore
<1> HIDE DEF row
<1>3. row(2) = row(1) \o f[2]
  <2>1. row(1 + 1) = row(1) \o f[1 + 1] /\ 1 + 1 = 2
    BY <1>2
  <2> QED
    BY <2>1
<1>4. row(3) = row(2) \o f[3]
  <2>1. row(2 + 1) = row(2) \o f[2 + 1] /\ 2 + 1 = 3
    BY <1>2
  <2> QED
    BY <2>1
<1>5. row(4) = row(3) \o f[4]
  <2>1. row(3 + 1) = row(3) \o f[3 + 1] /\ 3 + 1 = 4
    BY <1>2
  <2> QED
    BY <2>1
<1>6. row(5) = row(4) \o f[5]
  <2>1. row(4 + 1) = row(4) \o f[4 + 1] /\ 4 + 1 = 5
    BY <1>2
  <2> QED
    BY <2>1
<1> QED
  BY <1>1, <1>3, <1>4, <1>5, <1>6 DEF Four, row

LEMMA FourOctets ==
    ASSUME NEW a \in Octets, NEW b \in Octets, NEW c \in Octets, NEW d \in Octets
    PROVE  /\ a \o b \in Octets /\ (a \o b) \o c \in Octets /\ Four(a, b, c, d) \in Octets
           /\ Len(a) \in Nat /\ Len(b) \in Nat /\ Len(c) \in Nat /\ Len(d) \in Nat
           /\ Len(a \o b) = Len(a) + Len(b)
           /\ Len((a \o b) \o c) = (Len(a) + Len(b)) + Len(c)
           /\ Len(Four(a, b, c, d)) = ((Len(a) + Len(b)) + Len(c)) + Len(d)
<1> DEFINE x == a \o b
           y == x \o c
           z == y \o d
<1>1. Joined(a, b, x) /\ x \in Octets
  BY JoinedOctets, JoinOctets
<1> HIDE DEF x
<1>2. Joined(x, c, y) /\ y \in Octets
  BY <1>1, JoinedOctets, JoinOctets
<1> HIDE DEF y
<1>3. Joined(y, d, z) /\ z \in Octets
  BY <1>2, JoinedOctets, JoinOctets
<1> HIDE DEF z
<1>4. /\ Len(a) \in Nat /\ Len(b) \in Nat /\ Len(c) \in Nat /\ Len(d) \in Nat
      /\ Len(x) = Len(a) + Len(b) /\ Len(y) = Len(x) + Len(c) /\ Len(z) = Len(y) + Len(d)
  BY <1>1, <1>2, <1>3 DEF Joined
<1> QED
  BY <1>1, <1>2, <1>3, <1>4 DEF Four, x, y, z

LEMMA HoldsFour ==
    ASSUME NEW o \in Octets, NEW p \in Nat, NEW a \in Octets, NEW b \in Octets,
           NEW c \in Octets, NEW d \in Octets, Holds(o, p, Four(a, b, c, d))
    PROVE  /\ Holds(o, p, a) /\ Holds(o, p + Len(a), b) /\ Holds(o, p + (Len(a) + Len(b)), c)
           /\ Holds(o, p + ((Len(a) + Len(b)) + Len(c)), d)
<1> DEFINE x == a \o b
           y == x \o c
<1>1. /\ x \in Octets /\ y \in Octets /\ Len(x) = Len(a) + Len(b)
      /\ Len(y) = (Len(a) + Len(b)) + Len(c)
  BY FourOctets
<1>2. Holds(o, p, y \o d)
  BY DEF Four
<1> HIDE DEF y
<1>3. Holds(o, p, y) /\ Holds(o, p + Len(y), d)
  BY <1>1, <1>2, HoldsJoin
<1>4. Holds(o, p, x \o c)
  BY <1>3 DEF y
<1> HIDE DEF x
<1>5. Holds(o, p, x) /\ Holds(o, p + Len(x), c)
  BY <1>1, <1>4, HoldsJoin
<1>6. Holds(o, p, a \o b)
  BY <1>5 DEF x
<1>7. Holds(o, p, a) /\ Holds(o, p + Len(a), b)
  BY <1>6, HoldsJoin
<1> QED
  BY <1>1, <1>3, <1>5, <1>7

\* The numbers of SOA data.
SoaOctets(vals) == FlattenSeq([i \in 1..5 |-> U32(vals[i])])

LEMMA SoaOctetsAre ==
    ASSUME NEW v \in [1..5 -> Word32]
    PROVE  /\ SoaOctets(v) \in Octets /\ Len(SoaOctets(v)) = 20
           /\ \A o \in Octets, p \in Nat : Holds(o, p, SoaOctets(v)) =>
                SoaVals(o, p) = v /\ p + 20 <= Len(o)
<1> DEFINE f == [i \in 1..5 |-> U32(v[i])]
           w == Four(f[1], f[2], f[3], f[4])
<1>1. \A i \in 1..5 : f[i] = U32(v[i]) /\ v[i] \in Word32 /\ f[i] \in Octets /\ Len(f[i]) = 4
  BY U32Octets
<1>2. SoaOctets(v) = w \o f[5]
  <2>1. f = [i \in 1..5 |-> f[i]]
    OBVIOUS
  <2>2. SoaOctets(v) = FlattenSeq(f)
    BY DEF SoaOctets
  <2> HIDE DEF f
  <2> QED
    BY <2>1, <2>2, RowFour
<1> HIDE DEF f
<1>3. /\ f[1] \in Octets /\ f[2] \in Octets /\ f[3] \in Octets /\ f[4] \in Octets /\ f[5] \in Octets
      /\ Len(f[1]) = 4 /\ Len(f[2]) = 4 /\ Len(f[3]) = 4 /\ Len(f[4]) = 4 /\ Len(f[5]) = 4
  BY <1>1
<1>4. w \in Octets /\ Len(w) = 16
  <2>1. w \in Octets /\ Len(w) = ((Len(f[1]) + Len(f[2])) + Len(f[3])) + Len(f[4])
    <3> DEFINE a == f[1]
               b == f[2]
               c == f[3]
               d == f[4]
    <3>1. a \in Octets /\ b \in Octets /\ c \in Octets /\ d \in Octets
      BY <1>3
    <3> HIDE DEF a, b, c, d
    <3>2. /\ Four(a, b, c, d) \in Octets
          /\ Len(Four(a, b, c, d)) = ((Len(a) + Len(b)) + Len(c)) + Len(d)
      BY <3>1, FourOctets
    <3> QED
      BY <3>2 DEF a, b, c, d
  <2> HIDE DEF w
  <2> QED
    BY <1>3, <2>1
<1> HIDE DEF w
<1>5. w \o f[5] \in Octets /\ Len(w \o f[5]) = 20
  <2> DEFINE a == f[5]
             z == w \o a
  <2>1. a \in Octets /\ Len(a) = 4
    BY <1>3
  <2> HIDE DEF a
  <2>2. Joined(w, a, z) /\ z \in Octets
    BY <1>4, <2>1, JoinedOctets, JoinOctets
  <2> HIDE DEF z
  <2>3. Len(z) = 20
    BY <1>4, <2>1, <2>2 DEF Joined
  <2> QED
    BY <2>2, <2>3 DEF z, a
<1>6. ASSUME NEW o \in Octets, NEW p \in Nat, Holds(o, p, w \o f[5])
      PROVE  SoaVals(o, p) = v /\ p + 20 <= Len(o)
  <2>1. Holds(o, p, w) /\ Holds(o, p + 16, f[5])
    BY <1>3, <1>4, <1>6, HoldsJoin
  <2>2. /\ Holds(o, p, f[1]) /\ Holds(o, p + 4, f[2])
        /\ Holds(o, p + 8, f[3]) /\ Holds(o, p + 12, f[4])
    <3>1. /\ Holds(o, p, f[1]) /\ Holds(o, p + Len(f[1]), f[2])
          /\ Holds(o, p + (Len(f[1]) + Len(f[2])), f[3])
          /\ Holds(o, p + ((Len(f[1]) + Len(f[2])) + Len(f[3])), f[4])
      BY <1>3, <2>1, HoldsFour DEF w
    <3>2. 4 + 4 = 8 /\ 8 + 4 = 12
      OBVIOUS
    <3> QED
      BY <1>3, <3>1, <3>2
  <2>3. /\ LongAt(o, p) = v[1] /\ LongAt(o, p + 4) = v[2] /\ LongAt(o, p + 8) = v[3]
        /\ LongAt(o, p + 12) = v[4] /\ LongAt(o, p + 16) = v[5] /\ p + 16 + 4 <= Len(o)
    BY <1>1, <2>1, <2>2, HoldsLong
  <2>4. p + 16 + 4 = p + 20
    OBVIOUS
  <2>5. v = << v[1], v[2], v[3], v[4], v[5] >>
    OBVIOUS
  <2> QED
    BY <2>3, <2>4, <2>5 DEF SoaVals
<1> QED
  BY <1>2, <1>5, <1>6


(***************************************************************************)
(* The data of a record.                                                   *)
(***************************************************************************)
Text == {l \in Octets : Len(l) \in 0..255}

LEMMA StringsOctets ==
    ASSUME NEW ss \in Seq(Octets), \A i \in DOMAIN ss : Len(ss[i]) <= 255
    PROVE  ss \in Seq(Text) /\ Strings(ss) = FlattenSeq(Pieces(ss)) /\ Strings(ss) \in Octets
<1> DEFINE n == Len(ss)
           f == [i \in 1..n |-> Piece(ss[i])]
<1>1. n \in Nat /\ DOMAIN ss = 1..n /\ ss = [i \in 1..n |-> ss[i]]
  BY LenProperties
<1>2. ASSUME NEW i \in 1..n PROVE ss[i] \in Text /\ Piece(ss[i]) \in Octets
  <2> DEFINE l == ss[i]
             k == Len(l)
             h == << k >>
  <2>1. l \in Octets /\ k <= 255
    BY <1>1, ElementOfSeq
  <2>2. k \in Nat
    BY <2>1, OctetsLen
  <2> HIDE DEF l
  <2>3. h \in Octets
    <3> HIDE DEF k
    <3>1. k \in Byte
      BY <2>1, <2>2 DEF Byte
    <3> QED
      BY <3>1, OneElement DEF Octets
  <2> HIDE DEF h
  <2>4. h \o l \in Octets
    BY <2>1, <2>3, JoinOctets
  <2>5. l \in Text
    <3>1. k \in 0..255
      <4> HIDE DEF k
      <4> QED
        BY <2>1, <2>2
    <3> QED
      BY <2>1, <3>1 DEF Text
  <2> QED
    BY <2>4, <2>5 DEF Piece, l, h, k
<1>3. f \in [1..n -> Octets]
  BY <1>2
<1>4. ss \in Seq(Text)
  <2>1. ss \in [1..n -> Text]
    BY <1>1, <1>2
  <2> QED
    BY <1>1, <2>1, FunctionSeq
<1>5. Pieces(ss) = f /\ Strings(ss) = FlattenSeq(f)
  BY <1>1 DEF Pieces, Strings, Piece
<1> HIDE DEF f
<1>6. f \in Seq(Octets)
  BY <1>1, <1>3, FunctionSeq
<1>7. FlattenSeq(f) \in Octets
  BY <1>6, FlattenType DEF Octets
<1> QED
  BY <1>4, <1>5, <1>7

\* The data d lie from p to q.
DataLaid(buf, p, q, d, n) ==
    /\ d.kind = "A" => Len(d.addr) = 4 /\ Holds(buf, p, d.addr) /\ q = p + 4
    /\ d.kind = "AAAA" => Len(d.addr) = 16 /\ Holds(buf, p, d.addr) /\ q = p + 16
    /\ d.kind = "TXT" =>
         /\ d.strings # << >> /\ d.strings \in Seq(Text)
         /\ Holds(buf, p, Strings(d.strings)) /\ q = p + Len(Strings(d.strings))
    /\ d.kind \in {"NS", "CNAME"} => NamedAt(buf, p, q, SplitLabels(d.host), n)
    /\ d.kind = "SOA" =>
         \E e \in Nat, f \in Nat :
           /\ NamedAt(buf, p, e, SplitLabels(d.mname), n)
           /\ NamedAt(buf, e, f, SplitLabels(d.rname), n)
           /\ Holds(buf, f, SoaOctets(d.vals)) /\ q = f + 20
    /\ d.kind = "raw" => Holds(buf, p, d.data) /\ q = p + Len(d.data)

\* What AppendTo does, kind by kind.
LEMMA AppendToIs ==
    ASSUME NEW b, NEW d
    PROVE  /\ d.kind = "A" => AppendTo(b, d) =
                IF Len(d.addr) = 4 THEN PutBytes(b, d.addr) ELSE Refuse(b, "not IPv4")
           /\ d.kind = "AAAA" => AppendTo(b, d) =
                IF Len(d.addr) = 16 /\ ~ Is4In6Octets(d.addr) THEN PutBytes(b, d.addr)
                ELSE Refuse(b, "not IPv6")
           /\ d.kind = "TXT" => AppendTo(b, d) =
                IF d.strings # << >> /\ \A i \in DOMAIN d.strings : Len(d.strings[i]) <= 255
                THEN PutBytes(b, Strings(d.strings)) ELSE Refuse(b, "bad TXT")
           /\ d.kind \in {"NS", "CNAME"} => AppendTo(b, d) = PutName(b, d.host)
           /\ d.kind = "SOA" => AppendTo(b, d) =
                PutBytes(PutName(PutName(b, d.mname), d.rname), SoaOctets(d.vals))
           /\ d.kind = "raw" => AppendTo(b, d) = PutBytes(b, d.data)
BY DEF AppendTo, SoaOctets

LEMMA DataKinds ==
    ASSUME NEW d \in DnsData
    PROVE  /\ d.kind \in {"A", "AAAA", "TXT", "NS", "CNAME", "SOA", "raw"}
           /\ d.kind \in {"A", "AAAA"} => d.addr \in Octets
           /\ d.kind = "TXT" => d.strings \in Seq(Octets)
           /\ d.kind \in {"NS", "CNAME"} => d.host \in Octets
           /\ d.kind = "SOA" => d.mname \in Octets /\ d.rname \in Octets /\ d.vals \in [1..5 -> Word32]
           /\ d.kind = "raw" => d.data \in Octets
BY DEF DnsData

\* What is appended: octets, or names.
DataOctets(d) ==
    CASE d.kind \in {"A", "AAAA"} -> d.addr
      [] d.kind = "TXT" -> Strings(d.strings)
      [] d.kind = "raw" -> d.data
      [] OTHER -> << >>

LEMMA PlainData ==
    ASSUME NEW b, IsBuilder(b), NEW d \in DnsData, d.kind \in {"A", "AAAA", "TXT", "raw"},
           AppendTo(b, d).err = "nil"
    PROVE  /\ DataOctets(d) \in Octets /\ b.err = "nil"
           /\ \A c : AppendTo(c, d) = PutBytes(c, DataOctets(d))
           /\ \A buf, p, n : Holds(buf, p, DataOctets(d)) =>
                DataLaid(buf, p, p + Len(DataOctets(d)), d, n)
<1>1. CASE d.kind = "A"
  <2>1. Len(d.addr) = 4
    <3> SUFFICES ASSUME Len(d.addr) # 4 PROVE FALSE
      OBVIOUS
    <3>1. AppendTo(b, d) = Refuse(b, "not IPv4")
      BY <1>1, AppendToIs
    <3> QED
      BY <3>1, ErrStays
  <2>2. DataOctets(d) = d.addr /\ d.addr \in Octets
    BY <1>1, DataKinds DEF DataOctets
  <2>3. \A c : AppendTo(c, d) = PutBytes(c, DataOctets(d))
    BY <1>1, <2>1, <2>2, AppendToIs
  <2>4. b.err = "nil"
    BY <2>3, ErrStays
  <2> QED
    BY <1>1, <2>1, <2>2, <2>3, <2>4 DEF DataLaid
<1>2. CASE d.kind = "AAAA"
  <2>1. Len(d.addr) = 16 /\ ~ Is4In6Octets(d.addr)
    <3> SUFFICES ASSUME ~ (Len(d.addr) = 16 /\ ~ Is4In6Octets(d.addr)) PROVE FALSE
      OBVIOUS
    <3>1. AppendTo(b, d) = Refuse(b, "not IPv6")
      BY <1>2, AppendToIs
    <3> QED
      BY <3>1, ErrStays
  <2>2. DataOctets(d) = d.addr /\ d.addr \in Octets
    BY <1>2, DataKinds DEF DataOctets
  <2>3. \A c : AppendTo(c, d) = PutBytes(c, DataOctets(d))
    BY <1>2, <2>1, <2>2, AppendToIs
  <2>4. b.err = "nil"
    BY <2>3, ErrStays
  <2> QED
    BY <1>2, <2>1, <2>2, <2>3, <2>4 DEF DataLaid
<1>3. CASE d.kind = "TXT"
  <2> DEFINE good == d.strings # << >> /\ \A i \in DOMAIN d.strings : Len(d.strings[i]) <= 255
  <2>1. good
    <3> SUFFICES ASSUME ~ good PROVE FALSE
      OBVIOUS
    <3>1. AppendTo(b, d) = Refuse(b, "bad TXT")
      BY <1>3, AppendToIs
    <3> QED
      BY <3>1, ErrStays
  <2>2. d.strings \in Seq(Octets)
    BY <1>3, DataKinds
  <2>3. DataOctets(d) = Strings(d.strings) /\ d.strings \in Seq(Text) /\ Strings(d.strings) \in Octets
    BY <1>3, <2>1, <2>2, StringsOctets DEF DataOctets
  <2>4. \A c : AppendTo(c, d) = PutBytes(c, DataOctets(d))
    BY <1>3, <2>1, <2>3, AppendToIs
  <2>5. b.err = "nil"
    BY <2>4, ErrStays
  <2>6. \A buf, p, n : Holds(buf, p, DataOctets(d)) =>
                DataLaid(buf, p, p + Len(DataOctets(d)), d, n)
    BY <1>3, <2>1, <2>3 DEF DataLaid
  <2> QED
    BY <2>3, <2>4, <2>5, <2>6
<1>4. CASE d.kind = "raw"
  <2>2. DataOctets(d) = d.data /\ d.data \in Octets
    BY <1>4, DataKinds DEF DataOctets
  <2>3. \A c : AppendTo(c, d) = PutBytes(c, DataOctets(d))
    BY <1>4, <2>2, AppendToIs
  <2>4. b.err = "nil"
    BY <2>3, ErrStays
  <2> QED
    BY <1>4, <2>2, <2>3, <2>4 DEF DataLaid
<1> QED
  BY <1>1, <1>2, <1>3, <1>4


LEMMA SameChain ==
    ASSUME NEW a, a.buf \in Octets, NEW b, NEW x \in Octets, b.buf = a.buf \o x,
           NEW c, NEW u \in Octets, NEW s, SameOn(b, c, u \o x, s)
    PROVE  SameOn(a, c, u, s)
<1> DEFINE v == u \o x
           o == a.buf
           ob == b.buf
           oc == c.buf
<1>1. PICK y \in Octets : oc = ob \o y /\ s = OnBuf(c, v \o y)
  BY DEF SameOn
<1>2. o \in Octets /\ ob = o \o x
  OBVIOUS
<1> DEFINE z == x \o y
<1> HIDE DEF o, ob, oc
<1>3. z \in Octets
  BY JoinOctets
<1>4. (o \o x) \o y = o \o z
  BY <1>2, Regroup, Zenon
<1>5. v \o y = u \o z
  BY Regroup, Zenon
<1> HIDE DEF v, z
<1>6. oc = o \o z /\ s = OnBuf(c, u \o z)
  BY <1>1, <1>2, <1>4, <1>5
<1> QED
  BY <1>3, <1>6 DEF SameOn, o, oc

LEMMA SoaNames ==
    ASSUME NEW N, NEW d, d.kind = "SOA", \A x \in DataNames(d) : SplitLabels(x) \in N \cup {<< >>}
    PROVE  SplitLabels(d.mname) \in N \cup {<< >>} /\ SplitLabels(d.rname) \in N \cup {<< >>}
<1>1. DataNames(d) = {d.mname, d.rname}
  BY DEF DataNames
<1> QED
  BY <1>1

LEMMA NamedLen ==
    ASSUME NEW a, NEW b, NEW N, NEW o, a.buf \in Octets, Adds(a, b, N), NEW p, NEW q, NEW labels, NEW n,
           NamedAt(a.buf, p, q, labels, n)
    PROVE  NamedAt(b.buf, p, q, labels, n)
<1>1. PICK x \in Octets : b.buf = a.buf \o x
  BY DEF Adds
<1> DEFINE oa == a.buf
<1>2. oa \in Octets /\ NamedAt(oa, p, q, labels, n)
  OBVIOUS
<1> HIDE DEF oa
<1>3. NamedAt(oa \o x, p, q, labels, n)
  BY <1>2, NamedMore
<1> QED
  BY <1>1, <1>3 DEF oa

LEMMA SoaAdds ==
    ASSUME NEW b, NEW N, IsFiniteSet(N), Grown(b, N), NEW d \in DnsData, d.kind = "SOA",
           \A x \in DataNames(d) : SplitLabels(x) \in N \cup {<< >>},
           AppendTo(b, d).err = "nil"
    PROVE  /\ b.err = "nil" /\ Adds(b, AppendTo(b, d), N)
           /\ DataLaid(AppendTo(b, d).buf, Len(b.buf), Len(AppendTo(b, d).buf), d, Cardinality(N))
           /\ \A u \in Octets : Len(u) = Len(b.buf) =>
                SameOn(b, AppendTo(b, d), u, AppendTo(OnBuf(b, u), d))
<1> DEFINE m == d.mname
           r == d.rname
           s == SoaOctets(d.vals)
           b1 == PutName(b, m)
           b2 == PutName(b1, r)
           b3 == PutBytes(b2, s)
           n == Cardinality(N)
<1>1. /\ m \in Octets /\ r \in Octets /\ s \in Octets /\ Len(s) = 20
      /\ SplitLabels(m) \in N \cup {<< >>} /\ SplitLabels(r) \in N \cup {<< >>}
  BY DataKinds, SoaNames, SoaOctetsAre
<1>2. AppendTo(b, d) = b3
  BY AppendToIs
<1> HIDE DEF m, r, s, n
<1>3. b1.err = "nil" /\ b2.err = "nil" /\ b.err = "nil"
  BY <1>2, ErrStays
<1>4. /\ Adds(b, b1, N)
      /\ NamedAt(b1.buf, Len(b.buf), Len(b1.buf), SplitLabels(m), n)
  BY <1>1, <1>3, PutNameAdds DEF n
<1> HIDE DEF b1
<1>5. Grown(b1, N)
  BY <1>4 DEF Adds
<1>6. /\ Adds(b1, b2, N)
      /\ NamedAt(b2.buf, Len(b1.buf), Len(b2.buf), SplitLabels(r), n)
  BY <1>1, <1>3, <1>5, PutNameAdds DEF n
<1> HIDE DEF b2
<1>7. Grown(b2, N)
  BY <1>6 DEF Adds
<1>8. /\ Adds(b2, b3, N) /\ b3.buf = b2.buf \o s /\ Holds(b3.buf, Len(b2.buf), s)
      /\ Len(b3.buf) = Len(b2.buf) + Len(s) /\ Len(s) \in Nat
  BY <1>1, <1>3, <1>7, PutBytesAdds
<1> HIDE DEF b3
<1>9. /\ b.buf \in Octets /\ b1.buf \in Octets /\ b2.buf \in Octets
      /\ IsBuilder(b2) /\ Len(b1.buf) \in Nat /\ Len(b2.buf) \in Nat
  BY <1>5, <1>7, GrownIs
<1>10. Adds(b, b3, N)
  <2>1. Adds(b, b2, N)
    BY <1>4, <1>6, <1>9, AddsChain
  <2> QED
    BY <1>8, <1>9, <2>1, AddsChain
<1>11. DataLaid(b3.buf, Len(b.buf), Len(b3.buf), d, n)
  <2>1. NamedAt(b2.buf, Len(b.buf), Len(b1.buf), SplitLabels(m), n)
    BY <1>4, <1>6, <1>9, NamedLen
  <2>2. NamedAt(b3.buf, Len(b.buf), Len(b1.buf), SplitLabels(m), n)
    BY <1>8, <1>9, <2>1, NamedLen
  <2>3. NamedAt(b3.buf, Len(b1.buf), Len(b2.buf), SplitLabels(r), n)
    BY <1>6, <1>8, <1>9, NamedLen
  <2>4. Len(b3.buf) = Len(b2.buf) + 20
    BY <1>1, <1>8
  <2> DEFINE p == Len(b.buf)
             e == Len(b1.buf)
             f == Len(b2.buf)
             q == Len(b3.buf)
             o == b3.buf
  <2>5. /\ NamedAt(o, p, e, SplitLabels(m), n) /\ NamedAt(o, e, f, SplitLabels(r), n)
        /\ Holds(o, f, s) /\ q = f + 20 /\ e \in Nat /\ f \in Nat
    BY <1>8, <1>9, <2>2, <2>3, <2>4
  <2> HIDE DEF p, e, f, q, o
  <2>6. DataLaid(o, p, q, d, n)
    BY <2>5 DEF DataLaid, m, r, s
  <2> QED
    BY <2>6 DEF p, q, o
<1>12. ASSUME NEW u \in Octets, Len(u) = Len(b.buf)
       PROVE  SameOn(b, b3, u, AppendTo(OnBuf(b, u), d))
  <2> DEFINE c == OnBuf(b, u)
             c1 == PutName(c, m)
             c2 == PutName(c1, r)
             c3 == PutBytes(c2, s)
  <2>1. AppendTo(c, d) = c3
    BY AppendToIs DEF m, r, s
  <2>2. SameOn(b, b1, u, c1)
    BY <1>1, <1>3, <1>12, PutNameSame DEF b1
  <2> HIDE DEF c1
  <2>3. PICK x \in Octets : b1.buf = b.buf \o x /\ c1 = OnBuf(b1, u \o x)
    BY <2>2 DEF SameOn
  <2> DEFINE v == u \o x
  <2>4. v \in Octets /\ Len(v) = Len(b1.buf)
    <3>1. b1.buf = b.buf \o x /\ Len(u) = Len(b.buf) /\ b.buf \in Octets
      BY <1>9, <1>12, <2>3
    <3>2. Joined(b.buf, x, b1.buf) /\ Joined(u, x, v)
      BY <3>1, JoinedOctets
    <3>3. v \in Octets /\ Len(v) = Len(u) + Len(x)
      BY <3>2 DEF Joined
    <3>4. Len(b1.buf) = Len(b.buf) + Len(x)
      BY <3>2 DEF Joined
    <3> QED
      BY <3>1, <3>3, <3>4
  <2> HIDE DEF v
  <2>5. SameOn(b1, b2, v, c2)
    <3>1. c1 = OnBuf(b1, v)
      BY <2>3 DEF v
    <3> QED
      BY <1>1, <1>3, <1>5, <2>4, <3>1, PutNameSame DEF b2
  <2> HIDE DEF c2
  <2>6. PICK y \in Octets : b2.buf = b1.buf \o y /\ c2 = OnBuf(b2, v \o y)
    BY <2>5 DEF SameOn
  <2> DEFINE w == v \o y
  <2>7. w \in Octets
    BY <2>4, JoinOctets
  <2> HIDE DEF w
  <2>8. SameOn(b2, b3, w, c3)
    <3>1. c2 = OnBuf(b2, w)
      BY <2>6 DEF w
    <3> QED
      BY <1>1, <1>3, <1>9, <3>1, PutBytesSame DEF b3
  <2> HIDE DEF c3
  <2>9. SameOn(b1, b3, v, c3)
    BY <1>9, <2>4, <2>6, <2>8, SameChain DEF w
  <2>10. SameOn(b, b3, u, c3)
    BY <1>9, <2>3, <2>9, SameChain DEF v
  <2> QED
    BY <2>1, <2>10
<1> QED
  BY <1>2, <1>3, <1>10, <1>11, <1>12 DEF n

LEMMA AppendAdds ==
    ASSUME NEW b, NEW N, IsFiniteSet(N), Grown(b, N), NEW d \in DnsData,
           \A x \in DataNames(d) : SplitLabels(x) \in N \cup {<< >>},
           AppendTo(b, d).err = "nil"
    PROVE  /\ b.err = "nil" /\ Adds(b, AppendTo(b, d), N)
           /\ DataLaid(AppendTo(b, d).buf, Len(b.buf), Len(AppendTo(b, d).buf), d, Cardinality(N))
           /\ \A u \in Octets : Len(u) = Len(b.buf) =>
                SameOn(b, AppendTo(b, d), u, AppendTo(OnBuf(b, u), d))
<1> DEFINE r == AppendTo(b, d)
<1>1. IsBuilder(b) /\ b.buf \in Octets
  BY GrownIs
<1>2. CASE d.kind \in {"A", "AAAA", "TXT", "raw"}
  <2> DEFINE s == DataOctets(d)
  <2>1. /\ s \in Octets /\ b.err = "nil"
        /\ \A c : AppendTo(c, d) = PutBytes(c, s)
        /\ \A buf, p, n : Holds(buf, p, s) => DataLaid(buf, p, p + Len(s), d, n)
    BY <1>1, <1>2, PlainData
  <2> HIDE DEF s
  <2>2. r = PutBytes(b, s)
    BY <2>1
  <2> HIDE DEF r
  <2>3. /\ Adds(b, r, N) /\ Holds(r.buf, Len(b.buf), s)
        /\ Len(r.buf) = Len(b.buf) + Len(s)
    BY <2>1, <2>2, PutBytesAdds
  <2>4. DataLaid(r.buf, Len(b.buf), Len(r.buf), d, Cardinality(N))
    BY <2>1, <2>3
  <2>5. ASSUME NEW u \in Octets
        PROVE  SameOn(b, r, u, AppendTo(OnBuf(b, u), d))
    <3>1. AppendTo(OnBuf(b, u), d) = PutBytes(OnBuf(b, u), s)
      BY <2>1
    <3> QED
      BY <1>1, <2>1, <2>2, <3>1, PutBytesSame
  <2> QED
    BY <2>1, <2>3, <2>4, <2>5 DEF r
<1>3. CASE d.kind \in {"NS", "CNAME"}
  <2> DEFINE h == d.host
  <2>1. h \in Octets
    BY <1>3, DataKinds
  <2>2. SplitLabels(h) \in N \cup {<< >>}
    <3>1. DataNames(d) = {h}
      BY <1>3 DEF DataNames
    <3> QED
      BY <3>1
  <2>3. \A c : AppendTo(c, d) = PutName(c, h)
    BY <1>3, AppendToIs
  <2> HIDE DEF h
  <2>4. r = PutName(b, h)
    BY <2>3
  <2>5. PutName(b, h).err = "nil"
    BY <2>4
  <2>6. /\ Adds(b, PutName(b, h), N) /\ b.err = "nil"
        /\ NamedAt(PutName(b, h).buf, Len(b.buf), Len(PutName(b, h).buf),
                      SplitLabels(h), Cardinality(N))
    BY <2>1, <2>2, <2>5, PutNameAdds
  <2>7. DataLaid(PutName(b, h).buf, Len(b.buf), Len(PutName(b, h).buf), d, Cardinality(N))
    BY <1>3, <2>6 DEF DataLaid, h
  <2>8. ASSUME NEW u \in Octets, Len(u) = Len(b.buf)
        PROVE  SameOn(b, r, u, AppendTo(OnBuf(b, u), d))
    <3>1. AppendTo(OnBuf(b, u), d) = PutName(OnBuf(b, u), h)
      BY <2>3
    <3> HIDE DEF r
    <3> QED
      BY <2>1, <2>4, <2>5, <2>6, <2>8, <3>1, PutNameSame
  <2> QED
    BY <2>4, <2>6, <2>7, <2>8
<1>4. CASE d.kind = "SOA"
  BY <1>4, SoaAdds
<1> QED
  BY <1>2, <1>3, <1>4, DataKinds


(***************************************************************************)
(* A record.                                                               *)
(***************************************************************************)
\* What lies between a record's name and its data.
RecordHead(rr, len) == Four(U16(rr.type), U16(rr.class), U32(rr.ttl), U16(len))

LEMMA RecordHeadOctets ==
    ASSUME NEW rr \in DnsRecord, NEW len \in Nat
    PROVE  /\ RecordHead(rr, len) \in Octets /\ Len(RecordHead(rr, len)) = 10
           /\ rr.name \in Octets /\ rr.data \in DnsData /\ rr.data.kind = KindOf(rr.type)
           /\ rr.type \in Word16 /\ rr.class \in Word16 /\ rr.ttl \in Word32
           /\ U16(rr.type) \in Octets /\ U16(rr.class) \in Octets /\ U32(rr.ttl) \in Octets
           /\ U16(len) \in Octets /\ Len(U16(rr.type)) = 2 /\ Len(U16(rr.class)) = 2
           /\ Len(U32(rr.ttl)) = 4 /\ Len(U16(len)) = 2
<1>1. /\ rr.name \in Octets /\ rr.data \in DnsData /\ rr.data.kind = KindOf(rr.type)
      /\ rr.type \in Word16 /\ rr.class \in Word16 /\ rr.ttl \in Word32
  BY DEF DnsRecord
<1>2. rr.type \in Nat /\ rr.class \in Nat
  BY <1>1, WordNat
<1> DEFINE a == U16(rr.type)
           b == U16(rr.class)
           c == U32(rr.ttl)
           d == U16(len)
<1>3. /\ a \in Octets /\ b \in Octets /\ c \in Octets /\ d \in Octets
      /\ Len(a) = 2 /\ Len(b) = 2 /\ Len(c) = 4 /\ Len(d) = 2
  BY <1>1, <1>2, U16Octets, U32Octets
<1> HIDE DEF a, b, c, d
<1>4. /\ Four(a, b, c, d) \in Octets
      /\ Len(Four(a, b, c, d)) = ((Len(a) + Len(b)) + Len(c)) + Len(d)
  <2>1. a \in Octets /\ b \in Octets /\ c \in Octets /\ d \in Octets
    BY <1>3
  <2> QED
    BY <2>1, FourOctets
<1>5. Len(Four(a, b, c, d)) = 10
  BY <1>3, <1>4
<1> QED
  BY <1>1, <1>3, <1>4, <1>5 DEF RecordHead, a, b, c, d

LEMMA ChangedOctets ==
    ASSUME NEW s \in Octets, NEW i \in 1..Len(s), NEW e \in Byte
    PROVE  /\ Changed(s, i, e) \in Octets /\ Len(Changed(s, i, e)) = Len(s)
           /\ Changed(s, i, e)[i] = e /\ SameBut(s, Changed(s, i, e), i)
BY ChangedIs DEF Octets

\* Two octets are patched.
IsPatch(a, s, t, x) ==
    Changed(Changed((a \o s) \o x, Len(a) + 1, t[1]), Len(a) + 2, t[2]) = (a \o t) \o x

LEMMA PatchIs ==
    ASSUME NEW a \in Octets, NEW s \in Octets, Len(s) = 2, NEW t \in Octets, Len(t) = 2,
           NEW x \in Octets
    PROVE  IsPatch(a, s, t, x)
<1> DEFINE sx == a \o s
           tx == a \o t
           w  == sx \o x
           v  == tx \o x
           la == Len(a)
           k  == la + 1
           j  == la + 2
           w1 == Changed(w, k, t[1])
           w2 == Changed(w1, j, t[2])
           lx == Len(x)
           n  == la + 2 + lx
<1>1. Joined(a, s, sx) /\ Joined(a, t, tx)
  BY JoinedOctets
<1> HIDE DEF sx, tx
<1>2. sx \in Octets /\ tx \in Octets /\ Len(sx) = la + 2 /\ Len(tx) = la + 2 /\ la \in Nat
  BY <1>1 DEF Joined
<1>3. Joined(sx, x, w) /\ Joined(tx, x, v)
  BY <1>2, JoinedOctets
<1> HIDE DEF w, v
<1>4. w \in Octets /\ v \in Octets /\ Len(w) = n /\ Len(v) = n /\ lx \in Nat /\ n \in Nat
  BY <1>2, <1>3 DEF Joined
<1>5. t[1] \in Byte /\ t[2] \in Byte
  <2>1. 1 \in 1..Len(t) /\ 2 \in 1..Len(t) /\ t \in Seq(Byte)
    BY DEF Octets
  <2> QED
    BY <2>1, ElementOfSeq
<1>6. k \in 1..Len(w) /\ j \in 1..Len(w) /\ k # j
  <2> HIDE DEF la, lx
  <2> QED
    BY <1>2, <1>4
<1> HIDE DEF k
<1>7. w1 \in Octets /\ Len(w1) = Len(w) /\ w1[k] = t[1] /\ SameBut(w, w1, k)
  <2> DEFINE e == t[1]
  <2>1. w \in Octets /\ e \in Byte /\ k \in 1..Len(w)
    BY <1>4, <1>5, <1>6
  <2> HIDE DEF e
  <2>2. Changed(w, k, e) \in Octets /\ Len(Changed(w, k, e)) = Len(w)
    BY <2>1, ChangedOctets
  <2>3. Changed(w, k, e)[k] = e /\ SameBut(w, Changed(w, k, e), k)
    BY <2>1, ChangedOctets
  <2> QED
    BY <2>2, <2>3 DEF e
<1> HIDE DEF w1, j
<1>9. w2 \in Octets /\ Len(w2) = Len(w1) /\ w2[j] = t[2] /\ SameBut(w1, w2, j)
  <2> DEFINE e == t[2]
  <2>1. w1 \in Octets /\ e \in Byte /\ j \in 1..Len(w1)
    BY <1>5, <1>6, <1>7
  <2> HIDE DEF e
  <2>2. Changed(w1, j, e) \in Octets /\ Len(Changed(w1, j, e)) = Len(w1)
    BY <2>1, ChangedOctets
  <2>3. Changed(w1, j, e)[j] = e /\ SameBut(w1, Changed(w1, j, e), j)
    BY <2>1, ChangedOctets
  <2> QED
    BY <2>2, <2>3 DEF e
<1> HIDE DEF w2, la, lx
<1>11. ASSUME NEW i \in 1..n PROVE w2[i] = v[i]
  <2>1. i = k \/ i = j \/ i \in 1..la \/ i - (la + 2) \in 1..lx
    BY <1>2, <1>4 DEF k, j
  <2>2. CASE i = k
    <3>1. w2[k] = t[1]
      BY <1>4, <1>6, <1>7, <1>9 DEF SameBut
    <3>2. tx[1 + la] = t[1]
      BY <1>1 DEF Joined, la
    <3>3. v[k] = tx[k]
      BY <1>2, <1>3 DEF Joined, k
    <3>4. k = 1 + la
      BY <1>2 DEF k
    <3> QED
      BY <2>2, <3>1, <3>2, <3>3, <3>4
  <2>3. CASE i = j
    <3>2. tx[2 + la] = t[2]
      BY <1>1 DEF Joined, la
    <3>3. v[j] = tx[j]
      BY <1>2, <1>3 DEF Joined, j
    <3>4. j = 2 + la
      BY <1>2 DEF j
    <3> QED
      BY <1>9, <2>3, <3>2, <3>3, <3>4
  <2>4. CASE i \in 1..la
    <3>1. i # k /\ i # j /\ i \in 1..Len(w) /\ i \in 1..(la + 2)
      BY <1>2, <1>4, <2>4 DEF k, j
    <3>2. w2[i] = w[i]
      BY <1>7, <1>9, <3>1 DEF SameBut
    <3>3. w[i] = sx[i] /\ v[i] = tx[i]
      BY <1>2, <1>3, <3>1 DEF Joined
    <3>4. sx[i] = a[i] /\ tx[i] = a[i]
      BY <1>1, <2>4 DEF Joined, la
    <3> QED
      BY <3>2, <3>3, <3>4
  <2>5. CASE i - (la + 2) \in 1..lx
    <3> DEFINE m == i - (la + 2)
    <3>1. i # k /\ i # j /\ i \in 1..Len(w) /\ i = m + (la + 2)
      BY <1>2, <1>4, <2>5 DEF k, j
    <3>2. w2[i] = w[i]
      BY <1>7, <1>9, <3>1 DEF SameBut
    <3>3. m \in 1..Len(x)
      BY <2>5 DEF lx
    <3> HIDE DEF m
    <3>4. w[m + Len(sx)] = x[m] /\ v[m + Len(tx)] = x[m]
      BY <1>3, <3>3 DEF Joined
    <3> QED
      BY <1>2, <3>1, <3>2, <3>4
  <2> QED
    BY <2>1, <2>2, <2>3, <2>4, <2>5
<1> HIDE DEF n
<1>12. w2 = v
  BY <1>4, <1>7, <1>9, <1>11, SeqEqual DEF Octets
<1> QED
  BY <1>12 DEF IsPatch, w2, w1, w, v, sx, tx, k, j, la

Patched(w, k, x, j, y) == [w EXCEPT !.buf[k] = x, !.buf[j] = y]

LEMMA PatchedIs ==
    ASSUME NEW w, IsBuilder(w), w.err = "nil", NEW k, NEW j, NEW x, NEW y
    PROVE  Patched(w, k, x, j, y) = OnBuf(w, Changed(Changed(w.buf, k, x), j, y))
<1> DEFINE u == Changed(Changed(w.buf, k, x), j, y)
<1>1. w = [buf |-> w.buf, offsets |-> w.offsets, err |-> w.err]
  BY DEF IsBuilder
<1>2. [w EXCEPT !.buf[k] = x, !.buf[j] = y] = [w EXCEPT !.buf = u]
  BY <1>1 DEF Changed
<1> HIDE DEF u
<1>3. [w EXCEPT !.buf = u] = [buf |-> u, offsets |-> w.offsets, err |-> w.err]
  BY <1>1
<1> QED
  BY <1>2, <1>3 DEF u, OnBuf, Build, Patched


RecordLaid(buf, p, q, rr, n) ==
    \E e \in Nat :
      /\ NamedAt(buf, p, e, SplitLabels(rr.name), n)
      /\ e + 10 <= q /\ q - (e + 10) \in Word16
      /\ Holds(buf, e, RecordHead(rr, q - (e + 10)))
      /\ DataLaid(buf, e + 10, q, rr.data, n)

\* What encodeRR comes to: the length before the data, as if it were known.
LEMMA PutOrRefuse ==
    ASSUME NEW b, NEW r, NEW s, NEW e, r = PutBytes(b, s) \/ r = Refuse(b, e), r.err = "nil"
    PROVE  b.err = "nil"
BY DEF PutBytes, Refuse

TooLong(len) == len > 65535

LEMMA NatWord == ASSUME NEW x \in Nat, ~ TooLong(x) PROVE x \in Word16
<1> DEFINE n == 65535
<1>1. n \in Nat /\ ~ (x > n)
  BY DEF TooLong
<1>2. Word16 = 0..n
  BY DEF Word16
<1> HIDE DEF n
<1>3. x \in 0..n
  BY <1>1
<1> QED
  BY <1>2, <1>3

Chosen(a, b, c, failed, big) == IF failed THEN a ELSE IF big THEN b ELSE c

LEMMA PatchLengthChosen ==
    ASSUME NEW w, NEW k
    PROVE  LET len == Len(w.buf) - k IN
           PatchLength(w, k) = Chosen(w, Refuse(w, "long rdata"),
                                      Patched(w, k - 1, U16(len)[1], k, U16(len)[2]),
                                      w.err # "nil", TooLong(len))
BY SMT DEF PatchLength, Patched, Chosen, TooLong

\* What becomes of the length.
LEMMA PatchLengthIs ==
    ASSUME NEW w, IsBuilder(w), NEW k \in Nat, k <= Len(w.buf), w.err = "nil",
           PatchLength(w, k).err = "nil"
    PROVE  /\ Len(w.buf) - k \in Word16
           /\ PatchLength(w, k) = Patched(w, k - 1, U16(Len(w.buf) - k)[1],
                                              k, U16(Len(w.buf) - k)[2])
<1> DEFINE len == Len(w.buf) - k
           e   == "long rdata"
           f   == "nil"
           r   == PatchLength(w, k)
           p   == Patched(w, k - 1, U16(len)[1], k, U16(len)[2])
           big == TooLong(len)
<1>1. r = Chosen(w, Refuse(w, e), p, w.err # f, big)
  BY PatchLengthChosen, Zenon
<1>2. r.err = f /\ w.err = f /\ e # f
  OBVIOUS
<1>3. Refuse(w, e).err = e
  <2> HIDE DEF e
  <2> QED
    BY <1>2 DEF Refuse, f
<1>4. len \in Nat
  BY DEF IsBuilder, Octets
<1> HIDE DEF r, p, big, f, e
<1>5. ~ big /\ r = p
  BY <1>1, <1>2, <1>3 DEF Chosen
<1>6. len \in Word16
  <2> HIDE DEF len
  <2> QED
    BY <1>4, <1>5, NatWord DEF big
<1> QED
  BY <1>5, <1>6 DEF r, p

LEMMA AppendErrStays ==
    ASSUME NEW b, NEW d \in DnsData, AppendTo(b, d).err = "nil"
    PROVE  b.err = "nil"
<1>2. CASE d.kind \in {"NS", "CNAME"}
  <2>1. AppendTo(b, d) = PutName(b, d.host)
    BY <1>2, AppendToIs
  <2> QED
    BY <2>1, ErrStays
<1>3. CASE d.kind = "SOA"
  <2>1. AppendTo(b, d) = PutBytes(PutName(PutName(b, d.mname), d.rname), SoaOctets(d.vals))
    BY <1>3, AppendToIs
  <2>2. PutName(PutName(b, d.mname), d.rname).err = "nil"
    BY <2>1, ErrStays
  <2> QED
    BY <2>2, ErrStays
<1>4. CASE d.kind = "A"
  <2>1. AppendTo(b, d) = IF Len(d.addr) = 4 THEN PutBytes(b, d.addr) ELSE Refuse(b, "not IPv4")
    BY <1>4, AppendToIs
  <2>2. AppendTo(b, d) = PutBytes(b, d.addr) \/ AppendTo(b, d) = Refuse(b, "not IPv4")
    BY <2>1, Zenon
  <2> QED
    BY <2>2, PutOrRefuse
<1>5. CASE d.kind = "AAAA"
  <2>1. AppendTo(b, d) = IF Len(d.addr) = 16 /\ ~ Is4In6Octets(d.addr) THEN PutBytes(b, d.addr)
                         ELSE Refuse(b, "not IPv6")
    BY <1>5, AppendToIs
  <2>2. AppendTo(b, d) = PutBytes(b, d.addr) \/ AppendTo(b, d) = Refuse(b, "not IPv6")
    BY <2>1, Zenon
  <2> QED
    BY <2>2, PutOrRefuse
<1>6. CASE d.kind = "TXT"
  <2> DEFINE s == Strings(d.strings)
             good == d.strings # << >> /\ \A i \in DOMAIN d.strings : Len(d.strings[i]) <= 255
  <2>1. AppendTo(b, d) = IF good THEN PutBytes(b, s) ELSE Refuse(b, "bad TXT")
    BY <1>6, AppendToIs
  <2> HIDE DEF s, good
  <2>2. AppendTo(b, d) = PutBytes(b, s) \/ AppendTo(b, d) = Refuse(b, "bad TXT")
    BY <2>1, Zenon
  <2> QED
    BY <2>2, PutOrRefuse
<1>7. CASE d.kind = "raw"
  <2>1. AppendTo(b, d) = PutBytes(b, d.data)
    BY <1>7, AppendToIs
  <2> QED
    BY <2>1, ErrStays
<1> QED
  BY <1>2, <1>3, <1>4, <1>5, <1>6, <1>7, DataKinds

LEMMA EncodeRRIs ==
    ASSUME NEW b, NEW N, IsFiniteSet(N), Grown(b, N), NEW rr \in DnsRecord,
           SplitLabels(rr.name) \in N \cup {<< >>},
           \A x \in DataNames(rr.data) : SplitLabels(x) \in N \cup {<< >>},
           EncodeRR(b, rr).err = "nil"
    PROVE  /\ PutName(b, rr.name).err = "nil"
           /\ \E len \in Word16 :
                LET h == PutBytes(PutName(b, rr.name), RecordHead(rr, len)) IN
                /\ EncodeRR(b, rr) = AppendTo(h, rr.data)
                /\ Len(AppendTo(h, rr.data).buf) = Len(h.buf) + len
<1> DEFINE b1   == PutName(b, rr.name)
           zero == RecordHead(rr, 0)
           h0   == PutBytes(b1, zero)
           w    == AppendTo(h0, rr.data)
           k    == Len(h0.buf)
           len  == Len(w.buf) - k
           r    == EncodeRR(b, rr)
           e    == "nil"
<1>1. r = PatchLength(w, k)
  BY Zenon DEF EncodeRR, RecordHead, Four
<1> HIDE DEF r, w, len
<1>2. w.err = "nil" /\ r.err = "nil"
  <2>1. r.err = "nil"
    BY DEF r
  <2> DEFINE c == Len(w.buf) - k
             g == Refuse(w, "long rdata")
             p == Patched(w, k - 1, U16(c)[1], k, U16(c)[2])
  <2>2. r = Chosen(w, g, p, w.err # e, TooLong(c))
    BY <1>1, PatchLengthChosen, Zenon
  <2> HIDE DEF p, g, c
  <2>4. w.err # e => r = w
    BY <2>2 DEF Chosen
  <2> QED
    BY <2>1, <2>4
<1>3. /\ rr.name \in Octets /\ rr.data \in DnsData
      /\ zero \in Octets /\ Len(zero) = 10
  <2>1. 0 \in Nat
    OBVIOUS
  <2> QED
    BY <2>1, RecordHeadOctets
<1> HIDE DEF zero
<1>4. h0.err = "nil" /\ b1.err = "nil"
  <2>1. h0.err = "nil"
    BY <1>2, <1>3, AppendErrStays DEF w
  <2> QED
    BY <2>1, ErrStays
<1>5. Adds(b, b1, N) /\ Grown(b1, N)
  <2> HIDE DEF w, r
  <2>1. Adds(b, b1, N)
    BY <1>3, <1>4, PutNameAdds
  <2> QED
    BY <2>1 DEF Adds
<1> HIDE DEF b1
<1>6. /\ Grown(h0, N) /\ h0.buf = b1.buf \o zero /\ h0.offsets = b1.offsets
      /\ IsBuilder(h0) /\ k = Len(b1.buf) + 10
  <2>1. Adds(b1, h0, N)
    BY <1>3, <1>4, <1>5, PutBytesAdds
  <2>2. /\ h0.buf = b1.buf \o zero /\ h0.offsets = b1.offsets
        /\ IsBuilder(h0) /\ k = Len(b1.buf) + Len(zero)
    BY <1>3, <1>4, <1>5, PutBytesAdds
  <2> QED
    BY <1>3, <2>1, <2>2 DEF Adds
<1>7. b1.buf \in Octets /\ Len(b1.buf) \in Nat /\ h0.buf \in Octets /\ k \in Nat /\ IsBuilder(b1)
  BY <1>5, <1>6, GrownIs
<1> HIDE DEF h0
<1>8. Adds(h0, w, N)
  BY <1>2, <1>3, <1>6, AppendAdds DEF w
<1>9. IsBuilder(w) /\ w.buf \in Octets /\ Len(w.buf) \in Nat /\ Len(h0.buf) <= Len(w.buf)
  <2>1. Grown(w, N)
    BY <1>8 DEF Adds
  <2> QED
    BY <1>7, <1>8, <2>1, GrownIs, AddsLen
<1>10. len \in Nat
  BY <1>7, <1>9 DEF len
<1>11. len \in Word16 /\ r = Patched(w, k - 1, U16(len)[1], k, U16(len)[2])
  BY <1>1, <1>2, <1>7, <1>9, PatchLengthIs DEF len
<1> DEFINE real == RecordHead(rr, len)
           h1   == PutBytes(b1, real)
           u    == b1.buf \o real
           g    == (U16(rr.type) \o U16(rr.class)) \o U32(rr.ttl)
           a    == b1.buf \o g
           s    == U16(0)
           t    == U16(len)
<1>12. len \in Nat /\ Len(w.buf) = k + len
  <2> DEFINE lw == Len(w.buf)
  <2>1. lw \in Nat /\ k \in Nat /\ k <= lw /\ len = lw - k
    BY <1>7, <1>9 DEF len
  <2> HIDE DEF lw, k
  <2> QED
    BY <2>1 DEF lw
<1> HIDE DEF k
<1>13. /\ s \in Octets /\ Len(s) = 2 /\ t \in Octets /\ Len(t) = 2 /\ g \in Octets /\ Len(g) = 8
       /\ real \in Octets /\ Len(real) = 10
  <2>1. 0 \in Nat
    OBVIOUS
  <2>2. /\ s \in Octets /\ Len(s) = 2 /\ t \in Octets /\ Len(t) = 2
        /\ real \in Octets /\ Len(real) = 10
    BY <1>12, <2>1, U16Octets, RecordHeadOctets
  <2> DEFINE x == U16(rr.type)
             y == U16(rr.class)
             z == U32(rr.ttl)
  <2>3. x \in Octets /\ y \in Octets /\ z \in Octets /\ Len(x) = 2 /\ Len(y) = 2 /\ Len(z) = 4
    BY <1>12, RecordHeadOctets
  <2> HIDE DEF x, y, z
  <2>4. x \in Octets /\ y \in Octets /\ z \in Octets
    BY <2>3
  <2>5. (x \o y) \o z \in Octets /\ Len((x \o y) \o z) = (Len(x) + Len(y)) + Len(z)
    BY <2>4, FourOctets
  <2>6. Len((x \o y) \o z) = 8
    BY <2>3, <2>5
  <2> QED
    BY <2>2, <2>5, <2>6 DEF x, y, z
<1>14. zero = g \o s /\ real = g \o t
  BY DEF zero, RecordHead, Four
<1> HIDE DEF g, s, t, real
<1>15. a \in Octets /\ Len(a) + 2 = k /\ h0.buf = a \o s /\ u = a \o t
  <2> DEFINE o == b1.buf
  <2>1. o \in Octets /\ g \in Octets /\ s \in Octets /\ t \in Octets
    BY <1>7, <1>13
  <2>2. (o \o g) \o s = o \o (g \o s) /\ (o \o g) \o t = o \o (g \o t)
    <3> HIDE DEF o
    <3>1. Grouped(o, g, s) /\ Grouped(o, g, t)
      BY <2>1, Groups
    <3> QED
      BY <3>1 DEF Grouped
  <2>3. Joined(o, g, a)
    BY <2>1, JoinedOctets
  <2> HIDE DEF a
  <2>4. a \in Octets /\ Len(a) = Len(o) + 8
    BY <1>13, <2>3 DEF Joined
  <2>5. Len(o) \in Nat /\ k = Len(o) + 10
    BY <1>6, <1>7 DEF k
  <2>6. Len(a) + 2 = k
    BY <2>4, <2>5
  <2> QED
    BY <1>6, <1>14, <2>2, <2>4, <2>6 DEF a
<1>16. u \in Octets /\ Len(u) = Len(h0.buf)
  <2> HIDE DEF a, u
  <2>1. Joined(a, s, h0.buf) /\ Joined(a, t, u)
    BY <1>13, <1>15, JoinedOctets
  <2> QED
    BY <1>13, <2>1 DEF Joined
<1>17. h1 = OnBuf(h0, u)
  <2> DEFINE f == b1.offsets
  <2>1. h1 = Build(u, f, e)
    BY <1>4, <1>7, PutBytesIs
  <2>2. h0.offsets = f /\ h0.err = e
    BY <1>4, <1>6
  <2> HIDE DEF f, e, u, h1
  <2> QED
    BY <2>1, <2>2 DEF OnBuf
<1> HIDE DEF a, u, h1
<1>18. SameOn(h0, w, u, AppendTo(h1, rr.data))
  BY <1>2, <1>3, <1>6, <1>16, <1>17, AppendAdds DEF w
<1>19. PICK x \in Octets : w.buf = h0.buf \o x /\ AppendTo(h1, rr.data) = OnBuf(w, u \o x)
  BY <1>18 DEF SameOn
<1>20. r = OnBuf(w, u \o x)
  <2> DEFINE v == Changed(Changed(w.buf, k - 1, t[1]), k, t[2])
  <2>1. r = OnBuf(w, v)
    <3> DEFINE t1 == t[1]
               t2 == t[2]
               k1 == k - 1
    <3>1. r = Patched(w, k1, t1, k, t2)
      BY <1>11 DEF t
    <3> HIDE DEF t1, t2, k1
    <3>2. r = OnBuf(w, Changed(Changed(w.buf, k1, t1), k, t2))
      BY <1>2, <1>9, <3>1, PatchedIs
    <3> QED
      BY <3>2 DEF t1, t2, k1
  <2>2. w.buf = (a \o s) \o x
    BY <1>15, <1>19
  <2>3. k - 1 = Len(a) + 1 /\ k = Len(a) + 2
    <3>1. Len(a) \in Nat
      BY <1>15, OctetsLen
    <3> QED
      BY <1>15, <3>1
  <2>4. v = Changed(Changed((a \o s) \o x, Len(a) + 1, t[1]), Len(a) + 2, t[2])
    BY <2>2, <2>3
  <2>5. Changed(Changed((a \o s) \o x, Len(a) + 1, t[1]), Len(a) + 2, t[2]) = (a \o t) \o x
    <3>1. a \in Octets /\ s \in Octets /\ t \in Octets /\ x \in Octets
      BY <1>13, <1>15, <1>19
    <3>2. Len(s) = 2 /\ Len(t) = 2
      BY <1>13
    <3> HIDE DEF v
    <3>3. IsPatch(a, s, t, x)
      BY <3>1, <3>2, PatchIs
    <3> QED
      BY <3>3 DEF IsPatch
  <2> QED
    BY <1>15, <2>1, <2>4, <2>5
<1>21. r = AppendTo(h1, rr.data)
  BY <1>19, <1>20
<1>22. Len(AppendTo(h1, rr.data).buf) = Len(h1.buf) + len
  <2>1. AppendTo(h1, rr.data).buf = u \o x /\ h1.buf = u
    <3> DEFINE v == u \o x
               aw == AppendTo(h1, rr.data)
    <3>1. aw = OnBuf(w, v)
      BY <1>19
    <3> HIDE DEF v, aw
    <3>2. aw.buf = v
      BY <1>2, <3>1, OnBufIs
    <3>3. h1.buf = u
      BY <1>4, <1>17, OnBufIs
    <3> QED
      BY <3>2, <3>3 DEF v, aw
  <2>2. Joined(u, x, u \o x) /\ Joined(h0.buf, x, w.buf)
    BY <1>7, <1>16, <1>19, JoinedOctets
  <2>3. Len(u \o x) = Len(u) + Len(x) /\ Len(w.buf) = k + Len(x) /\ Len(x) \in Nat
    BY <2>2 DEF Joined, k
  <2>4. Len(x) = len
    <3>1. k \in Nat
      BY <1>7 DEF k
    <3> QED
      BY <1>12, <2>3, <3>1
  <2> QED
    BY <2>1, <2>3, <2>4
<1> QED
  BY <1>4, <1>11, <1>21, <1>22 DEF r, h1, b1, real


LEMMA SoaLaid ==
    ASSUME NEW buf, NEW p, NEW q, NEW d, NEW n, d.kind = "SOA", DataLaid(buf, p, q, d, n)
    PROVE  \E e \in Nat, f \in Nat :
             /\ NamedAt(buf, p, e, SplitLabels(d.mname), n)
             /\ NamedAt(buf, e, f, SplitLabels(d.rname), n)
             /\ Holds(buf, f, SoaOctets(d.vals)) /\ q = f + 20
BY DEF DataLaid

LEMMA LaidSoa ==
    ASSUME NEW buf, NEW p, NEW q, NEW d, NEW n, d.kind = "SOA", NEW e \in Nat, NEW f \in Nat,
           NamedAt(buf, p, e, SplitLabels(d.mname), n),
           NamedAt(buf, e, f, SplitLabels(d.rname), n),
           Holds(buf, f, SoaOctets(d.vals)), q = f + 20
    PROVE  DataLaid(buf, p, q, d, n)
BY DEF DataLaid

LEMMA TextsAre ==
    ASSUME NEW ss \in Seq(Text)
    PROVE  ss \in Seq(Octets) /\ \A i \in DOMAIN ss : Len(ss[i]) <= 255
<1>1. DOMAIN ss = 1..Len(ss) /\ Len(ss) \in Nat /\ ss = [i \in 1..Len(ss) |-> ss[i]]
  BY LenProperties
<1> DEFINE n == Len(ss)
<1>2. ASSUME NEW i \in 1..n PROVE ss[i] \in Octets /\ Len(ss[i]) <= 255
  <2>1. ss[i] \in Text
    BY <1>2, ElementOfSeq
  <2> DEFINE l == ss[i]
             k == Len(l)
  <2>2. l \in Octets /\ k \in 0..255
    BY <2>1 DEF Text
  <2> HIDE DEF l, k
  <2>3. k <= 255
    BY <2>2
  <2> QED
    BY <2>2, <2>3 DEF l, k
<1>3. ss \in [1..n -> Octets]
  BY <1>1, <1>2
<1>4. ss \in Seq(Octets)
  BY <1>1, <1>3, FunctionSeq
<1> QED
  BY <1>1, <1>2, <1>4

LEMMA DataLaidMore ==
    ASSUME NEW buf \in Octets, NEW y \in Octets, NEW p \in Nat, NEW q, NEW d \in DnsData, NEW n,
           DataLaid(buf, p, q, d, n)
    PROVE  DataLaid(buf \o y, p, q, d, n)
<1> DEFINE u == buf \o y
<1>1. CASE d.kind = "A"
  <2>1. d.addr \in Octets /\ Len(d.addr) = 4 /\ Holds(buf, p, d.addr) /\ q = p + 4
    BY <1>1, DataKinds DEF DataLaid
  <2>2. Holds(u, p, d.addr)
    BY <2>1, HoldsMore
  <2> HIDE DEF u
  <2>3. DataLaid(u, p, q, d, n)
    BY <1>1, <2>1, <2>2 DEF DataLaid
  <2> QED
    BY <2>3 DEF u
<1>2. CASE d.kind = "AAAA"
  <2>1. d.addr \in Octets /\ Len(d.addr) = 16 /\ Holds(buf, p, d.addr) /\ q = p + 16
    BY <1>2, DataKinds DEF DataLaid
  <2>2. Holds(u, p, d.addr)
    BY <2>1, HoldsMore
  <2> HIDE DEF u
  <2>3. DataLaid(u, p, q, d, n)
    BY <1>2, <2>1, <2>2 DEF DataLaid
  <2> QED
    BY <2>3 DEF u
<1>3. CASE d.kind = "TXT"
  <2> DEFINE s == Strings(d.strings)
  <2>1. /\ d.strings # << >> /\ d.strings \in Seq(Text)
        /\ Holds(buf, p, s) /\ q = p + Len(s)
    BY <1>3 DEF DataLaid
  <2>2. s \in Octets
    <3>1. d.strings \in Seq(Octets) /\ \A i \in DOMAIN d.strings : Len(d.strings[i]) <= 255
      BY <2>1, TextsAre
    <3> QED
      BY <3>1, StringsOctets
  <2> HIDE DEF s
  <2>3. Holds(u, p, s)
    BY <2>1, <2>2, HoldsMore
  <2> HIDE DEF u
  <2>4. DataLaid(u, p, q, d, n)
    BY <1>3, <2>1, <2>3 DEF DataLaid, s
  <2> QED
    BY <2>4 DEF u
<1>4. CASE d.kind \in {"NS", "CNAME"}
  <2>1. NamedAt(buf, p, q, SplitLabels(d.host), n)
    BY <1>4 DEF DataLaid
  <2>2. NamedAt(u, p, q, SplitLabels(d.host), n)
    BY <2>1, NamedMore
  <2> HIDE DEF u
  <2>3. DataLaid(u, p, q, d, n)
    BY <1>4, <2>2 DEF DataLaid
  <2> QED
    BY <2>3 DEF u
<1>5. CASE d.kind = "SOA"
  <2>1. PICK e \in Nat, f \in Nat :
             /\ NamedAt(buf, p, e, SplitLabels(d.mname), n)
             /\ NamedAt(buf, e, f, SplitLabels(d.rname), n)
             /\ Holds(buf, f, SoaOctets(d.vals)) /\ q = f + 20
    BY <1>5, SoaLaid
  <2> DEFINE s == SoaOctets(d.vals)
             m == SplitLabels(d.mname)
             r == SplitLabels(d.rname)
  <2>2. s \in Octets
    BY <1>5, DataKinds, SoaOctetsAre
  <2> HIDE DEF s, m, r
  <2>3. NamedAt(buf, p, e, m, n) /\ NamedAt(buf, e, f, r, n) /\ Holds(buf, f, s)
    BY <2>1 DEF s, m, r
  <2>4. NamedAt(u, p, e, m, n) /\ NamedAt(u, e, f, r, n)
    BY <2>3, NamedMore
  <2>5. Holds(u, f, s)
    BY <2>2, <2>3, HoldsMore
  <2> HIDE DEF u
  <2>6. DataLaid(u, p, q, d, n)
    BY <1>5, <2>1, <2>4, <2>5, LaidSoa DEF s, m, r
  <2> QED
    BY <2>6 DEF u
<1>6. CASE d.kind = "raw"
  <2>1. d.data \in Octets /\ Holds(buf, p, d.data) /\ q = p + Len(d.data)
    BY <1>6, DataKinds DEF DataLaid
  <2>2. Holds(u, p, d.data)
    BY <2>1, HoldsMore
  <2> HIDE DEF u
  <2>3. DataLaid(u, p, q, d, n)
    BY <1>6, <2>1, <2>2 DEF DataLaid
  <2> QED
    BY <2>3 DEF u
<1> QED
  BY <1>1, <1>2, <1>3, <1>4, <1>5, <1>6, DataKinds

LEMMA RecordLaidMore ==
    ASSUME NEW buf \in Octets, NEW y \in Octets, NEW p, NEW q \in Nat, NEW rr \in DnsRecord, NEW n,
           RecordLaid(buf, p, q, rr, n)
    PROVE  RecordLaid(buf \o y, p, q, rr, n)
<1>1. PICK e \in Nat :
      /\ NamedAt(buf, p, e, SplitLabels(rr.name), n)
      /\ e + 10 <= q /\ q - (e + 10) \in Word16
      /\ Holds(buf, e, RecordHead(rr, q - (e + 10)))
      /\ DataLaid(buf, e + 10, q, rr.data, n)
  BY DEF RecordLaid
<1> DEFINE u == buf \o y
           len == q - (e + 10)
           h == RecordHead(rr, len)
           f == e + 10
<1>2. f \in Nat /\ h \in Octets /\ rr.data \in DnsData
  <2>1. len \in Nat
    BY <1>1
  <2> HIDE DEF len
  <2> QED
    BY <2>1, RecordHeadOctets
<1> HIDE DEF h, len
<1>3. /\ NamedAt(buf, p, e, SplitLabels(rr.name), n) /\ len \in Word16
      /\ Holds(buf, e, h)
  BY <1>1 DEF h, len
<1>4. DataLaid(buf, f, q, rr.data, n)
  BY <1>1
<1>5. f <= q
  BY <1>1
<1> HIDE DEF f
<1>6. NamedAt(u, p, e, SplitLabels(rr.name), n)
  BY <1>3, NamedMore
<1>7. Holds(u, e, h)
  BY <1>2, <1>3, HoldsMore
<1>8. DataLaid(u, f, q, rr.data, n)
  BY <1>2, <1>4, DataLaidMore
<1> HIDE DEF u
<1>9. RecordLaid(u, p, q, rr, n)
  BY <1>3, <1>5, <1>6, <1>7, <1>8 DEF RecordLaid, f, h, len
<1> QED
  BY <1>9 DEF u

LEMMA EncodeRRAdds ==
    ASSUME NEW b, NEW N, IsFiniteSet(N), Grown(b, N), NEW rr \in DnsRecord,
           SplitLabels(rr.name) \in N \cup {<< >>},
           \A x \in DataNames(rr.data) : SplitLabels(x) \in N \cup {<< >>},
           EncodeRR(b, rr).err = "nil"
    PROVE  /\ b.err = "nil" /\ Adds(b, EncodeRR(b, rr), N)
           /\ RecordLaid(EncodeRR(b, rr).buf, Len(b.buf), Len(EncodeRR(b, rr).buf),
                         rr, Cardinality(N))
<1> DEFINE b1 == PutName(b, rr.name)
           r  == EncodeRR(b, rr)
           n  == Cardinality(N)
           d  == rr.data
           h(k) == PutBytes(b1, RecordHead(rr, k))
<1>1. b1.err = "nil"
  BY EncodeRRIs
<1>2. PICK len \in Word16 : /\ EncodeRR(b, rr) = AppendTo(h(len), d)
                            /\ Len(AppendTo(h(len), d).buf) = Len(h(len).buf) + len
  BY EncodeRRIs
<1> DEFINE head == RecordHead(rr, len)
           h1   == PutBytes(b1, head)
<1>3. /\ head \in Octets /\ Len(head) = 10 /\ rr.name \in Octets /\ d \in DnsData /\ len \in Nat
  <2>1. len \in Nat
    BY <1>2, WordNat
  <2> QED
    BY <2>1, RecordHeadOctets
<1>4. r = AppendTo(h1, d) /\ Len(r.buf) = Len(h1.buf) + len
  BY <1>2
<1> HIDE DEF r, head, h, d, n
<1>5. /\ Adds(b, b1, N) /\ b.err = "nil"
      /\ NamedAt(b1.buf, Len(b.buf), Len(b1.buf), SplitLabels(rr.name), n)
  BY <1>1, <1>3, PutNameAdds DEF n
<1> HIDE DEF b1
<1>6. Grown(b1, N)
  BY <1>5 DEF Adds
<1>7. /\ Adds(b1, h1, N) /\ Holds(h1.buf, Len(b1.buf), head)
      /\ Len(h1.buf) = Len(b1.buf) + Len(head)
  BY <1>1, <1>3, <1>6, PutBytesAdds
<1>8. Grown(h1, N)
  BY <1>7 DEF Adds
<1> HIDE DEF h1
<1>9. /\ Adds(h1, r, N) /\ DataLaid(r.buf, Len(h1.buf), Len(r.buf), d, n)
  <2>1. r.err = "nil"
    BY DEF r
  <2> QED
    BY <1>3, <1>4, <1>8, <2>1, AppendAdds DEF d, n
<1>10. /\ b.buf \in Octets /\ b1.buf \in Octets /\ h1.buf \in Octets /\ Len(b1.buf) \in Nat
  BY <1>6, <1>8, GrownIs
<1>11. Adds(b, r, N) /\ Adds(b1, r, N)
  <2>1. Adds(b1, r, N)
    BY <1>7, <1>9, <1>10, AddsChain
  <2> QED
    BY <1>5, <1>10, <2>1, AddsChain
<1> DEFINE p == Len(b.buf)
           e == Len(b1.buf)
           q == Len(r.buf)
           o == r.buf
<1>12. NamedAt(o, p, e, SplitLabels(rr.name), n)
  BY <1>5, <1>10, <1>11, NamedLen
<1>13. Holds(o, e, head)
  <2>1. PICK x \in Octets : o = h1.buf \o x
    BY <1>9 DEF Adds
  <2> DEFINE oh == h1.buf
  <2>2. oh \in Octets /\ Holds(oh, e, head) /\ e \in Nat
    BY <1>7, <1>10
  <2> HIDE DEF oh, e
  <2>3. Holds(oh \o x, e, head)
    BY <1>3, <2>2, HoldsMore
  <2> QED
    BY <2>1, <2>3 DEF oh
<1>14. e \in Nat /\ Len(h1.buf) = e + 10 /\ q = e + 10 + len
  BY <1>3, <1>4, <1>7, <1>10
<1>15. DataLaid(o, e + 10, q, d, n)
  BY <1>9, <1>14
<1> HIDE DEF p, e, q, o
<1>16. q - (e + 10) = len /\ e + 10 <= q
  BY <1>3, <1>14
<1>17. RecordLaid(o, p, q, rr, n)
  BY <1>2, <1>12, <1>13, <1>14, <1>15, <1>16 DEF RecordLaid, head, d
<1> QED
  BY <1>5, <1>11, <1>17 DEF o, p, q, r, n

(***************************************************************************)
(* A question.                                                             *)
(***************************************************************************)
QuestionTail(q) == U16(q.type) \o U16(q.class)

QuestionLaid(buf, p, q, qu, n) ==
    \E e \in Nat :
      /\ NamedAt(buf, p, e, SplitLabels(qu.name), n)
      /\ Holds(buf, e, QuestionTail(qu)) /\ q = e + 4

LEMMA QuestionTailOctets ==
    ASSUME NEW q \in DnsQuestion
    PROVE  /\ q.name \in Octets /\ q.type \in Word16 /\ q.class \in Word16
           /\ U16(q.type) \in Octets /\ U16(q.class) \in Octets
           /\ Len(U16(q.type)) = 2 /\ Len(U16(q.class)) = 2
           /\ QuestionTail(q) \in Octets /\ Len(QuestionTail(q)) = 4
<1>1. q.name \in Octets /\ q.type \in Word16 /\ q.class \in Word16
  BY DEF DnsQuestion
<1> DEFINE x == U16(q.type)
           y == U16(q.class)
<1>2. x \in Octets /\ y \in Octets /\ Len(x) = 2 /\ Len(y) = 2
  BY <1>1, WordNat, U16Octets
<1> HIDE DEF x, y
<1>3. Joined(x, y, x \o y)
  BY <1>2, JoinedOctets
<1>4. x \o y \in Octets
  BY <1>2, JoinOctets
<1>5. Len(x \o y) = Len(x) + Len(y)
  BY <1>3 DEF Joined
<1>6. Len(x \o y) = 4
  BY <1>2, <1>5
<1> QED
  BY <1>1, <1>2, <1>4, <1>6 DEF QuestionTail, x, y

LEMMA QuestionLaidMore ==
    ASSUME NEW buf \in Octets, NEW y \in Octets, NEW p, NEW q, NEW qu \in DnsQuestion, NEW n,
           QuestionLaid(buf, p, q, qu, n)
    PROVE  QuestionLaid(buf \o y, p, q, qu, n)
<1>1. PICK e \in Nat :
      /\ NamedAt(buf, p, e, SplitLabels(qu.name), n)
      /\ Holds(buf, e, QuestionTail(qu)) /\ q = e + 4
  BY DEF QuestionLaid
<1> DEFINE u == buf \o y
           h == QuestionTail(qu)
<1>2. h \in Octets
  BY QuestionTailOctets
<1> HIDE DEF h
<1>3. /\ NamedAt(buf, p, e, SplitLabels(qu.name), n) /\ Holds(buf, e, h)
  BY <1>1 DEF h
<1>6. NamedAt(u, p, e, SplitLabels(qu.name), n)
  BY <1>3, NamedMore
<1>7. Holds(u, e, h)
  BY <1>2, <1>3, HoldsMore
<1> HIDE DEF u
<1>9. QuestionLaid(u, p, q, qu, n)
  BY <1>1, <1>6, <1>7 DEF QuestionLaid, h
<1> QED
  BY <1>9 DEF u

LEMMA EncodeQuestionAdds ==
    ASSUME NEW b, NEW N, IsFiniteSet(N), Grown(b, N), NEW q \in DnsQuestion,
           SplitLabels(q.name) \in N \cup {<< >>}, EncodeQuestion(b, q).err = "nil"
    PROVE  /\ b.err = "nil" /\ Adds(b, EncodeQuestion(b, q), N)
           /\ QuestionLaid(EncodeQuestion(b, q).buf, Len(b.buf), Len(EncodeQuestion(b, q).buf),
                           q, Cardinality(N))
<1> DEFINE b1 == PutName(b, q.name)
           h  == QuestionTail(q)
           r  == EncodeQuestion(b, q)
           n  == Cardinality(N)
           labels == SplitLabels(q.name)
<1>1. r = PutBytes(b1, h)
  BY DEF EncodeQuestion, QuestionTail
<1>2. r.err = "nil"
  OBVIOUS
<1>3. h \in Octets /\ Len(h) = 4 /\ q.name \in Octets
  BY QuestionTailOctets
<1> HIDE DEF r, h
<1>4. b1.err = "nil"
  BY <1>1, <1>2, ErrStays
<1>5. /\ Adds(b, b1, N) /\ b.err = "nil"
      /\ NamedAt(b1.buf, Len(b.buf), Len(b1.buf), labels, n)
  BY <1>3, <1>4, PutNameAdds
<1> HIDE DEF b1, n, labels
<1>6. Grown(b1, N)
  BY <1>5 DEF Adds
<1>7. /\ Adds(b1, r, N) /\ Holds(r.buf, Len(b1.buf), h)
      /\ Len(r.buf) = Len(b1.buf) + Len(h)
  BY <1>1, <1>3, <1>4, <1>6, PutBytesAdds
<1>8. /\ b.buf \in Octets /\ b1.buf \in Octets /\ Len(b1.buf) \in Nat
  BY <1>6, GrownIs
<1>9. Adds(b, r, N)
  BY <1>5, <1>7, <1>8, AddsChain
<1>10. NamedAt(r.buf, Len(b.buf), Len(b1.buf), labels, n)
  BY <1>5, <1>7, <1>8, NamedLen
<1>11. Len(r.buf) = Len(b1.buf) + 4
  BY <1>3, <1>7
<1> DEFINE e == Len(b1.buf)
           o == r.buf
           p == Len(b.buf)
           z == Len(r.buf)
<1>12. NamedAt(o, p, e, labels, n) /\ Holds(o, e, h) /\ z = e + 4 /\ e \in Nat
  BY <1>7, <1>8, <1>10, <1>11
<1> HIDE DEF e, o, p, z
<1>13. QuestionLaid(o, p, z, q, n)
  BY <1>12 DEF QuestionLaid, labels, h
<1> QED
  BY <1>5, <1>9, <1>13 DEF o, p, z, r, n

(***************************************************************************)
(* A section: every item lies where the one before it ends.                *)
(***************************************************************************)
Among(names, N) == \A x \in names : SplitLabels(x) \in N \cup {<< >>}

LEMMA AddsNone ==
    ASSUME NEW b, NEW N, Grown(b, N), b.err = "nil" PROVE Adds(b, b, N)
<1> DEFINE o == b.buf
           z == << >>
<1>1. o \in Octets /\ z \in Octets
  BY GrownIs DEF Octets
<1>2. o = o \o z
  <2>1. o \in Seq(Byte)
    BY <1>1 DEF Octets
  <2> HIDE DEF o
  <2> QED
    BY <2>1
<1> HIDE DEF z
<1>3. \E x \in Octets : b.buf = b.buf \o x
  BY <1>1, <1>2
<1> QED
  BY <1>3 DEF Adds

LEMMA EncodeQuestionErr ==
    ASSUME NEW b, NEW q, EncodeQuestion(b, q).err = "nil" PROVE b.err = "nil"
<1>1. PICK s : EncodeQuestion(b, q) = PutBytes(PutName(b, q.name), s)
  BY DEF EncodeQuestion
<1>2. PutName(b, q.name).err = "nil"
  BY <1>1, ErrStays
<1> QED
  BY <1>2, ErrStays

LEMMA EncodeRRErr ==
    ASSUME NEW b, NEW rr \in DnsRecord, EncodeRR(b, rr).err = "nil" PROVE b.err = "nil"
<1> DEFINE h == PutBytes(PutName(b, rr.name),
                         U16(rr.type) \o U16(rr.class) \o U32(rr.ttl) \o U16(0))
           w == AppendTo(h, rr.data)
           k == Len(h.buf)
           c == Len(w.buf) - k
           g == Refuse(w, "long rdata")
           p == Patched(w, k - 1, U16(c)[1], k, U16(c)[2])
           r == EncodeRR(b, rr)
           e == "nil"
<1>1. r = PatchLength(w, k)
  BY Zenon DEF EncodeRR
<1>2. r.err = e
  OBVIOUS
<1> HIDE DEF r
<1>3. r = Chosen(w, g, p, w.err # e, TooLong(c))
  BY <1>1, PatchLengthChosen, Zenon
<1> HIDE DEF p, g, c
<1>4. w.err # e => r = w
  BY <1>3 DEF Chosen
<1>5. w.err = e
  BY <1>2, <1>4
<1>6. rr.data \in DnsData
  BY DEF DnsRecord
<1> HIDE DEF h
<1>7. h.err = "nil"
  BY <1>5, <1>6, AppendErrStays
<1>8. PutName(b, rr.name).err = "nil"
  BY <1>7, ErrStays DEF h
<1> QED
  BY <1>8, ErrStays

\* The run of the loop PutQuestions.
PutQuestionRun(f, b, items, n) ==
    f = [i \in 0..n |-> IF i = 0 THEN b ELSE EncodeQuestion(f[i - 1], items[i])]

LEMMA PutQuestionRunAt ==
    ASSUME NEW f, NEW b, NEW items, NEW n \in Nat, PutQuestionRun(f, b, items, n), NEW i \in 0..n
    PROVE  f[i] = IF i = 0 THEN b ELSE EncodeQuestion(f[i - 1], items[i])
BY DEF PutQuestionRun

LEMMA PutQuestionRunExists ==
    ASSUME NEW b, NEW items, NEW n \in Nat PROVE \E f : PutQuestionRun(f, b, items, n)
<1> DEFINE G == {m \in Nat : \E f : PutQuestionRun(f, b, items, m)}
<1>1. 0 \in G
  <2> DEFINE f == [i \in 0..0 |-> b]
  <2>1. PutQuestionRun(f, b, items, 0)
    BY DEF PutQuestionRun
  <2> QED
    BY <2>1
<1>2. ASSUME NEW m \in Nat, m \in G PROVE m + 1 \in G
  <2>1. PICK h : PutQuestionRun(h, b, items, m)
    BY <1>2
  <2> DEFINE last == EncodeQuestion(h[m], items[(m + 1)])
             g == [i \in 0..(m + 1) |-> IF i = m + 1 THEN last ELSE h[i]]
  <2>2. ASSUME NEW i \in 0..(m + 1)
        PROVE  g[i] = IF i = 0 THEN b ELSE EncodeQuestion(g[i - 1], items[i])
    <3>1. CASE i = m + 1
      <4>1. i # 0 /\ i - 1 = m /\ m \in 0..(m + 1) /\ m # m + 1
        BY <3>1
      <4>2. g[i - 1] = h[m] /\ g[i] = last
        BY <3>1, <4>1
      <4> QED
        BY <3>1, <4>1, <4>2
    <3>2. CASE i # m + 1
      <4>1. i \in 0..m
        BY <3>2
      <4>2. h[i] = IF i = 0 THEN b ELSE EncodeQuestion(h[i - 1], items[i])
        BY <2>1, <4>1, PutQuestionRunAt
      <4>3. i # 0 => i - 1 \in 0..(m + 1) /\ i - 1 # m + 1
        BY <4>1
      <4>4. g[i] = h[i] /\ (i # 0 => g[i - 1] = h[i - 1])
        BY <3>2, <4>3
      <4> QED
        BY <4>2, <4>4
    <3> QED
      BY <3>1, <3>2
  <2>3. PutQuestionRun(g, b, items, m + 1)
    BY <2>2 DEF PutQuestionRun
  <2> QED
    BY <2>3
<1> HIDE DEF G
<1>3. \A m \in Nat : m \in G
  BY <1>1, <1>2, Induction
<1> QED
  BY <1>3 DEF G


LEMMA PutQuestionRunIs ==
    ASSUME NEW b, NEW items \in Seq(DnsQuestion)
    PROVE  \E f : PutQuestionRun(f, b, items, Len(items)) /\ PutQuestions(b, items) = f[Len(items)]
<1> DEFINE n == Len(items)
           put == CHOOSE f : PutQuestionRun(f, b, items, n)
<1>1. n \in Nat
  BY LenProperties
<1>2. PutQuestionRun(put, b, items, n)
  <2> HIDE DEF n
  <2>1. \E f : PutQuestionRun(f, b, items, n)
    BY <1>1, PutQuestionRunExists
  <2> QED
    BY <2>1
<1>3. PutQuestions(b, items) = put[n]
  BY DEF PutQuestions, PutQuestionRun
<1> QED
  BY <1>2, <1>3

QuestionsLaid(buf, p, q, items, n) ==
    \E at \in [0..Len(items) -> Nat] :
      /\ at[0] = p /\ at[Len(items)] = q
      /\ \A i \in 1..Len(items) : QuestionLaid(buf, at[i - 1], at[i], items[i], n)

LEMMA PutQuestionRunAdds ==
    ASSUME NEW b, NEW N, IsFiniteSet(N), Grown(b, N), NEW items \in Seq(DnsQuestion), NEW f,
           PutQuestionRun(f, b, items, Len(items)), NEW m \in 0..Len(items), f[m].err = "nil",
           \A i \in 1..Len(items) : Among({items[i].name}, N)
    PROVE  /\ b.err = "nil" /\ Adds(b, f[m], N) /\ \A i \in 0..m : Len(f[i].buf) \in Nat
           /\ \A i \in 1..m : QuestionLaid(f[m].buf, Len(f[i - 1].buf), Len(f[i].buf),
                                          items[i], Cardinality(N))
<1> DEFINE n == Len(items)
           c == Cardinality(N)
           Where(i) == Len(f[i].buf)
           Good(k) == /\ b.err = "nil" /\ Adds(b, f[k], N) /\ \A i \in 0..k : Where(i) \in Nat
                      /\ \A i \in 1..k : QuestionLaid(f[k].buf, Where(i - 1), Where(i), items[i], c)
           G == {k \in Nat : k \in 0..n /\ f[k].err = "nil" => Good(k)}
<1>1. n \in Nat /\ b.buf \in Octets /\ Len(b.buf) \in Nat
  BY LenProperties, GrownIs
<1>2. 0 \in G
  <2> DEFINE z == 0
  <2>1. z \in 0..n
    BY <1>1
  <2>2. f[z] = b
    BY <1>1, <2>1, PutQuestionRunAt
  <2>3. ASSUME f[z].err = "nil" PROVE Good(z)
    <3>1. b.err = "nil"
      BY <2>2, <2>3
    <3>2. Adds(b, f[z], N)
      BY <2>2, <3>1, AddsNone
    <3>3. \A i \in 0..z : Where(i) \in Nat
      <4>1. Where(z) \in Nat
        BY <1>1, <2>2
      <4> QED
        BY <4>1
    <3>4. 1..z = {}
      OBVIOUS
    <3> QED
      BY <3>1, <3>2, <3>3, <3>4
  <2> QED
    BY <2>3
<1>3. ASSUME NEW k \in Nat, k \in G PROVE k + 1 \in G
  <2> DEFINE j == k + 1
             h == f[k]
             r == f[j]
             it == items[j]
  <2> SUFFICES ASSUME j \in 0..n, r.err = "nil" PROVE Good(j)
    OBVIOUS
  <2>1. k \in 0..n /\ j \in 1..n /\ j # 0 /\ j - 1 = k /\ j \in Nat
    BY <1>1
  <2>2. r = EncodeQuestion(h, it)
    BY <1>1, <2>1, PutQuestionRunAt
  <2>3. it \in DnsQuestion /\ Among({it.name}, N)
    BY <2>1, ElementOfSeq
  <2>4. SplitLabels(it.name) \in N \cup {<< >>}
    BY <2>3 DEF Among
  <2> HIDE DEF r, it
  <2>5. r.err = "nil"
    BY DEF r
  <2>6. h.err = "nil"
    BY <2>2, <2>3, <2>5, EncodeQuestionErr
  <2>7. Good(k)
    BY <1>3, <2>1, <2>6
  <2>8. Grown(h, N)
    BY <2>7 DEF Adds
  <2> HIDE DEF h
  <2>9. /\ Adds(h, r, N) /\ QuestionLaid(r.buf, Len(h.buf), Len(r.buf), it, c)
    BY <2>2, <2>3, <2>4, <2>5, <2>8, EncodeQuestionAdds
  <2>10. Adds(b, r, N) /\ h.buf \in Octets /\ Len(r.buf) \in Nat
    <3>1. Grown(r, N) /\ h.buf \in Octets
      BY <2>8, <2>9, GrownIs DEF Adds
    <3>2. Len(r.buf) \in Nat
      BY <3>1, GrownIs
    <3>3. Adds(b, h, N)
      BY <2>7 DEF h
    <3> QED
      BY <1>1, <2>9, <3>1, <3>2, <3>3, AddsChain
  <2>11. PICK x \in Octets : r.buf = h.buf \o x
    BY <2>9 DEF Adds
  <2>12. ASSUME NEW i \in 0..j PROVE Where(i) \in Nat
    <3>1. CASE i = j
      BY <2>10, <3>1 DEF r
    <3>2. CASE i # j
      <4>1. i \in 0..k
        BY <3>2
      <4> QED
        BY <2>7, <4>1
    <3> QED
      BY <3>1, <3>2
  <2>13. ASSUME NEW i \in 1..j PROVE QuestionLaid(r.buf, Where(i - 1), Where(i), items[i], c)
    <3>1. CASE i = j
      BY <2>1, <2>9, <3>1 DEF r, h, it
    <3>2. CASE i # j
      <4>1. i \in 1..k /\ i \in 1..n /\ i \in 0..j
        BY <1>1, <2>1, <3>2
      <4> DEFINE p == Where(i - 1)
                 q == Where(i)
                 o == h.buf
                 t == items[i]
      <4>2. QuestionLaid(o, p, q, t, c)
        BY <2>7, <4>1 DEF h
      <4>3. q \in Nat /\ o \in Octets /\ t \in DnsQuestion
        BY <2>10, <2>12, <4>1, ElementOfSeq
      <4> HIDE DEF p, q, o, t
      <4>4. QuestionLaid(o \o x, p, q, t, c)
        BY <4>2, <4>3, QuestionLaidMore
      <4> QED
        BY <2>11, <4>4 DEF p, q, o, t
    <3> QED
      BY <3>1, <3>2
  <2> HIDE DEF Where
  <2> QED
    BY <2>7, <2>10, <2>12, <2>13 DEF r
<1> HIDE DEF G
<1>4. \A k \in Nat : k \in G
  BY <1>2, <1>3, Induction
<1>5. Good(m)
  <2>1. m \in Nat /\ m \in 0..n
    BY <1>1
  <2> HIDE DEF Good
  <2> QED
    BY <1>4, <2>1 DEF G
<1> QED
  BY <1>5

LEMMA PutQuestionsAdds ==
    ASSUME NEW b, NEW N, IsFiniteSet(N), Grown(b, N), NEW items \in Seq(DnsQuestion),
           PutQuestions(b, items).err = "nil",
           \A i \in 1..Len(items) : Among({items[i].name}, N)
    PROVE  /\ b.err = "nil" /\ Adds(b, PutQuestions(b, items), N)
           /\ QuestionsLaid(PutQuestions(b, items).buf, Len(b.buf), Len(PutQuestions(b, items).buf),
                        items, Cardinality(N))
<1> DEFINE n == Len(items)
           c == Cardinality(N)
           r == PutQuestions(b, items)
<1>1. n \in Nat /\ n \in 0..n
  BY LenProperties
<1>2. PICK f : PutQuestionRun(f, b, items, n) /\ r = f[n]
  BY PutQuestionRunIs
<1>3. r.err = "nil"
  OBVIOUS
<1> HIDE DEF r
<1> DEFINE at == [i \in 0..n |-> Len(f[i].buf)]
<1>4. /\ b.err = "nil" /\ Adds(b, r, N) /\ \A i \in 0..n : Len(f[i].buf) \in Nat
      /\ \A i \in 1..n : QuestionLaid(r.buf, Len(f[i - 1].buf), Len(f[i].buf), items[i], c)
  BY <1>1, <1>2, <1>3, PutQuestionRunAdds
<1>5. at \in [0..n -> Nat]
  BY <1>4
<1>6. at[0] = Len(b.buf) /\ at[n] = Len(r.buf)
  <2> DEFINE z == 0
  <2>1. z \in 0..n
    BY <1>1
  <2>2. f[z] = b
    BY <1>1, <1>2, <2>1, PutQuestionRunAt
  <2>3. at[z] = Len(b.buf)
    BY <2>1, <2>2
  <2> QED
    BY <1>1, <1>2, <2>3
<1>7. ASSUME NEW i \in 1..n PROVE QuestionLaid(r.buf, at[i - 1], at[i], items[i], c)
  <2>1. i \in 0..n /\ i - 1 \in 0..n
    BY <1>1
  <2>2. at[i - 1] = Len(f[i - 1].buf) /\ at[i] = Len(f[i].buf)
    BY <2>1
  <2> QED
    BY <1>4, <2>2
<1> HIDE DEF at
<1>8. QuestionsLaid(r.buf, Len(b.buf), Len(r.buf), items, c)
  BY <1>5, <1>6, <1>7 DEF QuestionsLaid
<1> QED
  BY <1>4, <1>8 DEF r

\* The run of the loop PutRecords.
PutRecordRun(f, b, items, n) ==
    f = [i \in 0..n |-> IF i = 0 THEN b ELSE EncodeRR(f[i - 1], items[i])]

LEMMA PutRecordRunAt ==
    ASSUME NEW f, NEW b, NEW items, NEW n \in Nat, PutRecordRun(f, b, items, n), NEW i \in 0..n
    PROVE  f[i] = IF i = 0 THEN b ELSE EncodeRR(f[i - 1], items[i])
BY DEF PutRecordRun

LEMMA PutRecordRunExists ==
    ASSUME NEW b, NEW items, NEW n \in Nat PROVE \E f : PutRecordRun(f, b, items, n)
<1> DEFINE G == {m \in Nat : \E f : PutRecordRun(f, b, items, m)}
<1>1. 0 \in G
  <2> DEFINE f == [i \in 0..0 |-> b]
  <2>1. PutRecordRun(f, b, items, 0)
    BY DEF PutRecordRun
  <2> QED
    BY <2>1
<1>2. ASSUME NEW m \in Nat, m \in G PROVE m + 1 \in G
  <2>1. PICK h : PutRecordRun(h, b, items, m)
    BY <1>2
  <2> DEFINE last == EncodeRR(h[m], items[(m + 1)])
             g == [i \in 0..(m + 1) |-> IF i = m + 1 THEN last ELSE h[i]]
  <2>2. ASSUME NEW i \in 0..(m + 1)
        PROVE  g[i] = IF i = 0 THEN b ELSE EncodeRR(g[i - 1], items[i])
    <3>1. CASE i = m + 1
      <4>1. i # 0 /\ i - 1 = m /\ m \in 0..(m + 1) /\ m # m + 1
        BY <3>1
      <4>2. g[i - 1] = h[m] /\ g[i] = last
        BY <3>1, <4>1
      <4> QED
        BY <3>1, <4>1, <4>2
    <3>2. CASE i # m + 1
      <4>1. i \in 0..m
        BY <3>2
      <4>2. h[i] = IF i = 0 THEN b ELSE EncodeRR(h[i - 1], items[i])
        BY <2>1, <4>1, PutRecordRunAt
      <4>3. i # 0 => i - 1 \in 0..(m + 1) /\ i - 1 # m + 1
        BY <4>1
      <4>4. g[i] = h[i] /\ (i # 0 => g[i - 1] = h[i - 1])
        BY <3>2, <4>3
      <4> QED
        BY <4>2, <4>4
    <3> QED
      BY <3>1, <3>2
  <2>3. PutRecordRun(g, b, items, m + 1)
    BY <2>2 DEF PutRecordRun
  <2> QED
    BY <2>3
<1> HIDE DEF G
<1>3. \A m \in Nat : m \in G
  BY <1>1, <1>2, Induction
<1> QED
  BY <1>3 DEF G


LEMMA PutRecordRunIs ==
    ASSUME NEW b, NEW items \in Seq(DnsRecord)
    PROVE  \E f : PutRecordRun(f, b, items, Len(items)) /\ PutRecords(b, items) = f[Len(items)]
<1> DEFINE n == Len(items)
           put == CHOOSE f : PutRecordRun(f, b, items, n)
<1>1. n \in Nat
  BY LenProperties
<1>2. PutRecordRun(put, b, items, n)
  <2> HIDE DEF n
  <2>1. \E f : PutRecordRun(f, b, items, n)
    BY <1>1, PutRecordRunExists
  <2> QED
    BY <2>1
<1>3. PutRecords(b, items) = put[n]
  BY DEF PutRecords, PutRecordRun
<1> QED
  BY <1>2, <1>3

RecordsLaid(buf, p, q, items, n) ==
    \E at \in [0..Len(items) -> Nat] :
      /\ at[0] = p /\ at[Len(items)] = q
      /\ \A i \in 1..Len(items) : RecordLaid(buf, at[i - 1], at[i], items[i], n)

LEMMA PutRecordRunAdds ==
    ASSUME NEW b, NEW N, IsFiniteSet(N), Grown(b, N), NEW items \in Seq(DnsRecord), NEW f,
           PutRecordRun(f, b, items, Len(items)), NEW m \in 0..Len(items), f[m].err = "nil",
           \A i \in 1..Len(items) : Among(RecordNames(items[i]), N)
    PROVE  /\ b.err = "nil" /\ Adds(b, f[m], N) /\ \A i \in 0..m : Len(f[i].buf) \in Nat
           /\ \A i \in 1..m : RecordLaid(f[m].buf, Len(f[i - 1].buf), Len(f[i].buf),
                                          items[i], Cardinality(N))
<1> DEFINE n == Len(items)
           c == Cardinality(N)
           Where(i) == Len(f[i].buf)
           Good(k) == /\ b.err = "nil" /\ Adds(b, f[k], N) /\ \A i \in 0..k : Where(i) \in Nat
                      /\ \A i \in 1..k : RecordLaid(f[k].buf, Where(i - 1), Where(i), items[i], c)
           G == {k \in Nat : k \in 0..n /\ f[k].err = "nil" => Good(k)}
<1>1. n \in Nat /\ b.buf \in Octets /\ Len(b.buf) \in Nat
  BY LenProperties, GrownIs
<1>2. 0 \in G
  <2> DEFINE z == 0
  <2>1. z \in 0..n
    BY <1>1
  <2>2. f[z] = b
    BY <1>1, <2>1, PutRecordRunAt
  <2>3. ASSUME f[z].err = "nil" PROVE Good(z)
    <3>1. b.err = "nil"
      BY <2>2, <2>3
    <3>2. Adds(b, f[z], N)
      BY <2>2, <3>1, AddsNone
    <3>3. \A i \in 0..z : Where(i) \in Nat
      <4>1. Where(z) \in Nat
        BY <1>1, <2>2
      <4> QED
        BY <4>1
    <3>4. 1..z = {}
      OBVIOUS
    <3> QED
      BY <3>1, <3>2, <3>3, <3>4
  <2> QED
    BY <2>3
<1>3. ASSUME NEW k \in Nat, k \in G PROVE k + 1 \in G
  <2> DEFINE j == k + 1
             h == f[k]
             r == f[j]
             it == items[j]
  <2> SUFFICES ASSUME j \in 0..n, r.err = "nil" PROVE Good(j)
    OBVIOUS
  <2>1. k \in 0..n /\ j \in 1..n /\ j # 0 /\ j - 1 = k /\ j \in Nat
    BY <1>1
  <2>2. r = EncodeRR(h, it)
    BY <1>1, <2>1, PutRecordRunAt
  <2>3. it \in DnsRecord /\ Among(RecordNames(it), N)
    BY <2>1, ElementOfSeq
  <2>4. (SplitLabels(it.name) \in N \cup {<< >>} /\ \A x \in DataNames(it.data) : SplitLabels(x) \in N \cup {<< >>})
    BY <2>3 DEF Among, RecordNames
  <2> HIDE DEF r, it
  <2>5. r.err = "nil"
    BY DEF r
  <2>6. h.err = "nil"
    BY <2>2, <2>3, <2>5, EncodeRRErr
  <2>7. Good(k)
    BY <1>3, <2>1, <2>6
  <2>8. Grown(h, N)
    BY <2>7 DEF Adds
  <2> HIDE DEF h
  <2>9. /\ Adds(h, r, N) /\ RecordLaid(r.buf, Len(h.buf), Len(r.buf), it, c)
    BY <2>2, <2>3, <2>4, <2>5, <2>8, EncodeRRAdds
  <2>10. Adds(b, r, N) /\ h.buf \in Octets /\ Len(r.buf) \in Nat
    <3>1. Grown(r, N) /\ h.buf \in Octets
      BY <2>8, <2>9, GrownIs DEF Adds
    <3>2. Len(r.buf) \in Nat
      BY <3>1, GrownIs
    <3>3. Adds(b, h, N)
      BY <2>7 DEF h
    <3> QED
      BY <1>1, <2>9, <3>1, <3>2, <3>3, AddsChain
  <2>11. PICK x \in Octets : r.buf = h.buf \o x
    BY <2>9 DEF Adds
  <2>12. ASSUME NEW i \in 0..j PROVE Where(i) \in Nat
    <3>1. CASE i = j
      BY <2>10, <3>1 DEF r
    <3>2. CASE i # j
      <4>1. i \in 0..k
        BY <3>2
      <4> QED
        BY <2>7, <4>1
    <3> QED
      BY <3>1, <3>2
  <2>13. ASSUME NEW i \in 1..j PROVE RecordLaid(r.buf, Where(i - 1), Where(i), items[i], c)
    <3>1. CASE i = j
      BY <2>1, <2>9, <3>1 DEF r, h, it
    <3>2. CASE i # j
      <4>1. i \in 1..k /\ i \in 1..n /\ i \in 0..j
        BY <1>1, <2>1, <3>2
      <4> DEFINE p == Where(i - 1)
                 q == Where(i)
                 o == h.buf
                 t == items[i]
      <4>2. RecordLaid(o, p, q, t, c)
        BY <2>7, <4>1 DEF h
      <4>3. q \in Nat /\ o \in Octets /\ t \in DnsRecord
        BY <2>10, <2>12, <4>1, ElementOfSeq
      <4> HIDE DEF p, q, o, t
      <4>4. RecordLaid(o \o x, p, q, t, c)
        BY <4>2, <4>3, RecordLaidMore
      <4> QED
        BY <2>11, <4>4 DEF p, q, o, t
    <3> QED
      BY <3>1, <3>2
  <2> HIDE DEF Where
  <2> QED
    BY <2>7, <2>10, <2>12, <2>13 DEF r
<1> HIDE DEF G
<1>4. \A k \in Nat : k \in G
  BY <1>2, <1>3, Induction
<1>5. Good(m)
  <2>1. m \in Nat /\ m \in 0..n
    BY <1>1
  <2> HIDE DEF Good
  <2> QED
    BY <1>4, <2>1 DEF G
<1> QED
  BY <1>5

LEMMA PutRecordsAdds ==
    ASSUME NEW b, NEW N, IsFiniteSet(N), Grown(b, N), NEW items \in Seq(DnsRecord),
           PutRecords(b, items).err = "nil",
           \A i \in 1..Len(items) : Among(RecordNames(items[i]), N)
    PROVE  /\ b.err = "nil" /\ Adds(b, PutRecords(b, items), N)
           /\ RecordsLaid(PutRecords(b, items).buf, Len(b.buf), Len(PutRecords(b, items).buf),
                        items, Cardinality(N))
<1> DEFINE n == Len(items)
           c == Cardinality(N)
           r == PutRecords(b, items)
<1>1. n \in Nat /\ n \in 0..n
  BY LenProperties
<1>2. PICK f : PutRecordRun(f, b, items, n) /\ r = f[n]
  BY PutRecordRunIs
<1>3. r.err = "nil"
  OBVIOUS
<1> HIDE DEF r
<1> DEFINE at == [i \in 0..n |-> Len(f[i].buf)]
<1>4. /\ b.err = "nil" /\ Adds(b, r, N) /\ \A i \in 0..n : Len(f[i].buf) \in Nat
      /\ \A i \in 1..n : RecordLaid(r.buf, Len(f[i - 1].buf), Len(f[i].buf), items[i], c)
  BY <1>1, <1>2, <1>3, PutRecordRunAdds
<1>5. at \in [0..n -> Nat]
  BY <1>4
<1>6. at[0] = Len(b.buf) /\ at[n] = Len(r.buf)
  <2> DEFINE z == 0
  <2>1. z \in 0..n
    BY <1>1
  <2>2. f[z] = b
    BY <1>1, <1>2, <2>1, PutRecordRunAt
  <2>3. at[z] = Len(b.buf)
    BY <2>1, <2>2
  <2> QED
    BY <1>1, <1>2, <2>3
<1>7. ASSUME NEW i \in 1..n PROVE RecordLaid(r.buf, at[i - 1], at[i], items[i], c)
  <2>1. i \in 0..n /\ i - 1 \in 0..n
    BY <1>1
  <2>2. at[i - 1] = Len(f[i - 1].buf) /\ at[i] = Len(f[i].buf)
    BY <2>1
  <2> QED
    BY <1>4, <2>2
<1> HIDE DEF at
<1>8. RecordsLaid(r.buf, Len(b.buf), Len(r.buf), items, c)
  BY <1>5, <1>6, <1>7 DEF RecordsLaid
<1> QED
  BY <1>4, <1>8 DEF r


(***************************************************************************)
(* A message.                                                              *)
(***************************************************************************)
LEMMA ImageFinite ==
    ASSUME NEW S, IsFiniteSet(S), NEW f PROVE IsFiniteSet({f[x] : x \in S})
<1> DEFINE T == {f[x] : x \in S}
           g == [x \in S |-> f[x]]
<1>1. g \in Surjection(S, T)
  BY DEF Surjection
<1> HIDE DEF g, T
<1>2. IsFiniteSet(T)
  BY <1>1, FS_Surjection
<1> QED
  BY <1>2 DEF T

LEMMA DataNamesFinite ==
    ASSUME NEW d PROVE IsFiniteSet(DataNames(d))
<1>1. DataNames(d) = {d.host} \/ DataNames(d) = {d.mname} \cup {d.rname} \/ DataNames(d) = {}
  BY DEF DataNames
<1>2. IsFiniteSet({d.host}) /\ IsFiniteSet({d.mname}) /\ IsFiniteSet({})
  BY FS_Singleton, FS_EmptySet
<1>3. IsFiniteSet({d.mname} \cup {d.rname})
  BY <1>2, FS_AddElement
<1> QED
  BY <1>1, <1>2, <1>3

LEMMA RecordNamesFinite ==
    ASSUME NEW rr PROVE IsFiniteSet(RecordNames(rr))
<1> DEFINE S == DataNames(rr.data)
<1>1. IsFiniteSet(S)
  BY DataNamesFinite
<1> HIDE DEF S
<1>2. IsFiniteSet(S \cup {rr.name})
  BY <1>1, FS_AddElement
<1>3. S \cup {rr.name} = {rr.name} \cup S
  OBVIOUS
<1> QED
  BY <1>2, <1>3 DEF RecordNames, S

LEMMA SpellingsFinite ==
    ASSUME NEW m, m.questions \in Seq(DnsQuestion), Sections(m) \in Seq(DnsRecord)
    PROVE  /\ IsFiniteSet(Spellings(m)) /\ Cardinality(Spellings(m)) \in Nat
           /\ \A i \in 1..Len(m.questions) : Among({m.questions[i].name}, Spellings(m))
           /\ \A i \in 1..Len(Sections(m)) : Among(RecordNames(Sections(m)[i]), Spellings(m))
<1> DEFINE qs == m.questions
           rs == Sections(m)
           j  == Len(qs)
           k  == Len(rs)
           Q  == 1..j
           R  == 1..k
           f  == [i \in Q |-> qs[i].name]
           g  == [i \in R |-> RecordNames(rs[i])]
           A  == {f[i] : i \in Q}
           B  == {g[i] : i \in R}
           C  == UNION B
           D  == A \cup C
           h  == [x \in D |-> SplitLabels(x)]
           E  == {h[x] : x \in D}
<1>1. IsFiniteSet(Q) /\ IsFiniteSet(R)
  <2>1. j \in Int /\ k \in Int
    BY LenProperties
  <2>2. 1 \in Int
    OBVIOUS
  <2> HIDE DEF j, k
  <2> QED
    BY <2>1, <2>2, FS_Interval
<1>2. \A T \in B : IsFiniteSet(T)
  BY RecordNamesFinite
<1>3. A = {qs[i].name : i \in Q} /\ B = {RecordNames(rs[i]) : i \in R}
  OBVIOUS
<1>4. MessageNames(m) = D
  BY <1>3 DEF MessageNames
<1>5. E = {SplitLabels(x) : x \in D}
  OBVIOUS
<1>6. Spellings(m) = E \ {<< >>}
  BY <1>4, <1>5 DEF Spellings
<1> HIDE DEF f, g
<1>7. IsFiniteSet(A) /\ IsFiniteSet(B)
  <2> HIDE DEF Q, R
  <2> QED
    BY <1>1, ImageFinite
<1> HIDE DEF A, B
<1>8. IsFiniteSet(C)
  BY <1>2, <1>7, FS_UNION
<1> HIDE DEF C
<1>9. IsFiniteSet(D)
  BY <1>7, <1>8, FS_Union
<1>10. A \subseteq D /\ C \subseteq D
  OBVIOUS
<1> HIDE DEF D, h
<1>11. IsFiniteSet(E)
  BY <1>9, ImageFinite
<1> HIDE DEF E
<1>12. IsFiniteSet(Spellings(m))
  BY <1>6, <1>11, FS_Difference
<1>13. ASSUME NEW x \in D PROVE SplitLabels(x) \in Spellings(m) \cup {<< >>}
  BY <1>5, <1>6
<1>14. ASSUME NEW i \in 1..j PROVE Among({qs[i].name}, Spellings(m))
  <2>1. qs[i].name \in A
    BY <1>3
  <2> QED
    BY <1>10, <1>13, <2>1 DEF Among
<1>15. ASSUME NEW i \in 1..k PROVE Among(RecordNames(rs[i]), Spellings(m))
  <2>1. RecordNames(rs[i]) \in B
    BY <1>3
  <2>2. RecordNames(rs[i]) \subseteq D
    BY <1>10, <2>1 DEF C
  <2> QED
    BY <1>13, <2>2 DEF Among
<1> QED
  BY <1>12, <1>14, <1>15, FS_CardinalityType

LEMMA NewBuilderGrown ==
    ASSUME NEW N PROVE Grown(NewBuilder, N) /\ NewBuilder.err = "nil" /\ NewBuilder.buf = << >>
<1> DEFINE z == << >>
           e == "nil"
           W == {}
<1>1. NewBuilder = Build(z, z, e)
  BY DEF NewBuilder, Build
<1>2. z \in Octets /\ DOMAIN z = {} /\ IsFiniteSet(W)
  BY FS_EmptySet DEF Octets
<1>3. \A x \in W : x \in DOMAIN z \/ PointerSpan <= Len(z)
  OBVIOUS
<1> HIDE DEF z, e, W
<1>4. /\ IsBuilder(NewBuilder) /\ NewBuilder.buf = z /\ NewBuilder.offsets = z
      /\ NewBuilder.err = e
  BY <1>1, BuildIs
<1>5. Remembers(z, z, W)
  BY <1>2 DEF Remembers
<1>6. Built(NewBuilder, W)
  BY <1>2, <1>3, <1>4, <1>5 DEF Built
<1>7. W \in SUBSET N
  BY DEF W
<1> QED
  BY <1>4, <1>6, <1>7 DEF Grown, z, e

LEMMA QuestionsLaidMore ==
    ASSUME NEW buf \in Octets, NEW y \in Octets, NEW p, NEW q, NEW items \in Seq(DnsQuestion), NEW n,
           QuestionsLaid(buf, p, q, items, n)
    PROVE  QuestionsLaid(buf \o y, p, q, items, n)
<1> DEFINE k == Len(items)
           u == buf \o y
<1>1. PICK at \in [0..k -> Nat] :
        /\ at[0] = p /\ at[k] = q
        /\ \A i \in 1..k : QuestionLaid(buf, at[i - 1], at[i], items[i], n)
  BY DEF QuestionsLaid
<1>2. ASSUME NEW i \in 1..k PROVE QuestionLaid(u, at[i - 1], at[i], items[i], n)
  <2> DEFINE e == at[i - 1]
             f == at[i]
             t == items[i]
  <2>1. QuestionLaid(buf, e, f, t, n)
    BY <1>1
  <2>2. f \in Nat /\ t \in DnsQuestion
    <3>1. k \in Nat
      BY LenProperties
    <3>2. i \in 0..k
      BY <3>1
    <3> QED
      BY <3>2, ElementOfSeq
  <2> HIDE DEF e, f, t
  <2>3. QuestionLaid(buf \o y, e, f, t, n)
    BY <2>1, <2>2, QuestionLaidMore
  <2> QED
    BY <2>3 DEF e, f, t
<1> HIDE DEF u
<1>3. QuestionsLaid(u, p, q, items, n)
  BY <1>1, <1>2 DEF QuestionsLaid
<1> QED
  BY <1>3 DEF u

LEMMA RecordsLaidMore ==
    ASSUME NEW buf \in Octets, NEW y \in Octets, NEW p, NEW q, NEW items \in Seq(DnsRecord), NEW n,
           RecordsLaid(buf, p, q, items, n)
    PROVE  RecordsLaid(buf \o y, p, q, items, n)
<1> DEFINE k == Len(items)
           u == buf \o y
<1>1. PICK at \in [0..k -> Nat] :
        /\ at[0] = p /\ at[k] = q
        /\ \A i \in 1..k : RecordLaid(buf, at[i - 1], at[i], items[i], n)
  BY DEF RecordsLaid
<1>2. ASSUME NEW i \in 1..k PROVE RecordLaid(u, at[i - 1], at[i], items[i], n)
  <2> DEFINE e == at[i - 1]
             f == at[i]
             t == items[i]
  <2>1. RecordLaid(buf, e, f, t, n)
    BY <1>1
  <2>2. f \in Nat /\ t \in DnsRecord
    <3>1. k \in Nat
      BY LenProperties
    <3>2. i \in 0..k
      BY <3>1
    <3> QED
      BY <3>2, ElementOfSeq
  <2> HIDE DEF e, f, t
  <2>3. RecordLaid(buf \o y, e, f, t, n)
    BY <2>1, <2>2, RecordLaidMore
  <2> QED
    BY <2>3 DEF e, f, t
<1> HIDE DEF u
<1>3. RecordsLaid(u, p, q, items, n)
  BY <1>1, <1>2 DEF RecordsLaid
<1> QED
  BY <1>3 DEF u


LEMMA PutRecordsErr ==
    ASSUME NEW b, NEW items \in Seq(DnsRecord), PutRecords(b, items).err = "nil"
    PROVE  b.err = "nil"
<1> DEFINE n == Len(items)
<1>1. n \in Nat
  BY LenProperties
<1>2. PICK f : PutRecordRun(f, b, items, n) /\ PutRecords(b, items) = f[n]
  BY PutRecordRunIs
<1> DEFINE G == {k \in Nat : k \in 0..n /\ f[k].err = "nil" => b.err = "nil"}
<1>3. 0 \in G
  <2> DEFINE z == 0
  <2>1. z \in 0..n
    BY <1>1
  <2>2. f[z] = b
    BY <1>1, <1>2, <2>1, PutRecordRunAt
  <2> QED
    BY <2>2
<1>4. ASSUME NEW k \in Nat, k \in G PROVE k + 1 \in G
  <2> DEFINE j == k + 1
             h == f[k]
             r == f[j]
             it == items[j]
  <2> SUFFICES ASSUME j \in 0..n, r.err = "nil" PROVE b.err = "nil"
    OBVIOUS
  <2>1. k \in 0..n /\ j \in 1..n /\ j # 0 /\ j - 1 = k /\ j \in Nat
    BY <1>1
  <2>2. r = EncodeRR(h, it)
    BY <1>1, <1>2, <2>1, PutRecordRunAt
  <2>3. it \in DnsRecord
    BY <2>1, ElementOfSeq
  <2> HIDE DEF it
  <2>4. h.err = "nil"
    BY <2>2, <2>3, EncodeRRErr
  <2> QED
    BY <1>4, <2>1, <2>4
<1> HIDE DEF G
<1>5. \A k \in Nat : k \in G
  BY <1>3, <1>4, Induction
<1>6. n \in Nat /\ n \in 0..n
  BY <1>1
<1>7. f[n].err = "nil"
  BY <1>2
<1> QED
  BY <1>5, <1>6, <1>7 DEF G

Counts(m) == << Len(m.questions), Len(m.answers), Len(m.authority), Len(m.additional) >>

HeaderOctets(m) ==
    (U16(m.header.id) \o U16(Flags(m.header)))
      \o Four(U16(Counts(m)[1]), U16(Counts(m)[2]), U16(Counts(m)[3]), U16(Counts(m)[4]))

Started(m) == PutBytes(NewBuilder, HeaderOctets(m))

Finished(m) == PutRecords(PutQuestions(Started(m), m.questions), Sections(m))

LEMMA CountsRow ==
    ASSUME NEW m
    PROVE  FlattenSeq([i \in 1..4 |-> U16(Counts(m)[i])]) =
             Four(U16(Counts(m)[1]), U16(Counts(m)[2]), U16(Counts(m)[3]), U16(Counts(m)[4]))
<1> DEFINE c == Counts(m)
<1> HIDE DEF c
<1> DEFINE f == [i \in 1..4 |-> U16(c[i])]
<1>1. f = [i \in 1..4 |-> f[i]]
  OBVIOUS
<1>2. f[1] = U16(c[1]) /\ f[2] = U16(c[2]) /\ f[3] = U16(c[3]) /\ f[4] = U16(c[4])
  OBVIOUS
<1>3. [i \in 1..4 |-> U16(c[i])] = f
  OBVIOUS
<1> HIDE DEF f
<1>4. FlattenSeq(f) = Four(f[1], f[2], f[3], f[4])
  BY <1>1, RowFour
<1>5. FlattenSeq([i \in 1..4 |-> U16(c[i])]) = Four(U16(c[1]), U16(c[2]), U16(c[3]), U16(c[4]))
  BY <1>2, <1>3, <1>4
<1> QED
  BY <1>5 DEF c

Either(a, b, c) == IF c THEN a ELSE b

TooMany(counts) == \E i \in 1..4 : TooLong(counts[i])

LEMMA EncodeEither ==
    ASSUME NEW m
    PROVE  Encode(m) =
             Either(Refuse(NewBuilder, "count"),
                    PutRecords(
                      PutQuestions(
                        PutBytes(NewBuilder, U16(m.header.id) \o U16(Flags(m.header))
                                   \o FlattenSeq([i \in 1..4 |-> U16(Counts(m)[i])])),
                        m.questions),
                      m.answers \o m.authority \o m.additional),
                    TooMany(Counts(m)))
BY SMT DEF Encode, Either, Counts, TooLong, TooMany

LEMMA EncodeIs ==
    ASSUME NEW m
    PROVE  Encode(m) = Either(Refuse(NewBuilder, "count"), Finished(m), TooMany(Counts(m)))
<1> DEFINE c == Counts(m)
           row == FlattenSeq([i \in 1..4 |-> U16(c[i])])
           head == PutBytes(NewBuilder, U16(m.header.id) \o U16(Flags(m.header)) \o row)
           ref == Refuse(NewBuilder, "count")
           all == PutRecords(PutQuestions(head, m.questions), m.answers \o m.authority \o m.additional)
<1>1. Encode(m) = Either(ref, all, TooMany(c))
  BY EncodeEither, Zenon
<1>2. row = Four(U16(c[1]), U16(c[2]), U16(c[3]), U16(c[4]))
  BY CountsRow
<1> HIDE DEF row
<1>3. head = Started(m)
  BY <1>2 DEF Started, HeaderOctets
<1> HIDE DEF head
<1>4. all = Finished(m)
  BY <1>3 DEF Finished, Sections
<1> QED
  BY <1>1, <1>4

LEMMA FlagsNat == ASSUME NEW h \in DnsHeader PROVE Flags(h) \in Nat
<1>1. /\ Bit(h.qr) \in Nat /\ Bit(h.aa) \in Nat /\ Bit(h.tc) \in Nat /\ Bit(h.rd) \in Nat
      /\ Bit(h.ra) \in Nat /\ h.opcode % 16 \in Nat /\ h.rcode % 16 \in Nat
  BY DEF Bit, DnsHeader
<1> DEFINE a == Bit(h.qr)
           b == Bit(h.aa)
           c == Bit(h.tc)
           d == Bit(h.rd)
           e == Bit(h.ra)
           f == h.opcode % 16
           g == h.rcode % 16
<1> HIDE DEF a, b, c, d, e, f, g
<1>2. a * 32768 + f * 2048 + b * 1024 + c * 512 + d * 256 + e * 128 + g \in Nat
  BY <1>1 DEF a, b, c, d, e, f, g
<1> QED
  BY <1>2 DEF Flags, a, b, c, d, e, f, g

LEMMA CountNat ==
    ASSUME NEW m \in DnsMessage, ~ TooMany(Counts(m))
    PROVE  /\ m.questions \in Seq(DnsQuestion) /\ Sections(m) \in Seq(DnsRecord)
           /\ m.answers \in Seq(DnsRecord) /\ m.authority \in Seq(DnsRecord)
           /\ m.additional \in Seq(DnsRecord) /\ m.header \in DnsHeader
           /\ \A i \in 1..4 : Counts(m)[i] \in Word16 /\ Counts(m)[i] \in Nat
<1>1. /\ m.questions \in Seq(DnsQuestion) /\ m.header \in DnsHeader
      /\ m.answers \in Seq(DnsRecord) /\ m.authority \in Seq(DnsRecord)
      /\ m.additional \in Seq(DnsRecord)
  BY DEF DnsMessage
<1> DEFINE a == m.answers
           b == m.authority
           c == m.additional
<1>2. a \in Seq(DnsRecord) /\ b \in Seq(DnsRecord) /\ c \in Seq(DnsRecord)
  BY <1>1
<1>3. Sections(m) = a \o b \o c
  BY DEF Sections
<1> HIDE DEF a, b, c
<1>4. a \o b \o c \in Seq(DnsRecord)
  BY <1>2
<1>5. \A i \in 1..4 : Counts(m)[i] \in Nat
  BY <1>1, LenProperties DEF Counts
<1>6. ASSUME NEW i \in 1..4 PROVE Counts(m)[i] \in Word16
  <2>1. ~ TooLong(Counts(m)[i]) /\ Counts(m)[i] \in Nat
    BY <1>5 DEF TooMany
  <2> QED
    BY <2>1, NatWord
<1> QED
  BY <1>1, <1>3, <1>4, <1>5, <1>6

LEMMA HeaderIs ==
    ASSUME NEW m \in DnsMessage, ~ TooMany(Counts(m))
    PROVE  /\ HeaderOctets(m) \in Octets /\ Len(HeaderOctets(m)) = 12
           /\ \A o \in Octets : Holds(o, 0, HeaderOctets(m)) =>
                /\ Holds(o, 0, U16(m.header.id)) /\ Holds(o, 2, U16(Flags(m.header)))
                /\ Holds(o, 4, U16(Counts(m)[1])) /\ Holds(o, 6, U16(Counts(m)[2]))
                /\ Holds(o, 8, U16(Counts(m)[3])) /\ Holds(o, 10, U16(Counts(m)[4]))
<1> DEFINE x == U16(m.header.id)
           y == U16(Flags(m.header))
           c == Counts(m)
           q == U16(c[1])
           r == U16(c[2])
           s == U16(c[3])
           t == U16(c[4])
           u == x \o y
           w == Four(q, r, s, t)
<1>1. m.header.id \in Nat /\ Flags(m.header) \in Nat /\ \A i \in 1..4 : c[i] \in Nat
  <2>1. m.header \in DnsHeader /\ \A i \in 1..4 : c[i] \in Nat
    BY CountNat
  <2>2. m.header.id \in Word16
    BY <2>1 DEF DnsHeader
  <2> QED
    BY <2>1, <2>2, WordNat, FlagsNat
<1> HIDE DEF c
<1>2. /\ x \in Octets /\ Len(x) = 2 /\ y \in Octets /\ Len(y) = 2
      /\ q \in Octets /\ Len(q) = 2 /\ r \in Octets /\ Len(r) = 2
      /\ s \in Octets /\ Len(s) = 2 /\ t \in Octets /\ Len(t) = 2
  BY <1>1, U16Octets
<1> HIDE DEF x, y, q, r, s, t
<1>3. /\ x \in Octets /\ y \in Octets /\ q \in Octets /\ r \in Octets
      /\ s \in Octets /\ t \in Octets
  BY <1>2
<1>4. Joined(x, y, u)
  BY <1>3, JoinedOctets
<1>5. u \in Octets /\ Len(u) = 4
  BY <1>2, <1>4 DEF Joined
<1>6. w \in Octets /\ Len(w) = ((Len(q) + Len(r)) + Len(s)) + Len(t)
  BY <1>3, FourOctets
<1>7. Len(w) = 8
  BY <1>2, <1>6
<1> HIDE DEF u, w
<1>8. Joined(u, w, u \o w)
  BY <1>5, <1>6, JoinedOctets
<1>9. u \o w \in Octets /\ Len(u \o w) = 12
  BY <1>5, <1>7, <1>8 DEF Joined
<1>10. HeaderOctets(m) = u \o w
  BY DEF HeaderOctets, u, w, x, y, q, r, s, t, c
<1>11. ASSUME NEW o \in Octets, Holds(o, 0, u \o w)
       PROVE  /\ Holds(o, 0, x) /\ Holds(o, 2, y) /\ Holds(o, 4, q) /\ Holds(o, 6, r)
              /\ Holds(o, 8, s) /\ Holds(o, 10, t)
  <2> DEFINE z == 0
  <2>1. z \in Nat /\ Holds(o, z, u \o w)
    BY <1>11
  <2> HIDE DEF z
  <2>2. Holds(o, z, u) /\ Holds(o, z + Len(u), w)
    BY <1>5, <1>6, <2>1, HoldsJoin
  <2>3. Holds(o, z, x \o y)
    BY <2>2 DEF u
  <2>4. Holds(o, z, x) /\ Holds(o, z + Len(x), y)
    BY <1>3, <2>1, <2>3, HoldsJoin
  <2>5. Holds(o, 4, w)
    BY <1>5, <2>2 DEF z
  <2>6. Holds(o, 0, x) /\ Holds(o, 2, y)
    BY <1>2, <2>4 DEF z
  <2> DEFINE k == 4
  <2>7. k \in Nat /\ Holds(o, k, Four(q, r, s, t))
    BY <2>5 DEF w
  <2> HIDE DEF k
  <2>8. /\ Holds(o, k, q) /\ Holds(o, k + Len(q), r) /\ Holds(o, k + (Len(q) + Len(r)), s)
        /\ Holds(o, k + ((Len(q) + Len(r)) + Len(s)), t)
    BY <1>3, <2>7, HoldsFour
  <2>9. k + Len(q) = 6 /\ k + (Len(q) + Len(r)) = 8 /\ k + ((Len(q) + Len(r)) + Len(s)) = 10
    BY <1>2 DEF k
  <2>10. Holds(o, 4, q)
    BY <2>8 DEF k
  <2> QED
    BY <2>6, <2>8, <2>9, <2>10
<1> QED
  BY <1>9, <1>10, <1>11 DEF x, y, q, r, s, t, c

\* What Encode makes.
LEMMA EncodeLaid ==
    ASSUME NEW m \in DnsMessage, Encode(m).err = "nil"
    PROVE  /\ ~ TooMany(Counts(m)) /\ Encode(m).buf \in Octets
           /\ Holds(Encode(m).buf, 0, HeaderOctets(m)) /\ 12 <= Len(Encode(m).buf)
           /\ IsFiniteSet(Spellings(m)) /\ Cardinality(Spellings(m)) \in Nat
           /\ \E p \in Nat :
                /\ QuestionsLaid(Encode(m).buf, 12, p, m.questions, Cardinality(Spellings(m)))
                /\ RecordsLaid(Encode(m).buf, p, Len(Encode(m).buf), Sections(m),
                               Cardinality(Spellings(m)))
<1> DEFINE b0 == NewBuilder
           h  == HeaderOctets(m)
           b1 == PutBytes(b0, h)
           qs == m.questions
           rs == Sections(m)
           b2 == PutQuestions(b1, qs)
           b3 == PutRecords(b2, rs)
           N  == Spellings(m)
           c  == Cardinality(N)
           e  == "count"
           r  == Encode(m)
<1>1. r = Either(Refuse(b0, e), b3, TooMany(Counts(m)))
  BY EncodeIs DEF Finished, Started
<1>2. Grown(b0, N) /\ b0.err = "nil" /\ b0.buf = << >> /\ IsBuilder(b0)
  BY NewBuilderGrown, GrownIs
<1>3. Refuse(b0, e).err # "nil"
  <2>1. e # "nil"
    OBVIOUS
  <2> HIDE DEF e
  <2> QED
    BY <1>2, <2>1, ErrStays
<1>4. r.err = "nil"
  OBVIOUS
<1> HIDE DEF e, r, b3
<1>5. ~ TooMany(Counts(m)) /\ r = b3
  BY <1>1, <1>3, <1>4 DEF Either
<1>6. h \in Octets /\ Len(h) = 12
  BY <1>5, HeaderIs
<1>7. qs \in Seq(DnsQuestion) /\ rs \in Seq(DnsRecord)
  BY <1>5, CountNat
<1>8. /\ IsFiniteSet(N) /\ c \in Nat
      /\ \A i \in 1..Len(qs) : Among({qs[i].name}, N)
      /\ \A i \in 1..Len(rs) : Among(RecordNames(rs[i]), N)
  BY <1>7, SpellingsFinite
<1> HIDE DEF b0, h, qs, rs, N
<1>9. /\ Adds(b0, b1, N) /\ b1.buf = b0.buf \o h /\ b1.err = "nil"
      /\ Holds(b1.buf, Len(b0.buf), h) /\ Len(b1.buf) = Len(b0.buf) + Len(h)
  BY <1>2, <1>6, PutBytesAdds
<1>10. Grown(b1, N) /\ Holds(b1.buf, 0, h) /\ Len(b1.buf) = 12
  <2>1. Len(b0.buf) = 0
    BY <1>2
  <2> QED
    BY <1>6, <1>9, <2>1 DEF Adds
<1> HIDE DEF b1
<1>11. b2.err = "nil"
  BY <1>4, <1>5, <1>7, PutRecordsErr DEF b3
<1>12. /\ Adds(b1, b2, N) /\ QuestionsLaid(b2.buf, Len(b1.buf), Len(b2.buf), qs, c)
  BY <1>7, <1>8, <1>10, <1>11, PutQuestionsAdds
<1> HIDE DEF b2
<1>13. Grown(b2, N)
  BY <1>12 DEF Adds
<1>14. /\ Adds(b2, b3, N) /\ RecordsLaid(b3.buf, Len(b2.buf), Len(b3.buf), rs, c)
  BY <1>4, <1>5, <1>7, <1>8, <1>13, PutRecordsAdds DEF b3
<1>15. Grown(b3, N)
  BY <1>14 DEF Adds
<1>16. /\ b1.buf \in Octets /\ b2.buf \in Octets /\ b3.buf \in Octets /\ Len(b2.buf) \in Nat
       /\ Len(b1.buf) \in Nat /\ Len(b3.buf) \in Nat
  BY <1>10, <1>13, <1>15, GrownIs
<1>17. PICK x \in Octets : b2.buf = b1.buf \o x
  BY <1>12 DEF Adds
<1>18. PICK y \in Octets : b3.buf = b2.buf \o y
  BY <1>14 DEF Adds
<1> DEFINE o1 == b1.buf
           o2 == b2.buf
           o3 == b3.buf
           p  == Len(b2.buf)
           z  == 0
<1>19. /\ o1 \in Octets /\ o2 \in Octets /\ o2 = o1 \o x /\ o3 = o2 \o y /\ z \in Nat
       /\ Holds(o1, z, h)
  BY <1>10, <1>16, <1>17, <1>18
<1>20. QuestionsLaid(o2, 12, p, qs, c)
  BY <1>10, <1>12
<1>21. Len(o1) <= Len(o2) /\ Len(o2) <= Len(o3)
  BY <1>12, <1>14, <1>16, AddsLen
<1>22. 12 <= Len(o3)
  BY <1>10, <1>16, <1>21
<1> HIDE DEF o1, o2, o3, p, z, c
<1>23. Holds(o2, z, h)
  BY <1>6, <1>19, HoldsMore
<1>24. Holds(o3, z, h)
  BY <1>6, <1>19, <1>23, HoldsMore
<1>25. QuestionsLaid(o3, 12, p, qs, c)
  BY <1>7, <1>19, <1>20, QuestionsLaidMore
<1>26. RecordsLaid(o3, p, Len(o3), rs, c)
  BY <1>14 DEF p, o3
<1>27. o3 = r.buf /\ o3 \in Octets /\ p \in Nat
  BY <1>5, <1>16 DEF o3, p
<1> QED
  BY <1>5, <1>8, <1>22, <1>24, <1>25, <1>26, <1>27 DEF r, h, qs, rs, N, c, z

(***************************************************************************)
(* What lies in octets is what Decode finds there.                         *)
(***************************************************************************)
LEMMA NameFound ==
    ASSUME NEW b \in Octets, NEW p \in Nat, NEW e, NEW name \in Octets, NEW n \in Nat,
           NamedAt(b, p, e, SplitLabels(name), n), GoodName(b, p) \/ n <= MaxPointerHops
    PROVE  /\ GoodName(b, p) /\ NameEnd(b, p) = e /\ NameOf(b, p) = ToLower(name)
           /\ e \in Nat /\ e <= Len(b)
<1> DEFINE labels == SplitLabels(name)
<1>1. PICK h \in Nat : h <= n /\ Spelled(b, Pl(p, labels, h, e))
  BY DEF NamedAt
<1> DEFINE s == Pl(p, labels, h, e)
<1>2. Len(WireLabels(labels)) + 1 <= MaxNameWire
  BY DEF NamedAt
<1>3. s.off = p /\ s.labels = labels /\ s.hops = h /\ s.end = e
  BY PlIs
<1>4. Join(labels) = name
  BY SplitLabelsIs
<1> HIDE DEF labels
<1> HIDE DEF s
<1>5. Spelled(b, s)
  BY <1>1 DEF s
<1>6. /\ GoodName(b, s.off) =>
           NameEnd(b, s.off) = s.end /\ NameOf(b, s.off) = ToLower(Join(s.labels))
      /\ s.hops <= MaxPointerHops => GoodName(b, s.off)
  BY <1>2, <1>3, <1>5, SpelledReads
<1>7. n <= MaxPointerHops => h <= MaxPointerHops
  BY <1>1, WireAssumption
<1>8. GoodName(b, p)
  BY <1>3, <1>6, <1>7
<1>9. NameEnd(b, p) = e /\ NameOf(b, p) = ToLower(name)
  BY <1>3, <1>4, <1>6, <1>8
<1> QED
  BY <1>8, <1>9, NameType

LEMMA QuestionFound ==
    ASSUME NEW b \in Octets, NEW p \in Nat, NEW q, NEW qu \in DnsQuestion, NEW n \in Nat,
           QuestionLaid(b, p, q, qu, n), QuestionEnd(b, p) <= Len(b) \/ n <= MaxPointerHops
    PROVE  /\ QuestionEnd(b, p) = q /\ q \in Nat /\ q <= Len(b)
           /\ QuestionAt(b, p) = LowerQuestion(qu)
<1>1. PICK e \in Nat :
      /\ NamedAt(b, p, e, SplitLabels(qu.name), n)
      /\ Holds(b, e, QuestionTail(qu)) /\ q = e + 4
  BY DEF QuestionLaid
<1> DEFINE len == Len(b)
           x == U16(qu.type)
           y == U16(qu.class)
<1>2. len \in Nat /\ NameEnd(b, p) \in Nat /\ QuestionEnd(b, p) = NameEnd(b, p) + 4
  BY OctetsLen, NameType DEF QuestionEnd
<1>3. QuestionEnd(b, p) <= len => NameEnd(b, p) <= len
  <2> HIDE DEF len
  <2> QED
    BY <1>2
<1>4. GoodName(b, p) \/ n <= MaxPointerHops
  BY <1>3, NameType
<1>5. /\ qu.name \in Octets /\ qu.type \in Word16 /\ qu.class \in Word16
      /\ x \in Octets /\ y \in Octets /\ Len(x) = 2
  BY QuestionTailOctets
<1>6. NameEnd(b, p) = e /\ NameOf(b, p) = ToLower(qu.name)
  BY <1>1, <1>4, <1>5, NameFound
<1>7. Holds(b, e, x \o y)
  BY <1>1 DEF QuestionTail
<1> HIDE DEF x, y
<1>8. Holds(b, e, x) /\ Holds(b, e + 2, y)
  BY <1>5, <1>7, HoldsJoin
<1>9. WordAt(b, e) = qu.type /\ WordAt(b, e + 2) = qu.class /\ e + 4 <= len
  <2>1. e + 2 \in Nat /\ (e + 2) + 2 = e + 4
    BY <1>1
  <2>2. WordAt(b, e) = qu.type
    BY <1>5, <1>8, HoldsWord DEF x
  <2>3. WordAt(b, e + 2) = qu.class /\ (e + 2) + 2 <= Len(b)
    BY <1>5, <1>8, <2>1, HoldsWord DEF y
  <2> QED
    BY <2>1, <2>2, <2>3
<1>10. QuestionAt(b, p) = LowerQuestion(qu)
  BY <1>6, <1>9 DEF QuestionAt, LowerQuestion
<1> QED
  BY <1>1, <1>2, <1>6, <1>9, <1>10

(***************************************************************************)
(* The strings of TXT data.                                                *)
(***************************************************************************)
Torn(pos, ss) == [pos |-> pos, ok |-> TRUE, strings |-> ss]

TornSet(pos, ss) == [pos : {pos}, ok : {TRUE}, strings : {ss}]

LEMMA TornIs ==
    ASSUME NEW t, NEW p, NEW ss, t \in TornSet(p, ss)
    PROVE  t = Torn(p, ss)
BY DEF TornSet, Torn

LEMMA TornFields ==
    ASSUME NEW p, NEW ss
    PROVE  /\ Torn(p, ss).pos = p /\ Torn(p, ss).ok /\ Torn(p, ss).strings = ss
           /\ Torn(p, ss) \in TornSet(p, ss)
BY DEF TornSet, Torn

LEMMA TextPiece ==
    ASSUME NEW l \in Text
    PROVE  /\ l \in Octets /\ << Len(l) >> \in Octets
           /\ Piece(l) \in Octets /\ Len(Piece(l)) = 1 + Len(l) /\ Len(l) \in Nat
<1> DEFINE n == Len(l)
           x == << n >>
           t == x \o l
<1>1. l \in Octets /\ n \in 0..255
  BY DEF Text
<1> HIDE DEF n
<1>2. n \in Byte
  BY <1>1 DEF Byte
<1>3. x \in Octets /\ Len(x) = 1
  BY <1>2, OneElement DEF Octets
<1> HIDE DEF x, t
<1>4. Joined(x, l, t)
  BY <1>1, <1>3, JoinedOctets DEF t
<1>5. t \in Octets /\ Len(t) = 1 + n
  BY <1>3, <1>4 DEF Joined, n
<1>6. n \in Nat
  BY <1>1
<1> QED
  BY <1>1, <1>3, <1>5, <1>6 DEF Piece, n, x, t

\* One string more.
LEMMA TearTakes ==
    ASSUME NEW b \in Octets, NEW p \in Nat, NEW l \in Text, Holds(b, p, Piece(l)), NEW ss
    PROVE  TearOne(b, Torn(p, ss)) = Torn(p + 1 + Len(l), Append(ss, l))
<1> DEFINE n == Len(l)
           x == << n >>
           len == Len(b)
           t == Torn(p, ss)
           k == b[p + 1]
           part == SubSeq(b, p + 2, p + 1 + n)
           r == TearOne(b, t)
<1>1. l \in Octets /\ x \in Octets /\ n \in Nat /\ len \in Nat
  BY TextPiece, OctetsLen
<1>2. Holds(b, p, x \o l)
  BY DEF Piece
<1>3. x[1] = n /\ Len(x) = 1
  OBVIOUS
<1> HIDE DEF x
<1>4. Holds(b, p, x) /\ Holds(b, p + 1, l)
  BY <1>1, <1>2, <1>3, HoldsJoin
<1>5. k = n
  <2>1. 1 \in 1..Len(x)
    BY <1>3
  <2> QED
    BY <1>3, <1>4, <2>1 DEF Holds
<1>6. part = l
  <2> DEFINE o == p + 1
  <2>1. o \in Nat /\ Holds(b, o, l)
    BY <1>4
  <2> HIDE DEF o
  <2>2. SubSeq(b, o + 1, o + Len(l)) = l
    BY <1>1, <2>1, HoldsPart
  <2>3. o + 1 = p + 2 /\ o + n = p + 1 + n
    BY <1>1 DEF o
  <2> QED
    BY <2>2, <2>3
<1>7. p + 1 + n <= len
  BY <1>4 DEF Holds
<1>8. t.pos = p /\ t.ok /\ t.strings = ss /\ t \in TornSet(p, ss)
  BY TornFields
<1> DEFINE end == p + 1 + k
<1>9. r = IF ~ t.ok \/ t.pos = Len(b) THEN t
          ELSE IF t.pos + 1 + b[t.pos + 1] > Len(b) THEN [t EXCEPT !.ok = FALSE]
          ELSE [t EXCEPT !.pos = @ + 1 + b[t.pos + 1],
                  !.strings = Append(@, SubSeq(b, t.pos + 2, t.pos + 1 + b[t.pos + 1]))]
  BY DEF TearOne
<1>10. r = IF p = len THEN t
           ELSE IF p + 1 + n > len THEN [t EXCEPT !.ok = FALSE]
           ELSE [t EXCEPT !.pos = p + 1 + n, !.strings = Append(ss, l)]
  <2>1. r = IF p = len THEN t
            ELSE IF p + 1 + k > len THEN [t EXCEPT !.ok = FALSE]
            ELSE [t EXCEPT !.pos = p + 1 + k, !.strings = Append(ss, SubSeq(b, p + 2, p + 1 + k))]
    <3> HIDE DEF r, t, k
    <3> QED
      BY <1>8, <1>9 DEF k
  <2> HIDE DEF k, r, t
  <2> QED
    BY <1>5, <1>6, <2>1
<1> HIDE DEF r, n, len
<1>11. p # len /\ ~ (p + 1 + n > len)
  BY <1>1, <1>7
<1> HIDE DEF t
<1> DEFINE e == p + 1 + n
           us == Append(ss, l)
<1>12. r = [t EXCEPT !.pos = e, !.strings = us]
  BY <1>10, <1>11
<1> HIDE DEF e, us
<1>13. r \in TornSet(e, us)
  BY <1>8, <1>12 DEF TornSet
<1>14. r = Torn(e, us)
  BY <1>13, TornIs
<1> QED
  BY <1>14 DEF r, t, e, us, n

LEMMA TearStays ==
    ASSUME NEW b, NEW ss
    PROVE  TearOne(b, Torn(Len(b), ss)) = Torn(Len(b), ss)
BY TornFields DEF TearOne

LEMMA TextPieces ==
    ASSUME NEW ss \in Seq(Text)
    PROVE  /\ Pieces(ss) \in Seq(Octets) /\ Len(Pieces(ss)) = Len(ss)
           /\ \A i \in 1..Len(ss) : Pieces(ss)[i] = Piece(ss[i])
<1> DEFINE n == Len(ss)
           f == [i \in 1..n |-> Piece(ss[i])]
<1>1. n \in Nat /\ DOMAIN ss = 1..n
  BY LenProperties
<1>2. \A i \in 1..n : Piece(ss[i]) \in Octets
  BY ElementOfSeq, TextPiece
<1>3. f \in [1..n -> Octets]
  BY <1>2
<1>4. Pieces(ss) = f
  BY <1>1 DEF Pieces
<1>5. \A i \in 1..n : f[i] = Piece(ss[i])
  OBVIOUS
<1> HIDE DEF f
<1>6. f \in Seq(Octets) /\ Len(f) = n
  BY <1>1, <1>3, FunctionSeq
<1> QED
  BY <1>4, <1>5, <1>6

LEMMA TextsOctets ==
    ASSUME NEW ss \in Seq(Text)
    PROVE  Strings(ss) = FlattenSeq(Pieces(ss)) /\ Strings(ss) \in Octets
<1>1. ss \in Seq(Octets) /\ \A i \in DOMAIN ss : Len(ss[i]) <= 255
  BY TextsAre
<1> QED
  BY <1>1, StringsOctets

LEMMA StringsMore ==
    ASSUME NEW ss \in Seq(Text), NEW l \in Text
    PROVE  /\ Append(ss, l) \in Seq(Text) /\ Len(Append(ss, l)) = Len(ss) + 1
           /\ Strings(Append(ss, l)) = Strings(ss) \o Piece(l)
<1> DEFINE tt == Append(ss, l)
           n == Len(ss)
           f == Pieces(ss)
           g == Pieces(tt)
           h == Append(f, Piece(l))
<1>1. /\ tt \in Seq(Text) /\ Len(tt) = n + 1 /\ tt[n + 1] = l /\ n \in Nat
      /\ \A i \in 1..n : tt[i] = ss[i]
  BY AppendProperties, LenProperties
<1>2. f \in Seq(Octets) /\ Len(f) = n /\ \A i \in 1..n : f[i] = Piece(ss[i])
  BY TextPieces
<1> HIDE DEF tt, n, f
<1>3. g \in Seq(Octets) /\ Len(g) = n + 1 /\ \A i \in 1..(n + 1) : g[i] = Piece(tt[i])
  BY <1>1, TextPieces
<1>4. Piece(l) \in Octets
  BY TextPiece
<1>5. /\ h \in Seq(Octets) /\ Len(h) = n + 1 /\ h[n + 1] = Piece(l)
      /\ \A i \in 1..n : h[i] = f[i]
  BY <1>1, <1>2, <1>4, AppendProperties
<1> HIDE DEF g, h
<1>6. ASSUME NEW i \in 1..(n + 1) PROVE g[i] = h[i]
  <2>1. CASE i = n + 1
    BY <1>1, <1>3, <1>5, <2>1
  <2>2. CASE i # n + 1
    <3>1. i \in 1..n
      BY <1>1, <2>2
    <3> QED
      BY <1>1, <1>2, <1>3, <1>5, <3>1
  <2> QED
    BY <2>1, <2>2
<1>7. g = h
  BY <1>3, <1>5, <1>6, SeqEqual
<1>8. FlattenSeq(h) = FlattenSeq(f) \o Piece(l)
  BY <1>2, <1>4, FlattenAppend DEF h, Octets
<1>9. Strings(tt) = FlattenSeq(g) /\ Strings(ss) = FlattenSeq(f)
  BY <1>1, TextsOctets DEF f, g
<1> QED
  BY <1>1, <1>7, <1>8, <1>9 DEF tt, n

\* The loop of Tear.
TearRun(f, rdata, n) ==
    f = [i \in 0..n |-> IF i = 0 THEN Torn(0, << >>) ELSE TearOne(rdata, f[i - 1])]

LEMMA TearRunAt ==
    ASSUME NEW f, NEW rdata, NEW n \in Nat, TearRun(f, rdata, n), NEW i \in 0..n
    PROVE  f[i] = IF i = 0 THEN Torn(0, << >>) ELSE TearOne(rdata, f[i - 1])
BY DEF TearRun

LEMMA TearRunExists ==
    ASSUME NEW rdata, NEW n \in Nat PROVE \E f : TearRun(f, rdata, n)
<1> DEFINE G == {m \in Nat : \E f : TearRun(f, rdata, m)}
<1>1. 0 \in G
  <2> DEFINE f == [i \in 0..0 |-> Torn(0, << >>)]
  <2>1. TearRun(f, rdata, 0)
    BY DEF TearRun
  <2> QED
    BY <2>1
<1>2. ASSUME NEW m \in Nat, m \in G PROVE m + 1 \in G
  <2>1. PICK h : TearRun(h, rdata, m)
    BY <1>2
  <2> DEFINE last == TearOne(rdata, h[m])
             g == [i \in 0..(m + 1) |-> IF i = m + 1 THEN last ELSE h[i]]
  <2>2. ASSUME NEW i \in 0..(m + 1)
        PROVE  g[i] = IF i = 0 THEN Torn(0, << >>) ELSE TearOne(rdata, g[i - 1])
    <3>1. CASE i = m + 1
      <4>1. i # 0 /\ i - 1 = m /\ m \in 0..(m + 1) /\ m # m + 1
        BY <3>1
      <4>2. g[i - 1] = h[m] /\ g[i] = last
        BY <3>1, <4>1
      <4> QED
        BY <3>1, <4>1, <4>2
    <3>2. CASE i # m + 1
      <4>1. i \in 0..m
        BY <3>2
      <4>2. h[i] = IF i = 0 THEN Torn(0, << >>) ELSE TearOne(rdata, h[i - 1])
        BY <2>1, <4>1, TearRunAt
      <4>3. i # 0 => i - 1 \in 0..(m + 1) /\ i - 1 # m + 1
        BY <4>1
      <4>4. g[i] = h[i] /\ (i # 0 => g[i - 1] = h[i - 1])
        BY <3>2, <4>3
      <4> QED
        BY <4>2, <4>4
    <3> QED
      BY <3>1, <3>2
  <2>3. TearRun(g, rdata, m + 1)
    BY <2>2 DEF TearRun
  <2> QED
    BY <2>3
<1> HIDE DEF G
<1>3. \A m \in Nat : m \in G
  BY <1>1, <1>2, Induction
<1> QED
  BY <1>3 DEF G

LEMMA TearRunIs ==
    ASSUME NEW rdata, Len(rdata) \in Nat
    PROVE  \E f : TearRun(f, rdata, Len(rdata)) /\ Tear(rdata) = f[Len(rdata)]
<1> DEFINE n == Len(rdata)
           g == CHOOSE h : h = [i \in 0..n |-> IF i = 0 THEN [pos |-> 0, ok |-> TRUE, strings |-> << >>]
                                  ELSE TearOne(rdata, h[i - 1])]
<1>1. PICK h : TearRun(h, rdata, n)
  BY TearRunExists
<1>2. TearRun(g, rdata, n)
  BY <1>1 DEF TearRun, Torn
<1>3. Tear(rdata) = g[n]
  BY DEF Tear
<1> QED
  BY <1>2, <1>3

\* After as many iterations as there are strings the loop has them.
LEMMA TearRuns ==
    ASSUME NEW b \in Octets, NEW n \in Nat, NEW f, TearRun(f, b, n)
    PROVE  \A ss \in Seq(Text), y \in Octets :
             b = Strings(ss) \o y /\ Len(ss) <= n => f[Len(ss)] = Torn(Len(Strings(ss)), ss)
<1> DEFINE Good(ss, y) == b = Strings(ss) \o y => f[Len(ss)] = Torn(Len(Strings(ss)), ss)
           G == {k \in Nat : k <= n => \A ss \in Seq(Text), y \in Octets : Len(ss) = k => Good(ss, y)}
<1>1. 0 \in G
  <2> SUFFICES ASSUME NEW ss \in Seq(Text), Len(ss) = 0 PROVE f[Len(ss)] = Torn(Len(Strings(ss)), ss)
    OBVIOUS
  <2> DEFINE z == 0
  <2>1. z \in 0..n /\ z = 0
    OBVIOUS
  <2>2. ss = << >>
    BY EmptySeq
  <2>3. f[z] = Torn(0, << >>)
    BY <2>1, TearRunAt
  <2>4. Strings(<< >>) = << >>
    <3>1. Pieces(<< >>) = << >>
      BY DEF Pieces
    <3>2. << >> \in Seq(Text)
      BY EmptySeq
    <3> QED
      BY <3>1, <3>2, TextsOctets, FlattenEmpty
  <2>5. Len(Strings(ss)) = 0
    BY <2>2, <2>4
  <2> QED
    BY <2>2, <2>3, <2>5
<1>2. ASSUME NEW k \in Nat, k \in G PROVE k + 1 \in G
  <2> SUFFICES ASSUME k + 1 <= n, NEW tt \in Seq(Text), NEW y \in Octets, Len(tt) = k + 1,
                      b = Strings(tt) \o y
               PROVE  f[Len(tt)] = Torn(Len(Strings(tt)), tt)
    OBVIOUS
  <2>1. tt # << >>
    BY EmptySeq
  <2>2. PICK ss \in Seq(Text), l \in Text : tt = Append(ss, l)
    BY <2>1, SequenceEmptyOrAppend
  <2>3. Len(ss) = k /\ Strings(tt) = Strings(ss) \o Piece(l)
    <3>1. Len(tt) = Len(ss) + 1 /\ Len(ss) \in Nat
      BY <2>2, StringsMore, LenProperties
    <3> QED
      BY <2>2, <3>1, StringsMore
  <2> DEFINE s == Strings(ss)
             p == Len(s)
             x == Piece(l)
  <2>4. s \in Octets /\ x \in Octets /\ Len(x) = 1 + Len(l) /\ Len(l) \in Nat
    BY TextPiece, TextsOctets
  <2>5. b = (s \o x) \o y
    BY <2>3
  <2> HIDE DEF s, x
  <2>6. (s \o x) \o y = s \o (x \o y)
    <3>1. Grouped(s, x, y)
      BY <2>4, Groups
    <3> QED
      BY <3>1 DEF Grouped
  <2>7. b = s \o (x \o y) /\ x \o y \in Octets
    BY <2>4, <2>5, <2>6, JoinOctets
  <2>8. Holds(b, p, x) /\ p \in Nat
    BY <2>4, <2>7, HoldsMiddle, OctetsLen
  <2>9. f[k] = Torn(p, ss)
    <3>1. k <= n /\ Len(ss) = k
      BY <2>3
    <3>2. Good(ss, x \o y)
      <4> DEFINE u == x \o y
      <4>1. u \in Octets
        BY <2>7
      <4> HIDE DEF u, Good
      <4>2. Good(ss, u)
        BY <1>2, <3>1, <4>1 DEF G
      <4> QED
        BY <4>2 DEF u
    <3> QED
      BY <2>3, <2>7, <3>2 DEF s
  <2> DEFINE j == k + 1
  <2>10. j \in 0..n /\ j # 0 /\ j - 1 = k /\ Len(tt) = j
    OBVIOUS
  <2> HIDE DEF j
  <2>11. f[j] = TearOne(b, f[k])
    BY <2>10, TearRunAt
  <2>12. Holds(b, p, Piece(l))
    BY <2>8 DEF x
  <2> HIDE DEF p
  <2>13. TearOne(b, Torn(p, ss)) = Torn(p + 1 + Len(l), Append(ss, l))
    BY <2>8, <2>12, TearTakes
  <2>14. Len(Strings(tt)) = p + 1 + Len(l)
    <3>1. Joined(s, x, s \o x)
      BY <2>4, JoinedOctets
    <3>2. Len(s \o x) = Len(s) + Len(x)
      BY <3>1 DEF Joined
    <3>3. Len(s \o x) = p + 1 + Len(l)
      BY <2>4, <2>8, <3>2 DEF p
    <3> QED
      BY <2>3, <3>3 DEF s, x
  <2> QED
    BY <2>2, <2>9, <2>10, <2>11, <2>13, <2>14
<1> HIDE DEF G
<1>3. \A k \in Nat : k \in G
  BY <1>1, <1>2, Induction
<1> SUFFICES ASSUME NEW ss \in Seq(Text), NEW y \in Octets, Len(ss) <= n PROVE Good(ss, y)
  OBVIOUS
<1>4. Len(ss) \in Nat
  BY LenProperties
<1> DEFINE k == Len(ss)
<1>5. k \in G /\ k <= n
  BY <1>3, <1>4
<1> QED
  BY <1>5 DEF G

\* Every string takes an octet or more.
LEMMA StringsLen ==
    ASSUME NEW ss \in Seq(Text) PROVE Len(ss) <= Len(Strings(ss))
<1> DEFINE G == {k \in Nat : \A tt \in Seq(Text) : Len(tt) = k => k <= Len(Strings(tt))}
<1>1. 0 \in G
  <2>1. ASSUME NEW tt \in Seq(Text) PROVE 0 <= Len(Strings(tt))
    <3>1. Len(Strings(tt)) \in Nat
      BY TextsOctets, OctetsLen
    <3> QED
      BY <3>1
  <2> QED
    BY <2>1
<1>2. ASSUME NEW k \in Nat, k \in G PROVE k + 1 \in G
  <2> SUFFICES ASSUME NEW tt \in Seq(Text), Len(tt) = k + 1 PROVE k + 1 <= Len(Strings(tt))
    OBVIOUS
  <2>1. tt # << >>
    BY EmptySeq
  <2>2. PICK vv \in Seq(Text), l \in Text : tt = Append(vv, l)
    BY <2>1, SequenceEmptyOrAppend
  <2> DEFINE s == Strings(vv)
             x == Piece(l)
  <2>3. Len(vv) = k /\ Strings(tt) = s \o x
    <3>1. Len(tt) = Len(vv) + 1 /\ Len(vv) \in Nat
      BY <2>2, StringsMore, LenProperties
    <3> QED
      BY <2>2, <3>1, StringsMore
  <2>4. s \in Octets /\ x \in Octets /\ Len(x) = 1 + Len(l) /\ Len(l) \in Nat
    BY TextPiece, TextsOctets
  <2>5. k <= Len(s)
    BY <1>2, <2>3
  <2> HIDE DEF s, x
  <2>6. Joined(s, x, s \o x)
    BY <2>4, JoinedOctets
  <2>7. Len(s \o x) = Len(s) + Len(x) /\ Len(s) \in Nat
    BY <2>6 DEF Joined
  <2>8. k + 1 <= Len(s \o x)
    BY <2>4, <2>5, <2>7
  <2> QED
    BY <2>3, <2>8
<1> HIDE DEF G
<1>3. \A k \in Nat : k \in G
  BY <1>1, <1>2, Induction
<1> QED
  BY <1>3, LenProperties DEF G

LEMMA TearOf ==
    ASSUME NEW ss \in Seq(Text)
    PROVE  /\ Tear(Strings(ss)).ok /\ Tear(Strings(ss)).strings = ss
           /\ ss # << >> => Strings(ss) # << >>
<1> DEFINE b == Strings(ss)
           n == Len(b)
           m == Len(ss)
           t == Torn(n, ss)
           z == << >>
<1>1. b \in Octets /\ n \in Nat /\ m \in Nat /\ m <= n
  BY TextsOctets, OctetsLen, LenProperties, StringsLen
<1>2. PICK f : TearRun(f, b, n) /\ Tear(b) = f[n]
  BY <1>1, TearRunIs
<1>3. b = b \o z /\ z \in Octets
  <2>1. b \in Seq(Byte)
    BY <1>1 DEF Octets
  <2> HIDE DEF b
  <2> QED
    BY <2>1 DEF Octets
<1>4. f[m] = t
  <2>1. TearRun(f, b, n) /\ b = Strings(ss) \o z
    BY <1>2, <1>3
  <2> HIDE DEF z
  <2> QED
    BY <1>1, <1>3, <2>1, TearRuns
<1> DEFINE G == {k \in Nat : m <= k /\ k <= n => f[k] = t}
<1>5. \A k \in Nat : k \in G
  <2>1. 0 \in G
    BY <1>1, <1>4
  <2>2. ASSUME NEW k \in Nat, k \in G PROVE k + 1 \in G
    <3> SUFFICES ASSUME m <= k + 1, k + 1 <= n PROVE f[k + 1] = t
      OBVIOUS
    <3>1. CASE m = k + 1
      BY <1>4, <3>1
    <3>2. CASE m # k + 1
      <4> DEFINE j == k + 1
      <4>1. m <= k /\ k <= n /\ j \in 0..n /\ j # 0 /\ j - 1 = k
        BY <1>1, <3>2
      <4>2. f[k] = t
        BY <2>2, <4>1
      <4> HIDE DEF j
      <4>3. f[j] = TearOne(b, f[k])
        BY <1>1, <1>2, <4>1, TearRunAt
      <4>4. TearOne(b, t) = t
        BY TearStays
      <4> QED
        BY <4>2, <4>3, <4>4 DEF j
    <3> QED
      BY <3>1, <3>2
  <2> HIDE DEF G
  <2> QED
    BY <2>1, <2>2, Induction
<1>6. Tear(b) = t
  BY <1>1, <1>2, <1>5
<1>7. ss # << >> => b # << >>
  <2>1. ss # << >> => m # 0
    BY EmptySeq
  <2>2. b = << >> => n = 0
    OBVIOUS
  <2> QED
    BY <1>1, <2>1, <2>2
<1> QED
  BY <1>6, <1>7, TornFields

(***************************************************************************)
(* The data of a record, kind by kind.                                     *)
(***************************************************************************)
Addressed(k, a) == [kind |-> k, addr |-> a]
Hosted(k, h)    == [kind |-> k, host |-> h]
Texted(ss)      == [kind |-> "TXT", strings |-> ss]
Zoned(m, r, v)  == [kind |-> "SOA", mname |-> m, rname |-> r, vals |-> v]
RawData(x)        == [kind |-> "raw", data |-> x]

LEMMA DataParts ==
    ASSUME NEW d \in DnsData
    PROVE  /\ d.kind \in {"A", "AAAA"} => d = Addressed(d.kind, d.addr)
           /\ d.kind = "TXT" => d = Texted(d.strings)
           /\ d.kind = "raw" => d = RawData(d.data)
BY DEF DnsData, Addressed, Texted, RawData

LEMMA KindIs ==
    ASSUME NEW type
    PROVE  /\ KindOf(type) = "A" => type = TypeA
           /\ KindOf(type) = "NS" => type = TypeNS
           /\ KindOf(type) = "CNAME" => type = TypeCNAME
           /\ KindOf(type) = "SOA" => type = TypeSOA
           /\ KindOf(type) = "TXT" => type = TypeTXT
           /\ KindOf(type) = "AAAA" => type = TypeAAAA
           /\ KindOf(type) = "raw" =>
                type \notin {TypeA, TypeNS, TypeCNAME, TypeSOA, TypeTXT, TypeAAAA}
BY DEF KindOf

LEMMA ShortIs ==
    ASSUME NEW type, NEW x, NEW b, NEW p, KindOf(type) = "A"
    PROVE  /\ GoodData(type, x, b, p) <=> Len(x) = 4
           /\ DataAt(type, x, b, p) = Addressed("A", x)
<1>1. TypeA = 1 /\ TypeNS = 2 /\ TypeCNAME = 5 /\ TypeSOA = 6 /\ TypeTXT = 16 /\ TypeAAAA = 28
  BY DEF TypeA, TypeNS, TypeCNAME, TypeSOA, TypeTXT, TypeAAAA
<1>2. type = TypeA
  BY KindIs
<1> QED
  BY <1>1, <1>2 DEF GoodData, DataAt, Addressed

LEMMA LongIs ==
    ASSUME NEW type, NEW x, NEW b, NEW p, KindOf(type) = "AAAA"
    PROVE  /\ GoodData(type, x, b, p) <=> Len(x) = 16
           /\ DataAt(type, x, b, p) = Addressed("AAAA", x)
<1>1. TypeA = 1 /\ TypeNS = 2 /\ TypeCNAME = 5 /\ TypeSOA = 6 /\ TypeTXT = 16 /\ TypeAAAA = 28
  BY DEF TypeA, TypeNS, TypeCNAME, TypeSOA, TypeTXT, TypeAAAA
<1>2. type = TypeAAAA
  BY KindIs
<1> QED
  BY <1>1, <1>2 DEF GoodData, DataAt, Addressed

LEMMA TextIs ==
    ASSUME NEW type, NEW x, NEW b, NEW p, KindOf(type) = "TXT"
    PROVE  /\ GoodData(type, x, b, p) <=> x # << >> /\ Tear(x).ok
           /\ DataAt(type, x, b, p) = Texted(Tear(x).strings)
<1>1. TypeA = 1 /\ TypeNS = 2 /\ TypeCNAME = 5 /\ TypeSOA = 6 /\ TypeTXT = 16 /\ TypeAAAA = 28
  BY DEF TypeA, TypeNS, TypeCNAME, TypeSOA, TypeTXT, TypeAAAA
<1>2. type = TypeTXT
  BY KindIs
<1> QED
  BY <1>1, <1>2 DEF GoodData, DataAt, Texted

LEMMA ServerIs ==
    ASSUME NEW type, NEW x, NEW b, NEW p, KindOf(type) = "NS"
    PROVE  /\ GoodData(type, x, b, p) <=> GoodName(b, p)
           /\ DataAt(type, x, b, p) = Hosted("NS", NameOf(b, p))
<1>1. TypeA = 1 /\ TypeNS = 2 /\ TypeCNAME = 5 /\ TypeSOA = 6 /\ TypeTXT = 16 /\ TypeAAAA = 28
  BY DEF TypeA, TypeNS, TypeCNAME, TypeSOA, TypeTXT, TypeAAAA
<1>2. type = TypeNS
  BY KindIs
<1> QED
  BY <1>1, <1>2 DEF GoodData, DataAt, Hosted

LEMMA AliasIs ==
    ASSUME NEW type, NEW x, NEW b, NEW p, KindOf(type) = "CNAME"
    PROVE  /\ GoodData(type, x, b, p) <=> GoodName(b, p)
           /\ DataAt(type, x, b, p) = Hosted("CNAME", NameOf(b, p))
<1>1. TypeA = 1 /\ TypeNS = 2 /\ TypeCNAME = 5 /\ TypeSOA = 6 /\ TypeTXT = 16 /\ TypeAAAA = 28
  BY DEF TypeA, TypeNS, TypeCNAME, TypeSOA, TypeTXT, TypeAAAA
<1>2. type = TypeCNAME
  BY KindIs
<1> QED
  BY <1>1, <1>2 DEF GoodData, DataAt, Hosted

LEMMA ZoneIs ==
    ASSUME NEW type, NEW x, NEW b, NEW p, KindOf(type) = "SOA"
    PROVE  /\ GoodData(type, x, b, p) <=> SoaEnd(b, p) <= Len(b)
           /\ DataAt(type, x, b, p) = SoaAt(b, p)
<1>1. TypeA = 1 /\ TypeNS = 2 /\ TypeCNAME = 5 /\ TypeSOA = 6 /\ TypeTXT = 16 /\ TypeAAAA = 28
  BY DEF TypeA, TypeNS, TypeCNAME, TypeSOA, TypeTXT, TypeAAAA
<1>2. type = TypeSOA
  BY KindIs
<1> QED
  BY <1>1, <1>2 DEF GoodData, DataAt

LEMMA PlainIs ==
    ASSUME NEW type, NEW x, NEW b, NEW p, KindOf(type) = "raw"
    PROVE  GoodData(type, x, b, p) /\ DataAt(type, x, b, p) = RawData(x)
<1>1. type \notin {TypeA, TypeNS, TypeCNAME, TypeSOA, TypeTXT, TypeAAAA}
  BY KindIs
<1> QED
  BY <1>1 DEF GoodData, DataAt, RawData

\* The names and the numbers of SOA data are found where they lie.
LEMMA SoaFound ==
    ASSUME NEW b \in Octets, NEW p \in Nat, NEW q, NEW d \in DnsData, NEW n \in Nat,
           d.kind = "SOA", DataLaid(b, p, q, d, n), SoaEnd(b, p) <= Len(b) \/ n <= MaxPointerHops
    PROVE  /\ SoaEnd(b, p) <= Len(b) /\ SoaEnd(b, p) = q
           /\ SoaAt(b, p) = Zoned(ToLower(d.mname), ToLower(d.rname), d.vals)
<1>1. PICK e \in Nat, f \in Nat :
             /\ NamedAt(b, p, e, SplitLabels(d.mname), n)
             /\ NamedAt(b, e, f, SplitLabels(d.rname), n)
             /\ Holds(b, f, SoaOctets(d.vals)) /\ q = f + 20
  BY SoaLaid
<1> DEFINE len == Len(b)
           s == SoaSecond(b, p)
           u == SoaNumbers(b, p)
<1>2. d.mname \in Octets /\ d.rname \in Octets /\ d.vals \in [1..5 -> Word32]
  BY DataKinds
<1>3. s = NameEnd(b, p) /\ u = NameEnd(b, s) /\ s \in Nat /\ u \in Nat /\ len \in Nat
  BY NameType, OctetsLen DEF SoaSecond, SoaNumbers
<1>4. SoaEnd(b, p) = u + 20
  BY DEF SoaEnd
<1>5. SoaEnd(b, p) <= len => GoodName(b, p) /\ GoodName(b, s)
  <2> SUFFICES ASSUME SoaEnd(b, p) <= len PROVE GoodName(b, p) /\ GoodName(b, s)
    OBVIOUS
  <2>1. u <= len
    <3>1. u + 20 <= len
      BY <1>4
    <3> HIDE DEF u, len
    <3> QED
      BY <1>3, <3>1
  <2> HIDE DEF s, u
  <2>2. GoodName(b, s)
    BY <1>3, <2>1, NameType
  <2>3. s <= Len(b)
    BY <2>2 DEF GoodName
  <2> QED
    BY <1>3, <2>2, <2>3, NameType
<1> HIDE DEF s, u
<1>6. GoodName(b, p) \/ n <= MaxPointerHops
  BY <1>5
<1>7. NameEnd(b, p) = e /\ NameOf(b, p) = ToLower(d.mname)
  BY <1>1, <1>2, <1>6, NameFound
<1>8. s = e
  BY <1>3, <1>7
<1>9. GoodName(b, e) \/ n <= MaxPointerHops
  BY <1>5, <1>8
<1>10. NameEnd(b, e) = f /\ NameOf(b, e) = ToLower(d.rname)
  BY <1>1, <1>2, <1>9, NameFound
<1>11. u = f
  BY <1>3, <1>8, <1>10
<1>12. SoaVals(b, f) = d.vals /\ f + 20 <= Len(b)
  BY <1>1, <1>2, SoaOctetsAre
<1>13. SoaAt(b, p) = Zoned(NameOf(b, p), NameOf(b, s), SoaVals(b, u))
  BY DEF SoaAt, Zoned, s, u
<1> QED
  BY <1>1, <1>4, <1>7, <1>8, <1>10, <1>11, <1>12, <1>13

\* The octets from p to q.
Between(b, p, q) == SubSeq(b, p + 1, q)

LEMMA DataFound ==
    ASSUME NEW b \in Octets, NEW p \in Nat, NEW q \in Nat, NEW type, NEW d \in DnsData,
           d.kind = KindOf(type), NEW n \in Nat, DataLaid(b, p, q, d, n),
           GoodData(type, Between(b, p, q), b, p) \/ n <= MaxPointerHops
    PROVE  /\ GoodData(type, Between(b, p, q), b, p) /\ q <= Len(b)
           /\ DataAt(type, Between(b, p, q), b, p) = LowerData(d)
<1> DEFINE x == Between(b, p, q)
<1>1. x = SubSeq(b, p + 1, q)
  BY DEF Between
<1> HIDE DEF x
<1>2. GoodData(type, x, b, p) \/ n <= MaxPointerHops
  BY DEF x
<1> SUFFICES GoodData(type, x, b, p) /\ q <= Len(b) /\ DataAt(type, x, b, p) = LowerData(d)
  BY DEF x
<1>3. CASE d.kind = "A"
  <2>1. d.addr \in Octets /\ Len(d.addr) = 4 /\ Holds(b, p, d.addr) /\ q = p + 4
    BY <1>3, DataKinds DEF DataLaid
  <2>2. x = d.addr
    <3> DEFINE a == d.addr
    <3>1. a \in Octets /\ Holds(b, p, a) /\ q = p + Len(a)
      BY <2>1
    <3> HIDE DEF a
    <3>2. SubSeq(b, p + 1, p + Len(a)) = a
      BY <1>1, <3>1, HoldsPart
    <3> QED
      BY <1>1, <3>1, <3>2 DEF a
  <2>3. q <= Len(b)
    BY <2>1 DEF Holds
  <2>4. LowerData(d) = Addressed("A", d.addr)
    BY <1>3, DataParts DEF LowerData
  <2> QED
    BY <1>3, <2>1, <2>2, <2>3, <2>4, ShortIs
<1>4. CASE d.kind = "AAAA"
  <2>1. d.addr \in Octets /\ Len(d.addr) = 16 /\ Holds(b, p, d.addr) /\ q = p + 16
    BY <1>4, DataKinds DEF DataLaid
  <2>2. x = d.addr
    <3> DEFINE a == d.addr
    <3>1. a \in Octets /\ Holds(b, p, a) /\ q = p + Len(a)
      BY <2>1
    <3> HIDE DEF a
    <3>2. SubSeq(b, p + 1, p + Len(a)) = a
      BY <1>1, <3>1, HoldsPart
    <3> QED
      BY <1>1, <3>1, <3>2 DEF a
  <2>3. q <= Len(b)
    BY <2>1 DEF Holds
  <2>4. LowerData(d) = Addressed("AAAA", d.addr)
    BY <1>4, DataParts DEF LowerData
  <2> QED
    BY <1>4, <2>1, <2>2, <2>3, <2>4, LongIs
<1>5. CASE d.kind = "TXT"
  <2> DEFINE ss == d.strings
             s == Strings(ss)
  <2>1. ss # << >> /\ ss \in Seq(Text) /\ Holds(b, p, s) /\ q = p + Len(s)
    BY <1>5 DEF DataLaid
  <2>2. s \in Octets
    BY <2>1, TextsOctets
  <2>3. s # << >> /\ Tear(s).ok /\ Tear(s).strings = ss
    BY <2>1, TearOf
  <2> HIDE DEF s
  <2>4. x = s /\ q <= Len(b)
    BY <1>1, <2>1, <2>2, HoldsPart DEF Holds
  <2>5. LowerData(d) = Texted(ss)
    BY <1>5, DataParts DEF LowerData
  <2> HIDE DEF ss
  <2> QED
    BY <1>5, <2>3, <2>4, <2>5, TextIs
<1>6. CASE d.kind \in {"NS", "CNAME"}
  <2>1. NamedAt(b, p, q, SplitLabels(d.host), n) /\ d.host \in Octets
    BY <1>6, DataKinds DEF DataLaid
  <2>2. /\ GoodData(type, x, b, p) <=> GoodName(b, p)
        /\ DataAt(type, x, b, p) = Hosted(d.kind, NameOf(b, p))
    <3>1. CASE d.kind = "NS"
      BY <3>1, ServerIs
    <3>2. CASE d.kind = "CNAME"
      BY <3>2, AliasIs
    <3> QED
      BY <1>6, <3>1, <3>2
  <2>3. /\ GoodName(b, p) /\ NameEnd(b, p) = q /\ NameOf(b, p) = ToLower(d.host) /\ q <= Len(b)
    BY <1>2, <2>1, <2>2, NameFound
  <2>4. LowerData(d) = Hosted(d.kind, ToLower(d.host))
    BY <1>6 DEF LowerData, Hosted
  <2> QED
    BY <2>2, <2>3, <2>4
<1>7. CASE d.kind = "SOA"
  <2>1. /\ GoodData(type, x, b, p) <=> SoaEnd(b, p) <= Len(b)
        /\ DataAt(type, x, b, p) = SoaAt(b, p)
    BY <1>7, ZoneIs
  <2>2. /\ SoaEnd(b, p) <= Len(b) /\ SoaEnd(b, p) = q
        /\ SoaAt(b, p) = Zoned(ToLower(d.mname), ToLower(d.rname), d.vals)
    BY <1>7, <1>2, <2>1, SoaFound
  <2>3. LowerData(d) = Zoned(ToLower(d.mname), ToLower(d.rname), d.vals)
    BY <1>7 DEF LowerData, Zoned
  <2> QED
    BY <1>7, <2>1, <2>2, <2>3
<1>8. CASE d.kind = "raw"
  <2>1. d.data \in Octets /\ Holds(b, p, d.data) /\ q = p + Len(d.data)
    BY <1>8, DataKinds DEF DataLaid
  <2>2. x = d.data
    BY <1>1, <2>1, HoldsPart
  <2>3. q <= Len(b)
    BY <2>1 DEF Holds
  <2>4. LowerData(d) = RawData(d.data)
    BY <1>8, DataParts DEF LowerData
  <2> QED
    BY <1>8, <2>2, <2>3, <2>4, PlainIs
<1> QED
  BY <1>3, <1>4, <1>5, <1>6, <1>7, <1>8, DataKinds

LEMMA RecordHeadFound ==
    ASSUME NEW b \in Octets, NEW e \in Nat, NEW rr \in DnsRecord, NEW len \in Word16,
           Holds(b, e, RecordHead(rr, len))
    PROVE  /\ WordAt(b, e) = rr.type /\ WordAt(b, e + 2) = rr.class
           /\ LongAt(b, e + 4) = rr.ttl /\ WordAt(b, e + 8) = len /\ e + 10 <= Len(b)
<1> DEFINE s == U16(rr.type)
           t == U16(rr.class)
           u == U32(rr.ttl)
           v == U16(len)
<1>1. /\ s \in Octets /\ t \in Octets /\ u \in Octets /\ v \in Octets
      /\ Len(s) = 2 /\ Len(t) = 2 /\ Len(u) = 4
      /\ rr.type \in Word16 /\ rr.class \in Word16 /\ rr.ttl \in Word32
  BY WordNat, RecordHeadOctets
<1>2. Holds(b, e, Four(s, t, u, v))
  BY DEF RecordHead
<1> HIDE DEF s, t, u, v
<1>3. /\ Holds(b, e, s) /\ Holds(b, e + Len(s), t) /\ Holds(b, e + (Len(s) + Len(t)), u)
      /\ Holds(b, e + ((Len(s) + Len(t)) + Len(u)), v)
  <2>1. s \in Octets /\ t \in Octets /\ u \in Octets /\ v \in Octets
    BY <1>1
  <2> QED
    BY <1>2, <2>1, HoldsFour
<1>4. 2 + 2 = 4 /\ 4 + 4 = 8
  OBVIOUS
<1>5. Holds(b, e, s) /\ Holds(b, e + 2, t) /\ Holds(b, e + 4, u) /\ Holds(b, e + 8, v)
  BY <1>1, <1>3, <1>4
<1>6. e + 2 \in Nat /\ e + 4 \in Nat /\ e + 8 \in Nat /\ (e + 8) + 2 = e + 10
  OBVIOUS
<1>7. WordAt(b, e) = rr.type
  BY <1>1, <1>5, HoldsWord DEF s
<1>8. WordAt(b, e + 2) = rr.class
  BY <1>1, <1>5, <1>6, HoldsWord DEF t
<1>9. LongAt(b, e + 4) = rr.ttl
  BY <1>1, <1>5, <1>6, HoldsLong DEF u
<1>10. WordAt(b, e + 8) = len /\ (e + 8) + 2 <= Len(b)
  BY <1>5, <1>6, HoldsWord DEF v
<1> QED
  BY <1>6, <1>7, <1>8, <1>9, <1>10

LEMMA RecordFound ==
    ASSUME NEW b \in Octets, NEW p \in Nat, NEW q \in Nat, NEW rr \in DnsRecord, NEW n \in Nat,
           RecordLaid(b, p, q, rr, n), RREnd(b, p) <= Len(b) \/ n <= MaxPointerHops
    PROVE  /\ RREnd(b, p) = q /\ q <= Len(b) /\ RRAt(b, p) = LowerRecord(rr)
<1>1. PICK e \in Nat :
      /\ NamedAt(b, p, e, SplitLabels(rr.name), n)
      /\ e + 10 <= q /\ q - (e + 10) \in Word16
      /\ Holds(b, e, RecordHead(rr, q - (e + 10)))
      /\ DataLaid(b, e + 10, q, rr.data, n)
  BY DEF RecordLaid
<1> DEFINE size == Len(b)
           len  == q - (e + 10)
           base == e + 10
           x    == Between(b, base, q)
           d    == rr.data
<1>2. /\ rr.name \in Octets /\ d \in DnsData /\ d.kind = KindOf(rr.type)
  <2>1. 0 \in Nat
    OBVIOUS
  <2> QED
    BY <2>1, RecordHeadOctets
<1>3. size \in Nat /\ base \in Nat /\ base + len = q /\ NameEnd(b, p) \in Nat
  BY OctetsLen, NameType
<1>4. RREnd(b, p) <= size => GoodRR(b, p)
  BY RRTypes
<1>5. GoodRR(b, p) => GoodName(b, p)
  <2> SUFFICES ASSUME GoodRR(b, p) PROVE GoodName(b, p)
    OBVIOUS
  <2> DEFINE ne == NameEnd(b, p)
  <2>1. ne + 10 <= size
    BY DEF GoodRR, RRFits, Base
  <2>2. ne <= size
    <3>1. ne \in Nat
      BY <1>3
    <3> HIDE DEF ne, size
    <3> QED
      BY <1>3, <2>1, <3>1
  <2> QED
    BY <2>2, NameType
<1>6. GoodName(b, p) \/ n <= MaxPointerHops
  BY <1>4, <1>5
<1>7. NameEnd(b, p) = e /\ NameOf(b, p) = ToLower(rr.name)
  BY <1>1, <1>2, <1>6, NameFound
<1>8. /\ WordAt(b, e) = rr.type /\ WordAt(b, e + 2) = rr.class
      /\ LongAt(b, e + 4) = rr.ttl /\ WordAt(b, e + 8) = len /\ base <= size
  BY <1>1, RecordHeadFound
<1>9. DataLaid(b, base, q, d, n)
  BY <1>1
<1>10. Base(b, p) = base /\ RDLength(b, p) = len /\ RRType(b, p) = rr.type
  BY <1>7, <1>8 DEF Base, RDLength, RRType
<1> HIDE DEF len, base, size, d
<1>11. RDataAt(b, p) = x
  BY <1>3, <1>10 DEF RDataAt, Between, x
<1>12. GoodRR(b, p) <=> base <= size /\ q <= size /\ GoodData(rr.type, x, b, base)
  BY <1>3, <1>10, <1>11 DEF GoodRR, RRFits, size
<1> HIDE DEF x
<1>13. GoodData(rr.type, x, b, base) \/ n <= MaxPointerHops
  BY <1>4, <1>12 DEF size
<1>14. GoodData(rr.type, x, b, base) /\ DataAt(rr.type, x, b, base) = LowerData(d) /\ q <= Len(b)
  <2> DEFINE type == rr.type
  <2>1. /\ base \in Nat /\ d \in DnsData /\ d.kind = KindOf(type)
        /\ DataLaid(b, base, q, d, n)
        /\ GoodData(type, Between(b, base, q), b, base) \/ n <= MaxPointerHops
    BY <1>2, <1>3, <1>9, <1>13 DEF x
  <2> HIDE DEF type
  <2>2. /\ GoodData(type, Between(b, base, q), b, base) /\ q <= Len(b)
        /\ DataAt(type, Between(b, base, q), b, base) = LowerData(d)
    BY <2>1, DataFound
  <2> QED
    BY <2>2 DEF type, x
<1>15. GoodRR(b, p)
  BY <1>8, <1>12, <1>14 DEF size
<1>16. RREnd(b, p) = q
  BY <1>3, <1>10, <1>15 DEF RREnd
<1>17. RRAt(b, p) = LowerRecord(rr)
  BY <1>7, <1>8, <1>10, <1>11, <1>14 DEF RRAt, LowerRecord, d
<1> QED
  BY <1>14, <1>16, <1>17

(***************************************************************************)
(* Sections: what lies one after the other is found one after the other.   *)
(***************************************************************************)
\* What ends at f[k] is within the octets, or pointers are no deeper than n,
\* which the hop limit allows.
Readable(f, k, b, n) == f[k] <= Len(b) \/ n <= MaxPointerHops

Reaches(f, k, q) == f[k] = q /\ q \in Nat

LEMMA QuestionEndsWithin ==
    ASSUME NEW b \in Octets, NEW p \in Nat, NEW n \in Nat, NEW f, QuestionEnds(f, b, p, n),
           f[n] <= Len(b)
    PROVE  \A i \in 0..n : f[i] \in Nat /\ f[i] <= Len(b)
<1> DEFINE len == Len(b)
           G == {k \in Nat : k <= n /\ f[k] <= len => \A i \in 0..k : f[i] <= len}
<1>1. len \in Nat /\ \A i \in 0..n : f[i] \in Nat
  BY OctetsLen, QuestionEndsGrow
<1>2. 0 \in G
  <2>1. \A i \in 0..0 : i = 0
    OBVIOUS
  <2> QED
    BY <2>1
<1>3. ASSUME NEW k \in Nat, k \in G PROVE k + 1 \in G
  <2> DEFINE j == k + 1
  <2> SUFFICES ASSUME j <= n, f[j] <= len, NEW i \in 0..j PROVE f[i] <= len
    OBVIOUS
  <2>1. k <= n /\ k \in 0..n /\ j \in 0..n /\ j # 0 /\ j - 1 = k
    OBVIOUS
  <2>2. i = j \/ i \in 0..k
    OBVIOUS
  <2> HIDE DEF j
  <2>3. f[j] = QuestionEnd(b, f[k])
    BY <2>1, QuestionEndsAt
  <2> DEFINE x == f[k]
             y == f[j]
  <2>4. x \in Nat /\ y = QuestionEnd(b, x) /\ y \in Nat /\ y <= len
    BY <1>1, <2>1, <2>3
  <2> HIDE DEF x, y
  <2>5. x > Len(b) => y > Len(b)
    BY <2>4, QuestionEndType
  <2> HIDE DEF len
  <2>6. x > len => y > len
    BY <2>5 DEF len
  <2>7. x <= len
    BY <1>1, <2>4, <2>6
  <2>8. \A h \in 0..k : f[h] <= len
    BY <1>3, <2>1, <2>7 DEF x
  <2> QED
    BY <2>2, <2>4, <2>8 DEF y
<1> HIDE DEF G
<1>4. \A k \in Nat : k \in G
  BY <1>2, <1>3, Induction
<1>5. \A i \in 0..n : f[i] <= len
  BY <1>4 DEF G
<1> QED
  BY <1>1, <1>5

LEMMA QuestionsLaidFound ==
    ASSUME NEW b \in Octets, NEW p \in Nat, NEW q, NEW items \in Seq(DnsQuestion), NEW n \in Nat,
           QuestionsLaid(b, p, q, items, n), NEW f,
           QuestionEnds(f, b, p, Len(items)), Readable(f, Len(items), b, n)
    PROVE  Reaches(f, Len(items), q) /\ Questions(b, f, Len(items)) = LowerQuestions(items)
<1> DEFINE m == Len(items)
           len == Len(b)
<1>1. PICK at \in [0..m -> Nat] :
        /\ at[0] = p /\ at[m] = q
        /\ \A i \in 1..m : QuestionLaid(b, at[i - 1], at[i], items[i], n)
  BY DEF QuestionsLaid
<1>2. m \in Nat /\ len \in Nat
  BY LenProperties, OctetsLen
<1>3. f[m] <= len => \A i \in 0..m : f[i] <= len
  BY <1>2, QuestionEndsWithin
<1> HIDE DEF m, len
<1>4. (\A i \in 0..m : f[i] <= len) \/ n <= MaxPointerHops
  BY <1>3 DEF m, len, Readable
<1> DEFINE G == {k \in Nat : k <= m => f[k] = at[k]}
<1>5. 0 \in G
  <2> DEFINE z == 0
  <2>1. z \in 0..m /\ z = 0
    BY <1>2
  <2>2. f[z] = p
    BY <1>2, <2>1, QuestionEndsAt DEF m
  <2> QED
    BY <1>1, <2>1, <2>2
<1>6. ASSUME NEW k \in Nat, k + 1 <= m, f[k] = at[k]
      PROVE  f[k + 1] = at[k + 1] /\ QuestionAt(b, f[k]) = LowerQuestion(items[k + 1])
  <2> DEFINE j == k + 1
             e == at[k]
             g == at[j]
             t == items[j]
  <2>1. k \in 0..m /\ j \in 0..m /\ j \in 1..m /\ j # 0 /\ j - 1 = k
    BY <1>2, <1>6
  <2>2. f[j] = QuestionEnd(b, f[k])
    BY <1>2, <2>1, QuestionEndsAt DEF m
  <2>3. e \in Nat /\ g \in Nat /\ QuestionLaid(b, e, g, t, n)
    BY <1>1, <2>1
  <2>4. t \in DnsQuestion
    BY <2>1, ElementOfSeq DEF m
  <2>5. f[j] = QuestionEnd(b, e)
    BY <1>6, <2>2
  <2>6. QuestionEnd(b, e) <= Len(b) \/ n <= MaxPointerHops
    BY <1>4, <2>1, <2>5 DEF len
  <2> HIDE DEF j, e, g, t
  <2>7. QuestionEnd(b, e) = g /\ QuestionAt(b, e) = LowerQuestion(t)
    BY <2>3, <2>4, <2>6, QuestionFound
  <2> QED
    BY <1>6, <2>5, <2>7 DEF j, e, g, t
<1>7. ASSUME NEW k \in Nat, k \in G PROVE k + 1 \in G
  BY <1>2, <1>6, <1>7
<1> HIDE DEF G
<1>8. \A k \in Nat : k \in G
  BY <1>5, <1>7, Induction
<1>9. \A k \in Nat : k <= m => f[k] = at[k]
  BY <1>8 DEF G
<1>10. ASSUME NEW i \in 1..m PROVE QuestionAt(b, f[i - 1]) = LowerQuestion(items[i])
  <2> DEFINE k == i - 1
  <2>1. k \in Nat /\ k + 1 <= m /\ k <= m /\ k + 1 = i
    BY <1>2
  <2> HIDE DEF k
  <2>2. QuestionAt(b, f[k]) = LowerQuestion(items[k + 1])
    BY <1>6, <1>9, <2>1
  <2> QED
    BY <2>1, <2>2 DEF k
<1>11. Questions(b, f, m) = LowerQuestions(items)
  BY <1>10 DEF Questions, LowerQuestions, m
<1>12. f[m] = q /\ q \in Nat
  <2>1. m \in 0..m
    BY <1>2
  <2> QED
    BY <1>1, <1>2, <1>9, <2>1
<1> QED
  BY <1>11, <1>12 DEF m, Reaches

LEMMA RREndsWithin ==
    ASSUME NEW b \in Octets, NEW p \in Nat, NEW n \in Nat, NEW f, RREnds(f, b, p, n),
           f[n] <= Len(b)
    PROVE  \A i \in 0..n : f[i] \in Nat /\ f[i] <= Len(b)
<1> DEFINE len == Len(b)
           G == {k \in Nat : k <= n /\ f[k] <= len => \A i \in 0..k : f[i] <= len}
<1>1. len \in Nat /\ \A i \in 0..n : f[i] \in Nat
  BY OctetsLen, RREndsGrow
<1>2. 0 \in G
  <2>1. \A i \in 0..0 : i = 0
    OBVIOUS
  <2> QED
    BY <2>1
<1>3. ASSUME NEW k \in Nat, k \in G PROVE k + 1 \in G
  <2> DEFINE j == k + 1
  <2> SUFFICES ASSUME j <= n, f[j] <= len, NEW i \in 0..j PROVE f[i] <= len
    OBVIOUS
  <2>1. k <= n /\ k \in 0..n /\ j \in 0..n /\ j # 0 /\ j - 1 = k
    OBVIOUS
  <2>2. i = j \/ i \in 0..k
    OBVIOUS
  <2> HIDE DEF j
  <2>3. f[j] = RREnd(b, f[k])
    BY <2>1, RREndsAt
  <2> DEFINE x == f[k]
             y == f[j]
  <2>4. x \in Nat /\ y = RREnd(b, x) /\ y \in Nat /\ y <= len
    BY <1>1, <2>1, <2>3
  <2> HIDE DEF x, y
  <2>5. x > Len(b) => y > Len(b)
    BY <2>4, RREndType
  <2> HIDE DEF len
  <2>6. x > len => y > len
    BY <2>5 DEF len
  <2>7. x <= len
    BY <1>1, <2>4, <2>6
  <2>8. \A h \in 0..k : f[h] <= len
    BY <1>3, <2>1, <2>7 DEF x
  <2> QED
    BY <2>2, <2>4, <2>8 DEF y
<1> HIDE DEF G
<1>4. \A k \in Nat : k \in G
  BY <1>2, <1>3, Induction
<1>5. \A i \in 0..n : f[i] <= len
  BY <1>4 DEF G
<1> QED
  BY <1>1, <1>5

LEMMA RecordsLaidFound ==
    ASSUME NEW b \in Octets, NEW p \in Nat, NEW q, NEW items \in Seq(DnsRecord), NEW n \in Nat,
           RecordsLaid(b, p, q, items, n), NEW f,
           RREnds(f, b, p, Len(items)), Readable(f, Len(items), b, n)
    PROVE  Reaches(f, Len(items), q) /\ RRs(b, f, Len(items)) = LowerRecords(items)
<1> DEFINE m == Len(items)
           len == Len(b)
<1>1. PICK at \in [0..m -> Nat] :
        /\ at[0] = p /\ at[m] = q
        /\ \A i \in 1..m : RecordLaid(b, at[i - 1], at[i], items[i], n)
  BY DEF RecordsLaid
<1>2. m \in Nat /\ len \in Nat
  BY LenProperties, OctetsLen
<1>3. f[m] <= len => \A i \in 0..m : f[i] <= len
  BY <1>2, RREndsWithin
<1> HIDE DEF m, len
<1>4. (\A i \in 0..m : f[i] <= len) \/ n <= MaxPointerHops
  BY <1>3 DEF m, len, Readable
<1> DEFINE G == {k \in Nat : k <= m => f[k] = at[k]}
<1>5. 0 \in G
  <2> DEFINE z == 0
  <2>1. z \in 0..m /\ z = 0
    BY <1>2
  <2>2. f[z] = p
    BY <1>2, <2>1, RREndsAt DEF m
  <2> QED
    BY <1>1, <2>1, <2>2
<1>6. ASSUME NEW k \in Nat, k + 1 <= m, f[k] = at[k]
      PROVE  f[k + 1] = at[k + 1] /\ RRAt(b, f[k]) = LowerRecord(items[k + 1])
  <2> DEFINE j == k + 1
             e == at[k]
             g == at[j]
             t == items[j]
  <2>1. k \in 0..m /\ j \in 0..m /\ j \in 1..m /\ j # 0 /\ j - 1 = k
    BY <1>2, <1>6
  <2>2. f[j] = RREnd(b, f[k])
    BY <1>2, <2>1, RREndsAt DEF m
  <2>3. e \in Nat /\ g \in Nat /\ RecordLaid(b, e, g, t, n)
    BY <1>1, <2>1
  <2>4. t \in DnsRecord
    BY <2>1, ElementOfSeq DEF m
  <2>5. f[j] = RREnd(b, e)
    BY <1>6, <2>2
  <2>6. RREnd(b, e) <= Len(b) \/ n <= MaxPointerHops
    BY <1>4, <2>1, <2>5 DEF len
  <2> HIDE DEF j, e, g, t
  <2>7. RREnd(b, e) = g /\ RRAt(b, e) = LowerRecord(t)
    BY <2>3, <2>4, <2>6, RecordFound
  <2> QED
    BY <1>6, <2>5, <2>7 DEF j, e, g, t
<1>7. ASSUME NEW k \in Nat, k \in G PROVE k + 1 \in G
  BY <1>2, <1>6, <1>7
<1> HIDE DEF G
<1>8. \A k \in Nat : k \in G
  BY <1>5, <1>7, Induction
<1>9. \A k \in Nat : k <= m => f[k] = at[k]
  BY <1>8 DEF G
<1>10. ASSUME NEW i \in 1..m PROVE RRAt(b, f[i - 1]) = LowerRecord(items[i])
  <2> DEFINE k == i - 1
  <2>1. k \in Nat /\ k + 1 <= m /\ k <= m /\ k + 1 = i
    BY <1>2
  <2> HIDE DEF k
  <2>2. RRAt(b, f[k]) = LowerRecord(items[k + 1])
    BY <1>6, <1>9, <2>1
  <2> QED
    BY <2>1, <2>2 DEF k
<1>11. RRs(b, f, m) = LowerRecords(items)
  BY <1>10 DEF RRs, LowerRecords, m
<1>12. f[m] = q /\ q \in Nat
  <2>1. m \in 0..m
    BY <1>2
  <2> QED
    BY <1>1, <1>2, <1>9, <2>1
<1> QED
  BY <1>11, <1>12 DEF m, Reaches


(***************************************************************************)
(* The header.                                                             *)
(***************************************************************************)
\* Seven numbers in one word, and the parts of that word.
Seven(a, o, b, c, d, e, r) ==
    a * 32768 + o * 2048 + b * 1024 + c * 512 + d * 256 + e * 128 + r

HasParts(f, a, o, b, c, d, e, r) ==
    /\ (f \div 32768) % 2 = a /\ (f \div 2048) % 16 = o /\ (f \div 1024) % 2 = b
    /\ (f \div 512) % 2 = c /\ (f \div 256) % 2 = d /\ (f \div 128) % 2 = e /\ f % 16 = r

LEMMA WordParts ==
    ASSUME NEW a \in 0..1, NEW o \in 0..15, NEW b \in 0..1, NEW c \in 0..1, NEW d \in 0..1,
           NEW e \in 0..1, NEW r \in 0..15
    PROVE  /\ Seven(a, o, b, c, d, e, r) \in Nat /\ ~ TooLong(Seven(a, o, b, c, d, e, r))
           /\ HasParts(Seven(a, o, b, c, d, e, r), a, o, b, c, d, e, r)
<1> DEFINE f == Seven(a, o, b, c, d, e, r)
<1>1. f = a * 32768 + o * 2048 + b * 1024 + c * 512 + d * 256 + e * 128 + r
  BY DEF Seven
<1> HIDE DEF f
<1>2. f \in Nat /\ f <= 65535
  BY <1>1
<1>3. (f \div 32768) % 2 = a
  <2>1. f \div 32768 = a
    BY <1>1
  <2> QED
    BY <2>1
<1>4. (f \div 2048) % 16 = o
  <2>1. f \div 2048 = 16 * a + o
    BY <1>1
  <2> QED
    BY <2>1
<1>5. (f \div 1024) % 2 = b
  <2>1. f \div 1024 = 2 * (16 * a + o) + b
    BY <1>1
  <2> QED
    BY <2>1
<1>6. (f \div 512) % 2 = c
  <2>1. f \div 512 = 2 * (2 * (16 * a + o) + b) + c
    BY <1>1
  <2> QED
    BY <2>1
<1>7. (f \div 256) % 2 = d
  <2>1. f \div 256 = 2 * (2 * (2 * (16 * a + o) + b) + c) + d
    BY <1>1
  <2> QED
    BY <2>1
<1>8. (f \div 128) % 2 = e
  <2>1. f \div 128 = 2 * (2 * (2 * (2 * (16 * a + o) + b) + c) + d) + e
    BY <1>1
  <2> QED
    BY <2>1
<1>9. f % 16 = r
  BY <1>1
<1>10. ~ TooLong(f)
  BY <1>2 DEF TooLong
<1>11. HasParts(f, a, o, b, c, d, e, r)
  BY <1>3, <1>4, <1>5, <1>6, <1>7, <1>8, <1>9 DEF HasParts
<1> QED
  BY <1>2, <1>10, <1>11 DEF f

LEMMA BitIs ==
    ASSUME NEW x \in BOOLEAN PROVE Bit(x) \in 0..1 /\ (Bit(x) = 1) = x
BY DEF Bit

LEMMA HeaderRead ==
    ASSUME NEW h \in DnsHeader
    PROVE  Flags(h) \in Word16 /\ HeaderFromFlags(h.id, Flags(h)) = h
<1> DEFINE a == Bit(h.qr)
           b == Bit(h.aa)
           c == Bit(h.tc)
           d == Bit(h.rd)
           e == Bit(h.ra)
           o == h.opcode % 16
           r == h.rcode % 16
           f == Flags(h)
<1>1. /\ h.qr \in BOOLEAN /\ h.aa \in BOOLEAN /\ h.tc \in BOOLEAN /\ h.rd \in BOOLEAN
      /\ h.ra \in BOOLEAN /\ h.opcode \in 0..15 /\ h.rcode \in 0..15
      /\ h = [id |-> h.id, qr |-> h.qr, opcode |-> h.opcode, aa |-> h.aa, tc |-> h.tc,
              rd |-> h.rd, ra |-> h.ra, rcode |-> h.rcode]
  BY DEF DnsHeader
<1>2. o = h.opcode /\ r = h.rcode
  BY <1>1
<1>3. /\ a \in 0..1 /\ b \in 0..1 /\ c \in 0..1 /\ d \in 0..1 /\ e \in 0..1
      /\ (a = 1) = h.qr /\ (b = 1) = h.aa /\ (c = 1) = h.tc /\ (d = 1) = h.rd /\ (e = 1) = h.ra
  BY <1>1, BitIs
<1>4. f = Seven(a, o, b, c, d, e, r)
  BY DEF Flags, Seven
<1>5. o \in 0..15 /\ r \in 0..15
  BY <1>1, <1>2
<1> HIDE DEF a, b, c, d, e, o, r, f
<1>6. f \in Nat /\ ~ TooLong(f) /\ HasParts(f, a, o, b, c, d, e, r)
  <2>1. /\ a \in 0..1 /\ o \in 0..15 /\ b \in 0..1 /\ c \in 0..1 /\ d \in 0..1
        /\ e \in 0..1 /\ r \in 0..15
    BY <1>3, <1>5
  <2> QED
    BY <1>4, <2>1, WordParts
<1>7. f \in Word16
  BY <1>6, NatWord
<1>8. HeaderFromFlags(h.id, f) =
        [id |-> h.id, qr |-> (a = 1), opcode |-> o, aa |-> (b = 1), tc |-> (c = 1),
         rd |-> (d = 1), ra |-> (e = 1), rcode |-> r]
  BY <1>6 DEF HeaderFromFlags, HasParts
<1>9. HeaderFromFlags(h.id, f) = h
  BY <1>1, <1>2, <1>3, <1>8
<1> QED
  BY <1>7, <1>9 DEF f

(***************************************************************************)
(* The message.                                                            *)
(***************************************************************************)
LEMMA PartIs ==
    ASSUME NEW S, NEW s \in Seq(S), NEW t \in Seq(S), NEW from \in Nat,
           from + Len(t) <= Len(s), \A i \in 1..Len(t) : s[from + i] = t[i]
    PROVE  SubSeq(s, from + 1, from + Len(t)) = t
<1> DEFINE n == Len(t)
           l == from + 1
           k == from + n
           u == SubSeq(s, l, k)
<1>1. n \in Nat /\ l \in Nat /\ l >= 1 /\ k \in Nat /\ k <= Len(s)
  BY LenProperties
<1> HIDE DEF n, l, k, u
<1>2. /\ u \in Seq(S) /\ Len(u) = IF l <= k THEN k - l + 1 ELSE 0
      /\ \A i \in 1..(k - l + 1) : u[i] = s[l + i - 1]
  BY <1>1, PartElements DEF u
<1>3. Len(u) = n /\ k - l + 1 = n
  BY <1>1, <1>2 DEF l, k
<1>4. ASSUME NEW i \in 1..n PROVE u[i] = t[i]
  <2>1. l + i - 1 = from + i
    BY <1>1 DEF l
  <2> QED
    BY <1>2, <1>3, <2>1 DEF n
<1>5. u = t
  BY <1>2, <1>3, <1>4, SeqEqual DEF n
<1> QED
  BY <1>5 DEF u, l, k, n

\* Four sequences in a row, cut where each begins.
Quarters(s, q, a, b, c) ==
    /\ SubSeq(s, 0 + 1, 0 + Len(q)) = q
    /\ SubSeq(s, Len(q) + 1, Len(q) + Len(a)) = a
    /\ SubSeq(s, Len(q) + Len(a) + 1, Len(q) + Len(a) + Len(b)) = b
    /\ SubSeq(s, Len(q) + Len(a) + Len(b) + 1, Len(q) + Len(a) + Len(b) + Len(c)) = c

LEMMA FourParts ==
    ASSUME NEW S, NEW q \in Seq(S), NEW a \in Seq(S), NEW b \in Seq(S), NEW c \in Seq(S),
           NEW s, s = q \o ((a \o b) \o c)
    PROVE  Quarters(s, q, a, b, c)
<1> DEFINE x == a \o b
           y == x \o c
           kq == Len(q)
           ka == Len(a)
           kb == Len(b)
           kc == Len(c)
<1>1. /\ x \in Seq(S) /\ ka \in Nat /\ kb \in Nat /\ Len(x) = ka + kb
      /\ \A i \in 1..ka : x[i] = a[i]
      /\ \A i \in 1..kb : x[ka + i] = b[i]
  BY ConcatElements
<1> HIDE DEF x
<1>2. /\ y \in Seq(S) /\ kc \in Nat /\ Len(y) = Len(x) + kc
      /\ \A i \in 1..Len(x) : y[i] = x[i]
      /\ \A i \in 1..kc : y[Len(x) + i] = c[i]
  <2>1. x \in Seq(S) /\ c \in Seq(S)
    BY <1>1
  <2> QED
    BY <2>1, ConcatElements
<1> HIDE DEF y
<1>3. /\ s \in Seq(S) /\ kq \in Nat /\ Len(s) = kq + Len(y)
      /\ \A i \in 1..kq : s[i] = q[i]
      /\ \A i \in 1..Len(y) : s[kq + i] = y[i]
  <2>1. s = q \o y
    BY DEF x, y
  <2> DEFINE t == q \o y
  <2>2. q \in Seq(S) /\ y \in Seq(S)
    BY <1>2
  <2>3. /\ t \in Seq(S) /\ kq \in Nat /\ Len(t) = kq + Len(y)
        /\ \A i \in 1..kq : t[i] = q[i]
        /\ \A i \in 1..Len(y) : t[kq + i] = y[i]
    BY <2>2, ConcatElements
  <2> HIDE DEF t
  <2> QED
    BY <2>1, <2>3 DEF t
<1> HIDE DEF kq, ka, kb, kc
<1>4. SubSeq(s, 0 + 1, 0 + Len(q)) = q
  <2> DEFINE z == 0
  <2>1. z \in Nat /\ z + Len(q) <= Len(s) /\ \A i \in 1..Len(q) : s[z + i] = q[i]
    <3>1. z + kq <= Len(s) /\ \A i \in 1..kq : z + i = i
      BY <1>1, <1>2, <1>3
    <3> QED
      BY <1>3, <3>1 DEF kq
  <2> HIDE DEF z
  <2>2. SubSeq(s, z + 1, z + Len(q)) = q
    BY <1>3, <2>1, PartIs
  <2> QED
    BY <2>2 DEF z
<1>5. SubSeq(s, kq + 1, kq + Len(a)) = a
  <2>1. kq + ka <= Len(s)
    BY <1>1, <1>2, <1>3
  <2>2. ASSUME NEW i \in 1..ka PROVE s[kq + i] = a[i]
    <3>1. i \in 1..Len(x) /\ i \in 1..Len(y)
      BY <1>1, <1>2
    <3> QED
      BY <1>1, <1>2, <1>3, <3>1
  <2>3. kq + Len(a) <= Len(s) /\ \A i \in 1..Len(a) : s[kq + i] = a[i]
    BY <2>1, <2>2 DEF ka
  <2> QED
    BY <1>3, <2>3, PartIs
<1>6. SubSeq(s, kq + ka + 1, kq + ka + Len(b)) = b
  <2> DEFINE z == kq + ka
  <2>1. z \in Nat /\ z + kb <= Len(s)
    BY <1>1, <1>2, <1>3
  <2>2. ASSUME NEW i \in 1..kb PROVE s[z + i] = b[i]
    <3>1. ka + i \in 1..Len(x) /\ ka + i \in 1..Len(y) /\ z + i = kq + (ka + i)
      BY <1>1, <1>2, <1>3
    <3> QED
      BY <1>1, <1>2, <1>3, <3>1
  <2>3. z + Len(b) <= Len(s) /\ \A i \in 1..Len(b) : s[z + i] = b[i]
    BY <2>1, <2>2 DEF kb
  <2> HIDE DEF z
  <2>4. SubSeq(s, z + 1, z + Len(b)) = b
    BY <1>3, <2>1, <2>3, PartIs
  <2> QED
    BY <2>4 DEF z
<1>7. SubSeq(s, kq + ka + kb + 1, kq + ka + kb + Len(c)) = c
  <2> DEFINE z == kq + ka + kb
  <2>1. z \in Nat /\ z + kc <= Len(s)
    BY <1>1, <1>2, <1>3
  <2>2. ASSUME NEW i \in 1..kc PROVE s[z + i] = c[i]
    <3>1. Len(x) + i \in 1..Len(y) /\ z + i = kq + (Len(x) + i)
      BY <1>1, <1>2, <1>3
    <3> QED
      BY <1>1, <1>2, <1>3, <3>1
  <2>3. z + Len(c) <= Len(s) /\ \A i \in 1..Len(c) : s[z + i] = c[i]
    BY <2>1, <2>2 DEF kc
  <2> HIDE DEF z
  <2>4. SubSeq(s, z + 1, z + Len(c)) = c
    BY <1>3, <2>1, <2>3, PartIs
  <2> QED
    BY <2>4 DEF z
<1> QED
  BY <1>4, <1>5, <1>6, <1>7 DEF kq, ka, kb, kc, Quarters

LowItems == {LowerQuestion(q) : q \in DnsQuestion} \cup {LowerRecord(rr) : rr \in DnsRecord}

LEMMA LowerItems ==
    /\ \A qs \in Seq(DnsQuestion) :
         LowerQuestions(qs) \in Seq(LowItems) /\ Len(LowerQuestions(qs)) = Len(qs)
    /\ \A rs \in Seq(DnsRecord) :
         LowerRecords(rs) \in Seq(LowItems) /\ Len(LowerRecords(rs)) = Len(rs)
<1>1. ASSUME NEW qs \in Seq(DnsQuestion)
      PROVE  LowerQuestions(qs) \in Seq(LowItems) /\ Len(LowerQuestions(qs)) = Len(qs)
  <2> DEFINE n == Len(qs)
             f == LowerQuestions(qs)
  <2>1. n \in Nat
    BY LenProperties
  <2>2. \A i \in 1..n : LowerQuestion(qs[i]) \in LowItems
    BY ElementOfSeq DEF LowItems
  <2>3. f \in [1..n -> LowItems]
    BY <2>2 DEF LowerQuestions
  <2> HIDE DEF n, f
  <2>4. f \in Seq(LowItems) /\ Len(f) = n
    BY <2>1, <2>3, FunctionSeq
  <2> QED
    BY <2>4 DEF f, n
<1>2. ASSUME NEW rs \in Seq(DnsRecord)
      PROVE  LowerRecords(rs) \in Seq(LowItems) /\ Len(LowerRecords(rs)) = Len(rs)
  <2> DEFINE n == Len(rs)
             f == LowerRecords(rs)
  <2>1. n \in Nat
    BY LenProperties
  <2>2. \A i \in 1..n : LowerRecord(rs[i]) \in LowItems
    BY ElementOfSeq DEF LowItems
  <2>3. f \in [1..n -> LowItems]
    BY <2>2 DEF LowerRecords
  <2> HIDE DEF n, f
  <2>4. f \in Seq(LowItems) /\ Len(f) = n
    BY <2>1, <2>3, FunctionSeq
  <2> QED
    BY <2>4 DEF f, n
<1> QED
  BY <1>1, <1>2

\* The records of two sections in lower case are the one's and the other's.
LEMMA LowerConcat ==
    ASSUME NEW a \in Seq(DnsRecord), NEW b \in Seq(DnsRecord)
    PROVE  a \o b \in Seq(DnsRecord) /\ LowerRecords(a \o b) = LowerRecords(a) \o LowerRecords(b)
<1> DEFINE s == a \o b
           f == LowerRecords(a)
           g == LowerRecords(b)
           h == LowerRecords(s)
           u == f \o g
           m == Len(a)
           n == Len(b)
<1>1. /\ s \in Seq(DnsRecord) /\ m \in Nat /\ n \in Nat /\ Len(s) = m + n
      /\ \A i \in 1..m : s[i] = a[i]
      /\ \A i \in 1..n : s[m + i] = b[i]
  BY ConcatElements
<1> HIDE DEF s
<1>2. /\ f \in Seq(LowItems) /\ Len(f) = m /\ g \in Seq(LowItems) /\ Len(g) = n
      /\ h \in Seq(LowItems) /\ Len(h) = m + n
  BY <1>1, LowerItems
<1>3. /\ \A i \in 1..m : f[i] = LowerRecord(a[i])
      /\ \A i \in 1..n : g[i] = LowerRecord(b[i])
      /\ \A i \in 1..(m + n) : h[i] = LowerRecord(s[i])
  BY <1>1 DEF LowerRecords
<1> HIDE DEF f, g, h, m, n
<1>4. /\ u \in Seq(LowItems) /\ Len(u) = m + n
      /\ \A i \in 1..m : u[i] = f[i]
      /\ \A i \in 1..n : u[m + i] = g[i]
  <2>1. f \in Seq(LowItems) /\ g \in Seq(LowItems)
    BY <1>2
  <2>2. /\ u \in Seq(LowItems) /\ Len(u) = Len(f) + Len(g)
        /\ \A i \in 1..Len(f) : u[i] = f[i]
        /\ \A i \in 1..Len(g) : u[Len(f) + i] = g[i]
    BY <2>1, ConcatElements
  <2> HIDE DEF u
  <2> QED
    BY <1>2, <2>2
<1> HIDE DEF u
<1>5. ASSUME NEW i \in 1..(m + n) PROVE h[i] = u[i]
  <2>1. CASE i <= m
    <3>1. i \in 1..m
      BY <1>1, <2>1
    <3> QED
      BY <1>1, <1>3, <1>4, <3>1
  <2>2. CASE i > m
    <3> DEFINE k == i - m
    <3>1. k \in 1..n /\ i = m + k
      BY <1>1, <2>2
    <3> HIDE DEF k
    <3>2. h[i] = LowerRecord(b[k])
      BY <1>1, <1>3, <3>1
    <3>3. u[i] = LowerRecord(b[k])
      BY <1>3, <1>4, <3>1
    <3> QED
      BY <3>2, <3>3
  <2> QED
    BY <1>1, <2>1, <2>2
<1>6. h = u
  BY <1>2, <1>4, <1>5, SeqEqual
<1> QED
  BY <1>1, <1>6 DEF s, f, g, h, u

(***************************************************************************)
(* What Encode has made, as Decode sees it.                                *)
(***************************************************************************)
LEMMA SectionsAre ==
    ASSUME NEW m \in DnsMessage, ~ TooMany(Counts(m))
    PROVE  /\ Len(m.answers) \in Nat /\ Len(m.authority) \in Nat /\ Len(m.additional) \in Nat
           /\ m.answers \o m.authority \in Seq(DnsRecord)
           /\ Len(Sections(m)) = Len(m.answers) + Len(m.authority) + Len(m.additional)
<1>1. /\ m.answers \in Seq(DnsRecord) /\ m.authority \in Seq(DnsRecord)
      /\ m.additional \in Seq(DnsRecord)
  BY CountNat
<1> DEFINE a == m.answers
           b == m.authority
           c == m.additional
           x == a \o b
           y == x \o c
<1>2. a \in Seq(DnsRecord) /\ b \in Seq(DnsRecord) /\ c \in Seq(DnsRecord)
  BY <1>1
<1> HIDE DEF a, b, c
<1>3. x \in Seq(DnsRecord) /\ Len(a) \in Nat /\ Len(b) \in Nat /\ Len(x) = Len(a) + Len(b)
  BY <1>2, ConcatElements
<1> HIDE DEF x
<1>4. Len(c) \in Nat /\ Len(y) = Len(x) + Len(c)
  BY <1>2, <1>3, ConcatElements
<1>5. Sections(m) = y
  BY DEF Sections, y, x, a, b, c
<1> HIDE DEF y
<1>6. Len(y) = Len(a) + Len(b) + Len(c)
  BY <1>3, <1>4
<1> QED
  BY <1>3, <1>4, <1>5, <1>6 DEF a, b, c, x

LEMMA EncodedWords ==
    ASSUME NEW m \in DnsMessage, Encode(m).err = "nil", NEW b, b = Encode(m).buf
    PROVE  /\ WordAt(b, 0) = m.header.id /\ WordAt(b, 2) = Flags(m.header)
           /\ WordAt(b, 4) = Len(m.questions) /\ WordAt(b, 6) = Len(m.answers)
           /\ WordAt(b, 8) = Len(m.authority) /\ WordAt(b, 10) = Len(m.additional)
           /\ QuestionCount(b) = Len(m.questions) /\ RecordCount(b) = Len(Sections(m))
<1>1. ~ TooMany(Counts(m)) /\ b \in Octets /\ Holds(b, 0, HeaderOctets(m))
  BY EncodeLaid
<1>2. /\ Holds(b, 0, U16(m.header.id)) /\ Holds(b, 2, U16(Flags(m.header)))
      /\ Holds(b, 4, U16(Counts(m)[1])) /\ Holds(b, 6, U16(Counts(m)[2]))
      /\ Holds(b, 8, U16(Counts(m)[3])) /\ Holds(b, 10, U16(Counts(m)[4]))
  BY <1>1, HeaderIs
<1>3. m.header \in DnsHeader /\ \A i \in 1..4 : Counts(m)[i] \in Word16
  BY <1>1, CountNat
<1>4. m.header.id \in Word16 /\ Flags(m.header) \in Word16
  BY <1>3, HeaderRead DEF DnsHeader
<1>5. WordAt(b, 0) = m.header.id
  BY <1>1, <1>2, <1>4, HoldsWord
<1>6. WordAt(b, 2) = Flags(m.header)
  BY <1>1, <1>2, <1>4, HoldsWord
<1>7. WordAt(b, 4) = Counts(m)[1] /\ WordAt(b, 6) = Counts(m)[2]
  BY <1>1, <1>2, <1>3, HoldsWord
<1>8. WordAt(b, 8) = Counts(m)[3] /\ WordAt(b, 10) = Counts(m)[4]
  BY <1>1, <1>2, <1>3, HoldsWord
<1>9. /\ Counts(m)[1] = Len(m.questions) /\ Counts(m)[2] = Len(m.answers)
      /\ Counts(m)[3] = Len(m.authority) /\ Counts(m)[4] = Len(m.additional)
  BY DEF Counts
<1>10. Len(Sections(m)) = Len(m.answers) + Len(m.authority) + Len(m.additional)
  BY <1>1, SectionsAre
<1> QED
  BY <1>5, <1>6, <1>7, <1>8, <1>9, <1>10 DEF QuestionCount, RecordCount

LEMMA DecodedParts ==
    ASSUME NEW b, NEW items
    PROVE  DecodedMsg(b, items) =
             [header     |-> HeaderFromFlags(WordAt(b, 0), WordAt(b, 2)),
              questions  |-> SubSeq(items, 0 + 1, 0 + WordAt(b, 4)),
              answers    |-> SubSeq(items, WordAt(b, 4) + 1, WordAt(b, 4) + WordAt(b, 6)),
              authority  |-> SubSeq(items, WordAt(b, 4) + WordAt(b, 6) + 1,
                                    WordAt(b, 4) + WordAt(b, 6) + WordAt(b, 8)),
              additional |-> SubSeq(items, WordAt(b, 4) + WordAt(b, 6) + WordAt(b, 8) + 1,
                                    WordAt(b, 4) + WordAt(b, 6) + WordAt(b, 8) + WordAt(b, 10))]
<1>1. /\ 2 * 1 - 2 = 0 /\ 2 * 2 - 2 = 2 /\ 2 * 3 - 2 = 4 /\ 2 * 4 - 2 = 6 /\ 2 * 5 - 2 = 8
      /\ 2 * 6 - 2 = 10
  OBVIOUS
<1> QED
  BY <1>1, Zenon DEF DecodedMsg

LEMMA LoweredItems ==
    ASSUME NEW m \in DnsMessage, Encode(m).err = "nil", NEW b, b = Encode(m).buf
    PROVE  DecodedMsg(b, LowerQuestions(m.questions) \o LowerRecords(Sections(m))) =
             Lowered(m)
<1> DEFINE q == LowerQuestions(m.questions)
           x == LowerRecords(m.answers)
           y == LowerRecords(m.authority)
           z == LowerRecords(m.additional)
           s == q \o LowerRecords(Sections(m))
<1>1. ~ TooMany(Counts(m))
  BY EncodeLaid
<1>2. /\ m.questions \in Seq(DnsQuestion) /\ m.answers \in Seq(DnsRecord)
      /\ m.authority \in Seq(DnsRecord) /\ m.additional \in Seq(DnsRecord)
      /\ m.header \in DnsHeader
  BY <1>1, CountNat
<1>3. m.answers \o m.authority \in Seq(DnsRecord)
  BY <1>1, SectionsAre
<1>4. LowerRecords(m.answers \o m.authority) = x \o y
  BY <1>2, LowerConcat
<1>5. LowerRecords((m.answers \o m.authority) \o m.additional) =
        LowerRecords(m.answers \o m.authority) \o z
  BY <1>2, <1>3, LowerConcat
<1>6. s = q \o ((x \o y) \o z)
  BY <1>4, <1>5 DEF Sections
<1>7. /\ q \in Seq(LowItems) /\ Len(q) = Len(m.questions)
      /\ x \in Seq(LowItems) /\ Len(x) = Len(m.answers)
      /\ y \in Seq(LowItems) /\ Len(y) = Len(m.authority)
      /\ z \in Seq(LowItems) /\ Len(z) = Len(m.additional)
  BY <1>2, LowerItems
<1> HIDE DEF q, x, y, z, s
<1>8. /\ SubSeq(s, 0 + 1, 0 + Len(q)) = q
      /\ SubSeq(s, Len(q) + 1, Len(q) + Len(x)) = x
      /\ SubSeq(s, Len(q) + Len(x) + 1, Len(q) + Len(x) + Len(y)) = y
      /\ SubSeq(s, Len(q) + Len(x) + Len(y) + 1, Len(q) + Len(x) + Len(y) + Len(z)) = z
  <2>1. q \in Seq(LowItems) /\ x \in Seq(LowItems) /\ y \in Seq(LowItems) /\ z \in Seq(LowItems)
    BY <1>7
  <2> QED
    <3>1. Quarters(s, q, x, y, z)
      BY <1>6, <2>1, FourParts
    <3> QED
      BY <3>1 DEF Quarters
<1>9. /\ WordAt(b, 4) = Len(q) /\ WordAt(b, 6) = Len(x)
      /\ WordAt(b, 8) = Len(y) /\ WordAt(b, 10) = Len(z)
  BY <1>7, EncodedWords
<1>10. HeaderFromFlags(WordAt(b, 0), WordAt(b, 2)) = m.header
  BY <1>2, EncodedWords, HeaderRead
<1>11. DecodedMsg(b, s) =
         [header |-> m.header, questions |-> q, answers |-> x, authority |-> y, additional |-> z]
  BY <1>8, <1>9, <1>10, DecodedParts, Zenon
<1> QED
  BY <1>11, Zenon DEF Lowered, q, x, y, z, s

\* What was encoded is decoded to the same, names in lower case, whenever it
\* is decoded at all; and it is when pointers are no deeper than the limit.
LEMMA EncodeDecoded ==
    ASSUME NEW m \in DnsMessage, Encode(m).err = "nil",
           Decode(Encode(m).buf).err = "nil" \/ Shallow(m)
    PROVE  Decode(Encode(m).buf) = [err |-> "nil", msg |-> Lowered(m)]
<1> DEFINE b == Encode(m).buf
           n == Cardinality(Spellings(m))
           qs == m.questions
           rs == Sections(m)
<1>1. /\ ~ TooMany(Counts(m)) /\ b \in Octets /\ 12 <= Len(b) /\ n \in Nat
      /\ \E p \in Nat : QuestionsLaid(b, 12, p, qs, n) /\ RecordsLaid(b, p, Len(b), rs, n)
  BY EncodeLaid
<1>2. PICK p \in Nat : QuestionsLaid(b, 12, p, qs, n) /\ RecordsLaid(b, p, Len(b), rs, n)
  BY <1>1
<1>3. qs \in Seq(DnsQuestion) /\ rs \in Seq(DnsRecord) /\ Len(qs) \in Nat /\ Len(rs) \in Nat
  BY <1>1, CountNat, LenProperties
<1>4. QuestionCount(b) = Len(qs) /\ RecordCount(b) = Len(rs)
  BY EncodedWords
<1>5. Decode(b).err = "nil" \/ n <= MaxPointerHops
  BY DEF Shallow
<1>6. DecodedMsg(b, LowerQuestions(qs) \o LowerRecords(rs)) = Lowered(m)
  BY LoweredItems
<1> HIDE DEF b, n, qs, rs
<1>7. PICK f, g : Ended(b, f, g)
  BY <1>1, EndsExist
<1>8. \/ /\ g[Len(rs)] <= Len(b)
         /\ Decode(b) = [err |-> "nil", msg |-> DecodedMsg(b, Items(b, f, g))]
      \/ /\ g[Len(rs)] > Len(b) /\ Fails(Decode(b))
  BY <1>1, <1>4, <1>7, DecodeReads
<1>9. /\ QuestionEnds(f, b, 12, Len(qs)) /\ RREnds(g, b, f[Len(qs)], Len(rs))
      /\ f[Len(qs)] \in Nat
  <2>1. QuestionEnds(f, b, 12, Len(qs)) /\ RREnds(g, b, f[Len(qs)], Len(rs))
    BY <1>4, <1>7 DEF Ended
  <2>2. \A i \in 0..Len(qs) : f[i] \in Nat
    BY <1>1, <1>4, <1>7, EndsTypes
  <2> QED
    BY <1>3, <2>1, <2>2
<1>10. g[Len(rs)] <= Len(b) \/ n <= MaxPointerHops
  BY <1>5, <1>8, FailsIsError
<1>11. f[Len(qs)] <= Len(b) \/ n <= MaxPointerHops
  <2>1. ASSUME g[Len(rs)] <= Len(b) PROVE f[Len(qs)] <= Len(b)
    <3> DEFINE z == 0
    <3>1. \A i \in 0..Len(rs) : g[i] <= Len(b)
      BY <1>1, <1>3, <1>9, <2>1, RREndsWithin
    <3>2. z \in 0..Len(rs) /\ z = 0
      BY <1>3
    <3> HIDE DEF z
    <3>3. g[z] <= Len(b)
      BY <3>1, <3>2
    <3>4. g[z] = f[Len(qs)]
      BY <1>3, <1>9, <3>2, RREndsAt
    <3> QED
      BY <3>3, <3>4
  <2> QED
    BY <1>10, <2>1
<1>12. f[Len(qs)] = p /\ Questions(b, f, Len(qs)) = LowerQuestions(qs)
  <2> DEFINE t == 12
  <2>1. t \in Nat /\ QuestionsLaid(b, t, p, qs, n) /\ QuestionEnds(f, b, t, Len(qs))
    BY <1>2, <1>9
  <2> HIDE DEF t
  <2>2. b \in Octets /\ qs \in Seq(DnsQuestion) /\ n \in Nat
    BY <1>1, <1>3
  <2>3. Readable(f, Len(qs), b, n)
    BY <1>11 DEF Readable
  <2>4. Reaches(f, Len(qs), p) /\ Questions(b, f, Len(qs)) = LowerQuestions(qs)
    BY <2>1, <2>2, <2>3, QuestionsLaidFound
  <2> QED
    BY <2>4 DEF Reaches
<1>13. RREnds(g, b, p, Len(rs))
  BY <1>9, <1>12
<1>14. g[Len(rs)] = Len(b) /\ RRs(b, g, Len(rs)) = LowerRecords(rs)
  <2> DEFINE t == Len(b)
  <2>1. b \in Octets /\ rs \in Seq(DnsRecord) /\ n \in Nat /\ p \in Nat
    BY <1>1, <1>2, <1>3
  <2>2. RecordsLaid(b, p, t, rs, n)
    BY <1>2
  <2> HIDE DEF t
  <2>3. Readable(g, Len(rs), b, n)
    BY <1>10 DEF Readable
  <2>4. Reaches(g, Len(rs), t) /\ RRs(b, g, Len(rs)) = LowerRecords(rs)
    BY <1>13, <2>1, <2>2, <2>3, RecordsLaidFound
  <2> QED
    BY <2>4 DEF t, Reaches
<1>15. Decode(b) = [err |-> "nil", msg |-> DecodedMsg(b, Items(b, f, g))]
  <2>1. Len(b) \in Nat /\ ~ (Len(b) > Len(b))
    BY <1>1, LenProperties DEF Octets
  <2> QED
    BY <1>8, <1>14, <2>1
<1>16. Items(b, f, g) = LowerQuestions(qs) \o LowerRecords(rs)
  BY <1>4, <1>12, <1>14 DEF Items
<1> QED
  BY <1>6, <1>15, <1>16 DEF b, qs, rs

(***************************************************************************)
(* What is read within the first octets is read in all of them.            *)
(***************************************************************************)
LEMMA PartGrows ==
    ASSUME NEW x \in Octets, NEW y \in Octets, NEW m \in Nat \ {0}, NEW n \in Nat, n <= Len(x)
    PROVE  SubSeq(x \o y, m, n) = SubSeq(x, m, n)
<1> DEFINE b == x \o y
           u == SubSeq(x, m, n)
           v == SubSeq(b, m, n)
           l == n - m + 1
<1>1. Joined(x, y, b)
  BY JoinedOctets
<1>2. /\ b \in Octets /\ Len(x) \in Nat /\ Len(x) <= Len(b) /\ Len(b) \in Nat
      /\ \A i \in 1..Len(x) : b[i] = x[i]
  BY <1>1 DEF Joined
<1> HIDE DEF b
<1>3. n <= Len(b)
  BY <1>2
<1>4. /\ u \in Octets /\ Len(u) = (IF m <= n THEN l ELSE 0)
      /\ \A i \in 1..l : u[i] = x[m + i - 1]
  BY PartOctets
<1>5. /\ v \in Octets /\ Len(v) = (IF m <= n THEN l ELSE 0)
      /\ \A i \in 1..l : v[i] = b[m + i - 1]
  BY <1>2, <1>3, PartOctets
<1> HIDE DEF u, v
<1>6. l \in Int
  OBVIOUS
<1>7. ASSUME NEW i \in 1..Len(u) PROVE u[i] = v[i]
  <2>1. i \in 1..l /\ m + i - 1 \in 1..Len(x)
    BY <1>2, <1>4
  <2> QED
    BY <1>2, <1>4, <1>5, <2>1
<1>8. u = v
  <2>1. Len(u) = Len(v)
    BY <1>4, <1>5
  <2> QED
    BY <1>4, <1>5, <1>7, <2>1, SeqEqual DEF Octets
<1> QED
  BY <1>8 DEF u, v, b

LEMMA OctetGrows ==
    ASSUME NEW x \in Octets, NEW y \in Octets
    PROVE  /\ x \o y \in Octets /\ Len(x) \in Nat /\ Len(x \o y) \in Nat /\ Len(x) <= Len(x \o y)
           /\ \A i \in 1..Len(x) : (x \o y)[i] = x[i]
<1>1. Joined(x, y, x \o y)
  BY JoinedOctets
<1> QED
  BY <1>1 DEF Joined

LEMMA StepStays ==
    ASSUME NEW b, NEW w, w.at # "walk" PROVE NameStep(b, w) = w
  BY DEF NameStep

LEMMA StepShort ==
    ASSUME NEW b, NEW w \in WalkState, Len(b) \in Nat, w.at = "walk", w.pos > Len(b)
    PROVE  NameStep(b, w).at = "truncated"
<1> DEFINE left == Len(b) - w.pos
           l == b[w.pos + 1]
<1>1. left < 1
  BY DEF WalkState
<1>2. NameStep(b, w) = IF w.at # "walk" THEN w ELSE
        CASE left < 1             -> [w EXCEPT !.at = "truncated"]
          [] left >= 1 /\ l = 0   -> [w EXCEPT !.at = "nil", !.end = EndAt(w, w.pos + 1)]
          [] left = 1 /\ l >= 192 -> [w EXCEPT !.at = "truncated"]
          [] left > 1 /\ l >= 192 -> FollowPointer(b, w)
          [] left >= 1 /\ l \in 64..191 -> [w EXCEPT !.at = "reserved"]
          [] left >= 1 /\ l \in 1..63   ->
               IF left < 1 + l THEN [w EXCEPT !.at = "truncated"]
               ELSE TakeLabel(b, w)
  BY DEF NameStep
<1>3. left \in Int
  BY DEF WalkState
<1> HIDE DEF left, l
<1>4. /\ ~ (left >= 1) /\ ~ (left = 1) /\ ~ (left > 1)
  BY <1>1, <1>3
<1>5. NameStep(b, w) = [w EXCEPT !.at = "truncated"]
  BY <1>1, <1>2, <1>4
<1> DEFINE e == "truncated"
<1>6. e \in Failures
  BY DEF Failures
<1> HIDE DEF e
<1>7. [w EXCEPT !.at = e].at = e
  BY <1>6, StateStops
<1> QED
  BY <1>5, <1>7 DEF e

LEMMA FailuresAre ==
    /\ "truncated" \in Failures /\ "reserved" \in Failures
    /\ \A e \in Failures : e # "nil" /\ e # "walk"
  BY DEF Failures

\* FollowPointer as a function of the two octets it reads.
FollowOctets(w, x, y) ==
    LET target == (x - 192) * 256 + y IN
    IF target >= w.pos THEN [w EXCEPT !.at = "forward"]
    ELSE IF w.hops + 1 > MaxPointerHops THEN [w EXCEPT !.at = "loop"]
    ELSE [w EXCEPT !.end = EndAt(w, w.pos + 2), !.jumped = TRUE,
                   !.hops = @ + 1, !.pos = target]

LEMMA FollowGrows ==
    ASSUME NEW x, NEW b, NEW w, b[w.pos + 1] = x[w.pos + 1], b[w.pos + 2] = x[w.pos + 2]
    PROVE  FollowPointer(b, w) = FollowPointer(x, w)
<1>1. /\ FollowPointer(b, w) = FollowOctets(w, b[w.pos + 1], b[w.pos + 2])
      /\ FollowPointer(x, w) = FollowOctets(w, x[w.pos + 1], x[w.pos + 2])
  BY Zenon DEF FollowPointer, FollowOctets
<1> QED
  BY <1>1, Zenon

LEMMA TakeGrows ==
    ASSUME NEW x, NEW b, NEW w, b[w.pos + 1] = x[w.pos + 1],
           SubSeq(b, w.pos + 2, w.pos + 1 + x[w.pos + 1]) =
             SubSeq(x, w.pos + 2, w.pos + 1 + x[w.pos + 1])
    PROVE  TakeLabel(b, w) = TakeLabel(x, w)
  BY Zenon DEF TakeLabel

LEMMA StepGrows ==
    ASSUME NEW x \in Octets, NEW y \in Octets, NEW w \in WalkState,
           NameStep(x, w).at \notin Failures
    PROVE  NameStep(x \o y, w) = NameStep(x, w)
<1> DEFINE b == x \o y
<1>1. /\ b \in Octets /\ Len(x) \in Nat /\ Len(b) \in Nat /\ Len(x) <= Len(b)
      /\ \A i \in 1..Len(x) : b[i] = x[i]
  BY OctetGrows
<1>2. w.pos \in Nat
  BY DEF WalkState
<1> HIDE DEF b
<1>3. CASE w.at # "walk"
  BY <1>3, StepStays DEF b
<1>4. CASE w.at = "walk"
  <2>1. w.pos <= Len(x)
    BY <1>1, <1>2, <1>4, StepShort, FailuresAre
  <2>2. Stands(x, w) /\ Stands(b, w)
    BY <1>1, <1>2, <1>4, <2>1 DEF Stands
  <2>3. ~ Truncates(x, w)
    BY StateStops, FailuresAre DEF Truncates
  <2>4. ~ IsReserved(x, w)
    BY StateStops, FailuresAre DEF IsReserved
  <2> DEFINE p == w.pos
             o == x[p + 1]
  <2>5. CASE Ends(x, w)
    <3>1. p < Len(x) /\ o = 0 /\ NameStep(x, w) = [w EXCEPT !.at = "nil", !.end = EndAt(w, w.pos + 1)]
      BY <2>5 DEF Ends
    <3>2. p + 1 <= Len(b) /\ b[p + 1] = o
      BY <1>1, <1>2, <3>1
    <3>3. Ends(b, w)
      BY <1>1, <2>2, <3>1, <3>2, StepByOctet
    <3> QED
      BY <3>1, <3>3 DEF Ends, b
  <2>6. CASE Follows(x, w)
    <3>1. p + 1 < Len(x) /\ o \in 192..255 /\ NameStep(x, w) = FollowPointer(x, w)
      BY <2>6 DEF Follows
    <3>2. p + 1 <= Len(b) /\ p + 2 <= Len(b) /\ b[p + 1] = o /\ b[p + 2] = x[p + 2]
      BY <1>1, <1>2, <3>1
    <3>3. Follows(b, w)
      BY <1>1, <2>2, <3>1, <3>2, StepByOctet
    <3>4. FollowPointer(b, w) = FollowPointer(x, w)
      BY <3>2, FollowGrows
    <3> QED
      BY <3>1, <3>3, <3>4 DEF Follows, b
  <2>7. CASE TakesLabel(x, w)
    <3>1. p + 1 + o <= Len(x) /\ o \in 1..63 /\ NameStep(x, w) = TakeLabel(x, w)
      BY <2>7 DEF TakesLabel
    <3>2. p + 1 <= Len(b) /\ p + (1 + o) <= Len(b) /\ b[p + 1] = o
      <4> DEFINE k == o
      <4>1. k \in 1..63 /\ p + 1 + k <= Len(x)
        BY <3>1, Zenon
      <4> HIDE DEF k
      <4>2. k \in Nat /\ k >= 1 /\ p + 1 + k <= Len(x)
        BY <4>1
      <4>3. p + 1 <= Len(b) /\ p + (1 + k) <= Len(b) /\ p + 1 \in 1..Len(x)
        BY <1>1, <1>2, <4>2
      <4> QED
        BY <1>1, <4>3 DEF k
    <3>3. TakesLabel(b, w)
      BY <1>1, <2>2, <3>1, <3>2, StepByOctet
    <3>4. SubSeq(b, p + 2, p + 1 + o) = SubSeq(x, p + 2, p + 1 + o)
      <4> DEFINE m == p + 2
                 n == p + 1 + o
                 k == o
      <4>1. k \in 1..63 /\ p + 1 + k <= Len(x)
        BY <3>1, Zenon
      <4> HIDE DEF k
      <4>2. k \in Nat /\ p + 1 + k <= Len(x)
        BY <4>1
      <4>3. p + 1 + k \in Nat /\ p + 2 \in Nat \ {0}
        BY <1>2, <4>2
      <4>4. m \in Nat \ {0} /\ n \in Nat /\ n <= Len(x)
        BY <4>2, <4>3 DEF k
      <4> HIDE DEF m, n
      <4> QED
        BY <4>4, PartGrows DEF b, m, n
    <3>5. TakeLabel(b, w) = TakeLabel(x, w)
      BY <3>2, <3>4, TakeGrows
    <3> QED
      BY <3>1, <3>3, <3>5 DEF TakesLabel, b
  <2> QED
    BY <2>2, <2>3, <2>4, <2>5, <2>6, <2>7, StepOf
<1> QED
  BY <1>3, <1>4

\* A run stays where it failed; so far it has gone the same way.
SameWay(v, w) == v.at \in Failures \/ v = w

LEMMA SameWayGoesOn ==
    ASSUME NEW x \in Octets, NEW y \in Octets, NEW v \in WalkState, NEW w, SameWay(v, w)
    PROVE  SameWay(NameStep(x, v), NameStep(x \o y, w))
<1>1. CASE v.at \in Failures
  <2>1. v.at # "walk"
    BY <1>1, FailuresAre
  <2> QED
    BY <1>1, <2>1, StepStays DEF SameWay
<1>2. CASE v = w
  BY <1>2, StepGrows DEF SameWay
<1> QED
  BY <1>1, <1>2 DEF SameWay

LEMMA WalkGrows ==
    ASSUME NEW x \in Octets, NEW y \in Octets, NEW p \in Nat, GoodName(x, p)
    PROVE  Walk(x \o y, p) = Walk(x, p)
<1> DEFINE b == x \o y
           n == WalkBound
<1>1. PICK f : Walks(f, x, WalkFrom(p), n) /\ Walk(x, p) = f[n]
  BY WalkIs
<1>2. PICK g : Walks(g, b, WalkFrom(p), n) /\ Walk(b, p) = g[n]
  BY WalkIs
<1>3. n \in Nat
  BY WireAssumption DEF WalkBound
<1>4. p \in 0..Len(x) /\ f[n].at = "nil"
  BY <1>1, OctetsLen DEF GoodName
<1>5. \A i \in 0..n : f[i] \in WalkState
  BY <1>1, <1>3, <1>4, WalkRuns DEF WalkInv
<1> HIDE DEF b, n
<1> DEFINE G == {k \in Nat : k <= n => SameWay(f[k], g[k])}
<1>6. 0 \in G
  <2> DEFINE z == 0
  <2>1. z \in 0..n /\ z = 0
    BY <1>3
  <2>2. f[z] = WalkFrom(p) /\ g[z] = WalkFrom(p)
    BY <1>1, <1>2, <1>3, <2>1, WalksAt
  <2> QED
    BY <2>2 DEF SameWay
<1>7. ASSUME NEW k \in Nat, k \in G PROVE k + 1 \in G
  <2> DEFINE j == k + 1
  <2> SUFFICES ASSUME j <= n PROVE SameWay(f[j], g[j])
    OBVIOUS
  <2>1. k \in 0..n /\ k <= n /\ j \in 0..n /\ j # 0 /\ j - 1 = k
    BY <1>3
  <2>2. SameWay(f[k], g[k])
    BY <1>7, <2>1
  <2> HIDE DEF j
  <2>3. f[j] = NameStep(x, f[k])
    BY <1>1, <1>3, <2>1, WalksAt
  <2>4. g[j] = NameStep(b, g[k])
    BY <1>2, <1>3, <2>1, WalksAt
  <2> DEFINE v == f[k]
             w == g[k]
  <2>5. v \in WalkState /\ SameWay(v, w)
    BY <1>5, <2>1, <2>2
  <2> HIDE DEF v, w
  <2>6. SameWay(NameStep(x, v), NameStep(x \o y, w))
    BY <2>5, SameWayGoesOn
  <2> QED
    BY <2>3, <2>4, <2>6 DEF v, w, b
<1> HIDE DEF G
<1>8. \A k \in Nat : k \in G
  BY <1>6, <1>7, Induction
<1>9. SameWay(f[n], g[n])
  BY <1>3, <1>8 DEF G
<1>10. f[n] = g[n]
  BY <1>4, <1>9, FailuresAre DEF SameWay
<1> QED
  BY <1>1, <1>2, <1>10 DEF b

LEMMA NameGrows ==
    ASSUME NEW x \in Octets, NEW y \in Octets, NEW p \in Nat, GoodName(x, p)
    PROVE  GoodName(x \o y, p) /\ NameEnd(x \o y, p) = NameEnd(x, p)
<1>1. Walk(x \o y, p) = Walk(x, p)
  BY WalkGrows
<1>2. Len(x) \in Nat /\ Len(x \o y) \in Nat /\ Len(x) <= Len(x \o y)
  BY OctetGrows
<1>3. p <= Len(x) /\ Walk(x, p).at = "nil"
  BY DEF GoodName
<1> QED
  BY <1>1, <1>2, <1>3 DEF GoodName, NameEnd

LEMMA QuestionGrows ==
    ASSUME NEW x \in Octets, NEW y \in Octets, NEW p \in Nat, QuestionEnd(x, p) <= Len(x)
    PROVE  QuestionEnd(x \o y, p) = QuestionEnd(x, p)
<1> DEFINE len == Len(x)
           e   == NameEnd(x, p)
<1>1. len \in Nat /\ e \in Nat /\ e + 4 <= len
  BY OctetsLen, NameType DEF QuestionEnd
<1> HIDE DEF len, e
<1>2. e <= len
  BY <1>1
<1>3. GoodName(x, p)
  BY <1>2, NameType DEF len, e
<1> QED
  BY <1>3, NameGrows DEF QuestionEnd

LEMMA WordGrows ==
    ASSUME NEW x \in Octets, NEW y \in Octets, NEW p \in Nat, p + 2 <= Len(x)
    PROVE  WordAt(x \o y, p) = WordAt(x, p)
<1> DEFINE m == p + 1
           n == p + 2
<1>1. m \in Nat \ {0} /\ n \in Nat /\ n <= Len(x)
  OBVIOUS
<1> HIDE DEF m, n
<1>2. SubSeq(x \o y, m, n) = SubSeq(x, m, n)
  BY <1>1, PartGrows
<1> QED
  BY <1>2 DEF WordAt, m, n

LEMMA SoaGrows ==
    ASSUME NEW x \in Octets, NEW y \in Octets, NEW p \in Nat, SoaEnd(x, p) <= Len(x)
    PROVE  SoaEnd(x \o y, p) = SoaEnd(x, p)
<1> DEFINE b   == x \o y
           len == Len(x)
           s   == NameEnd(x, p)
           u   == NameEnd(x, s)
<1>1. s \in Nat /\ u \in Nat /\ len \in Nat
  BY NameType, OctetsLen
<1>2. SoaEnd(x, p) = u + 20 /\ SoaEnd(b, p) = NameEnd(b, NameEnd(b, p)) + 20
  BY DEF SoaEnd, SoaNumbers, SoaSecond
<1>3. u + 20 <= len
  BY <1>2
<1> HIDE DEF b, len, s, u
<1>4. u <= len
  BY <1>1, <1>3
<1>5. GoodName(x, s)
  BY <1>1, <1>4, NameType DEF u, len
<1>6. s <= Len(x)
  BY <1>5 DEF GoodName
<1>7. GoodName(x, p)
  BY <1>6, NameType DEF s
<1>8. NameEnd(b, p) = s
  BY <1>7, NameGrows DEF b, s
<1>9. NameEnd(b, s) = u
  BY <1>1, <1>5, NameGrows DEF b, u
<1> QED
  BY <1>2, <1>8, <1>9 DEF b

LEMMA DataGrows ==
    ASSUME NEW x \in Octets, NEW y \in Octets, NEW p \in Nat, NEW type, NEW rdata,
           GoodData(type, rdata, x, p)
    PROVE  GoodData(type, rdata, x \o y, p)
<1> DEFINE b == x \o y
<1>1. GoodName(x, p) => GoodName(b, p)
  BY NameGrows
<1>2. SoaEnd(x, p) <= Len(x) => SoaEnd(b, p) <= Len(b)
  <2> SUFFICES ASSUME SoaEnd(x, p) <= Len(x) PROVE SoaEnd(b, p) <= Len(b)
    OBVIOUS
  <2> DEFINE n == SoaEnd(x, p)
             h == Len(x)
             k == Len(b)
  <2>1. SoaEnd(b, p) = n
    BY SoaGrows
  <2>2. h \in Nat /\ k \in Nat /\ h <= k
    BY OctetGrows
  <2>3. n \in Int
    <3>1. NameEnd(x, p) \in Nat
      BY NameType
    <3>2. NameEnd(x, NameEnd(x, p)) \in Nat
      BY <3>1, NameType
    <3> QED
      BY <3>2 DEF SoaEnd, SoaNumbers, SoaSecond
  <2>4. n <= h
    OBVIOUS
  <2> HIDE DEF n, h, k
  <2>5. n <= k
    BY <2>2, <2>3, <2>4
  <2> QED
    BY <2>1, <2>5 DEF k
<1> HIDE DEF b
<1>3. GoodData(type, rdata, b, p)
  <2>1. KindOf(type) \in {"A", "AAAA", "TXT", "NS", "CNAME", "SOA", "raw"}
    BY DEF KindOf
  <2>2. CASE KindOf(type) \in {"A", "AAAA"}
    BY <2>2, ShortIs, LongIs
  <2>3. CASE KindOf(type) = "TXT"
    BY <2>3, TextIs
  <2>4. CASE KindOf(type) \in {"NS", "CNAME"}
    BY <1>1, <2>4, ServerIs, AliasIs
  <2>5. CASE KindOf(type) = "SOA"
    BY <1>2, <2>5, ZoneIs
  <2>6. CASE KindOf(type) = "raw"
    BY <2>6, PlainIs
  <2> QED
    BY <2>1, <2>2, <2>3, <2>4, <2>5, <2>6
<1> QED
  BY <1>3 DEF b

LEMMA RRGrows ==
    ASSUME NEW x \in Octets, NEW y \in Octets, NEW p \in Nat, RREnd(x, p) <= Len(x)
    PROVE  RREnd(x \o y, p) = RREnd(x, p)
<1> DEFINE b   == x \o y
           h   == Len(x)
           k   == Len(b)
           e   == NameEnd(x, p)
           n   == WordAt(x, e + 8)
           t   == WordAt(x, e)
<1>1. GoodRR(x, p)
  BY RRTypes
<1>2. RRFits(x, p) /\ GoodData(RRType(x, p), RDataAt(x, p), x, Base(x, p))
  BY <1>1 DEF GoodRR
<1>3. Base(x, p) = e + 10 /\ RDLength(x, p) = n /\ RRType(x, p) = t
  BY DEF Base, RDLength, RRType
<1>4. e \in Nat /\ h \in Nat /\ k \in Nat /\ h <= k /\ n \in Nat
  BY <1>2, NameType, OctetGrows, RRTypes DEF RDLength
<1>5. e + 10 <= h /\ e + 10 + n <= h
  BY <1>2, <1>3 DEF RRFits
<1>6. RREnd(x, p) = e + 10 + n
  BY <1>1, <1>3 DEF RREnd
<1> HIDE DEF h, e, k
<1>7. e <= h
  BY <1>4, <1>5
<1>8. GoodName(x, p)
  BY <1>7, NameType DEF h, e
<1>9. NameEnd(b, p) = e
  BY <1>8, NameGrows DEF e
<1>10. WordAt(b, e) = t /\ WordAt(b, e + 8) = n
  <2>1. e + 2 <= h /\ (e + 8) + 2 <= h /\ e + 8 \in Nat
    BY <1>4, <1>5
  <2>2. WordAt(b, e) = t
    BY <1>4, <2>1, WordGrows DEF h
  <2> DEFINE d == e + 8
  <2>3. d \in Nat /\ d + 2 <= Len(x)
    BY <2>1 DEF h
  <2> HIDE DEF d
  <2>4. WordAt(b, d) = WordAt(x, d)
    BY <2>3, WordGrows
  <2> QED
    BY <2>2, <2>4 DEF d
<1> HIDE DEF n, t
<1>11. Base(b, p) = e + 10 /\ RDLength(b, p) = n /\ RRType(b, p) = t
  BY <1>9, <1>10 DEF Base, RDLength, RRType
<1> DEFINE base == e + 10
           data == SubSeq(x, base + 1, base + n)
<1>12. RDataAt(x, p) = data
  BY <1>3 DEF RDataAt
<1>13. RDataAt(b, p) = data
  <2> DEFINE i == base + 1
             j == base + n
  <2>1. i \in Nat \ {0} /\ j \in Nat /\ j <= h
    BY <1>4, <1>5
  <2> HIDE DEF i, j
  <2>2. SubSeq(x \o y, i, j) = SubSeq(x, i, j)
    BY <2>1, PartGrows DEF h
  <2> QED
    BY <1>11, <2>2 DEF RDataAt, i, j
<1>14. GoodData(t, data, x, base)
  BY <1>2, <1>3, <1>12
<1>15. base \in Nat /\ base + n <= k /\ base <= k
  BY <1>4, <1>5
<1> HIDE DEF base, data
<1>16. GoodData(t, data, b, base)
  BY <1>14, <1>15, DataGrows
<1>17. GoodRR(b, p)
  BY <1>11, <1>13, <1>15, <1>16 DEF GoodRR, RRFits, base, k
<1>18. RREnd(b, p) = e + 10 + n
  BY <1>11, <1>17 DEF RREnd
<1> QED
  BY <1>6, <1>18 DEF b

FitsIn(f, n, x) == f[n] <= Len(x)
Meet(f, g, n) == f[n] = g[n]

LEMMA QuestionEndsKept ==
    ASSUME NEW x \in Octets, NEW y \in Octets, NEW p \in Nat, NEW n \in Nat, NEW f, NEW g,
           QuestionEnds(f, x, p, n), QuestionEnds(g, x \o y, p, n), FitsIn(f, n, x)
    PROVE  Meet(f, g, n)
<1> DEFINE b == x \o y
           G == {k \in Nat : k <= n => f[k] = g[k]}
<1>1. \A i \in 0..n : f[i] \in Nat /\ f[i] <= Len(x)
  BY QuestionEndsWithin DEF FitsIn
<1> HIDE DEF b
<1>2. 0 \in G
  <2> DEFINE z == 0
  <2>1. z \in 0..n /\ z = 0
    OBVIOUS
  <2>2. f[z] = p
    BY <2>1, QuestionEndsAt
  <2>3. g[z] = p
    BY <2>1, QuestionEndsAt
  <2> QED
    BY <2>2, <2>3
<1>3. ASSUME NEW k \in Nat, k \in G PROVE k + 1 \in G
  <2> DEFINE j == k + 1
  <2> SUFFICES ASSUME j <= n PROVE f[j] = g[j]
    OBVIOUS
  <2>1. k \in 0..n /\ k <= n /\ j \in 0..n /\ j # 0 /\ j - 1 = k
    OBVIOUS
  <2>2. f[k] = g[k]
    BY <1>3, <2>1
  <2> HIDE DEF j
  <2>3. f[j] = QuestionEnd(x, f[k])
    BY <2>1, QuestionEndsAt
  <2>4. g[j] = QuestionEnd(b, g[k])
    BY <2>1, QuestionEndsAt DEF b
  <2> DEFINE q == f[k]
  <2>5. q \in Nat /\ QuestionEnd(x, q) <= Len(x)
    BY <1>1, <2>1, <2>3
  <2> HIDE DEF q
  <2>6. QuestionEnd(b, q) = QuestionEnd(x, q)
    BY <2>5, QuestionGrows DEF b
  <2> QED
    BY <2>2, <2>3, <2>4, <2>6 DEF q
<1> HIDE DEF G
<1>4. \A k \in Nat : k \in G
  BY <1>2, <1>3, Induction
<1>5. n <= n => f[n] = g[n]
  BY <1>4 DEF G
<1> QED
  BY <1>5 DEF Meet

LEMMA RREndsKept ==
    ASSUME NEW x \in Octets, NEW y \in Octets, NEW p \in Nat, NEW n \in Nat, NEW f, NEW g,
           RREnds(f, x, p, n), RREnds(g, x \o y, p, n), FitsIn(f, n, x)
    PROVE  Meet(f, g, n)
<1> DEFINE b == x \o y
           G == {k \in Nat : k <= n => f[k] = g[k]}
<1>1. \A i \in 0..n : f[i] \in Nat /\ f[i] <= Len(x)
  BY RREndsWithin DEF FitsIn
<1> HIDE DEF b
<1>2. 0 \in G
  <2> DEFINE z == 0
  <2>1. z \in 0..n /\ z = 0
    OBVIOUS
  <2>2. f[z] = p
    BY <2>1, RREndsAt
  <2>3. g[z] = p
    BY <2>1, RREndsAt
  <2> QED
    BY <2>2, <2>3
<1>3. ASSUME NEW k \in Nat, k \in G PROVE k + 1 \in G
  <2> DEFINE j == k + 1
  <2> SUFFICES ASSUME j <= n PROVE f[j] = g[j]
    OBVIOUS
  <2>1. k \in 0..n /\ k <= n /\ j \in 0..n /\ j # 0 /\ j - 1 = k
    OBVIOUS
  <2>2. f[k] = g[k]
    BY <1>3, <2>1
  <2> HIDE DEF j
  <2>3. f[j] = RREnd(x, f[k])
    BY <2>1, RREndsAt
  <2>4. g[j] = RREnd(b, g[k])
    BY <2>1, RREndsAt DEF b
  <2> DEFINE q == f[k]
  <2>5. q \in Nat /\ RREnd(x, q) <= Len(x)
    BY <1>1, <2>1, <2>3
  <2> HIDE DEF q
  <2>6. RREnd(b, q) = RREnd(x, q)
    BY <2>5, RRGrows DEF b
  <2> QED
    BY <2>2, <2>3, <2>4, <2>6 DEF q
<1> HIDE DEF G
<1>4. \A k \in Nat : k \in G
  BY <1>2, <1>3, Induction
<1>5. n <= n => f[n] = g[n]
  BY <1>4 DEF G
<1> QED
  BY <1>5 DEF Meet


LEMMA DecodeShort ==
    ASSUME NEW b, Len(b) < 12 PROVE Decode(b).err = "short read"
  BY DEF Decode

\* A strict prefix of what Encode has made ends too early for its counts.
LEMMA PrefixFails ==
    ASSUME NEW m \in DnsMessage, Encode(m).err = "nil", NEW k \in Nat,
           k < Len(Encode(m).buf)
    PROVE  Decode(SubSeq(Encode(m).buf, 1, k)).err # "nil"
<1> DEFINE b == Encode(m).buf
           x == SubSeq(b, 1, k)
           y == SubSeq(b, k + 1, Len(b))
           n == Cardinality(Spellings(m))
           qs == m.questions
           rs == Sections(m)
           len == Len(b)
<1>1. /\ ~ TooMany(Counts(m)) /\ b \in Octets /\ 12 <= len /\ n \in Nat
      /\ \E p \in Nat : QuestionsLaid(b, 12, p, qs, n) /\ RecordsLaid(b, p, len, rs, n)
  BY EncodeLaid
<1>2. qs \in Seq(DnsQuestion) /\ rs \in Seq(DnsRecord) /\ Len(qs) \in Nat /\ Len(rs) \in Nat
  BY <1>1, CountNat, LenProperties
<1>3. QuestionCount(b) = Len(qs) /\ RecordCount(b) = Len(rs)
  BY EncodedWords
<1>4. k < len
  OBVIOUS
<1>5. len \in Nat
  BY <1>1, OctetsLen
<1> HIDE DEF b, n, qs, rs
<1>6. x \in Octets /\ Len(x) = k /\ y \in Octets /\ x \o y = b
  <2>1. k <= Len(b)
    BY <1>4, <1>5
  <2> QED
    BY <1>1, <2>1, SplitAt
<1> HIDE DEF x, y, len
<1>7. CASE k < 12
  <2>1. Decode(x).err = "short read"
    BY <1>6, <1>7, DecodeShort
  <2> QED
    BY <2>1 DEF x, b
<1>8. CASE k >= 12
  <2> SUFFICES ASSUME Decode(x).err = "nil" PROVE FALSE
    BY DEF x, b
  <2>1. QuestionCount(x) = Len(qs) /\ RecordCount(x) = Len(rs)
    <3>1. ASSUME NEW p \in Nat, p <= 10 PROVE WordAt(b, p) = WordAt(x, p)
      <4>1. p + 2 <= Len(x)
        BY <1>6, <1>8, <3>1
      <4> QED
        BY <1>6, <4>1, WordGrows
    <3>2. /\ WordAt(b, 4) = WordAt(x, 4) /\ WordAt(b, 6) = WordAt(x, 6)
          /\ WordAt(b, 8) = WordAt(x, 8) /\ WordAt(b, 10) = WordAt(x, 10)
      BY <3>1
    <3>3. QuestionCount(b) = QuestionCount(x) /\ RecordCount(b) = RecordCount(x)
      BY <3>2 DEF QuestionCount, RecordCount
    <3> QED
      BY <1>3, <3>3
  <2>2. 12 <= Len(x) /\ 12 <= Len(b)
    BY <1>1, <1>6, <1>8 DEF len
  <2>3. PICK f, g : Ended(x, f, g)
    BY <1>6, <2>2, EndsExist
  <2>4. PICK s, t : Ended(b, s, t)
    BY <1>1, <2>2, EndsExist
  <2> DEFINE i == Len(qs)
             j == Len(rs)
  <2>5. /\ QuestionEnds(f, x, 12, i) /\ RREnds(g, x, f[i], j)
        /\ QuestionEnds(s, b, 12, i) /\ RREnds(t, b, s[i], j)
    BY <1>3, <2>1, <2>3, <2>4 DEF Ended
  <2>6. i \in Nat /\ j \in Nat
    BY <1>2
  <2>7. g[j] <= Len(x)
    <3>1. \/ g[RecordCount(x)] <= Len(x)
          \/ Fails(Decode(x))
      BY <1>6, <2>2, <2>3, DecodeReads
    <3> QED
      BY <2>1, <3>1, FailsIsError
  <2>8. f[i] \in Nat
    <3>1. \A h \in 0..i : f[h] \in Nat
      BY <1>6, <2>1, <2>2, <2>3, EndsTypes
    <3>2. i \in 0..i
      BY <2>6
    <3> QED
      BY <3>1, <3>2
  <2> HIDE DEF i, j
  <2>9. f[i] <= Len(x)
    <3> DEFINE z == 0
    <3>1. \A h \in 0..j : g[h] <= Len(x)
      BY <1>6, <2>5, <2>6, <2>7, <2>8, RREndsWithin
    <3>2. z \in 0..j /\ z = 0
      BY <2>6
    <3> HIDE DEF z
    <3>3. g[z] <= Len(x)
      BY <3>1, <3>2
    <3>4. g[z] = f[i]
      BY <2>5, <2>6, <3>2, RREndsAt
    <3> QED
      BY <3>3, <3>4
  <2> DEFINE c == 12
  <2>10. c \in Nat /\ QuestionEnds(f, x, c, i) /\ QuestionEnds(s, x \o y, c, i) /\ FitsIn(f, i, x)
    BY <1>6, <2>5, <2>9 DEF FitsIn
  <2>11. PICK p \in Nat : QuestionsLaid(b, c, p, qs, n) /\ RecordsLaid(b, p, len, rs, n)
    BY <1>1
  <2> HIDE DEF c
  <2>12. Meet(f, s, i)
    BY <1>6, <2>6, <2>10, QuestionEndsKept
  <2>13. s[i] = f[i]
    BY <2>12 DEF Meet
  <2>14. RREnds(t, x \o y, f[i], j) /\ FitsIn(g, j, x)
    BY <1>6, <2>5, <2>7, <2>13 DEF FitsIn
  <2>15. Meet(g, t, j)
    <3> DEFINE q == f[i]
    <3>1. q \in Nat /\ RREnds(g, x, q, j) /\ RREnds(t, x \o y, q, j)
      BY <2>5, <2>8, <2>14
    <3> HIDE DEF q
    <3> QED
      BY <1>6, <2>6, <2>14, <3>1, RREndsKept
  <2>16. t[j] = g[j] /\ t[j] <= k
    BY <1>6, <2>7, <2>15 DEF Meet
  <2>17. s[i] <= Len(b)
    BY <1>4, <1>5, <1>6, <2>8, <2>9, <2>13 DEF len
  <2>18. Readable(s, Len(qs), b, n)
    BY <2>17 DEF Readable, i
  <2>19. Reaches(s, Len(qs), p)
    <3>1. QuestionEnds(s, b, c, Len(qs)) /\ QuestionsLaid(b, c, p, qs, n) /\ c \in Nat
      BY <1>6, <2>10, <2>11 DEF i
    <3> QED
      BY <1>1, <1>2, <2>18, <3>1, QuestionsLaidFound
  <2>20. RREnds(t, b, p, Len(rs))
    BY <2>5, <2>19 DEF Reaches, i, j
  <2>21. t[j] \in Nat
    <3>1. \A h \in 0..RecordCount(b) : t[h] \in Nat
      BY <1>1, <2>2, <2>4, EndsTypes
    <3>2. j \in 0..RecordCount(b)
      BY <1>3, <2>6 DEF j
    <3> QED
      BY <3>1, <3>2
  <2>22. Readable(t, Len(rs), b, n)
    <3>1. t[j] <= len
      BY <1>4, <1>5, <2>16, <2>21
    <3> QED
      BY <3>1 DEF Readable, j, len
  <2>23. Reaches(t, Len(rs), len)
    <3>1. RecordsLaid(b, p, len, rs, n) /\ b \in Octets /\ n \in Nat /\ rs \in Seq(DnsRecord)
      BY <1>1, <1>2, <2>11
    <3> QED
      BY <2>20, <2>22, <3>1, RecordsLaidFound
  <2>24. t[j] = len
    BY <2>23 DEF Reaches, j
  <2> QED
    BY <1>4, <1>5, <2>16, <2>24
<1> QED
  BY <1>7, <1>8

(***************************************************************************)
(* ToLower leaves alone what it has made.                                  *)
(***************************************************************************)
\* Where an octet of a concatenation comes from.
LEMMA FlattenWhere ==
    ASSUME NEW ss \in Seq(Octets), NEW j \in 1..Len(FlattenSeq(ss))
    PROVE  \E i \in 1..Len(ss) :
             /\ Len(FlattenSeq(SubSeq(ss, 1, i - 1))) < j
             /\ j <= Len(FlattenSeq(SubSeq(ss, 1, i)))
<1> DEFINE Parted(i) == FlattenSeq(SubSeq(ss, 1, i))
           T == {i \in 0..Len(ss) : j <= Len(Parted(i))}
<1>1. Len(ss) \in Nat /\ SubSeq(ss, 1, Len(ss)) = ss
  OBVIOUS
<1>2. Len(ss) \in T
  <2>1. FlattenSeq(ss) \in Octets
    BY FlattenType DEF Octets
  <2>2. Len(FlattenSeq(ss)) \in Nat
    BY <2>1, OctetsLen
  <2>3. Parted(Len(ss)) = FlattenSeq(ss)
    BY <1>1
  <2>4. j <= Len(Parted(Len(ss)))
    BY <2>2, <2>3
  <2> QED
    BY <1>1, <2>4
<1>3. PICK i \in T : \A n \in T : i <= n
  <2>1. T \subseteq Nat /\ T # {}
    BY <1>1, <1>2
  <2> HIDE DEF T
  <2> QED
    BY <2>1, LeastNat
<1>4. Len(Parted(0)) = 0
  <2>1. SubSeq(ss, 1, 0) = << >>
    OBVIOUS
  <2>2. Parted(0) = << >>
    BY <2>1, FlattenEmpty
  <2> QED
    BY <2>2
<1>5. i # 0 /\ i \in 1..Len(ss)
  BY <1>1, <1>3, <1>4
<1>6. i - 1 \in 0..Len(ss) /\ i - 1 \notin T
  BY <1>1, <1>3, <1>5
<1>7. Parted(i - 1) \in Octets
  <2>1. SubSeq(ss, 1, i - 1) \in Seq(Octets)
    BY <1>1, <1>5, PartElements
  <2> QED
    BY <2>1, FlattenType DEF Octets
<1>8. Len(Parted(i - 1)) < j
  BY <1>6, <1>7, OctetsLen
<1> QED
  BY <1>3, <1>5, <1>8

\* A concatenation around one of its parts.
LEMMA FlattenAround ==
    ASSUME NEW ss \in Seq(Octets), NEW i \in 1..Len(ss)
    PROVE  /\ FlattenSeq(SubSeq(ss, 1, i - 1)) \in Octets
           /\ FlattenSeq(SubSeq(ss, 1, i)) = FlattenSeq(SubSeq(ss, 1, i - 1)) \o ss[i]
           /\ FlattenSeq(SubSeq(ss, i + 1, Len(ss))) \in Octets
           /\ FlattenSeq(ss) = FlattenSeq(SubSeq(ss, 1, i)) \o FlattenSeq(SubSeq(ss, i + 1, Len(ss)))
<1>1. Len(ss) \in Nat /\ i \in Nat /\ i <= Len(ss) /\ i - 1 \in Nat /\ i - 1 <= Len(ss)
  OBVIOUS
<1>2. SubSeq(ss, 1, i - 1) \in Seq(Octets) /\ SubSeq(ss, 1, i) \in Seq(Octets)
  BY <1>1, PartElements
<1>3. SubSeq(ss, i + 1, Len(ss)) \in Seq(Octets) /\ ss = SubSeq(ss, 1, i) \o SubSeq(ss, i + 1, Len(ss))
  BY <1>1, PartElements, CutInTwo
<1>4. SubSeq(ss, 1, i) = Append(SubSeq(ss, 1, i - 1), ss[i]) /\ ss[i] \in Octets
  OBVIOUS
<1> QED
  BY <1>2, <1>3, <1>4, FlattenType, FlattenConcat, FlattenAppend DEF Octets

\* What ToLower leaves as it is.
Kept(t, j) == t[j] \notin 65..90 /\ (t[j] > 127 => InRune(t, j))

LEMMA LargeOf ==
    ASSUME NEW x \in Int, NEW y \in Int
    PROVE  Max({x, y}) \in Int /\ Max({x, y}) \in {x, y}
<1>1. \E m \in {x, y} : \A n \in {x, y} : m >= n
  OBVIOUS
<1>2. Max({x, y}) \in {x, y}
  BY <1>1 DEF Max
<1> QED
  BY <1>2

LEMMA LeastOf ==
    ASSUME NEW x \in Int, NEW y \in Int
    PROVE  Min({x, y}) \in Int /\ Min({x, y}) \in {x, y}
<1>1. \E m \in {x, y} : \A n \in {x, y} : m <= n
  OBVIOUS
<1>2. Min({x, y}) \in {x, y}
  BY <1>1 DEF Min
<1> QED
  BY <1>2

LEMMA BoundsOf ==
    ASSUME NEW x \in Int, NEW y \in Int
    PROVE  /\ Max({x, y}) >= x /\ Max({x, y}) >= y
           /\ Min({x, y}) <= x /\ Min({x, y}) <= y
<1>1. \E m \in {x, y} : \A n \in {x, y} : m >= n
  OBVIOUS
<1>2. \A n \in {x, y} : Max({x, y}) >= n
  BY <1>1 DEF Max
<1>3. \E m \in {x, y} : \A n \in {x, y} : m <= n
  OBVIOUS
<1>4. \A n \in {x, y} : Min({x, y}) <= n
  BY <1>3 DEF Min
<1> QED
  BY <1>2, <1>4

LEMMA ThreeAre ==
    ASSUME NEW s \in Octets, Len(s) = 3, NEW a, NEW b, NEW c, s[1] = a, s[2] = b, s[3] = c
    PROVE  s = << a, b, c >>
  BY DEF Octets

LEMMA RuneIs ==
    /\ RuneError \in Octets /\ Len(RuneError) = 3
    /\ RuneError[1] = 239 /\ RuneError[2] = 191 /\ RuneError[3] = 189
<1>1. 239 \in Byte /\ 191 \in Byte /\ 189 \in Byte
  BY DEF Byte
<1>2. << 239, 191, 189 >> \in Seq(Byte)
  BY <1>1
<1> QED
  BY <1>2 DEF RuneError, Octets

LEMMA RuneAt ==
    ASSUME NEW x \in Octets, NEW y \in Octets, NEW t, t = (x \o RuneError) \o y,
           NEW j \in Nat, Len(x) < j, j <= Len(x) + 3
    PROVE  Kept(t, j)
<1> DEFINE n == Len(x)
<1>1. RuneError \in Octets /\ Len(RuneError) = 3 /\ n \in Nat
  BY RuneIs, OctetsLen
<1>2. Joined(x, RuneError, x \o RuneError) /\ x \o RuneError \in Octets
  BY <1>1, JoinedOctets, JoinOctets
<1>3. Joined(x \o RuneError, y, t)
  BY <1>2, JoinedOctets
<1>4. Len(x \o RuneError) = n + 3 /\ t \in Octets /\ Len(t) \in Nat /\ n + 3 <= Len(t)
  BY <1>1, <1>2, <1>3, OctetsLen DEF Joined
<1> HIDE DEF n
<1>5. ASSUME NEW i \in 1..3 PROVE t[n + i] = RuneError[i]
  <2>1. (x \o RuneError)[i + n] = RuneError[i]
    BY <1>1, <1>2 DEF Joined, n
  <2>2. n + i \in 1..Len(x \o RuneError) /\ i + n = n + i
    BY <1>1, <1>4
  <2>3. t[n + i] = (x \o RuneError)[n + i]
    BY <2>2, <1>3 DEF Joined
  <2> QED
    BY <2>1, <2>2, <2>3
<1>6. t[n + 1] = 239 /\ t[n + 2] = 191 /\ t[n + 3] = 189
  <2>1. 1 \in 1..3 /\ 2 \in 1..3 /\ 3 \in 1..3
    OBVIOUS
  <2>2. t[n + 1] = RuneError[1] /\ t[n + 2] = RuneError[2] /\ t[n + 3] = RuneError[3]
    BY <2>1, <1>5
  <2> QED
    BY <2>2, RuneIs
<1>7. SubSeq(t, n + 1, n + 1 + 2) = RuneError
  <2> DEFINE u == SubSeq(t, n + 1, n + 3)
  <2>1. /\ u \in Octets /\ Len(u) = 3
        /\ \A i \in 1..3 : u[i] = t[n + 1 + i - 1]
    <3> DEFINE from == n + 1
               to == n + 3
    <3>1. from \in Nat \ {0} /\ to \in Nat /\ to <= Len(t) /\ to - from + 1 = 3 /\ from <= to
      BY <1>1, <1>4
    <3> HIDE DEF from, to
    <3>2. /\ SubSeq(t, from, to) \in Octets
          /\ Len(SubSeq(t, from, to)) = to - from + 1
          /\ \A i \in 1..(to - from + 1) : SubSeq(t, from, to)[i] = t[from + i - 1]
      BY <3>1, <1>4, PartOctets
    <3>3. u = SubSeq(t, from, to) /\ from = n + 1
      BY DEF from, to
    <3> QED
      BY <3>1, <3>2, <3>3
  <2>2. n + 1 + 1 - 1 = n + 1 /\ n + 1 + 2 - 1 = n + 2 /\ n + 1 + 3 - 1 = n + 3
        /\ n + 1 + 2 = n + 3 /\ 1 \in 1..3 /\ 2 \in 1..3 /\ 3 \in 1..3
    BY <1>1
  <2> HIDE DEF u
  <2>3. u[1] = t[n + 1] /\ u[2] = t[n + 2] /\ u[3] = t[n + 3]
    BY <2>1, <2>2
  <2>4. u = << 239, 191, 189 >>
    BY <2>1, <2>3, <1>6, ThreeAre
  <2> QED
    BY <2>2, <2>4 DEF u, RuneError
<1>8. n + 1 \in Max({1, j - 2})..Min({j, Len(t) - 2})
  <2>1. 1 \in Int /\ j - 2 \in Int /\ j \in Int /\ Len(t) - 2 \in Int
    BY <1>4
  <2>2. Max({1, j - 2}) \in {1, j - 2} /\ Min({j, Len(t) - 2}) \in {j, Len(t) - 2}
    BY <2>1, LargeOf, LeastOf
  <2>3. n < j /\ j <= n + 3
    BY DEF n
  <2> QED
    BY <2>2, <2>3, <1>1, <1>4
<1>9. InRune(t, j)
  BY <1>7, <1>8 DEF InRune
<1>10. t[j] \notin 65..90
  <2>1. j \in {n + 1, n + 2, n + 3}
    BY <1>1 DEF n
  <2>2. CASE j = n + 1
    BY <2>2, <1>6
  <2>3. CASE j = n + 2
    BY <2>3, <1>6
  <2>4. CASE j = n + 3
    BY <2>4, <1>6
  <2> QED
    BY <2>1, <2>2, <2>3, <2>4
<1> QED
  BY <1>9, <1>10 DEF Kept


Lowers(s) == [i \in DOMAIN s |-> LowerOf(s, i)]

LEMMA LowersAre ==
    ASSUME NEW s \in Octets
    PROVE  /\ Lowers(s) \in Seq(Octets) /\ Len(Lowers(s)) = Len(s) /\ Len(s) \in Nat
           /\ \A i \in 1..Len(s) : Lowers(s)[i] = LowerOf(s, i)
           /\ ToLower(s) = FlattenSeq(Lowers(s))
<1>1. DOMAIN s = 1..Len(s) /\ Len(s) \in Nat
  BY SeqFunction DEF Octets
<1>2. \A i \in 1..Len(s) : LowerOf(s, i) \in Octets
  BY LowerOfOctets
<1>3. Lowers(s) \in [1..Len(s) -> Octets]
  BY <1>1, <1>2 DEF Lowers
<1>4. Lowers(s) \in Seq(Octets) /\ Len(Lowers(s)) = Len(s)
  BY <1>1, <1>3, FunctionSeq
<1>5. ToLower(s) = FlattenSeq(Lowers(s))
  BY DEF ToLower, Lowers, LowerOf
<1> QED
  BY <1>1, <1>4, <1>5 DEF Lowers

LEMMA KeptLower ==
    ASSUME NEW t \in Octets, NEW j \in 1..Len(t), Kept(t, j)
    PROVE  LowerOf(t, j) = << t[j] >>
  BY DEF Kept, LowerOf

LEMMA Singles ==
    ASSUME NEW t \in Octets, \A j \in 1..Len(t) : Kept(t, j)
    PROVE  ToLower(t) = t
<1> DEFINE Up(n) == SubSeq(Lowers(t), 1, n)
           G == {n \in Nat : n <= Len(t) => FlattenSeq(Up(n)) = SubSeq(t, 1, n)}
<1>1. /\ Lowers(t) \in Seq(Octets) /\ Len(Lowers(t)) = Len(t) /\ Len(t) \in Nat
      /\ \A i \in 1..Len(t) : Lowers(t)[i] = LowerOf(t, i)
      /\ ToLower(t) = FlattenSeq(Lowers(t))
  BY LowersAre
<1>2. 0 \in G
  <2>1. Up(0) = << >> /\ SubSeq(t, 1, 0) = << >>
    BY <1>1
  <2>2. FlattenSeq(Up(0)) = SubSeq(t, 1, 0)
    BY <2>1, FlattenEmpty
  <2> QED
    BY <2>2
<1>3. ASSUME NEW n \in Nat, n \in G PROVE n + 1 \in G
  <2> DEFINE k == n + 1
  <2> SUFFICES ASSUME k <= Len(t) PROVE FlattenSeq(Up(k)) = SubSeq(t, 1, k)
    OBVIOUS
  <2>1. k \in 1..Len(t) /\ k - 1 = n /\ k \in 1..Len(Lowers(t)) /\ n <= Len(t)
    BY <1>1
  <2>2. FlattenSeq(Up(n)) = SubSeq(t, 1, n)
    BY <1>3, <2>1
  <2> HIDE DEF k
  <2>3. FlattenSeq(SubSeq(Lowers(t), 1, k)) = FlattenSeq(SubSeq(Lowers(t), 1, k - 1)) \o Lowers(t)[k]
    BY <2>1, <1>1, FlattenAround
  <2>4. Lowers(t)[k] = << t[k] >>
    BY <2>1, <1>1, KeptLower
  <2>5. SubSeq(t, 1, k) = SubSeq(t, 1, n) \o << t[k] >>
    BY <2>1, <1>1 DEF Octets
  <2> QED
    BY <2>1, <2>2, <2>3, <2>4, <2>5
<1>4. Len(t) \in G
  <2> HIDE DEF G
  <2>1. \A n \in Nat : n \in G
    BY <1>2, <1>3, Induction
  <2> QED
    BY <1>1, <2>1
<1>5. Up(Len(t)) = Lowers(t) /\ SubSeq(t, 1, Len(t)) = t
  BY <1>1 DEF Octets
<1>6. FlattenSeq(Up(Len(t))) = SubSeq(t, 1, Len(t))
  BY <1>1, <1>4
<1>7. FlattenSeq(Lowers(t)) = t
  <2> HIDE DEF Up
  <2> QED
    BY <1>5, <1>6
<1> QED
  BY <1>1, <1>7


\* Three octets of a rune stay together.
LEMMA RuneStays ==
    ASSUME NEW s \in Octets, NEW i \in 1..Len(s), s[i] > 127, InRune(s, i)
    PROVE  \E k \in 1..Len(s) :
             /\ k + 2 \in 1..Len(s) /\ k <= i /\ i <= k + 2
             /\ \A h \in k..(k + 2) : LowerOf(s, h) = << RuneError[h - k + 1] >>
<1>1. /\ Len(s) \in Nat /\ 1 \in Int /\ i - 2 \in Int /\ i \in Int /\ Len(s) - 2 \in Int
  BY OctetsLen
<1>2. PICK k \in Max({1, i - 2})..Min({i, Len(s) - 2}) : SubSeq(s, k, k + 2) = RuneError
  BY DEF InRune
<1>3. /\ k \in Nat /\ 1 <= k /\ i - 2 <= k /\ k <= i /\ k <= Len(s) - 2
  <2>1. /\ Max({1, i - 2}) \in Int /\ Max({1, i - 2}) \in {1, i - 2}
        /\ Min({i, Len(s) - 2}) \in Int /\ Min({i, Len(s) - 2}) \in {i, Len(s) - 2}
    BY <1>1, LargeOf, LeastOf
  <2>2. /\ Max({1, i - 2}) >= 1 /\ Max({1, i - 2}) >= i - 2
        /\ Min({i, Len(s) - 2}) <= i /\ Min({i, Len(s) - 2}) <= Len(s) - 2
    BY <1>1, BoundsOf
  <2> QED
    BY <1>1, <1>2, <2>1, <2>2
<1>4. k \in 1..Len(s) /\ k + 2 \in 1..Len(s) /\ i <= k + 2
  BY <1>1, <1>3
<1>5. ASSUME NEW h \in k..(k + 2) PROVE LowerOf(s, h) = << RuneError[h - k + 1] >>
  <2> DEFINE e == RuneError[h - k + 1]
  <2>1. h \in 1..Len(s) /\ h - k + 1 \in 1..3
    BY <1>1, <1>3
  <2>2. s[h] = e
    <3> DEFINE to == k + 2
               g == h - k + 1
    <3>1. k \in Nat \ {0} /\ to \in Nat /\ to <= Len(s) /\ g \in 1..(to - k + 1) /\ k + g - 1 = h
      BY <1>1, <1>3, <2>1
    <3> HIDE DEF to, g
    <3>2. SubSeq(s, k, to)[g] = s[k + g - 1]
      BY <3>1, PartOctets
    <3>3. SubSeq(s, k, to) = RuneError
      BY <1>2 DEF to
    <3> QED
      BY <3>1, <3>2, <3>3 DEF g
  <2>3. e \in {239, 191, 189}
    <3>1. h - k + 1 = 1 \/ h - k + 1 = 2 \/ h - k + 1 = 3
      BY <2>1
    <3> QED
      BY <3>1, RuneIs
  <2> HIDE DEF e
  <2>4. s[h] \notin 65..90 /\ s[h] > 127
    BY <2>2, <2>3
  <2>5. InRune(s, h)
    <3>1. /\ h \in Int /\ h - 2 \in Int
      BY <1>3
    <3>2. Max({1, h - 2}) \in {1, h - 2} /\ Min({h, Len(s) - 2}) \in {h, Len(s) - 2}
      BY <3>1, <1>1, LargeOf, LeastOf
    <3>3. k \in Max({1, h - 2})..Min({h, Len(s) - 2})
      BY <3>2, <1>1, <1>3
    <3> QED
      BY <3>3, <1>2 DEF InRune
  <2>6. LowerOf(s, h) = << s[h] >>
    BY <2>4, <2>5 DEF LowerOf
  <2> QED
    BY <2>2, <2>6 DEF e
<1> QED
  BY <1>3, <1>4, <1>5


\* One octet beyond x.
LEMMA OctetBeyond ==
    ASSUME NEW x \in Octets, NEW e \in Byte, NEW y \in Octets, NEW t,
           t = (x \o << e >>) \o y
    PROVE  x \o << e >> \in Octets /\ Len(x \o << e >>) = Len(x) + 1 /\ t[Len(x) + 1] = e
<1>1. << e >> \in Octets /\ Len(<< e >>) = 1 /\ << e >>[1] = e
  BY OneElement DEF Octets
<1>2. Joined(x, << e >>, x \o << e >>) /\ x \o << e >> \in Octets
  BY <1>1, JoinedOctets, JoinOctets
<1>3. Joined(x \o << e >>, y, t)
  BY <1>2, JoinedOctets
<1>4. Len(x) \in Nat /\ Len(x \o << e >>) = Len(x) + 1
  BY <1>1, <1>2, OctetsLen DEF Joined
<1> DEFINE n == Len(x)
           u == x \o << e >>
<1>5. u[1 + n] = e
  <2>1. 1 \in 1..Len(<< e >>)
    BY <1>1
  <2>2. u[1 + n] = << e >>[1]
    BY <2>1, <1>2 DEF Joined
  <2> QED
    BY <2>2, <1>1
<1>6. t[n + 1] = u[n + 1]
  <2>1. n + 1 \in 1..Len(u)
    BY <1>4
  <2> QED
    BY <2>1, <1>3 DEF Joined
<1>7. 1 + n = n + 1
  BY <1>4
<1> QED
  BY <1>2, <1>4, <1>5, <1>6, <1>7

LEMMA AfterThree ==
    ASSUME NEW x \in Octets
    PROVE  /\ ((x \o << RuneError[1] >>) \o << RuneError[2] >>) \o << RuneError[3] >> =
                x \o RuneError
           /\ Len(x \o << RuneError[1] >>) = Len(x) + 1
           /\ Len((x \o << RuneError[1] >>) \o << RuneError[2] >>) = Len(x) + 2
           /\ Len(x \o RuneError) = Len(x) + 3
<1> DEFINE a == << RuneError[1] >>
           b == << RuneError[2] >>
           c == << RuneError[3] >>
<1>1. /\ a \in Octets /\ b \in Octets /\ c \in Octets /\ RuneError \in Octets
      /\ Len(a) = 1 /\ Len(b) = 1 /\ Len(RuneError) = 3
  <2>1. 239 \in Byte /\ 191 \in Byte /\ 189 \in Byte
    BY DEF Byte
  <2> QED
    BY <2>1, RuneIs, OneElement DEF Octets
<1>2. a \o (b \o c) = RuneError
  <2>1. a = << 239 >> /\ b = << 191 >> /\ c = << 189 >>
    BY RuneIs
  <2> DEFINE w == a \o b
             z == w \o c
  <2>2. a[1] = 239 /\ b[1] = 191 /\ c[1] = 189 /\ Len(c) = 1
    BY <2>1
  <2> HIDE DEF a, b, c
  <2>3. w \in Octets /\ Joined(a, b, w)
    BY <1>1, JoinOctets, JoinedOctets
  <2> HIDE DEF w
  <2>4. z \in Octets /\ Joined(w, c, z)
    BY <1>1, <2>3, JoinOctets, JoinedOctets
  <2> HIDE DEF z
  <2>5. Len(w) = 2 /\ Len(z) = 3
    BY <1>1, <2>2, <2>3, <2>4 DEF Joined
  <2>6. w[1] = 239 /\ w[2] = 191
    BY <1>1, <2>2, <2>3 DEF Joined
  <2>7. z[1] = 239 /\ z[2] = 191
    BY <2>4, <2>5, <2>6 DEF Joined
  <2>8. z[3] = 189
    <3>1. 1 \in 1..Len(c) /\ 1 + Len(w) = 3
      BY <2>2, <2>5
    <3>2. z[1 + Len(w)] = c[1]
      BY <2>4, <3>1 DEF Joined
    <3> QED
      BY <3>1, <3>2, <2>2
  <2>9. z = << 239, 191, 189 >>
    BY <2>4, <2>5, <2>7, <2>8, ThreeAre
  <2>10. w \o c = a \o (b \o c)
    <3>1. Grouped(a, b, c)
      BY <1>1, Groups
    <3> QED
      BY <3>1 DEF Grouped, w
  <2> QED
    BY <2>9, <2>10 DEF RuneError, z
<1> HIDE DEF a, b, c
<1> DEFINE u == x \o a
           v == b \o c
<1>3. u \in Octets /\ v \in Octets
  BY <1>1, JoinOctets
<1>4. (u \o b) \o c = x \o RuneError
  <2>1. u \o v = x \o (a \o v)
    BY <1>1, <1>3, Regroup
  <2> HIDE DEF u, v
  <2>2. u \in Octets /\ b \in Octets /\ c \in Octets
    BY <1>1, <1>3
  <2>3. (u \o b) \o c = u \o (b \o c)
    BY <2>2, Regroup
  <2>4. (u \o b) \o c = u \o v
    BY <2>3 DEF v
  <2> QED
    BY <2>1, <2>4, <1>2 DEF v
<1>5. Len(u) = Len(x) + 1 /\ Len(x \o RuneError) = Len(x) + 3 /\ Len(x) \in Nat
  <2>1. Joined(x, a, u) /\ Joined(x, RuneError, x \o RuneError)
    BY <1>1, JoinedOctets
  <2>2. Len(u) = Len(x) + Len(a) /\ Len(x \o RuneError) = Len(x) + Len(RuneError)
    BY <2>1 DEF Joined
  <2> QED
    BY <2>2, <1>1, OctetsLen
<1>6. Len(u \o b) = Len(x) + 2
  <2> HIDE DEF u
  <2>1. Joined(u, b, u \o b)
    BY <1>1, <1>3, JoinedOctets
  <2> QED
    BY <2>1, <1>1, <1>5 DEF Joined
<1> QED
  BY <1>4, <1>5, <1>6 DEF a, b, c

LEMMA UpperLowers ==
    ASSUME NEW s, NEW i, s[i] \in 65..90 PROVE LowerOf(s, i) = << s[i] + 32 >>
<1>1. ~ (s[i] > 127)
  OBVIOUS
<1> QED
  BY <1>1, Zenon DEF LowerOf

LEMMA LowerKept ==
    ASSUME NEW s \in Octets, NEW j \in 1..Len(ToLower(s))
    PROVE  Kept(ToLower(s), j)
<1> DEFINE ss == Lowers(s)
           t == ToLower(s)
           Up(n) == FlattenSeq(SubSeq(ss, 1, n))
           Down(n) == FlattenSeq(SubSeq(ss, n + 1, Len(ss)))
<1>1. /\ ss \in Seq(Octets) /\ Len(ss) = Len(s) /\ Len(s) \in Nat
      /\ \A i \in 1..Len(s) : ss[i] = LowerOf(s, i)
      /\ t = FlattenSeq(ss)
  BY LowersAre
<1> HIDE DEF ss
<1>2. \A i \in 1..Len(s) :
        /\ Up(i - 1) \in Octets /\ Up(i) = Up(i - 1) \o LowerOf(s, i)
        /\ Down(i) \in Octets /\ t = Up(i) \o Down(i)
  BY <1>1, FlattenAround
<1>3. PICK i \in 1..Len(s) : Len(Up(i - 1)) < j /\ j <= Len(Up(i))
  BY <1>1, FlattenWhere
<1>4. /\ Up(i - 1) \in Octets /\ Up(i) = Up(i - 1) \o LowerOf(s, i)
      /\ Down(i) \in Octets /\ t = Up(i) \o Down(i) /\ i \in Nat /\ s[i] \in Byte
  <2>1. s[i] \in Byte
    BY OctetAt DEF Byte
  <2> HIDE DEF t, Up, Down
  <2> QED
    BY <1>1, <1>2, <2>1
<1>5. Len(Up(i - 1)) \in Nat /\ j \in Nat
  BY <1>4, OctetsLen, ToLowerOctets
<1>6. ASSUME NEW e \in Byte, LowerOf(s, i) = << e >>, e \notin 65..90, e <= 127
      PROVE Kept(t, j)
  <2> DEFINE x == Up(i - 1)
             y == Down(i)
  <2>1. x \in Octets /\ y \in Octets /\ t = (x \o << e >>) \o y /\ Up(i) = x \o << e >>
        /\ Len(x) < j /\ j <= Len(Up(i))
    BY <1>3, <1>4, <1>6
  <2> HIDE DEF x, y, t, Up
  <2>2. Len(Up(i)) = Len(x) + 1 /\ t[Len(x) + 1] = e /\ Len(x) \in Nat
    BY <2>1, OctetBeyond, OctetsLen
  <2>3. j = Len(x) + 1
    BY <2>1, <2>2, <1>5
  <2>4. t[j] = e /\ ~ (e > 127)
    BY <2>2, <2>3, <1>6 DEF Byte
  <2> QED
    BY <2>4, <1>6 DEF Kept
<1>7. CASE s[i] \in 65..90
  <2>1. LowerOf(s, i) = << s[i] + 32 >>
    BY <1>7, UpperLowers
  <2>2. s[i] + 32 \in Byte /\ s[i] + 32 \notin 65..90 /\ s[i] + 32 <= 127
    <3> DEFINE e == s[i]
    <3>1. e \in 65..90
      BY <1>7
    <3> HIDE DEF e
    <3>2. e + 32 \in Byte /\ e + 32 \notin 65..90 /\ e + 32 <= 127
      BY <3>1 DEF Byte
    <3> QED
      BY <3>2 DEF e
  <2> QED
    BY <2>1, <2>2, <1>6
<1>8. CASE s[i] \notin 65..90 /\ s[i] > 127 /\ ~ InRune(s, i)
  <2>1. LowerOf(s, i) = RuneError
    BY <1>8 DEF LowerOf
  <2> DEFINE x == Up(i - 1)
             y == Down(i)
  <2>2. x \in Octets /\ y \in Octets /\ t = (x \o RuneError) \o y /\ Len(x) < j
        /\ j <= Len(x \o RuneError)
    BY <1>3, <1>4, <2>1
  <2> HIDE DEF x, y, t, Up
  <2>3. j <= Len(x) + 3
    BY <2>2, AfterThree
  <2>4. j \in Nat
    BY <1>5
  <2>5. Kept(t, j)
    BY <2>2, <2>3, <2>4, RuneAt
  <2> QED
    BY <2>5 DEF t
<1>9. CASE s[i] \notin 65..90 /\ ~ (s[i] > 127)
  <2>1. LowerOf(s, i) = << s[i] >>
    BY <1>9 DEF LowerOf
  <2>2. s[i] <= 127
    <3> DEFINE e == s[i]
    <3>1. e \in Byte /\ ~ (e > 127)
      BY <1>4, <1>9
    <3> HIDE DEF e
    <3>2. e <= 127
      BY <3>1 DEF Byte
    <3> QED
      BY <3>2 DEF e
  <2> QED
    BY <2>1, <2>2, <1>4, <1>6, <1>9
<1>10. CASE s[i] > 127 /\ InRune(s, i)
  <2>1. PICK k \in 1..Len(s) :
          /\ k + 2 \in 1..Len(s) /\ k <= i /\ i <= k + 2
          /\ \A h \in k..(k + 2) : LowerOf(s, h) = << RuneError[h - k + 1] >>
    BY <1>10, RuneStays
  <2> DEFINE x == Up(k - 1)
             y == Down(k + 2)
  <2>2. /\ k \in Nat /\ k + 1 \in 1..Len(s) /\ k \in k..(k + 2)
        /\ k + 1 \in k..(k + 2) /\ k + 2 \in k..(k + 2)
        /\ k - k + 1 = 1 /\ k + 1 - k + 1 = 2 /\ k + 2 - k + 1 = 3
        /\ k + 1 - 1 = k /\ k + 2 - 1 = k + 1
    BY <1>1, <2>1
  <2>3. /\ LowerOf(s, k) = << RuneError[1] >> /\ LowerOf(s, k + 1) = << RuneError[2] >>
        /\ LowerOf(s, k + 2) = << RuneError[3] >>
    BY <2>1, <2>2
  <2>4. /\ x \in Octets /\ y \in Octets /\ t = Up(k + 2) \o y
        /\ Up(k) = x \o << RuneError[1] >>
        /\ Up(k + 1) = Up(k) \o << RuneError[2] >>
        /\ Up(k + 2) = Up(k + 1) \o << RuneError[3] >>
    <3> HIDE DEF t, Up, Down
    <3>1. t = Up(k + 2) \o Down(k + 2) /\ x \in Octets /\ y \in Octets
      BY <2>1, <1>2
    <3>2. Up(k) = x \o LowerOf(s, k)
      BY <2>1, <1>2
    <3>3. Up(k + 1) = Up(k + 1 - 1) \o LowerOf(s, k + 1)
      BY <2>2, <1>2
    <3>4. Up(k + 2) = Up(k + 2 - 1) \o LowerOf(s, k + 2)
      <4> DEFINE h == k + 2
      <4>1. h \in 1..Len(s)
        BY <2>1
      <4> HIDE DEF h
      <4>2. Up(h) = Up(h - 1) \o LowerOf(s, h)
        BY <4>1, <1>2
      <4> QED
        BY <4>2 DEF h
    <3> QED
      BY <2>2, <2>3, <3>1, <3>2, <3>3, <3>4
  <2>5. i = k \/ i = k + 1 \/ i = k + 2
    BY <1>1, <2>1
  <2>6. /\ i = k => i - 1 = k - 1
        /\ i = k + 1 => i - 1 = k
        /\ i = k + 2 => i - 1 = k + 1
    BY <2>2
  <2>7. \/ i = k /\ Len(x) < j /\ j <= Len(Up(k))
        \/ i = k + 1 /\ Len(Up(k)) < j /\ j <= Len(Up(k + 1))
        \/ i = k + 2 /\ Len(Up(k + 1)) < j /\ j <= Len(Up(k + 2))
    BY <2>5, <2>6, <1>3
  <2> HIDE DEF x, y, t, Up
  <2>8. /\ Up(k + 2) = x \o RuneError /\ Len(Up(k)) = Len(x) + 1
        /\ Len(Up(k + 1)) = Len(x) + 2 /\ Len(Up(k + 2)) = Len(x) + 3
    <3>1. /\ Up(k) = x \o << RuneError[1] >>
          /\ Up(k + 1) = (x \o << RuneError[1] >>) \o << RuneError[2] >>
          /\ Up(k + 2) = ((x \o << RuneError[1] >>) \o << RuneError[2] >>) \o << RuneError[3] >>
      BY <2>4
    <3>2. x \in Octets
      BY <2>4
    <3>3. /\ ((x \o << RuneError[1] >>) \o << RuneError[2] >>) \o << RuneError[3] >> = x \o RuneError
          /\ Len(x \o << RuneError[1] >>) = Len(x) + 1
          /\ Len((x \o << RuneError[1] >>) \o << RuneError[2] >>) = Len(x) + 2
          /\ Len(x \o RuneError) = Len(x) + 3
      BY <3>2, AfterThree
    <3> QED
      BY <3>1, <3>3, Zenon
  <2>9. Len(x) < j /\ j <= Len(x) + 3
    <3>1. Len(x) \in Nat
      BY <2>4, OctetsLen
    <3> QED
      BY <3>1, <2>7, <2>8, <1>5
  <2>10. j \in Nat
    BY <1>5
  <2>11. Kept(t, j)
    BY <2>4, <2>8, <2>9, <2>10, RuneAt
  <2> QED
    BY <2>11 DEF t
<1> QED
  BY <1>7, <1>8, <1>9, <1>10

LEMMA LowerStable ==
    ASSUME NEW s \in Octets PROVE ToLower(ToLower(s)) = ToLower(s)
  BY ToLowerOctets, LowerKept, Singles

(***************************************************************************)
(* What Decode returns is a message, its names in lower case.              *)
(***************************************************************************)
LEMMA HeaderType ==
    ASSUME NEW id \in Word16, NEW f \in Word16
    PROVE  HeaderFromFlags(id, f) \in DnsHeader
<1>1. f \in Nat
  BY WordNat
<1>2. (f \div 2048) % 16 \in 0..15 /\ f % 16 \in 0..15
  BY <1>1
<1> QED
  BY <1>2 DEF HeaderFromFlags, DnsHeader

LEMMA NameLow ==
    ASSUME NEW b \in Octets, NEW p \in Nat, GoodName(b, p)
    PROVE  /\ NameOf(b, p) \in Octets /\ ToLower(NameOf(b, p)) = NameOf(b, p)
           /\ NameEnd(b, p) \in Nat /\ NameEnd(b, p) <= Len(b) /\ p < NameEnd(b, p)
<1>1. p \in 0..Len(b)
  BY OctetsLen DEF GoodName
<1>2. Walk(b, p).labels \in Seq(Octets)
  BY <1>1, WalkEnding DEF Walked, WalkState
<1>3. Join(Walk(b, p).labels) \in Octets
  BY <1>2, JoinLabelsOctets
<1> QED
  BY <1>3, LowerStable, NameType DEF NameOf

LEMMA LongType ==
    ASSUME NEW b \in Octets, NEW p \in Nat, p + 4 <= Len(b)
    PROVE  LongAt(b, p) \in Word32
<1> DEFINE n == Len(b)
           from == p + 1
           to == p + 4
           u == SubSeq(b, from, to)
           v == SubSeq(u, 3, 4)
<1>1. n \in Nat /\ from \in Nat \ {0} /\ to \in Nat /\ to <= Len(b) /\ from <= to /\ to - from + 1 = 4
  BY OctetsLen
<1>2. WordAt(b, p) \in Word16
  <2>1. p + 2 <= Len(b)
    BY <1>1
  <2> QED
    BY <2>1, WordType
<1> HIDE DEF from, to, n
<1>3. u \in Octets /\ Len(u) = 4
  BY <1>1, PartOctets
<1> HIDE DEF u
<1>4. v \in Octets /\ Len(v) = 2
  <2> DEFINE x == 3
             y == 4
  <2>1. x \in Nat \ {0} /\ y \in Nat /\ y <= Len(u) /\ x <= y /\ y - x + 1 = 2
    BY <1>3
  <2> HIDE DEF x, y
  <2>2. SubSeq(u, x, y) \in Octets /\ Len(SubSeq(u, x, y)) = 2
    BY <1>3, <2>1, PartOctets
  <2> QED
    BY <2>2 DEF x, y
<1> HIDE DEF v
<1>5. v[1] \in Byte /\ v[2] \in Byte
  <2>1. 1 \in 1..Len(v) /\ 2 \in 1..Len(v)
    BY <1>4
  <2>2. v[1] \in 0..255 /\ v[2] \in 0..255
    BY <1>4, <2>1, OctetAt
  <2> QED
    BY <2>2 DEF Byte
<1>6. Word(v) \in Word16
  BY <1>5, TwoOctets DEF Word
<1>7. LongAt(b, p) = << WordAt(b, p), Word(v) >>
  BY DEF LongAt, v, u, from, to
<1> QED
  BY <1>2, <1>6, <1>7 DEF Word32

LEMMA QuestionTyped ==
    ASSUME NEW b \in Octets, NEW p \in Nat, QuestionEnd(b, p) <= Len(b)
    PROVE  QuestionAt(b, p) \in DnsQuestion /\ LowerQuestion(QuestionAt(b, p)) = QuestionAt(b, p)
<1> DEFINE e == NameEnd(b, p)
           n == Len(b)
<1>1. e \in Nat /\ n \in Nat /\ e + 4 <= n
  BY NameType, OctetsLen DEF QuestionEnd
<1>2. GoodName(b, p)
  <2>1. e <= n
    <3> HIDE DEF e, n
    <3> QED
      BY <1>1
  <2> QED
    BY <2>1, NameType
<1>3. NameOf(b, p) \in Octets /\ ToLower(NameOf(b, p)) = NameOf(b, p)
  BY <1>2, NameLow
<1>4. WordAt(b, e) \in Word16 /\ WordAt(b, e + 2) \in Word16
  <2> HIDE DEF e
  <2>1. e + 2 \in Nat /\ e + 2 <= Len(b) /\ e + 2 + 2 <= Len(b)
    BY <1>1
  <2> QED
    BY <1>1, <2>1, WordType
<1>5. QuestionAt(b, p) =
        [name |-> NameOf(b, p), type |-> WordAt(b, e), class |-> WordAt(b, e + 2)]
  BY DEF QuestionAt
<1> HIDE DEF e
<1> QED
  BY <1>3, <1>4, <1>5 DEF DnsQuestion, LowerQuestion


TearState == [pos : Nat, ok : BOOLEAN, strings : Seq(Octets)]

TornOff(t, q, s) == [t EXCEPT !.pos = q, !.strings = Append(@, s)]

LEMMA TornOffIs ==
    ASSUME NEW t \in TearState, NEW q \in Nat, NEW s \in Octets
    PROVE  TornOff(t, q, s) \in TearState /\ TornOff(t, q, s).pos = q
<1>1. Append(t.strings, s) \in Seq(Octets)
  BY AppendProperties DEF TearState
<1> QED
  BY <1>1 DEF TearState, TornOff

LEMMA TearOneTyped ==
    ASSUME NEW b \in Octets, NEW t \in TearState, t.pos <= Len(b)
    PROVE  TearOne(b, t) \in TearState /\ TearOne(b, t).pos <= Len(b)
<1> DEFINE p == t.pos
           l == b[p + 1]
<1>1. p \in Nat /\ Len(b) \in Nat /\ p <= Len(b)
  BY OctetsLen DEF TearState
<1>2. CASE ~ t.ok \/ p = Len(b)
  BY <1>2 DEF TearOne
<1>3. CASE t.ok /\ p # Len(b) /\ p + 1 + l > Len(b)
  <2>1. TearOne(b, t) = [t EXCEPT !.ok = FALSE]
    BY <1>3 DEF TearOne
  <2> QED
    BY <2>1 DEF TearState
<1>4. CASE t.ok /\ p # Len(b) /\ ~ (p + 1 + l > Len(b))
  <2> DEFINE from == p + 2
             to == p + 1 + l
  <2>1. l \in 0..255 /\ l \in Nat
    <3>1. p + 1 \in 1..Len(b)
      BY <1>1, <1>4
    <3> QED
      BY <3>1, OctetAt
  <2>2. TearOne(b, t) = TornOff(t, p + 1 + l, SubSeq(b, from, to))
    BY <1>4 DEF TearOne, TornOff
  <2> HIDE DEF l, p
  <2>3. from \in Nat \ {0} /\ to \in Nat /\ to <= Len(b)
    BY <2>1, <1>1, <1>4
  <2> HIDE DEF from
  <2>4. SubSeq(b, from, to) \in Octets
    BY <2>3, PartOctets
  <2> DEFINE x == SubSeq(b, from, to)
  <2>5. TearOne(b, t) = TornOff(t, to, x)
    BY <2>2
  <2>6. x \in Octets
    BY <2>4
  <2> HIDE DEF to, x
  <2>7. TornOff(t, to, x) \in TearState /\ TornOff(t, to, x).pos = to
    BY <2>3, <2>6, TornOffIs
  <2> QED
    BY <2>3, <2>5, <2>7
<1> QED
  BY <1>2, <1>3, <1>4

TornWithin(f, b, i) == f[i] \in TearState /\ f[i].pos <= Len(b)

LEMMA TearTyped ==
    ASSUME NEW b \in Octets PROVE Tear(b).strings \in Seq(Octets)
<1>1. Len(b) \in Nat
  BY OctetsLen
<1>2. PICK f : TearRun(f, b, Len(b)) /\ Tear(b) = f[Len(b)]
  BY <1>1, TearRunIs
<1> DEFINE n == Len(b)
           G == {i \in Nat : i <= n => TornWithin(f, b, i)}
<1> HIDE DEF n
<1>3. n \in Nat /\ TearRun(f, b, n)
  BY <1>1, <1>2 DEF n
<1>4. 0 \in G
  <2> DEFINE z == 0
  <2>1. z \in 0..n /\ z = 0
    BY <1>3
  <2> HIDE DEF z
  <2>2. f[z] = Torn(0, << >>)
    BY <1>3, <2>1, TearRunAt
  <2>3. << >> \in Seq(Octets)
    BY EmptySeq
  <2>4. Torn(0, << >>) \in TearState /\ Torn(0, << >>).pos <= Len(b)
    BY <2>3, <1>1 DEF TearState, Torn
  <2>5. TornWithin(f, b, z)
    BY <2>2, <2>4 DEF TornWithin
  <2> QED
    BY <2>1, <2>5
<1>5. ASSUME NEW k \in Nat, k \in G PROVE k + 1 \in G
  <2> DEFINE j == k + 1
  <2> SUFFICES ASSUME j <= n PROVE TornWithin(f, b, j)
    OBVIOUS
  <2>1. j \in 0..n /\ j # 0 /\ j - 1 = k /\ TornWithin(f, b, k)
    BY <1>3, <1>5
  <2> HIDE DEF j
  <2>2. f[j] = TearOne(b, f[k])
    BY <1>3, <2>1, TearRunAt
  <2>3. TearOne(b, f[k]) \in TearState /\ TearOne(b, f[k]).pos <= Len(b)
    BY <2>1, TearOneTyped DEF TornWithin
  <2> QED
    BY <2>2, <2>3 DEF TornWithin
<1>6. n \in G
  <2> HIDE DEF G
  <2>1. \A i \in Nat : i \in G
    BY <1>4, <1>5, Induction
  <2> QED
    BY <1>3, <2>1
<1>7. TornWithin(f, b, n)
  BY <1>3, <1>6
<1> QED
  BY <1>2, <1>7 DEF TornWithin, TearState, n


LEMMA FitKinds ==
    /\ \A x \in Octets : Addressed("A", x) \in DnsData /\ Addressed("A", x).kind = "A"
    /\ \A x \in Octets : Addressed("AAAA", x) \in DnsData /\ Addressed("AAAA", x).kind = "AAAA"
    /\ \A x \in Seq(Octets) : Texted(x) \in DnsData /\ Texted(x).kind = "TXT"
    /\ \A x \in Octets : Hosted("NS", x) \in DnsData /\ Hosted("NS", x).kind = "NS"
    /\ \A x \in Octets : Hosted("CNAME", x) \in DnsData /\ Hosted("CNAME", x).kind = "CNAME"
    /\ \A x \in Octets : RawData(x) \in DnsData /\ RawData(x).kind = "raw"
  BY DEF DnsData, Addressed, Texted, Hosted, RawData

LEMMA FitZone ==
    ASSUME NEW x \in Octets, NEW y \in Octets, NEW v \in [1..5 -> Word32]
    PROVE  Zoned(x, y, v) \in DnsData /\ Zoned(x, y, v).kind = "SOA"
  BY DEF DnsData, Zoned

LEMMA LowKinds ==
    /\ \A x : LowerData(Addressed("A", x)) = Addressed("A", x)
    /\ \A x : LowerData(Addressed("AAAA", x)) = Addressed("AAAA", x)
    /\ \A x : LowerData(Texted(x)) = Texted(x)
    /\ \A x : LowerData(RawData(x)) = RawData(x)
    /\ \A x : ToLower(x) = x => LowerData(Hosted("NS", x)) = Hosted("NS", x)
    /\ \A x : ToLower(x) = x => LowerData(Hosted("CNAME", x)) = Hosted("CNAME", x)
    /\ \A x, y, v : ToLower(x) = x /\ ToLower(y) = y => LowerData(Zoned(x, y, v)) = Zoned(x, y, v)
  BY DEF LowerData, Addressed, Texted, Hosted, RawData, Zoned

LEMMA SoaTyped ==
    ASSUME NEW b \in Octets, NEW p \in Nat, SoaEnd(b, p) <= Len(b)
    PROVE  /\ SoaAt(b, p) \in DnsData /\ SoaAt(b, p).kind = "SOA"
           /\ LowerData(SoaAt(b, p)) = SoaAt(b, p)
<1> DEFINE r == SoaSecond(b, p)
           u == SoaNumbers(b, p)
           n == Len(b)
<1>1. n \in Nat /\ r \in Nat /\ u \in Nat /\ u + 20 <= n
  BY NameType, OctetsLen DEF SoaSecond, SoaNumbers, SoaEnd
<1>2. GoodName(b, r)
  <2>1. u = NameEnd(b, r) /\ NameEnd(b, r) <= Len(b) <=> GoodName(b, r)
    BY <1>1, NameType DEF SoaNumbers
  <2>2. u <= Len(b)
    <3> HIDE DEF u
    <3> QED
      BY <1>1
  <2> QED
    BY <2>1, <2>2 DEF SoaNumbers
<1>3. GoodName(b, p)
  <2>1. r <= Len(b)
    BY <1>2 DEF GoodName
  <2> QED
    BY <2>1, NameType DEF SoaSecond
<1>4. /\ NameOf(b, p) \in Octets /\ ToLower(NameOf(b, p)) = NameOf(b, p)
      /\ NameOf(b, r) \in Octets /\ ToLower(NameOf(b, r)) = NameOf(b, r)
  <2> HIDE DEF r
  <2> QED
    BY <1>1, <1>2, <1>3, NameLow
<1>5. SoaVals(b, u) \in [1..5 -> Word32]
  <2> HIDE DEF u
  <2>1. /\ u + 4 \in Nat /\ u + 8 \in Nat /\ u + 12 \in Nat /\ u + 16 \in Nat
        /\ u + 4 <= Len(b) /\ u + 4 + 4 <= Len(b) /\ u + 8 + 4 <= Len(b)
        /\ u + 12 + 4 <= Len(b) /\ u + 16 + 4 <= Len(b)
    BY <1>1
  <2>2. /\ LongAt(b, u) \in Word32 /\ LongAt(b, u + 4) \in Word32 /\ LongAt(b, u + 8) \in Word32
        /\ LongAt(b, u + 12) \in Word32 /\ LongAt(b, u + 16) \in Word32
    BY <1>1, <2>1, LongType
  <2> QED
    BY <2>2 DEF SoaVals
<1>6. SoaAt(b, p) = Zoned(NameOf(b, p), NameOf(b, r), SoaVals(b, u))
  BY DEF SoaAt, Zoned
<1> HIDE DEF r, u
<1> QED
  BY <1>4, <1>5, <1>6, FitZone, LowKinds

DataFits(d, type) == d \in DnsData /\ d.kind = KindOf(type) /\ LowerData(d) = d

LEMMA KindsAre ==
    ASSUME NEW type
    PROVE  KindOf(type) \in {"A", "AAAA", "TXT", "NS", "CNAME", "SOA", "raw"}
  BY DEF KindOf

LEMMA DataTyped ==
    ASSUME NEW b \in Octets, NEW p \in Nat, NEW type, NEW x \in Octets, GoodData(type, x, b, p)
    PROVE  DataFits(DataAt(type, x, b, p), type)
<1>1. CASE KindOf(type) = "A"
  BY <1>1, ShortIs, FitKinds, LowKinds DEF DataFits
<1>2. CASE KindOf(type) = "AAAA"
  BY <1>2, LongIs, FitKinds, LowKinds DEF DataFits
<1>3. CASE KindOf(type) = "TXT"
  <2>1. DataAt(type, x, b, p) = Texted(Tear(x).strings)
    BY <1>3, TextIs
  <2>2. Tear(x).strings \in Seq(Octets)
    BY TearTyped
  <2> QED
    BY <1>3, <2>1, <2>2, FitKinds, LowKinds DEF DataFits
<1>4. CASE KindOf(type) = "NS"
  <2>1. GoodName(b, p) /\ DataAt(type, x, b, p) = Hosted("NS", NameOf(b, p))
    BY <1>4, ServerIs
  <2>2. NameOf(b, p) \in Octets /\ ToLower(NameOf(b, p)) = NameOf(b, p)
    BY <2>1, NameLow
  <2> QED
    BY <1>4, <2>1, <2>2, FitKinds, LowKinds DEF DataFits
<1>5. CASE KindOf(type) = "CNAME"
  <2>1. GoodName(b, p) /\ DataAt(type, x, b, p) = Hosted("CNAME", NameOf(b, p))
    BY <1>5, AliasIs
  <2>2. NameOf(b, p) \in Octets /\ ToLower(NameOf(b, p)) = NameOf(b, p)
    BY <2>1, NameLow
  <2> QED
    BY <1>5, <2>1, <2>2, FitKinds, LowKinds DEF DataFits
<1>6. CASE KindOf(type) = "SOA"
  <2>1. SoaEnd(b, p) <= Len(b) /\ DataAt(type, x, b, p) = SoaAt(b, p)
    BY <1>6, ZoneIs
  <2> QED
    BY <1>6, <2>1, SoaTyped DEF DataFits
<1>7. CASE KindOf(type) = "raw"
  BY <1>7, PlainIs, FitKinds, LowKinds DEF DataFits
<1> QED
  BY <1>1, <1>2, <1>3, <1>4, <1>5, <1>6, <1>7, KindsAre


LEMMA RRTyped ==
    ASSUME NEW b \in Octets, NEW p \in Nat, RREnd(b, p) <= Len(b)
    PROVE  RRAt(b, p) \in DnsRecord /\ LowerRecord(RRAt(b, p)) = RRAt(b, p)
<1> DEFINE e == NameEnd(b, p)
           n == Len(b)
           base == Base(b, p)
           len == RDLength(b, p)
           type == RRType(b, p)
           x == RDataAt(b, p)
           d == DataAt(type, x, b, base)
<1>1. /\ GoodRR(b, p) /\ base <= n /\ base + len <= n /\ base \in Nat /\ len \in Nat
      /\ n \in Nat /\ e \in Nat
  BY RRTypes, NameType, OctetsLen DEF GoodRR, RRFits
<1>2. base = e + 10
  BY DEF Base
<1>3. GoodName(b, p)
  <2>1. e <= n
    <3> HIDE DEF e, n, base, len
    <3> QED
      BY <1>1, <1>2
  <2> QED
    BY <2>1, NameType
<1>4. NameOf(b, p) \in Octets /\ ToLower(NameOf(b, p)) = NameOf(b, p)
  BY <1>3, NameLow
<1>5. /\ WordAt(b, e) \in Word16 /\ WordAt(b, e + 2) \in Word16
      /\ LongAt(b, e + 4) \in Word32
  <2> HIDE DEF e, base, len
  <2>1. /\ e + 2 \in Nat /\ e + 2 <= Len(b) /\ e + 2 + 2 <= Len(b) /\ e + 4 \in Nat
        /\ e + 4 + 4 <= Len(b)
    BY <1>1, <1>2
  <2> QED
    BY <1>1, <2>1, WordType, LongType
<1>6. x \in Octets
  <2> DEFINE from == base + 1
             to == base + len
  <2>1. x = SubSeq(b, from, to)
    BY DEF RDataAt
  <2> HIDE DEF base, len, n, x
  <2>2. from \in Nat \ {0} /\ to \in Nat /\ to <= Len(b)
    BY <1>1 DEF n
  <2> HIDE DEF from, to
  <2> QED
    BY <2>1, <2>2, PartOctets
<1>7. DataFits(d, type)
  <2>1. GoodData(type, x, b, base)
    BY <1>1 DEF GoodRR
  <2> HIDE DEF type, x, base
  <2> QED
    BY <1>1, <1>6, <2>1, DataTyped
<1>8. type = WordAt(b, e)
  BY DEF RRType
<1>9. RRAt(b, p) =
        [name |-> NameOf(b, p), type |-> WordAt(b, e), class |-> WordAt(b, e + 2),
         ttl |-> LongAt(b, e + 4), data |-> d]
  BY DEF RRAt
<1> HIDE DEF e, d, type
<1> QED
  BY <1>4, <1>5, <1>7, <1>8, <1>9 DEF DnsRecord, LowerRecord, DataFits

LowQuestion == {q \in DnsQuestion : LowerQuestion(q) = q}
LowRecord   == {rr \in DnsRecord : LowerRecord(rr) = rr}

LEMMA QuestionEndFits ==
    ASSUME NEW b \in Octets, NEW p \in Nat, NEW n \in Nat, NEW f, QuestionEnds(f, b, p, n),
           FitsIn(f, n, b), NEW i \in 1..n
    PROVE  /\ QuestionAt(b, f[i - 1]) \in DnsQuestion
           /\ LowerQuestion(QuestionAt(b, f[i - 1])) = QuestionAt(b, f[i - 1])
<1>1. \A k \in 0..n : f[k] \in Nat /\ f[k] <= Len(b)
  BY QuestionEndsWithin DEF FitsIn
<1>2. i \in 0..n /\ i # 0 /\ i - 1 \in 0..n
  OBVIOUS
<1>3. f[i] = QuestionEnd(b, f[i - 1])
  BY <1>2, QuestionEndsAt
<1> DEFINE q == f[i - 1]
<1>4. q \in Nat /\ QuestionEnd(b, q) <= Len(b)
  BY <1>1, <1>2, <1>3
<1> HIDE DEF q
<1>5. QuestionAt(b, q) \in DnsQuestion /\ LowerQuestion(QuestionAt(b, q)) = QuestionAt(b, q)
  BY <1>4, QuestionTyped
<1> QED
  BY <1>5 DEF q

LEMMA QuestionsTyped ==
    ASSUME NEW b \in Octets, NEW p \in Nat, NEW n \in Nat, NEW f, QuestionEnds(f, b, p, n),
           FitsIn(f, n, b)
    PROVE  Questions(b, f, n) \in Seq(LowQuestion) /\ Len(Questions(b, f, n)) = n
<1> DEFINE qs == Questions(b, f, n)
<1>1. qs = [i \in 1..n |-> QuestionAt(b, f[i - 1])]
  BY DEF Questions
<1>2. \A i \in 1..n : QuestionAt(b, f[i - 1]) \in LowQuestion
  BY QuestionEndFits DEF LowQuestion
<1>3. qs \in [1..n -> LowQuestion]
  BY <1>1, <1>2
<1> HIDE DEF qs
<1>4. qs \in Seq(LowQuestion) /\ Len(qs) = n
  BY <1>3, FunctionSeq
<1> QED
  BY <1>4 DEF qs

LEMMA RREndFits ==
    ASSUME NEW b \in Octets, NEW p \in Nat, NEW n \in Nat, NEW f, RREnds(f, b, p, n),
           FitsIn(f, n, b), NEW i \in 1..n
    PROVE  /\ RRAt(b, f[i - 1]) \in DnsRecord
           /\ LowerRecord(RRAt(b, f[i - 1])) = RRAt(b, f[i - 1])
<1>1. \A k \in 0..n : f[k] \in Nat /\ f[k] <= Len(b)
  BY RREndsWithin DEF FitsIn
<1>2. i \in 0..n /\ i # 0 /\ i - 1 \in 0..n
  OBVIOUS
<1>3. f[i] = RREnd(b, f[i - 1])
  BY <1>2, RREndsAt
<1> DEFINE q == f[i - 1]
<1>4. q \in Nat /\ RREnd(b, q) <= Len(b)
  BY <1>1, <1>2, <1>3
<1> HIDE DEF q
<1>5. RRAt(b, q) \in DnsRecord /\ LowerRecord(RRAt(b, q)) = RRAt(b, q)
  BY <1>4, RRTyped
<1> QED
  BY <1>5 DEF q

LEMMA RRsTyped ==
    ASSUME NEW b \in Octets, NEW p \in Nat, NEW n \in Nat, NEW f, RREnds(f, b, p, n),
           FitsIn(f, n, b)
    PROVE  RRs(b, f, n) \in Seq(LowRecord) /\ Len(RRs(b, f, n)) = n
<1> DEFINE rs == RRs(b, f, n)
<1>1. rs = [i \in 1..n |-> RRAt(b, f[i - 1])]
  BY DEF RRs
<1>2. \A i \in 1..n : RRAt(b, f[i - 1]) \in LowRecord
  BY RREndFits DEF LowRecord
<1>3. rs \in [1..n -> LowRecord]
  BY <1>1, <1>2
<1> HIDE DEF rs
<1>4. rs \in Seq(LowRecord) /\ Len(rs) = n
  BY <1>3, FunctionSeq
<1> QED
  BY <1>4 DEF rs


LEMMA LowQuestionsFit ==
    ASSUME NEW qs \in Seq(LowQuestion)
    PROVE  qs \in Seq(DnsQuestion) /\ LowerQuestions(qs) = qs
<1>1. qs \in [1..Len(qs) -> LowQuestion] /\ Len(qs) \in Nat
  OBVIOUS
<1>2. \A i \in 1..Len(qs) : qs[i] \in DnsQuestion /\ LowerQuestion(qs[i]) = qs[i]
  BY <1>1 DEF LowQuestion
<1>3. qs \in [1..Len(qs) -> DnsQuestion] /\ qs = [i \in 1..Len(qs) |-> qs[i]]
  BY <1>1, <1>2
<1>4. LowerQuestions(qs) = [i \in 1..Len(qs) |-> qs[i]]
  BY <1>2 DEF LowerQuestions
<1> QED
  BY <1>1, <1>3, <1>4, FunctionSeq

LEMMA LowRecordsFit ==
    ASSUME NEW rs \in Seq(LowRecord)
    PROVE  rs \in Seq(DnsRecord) /\ LowerRecords(rs) = rs
<1>1. rs \in [1..Len(rs) -> LowRecord] /\ Len(rs) \in Nat
  OBVIOUS
<1>2. \A i \in 1..Len(rs) : rs[i] \in DnsRecord /\ LowerRecord(rs[i]) = rs[i]
  BY <1>1 DEF LowRecord
<1>3. rs \in [1..Len(rs) -> DnsRecord] /\ rs = [i \in 1..Len(rs) |-> rs[i]]
  BY <1>1, <1>2
<1>4. LowerRecords(rs) = [i \in 1..Len(rs) |-> rs[i]]
  BY <1>2 DEF LowerRecords
<1> QED
  BY <1>1, <1>3, <1>4, FunctionSeq

\* A sequence in two parts of given lengths.
InParts(s, S, x, y) ==
    \E a \in Seq(S), b \in Seq(S) : s = a \o b /\ Len(a) = x /\ Len(b) = y

LEMMA TwoParts ==
    ASSUME NEW S, NEW s \in Seq(S), NEW x \in Nat, NEW y \in Nat, Len(s) = x + y
    PROVE  InParts(s, S, x, y)
<1> DEFINE n == Len(s)
           a == SubSeq(s, 1, x)
           b == SubSeq(s, x + 1, n)
<1>1. n \in Nat /\ x <= n /\ x + 1 \in Nat /\ x + 1 >= 1 /\ n - (x + 1) + 1 = y
      /\ 1 \in Nat /\ x - 1 + 1 = x
  OBVIOUS
<1>2. s = a \o b
  BY <1>1, CutInTwo
<1>3. a \in Seq(S) /\ Len(a) = x
  BY <1>1
<1>4. b \in Seq(S) /\ Len(b) = y
  BY <1>1
<1> QED
  BY <1>2, <1>3, <1>4 DEF InParts

LEMMA DecodedTyped ==
    ASSUME NEW b \in Octets, 12 <= Len(b), NEW f, NEW g, Ended(b, f, g),
           FitsIn(g, RecordCount(b), b)
    PROVE  /\ DecodedMsg(b, Items(b, f, g)) \in DnsMessage
           /\ Lowered(DecodedMsg(b, Items(b, f, g))) = DecodedMsg(b, Items(b, f, g))
<1> DEFINE n == QuestionCount(b)
           m == RecordCount(b)
           x == WordAt(b, 6)
           y == WordAt(b, 8)
           z == WordAt(b, 10)
           qs == Questions(b, f, n)
           rs == RRs(b, g, m)
           T == LowQuestion \cup LowRecord
<1>1. /\ n \in Nat /\ m \in Nat /\ WordAt(b, 0) \in Word16 /\ WordAt(b, 2) \in Word16
      /\ x \in Nat /\ y \in Nat /\ z \in Nat
  <2>1. 0 \in {0, 2, 4, 6, 8, 10} /\ 2 \in {0, 2, 4, 6, 8, 10} /\ 6 \in {0, 2, 4, 6, 8, 10}
        /\ 8 \in {0, 2, 4, 6, 8, 10} /\ 10 \in {0, 2, 4, 6, 8, 10}
    OBVIOUS
  <2> QED
    BY <2>1, CountTypes
<1>2. n = WordAt(b, 4) /\ m = x + y + z
  BY DEF QuestionCount, RecordCount
<1>3. QuestionEnds(f, b, 12, n) /\ RREnds(g, b, f[n], m)
  BY DEF Ended
<1>4. f[n] \in Nat
  <2>1. n \in 0..n
    BY <1>1
  <2>2. \A i \in 0..n : f[i] \in Nat
    BY EndsTypes
  <2> QED
    BY <2>1, <2>2
<1> HIDE DEF n, m, x, y, z
<1>5. FitsIn(f, n, b)
  <2> DEFINE o == 0
  <2>1. \A i \in 0..m : g[i] \in Nat /\ g[i] <= Len(b)
    BY <1>1, <1>3, <1>4, RREndsWithin DEF FitsIn, m
  <2>2. o \in 0..m /\ o = 0
    BY <1>1
  <2> HIDE DEF o
  <2>3. g[o] = f[n]
    BY <1>1, <1>3, <2>2, RREndsAt
  <2> QED
    BY <2>1, <2>2, <2>3 DEF FitsIn
<1>6. qs \in Seq(LowQuestion) /\ Len(qs) = n
  BY <1>1, <1>3, <1>5, QuestionsTyped
<1>7. rs \in Seq(LowRecord) /\ Len(rs) = x + y + z
  <2>1. FitsIn(g, m, b)
    BY DEF m
  <2> QED
    BY <1>1, <1>2, <1>3, <1>4, <2>1, RRsTyped
<1>8. Items(b, f, g) = qs \o rs
  BY DEF Items, n, m
<1> HIDE DEF qs, rs
<1>9. PICK r12 \in Seq(LowRecord), r3 \in Seq(LowRecord) :
        rs = r12 \o r3 /\ Len(r12) = x + y /\ Len(r3) = z
  <2> DEFINE w == x + y
  <2>1. w \in Nat /\ Len(rs) = w + z
    BY <1>1, <1>7
  <2> HIDE DEF w
  <2>2. InParts(rs, LowRecord, w, z)
    BY <1>1, <1>7, <2>1, TwoParts
  <2> QED
    BY <2>2 DEF w, InParts
<1>10. PICK r1 \in Seq(LowRecord), r2 \in Seq(LowRecord) :
         r12 = r1 \o r2 /\ Len(r1) = x /\ Len(r2) = y
  <2>1. x \in Nat /\ y \in Nat /\ r12 \in Seq(LowRecord) /\ Len(r12) = x + y
    BY <1>1, <1>9
  <2>2. InParts(r12, LowRecord, x, y)
    BY <2>1, TwoParts
  <2> QED
    BY <2>2 DEF InParts
<1>11. /\ qs \in Seq(T) /\ r1 \in Seq(T) /\ r2 \in Seq(T) /\ r3 \in Seq(T)
       /\ qs \o rs = qs \o ((r1 \o r2) \o r3)
  BY <1>6, <1>9, <1>10
<1>12. qs \in Seq(T) /\ r1 \in Seq(T) /\ r2 \in Seq(T) /\ r3 \in Seq(T)
  BY <1>11
<1> HIDE DEF T
<1>13. /\ SubSeq(qs \o rs, 0 + 1, 0 + Len(qs)) = qs
       /\ SubSeq(qs \o rs, Len(qs) + 1, Len(qs) + Len(r1)) = r1
       /\ SubSeq(qs \o rs, Len(qs) + Len(r1) + 1, Len(qs) + Len(r1) + Len(r2)) = r2
       /\ SubSeq(qs \o rs, Len(qs) + Len(r1) + Len(r2) + 1,
                 Len(qs) + Len(r1) + Len(r2) + Len(r3)) = r3
  <2> DEFINE u == qs \o rs
  <2>1. u = qs \o ((r1 \o r2) \o r3)
    BY <1>11
  <2> HIDE DEF u
  <2>2. Quarters(u, qs, r1, r2, r3)
    BY <1>12, <2>1, FourParts
  <2> QED
    BY <2>2 DEF Quarters, u
<1> DEFINE h == HeaderFromFlags(WordAt(b, 0), WordAt(b, 2))
           msg == DecodedMsg(b, Items(b, f, g))
<1>14. msg = [header |-> h, questions |-> qs, answers |-> r1, authority |-> r2, additional |-> r3]
  BY <1>2, <1>6, <1>8, <1>9, <1>10, <1>13, DecodedParts DEF x, y, z
<1>15. h \in DnsHeader
  BY <1>1, HeaderType
<1>16. /\ qs \in Seq(DnsQuestion) /\ LowerQuestions(qs) = qs
       /\ r1 \in Seq(DnsRecord) /\ LowerRecords(r1) = r1
       /\ r2 \in Seq(DnsRecord) /\ LowerRecords(r2) = r2
       /\ r3 \in Seq(DnsRecord) /\ LowerRecords(r3) = r3
  BY <1>6, LowQuestionsFit, LowRecordsFit
<1> HIDE DEF msg, h
<1>17. msg \in DnsMessage
  BY <1>14, <1>15, <1>16 DEF DnsMessage
<1>18. Lowered(msg) = msg
  BY <1>14, <1>16 DEF Lowered
<1> QED
  BY <1>17, <1>18 DEF msg

\* Decode returns an error or a message in lower case.
LEMMA DecodeTyped ==
    ASSUME NEW b \in Octets, Decode(b).err = "nil"
    PROVE  /\ Decode(b) = [err |-> "nil", msg |-> Decode(b).msg]
           /\ Decode(b).msg \in DnsMessage /\ Lowered(Decode(b).msg) = Decode(b).msg
<1>1. Len(b) \in Nat /\ 12 <= Len(b)
  <2>1. Len(b) \in Nat
    BY OctetsLen
  <2>2. ASSUME Len(b) < 12 PROVE FALSE
    BY <2>2, DecodeShort
  <2> QED
    BY <2>1, <2>2
<1>2. PICK f, g : Ended(b, f, g)
  BY <1>1, EndsExist
<1> DEFINE msg == DecodedMsg(b, Items(b, f, g))
<1>3. g[RecordCount(b)] <= Len(b) /\ Decode(b) = [err |-> "nil", msg |-> msg]
  BY <1>1, <1>2, DecodeReads, FailsIsError
<1>4. FitsIn(g, RecordCount(b), b)
  BY <1>3 DEF FitsIn
<1>5. msg \in DnsMessage /\ Lowered(msg) = msg
  BY <1>1, <1>2, <1>4, DecodedTyped
<1> HIDE DEF msg
<1> QED
  BY <1>3, <1>5
===============================================================================
