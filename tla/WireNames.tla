----------------------------- MODULE WireNames -----------------------------
(***************************************************************************)
(* Domain names on the wire (internal/dnswire/name.go): the builder that   *)
(* compresses names against the suffixes it has written, and the cursor    *)
(* that reads them back from bytes it does not trust.                      *)
(*                                                                         *)
(* Octets are 0..255 and offsets count from 0, as in the code.  The limits *)
(* are constants, so that small messages reach them.  A name is a string   *)
(* of octets with Dot between its labels; a uint32 is the pair of its high *)
(* and its low 16 bits.                                                    *)
(***************************************************************************)
EXTENDS Integers, Sequences, SequencesExt

CONSTANTS
    MaxNameWire,     \* maxNameWire, 255
    MaxPointerHops,  \* maxPointerHops, 32
    PointerSpan,     \* the offsets 14 bits can hold, 0x4000
    Dot              \* the octet '.'

ASSUME WireAssumption ==
    /\ MaxNameWire \in Nat /\ MaxPointerHops \in Nat
    /\ PointerSpan \in 1..16384
    /\ Dot \in 0..127

Byte == 0..255
Octets == Seq(Byte)

MaxLabelLen == 63

\* strings.ToLower.  An octet that is not UTF-8 becomes U+FFFD, three octets
\* long; other characters beyond ASCII are left out.
RuneError == << 239, 191, 189 >>

InRune(s, i) ==
    \E k \in Max({1, i - 2})..Min({i, Len(s) - 2}) : SubSeq(s, k, k + 2) = RuneError

ToLower(s) ==
    FlattenSeq([i \in DOMAIN s |->
                  CASE s[i] \in 65..90 -> << s[i] + 32 >>
                    [] s[i] > 127 /\ ~ InRune(s, i) -> RuneError
                    [] OTHER -> << s[i] >>])

CanonicalName(s) == ToLower(IF s # << >> /\ Last(s) = Dot THEN Front(s) ELSE s)

Join(labels) ==
    FlattenSeq([i \in DOMAIN labels |->
                  IF i = 1 THEN labels[i] ELSE << Dot >> \o labels[i]])

SplitLabels(name) ==
    LET split[i \in 0..Len(name)] ==
          IF i = 0 THEN << << >> >>
          ELSE LET done == split[i - 1] IN
               IF name[i] = Dot THEN Append(done, << >>)
               ELSE [done EXCEPT ![Len(done)] = Append(@, name[i])]
    IN  IF name = << >> THEN << >> ELSE split[Len(name)]

(***************************************************************************)
(* The builder: octets so far, the offset of every suffix written, and the *)
(* first error, after which nothing more is written.                       *)
(***************************************************************************)
NewBuilder == [buf |-> << >>, offsets |-> << >>, err |-> "nil"]

Refuse(b, e) == IF b.err # "nil" THEN b ELSE [b EXCEPT !.err = e]

PutBytes(b, s) == IF b.err # "nil" THEN b ELSE [b EXCEPT !.buf = @ \o s]

U16(v) == << (v \div 256) % 256, v % 256 >>
U32(v) == U16(v[1]) \o U16(v[2])

\* Each label with the octet that tells its length.
WireLabels(labels) ==
    FlattenSeq([i \in DOMAIN labels |-> << Len(labels[i]) >> \o labels[i]])

Pointer(off) == U16(192 * 256 + (off % PointerSpan))

Encodable(labels) ==
    /\ \A i \in DOMAIN labels : Len(labels[i]) \in 1..MaxLabelLen
    /\ Len(WireLabels(labels)) + 1 <= MaxNameWire

\* Mutant: an offset is remembered wherever it is.
Addressable(at) == TRUE

\* Pointers can only address offsets below 0x4000.
Remembered(at) == at < PointerSpan

Beside(new, old) ==
    [s \in DOMAIN new \cup DOMAIN old |-> IF s \in DOMAIN new THEN new[s] ELSE old[s]]

\* builder.name.  A suffix that this very name has just recorded is longer
\* than those still to come, so the first known one ends the name.
PutLabels(b, labels) ==
    LET suffix(i) == SubSeq(labels, i, Len(labels))
        known     == {i \in DOMAIN labels : suffix(i) \in DOMAIN b.offsets}
        stop      == Min(known \cup {Len(labels) + 1})
        at(i)     == Len(b.buf) + Len(WireLabels(SubSeq(labels, 1, i - 1)))
        fresh     == {i \in 1..(stop - 1) : Remembered(at(i))}
        new       == [s \in {suffix(i) : i \in fresh} |-> at(Len(labels) - Len(s) + 1)]
    IN  IF b.err # "nil" THEN b
        ELSE IF ~ Encodable(labels) THEN Refuse(b, "bad name")
        ELSE [b EXCEPT
               !.buf = @ \o WireLabels(SubSeq(labels, 1, stop - 1))
                         \o (IF stop > Len(labels) THEN << 0 >>
                             ELSE Pointer(b.offsets[suffix(stop)])),
               !.offsets = Beside(new, @)]

PutName(b, name) == PutLabels(b, SplitLabels(name))

(***************************************************************************)
(* The cursor: where the next octet is, the first error, after which       *)
(* nothing more is read, and the values read so far.                       *)
(***************************************************************************)
Cursor(buf, pos) == [buf |-> buf, pos |-> pos, err |-> "nil", vals |-> << >>]

FailRead(c, e) == IF c.err # "nil" THEN c ELSE [c EXCEPT !.err = e]

\* v is what the next n octets hold.
Take(c, n, v) ==
    IF c.err # "nil" \/ c.pos + n > Len(c.buf) THEN FailRead(c, "short read")
    ELSE [c EXCEPT !.pos = @ + n, !.vals = Append(@, v)]

Ahead(c, n) == SubSeq(c.buf, c.pos + 1, c.pos + n)

\* Mutant: what is missing is left out.
ReadWhatIsThere(c, n) ==
    LET k == Min({n, Len(c.buf) - c.pos}) IN
    Take(c, k, Ahead(c, k) \o [i \in 1..(n - k) |-> 0])

ReadBytes(c, n) == Take(c, n, Ahead(c, n))

Word(s) == s[1] * 256 + s[2]

ReadU16(c) == Take(c, 2, Word(Ahead(c, 2)))

ReadU32(c) == Take(c, 4, << Word(Ahead(c, 2)), Word(SubSeq(Ahead(c, 4), 3, 4)) >>)

(***************************************************************************)
(* cursor.name: the local variables of its loop, and one iteration.        *)
(***************************************************************************)
WalkFrom(pos) ==
    [at |-> "walk", pos |-> pos, hops |-> 0, jumped |-> FALSE,
     total |-> 0, labels |-> << >>, end |-> pos]

\* The end of the name's own octets: fixed by the first jump.
EndAt(w, pos) == IF w.jumped THEN w.end ELSE pos

\* Mutant: pointers are followed wherever they lead and not counted.
FollowAnyPointer(buf, w) ==
    LET target == (buf[w.pos + 1] - 192) * 256 + buf[w.pos + 2] IN
    [w EXCEPT !.end = EndAt(w, w.pos + 2), !.jumped = TRUE, !.pos = target]

FollowPointer(buf, w) ==
    LET target == (buf[w.pos + 1] - 192) * 256 + buf[w.pos + 2] IN
    IF target >= w.pos THEN [w EXCEPT !.at = "forward"]
    ELSE IF w.hops + 1 > MaxPointerHops THEN [w EXCEPT !.at = "loop"]
    ELSE [w EXCEPT !.end = EndAt(w, w.pos + 2), !.jumped = TRUE,
                   !.hops = @ + 1, !.pos = target]

TakeLabel(buf, w) ==
    LET l == buf[w.pos + 1] IN
    IF w.total + l + 1 > MaxNameWire THEN [w EXCEPT !.at = "too long"]
    ELSE [w EXCEPT !.total = @ + l + 1, !.pos = @ + 1 + l,
                   !.labels = Append(@, SubSeq(buf, w.pos + 2, w.pos + 1 + l))]

NameStep(buf, w) ==
    LET left == Len(buf) - w.pos
        l    == buf[w.pos + 1]
    IN  IF w.at # "walk" THEN w ELSE
        CASE left < 1             -> [w EXCEPT !.at = "truncated"]
          [] left >= 1 /\ l = 0   -> [w EXCEPT !.at = "nil", !.end = EndAt(w, w.pos + 1)]
          [] left = 1 /\ l >= 192 -> [w EXCEPT !.at = "truncated"]
          [] left > 1 /\ l >= 192 -> FollowPointer(buf, w)
          [] left >= 1 /\ l \in 64..191 -> [w EXCEPT !.at = "reserved"]
          [] left >= 1 /\ l \in 1..63   ->
               IF left < 1 + l THEN [w EXCEPT !.at = "truncated"]
               ELSE TakeLabel(buf, w)

\* Iterations that a name can take: every hop is counted, every label adds
\* two or more to the total, and one more step ends it.
WalkBound == MaxPointerHops + (MaxNameWire \div 2) + 1

Walk(buf, pos) ==
    LET walk[i \in 0..WalkBound] ==
          IF i = 0 THEN WalkFrom(pos) ELSE NameStep(buf, walk[i - 1])
    IN  walk[WalkBound]

ReadName(c) ==
    LET read(w) ==
          IF w.at # "nil" THEN FailRead(c, w.at)
          ELSE [c EXCEPT !.pos = w.end, !.vals = Append(@, ToLower(Join(w.labels)))]
    IN  IF c.err # "nil" THEN c ELSE read(Walk(c.buf, c.pos))
=============================================================================
