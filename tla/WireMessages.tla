---------------------------- MODULE WireMessages ---------------------------
(***************************************************************************)
(* DNS messages as octets (internal/dnswire/message.go and rdata.go):      *)
(* Message.Encode and Decode.  An address is its 4 or 16 octets.           *)
(***************************************************************************)
EXTENDS WireNames

Word16 == 0..65535
Word32 == Word16 \X Word16  \* its high and its low half

TypeA     == 1
TypeNS    == 2
TypeCNAME == 5
TypeSOA   == 6
TypeTXT   == 16
TypeAAAA  == 28

(***************************************************************************)
(* Messages.  The data of a record fit its type; of the opcode and of the  *)
(* response code four bits travel.                                         *)
(***************************************************************************)
DnsHeader ==
    [id : Word16, qr : BOOLEAN, opcode : 0..15, aa : BOOLEAN, tc : BOOLEAN,
     rd : BOOLEAN, ra : BOOLEAN, rcode : 0..15]

DnsQuestion == [name : Octets, type : Word16, class : Word16]

DnsData ==
    [kind : {"A", "AAAA"}, addr : Octets]
      \cup [kind : {"TXT"}, strings : Seq(Octets)]
      \cup [kind : {"NS", "CNAME"}, host : Octets]
      \cup [kind : {"SOA"}, mname : Octets, rname : Octets, vals : [1..5 -> Word32]]
      \cup [kind : {"raw"}, data : Octets]

KindOf(type) ==
    CASE type = TypeA     -> "A"
      [] type = TypeNS    -> "NS"
      [] type = TypeCNAME -> "CNAME"
      [] type = TypeSOA   -> "SOA"
      [] type = TypeTXT   -> "TXT"
      [] type = TypeAAAA  -> "AAAA"
      [] OTHER            -> "raw"

DnsRecord ==
    {rr \in [name : Octets, type : Word16, class : Word16, ttl : Word32, data : DnsData] :
       rr.data.kind = KindOf(rr.type)}

DnsMessage ==
    [header : DnsHeader, questions : Seq(DnsQuestion), answers : Seq(DnsRecord),
     authority : Seq(DnsRecord), additional : Seq(DnsRecord)]

(***************************************************************************)
(* The header's flag word.                                                 *)
(***************************************************************************)
Bit(x) == IF x THEN 1 ELSE 0

\* Mutant: RA is set where a reserved bit is.
FlagsShifted(h) ==
    Bit(h.qr) * 32768 + (h.opcode % 16) * 2048 + Bit(h.aa) * 1024
      + Bit(h.tc) * 512 + Bit(h.rd) * 256 + Bit(h.ra) * 64 + (h.rcode % 16)

Flags(h) ==
    Bit(h.qr) * 32768 + (h.opcode % 16) * 2048 + Bit(h.aa) * 1024
      + Bit(h.tc) * 512 + Bit(h.rd) * 256 + Bit(h.ra) * 128 + (h.rcode % 16)

HeaderFromFlags(id, f) ==
    LET bit(w) == (f \div w) % 2 = 1 IN
    [id |-> id, qr |-> bit(32768), opcode |-> (f \div 2048) % 16,
     aa |-> bit(1024), tc |-> bit(512), rd |-> bit(256), ra |-> bit(128),
     rcode |-> f % 16]

(***************************************************************************)
(* Encode.                                                                 *)
(***************************************************************************)
Is4In6Octets(a) == SubSeq(a, 1, 12) = [i \in 1..12 |-> IF i > 10 THEN 255 ELSE 0]

Strings(ss) == FlattenSeq([i \in DOMAIN ss |-> << Len(ss[i]) >> \o ss[i]])

\* RData.appendTo
AppendTo(b, d) ==
    CASE d.kind = "A" ->
           IF Len(d.addr) = 4 THEN PutBytes(b, d.addr) ELSE Refuse(b, "not IPv4")
      [] d.kind = "AAAA" ->
           IF Len(d.addr) = 16 /\ ~ Is4In6Octets(d.addr) THEN PutBytes(b, d.addr)
           ELSE Refuse(b, "not IPv6")
      [] d.kind = "TXT" ->
           IF d.strings # << >> /\ \A i \in DOMAIN d.strings : Len(d.strings[i]) <= 255
           THEN PutBytes(b, Strings(d.strings)) ELSE Refuse(b, "bad TXT")
      [] d.kind \in {"NS", "CNAME"} -> PutName(b, d.host)
      [] d.kind = "SOA" ->
           PutBytes(PutName(PutName(b, d.mname), d.rname),
                    FlattenSeq([i \in 1..5 |-> U32(d.vals[i])]))
      [] d.kind = "raw" -> PutBytes(b, d.data)

\* encodeRR: RDLENGTH is patched once the data, from octet start on, is there.
PatchLength(w, start) ==
    LET len == Len(w.buf) - start IN
    IF w.err # "nil" THEN w
    ELSE IF len > 65535 THEN Refuse(w, "long rdata")
    ELSE [w EXCEPT !.buf[start - 1] = U16(len)[1], !.buf[start] = U16(len)[2]]

EncodeRR(b, rr) ==
    LET head == PutBytes(PutName(b, rr.name),
                         U16(rr.type) \o U16(rr.class) \o U32(rr.ttl) \o U16(0))
    IN  PatchLength(AppendTo(head, rr.data), Len(head.buf))

EncodeQuestion(b, q) ==
    PutBytes(PutName(b, q.name), U16(q.type) \o U16(q.class))

\* The loops over a section.
PutQuestions(b, qs) ==
    LET put[n \in 0..Len(qs)] ==
          IF n = 0 THEN b ELSE EncodeQuestion(put[n - 1], qs[n])
    IN  put[Len(qs)]

PutRecords(b, rrs) ==
    LET put[n \in 0..Len(rrs)] ==
          IF n = 0 THEN b ELSE EncodeRR(put[n - 1], rrs[n])
    IN  put[Len(rrs)]

Encode(m) ==
    LET counts == << Len(m.questions), Len(m.answers),
                     Len(m.authority), Len(m.additional) >>
        header == PutBytes(NewBuilder,
                           U16(m.header.id) \o U16(Flags(m.header))
                             \o FlattenSeq([i \in 1..4 |-> U16(counts[i])]))
    IN  IF \E i \in 1..4 : counts[i] > 65535 THEN Refuse(NewBuilder, "count")
        ELSE PutRecords(PutQuestions(header, m.questions),
                        m.answers \o m.authority \o m.additional)

(***************************************************************************)
(* Decode.                                                                 *)
(***************************************************************************)
\* The loop over TXT data: where it stands, whether all fitted so far, and
\* the strings.
TearOne(rdata, t) ==
    LET l == rdata[t.pos + 1] IN
    IF ~ t.ok \/ t.pos = Len(rdata) THEN t
    ELSE IF t.pos + 1 + l > Len(rdata) THEN [t EXCEPT !.ok = FALSE]
    ELSE [t EXCEPT !.pos = @ + 1 + l,
                   !.strings = Append(@, SubSeq(rdata, t.pos + 2, t.pos + 1 + l))]

Tear(rdata) ==
    LET tear[i \in 0..Len(rdata)] ==
          IF i = 0 THEN [pos |-> 0, ok |-> TRUE, strings |-> << >>]
          ELSE TearOne(rdata, tear[i - 1])
    IN  tear[Len(rdata)]

\* decodeRData.  Names are read from the whole message, from base on.
DecodeRData(type, rdata, whole, base) ==
    LET value(v) == [err |-> "nil", val |-> v]
        texts(t) == IF rdata = << >> \/ ~ t.ok THEN [err |-> "bad TXT"]
                    ELSE value([kind |-> "TXT", strings |-> t.strings])
        host(c)  == IF c.err # "nil" THEN c
                    ELSE value([kind |-> IF type = TypeNS THEN "NS" ELSE "CNAME",
                                host |-> c.vals[1]])
        five(c)  == ReadU32(ReadU32(ReadU32(ReadU32(ReadU32(c)))))
        soa(c)   == IF c.err # "nil" THEN c
                    ELSE value([kind |-> "SOA", mname |-> c.vals[1],
                                rname |-> c.vals[2], vals |-> SubSeq(c.vals, 3, 7)])
    IN  CASE type \in {TypeA, TypeAAAA} ->
               IF Len(rdata) # (IF type = TypeA THEN 4 ELSE 16) THEN [err |-> "bad address"]
               ELSE value([kind |-> IF type = TypeA THEN "A" ELSE "AAAA", addr |-> rdata])
          [] type = TypeTXT -> texts(Tear(rdata))
          [] type \in {TypeNS, TypeCNAME} -> host(ReadName(Cursor(whole, base)))
          [] type = TypeSOA -> soa(five(ReadName(ReadName(Cursor(whole, base)))))
          [] OTHER -> value([kind |-> "raw", data |-> rdata])

\* The cursor's values are the items decoded before; each decoder adds one.
\* The next record begins where RDLENGTH says this one ends, wherever the
\* names in it ended.
DecodeRR(c) ==
    LET head  == ReadU16(ReadU32(ReadU16(ReadU16(ReadName([c EXCEPT !.vals = << >>])))))
        rr(r, data) ==
          IF data.err # "nil" THEN FailRead(r, data.err)
          ELSE [r EXCEPT !.vals =
                  Append(c.vals, [name |-> @[1], type |-> @[2], class |-> @[3],
                                  ttl |-> @[4], data |-> data.val])]
        parsed(r) ==
          IF r.err # "nil" THEN r
          ELSE rr(r, DecodeRData(r.vals[2], r.vals[6], r.buf, r.pos - r.vals[5]))
        filled(h) == IF h.err # "nil" THEN h ELSE parsed(ReadBytes(h, h.vals[5]))
    IN  filled(head)

DecodeQuestion(c) ==
    LET question(r) ==
          IF r.err # "nil" THEN r
          ELSE [r EXCEPT !.vals =
                  Append(c.vals, [name |-> @[1], type |-> @[2], class |-> @[3]])]
    IN  question(ReadU16(ReadU16(ReadName([c EXCEPT !.vals = << >>]))))

\* The loops over a section stop at the first error.  Every question and
\* every record takes five octets or more, so that a loop over a larger
\* count than these allow fails by then.
Most(c, count) == Min({count, (Len(c.buf) \div 5) + 1})

ReadQuestions(c, count) ==
    LET read[i \in 0..Most(c, count)] ==
          IF i = 0 THEN c
          ELSE LET before == read[i - 1] IN
               IF before.err # "nil" THEN before ELSE DecodeQuestion(before)
    IN  read[Most(c, count)]

ReadRecords(c, count) ==
    LET read[i \in 0..Most(c, count)] ==
          IF i = 0 THEN c
          ELSE LET before == read[i - 1] IN
               IF before.err # "nil" THEN before ELSE DecodeRR(before)
    IN  read[Most(c, count)]

Decode(buf) ==
    LET word(i) == Word(SubSeq(buf, 2 * i - 1, 2 * i))
        questions == ReadQuestions(Cursor(buf, 12), word(3))
        message(c) ==
          LET section(from, n) == SubSeq(c.vals, from + 1, from + word(n)) IN
          IF c.err # "nil" THEN [err |-> c.err]
          ELSE [err |-> "nil",
                msg |-> [header     |-> HeaderFromFlags(word(1), word(2)),
                         questions  |-> section(0, 3),
                         answers    |-> section(word(3), 4),
                         authority  |-> section(word(3) + word(4), 5),
                         additional |-> section(word(3) + word(4) + word(5), 6)]]
    IN  IF Len(buf) < 12 THEN [err |-> "short read"]
        ELSE message(ReadRecords(questions, word(4) + word(5) + word(6)))

(***************************************************************************)
(* The message that Decode makes of what Encode has made of m: its names   *)
(* in lower case, all else as it is.                                       *)
(***************************************************************************)
LowerQuestion(q) == [name |-> ToLower(q.name), type |-> q.type, class |-> q.class]

LowerData(d) ==
    CASE d.kind \in {"NS", "CNAME"} -> [kind |-> d.kind, host |-> ToLower(d.host)]
      [] d.kind = "SOA" -> [kind |-> "SOA", mname |-> ToLower(d.mname),
                            rname |-> ToLower(d.rname), vals |-> d.vals]
      [] OTHER -> d

LowerRecord(rr) ==
    [name |-> ToLower(rr.name), type |-> rr.type, class |-> rr.class, ttl |-> rr.ttl,
     data |-> LowerData(rr.data)]

LowerQuestions(items) == [i \in 1..Len(items) |-> LowerQuestion(items[i])]
LowerRecords(items)   == [i \in 1..Len(items) |-> LowerRecord(items[i])]

Lowered(m) ==
    [header |-> m.header, questions |-> LowerQuestions(m.questions),
     answers |-> LowerRecords(m.answers), authority |-> LowerRecords(m.authority),
     additional |-> LowerRecords(m.additional)]

(***************************************************************************)
(* The names that a message spells.  A suffix is pointed at where an       *)
(* earlier name spells it, so that pointers nest no deeper than there are  *)
(* names; a shallow message has no more of them than the hop limit.        *)
(***************************************************************************)
Sections(m) == m.answers \o m.authority \o m.additional

DataNames(d) ==
    CASE d.kind \in {"NS", "CNAME"} -> {d.host}
      [] d.kind = "SOA" -> {d.mname, d.rname}
      [] OTHER -> {}

RecordNames(rr) == {rr.name} \cup DataNames(rr.data)

MessageNames(m) ==
    {m.questions[i].name : i \in 1..Len(m.questions)}
      \cup UNION {RecordNames(Sections(m)[i]) : i \in 1..Len(Sections(m))}

\* As sequences of labels; the root has none to point at.
Spellings(m) == {SplitLabels(x) : x \in MessageNames(m)} \ {<< >>}

Shallow(m) == Cardinality(Spellings(m)) <= MaxPointerHops
=============================================================================
