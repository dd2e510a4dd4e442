-------------------------------- MODULE Magic ------------------------------
(***************************************************************************)
(* Addresses embedded in host names (internal/magic), and the names that   *)
(* somebody may type: an address in one of the four notations, with        *)
(* anything in front of it, or anything at all.                            *)
(*                                                                         *)
(* A label is a sequence of characters: a digit 0..15 in lower case (the   *)
(* names that reach Extract are lowered by dnswire), a dash, a percent     *)
(* sign, or another character.  An address is a sequence of four octets or *)
(* of eight 16-bit groups.                                                 *)
(***************************************************************************)
EXTENDS Integers, Sequences, SequencesExt

CONSTANTS
    Address4, Address6,  \* the addresses that are written
    Part,                \* what is put in front of a name, at a dot or a dash
    MaxParts,            \* bound: parts of a name that are typed one by one
    MaxPrefix            \* bound: those in front of a written address

Dash    == 16
Percent == 17
Other   == 18

ASSUME PartAssumption ==
    /\ Part \subseteq Seq(0..Other)
    /\ MaxParts \in Nat /\ MaxPrefix \in 0..MaxParts

None == << >>

(***************************************************************************)
(* Extract.                                                                *)
(***************************************************************************)
Parts(label) ==
    FoldLeft(LAMBDA ps, c : IF c = Dash THEN Append(ps, << >>)
                            ELSE [ps EXCEPT ![Len(ps)] = Append(@, c)],
             << << >> >>, label)

Number(base, s) == FoldLeft(LAMBDA n, d : base * n + d, 0, s)

Hexadecimal(s) == \A i \in DOMAIN s : s[i] <= 15

\* Mutant: leading zeros are allowed.
IsOctetPadded(s) ==
    Len(s) \in 1..3 /\ (\A i \in DOMAIN s : s[i] <= 9) /\ Number(10, s) <= 255

IsOctet(s) ==
    /\ Len(s) \in 1..3
    /\ Len(s) > 1 => s[1] # 0
    /\ \A i \in DOMAIN s : s[i] <= 9
    /\ Number(10, s) <= 255

Octets(four) ==
    IF \A i \in DOMAIN four : IsOctet(four[i])
    THEN [i \in DOMAIN four |-> Number(10, four[i])] ELSE None

\* Mutant: the first four labels.
DottedFromLeft(labels) == IF Len(labels) < 4 THEN None ELSE Octets(SubSeq(labels, 1, 4))

DottedIPv4(labels) ==
    IF Len(labels) < 4 THEN None
    ELSE Octets(SubSeq(labels, Len(labels) - 3, Len(labels)))

DashedIPv4(label) ==
    LET parts == Parts(label) IN
    IF Len(parts) < 4 THEN None
    ELSE Octets(SubSeq(parts, Len(parts) - 3, Len(parts)))

HexIPv4(label) ==
    LET part == Last(Parts(label)) IN
    IF Len(part) = 8 /\ Hexadecimal(part)
    THEN [i \in 1..4 |-> 16 * part[2 * i - 1] + part[2 * i]] ELSE None

\* netip.ParseAddr of a text with colons where label has dashes and without
\* dots: eight groups, or fewer and one "::", and a zone may follow.
ParseAddr(label) ==
    LET marks  == {i \in DOMAIN label : label[i] = Percent}
        end    == IF marks = {} THEN Len(label) ELSE Min(marks) - 1
        text   == SubSeq(label, 1, end)
        gaps   == {i \in 1..(end - 1) : text[i] = Dash /\ text[i + 1] = Dash}
        groups(s) == IF s = << >> THEN << >> ELSE Parts(s)
        left   == IF gaps = {} THEN groups(text) ELSE groups(SubSeq(text, 1, Min(gaps) - 1))
        right  == IF gaps = {} THEN << >> ELSE groups(SubSeq(text, Min(gaps) + 2, end))
        zeros  == [i \in 1..(8 - Len(left \o right)) |-> << 0 >>]
        valid  == /\ \A g \in Range(left \o right) : Len(g) \in 1..4 /\ Hexadecimal(g)
                  /\ IF gaps = {} THEN Len(left) = 8 ELSE Len(left \o right) < 8
                  /\ end # Len(label) - 1             \* a zone is not empty
    IN  IF ~ valid THEN None
        ELSE LET all == left \o zeros \o right IN [i \in 1..8 |-> Number(16, all[i])]

Is4In6(a) == (\A i \in 1..5 : a[i] = 0) /\ a[6] = 65535

DashedIPv6(label) ==
    LET a == ParseAddr(label) IN
    IF (\A i \in DOMAIN label : label[i] # Dash) \/ a = None THEN None
    ELSE IF Is4In6(a) THEN None ELSE a

FirstOf(found) ==
    LET hits == {i \in DOMAIN found : found[i] # None} IN
    IF hits = {} THEN None ELSE found[Min(hits)]

\* Mutant: IPv4 before IPv6.
ExtractIPv4First(labels) ==
    IF labels = << >> THEN None
    ELSE FirstOf(<< DottedIPv4(labels), DashedIPv4(Last(labels)),
                    DashedIPv6(Last(labels)), HexIPv4(Last(labels)) >>)

Extract(labels) ==
    IF labels = << >> THEN None
    ELSE FirstOf(<< DottedIPv4(labels), DashedIPv6(Last(labels)),
                    DashedIPv4(Last(labels)), HexIPv4(Last(labels)) >>)

(***************************************************************************)
(* How an address is written.                                              *)
(***************************************************************************)
Decimal(n) ==
    IF n < 10 THEN << n >>
    ELSE IF n < 100 THEN << n \div 10, n % 10 >>
    ELSE << n \div 100, (n \div 10) % 10, n % 10 >>

Join(parts) ==
    FoldLeft(LAMBDA s, p : s \o << Dash >> \o p, Head(parts), Tail(parts))

Dotted(a) == [i \in 1..4 |-> Decimal(a[i])]
Dashed(a) == Join(Dotted(a))
Hex(a)    == FlattenSeq([i \in 1..4 |-> << a[i] \div 16, a[i] % 16 >>])

Group(g) ==
    LET full == << g \div 4096, (g \div 256) % 16, (g \div 16) % 16, g % 16 >> IN
    SubSeq(full, Min({j \in 1..4 : full[j] # 0} \cup {4}), 4)

Groups(s) == IF s = << >> THEN << >> ELSE Join([i \in DOMAIN s |-> Group(s[i])])

\* In full, and with any run of zeros left out.
Written6(a) ==
    {Groups(a)} \cup
    {Groups(SubSeq(a, 1, r[1] - 1)) \o << Dash, Dash >> \o Groups(SubSeq(a, r[2] + 1, 8)) :
       r \in {r \in (1..8) \X (1..8) : r[1] <= r[2] /\ \A i \in r[1]..r[2] : a[i] = 0}}

(***************************************************************************)
(* The names that are typed.                                               *)
(***************************************************************************)
VARIABLES
    labels,  \* the labels left of the zone
    size,    \* parts typed so far, or no longer allowed
    meant,   \* the address that was written, or None
    how      \* the notation it was written in, or what became of it

vars == << labels, size, meant, how >>

Init == labels = << >> /\ size = 0 /\ meant = None /\ how = "none"

Write(a, notation, ls) ==
    /\ labels = << >>
    /\ labels' = ls /\ meant' = a /\ how' = notation
    /\ size' = MaxParts - MaxPrefix

WriteAddress ==
    \/ \E a \in Address4 :
         \/ Write(a, "dotted", Dotted(a))
         \/ Write(a, "dashed", << Dashed(a) >>)
         \/ Write(a, "hex", << Hex(a) >>)
    \/ \E a \in Address6 : \E l \in Written6(a) : Write(a, "ipv6", << l >>)

\* `name.`
AddLabel(p) ==
    /\ size < MaxParts
    /\ labels' = << p >> \o labels
    /\ size' = size + 1
    /\ UNCHANGED << meant, how >>

\* The whole label is written like an IPv6 address: what stands before a zone
\* is groups of up to four hexadecimal digits, eight of them, or fewer and a
\* double dash.
IPv6Shape(label) ==
    LET marks  == {i \in DOMAIN label : label[i] = Percent}
        text   == SubSeq(label, 1, Min({i - 1 : i \in marks} \cup {Len(label)}))
        groups == SelectSeq(Parts(text), LAMBDA g : g # << >>)
        double == \E i \in 2..Len(text) : text[i - 1] = Dash /\ text[i] = Dash
    IN  /\ \A g \in Range(groups) : Len(g) <= 4 /\ Hexadecimal(g)
        /\ IF Len(groups) = 8 THEN Len(Parts(text)) = 8 ELSE Len(groups) < 8 /\ double

\* `name-`.  An address in dashed or hexadecimal notation stays the one that
\* was meant, unless its label now is written like an IPv6 address, which
\* takes it ("taken").  An IPv6 label, which is read as a whole, and the first
\* octet of a dotted address cannot have such a prefix.
AddPart(p) ==
    LET label == p \o << Dash >> \o Head(labels) IN
    /\ size < MaxParts
    /\ labels # << >>
    /\ labels' = << label >> \o Tail(labels)
    /\ size' = size + 1
    /\ IF \/ Len(labels) > IF how = "dotted" THEN 4 ELSE 1
          \/ how \in {"dashed", "hex"} /\ ~ IPv6Shape(label)
       THEN UNCHANGED << meant, how >>
       ELSE meant' = None /\ how' = IF how \in {"dashed", "hex"} THEN "taken" ELSE "none"

Next ==
    \/ WriteAddress
    \/ \E p \in Part : AddLabel(p) \/ AddPart(p)

Spec == Init /\ [][Next]_vars

(***************************************************************************)
(* Properties.                                                             *)
(***************************************************************************)
\* An address that was written in one of the four notations is the address
\* that is found, whatever labels stand before it, and whatever stands before
\* a dash in the label of a dashed or hexadecimal one, hexadecimal words like
\* db included: a prefix is not taken for a part of the address, nor an IPv6
\* address for its last four groups (Extract, magic.go:5 and 15-25).  Against
\* magic.go:15-17, a prefix that makes the label an IPv6 address wins over
\* the IPv4 address at its end: a-b-c-d-10-0-0-7 is a:b:c:d:10:0:0:7, and
\* db--10-0-0-7 is db::10:0:0:7.
WrittenIsRead ==
    /\ meant # None => Extract(labels) = meant
    /\ how = "taken" => Len(Extract(labels)) = 8

\* No other name is hijacked: what is found as an IPv4 address ends the name
\* in the one dotted, dashed or hexadecimal spelling of it, at a dot or a
\* dash; what is found as an IPv6 address is a label with no other character
\* than hexadecimal digits and dashes, a zone excepted (octet, hexIPv4,
\* dashedIPv6).
OnlyAddressesAreRead ==
    LET a == Extract(labels)
        l == Last(labels)
        EndsIn(s) == l = s \/ IsSuffix(<< Dash >> \o s, l)
    IN  /\ Len(a) = 4 => \/ IsSuffix(Dotted(a), labels)
                         \/ EndsIn(Dashed(a))
                         \/ EndsIn(Hex(a))
        /\ Len(a) = 8 => \A i \in DOMAIN l : l[i] = Other =>
                           \E j \in 1..(i - 1) : l[j] = Percent

\* A label in front never takes an address away or turns it into another
\* one: what is found does not depend on how deep the name is
\* (Extract "always anchors at the right edge").
DepthKeepsAddress ==
    [][Extract(labels) # None /\ Tail(labels') = labels
         => Extract(labels') = Extract(labels)]_vars
=============================================================================
