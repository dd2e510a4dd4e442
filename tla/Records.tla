------------------------------ MODULE Records ------------------------------
(***************************************************************************)
(* Addresses, the stored Record and its JSON form (internal/zone).  An     *)
(* address is its family and the bits it carries; "4in6" is an IPv4        *)
(* address written inside IPv6 (::ffff:a.b.c.d).  The order of the slice   *)
(* that holds a name's records is left out: it is a set here.              *)
(***************************************************************************)
EXTENDS Naturals, Sequences

CONSTANTS
    Bits,   \* address payloads
    Text    \* TXT strings

Addr == [fam : {"v4", "v6", "4in6"}, bits : Bits]

\* The zero netip.Addr: IsValid() is FALSE.
NoAddr == [fam |-> "zero"]

IsValid(a) == a.fam # "zero"
Is4(a)     == a.fam = "v4"
Is4In6(a)  == a.fam = "4in6"
Is6(a)     == a.fam \in {"v6", "4in6"}

\* netip.Addr.Unmap
Unmap(a) == IF Is4In6(a) THEN [a EXCEPT !.fam = "v4"] ELSE a

Type == {"A", "AAAA", "TXT"}

\* The records the program's constructors make: buildRecord, acme,
\* seedRecords and UnmarshalJSON fill addr or txt, never both.
Record ==
    [type : {"A", "AAAA"}, addr : Addr, txt : {<< >>}, ttl : Nat]
      \cup [type : {"TXT"}, addr : {NoAddr}, txt : Seq(Text), ttl : Nat]

(***************************************************************************)
(* The JSON form.  An address travels as text; << >> is a field left out   *)
(* by omitempty, << v >> one that is present.                              *)
(***************************************************************************)
AddrString(a) == [text |-> a]
ParseAddr(s)  == s.text

MarshalJSON(r) ==
    [type  |-> r.type,
     value |-> IF r.type = "TXT" THEN << >> ELSE << AddrString(r.addr) >>,
     txt   |-> IF r.type = "TXT" THEN r.txt ELSE << >>,
     ttl   |-> IF r.ttl = 0 THEN << >> ELSE << r.ttl >>]

UnmarshalJSON(j) ==
    [type |-> j.type,
     addr |-> IF j.type = "TXT" THEN NoAddr ELSE ParseAddr(j.value[1]),
     txt  |-> IF j.type = "TXT" THEN j.txt ELSE << >>,
     ttl  |-> IF j.ttl = << >> THEN 0 ELSE j.ttl[1]]
=============================================================================
