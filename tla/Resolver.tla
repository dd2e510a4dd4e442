------------------------------ MODULE Resolver -----------------------------
(***************************************************************************)
(* How one question is answered (internal/resolver), as functions of the   *)
(* configuration, the question and what the store returned.  A section of  *)
(* an answer is a set of resource records; the SOA record is added when    *)
(* the store has been asked for the serial.                                *)
(***************************************************************************)
EXTENDS Names, Records

CONSTANTS
    FlagTTL,     \* --ttl
    FlagNegTTL,  \* --neg-ttl
    FlagNS,      \* --ns, canonical; EmptyName when not given
    NSLabel,     \* the label "ns"
    ApexA,       \* --apex, or NoAddr; optionalAddr has unmapped it
    Fallback,    \* --fallback, or NoAddr; unmapped as well
    Magic        \* magic.Extract: a relative name's address, or NoAddr

\* The flags, as runServe reads them.
ASSUME ConfigAssumption ==
    /\ FlagTTL \in Nat /\ FlagNegTTL \in Nat
    /\ FlagNS \in Name /\ NSLabel \in Label
    /\ ApexA \in Addr \cup {NoAddr} /\ Fallback \in Addr \cup {NoAddr}

QType == Type \cup {"NS", "SOA", "ANY", "other"}
QClass == {"IN", "ANY", "CH"}

DefaultTTL == 60

\* withDefaults
TTL    == IF FlagTTL = 0 THEN DefaultTTL ELSE FlagTTL
NegTTL == IF FlagNegTTL = 0 THEN DefaultTTL ELSE FlagNegTTL
NSHost == IF FlagNS = EmptyName THEN << NSLabel >> \o Zone ELSE FlagNS

\* relative: EmptyName for the apex.
InZone(name) == name = Zone \/ Under(name, Zone)
Relative(name) == IF name = Zone THEN EmptyName ELSE Left(name, Zone)

NsRel == IF Under(NSHost, Zone) THEN Left(NSHost, Zone) ELSE EmptyName

RR(name, type, ttl, data) ==
    [name |-> name, type |-> type, ttl |-> ttl, data |-> data]

SOA(serial) ==
    RR(Zone, "SOA", NegTTL,
       [mname |-> NSHost, serial |-> serial, minimum |-> NegTTL])

NS == RR(Zone, "NS", TTL, [host |-> NSHost])

\* Where the SOA record goes: nowhere, the answer or the authority section.
Result(rcode, answers, soa) ==
    [rcode |-> rcode, answers |-> answers, soa |-> soa]

\* Mutant: REFUSED carries the SOA too.
NegativeAlways(rcode) == Result(rcode, {}, "authority")

Negative(rcode) ==
    Result(rcode, {},
           IF rcode \in {"NXDOMAIN", "NOERROR"} THEN "authority" ELSE "none")

\* addressRR: one record, or none when the family is not the asked one.
AddressRR(name, qtype, addr, ttl) ==
    CASE (Is4(addr) \/ Is4In6(addr)) /\ qtype \in {"A", "ANY"} ->
           {RR(name, "A", ttl, Unmap(addr))}
      [] ~ (Is4(addr) \/ Is4In6(addr)) /\ qtype \in {"AAAA", "ANY"} ->
           {RR(name, "AAAA", ttl, addr)}
      [] OTHER -> {}

\* Mutant: the name does not exist because the type does not.
AddressAnswerNX(name, qtype, addr) ==
    LET rrs == AddressRR(name, qtype, addr, TTL) IN
    IF rrs = {} THEN Negative("NXDOMAIN") ELSE Result("NOERROR", rrs, "none")

AddressAnswer(name, qtype, addr) ==
    LET rrs == AddressRR(name, qtype, addr, TTL) IN
    IF rrs = {} THEN Negative("NOERROR") ELSE Result("NOERROR", rrs, "none")

Apex(qtype) ==
    LET want(t) == qtype \in {t, "ANY"}
        rrs == (IF want("NS") THEN {NS} ELSE {})
                 \cup (IF IsValid(ApexA) THEN AddressRR(Zone, qtype, ApexA, TTL)
                       ELSE {})
    IN  IF rrs = {} /\ ~ want("SOA") THEN Negative("NOERROR")
        ELSE Result("NOERROR", rrs, IF want("SOA") THEN "answer" ELSE "none")

Data(rec) == IF rec.type = "TXT" THEN [strings |-> rec.txt] ELSE rec.addr

\* Mutant: a TTL of 0 is taken literally.
RecTTLRaw(rec) == rec.ttl

RecTTL(rec) == IF rec.ttl = 0 THEN TTL ELSE rec.ttl

Stored(name, qtype, recs) ==
    LET rrs == {RR(name, rec.type, RecTTL(rec), Data(rec)) :
                  rec \in {r \in recs : qtype \in {r.type, "ANY"}}}
    IN  IF rrs = {} THEN Negative("NOERROR") ELSE Result("NOERROR", rrs, "none")

\* The questions that are answered without the store's records.
AnsweredByConfig(q) ==
    LET name == CanonicalName(q.name) IN
    \/ q.class \notin {"IN", "ANY"}
    \/ ~ InZone(name)
    \/ Relative(name) = EmptyName
    \/ Relative(name) = NsRel /\ IsValid(ApexA)

ConfigAnswer(q) ==
    LET name == CanonicalName(q.name) IN
    IF q.class \notin {"IN", "ANY"} \/ ~ InZone(name) THEN Negative("REFUSED")
    ELSE IF Relative(name) = EmptyName THEN Apex(q.type)
    ELSE AddressAnswer(name, q.type, ApexA)

\* Mutant: the address in a name's labels beats what is registered for it.
StoreAnswerMagicFirst(q, recs) ==
    LET name == CanonicalName(q.name)
        rel  == Relative(name)
    IN  IF IsValid(Magic[rel]) THEN AddressAnswer(name, q.type, Magic[rel])
        ELSE IF recs # {} THEN Stored(name, q.type, recs)
        ELSE IF IsValid(Fallback) THEN AddressAnswer(name, q.type, Fallback)
        ELSE Negative("NXDOMAIN")

\* The others, once Lookup has returned recs.
StoreAnswer(q, recs) ==
    LET name == CanonicalName(q.name)
        rel  == Relative(name)
    IN  IF recs # {} THEN Stored(name, q.type, recs)
        ELSE IF IsValid(Magic[rel]) THEN AddressAnswer(name, q.type, Magic[rel])
        ELSE IF IsValid(Fallback) THEN AddressAnswer(name, q.type, Fallback)
        ELSE Negative("NXDOMAIN")

\* The message, with the serial the store returned (0 where none is needed).
Message(res, serial) ==
    [rcode     |-> res.rcode,
     answers   |-> res.answers \cup
                     (IF res.soa = "answer" THEN {SOA(serial)} ELSE {}),
     authority |-> IF res.soa = "authority" THEN {SOA(serial)} ELSE {}]
=============================================================================
