---------------------------- MODULE MCUpdateAPI ----------------------------
(***************************************************************************)
(* Small instances of UpdateAPI.  The zone is "z"; "c" stands for          *)
(* "_acme-challenge", "*" for a label with a character ValidateName        *)
(* refuses.                                                                *)
(***************************************************************************)
EXTENDS ApiClient

MCLabel      == {"", "a", "A", "b", "c", "z", "@", "*"}
MCValidLabel == {"a", "b", "c", "z"}
MCLowerOf    == [l \in MCLabel |-> IF l = "A" THEN "a" ELSE l]
MCZone       == << "z" >>
MCUpperOf    == [t \in {"A", "a", "AAAA", "TXT", "MX"} |-> IF t = "a" THEN "A" ELSE t]

V4(b) == [fam |-> "v4", bits |-> b]
V6(b) == [fam |-> "v6", bits |-> b]
Mapped(b) == [fam |-> "4in6", bits |-> b]

Spelled(a) == [addr |-> a, txt |-> "x"]
Words(x)   == [addr |-> NoAddr, txt |-> x]

Update(n, v)  == [cmd |-> "update", name |-> n, type |-> "", value |-> v, ttl |-> 0]
Delete(n)     == [cmd |-> "delete", name |-> n]
AcmeSet(n, v) == [cmd |-> "acme set", name |-> n, value |-> v]
AcmeClear(n)  == [cmd |-> "acme clear", name |-> n]
List          == [cmd |-> "list"]

Typed(t, c) == [c EXCEPT !.type = t]

\* One name registered with two values, cleared and listed under its
\* spellings, and the challenge of the same name, whose owner an A record
\* shares.
TrafficCommands ==
    {Typed("a", Update(<< "A" >>, Spelled(V4(1)))),
     Update(<< "a" >>, Spelled(V4(2))),
     Delete(<< "a", "z", "" >>),
     Update(<< "c", "a" >>, Spelled(Mapped(1))),
     AcmeSet(<< "a", "z" >>, Words("x")),
     AcmeClear(<< "a" >>),
     List}

Traffic == {Sent(c, 0) : c \in TrafficCommands}

\* Every type, given or not, with every kind of value; the spellings of
\* names, and names with too many labels, with none, and with a wrong one.
OddValues == {Spelled(V4(1)), Spelled(V6(1)), Spelled(Mapped(1)), Words("x"), Words("")}

OddNames ==
    {<< "@" >>, << "z" >>, << "@", "z" >>, << "z", "z" >>, << "" >>, << "a", "*" >>,
     << "A", "b", "z" >>, << "a", "b", "a", "" >>, << "a", "b", "a", "a" >>}

OddCommands ==
    {Typed(t, Update(<< "a" >>, v)) :
       t \in {"", "a", "A", "AAAA", "TXT", "MX"}, v \in OddValues} \cup
    {Update(n, Spelled(V4(1))) : n \in OddNames} \cup
    {Delete(n) : n \in OddNames} \cup
    {AcmeSet(n, Words("x")) : n \in OddNames} \cup
    {AcmeClear(n) : n \in OddNames} \cup
    {AcmeSet(<< "a" >>, Words("")), List}

Good(t) == Sent(Update(<< "a" >>, Spelled(V4(1))), t)

NoName == EmptyName

Health ==
    [method |-> "GET", route |-> "healthz", name |-> NoName, body |-> NoBody,
     ts |-> [ok |-> FALSE, val |-> 0], sig |-> << >>]

\* Every command, one of them again from a client whose clock is ahead, and
\* what else a handler refuses.
Odd ==
    {Sent(c, 1) : c \in OddCommands} \cup
    {Good(3), Health, [Health EXCEPT !.method = "PUT"],
     Signed("PUT", "records", NoName, NoBody, 1),
     [Sent(List, 1) EXCEPT !.sig = << >>],
     [Good(1) EXCEPT !.body.addr = V4(2)],
     [Good(1) EXCEPT !.name = << "b" >>],
     [Good(1) EXCEPT !.ts.val = 2],
     [Good(1) EXCEPT !.ts.ok = FALSE],
     [Good(1) EXCEPT !.body = [kind |-> "toobig"]],
     [Good(1) EXCEPT !.body = [kind |-> "unreadable"]],
     Signed("PUT", "record", << "a" >>, [kind |-> "badjson"], 1),
     Signed("POST", "record", << "a" >>, NoBody, 1),
     Signed("POST", "acme", << "a" >>, NoBody, 1)}

NoSeeds == << >>
OneSeed == << [name |-> << "b" >>, addr |-> Mapped(2)] >>
=============================================================================
