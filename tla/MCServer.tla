------------------------------ MODULE MCServer -----------------------------
(***************************************************************************)
(* A small zone "z", two clients with the same identifier and questions of *)
(* the same length ("A.z." is one), whose answers differ and one of which  *)
(* is too long for a datagram of 40 octets, and one whose name has no      *)
(* encoded form.                                                           *)
(***************************************************************************)
EXTENDS Server

Ascii == [a |-> 97, b |-> 98, n |-> 110, z |-> 122]

InZ(l) == << Ascii[l], 46, Ascii.z >>

RR(n, t, data) ==
    [name |-> n, type |-> t, class |-> 1, ttl |-> << 0, 60 >>, data |-> data]

SOA ==
    RR(<< Ascii.z >>, TypeSOA,
       [kind |-> "SOA", mname |-> InZ("n"), rname |-> InZ("a"),
        vals |-> [i \in 1..5 |-> << 0, i >>]])

\* a.z has an address, b.z a text, and no other name is known.
MCResolve(q) ==
    CASE q.name = InZ("a") /\ q.type = TypeA ->
           [rcode |-> 0, authority |-> << >>,
            answers |-> << RR(q.name, TypeA, [kind |-> "A", addr |-> << 10, 0, 0, 7 >>]) >>]
      [] q.name = InZ("b") /\ q.type = TypeTXT ->
           [rcode |-> 0, authority |-> << >>,
            answers |-> << RR(q.name, TypeTXT, [kind |-> "TXT", strings |-> << << 1, 2, 3, 4, 5, 6, 7, 8 >> >>]) >>]
      [] OTHER -> [rcode |-> 3, answers |-> << >>, authority |-> << SOA >>]

MCUdp == {"u1", "u2", "u3"}
MCTcp == {"t"}
MCPipeliner == {"p"}

MCCast == {{"u1", "u2"}, {"u3"}, {"s"}, {"t"}, {"p"}}

MCAsked ==
    [c \in MCUdp \cup MCTcp |->
       IF c = "u1" THEN [name |-> << 65, 46, Ascii.z, 46 >>, type |-> TypeA]
       ELSE IF c = "u3" THEN [name |-> << 46, Ascii.z >>, type |-> TypeA]
       ELSE [name |-> InZ("b"), type |-> TypeTXT]]

Question(n) == << [name |-> n, type |-> TypeA, class |-> 1] >>

Sent(h, qs) ==
    Encode([Plain(9, 0) EXCEPT !.header = [@ EXCEPT !.qr = FALSE, !.opcode = h],
                               !.questions = qs]).buf

\* Its name has no encoded form: a label with a dot at its end.
Unechoable == << 0, 9, 0, 0, 0, 1, 0, 0, 0, 0, 0, 0, 2, 97, 46, 0, 0, 1, 0, 1 >>

\* A response cut short, and a header that promises a question.
Undecodable == << 0, 9, 128, 0, 0, 1, 0, 0, 0, 0, 0, 0 >>

MCStray == {Unechoable, Undecodable}

\* A good query, an opcode of 5, two questions, a response, and one more
\* query that comes too late.
Pipelined ==
    << Sent(0, Question(InZ("a"))), Sent(5, << >>),
       Sent(0, Question(InZ("a")) \o Question(InZ("b"))),
       MustEncode(Plain(9, 0)), Sent(0, Question(InZ("b"))) >>

MCPipeline == [p \in MCPipeliner |-> Pipelined]

\* The questions that reach the resolver.
Heard ==
    LET octets == Stray \cup UNION {Range(Pipeline[k]) : k \in Pipeliner}
                  \cup {Encode(NewQuery(id, Asked[c])).buf : c \in Client, id \in Ids}
        heard  == {d \in {Decode(s) : s \in octets} : d.err = "nil"}
    IN  UNION {Range(d.msg.questions) : d \in heard}

\* The hypotheses of the theorems about Server hold of this resolver.
ASSUME ResolverAssumption ==
    /\ \A q \in Heard : AnswerFits(q)
    /\ \A c \in Client : AnswerTravels(c)
=============================================================================
