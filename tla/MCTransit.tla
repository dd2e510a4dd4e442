----------------------------- MODULE MCTransit -----------------------------
(***************************************************************************)
(* Messages that reach every limit: names of 11 octets, three hops, and    *)
(* pointers to the first 64 octets.                                        *)
(***************************************************************************)
EXTENDS Transit

a == 97
b == 98
c == 99
d == 100
z == 122
UpperA == 65

Az   == << a, 46, z >>
Nz   == << d, 46, z >>
Wide == << a, b, 46, c, d, 46, z >>

Header(id) ==
    [id |-> id, qr |-> TRUE, opcode |-> 0, aa |-> TRUE, tc |-> FALSE,
     rd |-> TRUE, ra |-> FALSE, rcode |-> 0]

Ask(n, t) == << [name |-> n, type |-> t, class |-> 1] >>

RR(n, t, data) ==
    [name |-> n, type |-> t, class |-> 1, ttl |-> << 0, 60 >>, data |-> data]

SOA(n, m, r) ==
    RR(n, TypeSOA, [kind |-> "SOA", mname |-> m, rname |-> r,
                    vals |-> [i \in 1..5 |-> << i, 300 >>]])

Msg(id, q, an, au) ==
    [header |-> Header(id), questions |-> q, answers |-> an,
     authority |-> au, additional |-> << >>]

V4 == [kind |-> "A", addr |-> << 10, 0, 0, 7 >>]
V6 == [kind |-> "AAAA", addr |-> [i \in 1..16 |-> 17 - i]]
Cname(n) == [kind |-> "CNAME", host |-> n]
Txt(ss) == [kind |-> "TXT", strings |-> ss]

\* Every name is one label longer than the one before it.
Nested ==
    << RR(<< b, 46, a >>, TypeCNAME, Cname(<< c, 46, b, 46, a >>)),
       RR(<< d, 46, c, 46, b, 46, a >>, TypeA, V4) >>

\* The first of the last two names begins beyond the pointers' reach.
Far ==
    << RR(Az, TypeTXT, Txt(<< [i \in 1..30 |-> c], << d >> >>)),
       RR(<< d, d, 46, b, 46, z >>, TypeA, V4),
       RR(<< a, 46, b, 46, z >>, TypeA, V4) >>

MCMessages ==
    {[Msg(300, Ask(Az, TypeA), << >>, << >>) EXCEPT
        !.header = [@ EXCEPT !.qr = FALSE, !.aa = FALSE]],
     [Msg(1, << >>, << >>, << >>) EXCEPT
        !.header = [@ EXCEPT !.rcode = 1, !.opcode = 5, !.tc = TRUE]],
     Msg(2, Ask(<< UpperA, 46, z >>, 255), << RR(Az, TypeA, V4), RR(Az, TypeAAAA, V6) >>, << >>),
     Msg(3, Ask(<< z >>, 255),
         << RR(<< z >>, TypeNS, [kind |-> "NS", host |-> Nz]), SOA(<< z >>, Nz, Az) >>, << >>),
     Msg(4, Ask(Wide, TypeA), << >>, << SOA(<< z >>, Nz, << >>) >>),
     Msg(5, Ask(<< a >>, TypeA), Nested, << >>),
     Msg(6, Ask(Az, TypeTXT), Far, << >>),
     [Msg(7, Ask(<< >>, 41) \o Ask(Az, TypeA), << >>, << >>) EXCEPT
        !.additional = << RR(<< >>, 41, [kind |-> "raw", data |-> << 1, 2, 3 >>]) >>],
     Msg(8, Ask(<< a, b, c, 46, z >>, TypeA), << >>, << >>),
     Msg(9, Ask(<< a, a, 46, b, b, 46, c, c, 46, d >>, TypeA), << >>, << >>),
     Msg(10, Ask(Az, TypeAAAA),
         << RR(Az, TypeAAAA, [kind |-> "AAAA", addr |-> << 0, 0, 0, 0, 0, 0, 0, 0, 0, 0, 255, 255, 1, 2, 3, 4 >>]) >>,
         << >>),
     Msg(11, Ask(Az, TypeTXT), << RR(Az, TypeTXT, Txt(<< >>)) >>, << >>),
     Msg(12, Ask(<< a, 46, 46, z >>, TypeA), << >>, << >>)}

MCNoise == {0, 1, 2, 12, 14, 46, 63, 64, 192, 193, 255}

OneQuestion == << 0, 9, 1, 0, 0, 1, 0, 0, 0, 0, 0, 0 >>

\* Pointers to themselves, to each other, forward and in a long chain; a
\* label of reserved type, one with a dot in it, one of no valid UTF-8.
MCForeign ==
    {OneQuestion \o s \o << 0, 1, 0, 1 >> :
       s \in {<< 192, 12 >>, << 192, 14, 192, 12 >>, << 1, a, 192, 12 >>,
              << 192, 16, 0, 0, 0 >>, << 192, 2 >>, << 64, 0 >>, << 128, 0 >>,
              << 3, a, 46, b, 0 >>, << 1, 255, 0 >>, << 1, 46, 0 >>,
              << 2, a, a, 2, b, b, 2, c, c, 1, d, 0 >>}}

NoMessages == {}
=============================================================================
