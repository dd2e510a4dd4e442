---------------------------- MODULE MCAnswering ----------------------------
(***************************************************************************)
(* Small instances of Answering.  The zone is "z"; "m" is a name whose     *)
(* labels spell an address, "ns" the name server's label.                  *)
(***************************************************************************)
EXTENDS Answering, TLC

MCLabel      == {"", "a", "A", "m", "ns", "z", "o"}
MCValidLabel == MCLabel \ {"", "A"}
MCLowerOf    == [l \in MCLabel |-> IF l = "A" THEN "a" ELSE l]
MCZone       == << "z" >>

V4(b) == [fam |-> "v4", bits |-> b]
V6(b) == [fam |-> "v6", bits |-> b]
Unset == NoAddr
Apex4 == V4(3)
Back6 == V6(3)

RecA(b) == [type |-> "A", addr |-> V4(b), txt |-> << >>, ttl |-> 0]
RecAAAA == [type |-> "AAAA", addr |-> V6(1), txt |-> << >>, ttl |-> 5]
RecTXT  == [type |-> "TXT", addr |-> NoAddr, txt |-> << "t" >>, ttl |-> 30]

MCMagic ==
    [n \in {<< "a" >>, << "m" >>, << "ns" >>} |->
       IF n = << "m" >> THEN V4(2) ELSE NoAddr]

MCFlagNS == EmptyName

\* A plain name, a name with an address in it, and the name server's own.
MCOps ==
    {SetCall(<< "A" >>, RecA(1)), SetCall(<< "m" >>, RecAAAA),
     SetCall(<< "ns" >>, RecTXT), DeleteCall(<< "a" >>, AllTypes)}

Q(n, t, c) == [name |-> n, type |-> t, class |-> c]

MCQuestion ==
    {Q(n, t, "IN") : n \in {<< "A", "z", "" >>, << "m", "z" >>}, t \in {"A", "AAAA"}}
      \cup {Q(<< "ns", "z" >>, t, "IN") : t \in {"A", "TXT"}}
      \cup {Q(<< "z" >>, t, "IN") : t \in {"ANY", "NS", "TXT"}}
      \cup {Q(<< "o" >>, "A", "IN"), Q(<< "a", "z" >>, "A", "CH"),
            Q(<< "m", "z" >>, "ANY", "ANY")}

NoSeeds == << >>
=============================================================================
