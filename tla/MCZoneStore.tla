---------------------------- MODULE MCZoneStore ----------------------------
(***************************************************************************)
(* Small instances of ZoneStore.  Two labels that are each other's case,   *)
(* one invalid label; two addresses and one TXT string.                    *)
(***************************************************************************)
EXTENDS ZoneStore, TLC

MCLabel      == {"", "a", "A", "b", "-", "z"}
MCValidLabel == {"a", "b", "z"}
MCLowerOf    == [l \in MCLabel |-> IF l = "A" THEN "a" ELSE l]
MCZone       == << "z" >>

V4(b)   == [fam |-> "v4", bits |-> b]
V6(b)   == [fam |-> "v6", bits |-> b]
RecA(b) == [type |-> "A", addr |-> V4(b), txt |-> << >>, ttl |-> 0]
RecTXT  == [type |-> "TXT", addr |-> NoAddr, txt |-> << "t" >>, ttl |-> 30]

\* One name under two spellings and several types, and a refused name.
MutatorOps ==
    {SetCall(<< "A" >>, RecA(1)), SetCall(<< "a" >>, RecTXT),
     SetCall(<< "-" >>, RecA(1)),
     DeleteCall(<< "a" >>, AllTypes), DeleteCall(<< "A" >>, "TXT")}

ReaderOps == {LookupCall(<< "A" >>), NamesCall, SerialCall}

MCOps == MutatorOps \cup ReaderOps

NoSeeds == << >>

\* A seed of the name the API also writes, and one mapped IPv6 address.
OneSeed == << [name |-> << "A", "" >>, addr |-> [fam |-> "4in6", bits |-> 2]] >>

Symmetry == Permutations(Proc)
=============================================================================
