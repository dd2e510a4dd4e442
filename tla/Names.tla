------------------------------- MODULE Names -------------------------------
(***************************************************************************)
(* Domain names as the program handles them: Go strings cut at their dots. *)
(* A name is the non-empty sequence strings.Split(name, ".") yields, so    *)
(* "a.b" is <<"a", "b">>, "a." is <<"a", "">> and "" is <<"">>.  A label   *)
(* is any dot-free string; what the per-character tests of ValidateName    *)
(* accept is the set ValidLabel, and LowerOf is strings.ToLower.           *)
(***************************************************************************)
EXTENDS Naturals, Sequences

CONSTANTS
    Label,       \* every dot-free string of the model, "" among them
    LowerOf,     \* strings.ToLower on labels
    ValidLabel,  \* labels of [a-z0-9_-], 1-63 long, no '-' at either end
    Zone         \* the served zone's apex, in canonical form

ASSUME LabelAssumption ==
    /\ "" \in Label
    /\ LowerOf \in [Label -> Label]
    /\ \A l \in Label : LowerOf[LowerOf[l]] = LowerOf[l]
    /\ \A l \in Label : (LowerOf[l] = "") <=> (l = "")

ASSUME ValidLabelAssumption ==
    /\ ValidLabel \subseteq Label \ {""}
    /\ \A l \in ValidLabel : LowerOf[l] = l

ASSUME ZoneAssumption ==
    /\ Zone \in Seq(Label)
    /\ Zone # << >>
    /\ \A i \in DOMAIN Zone : LowerOf[Zone[i]] = Zone[i]

\* Every name, the ones the program refuses included.
Name == Seq(Label)

\* "", which is the zone's apex where a name is relative to the zone.
EmptyName == << "" >>

ToLower(n) == [i \in DOMAIN n |-> LowerOf[n[i]]]

\* strings.TrimSuffix(n, "."): one trailing dot goes, and only one.
TrimDot(n) ==
    IF Len(n) > 1 /\ n[Len(n)] = "" THEN SubSeq(n, 1, Len(n) - 1) ELSE n

\* dnswire.CanonicalName
CanonicalName(n) == ToLower(TrimDot(n))

\* strings.HasSuffix(n, "." + zone): some part stands left of the zone.
Under(n, z) ==
    /\ Len(n) > Len(z)
    /\ SubSeq(n, Len(n) - Len(z) + 1, Len(n)) = z

\* strings.TrimSuffix(n, "." + zone), for a name under the zone.
Left(n, z) == SubSeq(n, 1, Len(n) - Len(z))

MaxLabels == 3

\* zone.ValidateName returns nil.  The empty name falls out with its label.
ValidName(n) ==
    /\ Len(n) \in 1..MaxLabels
    /\ \A i \in DOMAIN n : n[i] \in ValidLabel
=============================================================================
