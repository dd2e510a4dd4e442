--------------------------- MODULE TransitProofs --------------------------
(***************************************************************************)
(* Theorems about the wire format: what Encode and Decode make of a        *)
(* message under way.  The lemmas are those of WireMessagesProofs.         *)
(***************************************************************************)
EXTENDS Transit, WireMessagesProofs

(***************************************************************************)
(* The octets under way are what the fate says: all that Encode made of    *)
(* the message sent, the first of them, or others.                         *)
(***************************************************************************)
Encoded == sent \in DnsMessage /\ Encode(sent).err = "nil"

Whole == Encode(sent).buf

NetInv ==
    /\ net \in Octets
    /\ fate = "intact" => Encoded /\ net = Whole
    /\ fate = "cut" => Encoded /\ \E k \in Nat : k < Len(Whole) /\ net = SubSeq(Whole, 1, k)

GotInv ==
    got # NoMessage => fate \notin {"none", "refused"} /\ got = Decode(net)

TransitInv == NetInv /\ GotInv

LEMMA InitTransit == Init => TransitInv
  BY EmptyOctets DEF Init, TransitInv, NetInv, GotInv

LEMMA SendTransit ==
    ASSUME TransitInv, NEW m \in Messages, Send(m) PROVE TransitInv'
<1>1. m \in DnsMessage /\ net \in Octets /\ sent' = m /\ fate = "none" /\ got' = got
  BY TransitAssumption DEF Send, TransitInv, NetInv
<1>2. got = NoMessage
  BY <1>1 DEF TransitInv, GotInv
<1>3. CASE Encode(m).err = "nil" /\ net' = Encode(m).buf /\ fate' = "intact"
  <2>1. Encode(m).buf \in Octets
    BY <1>1, <1>3, EncodeLaid
  <2> QED
    BY <1>1, <1>2, <1>3, <2>1 DEF TransitInv, NetInv, GotInv, Encoded, Whole
<1>4. CASE net' = net /\ fate' = "refused"
  BY <1>1, <1>2, <1>4 DEF TransitInv, NetInv, GotInv
<1> QED
  BY <1>3, <1>4 DEF Send

LEMMA InjectTransit ==
    ASSUME TransitInv, NEW s \in Foreign, Inject(s) PROVE TransitInv'
<1>1. s \in Octets /\ net' = s /\ fate = "none" /\ fate' = "foreign" /\ got' = got
  BY TransitAssumption DEF Inject
<1>2. got = NoMessage
  BY <1>1 DEF TransitInv, GotInv
<1> QED
  BY <1>1, <1>2 DEF TransitInv, NetInv, GotInv

LEMMA CutTransit ==
    ASSUME TransitInv, NEW k \in 0..(Len(net) - 1), Cut(k) PROVE TransitInv'
<1>1. /\ net \in Octets /\ Encoded /\ net = Whole /\ got = NoMessage
      /\ net' = SubSeq(net, 1, k) /\ fate' = "cut" /\ sent' = sent /\ got' = got
  BY DEF Cut, TransitInv, NetInv
<1>2. Len(net) \in Nat
  BY <1>1, OctetsLen
<1>3. k \in Nat /\ k < Len(net) /\ k <= Len(net)
  BY <1>2
<1>4. net' \in Octets
  BY <1>1, <1>3, SplitAt
<1>5. Encoded' /\ Whole' = Whole
  BY <1>1 DEF Encoded, Whole
<1>6. \E j \in Nat : j < Len(Whole') /\ net' = SubSeq(Whole', 1, j)
  <2>1. k < Len(Whole') /\ net' = SubSeq(Whole', 1, k)
    BY <1>1, <1>3, <1>5
  <2> QED
    BY <1>3, <2>1
<1> QED
  BY <1>1, <1>4, <1>5, <1>6 DEF TransitInv, NetInv, GotInv

LEMMA DamageTransit ==
    ASSUME TransitInv, NEW i \in DOMAIN net, NEW v \in Noise, Damage(i, v) PROVE TransitInv'
<1>1. /\ net \in Octets /\ v \in Byte /\ got = NoMessage
      /\ net' = Changed(net, i, v) /\ fate' = "damaged" /\ sent' = sent /\ got' = got
  BY TransitAssumption DEF Damage, TransitInv, NetInv, Changed
<1>2. i \in 1..Len(net)
  BY <1>1, SeqFunction DEF Octets
<1>3. net' \in Octets
  BY <1>1, <1>2, ChangedOctets
<1> QED
  BY <1>1, <1>3 DEF TransitInv, NetInv, GotInv

LEMMA ReceiveTransit ==
    ASSUME TransitInv, Receive PROVE TransitInv'
  BY DEF Receive, TransitInv, NetInv, GotInv, Encoded, Whole

LEMMA StepTransit == TransitInv /\ [Next]_vars => TransitInv'
<1> SUFFICES ASSUME TransitInv, [Next]_vars PROVE TransitInv'
  OBVIOUS
<1>1. ASSUME NEW m \in Messages, Send(m) PROVE TransitInv'
  BY <1>1, SendTransit
<1>2. ASSUME NEW s \in Foreign, Inject(s) PROVE TransitInv'
  BY <1>2, InjectTransit
<1>3. ASSUME NEW k \in 0..(Len(net) - 1), Cut(k) PROVE TransitInv'
  BY <1>3, CutTransit
<1>4. ASSUME NEW i \in DOMAIN net, NEW v \in Noise, Damage(i, v) PROVE TransitInv'
  BY <1>4, DamageTransit
<1>5. CASE Receive
  BY <1>5, ReceiveTransit
<1>6. CASE UNCHANGED vars
  BY <1>6 DEF vars, TransitInv, NetInv, GotInv, Encoded, Whole
<1> QED
  BY <1>1, <1>2, <1>3, <1>4, <1>5, <1>6 DEF Next

LEMMA TransitAlways == Spec => []TransitInv
  BY InitTransit, StepTransit, PTL DEF Spec

(***************************************************************************)
(* The properties of the runs.                                             *)
(***************************************************************************)
\* Whatever the octets, reading them ends: no name takes more iterations of
\* cursor.name's loop than the limits on hops and on length allow together.
THEOREM ReadingEnds == Spec => []DecoderEnds
<1>1. TransitInv => DecoderEnds
  <2> SUFFICES ASSUME TransitInv PROVE got.err # "walk"
    BY DEF DecoderEnds
  <2>1. CASE got = NoMessage
    BY <2>1 DEF NoMessage
  <2>2. CASE got # NoMessage
    <3>1. net \in Octets /\ got = Decode(net)
      BY <2>2 DEF TransitInv, NetInv, GotInv
    <3>2. got.err = "nil" \/ Fails(got)
      BY <3>1, DecodeEnds
    <3> QED
      BY <3>2, FailsIsError
  <2> QED
    BY <2>1, <2>2
<1> QED
  BY <1>1, TransitAlways, PTL

\* A strict prefix of what Encode made is never taken for a message.
THEOREM PrefixesRefused == Spec => []PrefixRefused
<1>1. TransitInv => PrefixRefused
  <2> SUFFICES ASSUME TransitInv, fate = "cut", got # NoMessage PROVE got.err # "nil"
    BY DEF PrefixRefused
  <2>1. /\ Encoded /\ got = Decode(net)
        /\ \E k \in Nat : k < Len(Whole) /\ net = SubSeq(Whole, 1, k)
    BY DEF TransitInv, NetInv, GotInv
  <2>2. PICK k \in Nat : k < Len(Whole) /\ net = SubSeq(Whole, 1, k)
    BY <2>1
  <2> QED
    BY <2>1, <2>2, PrefixFails DEF Encoded, Whole
<1> QED
  BY <1>1, TransitAlways, PTL

\* What arrives whole and is decoded at all is the message sent, names in
\* lower case: whatever the messages, their names and their pointers.
NothingMisread ==
    fate = "intact" /\ got # NoMessage /\ got.err = "nil" =>
      got = [err |-> "nil", msg |-> Lowered(sent)]

THEOREM IntactReadsRight == Spec => []NothingMisread
<1>1. TransitInv => NothingMisread
  <2> SUFFICES ASSUME TransitInv, fate = "intact", got # NoMessage, got.err = "nil"
               PROVE  got = [err |-> "nil", msg |-> Lowered(sent)]
    BY DEF NothingMisread
  <2>1. Encoded /\ got = Decode(Whole)
    BY DEF TransitInv, NetInv, GotInv
  <2> QED
    BY <2>1, EncodeDecoded DEF Encoded, Whole
<1> QED
  BY <1>1, TransitAlways, PTL

\* And it is decoded whenever the message spells no more names than the hop
\* limit: what builder.name compresses nests no deeper than their number.
THEOREM ShallowRoundTrip == Spec => [](Shallow(sent) => RoundTrip)
<1>1. TransitInv => (Shallow(sent) => RoundTrip)
  <2> SUFFICES ASSUME TransitInv, Shallow(sent), fate = "intact", got # NoMessage
               PROVE  got = [err |-> "nil", msg |-> Lowered(sent)]
    BY DEF RoundTrip
  <2>1. Encoded /\ got = Decode(Whole)
    BY DEF TransitInv, NetInv, GotInv
  <2> QED
    BY <2>1, EncodeDecoded DEF Encoded, Whole
<1> QED
  BY <1>1, TransitAlways, PTL

\* A message that was decoded, whoever made its octets, is decoded to itself
\* once encoded again, unless it spells more names than the hop limit.
THEOREM ShallowStable == Spec => [](Shallow(got.msg) => StableOnceDecoded)
<1>1. TransitInv => (Shallow(got.msg) => StableOnceDecoded)
  <2> SUFFICES ASSUME TransitInv, Shallow(got.msg), got.err = "nil",
                      Encode(got.msg).err = "nil"
               PROVE  Decode(Encode(got.msg).buf) = got
    BY DEF StableOnceDecoded
  <2>1. CASE got = NoMessage
    BY <2>1 DEF NoMessage
  <2>2. CASE got # NoMessage
    <3>1. net \in Octets /\ got = Decode(net)
      BY <2>2 DEF TransitInv, NetInv, GotInv
    <3>2. got = [err |-> "nil", msg |-> got.msg] /\ got.msg \in DnsMessage /\ Lowered(got.msg) = got.msg
      BY <3>1, DecodeTyped
    <3> QED
      BY <3>2, EncodeDecoded
  <2> QED
    BY <2>1, <2>2
<1> QED
  BY <1>1, TransitAlways, PTL
=============================================================================
