------------------------------ MODULE Transit ------------------------------
(***************************************************************************)
(* A message is encoded, travels, and is decoded.  On its way it may be    *)
(* cut short, as a datagram larger than the reader's buffer is, or lose    *)
(* one octet to noise; and octets arrive that no encoder of this program   *)
(* has made.                                                               *)
(***************************************************************************)
EXTENDS WireMessages

CONSTANTS
    Messages,  \* the messages encoded
    Noise,     \* the values a damaged octet may take
    Foreign    \* octets from elsewhere

ASSUME TransitAssumption ==
    Messages \subseteq DnsMessage /\ Noise \subseteq Byte /\ Foreign \subseteq Octets

VARIABLES
    sent,  \* the message that was encoded
    net,   \* the octets under way
    fate,  \* what happened to them
    got    \* what Decode made of them

vars == << sent, net, fate, got >>

NoMessage == [err |-> "none"]

Init ==
    /\ sent = NoMessage
    /\ net = << >>
    /\ fate = "none"
    /\ got = NoMessage

\* Nothing leaves where Encode fails.
Send(m) ==
    /\ fate = "none"
    /\ sent' = m
    /\ \/ /\ Encode(m).err = "nil"
          /\ net' = Encode(m).buf
          /\ fate' = "intact"
       \/ /\ Encode(m).err # "nil"
          /\ fate' = "refused"
          /\ UNCHANGED net
    /\ UNCHANGED got

Inject(s) ==
    /\ fate = "none"
    /\ net' = s
    /\ fate' = "foreign"
    /\ UNCHANGED << sent, got >>

Cut(k) ==
    /\ fate = "intact" /\ got = NoMessage
    /\ net' = SubSeq(net, 1, k)
    /\ fate' = "cut"
    /\ UNCHANGED << sent, got >>

Damage(i, v) ==
    /\ fate = "intact" /\ got = NoMessage
    /\ v # net[i]
    /\ net' = [net EXCEPT ![i] = v]
    /\ fate' = "damaged"
    /\ UNCHANGED << sent, got >>

Receive ==
    /\ fate \notin {"none", "refused"} /\ got = NoMessage
    /\ got' = Decode(net)
    /\ UNCHANGED << sent, net, fate >>

Next ==
    \/ \E m \in Messages : Send(m)
    \/ \E s \in Foreign : Inject(s)
    \/ \E k \in 0..(Len(net) - 1) : Cut(k)
    \/ \E i \in DOMAIN net, v \in Noise : Damage(i, v)
    \/ Receive

Spec == Init /\ [][Next]_vars

(***************************************************************************)
(* Properties.                                                             *)
(***************************************************************************)
\* What Encode accepts Decode reads back, names in lower case and all else
\* the same: however the names share suffixes, with as many nested pointers
\* as the hop limit allows and with names beyond the offsets a pointer can
\* hold (builder.name, cursor.name, encodeRR, decodeRData).
RoundTrip ==
    (fate = "intact" /\ got # NoMessage) =>
      got = [err |-> "nil", msg |-> Lowered(sent)]

\* A message that was cut short, wherever it was cut, is not taken for a
\* shorter message: Decode refuses every strict prefix of what Encode made,
\* so ServeUDP answers FORMERR to what its 4096-octet buffer cut.
PrefixRefused ==
    (fate = "cut" /\ got # NoMessage) => got.err # "nil"

\* Whatever the octets, pointers to pointers and loops included, reading a
\* name takes no more iterations than the hop limit and the length limit
\* allow together (cursor.name).
DecoderEnds == got.err # "walk"

\* A message decoded from any octets at all, when it can be encoded again,
\* is decoded to the same message: the question the server echoes is the
\* question it answered.
StableOnceDecoded ==
    (got.err = "nil" /\ Encode(got.msg).err = "nil") =>
      Decode(Encode(got.msg).buf) = got

\* name.go:15 "maxNameWire is the RFC 1035 limit on the encoded form (255
\* octets)": a name that Decode accepts has an encoded form within it.
DecodedNamesFit ==
    got.err = "nil" =>
      \A i \in DOMAIN got.msg.questions :
        Len(WireLabels(SplitLabels(got.msg.questions[i].name))) + 1 <= MaxNameWire
=============================================================================
