----------------------------- MODULE ServerProofs -----------------------------
(***************************************************************************)
(* Proofs about Server: the life of its listeners, the order of replies on *)
(* a connection, what a reply is, and whose answer a query prints.         *)
(***************************************************************************)
EXTENDS Server, WireMessagesProofs

(***************************************************************************)
(* The loops.  Close sets done and closes the sockets in one critical      *)
(* section, and nothing opens one after it; so a loop that finds its       *)
(* socket closed finds done set.                                           *)
(***************************************************************************)
Report == [from : Loop, err : {"nil", "error"}]

LoopInv ==
    /\ loop \in [Loop -> {"off", "read", "check", "ended"}]
    /\ errs \in Seq(Report)
    /\ done => open = {} /\ main \in {"closed", "exited"}
    /\ main = "boot" => loop = [l \in Loop |-> "off"]
    /\ \A l \in Loop : loop[l] # "off" => l \in open \/ done
    /\ \A l \in Loop : loop[l] = "check" => l \in failed \/ done
    /\ ErrorsAreReal

\* The steps that are not about the process.
LEMMA ProcessRests ==
    ASSUME Next
    PROVE  \/ Listen \/ ListenFails \/ ListenHTTP \/ ReceiveError \/ Close \/ Exit
           \/ \E l \in Loop : SocketFails(l) \/ LoopReturns(l)
           \/ UNCHANGED procVars
BY DEF Next, ReadDatagram, AnswerDatagram, Accept, ReadPrefix, ReadBody, WriteReply,
   ReadFails, WriteFails, PeerSends, PeerReads, StartQuery, EndQuery

LEMMA LoopInit == Init => LoopInv
BY DEF Init, LoopInv, ErrorsAreReal, Loop, Report

LEMMA LoopStep == LoopInv /\ [Next]_vars => LoopInv'
<1> SUFFICES ASSUME LoopInv, [Next]_vars PROVE LoopInv'
  OBVIOUS
<1>1. CASE Listen
  BY <1>1 DEF Listen, LoopInv, ErrorsAreReal, Loop
<1>2. CASE ListenFails
  BY <1>2 DEF ListenFails, LoopInv, ErrorsAreReal
<1>3. CASE ListenHTTP
  BY <1>3 DEF ListenHTTP, LoopInv, ErrorsAreReal, Loop
<1>4. ASSUME NEW l \in Loop, SocketFails(l) PROVE LoopInv'
  BY <1>4 DEF SocketFails, Alive, LoopInv, ErrorsAreReal
<1>5. ASSUME NEW l \in Loop, LoopReturns(l) PROVE LoopInv'
  <2> DEFINE e == [from |-> l, err |-> IF Closed(l) THEN "nil" ELSE "error"]
  <2>1. /\ loop[l] = "check" /\ main \notin {"boot", "exited"}
        /\ loop' = [loop EXCEPT ![l] = "ended"]
        /\ errs' = Append(errs, e)
        /\ UNCHANGED << main, done, open, failed >>
    BY <1>5 DEF LoopReturns, Alive
  <2>2. e \in Report /\ (e.err = "error" => l \in failed)
    BY <2>1 DEF Report, Closed, LoopInv
  <2> HIDE DEF e
  <2>3. e.from = l
    BY DEF e
  <2>4. errs' \in Seq(Report) /\ ErrorsAreReal'
    <3>1. errs \in Seq(Report) /\ ErrorsAreReal
      BY DEF LoopInv
    <3>2. /\ errs' \in Seq(Report) /\ Len(errs') = Len(errs) + 1
          /\ \A i \in 1..Len(errs) : errs'[i] = errs[i]
          /\ errs'[Len(errs) + 1] = e
      BY <2>1, <2>2, <3>1
    <3> QED
      BY <2>1, <2>2, <2>3, <3>1, <3>2 DEF ErrorsAreReal
  <2> QED
    BY <2>1, <2>4 DEF LoopInv
<1>6. CASE ReceiveError
  BY <1>6 DEF ReceiveError, LoopInv, ErrorsAreReal
<1>7. CASE Close
  BY <1>7 DEF Close, LoopInv, ErrorsAreReal
<1>8. CASE Exit
  BY <1>8 DEF Exit, LoopInv, ErrorsAreReal
<1>9. CASE UNCHANGED procVars
  BY <1>9 DEF procVars, LoopInv, ErrorsAreReal
<1> QED
  BY <1>1, <1>2, <1>3, <1>4, <1>5, <1>6, <1>7, <1>8, <1>9, ProcessRests
  DEF vars, procVars

LEMMA LoopAlways == Spec => []LoopInv
BY LoopInit, LoopStep, PTL DEF Spec

\* A loop reports an error only if its socket failed: one that Close has
\* woken returns nil, whichever of the two runs first (Server.Close, closed).
THEOREM RealErrors == Spec => []ErrorsAreReal
<1>1. LoopInv => ErrorsAreReal
  BY DEF LoopInv
<1> QED
  BY <1>1, LoopAlways, PTL

(***************************************************************************)
(* How the process ends.                                                   *)
(***************************************************************************)
\* runServe has nothing but failures to return with.
EndsInFailure == main = "exited" => status = "runtime"

EndInv ==
    /\ \A i \in DOMAIN errs : errs[i].err = "nil" => done
    /\ main \in {"close", "closed", "exited"} => status = "runtime"

LEMMA EndStep == LoopInv /\ EndInv /\ [Next]_vars => EndInv'
<1> SUFFICES ASSUME LoopInv, EndInv, [Next]_vars PROVE EndInv'
  OBVIOUS
<1>1. CASE Listen \/ ListenFails \/ ListenHTTP \/ Close \/ Exit
  BY <1>1 DEF Listen, ListenFails, ListenHTTP, Close, Exit, EndInv
<1>2. ASSUME NEW l \in Loop, SocketFails(l) PROVE EndInv'
  BY <1>2 DEF SocketFails, EndInv
<1>3. ASSUME NEW l \in Loop, LoopReturns(l) PROVE EndInv'
  <2> DEFINE e == [from |-> l, err |-> IF Closed(l) THEN "nil" ELSE "error"]
  <2>1. /\ loop[l] = "check" /\ errs' = Append(errs, e)
        /\ UNCHANGED << main, status, done >>
    BY <1>3 DEF LoopReturns
  <2>2. e \in Report /\ (e.err = "nil" => done)
    BY <2>1 DEF Report, Closed, LoopInv
  <2> HIDE DEF e
  <2>3. errs \in Seq(Report)
    BY DEF LoopInv
  <2>4. /\ errs' \in Seq(Report) /\ Len(errs') = Len(errs) + 1
        /\ \A i \in 1..Len(errs) : errs'[i] = errs[i]
        /\ errs'[Len(errs) + 1] = e
    BY <2>1, <2>2, <2>3
  <2> QED
    BY <2>1, <2>2, <2>3, <2>4 DEF EndInv
<1>4. CASE ReceiveError
  <2>1. errs \in Seq(Report) /\ errs # << >> /\ ~ done
    BY <1>4 DEF ReceiveError, LoopInv
  <2>2. Head(errs) = errs[1] /\ 1 \in DOMAIN errs
    BY <2>1
  <2>3. Head(errs).err # "nil"
    BY <2>1, <2>2 DEF EndInv
  <2> QED
    BY <1>4, <2>3 DEF ReceiveError, EndInv
<1>5. CASE UNCHANGED procVars
  BY <1>5 DEF procVars, EndInv
<1> QED
  BY <1>1, <1>2, <1>3, <1>4, <1>5, ProcessRests DEF vars, procVars

\* Whatever ends a loop, runServe returns with a failure: no loop has ended
\* without an error while Close has not run, so the first report that
\* runServe receives is one (the safety half of NeverHalfDead).
THEOREM FailureReported == Spec => []EndsInFailure
<1>1. Init => EndInv
  BY DEF Init, EndInv
<1>2. EndInv => EndsInFailure
  BY DEF EndInv, EndsInFailure
<1> QED
  BY <1>1, <1>2, EndStep, LoopAlways, PTL DEF Spec

(***************************************************************************)
(* Messages in pieces.                                                     *)
(***************************************************************************)
\* What is sent moves from one end of the stream to the other.
LEMMA PieceMoves ==
    ASSUME NEW s \in Octets, NEW u \in Octets, NEW n \in 1..Len(s)
    PROVE  /\ u \o SubSeq(s, 1, n) \in Octets /\ SubSeq(s, n + 1, Len(s)) \in Octets
           /\ (u \o SubSeq(s, 1, n)) \o SubSeq(s, n + 1, Len(s)) = u \o s
<1> DEFINE a == SubSeq(s, 1, n)
           b == SubSeq(s, n + 1, Len(s))
<1>1. Len(s) \in Nat
  BY LenProperties DEF Octets
<1>2. a \in Octets /\ b \in Octets
  BY <1>1, PartOctets
<1>3. a \o b = s
  <2>1. SubSeq(s, 1, n) \o SubSeq(s, n + 1, Len(s)) = SubSeq(s, 1, Len(s))
    BY <1>1, ConcatAdjacentSubSeq DEF Octets
  <2> QED
    BY <2>1, SubSeqFull DEF Octets
<1> HIDE DEF a, b
<1>4. (u \o a) \o b = u \o (a \o b)
  BY <1>2, Regroup, Zenon
<1>5. u \o a \in Octets
  <2>1. Joined(u, a, u \o a)
    BY <1>2, JoinedOctets
  <2> QED
    BY <2>1 DEF Joined
<1> QED
  BY <1>2, <1>3, <1>4, <1>5 DEF a, b

\* All of a message has arrived.
LEMMA WholeArrived ==
    ASSUME NEW u \in Octets, NEW s \in Octets, Len(u) >= Len(u \o s)
    PROVE  s = << >> /\ u = u \o s
<1>1. Len(s) = 0
  BY DEF Octets
<1>2. s = << >>
  BY <1>1, EmptySeq DEF Octets
<1> QED
  BY <1>2, ConcatEmptySeq DEF Octets

LEMMA WordOfLength ==
    ASSUME NEW n \in Nat, n < FrameSpan
    PROVE  /\ (n \div 256) % 256 \in Byte /\ n % 256 \in Byte
           /\ ((n \div 256) % 256) * 256 + (n % 256) = n
<1>1. /\ n \div 256 \in Nat /\ n \div 256 < 256
      /\ n % 256 \in Nat /\ n % 256 < 256
      /\ (n \div 256) * 256 + (n % 256) = n
  BY DEF FrameSpan
<1>2. (n \div 256) % 256 = n \div 256
  BY <1>1
<1> QED
  BY <1>1, <1>2 DEF Byte

LEMMA FrameParts ==
    ASSUME NEW o \in Octets, Len(o) < FrameSpan
    PROVE  /\ Frame(o) \in Octets /\ Len(Frame(o)) = Len(o) + 2
           /\ Word(Frame(o)) = Len(o)
           /\ \A i \in 1..Len(o) : Frame(o)[i + 2] = o[i]
<1> DEFINE x == (Len(o) \div 256) % 256
           y == Len(o) % 256
           h == << x, y >>
<1>1. Len(o) \in Nat
  BY LenProperties DEF Octets
<1>2. x \in Byte /\ y \in Byte /\ x * 256 + y = Len(o)
  BY <1>1, WordOfLength
<1>3. Frame(o) = h \o o
  BY DEF Frame, U16
<1> HIDE DEF x, y
<1>4. h \in Octets /\ Len(h) = 2 /\ h[1] = x /\ h[2] = y
  BY <1>2, PrefixOctets
<1> HIDE DEF h
<1>5. /\ h \o o \in Octets /\ Len(h \o o) = Len(h) + Len(o)
      /\ \A i \in 1..Len(h) : (h \o o)[i] = h[i]
      /\ \A i \in 1..Len(o) : (h \o o)[i + Len(h)] = o[i]
  <2>1. Joined(h, o, h \o o)
    BY <1>4, JoinedOctets
  <2> QED
    BY <2>1 DEF Joined
<1>6. 1 \in 1..Len(h) /\ 2 \in 1..Len(h)
  BY <1>4
<1>7. (h \o o)[1] = x /\ (h \o o)[2] = y
  BY <1>4, <1>5, <1>6
<1>8. Word(Frame(o)) = Len(o)
  BY <1>2, <1>3, <1>7 DEF Word
<1> QED
  BY <1>1, <1>3, <1>4, <1>5, <1>8

\* A part of a frame that holds its prefix tells its length, and what follows
\* the prefix is the message.
LEMMA PrefixRead ==
    ASSUME NEW o \in Octets, Len(o) < FrameSpan, NEW u \in Octets, NEW s \in Octets,
           u \o s = Frame(o), Len(u) >= 2
    PROVE  /\ Word(u) = Len(o)
           /\ SubSeq(u, 3, Len(u)) \in Octets
           /\ SubSeq(u, 3, Len(u)) \o s = o
<1>1. /\ Len(Frame(o)) = Len(o) + 2 /\ Word(Frame(o)) = Len(o)
      /\ \A i \in 1..Len(o) : Frame(o)[i + 2] = o[i]
  BY FrameParts
<1>2. Len(o) \in Nat
  BY LenProperties DEF Octets
<1>3. /\ Len(u) \in Nat /\ Len(s) \in Nat /\ Len(Frame(o)) = Len(u) + Len(s)
      /\ \A i \in 1..Len(u) : Frame(o)[i] = u[i]
      /\ \A i \in 1..Len(s) : Frame(o)[i + Len(u)] = s[i]
  <2>1. Joined(u, s, u \o s)
    BY JoinedOctets
  <2> QED
    BY <2>1 DEF Joined
<1>4. Word(u) = Len(o)
  <2>1. 1 \in 1..Len(u) /\ 2 \in 1..Len(u)
    BY <1>3
  <2>2. Frame(o)[1] = u[1] /\ Frame(o)[2] = u[2]
    BY <1>3, <2>1
  <2> QED
    BY <1>1, <2>2 DEF Word
<1> DEFINE v == SubSeq(u, 3, Len(u))
<1>5. /\ v \in Octets /\ Len(v) = IF 3 <= Len(u) THEN Len(u) - 3 + 1 ELSE 0
      /\ \A i \in 1..(Len(u) - 3 + 1) : v[i] = u[3 + i - 1]
  <2>1. 3 \in Nat \ {0} /\ Len(u) \in Nat /\ Len(u) <= Len(u)
    BY <1>3
  <2> QED
    BY <2>1, PartOctets
<1> HIDE DEF v
<1>6. /\ v \o s \in Octets /\ Len(v \o s) = Len(v) + Len(s)
      /\ \A i \in 1..Len(v) : (v \o s)[i] = v[i]
      /\ \A i \in 1..Len(s) : (v \o s)[i + Len(v)] = s[i]
  <2>1. Joined(v, s, v \o s)
    BY <1>5, JoinedOctets
  <2> QED
    BY <2>1 DEF Joined
<1>7. Len(v) = Len(u) - 2 /\ Len(v \o s) = Len(o)
  <2>1. Len(v) = IF 3 <= Len(u) THEN Len(u) - 3 + 1 ELSE 0
    BY <1>5
  <2>2. Len(v \o s) = Len(v) + Len(s)
    BY <1>6
  <2>3. Len(u) \in Nat /\ Len(s) \in Nat /\ Len(o) + 2 = Len(u) + Len(s)
    BY <1>1, <1>3
  <2>4. ASSUME NEW a \in Nat, NEW b \in Nat, NEW c \in Nat, a >= 2, c + 2 = a + b
        PROVE  (IF 3 <= a THEN a - 3 + 1 ELSE 0) = a - 2 /\ a - 2 + b = c
    BY <2>4
  <2>5. Len(v) = Len(u) - 2
    BY <1>2, <2>1, <2>3, <2>4
  <2> QED
    BY <1>2, <2>2, <2>3, <2>4, <2>5
<1>8. ASSUME NEW i \in 1..Len(o) PROVE (v \o s)[i] = o[i]
  <2>1. o[i] = Frame(o)[i + 2]
    BY <1>1
  <2>2. CASE i <= Len(v)
    <3>1. i \in 1..Len(v) /\ i \in 1..(Len(u) - 3 + 1) /\ 3 + i - 1 = i + 2
          /\ i + 2 \in 1..Len(u)
      BY <1>2, <1>3, <1>7, <2>2
    <3>2. (v \o s)[i] = u[i + 2]
      BY <1>5, <1>6, <3>1
    <3> QED
      BY <1>3, <2>1, <3>1, <3>2
  <2>3. CASE ~ (i <= Len(v))
    <3> DEFINE j == i - Len(v)
    <3>1. j \in 1..Len(s) /\ j + Len(v) = i /\ j + Len(u) = i + 2
      BY <1>1, <1>2, <1>3, <1>7, <2>3
    <3> HIDE DEF j
    <3>2. (v \o s)[i] = s[j]
      BY <1>6, <3>1
    <3>3. Frame(o)[i + 2] = s[j]
      BY <1>3, <3>1
    <3> QED
      BY <2>1, <3>2, <3>3
  <2> QED
    BY <2>2, <2>3
<1>9. v \o s = o
  BY <1>6, <1>7, <1>8, SeqEqual DEF Octets
<1> QED
  BY <1>4, <1>5, <1>9 DEF v

(***************************************************************************)
(* Whose answer a query prints: over UDP.  Whatever is on its way for a    *)
(* client that waits comes from the one request it has sent.               *)
(***************************************************************************)
\* A single exchange that nothing disturbs: of a client's request that reaches
\* HandleQuery as it was sent, and of a reply that comes back as it was made,
\* the client prints the answer; and both fit the length prefix of TCP.
OneExchange ==
    \A c \in Client, id \in Ids :
      LET b    == Encode(NewQuery(id, Asked[c]))
          resp == IF c \in UdpClient THEN HandleQuery(Received(b.buf), UDPLimit)
                  ELSE HandleQuery(b.buf, 0)
          p    == Outcome(id, resp)
      IN  b.err = "nil" =>
            /\ b.buf \in Seq(Byte) /\ Len(b.buf) < FrameSpan
            /\ resp \in Seq(Byte) /\ Len(resp) < FrameSpan
            /\ p.at = "printed" => IsAnswerTo(c, p)

Request(c, id) == Encode(NewQuery(id, Asked[c]))

Prints(c) == query[c].at = "printed" => IsAnswerTo(c, query[c])

UdpReply(c, id) == HandleQuery(Received(Request(c, id).buf), UDPLimit)

Handling(i, c) == hand[i].at = "run" /\ hand[i].from = c

\* All that travels for c, at each of its stations.
UdpMail(c, sent, received, reply) ==
    /\ \A d \in wire : d.from = c => d.octets \in sent
    /\ \A i \in Slot : Handling(i, c) => hand[i].req \in received
    /\ back[c] \subseteq reply

UdpOwn(c) ==
    /\ query[c].at = "idle" => UdpMail(c, {}, {}, {})
    /\ query[c].at = "wait" =>
         LET id == query[c].id IN
         /\ id \in Ids /\ Request(c, id).err = "nil"
         /\ UdpMail(c, {Request(c, id).buf}, {Received(Request(c, id).buf)},
                    {UdpReply(c, id)})
    /\ Prints(c)

UdpTypes ==
    /\ query = [c \in Client |-> query[c]]
    /\ hand = [i \in Slot |-> hand[i]]
    /\ back = [a \in Address |-> back[a]]
    /\ \A d \in wire : d.from \in Address
    /\ \A i \in Slot : hand[i].at = "run" => hand[i].from \in Address

UdpInv == UdpTypes /\ \A c \in UdpClient : UdpOwn(c)

LEMMA UdpInitially == Init => UdpInv
<1> SUFFICES ASSUME Init PROVE UdpInv
  OBVIOUS
<1>1. /\ query = [c \in Client |-> query[c]]
      /\ \A c \in Client : query[c] \in {Unasked, Away}
      /\ \A d \in wire : d.from = Stranger
      /\ hand = [i \in Slot |-> Free] /\ back = [a \in Address |-> {}]
  BY DEF Init
<1>2. UdpTypes
  BY <1>1 DEF UdpTypes, Address, Free
<1>3. ASSUME NEW c \in UdpClient PROVE UdpOwn(c)
  <2>1. c \in Client /\ c \in Address /\ c # Stranger
    BY ClientAssumption DEF ClientAssumption, Client, Address
  <2>2. UdpMail(c, {}, {}, {})
    BY <1>1, <2>1 DEF UdpMail, Handling, Free
  <2>3. query[c].at \in {"idle", "away"}
    BY <1>1, <2>1 DEF Unasked, Away
  <2> QED
    BY <2>2, <2>3 DEF UdpOwn, Prints
<1> QED
  BY <1>2, <1>3 DEF UdpInv

\* The steps that are not about datagrams.
LEMMA UdpRests ==
    ASSUME Next
    PROVE  \/ \E i \in Slot, d \in wire : ReadDatagram(i, d)
           \/ \E i \in Slot : AnswerDatagram(i)
           \/ \E c \in Client : StartQuery(c) \/ EndQuery(c)
           \/ UNCHANGED << query, udpVars >>
BY DEF Next, Listen, ListenFails, ListenHTTP, SocketFails, LoopReturns, ReceiveError, Close,
   Exit, Accept, ReadPrefix, ReadBody, WriteReply, ReadFails, WriteFails, PeerSends,
   PeerReads

\* What becomes of a query when it starts.
LEMMA QueryStarted ==
    ASSUME query = [c \in Client |-> query[c]], NEW c \in Client, StartQuery(c)
    PROVE  /\ query[c].at = "idle"
           /\ query' = [b \in Client |-> IF b = c THEN query'[c] ELSE query[b]]
           /\ \/ query'[c].at = "error" /\ UNCHANGED << wire, left >>
              \/ \E id \in Ids :
                   /\ query'[c].at = "wait" /\ query'[c].id = id
                   /\ Request(c, id).err = "nil"
                   /\ IF c \in TcpClient
                      THEN /\ left' = [left EXCEPT ![c] = Frame(Request(c, id).buf)]
                           /\ UNCHANGED wire
                      ELSE /\ wire' = wire \cup {[from |-> c, octets |-> Request(c, id).buf]}
                           /\ UNCHANGED left
           /\ UNCHANGED << hand, back, conn, up, down, seen >>
<1>1. query[c].at = "idle" /\ UNCHANGED << hand, back, conn, up, down, seen >>
  BY DEF StartQuery, Unasked
<1>2. PICK id \in Ids :
        IF Request(c, id).err # "nil"
        THEN query' = [query EXCEPT ![c] = [at |-> "error"]] /\ UNCHANGED << wire, left >>
        ELSE /\ query' = [query EXCEPT ![c] = [at |-> "wait", id |-> id]]
             /\ IF c \in TcpClient
                THEN left' = [left EXCEPT ![c] = Frame(Request(c, id).buf)] /\ UNCHANGED wire
                ELSE /\ wire' = wire \cup {[from |-> c, octets |-> Request(c, id).buf]}
                     /\ UNCHANGED left
  BY DEF StartQuery, Request
<1>3. ASSUME NEW x, query' = [query EXCEPT ![c] = x]
      PROVE  /\ query'[c] = x
             /\ query' = [b \in Client |-> IF b = c THEN query'[c] ELSE query[b]]
  BY <1>3
<1>4. CASE Request(c, id).err # "nil"
  BY <1>1, <1>2, <1>3, <1>4
<1>5. CASE Request(c, id).err = "nil"
  <2>1. query'[c] = [at |-> "wait", id |-> id]
    BY <1>2, <1>3, <1>5
  <2>2. query'[c].at = "wait" /\ query'[c].id = id
    BY <2>1
  <2>3. query' = [b \in Client |-> IF b = c THEN query'[c] ELSE query[b]]
    BY <1>2, <1>3, <1>5
  <2> QED
    BY <1>1, <1>2, <1>5, <2>2, <2>3
<1> QED
  BY <1>4, <1>5

\* What becomes of it in the end.
LEMMA QueryEnded ==
    ASSUME query = [c \in Client |-> query[c]], NEW c \in Client, EndQuery(c)
    PROVE  /\ query[c].at = "wait"
           /\ query' = [b \in Client |-> IF b = c THEN query'[c] ELSE query[b]]
           /\ query'[c].at \in {"error", "printed"}
           /\ query'[c].at = "printed" =>
                \E resp \in Responses(c) : query'[c] = Outcome(query[c].id, resp)
           /\ UNCHANGED << udpVars, tcpVars >>
<1>1. query[c].at = "wait" /\ UNCHANGED << udpVars, tcpVars >>
  BY DEF EndQuery
<1>2. ASSUME NEW x, query' = [query EXCEPT ![c] = x]
      PROVE  /\ query'[c] = x
             /\ query' = [b \in Client |-> IF b = c THEN query'[c] ELSE query[b]]
  BY <1>2
<1>3. ASSUME NEW resp \in Responses(c),
             query' = [query EXCEPT ![c] = Outcome(query[c].id, resp)]
      PROVE  /\ query'[c] = Outcome(query[c].id, resp)
             /\ query' = [b \in Client |-> IF b = c THEN query'[c] ELSE query[b]]
             /\ query'[c].at \in {"error", "printed"}
  <2>1. Outcome(query[c].id, resp).at \in {"error", "printed"}
    BY DEF Outcome
  <2> QED
    BY <1>2, <1>3, <2>1
<1>4. ASSUME query' = [query EXCEPT ![c] = [at |-> "error"]]
      PROVE  /\ query'[c].at = "error"
             /\ query' = [b \in Client |-> IF b = c THEN query'[c] ELSE query[b]]
  BY <1>2, <1>4
<1>5. \/ \E resp \in Responses(c) : query' = [query EXCEPT ![c] = Outcome(query[c].id, resp)]
      \/ query' = [query EXCEPT ![c] = [at |-> "error"]]
  BY DEF EndQuery
<1> QED
  BY <1>1, <1>3, <1>4, <1>5

\* A mail's stations, where one more letter is posted, read or answered.
LEMMA DatagramStep ==
    ASSUME UdpTypes, NEW c \in UdpClient, NEW sent, NEW received, NEW reply,
           UdpMail(c, sent, received, reply), UNCHANGED query,
           \A o \in sent : Received(o) \in received,
           \A o \in received : HandleQuery(o, UDPLimit) \in reply,
           \/ \E i \in Slot, d \in wire : ReadDatagram(i, d)
           \/ \E i \in Slot : AnswerDatagram(i)
    PROVE  UdpTypes' /\ UdpMail(c, sent, received, reply)'
<1>1. ASSUME NEW i \in Slot, NEW d \in wire, ReadDatagram(i, d)
      PROVE  UdpTypes' /\ UdpMail(c, sent, received, reply)'
  <2>1. /\ hand' = [hand EXCEPT ![i] = [at |-> "run", from |-> d.from, req |-> Received(d.octets)]]
        /\ UNCHANGED << query, wire, back >>
    BY <1>1 DEF ReadDatagram
  <2>2. hand'[i] = [at |-> "run", from |-> d.from, req |-> Received(d.octets)]
    BY <2>1 DEF UdpTypes
  <2>3. \A j \in Slot : j # i => hand'[j] = hand[j]
    BY <2>1 DEF UdpTypes
  <2>4. hand' = [j \in Slot |-> hand'[j]]
    BY <2>1 DEF UdpTypes
  <2>5. UdpTypes'
    BY <2>1, <2>2, <2>3, <2>4 DEF UdpTypes
  <2>6. ASSUME NEW j \in Slot, Handling(j, c)' PROVE hand'[j].req \in received
    BY <2>2, <2>3, <2>6 DEF Handling, UdpMail
  <2> QED
    BY <2>1, <2>5, <2>6 DEF UdpMail
<1>2. ASSUME NEW i \in Slot, AnswerDatagram(i)
      PROVE  UdpTypes' /\ UdpMail(c, sent, received, reply)'
  <2> DEFINE resp == HandleQuery(hand[i].req, UDPLimit)
             from == hand[i].from
  <2>1. /\ hand[i].at = "run" /\ hand' = [hand EXCEPT ![i] = Free]
        /\ back' = IF "udp" \in open
                   THEN [back EXCEPT ![from] = @ \cup ({resp} \ {Nil})] ELSE back
        /\ UNCHANGED << query, wire >>
    BY <1>2 DEF AnswerDatagram, RequestOf
  <2> HIDE DEF resp, from
  <2>2. from \in Address
    BY <2>1 DEF UdpTypes, from
  <2>3. /\ back' = [a \in Address |-> back'[a]]
        /\ back'[from] \subseteq back[from] \cup {resp}
        /\ \A a \in Address : a # from => back'[a] = back[a]
    BY <2>1, <2>2 DEF UdpTypes
  <2>4. /\ hand' = [j \in Slot |-> hand'[j]] /\ hand'[i] = Free
        /\ \A j \in Slot : j # i => hand'[j] = hand[j]
    BY <2>1 DEF UdpTypes
  <2>5. UdpTypes'
    BY <2>1, <2>3, <2>4 DEF UdpTypes, Free
  <2>6. \A j \in Slot : Handling(j, c)' => hand'[j].req \in received
    BY <2>4 DEF Handling, UdpMail, Free
  <2>7. back'[c] \subseteq reply
    <3>1. c \in Address
      BY DEF Address
    <3>2. CASE c = from
      <4>1. Handling(i, c)
        BY <2>1, <3>2 DEF Handling, from
      <4>2. resp \in reply
        BY <4>1 DEF UdpMail, resp
      <4> QED
        BY <2>3, <3>2, <4>2 DEF UdpMail
    <3>3. CASE c # from
      BY <2>3, <3>1, <3>3 DEF UdpMail
    <3> QED
      BY <3>2, <3>3
  <2> QED
    BY <2>1, <2>5, <2>6, <2>7 DEF UdpMail
<1> QED
  BY <1>1, <1>2

LEMMA UdpStep == OneExchange /\ UdpInv /\ [Next]_vars => UdpInv'
<1> SUFFICES ASSUME OneExchange, UdpInv, [Next]_vars PROVE UdpInv'
  OBVIOUS
<1>1. UdpTypes /\ query = [c \in Client |-> query[c]]
  BY DEF UdpInv, UdpTypes
<1>2. CASE \/ \E i \in Slot, d \in wire : ReadDatagram(i, d)
           \/ \E i \in Slot : AnswerDatagram(i)
  <2>1. UNCHANGED query
    BY <1>2 DEF ReadDatagram, AnswerDatagram
  <2>2. ASSUME NEW c \in UdpClient PROVE UdpOwn(c)'
    <3>1. UdpOwn(c)
      BY DEF UdpInv
    <3>2. Prints(c)'
      BY <2>1, <3>1 DEF UdpOwn, Prints
    <3>3. CASE query[c].at = "idle"
      <4>1. UdpMail(c, {}, {}, {})
        BY <3>1, <3>3 DEF UdpOwn
      <4>2. UdpTypes' /\ UdpMail(c, {}, {}, {})'
        BY <1>1, <1>2, <2>1, <4>1, DatagramStep
      <4> QED
        BY <2>1, <3>2, <3>3, <4>2 DEF UdpOwn
    <3>4. CASE query[c].at = "wait"
      <4>1. PICK id \in Ids : query[c].id = id
        BY <3>1, <3>4 DEF UdpOwn
      <4> DEFINE o == Request(c, id).buf
                 r == UdpReply(c, id)
      <4>2. UdpMail(c, {o}, {Received(o)}, {r}) /\ Request(c, id).err = "nil"
        BY <3>1, <3>4, <4>1 DEF UdpOwn
      <4>3. /\ \A x \in {o} : Received(x) \in {Received(o)}
            /\ \A x \in {Received(o)} : HandleQuery(x, UDPLimit) \in {r}
        BY DEF UdpReply
      <4> HIDE DEF o, r
      <4>4. UdpMail(c, {o}, {Received(o)}, {r})'
        BY <1>1, <1>2, <2>1, <4>2, <4>3, DatagramStep
      <4> QED
        BY <2>1, <3>2, <3>4, <4>1, <4>2, <4>4 DEF UdpOwn, o, r
    <3>5. CASE query[c].at \notin {"idle", "wait"}
      BY <2>1, <3>2, <3>5 DEF UdpOwn
    <3> QED
      BY <3>3, <3>4, <3>5
  <2>3. UdpTypes'
    BY <1>1, <1>2, <2>1 DEF ReadDatagram, AnswerDatagram, UdpTypes, Free
  <2> QED
    BY <2>2, <2>3 DEF UdpInv
<1>3. ASSUME NEW b \in Client, StartQuery(b) PROVE UdpInv'
  <2>1. /\ query[b].at = "idle"
        /\ query' = [c \in Client |-> IF c = b THEN query'[b] ELSE query[c]]
        /\ \/ query'[b].at = "error" /\ UNCHANGED wire
           \/ \E id \in Ids :
                /\ query'[b].at = "wait" /\ query'[b].id = id
                /\ Request(b, id).err = "nil"
                /\ IF b \in TcpClient THEN UNCHANGED wire
                   ELSE wire' = wire \cup {[from |-> b, octets |-> Request(b, id).buf]}
        /\ UNCHANGED << hand, back >>
    BY <1>1, <1>3, QueryStarted
  <2>2. b \notin TcpClient => b \in UdpClient /\ b \in Address
    BY DEF Client, Address
  <2>3. query' = [c \in Client |-> query'[c]]
    BY <2>1
  <2>4. \A d \in wire' : d.from \in Address
    BY <1>1, <2>1, <2>2 DEF UdpTypes
  <2>5. UdpTypes'
    BY <1>1, <2>1, <2>3, <2>4 DEF UdpTypes
  <2>6. ASSUME NEW c \in UdpClient PROVE UdpOwn(c)'
    <3>1. UdpOwn(c) /\ c \in Client /\ c \notin TcpClient
      BY ClientAssumption DEF UdpInv, Client, ClientAssumption
    <3>2. CASE c = b
      <4>1. UdpMail(c, {}, {}, {})
        BY <2>1, <3>1, <3>2 DEF UdpOwn
      <4>2. CASE query'[c].at = "error"
        BY <4>2 DEF UdpOwn, Prints
      <4>3. CASE query'[c].at # "error"
        <5>1. PICK id \in Ids :
                /\ query'[c].at = "wait" /\ query'[c].id = id
                /\ Request(c, id).err = "nil"
                /\ wire' = wire \cup {[from |-> c, octets |-> Request(c, id).buf]}
          BY <2>1, <3>1, <3>2, <4>3
        <5> DEFINE o == Request(c, id).buf
                   r == UdpReply(c, id)
        <5>2. UdpMail(c, {o}, {Received(o)}, {r})'
          <6> HIDE DEF r
          <6>1. \A d \in wire' : d.from = c => d.octets = o
            BY <4>1, <5>1 DEF UdpMail
          <6> HIDE DEF o
          <6>2. \A i \in Slot : ~ Handling(i, c)'
            BY <2>1, <4>1 DEF UdpMail, Handling
          <6>3. back'[c] = {}
            BY <2>1, <4>1 DEF UdpMail
          <6> QED
            BY <6>1, <6>2, <6>3 DEF UdpMail
        <5> QED
          BY <5>1, <5>2 DEF UdpOwn, Prints
      <4> QED
        BY <4>2, <4>3
    <3>3. CASE c # b
      <4>1. query'[c] = query[c]
        BY <2>1, <3>1, <3>3
      <4>2. \A d \in wire' : d.from = c => d \in wire
        BY <2>1, <3>3
      <4> QED
        BY <2>1, <3>1, <4>1, <4>2 DEF UdpOwn, UdpMail, Handling, Prints
    <3> QED
      BY <3>2, <3>3
  <2> QED
    BY <2>5, <2>6 DEF UdpInv
<1>4. ASSUME NEW b \in Client, EndQuery(b) PROVE UdpInv'
  <2>1. /\ query[b].at = "wait"
        /\ query' = [c \in Client |-> IF c = b THEN query'[b] ELSE query[c]]
        /\ query'[b].at \in {"error", "printed"}
        /\ query'[b].at = "printed" =>
             \E resp \in Responses(b) : query'[b] = Outcome(query[b].id, resp)
        /\ UNCHANGED << wire, hand, back >>
    BY <1>1, <1>4, QueryEnded DEF udpVars
  <2>2. query' = [c \in Client |-> query'[c]]
    BY <2>1
  <2>3. UdpTypes'
    BY <1>1, <2>1, <2>2 DEF UdpTypes
  <2>4. ASSUME NEW c \in UdpClient PROVE UdpOwn(c)'
    <3>1. UdpOwn(c) /\ c \in Client
      BY DEF UdpInv, Client
    <3>2. CASE c = b
      <4> DEFINE id == query[c].id
      <4>1. id \in Ids /\ Request(c, id).err = "nil" /\ back[c] \subseteq {UdpReply(c, id)}
        BY <2>1, <3>1, <3>2 DEF UdpOwn, UdpMail
      <4>2. ASSUME query'[c].at = "printed" PROVE IsAnswerTo(c, query'[c])
        <5>1. query'[c] = Outcome(id, UdpReply(c, id))
          BY <2>1, <3>2, <4>1, <4>2 DEF Responses
        <5>2. Outcome(id, UdpReply(c, id)).at = "printed" =>
                IsAnswerTo(c, Outcome(id, UdpReply(c, id)))
          BY <3>1, <4>1 DEF OneExchange, Request, UdpReply
        <5> QED
          BY <4>2, <5>1, <5>2
      <4> QED
        BY <2>1, <3>2, <4>2 DEF UdpOwn, Prints
    <3>3. CASE c # b
      <4>1. query'[c] = query[c]
        BY <2>1, <3>1, <3>3
      <4> QED
        BY <2>1, <3>1, <4>1 DEF UdpOwn, UdpMail, Handling, Prints
    <3> QED
      BY <3>2, <3>3
  <2> QED
    BY <2>3, <2>4 DEF UdpInv
<1>5. CASE UNCHANGED << query, udpVars >>
  BY <1>5 DEF udpVars, UdpInv, UdpTypes, UdpOwn, UdpMail, Handling, Prints
<1> QED
  BY <1>2, <1>3, <1>4, <1>5, UdpRests DEF vars

(***************************************************************************)
(* Whose answer a query prints: over TCP.  A connection goes through its   *)
(* stations once, and at each of them what was sent and what was written   *)
(* is all there, in whatever pieces.                                       *)
(***************************************************************************)
TcpReply(c, id) == HandleQuery(Request(c, id).buf, 0)

Fits(o) == o \in Octets /\ Len(o) < FrameSpan

Sending(c, rest) == up[c] \o left[c] = rest /\ down[c] = << >> /\ seen[c] = << >>

Taken(c) == up[c] = << >> /\ left[c] = << >>

Exchange(c, o, r) ==
    /\ up[c] \in Octets /\ left[c] \in Octets /\ down[c] \in Octets /\ seen[c] \in Octets
    /\ \/ conn[c].at \in {"none", "prefix"} /\ Sending(c, Frame(o))
       \/ conn[c].at = "body" /\ conn[c].need = Len(o) /\ Sending(c, o)
       \/ conn[c].at = "write" /\ conn[c].resp = r /\ Taken(c) /\ Sending(c, << >>)
       \/ conn[c].at = "prefix" /\ Taken(c) /\ seen[c] \o down[c] = Frame(r)
       \/ conn[c].at = "closed" /\ seen[c] = << >> /\ down[c] = << >>
       \/ conn[c].at = "closed" /\ seen[c] \o down[c] = Frame(r)

TcpOwn(c) ==
    /\ query[c].at = "idle" => conn[c] = NoConn /\ Taken(c) /\ Sending(c, << >>)
    /\ query[c].at = "wait" =>
         LET id == query[c].id IN
         /\ id \in Ids /\ Request(c, id).err = "nil"
         /\ Exchange(c, Request(c, id).buf, TcpReply(c, id))
    /\ Prints(c)

TcpTypes ==
    /\ query = [c \in Client |-> query[c]]
    /\ conn = [k \in Peer |-> conn[k]]
    /\ left = [k \in Peer |-> left[k]]
    /\ up   = [k \in Peer |-> up[k]]
    /\ down = [k \in Peer |-> down[k]]
    /\ seen = [k \in Peer |-> seen[k]]

TcpInv == TcpTypes /\ \A c \in TcpClient : TcpOwn(c)

LEMMA TcpInitially == Init => TcpInv
<1> SUFFICES ASSUME Init PROVE TcpInv
  OBVIOUS
<1>1. PICK there \in Cast :
        /\ query = [c \in Client |-> IF c \in there THEN Unasked ELSE Away]
        /\ left = [k \in Peer |-> IF k \in Pipeliner \cap there THEN Stream(k) ELSE << >>]
  BY DEF Init
<1>2. /\ conn = [k \in Peer |-> NoConn] /\ up = [k \in Peer |-> << >>]
      /\ down = [k \in Peer |-> << >>] /\ seen = [k \in Peer |-> << >>]
  BY DEF Init
<1>3. TcpTypes
  BY <1>1, <1>2 DEF TcpTypes
<1>4. ASSUME NEW c \in TcpClient PROVE TcpOwn(c)
  <2>1. c \in Client /\ c \in Peer /\ c \notin Pipeliner
    BY ClientAssumption DEF ClientAssumption, Client, Peer
  <2>2. /\ conn[c] = NoConn /\ left[c] = << >> /\ up[c] = << >>
        /\ down[c] = << >> /\ seen[c] = << >>
    BY <1>1, <1>2, <2>1
  <2>3. Taken(c) /\ Sending(c, << >>)
    BY <2>2, EmptyOctets DEF Taken, Sending
  <2>4. query[c].at \in {"idle", "away"}
    BY <1>1, <2>1 DEF Unasked, Away
  <2> QED
    BY <2>2, <2>3, <2>4 DEF TcpOwn, Prints
<1> QED
  BY <1>3, <1>4 DEF TcpInv

ConnStep(k) ==
    \/ Accept(k) \/ ReadPrefix(k) \/ ReadBody(k) \/ WriteReply(k)
    \/ ReadFails(k) \/ WriteFails(k) \/ PeerSends(k) \/ PeerReads(k)

\* The steps that are not about connections.
LEMMA TcpRests ==
    ASSUME Next
    PROVE  \/ \E k \in Peer : ConnStep(k)
           \/ \E c \in Client : StartQuery(c) \/ EndQuery(c)
           \/ UNCHANGED << query, tcpVars >>
BY DEF Next, ConnStep, Listen, ListenFails, ListenHTTP, SocketFails, LoopReturns,
   ReceiveError, Close, Exit, ReadDatagram, AnswerDatagram

\* Connections share nothing.
LEMMA ConnLocal ==
    ASSUME TcpTypes, NEW k \in Peer, ConnStep(k)
    PROVE  /\ TcpTypes' /\ UNCHANGED query
           /\ \A c \in Peer : c # k =>
                /\ conn'[c] = conn[c] /\ left'[c] = left[c] /\ up'[c] = up[c]
                /\ down'[c] = down[c] /\ seen'[c] = seen[c]
<1>1. CASE Accept(k)
  BY <1>1 DEF Accept, TcpTypes
<1>2. CASE ReadPrefix(k)
  BY <1>2 DEF ReadPrefix, TcpTypes
<1>3. CASE ReadBody(k)
  BY <1>3 DEF ReadBody, TcpTypes
<1>4. CASE WriteReply(k)
  BY <1>4 DEF WriteReply, TcpTypes
<1>5. CASE ReadFails(k)
  BY <1>5 DEF ReadFails, TcpTypes
<1>6. CASE WriteFails(k)
  BY <1>6 DEF WriteFails, TcpTypes
<1>7. CASE PeerSends(k)
  BY <1>7 DEF PeerSends, TcpTypes
<1>8. CASE PeerReads(k)
  BY <1>8 DEF PeerReads, TcpTypes
<1> QED
  BY <1>1, <1>2, <1>3, <1>4, <1>5, <1>6, <1>7, <1>8 DEF ConnStep

\* An exchange goes on as an exchange.
LEMMA ExchangeStep ==
    ASSUME TcpTypes, NEW c \in TcpClient, NEW o, NEW r, Fits(o), Fits(r),
           r = HandleQuery(o, 0), Exchange(c, o, r), ConnStep(c)
    PROVE  Exchange(c, o, r)'
<1>1. c \in Peer
  BY DEF Peer
<1>2. /\ up[c] \in Octets /\ left[c] \in Octets /\ down[c] \in Octets /\ seen[c] \in Octets
      /\ Len(up[c]) \in Nat /\ Len(left[c]) \in Nat
  BY LenProperties DEF Exchange, Octets
<1>3. o \in Octets /\ r \in Octets /\ Len(o) \in Nat /\ Frame(r) \in Octets
  BY LenProperties, FrameParts DEF Fits, Octets
<1>4. CASE Accept(c)
  <2>1. conn[c].at = "none" /\ conn'[c].at = "prefix" /\ UNCHANGED << left, up, down, seen >>
    BY <1>1, <1>4 DEF Accept, TcpTypes, NoConn
  <2>2. Sending(c, Frame(o))
    BY <2>1 DEF Exchange
  <2>3. Sending(c, Frame(o))'
    BY <2>1, <2>2 DEF Sending
  <2> QED
    BY <1>2, <2>1, <2>3 DEF Exchange
<1>5. CASE ReadPrefix(c)
  <2>1. /\ conn[c].at = "prefix" /\ Len(up[c]) >= 2
        /\ conn'[c].at = "body" /\ conn'[c].need = Word(up[c])
        /\ up'[c] = SubSeq(up[c], 3, Len(up[c]))
        /\ UNCHANGED << left, down, seen >>
    BY <1>1, <1>5 DEF ReadPrefix, TcpTypes
  <2>2. up[c] # << >>
    BY <2>1, EmptyOctets
  <2>3. Sending(c, Frame(o))
    BY <2>1, <2>2 DEF Exchange, Taken
  <2>4. /\ up[c] \o left[c] = Frame(o) /\ Len(up[c]) >= 2
        /\ o \in Octets /\ Len(o) < FrameSpan
        /\ up[c] \in Octets /\ left[c] \in Octets
    BY <1>2, <1>3, <2>1, <2>3 DEF Sending, Fits
  <2>5. /\ Word(up[c]) = Len(o)
        /\ SubSeq(up[c], 3, Len(up[c])) \in Octets
        /\ SubSeq(up[c], 3, Len(up[c])) \o left[c] = o
    BY <2>4, PrefixRead, Zenon
  <2> QED
    BY <1>2, <2>1, <2>3, <2>5 DEF Exchange, Sending
<1>6. CASE ReadBody(c)
  <2>1. /\ conn[c].at = "body" /\ Len(up[c]) >= conn[c].need
        /\ \/ conn'[c].at = "closed"
           \/ /\ conn'[c].at = "write"
              /\ conn'[c].resp = HandleQuery(SubSeq(up[c], 1, conn[c].need), 0)
        /\ up'[c] = SubSeq(up[c], conn[c].need + 1, Len(up[c]))
        /\ UNCHANGED << left, down, seen >>
    BY <1>1, <1>6 DEF ReadBody, Rest, TcpTypes
  <2>2. conn[c].need = Len(o) /\ Sending(c, o)
    BY <2>1 DEF Exchange
  <2>3. left[c] = << >> /\ up[c] = o
    BY <1>2, <2>1, <2>2, WholeArrived DEF Sending
  <2>4. SubSeq(up[c], 1, conn[c].need) = o
    BY <1>3, <2>2, <2>3, SubSeqFull DEF Octets
  <2>5. up'[c] = << >>
    BY <1>3, <2>1, <2>2, <2>3, SubSeqEmpty
  <2>6. \/ conn'[c].at = "closed"
        \/ conn'[c].at = "write" /\ conn'[c].resp = r
    BY <2>1, <2>4
  <2>7. Taken(c)' /\ Sending(c, << >>)'
    BY <2>1, <2>2, <2>3, <2>5, EmptyOctets DEF Taken, Sending
  <2> QED
    BY <1>2, <2>1, <2>3, <2>5, <2>6, <2>7, EmptyOctets DEF Exchange, Sending
<1>7. CASE WriteReply(c)
  <2>1. /\ conn[c].at = "write" /\ conn'[c].at = "prefix"
        /\ down'[c] = down[c] \o Frame(conn[c].resp)
        /\ UNCHANGED << left, up, seen >>
    BY <1>1, <1>7 DEF WriteReply, TcpTypes
  <2>2. conn[c].resp = r /\ Taken(c) /\ Sending(c, << >>)
    BY <2>1 DEF Exchange
  <2>3. down'[c] = Frame(r) /\ seen[c] \o down'[c] = Frame(r)
    BY <1>3, <2>1, <2>2, ConcatEmptySeq DEF Sending, Octets
  <2> QED
    BY <1>2, <1>3, <2>1, <2>2, <2>3 DEF Exchange, Taken
<1>8. CASE ReadFails(c) \/ WriteFails(c)
  <2>1. /\ conn[c].at \in {"prefix", "body", "write"} /\ conn'[c].at = "closed"
        /\ UNCHANGED << left, up, down, seen >>
    BY <1>1, <1>8 DEF ReadFails, WriteFails, Deadline, TcpTypes
  <2> QED
    BY <2>1 DEF Exchange, Sending
<1>9. CASE PeerSends(c)
  <2>1. /\ conn[c].at \notin {"none", "closed"} /\ left[c] # << >>
        /\ UNCHANGED << conn, down, seen >>
    BY <1>9 DEF PeerSends
  <2>2. PICK n \in 1..Len(left[c]) :
          /\ up'[c] = up[c] \o SubSeq(left[c], 1, n)
          /\ left'[c] = SubSeq(left[c], n + 1, Len(left[c]))
    BY <1>1, <1>9 DEF PeerSends, TcpTypes
  <2>3. /\ up[c] \o SubSeq(left[c], 1, n) \in Octets
        /\ SubSeq(left[c], n + 1, Len(left[c])) \in Octets
        /\ (up[c] \o SubSeq(left[c], 1, n)) \o SubSeq(left[c], n + 1, Len(left[c])) =
             up[c] \o left[c]
    BY <1>2, PieceMoves
  <2>4. up'[c] \in Octets /\ left'[c] \in Octets /\ up'[c] \o left'[c] = up[c] \o left[c]
    BY <2>2, <2>3
  <2> QED
    BY <1>2, <2>1, <2>4 DEF Exchange, Sending, Taken
<1>10. CASE PeerReads(c)
  <2>1. /\ down[c] # << >> /\ seen'[c] = seen[c] \o down[c] /\ down'[c] = << >>
        /\ UNCHANGED << conn, left, up >>
    BY <1>1, <1>10 DEF PeerReads, TcpTypes
  <2>2. seen[c] \o down[c] = Frame(r)
    BY <2>1 DEF Exchange, Sending
  <2>3. seen'[c] \o down'[c] = Frame(r)
    BY <1>3, <2>1, <2>2, ConcatEmptySeq DEF Octets
  <2> QED
    BY <1>2, <1>3, <2>1, <2>2, <2>3, EmptyOctets DEF Exchange, Sending, Taken
<1> QED
  BY <1>4, <1>5, <1>6, <1>7, <1>8, <1>9, <1>10 DEF ConnStep

\* The client reads the reply from the stream as it was written.
LEMMA ReplyRead ==
    ASSUME NEW c \in TcpClient, NEW o, NEW r, Fits(r), Exchange(c, o, r),
           NEW resp \in Responses(c)
    PROVE  resp = r
<1>1. c \notin UdpClient
  BY ClientAssumption DEF ClientAssumption
<1>2. /\ Len(seen[c]) >= 2
      /\ 2 + Word(seen[c]) \in 2..Len(seen[c])
      /\ resp = SubSeq(seen[c], 3, 2 + Word(seen[c]))
  BY <1>1 DEF Responses
<1>3. seen[c] \in Octets /\ down[c] \in Octets /\ r \in Octets /\ Len(r) < FrameSpan
  BY DEF Exchange, Fits
<1>4. seen[c] # << >>
  BY <1>2, EmptyOctets
<1>5. seen[c] \o down[c] = Frame(r)
  BY <1>4 DEF Exchange, Sending
<1> DEFINE s == seen[c]
           d == down[c]
           v == SubSeq(s, 3, Len(s))
<1>6. Word(s) = Len(r) /\ v \o d = r
  BY <1>2, <1>3, <1>5, PrefixRead
<1>7. /\ Len(Frame(r)) = Len(r) + 2 /\ Len(Frame(r)) = Len(s) + Len(d)
      /\ Len(s) \in Nat /\ Len(d) \in Nat /\ Len(r) \in Nat
  <2>1. Joined(s, d, s \o d)
    BY <1>3, JoinedOctets
  <2>2. Len(Frame(r)) = Len(r) + 2 /\ Len(r) \in Nat
    BY <1>3, FrameParts, LenProperties DEF Octets
  <2> QED
    BY <1>5, <2>1, <2>2 DEF Joined
<1>8. Len(d) = 0 /\ 2 + Word(s) = Len(s)
  <2>1. 2 + Len(r) <= Len(s)
    BY <1>2, <1>6, <1>7
  <2>2. Len(r) + 2 = Len(s) + Len(d)
    BY <1>7
  <2>3. ASSUME NEW a \in Nat, NEW b \in Nat, NEW e \in Nat, 2 + e <= a, e + 2 = a + b
        PROVE  b = 0 /\ 2 + e = a
    BY <2>3
  <2>4. Len(d) = 0 /\ 2 + Len(r) = Len(s)
    BY <1>7, <2>1, <2>2, <2>3
  <2> QED
    BY <1>6, <2>4
<1>9. d = << >>
  BY <1>3, <1>8, EmptySeq DEF Octets
<1>10. v \in Octets
  BY <1>3, <1>7, PartOctets
<1>11. v \o d = v
  BY <1>9, <1>10, ConcatEmptySeq DEF Octets
<1> QED
  BY <1>2, <1>6, <1>8, <1>11

\* Nobody serves a client that has not connected.
LEMMA NoStepWhileIdle ==
    ASSUME NEW c \in TcpClient, conn[c] = NoConn, Taken(c), Sending(c, << >>)
    PROVE  ~ ConnStep(c)
BY DEF ConnStep, Accept, ReadPrefix, ReadBody, WriteReply, ReadFails, WriteFails, Deadline,
   PeerSends, PeerReads, NoConn, Taken, Sending

\* A request and its reply fit the length prefix.
LEMMA ExchangeFits ==
    ASSUME OneExchange, NEW c \in TcpClient, NEW id \in Ids, Request(c, id).err = "nil"
    PROVE  /\ Fits(Request(c, id).buf) /\ Fits(TcpReply(c, id))
           /\ LET p == Outcome(id, TcpReply(c, id)) IN p.at = "printed" => IsAnswerTo(c, p)
<1>1. c \in Client /\ c \notin UdpClient
  BY ClientAssumption DEF Client, ClientAssumption
<1> QED
  BY <1>1 DEF OneExchange, Request, TcpReply, Fits, Octets

LEMMA TcpStep == OneExchange /\ TcpInv /\ [Next]_vars => TcpInv'
<1> SUFFICES ASSUME OneExchange, TcpInv, [Next]_vars PROVE TcpInv'
  OBVIOUS
<1>1. TcpTypes /\ query = [c \in Client |-> query[c]]
  BY DEF TcpInv, TcpTypes
<1>2. ASSUME NEW k \in Peer, ConnStep(k) PROVE TcpInv'
  <2>1. /\ TcpTypes' /\ UNCHANGED query
        /\ \A c \in Peer : c # k =>
             /\ conn'[c] = conn[c] /\ left'[c] = left[c] /\ up'[c] = up[c]
             /\ down'[c] = down[c] /\ seen'[c] = seen[c]
    BY <1>1, <1>2, ConnLocal
  <2>2. ASSUME NEW c \in TcpClient PROVE TcpOwn(c)'
    <3>1. TcpOwn(c) /\ c \in Peer
      BY DEF TcpInv, Peer
    <3>2. CASE c # k
      BY <2>1, <3>1, <3>2 DEF TcpOwn, Taken, Sending, Exchange, Prints
    <3>3. CASE c = k
      <4>1. query[c].at # "idle"
        BY <1>2, <3>1, <3>3, NoStepWhileIdle DEF TcpOwn
      <4>2. CASE query[c].at = "wait"
        <5>1. PICK id \in Ids : query[c].id = id
          BY <3>1, <4>2 DEF TcpOwn
        <5> DEFINE o == Request(c, id).buf
                   r == TcpReply(c, id)
        <5>2. Request(c, id).err = "nil" /\ Exchange(c, o, r)
          BY <3>1, <4>2, <5>1 DEF TcpOwn
        <5>3. Fits(o) /\ Fits(r) /\ r = HandleQuery(o, 0)
          BY <5>2, ExchangeFits DEF TcpReply
        <5> HIDE DEF o, r
        <5>4. Exchange(c, o, r)'
          BY <1>1, <1>2, <3>3, <5>2, <5>3, ExchangeStep
        <5> QED
          BY <2>1, <3>1, <4>2, <5>1, <5>2, <5>4 DEF TcpOwn, Prints, o, r
      <4> QED
        BY <2>1, <3>1, <4>1, <4>2 DEF TcpOwn, Prints
    <3> QED
      BY <3>2, <3>3
  <2> QED
    BY <2>1, <2>2 DEF TcpInv
<1>3. ASSUME NEW b \in Client, StartQuery(b) PROVE TcpInv'
  <2>1. /\ query[b].at = "idle"
        /\ query' = [c \in Client |-> IF c = b THEN query'[b] ELSE query[c]]
        /\ \/ query'[b].at = "error" /\ UNCHANGED left
           \/ \E id \in Ids :
                /\ query'[b].at = "wait" /\ query'[b].id = id
                /\ Request(b, id).err = "nil"
                /\ IF b \in TcpClient
                   THEN left' = [left EXCEPT ![b] = Frame(Request(b, id).buf)]
                   ELSE UNCHANGED left
        /\ UNCHANGED << conn, up, down, seen >>
    BY <1>1, <1>3, QueryStarted
  <2>2. query' = [c \in Client |-> query'[c]] /\ left' = [k \in Peer |-> left'[k]]
    BY <1>1, <2>1 DEF TcpTypes
  <2>3. TcpTypes'
    BY <1>1, <2>1, <2>2 DEF TcpTypes
  <2>4. ASSUME NEW c \in TcpClient PROVE TcpOwn(c)'
    <3>1. TcpOwn(c) /\ c \in Client /\ c \in Peer
      BY DEF TcpInv, Client, Peer
    <3>2. CASE c # b
      <4>1. query'[c] = query[c] /\ left'[c] = left[c]
        BY <1>1, <2>1, <3>1, <3>2 DEF TcpTypes
      <4> QED
        BY <2>1, <3>1, <4>1 DEF TcpOwn, Taken, Sending, Exchange, Prints
    <3>3. CASE c = b /\ query'[c].at = "error"
      BY <3>3 DEF TcpOwn, Prints
    <3>4. CASE c = b /\ query'[c].at # "error"
      <4>1. PICK id \in Ids :
              /\ query'[c].at = "wait" /\ query'[c].id = id
              /\ Request(c, id).err = "nil"
              /\ left' = [left EXCEPT ![c] = Frame(Request(c, id).buf)]
        BY <2>1, <3>4
      <4> DEFINE o == Request(c, id).buf
                 r == TcpReply(c, id)
      <4>2. Fits(o)
        BY <4>1, ExchangeFits
      <4> HIDE DEF o, r
      <4>3. Frame(o) \in Octets
        BY <4>2, FrameParts DEF Fits
      <4>4. conn[c] = NoConn /\ Taken(c) /\ Sending(c, << >>)
        BY <2>1, <3>1, <3>4 DEF TcpOwn
      <4>5. left'[c] = Frame(o)
        BY <1>1, <3>1, <4>1 DEF TcpTypes, o
      <4>6. up'[c] \o left'[c] = Frame(o)
        BY <2>1, <4>3, <4>4, <4>5, ConcatEmptySeq DEF Taken, Octets
      <4>7. Exchange(c, o, r)'
        BY <2>1, <4>3, <4>4, <4>5, <4>6, EmptyOctets DEF Exchange, Sending, Taken, NoConn
      <4> QED
        BY <4>1, <4>7 DEF TcpOwn, Prints, o, r
    <3> QED
      BY <3>2, <3>3, <3>4
  <2> QED
    BY <2>3, <2>4 DEF TcpInv
<1>4. ASSUME NEW b \in Client, EndQuery(b) PROVE TcpInv'
  <2>1. /\ query[b].at = "wait"
        /\ query' = [c \in Client |-> IF c = b THEN query'[b] ELSE query[c]]
        /\ query'[b].at \in {"error", "printed"}
        /\ query'[b].at = "printed" =>
             \E resp \in Responses(b) : query'[b] = Outcome(query[b].id, resp)
        /\ UNCHANGED << conn, left, up, down, seen >>
    BY <1>1, <1>4, QueryEnded DEF tcpVars
  <2>2. query' = [c \in Client |-> query'[c]]
    BY <2>1
  <2>3. TcpTypes'
    BY <1>1, <2>1, <2>2 DEF TcpTypes
  <2>4. ASSUME NEW c \in TcpClient PROVE TcpOwn(c)'
    <3>1. TcpOwn(c) /\ c \in Client
      BY DEF TcpInv, Client
    <3>2. CASE c # b
      <4>1. query'[c] = query[c]
        BY <2>1, <3>1, <3>2
      <4> QED
        BY <2>1, <3>1, <4>1 DEF TcpOwn, Taken, Sending, Exchange, Prints
    <3>3. CASE c = b /\ query'[c].at = "error"
      BY <3>3 DEF TcpOwn, Prints
    <3>4. CASE c = b /\ query'[c].at = "printed"
      <4>1. PICK id \in Ids : query[c].id = id
        BY <2>1, <3>1, <3>4 DEF TcpOwn
      <4> DEFINE o == Request(c, id).buf
                 r == TcpReply(c, id)
      <4>2. Request(c, id).err = "nil" /\ Exchange(c, o, r)
        BY <2>1, <3>1, <3>4, <4>1 DEF TcpOwn
      <4>3. /\ Fits(r)
            /\ Outcome(id, r).at = "printed" => IsAnswerTo(c, Outcome(id, r))
        BY <4>2, ExchangeFits
      <4>4. PICK resp \in Responses(c) : query'[c] = Outcome(id, resp)
        BY <2>1, <3>4, <4>1
      <4> HIDE DEF o, r
      <4>5. resp = r
        BY <4>2, <4>3, ReplyRead
      <4>6. IsAnswerTo(c, query'[c])
        BY <3>4, <4>3, <4>4, <4>5
      <4> QED
        BY <3>4, <4>6 DEF TcpOwn, Prints
    <3> QED
      BY <2>1, <3>2, <3>3, <3>4
  <2> QED
    BY <2>3, <2>4 DEF TcpInv
<1>5. CASE UNCHANGED << query, tcpVars >>
  <2>1. /\ query' = query /\ conn' = conn /\ left' = left
        /\ up' = up /\ down' = down /\ seen' = seen
    BY <1>5 DEF tcpVars
  <2>2. TcpTypes'
    BY <2>1 DEF TcpInv, TcpTypes
  <2>3. ASSUME NEW c \in TcpClient PROVE TcpOwn(c)'
    <3>1. TcpOwn(c)
      BY DEF TcpInv
    <3>2. /\ \A rest : Sending(c, rest) => Sending(c, rest)'
          /\ Taken(c) => Taken(c)'
          /\ Prints(c) => Prints(c)'
      BY <2>1 DEF Sending, Taken, Prints
    <3>3. ASSUME NEW o, NEW a, Exchange(c, o, a) PROVE Exchange(c, o, a)'
      BY <2>1, <3>3 DEF Exchange, Sending, Taken
    <3> QED
      BY <2>1, <3>1, <3>2, <3>3 DEF TcpOwn
  <2> QED
    BY <2>2, <2>3 DEF TcpInv
<1> QED
  BY <1>2, <1>3, <1>4, <1>5, TcpRests DEF vars

\* What a client prints follows from what a single exchange is.
LEMMA OwnAnswerOfOne == OneExchange /\ Spec => []PrintsItsOwnAnswer
<1> SUFFICES ASSUME OneExchange PROVE Spec => []PrintsItsOwnAnswer
  OBVIOUS
<1>1. Init => UdpInv /\ TcpInv
  BY UdpInitially, TcpInitially
<1>2. UdpInv /\ TcpInv /\ [Next]_vars => UdpInv' /\ TcpInv'
  BY UdpStep, TcpStep
<1>3. UdpInv /\ TcpInv => PrintsItsOwnAnswer
  BY DEF UdpInv, TcpInv, UdpOwn, TcpOwn, Prints, PrintsItsOwnAnswer, Client
<1> QED
  BY <1>1, <1>2, <1>3, PTL DEF Spec

(***************************************************************************)
(* The messages of a peer as one stream.                                   *)
(***************************************************************************)
\* n messages as a stream.
Frames(f, n) == FlattenSeq([j \in 1..n |-> Frame(f[j])])

LEMMA FramesJoin ==
    ASSUME NEW f, NEW n \in Nat \ {0}
    PROVE  \E g : Joins(g, [j \in 1..n |-> Frame(f[j])], n) /\ Frames(f, n) = g[n]
<1> DEFINE ss == [j \in 1..n |-> Frame(f[j])]
           g == CHOOSE h : h = [i \in 1..n |-> IF i = 1 THEN ss[i] ELSE h[i-1] \o ss[i]]
<1>1. Len(ss) = n
  OBVIOUS
<1>2. PICK h : Joins(h, ss, n)
  BY JoinsExists
<1> HIDE DEF ss
<1>3. Joins(g, ss, n)
  BY <1>2 DEF Joins
<1>4. FlattenSeq(ss) = g[n]
  BY <1>1 DEF FlattenSeq
<1> QED
  BY <1>3, <1>4 DEF Frames, ss

Messages(f, n) == \A j \in 1..n : f[j] \in Octets

LEMMA FrameOctets == ASSUME NEW o \in Octets PROVE Frame(o) \in Octets
<1> DEFINE x == (Len(o) \div 256) % 256
           y == Len(o) % 256
           h == << x, y >>
<1>1. Len(o) \in Nat
  BY LenProperties DEF Octets
<1>2. x \in Byte /\ y \in Byte
  <2>1. ASSUME NEW n \in Nat PROVE (n \div 256) % 256 \in Byte /\ n % 256 \in Byte
    <3>1. n \div 256 \in Nat
      OBVIOUS
    <3> QED
      BY <3>1 DEF Byte
  <2> QED
    BY <1>1, <2>1
<1>3. Frame(o) = h \o o
  BY DEF Frame, U16
<1> HIDE DEF x, y
<1>4. h \in Octets
  BY <1>2, PrefixOctets
<1> HIDE DEF h
<1>5. Joined(h, o, h \o o)
  BY <1>4, JoinedOctets
<1> QED
  BY <1>3, <1>5 DEF Joined

LEMMA NoFrames == ASSUME NEW f PROVE Frames(f, 0) = << >>
<1>1. [j \in 1..0 |-> Frame(f[j])] = << >>
  OBVIOUS
<1> QED
  BY <1>1 DEF Frames, FlattenSeq

\* One more message.
LEMMA FramesGrow ==
    ASSUME NEW f, NEW n \in Nat, f[n + 1] \in Octets
    PROVE  Frames(f, n + 1) = Frames(f, n) \o Frame(f[n + 1])
<1>1. Frames(f, 0) = << >>
  BY NoFrames
<1> DEFINE ss == [j \in 1..n |-> Frame(f[j])]
           tt == [j \in 1..(n + 1) |-> Frame(f[j])]
<1>2. PICK h : Joins(h, tt, n + 1) /\ Frames(f, n + 1) = h[n + 1]
  <2>1. n + 1 \in Nat \ {0}
    OBVIOUS
  <2> HIDE DEF tt
  <2>2. \E h : Joins(h, [j \in 1..(n + 1) |-> Frame(f[j])], n + 1) /\ Frames(f, n + 1) = h[n + 1]
    BY <2>1, FramesJoin, Zenon
  <2> QED
    BY <2>2 DEF tt
<1>3. tt[n + 1] = Frame(f[n + 1]) /\ \A j \in 1..n : ss[j] = tt[j]
  OBVIOUS
<1> HIDE DEF ss, tt
<1>4. n + 1 \in 1..(n + 1) /\ n + 1 \in Nat
  OBVIOUS
<1>5. h[n + 1] = IF n + 1 = 1 THEN tt[n + 1] ELSE h[n + 1 - 1] \o tt[n + 1]
  BY <1>2, <1>4, JoinsAt
<1>6. CASE n = 0
  <2>1. Frame(f[n + 1]) \in Octets
    BY FrameOctets
  <2>2. << >> \o Frame(f[n + 1]) = Frame(f[n + 1])
    BY <2>1, ConcatEmptySeq DEF Octets
  <2>3. Frames(f, n) = << >>
    BY <1>1, <1>6
  <2>4. n + 1 = 1
    BY <1>6
  <2>5. Frames(f, n + 1) = Frame(f[n + 1])
    BY <1>2, <1>3, <1>5, <2>4
  <2> QED
    BY <1>1, <2>2, <2>3, <2>5
<1>7. CASE n # 0
  <2>1. PICK g : Joins(g, ss, n) /\ Frames(f, n) = g[n]
    BY <1>7, FramesJoin DEF ss
  <2>2. 1 <= n /\ n <= n /\ n <= n + 1
    BY <1>7
  <2>3. g[n] = h[n]
    BY <1>2, <1>3, <1>4, <2>1, <2>2, JoinsUnique
  <2>4. n + 1 # 1 /\ n + 1 - 1 = n
    BY <1>7
  <2>5. h[n + 1] = h[n] \o tt[n + 1]
    BY <1>5, <2>4
  <2> QED
    BY <1>1, <1>2, <1>3, <2>1, <2>3, <2>5
<1> QED
  BY <1>6, <1>7

LEMMA FramesOctets ==
    ASSUME NEW f, NEW n \in Nat, Messages(f, n)
    PROVE  Frames(f, n) \in Octets
<1> DEFINE T == {m \in Nat : m <= n /\ Frames(f, m) \notin Octets}
<1>1. SUFFICES ASSUME n \in T PROVE FALSE
  OBVIOUS
<1>2. PICK m \in T : \A k \in T : m <= k
  BY <1>1, LeastNat
<1>3. m \in Nat /\ m <= n /\ Frames(f, m) \notin Octets
  BY <1>2
<1>4. CASE m = 0
  BY <1>3, <1>4, NoFrames, EmptyOctets
<1>5. CASE m # 0
  <2> DEFINE l == m - 1
  <2>1. l \in Nat /\ l + 1 = m /\ l <= n /\ ~ (m <= l) /\ m \in 1..n
    BY <1>3, <1>5
  <2>2. Frames(f, l) \in Octets
    BY <1>2, <2>1
  <2> HIDE DEF l
  <2>3. f[m] \in Octets
    BY <2>1 DEF Messages
  <2>4. Frames(f, m) = Frames(f, l) \o Frame(f[m])
    BY <2>1, <2>3, FramesGrow
  <2> QED
    BY <1>3, <2>2, <2>3, <2>4, FrameOctets, JoinOctets
<1> QED
  BY <1>4, <1>5

\* The stream of the first messages begins the stream of all.
LEMMA FramesBegin ==
    ASSUME NEW f, NEW n \in Nat, Messages(f, n), NEW i \in 0..n
    PROVE  \E t \in Octets : Frames(f, n) = Frames(f, i) \o t
<1> DEFINE T == {m \in Nat : i <= m /\ m <= n /\ ~ \E t \in Octets :
                               Frames(f, m) = Frames(f, i) \o t}
<1>1. SUFFICES ASSUME n \in T PROVE FALSE
  OBVIOUS
<1>2. PICK m \in T : \A k \in T : m <= k
  BY <1>1, LeastNat
<1>3. m \in Nat /\ i <= m /\ m <= n
  BY <1>2
<1>4. Frames(f, i) \in Octets
  <2>1. i \in Nat /\ Messages(f, i)
    BY DEF Messages
  <2> QED
    BY <2>1, FramesOctets
<1>5. CASE m = i
  <2>1. Frames(f, m) = Frames(f, i) \o << >>
    BY <1>4, <1>5, ConcatEmptySeq DEF Octets
  <2> QED
    BY <1>2, <2>1, EmptyOctets
<1>6. CASE m # i
  <2> DEFINE l == m - 1
  <2>1. l \in Nat /\ l + 1 = m /\ i <= l /\ l <= n /\ ~ (m <= l) /\ m \in 1..n
    BY <1>3, <1>6
  <2>2. PICK t \in Octets : Frames(f, l) = Frames(f, i) \o t
    BY <1>2, <2>1
  <2> HIDE DEF l
  <2>3. f[m] \in Octets /\ Frame(f[m]) \in Octets
    BY <2>1, FrameOctets DEF Messages
  <2>4. Frames(f, m) = (Frames(f, i) \o t) \o Frame(f[m])
    BY <2>1, <2>2, <2>3, FramesGrow
  <2>5. (Frames(f, i) \o t) \o Frame(f[m]) = Frames(f, i) \o (t \o Frame(f[m]))
    BY <1>4, <2>3, ConcatAssociative DEF Octets
  <2>6. t \o Frame(f[m]) \in Octets
    BY <2>3, JoinOctets
  <2> QED
    BY <1>2, <2>4, <2>5, <2>6
<1> QED
  BY <1>5, <1>6

\* Two streams that are equal are equal in parts.
SameStream(a, b, c, d) ==
    /\ a \in Octets /\ b \in Octets /\ c \in Octets /\ d \in Octets
    /\ a \o b = c \o d /\ Len(a) = Len(c)

LEMMA CutAt ==
    ASSUME NEW a, NEW b, NEW c, NEW d, SameStream(a, b, c, d) PROVE a = c /\ b = d
<1>1. a \in Octets /\ b \in Octets /\ c \in Octets /\ d \in Octets /\ Len(a) = Len(c)
  BY DEF SameStream
<1>2. Joined(a, b, a \o b) /\ Joined(c, d, a \o b)
  BY <1>1, JoinedOctets DEF SameStream
<1> DEFINE e == a \o b
<1>3. Joined(a, b, e) /\ Joined(c, d, e)
  BY <1>2
<1> HIDE DEF e
<1>4. Len(a) \in Nat /\ Len(b) = Len(d)
  BY <1>1, <1>3 DEF Joined
<1>5. a = c
  <2>1. \A i \in 1..Len(a) : a[i] = c[i]
    BY <1>1, <1>3 DEF Joined
  <2>2. a \in Octets /\ c \in Octets /\ Len(a) = Len(c)
    BY <1>1
  <2> QED
    BY <2>1, <2>2, SeqEqual DEF Octets
<1>6. b = d
  <2>1. \A i \in 1..Len(b) : b[i] = d[i]
    BY <1>1, <1>3, <1>4 DEF Joined
  <2>2. b \in Octets /\ d \in Octets /\ Len(b) = Len(d)
    BY <1>1, <1>4
  <2> QED
    BY <2>1, <2>2, SeqEqual DEF Octets
<1> QED
  BY <1>5, <1>6

(***************************************************************************)
(* Streams.                                                                *)
(***************************************************************************)
\* The length before a message.
Prefix(o) == U16(Len(o))

LEMMA FrameIs ==
    ASSUME NEW o \in Octets, Len(o) < FrameSpan
    PROVE  /\ Prefix(o) \in Octets /\ Len(Prefix(o)) = 2 /\ Word(Prefix(o)) = Len(o)
           /\ Frame(o) = Prefix(o) \o o /\ Frame(o) \in Octets
<1> DEFINE x == (Len(o) \div 256) % 256
           y == Len(o) % 256
<1>1. Len(o) \in Nat
  BY LenProperties DEF Octets
<1>2. x \in Byte /\ y \in Byte /\ x * 256 + y = Len(o)
  BY <1>1, WordOfLength
<1>3. Prefix(o) = << x, y >>
  BY DEF Prefix, U16
<1>4. Frame(o) = Prefix(o) \o o
  BY DEF Frame, Prefix
<1> HIDE DEF x, y
<1>5. Prefix(o) \in Octets /\ Len(Prefix(o)) = 2
  BY <1>2, <1>3, PrefixOctets
<1>6. Word(Prefix(o)) = Len(o)
  BY <1>2, <1>3 DEF Word
<1> QED
  BY <1>4, <1>5, <1>6, FrameOctets

\* A stream of which u has arrived and s has not yields the prefix of o; it
\* yields o, and t remains.
TakesPrefix(o, u, s) ==
    /\ Word(u) = Len(o)
    /\ SubSeq(u, 3, Len(u)) \in Octets
    /\ Prefix(o) \o (SubSeq(u, 3, Len(u)) \o s) = u \o s

TakesBody(o, t, u, s) ==
    /\ SubSeq(u, 1, Len(o)) = o
    /\ SubSeq(u, Len(o) + 1, Len(u)) \in Octets
    /\ SubSeq(u, Len(o) + 1, Len(u)) \o s = t

\* The prefix of the message that a stream goes on with.
LEMMA StreamPrefix ==
    ASSUME NEW o \in Octets, Len(o) < FrameSpan, NEW t \in Octets,
           NEW u \in Octets, NEW s \in Octets, u \o s = Frame(o) \o t, Len(u) >= 2
    PROVE  TakesPrefix(o, u, s)
<1> DEFINE a == SubSeq(u, 1, 2)
           b == SubSeq(u, 3, Len(u))
<1>1. Len(u) \in Nat
  BY LenProperties DEF Octets
<1>2. a \in Octets /\ Len(a) = 2 /\ b \in Octets /\ a \o b = u
  <2>1. 2 \in Nat /\ 2 <= Len(u) /\ 2 + 1 = 3
    BY <1>1
  <2> QED
    BY <2>1, SplitAt
<1>3. Word(u) = Word(a)
  <2>1. 1 \in 1..(2 - 1 + 1) /\ 2 \in 1..(2 - 1 + 1)
    OBVIOUS
  <2>2. a[1] = u[1] /\ a[2] = u[2]
    BY <1>1, <2>1, PartOctets
  <2> QED
    BY <2>2 DEF Word
<1>4. u \o s = a \o (b \o s)
  <2>1. 2 \in Nat /\ 2 <= Len(u) /\ 2 + 1 = 3
    BY <1>1
  <2>2. u \o s = SubSeq(u, 1, 2) \o (SubSeq(u, 2 + 1, Len(u)) \o s)
    BY <2>1, CutStream, Zenon
  <2> QED
    BY <2>1, <2>2
<1> HIDE DEF a, b
<1> DEFINE h == Prefix(o)
<1>5. h \in Octets /\ Len(h) = 2 /\ u \o s = (h \o o) \o t
  BY FrameIs
<1> HIDE DEF h
<1>6. a = h
  <2> DEFINE p == b \o s
             q == o \o t
  <2>1. p \in Octets /\ q \in Octets
    BY <1>2, JoinOctets
  <2>2. (h \o o) \o t = h \o q
    BY <1>5, Regroup, Zenon
  <2>3. a \o p = h \o q
    BY <1>4, <1>5, <2>2
  <2> HIDE DEF p, q
  <2>4. SameStream(a, p, h, q)
    BY <1>2, <1>5, <2>1, <2>3 DEF SameStream
  <2> QED
    BY <2>4, CutAt
<1> QED
  BY <1>2, <1>3, <1>4, <1>6, FrameIs DEF b, h, TakesPrefix

\* The message itself.
LEMMA StreamBody ==
    ASSUME NEW o \in Octets, NEW t \in Octets, NEW u \in Octets, NEW s \in Octets,
           u \o s = o \o t, Len(u) >= Len(o)
    PROVE  TakesBody(o, t, u, s)
<1> DEFINE a == SubSeq(u, 1, Len(o))
           b == SubSeq(u, Len(o) + 1, Len(u))
<1>1. a \in Octets /\ Len(a) = Len(o) /\ b \in Octets /\ a \o b = u
  <2>1. Len(o) \in Nat /\ Len(u) \in Nat /\ Len(o) <= Len(u)
    BY LenProperties DEF Octets
  <2> QED
    BY <2>1, SplitAt
<1>2. a \o (b \o s) = o \o t
  <2>1. Len(o) \in Nat /\ Len(o) <= Len(u)
    BY LenProperties DEF Octets
  <2>2. u \o s = a \o (b \o s)
    BY <2>1, CutStream, Zenon
  <2> QED
    BY <2>2
<1> HIDE DEF a, b
<1>3. b \o s \in Octets
  BY <1>1, JoinOctets
<1>4. a = o /\ b \o s = t
  <2>1. SameStream(a, b \o s, o, t)
    BY <1>1, <1>2, <1>3 DEF SameStream
  <2> QED
    BY <2>1, CutAt
<1> QED
  BY <1>1, <1>4 DEF a, b, TakesBody

LEMMA BeginsStream ==
    ASSUME NEW a \in Octets, NEW t \in Octets PROVE IsPrefix(a, a \o t)
<1>1. a \o t \in Octets /\ Joined(a, t, a \o t)
  BY JoinOctets, JoinedOctets
<1> DEFINE e == a \o t
<1>2. e \in Octets /\ Joined(a, t, e)
  BY <1>1
<1> HIDE DEF e
<1>3. Len(a) \in Nat /\ Len(e) \in Nat /\ Len(a) <= Len(e)
  BY <1>2 DEF Joined
<1>4. SubSeq(e, 1, Len(a)) \in Octets /\ Len(SubSeq(e, 1, Len(a))) = Len(a)
  BY <1>2, <1>3, SplitAt
<1>5. \A i \in 1..Len(a) : SubSeq(e, 1, Len(a))[i] = a[i]
  <2>1. ASSUME NEW i \in 1..Len(a) PROVE SubSeq(e, 1, Len(a))[i] = a[i]
    <3>1. i \in 1..(Len(a) - 1 + 1) /\ 1 + i - 1 = i
      BY <1>3
    <3>2. SubSeq(e, 1, Len(a))[i] = e[i]
      BY <1>2, <1>3, <3>1, PartOctets
    <3> QED
      BY <1>2, <3>2 DEF Joined
  <2> QED
    BY <2>1
<1>6. SubSeq(e, 1, Len(a)) = a
  BY <1>4, <1>5, SeqEqual DEF Octets
<1>7. SubSeq(a, 1, Len(a)) = a
  BY SubSeqFull DEF Octets
<1> QED
  BY <1>3, <1>6, <1>7 DEF IsPrefix, e

\* The connections keep their shape, whoever they belong to.
LEMMA TcpTypesStep == TcpTypes /\ [Next]_vars => TcpTypes'
<1> SUFFICES ASSUME TcpTypes, [Next]_vars PROVE TcpTypes'
  OBVIOUS
<1>1. query = [c \in Client |-> query[c]]
  BY DEF TcpTypes
<1>2. ASSUME NEW k \in Peer, ConnStep(k) PROVE TcpTypes'
  BY <1>2, ConnLocal
<1>3. ASSUME NEW c \in Client, StartQuery(c) PROVE TcpTypes'
  <2>1. /\ query' = [b \in Client |-> IF b = c THEN query'[c] ELSE query[b]]
        /\ \/ UNCHANGED left
           \/ \E id \in Ids : left' = [left EXCEPT ![c] = Frame(Request(c, id).buf)]
        /\ UNCHANGED << conn, up, down, seen >>
    BY <1>1, <1>3, QueryStarted
  <2>2. query' = [b \in Client |-> query'[b]] /\ left' = [k \in Peer |-> left'[k]]
    BY <2>1 DEF TcpTypes
  <2> QED
    BY <2>1, <2>2 DEF TcpTypes
<1>4. ASSUME NEW c \in Client, EndQuery(c) PROVE TcpTypes'
  <2>1. /\ query' = [b \in Client |-> IF b = c THEN query'[c] ELSE query[b]]
        /\ UNCHANGED << conn, left, up, down, seen >>
    BY <1>1, <1>4, QueryEnded DEF tcpVars
  <2>2. query' = [b \in Client |-> query'[b]]
    BY <2>1
  <2> QED
    BY <2>1, <2>2 DEF TcpTypes
<1>5. CASE UNCHANGED << query, tcpVars >>
  BY <1>5 DEF tcpVars, TcpTypes
<1> QED
  BY <1>2, <1>3, <1>4, <1>5, TcpRests DEF vars

(***************************************************************************)
(* The order of the replies on a connection.  After i messages the stream  *)
(* of the peer stands at the message i + 1, and the frames of i replies    *)
(* are on their way or read.                                               *)
(***************************************************************************)
\* Replies are octets.
RepliesAreOctets ==
    \A k \in Pipeliner : \A i \in DOMAIN Pipeline[k] :
      HandleQuery(Pipeline[k][i], 0) \in Seq(Byte)

Message(k, i) == Pipeline[k][i]

Replies(k) == [i \in DOMAIN Pipeline[k] |-> HandleQuery(Pipeline[k][i], 0)]

Answered(k, i) ==
    /\ \A j \in 1..i : Replies(k)[j] # Nil
    /\ seen[k] \o down[k] = Frames(Replies(k), i)

Consumed(k, s) == s \o (up[k] \o left[k]) = Stream(k)

Unserved(k) ==
    /\ conn[k].at = "none"
    /\ up[k] = << >> /\ seen[k] = << >> /\ down[k] = << >>
    /\ left[k] = << >> \/ left[k] = Stream(k)

Served(k, i) ==
    /\ i \in 0..Len(Pipeline[k])
    /\ Answered(k, i)
    /\ \/ conn[k].at = "prefix" /\ Consumed(k, Frames(Pipeline[k], i))
       \/ /\ conn[k].at = "body" /\ i < Len(Pipeline[k])
          /\ conn[k].need = Len(Message(k, i + 1))
          /\ Consumed(k, Frames(Pipeline[k], i) \o Prefix(Message(k, i + 1)))
       \/ /\ conn[k].at = "write" /\ i < Len(Pipeline[k])
          /\ conn[k].resp = Replies(k)[i + 1] /\ Replies(k)[i + 1] # Nil
          /\ Consumed(k, Frames(Pipeline[k], i + 1))
       \/ conn[k].at = "closed"

PipeTypes(k) ==
    up[k] \in Octets /\ left[k] \in Octets /\ down[k] \in Octets /\ seen[k] \in Octets

PipeOwn(k) == PipeTypes(k) /\ (Unserved(k) \/ \E i \in Nat : Served(k, i))

PipeInv == TcpTypes /\ \A k \in Pipeliner : PipeOwn(k)

\* What a pipelining peer sends.
LEMMA PipelineFacts ==
    ASSUME NEW k \in Pipeliner
    PROVE  /\ Len(Pipeline[k]) \in Nat /\ DOMAIN Pipeline[k] = 1..Len(Pipeline[k])
           /\ Messages(Pipeline[k], Len(Pipeline[k]))
           /\ \A i \in 1..Len(Pipeline[k]) : Len(Message(k, i)) < FrameSpan
           /\ Stream(k) = Frames(Pipeline[k], Len(Pipeline[k]))
           /\ Stream(k) \in Octets
<1> DEFINE p == Pipeline[k]
<1>1. p \in Seq(Octets) /\ \A i \in DOMAIN p : Len(p[i]) < FrameSpan
  BY PipelineAssumption DEF PipelineAssumption, Octets
<1>2. Stream(k) = FlattenSeq([i \in DOMAIN p |-> Frame(p[i])])
  BY DEF Stream
<1> HIDE DEF p
<1>3. Len(p) \in Nat /\ DOMAIN p = 1..Len(p)
  BY <1>1, LenProperties
<1>4. Messages(p, Len(p))
  BY <1>1, <1>3, ElementOfSeq DEF Messages
<1>5. Stream(k) = Frames(p, Len(p))
  BY <1>2, <1>3 DEF Frames
<1>6. Stream(k) \in Octets
  BY <1>3, <1>4, <1>5, FramesOctets
<1> QED
  BY <1>1, <1>3, <1>4, <1>5, <1>6 DEF p, Message

LEMMA ReplyFacts ==
    ASSUME RepliesAreOctets, NEW k \in Pipeliner
    PROVE  /\ Messages(Replies(k), Len(Pipeline[k]))
           /\ \A i \in 1..Len(Pipeline[k]) :
                Replies(k)[i] = HandleQuery(Message(k, i), 0)
BY PipelineFacts DEF RepliesAreOctets, Replies, Messages, Message, Octets

\* As long as there is something left, it begins with the next message.
LEMMA NextMessage ==
    ASSUME NEW k \in Pipeliner, NEW i \in 0..Len(Pipeline[k]), NEW rest \in Octets,
           Frames(Pipeline[k], i) \o rest = Stream(k), rest # << >>
    PROVE  /\ i < Len(Pipeline[k])
           /\ Message(k, i + 1) \in Octets /\ Len(Message(k, i + 1)) < FrameSpan
           /\ Frames(Pipeline[k], i) \in Octets /\ Frames(Pipeline[k], i + 1) \in Octets
           /\ \E t \in Octets : /\ rest = Frame(Message(k, i + 1)) \o t
                                /\ Frames(Pipeline[k], i + 1) \o t = Stream(k)
<1> DEFINE p == Pipeline[k]
           n == Len(Pipeline[k])
           a == Frames(p, i)
<1>1. a \o rest = Stream(k)
  OBVIOUS
<1>2. /\ n \in Nat /\ Messages(p, n) /\ Stream(k) = Frames(p, n) /\ Stream(k) \in Octets
      /\ \A j \in 1..n : Len(Message(k, j)) < FrameSpan
  BY PipelineFacts
<1>3. i \in Nat /\ i <= n
  BY <1>2
<1>4. a \in Octets
  <2>1. Messages(p, i)
    BY <1>2, <1>3 DEF Messages
  <2> QED
    BY <1>3, <2>1, FramesOctets
<1>5. i # n
  <2>1. ASSUME i = n PROVE FALSE
    <3>1. a \o rest = a \o << >>
      BY <1>2, <1>4, <2>1, ConcatEmptySeq DEF Octets
    <3> HIDE DEF a
    <3>2. SameStream(a, rest, a, << >>)
      BY <1>4, <3>1, EmptyOctets DEF SameStream
    <3> QED
      BY <3>2, CutAt
  <2> QED
    BY <2>1
<1>6. i + 1 \in 1..n /\ i + 1 \in 0..n
  BY <1>2, <1>3, <1>5
<1> DEFINE o == Message(k, i + 1)
<1>7. o \in Octets /\ Len(o) < FrameSpan /\ o = p[i + 1]
  BY <1>2, <1>6 DEF Messages, Message
<1>8. PICK t \in Octets : Stream(k) = Frames(p, i + 1) \o t
  BY <1>2, <1>6, FramesBegin
<1>9. Frames(p, i + 1) = a \o Frame(o)
  BY <1>3, <1>7, FramesGrow
<1> HIDE DEF a, o, p, n
<1>10. Frame(o) \in Octets
  BY <1>7, FrameOctets
<1>11. a \o Frame(o) \in Octets
  BY <1>4, <1>10, JoinOctets
<1>12. (a \o Frame(o)) \o t = a \o (Frame(o) \o t)
  BY <1>4, <1>10, Regroup, Zenon
<1> DEFINE q == Frame(o) \o t
<1>13. q \in Octets
  BY <1>10, JoinOctets
<1>14. a \o rest = a \o q
  BY <1>1, <1>8, <1>9, <1>12
<1> HIDE DEF q
<1>15. rest = q
  <2>1. SameStream(a, rest, a, q)
    BY <1>4, <1>13, <1>14 DEF SameStream
  <2> QED
    BY <2>1, CutAt
<1>16. rest = Frame(o) \o t /\ Frames(p, i + 1) \o t = Stream(k)
  BY <1>8, <1>15 DEF q
<1>17. i < n
  BY <1>2, <1>3, <1>5
<1>18. Frames(p, i + 1) \in Octets
  BY <1>9, <1>11
<1> QED
  BY <1>4, <1>7, <1>16, <1>17, <1>18 DEF a, o, p, n

\* A connection goes on with the message that is next.
LEMMA PipeStep ==
    ASSUME RepliesAreOctets, TcpTypes, NEW k \in Pipeliner, PipeOwn(k), ConnStep(k)
    PROVE  PipeOwn(k)'
<1> DEFINE n == Len(Pipeline[k])
           F(i) == Frames(Pipeline[k], i)
           Q == Replies(k)
<1>1. /\ k \in Peer /\ PipeTypes(k) /\ n \in Nat /\ Stream(k) \in Octets
      /\ Stream(k) = F(n)
  BY PipelineFacts DEF Peer, PipeOwn
<1>2. up[k] \o left[k] \in Octets
  BY <1>1, JoinOctets DEF PipeTypes
<1>3. CASE Accept(k)
  <2>1. /\ conn[k].at = "none" /\ left[k] # << >> /\ conn'[k].at = "prefix"
        /\ UNCHANGED << left, up, down, seen >>
    BY <1>1, <1>3 DEF Accept, TcpTypes, NoConn
  <2>2. up[k] = << >> /\ seen[k] = << >> /\ down[k] = << >> /\ left[k] = Stream(k)
    BY <2>1 DEF PipeOwn, Unserved, Served
  <2>3. F(0) = << >> /\ Frames(Q, 0) = << >>
    <3>1. \A f : Frames(f, 0) = << >>
      BY NoFrames
    <3> QED
      BY <3>1
  <2>4. Answered(k, 0)'
    BY <2>1, <2>2, <2>3, EmptyOctets DEF Answered
  <2>5. up[k] \o left[k] = Stream(k) /\ F(0) \o (up[k] \o left[k]) = Stream(k)
    BY <1>1, <2>2, <2>3, ConcatEmptySeq DEF Octets
  <2>6. Consumed(k, F(0))'
    BY <2>1, <2>5 DEF Consumed
  <2>7. Served(k, 0)'
    BY <1>1, <2>1, <2>4, <2>6 DEF Served
  <2> QED
    BY <1>1, <2>1, <2>7 DEF PipeOwn, PipeTypes
<1>4. CASE ReadPrefix(k)
  <2>1. /\ conn[k].at = "prefix" /\ Len(up[k]) >= 2
        /\ conn'[k].at = "body" /\ conn'[k].need = Word(up[k])
        /\ up'[k] = SubSeq(up[k], 3, Len(up[k]))
        /\ UNCHANGED << left, down, seen >>
    BY <1>1, <1>4 DEF ReadPrefix, TcpTypes
  <2>2. PICK i \in Nat : i \in 0..n /\ Answered(k, i) /\ Consumed(k, F(i))
    BY <2>1 DEF PipeOwn, Unserved, Served
  <2> DEFINE rest == up[k] \o left[k]
             o == Message(k, i + 1)
  <2>3. rest \in Octets /\ rest # << >>
    <3>1. Joined(up[k], left[k], rest)
      BY <1>1, JoinedOctets DEF PipeTypes
    <3>2. rest \in Octets
      BY <1>2
    <3> HIDE DEF rest
    <3>3. Len(up[k]) \in Nat /\ Len(left[k]) \in Nat /\ Len(rest) = Len(up[k]) + Len(left[k])
      BY <3>1 DEF Joined
    <3>4. ASSUME NEW a \in Nat, NEW b \in Nat, a >= 2 PROVE a + b # 0
      BY <3>4
    <3>5. Len(rest) # 0
      BY <2>1, <3>3, <3>4
    <3> QED
      BY <3>2, <3>5, EmptyOctets
  <2>4. F(i) \o rest = Stream(k)
    BY <2>2 DEF Consumed
  <2> HIDE DEF rest
  <2>5. /\ i < n /\ o \in Octets /\ Len(o) < FrameSpan /\ F(i) \in Octets
        /\ \E t \in Octets : rest = Frame(o) \o t
    BY <2>2, <2>3, <2>4, NextMessage
  <2> HIDE DEF o
  <2>6. PICK t \in Octets : rest = Frame(o) \o t
    BY <2>5
  <2>7. /\ Word(up[k]) = Len(o) /\ up'[k] \in Octets
        /\ Prefix(o) \o (up'[k] \o left[k]) = rest
    <3>1. up[k] \in Octets /\ left[k] \in Octets /\ up[k] \o left[k] = Frame(o) \o t
      BY <1>1, <2>6 DEF rest, PipeTypes
    <3>2. TakesPrefix(o, up[k], left[k])
      BY <2>1, <2>5, <3>1, StreamPrefix
    <3> QED
      BY <2>1, <3>2 DEF rest, TakesPrefix
  <2>8. (F(i) \o Prefix(o)) \o (up'[k] \o left[k]) = Stream(k)
    <3> DEFINE v == up'[k] \o left[k]
    <3>1. v \in Octets /\ Prefix(o) \in Octets
      BY <1>1, <2>5, <2>7, JoinOctets, FrameIs DEF PipeTypes
    <3>2. Prefix(o) \o v = rest
      BY <2>7
    <3> HIDE DEF v
    <3>3. (F(i) \o Prefix(o)) \o v = F(i) \o (Prefix(o) \o v)
      BY <2>5, <3>1, Regroup, Zenon
    <3> QED
      BY <2>4, <3>2, <3>3 DEF v
  <2>9. Consumed(k, F(i) \o Prefix(o))'
    BY <2>1, <2>8 DEF Consumed
  <2>10. Answered(k, i)'
    BY <2>1, <2>2 DEF Answered
  <2>11. Served(k, i)'
    BY <2>1, <2>2, <2>5, <2>7, <2>9, <2>10 DEF Served, o
  <2> QED
    BY <1>1, <2>1, <2>7, <2>11 DEF PipeOwn, PipeTypes
<1>5. CASE ReadBody(k)
  <2>1. /\ conn[k].at = "body" /\ Len(up[k]) >= conn[k].need
        /\ LET r == HandleQuery(SubSeq(up[k], 1, conn[k].need), 0) IN
           \/ r = Nil /\ conn'[k].at = "closed"
           \/ r # Nil /\ conn'[k].at = "write" /\ conn'[k].resp = r
        /\ up'[k] = SubSeq(up[k], conn[k].need + 1, Len(up[k]))
        /\ UNCHANGED << left, down, seen >>
    BY <1>1, <1>5 DEF ReadBody, Rest, TcpTypes
  <2>2. PICK i \in Nat :
          /\ i \in 0..n /\ i < n /\ Answered(k, i)
          /\ conn[k].need = Len(Message(k, i + 1))
          /\ Consumed(k, F(i) \o Prefix(Message(k, i + 1)))
    BY <2>1 DEF PipeOwn, Unserved, Served
  <2> DEFINE rest == up[k] \o left[k]
             o == Message(k, i + 1)
  <2>3. /\ o \in Octets /\ Len(o) < FrameSpan /\ Q[i + 1] = HandleQuery(o, 0)
        /\ F(i) \in Octets /\ i + 1 \in 1..n
    <3>1. i + 1 \in 1..n /\ Messages(Pipeline[k], i) /\ Messages(Pipeline[k], n)
      BY <1>1, <2>2, PipelineFacts DEF Messages
    <3> QED
      BY <3>1, PipelineFacts, ReplyFacts, FramesOctets DEF Messages, Message
  <2>4. (F(i) \o Prefix(o)) \o rest = Stream(k)
    BY <2>2 DEF Consumed
  <2>5. rest \in Octets
    BY <1>2
  <2>6. \E t \in Octets : rest = o \o t /\ F(i + 1) \o t = Stream(k)
    <3> HIDE DEF rest, o
    <3> DEFINE whole == Prefix(o) \o rest
    <3>1. Prefix(o) \in Octets /\ Len(Prefix(o)) = 2
      BY <2>3, FrameIs
    <3>2. whole \in Octets /\ whole # << >>
      <4>1. Joined(Prefix(o), rest, whole)
        BY <2>5, <3>1, JoinedOctets
      <4>2. whole \in Octets /\ Len(whole) >= 2
        BY <3>1, <4>1 DEF Joined
      <4> QED
        BY <4>2, EmptyOctets
    <3>3. (F(i) \o Prefix(o)) \o rest = F(i) \o whole
      BY <2>3, <2>5, <3>1, Regroup, Zenon
    <3>4. F(i) \o whole = Stream(k)
      BY <2>4, <3>3
    <3> HIDE DEF whole
    <3>5. \E t \in Octets : whole = Frame(o) \o t /\ F(i + 1) \o t = Stream(k)
      BY <2>2, <3>2, <3>4, NextMessage DEF o
    <3>6. PICK t \in Octets : whole = Frame(o) \o t /\ F(i + 1) \o t = Stream(k)
      BY <3>5
    <3>7. (Prefix(o) \o o) \o t = Prefix(o) \o (o \o t)
      BY <2>3, <3>1, Regroup, Zenon
    <3>8. Frame(o) = Prefix(o) \o o
      BY <2>3, FrameIs
    <3> DEFINE body == o \o t
    <3>9. body \in Octets
      BY <2>3, JoinOctets
    <3>10. Prefix(o) \o rest = Prefix(o) \o body
      BY <3>6, <3>7, <3>8 DEF whole
    <3> HIDE DEF body
    <3>11. rest = body
      <4>1. SameStream(Prefix(o), rest, Prefix(o), body)
        BY <2>5, <3>1, <3>9, <3>10 DEF SameStream
      <4> QED
        BY <4>1, CutAt
    <3> QED
      BY <3>6, <3>11 DEF body
  <2> HIDE DEF o
  <2>7. PICK t \in Octets : rest = o \o t /\ F(i + 1) \o t = Stream(k)
    BY <2>6
  <2>8. conn[k].need = Len(o)
    BY <2>2 DEF o
  <2>9. /\ SubSeq(up[k], 1, conn[k].need) = o
        /\ up'[k] \in Octets /\ up'[k] \o left[k] = t
    <3>1. /\ up[k] \in Octets /\ left[k] \in Octets
          /\ up[k] \o left[k] = o \o t /\ Len(up[k]) >= Len(o)
      BY <1>1, <2>1, <2>7, <2>8 DEF PipeTypes
    <3>2. TakesBody(o, t, up[k], left[k])
      BY <2>3, <3>1, StreamBody
    <3> QED
      BY <2>1, <2>8, <3>2 DEF TakesBody
  <2>10. Consumed(k, F(i + 1))'
    BY <2>1, <2>7, <2>9 DEF Consumed
  <2>11. Answered(k, i)'
    BY <2>1, <2>2 DEF Answered
  <2>12. \/ conn'[k].at = "closed"
         \/ Q[i + 1] # Nil /\ conn'[k].at = "write" /\ conn'[k].resp = Q[i + 1]
    BY <2>1, <2>3, <2>9
  <2>13. Served(k, i)'
    BY <2>2, <2>10, <2>11, <2>12 DEF Served
  <2> QED
    BY <1>1, <2>1, <2>9, <2>13 DEF PipeOwn, PipeTypes
<1>6. CASE WriteReply(k)
  <2>1. /\ conn[k].at = "write" /\ conn'[k].at = "prefix"
        /\ down'[k] = down[k] \o Frame(conn[k].resp)
        /\ UNCHANGED << left, up, seen >>
    BY <1>1, <1>6 DEF WriteReply, TcpTypes
  <2>2. PICK i \in Nat :
          /\ i \in 0..n /\ i < n /\ Answered(k, i)
          /\ conn[k].resp = Q[i + 1] /\ Q[i + 1] # Nil
          /\ Consumed(k, F(i + 1))
    BY <2>1 DEF PipeOwn, Unserved, Served
  <2> DEFINE l == i + 1
  <2>3. l \in Nat /\ l \in 1..n /\ l \in 0..n /\ \A j \in 1..l : j \in 1..i \/ j = l
    BY <1>1, <2>2
  <2>4. Q[l] \in Octets
    BY <2>3, ReplyFacts DEF Messages
  <2>5. Frames(Q, i + 1) = Frames(Q, i) \o Frame(Q[i + 1])
    BY <2>4, FramesGrow
  <2>6. Frame(Q[l]) \in Octets /\ down'[k] = down[k] \o Frame(Q[l])
    BY <2>1, <2>2, <2>4, FrameOctets
  <2>7. seen[k] \o (down[k] \o Frame(Q[l])) = Frames(Q, l)
    <3> DEFINE g == Frame(Q[l])
    <3>1. g \in Octets
      BY <2>6
    <3> HIDE DEF g
    <3>2. (seen[k] \o down[k]) \o g = seen[k] \o (down[k] \o g)
      <4>1. seen[k] \in Octets /\ down[k] \in Octets
        BY <1>1 DEF PipeTypes
      <4> QED
        BY <3>1, <4>1, Regroup, Zenon
    <3>3. seen[k] \o down[k] = Frames(Q, i)
      BY <2>2 DEF Answered
    <3> QED
      BY <2>5, <3>2, <3>3 DEF g
  <2>8. down'[k] \in Octets
    BY <1>1, <2>6, JoinOctets DEF PipeTypes
  <2>9. Answered(k, l)'
    BY <2>1, <2>2, <2>3, <2>6, <2>7 DEF Answered
  <2>10. Consumed(k, F(l))'
    BY <2>1, <2>2 DEF Consumed
  <2> HIDE DEF l
  <2>11. Served(k, l)'
    BY <2>1, <2>3, <2>9, <2>10 DEF Served
  <2> QED
    BY <1>1, <2>1, <2>3, <2>8, <2>11 DEF PipeOwn, PipeTypes
<1>7. CASE ReadFails(k) \/ WriteFails(k)
  <2>1. /\ conn[k].at \in {"prefix", "body", "write"} /\ conn'[k].at = "closed"
        /\ UNCHANGED << left, up, down, seen >>
    BY <1>1, <1>7 DEF ReadFails, WriteFails, Deadline, TcpTypes
  <2>2. PICK i \in Nat : i \in 0..n /\ Answered(k, i)
    BY <2>1 DEF PipeOwn, Unserved, Served
  <2>3. Answered(k, i)'
    BY <2>1, <2>2 DEF Answered
  <2>4. Served(k, i)'
    BY <2>1, <2>2, <2>3 DEF Served
  <2> QED
    BY <1>1, <2>1, <2>4 DEF PipeOwn, PipeTypes
<1>8. CASE PeerSends(k)
  <2>1. /\ conn[k].at \notin {"none", "closed"} /\ left[k] # << >>
        /\ UNCHANGED << conn, down, seen >>
    BY <1>8 DEF PeerSends
  <2>2. PICK m \in 1..Len(left[k]) :
          /\ up'[k] = up[k] \o SubSeq(left[k], 1, m)
          /\ left'[k] = SubSeq(left[k], m + 1, Len(left[k]))
    BY <1>1, <1>8 DEF PeerSends, TcpTypes
  <2>3. /\ up[k] \o SubSeq(left[k], 1, m) \in Octets
        /\ SubSeq(left[k], m + 1, Len(left[k])) \in Octets
        /\ (up[k] \o SubSeq(left[k], 1, m)) \o SubSeq(left[k], m + 1, Len(left[k])) =
             up[k] \o left[k]
    BY <1>1, PieceMoves DEF PipeTypes
  <2>4. up'[k] \in Octets /\ left'[k] \in Octets /\ up'[k] \o left'[k] = up[k] \o left[k]
    BY <2>2, <2>3
  <2>5. \A s : Consumed(k, s) => Consumed(k, s)'
    BY <2>4 DEF Consumed
  <2>6. PICK i \in Nat : Served(k, i)
    BY <2>1 DEF PipeOwn, Unserved
  <2>7. Answered(k, i)'
    BY <2>1, <2>6 DEF Answered, Served
  <2>8. Served(k, i)'
    BY <2>1, <2>4, <2>6, <2>7 DEF Served, Consumed
  <2> QED
    BY <1>1, <2>1, <2>4, <2>8 DEF PipeOwn, PipeTypes
<1>9. CASE PeerReads(k)
  <2>1. /\ down[k] # << >> /\ seen'[k] = seen[k] \o down[k] /\ down'[k] = << >>
        /\ UNCHANGED << conn, left, up >>
    BY <1>1, <1>9 DEF PeerReads, TcpTypes
  <2>2. seen[k] \o down[k] \in Octets
    BY <1>1, JoinOctets DEF PipeTypes
  <2>3. seen'[k] \o down'[k] = seen[k] \o down[k]
    BY <2>1, <2>2, ConcatEmptySeq DEF Octets
  <2>4. PICK i \in Nat : Served(k, i)
    BY <2>1 DEF PipeOwn, Unserved
  <2>5. Answered(k, i)'
    BY <2>3, <2>4 DEF Answered, Served
  <2>6. Served(k, i)'
    BY <2>1, <2>4, <2>5 DEF Served, Consumed
  <2> QED
    BY <1>1, <2>1, <2>2, <2>6, EmptyOctets DEF PipeOwn, PipeTypes
<1> QED
  BY <1>3, <1>4, <1>5, <1>6, <1>7, <1>8, <1>9 DEF ConnStep

LEMMA PipeInitially == Init => PipeInv
<1> SUFFICES ASSUME Init PROVE PipeInv
  OBVIOUS
<1>1. TcpTypes
  BY TcpInitially DEF TcpInv
<1>2. PICK there \in Cast :
        left = [k \in Peer |-> IF k \in Pipeliner \cap there THEN Stream(k) ELSE << >>]
  BY DEF Init
<1>3. /\ conn = [k \in Peer |-> NoConn] /\ up = [k \in Peer |-> << >>]
      /\ down = [k \in Peer |-> << >>] /\ seen = [k \in Peer |-> << >>]
  BY DEF Init
<1>4. ASSUME NEW k \in Pipeliner PROVE PipeOwn(k)
  <2>1. k \in Peer /\ Stream(k) \in Octets
    BY PipelineFacts DEF Peer
  <2>2. /\ conn[k].at = "none" /\ up[k] = << >> /\ down[k] = << >> /\ seen[k] = << >>
        /\ left[k] = << >> \/ left[k] = Stream(k)
    BY <1>2, <1>3, <2>1 DEF NoConn
  <2> QED
    BY <2>1, <2>2, EmptyOctets DEF PipeOwn, PipeTypes, Unserved
<1> QED
  BY <1>1, <1>4 DEF PipeInv

LEMMA PipeNext == RepliesAreOctets /\ PipeInv /\ [Next]_vars => PipeInv'
<1> SUFFICES ASSUME RepliesAreOctets, PipeInv, [Next]_vars PROVE PipeInv'
  OBVIOUS
<1>1. TcpTypes /\ TcpTypes' /\ query = [c \in Client |-> query[c]]
  BY TcpTypesStep DEF PipeInv, TcpTypes
<1>2. ASSUME NEW k \in Pipeliner PROVE PipeOwn(k)'
  <2>1. PipeOwn(k) /\ k \in Peer /\ k \notin TcpClient
    BY ClientAssumption DEF PipeInv, Peer, ClientAssumption
  <2>2. ASSUME conn'[k] = conn[k], left'[k] = left[k], up'[k] = up[k],
               down'[k] = down[k], seen'[k] = seen[k]
        PROVE  PipeOwn(k)'
    BY <2>1, <2>2 DEF PipeOwn, PipeTypes, Unserved, Served, Answered, Consumed
  <2>3. ASSUME NEW p \in Peer, ConnStep(p) PROVE PipeOwn(k)'
    <3>1. CASE p = k
      BY <1>1, <2>1, <2>3, <3>1, PipeStep
    <3>2. CASE p # k
      BY <1>1, <2>1, <2>2, <2>3, <3>2, ConnLocal
    <3> QED
      BY <3>1, <3>2
  <2>4. ASSUME NEW c \in Client, StartQuery(c) PROVE PipeOwn(k)'
    <3>1. /\ \/ UNCHANGED left
             \/ \E id \in Ids :
                  IF c \in TcpClient
                  THEN left' = [left EXCEPT ![c] = Frame(Request(c, id).buf)]
                  ELSE UNCHANGED left
          /\ UNCHANGED << conn, up, down, seen >>
      BY <1>1, <2>4, QueryStarted
    <3>2. left'[k] = left[k]
      BY <1>1, <2>1, <3>1 DEF TcpTypes
    <3> QED
      BY <2>2, <3>1, <3>2
  <2>5. ASSUME NEW c \in Client, EndQuery(c) PROVE PipeOwn(k)'
    <3>1. UNCHANGED << conn, left, up, down, seen >>
      BY <1>1, <2>5, QueryEnded DEF tcpVars
    <3> QED
      BY <2>2, <3>1
  <2>6. CASE UNCHANGED << query, tcpVars >>
    BY <2>2, <2>6 DEF tcpVars
  <2> QED
    BY <2>3, <2>4, <2>5, <2>6, TcpRests DEF vars
<1> QED
  BY <1>1, <1>2 DEF PipeInv

\* The first message that gets no reply, if there is one, ends what is owed.
LEMMA OwedAll ==
    ASSUME RepliesAreOctets, NEW k \in Pipeliner
    PROVE  \E l \in 0..Len(Pipeline[k]) :
             /\ Owed[k] = Frames(Replies(k), l)
             /\ l < Len(Pipeline[k]) => Replies(k)[l + 1] = Nil
<1> DEFINE n == Len(Pipeline[k])
           Q == Replies(k)
           T == {i \in DOMAIN Q : Q[i] = Nil} \cup {Len(Q) + 1}
           stop == Min(T)
<1>1. n \in Nat /\ DOMAIN Pipeline[k] = 1..n /\ DOMAIN Q = 1..n /\ Len(Q) = n
  <2>1. n \in Nat /\ DOMAIN Pipeline[k] = 1..n
    BY PipelineFacts
  <2>2. Q = [i \in 1..n |-> HandleQuery(Pipeline[k][i], 0)]
    BY <2>1 DEF Replies
  <2> HIDE DEF n
  <2> QED
    BY <2>1, <2>2
<1>2. Owed[k] = FlattenSeq([i \in 1..(stop - 1) |-> Frame(Q[i])])
  BY DEF Owed, Replies
<1> HIDE DEF n, Q
<1>3. T \subseteq Nat /\ T # {} /\ \A i \in T : i \in 1..(n + 1)
  BY <1>1
<1>4. \E m \in T : \A i \in T : m <= i
  BY <1>3, LeastNat
<1>5. stop \in T
  BY <1>4 DEF Min
<1>6. stop \in 1..(n + 1) /\ stop # n + 1 => Q[stop] = Nil
  BY <1>1, <1>3, <1>5
<1> HIDE DEF stop
<1>7. stop - 1 \in 0..n /\ stop - 1 + 1 = stop
  BY <1>1, <1>3, <1>5, <1>6
<1>8. stop - 1 < n => Q[stop - 1 + 1] = Nil
  BY <1>1, <1>6, <1>7
<1> QED
  BY <1>2, <1>7, <1>8 DEF n, Q, Frames

\* The order of the replies follows from their being octets.
LEMMA OrderedOctets == RepliesAreOctets /\ Spec => []RepliesInOrder
<1> SUFFICES ASSUME RepliesAreOctets PROVE Spec => []RepliesInOrder
  OBVIOUS
<1>1. Init => PipeInv
  BY PipeInitially
<1>2. PipeInv /\ [Next]_vars => PipeInv'
  BY PipeNext
<1>3. PipeInv => RepliesInOrder
  <2> SUFFICES ASSUME PipeInv, NEW k \in Pipeliner
               PROVE  IsPrefix(seen[k] \o down[k], Owed[k])
    BY DEF RepliesInOrder
  <2> DEFINE Q == Replies(k)
  <2>1. PipeOwn(k) /\ Len(Pipeline[k]) \in Nat /\ Messages(Q, Len(Pipeline[k]))
    BY PipelineFacts, ReplyFacts DEF PipeInv
  <2>2. PICK l \in 0..Len(Pipeline[k]) :
          /\ Owed[k] = Frames(Q, l)
          /\ l < Len(Pipeline[k]) => Q[l + 1] = Nil
    BY OwedAll
  <2>3. \E i \in 0..Len(Pipeline[k]) :
          (\A j \in 1..i : Q[j] # Nil) /\ seen[k] \o down[k] = Frames(Q, i)
    <3>1. CASE Unserved(k)
      <4>1. seen[k] \o down[k] = Frames(Q, 0)
        BY <3>1, NoFrames, EmptyOctets DEF Unserved
      <4> QED
        BY <2>1, <4>1
    <3>2. CASE \E i \in Nat : Served(k, i)
      BY <3>2 DEF Served, Answered
    <3> QED
      BY <2>1, <3>1, <3>2 DEF PipeOwn
  <2>4. PICK i \in 0..Len(Pipeline[k]) :
          (\A j \in 1..i : Q[j] # Nil) /\ seen[k] \o down[k] = Frames(Q, i)
    BY <2>3
  <2> HIDE DEF Q
  <2>5. i \in 0..l /\ l \in Nat
    <3>1. ASSUME i > l PROVE FALSE
      <4>1. l + 1 \in 1..i /\ l < Len(Pipeline[k])
        BY <2>1, <3>1
      <4> QED
        BY <2>2, <2>4, <4>1
    <3> QED
      BY <2>1, <3>1
  <2>6. Messages(Q, l) /\ Messages(Q, i) /\ i \in Nat
    BY <2>1, <2>5 DEF Messages
  <2>7. PICK t \in Octets : Frames(Q, l) = Frames(Q, i) \o t
    BY <2>5, <2>6, FramesBegin
  <2> DEFINE a == Frames(Q, i)
  <2>8. a \in Octets
    BY <2>6, FramesOctets
  <2>9. Owed[k] = a \o t /\ seen[k] \o down[k] = a
    BY <2>2, <2>4, <2>7
  <2> HIDE DEF a
  <2> QED
    BY <2>8, <2>9, BeginsStream
<1> QED
  BY <1>1, <1>2, <1>3, PTL DEF Spec

(***************************************************************************)
(* Messages that the server makes.                                         *)
(***************************************************************************)
Assembled(h, qs, answers, authority) ==
    [header |-> h, questions |-> qs, answers |-> answers, authority |-> authority,
     additional |-> << >>]

HeaderOf(id, qr, opcode, aa, tc, rd, ra, rcode) ==
    [id |-> id, qr |-> qr, opcode |-> opcode, aa |-> aa, tc |-> tc,
     rd |-> rd, ra |-> ra, rcode |-> rcode]

Refusal(id, rcode) == HeaderOf(id, TRUE, 0, FALSE, FALSE, FALSE, FALSE, rcode)

Replying(h, rcode) == HeaderOf(h.id, TRUE, h.opcode, TRUE, FALSE, h.rd, FALSE, rcode)
Hinting(h, rcode)  == HeaderOf(h.id, TRUE, h.opcode, TRUE, TRUE, h.rd, FALSE, rcode)

LEMMA HeaderParts ==
    ASSUME NEW id, NEW qr, NEW opcode, NEW aa, NEW tc, NEW rd, NEW ra, NEW rcode
    PROVE  LET h == HeaderOf(id, qr, opcode, aa, tc, rd, ra, rcode) IN
           /\ h.id = id /\ h.qr = qr /\ h.opcode = opcode /\ h.aa = aa
           /\ h.tc = tc /\ h.rd = rd /\ h.ra = ra /\ h.rcode = rcode
BY DEF HeaderOf

\* The header of a response, its booleans named.
Answering(h, yes, no) == [h EXCEPT !.qr = yes, !.aa = yes, !.tc = no, !.ra = no]
Coded(h, rcode)       == [h EXCEPT !.rcode = rcode]
Hinted(h, yes)           == [h EXCEPT !.tc = yes]

LEMMA HeaderAnswers ==
    ASSUME NEW h, NEW id, NEW qr, NEW opcode, NEW aa, NEW tc, NEW rd, NEW ra, NEW rcode,
           h = HeaderOf(id, qr, opcode, aa, tc, rd, ra, rcode), NEW yes, NEW no, NEW v
    PROVE  /\ Answering(h, yes, no) = HeaderOf(id, yes, opcode, yes, no, rd, no, rcode)
           /\ Coded(h, v) = HeaderOf(id, qr, opcode, aa, tc, rd, ra, v)
           /\ Hinted(h, yes) = HeaderOf(id, qr, opcode, aa, yes, rd, ra, rcode)
<1> DEFINE a == [h EXCEPT !.qr = yes]
           b == [a EXCEPT !.aa = yes]
           c == [b EXCEPT !.tc = no]
           d == [c EXCEPT !.ra = no]
<1>1. a = HeaderOf(id, yes, opcode, aa, tc, rd, ra, rcode)
  BY DEF HeaderOf
<1> HIDE DEF a
<1>2. b = HeaderOf(id, yes, opcode, yes, tc, rd, ra, rcode)
  BY <1>1 DEF HeaderOf
<1> HIDE DEF b
<1>3. c = HeaderOf(id, yes, opcode, yes, no, rd, ra, rcode)
  BY <1>2 DEF HeaderOf
<1> HIDE DEF c
<1>4. d = HeaderOf(id, yes, opcode, yes, no, rd, no, rcode)
  BY <1>3 DEF HeaderOf
<1> HIDE DEF d
<1>5. d = Answering(h, yes, no)
  BY Zenon DEF a, b, c, d, Answering
<1>6. Coded(h, v) = HeaderOf(id, qr, opcode, aa, tc, rd, ra, v)
  BY DEF HeaderOf, Coded
<1>7. Hinted(h, yes) = HeaderOf(id, qr, opcode, aa, yes, rd, ra, rcode)
  BY DEF HeaderOf, Hinted
<1> QED
  BY <1>4, <1>5, <1>6, <1>7

LEMMA HeaderIsParts ==
    ASSUME NEW h \in DnsHeader
    PROVE  h = HeaderOf(h.id, h.qr, h.opcode, h.aa, h.tc, h.rd, h.ra, h.rcode)
BY DEF DnsHeader, HeaderOf

LEMMA HeadersTyped ==
    /\ \A id \in Word16, rcode \in 0..15 : Refusal(id, rcode) \in DnsHeader
    /\ \A h \in DnsHeader, rcode \in 0..15 :
         Replying(h, rcode) \in DnsHeader /\ Hinting(h, rcode) \in DnsHeader
BY DEF DnsHeader, Refusal, Replying, Hinting, HeaderOf

LEMMA MessageTyped ==
    ASSUME NEW h \in DnsHeader, NEW qs \in Seq(DnsQuestion),
           NEW answers \in Seq(DnsRecord), NEW authority \in Seq(DnsRecord)
    PROVE  Assembled(h, qs, answers, authority) \in DnsMessage
<1>1. << >> \in Seq(DnsRecord)
  BY EmptySeq
<1> QED
  BY <1>1 DEF Assembled, DnsMessage

LEMMA RefusalIs ==
    ASSUME NEW id, NEW rcode
    PROVE  Plain(id, rcode) = Assembled(Refusal(id, rcode), << >>, << >>, << >>)
BY Zenon DEF Plain, Assembled, Refusal, HeaderOf

LEMMA AnsweringHeader ==
    ASSUME NEW h \in DnsHeader
    PROVE  LET k == [h EXCEPT !.qr = TRUE, !.aa = TRUE, !.tc = FALSE, !.ra = FALSE] IN
           /\ k.id = h.id /\ k.opcode = h.opcode
           /\ \A rcode : Coded(k, rcode) = Replying(h, rcode)
<1> DEFINE yes == TRUE
           no == FALSE
           k == Answering(h, yes, no)
<1> HIDE DEF yes, no
<1>1. h = HeaderOf(h.id, h.qr, h.opcode, h.aa, h.tc, h.rd, h.ra, h.rcode)
  BY HeaderIsParts
<1>2. k = HeaderOf(h.id, yes, h.opcode, yes, no, h.rd, no, h.rcode)
  BY <1>1, HeaderAnswers
<1> HIDE DEF k
<1>3. k.id = h.id /\ k.opcode = h.opcode
  BY <1>2, HeaderParts
<1>4. ASSUME NEW rcode
      PROVE  Coded(k, rcode) = HeaderOf(h.id, yes, h.opcode, yes, no, h.rd, no, rcode)
  BY <1>2, HeaderAnswers
<1>5. ASSUME NEW rcode PROVE Coded(k, rcode) = Replying(h, rcode)
  BY <1>4, Zenon DEF Replying, yes, no
<1> QED
  BY <1>3, <1>5, Zenon DEF k, Answering, yes, no

\* A response without records, with its hint, and with its records.
Blank(k, rcode) == [Plain(k.id, 0) EXCEPT !.header = [k EXCEPT !.rcode = rcode]]
Strip(resp, yes) ==
    [resp EXCEPT !.answers = << >>, !.authority = << >>, !.additional = << >>,
                 !.header.tc = yes]
Filled(resp, qs, answers, authority) ==
    [resp EXCEPT !.questions = qs, !.answers = answers, !.authority = authority]

LEMMA BlankIs ==
    ASSUME NEW k, NEW rcode
    PROVE  Blank(k, rcode) = Assembled(Coded(k, rcode), << >>, << >>, << >>)
<1> DEFINE p == Plain(k.id, 0)
           f == Coded(k, rcode)
           g == Refusal(k.id, 0)
<1>1. p = Assembled(g, << >>, << >>, << >>)
  BY RefusalIs
<1>2. Blank(k, rcode) = [p EXCEPT !.header = f]
  BY Zenon DEF Blank, Coded
<1> HIDE DEF p, f, g
<1>3. [p EXCEPT !.header = f] = Assembled(f, << >>, << >>, << >>)
  BY <1>1 DEF Assembled
<1> QED
  BY <1>2, <1>3 DEF f

LEMMA StripIs ==
    ASSUME NEW h, NEW qs, NEW answers, NEW authority, NEW yes
    PROVE  Strip(Assembled(h, qs, answers, authority), yes) =
             Assembled(Hinted(h, yes), qs, << >>, << >>)
<1> DEFINE x == Assembled(h, qs, answers, authority)
           a == [x EXCEPT !.answers = << >>]
           b == [a EXCEPT !.authority = << >>]
           c == [b EXCEPT !.additional = << >>]
           d == [c EXCEPT !.header.tc = yes]
<1>1. a = Assembled(h, qs, << >>, authority)
  BY DEF Assembled
<1> HIDE DEF a
<1>2. b = Assembled(h, qs, << >>, << >>)
  BY <1>1 DEF Assembled
<1> HIDE DEF b
<1>3. c = Assembled(h, qs, << >>, << >>)
  BY <1>2 DEF Assembled
<1> HIDE DEF c
<1>4. d = Assembled([h EXCEPT !.tc = yes], qs, << >>, << >>)
  BY <1>3 DEF Assembled
<1> HIDE DEF d, x
<1>5. Strip(x, yes) = d
  BY Zenon DEF Strip, a, b, c, d
<1> QED
  BY <1>4, <1>5, Zenon DEF x, Hinted

LEMMA FilledIs ==
    ASSUME NEW h, NEW qs, NEW answers, NEW authority
    PROVE  Filled(Assembled(h, << >>, << >>, << >>), qs, answers, authority) =
             Assembled(h, qs, answers, authority)
<1> DEFINE x == Assembled(h, << >>, << >>, << >>)
           a == [x EXCEPT !.questions = qs]
           b == [a EXCEPT !.answers = answers]
           c == [b EXCEPT !.authority = authority]
<1>1. a = Assembled(h, qs, << >>, << >>)
  BY DEF Assembled
<1> HIDE DEF a
<1>2. b = Assembled(h, qs, answers, << >>)
  BY <1>1 DEF Assembled
<1> HIDE DEF b
<1>3. c = Assembled(h, qs, answers, authority)
  BY <1>2 DEF Assembled
<1> HIDE DEF c, x
<1>4. Filled(x, qs, answers, authority) = c
  BY Zenon DEF Filled, a, b, c
<1> QED
  BY <1>3, <1>4, Zenon DEF x

\* What is answered: an opcode that is not known, no single question, or
\* the question.
LEMMA ResponseIs ==
    ASSUME NEW m \in DnsMessage
    PROVE  \/ /\ m.header.opcode # 0
              /\ Response(m) = Assembled(Replying(m.header, NotImp), << >>, << >>, << >>)
           \/ /\ m.header.opcode = 0 /\ Len(m.questions) # 1
              /\ Response(m) = Assembled(Replying(m.header, FormErr), << >>, << >>, << >>)
           \/ /\ m.header.opcode = 0 /\ Len(m.questions) = 1
              /\ Response(m) =
                   LET res == Resolve(m.questions[1]) IN
                   Assembled(Replying(m.header, res.rcode), m.questions,
                           res.answers, res.authority)
<1> DEFINE h == m.header
           k == [h EXCEPT !.qr = TRUE, !.aa = TRUE, !.tc = FALSE, !.ra = FALSE]
           res == Resolve(m.questions[1])
<1>1. h \in DnsHeader
  BY DEF DnsMessage
<1>2. k.opcode = h.opcode /\ \A rcode : Coded(k, rcode) = Replying(h, rcode)
  BY <1>1, AnsweringHeader, Zenon
<1>3. Response(m) =
        IF k.opcode # 0 THEN Blank(k, NotImp)
        ELSE IF Len(m.questions) # 1 THEN Blank(k, FormErr)
        ELSE Filled(Blank(k, res.rcode), m.questions, res.answers, res.authority)
  BY Zenon DEF Response, Blank, Filled
<1> HIDE DEF k
<1>4. ASSUME NEW rcode
      PROVE  Blank(k, rcode) = Assembled(Replying(h, rcode), << >>, << >>, << >>)
  BY <1>2, BlankIs
<1> HIDE DEF h, res
<1>5. CASE h.opcode # 0
  BY <1>2, <1>3, <1>4, <1>5 DEF h
<1>6. CASE h.opcode = 0 /\ Len(m.questions) # 1
  BY <1>2, <1>3, <1>4, <1>6 DEF h
<1>7. CASE h.opcode = 0 /\ Len(m.questions) = 1
  <2>1. Response(m) = Filled(Blank(k, res.rcode), m.questions, res.answers, res.authority)
    BY <1>2, <1>3, <1>7
  <2>2. Response(m) = Assembled(Replying(h, res.rcode), m.questions,
                                res.answers, res.authority)
    BY <1>4, <2>1, FilledIs
  <2> QED
    BY <1>7, <2>2 DEF h, res
<1> QED
  BY <1>5, <1>6, <1>7

LEMMA TruncatedIs ==
    ASSUME NEW h, NEW rcode, NEW qs, NEW answers, NEW authority
    PROVE  Truncated(Assembled(Replying(h, rcode), qs, answers, authority)) =
             Assembled(Hinting(h, rcode), qs, << >>, << >>)
<1> DEFINE k == Replying(h, rcode)
           yes == TRUE
           no == FALSE
<1>1. k = HeaderOf(h.id, yes, h.opcode, yes, no, h.rd, no, rcode)
  BY Zenon DEF Replying
<1> HIDE DEF k, yes, no
<1>2. Hinted(k, yes) = HeaderOf(h.id, yes, h.opcode, yes, yes, h.rd, no, rcode)
  BY <1>1, HeaderAnswers
<1>3. Hinted(k, yes) = Hinting(h, rcode)
  BY <1>2, Zenon DEF Hinting, yes, no
<1>4. Strip(Assembled(k, qs, answers, authority), yes) = Assembled(Hinted(k, yes), qs, << >>, << >>)
  BY StripIs
<1>5. Truncated(Assembled(k, qs, answers, authority)) =
        Strip(Assembled(k, qs, answers, authority), yes)
  BY Zenon DEF Truncated, Strip, yes
<1> QED
  BY <1>3, <1>4, <1>5, Zenon DEF k

(***************************************************************************)
(* How long what Encode makes is.                                          *)
(***************************************************************************)
LEMMA NoQuestions == ASSUME NEW b PROVE PutQuestions(b, << >>) = b
<1> DEFINE e == << >>
           z == Len(e)
<1>1. e \in Seq(DnsQuestion) /\ z = 0 /\ z \in Nat /\ z \in 0..z
  BY EmptySeq
<1> HIDE DEF e, z
<1>2. PICK f : PutQuestionRun(f, b, e, z) /\ PutQuestions(b, e) = f[z]
  BY <1>1, PutQuestionRunIs DEF z
<1>3. f[z] = b
  BY <1>1, <1>2, PutQuestionRunAt
<1> QED
  BY <1>2, <1>3 DEF e

LEMMA OneQuestion ==
    ASSUME NEW b, NEW qs \in Seq(DnsQuestion), Len(qs) = 1
    PROVE  PutQuestions(b, qs) = EncodeQuestion(b, qs[1])
<1> DEFINE n == Len(qs)
           y == 0
           z == 1
<1>1. n \in Nat /\ y \in 0..n /\ z \in 0..n /\ z - 1 = y /\ y = 0 /\ z # 0 /\ n = z
  OBVIOUS
<1> HIDE DEF n, y, z
<1>2. PICK f : PutQuestionRun(f, b, qs, n) /\ PutQuestions(b, qs) = f[n]
  BY PutQuestionRunIs DEF n
<1>3. f[y] = b
  BY <1>1, <1>2, PutQuestionRunAt
<1>4. f[z] = EncodeQuestion(f[z - 1], qs[z])
  BY <1>1, <1>2, PutQuestionRunAt
<1> QED
  BY <1>1, <1>2, <1>3, <1>4 DEF z

LEMMA NoRecords == ASSUME NEW b PROVE PutRecords(b, << >>) = b
<1> DEFINE e == << >>
           z == Len(e)
<1>1. e \in Seq(DnsRecord) /\ z = 0 /\ z \in Nat /\ z \in 0..z
  BY EmptySeq
<1> HIDE DEF e, z
<1>2. PICK f : PutRecordRun(f, b, e, z) /\ PutRecords(b, e) = f[z]
  BY <1>1, PutRecordRunIs DEF z
<1>3. f[z] = b
  BY <1>1, <1>2, PutRecordRunAt
<1> QED
  BY <1>2, <1>3 DEF e

\* With nothing to point at, a name is spelled to its end.
LEMMA FirstName ==
    ASSUME NEW b, IsBuilder(b), b.err = "nil", b.buf \in Octets, b.offsets = << >>,
           NEW name \in Octets, PutName(b, name).err = "nil"
    PROVE  /\ IsBuilder(PutName(b, name)) /\ PutName(b, name).buf \in Octets
           /\ Len(PutName(b, name).buf) <= Len(b.buf) + MaxNameWire
<1> DEFINE labels == SplitLabels(name)
           r == PutName(b, name)
           w == WireLabels(labels)
           e == << 0 >>
           o == Beside(NewOffsets(b, labels), b.offsets)
<1>1. r = PutLabels(b, labels) /\ labels \in Seq(Octets)
  BY SplitLabelsIs DEF PutName
<1> HIDE DEF labels, r
<1>2. /\ Encodable(labels)
      /\ r = Build((b.buf \o WireLabels(NewLabels(b, labels))) \o Ending(b, labels), o, "nil")
  <2>1. PutLabels(b, labels).err = "nil"
    BY <1>1 DEF r
  <2> QED
    BY <1>1, <2>1, PutLabelsIs
<1> HIDE DEF o
<1>3. labels \in Seq(Label)
  BY <1>1, <1>2, EncodableLabels
<1>4. w \in Octets /\ Len(w) \in Nat /\ Len(w) + 1 <= MaxNameWire
  BY <1>2, <1>3, WireOctets, OctetsLen DEF Encodable
<1>5. /\ StopAt(b, labels) \in Nat /\ Len(labels) \in Nat
      /\ StopAt(b, labels) > Len(labels) /\ StopAt(b, labels) - 1 = Len(labels)
  <2>1. /\ StopAt(b, labels) \in 1..(Len(labels) + 1)
        /\ StopAt(b, labels) \in Nat /\ Len(labels) \in Nat
        /\ StopAt(b, labels) <= Len(labels) =>
             Suffix(labels, StopAt(b, labels)) \in DOMAIN b.offsets
    BY <1>3, StopIs
  <2>2. DOMAIN b.offsets = {}
    OBVIOUS
  <2> QED
    BY <2>1, <2>2
<1>6. NewLabels(b, labels) = labels
  BY <1>3, <1>5, SubSeqFull DEF NewLabels
<1>7. Ending(b, labels) = e
  BY <1>5 DEF Ending
<1>8. e \in Octets /\ Len(e) = 1
  BY DEF Octets, Byte
<1> HIDE DEF e, w
<1>9. r = Build((b.buf \o w) \o e, o, "nil")
  BY <1>2, <1>6, <1>7 DEF w
<1>10. Joined(b.buf, w, b.buf \o w) /\ b.buf \o w \in Octets
  BY <1>4, JoinedOctets, JoinOctets
<1>11. Joined(b.buf \o w, e, (b.buf \o w) \o e) /\ (b.buf \o w) \o e \in Octets
  BY <1>8, <1>10, JoinedOctets, JoinOctets
<1>12. Len((b.buf \o w) \o e) <= Len(b.buf) + MaxNameWire
  <2> DEFINE u == b.buf \o w
             z == u \o e
  <2>1. Len(u) = Len(b.buf) + Len(w) /\ Len(z) = Len(u) + Len(e)
    BY <1>10, <1>11 DEF Joined
  <2>2. Len(b.buf) \in Nat /\ Len(w) \in Nat /\ Len(w) + 1 <= MaxNameWire /\ MaxNameWire \in Nat
    BY <1>4, WireAssumption, OctetsLen
  <2> HIDE DEF u, z
  <2> QED
    BY <1>8, <2>1, <2>2 DEF u, z
<1>13. IsBuilder(r) /\ r.buf = (b.buf \o w) \o e
  <2> DEFINE u == (b.buf \o w) \o e
  <2>1. r = Build(u, o, "nil")
    BY <1>9
  <2> HIDE DEF u
  <2>2. IsBuilder(r) /\ r.buf = u
    BY <2>1, BuildIs
  <2> QED
    BY <2>2 DEF u
<1> QED
  BY <1>11, <1>12, <1>13 DEF r

\* The builder once the header is there.
LEMMA HeaderBuilder ==
    ASSUME NEW m \in DnsMessage, ~ TooMany(Counts(m))
    PROVE  /\ IsBuilder(Started(m)) /\ Started(m).err = "nil" /\ Started(m).offsets = << >>
           /\ Started(m).buf = HeaderOctets(m)
<1> DEFINE b == NewBuilder
           h == HeaderOctets(m)
<1>1. IsBuilder(b) /\ b.err = "nil" /\ b.offsets = << >> /\ b.buf = << >>
  BY DEF NewBuilder, IsBuilder
<1>2. h \in Octets
  BY HeaderIs
<1> HIDE DEF b, h
<1>3. PutBytes(b, h) = Build(b.buf \o h, b.offsets, "nil")
  BY <1>1, PutBytesIs
<1>4. b.buf \o h = h
  BY <1>1, <1>2, ConcatEmptySeq DEF Octets
<1>5. PutBytes(b, h) = Build(h, b.offsets, "nil")
  BY <1>3, <1>4
<1> QED
  BY <1>1, <1>5, BuildIs DEF Started, b, h

LEMMA NoSections ==
    ASSUME NEW h, NEW qs, Len(qs) \in Nat, ~ TooLong(Len(qs))
    PROVE  LET m == Assembled(h, qs, << >>, << >>) IN
           /\ Sections(m) = << >> /\ ~ TooMany(Counts(m)) /\ m.questions = qs /\ m.header = h
<1> DEFINE m == Assembled(h, qs, << >>, << >>)
           e == << >>
<1>1. /\ m.questions = qs /\ m.header = h
      /\ m.answers = e /\ m.authority = e /\ m.additional = e
  BY DEF Assembled
<1> HIDE DEF m
<1>2. Sections(m) = << >>
  BY <1>1, EmptyOctets DEF Sections
<1>3. Len(e) = 0 /\ ~ TooLong(Len(e))
  BY DEF TooLong
<1> HIDE DEF e
<1>4. ~ TooMany(Counts(m))
  <2>1. /\ Counts(m)[1] = Len(qs) /\ Counts(m)[2] = Len(e) /\ Counts(m)[3] = Len(e)
        /\ Counts(m)[4] = Len(e)
    BY <1>1 DEF Counts
  <2> QED
    BY <1>3, <2>1 DEF TooMany
<1> QED
  BY <1>1, <1>2, <1>4 DEF m

\* A message of a header is twelve octets, and always encodes.
LEMMA BareEncodes ==
    ASSUME NEW h \in DnsHeader
    PROVE  LET m == Assembled(h, << >>, << >>, << >>) IN
           Encode(m).err = "nil" /\ Encode(m).buf \in Octets /\ Len(Encode(m).buf) = 12
<1> DEFINE e == << >>
           m == Assembled(h, e, e, e)
<1>1. e \in Seq(DnsQuestion) /\ e \in Seq(DnsRecord) /\ Len(e) \in Nat /\ ~ TooLong(Len(e))
  BY EmptySeq DEF TooLong
<1>2. m \in DnsMessage
  BY <1>1, MessageTyped
<1>3. Sections(m) = e /\ ~ TooMany(Counts(m)) /\ m.questions = e
  BY <1>1, NoSections
<1> HIDE DEF m
<1>4. Encode(m) = Finished(m)
  BY <1>3, EncodeIs DEF Either
<1>5. Finished(m) = Started(m)
  BY <1>3, NoQuestions, NoRecords DEF Finished
<1>6. Started(m).err = "nil" /\ Started(m).buf = HeaderOctets(m)
  BY <1>2, <1>3, HeaderBuilder
<1>7. HeaderOctets(m) \in Octets /\ Len(HeaderOctets(m)) = 12
  BY <1>2, <1>3, HeaderIs
<1> QED
  BY <1>4, <1>5, <1>6, <1>7 DEF m

\* A message of a header and a question is short.
LEMMA ShortEncodes ==
    ASSUME NEW h \in DnsHeader, NEW qs \in Seq(DnsQuestion), Len(qs) = 1,
           Encode(Assembled(h, qs, << >>, << >>)).err = "nil"
    PROVE  /\ Encode(Assembled(h, qs, << >>, << >>)).buf \in Octets
           /\ Len(Encode(Assembled(h, qs, << >>, << >>)).buf) <= 16 + MaxNameWire
<1> DEFINE e == << >>
           m == Assembled(h, qs, e, e)
           q == qs[1]
           b == Started(m)
           c == PutName(b, q.name)
           r == EncodeQuestion(b, q)
<1>1. e \in Seq(DnsRecord) /\ Len(qs) \in Nat /\ ~ TooLong(Len(qs)) /\ q \in DnsQuestion
  BY EmptySeq DEF TooLong
<1>2. m \in DnsMessage
  BY <1>1, MessageTyped
<1>3. Sections(m) = e /\ ~ TooMany(Counts(m)) /\ m.questions = qs
  BY <1>1, NoSections
<1>4. Encode(m).err = "nil"
  OBVIOUS
<1> HIDE DEF m, q
<1>5. Encode(m) = Finished(m)
  BY <1>3, EncodeIs DEF Either
<1>6. Finished(m) = r
  BY <1>3, NoRecords, OneQuestion DEF Finished, q
<1>7. /\ IsBuilder(b) /\ b.err = "nil" /\ b.offsets = << >> /\ b.buf = HeaderOctets(m)
      /\ b.buf \in Octets /\ Len(b.buf) = 12
  BY <1>2, <1>3, HeaderBuilder, HeaderIs
<1> HIDE DEF b
<1>8. q.name \in Octets /\ QuestionTail(q) \in Octets /\ Len(QuestionTail(q)) = 4
  BY <1>1, QuestionTailOctets
<1>9. r = PutBytes(c, QuestionTail(q))
  BY DEF EncodeQuestion, QuestionTail
<1> HIDE DEF r
<1>10. c.err = "nil"
  BY <1>4, <1>5, <1>6, <1>9 DEF PutBytes
<1>11. IsBuilder(c) /\ c.buf \in Octets /\ Len(c.buf) <= 12 + MaxNameWire
  BY <1>7, <1>8, <1>10, FirstName
<1> HIDE DEF c
<1> DEFINE t == QuestionTail(q)
           u == c.buf \o t
<1>12. r = Build(u, c.offsets, "nil")
  BY <1>9, <1>10, <1>11, PutBytesIs
<1> HIDE DEF t
<1>13. Joined(c.buf, t, u) /\ u \in Octets
  BY <1>8, <1>11, JoinedOctets, JoinOctets DEF t
<1>14. Len(u) <= 16 + MaxNameWire
  BY <1>8, <1>11, <1>13, WireAssumption DEF Joined, t
<1> HIDE DEF u
<1>15. r.buf = u
  BY <1>12, BuildIs
<1> QED
  BY <1>5, <1>6, <1>13, <1>14, <1>15 DEF m

(***************************************************************************)
(* What HandleQuery makes of octets.                                       *)
(***************************************************************************)
Echo(s) == s \in Octets /\ Len(s) >= 12 /\ \A limit : HandleQuery(s, limit) = Nil

Single(req, limit, resp) ==
    IF limit > 0 /\ Len(MustEncode(resp)) > limit THEN MustEncode(Truncated(resp))
    ELSE MustEncode(resp)

LEMMA HandleQueryIs ==
    ASSUME NEW req, NEW limit
    PROVE  HandleQuery(req, limit) =
             IF Len(req) < 12 THEN Nil
             ELSE IF Decode(req).err # "nil" THEN MustEncode(Plain(Word(req), FormErr))
             ELSE IF Decode(req).msg.header.qr THEN Nil
             ELSE Single(req, limit, Response(Decode(req).msg))
BY Zenon DEF HandleQuery, Single

LEMMA QrBoolean ==
    ASSUME NEW m \in DnsMessage PROVE m.header \in DnsHeader /\ m.header.qr \in BOOLEAN
BY DEF DnsMessage, DnsHeader

\* A response is not answered.
LEMMA ResponseEchoes ==
    ASSUME NEW m \in DnsMessage, m.header.qr = TRUE, Shallow(m), Encode(m).err = "nil"
    PROVE  Echo(Encode(m).buf)
<1> DEFINE b == Encode(m).buf
           d == Decode(b)
<1>1. b \in Octets /\ 12 <= Len(b) /\ Len(b) \in Nat
  BY EncodeLaid, OctetsLen
<1>2. d = [err |-> "nil", msg |-> Lowered(m)]
  BY EncodeDecoded
<1>3. Lowered(m).header = m.header
  BY DEF Lowered
<1> HIDE DEF b
<1>4. d.err = "nil" /\ d.msg = Lowered(m)
  <2> HIDE DEF d
  <2> QED
    BY <1>2
<1>5. ASSUME NEW limit PROVE HandleQuery(b, limit) = Nil
  <2>1. d.msg.header.qr
    BY <1>3, <1>4, Zenon
  <2>2. ~ (Len(b) < 12)
    BY <1>1
  <2> QED
    BY <1>4, <2>1, <2>2, HandleQueryIs, Zenon
<1>6. Len(b) >= 12
  BY <1>1
<1> QED
  BY <1>1, <1>5, <1>6, Zenon DEF Echo, b

LEMMA MustEncodeIs ==
    ASSUME NEW m
    PROVE  MustEncode(m) = IF Encode(m).err = "nil" THEN Encode(m).buf
                           ELSE Encode(Plain(m.header.id, ServFail)).buf
BY Zenon DEF MustEncode

\* A message without names, or with one.
LEMMA BareShallow ==
    ASSUME NEW h PROVE Shallow(Assembled(h, << >>, << >>, << >>))
<1> DEFINE e == << >>
           m == Assembled(h, e, e, e)
<1>1. Len(e) = 0 /\ ~ TooLong(Len(e)) /\ Len(e) \in Nat
  BY DEF TooLong
<1> HIDE DEF e
<1>2. Sections(m) = << >> /\ m.questions = e
  BY <1>1, NoSections DEF e
<1> HIDE DEF m
<1>3. MessageNames(m) = {}
  <2>1. Len(m.questions) = 0 /\ Len(Sections(m)) = 0
    BY <1>1, <1>2
  <2> QED
    BY <2>1 DEF MessageNames
<1>4. Spellings(m) = {}
  BY <1>3 DEF Spellings
<1>5. Shallow(m)
  BY <1>4, FS_EmptySet, TrafficAssumption, WireAssumption DEF Shallow
<1> QED
  BY <1>5 DEF m, e

LEMMA SingleShallow ==
    ASSUME NEW h, NEW qs \in Seq(DnsQuestion), Len(qs) = 1
    PROVE  Shallow(Assembled(h, qs, << >>, << >>))
<1> DEFINE m == Assembled(h, qs, << >>, << >>)
           x == SplitLabels(qs[1].name)
<1>1. Len(qs) \in Nat /\ ~ TooLong(Len(qs))
  BY DEF TooLong
<1>2. Sections(m) = << >> /\ m.questions = qs
  BY <1>1, NoSections
<1> HIDE DEF m
<1>3. MessageNames(m) = {qs[1].name}
  <2>1. Len(m.questions) = 1 /\ Len(Sections(m)) = 0
    BY <1>2
  <2>2. 1..Len(m.questions) = {1} /\ 1..Len(Sections(m)) = {}
    BY <2>1
  <2>3. UNION {RecordNames(Sections(m)[i]) : i \in 1..Len(Sections(m))} = {}
    BY <2>2
  <2>4. {m.questions[i].name : i \in 1..Len(m.questions)} = {m.questions[1].name}
    BY <2>2
  <2> QED
    BY <1>2, <2>3, <2>4 DEF MessageNames
<1> HIDE DEF x
<1>4. Spellings(m) \subseteq {x}
  BY <1>3 DEF Spellings, x
<1>5. IsFiniteSet({x}) /\ Cardinality({x}) = 1
  BY FS_Singleton
<1>6. Cardinality(Spellings(m)) <= 1 /\ Cardinality(Spellings(m)) \in Nat
  BY <1>4, <1>5, FS_Subset, FS_CardinalityType
<1>7. Shallow(m)
  BY <1>6, TrafficAssumption, WireAssumption DEF Shallow
<1> QED
  BY <1>7 DEF m

LEMMA QrSet ==
    /\ \A id, rcode : Refusal(id, rcode).qr = TRUE
    /\ \A h, rcode : Replying(h, rcode).qr = TRUE /\ Hinting(h, rcode).qr = TRUE
<1> DEFINE yes == TRUE
           no == FALSE
<1>1. \A id, rcode : Refusal(id, rcode) = HeaderOf(id, yes, 0, no, no, no, no, rcode)
  BY Zenon DEF Refusal
<1>2. \A h, rcode :
        /\ Replying(h, rcode) = HeaderOf(h.id, yes, h.opcode, yes, no, h.rd, no, rcode)
        /\ Hinting(h, rcode) = HeaderOf(h.id, yes, h.opcode, yes, yes, h.rd, no, rcode)
  BY Zenon DEF Replying, Hinting
<1> HIDE DEF yes, no
<1>3. /\ \A id, rcode : Refusal(id, rcode).qr = yes
      /\ \A h, rcode : Replying(h, rcode).qr = yes /\ Hinting(h, rcode).qr = yes
  BY <1>1, <1>2, HeaderParts
<1> QED
  BY <1>3, Zenon DEF yes

LEMMA RefusalReply ==
    ASSUME NEW id \in Word16, NEW rcode \in 0..15
    PROVE  /\ Echo(MustEncode(Plain(id, rcode))) /\ Len(MustEncode(Plain(id, rcode))) = 12
           /\ Echo(Encode(Plain(id, rcode)).buf) /\ Len(Encode(Plain(id, rcode)).buf) = 12
<1> DEFINE h == Refusal(id, rcode)
           m == Assembled(h, << >>, << >>, << >>)
<1>1. Plain(id, rcode) = m
  BY RefusalIs
<1>2. h \in DnsHeader
  BY HeadersTyped
<1>3. h.qr = TRUE
  BY QrSet
<1> HIDE DEF h
<1>4. m \in DnsMessage
  BY <1>2, MessageTyped, EmptySeq
<1>5. Encode(m).err = "nil" /\ Len(Encode(m).buf) = 12
  BY <1>2, BareEncodes
<1>6. Shallow(m)
  BY BareShallow
<1>7. m.header = h
  BY DEF Assembled
<1> HIDE DEF m
<1>8. Echo(Encode(m).buf)
  BY <1>3, <1>4, <1>5, <1>6, <1>7, ResponseEchoes
<1>9. MustEncode(m) = Encode(m).buf
  BY <1>5, MustEncodeIs
<1> QED
  BY <1>1, <1>5, <1>8, <1>9

\* MustEncode makes a response of a response.
LEMMA MustEncodeReply ==
    ASSUME NEW m \in DnsMessage, m.header.qr = TRUE, Shallow(m)
    PROVE  Echo(MustEncode(m))
<1>1. CASE Encode(m).err = "nil"
  BY <1>1, MustEncodeIs, ResponseEchoes
<1>2. CASE Encode(m).err # "nil"
  <2>1. m.header.id \in Word16 /\ ServFail \in 0..15
    BY QrBoolean DEF DnsHeader, ServFail
  <2> QED
    BY <1>2, <2>1, MustEncodeIs, RefusalReply
<1> QED
  BY <1>1, <1>2

LEMMA MustEncodeShort ==
    ASSUME NEW h \in DnsHeader, NEW qs \in Seq(DnsQuestion), Len(qs) \in {0, 1}
    PROVE  Len(MustEncode(Assembled(h, qs, << >>, << >>))) <= 16 + MaxNameWire
<1> DEFINE m == Assembled(h, qs, << >>, << >>)
<1>1. m.header = h
  BY DEF Assembled
<1>2. CASE Encode(m).err # "nil"
  <2>1. h.id \in Word16 /\ ServFail \in 0..15
    BY DEF DnsHeader, ServFail
  <2> HIDE DEF m
  <2>2. Len(MustEncode(m)) = 12
    BY <1>1, <1>2, <2>1, MustEncodeIs, RefusalReply
  <2>3. Len(MustEncode(m)) <= 16 + MaxNameWire
    BY <2>2, WireAssumption
  <2> QED
    BY <2>3 DEF m
<1>3. CASE Encode(m).err = "nil" /\ Len(qs) = 1
  <2>1. Len(Encode(m).buf) <= 16 + MaxNameWire
    BY <1>3, ShortEncodes
  <2> HIDE DEF m
  <2>2. MustEncode(m) = Encode(m).buf
    BY <1>3, MustEncodeIs
  <2> QED
    BY <2>1, <2>2 DEF m
<1>4. CASE Encode(m).err = "nil" /\ Len(qs) = 0
  <2>1. qs = << >>
    BY <1>4, EmptySeq
  <2>2. Len(Encode(m).buf) = 12
    BY <2>1, BareEncodes
  <2> HIDE DEF m
  <2>3. MustEncode(m) = Encode(m).buf
    BY <1>4, MustEncodeIs
  <2>4. Len(MustEncode(m)) = 12
    BY <2>2, <2>3
  <2>5. Len(MustEncode(m)) <= 16 + MaxNameWire
    BY <2>4, WireAssumption
  <2> QED
    BY <2>5 DEF m
<1> QED
  BY <1>2, <1>3, <1>4

(***************************************************************************)
(* The response, and its answer cut off, under what a resolver owes.       *)
(***************************************************************************)
ResolverFits == \A q \in DnsQuestion : AnswerFits(q)

LEMMA OneAre ==
    ASSUME NEW S, NEW qs \in Seq(S), Len(qs) = 1 PROVE qs[1] \in S /\ qs = << qs[1] >>
<1>1. qs[1] \in S
  OBVIOUS
<1> DEFINE x == qs[1]
<1> HIDE DEF x
<1>2. << x >> \in Seq(S) /\ Len(<< x >>) = 1 /\ << x >>[1] = x
  BY <1>1 DEF x
<1>3. ASSUME NEW i \in 1..Len(qs) PROVE qs[i] = << x >>[i]
  BY <1>2, <1>3 DEF x
<1>4. qs = << x >>
  BY <1>2, <1>3, SeqEqual
<1> QED
  BY <1>1, <1>4 DEF x

\* Whether a message is shallow does not depend on its header.
LEMMA ShallowAny ==
    ASSUME NEW h, NEW g, NEW qs, NEW answers, NEW authority,
           Shallow(Assembled(g, qs, answers, authority))
    PROVE  Shallow(Assembled(h, qs, answers, authority))
<1> DEFINE m == Assembled(h, qs, answers, authority)
           n == Assembled(g, qs, answers, authority)
<1>1. /\ m.questions = n.questions /\ m.answers = n.answers
      /\ m.authority = n.authority /\ m.additional = n.additional
  BY DEF Assembled
<1> HIDE DEF m, n
<1>2. Sections(m) = Sections(n)
  BY <1>1 DEF Sections
<1>3. Spellings(m) = Spellings(n)
  BY <1>1, <1>2 DEF Spellings, MessageNames
<1>4. Shallow(m) <=> Shallow(n)
  BY <1>3 DEF Shallow
<1> QED
  BY <1>4 DEF m, n

LEMMA AnswerFitsIs ==
    ASSUME NEW q, AnswerFits(q)
    PROVE  /\ Resolve(q).rcode \in 0..15
           /\ Resolve(q).answers \in Seq(DnsRecord) /\ Resolve(q).authority \in Seq(DnsRecord)
           /\ \A h : Shallow(Assembled(h, << q >>, Resolve(q).answers, Resolve(q).authority))
<1> DEFINE g == Refusal(0, 0)
           n == Resolve(q).answers
           a == Resolve(q).authority
           qs == << q >>
<1>1. /\ Resolve(q).rcode \in 0..15 /\ n \in Seq(DnsRecord) /\ a \in Seq(DnsRecord)
      /\ Shallow([Plain(0, 0) EXCEPT !.questions = qs, !.answers = n, !.authority = a])
  BY DEF AnswerFits
<1>2. [Plain(0, 0) EXCEPT !.questions = qs, !.answers = n, !.authority = a] =
        Filled(Plain(0, 0), qs, n, a)
  BY Zenon DEF Filled
<1>3. Plain(0, 0) = Assembled(g, << >>, << >>, << >>)
  BY RefusalIs
<1> HIDE DEF g, n, a, qs
<1>4. Filled(Plain(0, 0), qs, n, a) = Assembled(g, qs, n, a)
  BY <1>3, FilledIs
<1>5. \A h : Shallow(Assembled(h, qs, n, a))
  BY <1>1, <1>2, <1>4, ShallowAny
<1> QED
  BY <1>1, <1>5 DEF n, a, qs

\* A message that a server can make.
IsReply(m) == m \in DnsMessage /\ m.header.qr = TRUE /\ Shallow(m)

LEMMA AssembledReply ==
    ASSUME NEW h \in DnsHeader, h.qr = TRUE, NEW qs \in Seq(DnsQuestion),
           NEW answers \in Seq(DnsRecord), NEW authority \in Seq(DnsRecord),
           Shallow(Assembled(h, qs, answers, authority))
    PROVE  IsReply(Assembled(h, qs, answers, authority))
<1> DEFINE m == Assembled(h, qs, answers, authority)
<1>1. m \in DnsMessage /\ m.header = h
  BY MessageTyped DEF Assembled
<1> HIDE DEF m
<1>2. Shallow(m)
  BY DEF m
<1>3. IsReply(m)
  BY <1>1, <1>2 DEF IsReply
<1> QED
  BY <1>3 DEF m

LEMMA ResponseReply ==
    ASSUME ResolverFits, NEW m \in DnsMessage
    PROVE  /\ IsReply(Response(m)) /\ IsReply(Truncated(Response(m)))
           /\ Len(MustEncode(Truncated(Response(m)))) <= 16 + MaxNameWire
<1> DEFINE h == m.header
           e == << >>
<1>1. h \in DnsHeader /\ e \in Seq(DnsQuestion) /\ e \in Seq(DnsRecord) /\ Len(e) = 0
      /\ m.questions \in Seq(DnsQuestion)
  BY EmptySeq DEF DnsMessage
<1>2. NotImp \in 0..15 /\ FormErr \in 0..15
  BY DEF NotImp, FormErr
<1> HIDE DEF h, e
<1>3. ASSUME NEW rcode \in 0..15, NEW qs \in Seq(DnsQuestion), Len(qs) \in {0, 1},
             NEW answers \in Seq(DnsRecord), NEW authority \in Seq(DnsRecord),
             \A g : Shallow(Assembled(g, qs, answers, authority)),
             Response(m) = Assembled(Replying(h, rcode), qs, answers, authority)
      PROVE  /\ IsReply(Response(m)) /\ IsReply(Truncated(Response(m)))
             /\ Len(MustEncode(Truncated(Response(m)))) <= 16 + MaxNameWire
  <2> DEFINE f == Hinting(h, rcode)
             t == Assembled(f, qs, e, e)
  <2>1. Truncated(Response(m)) = t
    BY <1>3, TruncatedIs DEF e
  <2>5. /\ Replying(h, rcode) \in DnsHeader /\ Replying(h, rcode).qr = TRUE
        /\ f \in DnsHeader /\ f.qr = TRUE
    BY <1>1, <1>3, HeadersTyped, QrSet
  <2> HIDE DEF f
  <2>2. IsReply(Response(m))
    BY <1>3, <2>5, AssembledReply
  <2>3. Shallow(t)
    <3>1. CASE Len(qs) = 1
      BY <3>1, SingleShallow DEF e
    <3>2. CASE Len(qs) = 0
      <4>1. qs = e
        BY <3>2, EmptySeq DEF e
      <4> QED
        BY <4>1, BareShallow DEF e
    <3> QED
      BY <1>3, <3>1, <3>2
  <2>4. IsReply(t)
    BY <1>1, <2>5, <2>3, AssembledReply
  <2>6. Len(MustEncode(t)) <= 16 + MaxNameWire
    BY <1>3, <2>5, MustEncodeShort DEF e
  <2> HIDE DEF t
  <2> QED
    BY <2>1, <2>2, <2>4, <2>6
<1>4. ASSUME NEW rcode \in 0..15, Response(m) = Assembled(Replying(h, rcode), e, e, e)
      PROVE  /\ IsReply(Response(m)) /\ IsReply(Truncated(Response(m)))
             /\ Len(MustEncode(Truncated(Response(m)))) <= 16 + MaxNameWire
  <2>1. \A g : Shallow(Assembled(g, e, e, e))
    BY BareShallow DEF e
  <2> QED
    BY <1>1, <1>3, <1>4, <2>1
<1>5. CASE Len(m.questions) = 1 /\ Response(m) =
               LET res == Resolve(m.questions[1]) IN
               Assembled(Replying(h, res.rcode), m.questions, res.answers, res.authority)
  <2> DEFINE qs == m.questions
             q == qs[1]
             r == Resolve(q).rcode
             n == Resolve(q).answers
             a == Resolve(q).authority
  <2>1. q \in DnsQuestion /\ qs = << q >>
    BY <1>1, <1>5, OneAre
  <2>2. /\ r \in 0..15 /\ n \in Seq(DnsRecord) /\ a \in Seq(DnsRecord)
        /\ \A g : Shallow(Assembled(g, << q >>, n, a))
    BY <2>1, AnswerFitsIs DEF ResolverFits
  <2>3. Response(m) = Assembled(Replying(h, r), qs, n, a) /\ qs \in Seq(DnsQuestion)
        /\ Len(qs) \in {0, 1}
    BY <1>1, <1>5
  <2> HIDE DEF q, r, n, a, qs
  <2>4. \A g : Shallow(Assembled(g, qs, n, a))
    BY <2>1, <2>2
  <2> QED
    BY <1>3, <2>2, <2>3, <2>4
<1> QED
  BY <1>2, <1>4, <1>5, ResponseIs DEF h, e

LEMMA WordOfOctets ==
    ASSUME NEW s \in Octets, Len(s) >= 2 PROVE Word(s) \in Word16
<1> DEFINE x == s[1]
           y == s[2]
<1>1. 1 \in 1..Len(s) /\ 2 \in 1..Len(s)
  BY OctetsLen
<1>2. x \in Byte /\ y \in Byte
  BY <1>1, ElementOfSeq DEF Octets
<1>3. Word(s) = x * 256 + y
  BY DEF Word
<1> HIDE DEF x, y
<1> QED
  BY <1>2, <1>3, TwoOctets

\* Whatever arrives, the reply is not answered, and over UDP it fits.
LEMMA ReplyGood ==
    ASSUME ResolverFits, NEW req \in Octets, NEW limit \in Nat,
           HandleQuery(req, limit) # Nil
    PROVE  /\ Echo(HandleQuery(req, limit))
           /\ limit = UDPLimit => Len(HandleQuery(req, limit)) <= UDPLimit
<1> DEFINE r == HandleQuery(req, limit)
           d == Decode(req)
           resp == Response(d.msg)
<1>1. ~ (Len(req) < 12) /\ Len(req) \in Nat
  BY HandleQueryIs, OctetsLen, Zenon
<1>2. CASE d.err # "nil"
  <2>1. r = MustEncode(Plain(Word(req), FormErr))
    BY <1>1, <1>2, HandleQueryIs, Zenon
  <2>2. Word(req) \in Word16 /\ FormErr \in 0..15
    <3>1. Len(req) >= 2
      BY <1>1
    <3> QED
      BY <3>1, WordOfOctets DEF FormErr
  <2> HIDE DEF r
  <2>3. Echo(r) /\ Len(r) = 12
    BY <2>1, <2>2, RefusalReply
  <2>4. Len(r) <= UDPLimit
    BY <2>3, TrafficAssumption, WireAssumption
  <2> QED
    BY <2>3, <2>4 DEF r
<1>3. CASE d.err = "nil"
  <2>1. d.msg \in DnsMessage
    BY <1>3, DecodeTyped
  <2>2. r = Single(req, limit, resp)
    BY <1>1, <1>3, HandleQueryIs, Zenon
  <2>3. /\ IsReply(resp) /\ IsReply(Truncated(resp))
        /\ Len(MustEncode(Truncated(resp))) <= 16 + MaxNameWire
    BY <2>1, ResponseReply
  <2> HIDE DEF r, resp
  <2>4. Echo(MustEncode(resp)) /\ Echo(MustEncode(Truncated(resp)))
    BY <2>3, MustEncodeReply DEF IsReply
  <2>5. CASE limit > 0 /\ Len(MustEncode(resp)) > limit
    <3>1. r = MustEncode(Truncated(resp))
      BY <2>2, <2>5 DEF Single
    <3>2. Len(r) \in Nat
      BY <2>4, <3>1, OctetsLen DEF Echo
    <3>3. Len(r) <= UDPLimit
      BY <2>3, <3>1, <3>2, TrafficAssumption, WireAssumption
    <3> QED
      BY <2>4, <3>1, <3>3 DEF r
  <2>6. CASE ~ (limit > 0 /\ Len(MustEncode(resp)) > limit)
    <3>1. r = MustEncode(resp)
      BY <2>2, <2>6 DEF Single
    <3>2. Len(r) \in Nat
      BY <2>4, <3>1, OctetsLen DEF Echo
    <3>3. limit = UDPLimit => Len(r) <= UDPLimit
      BY <2>6, <3>1, <3>2, TrafficAssumption, WireAssumption
    <3> QED
      BY <2>4, <3>1, <3>3 DEF r
  <2> QED
    BY <2>5, <2>6
<1> QED
  BY <1>2, <1>3

(***************************************************************************)
(* What a query client asks.                                               *)
(***************************************************************************)
Asking(id) == HeaderOf(id, FALSE, 0, FALSE, FALSE, TRUE, FALSE, 0)

QuestionOf(a) == [name |-> CanonicalName(a.name), type |-> a.type, class |-> 1]

Ask(p, no, yes, qs) == [p EXCEPT !.header.qr = no, !.header.rd = yes, !.questions = qs]

LEMMA AskIs ==
    ASSUME NEW id, NEW qr, NEW opcode, NEW aa, NEW tc, NEW rd, NEW ra, NEW rcode,
           NEW no, NEW yes, NEW qs
    PROVE  Ask(Assembled(HeaderOf(id, qr, opcode, aa, tc, rd, ra, rcode), << >>, << >>, << >>),
               no, yes, qs) =
             Assembled(HeaderOf(id, no, opcode, aa, tc, yes, ra, rcode), qs, << >>, << >>)
<1> DEFINE h == HeaderOf(id, qr, opcode, aa, tc, rd, ra, rcode)
           p == Assembled(h, << >>, << >>, << >>)
           g == [h EXCEPT !.qr = no]
           k == [g EXCEPT !.rd = yes]
           a == [p EXCEPT !.header.qr = no]
           b == [a EXCEPT !.header.rd = yes]
           c == [b EXCEPT !.questions = qs]
<1>1. g = HeaderOf(id, no, opcode, aa, tc, rd, ra, rcode)
  BY DEF HeaderOf
<1>2. a = Assembled([h EXCEPT !.qr = no], << >>, << >>, << >>)
  <2> HIDE DEF h
  <2> QED
    BY DEF Assembled
<1>3. a = Assembled(g, << >>, << >>, << >>)
  BY <1>2, Zenon
<1> HIDE DEF h, g, a
<1>4. k = HeaderOf(id, no, opcode, aa, tc, yes, ra, rcode)
  BY <1>1 DEF HeaderOf
<1>5. b = Assembled([g EXCEPT !.rd = yes], << >>, << >>, << >>)
  BY <1>3 DEF Assembled
<1>6. b = Assembled(k, << >>, << >>, << >>)
  BY <1>5, Zenon
<1> HIDE DEF k, b
<1>7. c = Assembled(k, qs, << >>, << >>)
  BY <1>6 DEF Assembled
<1> HIDE DEF c, p
<1>8. Ask(p, no, yes, qs) = c
  BY Zenon DEF Ask, a, b, c
<1> QED
  BY <1>4, <1>7, <1>8, Zenon DEF p, h

LEMMA NewQueryIs ==
    ASSUME NEW id, NEW a
    PROVE  NewQuery(id, a) = Assembled(Asking(id), << QuestionOf(a) >>, << >>, << >>)
<1> DEFINE yes == TRUE
           no == FALSE
           qs == << QuestionOf(a) >>
           p == Plain(id, 0)
<1>1. NewQuery(id, a) = Ask(p, no, yes, qs)
  BY Zenon DEF NewQuery, Ask, QuestionOf
<1>2. p = Assembled(Refusal(id, 0), << >>, << >>, << >>)
  BY RefusalIs
<1>3. Refusal(id, 0) = HeaderOf(id, yes, 0, no, no, no, no, 0)
  BY Zenon DEF Refusal
<1>4. Asking(id) = HeaderOf(id, no, 0, no, no, yes, no, 0)
  BY Zenon DEF Asking
<1> HIDE DEF yes, no, qs, p
<1>5. Ask(p, no, yes, qs) =
        Assembled(HeaderOf(id, no, 0, no, no, yes, no, 0), qs, << >>, << >>)
  BY <1>2, <1>3, AskIs
<1> QED
  BY <1>1, <1>4, <1>5 DEF qs

LEMMA CanonicalOctets ==
    ASSUME NEW s \in Octets PROVE CanonicalName(s) \in Octets
<1> DEFINE t == IF s # << >> /\ Last(s) = Dot THEN Front(s) ELSE s
<1>1. CASE s = << >>
  <2>1. t = s
    BY <1>1
  <2> QED
    BY <2>1, ToLowerOctets DEF CanonicalName
<1>2. CASE s # << >>
  <2>1. Len(s) \in Nat /\ Len(s) # 0
    BY <1>2, EmptySeq, OctetsLen DEF Octets
  <2>2. Len(s) - 1 \in Nat /\ Len(s) - 1 <= Len(s)
    BY <2>1
  <2>3. SubSeq(s, 1, Len(s) - 1) \in Octets
    BY <2>2, PartOctets
  <2>4. t \in Octets
    BY <2>3 DEF Front
  <2> HIDE DEF t
  <2>5. ToLower(t) \in Octets
    BY <2>4, ToLowerOctets
  <2> QED
    BY <2>5 DEF CanonicalName, t
<1> QED
  BY <1>1, <1>2

LEMMA AskedTyped ==
    ASSUME NEW c \in Client, NEW id \in Ids
    PROVE  /\ QuestionOf(Asked[c]) \in DnsQuestion
           /\ << QuestionOf(Asked[c]) >> \in Seq(DnsQuestion)
           /\ Len(<< QuestionOf(Asked[c]) >>) = 1 /\ << QuestionOf(Asked[c]) >>[1] = QuestionOf(Asked[c])
           /\ Asking(id) \in DnsHeader
<1> DEFINE a == Asked[c]
           q == QuestionOf(a)
<1>1. a.name \in Octets /\ a.type \in Word16 /\ id \in Word16
  BY TrafficAssumption
<1> HIDE DEF a
<1>2. CanonicalName(a.name) \in Octets
  BY <1>1, CanonicalOctets
<1>3. 1 \in Word16
  BY DEF Word16
<1>4. q \in DnsQuestion
  BY <1>1, <1>2, <1>3 DEF QuestionOf, DnsQuestion
<1>5. Asking(id) \in DnsHeader
  BY <1>1 DEF Asking, HeaderOf, DnsHeader
<1> HIDE DEF q
<1>6. << q >> \in Seq(DnsQuestion) /\ Len(<< q >>) = 1 /\ << q >>[1] = q
  BY <1>4, OneElement
<1> QED
  BY <1>4, <1>5, <1>6 DEF q, a

\* A request is octets, and short.
LEMMA RequestOctets ==
    ASSUME NEW c \in Client, NEW id \in Ids, Request(c, id).err = "nil"
    PROVE  /\ Request(c, id).buf \in Octets /\ Len(Request(c, id).buf) \in Nat
           /\ Len(Request(c, id).buf) <= 16 + MaxNameWire
<1> DEFINE h == Asking(id)
           qs == << QuestionOf(Asked[c]) >>
<1>1. h \in DnsHeader /\ qs \in Seq(DnsQuestion) /\ Len(qs) = 1
  BY AskedTyped
<1>2. Request(c, id) = Encode(Assembled(h, qs, << >>, << >>))
  BY NewQueryIs DEF Request
<1> HIDE DEF h, qs
<1>3. /\ Request(c, id).buf \in Octets
      /\ Len(Request(c, id).buf) <= 16 + MaxNameWire
  BY <1>1, <1>2, ShortEncodes
<1> QED
  BY <1>3, OctetsLen

LEMMA ReceivedOctets ==
    ASSUME NEW s \in Octets
    PROVE  Received(s) \in Octets /\ (Len(s) <= BufSize => Received(s) = s)
<1> DEFINE n == Min({BufSize, Len(s)})
<1>1. BufSize \in Nat /\ Len(s) \in Nat
  BY OctetsLen, TrafficAssumption
<1>2. n \in Nat /\ n <= Len(s) /\ (Len(s) <= BufSize => n = Len(s))
  BY <1>1, SmallOf
<1>3. Received(s) = SubSeq(s, 1, n)
  BY DEF Received
<1> HIDE DEF n
<1>4. SubSeq(s, 1, n) \in Octets
  BY <1>2, SplitAt
<1>5. n = Len(s) => SubSeq(s, 1, n) = s
  BY SubSeqFull DEF Octets
<1> QED
  BY <1>2, <1>3, <1>4, <1>5
(***************************************************************************)
(* What travels: octets, and replies that nobody answers.                  *)
(***************************************************************************)
Posted(d) == d.from \in Address /\ d.octets \in Octets

InHand(i) == hand[i].at = "run" => hand[i].from \in Address /\ hand[i].req \in Octets

\* A reply over UDP.
SmallEcho(s) == Echo(s) /\ Len(s) <= UDPLimit

MailTypes ==
    /\ hand = [i \in Slot |-> hand[i]]
    /\ back = [a \in Address |-> back[a]]

MailInv ==
    /\ MailTypes
    /\ \A d \in wire : Posted(d)
    /\ \A i \in Slot : InHand(i)
    /\ \A a \in Address : \A s \in back[a] : SmallEcho(s)

LEMMA MailInitially == Init => MailInv
<1> SUFFICES ASSUME Init PROVE MailInv
  OBVIOUS
<1>1. /\ hand = [i \in Slot |-> Free] /\ back = [a \in Address |-> {}]
  BY DEF Init
<1>2. MailTypes
  BY <1>1 DEF MailTypes
<1>3. ASSUME NEW d \in wire PROVE Posted(d)
  <2>1. PICK s \in Stray : d = [from |-> Stranger, octets |-> s]
    BY DEF Init
  <2>2. Stranger \in Address
    BY DEF Address
  <2> QED
    BY <2>1, <2>2, TrafficAssumption DEF Posted
<1>4. \A i \in Slot : InHand(i)
  BY <1>1 DEF InHand, Free
<1>5. \A a \in Address : \A s \in back[a] : SmallEcho(s)
  BY <1>1
<1> QED
  BY <1>2, <1>3, <1>4, <1>5 DEF MailInv

LEMMA MailRead ==
    ASSUME MailInv, NEW i \in Slot, NEW d \in wire, ReadDatagram(i, d)
    PROVE  MailInv'
<1>1. /\ hand' = [hand EXCEPT ![i] = [at |-> "run", from |-> d.from, req |-> Received(d.octets)]]
      /\ UNCHANGED << wire, back >>
  BY DEF ReadDatagram
<1>2. /\ hand' = [j \in Slot |-> hand'[j]]
      /\ hand'[i] = [at |-> "run", from |-> d.from, req |-> Received(d.octets)]
      /\ \A j \in Slot : j # i => hand'[j] = hand[j]
  BY <1>1 DEF MailInv, MailTypes
<1>3. d.from \in Address /\ d.octets \in Octets
  BY DEF MailInv, Posted
<1>4. Received(d.octets) \in Octets
  BY <1>3, ReceivedOctets
<1>5. ASSUME NEW j \in Slot PROVE InHand(j)'
  <2>1. CASE j = i
    BY <1>2, <1>3, <1>4, <2>1 DEF InHand
  <2>2. CASE j # i
    BY <1>2, <2>2 DEF InHand, MailInv
  <2> QED
    BY <2>1, <2>2
<1> QED
  BY <1>1, <1>2, <1>5 DEF MailInv, MailTypes, Posted, SmallEcho, Echo

LEMMA MailAnswered ==
    ASSUME ResolverFits, MailInv, NEW i \in Slot, AnswerDatagram(i)
    PROVE  MailInv'
<1> DEFINE resp == HandleQuery(hand[i].req, UDPLimit)
           from == hand[i].from
<1>1. /\ hand[i].at = "run" /\ hand' = [hand EXCEPT ![i] = Free]
      /\ back' = IF "udp" \in open
                 THEN [back EXCEPT ![from] = @ \cup ({resp} \ {Nil})] ELSE back
      /\ UNCHANGED wire
  BY DEF AnswerDatagram, RequestOf
<1>2. from \in Address /\ hand[i].req \in Octets
  BY <1>1 DEF MailInv, InHand
<1>3. resp # Nil => SmallEcho(resp)
  BY <1>2, ReplyGood, TrafficAssumption DEF SmallEcho
<1> HIDE DEF resp, from
<1>4. /\ hand' = [j \in Slot |-> hand'[j]] /\ hand'[i] = Free
      /\ \A j \in Slot : j # i => hand'[j] = hand[j]
  BY <1>1 DEF MailInv, MailTypes
<1>5. ASSUME NEW j \in Slot PROVE InHand(j)'
  BY <1>4 DEF InHand, MailInv, Free
<1>6. /\ back' = [a \in Address |-> back'[a]]
      /\ back'[from] \subseteq back[from] \cup ({resp} \ {Nil})
      /\ \A a \in Address : a # from => back'[a] = back[a]
  BY <1>1, <1>2 DEF MailInv, MailTypes
<1>7. ASSUME NEW a \in Address, NEW s \in back'[a] PROVE SmallEcho(s)
  <2>1. s \in back[a] \/ (s = resp /\ resp # Nil)
    BY <1>6, <1>7
  <2> QED
    BY <1>3, <2>1 DEF MailInv
<1>8. (\A a \in Address : \A s \in back[a] : SmallEcho(s))'
  BY <1>7 DEF SmallEcho, Echo
<1> QED
  BY <1>1, <1>4, <1>5, <1>6, <1>8 DEF MailInv, MailTypes, Posted

LEMMA MailStep == ResolverFits /\ TcpTypes /\ MailInv /\ [Next]_vars => MailInv'
<1> SUFFICES ASSUME ResolverFits, TcpTypes, MailInv, [Next]_vars PROVE MailInv'
  OBVIOUS
<1>1. ASSUME UNCHANGED << wire, hand, back >> PROVE MailInv'
  BY <1>1 DEF MailInv, MailTypes, Posted, InHand, SmallEcho, Echo
<1>2. ASSUME NEW c \in Client, StartQuery(c) PROVE MailInv'
  <2>1. /\ \/ UNCHANGED wire
           \/ \E id \in Ids :
                /\ Request(c, id).err = "nil"
                /\ c \notin TcpClient
                /\ wire' = wire \cup {[from |-> c, octets |-> Request(c, id).buf]}
        /\ UNCHANGED << hand, back >>
    BY <1>2, QueryStarted DEF TcpTypes
  <2>2. CASE UNCHANGED wire
    BY <1>1, <2>1, <2>2
  <2>3. CASE wire' # wire
    <3>1. PICK id \in Ids :
            /\ Request(c, id).err = "nil" /\ c \notin TcpClient
            /\ wire' = wire \cup {[from |-> c, octets |-> Request(c, id).buf]}
      BY <2>1, <2>3
    <3>2. c \in Address
      BY <3>1 DEF Client, Address
    <3>3. Request(c, id).buf \in Octets
      BY <3>1, RequestOctets
    <3>4. Posted([from |-> c, octets |-> Request(c, id).buf])
      BY <3>2, <3>3 DEF Posted
    <3>5. \A d \in wire' : Posted(d)
      BY <3>1, <3>4 DEF MailInv
    <3> QED
      BY <2>1, <3>5 DEF MailInv, MailTypes, Posted, InHand, SmallEcho, Echo
  <2> QED
    BY <2>2, <2>3
<1>3. ASSUME NEW c \in Client, EndQuery(c) PROVE MailInv'
  BY <1>1, <1>3 DEF EndQuery, udpVars
<1> QED
  BY <1>1, <1>2, <1>3, MailRead, MailAnswered, UdpRests DEF vars, udpVars


\* A connection: what its peer has sent and has left to send, and where the
\* server stands with it.
Peering(k) ==
    /\ up[k] \in Octets /\ left[k] \in Octets
    /\ conn[k].at = "body" => conn[k].need \in Nat
    /\ conn[k].at = "write" => Echo(conn[k].resp)

StreamInv == \A k \in Peer : Peering(k)

LEMMA StreamInitially == Init => TcpTypes /\ StreamInv
<1> SUFFICES ASSUME Init PROVE TcpTypes /\ StreamInv
  OBVIOUS
<1>1. TcpTypes
  BY TcpInitially DEF TcpInv
<1>2. ASSUME NEW k \in Peer PROVE Peering(k)
  <2>1. /\ up[k] = << >> /\ conn[k] = NoConn
        /\ left[k] = << >> \/ (k \in Pipeliner /\ left[k] = Stream(k))
    BY <1>2 DEF Init
  <2>2. left[k] \in Octets /\ up[k] \in Octets
    BY <2>1, EmptyOctets, PipelineFacts
  <2> QED
    BY <2>1, <2>2 DEF Peering, NoConn
<1> QED
  BY <1>1, <1>2 DEF StreamInv

LEMMA PeeringStep ==
    ASSUME ResolverFits, TcpTypes, NEW k \in Peer, Peering(k), ConnStep(k)
    PROVE  Peering(k)'
<1> DEFINE u == up[k]
           o == conn[k].resp
<1>1. u \in Octets /\ left[k] \in Octets /\ Len(u) \in Nat
  BY OctetsLen DEF Peering
<1>2. CASE Accept(k) \/ WriteReply(k) \/ ReadFails(k) \/ WriteFails(k) \/ PeerReads(k)
  <2>1. CASE PeerReads(k)
    BY <1>1, <2>1 DEF PeerReads, Peering, Echo
  <2>2. CASE ~ PeerReads(k)
    <3>1. conn'[k].at \in {"prefix", "closed"} /\ UNCHANGED << left, up >>
      BY <1>2, <2>2 DEF Accept, WriteReply, ReadFails, WriteFails, TcpTypes
    <3> QED
      BY <1>1, <3>1 DEF Peering
  <2> QED
    BY <2>1, <2>2
<1>3. CASE ReadPrefix(k)
  <2>1. /\ Len(u) >= 2 /\ conn'[k].at = "body" /\ conn'[k].need = Word(u)
        /\ up'[k] = SubSeq(u, 3, Len(u)) /\ UNCHANGED left
    BY <1>3 DEF ReadPrefix, TcpTypes
  <2> HIDE DEF u
  <2>2. Word(u) \in Nat
    BY <1>1, <2>1, WordOfOctets, WordNat
  <2>3. SubSeq(u, 3, Len(u)) \in Octets
    BY <1>1, PartOctets
  <2> QED
    BY <1>1, <2>1, <2>2, <2>3 DEF Peering
<1>4. CASE ReadBody(k)
  <2> DEFINE n == conn[k].need
             r == HandleQuery(SubSeq(u, 1, n), 0)
  <2>1. /\ conn[k].at = "body" /\ Len(u) >= n
        /\ conn'[k] = IF r = Nil THEN [at |-> "closed"] ELSE [at |-> "write", resp |-> r]
        /\ up'[k] = SubSeq(u, n + 1, Len(u)) /\ UNCHANGED left
    BY <1>4 DEF ReadBody, Rest, TcpTypes
  <2>2. n \in Nat /\ n <= Len(u)
    BY <1>1, <2>1 DEF Peering
  <2> HIDE DEF n, u
  <2>3. SubSeq(u, 1, n) \in Octets /\ SubSeq(u, n + 1, Len(u)) \in Octets
    BY <1>1, <2>2, SplitAt
  <2>4. r # Nil => Echo(r)
    BY <2>3, ReplyGood
  <2> HIDE DEF r
  <2>5. CASE r = Nil
    BY <1>1, <2>1, <2>3, <2>5 DEF Peering
  <2>6. CASE r # Nil
    <3>1. conn'[k].at = "write" /\ conn'[k].resp = r
      BY <2>1, <2>6
    <3>2. Echo(conn'[k].resp)
      BY <2>4, <2>6, <3>1
    <3> QED
      BY <1>1, <2>1, <2>3, <3>1, <3>2 DEF Peering, Echo
  <2> QED
    BY <2>5, <2>6
<1>5. CASE PeerSends(k)
  <2>1. UNCHANGED conn
    BY <1>5 DEF PeerSends
  <2>2. PICK n \in 1..Len(left[k]) :
          /\ up'[k] = u \o SubSeq(left[k], 1, n)
          /\ left'[k] = SubSeq(left[k], n + 1, Len(left[k]))
    BY <1>5 DEF PeerSends, TcpTypes
  <2>3. up'[k] \in Octets /\ left'[k] \in Octets
    BY <1>1, <2>2, PieceMoves
  <2> QED
    BY <2>1, <2>3 DEF Peering, Echo
<1> QED
  BY <1>2, <1>3, <1>4, <1>5 DEF ConnStep

LEMMA StreamStep == ResolverFits /\ TcpTypes /\ StreamInv /\ [Next]_vars => StreamInv'
<1> SUFFICES ASSUME ResolverFits, TcpTypes, StreamInv, [Next]_vars, NEW c \in Peer
             PROVE  Peering(c)'
  BY DEF StreamInv
<1>1. Peering(c) /\ query = [b \in Client |-> query[b]]
  BY DEF StreamInv, TcpTypes
<1>2. ASSUME UNCHANGED << conn, left, up >> PROVE Peering(c)'
  BY <1>1, <1>2 DEF Peering, Echo
<1>3. ASSUME NEW k \in Peer, ConnStep(k) PROVE Peering(c)'
  <2>1. CASE k = c
    BY <1>1, <1>3, <2>1, PeeringStep
  <2>2. CASE k # c
    <3>1. conn'[c] = conn[c] /\ left'[c] = left[c] /\ up'[c] = up[c]
      BY <1>3, <2>2, ConnLocal
    <3> QED
      BY <1>1, <3>1 DEF Peering, Echo
  <2> QED
    BY <2>1, <2>2
<1>4. ASSUME NEW b \in Client, StartQuery(b) PROVE Peering(c)'
  <2>1. /\ UNCHANGED << conn, up >>
        /\ \/ UNCHANGED left
           \/ \E id \in Ids : /\ Request(b, id).err = "nil" /\ b \in TcpClient
                              /\ left' = [left EXCEPT ![b] = Frame(Request(b, id).buf)]
    BY <1>1, <1>4, QueryStarted
  <2>2. CASE UNCHANGED left
    BY <1>2, <2>1, <2>2
  <2>3. CASE left' # left
    <3>1. PICK id \in Ids : /\ Request(b, id).err = "nil" /\ b \in TcpClient
                            /\ left' = [left EXCEPT ![b] = Frame(Request(b, id).buf)]
      BY <2>1, <2>3
    <3>2. Frame(Request(b, id).buf) \in Octets
      BY <3>1, RequestOctets, FrameOctets
    <3>3. left'[c] \in Octets
      BY <1>1, <3>1, <3>2 DEF TcpTypes, Peering
    <3> QED
      BY <1>1, <2>1, <3>3 DEF Peering, Echo
  <2> QED
    BY <2>2, <2>3
<1>5. ASSUME NEW b \in Client, EndQuery(b) PROVE Peering(c)'
  BY <1>2, <1>5 DEF EndQuery, tcpVars
<1>6. CASE UNCHANGED << query, tcpVars >>
  BY <1>2, <1>6 DEF tcpVars
<1> QED
  BY <1>3, <1>4, <1>5, <1>6, TcpRests DEF vars

\* Whatever arrives, from whoever it comes, in whatever pieces: what HandleQuery
\* sends back is a message that it would not answer, and over UDP one that fits
\* a datagram.  ResolverFits is what the resolver owes to this.
THEOREM HarmlessReplies == ASSUME ResolverFits PROVE Spec => []RepliesAreHarmless
<1>1. Init => TcpTypes /\ MailInv /\ StreamInv
  BY MailInitially, StreamInitially
<1>2. TcpTypes /\ MailInv /\ StreamInv /\ [Next]_vars => TcpTypes' /\ MailInv' /\ StreamInv'
  BY TcpTypesStep, MailStep, StreamStep
<1>3. TcpTypes /\ MailInv /\ StreamInv => RepliesAreHarmless
  BY DEF MailInv, StreamInv, Peering, SmallEcho, Echo, RepliesAreHarmless
<1> QED
  BY <1>1, <1>2, <1>3, PTL DEF Spec

(***************************************************************************)
(* One exchange that nothing disturbs.                                     *)
(***************************************************************************)
\* A message of a question encodes if the name of the question does.
LEMMA QuestionEncodes ==
    ASSUME NEW h \in DnsHeader, NEW qs \in Seq(DnsQuestion), Len(qs) = 1
    PROVE  Encode(Assembled(h, qs, << >>, << >>)).err = "nil" <=>
             Encodable(SplitLabels(qs[1].name))
<1> DEFINE e == << >>
           m == Assembled(h, qs, e, e)
           q == qs[1]
           b == Started(m)
           x == SplitLabels(q.name)
           c == PutName(b, q.name)
           r == EncodeQuestion(b, q)
<1>1. e \in Seq(DnsRecord) /\ Len(qs) \in Nat /\ ~ TooLong(Len(qs)) /\ q \in DnsQuestion
  BY EmptySeq DEF TooLong
<1>2. m \in DnsMessage
  BY <1>1, MessageTyped
<1>3. Sections(m) = e /\ ~ TooMany(Counts(m)) /\ m.questions = qs
  BY <1>1, NoSections
<1> HIDE DEF m, q, x
<1>4. Encode(m) = Finished(m)
  BY <1>3, EncodeIs DEF Either
<1>5. Finished(m) = r
  BY <1>3, NoRecords, OneQuestion DEF Finished, q
<1>6. IsBuilder(b) /\ b.err = "nil"
  BY <1>2, <1>3, HeaderBuilder
<1>7. r = PutBytes(c, QuestionTail(q)) /\ c = PutLabels(b, x)
  BY DEF EncodeQuestion, QuestionTail, PutName, x
<1> HIDE DEF b, c, r
<1>8. CASE Encodable(x)
  <2>1. c.err = "nil" /\ IsBuilder(c)
    BY <1>6, <1>7, <1>8, PutLabelsPut, BuildIs
  <2>2. r = Build(c.buf \o QuestionTail(q), c.offsets, "nil")
    BY <1>7, <2>1, PutBytesIs
  <2>3. r.err = "nil"
    BY <2>2, BuildIs
  <2> QED
    BY <1>4, <1>5, <1>8, <2>3 DEF m, x, q
<1>9. CASE ~ Encodable(x)
  <2>1. c.err # "nil"
    BY <1>6, <1>7, <1>9, PutLabelsIs
  <2>2. r.err # "nil"
    BY <1>7, <2>1 DEF PutBytes
  <2> QED
    BY <1>4, <1>5, <1>9, <2>2 DEF m, x, q
<1> QED
  BY <1>8, <1>9

\* A client asks in lower case.
LEMMA CanonicalLow ==
    ASSUME NEW s \in Octets PROVE ToLower(CanonicalName(s)) = CanonicalName(s)
<1> DEFINE t == IF s # << >> /\ Last(s) = Dot THEN Front(s) ELSE s
<1>1. t \in Octets
  <2>1. CASE s = << >>
    BY <2>1
  <2>2. CASE s # << >>
    <3>1. Len(s) \in Nat /\ Len(s) # 0
      BY <2>2, EmptySeq, OctetsLen DEF Octets
    <3>2. Len(s) - 1 \in Nat /\ Len(s) - 1 <= Len(s)
      BY <3>1
    <3>3. SubSeq(s, 1, Len(s) - 1) \in Octets
      BY <3>2, PartOctets
    <3> QED
      BY <3>3 DEF Front
  <2> QED
    BY <2>1, <2>2
<1> HIDE DEF t
<1>2. ToLower(ToLower(t)) = ToLower(t)
  BY <1>1, LowerStable
<1> QED
  BY <1>2 DEF CanonicalName, t

LEMMA LowQuestions ==
    ASSUME NEW q, LowerQuestion(q) = q PROVE LowerQuestions(<< q >>) = << q >>
BY DEF LowerQuestions

LEMMA LoweredAssembled ==
    ASSUME NEW h, NEW qs, NEW answers, NEW authority,
           LowerQuestions(qs) = qs, LowerRecords(answers) = answers,
           LowerRecords(authority) = authority
    PROVE  Lowered(Assembled(h, qs, answers, authority)) = Assembled(h, qs, answers, authority)
<1> DEFINE m == Assembled(h, qs, answers, authority)
           e == << >>
<1>1. /\ m.header = h /\ m.questions = qs /\ m.answers = answers
      /\ m.authority = authority /\ m.additional = e
  BY DEF Assembled
<1>2. LowerRecords(e) = e
  BY DEF LowerRecords
<1> HIDE DEF m, e
<1>3. Lowered(m) = [header |-> h, questions |-> qs, answers |-> answers,
                    authority |-> authority, additional |-> e]
  BY <1>1, <1>2 DEF Lowered
<1> QED
  BY <1>3 DEF Assembled, m, e

\* The request, decoded.
LEMMA RequestDecoded ==
    ASSUME NEW c \in Client, NEW id \in Ids, Request(c, id).err = "nil"
    PROVE  Decode(Request(c, id).buf) = [err |-> "nil", msg |-> NewQuery(id, Asked[c])]
<1> DEFINE h == Asking(id)
           q == QuestionOf(Asked[c])
           qs == << q >>
           e == << >>
           m == Assembled(h, qs, e, e)
<1>1. /\ h \in DnsHeader /\ q \in DnsQuestion /\ qs \in Seq(DnsQuestion) /\ Len(qs) = 1
      /\ e \in Seq(DnsRecord)
  BY AskedTyped, EmptySeq
<1>2. NewQuery(id, Asked[c]) = m
  BY NewQueryIs
<1>3. LowerQuestion(q) = q
  <2>1. Asked[c].name \in Octets
    BY TrafficAssumption
  <2>2. ToLower(CanonicalName(Asked[c].name)) = CanonicalName(Asked[c].name)
    BY <2>1, CanonicalLow
  <2> QED
    BY <2>2 DEF LowerQuestion, QuestionOf
<1> HIDE DEF h, q
<1>4. m \in DnsMessage
  BY <1>1, MessageTyped
<1>5. Shallow(m)
  BY <1>1, SingleShallow
<1>6. LowerQuestions(qs) = qs /\ LowerRecords(e) = e
  BY <1>3, LowQuestions DEF LowerRecords
<1>7. Lowered(m) = m
  BY <1>6, LoweredAssembled
<1> HIDE DEF m
<1>8. Encode(m).err = "nil"
  BY <1>2 DEF Request
<1>9. Decode(Encode(m).buf) = [err |-> "nil", msg |-> Lowered(m)]
  BY <1>4, <1>5, <1>8, EncodeDecoded
<1> QED
  BY <1>2, <1>7, <1>9 DEF Request

(***************************************************************************)
(* The answer to it.                                                       *)
(***************************************************************************)
AnswersTravel == \A c \in Client : AnswerTravels(c)

ReplyTo(c, id) ==
    LET q == QuestionOf(Asked[c]) IN
    Assembled(Replying(Asking(id), Resolve(q).rcode), << q >>,
              Resolve(q).answers, Resolve(q).authority)

HintTo(c, id) ==
    LET q == QuestionOf(Asked[c]) IN
    Assembled(Hinting(Asking(id), Resolve(q).rcode), << q >>, << >>, << >>)

LEMMA AskingIs ==
    ASSUME NEW id PROVE Asking(id).opcode = 0 /\ Asking(id).qr = FALSE
<1> DEFINE yes == TRUE
           no == FALSE
<1>1. Asking(id) = HeaderOf(id, no, 0, no, no, yes, no, 0)
  BY Zenon DEF Asking
<1> HIDE DEF yes, no
<1>2. Asking(id).opcode = 0 /\ Asking(id).qr = no
  BY <1>1, HeaderParts
<1> QED
  BY <1>2, Zenon DEF no

LEMMA QueryParts ==
    ASSUME NEW c \in Client, NEW id \in Ids
    PROVE  LET m == NewQuery(id, Asked[c]) IN
           /\ m \in DnsMessage /\ m.header = Asking(id)
           /\ m.questions = << QuestionOf(Asked[c]) >>
<1> DEFINE h == Asking(id)
           qs == << QuestionOf(Asked[c]) >>
           e == << >>
           m == Assembled(h, qs, e, e)
<1>1. h \in DnsHeader /\ qs \in Seq(DnsQuestion) /\ e \in Seq(DnsRecord)
  BY AskedTyped, EmptySeq
<1>2. NewQuery(id, Asked[c]) = m
  BY NewQueryIs
<1> HIDE DEF h, qs
<1>3. m \in DnsMessage
  BY <1>1, MessageTyped
<1>4. m.header = h /\ m.questions = qs
  BY DEF Assembled
<1> HIDE DEF m
<1> QED
  BY <1>2, <1>3, <1>4 DEF h, qs

LEMMA AnswerIs ==
    ASSUME NEW c \in Client, NEW id \in Ids
    PROVE  LET m == NewQuery(id, Asked[c]) IN
           /\ Response(m) = ReplyTo(c, id)
           /\ Truncated(Response(m)) = HintTo(c, id)
<1> DEFINE m == NewQuery(id, Asked[c])
           h == Asking(id)
           q == QuestionOf(Asked[c])
           qs == << q >>
           res == Resolve(q)
           code == res.rcode
           answers == res.answers
           authority == res.authority
<1>1. m \in DnsMessage /\ m.header = h /\ m.questions = qs
  BY QueryParts
<1>2. Len(qs) = 1 /\ qs[1] = q
  BY AskedTyped
<1>3. h.opcode = 0
  BY AskingIs
<1> HIDE DEF m, h, q, qs
<1>4. Response(m) =
        LET r == Resolve(m.questions[1]) IN
        Assembled(Replying(m.header, r.rcode), m.questions, r.answers, r.authority)
  BY <1>1, <1>2, <1>3, ResponseIs
<1>5. Response(m) = Assembled(Replying(h, code), qs, answers, authority)
  BY <1>1, <1>2, <1>4
<1> HIDE DEF code, answers, authority
<1>6. Truncated(Response(m)) = Assembled(Hinting(h, code), qs, << >>, << >>)
  BY <1>5, TruncatedIs
<1> QED
  BY <1>5, <1>6 DEF m, h, q, qs, code, answers, authority, ReplyTo, HintTo

\* What a client makes of a message of its own identifier.
LEMMA OutcomeIs ==
    ASSUME NEW s, NEW id, NEW qr, NEW opcode, NEW aa, NEW tc, NEW rd, NEW ra, NEW rcode,
           NEW qs, NEW answers, NEW authority,
           Decode(s) = [err |-> "nil",
                        msg |-> Assembled(HeaderOf(id, qr, opcode, aa, tc, rd, ra, rcode),
                                          qs, answers, authority)]
    PROVE  LET p == Outcome(id, s) IN
           /\ p.tc = tc /\ p.rcode = rcode
           /\ p.answers = answers /\ p.authority = authority
<1> DEFINE h == HeaderOf(id, qr, opcode, aa, tc, rd, ra, rcode)
           m == Assembled(h, qs, answers, authority)
           d == Decode(s)
<1>1. m.header = h /\ m.answers = answers /\ m.authority = authority
  <2> HIDE DEF h
  <2> QED
    BY DEF Assembled
<1>2. h.id = id /\ h.tc = tc /\ h.rcode = rcode
  BY HeaderParts
<1> HIDE DEF h, m
<1>3. d.err = "nil" /\ d.msg = m
  BY DEF m, h
<1> HIDE DEF d
<1>4. Outcome(id, s) =
        IF d.err # "nil" THEN [at |-> "error"]
        ELSE IF d.msg.header.id # id THEN [at |-> "error"]
        ELSE [at |-> "printed", tc |-> d.msg.header.tc, rcode |-> d.msg.header.rcode,
              answers |-> d.msg.answers, authority |-> d.msg.authority]
  BY Zenon DEF Outcome, d
<1>5. Outcome(id, s) =
        [at |-> "printed", tc |-> h.tc, rcode |-> h.rcode,
         answers |-> answers, authority |-> authority]
  BY <1>1, <1>2, <1>3, <1>4
<1> QED
  BY <1>2, <1>5

\* The whole answer, printed.
LEMMA ReplyPrinted ==
    ASSUME NEW c \in Client, NEW id \in Ids, NEW s,
           Decode(s) = [err |-> "nil", msg |-> ReplyTo(c, id)]
    PROVE  IsAnswerTo(c, Outcome(id, s))
<1> DEFINE yes == TRUE
           no == FALSE
           q == QuestionOf(Asked[c])
           res == Resolve(q)
           code == res.rcode
           answers == res.answers
           authority == res.authority
           qs == << q >>
           p == Outcome(id, s)
<1>1. Asking(id).id = id /\ Asking(id).opcode = 0 /\ Asking(id).rd = yes
  <2>1. Asking(id) = HeaderOf(id, no, 0, no, no, yes, no, 0)
    BY Zenon DEF Asking
  <2> HIDE DEF yes, no
  <2> QED
    BY <2>1, HeaderParts
<1>2. Replying(Asking(id), code) = HeaderOf(id, yes, 0, yes, no, yes, no, code)
  BY <1>1, Zenon DEF Replying
<1>3. ReplyTo(c, id) = Assembled(Replying(Asking(id), code), qs, answers, authority)
  BY DEF ReplyTo
<1> HIDE DEF yes, no, code, answers, authority, qs
<1>4. p.tc = no /\ p.rcode = code /\ p.answers = answers /\ p.authority = authority
  BY <1>2, <1>3, OutcomeIs
<1> HIDE DEF p
<1>5. ~ p.tc
  BY <1>4, Zenon DEF no
<1> QED
  BY <1>4, <1>5 DEF IsAnswerTo, code, answers, authority, p, QuestionOf

\* The hint, printed.
LEMMA HintPrinted ==
    ASSUME NEW c \in UdpClient, NEW id \in Ids, NEW s,
           Decode(s) = [err |-> "nil", msg |-> HintTo(c, id)]
    PROVE  IsAnswerTo(c, Outcome(id, s))
<1> DEFINE yes == TRUE
           no == FALSE
           e == << >>
           q == QuestionOf(Asked[c])
           code == Resolve(q).rcode
           qs == << q >>
           p == Outcome(id, s)
<1>1. Asking(id).id = id /\ Asking(id).opcode = 0 /\ Asking(id).rd = yes
  <2>1. Asking(id) = HeaderOf(id, no, 0, no, no, yes, no, 0)
    BY Zenon DEF Asking
  <2> HIDE DEF yes, no
  <2> QED
    BY <2>1, HeaderParts
<1>2. Hinting(Asking(id), code) = HeaderOf(id, yes, 0, yes, yes, yes, no, code)
  BY <1>1, Zenon DEF Hinting
<1>3. HintTo(c, id) = Assembled(Hinting(Asking(id), code), qs, e, e)
  BY DEF HintTo
<1> HIDE DEF yes, no, code, qs, e
<1>4. p.tc = yes /\ p.rcode = code /\ p.answers = e /\ p.authority = e
  BY <1>2, <1>3, OutcomeIs
<1> HIDE DEF p
<1>5. p.tc
  BY <1>4, Zenon DEF yes
<1> QED
  BY <1>4, <1>5 DEF IsAnswerTo, code, e, p, QuestionOf

\* The question comes back in lower case.
LEMMA AskedLow ==
    ASSUME NEW c \in Client
    PROVE  LowerQuestions(<< QuestionOf(Asked[c]) >>) = << QuestionOf(Asked[c]) >>
<1> DEFINE q == QuestionOf(Asked[c])
<1>1. Asked[c].name \in Octets
  BY TrafficAssumption
<1>2. ToLower(CanonicalName(Asked[c].name)) = CanonicalName(Asked[c].name)
  BY <1>1, CanonicalLow
<1>3. LowerQuestion(q) = q
  BY <1>2 DEF LowerQuestion, QuestionOf
<1> HIDE DEF q
<1>4. LowerQuestions(<< q >>) = << q >>
  BY <1>3, LowQuestions
<1> QED
  BY <1>4 DEF q

\* Whoever can ask can be given the hint.
LEMMA HintTravels ==
    ASSUME ResolverFits, NEW c \in Client, NEW id \in Ids, Request(c, id).err = "nil"
    PROVE  /\ Encode(HintTo(c, id)).err = "nil"
           /\ Decode(Encode(HintTo(c, id)).buf) = [err |-> "nil", msg |-> HintTo(c, id)]
<1> DEFINE q == QuestionOf(Asked[c])
           qs == << q >>
           code == Resolve(q).rcode
           a == Asking(id)
           h == Hinting(a, code)
           e == << >>
           n == Assembled(a, qs, e, e)
           m == Assembled(h, qs, e, e)
<1>1. /\ a \in DnsHeader /\ q \in DnsQuestion /\ qs \in Seq(DnsQuestion) /\ Len(qs) = 1
      /\ qs[1] = q /\ e \in Seq(DnsRecord)
  BY AskedTyped, EmptySeq
<1>2. NewQuery(id, Asked[c]) = n
  BY NewQueryIs
<1>3. HintTo(c, id) = m
  BY DEF HintTo
<1>4. LowerQuestions(qs) = qs /\ LowerRecords(e) = e
  BY AskedLow DEF LowerRecords
<1> HIDE DEF a, q, qs
<1>5. h \in DnsHeader
  <2>1. code \in 0..15
    BY <1>1, AnswerFitsIs DEF ResolverFits
  <2> HIDE DEF code
  <2> QED
    BY <1>1, <2>1, HeadersTyped
<1> HIDE DEF h
<1>6. m \in DnsMessage /\ Shallow(m) /\ Lowered(m) = m
  BY <1>1, <1>4, <1>5, MessageTyped, SingleShallow, LoweredAssembled
<1>7. Encode(n).err = "nil" <=> Encodable(SplitLabels(qs[1].name))
  BY <1>1, QuestionEncodes
<1>8. Encode(m).err = "nil" <=> Encodable(SplitLabels(qs[1].name))
  BY <1>1, <1>5, QuestionEncodes
<1> HIDE DEF m, n
<1>9. Encode(m).err = "nil"
  BY <1>2, <1>7, <1>8 DEF Request
<1> QED
  BY <1>3, <1>6, <1>9, EncodeDecoded

LEMMA ReplyTravels ==
    ASSUME ResolverFits, AnswersTravel, NEW c \in Client, NEW id \in Ids,
           Request(c, id).err = "nil"
    PROVE  /\ Encode(ReplyTo(c, id)).err = "nil"
           /\ c \in TcpClient => Len(Encode(ReplyTo(c, id)).buf) < FrameSpan
           /\ Decode(Encode(ReplyTo(c, id)).buf) = [err |-> "nil", msg |-> ReplyTo(c, id)]
<1> DEFINE q == QuestionOf(Asked[c])
           qs == << q >>
           answers == Resolve(q).answers
           authority == Resolve(q).authority
           h == Replying(Asking(id), Resolve(q).rcode)
           m == ReplyTo(c, id)
           n == NewQuery(id, Asked[c])
<1>1. n \in DnsMessage
  BY QueryParts
<1>2. Response(n) = m
  BY AnswerIs
<1>3. m = Assembled(h, qs, answers, authority)
  BY DEF ReplyTo
<1>4. LowerQuestions(qs) = qs
  BY AskedLow
<1>5. AnswerTravels(c)
  BY DEF AnswersTravel
<1>6. LowerRecords(answers) = answers /\ LowerRecords(authority) = authority
  BY <1>5 DEF AnswerTravels, QuestionOf
<1>7. /\ Encode(Response(n)).err = "nil"
      /\ c \in TcpClient => Len(Encode(Response(n)).buf) < FrameSpan
  <2>1. Encode(n).err = "nil"
    BY DEF Request
  <2> QED
    BY <1>5, <2>1 DEF AnswerTravels
<1> HIDE DEF m, n, q, qs, h, answers, authority
<1>8. m \in DnsMessage /\ Shallow(m)
  BY <1>1, <1>2, ResponseReply DEF IsReply
<1>9. Lowered(m) = m
  BY <1>3, <1>4, <1>6, LoweredAssembled
<1>10. Encode(m).err = "nil" /\ (c \in TcpClient => Len(Encode(m).buf) < FrameSpan)
  BY <1>2, <1>7
<1>11. Decode(Encode(m).buf) = [err |-> "nil", msg |-> m]
  BY <1>8, <1>9, <1>10, EncodeDecoded
<1> QED
  BY <1>10, <1>11 DEF m

\* What HandleQuery makes of a request.
LEMMA RequestServed ==
    ASSUME NEW c \in Client, NEW id \in Ids, NEW limit, Request(c, id).err = "nil"
    PROVE  HandleQuery(Request(c, id).buf, limit) =
             Single(Request(c, id).buf, limit, Response(NewQuery(id, Asked[c])))
<1> DEFINE s == Request(c, id).buf
           n == NewQuery(id, Asked[c])
<1>1. ~ (Len(s) < 12)
  <2>1. n \in DnsMessage
    BY QueryParts
  <2>2. Encode(n).err = "nil" /\ s = Encode(n).buf
    BY DEF Request
  <2> QED
    BY <2>1, <2>2, EncodeLaid
<1>2. Decode(s) = [err |-> "nil", msg |-> n]
  BY RequestDecoded
<1>3. ~ n.header.qr
  <2>1. n.header = Asking(id)
    BY QueryParts
  <2> QED
    BY <2>1, AskingIs
<1> HIDE DEF s, n
<1>4. Decode(s).err = "nil" /\ Decode(s).msg = n
  BY <1>2
<1>5. HandleQuery(s, limit) = Single(s, limit, Response(n))
  BY <1>1, <1>3, <1>4, HandleQueryIs, Zenon
<1> QED
  BY <1>5 DEF s, n

\* The exchange over TCP: the answer.
LEMMA OverTcp ==
    ASSUME ResolverFits, AnswersTravel, NEW c \in TcpClient, NEW id \in Ids,
           Request(c, id).err = "nil"
    PROVE  LET resp == HandleQuery(Request(c, id).buf, 0) IN
           /\ resp \in Octets /\ Len(resp) < FrameSpan
           /\ IsAnswerTo(c, Outcome(id, resp))
<1> DEFINE s == Request(c, id).buf
           resp == HandleQuery(s, 0)
           n == NewQuery(id, Asked[c])
           r == ReplyTo(c, id)
<1>1. c \in Client /\ n \in DnsMessage /\ Response(n) = r
  BY QueryParts, AnswerIs DEF Client
<1>2. /\ Encode(r).err = "nil" /\ Len(Encode(r).buf) < FrameSpan
      /\ Decode(Encode(r).buf) = [err |-> "nil", msg |-> r]
  BY <1>1, ReplyTravels
<1>3. Echo(MustEncode(r))
  BY <1>1, ResponseReply, MustEncodeReply DEF IsReply
<1>4. resp = Single(s, 0, r)
  BY <1>1, RequestServed
<1> HIDE DEF s, n, resp
<1>5. resp = MustEncode(r)
  BY <1>4 DEF Single
<1>6. MustEncode(r) = Encode(r).buf
  BY <1>2, MustEncodeIs
<1>7. resp \in Octets /\ Len(resp) < FrameSpan
  BY <1>2, <1>3, <1>5, <1>6 DEF Echo
<1>8. IsAnswerTo(c, Outcome(id, resp))
  BY <1>1, <1>2, <1>5, <1>6, ReplyPrinted
<1> QED
  BY <1>7, <1>8 DEF resp, s

\* The exchange over UDP: the answer, or the hint if the answer is too long.
LEMMA OverUdp ==
    ASSUME ResolverFits, AnswersTravel, NEW c \in UdpClient, NEW id \in Ids,
           Request(c, id).err = "nil"
    PROVE  LET resp == HandleQuery(Request(c, id).buf, UDPLimit) IN
           resp \in Octets => IsAnswerTo(c, Outcome(id, resp))
<1> DEFINE s == Request(c, id).buf
           resp == HandleQuery(s, UDPLimit)
           n == NewQuery(id, Asked[c])
           r == ReplyTo(c, id)
           t == HintTo(c, id)
<1>1. c \in Client /\ n \in DnsMessage /\ Response(n) = r /\ Truncated(r) = t
  BY QueryParts, AnswerIs DEF Client
<1>2. /\ Encode(r).err = "nil" /\ Encode(t).err = "nil"
      /\ Decode(Encode(r).buf) = [err |-> "nil", msg |-> r]
      /\ Decode(Encode(t).buf) = [err |-> "nil", msg |-> t]
  BY <1>1, ReplyTravels, HintTravels
<1>3. resp = Single(s, UDPLimit, r)
  BY <1>1, RequestServed
<1> HIDE DEF s, n, resp, r, t
<1>4. resp = MustEncode(t) \/ resp = MustEncode(r)
  BY <1>1, <1>3 DEF Single
<1>5. MustEncode(r) = Encode(r).buf /\ MustEncode(t) = Encode(t).buf
  BY <1>2, MustEncodeIs
<1>6. CASE resp = MustEncode(r)
  <2>1. Decode(resp) = [err |-> "nil", msg |-> ReplyTo(c, id)]
    BY <1>2, <1>5, <1>6 DEF r
  <2> QED
    BY <1>1, <2>1, ReplyPrinted DEF resp, s
<1>7. CASE resp = MustEncode(t)
  <2>1. Decode(resp) = [err |-> "nil", msg |-> HintTo(c, id)]
    BY <1>2, <1>5, <1>7 DEF t
  <2> QED
    BY <1>1, <2>1, HintPrinted DEF resp, s
<1> QED
  BY <1>4, <1>6, <1>7

\* Every reply over UDP is short.
LEMMA RepliesShort ==
    ASSUME ResolverFits, NEW c \in Client, NEW id \in Ids, Request(c, id).err = "nil"
    PROVE  LET resp == HandleQuery(Request(c, id).buf, UDPLimit) IN
           resp \in Octets /\ Len(resp) < FrameSpan
<1> DEFINE s == Request(c, id).buf
           resp == HandleQuery(s, UDPLimit)
<1>1. s \in Octets
  BY RequestOctets
<1>2. UDPLimit \in Nat /\ UDPLimit < FrameSpan
  BY TrafficAssumption
<1>3. CASE resp = Nil
  <2>1. resp \in Octets /\ Len(resp) = 0
    BY <1>3, EmptyOctets DEF Nil
  <2> QED
    BY <2>1 DEF FrameSpan
<1>4. CASE resp # Nil
  <2>1. Echo(resp) /\ Len(resp) <= UDPLimit
    BY <1>1, <1>2, <1>4, ReplyGood
  <2> HIDE DEF resp
  <2>2. resp \in Octets /\ Len(resp) \in Nat
    BY <2>1, OctetsLen DEF Echo
  <2>3. Len(resp) < FrameSpan
    BY <1>2, <2>1, <2>2 DEF FrameSpan
  <2> QED
    BY <2>2, <2>3 DEF resp
<1> QED
  BY <1>3, <1>4

\* The codec gives every client that is alone what is due to it.
LEMMA ExchangeAlone == ResolverFits /\ AnswersTravel => OneExchange
<1> SUFFICES ASSUME ResolverFits, AnswersTravel PROVE OneExchange
  OBVIOUS
<1> SUFFICES ASSUME NEW c \in Client, NEW id \in Ids, Request(c, id).err = "nil"
             PROVE  LET s    == Request(c, id).buf
                        resp == IF c \in UdpClient THEN HandleQuery(Received(s), UDPLimit)
                                ELSE HandleQuery(s, 0)
                        p    == Outcome(id, resp)
                    IN  /\ s \in Octets /\ Len(s) < FrameSpan
                        /\ resp \in Octets /\ Len(resp) < FrameSpan
                        /\ p.at = "printed" => IsAnswerTo(c, p)
  BY DEF OneExchange, Request, Octets
<1> DEFINE s == Request(c, id).buf
<1>1. s \in Octets /\ Len(s) \in Nat /\ Len(s) <= 16 + MaxNameWire
  BY RequestOctets
<1>2. Len(s) < FrameSpan /\ Len(s) <= BufSize
  <2> HIDE DEF s
  <2> QED
    BY <1>1, TrafficAssumption, WireAssumption DEF FrameSpan
<1>3. Received(s) = s
  BY <1>1, <1>2, ReceivedOctets
<1>4. CASE c \in UdpClient
  <2>1. /\ HandleQuery(s, UDPLimit) \in Octets /\ Len(HandleQuery(s, UDPLimit)) < FrameSpan
        /\ IsAnswerTo(c, Outcome(id, HandleQuery(s, UDPLimit)))
    BY <1>4, RepliesShort, OverUdp
  <2> HIDE DEF s
  <2> QED
    BY <1>1, <1>2, <1>3, <1>4, <2>1 DEF s
<1>5. CASE c \notin UdpClient
  <2>1. c \in TcpClient
    BY <1>5 DEF Client
  <2>2. /\ HandleQuery(s, 0) \in Octets /\ Len(HandleQuery(s, 0)) < FrameSpan
        /\ IsAnswerTo(c, Outcome(id, HandleQuery(s, 0)))
    BY <2>1, OverTcp
  <2> HIDE DEF s
  <2> QED
    BY <1>1, <1>2, <1>5, <2>2 DEF s
<1> QED
  BY <1>4, <1>5

\* For any clients, identifiers and questions, with a resolver whose answers
\* fit the codec: what a client prints is the answer to its own question, or
\* the hint to use TCP.  One read buffer for all datagrams (ServeUDP),
\* datagrams that are repeated, delayed and overtaken, and streams that are
\* cut anywhere (serveConn) never give it another's; and encoding, compression
\* and decoding leave the answer what the resolver said.
THEOREM OwnAnswer ==
    ASSUME ResolverFits, AnswersTravel PROVE Spec => []PrintsItsOwnAnswer
<1>1. OneExchange
  BY ExchangeAlone
<1> QED
  BY <1>1, OwnAnswerOfOne, PTL

\* Replies are octets, whatever was asked.
LEMMA ReplyOctets == ResolverFits => RepliesAreOctets
<1> SUFFICES ASSUME ResolverFits, NEW k \in Pipeliner, NEW i \in DOMAIN Pipeline[k]
             PROVE  HandleQuery(Pipeline[k][i], 0) \in Octets
  BY DEF RepliesAreOctets, Octets
<1> DEFINE o == Pipeline[k][i]
           resp == HandleQuery(o, 0)
<1>1. o \in Octets
  BY PipelineFacts DEF Messages
<1> HIDE DEF o
<1>2. CASE resp = Nil
  BY <1>2, EmptyOctets DEF Nil, o
<1>3. CASE resp # Nil
  <2>1. Echo(resp)
    BY <1>1, <1>3, ReplyGood
  <2> QED
    BY <2>1 DEF Echo, o
<1> QED
  BY <1>2, <1>3

\* For any peers and any messages, framed and sent in whatever pieces: what a
\* peer of serveConn has received is a beginning of the framed replies to its
\* own messages in their order, whole or not, and nothing follows the first
\* message that gets none.
THEOREM OrderedReplies == ASSUME ResolverFits PROVE Spec => []RepliesInOrder
<1>1. RepliesAreOctets
  BY ReplyOctets
<1> QED
  BY <1>1, OrderedOctets, PTL
===============================================================================
