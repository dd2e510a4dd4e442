------------------------------- MODULE Server ------------------------------
(***************************************************************************)
(* The DNS server (internal/server) in the life of the process that runs   *)
(* it (runServe), and the query client (internal/cli/query.go) and other   *)
(* programs that talk to it.  Datagrams are lost, duplicated and           *)
(* reordered; a TCP peer sends its octets in pieces, stops, or goes away;  *)
(* a socket may fail.  How a question is answered is a parameter.          *)
(*                                                                         *)
(* failed is a history variable.                                           *)
(***************************************************************************)
EXTENDS WireMessages, FiniteSets

CONSTANTS
    Resolve(_),   \* Resolver.Resolve: a question's [rcode, answers, authority]
    UDPLimit,     \* dnswire.MaxUDPPayload
    BufSize,      \* the 4096 octets of the UDP read buffer
    UdpClient,    \* `hostwild query` processes
    TcpClient,    \* `hostwild query --tcp` processes
    Asked,        \* what each of them asks: [name, type]
    Ids,          \* the identifiers that they draw from
    Pipeliner,    \* other TCP clients
    Pipeline,     \* the messages each of these sends
    Stray,        \* datagrams of unknown origin
    Stranger,     \* where they come from
    Cast,         \* bound: who takes part in a behaviour, a set of sets
    Break,        \* bound: octets that a peer may have left when it pauses
    MaxFailures,  \* bound: sockets that fail
    Slot,         \* bound: UDP handlers that run at a time
    WriteAhead    \* the octets a TCP peer may leave unread

Client == UdpClient \cup TcpClient
Peer   == TcpClient \cup Pipeliner
Address == UdpClient \cup {Stranger}
Loop   == {"udp", "tcp", "http"}

\* The lengths that 16 bits tell apart.
FrameSpan == 65536

ASSUME ClientAssumption ==
    /\ UdpClient \cap TcpClient = {}
    /\ TcpClient \cap Pipeliner = {}
    /\ Stranger \notin UdpClient

\* What a pipelining client frames has a length that a prefix can tell.
ASSUME PipelineAssumption ==
    \A k \in Pipeliner :
      /\ Pipeline[k] \in Seq(Seq(Byte))
      /\ \A i \in DOMAIN Pipeline[k] : Len(Pipeline[k][i]) < FrameSpan

\* Names and datagrams are octets; a header and a question fit a datagram, as
\* 12 + 255 + 4 octets fit 512, and one name is spelled with no more than one
\* hop.
ASSUME TrafficAssumption ==
    /\ Stray \subseteq Octets /\ Ids \subseteq Word16
    /\ \A c \in Client : Asked[c].name \in Octets /\ Asked[c].type \in Word16
    /\ UDPLimit \in Nat /\ BufSize \in Nat /\ UDPLimit <= BufSize
    /\ 16 + MaxNameWire <= UDPLimit /\ UDPLimit < FrameSpan
    /\ MaxPointerHops >= 1

(***************************************************************************)
(* HandleQuery.                                                            *)
(***************************************************************************)
FormErr  == 1
ServFail == 2
NotImp   == 4

Nil == << >>

\* Mutant: a refusal is not marked as a response.
PlainUnmarked(id, rcode) ==
    [header |-> [id |-> id, qr |-> FALSE, opcode |-> 0, aa |-> FALSE, tc |-> FALSE,
                 rd |-> FALSE, ra |-> FALSE, rcode |-> rcode],
     questions |-> << >>, answers |-> << >>, authority |-> << >>, additional |-> << >>]

Plain(id, rcode) ==
    [header |-> [id |-> id, qr |-> TRUE, opcode |-> 0, aa |-> FALSE, tc |-> FALSE,
                 rd |-> FALSE, ra |-> FALSE, rcode |-> rcode],
     questions |-> << >>, answers |-> << >>, authority |-> << >>, additional |-> << >>]

MustEncode(m) ==
    LET orServFail(b) == IF b.err = "nil" THEN b.buf
                         ELSE Encode(Plain(m.header.id, ServFail)).buf
    IN  orServFail(Encode(m))

\* The response before it is encoded.
Response(m) ==
    LET h   == [m.header EXCEPT !.qr = TRUE, !.aa = TRUE, !.tc = FALSE, !.ra = FALSE]
        res == Resolve(m.questions[1])
        empty(rcode) == [Plain(h.id, 0) EXCEPT !.header = [h EXCEPT !.rcode = rcode]]
    IN  IF h.opcode # 0 THEN empty(NotImp)
        ELSE IF Len(m.questions) # 1 THEN empty(FormErr)
        ELSE [empty(res.rcode) EXCEPT !.questions = m.questions,
                                      !.answers = res.answers,
                                      !.authority = res.authority]

Truncated(resp) ==
    [resp EXCEPT !.answers = << >>, !.authority = << >>, !.additional = << >>,
                 !.header.tc = TRUE]

HandleQuery(req, limit) ==
    LET fit(resp, out) == IF limit > 0 /\ Len(out) > limit
                          THEN MustEncode(Truncated(resp)) ELSE out
        answer(resp) == fit(resp, MustEncode(resp))
        verdict(dec) ==
          IF dec.err # "nil" THEN MustEncode(Plain(Word(req), FormErr))
          ELSE IF dec.msg.header.qr THEN Nil
          ELSE answer(Response(dec.msg))
    IN  IF Len(req) < 12 THEN Nil ELSE verdict(Decode(req))

\* A message as it is sent over TCP; the length is cut to 16 bits.
Frame(octets) == U16(Len(octets)) \o octets

\* What a pipelining client sends.
Stream(k) == FlattenSeq([i \in DOMAIN Pipeline[k] |-> Frame(Pipeline[k][i])])

(***************************************************************************)
(* State.                                                                  *)
(***************************************************************************)
VARIABLES
    main,    \* where runServe stands
    status,  \* what it returns
    done,    \* Server.done
    open,    \* the sockets that are open
    loop,    \* where each Serve loop stands
    errs,    \* the channel errs
    failed,  \* history: sockets that failed
    query,   \* the query processes
    wire,    \* datagrams sent to the server; each may arrive any number of times
    buf,     \* the read buffer of ServeUDP
    hand,    \* the goroutines that ServeUDP started
    back,    \* datagrams sent to each address
    conn,    \* serveConn, for each peer
    left,    \* octets a peer has still to send
    up,      \* octets sent and not yet read by the server
    down,    \* octets written and not yet read by the peer
    seen     \* octets the peer has read

procVars == << main, status, done, open, loop, errs, failed >>
udpVars  == << wire, buf, hand, back >>
tcpVars  == << conn, left, up, down, seen >>
vars     == << procVars, query, udpVars, tcpVars >>

Free == [at |-> "free"]
Unasked == [at |-> "idle"]
Away == [at |-> "away"]
NoConn == [at |-> "none"]

Init ==
    /\ main = "boot" /\ status = "none"
    /\ done = FALSE /\ open = {} /\ failed = {}
    /\ loop = [l \in Loop |-> "off"]
    /\ errs = << >>
    /\ \E there \in Cast :
         /\ query = [c \in Client |-> IF c \in there THEN Unasked ELSE Away]
         /\ wire = {[from |-> Stranger, octets |-> s] :
                      s \in IF Stranger \in there THEN Stray ELSE {}}
         /\ left = [k \in Peer |-> IF k \in Pipeliner \cap there THEN Stream(k) ELSE << >>]
    /\ buf = << >>
    /\ hand = [i \in Slot |-> Free]
    /\ back = [a \in Address |-> {}]
    /\ conn = [k \in Peer |-> NoConn]
    /\ up = [k \in Peer |-> << >>]
    /\ down = [k \in Peer |-> << >>]
    /\ seen = [k \in Peer |-> << >>]

(***************************************************************************)
(* The life of the process.  os.Exit follows runServe.                     *)
(***************************************************************************)
Alive == main \notin {"boot", "exited"}

\* ListenUDP and ListenTCP, and the goroutines of the two loops.
Listen ==
    /\ main = "boot"
    /\ main' = "http"
    /\ open' = {"udp", "tcp"}
    /\ loop' = [loop EXCEPT !["udp"] = "read", !["tcp"] = "read"]
    /\ UNCHANGED << status, done, errs, failed, query, udpVars, tcpVars >>

\* An address is in use: runServe returns before a loop has started.
ListenFails ==
    /\ main = "boot"
    /\ main' = "exited"
    /\ status' = "runtime"
    /\ UNCHANGED << done, open, loop, errs, failed, query, udpVars, tcpVars >>

\* With --no-http there is nothing to listen on.
ListenHTTP ==
    /\ main = "http"
    /\ \/ /\ main' = "wait"
          /\ open' = open \cup {"http"}
          /\ loop' = [loop EXCEPT !["http"] = "read"]
          /\ UNCHANGED status
       \/ /\ main' = "wait"
          /\ UNCHANGED << status, open, loop >>
       \/ /\ main' = "close"
          /\ status' = "runtime"
          /\ UNCHANGED << open, loop >>
    /\ UNCHANGED << done, errs, failed, query, udpVars, tcpVars >>

\* ReadFrom or Accept fails, or finds its socket closed.
SocketFails(l) ==
    /\ Alive
    /\ loop[l] = "read"
    /\ \/ l \in open /\ Cardinality(failed) < MaxFailures /\ failed' = failed \cup {l}
       \/ l \notin open /\ UNCHANGED failed
    /\ loop' = [loop EXCEPT ![l] = "check"]
    /\ UNCHANGED << main, status, done, open, errs, query, udpVars, tcpVars >>

\* Server.closed; httpSrv.Serve returns ErrServerClosed, which is no error.
Closed(l) == IF l = "http" THEN l \notin open ELSE done

\* Mutant: the goroutine of the HTTP server only logs why it ended.
LoopReturnsUnreported(l) ==
    /\ Alive
    /\ loop[l] = "check"
    /\ loop' = [loop EXCEPT ![l] = "ended"]
    /\ errs' = IF l = "http" THEN errs
               ELSE Append(errs, [from |-> l, err |-> IF Closed(l) THEN "nil" ELSE "error"])
    /\ UNCHANGED << main, status, done, open, failed, query, udpVars, tcpVars >>

\* The loop returns and its goroutine sends the error; errs has room for all.
LoopReturns(l) ==
    /\ Alive
    /\ loop[l] = "check"
    /\ Len(errs) < 3
    /\ loop' = [loop EXCEPT ![l] = "ended"]
    /\ errs' = Append(errs, [from |-> l, err |-> IF Closed(l) THEN "nil" ELSE "error"])
    /\ UNCHANGED << main, status, done, open, failed, query, udpVars, tcpVars >>

ReceiveError ==
    /\ main = "wait"
    /\ errs # << >>
    /\ status' = IF Head(errs).err = "nil" THEN "ok" ELSE "runtime"
    /\ main' = "close"
    /\ UNCHANGED << done, open, loop, errs, failed, query, udpVars, tcpVars >>

\* Mutant: done is not set.
CloseSocketsOnly ==
    /\ main = "close"
    /\ open' = {}
    /\ main' = "closed"
    /\ UNCHANGED << done, status, loop, errs, failed, query, udpVars, tcpVars >>

\* The deferred calls: httpSrv.Close, and Server.Close under its mutex.
Close ==
    /\ main = "close"
    /\ done' = TRUE
    /\ open' = {}
    /\ main' = "closed"
    /\ UNCHANGED << status, loop, errs, failed, query, udpVars, tcpVars >>

Exit ==
    /\ main = "closed"
    /\ main' = "exited"
    /\ UNCHANGED << status, done, open, loop, errs, failed, query, udpVars, tcpVars >>

(***************************************************************************)
(* UDP.                                                                    *)
(***************************************************************************)
Received(octets) == SubSeq(octets, 1, Min({BufSize, Len(octets)}))

\* ServeUDP reads a datagram into buf, copies it and starts a goroutine.
ReadDatagram(i, d) ==
    /\ Alive
    /\ loop["udp"] = "read" /\ "udp" \in open
    /\ hand[i] = Free
    /\ buf' = Received(d.octets)
    /\ hand' = [hand EXCEPT ![i] = [at |-> "run", from |-> d.from, req |-> buf']]
    /\ UNCHANGED << procVars, query, wire, back, tcpVars >>

\* Mutant: the goroutine works on the buffer that the loop reads into.
RequestInBuffer(i) == SubSeq(buf, 1, Min({Len(buf), Len(hand[i].req)}))

RequestOf(i) == hand[i].req

\* HandleQuery and WriteTo; a write to a closed socket is only logged.
AnswerDatagram(i) ==
    /\ Alive
    /\ hand[i].at = "run"
    /\ LET sent == {HandleQuery(RequestOf(i), UDPLimit)} \ {Nil} IN
       back' = IF "udp" \in open
               THEN [back EXCEPT ![hand[i].from] = @ \cup sent] ELSE back
    /\ hand' = [hand EXCEPT ![i] = Free]
    /\ UNCHANGED << procVars, query, wire, buf, tcpVars >>

(***************************************************************************)
(* TCP.                                                                    *)
(***************************************************************************)
Accept(k) ==
    /\ Alive
    /\ loop["tcp"] = "read" /\ "tcp" \in open
    /\ conn[k] = NoConn
    /\ left[k] # << >>
    /\ conn' = [conn EXCEPT ![k] = [at |-> "prefix"]]
    /\ UNCHANGED << procVars, query, udpVars, left, up, down, seen >>

ReadPrefix(k) ==
    /\ Alive
    /\ conn[k].at = "prefix"
    /\ Len(up[k]) >= 2
    /\ conn' = [conn EXCEPT ![k] = [at |-> "body", need |-> Word(up[k])]]
    /\ up' = [up EXCEPT ![k] = SubSeq(@, 3, Len(@))]
    /\ UNCHANGED << procVars, query, udpVars, left, down, seen >>

\* Mutant: a buffered reader per message, and what it read ahead is lost.
RestDiscarded(s, need) == << >>

Rest(s, need) == SubSeq(s, need + 1, Len(s))

ReadBody(k) ==
    /\ Alive
    /\ conn[k].at = "body"
    /\ Len(up[k]) >= conn[k].need
    /\ LET then(resp) == IF resp = Nil THEN [at |-> "closed"]
                         ELSE [at |-> "write", resp |-> resp]
       IN  conn' = [conn EXCEPT ![k] =
                      then(HandleQuery(SubSeq(up[k], 1, conn[k].need), 0))]
    /\ up' = [up EXCEPT ![k] = Rest(@, conn[k].need)]
    /\ UNCHANGED << procVars, query, udpVars, left, down, seen >>

\* Write blocks while the peer does not read; it has no deadline.
WriteReply(k) ==
    /\ Alive
    /\ conn[k].at = "write"
    /\ Len(down[k]) < WriteAhead
    /\ down' = [down EXCEPT ![k] = @ \o Frame(conn[k].resp)]
    /\ conn' = [conn EXCEPT ![k] = [at |-> "prefix"]]
    /\ UNCHANGED << procVars, query, udpVars, left, up, seen >>

\* Mutant: the deadline is for the length prefix only.
DeadlineOnPrefix(k) == conn[k].at = "prefix"

\* One deadline for the prefix and the message.
Deadline(k) == conn[k].at \in {"prefix", "body"}

\* The deadline passes, or the peer is gone.
ReadFails(k) ==
    /\ Alive
    /\ Deadline(k)
    /\ conn' = [conn EXCEPT ![k] = [at |-> "closed"]]
    /\ UNCHANGED << procVars, query, udpVars, left, up, down, seen >>

\* The peer is gone.
WriteFails(k) ==
    /\ Alive
    /\ conn[k].at = "write"
    /\ conn' = [conn EXCEPT ![k] = [at |-> "closed"]]
    /\ UNCHANGED << procVars, query, udpVars, left, up, down, seen >>

(***************************************************************************)
(* The clients.                                                            *)
(***************************************************************************)
NewQuery(id, a) ==
    [Plain(id, 0) EXCEPT
       !.header.qr = FALSE, !.header.rd = TRUE,
       !.questions = << [name |-> CanonicalName(a.name), type |-> a.type, class |-> 1] >>]

StartQuery(c) ==
    /\ query[c] = Unasked
    /\ \E id \in Ids :
         LET b == Encode(NewQuery(id, Asked[c])) IN
         IF b.err # "nil"
         THEN query' = [query EXCEPT ![c] = [at |-> "error"]] /\ UNCHANGED << wire, left >>
         ELSE /\ query' = [query EXCEPT ![c] = [at |-> "wait", id |-> id]]
              /\ IF c \in TcpClient
                 THEN left' = [left EXCEPT ![c] = Frame(b.buf)] /\ UNCHANGED wire
                 ELSE /\ wire' = wire \cup {[from |-> c, octets |-> b.buf]}
                      /\ UNCHANGED left
    /\ UNCHANGED << procVars, buf, hand, back, conn, up, down, seen >>

\* What runQuery makes of a response.
Outcome(id, resp) ==
    LET printed(dec) ==
          IF dec.err # "nil" THEN [at |-> "error"]
          ELSE IF dec.msg.header.id # id THEN [at |-> "error"]
          ELSE [at |-> "printed", tc |-> dec.msg.header.tc,
                rcode |-> dec.msg.header.rcode,
                answers |-> dec.msg.answers, authority |-> dec.msg.authority]
    IN  printed(Decode(resp))

\* exchange: the first datagram back, or the first frame.
Responses(c) ==
    IF c \in UdpClient THEN back[c]
    ELSE IF Len(seen[c]) < 2 THEN {}
    ELSE {SubSeq(seen[c], 3, n) : n \in {2 + Word(seen[c])} \cap 2..Len(seen[c])}

EndQuery(c) ==
    /\ query[c].at = "wait"
    /\ \/ \E resp \in Responses(c) :
            query' = [query EXCEPT ![c] = Outcome(@.id, resp)]
       \/ query' = [query EXCEPT ![c] = [at |-> "error"]]     \* timeout
    /\ UNCHANGED << procVars, udpVars, tcpVars >>

\* Some or all of what is left; a peer may as well send no more.
PeerSends(k) ==
    /\ conn[k].at \notin {"none", "closed"}
    /\ left[k] # << >>
    /\ \E n \in {m \in 1..Len(left[k]) : Len(left[k]) - m \in Break \cup {0}} :
         /\ up' = [up EXCEPT ![k] = @ \o SubSeq(left[k], 1, n)]
         /\ left' = [left EXCEPT ![k] = SubSeq(@, n + 1, Len(@))]
    /\ UNCHANGED << procVars, query, udpVars, conn, down, seen >>

PeerReads(k) ==
    /\ down[k] # << >>
    /\ seen' = [seen EXCEPT ![k] = @ \o down[k]]
    /\ down' = [down EXCEPT ![k] = << >>]
    /\ UNCHANGED << procVars, query, udpVars, conn, left, up >>

(***************************************************************************)
(* The specification.                                                      *)
(***************************************************************************)
Next ==
    \/ Listen
    \/ ListenFails
    \/ ListenHTTP
    \/ \E l \in Loop : SocketFails(l) \/ LoopReturns(l)
    \/ ReceiveError
    \/ Close
    \/ Exit
    \/ \E i \in Slot, d \in wire : ReadDatagram(i, d)
    \/ \E i \in Slot : AnswerDatagram(i)
    \/ \E k \in Peer : Accept(k) \/ ReadPrefix(k) \/ ReadBody(k) \/ WriteReply(k)
    \/ \E k \in Peer : ReadFails(k) \/ WriteFails(k)
    \/ \E k \in Peer : PeerSends(k) \/ PeerReads(k)
    \/ \E c \in Client : StartQuery(c) \/ EndQuery(c)

Spec == Init /\ [][Next]_vars

\* The scheduler runs every goroutine that is ready, the timer of a deadline
\* fires, and a TCP peer goes on taking what it is sent.  Nothing is assumed
\* of datagrams, of what clients send, of reads that succeed, or of sockets
\* failing.
FairSpec ==
    /\ Spec
    /\ WF_vars(ListenHTTP) /\ WF_vars(ReceiveError) /\ WF_vars(Close) /\ WF_vars(Exit)
    /\ \A l \in Loop : WF_vars(LoopReturns(l))
    /\ \A k \in Peer :
         WF_vars(ReadFails(k)) /\ WF_vars(WriteReply(k)) /\ WF_vars(PeerReads(k))

(***************************************************************************)
(* Properties.                                                             *)
(***************************************************************************)
\* What c prints, p, is what the resolver says of c's question, or nothing but
\* a hint to use TCP.
IsAnswerTo(c, p) ==
    LET res == Resolve([name |-> CanonicalName(Asked[c].name),
                        type |-> Asked[c].type, class |-> 1])
    IN  /\ p.rcode = res.rcode
        /\ \/ p.answers = res.answers /\ p.authority = res.authority /\ ~ p.tc
           \/ p.answers = << >> /\ p.authority = << >> /\ p.tc /\ c \in UdpClient

\* What a resolver owes the codec: of a question, records that fit a message,
\* with no more names in it than the hop limit.
AnswerFits(q) ==
    LET res == Resolve(q) IN
    /\ res.rcode \in 0..15
    /\ res.answers \in Seq(DnsRecord) /\ res.authority \in Seq(DnsRecord)
    /\ Shallow([Plain(0, 0) EXCEPT !.questions = << q >>, !.answers = res.answers,
                                   !.authority = res.authority])

\* What it owes a query client: records as a reader of octets prints them, in
\* lower case, and a response that can be encoded and, over TCP, framed.
AnswerTravels(c) ==
    LET res == Resolve([name |-> CanonicalName(Asked[c].name),
                        type |-> Asked[c].type, class |-> 1])
    IN  /\ LowerRecords(res.answers) = res.answers
        /\ LowerRecords(res.authority) = res.authority
        /\ \A id \in Ids :
             LET m == NewQuery(id, Asked[c])
                 b == Encode(Response(m))
             IN  Encode(m).err = "nil" =>
                   b.err = "nil" /\ (c \in TcpClient => Len(b.buf) < FrameSpan)

\* A query client prints the answer to the question it asked, or the hint:
\* never another client's answer, although all requests pass through one
\* buffer, identifiers may be the same, datagrams are duplicated and overtake
\* each other, and TCP brings requests and replies in pieces.
PrintsItsOwnAnswer ==
    \A c \in Client : query[c].at = "printed" => IsAnswerTo(c, query[c])

\* The framed replies to what a peer sends, up to the first message that
\* gets none.
Owed ==
    LET framed(resps) ==
          LET stop == Min({i \in DOMAIN resps : resps[i] = Nil} \cup {Len(resps) + 1})
          IN  FlattenSeq([i \in 1..(stop - 1) |-> Frame(resps[i])])
    IN  [k \in Pipeliner |->
           framed([i \in DOMAIN Pipeline[k] |-> HandleQuery(Pipeline[k][i], 0)])]

\* A TCP peer that sends several queries at once, in whatever pieces, reads
\* the framed replies to exactly those queries in their order, as far as
\* the connection lasts (serveConn).
RepliesInOrder ==
    \A k \in Pipeliner : IsPrefix(seen[k] \o down[k], Owed[k])

\* Whatever arrived, what goes out over UDP fits a datagram, and would not
\* be answered if it came back: two servers that reflect each other's
\* messages fall silent (HandleQuery).
RepliesAreHarmless ==
    /\ \A a \in Address : \A resp \in back[a] :
         Len(resp) <= UDPLimit /\ HandleQuery(resp, UDPLimit) = Nil
    /\ \A k \in Peer : conn[k].at = "write" => HandleQuery(conn[k].resp, 0) = Nil

\* A loop reports an error only if its socket failed: a Serve loop that
\* Close has woken returns nil, whichever of them runs first.
ErrorsAreReal ==
    \A i \in DOMAIN errs : errs[i].err = "error" => errs[i].from \in failed

\* The process does not live on without one of its listeners: when a loop
\* has ended, runServe returns, and with a status of failure.
NeverHalfDead ==
    \A l \in Loop : loop[l] = "ended" ~> main = "exited" /\ status = "runtime"

\* A connection ends, however little its peer sends, as long as it takes the
\* replies (server.go:21 "bounds how long an idle TCP client may hold a
\* connection"), unless the process ends first.
ConnectionsEnd ==
    \A k \in Peer : conn[k].at # "none" ~> conn[k].at = "closed" \/ main = "exited"
=============================================================================
