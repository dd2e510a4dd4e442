----------------------------- MODULE Answering -----------------------------
(***************************************************************************)
(* Questions answered while the store changes: Resolver.Resolve over the   *)
(* store, with the lookup and the read of the serial as separate calls     *)
(* between which other goroutines may write.  The goroutines of Asker      *)
(* resolve; the rest of Proc make the calls of Ops, as the update API does *)
(* for its clients.                                                        *)
(*                                                                         *)
(* moments and kept are history variables.                                 *)
(***************************************************************************)
EXTENDS ZoneStore, Resolver

CONSTANTS
    Asker,      \* goroutines that resolve questions
    Question,   \* the questions asked: [name, type, class]
    MaxWrites   \* bound: calls of Ops in a behaviour

ASSUME AskerAssumption == Asker \subseteq Proc /\ MaxWrites \in Nat

\* What the decoder makes of a question, a trailing dot allowed.  A name with
\* an empty label elsewhere comes from a label with a dot in it; the encoder
\* refuses to echo it, and mustEncode sends SERVFAIL in place of its answer.
ASSUME QuestionAssumption ==
    \A q \in Question :
      /\ q.name \in Name /\ q.type \in QType /\ q.class \in QClass
      /\ \A i \in DOMAIN q.name : q.name[i] = "" => i = Len(q.name)

RelativeOf(q) == Relative(CanonicalName(q.name))

\* magic.Extract returns an address or none for every name it is asked for.
ASSUME MagicAssumption ==
    \A q \in Question :
      ~ AnsweredByConfig(q) => Magic[RelativeOf(q)] \in Addr \cup {NoAddr}

Fits(r) ==
    /\ r.type = "A" => Is4(r.addr)
    /\ r.type = "AAAA" => r.addr.fam = "v6"

\* The update API, whose calls these are, stores addresses of the type's
\* family only (UpdateAPI's StoredIsEncodable).
ASSUME FitAssumption == \A o \in Ops : o.op = "Set" => Fits(o.rec)

VARIABLES
    ask,      \* each asker's question, where it stands and what it found
    written,  \* calls of Ops made so far
    moments,  \* history: what readers could see since it was asked, in order
    kept      \* history: what callers could rely on all that time

askVars == << ask, written, moments, kept >>

NotAsked == [at |-> "idle"]

AskInit ==
    /\ Init
    /\ ask = [g \in Asker |-> NotAsked]
    /\ written = 0
    /\ moments = [g \in Asker |-> << >>]
    /\ kept = [g \in Asker |-> {}]

Watch ==
    /\ moments' = [g \in Asker |->
                     IF ask'[g].at = "idle" THEN << >>
                     ELSE IF ask[g].at = "idle" THEN << visible' >>
                     ELSE IF visible' = visible THEN moments[g]
                     ELSE Append(moments[g], visible')]
    /\ kept' = [g \in Asker |->
                  IF ask'[g].at = "idle" THEN {}
                  ELSE IF ask[g].at = "idle" THEN acked'
                  ELSE kept[g] \cap acked']

Answer(g, q, res, s) ==
    ask' = [ask EXCEPT ![g] = [at |-> "answer", q |-> q, msg |-> Message(res, s)]]

\* Resolve begins: it calls Lookup, or Serial for the apex's SOA, or neither.
Ask(g, q) ==
    /\ phase = "up"
    /\ ask[g] = NotAsked
    /\ \/ /\ ~ AnsweredByConfig(q)
          /\ Call(g, LookupCall(RelativeOf(q)))
          /\ ask' = [ask EXCEPT ![g] = [at |-> "lookup", q |-> q]]
       \/ /\ AnsweredByConfig(q)
          /\ ConfigAnswer(q).soa # "none"
          /\ Call(g, SerialCall)
          /\ ask' = [ask EXCEPT ![g] =
                       [at |-> "serial", q |-> q, res |-> ConfigAnswer(q)]]
       \/ /\ AnsweredByConfig(q)
          /\ ConfigAnswer(q).soa = "none"
          /\ Answer(g, q, ConfigAnswer(q), 0)
          /\ UNCHANGED vars
    /\ UNCHANGED written
    /\ Watch

\* Lookup returned; a negative answer reads the serial for its SOA.
LookedUp(g) ==
    /\ ask[g].at = "lookup"
    /\ pc[g] = "done"
    /\ LET q   == ask[g].q
           res == StoreAnswer(q, ret[g].recs)
       IN  \/ /\ res.soa = "none"
              /\ Return(g)
              /\ Answer(g, q, res, 0)
           \/ /\ res.soa # "none"
              /\ CallAgain(g, SerialCall)
              /\ ask' = [ask EXCEPT ![g] = [at |-> "serial", q |-> q, res |-> res]]
    /\ UNCHANGED written
    /\ Watch

SerialRead(g) ==
    /\ ask[g].at = "serial"
    /\ pc[g] = "done"
    /\ Return(g)
    /\ Answer(g, ask[g].q, ask[g].res, ret[g].serial)
    /\ UNCHANGED written
    /\ Watch

Answered(g) ==
    /\ ask[g].at = "answer"
    /\ ask' = [ask EXCEPT ![g] = NotAsked]
    /\ UNCHANGED << vars, written >>
    /\ Watch

Resolving(g) == LookedUp(g) \/ SerialRead(g) \/ Answered(g)

StoreStep(g) == Step(g) /\ UNCHANGED << ask, written >> /\ Watch

Boot ==
    /\ Start \/ SeedCall \/ SeedReturn \/ Listen
    /\ UNCHANGED << ask, written >>
    /\ Watch

Halt ==
    /\ Stop
    /\ ask' = [g \in Asker |-> NotAsked]
    /\ UNCHANGED written
    /\ Watch

Write(g) ==
    /\ \/ Return(g) /\ UNCHANGED written
       \/ /\ written < MaxWrites
          /\ written' = written + 1
          /\ \E o \in Ops : Call(g, o)
    /\ UNCHANGED ask
    /\ Watch

AskNext ==
    \/ \E g \in Asker, q \in Question : Ask(g, q)
    \/ \E g \in Asker : Resolving(g)
    \/ \E g \in Proc \ Asker : Write(g)
    \/ \E g \in Goroutine : StoreStep(g)
    \/ Boot
    \/ Halt

AskSpec == AskInit /\ [][AskNext]_<< vars, askVars >>

\* The scheduler runs the resolving goroutines and the store's calls (see
\* ZoneStore).
AskFairSpec ==
    /\ AskSpec
    /\ \A g \in Asker : WF_<< vars, askVars >>(Resolving(g))
    /\ \A g \in Goroutine : SF_<< vars, askVars >>(StoreStep(g))

(***************************************************************************)
(* Properties.                                                             *)
(***************************************************************************)
Replying(g) == ask[g].at = "answer"

\* The store decides: in zone, in class, below the apex, and not the name
\* server's own name where --apex answers for it.
StoreDecides(q) ==
    /\ q.class # "CH"
    /\ Under(CanonicalName(q.name), Zone)
    /\ ~ (CanonicalName(q.name) = NSHost /\ ApexA # NoAddr)

\* Read your writes: a record whose registration returned before a question
\* was asked, and that nobody has touched since, is the answer to that
\* question, alone and with its own data, whatever address the name's labels
\* or the fallback would give, whatever other names are written meanwhile,
\* and across restarts (Resolve, resolver.go:70-95).
RegisteredIsAnswered ==
    \A g \in Asker : Replying(g) =>
      \A p \in kept[g] :
        LET q == ask[g].q IN
        (StoreDecides(q) /\ p.recs # {}
          /\ CanonicalName(q.name) = p.name \o Zone /\ q.type = p.type) =>
          \A r \in p.recs :
            /\ ask[g].msg.rcode = "NOERROR"
            /\ {rr.data : rr \in ask[g].msg.answers} =
                 {IF r.type = "TXT" THEN [strings |-> r.txt] ELSE r.addr}
            /\ \A rr \in ask[g].msg.answers :
                 rr.type = r.type /\ (r.ttl # 0 => rr.ttl = r.ttl)

\* Every answer is true of one moment while it was computed, and the serial
\* it carries belongs to that moment or a later one, never an earlier one: a
\* negative answer cannot name a serial older than the lookup it reports.
AnswerOfOneMoment ==
    \A g \in Asker : (Replying(g) /\ StoreDecides(ask[g].q)) =>
      \E i \in DOMAIN moments[g] : \E j \in i..Len(moments[g]) :
        ask[g].msg = Message(StoreAnswer(ask[g].q,
                                         At(moments[g][i].records, RelativeOf(ask[g].q))),
                             moments[g][j].serial)

Now(q) ==
    IF AnsweredByConfig(q) THEN ConfigAnswer(q)
    ELSE StoreAnswer(q, At(visible.records, RelativeOf(q)))

\* A name exists for every type or for none: in no state of the store does a
\* question get NXDOMAIN while the same name answers or gives NODATA to a
\* question of another type (docs/resolution.md, NODATA vs NXDOMAIN).
NameErrorIsForAllTypes ==
    \A q1, q2 \in Question :
      (q1.name = q2.name /\ q1.class = q2.class /\ Now(q1).rcode = "NXDOMAIN")
        => Now(q2).rcode = "NXDOMAIN"

\* What a caching resolver needs: exactly the answers without records carry
\* the SOA in authority (REFUSED carries nothing), every record is for the
\* asked name, holds an address of its type's family and may be cached.
MessageIsSound ==
    \A g \in Asker : Replying(g) =>
      LET m == ask[g].msg IN
      /\ (m.authority # {}) <=> (m.rcode # "REFUSED" /\ m.answers = {})
      /\ m.rcode # "NOERROR" => m.answers = {}
      /\ \A rr \in m.answers \cup m.authority :
           rr.ttl > 0 /\ Under(<< "" >> \o rr.name, Zone)
      /\ \A rr \in m.answers :
           /\ rr.name = CanonicalName(ask[g].q.name)
           /\ rr.type = "A" => Is4(rr.data)
           /\ rr.type = "AAAA" => rr.data.fam = "v6"

\* Every question that reaches the store is answered, unless the process
\* stops.
QuestionsAnswered ==
    \A g \in Asker :
      ask[g].at \in {"lookup", "serial"} ~> ask[g].at \in {"answer", "idle"}
=============================================================================
