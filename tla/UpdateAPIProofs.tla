-------------------------- MODULE UpdateAPIProofs --------------------------
(***************************************************************************)
(* Proofs about UpdateAPI and its clients (ApiClient): what requests do to *)
(* the store and what they are answered, for every set of handlers, every  *)
(* set of requests in whatever order and number they arrive, and every     *)
(* configuration; and that the program's own clients and its API agree.    *)
(***************************************************************************)
EXTENDS ApiClient, ZoneStoreProofs

apiAll == << storeVars, apiVars >>

(***************************************************************************)
(* Requests and the calls they make.                                       *)
(***************************************************************************)
ApiRecord == {r \in Record : Encodable(r)}

ApiOps == {o \in Op : o.op = "Set" => o.rec \in ApiRecord}

\* The names the handlers build are names.
LEMMA OwnerType == ASSUME NEW r \in Request PROVE Owner(r) \in Name
<1> DEFINE m   == TrimDot(ToLower(r.name))
           raw == IF Under(m, Zone) THEN Left(m, Zone) ELSE m
<1>1. m \in Name
  BY RequestAssumption, ToLowerType, TrimDotType DEF RequestAssumption
<1>2. Under(m, Zone) => Left(m, Zone) \in Name
  BY <1>1, ZoneType, LeftOfZone
<1>3. "" \in Label /\ AcmePrefix \in Label
  BY LabelAssumption, ApiAssumption, ValidLabelAssumption
  DEF LabelAssumption, ApiAssumption, ValidLabelAssumption
<1>4. EmptyName \in Name
  BY <1>3, OneLabel DEF EmptyName
<1>5. RelName(r.name) \in Name
  BY <1>1, <1>2, <1>4 DEF RelName
<1>6. raw \in Name
  BY <1>1, <1>2
<1> HIDE DEF m, raw
<1>7. << AcmePrefix >> \in Name /\ << AcmePrefix >> # << >>
  BY <1>3, OneLabel
<1>8. << AcmePrefix >> \o raw \in Name
  BY <1>6, <1>7, ConcatProperties DEF Name
<1>9. AcmeOwner(r.name) \in {<< AcmePrefix >>, << AcmePrefix >> \o raw}
  BY DEF AcmeOwner, m, raw
<1> QED
  BY <1>5, <1>7, <1>8, <1>9 DEF Owner

\* What a PUT stores, the encoder can encode.
LEMMA PutRecordFits ==
    ASSUME NEW r \in Request, PutRecord(r) # NoRecord
    PROVE  /\ PutRecord(r) \in ApiRecord
           /\ r.route # "record" => PutRecord(r).type = "TXT"
<1> DEFINE b == r.body
<1>1. b.kind = "json"
  BY DEF PutRecord
<1>2. b.addr \in Addr \cup {NoAddr} /\ b.txt \in Text /\ b.ttl \in Nat
  BY <1>1, RequestAssumption DEF RequestAssumption
<1>3. ASSUME NEW t \in ValidText, NEW ttl \in Nat
      PROVE  TxtRecord(t, ttl) \in ApiRecord /\ TxtRecord(t, ttl).type = "TXT"
  <2>1. t \in Text
    BY <1>3, ApiAssumption DEF ApiAssumption
  <2>2. << t >> \in Seq(Text) /\ Len(<< t >>) = 1 /\ << t >>[1] = t
    BY <2>1
  <2>3. TxtRecord(t, ttl) \in Record
    BY <2>2 DEF TxtRecord, Record
  <2>4. Encodable(TxtRecord(t, ttl))
    BY <2>2 DEF TxtRecord, Encodable
  <2> QED
    BY <2>3, <2>4 DEF ApiRecord, TxtRecord
<1>4. ASSUME NEW a \in Addr, NEW type \in {"A", "AAAA"}, NEW ttl \in Nat,
             type = "A" => Is4(a), type = "AAAA" => a.fam = "v6"
      PROVE  AddrRecord(type, a, ttl) \in ApiRecord
  <2>1. AddrRecord(type, a, ttl) \in Record
    BY DEF AddrRecord, Record
  <2>2. Encodable(AddrRecord(type, a, ttl))
    BY <1>4 DEF AddrRecord, Encodable
  <2> QED
    BY <2>1, <2>2 DEF ApiRecord
<1> HIDE DEF b
<1>5. CASE r.route = "record"
  <2>1. PutRecord(r) = BuildRecord(b) /\ BuildRecord(b) # NoRecord
    BY <1>1, <1>5 DEF PutRecord, b
  <2> DEFINE type == UpperOf[b.type]
  <2>2. CASE type = "A" /\ (Is4(b.addr) \/ Is4In6(b.addr))
    <3>1. BuildRecord(b) = AddrRecord("A", Unmap(b.addr), b.ttl)
      BY <2>2 DEF BuildRecord
    <3>2. Unmap(b.addr) \in Addr /\ Is4(Unmap(b.addr))
      BY <1>2, <2>2 DEF Unmap, Is4, Is4In6, Addr, NoAddr
    <3> QED
      BY <1>2, <1>4, <1>5, <2>1, <3>1, <3>2
  <2>3. CASE type = "AAAA" /\ Is6(b.addr) /\ ~ Is4In6(b.addr)
    <3>1. BuildRecord(b) = AddrRecord("AAAA", b.addr, b.ttl)
      BY <2>3 DEF BuildRecord
    <3>2. b.addr \in Addr /\ b.addr.fam = "v6"
      BY <1>2, <2>3 DEF Is6, Is4In6, Addr, NoAddr
    <3> QED
      BY <1>2, <1>4, <1>5, <2>1, <3>1, <3>2
  <2>4. CASE type = "TXT" /\ b.txt \in ValidText
    <3>1. BuildRecord(b) = TxtRecord(b.txt, b.ttl)
      BY <2>4 DEF BuildRecord
    <3> QED
      BY <1>2, <1>3, <1>5, <2>1, <2>4, <3>1
  <2> QED
    BY <2>1, <2>2, <2>3, <2>4 DEF BuildRecord
<1>6. CASE r.route # "record"
  <2>1. b.txt \in ValidText /\ PutRecord(r) = TxtRecord(b.txt, AcmeTTL)
    BY <1>1, <1>6 DEF PutRecord, b
  <2>2. AcmeTTL \in Nat
    BY DEF AcmeTTL
  <2> QED
    BY <1>3, <2>1, <2>2
<1> QED
  BY <1>5, <1>6

\* The first call of a request that is let through.
LEMMA LetThrough ==
    ASSUME NEW r \in Request, NEW t, Verdict(r, t) = 0
    PROVE  /\ FirstCall(r) \in ApiOps
           /\ r.route = "healthz" => FirstCall(r) = SerialCall
           /\ r.route = "records" => FirstCall(r) = NamesCall
           /\ r.route \in {"record", "acme"} =>
                /\ Authenticate(r, t) = 0
                /\ Owner(r) \in Name /\ ValidName(Owner(r))
                /\ ToLower(Owner(r)) = Owner(r)
                /\ \/ /\ r.method = "PUT" /\ PutRecord(r) \in ApiRecord
                      /\ FirstCall(r) = SetCall(Owner(r), PutRecord(r))
                      /\ r.route = "acme" => PutRecord(r).type = "TXT"
                   \/ /\ r.method = "DELETE"
                      /\ FirstCall(r) =
                           DeleteCall(Owner(r), IF r.route = "record" THEN AllTypes ELSE "TXT")
<1>1. r.route \in {"healthz", "records", "record", "acme"}
  BY RequestAssumption DEF RequestAssumption
<1>2. CASE r.route = "healthz"
  <2>1. FirstCall(r) = SerialCall
    BY <1>2 DEF FirstCall
  <2>2. SerialCall \in ApiOps
    BY DEF ApiOps, SerialCall, Op
  <2> QED
    BY <1>2, <2>1, <2>2
<1>3. CASE r.route = "records"
  <2>1. FirstCall(r) = NamesCall
    BY <1>3 DEF FirstCall
  <2>2. NamesCall \in ApiOps
    BY DEF ApiOps, NamesCall, Op
  <2> QED
    BY <1>3, <2>1, <2>2
<1>4. CASE r.route \in {"record", "acme"}
  <2>1. /\ Authenticate(r, t) = 0 /\ ValidName(Owner(r))
        /\ \/ r.method = "PUT" /\ PutRecord(r) # NoRecord
           \/ r.method = "DELETE"
    BY <1>4 DEF Verdict
  <2>2. Owner(r) \in Name /\ ToLower(Owner(r)) = Owner(r)
    BY <2>1, OwnerType, ValidIsLower
  <2>3. CASE r.method = "PUT" /\ PutRecord(r) # NoRecord
    <3>1. FirstCall(r) = SetCall(Owner(r), PutRecord(r))
      BY <1>4, <2>3 DEF FirstCall
    <3>2. PutRecord(r) \in ApiRecord /\ (r.route = "acme" => PutRecord(r).type = "TXT")
      BY <2>3, PutRecordFits
    <3>3. SetCall(Owner(r), PutRecord(r)) \in ApiOps
      BY <2>2, <3>2 DEF ApiOps, ApiRecord, SetCall, Op
    <3> QED
      BY <1>4, <2>1, <2>2, <2>3, <3>1, <3>2, <3>3
  <2>4. CASE r.method = "DELETE"
    <3> DEFINE typ == IF r.route = "record" THEN AllTypes ELSE "TXT"
    <3>1. FirstCall(r) = DeleteCall(Owner(r), typ)
      BY <1>4, <2>4 DEF FirstCall
    <3>2. typ \in Type \cup {AllTypes}
      BY DEF Type
    <3> HIDE DEF typ
    <3>3. DeleteCall(Owner(r), typ) \in ApiOps
      BY <2>2, <3>2 DEF ApiOps, DeleteCall, Op
    <3> QED
      BY <1>4, <2>1, <2>2, <2>4, <3>1, <3>3 DEF typ
  <2> QED
    BY <2>1, <2>3, <2>4
<1> QED
  BY <1>1, <1>2, <1>3, <1>4

(***************************************************************************)
(* Where each handler stands.                                              *)
(***************************************************************************)
Serving(g) ==
    LET j == job[g] IN
    /\ j = [at |-> "serve", req |-> j.req, time |-> j.time,
            todo |-> j.todo, entries |-> j.entries]
    /\ j.time \in 0..MaxNow /\ Verdict(j.req, j.time) = 0
    /\ pc[g] # "idle"
    /\ \/ call[g] = FirstCall(j.req)
       \/ call[g] = SerialCall /\ j.req.route \in {"record", "acme"}
       \/ j.req.route = "records" /\ call[g].op = "Lookup" /\ call[g].name \in Name
    /\ j.todo \subseteq Name
    /\ (pc[g] = "done" /\ call[g].op = "Names") => ret[g].names \subseteq Name

Handler(g) ==
    /\ job[g].at \in {"idle", "serve", "reply"}
    /\ job[g].at # "idle" => phase = "up" /\ job[g].req \in Request
    /\ job[g].at = "serve" => Serving(g)
    /\ job[g].at # "serve" => pc[g] = "idle"

Handlers ==
    /\ job = [g \in Proc |-> job[g]]
    /\ now \in 0..MaxNow
    /\ \A g \in Proc : Handler(g)

\* A handler's call is a call of the store.
LEMMA ServingCall ==
    ASSUME NEW g \in Proc, Handler(g), job[g].at = "serve"
    PROVE  /\ call[g].op = "Set" \/ call[g].op = "Delete" =>
                /\ job[g].req.route \in {"record", "acme"}
                /\ call[g] = FirstCall(job[g].req)
           /\ call[g].op \in {"Names", "Lookup"} => job[g].req.route = "records"
           /\ call[g].op = "Lookup" => call[g].name \in Name
<1> DEFINE r == job[g].req
<1>1. /\ r \in Request /\ Verdict(r, job[g].time) = 0
      /\ \/ call[g] = FirstCall(r)
         \/ call[g] = SerialCall /\ r.route \in {"record", "acme"}
         \/ r.route = "records" /\ call[g].op = "Lookup" /\ call[g].name \in Name
  BY DEF Handler, Serving
<1>2. /\ r.route = "healthz" => FirstCall(r) = SerialCall
      /\ r.route = "records" => FirstCall(r) = NamesCall
      /\ r.route \in {"record", "acme"} =>
           \/ FirstCall(r) = SetCall(Owner(r), PutRecord(r))
           \/ FirstCall(r) =
                DeleteCall(Owner(r), IF r.route = "record" THEN AllTypes ELSE "TXT")
  BY <1>1, LetThrough
<1>3. r.route \in {"healthz", "records", "record", "acme"}
  BY <1>1, RequestAssumption DEF RequestAssumption
<1> HIDE DEF r
<1>4. /\ r.route = "healthz" => FirstCall(r).op = "Serial"
      /\ r.route = "records" => FirstCall(r).op = "Names"
      /\ r.route \in {"record", "acme"} => FirstCall(r).op \in {"Set", "Delete"}
  BY <1>2 DEF SerialCall, NamesCall, SetCall, DeleteCall
<1>5. SerialCall.op = "Serial"
  BY DEF SerialCall
<1>6. /\ call[g].op = "Set" \/ call[g].op = "Delete" =>
           r.route \in {"record", "acme"} /\ call[g] = FirstCall(r)
      /\ call[g].op \in {"Names", "Lookup"} => r.route = "records"
      /\ call[g].op = "Lookup" => call[g].name \in Name
  BY <1>1, <1>3, <1>4, <1>5
<1> QED
  BY <1>6 DEF r

\* A call, the next call and a return, to the goroutine and to the store.
LEMMA OwnCall ==
    ASSUME TypeOK, NEW g \in Proc
    PROVE  /\ \A o : Call(g, o) \/ CallAgain(g, o) => call'[g] = o /\ pc'[g] = "enter"
           /\ Return(g) => pc'[g] = "idle"
           /\ (UNCHANGED vars \/ Return(g) \/ \E o : Call(g, o) \/ CallAgain(g, o)) =>
                /\ phase' = phase /\ visible' = visible /\ acked' = acked
                /\ mu' = mu /\ records' = records /\ serial' = serial
                /\ \A h \in Goroutine : h # g =>
                     pc'[h] = pc[h] /\ call'[h] = call[h] /\ ret'[h] = ret[h]
<1>1. g \in Goroutine
  BY DEF Goroutine
<1>2. ASSUME NEW o, Call(g, o) \/ CallAgain(g, o)
      PROVE  call'[g] = o /\ pc'[g] = "enter"
  BY <1>1, <1>2 DEF Call, Enter, CallAgain, TypeOK
<1>3. ASSUME Return(g) PROVE pc'[g] = "idle"
  BY <1>1, <1>3 DEF Return, Leave, TypeOK
<1>4. ASSUME UNCHANGED vars \/ Return(g) \/ \E o : Call(g, o) \/ CallAgain(g, o)
      PROVE  /\ phase' = phase /\ visible' = visible /\ acked' = acked
             /\ mu' = mu /\ records' = records /\ serial' = serial
             /\ \A h \in Goroutine : h # g =>
                  pc'[h] = pc[h] /\ call'[h] = call[h] /\ ret'[h] = ret[h]
  BY <1>1, <1>4
  DEF vars, Return, Leave, Call, Enter, CallAgain, history, memVars, procVars, TypeOK
<1> QED
  BY <1>2, <1>3, <1>4

\* The arrival of a request, from its handler's side.
LEMMA ArriveStep ==
    ASSUME TypeOK, Handlers, NEW g \in Proc, NEW r, Arrive(g, r)
    PROVE  /\ job[g] = Idle /\ phase = "up" /\ now' = now
           /\ UNCHANGED vars \/ Call(g, FirstCall(r))
           /\ \/ /\ Verdict(r, now) = 0
                 /\ Call(g, FirstCall(r))
                 /\ job'[g] = [at |-> "serve", req |-> r, time |-> now,
                               todo |-> {}, entries |-> {}]
              \/ /\ Verdict(r, now) # 0 /\ UNCHANGED vars
                 /\ job'[g] = Reply(r, Verdict(r, now), Nothing)
<1>1. ASSUME NEW x, job' = [job EXCEPT ![g] = x] PROVE job'[g] = x
  BY <1>1 DEF Handlers
<1> QED
  BY <1>1 DEF Arrive, storeVars

\* What list has still to read, and what it has read.
Todo(g) == IF call[g].op = "Names" THEN ret[g].names ELSE job[g].todo

Listed(g) ==
    IF call[g].op = "Names" THEN {}
    ELSE job[g].entries \cup {[name |-> call[g].name, recs |-> ret[g].recs]}

\* A handler that has its result replies, or goes on with the next call.
Replies(g) ==
    /\ Return(g)
    /\ \E st, b :
         /\ job'[g] = Reply(job[g].req, st, b)
         /\ st = 404 => call[g].op = "Delete" /\ ~ ret[g].removed
         /\ b.kind = "entries" =>
              /\ call[g].op \in {"Names", "Lookup"}
              /\ Todo(g) = {} /\ b.entries = Listed(g)
         /\ b.kind = "serial" => call[g].op = "Serial" /\ b.serial = ret[g].serial

GoesOn(g) ==
    \/ /\ CallAgain(g, SerialCall) /\ job'[g] = job[g]
       /\ job[g].req.route \in {"record", "acme"}
    \/ /\ call[g].op \in {"Names", "Lookup"}
       /\ \E n \in Todo(g) :
            /\ CallAgain(g, LookupCall(n))
            /\ job'[g] = [at |-> "serve", req |-> job[g].req, time |-> job[g].time,
                          todo |-> Todo(g) \ {n}, entries |-> Listed(g)]

\* The steps of a handler.
LEMMA HandlerStep ==
    ASSUME TypeOK, Handlers, NEW g \in Proc, Handle(g)
    PROVE  \/ job[g].at = "reply" /\ job'[g] = Idle /\ UNCHANGED vars
           \/ /\ job[g].at = "serve" /\ pc[g] = "done" /\ phase' = phase
              /\ Replies(g) \/ GoesOn(g)
<1>1. ASSUME NEW x, job' = [job EXCEPT ![g] = x] PROVE job'[g] = x
  BY <1>1 DEF Handlers
<1>2. ASSUME NEW st, NEW b, Respond(g, st, b)
      PROVE  job'[g] = Reply(job[g].req, st, b)
  BY <1>2 DEF Respond, Handlers
<1>3. ASSUME Return(g), NEW st, NEW b, Respond(g, st, b),
             st = 404 => call[g].op = "Delete" /\ ~ ret[g].removed,
             b.kind = "entries" =>
               call[g].op \in {"Names", "Lookup"} /\ Todo(g) = {} /\ b.entries = Listed(g),
             b.kind = "serial" => call[g].op = "Serial" /\ b.serial = ret[g].serial
      PROVE  Replies(g)
  BY <1>2, <1>3 DEF Replies
<1>4. Return(g) => phase' = phase
  BY DEF Return
<1>5. ASSUME NEW o, CallAgain(g, o) PROVE phase' = phase
  BY <1>5 DEF CallAgain
<1>6. CASE SetReturned(g) \/ DeleteReturned(g)
  <2>1. job[g].at = "serve" /\ pc[g] = "done" /\ call[g].op \in {"Set", "Delete"}
    BY <1>6 DEF SetReturned, DeleteReturned, Returned
  <2>2. job[g].req.route \in {"record", "acme"}
    BY <2>1, ServingCall DEF Handlers
  <2>3. \/ \E st : /\ Return(g) /\ Respond(g, st, Nothing)
                   /\ st = 404 => call[g].op = "Delete" /\ ~ ret[g].removed
        \/ CallAgain(g, SerialCall) /\ UNCHANGED job
    BY <1>6 DEF SetReturned, DeleteReturned, Returned
  <2>4. CASE CallAgain(g, SerialCall) /\ UNCHANGED job
    BY <1>5, <2>1, <2>2, <2>4 DEF GoesOn
  <2>5. Nothing.kind \notin {"entries", "serial"}
    BY DEF Nothing
  <2> QED
    BY <1>3, <1>4, <2>1, <2>3, <2>4, <2>5
<1>7. CASE SerialReturned(g)
  <2> DEFINE b == [kind |-> "serial", serial |-> ret[g].serial]
  <2>1. /\ job[g].at = "serve" /\ pc[g] = "done" /\ call[g].op = "Serial"
        /\ Return(g) /\ Respond(g, 200, b)
    BY <1>7 DEF SerialReturned, Returned
  <2>2. b.kind = "serial" /\ b.serial = ret[g].serial
    OBVIOUS
  <2> HIDE DEF b
  <2> QED
    BY <1>3, <1>4, <2>1, <2>2
<1>8. ASSUME ListNext(g, Todo(g), Listed(g)), job[g].at = "serve", pc[g] = "done",
             call[g].op \in {"Names", "Lookup"}
      PROVE  phase' = phase /\ (Replies(g) \/ GoesOn(g))
  <2> DEFINE todo    == Todo(g)
             entries == Listed(g)
             b       == [kind |-> "entries", entries |-> entries]
  <2>1. CASE todo = {}
    <3>1. Return(g) /\ Respond(g, 200, b)
      BY <1>8, <2>1 DEF ListNext
    <3>2. b.kind = "entries" /\ b.entries = entries
      OBVIOUS
    <3> HIDE DEF b
    <3> QED
      BY <1>3, <1>4, <1>8, <2>1, <3>1, <3>2
  <2>2. CASE todo # {}
    <3> HIDE DEF todo, entries
    <3>1. ListNext(g, todo, entries)
      BY <1>8 DEF todo, entries
    <3>2. PICK n \in todo :
            /\ CallAgain(g, LookupCall(n))
            /\ job' = [job EXCEPT ![g].todo = todo \ {n}, ![g].entries = entries]
      BY <2>2, <3>1 DEF ListNext
    <3>3. PICK r, t, old, es :
            /\ r = job[g].req /\ t = job[g].time
            /\ job[g] = [at |-> "serve", req |-> r, time |-> t,
                         todo |-> old, entries |-> es]
      BY <1>8 DEF Handlers, Handler, Serving
    <3>4. job'[g] = [[job[g] EXCEPT !.todo = todo \ {n}] EXCEPT !.entries = entries]
      BY <3>2 DEF Handlers
    <3>5. job'[g] = [at |-> "serve", req |-> r, time |-> t,
                     todo |-> todo \ {n}, entries |-> entries]
      <4> DEFINE left == todo \ {n}
      <4>1. job'[g] = [[job[g] EXCEPT !.todo = left] EXCEPT !.entries = entries]
        BY <3>4
      <4> HIDE DEF left
      <4>2. [job[g] EXCEPT !.todo = left] =
              [at |-> "serve", req |-> r, time |-> t, todo |-> left, entries |-> es]
        BY <3>3
      <4>3. ASSUME NEW k, k = [at |-> "serve", req |-> r, time |-> t,
                               todo |-> left, entries |-> es]
            PROVE  [k EXCEPT !.entries = entries] =
                     [at |-> "serve", req |-> r, time |-> t,
                      todo |-> left, entries |-> entries]
        BY <4>3
      <4> QED
        BY <4>1, <4>2, <4>3 DEF left
    <3>6. job'[g] = [at |-> "serve", req |-> job[g].req, time |-> job[g].time,
                     todo |-> todo \ {n}, entries |-> entries]
      <4>1. r = job[g].req /\ t = job[g].time
        BY <3>3
      <4> QED
        BY <3>5, <4>1
    <3>7. GoesOn(g)
      <4>1. \E m \in todo :
              /\ CallAgain(g, LookupCall(m))
              /\ job'[g] = [at |-> "serve", req |-> job[g].req, time |-> job[g].time,
                            todo |-> todo \ {m}, entries |-> entries]
        BY <3>2, <3>6
      <4>2. todo = Todo(g) /\ entries = Listed(g)
        BY DEF todo, entries
      <4> QED
        BY <1>8, <4>1, <4>2 DEF GoesOn
    <3> QED
      BY <1>5, <3>2, <3>7
  <2> QED
    BY <2>1, <2>2
<1>9. CASE NamesReturned(g)
  BY <1>8, <1>9 DEF NamesReturned, Returned, Todo, Listed
<1>10. CASE LookupReturned(g)
  BY <1>8, <1>10 DEF LookupReturned, Returned, Todo, Listed
<1>11. CASE Replied(g)
  BY <1>1, <1>11 DEF Replied, storeVars
<1> QED
  BY <1>6, <1>7, <1>9, <1>10, <1>11 DEF Handle

\* A step that leaves g's request where it is: at most g's call goes on.
Works(g) ==
    /\ job'[g] = job[g]
    /\ phase = "up" => phase' = "up"
    /\ call'[g] = call[g]
    /\ (pc'[g] = pc[g] /\ ret'[g] = ret[g]) \/ Step(g)

\* What a step is to one handler: the end of the process, a step of its own,
\* or a step of the store or of others.
LEMMA LocalStep ==
    ASSUME TypeOK, Handlers, ApiNext, NEW g \in Proc
    PROVE  \/ job'[g] = Idle /\ pc'[g] = "idle"
           \/ \E r \in Request : Arrive(g, r)
           \/ Handle(g)
           \/ Works(g)
<1>1. g \in Goroutine /\ g # Main
  BY ProcAssumption DEF ProcAssumption, Goroutine
<1>2. ASSUME NEW h \in Proc, h # g,
             UNCHANGED vars \/ Return(h) \/ \E o : Call(h, o) \/ CallAgain(h, o)
      PROVE  /\ call'[g] = call[g] /\ pc'[g] = pc[g] /\ ret'[g] = ret[g]
             /\ phase' = phase
  BY <1>1, <1>2, OwnCall
<1>3. ASSUME NEW h \in Proc, NEW r \in Request, Arrive(h, r), h # g
      PROVE  Works(g)
  <2>1. job'[g] = job[g]
    BY <1>3 DEF Handlers, Arrive
  <2>2. UNCHANGED vars \/ Call(h, FirstCall(r))
    BY <1>3, ArriveStep
  <2> QED
    BY <1>2, <1>3, <2>1, <2>2 DEF Works
<1>4. ASSUME NEW h \in Proc, Handle(h), h # g
      PROVE  Works(g)
  <2>1. job'[g] = job[g]
    <3> USE <1>4 DEF Handlers
    <3>1. CASE SetReturned(h)
      BY <3>1 DEF SetReturned, Respond
    <3>2. CASE DeleteReturned(h)
      BY <3>2 DEF DeleteReturned, Respond
    <3>3. CASE SerialReturned(h)
      BY <3>3 DEF SerialReturned, Respond
    <3>4. CASE NamesReturned(h)
      BY <3>4 DEF NamesReturned, ListNext, Respond
    <3>5. CASE LookupReturned(h)
      BY <3>5 DEF LookupReturned, ListNext, Respond
    <3>6. CASE Replied(h)
      BY <3>6 DEF Replied
    <3> QED
      BY <3>1, <3>2, <3>3, <3>4, <3>5, <3>6 DEF Handle
  <2>2. UNCHANGED vars \/ Replies(h) \/ GoesOn(h)
    BY <1>4, HandlerStep
  <2>3. UNCHANGED vars \/ Return(h) \/ \E o : CallAgain(h, o)
    BY <2>2 DEF Replies, GoesOn
  <2> QED
    BY <1>2, <1>4, <2>1, <2>3 DEF Works
<1>5. ASSUME NEW h \in Goroutine, StoreStep(h) PROVE Works(g)
  <2>1. Step(h) /\ job'[g] = job[g] /\ phase' = phase
    BY <1>5, StepPhase DEF StoreStep
  <2>2. CASE h # g
    BY <1>1, <2>1, <2>2, OtherStep DEF Works
  <2>3. CASE h = g
    <3>1. call'[g] = call[g]
      BY <2>1, <2>3
      DEF Step, SetInvalid, SetLocked, DeleteMiss, DeleteLocked, Read, Mutate, OpenTmp,
          FillTmp, RenameTmp, Persisted, PersistFail, Unlock, Finish
    <3> QED
      BY <2>1, <2>3, <3>1 DEF Works
  <2> QED
    BY <2>2, <2>3
<1>6. CASE Boot
  <2>1. job'[g] = job[g]
    BY <1>6 DEF Boot
  <2>2. phase = "up" => phase' = "up"
    BY <1>6 DEF Boot, Start, SeedCall, SeedReturn, Listen
  <2>3. call'[g] = call[g] /\ pc'[g] = pc[g] /\ ret'[g] = ret[g]
    BY <1>1, <1>6
    DEF Boot, Start, SeedCall, SeedReturn, Listen, Enter, Leave, procVars, TypeOK
  <2> QED
    BY <2>1, <2>2, <2>3 DEF Works
<1>7. CASE Halt
  BY <1>1, <1>7 DEF Halt, Stop
<1>8. CASE Tick
  BY <1>8 DEF Tick, storeVars, vars, procVars, Works
<1> QED
  BY <1>3, <1>4, <1>5, <1>6, <1>7, <1>8 DEF ApiNext

\* A call never goes back to its start, and Names returns names.
LEMMA CallGoesOn ==
    ASSUME TypeOK, NEW g \in Goroutine, Step(g)
    PROVE  /\ pc[g] \in {"enter"} \cup LockedPcs /\ pc'[g] \notin {"idle", "enter"}
           /\ (pc'[g] = "done" /\ call[g].op = "Names") =>
                Read(g) \/ pc[g] \in LockedPcs
<1>1. pc'[g] \notin {"idle", "enter"} /\ pc[g] \in {"enter"} \cup LockedPcs
  BY DEF TypeOK, Step, SetInvalid, SetLocked, DeleteMiss, DeleteLocked, Read, Mutate,
     OpenTmp, FillTmp, RenameTmp, Persisted, PersistFail, Unlock, Finish, LockedPcs
<1>2. (call[g].op = "Names" /\ pc[g] \notin LockedPcs) => Read(g)
  BY DEF Step, SetInvalid, SetLocked, DeleteMiss, DeleteLocked, OpenTmp, FillTmp,
     RenameTmp, Persisted, PersistFail, LockedPcs
<1> QED
  BY <1>1, <1>2

\* Every step leaves each handler where it may stand.
LEMMA HandlersStep ==
    ASSUME TypeOK, LockInv, Handlers, [ApiNext]_apiAll PROVE Handlers'
<1>1. CASE UNCHANGED apiAll
  BY <1>1
  DEF apiAll, apiVars, storeVars, vars, procVars, Handlers, Handler, Serving
<1>2. CASE ApiNext
  <2>1. job' = [g \in Proc |-> job'[g]]
    <3>1. ASSUME NEW g \in Proc, Handle(g)
          PROVE  \/ job' = job
                 \/ \E x : job' = [job EXCEPT ![g] = x]
                 \/ \E x, y : job' = [job EXCEPT ![g].todo = x, ![g].entries = y]
      <4>1. ASSUME NEW st, NEW b, Respond(g, st, b)
            PROVE  \E x : job' = [job EXCEPT ![g] = x]
        BY <4>1 DEF Respond
      <4>2. ASSUME NEW todo, NEW entries, ListNext(g, todo, entries)
            PROVE  \/ \E st, b : Respond(g, st, b)
                   \/ \E x, y : job' = [job EXCEPT ![g].todo = x, ![g].entries = y]
        <5>1. CASE todo = {}
          BY <4>2, <5>1 DEF ListNext
        <5>2. CASE todo # {}
          <6>1. PICK n \in todo :
                  job' = [job EXCEPT ![g].todo = todo \ {n}, ![g].entries = entries]
            BY <4>2, <5>2 DEF ListNext
          <6> QED
            BY <6>1
        <5> QED
          BY <5>1, <5>2
      <4>3. CASE NamesReturned(g) \/ LookupReturned(g)
        <5>1. \E todo, entries : ListNext(g, todo, entries)
          BY <4>3 DEF NamesReturned, LookupReturned
        <5> QED
          BY <4>1, <4>2, <5>1
      <4>4. CASE SetReturned(g) \/ DeleteReturned(g) \/ SerialReturned(g)
        <5>1. job' = job \/ \E st, b : Respond(g, st, b)
          BY <4>4 DEF SetReturned, DeleteReturned, SerialReturned
        <5> QED
          BY <4>1, <5>1
      <4>5. CASE Replied(g)
        BY <4>5 DEF Replied
      <4> QED
        BY <3>1, <4>3, <4>4, <4>5 DEF Handle
    <3>2. ASSUME NEW g \in Proc, NEW x, NEW y,
                 job' = [job EXCEPT ![g].todo = x, ![g].entries = y]
          PROVE  job' = [h \in Proc |-> job'[h]]
      <4> DEFINE k == [job EXCEPT ![g].todo = x]
      <4>1. k = [h \in Proc |-> k[h]]
        BY DEF Handlers
      <4>2. job' = [k EXCEPT ![g].entries = y]
        BY <3>2
      <4> HIDE DEF k
      <4> QED
        BY <4>1, <4>2
    <3>3. ASSUME NEW g \in Proc, NEW x, job' = [job EXCEPT ![g] = x]
          PROVE  job' = [h \in Proc |-> job'[h]]
      BY <3>3 DEF Handlers
    <3>4. CASE job' = job \/ job' = [g \in Proc |-> Idle]
      BY <3>4 DEF Handlers
    <3>5. ASSUME NEW g \in Proc, NEW r \in Request, Arrive(g, r)
          PROVE  \E x : job' = [job EXCEPT ![g] = x]
      BY <3>5 DEF Arrive
    <3>6. CASE (\E g \in Goroutine : StoreStep(g)) \/ Boot \/ Halt \/ Tick
      BY <3>4, <3>6 DEF StoreStep, Boot, Halt, Tick
    <3>7. ASSUME NEW g \in Proc, Handle(g) PROVE job' = [h \in Proc |-> job'[h]]
      <4>1. CASE job' = job
        BY <3>4, <4>1
      <4>2. CASE \E x : job' = [job EXCEPT ![g] = x]
        BY <3>3, <4>2
      <4>3. CASE \E x, y : job' = [job EXCEPT ![g].todo = x, ![g].entries = y]
        <5>1. PICK x, y : job' = [job EXCEPT ![g].todo = x, ![g].entries = y]
          BY <4>3
        <5> QED
          BY <3>2, <5>1
      <4> QED
        BY <3>1, <3>7, <4>1, <4>2, <4>3
    <3>8. ASSUME NEW g \in Proc, NEW r \in Request, Arrive(g, r)
          PROVE  job' = [h \in Proc |-> job'[h]]
      BY <3>3, <3>5, <3>8
    <3> QED
      BY <1>2, <3>6, <3>7, <3>8 DEF ApiNext
  <2>2. now' \in 0..MaxNow
    <3>1. now' = now \/ Tick
      BY <1>2
      DEF ApiNext, Arrive, Handle, SetReturned, DeleteReturned, SerialReturned,
          NamesReturned, LookupReturned, Replied, StoreStep, Boot, Halt
    <3> QED
      BY <3>1, ApiAssumption DEF Handlers, Tick, ApiAssumption
  <2>3. ASSUME NEW g \in Proc PROVE Handler(g)'
    <3>1. Handler(g) /\ g \in Goroutine /\ now \in 0..MaxNow
      BY DEF Handlers, Goroutine
    <3>2. CASE job'[g] = Idle /\ pc'[g] = "idle"
      BY <3>2 DEF Handler, Idle
    <3>3. ASSUME NEW r \in Request, Arrive(g, r) PROVE Handler(g)'
      <4>1. /\ job[g] = Idle /\ phase = "up"
            /\ \/ /\ Verdict(r, now) = 0 /\ Call(g, FirstCall(r))
                  /\ job'[g] = [at |-> "serve", req |-> r, time |-> now,
                                todo |-> {}, entries |-> {}]
               \/ /\ UNCHANGED vars
                  /\ job'[g] = Reply(r, Verdict(r, now), Nothing)
        BY <3>3, ArriveStep
      <4>2. phase' = phase /\ pc[g] = "idle"
        BY <3>1, <4>1, OwnCall DEF Handler, Idle
      <4>3. CASE /\ Verdict(r, now) = 0 /\ Call(g, FirstCall(r))
                 /\ job'[g] = [at |-> "serve", req |-> r, time |-> now,
                               todo |-> {}, entries |-> {}]
        <5>1. call'[g] = FirstCall(r) /\ pc'[g] = "enter"
          BY <4>3, OwnCall
        <5>2. Serving(g)'
          BY <3>1, <4>3, <5>1 DEF Serving
        <5> QED
          BY <4>1, <4>2, <4>3, <5>2 DEF Handler
      <4>4. CASE UNCHANGED vars /\ job'[g] = Reply(r, Verdict(r, now), Nothing)
        BY <4>1, <4>2, <4>4 DEF Handler, Reply, vars, procVars
      <4> QED
        BY <4>1, <4>3, <4>4
    <3>4. CASE Handle(g)
      <4>1. CASE job[g].at = "reply" /\ job'[g] = Idle /\ UNCHANGED vars
        BY <3>1, <4>1 DEF Handler, Idle, vars, procVars
      <4>2. CASE job[g].at = "serve" /\ phase' = phase /\ Replies(g)
        <5>1. PICK st, b : job'[g] = Reply(job[g].req, st, b)
          BY <4>2 DEF Replies
        <5>2. pc'[g] = "idle"
          BY <4>2, OwnCall DEF Replies
        <5> QED
          BY <3>1, <4>2, <5>1, <5>2 DEF Handler, Reply
      <4>3. CASE job[g].at = "serve" /\ pc[g] = "done" /\ phase' = phase /\ GoesOn(g)
        <5>1. Serving(g)
          BY <3>1, <4>3 DEF Handler
        <5>2. CASE /\ CallAgain(g, SerialCall) /\ job'[g] = job[g]
                   /\ job[g].req.route \in {"record", "acme"}
          <6>1. call'[g] = SerialCall /\ pc'[g] = "enter"
            BY <5>2, OwnCall
          <6> QED
            BY <3>1, <4>3, <5>1, <5>2, <6>1 DEF Handler, Serving
        <5>3. ASSUME call[g].op \in {"Names", "Lookup"}, NEW n \in Todo(g),
                     CallAgain(g, LookupCall(n)),
                     job'[g] = [at |-> "serve", req |-> job[g].req,
                                time |-> job[g].time,
                                todo |-> Todo(g) \ {n}, entries |-> Listed(g)]
              PROVE  Handler(g)'
          <6>1. call'[g] = LookupCall(n) /\ pc'[g] = "enter"
            BY <5>3, OwnCall
          <6>2. Todo(g) \subseteq Name
            BY <4>3, <5>1 DEF Serving, Todo
          <6>3. job[g].req.route = "records"
            BY <3>1, <4>3, <5>3, ServingCall
          <6>4. job[g].time \in 0..MaxNow /\ Verdict(job[g].req, job[g].time) = 0
            BY <5>1 DEF Serving
          <6>5. call'[g].op = "Lookup" /\ call'[g].name \in Name
            BY <5>3, <6>1, <6>2 DEF LookupCall
          <6>6. /\ job'[g].at = "serve" /\ job'[g].req = job[g].req
                /\ job'[g].time = job[g].time /\ job'[g].todo \subseteq Name
                /\ job'[g] = [at |-> "serve", req |-> job'[g].req,
                              time |-> job'[g].time, todo |-> job'[g].todo,
                              entries |-> job'[g].entries]
            BY <5>3, <6>2
          <6>7. Serving(g)'
            BY <6>1, <6>3, <6>4, <6>5, <6>6 DEF Serving
          <6> QED
            BY <3>1, <4>3, <6>6, <6>7 DEF Handler
        <5> QED
          BY <4>3, <5>2, <5>3 DEF GoesOn
      <4> QED
        BY <3>4, <4>1, <4>2, <4>3, HandlerStep
    <3>5. CASE Works(g)
      <4>1. CASE job[g].at = "serve"
        <5>1. Serving(g)
          BY <3>1, <4>1 DEF Handler
        <5>2. CASE pc'[g] = pc[g] /\ ret'[g] = ret[g]
          BY <3>1, <3>5, <4>1, <5>1, <5>2 DEF Works, Handler, Serving
        <5>3. CASE Step(g)
          <6>1. pc'[g] # "idle"
            BY <3>1, <5>3, CallGoesOn
          <6>2. (pc'[g] = "done" /\ call[g].op = "Names") => ret'[g].names \subseteq Name
            <7> SUFFICES ASSUME pc'[g] = "done", call[g].op = "Names"
                         PROVE  ret'[g].names \subseteq Name
              OBVIOUS
            <7>1. Read(g)
              BY <3>1, <5>3, CallGoesOn DEF LockInv
            <7>2. ret'[g] = [names |-> DOMAIN records]
              BY <3>1, <7>1 DEF Read, Finish, TypeOK
            <7>3. DOMAIN records \subseteq Name
              BY DEF TypeOK, State, RecordMap, Snapshot
            <7> QED
              BY <7>2, <7>3
          <6> QED
            BY <3>1, <3>5, <4>1, <5>1, <6>1, <6>2 DEF Works, Handler, Serving
        <5> QED
          BY <3>5, <5>2, <5>3 DEF Works
      <4>2. CASE job[g].at # "serve"
        <5>1. pc[g] = "idle"
          BY <3>1, <4>2 DEF Handler
        <5>2. pc'[g] = pc[g]
          BY <3>1, <3>5, <5>1, CallGoesOn DEF Works, LockedPcs
        <5> QED
          BY <3>1, <3>5, <4>2, <5>1, <5>2 DEF Works, Handler
      <4> QED
        BY <4>1, <4>2
    <3> QED
      BY <1>2, <3>2, <3>3, <3>4, <3>5, LocalStep
  <2> QED
    BY <2>1, <2>2, <2>3 DEF Handlers
<1> QED
  BY <1>1, <1>2

(***************************************************************************)
(* Serving requests is a use of the store.                                 *)
(***************************************************************************)

\* The API's calls and the seeds bring records the encoder can encode.
LEMMA ApiOpsType ==
    /\ ApiOps \subseteq Op
    /\ SerialCall \in ApiOps
    /\ \A n \in Name : LookupCall(n) \in ApiOps
    /\ \A o \in ApiOps : o.op = "Set" => o.rec \in ApiRecord
    /\ \A a \in Addr : SeedRecord(a) \in ApiRecord
<1>1. SerialCall \in ApiOps
  BY DEF ApiOps, SerialCall, Op
<1>2. ASSUME NEW n \in Name PROVE LookupCall(n) \in ApiOps
  BY DEF ApiOps, LookupCall, Op
<1>3. ASSUME NEW a \in Addr PROVE SeedRecord(a) \in ApiRecord
  <2>1. SeedRecord(a) \in Record
    BY SeedRecordType
  <2>2. Unmap(a).fam \in {"v4", "v6"}
    BY DEF Unmap, Is4In6, Addr
  <2>3. Encodable(SeedRecord(a))
    BY <2>2 DEF Encodable, SeedRecord, Is6, Is4
  <2> QED
    BY <2>1, <2>3 DEF ApiRecord
<1> QED
  BY <1>1, <1>2, <1>3 DEF ApiOps

\* Every step is a step of the store in use, or leaves the store alone.
LEMMA ApiUses ==
    ASSUME TypeOK, Handlers, [ApiNext]_apiAll PROVE [Use(ApiOps)]_vars
<1>1. CASE UNCHANGED apiAll
  BY <1>1 DEF apiAll, storeVars
<1>2. ASSUME NEW g \in Proc, NEW r \in Request, Arrive(g, r)
      PROVE  [Use(ApiOps)]_vars
  <2>1. UNCHANGED vars \/ (Verdict(r, now) = 0 /\ Call(g, FirstCall(r)))
    BY <1>2, ArriveStep
  <2>2. Verdict(r, now) = 0 => FirstCall(r) \in ApiOps
    BY LetThrough
  <2> QED
    BY <2>1, <2>2 DEF Use
<1>3. ASSUME NEW g \in Proc, Handle(g)
      PROVE  [Use(ApiOps)]_vars
  <2>1. CASE UNCHANGED vars
    BY <2>1
  <2>2. CASE Replies(g)
    BY <2>2 DEF Replies, Use
  <2>3. CASE job[g].at = "serve" /\ pc[g] = "done" /\ GoesOn(g)
    <3>1. CallAgain(g, SerialCall) \/ \E n \in Todo(g) : CallAgain(g, LookupCall(n))
      BY <2>3 DEF GoesOn
    <3>2. Todo(g) \subseteq Name
      BY <2>3 DEF Todo, Handlers, Handler, Serving
    <3> QED
      BY <3>1, <3>2, ApiOpsType DEF Use
  <2> QED
    BY <1>3, <2>1, <2>2, <2>3, HandlerStep
<1>4. CASE \E g \in Goroutine : StoreStep(g)
  BY <1>4 DEF StoreStep, Use
<1>5. CASE Boot \/ Halt
  BY <1>5 DEF Boot, Halt, Use, Life
<1>6. CASE Tick
  BY <1>6 DEF Tick, storeVars
<1> QED
  BY <1>1, <1>2, <1>3, <1>4, <1>5, <1>6 DEF ApiNext

\* Types, lock and handlers together are inductive.
LEMMA HandlersAlways == ApiSpec => [](TypeOK /\ LockInv /\ Handlers)
<1>1. ApiInit => TypeOK /\ LockInv /\ Handlers
  <2> SUFFICES ASSUME ApiInit PROVE TypeOK /\ LockInv /\ Handlers
    OBVIOUS
  <2>1. /\ job = [g \in Proc |-> Idle] /\ now = 0 /\ Init
        /\ \A g \in Proc : pc[g] = "idle"
    BY DEF ApiInit, Init, Goroutine
  <2>2. Handlers
    BY <2>1, ApiAssumption DEF Handlers, Handler, Idle, ApiAssumption
  <2> QED
    BY <2>1, <2>2, TypeLockInit
<1>2. /\ TypeOK /\ LockInv /\ Handlers
      /\ [ApiNext]_apiAll
      => (TypeOK /\ LockInv /\ Handlers)'
  <2> SUFFICES ASSUME TypeOK, LockInv, Handlers, [ApiNext]_apiAll
               PROVE  (TypeOK /\ LockInv /\ Handlers)'
    OBVIOUS
  <2>1. [AnyUse]_vars
    BY ApiUses, ApiOpsType DEF Use, AnyUse
  <2> QED
    BY <2>1, TypeLockStep, HandlersStep
<1> QED
  BY <1>1, <1>2, PTL DEF ApiSpec, apiAll

\* The store behind the API is a store in use ...
LEMMA ApiIsUsage == ApiSpec => Usage /\ [][Use(ApiOps)]_vars
<1>1. [Use(ApiOps)]_vars => [AnyUse]_vars
  BY ApiOpsType DEF Use, AnyUse
<1>2. ApiInit => Init
  BY DEF ApiInit
<1>3. TypeOK /\ LockInv /\ Handlers /\ [ApiNext]_apiAll => [Use(ApiOps)]_vars
  BY ApiUses
<1> QED
  BY <1>1, <1>2, <1>3, HandlersAlways, PTL DEF ApiSpec, Usage, apiAll

\* ... and so, whatever requests are served, it implements the atomic store
\* (AtomicZone).
THEOREM AtomicWhileServing == ApiSpec => IsAtomic
BY ApiIsUsage, UsageIsAtomic, PTL

(***************************************************************************)
(* What is stored.                                                         *)
(***************************************************************************)
ApiStoreInv ==
    /\ IInv /\ StoreWellFormed /\ Handlers
    /\ StoredIn(ApiRecord) /\ CallsIn(ApiRecord) /\ SeenInv(ApiRecord)

LEMMA ApiStoreAlways == ApiSpec => []ApiStoreInv
<1> DEFINE J == StoredIn(ApiRecord) /\ CallsIn(ApiRecord) /\ SeenInv(ApiRecord)
<1>1. Init => J
  <2> SUFFICES ASSUME Init PROVE J
    OBVIOUS
  <2>1. SeenInv(ApiRecord)
    BY DEF Init, SeenInv
  <2> QED
    BY <2>1, StoredInInit
<1>2. /\ J /\ IInv /\ IInv' /\ StoreWellFormed' /\ [Use(ApiOps)]_vars
      => J'
  <2> SUFFICES ASSUME J, IInv, IInv', StoreWellFormed', [Use(ApiOps)]_vars
               PROVE  J'
    OBVIOUS
  <2>1. [AnyUse]_vars
    BY ApiOpsType DEF Use, AnyUse
  <2>2. CallsIn(ApiRecord)'
    BY ApiOpsType, CallsInStep DEF IInv
  <2>3. StoredIn(ApiRecord)'
    BY <2>1, StoredInStep DEF IInv
  <2>4. SeenInv(ApiRecord)'
    BY <2>1, <2>3, SeenStep DEF IInv
  <2> QED
    BY <2>2, <2>3, <2>4
<1> HIDE DEF J
<1>3. ApiSpec => []IInv /\ []StoreWellFormed
  BY ApiIsUsage, IInvAlways, WellFormedAlways, PTL
<1>4. ApiSpec => []J
  BY <1>1, <1>2, <1>3, ApiIsUsage, PTL DEF Usage
<1>5. IInv /\ StoreWellFormed /\ J /\ (TypeOK /\ LockInv /\ Handlers) => ApiStoreInv
  BY DEF J, ApiStoreInv
<1> QED
  BY <1>3, <1>4, <1>5, HandlersAlways, PTL

\* Whatever requests and seeds stored and whatever a restart restored, the
\* encoder can encode.
THEOREM Encodes == ApiSpec => []StoredIsEncodable
<1>1. ApiStoreInv => StoredIsEncodable
  BY DEF ApiStoreInv, StoredIn, ApiRecord, StoredIsEncodable
<1> QED
  BY <1>1, ApiStoreAlways, PTL

(***************************************************************************)
(* Who writes, and where.                                                  *)
(***************************************************************************)

\* Only Set and Delete take the lock.
LEMMA TakesLock ==
    ASSUME [AnyUse]_vars, NEW g \in Goroutine, Mutates(g)
    PROVE  SetLocked(g) \/ DeleteLocked(g)
<1>1. mu = Nobody /\ mu' = g /\ g # Nobody
  BY ProcAssumption DEF Mutates, ProcAssumption
<1>2. CASE UNCHANGED vars
  BY <1>1, <1>2 DEF vars, memVars
<1>3. CASE Life
  BY <1>1, <1>3 DEF Life, Start, SeedCall, SeedReturn, Listen, Stop, Enter, Leave, memVars
<1>4. ASSUME NEW h \in Goroutine, Step(h) PROVE SetLocked(g) \/ DeleteLocked(g)
  <2>1. CASE SetLocked(h) \/ DeleteLocked(h)
    BY <1>1, <2>1 DEF SetLocked, DeleteLocked, Mutate
  <2>2. CASE ~ (SetLocked(h) \/ DeleteLocked(h))
    BY <1>1, <1>4, <2>2
    DEF Step, SetInvalid, DeleteMiss, Read, OpenTmp, FillTmp, RenameTmp, Persisted,
        PersistFail, Unlock, memVars
  <2> QED
    BY <2>1, <2>2
<1>5. CASE \E h \in Proc : Return(h) \/ \E o \in Op : Call(h, o) \/ CallAgain(h, o)
  BY <1>1, <1>5 DEF Return, Call, CallAgain, Enter, Leave, memVars
<1> QED
  BY <1>2, <1>3, <1>4, <1>5 DEF AnyUse, Use

\* Who takes the lock serves a request that was let through, and makes the
\* one mutation that request asks for.
LEMMA WriterServes ==
    ASSUME TypeOK, LockInv, Handlers, [AnyUse]_vars, NEW g \in Proc, Mutates(g)
    PROVE  /\ SetLocked(g) \/ DeleteLocked(g)
           /\ job[g].req \in Request /\ job[g].time \in 0..MaxNow
           /\ job[g].req.route \in {"record", "acme"}
           /\ Verdict(job[g].req, job[g].time) = 0
           /\ call[g] = FirstCall(job[g].req)
<1>1. SetLocked(g) \/ DeleteLocked(g)
  BY TakesLock DEF Goroutine
<1>2. pc[g] = "enter" /\ (call[g].op = "Set" \/ call[g].op = "Delete")
  BY <1>1 DEF SetLocked, DeleteLocked
<1>3. Handler(g) /\ job[g].at = "serve"
  BY <1>2 DEF Handlers, Handler
<1>4. /\ job[g].req \in Request /\ job[g].time \in 0..MaxNow
      /\ Verdict(job[g].req, job[g].time) = 0
  BY <1>3 DEF Handler, Serving
<1>5. job[g].req.route \in {"record", "acme"} /\ call[g] = FirstCall(job[g].req)
  BY <1>2, <1>3, ServingCall
<1> QED
  BY <1>1, <1>4, <1>5

\* The name that the record handler writes is the one its path spells.
LEMMA RecordName ==
    ASSUME NEW n \in Name, ValidName(RelName(n))
    PROVE  RelName(n) \o Zone = Asked(n)
<1> DEFINE m == CanonicalName(n)
<1>1. m \in Name /\ TrimDot(ToLower(n)) = m
  BY TrimOfLower, CanonicalNameType
<1>2. RelName(n) = IF Under(m, Zone) THEN Left(m, Zone)
                   ELSE IF m = Zone THEN EmptyName ELSE m
  BY <1>1 DEF RelName
<1>3. ~ ValidName(EmptyName)
  <2>1. "" \notin ValidLabel
    BY ValidLabelAssumption DEF ValidLabelAssumption
  <2>2. EmptyName[1] = "" /\ 1 \in DOMAIN EmptyName
    BY DEF EmptyName
  <2> QED
    BY <2>1, <2>2 DEF ValidName
<1>4. Asked(n) = IF Under(m, Zone) THEN m ELSE m \o Zone
  BY DEF Asked
<1> HIDE DEF m
<1>5. CASE Under(m, Zone)
  BY <1>1, <1>2, <1>4, <1>5, LeftOfZone, ZoneType
<1>6. CASE ~ Under(m, Zone)
  BY <1>2, <1>3, <1>4, <1>6
<1> QED
  BY <1>5, <1>6

\* What acme finds left of the zone, the challenge it makes of it, and the
\* name that is challenged.
Raw(n) ==
    LET m == CanonicalName(n) IN IF Under(m, Zone) THEN Left(m, Zone) ELSE m

LEMMA AcmeRaw ==
    ASSUME NEW n \in Name
    PROVE  /\ Raw(n) \in Name /\ Raw(n) \o Zone = Asked(n)
           /\ AcmeOwner(n) = IF Raw(n) \in ApexNames THEN << AcmePrefix >>
                             ELSE << AcmePrefix >> \o Raw(n)
           /\ Challenged(n) = IF Raw(n) \in ApexNames THEN Zone ELSE Asked(n)
           /\ CanonicalName(n) = Zone => Raw(n) \in ApexNames
<1> DEFINE m   == CanonicalName(n)
           raw == IF Under(m, Zone) THEN Left(m, Zone) ELSE m
           pre == << AcmePrefix >>
<1>1. "" \in Label /\ AtSign \in Label
  BY LabelAssumption, ApiAssumption DEF LabelAssumption, ApiAssumption
<1>2. m \in Name /\ TrimDot(ToLower(n)) = m
  BY TrimOfLower, CanonicalNameType
<1>3. AcmeOwner(n) = IF raw \in ApexNames THEN pre ELSE pre \o raw
  BY <1>2 DEF AcmeOwner, ApexNames
<1>4. /\ Challenged(n) = IF \E a \in ApexNames : m \in {a, a \o Zone}
                         THEN Zone ELSE Asked(n)
      /\ Asked(n) = IF Under(m, Zone) THEN m ELSE m \o Zone
  BY DEF Challenged, Asked
<1>5. Raw(n) = raw
  BY DEF Raw
<1>6. ASSUME NEW a \in ApexNames PROVE a \in Name /\ a # << >> /\ ~ Under(a, Zone)
  <2>1. CASE a = Zone
    BY <2>1, ZoneType, ZoneAssumption DEF Under, ZoneAssumption
  <2>2. CASE a # Zone
    <3>1. PICK l \in Label : a = << l >>
      BY <1>1, <1>6, <2>2 DEF ApexNames, EmptyName
    <3>2. a \in Name /\ a # << >> /\ Len(a) = 1
      BY <3>1, OneLabel
    <3> QED
      BY <3>2, ZoneType DEF Under
  <2> QED
    BY <2>1, <2>2
<1> HIDE DEF m, pre
<1>7. Under(m, Zone) => Left(m, Zone) \in Name /\ Left(m, Zone) \o Zone = m
  BY <1>2, LeftOfZone, ZoneType
<1>8. raw \in Name /\ raw \o Zone = Asked(n)
  BY <1>2, <1>4, <1>7
<1>9. (\E a \in ApexNames : m \in {a, a \o Zone}) <=> raw \in ApexNames
  <2>1. ASSUME raw \in ApexNames PROVE \E a \in ApexNames : m \in {a, a \o Zone}
    BY <1>7, <2>1
  <2>2. ASSUME NEW a \in ApexNames, m = a PROVE raw \in ApexNames
    BY <1>6, <2>2
  <2>3. ASSUME NEW a \in ApexNames, m = a \o Zone PROVE raw \in ApexNames
    <3>1. Under(m, Zone) /\ Left(m, Zone) = a
      BY <1>6, <2>3, ConcatIsUnder, ZoneType
    <3> QED
      BY <3>1
  <2> QED
    BY <2>1, <2>2, <2>3
<1>10. m = Zone => raw \in ApexNames
  <2>1. Zone \in ApexNames
    BY DEF ApexNames
  <2> QED
    BY <1>9, <2>1
<1> HIDE DEF raw
<1> QED
  BY <1>3, <1>4, <1>5, <1>8, <1>9, <1>10 DEF m, pre

\* The name that acme writes is the challenge of the name its path spells.
LEMMA AcmeName ==
    ASSUME NEW n \in Name
    PROVE  AcmeOwner(n) \o Zone = << AcmePrefix >> \o Challenged(n)
<1> DEFINE raw == Raw(n)
           pre == << AcmePrefix >>
<1>1. /\ raw \in Name /\ raw \o Zone = Asked(n)
      /\ AcmeOwner(n) = IF raw \in ApexNames THEN pre ELSE pre \o raw
      /\ Challenged(n) = IF raw \in ApexNames THEN Zone ELSE Asked(n)
  BY AcmeRaw
<1>2. pre \in Name
  BY ApiAssumption, ValidLabelAssumption, OneLabel DEF ApiAssumption, ValidLabelAssumption
<1> HIDE DEF raw
<1>3. (pre \o raw) \o Zone = pre \o (raw \o Zone)
  BY <1>1, <1>2, ZoneType, NameConcat
<1> QED
  BY <1>1, <1>3

\* A valid owner is the name the path spells, without the zone.
LEMMA OwnerIsTarget ==
    ASSUME NEW r \in Request, r.route \in {"record", "acme"}, ValidName(Owner(r))
    PROVE  /\ Owner(r) \o Zone = Target(r.route, r.name)
           /\ Left(Target(r.route, r.name), Zone) = Owner(r)
           /\ \A n \in Name : n # << >> /\ n \o Zone = Target(r.route, r.name) => n = Owner(r)
<1>1. r.name \in Name /\ Owner(r) \in Name /\ Zone \in Name
  BY RequestAssumption, OwnerType, ZoneType DEF RequestAssumption
<1>2. Owner(r) = IF r.route = "acme" THEN AcmeOwner(r.name) ELSE RelName(r.name)
  BY DEF Owner
<1>3. Owner(r) \o Zone = Target(r.route, r.name)
  BY <1>1, <1>2, RecordName, AcmeName DEF Target
<1>4. Owner(r) # << >>
  BY EmptySeq DEF ValidName
<1>5. ASSUME NEW n \in Name, n # << >>, n \o Zone = Owner(r) \o Zone PROVE n = Owner(r)
  <2>1. Left(n \o Zone, Zone) = n /\ Left(Owner(r) \o Zone, Zone) = Owner(r)
    BY <1>1, <1>4, <1>5, ConcatIsUnder
  <2> QED
    BY <1>5, <2>1
<1>6. Left(Owner(r) \o Zone, Zone) = Owner(r)
  BY <1>1, <1>4, ConcatIsUnder
<1> QED
  BY <1>3, <1>5, <1>6

\* Neither Set nor Delete of one type touches the records of another.
LEMMA OtherTypes ==
    ASSUME TypeOK, NEW g \in Goroutine, NEW n, n = ToLower(call[g].name), NEW t \in Type,
           \/ SetLocked(g) /\ call[g].rec.type = t
           \/ DeleteLocked(g) /\ call[g].typ = t
    PROVE  Kept(At(records', n), t) = Kept(At(records, n), t)
<1>1. CASE SetLocked(g) /\ call[g].rec.type = t
  <2>1. records' = SetIn(records, n, call[g].rec)
    BY <1>1 DEF SetLocked, Mutate
  <2>2. At(records', n) = Kept(At(records, n), t) \cup {call[g].rec}
    BY <1>1, <2>1 DEF SetIn, At
  <2> QED
    BY <1>1, <2>2 DEF Kept
<1>2. CASE DeleteLocked(g) /\ call[g].typ = t
  <2>1. /\ records' = DeleteIn(records, n, t) /\ n \in DOMAIN records
        /\ RecordMap(records)
    BY <1>2 DEF DeleteLocked, Removes, Mutate, TypeOK, State, Snapshot
  <2>2. At(records', n) = KeptByDelete(records[n], t) /\ At(records, n) = records[n]
    BY <2>1, DeleteAt DEF At
  <2>3. KeptByDelete(records[n], t) = Kept(records[n], t)
    BY DEF KeptByDelete, Type, AllTypes
  <2> QED
    BY <2>2, <2>3 DEF Kept
<1> QED
  BY <1>1, <1>2

\* A request changes the records of the one name its path spells, or of that
\* name's challenge, however requests interleave.
THEOREM WritesItsName == ApiSpec => WritesOnlyItsName
<1> DEFINE W(g) == \A n \in (DOMAIN records) \cup (DOMAIN records') :
                     At(records', n) # At(records, n) =>
                       /\ ValidName(n)
                       /\ n \o Zone = Target(job[g].req.route, job[g].req.name)
                       /\ job[g].req.route = "acme" =>
                            Kept(At(records', n), "TXT") = Kept(At(records, n), "TXT")
           A == \A g \in Proc : Mutates(g) => W(g)
<1>1. TypeOK /\ LockInv /\ Handlers /\ [Use(ApiOps)]_vars => A
  <2> SUFFICES ASSUME TypeOK, LockInv, Handlers, [Use(ApiOps)]_vars,
                      NEW g \in Proc, Mutates(g)
               PROVE  W(g)
    OBVIOUS
  <2> DEFINE r == job[g].req
             o == Owner(r)
  <2>1. g \in Goroutine /\ [AnyUse]_vars
    BY ApiOpsType DEF Goroutine, Use, AnyUse
  <2>2. /\ SetLocked(g) \/ DeleteLocked(g)
        /\ r \in Request /\ r.route \in {"record", "acme"}
        /\ Verdict(r, job[g].time) = 0 /\ call[g] = FirstCall(r)
    BY <2>1, WriterServes
  <2> HIDE DEF r
  <2>4. /\ ValidName(o) /\ ToLower(o) = o
        /\ \/ /\ call[g] = SetCall(o, PutRecord(r))
              /\ r.route = "acme" => PutRecord(r).type = "TXT"
           \/ call[g] = DeleteCall(o, IF r.route = "record" THEN AllTypes ELSE "TXT")
    BY <2>2, LetThrough
  <2>5. o \o Zone = Target(r.route, r.name)
    BY <2>2, <2>4, OwnerIsTarget
  <2> HIDE DEF o
  <2>6. call[g].name = o
    BY <2>4 DEF SetCall, DeleteCall
  <2>9. r.route = "acme" => Kept(At(records', o), "TXT") = Kept(At(records, o), "TXT")
    <3> SUFFICES ASSUME r.route = "acme"
                 PROVE  Kept(At(records', o), "TXT") = Kept(At(records, o), "TXT")
      OBVIOUS
    <3>1. \/ SetLocked(g) /\ call[g].rec.type = "TXT"
          \/ DeleteLocked(g) /\ call[g].typ = "TXT"
      BY <2>2, <2>4 DEF SetCall, DeleteCall, SetLocked, DeleteLocked
    <3>2. "TXT" \in Type /\ o = ToLower(call[g].name)
      BY <2>4, <2>6 DEF Type
    <3> QED
      BY <2>1, <3>1, <3>2, OtherTypes
  <2>10. ASSUME NEW n, At(records', n) # At(records, n) PROVE n = o
    BY <2>1, <2>2, <2>4, <2>6, <2>10, OneEntry
  <2> QED
    BY <2>4, <2>5, <2>9, <2>10 DEF r
<1> HIDE DEF A
<1>2. ApiSpec => [][A]_<< storeVars, apiVars >>
  BY <1>1, HandlersAlways, ApiIsUsage, PTL DEF ApiSpec
<1> QED
  BY <1>2 DEF A, WritesOnlyItsName

(***************************************************************************)
(* Signatures and the window.                                              *)
(***************************************************************************)

\* The distance between a request's timestamp and the server's clock, in
\* nanoseconds, is an int64: what Verify takes for granted.
DriftFits ==
    \A r \in Request : \A t \in 0..MaxNow :
      LET d == t - r.ts.val IN (IF d < 0 THEN -d ELSE d) * Second < IntHalf

\* A value that an int64 holds does not wrap.
LEMMA WrapSmall ==
    ASSUME NEW x \in Int, -IntHalf <= x, x < IntHalf PROVE Wrap(x) = x
<1>1. IntHalf \in Nat /\ IntHalf > 0
  BY IntAssumption DEF IntAssumption
<1>2. x + IntHalf \in 0..(2 * IntHalf - 1)
  BY <1>1
<1>3. (x + IntHalf) % (2 * IntHalf) = x + IntHalf
  BY <1>1, <1>2
<1> QED
  BY <1>1, <1>3 DEF Wrap

\* Where nothing wraps, a timestamp is stale exactly outside the window.
LEMMA StaleExact ==
    ASSUME NEW t \in Nat, NEW ts \in Int64,
           (IF t - ts < 0 THEN -(t - ts) ELSE t - ts) * Second < IntHalf
    PROVE  Stale(t, ts) <=>
             (IF t - ts < 0 THEN -(t - ts) ELSE t - ts) * Second > Window(AuthWindow)
<1> DEFINE d == t - ts
           a == IF d < 0 THEN -d ELSE d
<1>1. IntHalf \in Nat /\ IntHalf > 0 /\ Second \in Nat /\ Second > 0 /\ ts \in Int
  BY IntAssumption DEF IntAssumption, Int64
<1>2. d \in Int /\ a \in Int /\ a >= 0 /\ (d < 0 => a = -d) /\ (d >= 0 => a = d)
  BY <1>1
<1>3. Drift(t, ts) = IF Wrap(d) < 0 THEN Wrap(-Wrap(d)) ELSE Wrap(d)
  BY DEF Drift
<1>4. a * Second < IntHalf
  OBVIOUS
<1> HIDE DEF d, a
<1>5. a <= a * Second /\ a * Second \in Int
  BY <1>1, <1>2
<1>6. Wrap(d) = d
  BY <1>1, <1>2, <1>4, <1>5, WrapSmall
<1>7. d < 0 => Wrap(-d) = -d
  BY <1>1, <1>2, <1>4, <1>5, WrapSmall
<1>8. Drift(t, ts) = a
  BY <1>2, <1>3, <1>6, <1>7
<1>9. Wrap(a * Second) = a * Second
  BY <1>1, <1>2, <1>4, <1>5, WrapSmall
<1> QED
  BY <1>8, <1>9 DEF Stale, a, d

\* Where nothing wraps, Verify accepts what was signed within the window.
LEMMA VerifyAccepts ==
    ASSUME NEW k, NEW m, NEW p, NEW ts \in TsHeader, NEW s, NEW b, NEW t \in Nat,
           Verify(k, m, p, ts, s, b, t) = "nil"
    PROVE  /\ ts.ok /\ s = << k, m, p, ts.val, b >>
           /\ LET d == t - ts.val
                  a == IF d < 0 THEN -d ELSE d
              IN  a * Second < IntHalf => a * Second <= Window(AuthWindow)
<1> DEFINE d == t - ts.val
           a == (IF d < 0 THEN -d ELSE d) * Second
<1>1. ts.ok /\ ~ Stale(t, ts.val) /\ s = Sign(k, m, p, ts.val, b)
  BY DEF Verify
<1>2. ts.val \in Int64
  BY DEF TsHeader
<1>3. Window(AuthWindow) \in Int /\ Second \in Int /\ d \in Int
  BY <1>2, IntAssumption, WindowAssumption
  DEF IntAssumption, WindowAssumption, Window, Int64
<1>4. a < IntHalf => ~ (a > Window(AuthWindow))
  BY <1>1, <1>2, StaleExact
<1>5. a \in Int
  BY <1>3
<1>6. s = << k, m, p, ts.val, b >>
  BY <1>1 DEF Sign
<1> HIDE DEF a
<1>7. a < IntHalf => a <= Window(AuthWindow)
  BY <1>3, <1>4, <1>5
<1> QED
  BY <1>1, <1>6, <1>7 DEF a

\* Who takes the lock was let through by Verify.
LEMMA WriterVerified ==
    ASSUME TypeOK, LockInv, Handlers, [Use(ApiOps)]_vars, NEW g \in Proc, Mutates(g),
           NEW r, r = job[g].req, NEW t, t = job[g].time
    PROVE  /\ r \in Request /\ t \in 0..MaxNow
           /\ r.ts.ok
           /\ r.sig = << ApiKey, r.method, Path(r), r.ts.val, r.body >>
           /\ LET d == t - r.ts.val
                  a == IF d < 0 THEN -d ELSE d
              IN  a * Second < IntHalf => a * Second <= Window(AuthWindow)
<1>1. [AnyUse]_vars
  BY ApiOpsType DEF Use, AnyUse
<1>2. /\ r \in Request /\ t \in 0..MaxNow /\ r.route \in {"record", "acme"}
      /\ Verdict(r, t) = 0
  BY <1>1, WriterServes
<1>3. Authenticate(r, t) = 0
  BY <1>2, LetThrough
<1>4. Verify(ApiKey, r.method, Path(r), r.ts, r.sig, r.body, t) = "nil"
  BY <1>3 DEF Authenticate
<1>5. r.ts \in TsHeader /\ t \in Nat
  BY <1>2, RequestAssumption, ApiAssumption DEF RequestAssumption, ApiAssumption
<1> QED
  BY <1>2, <1>4, <1>5, VerifyAccepts

\* Whatever the timestamps, only a request that carries the MAC of exactly
\* its own method, path, timestamp and body ever changes the store.
THEOREM OnlySigned ==
    ApiSpec =>
      [][\A g \in Proc : Mutates(g) =>
           LET r == job[g].req IN
           r.ts.ok /\ r.sig = << ApiKey, r.method, Path(r), r.ts.val, r.body >>
        ]_<< storeVars, apiVars >>
<1> DEFINE S(r) == r.ts.ok /\ r.sig = << ApiKey, r.method, Path(r), r.ts.val, r.body >>
           A == \A g \in Proc : Mutates(g) => S(job[g].req)
<1>1. TypeOK /\ LockInv /\ Handlers /\ [Use(ApiOps)]_vars => A
  BY WriterVerified
<1> HIDE DEF A
<1>2. ApiSpec => [][A]_<< storeVars, apiVars >>
  BY <1>1, HandlersAlways, ApiIsUsage, PTL DEF ApiSpec
<1> QED
  BY <1>2 DEF A

\* Where no timestamp is so far from the clock that the int64 arithmetic of
\* Verify wraps, only a request that arrived within the window of its
\* timestamp, and carries the MAC of exactly its own method, path, timestamp
\* and body, ever changes the store.  (Where it wraps, an old request may
\* pass: the run hmac_replay.)
THEOREM SignedAndFresh == ASSUME DriftFits PROVE ApiSpec => OnlySignedAndFresh
<1> DEFINE F(r, t) == LET d == t - r.ts.val IN
                      /\ r.ts.ok
                      /\ r.sig = << ApiKey, r.method, Path(r), r.ts.val, r.body >>
                      /\ (IF d < 0 THEN -d ELSE d) * Second <= Window(AuthWindow)
           A == \A g \in Proc : Mutates(g) => F(job[g].req, job[g].time)
<1>1. TypeOK /\ LockInv /\ Handlers /\ [Use(ApiOps)]_vars => A
  <2> SUFFICES ASSUME TypeOK, LockInv, Handlers, [Use(ApiOps)]_vars,
                      NEW g \in Proc, Mutates(g)
               PROVE  F(job[g].req, job[g].time)
    OBVIOUS
  <2> DEFINE r == job[g].req
             t == job[g].time
             d == t - r.ts.val
             a == (IF d < 0 THEN -d ELSE d) * Second
  <2> HIDE DEF r, t
  <2>1. /\ r \in Request /\ t \in 0..MaxNow /\ r.ts.ok
        /\ r.sig = << ApiKey, r.method, Path(r), r.ts.val, r.body >>
        /\ a < IntHalf => a <= Window(AuthWindow)
    BY WriterVerified DEF r, t
  <2>2. a < IntHalf
    BY <2>1 DEF DriftFits
  <2>3. F(r, t)
    BY <2>1, <2>2
  <2> QED
    BY <2>3 DEF r, t
<1> HIDE DEF A
<1>2. ApiSpec => [][A]_<< storeVars, apiVars >>
  BY <1>1, HandlersAlways, ApiIsUsage, PTL DEF ApiSpec
<1> QED
  BY <1>2 DEF A, OnlySignedAndFresh

(***************************************************************************)
(* The history of a request that is watched.                               *)
(***************************************************************************)

\* Every step observes.
LEMMA Observing == ApiNext => Observe
BY DEF ApiNext, Arrive, Handle, SetReturned, DeleteReturned, SerialReturned,
   NamesReturned, LookupReturned, Replied, StoreStep, Boot, Halt, Tick

\* What is registered, or there to delete, all through a request shrinks and
\* is there now; what was registered at some time grows and includes what is
\* there now.
LEMMA ObserveStep ==
    ASSUME Observe, NEW g \in Proc
    PROVE  /\ steady'[g] \subseteq Pairs(visible'.records)
           /\ Active(job[g]) => steady'[g] \subseteq steady[g]
           /\ Lists(job'[g]) =>
                seen[g] \subseteq seen'[g] /\ Pairs(visible'.records) \subseteq seen'[g]
           /\ standing'[g] \subseteq Deletable(visible'.records)
           /\ Active(job[g]) => standing'[g] \subseteq standing[g]
<1>1. steady'[g] = IF Lists(job'[g])
                   THEN Still(g, Pairs(visible'.records), steady[g]) ELSE {}
  BY DEF Observe
<1>2. seen'[g] = IF Lists(job'[g]) THEN seen[g] \cup Pairs(visible'.records) ELSE {}
  BY DEF Observe
<1>3. standing'[g] = IF Deletes(job'[g])
                     THEN Still(g, Deletable(visible'.records), standing[g]) ELSE {}
  BY DEF Observe
<1>4. ASSUME NEW here, NEW before
      PROVE  /\ Still(g, here, before) \subseteq here
             /\ Active(job[g]) => Still(g, here, before) \subseteq before
  BY DEF Still
<1> HIDE DEF Lists, Deletes, Active, Pairs, Deletable
<1> QED
  BY <1>1, <1>2, <1>3, <1>4

\* The registered pairs, one by one.
LEMMA PairsIn ==
    ASSUME NEW recs
    PROVE  /\ \A p \in Pairs(recs) : p[1] \in DOMAIN recs /\ p[2] \in recs[p[1]]
           /\ \A n : \A r \in At(recs, n) : << n, r >> \in Pairs(recs)
<1>1. ASSUME NEW p \in Pairs(recs) PROVE p[1] \in DOMAIN recs /\ p[2] \in recs[p[1]]
  <2>1. PICK n \in DOMAIN recs : \E r \in recs[n] : p = << n, r >>
    BY DEF Pairs
  <2>2. PICK r \in recs[n] : p = << n, r >>
    BY <2>1
  <2> QED
    BY <2>1, <2>2
<1>2. ASSUME NEW n, NEW r \in At(recs, n) PROVE << n, r >> \in Pairs(recs)
  <2>1. n \in DOMAIN recs /\ r \in recs[n]
    BY DEF At
  <2> QED
    BY <2>1 DEF Pairs
<1> QED
  BY <1>1, <1>2

(***************************************************************************)
(* Not found.                                                              *)
(***************************************************************************)

\* At some moment the name, or its TXT record, was not there to delete.
Gone(g) ==
    LET r == job[g].req IN
    \A p \in standing[g] :
      ~ /\ p[1] \o Zone = Target(r.route, r.name)
        /\ p[2] = IF r.route = "record" THEN AllTypes ELSE "TXT"

Missed(g) ==
    \/ /\ job[g].at = "serve" /\ pc[g] = "done"
       /\ call[g].op = "Delete" /\ ~ ret[g].removed
    \/ job[g].at = "reply" /\ job[g].status = 404

MissInv(g) == Missed(g) => Gone(g)

\* Who was gone stays gone.
LEMMA StaysGone ==
    ASSUME Observe, NEW g \in Proc, Active(job[g]), Gone(g),
           job'[g].req = job[g].req
    PROVE  Gone(g)'
<1>1. standing'[g] \subseteq standing[g]
  BY ObserveStep
<1> QED
  BY <1>1 DEF Gone

\* A Delete that finds nothing looks while nothing is there.
LEMMA MissIsGone ==
    ASSUME TypeOK, LockInv, DiskInv, StoreWellFormed, Handlers, Observe,
           NEW g \in Proc, job[g].at = "serve", job'[g] = job[g], DeleteMiss(g)
    PROVE  Gone(g)'
<1> DEFINE r == job[g].req
           o == Owner(r)
<1>1. g \in Goroutine /\ Handler(g)
  BY DEF Handlers, Goroutine
<1>2. /\ mu = Nobody /\ visible' = visible /\ pc[g] = "enter" /\ call[g].op = "Delete"
      /\ ~ Removes(records, ToLower(call[g].name), call[g].typ)
  BY DEF DeleteMiss, history
<1>3. visible'.records = records
  BY <1>1, <1>2 DEF LockInv, DiskInv, Snapshot
<1>4. standing'[g] \subseteq Deletable(records)
  BY <1>3, ObserveStep
<1>5. /\ r \in Request /\ r.route \in {"record", "acme"} /\ call[g] = FirstCall(r)
      /\ Verdict(r, job[g].time) = 0
  BY <1>1, <1>2, ServingCall DEF Handler, Serving
<1> HIDE DEF r
<1> DEFINE typ == IF r.route = "record" THEN AllTypes ELSE "TXT"
<1>6. /\ ToLower(o) = o /\ ValidName(o)
      /\ call[g] = SetCall(o, PutRecord(r)) \/ call[g] = DeleteCall(o, typ)
  BY <1>5, LetThrough
<1>7. \A n \in Name : n # << >> /\ n \o Zone = Target(r.route, r.name) => n = o
  BY <1>5, <1>6, OwnerIsTarget
<1> HIDE DEF o, typ
<1>8. call[g].name = o /\ call[g].typ = typ
  BY <1>2, <1>6 DEF SetCall, DeleteCall
<1>9. ~ Removes(records, o, typ)
  BY <1>2, <1>6, <1>8
<1>10. ASSUME NEW p \in standing'[g], p[1] \o Zone = Target(r.route, r.name), p[2] = typ
       PROVE  FALSE
  <2>1. p[1] \in DOMAIN records /\ \E x \in records[p[1]] : p[2] \in {x.type, AllTypes}
    BY <1>4, <1>10 DEF Deletable
  <2>2. p[1] \in Name /\ p[1] # << >>
    <3>1. p[1] \in Name /\ ValidName(p[1])
      BY <2>1 DEF StoreWellFormed, WellFormed, TypeOK, State, RecordMap, Snapshot
    <3> QED
      BY <3>1, EmptySeq DEF ValidName
  <2>3. p[1] = o
    BY <1>7, <1>10, <2>2
  <2>4. PICK x \in records[o] : typ \in {x.type, AllTypes}
    BY <1>10, <2>1, <2>3
  <2>5. KeptByDelete(records[o], typ) = records[o]
    BY <1>9, <2>1, <2>3 DEF Removes
  <2>6. x \notin KeptByDelete(records[o], typ)
    BY <2>4 DEF KeptByDelete, Kept
  <2> QED
    BY <2>4, <2>5, <2>6
<1>11. job'[g].req = r
  BY DEF r
<1> QED
  BY <1>10, <1>11 DEF Gone, typ

\* Of the steps of a call, only DeleteMiss ends a Delete without a removal.
LEMMA OnlyMiss ==
    ASSUME TypeOK, NEW g \in Goroutine, Step(g), call[g].op = "Delete",
           pc'[g] = "done", ~ ret'[g].removed
    PROVE  DeleteMiss(g)
<1>1. CASE SetInvalid(g) \/ SetLocked(g) \/ Read(g)
  BY <1>1 DEF SetInvalid, SetLocked, Read
<1>2. CASE DeleteLocked(g)
  BY <1>2 DEF DeleteLocked, Mutate, TypeOK
<1>3. CASE OpenTmp(g) \/ FillTmp(g) \/ RenameTmp(g)
  BY <1>3 DEF OpenTmp, FillTmp, RenameTmp, TypeOK
<1>4. CASE Persisted(g) \/ PersistFail(g)
  <2>1. \E e : ret' = [ret EXCEPT ![g] = Mutated(call[g], e)]
    BY <1>4 DEF Persisted, PersistFail, Unlock, Finish
  <2>2. \A e : Mutated(call[g], e) = [removed |-> TRUE, err |-> e]
    BY DEF Mutated
  <2>3. ret'[g].removed = TRUE
    BY <2>1, <2>2 DEF TypeOK
  <2> QED
    BY <2>3
<1> QED
  BY <1>1, <1>2, <1>3, <1>4 DEF Step

\* No handler answers 404 before it calls the store.
LEMMA NoEarly404 == ASSUME NEW r, NEW t PROVE Verdict(r, t) # 404
<1>1. Authenticate(r, t) \in {0, 400, 401, 413}
  BY DEF Authenticate
<1> QED
  BY <1>1 DEF Verdict

\* Every step keeps misses true.
LEMMA MissStep ==
    ASSUME TypeOK, LockInv, DiskInv, StoreWellFormed, Handlers, ApiNext,
           NEW g \in Proc, MissInv(g)
    PROVE  MissInv(g)'
<1> SUFFICES ASSUME Missed(g)' PROVE Gone(g)'
  BY DEF MissInv
<1>1. Observe /\ Handler(g) /\ g \in Goroutine
  BY Observing DEF Handlers, Goroutine
<1>2. CASE job'[g] = Idle
  BY <1>2 DEF Missed, Idle
<1>3. ASSUME NEW r \in Request, Arrive(g, r) PROVE FALSE
  <2>1. \/ /\ Call(g, FirstCall(r))
           /\ job'[g] = [at |-> "serve", req |-> r, time |-> now,
                         todo |-> {}, entries |-> {}]
        \/ job'[g] = Reply(r, Verdict(r, now), Nothing)
    BY <1>3, ArriveStep
  <2>2. Call(g, FirstCall(r)) => pc'[g] = "enter"
    BY OwnCall
  <2>3. CASE job'[g] = [at |-> "serve", req |-> r, time |-> now,
                        todo |-> {}, entries |-> {}] /\ Call(g, FirstCall(r))
    BY <2>2, <2>3 DEF Missed
  <2>4. CASE job'[g] = Reply(r, Verdict(r, now), Nothing)
    BY <2>4, NoEarly404 DEF Missed, Reply
  <2> QED
    BY <2>1, <2>3, <2>4
<1>4. CASE Handle(g)
  <2>1. CASE Replies(g) /\ job[g].at = "serve" /\ pc[g] = "done"
    <3>1. PICK st, b : /\ job'[g] = Reply(job[g].req, st, b)
                       /\ st = 404 => call[g].op = "Delete" /\ ~ ret[g].removed
      BY <2>1 DEF Replies
    <3>2. job'[g].at = "reply" /\ job'[g].req = job[g].req /\ job'[g].status = st
      BY <3>1 DEF Reply
    <3>3. Gone(g)
      BY <2>1, <3>1, <3>2 DEF Missed, MissInv
    <3> QED
      BY <1>1, <2>1, <3>2, <3>3, StaysGone DEF Active
  <2>2. CASE GoesOn(g) /\ job[g].at = "serve"
    <3>1. pc'[g] = "enter"
      BY <2>2, OwnCall DEF GoesOn
    <3>2. job'[g].at = "serve"
      <4>1. CASE job'[g] = job[g]
        BY <2>2, <4>1
      <4>2. ASSUME NEW n,
                   job'[g] = [at |-> "serve", req |-> job[g].req, time |-> job[g].time,
                              todo |-> Todo(g) \ {n}, entries |-> Listed(g)]
            PROVE  job'[g].at = "serve"
        BY <4>2
      <4> QED
        BY <2>2, <4>1, <4>2 DEF GoesOn
    <3> QED
      BY <3>1, <3>2 DEF Missed
  <2> QED
    BY <1>2, <1>4, <2>1, <2>2, HandlerStep
<1>5. CASE Works(g)
  <2>1. job'[g] = job[g] /\ call'[g] = call[g]
    BY <1>5 DEF Works
  <2>2. CASE Missed(g)
    <3>1. Gone(g) /\ Active(job[g])
      BY <2>2 DEF MissInv, Missed, Active
    <3> QED
      BY <1>1, <2>1, <3>1, StaysGone
  <2>3. CASE ~ Missed(g)
    <3>1. /\ job[g].at = "serve" /\ pc'[g] = "done" /\ call[g].op = "Delete"
          /\ ~ ret'[g].removed /\ Step(g)
      BY <1>5, <2>1, <2>3 DEF Missed, Works
    <3>2. DeleteMiss(g)
      BY <1>1, <3>1, OnlyMiss
    <3> QED
      BY <1>1, <2>1, <3>1, <3>2, MissIsGone
  <2> QED
    BY <2>2, <2>3
<1> QED
  BY <1>2, <1>3, <1>4, <1>5, LocalStep

(***************************************************************************)
(* Listings.                                                               *)
(***************************************************************************)
Shown(p, es) == \E e \in es : e.name = p[1] /\ p[2] \in e.recs

\* With the names of todo still to read and the entries es read, nothing
\* steady is lost and nothing was made up.
Shows(g, todo, es) ==
    /\ \A n \in todo : ToLower(n) = n
    /\ \A p \in steady[g] : p[1] \in todo \/ Shown(p, es)
    /\ \A e \in es : \A r \in e.recs : << e.name, r >> \in seen[g]

Listing(g) == job[g].at = "serve" /\ job[g].req.route = "records"

ListInv(g) ==
    /\ (Listing(g) /\ pc[g] = "done") => Shows(g, Todo(g), Listed(g))
    /\ (Listing(g) /\ pc[g] # "done" /\ call[g].op = "Lookup") =>
         Shows(g, job[g].todo \cup {call[g].name}, job[g].entries)
    /\ (job[g].at = "reply" /\ job[g].body.kind = "entries") =>
         job[g].req.route = "records" /\ Shows(g, {}, job[g].body.entries)

\* A step that leaves todo and the entries alone.
LEMMA StillShows ==
    ASSUME Observe, NEW g \in Proc, Active(job[g]), Lists(job'[g]),
           NEW todo, NEW es, Shows(g, todo, es)
    PROVE  Shows(g, todo, es)'
<1>1. steady'[g] \subseteq steady[g] /\ seen[g] \subseteq seen'[g]
  BY ObserveStep
<1>2. /\ \A n \in todo : ToLower(n) = n
      /\ \A p \in steady[g] : p[1] \in todo \/ Shown(p, es)
      /\ \A e \in es : \A r \in e.recs : << e.name, r >> \in seen[g]
  BY DEF Shows
<1>3. /\ \A p \in steady'[g] : p[1] \in todo \/ Shown(p, es)
      /\ \A e \in es : \A r \in e.recs : << e.name, r >> \in seen'[g]
  BY <1>1, <1>2
<1> QED
  BY <1>2, <1>3 DEF Shows

\* The calls of a listing.
LEMMA ListingCall ==
    ASSUME NEW g \in Proc, Handler(g), Listing(g)
    PROVE  call[g].op \in {"Names", "Lookup"}
<1> DEFINE r == job[g].req
<1>1. /\ r \in Request /\ Verdict(r, job[g].time) = 0 /\ r.route = "records"
      /\ call[g] = FirstCall(r) \/ call[g].op = "Lookup"
  BY DEF Handler, Serving, Listing
<1>2. FirstCall(r) = NamesCall
  BY <1>1, LetThrough
<1> QED
  BY <1>1, <1>2 DEF NamesCall

\* Its one step inside the store is to read.
LEMMA ListingReads ==
    ASSUME LockInv, NEW g \in Goroutine, Step(g), call[g].op \in {"Names", "Lookup"}
    PROVE  Read(g) /\ pc[g] = "enter"
<1>1. pc[g] \notin LockedPcs
  BY DEF LockInv
<1>2. Read(g)
  BY <1>1
  DEF Step, SetInvalid, SetLocked, DeleteMiss, DeleteLocked, OpenTmp, FillTmp,
      RenameTmp, Persisted, PersistFail, LockedPcs
<1> QED
  BY <1>2 DEF Read

\* What a read adds to a listing is true of what is visible at that moment.
LEMMA ReadShows ==
    ASSUME TypeOK, LockInv, DiskInv, StoreWellFormed, Handlers, Observe,
           NEW g \in Proc, Listing(g), ListInv(g), job'[g] = job[g], call'[g] = call[g],
           Step(g)
    PROVE  pc'[g] = "done" /\ Shows(g, Todo(g), Listed(g))'
<1>1. g \in Goroutine /\ Handler(g) /\ Active(job[g]) /\ Lists(job'[g])
  BY DEF Handlers, Goroutine, Listing, Active, Lists
<1>2. call[g].op \in {"Names", "Lookup"} /\ Read(g) /\ pc[g] = "enter"
  BY <1>1, ListingCall, ListingReads
<1>3. pc'[g] = "done" /\ visible' = visible /\ mu = Nobody
  BY <1>1, <1>2 DEF Read, Readable, Finish, TypeOK, history
<1>4. visible.records = records /\ phase # "down"
  BY <1>1, <1>2, <1>3 DEF LockInv, DiskInv, Snapshot
<1>5. /\ steady'[g] \subseteq Pairs(records) /\ steady'[g] \subseteq steady[g]
      /\ Pairs(records) \subseteq seen'[g] /\ seen[g] \subseteq seen'[g]
  BY <1>1, <1>3, <1>4, ObserveStep
<1>6. ASSUME NEW n \in DOMAIN records PROVE ToLower(n) = n
  <2>1. n \in Name /\ ValidName(n)
    BY DEF StoreWellFormed, WellFormed, TypeOK, State, RecordMap, Snapshot
  <2> QED
    BY <2>1, ValidIsLower
<1>7. CASE call[g].op = "Names"
  <2>1. ret'[g].names = DOMAIN records
    BY <1>1, <1>2, <1>4, <1>7, ReadStep
  <2>2. Todo(g)' = DOMAIN records /\ Listed(g)' = {}
    BY <1>7, <2>1 DEF Todo, Listed
  <2>3. \A p \in steady'[g] : p[1] \in DOMAIN records
    BY <1>5, PairsIn
  <2>4. /\ \A n \in Todo(g)' : ToLower(n) = n
        /\ \A p \in steady'[g] : p[1] \in Todo(g)' \/ Shown(p, Listed(g)')
        /\ \A e \in Listed(g)' : \A r \in e.recs : << e.name, r >> \in seen'[g]
    BY <1>6, <2>2, <2>3
  <2> QED
    BY <1>3, <2>4 DEF Shows
<1>8. CASE call[g].op = "Lookup"
  <2> DEFINE n    == call[g].name
             todo == job[g].todo
             es   == job[g].entries
             recs == At(records, n)
             new  == [name |-> n, recs |-> recs]
  <2>1. Shows(g, todo \cup {n}, es)
    BY <1>2, <1>8 DEF ListInv
  <2>2. ToLower(n) = n /\ \A m \in todo : ToLower(m) = m
    BY <2>1 DEF Shows
  <2>3. ret'[g].recs = recs
    BY <1>1, <1>2, <1>4, <1>8, <2>2, ReadStep
  <2>4. Todo(g)' = todo /\ Listed(g)' = es \cup {new}
    BY <1>8, <2>3 DEF Todo, Listed
  <2>5. new.name = n /\ new.recs = recs
    OBVIOUS
  <2> HIDE DEF n, todo, es, new
  <2>6. ASSUME NEW p \in steady'[g] PROVE p[1] \in todo \/ Shown(p, es \cup {new})
    <3>1. p[1] \in todo \/ p[1] = n \/ Shown(p, es)
      BY <1>5, <2>1 DEF Shows
    <3>2. CASE p[1] = n
      <4>1. p[1] \in DOMAIN records /\ p[2] \in records[p[1]]
        BY <1>5, PairsIn
      <4>2. p[2] \in new.recs
        BY <2>5, <3>2, <4>1 DEF At
      <4> QED
        BY <2>5, <3>2, <4>2 DEF Shown
    <3>3. CASE Shown(p, es)
      BY <3>3 DEF Shown
    <3> QED
      BY <3>1, <3>2, <3>3
  <2>7. ASSUME NEW e \in es \cup {new}, NEW r \in e.recs
        PROVE  << e.name, r >> \in seen'[g]
    <3>1. CASE e = new
      <4>1. << n, r >> \in Pairs(records)
        BY <2>5, <2>7, <3>1, PairsIn
      <4> QED
        BY <1>5, <2>5, <3>1, <4>1
    <3>2. CASE e \in es
      BY <1>5, <2>1, <2>7, <3>2 DEF Shows
    <3> QED
      BY <2>7, <3>1, <3>2
  <2> QED
    BY <1>3, <2>2, <2>4, <2>6, <2>7 DEF Shows
<1> QED
  BY <1>2, <1>7, <1>8

\* Every step keeps listings faithful.
LEMMA ListStep ==
    ASSUME TypeOK, LockInv, DiskInv, StoreWellFormed, Handlers, ApiNext,
           NEW g \in Proc, ListInv(g)
    PROVE  ListInv(g)'
<1>1. Observe /\ Handler(g) /\ g \in Goroutine
  BY Observing DEF Handlers, Goroutine
<1>2. CASE job'[g] = Idle
  BY <1>2 DEF ListInv, Listing, Idle
<1>3. ASSUME NEW r \in Request, Arrive(g, r) PROVE ListInv(g)'
  <2>1. CASE /\ Verdict(r, now) = 0 /\ Call(g, FirstCall(r))
             /\ job'[g] = [at |-> "serve", req |-> r, time |-> now,
                           todo |-> {}, entries |-> {}]
    <3>1. pc'[g] = "enter" /\ call'[g] = FirstCall(r)
      BY <2>1, OwnCall
    <3>2. r.route = "records" => call'[g].op # "Lookup"
      BY <2>1, <3>1, LetThrough DEF NamesCall
    <3>3. job'[g].at = "serve" /\ job'[g].req = r
      BY <2>1
    <3> QED
      BY <3>1, <3>2, <3>3 DEF ListInv, Listing
  <2>2. CASE job'[g] = Reply(r, Verdict(r, now), Nothing)
    <3>1. job'[g].at = "reply" /\ job'[g].body.kind = "message"
      BY <2>2 DEF Reply, Nothing
    <3> QED
      BY <3>1 DEF ListInv, Listing
  <2> QED
    BY <1>3, <2>1, <2>2, ArriveStep
<1>4. CASE Handle(g)
  <2>1. CASE Replies(g) /\ job[g].at = "serve" /\ pc[g] = "done"
    <3>1. PICK st, b : /\ job'[g] = Reply(job[g].req, st, b)
                       /\ b.kind = "entries" =>
                            /\ call[g].op \in {"Names", "Lookup"}
                            /\ Todo(g) = {} /\ b.entries = Listed(g)
      BY <2>1 DEF Replies
    <3>2. job'[g].at = "reply" /\ job'[g].req = job[g].req /\ job'[g].body = b
      BY <3>1 DEF Reply
    <3>3. ASSUME b.kind = "entries"
          PROVE  job'[g].req.route = "records" /\ Shows(g, {}, b.entries)'
      <4>1. job[g].req.route = "records"
        BY <1>1, <2>1, <3>1, <3>3, ServingCall
      <4>2. Shows(g, {}, b.entries)
        BY <2>1, <3>1, <3>3, <4>1 DEF ListInv, Listing
      <4>3. Active(job[g]) /\ Lists(job'[g])
        BY <2>1, <3>2, <4>1 DEF Active, Lists
      <4> QED
        BY <1>1, <3>2, <4>1, <4>2, <4>3, StillShows
    <3> QED
      BY <3>2, <3>3 DEF ListInv, Listing
  <2>2. CASE GoesOn(g) /\ job[g].at = "serve" /\ pc[g] = "done"
    <3>1. CASE /\ CallAgain(g, SerialCall) /\ job'[g] = job[g]
               /\ job[g].req.route \in {"record", "acme"}
      BY <2>2, <3>1 DEF ListInv, Listing
    <3>2. ASSUME call[g].op \in {"Names", "Lookup"}, NEW n \in Todo(g),
                 CallAgain(g, LookupCall(n)),
                 job'[g] = [at |-> "serve", req |-> job[g].req, time |-> job[g].time,
                            todo |-> Todo(g) \ {n}, entries |-> Listed(g)]
          PROVE  ListInv(g)'
      <4>1. /\ job'[g].at = "serve" /\ job'[g].req = job[g].req
            /\ job'[g].todo = Todo(g) \ {n} /\ job'[g].entries = Listed(g)
        BY <3>2
      <4>2. call'[g] = LookupCall(n) /\ pc'[g] = "enter"
        BY <3>2, OwnCall
      <4>3. call'[g].name = n
        BY <4>2 DEF LookupCall
      <4>4. job[g].req.route = "records"
        BY <1>1, <2>2, <3>2, ServingCall
      <4>5. Shows(g, Todo(g), Listed(g))
        BY <2>2, <4>4 DEF ListInv, Listing
      <4>6. Active(job[g]) /\ Lists(job'[g])
        BY <2>2, <4>1, <4>4 DEF Active, Lists
      <4> DEFINE todo == Todo(g)
                 es   == Listed(g)
      <4>7. ASSUME NEW x, x = todo, NEW y, y = es PROVE Shows(g, x, y)'
        BY <1>1, <4>5, <4>6, <4>7, StillShows
      <4>8. job'[g].todo \cup {call'[g].name} = todo /\ job'[g].entries = es
        BY <4>1, <4>3, <3>2
      <4>9. Shows(g, job[g].todo \cup {call[g].name}, job[g].entries)'
        BY <4>7, <4>8
      <4> QED
        BY <4>1, <4>2, <4>9 DEF ListInv, Listing
    <3> QED
      BY <2>2, <3>1, <3>2 DEF GoesOn
  <2> QED
    BY <1>2, <1>4, <2>1, <2>2, HandlerStep
<1>5. CASE Works(g)
  <2>1. job'[g] = job[g] /\ call'[g] = call[g]
    BY <1>5 DEF Works
  <2>2. CASE pc'[g] = pc[g] /\ ret'[g] = ret[g]
    <3>1. PICK todo, es, left, got, all :
            /\ todo = Todo(g) /\ es = Listed(g)
            /\ left = job[g].todo \cup {call[g].name} /\ got = job[g].entries
            /\ all = job[g].body.entries
      OBVIOUS
    <3>2. /\ todo = Todo(g)' /\ es = Listed(g)'
          /\ left = job'[g].todo \cup {call'[g].name} /\ got = job'[g].entries
          /\ all = job'[g].body.entries
      BY <2>1, <2>2, <3>1 DEF Todo, Listed
    <3>3. ASSUME NEW x, NEW y, Shows(g, x, y),
                 Listing(g) \/ (job[g].at = "reply" /\ job[g].req.route = "records")
          PROVE  Shows(g, x, y)'
      <4>1. Active(job[g]) /\ Lists(job'[g])
        BY <2>1, <3>3 DEF Active, Lists, Listing
      <4> QED
        BY <1>1, <3>3, <4>1, StillShows
    <3>4. /\ (Listing(g) /\ pc[g] = "done") => Shows(g, todo, es)
          /\ (Listing(g) /\ pc[g] # "done" /\ call[g].op = "Lookup") => Shows(g, left, got)
          /\ (job[g].at = "reply" /\ job[g].body.kind = "entries") =>
               job[g].req.route = "records" /\ Shows(g, {}, all)
      BY <3>1 DEF ListInv
    <3>5. /\ (Listing(g) /\ pc[g] = "done") => Shows(g, todo, es)'
          /\ (Listing(g) /\ pc[g] # "done" /\ call[g].op = "Lookup") => Shows(g, left, got)'
          /\ (job[g].at = "reply" /\ job[g].body.kind = "entries") =>
               job[g].req.route = "records" /\ Shows(g, {}, all)'
      BY <3>3, <3>4
    <3>6. /\ Shows(g, todo, es)' => Shows(g, Todo(g), Listed(g))'
          /\ Shows(g, left, got)' =>
               Shows(g, job[g].todo \cup {call[g].name}, job[g].entries)'
          /\ Shows(g, {}, all)' => Shows(g, {}, job[g].body.entries)'
      BY <3>2 DEF Shows
    <3> QED
      BY <2>1, <2>2, <3>5, <3>6 DEF ListInv, Listing
  <2>3. CASE Step(g)
    <3>1. CASE Listing(g)
      <4>1. pc'[g] = "done" /\ Shows(g, Todo(g), Listed(g))'
        BY <1>1, <2>1, <2>3, <3>1, ReadShows
      <4> QED
        BY <2>1, <3>1, <4>1 DEF ListInv, Listing
    <3>2. CASE ~ Listing(g)
      <4>1. job[g].at # "reply"
        BY <1>1, <2>3, CallGoesOn DEF Handler, LockedPcs
      <4> QED
        BY <2>1, <3>2, <4>1 DEF ListInv, Listing
    <3> QED
      BY <3>1, <3>2
  <2> QED
    BY <1>5, <2>2, <2>3 DEF Works
<1> QED
  BY <1>2, <1>3, <1>4, <1>5, LocalStep

(***************************************************************************)
(* The theorems.                                                           *)
(***************************************************************************)
AnswersInv == \A g \in Proc : MissInv(g) /\ ListInv(g)

LEMMA AnswersAlways == ApiSpec => []AnswersInv
<1>1. ApiInit => AnswersInv
  BY DEF ApiInit, AnswersInv, MissInv, Missed, ListInv, Listing, Idle
<1>2. ApiStoreInv /\ AnswersInv /\ [ApiNext]_apiAll => AnswersInv'
  <2> SUFFICES ASSUME ApiStoreInv, AnswersInv, [ApiNext]_apiAll
               PROVE  AnswersInv'
    OBVIOUS
  <2>1. TypeOK /\ LockInv /\ DiskInv /\ StoreWellFormed /\ Handlers
    BY DEF ApiStoreInv, IInv
  <2>2. CASE ApiNext
    BY <2>1, <2>2, MissStep, ListStep DEF AnswersInv
  <2>3. CASE UNCHANGED apiAll
    <3>1. /\ job' = job /\ steady' = steady /\ seen' = seen /\ standing' = standing
          /\ pc' = pc /\ call' = call /\ ret' = ret
      BY <2>3 DEF apiAll, apiVars, storeVars, vars, procVars
    <3>2. ASSUME NEW g \in Proc PROVE MissInv(g)'
      BY <3>1 DEF AnswersInv, MissInv, Missed, Gone
    <3>3. ASSUME NEW g \in Proc PROVE ListInv(g)'
      <4>1. ListInv(g)
        BY DEF AnswersInv
      <4>2. Todo(g)' = Todo(g) /\ Listed(g)' = Listed(g)
        BY <3>1 DEF Todo, Listed
      <4> QED
        BY <3>1, <4>1, <4>2 DEF ListInv, Listing, Shows
    <3> QED
      BY <3>2, <3>3 DEF AnswersInv
  <2> QED
    BY <2>2, <2>3
<1> QED
  BY <1>1, <1>2, ApiStoreAlways, PTL DEF ApiSpec, apiAll

\* A 404 is true: at some moment of the request the name its path spells had
\* no records, or no TXT record where a challenge was to be cleared; that its
\* records were overwritten meanwhile is not enough.
THEOREM NotFoundTrue == ApiSpec => []NotFoundIsTrue
<1>1. AnswersInv => NotFoundIsTrue
  BY DEF AnswersInv, MissInv, Missed, Gone, NotFoundIsTrue
<1> QED
  BY <1>1, AnswersAlways, PTL

\* A listing shows every record that was registered all the while and none
\* that was not registered at some moment of the request.
THEOREM ListFaithful == ApiSpec => []ListIsFaithful
<1>1. AnswersInv => ListIsFaithful
  BY DEF AnswersInv, ListInv, Shows, Shown, ListIsFaithful
<1> QED
  BY <1>1, AnswersAlways, PTL

(***************************************************************************)
(* Serials.                                                                *)
(***************************************************************************)

\* The serial has not reached its last value.
RoomInSerial == serial < SerialMod - 1

\* The serial of a request's mutation is behind the store's serial, behind
\* the serial its handler reads and behind the one it reports.
SerialCovers(g) ==
    /\ mine[g] \in Nat
    /\ ~ Active(job[g]) => mine[g] = 0
    /\ Active(job[g]) => mine[g] <= serial
    /\ (job[g].at = "serve" /\ pc[g] = "done" /\ call[g].op = "Serial") =>
         mine[g] <= ret[g].serial
    /\ (job[g].at = "reply" /\ job[g].body.kind = "serial") =>
         mine[g] <= job[g].body.serial

\* While the process runs, the serial moves by one or stays.
LEMMA SerialGrows ==
    ASSUME TypeOK, [AnyUse]_vars, phase = "up", phase' = "up", RoomInSerial
    PROVE  serial \in Nat /\ serial' \in {serial, serial + 1}
<1>1. serial \in 0..(SerialMod - 1)
  BY DEF TypeOK, State, Snapshot
<1>2. Bump(serial) = serial + 1 /\ serial \in Nat
  BY <1>1, SerialModAssumption DEF Bump, RoomInSerial, SerialModAssumption
<1>3. serial' = serial \/ serial' = Bump(serial)
  <2>1. CASE UNCHANGED vars
    BY <2>1 DEF vars, memVars
  <2>2. CASE Life
    BY <2>2
    DEF Life, Start, SeedCall, SeedReturn, Listen, Stop, Enter, Leave, memVars
  <2>3. CASE \E g \in Goroutine : Step(g)
    BY <2>3
    DEF Step, SetInvalid, SetLocked, DeleteMiss, DeleteLocked, Read, Mutate, OpenTmp,
        FillTmp, RenameTmp, Persisted, PersistFail, Unlock, memVars
  <2>4. CASE \E g \in Proc : Return(g) \/ \E o \in Op : Call(g, o) \/ CallAgain(g, o)
    BY <2>4 DEF Return, Call, CallAgain, Enter, Leave, memVars
  <2> QED
    BY <2>1, <2>2, <2>3, <2>4 DEF AnyUse, Use
<1> QED
  BY <1>2, <1>3

\* A mutation's serial is the store's, and no other step changes it.
LEMMA MineStep ==
    ASSUME TypeOK, LockInv, Handlers, Handlers', ApiNext, [AnyUse]_vars, RoomInSerial,
           NEW g \in Proc, SerialCovers(g), Active(job'[g])
    PROVE  /\ mine'[g] \in Nat /\ mine'[g] <= serial'
           /\ mine'[g] = mine[g] \/ (pc[g] = "enter" /\ call[g].op # "Serial")
<1>1. mine'[g] = IF Mutates(g) THEN serial' ELSE mine[g]
  BY Observing DEF Observe, Mutates
<1>2. phase' = "up"
  BY DEF Handlers, Handler, Active
<1>3. CASE Active(job[g])
  <2>1. phase = "up"
    BY <1>3 DEF Handlers, Handler, Active
  <2>2. serial \in Nat /\ serial' \in {serial, serial + 1}
    BY <1>2, <2>1, SerialGrows
  <2>3. Mutates(g) => pc[g] = "enter" /\ call[g].op # "Serial"
    BY TakesLock DEF SetLocked, DeleteLocked, Goroutine
  <2> QED
    BY <1>1, <1>3, <2>2, <2>3 DEF SerialCovers
<1>4. CASE ~ Active(job[g])
  <2>1. pc[g] = "idle"
    BY <1>4 DEF Handlers, Handler, Active
  <2>2. ~ Mutates(g)
    BY <2>1, TakesLock DEF SetLocked, DeleteLocked, Goroutine
  <2>3. phase = "up"
    <3>1. job[g].at = "idle" /\ job'[g].at # "idle"
      BY <1>4 DEF Active
    <3>2. ~ Handle(g)
      BY <3>1, HandlerStep
    <3>3. ~ Works(g) /\ job'[g] # Idle
      BY <3>1 DEF Works, Idle
    <3>4. PICK r \in Request : Arrive(g, r)
      BY <3>2, <3>3, LocalStep
    <3> QED
      BY <3>4 DEF Arrive
  <2>4. serial \in Nat /\ serial' \in {serial, serial + 1}
    BY <1>2, <2>3, SerialGrows
  <2> QED
    BY <1>1, <1>4, <2>2, <2>4 DEF SerialCovers
<1> QED
  BY <1>3, <1>4

\* Every step keeps the serials in order.
LEMMA SerialCoversStep ==
    ASSUME TypeOK, LockInv, Handlers, Handlers', ApiNext, [AnyUse]_vars, RoomInSerial,
           NEW g \in Proc, SerialCovers(g)
    PROVE  SerialCovers(g)'
<1>1. g \in Goroutine /\ Handler(g)
  BY DEF Handlers, Goroutine
<1>2. CASE ~ Active(job'[g])
  <2>1. mine'[g] = 0
    BY <1>2, Observing DEF Observe
  <2> QED
    BY <1>2, <2>1 DEF SerialCovers, Active
<1>3. CASE Active(job'[g])
  <2>1. /\ mine'[g] \in Nat /\ mine'[g] <= serial'
        /\ mine'[g] = mine[g] \/ (pc[g] = "enter" /\ call[g].op # "Serial")
    BY <1>3, MineStep
  <2>2. (job'[g].at = "serve" /\ pc'[g] = "done" /\ call'[g].op = "Serial") =>
          mine'[g] <= ret'[g].serial
    <3> SUFFICES ASSUME job'[g].at = "serve", pc'[g] = "done", call'[g].op = "Serial"
                 PROVE  mine'[g] <= ret'[g].serial
      OBVIOUS
    <3>1. Works(g)
      <4>1. ASSUME NEW r \in Request, Arrive(g, r) PROVE FALSE
        <5>1. CASE Call(g, FirstCall(r))
          BY <5>1, OwnCall
        <5>2. CASE UNCHANGED vars
          <6>1. job[g] = Idle
            BY <4>1 DEF Arrive
          <6>2. pc'[g] = "idle"
            BY <1>1, <5>2, <6>1 DEF Handler, Idle, vars, procVars
          <6> QED
            BY <6>2
        <5> QED
          BY <4>1, <5>1, <5>2, ArriveStep
      <4>2. ASSUME Handle(g) PROVE FALSE
        <5>1. CASE Replies(g)
          BY <5>1, OwnCall DEF Replies
        <5>2. CASE GoesOn(g)
          BY <5>2, OwnCall DEF GoesOn
        <5> QED
          BY <4>2, <5>1, <5>2, HandlerStep DEF Idle
      <4> QED
        BY <4>1, <4>2, LocalStep DEF Idle
    <3>2. job'[g] = job[g] /\ call'[g] = call[g]
      BY <3>1 DEF Works
    <3>3. CASE pc'[g] = pc[g] /\ ret'[g] = ret[g]
      BY <2>1, <3>2, <3>3 DEF SerialCovers
    <3>4. CASE Step(g)
      <4>1. Read(g)
        <5>1. pc[g] \notin LockedPcs
          BY <1>1, <3>2 DEF LockInv
        <5> QED
          BY <3>2, <3>4, <5>1
          DEF Step, SetInvalid, SetLocked, DeleteMiss, DeleteLocked, OpenTmp, FillTmp,
              RenameTmp, Persisted, PersistFail, LockedPcs
      <4>2. ret'[g] = [serial |-> serial] /\ serial' = serial
        BY <1>1, <3>2, <4>1 DEF Read, Finish, TypeOK, memVars
      <4>3. ret'[g].serial = serial'
        BY <4>2
      <4> QED
        BY <2>1, <4>3
    <3> QED
      BY <3>1, <3>3, <3>4 DEF Works
  <2>3. (job'[g].at = "reply" /\ job'[g].body.kind = "serial") =>
          mine'[g] <= job'[g].body.serial
    <3> SUFFICES ASSUME job'[g].at = "reply", job'[g].body.kind = "serial"
                 PROVE  mine'[g] <= job'[g].body.serial
      OBVIOUS
    <3>1. CASE Works(g)
      <4>1. job'[g] = job[g] /\ pc[g] = "idle"
        BY <1>1, <3>1 DEF Works, Handler
      <4> QED
        BY <2>1, <4>1 DEF SerialCovers
    <3>2. ASSUME NEW r \in Request, Arrive(g, r) PROVE FALSE
      <4>1. \/ job'[g] = [at |-> "serve", req |-> r, time |-> now,
                          todo |-> {}, entries |-> {}]
            \/ job'[g] = Reply(r, Verdict(r, now), Nothing)
        BY <3>2, ArriveStep
      <4>2. CASE job'[g] = [at |-> "serve", req |-> r, time |-> now,
                            todo |-> {}, entries |-> {}]
        BY <4>2
      <4>3. CASE job'[g] = Reply(r, Verdict(r, now), Nothing)
        BY <4>3 DEF Reply, Nothing
      <4> QED
        BY <4>1, <4>2, <4>3
    <3>3. CASE Handle(g)
      <4>1. CASE Replies(g) /\ job[g].at = "serve" /\ pc[g] = "done"
        <5>1. PICK st, b :
                /\ job'[g] = Reply(job[g].req, st, b)
                /\ b.kind = "serial" => call[g].op = "Serial" /\ b.serial = ret[g].serial
          BY <4>1 DEF Replies
        <5>2. job'[g].body = b
          BY <5>1 DEF Reply
        <5>3. call[g].op = "Serial" /\ job'[g].body.serial = ret[g].serial
          BY <5>1, <5>2
        <5> QED
          BY <2>1, <4>1, <5>3 DEF SerialCovers
      <4>2. CASE GoesOn(g) /\ job[g].at = "serve"
        <5>1. CASE job'[g] = job[g]
          BY <4>2, <5>1
        <5>2. ASSUME NEW n,
                     job'[g] = [at |-> "serve", req |-> job[g].req, time |-> job[g].time,
                                todo |-> Todo(g) \ {n}, entries |-> Listed(g)]
              PROVE  FALSE
          BY <5>2
        <5> QED
          BY <4>2, <5>1, <5>2 DEF GoesOn
      <4> QED
        BY <3>3, <4>1, <4>2, HandlerStep DEF Idle
    <3> QED
      BY <1>3, <3>1, <3>2, <3>3, LocalStep DEF Idle, Active
  <2> QED
    BY <1>3, <2>1, <2>2, <2>3 DEF SerialCovers
<1> QED
  BY <1>2, <1>3

\* As long as the serial has not reached its last value (4 billion updates),
\* the serial in the answer to an update is the one that update produced or a
\* later one, whatever the seeds and the restarts.
THEOREM SerialCovered == ApiSpec /\ []RoomInSerial => []ReportedSerialCoversUpdate
<1> DEFINE Covers == \A g \in Proc : SerialCovers(g)
           Base   == TypeOK /\ LockInv /\ Handlers
<1>1. ApiInit => Covers
  <2> SUFFICES ASSUME ApiInit, NEW g \in Proc PROVE SerialCovers(g)
    OBVIOUS
  <2>1. job[g] = Idle /\ mine[g] = 0
    BY DEF ApiInit
  <2> QED
    BY <2>1 DEF SerialCovers, Active, Idle
<1>2. Base /\ Base' /\ RoomInSerial /\ Covers /\ [ApiNext]_apiAll => Covers'
  <2> SUFFICES ASSUME Base, Base', RoomInSerial, Covers, [ApiNext]_apiAll,
                      NEW g \in Proc
               PROVE  SerialCovers(g)'
    OBVIOUS
  <2>1. CASE ApiNext
    <3>1. [AnyUse]_vars
      BY ApiUses, ApiOpsType DEF Use, AnyUse
    <3> QED
      BY <2>1, <3>1, SerialCoversStep
  <2>2. CASE UNCHANGED apiAll
    BY <2>2
    DEF apiAll, apiVars, storeVars, vars, memVars, procVars, SerialCovers
  <2> QED
    BY <2>1, <2>2
<1>3. Base /\ Covers => ReportedSerialCoversUpdate
  <2> SUFFICES ASSUME Covers, NEW g \in Proc,
                      job[g].at = "reply", job[g].body.kind = "serial"
               PROVE  job[g].body.serial >= mine[g]
    BY DEF ReportedSerialCoversUpdate
  <2> QED
    BY DEF SerialCovers
<1>4. ApiSpec => []Base
  BY HandlersAlways
<1> HIDE DEF Covers, Base
<1> QED
  BY <1>1, <1>2, <1>3, <1>4, PTL DEF ApiSpec, apiAll

\* Two clocks that the model knows are never so far apart that the drift in
\* nanoseconds leaves an int64 (292 years in the code).
ClocksFit == MaxNow * Second < IntHalf

(***************************************************************************)
(* What a command sends.                                                   *)
(***************************************************************************)
\* The record that the server builds of a type the client inferred.
\* A name is valid as its fully qualified form is.
LEMMA ValidBelow ==
    ASSUME NEW l \in Name
    PROVE  LET deep == Len(l \o Zone) - Len(Zone) IN
           /\ deep = Len(l) /\ Len(l) \in Nat
           /\ ValidName(l) <=>
                deep \in 1..3 /\ \A i \in 1..deep : (l \o Zone)[i] \in ValidLabel
<1>1. Len(l) \in Nat /\ DOMAIN l = 1..Len(l) /\ Len(Zone) \in Nat /\ Zone \in Name
  BY ToLowerLabels, ZoneType
<1>2. /\ Len(l \o Zone) = Len(l) + Len(Zone)
      /\ \A i \in 1..Len(l) : (l \o Zone)[i] = l[i]
  BY <1>1, ConcatProperties DEF Name
<1> DEFINE f == l \o Zone
           deep == Len(f) - Len(Zone)
<1>3. deep = Len(l)
  BY <1>1, <1>2
<1> HIDE DEF f, deep
<1>4. ValidName(l) <=> Len(l) \in 1..3 /\ \A i \in 1..Len(l) : l[i] \in ValidLabel
  BY <1>1 DEF ValidName, MaxLabels
<1>5. (\A i \in 1..Len(l) : l[i] \in ValidLabel)
        <=> \A i \in 1..Len(l) : f[i] \in ValidLabel
  BY <1>2 DEF f
<1>6. /\ deep = Len(l) /\ Len(l) \in Nat
      /\ ValidName(l) <=> deep \in 1..3 /\ \A i \in 1..deep : f[i] \in ValidLabel
  BY <1>1, <1>3, <1>4, <1>5
<1> QED
  BY <1>6 DEF f, deep

\* What is right to ask for, in terms of what the handlers cut out.
LEMMA RightIsValid ==
    ASSUME NEW n \in Name
    PROVE  RightName(n) <=> CanonicalName(n) # Zone /\ ValidName(Raw(n))
<1>1. Raw(n) \in Name /\ Raw(n) \o Zone = Asked(n)
  BY AcmeRaw
<1>2. LET deep == Len(Asked(n)) - Len(Zone) IN
      ValidName(Raw(n)) <=>
        deep \in 1..3 /\ \A i \in 1..deep : Asked(n)[i] \in ValidLabel
  BY <1>1, ValidBelow
<1> QED
  BY <1>2 DEF RightName

\* relName accepts the right names and no other.
LEMMA RecordRight ==
    ASSUME NEW n \in Name
    PROVE  ValidName(RelName(n)) <=> RightName(n)
<1> DEFINE m == CanonicalName(n)
<1>1. m \in Name /\ TrimDot(ToLower(n)) = m
  BY TrimOfLower, CanonicalNameType
<1>2. RelName(n) = IF Under(m, Zone) THEN Left(m, Zone)
                   ELSE IF m = Zone THEN EmptyName ELSE m
  BY <1>1 DEF RelName
<1>3. Raw(n) = IF Under(m, Zone) THEN Left(m, Zone) ELSE m
  BY DEF Raw
<1>4. ~ Under(Zone, Zone)
  BY ZoneType DEF Under
<1>5. ~ ValidName(EmptyName)
  <2>1. "" \notin ValidLabel
    BY ValidLabelAssumption DEF ValidLabelAssumption
  <2>2. EmptyName[1] = "" /\ 1 \in DOMAIN EmptyName
    BY DEF EmptyName
  <2> QED
    BY <2>1, <2>2 DEF ValidName
<1>6. RightName(n) <=> m # Zone /\ ValidName(Raw(n))
  BY RightIsValid
<1> HIDE DEF m
<1>7. CASE m = Zone
  BY <1>2, <1>4, <1>5, <1>6, <1>7
<1>8. CASE m # Zone
  BY <1>2, <1>3, <1>6, <1>8
<1> QED
  BY <1>7, <1>8

\* A label more leaves one label less.
LEMMA FourthLabel ==
    ASSUME NEW k \in Nat, NEW z \in Nat
    PROVE  /\ z # z + 3
           /\ k = 0 => 1 + k \in 1..3
           /\ k # 0 => (1 + k \in 1..3 <=> k \in 1..3 /\ k + z # z + 3)
OBVIOUS

\* acme accepts the right names of one and two labels and the apex.
LEMMA AcmeRight ==
    ASSUME NEW n \in Name
    PROVE  ValidName(AcmeOwner(n)) <=>
             /\ RightName(n) \/ Challenged(n) = Zone
             /\ Len(Challenged(n)) # Len(Zone) + 3
<1> DEFINE raw == Raw(n)
           pre == << AcmePrefix >>
<1>1. /\ raw \in Name /\ raw \o Zone = Asked(n)
      /\ AcmeOwner(n) = IF raw \in ApexNames THEN pre ELSE pre \o raw
      /\ Challenged(n) = IF raw \in ApexNames THEN Zone ELSE Asked(n)
      /\ CanonicalName(n) = Zone => raw \in ApexNames
      /\ RightName(n) <=> CanonicalName(n) # Zone /\ ValidName(raw)
  BY AcmeRaw, RightIsValid
<1>2. /\ pre \in Name /\ Len(pre) = 1 /\ pre[1] = AcmePrefix /\ AcmePrefix \in ValidLabel
  BY ApiAssumption, ValidLabelAssumption, OneLabel DEF ApiAssumption, ValidLabelAssumption
<1>3. /\ Len(raw) \in Nat /\ DOMAIN raw = 1..Len(raw) /\ Len(Zone) \in Nat
  BY <1>1, ToLowerLabels, ZoneType
<1>4. Len(raw \o Zone) = Len(raw) + Len(Zone)
  BY <1>1, ZoneType, ConcatProperties DEF Name
<1> HIDE DEF raw
<1>5. CASE raw \in ApexNames
  <2>1. ValidName(pre)
    BY <1>2 DEF ValidName, MaxLabels
  <2>2. Len(Zone) # Len(Zone) + 3
    BY <1>3
  <2> QED
    BY <1>1, <1>5, <2>1, <2>2
<1>6. CASE raw \notin ApexNames
  <2>1. AcmeOwner(n) = pre \o raw /\ Challenged(n) = raw \o Zone /\ CanonicalName(n) # Zone
    BY <1>1, <1>6
  <2>2. /\ Len(pre \o raw) = 1 + Len(raw) /\ DOMAIN (pre \o raw) = 1..(1 + Len(raw))
        /\ \A i \in 1..(1 + Len(raw)) :
             (pre \o raw)[i] = IF i <= 1 THEN pre[i] ELSE raw[i - 1]
    BY <1>1, <1>2, ConcatProperties DEF Name
  <2> DEFINE own == pre \o raw
             each == \A i \in 1..Len(raw) : raw[i] \in ValidLabel
  <2>3. (\A i \in DOMAIN own : own[i] \in ValidLabel) <=> each
    <3>1. ASSUME \A i \in DOMAIN own : own[i] \in ValidLabel, NEW i \in 1..Len(raw)
          PROVE  raw[i] \in ValidLabel
      <4>1. i + 1 \in 1..(1 + Len(raw)) /\ ~ (i + 1 <= 1) /\ (i + 1) - 1 = i
        BY <1>3
      <4> QED
        BY <2>2, <3>1, <4>1
    <3>2. ASSUME each, NEW i \in DOMAIN own PROVE own[i] \in ValidLabel
      <4>1. CASE i = 1
        BY <1>2, <2>2, <4>1
      <4>2. CASE i # 1
        <5>1. i - 1 \in 1..Len(raw) /\ ~ (i <= 1) /\ i \in 1..(1 + Len(raw))
          BY <1>3, <2>2, <3>2, <4>2
        <5> QED
          BY <2>2, <3>2, <5>1
      <4> QED
        BY <4>1, <4>2
    <3> QED
      BY <3>1, <3>2
  <2>4. ValidName(own) <=> 1 + Len(raw) \in 1..3 /\ each
    BY <2>2, <2>3 DEF ValidName, MaxLabels
  <2>5. ValidName(raw) <=> Len(raw) \in 1..3 /\ each
    BY <1>3 DEF ValidName, MaxLabels
  <2> HIDE DEF own, each
  <2>6. CASE Len(raw) = 0
    <3>1. raw = << >>
      BY <1>1, <2>6, EmptySeq DEF Name
    <3>2. raw \o Zone = Zone /\ each
      BY <1>3, <2>6, <3>1, ZoneType DEF Name, each
    <3>3. ValidName(own) /\ Len(Zone) # Len(Zone) + 3
      <4>1. 1 + Len(raw) \in 1..3 /\ Len(Zone) # Len(Zone) + 3
        BY <1>3, <2>6, FourthLabel
      <4> QED
        BY <2>4, <3>2, <4>1
    <3> QED
      BY <2>1, <3>2, <3>3 DEF own
  <2>7. CASE Len(raw) # 0
    <3>1. raw \o Zone # Zone
      BY <1>3, <1>4, <2>7
    <3>2. RightName(n) <=> Len(raw) \in 1..3 /\ each
      BY <1>1, <2>1, <2>5
    <3>3. 1 + Len(raw) \in 1..3 <=> Len(raw) \in 1..3 /\ Len(raw) + Len(Zone) # Len(Zone) + 3
      BY <1>3, <2>7, FourthLabel
    <3> QED
      BY <1>4, <2>1, <2>4, <3>1, <3>2, <3>3 DEF own
  <2> QED
    BY <2>6, <2>7
<1> QED
  BY <1>5, <1>6

\* What runUpdate sends is, for buildRecord, the record that was asked for.
SentType(c) == IF c.type = "" THEN InferredType(c.value) ELSE c.type

LEMMA BuildsWanted ==
    ASSUME NEW c \in Command, c.cmd = "update", c.value.addr \in Addr \cup {NoAddr}
    PROVE  BuildRecord(Body(SentType(c), c.value, c.ttl)) = Wanted(c)
<1> DEFINE v    == c.value
           b    == Body(SentType(c), v, c.ttl)
           type == UpperOf[SentType(c)]
           is(t) == IF c.type # "" THEN UpperOf[c.type] = t
                    ELSE (t = "TXT") <=> (v.addr = NoAddr)
           four == [fam |-> "v4", bits |-> v.addr.bits]
           recA == AddrRecord("A", four, c.ttl)
           rec6 == AddrRecord("AAAA", v.addr, c.ttl)
           recT == TxtRecord(v.txt, c.ttl)
           fam  == v.addr.fam
           fits == v.txt \in ValidText
<1>1. b.type = SentType(c) /\ b.addr = v.addr /\ b.txt = v.txt /\ b.ttl = c.ttl
  BY DEF Body
<1>2. fam \in {"zero", "v4", "v6", "4in6"} /\ (v.addr = NoAddr <=> fam = "zero")
  BY DEF Addr, NoAddr
<1>3. fam \in {"v4", "4in6"} => Unmap(v.addr) = four
  BY DEF Addr, NoAddr, Unmap, Is4In6
<1>4. /\ (Is4(v.addr) \/ Is4In6(v.addr)) <=> fam \in {"v4", "4in6"}
      /\ (Is6(v.addr) /\ ~ Is4In6(v.addr)) <=> fam = "v6"
  BY DEF Is4, Is4In6, Is6
<1>5. Wanted(c) = CASE is("A") /\ fam \in {"v4", "4in6"} -> recA
                    [] is("AAAA") /\ fam = "v6" -> rec6
                    [] is("TXT") /\ fits -> recT
                    [] OTHER -> NoRecord
  BY DEF Wanted
<1>6. BuildRecord(b) =
        CASE type = "A" /\ fam \in {"v4", "4in6"} -> AddrRecord("A", Unmap(v.addr), c.ttl)
          [] type = "AAAA" /\ fam = "v6" -> rec6
          [] type = "TXT" /\ fits -> recT
          [] OTHER -> NoRecord
  BY <1>1, <1>4 DEF BuildRecord
<1>7. c.type # "" => /\ is("A") <=> type = "A"
                     /\ is("AAAA") <=> type = "AAAA"
                     /\ is("TXT") <=> type = "TXT"
  BY DEF SentType
<1>8. c.type = "" => /\ type = IF fam = "zero" THEN "TXT"
                              ELSE IF fam \in {"v4", "4in6"} THEN "A" ELSE "AAAA"
                     /\ is("A") <=> fam # "zero"
                     /\ is("AAAA") <=> fam # "zero"
                     /\ is("TXT") <=> fam = "zero"
  <2>1. InferredType(v) = IF fam = "zero" THEN "TXT"
                          ELSE IF fam \in {"v4", "4in6"} THEN "A" ELSE "AAAA"
    BY DEF InferredType, IsValid, Unmap, Is4, Is4In6, Addr, NoAddr
  <2>2. InferredType(v) \in Type
    BY <2>1 DEF Type
  <2>3. UpperOf[InferredType(v)] = InferredType(v)
    BY <2>2, CommandAssumption DEF CommandAssumption
  <2> QED
    BY <1>2, <2>1, <2>3 DEF SentType
<1> HIDE DEF b, type, is, four, recA, rec6, recT, fam, fits
<1>9. BuildRecord(b) = Wanted(c)
  <2>1. CASE c.type # ""
    BY <1>3, <1>5, <1>6, <1>7, <2>1 DEF recA
  <2>2. CASE c.type = ""
    BY <1>2, <1>3, <1>5, <1>6, <1>8, <2>2 DEF recA
  <2> QED
    BY <2>1, <2>2
<1> QED
  BY <1>9 DEF b

\* The request that a command makes.
Authentic(r, t) ==
    /\ r.ts = [ok |-> TRUE, val |-> t]
    /\ r.sig = Sign(ApiKey, r.method, Path(r), r.ts.val, r.body)

AcmeBody(c) == Body("", c.value, 0)

Shape(c, t, r) ==
    /\ Authentic(r, t)
    /\ r.body.kind \in {"json", "empty"}
    /\ c.cmd = "update" =>
         /\ r.method = "PUT" /\ r.route = "record" /\ r.name = c.name
         /\ r.body = Body(SentType(c), c.value, c.ttl)
    /\ c.cmd = "delete" =>
         r.method = "DELETE" /\ r.route = "record" /\ r.name = c.name
    /\ c.cmd = "acme set" =>
         /\ r.method = "PUT" /\ r.route = "acme" /\ r.name = c.name
         /\ r.body = AcmeBody(c)
    /\ c.cmd = "acme clear" =>
         r.method = "DELETE" /\ r.route = "acme" /\ r.name = c.name
    /\ c.cmd = "list" => r.method = "GET" /\ r.route = "records"

LEMMA SignedShape ==
    ASSUME NEW r, NEW method, NEW route, NEW name, NEW body, NEW t,
           r = Signed(method, route, name, body, t)
    PROVE  /\ Authentic(r, t)
           /\ r.method = method /\ r.route = route /\ r.name = name /\ r.body = body
BY DEF Signed, Authentic, Path

LEMMA SentShape ==
    ASSUME NEW c \in Command, NEW t, NEW r, r = Sent(c, t)
    PROVE  Shape(c, t, r)
<1>1. c.cmd \in {"update", "delete", "acme set", "acme clear", "list"}
  BY CommandAssumption DEF CommandAssumption
<1>2. NoBody.kind = "empty" /\ \A y, v, x : Body(y, v, x).kind = "json"
  BY DEF NoBody, Body
<1>3. CASE c.cmd = "update"
  <2>1. r = Signed("PUT", "record", c.name, Body(SentType(c), c.value, c.ttl), t)
    BY <1>3 DEF Sent, SentType
  <2>2. /\ Authentic(r, t)
        /\ r.method = "PUT" /\ r.route = "record" /\ r.name = c.name /\ r.body = Body(SentType(c), c.value, c.ttl)
    BY <2>1, SignedShape
  <2> QED
    BY <1>2, <1>3, <2>2 DEF Shape
<1>4. CASE c.cmd = "delete"
  <2>1. r = Signed("DELETE", "record", c.name, NoBody, t)
    BY <1>4 DEF Sent
  <2>2. /\ Authentic(r, t)
        /\ r.method = "DELETE" /\ r.route = "record" /\ r.name = c.name /\ r.body = NoBody
    BY <2>1, SignedShape
  <2> QED
    BY <1>2, <1>4, <2>2 DEF Shape
<1>5. CASE c.cmd = "acme set"
  <2>1. r = Signed("PUT", "acme", c.name, AcmeBody(c), t)
    BY <1>5 DEF Sent, AcmeBody
  <2>2. /\ Authentic(r, t)
        /\ r.method = "PUT" /\ r.route = "acme" /\ r.name = c.name /\ r.body = AcmeBody(c)
    BY <2>1, SignedShape
  <2>3. AcmeBody(c).kind = "json"
    BY DEF AcmeBody, Body
  <2> QED
    BY <1>5, <2>2, <2>3 DEF Shape
<1>6. CASE c.cmd = "acme clear"
  <2>1. r = Signed("DELETE", "acme", c.name, NoBody, t)
    BY <1>6 DEF Sent
  <2>2. /\ Authentic(r, t)
        /\ r.method = "DELETE" /\ r.route = "acme" /\ r.name = c.name /\ r.body = NoBody
    BY <2>1, SignedShape
  <2> QED
    BY <1>2, <1>6, <2>2 DEF Shape
<1>7. CASE c.cmd = "list"
  <2>1. r = Signed("GET", "records", EmptyName, NoBody, t)
    BY <1>7 DEF Sent
  <2>2. /\ Authentic(r, t)
        /\ r.method = "GET" /\ r.route = "records" /\ r.name = EmptyName /\ r.body = NoBody
    BY <2>1, SignedShape
  <2> QED
    BY <1>2, <1>7, <2>2 DEF Shape
<1> QED
  BY <1>1, <1>3, <1>4, <1>5, <1>6, <1>7

(***************************************************************************)
(* How it is received.                                                     *)
(***************************************************************************)
\* Between two clocks that fit, authenticate refuses a client's signature
\* exactly where the timestamp is out of the window.
LEMMA SentVerified ==
    ASSUME ClocksFit, NEW r, NEW t \in 0..MaxNow, NEW u \in 0..MaxNow,
           Authentic(r, t), r.body.kind \in {"json", "empty"}
    PROVE  Authenticate(r, u) = IF Late(t, u) THEN 401 ELSE 0
<1> DEFINE a == IF u - t < 0 THEN -(u - t) ELSE u - t
<1>1. MaxNow \in Nat /\ Second \in Nat /\ Second > 0 /\ IntHalf \in Nat
  BY ApiAssumption, IntAssumption DEF ApiAssumption, IntAssumption
<1>2. a \in 0..MaxNow /\ a = IF u < t THEN t - u ELSE u - t
  BY <1>1
<1>3. a * Second < IntHalf
  <2> HIDE DEF a
  <2>1. a * Second <= MaxNow * Second
    BY <1>1, <1>2
  <2>2. a * Second \in Int /\ MaxNow * Second \in Int
    BY <1>1, <1>2
  <2> QED
    BY <1>1, <2>1, <2>2 DEF ClocksFit
<1>4. t \in Int64 /\ u \in Nat
  <2>1. t <= MaxNow * Second
    BY <1>1
  <2> QED
    BY <1>1, <2>1 DEF ClocksFit, Int64
<1>5. Stale(u, t) <=> a * Second > Window(AuthWindow)
  BY <1>3, <1>4, StaleExact
<1> HIDE DEF a
<1>6. Stale(u, t) <=> Late(t, u)
  BY <1>2, <1>5 DEF Late
<1>7. Verify(ApiKey, r.method, Path(r), r.ts, r.sig, r.body, u)
        = IF Late(t, u) THEN "ErrStale" ELSE "nil"
  BY <1>6 DEF Authentic, Verify
<1> QED
  BY <1>7 DEF Authenticate

\* The verdict on a command, and what becomes of it.
Received(c, t, u, r) ==
    IF Late(t, u) THEN Verdict(r, u) = 401
    ELSE IF Right(c) /\ ~ DeepChallenge(c) THEN Verdict(r, u) = 0 /\ FirstCall(r) = Meant(c)
    ELSE Verdict(r, u) = 400

LEMMA SentVerdict ==
    ASSUME ClocksFit, NEW c \in Command, NEW t \in 0..MaxNow, NEW u \in 0..MaxNow,
           NEW r \in Request, r = Sent(c, t)
    PROVE  Received(c, t, u, r)
<1> DEFINE n == c.name
           o == Owner(r)
<1>1. Shape(c, t, r)
  BY SentShape
<1>2. Authenticate(r, u) = IF Late(t, u) THEN 401 ELSE 0
  BY <1>1, SentVerified DEF Shape
<1>3. c.cmd \in {"update", "delete", "acme set", "acme clear", "list"} /\ r.name \in Name
  BY CommandAssumption, RequestAssumption DEF CommandAssumption, RequestAssumption
<1>4. r.route \in {"record", "acme"} =>
        /\ Late(t, u) => Verdict(r, u) = 401
        /\ ~ Late(t, u) =>
             /\ ~ ValidName(o) => Verdict(r, u) = 400
             /\ ValidName(o) =>
                  /\ r.method = "DELETE" => Verdict(r, u) = 0
                  /\ r.method = "PUT" =>
                       Verdict(r, u) = IF PutRecord(r) = NoRecord THEN 400 ELSE 0
  BY <1>2 DEF Verdict
<1>5. r.route \in {"record", "acme"} =>
        /\ r.method = "DELETE" =>
             FirstCall(r) = DeleteCall(o, IF r.route = "record" THEN AllTypes ELSE "TXT")
        /\ r.method = "PUT" => FirstCall(r) = SetCall(o, PutRecord(r))
  BY DEF FirstCall
<1>6. r.route \in {"record", "acme"} /\ ValidName(o) => Left(Target(r.route, r.name), Zone) = o
  BY OwnerIsTarget
<1>7. ASSUME r.route = "record", r.name = n
      PROVE  /\ ValidName(o) <=> RightName(n)
             /\ ValidName(o) => Left(Target("record", n), Zone) = o
  <2>1. o = RelName(n)
    BY <1>7 DEF Owner
  <2> QED
    BY <1>3, <1>6, <1>7, <2>1, RecordRight
<1>8. ASSUME r.route = "acme", r.name = n
      PROVE  /\ ValidName(o) <=> /\ RightName(n) \/ Challenged(n) = Zone
                                 /\ Len(Challenged(n)) # Len(Zone) + 3
             /\ ValidName(o) => Left(Target("acme", n), Zone) = o
  <2>1. o = AcmeOwner(n)
    BY <1>8 DEF Owner
  <2> QED
    BY <1>3, <1>6, <1>8, <2>1, AcmeRight
<1> HIDE DEF o
<1>9. CASE c.cmd = "update"
  <2>1. /\ r.method = "PUT" /\ r.route = "record" /\ r.name = n
        /\ r.body = Body(SentType(c), c.value, c.ttl)
    BY <1>1, <1>9 DEF Shape
  <2>2. r.body.kind = "json" /\ r.body.addr = c.value.addr
    BY <2>1 DEF Body
  <2>3. c.value.addr \in Addr \cup {NoAddr}
    BY <2>2, RequestAssumption DEF RequestAssumption
  <2>4. PutRecord(r) = Wanted(c)
    BY <1>9, <2>1, <2>2, <2>3, BuildsWanted DEF PutRecord
  <2>5. /\ Right(c) <=> RightName(n) /\ Wanted(c) # NoRecord
        /\ ~ DeepChallenge(c)
        /\ Meant(c) = SetCall(Left(Target("record", n), Zone), Wanted(c))
    BY <1>9 DEF Right, DeepChallenge, IsAcme, Meant
  <2> QED
    BY <1>4, <1>5, <1>7, <2>1, <2>4, <2>5 DEF Received
<1>10. CASE c.cmd = "delete"
  <2>1. r.method = "DELETE" /\ r.route = "record" /\ r.name = n
    BY <1>1, <1>10 DEF Shape
  <2>2. /\ Right(c) <=> RightName(n)
        /\ ~ DeepChallenge(c)
        /\ Meant(c) = DeleteCall(Left(Target("record", n), Zone), AllTypes)
    BY <1>10 DEF Right, DeepChallenge, IsAcme, Meant
  <2> QED
    BY <1>4, <1>5, <1>7, <2>1, <2>2 DEF Received
<1>11. CASE c.cmd = "acme set"
  <2>1. /\ r.method = "PUT" /\ r.route = "acme" /\ r.name = n
        /\ r.body = AcmeBody(c)
    BY <1>1, <1>11 DEF Shape
  <2>2. r.body.kind = "json" /\ r.body.txt = c.value.txt
    <3>1. AcmeBody(c).kind = "json" /\ AcmeBody(c).txt = c.value.txt
      BY DEF AcmeBody, Body
    <3> QED
      BY <2>1, <3>1
  <2>3. PutRecord(r) = IF c.value.txt \in ValidText THEN TxtRecord(c.value.txt, 30)
                       ELSE NoRecord
    BY <2>1, <2>2 DEF PutRecord, AcmeTTL
  <2>4. TxtRecord(c.value.txt, 30) # NoRecord
    BY DEF TxtRecord, NoRecord
  <2> DEFINE x == TxtRecord(c.value.txt, 30)
             right == RightName(n) \/ Challenged(n) = Zone
             deep == Len(Challenged(n)) = Len(Zone) + 3
             fits == c.value.txt \in ValidText
  <2>5. /\ Right(c) <=> right /\ fits
        /\ DeepChallenge(c) <=> deep
        /\ Meant(c) = SetCall(Left(Target("acme", n), Zone), x)
    BY <1>11 DEF Right, DeepChallenge, IsAcme, Meant
  <2>6. ValidName(o) <=> right /\ ~ deep
    BY <1>8, <2>1
  <2>7. ValidName(o) => Left(Target("acme", n), Zone) = o
    BY <1>8, <2>1
  <2> HIDE DEF x, right, deep, fits
  <2>8. fits => PutRecord(r) = x /\ PutRecord(r) # NoRecord
    BY <2>3, <2>4 DEF x, fits
  <2>9. ~ fits => PutRecord(r) = NoRecord
    BY <2>3 DEF fits
  <2> QED
    BY <1>4, <1>5, <2>1, <2>5, <2>6, <2>7, <2>8, <2>9 DEF Received
<1>12. CASE c.cmd = "acme clear"
  <2>1. r.method = "DELETE" /\ r.route = "acme" /\ r.name = n
    BY <1>1, <1>12 DEF Shape
  <2>2. /\ Right(c) <=> RightName(n) \/ Challenged(n) = Zone
        /\ DeepChallenge(c) <=> Len(Challenged(n)) = Len(Zone) + 3
        /\ Meant(c) = DeleteCall(Left(Target("acme", n), Zone), "TXT")
    BY <1>12 DEF Right, DeepChallenge, IsAcme, Meant
  <2> QED
    BY <1>4, <1>5, <1>8, <2>1, <2>2 DEF Received
<1>13. CASE c.cmd = "list"
  <2>1. r.method = "GET" /\ r.route = "records"
    BY <1>1, <1>13 DEF Shape
  <2>2. Verdict(r, u) = IF Late(t, u) THEN 401 ELSE 0
    BY <1>2, <2>1 DEF Verdict
  <2>3. FirstCall(r) = NamesCall
    BY <2>1 DEF FirstCall
  <2>4. Right(c) /\ ~ DeepChallenge(c) /\ Meant(c) = NamesCall
    BY <1>13 DEF Right, DeepChallenge, IsAcme, Meant
  <2> QED
    BY <2>2, <2>3, <2>4 DEF Received
<1> QED
  BY <1>3, <1>9, <1>10, <1>11, <1>12, <1>13

\* For every set of commands and requests, every key, window and label set,
\* as long as clocks are not so far apart that the drift wraps: a command
\* that arrives within the window of its timestamp and that is right by the
\* documentation becomes the store call it means, the challenge of a name of
\* three labels excepted; a wrong one is refused with 400, one out of the
\* window with 401 (client.go:69-152 against authenticate, relName,
\* buildRecord and acme).
THEOREM Understood == ASSUME ClocksFit PROVE ApiSpec => CommandsAreUnderstood
<1> DEFINE F(g) == \A c \in Command : \A t \in 0..MaxNow :
                     job'[g].req = Sent(c, t) =>
                       IF Late(t, now) THEN job'[g] = Reply(Sent(c, t), 401, Nothing)
                       ELSE IF Right(c) /\ ~ DeepChallenge(c)
                       THEN job'[g].at = "serve" /\ call'[g] = Meant(c)
                       ELSE job'[g] = Reply(Sent(c, t), 400, Nothing)
           A == \A g \in Proc : (job[g] = Idle /\ job'[g] # Idle) => F(g)
<1>1. TypeOK /\ LockInv /\ Handlers /\ [ApiNext]_<< storeVars, apiVars >> => A
  <2> SUFFICES ASSUME TypeOK, Handlers, [ApiNext]_<< storeVars, apiVars >>,
                      NEW g \in Proc, job[g] = Idle, job'[g] # Idle,
                      NEW c \in Command, NEW t \in 0..MaxNow, job'[g].req = Sent(c, t)
               PROVE  IF Late(t, now) THEN job'[g] = Reply(Sent(c, t), 401, Nothing)
                      ELSE IF Right(c) /\ ~ DeepChallenge(c)
                      THEN job'[g].at = "serve" /\ call'[g] = Meant(c)
                      ELSE job'[g] = Reply(Sent(c, t), 400, Nothing)
    OBVIOUS
  <2>1. ApiNext
    BY DEF apiVars
  <2>2. ~ Handle(g) /\ ~ Works(g)
    <3>1. job[g].at = "idle"
      BY DEF Idle
    <3> QED
      BY <3>1, HandlerStep DEF Works
  <2>3. PICK r \in Request : Arrive(g, r)
    BY <2>1, <2>2, LocalStep
  <2>4. \/ /\ Verdict(r, now) = 0 /\ Call(g, FirstCall(r))
           /\ job'[g] = [at |-> "serve", req |-> r, time |-> now,
                         todo |-> {}, entries |-> {}]
        \/ Verdict(r, now) # 0 /\ job'[g] = Reply(r, Verdict(r, now), Nothing)
    BY <2>3, ArriveStep
  <2>5. r = Sent(c, t)
    <3>1. job'[g].req = r
      BY <2>4 DEF Reply
    <3> QED
      BY <3>1
  <2>6. now \in 0..MaxNow
    BY DEF Handlers
  <2>7. Received(c, t, now, r)
    BY <2>5, <2>6, SentVerdict
  <2>8. CASE Verdict(r, now) = 0
    <3>1. Call(g, FirstCall(r)) /\ job'[g].at = "serve"
      BY <2>4, <2>8
    <3>2. call'[g] = FirstCall(r)
      BY <3>1, OwnCall
    <3> QED
      BY <2>7, <2>8, <3>1, <3>2 DEF Received
  <2>9. CASE Verdict(r, now) # 0
    <3>1. job'[g] = Reply(r, Verdict(r, now), Nothing)
      BY <2>4, <2>9
    <3> QED
      BY <2>5, <2>7, <2>9, <3>1 DEF Received
  <2> QED
    BY <2>8, <2>9
<1> HIDE DEF A
<1>2. ApiSpec => [][A]_<< storeVars, apiVars >>
  BY <1>1, HandlersAlways, PTL DEF ApiSpec
<1> QED
  BY <1>2 DEF A, CommandsAreUnderstood
=============================================================================
