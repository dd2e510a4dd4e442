----------------------------- MODULE UpdateAPI -----------------------------
(***************************************************************************)
(* The HTTP update API (internal/api) over the record store.  One          *)
(* goroutine of Proc serves one request at a time.  A request may arrive   *)
(* late, more than once and in any order; a client that lost its answer    *)
(* simply sends it again.  Every handler calls the store several times and *)
(* holds no lock between the calls.                                        *)
(*                                                                         *)
(* mine, steady, seen and standing are history variables.                  *)
(***************************************************************************)
EXTENDS ZoneStore, HmacAuth

CONSTANTS
    Request,      \* the requests clients may send
    ApiKey,       \* the shared key
    AcmePrefix,   \* the label "_acme-challenge"
    AtSign,       \* the label "@"
    UpperOf,      \* strings.ToUpper on the "type" field of a body
    ValidText,    \* the strings of Text that are 1 to 255 bytes long
    MaxArrivals,  \* bound: requests that arrive in a behaviour
    MaxNow        \* bound: the clock's last value

ASSUME ApiAssumption ==
    /\ AcmePrefix \in ValidLabel
    /\ AtSign \in Label \ ValidLabel
    /\ ValidText \subseteq Text
    /\ MaxArrivals \in Nat
    /\ MaxNow \in Nat

\* What the mux and the JSON decoder make of a request.
ASSUME RequestAssumption ==
    \A r \in Request :
      /\ r.route \in {"healthz", "records", "record", "acme"}
      /\ r.name \in Name
      /\ r.ts \in TsHeader
      /\ r.body.kind = "json" =>
           /\ r.body.addr \in Addr \cup {NoAddr}
           /\ r.body.txt \in Text /\ r.body.ttl \in Nat

VARIABLES
    job,      \* what each goroutine serves and where its handler stands
    now,      \* the wall clock, in seconds
    arrived,  \* requests that arrived so far
    mine,     \* history: the serial that each goroutine's mutation got
    steady,   \* history: what was registered all through a listing
    seen,     \* history: what was registered at some time during it
    standing  \* history: what was there to delete all through a DELETE

apiVars == << job, now, arrived, mine, steady, seen, standing >>
storeVars == vars

(***************************************************************************)
(* Reading a request.  A body is unreadable, longer than maxBody, not the  *)
(* JSON the handler expects, or an object whose value field is a string:   *)
(* addr is what ParseAddr makes of it (NoAddr: an error), txt the string.  *)
(***************************************************************************)
Idle == [at |-> "idle"]

Path(r) == << r.route, r.name >>

Authenticate(r, t) ==
    IF r.body.kind = "unreadable" THEN 400
    ELSE IF r.body.kind = "toobig" THEN 413
    ELSE IF Verify(ApiKey, r.method, Path(r), r.ts, r.sig, r.body, t) # "nil" THEN 401
    ELSE 0

\* relName: the apex becomes the empty name, which ValidateName refuses too.
RelName(n) ==
    LET m == TrimDot(ToLower(n)) IN
    IF Under(m, Zone) THEN Left(m, Zone)
    ELSE IF m = Zone THEN EmptyName
    ELSE m

\* The owner name that acme builds.
AcmeOwner(n) ==
    LET m   == TrimDot(ToLower(n))
        raw == IF Under(m, Zone) THEN Left(m, Zone) ELSE m
    IN  IF raw \in {<< AtSign >>, EmptyName, Zone}
        THEN << AcmePrefix >>
        ELSE << AcmePrefix >> \o raw

Owner(r) == IF r.route = "acme" THEN AcmeOwner(r.name) ELSE RelName(r.name)

NoRecord == [type |-> "none"]

AddrRecord(type, addr, ttl) ==
    [type |-> type, addr |-> addr, txt |-> << >>, ttl |-> ttl]

TxtRecord(t, ttl) ==
    [type |-> "TXT", addr |-> NoAddr, txt |-> << t >>, ttl |-> ttl]

\* Mutant: any address will do for an A record.
BuildAnyFamily(b) ==
    IF UpperOf[b.type] \in {"A", "AAAA"} /\ IsValid(b.addr)
    THEN AddrRecord(UpperOf[b.type], b.addr, b.ttl)
    ELSE NoRecord

\* buildRecord; NoRecord where it returns an error.
BuildRecord(b) ==
    LET type == UpperOf[b.type] IN
    CASE type = "A" /\ (Is4(b.addr) \/ Is4In6(b.addr)) ->
           AddrRecord("A", Unmap(b.addr), b.ttl)
      [] type = "AAAA" /\ Is6(b.addr) /\ ~ Is4In6(b.addr) ->
           AddrRecord("AAAA", b.addr, b.ttl)
      [] type = "TXT" /\ b.txt \in ValidText -> TxtRecord(b.txt, b.ttl)
      [] OTHER -> NoRecord

AcmeTTL == 30

\* The record a PUT stores, or NoRecord.
PutRecord(r) ==
    IF r.body.kind # "json" THEN NoRecord
    ELSE IF r.route = "record" THEN BuildRecord(r.body)
    ELSE IF r.body.txt \in ValidText THEN TxtRecord(r.body.txt, AcmeTTL)
    ELSE NoRecord

\* The status a handler answers before it calls the store; 0 when it calls.
Verdict(r, t) ==
    IF r.route = "healthz" THEN IF r.method = "GET" THEN 0 ELSE 405
    ELSE IF r.route = "records" /\ r.method # "GET" THEN 405
    ELSE IF Authenticate(r, t) # 0 THEN Authenticate(r, t)
    ELSE IF r.route = "records" THEN 0
    ELSE IF ~ ValidName(Owner(r)) THEN 400
    ELSE IF r.method = "PUT" THEN IF PutRecord(r) = NoRecord THEN 400 ELSE 0
    ELSE IF r.method = "DELETE" THEN 0
    ELSE 405

\* Mutant: clearing a challenge clears the name.
FirstCallClearsAll(r) ==
    IF r.route = "healthz" THEN SerialCall
    ELSE IF r.route = "records" THEN NamesCall
    ELSE IF r.method = "PUT" THEN SetCall(Owner(r), PutRecord(r))
    ELSE DeleteCall(Owner(r), AllTypes)

\* The first call of the store.
FirstCall(r) ==
    IF r.route = "healthz" THEN SerialCall
    ELSE IF r.route = "records" THEN NamesCall
    ELSE IF r.method = "PUT" THEN SetCall(Owner(r), PutRecord(r))
    ELSE DeleteCall(Owner(r), IF r.route = "record" THEN AllTypes ELSE "TXT")

(***************************************************************************)
(* History.                                                                *)
(***************************************************************************)
Pairs(recs) == UNION {{<< n, r >> : r \in recs[n]} : n \in DOMAIN recs}

\* What there is to delete: names that have records, and records of a type,
\* whatever their values.
Deletable(recs) ==
    {p \in (DOMAIN recs) \X (Type \cup {AllTypes}) :
       \E r \in recs[p[1]] : p[2] \in {r.type, AllTypes}}

Active(j) == j.at # "idle"

\* The requests whose answer tells of more than one moment.
Lists(j)   == Active(j) /\ j.req.route = "records"
Deletes(j) == Active(j) /\ j.req.method = "DELETE"

\* What stays here since the request came.
Still(g, here, before) == IF Active(job[g]) THEN before \cap here ELSE here

Observe ==
    /\ mine' = [g \in Proc |->
                  IF ~ Active(job'[g]) THEN 0
                  ELSE IF mu = Nobody /\ mu' = g THEN serial' ELSE mine[g]]
    /\ steady' = [g \in Proc |->
                    IF Lists(job'[g])
                    THEN Still(g, Pairs(visible'.records), steady[g]) ELSE {}]
    /\ seen' = [g \in Proc |->
                  IF Lists(job'[g]) THEN seen[g] \cup Pairs(visible'.records) ELSE {}]
    /\ standing' = [g \in Proc |->
                      IF Deletes(job'[g])
                      THEN Still(g, Deletable(visible'.records), standing[g]) ELSE {}]

(***************************************************************************)
(* Serving a request.  The handlers' last call and the response they write *)
(* are one step; Replied is the end of ServeHTTP.                          *)
(***************************************************************************)
Nothing == [kind |-> "message"]

Reply(r, status, body) ==
    [at |-> "reply", req |-> r, status |-> status, body |-> body]

Respond(g, status, body) ==
    job' = [job EXCEPT ![g] = Reply(@.req, status, body)]

Arrive(g, r) ==
    /\ phase = "up"
    /\ job[g] = Idle
    /\ arrived < MaxArrivals
    /\ arrived' = arrived + 1
    /\ IF Verdict(r, now) = 0
       THEN /\ Call(g, FirstCall(r))
            /\ job' = [job EXCEPT ![g] =
                         [at |-> "serve", req |-> r, time |-> now,
                          todo |-> {}, entries |-> {}]]
       ELSE /\ job' = [job EXCEPT ![g] = Reply(r, Verdict(r, now), Nothing)]
            /\ UNCHANGED storeVars
    /\ UNCHANGED now
    /\ Observe

Returned(g, op) ==
    job[g].at = "serve" /\ pc[g] = "done" /\ call[g].op = op

SetReturned(g) ==
    /\ Returned(g, "Set")
    /\ IF ret[g].err # "nil"
       THEN Return(g) /\ Respond(g, 500, Nothing)
       ELSE CallAgain(g, SerialCall) /\ UNCHANGED job
    /\ UNCHANGED << now, arrived >>
    /\ Observe

DeleteReturned(g) ==
    /\ Returned(g, "Delete")
    /\ \/ ret[g].err # "nil" /\ Return(g) /\ Respond(g, 500, Nothing)
       \/ /\ ret[g].err = "nil" /\ ~ ret[g].removed
          /\ Return(g) /\ Respond(g, 404, Nothing)
       \/ /\ ret[g].err = "nil" /\ ret[g].removed /\ job[g].req.route = "acme"
          /\ Return(g) /\ Respond(g, 200, Nothing)
       \/ /\ ret[g].err = "nil" /\ ret[g].removed /\ job[g].req.route = "record"
          /\ CallAgain(g, SerialCall) /\ UNCHANGED job
    /\ UNCHANGED << now, arrived >>
    /\ Observe

\* Mutant: the serial before the last update.
SerialReturnedLess(g) ==
    /\ Returned(g, "Serial")
    /\ Return(g)
    /\ Respond(g, 200, [kind |-> "serial", serial |-> IF ret[g].serial = 0 THEN 0 ELSE ret[g].serial - 1])
    /\ UNCHANGED << now, arrived >>
    /\ Observe

SerialReturned(g) ==
    /\ Returned(g, "Serial")
    /\ Return(g)
    /\ Respond(g, 200, [kind |-> "serial", serial |-> ret[g].serial])
    /\ UNCHANGED << now, arrived >>
    /\ Observe

\* list goes on to the next name, or answers.
ListNext(g, todo, entries) ==
    IF todo = {}
    THEN Return(g) /\ Respond(g, 200, [kind |-> "entries", entries |-> entries])
    ELSE \E n \in todo :
           /\ CallAgain(g, LookupCall(n))
           /\ job' = [job EXCEPT ![g].todo = todo \ {n}, ![g].entries = entries]

NamesReturned(g) ==
    /\ Returned(g, "Names")
    /\ ListNext(g, ret[g].names, {})
    /\ UNCHANGED << now, arrived >>
    /\ Observe

LookupReturned(g) ==
    /\ Returned(g, "Lookup")
    /\ ListNext(g, job[g].todo,
                job[g].entries
                  \cup {[name |-> call[g].name, recs |-> ret[g].recs]})
    /\ UNCHANGED << now, arrived >>
    /\ Observe

Replied(g) ==
    /\ job[g].at = "reply"
    /\ job' = [job EXCEPT ![g] = Idle]
    /\ UNCHANGED << storeVars, now, arrived >>
    /\ Observe

Handle(g) ==
    \/ SetReturned(g)
    \/ DeleteReturned(g)
    \/ SerialReturned(g)
    \/ NamesReturned(g)
    \/ LookupReturned(g)
    \/ Replied(g)

(***************************************************************************)
(* The store's own steps and the clock.                                    *)
(***************************************************************************)
StoreStep(g) ==
    /\ Step(g)
    /\ UNCHANGED << job, now, arrived >>
    /\ Observe

Boot ==
    /\ Start \/ SeedCall \/ SeedReturn \/ Listen
    /\ UNCHANGED << job, now, arrived >>
    /\ Observe

\* The process ends with its connections.
Halt ==
    /\ Stop
    /\ job' = [g \in Proc |-> Idle]
    /\ UNCHANGED << now, arrived >>
    /\ Observe

Tick ==
    /\ now < MaxNow
    /\ now' = now + 1
    /\ UNCHANGED << storeVars, job, arrived >>
    /\ Observe

ApiInit ==
    /\ Init
    /\ job = [g \in Proc |-> Idle]
    /\ now = 0
    /\ arrived = 0
    /\ mine = [g \in Proc |-> 0]
    /\ steady = [g \in Proc |-> {}]
    /\ seen = [g \in Proc |-> {}]
    /\ standing = [g \in Proc |-> {}]

ApiNext ==
    \/ \E g \in Proc, r \in Request : Arrive(g, r)
    \/ \E g \in Proc : Handle(g)
    \/ \E g \in Goroutine : StoreStep(g)
    \/ Boot
    \/ Halt
    \/ Tick

ApiSpec == ApiInit /\ [][ApiNext]_<< storeVars, apiVars >>

\* The Go scheduler runs every handler and every store call (see ZoneStore).
ApiFairSpec ==
    /\ ApiSpec
    /\ \A g \in Proc : WF_<< storeVars, apiVars >>(Handle(g))
    /\ \A g \in Goroutine : SF_<< storeVars, apiVars >>(StoreStep(g))

(***************************************************************************)
(* Properties.                                                             *)
(***************************************************************************)
Mutates(g) == mu = Nobody /\ mu' = g

\* The fully qualified name a path names, read either way: relative to the
\* zone, or fully qualified already.
Asked(n) ==
    LET m == CanonicalName(n) IN IF Under(m, Zone) THEN m ELSE m \o Zone

\* The spellings of the apex, before a trailing zone or alone.
ApexNames == {<< AtSign >>, EmptyName, Zone}

Challenged(n) ==
    IF \E a \in ApexNames : CanonicalName(n) \in {a, a \o Zone} THEN Zone ELSE Asked(n)

\* The fully qualified name whose records a request is about.
Target(route, n) ==
    IF route = "acme" THEN << AcmePrefix >> \o Challenged(n) ELSE Asked(n)

\* A request changes the records of one name, the one its path spells
\* (record) or that name's challenge (acme, which changes TXT records only),
\* and always a name of 1-3 valid labels below the apex; no other request's
\* name, however the two interleave (relName and acme, api.go:140-296).
WritesOnlyItsName ==
    [][\A g \in Proc : Mutates(g) =>
         \A n \in (DOMAIN records) \cup (DOMAIN records') :
           At(records', n) # At(records, n) =>
             /\ ValidName(n)
             /\ n \o Zone = Target(job[g].req.route, job[g].req.name)
             /\ job[g].req.route = "acme" =>
                  Kept(At(records', n), "TXT") = Kept(At(records, n), "TXT")
      ]_<< storeVars, apiVars >>

\* Only a request that carries the MAC of exactly its own method, path, body
\* and timestamp under the shared key, and that arrived within the window of
\* that timestamp, ever changes the store; a copy of it that arrives later
\* does not (authenticate, api.go:81-99).
OnlySignedAndFresh ==
    [][\A g \in Proc : Mutates(g) =>
         LET r == job[g].req
             d == job[g].time - r.ts.val
         IN  /\ r.ts.ok
             /\ r.sig = << ApiKey, r.method, Path(r), r.ts.val, r.body >>
             /\ (IF d < 0 THEN -d ELSE d) * Second <= Window(AuthWindow)
      ]_<< storeVars, apiVars >>

Encodable(r) ==
    CASE r.type = "A"    -> Is4(r.addr)
      [] r.type = "AAAA" -> r.addr.fam = "v6"
      [] r.type = "TXT"  -> Len(r.txt) = 1 /\ r.txt[1] \in ValidText

\* Whatever requests and seeds stored, and whatever a restart restored, the
\* DNS encoder can encode: an A record holds an IPv4 address, an AAAA record
\* one that is not IPv4 in disguise, a TXT record one string that fits.
StoredIsEncodable ==
    \A n \in DOMAIN records : \A r \in records[n] : Encodable(r)

\* The serial in the answer to an update is the serial that update produced
\* or a later one, never one from before it, although another goroutine may
\* write between the update and the read of the serial: a client that polls
\* the SOA for the serial it was told sees its update.  (SerialMod exceeds
\* MaxArrivals where this is checked, so serials do not wrap.)
ReportedSerialCoversUpdate ==
    \A g \in Proc :
      (job[g].at = "reply" /\ job[g].body.kind = "serial") =>
        job[g].body.serial >= mine[g]

\* A listing, which reads the names and then each name by itself, shows every
\* record that was registered all the while, and no record that was not
\* registered at some moment of the request (list, api.go:114-135).  A name
\* deleted meanwhile may be listed without records.
ListIsFaithful ==
    \A g \in Proc :
      (job[g].at = "reply" /\ job[g].body.kind = "entries") =>
        /\ \A p \in steady[g] :
             \E e \in job[g].body.entries : e.name = p[1] /\ p[2] \in e.recs
        /\ \A e \in job[g].body.entries :
             \A r \in e.recs : << e.name, r >> \in seen[g]

\* A 404 is true: at some moment of the request the name it spells had no
\* records at all or, for a challenge, no TXT record.  A name whose records
\* were only replaced meanwhile, by other values or by other types, was
\* there all the while (record and acme, api.go:193-201 and 283-291).
NotFoundIsTrue ==
    \A g \in Proc :
      (job[g].at = "reply" /\ job[g].status = 404) =>
        LET r == job[g].req IN
        \A p \in standing[g] :
          ~ /\ p[1] \o Zone = Target(r.route, r.name)
            /\ p[2] = IF r.route = "record" THEN AllTypes ELSE "TXT"

\* Every request that calls the store is answered, unless the process stops.
RequestsAnswered ==
    \A g \in Proc : job[g].at = "serve" ~> job[g].at \in {"reply", "idle"}
=============================================================================
