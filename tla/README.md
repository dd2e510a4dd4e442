# hostwild in TLA+

hostwild serves one DNS zone. Names resolve by a fixed ladder (registered
records, addresses spelled in the labels, a fallback), and an authenticated
HTTP API registers records while the DNS side keeps answering. This directory
models the record store with its lock and its state file, the API handlers and
the resolver that call it concurrently, the check of request signatures, the
DNS server with its sockets and its codec, the addresses in names, and the
program's own clients.

Run one model with `tlc -config <X>.cfg <Module>` and check the proofs of a
module with `tlapm <Module>.tla` (eight modules hold proofs, section 4; from
nothing the longest, `WireMessagesProofs`, takes about a quarter of an hour).
`PROJECT.json` maps every definition to the lines it models.

## 1. Inventory

| Component | State | Operations | Interacts with |
|---|---|---|---|
| **zone store** `internal/zone` | `records`, `serial`, `mu`, the state file and its `.tmp` | `Set`, `Delete`, `Lookup`, `Names`, `Serial`, `persistLocked`, `Load` | called by API handlers, resolver and `runServe`; owns the file |
| **resolver** `internal/resolver` | none (configuration) | `Resolve` and its helpers | `Lookup`, then maybe `Serial`, of the store; `magic.Extract` |
| **update API** `internal/api` | none of its own | `GET /healthz`, `GET /v1/records`, `PUT`/`DELETE` of `/v1/records/{name}` and `/v1/acme/{name}` | several store calls per request; `hmacauth.Verify`; the clock |
| **signatures** `internal/hmacauth` | none | `Sign`, `Verify` | used by API and clients |
| **serve** `internal/cli/serve.go` | the process, the channel `errs` | load, seed, bind, serve, exit | starts everything |
| **DNS server** `internal/server` | sockets, `done`, the UDP buffer, connections | `HandleQuery`, `ServeUDP`, `ServeTCP`, `serveConn`, `Close` | a goroutine per datagram or connection calls the resolver |
| **wire format** `internal/dnswire` | none | `Decode`, `Encode`, names, rdata | server, `query` |
| **magic names** `internal/magic` | none | `Extract` | resolver |
| **resolve** `internal/cli/resolve.go` | a store over the same state file | load, seed, one `Resolve` | shares the file with a running server |
| **clients** `client.go`, `query.go` | none | one request each | API, DNS server |

What is hard here: every request and every question runs in a goroutine of its
own; a handler or a resolution makes several store calls and holds no lock
between them; a mutation changes memory first and the file after it, in three
file operations that may each fail; the process may die between any two of
them; signed requests may arrive late, twice or changed; the serial wraps; the
time arithmetic of the signature check wraps; datagrams share one buffer; a TCP
peer sends its octets in pieces, or stops; sockets fail and `Close` races the
loops that read them; octets from anywhere reach the decoder; four notations of
an address overlap; a second process may open the state file. The list with its
lines is `hazards` in `PROJECT.json`.

What makes the parts correct:

* store: mutations are atomic and serialised, readers never see one half done,
  the file is never torn, acknowledged mutations survive, the serial moves with
  the visible state, every call returns;
* API: only signed and fresh requests write, only the records of the name they
  spell, and only encodable ones; the serial and the 404 they report are true;
  a listing shows what stayed registered; every request is answered;
* resolver: a registered record is the answer; an answer is true of one moment;
  a name exists for all types or for none; negative answers can be cached;
* signatures: accepted exactly within the window;
* DNS server: an answer reaches the one who asked; replies on a connection keep
  the order of the queries; a reply fits, and is never itself answered; a loop
  that ends takes the process with it; connections end;
* codec: what is encoded is decoded to the same; a part of a message is not a
  message; decoding any octets ends; what was decoded stays the same;
* magic names: the address somebody wrote is found, and no other.

## 2. Modules

| Module | Models | Uses |
|---|---|---|
| `Names` | domain names, `CanonicalName`, `ValidateName` | |
| `Records` | addresses (`netip`), `Record`, its JSON form | |
| `ZoneStore` | `internal/zone`, and the life of the process in `runServe` | `Names`, `Records`; instance of `AtomicZone` |
| `AtomicZone` | abstract: what the store promises | |
| `ZoneStoreProofs` | theorems about `ZoneStore` in the hands of any callers, its refinement of `AtomicZone` included; lemmas on names | `ZoneStore` |
| `HmacAuth` | `internal/hmacauth` | |
| `UpdateAPI` | `internal/api` over the store | `ZoneStore`, `HmacAuth` |
| `UpdateAPIProofs` | theorems: who writes what, what is stored, that the answers are true, and that client and server agree | `UpdateAPI`, `ApiClient`, `ZoneStoreProofs` |
| `Resolver` | `internal/resolver` as functions | `Names`, `Records` |
| `Answering` | `Resolve` over a store that changes | `ZoneStore`, `Resolver` |
| `AnsweringProofs` | theorems about `Answering` | `Answering`, `ZoneStoreProofs` |
| `ApiClient` | the `update`, `acme`, `list` and `sign` commands | `UpdateAPI` |
| `WireNames` | `dnswire/name.go`: `builder`, `cursor`, compression | |
| `WireMessages` | `Encode` and `Decode` of messages, records and their data | `WireNames` |
| `Transit` | a message from encoder to decoder, intact, cut or damaged | `WireMessages` |
| `Server` | `internal/server`, the second half of `runServe`, `query` | `WireMessages` |
| `SequenceLemmas` | lemmas: induction, concatenation, `FlattenSeq` | |
| `WireProofs` | lemmas on the reader: what each call of `Decode` makes of any octets | `WireMessages`, `SequenceLemmas` |
| `WireMessagesProofs` | lemmas on the writer and the reader: where `Encode` puts what, and that `Decode` finds it | `WireProofs` |
| `TransitProofs` | theorems about `Transit` | `Transit`, `WireMessagesProofs` |
| `ServerProofs` | theorems about `Server` | `Server`, `WireMessagesProofs` |
| `Magic` | `internal/magic`, and how the names it reads are written | |
| `DryRun` | `resolve` and `serve` as two processes over one state file | |
| `MC*` | the values of the constants, and in `MCHmacAuth` a clock | |

**Names.** A name is the sequence `strings.Split(name, ".")` yields: `a.` is
`<<"a", "">>`. The per-character tests of `ValidateName` are the constant set
`ValidLabel`, `strings.ToLower` the constant function `LowerOf`.

**ZoneStore.** `records`, `serial` and `mu` are the fields of `Store`;
`file` and `tmp` the two files; `phase` and `seeded` the process. Each goroutine
has a `pc`: `idle`, `enter` (called, lock not taken), `open` (lock taken, map
and serial changed, `persistLocked` entered), `write` (temporary file truncated),
`rename` (written), `unlock` (renamed), `done` (returned). `SetLocked` and
`DeleteLocked` are the code from `Lock` to `persistLocked` in one step, which is
sound because every reader waits for the lock; `OpenTmp`, `FillTmp`, `RenameTmp`
are the file operations, since a crash can see between them; `PersistFail` is
the failure of any of the three, and undoes nothing, as in the code.
`Lookup`, `Names` and `Serial` are one step each under the read lock. `Start` is
`NewStore` and `Load`; a file that does not parse keeps the process down.
`SeedCall`/`SeedReturn` run `seedRecords` through the same `Set`. `Stop` is
every way to end, a kill included: memory goes, files stay. Three history
variables record what readers could last see (`visible`), whether the last
write failed (`stale`) and what callers may rely on (`acked`).

**UpdateAPI.** `Arrive` runs a handler up to its first store call, or to the
answer if it refuses the request (`Verdict`, in the order of the code's
returns). Every later call of the store is a step of its own (`SetReturned`,
`DeleteReturned`, `NamesReturned`, `LookupReturned`, `SerialReturned`), and the
store's own steps and other handlers come between. The environment sends any
request of `Request` any number of times up to `MaxArrivals`, at any time: that
is what a retry, a duplicate or a delayed request is. `Challenged` is the name of
a challenge: `acme` cuts the zone's suffix first, so `@.zone` and `zone.zone`
spell the apex, and a host called like the zone has no challenge of its own.
`Target` is the fully qualified name a request is about. The history variables
`steady` and `seen` record, for each listing under way, the records that were
there throughout and those that were there at some moment. `standing` records,
for each DELETE under way, what it could have deleted throughout: names with a
type, and names whatever the type. It says nothing of values, so an overwrite by
another request does not make a name absent.

**Answering.** `Ask` is `Resolve` up to its first store call, `LookedUp` what
follows `Lookup`, `SerialRead` what follows the read of the serial for the SOA.

**HmacAuth.** All arithmetic wraps at `IntHalf`. A MAC is the tuple it signs:
HMAC-SHA256 is taken to be collision-free and unforgeable.

**ApiClient.** `Sent(c, t)` is the request a command makes at time `t`. All
requests of the API runs are made by it, then altered where a run needs it, so
that client and server are checked against each other. What a command ought to
do is stated apart from the handlers: `RightName` is the documentation's rule for
names (`docs/update-api.md:52-57`), `Wanted` the record that a type, given or
not, and a value make together, `Meant` the store call of a right command.

**WireNames, WireMessages.** Octet for octet, since the properties are about
offsets: `builder` is a record of buffer, error and remembered offsets, `cursor`
one of buffer, position, error and values read. The walk of `cursor.name` is a
function of the number of iterations, cut at `WalkBound` with the error
`"walk"`, which `DecoderEnds` shows is never met. The limits of 255 octets, 32
hops and 0x4000 are constants, so that small messages reach them. `ToLower`
keeps what `strings.ToLower` does to bytes that are no UTF-8.

**Server.** `HandleQuery` is a function of the octets and the limit; `Resolve` is
a parameter (its own behaviour is the matter of `Answering`). `main`, `loop`,
`errs`, `done` and `open` are `runServe`, its three goroutines, their channel, and
the server's sockets. `ReadDatagram` fills the shared buffer and starts a
goroutine (`hand`), which answers in a later step. `wire` is a set that nothing
leaves: datagrams arrive late, repeatedly, in any order or never. A connection
(`conn`) reads a prefix, reads a body, writes; `up` and `down` are the octets
between it and its peer, who sends in pieces. `Received` is what the shared
buffer holds of a datagram when its answer is computed. `StartQuery`, `Outcome`,
`EndQuery` are `runQuery` and `exchange`.

**Magic.** A label is a sequence of characters; the actions type a name: an
address in one of its notations (`WriteAddress`), then labels and dashed parts in
front of it, or such parts alone. `meant` is the address that was written. A part
before a dash leaves it alone in a dashed or hexadecimal label, hexadecimal words
(`db-192-168-1-9`) included, unless the whole label now is written like an IPv6
address (`IPv6Shape`: eight groups, or a double dash), which takes it: `how` is
then `taken`. An IPv6 label and the first octet of a dotted address allow no such
part; there `meant` becomes `None`.

**DryRun.** Paths and inodes are kept apart, because a process may hold open the
temporary file that the other has renamed. The store is a set of names here.

**AtomicZone.** One visible state, at most one pending mutation of one name
that moves the serial by one, a durable state that only ever becomes the pending
one. `ZoneStore` maps `visible` to the view, `Snapshot` to the pending state
while the lock is held, and `Loaded(file)` to the durable state.

Abstractions in general: the slice of a name's records is a set (`Set` and
`Delete` keep one record of a type, so the order is only the order of types in
an ANY answer); listings are sets, not sorted; wording, JSON layout and logging
are left out; HTTP parsing and the mux's path cleaning are `net/http`'s.

## 3. Runs

| Run | Question | Result |
|---|---|---|
| `store_faults` | the store with failing writes, crashes, restarts and a seed, two goroutines | 8 properties hold, refinement of `AtomicZone` included |
| `store_written` | is every mutation written, as the docs say? | no: a failed write leaves it visible and unwritten |
| `hmac_replay` | are timestamps outside the window rejected, all of them? | no: the conversion to nanoseconds wraps |
| `dry_run` | does a dry run leave the server's registrations alone? | no: it rewrites the state file |
| `api_traffic` | overlapping registrations, deletions, challenges and listings, with faults and restarts | serial, 404, listing and names written are right; requests are answered, under `ApiFairSpec` |
| `api_auth` | the program's clients, everything the handlers refuse, late and altered copies | only signed and fresh requests write, only encodable records; a command right by the documentation becomes the store call it means, any other is refused |
| `answer_plain` | questions against a writer and restarts | four properties hold |
| `answer_flags` | the same with `--apex`, `--fallback`, in memory, two writers | hold; questions are answered; the store is atomic |
| `server` | clients over UDP and TCP, a pipelining peer, stray datagrams, failing sockets, shutdown | six properties hold, two of them liveness under `FairSpec` |
| `wire` | messages at every limit, intact, cut, damaged, and foreign octets | four properties hold |
| `wire_limit` | do decoded names keep the limit on names? | no: one octet too many |
| `magic` | written addresses behind any prefix, and typed names | three properties hold |

The four violation runs are the `findings`. Each of the other runs' properties
has a mutant in `PROJECT.json`, an operator next to the definition it replaces,
that breaks it.

Divergences between text and code that need no run to see:
`docs/update-api.md:54` allows names of one to three labels on all routes, but a
challenge for one of three is refused, since `_acme-challenge` is a fourth
(`api.go:255-262`; `CommandsAreUnderstood` names it `DeepChallenge` and requires
the refusal); `docs/resolution.md:13` refuses every class but IN, and class
ANY is answered (`resolver.go:72`); `server.go:64` never answers answers, and one
that cannot be decoded gets FORMERR (line 50), which `RepliesAreHarmless` shows
starts no ping-pong; `magic.go:5` gives each notation an optional `name-` prefix,
which an IPv6 label or a dotted address cannot have; `magic.go:15-17` lets a name
with a dash prefix resolve to the trailing address, but where the prefix makes
the label an IPv6 address that one is found: `a-b-c-d-10-0-0-7` is
`a:b:c:d:10:0:0:7`, `db--10-0-0-7` is `db::10:0:0:7` (`WrittenIsRead` states both
halves).

Bounds, and why they are enough:

* two serving goroutines and `Main`: every hazard of the store is between one
  writer and one other goroutine, since writers exclude one another;
  `answer_flags` has two writers and a reader;
* `SerialMod = 3` in `store_faults` makes the serial wrap: 0 is written to the
  file and restored as 1; where serials are compared (`api_traffic`)
  `SerialMod = 8` exceeds the number of updates, so none wraps;
* the calls of `store_faults` are unbounded in number: they spell one name in
  two cases, with two types, and a refused name, and the seed writes the same
  name, so overwrites, partial deletes and emptied entries all occur;
* `MaxArrivals = 3` in `api_traffic` and `MaxWrites` 2 to 3: create, then two racing changes, or a
  change and a request that observes it; `MaxNow = 4` lets a request signed at 1
  be early, on time, at the bound and late. `api_traffic` has two values for a
  name and type, so that a record is overwritten while another request looks.
  `api_auth` asks what becomes of single requests and has `MaxArrivals = 2`: a
  request and a late, repeated or altered one. Its commands have every type,
  given, left out, in lower case or unknown, with values of every family, and
  names of every kind: the apex in its spellings, a wildcard, capitals, one to
  four labels, qualified or not, on all routes;
* `IntHalf = 128`, `Second = 10`: every timestamp of that width, with all three
  places where the arithmetic wraps;
* `Cast`: who takes part in a behaviour of `server`: two UDP clients, one whose
  name cannot be encoded, the stray datagrams, the TCP client, or the pipelining
  peer, each together with start, failure and end of the process. Connections
  share nothing but the process, so a second one would only multiply states. The
  two UDP clients have the same identifier and questions of one length, the worst
  case for a shared buffer, and `Slot` lets both be answered at once;
* `Break = {1, 68}`: the peer pauses where a message or a prefix is cut in two;
  `WriteAhead = 1`: a write waits for all earlier replies to be read;
  `MaxFailures = 1`: the first failure ends the process;
* `UDPLimit = 40`, `BufSize = 60`: one of the answers exceeds the limit;
* `MaxNameWire = 11`, `MaxPointerHops = 3`, `PointerSpan = 64`: there are messages
  on both sides of each;
* `wire` cuts each message at every octet and sets every octet to each value of
  `Noise`, which holds the lengths, pointer tags and characters the decoder
  tells apart;
* `MaxParts = 4`, `MaxPrefix = 2`: four parts spell any dashed address, right or
  wrong; two prefixes, among them hexadecimal words and one that is four words
  (`a-b-c-d`), reach across the edge of a written one, up to eight groups and
  beyond;
* symmetry in the goroutines is used in `store_faults` only, which checks no
  liveness.

Deadlock checking is off where a behaviour has an end: the clock of
`hmac_replay`, the process of `server`, a message, a name that is typed, and the
starts of `dry_run`. Everywhere else the process can always stop or start.

Fairness. In the store's modules: strong fairness of each goroutine's store
steps. Go's scheduler runs every runnable goroutine, and `sync.RWMutex` starves
neither side (a waiting writer holds off new readers, an unlock lets in the
readers that wait), so a call that is again and again able to take the lock
takes it; file operations are assumed to return, with a result or an error.
Handlers and resolutions are weakly fair: nothing blocks them but the store.
Clients, the clock, `Stop` and `Start` have no fairness.

In `Server`: weak fairness of `runServe`'s own steps, of a loop's return, of the
write of a reply, and of the read deadline, which is a timer of the runtime. A
TCP peer is assumed to go on reading: a write has no deadline, so the comment at
`server.go:21` ("bounds how long an idle TCP client may hold a connection")
holds for peers that do not send, and not for those that do not read. Nothing is
assumed of datagrams, of what clients send, or of sockets failing.

## 4. Proofs

Every theorem holds for all values of the constants: any set of goroutines, any
calls, requests, questions and messages, any labels, addresses and seeds, any
width of the serial and of the integers, with or without `--state` and faults.

| Module | Theorem | States |
|---|---|---|
| `ZoneStoreProofs` | `TypeCorrect` | `TypeOK`: in particular the serial stays in its width |
| | `MutualExclusion` | `LockInv`: the lock's holder is the one goroutine inside a mutation |
| | `NeverTorn` | `StateFileNeverTorn` |
| | `Durable` | `VisibleIsDurable` |
| | `Acknowledged` | `AckedSurvives` |
| | `MapWellFormed` | `StoreWellFormed`, of memory and file |
| | `ReadersSeeUnlocked` | `ReadsSeeUnlocked`, an action property |
| | `SerialForward` | `SerialMovesForward`, an action property |
| | `Refinement` | `IsAtomic`: the store implements `AtomicZone` |
| `UpdateAPIProofs` | `AtomicWhileServing` | `IsAtomic`, of the store under any requests |
| | `Encodes` | `StoredIsEncodable` |
| | `WritesItsName` | `WritesOnlyItsName`, an action property |
| | `OnlySigned` | only a request with the MAC of exactly itself writes, whatever its timestamp |
| | `SignedAndFresh` | `OnlySignedAndFresh`, where `DriftFits` |
| | `NotFoundTrue` | `NotFoundIsTrue` |
| | `ListFaithful` | `ListIsFaithful` |
| | `SerialCovered` | `ReportedSerialCoversUpdate`, while `RoomInSerial` |
| | `Understood` | `CommandsAreUnderstood`, where `ClocksFit` |
| `AnsweringProofs` | `AtomicWhileAsked` | `IsAtomic`, of the store under any questions and writers |
| | `NameErrors` | `NameErrorIsForAllTypes` |
| | `OneMoment` | `AnswerOfOneMoment` |
| | `ReadYourWrites` | `RegisteredIsAnswered` |
| | `SoundAnswers` | `MessageIsSound` |
| `ServerProofs` | `RealErrors` | `ErrorsAreReal` |
| | `FailureReported` | `runServe` ends only with the status of a failure |
| | `HarmlessReplies` | `RepliesAreHarmless`, given `ResolverFits` |
| | `OwnAnswer` | `PrintsItsOwnAnswer`, given `ResolverFits` and `AnswersTravel` |
| | `OrderedReplies` | `RepliesInOrder`, given `ResolverFits` |
| `TransitProofs` | `ReadingEnds` | `DecoderEnds` |
| | `PrefixesRefused` | `PrefixRefused` |
| | `IntactReadsRight` | an intact message is refused or read as what was sent, whatever it holds |
| | `ShallowRoundTrip` | `RoundTrip`, of messages that are `Shallow` |
| | `ShallowStable` | `StableOnceDecoded`, of messages that are `Shallow` |

**What is assumed.** The constants have named assumptions in the modules that
declare them, and TLC evaluates each in the runs: lower-casing is idempotent
and leaves valid labels and the zone alone (`Names`); `Nobody` and `Main` are no
serving goroutines, the serial has at least two values, calls and seeds are well
typed (`ZoneStore`); what `ParseInt`, the mux and the JSON decoder can yield, a
positive default window (`HmacAuth`, `UpdateAPI`); a question's name has no
empty label but a last one, the writers store addresses of the family their type
asks for, which `Encodes` proves of the API (`Answering`); limits of names, hops
and pointers that are numbers, a pointer offset of at most 14 bits
(`WireNames`); messages as the types of `message.go` and `rdata.go` can hold
them, with numbers in 16 bits and names and strings of octets (`Transit`); what
arrives is octets, a header with one question fits a datagram (12 + 255 + 4 of
512), and a name may take one hop (`Server`). Some theorems have a hypothesis of
their own:

* `DriftFits` (`SignedAndFresh`) and `ClocksFit` (`Understood`): the distance
  between clock and timestamp, in nanoseconds, fits an `int64`, that is, is less
  than 292 years. Where it does not, `hmac_replay` shows the property false.
  `api_auth` and `api_traffic` satisfy both; `OnlySigned` is the part that needs
  neither.
* `[]RoomInSerial` (`SerialCovered`): the serial has not reached its last value,
  2^32 - 1. A wrapped serial is smaller than the one before it.
* `ResolverFits` (`HarmlessReplies`, `OwnAnswer`, `OrderedReplies`): what the
  resolver owes the codec, since `Resolve` is a parameter of `Server`: for each
  question a response code of four bits and records of the types the codec has,
  with no more distinct names in the response than the hop limit. The resolver
  of `hostwild` answers with a handful of names, the limit is 32.
* `AnswersTravel` (`OwnAnswer`): the records for what clients ask are in lower
  case, as `CanonicalName` leaves them, the response can be encoded, and over TCP
  its length fits the prefix, which `serveConn` cuts to 16 bits without a test.
  `MCServer` assumes both for the questions its peers ask, so that the run
  `server` evaluates them.
* `Shallow` (`ShallowRoundTrip`, `ShallowStable`): a message with no more
  distinct names than the hop limit. It is there because the encoder nests
  pointers as deep as names share suffixes and never counts: names that each
  extend the one before give a message `Encode` makes and `Decode` refuses
  (the message of `Nested` in `MCTransit` does it on a smaller limit).
  `IntactReadsRight` needs no such hypothesis: what is not refused is right.

**The argument.**

*The store.* None of its properties is inductive. `AckedSurvives` needs to know
that the file about to be renamed into place holds the memory that kept the
promise; that needs `tmp` to be the current snapshot at `rename`, which needs
that nobody else writes memory or `tmp` meanwhile, hence `LockInv`. So
`IInv == TypeOK /\ LockInv /\ DiskInv /\ AckInv`: `DiskInv` says what each file
holds at each step of a write, `AckInv` that a mutation under way already keeps
in memory what it is about to promise. Two lemmas carry the data: a record
survives its JSON form (`RecordRoundTrip`), and therefore a store state survives
the file up to serial 0 becoming 1 (`StateRoundTrip`). Then there is one step
per action. Failing writes are what makes the theorem about acknowledgements
more than a frame argument: a failed write leaves the file behind memory, a
crash takes memory back to the file, and what was acknowledged before must be in
both. `StoreWellFormed` is preserved by itself once `DiskInv` gives what a
rename brings into the file, and `ReadsSeeUnlocked` is the second conjunct of
`DiskInv` read at the one step that returns to a reader.

*One proof for all callers.* The invariants are proved of `Usage`, the store in
the hands of goroutines that make any well-typed call at any time. `Spec`,
`ApiSpec` and `AskSpec` are each shown to be a `Usage` (`SpecIsUsage`,
`ApiIsUsage`, `AskIsUsage`), so what is proved of the store holds under the
update API and the resolver too, the refinement included.

*The refinement.* `SerialInv` adds how the serials of memory, file and readers
stand to one another before, during and after a write, a crash and a restart.
With it, `SetLocked` and `DeleteLocked` map to the start of `AtomicZone`'s
pending mutation, a rename to its becoming durable, an unlock to its becoming
visible, `Start` to a restart from the durable state, and every other step to a
stutter. A restart may show a new state, the one renamed into place before the
crash, and reads serial 0 as 1: `SerialMovesForward` holds there because
`SerialInv` knows what the file's serial can be.

*The API.* `Handlers` ties a handler's place to the store call it has under way;
`ApiStoreInv` adds that memory, file and every call hold only records
`buildRecord` or a seed can make. The answers need the history: `MissInv` carries
"there was a moment when the name, or its TXT record, was not there" from the
store's miss to the 404, by way of `standing`; `ListInv` accounts for a listing's names in two parts, those still to read and
those read, and `SerialCovers` puts the serial of a request's own mutation behind
the one its handler reads, whatever comes between. `Understood` sets the
documentation's rule against the handlers: they take exactly the right names
(`RecordRight`, `AcmeRight`), `buildRecord` makes of what a client sends exactly
what was wanted, or an error (`BuildsWanted`), and the signature lets through
exactly what is on time (`SentVerified`).

*The resolver.* `Stages` ties a question's place to its call, `Moments` says that
every state seen since it was asked is well formed and keeps what was promised
before; `FoundInv` says of which of these moments the half-built answer is true.
The ladder itself is split by lemmas on what is answered from configuration,
from the store and from the name, in the order of the code.

*The server.* `LoopInv`: a socket is closed only after `done`, in one critical
section, so a loop that finds it closed finds `done` set. `UdpInv` and `TcpInv`:
whatever is on its way for a client that waits (on the wire, in the shared
buffer's copies, in a connection, coming back) comes from the one request that
client has sent; the identifier and the question are checked at the end, but the
invariant is what makes that check enough. `PipeInv`: after `i` messages the
stream stands exactly at the message `i + 1`, and exactly the frames of the first
`i` replies are out, at each stage of `serveConn`.

*The codec.* `TransitInv` ties the octets under way to the message they were
made of; the rest is about functions. Reading first (`WireProofs`): each call on
a cursor either fails or moves it to an offset and appends a value, both given
by operators on the octets alone (`NameEnd`, `NameOf`, `SoaEnd`, ...), so that
what `Decode` returns can be said without the cursor. The walk of `cursor.name`
grows a hop or a label at every iteration, both bounded, hence `DecoderEnds`.
Writing next (`WireMessagesProofs`): `Spelled` says that at an offset of the
octets stands the beginning of a name, label by label and pointer by pointer, in
terms of a set of places closed under "continues"; such a set survives what is
appended behind it, and `builder.name` keeps one that holds every remembered
offset, with the depth of nesting bounded by the number of names written before.
`NameStep` then follows places, by induction on the labels left, and finds the
name and its end; records, sections and messages follow in the order of the
code. The two patches, of a record's length and of the header, are shown to
reach into no name. A cut message is refused since every read of the whole needs
octets up to its end, and `Decode` makes the same reads of the part until one
falls short. `ToLower` is shown idempotent octet by octet, the replacement of
bytes that are no UTF-8 included; with it `StableOnceDecoded` is the round trip
of what was decoded.

*Induction.* Names, streams and sections are laid out by recursive functions
and the library's recursive `FlattenSeq`; its induction theorems take an operator
that the provers cannot instantiate. `SequenceLemmas` therefore derives least
counterexamples from the well-foundedness of `<` (`LeastNat`) and runs each
induction over a set (`Induction`).

*The server and the codec.* `HandleQuery` is taken through decoder, resolver,
encoder and truncation: what it returns decodes to a message with `qr` set, or to
nothing that is answered (`HarmlessReplies`), and a single exchange of a client
with it ends in the client's own answer (`ExchangeAlone`), which with `UdpInv`
and `TcpInv` is `OwnAnswer`.

**Model-checked only.**

* Liveness: `RequestsAnswered`, `QuestionsAnswered`, `NeverHalfDead`,
  `ConnectionsEnd`. Fairness and `ENABLED` are outside the proof system's reach.
* `RoundTrip` and `StableOnceDecoded` of messages that are not `Shallow`: `wire`
  has one (`Nested`, which nests exactly to the limit). Of all such messages they
  are false, see above.
* The magic names: `WrittenIsRead`, `OnlyAddressesAreRead`, `DepthKeepsAddress`.
  `Extract` folds over the characters of a label with the folds of the community
  modules, whose recursion takes an operator, out of reach of an induction here.
* The four violation runs, which are about what does not hold.

## 5. Not modelled

* The loss of unsynced writes when the machine, not the process, stops: the
  files of the model survive `Stop`.
* A state file edited by hand: `file` holds only what a store wrote.
* What the clients print, key files, flag parsing, `cli.go`, `main.go`,
  `version.go`: wording or a dispatch, no state.
* HTTP itself (parsing, path cleaning, `net/http`'s own goroutines).

## 6. Plan

Done: names, records, store, API, signatures, resolver and its composition with
the store, DNS server, codec, magic names, the dry run, the clients; proofs about
the store, its refinement, the API and its answers, the clients' requests, the
resolver, the server's processes, the codec, and the replies that go through
both. What is left:

1. `Magic`: a written address is found, and only an address
   (`WrittenIsRead`, `OnlyAddressesAreRead`), once its folds are written as
   recursive functions.
2. `ResolverFits` from `Resolver`: that what the ladder answers fits a message,
   which would join `AnsweringProofs` and `ServerProofs`.
3. `HmacAuth` by itself: within `int64`, `Verify` accepts exactly the window.
