----------------------------- MODULE ZoneStore -----------------------------
(***************************************************************************)
(* The record store of a zone (internal/zone) inside the process that owns *)
(* it: goroutines call Set, Delete, Lookup, Names and Serial concurrently, *)
(* mutations are written to a state file through a temporary file and a    *)
(* rename, any of these file operations may fail, and the process may stop *)
(* between any two steps and be started again (NewStore, Load, the         *)
(* --record seeds, then the listeners, as runServe does).                  *)
(*                                                                         *)
(* visible, stale and acked are history variables: they record what a      *)
(* reader could last see, whether the last write of the state file failed, *)
(* and what callers were told.  No action's guard reads them.              *)
(***************************************************************************)
EXTENDS Names, Records

CONSTANTS
    Proc,        \* goroutines that serve HTTP requests and DNS queries
    Main,        \* the goroutine of runServe, which seeds the store
    Nobody,      \* the value of mu while no writer holds it
    Seeds,       \* the --record flags, in order: [name, addr]
    Ops,         \* the calls the goroutines make
    SerialMod,   \* the serial is a uint32: 2^32, smaller in the models
    Persistent,  \* --state is given: the store has a path
    DiskFaults   \* file operations may fail

Goroutine == Proc \cup {Main}

AllTypes == "all"   \* typ = 0 in Delete

Op ==
    [op : {"Set"}, name : Name, rec : Record]
      \cup [op : {"Delete"}, name : Name, typ : Type \cup {AllTypes}]
      \cup [op : {"Lookup"}, name : Name]
      \cup [op : {"Names", "Serial"}]

ASSUME ProcAssumption == Main \notin Proc /\ Nobody \notin Goroutine

ASSUME SerialModAssumption == SerialMod \in Nat /\ SerialMod > 1

ASSUME SeedsAssumption == Seeds \in Seq([name : Name, addr : Addr])

ASSUME OpsAssumption == \A o \in Ops : o \in Op

ASSUME FlagAssumption == Persistent \in BOOLEAN /\ DiskFaults \in BOOLEAN

VARIABLES
    phase,     \* the process: "down", "seed" (starting) or "up" (listening)
    seeded,    \* seeds handed to Set since the process started
    records,   \* Store.records
    serial,    \* Store.serial
    mu,        \* the writer that holds Store.mu
    call,      \* each goroutine's current or last call
    pc,        \* and how far it got
    ret,       \* and what it returned
    file,      \* the state file
    tmp,       \* the state file's .tmp sibling
    visible,   \* history: the store as a reader could last see it
    stale,     \* history: this process's last write of the file failed
    acked      \* history: what callers were told and may still rely on

memVars  == << records, serial, mu >>
procVars == << call, pc, ret >>
diskVars == << file, tmp >>
history  == << visible, stale, acked >>
vars == << phase, seeded, memVars, procVars, diskVars, history >>

(***************************************************************************)
(* The map of records and what the mutations make of it.                   *)
(***************************************************************************)
NoRecords == [n \in {} |-> {}]

\* s.records[n]: nil for a name without an entry.
At(recs, n) == IF n \in DOMAIN recs THEN recs[n] ELSE {}

OfType(rs, t) == {r \in rs : r.type = t}

Kept(rs, t) == {r \in rs : r.type # t}

SetIn(recs, n, r) ==
    [m \in DOMAIN recs \cup {n} |->
        IF m = n THEN Kept(At(recs, n), r.type) \cup {r} ELSE recs[m]]

KeptByDelete(rs, typ) == IF typ = AllTypes THEN {} ELSE Kept(rs, typ)

\* Mutant: one type of several is not found.
RemovesWholeName(recs, n, typ) ==
    n \in DOMAIN recs /\ KeptByDelete(recs[n], typ) = {}

Removes(recs, n, typ) ==
    n \in DOMAIN recs /\ KeptByDelete(recs[n], typ) # recs[n]

\* Mutant: an emptied entry stays in the map.
DeleteLeavesEmpty(recs, n, typ) ==
    [recs EXCEPT ![n] = KeptByDelete(recs[n], typ)]

DeleteIn(recs, n, typ) ==
    IF KeptByDelete(recs[n], typ) = {}
    THEN [m \in DOMAIN recs \ {n} |-> recs[m]]
    ELSE [recs EXCEPT ![n] = KeptByDelete(recs[n], typ)]

\* Mutant: the serial does not wrap.
BumpUnbounded(s) == s + 1

Bump(s) == (s + 1) % SerialMod

(***************************************************************************)
(* The state file.  Torn is a file that was truncated and not yet written: *)
(* json.Unmarshal refuses it.                                              *)
(***************************************************************************)
NoFile == [kind |-> "none"]
Torn   == [kind |-> "torn"]

NewStore == [serial |-> 1, records |-> NoRecords]

Snapshot == [serial |-> serial, records |-> records]

ToDisk(s) ==
    [kind    |-> "snapshot",
     serial  |-> s.serial,
     records |-> [n \in DOMAIN s.records |->
                    {MarshalJSON(r) : r \in s.records[n]}]]

\* Load overrides NewStore's serial only with a positive one.
LoadedSerial(n) == IF n > 0 THEN n ELSE 1

\* NewStore followed by a Load that succeeds.
Loaded(f) ==
    IF f.kind = "snapshot"
    THEN [serial  |-> LoadedSerial(f.serial),
          records |-> [n \in DOMAIN f.records |->
                         {UnmarshalJSON(j) : j \in f.records[n]}]]
    ELSE NewStore

(***************************************************************************)
(* Calls and their results.                                                *)
(***************************************************************************)
SetCall(n, r)      == [op |-> "Set", name |-> n, rec |-> r]
DeleteCall(n, typ) == [op |-> "Delete", name |-> n, typ |-> typ]
LookupCall(n)      == [op |-> "Lookup", name |-> n]
NamesCall          == [op |-> "Names"]
SerialCall         == [op |-> "Serial"]

Err == {"nil", "ErrBadName", "io"}

Ret ==
    [err : Err] \cup [removed : BOOLEAN, err : Err]
      \cup [recs : SUBSET Record] \cup [names : SUBSET Name]
      \cup [serial : 0..(SerialMod - 1)]

NoRet == [err |-> "nil"]

\* What a mutation that got as far as persistLocked returns.
Mutated(o, err) ==
    IF o.op = "Set" THEN [err |-> err] ELSE [removed |-> TRUE, err |-> err]

LockedPcs == {"open", "write", "rename", "unlock"}

\* What holds of a name and a type once a mutation has returned nil.
Promised(o) ==
    IF o.op = "Set"
    THEN {[name |-> ToLower(o.name), type |-> o.rec.type, recs |-> {o.rec}]}
    ELSE {[name |-> ToLower(o.name), type |-> t, recs |-> {}] :
            t \in IF o.typ = AllTypes THEN Type ELSE {o.typ}}

\* A mutation under way withdraws what was promised of the same records.
Withdrawn(o) ==
    {p \in acked : \E q \in Promised(o) : p.name = q.name /\ p.type = q.type}

(***************************************************************************)
(* Initially nothing runs and nothing was ever stored.                     *)
(***************************************************************************)
Init ==
    /\ phase = "down"
    /\ seeded = 0
    /\ records = NoRecords
    /\ serial = 1
    /\ mu = Nobody
    /\ call = [g \in Goroutine |-> NamesCall]
    /\ pc = [g \in Goroutine |-> "idle"]
    /\ ret = [g \in Goroutine |-> NoRet]
    /\ file = NoFile
    /\ tmp = NoFile
    /\ visible = NewStore
    /\ stale = FALSE
    /\ acked = {}

(***************************************************************************)
(* Calls, and the parts of Set, Delete and the readers before persistence. *)
(***************************************************************************)
Enter(g, o) ==
    /\ pc[g] = "idle"
    /\ call' = [call EXCEPT ![g] = o]
    /\ pc' = [pc EXCEPT ![g] = "enter"]
    /\ UNCHANGED << ret, memVars, diskVars, history >>

Call(g, o) == phase = "up" /\ Enter(g, o) /\ UNCHANGED << phase, seeded >>

\* The caller has its result; call and ret go back to their initial values.
Leave(g) ==
    /\ pc[g] = "done"
    /\ call' = [call EXCEPT ![g] = NamesCall]
    /\ pc' = [pc EXCEPT ![g] = "idle"]
    /\ ret' = [ret EXCEPT ![g] = NoRet]
    /\ UNCHANGED << memVars, diskVars, history >>

Return(g) == phase = "up" /\ Leave(g) /\ UNCHANGED << phase, seeded >>

\* The caller has the result of one call and makes the next.
CallAgain(g, o) ==
    /\ pc[g] = "done"
    /\ call' = [call EXCEPT ![g] = o]
    /\ pc' = [pc EXCEPT ![g] = "enter"]
    /\ ret' = [ret EXCEPT ![g] = NoRet]
    /\ UNCHANGED << phase, seeded, memVars, diskVars, history >>

Finish(g, r) ==
    /\ pc' = [pc EXCEPT ![g] = "done"]
    /\ ret' = [ret EXCEPT ![g] = r]
    /\ UNCHANGED call

SetInvalid(g) ==
    /\ pc[g] = "enter"
    /\ call[g].op = "Set"
    /\ ~ ValidName(ToLower(call[g].name))
    /\ Finish(g, [err |-> "ErrBadName"])
    /\ UNCHANGED << phase, seeded, memVars, diskVars, history >>

\* Mutant: the serial is forgotten.
MutateKeepsSerial(g, recs) ==
    /\ mu = Nobody
    /\ mu' = g
    /\ records' = recs
    /\ pc' = [pc EXCEPT ![g] = "open"]
    /\ acked' = acked \ Withdrawn(call[g])
    /\ UNCHANGED << phase, seeded, serial, call, ret, diskVars, visible, stale >>

\* Takes the lock and changes the map and the serial; persistLocked follows.
Mutate(g, recs) ==
    /\ mu = Nobody
    /\ mu' = g
    /\ records' = recs
    /\ serial' = Bump(serial)
    /\ pc' = [pc EXCEPT ![g] = "open"]
    /\ acked' = acked \ Withdrawn(call[g])
    /\ UNCHANGED << phase, seeded, call, ret, diskVars, visible, stale >>

SetLocked(g) ==
    /\ pc[g] = "enter"
    /\ call[g].op = "Set"
    /\ ValidName(ToLower(call[g].name))
    /\ Mutate(g, SetIn(records, ToLower(call[g].name), call[g].rec))

DeleteMiss(g) ==
    /\ pc[g] = "enter"
    /\ call[g].op = "Delete"
    /\ mu = Nobody
    /\ ~ Removes(records, ToLower(call[g].name), call[g].typ)
    /\ Finish(g, [removed |-> FALSE, err |-> "nil"])
    /\ UNCHANGED << phase, seeded, memVars, diskVars, history >>

DeleteLocked(g) ==
    /\ pc[g] = "enter"
    /\ call[g].op = "Delete"
    /\ Removes(records, ToLower(call[g].name), call[g].typ)
    /\ Mutate(g, DeleteIn(records, ToLower(call[g].name), call[g].typ))

\* Mutant: a reader that does not take the read lock.
ReadableAlways == TRUE

Readable == mu = Nobody

\* Lookup, Names and Serial copy what they return under the read lock.
Read(g) ==
    /\ pc[g] = "enter"
    /\ Readable
    /\ \/ /\ call[g].op = "Lookup"
          /\ Finish(g, [recs |-> At(records, ToLower(call[g].name))])
       \/ /\ call[g].op = "Names"
          /\ Finish(g, [names |-> DOMAIN records])
       \/ /\ call[g].op = "Serial"
          /\ Finish(g, [serial |-> serial])
    /\ UNCHANGED << phase, seeded, memVars, diskVars, history >>

(***************************************************************************)
(* persistLocked and the deferred Unlock.                                  *)
(***************************************************************************)
Unlock(g, err) ==
    /\ mu' = Nobody
    /\ visible' = Snapshot
    /\ Finish(g, Mutated(call[g], err))
    /\ acked' = IF err = "nil" THEN acked \cup Promised(call[g]) ELSE acked
    /\ UNCHANGED << phase, seeded, records, serial >>

\* Mutant: no temporary file, the state file itself is truncated.
OpenInPlace(g) ==
    /\ pc[g] = "open"
    /\ Persistent
    /\ file' = Torn
    /\ pc' = [pc EXCEPT ![g] = "write"]
    /\ UNCHANGED << phase, seeded, memVars, call, ret, tmp, history >>

\* os.WriteFile opens the temporary file with O_TRUNC ...
OpenTmp(g) ==
    /\ pc[g] = "open"
    /\ Persistent
    /\ tmp' = Torn
    /\ pc' = [pc EXCEPT ![g] = "write"]
    /\ UNCHANGED << phase, seeded, memVars, call, ret, file, history >>

\* Mutant: what is written was marshalled before the mutation.
FillTmpBefore(g) ==
    /\ pc[g] = "write"
    /\ tmp' = ToDisk(visible)
    /\ pc' = [pc EXCEPT ![g] = "rename"]
    /\ UNCHANGED << phase, seeded, memVars, call, ret, file, history >>

\* ... and writes the marshalled snapshot.
FillTmp(g) ==
    /\ pc[g] = "write"
    /\ tmp' = ToDisk(Snapshot)
    /\ pc' = [pc EXCEPT ![g] = "rename"]
    /\ UNCHANGED << phase, seeded, memVars, call, ret, file, history >>

RenameTmp(g) ==
    /\ pc[g] = "rename"
    /\ file' = tmp
    /\ tmp' = NoFile
    /\ stale' = FALSE
    /\ pc' = [pc EXCEPT ![g] = "unlock"]
    /\ UNCHANGED << phase, seeded, memVars, call, ret, visible, acked >>

\* Mutant: nobody unlocks.
PersistedLocked(g) ==
    /\ pc[g] = IF Persistent THEN "unlock" ELSE "open"
    /\ Finish(g, Mutated(call[g], "nil"))
    /\ UNCHANGED << phase, seeded, memVars, diskVars, history >>

\* persistLocked returned nil, at once when path == "": the deferred Unlock
\* runs and the call returns.
Persisted(g) ==
    /\ pc[g] = IF Persistent THEN "unlock" ELSE "open"
    /\ Unlock(g, "nil")
    /\ UNCHANGED << diskVars, stale >>

\* Mutant: the error is dropped.
PersistFailSilent(g) ==
    /\ DiskFaults
    /\ Persistent
    /\ pc[g] \in {"open", "write", "rename"}
    /\ stale' = TRUE
    /\ Unlock(g, "nil")
    /\ UNCHANGED diskVars

\* Mutant: the error path forgets the lock.
PersistFailLocked(g) ==
    /\ DiskFaults
    /\ Persistent
    /\ pc[g] \in {"open", "write", "rename"}
    /\ stale' = TRUE
    /\ Finish(g, Mutated(call[g], "io"))
    /\ UNCHANGED << phase, seeded, memVars, diskVars, visible, acked >>

\* The open, the write or the rename fails: persistLocked returns the error
\* and nothing undoes the mutation.
PersistFail(g) ==
    /\ DiskFaults
    /\ Persistent
    /\ pc[g] \in {"open", "write", "rename"}
    /\ stale' = TRUE
    /\ Unlock(g, "io")
    /\ UNCHANGED diskVars

(***************************************************************************)
(* The life of the process: runServe.                                      *)
(***************************************************************************)
\* NewStore and Load; a state file that does not parse ends runServe here.
Start ==
    /\ phase = "down"
    /\ file # Torn
    /\ phase' = "seed"
    /\ records' = Loaded(file).records
    /\ serial' = Loaded(file).serial
    /\ visible' = Loaded(file)
    /\ stale' = FALSE
    /\ UNCHANGED << seeded, mu, procVars, diskVars, acked >>

\* seedRecords: an address becomes an A or an AAAA record without a TTL.
SeedRecord(addr) ==
    [type |-> IF Is6(Unmap(addr)) THEN "AAAA" ELSE "A",
     addr |-> Unmap(addr), txt |-> << >>, ttl |-> 0]

SeedCall ==
    /\ phase = "seed"
    /\ seeded < Len(Seeds)
    /\ seeded' = seeded + 1
    /\ Enter(Main, SetCall(CanonicalName(Seeds[seeded + 1].name),
                           SeedRecord(Seeds[seeded + 1].addr)))
    /\ UNCHANGED phase

SeedReturn ==
    /\ phase = "seed"
    /\ Leave(Main)
    /\ ret[Main].err = "nil"
    /\ UNCHANGED << phase, seeded >>

Listen ==
    /\ phase = "seed"
    /\ seeded = Len(Seeds)
    /\ pc[Main] = "idle"
    /\ phase' = "up"
    /\ UNCHANGED << seeded, memVars, procVars, diskVars, history >>

\* The process ends: killed, or runServe returns (a seed was refused, no
\* key, an address in use, a listener failed).  Memory is lost.
Stop ==
    /\ phase # "down"
    /\ phase' = "down"
    /\ seeded' = 0
    /\ records' = NoRecords
    /\ serial' = 1
    /\ mu' = Nobody
    /\ call' = [g \in Goroutine |-> NamesCall]
    /\ pc' = [g \in Goroutine |-> "idle"]
    /\ ret' = [g \in Goroutine |-> NoRet]
    /\ acked' = IF Persistent THEN acked ELSE {}
    /\ UNCHANGED << diskVars, visible, stale >>

(***************************************************************************)
(* What goroutine g does by itself once a call is under way.               *)
(***************************************************************************)
Step(g) ==
    \/ SetInvalid(g)
    \/ SetLocked(g)
    \/ DeleteMiss(g)
    \/ DeleteLocked(g)
    \/ Read(g)
    \/ OpenTmp(g)
    \/ FillTmp(g)
    \/ RenameTmp(g)
    \/ Persisted(g)
    \/ PersistFail(g)

Life == Start \/ SeedCall \/ SeedReturn \/ Listen \/ Stop

Next ==
    \/ Life
    \/ \E g \in Goroutine : Step(g)
    \/ \E g \in Proc : Return(g) \/ \E o \in Ops : Call(g, o)

Spec == Init /\ [][Next]_vars

(***************************************************************************)
(* The modules that compose the store with its callers state fairness.     *)
(* The Go scheduler runs every goroutine that can run, and sync.RWMutex    *)
(* hands the lock to every waiter in the end (a writer that waits blocks   *)
(* new readers, an unlock admits the readers that wait), so Step, which    *)
(* takes the lock, is strongly fair.  Nothing makes the process stop,      *)
(* start, or a client call.                                                *)
(***************************************************************************)

(***************************************************************************)
(* Properties.                                                             *)
(***************************************************************************)
RecordMap(recs) ==
    /\ recs = [n \in DOMAIN recs |-> recs[n]]
    /\ DOMAIN recs \subseteq Name
    /\ \A n \in DOMAIN recs : recs[n] \subseteq Record

State(s) ==
    /\ s = [serial |-> s.serial, records |-> s.records]
    /\ s.serial \in 0..(SerialMod - 1)
    /\ RecordMap(s.records)

\* A file is missing, torn, or the JSON of some state of the store.
FileOK(f) ==
    /\ f.kind \in {"none", "torn", "snapshot"}
    /\ State(Loaded(f))

\* The type invariant: the store's memory, the calls under way, the files
\* and the history hold values of their types; the serial stays a uint32.
TypeOK ==
    /\ phase \in {"down", "seed", "up"}
    /\ seeded \in 0..Len(Seeds)
    /\ State(Snapshot)
    /\ mu \in Goroutine \cup {Nobody}
    /\ call \in [Goroutine -> Op]
    /\ pc \in [Goroutine -> {"idle", "enter", "done"} \cup LockedPcs]
    /\ ret \in [Goroutine -> Ret]
    /\ FileOK(file)
    /\ FileOK(tmp)
    /\ State(visible)
    /\ stale \in BOOLEAN
    /\ acked \subseteq [name : Name, type : Type, recs : SUBSET Record]

WellFormed(recs) ==
    \A n \in DOMAIN recs :
      /\ ValidName(n)
      /\ recs[n] # {}
      /\ \A r1, r2 \in recs[n] : r1.type = r2.type => r1 = r2

\* Whatever the goroutines, the faults and the restarts did, memory and the
\* state file hold only valid lower-case names, never an entry without
\* records (Lookup and Names would disagree about it), and one record of a
\* type at a name (Set and Delete, zone.go:128-174).
StoreWellFormed == WellFormed(records) /\ WellFormed(Loaded(file).records)

\* The state file is never half-written, even while a write is under way or
\* after the process died in one: a restart always finds a file Load
\* accepts (persistLocked's temporary file, zone.go:213-229).
StateFileNeverTorn == file # Torn

\* What a restart would restore of a store state.
Restorable(s) == [s EXCEPT !.serial = LoadedSerial(s.serial)]

\* While the process runs and its last write of the state file did not
\* fail, a restart restores exactly what readers can see now, or the one
\* mutation that is renamed into place but not yet unlocked: no answer is
\* ever given from state that a crash would take back.
VisibleIsDurable ==
    (Persistent /\ phase # "down" /\ ~ stale) =>
      \/ Loaded(file) = Restorable(visible)
      \/ /\ mu # Nobody /\ pc[mu] = "unlock"
         /\ Loaded(file) = Restorable(Snapshot)

Keeps(recs, p) == OfType(At(recs, p.name), p.type) = p.recs

\* A mutation that returned nil stays done, in memory and in the state file,
\* until another mutation of the same name and type begins: through later
\* mutations of other names, failed writes, crashes and restarts.
AckedSurvives ==
    \A p \in acked :
      /\ phase # "down" => Keeps(records, p)
      /\ Persistent => Keeps(Loaded(file).records, p)

\* A reader never sees the store between a mutation and the end of its
\* write to disk: what Lookup, Names and Serial return is the last state
\* that was unlocked.
ReadsSeeUnlocked ==
    [][\A g \in Goroutine : (pc[g] = "enter" /\ pc'[g] = "done") =>
         LET o == call[g] IN
         CASE o.op = "Lookup" ->
                ret'[g].recs = At(visible.records, ToLower(o.name))
           [] o.op = "Names"  -> ret'[g].names = DOMAIN visible.records
           [] o.op = "Serial" -> ret'[g].serial = visible.serial
           [] OTHER -> TRUE]_vars

\* Clients that compare SOA serials can rely on them: as long as no write
\* failed, what readers see changes only together with the serial's next
\* value, a crash and a restart between the two included.
SerialMovesForward ==
    [][(Persistent /\ ~ stale) =>
         \/ visible' = visible
         \/ visible'.serial \in
              {Bump(visible.serial), LoadedSerial(Bump(visible.serial))}]_vars

\* docs/update-api.md:63 "With `--state <file>`, every mutation is written":
\* whenever the lock is free, the file holds what readers see.
EveryMutationIsWritten ==
    (Persistent /\ phase = "up" /\ mu = Nobody) =>
      Loaded(file) = Restorable(visible)

(***************************************************************************)
(* The inductive invariant of the proofs (ZoneStoreProofs).                *)
(***************************************************************************)

\* Store.mu excludes: its holder is the one goroutine between the change of
\* the map and the return, and that goroutine is in Set or Delete.
LockInv ==
    /\ \A g \in Goroutine : (mu = g) <=> (pc[g] \in LockedPcs)
    /\ \A g \in Goroutine :
         pc[g] \in LockedPcs => call[g].op \in {"Set", "Delete"}
    /\ phase = "down" => \A g \in Goroutine : pc[g] = "idle"

\* How memory, what readers see and the two files hang together at each
\* step of a write.
DiskInv ==
    /\ file.kind # "torn"
    /\ (mu = Nobody /\ phase # "down") => visible = Snapshot
    /\ \A g \in Goroutine : pc[g] = "rename" => tmp = ToDisk(Snapshot)
    /\ \A g \in Goroutine : pc[g] = "unlock" => file = ToDisk(Snapshot)
    /\ (/\ Persistent /\ phase # "down" /\ ~ stale
        /\ \A g \in Goroutine : pc[g] # "unlock")
         => Loaded(file) = Restorable(visible)

\* AckedSurvives, and what a mutation under way is about to promise.
AckInv ==
    /\ AckedSurvives
    /\ \A g \in Goroutine :
         pc[g] \in LockedPcs => \A p \in Promised(call[g]) : Keeps(records, p)
    /\ (~ Persistent /\ phase = "down") => acked = {}
    /\ \A g \in Goroutine :
         pc[g] \in {"write", "rename", "unlock"} => Persistent

IInv == TypeOK /\ LockInv /\ DiskInv /\ AckInv

(***************************************************************************)
(* The abstract store.  A mutation is pending from the moment it changes   *)
(* memory to the moment its writer unlocks.                                *)
(***************************************************************************)
Atomic ==
    INSTANCE AtomicZone WITH
        Empty <- NewStore,
        alive <- phase # "down",
        view  <- visible,
        next  <- IF mu = Nobody THEN visible ELSE Snapshot,
        disk  <- Loaded(file)

\* The store with its lock, its three-step write, its faults and its
\* restarts implements the atomic store: mutations happen one at a time, the
\* durable state changes in one step and only to the mutation under way.
IsAtomic == Atomic!ASpec
=============================================================================
