------------------------------- MODULE DryRun ------------------------------
(***************************************************************************)
(* `hostwild resolve --state f --record ...`, the dry run, beside a        *)
(* `hostwild serve --state f` that is running: two processes, each with a  *)
(* Store of its own, over one state file and one temporary file.  Nothing  *)
(* but the file system orders their steps, so a path is a name of a file   *)
(* (an inode) here, and a process may hold a file open that the other has  *)
(* renamed meanwhile.                                                      *)
(*                                                                         *)
(* A snapshot is the set of registered names; what a record holds, serials *)
(* and a failing disk are the matter of ZoneStore.  acked is a history     *)
(* variable.                                                               *)
(***************************************************************************)
EXTENDS Integers, FiniteSets

CONSTANTS
    Reg,        \* names that clients of the server register
    Seed,       \* names that the dry run is given with --record
    MaxStarts   \* bound: starts of the two processes

Proc  == {"serve", "resolve"}
Inode == 1..5   \* two have names and two are open, at most

NoFile == 0

\* What a file holds: a snapshot, or nothing that json.Unmarshal takes.
Whole(names) == [whole |-> TRUE, names |-> names]
Torn == [whole |-> FALSE, names |-> {}]

VARIABLES
    at,      \* where each process stands
    mem,     \* Store.records of each
    name,    \* the argument of its last call of Set
    fd,      \* the temporary file that each has open
    path,    \* the inode of the state file and of f.tmp
    data,    \* what each inode holds
    starts,  \* processes started so far
    acked    \* history: registrations that the server acknowledged

vars == << at, mem, name, fd, path, data, starts, acked >>

Init ==
    /\ at = [p \in Proc |-> "down"]
    /\ mem = [p \in Proc |-> {}]
    /\ name = [p \in Proc |-> "none"]
    /\ fd = [p \in Proc |-> NoFile]
    /\ path = [state |-> NoFile, tmp |-> NoFile]
    /\ data = [i \in Inode |-> Torn]
    /\ starts = 0
    /\ acked = {}

\* NewStore and Load; a file that cannot be read ends the process.
Load(p) ==
    /\ at[p] = "down"
    /\ starts < MaxStarts
    /\ starts' = starts + 1
    /\ LET f == IF path.state = NoFile THEN Whole({}) ELSE data[path.state] IN
       \/ ~ f.whole /\ UNCHANGED << at, mem >>
       \/ /\ f.whole
          /\ mem' = [mem EXCEPT ![p] = f.names]
          /\ at' = [at EXCEPT ![p] = "run"]
    /\ UNCHANGED << name, fd, path, data, acked >>

\* Set, called by a handler of the server or by the dry run's seedRecords.
Set(p, n) ==
    /\ at[p] = "run"
    /\ mem' = [mem EXCEPT ![p] = @ \cup {n}]
    /\ name' = [name EXCEPT ![p] = n]
    /\ at' = [at EXCEPT ![p] = "open"]
    /\ UNCHANGED << fd, path, data, starts, acked >>

Unused == CHOOSE i \in Inode : i \notin {path.state, path.tmp, fd["serve"], fd["resolve"]}

\* os.WriteFile truncates f.tmp, or makes it ...
OpenTmp(p) ==
    /\ at[p] = "open"
    /\ LET i == IF path.tmp = NoFile THEN Unused ELSE path.tmp IN
       /\ fd' = [fd EXCEPT ![p] = i]
       /\ path' = [path EXCEPT !.tmp = i]
       /\ data' = [data EXCEPT ![i] = Torn]
    /\ at' = [at EXCEPT ![p] = "write"]
    /\ UNCHANGED << mem, name, starts, acked >>

\* ... and writes from its start; of something longer that the other process
\* wrote there, the end remains.
FillTmp(p) ==
    /\ at[p] = "write"
    /\ LET old == data[fd[p]]
           new == IF Cardinality(old.names) > Cardinality(mem[p])
                  THEN Torn ELSE Whole(mem[p])
       IN  data' = [data EXCEPT ![fd[p]] = new]
    /\ fd' = [fd EXCEPT ![p] = NoFile]
    /\ at' = [at EXCEPT ![p] = "rename"]
    /\ UNCHANGED << mem, name, path, starts, acked >>

\* os.Rename fails when the other process has renamed f.tmp already: the
\* client gets an error, and the dry run ends.
RenameTmp(p) ==
    /\ at[p] = "rename"
    /\ IF path.tmp = NoFile
       THEN UNCHANGED << path, acked >>
       ELSE /\ path' = [state |-> path.tmp, tmp |-> NoFile]
            /\ acked' = IF p = "serve" THEN acked \cup {name[p]} ELSE acked
    /\ at' = [at EXCEPT ![p] = IF p = "resolve" /\ path.tmp = NoFile THEN "down" ELSE "run"]
    /\ UNCHANGED << mem, name, fd, data, starts >>

\* The dry run has printed its answer; the server is stopped.
Exit(p) ==
    /\ at[p] = "run"
    /\ at' = [at EXCEPT ![p] = "down"]
    /\ UNCHANGED << mem, name, fd, path, data, starts, acked >>

Next ==
    \E p \in Proc :
      \/ Load(p)
      \/ \E n \in IF p = "serve" THEN Reg ELSE Seed : Set(p, n)
      \/ OpenTmp(p)
      \/ FillTmp(p)
      \/ RenameTmp(p)
      \/ Exit(p)

Spec == Init /\ [][Next]_vars

\* README.md:41 "State that survives restarts": what the server acknowledged
\* is in the state file, so that the next start restores it, whether or not
\* somebody tries out a question with the "offline dry-run" (cli.go:64).
RegistrationsSurvive ==
    acked # {} => acked \subseteq data[path.state].names
=============================================================================
