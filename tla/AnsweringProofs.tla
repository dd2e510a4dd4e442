-------------------------- MODULE AnsweringProofs --------------------------
(***************************************************************************)
(* Proofs about Answering: what a question is answered while the store     *)
(* changes, for every set of askers, writers, questions, calls and flags.  *)
(***************************************************************************)
EXTENDS Answering, ZoneStoreProofs

askAll == << vars, askVars >>

(***************************************************************************)
(* Questions.                                                              *)
(***************************************************************************)

\* What the decoder makes of a question has its types.
LEMMA QuestionType ==
    ASSUME NEW q \in Question
    PROVE  /\ q.name \in Name /\ q.type \in QType /\ q.class \in QClass
           /\ CanonicalName(q.name) \in Name
BY QuestionAssumption, CanonicalNameType DEF QuestionAssumption

\* A name below the apex has a relative part, and it is not empty.
LEMMA RelativePart ==
    ASSUME NEW q \in Question, Under(CanonicalName(q.name), Zone)
    PROVE  /\ CanonicalName(q.name) # Zone
           /\ RelativeOf(q) = Left(CanonicalName(q.name), Zone)
           /\ RelativeOf(q) \in Name /\ ToLower(RelativeOf(q)) = RelativeOf(q)
           /\ RelativeOf(q) # EmptyName
<1> DEFINE n == q.name
           t == TrimDot(n)
           c == CanonicalName(n)
           r == Left(c, Zone)
<1>1. /\ n \in Name /\ t \in Name /\ c \in Name /\ c = ToLower(t)
      /\ Len(n) \in Nat /\ DOMAIN n = 1..Len(n)
      /\ \A i \in 1..Len(n) : n[i] \in Label
  BY QuestionType, TrimDotType, ToLowerLabels DEF CanonicalName
<1>2. \A i \in DOMAIN n : n[i] = "" => i = Len(n)
  BY QuestionAssumption DEF QuestionAssumption
<1>3. Len(c) \in Nat /\ Len(c) > Len(Zone)
  BY <1>1, ToLowerLabels DEF Under
<1>4. c # Zone
  BY <1>3, ZoneType
<1>5. RelativeOf(q) = r
  BY <1>4 DEF RelativeOf, Relative
<1>6. /\ r \in Name /\ Len(r) = Len(c) - Len(Zone)
      /\ \A i \in 1..(Len(c) - Len(Zone)) : r[i] = c[i]
  BY <1>1, ZoneType, LeftOfZone
<1>7. ToLower(r) = r
  BY <1>1, CanonicalIsLower
<1>8. /\ Len(t) \in Nat /\ Len(t) <= Len(n) /\ \A i \in 1..Len(t) : t[i] = n[i]
      /\ Len(c) = Len(t) /\ \A i \in 1..Len(t) : c[i] = LowerOf[t[i]]
  <2>1. Len(t) = Len(n) - 1 \/ Len(t) = Len(n)
    BY <1>1, TrimDotLabels
  <2>2. \A i \in 1..Len(t) : t[i] = n[i]
    <3>1. n \in Name
      BY <1>1
    <3> HIDE DEF n
    <3> QED
      BY <3>1, TrimDotLabels
  <2>3. /\ Len(t) \in Nat /\ Len(c) = Len(t)
        /\ \A i \in 1..Len(t) : c[i] = LowerOf[t[i]]
    BY <1>1, ToLowerLabels
  <2> HIDE DEF n, t, c
  <2>4. Len(n) \in Nat
    BY <1>1
  <2>5. Len(t) <= Len(n)
    BY <2>1, <2>3, <2>4
  <2> QED
    BY <2>2, <2>3, <2>5
<1> HIDE DEF n, t, c, r
<1>9. Len(Zone) \in Nat /\ Len(Zone) > 0
  BY ZoneType
<1>10. 1 \in 1..Len(n) /\ 1 # Len(n) /\ 1 \in 1..Len(t) /\ 1 \in 1..(Len(c) - Len(Zone))
  BY <1>1, <1>3, <1>8, <1>9
<1>11. n[1] # "" /\ n[1] \in Label
  BY <1>1, <1>2, <1>10
<1>12. r[1] = LowerOf[n[1]]
  BY <1>6, <1>8, <1>10
<1>13. r[1] # ""
  BY <1>11, <1>12, LabelAssumption DEF LabelAssumption
<1>14. r # EmptyName
  <2>1. EmptyName[1] = ""
    BY DEF EmptyName
  <2> QED
    BY <1>13, <2>1
<1>15. RelativeOf(q) \in Name /\ ToLower(RelativeOf(q)) = RelativeOf(q) /\ RelativeOf(q) # EmptyName
  BY <1>5, <1>6, <1>7, <1>14
<1> QED
  BY <1>4, <1>5, <1>15 DEF n, c, r

\* A question that is not answered by the configuration is below the apex.
LEMMA AskedOfStore ==
    ASSUME NEW q \in Question, ~ AnsweredByConfig(q)
    PROVE  /\ Under(CanonicalName(q.name), Zone)
           /\ RelativeOf(q) \in Name /\ ToLower(RelativeOf(q)) = RelativeOf(q)
<1>1. Under(CanonicalName(q.name), Zone)
  BY DEF AnsweredByConfig, InZone, Relative
<1> QED
  BY <1>1, RelativePart

(***************************************************************************)
(* Resolving questions, and the writes beside it, is a use of the store.   *)
(***************************************************************************)
FitRecord == {r \in Record : Fits(r)}

AskOps == {o \in Op : o.op = "Set" => o.rec \in FitRecord}

\* The calls of Ops, of the resolver and of the seeds bring records that fit.
LEMMA AskOpsType ==
    /\ AskOps \subseteq Op
    /\ SerialCall \in AskOps
    /\ \A n \in Name : LookupCall(n) \in AskOps
    /\ \A o \in Ops : o \in AskOps
    /\ \A o \in AskOps : o.op = "Set" => o.rec \in FitRecord
    /\ \A a \in Addr : SeedRecord(a) \in FitRecord
<1>1. AskOps \subseteq Op
  BY DEF AskOps
<1>2. SerialCall \in AskOps
  BY DEF AskOps, SerialCall, Op
<1>3. \A n \in Name : LookupCall(n) \in AskOps
  BY DEF AskOps, LookupCall, Op
<1>4. ASSUME NEW o \in Ops PROVE o \in AskOps
  <2>1. o \in Op
    BY OpsAssumption DEF OpsAssumption
  <2>2. o.op = "Set" => o.rec \in Record /\ Fits(o.rec)
    BY <2>1, OpFields, FitAssumption DEF FitAssumption
  <2> QED
    BY <2>1, <2>2 DEF AskOps, FitRecord
<1>5. \A o \in AskOps : o.op = "Set" => o.rec \in FitRecord
  BY DEF AskOps
<1>6. ASSUME NEW a \in Addr PROVE SeedRecord(a) \in FitRecord
  <2>1. SeedRecord(a) \in Record
    BY SeedRecordType
  <2>2. Unmap(a).fam \in {"v4", "v6"}
    BY DEF Unmap, Is4In6, Addr
  <2>3. Fits(SeedRecord(a))
    BY <2>2 DEF Fits, SeedRecord, Is6, Is4
  <2> QED
    BY <2>1, <2>3 DEF FitRecord
<1> QED
  BY <1>1, <1>2, <1>3, <1>4, <1>5, <1>6

\* Every step is a step of the store in use, or leaves the store alone.
LEMMA AskUses == [AskNext]_askAll => [Use(AskOps)]_vars
<1>1. CASE UNCHANGED askAll
  BY <1>1 DEF askAll
<1>2. ASSUME NEW g \in Asker, NEW q \in Question, Ask(g, q)
      PROVE  [Use(AskOps)]_vars
  <2>1. g \in Proc
    BY AskerAssumption DEF AskerAssumption
  <2>2. CASE ~ AnsweredByConfig(q) /\ Call(g, LookupCall(RelativeOf(q)))
    BY <2>1, <2>2, AskedOfStore, AskOpsType DEF Use
  <2>3. CASE Call(g, SerialCall)
    BY <2>1, <2>3, AskOpsType DEF Use
  <2> QED
    BY <1>2, <2>2, <2>3 DEF Ask
<1>3. ASSUME NEW g \in Asker, Resolving(g)
      PROVE  [Use(AskOps)]_vars
  <2>1. g \in Proc
    BY AskerAssumption DEF AskerAssumption
  <2>2. Return(g) \/ CallAgain(g, SerialCall) \/ UNCHANGED vars
    BY <1>3 DEF Resolving, LookedUp, SerialRead, Answered
  <2> QED
    BY <2>1, <2>2, AskOpsType DEF Use
<1>4. ASSUME NEW g \in Proc \ Asker, Write(g)
      PROVE  [Use(AskOps)]_vars
  BY <1>4, AskOpsType DEF Write, Use
<1>5. CASE \E g \in Goroutine : StoreStep(g)
  BY <1>5 DEF StoreStep, Use
<1>6. CASE Boot \/ Halt
  BY <1>6 DEF Boot, Halt, Use, Life
<1> QED
  BY <1>1, <1>2, <1>3, <1>4, <1>5, <1>6 DEF AskNext

\* The store behind the resolver is a store in use ...
LEMMA AskIsUsage == AskSpec => Usage
<1>1. [Use(AskOps)]_vars => [AnyUse]_vars
  BY AskOpsType DEF Use, AnyUse
<1>2. AskInit => Init
  BY DEF AskInit
<1> QED
  BY <1>1, <1>2, AskUses, PTL DEF AskSpec, Usage, askAll

\* ... and so, while questions are asked of it, it implements the atomic
\* store (AtomicZone).
THEOREM AtomicWhileAsked == AskSpec => IsAtomic
BY AskIsUsage, UsageIsAtomic, PTL

(***************************************************************************)
(* What the resolver makes of a question.                                  *)
(***************************************************************************)

\* Whether the configuration answers depends on the name and the class.
LEMMA SameName ==
    ASSUME NEW q1, NEW q2, q1.name = q2.name, q1.class = q2.class
    PROVE  /\ AnsweredByConfig(q1) <=> AnsweredByConfig(q2)
           /\ RelativeOf(q1) = RelativeOf(q2)
BY DEF AnsweredByConfig, RelativeOf

\* The configuration never denies that a name exists.
LEMMA ConfigCodes ==
    ASSUME NEW q PROVE ConfigAnswer(q).rcode \in {"REFUSED", "NOERROR"}
BY DEF ConfigAnswer, Negative, Result, Apex, AddressAnswer

\* The store's answer denies it exactly where nothing is registered, no
\* address is in the name and no fallback is given, whatever the type.
LEMMA StoreCodes ==
    ASSUME NEW q, NEW recs
    PROVE  /\ StoreAnswer(q, recs).rcode \in {"NXDOMAIN", "NOERROR"}
           /\ StoreAnswer(q, recs).rcode = "NXDOMAIN" <=>
                /\ recs = {} /\ ~ IsValid(Magic[RelativeOf(q)])
                /\ ~ IsValid(Fallback)
<1>1. \A qt, a : AddressAnswer(CanonicalName(q.name), qt, a).rcode = "NOERROR"
  BY DEF AddressAnswer, Negative, Result
<1>2. Stored(CanonicalName(q.name), q.type, recs).rcode = "NOERROR"
  BY DEF Stored, Negative, Result
<1>3. Negative("NXDOMAIN").rcode = "NXDOMAIN"
  BY DEF Negative, Result
<1> QED
  BY <1>1, <1>2, <1>3 DEF StoreAnswer, RelativeOf

\* A name exists for every type or for none, in every state of the store and
\* for every configuration.
THEOREM NameErrors == AskSpec => []NameErrorIsForAllTypes
<1>1. NameErrorIsForAllTypes
  <2> SUFFICES ASSUME NEW q1 \in Question, NEW q2 \in Question,
                      q1.name = q2.name, q1.class = q2.class,
                      Now(q1).rcode = "NXDOMAIN"
               PROVE  Now(q2).rcode = "NXDOMAIN"
    BY DEF NameErrorIsForAllTypes
  <2>1. ~ AnsweredByConfig(q1)
    BY ConfigCodes DEF Now
  <2>2. ~ AnsweredByConfig(q2) /\ RelativeOf(q1) = RelativeOf(q2)
    BY <2>1, SameName
  <2> DEFINE recs == At(visible.records, RelativeOf(q1))
  <2>3. Now(q1) = StoreAnswer(q1, recs) /\ Now(q2) = StoreAnswer(q2, recs)
    BY <2>1, <2>2 DEF Now
  <2> HIDE DEF recs
  <2> QED
    BY <2>2, <2>3, StoreCodes
<1> QED
  BY <1>1, PTL

(***************************************************************************)
(* How far each question is.                                               *)
(***************************************************************************)
Stage(g) ==
    /\ ask[g].at \in {"idle", "lookup", "serial", "answer"}
    /\ ask[g].at # "idle" => phase = "up" /\ ask[g].q \in Question
    /\ ask[g].at = "lookup" =>
         /\ ~ AnsweredByConfig(ask[g].q)
         /\ call[g] = LookupCall(RelativeOf(ask[g].q))
         /\ pc[g] \in {"enter", "done"}
    /\ ask[g].at = "serial" => call[g] = SerialCall /\ pc[g] \in {"enter", "done"}

Stages ==
    /\ ask = [g \in Asker |-> ask[g]]
    /\ \A g \in Asker : Stage(g)

\* The one step of a reader's call is to read.
LEMMA ReaderStep ==
    ASSUME NEW g \in Goroutine, Step(g), pc[g] \in {"enter", "done"},
           call[g].op \in {"Lookup", "Serial"}
    PROVE  Read(g)
BY DEF Step, SetInvalid, SetLocked, DeleteMiss, DeleteLocked, OpenTmp, FillTmp,
   RenameTmp, Persisted, PersistFail

\* A step that leaves g's question where it is: at most g's read is done.
Waits(g) ==
    /\ ask'[g] = ask[g]
    /\ phase = "up" => phase' = "up"
    /\ ask[g].at \in {"lookup", "serial"} =>
         /\ call'[g] = call[g]
         /\ (pc'[g] = pc[g] /\ ret'[g] = ret[g]) \/ Read(g)

\* What a step is to one question: its end, a step of its own, or a wait.
LEMMA LocalStep ==
    ASSUME TypeOK, Stages, AskNext, NEW g \in Asker
    PROVE  \/ ask'[g] = NotAsked
           \/ \E q \in Question : Ask(g, q)
           \/ LookedUp(g)
           \/ SerialRead(g)
           \/ Waits(g)
<1>1. g \in Proc /\ g \in Goroutine /\ g # Main
  BY AskerAssumption, ProcAssumption DEF AskerAssumption, ProcAssumption, Goroutine
<1>2. ASSUME NEW h \in Proc, h # g, phase' = phase,
             \/ UNCHANGED vars \/ Return(h)
             \/ \E o : Call(h, o) \/ CallAgain(h, o)
      PROVE  /\ call'[g] = call[g] /\ pc'[g] = pc[g] /\ ret'[g] = ret[g]
  BY <1>1, <1>2
  DEF vars, procVars, Return, Call, CallAgain, Enter, Leave, TypeOK
<1>3. ASSUME NEW h \in Asker, NEW q \in Question, Ask(h, q), h # g
      PROVE  Waits(g)
  <2>1. ask'[g] = ask[g]
    BY <1>3 DEF Stages, Ask, Answer
  <2>2. phase' = phase /\ (UNCHANGED vars \/ \E o : Call(h, o))
    BY <1>3 DEF Ask, Call, vars
  <2>3. h \in Proc
    BY AskerAssumption DEF AskerAssumption
  <2> QED
    BY <1>2, <1>3, <2>1, <2>2, <2>3 DEF Waits
<1>4. ASSUME NEW h \in Asker, Resolving(h), h # g
      PROVE  Waits(g)
  <2>1. ask'[g] = ask[g]
    BY <1>4 DEF Stages, Resolving, LookedUp, SerialRead, Answered, Answer
  <2>2. /\ phase' = phase
        /\ UNCHANGED vars \/ Return(h) \/ CallAgain(h, SerialCall)
    BY <1>4 DEF Resolving, LookedUp, SerialRead, Answered, Return, CallAgain, vars
  <2>3. h \in Proc
    BY AskerAssumption DEF AskerAssumption
  <2> QED
    BY <1>2, <1>4, <2>1, <2>2, <2>3 DEF Waits
<1>5. ASSUME NEW h \in Proc \ Asker, Write(h) PROVE Waits(g)
  <2>1. /\ ask'[g] = ask[g] /\ phase' = phase
        /\ Return(h) \/ \E o : Call(h, o)
    BY <1>5 DEF Write, Return, Call
  <2> QED
    BY <1>2, <1>5, <2>1 DEF Waits
<1>6. ASSUME NEW h \in Goroutine, StoreStep(h) PROVE Waits(g)
  <2>1. Step(h) /\ ask'[g] = ask[g] /\ phase' = phase
    BY <1>6, StepPhase DEF StoreStep
  <2>2. CASE h # g
    BY <1>1, <2>1, <2>2, OtherStep DEF Waits
  <2>3. CASE h = g /\ ask[g].at \in {"lookup", "serial"}
    <3>1. call[g].op \in {"Lookup", "Serial"} /\ pc[g] \in {"enter", "done"}
      <4>1. Stage(g)
        BY DEF Stages
      <4>2. CASE ask[g].at = "lookup"
        BY <4>1, <4>2 DEF Stage, LookupCall
      <4>3. CASE ask[g].at = "serial"
        BY <4>1, <4>3 DEF Stage, SerialCall
      <4> QED
        BY <2>3, <4>2, <4>3
    <3>2. Read(g)
      BY <1>1, <2>1, <2>3, <3>1, ReaderStep
    <3>3. call'[g] = call[g]
      BY <3>2 DEF Read, Finish
    <3> QED
      BY <2>1, <3>2, <3>3 DEF Waits
  <2>4. CASE ask[g].at \notin {"lookup", "serial"}
    BY <2>1, <2>4 DEF Waits
  <2> QED
    BY <2>2, <2>3, <2>4
<1>7. CASE Boot
  <2>1. ask'[g] = ask[g]
    BY <1>7 DEF Boot
  <2>2. phase = "up" => phase' = "up"
    BY <1>7 DEF Boot, Start, SeedCall, SeedReturn, Listen
  <2>3. call'[g] = call[g] /\ pc'[g] = pc[g] /\ ret'[g] = ret[g]
    BY <1>1, <1>7
    DEF Boot, Start, SeedCall, SeedReturn, Listen, Enter, Leave, procVars, TypeOK
  <2> QED
    BY <2>1, <2>2, <2>3 DEF Waits
<1>8. CASE Halt
  BY <1>8 DEF Halt
<1>9. ASSUME Answered(g) PROVE ask'[g] = NotAsked
  BY <1>9 DEF Answered, Stages
<1> QED
  BY <1>3, <1>4, <1>5, <1>6, <1>7, <1>8, <1>9 DEF AskNext, Resolving

\* What a call, the next call and a return are to the goroutine that makes
\* them.
LEMMA OwnCall ==
    ASSUME TypeOK, NEW g \in Asker
    PROVE  /\ \A o : Call(g, o) \/ CallAgain(g, o) => call'[g] = o /\ pc'[g] = "enter"
           /\ (UNCHANGED vars \/ Return(g) \/ \E o : Call(g, o) \/ CallAgain(g, o)) =>
                phase' = phase /\ visible' = visible /\ acked' = acked
<1>1. g \in Goroutine
  BY AskerAssumption DEF AskerAssumption, Goroutine
<1>2. ASSUME NEW o, Call(g, o) \/ CallAgain(g, o)
      PROVE  call'[g] = o /\ pc'[g] = "enter"
  BY <1>1, <1>2 DEF Call, Enter, CallAgain, TypeOK
<1>3. ASSUME UNCHANGED vars \/ Return(g) \/ \E o : Call(g, o) \/ CallAgain(g, o)
      PROVE  phase' = phase /\ visible' = visible /\ acked' = acked
  BY <1>3 DEF vars, Return, Leave, Call, Enter, CallAgain, history
<1> QED
  BY <1>2, <1>3

\* The beginning of g's question, from g's side.
LEMMA AskStep ==
    ASSUME TypeOK, Stages, NEW g \in Asker, NEW q, Ask(g, q)
    PROVE  /\ ask[g] = NotAsked /\ phase = "up" /\ phase' = "up"
           /\ visible' = visible /\ acked' = acked
           /\ \/ /\ ~ AnsweredByConfig(q)
                 /\ call'[g] = LookupCall(RelativeOf(q)) /\ pc'[g] = "enter"
                 /\ ask'[g] = [at |-> "lookup", q |-> q]
              \/ /\ AnsweredByConfig(q)
                 /\ call'[g] = SerialCall /\ pc'[g] = "enter"
                 /\ ask'[g] = [at |-> "serial", q |-> q, res |-> ConfigAnswer(q)]
              \/ /\ AnsweredByConfig(q)
                 /\ ask'[g] = [at  |-> "answer", q |-> q,
                               msg |-> Message(ConfigAnswer(q), 0)]
<1>1. ASSUME NEW x, ask' = [ask EXCEPT ![g] = x] PROVE ask'[g] = x
  BY <1>1 DEF Stages
<1> QED
  BY <1>1, OwnCall DEF Ask, Answer

\* The return of its lookup.
LEMMA LookedUpStep ==
    ASSUME TypeOK, Stages, NEW g \in Asker, LookedUp(g),
           NEW q, q = ask[g].q, NEW res, res = StoreAnswer(q, ret[g].recs)
    PROVE  /\ ask[g].at = "lookup" /\ pc[g] = "done" /\ phase' = phase
           /\ visible' = visible /\ acked' = acked
           /\ \/ /\ res.soa = "none"
                 /\ ask'[g] = [at |-> "answer", q |-> q, msg |-> Message(res, 0)]
              \/ /\ call'[g] = SerialCall /\ pc'[g] = "enter"
                 /\ ask'[g] = [at |-> "serial", q |-> q, res |-> res]
<1>1. ASSUME NEW x, ask' = [ask EXCEPT ![g] = x] PROVE ask'[g] = x
  BY <1>1 DEF Stages
<1> QED
  BY <1>1, OwnCall DEF LookedUp, Answer

\* The return of its read of the serial.
LEMMA SerialReadStep ==
    ASSUME TypeOK, Stages, NEW g \in Asker, SerialRead(g)
    PROVE  /\ ask[g].at = "serial" /\ pc[g] = "done" /\ phase' = phase
           /\ visible' = visible /\ acked' = acked
           /\ ask'[g] = [at  |-> "answer", q |-> ask[g].q,
                         msg |-> Message(ask[g].res, ret[g].serial)]
<1>1. ASSUME NEW x, ask' = [ask EXCEPT ![g] = x] PROVE ask'[g] = x
  BY <1>1 DEF Stages
<1> QED
  BY <1>1, OwnCall DEF SerialRead, Answer

\* Every step leaves each question at a stage.
LEMMA StagesStep ==
    ASSUME TypeOK, Stages, [AskNext]_askAll PROVE Stages'
<1>1. CASE UNCHANGED askAll
  BY <1>1 DEF askAll, askVars, vars, procVars, Stages, Stage
<1>2. CASE AskNext
  <2>1. ask' = [g \in Asker |-> ask'[g]]
    <3>1. \/ ask' = ask
          \/ \E g \in Asker : \E x : ask' = [ask EXCEPT ![g] = x]
          \/ ask' = [g \in Asker |-> NotAsked]
      BY <1>2
      DEF AskNext, Ask, Answer, Resolving, LookedUp, SerialRead, Answered, Write,
          StoreStep, Boot, Halt
    <3> QED
      BY <3>1 DEF Stages
  <2>2. ASSUME NEW g \in Asker PROVE Stage(g)'
    <3>1. Stage(g)
      BY DEF Stages
    <3>2. CASE ask'[g] = NotAsked
      BY <3>2 DEF Stage, NotAsked
    <3>3. ASSUME NEW q \in Question, Ask(g, q) PROVE Stage(g)'
      <4>1. /\ phase' = "up" /\ ask'[g].q = q
            /\ \/ /\ ask'[g].at = "lookup" /\ ~ AnsweredByConfig(q)
                  /\ call'[g] = LookupCall(RelativeOf(q)) /\ pc'[g] = "enter"
               \/ ask'[g].at = "serial" /\ call'[g] = SerialCall /\ pc'[g] = "enter"
               \/ ask'[g].at = "answer"
        <5>1. /\ phase' = "up"
              /\ \/ /\ ~ AnsweredByConfig(q)
                    /\ call'[g] = LookupCall(RelativeOf(q)) /\ pc'[g] = "enter"
                    /\ ask'[g] = [at |-> "lookup", q |-> q]
                 \/ /\ call'[g] = SerialCall /\ pc'[g] = "enter"
                    /\ ask'[g] = [at |-> "serial", q |-> q, res |-> ConfigAnswer(q)]
                 \/ ask'[g] = [at  |-> "answer", q |-> q,
                               msg |-> Message(ConfigAnswer(q), 0)]
          BY <3>3, AskStep
        <5> QED
          BY <5>1
      <4> QED
        BY <4>1 DEF Stage
    <3>4. CASE LookedUp(g)
      <4>1. /\ ask[g].at = "lookup" /\ phase' = phase /\ ask'[g].q = ask[g].q
            /\ \/ ask'[g].at = "serial" /\ call'[g] = SerialCall /\ pc'[g] = "enter"
               \/ ask'[g].at = "answer"
        <5> DEFINE q == ask[g].q
                   res == StoreAnswer(q, ret[g].recs)
        <5> HIDE DEF q, res
        <5>1. /\ ask[g].at = "lookup" /\ phase' = phase
              /\ \/ ask'[g] = [at |-> "answer", q |-> q, msg |-> Message(res, 0)]
                 \/ /\ call'[g] = SerialCall /\ pc'[g] = "enter"
                    /\ ask'[g] = [at |-> "serial", q |-> q, res |-> res]
          BY <3>4, LookedUpStep DEF q, res
        <5> QED
          BY <5>1 DEF q
      <4> QED
        BY <3>1, <4>1 DEF Stage
    <3>5. CASE SerialRead(g)
      <4>1. /\ ask[g].at = "serial" /\ phase' = phase /\ ask'[g].q = ask[g].q
            /\ ask'[g].at = "answer"
        <5>1. /\ ask[g].at = "serial" /\ phase' = phase
              /\ ask'[g] = [at  |-> "answer", q |-> ask[g].q,
                            msg |-> Message(ask[g].res, ret[g].serial)]
          BY <3>5, SerialReadStep
        <5> QED
          BY <5>1
      <4> QED
        BY <3>1, <4>1 DEF Stage
    <3>6. CASE Waits(g)
      <4>1. pc'[g] = pc[g] \/ pc'[g] = "done" \/ ask[g].at \notin {"lookup", "serial"}
        <5>1. g \in Goroutine
          BY AskerAssumption DEF AskerAssumption, Goroutine
        <5> QED
          BY <3>6, <5>1 DEF Waits, Read, Finish, TypeOK
      <4> QED
        BY <3>1, <3>6, <4>1 DEF Stage, Waits
    <3> QED
      BY <1>2, <3>2, <3>3, <3>4, <3>5, <3>6, LocalStep
  <2> QED
    BY <2>1, <2>2 DEF Stages
<1> QED
  BY <1>1, <1>2

(***************************************************************************)
(* The moments of a question.                                              *)
(***************************************************************************)
StateSet ==
    [serial  : 0..(SerialMod - 1),
     records : UNION {[D -> SUBSET Record] : D \in SUBSET Name}]

\* A state whose records fit their types, one of a type at a name, and that
\* keeps the promises of K.
GoodMoment(s, K) ==
    /\ \A p \in K : Keeps(s.records, p)
    /\ WellFormed(s.records)
    /\ \A n \in DOMAIN s.records : s.records[n] \subseteq FitRecord

Moments(g) ==
    ask[g].at # "idle" =>
      /\ moments[g] \in Seq(StateSet)
      /\ Len(moments[g]) > 0
      /\ moments[g][Len(moments[g])] = visible
      /\ kept[g] \subseteq acked
      /\ \A i \in 1..Len(moments[g]) : GoodMoment(moments[g][i], kept[g])

\* A state of the store is a state.
LEMMA StateInSet == ASSUME NEW s, State(s) PROVE s \in StateSet
<1>1. s.records \in [DOMAIN s.records -> SUBSET Record] /\ DOMAIN s.records \in SUBSET Name
  BY DEF State, RecordMap
<1>2. s.records \in UNION {[D -> SUBSET Record] : D \in SUBSET Name}
  BY <1>1
<1>3. s = [serial |-> s.serial, records |-> s.records] /\ s.serial \in 0..(SerialMod - 1)
  BY DEF State
<1> QED
  BY <1>2, <1>3 DEF StateSet

\* What is watched grows, and ends in what readers see.
LEMMA WatchStep ==
    ASSUME Watch, NEW g \in Asker, ask'[g].at # "idle", State(visible'),
           ask[g].at # "idle" => Moments(g)
    PROVE  /\ moments'[g] \in Seq(StateSet) /\ Len(moments'[g]) > 0
           /\ moments'[g][Len(moments'[g])] = visible'
           /\ kept'[g] \subseteq acked'
           /\ ask[g].at = "idle" => moments'[g] = << visible' >>
           /\ ask[g].at # "idle" =>
                /\ kept'[g] \subseteq kept[g]
                /\ Len(moments[g]) \in Nat /\ Len(moments'[g]) \in Nat
                /\ Len(moments[g]) <= Len(moments'[g])
                /\ \A i \in 1..Len(moments[g]) : moments'[g][i] = moments[g][i]
                /\ \A i \in 1..Len(moments'[g]) :
                     i \in 1..Len(moments[g]) \/ moments'[g][i] = visible'
<1>1. visible' \in StateSet
  BY StateInSet
<1>2. CASE ask[g].at = "idle"
  <2>1. moments'[g] = << visible' >> /\ kept'[g] = acked'
    BY <1>2 DEF Watch
  <2> QED
    BY <1>1, <1>2, <2>1
<1>3. CASE ask[g].at # "idle"
  <2> DEFINE m == moments[g]
  <2>1. m \in Seq(StateSet) /\ Len(m) > 0 /\ m[Len(m)] = visible /\ Len(m) \in Nat
    BY <1>3, LenProperties DEF Moments
  <2>2. kept'[g] = kept[g] \cap acked'
    BY <1>3 DEF Watch
  <2>3. moments'[g] = IF visible' = visible THEN m ELSE Append(m, visible')
    BY <1>3 DEF Watch
  <2> HIDE DEF m
  <2>4. CASE visible' = visible
    <3>1. moments'[g] = m
      BY <2>3, <2>4
    <3> QED
      BY <1>3, <2>1, <2>2, <2>4, <3>1 DEF m
  <2>5. CASE visible' # visible
    <3> DEFINE m2 == Append(m, visible')
    <3>1. moments'[g] = m2
      BY <2>3, <2>5
    <3>2. /\ m2 \in Seq(StateSet) /\ Len(m2) = Len(m) + 1
          /\ \A i \in 1..Len(m) : m2[i] = m[i]
          /\ m2[Len(m) + 1] = visible'
      BY <1>1, <2>1, AppendProperties
    <3> HIDE DEF m2
    <3>3. \A i \in 1..Len(m2) : i \in 1..Len(m) \/ i = Len(m) + 1
      BY <2>1, <3>2
    <3>4. Len(m2) \in Nat /\ Len(m2) > 0 /\ Len(m) <= Len(m2)
      BY <2>1, <3>2
    <3> QED
      BY <1>3, <2>1, <2>2, <3>1, <3>2, <3>3, <3>4 DEF m
  <2> QED
    BY <2>4, <2>5
<1> QED
  BY <1>2, <1>3

\* Every step watches.
LEMMA Watching == AskNext => Watch
BY DEF AskNext, Ask, Resolving, LookedUp, SerialRead, Answered, Write, StoreStep,
   Boot, Halt

\* Every step keeps the moments of every question.
LEMMA MomentsStep ==
    ASSUME AskNext, NEW g \in Asker, Moments(g),
           TypeOK', Stages', SeenInv(FitRecord)'
    PROVE  Moments(g)'
<1> SUFFICES ASSUME ask'[g].at # "idle" PROVE Moments(g)'
  BY DEF Moments
<1>1. State(visible')
  BY DEF TypeOK
<1>2. Watch
  BY Watching
<1>3. GoodMoment(visible', acked')
  <2>1. phase' = "up"
    BY DEF Stages, Stage
  <2> QED
    BY <2>1 DEF SeenInv, GoodMoment
<1>4. /\ moments'[g] \in Seq(StateSet) /\ Len(moments'[g]) > 0
      /\ moments'[g][Len(moments'[g])] = visible'
      /\ kept'[g] \subseteq acked'
  BY <1>1, <1>2, WatchStep
<1>5. ASSUME NEW s, NEW K, NEW L, L \subseteq K, GoodMoment(s, K)
      PROVE  GoodMoment(s, L)
  BY <1>5 DEF GoodMoment
<1>6. ASSUME NEW i \in 1..Len(moments'[g])
      PROVE  GoodMoment(moments'[g][i], kept'[g])
  <2>1. CASE ask[g].at = "idle"
    <3>1. moments'[g] = << visible' >>
      BY <1>1, <1>2, <2>1, WatchStep
    <3>2. moments'[g][i] = visible'
      BY <3>1
    <3> QED
      BY <1>3, <1>4, <1>5, <3>2
  <2>2. CASE ask[g].at # "idle"
    <3>1. /\ kept'[g] \subseteq kept[g]
          /\ \A k \in 1..Len(moments[g]) : moments'[g][k] = moments[g][k]
          /\ i \in 1..Len(moments[g]) \/ moments'[g][i] = visible'
      BY <1>1, <1>2, <2>2, WatchStep
    <3>2. CASE i \in 1..Len(moments[g])
      <4>1. GoodMoment(moments[g][i], kept[g])
        BY <2>2, <3>2 DEF Moments
      <4> QED
        BY <1>5, <3>1, <3>2, <4>1
    <3>3. CASE moments'[g][i] = visible'
      BY <1>3, <1>4, <1>5, <3>3
    <3> QED
      BY <3>1, <3>2, <3>3
  <2> QED
    BY <2>1, <2>2
<1> QED
  BY <1>4, <1>6 DEF Moments

(***************************************************************************)
(* What has been found out for a question, and at which moments.           *)
(***************************************************************************)
Found(m, i, q) == At(m[i].records, RelativeOf(q))

Told(m, q, msg) ==
    \E i \in 1..Len(m) : \E j \in i..Len(m) :
      msg = Message(StoreAnswer(q, Found(m, i, q)), m[j].serial)

LookupFound(g) ==
    (ask[g].at = "lookup" /\ pc[g] = "done") =>
      \E i \in 1..Len(moments[g]) : ret[g].recs = Found(moments[g], i, ask[g].q)

SerialFound(g) ==
    (ask[g].at = "serial" /\ ~ AnsweredByConfig(ask[g].q)) =>
      \E i \in 1..Len(moments[g]) :
        /\ ask[g].res = StoreAnswer(ask[g].q, Found(moments[g], i, ask[g].q))
        /\ pc[g] = "done" =>
             \E j \in i..Len(moments[g]) : ret[g].serial = moments[g][j].serial

AnswerFound(g) ==
    (ask[g].at = "answer" /\ ~ AnsweredByConfig(ask[g].q)) =>
      Told(moments[g], ask[g].q, ask[g].msg)

ConfigFound(g) ==
    /\ (ask[g].at = "serial" /\ AnsweredByConfig(ask[g].q)) =>
         ask[g].res = ConfigAnswer(ask[g].q)
    /\ (ask[g].at = "answer" /\ AnsweredByConfig(ask[g].q)) =>
         \E s : ask[g].msg = Message(ConfigAnswer(ask[g].q), s)

FoundInv(g) == LookupFound(g) /\ SerialFound(g) /\ AnswerFound(g) /\ ConfigFound(g)

\* A message without an SOA record does not depend on the serial.
LEMMA NoSerial ==
    ASSUME NEW res, res.soa = "none", NEW s, NEW t
    PROVE  Message(res, s) = Message(res, t)
BY DEF Message

\* While a question waits, the moments it has seen stay, its read takes the
\* last of them.
LEMMA FoundWaits ==
    ASSUME TypeOK, LockInv, DiskInv, Stages, Watch, NEW g \in Asker, Waits(g),
           Moments(g), FoundInv(g), State(visible')
    PROVE  FoundInv(g)'
<1> DEFINE m  == moments[g]
           m2 == moments'[g]
           q  == ask[g].q
<1>1. g \in Goroutine /\ ask'[g] = ask[g] /\ Stage(g)
  BY AskerAssumption DEF AskerAssumption, Goroutine, Waits, Stages
<1>2. CASE ask[g].at = "idle"
  BY <1>1, <1>2 DEF FoundInv, LookupFound, SerialFound, AnswerFound, ConfigFound
<1>3. CASE ask[g].at # "idle"
  <2>1. /\ Len(m) \in Nat /\ Len(m2) \in Nat /\ Len(m) <= Len(m2)
        /\ \A i \in 1..Len(m) : m2[i] = m[i]
    BY <1>1, <1>3, WatchStep
  <2>2. Len(m) > 0 /\ m[Len(m)] = visible
    BY <1>3 DEF Moments
  <2>3. q \in Question
    BY <1>1, <1>3 DEF Stage
  <2>4. \A i \in 1..Len(m) : i \in 1..Len(m2) /\ Found(m2, i, q) = Found(m, i, q)
    BY <2>1 DEF Found
  <2>5. \A i \in 1..Len(m) : \A j \in i..Len(m) :
          j \in i..Len(m2) /\ m2[j].serial = m[j].serial
    BY <2>1
  <2>6. Len(m) \in 1..Len(m)
    BY <2>1, <2>2
  <2> HIDE DEF m, m2, q
  <2>7. LookupFound(g)'
    <3> SUFFICES ASSUME ask[g].at = "lookup", pc'[g] = "done"
                 PROVE  \E i \in 1..Len(m2) : ret'[g].recs = Found(m2, i, q)
      BY <1>1 DEF LookupFound, m2, q
    <3>1. CASE pc'[g] = pc[g] /\ ret'[g] = ret[g]
      <4>1. PICK i \in 1..Len(m) : ret[g].recs = Found(m, i, q)
        BY <3>1 DEF FoundInv, LookupFound, m, q
      <4> QED
        BY <2>4, <3>1, <4>1
    <3>2. CASE Read(g)
      <4>1. call[g] = LookupCall(RelativeOf(q)) /\ ~ AnsweredByConfig(q)
        BY <1>1 DEF Stage, q
      <4>2. ToLower(RelativeOf(q)) = RelativeOf(q)
        BY <2>3, <4>1, AskedOfStore
      <4>3. ret'[g].recs = At(visible.records, RelativeOf(q))
        BY <1>1, <3>2, <4>1, <4>2, ReadStep DEF LookupCall
      <4>4. ret'[g].recs = Found(m, Len(m), q)
        BY <2>2, <4>3 DEF Found
      <4> QED
        BY <2>4, <2>6, <4>4
    <3> QED
      BY <3>1, <3>2 DEF Waits
  <2>8. SerialFound(g)'
    <3> SUFFICES ASSUME ask[g].at = "serial", ~ AnsweredByConfig(q)
                 PROVE  \E i \in 1..Len(m2) :
                          /\ ask[g].res = StoreAnswer(q, Found(m2, i, q))
                          /\ pc'[g] = "done" =>
                               \E j \in i..Len(m2) : ret'[g].serial = m2[j].serial
      BY <1>1 DEF SerialFound, m2, q
    <3>1. PICK i \in 1..Len(m) :
            /\ ask[g].res = StoreAnswer(q, Found(m, i, q))
            /\ pc[g] = "done" => \E j \in i..Len(m) : ret[g].serial = m[j].serial
      BY DEF FoundInv, SerialFound, m, q
    <3>2. i \in 1..Len(m2) /\ ask[g].res = StoreAnswer(q, Found(m2, i, q))
      BY <2>4, <3>1
    <3>3. CASE pc'[g] = pc[g] /\ ret'[g] = ret[g]
      BY <2>5, <3>1, <3>2, <3>3
    <3>4. CASE Read(g)
      <4>1. call[g].op = "Serial"
        BY <1>1 DEF Stage, SerialCall
      <4>2. ret'[g].serial = m[Len(m)].serial
        BY <1>1, <2>2, <3>4, <4>1, ReadStep
      <4>3. Len(m) \in i..Len(m)
        BY <2>1, <3>1
      <4> QED
        BY <2>5, <3>2, <4>2, <4>3
    <3> QED
      BY <3>3, <3>4 DEF Waits
  <2>9. AnswerFound(g)'
    <3> SUFFICES ASSUME ask[g].at = "answer", ~ AnsweredByConfig(q)
                 PROVE  Told(m2, q, ask[g].msg)
      BY <1>1 DEF AnswerFound, m2, q
    <3>1. Told(m, q, ask[g].msg)
      BY DEF FoundInv, AnswerFound, m, q
    <3>2. PICK i \in 1..Len(m) : \E j \in i..Len(m) :
            ask[g].msg = Message(StoreAnswer(q, Found(m, i, q)), m[j].serial)
      BY <3>1 DEF Told
    <3>3. PICK j \in i..Len(m) :
            ask[g].msg = Message(StoreAnswer(q, Found(m, i, q)), m[j].serial)
      BY <3>2
    <3>4. /\ i \in 1..Len(m2) /\ j \in i..Len(m2)
          /\ ask[g].msg = Message(StoreAnswer(q, Found(m2, i, q)), m2[j].serial)
      BY <2>4, <2>5, <3>3
    <3> QED
      BY <3>4 DEF Told
  <2>10. ConfigFound(g)'
    BY <1>1 DEF FoundInv, ConfigFound
  <2> QED
    BY <2>7, <2>8, <2>9, <2>10 DEF FoundInv
<1> QED
  BY <1>2, <1>3

\* Every step keeps what has been found out true of some moment.
LEMMA FoundStep ==
    ASSUME TypeOK, LockInv, DiskInv, Stages, AskNext, NEW g \in Asker,
           Moments(g), FoundInv(g), TypeOK'
    PROVE  FoundInv(g)'
<1> USE DEF FoundInv
<1>1. Watch /\ State(visible') /\ Stage(g)
  BY Watching DEF TypeOK, Stages
<1>2. CASE ask'[g] = NotAsked
  BY <1>2 DEF NotAsked, LookupFound, SerialFound, AnswerFound, ConfigFound
<1>3. ASSUME NEW q \in Question, Ask(g, q) PROVE FoundInv(g)'
  <2>1. \/ /\ ~ AnsweredByConfig(q) /\ pc'[g] = "enter"
           /\ ask'[g] = [at |-> "lookup", q |-> q]
        \/ /\ AnsweredByConfig(q)
           /\ ask'[g] = [at |-> "serial", q |-> q, res |-> ConfigAnswer(q)]
        \/ /\ AnsweredByConfig(q)
           /\ ask'[g] = [at |-> "answer", q |-> q, msg |-> Message(ConfigAnswer(q), 0)]
    BY <1>3, AskStep
  <2>2. CASE pc'[g] = "enter" /\ ask'[g] = [at |-> "lookup", q |-> q]
    BY <2>2 DEF LookupFound, SerialFound, AnswerFound, ConfigFound
  <2>3. CASE /\ AnsweredByConfig(q)
             /\ ask'[g] = [at |-> "serial", q |-> q, res |-> ConfigAnswer(q)]
    <3>1. ask'[g].at = "serial" /\ ask'[g].q = q /\ ask'[g].res = ConfigAnswer(q)
      BY <2>3
    <3> QED
      BY <2>3, <3>1 DEF LookupFound, SerialFound, AnswerFound, ConfigFound
  <2>4. CASE /\ AnsweredByConfig(q)
             /\ ask'[g] = [at |-> "answer", q |-> q, msg |-> Message(ConfigAnswer(q), 0)]
    <3>1. /\ ask'[g].at = "answer" /\ ask'[g].q = q
          /\ ask'[g].msg = Message(ConfigAnswer(q), 0)
      BY <2>4
    <3> QED
      BY <2>4, <3>1 DEF LookupFound, SerialFound, AnswerFound, ConfigFound
  <2> QED
    BY <2>1, <2>2, <2>3, <2>4
<1>4. ASSUME ask[g].at # "idle", visible' = visible, ask'[g].at # "idle"
      PROVE  /\ moments'[g] = moments[g] /\ Len(moments[g]) \in Nat
             /\ Len(moments[g]) > 0 /\ moments[g][Len(moments[g])] = visible
  BY <1>1, <1>4, LenProperties DEF Watch, Moments
<1>5. CASE LookedUp(g)
  <2> DEFINE q   == ask[g].q
             res == StoreAnswer(q, ret[g].recs)
             m   == moments[g]
  <2> HIDE DEF q, res, m
  <2>1. /\ ask[g].at = "lookup" /\ pc[g] = "done" /\ visible' = visible
        /\ \/ /\ res.soa = "none"
              /\ ask'[g] = [at |-> "answer", q |-> q, msg |-> Message(res, 0)]
           \/ /\ pc'[g] = "enter"
              /\ ask'[g] = [at |-> "serial", q |-> q, res |-> res]
    BY <1>5, LookedUpStep DEF q, res
  <2>2. ~ AnsweredByConfig(q)
    BY <1>1, <2>1 DEF Stage, q
  <2>3. PICK i \in 1..Len(m) : ret[g].recs = Found(m, i, q)
    BY <2>1 DEF LookupFound, m, q
  <2>4. res = StoreAnswer(q, Found(m, i, q))
    BY <2>3 DEF res
  <2>5. CASE /\ res.soa = "none"
             /\ ask'[g] = [at |-> "answer", q |-> q, msg |-> Message(res, 0)]
    <3>1. /\ ask'[g].at = "answer" /\ ask'[g].q = q
          /\ ask'[g].msg = Message(res, 0)
      BY <2>5
    <3>2. moments'[g] = m /\ Len(m) \in Nat
      BY <1>4, <2>1, <3>1 DEF m
    <3>3. i \in i..Len(m)
      BY <2>3, <3>2
    <3>4. ask'[g].msg = Message(StoreAnswer(q, Found(m, i, q)), m[i].serial)
      BY <2>4, <2>5, <3>1, NoSerial
    <3>5. Told(m, q, ask'[g].msg)
      BY <3>3, <3>4 DEF Told
    <3> QED
      BY <2>2, <3>1, <3>2, <3>5
      DEF LookupFound, SerialFound, AnswerFound, ConfigFound
  <2>6. CASE /\ pc'[g] = "enter"
             /\ ask'[g] = [at |-> "serial", q |-> q, res |-> res]
    <3>1. ask'[g].at = "serial" /\ ask'[g].q = q /\ ask'[g].res = res
      BY <2>6
    <3>2. moments'[g] = m
      BY <1>4, <2>1, <3>1 DEF m
    <3> QED
      BY <2>2, <2>4, <2>6, <3>1, <3>2
      DEF LookupFound, SerialFound, AnswerFound, ConfigFound
  <2> QED
    BY <2>1, <2>5, <2>6
<1>6. CASE SerialRead(g)
  <2> DEFINE q   == ask[g].q
             res == ask[g].res
             m   == moments[g]
  <2> HIDE DEF q, res, m
  <2>1. /\ ask[g].at = "serial" /\ pc[g] = "done" /\ visible' = visible
        /\ ask'[g] = [at |-> "answer", q |-> q, msg |-> Message(res, ret[g].serial)]
    BY <1>6, SerialReadStep DEF q, res
  <2>2. /\ ask'[g].at = "answer" /\ ask'[g].q = q
        /\ ask'[g].msg = Message(res, ret[g].serial)
    BY <2>1
  <2>3. moments'[g] = m
    BY <1>4, <2>1, <2>2 DEF m
  <2>4. CASE AnsweredByConfig(q)
    <3>1. res = ConfigAnswer(q)
      BY <2>1, <2>4 DEF ConfigFound, q, res
    <3> QED
      BY <2>2, <2>4, <3>1 DEF LookupFound, SerialFound, AnswerFound, ConfigFound
  <2>5. CASE ~ AnsweredByConfig(q)
    <3>1. PICK i \in 1..Len(m) :
            /\ res = StoreAnswer(q, Found(m, i, q))
            /\ \E j \in i..Len(m) : ret[g].serial = m[j].serial
      BY <2>1, <2>5 DEF SerialFound, m, q, res
    <3>2. Told(m, q, ask'[g].msg)
      BY <2>2, <3>1 DEF Told
    <3> QED
      BY <2>2, <2>3, <2>5, <3>2
      DEF LookupFound, SerialFound, AnswerFound, ConfigFound
  <2> QED
    BY <2>4, <2>5
<1>7. CASE Waits(g)
  BY <1>1, <1>7, FoundWaits
<1> QED
  BY <1>2, <1>3, <1>5, <1>6, <1>7, LocalStep

(***************************************************************************)
(* The invariant of answering.                                             *)
(***************************************************************************)
StoreInv == IInv /\ StoreWellFormed /\ StoredIn(FitRecord) /\ CallsIn(FitRecord)
            /\ SeenInv(FitRecord)

AskInv == Stages /\ \A g \in Asker : Moments(g) /\ FoundInv(g)

\* The store behind the resolver holds records that fit their types.
LEMMA StoreInvAlways == AskSpec => []StoreInv
<1> DEFINE J == StoredIn(FitRecord) /\ CallsIn(FitRecord) /\ SeenInv(FitRecord)
<1>1. Init => J
  <2> SUFFICES ASSUME Init PROVE J
    OBVIOUS
  <2>1. SeenInv(FitRecord)
    BY DEF Init, SeenInv
  <2> QED
    BY <2>1, StoredInInit
<1>2. /\ J /\ IInv /\ IInv' /\ StoreWellFormed' /\ [Use(AskOps)]_vars
      => J'
  <2> SUFFICES ASSUME J, IInv, IInv', StoreWellFormed', [Use(AskOps)]_vars
               PROVE  J'
    OBVIOUS
  <2>1. [AnyUse]_vars
    BY AskOpsType DEF Use, AnyUse
  <2>2. CallsIn(FitRecord)'
    BY AskOpsType, CallsInStep DEF IInv
  <2>3. StoredIn(FitRecord)'
    BY <2>1, StoredInStep DEF IInv
  <2>4. SeenInv(FitRecord)'
    BY <2>1, <2>3, SeenStep DEF IInv
  <2> QED
    BY <2>2, <2>3, <2>4
<1> HIDE DEF J
<1>3. AskSpec => []IInv /\ []StoreWellFormed
  BY AskIsUsage, IInvAlways, WellFormedAlways, PTL
<1>4. AskSpec => Init /\ [][Use(AskOps)]_vars
  <2>1. AskInit => Init
    BY DEF AskInit
  <2> QED
    BY <2>1, AskUses, PTL DEF AskSpec, askAll
<1>5. AskSpec => []J
  BY <1>1, <1>2, <1>3, <1>4, PTL
<1>6. IInv /\ StoreWellFormed /\ J => StoreInv
  BY DEF J, StoreInv
<1> QED
  BY <1>3, <1>5, <1>6, PTL

\* Every step keeps the invariant of answering.
LEMMA AskInvStep ==
    ASSUME StoreInv, StoreInv', AskInv, [AskNext]_askAll PROVE AskInv'
<1>1. TypeOK /\ LockInv /\ DiskInv /\ TypeOK' /\ SeenInv(FitRecord)'
  BY DEF StoreInv, IInv
<1>2. Stages'
  BY <1>1, StagesStep DEF AskInv
<1>3. CASE UNCHANGED askAll
  <2>1. /\ ask' = ask /\ pc' = pc /\ ret' = ret /\ moments' = moments /\ kept' = kept
        /\ visible' = visible /\ acked' = acked
    BY <1>3 DEF askAll, askVars, vars, procVars, history
  <2>2. ASSUME NEW g \in Asker PROVE Moments(g)' /\ FoundInv(g)'
    <3>1. Moments(g) /\ FoundInv(g)
      BY DEF AskInv
    <3>2. Moments(g)'
      BY <2>1, <3>1 DEF Moments
    <3>3. FoundInv(g)'
      BY <2>1, <3>1
      DEF FoundInv, LookupFound, SerialFound, AnswerFound, ConfigFound
    <3> QED
      BY <3>2, <3>3
  <2> QED
    BY <1>2, <2>2 DEF AskInv
<1>4. CASE AskNext
  <2>1. ASSUME NEW g \in Asker PROVE Moments(g)' /\ FoundInv(g)'
    BY <1>1, <1>2, <1>4, MomentsStep, FoundStep DEF AskInv
  <2> QED
    BY <1>2, <2>1 DEF AskInv
<1> QED
  BY <1>3, <1>4

\* The invariant of answering holds throughout.
LEMMA AskInvAlways == AskSpec => [](StoreInv /\ AskInv)
<1>1. AskInit => AskInv
  <2> SUFFICES ASSUME AskInit PROVE AskInv
    OBVIOUS
  <2>1. ask = [g \in Asker |-> NotAsked]
    BY DEF AskInit
  <2>2. \A g \in Asker : ask[g].at = "idle"
    BY <2>1 DEF NotAsked
  <2>3. ask = [g \in Asker |-> ask[g]]
    BY <2>1
  <2>4. ASSUME NEW g \in Asker PROVE Stage(g) /\ Moments(g) /\ FoundInv(g)
    BY <2>2
    DEF Stage, Moments, FoundInv, LookupFound, SerialFound, AnswerFound, ConfigFound
  <2> QED
    BY <2>3, <2>4 DEF AskInv, Stages
<1>2. StoreInv /\ StoreInv' /\ AskInv /\ [AskNext]_askAll => AskInv'
  BY AskInvStep
<1> QED
  BY <1>1, <1>2, StoreInvAlways, PTL DEF AskSpec, askAll

\* Where the store decides, the configuration does not answer.
LEMMA StoreDecidesIt ==
    ASSUME NEW q \in Question, StoreDecides(q) PROVE ~ AnsweredByConfig(q)
<1> DEFINE c == CanonicalName(q.name)
<1>1. /\ c \in Name /\ Under(c, Zone) /\ q.class \in {"IN", "ANY"}
      /\ ~ (c = NSHost /\ ApexA # NoAddr)
  BY QuestionType DEF StoreDecides, QClass
<1>2. RelativeOf(q) = Left(c, Zone) /\ RelativeOf(q) # EmptyName
  BY <1>1, RelativePart
<1>3. NSHost \in Name
  <2>1. FlagNS \in Name /\ << NSLabel >> \in Name /\ << NSLabel >> # << >>
    BY ConfigAssumption DEF ConfigAssumption, Name
  <2>2. << NSLabel >> \o Zone \in Name
    BY <2>1, ZoneType, ConcatIsUnder
  <2> QED
    BY <2>1, <2>2 DEF NSHost
<1>4. ASSUME RelativeOf(q) = NsRel, IsValid(ApexA) PROVE FALSE
  <2>1. Under(NSHost, Zone) /\ Left(NSHost, Zone) = Left(c, Zone)
    BY <1>2, <1>4 DEF NsRel
  <2>2. c = NSHost
    BY <1>1, <1>3, <2>1, ZoneType, SameLeft
  <2>3. ApexA # NoAddr
    BY <1>4 DEF IsValid, NoAddr
  <2> QED
    BY <1>1, <2>2, <2>3
<1> QED
  BY <1>1, <1>2, <1>4 DEF AnsweredByConfig, InZone, RelativeOf

\* Every answer is true of one moment while it was computed, and its serial
\* is of that moment or a later one.
THEOREM OneMoment == AskSpec => []AnswerOfOneMoment
<1>1. StoreInv /\ AskInv => AnswerOfOneMoment
  <2> SUFFICES ASSUME AskInv, NEW g \in Asker,
                      Replying(g), StoreDecides(ask[g].q)
               PROVE  \E i \in DOMAIN moments[g] : \E j \in i..Len(moments[g]) :
                        ask[g].msg =
                          Message(StoreAnswer(ask[g].q,
                                              At(moments[g][i].records,
                                                 RelativeOf(ask[g].q))),
                                  moments[g][j].serial)
    BY DEF AnswerOfOneMoment
  <2>1. Stage(g) /\ Moments(g) /\ AnswerFound(g) /\ ask[g].at = "answer"
    BY DEF AskInv, Stages, FoundInv, Replying
  <2>2. ask[g].q \in Question
    BY <2>1 DEF Stage
  <2>3. Told(moments[g], ask[g].q, ask[g].msg)
    BY <2>1, <2>2, StoreDecidesIt DEF AnswerFound
  <2>4. DOMAIN moments[g] = 1..Len(moments[g])
    BY <2>1, LenProperties DEF Moments
  <2> QED
    BY <2>3, <2>4 DEF Told, Found
<1> QED
  BY <1>1, AskInvAlways, PTL

(***************************************************************************)
(* Read your writes.                                                       *)
(***************************************************************************)

OnlyRecord(msg, r) ==
    /\ msg.rcode = "NOERROR"
    /\ {rr.data : rr \in msg.answers} =
         {IF r.type = "TXT" THEN [strings |-> r.txt] ELSE r.addr}
    /\ \A rr \in msg.answers : rr.type = r.type /\ (r.ttl # 0 => rr.ttl = r.ttl)

\* Of records that keep a promise, the answer to its name and type is the
\* promised record alone.
LEMMA KeptIsAnswered ==
    ASSUME NEW q \in Question, StoreDecides(q), NEW recs, NEW s,
           NEW p \in [name : Name, type : Type, recs : SUBSET Record],
           p.recs # {}, CanonicalName(q.name) = p.name \o Zone, q.type = p.type,
           WellFormed(recs), Keeps(recs, p), NEW r \in p.recs,
           NEW msg, msg = Message(StoreAnswer(q, At(recs, RelativeOf(q))), s)
    PROVE  OnlyRecord(msg, r)
<1> DEFINE c == CanonicalName(q.name)
           found == At(recs, p.name)
           mine == {x \in found : q.type \in {x.type, "ANY"}}
           rrs == {RR(c, x.type, RecTTL(x), Data(x)) : x \in mine}
<1>1. p.name \in Name /\ c \in Name /\ Under(c, Zone) /\ c = p.name \o Zone
  BY QuestionType DEF StoreDecides
<1>2. p.name # << >>
  <2>1. Len(c) = Len(p.name) + Len(Zone) /\ Len(c) > Len(Zone)
    BY <1>1, ZoneType, ConcatProperties DEF Name, Under
  <2>2. Len(p.name) \in Nat /\ Len(Zone) \in Nat
    BY <1>1, ZoneType, ToLowerLabels
  <2> HIDE DEF c
  <2>3. Len(p.name) # 0
    BY <2>1, <2>2
  <2> QED
    BY <2>3
<1>3. RelativeOf(q) = p.name
  <2>1. Left(c, Zone) = p.name
    BY <1>1, <1>2, ZoneType, ConcatIsUnder
  <2> QED
    BY <1>1, <2>1, RelativePart
<1>4. found # {} /\ OfType(found, p.type) = p.recs
  BY DEF Keeps, OfType
<1>5. mine = p.recs
  <2>1. p.type # "ANY"
    BY DEF Type
  <2> QED
    BY <1>4, <2>1 DEF OfType
<1>6. p.recs = {r}
  <2>1. \A x \in p.recs : x \in found /\ x.type = p.type
    BY <1>4 DEF OfType
  <2>2. p.name \in DOMAIN recs /\ found = recs[p.name]
    BY <1>4 DEF At
  <2>3. \A x \in p.recs : x = r
    BY <2>1, <2>2 DEF WellFormed
  <2> QED
    BY <2>3
<1> HIDE DEF found, mine
<1>7. rrs = {RR(c, r.type, RecTTL(r), Data(r))}
  BY <1>5, <1>6
<1>8. StoreAnswer(q, found) = Stored(c, q.type, found)
  BY <1>4 DEF StoreAnswer
<1>9. Stored(c, q.type, found) = Result("NOERROR", rrs, "none")
  BY <1>7 DEF Stored, mine
<1>10. msg = Message(Result("NOERROR", rrs, "none"), s)
  BY <1>3, <1>8, <1>9 DEF found
<1> HIDE DEF rrs, c
<1>11. msg.rcode = "NOERROR" /\ msg.answers = rrs
  BY <1>10 DEF Message, Result
<1>12. /\ RR(c, r.type, RecTTL(r), Data(r)).data =
             IF r.type = "TXT" THEN [strings |-> r.txt] ELSE r.addr
       /\ RR(c, r.type, RecTTL(r), Data(r)).type = r.type
       /\ r.ttl # 0 => RR(c, r.type, RecTTL(r), Data(r)).ttl = r.ttl
  BY DEF RR, Data, RecTTL
<1>13. \A rr \in msg.answers : rr = RR(c, r.type, RecTTL(r), Data(r))
  BY <1>7, <1>11
<1>14. {rr.data : rr \in msg.answers} = {RR(c, r.type, RecTTL(r), Data(r)).data}
  BY <1>7, <1>11
<1> QED
  BY <1>11, <1>12, <1>13, <1>14 DEF OnlyRecord

\* A record whose registration returned before a question was asked, and
\* that nobody has touched since, is the answer to that question, alone and
\* with its own data, whatever else happens meanwhile.
THEOREM ReadYourWrites == AskSpec => []RegisteredIsAnswered
<1>1. StoreInv /\ AskInv => RegisteredIsAnswered
  <2> SUFFICES ASSUME StoreInv, AskInv, NEW g \in Asker, Replying(g),
                      NEW p \in kept[g], StoreDecides(ask[g].q), p.recs # {},
                      CanonicalName(ask[g].q.name) = p.name \o Zone,
                      ask[g].q.type = p.type, NEW r \in p.recs
               PROVE  OnlyRecord(ask[g].msg, r)
    BY DEF RegisteredIsAnswered, OnlyRecord
  <2> DEFINE m == moments[g]
             q == ask[g].q
             msg == ask[g].msg
  <2>1. Stage(g) /\ Moments(g) /\ AnswerFound(g) /\ ask[g].at = "answer"
    BY DEF AskInv, Stages, FoundInv, Replying
  <2>2. q \in Question
    BY <2>1 DEF Stage
  <2>3. Told(m, q, msg)
    BY <2>1, <2>2, StoreDecidesIt DEF AnswerFound
  <2>4. PICK i \in 1..Len(m) : \E s : msg = Message(StoreAnswer(q, Found(m, i, q)), s)
    BY <2>3 DEF Told
  <2>5. PICK s : msg = Message(StoreAnswer(q, Found(m, i, q)), s)
    BY <2>4
  <2>6. p \in [name : Name, type : Type, recs : SUBSET Record]
    BY <2>1 DEF Moments, StoreInv, IInv, TypeOK
  <2> DEFINE recs == m[i].records
  <2>7. WellFormed(recs) /\ Keeps(recs, p)
    BY <2>1 DEF Moments, GoodMoment
  <2>8. msg = Message(StoreAnswer(q, At(recs, RelativeOf(q))), s)
    BY <2>5 DEF Found
  <2> HIDE DEF m, q, msg, recs
  <2>9. StoreDecides(q) /\ CanonicalName(q.name) = p.name \o Zone /\ q.type = p.type
    BY DEF q
  <2>10. OnlyRecord(msg, r)
    BY <2>2, <2>6, <2>7, <2>8, <2>9, KeptIsAnswered
  <2> QED
    BY <2>10 DEF msg
<1> QED
  BY <1>1, AskInvAlways, PTL

(***************************************************************************)
(* Sound messages.                                                         *)
(***************************************************************************)
GoodRR(rr, name) ==
    /\ rr.name = name /\ rr.ttl > 0
    /\ rr.type = "A" => Is4(rr.data)
    /\ rr.type = "AAAA" => rr.data.fam = "v6"

\* A result whose message is sound, whatever serial it gets.
GoodResult(res, name) ==
    /\ res.soa \in {"none", "answer", "authority"}
    /\ res.soa = "authority" <=>
         (res.rcode # "REFUSED" /\ res.answers = {} /\ res.soa # "answer")
    /\ res.rcode # "NOERROR" => res.answers = {} /\ res.soa # "answer"
    /\ \A rr \in res.answers : GoodRR(rr, name)
    /\ res.soa = "answer" => name = Zone
    /\ res.rcode = "REFUSED" \/ InZone(name)

\* withDefaults leaves no TTL at zero.
LEMMA DefaultTTLs == TTL \in Nat /\ TTL > 0 /\ NegTTL \in Nat /\ NegTTL > 0
BY ConfigAssumption DEF TTL, NegTTL, DefaultTTL, ConfigAssumption

\* An address is given in a record of its family.
LEMMA AddressFits ==
    ASSUME NEW name, NEW qtype, NEW a \in Addr
    PROVE  \A rr \in AddressRR(name, qtype, a, TTL) : GoodRR(rr, name)
<1>1. Unmap(a).fam = IF a.fam = "4in6" THEN "v4" ELSE a.fam
  BY DEF Unmap, Is4In6, Addr
<1>2. a.fam \in {"v4", "v6", "4in6"}
  BY DEF Addr
<1>3. CASE (Is4(a) \/ Is4In6(a)) /\ qtype \in {"A", "ANY"}
  <2>1. AddressRR(name, qtype, a, TTL) = {RR(name, "A", TTL, Unmap(a))}
    BY <1>3 DEF AddressRR
  <2>2. GoodRR(RR(name, "A", TTL, Unmap(a)), name)
    BY <1>1, <1>3, DefaultTTLs DEF GoodRR, RR, Is4, Is4In6
  <2> QED
    BY <2>1, <2>2
<1>4. CASE ~ (Is4(a) \/ Is4In6(a)) /\ qtype \in {"AAAA", "ANY"}
  <2>1. AddressRR(name, qtype, a, TTL) = {RR(name, "AAAA", TTL, a)}
    BY <1>4 DEF AddressRR
  <2>2. GoodRR(RR(name, "AAAA", TTL, a), name)
    BY <1>2, <1>4, DefaultTTLs DEF GoodRR, RR, Is4, Is4In6
  <2> QED
    BY <2>1, <2>2
<1>5. CASE /\ ~ ((Is4(a) \/ Is4In6(a)) /\ qtype \in {"A", "ANY"})
           /\ ~ (~ (Is4(a) \/ Is4In6(a)) /\ qtype \in {"AAAA", "ANY"})
  BY <1>5 DEF AddressRR
<1> QED
  BY <1>3, <1>4, <1>5

\* Results with and without records.
LEMMA ResultSound ==
    ASSUME NEW name, InZone(name)
    PROVE  /\ GoodResult(Negative("NOERROR"), name)
           /\ GoodResult(Negative("NXDOMAIN"), name)
           /\ \A rrs : rrs # {} /\ (\A rr \in rrs : GoodRR(rr, name)) =>
                GoodResult(Result("NOERROR", rrs, "none"), name)
BY DEF GoodResult, Negative, Result

\* The answer for an address.
LEMMA AddressSound ==
    ASSUME NEW name, InZone(name), NEW qtype, NEW a \in Addr
    PROVE  GoodResult(AddressAnswer(name, qtype, a), name)
<1> DEFINE rrs == AddressRR(name, qtype, a, TTL)
<1>1. \A rr \in rrs : GoodRR(rr, name)
  BY AddressFits
<1>2. AddressAnswer(name, qtype, a) =
        IF rrs = {} THEN Negative("NOERROR") ELSE Result("NOERROR", rrs, "none")
  BY DEF AddressAnswer
<1> HIDE DEF rrs
<1> QED
  BY <1>1, <1>2, ResultSound

\* The answer of the store.
LEMMA StoreSound ==
    ASSUME NEW q \in Question, ~ AnsweredByConfig(q), NEW recs \in SUBSET FitRecord
    PROVE  GoodResult(StoreAnswer(q, recs), CanonicalName(q.name))
<1> DEFINE name == CanonicalName(q.name)
           mine == {r \in recs : q.type \in {r.type, "ANY"}}
           rrs  == {RR(name, r.type, RecTTL(r), Data(r)) : r \in mine}
<1>1. InZone(name)
  BY AskedOfStore DEF InZone
<1>2. Magic[RelativeOf(q)] \in Addr \cup {NoAddr} /\ Fallback \in Addr \cup {NoAddr}
  BY MagicAssumption, ConfigAssumption DEF MagicAssumption, ConfigAssumption
<1>3. ~ IsValid(NoAddr)
  BY DEF IsValid, NoAddr
<1>4. ASSUME NEW r \in recs PROVE GoodRR(RR(name, r.type, RecTTL(r), Data(r)), name)
  <2>1. r.ttl \in Nat /\ Fits(r)
    BY DEF FitRecord, Record
  <2>2. RecTTL(r) \in Nat /\ RecTTL(r) > 0
    BY <2>1, DefaultTTLs DEF RecTTL
  <2>3. /\ r.type = "A" => Data(r) = r.addr /\ Is4(r.addr)
        /\ r.type = "AAAA" => Data(r) = r.addr /\ r.addr.fam = "v6"
    BY <2>1 DEF Data, Fits
  <2> HIDE DEF name
  <2> QED
    BY <2>2, <2>3 DEF GoodRR, RR
<1>5. \A rr \in rrs : GoodRR(rr, name)
  BY <1>4
<1>6. Stored(name, q.type, recs) =
        IF rrs = {} THEN Negative("NOERROR") ELSE Result("NOERROR", rrs, "none")
  BY DEF Stored
<1> HIDE DEF rrs
<1>7. GoodResult(Stored(name, q.type, recs), name)
  BY <1>1, <1>5, <1>6, ResultSound
<1> HIDE DEF name
<1>8. StoreAnswer(q, recs) \in
        {Stored(name, q.type, recs), Negative("NXDOMAIN")}
          \cup {AddressAnswer(name, q.type, a) : a \in Addr}
  BY <1>2, <1>3 DEF StoreAnswer, RelativeOf, name
<1> QED
  BY <1>1, <1>7, <1>8, ResultSound, AddressSound DEF name

\* The answer of the configuration.
LEMMA ConfigSound ==
    ASSUME NEW q \in Question, AnsweredByConfig(q)
    PROVE  GoodResult(ConfigAnswer(q), CanonicalName(q.name))
<1> DEFINE name == CanonicalName(q.name)
<1>1. /\ ApexA \in Addr \cup {NoAddr} /\ ~ IsValid(NoAddr)
  BY ConfigAssumption DEF ConfigAssumption, IsValid, NoAddr
<1>2. CASE q.class \notin {"IN", "ANY"} \/ ~ InZone(name)
  <2>1. ConfigAnswer(q) = Negative("REFUSED")
    BY <1>2 DEF ConfigAnswer
  <2> QED
    BY <2>1 DEF GoodResult, Negative, Result
<1>3. CASE /\ ~ (q.class \notin {"IN", "ANY"} \/ ~ InZone(name))
           /\ Relative(name) = EmptyName
  <2>1. name = Zone
    <3>1. name = Zone \/ Under(name, Zone)
      BY <1>3 DEF InZone
    <3>2. RelativeOf(q) = EmptyName
      BY <1>3 DEF RelativeOf
    <3> QED
      BY <3>1, <3>2, RelativePart
  <2> DEFINE want(t) == q.type \in {t, "ANY"}
             addrs == IF IsValid(ApexA) THEN AddressRR(Zone, q.type, ApexA, TTL) ELSE {}
             rrs == (IF want("NS") THEN {NS} ELSE {}) \cup addrs
  <2>2. ConfigAnswer(q) = Apex(q.type)
    BY <1>3 DEF ConfigAnswer
  <2>3. Apex(q.type) =
          IF rrs = {} /\ ~ want("SOA") THEN Negative("NOERROR")
          ELSE Result("NOERROR", rrs, IF want("SOA") THEN "answer" ELSE "none")
    BY DEF Apex
  <2>4. GoodRR(NS, Zone)
    BY DefaultTTLs DEF NS, RR, GoodRR
  <2>5. \A rr \in addrs : GoodRR(rr, Zone)
    BY <1>1, AddressFits
  <2>6. \A rr \in rrs : GoodRR(rr, Zone)
    BY <2>4, <2>5
  <2> HIDE DEF rrs, want
  <2>7. InZone(Zone)
    BY DEF InZone
  <2>8. GoodResult(Apex(q.type), Zone)
    BY <2>3, <2>6, <2>7 DEF GoodResult, Negative, Result
  <2> QED
    BY <2>1, <2>2, <2>8
<1>4. CASE /\ ~ (q.class \notin {"IN", "ANY"} \/ ~ InZone(name))
           /\ Relative(name) # EmptyName
  <2>1. ConfigAnswer(q) = AddressAnswer(name, q.type, ApexA) /\ InZone(name)
    BY <1>4 DEF ConfigAnswer
  <2>2. ApexA \in Addr
    BY <1>1, <1>4 DEF AnsweredByConfig
  <2> HIDE DEF name
  <2>3. GoodResult(ConfigAnswer(q), name)
    BY <2>1, <2>2, AddressSound
  <2> QED
    BY <2>3 DEF name
<1> QED
  BY <1>2, <1>3, <1>4

SoundMessage(m, name) ==
    /\ (m.authority # {}) <=> (m.rcode # "REFUSED" /\ m.answers = {})
    /\ m.rcode # "NOERROR" => m.answers = {}
    /\ \A rr \in m.answers \cup m.authority :
         rr.ttl > 0 /\ Under(<< "" >> \o rr.name, Zone)
    /\ \A rr \in m.answers :
         /\ rr.name = name
         /\ rr.type = "A" => Is4(rr.data)
         /\ rr.type = "AAAA" => rr.data.fam = "v6"

\* A sound result makes a sound message.
LEMMA MessageSound ==
    ASSUME NEW name \in Name, NEW res, GoodResult(res, name), NEW s
    PROVE  SoundMessage(Message(res, s), name)
<1> DEFINE m == Message(res, s)
           soa == SOA(s)
<1>1. soa.name = Zone /\ soa.type = "SOA" /\ soa.ttl = NegTTL /\ NegTTL > 0
  BY DefaultTTLs DEF SOA, RR
<1>2. /\ m.rcode = res.rcode
      /\ m.answers = res.answers \cup (IF res.soa = "answer" THEN {soa} ELSE {})
      /\ m.authority = IF res.soa = "authority" THEN {soa} ELSE {}
  BY DEF Message
<1>3. "" \in Label
  BY LabelAssumption DEF LabelAssumption
<1>4. Under(<< "" >> \o Zone, Zone)
  BY <1>3, ZoneType, LabelBefore
<1>5. InZone(name) => Under(<< "" >> \o name, Zone)
  BY <1>3, ZoneType, LabelBefore DEF InZone
<1> HIDE DEF m, soa
<1>6. (m.authority # {}) <=> (m.rcode # "REFUSED" /\ m.answers = {})
  BY <1>2 DEF GoodResult
<1>7. m.rcode # "NOERROR" => m.answers = {}
  BY <1>2 DEF GoodResult
<1>8. \A rr \in m.answers \cup m.authority : rr = soa \/ rr \in res.answers
  BY <1>2
<1>9. \A rr \in res.answers : GoodRR(rr, name) /\ InZone(name)
  BY DEF GoodResult
<1>10. \A rr \in m.answers \cup m.authority :
         rr.ttl > 0 /\ Under(<< "" >> \o rr.name, Zone)
  BY <1>1, <1>4, <1>5, <1>8, <1>9 DEF GoodRR
<1>11. ASSUME NEW rr \in m.answers
       PROVE  /\ rr.name = name
              /\ rr.type = "A" => Is4(rr.data)
              /\ rr.type = "AAAA" => rr.data.fam = "v6"
  <2>1. rr \in res.answers \/ (rr = soa /\ res.soa = "answer")
    BY <1>2
  <2> QED
    BY <1>1, <1>9, <2>1 DEF GoodRR, GoodResult
<1>12. SoundMessage(m, name)
  BY <1>6, <1>7, <1>10, <1>11 DEF SoundMessage
<1> QED
  BY <1>12 DEF m

\* Exactly the answers without records carry the SOA in authority, every
\* record is for the asked name, holds an address of its type's family and
\* may be cached, whatever is stored and however the flags are set.
THEOREM SoundAnswers == AskSpec => []MessageIsSound
<1>1. StoreInv /\ AskInv => MessageIsSound
  <2> SUFFICES ASSUME StoreInv, AskInv, NEW g \in Asker, Replying(g)
               PROVE  SoundMessage(ask[g].msg, CanonicalName(ask[g].q.name))
    BY DEF MessageIsSound, SoundMessage
  <2> DEFINE m == moments[g]
             q == ask[g].q
             msg == ask[g].msg
             name == CanonicalName(q.name)
  <2>1. Stage(g) /\ Moments(g) /\ AnswerFound(g) /\ ConfigFound(g) /\ ask[g].at = "answer"
    BY DEF AskInv, Stages, FoundInv, Replying
  <2>2. q \in Question /\ name \in Name
    BY <2>1, QuestionType DEF Stage
  <2>3. \E res, s : GoodResult(res, name) /\ msg = Message(res, s)
    <3>1. CASE AnsweredByConfig(q)
      <4>1. PICK s : msg = Message(ConfigAnswer(q), s)
        BY <2>1, <3>1 DEF ConfigFound
      <4>2. GoodResult(ConfigAnswer(q), name)
        BY <2>2, <3>1, ConfigSound
      <4> QED
        BY <4>1, <4>2
    <3>2. CASE ~ AnsweredByConfig(q)
      <4>1. Told(m, q, msg)
        BY <2>1, <3>2 DEF AnswerFound
      <4>2. PICK i \in 1..Len(m) : \E s : msg = Message(StoreAnswer(q, Found(m, i, q)), s)
        BY <4>1 DEF Told
      <4>3. Found(m, i, q) \in SUBSET FitRecord
        <5>1. GoodMoment(m[i], kept[g])
          BY <2>1 DEF Moments
        <5> QED
          BY <5>1 DEF GoodMoment, Found, At
      <4>4. GoodResult(StoreAnswer(q, Found(m, i, q)), name)
        BY <2>2, <3>2, <4>3, StoreSound
      <4> QED
        BY <4>2, <4>4
    <3> QED
      BY <3>1, <3>2
  <2> HIDE DEF msg, name
  <2>4. PICK res, s : GoodResult(res, name) /\ msg = Message(res, s)
    BY <2>3
  <2>5. SoundMessage(msg, name)
    BY <2>2, <2>4, MessageSound
  <2> QED
    BY <2>5 DEF msg, name
<1> QED
  BY <1>1, AskInvAlways, PTL
=============================================================================
