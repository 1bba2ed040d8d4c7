---------------------------- MODULE LoggerProofs ----------------------------
(***************************************************************************)
(* Proofs about module Logger.  For any set of clients, any settings, any  *)
(* bounds and any faults:                                                  *)
(*   - TypeOK is an invariant (TypeCorrect);                               *)
(*   - so is CountsCurrent (CountsAlwaysCurrent);                          *)
(*   - hence every erasing was confirmed (ErasingIsConfirmed);             *)
(*   - every step of a call but for passing over a report leaves less of   *)
(*     it (EveryCallAdvances), which is bounded (CallsAreBounded).         *)
(* The state is taken in four parts, each with its own part of TypeOK.     *)
(*                                                                         *)
(* For one caller at a time (Alone) and a device that holds one request    *)
(* besides the one it works on (Shallow):                                  *)
(*   - a Stop that reports success was obeyed (StopIsTruthful);            *)
(*   - what a replug restores changes as a whole (CommitIsWhole);          *)
(*   - so Logger implements Store (LoggerIsAStore);                        *)
(*   - a Configure that reports success lasts (SuccessPersists).           *)
(* The hypotheses that are about one of these only are in its statement.   *)
(***************************************************************************)
EXTENDS Logger, HidrawProofs, SequenceTheorems, TLAPS

DeviceOK ==
    /\ plugged \in BOOLEAN
    /\ store \in 0..MaxCount
    /\ live \in Parameters
    /\ saved \in Parameters
    /\ stopped \in BOOLEAN
    /\ inbox \in Seq(Requests)

LinkOK ==
    /\ fd \in [Clients -> {"closed", "live", "dead"}]
    /\ queue \in [Clients -> Seq(Reports)]

CursorOK ==
    /\ phase \in [Clients -> Phases \cup {"idle"}]
    /\ idx \in [Clients -> Nat]
    /\ \A c \in Clients : idx[c] \in 1..Len(Table(phase[c]))
    /\ waiting \in [Clients -> BOOLEAN]

CallOK ==
    /\ job \in [Clients -> AllJobs \cup {"verify", "none"}]
    /\ arg \in [Clients -> [set: Parameters, confirmed: Nat]]
    /\ got \in [Clients -> Parameters]
    /\ result \in [Clients -> {"none", "ok", "error", "unacknowledged"}]

\* TypeOK is the four parts together.
LEMMA TypeParts == TypeOK <=> DeviceOK /\ LinkOK /\ CursorOK /\ CallOK
  BY DEF TypeOK, DeviceOK, LinkOK, CursorOK, CallOK

-----------------------------------------------------------------------------
(* Types of the operators *)

\* Every phase has exchanges, and each is at an address.
LEMMA TableType ==
  ASSUME NEW p \in Phases \cup {"idle"}
  PROVE  Table(p) \in Seq(Addresses) /\ Len(Table(p)) >= 1
  <1>1. PrimeReads \in Seq(Addresses) /\ Len(PrimeReads) >= 1
    BY DEF PrimeReads, Read, Addresses
  <1>2. CountReads \in Seq(Addresses) /\ Len(CountReads) >= 1
    BY DEF CountReads, Read, Addresses
  <1>3. Command \in Seq(Addresses) /\ Len(Command) >= 1
    BY DEF Command, Addresses
  <1>4. /\ FieldReads \in Seq(Addresses) /\ Len(FieldReads) >= 1
        /\ StatusReads \in Seq(Addresses) /\ Len(StatusReads) >= 1
        /\ ConfigBlocks \in Seq(Addresses) /\ Len(ConfigBlocks) >= 1
    BY LoggerAssumption
  <1>5. PeekRead \in Seq(Addresses) /\ Len(PeekRead) >= 1
    BY DEF PeekRead, Read, Addresses
  <1> QED
    BY <1>1, <1>2, <1>3, <1>4, <1>5 DEF Table

\* What follows a phase is a phase.
LEMMA NextPhaseType ==
  ASSUME NEW j, NEW p PROVE NextPhase(j, p) \in Phases
  BY DEF NextPhase, Phases, Peeks

\* 0xFF bytes decode to contents.
LEMMA BlankType == Blank \in Contents
  BY DEF Blank, Contents, StartBytes, UnknownCount

\* A fresh Info has the type of parameters.
LEMMA ZeroInfoType == ZeroInfo \in Parameters
  BY DEF ZeroInfo, Parameters, StartBytes

\* A client without a call has well-typed arguments.
LEMMA NoArgType == NoArg \in [set: Parameters, confirmed: Nat]
  BY LoggerAssumption DEF NoArg

\* So has a client that begins one.
LEMMA ArgsType ==
  ASSUME NEW j, NEW a \in Args(j) PROVE a \in [set: Parameters, confirmed: Nat]
  BY LoggerAssumption, NoArgType DEF Args

\* A well-typed device answers with contents.
LEMMA MemoryType ==
  ASSUME DeviceOK PROVE Memory \in Contents
  BY LoggerAssumption DEF DeviceOK, Memory, Contents, Parameters

\* A damaged report is still a report.
LEMMA GarbledType == Garbled \in Reports
  BY BlankType DEF Garbled, Reports, Ops

\* The answer to a request is a report.
LEMMA ReportType ==
  ASSUME NEW r \in Requests, NEW off \in Nat, NEW n \in Nat, NEW ok \in BOOLEAN,
         NEW data \in Contents
  PROVE  Report(r, off, n, ok, data) \in Reports
  BY DEF Report, Reports, Requests

\* The interval bytes decode to a number.
LEMMA EncodedType ==
  ASSUME NEW s \in Nat PROVE Encoded(s) \in Nat
  BY DEF Encoded

\* A block write leaves parameters.
LEMMA PatchedType ==
  ASSUME DeviceOK, NEW r \in Requests PROVE Patched(r) \in Parameters
  BY EncodedType DEF DeviceOK, Patched, Parameters, Requests

\* A session at an exchange writes a request.
LEMMA RequestType ==
  ASSUME CursorOK, CallOK, NEW c \in Clients, phase[c] \notin {"idle", "reopen"}
  PROVE  Request(c) \in Requests
  <1> DEFINE a == Table(phase[c])[idx[c]]
  <1>1. a \in Addresses
    BY TableType DEF CursorOK
  <1>2. OpOf(phase[c]) \in Ops
    BY DEF OpOf, Ops, CursorOK, Phases, Peeks
  <1>3. a.off \in Nat /\ a.n \in Nat /\ a.written \in Nat
    BY <1>1 DEF Addresses
  <1>4. arg[c].set \in Parameters /\ arg[c].confirmed \in Nat
    BY DEF CallOK
  <1> HIDE DEF a
  <1>5. [op |-> OpOf(phase[c]), off |-> a.off, n |-> a.n, written |-> a.written,
         set |-> arg[c].set, confirmed |-> arg[c].confirmed] \in Requests
    BY <1>2, <1>3, <1>4 DEF Requests
  <1> QED
    BY <1>5 DEF Request, a

-----------------------------------------------------------------------------
(* Types of the parts of a step *)

\* Moving to an exchange that exists keeps the cursors typed.
LEMMA GotoType ==
  ASSUME CursorOK, NEW c \in Clients, NEW p \in Phases \cup {"idle"},
         NEW i \in 1..Len(Table(p)), Goto(c, p, i)
  PROVE  CursorOK'
  <1>1. Len(Table(p)) \in Nat
    BY TableType
  <1>2. i \in Nat
    BY <1>1
  <1>3. /\ phase' \in [Clients -> Phases \cup {"idle"}]
        /\ idx' \in [Clients -> Nat]
        /\ waiting' \in [Clients -> BOOLEAN]
    BY <1>2 DEF CursorOK, Goto
  <1>4. ASSUME NEW d \in Clients PROVE idx'[d] \in 1..Len(Table(phase'[d]))
    <2>1. CASE d = c
      BY <2>1 DEF CursorOK, Goto
    <2>2. CASE d # c
      BY <2>2 DEF CursorOK, Goto
    <2> QED BY <2>1, <2>2
  <1> QED BY <1>3, <1>4 DEF CursorOK

\* The first exchange of every phase exists.
LEMMA GotoFirst ==
  ASSUME CursorOK, NEW c \in Clients, NEW p \in Phases \cup {"idle"}, Goto(c, p, 1)
  PROVE  CursorOK'
  <1>1. 1 \in 1..Len(Table(p))
    BY TableType
  <1> QED BY <1>1, GotoType

\* So does the one after an exchange, in its phase or the next.
LEMMA AdvanceType ==
  ASSUME CursorOK, NEW c \in Clients, Advance(c)
  PROVE  CursorOK'
  <1>1. phase[c] \in Phases \cup {"idle"} /\ idx[c] \in 1..Len(Table(phase[c]))
    BY DEF CursorOK
  <1>2. CASE idx[c] < Len(Table(phase[c]))
    <2>1. Goto(c, phase[c], idx[c] + 1)
      BY <1>2 DEF Advance
    <2>2. idx[c] + 1 \in 1..Len(Table(phase[c]))
      BY <1>1, <1>2, TableType
    <2> QED BY <1>1, <2>1, <2>2, GotoType
  <1>3. CASE ~(idx[c] < Len(Table(phase[c])))
    <2>1. Goto(c, NextPhase(job[c], phase[c]), 1)
      BY <1>3 DEF Advance
    <2>2. NextPhase(job[c], phase[c]) \in Phases \cup {"idle"}
      BY NextPhaseType
    <2> QED BY <2>1, <2>2, GotoFirst
  <1> QED BY <1>2, <1>3

\* Reading a report keeps the link typed.
LEMMA PopType ==
  ASSUME LinkOK, NEW c \in Clients, queue[c] # <<>>, Pop(c)
  PROVE  LinkOK'
  <1>1. Tail(queue[c]) \in Seq(Reports)
    BY TailSeq DEF LinkOK
  <1> QED BY <1>1 DEF LinkOK, Pop

\* So does closing the node.
LEMMA CloseType ==
  ASSUME LinkOK, NEW c \in Clients, Close(c) PROVE LinkOK'
  <1>1. <<>> \in Seq(Reports)
    OBVIOUS
  <1> QED BY <1>1 DEF LinkOK, Close

\* So does opening it.
LEMMA OpenType ==
  ASSUME LinkOK, NEW c \in Clients, Open(c) PROVE LinkOK'
  <1>1. <<>> \in Seq(Reports)
    OBVIOUS
  <1> QED BY <1>1 DEF LinkOK, Open

\* So does an exchange without an answer.
LEMMA FailedType ==
  ASSUME LinkOK, NEW c \in Clients, Failed(c) PROVE LinkOK'
  <1>1. CASE queue' = [queue EXCEPT ![c] = Drained(@)] /\ UNCHANGED fd
    <2>1. Drained(queue[c]) \in Seq(Reports)
      BY DrainedSeq DEF LinkOK
    <2> QED BY <1>1, <2>1 DEF LinkOK
  <1>2. CASE UNCHANGED link
    BY <1>2 DEF LinkOK, link
  <1>3. CASE Spoiled(c) /\ Pop(c)
    BY <1>3, PopType DEF Spoiled
  <1> QED BY <1>1, <1>2, <1>3 DEF Failed

\* So does a try of the count that fails.
LEMMA NoCountType ==
  ASSUME LinkOK, NEW c \in Clients, NoCount(c) PROVE LinkOK'
  BY FailedType, PopType DEF NoCount, Replied

\* A return keeps all types and leaves the device alone.
LEMMA ReturnType ==
  ASSUME LinkOK, CursorOK, CallOK, NEW c \in Clients,
         NEW outcome \in {"ok", "error", "unacknowledged", "none"}, Return(c, outcome)
  PROVE  LinkOK' /\ CursorOK' /\ CallOK' /\ UNCHANGED device
  <1>1. LinkOK'
    BY CloseType DEF Return
  <1>2. CursorOK'
    BY GotoFirst DEF Return
  <1>3. CallOK'
    BY NoArgType, ZeroInfoType DEF Return, CallOK
  <1> QED BY <1>1, <1>2, <1>3 DEF Return

\* However a report fares on its way, the link stays typed.
LEMMA EmitType ==
  ASSUME LinkOK, NEW r \in Reports, Emit(r) PROVE LinkOK'
  <1>1. ASSUME NEW x \in Reports, queue' = Broadcast(fd, queue, x), UNCHANGED fd
        PROVE  LinkOK'
    <2>1. \A d \in Clients : Buffered(queue[d], x) \in Seq(Reports)
      BY BufferedSeq DEF LinkOK
    <2>2. DOMAIN queue = Clients
      BY DEF LinkOK
    <2>3. queue' \in [Clients -> Seq(Reports)]
      BY <1>1, <2>1, <2>2 DEF Broadcast, LinkOK
    <2> QED BY <1>1, <2>3 DEF LinkOK
  <1>2. CASE UNCHANGED <<fd, queue>>
    BY <1>2 DEF LinkOK
  <1> QED BY <1>1, <1>2, GarbledType DEF Emit

-----------------------------------------------------------------------------
(* Type correctness *)

\* An unchanged device stays typed.
LEMMA DeviceUnchanged ==
  ASSUME DeviceOK, UNCHANGED device PROVE DeviceOK'
  BY DEF DeviceOK, device

\* So does an unchanged call.
LEMMA CallUnchanged ==
  ASSUME CallOK, UNCHANGED <<job, arg, got, result>> PROVE CallOK'
  BY DEF CallOK

\* So do unchanged cursors.
LEMMA CursorUnchanged ==
  ASSUME CursorOK, UNCHANGED <<phase, idx, waiting>> PROVE CursorOK'
  BY DEF CursorOK

\* So does an unchanged session.
LEMMA SessionUnchanged ==
  ASSUME CursorOK, CallOK, UNCHANGED session PROVE CursorOK' /\ CallOK'
  BY CursorUnchanged, CallUnchanged DEF session

\* Each step of a client keeps the types.
LEMMA ClientType ==
  ASSUME DeviceOK, LinkOK, CursorOK, CallOK, NEW c \in Clients, ClientStep(c)
  PROVE  DeviceOK' /\ LinkOK' /\ CursorOK' /\ CallOK'
  <1> DEFINE Good == DeviceOK' /\ LinkOK' /\ CursorOK' /\ CallOK'
  <1>returns. ASSUME NEW o \in {"ok", "error", "unacknowledged", "none"}, Return(c, o)
              PROVE  Good
    BY <1>returns, ReturnType, DeviceUnchanged
  <1>begin. CASE Begin(c)
    <2>1. PICK j \in Jobs : \E a \in Args(j) :
            /\ Open(c)
            /\ Goto(c, "prime", 1)
            /\ job' = [job EXCEPT ![c] = j]
            /\ arg' = [arg EXCEPT ![c] = a]
            /\ result' = [result EXCEPT ![c] = "none"]
            /\ stopped' = FALSE
            /\ UNCHANGED <<got, plugged, store, live, saved, inbox>>
      BY <1>begin DEF Begin
    <2>2. PICK a \in Args(j) :
            /\ Open(c)
            /\ Goto(c, "prime", 1)
            /\ job' = [job EXCEPT ![c] = j]
            /\ arg' = [arg EXCEPT ![c] = a]
            /\ result' = [result EXCEPT ![c] = "none"]
            /\ stopped' = FALSE
            /\ UNCHANGED <<got, plugged, store, live, saved, inbox>>
      BY <2>1
    <2>3. DeviceOK'
      BY <2>2 DEF DeviceOK
    <2>4. LinkOK'
      BY <2>2, OpenType
    <2>5. CursorOK'
      BY <2>2, GotoFirst DEF Phases
    <2>6. a \in [set: Parameters, confirmed: Nat] /\ j \in AllJobs
      BY ArgsType, LoggerAssumption
    <2>7. CallOK'
      BY <2>2, <2>6 DEF CallOK
    <2> QED BY <2>3, <2>4, <2>5, <2>7
  <1>refuse. CASE Refuse(c)
    BY <1>refuse, <1>returns DEF Refuse
  <1>skip. CASE Skip(c)
    BY <1>skip, PopType, SessionUnchanged, DeviceUnchanged DEF Skip
  <1>crash. CASE Crash(c)
    BY <1>crash, <1>returns DEF Crash
  <1>write. CASE Write(c)
    <2>1. Request(c) \in Requests
      BY <1>write, RequestType DEF Write
    <2>2. inbox' \in Seq(Requests)
      BY <1>write, <2>1 DEF Write, DeviceOK
    <2>3. DeviceOK'
      BY <1>write, <2>2 DEF Write, DeviceOK
    <2>4. Drained(queue[c]) \in Seq(Reports)
      BY DrainedSeq DEF LinkOK
    <2>5. LinkOK'
      BY <1>write, <2>4 DEF Write, LinkOK
    <2>6. CursorOK'
      BY <1>write DEF Write, CursorOK
    <2>7. CallOK'
      BY <1>write, CallUnchanged DEF Write
    <2> QED BY <2>3, <2>5, <2>6, <2>7
  <1>giveUp. CASE GiveUp(c)
    BY <1>giveUp, <1>returns DEF GiveUp
  <1>prime. CASE Prime(c)
    BY <1>prime, AdvanceType, PopType, CallUnchanged, DeviceUnchanged DEF Prime, Replied
  <1>countKnown. CASE CountKnown(c)
    <2>1. NextPhase(job[c], "count") \in Phases \cup {"idle"}
      BY NextPhaseType
    <2> QED BY <1>countKnown, <2>1, GotoFirst, PopType, CallUnchanged, DeviceUnchanged
            DEF CountKnown, Replied
  <1>countRefused. CASE CountRefused(c)
    BY <1>countRefused, <1>returns DEF CountRefused
  <1>countRetry. CASE CountRetry(c)
    <2>1. idx[c] \in Nat /\ idx[c] >= 1 /\ Len(CountReads) \in Nat
      BY TableType DEF CursorOK, CountReads
    <2>2. idx[c] + 1 \in 1..Len(CountReads)
      BY <1>countRetry, <2>1 DEF CountRetry
    <2>3. Table("count") = CountReads
      BY DEF Table, Peeks
    <2>4. CursorOK'
      BY <1>countRetry, <2>2, <2>3, GotoType DEF CountRetry, Phases
    <2> QED BY <1>countRetry, <2>4, NoCountType, CallUnchanged, DeviceUnchanged
            DEF CountRetry
  <1>countUnknown. CASE CountUnknown(c)
    <2>1. NextPhase(job[c], "count") \in Phases \cup {"idle"}
      BY NextPhaseType
    <2> QED BY <1>countUnknown, <2>1, GotoFirst, NoCountType, CallUnchanged, DeviceUnchanged
            DEF CountUnknown
  <1>countMissing. CASE CountMissing(c)
    BY <1>countMissing, <1>returns DEF CountMissing
  <1>field. CASE Field(c)
    <2>1. Reply(c) \in Reports
      BY <1>field DEF Field, Replied, Reply, LinkOK
    <2>2. Reply(c).data.interval \in Nat /\ Reply(c).data.start \in StartBytes
      BY <2>1 DEF Reports, Contents
    <2>3. got' \in [Clients -> Parameters]
      BY <1>field, <2>2 DEF Field, CallOK, Parameters
    <2>4. CallOK'
      BY <1>field, <2>3 DEF Field, CallOK
    <2> QED BY <1>field, <2>4, AdvanceType, PopType, DeviceUnchanged DEF Field, Replied
  <1>fieldSkipped. CASE FieldSkipped(c)
    BY <1>fieldSkipped, AdvanceType, FailedType, CallUnchanged, DeviceUnchanged
       DEF FieldSkipped
  <1>status. CASE Status(c)
    BY <1>status, AdvanceType, PopType, CallUnchanged, DeviceUnchanged DEF Status, Replied
  <1>statusDone. CASE StatusDone(c)
    BY <1>statusDone, <1>returns DEF StatusDone, Finish
  <1>blockRead. CASE BlockRead(c)
    BY <1>blockRead, AdvanceType, PopType, CallUnchanged, DeviceUnchanged
       DEF BlockRead, Replied
  <1>blockWritten. CASE BlockWritten(c)
    BY <1>blockWritten, AdvanceType, PopType, CallUnchanged, DeviceUnchanged
       DEF BlockWritten, Replied
  <1>formatted. CASE Formatted(c)
    BY <1>formatted, CloseType, GotoFirst, CallUnchanged, DeviceUnchanged
       DEF Formatted, Phases
  <1>reopen. CASE Reopen(c)
    <2>1. CallOK'
      BY <1>reopen DEF Reopen, CallOK
    <2> QED BY <1>reopen, <2>1, OpenType, GotoFirst, DeviceUnchanged DEF Reopen, Phases
  <1>reopenFails. CASE ReopenFails(c)
    BY <1>reopenFails, <1>returns DEF ReopenFails
  <1>stopAnswered. CASE StopAnswered(c)
    BY <1>stopAnswered, <1>returns DEF StopAnswered
  <1>stopUnanswered. CASE StopUnanswered(c)
    BY <1>stopUnanswered, <1>returns DEF StopUnanswered
  <1>peeked. CASE Peeked(c)
    BY <1>peeked, <1>returns DEF Peeked
  <1> QED
    BY <1>begin, <1>refuse, <1>skip, <1>crash, <1>write, <1>giveUp, <1>prime,
       <1>countKnown, <1>countRefused, <1>countRetry, <1>countUnknown,
       <1>countMissing, <1>field, <1>fieldSkipped, <1>status, <1>statusDone,
       <1>blockRead, <1>blockWritten, <1>formatted, <1>reopen, <1>reopenFails,
       <1>stopAnswered, <1>stopUnanswered, <1>peeked
       DEF ClientStep, Progress

\* Handling the oldest request leaves requests, and its reply is a report.
LEMMA OldestType ==
  ASSUME DeviceOK, NEW o, Oldest(o)
  PROVE  Head(inbox) \in Requests /\ inbox' \in Seq(Requests)
  BY DEF DeviceOK, Oldest

\* Each step of the device, or of the user's hand on the plug, keeps the types.
LEMMA DeviceType ==
  ASSUME DeviceOK, LinkOK, CursorOK, CallOK, DeviceStep
  PROVE  DeviceOK' /\ LinkOK' /\ CursorOK' /\ CallOK'
  <1> DEFINE r == Head(inbox)
             Good == DeviceOK' /\ LinkOK' /\ CursorOK' /\ CallOK'
  <1>emit. ASSUME NEW x \in Reports, Emit(x) PROVE LinkOK' /\ CursorOK' /\ CallOK'
    BY <1>emit, EmitType, SessionUnchanged DEF Emit
  <1>fields. ASSUME r \in Requests PROVE r.off \in Nat /\ r.n \in Nat
    BY <1>fields DEF Requests
  <1>get. CASE AnswerGet
    <2>1. r \in Requests /\ inbox' \in Seq(Requests)
      BY <1>get, OldestType DEF AnswerGet
    <2>2. r.off \in Nat /\ r.n \in Nat
      BY <2>1, <1>fields
    <2>3. Report(r, r.off, r.n, TRUE, Memory) \in Reports
      BY <2>1, <2>2, ReportType, MemoryType
    <2>4. Report(r, r.off, r.n, TRUE, Blank) \in Reports
      BY <2>1, <2>2, ReportType, BlankType
    <2>5. ASSUME r.off >= 4
          PROVE  Report(r, r.off - 4, r.n + 4, TRUE, Memory) \in Reports
      <3>1. r.off - 4 \in Nat /\ r.n + 4 \in Nat
        BY <2>2, <2>5
      <3> QED BY <2>1, <3>1, ReportType, MemoryType
    <2>6. LinkOK' /\ CursorOK' /\ CallOK'
      BY <1>get, <1>emit, <2>3, <2>4, <2>5 DEF AnswerGet
    <2>7. DeviceOK'
      BY <1>get, <2>1 DEF AnswerGet, DeviceOK
    <2> QED BY <2>6, <2>7
  <1>read05. CASE AnswerRead05
    <2>1. r \in Requests /\ inbox' \in Seq(Requests)
      BY <1>read05, OldestType DEF AnswerRead05
    <2>2. Report(r, r.off, r.n, TRUE, Blank) \in Reports
      BY <2>1, <1>fields, ReportType, BlankType
    <2>3. DeviceOK'
      BY <1>read05, <2>1 DEF AnswerRead05, DeviceOK
    <2> QED BY <1>read05, <1>emit, <2>2, <2>3 DEF AnswerRead05
  <1>set. CASE AnswerSet
    <2>1. r \in Requests /\ inbox' \in Seq(Requests)
      BY <1>set, OldestType DEF AnswerSet
    <2>2. /\ Report(r, r.off, 1, TRUE, Blank) \in Reports
          /\ Report(r, r.off, 1, FALSE, Blank) \in Reports
      BY <2>1, <1>fields, ReportType, BlankType
    <2>3. LinkOK' /\ CursorOK' /\ CallOK'
      BY <1>set, <1>emit, <2>2 DEF AnswerSet
    <2>4. live' \in Parameters
      BY <1>set, <2>1, PatchedType DEF AnswerSet, DeviceOK
    <2>5. DeviceOK'
      BY <1>set, <2>1, <2>4 DEF AnswerSet, DeviceOK
    <2> QED BY <2>3, <2>5
  <1>format. CASE AnswerFormat
    <2>1. r \in Requests /\ inbox' \in Seq(Requests)
      BY <1>format, OldestType DEF AnswerFormat
    <2>2. Report(r, 0, 1, TRUE, Blank) \in Reports
      BY <2>1, ReportType, BlankType
    <2>3. DeviceOK'
      BY <1>format, <2>1, LoggerAssumption DEF AnswerFormat, DeviceOK
    <2> QED BY <1>format, <1>emit, <2>2, <2>3 DEF AnswerFormat
  <1>stop. CASE AnswerStop
    <2>1. r \in Requests /\ inbox' \in Seq(Requests)
      BY <1>stop, OldestType DEF AnswerStop
    <2>2. Report(r, 0, 1, TRUE, Blank) \in Reports
      BY <2>1, ReportType, BlankType
    <2>3. DeviceOK'
      BY <1>stop, <2>1 DEF AnswerStop, DeviceOK
    <2>4. CASE Emit(Report(r, 0, 1, TRUE, Blank))
      BY <1>emit, <2>2, <2>3, <2>4
    <2>5. CASE UNCHANGED <<fd, session, queue>>
      <3>1. LinkOK'
        BY <2>5 DEF LinkOK
      <3> QED BY <2>3, <2>5, <3>1, SessionUnchanged
    <2> QED BY <1>stop, <2>4, <2>5 DEF AnswerStop
  <1>ignore. CASE Ignore
    <2>1. DeviceOK'
      BY <1>ignore DEF Ignore, DeviceOK
    <2> QED BY <1>ignore, <2>1, SessionUnchanged DEF Ignore, link, LinkOK
  <1>unplug. CASE Unplug
    <2>0. <<>> \in Seq(Requests)
      OBVIOUS
    <2>1. DeviceOK'
      BY <1>unplug, <2>0 DEF Unplug, DeviceOK
    <2>2. LinkOK'
      BY <1>unplug DEF Unplug, LinkOK
    <2> QED BY <1>unplug, <2>1, <2>2, SessionUnchanged DEF Unplug
  <1>record. CASE Record
    <2>1. DeviceOK'
      BY <1>record, LoggerAssumption DEF Record, DeviceOK
    <2> QED BY <1>record, <2>1, SessionUnchanged DEF Record, link, LinkOK
  <1>replug. CASE Replug
    <2>1. DeviceOK'
      BY <1>replug DEF Replug, DeviceOK
    <2> QED BY <1>replug, <2>1, SessionUnchanged DEF Replug, link, LinkOK
  <1> QED
    BY <1>get, <1>read05, <1>set, <1>format, <1>stop, <1>ignore, <1>unplug,
       <1>record, <1>replug DEF DeviceStep

\* The initial states have the types.
LEMMA InitType ==
  ASSUME Init PROVE TypeOK
  <1>0. <<>> \in Seq(Requests)
    OBVIOUS
  <1>1. DeviceOK
    BY <1>0, LoggerAssumption DEF Init, DeviceOK
  <1>2. LinkOK
    BY DEF Init, LinkOK
  <1>3. \A c \in Clients : idx[c] \in 1..Len(Table(phase[c]))
    BY TableType DEF Init
  <1>4. CursorOK
    BY <1>3 DEF Init, CursorOK
  <1>5. CallOK
    BY NoArgType, ZeroInfoType DEF Init, CallOK
  <1> QED BY <1>1, <1>2, <1>4, <1>5, TypeParts

\* Every step keeps the types.
LEMMA NextType ==
  ASSUME TypeOK, [Next]_vars PROVE TypeOK'
  <1>1. DeviceOK /\ LinkOK /\ CursorOK /\ CallOK
    BY TypeParts
  <1>2. CASE DeviceStep
    BY <1>1, <1>2, DeviceType DEF TypeOK, DeviceOK, LinkOK, CursorOK, CallOK
  <1>3. ASSUME NEW c \in Clients, ClientStep(c) PROVE TypeOK'
    BY <1>1, <1>3, ClientType DEF TypeOK, DeviceOK, LinkOK, CursorOK, CallOK
  <1>4. CASE UNCHANGED vars
    BY <1>4 DEF TypeOK, vars
  <1> QED BY <1>2, <1>3, <1>4 DEF Next

\* Every variable keeps its type and every running call is at an exchange of its
\* phase: no retry, skipped field or early return leaves a table of exchanges.
THEOREM TypeCorrect == Spec => []TypeOK
  BY InitType, NextType, PTL DEF Spec

-----------------------------------------------------------------------------
(* Counts stay current: steps of a client *)

Committed == {"read", "write", "format"}

\* The step is of client c: the others keep their place.
Others(c) ==
    \A d \in Clients : d # c =>
        /\ fd'[d] = fd[d] /\ queue'[d] = queue[d]
        /\ phase'[d] = phase[d] /\ arg'[d] = arg[d]

\* An open file is one of a plugged device, and what it holds it held before.
RingShrinks(c) ==
    fd'[c] = "live" =>
        /\ plugged
        /\ \A i \in 1..Len(queue'[c]) :
              /\ fd[c] = "live"
              /\ \E j \in 1..Len(queue[c]) : queue'[c][i] = queue[c][j]

\* A client past Configure's check after the step was entitled to be.
StaysEntitled(c) ==
    fd'[c] = "live" /\ phase'[c] \in Committed => store \in {0, arg'[c].confirmed}

\* A client's step that brings nothing new into its ring and leaves it entitled
\* keeps the counts on their way and those of the sessions.
LEMMA KeepsCounts ==
  ASSUME TypeOK, CountsCurrent, NEW c \in Clients, Others(c), RingShrinks(c),
         StaysEntitled(c), UNCHANGED <<plugged, store>>
  PROVE  /\ CountsInFlight' /\ SessionsCurrent'
         /\ ~plugged => \A d \in Clients : fd'[d] # "live"
  <1>1. ASSUME NEW d \in Clients, fd'[d] = "live", NEW i \in 1..Len(queue'[d]),
               queue'[d][i].data.count # UnknownCount
        PROVE  store' \in {0, queue'[d][i].data.count}
    <2>1. CASE d = c
      <3>1. fd[c] = "live" /\ \E j \in 1..Len(queue[c]) : queue'[c][i] = queue[c][j]
        BY <1>1, <2>1 DEF RingShrinks
      <3> QED BY <1>1, <2>1, <3>1 DEF CountsCurrent, CountsInFlight
    <2>2. CASE d # c
      BY <1>1, <2>2 DEF Others, CountsCurrent, CountsInFlight
    <2> QED BY <2>1, <2>2
  <1>2. ASSUME NEW d \in Clients, fd'[d] = "live", phase'[d] \in Committed
        PROVE  store' \in {0, arg'[d].confirmed}
    <2>1. CASE d = c
      BY <1>2, <2>1 DEF StaysEntitled
    <2>2. CASE d # c
      BY <1>2, <2>2 DEF Others, CountsCurrent, SessionsCurrent, Committed
    <2> QED BY <2>1, <2>2
  <1>3. ~plugged => \A d \in Clients : fd'[d] # "live"
    BY DEF Others, RingShrinks, CountsCurrent, OffTheBus
  <1> QED BY <1>1, <1>2, <1>3 DEF CountsInFlight, SessionsCurrent, Committed

\* If it also sends nothing it keeps all of CountsCurrent.
LEMMA KeepsAll ==
  ASSUME TypeOK, CountsCurrent, NEW c \in Clients, Others(c), RingShrinks(c),
         StaysEntitled(c), UNCHANGED <<plugged, store, inbox>>
  PROVE  CountsCurrent'
  <1>1. FormatsCurrent'
    BY DEF CountsCurrent, FormatsCurrent
  <1>2. OffTheBus'
    BY KeepsCounts DEF CountsCurrent, OffTheBus
  <1> QED BY <1>1, <1>2, KeepsCounts DEF CountsCurrent

\* An open file is one of a plugged device.
LEMMA LiveIsPlugged ==
  ASSUME CountsCurrent, NEW c \in Clients, fd[c] = "live" PROVE plugged
  BY DEF CountsCurrent, OffTheBus

\* Reading a report brings nothing new into the ring.
LEMMA PopShrinks ==
  ASSUME LinkOK, CountsCurrent, NEW c \in Clients, queue[c] # <<>>, Pop(c)
  PROVE  RingShrinks(c)
  <1>1. queue[c] \in Seq(Reports) /\ queue'[c] = Tail(queue[c]) /\ fd'[c] = fd[c]
    BY DEF LinkOK, Pop
  <1>2. \A i \in 1..Len(queue'[c]) : \E j \in 1..Len(queue[c]) : queue'[c][i] = queue[c][j]
    BY <1>1, TailSeq
  <1> QED BY <1>1, <1>2, LiveIsPlugged DEF RingShrinks

\* Neither does draining it.
LEMMA DrainShrinks ==
  ASSUME LinkOK, CountsCurrent, NEW c \in Clients, UNCHANGED fd,
         queue' = [queue EXCEPT ![c] = Drained(@)]
  PROVE  RingShrinks(c)
  <1>1. queue[c] \in Seq(Reports) /\ queue'[c] = Drained(queue[c])
    BY DEF LinkOK
  <1>2. \A i \in 1..Len(queue'[c]) : \E j \in 1..Len(queue[c]) : queue'[c][i] = queue[c][j]
    BY <1>1, DrainedSeq
  <1> QED BY <1>1, <1>2, LiveIsPlugged DEF RingShrinks

\* Neither does an exchange without an answer.
LEMMA FailedShrinks ==
  ASSUME LinkOK, CountsCurrent, NEW c \in Clients, Failed(c)
  PROVE  RingShrinks(c) /\ fd' = fd
  <1>1. CASE queue' = [queue EXCEPT ![c] = Drained(@)] /\ UNCHANGED fd
    BY <1>1, DrainShrinks
  <1>2. CASE UNCHANGED link
    BY <1>2, LiveIsPlugged DEF RingShrinks, link
  <1>3. CASE Spoiled(c) /\ Pop(c)
    BY <1>3, PopShrinks DEF Spoiled, Pop
  <1> QED BY <1>1, <1>2, <1>3 DEF Failed

\* Neither does a try of the count that fails.
LEMMA NoCountShrinks ==
  ASSUME LinkOK, CountsCurrent, NEW c \in Clients, NoCount(c)
  PROVE  RingShrinks(c) /\ fd' = fd
  BY FailedShrinks, PopShrinks DEF NoCount, Replied, Pop

\* A closed file is not open.
LEMMA CloseShrinks ==
  ASSUME LinkOK, NEW c \in Clients, Close(c)
  PROVE  RingShrinks(c) /\ fd'[c] # "live"
  BY DEF LinkOK, Close, RingShrinks

\* A file just opened has an empty ring.
LEMMA OpenShrinks ==
  ASSUME LinkOK, NEW c \in Clients, Open(c)
  PROVE  RingShrinks(c)
  BY DEF LinkOK, Open, RingShrinks

\* The link steps touch the ring and the file of one client.
LEMMA LinkOthers ==
  ASSUME LinkOK, NEW c \in Clients,
         Pop(c) \/ Failed(c) \/ NoCount(c) \/ Close(c) \/ Open(c)
  PROVE  \A d \in Clients : d # c => fd'[d] = fd[d] /\ queue'[d] = queue[d]
  BY DEF LinkOK, Pop, Failed, NoCount, Close, Open, link

\* Moving one client moves no other.
LEMMA GotoOthers ==
  ASSUME CursorOK, NEW c \in Clients, NEW p, NEW i, Goto(c, p, i)
  PROVE  /\ phase'[c] = p
         /\ \A d \in Clients : d # c => phase'[d] = phase[d]
  BY DEF CursorOK, Goto

\* Neither does advancing one.
LEMMA AdvanceOthers ==
  ASSUME CursorOK, NEW c \in Clients, Advance(c)
  PROVE  /\ phase'[c] \in {phase[c], NextPhase(job[c], phase[c])}
         /\ \A d \in Clients : d # c => phase'[d] = phase[d]
  BY GotoOthers DEF Advance

\* A client that returns keeps the counts current.
LEMMA ReturnKeeps ==
  ASSUME TypeOK, CountsCurrent, NEW c \in Clients, NEW o, Return(c, o)
  PROVE  CountsCurrent'
  <1>1. LinkOK /\ CursorOK /\ CallOK
    BY TypeParts
  <1>2. Close(c) /\ Goto(c, "idle", 1) /\ arg' = [arg EXCEPT ![c] = NoArg]
        /\ UNCHANGED <<plugged, store, inbox>>
    BY DEF Return, device
  <1>3. Others(c)
    BY <1>1, <1>2, LinkOthers, GotoOthers DEF Others, CallOK
  <1>4. RingShrinks(c) /\ StaysEntitled(c)
    BY <1>1, <1>2, CloseShrinks DEF StaysEntitled
  <1> QED BY <1>2, <1>3, <1>4, KeepsAll

\* A step that moves within a phase, or to the phase that follows, keeps whatever
\* made the client entitled.
LEMMA AdvanceEntitled ==
  ASSUME TypeOK, CountsCurrent, NEW c \in Clients, Advance(c), fd' = fd, arg' = arg,
         phase[c] \in {"prime", "fields", "status", "read", "write"},
         phase[c] = "status" => idx[c] < Len(Table(phase[c]))
  PROVE  StaysEntitled(c)
  <1>1. CursorOK
    BY TypeParts
  <1>2. CASE phase[c] \in {"read", "write"}
    BY <1>2 DEF CountsCurrent, SessionsCurrent, StaysEntitled
  <1>3. CASE phase[c] \in {"prime", "fields"}
    <2>1. phase'[c] \in {phase[c], NextPhase(job[c], phase[c])}
      BY <1>1, AdvanceOthers
    <2>2. NextPhase(job[c], phase[c]) \in {"stop", "count", "status"} \cup Peeks
      BY <1>3 DEF NextPhase
    <2> QED BY <1>3, <2>1, <2>2 DEF StaysEntitled, Committed, Peeks
  <1>4. CASE phase[c] = "status"
    <2>1. phase'[c] = "status"
      BY <1>1, <1>4, GotoOthers DEF Advance
    <2> QED BY <2>1 DEF StaysEntitled, Committed
  <1> QED BY <1>2, <1>3, <1>4

\* An exchange of a phase without a check succeeds or is skipped.
LEMMA AdvanceKeeps ==
  ASSUME TypeOK, CountsCurrent, NEW c \in Clients, Advance(c),
         (queue[c] # <<>> /\ Pop(c)) \/ Failed(c),
         arg' = arg, UNCHANGED device,
         phase[c] \in {"prime", "fields", "status", "read", "write"},
         phase[c] = "status" => idx[c] < Len(Table(phase[c]))
  PROVE  CountsCurrent'
  <1>1. LinkOK /\ CursorOK
    BY TypeParts
  <1>2. RingShrinks(c) /\ fd' = fd
    BY <1>1, PopShrinks, FailedShrinks DEF Pop
  <1>3. Others(c)
    BY <1>1, LinkOthers, AdvanceOthers DEF Others
  <1>4. StaysEntitled(c)
    BY <1>2, AdvanceEntitled
  <1> QED BY <1>2, <1>3, <1>4, KeepsAll DEF device

\* Each step of a client keeps the counts current.
LEMMA ClientCounts ==
  ASSUME TypeOK, CountsCurrent, NEW c \in Clients, ClientStep(c)
  PROVE  CountsCurrent'
  <1>types. LinkOK /\ CursorOK /\ CallOK
    BY TypeParts
  <1>returns. ASSUME NEW o, Return(c, o) PROVE CountsCurrent'
    BY <1>returns, ReturnKeeps
  <1>begin. CASE Begin(c)
    <2>1. PICK a : /\ Open(c) /\ Goto(c, "prime", 1)
                   /\ arg' = [arg EXCEPT ![c] = a]
                   /\ UNCHANGED <<plugged, store, inbox>>
      BY <1>begin DEF Begin
    <2>2. Others(c)
      BY <1>types, <2>1, LinkOthers, GotoOthers DEF Others, CallOK
    <2>3. RingShrinks(c)
      BY <1>types, <2>1, OpenShrinks
    <2>4. StaysEntitled(c)
      BY <1>types, <2>1, GotoOthers DEF StaysEntitled, Committed
    <2> QED BY <2>1, <2>2, <2>3, <2>4, KeepsAll
  <1>refuse. CASE Refuse(c)
    BY <1>refuse, <1>returns DEF Refuse
  <1>skip. CASE Skip(c)
    <2>1. RingShrinks(c)
      BY <1>skip, <1>types, PopShrinks DEF Skip
    <2>2. Others(c)
      BY <1>skip, <1>types, LinkOthers DEF Skip, Others, session
    <2>3. StaysEntitled(c)
      BY <1>skip DEF Skip, StaysEntitled, Pop, session, CountsCurrent, SessionsCurrent,
                     Committed
    <2> QED BY <1>skip, <2>1, <2>2, <2>3, KeepsAll DEF Skip, device
  <1>crash. CASE Crash(c)
    BY <1>crash, <1>returns DEF Crash
  <1>write. CASE Write(c)
    <2>1. /\ fd[c] = "live" /\ UNCHANGED <<plugged, store, fd, phase, arg>>
          /\ queue' = [queue EXCEPT ![c] = Drained(@)]
          /\ inbox' = Append(inbox, Request(c))
      BY <1>write DEF Write, CanWrite
    <2>2. RingShrinks(c)
      BY <1>types, <2>1, DrainShrinks
    <2>3. Others(c)
      BY <1>types, <2>1 DEF Others, LinkOK
    <2>4. StaysEntitled(c)
      BY <2>1 DEF StaysEntitled, CountsCurrent, SessionsCurrent, Committed
    <2>5. ASSUME Request(c).op = "format" PROVE store \in {0, Request(c).confirmed}
      <3>1. OpOf(phase[c]) = "format" /\ Request(c).confirmed = arg[c].confirmed
        BY <2>5 DEF Request
      <3>2. phase[c] = "format"
        BY <3>1 DEF OpOf
      <3> QED BY <2>1, <3>1, <3>2 DEF CountsCurrent, SessionsCurrent
    <2>6. inbox \in Seq(Requests)
      BY DEF TypeOK
    <2>7. FormatsCurrent'
      <3> SUFFICES ASSUME NEW i \in 1..Len(inbox'), inbox'[i].op = "format"
                   PROVE  store' \in {0, inbox'[i].confirmed}
        BY DEF FormatsCurrent
      <3>1. CASE i \in 1..Len(inbox)
        <4>1. inbox'[i] = inbox[i]
          BY <2>1, <2>6, <3>1
        <4> QED BY <2>1, <3>1, <4>1 DEF CountsCurrent, FormatsCurrent
      <3>2. CASE i = Len(inbox) + 1
        <4>1. inbox'[i] = Request(c)
          BY <2>1, <2>6, <3>2
        <4> QED BY <2>1, <2>5, <4>1
      <3> QED BY <2>1, <2>6, <3>1, <3>2
    <2>8. OffTheBus'
      BY <2>1, LiveIsPlugged DEF OffTheBus
    <2> QED BY <2>1, <2>2, <2>3, <2>4, <2>7, <2>8, KeepsCounts DEF CountsCurrent
  <1>giveUp. CASE GiveUp(c)
    BY <1>giveUp, <1>returns DEF GiveUp
  <1>prime. CASE Prime(c)
    BY <1>prime, AdvanceKeeps DEF Prime, Replied
  <1>countKnown. CASE CountKnown(c)
    <2> DEFINE n == Reply(c).data.count
    <2>1. /\ queue[c] # <<>> /\ Pop(c) /\ n # UnknownCount
          /\ job[c] = "configure" => n = 0 \/ n = arg[c].confirmed
          /\ Goto(c, NextPhase(job[c], "count"), 1)
          /\ arg' = arg /\ UNCHANGED device
      BY <1>countKnown DEF CountKnown, Replied, Confirmed
    <2>2. RingShrinks(c)
      BY <1>types, <2>1, PopShrinks
    <2>3. Others(c)
      BY <1>types, <2>1, LinkOthers, GotoOthers DEF Others
    <2>4. ASSUME fd[c] = "live" PROVE store \in {0, n}
      <3>1. queue[c] \in Seq(Reports)
        BY <1>types DEF LinkOK
      <3>2. 1 \in 1..Len(queue[c]) /\ Reply(c) = queue[c][1]
        BY <2>1, <3>1 DEF Reply
      <3> QED BY <2>1, <2>4, <3>2 DEF CountsCurrent, CountsInFlight
    <2>5. phase'[c] = NextPhase(job[c], "count")
      BY <1>types, <2>1, GotoOthers
    <2>6. job[c] # "configure" => phase'[c] = "fields"
      BY <2>5 DEF NextPhase
    <2>7. StaysEntitled(c)
      BY <2>1, <2>4, <2>6 DEF StaysEntitled, Committed, Pop
    <2> QED BY <2>1, <2>2, <2>3, <2>7, KeepsAll DEF device
  <1>countRefused. CASE CountRefused(c)
    BY <1>countRefused, <1>returns DEF CountRefused
  <1>countRetry. CASE CountRetry(c)
    <2>1. RingShrinks(c) /\ Others(c)
      BY <1>countRetry, <1>types, NoCountShrinks, LinkOthers, GotoOthers
         DEF CountRetry, Others
    <2>2. phase'[c] = "count"
      BY <1>countRetry, <1>types, GotoOthers DEF CountRetry
    <2>3. StaysEntitled(c)
      BY <2>2 DEF StaysEntitled, Committed
    <2> QED BY <1>countRetry, <2>1, <2>3, KeepsAll DEF CountRetry, device
  <1>countUnknown. CASE CountUnknown(c)
    <2>1. RingShrinks(c) /\ Others(c)
      BY <1>countUnknown, <1>types, NoCountShrinks, LinkOthers, GotoOthers
         DEF CountUnknown, Others
    <2>2. phase'[c] = NextPhase(job[c], "count") /\ job[c] # "configure"
      BY <1>countUnknown, <1>types, GotoOthers DEF CountUnknown
    <2>3. StaysEntitled(c)
      BY <2>2 DEF StaysEntitled, Committed, NextPhase
    <2> QED BY <1>countUnknown, <2>1, <2>3, KeepsAll DEF CountUnknown, device
  <1>countMissing. CASE CountMissing(c)
    BY <1>countMissing, <1>returns DEF CountMissing
  <1>field. CASE Field(c)
    BY <1>field, AdvanceKeeps DEF Field, Replied
  <1>fieldSkipped. CASE FieldSkipped(c)
    BY <1>fieldSkipped, AdvanceKeeps DEF FieldSkipped
  <1>status. CASE Status(c)
    BY <1>status, AdvanceKeeps DEF Status, Replied, Table, Peeks
  <1>statusDone. CASE StatusDone(c)
    BY <1>statusDone, <1>returns DEF StatusDone, Finish
  <1>blockRead. CASE BlockRead(c)
    BY <1>blockRead, AdvanceKeeps DEF BlockRead, Replied
  <1>blockWritten. CASE BlockWritten(c)
    BY <1>blockWritten, AdvanceKeeps DEF BlockWritten, Replied
  <1>formatted. CASE Formatted(c)
    <2>1. Close(c) /\ Goto(c, "reopen", 1) /\ arg' = arg /\ UNCHANGED device
      BY <1>formatted DEF Formatted
    <2>2. RingShrinks(c) /\ StaysEntitled(c)
      BY <1>types, <2>1, CloseShrinks DEF StaysEntitled
    <2>3. Others(c)
      BY <1>types, <2>1, LinkOthers, GotoOthers DEF Others
    <2> QED BY <2>1, <2>2, <2>3, KeepsAll DEF device
  <1>reopen. CASE Reopen(c)
    <2>1. Open(c) /\ Goto(c, "prime", 1) /\ arg' = arg /\ UNCHANGED device
      BY <1>reopen DEF Reopen
    <2>2. RingShrinks(c)
      BY <1>types, <2>1, OpenShrinks
    <2>3. Others(c)
      BY <1>types, <2>1, LinkOthers, GotoOthers DEF Others
    <2>4. StaysEntitled(c)
      BY <1>types, <2>1, GotoOthers DEF StaysEntitled, Committed
    <2> QED BY <2>1, <2>2, <2>3, <2>4, KeepsAll DEF device
  <1>reopenFails. CASE ReopenFails(c)
    BY <1>reopenFails, <1>returns DEF ReopenFails
  <1>stopAnswered. CASE StopAnswered(c)
    BY <1>stopAnswered, <1>returns DEF StopAnswered
  <1>stopUnanswered. CASE StopUnanswered(c)
    BY <1>stopUnanswered, <1>returns DEF StopUnanswered
  <1>peeked. CASE Peeked(c)
    BY <1>peeked, <1>returns DEF Peeked
  <1> QED
    BY <1>begin, <1>refuse, <1>skip, <1>crash, <1>write, <1>giveUp, <1>prime,
       <1>countKnown, <1>countRefused, <1>countRetry, <1>countUnknown,
       <1>countMissing, <1>field, <1>fieldSkipped, <1>status, <1>statusDone,
       <1>blockRead, <1>blockWritten, <1>formatted, <1>reopen, <1>reopenFails,
       <1>stopAnswered, <1>stopUnanswered, <1>peeked
       DEF ClientStep, Progress

-----------------------------------------------------------------------------
(* Counts stay current: steps of the device *)

\* A report that carries no count, or the current one.
Honest(r) == r.data.count \in {UnknownCount, store}

\* An honest report keeps the counts on their way current, if the store stays or
\* is emptied.
LEMMA EmitCounts ==
  ASSUME LinkOK, CountsInFlight, NEW r \in Reports, Honest(r), Emit(r),
         store' \in {0, store}
  PROVE  CountsInFlight'
  <1>1. ASSUME NEW x \in Reports, Honest(x), queue' = Broadcast(fd, queue, x), fd' = fd
        PROVE  CountsInFlight'
    <2> SUFFICES ASSUME NEW c \in Clients, fd[c] = "live",
                        NEW i \in 1..Len(queue'[c]),
                        queue'[c][i].data.count # UnknownCount
                 PROVE  store' \in {0, queue'[c][i].data.count}
      BY <1>1 DEF CountsInFlight
    <2>1. queue'[c] = Buffered(queue[c], x) /\ queue[c] \in Seq(Reports)
      BY <1>1 DEF Broadcast, LinkOK
    <2> DEFINE b == Buffered(queue[c], x)
    <2>a. \A k \in 1..Len(b) : b[k] = x \/ (k \in 1..Len(queue[c]) /\ b[k] = queue[c][k])
      BY <2>1 DEF Buffered
    <2>b. i \in 1..Len(b) /\ queue'[c][i] = b[i]
      BY <2>1
    <2> HIDE DEF b
    <2>2. \/ queue'[c][i] = x
          \/ i \in 1..Len(queue[c]) /\ queue'[c][i] = queue[c][i]
      BY <2>a, <2>b
    <2>3. CASE queue'[c][i] = x
      BY <1>1, <2>3 DEF Honest
    <2>4. CASE i \in 1..Len(queue[c]) /\ queue'[c][i] = queue[c][i]
      BY <2>4 DEF CountsInFlight
    <2> QED BY <2>2, <2>3, <2>4
  <1>2. CASE UNCHANGED <<fd, queue>>
    BY <1>2 DEF CountsInFlight
  <1>3. Honest(Garbled)
    BY DEF Honest, Garbled, Blank
  <1> QED BY <1>1, <1>2, <1>3, GarbledType DEF Emit

\* What holds of all requests holds of those behind the oldest.
LEMMA OldestFormats ==
  ASSUME DeviceOK, FormatsCurrent, NEW o, Oldest(o), store' \in {0, store}
  PROVE  FormatsCurrent' /\ (o = "format" => store \in {0, Head(inbox).confirmed})
  <1>1. inbox \in Seq(Requests) /\ inbox # <<>> /\ inbox' = Tail(inbox)
    BY DEF DeviceOK, Oldest
  <1>2. \A i \in 1..Len(inbox') : i + 1 \in 1..Len(inbox) /\ inbox'[i] = inbox[i + 1]
    BY <1>1
  <1>3. 1 \in 1..Len(inbox) /\ Head(inbox) = inbox[1]
    BY <1>1
  <1> QED BY <1>2, <1>3 DEF FormatsCurrent, Oldest

\* A plugged device answers a request: nothing but the store, the rings and the
\* list of requests changes.
LEMMA AnswerKeeps ==
  ASSUME DeviceOK, LinkOK, CountsCurrent, NEW o, Oldest(o),
         NEW r \in Reports, Honest(r), Emit(r), store' \in {0, store},
         plugged' = plugged
  PROVE  CountsCurrent'
  <1>1. FormatsCurrent'
    BY OldestFormats DEF CountsCurrent
  <1>2. CountsInFlight'
    BY EmitCounts DEF CountsCurrent
  <1>3. UNCHANGED <<fd, phase, arg>>
    BY DEF Emit, session
  <1>4. SessionsCurrent'
    BY <1>3 DEF CountsCurrent, SessionsCurrent
  <1>5. plugged
    BY DEF Oldest, CountsCurrent, OffTheBus
  <1>6. OffTheBus'
    BY <1>5 DEF OffTheBus
  <1> QED BY <1>1, <1>2, <1>4, <1>6 DEF CountsCurrent

\* The device's memory carries the current count, 0xFF bytes none.
LEMMA MemoryIsHonest ==
  ASSUME NEW r, NEW off, NEW n, NEW ok
  PROVE  Honest(Report(r, off, n, ok, Memory)) /\ Honest(Report(r, off, n, ok, Blank))
  BY DEF Honest, Report, Memory, Blank

\* Each step of the device keeps the counts current.
LEMMA DeviceCounts ==
  ASSUME TypeOK, CountsCurrent, DeviceStep
  PROVE  CountsCurrent'
  <1> DEFINE r == Head(inbox)
  <1>types. DeviceOK /\ LinkOK
    BY TypeParts
  <1>request. ASSUME NEW o, Oldest(o) PROVE r \in Requests /\ r.off \in Nat /\ r.n \in Nat
    BY <1>request, <1>types, OldestType DEF Requests
  <1>get. CASE AnswerGet
    <2>1. r \in Requests /\ r.off \in Nat /\ r.n \in Nat /\ Oldest("get")
          /\ UNCHANGED <<plugged, store>>
      BY <1>get, <1>request DEF AnswerGet
    <2>2. CASE Emit(Report(r, r.off, r.n, TRUE, Memory))
      BY <1>types, <2>1, <2>2, ReportType, MemoryType, MemoryIsHonest, AnswerKeeps
    <2>3. CASE r.off >= 4 /\ Emit(Report(r, r.off - 4, r.n + 4, TRUE, Memory))
      <3>1. r.off - 4 \in Nat /\ r.n + 4 \in Nat
        BY <2>1, <2>3
      <3> QED BY <1>types, <2>1, <2>3, <3>1, ReportType, MemoryType, MemoryIsHonest,
                 AnswerKeeps
    <2>4. CASE Emit(Report(r, r.off, r.n, TRUE, Blank))
      BY <1>types, <2>1, <2>4, ReportType, BlankType, MemoryIsHonest, AnswerKeeps
    <2> QED BY <1>get, <2>2, <2>3, <2>4 DEF AnswerGet
  <1>read05. CASE AnswerRead05
    <2>1. r \in Requests /\ r.off \in Nat /\ r.n \in Nat /\ Oldest("read05")
          /\ UNCHANGED <<plugged, store>>
          /\ Emit(Report(r, r.off, r.n, TRUE, Blank))
      BY <1>read05, <1>request DEF AnswerRead05
    <2> QED BY <1>types, <2>1, ReportType, BlankType, MemoryIsHonest, AnswerKeeps
  <1>set. CASE AnswerSet
    <2>1. r \in Requests /\ r.off \in Nat /\ Oldest("set") /\ UNCHANGED <<plugged, store>>
      BY <1>set, <1>request DEF AnswerSet
    <2>2. PICK ok \in BOOLEAN : Emit(Report(r, r.off, 1, ok, Blank))
      BY <1>set DEF AnswerSet
    <2> QED BY <1>types, <2>1, <2>2, ReportType, BlankType, MemoryIsHonest, AnswerKeeps
  <1>format. CASE AnswerFormat
    <2>1. r \in Requests /\ Oldest("format") /\ plugged' = plugged /\ store' = 0
          /\ Emit(Report(r, 0, 1, TRUE, Blank))
      BY <1>format, <1>request DEF AnswerFormat
    <2> QED BY <1>types, <2>1, ReportType, BlankType, MemoryIsHonest, AnswerKeeps
  <1>pass. ASSUME inbox # <<>>, inbox' = Tail(inbox),
                  UNCHANGED <<plugged, store, fd, queue, phase, arg>>
           PROVE  CountsCurrent'
    <2>1. Oldest(r.op)
      BY <1>pass DEF Oldest
    <2>2. FormatsCurrent'
      BY <1>types, <1>pass, <2>1, OldestFormats DEF CountsCurrent
    <2>3. CountsInFlight' /\ SessionsCurrent'
      BY <1>pass DEF CountsCurrent, CountsInFlight, SessionsCurrent
    <2>4. plugged'
      BY <1>pass DEF CountsCurrent, OffTheBus
    <2> QED BY <2>2, <2>3, <2>4 DEF CountsCurrent, OffTheBus
  <1>stop. CASE AnswerStop
    <2>1. r \in Requests /\ Oldest("stop") /\ UNCHANGED <<plugged, store>>
      BY <1>stop, <1>request DEF AnswerStop
    <2>2. CASE Emit(Report(r, 0, 1, TRUE, Blank))
      BY <1>types, <2>1, <2>2, ReportType, BlankType, MemoryIsHonest, AnswerKeeps
    <2>3. CASE UNCHANGED <<fd, session, queue>>
      BY <1>pass, <2>1, <2>3 DEF Oldest, session
    <2> QED BY <1>stop, <2>2, <2>3 DEF AnswerStop
  <1>ignore. CASE Ignore
    BY <1>ignore, <1>pass DEF Ignore, link, session
  <1>unplug. CASE Unplug
    <2>1. inbox' = <<>> /\ \A c \in Clients : fd'[c] # "live"
      BY <1>unplug DEF Unplug
    <2> QED BY <2>1 DEF CountsCurrent, FormatsCurrent, CountsInFlight, SessionsCurrent,
                        OffTheBus
  <1>offBus. ASSUME ~plugged, UNCHANGED <<inbox, fd>> PROVE CountsCurrent'
    <2>1. inbox' = <<>> /\ \A c \in Clients : fd'[c] # "live"
      BY <1>offBus DEF CountsCurrent, OffTheBus
    <2> QED BY <2>1 DEF CountsCurrent, FormatsCurrent, CountsInFlight, SessionsCurrent,
                        OffTheBus
  <1>record. CASE Record
    BY <1>record, <1>offBus DEF Record, link
  <1>replug. CASE Replug
    BY <1>replug, <1>offBus DEF Replug, link
  <1> QED
    BY <1>get, <1>read05, <1>set, <1>format, <1>stop, <1>ignore, <1>unplug,
       <1>record, <1>replug DEF DeviceStep

-----------------------------------------------------------------------------
(* The theorems *)

\* The counts are current initially.
LEMMA InitCounts ==
  ASSUME Init PROVE CountsCurrent
  BY DEF Init, CountsCurrent, FormatsCurrent, CountsInFlight, SessionsCurrent, OffTheBus

\* Every step keeps them current.
LEMMA NextCounts ==
  ASSUME TypeOK, CountsCurrent, [Next]_vars PROVE CountsCurrent'
  <1>1. CASE DeviceStep
    BY <1>1, DeviceCounts
  <1>2. ASSUME NEW c \in Clients, ClientStep(c) PROVE CountsCurrent'
    BY <1>2, ClientCounts
  <1>3. CASE UNCHANGED vars
    BY <1>3 DEF vars, CountsCurrent, FormatsCurrent, CountsInFlight, SessionsCurrent,
                OffTheBus
  <1> QED BY <1>1, <1>2, <1>3 DEF Next

\* However calls run together: every format the device holds, every count on its
\* way and every session past Configure's check is about the records there are.
THEOREM CountsAlwaysCurrent == Spec => []CountsCurrent
  BY InitType, NextType, InitCounts, NextCounts, PTL DEF Spec

\* No step of a client takes records away.
LEMMA ClientErasesNothing ==
  ASSUME NEW c \in Clients, ClientStep(c) PROVE store' = store
  <1>1. ASSUME NEW o, Return(c, o) PROVE store' = store
    BY <1>1 DEF Return, device
  <1>2. CASE Begin(c) \/ Write(c) \/ Skip(c)
    BY <1>2 DEF Begin, Write, Skip, device
  <1>3. CASE Refuse(c) \/ Crash(c) \/ GiveUp(c) \/ CountRefused(c) \/ CountMissing(c)
             \/ StatusDone(c) \/ ReopenFails(c) \/ StopAnswered(c) \/ StopUnanswered(c)
             \/ Peeked(c)
    BY <1>1, <1>3 DEF Refuse, Crash, GiveUp, CountRefused, CountMissing, StatusDone,
                      Finish, ReopenFails, StopAnswered, StopUnanswered, Peeked
  <1>4. CASE Prime(c) \/ CountKnown(c) \/ CountRetry(c) \/ CountUnknown(c) \/ Field(c)
             \/ FieldSkipped(c) \/ Status(c) \/ BlockRead(c) \/ BlockWritten(c)
             \/ Formatted(c) \/ Reopen(c)
    BY <1>4 DEF Prime, CountKnown, CountRetry, CountUnknown, Field, FieldSkipped, Status,
                BlockRead, BlockWritten, Formatted, Reopen, device
  <1> QED BY <1>2, <1>3, <1>4 DEF ClientStep, Progress

\* A step that loses records handles a format that confirmed their number.
LEMMA EraseStep ==
  ASSUME TypeOK, CountsCurrent, [Next]_vars, store' < store
  PROVE  inbox # <<>> /\ Head(inbox).op = "format" /\ Head(inbox).confirmed = store
  <1>1. store \in Nat
    BY LoggerAssumption DEF TypeOK
  <1>2. store' # store
    BY <1>1
  <1>3. DeviceStep
    BY <1>2, ClientErasesNothing DEF Next, vars
  <1>a. ~AnswerGet /\ ~AnswerRead05 /\ ~AnswerSet
    BY <1>2 DEF AnswerGet, AnswerRead05, AnswerSet
  <1>b. ~AnswerStop /\ ~Ignore /\ ~Unplug /\ ~Replug
    BY <1>2 DEF AnswerStop, Ignore, Unplug, Replug
  <1>c. ~Record
    BY <1>1 DEF Record
  <1>4. AnswerFormat
    BY <1>3, <1>a, <1>b, <1>c DEF DeviceStep
  <1>5. Oldest("format") /\ store' = 0
    BY <1>4 DEF AnswerFormat
  <1>6. store \in {0, Head(inbox).confirmed}
    BY <1>5, OldestFormats, TypeParts DEF CountsCurrent
  <1> QED BY <1>1, <1>2, <1>5, <1>6 DEF Oldest

\* Records are only erased by the format of a Configure whose caller confirmed
\* exactly the number of records that are lost.
THEOREM ErasingIsConfirmed == Spec => EraseConfirmed
  <1>1. TypeOK /\ CountsCurrent /\ [Next]_vars =>
          [store' < store =>
              /\ inbox # <<>> /\ Head(inbox).op = "format"
              /\ Head(inbox).confirmed = store]_vars
    BY EraseStep
  <1> QED BY <1>1, TypeCorrect, CountsAlwaysCurrent, PTL DEF Spec, EraseConfirmed
-----------------------------------------------------------------------------
(* One caller, and what is on its way to it *)

\* Nobody else calls while a call runs, one caller after the other.
Alone == \A c, d \in Clients : c = d

\* The device holds one request besides the one it works on, and drain() empties
\* a ring of the reports of two.
Shallow == InboxMax <= 2 /\ 2 <= DrainMax

\* Reports and requests on their way to or for client c: first those in its ring,
\* then those in the device.
Length(c) == Len(queue[c]) + Len(inbox)

\* x is, or is answered by, a reply to prime()'s first read or to the count's.
Of(x, kind) ==
    \/ x.op = "garbled"
    \/ x.op = "get" /\ kind = "first" /\ x.off = 0 /\ x.n = 14
    \/ x.op = "get" /\ kind = "count" /\ x.off + x.n = \h4C /\ x.n <= 52

\* From the from-th to the short-before-last, all on the way is of the kind.
Span(c, from, short, kind) ==
    /\ \A i \in 1..Len(queue[c]) :
           from <= i /\ i <= Length(c) - short => Of(queue[c][i], kind)
    /\ \A i \in 1..Len(inbox) :
           from <= Len(queue[c]) + i /\ i <= Len(inbox) - short => Of(inbox[i], kind)

\* How much of what is on the way the exchange c is at has asked for.
Own(c) == IF waiting[c] THEN 1 ELSE 0

\* No ring outlives its file; past prime() nothing of earlier calls is on the way,
\* but for tries of the count, and in Stop nothing but the answer it waits for.
StreamOK(c) ==
    /\ Len(inbox) <= InboxMax
    /\ phase[c] \in {"idle", "reopen"} => fd[c] = "closed" /\ queue[c] = <<>>
    /\ phase[c] = "prime" /\ idx[c] = 1 =>
           Length(c) <= 2 /\ (waiting[c] => Span(c, 2, 0, "first"))
    /\ phase[c] = "prime" /\ idx[c] = 2 =>
           Length(c) <= 1 + Own(c) /\ Span(c, 1, Own(c), "first")
    /\ phase[c] = "count" => Length(c) <= 2 /\ Span(c, 1, 0, "count")
    /\ phase[c] = "stop" => Length(c) <= Own(c)

\* The phases of a job, the second half of Configure being a job of its own.
PhasesOf(j) ==
    CASE j = "none"      -> {"idle"}
      [] j = "stop"      -> {"prime", "stop"}
      [] j = "configure" -> {"prime", "count", "read", "write", "format", "reopen"}
      [] j \in Peeks     -> {"prime", j}
      [] OTHER           -> {"prime", "count", "fields", "status"}

\* A call is at a phase of its job, and has no result before it returns.
JobOK(c) ==
    /\ phase[c] \in PhasesOf(job[c])
    /\ job[c] # "none" => result[c] = "none"
    /\ job[c] \in {"configure", "verify"} =>
           arg[c].set \in Settings /\ ValidInterval(arg[c].set.interval)

\* Stop waits for its own answer.
StopOK(c) ==
    phase[c] = "stop" /\ waiting[c] =>
        /\ \A i \in 1..Len(inbox) : inbox[i].op = "stop"
        /\ queue[c] # <<>> => stopped

CallerOK == \A c \in Clients : StreamOK(c) /\ JobOK(c) /\ StopOK(c)

\* Past a first block nothing but the answer of the exchange is on the way.
BlockStream(c) ==
    /\ phase[c] = "read" /\ idx[c] = 1 =>
           Length(c) <= 1 + Own(c) /\ Span(c, 1, Own(c), "count")
    /\ phase[c] \in {"write", "format"} \/ (phase[c] = "read" /\ idx[c] > 1) =>
           Length(c) <= Own(c)

\* The blocks before the k-th carry the caller's settings.
Wrote(c, k) ==
    \A i \in 1..k - 1 :
        LET b == ConfigBlocks[i]
        IN  /\ Covers(b.off, b.written, \h4C, 2) => live.interval = arg[c].set.interval
            /\ Covers(b.off, b.written, \h20, 1) => live.start = arg[c].set.start

\* Configure has written the blocks it has passed, and waits for its own answer.
BlocksOK(c) ==
    /\ fd[c] = "live" /\ phase[c] = "write" =>
           /\ Wrote(c, idx[c])
           /\ waiting[c] =>
                 /\ \A i \in 1..Len(inbox) : inbox[i] = Request(c)
                 /\ \A i \in 1..Len(queue[c]) :
                       queue[c][i].op = "set" /\ queue[c][i].ok => Wrote(c, idx[c] + 1)
    /\ fd[c] = "live" /\ phase[c] = "format" /\ ~waiting[c] => live = arg[c].set

\* The logger does what it acknowledges.
Obeys == "forget" \notin Faults

\* A format is handled first, by a device that has the settings it is meant for.
FormatsWhole ==
    \A i \in 1..Len(inbox) :
        inbox[i].op = "format" =>
            /\ i = 1
            /\ Obeys => inbox[i].set = live
            /\ inbox[i].set \in Settings /\ ValidInterval(inbox[i].set.interval)

WholeOK == FormatsWhole /\ \A c \in Clients : BlockStream(c) /\ (Obeys => BlocksOK(c))

-----------------------------------------------------------------------------
(* One caller: the ways things move *)

\* Report x answers request r, or is damaged on the way.
Echo(r, x) ==
    \/ x.op = "garbled"
    \/ /\ x.op = r.op
       /\ r.op = "get" =>
             \/ x.off = r.off /\ x.n = r.n
             \/ r.off >= 4 /\ r.n + 4 <= 52 /\ x.off = r.off - 4 /\ x.n = r.n + 4

\* The oldest request is handled, and answered or not.
Handled(c) ==
    /\ inbox # <<>> /\ inbox' = Tail(inbox)
    /\ \/ queue'[c] = queue[c]
       \/ /\ fd[c] = "live"
          /\ \E x \in Reports : Echo(Head(inbox), x) /\ queue'[c] = Append(queue[c], x)

\* An answer is of the kind of its request.
LEMMA EchoOf ==
  ASSUME NEW r \in Requests, NEW x \in Reports, NEW kind, Echo(r, x), Of(r, kind)
  PROVE  Of(x, kind)
  BY DEF Requests, Reports, Ops, Echo, Of

\* However a report fares, a ring gets it, or a damaged one, or nothing.
LEMMA EmitHandled ==
  ASSUME LinkOK, NEW c \in Clients, NEW o, Oldest(o), NEW r \in Reports, Emit(r),
         Echo(Head(inbox), r)
  PROVE  Handled(c) /\ UNCHANGED <<fd, session>>
  <1>1. ASSUME NEW x \in Reports, Echo(Head(inbox), x), queue' = Broadcast(fd, queue, x)
        PROVE  Handled(c)
    <2>1. queue'[c] = IF fd[c] = "live" THEN Buffered(queue[c], x) ELSE queue[c]
      BY <1>1 DEF Broadcast, LinkOK
    <2> QED BY <1>1, <2>1 DEF Handled, Oldest, Buffered
  <1>2. ASSUME UNCHANGED queue PROVE Handled(c)
    BY <1>2 DEF Handled, Oldest
  <1>3. Echo(Head(inbox), Garbled)
    BY DEF Echo, Garbled
  <1>4. Handled(c)
    BY <1>1, <1>2, <1>3, GarbledType DEF Emit
  <1> QED BY <1>4 DEF Emit

\* A device step handles a request, forgets all of them, or touches none.
LEMMA DeviceMoves ==
  ASSUME TypeOK, NEW c \in Clients, DeviceStep
  PROVE  /\ UNCHANGED session
         /\ fd'[c] = "live" => fd[c] = "live"
         /\ fd[c] = "closed" => fd'[c] = "closed"
         /\ \/ Handled(c)
            \/ inbox' \in {<<>>, inbox} /\ queue' = queue
  <1> DEFINE r == Head(inbox)
  <1>types. DeviceOK /\ LinkOK
    BY TypeParts
  <1>request. ASSUME NEW o, Oldest(o) PROVE r \in Requests /\ r.off \in Nat /\ r.n \in Nat
    BY <1>request, <1>types, OldestType DEF Requests
  <1>emit. ASSUME NEW o, Oldest(o), NEW x \in Reports, Emit(x), Echo(r, x)
           PROVE  Handled(c) /\ UNCHANGED <<fd, session>>
    BY <1>emit, <1>types, EmitHandled
  <1>get. CASE AnswerGet
    <2>1. r \in Requests /\ r.off \in Nat /\ r.n \in Nat /\ Oldest("get") /\ r.op = "get"
      BY <1>get, <1>request DEF AnswerGet, Oldest
    <2>2. CASE Emit(Report(r, r.off, r.n, TRUE, Memory))
      <3>1. Report(r, r.off, r.n, TRUE, Memory) \in Reports
        BY <1>types, <2>1, ReportType, MemoryType
      <3>2. Echo(r, Report(r, r.off, r.n, TRUE, Memory))
        BY DEF Echo, Report
      <3> QED BY <1>emit, <2>1, <2>2, <3>1, <3>2
    <2>3. CASE /\ r.off >= 4 /\ r.n + 4 <= 52
               /\ Emit(Report(r, r.off - 4, r.n + 4, TRUE, Memory))
      <3>1. r.off - 4 \in Nat /\ r.n + 4 \in Nat
        BY <2>1, <2>3
      <3>2. Report(r, r.off - 4, r.n + 4, TRUE, Memory) \in Reports
        BY <1>types, <2>1, <3>1, ReportType, MemoryType
      <3>3. Echo(r, Report(r, r.off - 4, r.n + 4, TRUE, Memory))
        BY <2>3 DEF Echo, Report
      <3> QED BY <1>emit, <2>1, <2>3, <3>2, <3>3
    <2>4. CASE Emit(Report(r, r.off, r.n, TRUE, Blank))
      <3>1. Report(r, r.off, r.n, TRUE, Blank) \in Reports
        BY <2>1, ReportType, BlankType
      <3>2. Echo(r, Report(r, r.off, r.n, TRUE, Blank))
        BY DEF Echo, Report
      <3> QED BY <1>emit, <2>1, <2>4, <3>1, <3>2
    <2> QED BY <1>get, <2>2, <2>3, <2>4 DEF AnswerGet
  <1>other. ASSUME NEW o, Oldest(o), o # "get", NEW off \in Nat, NEW n \in Nat,
                   NEW ok \in BOOLEAN, Emit(Report(r, off, n, ok, Blank))
            PROVE  Handled(c) /\ UNCHANGED <<fd, session>>
    <2>1. r \in Requests
      BY <1>other, <1>request
    <2>2. Report(r, off, n, ok, Blank) \in Reports
      BY <1>other, <2>1, ReportType, BlankType
    <2>3. Echo(r, Report(r, off, n, ok, Blank))
      BY <1>other DEF Echo, Report, Oldest
    <2> QED BY <1>emit, <1>other, <2>2, <2>3
  <1>read05. CASE AnswerRead05
    BY <1>read05, <1>other, <1>request DEF AnswerRead05
  <1>set. CASE AnswerSet
    BY <1>set, <1>other, <1>request DEF AnswerSet
  <1>format. CASE AnswerFormat
    BY <1>format, <1>other, <1>request DEF AnswerFormat
  <1>silent. ASSUME inbox # <<>>, inbox' = Tail(inbox), UNCHANGED <<fd, queue, session>>
             PROVE  Handled(c) /\ UNCHANGED <<fd, session>>
    BY <1>silent DEF Handled
  <1>stop. CASE AnswerStop
    <2>1. CASE Emit(Report(r, 0, 1, TRUE, Blank))
      BY <1>stop, <2>1, <1>other DEF AnswerStop
    <2>2. CASE UNCHANGED <<fd, session, queue>>
      BY <1>stop, <2>2, <1>silent DEF AnswerStop, Oldest
    <2> QED BY <1>stop, <2>1, <2>2 DEF AnswerStop
  <1>ignore. CASE Ignore
    BY <1>ignore, <1>silent DEF Ignore, link
  <1>unplug. CASE Unplug
    <2>1. fd'[c] = IF fd[c] = "live" THEN "dead" ELSE fd[c]
      BY <1>unplug DEF Unplug
    <2> QED BY <1>unplug, <2>1 DEF Unplug
  <1>rest. CASE Record \/ Replug
    BY <1>rest DEF Record, Replug, link
  <1> QED
    BY <1>get, <1>read05, <1>set, <1>format, <1>stop, <1>ignore, <1>unplug, <1>rest
       DEF DeviceStep

-----------------------------------------------------------------------------
(* One caller: what is on the way *)

\* Lengths are numbers.
LEMMA LengthType ==
  ASSUME DeviceOK, LinkOK, NEW c \in Clients
  PROVE  /\ Len(queue[c]) \in Nat /\ Len(inbox) \in Nat /\ Length(c) \in Nat
         /\ Length(c) = Len(queue[c]) + Len(inbox)
         /\ queue[c] \in Seq(Reports) /\ inbox \in Seq(Requests)
  BY DEF DeviceOK, LinkOK, Length

\* Nothing is of every kind.
LEMMA EmptySpan ==
  ASSUME DeviceOK, LinkOK, NEW c \in Clients, NEW from, NEW short, NEW kind,
         Length(c) = 0
  PROVE  Span(c, from, short, kind)
  <1>1. Len(queue[c]) = 0 /\ Len(inbox) = 0
    BY LengthType
  <1> QED BY <1>1 DEF Span

\* Handling a request puts its answer in its place, or closes the gap.
LEMMA HandledSpan ==
  ASSUME TypeOK, NEW c \in Clients, Handled(c), NEW from \in 1..2, NEW short \in 0..1,
         NEW kind, Span(c, from, short, kind)
  PROVE  Span(c, from, short, kind)' /\ Length(c)' <= Length(c)
  <1> DEFINE q == queue[c]  m == Len(q)  n == Len(inbox)
  <1>0. q \in Seq(Reports) /\ inbox \in Seq(Requests) /\ m \in Nat /\ n \in Nat
        /\ inbox # <<>> /\ n >= 1 /\ Length(c) = m + n
    BY DEF TypeOK, Handled, Length
  <1>1. /\ Len(inbox') = n - 1
        /\ \A i \in 1..Len(inbox') : i + 1 \in 1..n /\ inbox'[i] = inbox[i + 1]
        /\ Head(inbox) = inbox[1] /\ 1 \in 1..n
    <2>1. inbox' = Tail(inbox)
      BY DEF Handled
    <2> QED BY <1>0, <2>1, TailAt
  <1>2. CASE queue'[c] = q
    <2>1. Length(c)' = m + n - 1
      BY <1>0, <1>1, <1>2 DEF Length
    <2>2. \A i \in 1..Len(queue'[c]) :
              from <= i /\ i <= Length(c)' - short => Of(queue'[c][i], kind)
      BY <1>0, <1>2, <2>1 DEF Span
    <2>3. \A i \in 1..Len(inbox') :
              from <= Len(queue'[c]) + i /\ i <= Len(inbox') - short => Of(inbox'[i], kind)
      <3> SUFFICES ASSUME NEW i \in 1..Len(inbox'), from <= m + i, i <= n - 1 - short
                   PROVE  Of(inbox'[i], kind)
        BY <1>1, <1>2
      <3>1. i + 1 \in 1..n /\ inbox'[i] = inbox[i + 1] /\ i \in Nat
        BY <1>0, <1>1
      <3>2. m \in Nat /\ n \in Nat /\ i \in Nat /\ from \in Nat /\ short \in Nat
        BY <1>0, <3>1
      <3> HIDE DEF m, n
      <3>3. from <= m + (i + 1) /\ i + 1 <= n - short
        BY <3>2
      <3> QED BY <3>1, <3>3 DEF Span, m, n
    <2> QED BY <1>0, <2>1, <2>2, <2>3 DEF Span
  <1>3. CASE \E x \in Reports : Echo(Head(inbox), x) /\ queue'[c] = Append(q, x)
    <2>1. PICK x \in Reports : Echo(Head(inbox), x) /\ queue'[c] = Append(q, x)
      BY <1>3
    <2>2. Len(queue'[c]) = m + 1 /\ Length(c)' = m + n
      BY <1>0, <1>1, <2>1 DEF Length
    <2>3. \A i \in 1..Len(queue'[c]) :
              from <= i /\ i <= Length(c)' - short => Of(queue'[c][i], kind)
      <3> SUFFICES ASSUME NEW i \in 1..(m + 1), from <= i, i <= m + n - short
                   PROVE  Of(queue'[c][i], kind)
        BY <2>2
      <3>1. CASE i <= m
        <4>1. i \in 1..m /\ queue'[c][i] = q[i]
          BY <1>0, <2>1, <3>1
        <4> QED BY <1>0, <4>1 DEF Span
      <3>2. CASE i = m + 1
        <4>1. queue'[c][i] = x
          BY <1>0, <2>1, <3>2
        <4>2. from <= m + 1 /\ 1 <= n - short
          BY <1>0, <3>2
        <4>3. Of(inbox[1], kind)
          BY <1>1, <4>2 DEF Span
        <4>4. inbox[1] \in Requests
          BY <1>0, <1>1
        <4> QED BY <1>1, <2>1, <4>1, <4>3, <4>4, EchoOf
      <3> QED BY <1>0, <3>1, <3>2
    <2>4. \A i \in 1..Len(inbox') :
              from <= Len(queue'[c]) + i /\ i <= Len(inbox') - short => Of(inbox'[i], kind)
      <3> SUFFICES ASSUME NEW i \in 1..Len(inbox'), from <= m + 1 + i, i <= n - 1 - short
                   PROVE  Of(inbox'[i], kind)
        BY <1>1, <2>2
      <3>1. i + 1 \in 1..n /\ inbox'[i] = inbox[i + 1] /\ i \in Nat
        BY <1>0, <1>1
      <3>2. m \in Nat /\ n \in Nat /\ i \in Nat /\ from \in Nat /\ short \in Nat
        BY <1>0, <3>1
      <3> HIDE DEF m, n
      <3>3. from <= m + (i + 1) /\ i + 1 <= n - short
        BY <3>2
      <3> QED BY <3>1, <3>3 DEF Span, m, n
    <2> QED BY <1>0, <2>2, <2>3, <2>4 DEF Span
  <1> QED BY <1>2, <1>3 DEF Handled

\* Lengths under a request that is handled.
LEMMA HandledLength ==
  ASSUME TypeOK, NEW c \in Clients, Handled(c)
  PROVE  /\ Length(c)' <= Length(c) /\ Length(c)' \in Nat
         /\ Len(inbox') = Len(inbox) - 1 /\ Len(inbox) >= 1
         /\ queue'[c] # queue[c] => Length(c)' = Length(c)
  <1>0. /\ queue[c] \in Seq(Reports) /\ inbox \in Seq(Requests)
        /\ inbox # <<>> /\ inbox' = Tail(inbox)
    BY DEF TypeOK, Handled
  <1>1. Len(inbox') = Len(inbox) - 1 /\ Len(inbox) \in Nat /\ Len(inbox) >= 1
        /\ Len(queue[c]) \in Nat
    BY <1>0
  <1>2. CASE queue'[c] = queue[c]
    BY <1>1, <1>2 DEF Length
  <1>3. CASE \E x \in Reports : queue'[c] = Append(queue[c], x)
    <2>1. Len(queue'[c]) = Len(queue[c]) + 1
      BY <1>0, <1>3
    <2> QED BY <1>1, <2>1 DEF Length
  <1> QED BY <1>2, <1>3 DEF Handled

\* Forgotten requests leave the rest.
LEMMA ForgottenSpan ==
  ASSUME TypeOK, NEW c \in Clients, inbox' \in {<<>>, inbox}, queue' = queue
  PROVE  /\ Length(c)' <= Length(c) /\ Length(c)' \in Nat /\ Len(inbox') <= Len(inbox)
         /\ \A from \in 1..2, short \in 0..1, kind \in {"first", "count"} :
                Span(c, from, short, kind) => Span(c, from, short, kind)'
  <1>0. queue[c] \in Seq(Reports) /\ inbox \in Seq(Requests)
    BY DEF TypeOK
  <1>1. CASE inbox' = inbox
    <2>1. Length(c)' = Length(c)
      BY <1>1 DEF Length
    <2>2. \A from \in 1..2, short \in 0..1, kind \in {"first", "count"} :
              Span(c, from, short, kind) => Span(c, from, short, kind)'
      BY <1>1, <2>1 DEF Span
    <2>3. Length(c) \in Nat /\ Len(inbox) \in Nat
      BY <1>0 DEF Length
    <2> QED BY <1>1, <2>1, <2>2, <2>3
  <1>2. CASE inbox' = <<>>
    <2>1. Len(inbox') = 0 /\ Length(c)' = Len(queue[c]) /\ Length(c) = Len(queue[c]) + Len(inbox)
      BY <1>0, <1>2 DEF Length
    <2>2. Len(queue[c]) \in Nat /\ Len(inbox) \in Nat
      BY <1>0
    <2>3. ASSUME NEW from \in 1..2, NEW short \in 0..1, NEW kind, Span(c, from, short, kind)
          PROVE  Span(c, from, short, kind)'
      <3> USE <2>1, <2>2
      <3>1. \A i \in 1..Len(queue'[c]) :
                from <= i /\ i <= Length(c)' - short => Of(queue'[c][i], kind)
        BY <2>3 DEF Span
      <3>2. 1..Len(inbox') = {}
        OBVIOUS
      <3> QED BY <3>1, <3>2 DEF Span
    <2> QED BY <2>1, <2>2, <2>3
  <1> QED BY <1>1, <1>2

\* Taking a report leaves what was behind it.
LEMMA PopSpan ==
  ASSUME TypeOK, NEW c \in Clients, queue[c] # <<>>, Pop(c), inbox' = inbox
  PROVE  /\ Length(c)' = Length(c) - 1 /\ Length(c) >= 1
         /\ \A from \in 1..2, short \in 0..1, kind \in {"first", "count"} :
                Span(c, from, short, kind) => Span(c, 1, short, kind)'
         /\ \A kind \in {"first", "count"} :
                Span(c, 1, 1, kind) /\ Length(c) > 1 => Of(Reply(c), kind)
  <1> DEFINE q == queue[c]  m == Len(q)  n == Len(inbox)
  <1>0. q \in Seq(Reports) /\ inbox \in Seq(Requests) /\ m \in Nat /\ n \in Nat /\ m >= 1
        /\ Length(c) = m + n
    BY DEF TypeOK, Length
  <1>1. queue'[c] = Tail(q)
    BY DEF TypeOK, Pop
  <1>2. /\ Len(queue'[c]) = m - 1
        /\ \A i \in 1..Len(queue'[c]) : i + 1 \in 1..m /\ queue'[c][i] = q[i + 1]
        /\ Reply(c) = q[1] /\ 1 \in 1..m
    BY <1>0, <1>1, TailAt DEF Reply
  <1>3. Length(c)' = m + n - 1
    BY <1>0, <1>2 DEF Length
  <1>4. ASSUME NEW from \in 1..2, NEW short \in 0..1, NEW kind, Span(c, from, short, kind)
        PROVE  Span(c, 1, short, kind)'
    <2>1. ASSUME NEW i \in 1..Len(queue'[c]), i <= Length(c)' - short
          PROVE  Of(queue'[c][i], kind)
      <3>1. i + 1 \in 1..m /\ queue'[c][i] = q[i + 1] /\ i \in Nat
        BY <1>0, <1>2
      <3>2. from <= i + 1 /\ i + 1 <= Length(c) - short
        BY <1>0, <1>3, <2>1, <3>1
      <3> QED BY <1>4, <3>1, <3>2 DEF Span
    <2>2. ASSUME NEW i \in 1..n, i <= n - short PROVE Of(inbox[i], kind)
      <3>1. from <= m + i
        BY <1>0
      <3> QED BY <1>4, <2>2, <3>1 DEF Span
    <2> QED BY <1>0, <2>1, <2>2 DEF Span
  <1>5. ASSUME NEW kind, Span(c, 1, 1, kind), Length(c) > 1 PROVE Of(Reply(c), kind)
    BY <1>0, <1>2, <1>5 DEF Span
  <1> QED BY <1>0, <1>3, <1>4, <1>5

\* drain() empties a ring of two.
LEMMA DrainedShallow ==
  ASSUME Shallow, NEW q \in Seq(Reports), Len(q) <= 2
  PROVE  Drained(q) = <<>>
  BY HidrawAssumption DEF Shallow, Drained

\* A request is written behind what the device holds.
LEMMA WriteSpan ==
  ASSUME TypeOK, Shallow, NEW c \in Clients, Write(c), Length(c) <= 2
  PROVE  /\ Len(inbox') <= InboxMax /\ Length(c)' <= 2 /\ queue'[c] = <<>>
         /\ Length(c)' <= Length(c) + 1
         /\ \A kind \in {"first", "count"} :
              /\ Span(c, 1, 0, kind) => Span(c, 1, 1, kind)'
              /\ Of(Request(c), kind) => Span(c, 2, 0, kind)'
              /\ Of(Request(c), kind) /\ Span(c, 1, 0, kind) => Span(c, 1, 0, kind)'
  <1> DEFINE n == Len(inbox)
  <1>0. queue[c] \in Seq(Reports) /\ inbox \in Seq(Requests) /\ n \in Nat
        /\ Len(queue[c]) \in Nat /\ Length(c) = Len(queue[c]) + n
    BY DEF TypeOK, Length
  <1>1. Request(c) \in Requests
    BY TypeParts, RequestType DEF Write
  <1>2. queue'[c] = <<>> /\ Len(queue'[c]) = 0
    <2>1. queue'[c] = Drained(queue[c]) /\ Len(queue[c]) <= 2
      BY <1>0 DEF Write, TypeOK
    <2> QED BY <1>0, <2>1, DrainedShallow
  <1>3. n < InboxMax /\ InboxMax <= 2 /\ inbox' = Append(inbox, Request(c))
    BY DEF Write, CanWrite, Shallow
  <1>4. InboxMax \in Nat
    BY LoggerAssumption
  <1>5. /\ Len(inbox') = n + 1
        /\ \A i \in 1..Len(inbox') :
              \/ i \in 1..n /\ inbox'[i] = inbox[i]
              \/ i = n + 1 /\ inbox'[i] = Request(c)
    BY <1>0, <1>1, <1>3, AppendAt
  <1>6. Length(c)' = n + 1 /\ n + 1 <= 2
    BY <1>0, <1>2, <1>3, <1>4, <1>5 DEF Length
  <1>7. ASSUME NEW kind, Span(c, 1, 0, kind) PROVE \A i \in 1..n : Of(inbox[i], kind)
    BY <1>0, <1>7 DEF Span
  <1>8. 1..Len(queue'[c]) = {}
    BY <1>2
  <1>9. ASSUME NEW kind, Span(c, 1, 0, kind) PROVE Span(c, 1, 1, kind)'
    <2>1. \A i \in 1..Len(inbox') : i <= Len(inbox') - 1 => Of(inbox'[i], kind)
      BY <1>0, <1>5, <1>7, <1>9
    <2> QED BY <1>8, <2>1 DEF Span
  <1>10. ASSUME NEW kind, Of(Request(c), kind) PROVE Span(c, 2, 0, kind)'
    <2>1. \A i \in 1..Len(inbox') : 2 <= 0 + i => Of(inbox'[i], kind)
      BY <1>0, <1>5, <1>6, <1>10
    <2> QED BY <1>2, <1>8, <2>1 DEF Span
  <1>11. ASSUME NEW kind, Of(Request(c), kind), Span(c, 1, 0, kind)
         PROVE  Span(c, 1, 0, kind)'
    <2>1. \A i \in 1..Len(inbox') : Of(inbox'[i], kind)
      BY <1>5, <1>7, <1>11
    <2> QED BY <1>8, <2>1 DEF Span
  <1> QED BY <1>0, <1>2, <1>3, <1>4, <1>5, <1>6, <1>9, <1>10, <1>11

-----------------------------------------------------------------------------
(* One caller: streams under the steps of the device *)

\* A stop command is obeyed when it is answered; obeyed is obeyed.
LEMMA StopObeyed ==
  ASSUME DeviceStep
  PROVE  /\ stopped => stopped'
         /\ inbox # <<>> /\ Head(inbox).op = "stop" /\ queue' # queue => stopped'
  <1>1. ASSUME NEW o, Oldest(o), o # "stop", stopped' = stopped
        PROVE  /\ stopped => stopped'
               /\ inbox # <<>> /\ Head(inbox).op = "stop" /\ queue' # queue => stopped'
    BY <1>1 DEF Oldest
  <1>2. CASE AnswerStop
    BY <1>2 DEF AnswerStop
  <1>3. CASE Ignore \/ Unplug \/ Record \/ Replug
    BY <1>3 DEF Ignore, Unplug, Record, Replug, link
  <1>4. CASE AnswerGet
    BY <1>1, <1>4 DEF AnswerGet
  <1>5. CASE AnswerRead05
    BY <1>1, <1>5 DEF AnswerRead05
  <1>6. CASE AnswerSet
    BY <1>1, <1>6 DEF AnswerSet
  <1>7. CASE AnswerFormat
    BY <1>1, <1>7 DEF AnswerFormat
  <1> QED BY <1>2, <1>3, <1>4, <1>5, <1>6, <1>7 DEF DeviceStep

\* What the device does to a stream keeps its bounds and its kinds.
LEMMA DeviceSpan ==
  ASSUME TypeOK, NEW c \in Clients, DeviceStep
  PROVE  /\ Length(c)' <= Length(c) /\ Length(c)' \in Nat /\ Length(c) \in Nat
         /\ Len(inbox') <= Len(inbox) /\ Len(inbox') \in Nat /\ Len(inbox) \in Nat
         /\ \A from \in 1..2, short \in 0..1, kind \in {"first", "count"} :
                Span(c, from, short, kind) => Span(c, from, short, kind)'
  <1>0. DeviceOK /\ LinkOK
    BY TypeParts
  <1>1. Len(inbox) \in Nat /\ Length(c) \in Nat
    BY <1>0, LengthType
  <1>2. CASE Handled(c)
    <2>1. Len(inbox') = Len(inbox) - 1 /\ Len(inbox) >= 1
      BY <1>2, HandledLength
    <2>2. Length(c)' <= Length(c) /\ Length(c)' \in Nat
      BY <1>2, HandledLength
    <2>3. \A from \in 1..2, short \in 0..1, kind \in {"first", "count"} :
              Span(c, from, short, kind) => Span(c, from, short, kind)'
      BY <1>2, HandledSpan
    <2>4. Len(inbox') <= Len(inbox) /\ Len(inbox') \in Nat
      BY <1>1, <2>1
    <2> QED BY <1>1, <2>2, <2>3, <2>4
  <1>3. CASE inbox' \in {<<>>, inbox} /\ queue' = queue
    <2>1. Len(inbox') \in Nat
      BY <1>1, <1>3
    <2> QED BY <1>1, <1>3, <2>1, ForgottenSpan
  <1> QED BY <1>2, <1>3, DeviceMoves

\* Each step of the device keeps what a caller relies on.
LEMMA DeviceCaller ==
  ASSUME TypeOK, CallerOK, DeviceStep
  PROVE  CallerOK'
  <1>types. DeviceOK /\ LinkOK
    BY TypeParts
  <1> SUFFICES ASSUME NEW c \in Clients
               PROVE  StreamOK(c)' /\ JobOK(c)' /\ StopOK(c)'
    BY DEF CallerOK
  <1>0. /\ StreamOK(c) /\ JobOK(c) /\ StopOK(c) /\ Len(inbox) <= InboxMax
        /\ InboxMax \in Nat
    BY LoggerAssumption DEF CallerOK, StreamOK
  <1>1. UNCHANGED <<phase, idx, waiting, job, arg, result>> /\ Own(c)' = Own(c)
    BY DeviceMoves DEF session, Own
  <1>2. /\ Length(c)' <= Length(c) /\ Length(c)' \in Nat /\ Length(c) \in Nat
        /\ Len(inbox') <= Len(inbox) /\ Len(inbox') \in Nat /\ Len(inbox) \in Nat
    BY DeviceSpan
  <1>3. \A from \in 1..2, short \in 0..1, kind \in {"first", "count"} :
            Span(c, from, short, kind) => Span(c, from, short, kind)'
    BY DeviceSpan
  <1>4. Len(inbox') <= InboxMax
    BY <1>0, <1>2
  <1>5. Own(c) \in 0..1
    BY DEF Own
  <1>6. fd[c] = "closed" /\ queue[c] = <<>> => fd'[c] = "closed" /\ queue'[c] = <<>>
    BY DeviceMoves DEF Handled
  <1>7. StreamOK(c)'
    <2>1. phase[c] \in {"idle", "reopen"} => fd'[c] = "closed" /\ queue'[c] = <<>>
      BY <1>0, <1>6 DEF StreamOK
    <2>2. phase[c] = "prime" /\ idx[c] = 1 =>
              Length(c)' <= 2 /\ (waiting[c] => Span(c, 2, 0, "first")')
      BY <1>0, <1>2, <1>3 DEF StreamOK
    <2>3. phase[c] = "prime" /\ idx[c] = 2 =>
              Length(c)' <= 1 + Own(c) /\ (Own(c) = 1 => Span(c, 1, 1, "first")')
              /\ (Own(c) = 0 => Span(c, 1, 0, "first")')
      BY <1>0, <1>2, <1>3, <1>5 DEF StreamOK
    <2>4. phase[c] = "count" => Length(c)' <= 2 /\ Span(c, 1, 0, "count")'
      BY <1>0, <1>2, <1>3 DEF StreamOK
    <2>5. phase[c] = "stop" => Length(c)' <= Own(c)
      BY <1>0, <1>2, <1>5 DEF StreamOK
    <2>6. phase[c] = "prime" /\ idx[c] = 2 => Span(c, 1, Own(c), "first")'
      <3>1. CASE Own(c) = 1
        BY <1>1, <2>3, <3>1 DEF Span
      <3>2. CASE Own(c) = 0
        BY <1>1, <2>3, <3>2 DEF Span
      <3> QED BY <1>5, <3>1, <3>2
    <2> QED BY <1>1, <1>4, <2>1, <2>2, <2>3, <2>4, <2>5, <2>6 DEF StreamOK
  <1>8. JobOK(c)'
    BY <1>0, <1>1 DEF JobOK
  <1>9. StopOK(c)'
    <2> SUFFICES ASSUME phase[c] = "stop", waiting[c]
                 PROVE  /\ \A i \in 1..Len(inbox') : inbox'[i].op = "stop"
                        /\ queue'[c] # <<>> => stopped'
      BY <1>1 DEF StopOK
    <2>1. /\ \A i \in 1..Len(inbox) : inbox[i].op = "stop"
          /\ queue[c] # <<>> => stopped
          /\ inbox \in Seq(Requests)
      BY <1>0 DEF StopOK, TypeOK
    <2>2. CASE Handled(c)
      <3>1. inbox # <<>> /\ inbox' = Tail(inbox)
        BY <2>2 DEF Handled
      <3>2. \A i \in 1..Len(inbox') : i + 1 \in 1..Len(inbox) /\ inbox'[i] = inbox[i + 1]
        BY <2>1, <3>1
      <3>3. Head(inbox).op = "stop"
        BY <2>1, <3>1
      <3> QED BY <2>1, <3>1, <3>2, <3>3, StopObeyed
    <2>3. CASE inbox' \in {<<>>, inbox} /\ queue' = queue
      <3>1. \A i \in 1..Len(inbox') : inbox'[i].op = "stop"
        BY <2>1, <2>3
      <3> QED BY <2>1, <2>3, <3>1, StopObeyed
    <2> QED BY <2>2, <2>3, DeviceMoves
  <1> QED BY <1>7, <1>8, <1>9

-----------------------------------------------------------------------------
(* One caller: streams under the steps of the client *)

\* Where a phase leads, in the phases of the job.
LEMMA PhaseMoves ==
  ASSUME NEW j \in AllJobs \cup {"verify", "none"}, NEW p \in PhasesOf(j)
  PROVE  /\ p = "prime" => NextPhase(j, p) \in PhasesOf(j)
                           /\ NextPhase(j, p) \in {"count", "stop"} \cup Peeks
         /\ p = "count" => NextPhase(j, p) \in PhasesOf(j)
                           /\ NextPhase(j, p) = IF j = "configure" THEN "read" ELSE "fields"
         /\ p = "fields" => NextPhase(j, p) = "status" /\ NextPhase(j, p) \in PhasesOf(j)
         /\ p = "read" => NextPhase(j, p) = "write" /\ j = "configure"
         /\ p = "write" => NextPhase(j, p) = "format" /\ j = "configure"
         /\ p \in {"format", "reopen"} => j = "configure"
         /\ p = "stop" => j = "stop"
         /\ p \in Peeks => j \in Peeks
         /\ p \in {"fields", "status"} => j \notin {"stop", "configure"} \cup Peeks
  BY DEF AllJobs, PhasesOf, NextPhase, Peeks

\* A session that goes on waits for nothing yet.
LEMMA GotoMoves ==
  ASSUME TypeOK, NEW c \in Clients, NEW p, NEW i, Goto(c, p, i)
  PROVE  phase'[c] = p /\ idx'[c] = i /\ waiting'[c] = FALSE /\ Own(c)' = 0
  BY DEF TypeOK, Goto, Own

\* It goes on in its phase or with the next.
LEMMA AdvanceMoves ==
  ASSUME TypeOK, NEW c \in Clients, Advance(c)
  PROVE  /\ waiting'[c] = FALSE /\ Own(c)' = 0
         /\ idx[c] < Len(Table(phase[c])) => phase'[c] = phase[c] /\ idx'[c] = idx[c] + 1
         /\ ~(idx[c] < Len(Table(phase[c]))) =>
                phase'[c] = NextPhase(job[c], phase[c]) /\ idx'[c] = 1
  <1>1. CASE idx[c] < Len(Table(phase[c]))
    BY <1>1, GotoMoves DEF Advance
  <1>2. CASE ~(idx[c] < Len(Table(phase[c])))
    <2>1. Goto(c, NextPhase(job[c], phase[c]), 1)
      BY <1>2 DEF Advance
    <2>2. phase'[c] = NextPhase(job[c], phase[c]) /\ idx'[c] = 1 /\ waiting'[c] = FALSE
      BY <2>1 DEF Goto, TypeOK
    <2> QED BY <1>2, <2>2 DEF Own
  <1> QED BY <1>1, <1>2

\* A call that ends leaves nothing to say but about the device.
LEMMA ReturnCaller ==
  ASSUME TypeOK, NEW c \in Clients, CallerOK, NEW o, Return(c, o)
  PROVE  StreamOK(c)' /\ JobOK(c)' /\ StopOK(c)'
  <1>1. /\ fd'[c] = "closed" /\ queue'[c] = <<>> /\ phase'[c] = "idle" /\ job'[c] = "none"
        /\ inbox' = inbox
    BY GotoMoves DEF Return, Close, TypeOK, device
  <1>2. Len(inbox') <= InboxMax
    BY <1>1 DEF CallerOK, StreamOK
  <1>3. StreamOK(c)'
    BY <1>1, <1>2 DEF StreamOK
  <1>4. JobOK(c)'
    BY <1>1 DEF JobOK, PhasesOf, Peeks
  <1> QED BY <1>1, <1>3, <1>4 DEF StopOK

\* A call that begins finds an empty ring.
LEMMA OpenCaller ==
  ASSUME TypeOK, Shallow, NEW c \in Clients, CallerOK, Open(c), Goto(c, "prime", 1),
         inbox' = inbox
  PROVE  StreamOK(c)' /\ StopOK(c)'
  <1>1. /\ fd'[c] = "live" /\ queue'[c] = <<>>
        /\ phase'[c] = "prime" /\ idx'[c] = 1 /\ waiting'[c] = FALSE
    <2>1. fd'[c] = "live" /\ queue'[c] = <<>>
      BY DEF Open, TypeOK
    <2>2. phase'[c] = "prime" /\ idx'[c] = 1 /\ waiting'[c] = FALSE
      BY DEF Goto, TypeOK
    <2> QED BY <2>1, <2>2
  <1>2. Len(inbox') <= InboxMax /\ InboxMax <= 2 /\ InboxMax \in Nat /\ Len(inbox') \in Nat
    BY LoggerAssumption DEF CallerOK, StreamOK, Shallow, TypeOK
  <1>3. Length(c)' = Len(inbox') /\ Length(c)' <= 2
    BY <1>1, <1>2 DEF Length
  <1> QED BY <1>1, <1>2, <1>3 DEF StreamOK, StopOK

\* What the first two phases ask for is of their kinds.
LEMMA RequestOf ==
  ASSUME NEW c \in Clients
  PROVE  /\ phase[c] = "prime" /\ idx[c] = 1 => Of(Request(c), "first")
         /\ phase[c] = "count" /\ idx[c] \in 1..3 => Of(Request(c), "count")
         /\ phase[c] = "stop" => Request(c).op = "stop"
  <1>1. ASSUME phase[c] = "prime", idx[c] = 1 PROVE Of(Request(c), "first")
    <2>1. Table(phase[c])[idx[c]] = Read(\h00, 14) /\ OpOf(phase[c]) = "get"
      BY <1>1 DEF Table, PrimeReads, OpOf, Peeks
    <2>2. Request(c).op = "get" /\ Request(c).off = 0 /\ Request(c).n = 14
      BY <2>1 DEF Request, Read
    <2> QED BY <2>2 DEF Of
  <1>2. ASSUME phase[c] = "count", idx[c] \in 1..3 PROVE Of(Request(c), "count")
    <2>1. Table(phase[c])[idx[c]] = Read(\h42, 10) /\ OpOf(phase[c]) = "get"
      BY <1>2 DEF Table, CountReads, OpOf, Peeks
    <2>2. Request(c).op = "get" /\ Request(c).off = 66 /\ Request(c).n = 10
      BY <2>1 DEF Request, Read
    <2> QED BY <2>2 DEF Of
  <1>3. ASSUME phase[c] = "stop" PROVE Request(c).op = "stop"
    BY <1>3 DEF Request, OpOf, Peeks
  <1> QED BY <1>1, <1>2, <1>3

\* The tables of the first two phases.
LEMMA TableLengths ==
  /\ Table("prime") = PrimeReads /\ Len(PrimeReads) = 2
  /\ Table("count") = CountReads /\ Len(CountReads) = 3
  /\ Table("stop") = Command /\ Len(Command) = 1
  /\ Table("read") = ConfigBlocks /\ Table("write") = ConfigBlocks
  /\ Table("format") = Command
  BY DEF Table, PrimeReads, CountReads, Command, Peeks

\* A request is written.
LEMMA WriteCaller ==
  ASSUME TypeOK, Shallow, NEW c \in Clients, CallerOK, Write(c)
  PROVE  StreamOK(c)' /\ JobOK(c)' /\ StopOK(c)'
  <1>types. DeviceOK /\ LinkOK /\ CursorOK
    BY TypeParts
  <1>0. StreamOK(c) /\ JobOK(c)
    BY DEF CallerOK
  <1>1. /\ waiting'[c] = TRUE /\ waiting[c] = FALSE /\ Own(c) = 0 /\ Own(c)' = 1
        /\ UNCHANGED <<phase, idx, job, arg, result, stopped>>
        /\ phase[c] \notin {"idle", "reopen"}
    BY DEF Write, TypeOK, Own
  <1>2. Len(inbox') <= InboxMax
    <2>1. Len(inbox) < InboxMax /\ inbox' = Append(inbox, Request(c)) /\ InboxMax \in Nat
      BY LoggerAssumption DEF Write, CanWrite
    <2>2. Len(inbox') = Len(inbox) + 1 /\ Len(inbox) \in Nat
      BY <2>1, <1>types, RequestType DEF DeviceOK
    <2> QED BY <2>1, <2>2
  <1>3. Length(c) \in Nat
    BY <1>types, LengthType
  <1>prime1. ASSUME phase[c] = "prime", idx[c] = 1
             PROVE  Length(c)' <= 2 /\ Span(c, 2, 0, "first")'
    BY <1>prime1, <1>0, WriteSpan, RequestOf DEF StreamOK
  <1>prime2. ASSUME phase[c] = "prime", idx[c] = 2
             PROVE  Length(c)' <= 2 /\ Span(c, 1, 1, "first")'
    <2>1. Length(c) <= 1 /\ Span(c, 1, 0, "first")
      BY <1>prime2, <1>0, <1>1 DEF StreamOK
    <2> QED BY <1>3, <2>1, WriteSpan
  <1>count. ASSUME phase[c] = "count" PROVE Length(c)' <= 2 /\ Span(c, 1, 0, "count")'
    <2>1. idx[c] \in 1..3
      BY <1>count, <1>types, TableLengths DEF CursorOK
    <2> QED BY <1>count, <1>0, <2>1, WriteSpan, RequestOf DEF StreamOK
  <1>stop. ASSUME phase[c] = "stop"
           PROVE  /\ Length(c)' <= 1 /\ queue'[c] = <<>>
                  /\ \A i \in 1..Len(inbox') : inbox'[i].op = "stop"
    <2>1. Length(c) = 0
      BY <1>stop, <1>0, <1>1, <1>3 DEF StreamOK
    <2>2. Length(c)' <= 1 /\ queue'[c] = <<>>
      BY <1>3, <2>1, WriteSpan
    <2>3. inbox = <<>> /\ inbox' = Append(inbox, Request(c)) /\ Request(c) \in Requests
      <3>1. Request(c) \in Requests
        BY <1>types, <1>1, TypeParts, RequestType
      <3>2. Len(inbox) = 0 /\ inbox \in Seq(Requests)
        BY <1>types, <2>1, LengthType
      <3>3. inbox = <<>>
        BY <3>2
      <3> QED BY <3>1, <3>3 DEF Write
    <2>4. Request(c).op = "stop"
      BY <1>stop, RequestOf
    <2>5. \A i \in 1..Len(inbox') : inbox'[i].op = "stop"
      BY <2>3, <2>4
    <2> QED BY <2>2, <2>5
  <1>4. StreamOK(c)'
    <2>1. phase[c] = "prime" /\ idx[c] = 2 => Length(c)' <= 1 + Own(c)' /\ Span(c, 1, Own(c), "first")'
      BY <1>prime2, <1>1 DEF Span
    <2> QED BY <1>1, <1>2, <1>prime1, <2>1, <1>count, <1>stop DEF StreamOK
  <1>5. JobOK(c)'
    BY <1>0, <1>1 DEF JobOK
  <1>6. StopOK(c)'
    BY <1>1, <1>stop DEF StopOK
  <1> QED BY <1>4, <1>5, <1>6

\* A session in the same job, in a phase that neither prime(), the count nor Stop
\* bounds, or waiting for nothing.
LEMMA JobStays ==
  ASSUME NEW c \in Clients, JobOK(c), UNCHANGED <<job, arg, result>>,
         phase'[c] \in PhasesOf(job[c])
  PROVE  JobOK(c)'
  BY DEF JobOK

\* prime() reads on.
LEMMA PrimeCaller ==
  ASSUME TypeOK, NEW c \in Clients, CallerOK, Prime(c)
  PROVE  /\ StreamOK(c)' /\ JobOK(c)' /\ StopOK(c)'
         /\ phase'[c] # "prime" => Length(c)' = 0
         /\ phase'[c] \in {"prime", "count", "stop"} \cup Peeks
  <1>types. DeviceOK /\ LinkOK /\ CursorOK /\ CallOK
    BY TypeParts
  <1>0. StreamOK(c) /\ JobOK(c) /\ InboxMax \in Nat
    BY LoggerAssumption DEF CallerOK
  <1>1. /\ phase[c] = "prime" /\ queue[c] # <<>> /\ waiting[c] /\ Pop(c) /\ inbox' = inbox
        /\ UNCHANGED <<job, arg, result>> /\ Answers(c, Reply(c)) /\ Own(c) = 1 /\ Advance(c)
    BY DEF Prime, Replied, device, Own
  <1>2. /\ Length(c)' = Length(c) - 1 /\ Length(c) >= 1
        /\ Length(c) \in Nat
    BY <1>types, <1>1, PopSpan, LengthType
  <1>3. waiting'[c] = FALSE /\ Own(c)' = 0 /\ idx[c] \in 1..2
    BY <1>types, <1>1, AdvanceMoves, TableLengths DEF CursorOK
  <1>4. CASE idx[c] = 1
    <2>1. phase'[c] = "prime" /\ idx'[c] = 2
      <3>1. Len(Table("prime")) = 2
        BY TableLengths
      <3>2. idx[c] < Len(Table(phase[c])) /\ idx[c] + 1 = 2
        BY <1>1, <1>4, <3>1
      <3> QED BY <1>1, <1>4, <3>2, AdvanceMoves
    <2>2. Length(c) <= 2 /\ Span(c, 2, 0, "first")
      BY <1>0, <1>1, <1>4 DEF StreamOK
    <2>3. Length(c)' <= 1 /\ Span(c, 1, 0, "first")'
      BY <1>1, <1>2, <2>2, PopSpan
    <2>4. Span(c, 1, Own(c), "first")'
      BY <1>3, <2>3 DEF Span
    <2>5. StreamOK(c)'
      BY <1>0, <1>1, <1>3, <2>1, <2>3, <2>4 DEF StreamOK
    <2>6. JobOK(c)'
      BY <1>0, <1>1, <2>1, JobStays DEF JobOK
    <2> QED BY <2>1, <2>5, <2>6 DEF StopOK
  <1>5. CASE idx[c] = 2
    <2>1. /\ phase'[c] = NextPhase(job[c], "prime") /\ idx'[c] = 1
          /\ phase[c] \in PhasesOf(job[c]) /\ job[c] \in AllJobs \cup {"verify", "none"}
      <3>1. ~(idx[c] < Len(Table(phase[c])))
        <4>1. Len(Table(phase[c])) = 2
          BY <1>1, TableLengths
        <4> QED BY <1>5, <4>1
      <3>2. phase[c] \in PhasesOf(job[c]) /\ job[c] \in AllJobs \cup {"verify", "none"}
        BY <1>types, <1>0 DEF JobOK, CallOK
      <3> QED BY <1>1, <3>1, <3>2, AdvanceMoves
    <2>2. phase'[c] \in PhasesOf(job[c]) /\ phase'[c] \in {"count", "stop"} \cup Peeks
      BY <1>1, <2>1, PhaseMoves
    <2>3. Length(c) <= 2 /\ Span(c, 1, 1, "first")
      BY <1>0, <1>1, <1>5 DEF StreamOK
    <2>4. ~Of(Reply(c), "first")
      <3>1. Table(phase[c])[idx[c]] = Read(\h94, 2) /\ OpOf(phase[c]) = "get"
        BY <1>1, <1>5 DEF Table, PrimeReads, OpOf, Peeks
      <3>2. /\ Reply(c).op = "get" /\ Covers(Reply(c).off, Reply(c).n, \h94, 2)
        BY <1>1, <3>1 DEF Answers, Read
      <3>3. Reply(c).off \in Nat /\ Reply(c).n \in Nat
        <4>1. Reply(c) \in Reports
          BY <1>types, <1>1 DEF Reply, LinkOK
        <4> QED BY <4>1 DEF Reports
      <3> QED BY <3>2, <3>3 DEF Of, Covers
    <2>5. Length(c) = 1
      BY <1>1, <1>2, <2>3, <2>4, PopSpan
    <2>6. Length(c)' = 0
      BY <1>2, <2>5
    <2>7. Span(c, 1, 0, "count")'
      <3>1. DeviceOK' /\ LinkOK'
        BY <1>types, <1>1, PopType, DeviceUnchanged DEF Prime
      <3>2. Len(queue'[c]) = 0 /\ Len(inbox') = 0
        BY <1>types, <1>1, <2>6, <3>1 DEF Length, DeviceOK, LinkOK
      <3> QED BY <3>2 DEF Span
    <2>8. StreamOK(c)'
      BY <1>0, <1>1, <1>3, <2>2, <2>6, <2>7 DEF StreamOK, Peeks
    <2>9. JobOK(c)'
      BY <1>0, <1>1, <2>2, JobStays
    <2> QED BY <1>3, <2>2, <2>6, <2>8, <2>9 DEF StopOK
  <1> QED BY <1>3, <1>4, <1>5

\* A phase that is not about streams.
LEMMA FreeCaller ==
  ASSUME NEW c \in Clients, CallerOK, inbox' = inbox, UNCHANGED <<job, arg, result>>,
         phase'[c] \in {"fields", "status", "read", "write", "format"},
         phase'[c] \in PhasesOf(job[c])
  PROVE  StreamOK(c)' /\ JobOK(c)' /\ StopOK(c)'
  <1>1. JobOK(c)'
    BY JobStays DEF CallerOK
  <1> QED BY <1>1 DEF CallerOK, StreamOK, StopOK

\* A try of the count that fails adds nothing.
LEMMA NoCountSpan ==
  ASSUME TypeOK, Shallow, NEW c \in Clients, NoCount(c), inbox' = inbox,
         Length(c) <= 2, Span(c, 1, 0, "count")
  PROVE  Length(c)' <= 2 /\ Span(c, 1, 0, "count")'
  <1>types. DeviceOK /\ LinkOK
    BY TypeParts
  <1>0. /\ Len(queue[c]) \in Nat /\ Len(inbox) \in Nat
        /\ Length(c) = Len(queue[c]) + Len(inbox) /\ queue[c] \in Seq(Reports)
    BY <1>types, LengthType
  <1>1. CASE queue[c] # <<>> /\ Pop(c)
    BY <1>0, <1>1, PopSpan
  <1>2. CASE queue' = [queue EXCEPT ![c] = Drained(@)]
    <2>1. Len(queue[c]) <= 2 /\ queue'[c] = Drained(queue[c])
      BY <1>0, <1>2 DEF TypeOK
    <2>2. queue'[c] = <<>>
      BY <1>0, <2>1, DrainedShallow
    <2>3. Len(queue'[c]) = 0 /\ 1..Len(queue'[c]) = {}
      BY <2>2
    <2>4. Length(c)' <= 2
      BY <1>0, <2>3 DEF Length
    <2>5. \A i \in 1..Len(inbox) : Of(inbox[i], "count")
      BY <1>0 DEF Span
    <2> QED BY <2>3, <2>4, <2>5 DEF Span
  <1>3. CASE UNCHANGED link
    BY <1>3 DEF link, Length, Span
  <1> QED BY <1>1, <1>2, <1>3 DEF NoCount, Failed, Spoiled, Replied

\* awaitReply passes over a report.
LEMMA SkipCaller ==
  ASSUME TypeOK, NEW c \in Clients, CallerOK, Skip(c)
  PROVE  StreamOK(c)' /\ JobOK(c)' /\ StopOK(c)'
  <1>types. DeviceOK /\ LinkOK
    BY TypeParts
  <1>0. StreamOK(c) /\ JobOK(c)
    BY DEF CallerOK
  <1>1. /\ UNCHANGED <<phase, idx, waiting, job, arg, result, inbox>>
        /\ queue[c] # <<>> /\ Pop(c) /\ phase[c] \notin {"idle", "format", "reopen", "stop"}
        /\ waiting[c] /\ Own(c) = 1 /\ Own(c)' = 1
    BY DEF Skip, session, device, Own
  <1>2. Length(c)' = Length(c) - 1 /\ Length(c) >= 1 /\ Length(c) \in Nat
    BY <1>types, <1>1, PopSpan, LengthType
  <1>3. \A from \in 1..2, short \in 0..1, kind \in {"first", "count"} :
            Span(c, from, short, kind) => Span(c, 1, short, kind)'
    BY <1>1, PopSpan
  <1>4. Span(c, 1, 0, "first")' => Span(c, 2, 0, "first")'
    BY DEF Span
  <1>5. phase[c] = "prime" /\ idx[c] = 1 => Length(c)' <= 2 /\ Span(c, 2, 0, "first")'
    BY <1>0, <1>1, <1>2, <1>3, <1>4 DEF StreamOK
  <1>6. phase[c] = "prime" /\ idx[c] = 2 => Length(c)' <= 2 /\ Span(c, 1, 1, "first")'
    <2>1. phase[c] = "prime" /\ idx[c] = 2 => Length(c) <= 2 /\ Span(c, 1, 1, "first")
      BY <1>0, <1>1 DEF StreamOK
    <2> QED BY <1>2, <1>3, <2>1
  <1>7. phase[c] = "count" => Length(c)' <= 2 /\ Span(c, 1, 0, "count")'
    BY <1>0, <1>2, <1>3 DEF StreamOK
  <1>8. phase[c] = "prime" /\ idx[c] = 2 => Span(c, 1, Own(c), "first")'
    BY <1>1, <1>6 DEF Span
  <1>9. StreamOK(c)'
    BY <1>0, <1>1, <1>5, <1>6, <1>7, <1>8 DEF StreamOK
  <1>10. JobOK(c)'
    BY <1>0, <1>1 DEF JobOK
  <1> QED BY <1>1, <1>9, <1>10 DEF StopOK

\* The steps of the count.
LEMMA CountCaller ==
  ASSUME TypeOK, Shallow, NEW c \in Clients, CallerOK,
         CountKnown(c) \/ CountRetry(c) \/ CountUnknown(c)
  PROVE  /\ StreamOK(c)' /\ JobOK(c)' /\ StopOK(c)'
         /\ phase'[c] = "read" =>
               /\ CountKnown(c) /\ idx'[c] = 1
               /\ waiting'[c] = FALSE /\ Length(c)' <= 1 /\ Span(c, 1, 0, "count")'
         /\ phase'[c] \in {"count", "read", "fields"}
  <1>types. DeviceOK /\ LinkOK /\ CursorOK /\ CallOK
    BY TypeParts
  <1>0. StreamOK(c) /\ JobOK(c) /\ phase[c] = "count" /\ inbox' = inbox
        /\ UNCHANGED <<job, arg, result>>
    BY DEF CallerOK, CountKnown, CountRetry, CountUnknown, device
  <1>1. Length(c) <= 2 /\ Span(c, 1, 0, "count") /\ Length(c) \in Nat
    BY <1>0, <1>types, LengthType DEF StreamOK
  <1>2. /\ NextPhase(job[c], "count") \in PhasesOf(job[c])
        /\ NextPhase(job[c], "count") = IF job[c] = "configure" THEN "read" ELSE "fields"
    <2>1. phase[c] \in PhasesOf(job[c]) /\ job[c] \in AllJobs \cup {"verify", "none"}
      BY <1>types, <1>0 DEF JobOK, CallOK
    <2> QED BY <1>0, <2>1, PhaseMoves
  <1>3. CASE CountRetry(c)
    <2>1. phase'[c] = "count" /\ waiting'[c] = FALSE
      BY <1>3 DEF CountRetry, Goto, TypeOK
    <2>2. Length(c)' <= 2 /\ Span(c, 1, 0, "count")'
      BY <1>0, <1>1, <1>3, NoCountSpan DEF CountRetry
    <2>3. StreamOK(c)'
      BY <1>0, <2>1, <2>2 DEF StreamOK
    <2>4. JobOK(c)'
      BY <1>0, <2>1, JobStays DEF JobOK
    <2> QED BY <2>1, <2>3, <2>4 DEF StopOK
  <1>4. CASE CountKnown(c)
    <2>1. phase'[c] = NextPhase(job[c], "count") /\ idx'[c] = 1 /\ waiting'[c] = FALSE
      BY <1>4 DEF CountKnown, Goto, TypeOK
    <2>2. queue[c] # <<>> /\ Pop(c)
      BY <1>4 DEF CountKnown, Replied
    <2>3. Length(c)' <= 1 /\ Span(c, 1, 0, "count")'
      BY <1>0, <1>1, <2>2, PopSpan
    <2> QED BY <1>0, <1>2, <1>4, <2>1, <2>3, FreeCaller
  <1>5. CASE CountUnknown(c)
    <2>1. phase'[c] = NextPhase(job[c], "count") /\ job[c] # "configure"
      BY <1>5 DEF CountUnknown, Goto, TypeOK
    <2> QED BY <1>0, <1>2, <2>1, FreeCaller
  <1> QED BY <1>3, <1>4, <1>5

\* The steps that read fields, status and blocks, and write blocks.
LEMMA TableCaller ==
  ASSUME TypeOK, NEW c \in Clients, CallerOK,
         \/ Field(c) \/ FieldSkipped(c) \/ Status(c)
         \/ BlockRead(c) \/ BlockWritten(c)
  PROVE  /\ StreamOK(c)' /\ JobOK(c)' /\ StopOK(c)'
         /\ phase'[c] \in {"read", "write", "format"} => BlockRead(c) \/ BlockWritten(c)
  <1>types. CallOK
    BY TypeParts
  <1>0. phase[c] \in PhasesOf(job[c]) /\ job[c] \in AllJobs \cup {"verify", "none"}
    BY <1>types DEF CallerOK, JobOK, CallOK
  <1>1. /\ phase[c] \in {"fields", "status", "read", "write"} /\ Advance(c)
        /\ inbox' = inbox /\ UNCHANGED <<job, arg, result>>
        /\ phase[c] = "status" => idx[c] < Len(Table(phase[c]))
        /\ phase[c] \in {"read", "write"} => BlockRead(c) \/ BlockWritten(c)
    <2>1. Table("status") = StatusReads
      BY DEF Table, Peeks
    <2> QED BY <2>1 DEF Field, FieldSkipped, Status, BlockRead, BlockWritten, device
  <1>2. phase'[c] = phase[c] \/ (phase[c] # "status" /\ phase'[c] = NextPhase(job[c], phase[c]))
    BY <1>1, AdvanceMoves
  <1>3. /\ phase'[c] \in {"fields", "status", "read", "write", "format"}
        /\ phase'[c] \in PhasesOf(job[c])
        /\ phase[c] \in {"fields", "status"} => phase'[c] \in {"fields", "status"}
    <2>1. CASE phase[c] = "fields"
      BY <1>0, <1>2, <2>1, PhaseMoves
    <2>2. CASE phase[c] = "status"
      BY <1>0, <1>2, <2>2
    <2>3. CASE phase[c] = "read"
      <3>1. NextPhase(job[c], "read") = "write" /\ job[c] = "configure"
        BY <1>0, <2>3, PhaseMoves
      <3>2. {"read", "write"} \subseteq PhasesOf("configure")
        BY DEF PhasesOf, Peeks
      <3> QED BY <1>0, <1>2, <2>3, <3>1, <3>2
    <2>4. CASE phase[c] = "write"
      <3>1. NextPhase(job[c], "write") = "format" /\ job[c] = "configure"
        BY <1>0, <2>4, PhaseMoves
      <3>2. {"format", "write"} \subseteq PhasesOf("configure")
        BY DEF PhasesOf, Peeks
      <3> QED BY <1>0, <1>2, <2>4, <3>1, <3>2
    <2> QED BY <1>1, <2>1, <2>2, <2>3, <2>4
  <1> QED BY <1>1, <1>3, FreeCaller

\* The format's end, and the second Info of Configure.
LEMMA ReopenCaller ==
  ASSUME TypeOK, Shallow, NEW c \in Clients, CallerOK, Formatted(c) \/ Reopen(c)
  PROVE  /\ StreamOK(c)' /\ JobOK(c)' /\ StopOK(c)'
         /\ phase'[c] \in {"reopen", "prime"}
  <1>types. CallOK
    BY TypeParts
  <1>0. phase[c] \in PhasesOf(job[c]) /\ job[c] \in AllJobs \cup {"verify", "none"}
        /\ JobOK(c) /\ StreamOK(c)
    BY <1>types DEF CallerOK, JobOK, CallOK
  <1>1. job[c] = "configure"
    BY <1>0, PhaseMoves DEF Formatted, Reopen
  <1>2. CASE Formatted(c)
    <2>1. /\ fd'[c] = "closed" /\ queue'[c] = <<>> /\ phase'[c] = "reopen" /\ inbox' = inbox
          /\ UNCHANGED <<job, arg, result>>
      BY <1>2 DEF Formatted, Close, Goto, TypeOK, device
    <2>2. phase'[c] \in PhasesOf(job[c])
      BY <1>1, <2>1 DEF PhasesOf, Peeks
    <2>3. JobOK(c)'
      BY <1>0, <2>1, <2>2, JobStays
    <2> QED BY <1>0, <2>1, <2>3 DEF StreamOK, StopOK
  <1>3. CASE Reopen(c)
    <2>1. /\ phase'[c] = "prime" /\ job'[c] = "verify" /\ inbox' = inbox
          /\ UNCHANGED <<arg, result>> /\ Open(c) /\ Goto(c, "prime", 1)
      BY <1>3 DEF Reopen, Goto, TypeOK, device
    <2>2. JobOK(c)'
      BY <1>0, <1>1, <2>1 DEF JobOK, PhasesOf, Peeks
    <2> QED BY <2>1, <2>2, OpenCaller
  <1> QED BY <1>2, <1>3

\* A call begins.
LEMMA BeginCaller ==
  ASSUME TypeOK, Shallow, NEW c \in Clients, CallerOK, Begin(c)
  PROVE  StreamOK(c)' /\ JobOK(c)' /\ StopOK(c)' /\ phase'[c] = "prime"
  <1>0. PICK j \in Jobs : \E a \in Args(j) :
            /\ j = "configure" => ValidInterval(a.set.interval)
            /\ Open(c) /\ Goto(c, "prime", 1)
            /\ job' = [job EXCEPT ![c] = j] /\ arg' = [arg EXCEPT ![c] = a]
            /\ result' = [result EXCEPT ![c] = "none"] /\ inbox' = inbox
    BY DEF Begin
  <1>1. PICK a \in Args(j) :
            /\ j = "configure" => ValidInterval(a.set.interval)
            /\ Open(c) /\ Goto(c, "prime", 1)
            /\ job' = [job EXCEPT ![c] = j] /\ arg' = [arg EXCEPT ![c] = a]
            /\ result' = [result EXCEPT ![c] = "none"] /\ inbox' = inbox
    BY <1>0
  <1>2. j \in AllJobs /\ (j = "configure" => a.set \in Settings)
    BY LoggerAssumption DEF Args
  <1>3. /\ job'[c] = j /\ arg'[c] = a /\ result'[c] = "none" /\ phase'[c] = "prime"
    BY <1>1 DEF Goto, TypeOK
  <1>4. j \notin {"none", "verify"} /\ "prime" \in PhasesOf(j)
    BY <1>2 DEF AllJobs, PhasesOf, Peeks
  <1>5. JobOK(c)'
    BY <1>1, <1>2, <1>3, <1>4 DEF JobOK
  <1> QED BY <1>1, <1>3, <1>5, OpenCaller

\* A client step that ends a call.
Ends(c) == \E o \in {"none", "ok", "error", "unacknowledged"} : Return(c, o)

\* All the other steps end the call.
LEMMA StepKinds ==
  ASSUME NEW c \in Clients, ClientStep(c)
  PROVE  \/ Ends(c) \/ Begin(c) \/ Skip(c) \/ Write(c) \/ Prime(c)
         \/ CountKnown(c) \/ CountRetry(c) \/ CountUnknown(c)
         \/ Field(c) \/ FieldSkipped(c) \/ Status(c)
         \/ BlockRead(c) \/ BlockWritten(c) \/ Formatted(c) \/ Reopen(c)
  <1>1. CASE Refuse(c) \/ Crash(c) \/ GiveUp(c) \/ CountRefused(c) \/ CountMissing(c)
    BY <1>1 DEF Refuse, Crash, GiveUp, CountRefused, CountMissing, Ends
  <1>2. CASE StatusDone(c) \/ ReopenFails(c) \/ StopAnswered(c)
    BY <1>2 DEF StatusDone, Finish, ReopenFails, StopAnswered, Ends
  <1>3. CASE StopUnanswered(c) \/ Peeked(c)
    BY <1>3 DEF StopUnanswered, Peeked, Ends
  <1> QED BY <1>1, <1>2, <1>3 DEF ClientStep, Progress

\* Each step of the caller keeps what it relies on.
LEMMA ClientCaller ==
  ASSUME TypeOK, Alone, Shallow, CallerOK, NEW c \in Clients, ClientStep(c)
  PROVE  CallerOK'
  <1> SUFFICES StreamOK(c)' /\ JobOK(c)' /\ StopOK(c)'
    BY DEF CallerOK, Alone
  <1>1. CASE Ends(c)
    BY <1>1, ReturnCaller DEF Ends
  <1> QED BY <1>1, StepKinds, BeginCaller, SkipCaller, WriteCaller, PrimeCaller,
             CountCaller, TableCaller, ReopenCaller

LEMMA NextCaller ==
  ASSUME TypeOK, Alone, Shallow, CallerOK, [Next]_vars
  PROVE  CallerOK'
  <1>1. CASE DeviceStep
    BY <1>1, DeviceCaller
  <1>2. ASSUME NEW c \in Clients, ClientStep(c) PROVE CallerOK'
    BY <1>2, ClientCaller
  <1>3. CASE UNCHANGED vars
    BY <1>3 DEF vars, CallerOK, StreamOK, JobOK, StopOK, Length, Span, Own
  <1> QED BY <1>1, <1>2, <1>3 DEF Next

LEMMA InitCaller ==
  ASSUME Init PROVE CallerOK
  <1> SUFFICES ASSUME NEW c \in Clients PROVE StreamOK(c) /\ JobOK(c) /\ StopOK(c)
    BY DEF CallerOK
  <1>1. /\ phase[c] = "idle" /\ job[c] = "none" /\ fd[c] = "closed" /\ queue[c] = <<>>
        /\ inbox = <<>>
    BY DEF Init
  <1>2. Len(inbox) <= InboxMax
    BY <1>1, LoggerAssumption
  <1> QED BY <1>1, <1>2 DEF StreamOK, JobOK, StopOK, PhasesOf, Peeks

-----------------------------------------------------------------------------
(* Stop tells the truth *)

\* The steps that let a call report success.
LEMMA StepsOk ==
  ASSUME TypeOK, NEW c \in Clients, ClientStep(c), result[c] = "none", result'[c] = "ok"
  PROVE  StatusDone(c) \/ StopAnswered(c) \/ Peeked(c)
  <1>1. ASSUME NEW o, Return(c, o) PROVE o = "ok"
    BY <1>1 DEF Return, TypeOK
  <1>2. ~Refuse(c) /\ ~Crash(c) /\ ~GiveUp(c) /\ ~CountRefused(c) /\ ~CountMissing(c)
    BY <1>1 DEF Refuse, Crash, GiveUp, CountRefused, CountMissing
  <1>3. ~StopUnanswered(c) /\ ~ReopenFails(c)
    BY <1>1 DEF StopUnanswered, ReopenFails
  <1>4. ~Begin(c)
    BY DEF Begin, TypeOK
  <1>5. ASSUME result' = result PROVE FALSE
    BY <1>5
  <1>6. ~Skip(c) /\ ~Write(c) /\ ~Prime(c) /\ ~CountKnown(c) /\ ~CountRetry(c) /\ ~CountUnknown(c)
    BY <1>5 DEF Skip, session, Write, Prime, CountKnown, CountRetry, CountUnknown
  <1>7. ~Field(c) /\ ~FieldSkipped(c) /\ ~Status(c) /\ ~BlockRead(c) /\ ~BlockWritten(c)
    BY <1>5 DEF Field, FieldSkipped, Status, BlockRead, BlockWritten
  <1>8. ~Formatted(c) /\ ~Reopen(c)
    BY <1>5 DEF Formatted, Reopen
  <1> QED BY <1>2, <1>3, <1>4, <1>6, <1>7, <1>8 DEF ClientStep, Progress

LEMMA StopStep ==
  ASSUME TypeOK, Alone, CallerOK, [Next]_vars, NEW c \in Clients,
         job[c] = "stop", result'[c] = "ok"
  PROVE  stopped
  <1>1. /\ result[c] = "none" /\ phase[c] \in {"prime", "stop"} /\ StopOK(c)
    BY DEF CallerOK, JobOK, PhasesOf, Peeks
  <1>2. PICK d \in Clients : ClientStep(d)
    BY <1>1, DeviceMoves DEF Next, vars, session
  <1>3. StopAnswered(c)
    BY <1>1, <1>2, StepsOk DEF Alone, StatusDone, Peeked, Peeks
  <1> QED BY <1>1, <1>3 DEF StopAnswered, StopOK

\* For one caller, a device that holds no more than one request besides the one
\* it works on, and drain()s of two reports or more: Stop reports success only when
\* the device has obeyed.
THEOREM StopIsTruthful ==
  ASSUME Alone, Shallow PROVE Spec => StopTruthful
  <1>1. TypeOK /\ CallerOK /\ [Next]_vars =>
            [\A c \in Clients : job[c] = "stop" /\ result'[c] = "ok" => stopped]_vars
    BY StopStep
  <1>2. TypeOK /\ CallerOK /\ [Next]_vars => CallerOK'
    BY NextCaller
  <1> QED BY <1>1, <1>2, InitCaller, TypeCorrect, PTL DEF Spec, StopTruthful

-----------------------------------------------------------------------------
(* The settings are written whole *)

\* The blocks cover the settings, and the first is not where the count is.
BlocksSound ==
    /\ ConfigBlocks[1].off = 0
    /\ \E i \in 1..Len(ConfigBlocks) :
           Covers(ConfigBlocks[i].off, ConfigBlocks[i].written, \h4C, 2)
    /\ \E i \in 1..Len(ConfigBlocks) :
           Covers(ConfigBlocks[i].off, ConfigBlocks[i].written, \h20, 1)

\* configBlocks are so.
LEMMA FactorySound ==
  ASSUME ConfigBlocks = FactoryBlocks PROVE BlocksSound
  <1>1. Len(ConfigBlocks) = 6 /\ ConfigBlocks[1] = [off |-> 0, n |-> 48, written |-> 48]
        /\ ConfigBlocks[2] = [off |-> 48, n |-> 48, written |-> 48]
    BY DEF FactoryBlocks
  <1>2. Covers(ConfigBlocks[2].off, ConfigBlocks[2].written, \h4C, 2) /\ 2 \in 1..Len(ConfigBlocks)
    BY <1>1 DEF Covers
  <1>3. Covers(ConfigBlocks[1].off, ConfigBlocks[1].written, \h20, 1) /\ 1 \in 1..Len(ConfigBlocks)
    BY <1>1 DEF Covers
  <1> QED BY <1>1, <1>2, <1>3 DEF BlocksSound

\* An interval Configure accepts is one the logger can hold.
LEMMA ValidEncoded ==
  ASSUME NEW s \in Nat, ValidInterval(s) PROVE Encoded(s) = s
  <1>1. s \div 10 \in Nat /\ s \div 10 < 65536 /\ s = 10 * (s \div 10)
    BY DEF ValidInterval
  <1>2. (s \div 10) % 65536 = s \div 10
    BY <1>1
  <1> QED BY <1>1, <1>2 DEF Encoded

\* A block of the caller's settings leaves what is written, and writes its part.
LEMMA PatchedWrote ==
  ASSUME TypeOK, NEW c \in Clients, JobOK(c), phase[c] = "write",
         live' = Patched(Request(c)), arg' = arg, idx' = idx, Wrote(c, idx[c])
  PROVE  Wrote(c, idx[c] + 1)' /\ Wrote(c, idx[c])'
  <1> DEFINE b == ConfigBlocks[idx[c]]  s == arg[c].set
  <1>1. /\ Request(c).off = b.off /\ Request(c).written = b.written /\ Request(c).set = s
        /\ idx[c] \in Nat
    BY TableLengths DEF Request, TypeOK
  <1>2. Encoded(s.interval) = s.interval
    <2>1. job[c] \in AllJobs \cup {"verify", "none"} /\ phase[c] \in PhasesOf(job[c])
          /\ s.interval \in Nat
      BY DEF TypeOK, JobOK, Parameters
    <2>2. job[c] = "configure"
      BY <2>1, PhaseMoves
    <2> QED BY <2>1, <2>2, ValidEncoded DEF JobOK
  <1>3. /\ live'.interval = IF Covers(b.off, b.written, \h4C, 2) THEN s.interval ELSE live.interval
        /\ live'.start = IF Covers(b.off, b.written, \h20, 1) THEN s.start ELSE live.start
    BY <1>1, <1>2 DEF Patched
  <1> HIDE DEF b
  <1>4. ASSUME NEW i \in 1..(idx[c] + 1) - 1
        PROVE  LET a == ConfigBlocks[i]
               IN  /\ Covers(a.off, a.written, \h4C, 2) => live'.interval = s.interval
                   /\ Covers(a.off, a.written, \h20, 1) => live'.start = s.start
    <2>1. CASE i = idx[c]
      BY <1>3, <2>1 DEF b
    <2>2. CASE i # idx[c]
      <3>1. i \in 1..idx[c] - 1
        BY <1>1, <2>2
      <3> QED BY <1>3, <3>1 DEF Wrote
    <2> QED BY <2>1, <2>2
  <1>5. Wrote(c, idx[c] + 1)'
    BY <1>4 DEF Wrote
  <1>6. \A i \in 1..idx[c] - 1 : i \in 1..(idx[c] + 1) - 1
    BY <1>1
  <1>7. Wrote(c, idx[c])'
    BY <1>4, <1>6 DEF Wrote
  <1> QED BY <1>5, <1>7

\* With all blocks written the device has the caller's settings.
LEMMA WroteAll ==
  ASSUME TypeOK, BlocksSound, NEW c \in Clients, Wrote(c, Len(ConfigBlocks) + 1)
  PROVE  live = arg[c].set
  <1>1. Len(ConfigBlocks) \in Nat
    BY LoggerAssumption
  <1>2. \A i \in 1..Len(ConfigBlocks) : i \in 1..(Len(ConfigBlocks) + 1) - 1
    BY <1>1
  <1>3. live.interval = arg[c].set.interval /\ live.start = arg[c].set.start
    BY <1>2 DEF Wrote, BlocksSound
  <1>4. live \in Parameters /\ arg[c].set \in Parameters
    BY DEF TypeOK
  <1> QED BY <1>3, <1>4 DEF Parameters

\* A ring gets the report, or a damaged one, or nothing.
LEMMA EmitRing ==
  ASSUME TypeOK, NEW c \in Clients, NEW r \in Reports, Emit(r)
  PROVE  /\ UNCHANGED <<fd, session>>
         /\ \A i \in 1..Len(queue'[c]) :
                \/ queue'[c][i] \in {r, Garbled}
                \/ i \in 1..Len(queue[c]) /\ queue'[c][i] = queue[c][i]
  <1>0. queue[c] \in Seq(Reports) /\ c \in DOMAIN queue
    BY DEF TypeOK
  <1>1. ASSUME NEW x \in {r, Garbled}, queue' = Broadcast(fd, queue, x)
        PROVE  \A i \in 1..Len(queue'[c]) :
                   \/ queue'[c][i] \in {r, Garbled}
                   \/ i \in 1..Len(queue[c]) /\ queue'[c][i] = queue[c][i]
    <2>1. queue'[c] = queue[c] \/ queue'[c] = Buffered(queue[c], x)
      BY <1>0, <1>1 DEF Broadcast
    <2>2. x \in Reports
      BY GarbledType
    <2>3. CASE queue'[c] = Buffered(queue[c], x)
      <3> DEFINE b == Buffered(queue[c], x)
      <3>1. \A i \in 1..Len(b) : b[i] = x \/ (i \in 1..Len(queue[c]) /\ b[i] = queue[c][i])
        BY <1>0, <2>2, BufferedSeq
      <3> HIDE DEF b
      <3> QED BY <2>3, <3>1 DEF b
    <2> QED BY <2>1, <2>3
  <1>2. ASSUME UNCHANGED queue
        PROVE  \A i \in 1..Len(queue'[c]) :
                   i \in 1..Len(queue[c]) /\ queue'[c][i] = queue[c][i]
    BY <1>2
  <1>3. UNCHANGED <<fd, session>>
    BY DEF Emit
  <1> QED BY <1>1, <1>2, <1>3 DEF Emit

\* No unplugging leaves the file open, and the bus is left only by that.
LEMMA StaysPlugged ==
  ASSUME CountsCurrent, NEW c \in Clients, DeviceStep, fd'[c] = "live", fd[c] = "live"
  PROVE  ~Unplug /\ ~Record /\ ~Replug
  <1>1. plugged
    BY LiveIsPlugged
  <1>2. ~Unplug
    BY DEF Unplug
  <1> QED BY <1>1, <1>2 DEF Record, Replug

\* The settings change under a block, or off the bus.
LEMMA LiveMoves ==
  ASSUME DeviceStep
  PROVE  live' = live \/ AnswerSet \/ Replug
  BY DEF DeviceStep, AnswerGet, AnswerRead05, AnswerFormat, AnswerStop, Ignore, Unplug, Record

\* The oldest request is gone, and at most one format was there, the oldest.
LEMMA DeviceFormats ==
  ASSUME TypeOK, CountsCurrent, FormatsWhole, DeviceStep
  PROVE  FormatsWhole'
  <1>0. inbox \in Seq(Requests)
    BY DEF TypeOK
  <1>1. ASSUME inbox # <<>>, inbox' = Tail(inbox) PROVE FormatsWhole'
    <2>1. \A i \in 1..Len(inbox') : i + 1 \in 1..Len(inbox) /\ inbox'[i] = inbox[i + 1]
                                    /\ i + 1 # 1
      BY <1>0, <1>1
    <2>2. \A i \in 1..Len(inbox') : inbox'[i].op # "format"
      BY <2>1 DEF FormatsWhole
    <2> QED BY <2>2 DEF FormatsWhole
  <1>2. ASSUME inbox' = <<>> PROVE FormatsWhole'
    BY <1>2 DEF FormatsWhole
  <1>3. CASE Record
    BY <1>3 DEF Record, FormatsWhole
  <1>4. CASE Replug
    BY <1>2, <1>4 DEF Replug, CountsCurrent, OffTheBus
  <1>5. CASE Unplug
    BY <1>2, <1>5 DEF Unplug
  <1> QED BY <1>1, <1>3, <1>4, <1>5 DEF DeviceStep, AnswerGet, AnswerRead05, AnswerSet,
             AnswerFormat, AnswerStop, Ignore, Oldest

\* A block in the device is the one Configure waits for.
LEMMA DeviceBlocks ==
  ASSUME TypeOK, CountsCurrent, DeviceStep, NEW c \in Clients,
         StreamOK(c), JobOK(c), BlockStream(c), Obeys => BlocksOK(c)
  PROVE  BlockStream(c)' /\ (Obeys => BlocksOK(c)')
  <1>types. DeviceOK /\ LinkOK
    BY TypeParts
  <1>1. UNCHANGED <<phase, idx, waiting, job, arg, result>> /\ Own(c)' = Own(c)
        /\ Own(c) \in 0..1 /\ (waiting[c] <=> Own(c) = 1)
    BY DeviceMoves DEF session, Own, TypeOK
  <1>2. /\ Length(c)' <= Length(c) /\ Length(c)' \in Nat /\ Length(c) \in Nat
        /\ \A from \in 1..2, short \in 0..1, kind \in {"first", "count"} :
               Span(c, from, short, kind) => Span(c, from, short, kind)'
    BY DeviceSpan
  <1>3. BlockStream(c)'
    <2>1. phase[c] = "read" /\ idx[c] = 1 =>
              Length(c)' <= 1 + Own(c) /\ (Own(c) = 1 => Span(c, 1, 1, "count")')
              /\ (Own(c) = 0 => Span(c, 1, 0, "count")')
      BY <1>1, <1>2 DEF BlockStream
    <2>2. phase[c] \in {"write", "format"} \/ (phase[c] = "read" /\ idx[c] > 1) =>
              Length(c)' <= Own(c)
      BY <1>1, <1>2 DEF BlockStream
    <2>3. phase[c] = "read" /\ idx[c] = 1 => Span(c, 1, Own(c), "count")'
      <3>1. CASE Own(c) = 1
        BY <1>1, <2>1, <3>1 DEF Span
      <3>2. CASE Own(c) = 0
        BY <1>1, <2>1, <3>2 DEF Span
      <3> QED BY <1>1, <3>1, <3>2
    <2> QED BY <1>1, <2>1, <2>2, <2>3 DEF BlockStream
  <1> SUFFICES ASSUME Obeys PROVE BlocksOK(c)'
    BY <1>3
  <1>4. ASSUME fd'[c] = "live", phase[c] \in {"write", "format"}, ~waiting[c]
        PROVE  live' = live
    <2>1. Length(c) = 0
      BY <1>1, <1>2, <1>4 DEF BlockStream
    <2>2. inbox = <<>>
      BY <1>types, <2>1, LengthType
    <2>3. fd[c] = "live" /\ ~Replug
      BY <1>4, DeviceMoves, StaysPlugged
    <2> QED BY <2>2, <2>3, LiveMoves DEF AnswerSet, Oldest
  <1>5. ASSUME fd'[c] = "live", phase[c] = "write", waiting[c]
        PROVE  /\ Wrote(c, idx[c])'
               /\ \A i \in 1..Len(inbox') : inbox'[i] = Request(c)
               /\ \A i \in 1..Len(queue'[c]) :
                     queue'[c][i].op = "set" /\ queue'[c][i].ok => Wrote(c, idx[c] + 1)'
    <2>1. fd[c] = "live" /\ ~Unplug /\ ~Record /\ ~Replug
      BY <1>5, DeviceMoves, StaysPlugged
    <2>2. inbox # <<>>
      BY <2>1 DEF DeviceStep, AnswerGet, AnswerRead05, AnswerSet, AnswerFormat, AnswerStop,
                  Ignore, Oldest
    <2>3. /\ Wrote(c, idx[c]) /\ \A i \in 1..Len(inbox) : inbox[i] = Request(c)
      BY <1>5, <2>1 DEF BlocksOK
    <2>4. Head(inbox) = Request(c) /\ Request(c).op = "set" /\ Request(c) \in Requests
      <3>1. 1 \in 1..Len(inbox) /\ Head(inbox) = inbox[1]
        BY <1>types, <2>2 DEF DeviceOK
      <3> QED BY <1>5, <2>3, <3>1, TypeParts, RequestType DEF Request, OpOf, Peeks
    <2>5. queue[c] = <<>> /\ Len(inbox) = 1
      <3>1. Len(queue[c]) + Len(inbox) <= 1 /\ Len(inbox) >= 1
            /\ Len(queue[c]) \in Nat /\ Len(inbox) \in Nat
        BY <1>types, <1>1, <1>5, <2>2, LengthType DEF BlockStream
      <3> DEFINE m == Len(queue[c])  n == Len(inbox)
      <3>a. m + n <= 1 /\ n >= 1 /\ m \in Nat /\ n \in Nat
        BY <3>1
      <3> HIDE DEF m, n
      <3>b. m = 0 /\ n = 1
        BY <3>a
      <3>2. Len(queue[c]) = 0 /\ Len(inbox) = 1
        BY <3>b DEF m, n
      <3> QED BY <1>types, <3>2, LengthType
    <2>6. CASE AnswerSet
      <3>0. inbox' = Tail(inbox) /\ Len(inbox') = 0
        BY <1>types, <2>5, <2>6 DEF AnswerSet, Oldest, DeviceOK
      <3> DEFINE yes == Report(Request(c), Request(c).off, 1, TRUE, Blank)
                 no  == Report(Request(c), Request(c).off, 1, FALSE, Blank)
      <3>1. yes \in Reports /\ no \in Reports
        <4>1. Request(c).off \in Nat
          BY <2>4 DEF Requests
        <4> QED BY <2>4, <4>1, ReportType, BlankType
      <3>2. ~no.ok /\ ~Garbled.ok
        BY DEF Report, Garbled
      <3>3. \/ live' = Patched(Request(c)) /\ Emit(yes)
            \/ live' = live /\ Emit(no)
        BY <2>4, <2>6 DEF AnswerSet, Obeys
      <3> HIDE DEF yes, no
      <3>4. CASE live' = Patched(Request(c)) /\ Emit(yes)
        <4>1. Wrote(c, idx[c] + 1)' /\ Wrote(c, idx[c])'
          BY <1>1, <1>5, <2>3, <3>4, PatchedWrote
        <4> QED BY <3>0, <4>1
      <3>5. CASE live' = live /\ Emit(no)
        <4>1. \A i \in 1..Len(queue'[c]) : queue'[c][i] \in {no, Garbled}
          BY <2>5, <3>1, <3>5, EmitRing
        <4>2. Wrote(c, idx[c])'
          BY <1>1, <2>3, <3>5 DEF Wrote
        <4>3. \A i \in 1..Len(queue'[c]) : ~queue'[c][i].ok
          BY <3>2, <4>1
        <4>4. \A i \in 1..Len(inbox') : FALSE
          <5>1. Len(inbox') = 0
            BY <3>0
          <5> QED BY <5>1
        <4> QED BY <4>2, <4>3, <4>4
      <3> QED BY <3>3, <3>4, <3>5
    <2>7. CASE Ignore
      <3>1. live' = live /\ queue' = queue /\ inbox' = Tail(inbox) /\ Len(inbox') = 0
        BY <1>types, <2>5, <2>7 DEF Ignore, link, DeviceOK
      <3>2. Wrote(c, idx[c])'
        BY <1>1, <2>3, <3>1 DEF Wrote
      <3>3. /\ \A i \in 1..Len(inbox') : FALSE
            /\ \A i \in 1..Len(queue'[c]) : FALSE
        <4>1. Len(inbox') = 0 /\ Len(queue'[c]) = 0
          BY <2>5, <3>1
        <4> QED BY <4>1
      <3> QED BY <3>2, <3>3
    <2>8. ~AnswerGet /\ ~AnswerRead05 /\ ~AnswerFormat /\ ~AnswerStop
      BY <2>4 DEF AnswerGet, AnswerRead05, AnswerFormat, AnswerStop, Oldest
    <2> QED BY <2>1, <2>6, <2>7, <2>8 DEF DeviceStep
  <1>6. fd'[c] = "live" => fd[c] = "live"
    BY DeviceMoves
  <1>7. ASSUME fd'[c] = "live", phase[c] = "write" PROVE Wrote(c, idx[c])'
    <2>1. CASE ~waiting[c]
      <3>1. live' = live /\ Wrote(c, idx[c])
        BY <1>4, <1>6, <1>7, <2>1 DEF BlocksOK
      <3> QED BY <1>1, <3>1 DEF Wrote
    <2> QED BY <1>5, <1>7, <2>1
  <1>8. Request(c)' = Request(c)
    BY <1>1 DEF Request
  <1>9. fd'[c] = "live" /\ phase[c] = "format" /\ ~waiting[c] => live' = arg[c].set
    BY <1>4, <1>6 DEF BlocksOK
  <1> QED BY <1>1, <1>5, <1>7, <1>8, <1>9 DEF BlocksOK

\* A phase that is not about blocks.
LEMMA NoBlocks ==
  ASSUME NEW c \in Clients, phase'[c] \notin {"read", "write", "format"}
  PROVE  BlockStream(c)' /\ BlocksOK(c)'
  BY DEF BlockStream, BlocksOK

\* A request is written: the block behind nothing else.
LEMMA WriteBlocks ==
  ASSUME TypeOK, Shallow, NEW c \in Clients, CallerOK, BlockStream(c), Write(c)
  PROVE  BlockStream(c)' /\ (BlocksOK(c) => BlocksOK(c)')
  <1>types. DeviceOK /\ LinkOK /\ CursorOK
    BY TypeParts
  <1>1. /\ waiting'[c] = TRUE /\ waiting[c] = FALSE /\ Own(c) = 0 /\ Own(c)' = 1
        /\ UNCHANGED <<phase, idx, job, arg, live, fd>>
        /\ phase[c] \notin {"idle", "reopen"} /\ inbox' = Append(inbox, Request(c))
    BY DEF Write, TypeOK, Own
  <1>2. Length(c) \in Nat /\ Request(c) \in Requests /\ inbox \in Seq(Requests)
    BY <1>types, <1>1, LengthType, TypeParts, RequestType
  <1>read1. ASSUME phase[c] = "read", idx[c] = 1
            PROVE  Length(c)' <= 2 /\ Span(c, 1, 1, "count")'
    <2>1. Length(c) <= 1 /\ Span(c, 1, 0, "count")
      BY <1>read1, <1>1 DEF BlockStream
    <2> QED BY <1>2, <2>1, WriteSpan
  <1>later. ASSUME phase[c] \in {"write", "format"} \/ (phase[c] = "read" /\ idx[c] > 1)
            PROVE  /\ Length(c)' <= 1 /\ queue'[c] = <<>>
                   /\ \A i \in 1..Len(inbox') : inbox'[i] = Request(c)
    <2>1. Length(c) = 0
      BY <1>later, <1>1, <1>2 DEF BlockStream
    <2>2. Length(c)' <= 1 /\ queue'[c] = <<>>
      BY <1>2, <2>1, WriteSpan
    <2>3. inbox = <<>>
      BY <1>types, <2>1, LengthType
    <2> QED BY <1>1, <1>2, <2>2, <2>3
  <1>3. BlockStream(c)'
    <2>1. phase[c] = "read" /\ idx[c] = 1 => Span(c, 1, Own(c), "count")'
      BY <1>1, <1>read1 DEF Span
    <2> QED BY <1>1, <1>read1, <1>later, <2>1 DEF BlockStream
  <1> SUFFICES ASSUME BlocksOK(c) PROVE BlocksOK(c)'
    BY <1>3
  <1>4. Request(c)' = Request(c)
    BY <1>1 DEF Request
  <1>5. fd[c] = "live" /\ phase[c] = "write" => Wrote(c, idx[c])'
    BY <1>1 DEF BlocksOK, Wrote
  <1>6. phase[c] = "write" => \A i \in 1..Len(queue'[c]) : FALSE
    <2>1. phase[c] = "write" => Len(queue'[c]) = 0
      BY <1>later
    <2> QED BY <2>1
  <1> QED BY <1>1, <1>later, <1>4, <1>5, <1>6 DEF BlocksOK

\* A report is passed over.
LEMMA SkipBlocks ==
  ASSUME TypeOK, NEW c \in Clients, BlockStream(c), Skip(c)
  PROVE  BlockStream(c)' /\ (BlocksOK(c) => BlocksOK(c)')
  <1>types. DeviceOK /\ LinkOK
    BY TypeParts
  <1>1. /\ UNCHANGED <<phase, idx, waiting, job, arg, live, inbox, fd>>
        /\ queue[c] # <<>> /\ Pop(c) /\ phase[c] # "format"
        /\ waiting[c] /\ Own(c) = 1 /\ Own(c)' = 1
    BY DEF Skip, session, device, Own, Pop
  <1>2. Length(c)' = Length(c) - 1 /\ Length(c) >= 1 /\ Length(c) \in Nat
    BY <1>types, <1>1, PopSpan, LengthType
  <1>3. \A from \in 1..2, short \in 0..1, kind \in {"first", "count"} :
            Span(c, from, short, kind) => Span(c, 1, short, kind)'
    BY <1>1, PopSpan
  <1>4. phase[c] = "read" /\ idx[c] = 1 => Length(c)' <= 2 /\ Span(c, 1, 1, "count")'
    <2>1. phase[c] = "read" /\ idx[c] = 1 => Length(c) <= 2 /\ Span(c, 1, 1, "count")
      BY <1>1 DEF BlockStream
    <2> QED BY <1>2, <1>3, <2>1
  <1>5. phase[c] = "read" /\ idx[c] = 1 => Span(c, 1, Own(c), "count")'
    BY <1>1, <1>4 DEF Span
  <1>6. phase[c] = "write" \/ (phase[c] = "read" /\ idx[c] > 1) => Length(c)' <= 1
    BY <1>1, <1>2 DEF BlockStream
  <1>7. BlockStream(c)'
    BY <1>1, <1>4, <1>5, <1>6 DEF BlockStream
  <1> SUFFICES ASSUME BlocksOK(c) PROVE BlocksOK(c)'
    BY <1>7
  <1>8. Request(c)' = Request(c)
    BY <1>1 DEF Request
  <1>9. fd[c] = "live" /\ phase[c] = "write" =>
            /\ Wrote(c, idx[c])'
            /\ \A i \in 1..Len(inbox) : inbox[i] = Request(c)
            /\ \A i \in 1..Len(queue[c]) :
                  queue[c][i].op = "set" /\ queue[c][i].ok => Wrote(c, idx[c] + 1)'
    BY <1>1 DEF BlocksOK, Wrote
  <1>10. \A i \in 1..Len(queue'[c]) : \E j \in 1..Len(queue[c]) : queue'[c][i] = queue[c][j]
    <2>1. queue'[c] = Tail(queue[c]) /\ queue[c] \in Seq(Reports)
      BY <1>types, <1>1 DEF Pop, LinkOK
    <2> QED BY <1>1, <2>1, TailSeq
  <1>11. fd[c] = "live" /\ phase[c] = "write" =>
             \A i \in 1..Len(queue'[c]) :
                 queue'[c][i].op = "set" /\ queue'[c][i].ok => Wrote(c, idx[c] + 1)'
    BY <1>9, <1>10
  <1> QED BY <1>1, <1>8, <1>9, <1>11 DEF BlocksOK

\* A reply of a block is taken, the last on its way.
LEMMA ReplyBlocks ==
  ASSUME TypeOK, BlocksSound, NEW c \in Clients, CallerOK, BlockStream(c),
         BlockRead(c) \/ BlockWritten(c)
  PROVE  BlockStream(c)' /\ (BlocksOK(c) => BlocksOK(c)')
  <1>types. DeviceOK /\ LinkOK /\ CursorOK /\ CallOK
    BY TypeParts
  <1>1. /\ phase[c] \in {"read", "write"} /\ queue[c] # <<>> /\ waiting[c] /\ Pop(c)
        /\ Advance(c) /\ inbox' = inbox /\ Answers(c, Reply(c)) /\ Own(c) = 1
        /\ UNCHANGED <<job, arg, live, fd>>
        /\ phase[c] = "write" => Reply(c).ok
    BY DEF BlockRead, BlockWritten, Replied, device, Own, Pop
  <1>2. /\ Length(c)' = Length(c) - 1 /\ Length(c) >= 1 /\ Length(c) \in Nat
    BY <1>types, <1>1, PopSpan, LengthType
  <1>3. Table(phase[c]) = ConfigBlocks /\ idx[c] \in 1..Len(ConfigBlocks)
        /\ Len(ConfigBlocks) \in Nat
    BY <1>types, <1>1, TableLengths, LoggerAssumption DEF CursorOK
  <1>4. Length(c)' = 0
    <2>1. CASE phase[c] = "read" /\ idx[c] = 1
      <3>1. Length(c) <= 2 /\ Span(c, 1, 1, "count")
        BY <1>1, <2>1 DEF BlockStream
      <3>2. ~Of(Reply(c), "count")
        <4>1. Table(phase[c])[idx[c]].off = 0 /\ OpOf(phase[c]) = "get"
          BY <1>3, <2>1 DEF BlocksSound, OpOf, Peeks
        <4>2. /\ Reply(c).op = "get"
              /\ Covers(Reply(c).off, Reply(c).n, 0, Table(phase[c])[idx[c]].n)
          BY <1>1, <4>1 DEF Answers
        <4>3. Reply(c).off \in Nat /\ Reply(c).n \in Nat
          <5>1. Reply(c) \in Reports
            BY <1>types, <1>1 DEF Reply, LinkOK
          <5> QED BY <5>1 DEF Reports
        <4>4. Reply(c).off <= 0
          BY <4>2 DEF Covers
        <4> QED BY <4>2, <4>3, <4>4 DEF Of
      <3>3. Length(c) = 1
        BY <1>1, <1>2, <3>1, <3>2, PopSpan
      <3> QED BY <1>2, <3>3
    <2>2. CASE phase[c] = "write" \/ (phase[c] = "read" /\ idx[c] > 1)
      <3>1. Length(c) <= 1
        BY <1>1, <2>2 DEF BlockStream
      <3> QED BY <1>2, <3>1
    <2> QED BY <1>1, <1>3, <2>1, <2>2
  <1>5. phase[c] \in PhasesOf(job[c]) /\ job[c] \in AllJobs \cup {"verify", "none"}
    BY <1>types DEF CallerOK, JobOK, CallOK
  <1>6. /\ waiting'[c] = FALSE /\ Own(c)' = 0
        /\ idx[c] < Len(ConfigBlocks) => phase'[c] = phase[c] /\ idx'[c] = idx[c] + 1
        /\ ~(idx[c] < Len(ConfigBlocks)) =>
               phase'[c] = NextPhase(job[c], phase[c]) /\ idx'[c] = 1
    BY <1>1, <1>3, AdvanceMoves
  <1>7. /\ phase[c] = "read" => NextPhase(job[c], phase[c]) = "write"
        /\ phase[c] = "write" => NextPhase(job[c], phase[c]) = "format"
    BY <1>5, PhaseMoves
  <1>8. BlockStream(c)'
    <2>1. ~(phase'[c] = "read" /\ idx'[c] = 1)
      BY <1>1, <1>3, <1>6, <1>7
    <2> QED BY <1>4, <1>6, <2>1 DEF BlockStream
  <1> SUFFICES ASSUME BlocksOK(c) PROVE BlocksOK(c)'
    BY <1>8
  <1>9. ASSUME fd[c] = "live", phase[c] = "write" PROVE Wrote(c, idx[c] + 1)
    <2>1. 1 \in 1..Len(queue[c]) /\ Reply(c) = queue[c][1]
      BY <1>types, <1>1 DEF LinkOK, Reply
    <2>2. Reply(c).op = "set" /\ Reply(c).ok
      BY <1>1, <1>9 DEF Answers, OpOf, Peeks
    <2> QED BY <1>1, <1>9, <2>1, <2>2 DEF BlocksOK
  <1>10. ASSUME fd[c] = "live", phase'[c] = "write" PROVE Wrote(c, idx[c])'
    <2>1. CASE phase[c] = "read"
      <3>1. idx'[c] = 1
        BY <1>6, <1>10, <2>1
      <3>2. \A i \in 1..idx'[c] - 1 : FALSE
        BY <3>1
      <3> QED BY <3>2 DEF Wrote
    <2>2. CASE phase[c] = "write"
      <3>1. idx'[c] = idx[c] + 1
        BY <1>6, <1>7, <1>10, <2>2
      <3>2. Wrote(c, idx[c] + 1)
        BY <1>9, <1>10, <2>2
      <3> QED BY <1>1, <3>1, <3>2 DEF Wrote
    <2> QED BY <1>1, <2>1, <2>2
  <1>11. ASSUME fd[c] = "live", phase'[c] = "format" PROVE live' = arg'[c].set
    <2>1. phase[c] = "write" /\ idx[c] = Len(ConfigBlocks)
      BY <1>1, <1>3, <1>6, <1>7, <1>11
    <2> QED BY <1>1, <1>9, <1>11, <2>1, WroteAll
  <1> QED BY <1>1, <1>6, <1>10, <1>11 DEF BlocksOK

\* A client touches the device but by writing to it.
LEMMA ClientDevice ==
  ASSUME NEW c \in Clients, ClientStep(c)
  PROVE  /\ UNCHANGED <<plugged, live, saved, store>>
         /\ inbox' = inbox \/ Write(c)
  <1>1. CASE Ends(c)
    BY <1>1 DEF Ends, Return, device
  <1>2. CASE Begin(c) \/ Skip(c) \/ Write(c)
    BY <1>2 DEF Begin, Skip, Write, device
  <1>3. CASE Prime(c) \/ CountKnown(c) \/ CountRetry(c) \/ CountUnknown(c)
    BY <1>3 DEF Prime, CountKnown, CountRetry, CountUnknown, device
  <1>4. CASE Field(c) \/ FieldSkipped(c) \/ Status(c)
    BY <1>4 DEF Field, FieldSkipped, Status, device
  <1>5. CASE BlockRead(c) \/ BlockWritten(c) \/ Formatted(c) \/ Reopen(c)
    BY <1>5 DEF BlockRead, BlockWritten, Formatted, Reopen, device
  <1> QED BY <1>1, <1>2, <1>3, <1>4, <1>5, StepKinds

\* The format is written to a device that holds nothing else.
LEMMA WriteFormats ==
  ASSUME TypeOK, NEW c \in Clients, CallerOK, BlockStream(c), Obeys => BlocksOK(c),
         FormatsWhole, Write(c)
  PROVE  FormatsWhole'
  <1>types. DeviceOK /\ LinkOK /\ CallOK
    BY TypeParts
  <1>1. /\ inbox' = Append(inbox, Request(c)) /\ live' = live /\ ~waiting[c]
        /\ fd[c] = "live" /\ phase[c] \notin {"idle", "reopen"}
    BY DEF Write, CanWrite
  <1>2. Request(c) \in Requests /\ inbox \in Seq(Requests)
    BY <1>types, <1>1, TypeParts, RequestType DEF DeviceOK
  <1>3. \A i \in 1..Len(inbox') :
            \/ i \in 1..Len(inbox) /\ inbox'[i] = inbox[i]
            \/ i = Len(inbox) + 1 /\ inbox'[i] = Request(c)
    BY <1>1, <1>2, AppendAt
  <1>4. ASSUME Request(c).op = "format"
        PROVE  /\ Len(inbox) = 0 /\ (Obeys => Request(c).set = live)
               /\ Request(c).set \in Settings /\ ValidInterval(Request(c).set.interval)
    <2>1. phase[c] = "format"
      <3>1. OpOf(phase[c]) = "format" /\ phase[c] \in Phases \cup {"idle"}
        BY <1>4 DEF Request, TypeOK
      <3> QED BY <3>1 DEF OpOf, Phases, Peeks
    <2>2. job[c] = "configure"
      <3>1. phase[c] \in PhasesOf(job[c]) /\ job[c] \in AllJobs \cup {"verify", "none"}
        BY <1>types DEF CallerOK, JobOK, CallOK
      <3> QED BY <2>1, <3>1, PhaseMoves
    <2>3. arg[c].set \in Settings /\ ValidInterval(arg[c].set.interval)
      BY <2>2 DEF CallerOK, JobOK
    <2>4. Obeys => live = arg[c].set
      BY <1>1, <2>1 DEF BlocksOK
    <2>5. Request(c).set = arg[c].set
      BY <2>1 DEF Request
    <2>6. Length(c) <= 0
      BY <1>1, <2>1 DEF BlockStream, Own
    <2>7. Len(inbox) = 0
      BY <1>types, <2>6, LengthType
    <2> QED BY <2>3, <2>4, <2>5, <2>7
  <1> QED BY <1>1, <1>3, <1>4 DEF FormatsWhole

\* Each step of the caller keeps the settings whole.
LEMMA ClientWhole ==
  ASSUME TypeOK, Alone, Shallow, BlocksSound, CallerOK, WholeOK,
         NEW c \in Clients, ClientStep(c)
  PROVE  WholeOK'
  <1>0. BlockStream(c) /\ (Obeys => BlocksOK(c)) /\ FormatsWhole
    BY DEF WholeOK
  <1>1. FormatsWhole'
    BY <1>0, ClientDevice, WriteFormats DEF FormatsWhole
  <1> SUFFICES BlockStream(c)' /\ (Obeys => BlocksOK(c)')
    BY <1>1 DEF WholeOK, Alone
  <1>2. CASE Ends(c)
    <2>1. phase'[c] = "idle"
      BY <1>2 DEF Ends, Return, Goto, TypeOK
    <2> QED BY <2>1, NoBlocks
  <1>3. CASE Begin(c) \/ Prime(c) \/ Formatted(c) \/ Reopen(c)
    <2>1. phase'[c] \in {"prime", "count", "stop", "reopen"} \cup Peeks
      BY <1>3, BeginCaller, PrimeCaller, ReopenCaller
    <2> QED BY <2>1, NoBlocks DEF Peeks
  <1>4. CASE CountKnown(c) \/ CountRetry(c) \/ CountUnknown(c)
    <2>1. phase'[c] \in {"count", "read", "fields"}
      BY <1>4, CountCaller
    <2>2. CASE phase'[c] = "read"
      <3>1. idx'[c] = 1 /\ waiting'[c] = FALSE /\ Length(c)' <= 1 /\ Span(c, 1, 0, "count")'
        BY <1>4, <2>2, CountCaller
      <3>2. Own(c)' = 0
        BY <3>1 DEF Own
      <3>3. Span(c, 1, Own(c), "count")'
        BY <3>1, <3>2 DEF Span
      <3> QED BY <2>2, <3>1, <3>2, <3>3 DEF BlockStream, BlocksOK
    <2>3. CASE phase'[c] # "read"
      BY <2>1, <2>3, NoBlocks
    <2> QED BY <2>2, <2>3
  <1>5. CASE Field(c) \/ FieldSkipped(c) \/ Status(c)
    <2>1. ~BlockRead(c) /\ ~BlockWritten(c)
      BY <1>5 DEF Field, FieldSkipped, Status, BlockRead, BlockWritten
    <2> QED BY <1>5, <2>1, TableCaller, NoBlocks
  <1> QED BY <1>0, <1>2, <1>3, <1>4, <1>5, StepKinds, SkipBlocks, WriteBlocks, ReplyBlocks

LEMMA NextWhole ==
  ASSUME TypeOK, CountsCurrent, Alone, Shallow, BlocksSound, CallerOK, WholeOK,
         [Next]_vars
  PROVE  WholeOK'
  <1>1. CASE DeviceStep
    <2>1. \A c \in Clients : BlockStream(c)' /\ (Obeys => BlocksOK(c)')
      BY <1>1, DeviceBlocks DEF WholeOK, CallerOK
    <2>2. FormatsWhole'
      BY <1>1, DeviceFormats DEF WholeOK
    <2> QED BY <2>1, <2>2 DEF WholeOK
  <1>2. ASSUME NEW c \in Clients, ClientStep(c) PROVE WholeOK'
    BY <1>2, ClientWhole
  <1>3. CASE UNCHANGED vars
    BY <1>3 DEF vars, WholeOK, FormatsWhole, BlockStream, BlocksOK, Wrote, Request, Length,
                Span, Own
  <1> QED BY <1>1, <1>2, <1>3 DEF Next

LEMMA InitWhole ==
  ASSUME Init PROVE WholeOK
  <1>1. FormatsWhole
    BY DEF Init, FormatsWhole
  <1>2. \A c \in Clients : BlockStream(c) /\ BlocksOK(c)
    BY DEF Init, BlockStream, BlocksOK
  <1> QED BY <1>1, <1>2 DEF WholeOK

\* What lasts changes by the format alone, to the settings it is meant for.
LEMMA SavedStep ==
  ASSUME TypeOK, Obeys, WholeOK, [Next]_vars, saved' # saved
  PROVE  /\ AnswerFormat /\ saved' = Head(inbox).set
         /\ Head(inbox).set \in Settings /\ ValidInterval(Head(inbox).set.interval)
  <1>1. AnswerFormat
    <2>1. ~\E c \in Clients : ClientStep(c)
      BY ClientDevice
    <2> QED BY <2>1 DEF Next, vars, DeviceStep, AnswerGet, AnswerRead05, AnswerSet, AnswerStop,
               Ignore, Unplug, Record, Replug
  <1>2. inbox \in Seq(Requests) /\ inbox # <<>> /\ Head(inbox).op = "format" /\ saved' = live
    BY <1>1 DEF TypeOK, AnswerFormat, Oldest
  <1>3. 1 \in 1..Len(inbox) /\ Head(inbox) = inbox[1]
    BY <1>2
  <1> QED BY <1>1, <1>2, <1>3 DEF WholeOK, FormatsWhole

\* For one caller, and a logger that means what it acknowledges: what a replug
\* restores changes only to the whole settings of one Configure, wherever the blocks,
\* their replies, the cable or the caller break off.
THEOREM CommitIsWhole ==
  ASSUME Alone, Shallow, BlocksSound, Obeys PROVE Spec => CommitWhole
  <1>1. TypeOK /\ WholeOK /\ [Next]_vars =>
            [saved' # saved => saved' = Head(inbox).set]_vars
    BY SavedStep
  <1>2. TypeOK /\ CountsCurrent /\ CallerOK /\ WholeOK /\ [Next]_vars => CallerOK' /\ WholeOK'
    BY NextCaller, NextWhole
  <1> QED BY <1>1, <1>2, InitCaller, InitWhole, TypeCorrect, CountsAlwaysCurrent,
             PTL DEF Spec, CommitWhole

-----------------------------------------------------------------------------
(* The logger is a store *)

\* The orders that stand are good: those of calls, and of formats.
LEMMA StandingGood ==
  ASSUME TypeOK, CallerOK, WholeOK PROVE Standing \subseteq Owner!Orders
  <1> DEFINE Good == {s \in Parameters : ValidInterval(s.interval)}
  <1>1. ASSUME NEW c \in Clients, job[c] = "configure" PROVE arg[c] \in Owner!Orders
    <2>1. arg[c] \in [set: Parameters, confirmed: Nat] /\ ValidInterval(arg[c].set.interval)
      BY <1>1 DEF TypeOK, CallerOK, JobOK
    <2>2. arg[c].set \in Good
      BY <2>1
    <2> QED BY <2>1, <2>2 DEF Owner!Orders
  <1>2. ASSUME NEW i \in 1..Len(inbox), inbox[i].op = "format"
        PROVE  [set |-> inbox[i].set, confirmed |-> inbox[i].confirmed] \in Owner!Orders
    <2>1. inbox[i] \in Requests /\ ValidInterval(inbox[i].set.interval)
      BY <1>2 DEF TypeOK, WholeOK, FormatsWhole
    <2>2. inbox[i].set \in Good /\ inbox[i].confirmed \in Nat
      BY <2>1 DEF Requests
    <2> QED BY <2>2 DEF Owner!Orders
  <1> QED BY <1>1, <1>2 DEF Standing

\* No new format and no new call: no new order.
LEMMA StandingShrinks ==
  ASSUME \A i \in 1..Len(inbox') : \E j \in 1..Len(inbox) : inbox'[i] = inbox[j],
         \A d \in Clients : job'[d] = "configure" => job[d] = "configure" /\ arg'[d] = arg[d]
  PROVE  Standing' \subseteq Standing
  <1>1. ASSUME NEW d \in Clients, job'[d] = "configure" PROVE arg'[d] \in Standing
    BY <1>1 DEF Standing
  <1>2. ASSUME NEW i \in 1..Len(inbox'), inbox'[i].op = "format"
        PROVE  [set |-> inbox'[i].set, confirmed |-> inbox'[i].confirmed] \in Standing
    <2>1. PICK j \in 1..Len(inbox) : inbox'[i] = inbox[j]
      OBVIOUS
    <2> QED BY <1>2, <2>1 DEF Standing
  <1> QED BY <1>1, <1>2 DEF Standing

\* No format and no call gone: no order gone.
LEMMA StandingGrows ==
  ASSUME \A i \in 1..Len(inbox) : i \in 1..Len(inbox') /\ inbox'[i] = inbox[i],
         \A d \in Clients : job[d] = "configure" => job'[d] = "configure" /\ arg'[d] = arg[d]
  PROVE  Standing \subseteq Standing'
  <1>1. ASSUME NEW d \in Clients, job[d] = "configure" PROVE arg[d] \in Standing'
    BY <1>1 DEF Standing
  <1>2. ASSUME NEW i \in 1..Len(inbox), inbox[i].op = "format"
        PROVE  [set |-> inbox[i].set, confirmed |-> inbox[i].confirmed] \in Standing'
    BY <1>2 DEF Standing
  <1> QED BY <1>1, <1>2 DEF Standing

\* The device gives no orders.
LEMMA DeviceOrders ==
  ASSUME TypeOK, DeviceStep PROVE Standing' \subseteq Standing
  <1>0. inbox \in Seq(Requests)
    BY DEF TypeOK
  <1>1. inbox' \in {inbox, <<>>} \/ (inbox # <<>> /\ inbox' = Tail(inbox))
    BY DEF DeviceStep, AnswerGet, AnswerRead05, AnswerSet, AnswerFormat, AnswerStop,
           Oldest, Ignore, Unplug, Record, Replug
  <1>2. UNCHANGED <<job, arg>>
    BY DEF DeviceStep, AnswerGet, AnswerRead05, AnswerSet, AnswerFormat, AnswerStop,
           Emit, session, Ignore, Unplug, Record, Replug
  <1>3. \A i \in 1..Len(inbox') : \E j \in 1..Len(inbox) : inbox'[i] = inbox[j]
    <2>1. CASE inbox' = inbox
      BY <2>1
    <2>2. CASE inbox' = <<>>
      <3>1. Len(inbox') = 0
        BY <2>2
      <3> QED BY <3>1
    <2>3. CASE inbox # <<>> /\ inbox' = Tail(inbox)
      BY <1>0, <2>3, TailSeq
    <2> QED BY <1>1, <2>1, <2>2, <2>3
  <1> QED BY <1>2, <1>3, StandingShrinks

\* The caller gives its order by beginning Configure and by the format, and
\* withdraws it by ending; never both.
LEMMA ClientOrders ==
  ASSUME TypeOK, CallerOK, NEW c \in Clients, ClientStep(c)
  PROVE  Standing' \subseteq Standing \/ Standing \subseteq Standing'
  <1>0. inbox \in Seq(Requests) /\ job \in [Clients -> AllJobs \cup {"verify", "none"}]
        /\ arg \in [Clients -> [set: Parameters, confirmed: Nat]]
    BY DEF TypeOK
  <1>1. CASE Begin(c)
    <2>1. job[c] # "configure"
      BY <1>1 DEF Begin, Active, CallerOK, JobOK, PhasesOf, Peeks
    <2>2. \A d \in Clients : d # c => job'[d] = job[d] /\ arg'[d] = arg[d]
      BY <1>0, <1>1 DEF Begin
    <2>3. inbox' = inbox
      BY <1>1 DEF Begin
    <2> QED BY <2>1, <2>2, <2>3, StandingGrows
  <1>2. CASE Write(c)
    <2>1. inbox' = Append(inbox, Request(c)) /\ UNCHANGED <<job, arg>>
          /\ phase[c] \notin {"idle", "reopen"}
      BY <1>2 DEF Write
    <2>2. Request(c) \in Requests
      BY <2>1, TypeParts, RequestType
    <2>3. \A i \in 1..Len(inbox) : i \in 1..Len(inbox') /\ inbox'[i] = inbox[i]
      BY <1>0, <2>1, <2>2
    <2> QED BY <2>1, <2>3, StandingGrows
  <1>3. ASSUME inbox' = inbox,
               \A d \in Clients : job'[d] = "configure" => job[d] = "configure" /\ arg'[d] = arg[d]
        PROVE  Standing' \subseteq Standing
    BY <1>3, StandingShrinks
  <1>4. CASE Ends(c)
    <2>1. inbox' = inbox /\ job' = [job EXCEPT ![c] = "none"] /\ arg' = [arg EXCEPT ![c] = NoArg]
      BY <1>4 DEF Ends, Return, device
    <2> QED BY <1>0, <1>3, <2>1
  <1>5. CASE Reopen(c)
    <2>1. inbox' = inbox /\ job' = [job EXCEPT ![c] = "verify"] /\ arg' = arg
      BY <1>5 DEF Reopen, device
    <2> QED BY <1>0, <1>3, <2>1
  <1>6. ASSUME UNCHANGED <<inbox, job, arg>> PROVE Standing' \subseteq Standing
    BY <1>3, <1>6
  <1>7. CASE Skip(c) \/ Prime(c) \/ CountKnown(c) \/ CountRetry(c) \/ CountUnknown(c)
    BY <1>6, <1>7 DEF Skip, session, Prime, CountKnown, CountRetry, CountUnknown, device
  <1>8. CASE Field(c) \/ FieldSkipped(c) \/ Status(c)
    BY <1>6, <1>8 DEF Field, FieldSkipped, Status, device
  <1>9. CASE BlockRead(c) \/ BlockWritten(c) \/ Formatted(c)
    BY <1>6, <1>9 DEF BlockRead, BlockWritten, Formatted, device
  <1> QED BY <1>1, <1>2, <1>4, <1>5, <1>7, <1>8, <1>9, StepKinds

\* Orders may come or go while what lasts stays.
LEMMA OrderStep ==
  ASSUME Standing' \subseteq Owner!Orders, store' = store, saved' = saved,
         Standing' \subseteq Standing \/ Standing \subseteq Standing'
  PROVE  Owner!Next
  BY DEF Owner!Next, Owner!Order

\* Every step is one of the owner's store, or none.
LEMMA NextStore ==
  ASSUME TypeOK, Obeys, CountsCurrent, CallerOK, WholeOK, [Next]_vars,
         TypeOK', CallerOK', WholeOK'
  PROVE  [Owner!Next]_(Owner!vars)
  <1>0. Standing' \subseteq Owner!Orders
    <2>1. (TypeOK /\ CallerOK /\ WholeOK)' => (Standing \subseteq Owner!Orders)'
      BY StandingGood, PTL
    <2>2. Owner!Orders' = Owner!Orders
      BY DEF Owner!Orders
    <2> QED BY <2>1, <2>2
  <1>1. ASSUME NEW c \in Clients, ClientStep(c) PROVE Owner!Next
    BY <1>0, <1>1, ClientOrders, ClientDevice, OrderStep
  <1>2. CASE UNCHANGED vars
    BY <1>2 DEF vars, Owner!vars, Standing
  <1>3. CASE AnswerFormat
    <2>1. /\ inbox \in Seq(Requests) /\ inbox # <<>> /\ Head(inbox).op = "format"
          /\ saved' = live /\ store' = 0
      BY <1>3 DEF TypeOK, AnswerFormat, Oldest
    <2>2. 1 \in 1..Len(inbox) /\ Head(inbox) = inbox[1]
      BY <2>1
    <2> DEFINE o == [set |-> inbox[1].set, confirmed |-> inbox[1].confirmed]
    <2>3. o \in Standing
      BY <2>1, <2>2 DEF Standing
    <2>4. store \in {0, o.confirmed}
      BY <2>1, <2>2 DEF CountsCurrent, FormatsCurrent
    <2>5. saved' = o.set
      BY <2>1, <2>2 DEF WholeOK, FormatsWhole
    <2>6. Standing' \subseteq Standing
      BY <1>3, DeviceOrders DEF DeviceStep
    <2> HIDE DEF o
    <2> QED BY <2>1, <2>3, <2>4, <2>5, <2>6 DEF Owner!Next, Owner!Configure
  <1>4. CASE Record
    <2>1. store' = store + 1 /\ saved' = saved /\ Standing' = Standing
      BY <1>4 DEF Record, session, Standing
    <2> QED BY <2>1 DEF Owner!Next, Owner!Record
  <1>5. CASE DeviceStep /\ ~AnswerFormat /\ ~Record
    <2>1. store' = store /\ saved' = saved
      BY <1>5 DEF DeviceStep, AnswerGet, AnswerRead05, AnswerSet, AnswerStop, Ignore, Unplug,
                  Replug
    <2> QED BY <1>0, <1>5, <2>1, DeviceOrders, OrderStep
  <1> QED BY <1>1, <1>2, <1>3, <1>4, <1>5 DEF Next

LEMMA InitStore ==
  ASSUME Init PROVE Owner!Init
  <1>1. store \in Nat /\ saved = Factory
    BY LoggerAssumption DEF Init
  <1>2. Standing = {}
    BY DEF Init, Standing
  <1> QED BY <1>1, <1>2 DEF Owner!Init

\* For one caller, and a logger that means what it acknowledges: to the owner a
\* Configure is one step, which erases what was confirmed and makes its settings
\* last, or does neither.
THEOREM LoggerIsAStore ==
  ASSUME Alone, Shallow, BlocksSound, Obeys PROVE Spec => ImplementsStore
  <1> DEFINE IInv == TypeOK /\ CountsCurrent /\ CallerOK /\ WholeOK
  <1>1. Init => IInv
    BY InitType, InitCounts, InitCaller, InitWhole
  <1>2. IInv /\ [Next]_vars => IInv'
    BY NextType, NextCounts, NextCaller, NextWhole
  <1>3. IInv /\ [Next]_vars /\ IInv' => [Owner!Next]_(Owner!vars)
    BY NextStore
  <1>4. Init => Owner!Init
    BY InitStore
  <1> QED BY <1>1, <1>2, <1>3, <1>4, PTL DEF Spec, ImplementsStore, Owner!Spec

-----------------------------------------------------------------------------
(* One caller: the settings last *)

\* Configure is called with no start setting that a field not read shows.
Telling == \A s \in Settings : s.start \notin {ZeroInfo.start, Blank.start}

\* Data of the memory that lasts, or blank.
Lasts(d) == d.interval \in {saved.interval, 0} /\ d.start \in {saved.start, Blank.start}

\* Configure has sent the format.
AfterFormat(c) ==
    job[c] = "verify" \/ phase[c] = "reopen" \/ (phase[c] = "format" /\ waiting[c])

Reading(r) == r.op \in {"get", "read05"}

\* The format is yet to be handled, before all that the call asks for later.
ToFormat(c) ==
    /\ phase[c] \in {"format", "reopen"} \/ (phase[c] = "prime" /\ idx[c] = 1)
    /\ queue[c] = <<>>
    /\ inbox # <<>> /\ Head(inbox).op = "format"
    /\ \A i \in 1..Len(Tail(inbox)) : Reading(Tail(inbox)[i])

\* All there is to read is what lasts.
FromSaved(c) ==
    /\ plugged => live = saved
    /\ \A i \in 1..Len(inbox) : Reading(inbox[i])
    /\ \A i \in 1..Len(queue[c]) : Lasts(queue[c][i].data)

\* What Configure has read back since is of what lasts, or missing.
GotOK(c) ==
    /\ phase[c] \notin {"fields", "status"} => got[c] = ZeroInfo
    /\ job[c] = "verify" =>
           /\ got[c].interval \in {saved.interval, 0}
           /\ got[c].start \in {saved.start, Blank.start, ZeroInfo.start}

KeptOK ==
    \A c \in Clients : GotOK(c) /\ (AfterFormat(c) => ToFormat(c) \/ FromSaved(c))

\* What a ring holds after a step of its client it held before.
Keeps(c) ==
    \A i \in 1..Len(queue'[c]) : \E j \in 1..Len(queue[c]) : queue'[c][i] = queue[c][j]

\* Reading, draining, closing and opening bring nothing into a ring.
LEMMA LinkKeeps ==
  ASSUME LinkOK, NEW c \in Clients,
         \/ queue[c] # <<>> /\ Pop(c)
         \/ queue' = [queue EXCEPT ![c] = Drained(@)]
         \/ Failed(c) \/ NoCount(c) \/ Close(c) \/ Open(c)
  PROVE  Keeps(c)
  <1>0. queue[c] \in Seq(Reports) /\ c \in DOMAIN queue
    BY DEF LinkOK
  <1>1. CASE queue[c] # <<>> /\ Pop(c)
    BY <1>0, <1>1, TailSeq DEF Pop, Keeps
  <1>2. CASE queue' = [queue EXCEPT ![c] = Drained(@)]
    BY <1>0, <1>2, DrainedSeq DEF Keeps
  <1>3. CASE Close(c) \/ Open(c)
    <2>1. Len(queue'[c]) = 0
      BY <1>0, <1>3 DEF Close, Open
    <2> QED BY <2>1 DEF Keeps
  <1>4. CASE UNCHANGED link
    BY <1>4 DEF link, Keeps
  <1> QED BY <1>1, <1>2, <1>3, <1>4 DEF NoCount, Failed, Spoiled, Replied

\* A client that sends nothing goes on from what lasts.
LEMMA KeepsSaved ==
  ASSUME NEW c \in Clients, FromSaved(c), Keeps(c), UNCHANGED <<plugged, live, saved, inbox>>
  PROVE  FromSaved(c)'
  BY DEF FromSaved, Keeps, Lasts

\* What the device reports of the memory that lasts.
LEMMA MemoryLasts ==
  ASSUME NEW x, x.data \in {Memory, Blank}, x.data = Memory => live = saved
  PROVE  Lasts(x.data)
  BY DEF Memory, Blank, Lasts

\* The device reads for the caller, or handles the format the caller sent before.
LEMMA DeviceKept ==
  ASSUME TypeOK, CountsCurrent, "ignore" \notin Faults, DeviceStep, NEW c \in Clients,
         GotOK(c), AfterFormat(c) => ToFormat(c) \/ FromSaved(c)
  PROVE  GotOK(c)' /\ (AfterFormat(c)' => ToFormat(c)' \/ FromSaved(c)')
  <1> DEFINE r == Head(inbox)
  <1>types. DeviceOK /\ LinkOK
    BY TypeParts
  <1>1. UNCHANGED <<phase, idx, waiting, job, got>>
    BY DeviceMoves DEF session
  <1>2. AfterFormat(c)' <=> AfterFormat(c)
    BY <1>1 DEF AfterFormat
  <1>3. inbox \in Seq(Requests) /\ queue[c] \in Seq(Reports)
    BY <1>types DEF DeviceOK, LinkOK
  <1>4. inbox # <<>> => /\ plugged /\ r \in Requests /\ 1 \in 1..Len(inbox) /\ r = inbox[1]
                        /\ \A i \in 1..Len(Tail(inbox)) :
                               i + 1 \in 1..Len(inbox) /\ Tail(inbox)[i] = inbox[i + 1]
    BY <1>3, TailAt DEF CountsCurrent, OffTheBus
  <1>5. ASSUME UNCHANGED saved PROVE GotOK(c)'
    BY <1>1, <1>5 DEF GotOK
  <1>read. ASSUME AnswerGet \/ AnswerRead05, AfterFormat(c) PROVE FromSaved(c)'
    <2>1. FromSaved(c) /\ inbox # <<>> /\ inbox' = Tail(inbox) /\ UNCHANGED <<plugged, live, saved>>
      BY <1>read DEF AnswerGet, AnswerRead05, Oldest, ToFormat
    <2>2. live = saved /\ \A i \in 1..Len(inbox') : Reading(inbox'[i])
      BY <1>4, <2>1 DEF FromSaved
    <2>3. PICK x \in Reports : Emit(x) /\ x.data \in {Memory, Blank}
      <3>1. r \in Requests /\ r.off \in Nat /\ r.n \in Nat
        BY <1>4, <2>1 DEF Requests
      <3>2. Memory \in Contents /\ Blank \in Contents
        BY <1>types, MemoryType, BlankType
      <3>3. \E off \in Nat, n \in Nat, d \in {Memory, Blank} : Emit(Report(r, off, n, TRUE, d))
        <4>1. CASE AnswerGet
          <5>1. r.off >= 4 => r.off - 4 \in Nat /\ r.n + 4 \in Nat
            BY <3>1
          <5> QED BY <3>1, <4>1, <5>1 DEF AnswerGet
        <4>2. CASE AnswerRead05
          BY <3>1, <4>2 DEF AnswerRead05
        <4> QED BY <1>read, <4>1, <4>2
      <3>4. PICK off \in Nat, n \in Nat, d \in {Memory, Blank} : Emit(Report(r, off, n, TRUE, d))
        BY <3>3
      <3>5. Report(r, off, n, TRUE, d) \in Reports /\ Report(r, off, n, TRUE, d).data = d
        BY <3>1, <3>2, <3>4, ReportType DEF Report
      <3> QED BY <3>4, <3>5
    <2>4. Lasts(x.data) /\ Lasts(Garbled.data)
      <3>1. Garbled.data = Blank
        BY DEF Garbled
      <3> QED BY <2>2, <2>3, <3>1, MemoryLasts
    <2>5. \A i \in 1..Len(queue'[c]) :
              \/ queue'[c][i] \in {x, Garbled}
              \/ i \in 1..Len(queue[c]) /\ queue'[c][i] = queue[c][i]
      BY <2>3, EmitRing
    <2>6. \A i \in 1..Len(queue[c]) : Lasts(queue[c][i].data)
      BY <2>1 DEF FromSaved
    <2>7. \A i \in 1..Len(queue'[c]) : Lasts(queue'[c][i].data)
      BY <2>4, <2>5, <2>6
    <2> QED BY <2>1, <2>2, <2>7 DEF FromSaved, Lasts
  <1>format. ASSUME AnswerFormat, AfterFormat(c) PROVE GotOK(c)' /\ FromSaved(c)'
    <2>1. inbox # <<>> /\ r.op = "format" /\ inbox' = Tail(inbox)
          /\ saved' = live /\ live' = live /\ Emit(Report(r, 0, 1, TRUE, Blank))
      BY <1>format DEF AnswerFormat, Oldest
    <2>2. ToFormat(c)
      BY <1>4, <1>format, <2>1 DEF FromSaved, Reading
    <2>3. got[c] = ZeroInfo
      BY <2>2 DEF ToFormat, GotOK
    <2>4. GotOK(c)'
      BY <1>1, <2>3 DEF GotOK, ZeroInfo
    <2>5. \A i \in 1..Len(queue'[c]) : queue'[c][i].data = Blank
      <3> DEFINE x == Report(r, 0, 1, TRUE, Blank)
      <3>1. x \in Reports /\ x.data = Blank /\ Garbled.data = Blank
        BY <1>4, <2>1, ReportType, BlankType DEF Report, Garbled
      <3>2. Len(queue[c]) = 0
        BY <2>2 DEF ToFormat
      <3>3. Emit(x)
        BY <2>1
      <3> HIDE DEF x
      <3>4. \A i \in 1..Len(queue'[c]) : queue'[c][i] \in {x, Garbled}
        BY <3>1, <3>2, <3>3, EmitRing
      <3> QED BY <3>1, <3>4
    <2>6. \A i \in 1..Len(inbox') : Reading(inbox'[i])
      BY <2>1, <2>2 DEF ToFormat
    <2> QED BY <2>1, <2>4, <2>5, <2>6 DEF FromSaved, Lasts, Blank
  <1>formatElse. ASSUME AnswerFormat, ~AfterFormat(c) PROVE GotOK(c)'
    BY <1>1, <1>formatElse DEF GotOK, AfterFormat
  <1>other. ASSUME AnswerSet \/ AnswerStop PROVE ~AfterFormat(c)
    BY <1>4, <1>other DEF AnswerSet, AnswerStop, Oldest, ToFormat, FromSaved, Reading
  <1>unplug. ASSUME Unplug, AfterFormat(c) PROVE FromSaved(c)'
    <2>1. plugged' = FALSE /\ inbox' = <<>> /\ UNCHANGED <<live, saved, queue>>
      BY <1>unplug DEF Unplug
    <2>2. \A i \in 1..Len(inbox') : Reading(inbox'[i])
      BY <2>1
    <2>3. CASE ToFormat(c)
      <3>1. Len(queue'[c]) = 0
        BY <2>1, <2>3 DEF ToFormat
      <3> QED BY <2>1, <2>2, <3>1 DEF FromSaved
    <2>4. CASE FromSaved(c)
      BY <2>1, <2>2, <2>4 DEF FromSaved, Lasts
    <2> QED BY <1>unplug, <2>3, <2>4
  <1>rest. ASSUME Record \/ Replug, AfterFormat(c) PROVE FromSaved(c)'
    <2>1. ~plugged /\ UNCHANGED <<saved, inbox, queue>> /\ (Record => plugged' = plugged)
          /\ (Replug => live' = saved)
      BY <1>rest DEF Record, Replug, link
    <2>2. FromSaved(c)
      BY <1>4, <1>rest, <2>1 DEF ToFormat
    <2> QED BY <1>rest, <2>1, <2>2 DEF FromSaved, Lasts
  <1>saved. saved' = saved \/ AnswerFormat
    BY DEF DeviceStep, AnswerGet, AnswerRead05, AnswerSet, AnswerStop, Ignore, Unplug, Record,
           Replug
  <1>got. GotOK(c)'
    BY <1>5, <1>saved, <1>format, <1>formatElse
  <1> QED
    BY <1>2, <1>got, <1>read, <1>format, <1>other, <1>unplug, <1>rest DEF DeviceStep, Ignore

\* What Configure asks for after the format are reads.
LEMMA VerifyReads ==
  ASSUME NEW c \in Clients, phase[c] \in {"prime", "count", "fields", "status"}
  PROVE  Reading(Request(c))
  BY DEF Request, OpOf, Peeks, Reading

\* The format is written behind nothing, and reads behind it or behind reads.
LEMMA WriteKept ==
  ASSUME TypeOK, NEW c \in Clients, CallerOK, BlockStream(c), Write(c),
         GotOK(c), AfterFormat(c) => ToFormat(c) \/ FromSaved(c)
  PROVE  GotOK(c)' /\ (AfterFormat(c)' => ToFormat(c)' \/ FromSaved(c)')
  <1>types. DeviceOK /\ LinkOK
    BY TypeParts
  <1>1. /\ phase[c] \notin {"idle", "reopen"} /\ ~waiting[c]
        /\ queue' = [queue EXCEPT ![c] = Drained(@)] /\ inbox' = Append(inbox, Request(c))
        /\ UNCHANGED <<phase, idx, job, got, plugged, live, saved>>
    BY DEF Write
  <1>2. GotOK(c)'
    BY <1>1 DEF GotOK
  <1>3. inbox \in Seq(Requests) /\ Request(c) \in Requests
        /\ phase[c] \in PhasesOf(job[c]) /\ job[c] \in AllJobs \cup {"verify", "none"}
    BY <1>types, <1>1, TypeParts, RequestType DEF DeviceOK, CallerOK, JobOK, TypeOK
  <1>4. \A i \in 1..Len(inbox') : \/ i \in 1..Len(inbox) /\ inbox'[i] = inbox[i]
                                  \/ inbox'[i] = Request(c)
    BY <1>1, <1>3, AppendAt
  <1>5. CASE phase[c] = "format"
    <2>1. Length(c) <= 0
      BY <1>1, <1>5 DEF BlockStream, Own
    <2>2. queue[c] = <<>> /\ inbox = <<>>
      BY <1>types, <2>1, LengthType
    <2>3. queue'[c] = <<>>
      BY <1>types, <1>1, <2>2, DrainedEmpty DEF LinkOK
    <2>4. inbox' = <<Request(c)>> /\ Request(c).op = "format"
      BY <1>1, <1>5, <2>2 DEF Request, OpOf, Peeks
    <2>5. inbox' # <<>> /\ Head(inbox').op = "format" /\ Len(Tail(inbox')) = 0
      BY <2>4
    <2>6. ToFormat(c)'
      BY <1>1, <1>5, <2>3, <2>5 DEF ToFormat
    <2> QED BY <1>2, <2>6
  <1>6. ASSUME phase[c] # "format", AfterFormat(c)' PROVE ToFormat(c)' \/ FromSaved(c)'
    <2>1. job[c] = "verify" /\ AfterFormat(c)
      BY <1>1, <1>6 DEF AfterFormat
    <2>2. phase[c] \in {"prime", "count", "fields", "status"}
      BY <1>3, <2>1 DEF PhasesOf, Peeks
    <2>3. Reading(Request(c))
      BY <2>2, VerifyReads
    <2>4. CASE FromSaved(c)
      <3>1. Keeps(c)
        BY <1>types, <1>1, LinkKeeps
      <3>2. \A i \in 1..Len(inbox') : Reading(inbox'[i])
        BY <1>4, <2>3, <2>4 DEF FromSaved
      <3> QED BY <1>1, <2>4, <3>1, <3>2 DEF FromSaved, Keeps, Lasts
    <2>5. CASE ToFormat(c)
      <3>1. queue'[c] = <<>>
        BY <1>types, <1>1, <2>5, DrainedEmpty DEF ToFormat, LinkOK
      <3>2. inbox # <<>> /\ Head(inbox).op = "format"
        BY <2>5 DEF ToFormat
      <3>3. inbox' # <<>> /\ Head(inbox') = Head(inbox) /\ Tail(inbox) \in Seq(Requests)
            /\ Tail(inbox') = Append(Tail(inbox), Request(c))
        BY <1>1, <1>3, <3>2
      <3>4. \A i \in 1..Len(Tail(inbox')) :
                \/ i \in 1..Len(Tail(inbox)) /\ Tail(inbox')[i] = Tail(inbox)[i]
                \/ Tail(inbox')[i] = Request(c)
        BY <1>3, <3>3, AppendAt
      <3>5. \A i \in 1..Len(Tail(inbox')) : Reading(Tail(inbox')[i])
        BY <2>3, <2>5, <3>4 DEF ToFormat
      <3> QED BY <1>1, <2>5, <3>1, <3>2, <3>3, <3>5 DEF ToFormat
    <2> QED BY <2>1, <2>4, <2>5
  <1> QED BY <1>2, <1>5, <1>6

\* A reply, or its absence, in a call that goes on: Configure reads back what lasts.
LEMMA ReadKept ==
  ASSUME TypeOK, Shallow, NEW c \in Clients, CallerOK, GotOK(c),
         AfterFormat(c) => ToFormat(c) \/ FromSaved(c),
         \/ Skip(c) \/ Prime(c) \/ CountKnown(c) \/ CountRetry(c) \/ CountUnknown(c)
         \/ Field(c) \/ FieldSkipped(c) \/ Status(c) \/ BlockRead(c) \/ BlockWritten(c)
  PROVE  GotOK(c)' /\ (AfterFormat(c)' => ToFormat(c)' \/ FromSaved(c)')
  <1>types. DeviceOK /\ LinkOK /\ CursorOK /\ CallOK
    BY TypeParts
  <1>1. /\ UNCHANGED <<plugged, live, saved, inbox, job>>
        /\ (queue[c] # <<>> /\ Pop(c)) \/ Failed(c) \/ NoCount(c)
        /\ phase[c] \notin {"idle", "format", "reopen"}
        /\ phase[c] = "prime" => queue[c] # <<>>
    BY DEF Skip, Prime, CountKnown, CountRetry, CountUnknown, Field, FieldSkipped, Status,
           BlockRead, BlockWritten, Replied, device, session
  <1>2. phase'[c] # "reopen" /\ (phase'[c] = "format" => ~waiting'[c])
        /\ (phase'[c] \in {"fields", "status"} \/ got'[c] = got[c])
        /\ (phase[c] \in {"fields", "status"} => phase'[c] \in {"fields", "status"})
    <2>1. CASE Skip(c)
      BY <1>1, <2>1 DEF Skip, session
    <2>2. CASE Prime(c)
      BY <2>2, PrimeCaller DEF Prime, Peeks
    <2>3. CASE CountKnown(c) \/ CountRetry(c) \/ CountUnknown(c)
      <3>1. phase'[c] \in {"count", "read", "fields"} /\ phase[c] = "count" /\ got' = got
        BY <2>3, CountCaller DEF CountKnown, CountRetry, CountUnknown
      <3> QED BY <3>1
    <2>4. CASE Field(c) \/ FieldSkipped(c) \/ Status(c)
      <3>1. Advance(c) /\ phase[c] \in {"fields", "status"}
            /\ (phase[c] = "status" => idx[c] < Len(Table(phase[c])))
        <4>1. Table("status") = StatusReads
          BY DEF Table, Peeks
        <4> QED BY <2>4, <4>1 DEF Field, FieldSkipped, Status
      <3>2. phase'[c] \in {"fields", "status"}
        BY <3>1, AdvanceMoves DEF NextPhase
      <3> QED BY <3>1, <3>2
    <2>5. CASE BlockRead(c) \/ BlockWritten(c)
      <3>1. Advance(c) /\ phase[c] \in {"read", "write"} /\ got' = got
        BY <2>5 DEF BlockRead, BlockWritten
      <3>2. phase'[c] \in {"read", "write", "format"} /\ waiting'[c] = FALSE
        BY <3>1, AdvanceMoves DEF NextPhase
      <3> QED BY <3>1, <3>2
    <2> QED BY <2>1, <2>2, <2>3, <2>4, <2>5
  <1>3. AfterFormat(c)' => job[c] = "verify" /\ FromSaved(c)
    <2>1. AfterFormat(c)' => job[c] = "verify" /\ AfterFormat(c)
      BY <1>1, <1>2 DEF AfterFormat
    <2>2. ~ToFormat(c)
      <3>1. CASE Skip(c)
        BY <3>1 DEF Skip, ToFormat
      <3>2. CASE ~Skip(c)
        BY <1>1 DEF ToFormat
      <3> QED BY <3>1, <3>2
    <2> QED BY <2>1, <2>2
  <1>4. AfterFormat(c)' => FromSaved(c)'
    BY <1>types, <1>1, <1>3, LinkKeeps, KeepsSaved
  <1>5. phase'[c] \notin {"fields", "status"} => got'[c] = ZeroInfo
    BY <1>2 DEF GotOK
  <1>6. job'[c] = "verify" => /\ got'[c].interval \in {saved'.interval, 0}
                              /\ got'[c].start \in {saved'.start, Blank.start, ZeroInfo.start}
    <2>1. CASE got'[c] = got[c]
      BY <1>1, <2>1 DEF GotOK
    <2>2. CASE Field(c)
      <3>1. /\ queue[c] # <<>>
            /\ got'[c].interval \in {Reply(c).data.interval, got[c].interval}
            /\ got'[c].start \in {Reply(c).data.start, got[c].start}
        BY <1>types, <2>2 DEF Field, Replied, CallOK, Parameters
      <3>2. 1 \in 1..Len(queue[c]) /\ Reply(c) = queue[c][1]
        BY <1>types, <3>1 DEF LinkOK, Reply
      <3>3. job'[c] = "verify" => Lasts(Reply(c).data)
        BY <1>1, <1>3, <3>2 DEF AfterFormat, FromSaved
      <3> QED BY <1>1, <3>1, <3>3 DEF Lasts, GotOK
    <2>3. CASE ~Field(c)
      <3>1. got' = got
        BY <2>3 DEF Skip, session, Prime, CountKnown, CountRetry, CountUnknown, FieldSkipped,
                    Status, BlockRead, BlockWritten
      <3> QED BY <2>1, <3>1
    <2> QED BY <2>2, <2>3
  <1> QED BY <1>4, <1>5, <1>6 DEF GotOK

\* Configure closes and reopens without a look at the ring.
LEMMA ReopenKept ==
  ASSUME TypeOK, NEW c \in Clients, GotOK(c),
         AfterFormat(c) => ToFormat(c) \/ FromSaved(c), Formatted(c) \/ Reopen(c)
  PROVE  GotOK(c)' /\ (AfterFormat(c)' => ToFormat(c)' \/ FromSaved(c)')
  <1>types. LinkOK
    BY TypeParts
  <1>1. /\ UNCHANGED <<plugged, live, saved, inbox, got>> /\ (Close(c) \/ Open(c))
        /\ phase[c] \in {"format", "reopen"} /\ AfterFormat(c)
        /\ Goto(c, "reopen", 1) \/ Goto(c, "prime", 1)
    BY DEF Formatted, Reopen, device, AfterFormat
  <1>2. phase'[c] \in {"reopen", "prime"} /\ idx'[c] = 1 /\ queue'[c] = <<>>
    BY <1>1 DEF Goto, Close, Open, TypeOK
  <1>3. GotOK(c)'
    BY <1>1, <1>2 DEF GotOK, ZeroInfo
  <1>4. CASE ToFormat(c)
    BY <1>1, <1>2, <1>3, <1>4 DEF ToFormat
  <1>5. CASE FromSaved(c)
    BY <1>types, <1>1, <1>3, <1>5, LinkKeeps, KeepsSaved
  <1> QED BY <1>1, <1>4, <1>5

\* A call that begins has read nothing, as has one that ended.
LEMMA FreshKept ==
  ASSUME TypeOK, NEW c \in Clients, GotOK(c), Begin(c) \/ Ends(c)
  PROVE  GotOK(c)' /\ ~AfterFormat(c)'
  <1>1. CASE Begin(c)
    <2>1. PICK j \in Jobs : job' = [job EXCEPT ![c] = j] /\ Goto(c, "prime", 1)
                            /\ ~Active(c) /\ got' = got
      BY <1>1 DEF Begin
    <2>2. job'[c] # "verify" /\ phase'[c] = "prime" /\ phase[c] = "idle"
      <3>1. j \in AllJobs
        BY LoggerAssumption
      <3> QED BY <2>1, <3>1 DEF AllJobs, Peeks, Goto, Active, TypeOK
    <2> QED BY <2>1, <2>2 DEF GotOK, AfterFormat
  <1>2. CASE Ends(c)
    <2>1. phase'[c] = "idle" /\ job'[c] = "none" /\ got'[c] = ZeroInfo
      BY <1>2 DEF Ends, Return, Goto, TypeOK
    <2> QED BY <2>1 DEF GotOK, AfterFormat
  <1> QED BY <1>1, <1>2

LEMMA NextKept ==
  ASSUME TypeOK, CountsCurrent, Alone, Shallow, "ignore" \notin Faults, CallerOK, WholeOK, KeptOK,
         [Next]_vars
  PROVE  KeptOK'
  <1>1. CASE DeviceStep
    BY <1>1, DeviceKept DEF KeptOK
  <1>2. ASSUME NEW c \in Clients, ClientStep(c) PROVE KeptOK'
    <2>1. BlockStream(c) /\ GotOK(c) /\ (AfterFormat(c) => ToFormat(c) \/ FromSaved(c))
      BY DEF WholeOK, KeptOK
    <2>2. GotOK(c)' /\ (AfterFormat(c)' => ToFormat(c)' \/ FromSaved(c)')
      BY <1>2, <2>1, StepKinds, FreshKept, WriteKept, ReadKept, ReopenKept
    <2> QED BY <2>2 DEF KeptOK, Alone
  <1>3. CASE UNCHANGED vars
    BY <1>3 DEF vars, KeptOK, GotOK, AfterFormat, ToFormat, FromSaved, Lasts
  <1> QED BY <1>1, <1>2, <1>3 DEF Next

LEMMA InitKept ==
  ASSUME Init PROVE KeptOK
  BY DEF Init, KeptOK, GotOK, AfterFormat

\* Only the comparison lets the second half of Configure report success.
LEMMA VerifyStep ==
  ASSUME TypeOK, Alone, Telling, CallerOK, KeptOK, [Next]_vars, NEW c \in Clients,
         job[c] = "verify", result'[c] = "ok"
  PROVE  saved = arg[c].set
  <1>1. /\ result[c] = "none" /\ phase[c] \in {"prime", "count", "fields", "status"}
        /\ arg[c].set \in Settings /\ ValidInterval(arg[c].set.interval)
    BY DEF CallerOK, JobOK, PhasesOf, Peeks
  <1>2. PICK d \in Clients : ClientStep(d)
    BY <1>1, DeviceMoves DEF Next, vars, session
  <1>3. StatusDone(c)
    BY <1>1, <1>2, StepsOk DEF Alone, StopAnswered, Peeked, Peeks
  <1>4. VerifySettings(c)
    BY <1>3 DEF StatusDone, Finish, Return, TypeOK
  <1>5. /\ got[c].interval \in {saved.interval, 0}
        /\ got[c].start \in {saved.start, Blank.start, ZeroInfo.start}
    BY DEF KeptOK, GotOK
  <1>6. arg[c].set.interval # 0
    BY <1>1 DEF ValidInterval
  <1>7. saved.interval = arg[c].set.interval /\ saved.start = arg[c].set.start
    BY <1>1, <1>4, <1>5, <1>6 DEF VerifySettings, Telling
  <1>8. saved \in Parameters /\ arg[c].set \in Parameters
    BY DEF TypeOK
  <1> QED BY <1>7, <1>8 DEF Parameters

\* For one caller, a logger that handles what it receives, and settings a field not
\* read does not show: when Configure reports success its settings last, also when
\* the logger forgot or rejected blocks, damaged replies, or was replugged on the way.
THEOREM SuccessPersists ==
  ASSUME Alone, Shallow, BlocksSound, Telling, "ignore" \notin Faults
  PROVE  Spec => Persisted
  <1>1. TypeOK /\ CallerOK /\ KeptOK /\ [Next]_vars =>
            [\A c \in Clients : job[c] = "verify" /\ result'[c] = "ok" =>
                 saved = arg[c].set]_vars
    BY VerifyStep
  <1>2. TypeOK /\ CountsCurrent /\ CallerOK /\ WholeOK /\ KeptOK /\ [Next]_vars =>
            CallerOK' /\ WholeOK' /\ KeptOK'
    BY NextCaller, NextWhole, NextKept
  <1> QED BY <1>1, <1>2, InitCaller, InitWhole, InitKept, TypeCorrect, CountsAlwaysCurrent,
             PTL DEF Spec, Persisted

-----------------------------------------------------------------------------
(* What is left of a call *)

\* The tables that are parameters have lengths.
LEMMA LengthsOfTables ==
  /\ Len(FieldReads) \in Nat /\ Len(StatusReads) \in Nat /\ Len(ConfigBlocks) \in Nat
  /\ InfoExchanges \in Nat
  /\ InfoExchanges = 3 + Len(FieldReads) + Len(StatusReads)
  <1>1. Len(FieldReads) \in Nat /\ Len(StatusReads) \in Nat /\ Len(ConfigBlocks) \in Nat
    BY LoggerAssumption
  <1>2. Len(CountReads) = 3
    BY TableLengths
  <1> QED BY <1>1, <1>2 DEF InfoExchanges

\* What follows each phase, counted out for tables of f, s and b exchanges.
CountedOut(j, f, s, b) ==
    /\ f \in Nat /\ s \in Nat /\ b \in Nat
    /\ j \in {"stop"} \cup Peeks => Following(j, "prime") = 1
    /\ j = "configure" => Following(j, "prime") = 2 * b + f + s + 10
    /\ j \notin {"stop", "configure"} \cup Peeks => Following(j, "prime") = f + s + 3
    /\ j = "configure" => Following(j, "count") = 2 * b + f + s + 7
    /\ j # "configure" => Following(j, "count") = f + s
    /\ Following(j, "fields") = s
    /\ Following(j, "read") = b + f + s + 7
    /\ Following(j, "write") = f + s + 7
    /\ Following(j, "format") = f + s + 6
    /\ Following(j, "reopen") = f + s + 5
    /\ \A p \in {"status", "stop"} \cup Peeks : Following(j, p) = 0

LEMMA FollowingIs ==
  ASSUME NEW j
  PROVE  CountedOut(j, Len(FieldReads), Len(StatusReads), Len(ConfigBlocks))
  <1> DEFINE f == Len(FieldReads)  s == Len(StatusReads)  b == Len(ConfigBlocks)
  <1>1. Len(CountReads) = 3 /\ Len(PrimeReads) = 2
    BY TableLengths
  <1>2. f \in Nat /\ s \in Nat /\ b \in Nat /\ InfoExchanges = f + s + 3
    BY LengthsOfTables
  <1>3. Following(j, "prime") = IF j \in {"stop"} \cup Peeks THEN 1
                                ELSE IF j = "configure" THEN 3 + 2 * b + (2 + (2 + (f + s + 3)))
                                ELSE f + s + 3
    BY <1>1, <1>2 DEF Following
  <1>4. Following(j, "count") = IF j = "configure" THEN 2 * b + (2 + (2 + (f + s + 3)))
                                ELSE f + s
    BY <1>1, <1>2 DEF Following
  <1>5. /\ Following(j, "fields") = s
        /\ Following(j, "read") = b + (2 + (2 + (f + s + 3)))
        /\ Following(j, "write") = 2 + (2 + (f + s + 3))
    BY <1>1, <1>2 DEF Following
  <1>6. /\ Following(j, "format") = 1 + (2 + (f + s + 3))
        /\ Following(j, "reopen") = 2 + (f + s + 3)
    BY <1>1, <1>2 DEF Following
  <1>7. \A p \in {"status", "stop"} \cup Peeks : Following(j, p) = 0
    BY DEF Following, Peeks
  <1>8. "configure" \notin {"stop"} \cup Peeks
    BY DEF Peeks
  <1>9. /\ j \in {"stop"} \cup Peeks => Following(j, "prime") = 1
        /\ j = "configure" => Following(j, "prime") = 2 * b + f + s + 10
        /\ j \notin {"stop", "configure"} \cup Peeks => Following(j, "prime") = f + s + 3
    BY <1>2, <1>3, <1>8
  <1>10. /\ j = "configure" => Following(j, "count") = 2 * b + f + s + 7
         /\ j # "configure" => Following(j, "count") = f + s
    BY <1>2, <1>4
  <1>11. /\ Following(j, "read") = b + f + s + 7
         /\ Following(j, "write") = f + s + 7
         /\ Following(j, "format") = f + s + 6
         /\ Following(j, "reopen") = f + s + 5
    BY <1>2, <1>5, <1>6
  <1> HIDE DEF f, s, b
  <1>12. CountedOut(j, f, s, b)
    BY <1>2, <1>5, <1>7, <1>9, <1>10, <1>11, ZenonT(60) DEF CountedOut
  <1> QED BY <1>12 DEF f, s, b

LEMMA FollowingType ==
  ASSUME NEW j, NEW p \in Phases PROVE Following(j, p) \in Nat
  <1>1. PICK f, s, b : CountedOut(j, f, s, b)
    BY FollowingIs
  <1>2. p \in {"prime", "count", "fields", "read", "write", "format", "reopen"} \/
        p \in {"status", "stop"} \cup Peeks
    BY DEF Phases
  <1>3. ASSUME p = "prime" PROVE Following(j, p) \in Nat
    BY <1>1, <1>3 DEF CountedOut
  <1>4. ASSUME p = "count" PROVE Following(j, p) \in Nat
    BY <1>1, <1>4 DEF CountedOut
  <1>5. ASSUME p \in {"fields", "read", "write", "format", "reopen"} PROVE Following(j, p) \in Nat
    BY <1>1, <1>5 DEF CountedOut
  <1>6. ASSUME p \in {"status", "stop"} \cup Peeks PROVE Following(j, p) \in Nat
    BY <1>1, <1>6 DEF CountedOut
  <1> QED BY <1>2, <1>3, <1>4, <1>5, <1>6

\* The exchanges that follow a phase leave room for those of the next one.
LEMMA NextFollows ==
  ASSUME NEW j, NEW p \in {"prime", "count", "fields", "read", "write"}
  PROVE  /\ NextPhase(j, p) \in Phases
         /\ Len(Table(NextPhase(j, p))) + Following(j, NextPhase(j, p)) <= Following(j, p)
  <1>q. PICK q : q = NextPhase(j, p)
    OBVIOUS
  <1>f. PICK f, s, b : /\ f = Len(FieldReads) /\ s = Len(StatusReads) /\ b = Len(ConfigBlocks)
                       /\ CountedOut(j, f, s, b)
    BY FollowingIs
  <1> DEFINE l == Len(Table(q))  x == Following(j, q)  y == Following(j, p)
  <1> SUFFICES q \in Phases /\ l + x <= y
    BY <1>q
  <1>0. f \in Nat /\ s \in Nat /\ b \in Nat
    BY <1>f DEF CountedOut
  <1>t. /\ Len(Table("count")) = 3 /\ Len(Table("stop")) = 1 /\ Len(Table("format")) = 1
        /\ Len(Table("read")) = b /\ Len(Table("write")) = b
        /\ Len(Table("fields")) = f /\ Len(Table("status")) = s
        /\ \A k \in Peeks : Len(Table(k)) = 1
    <2>1. /\ Table("fields") = FieldReads /\ Table("status") = StatusReads
          /\ \A k \in Peeks : Table(k) = PeekRead
      BY DEF Table, Peeks
    <2>2. Len(PeekRead) = 1
      BY DEF PeekRead
    <2> QED BY <1>f, <2>1, <2>2, TableLengths
  <1>1. CASE p = "prime" /\ j \in {"stop"} \cup Peeks
    <2>1. q = j /\ q \in Phases
      BY <1>q, <1>1 DEF NextPhase, Phases
    <2>2. l = 1
      BY <1>1, <1>t, <2>1
    <2>3. x = 0 /\ y = 1
      BY <1>f, <1>1, <2>1, Zenon DEF CountedOut
    <2> QED BY <2>1, <2>2, <2>3
  <1>2. CASE p = "prime" /\ j = "configure"
    <2>1. q = "count" /\ q \in Phases
      BY <1>q, <1>2 DEF NextPhase, Phases, Peeks
    <2>2. x = 2 * b + f + s + 7 /\ y = 2 * b + f + s + 10
      BY <1>f, <1>2, <2>1, Zenon DEF CountedOut
    <2>3. l = 3
      BY <1>t, <2>1, Zenon
    <2> HIDE DEF l, x, y
    <2> QED BY <1>0, <2>1, <2>2, <2>3
  <1>3. CASE p = "prime" /\ j \notin {"stop", "configure"} \cup Peeks
    <2>1. q = "count" /\ q \in Phases
      BY <1>q, <1>3 DEF NextPhase, Phases
    <2>2. x = f + s /\ y = f + s + 3
      BY <1>f, <1>3, <2>1, Zenon DEF CountedOut
    <2>3. l = 3
      BY <1>t, <2>1, Zenon
    <2> HIDE DEF l, x, y
    <2> QED BY <1>0, <2>1, <2>2, <2>3
  <1>4. CASE p = "count" /\ j = "configure"
    <2>1. q = "read" /\ q \in Phases
      BY <1>q, <1>4 DEF NextPhase, Phases
    <2>2. x = b + f + s + 7 /\ y = 2 * b + f + s + 7
      BY <1>f, <1>4, <2>1, Zenon DEF CountedOut
    <2>3. l = b
      BY <1>t, <2>1, Zenon
    <2> HIDE DEF l, x, y
    <2> QED BY <1>0, <2>1, <2>2, <2>3
  <1>5. CASE p = "count" /\ j # "configure"
    <2>1. q = "fields" /\ q \in Phases
      BY <1>q, <1>5 DEF NextPhase, Phases
    <2>2. x = s /\ y = f + s
      BY <1>f, <1>5, <2>1, Zenon DEF CountedOut
    <2>3. l = f
      BY <1>t, <2>1, Zenon
    <2> HIDE DEF l, x, y
    <2> QED BY <1>0, <2>1, <2>2, <2>3
  <1>6. CASE p = "fields"
    <2>1. q = "status" /\ q \in Phases
      BY <1>q, <1>6 DEF NextPhase, Phases
    <2>2. x = 0 /\ y = s
      BY <1>f, <1>6, <2>1, Zenon DEF CountedOut
    <2>3. l = s
      BY <1>t, <2>1, Zenon
    <2> HIDE DEF l, x, y
    <2> QED BY <1>0, <2>1, <2>2, <2>3
  <1>7. CASE p = "read"
    <2>1. q = "write" /\ q \in Phases
      BY <1>q, <1>7 DEF NextPhase, Phases
    <2>2. x = f + s + 7 /\ y = b + f + s + 7
      BY <1>f, <1>7, <2>1, Zenon DEF CountedOut
    <2>3. l = b
      BY <1>t, <2>1, Zenon
    <2> HIDE DEF l, x, y
    <2> QED BY <1>0, <2>1, <2>2, <2>3
  <1>8. CASE p = "write"
    <2>1. q = "format" /\ q \in Phases
      BY <1>q, <1>8 DEF NextPhase, Phases
    <2>2. x = f + s + 6 /\ y = f + s + 7
      BY <1>f, <1>8, <2>1, Zenon DEF CountedOut
    <2>3. l = 1
      BY <1>t, <2>1, Zenon
    <2> HIDE DEF l, x, y
    <2> QED BY <1>0, <2>1, <2>2, <2>3
  <1> QED BY <1>1, <1>2, <1>3, <1>4, <1>5, <1>6, <1>7, <1>8

\* What is left of a call is a number, and more than none while it runs.
LEMMA LeftType ==
  ASSUME TypeOK, NEW c \in Clients
  PROVE  /\ Left(c) \in Nat
         /\ Active(c) => Left(c) >= 1
  <1>1. CASE ~Active(c)
    BY <1>1 DEF Left
  <1>2. CASE Active(c)
    <2> DEFINE len == Len(Table(phase[c]))  f == Following(job[c], phase[c])
    <2>1. idx[c] \in 1..len /\ idx[c] \in Nat /\ waiting[c] \in BOOLEAN
      BY DEF TypeOK
    <2>2. len \in Nat
      BY TableType DEF TypeOK
    <2>3. f \in Nat
      BY <1>2, FollowingType DEF TypeOK, Active
    <2>4. Left(c) = 2 * (len - idx[c] + f) + (IF waiting[c] THEN 1 ELSE 2)
      BY <1>2 DEF Left
    <2> HIDE DEF len, f
    <2> QED BY <2>1, <2>2, <2>3, <2>4
  <1> QED BY <1>1, <1>2

\* One that returns has nothing left.
LEMMA LeftReturns ==
  ASSUME TypeOK, NEW c \in Clients, NEW o, Return(c, o)
  PROVE  Left(c)' = 0
  <1>1. Goto(c, "idle", 1)
    BY DEF Return
  <1>2. phase'[c] = "idle"
    BY <1>1, GotoMoves
  <1> QED BY <1>2 DEF Left, Active

\* One that goes on to an exchange of phase p has that much.
LEMMA LeftOfPhase ==
  ASSUME TypeOK, NEW c \in Clients, NEW p \in Phases, NEW i, Goto(c, p, i)
  PROVE  Left(c)' = 2 * (Len(Table(p)) - i + Following(job'[c], p)) + 2
  <1>1. phase'[c] = p /\ idx'[c] = i /\ waiting'[c] = FALSE
    BY GotoMoves
  <1>2. p # "idle"
    BY DEF Phases, Peeks
  <1> QED BY <1>1, <1>2 DEF Left, Active

LEMMA LessLeft ==
  \A next, g, len, f, i \in Nat : i <= len /\ next + g <= f =>
      2 * (next - 1 + g) + 2 < 2 * (len - i + f) + 1
  OBVIOUS

\* It has less left when it goes on in its phase,
LEMMA LeftOnwards ==
  ASSUME TypeOK, NEW c \in Clients, Active(c), job'[c] = job[c],
         Goto(c, phase[c], idx[c] + 1)
  PROVE  Left(c)' < Left(c)
  <1> DEFINE len == Len(Table(phase[c]))  f == Following(job[c], phase[c])
  <1>1. phase[c] \in Phases /\ idx[c] \in Nat /\ waiting[c] \in BOOLEAN
    BY DEF TypeOK, Active
  <1>2. len \in Nat /\ f \in Nat
    BY <1>1, TableType, FollowingType
  <1>3. Left(c)' = 2 * (len - (idx[c] + 1) + f) + 2
    BY <1>1, LeftOfPhase
  <1>4. Left(c) = 2 * (len - idx[c] + f) + (IF waiting[c] THEN 1 ELSE 2)
    BY DEF Left
  <1> HIDE DEF len, f
  <1> QED BY <1>1, <1>2, <1>3, <1>4

\* or with the first exchange of a phase that fits into what follows its own.
LEMMA LeftForPhase ==
  ASSUME TypeOK, NEW c \in Clients, Active(c), NEW p \in Phases, Goto(c, p, 1),
         Len(Table(p)) + Following(job'[c], p) <= Following(job[c], phase[c])
  PROVE  Left(c)' < Left(c)
  <1> DEFINE len == Len(Table(phase[c]))  f == Following(job[c], phase[c])
             next == Len(Table(p))  g == Following(job'[c], p)
  <1>1. phase[c] \in Phases /\ idx[c] \in Nat /\ idx[c] \in 1..len /\ waiting[c] \in BOOLEAN
    BY DEF TypeOK, Active
  <1>2. len \in Nat /\ f \in Nat /\ next \in Nat /\ g \in Nat
    BY <1>1, TableType, FollowingType
  <1>3. Left(c)' = 2 * (next - 1 + g) + 2
    BY LeftOfPhase
  <1>4. Left(c) = 2 * (len - idx[c] + f) + (IF waiting[c] THEN 1 ELSE 2)
    BY DEF Left
  <1>5. next + g <= f
    OBVIOUS
  <1>6. idx[c] <= len
    BY <1>1
  <1> HIDE DEF len, f, next, g
  <1>7. 2 * (next - 1 + g) + 2 < 2 * (len - idx[c] + f) + 1
    BY <1>1, <1>2, <1>5, <1>6, LessLeft
  <1>8. len - idx[c] + f \in Int
    BY <1>1, <1>2
  <1> QED BY <1>2, <1>3, <1>4, <1>7, <1>8

\* A step of its own, if it is not one that ends the call.
LEMMA ProgressKinds ==
  ASSUME NEW c \in Clients, Progress(c)
  PROVE  /\ Active(c)
         /\ \/ Ends(c) \/ Write(c) \/ Prime(c)
            \/ CountKnown(c) \/ CountRetry(c) \/ CountUnknown(c)
            \/ Field(c) \/ FieldSkipped(c) \/ Status(c)
            \/ BlockRead(c) \/ BlockWritten(c) \/ Formatted(c) \/ Reopen(c)
  <1>1. CASE GiveUp(c) \/ CountRefused(c) \/ CountMissing(c)
    BY <1>1 DEF GiveUp, CountRefused, CountMissing, Ends, Active
  <1>2. CASE StatusDone(c) \/ ReopenFails(c) \/ StopAnswered(c)
    BY <1>2 DEF StatusDone, Finish, ReopenFails, StopAnswered, Ends, Active
  <1>3. CASE StopUnanswered(c) \/ Peeked(c)
    BY <1>3 DEF StopUnanswered, Peeked, Ends, Active, Peeks
  <1>4. CASE Write(c) \/ Formatted(c) \/ Reopen(c)
    BY <1>4 DEF Write, Formatted, Reopen, Active
  <1>5. CASE Prime(c) \/ CountKnown(c) \/ CountRetry(c) \/ CountUnknown(c)
    BY <1>5 DEF Prime, CountKnown, CountRetry, CountUnknown, Active
  <1>6. CASE Field(c) \/ FieldSkipped(c) \/ Status(c) \/ BlockRead(c) \/ BlockWritten(c)
    BY <1>6 DEF Field, FieldSkipped, Status, BlockRead, BlockWritten, Active
  <1> QED BY <1>1, <1>2, <1>3, <1>4, <1>5, <1>6, Zenon DEF Progress

\* An exchange that ended leaves less, within its phase and at the end of it.
LEMMA AdvanceLess ==
  ASSUME TypeOK, NEW c \in Clients, Active(c), UNCHANGED job, Advance(c),
         \/ phase[c] \in {"prime", "fields", "read", "write"}
         \/ idx[c] < Len(Table(phase[c]))
  PROVE  Left(c)' < Left(c)
  <1>1. CASE idx[c] < Len(Table(phase[c]))
    <2>1. Goto(c, phase[c], idx[c] + 1)
      BY <1>1 DEF Advance
    <2> QED BY <2>1, LeftOnwards
  <1>2. CASE ~(idx[c] < Len(Table(phase[c])))
    <2>1. Goto(c, NextPhase(job[c], phase[c]), 1)
      BY <1>2 DEF Advance
    <2>2. phase[c] \in {"prime", "count", "fields", "read", "write"}
      BY <1>2
    <2> DEFINE q == NextPhase(job[c], phase[c])
    <2>3. q \in Phases
          /\ Len(Table(q)) + Following(job[c], q) <= Following(job[c], phase[c])
      BY <2>2, NextFollows
    <2> HIDE DEF q
    <2> QED BY <2>1, <2>3, LeftForPhase DEF q
  <1> QED BY <1>1, <1>2

\* Whatever a running call does leaves less of it.
LEMMA ProgressLess ==
  ASSUME TypeOK, NEW c \in Clients, Progress(c)
  PROVE  Left(c)' < Left(c)
  <1>active. Active(c)
    BY ProgressKinds
  <1>1. CASE Ends(c)
    <2>1. PICK o : Return(c, o)
      BY <1>1 DEF Ends
    <2> QED BY <1>active, <2>1, LeftReturns, LeftType
  <1>2. CASE Write(c)
    <2>1. /\ job' = job /\ phase' = phase /\ idx' = idx
          /\ waiting[c] = FALSE /\ waiting'[c] = TRUE
      BY <1>2 DEF Write, TypeOK
    <2> DEFINE x == Len(Table(phase[c])) - idx[c] + Following(job[c], phase[c])
    <2>2. Left(c) = 2 * x + 2 /\ Left(c)' = 2 * x + 1
      BY <1>active, <2>1 DEF Left, Active
    <2>3. x \in Int
      <3>1. phase[c] \in Phases /\ idx[c] \in Nat
        BY <1>active DEF TypeOK, Active
      <3> QED BY <3>1, TableType, FollowingType
    <2> HIDE DEF x
    <2> QED BY <2>2, <2>3
  <1>3. CASE Prime(c) \/ Field(c) \/ FieldSkipped(c) \/ BlockRead(c) \/ BlockWritten(c)
    <2>1. Advance(c) /\ UNCHANGED job /\ phase[c] \in {"prime", "fields", "read", "write"}
      BY <1>3 DEF Prime, Field, FieldSkipped, BlockRead, BlockWritten
    <2> QED BY <1>active, <2>1, AdvanceLess
  <1>4. CASE Status(c)
    <2>1. Advance(c) /\ UNCHANGED job /\ phase[c] = "status" /\ idx[c] < Len(StatusReads)
      BY <1>4 DEF Status
    <2>2. idx[c] < Len(Table(phase[c]))
      BY <2>1 DEF Table, Peeks
    <2> QED BY <1>active, <2>1, <2>2, AdvanceLess
  <1>5. CASE CountRetry(c)
    <2>1. phase[c] = "count" /\ UNCHANGED job /\ Goto(c, "count", idx[c] + 1)
      BY <1>5 DEF CountRetry
    <2> QED BY <1>active, <2>1, LeftOnwards
  <1>6. CASE CountKnown(c) \/ CountUnknown(c)
    <2> DEFINE q == NextPhase(job[c], "count")
    <2>1. phase[c] = "count" /\ UNCHANGED job /\ Goto(c, q, 1)
      BY <1>6 DEF CountKnown, CountUnknown
    <2>2. q \in Phases
          /\ Len(Table(q)) + Following(job[c], q) <= Following(job[c], phase[c])
      BY <2>1, NextFollows
    <2> HIDE DEF q
    <2> QED BY <1>active, <2>1, <2>2, LeftForPhase
  <1>7. CASE Formatted(c)
    <2>1. phase[c] = "format" /\ UNCHANGED job /\ Goto(c, "reopen", 1)
      BY <1>7 DEF Formatted
    <2>2. Following(job[c], "format") = Len(Table("reopen")) + Following(job[c], "reopen")
      <3>1. PICK f, s, b : CountedOut(job[c], f, s, b)
        BY FollowingIs
      <3>2. Len(Table("reopen")) = 1
        BY DEF Table, Command, Peeks
      <3>3. /\ f \in Nat /\ s \in Nat /\ Following(job[c], "format") = f + s + 6
            /\ Following(job[c], "reopen") = f + s + 5
        BY <3>1 DEF CountedOut
      <3> DEFINE l == Len(Table("reopen"))  x == Following(job[c], "format")
                 y == Following(job[c], "reopen")
      <3>4. l = 1 /\ f \in Nat /\ s \in Nat /\ x = f + s + 6 /\ y = f + s + 5
        BY <3>2, <3>3
      <3> HIDE DEF l, x, y
      <3>5. x = l + y
        BY <3>4
      <3> QED BY <3>5 DEF l, x, y
    <2>3. "reopen" \in Phases
      BY DEF Phases
    <2>4. Len(Table("reopen")) + Following(job[c], "reopen") <= Following(job[c], phase[c])
      <3>1. Following(job[c], "format") \in Nat
        BY FollowingType DEF Phases
      <3> QED BY <2>1, <2>2, <3>1
    <2> QED BY <1>active, <2>1, <2>3, <2>4, LeftForPhase
  <1>8. CASE Reopen(c)
    <2>1. phase[c] = "reopen" /\ job'[c] = "verify" /\ Goto(c, "prime", 1)
      BY <1>8 DEF Reopen, TypeOK
    <2>2. Len(Table("prime")) + Following("verify", "prime") <= Following(job[c], "reopen")
      <3>1. PICK f, s, b : /\ f = Len(FieldReads) /\ s = Len(StatusReads)
                           /\ CountedOut(job[c], f, s, b) /\ CountedOut("verify", f, s, b)
        BY FollowingIs
      <3>2. Len(Table("prime")) = 2
        BY TableLengths
      <3>3. /\ f \in Nat /\ s \in Nat /\ Following("verify", "prime") = f + s + 3
            /\ Following(job[c], "reopen") = f + s + 5
        BY <3>1 DEF CountedOut, Peeks
      <3> DEFINE l == Len(Table("prime"))  x == Following("verify", "prime")
                 y == Following(job[c], "reopen")
      <3>4. l = 2 /\ f \in Nat /\ s \in Nat /\ x = f + s + 3 /\ y = f + s + 5
        BY <3>2, <3>3
      <3> HIDE DEF l, x, y
      <3>5. l + x <= y
        BY <3>4
      <3> QED BY <3>5 DEF l, x, y
    <2>3. "prime" \in Phases
      BY DEF Phases
    <2> QED BY <1>active, <2>1, <2>2, <2>3, LeftForPhase
  <1> QED BY <1>1, <1>2, <1>3, <1>4, <1>5, <1>6, <1>7, <1>8, ProgressKinds

\* A session other than the one that steps stays where it is.
LEMMA OthersStay ==
  ASSUME TypeOK, NEW c \in Clients, NEW d \in Clients, c # d, ClientStep(d)
  PROVE  UNCHANGED <<job[c], phase[c], idx[c], waiting[c]>>
  <1>0. ASSUME NEW p, NEW i, Goto(d, p, i) PROVE UNCHANGED <<phase[c], idx[c], waiting[c]>>
    BY <1>0 DEF Goto, TypeOK
  <1>1. CASE Ends(d)
    <2>1. PICK o : Return(d, o)
      BY <1>1 DEF Ends
    <2>2. Goto(d, "idle", 1) /\ job' = [job EXCEPT ![d] = "none"]
      BY <2>1 DEF Return
    <2>3. job'[c] = job[c]
      BY <2>2 DEF TypeOK
    <2> QED BY <1>0, <2>2, <2>3
  <1>2. CASE Begin(d)
    <2>1. PICK j : Goto(d, "prime", 1) /\ job' = [job EXCEPT ![d] = j]
      BY <1>2 DEF Begin
    <2>2. job'[c] = job[c]
      BY <2>1 DEF TypeOK
    <2> QED BY <1>0, <2>1, <2>2
  <1>3. CASE Skip(d)
    BY <1>3 DEF Skip, session
  <1>4. CASE Write(d)
    BY <1>4 DEF Write, TypeOK
  <1>5. CASE Prime(d) \/ Field(d) \/ FieldSkipped(d) \/ Status(d) \/ BlockRead(d) \/ BlockWritten(d)
    <2>1. Advance(d) /\ UNCHANGED job
      BY <1>5 DEF Prime, Field, FieldSkipped, Status, BlockRead, BlockWritten
    <2>2. \E p, i : Goto(d, p, i)
      BY <2>1, Zenon DEF Advance
    <2> QED BY <1>0, <2>1, <2>2
  <1>6. CASE CountKnown(d) \/ CountRetry(d) \/ CountUnknown(d) \/ Formatted(d)
    <2>1. (\E p, i : Goto(d, p, i)) /\ UNCHANGED job
      BY <1>6 DEF CountKnown, CountRetry, CountUnknown, Formatted
    <2> QED BY <1>0, <2>1
  <1>7. CASE Reopen(d)
    <2>1. Goto(d, "prime", 1) /\ job' = [job EXCEPT ![d] = "verify"]
      BY <1>7 DEF Reopen
    <2>2. job'[c] = job[c]
      BY <2>1 DEF TypeOK
    <2> QED BY <1>0, <2>1, <2>2
  <1> QED BY <1>1, <1>2, <1>3, <1>4, <1>5, <1>6, <1>7, StepKinds

\* The device and the bus leave every session where it is.
LEMMA DeviceStays ==
  ASSUME DeviceStep PROVE UNCHANGED session
  <1>1. CASE Ignore \/ Unplug \/ Record \/ Replug
    BY <1>1 DEF Ignore, Unplug, Record, Replug
  <1>2. CASE AnswerGet \/ AnswerRead05 \/ AnswerSet \/ AnswerFormat \/ AnswerStop
    BY <1>2 DEF AnswerGet, AnswerRead05, AnswerSet, AnswerFormat, AnswerStop, Emit
  <1> QED BY <1>1, <1>2 DEF DeviceStep

\* A running call gets on, or stays where it is.
LEMMA CallStep ==
  ASSUME TypeOK, [Next]_vars, NEW c \in Clients, Active(c)
  PROVE  /\ Progress(c) => Left(c)' < Left(c)
         /\ Left(c)' < Left(c) \/ UNCHANGED <<job[c], phase[c], idx[c], waiting[c]>>
  <1>1. CASE DeviceStep \/ UNCHANGED vars
    BY <1>1, DeviceStays, ProgressLess DEF vars, session
  <1>2. ASSUME NEW d \in Clients, d # c, ClientStep(d)
        PROVE  UNCHANGED <<job[c], phase[c], idx[c], waiting[c]>>
    BY <1>2, OthersStay
  <1>3. CASE ClientStep(c)
    <2>1. ~Begin(c) /\ ~Refuse(c)
      BY DEF Begin, Refuse
    <2>2. CASE Skip(c)
      BY <2>2, ProgressLess DEF Skip, session
    <2>3. CASE Crash(c)
      <3>1. Left(c)' = 0
        BY <2>3, LeftReturns DEF Crash
      <3> QED BY <3>1, LeftType
    <2>4. CASE Progress(c)
      BY <2>4, ProgressLess
    <2> QED BY <1>3, <2>1, <2>2, <2>3, <2>4 DEF ClientStep
  <1> QED BY <1>1, <1>2, <1>3, ProgressLess DEF Next

\* A call never does the same exchange again but for the tries that are counted:
\* whatever it does leaves less of it, and nothing else adds to it.
THEOREM EveryCallAdvances == Spec => CallsAdvance
  <1>1. TypeOK /\ [Next]_vars =>
          [\A c \in Clients : Active(c) =>
              /\ Progress(c) => Left(c)' < Left(c)
              /\ Left(c)' < Left(c) \/ UNCHANGED <<job[c], phase[c], idx[c], waiting[c]>>]_vars
    BY CallStep
  <1> QED BY <1>1, TypeCorrect, PTL DEF Spec, CallsAdvance

\* The most steps a call takes: all the exchanges of a Configure and of the Info
\* that reads it back.
MostSteps == 2 * (2 * Len(ConfigBlocks) + Len(FieldReads) + Len(StatusReads) + 12)

\* No call, of any job, has more than that left, and none has nothing left while
\* it runs: since each of its steps leaves less, a call ends after that many.
THEOREM CallsAreBounded ==
  Spec => [](\A c \in Clients : Left(c) \in 0..MostSteps /\ (Left(c) = 0 <=> ~Active(c)))
  <1>1. TypeOK => \A c \in Clients : Left(c) \in 0..MostSteps /\ (Left(c) = 0 <=> ~Active(c))
    <2> SUFFICES ASSUME TypeOK, NEW c \in Clients
                 PROVE  Left(c) \in 0..MostSteps /\ (Left(c) = 0 <=> ~Active(c))
      OBVIOUS
    <2>1. PICK f, s, b : /\ f = Len(FieldReads) /\ s = Len(StatusReads)
                         /\ b = Len(ConfigBlocks) /\ CountedOut(job[c], f, s, b)
      BY FollowingIs
    <2>2. f \in Nat /\ s \in Nat /\ b \in Nat /\ MostSteps = 2 * (2 * b + f + s + 12)
      BY <2>1 DEF CountedOut, MostSteps
    <2>3. CASE ~Active(c)
      BY <2>2, <2>3 DEF Left
    <2>4. CASE Active(c)
      <3> DEFINE len == Len(Table(phase[c]))  x == Following(job[c], phase[c])
      <3>1. phase[c] \in Phases /\ idx[c] \in 1..len /\ idx[c] \in Nat /\ waiting[c] \in BOOLEAN
        <4>1. idx[c] \in 1..len /\ idx[c] \in Nat /\ waiting[c] \in BOOLEAN
          BY DEF TypeOK
        <4>2. phase[c] \in Phases
          BY <2>4 DEF TypeOK, Active
        <4> QED BY <4>1, <4>2
      <3>2. len \in Nat /\ x \in Nat
        BY <3>1, TableType, FollowingType
      <3>3. Left(c) = 2 * (len - idx[c] + x) + (IF waiting[c] THEN 1 ELSE 2)
        BY <2>4 DEF Left
      <3>4. len + x <= 2 * b + f + s + 12
        <4>1. CASE phase[c] = "prime"
          <5>1. len = 2
            BY <4>1, TableLengths
          <5>2. x = 1 \/ x = 2 * b + f + s + 10 \/ x = f + s + 3
            BY <2>1, <4>1 DEF CountedOut, Peeks
          <5> HIDE DEF len, x
          <5> QED BY <2>2, <5>1, <5>2
        <4>2. CASE phase[c] = "count"
          <5>1. len = 3
            BY <4>2, TableLengths
          <5>2. x = 2 * b + f + s + 7 \/ x = f + s
            BY <2>1, <4>2 DEF CountedOut
          <5> HIDE DEF len, x
          <5> QED BY <2>2, <5>1, <5>2
        <4>3. CASE phase[c] = "fields" \/ phase[c] = "status"
          <5>1. (len = f /\ x = s) \/ (len = s /\ x = 0)
            BY <2>1, <4>3 DEF CountedOut, Table, Peeks
          <5> HIDE DEF len, x
          <5> QED BY <2>2, <5>1
        <4>4. CASE phase[c] = "read" \/ phase[c] = "write"
          <5>1. len = b
            BY <2>1, <4>4, TableLengths
          <5>2. x = b + f + s + 7 \/ x = f + s + 7
            BY <2>1, <4>4 DEF CountedOut
          <5> HIDE DEF len, x
          <5> QED BY <2>2, <5>1, <5>2
        <4>5. CASE phase[c] \in {"format", "reopen", "stop"} \cup Peeks
          <5>1. len = 1
            BY <4>5 DEF Table, Command, PeekRead, Peeks
          <5>2. x = f + s + 6 \/ x = f + s + 5 \/ x = 0
            BY <2>1, <4>5 DEF CountedOut, Peeks
          <5> HIDE DEF len, x
          <5> QED BY <2>2, <5>1, <5>2
        <4> QED BY <3>1, <4>1, <4>2, <4>3, <4>4, <4>5 DEF Phases
      <3>5. 1 <= idx[c] /\ idx[c] <= len
        BY <3>1, <3>2
      <3> HIDE DEF len, x
      <3>6. len - idx[c] + x \in 0..(2 * b + f + s + 11)
        BY <2>2, <3>1, <3>2, <3>4, <3>5
      <3>7. Left(c) \in 1..MostSteps
        BY <2>2, <3>3, <3>6
      <3> QED BY <2>2, <2>4, <3>7
    <2> QED BY <2>3, <2>4
  <1> QED BY <1>1, TypeCorrect, PTL
=============================================================================
