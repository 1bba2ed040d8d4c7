------------------------------- MODULE Logger -------------------------------
(***************************************************************************)
(* Sessions of internal/elitech/logger.go with one Elitech logger.         *)
(*                                                                         *)
(* Each client is one call of internal/elitech/service.go (Info, Configure *)
(* or Stop) or a peek command: it opens the node, runs the call's          *)
(* exchanges one at a time and closes.  Clients run concurrently: net/http *)
(* serves each request in a goroutine, the CLI is a process of its own,    *)
(* and a Logger (with its mutex) is made for every call, so nothing orders *)
(* two calls.                                                              *)
(*                                                                         *)
(* A call is a list of phases, a phase a list of exchanges.  An exchange   *)
(* drains the ring, writes one request and waits for its reply; what the   *)
(* session does with the reply happens in the step that reads it.          *)
(*                                                                         *)
(* The device and the kernel are external: they are modelled from what     *)
(* logger.go relies on (and its fakeDevice), with the faults it handles.   *)
(***************************************************************************)
EXTENDS Integers, Sequences, Hidraw

CONSTANTS
    Clients,        \* concurrent calls
    Jobs,           \* the calls clients make: a subset of AllJobs
    Settings,       \* settings Configure is called with
    Factory,        \* settings of the logger as it is first plugged in
    MaxCount,       \* bound: records in the store, and confirmed by a caller
    InboxMax,       \* bound: requests the device holds before a write fails
    FieldReads,     \* the optional reads of Info (InfoFields, or a part)
    StatusReads,    \* the reads of readStatus (StatusParts, or a part)
    ConfigBlocks,   \* the blocks Configure rewrites (FactoryBlocks, or a part)
    Faults          \* what may go wrong: a subset of AllFaults

\* ReadRaw of a parameter (operation 3) or of a status byte (5).
Peeks   == {"peek3", "peek5"}
AllJobs == {"info", "configure", "stop"} \cup Peeks

AllFaults ==
    {"wide",        \* GetParameter answers with a wider range than asked for
     "late",        \* a reply arrives after its deadline
     "lose",        \* a reply never arrives
     "garble",      \* a reply fails decodeFrame
     "blank",       \* a short read answers with 0xFF bytes
     "reject",      \* SetParameter answers with a status other than 1
     "forget",      \* SetParameter answers 1 and does nothing
     "ignore"}      \* a request has no effect and no reply

StartBytes == [mode: 0..7, button: BOOLEAN, software: BOOLEAN]
Parameters == [interval: Nat, start: StartBytes]
Addresses  == [off: Nat, n: Nat, written: Nat]

ASSUME LoggerAssumption ==
    /\ Jobs \subseteq AllJobs
    /\ Faults \subseteq AllFaults
    /\ Settings \subseteq Parameters
    /\ Factory \in Parameters
    /\ MaxCount \in Nat
    /\ InboxMax \in Nat
    /\ FieldReads \in Seq(Addresses) /\ FieldReads # <<>>
    /\ StatusReads \in Seq(Addresses) /\ StatusReads # <<>>
    /\ ConfigBlocks \in Seq(Addresses) /\ ConfigBlocks # <<>>

VARIABLES
    \* the device
    plugged,        \* is it on the bus
    store,          \* number of records it holds
    live,           \* the settings its parameter reads report
    saved,          \* the settings a replug restores
    stopped,        \* history: has it obeyed a stop since the latest call began
    inbox,          \* requests it has received and not yet handled, in order
    \* the link, per client
    fd,             \* "closed", "live", or "dead" once the device was unplugged
    queue,          \* input reports in the client's ring
    \* the call, per client
    job,            \* the running call ("verify": Configure's second half) or "none"
    phase, idx,     \* the exchange it is at: idx-th of the phase
    waiting,        \* has the request been written
    arg,            \* the call's arguments
    got,            \* interval and start settings of the Info being read
    result          \* how the last call returned, "none" while it runs

device  == <<plugged, store, live, saved, stopped, inbox>>
link    == <<fd, queue>>
session == <<job, phase, idx, waiting, arg, got, result>>
vars    == <<plugged, store, live, saved, stopped, inbox, fd, queue,
             job, phase, idx, waiting, arg, got, result>>

-----------------------------------------------------------------------------
(* The addresses a session reads and writes *)

Read(offset, n) == [off |-> offset, n |-> n, written |-> 0]

\* prime(): identity, then protocol version.
PrimeReads == <<Read(\h00, 14), Read(\h94, 2)>>

\* readCapacityCount(): the same read, up to three times.
CountReads == <<Read(\h42, 10), Read(\h42, 10), Read(\h42, 10)>>

\* Info(): interval, start byte, unit, battery and three groups of times.
InfoFields == <<Read(\h4C, 2), Read(\h20, 1), Read(\h21, 1), Read(\h26, 2),
                Read(\h28, 7), Read(\h30, 15), Read(\h88, 7)>>

\* readStatus(): three reads of the status space.
StatusParts == <<Read(\h00, \h20), Read(\h80, \h30), Read(\hB0, \h10)>>

\* configBlocks; the third sends 47 bytes under a declared length of 0x30.
FactoryBlocks ==
    <<[off |-> \h00, n |-> \h30, written |-> 48],
      [off |-> \h30, n |-> \h30, written |-> 48],
      [off |-> \h60, n |-> \h30, written |-> 47],
      [off |-> \h98, n |-> \h34, written |-> 52],
      [off |-> \hCC, n |-> \h30, written |-> 48],
      [off |-> \hFD, n |-> \h2F, written |-> 47]>>

Command == <<[off |-> 0, n |-> 1, written |-> 1]>>

\* peek's defaults.
PeekRead == <<Read(0, 32)>>

Phases == {"prime", "count", "fields", "status", "read", "write",
           "format", "reopen", "stop"} \cup Peeks

\* The exchanges of each phase ("reopen" has none).
Table(p) ==
    CASE p = "prime"           -> PrimeReads
      [] p = "count"           -> CountReads
      [] p = "fields"          -> FieldReads
      [] p = "status"          -> StatusReads
      [] p \in {"read", "write"} -> ConfigBlocks
      [] p \in Peeks           -> PeekRead
      [] OTHER                 -> Command

OpOf(p) ==
    CASE p \in {"prime", "count", "fields", "read", "peek3"} -> "get"
      [] p \in {"status", "peek5"} -> "read05"
      [] p = "write"  -> "set"
      [] OTHER        -> p

\* The phase that follows when the last exchange of p succeeded.
NextPhase(j, p) ==
    CASE p = "prime"  -> IF j \in {"stop"} \cup Peeks THEN j ELSE "count"
      [] p = "count"  -> IF j = "configure" THEN "read" ELSE "fields"
      [] p = "fields" -> "status"
      [] p = "read"   -> "write"
      [] OTHER        -> "format"

-----------------------------------------------------------------------------
(* Requests, reports and their data *)

Ops == {"get", "read05", "set", "format", "stop"}
UnknownCount == -1

Contents == [count: Int, interval: Nat, start: StartBytes]
Requests == [op: Ops, off: Nat, n: Nat, written: Nat,
             set: Parameters, confirmed: Nat]
Reports  == [op: Ops \cup {"garbled"}, off: Nat, n: Nat,
             ok: BOOLEAN, data: Contents]

\* What the decoders make of 0xFF bytes: no count, no interval, every start bit.
Blank == [count |-> UnknownCount, interval |-> 0,
          start |-> [mode |-> 7, button |-> TRUE, software |-> TRUE]]

\* The zero value of Info: what it holds for a field whose read failed.
ZeroInfo == [interval |-> 0,
             start |-> [mode |-> 0, button |-> FALSE, software |-> FALSE]]

\* The device's parameter memory, as far as the model keeps it.
Memory == [count |-> store, interval |-> live.interval, start |-> live.start]

\* Does [off, off+n) contain the n bytes at address a.
Covers(off, n, a, len) == off <= a /\ a + len <= off + n

\* encodeInterval then decodeInterval: a u16 of ten-second units.
Encoded(seconds) == 10 * ((seconds \div 10) % 65536)

\* What SetParameter leaves in memory: the bytes its payload covers.
Patched(r) ==
    [interval |-> IF Covers(r.off, r.written, \h4C, 2)
                  THEN Encoded(r.set.interval) ELSE live.interval,
     start    |-> IF Covers(r.off, r.written, \h20, 1)
                  THEN r.set.start ELSE live.start]

Garbled == [op |-> "garbled", off |-> 0, n |-> 0, ok |-> FALSE, data |-> Blank]

Report(r, off, n, ok, data) ==
    [op |-> r.op, off |-> off, n |-> n, ok |-> ok, data |-> data]

\* The request of the exchange a client is at.
Request(c) ==
    LET a == Table(phase[c])[idx[c]]
    IN  [op |-> OpOf(phase[c]), off |-> a.off, n |-> a.n, written |-> a.written,
         set |-> arg[c].set, confirmed |-> arg[c].confirmed]

-----------------------------------------------------------------------------
(* Parts of a client's steps *)

NoArg == [set |-> Factory, confirmed |-> 0]

Args(j) == IF j = "configure"
           THEN [set: Settings, confirmed: 0..MaxCount] ELSE {NoArg}

\* Configure's check of the interval: whole tens of seconds, 10 s to 24 h.
ValidInterval(seconds) ==
    seconds >= 10 /\ seconds <= 86400 /\ seconds % 10 = 0

Active(c) == phase[c] # "idle"

\* Can the client's next report be written.
CanWrite(c) == fd[c] = "live" /\ Len(inbox) < InboxMax

\* Does report r answer the exchange client c is at: awaitReply's test of the
\* operation, then the range test of getWith, readOp5 or set.
Answers(c, r) ==
    LET a == Table(phase[c])[idx[c]]
    IN  /\ r.op = OpOf(phase[c])
        /\ CASE r.op = "get"    -> Covers(r.off, r.n, a.off, a.n)
             [] r.op = "read05" -> r.off = a.off /\ r.n >= a.n
             [] OTHER           -> r.off = a.off /\ r.n = 1

\* The next report of client c's ring, and whether it is the one it waits for.
Reply(c) == Head(queue[c])
Replied(c) == waiting[c] /\ queue[c] # <<>> /\ Answers(c, Reply(c))

Goto(c, p, i) ==
    /\ phase' = [phase EXCEPT ![c] = p]
    /\ idx' = [idx EXCEPT ![c] = i]
    /\ waiting' = [waiting EXCEPT ![c] = FALSE]

\* On to the next exchange of the phase, or to the next phase.
Advance(c) ==
    IF idx[c] < Len(Table(phase[c]))
    THEN Goto(c, phase[c], idx[c] + 1)
    ELSE Goto(c, NextPhase(job[c], phase[c]), 1)

\* Take one report out of the ring.
Pop(c) == queue' = [queue EXCEPT ![c] = Tail(@)] /\ UNCHANGED fd

\* Service closes the node when the call returns.
Close(c) ==
    /\ fd' = [fd EXCEPT ![c] = "closed"]
    /\ queue' = [queue EXCEPT ![c] = <<>>]

Open(c) ==
    /\ plugged
    /\ fd' = [fd EXCEPT ![c] = "live"]
    /\ queue' = [queue EXCEPT ![c] = <<>>]

\* The call returns; what it knew is gone but for its result.
Return(c, outcome) ==
    /\ Close(c)
    /\ Goto(c, "idle", 1)
    /\ result' = [result EXCEPT ![c] = outcome]
    /\ job' = [job EXCEPT ![c] = "none"]
    /\ arg' = [arg EXCEPT ![c] = NoArg]
    /\ got' = [got EXCEPT ![c] = ZeroInfo]
    /\ UNCHANGED device

\* The deadline of the exchange passes, or the read fails: while a reply may
\* still come only if replies may be late.
Deadline(c) ==
    /\ waiting[c]
    /\ \/ "late" \in Faults
       \/ queue[c] = <<>> /\ (inbox = <<>> \/ fd[c] = "dead")

\* The next report is malformed, or of the operation but not of the range.
Spoiled(c) ==
    /\ waiting[c] /\ queue[c] # <<>>
    /\ \/ Reply(c).op = "garbled"
       \/ Reply(c).op = OpOf(phase[c]) /\ ~Answers(c, Reply(c))

Unwritable(c) == ~waiting[c] /\ ~CanWrite(c)

\* The exchange ends without an answer, and what that leaves of the ring.
CanFail(c) == Unwritable(c) \/ Deadline(c) \/ Spoiled(c)

Failed(c) ==
    \/ Unwritable(c) /\ queue' = [queue EXCEPT ![c] = Drained(@)] /\ UNCHANGED fd
    \/ Deadline(c) /\ UNCHANGED link
    \/ Spoiled(c) /\ Pop(c)

\* Mutant of VerifySettings: the start byte is not compared.
VerifyInterval(c) == got[c].interval = arg[c].set.interval

\* VerifySettings, for the read-back of Configure.
VerifySettings(c) ==
    got[c].interval = arg[c].set.interval /\ got[c].start = arg[c].set.start

\* Info is complete.
Finish(c) ==
    Return(c, IF job[c] = "verify" /\ ~VerifySettings(c) THEN "error" ELSE "ok")

-----------------------------------------------------------------------------
(* Client steps: opening, writing, waiting *)

\* Service.Info, Configure or Stop opens the node.
Begin(c) ==
    \E j \in Jobs : \E a \in Args(j) :
        /\ ~Active(c)
        /\ j = "configure" => ValidInterval(a.set.interval)
        /\ Open(c)
        /\ Goto(c, "prime", 1)
        /\ job' = [job EXCEPT ![c] = j]
        /\ arg' = [arg EXCEPT ![c] = a]
        /\ result' = [result EXCEPT ![c] = "none"]
        /\ stopped' = FALSE
        /\ UNCHANGED <<got, plugged, store, live, saved, inbox>>

\* There is no node to open, or Configure refuses the interval.
Refuse(c) ==
    \E j \in Jobs : \E a \in Args(j) :
        /\ ~Active(c)
        /\ ~plugged \/ (j = "configure" /\ ~ValidInterval(a.set.interval))
        /\ Return(c, "error")

\* Drain the ring and write the request of the exchange.
Write(c) ==
    /\ phase[c] \notin {"idle", "reopen"} /\ ~waiting[c]
    /\ CanWrite(c)
    /\ queue' = [queue EXCEPT ![c] = Drained(@)]
    /\ inbox' = Append(inbox, Request(c))
    /\ waiting' = [waiting EXCEPT ![c] = TRUE]
    /\ UNCHANGED <<plugged, store, live, saved, stopped, fd,
                   job, phase, idx, arg, got, result>>

\* awaitReply passes over a report of another operation.
Skip(c) ==
    /\ phase[c] \notin {"idle", "format", "reopen", "stop"} /\ waiting[c]
    /\ queue[c] # <<>>
    /\ Head(queue[c]).op \notin {"garbled", OpOf(phase[c])}
    /\ Pop(c)
    /\ UNCHANGED <<session, device>>

\* The errors that end a call at once.
GiveUp(c) ==
    /\ \/ phase[c] \in {"prime", "read", "write"} /\ CanFail(c)
       \/ phase[c] = "write" /\ Replied(c) /\ ~Reply(c).ok
       \/ phase[c] \in {"format", "stop"} /\ Unwritable(c)
    /\ Return(c, "error")

\* The process is killed; the kernel closes its files, the device goes on.
Crash(c) ==
    /\ Active(c)
    /\ Return(c, "none")

-----------------------------------------------------------------------------
(* Client steps: the replies *)

\* prime() got the identity or the protocol version.
Prime(c) ==
    /\ phase[c] = "prime" /\ Replied(c)
    /\ Advance(c) /\ Pop(c)
    /\ UNCHANGED <<job, arg, got, result, device>>

\* Mutant of Confirmed: the count is not compared.
AnyCount(c, count) == count \in Int

\* Configure goes on when the store is empty or holds what was confirmed.
Confirmed(c, count) == count = 0 \/ count = arg[c].confirmed

\* readCapacityCount() decoded a count.
CountKnown(c) ==
    /\ phase[c] = "count" /\ Replied(c)
    /\ Reply(c).data.count # UnknownCount
    /\ job[c] = "configure" => Confirmed(c, Reply(c).data.count)
    /\ Goto(c, NextPhase(job[c], "count"), 1) /\ Pop(c)
    /\ UNCHANGED <<job, arg, got, result, device>>

\* ErrRecordsPresent.
CountRefused(c) ==
    /\ phase[c] = "count" /\ Replied(c)
    /\ Reply(c).data.count # UnknownCount
    /\ job[c] = "configure" /\ ~Confirmed(c, Reply(c).data.count)
    /\ Return(c, "error")

\* A try of readCapacityCount() failed, or read sentinels.
NoCount(c) ==
    \/ Failed(c)
    \/ Replied(c) /\ Reply(c).data.count = UnknownCount /\ Pop(c)

\* Mutants of CountRetry: a fourth try; tries that are not counted.
CountRetryOver(c) ==
    /\ phase[c] = "count" /\ idx[c] <= Len(CountReads)
    /\ NoCount(c)
    /\ Goto(c, "count", idx[c] + 1)
    /\ UNCHANGED <<job, arg, got, result, device>>

CountRetryForever(c) ==
    /\ phase[c] = "count" /\ idx[c] < Len(CountReads)
    /\ NoCount(c)
    /\ Goto(c, "count", idx[c])
    /\ UNCHANGED <<job, arg, got, result, device>>

CountRetry(c) ==
    /\ phase[c] = "count" /\ idx[c] < Len(CountReads)
    /\ NoCount(c)
    /\ Goto(c, "count", idx[c] + 1)
    /\ UNCHANGED <<job, arg, got, result, device>>

\* After three tries Info goes on without a count, Configure refuses.
CountUnknown(c) ==
    /\ phase[c] = "count" /\ idx[c] = Len(CountReads)
    /\ job[c] # "configure"
    /\ NoCount(c)
    /\ Goto(c, NextPhase(job[c], "count"), 1)
    /\ UNCHANGED <<job, arg, got, result, device>>

\* Mutant of CountMissing: Configure goes on without a count.
CountIgnored(c) ==
    /\ phase[c] = "count" /\ idx[c] = Len(CountReads)
    /\ job[c] = "configure"
    /\ NoCount(c)
    /\ Goto(c, NextPhase(job[c], "count"), 1)
    /\ UNCHANGED <<job, arg, got, result, device>>

CountMissing(c) ==
    /\ phase[c] = "count" /\ idx[c] = Len(CountReads)
    /\ job[c] = "configure"
    /\ \/ CanFail(c)
       \/ Replied(c) /\ Reply(c).data.count = UnknownCount
    /\ Return(c, "error")

\* Info reads a field.
Field(c) ==
    LET a == FieldReads[idx[c]]
        d == Reply(c).data
    IN  /\ phase[c] = "fields" /\ Replied(c)
        /\ got' = [got EXCEPT ![c] =
               [interval |-> IF a.off = \h4C THEN d.interval ELSE @.interval,
                start    |-> IF a.off = \h20 THEN d.start ELSE @.start]]
        /\ Advance(c) /\ Pop(c)
        /\ UNCHANGED <<job, arg, result, device>>

\* A field that cannot be read keeps its zero value and Info goes on.
FieldSkipped(c) ==
    /\ phase[c] = "fields" /\ Failed(c)
    /\ Advance(c)
    /\ UNCHANGED <<job, arg, got, result, device>>

\* readStatus() reads a part, stopping at the first that fails; the call ends.
Status(c) ==
    /\ phase[c] = "status" /\ idx[c] < Len(StatusReads) /\ Replied(c)
    /\ Advance(c) /\ Pop(c)
    /\ UNCHANGED <<job, arg, got, result, device>>

StatusDone(c) ==
    /\ phase[c] = "status"
    /\ CanFail(c) \/ (idx[c] = Len(StatusReads) /\ Replied(c))
    /\ Finish(c)

\* Configure reads a block, to write it back patched.
BlockRead(c) ==
    /\ phase[c] = "read" /\ Replied(c)
    /\ Advance(c) /\ Pop(c)
    /\ UNCHANGED <<job, arg, got, result, device>>

\* Mutant of BlockWritten: the status of the reply is not looked at.
BlockAnswered(c) ==
    /\ phase[c] = "write" /\ Replied(c)
    /\ Advance(c) /\ Pop(c)
    /\ UNCHANGED <<job, arg, got, result, device>>

\* set(): the block was acknowledged with status 1.
BlockWritten(c) ==
    /\ phase[c] = "write" /\ Replied(c) /\ Reply(c).ok
    /\ Advance(c) /\ Pop(c)
    /\ UNCHANGED <<job, arg, got, result, device>>

\* After the format command Configure waits for any report or a while, and
\* closes without a look at it.
Formatted(c) ==
    /\ phase[c] = "format" /\ waiting[c]
    /\ queue[c] # <<>> \/ Deadline(c)
    /\ Close(c)
    /\ Goto(c, "reopen", 1)
    /\ UNCHANGED <<job, arg, got, result, device>>

\* Service.Configure reopens the node to read Info back.
Reopen(c) ==
    /\ phase[c] = "reopen"
    /\ Open(c)
    /\ Goto(c, "prime", 1)
    /\ job' = [job EXCEPT ![c] = "verify"]
    /\ UNCHANGED <<arg, got, result, device>>

ReopenFails(c) ==
    /\ phase[c] = "reopen" /\ ~plugged
    /\ Return(c, "error")

\* Stop() takes any report that decodes for the acknowledgement.
StopAnswered(c) ==
    /\ phase[c] = "stop" /\ waiting[c] /\ queue[c] # <<>>
    /\ Return(c, IF Reply(c).op = "garbled" THEN "error" ELSE "ok")

\* Mutant of StopUnanswered: silence is success.
StopAssumed(c) ==
    /\ phase[c] = "stop" /\ Deadline(c)
    /\ Return(c, "ok")

\* ErrStopUnacknowledged, or the read error of an unplugged device.
StopUnanswered(c) ==
    /\ phase[c] = "stop" /\ Deadline(c)
    /\ \/ Return(c, "unacknowledged")
       \/ fd[c] = "dead" /\ queue[c] = <<>> /\ Return(c, "error")

\* ReadRaw() takes the data of any report of its operation, whatever range
\* that is of.
Peeked(c) ==
    /\ phase[c] \in Peeks
    /\ \/ /\ waiting[c] /\ queue[c] # <<>> /\ Reply(c).op = OpOf(phase[c])
          /\ Return(c, "ok")
       \/ /\ Unwritable(c) \/ Deadline(c) \/ (Spoiled(c) /\ Reply(c).op = "garbled")
          /\ Return(c, "error")

\* What a running call does next; each step but Skip brings its end closer.
Progress(c) ==
    \/ Write(c) \/ GiveUp(c)
    \/ Prime(c)
    \/ CountKnown(c) \/ CountRefused(c)
    \/ CountRetry(c) \/ CountUnknown(c) \/ CountMissing(c)
    \/ Field(c) \/ FieldSkipped(c)
    \/ Status(c) \/ StatusDone(c)
    \/ BlockRead(c) \/ BlockWritten(c)
    \/ Formatted(c) \/ Reopen(c) \/ ReopenFails(c)
    \/ StopAnswered(c) \/ StopUnanswered(c)
    \/ Peeked(c)

ClientStep(c) == Begin(c) \/ Refuse(c) \/ Skip(c) \/ Crash(c) \/ Progress(c)

-----------------------------------------------------------------------------
(* The device: it handles one request after the other *)

\* A reply reaches every open file, unless it is lost or damaged on the way.
Emit(r) ==
    /\ UNCHANGED <<fd, session>>
    /\ \/ queue' = Broadcast(fd, queue, r)
       \/ "lose" \in Faults /\ UNCHANGED queue
       \/ "garble" \in Faults /\ queue' = Broadcast(fd, queue, Garbled)

\* The oldest request, of operation op, is handled.
Oldest(op) == inbox # <<>> /\ Head(inbox).op = op /\ inbox' = Tail(inbox)

\* A parameter read: the range asked for, or four bytes more in front of it.
AnswerGet ==
    LET r == Head(inbox)
    IN  /\ Oldest("get")
        /\ \/ Emit(Report(r, r.off, r.n, TRUE, Memory))
           \/ /\ "wide" \in Faults /\ r.off >= 4 /\ r.n + 4 <= 52
              /\ Emit(Report(r, r.off - 4, r.n + 4, TRUE, Memory))
           \/ /\ "blank" \in Faults /\ r.n < 48
              /\ Emit(Report(r, r.off, r.n, TRUE, Blank))
        /\ UNCHANGED <<plugged, store, live, saved, stopped>>

AnswerRead05 ==
    LET r == Head(inbox)
    IN  /\ Oldest("read05")
        /\ Emit(Report(r, r.off, r.n, TRUE, Blank))
        /\ UNCHANGED <<plugged, store, live, saved, stopped>>

AnswerSet ==
    LET r == Head(inbox)
    IN  /\ Oldest("set")
        /\ \/ live' = Patched(r) /\ Emit(Report(r, r.off, 1, TRUE, Blank))
           \/ /\ "reject" \in Faults /\ UNCHANGED live
              /\ Emit(Report(r, r.off, 1, FALSE, Blank))
           \/ /\ "forget" \in Faults /\ UNCHANGED live
              /\ Emit(Report(r, r.off, 1, TRUE, Blank))
        /\ UNCHANGED <<plugged, store, saved, stopped>>

\* Formatting empties the store and makes the settings outlive a replug.
AnswerFormat ==
    LET r == Head(inbox)
    IN  /\ Oldest("format")
        /\ store' = 0
        /\ saved' = live
        /\ Emit(Report(r, 0, 1, TRUE, Blank))
        /\ UNCHANGED <<plugged, live, stopped>>

\* An idle logger obeys a stop command in silence.
AnswerStop ==
    LET r == Head(inbox)
    IN  /\ Oldest("stop")
        /\ stopped' = TRUE
        /\ \/ Emit(Report(r, 0, 1, TRUE, Blank))
           \/ UNCHANGED <<fd, session, queue>>
        /\ UNCHANGED <<plugged, store, live, saved>>

Ignore ==
    /\ "ignore" \in Faults
    /\ inbox # <<>> /\ inbox' = Tail(inbox)
    /\ UNCHANGED <<plugged, store, live, saved, stopped, link, session>>

\* Pulling the plug: open files die, what the device was told is forgotten.
Unplug ==
    /\ plugged /\ plugged' = FALSE
    /\ inbox' = <<>>
    /\ fd' = [c \in Clients |-> IF fd[c] = "live" THEN "dead" ELSE fd[c]]
    /\ UNCHANGED <<store, live, saved, stopped, queue, session>>

\* The logger records only while it is off the bus.
Record ==
    /\ ~plugged /\ store < MaxCount
    /\ store' = store + 1
    /\ UNCHANGED <<plugged, live, saved, stopped, inbox, link, session>>

Replug ==
    /\ ~plugged /\ plugged' = TRUE
    /\ live' = saved
    /\ UNCHANGED <<store, saved, stopped, inbox, link, session>>

DeviceStep ==
    \/ AnswerGet \/ AnswerRead05 \/ AnswerSet \/ AnswerFormat \/ AnswerStop
    \/ Ignore \/ Unplug \/ Record \/ Replug

-----------------------------------------------------------------------------
Init ==
    /\ plugged = TRUE
    /\ store \in 0..MaxCount
    /\ live = Factory /\ saved = Factory
    /\ stopped = FALSE
    /\ inbox = <<>>
    /\ fd = [c \in Clients |-> "closed"]
    /\ queue = [c \in Clients |-> <<>>]
    /\ job = [c \in Clients |-> "none"]
    /\ phase = [c \in Clients |-> "idle"]
    /\ idx = [c \in Clients |-> 1]
    /\ waiting = [c \in Clients |-> FALSE]
    /\ arg = [c \in Clients |-> NoArg]
    /\ got = [c \in Clients |-> ZeroInfo]
    /\ result = [c \in Clients |-> "none"]

Next == DeviceStep \/ \E c \in Clients : ClientStep(c)

\* Every read has a deadline and every pause an end, so a running call keeps
\* going whatever the device does; nothing makes a call begin.
Fairness == \A c \in Clients : WF_vars(Progress(c))

Spec == Init /\ [][Next]_vars

FairSpec == Spec /\ Fairness

-----------------------------------------------------------------------------
(* Properties *)

\* Every variable has its type, and a running call is at an exchange that exists.
TypeOK ==
    /\ plugged \in BOOLEAN
    /\ store \in 0..MaxCount
    /\ live \in Parameters
    /\ saved \in Parameters
    /\ stopped \in BOOLEAN
    /\ inbox \in Seq(Requests)
    /\ fd \in [Clients -> {"closed", "live", "dead"}]
    /\ queue \in [Clients -> Seq(Reports)]
    /\ job \in [Clients -> AllJobs \cup {"verify", "none"}]
    /\ phase \in [Clients -> Phases \cup {"idle"}]
    /\ idx \in [Clients -> Nat]
    /\ \A c \in Clients : idx[c] \in 1..Len(Table(phase[c]))
    /\ waiting \in [Clients -> BOOLEAN]
    /\ arg \in [Clients -> [set: Parameters, confirmed: Nat]]
    /\ got \in [Clients -> Parameters]
    /\ result \in [Clients -> {"none", "ok", "error", "unacknowledged"}]

\* Records are only ever erased by the format of a Configure whose caller
\* confirmed exactly the number of records that are lost ("confirmedCount must
\* equal the device's record count"), however calls, late replies, replugs and
\* recording interleave between the count's check and the format.
EraseConfirmed ==
    [][store' < store =>
        /\ inbox # <<>> /\ Head(inbox).op = "format"
        /\ Head(inbox).confirmed = store]_vars

\* Why EraseConfirmed holds: the formats the device holds, the counts on their
\* way to a session, and the sessions past Configure's check all agree with the
\* store, unless a format has emptied it since; and unplugging, without which the
\* store cannot grow, takes them all off.
FormatsCurrent ==
    \A i \in 1..Len(inbox) :
        inbox[i].op = "format" => store \in {0, inbox[i].confirmed}

CountsInFlight ==
    \A c \in Clients : fd[c] = "live" =>
        \A i \in 1..Len(queue[c]) :
            queue[c][i].data.count # UnknownCount =>
                store \in {0, queue[c][i].data.count}

SessionsCurrent ==
    \A c \in Clients :
        fd[c] = "live" /\ phase[c] \in {"read", "write", "format"} =>
            store \in {0, arg[c].confirmed}

OffTheBus ==
    ~plugged => inbox = <<>> /\ \A c \in Clients : fd[c] # "live"

CountsCurrent == FormatsCurrent /\ CountsInFlight /\ SessionsCurrent /\ OffTheBus

\* What a replug restores changes only to the whole settings of one Configure:
\* no failure, rejected block, crash or unplugging half way through the blocks
\* makes the device keep a mixture.
CommitWhole ==
    [][saved' # saved => saved' = Head(inbox).set]_vars

\* The orders that stand: those of running Configure calls, and of formats on
\* their way, whose caller may be gone.
Standing ==
    {arg[c] : c \in {d \in Clients : job[d] = "configure"}} \cup
    {[set |-> inbox[i].set, confirmed |-> inbox[i].confirmed] :
        i \in {k \in 1..Len(inbox) : inbox[k].op = "format"}}

Owner == INSTANCE Store WITH
    Choices <- {s \in Parameters : ValidInterval(s.interval)},
    records <- store, settings <- saved, orders <- Standing

\* To the owner the dozen exchanges of a Configure are one step: it erases what
\* was confirmed and makes its settings last, or does neither, whatever fails,
\* is late, is unplugged or killed on the way.
ImplementsStore == Owner!Spec

\* Service.Configure "verifies the settings persisted": when it reports success
\* the settings are those a replug restores.
Persisted ==
    [][\A c \in Clients :
        job[c] = "verify" /\ result'[c] = "ok" => saved = arg[c].set]_vars

\* Stop reports success only when the device has obeyed the command.
StopTruthful ==
    [][\A c \in Clients :
        job[c] = "stop" /\ result'[c] = "ok" => stopped]_vars

\* The exchanges of an Info past prime(), and those that follow phase p in a call
\* of job j that goes all the way ("reopen" counts for one).
InfoExchanges == Len(CountReads) + Len(FieldReads) + Len(StatusReads)

Following(j, p) ==
    LET settings == 2 * Len(ConfigBlocks)
        verify   == Len(PrimeReads) + InfoExchanges
        format   == 2 + verify
    IN  CASE p = "prime"  -> IF j \in {"stop"} \cup Peeks THEN 1
                             ELSE IF j = "configure" THEN Len(CountReads) + settings + format
                             ELSE InfoExchanges
          [] p = "count"  -> IF j = "configure" THEN settings + format
                             ELSE Len(FieldReads) + Len(StatusReads)
          [] p = "fields" -> Len(StatusReads)
          [] p = "read"   -> Len(ConfigBlocks) + format
          [] p = "write"  -> format
          [] p = "format" -> 1 + verify
          [] p = "reopen" -> verify
          [] OTHER        -> 0

\* What is left of a call: two steps for every exchange to come, to write the
\* request and to be done with it.
Left(c) ==
    IF ~Active(c) THEN 0
    ELSE 2 * (Len(Table(phase[c])) - idx[c] + Following(job[c], phase[c])) +
         (IF waiting[c] THEN 1 ELSE 2)

\* Why a call comes to an end: whatever it does but for passing over a report
\* leaves less of it, so that it never comes back to an exchange it has been at,
\* and nothing the device, the bus or another call does adds to it.
CallsAdvance ==
    [][\A c \in Clients : Active(c) =>
        /\ Progress(c) => Left(c)' < Left(c)
        /\ Left(c)' < Left(c) \/ UNCHANGED <<job[c], phase[c], idx[c], waiting[c]>>]_vars

\* A call always comes to an end: three tries for the count, one timeout per
\* exchange, whatever the device, the other calls or the bus do.
EveryCallReturns ==
    \A c \in Clients : Active(c) ~> ~Active(c)
=============================================================================
