------------------------------ MODULE Download ------------------------------
(***************************************************************************)
(* Logger.Records of internal/elitech/logger.go: the download of the       *)
(* stored records, packet by packet, from the point where the session has  *)
(* read the record count (module Logger has the exchanges before that; a   *)
(* late reply to one of them is passed over here, as any report that is    *)
(* not of the GetRecord operation).                                        *)
(*                                                                         *)
(* A record is named by its position in the device's store.  A GetRecord   *)
(* is answered by an empty report and then, in a second report, by the     *)
(* data; nothing is drained in between, nor between two packets.           *)
(***************************************************************************)
EXTENDS Integers, Sequences, FiniteSets, Hidraw

CONSTANTS
    Clients,        \* concurrent downloads
    MaxStore,       \* bound: records in the store
    Lasts,          \* the "last n records" that callers ask for, 0 for all
    PacketSize,     \* recordsPerPacket (6)
    PreambleLen,    \* reads in connectPreamble (17)
    UnlockAt,       \* which of them makes old firmware serve records (13)
    Firmware,       \* is a fresh logger serving records: TRUE new, FALSE old
    Unreadable,     \* positions whose records do not decode
    InboxMax,       \* bound: requests the device holds before a write fails
    Faults          \* subset of AllFaults

AllFaults == {"late packet", "late read", "lose", "garble", "erase"}

ASSUME DownloadAssumption ==
    /\ MaxStore \in Nat /\ Lasts \subseteq Nat /\ InboxMax \in Nat
    /\ PacketSize \in Nat \ {0}
    /\ PreambleLen \in Nat \ {0} /\ UnlockAt \in 1..PreambleLen
    /\ Firmware \subseteq BOOLEAN
    /\ Unreadable \subseteq Nat
    /\ Faults \subseteq AllFaults

VARIABLES
    store,          \* records the device holds
    serving,        \* does it answer GetRecord
    inbox,          \* requests it has received and not yet handled
    fd, queue,      \* the link, as in module Logger
    phase,          \* "idle", "packet" or "preamble"
    waiting,        \* has the request been written
    call,           \* count, first wanted position, position of the packet,
                    \* preambleSent, the preamble read it is at
    recs,           \* the records so far: the Index given, the position it was at
    result          \* how the last download returned

device == <<store, serving, inbox>>
vars   == <<store, serving, inbox, fd, queue, phase, waiting, call, recs, result>>

-----------------------------------------------------------------------------
(* Requests and reports *)

Requests == [op: {"record", "read"}, off: Nat, acked: BOOLEAN]
Reports  == [op: {"ack", "record", "read", "garbled"}, off: Nat, data: SUBSET Nat]

Request(op, off) == [op |-> op, off |-> off, acked |-> FALSE]
Report(op, off, data) == [op |-> op, off |-> off, data |-> data]

\* The positions of a packet, and those that plausibleRecords() can decode.
Slots(off) == off..(off + PacketSize - 1)
Decodable(off) == {i \in Slots(off) : i < store /\ i \notin Unreadable}

NoCall == [count |-> 0, wanted |-> 0, off |-> 0, sent |-> FALSE, k |-> 1]

-----------------------------------------------------------------------------
(* A download *)

CanWrite == Len(inbox) < InboxMax

\* Reports come too late, or the device has dealt with everything and not
\* one came.
Deadline(c) ==
    /\ waiting[c]
    /\ \/ phase[c] = "packet" /\ "late packet" \in Faults
       \/ phase[c] = "preamble" /\ "late read" \in Faults
       \/ queue[c] = <<>> /\ inbox = <<>>

Pop(c) == queue' = [queue EXCEPT ![c] = Tail(@)]

Return(c, outcome) ==
    /\ fd' = [fd EXCEPT ![c] = "closed"]
    /\ queue' = [queue EXCEPT ![c] = <<>>]
    /\ phase' = [phase EXCEPT ![c] = "idle"]
    /\ waiting' = [waiting EXCEPT ![c] = FALSE]
    /\ result' = [result EXCEPT ![c] = outcome]

\* The position of the first record wanted, when the last n are.
WantedStart(count, last) == IF last > 0 /\ last < count THEN count - last ELSE 0

\* The session has its count; an empty store needs no download.
Begin(c) ==
    \E last \in Lasts :
        LET wanted == WantedStart(store, last)
        IN  /\ phase[c] = "idle" /\ store > 0
            /\ fd' = [fd EXCEPT ![c] = "live"]
            /\ phase' = [phase EXCEPT ![c] = "packet"]
            /\ call' = [call EXCEPT ![c] =
                  [NoCall EXCEPT !.count = store, !.wanted = wanted,
                                 !.off = (wanted \div PacketSize) * PacketSize]]
            /\ recs' = [recs EXCEPT ![c] = {}]
            /\ result' = [result EXCEPT ![c] = "none"]
            /\ UNCHANGED <<device, queue, waiting>>

\* getRecordPacket() writes its request; the ring is not drained.
AskPacket(c) ==
    /\ phase[c] = "packet" /\ ~waiting[c] /\ CanWrite
    /\ inbox' = Append(inbox, Request("record", call[c].off))
    /\ waiting' = [waiting EXCEPT ![c] = TRUE]
    /\ UNCHANGED <<store, serving, fd, queue, phase, call, recs, result>>

\* A data report with at least one record that decodes.
Plausible(r) == r.op = "record" /\ r.data # {}

\* Mutant of PassOver: such a report ends the wait, and the packet is asked for
\* once more.
PassOverOnce(c) ==
    /\ phase[c] = "packet" /\ waiting[c] /\ queue[c] # <<>>
    /\ ~Plausible(Head(queue[c]))
    /\ Pop(c)
    /\ waiting' = [waiting EXCEPT ![c] = FALSE]
    /\ UNCHANGED <<device, fd, phase, call, recs, result>>

\* It keeps waiting (a slice longer, which Deadline leaves open) after an
\* acknowledgement, and after any report that is malformed, of another
\* operation or without a record.
PassOver(c) ==
    /\ phase[c] = "packet" /\ waiting[c] /\ queue[c] # <<>>
    /\ ~Plausible(Head(queue[c]))
    /\ Pop(c)
    /\ UNCHANGED <<device, fd, phase, waiting, call, recs, result>>

\* Mutants of Filed: positions counted from the first record wanted; the last
\* record left out.
FiledFromWanted(c, r) ==
    {[index |-> call[c].wanted + i, from |-> r.off + i] :
        i \in {j \in 0..(PacketSize - 1) : r.off + j \in r.data}}

FiledButLast(c, r) ==
    {[index |-> call[c].off + i, from |-> r.off + i] :
        i \in {j \in 0..(PacketSize - 1) :
                  /\ call[c].off + j < call[c].count - 1
                  /\ call[c].off + j >= call[c].wanted
                  /\ r.off + j \in r.data}}

\* The records of report r, filed at the positions of the packet asked for.
Filed(c, r) ==
    {[index |-> call[c].off + i, from |-> r.off + i] :
        i \in {j \in 0..(PacketSize - 1) :
                  /\ call[c].off + j < call[c].count
                  /\ call[c].off + j >= call[c].wanted
                  /\ r.off + j \in r.data}}

Packet(c) ==
    /\ phase[c] = "packet" /\ waiting[c] /\ queue[c] # <<>>
    /\ Plausible(Head(queue[c]))
    /\ recs' = [recs EXCEPT ![c] = @ \cup Filed(c, Head(queue[c]))]
    /\ call' = [call EXCEPT ![c].off = @ + PacketSize]
    /\ IF call[c].off + PacketSize < call[c].count
       THEN /\ Pop(c) /\ waiting' = [waiting EXCEPT ![c] = FALSE]
            /\ UNCHANGED <<fd, phase, result>>
       ELSE Return(c, "ok")
    /\ UNCHANGED device

\* Mutant of StartPreamble: every timeout sends the preamble again.
StartPreambleAgain(c) ==
    /\ phase[c] = "packet" /\ Deadline(c)
    /\ phase' = [phase EXCEPT ![c] = "preamble"]
    /\ waiting' = [waiting EXCEPT ![c] = FALSE]
    /\ queue' = [queue EXCEPT ![c] = Drained(@)]
    /\ call' = [call EXCEPT ![c].sent = TRUE, ![c].k = 1]
    /\ UNCHANGED <<device, fd, recs, result>>

\* The first timeout starts the preamble, which drains the ring once.
StartPreamble(c) ==
    /\ phase[c] = "packet" /\ Deadline(c) /\ ~call[c].sent
    /\ phase' = [phase EXCEPT ![c] = "preamble"]
    /\ waiting' = [waiting EXCEPT ![c] = FALSE]
    /\ queue' = [queue EXCEPT ![c] = Drained(@)]
    /\ call' = [call EXCEPT ![c].sent = TRUE, ![c].k = 1]
    /\ UNCHANGED <<device, fd, recs, result>>

\* A second timeout, or a failed write, ends the download with what it has.
DownloadFails(c) ==
    /\ phase[c] = "packet"
    /\ (Deadline(c) /\ call[c].sent) \/ (~waiting[c] /\ ~CanWrite)
    /\ Return(c, "error")
    /\ UNCHANGED <<device, call, recs>>

AskPreamble(c) ==
    /\ phase[c] = "preamble" /\ ~waiting[c] /\ CanWrite
    /\ inbox' = Append(inbox, Request("read", call[c].k))
    /\ waiting' = [waiting EXCEPT ![c] = TRUE]
    /\ UNCHANGED <<store, serving, fd, queue, phase, call, recs, result>>

\* Mutant of PreambleRead: one read too many.
PreambleReadOver(c) ==
    /\ phase[c] = "preamble"
    /\ \/ ~waiting[c] /\ ~CanWrite /\ UNCHANGED queue
       \/ Deadline(c) /\ UNCHANGED queue
       \/ waiting[c] /\ queue[c] # <<>> /\ Pop(c)
    /\ waiting' = [waiting EXCEPT ![c] = FALSE]
    /\ call' = [call EXCEPT ![c].k = @ + 1]
    /\ phase' = [phase EXCEPT ![c] =
          IF waiting[c] /\ call[c].k <= PreambleLen THEN @ ELSE "packet"]
    /\ UNCHANGED <<device, fd, recs, result>>

\* After each read the preamble takes one report, whichever it is, or times
\* out; a failed write cuts it short.  Then the packet is asked for again.
PreambleRead(c) ==
    /\ phase[c] = "preamble"
    /\ \/ ~waiting[c] /\ ~CanWrite /\ UNCHANGED queue
       \/ Deadline(c) /\ UNCHANGED queue
       \/ waiting[c] /\ queue[c] # <<>> /\ Pop(c)
    /\ waiting' = [waiting EXCEPT ![c] = FALSE]
    /\ call' = [call EXCEPT ![c].k = @ + 1]
    /\ phase' = [phase EXCEPT ![c] =
          IF waiting[c] /\ call[c].k < PreambleLen THEN @ ELSE "packet"]
    /\ UNCHANGED <<device, fd, recs, result>>

Progress(c) ==
    \/ AskPacket(c) \/ Packet(c) \/ StartPreamble(c) \/ DownloadFails(c)
    \/ AskPreamble(c) \/ PreambleRead(c)

-----------------------------------------------------------------------------
(* The device *)

Emit(report) ==
    /\ UNCHANGED <<fd, phase, waiting, call, recs, result>>
    /\ \/ queue' = Broadcast(fd, queue, report)
       \/ "lose" \in Faults /\ UNCHANGED queue
       \/ "garble" \in Faults /\ queue' = Broadcast(fd, queue, Report("garbled", 0, {}))

AnswerRead ==
    /\ inbox # <<>> /\ Head(inbox).op = "read"
    /\ inbox' = Tail(inbox)
    /\ serving' = (serving \/ Head(inbox).off = UnlockAt)
    /\ Emit(Report("read", 0, {}))
    /\ UNCHANGED store

\* Old firmware says nothing until it has seen the preamble.
WithholdRecords ==
    /\ inbox # <<>> /\ Head(inbox).op = "record" /\ ~serving
    /\ inbox' = Tail(inbox)
    /\ UNCHANGED <<store, serving, fd, queue, phase, waiting, call, recs, result>>

AckRecords ==
    /\ inbox # <<>> /\ Head(inbox).op = "record" /\ serving /\ ~Head(inbox).acked
    /\ inbox' = [inbox EXCEPT ![1].acked = TRUE]
    /\ Emit(Report("ack", 0, {}))
    /\ UNCHANGED <<store, serving>>

SendRecords ==
    /\ inbox # <<>> /\ Head(inbox).op = "record" /\ serving /\ Head(inbox).acked
    /\ inbox' = Tail(inbox)
    /\ Emit(Report("record", Head(inbox).off, Decodable(Head(inbox).off)))
    /\ UNCHANGED <<store, serving>>

\* A Configure of some other caller formats the store.
Erase ==
    /\ "erase" \in Faults /\ store > 0
    /\ store' = 0
    /\ UNCHANGED <<serving, inbox, fd, queue, phase, waiting, call, recs, result>>

Answer == AnswerRead \/ WithholdRecords \/ AckRecords \/ SendRecords

DeviceStep == Answer \/ Erase

-----------------------------------------------------------------------------
Init ==
    /\ store \in 0..MaxStore
    /\ serving \in Firmware
    /\ inbox = <<>>
    /\ fd = [c \in Clients |-> "closed"]
    /\ queue = [c \in Clients |-> <<>>]
    /\ phase = [c \in Clients |-> "idle"]
    /\ waiting = [c \in Clients |-> FALSE]
    /\ call = [c \in Clients |-> NoCall]
    /\ recs = [c \in Clients |-> {}]
    /\ result = [c \in Clients |-> "none"]

Next == DeviceStep \/ \E c \in Clients : Begin(c) \/ PassOver(c) \/ Progress(c)

\* The deadline of a packet passes at last, however many reports are passed
\* over; where it waits for the device to have dealt with its requests, to
\* lose an answer is to deal with it.
Fairness ==
    /\ WF_vars(Answer)
    /\ \A c \in Clients : WF_vars(PassOver(c)) /\ WF_vars(Progress(c))

Spec == Init /\ [][Next]_vars

FairSpec == Spec /\ Fairness

-----------------------------------------------------------------------------
(* Properties *)

\* Variables have their types, and the preamble ends after its last read.
TypeOK ==
    /\ store \in 0..MaxStore
    /\ serving \in BOOLEAN
    /\ inbox \in Seq(Requests)
    /\ fd \in [Clients -> {"closed", "live"}]
    /\ queue \in [Clients -> Seq(Reports)]
    /\ phase \in [Clients -> {"idle", "packet", "preamble"}]
    /\ waiting \in [Clients -> BOOLEAN]
    /\ call \in [Clients -> [count: 0..MaxStore, wanted: Nat, off: Nat,
                             sent: BOOLEAN, k: 1..(PreambleLen + 1)]]
    /\ recs \in [Clients -> SUBSET [index: Nat, from: Nat]]
    /\ result \in [Clients -> {"none", "ok", "error"}]

\* Record.Index is the "0-based position in the logger's store": no retry,
\* lost or damaged report or erasing files a record under another's position.
RecordsFaithful ==
    \A c \in Clients : \A r \in recs[c] : r.index = r.from

\* Why RecordsFaithful holds of a download that is alone on the link: while it
\* waits for a packet, that packet is the only one asked for and not answered,
\* or answered and not read, with all its readable records or, since the store
\* was erased, none; and when it does not wait for a packet there is none.
Asking(c) == phase[c] = "packet" /\ waiting[c]

Readable(c) == {i \in Slots(call[c].off) : i < call[c].count /\ i \notin Unreadable}

Wanted(c, q) ==
    LET at(i) == q[i].op = "record"
    IN  /\ \A i \in 1..Len(q) : at(i) => Asking(c) /\ q[i].off = call[c].off
        /\ \A i, j \in 1..Len(q) : at(i) /\ at(j) => i = j

AnswersCurrent ==
    \A c \in Clients :
        /\ Wanted(c, inbox) /\ Wanted(c, queue[c])
        /\ \A i \in 1..Len(inbox), j \in 1..Len(queue[c]) :
               ~(inbox[i].op = "record" /\ queue[c][j].op = "record")
        /\ \A j \in 1..Len(queue[c]) :
               queue[c][j].op = "record" => queue[c][j].data \in {{}, Readable(c)}

\* A download that reports success has every readable record that was asked
\* for, and nothing else.
DownloadComplete ==
    \A c \in Clients : result[c] = "ok" =>
        {r.index : r \in recs[c]} = (call[c].wanted..(call[c].count - 1)) \ Unreadable

\* "Records the device could not encode are skipped": they do not make the
\* download fail.
UnreadableSkipped ==
    \A c \in Clients : result[c] # "error"

\* A download ends, with or without its records.
EveryDownloadReturns ==
    \A c \in Clients : phase[c] # "idle" ~> phase[c] = "idle"
=============================================================================
