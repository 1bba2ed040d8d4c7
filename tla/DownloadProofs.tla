--------------------------- MODULE DownloadProofs ---------------------------
(***************************************************************************)
(* Proofs about module Download.  For any number of downloads, any store,  *)
(* packet size, preamble and faults:                                       *)
(*   - TypeOK is an invariant (DownloadTypes);                             *)
(*   - every step of a download leaves less of it (EveryDownloadAdvances), *)
(*     which is bounded (DownloadsAreBounded).                             *)
(* For a download that is alone on the link of a logger whose reports come *)
(* before their deadline or not at all:                                    *)
(*   - the answer on its way is to the packet asked for (AnswersAreCurrent); *)
(*   - records are filed where they were (RecordsAreFaithful);             *)
(*   - success means all that were asked for (SuccessIsComplete).          *)
(* The last two need the first of these, and what has been filed so far.   *)
(***************************************************************************)
EXTENDS Download, HidrawProofs

DeviceOK ==
    /\ store \in 0..MaxStore
    /\ serving \in BOOLEAN
    /\ inbox \in Seq(Requests)

LinkOK ==
    /\ fd \in [Clients -> {"closed", "live"}]
    /\ queue \in [Clients -> Seq(Reports)]

Calls == [count: 0..MaxStore, wanted: Nat, off: Nat,
          sent: BOOLEAN, k: 1..(PreambleLen + 1)]

CallOK ==
    /\ phase \in [Clients -> {"idle", "packet", "preamble"}]
    /\ waiting \in [Clients -> BOOLEAN]
    /\ call \in [Clients -> Calls]
    /\ recs \in [Clients -> SUBSET [index: Nat, from: Nat]]
    /\ result \in [Clients -> {"none", "ok", "error"}]

\* A preamble is at one of its reads.
PreambleOK == \A c \in Clients : phase[c] = "preamble" => call[c].k <= PreambleLen

Typed == DeviceOK /\ LinkOK /\ CallOK /\ PreambleOK

\* TypeOK is the parts but for the last, which makes it inductive.
LEMMA TypeParts == TypeOK <=> DeviceOK /\ LinkOK /\ CallOK
  BY DEF TypeOK, DeviceOK, LinkOK, CallOK, Calls

-----------------------------------------------------------------------------
(* Types of the operators *)

LEMMA RequestType ==
  ASSUME NEW op \in {"record", "read"}, NEW off \in Nat
  PROVE  /\ Request(op, off) \in Requests
         /\ Request(op, off).op = op /\ Request(op, off).off = off
  BY DEF Request, Requests

\* An acknowledged request is the request.
LEMMA AckedType ==
  ASSUME NEW A, NEW B, NEW C, NEW r \in [op: A, off: B, acked: C], NEW acked \in C
  PROVE  [r EXCEPT !.acked = acked] \in [op: A, off: B, acked: C]
  OBVIOUS

LEMMA ReportType ==
  ASSUME NEW op \in {"ack", "record", "read", "garbled"}, NEW off \in Nat,
         NEW data \in SUBSET Nat
  PROVE  /\ Report(op, off, data) \in Reports
         /\ Report(op, off, data).op = op /\ Report(op, off, data).off = off
         /\ Report(op, off, data).data = data
  BY DEF Report, Reports

\* A packet holds positions of the store.
LEMMA DecodableType ==
  ASSUME NEW off \in Nat PROVE Decodable(off) \in SUBSET Nat
  BY DownloadAssumption DEF Decodable, Slots

\* The last n of the records begin at one of them, in a packet that begins
\* there or before.
LEMMA WantedType ==
  ASSUME NEW count \in Nat, NEW last \in Nat
  PROVE  /\ WantedStart(count, last) \in Nat
         /\ (WantedStart(count, last) \div PacketSize) * PacketSize \in Nat
         /\ (WantedStart(count, last) \div PacketSize) * PacketSize
                <= WantedStart(count, last)
  <1> DEFINE w == WantedStart(count, last)
  <1>1. w \in Nat
    BY DEF WantedStart
  <1> HIDE DEF w
  <1>2. PacketSize \in Nat /\ PacketSize > 0
    BY DownloadAssumption
  <1>3. w \div PacketSize \in Nat /\ w % PacketSize \in Nat
    BY <1>1, <1>2
  <1>4. w = PacketSize * (w \div PacketSize) + (w % PacketSize)
    BY <1>1, <1>2
  <1>5. \A x \in Nat : x * PacketSize \in Nat /\ x * PacketSize = PacketSize * x
    BY <1>2
  <1>6. (w \div PacketSize) * PacketSize \in Nat
    BY <1>3, <1>5
  <1>7. (w \div PacketSize) * PacketSize <= w
    BY <1>1, <1>3, <1>4, <1>5, <1>6
  <1> QED BY <1>1, <1>6, <1>7 DEF w

\* A call keeps its type as its fields change.
LEMMA FieldsType ==
  ASSUME NEW A, NEW B, NEW C, NEW D, NEW E,
         NEW q \in [count: A, wanted: B, off: C, sent: D, k: E],
         NEW count \in A, NEW wanted \in B, NEW off \in C, NEW sent \in D, NEW k \in E
  PROVE  /\ [q EXCEPT !.count = count, !.wanted = wanted, !.off = off]
                \in [count: A, wanted: B, off: C, sent: D, k: E]
         /\ [q EXCEPT !.off = off] \in [count: A, wanted: B, off: C, sent: D, k: E]
         /\ [q EXCEPT !.sent = sent, !.k = k] \in [count: A, wanted: B, off: C, sent: D, k: E]
         /\ [q EXCEPT !.k = k] \in [count: A, wanted: B, off: C, sent: D, k: E]
  OBVIOUS

\* A call that has not begun, one that begins, goes on to its next packet,
\* begins its preamble, and goes on in it.
LEMMA NoCallType == NoCall \in Calls
  <1>1. 0 \in 0..MaxStore /\ 1 \in 1..(PreambleLen + 1)
    BY DownloadAssumption
  <1> QED BY <1>1 DEF NoCall, Calls

LEMMA BegunType ==
  ASSUME NEW count \in 0..MaxStore, NEW wanted \in Nat, NEW off \in Nat
  PROVE  [NoCall EXCEPT !.count = count, !.wanted = wanted, !.off = off] \in Calls
  <1>1. 1 \in 1..(PreambleLen + 1)
    BY DownloadAssumption
  <1> QED BY <1>1, NoCallType, FieldsType DEF Calls

LEMMA NextPacketType ==
  ASSUME NEW q \in Calls PROVE [q EXCEPT !.off = @ + PacketSize] \in Calls
  <1>1. q.off + PacketSize \in Nat /\ 1 \in 1..(PreambleLen + 1) /\ 0 \in 0..MaxStore
    BY DownloadAssumption DEF Calls
  <1> QED BY <1>1, FieldsType DEF Calls

LEMMA PreambleType ==
  ASSUME NEW q \in Calls
  PROVE  /\ [q EXCEPT !.sent = TRUE, !.k = 1] \in Calls
         /\ q.k <= PreambleLen => [q EXCEPT !.k = @ + 1] \in Calls
  <1>1. 1 \in 1..(PreambleLen + 1) /\ 0 \in 0..MaxStore
    BY DownloadAssumption
  <1>2. q.k <= PreambleLen => q.k + 1 \in 1..(PreambleLen + 1)
    BY DownloadAssumption DEF Calls
  <1>3. [q EXCEPT !.sent = TRUE, !.k = 1] \in Calls
    BY <1>1, FieldsType DEF Calls
  <1>4. ASSUME q.k <= PreambleLen PROVE [q EXCEPT !.k = @ + 1] \in Calls
    BY <1>1, <1>2, <1>4, FieldsType DEF Calls
  <1> QED BY <1>3, <1>4

\* What is filed are records.
LEMMA FiledType ==
  ASSUME CallOK, NEW c \in Clients, NEW r \in Reports
  PROVE  Filed(c, r) \in SUBSET [index: Nat, from: Nat]
  <1>1. call[c].off \in Nat /\ r.off \in Nat
    BY DEF CallOK, Calls, Reports
  <1>2. \A i \in 0..(PacketSize - 1) : call[c].off + i \in Nat /\ r.off + i \in Nat
    BY <1>1, DownloadAssumption
  <1> QED BY <1>2 DEF Filed

-----------------------------------------------------------------------------
(* Type correctness *)

\* Every step leaves the types as they are: those of the parts of a step first.
LEMMA PopType ==
  ASSUME LinkOK, NEW c \in Clients, queue[c] # <<>>, Pop(c), UNCHANGED fd
  PROVE  LinkOK'
  <1>1. Tail(queue[c]) \in Seq(Reports)
    BY TailSeq DEF LinkOK
  <1> QED BY <1>1 DEF LinkOK, Pop

LEMMA ReturnType ==
  ASSUME LinkOK, CallOK, PreambleOK, NEW c \in Clients,
         NEW outcome \in {"ok", "error"}, Return(c, outcome),
         call' \in [Clients -> Calls], recs' \in [Clients -> SUBSET [index: Nat, from: Nat]],
         \A d \in Clients : d # c => call'[d] = call[d]
  PROVE  LinkOK' /\ CallOK' /\ PreambleOK'
  <1>1. <<>> \in Seq(Reports)
    OBVIOUS
  <1>2. LinkOK'
    BY <1>1 DEF LinkOK, Return
  <1>3. CallOK'
    BY DEF CallOK, Return
  <1>4. PreambleOK'
    BY DEF PreambleOK, CallOK, Return
  <1> QED BY <1>2, <1>3, <1>4

LEMMA EmitType ==
  ASSUME LinkOK, CallOK, PreambleOK, NEW r \in Reports, Emit(r)
  PROVE  LinkOK' /\ CallOK' /\ PreambleOK'
  <1>1. ASSUME NEW x \in Reports, queue' = Broadcast(fd, queue, x), UNCHANGED fd
        PROVE  LinkOK'
    <2>1. queue \in [Clients -> Seq(Reports)]
      BY DEF LinkOK
    <2>2. queue' \in [Clients -> Seq(Reports)]
      BY <1>1, <2>1, BroadcastType
    <2> QED BY <1>1, <2>2 DEF LinkOK
  <1>2. ASSUME UNCHANGED <<fd, queue>> PROVE LinkOK'
    BY <1>2 DEF LinkOK
  <1>3. Report("garbled", 0, {}) \in Reports
    BY ReportType
  <1>4. LinkOK'
    BY <1>1, <1>2, <1>3 DEF Emit
  <1>5. CallOK' /\ PreambleOK'
    BY DEF Emit, CallOK, PreambleOK
  <1> QED BY <1>4, <1>5

LEMMA AskType ==
  ASSUME Typed, NEW c \in Clients, NEW r \in Requests,
         inbox' = Append(inbox, r),
         waiting' = [waiting EXCEPT ![c] = TRUE],
         UNCHANGED <<store, serving, fd, queue, phase, call, recs, result>>
  PROVE  Typed'
  <1>1. DeviceOK'
    BY AppendAt DEF Typed, DeviceOK
  <1>2. LinkOK' /\ PreambleOK'
    BY DEF Typed, LinkOK, PreambleOK
  <1>3. CallOK'
    BY DEF Typed, CallOK
  <1> QED BY <1>1, <1>2, <1>3 DEF Typed

\* The steps of a download.
LEMMA ClientType ==
  ASSUME Typed, NEW c \in Clients, Begin(c) \/ PassOver(c) \/ Progress(c)
  PROVE  Typed'
  <1> USE DEF Typed
  <1>device. ASSUME UNCHANGED device PROVE DeviceOK'
    BY <1>device DEF DeviceOK, device
  <1>begin. CASE Begin(c)
    <2> DEFINE W(last) == WantedStart(store, last)
    <2>1. PICK last \in Lasts :
            /\ fd' = [fd EXCEPT ![c] = "live"]
            /\ phase' = [phase EXCEPT ![c] = "packet"]
            /\ call' = [call EXCEPT ![c] =
                  [NoCall EXCEPT !.count = store, !.wanted = W(last),
                                 !.off = (W(last) \div PacketSize) * PacketSize]]
            /\ recs' = [recs EXCEPT ![c] = {}]
            /\ result' = [result EXCEPT ![c] = "none"]
            /\ UNCHANGED <<device, queue, waiting>>
      BY <1>begin DEF Begin
    <2>2. last \in Nat /\ store \in Nat /\ store \in 0..MaxStore
      BY DownloadAssumption DEF DeviceOK
    <2>3. W(last) \in Nat /\ (W(last) \div PacketSize) * PacketSize \in Nat
      BY <2>2, WantedType
    <2> HIDE DEF W
    <2>4. call' \in [Clients -> Calls]
      BY <2>1, <2>2, <2>3, BegunType DEF CallOK
    <2>5. LinkOK'
      BY <2>1 DEF LinkOK
    <2>6. CallOK'
      BY <2>1, <2>4 DEF CallOK
    <2>7. PreambleOK'
      BY <2>1 DEF PreambleOK, CallOK
    <2> QED BY <1>device, <2>1, <2>5, <2>6, <2>7
  <1>askPacket. CASE AskPacket(c)
    <2>1. Request("record", call[c].off) \in Requests
      BY RequestType DEF CallOK, Calls
    <2> QED BY <1>askPacket, <2>1, AskType DEF AskPacket
  <1>passOver. CASE PassOver(c)
    <2>1. CallOK' /\ PreambleOK'
      BY <1>passOver DEF PassOver, CallOK, PreambleOK
    <2> QED BY <1>passOver, <2>1, <1>device, PopType DEF PassOver
  <1>packet. CASE Packet(c)
    <2>1. Head(queue[c]) \in Reports
      BY <1>packet, TailAt DEF Packet, LinkOK
    <2>2. recs' \in [Clients -> SUBSET [index: Nat, from: Nat]]
      <3>1. Filed(c, Head(queue[c])) \in SUBSET [index: Nat, from: Nat]
        BY <2>1, FiledType
      <3>2. recs[c] \cup Filed(c, Head(queue[c])) \in SUBSET [index: Nat, from: Nat]
        BY <3>1 DEF CallOK
      <3> QED BY <1>packet, <3>2 DEF Packet, CallOK
    <2>3. call' \in [Clients -> Calls]
      BY <1>packet, NextPacketType DEF Packet, CallOK
    <2>4. CASE call[c].off + PacketSize < call[c].count
      <3>1. LinkOK'
        BY <1>packet, <2>4, PopType DEF Packet
      <3>2. CallOK'
        BY <1>packet, <2>2, <2>3, <2>4 DEF Packet, CallOK
      <3>3. PreambleOK'
        BY <1>packet, <2>4 DEF Packet, PreambleOK, CallOK
      <3> QED BY <1>packet, <1>device, <3>1, <3>2, <3>3 DEF Packet
    <2>5. CASE ~(call[c].off + PacketSize < call[c].count)
      <3>1. Return(c, "ok") /\ \A d \in Clients : d # c => call'[d] = call[d]
        BY <1>packet, <2>5 DEF Packet, CallOK
      <3> QED BY <1>packet, <1>device, <2>2, <2>3, <3>1, ReturnType DEF Packet
    <2> QED BY <2>4, <2>5
  <1>startPreamble. CASE StartPreamble(c)
    <2>1. Drained(queue[c]) \in Seq(Reports)
      BY DrainedSeq DEF LinkOK
    <2>2. LinkOK'
      BY <1>startPreamble, <2>1 DEF StartPreamble, LinkOK
    <2>3. call[c] \in Calls /\ call' = [call EXCEPT ![c] = [@ EXCEPT !.sent = TRUE, !.k = 1]]
      BY <1>startPreamble DEF StartPreamble, CallOK
    <2>4. call' \in [Clients -> Calls]
      BY <2>3, PreambleType DEF CallOK
    <2>5. CallOK'
      BY <1>startPreamble, <2>4 DEF StartPreamble, CallOK
    <2>6. PreambleOK'
      <3>1. call'[c].k = 1
        BY <2>3 DEF CallOK, Calls
      <3>2. \A d \in Clients \ {c} : call'[d] = call[d] /\ phase'[d] = phase[d]
        BY <1>startPreamble, <2>3 DEF StartPreamble, CallOK
      <3> QED BY <3>1, <3>2, DownloadAssumption DEF PreambleOK
    <2> QED BY <1>startPreamble, <1>device, <2>2, <2>5, <2>6 DEF StartPreamble
  <1>fails. CASE DownloadFails(c)
    <2>1. Return(c, "error") /\ UNCHANGED <<device, call, recs>>
      BY <1>fails DEF DownloadFails
    <2>2. call' \in [Clients -> Calls] /\ recs' \in [Clients -> SUBSET [index: Nat, from: Nat]]
      BY <2>1 DEF CallOK
    <2> QED BY <1>device, <2>1, <2>2, ReturnType
  <1>askPreamble. CASE AskPreamble(c)
    <2>1. Request("read", call[c].k) \in Requests
      BY RequestType, DownloadAssumption DEF CallOK, Calls
    <2> QED BY <1>askPreamble, <2>1, AskType DEF AskPreamble
  <1>preambleRead. CASE PreambleRead(c)
    <2>1. LinkOK'
      <3>1. CASE UNCHANGED queue
        BY <1>preambleRead, <3>1 DEF PreambleRead, LinkOK
      <3>2. CASE queue[c] # <<>> /\ Pop(c)
        BY <1>preambleRead, <3>2, PopType DEF PreambleRead
      <3> QED BY <1>preambleRead, <3>1, <3>2 DEF PreambleRead
    <2>2. call[c] \in Calls /\ call[c].k <= PreambleLen
      BY <1>preambleRead DEF PreambleRead, PreambleOK, CallOK
    <2>3. call' \in [Clients -> Calls]
      BY <1>preambleRead, <2>2, PreambleType DEF PreambleRead, CallOK
    <2>4. CallOK'
      BY <1>preambleRead, <2>3 DEF PreambleRead, CallOK
    <2>5. PreambleOK'
      <3>1. call'[c].k = call[c].k + 1 /\ call[c].k \in Nat
        BY <1>preambleRead, <2>2, DownloadAssumption DEF PreambleRead, CallOK, Calls
      <3>2. phase'[c] = "preamble" => call[c].k < PreambleLen
        BY <1>preambleRead DEF PreambleRead, CallOK
      <3>3. \A d \in Clients \ {c} : call'[d] = call[d] /\ phase'[d] = phase[d]
        BY <1>preambleRead DEF PreambleRead, CallOK
      <3> QED BY <3>1, <3>2, <3>3, DownloadAssumption DEF PreambleOK
    <2> QED BY <1>preambleRead, <1>device, <2>1, <2>4, <2>5 DEF PreambleRead
  <1> QED BY <1>begin, <1>askPacket, <1>passOver, <1>packet, <1>startPreamble, <1>fails,
             <1>askPreamble, <1>preambleRead DEF Progress

\* The steps of the device.
LEMMA DeviceType ==
  ASSUME Typed, DeviceStep PROVE Typed'
  <1> USE DEF Typed
  <1>tail. ASSUME inbox # <<>> PROVE Tail(inbox) \in Seq(Requests) /\ Head(inbox) \in Requests
    BY <1>tail DEF DeviceOK
  <1>1. CASE AnswerRead
    <2>1. DeviceOK'
      BY <1>1, <1>tail DEF AnswerRead, DeviceOK
    <2> QED BY <1>1, <2>1, EmitType, ReportType DEF AnswerRead
  <1>2. CASE WithholdRecords
    BY <1>2, <1>tail DEF WithholdRecords, DeviceOK, LinkOK, CallOK, PreambleOK
  <1>3. CASE AckRecords
    <2>1. inbox' \in Seq(Requests)
      <3>1. [inbox[1] EXCEPT !.acked = TRUE] \in Requests
        <4>1. inbox[1] \in Requests
          BY <1>3, <1>tail DEF AckRecords, DeviceOK
        <4> QED BY <4>1, AckedType DEF Requests
      <3> QED BY <1>3, <3>1 DEF AckRecords, DeviceOK
    <2> QED BY <1>3, <2>1, EmitType, ReportType DEF AckRecords, DeviceOK
  <1>4. CASE SendRecords
    <2>1. DeviceOK'
      BY <1>4, <1>tail DEF SendRecords, DeviceOK
    <2>2. Head(inbox).off \in Nat
      BY <1>4, <1>tail DEF SendRecords, Requests
    <2>3. Report("record", Head(inbox).off, Decodable(Head(inbox).off)) \in Reports
      BY <2>2, ReportType, DecodableType
    <2> QED BY <1>4, <2>1, <2>3, EmitType DEF SendRecords
  <1>5. CASE Erase
    BY <1>5, DownloadAssumption DEF Erase, DeviceOK, LinkOK, CallOK, PreambleOK
  <1> QED BY <1>1, <1>2, <1>3, <1>4, <1>5 DEF DeviceStep, Answer

LEMMA TypedStep == Typed /\ [Next]_vars => Typed'
  <1>1. ASSUME Typed, UNCHANGED vars PROVE Typed'
    BY <1>1 DEF vars, Typed, DeviceOK, LinkOK, CallOK, PreambleOK
  <1> QED BY <1>1, ClientType, DeviceType DEF Next

LEMMA TypedInit == Init => Typed
  <1> SUFFICES ASSUME Init PROVE Typed
    OBVIOUS
  <1>1. DeviceOK
    BY DownloadAssumption DEF Init, DeviceOK
  <1>2. LinkOK
    BY DEF Init, LinkOK
  <1>3. CallOK /\ PreambleOK
    BY NoCallType DEF Init, CallOK, PreambleOK
  <1> QED BY <1>1, <1>2, <1>3 DEF Typed

\* However many downloads share the link and whatever goes wrong, variables have
\* their types, and a preamble never goes on behind its last read.
THEOREM DownloadTypes == Spec => []TypeOK
  <1>1. Typed => TypeOK
    BY TypeParts DEF Typed
  <1> QED BY <1>1, TypedInit, TypedStep, PTL DEF Spec

-----------------------------------------------------------------------------
(* A download that is alone on the link of a punctual logger *)

\* No other download shares the link; no packet comes after its deadline.
Alone == \A c, d \in Clients : c = d
Punctual == "late packet" \notin Faults

\* Without a call nothing is open; during one the store is whole or erased.
Quiet ==
    \A c \in Clients : phase[c] = "idle" =>
        fd[c] = "closed" /\ queue[c] = <<>> /\ ~waiting[c]

StoreCurrent ==
    \A c \in Clients : phase[c] # "idle" => store \in {0, call[c].count}

Current == Quiet /\ StoreCurrent /\ AnswersCurrent

\* What is in a sequence of requests or reports: no packet; at most the packets
\* of another, which may be one longer at its front.
NoPacket(q) == \A i \in 1..Len(q) : q[i].op # "record"

Among(p, q) ==
    \E s \in {0, 1} : \A i \in 1..Len(p) : p[i].op = "record" =>
        i + s \in 1..Len(q) /\ q[i + s].op = "record" /\ q[i + s].off = p[i].off

ReportsAmong(p, q) ==
    \E s \in {0, 1} : \A i \in 1..Len(p) : p[i].op = "record" =>
        i + s \in 1..Len(q) /\ q[i + s] = p[i]

\* Taking the first, or adding what is no packet, adds no packet.
LEMMA SameAmong ==
  ASSUME NEW S, NEW q \in Seq(S)
  PROVE  Among(q, q) /\ ReportsAmong(q, q)
  <1>1. \A i \in 1..Len(q) : i + 0 \in 1..Len(q) /\ q[i + 0] = q[i]
    OBVIOUS
  <1> QED BY <1>1 DEF Among, ReportsAmong

LEMMA TailAmong ==
  ASSUME NEW S, NEW q \in Seq(S), q # <<>>
  PROVE  Among(Tail(q), q) /\ ReportsAmong(Tail(q), q)
  <1>1. \A i \in 1..Len(Tail(q)) : i + 1 \in 1..Len(q) /\ q[i + 1] = Tail(q)[i]
    BY TailAt
  <1> QED BY <1>1 DEF Among, ReportsAmong

LEMMA BufferedAmong ==
  ASSUME NEW S, NEW q \in Seq(S), NEW r \in S, r.op # "record"
  PROVE  ReportsAmong(Buffered(q, r), q)
  <1>1. \A i \in 1..Len(Buffered(q, r)) : Buffered(q, r)[i].op = "record" =>
            i + 0 \in 1..Len(q) /\ q[i + 0] = Buffered(q, r)[i]
    BY BufferedAt
  <1> QED BY <1>1 DEF ReportsAmong

LEMMA TailNoPacket ==
  ASSUME NEW S, NEW q \in Seq(S), q # <<>>, NoPacket(q)
  PROVE  NoPacket(Tail(q))
  BY TailAt DEF NoPacket

LEMMA EmitAmong ==
  ASSUME LinkOK, NEW r \in Reports, r.op # "record", Emit(r), NEW c \in Clients
  PROVE  ReportsAmong(queue'[c], queue[c])
  <1>0. queue \in [Clients -> Seq(Reports)] /\ queue[c] \in Seq(Reports)
    BY DEF LinkOK
  <1>1. ASSUME NEW x \in Reports, x.op # "record", queue' = Broadcast(fd, queue, x)
        PROVE  ReportsAmong(queue'[c], queue[c])
    <2>1. queue'[c] = queue[c] \/ queue'[c] = Buffered(queue[c], x)
      BY <1>0, <1>1 DEF Broadcast
    <2>2. ReportsAmong(queue[c], queue[c])
      BY <1>0, SameAmong
    <2>3. ReportsAmong(Buffered(queue[c], x), queue[c])
      BY <1>0, <1>1, BufferedAmong
    <2> QED BY <2>1, <2>2, <2>3
  <1>2. Report("garbled", 0, {}) \in Reports /\ Report("garbled", 0, {}).op # "record"
    BY ReportType
  <1>3. ASSUME UNCHANGED queue PROVE ReportsAmong(queue'[c], queue[c])
    BY <1>0, <1>3, SameAmong
  <1> QED BY <1>1, <1>2, <1>3 DEF Emit

\* Where the call stays where it is and no packet is added, answers stay current.
LEMMA AmongCurrent ==
  ASSUME AnswersCurrent, UNCHANGED <<phase, waiting, call>>, Among(inbox', inbox),
         \A c \in Clients : ReportsAmong(queue'[c], queue[c])
  PROVE  AnswersCurrent'
  <1> SUFFICES ASSUME NEW c \in Clients
               PROVE  /\ Wanted(c, inbox)' /\ Wanted(c, queue[c])'
                      /\ \A i \in 1..Len(inbox'), j \in 1..Len(queue'[c]) :
                             ~(inbox'[i].op = "record" /\ queue'[c][j].op = "record")
                      /\ \A j \in 1..Len(queue'[c]) : queue'[c][j].op = "record" =>
                             queue'[c][j].data \in {{}, Readable(c)'}
    BY DEF AnswersCurrent
  <1>1. Asking(c)' = Asking(c) /\ Readable(c)' = Readable(c)
    BY DEF Asking, Readable
  <1>2. PICK s \in {0, 1} : \A i \in 1..Len(inbox') : inbox'[i].op = "record" =>
           i + s \in 1..Len(inbox) /\ inbox[i + s].op = "record"
           /\ inbox[i + s].off = inbox'[i].off
    BY DEF Among
  <1>3. PICK t \in {0, 1} : \A i \in 1..Len(queue'[c]) : queue'[c][i].op = "record" =>
           i + t \in 1..Len(queue[c]) /\ queue[c][i + t] = queue'[c][i]
    BY DEF ReportsAmong
  <1>4. Wanted(c, inbox) /\ Wanted(c, queue[c])
    BY DEF AnswersCurrent
  <1>5. Wanted(c, inbox)'
    <2>1. ASSUME NEW i \in 1..Len(inbox'), inbox'[i].op = "record"
          PROVE  Asking(c)' /\ inbox'[i].off = call'[c].off
      BY <1>1, <1>2, <1>4, <2>1 DEF Wanted
    <2>2. ASSUME NEW i \in 1..Len(inbox'), NEW j \in 1..Len(inbox'),
                 inbox'[i].op = "record", inbox'[j].op = "record"
          PROVE  i = j
      <3>1. i + s = j + s
        BY <1>2, <1>4, <2>2 DEF Wanted
      <3> QED BY <3>1
    <2> QED BY <2>1, <2>2 DEF Wanted
  <1>6. Wanted(c, queue[c])'
    <2>1. ASSUME NEW i \in 1..Len(queue'[c]), queue'[c][i].op = "record"
          PROVE  Asking(c)' /\ queue'[c][i].off = call'[c].off
      BY <1>1, <1>3, <1>4, <2>1 DEF Wanted
    <2>2. ASSUME NEW i \in 1..Len(queue'[c]), NEW j \in 1..Len(queue'[c]),
                 queue'[c][i].op = "record", queue'[c][j].op = "record"
          PROVE  i = j
      <3>1. i + t = j + t
        BY <1>3, <1>4, <2>2 DEF Wanted
      <3> QED BY <3>1
    <2> QED BY <2>1, <2>2 DEF Wanted
  <1>7. \A i \in 1..Len(inbox'), j \in 1..Len(queue'[c]) :
           ~(inbox'[i].op = "record" /\ queue'[c][j].op = "record")
    BY <1>2, <1>3 DEF AnswersCurrent
  <1>8. \A j \in 1..Len(queue'[c]) : queue'[c][j].op = "record" =>
           queue'[c][j].data \in {{}, Readable(c)'}
    BY <1>1, <1>3 DEF AnswersCurrent
  <1> QED BY <1>5, <1>6, <1>7, <1>8

\* So are they where there is no packet.
LEMMA NoneCurrent ==
  ASSUME NoPacket(inbox'), \A c \in Clients : NoPacket(queue'[c])
  PROVE  AnswersCurrent'
  BY DEF NoPacket, AnswersCurrent, Wanted

\* There is none where none is waited for.
LEMMA NotAsking ==
  ASSUME AnswersCurrent, NEW c \in Clients, ~Asking(c)
  PROVE  NoPacket(inbox) /\ NoPacket(queue[c])
  BY DEF AnswersCurrent, Wanted, NoPacket

\* Nor, on a punctual logger, once its deadline has passed.
LEMMA DeadlinePassed ==
  ASSUME Punctual, NEW c \in Clients, phase[c] = "packet", Deadline(c)
  PROVE  inbox = <<>> /\ queue[c] = <<>>
  BY DEF Punctual, Deadline

\* The steps of the download.
LEMMA ClientCurrent ==
  ASSUME Alone, Punctual, Typed, Current, NEW c \in Clients,
         Begin(c) \/ PassOver(c) \/ Progress(c)
  PROVE  Current'
  <1> DEFINE Good == Quiet' /\ StoreCurrent' /\ AnswersCurrent'
  <1>only. \A d \in Clients : d = c
    BY DEF Alone
  <1>types. /\ c \in DOMAIN phase /\ c \in DOMAIN queue /\ c \in DOMAIN waiting
            /\ c \in DOMAIN fd /\ c \in DOMAIN call
            /\ phase[c] \in {"idle", "packet", "preamble"}
            /\ call[c] \in Calls /\ queue[c] \in Seq(Reports) /\ inbox \in Seq(Requests)
    BY DEF Typed, DeviceOK, LinkOK, CallOK
  <1>current. Quiet /\ StoreCurrent /\ AnswersCurrent
    BY DEF Current
  <1>none. ASSUME ~Asking(c) PROVE NoPacket(inbox) /\ NoPacket(queue[c])
    BY <1>none, <1>current, NotAsking
  <1>late. ASSUME phase[c] = "packet", Deadline(c) PROVE inbox = <<>> /\ queue[c] = <<>>
    BY <1>late, DeadlinePassed
  <1>empty. NoPacket(<<>>)
    BY DEF NoPacket
  <1>cleared. ASSUME NoPacket(inbox'), NoPacket(queue'[c]) PROVE AnswersCurrent'
    BY <1>cleared, <1>only, NoneCurrent
  <1>begin. CASE Begin(c)
    <2>1. /\ phase[c] = "idle" /\ phase'[c] = "packet" /\ call'[c].count = store
          /\ UNCHANGED <<device, queue, waiting>>
      BY <1>begin, <1>types DEF Begin, NoCall
    <2>2. AnswersCurrent'
      BY <2>1, <1>none, <1>cleared DEF Asking, device
    <2> QED BY <2>1, <2>2, <1>only DEF Quiet, StoreCurrent, device, Current
  <1>askPacket. CASE AskPacket(c)
    <2>1. NoPacket(inbox) /\ NoPacket(queue[c])
      BY <1>askPacket, <1>none DEF AskPacket, Asking
    <2>2. /\ phase'[c] = "packet" /\ waiting'[c] /\ call' = call /\ queue' = queue
          /\ store' = store
      BY <1>askPacket, <1>types DEF AskPacket
    <2> DEFINE r == Request("record", call[c].off)
    <2>3. r \in Requests /\ r.op = "record" /\ r.off = call[c].off
      BY <1>types, RequestType DEF Calls
    <2>4. inbox' = Append(inbox, r)
      BY <1>askPacket DEF AskPacket
    <2> HIDE DEF r
    <2>5. \A i \in 1..Len(inbox') : inbox'[i].op = "record" =>
             i = Len(inbox) + 1 /\ inbox'[i] = r
      BY <2>1, <2>3, <2>4, <1>types, AppendAt DEF NoPacket
    <2>6. Asking(c)'
      BY <2>2 DEF Asking
    <2>7. Wanted(c, inbox)'
      BY <2>2, <2>3, <2>5, <2>6 DEF Wanted
    <2>8. NoPacket(queue'[c])
      BY <2>1, <2>2
    <2>9. AnswersCurrent'
      BY <2>7, <2>8, <1>only DEF AnswersCurrent, NoPacket, Wanted
    <2> QED BY <2>2, <2>9, <1>current, <1>only, <1>askPacket
            DEF Quiet, StoreCurrent, AskPacket, Current
  <1>passOver. CASE PassOver(c)
    <2>1. queue[c] # <<>> /\ queue'[c] = Tail(queue[c])
      BY <1>passOver, <1>types DEF PassOver, Pop
    <2>2. UNCHANGED <<device, fd, phase, waiting, call>> /\ phase[c] = "packet"
      BY <1>passOver DEF PassOver
    <2>3. Among(inbox', inbox)
      BY <2>2, <1>types, SameAmong DEF device
    <2>4. \A d \in Clients : ReportsAmong(queue'[d], queue[d])
      BY <2>1, <1>only, <1>types, TailAmong
    <2>5. AnswersCurrent'
      BY <2>2, <2>3, <2>4, <1>current, AmongCurrent
    <2> QED BY <2>2, <2>5, <1>current, <1>only DEF Quiet, StoreCurrent, device, Current
  <1>packet. CASE Packet(c)
    <2>1. queue[c] # <<>> /\ Head(queue[c]).op = "record"
      BY <1>packet DEF Packet, Plausible
    <2>2. /\ 1 \in 1..Len(queue[c]) /\ queue[c][1].op = "record"
          /\ \A i \in 1..Len(Tail(queue[c])) :
                 i + 1 \in 1..Len(queue[c]) /\ Tail(queue[c])[i] = queue[c][i + 1]
      BY <2>1, <1>types, TailAt
    <2>3. NoPacket(inbox)
      BY <2>2, <1>current DEF AnswersCurrent, NoPacket
    <2>4. NoPacket(Tail(queue[c]))
      <3>1. \A i \in 1..Len(queue[c]) : queue[c][i].op = "record" => i = 1
        BY <2>2, <1>current DEF AnswersCurrent, Wanted
      <3> QED BY <2>2, <3>1 DEF NoPacket
    <2>5. queue'[c] \in {<<>>, Tail(queue[c])} /\ inbox' = inbox /\ store' = store
      BY <1>packet, <1>types DEF Packet, Pop, Return, device
    <2>6. AnswersCurrent'
      BY <2>3, <2>4, <2>5, <1>empty, <1>cleared
    <2>7. call'[c].count = call[c].count
      BY <1>packet, <1>types DEF Packet, Calls
    <2>8. phase'[c] = "idle" => fd'[c] = "closed" /\ queue'[c] = <<>> /\ ~waiting'[c]
      BY <1>packet, <1>types DEF Packet, Return
    <2>9. phase[c] # "idle"
      BY <1>packet DEF Packet
    <2> QED BY <2>5, <2>6, <2>7, <2>8, <2>9, <1>current, <1>only
            DEF Quiet, StoreCurrent, Current
  <1>startPreamble. CASE StartPreamble(c)
    <2>1. inbox' = <<>> /\ queue'[c] = <<>> /\ store' = store
      BY <1>startPreamble, <1>late, <1>types, DrainedEmpty DEF StartPreamble, device
    <2>2. AnswersCurrent'
      BY <2>1, <1>empty, <1>cleared
    <2>3. call'[c].count = call[c].count /\ phase'[c] # "idle" /\ phase[c] # "idle"
      BY <1>startPreamble, <1>types DEF StartPreamble, Calls
    <2> QED BY <2>1, <2>2, <2>3, <1>current, <1>only DEF Quiet, StoreCurrent, Current
  <1>fails. CASE DownloadFails(c)
    <2>1. /\ queue'[c] = <<>> /\ inbox' = inbox /\ phase'[c] = "idle"
          /\ fd'[c] = "closed" /\ ~waiting'[c]
      BY <1>fails, <1>types DEF DownloadFails, Return, device
    <2>2. NoPacket(inbox)
      BY <1>fails, <1>late, <1>none, <1>empty DEF DownloadFails, Asking
    <2>3. AnswersCurrent'
      BY <2>1, <2>2, <1>empty, <1>cleared
    <2> QED BY <2>1, <2>3, <1>only DEF Quiet, StoreCurrent, Current
  <1>askPreamble. CASE AskPreamble(c)
    <2>1. NoPacket(inbox) /\ NoPacket(queue[c])
      BY <1>askPreamble, <1>none DEF AskPreamble, Asking
    <2> DEFINE r == Request("read", call[c].k)
    <2>2. r \in Requests /\ r.op = "read"
      BY <1>types, RequestType, DownloadAssumption DEF Calls
    <2>3. inbox' = Append(inbox, r)
      BY <1>askPreamble DEF AskPreamble
    <2> HIDE DEF r
    <2>4. NoPacket(inbox')
      BY <2>1, <2>2, <2>3, <1>types, AppendAt DEF NoPacket
    <2>5. AnswersCurrent'
      BY <1>askPreamble, <2>1, <2>4, <1>cleared DEF AskPreamble
    <2> QED BY <1>askPreamble, <2>5, <1>current, <1>only
            DEF AskPreamble, Quiet, StoreCurrent, Current
  <1>preambleRead. CASE PreambleRead(c)
    <2>1. NoPacket(inbox) /\ NoPacket(queue[c])
      BY <1>preambleRead, <1>none DEF PreambleRead, Asking
    <2>2. NoPacket(queue'[c])
      <3>1. CASE UNCHANGED queue
        BY <2>1, <3>1
      <3>2. CASE queue[c] # <<>> /\ Pop(c)
        BY <2>1, <3>2, <1>types, TailNoPacket DEF Pop
      <3> QED BY <1>preambleRead, <3>1, <3>2 DEF PreambleRead
    <2>3. AnswersCurrent'
      BY <1>preambleRead, <2>1, <2>2, <1>cleared DEF PreambleRead, device
    <2>4. /\ call'[c].count = call[c].count /\ store' = store
          /\ phase'[c] # "idle" /\ phase[c] # "idle"
      BY <1>preambleRead, <1>types DEF PreambleRead, Calls, device
    <2> QED BY <2>3, <2>4, <1>current, <1>only DEF Quiet, StoreCurrent, Current
  <1> QED BY <1>begin, <1>askPacket, <1>passOver, <1>packet, <1>startPreamble, <1>fails,
             <1>askPreamble, <1>preambleRead DEF Progress

\* A packet that is sent answers the one request for it.
LEMMA SentCurrent ==
  ASSUME Alone, Typed, Current, SendRecords, NEW c \in Clients
  PROVE  AnswersCurrent'
  <1> DEFINE r == Report("record", Head(inbox).off, Decodable(Head(inbox).off))
  <1>only. \A d \in Clients : d = c
    BY DEF Alone
  <1>types. queue \in [Clients -> Seq(Reports)] /\ queue[c] \in Seq(Reports)
            /\ inbox \in Seq(Requests) /\ inbox # <<>>
            /\ Head(inbox) \in Requests /\ call[c] \in Calls
    BY DEF Typed, DeviceOK, LinkOK, CallOK, SendRecords
  <1>step. inbox' = Tail(inbox) /\ Emit(r) /\ UNCHANGED <<phase, waiting, call>>
    BY DEF SendRecords, Emit
  <1>1. 1 \in 1..Len(inbox) /\ inbox[1].op = "record" /\ Head(inbox) = inbox[1]
    BY <1>types, TailAt DEF SendRecords
  <1>2. Asking(c) /\ Head(inbox).off = call[c].off
    BY <1>1 DEF Current, AnswersCurrent, Wanted
  <1>3. NoPacket(inbox')
    <2>1. \A i \in 1..Len(inbox) : inbox[i].op = "record" => i = 1
      BY <1>1 DEF Current, AnswersCurrent, Wanted
    <2> QED BY <1>step, <1>types, <2>1, TailAt DEF NoPacket
  <1>4. NoPacket(queue[c])
    BY <1>1 DEF Current, AnswersCurrent, NoPacket
  <1>5. Decodable(call[c].off) \in {{}, Readable(c)}
    <2>1. store \in {0, call[c].count}
      BY <1>2 DEF Current, StoreCurrent, Asking
    <2>2. \A i \in Slots(call[c].off) : ~(i < 0)
      BY <1>types, DownloadAssumption DEF Slots, Calls
    <2> QED BY <2>1, <2>2 DEF Decodable, Readable
  <1>6. Head(inbox).off \in Nat
    BY <1>types DEF Requests
  <1>7. /\ r \in Reports /\ r.op = "record" /\ r.off = call[c].off
        /\ r.data \in {{}, Readable(c)}
    BY <1>2, <1>5, <1>6, ReportType, DecodableType
  <1> HIDE DEF r
  <1>8. \A j \in 1..Len(queue'[c]) : queue'[c][j].op = "record" =>
           j = Len(queue[c]) + 1 /\ queue'[c][j] = r
    <2>1. ASSUME queue'[c] = queue[c]
          PROVE  \A j \in 1..Len(queue'[c]) : queue'[c][j].op # "record"
      BY <1>4, <2>1 DEF NoPacket
    <2>2. ASSUME NEW x \in Reports, queue'[c] = Buffered(queue[c], x)
          PROVE  \A j \in 1..Len(queue'[c]) : queue'[c][j].op = "record" =>
                    j = Len(queue[c]) + 1 /\ queue'[c][j] = x
      BY <1>4, <1>types, <2>2, BufferedAt DEF NoPacket
    <2>3. Report("garbled", 0, {}) \in Reports /\ Report("garbled", 0, {}).op # "record"
      BY ReportType
    <2>4. \/ queue'[c] = queue[c] \/ queue'[c] = Buffered(queue[c], r)
          \/ queue'[c] = Buffered(queue[c], Report("garbled", 0, {}))
      BY <1>step, <1>types DEF Emit, Broadcast
    <2>5. CASE queue'[c] = Buffered(queue[c], Report("garbled", 0, {}))
      <3>1. \A j \in 1..Len(queue'[c]) : queue'[c][j].op # "record"
        BY <2>2, <2>3, <2>5
      <3> QED BY <3>1
    <2> QED BY <1>7, <2>1, <2>2, <2>4, <2>5
  <1>9. Asking(c)' /\ call'[c] = call[c] /\ Readable(c)' = Readable(c)
    BY <1>2, <1>step DEF Asking, Readable
  <1>10. Wanted(c, queue[c])'
    BY <1>7, <1>8, <1>9 DEF Wanted
  <1>11. Wanted(c, inbox)'
    BY <1>3 DEF Wanted, NoPacket
  <1>12. \A j \in 1..Len(queue'[c]) : queue'[c][j].op = "record" =>
            queue'[c][j].data \in {{}, Readable(c)'}
    BY <1>7, <1>8, <1>9
  <1> QED BY <1>3, <1>10, <1>11, <1>12, <1>only DEF AnswersCurrent, NoPacket

\* The steps of the device.
LEMMA DeviceCurrent ==
  ASSUME Alone, Typed, Current, DeviceStep
  PROVE  Current'
  <1>types. queue \in [Clients -> Seq(Reports)] /\ inbox \in Seq(Requests)
            /\ phase \in [Clients -> {"idle", "packet", "preamble"}]
    BY DEF Typed, DeviceOK, LinkOK, CallOK
  <1>link. LinkOK
    BY DEF Typed
  <1>current. Quiet /\ StoreCurrent /\ AnswersCurrent
    BY DEF Current
  <1>quiet. ASSUME NEW r, Emit(r) PROVE Quiet'
    <2>1. SUFFICES ASSUME NEW c \in Clients, phase[c] = "idle"
                   PROVE  queue'[c] = queue[c]
      BY <1>quiet, <1>current DEF Quiet, Emit
    <2>2. fd[c] # "live"
      BY <2>1, <1>current DEF Quiet
    <2> QED BY <1>quiet, <1>types, <2>2 DEF Emit, Broadcast
  <1>same. ASSUME UNCHANGED <<store, phase, call>> PROVE StoreCurrent'
    BY <1>same, <1>current DEF StoreCurrent
  <1>other. ASSUME NEW r \in Reports, r.op # "record", Emit(r), Among(inbox', inbox)
            PROVE  AnswersCurrent'
    <2>1. UNCHANGED <<phase, waiting, call>>
      BY <1>other DEF Emit
    <2>2. \A c \in Clients : ReportsAmong(queue'[c], queue[c])
      BY <1>other, <1>link, EmitAmong
    <2> QED BY <1>other, <1>current, <2>1, <2>2, AmongCurrent
  <1>still. ASSUME UNCHANGED <<phase, waiting, call, queue>>, Among(inbox', inbox)
            PROVE  AnswersCurrent'
    <2>1. \A c \in Clients : ReportsAmong(queue'[c], queue[c])
      BY <1>still, <1>types, SameAmong
    <2> QED BY <1>still, <1>current, <2>1, AmongCurrent
  <1>1. CASE AnswerRead
    <2> DEFINE r == Report("read", 0, {})
    <2>1. r \in Reports /\ r.op # "record"
      BY ReportType
    <2>2. Emit(r) /\ UNCHANGED <<store, phase, call>>
      BY <1>1 DEF AnswerRead, Emit
    <2>3. Among(inbox', inbox)
      BY <1>1, <1>types, TailAmong DEF AnswerRead
    <2> HIDE DEF r
    <2> QED BY <2>1, <2>2, <2>3, <1>quiet, <1>same, <1>other DEF Current
  <1>2. CASE WithholdRecords
    <2>1. Among(inbox', inbox)
      BY <1>2, <1>types, TailAmong DEF WithholdRecords
    <2>2. Quiet'
      BY <1>2, <1>current DEF WithholdRecords, Quiet
    <2> QED BY <1>2, <2>1, <2>2, <1>same, <1>still DEF WithholdRecords, Current
  <1>3. CASE AckRecords
    <2> DEFINE r == Report("ack", 0, {})
    <2>1. r \in Reports /\ r.op # "record"
      BY ReportType
    <2>2. Emit(r) /\ UNCHANGED <<store, phase, call>>
      BY <1>3 DEF AckRecords, Emit
    <2>3. inbox # <<>> /\ inbox' = [inbox EXCEPT ![1].acked = TRUE]
      BY <1>3 DEF AckRecords
    <2>4. 1 \in 1..Len(inbox) /\ inbox[1] \in Requests
      BY <2>3, <1>types, TailAt
    <2>5. \A i \in 1..Len(inbox') :
             i + 0 \in 1..Len(inbox) /\ inbox'[i].op = inbox[i].op
             /\ inbox'[i].off = inbox[i].off
      BY <2>3, <2>4, <1>types DEF Requests
    <2>6. Among(inbox', inbox)
      BY <2>5 DEF Among
    <2> HIDE DEF r
    <2> QED BY <2>1, <2>2, <2>6, <1>quiet, <1>same, <1>other DEF Current
  <1>4. CASE SendRecords
    <2>1. Quiet' /\ StoreCurrent'
      BY <1>4, <1>quiet, <1>same DEF SendRecords, Emit
    <2>2. ASSUME Clients = {} PROVE AnswersCurrent'
      BY <2>2 DEF AnswersCurrent
    <2>3. ASSUME NEW c \in Clients PROVE AnswersCurrent'
      BY <1>4, SentCurrent
    <2> QED BY <2>1, <2>2, <2>3 DEF Current
  <1>5. CASE Erase
    <2>1. Quiet' /\ StoreCurrent'
      BY <1>5, <1>current DEF Erase, Quiet, StoreCurrent
    <2>2. Among(inbox', inbox)
      BY <1>5, <1>types, SameAmong DEF Erase
    <2> QED BY <1>5, <2>1, <2>2, <1>still DEF Erase, Current
  <1> QED BY <1>1, <1>2, <1>3, <1>4, <1>5 DEF DeviceStep, Answer

LEMMA CurrentStep ==
  ASSUME Alone, Punctual PROVE Typed /\ Current /\ [Next]_vars => Current'
  <1>1. ASSUME Current, UNCHANGED vars PROVE Current'
    BY <1>1, SMTT(30) DEF vars, Current, Quiet, StoreCurrent, AnswersCurrent, Wanted, Asking, Readable
  <1> QED BY <1>1, ClientCurrent, DeviceCurrent DEF Next

LEMMA CurrentInit == Init => Current
  BY DEF Init, Current, Quiet, StoreCurrent, AnswersCurrent, Wanted

\* While a download that is alone on the link of a punctual logger waits for a
\* packet, the only packet asked for, or on its way to it, is that packet as
\* the store had it when the call began, or none if it was erased since;
\* and between packets there is none.
THEOREM AnswersAreCurrent ==
  ASSUME Alone, Punctual PROVE Spec => []AnswersCurrent
  <1>1. Typed /\ Current /\ [Next]_vars => (Typed /\ Current)'
    BY TypedStep, CurrentStep
  <1>2. Init => Typed /\ Current
    BY TypedInit, CurrentInit
  <1>3. Current => AnswersCurrent
    BY DEF Current
  <1> QED BY <1>1, <1>2, <1>3, PTL DEF Spec

-----------------------------------------------------------------------------
(* What has been filed so far *)

\* The positions wanted that lie before the packet the download is at.
Passed(c) ==
    {i \in call[c].wanted..(call[c].count - 1) : i < call[c].off /\ i \notin Unreadable}

FiledSoFar ==
    \A c \in Clients :
        /\ \A r \in recs[c] : r.index = r.from
        /\ phase[c] # "idle" \/ result[c] = "ok" => {r.index : r \in recs[c]} = Passed(c)
        /\ result[c] = "ok" => call[c].off >= call[c].count

\* The packet at the head of the ring of a download fills the gap between what
\* has been filed and what will have been passed.
LEMMA FiledFills ==
  ASSUME Typed, Current, NEW c \in Clients,
         phase[c] = "packet", queue[c] # <<>>, Plausible(Head(queue[c]))
  PROVE  /\ \A r \in Filed(c, Head(queue[c])) : r.index = r.from
         /\ {r.index : r \in Filed(c, Head(queue[c]))} =
                {i \in call[c].wanted..(call[c].count - 1) :
                    /\ call[c].off <= i /\ i < call[c].off + PacketSize
                    /\ i \notin Unreadable}
  <1> DEFINE q == Head(queue[c])
             P == {j \in 0..(PacketSize - 1) :
                      /\ call[c].off + j < call[c].count
                      /\ call[c].off + j >= call[c].wanted
                      /\ q.off + j \in q.data}
  <1>types. queue[c] \in Seq(Reports) /\ call[c] \in Calls /\ PacketSize \in Nat
    BY DownloadAssumption DEF Typed, LinkOK, CallOK
  <1>nats. call[c].off \in Nat /\ call[c].count \in Nat /\ call[c].wanted \in Nat
    BY <1>types, DownloadAssumption DEF Calls
  <1>1. 1 \in 1..Len(queue[c]) /\ q = queue[c][1] /\ q.op = "record" /\ q.data # {}
    BY <1>types, TailAt DEF Plausible
  <1>2. q.off = call[c].off
    BY <1>1 DEF Current, AnswersCurrent, Wanted
  <1>3. q.data = Readable(c)
    BY <1>1 DEF Current, AnswersCurrent
  <1>4. Filed(c, q) = {[index |-> call[c].off + i, from |-> q.off + i] : i \in P}
    BY DEF Filed
  <1>5. \A j \in 0..(PacketSize - 1) : call[c].off + j \in Slots(call[c].off)
    BY <1>types, <1>nats DEF Slots
  <1>6. P = {j \in 0..(PacketSize - 1) :
                /\ call[c].off + j < call[c].count
                /\ call[c].off + j >= call[c].wanted
                /\ call[c].off + j \notin Unreadable}
    BY <1>2, <1>3, <1>5 DEF Readable
  <1> HIDE DEF q, P
  <1>7. \A r \in Filed(c, q) : r.index = r.from
    BY <1>2, <1>4
  <1>8. {r.index : r \in Filed(c, q)} = {call[c].off + i : i \in P}
    <2>1. \A r \in Filed(c, q) : \E i \in P : r.index = call[c].off + i
      BY <1>4
    <2>2. ASSUME NEW i \in P PROVE \E r \in Filed(c, q) : r.index = call[c].off + i
      <3>1. [index |-> call[c].off + i, from |-> q.off + i] \in Filed(c, q)
        BY <1>4
      <3> QED BY <3>1
    <2> QED BY <2>1, <2>2
  <1>9. {call[c].off + i : i \in P} =
            {i \in call[c].wanted..(call[c].count - 1) :
                /\ call[c].off <= i /\ i < call[c].off + PacketSize
                /\ i \notin Unreadable}
    <2>1. ASSUME NEW i \in P
          PROVE  /\ call[c].off + i \in call[c].wanted..(call[c].count - 1)
                 /\ call[c].off <= call[c].off + i
                 /\ call[c].off + i < call[c].off + PacketSize
                 /\ call[c].off + i \notin Unreadable
      BY <1>6, <1>types, <1>nats
    <2>2. ASSUME NEW i \in call[c].wanted..(call[c].count - 1),
                 call[c].off <= i, i < call[c].off + PacketSize, i \notin Unreadable
          PROVE  \E j \in P : i = call[c].off + j
      <3>1. i - call[c].off \in 0..(PacketSize - 1) /\ call[c].off + (i - call[c].off) = i
        BY <2>2, <1>types, <1>nats
      <3>2. i < call[c].count /\ i >= call[c].wanted
        BY <1>nats
      <3>3. i - call[c].off \in P
        BY <1>6, <2>2, <3>1, <3>2
      <3> QED BY <3>1, <3>3
    <2> QED BY <2>1, <2>2
  <1> QED BY <1>7, <1>8, <1>9 DEF q

\* Every step of a download keeps to what has been passed.
LEMMA ClientFiled ==
  ASSUME Alone, Typed, Current, FiledSoFar, NEW c \in Clients,
         Begin(c) \/ PassOver(c) \/ Progress(c)
  PROVE  FiledSoFar'
  <1>only. \A d \in Clients : d = c
    BY DEF Alone
  <1>types. /\ phase \in [Clients -> {"idle", "packet", "preamble"}]
            /\ call \in [Clients -> Calls] /\ call[c] \in Calls
            /\ recs \in [Clients -> SUBSET [index: Nat, from: Nat]]
            /\ result \in [Clients -> {"none", "ok", "error"}]
            /\ c \in DOMAIN phase /\ c \in DOMAIN result /\ c \in DOMAIN recs
            /\ c \in DOMAIN call /\ PacketSize \in Nat /\ PacketSize > 0
    BY DownloadAssumption DEF Typed, CallOK
  <1>nats. call[c].off \in Nat /\ call[c].count \in Nat /\ call[c].wanted \in Nat
    BY <1>types, DownloadAssumption DEF Calls
  <1>so. /\ \A r \in recs[c] : r.index = r.from
         /\ phase[c] # "idle" \/ result[c] = "ok" => {r.index : r \in recs[c]} = Passed(c)
         /\ result[c] = "ok" => call[c].off >= call[c].count
    BY DEF FiledSoFar
  <1>keeps. ASSUME recs' = recs,
                   call'[c].off = call[c].off, call'[c].count = call[c].count,
                   call'[c].wanted = call[c].wanted,
                   phase'[c] # "idle" => phase[c] # "idle",
                   result'[c] = "ok" => result[c] = "ok"
            PROVE  FiledSoFar'
    <2>1. Passed(c)' = Passed(c)
      BY <1>keeps DEF Passed
    <2> QED BY <1>keeps, <2>1, <1>so, <1>only DEF FiledSoFar
  <1>begin. CASE Begin(c)
    <2>1. PICK last \in Lasts :
            LET w == WantedStart(store, last)
            IN  call' = [call EXCEPT ![c] =
                    [NoCall EXCEPT !.count = store, !.wanted = w,
                                   !.off = (w \div PacketSize) * PacketSize]]
      BY <1>begin DEF Begin
    <2>2. store \in Nat /\ last \in Nat
      BY DownloadAssumption DEF Typed, DeviceOK
    <2> DEFINE w == WantedStart(store, last)
    <2>3. w \in Nat /\ (w \div PacketSize) * PacketSize \in Nat
          /\ (w \div PacketSize) * PacketSize <= w
      BY <2>2, WantedType
    <2>4. call'[c].wanted = w /\ call'[c].off = (w \div PacketSize) * PacketSize
          /\ call'[c].count = store
      BY <2>1, <1>types DEF NoCall
    <2> HIDE DEF w
    <2>5. Passed(c)' = {}
      BY <2>2, <2>3, <2>4 DEF Passed
    <2>6. recs'[c] = {} /\ result'[c] = "none"
      BY <1>begin, <1>types DEF Begin
    <2> QED BY <2>5, <2>6, <1>only DEF FiledSoFar
  <1>packet. CASE Packet(c)
    <2> DEFINE F == Filed(c, Head(queue[c]))
    <2>1. /\ \A r \in F : r.index = r.from
          /\ {r.index : r \in F} =
                {i \in call[c].wanted..(call[c].count - 1) :
                    /\ call[c].off <= i /\ i < call[c].off + PacketSize
                    /\ i \notin Unreadable}
      BY <1>packet, FiledFills DEF Packet
    <2>2. /\ recs'[c] = recs[c] \cup F
          /\ call'[c].off = call[c].off + PacketSize
          /\ call'[c].count = call[c].count /\ call'[c].wanted = call[c].wanted
      BY <1>packet, <1>types DEF Packet, Calls
    <2> HIDE DEF F
    <2>3. phase[c] # "idle" /\ {r.index : r \in recs[c]} = Passed(c)
      BY <1>packet, <1>so DEF Packet
    <2>4. {r.index : r \in recs'[c]} = Passed(c) \cup {r.index : r \in F}
      BY <2>2, <2>3
    <2>5. Passed(c)' = Passed(c) \cup {r.index : r \in F}
      <3>1. Passed(c)' = {i \in call[c].wanted..(call[c].count - 1) :
                             i < call[c].off + PacketSize /\ i \notin Unreadable}
        BY <2>2 DEF Passed
      <3>2. \A i \in call[c].wanted..(call[c].count - 1) :
               i < call[c].off + PacketSize <=>
                   i < call[c].off \/ (call[c].off <= i /\ i < call[c].off + PacketSize)
        BY <1>nats, <1>types
      <3> QED BY <2>1, <3>1, <3>2 DEF Passed
    <2>6. result'[c] = "ok" => call'[c].off >= call'[c].count
      <3>1. CASE call[c].off + PacketSize < call[c].count
        BY <1>packet, <3>1, <2>2, <1>so, <1>nats, <1>types DEF Packet
      <3>2. CASE ~(call[c].off + PacketSize < call[c].count)
        BY <3>2, <2>2, <1>nats, <1>types
      <3> QED BY <3>1, <3>2
    <2>7. \A r \in recs'[c] : r.index = r.from
      BY <2>1, <2>2, <1>so
    <2> QED BY <2>4, <2>5, <2>6, <2>7, <1>only DEF FiledSoFar
  <1>askPacket. CASE AskPacket(c)
    BY <1>askPacket, <1>keeps DEF AskPacket
  <1>passOver. CASE PassOver(c)
    BY <1>passOver, <1>keeps DEF PassOver
  <1>startPreamble. CASE StartPreamble(c)
    <2>1. /\ call'[c].off = call[c].off /\ call'[c].count = call[c].count
          /\ call'[c].wanted = call[c].wanted
      BY <1>startPreamble, <1>types DEF StartPreamble, Calls
    <2> QED BY <1>startPreamble, <2>1, <1>keeps DEF StartPreamble
  <1>fails. CASE DownloadFails(c)
    <2>1. result'[c] = "error" /\ phase'[c] = "idle" /\ UNCHANGED <<call, recs>>
      BY <1>fails, <1>types DEF DownloadFails, Return
    <2> QED BY <2>1, <1>keeps
  <1>askPreamble. CASE AskPreamble(c)
    BY <1>askPreamble, <1>keeps DEF AskPreamble
  <1>preambleRead. CASE PreambleRead(c)
    <2>1. /\ call'[c].off = call[c].off /\ call'[c].count = call[c].count
          /\ call'[c].wanted = call[c].wanted
      BY <1>preambleRead, <1>types DEF PreambleRead, Calls
    <2> QED BY <1>preambleRead, <2>1, <1>keeps DEF PreambleRead
  <1> QED BY <1>begin, <1>askPacket, <1>passOver, <1>packet, <1>startPreamble, <1>fails,
             <1>askPreamble, <1>preambleRead DEF Progress

LEMMA FiledStep ==
  ASSUME Alone
  PROVE  Typed /\ Current /\ FiledSoFar /\ [Next]_vars => FiledSoFar'
  <1>1. ASSUME FiledSoFar, UNCHANGED <<phase, call, recs, result>> PROVE FiledSoFar'
    BY <1>1 DEF FiledSoFar, Passed
  <1>2. DeviceStep \/ UNCHANGED vars => UNCHANGED <<phase, call, recs, result>>
    BY DEF DeviceStep, Answer, AnswerRead, WithholdRecords, AckRecords, SendRecords, Erase,
           Emit, vars
  <1> QED BY <1>1, <1>2, ClientFiled DEF Next

LEMMA FiledInit == Init => FiledSoFar
  BY DEF Init, FiledSoFar

LEMMA FiledAlways ==
  ASSUME Alone, Punctual PROVE Spec => []FiledSoFar
  <1> DEFINE Inv == Typed /\ Current /\ FiledSoFar
  <1>1. Inv /\ [Next]_vars => Inv'
    BY TypedStep, CurrentStep, FiledStep
  <1>2. Init => Inv
    BY TypedInit, CurrentInit, FiledInit
  <1>3. Inv => FiledSoFar
    OBVIOUS
  <1> HIDE DEF Inv
  <1> QED BY <1>1, <1>2, <1>3, PTL DEF Spec

\* A download that is alone on the link of a punctual logger files every record
\* under the position it had in the store, whatever is lost, damaged, read late
\* in the preamble or erased on the way.
THEOREM RecordsAreFaithful ==
  ASSUME Alone, Punctual PROVE Spec => []RecordsFaithful
  <1>1. FiledSoFar => RecordsFaithful
    BY DEF FiledSoFar, RecordsFaithful
  <1> QED BY <1>1, FiledAlways, PTL

\* Such a download that reports success has every readable record that was asked
\* for, and no other: no packet is missed, none is taken past the last record.
THEOREM SuccessIsComplete ==
  ASSUME Alone, Punctual PROVE Spec => []DownloadComplete
  <1>1. Typed /\ FiledSoFar => DownloadComplete
    <2> SUFFICES ASSUME Typed, FiledSoFar, NEW c \in Clients, result[c] = "ok"
                 PROVE  {r.index : r \in recs[c]} =
                            (call[c].wanted..(call[c].count - 1)) \ Unreadable
      BY DEF DownloadComplete
    <2>1. call[c].off \in Nat /\ call[c].count \in Nat /\ call[c].wanted \in Nat
      BY DownloadAssumption DEF Typed, CallOK, Calls
    <2>2. call[c].off >= call[c].count /\ {r.index : r \in recs[c]} = Passed(c)
      BY DEF FiledSoFar
    <2>3. \A i \in call[c].wanted..(call[c].count - 1) : i < call[c].off
      BY <2>1, <2>2
    <2> QED BY <2>2, <2>3 DEF Passed
  <1>2. Spec => []Typed
    BY TypedInit, TypedStep, PTL DEF Spec
  <1> QED BY <1>1, <1>2, FiledAlways, PTL

-----------------------------------------------------------------------------
(* What is left of a download *)

\* Two steps for every position from its packet on, which is more than there are
\* packets; two for every read of the preamble, while it may still be sent or is
\* under way; and one or two for the packet it is at.
Left(c) ==
    IF phase[c] = "idle" THEN 0
    ELSE 2 * (call[c].count - call[c].off) +
         (IF call[c].sent THEN 0 ELSE 2 * PreambleLen + 4) +
         (IF phase[c] = "preamble" THEN 2 * (PreambleLen - call[c].k) + 4 ELSE 0) +
         (IF waiting[c] THEN 1 ELSE 2)

\* What a download does but for passing over a report leaves less of it, so that
\* it never asks for a packet again but once, after its preamble; and nothing
\* else adds to it.
DownloadsAdvance ==
    [][\A c \in Clients : phase[c] # "idle" =>
        /\ Progress(c) => Left(c)' < Left(c)
        /\ Left(c)' < Left(c) \/ UNCHANGED <<phase[c], waiting[c], call[c]>>]_vars

\* A download is at a packet with records, and in its preamble it was sent.
Underway ==
    \A c \in Clients : phase[c] # "idle" =>
        /\ call[c].off < call[c].count
        /\ phase[c] = "preamble" => call[c].sent

\* The last n of some records begin at one of them.
LEMMA WantedInStore ==
  ASSUME NEW count \in Nat, NEW last \in Nat, count > 0
  PROVE  WantedStart(count, last) < count
  BY DEF WantedStart

\* What the steps of a download do to the call, in the fields that count.
LEMMA CallFields ==
  ASSUME Typed, NEW c \in Clients
  PROVE  /\ call[c].off \in Nat /\ call[c].count \in Nat /\ call[c].count <= MaxStore
         /\ call[c].sent \in BOOLEAN /\ call[c].k \in Nat
         /\ phase[c] = "preamble" => call[c].k <= PreambleLen
         /\ PreambleLen \in Nat /\ PacketSize \in Nat /\ PacketSize > 0 /\ MaxStore \in Nat
         /\ waiting[c] \in BOOLEAN /\ phase[c] \in {"idle", "packet", "preamble"}
  <1>1. call[c] \in Calls /\ waiting[c] \in BOOLEAN
        /\ phase[c] \in {"idle", "packet", "preamble"}
    BY DEF Typed, CallOK
  <1>2. /\ PreambleLen \in Nat /\ PacketSize \in Nat /\ PacketSize > 0 /\ MaxStore \in Nat
    BY DownloadAssumption
  <1> QED BY <1>1, <1>2 DEF Calls, Typed, PreambleOK

\* The kinds of its steps.
LEMMA ProgressKinds ==
  ASSUME Typed, NEW c \in Clients, Progress(c)
  PROVE  /\ phase[c] \in {"packet", "preamble"}
         /\ \A d \in Clients \ {c} :
                UNCHANGED <<phase[d], waiting[d], call[d]>>
         /\ \/ phase'[c] = "idle"
            \/ /\ phase'[c] = phase[c] /\ ~waiting[c] /\ waiting'[c] /\ call'[c] = call[c]
            \/ /\ phase[c] = "packet" /\ phase'[c] = "packet" /\ waiting[c] /\ ~waiting'[c]
               /\ call'[c] = [call[c] EXCEPT !.off = @ + PacketSize]
               /\ call[c].off + PacketSize < call[c].count
            \/ /\ phase[c] = "packet" /\ phase'[c] = "preamble" /\ waiting[c] /\ ~waiting'[c]
               /\ ~call[c].sent /\ call'[c] = [call[c] EXCEPT !.sent = TRUE, !.k = 1]
            \/ /\ phase[c] = "preamble" /\ ~waiting'[c]
               /\ call'[c] = [call[c] EXCEPT !.k = @ + 1]
               /\ \/ phase'[c] = "preamble" /\ waiting[c] /\ call[c].k < PreambleLen
                  \/ phase'[c] = "packet"
  <1>types. /\ phase \in [Clients -> {"idle", "packet", "preamble"}]
            /\ waiting \in [Clients -> BOOLEAN] /\ call \in [Clients -> Calls]
    BY DEF Typed, CallOK
  <1>return. ASSUME NEW o, Return(c, o)
             PROVE  /\ phase'[c] = "idle"
                    /\ \A d \in Clients \ {c} : UNCHANGED <<phase[d], waiting[d]>>
    BY <1>return, <1>types DEF Return
  <1>1. CASE AskPacket(c) \/ AskPreamble(c)
    BY <1>1, <1>types DEF AskPacket, AskPreamble
  <1>2. CASE Packet(c)
    <2>1. /\ phase[c] = "packet" /\ waiting[c]
          /\ call' = [call EXCEPT ![c] = [call[c] EXCEPT !.off = @ + PacketSize]]
      BY <1>2 DEF Packet
    <2>2. CASE call[c].off + PacketSize < call[c].count
      <3>1. waiting' = [waiting EXCEPT ![c] = FALSE] /\ phase' = phase
        BY <1>2, <2>2 DEF Packet
      <3> QED BY <2>1, <2>2, <3>1, <1>types
    <2>3. CASE ~(call[c].off + PacketSize < call[c].count)
      <3>1. Return(c, "ok")
        BY <1>2, <2>3 DEF Packet
      <3> QED BY <2>1, <3>1, <1>types, <1>return
    <2> QED BY <2>2, <2>3
  <1>3. CASE StartPreamble(c)
    <2>1. /\ phase[c] = "packet" /\ waiting[c] /\ ~call[c].sent
          /\ phase' = [phase EXCEPT ![c] = "preamble"]
          /\ waiting' = [waiting EXCEPT ![c] = FALSE]
          /\ call' = [call EXCEPT ![c] = [call[c] EXCEPT !.sent = TRUE, !.k = 1]]
      BY <1>3 DEF StartPreamble, Deadline
    <2> QED BY <2>1, <1>types
  <1>4. CASE DownloadFails(c)
    <2>1. phase[c] = "packet" /\ Return(c, "error") /\ call' = call
      BY <1>4 DEF DownloadFails
    <2> QED BY <2>1, <1>return
  <1>5. CASE PreambleRead(c)
    <2>1. /\ phase[c] = "preamble"
          /\ waiting' = [waiting EXCEPT ![c] = FALSE]
          /\ call' = [call EXCEPT ![c] = [call[c] EXCEPT !.k = @ + 1]]
          /\ phase' = [phase EXCEPT ![c] =
                IF waiting[c] /\ call[c].k < PreambleLen THEN "preamble" ELSE "packet"]
      BY <1>5 DEF PreambleRead
    <2> QED BY <2>1, <1>types
  <1> QED BY <1>1, <1>2, <1>3, <1>4, <1>5 DEF Progress

\* The others stay where they are when one begins or passes over a report.
LEMMA BeginKinds ==
  ASSUME Typed, NEW c \in Clients, Begin(c)
  PROVE  /\ phase[c] = "idle" /\ phase'[c] = "packet"
         /\ \A d \in Clients \ {c} : UNCHANGED <<phase[d], waiting[d], call[d]>>
         /\ call'[c].off < call'[c].count
  <1> DEFINE W(last) == WantedStart(store, last)
  <1>types. /\ phase \in [Clients -> {"idle", "packet", "preamble"}]
            /\ call \in [Clients -> Calls] /\ store \in Nat /\ store > 0
    BY DownloadAssumption DEF Typed, CallOK, DeviceOK, Begin
  <1>1. PICK last \in Lasts :
          /\ phase' = [phase EXCEPT ![c] = "packet"]
          /\ call' = [call EXCEPT ![c] =
                [NoCall EXCEPT !.count = store, !.wanted = W(last),
                               !.off = (W(last) \div PacketSize) * PacketSize]]
          /\ waiting' = waiting
    BY DEF Begin
  <1>2. last \in Nat
    BY DownloadAssumption
  <1>3. (W(last) \div PacketSize) * PacketSize \in Nat /\ W(last) \in Nat
        /\ (W(last) \div PacketSize) * PacketSize <= W(last) /\ W(last) < store
    BY <1>2, <1>types, WantedType, WantedInStore
  <1>4. call'[c].off = (W(last) \div PacketSize) * PacketSize /\ call'[c].count = store
    BY <1>1, <1>types DEF NoCall
  <1>5. /\ phase[c] = "idle" /\ phase'[c] = "packet"
        /\ \A d \in Clients \ {c} : UNCHANGED <<phase[d], waiting[d], call[d]>>
    BY <1>1, <1>types DEF Begin
  <1> DEFINE o == (W(last) \div PacketSize) * PacketSize  w == W(last)
  <1>6. o \in Nat /\ w \in Nat /\ o <= w /\ w < store /\ call'[c].off = o
    BY <1>3, <1>4
  <1> HIDE DEF o, w, W
  <1>7. call'[c].off < store
    BY <1>6, <1>types
  <1> QED BY <1>4, <1>5, <1>7

LEMMA StandStill ==
  ASSUME DeviceStep \/ (\E c \in Clients : PassOver(c)) \/ UNCHANGED vars
  PROVE  UNCHANGED <<phase, waiting, call>>
  BY DEF DeviceStep, Answer, AnswerRead, WithholdRecords, AckRecords, SendRecords, Erase,
         Emit, PassOver, vars

\* Every step keeps a download at a packet with records.
LEMMA UnderwayStep == Typed /\ Underway /\ [Next]_vars => Underway'
  <1> SUFFICES ASSUME Typed, Underway, [Next]_vars, NEW d \in Clients, phase'[d] # "idle"
               PROVE  /\ call'[d].off < call'[d].count
                      /\ phase'[d] = "preamble" => call'[d].sent
    BY DEF Underway
  <1>same. ASSUME UNCHANGED <<phase[d], call[d]>>
           PROVE  /\ call'[d].off < call'[d].count
                  /\ phase'[d] = "preamble" => call'[d].sent
    BY <1>same DEF Underway
  <1>1. CASE DeviceStep \/ (\E c \in Clients : PassOver(c)) \/ UNCHANGED vars
    BY <1>1, <1>same, StandStill
  <1>2. ASSUME NEW c \in Clients, Begin(c)
        PROVE  /\ call'[d].off < call'[d].count
               /\ phase'[d] = "preamble" => call'[d].sent
    <2>1. CASE c = d
      BY <1>2, <2>1, BeginKinds
    <2>2. CASE c # d
      BY <1>2, <2>2, <1>same, BeginKinds
    <2> QED BY <2>1, <2>2
  <1>3. ASSUME NEW c \in Clients, Progress(c)
        PROVE  /\ call'[d].off < call'[d].count
               /\ phase'[d] = "preamble" => call'[d].sent
    <2>1. CASE c = d
      <3>1. call[d] \in Calls /\ phase[d] # "idle"
            /\ call[d].off < call[d].count /\ (phase[d] = "preamble" => call[d].sent)
        BY <1>3, <2>1, ProgressKinds DEF Typed, CallOK, Underway
      <3>2. CASE call'[d] = call[d] \/ call'[d] = [call[d] EXCEPT !.k = @ + 1]
        <4>1. /\ call'[d].off = call[d].off /\ call'[d].count = call[d].count
              /\ call'[d].sent = call[d].sent
          BY <3>1, <3>2 DEF Calls
        <4>2. phase'[d] = "preamble" => phase[d] = "preamble" \/ call'[d].sent
          BY <1>3, <2>1, <3>1, ProgressKinds DEF Calls
        <4> QED BY <3>1, <4>1, <4>2
      <3>3. CASE /\ call'[d] = [call[d] EXCEPT !.off = @ + PacketSize]
                 /\ call[d].off + PacketSize < call[d].count /\ phase'[d] = "packet"
        BY <3>1, <3>3 DEF Calls
      <3>4. CASE call'[d] = [call[d] EXCEPT !.sent = TRUE, !.k = 1]
        BY <3>1, <3>4 DEF Calls
      <3> QED BY <1>3, <2>1, <3>2, <3>3, <3>4, ProgressKinds
    <2>2. CASE c # d
      BY <1>3, <2>2, <1>same, ProgressKinds
    <2> QED BY <2>1, <2>2
  <1> QED BY <1>1, <1>2, <1>3 DEF Next

LEMMA UnderwayAlways == Spec => [](Typed /\ Underway)
  <1>1. Init => Typed /\ Underway
    BY TypedInit DEF Init, Underway
  <1>2. Typed /\ Underway /\ [Next]_vars => (Typed /\ Underway)'
    BY TypedStep, UnderwayStep
  <1> QED BY <1>1, <1>2, PTL DEF Spec

\* A running download has something left, and no more than the whole store and
\* the preamble.
LEMMA LeftType ==
  ASSUME Typed, Underway, NEW c \in Clients
  PROVE  /\ Left(c) \in 0..(2 * (MaxStore + PreambleLen + 3))
         /\ Left(c) = 0 <=> phase[c] = "idle"
  <1>1. CASE phase[c] = "idle"
    BY <1>1, CallFields DEF Left
  <1>2. CASE phase[c] # "idle"
    <2> DEFINE n == call[c].count  o == call[c].off  k == call[c].k  P == PreambleLen
               s == IF call[c].sent THEN 0 ELSE 2 * P + 4
               p == IF phase[c] = "preamble" THEN 2 * (P - k) + 4 ELSE 0
               w == IF waiting[c] THEN 1 ELSE 2
    <2>1. n \in Nat /\ o \in Nat /\ k \in Nat /\ P \in Nat /\ o < n /\ n <= MaxStore
          /\ MaxStore \in Nat /\ k \in 1..(P + 1)
      BY <1>2, CallFields DEF Underway, Typed, CallOK, Calls
    <2>2. w \in 1..2
      OBVIOUS
    <2>3. (s = 0 /\ p \in 0..(2 * P + 2)) \/ (s = 2 * P + 4 /\ p = 0)
      <3>1. phase[c] = "preamble" => call[c].sent /\ k <= P
        BY <1>2, CallFields DEF Underway
      <3> QED BY <2>1, <3>1
    <2>4. Left(c) = 2 * (n - o) + s + p + w
      BY <1>2 DEF Left
    <2> HIDE DEF n, o, k, P, s, p, w
    <2>5. Left(c) \in 1..(2 * (MaxStore + P + 3))
      BY <2>1, <2>2, <2>3, <2>4
    <2> QED BY <1>2, <2>5 DEF P
  <1> QED BY <1>1, <1>2

\* Whatever a running download does leaves less of it.
LEMMA ProgressLess ==
  ASSUME Typed, Underway, NEW c \in Clients, Progress(c)
  PROVE  Left(c)' < Left(c)
  <1> DEFINE n == call[c].count  o == call[c].off  k == call[c].k  P == PreambleLen
             s == IF call[c].sent THEN 0 ELSE 2 * P + 4
             p == IF phase[c] = "preamble" THEN 2 * (P - k) + 4 ELSE 0
             w == IF waiting[c] THEN 1 ELSE 2
  <1>types. /\ n \in Nat /\ o \in Nat /\ k \in Nat /\ P \in Nat /\ w \in 1..2
            /\ PacketSize \in Nat /\ PacketSize > 0 /\ call[c] \in Calls
            /\ phase[c] = "preamble" => k <= P
    BY CallFields DEF Typed, CallOK
  <1>kinds. phase[c] # "idle"
    BY ProgressKinds
  <1>left. Left(c) = 2 * (n - o) + s + p + w
    BY <1>kinds DEF Left
  <1>now. s \in Int /\ p \in Int
    BY <1>types
  <1>1. CASE phase'[c] = "idle"
    <2>1. Left(c)' = 0
      BY <1>1 DEF Left
    <2> QED BY <2>1, <1>kinds, LeftType
  <1>2. CASE phase'[c] = phase[c] /\ ~waiting[c] /\ waiting'[c] /\ call'[c] = call[c]
    <2>1. Left(c)' = 2 * (n - o) + s + p + 1 /\ w = 2
      BY <1>2, <1>kinds DEF Left
    <2> HIDE DEF n, o, s, p, w
    <2> QED BY <2>1, <1>left, <1>types, <1>now
  <1>3. CASE /\ phase[c] = "packet" /\ phase'[c] = "packet" /\ waiting[c] /\ ~waiting'[c]
             /\ call'[c] = [call[c] EXCEPT !.off = @ + PacketSize]
    <2>1. /\ call'[c].count = n /\ call'[c].off = o + PacketSize
          /\ call'[c].sent = call[c].sent
      BY <1>3, <1>types DEF Calls
    <2>2. Left(c)' = 2 * (n - (o + PacketSize)) + s + 0 + 2 /\ w = 1 /\ p = 0
      BY <1>3, <2>1 DEF Left
    <2> HIDE DEF n, o, s, p, w
    <2> QED BY <2>2, <1>left, <1>types, <1>now
  <1>4. CASE /\ phase[c] = "packet" /\ phase'[c] = "preamble" /\ waiting[c] /\ ~waiting'[c]
             /\ ~call[c].sent /\ call'[c] = [call[c] EXCEPT !.sent = TRUE, !.k = 1]
    <2>1. call'[c].count = n /\ call'[c].off = o /\ call'[c].sent = TRUE /\ call'[c].k = 1
      BY <1>4, <1>types DEF Calls
    <2>2. Left(c)' = 2 * (n - o) + 0 + (2 * (P - 1) + 4) + 2
          /\ w = 1 /\ p = 0 /\ s = 2 * P + 4
      BY <1>4, <2>1 DEF Left
    <2> HIDE DEF n, o, s, p, w, P
    <2> QED BY <2>2, <1>left, <1>types
  <1>5. CASE /\ phase[c] = "preamble" /\ ~waiting'[c]
             /\ call'[c] = [call[c] EXCEPT !.k = @ + 1]
             /\ \/ phase'[c] = "preamble" /\ waiting[c] /\ call[c].k < PreambleLen
                \/ phase'[c] = "packet"
    <2>1. /\ call'[c].count = n /\ call'[c].off = o /\ call'[c].sent = call[c].sent
          /\ call'[c].k = k + 1
      BY <1>5, <1>types DEF Calls
    <2>2. CASE phase'[c] = "preamble" /\ waiting[c]
      <3>1. Left(c)' = 2 * (n - o) + s + (2 * (P - (k + 1)) + 4) + 2
            /\ w = 1 /\ p = 2 * (P - k) + 4
        BY <1>5, <2>1, <2>2 DEF Left
      <3> HIDE DEF n, o, k, s, p, w, P
      <3> QED BY <3>1, <1>left, <1>types, <1>now
    <2>3. CASE phase'[c] = "packet"
      <3>1. Left(c)' = 2 * (n - o) + s + 0 + 2 /\ p = 2 * (P - k) + 4 /\ k <= P
        BY <1>5, <2>1, <2>3, <1>types DEF Left
      <3> HIDE DEF n, o, k, s, p, w, P
      <3> QED BY <3>1, <1>left, <1>types, <1>now
    <2> QED BY <1>5, <2>2, <2>3
  <1> QED BY <1>1, <1>2, <1>3, <1>4, <1>5, ProgressKinds

\* A running download gets on, or stays where it is.
LEMMA DownloadStep ==
  ASSUME Typed, Underway, [Next]_vars, NEW c \in Clients, phase[c] # "idle"
  PROVE  /\ Progress(c) => Left(c)' < Left(c)
         /\ Left(c)' < Left(c) \/ UNCHANGED <<phase[c], waiting[c], call[c]>>
  <1>1. CASE DeviceStep \/ (\E d \in Clients : PassOver(d)) \/ UNCHANGED vars
    BY <1>1, StandStill, ProgressLess
  <1>2. CASE \E d \in Clients : Begin(d)
    BY <1>2, BeginKinds, ProgressLess
  <1>3. CASE \E d \in Clients : Progress(d)
    BY <1>3, ProgressKinds, ProgressLess
  <1> QED BY <1>1, <1>2, <1>3 DEF Next

\* However many share the link and whatever goes wrong, every step of a download
\* but passing over a report leaves less of it, and nothing else adds to it.
THEOREM EveryDownloadAdvances == Spec => DownloadsAdvance
  <1>1. Typed /\ Underway /\ [Next]_vars =>
          [\A c \in Clients : phase[c] # "idle" =>
              /\ Progress(c) => Left(c)' < Left(c)
              /\ Left(c)' < Left(c) \/ UNCHANGED <<phase[c], waiting[c], call[c]>>]_vars
    BY DownloadStep
  <1> QED BY <1>1, UnderwayAlways, PTL DEF Spec, DownloadsAdvance

\* A download never has more left than two steps for every record of the store
\* and every read of the preamble, and has none left just when it has returned.
THEOREM DownloadsAreBounded ==
  Spec => [](\A c \in Clients :
                 /\ Left(c) \in 0..(2 * (MaxStore + PreambleLen + 3))
                 /\ Left(c) = 0 <=> phase[c] = "idle")
  <1>1. Typed /\ Underway =>
            \A c \in Clients :
                /\ Left(c) \in 0..(2 * (MaxStore + PreambleLen + 3))
                /\ Left(c) = 0 <=> phase[c] = "idle"
    BY LeftType
  <1> QED BY <1>1, UnderwayAlways, PTL
=============================================================================
