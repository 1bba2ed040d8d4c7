------------------------------ MODULE Readings ------------------------------
(***************************************************************************)
(* From the bytes of the status space and of record packets to what people *)
(* read: the records of logger.go, the CSV of service.go, and the table,   *)
(* charts, summary, form and times of web.go.  A 4-byte record has no time *)
(* of its own: it is the start and the seconds since.  Layout is left out; *)
(* a cell that stays empty is Nothing.                                     *)
(***************************************************************************)
EXTENDS Decoding, SequencesExt

RecordsPerPacket == 6

\* The elements of s at the positions in P, in their order.
Kept(s, P) ==
    LET kept[k \in 0..Len(s)] ==
            IF k = 0 THEN <<>>
            ELSE IF k \in P THEN Append(kept[k - 1], s[k]) ELSE kept[k - 1]
    IN  kept[Len(s)]

-----------------------------------------------------------------------------
(* The status space, a function from offsets to bytes *)

\* Logger.readOp5.
ReadOp5(space, off, n) == [k \in 1..n |-> space[off + k - 1]]

\* decodeStatus drops the ok of a reading: none is 0.
Extreme(b, i) == IF DecodeTenths(b, i).ok THEN DecodeTenths(b, i).tenths ELSE 0

DecodeStatus(head, tail) ==
    [recording |-> head[1] = 1,
     startedAt |-> DecodeDateTime(SubSeq(head, 9, 15)),
     count     |-> tail[11] + 256 * tail[12],
     extremes  |-> [i \in 1..4 |-> Extreme(tail, <<17, 25, 49, 57>>[i])]]

\* Logger.readStatus: one failed read loses all of it.
ReadStatus(space, answered) ==
    IF answered
    THEN DecodeStatus(ReadOp5(space, 0, \h20),
                      ReadOp5(space, \h80, \h30) \o ReadOp5(space, \hB0, \h10))
    ELSE [recording |-> FALSE, startedAt |-> Nothing, count |-> 0,
          extremes |-> [i \in 1..4 |-> 0]]

\* Logger.Info: the status space has the real start.
StartedAt(parameter, status) == IF status.startedAt.ok THEN status.startedAt ELSE parameter

\* Mutant of RecordingSince: whatever start there is.
RecordingSinceStart(startedAt, configuredAt) ==
    IF startedAt.ok THEN startedAt ELSE configuredAt

RecordingSince(startedAt, configuredAt) ==
    IF startedAt.ok /\ startedAt.time.year > 2012 THEN startedAt ELSE configuredAt

\* renderRecordingControls: the line above its buttons.
RecordingLine(info) ==
    CASE info.stoppedAt.ok -> <<"stopped", info.stoppedAt>>
      [] ~info.stoppedAt.ok /\ info.counted /\ info.count > 0 ->
             <<"recording", RecordingSince(info.startedAt, info.configuredAt)>>
      [] OTHER -> <<IF info.mode = 0 THEN "armed" ELSE "not started", Nothing>>

\* recordingState: the headline of the monitor.
RecordingState(info) ==
    CASE info.stoppedAt.ok -> <<"stopped", info.stoppedAt>>
      [] ~info.stoppedAt.ok /\ info.recording -> <<"recording", info.startedAt>>
      [] OTHER -> <<IF info.counted /\ info.count > 0 THEN "holding" ELSE "not started", Nothing>>

\* extremes(): two zeros are taken for none.
ExtremesText(lo, hi) == IF lo = 0 /\ hi = 0 THEN Nothing ELSE [ok |-> TRUE, range |-> <<lo, hi>>]

\* renderMonitorFacts.
MonitorFacts(status) ==
    LET x == status.extremes
    IN  [temperature |-> ExtremesText(x[2], x[1]), humidity |-> ExtremesText(x[4], x[3])]

-----------------------------------------------------------------------------
(* Records *)

\* Bytes for each record, from a data report's length.
RecordWidth(f) == IF f.n > 0 /\ Len(f.data) \div f.n = 4 THEN 4 ELSE 8

DecodeRecordAt(b, protocol) ==
    IF Len(b) = 4 THEN DecodeRecordTH(b) ELSE DecodeRecord(b, protocol)

\* What slot i of a report, from 0, decodes to.
Slot(f, i, protocol) ==
    LET width == RecordWidth(f)
    IN  IF (i + 1) * width > Len(f.data) THEN Nothing
        ELSE DecodeRecordAt(SubSeq(f.data, i * width + 1, (i + 1) * width), protocol)

PlausibleRecords(f, protocol) ==
    Cardinality({i \in 0..RecordsPerPacket - 1 : Slot(f, i, protocol).ok})

\* Mutant of Placed: the position in the packet.
PlacedInPacket(r, off, i, start, interval) ==
    [index |-> i, status |-> r.status, temperature |-> r.temperature,
     humidity |-> r.humidity, events |-> r.events,
     time |-> IF r.time = Nothing THEN [since |-> start, seconds |-> i * interval] ELSE r.time]

\* A record gets its position and, without a time, that of its position.
Placed(r, off, i, start, interval) ==
    LET index == off + i
    IN  [index |-> index, status |-> r.status, temperature |-> r.temperature,
         humidity |-> r.humidity, events |-> r.events,
         time |-> IF r.time = Nothing THEN [since |-> start, seconds |-> index * interval]
                  ELSE r.time]

\* The records that Logger.Records takes from the packet asked for at off.
PacketRecords(f, off, wantedStart, count, protocol, start, interval) ==
    LET wanted(i) == /\ off + i < count /\ off + i >= wantedStart
                     /\ Slot(f, i, protocol).ok
        taken == Kept([k \in 1..RecordsPerPacket |-> k - 1],
                      {k \in 1..RecordsPerPacket : wanted(k - 1)})
    IN  [k \in 1..Len(taken) |->
            Placed(Slot(f, taken[k], protocol), off, taken[k], start, interval)]

WantedStart(count, last) == IF last > 0 /\ last < count THEN count - last ELSE 0

\* Logger.Records, packet[off] being the report that answers for off; a packet
\* without a plausible record times out.
RecordsOf(packet, count, last, protocol, start, interval) ==
    LET from == WantedStart(count, last)
        first == from \div RecordsPerPacket
        offs == [k \in 1..((count + RecordsPerPacket - 1) \div RecordsPerPacket) - first |->
                    (first + k - 1) * RecordsPerPacket]
    IN  IF \E k \in 1..Len(offs) : PlausibleRecords(packet[offs[k]], protocol) = 0
        THEN Nothing
        ELSE [ok |-> TRUE,
              records |-> FlattenSeq([k \in 1..Len(offs) |->
                  PacketRecords(packet[offs[k]], offs[k], from, count, protocol, start, interval)])]

-----------------------------------------------------------------------------
(* What is made of records *)

Measured(r) == r.status = "measurement"

\* A reading as a cell.
Cell(has, value) == IF has THEN [ok |-> TRUE, tenths |-> value] ELSE Nothing

Temperature(r) == Cell(Measured(r), r.temperature)

\* anyHumidity.
AnyHumidity(recs) == \E k \in 1..Len(recs) : recs[k].humidity.ok

\* Mutant of CsvRow: a cell only for a record that has humidity.
CsvRowOwn(r, withHumidity) ==
    <<r.index + 1, r.time, Temperature(r)>>
    \o (IF r.humidity.ok /\ Measured(r) THEN <<r.humidity>> ELSE <<>>) \o <<r.status>>

CsvRow(r, withHumidity) ==
    <<r.index + 1, r.time, Temperature(r)>>
    \o (IF withHumidity THEN <<IF Measured(r) THEN r.humidity ELSE Nothing>> ELSE <<>>)
    \o <<r.status>>

\* WriteCSV.
Csv(recs) ==
    [header |-> IF AnyHumidity(recs)
                THEN <<"index", "time", "temperature", "humidity", "status">>
                ELSE <<"index", "time", "temperature", "status">>,
     rows |-> [k \in 1..Len(recs) |-> CsvRow(recs[k], AnyHumidity(recs))]]

\* renderRecordTable.
Table(recs) ==
    [header |-> IF AnyHumidity(recs)
                THEN <<"index", "time", "temperature", "humidity", "status", "events">>
                ELSE <<"index", "time", "temperature", "status", "events">>,
     rows |-> [k \in 1..Len(recs) |->
                  <<recs[k].index + 1, recs[k].time, Temperature(recs[k])>>
                  \o (IF AnyHumidity(recs) THEN <<recs[k].humidity>> ELSE <<>>)
                  \o <<recs[k].status, recs[k].events>>]]

Measurements(recs) == Kept(recs, {k \in 1..Len(recs) : Measured(recs[k])})

\* chartSVG and humidityChartSVG: the points.
Chart(recs) ==
    LET m == Measurements(recs)
    IN  [k \in 1..Len(m) |-> <<m[k].time, m[k].temperature>>]

HumidityChart(recs) ==
    LET m == Kept(recs, {k \in 1..Len(recs) : Measured(recs[k]) /\ recs[k].humidity.ok})
    IN  [k \in 1..Len(m) |-> <<m[k].time, m[k].humidity.tenths>>]

\* renderSummary: a count, the extremes, the sum of the mean, and the span.
Summary(recs) ==
    LET t == {recs[k].temperature : k \in {j \in 1..Len(recs) : Measured(recs[j])}}
        add(sum, r) == IF Measured(r) THEN sum + r.temperature ELSE sum
    IN  IF t = {} THEN Nothing
        ELSE [ok |-> TRUE, n |-> Len(Measurements(recs)),
              min |-> CHOOSE v \in t : \A w \in t : v <= w,
              max |-> CHOOSE v \in t : \A w \in t : v >= w,
              sum |-> FoldLeft(add, 0, recs),
              from |-> Head(recs).time, to |-> Last(recs).time]

\* renderLatestReading.
LatestReading(recs) ==
    LET m == Measurements(recs)
    IN  IF m = <<>> THEN Nothing
        ELSE [ok |-> TRUE, time |-> Last(m).time, temperature |-> Last(m).temperature,
              humidity |-> Last(m).humidity]

-----------------------------------------------------------------------------
(* Forms and times, in seconds *)

\* renderControls: the fields of a page, a selected option for the seconds.
FormOf(interval) ==
    [minutes |-> interval \div 60,
     seconds |-> IF interval % 60 \in {0, 10, 20, 30, 40, 50} THEN interval % 60 ELSE 0]

\* Mutant of ParseInterval: its minutes alone are held to a day.
ParseIntervalLong(minutes, seconds) ==
    IF minutes < 0 \/ minutes > 1440 \/ seconds \notin 0..59 \/ seconds % 10 # 0
       \/ 60 * minutes + seconds < 10
    THEN Nothing ELSE [ok |-> TRUE, seconds |-> 60 * minutes + seconds]

\* parseInterval, a field that is empty or no number being 0 or out of range.
ParseInterval(minutes, seconds) ==
    LET interval == 60 * minutes + seconds
    IN  IF \/ minutes < 0 \/ minutes > 1440
           \/ seconds \notin 0..59 \/ seconds % 10 # 0
           \/ interval < 10 \/ interval > 86400
        THEN Nothing ELSE [ok |-> TRUE, seconds |-> interval]

\* The intervals that Logger.Configure does not refuse.
ConfigureTakes(interval) ==
    interval \in Nat /\ 10 <= interval /\ interval <= 86400 /\ interval % 10 = 0

\* Parts of a time: numbers with units, in seconds, without the zeros.
Parts(numbers, units) ==
    Kept([k \in 1..Len(units) |-> <<numbers[k], units[k]>>],
         {k \in 1..Len(units) : numbers[k] > 0})

DurationText(d) == Parts(<<d \div 3600, (d % 3600) \div 60, d % 60>>, <<3600, 60, 1>>)

\* Mutant of FormatSpan: hours past a day.
FormatSpanHours(d) ==
    LET m == IF d < 0 THEN 0 ELSE (d + 30) \div 60
        parts == Parts(<<m \div 1440, m \div 60, m % 60>>, <<86400, 3600, 60>>)
    IN  IF parts = <<>> THEN << <<0, 60>> >> ELSE parts

\* formatSpan: to the nearest minute, and minutes when there is nothing else.
FormatSpan(d) ==
    LET m == IF d < 0 THEN 0 ELSE (d + 30) \div 60
        parts == Parts(<<m \div 1440, (m % 1440) \div 60, m % 60>>, <<86400, 3600, 60>>)
    IN  IF parts = <<>> THEN << <<0, 60>> >> ELSE parts

\* loggingTimeText; the product of a capacity and an interval is taken to fit.
LoggingTimeText(interval, counted, capacity, count) ==
    IF ~counted \/ interval = 0 THEN Nothing
    ELSE [ok |-> TRUE, total |-> FormatSpan(capacity * interval),
          recorded |-> FormatSpan(count * interval),
          remaining |-> FormatSpan((capacity - count) * interval)]
=============================================================================
