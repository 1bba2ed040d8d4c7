------------------------------- MODULE Codec -------------------------------
(***************************************************************************)
(* What the decoders of internal/elitech make of the bytes a logger sends, *)
(* and the CSV and pages made of them, checked against what was put in.    *)
(* An input is decoded in one step; inputs are drawn from the sets below,  *)
(* chosen around the limits of the fields (MCCodec).  What a logger puts   *)
(* into a record is its layout in PROTOCOL.md 6.2, as a string of bits.    *)
(***************************************************************************)
EXTENDS Frame, Readings

CONSTANTS
    Frames,         \* [op, off, n, data] to be sent
    Noise,          \* bytes that overwrite one of a report
    Moments,        \* [year, month, day, hour, minute, second], real or not
    Temperatures,   \* in tenths, without a sign
    Flags,          \* byte 0 of a record
    Protocols,
    Tenths,         \* signed, for the two encodings of tenths
    Counts,         \* capacities and counts of records
    Intervals,      \* in seconds
    OldBytes,       \* start bytes that are rewritten
    Extremes,       \* four values of the status space, tenths or NoReading
    Histories,      \* when a logger was configured, started and stopped, if it was
    Placeholder,    \* the start a logger's parameters have from the factory
    Stores,         \* what is stored: sequences of kinds of slots
    Lasts,          \* how many records are asked for, 0 for all
    Shown,          \* intervals a logger may report, 0 if unreadable
    Fields,         \* numbers typed into a field of the form
    Spans           \* times in seconds

VARIABLES input, output

vars == <<input, output>>

Pending == [pending |-> TRUE]

\* Numbers that fit a field of so many values, and numbers with a sign.
Below(size) == 0..size - 1
Within(size) == 1 - size..size - 1

-----------------------------------------------------------------------------
(* What is put into the bytes *)

\* A report with one byte overwritten (none at position 0).
Received(i) ==
    LET sent == EncodeFrame(i.frame)
    IN  IF i.at = 0 THEN sent ELSE [sent EXCEPT ![i.at] = i.byte]

FrameInputs ==
    [kind: {"frame"}, frame: Frames, at: {0}, byte: {0}] \cup
    [kind: {"frame"}, frame: Frames, at: 1..ReportSize, byte: Noise]

\* The bits of a record: the flags; the twelfth bit of the temperature and the
\* second; year, month and day; the hour and eleven bits; the minute.
RecordBytes(i) ==
    LET t == i.time
        low(w) == <<w % 256, w \div 256>>
    IN  <<i.flags, 2 * (i.temperature \div 2048) + 4 * t.second>>
        \o low((t.year - 2000) + 128 * t.month + 2048 * t.day)
        \o low(t.hour + 32 * (i.temperature % 2048))
        \o low(t.minute)

\* Firmware before protocol 0x23 has eleven bits of temperature.
RecordInputs ==
    {i \in [kind: {"record"}, time: Moments, temperature: Temperatures,
            flags: Flags, protocol: Protocols] :
        i.protocol < \h23 => i.temperature < 2048}

\* A pair of tenths: sign and magnitude.
TenthsBytes(v, sign) ==
    LET w == IF v < 0 THEN sign - v ELSE v IN <<w \div 256, w % 256>>

TenthsInputs == [kind: {"tenths"}, temperature: Tenths, humidity: Tenths]

DateInputs == [kind: {"date"}, time: Moments, weekday: {0, 255}]

\* The block at 0x42, of which a stopped logger blanks two bytes at each end.
CountBytes(i) ==
    LET high(v) == <<v \div 16777216, (v \div 65536) % 256>>
        low(v) == <<(v \div 256) % 256, v % 256>>
        ends == IF i.stopped THEN <<255, 255>> ELSE high(i.capacity)
    IN  ends \o low(i.capacity)
        \o (IF i.protocol >= \h24 THEN high(i.count) ELSE <<0, 0>>) \o low(i.count)
        \o (IF i.stopped THEN <<255, 255>> ELSE <<0, 0>>)

CountInputs ==
    {i \in [kind: {"count"}, capacity: Counts, count: Counts,
            protocol: Protocols, stopped: BOOLEAN] :
        i.count <= i.capacity /\ (i.protocol < \h24 => i.count < 65535)}

SettingInputs ==
    [kind: {"setting"}, interval: Intervals, old: OldBytes, immediate: BOOLEAN,
     button: BOOLEAN, software: BOOLEAN]

NoReading == 65535  \* 0xFFFF for a value

\* A moment that exists.
Real(t) == OnClock(t) /\ t.month \in 1..12 /\ t.day \in 1..31
           /\ (t.month \in {4, 6, 9, 11} => t.day <= 30)
           /\ (t.month = 2 => t.day <= IF t.year % 4 = 0 /\ t.year # 2100 THEN 29 ELSE 28)

\* A date and time, or the zeros of none.
DateBytes(d) == IF d.ok THEN EncodeDateTime(d.time, 0) ELSE [k \in 1..7 |-> 0]

\* The status space: what it holds is at the offsets of PROTOCOL.md 10.
StatusSpace(i) ==
    LET start == DateBytes(i.past.start)
        extreme(k) == TenthsBytes(i.extremes[k], 32768)
    IN  [o \in 0..\hBF |->
            CASE o = 0 -> i.recording
              [] o \in 8..14 -> start[o - 7]
              [] o = \h8A -> i.count % 256
              [] o = \h8B -> i.count \div 256
              [] o \in \h90..\h91 -> extreme(1)[o - \h8F]
              [] o \in \h98..\h99 -> extreme(2)[o - \h97]
              [] o \in \hB0..\hB1 -> extreme(3)[o - \hAF]
              [] o \in \hB8..\hB9 -> extreme(4)[o - \hB7]
              [] OTHER -> 204]

\* A logger that records was started; the start its parameters have is kept up to
\* date or is the factory's.
StatusInputs ==
    {i \in [kind: {"status"}, recording: {0, 1, 255}, past: Histories,
            count: {n \in Counts : n < 65536}, extremes: Extremes, answered: BOOLEAN,
            kept: BOOLEAN, mode: {0, 1}] :
        i.recording = 1 => i.past.start.ok}

Magnitude(n) == IF n < 0 THEN -n ELSE n

\* A slot of the store holds nothing that can be read, or a reading: the record
\* of an old logger, or the temperature and humidity of another.
SlotBytes(i, p) ==
    LET slot == IF p < Len(i.store) THEN i.store[p + 1] ELSE Nothing
    IN  IF ~slot.ok THEN [b \in 1..8 |-> 255]
        ELSE IF i.humid
             THEN TenthsBytes(slot.temperature, 4096)
                  \o (IF slot.humidity.ok THEN TenthsBytes(slot.humidity.tenths, 4096)
                      ELSE <<255, 255>>)
        ELSE RecordBytes([time |-> slot.time, temperature |-> Magnitude(slot.temperature),
                          flags |-> (IF slot.paused THEN 2 ELSE 0)
                                    + (IF slot.temperature < 0 THEN 8 ELSE 0)])

\* The report that answers for the six slots from off.
Packet(i, off) ==
    LET width == IF i.humid THEN 4 ELSE 8
    IN  [n |-> RecordsPerPacket,
         data |-> [b \in 1..RecordsPerPacket * width |->
                      SlotBytes(i, off + (b - 1) \div width)[1 + ((b - 1) % width)]]]

StoreInputs == [kind: {"store"}, store: Stores, last: Lasts, humid: BOOLEAN, start: {"start"}]

FormInputs ==
    [kind: {"form"}, shown: Shown, typed: {<<>>}] \cup
    [kind: {"form"}, shown: {0}, typed: Fields \X Fields]

\* The bound keeps a product within TLC's integers.
TimeInputs ==
    {i \in [kind: {"time"}, span: Spans, capacity: Counts, count: Counts] :
        i.count <= i.capacity /\ (i.capacity = 0 \/ i.span <= 2000000000 \div i.capacity)}

Inputs ==
    FrameInputs \cup RecordInputs \cup TenthsInputs \cup DateInputs
    \cup CountInputs \cup SettingInputs \cup StatusInputs \cup StoreInputs
    \cup FormInputs \cup TimeInputs

\* What the fields of a record can hold, of a moment.
Clock(t) ==
    /\ t = [year |-> t.year, month |-> t.month, day |-> t.day,
            hour |-> t.hour, minute |-> t.minute, second |-> t.second]
    /\ t.year \in Nat /\ t.year - 2000 \in Below(128)
    /\ t.month \in Below(16) /\ t.day \in Below(32)
    /\ t.hour \in Below(32) /\ t.minute \in Below(64) /\ t.second \in Below(64)

\* What a report holds.
Sent(f) ==
    /\ f = [op |-> f.op, off |-> f.off, n |-> f.n, data |-> f.data]
    /\ f.op \in Below(65536) /\ f.off \in Below(16777216) /\ f.n \in Below(256)
    /\ f.data \in Seq(Below(256)) /\ Len(f.data) <= MaxData

\* What a slot of the store holds.
Stored(slot) ==
    \/ slot = Nothing
    \/ /\ slot.ok /\ Clock(slot.time) /\ Real(slot.time)
       /\ slot.paused \in BOOLEAN /\ slot.temperature \in Within(4096)
       /\ \/ slot.humidity = Nothing
          \/ /\ slot.humidity = [ok |-> TRUE, tenths |-> slot.humidity.tenths]
             /\ slot.humidity.tenths \in Within(4096)

\* A moment of a logger's history: none, or one that exists.
Dated(d) ==
    \/ d = Nothing
    \/ d = [ok |-> TRUE, time |-> d.time] /\ Clock(d.time) /\ Real(d.time)

\* What a store holds.
StoreFits(s) == s \in Seq({s[k] : k \in 1..Len(s)}) /\ \A k \in 1..Len(s) : Stored(s[k])

\* The inputs fit the fields they are put into.  An interval is one that Configure
\* takes or that a logger reports, in tens of seconds; the bound of the counts is
\* TLC's, of the four bytes they have.
ASSUME CodecAssumption ==
    /\ \A f \in Frames : Sent(f)
    /\ Noise \subseteq Below(256) /\ Flags \subseteq Below(256) /\ OldBytes \subseteq Below(256)
    /\ \A t \in Moments : Clock(t)
    /\ Temperatures \subseteq Below(4096) /\ Tenths \subseteq Within(4096)
    /\ Protocols \subseteq Below(256)
    /\ Counts \subseteq Below(2147483647)
    /\ \A s \in Intervals : ConfigureTakes(s)
    /\ \A x \in Extremes : x \in [1..4 -> {NoReading} \cup Within(32767)]
    /\ \A h \in Histories :
           /\ h = [configured |-> h.configured, start |-> h.start, stopped |-> h.stopped]
           /\ Dated(h.configured) /\ Dated(h.start) /\ Dated(h.stopped)
           /\ h.start.ok => h.start.time.year > 2012
    /\ Clock(Placeholder) /\ Placeholder.year <= 2012
    /\ \A s \in Stores : StoreFits(s)
    /\ Lasts \subseteq Nat
    /\ \A s \in Shown : s \in Nat /\ s % 10 = 0
    /\ Fields \subseteq Int /\ Spans \subseteq Nat

-----------------------------------------------------------------------------
(* Decoding *)

\* The record of a temperature and humidity logger.
ReadingsRecord(i) ==
    TenthsBytes(i.temperature, 4096) \o TenthsBytes(i.humidity, 4096)

\* What Configure writes, read back.
SettingsRead(i) ==
    LET byte == EncodeStartByte(i.old, i.immediate, i.button, i.software)
    IN  [interval |-> DecodeInterval(EncodeInterval(i.interval)),
         start |-> DecodeStartByte(byte), kept |-> byte \div 32]

\* The status space as Info reads it, and what two pages make of it.
StatusShown(i) ==
    LET status == ReadStatus(StatusSpace(i), i.answered)
        parameter == IF i.kept THEN i.past.start ELSE [ok |-> TRUE, time |-> Placeholder]
        info == [stoppedAt |-> i.past.stopped, counted |-> TRUE, count |-> i.count,
                 mode |-> i.mode, configuredAt |-> i.past.configured,
                 recording |-> status.recording, startedAt |-> StartedAt(parameter, status)]
    IN  [status |-> status, line |-> RecordingLine(info),
         state |-> RecordingState(info), facts |-> MonitorFacts(status)]

\* A download.
Downloaded(i) ==
    LET packet == [off \in 0..Len(i.store) |-> Packet(i, off)]
    IN  RecordsOf(packet, Len(i.store), i.last, IF i.humid THEN \h54 ELSE \h34, i.start, 600)

\* Everything that is made of records.
Views(recs) ==
    [ok |-> TRUE, records |-> recs, csv |-> Csv(recs), table |-> Table(recs),
     chart |-> Chart(recs), humidity |-> HumidityChart(recs),
     summary |-> Summary(recs), latest |-> LatestReading(recs)]

StoreShown(i) == IF Downloaded(i).ok THEN Views(Downloaded(i).records) ELSE Nothing

\* The form of a page is submitted as it is, or with other numbers.
FormRead(i) ==
    LET form == FormOf(i.shown)
    IN  IF i.typed = <<>> THEN ParseInterval(form.minutes, form.seconds)
        ELSE ParseInterval(i.typed[1], i.typed[2])

TimesShown(i) ==
    [duration |-> DurationText(i.span), span |-> FormatSpan(i.span),
     life |-> LoggingTimeText(i.span, TRUE, i.capacity, i.count)]

Decodes(kind, result) ==
    /\ input.kind = kind /\ output = Pending
    /\ output' = result
    /\ UNCHANGED input

DecodeReport == Decodes("frame", DecodeFrame(Received(input)))
DecodeStored == Decodes("record", DecodeRecord(RecordBytes(input), input.protocol))
DecodeReadings == Decodes("tenths", DecodeRecordTH(ReadingsRecord(input)))
DecodeMoment == Decodes("date", DecodeDateTime(EncodeDateTime(input.time, input.weekday)))
DecodeCounts == Decodes("count", DecodeCapacityCount(CountBytes(input), input.protocol))
DecodeSettings == Decodes("setting", SettingsRead(input))
DecodeStatusSpace == Decodes("status", StatusShown(input))

ShowRecords == Decodes("store", StoreShown(input))
SubmitForm == Decodes("form", FormRead(input))
ShowTimes == Decodes("time", TimesShown(input))

Init == input \in Inputs /\ output = Pending

Next ==
    \/ DecodeReport \/ DecodeStored \/ DecodeReadings
    \/ DecodeMoment \/ DecodeCounts \/ DecodeSettings
    \/ DecodeStatusSpace \/ ShowRecords \/ SubmitForm \/ ShowTimes

Spec == Init /\ [][Next]_vars

-----------------------------------------------------------------------------
(* Properties *)

Decoded(kind) == input.kind = kind /\ output # Pending

\* An undamaged report is read as it was sent, and a report with one damaged
\* byte is refused or, where the byte is padding, read as it was sent.  (Damage
\* to the length byte moves the checksum: nothing is promised.)
FramesTrusted ==
    Decoded("frame") /\ input.at # 4 =>
        \/ ~output.ok /\ input.at # 0
        \/ output.ok /\ input.frame =
               [op |-> output.op, off |-> output.off, n |-> output.n, data |-> output.data]

\* A stored record comes back with its time, temperature and sign, on every
\* protocol, if and only if its date and time exist; with its events, and with
\* the first of a pause, a stop and, before protocol 0x35, an error that is
\* flagged, which carries no temperature.
RecordsDecoded ==
    Decoded("record") =>
        LET flagged(unit) == (input.flags \div unit) % 2 = 1
            status == IF flagged(2) THEN "pause" ELSE IF flagged(4) THEN "stop"
                      ELSE IF flagged(128) /\ input.protocol < \h35 THEN "error"
                      ELSE "measurement"
        IN  /\ output.ok <=> Real(input.time)
            /\ output.ok =>
                /\ output.time = input.time
                /\ output.status = status
                /\ output.events = {unit \in {1, 16, 32} : flagged(unit)}
                /\ output.temperature = IF status # "measurement" THEN 0
                                        ELSE IF flagged(8) THEN -input.temperature
                                        ELSE input.temperature

\* Tenths of a record keep their value and sign, up to the twelve bits that
\* decodeRecordTenths and PROTOCOL.md give them (decodeRecordTH's comment speaks
\* of eleven, which would cut 204.8 degrees to zero).
ReadingsDecoded ==
    Decoded("tenths") =>
        /\ output.ok /\ output.temperature = input.temperature
        /\ output.humidity = [ok |-> TRUE, tenths |-> input.humidity]

\* The computer's clock, written and read back, is the same moment, and a
\* moment that does not exist is read as none.
DatesRoundTrip ==
    Decoded("date") =>
        output = IF Real(input.time) THEN [ok |-> TRUE, time |-> input.time] ELSE Nothing

\* A count that is read is the logger's, blanked bytes or not, on every
\* protocol; and it is read, with the capacity, unless blanking took part of it.
CountTruthful ==
    Decoded("count") =>
        /\ output.ok => output.count = input.count
        /\ ~input.stopped \/ input.capacity < 65535 =>
               output = [ok |-> TRUE, capacity |-> input.capacity, count |-> input.count]

\* Every interval and stop setting Configure accepts is read back as written
\* (VerifySettings then finds nothing), with the upper bits of the byte kept.
SettingsRoundTrip ==
    Decoded("setting") =>
        /\ output.interval = [ok |-> TRUE, seconds |-> input.interval]
        /\ output.start = [mode |-> IF input.immediate THEN 0 ELSE 1,
                           button |-> input.button, software |-> input.software]
        /\ output.kept = input.old \div 32

\* The status space is read as the logger has it, or not at all; and however
\* that goes: the monitor says a logger is recording if and only if it said so,
\* and since when; the records page names the moment it was stopped, or its real
\* start when either space tells it, and otherwise the moment it was configured,
\* never the factory's placeholder; the extremes that are shown are the logger's,
\* with 0.0 for one it did not report ("Extremes are 0 when the logger reports
\* none"), and none when both are 0 or missing.
StatusRead ==
    Decoded("status") =>
        LET past == input.past
            told == past.start.ok /\ (input.answered \/ input.kept)
            value(k) == IF input.answered /\ input.extremes[k] # NoReading
                        THEN input.extremes[k] ELSE 0
            shown(lo, hi) == IF value(lo) = 0 /\ value(hi) = 0 THEN Nothing
                             ELSE [ok |-> TRUE, range |-> <<value(lo), value(hi)>>]
        IN  /\ input.answered => output.status =
                   [recording |-> input.recording = 1, startedAt |-> past.start,
                    count |-> input.count, extremes |-> [k \in 1..4 |-> value(k)]]
            /\ output.state[1] = "stopped" <=> past.stopped.ok
            /\ output.state[1] = "recording" <=>
                   ~past.stopped.ok /\ input.answered /\ input.recording = 1
            /\ output.state[1] = "stopped" => output.state[2] = past.stopped
            /\ output.state[1] = "recording" => output.state[2] = past.start
            /\ output.line[1] = "stopped" => output.line[2] = past.stopped
            /\ output.line[1] = "recording" =>
                   output.line[2] = IF told THEN past.start ELSE past.configured
            /\ output.facts = [temperature |-> shown(2, 1), humidity |-> shown(4, 3)]

\* A download holds, in order and at their own positions, the readable ones of
\* the last slots asked for, each with the values and the time of its slot:
\* across packets, in both widths, with unreadable slots between.
RecordsPlaced ==
    Decoded("store") =>
        LET recs == output.records
            count == Len(input.store)
            slot(p) == input.store[p + 1]
            wanted(p) == slot(p).ok /\ (input.last = 0 \/ p + input.last >= count)
        IN  /\ ~output.ok => \E p \in 0..count - 1 : ~slot(p).ok
            /\ output.ok =>
                /\ {recs[k].index : k \in 1..Len(recs)} = {p \in 0..count - 1 : wanted(p)}
                /\ \A k, l \in 1..Len(recs) : k < l => recs[k].index < recs[l].index
                /\ \A k \in 1..Len(recs) :
                    LET r == recs[k]
                        s == slot(r.index)
                        pause == s.paused /\ ~input.humid
                    IN  /\ r.status = IF pause THEN "pause" ELSE "measurement"
                        /\ r.temperature = IF pause THEN 0 ELSE s.temperature
                        /\ r.humidity = IF input.humid THEN s.humidity ELSE Nothing
                        /\ r.time = IF input.humid
                                    THEN [since |-> input.start, seconds |-> 600 * r.index]
                                    ELSE s.time

\* The CSV and the table, read by the names of their columns, give back every
\* record; the charts, the summary and the latest reading are of the same
\* measurements.
ViewsAgree ==
    Decoded("store") /\ output.ok =>
        LET recs == output.records
            column(t, k, name) == t.rows[k][CHOOSE c \in 1..Len(t.header) : t.header[c] = name]
            back(t, k) ==
                [index |-> column(t, k, "index") - 1, time |-> column(t, k, "time"),
                 temperature |-> column(t, k, "temperature"), status |-> column(t, k, "status"),
                 humidity |-> IF Contains(t.header, "humidity") THEN column(t, k, "humidity")
                              ELSE Nothing]
            points(name) ==
                Kept([k \in 1..Len(recs) |->
                         <<column(output.csv, k, "time"), column(output.csv, k, name)>>],
                     {k \in 1..Len(recs) : column(output.csv, k, name).ok})
            values == {output.chart[k][2] : k \in 1..Len(output.chart)}
        IN  /\ \A t \in {output.csv, output.table} :
                /\ Len(t.rows) = Len(recs)
                /\ \A k \in 1..Len(recs) :
                    /\ Len(t.rows[k]) = Len(t.header)
                    /\ back(t, k) =
                           [index |-> recs[k].index, time |-> recs[k].time,
                            temperature |-> Temperature(recs[k]), status |-> recs[k].status,
                            humidity |-> recs[k].humidity]
            /\ output.chart = [k \in 1..Len(points("temperature")) |->
                   <<points("temperature")[k][1], points("temperature")[k][2].tenths>>]
            /\ Contains(output.csv.header, "humidity") =>
                   output.humidity = [k \in 1..Len(points("humidity")) |->
                       <<points("humidity")[k][1], points("humidity")[k][2].tenths>>]
            /\ output.summary.ok = output.latest.ok /\ output.latest.ok = (values # {})
            /\ values # {} =>
                /\ output.summary.n = Len(output.chart)
                /\ {output.summary.min, output.summary.max} \subseteq values
                /\ \A v \in values : v \in output.summary.min..output.summary.max
                /\ <<output.latest.time, output.latest.temperature>> = Last(output.chart)

\* A form that is submitted as it was shown keeps the logger's interval, and
\* whatever is typed the form takes exactly what Configure takes.
FormKeepsInterval ==
    Decoded("form") =>
        IF input.typed = <<>>
        THEN output = IF ConfigureTakes(input.shown)
                      THEN [ok |-> TRUE, seconds |-> input.shown] ELSE Nothing
        ELSE LET minutes == input.typed[1]  seconds == input.typed[2]
             IN  /\ output.ok => /\ output.seconds = 60 * minutes + seconds
                                 /\ ConfigureTakes(output.seconds)
                 /\ ~output.ok => \/ minutes < 0 \/ seconds \notin 0..59
                                  \/ ~ConfigureTakes(60 * minutes + seconds)

\* The seconds that parts with their units come to.
Total(parts) ==
    LET sum[k \in 0..Len(parts)] == IF k = 0 THEN 0 ELSE sum[k - 1] + parts[k][1] * parts[k][2]
    IN  sum[Len(parts)]

\* Times read back: an interval as it is, a span within half a minute, with each
\* unit used up; and the time recorded and the time remaining make up the total
\* to the minute.
TimesReadBack ==
    Decoded("time") =>
        LET carried(parts) == \A k \in 2..Len(parts) :
                                 parts[k][1] * parts[k][2] < parts[k - 1][2]
        IN  /\ Total(output.duration) = input.span /\ carried(output.duration)
            /\ Magnitude(Total(output.span) - input.span) <= 30 /\ carried(output.span)
            /\ output.life.ok =>
                   Magnitude(Total(output.life.total) - Total(output.life.recorded)
                       - Total(output.life.remaining)) <= 60
=============================================================================
