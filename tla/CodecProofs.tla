----------------------------- MODULE CodecProofs -----------------------------
(***************************************************************************)
(* What the decoders make of the bytes of a logger is what was put into    *)
(* them, for all inputs that fit their fields (CodecAssumption).           *)
(***************************************************************************)
EXTENDS Codec, ReadingsProofs

\* What every input is decoded to.
Outcome ==
    /\ input \in Inputs
    /\ output # Pending =>
        /\ input.kind = "frame" => output = DecodeFrame(Received(input))
        /\ input.kind = "record" => output = DecodeRecord(RecordBytes(input), input.protocol)
        /\ input.kind = "tenths" => output = DecodeRecordTH(ReadingsRecord(input))
        /\ input.kind = "date" =>
               output = DecodeDateTime(EncodeDateTime(input.time, input.weekday))
        /\ input.kind = "count" =>
               output = DecodeCapacityCount(CountBytes(input), input.protocol)
        /\ input.kind = "setting" => output = SettingsRead(input)
        /\ input.kind = "status" => output = StatusShown(input)
        /\ input.kind = "store" => output = StoreShown(input)
        /\ input.kind = "form" => output = FormRead(input)
        /\ input.kind = "time" => output = TimesShown(input)

\* The result of a step is the one of its kind.
LEMMA KindsDiffer ==
    ASSUME NEW kind, NEW result, Decodes(kind, result), Outcome
    PROVE  input' \in Inputs /\ input'.kind = kind /\ input' = input /\ output' = result
BY Zenon DEF Decodes, Outcome

\* Every output is that of its input.
LEMMA OutcomeHolds == Spec => []Outcome
<1>1. Init => Outcome
  BY DEF Init, Outcome
<1>2. ASSUME Outcome, [Next]_vars PROVE Outcome'
  <2>1. CASE DecodeReport
    <3>1. input' \in Inputs /\ input'.kind = "frame" /\ output' = DecodeFrame(Received(input'))
      BY <1>2, <2>1, KindsDiffer, Zenon DEF DecodeReport
    <3> QED BY <3>1 DEF Outcome
  <2>2. CASE DecodeStored
    <3>1. /\ input' \in Inputs /\ input'.kind = "record"
          /\ output' = DecodeRecord(RecordBytes(input'), input'.protocol)
      BY <1>2, <2>2, KindsDiffer, Zenon DEF DecodeStored
    <3> QED BY <3>1 DEF Outcome
  <2>3. CASE DecodeReadings
    <3>1. /\ input' \in Inputs /\ input'.kind = "tenths"
          /\ output' = DecodeRecordTH(ReadingsRecord(input'))
      BY <1>2, <2>3, KindsDiffer, Zenon DEF DecodeReadings
    <3> QED BY <3>1 DEF Outcome
  <2>4. CASE DecodeMoment
    <3>1. /\ input' \in Inputs /\ input'.kind = "date"
          /\ output' = DecodeDateTime(EncodeDateTime(input'.time, input'.weekday))
      BY <1>2, <2>4, KindsDiffer, Zenon DEF DecodeMoment
    <3> QED BY <3>1 DEF Outcome
  <2>5. CASE DecodeCounts
    <3>1. /\ input' \in Inputs /\ input'.kind = "count"
          /\ output' = DecodeCapacityCount(CountBytes(input'), input'.protocol)
      BY <1>2, <2>5, KindsDiffer, Zenon DEF DecodeCounts
    <3> QED BY <3>1 DEF Outcome
  <2>6. CASE DecodeSettings
    <3>1. /\ input' \in Inputs /\ input'.kind = "setting" /\ output' = SettingsRead(input')
      BY <1>2, <2>6, KindsDiffer, Zenon DEF DecodeSettings
    <3> QED BY <3>1 DEF Outcome
  <2>7. CASE DecodeStatusSpace
    <3>1. /\ input' \in Inputs /\ input'.kind = "status" /\ output' = StatusShown(input')
      BY <1>2, <2>7, KindsDiffer, Zenon DEF DecodeStatusSpace
    <3> QED BY <3>1 DEF Outcome
  <2>8. CASE ShowRecords
    <3>1. /\ input' \in Inputs /\ input'.kind = "store" /\ output' = StoreShown(input')
      BY <1>2, <2>8, KindsDiffer, Zenon DEF ShowRecords
    <3> QED BY <3>1 DEF Outcome
  <2>9. CASE SubmitForm
    <3>1. /\ input' \in Inputs /\ input'.kind = "form" /\ output' = FormRead(input')
      BY <1>2, <2>9, KindsDiffer, Zenon DEF SubmitForm
    <3> QED BY <3>1 DEF Outcome
  <2>10. CASE ShowTimes
    <3>1. /\ input' \in Inputs /\ input'.kind = "time" /\ output' = TimesShown(input')
      BY <1>2, <2>10, KindsDiffer, Zenon DEF ShowTimes
    <3> QED BY <3>1 DEF Outcome
  <2>11. CASE UNCHANGED vars
    BY <1>2, <2>11, Zenon DEF Outcome, vars
  <2> QED BY <1>2, <2>1, <2>2, <2>3, <2>4, <2>5, <2>6, <2>7, <2>8, <2>9, <2>10, <2>11 DEF Next
<1> QED BY <1>1, <1>2, PTL DEF Spec

-----------------------------------------------------------------------------
(* The inputs *)

LEMMA KindsOfInputs ==
    /\ \A i \in FrameInputs : i.kind = "frame"
    /\ \A i \in RecordInputs : i.kind = "record"
    /\ \A i \in TenthsInputs : i.kind = "tenths"
    /\ \A i \in DateInputs : i.kind = "date"
    /\ \A i \in CountInputs : i.kind = "count"
    /\ \A i \in SettingInputs : i.kind = "setting"
    /\ \A i \in StatusInputs : i.kind = "status"
    /\ \A i \in StoreInputs : i.kind = "store"
    /\ \A i \in FormInputs : i.kind = "form"
    /\ \A i \in TimeInputs : i.kind = "time"
<1>1. \A i \in FrameInputs : i.kind = "frame"
  BY DEF FrameInputs
<1>2. \A i \in RecordInputs : i.kind = "record"
  BY DEF RecordInputs
<1>3. \A i \in TenthsInputs : i.kind = "tenths"
  BY DEF TenthsInputs
<1>4. \A i \in DateInputs : i.kind = "date"
  BY DEF DateInputs
<1>5. \A i \in CountInputs : i.kind = "count"
  BY DEF CountInputs
<1>6. \A i \in SettingInputs : i.kind = "setting"
  BY DEF SettingInputs
<1>7. \A i \in StatusInputs : i.kind = "status"
  BY DEF StatusInputs
<1>8. \A i \in StoreInputs : i.kind = "store"
  BY DEF StoreInputs
<1>9. \A i \in FormInputs : i.kind = "form"
  BY DEF FormInputs
<1>10. \A i \in TimeInputs : i.kind = "time"
  BY DEF TimeInputs
<1> QED BY <1>1, <1>2, <1>3, <1>4, <1>5, <1>6, <1>7, <1>8, <1>9, <1>10

\* An input has the fields of its kind.
LEMMA InputOfKind ==
    ASSUME NEW i \in Inputs
    PROVE  /\ i.kind = "frame" => i \in FrameInputs
           /\ i.kind = "record" => i \in RecordInputs
           /\ i.kind = "tenths" => i \in TenthsInputs
           /\ i.kind = "date" => i \in DateInputs
           /\ i.kind = "count" => i \in CountInputs
           /\ i.kind = "setting" => i \in SettingInputs
           /\ i.kind = "status" => i \in StatusInputs
           /\ i.kind = "store" => i \in StoreInputs
           /\ i.kind = "form" => i \in FormInputs
           /\ i.kind = "time" => i \in TimeInputs
BY KindsOfInputs DEF Inputs

\* The same as facts of arithmetic.
LEMMA Ranges ==
    /\ \A size \in Nat : \A x : x \in Below(size) <=> x \in Nat /\ x < size
    /\ \A size \in Nat : \A x : x \in Within(size) <=> x \in Int /\ -size < x /\ x < size
BY DEF Below, Within

-----------------------------------------------------------------------------
(* Tenths *)

LEMMA TwoPairs ==
    ASSUME NEW a, NEW b, NEW c, NEW d
    PROVE  /\ (<<a, b>> \o <<c, d>>)[1] = a /\ (<<a, b>> \o <<c, d>>)[2] = b
           /\ (<<a, b>> \o <<c, d>>)[3] = c /\ (<<a, b>> \o <<c, d>>)[4] = d
OBVIOUS

LEMMA BytesOfWord ==
    ASSUME NEW w \in Nat
    PROVE  w \div 256 \in Nat /\ w % 256 \in Nat /\ 256 * (w \div 256) + (w % 256) = w
BY SMT

\* A value as a word with a sign.
Signed(v, sign) == IF v < 0 THEN sign - v ELSE v

\* A number of two bytes.
WordBytes(w) == <<w \div 256, w % 256>>

LEMMA WordsRead ==
    ASSUME NEW v \in Nat, NEW w \in Nat
    PROVE  /\ Word(WordBytes(v) \o WordBytes(w), 1) = v
           /\ Word(WordBytes(v) \o WordBytes(w), 3) = w
<1> DEFINE b == <<v \div 256, v % 256>> \o <<w \div 256, w % 256>>
<1>1. /\ b[1] = v \div 256 /\ b[2] = v % 256 /\ b[3] = w \div 256 /\ b[4] = w % 256
  BY TwoPairs, SMT
<1>2. b = WordBytes(v) \o WordBytes(w)
  BY DEF WordBytes
<1> HIDE DEF b
<1>3. Word(b, 1) = 256 * (v \div 256) + (v % 256) /\ Word(b, 3) = 256 * (w \div 256) + (w % 256)
  BY <1>1, SMT DEF Word
<1> QED BY <1>2, <1>3, BytesOfWord

\* Values of a record (the provers are slow with large numbers: they stay in
\* definitions that are opened one step at a time).
Twelve(v) == v \in Int /\ -4096 < v /\ v < 4096
RecordWord(v) == Signed(v, 4096)
ReadWord(w) == IF (w \div 4096) % 2 = 1 THEN -(w % 4096) ELSE w % 4096

LEMMA SignedRead ==
    ASSUME NEW v, Twelve(v)
    PROVE  RecordWord(v) # NoReading /\ ReadWord(RecordWord(v)) = v
<1>1. CASE v < 0
  BY <1>1, SMT DEF Signed, Twelve, RecordWord, ReadWord, NoReading
<1>2. CASE v >= 0
  BY <1>2, SMT DEF Signed, Twelve, RecordWord, ReadWord, NoReading
<1> QED BY <1>1, <1>2, SMT DEF Twelve

LEMMA RecordTHRead ==
    ASSUME NEW b, NEW t, NEW h,
           DecodeRecordTenths(b, 1) = [ok |-> TRUE, tenths |-> t],
           DecodeRecordTenths(b, 3) = [ok |-> TRUE, tenths |-> h]
    PROVE  DecodeRecordTH(b) =
               [ok |-> TRUE, time |-> Nothing, status |-> "measurement",
                temperature |-> t, humidity |-> [ok |-> TRUE, tenths |-> h], events |-> {}]
<1>1. DecodeRecordTenths(b, 1).ok /\ DecodeRecordTenths(b, 1).tenths = t
  OBVIOUS
<1> QED BY <1>1, Zenon DEF DecodeRecordTH

LEMMA TenthsFit == \A v \in Tenths : Twelve(v)
BY CodecAssumption, Ranges, SMT DEF Twelve

\* A value of a record is read as it was put in.
LEMMA RecordTenthsRead ==
    ASSUME NEW v, Twelve(v), NEW b, NEW k, Word(b, k) = RecordWord(v)
    PROVE  DecodeRecordTenths(b, k) = [ok |-> TRUE, tenths |-> v]
<1>1. DecodeRecordTenths(b, k) =
          IF RecordWord(v) = NoReading THEN Nothing
          ELSE [ok |-> TRUE, tenths |-> ReadWord(RecordWord(v))]
  BY SMT DEF DecodeRecordTenths, Bit, Bits, ReadWord, NoReading
<1> QED BY <1>1, SignedRead, Zenon

\* What DecodeRecordTH makes of the bytes of two values.
LEMMA ReadingsRead ==
    ASSUME NEW t, Twelve(t), NEW h, Twelve(h)
    PROVE  /\ Word(TenthsBytes(t, 4096) \o TenthsBytes(h, 4096), 1) = RecordWord(t)
           /\ Word(TenthsBytes(t, 4096) \o TenthsBytes(h, 4096), 3) = RecordWord(h)
<1>1. RecordWord(t) \in Nat /\ RecordWord(h) \in Nat
  BY SMT DEF Twelve, RecordWord, Signed
<1>2. /\ TenthsBytes(t, 4096) = WordBytes(RecordWord(t))
      /\ TenthsBytes(h, 4096) = WordBytes(RecordWord(h))
  BY SMT DEF TenthsBytes, RecordWord, Signed, WordBytes
<1> QED BY <1>1, <1>2, WordsRead, SMT

\* Tenths of a record keep their value and sign, of every pair of values that
\* the two fields of a temperature and humidity record can hold.
THEOREM TenthsAreKept == Spec => []ReadingsDecoded
<1>1. Outcome => ReadingsDecoded
  <2>1. SUFFICES ASSUME Outcome, Decoded("tenths")
                 PROVE  /\ output.ok /\ output.temperature = input.temperature
                        /\ output.humidity = [ok |-> TRUE, tenths |-> input.humidity]
    BY DEF ReadingsDecoded
  <2> DEFINE t == input.temperature  h == input.humidity  b == ReadingsRecord(input)
  <2>2. output = DecodeRecordTH(b)
    BY <2>1 DEF Outcome, Decoded
  <2>3. input \in TenthsInputs
    BY <2>1, InputOfKind DEF Outcome, Decoded
  <2>4. Twelve(t) /\ Twelve(h)
    BY <2>3, TenthsFit, Zenon DEF TenthsInputs
  <2> HIDE DEF t, h
  <2>5. Word(b, 1) = RecordWord(t) /\ Word(b, 3) = RecordWord(h)
    <3>1. b = TenthsBytes(t, 4096) \o TenthsBytes(h, 4096)
      BY DEF ReadingsRecord, t, h
    <3> QED BY <2>4, <3>1, ReadingsRead, SMT
  <2> HIDE DEF b
  <2>6. /\ DecodeRecordTenths(b, 1) = [ok |-> TRUE, tenths |-> t]
        /\ DecodeRecordTenths(b, 3) = [ok |-> TRUE, tenths |-> h]
    BY <2>4, <2>5, RecordTenthsRead, Zenon
  <2>7. output = [ok |-> TRUE, time |-> Nothing, status |-> "measurement",
                  temperature |-> t, humidity |-> [ok |-> TRUE, tenths |-> h], events |-> {}]
    BY <2>2, <2>6, RecordTHRead, SMT
  <2> QED BY <2>7, Zenon DEF t, h
<1> QED BY <1>1, OutcomeHolds, PTL

-----------------------------------------------------------------------------
(* Dates *)

LEMMA ClockFacts ==
    ASSUME NEW t, Clock(t)
    PROVE  /\ t.year \in Nat /\ 2000 <= t.year /\ t.year < 2128
           /\ t.month \in Nat /\ t.month < 16 /\ t.day \in Nat /\ t.day < 32
           /\ t.hour \in Nat /\ t.hour < 32 /\ t.minute \in Nat /\ t.minute < 64
           /\ t.second \in Nat /\ t.second < 64
BY SMT DEF Clock, Below

\* The leap years that the bytes can hold: 2100 is none of them.
LEMMA LeapYears ==
    ASSUME NEW y \in Nat, 2000 <= y, y < 2128
    PROVE  Leap(y) <=> (y % 4 = 0 /\ y # 2100)
<1>1. y % 100 = 0 => y = 2000 \/ y = 2100
  BY SMT
<1>2. 2000 % 400 = 0 /\ 2100 % 400 # 0 /\ 2100 % 100 = 0 /\ 2000 % 4 = 0
  BY SMT
<1>3. CASE y = 2100
  BY <1>2, <1>3, SMT DEF Leap
<1>4. CASE y = 2000
  BY <1>2, <1>4, SMT DEF Leap
<1>5. CASE y # 2000 /\ y # 2100
  BY <1>1, <1>5, SMT DEF Leap
<1> QED BY <1>3, <1>4, <1>5

\* The test for the calendar is the test for a moment that exists.
LEMMA RealOnCalendar ==
    ASSUME NEW t, Clock(t)
    PROVE  Real(t) <=> OnCalendar(t) /\ OnClock(t)
<1>1. /\ t.year \in Nat /\ 2000 <= t.year /\ t.year < 2128
      /\ t.month \in Nat /\ t.day \in Nat
  BY ClockFacts
<1>2. Leap(t.year) <=> (t.year % 4 = 0 /\ t.year # 2100)
  BY <1>1, LeapYears
<1>3. CASE t.month = 2
  BY <1>1, <1>2, <1>3, SMT DEF Real, OnCalendar, DaysIn
<1>4. CASE t.month \in {4, 6, 9, 11}
  BY <1>1, <1>4, SMT DEF Real, OnCalendar, DaysIn
<1>5. CASE t.month # 2 /\ t.month \notin {4, 6, 9, 11}
  BY <1>1, <1>5, SMT DEF Real, OnCalendar, DaysIn
<1> QED BY <1>3, <1>4, <1>5

\* Seven bytes are read as the moment they were made of, if it exists.
LEMMA DateRead ==
    ASSUME NEW t, Clock(t), NEW d
    PROVE  DecodeDateTime(EncodeDateTime(t, d)) =
               IF Real(t) THEN [ok |-> TRUE, time |-> t] ELSE Nothing
<1> DEFINE b == EncodeDateTime(t, d)
           u == [year |-> 2000 + b[1], month |-> b[2], day |-> b[4],
                 hour |-> b[5], minute |-> b[6], second |-> b[7]]
<1>1. /\ t.year \in Nat /\ 2000 <= t.year /\ t.year < 2128
      /\ t.month \in Nat /\ t.month < 16 /\ t.day \in Nat /\ t.day < 32
      /\ t.hour \in Nat /\ t.hour < 32 /\ t.minute \in Nat /\ t.minute < 64
      /\ t.second \in Nat /\ t.second < 64
  BY ClockFacts
<1>2. 2000 + ((t.year - 2000) % 256) = t.year /\ (t.year - 2000) % 256 < 128
  BY <1>1, SMT
<1>3. /\ b[1] = (t.year - 2000) % 256 /\ b[2] = t.month /\ b[4] = t.day /\ b[5] = t.hour
      /\ b[6] = t.minute /\ b[7] = t.second
  BY DEF EncodeDateTime
<1> HIDE DEF b
<1>4. u = t
  BY <1>2, <1>3, SMT DEF Clock
<1>5. ~(\E i \in {1, 2, 4, 5, 6, 7} : b[i] = 255)
  BY <1>1, <1>2, <1>3, SMT
<1>6. Real(t) => ~(\A i \in 1..7 : b[i] = 0)
  BY <1>3, SMT DEF Real
<1> HIDE DEF u
<1>7. DecodeDateTime(b) = IF \/ \A i \in 1..7 : b[i] = 0
                             \/ \E i \in {1, 2, 4, 5, 6, 7} : b[i] = 255
                             \/ ~OnCalendar(u) \/ ~OnClock(u)
                          THEN Nothing ELSE [ok |-> TRUE, time |-> u]
  BY DEF DecodeDateTime, u
<1>8. Real(t) <=> OnCalendar(t) /\ OnClock(t)
  BY RealOnCalendar
<1> QED BY <1>4, <1>5, <1>6, <1>7, <1>8, ZenonT(60) DEF b

LEMMA MomentsFit == \A t \in Moments : Clock(t)
BY CodecAssumption, SMT

\* The computer's clock, written by Configure and read back, is the same moment,
\* for every moment that the bytes can hold; one that does not exist is read as
\* none.
THEOREM DatesAreKept == Spec => []DatesRoundTrip
<1>1. Outcome => DatesRoundTrip
  <2>1. SUFFICES ASSUME Outcome, Decoded("date")
                 PROVE  output = IF Real(input.time) THEN [ok |-> TRUE, time |-> input.time]
                                 ELSE Nothing
    BY DEF DatesRoundTrip
  <2>2. output = DecodeDateTime(EncodeDateTime(input.time, input.weekday))
    BY <2>1, Zenon DEF Outcome, Decoded
  <2>3. input \in DateInputs
    BY <2>1, InputOfKind, Zenon DEF Outcome, Decoded
  <2>4. Clock(input.time)
    BY <2>3, MomentsFit, SMT DEF DateInputs
  <2>5. DecodeDateTime(EncodeDateTime(input.time, input.weekday)) =
            IF Real(input.time) THEN [ok |-> TRUE, time |-> input.time] ELSE Nothing
    BY <2>4, DateRead, Zenon
  <2> QED BY <2>2, <2>5, Zenon
<1> QED BY <1>1, OutcomeHolds, PTL

-----------------------------------------------------------------------------
(* Settings *)

LEMMA TwoBytesWord == ASSUME NEW p, NEW q PROVE Word(<<p, q>>, 1) = 256 * p + q
BY SMT DEF Word

\* An interval of up to a day is at most 8640 units: the two bytes hold it, and
\* never the 0xFF of a blank.
LEMMA IntervalRead ==
    ASSUME NEW s, ConfigureTakes(s)
    PROVE  DecodeInterval(EncodeInterval(s)) = [ok |-> TRUE, seconds |-> s]
<1> DEFINE u == (s \div 10) % 65536
           b == <<u \div 256, u % 256>>
<1>1. s \in Nat /\ 10 <= s /\ s <= 86400 /\ s % 10 = 0
  BY SMT DEF ConfigureTakes
<1>2. u \in Nat /\ 10 * u = s /\ u # 0 /\ u <= 8640
  BY <1>1, SMT
<1>3. b = EncodeInterval(s)
  BY DEF EncodeInterval
<1> HIDE DEF u
<1>4. b[1] = u \div 256 /\ u \div 256 # 255 /\ 256 * (u \div 256) + (u % 256) = u
  BY <1>2, SMT
<1>5. Word(b, 1) = u
  BY <1>4, TwoBytesWord, SMT
<1> HIDE DEF b
<1>6. ~IsFF(b, 1, 2)
  BY <1>4, SMT DEF IsFF
<1>7. DecodeInterval(b) = [ok |-> TRUE, seconds |-> 10 * u]
  <2>1. ~(IsFF(b, 1, 2) \/ Word(b, 1) = 0)
    BY <1>2, <1>5, <1>6
  <2>2. DecodeInterval(b) = [ok |-> TRUE, seconds |-> 10 * Word(b, 1)]
    BY <2>1, Zenon DEF DecodeInterval
  <2> QED BY <1>5, <2>2
<1> DEFINE seconds == 10 * u
<1>8. seconds = s
  BY <1>2
<1> HIDE DEF seconds
<1> QED BY <1>3, <1>7, <1>8, Zenon DEF seconds

\* Start mode, two stop bits and the three bits that are kept share a byte.
LEMMA StartByteRead ==
    ASSUME NEW old \in Nat, old < 256,
           NEW immediate \in BOOLEAN, NEW button \in BOOLEAN, NEW software \in BOOLEAN
    PROVE  LET byte == EncodeStartByte(old, immediate, button, software)
           IN  /\ DecodeStartByte(byte) = [mode |-> IF immediate THEN 0 ELSE 1,
                                           button |-> button, software |-> software]
               /\ byte \div 32 = old \div 32
<1> DEFINE k == (old \div 32) % 8
           m == IF immediate THEN 0 ELSE 1
           x == IF button THEN 1 ELSE 0
           y == IF software THEN 1 ELSE 0
           byte == EncodeStartByte(old, immediate, button, software)
<1>1. k \in Nat /\ k = old \div 32
  BY SMT
<1>2. m \in {0, 1} /\ x \in {0, 1} /\ y \in {0, 1}
  OBVIOUS
<1>3. button = (x = 1) /\ software = (y = 1)
  OBVIOUS
<1>4. byte = 32 * k + m + 8 * x + 16 * y
  BY <1>1, SMT DEF EncodeStartByte, Bits
<1> HIDE DEF k, m, x, y, byte
<1>5. /\ (byte \div 1) % 8 = m /\ (byte \div 8) % 2 = x /\ (byte \div 16) % 2 = y
      /\ byte \div 32 = k
  BY <1>1, <1>2, <1>4, SMT
<1>6. DecodeStartByte(byte) = [mode |-> m, button |-> x = 1, software |-> y = 1]
  BY <1>5, SMT DEF DecodeStartByte, Bit, Bits
<1> QED BY <1>1, <1>3, <1>5, <1>6 DEF byte, m

LEMMA SettingsFit ==
    /\ \A s \in Intervals : ConfigureTakes(s)
    /\ \A old \in OldBytes : old \in Nat /\ old < 256
BY CodecAssumption, Ranges, SMT

\* Every interval and stop setting that Configure accepts is read back as
\* written, and the bits of the start byte that are not its own are kept.
THEOREM SettingsAreKept == Spec => []SettingsRoundTrip
<1>1. Outcome => SettingsRoundTrip
  <2>1. SUFFICES ASSUME Outcome, Decoded("setting") PROVE SettingsRoundTrip
    BY DEF SettingsRoundTrip
  <2>2. output = SettingsRead(input)
    BY <2>1, Zenon DEF Outcome, Decoded
  <2>3. input \in SettingInputs
    BY <2>1, InputOfKind, Zenon DEF Outcome, Decoded
  <2>4. /\ ConfigureTakes(input.interval) /\ input.old \in Nat /\ input.old < 256
        /\ input.immediate \in BOOLEAN /\ input.button \in BOOLEAN
        /\ input.software \in BOOLEAN
    BY <2>3, SettingsFit, SMT DEF SettingInputs
  <2> DEFINE byte == EncodeStartByte(input.old, input.immediate, input.button, input.software)
  <2>5. /\ DecodeStartByte(byte) = [mode |-> IF input.immediate THEN 0 ELSE 1,
                                    button |-> input.button, software |-> input.software]
        /\ byte \div 32 = input.old \div 32
    BY <2>4, StartByteRead, ZenonT(60)
  <2>6. DecodeInterval(EncodeInterval(input.interval)) =
            [ok |-> TRUE, seconds |-> input.interval]
    BY <2>4, IntervalRead, Zenon
  <2>7. /\ output.interval = DecodeInterval(EncodeInterval(input.interval))
        /\ output.start = DecodeStartByte(byte) /\ output.kept = byte \div 32
    BY <2>2 DEF SettingsRead
  <2> HIDE DEF byte
  <2> QED BY <2>5, <2>6, <2>7, Zenon DEF SettingsRoundTrip
<1> QED BY <1>1, OutcomeHolds, PTL

-----------------------------------------------------------------------------
(* The form of a page *)

\* A page shows an interval in whole tens of seconds as it is.
LEMMA FormShown ==
    ASSUME NEW s \in Nat, s % 10 = 0
    PROVE  /\ FormOf(s).minutes = s \div 60 /\ FormOf(s).seconds = s % 60
           /\ 60 * (s \div 60) + (s % 60) = s /\ (s % 60) % 10 = 0
<1> DEFINE k == s \div 10  r == s % 60
<1>1. k \in Nat /\ s = 10 * k
  BY SMT
<1>2. r = 10 * (k % 6) /\ k % 6 \in Nat /\ k % 6 < 6
  BY <1>1, SMT
<1>3. r \in {0, 10, 20, 30, 40, 50}
  BY <1>2, SMT
<1>4. 60 * (s \div 60) + (s % 60) = s /\ (s % 60) % 10 = 0
  BY SMT
<1> QED BY <1>3, <1>4 DEF FormOf

\* What it takes is what Configure takes.
LEMMA FormTakes ==
    ASSUME NEW m \in Int, NEW s \in Int
    PROVE  /\ 0 <= m /\ s \in 0..59 /\ ConfigureTakes(60 * m + s) =>
                  ParseInterval(m, s) = [ok |-> TRUE, seconds |-> 60 * m + s]
           /\ ~(0 <= m /\ s \in 0..59 /\ ConfigureTakes(60 * m + s)) =>
                  ParseInterval(m, s) = Nothing
<1> DEFINE n == 60 * m + s
           bad == \/ m < 0 \/ m > 1440 \/ s \notin 0..59 \/ s % 10 # 0 \/ n < 10 \/ n > 86400
<1>1. ParseInterval(m, s) = IF bad THEN Nothing ELSE [ok |-> TRUE, seconds |-> n]
  BY DEF ParseInterval
<1>2. n % 10 = s % 10 /\ n \in Int
  BY SMT
<1>3. ASSUME 0 <= m /\ s \in 0..59 /\ ConfigureTakes(n) PROVE ~bad
  BY <1>2, <1>3, SMT DEF ConfigureTakes
<1>4. ASSUME ~bad PROVE 0 <= m /\ s \in 0..59 /\ ConfigureTakes(n)
  BY <1>2, <1>4, SMT DEF ConfigureTakes
<1> HIDE DEF n, bad
<1> QED BY <1>1, <1>3, <1>4, Zenon DEF n

LEMMA FormsFit ==
    /\ \A s \in Shown : s \in Nat /\ s % 10 = 0
    /\ Fields \subseteq Int
BY CodecAssumption, SMT

LEMMA PairOf ==
    ASSUME NEW S, NEW T, NEW p \in S \X T
    PROVE  p[1] \in S /\ p[2] \in T
OBVIOUS

LEMMA FormTyped ==
    ASSUME NEW i \in FormInputs, i.typed # <<>>
    PROVE  i.typed \in Fields \X Fields
<1> DEFINE pairs == Fields \X Fields
<1>1. i \in [kind: {"form"}, shown: Shown, typed: {<<>>}] \cup
           [kind: {"form"}, shown: {0}, typed: pairs]
  BY DEF FormInputs
<1> HIDE DEF pairs
<1>2. i.typed \in {<<>>} \/ i.typed \in pairs
  BY <1>1
<1> QED BY <1>2 DEF pairs

\* What a page shows is submitted as it is.
LEMMA FormSubmitted ==
    ASSUME NEW s \in Nat, s % 10 = 0
    PROVE  ParseInterval(FormOf(s).minutes, FormOf(s).seconds) =
               IF ConfigureTakes(s) THEN [ok |-> TRUE, seconds |-> s] ELSE Nothing
<1> DEFINE m == s \div 60  r == s % 60
<1>1. FormOf(s).minutes = m /\ FormOf(s).seconds = r /\ 60 * m + r = s
  BY FormShown
<1>2. m \in Int /\ 0 <= m /\ r \in Int /\ r \in 0..59
  BY SMT
<1> HIDE DEF m, r
<1>3. /\ 0 <= m /\ r \in 0..59 /\ ConfigureTakes(60 * m + r) =>
             ParseInterval(m, r) = [ok |-> TRUE, seconds |-> 60 * m + r]
      /\ ~(0 <= m /\ r \in 0..59 /\ ConfigureTakes(60 * m + r)) =>
             ParseInterval(m, r) = Nothing
  BY <1>2, FormTakes, Zenon
<1> QED BY <1>1, <1>2, <1>3, SMT

\* A form that is submitted as it was shown keeps the logger's interval, and
\* whatever is typed the form takes exactly the intervals that Configure takes.
THEOREM FormsAreKept == Spec => []FormKeepsInterval
<1>1. Outcome => FormKeepsInterval
  <2>1. SUFFICES ASSUME Outcome, Decoded("form") PROVE FormKeepsInterval
    BY DEF FormKeepsInterval
  <2>2. output = FormRead(input)
    BY <2>1, Zenon DEF Outcome, Decoded
  <2>3. input \in FormInputs
    BY <2>1, InputOfKind, Zenon DEF Outcome, Decoded
  <2>4. CASE input.typed = <<>>
    <3>1. input.shown \in Nat /\ input.shown % 10 = 0
      BY <2>3, FormsFit, SMT DEF FormInputs
    <3>2. output = ParseInterval(FormOf(input.shown).minutes, FormOf(input.shown).seconds)
      BY <2>2, <2>4, Zenon DEF FormRead
    <3>3. output = IF ConfigureTakes(input.shown)
                   THEN [ok |-> TRUE, seconds |-> input.shown] ELSE Nothing
      BY <3>1, <3>2, FormSubmitted
    <3> QED BY <2>4, <3>3, Zenon DEF FormKeepsInterval
  <2>5. CASE input.typed # <<>>
    <3> DEFINE m == input.typed[1]  s == input.typed[2]  n == 60 * m + s
    <3>1. m \in Int /\ s \in Int
      <4>1. input.typed \in Fields \X Fields
        BY <2>3, <2>5, FormTyped, Zenon
      <4>2. m \in Fields /\ s \in Fields
        BY <4>1, PairOf, Zenon
      <4> QED BY <4>2, FormsFit
    <3>2. output = ParseInterval(m, s)
      BY <2>2, <2>5, Zenon DEF FormRead
    <3> SUFFICES /\ output.ok => output.seconds = n /\ ConfigureTakes(output.seconds)
                 /\ ~output.ok => m < 0 \/ s \notin 0..59 \/ ~ConfigureTakes(n)
      BY <2>5 DEF FormKeepsInterval
    <3> HIDE DEF m, s
    <3>3. /\ 0 <= m /\ s \in 0..59 /\ ConfigureTakes(60 * m + s) =>
                 output = [ok |-> TRUE, seconds |-> 60 * m + s]
          /\ ~(0 <= m /\ s \in 0..59 /\ ConfigureTakes(60 * m + s)) => output = Nothing
      BY <3>1, <3>2, FormTakes, Zenon
    <3>4. CASE 0 <= m /\ s \in 0..59 /\ ConfigureTakes(n)
      <4>1. output.ok /\ output.seconds = n
        <5>1. output = [ok |-> TRUE, seconds |-> n]
          BY <3>3, <3>4, Zenon
        <5> HIDE DEF n
        <5> QED BY <5>1
      <4> HIDE DEF n
      <4>2. ConfigureTakes(output.seconds)
        BY <3>4, <4>1
      <4> QED BY <4>1, <4>2, Zenon
    <3>5. CASE ~(0 <= m /\ s \in 0..59 /\ ConfigureTakes(n))
      <4>1. ~output.ok
        <5>1. output = Nothing
          BY <3>3, <3>5, Zenon
        <5> QED BY <5>1, SMT DEF Nothing
      <4>2. m < 0 \/ s \notin 0..59 \/ ~ConfigureTakes(n)
        BY <3>1, <3>5
      <4> HIDE DEF n
      <4> QED BY <4>1, <4>2, Zenon
    <3> QED BY <3>4, <3>5
  <2> QED BY <2>4, <2>5
<1> QED BY <1>1, OutcomeHolds, PTL

-----------------------------------------------------------------------------
(* Counts *)

\* Four bytes of a number: two words of two bytes.
LEMMA TwoWords ==
    ASSUME NEW v \in Nat
    PROVE  /\ v \div 16777216 = (v \div 65536) \div 256
           /\ (v \div 256) % 256 = (v % 65536) \div 256 /\ v % 256 = (v % 65536) % 256
           /\ 65536 * (v \div 65536) + (v % 65536) = v
           /\ v \div 65536 \in Nat /\ v % 65536 \in Nat /\ v % 65536 < 65536
<1>1. v \div 65536 = (v \div 256) \div 256
  BY SMT
<1>2. v \div 16777216 = (v \div 65536) \div 256
  BY SMT
<1>3. 65536 * (v \div 65536) + (v % 65536) = v /\ v \div 65536 \in Nat /\ v % 65536 \in Nat /\ v % 65536 < 65536
  BY SMT
<1>4. (v \div 256) % 256 = (v % 65536) \div 256
  BY SMT
<1>5. v % 256 = (v % 65536) % 256
  BY SMT
<1> QED BY <1>1, <1>2, <1>3, <1>4, <1>5

\* Words of two bytes, and 0xFFFF for a blank one.
Sixteen(w) == w \in Nat /\ w < 65536
Double(h, l) == 65536 * h + l

LEMMA BlankWord ==
    ASSUME NEW w, Sixteen(w)
    PROVE  w \div 256 = 255 /\ w % 256 = 255 <=> w = NoReading
<1>1. 256 * (w \div 256) + (w % 256) = w
  BY BytesOfWord DEF Sixteen
<1>2. w = NoReading => w \div 256 = 255 /\ w % 256 = 255
  BY SMT DEF NoReading
<1>3. w \div 256 = 255 /\ w % 256 = 255 => w = NoReading
  BY <1>1, SMT DEF NoReading
<1> QED BY <1>2, <1>3

\* The numbers at the places of the block at 0x42.
Words(b, w, x, y, z) ==
    /\ b[1] = w \div 256 /\ b[2] = w % 256 /\ b[3] = x \div 256 /\ b[4] = x % 256
    /\ b[5] = y \div 256 /\ b[6] = y % 256 /\ b[7] = z \div 256 /\ b[8] = z % 256

LEMMA FivePairs ==
    ASSUME NEW w, NEW x, NEW y, NEW z, NEW p, NEW q
    PROVE  Words(WordBytes(w) \o WordBytes(x) \o WordBytes(y) \o WordBytes(z) \o <<p, q>>,
                 w, x, y, z)
BY SMT DEF Words, WordBytes

LEMMA WordsAsNumbers ==
    ASSUME NEW w, NEW x, NEW y, NEW z, Sixteen(w), Sixteen(x), Sixteen(y), Sixteen(z),
           NEW b, Words(b, w, x, y, z)
    PROVE  /\ Word(b, 3) = x /\ Word(b, 7) = z
           /\ Long(b, 1) = Double(w, x) /\ Long(b, 5) = Double(y, z)
<1>1. /\ 256 * (w \div 256) + (w % 256) = w /\ 256 * (x \div 256) + (x % 256) = x
      /\ 256 * (y \div 256) + (y % 256) = y /\ 256 * (z \div 256) + (z % 256) = z
  BY BytesOfWord, SMT DEF Sixteen
<1>2. Word(b, 1) = w /\ Word(b, 3) = x /\ Word(b, 5) = y /\ Word(b, 7) = z
  BY <1>1, SMT DEF Words, Word
<1> QED BY <1>2, SMT DEF Long, Double

LEMMA WordsAsBlanks ==
    ASSUME NEW w, NEW x, NEW y, NEW z, Sixteen(w), Sixteen(x), Sixteen(y), Sixteen(z),
           NEW b, Words(b, w, x, y, z)
    PROVE  /\ IsFF(b, 1, 2) <=> w = NoReading
           /\ IsFF(b, 1, 4) <=> w = NoReading /\ x = NoReading
           /\ IsFF(b, 5, 8) <=> y = NoReading /\ z = NoReading
           /\ IsFF(b, 7, 8) <=> z = NoReading
<1>1. /\ b[1] = 255 /\ b[2] = 255 <=> w = NoReading
      /\ b[3] = 255 /\ b[4] = 255 <=> x = NoReading
      /\ b[5] = 255 /\ b[6] = 255 <=> y = NoReading
      /\ b[7] = 255 /\ b[8] = 255 <=> z = NoReading
  BY BlankWord, SMT DEF Words
<1>2. /\ IsFF(b, 1, 2) <=> b[1] = 255 /\ b[2] = 255
      /\ IsFF(b, 1, 4) <=> b[1] = 255 /\ b[2] = 255 /\ b[3] = 255 /\ b[4] = 255
      /\ IsFF(b, 5, 8) <=> b[5] = 255 /\ b[6] = 255 /\ b[7] = 255 /\ b[8] = 255
      /\ IsFF(b, 7, 8) <=> b[7] = 255 /\ b[8] = 255
  BY SMT DEF IsFF
<1>3. /\ IsFF(b, 1, 2) <=> w = NoReading
      /\ IsFF(b, 7, 8) <=> z = NoReading
  BY <1>1, <1>2, Zenon
<1>4. IsFF(b, 1, 4) <=> w = NoReading /\ x = NoReading
  BY <1>1, <1>2, Zenon
<1>5. IsFF(b, 5, 8) <=> y = NoReading /\ z = NoReading
  BY <1>1, <1>2, Zenon
<1> QED BY <1>3, <1>4, <1>5, Zenon

\* The block is the words of the capacity and the count.
CapacityHigh(i) == IF i.stopped THEN NoReading ELSE i.capacity \div 65536
CountHigh(i) == IF i.protocol >= \h24 THEN i.count \div 65536 ELSE 0

LEMMA CountBlock ==
    ASSUME NEW i, i.capacity \in Nat, i.count \in Nat
    PROVE  Words(CountBytes(i), CapacityHigh(i), i.capacity % 65536,
                 CountHigh(i), i.count % 65536)
<1> DEFINE high(v) == <<v \div 16777216, (v \div 65536) % 256>>
           low(v) == <<(v \div 256) % 256, v % 256>>
           ends == IF i.stopped THEN <<255, 255>> ELSE high(i.capacity)
           wide == IF i.protocol >= \h24 THEN high(i.count) ELSE <<0, 0>>
           tail == IF i.stopped THEN <<255, 255>> ELSE <<0, 0>>
           p == IF i.stopped THEN 255 ELSE 0
<1>1. CountBytes(i) = ends \o low(i.capacity) \o wide \o low(i.count) \o tail
  BY DEF CountBytes
<1>2. <<255, 255>> = WordBytes(NoReading) /\ <<0, 0>> = WordBytes(0)
  BY SMT DEF WordBytes, NoReading
<1>3. ASSUME NEW v \in Nat
      PROVE  high(v) = WordBytes(v \div 65536) /\ low(v) = WordBytes(v % 65536)
  BY TwoWords, SMT DEF WordBytes
<1>4. ends = WordBytes(CapacityHigh(i))
  BY <1>2, <1>3 DEF CapacityHigh
<1>5. wide = WordBytes(CountHigh(i))
  BY <1>2, <1>3 DEF CountHigh
<1>6. low(i.capacity) = WordBytes(i.capacity % 65536) /\ low(i.count) = WordBytes(i.count % 65536)
  BY <1>3
<1>7. tail = <<p, p>>
  OBVIOUS
<1> DEFINE c == i.capacity % 65536  n == i.count % 65536  l == low(i.capacity)  m == low(i.count)
<1> HIDE DEF ends, wide, tail, p
<1>8. CountBytes(i) = ends \o l \o wide \o m \o tail /\ l = WordBytes(c) /\ m = WordBytes(n)
  BY <1>1, <1>6
<1> HIDE DEF c, n, l, m
<1>9. CountBytes(i) = WordBytes(CapacityHigh(i)) \o WordBytes(c)
                      \o WordBytes(CountHigh(i)) \o WordBytes(n) \o <<p, p>>
  BY <1>4, <1>5, <1>7, <1>8, Zenon
<1>10. Words(CountBytes(i), CapacityHigh(i), c, CountHigh(i), n)
  BY <1>9, FivePairs, Zenon
<1> QED BY <1>10 DEF c, n

\* A capacity and a count that fit, of a logger before 0x24 a count of two bytes.
CountFits(i) ==
    /\ i.capacity \in Nat /\ i.capacity < 2147483647 /\ i.count \in Nat /\ i.count <= i.capacity
    /\ i.protocol < \h24 => i.count < 65535
    /\ i.protocol \in Nat /\ i.stopped \in BOOLEAN

LEMMA HalfOfCount ==
    ASSUME NEW n \in Nat, n < 2147483647
    PROVE  /\ Sixteen(n \div 65536) /\ n \div 65536 # NoReading /\ Sixteen(n % 65536)
           /\ Double(n \div 65536, n % 65536) = n
           /\ n < 65535 => n % 65536 = n /\ n % 65536 # NoReading
BY TwoWords, SMT DEF Sixteen, NoReading, Double

\* What is read of the block, of its words.
CountRead(i, b) ==
    /\ output = DecodeCapacityCount(b, i.protocol)
    /\ output.ok => output.count = i.count
    /\ ~i.stopped \/ i.capacity < 65535 =>
           output = [ok |-> TRUE, capacity |-> i.capacity, count |-> i.count]

LEMMA CountDecoded ==
    ASSUME NEW i, CountFits(i), NEW b, b = CountBytes(i),
           output = DecodeCapacityCount(b, i.protocol)
    PROVE  CountRead(i, b)
<1> DEFINE w == CapacityHigh(i)  x == i.capacity % 65536
           y == CountHigh(i)  z == i.count % 65536
           blank == NoReading
           high == i.capacity \div 65536  over == i.count \div 65536
           wide == i.protocol >= \h24
           count == IF wide THEN Long(b, 5) ELSE Word(b, 7)
<1>1. /\ Sixteen(high) /\ high # blank /\ Sixteen(x) /\ Double(high, x) = i.capacity
      /\ i.capacity < 65535 => x = i.capacity /\ x # blank
  BY HalfOfCount, SMT DEF CountFits
<1>2. /\ Sixteen(over) /\ over # blank /\ Sixteen(z) /\ Double(over, z) = i.count
      /\ i.count < 65535 => z = i.count /\ z # blank
  BY HalfOfCount, SMT DEF CountFits
<1>3. Sixteen(blank) /\ Sixteen(0)
  BY SMT DEF Sixteen, NoReading
<1>4. /\ Sixteen(w) /\ (w = blank <=> i.stopped) /\ (~i.stopped => Double(w, x) = i.capacity)
      /\ Sixteen(y) /\ (wide => Double(y, z) = i.count /\ y # blank)
  <2>1. w = IF i.stopped THEN blank ELSE high
    BY DEF CapacityHigh
  <2>2. y = IF wide THEN over ELSE 0
    BY DEF CountHigh
  <2>3. Sixteen(high) /\ high # blank /\ Double(high, x) = i.capacity
    BY <1>1
  <2>4. Sixteen(over) /\ over # blank /\ Double(over, z) = i.count
    BY <1>2
  <2> HIDE DEF w, x, y, z, blank, wide, high, over
  <2> QED BY <1>3, <2>1, <2>2, <2>3, <2>4, Zenon
<1>5. ~wide => z = i.count /\ z # blank
  BY <1>2, SMT DEF CountFits
<1>6. i.count <= i.capacity /\ i.count \in Nat /\ i.capacity \in Nat
  BY DEF CountFits
<1>7. Words(b, w, x, y, z) /\ Sixteen(w) /\ Sixteen(x) /\ Sixteen(y) /\ Sixteen(z)
  <2>1. Words(b, w, x, y, z)
    BY CountBlock, SMT DEF CountFits
  <2> QED BY <1>1, <1>2, <1>4, <2>1
<1> HIDE DEF w, x, y, z
<1>8. /\ Word(b, 3) = x /\ Word(b, 7) = z
      /\ Long(b, 1) = Double(w, x) /\ Long(b, 5) = Double(y, z)
  BY <1>7, WordsAsNumbers, SMT
<1>9. /\ IsFF(b, 1, 2) <=> w = blank
      /\ IsFF(b, 1, 4) <=> w = blank /\ x = blank
      /\ IsFF(b, 5, 8) <=> y = blank /\ z = blank
      /\ IsFF(b, 7, 8) <=> z = blank
  BY <1>7, WordsAsBlanks, Zenon
<1> HIDE DEF blank, wide
<1>10. count = i.count
  BY <1>4, <1>5, <1>8
<1>11. Capacity(b) = IF i.stopped THEN x ELSE i.capacity
  BY <1>4, <1>8, <1>9, Zenon DEF Capacity
<1>12. output = IF \/ IsFF(b, 1, 4) \/ (wide /\ IsFF(b, 5, 8)) \/ (~wide /\ IsFF(b, 7, 8))
                   \/ count > Capacity(b)
                THEN Nothing ELSE [ok |-> TRUE, capacity |-> Capacity(b), count |-> count]
  BY DEF DecodeCapacityCount, wide
<1> HIDE DEF count
<1>13. output.ok => output.count = i.count
  <2>1. CASE output = Nothing
    BY <2>1 DEF Nothing
  <2>2. CASE output # Nothing
    <3>1. output = [ok |-> TRUE, capacity |-> Capacity(b), count |-> count]
      BY <1>12, <2>2, Zenon
    <3> QED BY <1>10, <3>1
  <2> QED BY <2>1, <2>2
<1>14. ASSUME ~i.stopped \/ i.capacity < 65535
       PROVE  output = [ok |-> TRUE, capacity |-> i.capacity, count |-> i.count]
  <2>1. Capacity(b) = i.capacity
    BY <1>1, <1>11, <1>14
  <2>2. ~(w = blank /\ x = blank)
    BY <1>1, <1>4, <1>14
  <2>3. ~(count > Capacity(b))
    BY <1>6, <1>10, <2>1
  <2>4. ~(wide /\ IsFF(b, 5, 8)) /\ ~(~wide /\ IsFF(b, 7, 8)) /\ ~IsFF(b, 1, 4)
    BY <1>4, <1>5, <1>9, <2>2, Zenon
  <2> QED BY <1>10, <1>12, <2>1, <2>3, <2>4, Zenon
<1> QED BY <1>13, <1>14 DEF CountRead

LEMMA CountsFit == \A i \in CountInputs : CountFits(i)
<1>1. \A n \in Counts : n \in Nat /\ n < 2147483647
  BY CodecAssumption, Ranges, SMT
<1>2. \A p \in Protocols : p \in Nat
  BY CodecAssumption, Ranges, SMT
<1> QED BY <1>1, <1>2, SMT DEF CountInputs, CountFits

\* A count that is read is the logger's, blanked bytes or not, on every protocol;
\* and it is read, with the capacity, unless blanking took part of it.
THEOREM CountsAreTrue == Spec => []CountTruthful
<1>1. Outcome => CountTruthful
  <2>1. SUFFICES ASSUME Outcome, Decoded("count") PROVE CountTruthful
    BY DEF CountTruthful
  <2>2. output = DecodeCapacityCount(CountBytes(input), input.protocol)
    BY <2>1, Zenon DEF Outcome, Decoded
  <2>3. input \in CountInputs
    BY <2>1, InputOfKind, Zenon DEF Outcome, Decoded
  <2>4. CountRead(input, CountBytes(input))
    BY <2>2, <2>3, CountsFit, CountDecoded, Zenon
  <2> QED BY <2>4, SMT DEF CountRead, CountTruthful
<1> QED BY <1>1, OutcomeHolds, PTL

-----------------------------------------------------------------------------
(* Records *)

\* The bits of a record, field by field.
LEMMA DateBits ==
    ASSUME NEW y \in Nat, y < 128, NEW m \in Nat, m < 16, NEW d \in Nat, d < 32,
           NEW w, w = y + 128 * m + 2048 * d
    PROVE  /\ (w % 256) % 128 = y /\ ((w % 256) \div 128) % 2 = m % 2
           /\ (w \div 256) % 8 = m \div 2 /\ ((w \div 256) \div 8) % 32 = d
<1> DEFINE v == m + 16 * d
<1>1. w = y + 128 * v /\ v \in Nat
  BY SMT
<1>2. w % 256 = y + 128 * (v % 2) /\ w \div 256 = v \div 2
  BY <1>1, SMT
<1>3. v % 2 = m % 2 /\ v \div 2 = (m \div 2) + 8 * d
  BY SMT
<1>4. m \div 2 \in Nat /\ m \div 2 < 8 /\ m % 2 \in {0, 1}
  BY SMT
<1> HIDE DEF v
<1>5. (w % 256) % 128 = y /\ ((w % 256) \div 128) % 2 = m % 2
  BY <1>2, <1>3, <1>4, SMT
<1>6. (w \div 256) % 8 = m \div 2 /\ ((w \div 256) \div 8) % 32 = d
  BY <1>2, <1>3, <1>4, SMT
<1> QED BY <1>5, <1>6

LEMMA HourLow ==
    ASSUME NEW h \in Nat, h < 32, NEW k \in Nat
    PROVE  ((h + 32 * k) % 256) % 32 = h
<1>1. (h + 32 * k) % 256 = h + 32 * (k % 8) /\ k % 8 \in Nat
  BY SMT
<1> QED BY <1>1, SMT

LEMMA HourHigh ==
    ASSUME NEW h \in Nat, h < 32, NEW k \in Nat
    PROVE  8 * ((h + 32 * k) \div 256) + ((((h + 32 * k) % 256) \div 32) % 8) = k
<1>1. (h + 32 * k) % 256 = h + 32 * (k % 8) /\ (h + 32 * k) \div 256 = k \div 8
  BY SMT
<1>2. k % 8 \in Nat /\ k % 8 < 8 /\ 8 * (k \div 8) + (k % 8) = k
  BY SMT
<1>3. ((h + 32 * (k % 8)) \div 32) % 8 = k % 8
  BY <1>2, SMT
<1> QED BY <1>1, <1>2, <1>3

LEMMA SecondBits ==
    ASSUME NEW k \in {0, 1}, NEW s \in Nat, s < 64
    PROVE  ((2 * k + 4 * s) \div 2) % 2 = k /\ ((2 * k + 4 * s) \div 4) % 64 = s
BY SMT

\* What a logger puts into a record of it, byte by byte.
DateWord(t) == (t.year - 2000) + 128 * t.month + 2048 * t.day
HourWord(t, v) == t.hour + 32 * (v % 2048)

Holding(b, t, v, flags) ==
    /\ b[1] = flags /\ b[2] = 2 * (v \div 2048) + 4 * t.second
    /\ b[3] = DateWord(t) % 256 /\ b[4] = DateWord(t) \div 256
    /\ b[5] = HourWord(t, v) % 256 /\ b[6] = HourWord(t, v) \div 256
    /\ b[7] = t.minute % 256 /\ b[8] = t.minute \div 256

LEMMA RecordHolds ==
    ASSUME NEW i
    PROVE  Holding(RecordBytes(i), i.time, i.temperature, i.flags)
<1> DEFINE t == i.time  v == i.temperature
           p == 2 * (v \div 2048) + 4 * t.second
           q == DateWord(t) % 256  r == DateWord(t) \div 256
           s == HourWord(t, v) % 256  u == HourWord(t, v) \div 256
           w == t.minute % 256  x == t.minute \div 256
           b == RecordBytes(i)
<1>1. b = <<i.flags, p>> \o <<q, r>> \o <<s, u>> \o <<w, x>>
  BY DEF RecordBytes, DateWord, HourWord
<1> HIDE DEF p, q, r, s, u, w, x, b
<1>2. /\ b[1] = i.flags /\ b[2] = p /\ b[3] = q /\ b[4] = r
      /\ b[5] = s /\ b[6] = u /\ b[7] = w /\ b[8] = x
  BY <1>1, SMT
<1> QED BY <1>2 DEF Holding, p, q, r, s, u, w, x, b

\* The temperature of a record is a magnitude.
TwelveBits(v) == v \in Nat /\ v < 4096

\* The date and time of a record.
RecordTime(b) ==
    [year |-> 2000 + Bits(b[3], 1, 128),
     month |-> 2 * Bits(b[4], 1, 8) + Bits(b[3], 128, 2),
     day |-> Bits(b[4], 8, 32), hour |-> Bits(b[5], 1, 32),
     minute |-> Bits(b[7], 1, 64), second |-> Bits(b[2], 4, 64)]

LEMMA LowBits == \A n, size \in Nat : Bits(n, 1, size) = n % size
BY SMT DEF Bits

LEMMA RecordTimeRead ==
    ASSUME NEW b, NEW t, Clock(t), NEW v, TwelveBits(v), NEW flags, Holding(b, t, v, flags)
    PROVE  RecordTime(b) = t /\ ~IsFF(b, 1, 8)
<1>1. /\ t.year \in Nat /\ 2000 <= t.year /\ t.year < 2128
      /\ t.month \in Nat /\ t.month < 16 /\ t.day \in Nat /\ t.day < 32
      /\ t.hour \in Nat /\ t.hour < 32 /\ t.minute \in Nat /\ t.minute < 64
      /\ t.second \in Nat /\ t.second < 64
  BY ClockFacts
<1>2. v \in Nat /\ v \div 2048 \in {0, 1} /\ v % 2048 \in Nat /\ v % 2048 < 2048
  BY SMT DEF TwelveBits
<1>3. /\ b[3] = DateWord(t) % 256 /\ b[4] = DateWord(t) \div 256 /\ b[5] = HourWord(t, v) % 256
      /\ b[2] = 2 * (v \div 2048) + 4 * t.second /\ b[7] = t.minute % 256
      /\ b[8] = t.minute \div 256
  BY DEF Holding
<1>4. DateWord(t) \in Nat /\ HourWord(t, v) \in Nat
  BY <1>1, <1>2, SMT DEF DateWord, HourWord
<1>5. /\ b[3] \in Nat /\ b[4] \in Nat /\ b[5] \in Nat /\ b[2] \in Nat /\ b[7] \in Nat
  BY <1>1, <1>2, <1>3, <1>4, SMT
<1>6. /\ b[3] % 128 = t.year - 2000 /\ (b[3] \div 128) % 2 = t.month % 2
      /\ b[4] % 8 = t.month \div 2 /\ (b[4] \div 8) % 32 = t.day
  <2> DEFINE y == t.year - 2000
  <2>1. y \in Nat /\ y < 128
    BY <1>1, SMT
  <2>2. DateWord(t) = y + 128 * t.month + 2048 * t.day
    BY DEF DateWord
  <2> HIDE DEF y
  <2>3. /\ b[3] % 128 = y /\ (b[3] \div 128) % 2 = t.month % 2
        /\ b[4] % 8 = t.month \div 2 /\ (b[4] \div 8) % 32 = t.day
    BY <1>1, <1>3, <2>1, <2>2, DateBits, SMT
  <2> QED BY <2>3 DEF y
<1>7. b[5] % 32 = t.hour
  <2> DEFINE k == v % 2048
  <2>1. k \in Nat /\ t.hour \in Nat /\ t.hour < 32
    BY <1>1, <1>2
  <2>2. b[5] = (t.hour + 32 * k) % 256
    BY <1>3 DEF HourWord
  <2> HIDE DEF k
  <2> QED BY <2>1, <2>2, HourLow
<1>8. (b[2] \div 4) % 64 = t.second
  BY <1>1, <1>2, <1>3, SecondBits, SMT
<1>9. b[7] % 64 = t.minute /\ b[8] # 255
  BY <1>1, <1>3, SMT
<1>10. 2000 + Bits(b[3], 1, 128) = t.year
  <2>1. Bits(b[3], 1, 128) = b[3] % 128
    BY <1>5, LowBits
  <2>2. 2000 + (t.year - 2000) = t.year
    BY <1>1, SMT
  <2> QED BY <1>6, <2>1, <2>2
<1>11. 2 * Bits(b[4], 1, 8) + Bits(b[3], 128, 2) = t.month
  <2>1. Bits(b[4], 1, 8) = t.month \div 2 /\ Bits(b[3], 128, 2) = t.month % 2
    <3>1. Bits(b[4], 1, 8) = b[4] % 8
      BY <1>5, LowBits
    <3> QED BY <1>6, <3>1, SMT DEF Bits
  <2> QED BY <1>1, <2>1, SMT
<1>12. /\ Bits(b[4], 8, 32) = t.day /\ Bits(b[5], 1, 32) = t.hour
       /\ Bits(b[7], 1, 64) = t.minute /\ Bits(b[2], 4, 64) = t.second
  <2>1. Bits(b[5], 1, 32) = b[5] % 32 /\ Bits(b[7], 1, 64) = b[7] % 64
    BY <1>5, LowBits
  <2> QED BY <1>6, <1>7, <1>8, <1>9, <2>1, SMT DEF Bits
<1>13. RecordTime(b) = [year |-> t.year, month |-> t.month, day |-> t.day,
                        hour |-> t.hour, minute |-> t.minute, second |-> t.second]
  BY <1>10, <1>11, <1>12, SMT DEF RecordTime
<1>14. t = [year |-> t.year, month |-> t.month, day |-> t.day,
            hour |-> t.hour, minute |-> t.minute, second |-> t.second]
  BY DEF Clock
<1>15. ~IsFF(b, 1, 8)
  BY <1>9, SMT DEF IsFF
<1> QED BY <1>13, <1>14, <1>15, Zenon

\* Its temperature: the second byte has the twelfth bit, of which protocols
\* before 0x23 know nothing.
HasRoom(p, v) == p < \h23 => v < 2048

LEMMA RecordTemperatureRead ==
    ASSUME NEW b, NEW t, Clock(t), NEW v, TwelveBits(v), NEW flags, Holding(b, t, v, flags),
           NEW p \in Nat, HasRoom(p, v)
    PROVE  RecordTemperature(b, p) = IF Bit(flags, 8) THEN -v ELSE v
<1> DEFINE k == v % 2048  top == v \div 2048
           raw == 8 * b[6] + Bits(b[5], 32, 8)
                  + (IF p >= \h23 THEN 2048 * Bits(b[2], 2, 2) ELSE 0)
<1>1. /\ v \in Nat /\ top \in {0, 1} /\ k \in Nat /\ k < 2048 /\ v = 2048 * top + k
      /\ p < \h23 => v = k
  BY SMT DEF TwelveBits, HasRoom
<1>2. t.hour \in Nat /\ t.hour < 32 /\ t.second \in Nat /\ t.second < 64
  BY ClockFacts
<1>3. /\ b[5] = (t.hour + 32 * k) % 256 /\ b[6] = (t.hour + 32 * k) \div 256
      /\ b[2] = 2 * top + 4 * t.second /\ b[1] = flags
  BY DEF Holding, HourWord
<1> HIDE DEF k, top
<1>4. 8 * b[6] + ((b[5] \div 32) % 8) = k
  <2>1. 8 * ((t.hour + 32 * k) \div 256) + ((((t.hour + 32 * k) % 256) \div 32) % 8) = k
    <3>1. k \in Nat
      BY <1>1
    <3> QED BY <1>2, <3>1, HourHigh
  <2> QED BY <1>3, <2>1
<1>5. (b[2] \div 2) % 2 = top
  <2>1. ((2 * top + 4 * t.second) \div 2) % 2 = top
    BY <1>1, <1>2, SecondBits
  <2> QED BY <1>3, <2>1
<1>6. raw = v
  <2>1. raw = k + (IF p >= \h23 THEN 2048 * top ELSE 0)
    BY <1>4, <1>5, SMT DEF Bits
  <2> QED BY <1>1, <2>1
<1>7. RecordTemperature(b, p) = IF Bit(b[1], 8) THEN -raw ELSE raw
  BY DEF RecordTemperature
<1> HIDE DEF raw
<1> QED BY <1>3, <1>6, <1>7

\* What a record is read as.
RecordRead(b, t, v, flags, p) ==
    LET status == RecordStatus(flags, p)
    IN  DecodeRecord(b, p) =
            IF Real(t)
            THEN [ok |-> TRUE, time |-> t, status |-> status,
                  temperature |-> IF status # "measurement" THEN 0
                                  ELSE IF Bit(flags, 8) THEN -v ELSE v,
                  humidity |-> Nothing, events |-> {bit \in {1, 16, 32} : Bit(b[1], bit)}]
            ELSE Nothing

LEMMA RecordDecoded ==
    ASSUME NEW b, NEW t, Clock(t), NEW v, TwelveBits(v), NEW flags, Holding(b, t, v, flags),
           NEW p \in Nat, HasRoom(p, v)
    PROVE  RecordRead(b, t, v, flags, p)
<1> DEFINE status == RecordStatus(b[1], p)
           temperature == RecordTemperature(b, p)
           u == RecordTime(b)
           events == {bit \in {1, 16, 32} : Bit(b[1], bit)}
<1>1. u = t /\ ~IsFF(b, 1, 8)
  BY RecordTimeRead
<1>2. temperature = IF Bit(flags, 8) THEN -v ELSE v
  BY RecordTemperatureRead
<1>3. b[1] = flags
  BY DEF Holding
<1>4. Real(t) <=> OnCalendar(t) /\ OnClock(t)
  BY RealOnCalendar
<1>5. DecodeRecord(b, p) =
          IF IsFF(b, 1, 8) \/ ~OnCalendar(u) \/ ~OnClock(u) THEN Nothing
          ELSE [ok |-> TRUE, time |-> u, status |-> status,
                temperature |-> IF status = "measurement" THEN temperature ELSE 0,
                humidity |-> Nothing, events |-> events]
  BY DEF DecodeRecord, RecordTime
<1> HIDE DEF u, temperature, events
<1> DEFINE value == IF status = "measurement" THEN temperature ELSE 0
<1>6. value = IF RecordStatus(flags, p) # "measurement" THEN 0
              ELSE IF Bit(flags, 8) THEN -v ELSE v
  BY <1>2, <1>3
<1> HIDE DEF value, status
<1>7. CASE Real(t)
  <2>1. DecodeRecord(b, p) =
            [ok |-> TRUE, time |-> t, status |-> status,
             temperature |-> value, humidity |-> Nothing, events |-> events]
    BY <1>1, <1>4, <1>5, <1>7 DEF value
  <2>2. status = RecordStatus(flags, p)
    BY <1>3 DEF status
  <2> QED BY <1>7, <1>6, <2>1, <2>2 DEF RecordRead, events
<1>8. CASE ~Real(t)
  <2>1. DecodeRecord(b, p) = Nothing
    BY <1>1, <1>4, <1>5, <1>8
  <2> QED BY <1>8, <2>1 DEF RecordRead
<1> QED BY <1>7, <1>8

LEMMA RecordsFit ==
    ASSUME NEW i \in RecordInputs
    PROVE  /\ Clock(i.time) /\ TwelveBits(i.temperature) /\ i.protocol \in Nat
           /\ HasRoom(i.protocol, i.temperature)
<1>1. /\ \A v \in Temperatures : TwelveBits(v)
      /\ \A p \in Protocols : p \in Nat
  BY CodecAssumption, Ranges, SMT DEF TwelveBits
<1> QED BY <1>1, MomentsFit, SMT DEF RecordInputs, HasRoom

\* A stored record comes back with its time, temperature and sign, on every
\* protocol, if and only if its date and time exist, for every record that the
\* bits can hold; with its events, and with the first of a pause, a stop and an
\* error that is flagged, which carries no temperature.
THEOREM RecordsAreDecoded == Spec => []RecordsDecoded
<1>1. Outcome => RecordsDecoded
  <2>1. SUFFICES ASSUME Outcome, Decoded("record") PROVE RecordsDecoded
    BY DEF RecordsDecoded
  <2> DEFINE b == RecordBytes(input)  t == input.time  v == input.temperature
             f == input.flags  status == RecordStatus(f, input.protocol)
             value == IF status # "measurement" THEN 0 ELSE IF Bit(f, 8) THEN -v ELSE v
             events == {bit \in {1, 16, 32} : Bit(b[1], bit)}
             flagged(unit) == (f \div unit) % 2 = 1
  <2>2. output = DecodeRecord(b, input.protocol)
    BY <2>1, Zenon DEF Outcome, Decoded
  <2>3. input \in RecordInputs
    BY <2>1, InputOfKind, Zenon DEF Outcome, Decoded
  <2>4. RecordRead(b, t, v, f, input.protocol)
    <3>1. /\ Clock(t) /\ TwelveBits(v) /\ input.protocol \in Nat
          /\ HasRoom(input.protocol, v)
      BY <2>3, RecordsFit
    <3>2. Holding(b, t, v, f)
      BY RecordHolds
    <3> HIDE DEF b, t, v, f
    <3> QED BY <3>1, <3>2, RecordDecoded
  <2>flags. b[1] = f
    BY RecordHolds DEF Holding
  <2>5. output = IF Real(t) THEN [ok |-> TRUE, time |-> t, status |-> status,
                                  temperature |-> value, humidity |-> Nothing,
                                  events |-> events]
                 ELSE Nothing
    BY <2>2, <2>4, Zenon DEF RecordRead
  <2>bits. \A unit : Bit(f, unit) <=> flagged(unit)
    BY DEF Bit, Bits
  <2> HIDE DEF f, flagged
  <2>6. /\ status = (IF flagged(2) THEN "pause" ELSE IF flagged(4) THEN "stop"
                     ELSE IF flagged(128) /\ input.protocol < \h35 THEN "error"
                     ELSE "measurement")
        /\ events = {unit \in {1, 16, 32} : flagged(unit)}
        /\ value = IF status # "measurement" THEN 0 ELSE IF flagged(8) THEN -v ELSE v
    <3>1. status = (IF flagged(2) THEN "pause" ELSE IF flagged(4) THEN "stop"
                    ELSE IF flagged(128) /\ input.protocol < \h35 THEN "error"
                    ELSE "measurement")
      BY <2>bits, Zenon DEF RecordStatus
    <3>2. events = {unit \in {1, 16, 32} : flagged(unit)}
      BY <2>bits, <2>flags, Zenon
    <3>3. value = IF status # "measurement" THEN 0 ELSE IF flagged(8) THEN -v ELSE v
      BY <2>bits, Zenon
    <3> QED BY <3>1, <3>2, <3>3
  <2> HIDE DEF value, events, status
  <2>7. CASE Real(t)
    <3>1. /\ output.ok /\ output.time = t /\ output.status = status
          /\ output.temperature = value /\ output.events = events
      BY <2>5, <2>7
    <3> QED BY <2>6, <2>7, <3>1, Zenon DEF RecordsDecoded, flagged, f
  <2>8. CASE ~Real(t)
    <3>1. ~output.ok
      BY <2>5, <2>8 DEF Nothing
    <3> QED BY <2>8, <3>1 DEF RecordsDecoded
  <2> QED BY <2>7, <2>8
<1> QED BY <1>1, OutcomeHolds, PTL

-----------------------------------------------------------------------------
(* Reports *)

LEMMA FramesSendable ==
    ASSUME NEW f \in Frames
    PROVE  Sendable(f)
<1>1. Sent(f)
  BY CodecAssumption, SMT
<1>2. /\ f.op \in Below(65536) /\ f.off \in Below(16777216) /\ f.n \in Below(256)
      /\ f.data \in Seq(Below(256)) /\ Len(f.data) <= MaxData
      /\ f = [op |-> f.op, off |-> f.off, n |-> f.n, data |-> f.data]
  BY <1>1, SMT DEF Sent
<1>3. f.data \in Seq(Int) /\ \A k \in 1..Len(f.data) : Byte(f.data[k])
  <2>1. \A x \in Below(256) : x \in Int /\ Byte(x)
    BY Ranges, SMT DEF Byte
  <2>2. f.data \in Seq(Below(256))
    BY <1>2
  <2>3. \A k \in 1..Len(f.data) : f.data[k] \in Below(256)
    BY <2>2
  <2>4. f.data \in Seq(Int)
    BY <2>1, <2>2, <2>3
  <2> QED BY <2>1, <2>3, <2>4, Zenon
<1>4. f.op \in Nat /\ f.op < 65536
  BY <1>2, Ranges, SMT
<1>5. f.off \in Nat /\ f.off < 16777216
  BY <1>2, Ranges, SMT
<1>6. Byte(f.n)
  BY <1>2, Ranges, SMT DEF Byte
<1> QED BY <1>2, <1>3, <1>4, <1>5, <1>6, SMT DEF Sendable

\* An undamaged report is read as it was sent, of every operation, offset and
\* data that a report can hold; and a report with one damaged byte other than
\* the length is refused or, where the byte is padding, read as it was sent.
THEOREM FramesAreTrusted == Spec => []FramesTrusted
<1>1. Outcome => FramesTrusted
  <2> DEFINE f == input.frame  length == 12 + Len(f.data)  sent == EncodeFrame(f)
             whole == output.ok /\ f = [op |-> output.op, off |-> output.off,
                                        n |-> output.n, data |-> output.data]
  <2>1. SUFFICES ASSUME Outcome, Decoded("frame"), input.at # 4
                 PROVE  (~output.ok /\ input.at # 0) \/ whole
    BY DEF FramesTrusted
  <2>2. input \in FrameInputs /\ output = DecodeFrame(Received(input))
    BY <2>1, InputOfKind, Zenon DEF Outcome, Decoded
  <2>3. f \in Frames /\ (input.at = 0 \/ (input.at \in 1..ReportSize /\ Byte(input.byte)))
    <3>1. \A x \in Noise : Byte(x)
      BY CodecAssumption, Ranges, SMT DEF Byte
    <3>2. \/ input \in [kind: {"frame"}, frame: Frames, at: {0}, byte: {0}]
          \/ input \in [kind: {"frame"}, frame: Frames, at: 1..ReportSize, byte: Noise]
      BY <2>2, Zenon DEF FrameInputs
    <3>3. CASE input \in [kind: {"frame"}, frame: Frames, at: {0}, byte: {0}]
      <4>1. f \in Frames /\ input.at \in {0}
        BY <3>3, Zenon
      <4> QED BY <4>1, SMT
    <3>4. CASE input \in [kind: {"frame"}, frame: Frames, at: 1..ReportSize, byte: Noise]
      <4>1. f \in Frames /\ input.at \in 1..ReportSize /\ input.byte \in Noise
        BY <3>4, Zenon
      <4> QED BY <3>1, <4>1, Zenon
    <3> QED BY <3>2, <3>3, <3>4, Zenon
  <2>4. Sendable(f)
    BY <2>3, FramesSendable
  <2>5. Layout(sent, f, length)
    BY <2>4, EncodedBytes, Zenon
  <2>6. f = [op |-> f.op, off |-> f.off, n |-> f.n, data |-> f.data]
    BY <2>4 DEF Sendable
  <2> HIDE DEF f, sent
  <2>7. ASSUME NEW report, Layout(report, f, length), output = DecodeFrame(report)
        PROVE  whole
    <3>1. output = [ok |-> TRUE, op |-> f.op, off |-> f.off, n |-> f.n, data |-> f.data]
      BY <2>4, <2>7, LayoutRead, Zenon
    <3> HIDE DEF length
    <3> QED BY <2>6, <3>1
  <2>8. CASE input.at = 0
    <3>1. Received(input) = sent
      BY <2>8 DEF Received, f, sent
    <3> QED BY <2>2, <2>5, <2>7, <3>1
  <2>9. CASE input.at # 0
    <3> DEFINE at == input.at  report == [sent EXCEPT ![at] = input.byte]
    <3>1. Received(input) = report
      BY <2>9 DEF Received, f, sent
    <3>2. at \in 1..ReportSize /\ Byte(input.byte) /\ input.byte \in Int /\ at # 4
      BY <2>1, <2>3, <2>9 DEF Byte
    <3>3. CASE at > length
      <4>1. Layout(report, f, length)
        BY <2>4, <2>5, <3>2, <3>3, PaddingIgnored, Zenon
      <4> QED BY <2>2, <2>7, <3>1, <4>1
    <3>4. CASE at <= length /\ input.byte # sent[at]
      <4>1. ~WellFormed(report)
        BY <2>4, <2>5, <3>2, <3>4, DamageSeen, Zenon
      <4>2. DecodeFrame(report) = [ok |-> FALSE]
        <5> HIDE DEF report
        <5> QED BY <4>1, SMT DEF DecodeFrame
      <4> QED BY <2>2, <2>9, <3>1, <4>2
    <3>5. CASE input.byte = sent[at]
      <4>1. sent \in [1..ReportSize -> Int]
        BY <2>5 DEF Layout
      <4>2. report = sent
        BY <3>2, <3>5, <4>1
      <4> QED BY <2>2, <2>5, <2>7, <3>1, <4>2
    <3>6. at \in Int /\ length \in Int
      BY <2>5, <3>2 DEF Layout
    <3> QED BY <3>3, <3>4, <3>5, <3>6
  <2> QED BY <2>8, <2>9
<1> QED BY <1>1, OutcomeHolds, PTL

-----------------------------------------------------------------------------
(* The status space *)

\* A value of the status space, or none.
Reading(v) == v = NoReading \/ (v \in Int /\ -32767 < v /\ v < 32767)
StatusWord(v) == Signed(v, 32768)
ReadExtreme(w) == IF w = NoReading THEN 0 ELSE IF w >= 32768 THEN 32768 - w ELSE w
Known(v) == IF v = NoReading THEN 0 ELSE v

LEMMA ExtremeRead ==
    ASSUME NEW v, Reading(v)
    PROVE  StatusWord(v) \in Nat /\ ReadExtreme(StatusWord(v)) = Known(v)
<1>1. CASE v = NoReading
  BY <1>1, SMT DEF StatusWord, Signed, ReadExtreme, Known, NoReading
<1>2. CASE v # NoReading /\ v < 0
  BY <1>2, SMT DEF StatusWord, Signed, ReadExtreme, Known, NoReading, Reading
<1>3. CASE v # NoReading /\ v >= 0
  BY <1>3, SMT DEF StatusWord, Signed, ReadExtreme, Known, NoReading, Reading
<1> QED BY <1>1, <1>2, <1>3, SMT DEF Reading, NoReading

LEMMA ExtremeOfWord ==
    ASSUME NEW b, NEW k
    PROVE  Extreme(b, k) = ReadExtreme(Word(b, k))
<1>1. CASE Word(b, k) = NoReading
  BY <1>1, SMT DEF Extreme, DecodeTenths, ReadExtreme, NoReading, Nothing
<1>2. CASE Word(b, k) # NoReading
  BY <1>2, SMT DEF Extreme, DecodeTenths, ReadExtreme, NoReading, Nothing
<1> QED BY <1>1, <1>2

\* Two bytes that hold a value are read as it.
LEMMA ExtremeKnown ==
    ASSUME NEW v, Reading(v), NEW b, NEW k \in Int,
           b[k] = TenthsBytes(v, 32768)[1], b[k + 1] = TenthsBytes(v, 32768)[2]
    PROVE  Extreme(b, k) = Known(v)
<1> DEFINE w == StatusWord(v)
<1>1. w \in Nat
  BY ExtremeRead
<1>2. TenthsBytes(v, 32768) = <<w \div 256, w % 256>>
  BY SMT DEF TenthsBytes, StatusWord, Signed
<1> HIDE DEF w
<1>3. b[k] = w \div 256 /\ b[k + 1] = w % 256
  BY <1>2, SMT
<1>4. Word(b, k) = w
  BY <1>1, <1>3, BytesOfWord, SMT DEF Word
<1>5. ReadExtreme(w) = Known(v)
  BY ExtremeRead DEF w
<1> QED BY <1>4, <1>5, ExtremeOfWord

\* Where the values of the status space are.
Spaced(space, i) ==
    /\ space[0] = i.recording
    /\ \A k \in 1..7 : space[7 + k] = DateBytes(i.past.start)[k]
    /\ space[\h8A] = i.count % 256 /\ space[\h8B] = i.count \div 256
    /\ \A k \in 1..2 :
        /\ space[\h8F + k] = TenthsBytes(i.extremes[1], 32768)[k]
        /\ space[\h97 + k] = TenthsBytes(i.extremes[2], 32768)[k]
        /\ space[\hAF + k] = TenthsBytes(i.extremes[3], 32768)[k]
        /\ space[\hB7 + k] = TenthsBytes(i.extremes[4], 32768)[k]

LEMMA StatusSpaced ==
    ASSUME NEW i
    PROVE  Spaced(StatusSpace(i), i)
<1> DEFINE start == DateBytes(i.past.start)
           low == i.count % 256  high == i.count \div 256
           x1 == TenthsBytes(i.extremes[1], 32768)  x2 == TenthsBytes(i.extremes[2], 32768)
           x3 == TenthsBytes(i.extremes[3], 32768)  x4 == TenthsBytes(i.extremes[4], 32768)
           space == StatusSpace(i)
<1>1. space = [o \in 0..\hBF |->
                  CASE o = 0 -> i.recording
                    [] o \in 8..14 -> start[o - 7]
                    [] o = \h8A -> low
                    [] o = \h8B -> high
                    [] o \in \h90..\h91 -> x1[o - \h8F]
                    [] o \in \h98..\h99 -> x2[o - \h97]
                    [] o \in \hB0..\hB1 -> x3[o - \hAF]
                    [] o \in \hB8..\hB9 -> x4[o - \hB7]
                    [] OTHER -> 204]
  BY DEF StatusSpace
<1> HIDE DEF start, low, high, x1, x2, x3, x4, space
<1>2. space[0] = i.recording
  BY <1>1, SMT
<1>3. ASSUME NEW k \in 1..7 PROVE space[7 + k] = start[k]
  <2>1. 7 + k \in 8..14 /\ (7 + k) - 7 = k /\ 7 + k # 0
    BY SMT
  <2> QED BY <1>1, <2>1, SMT
<1>4. space[\h8A] = low /\ space[\h8B] = high
  BY <1>1, SMT
<1>5. space[\h90] = x1[1] /\ space[\h91] = x1[2]
  BY <1>1, SMT
<1>6. space[\h98] = x2[1] /\ space[\h99] = x2[2]
  BY <1>1, SMT
<1>7. space[\hB0] = x3[1] /\ space[\hB1] = x3[2]
  BY <1>1, SMT
<1>8. space[\hB8] = x4[1] /\ space[\hB9] = x4[2]
  BY <1>1, SMT
<1>9. ASSUME NEW k \in 1..2
      PROVE  /\ space[\h8F + k] = x1[k] /\ space[\h97 + k] = x2[k]
             /\ space[\hAF + k] = x3[k] /\ space[\hB7 + k] = x4[k]
  <2>1. CASE k = 1
    BY <1>5, <1>6, <1>7, <1>8, <2>1, SMT
  <2>2. CASE k = 2
    BY <1>5, <1>6, <1>7, <1>8, <2>2, SMT
  <2> QED BY <2>1, <2>2
<1>10. \A k \in 1..2 :
          /\ space[\h8F + k] = TenthsBytes(i.extremes[1], 32768)[k]
          /\ space[\h97 + k] = TenthsBytes(i.extremes[2], 32768)[k]
          /\ space[\hAF + k] = TenthsBytes(i.extremes[3], 32768)[k]
          /\ space[\hB7 + k] = TenthsBytes(i.extremes[4], 32768)[k]
  BY <1>9 DEF x1, x2, x3, x4
<1>11. \A k \in 1..7 : space[7 + k] = DateBytes(i.past.start)[k]
  BY <1>3 DEF start
<1>12. space[\h8A] = i.count % 256 /\ space[\h8B] = i.count \div 256
  BY <1>4 DEF low, high
<1>13. Spaced(space, i)
  BY <1>2, <1>10, <1>11, <1>12, SMT DEF Spaced
<1> QED BY <1>13 DEF space

\* Where the two reads of the status space have its bytes.
StatusHead(space) == ReadOp5(space, 0, \h20)
StatusTail(space) == ReadOp5(space, \h80, \h30) \o ReadOp5(space, \hB0, \h10)

LEMMA ReadsJoined ==
    ASSUME NEW space, NEW off \in Nat, NEW n \in Nat, NEW m \in Nat
    PROVE  \A k \in 1..n + m :
               (ReadOp5(space, off, n) \o ReadOp5(space, off + n, m))[k] = space[off + k - 1]
<1> DEFINE S == {space[o] : o \in Nat}
           a == ReadOp5(space, off, n)  b == ReadOp5(space, off + n, m)
<1>1. a = [k \in 1..n |-> space[off + k - 1]] /\ b = [k \in 1..m |-> space[off + n + k - 1]]
  BY SMT DEF ReadOp5
<1>2. a \in Seq(S) /\ b \in Seq(S) /\ Len(a) = n /\ Len(b) = m
  <2>1. \A k \in 1..n : off + k - 1 \in Nat
    OBVIOUS
  <2>2. \A k \in 1..m : off + n + k - 1 \in Nat
    OBVIOUS
  <2>3. a \in [1..n -> S] /\ b \in [1..m -> S]
    BY <1>1, <2>1, <2>2
  <2> HIDE DEF S, a, b
  <2> QED BY <2>3
<1> HIDE DEF S, a, b
<1>3. ASSUME NEW k \in 1..n + m PROVE (a \o b)[k] = space[off + k - 1]
  <2>1. CASE k <= n
    BY <1>1, <1>2, <2>1
  <2>2. CASE k > n
    <3>1. k - n \in 1..m /\ off + n + (k - n) - 1 = off + k - 1 /\ k \in Nat
      BY <2>2
    <3>2. (a \o b)[k] = b[k - n]
      BY <1>2, <2>2, <3>1
    <3> QED BY <1>1, <3>1, <3>2
  <2>3. k <= n \/ k > n
    OBVIOUS
  <2> QED BY <2>1, <2>2, <2>3, Zenon
<1> QED BY <1>3 DEF a, b

LEMMA BytesRead ==
    ASSUME NEW space
    PROVE  /\ \A k \in 1..32 : StatusHead(space)[k] = space[k - 1]
           /\ \A k \in 1..64 : StatusTail(space)[k] = space[127 + k]
<1> DEFINE off == 128  n == 48  m == 16
<1>1. \A k \in 1..n + m :
          (ReadOp5(space, off, n) \o ReadOp5(space, off + n, m))[k] = space[off + k - 1]
  <2>1. off \in Nat /\ n \in Nat /\ m \in Nat
    OBVIOUS
  <2> HIDE DEF off, n, m
  <2> QED BY <2>1, ReadsJoined, Zenon
<1>2. StatusTail(space) = ReadOp5(space, 128, 48) \o ReadOp5(space, 128 + 48, 16)
  <2>1. 128 + 48 = \hB0
    OBVIOUS
  <2>2. StatusTail(space) = ReadOp5(space, \h80, \h30) \o ReadOp5(space, \hB0, \h10)
    BY DEF StatusTail
  <2> QED BY <2>1, <2>2, SMT
<1>3. ASSUME NEW k \in 1..64 PROVE StatusTail(space)[k] = space[127 + k]
  <2>1. k \in 1..48 + 16 /\ 128 + k - 1 = 127 + k
    OBVIOUS
  <2> QED BY <1>1, <1>2, <2>1, ZenonT(60)
<1>4. ASSUME NEW k \in 1..32 PROVE StatusHead(space)[k] = space[k - 1]
  <2>1. StatusHead(space) = [j \in 1..\h20 |-> space[0 + j - 1]]
    BY DEF StatusHead, ReadOp5
  <2>2. 0 + k - 1 = k - 1
    OBVIOUS
  <2> QED BY <2>1, <2>2, Zenon
<1> QED BY <1>3, <1>4

\* A date and time is read back, and so are the zeros of none.
LEMMA DateBytesRead ==
    ASSUME NEW d, Dated(d)
    PROVE  DateBytes(d) \in Seq(Int) /\ Len(DateBytes(d)) = 7
           /\ DecodeDateTime(DateBytes(d)) = d
<1>1. CASE d = Nothing
  <2>1. DateBytes(d) = [k \in 1..7 |-> 0]
    BY <1>1 DEF DateBytes, Nothing
  <2>2. DecodeDateTime([k \in 1..7 |-> 0]) = Nothing
    BY DEF DecodeDateTime
  <2> QED BY <1>1, <2>1, <2>2
<1>2. CASE d # Nothing
  <2>1. d = [ok |-> TRUE, time |-> d.time] /\ Clock(d.time) /\ Real(d.time)
    BY <1>2 DEF Dated
  <2>2. DateBytes(d) = EncodeDateTime(d.time, 0)
    <3>1. d.ok
      BY <2>1
    <3> QED BY <3>1 DEF DateBytes
  <2>3. EncodeDateTime(d.time, 0) \in Seq(Int) /\ Len(EncodeDateTime(d.time, 0)) = 7
    BY <2>1, ClockFacts, SMT DEF EncodeDateTime
  <2>4. DecodeDateTime(EncodeDateTime(d.time, 0)) = [ok |-> TRUE, time |-> d.time]
    BY <2>1, DateRead
  <2> QED BY <2>1, <2>2, <2>3, <2>4, Zenon
<1> QED BY <1>1, <1>2

LEMMA StatusDecoded ==
    ASSUME NEW i, Dated(i.past.start), i.count \in Nat,
           \A k \in 1..4 : Reading(i.extremes[k])
    PROVE  ReadStatus(StatusSpace(i), TRUE) =
               [recording |-> i.recording = 1, startedAt |-> i.past.start,
                count |-> i.count, extremes |-> [k \in 1..4 |-> Known(i.extremes[k])]]
<1> DEFINE space == StatusSpace(i)  head == StatusHead(space)  tail == StatusTail(space)
           start == DateBytes(i.past.start)
           at == <<17, 25, 49, 57>>
<1>1. Spaced(space, i)
  BY StatusSpaced
<1> HIDE DEF space
<1>2. /\ \A k \in 1..32 : head[k] = space[k - 1]
      /\ \A k \in 1..64 : tail[k] = space[127 + k]
  BY BytesRead
<1> HIDE DEF head, tail
<1>3. head[1] = i.recording
  BY <1>1, <1>2, SMT DEF Spaced
<1>4. SubSeq(head, 9, 15) = start
  <2>1. start \in Seq(Int) /\ Len(start) = 7
    BY DateBytesRead
  <2>2. ASSUME NEW k \in 1..7 PROVE head[8 + k] = start[k]
    <3>1. 8 + k \in 1..32 /\ (8 + k) - 1 = 7 + k
      OBVIOUS
    <3>2. space[7 + k] = start[k]
      BY <1>1 DEF Spaced
    <3> QED BY <1>2, <3>1, <3>2
  <2> HIDE DEF start
  <2>3. SubSeq(head, 8 + 1, 8 + Len(start)) = start
    <3>1. \A k \in 1..Len(start) : head[8 + k] = start[k]
      BY <2>1, <2>2
    <3>2. 8 \in Int
      OBVIOUS
    <3> QED BY <2>1, <3>1, <3>2, CutOut, Zenon
  <2> QED BY <2>1, <2>3
<1>5. DecodeDateTime(SubSeq(head, 9, 15)) = i.past.start
  BY <1>4, DateBytesRead
<1>6. tail[11] + 256 * tail[12] = i.count
  <2>1. tail[11] = i.count % 256 /\ tail[12] = i.count \div 256
    BY <1>1, <1>2, SMT DEF Spaced
  <2> QED BY <2>1, TwoBytes
<1>7. /\ Extreme(tail, 17) = Known(i.extremes[1]) /\ Extreme(tail, 25) = Known(i.extremes[2])
      /\ Extreme(tail, 49) = Known(i.extremes[3]) /\ Extreme(tail, 57) = Known(i.extremes[4])
  <2> DEFINE x1 == TenthsBytes(i.extremes[1], 32768)  x2 == TenthsBytes(i.extremes[2], 32768)
             x3 == TenthsBytes(i.extremes[3], 32768)  x4 == TenthsBytes(i.extremes[4], 32768)
  <2>1. \A k \in 1..2 : /\ space[\h8F + k] = x1[k] /\ space[\h97 + k] = x2[k]
                        /\ space[\hAF + k] = x3[k] /\ space[\hB7 + k] = x4[k]
    BY <1>1 DEF Spaced
  <2> HIDE DEF x1, x2, x3, x4
  <2>2. /\ tail[17] = x1[1] /\ tail[17 + 1] = x1[2] /\ tail[25] = x2[1] /\ tail[25 + 1] = x2[2]
        /\ tail[49] = x3[1] /\ tail[49 + 1] = x3[2] /\ tail[57] = x4[1] /\ tail[57 + 1] = x4[2]
    BY <1>2, <2>1, SMT
  <2>3. Extreme(tail, 17) = Known(i.extremes[1])
    BY <2>2, ExtremeKnown DEF x1
  <2>4. Extreme(tail, 25) = Known(i.extremes[2])
    BY <2>2, ExtremeKnown DEF x2
  <2>5. Extreme(tail, 49) = Known(i.extremes[3])
    BY <2>2, ExtremeKnown DEF x3
  <2>6. Extreme(tail, 57) = Known(i.extremes[4])
    BY <2>2, ExtremeKnown DEF x4
  <2> QED BY <2>3, <2>4, <2>5, <2>6
<1>8. [k \in 1..4 |-> Extreme(tail, at[k])] = [k \in 1..4 |-> Known(i.extremes[k])]
  <2>1. \A k \in 1..4 : Extreme(tail, at[k]) = Known(i.extremes[k])
    BY <1>7
  <2> HIDE DEF at
  <2> QED BY <2>1
<1>9. ReadStatus(space, TRUE) =
          [recording |-> head[1] = 1, startedAt |-> DecodeDateTime(SubSeq(head, 9, 15)),
           count |-> tail[11] + 256 * tail[12],
           extremes |-> [k \in 1..4 |-> Extreme(tail, at[k])]]
  BY Zenon DEF ReadStatus, DecodeStatus, head, tail, StatusHead, StatusTail
<1> QED BY <1>3, <1>5, <1>6, <1>8, <1>9, Zenon DEF space

\* What a logger may have been through.
PastFits(past) ==
    /\ Dated(past.configured) /\ Dated(past.start) /\ Dated(past.stopped)
    /\ past.start.ok => past.start.time.year > 2012

LEMMA HistoriesFit == \A past \in Histories : PastFits(past)
BY CodecAssumption, SMT DEF PastFits

LEMMA StatusesFit ==
    ASSUME NEW i \in StatusInputs
    PROVE  /\ PastFits(i.past) /\ i.count \in Nat
           /\ \A k \in 1..4 : Reading(i.extremes[k])
           /\ i.answered \in BOOLEAN /\ i.kept \in BOOLEAN
           /\ i.recording = 1 => i.past.start.ok
<1>1. /\ i.past \in Histories /\ i.count \in Counts /\ i.extremes \in Extremes
      /\ i.answered \in BOOLEAN /\ i.kept \in BOOLEAN
      /\ i.recording = 1 => i.past.start.ok
  BY DEF StatusInputs
<1>2. i.count \in Nat
  BY <1>1, CodecAssumption, Ranges, SMT
<1>3. \A k \in 1..4 : Reading(i.extremes[k])
  <2> DEFINE S == {NoReading} \cup Within(32767)
  <2>1. i.extremes \in [1..4 -> S]
    BY <1>1, CodecAssumption, SMT
  <2>2. \A x \in Within(32767) : Reading(x)
    BY Ranges, SMT DEF Reading
  <2>3. \A x \in S : Reading(x)
    BY <2>2 DEF Reading
  <2> HIDE DEF S
  <2> QED BY <2>1, <2>3
<1>4. PastFits(i.past)
  BY <1>1, HistoriesFit
<1> QED BY <1>1, <1>2, <1>3, <1>4

\* The start that Info has: the one the status space tells, or else the parameters'.
\* What the records page makes of it is the real one, or none if it was the factory's.
LEMMA SinceStart ==
    ASSUME NEW past, PastFits(past), NEW status, NEW kept \in BOOLEAN, NEW told \in BOOLEAN,
           status.startedAt = IF told THEN past.start ELSE Nothing
    PROVE  LET parameter == IF kept THEN past.start ELSE [ok |-> TRUE, time |-> Placeholder]
               startedAt == StartedAt(parameter, status)
           IN  /\ told /\ past.start.ok => startedAt = past.start
               /\ RecordingSince(startedAt, past.configured) =
                      IF past.start.ok /\ (told \/ kept) THEN past.start ELSE past.configured
<1> DEFINE factory == [ok |-> TRUE, time |-> Placeholder]
           parameter == IF kept THEN past.start ELSE factory
           startedAt == StartedAt(parameter, status)
<1>1. ~Nothing.ok
  BY DEF Nothing
<1>2. startedAt = IF told /\ past.start.ok THEN past.start ELSE parameter
  BY <1>1 DEF StartedAt
<1>3. RecordingSince(factory, past.configured) = past.configured
  <2> DEFINE y == Placeholder.year
  <2>1. ~(y > 2012)
    <3>1. Placeholder.year <= 2012 /\ Placeholder.year \in Nat
      BY CodecAssumption, ClockFacts, SMT
    <3> QED BY <3>1
  <2>2. factory.time.year = y
    OBVIOUS
  <2> HIDE DEF y, factory
  <2> QED BY <2>1, <2>2 DEF RecordingSince
<1>4. RecordingSince(past.start, past.configured) =
          IF past.start.ok THEN past.start ELSE past.configured
  BY DEF RecordingSince, PastFits
<1> HIDE DEF factory
<1>5. CASE told /\ past.start.ok
  <2>1. startedAt = past.start
    BY <1>2, <1>5
  <2>2. RecordingSince(past.start, past.configured) = past.start
    BY <1>4, <1>5
  <2> HIDE DEF startedAt
  <2>3. /\ startedAt = past.start
        /\ RecordingSince(startedAt, past.configured) =
               IF past.start.ok /\ (told \/ kept) THEN past.start ELSE past.configured
    BY <1>5, <2>1, <2>2
  <2> QED BY <2>3 DEF startedAt, factory
<1>6. CASE ~(told /\ past.start.ok)
  <2>1. startedAt = parameter
    BY <1>2, <1>6
  <2> HIDE DEF startedAt
  <2>2. CASE kept
    BY <1>4, <1>6, <2>1, <2>2 DEF startedAt, factory
  <2>3. CASE ~kept
    BY <1>3, <1>6, <2>1, <2>3 DEF startedAt, factory
  <2> QED BY <2>2, <2>3
<1> QED BY <1>5, <1>6 DEF factory

\* The lines that two pages show of what is known of a logger.
LEMMA LinesShown ==
    ASSUME NEW info
    PROVE  /\ RecordingState(info)[1] = "stopped" <=> info.stoppedAt.ok
           /\ RecordingState(info)[1] = "recording" <=> ~info.stoppedAt.ok /\ info.recording
           /\ RecordingState(info)[1] = "stopped" => RecordingState(info)[2] = info.stoppedAt
           /\ RecordingState(info)[1] = "recording" => RecordingState(info)[2] = info.startedAt
           /\ RecordingLine(info)[1] = "stopped" => RecordingLine(info)[2] = info.stoppedAt
           /\ RecordingLine(info)[1] = "recording" =>
                  RecordingLine(info)[2] = RecordingSince(info.startedAt, info.configuredAt)
<1>1. CASE info.stoppedAt.ok
  <2>1. /\ RecordingState(info) = <<"stopped", info.stoppedAt>>
        /\ RecordingLine(info) = <<"stopped", info.stoppedAt>>
    BY <1>1 DEF RecordingState, RecordingLine
  <2> QED BY <1>1, <2>1
<1>2. CASE ~info.stoppedAt.ok
  <2> DEFINE s == IF info.counted /\ info.count > 0 THEN "holding" ELSE "not started"
             l == IF info.mode = 0 THEN "armed" ELSE "not started"
             since == RecordingSince(info.startedAt, info.configuredAt)
  <2>1. RecordingState(info) = IF info.recording THEN <<"recording", info.startedAt>>
                               ELSE <<s, Nothing>>
    BY <1>2 DEF RecordingState
  <2>2. \/ RecordingLine(info) = <<"recording", since>>
        \/ RecordingLine(info) = <<l, Nothing>>
    BY <1>2 DEF RecordingLine
  <2>3. s \notin {"stopped", "recording"} /\ l \notin {"stopped", "recording"}
    OBVIOUS
  <2> HIDE DEF s, l, since
  <2>4. CASE info.recording
    BY <1>2, <2>1, <2>2, <2>3, <2>4 DEF since
  <2>5. CASE ~info.recording
    BY <1>2, <2>1, <2>2, <2>3, <2>5 DEF since
  <2> QED BY <2>4, <2>5
<1> QED BY <1>1, <1>2

\* The status space is read as the logger has it, or not at all; and however that
\* goes, for every history of a logger, count of two bytes and extremes that the
\* status space can hold: the monitor says a logger is recording if and only if it
\* said so, and since when; the records page names the moment it was stopped, or its
\* real start when either space tells it, and otherwise the moment it was configured;
\* extremes are the logger's, or 0.0 for one that it did not report.
THEOREM StatusIsRead == Spec => []StatusRead
<1>1. Outcome => StatusRead
  <2> DEFINE past == input.past
             x == input.extremes
             told == past.start.ok /\ (input.answered \/ input.kept)
             value(k) == IF input.answered /\ x[k] # NoReading THEN x[k] ELSE 0
             shown(lo, hi) == IF value(lo) = 0 /\ value(hi) = 0 THEN Nothing
                              ELSE [ok |-> TRUE, range |-> <<value(lo), value(hi)>>]
             status == ReadStatus(StatusSpace(input), input.answered)
             parameter == IF input.kept THEN past.start ELSE [ok |-> TRUE, time |-> Placeholder]
             startedAt == StartedAt(parameter, status)
             info == [stoppedAt |-> past.stopped, counted |-> TRUE, count |-> input.count,
                      mode |-> input.mode, configuredAt |-> past.configured,
                      recording |-> status.recording, startedAt |-> startedAt]
  <2>1. SUFFICES ASSUME Outcome, Decoded("status") PROVE StatusRead
    BY DEF StatusRead
  <2>2. input \in StatusInputs /\ output = StatusShown(input)
    BY <2>1, InputOfKind, Zenon DEF Outcome, Decoded
  <2>3. /\ PastFits(past) /\ input.count \in Nat
        /\ \A k \in 1..4 : Reading(x[k])
        /\ input.answered \in BOOLEAN /\ input.kept \in BOOLEAN
        /\ input.recording = 1 => past.start.ok
    BY <2>2, StatusesFit
  <2>4. output = [status |-> status, line |-> RecordingLine(info),
                  state |-> RecordingState(info), facts |-> MonitorFacts(status)]
    BY <2>2, Zenon DEF StatusShown
  <2>5. ASSUME input.answered
        PROVE  status = [recording |-> input.recording = 1, startedAt |-> past.start,
                         count |-> input.count, extremes |-> [k \in 1..4 |-> Known(x[k])]]
    <3>1. status = ReadStatus(StatusSpace(input), TRUE)
      BY <2>3, <2>5
    <3>2. Dated(past.start) /\ input.count \in Nat /\ \A k \in 1..4 : Reading(x[k])
      BY <2>3 DEF PastFits
    <3> QED BY <3>1, <3>2, StatusDecoded
  <2>6. ASSUME ~input.answered
        PROVE  status = [recording |-> FALSE, startedAt |-> Nothing, count |-> 0,
                         extremes |-> [k \in 1..4 |-> 0]]
    BY <2>6, Zenon DEF ReadStatus
  <2> HIDE DEF status
  <2>7. [k \in 1..4 |-> value(k)] = status.extremes
    <3>1. CASE input.answered
      <4>1. status.extremes = [k \in 1..4 |-> Known(x[k])]
        BY <2>5, <3>1, SMT
      <4>2. \A k \in 1..4 : value(k) = Known(x[k])
        BY <3>1 DEF Known
      <4> HIDE DEF value
      <4> QED BY <4>1, <4>2
    <3>2. CASE ~input.answered
      <4>1. status.extremes = [k \in 1..4 |-> 0]
        BY <2>6, <3>2, SMT
      <4>2. \A k \in 1..4 : value(k) = 0
        BY <3>2
      <4> HIDE DEF value
      <4> QED BY <4>1, <4>2
    <3> QED BY <3>1, <3>2
  <2> HIDE DEF value
  <2>8. /\ status.recording <=> input.answered /\ input.recording = 1
        /\ status.startedAt = IF input.answered THEN past.start ELSE Nothing
    <3>1. CASE input.answered
      <4> DEFINE r == input.recording = 1  n == input.count
                 extremes == [k \in 1..4 |-> Known(x[k])]
      <4>1. status = [recording |-> r, startedAt |-> past.start,
                      count |-> n, extremes |-> extremes]
        BY <2>5, <3>1
      <4> HIDE DEF r, n, extremes
      <4>2. status.recording = r /\ status.startedAt = past.start
        BY <4>1, SMT
      <4> QED BY <3>1, <4>2 DEF r
    <3>2. CASE ~input.answered
      BY <2>6, <3>2, SMT
    <3> QED BY <3>1, <3>2
  <2>9. input.answered => output.status =
            [recording |-> input.recording = 1, startedAt |-> past.start,
             count |-> input.count, extremes |-> [k \in 1..4 |-> value(k)]]
    <3>1. SUFFICES ASSUME input.answered
                   PROVE  status = [recording |-> input.recording = 1,
                                    startedAt |-> past.start, count |-> input.count,
                                    extremes |-> [k \in 1..4 |-> value(k)]]
      BY <2>4
    <3>2. status.extremes = [k \in 1..4 |-> Known(x[k])]
      BY <2>5, <3>1, SMT
    <3> QED BY <2>5, <2>7, <3>1, <3>2, Zenon
  <2>10. /\ input.answered /\ past.start.ok => startedAt = past.start
         /\ RecordingSince(startedAt, past.configured) =
                IF told THEN past.start ELSE past.configured
    BY <2>3, <2>8, SinceStart, Zenon
  <2> HIDE DEF startedAt
  <2>11. /\ info.stoppedAt = past.stopped /\ info.configuredAt = past.configured
         /\ info.recording = status.recording /\ info.startedAt = startedAt
    OBVIOUS
  <2>12. output.state = RecordingState(info) /\ output.line = RecordingLine(info)
    BY <2>4
  <2> HIDE DEF info, told, past
  <2>13. /\ output.state[1] = "stopped" <=> past.stopped.ok
         /\ output.state[1] = "recording" <=>
                ~past.stopped.ok /\ input.answered /\ input.recording = 1
         /\ output.state[1] = "stopped" => output.state[2] = past.stopped
         /\ output.state[1] = "recording" => output.state[2] = past.start
    BY <2>3, <2>8, <2>10, <2>11, <2>12, LinesShown
  <2>14. /\ output.line[1] = "stopped" => output.line[2] = past.stopped
         /\ output.line[1] = "recording" =>
                output.line[2] = IF told THEN past.start ELSE past.configured
    BY <2>10, <2>11, <2>12, LinesShown, Zenon
  <2>15. output.facts = [temperature |-> shown(2, 1), humidity |-> shown(4, 3)]
    <3>1. /\ status.extremes[1] = value(1) /\ status.extremes[2] = value(2)
          /\ status.extremes[3] = value(3) /\ status.extremes[4] = value(4)
      BY <2>7
    <3>2. output.facts = [temperature |-> ExtremesText(value(2), value(1)),
                          humidity |-> ExtremesText(value(4), value(3))]
      BY <2>4, <3>1 DEF MonitorFacts
    <3> QED BY <3>2 DEF ExtremesText
  <2> QED BY <2>9, <2>13, <2>14, <2>15, Zenon DEF StatusRead, value, told, past
<1> QED BY <1>1, OutcomeHolds, PTL
=============================================================================
