------------------------------ MODULE Decoding ------------------------------
(***************************************************************************)
(* The values of internal/elitech/info.go and record.go as bytes: dates,   *)
(* counts, settings and the two record formats.  Byte sequences start at   *)
(* 1, temperatures and humidities are in tenths, and a value that cannot   *)
(* be read is Nothing.  The host's time zone is left out: a date and time  *)
(* of the calendar is taken to exist.                                      *)
(***************************************************************************)
EXTENDS Integers, Sequences

Nothing == [ok |-> FALSE]

\* Of b, the bits from the one that counts unit up, as a number below size.
Bits(b, unit, size) == (b \div unit) % size
Bit(b, unit) == Bits(b, unit, 2) = 1

\* Big-endian numbers.
Word(b, i) == 256 * b[i] + b[i + 1]
Long(b, i) == 65536 * Word(b, i) + Word(b, i + 2)

\* isFF() of bytes i to j.
IsFF(b, i, j) == \A k \in i..j : b[k] = 255

-----------------------------------------------------------------------------
(* Dates *)

Leap(year) == year % 4 = 0 /\ (year % 100 # 0 \/ year % 400 = 0)

DaysIn(year, month) ==
    CASE month = 2 -> IF Leap(year) THEN 29 ELSE 28
      [] month \in {4, 6, 9, 11} -> 30
      [] OTHER -> 31

\* Mutant of OnCalendar: any day up to 31 will do.
OnSomeCalendar(t) == t.month \in 1..12 /\ t.day \in 1..31

\* time.Date, and the test that it did not move on to the next month.
OnCalendar(t) == t.month \in 1..12 /\ t.day \in 1..DaysIn(t.year, t.month)

OnClock(t) == t.hour \in 0..23 /\ t.minute \in 0..59 /\ t.second \in 0..59

\* decodeDateTime: [yy mm dow dd hh mi ss], zeros or 0xFF for no value.
DecodeDateTime(b) ==
    LET t == [year |-> 2000 + b[1], month |-> b[2], day |-> b[4],
              hour |-> b[5], minute |-> b[6], second |-> b[7]]
    IN  IF (\A i \in 1..7 : b[i] = 0) \/ (\E i \in {1, 2, 4, 5, 6, 7} : b[i] = 255)
           \/ ~OnCalendar(t) \/ ~OnClock(t)
        THEN Nothing
        ELSE [ok |-> TRUE, time |-> t]

EncodeDateTime(t, weekday) ==
    <<(t.year - 2000) % 256, t.month, weekday, t.day, t.hour, t.minute, t.second>>

-----------------------------------------------------------------------------
(* Counts and settings *)

\* Mutant of Capacity: the blanked half is taken.
BlankedCapacity(b) == IF IsFF(b, 1, 2) THEN Word(b, 1) ELSE Long(b, 1)

\* The capacity, of which a stopped logger blanks the first two bytes.
Capacity(b) == IF IsFF(b, 1, 2) THEN Word(b, 3) ELSE Long(b, 1)

\* decodeCapacityCount: where the count is depends on the protocol.
DecodeCapacityCount(b, protocol) ==
    LET wide  == protocol >= \h24
        count == IF wide THEN Long(b, 5) ELSE Word(b, 7)
    IN  IF IsFF(b, 1, 4) \/ (wide /\ IsFF(b, 5, 8)) \/ (~wide /\ IsFF(b, 7, 8))
           \/ count > Capacity(b)
        THEN Nothing
        ELSE [ok |-> TRUE, capacity |-> Capacity(b), count |-> count]

\* Seconds in units of ten.
DecodeInterval(b) ==
    IF IsFF(b, 1, 2) \/ Word(b, 1) = 0 THEN Nothing
    ELSE [ok |-> TRUE, seconds |-> 10 * Word(b, 1)]

EncodeInterval(seconds) ==
    LET units == (seconds \div 10) % 65536 IN <<units \div 256, units % 256>>

\* Mutant of DecodeStartByte: the stop bits in each other's place.
DecodeStartSwapped(b) ==
    [mode |-> Bits(b, 1, 8), button |-> Bit(b, 16), software |-> Bit(b, 8)]

DecodeStartByte(b) ==
    [mode |-> Bits(b, 1, 8), button |-> Bit(b, 8), software |-> Bit(b, 16)]

\* The upper three bits are kept; mode 0 is immediate, 1 manual.
EncodeStartByte(old, immediate, button, software) ==
    32 * Bits(old, 32, 8)
    + (IF immediate THEN 0 ELSE 1)
    + (IF button THEN 8 ELSE 0)
    + (IF software THEN 16 ELSE 0)

-----------------------------------------------------------------------------
(* Records *)

\* decodeTenths: the status space has its sign in bit 15.
DecodeTenths(b, i) ==
    LET v == Word(b, i)
    IN  IF v = 65535 THEN Nothing
        ELSE [ok |-> TRUE, tenths |-> IF v >= 32768 THEN 32768 - v ELSE v]

\* Mutant of DecodeRecordTenths: the sign is looked for where the status space
\* has it.
DecodeTenthsOfStatus(b, i) == DecodeTenths(b, i)

\* decodeRecordTenths: a record has its sign in bit 12, twelve bits below it.
DecodeRecordTenths(b, i) ==
    LET v == Word(b, i)
        magnitude == v % 4096
    IN  IF v = 65535 THEN Nothing
        ELSE [ok |-> TRUE, tenths |-> IF Bit(v, 4096) THEN -magnitude ELSE magnitude]

\* decodeRecordTH: a record without a temperature is no record, and none has a
\* time.
DecodeRecordTH(b) ==
    IF ~DecodeRecordTenths(b, 1).ok THEN Nothing
    ELSE [ok |-> TRUE, time |-> Nothing, status |-> "measurement",
          temperature |-> DecodeRecordTenths(b, 1).tenths,
          humidity |-> DecodeRecordTenths(b, 3), events |-> {}]

\* Mutant of RecordTemperature: no twelfth bit.
ShortTemperature(b, protocol) ==
    LET raw == 8 * b[6] + Bits(b[5], 32, 8)
    IN  IF Bit(b[1], 8) THEN -raw ELSE raw

\* The temperature of an 8-byte record; protocol 0x23 added a twelfth bit.
RecordTemperature(b, protocol) ==
    LET raw == 8 * b[6] + Bits(b[5], 32, 8)
               + (IF protocol >= \h23 THEN 2048 * Bits(b[2], 2, 2) ELSE 0)
    IN  IF Bit(b[1], 8) THEN -raw ELSE raw

\* decodeRecord: pause before stop before error, which protocol 0x35 has not.
RecordStatus(flags, protocol) ==
    CASE Bit(flags, 2) -> "pause"
      [] ~Bit(flags, 2) /\ Bit(flags, 4) -> "stop"
      [] ~Bit(flags, 2) /\ ~Bit(flags, 4) /\ Bit(flags, 128) /\ protocol < \h35 -> "error"
      [] OTHER -> "measurement"

DecodeRecord(b, protocol) ==
    LET t == [year |-> 2000 + Bits(b[3], 1, 128),
              month |-> 2 * Bits(b[4], 1, 8) + Bits(b[3], 128, 2),
              day |-> Bits(b[4], 8, 32), hour |-> Bits(b[5], 1, 32),
              minute |-> Bits(b[7], 1, 64), second |-> Bits(b[2], 4, 64)]
        status == RecordStatus(b[1], protocol)
    IN  IF IsFF(b, 1, 8) \/ ~OnCalendar(t) \/ ~OnClock(t)
        THEN Nothing
        ELSE [ok |-> TRUE, time |-> t, status |-> status,
              temperature |-> IF status = "measurement"
                              THEN RecordTemperature(b, protocol) ELSE 0,
              humidity |-> Nothing, events |-> {bit \in {1, 16, 32} : Bit(b[1], bit)}]
=============================================================================
