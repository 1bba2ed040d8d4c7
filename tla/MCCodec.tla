------------------------------- MODULE MCCodec -------------------------------
(***************************************************************************)
(* Values around the limits of the fields.                                 *)
(***************************************************************************)
EXTENDS Codec

SomeFrames ==
    [op: {1, 3, \h2C0}, off: {0, \h42, 258, 65537}, n: {0, 10},
     data: {<<>>, <<0>>, <<255, 1>>, [i \in 1..MaxData |-> 204]}]

SomeNoise == {0, 1, 51, 128, 255}

Moment(y, mo, d, h, mi, s) ==
    [year |-> y, month |-> mo, day |-> d, hour |-> h, minute |-> mi, second |-> s]

SomeMoments ==
    {Moment(2026, 9, 23, 14, 5, 30), Moment(2000, 1, 1, 0, 0, 0),
     Moment(2127, 12, 31, 23, 59, 59), Moment(2024, 2, 29, 7, 8, 9),
     Moment(2023, 2, 29, 0, 0, 0), Moment(2100, 2, 29, 0, 0, 0),
     Moment(2026, 4, 31, 0, 0, 0), Moment(2026, 13, 1, 0, 0, 0),
     Moment(2026, 0, 1, 0, 0, 0), Moment(2026, 5, 0, 0, 0, 0),
     Moment(2026, 5, 1, 24, 0, 0), Moment(2026, 5, 1, 0, 60, 0),
     Moment(2026, 5, 1, 0, 0, 60)}

SomeTemperatures == {0, 1, 217, 2047, 2048, 4095}
SomeFlags == {0, 1, 2, 4, 6, 8, \h30, \h80, \hC0, \hC8, \hFF}
SomeProtocols == {\h20, \h23, \h24, \h34, \h35}
SomeTenths == {-4095, -2048, -2047, -188, -1, 0, 1, 217, 2047, 2048, 4095}
SomeCounts == {0, 1, 255, 256, 32000, 65534, 65536, 70000}
SomeIntervals == {10, 600, 2550, 2560, 86400}
SomeOldBytes == {0, \h19, \hE2, 255}

\* Maximum and minimum, reported or not, and 0.0 as one of them.
SomeExtremes ==
    {t \o h : t \in {<<NoReading, NoReading>>, <<655, -188>>, <<655, NoReading>>,
                     <<NoReading, -188>>, <<0, 0>>, <<0, -188>>},
             h \in {<<NoReading, NoReading>>, <<655, 188>>, <<655, NoReading>>}}

SomeHistories ==
    LET maybe(t) == {Nothing, [ok |-> TRUE, time |-> t]}
    IN  [configured: maybe(Moment(2024, 2, 29, 7, 8, 9)),
         start: maybe(Moment(2026, 9, 23, 14, 5, 30)),
         stopped: maybe(Moment(2127, 12, 31, 23, 59, 59))]
SomePlaceholder == Moment(2012, 1, 1, 1, 1, 1)

\* Every run of up to three slots, at the front of, across and behind a packet,
\* each with a time and a humidity of its own.
SlotOf(kind, p) ==
    IF kind = "none" THEN Nothing
    ELSE [ok |-> TRUE, time |-> Moment(2026, 9, 23, 14, p, 30), paused |-> kind = "odd",
          temperature |-> CASE kind = "warm" -> 217 [] kind = "cold" -> -11 [] kind = "odd" -> 5,
          humidity |-> IF kind = "odd" THEN Nothing ELSE [ok |-> TRUE, tenths |-> 500 + p]]

SomeStores ==
    {[k \in 1..n + Len(s) |-> SlotOf(IF k <= n THEN "warm" ELSE s[k - n], k)] :
        n \in {0, 4, 5, 6, 10}, s \in UNION {[1..m -> {"warm", "cold", "odd", "none"}] : m \in 0..3}}
SomeLasts == {0, 1, 2, 3, 6, 7, 20}

SomeShown == {10 * k : k \in 0..200} \cup {3600, 86390, 86400, 86410, 655350}
SomeFields == {-1, 0, 1, 5, 9, 10, 50, 59, 60, 1439, 1440, 1441}
SomeSpans == 0..200 \cup {3569, 3570, 3600, 86369, 86370, 86399, 86400, 90000, 655350}
=============================================================================
