------------------------------- MODULE Frame -------------------------------
(***************************************************************************)
(* The 64-byte reports of internal/elitech/frame.go.                       *)
(*                                                                         *)
(*   33 CC 00 LEN op_lo op_hi 00 off_mid off_lo off_hi N [data] checksum   *)
(***************************************************************************)
EXTENDS Integers, Sequences

CONSTANT ReportSize     \* 64

ASSUME FrameAssumption == ReportSize \in Nat /\ ReportSize >= 12

\* What encodeFrame's panic leaves for data.
MaxData == ReportSize - 12

\* The sum of the bytes before it.
Checksum(bytes) ==
    LET sum[k \in 0..Len(bytes)] == IF k = 0 THEN 0 ELSE (sum[k - 1] + bytes[k]) % 256
    IN  sum[Len(bytes)]

EncodeFrame(f) ==
    LET body == <<\h33, \hCC, 0, 12 + Len(f.data), f.op % 256, f.op \div 256, 0,
                  (f.off \div 256) % 256, f.off % 256, (f.off \div 65536) % 256, f.n>>
                \o f.data
        report == Append(body, Checksum(body))
    IN  [i \in 1..ReportSize |-> IF i <= Len(report) THEN report[i] ELSE 0]

\* Mutant of WellFormed: the checksum is not compared.
HeaderFormed(report) ==
    /\ Len(report) >= 12
    /\ SubSeq(report, 1, 3) = <<\h33, \hCC, 0>>
    /\ report[4] \in 12..Len(report)

\* Header, length and checksum are right.
WellFormed(report) ==
    /\ Len(report) >= 12
    /\ SubSeq(report, 1, 3) = <<\h33, \hCC, 0>>
    /\ report[4] \in 12..Len(report)
    /\ report[report[4]] = Checksum(SubSeq(report, 1, report[4] - 1))

DecodeFrame(report) ==
    IF WellFormed(report)
    THEN [ok |-> TRUE, op |-> report[5] + 256 * report[6],
          off |-> 65536 * report[10] + 256 * report[8] + report[9],
          n |-> report[11], data |-> SubSeq(report, 12, report[4] - 1)]
    ELSE [ok |-> FALSE]
=============================================================================
