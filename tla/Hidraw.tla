------------------------------- MODULE Hidraw -------------------------------
(***************************************************************************)
(* The input side of a Linux hidraw node as internal/hid/conn.go uses it.  *)
(* The kernel copies every input report of the device to EVERY open file   *)
(* of the node, into a ring of its own; a full ring drops the new report.  *)
(* A session reads whole reports in arrival order.                         *)
(***************************************************************************)
EXTENDS Naturals, Sequences

CONSTANTS
    BufferSize,     \* reports one open file holds (63 in the kernel)
    DrainMax        \* reports drain() throws away at most (16)

ASSUME HidrawAssumption == BufferSize \in Nat \ {0} /\ DrainMax \in Nat

\* drain(): read and forget until a read finds nothing, at most DrainMax times.
Drained(q) == SubSeq(q, DrainMax + 1, Len(q))

\* One report entering the ring of one open file.
Buffered(q, report) == IF Len(q) < BufferSize THEN Append(q, report) ELSE q

\* One input report entering the rings of every file that is still connected.
Broadcast(fd, queue, report) ==
    [c \in DOMAIN queue |->
        IF fd[c] = "live" THEN Buffered(queue[c], report) ELSE queue[c]]
=============================================================================
