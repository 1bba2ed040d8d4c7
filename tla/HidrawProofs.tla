---------------------------- MODULE HidrawProofs ----------------------------
(***************************************************************************)
(* What the operations on the rings of reports do, for reports of any kind *)
(* and rings of any size: nothing is made up, and order is kept.           *)
(***************************************************************************)
EXTENDS Hidraw, Integers, TLAPS

\* What drain() leaves is the end of the ring.
LEMMA DrainedSeq ==
  ASSUME NEW S, NEW q \in Seq(S)
  PROVE  /\ Drained(q) \in Seq(S)
         /\ \A i \in 1..Len(Drained(q)) :
                \E j \in 1..Len(q) : Drained(q)[i] = q[j]
  <1>1. CASE DrainMax + 1 > Len(q)
    <2>1. Drained(q) = << >>
      BY <1>1, HidrawAssumption DEF Drained
    <2> QED BY <2>1
  <1>2. CASE DrainMax + 1 <= Len(q)
    <2>1. Drained(q) \in Seq(S)
      BY <1>2, HidrawAssumption DEF Drained
    <2>2. \A i \in 1..Len(Drained(q)) :
             /\ DrainMax + i \in 1..Len(q)
             /\ Drained(q)[i] = q[DrainMax + i]
      BY <1>2, HidrawAssumption DEF Drained
    <2> QED BY <2>1, <2>2
  <1> QED BY <1>1, <1>2, HidrawAssumption

\* Taking a report out of a ring leaves the others.
LEMMA TailSeq ==
  ASSUME NEW S, NEW q \in Seq(S), q # << >>
  PROVE  /\ Tail(q) \in Seq(S)
         /\ \A i \in 1..Len(Tail(q)) : \E j \in 1..Len(q) : Tail(q)[i] = q[j]
  <1>1. \A i \in 1..Len(Tail(q)) : i + 1 \in 1..Len(q) /\ Tail(q)[i] = q[i + 1]
    OBVIOUS
  <1> QED BY <1>1

\* A ring that receives a report holds it and what it held.
LEMMA BufferedSeq ==
  ASSUME NEW S, NEW q \in Seq(S), NEW r \in S
  PROVE  /\ Buffered(q, r) \in Seq(S)
         /\ \A i \in 1..Len(Buffered(q, r)) :
               \/ Buffered(q, r)[i] = r
               \/ i \in 1..Len(q) /\ Buffered(q, r)[i] = q[i]
  BY DEF Buffered

\* In positions: what follows the first moves up by one, what is new is last.
LEMMA TailAt ==
  ASSUME NEW S, NEW q \in Seq(S), q # << >>
  PROVE  /\ 1 \in 1..Len(q) /\ Head(q) = q[1]
         /\ \A i \in 1..Len(Tail(q)) : i + 1 \in 1..Len(q) /\ Tail(q)[i] = q[i + 1]
  OBVIOUS

LEMMA AppendAt ==
  ASSUME NEW S, NEW q \in Seq(S), NEW r \in S
  PROVE  /\ Append(q, r) \in Seq(S)
         /\ \A i \in 1..Len(Append(q, r)) :
               \/ i \in 1..Len(q) /\ Append(q, r)[i] = q[i]
               \/ i = Len(q) + 1 /\ Append(q, r)[i] = r
  OBVIOUS

LEMMA BufferedAt ==
  ASSUME NEW S, NEW q \in Seq(S), NEW r \in S
  PROVE  \A i \in 1..Len(Buffered(q, r)) :
               \/ i \in 1..Len(q) /\ Buffered(q, r)[i] = q[i]
               \/ i = Len(q) + 1 /\ Buffered(q, r)[i] = r
  BY DEF Buffered

\* There is nothing to throw away in an empty ring.
LEMMA DrainedEmpty == Drained(<< >>) = << >>
  BY HidrawAssumption DEF Drained

\* A report that enters the rings of the open files changes no ring otherwise.
LEMMA BroadcastType ==
  ASSUME NEW S, NEW C, NEW fd, NEW queue \in [C -> Seq(S)], NEW r \in S
  PROVE  /\ Broadcast(fd, queue, r) \in [C -> Seq(S)]
         /\ \A c \in C : fd[c] # "live" => Broadcast(fd, queue, r)[c] = queue[c]
         /\ \A c \in C : fd[c] = "live" =>
                Broadcast(fd, queue, r)[c] = Buffered(queue[c], r)
  <1>1. \A c \in C : Buffered(queue[c], r) \in Seq(S)
    BY BufferedSeq
  <1> QED BY <1>1 DEF Broadcast
=============================================================================
