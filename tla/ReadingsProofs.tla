--------------------------- MODULE ReadingsProofs ---------------------------
(***************************************************************************)
(* Lemmas about reports: what the checksum of any bytes is, and that no    *)
(* other byte in one place has it; where the parts of a report lie; what   *)
(* overwriting a byte does to them.  Induction is over sets of numbers.    *)
(***************************************************************************)
EXTENDS Frame, Readings, WellFoundedInduction, SequenceTheorems, TLAPS

-----------------------------------------------------------------------------
(* Induction over the natural numbers, with a set for the predicate *)

Precedes == {p \in Nat \X Nat : p[1] < p[2]}

\* The order of the natural numbers is well founded.
LEMMA PrecedesWellFounded == IsWellFoundedOn(Precedes, Nat)
BY NatLessThanWellFounded, Zenon DEF OpToRel, Precedes

\* A set of natural numbers has a least element.
LEMMA LeastElement ==
    ASSUME NEW T, T \subseteq Nat, T # {}
    PROVE  \E x \in T : \A y \in T : x <= y
<1>1. \E x \in T : \A y \in T : ~(<<y, x>> \in Precedes)
  BY PrecedesWellFounded, WFMin, Zenon
<1>2. PICK x \in T : \A y \in T : ~(<<y, x>> \in Precedes)
  BY <1>1
<1>3. ASSUME NEW y \in T PROVE x <= y
  <2>1. x \in Nat /\ y \in Nat
    OBVIOUS
  <2>2. <<y, x>> \in Nat \X Nat
    BY <2>1
  <2>3. y < x => <<y, x>> \in Precedes
    BY <2>2 DEF Precedes
  <2> QED BY <1>2, <2>1, <2>3
<1> QED BY <1>3

\* What holds of 0 and of the successor of each number it holds of, holds of all.
LEMMA SetInduction ==
    ASSUME NEW T, 0 \in T, \A n \in Nat : n \in T => n + 1 \in T
    PROVE  \A n \in Nat : n \in T
<1> DEFINE U == {n \in Nat : n \notin T}
<1>1. U \subseteq Nat
  OBVIOUS
<1>2. ASSUME U # {} PROVE FALSE
  <2> HIDE DEF U
  <2>1. PICK x \in U : \A y \in U : x <= y
    BY <1>1, <1>2, LeastElement, Zenon
  <2> USE DEF U
  <2>2. x # 0 /\ x - 1 \in Nat /\ x - 1 \notin U
    BY <2>1
  <2> QED BY <2>2
<1> QED BY <1>2

-----------------------------------------------------------------------------
(* The checksum *)

Sums(bytes, n, f) ==
    f = [k \in 0..n |-> IF k = 0 THEN 0 ELSE (f[k - 1] + bytes[k]) % 256]

\* The sums of a report's bytes exist.
LEMMA SumExists ==
    ASSUME NEW bytes
    PROVE  \A n \in Nat : \E f : Sums(bytes, n, f)
<1> DEFINE T == {n \in Nat : \E f : Sums(bytes, n, f)}
<1>1. 0 \in T
  <2> DEFINE f == [k \in 0..0 |-> 0]
  <2>1. Sums(bytes, 0, f)
    BY DEF Sums
  <2> QED BY <2>1
<1>2. ASSUME NEW n \in Nat, n \in T PROVE n + 1 \in T
  <2>1. PICK f : Sums(bytes, n, f)
    BY <1>2
  <2> DEFINE g == [k \in 0..n + 1 |->
                      IF k = n + 1 THEN (f[n] + bytes[n + 1]) % 256 ELSE f[k]]
  <2>2. Sums(bytes, n + 1, g)
    BY <2>1 DEF Sums
  <2> HIDE DEF g
  <2> QED BY <2>2
<1> HIDE DEF T
<1>3. \A n \in Nat : n \in T
  BY <1>1, <1>2, SetInduction
<1> QED BY <1>3 DEF T

\* What Checksum returns.
LEMMA ChecksumSum ==
    ASSUME NEW bytes, Len(bytes) \in Nat
    PROVE  \E f : Sums(bytes, Len(bytes), f) /\ Checksum(bytes) = f[Len(bytes)]
<1> DEFINE f == CHOOSE f : Sums(bytes, Len(bytes), f)
<1>1. Sums(bytes, Len(bytes), f)
  BY SumExists, Zenon
<1>2. Checksum(bytes) = f[Len(bytes)]
  BY DEF Checksum, Sums
<1> QED BY <1>1, <1>2

\* A range with numbers for its limits is enumerated by the provers: bytes are
\* compared with theirs instead.
Byte(b) == b \in Nat /\ b < 256

LEMMA ByteOfSum == \A c \in Int : Byte(c % 256)
BY DEF Byte

LEMMA ByteSums ==
    \A c \in Int : \A x, y : Byte(x) /\ Byte(y) /\ x # y =>
        /\ (x + c) % 256 # (y + c) % 256
        /\ (c + x) % 256 # (c + y) % 256
BY DEF Byte

\* Strings of bytes that differ in one.
Differ(a, b, at) ==
    /\ Len(a) \in Nat /\ Len(b) = Len(a) /\ at \in 1..Len(a)
    /\ \A k \in 1..Len(a) : k # at => a[k] \in Int /\ b[k] = a[k]
    /\ Byte(a[at]) /\ Byte(b[at]) /\ a[at] # b[at]

\* The next of two sums, where the strings differ and where they do not.
LEMMA NextSums ==
    ASSUME NEW x, NEW y, NEW c, NEW d, Byte(x), Byte(y),
           \/ x = y /\ Byte(c) /\ Byte(d) /\ c # d
           \/ x # y /\ c \in Int /\ d = c
    PROVE  (x + c) % 256 # (y + d) % 256
BY ByteSums DEF Byte

\* They have different checksums.
LEMMA ChecksumDiffers ==
    ASSUME NEW a, NEW b, NEW at, Differ(a, b, at)
    PROVE  Checksum(a) # Checksum(b)
<1> DEFINE n == Len(a)
<1>1. n \in Nat /\ Len(b) = n /\ at \in 1..n
  BY DEF Differ
<1> HIDE DEF n
<1>2. PICK f : Sums(a, n, f) /\ Checksum(a) = f[n]
  BY <1>1, ChecksumSum DEF n
<1>3. PICK g : Sums(b, n, g) /\ Checksum(b) = g[n]
  BY <1>1, ChecksumSum
<1>4. f[0] = 0 /\ g[0] = 0
  BY <1>1, <1>2, <1>3 DEF Sums
<1>5. ASSUME NEW k \in 1..n
      PROVE  f[k] = (f[k - 1] + a[k]) % 256 /\ g[k] = (g[k - 1] + b[k]) % 256
  BY <1>1, <1>2, <1>3 DEF Sums
<1>6. ASSUME NEW k \in 1..n
      PROVE  /\ a[k] \in Int /\ b[k] \in Int
             /\ k # at => b[k] = a[k]
             /\ k = at => Byte(a[k]) /\ Byte(b[k]) /\ a[k] # b[k]
  BY DEF Differ, n, Byte
<1> DEFINE Before(k) == f[k] = g[k] /\ k < at
           After(k) == f[k] # g[k] /\ at <= k
           T == {k \in Nat : k <= n => Byte(f[k]) /\ Byte(g[k]) /\ (Before(k) \/ After(k))}
<1>7. 0 \in T
  BY <1>1, <1>4 DEF Byte
<1>8. ASSUME NEW k \in Nat, k \in T PROVE k + 1 \in T
  <2>1. SUFFICES ASSUME k + 1 <= n
                 PROVE  /\ Byte(f[k + 1]) /\ Byte(g[k + 1])
                        /\ Before(k + 1) \/ After(k + 1)
    OBVIOUS
  <2>2. Byte(f[k]) /\ Byte(g[k]) /\ (Before(k) \/ After(k))
    BY <1>1, <1>8, <2>1
  <2>3. k + 1 \in 1..n /\ (k + 1) - 1 = k
    BY <1>1, <2>1
  <2> DEFINE c == a[k + 1]  d == b[k + 1]
  <2>4. f[k + 1] = (f[k] + c) % 256 /\ g[k + 1] = (g[k] + d) % 256
    BY <1>5, <2>3
  <2>5. /\ c \in Int /\ d \in Int
        /\ k + 1 # at => d = c
        /\ k + 1 = at => Byte(c) /\ Byte(d) /\ c # d
    BY <1>6, <2>3
  <2> HIDE DEF c, d
  <2>6. Byte(f[k + 1]) /\ Byte(g[k + 1])
    BY <2>2, <2>4, <2>5, ByteOfSum DEF Byte
  <2>7. CASE k + 1 < at
    BY <1>1, <2>2, <2>4, <2>5, <2>6, <2>7
  <2>8. CASE at <= k + 1
    <3>1. \/ f[k] = g[k] /\ Byte(c) /\ Byte(d) /\ c # d
          \/ f[k] # g[k] /\ c \in Int /\ d = c
      BY <1>1, <2>2, <2>5, <2>8
    <3>2. f[k + 1] # g[k + 1]
      BY <2>2, <2>4, <3>1, NextSums
    <3> QED BY <2>6, <2>8, <3>2
  <2> QED BY <1>1, <2>7, <2>8
<1> HIDE DEF T
<1>9. n \in T
  BY <1>1, <1>7, <1>8, SetInduction
<1> QED BY <1>1, <1>2, <1>3, <1>9 DEF T

\* A checksum is a byte.
LEMMA ChecksumIsByte ==
    ASSUME NEW a, Len(a) \in Nat, \A k \in 1..Len(a) : a[k] \in Int
    PROVE  Byte(Checksum(a))
<1> DEFINE n == Len(a)
<1>1. PICK f : Sums(a, n, f) /\ Checksum(a) = f[n]
  BY ChecksumSum
<1> DEFINE T == {k \in Nat : k <= n => Byte(f[k])}
<1>2. 0 \in T
  BY <1>1 DEF Sums, Byte
<1>3. ASSUME NEW k \in Nat, k \in T PROVE k + 1 \in T
  <2>1. SUFFICES ASSUME k + 1 <= n PROVE Byte(f[k + 1])
    OBVIOUS
  <2>2. Byte(f[k]) /\ k + 1 \in 1..n
    BY <1>3, <2>1
  <2>3. f[k + 1] = (f[k] + a[k + 1]) % 256
    BY <1>1, <2>2 DEF Sums
  <2>4. f[k] + a[k + 1] \in Int
    BY <2>2 DEF Byte
  <2> QED BY <2>3, <2>4, ByteOfSum
<1> HIDE DEF T
<1>4. n \in T
  BY <1>2, <1>3, SetInduction
<1> QED BY <1>1, <1>4 DEF T

-----------------------------------------------------------------------------
(* A report and what is read from it *)

\* The frames that encodeFrame takes.
Sendable(f) ==
    /\ f = [op |-> f.op, off |-> f.off, n |-> f.n, data |-> f.data]
    /\ f.op \in Nat /\ f.op < 65536 /\ f.off \in Nat /\ f.off < 16777216 /\ Byte(f.n)
    /\ f.data \in Seq(Int) /\ \A k \in 1..Len(f.data) : Byte(f.data[k])
    /\ Len(f.data) <= MaxData

\* Bytes, filled up to the size of a report.
Filled(bytes, size) == [i \in 1..size |-> IF i <= Len(bytes) THEN bytes[i] ELSE 0]

\* A head, data and a sum in a report.
Holds(report, size, head, data, sum, n) ==
    /\ report \in [1..size -> Int]
    /\ \A k \in 1..Len(head) : report[k] = head[k]
    /\ \A k \in 1..Len(data) : report[Len(head) + k] = data[k]
    /\ report[n + 1] = sum
    /\ SubSeq(report, 1, n) = head \o data

LEMMA Assembled ==
    ASSUME NEW head \in Seq(Int), NEW data \in Seq(Int), NEW sum \in Int, NEW size \in Nat,
           NEW n, n = Len(head) + Len(data), n < size
    PROVE  Holds(Filled(Append(head \o data, sum), size), size, head, data, sum, n)
<1> DEFINE body == head \o data
           bytes == Append(body, sum)
           report == Filled(bytes, size)
<1>1. Len(head) \in Nat /\ Len(data) \in Nat /\ n \in Nat /\ n < size
  OBVIOUS
<1>2. body \in Seq(Int) /\ Len(body) = n
  BY <1>1
<1>3. /\ \A k \in 1..Len(head) : body[k] = head[k]
      /\ \A k \in 1..Len(data) : body[Len(head) + k] = data[k]
  BY <1>1, ConcatProperties
<1> HIDE DEF body
<1>4. /\ Len(bytes) = n + 1 /\ bytes[n + 1] = sum
      /\ \A k \in 1..n : bytes[k] = body[k]
  BY <1>1, <1>2
<1> HIDE DEF bytes
<1>5. report = [i \in 1..size |-> IF i <= n + 1 THEN bytes[i] ELSE 0]
  BY <1>4 DEF Filled
<1> HIDE DEF report
<1>6. /\ \A k \in 1..n : report[k] = body[k]
      /\ report[n + 1] = sum
  BY <1>1, <1>4, <1>5
<1>7. \A k \in 1..n : body[k] \in Int
  BY <1>1, <1>2
<1>8. report \in [1..size -> Int]
  <2>1. ASSUME NEW i \in 1..size PROVE report[i] \in Int
    <3>1. CASE i <= n
      BY <1>1, <1>6, <1>7, <3>1
    <3>2. CASE i = n + 1
      BY <1>6, <3>2
    <3>3. CASE i > n + 1
      BY <1>1, <1>5, <3>3
    <3> QED BY <1>1, <3>1, <3>2, <3>3
  <2> QED BY <1>5, <2>1
<1>9. SubSeq(report, 1, n) = body
  <2>1. \A i \in 1..n : report[i] \in Int
    BY <1>6, <1>7
  <2>2. /\ SubSeq(report, 1, n) \in Seq(Int)
        /\ Len(SubSeq(report, 1, n)) = n
        /\ \A i \in 1..n : SubSeq(report, 1, n)[i] = report[i]
    BY <1>1, <2>1, SubSeqProperties
  <2> QED BY <1>1, <1>2, <1>6, <2>2, SeqEqual
<1>10. ASSUME NEW k \in 1..Len(head) PROVE report[k] = head[k]
  <2>1. k \in 1..n
    BY <1>1
  <2> QED BY <1>3, <1>6, <2>1
<1>11. ASSUME NEW k \in 1..Len(data) PROVE report[Len(head) + k] = data[k]
  <2>1. Len(head) + k \in 1..n
    BY <1>1
  <2> QED BY <1>3, <1>6, <2>1
<1> QED BY <1>6, <1>8, <1>9, <1>10, <1>11 DEF Holds, body, bytes, report

\* The bytes of an encoded frame, one by one.
Numbers(report, f) ==
    /\ report[5] = f.op % 256 /\ report[6] = f.op \div 256 /\ report[7] = 0
    /\ report[8] = (f.off \div 256) % 256 /\ report[9] = f.off % 256
    /\ report[10] = (f.off \div 65536) % 256 /\ report[11] = f.n

Layout(report, f, length) ==
    /\ report \in [1..ReportSize -> Int]
    /\ length \in Nat /\ 12 <= length /\ length <= ReportSize /\ ReportSize \in Nat
    /\ report[1] = \h33 /\ report[2] = \hCC /\ report[3] = 0 /\ report[4] = length
    /\ Numbers(report, f)
    /\ \A k \in 1..Len(f.data) : report[11 + k] = f.data[k]
    /\ report[length] = Checksum(SubSeq(report, 1, length - 1))
    /\ Byte(report[length])

LEMMA EncodedBytes ==
    ASSUME NEW f, Sendable(f)
    PROVE  Layout(EncodeFrame(f), f, 12 + Len(f.data))
<1> DEFINE data == f.data
           length == 12 + Len(data)
           head == <<\h33, \hCC, 0, length, f.op % 256, f.op \div 256, 0,
                     (f.off \div 256) % 256, f.off % 256, (f.off \div 65536) % 256, f.n>>
           sum == Checksum(head \o data)
           report == EncodeFrame(f)
<1>1. /\ f.op \in Nat /\ f.off \in Nat /\ f.n \in Nat /\ data \in Seq(Int)
      /\ Len(data) \in Nat /\ length \in Nat /\ 12 <= length /\ length <= ReportSize
      /\ ReportSize \in Nat
  BY FrameAssumption DEF Sendable, MaxData, Byte
<1>2. report = Filled(Append(head \o data, sum), ReportSize)
  BY DEF EncodeFrame, Filled
<1> HIDE DEF data, report, length
<1>3. head \in Seq(Int) /\ Len(head) = 11
  BY <1>1, SMTT(30)
<1>4. /\ head[1] = \h33 /\ head[2] = \hCC /\ head[3] = 0 /\ head[4] = length
      /\ head[5] = f.op % 256 /\ head[6] = f.op \div 256 /\ head[7] = 0
      /\ head[8] = (f.off \div 256) % 256 /\ head[9] = f.off % 256
      /\ head[10] = (f.off \div 65536) % 256 /\ head[11] = f.n
  OBVIOUS
<1> HIDE DEF head
<1>5. Byte(sum)
  <2> DEFINE body == head \o data
  <2>1. body \in Seq(Int)
    BY <1>1, <1>3
  <2> HIDE DEF body
  <2>2. Len(body) \in Nat /\ \A k \in 1..Len(body) : body[k] \in Int
    BY <2>1
  <2>3. Byte(Checksum(body))
    BY <2>2, ChecksumIsByte
  <2> QED BY <2>3 DEF body
<1>6. length - 1 = Len(head) + Len(data) /\ (length - 1) + 1 = length /\ length - 1 < ReportSize
  BY <1>1, <1>3 DEF length
<1>7. sum \in Int
  BY <1>5 DEF Byte
<1> HIDE DEF sum
<1>8. /\ report \in [1..ReportSize -> Int]
      /\ \A k \in 1..Len(head) : report[k] = head[k]
      /\ \A k \in 1..Len(data) : report[Len(head) + k] = data[k]
      /\ report[length] = sum
      /\ SubSeq(report, 1, length - 1) = head \o data
  <2> DEFINE n == length - 1
  <2>1. n = Len(head) + Len(data) /\ n + 1 = length /\ n < ReportSize
    BY <1>6
  <2> HIDE DEF n
  <2>2. Holds(report, ReportSize, head, data, sum, n)
    BY <1>1, <1>2, <1>3, <1>7, <2>1, Assembled
  <2> QED BY <2>1, <2>2 DEF n, Holds
<1>9. /\ report[1] = head[1] /\ report[2] = head[2] /\ report[3] = head[3]
      /\ report[4] = head[4] /\ report[5] = head[5] /\ report[6] = head[6]
      /\ report[7] = head[7] /\ report[8] = head[8] /\ report[9] = head[9]
      /\ report[10] = head[10] /\ report[11] = head[11]
  BY <1>3, <1>8
<1>10. \A k \in 1..Len(data) : report[11 + k] = data[k]
  BY <1>3, <1>8
<1>11. report[length] = Checksum(SubSeq(report, 1, length - 1))
  BY <1>6, <1>8 DEF sum
<1>12. Byte(report[length])
  BY <1>5, <1>6, <1>8
<1>13. /\ report[1] = \h33 /\ report[2] = \hCC /\ report[3] = 0 /\ report[4] = length
       /\ report[5] = f.op % 256 /\ report[6] = f.op \div 256 /\ report[7] = 0
       /\ report[8] = (f.off \div 256) % 256 /\ report[9] = f.off % 256
       /\ report[10] = (f.off \div 65536) % 256 /\ report[11] = f.n
  BY <1>4, <1>9
<1>14. Layout(report, f, length)
  BY <1>1, <1>8, <1>10, <1>11, <1>12, <1>13 DEF Layout, Numbers, data
<1> QED BY <1>14 DEF report, length, data

\* Two and three bytes make the number they were made of.
LEMMA TwoBytes ==
    ASSUME NEW x \in Nat, NEW a, NEW b, a = x % 256, b = x \div 256
    PROVE  a + 256 * b = x
BY SMT

Number(a, b, c) == 65536 * a + 256 * b + c

LEMMA ThreeBytes ==
    ASSUME NEW x \in Nat, x < 16777216
    PROVE  Number((x \div 65536) % 256, (x \div 256) % 256, x % 256) = x
<1> DEFINE y == x \div 256
<1>1. y \in Nat /\ x = 256 * y + (x % 256) /\ y < 65536 /\ x % 256 \in Int
  BY SMT
<1>2. x \div 65536 = y \div 256
  BY SMT
<1> HIDE DEF y
<1>3. y = 256 * (y \div 256) + (y % 256) /\ (y \div 256) % 256 = y \div 256
  BY <1>1, SMT
<1> QED BY <1>1, <1>2, <1>3, SMT DEF y, Number

LEMMA NumbersRead ==
    ASSUME NEW f, NEW report, f.op \in Nat, f.off \in Nat, f.off < 16777216, Numbers(report, f)
    PROVE  /\ report[5] + 256 * report[6] = f.op
           /\ Number(report[10], report[8], report[9]) = f.off
           /\ report[11] = f.n
<1>1. report[5] + 256 * report[6] = f.op
  BY TwoBytes, SMT DEF Numbers
<1>2. Number(report[10], report[8], report[9]) = f.off
  BY ThreeBytes, SMT DEF Numbers
<1>3. report[11] = f.n
  BY SMT DEF Numbers
<1> QED BY <1>1, <1>2, <1>3

LEMMA NumbersAreBytes ==
    ASSUME NEW f, NEW report, f.op \in Nat, f.op < 65536, f.off \in Nat, Byte(f.n),
           Numbers(report, f)
    PROVE  /\ Byte(report[5]) /\ Byte(report[6]) /\ Byte(report[7]) /\ Byte(report[8])
           /\ Byte(report[9]) /\ Byte(report[10]) /\ Byte(report[11])
<1>1. /\ Byte(f.op % 256) /\ Byte(f.op \div 256) /\ Byte(0)
  BY SMT DEF Byte
<1>2. /\ Byte((f.off \div 256) % 256) /\ Byte(f.off % 256) /\ Byte((f.off \div 65536) % 256)
  BY ByteOfSum, SMT
<1> QED BY <1>1, <1>2, SMT DEF Numbers

\* The part of a sequence that another one was put into.
LEMMA CutOut ==
    ASSUME NEW r, NEW s \in Seq(Int), NEW m \in Int, \A k \in 1..Len(s) : r[m + k] = s[k]
    PROVE  SubSeq(r, m + 1, m + Len(s)) = s
<1> DEFINE n == Len(s)  l == m + n
<1>1. n \in Nat /\ l \in Int /\ m + 1 \in Int /\ l - (m + 1) + 1 = n
  OBVIOUS
<1>2. ASSUME NEW i \in m + 1..l PROVE r[i] \in Int
  <2> DEFINE k == i - m
  <2>1. k \in 1..n /\ m + k = i
    BY <1>1
  <2> HIDE DEF k
  <2>2. s[k] \in Int
    BY <2>1
  <2> QED BY <2>1, <2>2
<1>3. m + 1 <= l <=> n > 0
  BY <1>1
<1> HIDE DEF l
<1>4. /\ SubSeq(r, m + 1, l) \in Seq(Int)
      /\ Len(SubSeq(r, m + 1, l)) = IF m + 1 <= l THEN l - (m + 1) + 1 ELSE 0
      /\ \A k \in 1..l - (m + 1) + 1 : SubSeq(r, m + 1, l)[k] = r[m + 1 + k - 1]
  BY <1>1, <1>2, SubSeqProperties
<1>5. Len(SubSeq(r, m + 1, l)) = n
  BY <1>1, <1>3, <1>4
<1>6. ASSUME NEW k \in 1..n PROVE SubSeq(r, m + 1, l)[k] = s[k]
  BY <1>1, <1>4
<1>7. SubSeq(r, m + 1, l) = s
  BY <1>4, <1>5, <1>6, SeqEqual
<1> QED BY <1>7 DEF l

\* A report with these bytes is read as the frame.
LEMMA LayoutRead ==
    ASSUME NEW f, Sendable(f), NEW report, NEW length, length = 12 + Len(f.data),
           Layout(report, f, length)
    PROVE  DecodeFrame(report) =
               [ok |-> TRUE, op |-> f.op, off |-> f.off, n |-> f.n, data |-> f.data]
<1>1. /\ f.op \in Nat /\ f.off \in Nat /\ f.off < 16777216
      /\ f.data \in Seq(Int) /\ Len(f.data) \in Nat
  BY DEF Sendable
<1>2. /\ report \in [1..ReportSize -> Int] /\ Len(report) = ReportSize
      /\ length \in Nat /\ 12 <= length /\ length <= ReportSize /\ ReportSize \in Nat
  BY DEF Layout
<1>3. /\ report[1] = \h33 /\ report[2] = \hCC /\ report[3] = 0 /\ report[4] = length
  BY DEF Layout
<1>4. WellFormed(report)
  <2>1. SubSeq(report, 1, 3) = <<\h33, \hCC, 0>>
    <3>1. \A i \in 1..3 : report[i] \in Int
      BY <1>2
    <3>2. /\ SubSeq(report, 1, 3) \in Seq(Int) /\ Len(SubSeq(report, 1, 3)) = 3
          /\ \A i \in 1..3 : SubSeq(report, 1, 3)[i] = report[i]
      BY <3>1, SubSeqProperties
    <3>3. <<\h33, \hCC, 0>> \in Seq(Int) /\ Len(<<\h33, \hCC, 0>>) = 3
      OBVIOUS
    <3>4. \A i \in 1..3 : SubSeq(report, 1, 3)[i] = <<\h33, \hCC, 0>>[i]
      BY <1>3, <3>2
    <3> DEFINE lead == SubSeq(report, 1, 3)  magic == <<\h33, \hCC, 0>>
    <3>5. /\ lead \in Seq(Int) /\ magic \in Seq(Int) /\ Len(lead) = Len(magic)
          /\ \A i \in 1..Len(lead) : lead[i] = magic[i]
      BY <3>2, <3>3, <3>4
    <3> HIDE DEF lead, magic
    <3>6. lead = magic
      BY <3>5, SeqEqual
    <3> QED BY <3>6 DEF lead, magic
  <2>2. Len(report) >= 12 /\ report[4] \in 12..Len(report)
    BY <1>2, <1>3
  <2>3. report[report[4]] = Checksum(SubSeq(report, 1, report[4] - 1))
    BY <1>3 DEF Layout
  <2> QED BY <2>1, <2>2, <2>3 DEF WellFormed
<1>5. Numbers(report, f)
  BY DEF Layout
<1>6. /\ report[5] + 256 * report[6] = f.op
      /\ Number(report[10], report[8], report[9]) = f.off
      /\ report[11] = f.n
  BY <1>1, <1>5, NumbersRead
<1>8. SubSeq(report, 12, report[4] - 1) = f.data
  <2>1. \A k \in 1..Len(f.data) : report[11 + k] = f.data[k]
    BY DEF Layout
  <2>2. SubSeq(report, 11 + 1, 11 + Len(f.data)) = f.data
    BY <1>1, <2>1, CutOut
  <2>3. 11 + 1 = 12 /\ 11 + Len(f.data) = report[4] - 1
    BY <1>1, <1>3
  <2> QED BY <2>2, <2>3
<1> DEFINE op == report[5] + 256 * report[6]
           off == Number(report[10], report[8], report[9])
           data == SubSeq(report, 12, report[4] - 1)
<1>9. DecodeFrame(report) = [ok |-> TRUE, op |-> op, off |-> off, n |-> report[11], data |-> data]
  BY <1>4, SMT DEF DecodeFrame, Number
<1>10. op = f.op /\ off = f.off /\ report[11] = f.n /\ data = f.data
  BY <1>6, <1>8
<1> HIDE DEF op, off, data
<1> QED BY <1>9, <1>10

\* One byte of a report is overwritten.
LEMMA Overwritten ==
    ASSUME NEW n, NEW s \in [1..n -> Int], NEW at \in 1..n, NEW b \in Int
    PROVE  /\ [s EXCEPT ![at] = b] \in [1..n -> Int]
           /\ [s EXCEPT ![at] = b][at] = b
           /\ \A k \in 1..n : k # at => [s EXCEPT ![at] = b][k] = s[k]
OBVIOUS

\* The front of a sequence is all that SubSeq looks at.
LEMMA SameFront ==
    ASSUME NEW r, NEW s, NEW n \in Nat,
           \A k \in 1..n : s[k] \in Int, \A k \in 1..n : r[k] = s[k]
    PROVE  SubSeq(r, 1, n) = SubSeq(s, 1, n)
<1>1. \A k \in 1..n : r[k] \in Int
  OBVIOUS
<1>2. /\ SubSeq(r, 1, n) \in Seq(Int) /\ Len(SubSeq(r, 1, n)) = n
      /\ \A k \in 1..n : SubSeq(r, 1, n)[k] = r[k]
  BY <1>1, SubSeqProperties
<1>3. /\ SubSeq(s, 1, n) \in Seq(Int) /\ Len(SubSeq(s, 1, n)) = n
      /\ \A k \in 1..n : SubSeq(s, 1, n)[k] = s[k]
  BY SubSeqProperties
<1> QED BY <1>2, <1>3, SeqEqual

LEMMA Positions ==
    ASSUME NEW length \in Nat, 12 <= length
    PROVE  /\ 1 \in 1..length /\ 2 \in 1..length /\ 3 \in 1..length /\ 4 \in 1..length
           /\ 5 \in 1..length /\ 6 \in 1..length /\ 7 \in 1..length /\ 8 \in 1..length
           /\ 9 \in 1..length /\ 10 \in 1..length /\ 11 \in 1..length /\ length \in 1..length
OBVIOUS

\* A report's layout is in the bytes up to its length.
LEMMA LayoutKept ==
    ASSUME NEW f, Sendable(f), NEW length, length = 12 + Len(f.data), NEW sent, NEW report,
           Layout(sent, f, length), report \in [1..ReportSize -> Int],
           \A k \in 1..length : report[k] = sent[k]
    PROVE  Layout(report, f, length)
<1>1. /\ sent \in [1..ReportSize -> Int] /\ Len(f.data) \in Nat
      /\ length \in Nat /\ 12 <= length /\ length <= ReportSize /\ ReportSize \in Nat
  BY DEF Layout, Sendable
<1>2. SubSeq(report, 1, length - 1) = SubSeq(sent, 1, length - 1)
  <2> DEFINE n == length - 1
  <2>1. n \in Nat
    BY <1>1
  <2>2. ASSUME NEW k \in 1..n PROVE sent[k] \in Int /\ report[k] = sent[k]
    <3>1. k \in 1..length /\ k \in 1..ReportSize
      BY <1>1, SMTT(30)
    <3> QED BY <1>1, <3>1, Zenon
  <2> HIDE DEF n
  <2>3. SubSeq(report, 1, n) = SubSeq(sent, 1, n)
    BY <2>1, <2>2, SameFront
  <2> QED BY <2>3 DEF n
<1>3. /\ 1 \in 1..length /\ 2 \in 1..length /\ 3 \in 1..length /\ 4 \in 1..length
      /\ 5 \in 1..length /\ 6 \in 1..length /\ 7 \in 1..length /\ 8 \in 1..length
      /\ 9 \in 1..length /\ 10 \in 1..length /\ 11 \in 1..length /\ length \in 1..length
  BY <1>1, Positions, Zenon
<1>4. /\ report[1] = sent[1] /\ report[2] = sent[2] /\ report[3] = sent[3]
      /\ report[4] = sent[4] /\ report[5] = sent[5] /\ report[6] = sent[6]
      /\ report[7] = sent[7] /\ report[8] = sent[8] /\ report[9] = sent[9]
      /\ report[10] = sent[10] /\ report[11] = sent[11] /\ report[length] = sent[length]
  BY <1>3, Zenon
<1>5. ASSUME NEW k \in 1..Len(f.data) PROVE report[11 + k] = f.data[k]
  <2>1. 11 + k \in 1..length
    BY <1>1
  <2>2. report[11 + k] = sent[11 + k]
    BY <2>1, Zenon
  <2> QED BY <2>2 DEF Layout
<1>6. Numbers(report, f)
  <2>1. Numbers(sent, f)
    BY DEF Layout
  <2> QED BY <1>4, <2>1, SMT DEF Numbers
<1>7. /\ report[1] = \h33 /\ report[2] = \hCC /\ report[3] = 0 /\ report[4] = length
  BY <1>4 DEF Layout
<1>8. /\ report[length] = Checksum(SubSeq(report, 1, length - 1))
      /\ Byte(report[length])
  BY <1>2, <1>4 DEF Layout
<1> QED BY <1>1, <1>5, <1>6, <1>7, <1>8, Zenon DEF Layout

\* Damage behind the checksum is not seen.
LEMMA PaddingIgnored ==
    ASSUME NEW f, Sendable(f), NEW length, length = 12 + Len(f.data), NEW sent,
           Layout(sent, f, length),
           NEW at \in 1..ReportSize, at > length, NEW byte \in Int
    PROVE  Layout([sent EXCEPT ![at] = byte], f, length)
<1> DEFINE report == [sent EXCEPT ![at] = byte]
<1>1. /\ sent \in [1..ReportSize -> Int]
      /\ length \in Nat /\ length <= ReportSize /\ ReportSize \in Nat
  BY DEF Layout
<1>2. /\ report \in [1..ReportSize -> Int]
      /\ \A k \in 1..ReportSize : k # at => report[k] = sent[k]
  BY <1>1, Overwritten, Zenon
<1> HIDE DEF report
<1>3. ASSUME NEW k \in 1..length PROVE report[k] = sent[k]
  <2>1. k \in 1..ReportSize /\ k # at
    BY <1>1
  <2> QED BY <1>2, <2>1, Zenon
<1>4. Layout(report, f, length)
  BY <1>2, <1>3, LayoutKept
<1> QED BY <1>4 DEF report

\* The other damage to one byte is, but for that to the length.
LEMMA DamageSeen ==
    ASSUME NEW f, Sendable(f), NEW length, length = 12 + Len(f.data), NEW sent,
           Layout(sent, f, length),
           NEW at \in 1..ReportSize, at <= length, at # 4,
           NEW byte, Byte(byte), byte # sent[at]
    PROVE  ~WellFormed([sent EXCEPT ![at] = byte])
<1> DEFINE report == [sent EXCEPT ![at] = byte]
<1>1. /\ sent \in [1..ReportSize -> Int] /\ Len(f.data) \in Nat
      /\ length \in Nat /\ 12 <= length /\ length <= ReportSize /\ ReportSize \in Nat
      /\ byte \in Int
  <2>1. sent \in [1..ReportSize -> Int] /\ length \in Nat /\ 12 <= length
        /\ length <= ReportSize /\ ReportSize \in Nat
    BY Zenon DEF Layout
  <2>2. f.data \in Seq(Int)
    BY SMTT(30) DEF Sendable
  <2>3. byte \in Nat
    BY Zenon DEF Byte
  <2> QED BY <2>1, <2>2, <2>3
<1>2. /\ report \in [1..ReportSize -> Int] /\ report[at] = byte
      /\ \A k \in 1..ReportSize : k # at => report[k] = sent[k]
  BY <1>1, Overwritten, Zenon
<1> HIDE DEF report
<1>3. report[4] = length
  BY <1>1, <1>2 DEF Layout
<1> DEFINE n == length - 1
           read == SubSeq(report, 1, n)
           whole == SubSeq(sent, 1, n)
<1>4. n \in Nat /\ 11 <= n /\ n + 1 = length /\ n <= ReportSize
  BY <1>1
<1> HIDE DEF n
<1>5. /\ read \in Seq(Int) /\ Len(read) = n
      /\ \A k \in 1..n : read[k] = report[k]
  <2>1. \A k \in 1..n : report[k] \in Int
    BY <1>1, <1>2, <1>4
  <2> QED BY <1>4, <2>1, SubSeqProperties
<1>6. /\ whole \in Seq(Int) /\ Len(whole) = n
      /\ \A k \in 1..n : whole[k] = sent[k]
  <2>1. \A k \in 1..n : sent[k] \in Int
    BY <1>1, <1>4
  <2> QED BY <1>4, <2>1, SubSeqProperties
<1>7. sent[length] = Checksum(whole)
  BY DEF Layout, n
<1> HIDE DEF read, whole
<1>8. CASE at = length
  <2>1. ASSUME NEW k \in 1..n PROVE read[k] = whole[k]
    <3>1. k \in 1..ReportSize /\ k # at
      BY <1>1, <1>4, <1>8
    <3> QED BY <1>2, <1>5, <1>6, <3>1, Zenon
  <2>2. read = whole
    BY <1>5, <1>6, <2>1, SeqEqual
  <2> QED BY <1>2, <1>3, <1>7, <1>8, <2>2 DEF WellFormed, read, n, report
<1>9. CASE at < length /\ at <= 3
  <2>1. ASSUME WellFormed(report) PROVE FALSE
    <3>1. SubSeq(report, 1, 3) = <<\h33, \hCC, 0>>
      BY <2>1 DEF WellFormed
    <3>2. \A i \in 1..3 : report[i] \in Int
      BY <1>1, <1>2
    <3>3. \A i \in 1..3 : SubSeq(report, 1, 3)[i] = report[i]
      BY <3>2, SubSeqProperties
    <3>4. report[1] = \h33 /\ report[2] = \hCC /\ report[3] = 0
      <4>1. 1 \in 1..3 /\ 2 \in 1..3 /\ 3 \in 1..3
        OBVIOUS
      <4>2. /\ report[1] = <<\h33, \hCC, 0>>[1] /\ report[2] = <<\h33, \hCC, 0>>[2]
            /\ report[3] = <<\h33, \hCC, 0>>[3]
        BY <3>1, <3>3, <4>1, Zenon
      <4> QED BY <4>2
    <3>5. sent[1] = \h33 /\ sent[2] = \hCC /\ sent[3] = 0
      BY DEF Layout
    <3> QED BY <1>2, <1>9, <3>4, <3>5
  <2> QED BY <2>1 DEF report
<1>10. CASE at < length /\ at > 4
  <2>1. at \in 1..n
    BY <1>1, <1>4, <1>10
  <2>2. Byte(sent[at])
    <3>1. CASE at <= 11
      <4>1. /\ f.op \in Nat /\ f.op < 65536 /\ f.off \in Nat /\ f.off < 16777216 /\ Byte(f.n)
        BY DEF Sendable
      <4>2. Numbers(sent, f)
        BY DEF Layout
      <4>3. /\ Byte(sent[5]) /\ Byte(sent[6]) /\ Byte(sent[7]) /\ Byte(sent[8])
            /\ Byte(sent[9]) /\ Byte(sent[10]) /\ Byte(sent[11])
        BY <4>1, <4>2, NumbersAreBytes
      <4> QED BY <1>10, <3>1, <4>3
    <3>2. CASE at > 11
      <4>1. at - 11 \in 1..Len(f.data) /\ 11 + (at - 11) = at
        BY <1>1, <1>10, <3>2
      <4>2. sent[at] = f.data[at - 11]
        BY <4>1 DEF Layout
      <4> QED BY <4>1, <4>2 DEF Sendable
    <3> QED BY <3>1, <3>2
  <2>3. Differ(whole, read, at)
    <3>1. ASSUME NEW k \in 1..n, k # at PROVE whole[k] \in Int /\ read[k] = whole[k]
      <4>1. k \in 1..ReportSize
        BY <1>1, <1>4
      <4>2. sent[k] \in Int
        BY <1>1, <4>1, Zenon
      <4> QED BY <1>2, <1>5, <1>6, <3>1, <4>1, <4>2, Zenon
    <3>2. whole[at] = sent[at] /\ read[at] = byte
      BY <1>2, <1>5, <1>6, <2>1
    <3> QED BY <1>4, <1>5, <1>6, <2>1, <2>2, <3>1, <3>2 DEF Differ
  <2>4. Checksum(read) # Checksum(whole)
    BY <2>3, ChecksumDiffers
  <2>5. report[length] = sent[length]
    BY <1>1, <1>2, <1>10
  <2> QED BY <1>3, <1>7, <2>4, <2>5 DEF WellFormed, read, n, report
<1> QED BY <1>8, <1>9, <1>10
=============================================================================
