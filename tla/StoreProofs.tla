----------------------------- MODULE StoreProofs -----------------------------
(***************************************************************************)
(* A download holds the records of a store at their own positions, for     *)
(* every store, and the pages and times made of it are of those records.   *)
(***************************************************************************)
EXTENDS CodecProofs, FiniteSetTheorems

-----------------------------------------------------------------------------
(* The elements of a sequence that are kept *)

KeptBy(s, P, n, f) ==
    f = [k \in 0..n |-> IF k = 0 THEN <<>>
                        ELSE IF k \in P THEN Append(f[k - 1], s[k]) ELSE f[k - 1]]

\* A function on an initial segment is a sequence of that length.
LEMMA ListIs ==
    ASSUME NEW Q, NEW n \in Nat, NEW q \in [1..n -> Q]
    PROVE  q \in Seq(Q) /\ Len(q) = n
OBVIOUS

LEMMA KeptExists ==
    ASSUME NEW s, NEW P
    PROVE  \A n \in Nat : \E f : KeptBy(s, P, n, f)
<1> DEFINE T == {n \in Nat : \E f : KeptBy(s, P, n, f)}
<1>1. 0 \in T
  <2> DEFINE f == [k \in 0..0 |-> <<>>]
  <2>1. KeptBy(s, P, 0, f)
    BY DEF KeptBy
  <2> QED BY <2>1
<1>2. ASSUME NEW n \in Nat, n \in T PROVE n + 1 \in T
  <2>1. PICK f : KeptBy(s, P, n, f)
    BY <1>2
  <2> DEFINE last == IF n + 1 \in P THEN Append(f[n], s[n + 1]) ELSE f[n]
             g == [k \in 0..n + 1 |-> IF k = n + 1 THEN last ELSE f[k]]
  <2> DEFINE next(k, e) == IF k \in P THEN Append(e, s[k]) ELSE e
  <2>2. \A k \in 0..n : f[k] = IF k = 0 THEN <<>> ELSE next(k, f[k - 1])
    BY <2>1, Zenon DEF KeptBy
  <2>3. /\ \A k \in 0..n : k \in 0..n + 1 /\ k # n + 1 /\ (k # 0 => k - 1 \in 0..n)
        /\ \A k \in 0..n + 1 : k = n + 1 \/ k \in 0..n
        /\ n + 1 # 0 /\ (n + 1) - 1 = n /\ n \in 0..n /\ n + 1 \in 0..n + 1
    OBVIOUS
  <2>4. g[n + 1] = next(n + 1, f[n]) /\ \A k \in 0..n : g[k] = f[k]
    BY <2>3, Zenon
  <2> HIDE DEF next
  <2>5. ASSUME NEW k \in 0..n + 1 PROVE g[k] = IF k = 0 THEN <<>> ELSE next(k, g[k - 1])
    <3>1. CASE k = n + 1
      BY <2>3, <2>4, <3>1
    <3>2. CASE k \in 0..n
      BY <2>2, <2>3, <2>4, <3>2
    <3> QED BY <2>3, <3>1, <3>2
  <2>6. g = [k \in 0..n + 1 |-> g[k]]
    OBVIOUS
  <2> HIDE DEF g
  <2>7. g = [k \in 0..n + 1 |-> IF k = 0 THEN <<>> ELSE next(k, g[k - 1])]
    BY <2>5, <2>6, Zenon
  <2>8. KeptBy(s, P, n + 1, g)
    BY <2>7, Zenon DEF KeptBy, next
  <2> QED BY <2>8
<1> HIDE DEF T
<1>3. \A n \in Nat : n \in T
  BY <1>1, <1>2, SetInduction
<1> QED BY <1>3 DEF T

LEMMA KeptIs ==
    ASSUME NEW s, Len(s) \in Nat, NEW P
    PROVE  \E f : KeptBy(s, P, Len(s), f) /\ Kept(s, P) = f[Len(s)]
<1> DEFINE f == CHOOSE f : KeptBy(s, P, Len(s), f)
<1>1. KeptBy(s, P, Len(s), f)
  BY KeptExists, Zenon
<1>2. Kept(s, P) = f[Len(s)]
  BY DEF Kept, KeptBy
<1> QED BY <1>1, <1>2

\* r has the elements of s at the positions of P up to n, in their order: its
\* k-th is the one at h[k].
Selects(r, s, P, n, h) ==
    /\ \A k \in 1..Len(r) : h[k] \in 1..n /\ h[k] \in P /\ r[k] = s[h[k]]
    /\ \A j, k \in 1..Len(r) : j < k => h[j] < h[k]
    /\ \A p \in 1..n : p \in P => \E k \in 1..Len(r) : h[k] = p

LEMMA SelectMore ==
    ASSUME NEW S, NEW r \in Seq(S), NEW s, NEW P, NEW n \in Nat, NEW h, Selects(r, s, P, n, h),
           n + 1 \in P, s[n + 1] \in S
    PROVE  \E g : Selects(Append(r, s[n + 1]), s, P, n + 1, g)
<1> DEFINE m == Len(r)  q == Append(r, s[n + 1])
           g == [k \in 1..m + 1 |-> IF k = m + 1 THEN n + 1 ELSE h[k]]
<1>1. m \in Nat /\ Len(q) = m + 1 /\ \A k \in 1..m : q[k] = r[k]
  OBVIOUS
<1>2. q[m + 1] = s[n + 1]
  OBVIOUS
<1> HIDE DEF m, q
<1>3. g[m + 1] = n + 1 /\ \A k \in 1..m : g[k] = h[k]
  BY <1>1
<1>4. /\ \A k \in 1..m : h[k] \in 1..n /\ h[k] \in P /\ r[k] = s[h[k]]
      /\ \A j, k \in 1..m : j < k => h[j] < h[k]
      /\ \A p \in 1..n : p \in P => \E k \in 1..m : h[k] = p
  BY DEF Selects, m
<1> HIDE DEF g
<1>5. ASSUME NEW k \in 1..m + 1 PROVE g[k] \in 1..n + 1 /\ g[k] \in P /\ q[k] = s[g[k]]
  <2>1. k = m + 1 \/ k \in 1..m
    BY <1>1
  <2> QED BY <1>1, <1>2, <1>3, <1>4, <2>1
<1>6. ASSUME NEW j \in 1..m + 1, NEW k \in 1..m + 1, j < k PROVE g[j] < g[k]
  <2>1. j \in 1..m /\ (k = m + 1 \/ k \in 1..m)
    BY <1>1, <1>6
  <2>2. CASE k = m + 1
    <3>1. g[j] \in 1..n /\ g[k] = n + 1
      BY <1>3, <1>4, <2>1, <2>2
    <3> QED BY <3>1
  <2> QED BY <1>3, <1>4, <1>6, <2>1, <2>2
<1>7. ASSUME NEW p \in 1..n + 1, p \in P PROVE \E k \in 1..m + 1 : g[k] = p
  <2>1. CASE p = n + 1
    BY <1>1, <1>3, <2>1
  <2>2. CASE p \in 1..n
    <3>1. PICK k \in 1..m : h[k] = p
      BY <1>4, <1>7, <2>2
    <3>2. k \in 1..m + 1 /\ g[k] = p
      BY <1>1, <1>3, <3>1
    <3> QED BY <3>2
  <2> QED BY <2>1, <2>2
<1>8. Selects(q, s, P, n + 1, g)
  BY <1>1, <1>5, <1>6, <1>7, Zenon DEF Selects
<1> QED BY <1>8 DEF q

LEMMA SelectPast ==
    ASSUME NEW r, NEW s, NEW P, NEW n \in Nat, NEW h, Selects(r, s, P, n, h), n + 1 \notin P
    PROVE  Selects(r, s, P, n + 1, h)
<1>1. \A p : p \in 1..n + 1 <=> p \in 1..n \/ p = n + 1
  OBVIOUS
<1> QED BY <1>1, Zenon DEF Selects

\* What Kept returns.
LEMMA KeptSelects ==
    ASSUME NEW S, NEW s \in Seq(S), NEW P
    PROVE  Kept(s, P) \in Seq(S) /\ \E h : Selects(Kept(s, P), s, P, Len(s), h)
<1>1. Len(s) \in Nat /\ \A k \in 1..Len(s) : s[k] \in S
  OBVIOUS
<1>2. PICK f : KeptBy(s, P, Len(s), f) /\ Kept(s, P) = f[Len(s)]
  BY <1>1, KeptIs
<1> DEFINE n == Len(s)
           T == {k \in Nat : k <= n => f[k] \in Seq(S) /\ \E h : Selects(f[k], s, P, k, h)}
<1>3. 0 \in T
  <2>1. f[0] = <<>>
    BY <1>1, <1>2 DEF KeptBy
  <2>2. Selects(<<>>, s, P, 0, <<>>)
    BY DEF Selects
  <2>3. <<>> \in Seq(S)
    OBVIOUS
  <2> QED BY <2>1, <2>2, <2>3
<1>4. ASSUME NEW k \in Nat, k \in T PROVE k + 1 \in T
  <2>1. SUFFICES ASSUME k + 1 <= n
                 PROVE  f[k + 1] \in Seq(S) /\ \E h : Selects(f[k + 1], s, P, k + 1, h)
    OBVIOUS
  <2>2. f[k] \in Seq(S) /\ \E h : Selects(f[k], s, P, k, h)
    BY <1>1, <1>4, <2>1
  <2>3. PICK h : Selects(f[k], s, P, k, h)
    BY <2>2
  <2>4. f[k + 1] = IF k + 1 \in P THEN Append(f[k], s[k + 1]) ELSE f[k]
    <3>1. k + 1 \in 0..n /\ k + 1 # 0 /\ (k + 1) - 1 = k
      BY <1>1, <2>1
    <3> QED BY <1>2, <3>1, Zenon DEF KeptBy
  <2>5. s[k + 1] \in S
    BY <1>1, <2>1
  <2>6. CASE k + 1 \in P
    <3>1. \E g : Selects(Append(f[k], s[k + 1]), s, P, k + 1, g)
      BY <2>2, <2>3, <2>5, <2>6, SelectMore, Zenon
    <3>2. Append(f[k], s[k + 1]) \in Seq(S)
      BY <2>2, <2>5
    <3> QED BY <2>4, <2>6, <3>1, <3>2, Zenon
  <2>7. CASE k + 1 \notin P
    <3>1. Selects(f[k], s, P, k + 1, h)
      BY <2>3, <2>7, SelectPast, Zenon
    <3> QED BY <2>2, <2>4, <2>7, <3>1, Zenon
  <2> QED BY <2>6, <2>7
<1> HIDE DEF T
<1>5. n \in T
  BY <1>1, <1>3, <1>4, SetInduction
<1> QED BY <1>1, <1>2, <1>5 DEF T

-----------------------------------------------------------------------------
(* Sequences of records, joined *)

FlatBy(seqs, n, f) ==
    f = [i \in 1..n |-> IF i = 1 THEN seqs[i] ELSE f[i - 1] \o seqs[i]]

LEMMA FlatExists ==
    ASSUME NEW seqs
    PROVE  \A n \in Nat : \E f : FlatBy(seqs, n, f)
<1> DEFINE T == {n \in Nat : \E f : FlatBy(seqs, n, f)}
<1>1. 0 \in T
  <2> DEFINE f == [i \in 1..0 |-> seqs[i]]
  <2>1. FlatBy(seqs, 0, f)
    BY DEF FlatBy
  <2> QED BY <2>1
<1>2. ASSUME NEW n \in Nat, n \in T PROVE n + 1 \in T
  <2>1. PICK f : FlatBy(seqs, n, f)
    BY <1>2
  <2> DEFINE next(i, e) == IF i = 1 THEN seqs[i] ELSE e \o seqs[i]
             last == next(n + 1, f[n])
             g == [i \in 1..n + 1 |-> IF i = n + 1 THEN last ELSE f[i]]
  <2>2. \A i \in 1..n : f[i] = next(i, f[i - 1])
    BY <2>1, Zenon DEF FlatBy
  <2>3. /\ \A i \in 1..n : i \in 1..n + 1 /\ i # n + 1 /\ (i # 1 => i - 1 \in 1..n)
        /\ \A i \in 1..n + 1 : i = n + 1 \/ i \in 1..n
        /\ (n + 1) - 1 = n /\ n + 1 \in 1..n + 1 /\ (n = 0 \/ n \in 1..n) /\ n + 1 # 1 => n # 0
    OBVIOUS
  <2>4. g[n + 1] = last /\ \A i \in 1..n : g[i] = f[i]
    <3> HIDE DEF last
    <3> QED BY <2>3
  <2>5. ASSUME NEW i \in 1..n + 1 PROVE g[i] = next(i, g[i - 1])
    <3>1. CASE i = n + 1
      <4>1. CASE n = 0
        BY <2>4, <3>1, <4>1
      <4>2. CASE n \in 1..n
        <5>1. g[i - 1] = f[n]
          BY <2>3, <2>4, <3>1, <4>2
        <5> HIDE DEF g, next
        <5> QED BY <2>4, <3>1, <5>1
      <4> QED BY <2>3, <4>1, <4>2
    <3>2. CASE i \in 1..n
      <4>1. i # 1 => g[i - 1] = f[i - 1]
        BY <2>3, <2>4, <3>2
      <4>2. g[i] = f[i] /\ f[i] = next(i, f[i - 1])
        BY <2>2, <2>4, <3>2
      <4> QED BY <4>1, <4>2, Zenon
    <3> QED BY <2>3, <3>1, <3>2
  <2>6. g = [i \in 1..n + 1 |-> g[i]]
    OBVIOUS
  <2> HIDE DEF g, next
  <2>7. g = [i \in 1..n + 1 |-> next(i, g[i - 1])]
    BY <2>5, <2>6, Zenon
  <2>8. FlatBy(seqs, n + 1, g)
    BY <2>7, Zenon DEF FlatBy, next
  <2> QED BY <2>8
<1> HIDE DEF T
<1>3. \A n \in Nat : n \in T
  BY <1>1, <1>2, SetInduction
<1> QED BY <1>3 DEF T

LEMMA FlattenIs ==
    ASSUME NEW seqs, Len(seqs) \in Nat, Len(seqs) # 0
    PROVE  \E f : FlatBy(seqs, Len(seqs), f) /\ FlattenSeq(seqs) = f[Len(seqs)]
<1> DEFINE f == CHOOSE f : FlatBy(seqs, Len(seqs), f)
<1>1. FlatBy(seqs, Len(seqs), f)
  BY FlatExists, Zenon
<1>2. FlattenSeq(seqs) = f[Len(seqs)]
  BY DEF FlattenSeq, FlatBy
<1> QED BY <1>1, <1>2

\* Records of R with the positions of W, in their order.
Lists(recs, R, W) ==
    /\ recs \in Seq(R)
    /\ \A k \in 1..Len(recs) : recs[k].index \in W
    /\ \A p \in W : \E k \in 1..Len(recs) : recs[k].index = p
    /\ \A j, k \in 1..Len(recs) : j < k => recs[j].index < recs[k].index

LEMMA JoinLists ==
    ASSUME NEW R, NEW V, NEW W, NEW a, NEW b, Lists(a, R, V), Lists(b, R, W),
           \A x \in V, y \in W : x < y
    PROVE  Lists(a \o b, R, V \cup W)
<1> DEFINE m == Len(a)  n == Len(b)  c == a \o b
<1>1. a \in Seq(R) /\ b \in Seq(R) /\ m \in Nat /\ n \in Nat
  BY DEF Lists
<1>2. /\ c \in Seq(R) /\ Len(c) = m + n
      /\ \A k \in 1..m : c[k] = a[k]
      /\ \A k \in 1..n : c[m + k] = b[k]
  BY <1>1, ConcatProperties
<1>3. /\ \A k \in 1..m : a[k].index \in V
      /\ \A p \in V : \E k \in 1..m : a[k].index = p
      /\ \A j, k \in 1..m : j < k => a[j].index < a[k].index
  BY DEF Lists
<1>4. /\ \A k \in 1..n : b[k].index \in W
      /\ \A p \in W : \E k \in 1..n : b[k].index = p
      /\ \A j, k \in 1..n : j < k => b[j].index < b[k].index
  BY DEF Lists
<1> HIDE DEF m, n, c
<1>5. \A k \in 1..m + n : k \in 1..m \/ (k - m \in 1..n /\ k = m + (k - m))
  BY <1>1
<1>6. ASSUME NEW k \in 1..m + n PROVE c[k].index \in V \cup W
  <2>1. CASE k \in 1..m
    BY <1>2, <1>3, <2>1, Zenon
  <2>2. CASE k - m \in 1..n /\ k = m + (k - m)
    <3>1. c[k] = b[k - m]
      BY <1>2, <2>2
    <3> QED BY <1>4, <2>2, <3>1, Zenon
  <2> QED BY <1>5, <2>1, <2>2
<1>7. ASSUME NEW p \in V \cup W PROVE \E k \in 1..m + n : c[k].index = p
  <2>1. CASE p \in V
    <3>1. PICK k \in 1..m : a[k].index = p
      BY <1>3, <2>1
    <3>2. k \in 1..m + n
      BY <1>1
    <3> QED BY <1>2, <3>1, <3>2, Zenon
  <2>2. CASE p \in W
    <3>1. PICK k \in 1..n : b[k].index = p
      BY <1>4, <2>2
    <3>2. m + k \in 1..m + n
      BY <1>1
    <3> QED BY <1>2, <3>1, <3>2, Zenon
  <2> QED BY <2>1, <2>2
<1>8. ASSUME NEW j \in 1..m + n, NEW k \in 1..m + n, j < k PROVE c[j].index < c[k].index
  <2>1. CASE j \in 1..m /\ k \in 1..m
    BY <1>2, <1>3, <1>8, <2>1, Zenon
  <2>2. CASE j \in 1..m /\ k - m \in 1..n /\ k = m + (k - m)
    <3>1. c[j] = a[j] /\ c[k] = b[k - m]
      BY <1>2, <2>2
    <3> QED BY <1>3, <1>4, <2>2, <3>1, Zenon
  <2>3. CASE j - m \in 1..n /\ j = m + (j - m) /\ k - m \in 1..n /\ k = m + (k - m)
    <3>1. c[j] = b[j - m] /\ c[k] = b[k - m]
      BY <1>2, <2>3
    <3>2. j - m < k - m
      BY <1>1, <1>8
    <3> QED BY <1>4, <2>3, <3>1, <3>2, Zenon
  <2>4. ~(j - m \in 1..n /\ k \in 1..m)
    BY <1>1, <1>8
  <2> QED BY <1>5, <2>1, <2>2, <2>3, <2>4, Zenon
<1> QED BY <1>2, <1>6, <1>7, <1>8, Zenon DEF Lists, c

\* Sequences that list the positions of W, those of each before those of the next.
AllList(seqs, R, W, n) == \A i \in 1..n : Lists(seqs[i], R, W[i])
Follow(W, n) == \A i, j \in 1..n : i < j => \A x \in W[i], y \in W[j] : x < y
Union(W, n) == UNION {W[i] : i \in 1..n}

LEMMA FlattenLists ==
    ASSUME NEW R, NEW n \in Nat, NEW seqs \in [1..n -> Seq(R)], NEW W,
           AllList(seqs, R, W, n), Follow(W, n)
    PROVE  Lists(FlattenSeq(seqs), R, Union(W, n))
<1> DEFINE U(k) == UNION {W[i] : i \in 1..k}
<1>1. Len(seqs) = n
  OBVIOUS
<1>5. U(n) = Union(W, n)
  BY DEF Union
<1>6. /\ \A i \in 1..n : Lists(seqs[i], R, W[i])
      /\ \A i, j \in 1..n : i < j => \A x \in W[i], y \in W[j] : x < y
  BY DEF AllList, Follow
<1>2. CASE n = 0
  <2>1. FlattenSeq(seqs) = seqs
    BY <1>1, <1>2 DEF FlattenSeq
  <2>2. seqs \in Seq(R)
    BY <1>2
  <2>3. U(n) = {} /\ 1..n = {}
    BY <1>2
  <2> HIDE DEF U
  <2> QED BY <1>1, <1>5, <2>1, <2>2, <2>3, Zenon DEF Lists
<1>3. CASE n # 0
  <2>1. PICK f : FlatBy(seqs, n, f) /\ FlattenSeq(seqs) = f[n]
    BY <1>1, <1>3, FlattenIs
  <2> DEFINE T == {k \in Nat : k \in 1..n => Lists(f[k], R, U(k))}
  <2>2. 0 \in T
    OBVIOUS
  <2>3. ASSUME NEW k \in Nat, k \in T PROVE k + 1 \in T
    <3>1. SUFFICES ASSUME k + 1 \in 1..n PROVE Lists(f[k + 1], R, U(k + 1))
      OBVIOUS
    <3>2. Lists(seqs[k + 1], R, W[k + 1])
      BY <1>6, <3>1
    <3>3. CASE k = 0
      <4>1. f[1] = seqs[1]
        BY <1>3, <2>1 DEF FlatBy
      <4>2. U(1) = W[1]
        <5>1. \A i : i \in 1..1 <=> i = 1
          OBVIOUS
        <5>2. \A x : x \in U(1) <=> \E i \in 1..1 : x \in W[i]
          BY Zenon
        <5> HIDE DEF U
        <5>3. \A x : x \in U(1) <=> x \in W[1]
          BY <5>2
        <5> QED BY <5>3, Zenon
      <4>3. k + 1 = 1
        BY <3>3
      <4> HIDE DEF U
      <4> QED BY <3>2, <4>1, <4>2, <4>3
    <3>4. CASE k \in 1..n
      <4>1. k + 1 # 1 /\ (k + 1) - 1 = k
        BY <3>4
      <4>2. f[k + 1] = f[k] \o seqs[k + 1]
        BY <2>1, <3>1, <4>1, Zenon DEF FlatBy
      <4>3. Lists(f[k], R, U(k))
        BY <2>3, <3>4, Zenon
      <4>4. U(k + 1) = U(k) \cup W[k + 1]
        <5>1. \A i : i \in 1..k + 1 <=> i \in 1..k \/ i = k + 1
          OBVIOUS
        <5>2. \A x : x \in U(k + 1) <=> \E i \in 1..k + 1 : x \in W[i]
          BY Zenon
        <5>3. \A x : x \in U(k) <=> \E i \in 1..k : x \in W[i]
          BY Zenon
        <5> HIDE DEF U
        <5>4. \A x : x \in U(k + 1) <=> x \in U(k) \cup W[k + 1]
          BY <5>1, <5>2, <5>3, Zenon
        <5> QED BY <5>4, Zenon
      <4>5. \A x \in U(k), y \in W[k + 1] : x < y
        <5>1. ASSUME NEW i \in 1..k, NEW x \in W[i], NEW y \in W[k + 1] PROVE x < y
          <6>1. i \in 1..n /\ i < k + 1
            BY <3>4
          <6> QED BY <1>6, <3>1, <6>1, Zenon
        <5>2. \A x \in U(k) : \E i \in 1..k : x \in W[i]
          BY Zenon
        <5> HIDE DEF U
        <5> QED BY <5>1, <5>2, Zenon
      <4> HIDE DEF U
      <4> QED BY <3>2, <4>2, <4>3, <4>4, <4>5, JoinLists, SMTT(30)
    <3> QED BY <3>1, <3>3, <3>4
  <2> HIDE DEF T
  <2>4. n \in T
    BY <2>2, <2>3, SetInduction
  <2>5. n \in 1..n
    BY <1>3
  <2> HIDE DEF U
  <2> QED BY <1>5, <2>1, <2>4, <2>5, Zenon DEF T
<1> QED BY <1>2, <1>3

-----------------------------------------------------------------------------
(* What a slot of the store is read as *)

SlotFlags(slot) == (IF slot.paused THEN 2 ELSE 0) + (IF slot.temperature < 0 THEN 8 ELSE 0)

\* The record of an old logger and of one with humidity.
OldRead(slot) ==
    [ok |-> TRUE, time |-> slot.time,
     status |-> IF slot.paused THEN "pause" ELSE "measurement",
     temperature |-> IF slot.paused THEN 0 ELSE slot.temperature,
     humidity |-> Nothing, events |-> {bit \in {1, 16, 32} : Bit(SlotFlags(slot), bit)}]

HumidRead(slot) ==
    [ok |-> TRUE, time |-> Nothing, status |-> "measurement",
     temperature |-> slot.temperature, humidity |-> slot.humidity, events |-> {}]

LEMMA FlagsRead ==
    ASSUME NEW slot, slot.paused \in BOOLEAN, slot.temperature \in Int
    PROVE  /\ Bit(SlotFlags(slot), 2) <=> slot.paused
           /\ Bit(SlotFlags(slot), 8) <=> slot.temperature < 0
           /\ ~Bit(SlotFlags(slot), 4) /\ ~Bit(SlotFlags(slot), 128)
<1>1. CASE slot.paused /\ slot.temperature < 0
  BY <1>1, SMT DEF SlotFlags, Bit, Bits
<1>2. CASE slot.paused /\ ~(slot.temperature < 0)
  BY <1>2, SMT DEF SlotFlags, Bit, Bits
<1>3. CASE ~slot.paused /\ slot.temperature < 0
  BY <1>3, SMT DEF SlotFlags, Bit, Bits
<1>4. CASE ~slot.paused /\ ~(slot.temperature < 0)
  BY <1>4, SMT DEF SlotFlags, Bit, Bits
<1> QED BY <1>1, <1>2, <1>3, <1>4

\* The record that is put into the slot of an old logger.
OldRecord(slot) ==
    [time |-> slot.time, temperature |-> Magnitude(slot.temperature), flags |-> SlotFlags(slot)]

OldProtocol == \h34

LEMMA OldSlotRead ==
    ASSUME NEW slot, Clock(slot.time), Real(slot.time), slot.paused \in BOOLEAN,
           Twelve(slot.temperature),
           NEW b, \A k \in 1..8 : b[k] = RecordBytes(OldRecord(slot))[k]
    PROVE  DecodeRecord(b, OldProtocol) = OldRead(slot)
<1> DEFINE t == slot.time  v == Magnitude(slot.temperature)  f == SlotFlags(slot)
           i == OldRecord(slot)
           status == RecordStatus(f, OldProtocol)
           value == IF status # "measurement" THEN 0 ELSE IF Bit(f, 8) THEN -v ELSE v
<1>1. slot.temperature \in Int /\ TwelveBits(v)
  BY SMT DEF Twelve, TwelveBits, Magnitude
<1>2. Holding(RecordBytes(i), i.time, i.temperature, i.flags)
  BY RecordHolds
<1>3. i.time = t /\ i.temperature = v /\ i.flags = f
  BY DEF OldRecord
<1> HIDE DEF v, f, i
<1>4. Holding(RecordBytes(i), t, v, f)
  BY <1>2, <1>3
<1>5. \A k \in 1..8 : b[k] = RecordBytes(i)[k]
  BY DEF i
<1>6. Holding(b, t, v, f) /\ b[1] = f
  <2>1. /\ 1 \in 1..8 /\ 2 \in 1..8 /\ 3 \in 1..8 /\ 4 \in 1..8
        /\ 5 \in 1..8 /\ 6 \in 1..8 /\ 7 \in 1..8 /\ 8 \in 1..8
    OBVIOUS
  <2> DEFINE a == RecordBytes(i)
  <2>2. /\ b[1] = a[1] /\ b[2] = a[2] /\ b[3] = a[3] /\ b[4] = a[4]
        /\ b[5] = a[5] /\ b[6] = a[6] /\ b[7] = a[7] /\ b[8] = a[8]
    BY <1>5, <2>1, Zenon
  <2> HIDE DEF a
  <2>3. Holding(a, t, v, f)
    BY <1>4 DEF a
  <2> QED BY <2>2, <2>3, SMT DEF Holding
<1>7. OldProtocol \in Nat /\ HasRoom(OldProtocol, v)
  BY SMT DEF OldProtocol, HasRoom
<1>8. RecordRead(b, t, v, f, OldProtocol)
  BY <1>1, <1>6, <1>7, RecordDecoded
<1>9. DecodeRecord(b, OldProtocol) =
          [ok |-> TRUE, time |-> t, status |-> status, temperature |-> value,
           humidity |-> Nothing, events |-> {bit \in {1, 16, 32} : Bit(b[1], bit)}]
  BY <1>8, Zenon DEF RecordRead
<1>10. /\ Bit(f, 2) <=> slot.paused
       /\ Bit(f, 8) <=> slot.temperature < 0
       /\ ~Bit(f, 4) /\ ~Bit(f, 128)
  BY <1>1, FlagsRead DEF f
<1>11. status = IF slot.paused THEN "pause" ELSE "measurement"
  BY <1>10 DEF RecordStatus
<1> HIDE DEF status
<1>12. value = IF slot.paused THEN 0 ELSE slot.temperature
  <2>1. CASE slot.paused
    BY <1>11, <2>1
  <2>2. CASE ~slot.paused /\ slot.temperature < 0
    BY <1>1, <1>10, <1>11, <2>2 DEF v, Magnitude
  <2>3. CASE ~slot.paused /\ ~(slot.temperature < 0)
    BY <1>1, <1>10, <1>11, <2>3 DEF v, Magnitude
  <2> QED BY <2>1, <2>2, <2>3
<1> HIDE DEF value
<1> QED BY <1>6, <1>9, <1>11, <1>12, Zenon DEF OldRead, f

\* A value, or none, in the bytes of a record.
Tenth(v) == v = Nothing \/ (v = [ok |-> TRUE, tenths |-> v.tenths] /\ Twelve(v.tenths))
TenthBytes(v) == IF v.ok THEN TenthsBytes(v.tenths, 4096) ELSE <<255, 255>>

\* The word that holds it.
WordOf(v, w) ==
    /\ w \in Nat /\ TenthBytes(v) = WordBytes(w)
    /\ \A b, k : Word(b, k) = w => DecodeRecordTenths(b, k) = v

LEMMA TenthRead ==
    ASSUME NEW v, Tenth(v)
    PROVE  \E w : WordOf(v, w)
<1>1. CASE v = Nothing
  <2>1. TenthBytes(v) = WordBytes(NoReading) /\ NoReading \in Nat
    BY <1>1, SMT DEF TenthBytes, Nothing, WordBytes, NoReading
  <2>2. ASSUME NEW b, NEW k, Word(b, k) = NoReading PROVE DecodeRecordTenths(b, k) = v
    BY <1>1, <2>2, SMT DEF DecodeRecordTenths, NoReading
  <2> HIDE DEF NoReading
  <2>3. WordOf(v, NoReading)
    BY <2>1, <2>2, Zenon DEF WordOf
  <2> QED BY <2>3
<1>2. CASE v = [ok |-> TRUE, tenths |-> v.tenths] /\ Twelve(v.tenths)
  <2> DEFINE w == RecordWord(v.tenths)
  <2>1. w \in Nat /\ TenthsBytes(v.tenths, 4096) = WordBytes(w)
    BY <1>2, SMT DEF Twelve, TenthsBytes, RecordWord, Signed, WordBytes
  <2>2. v.ok
    BY <1>2, SMT
  <2>3. ASSUME NEW b, NEW k, Word(b, k) = w PROVE DecodeRecordTenths(b, k) = v
    BY <1>2, <2>3, RecordTenthsRead, Zenon
  <2> HIDE DEF w
  <2>4. TenthBytes(v) = WordBytes(w)
    BY <2>1, <2>2 DEF TenthBytes
  <2>5. w \in Nat
    BY <2>1
  <2>6. WordOf(v, w)
    BY <2>3, <2>4, <2>5, Zenon DEF WordOf
  <2> QED BY <2>6
<1> QED BY <1>1, <1>2 DEF Tenth

LEMMA HumidSlotRead ==
    ASSUME NEW slot, Twelve(slot.temperature), Tenth(slot.humidity),
           NEW b, \A k \in 1..4 : b[k] = (TenthBytes(Cell(TRUE, slot.temperature))
                                          \o TenthBytes(slot.humidity))[k]
    PROVE  DecodeRecordTH(b) = HumidRead(slot)
<1> DEFINE t == Cell(TRUE, slot.temperature)  h == slot.humidity
<1>1. Tenth(t)
  BY DEF Tenth, Cell
<1> HIDE DEF t, h
<1>2. PICK v : WordOf(t, v)
  BY <1>1, TenthRead, Zenon
<1>3. PICK w : WordOf(h, w)
  BY TenthRead, Zenon DEF h
<1> DEFINE a == WordBytes(v) \o WordBytes(w)
<1>4. \A k \in 1..4 : b[k] = a[k]
  <2>1. TenthBytes(t) = WordBytes(v) /\ TenthBytes(h) = WordBytes(w)
    BY <1>2, <1>3, Zenon DEF WordOf
  <2>2. a = TenthBytes(t) \o TenthBytes(h)
    BY <2>1
  <2> HIDE DEF a
  <2> QED BY <2>2 DEF t, h
<1>5. Word(a, 1) = v /\ Word(a, 3) = w
  BY <1>2, <1>3, WordsRead DEF WordOf
<1> HIDE DEF a
<1>6. Word(b, 1) = v /\ Word(b, 3) = w
  <2>1. b[1] = a[1] /\ b[2] = a[2] /\ b[3] = a[3] /\ b[4] = a[4]
    BY <1>4
  <2> QED BY <1>5, <2>1 DEF Word
<1>7. DecodeRecordTenths(b, 1) = t /\ DecodeRecordTenths(b, 3) = h
  BY <1>2, <1>3, <1>6, Zenon DEF WordOf
<1>8. t.ok /\ t.tenths = slot.temperature
  BY DEF t, Cell
<1> QED BY <1>7, <1>8, Zenon DEF DecodeRecordTH, HumidRead, h

-----------------------------------------------------------------------------
(* The slots of a packet *)

Width(i) == IF i.humid THEN 4 ELSE 8
StoreProtocol(i) == IF i.humid THEN \h54 ELSE OldProtocol
SlotAt(i, p) == IF p < Len(i.store) THEN i.store[p + 1] ELSE Nothing

SlotRead(i, p) ==
    IF ~SlotAt(i, p).ok THEN Nothing
    ELSE IF i.humid THEN HumidRead(SlotAt(i, p)) ELSE OldRead(SlotAt(i, p))

LEMMA PositionInPacket ==
    ASSUME NEW width \in {4, 8}, NEW j \in 0..5, NEW k \in 1..width
    PROVE  /\ j * width + k \in 1..6 * width /\ j * width + k = (j * width + 1) + k - 1
           /\ (j * width + k - 1) \div width = j
           /\ 1 + ((j * width + k - 1) % width) = k
<1>1. CASE width = 4
  BY <1>1, SMT
<1>2. CASE width = 8
  BY <1>2, SMT
<1> QED BY <1>1, <1>2

\* The bytes of a slot are cut out of a packet.
SlotCut(i, off, j) ==
    SubSeq(Packet(i, off).data, j * Width(i) + 1, (j + 1) * Width(i))

LEMMA CutPacket ==
    ASSUME NEW i, NEW off \in Nat, NEW j \in 0..5
    PROVE  /\ Len(SlotCut(i, off, j)) = Width(i)
           /\ \A k \in 1..Width(i) : SlotCut(i, off, j)[k] = SlotBytes(i, off + j)[k]
<1> DEFINE width == Width(i)
           data == Packet(i, off).data
           S == {SlotBytes(i, p)[k] : p \in Nat, k \in Nat}
           m == j * width + 1  n == (j + 1) * width
<1>1. width \in {4, 8}
  BY DEF Width
<1>2. data = [b \in 1..6 * width |->
                 SlotBytes(i, off + (b - 1) \div width)[1 + ((b - 1) % width)]]
  BY DEF Packet, RecordsPerPacket, Width
<1> HIDE DEF data, width
<1>3. m \in Int /\ n \in Int /\ n - m + 1 = width /\ m <= n
      /\ \A x \in m..n : x - j * width \in 1..width /\ x = j * width + (x - j * width)
  <2>1. CASE width = 4
    BY <2>1, SMT
  <2>2. CASE width = 8
    BY <2>2, SMT
  <2> QED BY <1>1, <2>1, <2>2
<1>4. ASSUME NEW k \in 1..width
      PROVE  data[j * width + k] = SlotBytes(i, off + j)[k] /\ k \in Nat
  <2>1. /\ j * width + k \in 1..6 * width
        /\ (j * width + k - 1) \div width = j
        /\ 1 + ((j * width + k - 1) % width) = k
    BY <1>1, PositionInPacket
  <2>2. k \in Nat
    BY <1>1
  <2> DEFINE x == j * width + k
  <2>3. data[x] = SlotBytes(i, off + (x - 1) \div width)[1 + ((x - 1) % width)]
    <3> HIDE DEF x
    <3>1. x \in 1..6 * width
      BY <2>1 DEF x
    <3> QED BY <1>2, <3>1, Zenon
  <2>4. (x - 1) \div width = j /\ 1 + ((x - 1) % width) = k
    <3>1. x - 1 = j * width + k - 1
      BY <1>1, <2>2
    <3> HIDE DEF x
    <3> QED BY <2>1, <3>1, Zenon
  <2>5. data[x] = SlotBytes(i, off + j)[k]
    <3> HIDE DEF x
    <3> QED BY <2>3, <2>4, Zenon
  <2> QED BY <2>2, <2>5
<1>5. ASSUME NEW x \in m..n PROVE data[x] \in S
  <2> DEFINE k == x - j * width
  <2>1. k \in 1..width /\ x = j * width + k
    BY <1>3
  <2> HIDE DEF k
  <2>2. data[x] = SlotBytes(i, off + j)[k] /\ k \in Nat /\ off + j \in Nat
    BY <1>4, <2>1
  <2> QED BY <2>2
<1> HIDE DEF S
<1>6. /\ Len(SubSeq(data, m, n)) = (IF m <= n THEN n - m + 1 ELSE 0)
      /\ \A k \in 1..n - m + 1 : SubSeq(data, m, n)[k] = data[m + k - 1]
  <2> HIDE DEF m, n
  <2> QED BY <1>3, <1>5, SubSeqProperties
<1>7. ASSUME NEW k \in 1..width PROVE SubSeq(data, m, n)[k] = SlotBytes(i, off + j)[k]
  <2>1. SubSeq(data, m, n)[k] = data[m + k - 1]
    BY <1>3, <1>6
  <2>2. m + k - 1 = j * width + k
    BY <1>1, PositionInPacket
  <2> QED BY <1>4, <2>1, <2>2
<1>8. SlotCut(i, off, j) = SubSeq(data, m, n)
  BY DEF SlotCut, data, width
<1> QED BY <1>3, <1>6, <1>7, <1>8 DEF width

\* A slot holds what it can.
SlotFits(i, p) ==
    \/ SlotAt(i, p) = Nothing
    \/ LET slot == SlotAt(i, p)
       IN  /\ slot.ok /\ Clock(slot.time) /\ Real(slot.time) /\ slot.paused \in BOOLEAN
           /\ Twelve(slot.temperature) /\ Tenth(slot.humidity)

LEMMA WidthDecides ==
    ASSUME NEW b, NEW p
    PROVE  /\ Len(b) = 4 => DecodeRecordAt(b, p) = DecodeRecordTH(b)
           /\ Len(b) = 8 => DecodeRecordAt(b, p) = DecodeRecord(b, p)
BY DEF DecodeRecordAt

LEMMA BlankDecoded ==
    ASSUME NEW b, NEW p
    PROVE  /\ IsFF(b, 1, 8) => DecodeRecord(b, p) = Nothing
           /\ b[1] = 255 /\ b[2] = 255 => DecodeRecordTH(b) = Nothing
<1>1. IsFF(b, 1, 8) => DecodeRecord(b, p) = Nothing
  BY SMT DEF DecodeRecord
<1>2. ASSUME b[1] = 255, b[2] = 255 PROVE DecodeRecordTH(b) = Nothing
  <2>1. DecodeRecordTenths(b, 1) = Nothing
    BY <1>2, SMT DEF DecodeRecordTenths, Word
  <2> QED BY <2>1 DEF DecodeRecordTH, Nothing
<1> QED BY <1>1, <1>2

LEMMA SlotDecoded ==
    ASSUME NEW i, NEW off \in Nat, NEW j \in 0..5, SlotFits(i, off + j)
    PROVE  DecodeRecordAt(SlotCut(i, off, j), StoreProtocol(i)) = SlotRead(i, off + j)
<1> DEFINE b == SlotCut(i, off, j)  slot == SlotAt(i, off + j)  bytes == SlotBytes(i, off + j)
           read == SlotRead(i, off + j)  warm == TenthBytes(Cell(TRUE, slot.temperature))
<1>1. Len(b) = Width(i) /\ \A k \in 1..Width(i) : b[k] = bytes[k]
  BY CutPacket
<1> HIDE DEF b
<1>2. bytes = IF ~slot.ok THEN [k \in 1..8 |-> 255]
              ELSE IF i.humid THEN warm \o TenthBytes(slot.humidity)
              ELSE RecordBytes(OldRecord(slot))
  <2>1. TenthsBytes(slot.temperature, 4096) = warm
    BY SMT DEF TenthBytes, Cell
  <2>2. bytes = IF ~slot.ok THEN [k \in 1..8 |-> 255]
                ELSE IF i.humid THEN TenthsBytes(slot.temperature, 4096)
                                     \o TenthBytes(slot.humidity)
                ELSE RecordBytes(OldRecord(slot))
    BY Zenon DEF SlotBytes, SlotAt, TenthBytes, OldRecord, SlotFlags
  <2> HIDE DEF warm, bytes
  <2> QED BY <2>1, <2>2
<1>3. read = IF ~slot.ok THEN Nothing ELSE IF i.humid THEN HumidRead(slot) ELSE OldRead(slot)
  BY DEF SlotRead
<1>4. \/ slot = Nothing
      \/ /\ slot.ok /\ Clock(slot.time) /\ Real(slot.time) /\ slot.paused \in BOOLEAN
         /\ Twelve(slot.temperature) /\ Tenth(slot.humidity)
  BY DEF SlotFits
<1>9. warm = TenthBytes(Cell(TRUE, slot.temperature))
  OBVIOUS
<1>0. SUFFICES DecodeRecordAt(b, StoreProtocol(i)) = read
  BY DEF b
<1> HIDE DEF bytes, slot, read, warm
<1>5. ~Nothing.ok
  BY DEF Nothing
<1>6. CASE i.humid
  <2>1. Len(b) = 4 /\ \A k \in 1..4 : b[k] = bytes[k]
    BY <1>1, <1>6 DEF Width
  <2>2. CASE ~slot.ok
    <3>1. b[1] = 255 /\ b[2] = 255
      <4>1. bytes[1] = 255 /\ bytes[2] = 255
        BY <1>2, <2>2
      <4> QED BY <2>1, <4>1
    <3> QED BY <1>3, <2>1, <2>2, <3>1, WidthDecides, BlankDecoded
  <2>3. CASE slot.ok
    <3>1. \A k \in 1..4 : b[k] = (TenthBytes(Cell(TRUE, slot.temperature))
                                    \o TenthBytes(slot.humidity))[k]
      <4>1. \A k \in 1..4 : b[k] = (warm \o TenthBytes(slot.humidity))[k]
        BY <1>2, <1>6, <2>1, <2>3, Zenon
      <4> QED BY <1>9, <4>1, Zenon
    <3>2. DecodeRecordTH(b) = HumidRead(slot)
      BY <1>4, <1>5, <2>3, <3>1, HumidSlotRead, Zenon
    <3> QED BY <1>3, <1>6, <2>1, <2>3, <3>2, WidthDecides, Zenon
  <2> QED BY <2>2, <2>3
<1>7. CASE ~i.humid
  <2>1. Len(b) = 8 /\ \A k \in 1..8 : b[k] = bytes[k]
    BY <1>1, <1>7 DEF Width
  <2>2. StoreProtocol(i) = OldProtocol
    BY <1>7 DEF StoreProtocol
  <2>3. CASE ~slot.ok
    <3>1. IsFF(b, 1, 8)
      BY <1>2, <2>1, <2>3 DEF IsFF
    <3> QED BY <1>3, <2>1, <2>3, <3>1, WidthDecides, BlankDecoded
  <2>4. CASE slot.ok
    <3>1. \A k \in 1..8 : b[k] = RecordBytes(OldRecord(slot))[k]
      BY <1>2, <1>7, <2>1, <2>4, Zenon
    <3>2. DecodeRecord(b, OldProtocol) = OldRead(slot)
      BY <1>4, <1>5, <2>4, <3>1, OldSlotRead, Zenon
    <3> QED BY <1>3, <1>7, <2>1, <2>2, <2>4, <3>2, WidthDecides, Zenon
  <2> QED BY <2>3, <2>4
<1> QED BY <1>6, <1>7

LEMMA SlotOfPacket ==
    ASSUME NEW i, NEW off \in Nat, NEW j \in 0..5, SlotFits(i, off + j)
    PROVE  Slot(Packet(i, off), j, StoreProtocol(i)) = SlotRead(i, off + j)
<1> DEFINE width == Width(i)  f == Packet(i, off)
<1>1. width \in {4, 8}
  BY DEF Width
<1>2. f.n = 6 /\ f.data = [b \in 1..6 * width |->
                 SlotBytes(i, off + (b - 1) \div width)[1 + ((b - 1) % width)]]
  BY DEF Packet, RecordsPerPacket, Width
<1>3. SlotCut(i, off, j) = SubSeq(f.data, j * width + 1, (j + 1) * width)
  BY DEF SlotCut
<1>4. DecodeRecordAt(SlotCut(i, off, j), StoreProtocol(i)) = SlotRead(i, off + j)
  BY SlotDecoded
<1> HIDE DEF width, f
<1>5. Len(f.data) = 6 * width
  <2> DEFINE byte(b) == SlotBytes(i, off + (b - 1) \div width)[1 + ((b - 1) % width)]
  <2> HIDE DEF byte
  <2>1. f.data = [b \in 1..6 * width |-> byte(b)]
    BY <1>2 DEF byte
  <2>2. 6 * width \in Nat
    BY <1>1
  <2> QED BY <2>1, <2>2
<1>6. RecordWidth(f) = width
  <2>1. CASE width = 4
    BY <1>2, <1>5, <2>1, SMT DEF RecordWidth
  <2>2. CASE width = 8
    BY <1>2, <1>5, <2>2, SMT DEF RecordWidth
  <2> QED BY <1>1, <2>1, <2>2
<1>7. ~((j + 1) * width > Len(f.data))
  <2>1. CASE width = 4
    BY <1>5, <2>1
  <2>2. CASE width = 8
    BY <1>5, <2>2
  <2> QED BY <1>1, <2>1, <2>2
<1>8. Slot(f, j, StoreProtocol(i)) = DecodeRecordAt(SlotCut(i, off, j), StoreProtocol(i))
  BY <1>3, <1>6, <1>7, Zenon DEF Slot
<1> QED BY <1>4, <1>8 DEF f

LEMMA SlotsReadable ==
    ASSUME NEW i, NEW p
    PROVE  SlotRead(i, p).ok <=> SlotAt(i, p).ok
BY DEF SlotRead, HumidRead, OldRead, Nothing

LEMMA PlausiblePacket ==
    ASSUME NEW i, NEW off \in Nat, \A p \in Nat : SlotFits(i, p),
           PlausibleRecords(Packet(i, off), StoreProtocol(i)) = 0
    PROVE  ~SlotAt(i, off).ok
<1> DEFINE T == {j \in 0..5 : Slot(Packet(i, off), j, StoreProtocol(i)).ok}
<1>1. PlausibleRecords(Packet(i, off), StoreProtocol(i)) = Cardinality(T)
  BY DEF PlausibleRecords, RecordsPerPacket
<1>2. IsFiniteSet(T)
  <2>1. 0 \in Int /\ 5 \in Int
    OBVIOUS
  <2>2. IsFiniteSet(0..5)
    BY <2>1, FS_Interval, Zenon
  <2> QED BY <2>2, FS_Subset
<1>3. T = {}
  BY <1>1, <1>2, FS_EmptySet
<1>4. 0 \in 0..5 /\ off + 0 = off /\ SlotFits(i, off + 0)
  OBVIOUS
<1>5. Slot(Packet(i, off), 0, StoreProtocol(i)) = SlotRead(i, off)
  BY <1>4, SlotOfPacket
<1> QED BY <1>3, <1>4, <1>5, SlotsReadable

\* What a download takes from the slot at p.
RecordAt(i, p) ==
    [index |-> p, status |-> SlotRead(i, p).status, temperature |-> SlotRead(i, p).temperature,
     humidity |-> SlotRead(i, p).humidity, events |-> SlotRead(i, p).events,
     time |-> IF SlotRead(i, p).time = Nothing THEN [since |-> i.start, seconds |-> p * 600]
              ELSE SlotRead(i, p).time]

RecordsIn(i) == {RecordAt(i, p) : p \in Nat}

TakenFrom(i, off, from, count) ==
    {p \in Nat : off <= p /\ p <= off + 5 /\ from <= p /\ p < count /\ SlotAt(i, p).ok}

LEMMA PacketTaken ==
    ASSUME NEW i, NEW off \in Nat, NEW from \in Int, NEW count \in Int,
           \A p \in Nat : SlotFits(i, p)
    PROVE  Lists(PacketRecords(Packet(i, off), off, from, count, StoreProtocol(i), i.start, 600),
                 RecordsIn(i), TakenFrom(i, off, from, count))
<1> DEFINE f == Packet(i, off)
           c == [k \in 1..RecordsPerPacket |-> k - 1]
           wanted(j) == /\ off + j < count /\ off + j >= from
                        /\ Slot(f, j, StoreProtocol(i)).ok
           P == {k \in 1..RecordsPerPacket : wanted(k - 1)}
           taken == Kept(c, P)
           W == TakenFrom(i, off, from, count)
           recs == [k \in 1..Len(taken) |->
                       Placed(Slot(f, taken[k], StoreProtocol(i)), off, taken[k], i.start, 600)]
<1>1. PacketRecords(f, off, from, count, StoreProtocol(i), i.start, 600) = recs
  BY DEF PacketRecords
<1>2. \A j \in 0..5 : off + j \in Nat /\ Slot(f, j, StoreProtocol(i)) = SlotRead(i, off + j)
  BY SlotOfPacket
<1> HIDE DEF f
<1>3. ASSUME NEW k \in 1..6 PROVE k \in P <=> off + (k - 1) \in W
  <2>1. k - 1 \in 0..5 /\ off + (k - 1) \in Nat /\ off <= off + (k - 1)
        /\ off + (k - 1) <= off + 5
    OBVIOUS
  <2>2. Slot(f, k - 1, StoreProtocol(i)).ok <=> SlotAt(i, off + (k - 1)).ok
    BY <1>2, <2>1, SlotsReadable
  <2> QED BY <2>1, <2>2 DEF RecordsPerPacket, TakenFrom
<1>4. /\ c \in Seq(0..5) /\ Len(c) = 6 /\ \A k \in 1..6 : c[k] = k - 1
  <2>1. RecordsPerPacket = 6
    BY DEF RecordsPerPacket
  <2> QED BY <2>1
<1> HIDE DEF c, P
<1>5. taken \in Seq(0..5) /\ \E h : Selects(taken, c, P, 6, h)
  BY <1>4, KeptSelects
<1>6. PICK h : Selects(taken, c, P, 6, h)
  BY <1>5
<1> DEFINE n == Len(taken)
<1>7. n \in Nat /\ \A k \in 1..n : taken[k] \in 0..5
  BY <1>5
<1>8. /\ \A k \in 1..n : h[k] \in 1..6 /\ h[k] \in P /\ taken[k] = c[h[k]]
      /\ \A j, k \in 1..n : j < k => h[j] < h[k]
      /\ \A p \in 1..6 : p \in P => \E k \in 1..n : h[k] = p
  BY <1>6 DEF Selects
<1>9. ASSUME NEW k \in 1..n PROVE taken[k] = h[k] - 1 /\ off + taken[k] \in W
  <2>1. h[k] \in 1..6 /\ h[k] \in P /\ taken[k] = c[h[k]]
    BY <1>8
  <2>2. taken[k] = h[k] - 1
    BY <1>4, <2>1
  <2> QED BY <1>3, <2>1, <2>2
<1> HIDE DEF taken, n, W
<1>10. Len(recs) = n /\ recs = [k \in 1..n |-> recs[k]]
  <2> DEFINE rec(k) == Placed(Slot(f, taken[k], StoreProtocol(i)), off, taken[k], i.start, 600)
  <2> HIDE DEF rec
  <2>1. recs = [k \in 1..n |-> rec(k)]
    BY DEF rec, n
  <2> HIDE DEF recs
  <2> QED BY <1>7, <2>1
<1>11. ASSUME NEW k \in 1..n
       PROVE  recs[k] = RecordAt(i, off + taken[k]) /\ off + taken[k] \in Nat
  <2>1. taken[k] \in 0..5 /\ off + taken[k] \in Nat
    BY <1>7
  <2>2. recs[k] = Placed(Slot(f, taken[k], StoreProtocol(i)), off, taken[k], i.start, 600)
    BY DEF n
  <2>3. Slot(f, taken[k], StoreProtocol(i)) = SlotRead(i, off + taken[k])
    BY <1>2, <2>1
  <2> HIDE DEF recs
  <2>4. recs[k] = Placed(SlotRead(i, off + taken[k]), off, taken[k], i.start, 600)
    BY <2>2, <2>3, ZenonT(60)
  <2> QED BY <2>1, <2>4, ZenonT(60) DEF Placed, RecordAt
<1> HIDE DEF recs
<1>12. \A k \in 1..n : recs[k].index = off + taken[k] /\ recs[k] \in RecordsIn(i)
  <2>1. \A p \in Nat : RecordAt(i, p).index = p
    BY Zenon DEF RecordAt
  <2>2. \A p \in Nat : RecordAt(i, p) \in RecordsIn(i)
    BY DEF RecordsIn
  <2> QED BY <1>11, <2>1, <2>2, Zenon
<1>13. recs \in Seq(RecordsIn(i))
  BY <1>7, <1>10, <1>12
<1>14. \A k \in 1..Len(recs) : recs[k].index \in W
  BY <1>9, <1>10, <1>12, Zenon
<1>15. ASSUME NEW p \in W PROVE \E k \in 1..Len(recs) : recs[k].index = p
  <2>1. p \in Nat /\ off <= p /\ p <= off + 5
    BY DEF W, TakenFrom
  <2>2. p - off + 1 \in 1..6 /\ off + ((p - off + 1) - 1) = p
    BY <2>1
  <2>3. p - off + 1 \in P
    BY <1>3, <2>2
  <2>4. PICK k \in 1..n : h[k] = p - off + 1
    BY <1>8, <2>2, <2>3
  <2>5. recs[k].index = p
    BY <1>9, <1>12, <2>1, <2>4
  <2> QED BY <1>10, <2>5
<1>16. ASSUME NEW j \in 1..n, NEW k \in 1..n, j < k PROVE recs[j].index < recs[k].index
  <2>1. h[j] \in Int /\ h[k] \in Int /\ h[j] < h[k]
    BY <1>8, <1>16
  <2>2. recs[j].index = off + (h[j] - 1) /\ recs[k].index = off + (h[k] - 1)
    BY <1>9, <1>12
  <2> QED BY <2>1, <2>2
<1>17. Lists(recs, RecordsIn(i), W)
  BY <1>10, <1>13, <1>14, <1>15, <1>16, Zenon DEF Lists
<1> QED BY <1>1, <1>17, Zenon DEF f, W

-----------------------------------------------------------------------------
(* Theorem: a download holds the slots asked for *)

LEMMA StoresHold == (\A s \in Stores : StoreFits(s)) /\ (\A n \in Lasts : n \in Nat)
BY CodecAssumption, SMT

LEMMA StoreHolds ==
    ASSUME NEW i \in StoreInputs
    PROVE  /\ Len(i.store) \in Nat /\ i.last \in Nat /\ i.humid \in BOOLEAN /\ i.start = "start"
           /\ \A p \in Nat : SlotFits(i, p)
<1>1. i.store \in Stores /\ i.last \in Lasts /\ i.humid \in BOOLEAN /\ i.start = "start"
  BY Zenon DEF StoreInputs
<1>2. /\ i.store \in Seq({i.store[k] : k \in 1..Len(i.store)})
      /\ \A k \in 1..Len(i.store) : Stored(i.store[k])
  BY <1>1, StoresHold, Zenon DEF StoreFits
<1>3. i.last \in Nat
  BY <1>1, StoresHold, Zenon
<1>4. Len(i.store) \in Nat
  BY <1>2
<1>5. ASSUME NEW p \in Nat PROVE SlotFits(i, p)
  <2>1. CASE ~(p < Len(i.store))
    BY <2>1 DEF SlotFits, SlotAt
  <2>2. CASE p < Len(i.store)
    <3> DEFINE slot == i.store[p + 1]
    <3>1. p + 1 \in 1..Len(i.store) /\ SlotAt(i, p) = slot
      BY <1>4, <2>2 DEF SlotAt
    <3>2. Stored(slot)
      BY <1>2, <3>1
    <3> HIDE DEF slot
    <3>3. \A v : v \in Within(4096) => Twelve(v)
      BY SMT DEF Within, Twelve
    <3>4. CASE slot = Nothing
      BY <3>1, <3>4 DEF SlotFits
    <3>5. CASE slot # Nothing
      <4>1. /\ slot.ok /\ Clock(slot.time) /\ Real(slot.time) /\ slot.paused \in BOOLEAN
            /\ Twelve(slot.temperature)
        BY <3>2, <3>3, <3>5, SMT DEF Stored
      <4>2. Tenth(slot.humidity)
        BY <3>2, <3>3, <3>5, SMT DEF Stored, Tenth
      <4> QED BY <3>1, <4>1, <4>2, Zenon DEF SlotFits
    <3> QED BY <3>4, <3>5
  <2> QED BY <2>1, <2>2
<1> QED BY <1>1, <1>3, <1>4, <1>5

\* The packets that are asked for have the slots that are, in their order.
Packets(count, from) == ((count + 5) \div 6) - from \div 6
OffOf(from, k) == (from \div 6 + k - 1) * 6

LEMMA PacketsCover ==
    ASSUME NEW count \in Nat, NEW from \in Nat, from <= count
    PROVE  /\ Packets(count, from) \in Nat
           /\ \A k \in 1..Packets(count, from) : OffOf(from, k) \in 0..count - 1
           /\ \A j, k \in 1..Packets(count, from) : j < k => OffOf(from, j) + 5 < OffOf(from, k)
           /\ \A p \in from..count - 1 : \E k \in 1..Packets(count, from) :
                  OffOf(from, k) <= p /\ p <= OffOf(from, k) + 5
<1> DEFINE first == from \div 6  all == (count + 5) \div 6
<1>1. first \in Nat /\ all \in Nat /\ first <= all /\ 6 * all <= count + 5
      /\ 6 * first <= from
  OBVIOUS
<1>2. Packets(count, from) = all - first /\ \A k : OffOf(from, k) = (first + k - 1) * 6
  BY DEF Packets, OffOf
<1>3. ASSUME NEW p \in from..count - 1
      PROVE  \E k \in 1..all - first : (first + k - 1) * 6 <= p /\ p <= (first + k - 1) * 6 + 5
  <2> DEFINE q == p \div 6  k == q - first + 1
  <2>1. q \in Int /\ first <= q /\ q < all /\ 6 * q <= p /\ p <= 6 * q + 5
    OBVIOUS
  <2> HIDE DEF q, first, all
  <2>2. k \in 1..all - first /\ (first + k - 1) * 6 = 6 * q
    BY <1>1, <2>1
  <2> HIDE DEF k
  <2> QED BY <2>1, <2>2
<1> HIDE DEF first, all
<1>4. all - first \in Nat
  BY <1>1
<1>5. \A k \in 1..all - first : (first + k - 1) * 6 \in 0..count - 1
  BY <1>1
<1>6. \A j, k \in 1..all - first : j < k => (first + j - 1) * 6 + 5 < (first + k - 1) * 6
  BY <1>1
<1> QED BY <1>2, <1>3, <1>4, <1>5, <1>6

\* What is made of the packets at some offsets.
Joined(packet, offs, from, count, protocol, start, interval) ==
    IF \E k \in 1..Len(offs) : PlausibleRecords(packet[offs[k]], protocol) = 0
    THEN Nothing
    ELSE [ok |-> TRUE,
          records |-> FlattenSeq([k \in 1..Len(offs) |->
              PacketRecords(packet[offs[k]], offs[k], from, count, protocol, start, interval)])]

LEMMA RecordsJoined ==
    ASSUME NEW packet, NEW count \in Nat, NEW last, NEW protocol, NEW start, NEW interval,
           NEW from, from = WantedStart(count, last)
    PROVE  RecordsOf(packet, count, last, protocol, start, interval) =
               Joined(packet, [k \in 1..Packets(count, from) |-> OffOf(from, k)], from, count,
                      protocol, start, interval)
<1> DEFINE first == WantedStart(count, last) \div RecordsPerPacket
           asked == [k \in 1..((count + RecordsPerPacket - 1) \div RecordsPerPacket) - first |->
                        (first + k - 1) * RecordsPerPacket]
<1>1. asked = [k \in 1..Packets(count, from) |-> OffOf(from, k)]
  <2>1. RecordsPerPacket = 6
    BY DEF RecordsPerPacket
  <2>2. count + RecordsPerPacket - 1 = count + 5
    BY <2>1
  <2> QED BY <2>1, <2>2, Zenon DEF Packets, OffOf
<1>2. RecordsOf(packet, count, last, protocol, start, interval) =
          Joined(packet, asked, WantedStart(count, last), count, protocol, start, interval)
  BY DEF RecordsOf, Joined
<1> HIDE DEF asked
<1> QED BY <1>1, <1>2, Zenon

\* The slots that are asked for and can be read.
WantedSlots(i) ==
    {p \in 0..Len(i.store) - 1 :
        SlotAt(i, p).ok /\ (i.last = 0 \/ p + i.last >= Len(i.store))}

LEMMA DownloadLists ==
    ASSUME NEW i \in StoreInputs
    PROVE  /\ ~Downloaded(i).ok => \E p \in 0..Len(i.store) - 1 : ~SlotAt(i, p).ok
           /\ Downloaded(i).ok => Lists(Downloaded(i).records, RecordsIn(i), WantedSlots(i))
<1> DEFINE count == Len(i.store)  from == WantedStart(count, i.last)  n == Packets(count, from)
           protocol == StoreProtocol(i)
           packet == [off \in 0..count |-> Packet(i, off)]
           offs == [k \in 1..n |-> OffOf(from, k)]
           taken(k) == PacketRecords(packet[offs[k]], offs[k], from, count, protocol, i.start, 600)
           parts == [k \in 1..n |-> taken(k)]
           W == [k \in 1..n |-> TakenFrom(i, OffOf(from, k), from, count)]
           failed == \E k \in 1..Len(offs) : PlausibleRecords(packet[offs[k]], protocol) = 0
<1>1. /\ count \in Nat /\ i.last \in Nat /\ i.humid \in BOOLEAN
      /\ \A p \in Nat : SlotFits(i, p)
  BY StoreHolds
<1>2. Downloaded(i) = IF failed THEN Nothing
                      ELSE [ok |-> TRUE,
                            records |-> FlattenSeq([k \in 1..Len(offs) |-> taken(k)])]
  <2>1. protocol = IF i.humid THEN \h54 ELSE \h34
    BY DEF StoreProtocol, OldProtocol
  <2>2. Downloaded(i) = RecordsOf(packet, count, i.last, protocol, i.start, 600)
    BY <2>1, ZenonT(60) DEF Downloaded
  <2> HIDE DEF packet, protocol, count
  <2>3. from = WantedStart(count, i.last)
    OBVIOUS
  <2> HIDE DEF from
  <2> DEFINE start == i.start  interval == 600  last == i.last
  <2> HIDE DEF start, interval, last
  <2>4. RecordsOf(packet, count, last, protocol, start, interval) =
            Joined(packet, [k \in 1..Packets(count, from) |-> OffOf(from, k)], from, count,
                   protocol, start, interval)
    BY <1>1, <2>3, RecordsJoined DEF last
  <2>5. Downloaded(i) = Joined(packet, offs, from, count, protocol, i.start, 600)
    BY <2>2, <2>4, ZenonT(60) DEF start, interval, last
  <2> HIDE DEF offs
  <2> QED BY <2>5, Zenon DEF Joined
<1>3. /\ from \in Nat /\ from <= count
      /\ \A p \in 0..count - 1 : p >= from <=> (i.last = 0 \/ p + i.last >= count)
  BY <1>1 DEF WantedStart
<1>4. /\ n \in Nat /\ \A k \in 1..n : OffOf(from, k) \in 0..count - 1
      /\ \A j, k \in 1..n : j < k => OffOf(from, j) + 5 < OffOf(from, k)
      /\ \A p \in from..count - 1 : \E k \in 1..n : OffOf(from, k) <= p /\ p <= OffOf(from, k) + 5
  BY <1>1, <1>3, PacketsCover
<1> HIDE DEF from, count, n
<1>5. Len(offs) = n /\ \A k \in 1..n : offs[k] = OffOf(from, k)
  BY <1>4
<1>6. ASSUME NEW k \in 1..n
      PROVE  /\ offs[k] \in Nat /\ offs[k] \in 0..count - 1
             /\ packet[offs[k]] = Packet(i, offs[k])
  <2>1. offs[k] \in Nat /\ offs[k] \in 0..count - 1 /\ offs[k] \in 0..count
    BY <1>1, <1>4, <1>5
  <2> HIDE DEF offs
  <2> QED BY <2>1
<1> HIDE DEF offs, packet, protocol
<1>7. ASSUME failed PROVE \E p \in 0..count - 1 : ~SlotAt(i, p).ok
  <2>1. PICK k \in 1..n : PlausibleRecords(packet[offs[k]], protocol) = 0
    BY <1>5, <1>7, Zenon
  <2>2. PlausibleRecords(Packet(i, offs[k]), StoreProtocol(i)) = 0
    BY <1>6, <2>1, Zenon DEF protocol
  <2>3. ~SlotAt(i, offs[k]).ok
    BY <1>1, <1>6, <2>2, PlausiblePacket, Zenon
  <2> QED BY <1>6, <2>3, Zenon
<1>8. ASSUME NEW k \in 1..n PROVE Lists(taken(k), RecordsIn(i), W[k])
  <2>1. taken(k) = PacketRecords(Packet(i, offs[k]), offs[k], from, count, StoreProtocol(i),
                                 i.start, 600)
    BY <1>6, Zenon DEF protocol
  <2>2. W[k] = TakenFrom(i, offs[k], from, count)
    BY <1>5, Zenon
  <2>3. from \in Int /\ count \in Int
    BY <1>1, <1>3
  <2> HIDE DEF taken, W
  <2> QED BY <1>1, <1>6, <2>1, <2>2, <2>3, PacketTaken
<1> HIDE DEF taken
<1>9. parts \in [1..n -> Seq(RecordsIn(i))]
  <2>1. \A k \in 1..n : taken(k) \in Seq(RecordsIn(i))
    BY <1>8, Zenon DEF Lists
  <2> QED BY <2>1, Zenon
<1>10. \A k \in 1..n : parts[k] = taken(k)
  BY Zenon
<1> HIDE DEF parts
<1>11. AllList(parts, RecordsIn(i), W, n)
  <2> HIDE DEF W
  <2> QED BY <1>8, <1>10, Zenon DEF AllList
<1>12. Follow(W, n)
  <2>1. ASSUME NEW j \in 1..n, NEW k \in 1..n, j < k, NEW x \in W[j], NEW y \in W[k] PROVE x < y
    <3>1. x \in TakenFrom(i, OffOf(from, j), from, count)
          /\ y \in TakenFrom(i, OffOf(from, k), from, count)
      BY <2>1, Zenon
    <3>2. x \in Nat /\ x <= OffOf(from, j) + 5 /\ y \in Nat /\ OffOf(from, k) <= y
      BY <3>1 DEF TakenFrom
    <3>3. OffOf(from, j) + 5 < OffOf(from, k) /\ OffOf(from, j) \in Int /\ OffOf(from, k) \in Int
      BY <1>4, <2>1
    <3> QED BY <3>2, <3>3
  <2> HIDE DEF W
  <2> QED BY <2>1, Zenon DEF Follow
<1>13. Union(W, n) = WantedSlots(i)
  <2> DEFINE U == Union(W, n)
  <2>1. \A x : x \in U <=> \E k \in 1..n : x \in W[k]
    <3> HIDE DEF W
    <3> QED BY Zenon DEF Union
  <2>2. \A k \in 1..n : W[k] = TakenFrom(i, OffOf(from, k), from, count)
    BY Zenon
  <2> HIDE DEF U, W
  <2>3. ASSUME NEW x \in U PROVE x \in WantedSlots(i)
    <3>1. PICK k \in 1..n : x \in TakenFrom(i, OffOf(from, k), from, count)
      BY <2>1, <2>2
    <3>2. x \in Nat /\ from <= x /\ x < count /\ SlotAt(i, x).ok
      BY <3>1 DEF TakenFrom
    <3>3. x \in 0..count - 1 /\ x >= from
      BY <1>1, <1>3, <3>2
    <3> QED BY <1>3, <3>2, <3>3 DEF WantedSlots, count
  <2>4. ASSUME NEW x \in WantedSlots(i) PROVE x \in U
    <3>1. x \in 0..count - 1 /\ SlotAt(i, x).ok /\ (i.last = 0 \/ x + i.last >= count)
      BY DEF WantedSlots, count
    <3>2. x \in from..count - 1 /\ x \in Nat /\ from <= x /\ x < count
      BY <1>1, <1>3, <3>1
    <3>3. PICK k \in 1..n : OffOf(from, k) <= x /\ x <= OffOf(from, k) + 5
      BY <1>4, <3>2
    <3>4. x \in TakenFrom(i, OffOf(from, k), from, count)
      BY <3>1, <3>2, <3>3, Zenon DEF TakenFrom
    <3> QED BY <2>1, <2>2, <3>4
  <2> QED BY <2>3, <2>4, Zenon DEF U
<1>14. Lists(FlattenSeq(parts), RecordsIn(i), WantedSlots(i))
  <2> HIDE DEF W
  <2>1. n \in Nat
    BY <1>4, Zenon
  <2>2. Lists(FlattenSeq(parts), RecordsIn(i), Union(W, n))
    BY <1>9, <1>11, <1>12, <2>1, FlattenLists
  <2> QED BY <1>13, <2>2, Zenon
<1>15. [k \in 1..Len(offs) |-> taken(k)] = parts
  BY <1>5, Zenon DEF parts
<1>16. Downloaded(i) = IF failed THEN Nothing
                       ELSE [ok |-> TRUE, records |-> FlattenSeq(parts)]
  BY <1>2, <1>15, Zenon DEF taken
<1> HIDE DEF failed
<1>17. CASE failed
  BY <1>7, <1>16, <1>17 DEF Nothing, count
<1>18. CASE ~failed
  BY <1>14, <1>16, <1>18
<1> QED BY <1>17, <1>18

\* A download holds, in order and at their own positions, the readable ones of the
\* slots asked for, each with the values and the time of its slot: for every store.
THEOREM RecordsArePlaced == Spec => []RecordsPlaced
<1>1. Outcome => RecordsPlaced
  <2>1. SUFFICES ASSUME Outcome, Decoded("store") PROVE RecordsPlaced
    BY DEF RecordsPlaced
  <2> DEFINE i == input  count == Len(i.store)  recs == output.records
             slot(p) == i.store[p + 1]
             W == {p \in 0..count - 1 : slot(p).ok /\ (i.last = 0 \/ p + i.last >= count)}
             Shows(r, s) ==
                 LET pause == s.paused /\ ~i.humid
                 IN  /\ r.status = IF pause THEN "pause" ELSE "measurement"
                     /\ r.temperature = IF pause THEN 0 ELSE s.temperature
                     /\ r.humidity = IF i.humid THEN s.humidity ELSE Nothing
                     /\ r.time = IF i.humid THEN [since |-> i.start, seconds |-> 600 * r.index]
                                 ELSE s.time
  <2>2. i \in StoreInputs /\ output = StoreShown(i)
    BY <2>1, InputOfKind, Zenon DEF Outcome, Decoded
  <2>3. count \in Nat /\ i.humid \in BOOLEAN
    BY <2>2, StoreHolds, Zenon
  <2>4. \A p \in 0..count - 1 : SlotAt(i, p) = slot(p) /\ p \in Nat
    BY <2>3 DEF SlotAt
  <2>5. W = WantedSlots(i)
    BY <2>4 DEF WantedSlots
  <2>6. /\ output.ok <=> Downloaded(i).ok
        /\ Downloaded(i).ok => recs = Downloaded(i).records
    BY <2>2 DEF StoreShown, Views, Nothing
  <2> HIDE DEF i
  <2>7. ~output.ok => \E p \in 0..count - 1 : ~slot(p).ok
    BY <2>2, <2>4, <2>6, DownloadLists, Zenon
  <2>8. output.ok => Lists(recs, RecordsIn(i), W)
    BY <2>2, <2>5, <2>6, DownloadLists, Zenon
  <2> HIDE DEF count, recs, W, slot
  <2>9. ASSUME output.ok
        PROVE  /\ {recs[k].index : k \in 1..Len(recs)} = W
               /\ \A k, l \in 1..Len(recs) : k < l => recs[k].index < recs[l].index
    BY <2>8, <2>9 DEF Lists
  <2>10. ASSUME output.ok, NEW k \in 1..Len(recs)
         PROVE  recs[k].index \in W /\ recs[k] = RecordAt(i, recs[k].index)
    <3>1. recs \in Seq(RecordsIn(i)) /\ recs[k].index \in W
      BY <2>8, <2>10 DEF Lists
    <3>2. recs[k] \in RecordsIn(i)
      BY <3>1
    <3>3. PICK p \in Nat : recs[k] = RecordAt(i, p)
      BY <3>2 DEF RecordsIn
    <3>4. RecordAt(i, p).index = p
      BY Zenon DEF RecordAt
    <3> QED BY <3>1, <3>3, <3>4, Zenon
  <2>11. ASSUME output.ok, NEW k \in 1..Len(recs)
         PROVE  Shows(recs[k], slot(recs[k].index))
    <3> DEFINE r == recs[k]  p == r.index  s == slot(p)  read == SlotRead(i, p)
    <3>1. p \in 0..count - 1 /\ p \in Nat /\ s.ok /\ s = SlotAt(i, p)
      BY <2>4, <2>10, <2>11 DEF W
    <3>2. read = IF i.humid THEN HumidRead(s) ELSE OldRead(s)
      BY <3>1, Zenon DEF SlotRead
    <3>3. r = RecordAt(i, p)
      BY <2>10, <2>11
    <3>4. SlotFits(i, p)
      BY <2>2, <3>1, StoreHolds, Zenon
    <3> HIDE DEF r, p, s
    <3>5. /\ r.status = read.status /\ r.temperature = read.temperature
          /\ r.humidity = read.humidity
          /\ r.time = IF read.time = Nothing THEN [since |-> i.start, seconds |-> p * 600]
                      ELSE read.time
      BY <3>3, Zenon DEF RecordAt
    <3> HIDE DEF read
    <3>6. p * 600 = 600 * p
      BY <3>1
    <3>s. SUFFICES Shows(r, s)
      BY DEF r, p, s
    <3>p. p = r.index
      BY DEF p, r
    <3>7. CASE i.humid
      <4>1. read = HumidRead(s)
        BY <3>2, <3>7
      <4>2. /\ read.status = "measurement" /\ read.temperature = s.temperature
            /\ read.humidity = s.humidity /\ read.time = Nothing
        BY <4>1, Zenon DEF HumidRead
      <4>3. r.time = [since |-> i.start, seconds |-> 600 * r.index]
        <5>1. r.time = [since |-> i.start, seconds |-> p * 600]
          BY <3>5, <4>2, ZenonT(60)
        <5> QED BY <3>6, <3>p, <5>1, ZenonT(60)
      <4> QED BY <3>5, <3>7, <4>2, <4>3, ZenonT(60)
    <3>8. CASE ~i.humid
      <4>1. read = OldRead(s)
        BY <3>2, <3>8
      <4>2. s.time # Nothing
        <5>1. Clock(s.time)
          BY <3>1, <3>4 DEF SlotFits, Nothing
        <5> QED BY <5>1 DEF Clock, Nothing
      <4>3. /\ read.status = IF s.paused THEN "pause" ELSE "measurement"
            /\ read.temperature = IF s.paused THEN 0 ELSE s.temperature
            /\ read.humidity = Nothing /\ read.time = s.time
        BY <4>1, Zenon DEF OldRead
      <4>4. r.time = s.time
        BY <3>5, <4>2, <4>3, ZenonT(60)
      <4> QED BY <3>5, <3>8, <4>3, <4>4, ZenonT(60)
    <3> QED BY <2>3, <3>7, <3>8
  <2> QED BY <2>7, <2>9, <2>11, Zenon DEF RecordsPlaced, i, count, recs, slot, W
<1> QED BY <1>1, OutcomeHolds, PTL

-----------------------------------------------------------------------------
(* The parts of a time, added up *)

AddedBy(parts, n, f) ==
    f = [k \in 0..n |-> IF k = 0 THEN 0 ELSE f[k - 1] + parts[k][1] * parts[k][2]]

LEMMA AddedExists ==
    ASSUME NEW parts
    PROVE  \A n \in Nat : \E f : AddedBy(parts, n, f)
<1> DEFINE T == {n \in Nat : \E f : AddedBy(parts, n, f)}
<1>1. 0 \in T
  <2> DEFINE f == [k \in 0..0 |-> 0]
  <2>1. AddedBy(parts, 0, f)
    BY DEF AddedBy
  <2> QED BY <2>1
<1>2. ASSUME NEW n \in Nat, n \in T PROVE n + 1 \in T
  <2>1. PICK f : AddedBy(parts, n, f)
    BY <1>2
  <2> DEFINE next(k, e) == e + parts[k][1] * parts[k][2]
             last == next(n + 1, f[n])
             g == [k \in 0..n + 1 |-> IF k = n + 1 THEN last ELSE f[k]]
  <2>2. \A k \in 0..n : f[k] = IF k = 0 THEN 0 ELSE next(k, f[k - 1])
    BY <2>1, Zenon DEF AddedBy
  <2>3. /\ \A k \in 0..n : k \in 0..n + 1 /\ k # n + 1 /\ (k # 0 => k - 1 \in 0..n)
        /\ \A k \in 0..n + 1 : k = n + 1 \/ k \in 0..n
        /\ n + 1 # 0 /\ (n + 1) - 1 = n /\ n \in 0..n /\ n + 1 \in 0..n + 1
    OBVIOUS
  <2>4. g[n + 1] = next(n + 1, f[n]) /\ \A k \in 0..n : g[k] = f[k]
    BY <2>3, Zenon
  <2> HIDE DEF next
  <2>5. ASSUME NEW k \in 0..n + 1 PROVE g[k] = IF k = 0 THEN 0 ELSE next(k, g[k - 1])
    <3>1. CASE k = n + 1
      BY <2>3, <2>4, <3>1
    <3>2. CASE k \in 0..n
      BY <2>2, <2>3, <2>4, <3>2
    <3> QED BY <2>3, <3>1, <3>2
  <2>6. g = [k \in 0..n + 1 |-> g[k]]
    OBVIOUS
  <2> HIDE DEF g
  <2>7. g = [k \in 0..n + 1 |-> IF k = 0 THEN 0 ELSE next(k, g[k - 1])]
    BY <2>5, <2>6, Zenon
  <2>8. AddedBy(parts, n + 1, g)
    BY <2>7, Zenon DEF AddedBy, next
  <2> QED BY <2>8
<1> HIDE DEF T
<1>3. \A n \in Nat : n \in T
  BY <1>1, <1>2, SetInduction
<1> QED BY <1>3 DEF T

LEMMA TotalIs ==
    ASSUME NEW parts, Len(parts) \in Nat
    PROVE  \E f : AddedBy(parts, Len(parts), f) /\ Total(parts) = f[Len(parts)]
<1> DEFINE f == CHOOSE f : AddedBy(parts, Len(parts), f)
<1>1. AddedBy(parts, Len(parts), f)
  BY AddedExists, Zenon
<1>2. Total(parts) = f[Len(parts)]
  BY DEF Total, AddedBy
<1> QED BY <1>1, <1>2

Carried(parts) ==
    \A k \in 2..Len(parts) : parts[k][1] * parts[k][2] < parts[k - 1][2]

\* The total of up to three parts.
LEMMA FewParts ==
    /\ Total(<<>>) = 0 /\ Carried(<<>>)
    /\ \A a, u \in Nat : Total(<< <<a, u>> >>) = a * u /\ Carried(<< <<a, u>> >>)
    /\ \A a, u, b, v \in Nat :
           /\ Total(<< <<a, u>>, <<b, v>> >>) = a * u + b * v
           /\ b * v < u => Carried(<< <<a, u>>, <<b, v>> >>)
    /\ \A a, u, b, v, c, w \in Nat :
           /\ Total(<< <<a, u>>, <<b, v>>, <<c, w>> >>) = a * u + b * v + c * w
           /\ b * v < u /\ c * w < v => Carried(<< <<a, u>>, <<b, v>>, <<c, w>> >>)
<1>1. ASSUME NEW parts, Len(parts) \in Nat
      PROVE  \E f : /\ Total(parts) = f[Len(parts)] /\ f[0] = 0
                    /\ \A k \in 1..Len(parts) : f[k] = f[k - 1] + parts[k][1] * parts[k][2]
  <2>1. PICK f : AddedBy(parts, Len(parts), f) /\ Total(parts) = f[Len(parts)]
    BY <1>1, TotalIs
  <2>2. f[0] = 0
    BY <1>1, <2>1 DEF AddedBy
  <2>3. ASSUME NEW k \in 1..Len(parts) PROVE f[k] = f[k - 1] + parts[k][1] * parts[k][2]
    <3>1. k \in 0..Len(parts) /\ k # 0
      BY <1>1
    <3> QED BY <2>1, <3>1, Zenon DEF AddedBy
  <2> QED BY <2>1, <2>2, <2>3
<1>2. Total(<<>>) = 0 /\ Carried(<<>>)
  <2>1. Len(<<>>) = 0
    OBVIOUS
  <2>2. Total(<<>>) = 0
    BY <1>1, <2>1
  <2> QED BY <2>1, <2>2 DEF Carried
<1>3. ASSUME NEW a \in Nat, NEW u \in Nat
      PROVE  Total(<< <<a, u>> >>) = a * u /\ Carried(<< <<a, u>> >>)
  <2> DEFINE parts == << <<a, u>> >>
  <2>1. Len(parts) = 1 /\ parts[1][1] = a /\ parts[1][2] = u
    OBVIOUS
  <2> HIDE DEF parts
  <2>2. PICK f : /\ Total(parts) = f[1] /\ f[0] = 0
                 /\ \A k \in 1..1 : f[k] = f[k - 1] + parts[k][1] * parts[k][2]
    BY <1>1, <2>1
  <2>3. f[1] = a * u
    BY <2>1, <2>2
  <2> QED BY <2>1, <2>2, <2>3 DEF Carried, parts
<1>4. ASSUME NEW a \in Nat, NEW u \in Nat, NEW b \in Nat, NEW v \in Nat
      PROVE  /\ Total(<< <<a, u>>, <<b, v>> >>) = a * u + b * v
             /\ b * v < u => Carried(<< <<a, u>>, <<b, v>> >>)
  <2> DEFINE parts == << <<a, u>>, <<b, v>> >>
  <2>1. Len(parts) = 2 /\ parts[1][1] = a /\ parts[1][2] = u /\ parts[2][1] = b /\ parts[2][2] = v
    OBVIOUS
  <2> HIDE DEF parts
  <2>2. PICK f : /\ Total(parts) = f[2] /\ f[0] = 0
                 /\ \A k \in 1..2 : f[k] = f[k - 1] + parts[k][1] * parts[k][2]
    BY <1>1, <2>1
  <2>3. f[1] = a * u /\ f[2] = a * u + b * v
    BY <2>1, <2>2
  <2>4. b * v < u => Carried(parts)
    BY <2>1 DEF Carried
  <2> QED BY <2>2, <2>3, <2>4 DEF parts
<1>5. ASSUME NEW a \in Nat, NEW u \in Nat, NEW b \in Nat, NEW v \in Nat, NEW c \in Nat, NEW w \in Nat
      PROVE  /\ Total(<< <<a, u>>, <<b, v>>, <<c, w>> >>) = a * u + b * v + c * w
             /\ b * v < u /\ c * w < v => Carried(<< <<a, u>>, <<b, v>>, <<c, w>> >>)
  <2> DEFINE parts == << <<a, u>>, <<b, v>>, <<c, w>> >>
  <2>1. Len(parts) = 3 /\ parts[1][1] = a /\ parts[1][2] = u /\ parts[2][1] = b /\ parts[2][2] = v
        /\ parts[3][1] = c /\ parts[3][2] = w
    OBVIOUS
  <2> HIDE DEF parts
  <2>5. PICK f : /\ Total(parts) = f[Len(parts)] /\ f[0] = 0
                 /\ \A k \in 1..Len(parts) : f[k] = f[k - 1] + parts[k][1] * parts[k][2]
    <3>1. Len(parts) \in Nat
      BY <2>1
    <3> QED BY <1>1, <3>1, Zenon
  <2>2. /\ Total(parts) = f[3] /\ f[0] = 0
        /\ \A k \in 1..3 : f[k] = f[k - 1] + parts[k][1] * parts[k][2]
    BY <2>1, <2>5
  <2>3. f[1] = a * u /\ f[2] = a * u + b * v /\ f[3] = a * u + b * v + c * w
    BY <2>1, <2>2
  <2>4. b * v < u /\ c * w < v => Carried(parts)
    BY <2>1 DEF Carried
  <2> QED BY <2>2, <2>3, <2>4 DEF parts
<1> QED BY <1>2, <1>3, <1>4, <1>5

LEMMA ThreeParts ==
    ASSUME NEW a \in Nat, NEW b \in Nat, NEW c \in Nat, NEW u \in Nat, NEW v \in Nat, NEW w \in Nat
    PROVE  LET parts == Parts(<<a, b, c>>, <<u, v, w>>)
           IN  /\ Total(parts) = a * u + b * v + c * w
               /\ b * v < u /\ c * w < v /\ c * w < u => Carried(parts)
               /\ parts = <<>> => a = 0 /\ b = 0 /\ c = 0
<1> DEFINE s == << <<a, u>>, <<b, v>>, <<c, w>> >>
           P == {k \in 1..3 : <<a, b, c>>[k] > 0}
           parts == Parts(<<a, b, c>>, <<u, v, w>>)
<1>1. parts = Kept(s, P)
  <2> DEFINE numbers == <<a, b, c>>  units == <<u, v, w>>
  <2>1. Len(units) = 3 /\ s = [k \in 1..3 |-> <<numbers[k], units[k]>>]
    OBVIOUS
  <2> HIDE DEF units, numbers, s
  <2>2. Parts(numbers, units) = Kept(s, {k \in 1..3 : numbers[k] > 0})
    BY <2>1 DEF Parts
  <2> QED BY <2>2 DEF units, numbers
<1>2. Len(s) = 3 /\ s[1] = <<a, u>> /\ s[2] = <<b, v>> /\ s[3] = <<c, w>>
  OBVIOUS
<1>3. (1 \in P <=> a > 0) /\ (2 \in P <=> b > 0) /\ (3 \in P <=> c > 0)
  OBVIOUS
<1> HIDE DEF s, P
<1>4. PICK f : KeptBy(s, P, 3, f) /\ Kept(s, P) = f[3]
  <2>1. Len(s) \in Nat
    BY <1>2
  <2>2. \E f : KeptBy(s, P, Len(s), f) /\ Kept(s, P) = f[Len(s)]
    BY <2>1, KeptIs, Zenon
  <2> QED BY <1>2, <2>2, Zenon
<1>5. /\ f[0] = <<>>
      /\ f[1] = IF a > 0 THEN Append(f[0], <<a, u>>) ELSE f[0]
      /\ f[2] = IF b > 0 THEN Append(f[1], <<b, v>>) ELSE f[1]
      /\ f[3] = IF c > 0 THEN Append(f[2], <<c, w>>) ELSE f[2]
  <2>1. \A k \in 0..3 : f[k] = IF k = 0 THEN <<>>
                               ELSE IF k \in P THEN Append(f[k - 1], s[k]) ELSE f[k - 1]
    BY <1>4, Zenon DEF KeptBy
  <2>2. /\ 0 \in 0..3 /\ 1 \in 0..3 /\ 2 \in 0..3 /\ 3 \in 0..3
        /\ 1 # 0 /\ 2 # 0 /\ 3 # 0 /\ 1 - 1 = 0 /\ 2 - 1 = 1 /\ 3 - 1 = 2
    OBVIOUS
  <2> QED BY <1>2, <1>3, <2>1, <2>2, Zenon
<1> DEFINE A == <<a, u>>  B == <<b, v>>  C == <<c, w>>
<1>6. parts = f[3]
  BY <1>1, <1>4
<1> HIDE DEF parts
<1>7. /\ a > 0 /\ b > 0 /\ c > 0 => parts = <<A, B, C>>
      /\ a > 0 /\ b > 0 /\ ~(c > 0) => parts = <<A, B>>
      /\ a > 0 /\ ~(b > 0) /\ c > 0 => parts = <<A, C>>
      /\ a > 0 /\ ~(b > 0) /\ ~(c > 0) => parts = <<A>>
      /\ ~(a > 0) /\ b > 0 /\ c > 0 => parts = <<B, C>>
      /\ ~(a > 0) /\ b > 0 /\ ~(c > 0) => parts = <<B>>
      /\ ~(a > 0) /\ ~(b > 0) /\ c > 0 => parts = <<C>>
      /\ ~(a > 0) /\ ~(b > 0) /\ ~(c > 0) => parts = <<>>
  <2>1. /\ \A x : Append(<<>>, x) = <<x>>
        /\ \A x, y : Append(<<x>>, y) = <<x, y>>
        /\ \A x, y, z : Append(<<x, y>>, z) = <<x, y, z>>
    <3>1. ASSUME NEW x, NEW y, NEW z
          PROVE  /\ Append(<<>>, x) = <<x>> /\ Append(<<x>>, y) = <<x, y>>
                 /\ Append(<<x, y>>, z) = <<x, y, z>>
      <4>1. Append(<<>>, x) = <<x>>
        OBVIOUS
      <4> DEFINE S == {x, y, z}
      <4>2. Append(<<x>>, y) = <<x, y>>
        <5> DEFINE seq == <<x>>  q == Append(seq, y)  r == <<x, y>>
        <5>1. seq \in Seq(S) /\ Len(seq) = 1 /\ seq[1] = x /\ y \in S
              /\ r \in Seq(S) /\ Len(r) = 2 /\ r[1] = x /\ r[2] = y
          OBVIOUS
        <5> HIDE DEF seq, r, S
        <5>2. q \in Seq(S) /\ Len(q) = 2 /\ q[1] = x /\ q[2] = y
          <6>2. seq \in Seq(S) /\ y \in S
            BY <5>1
          <6>1. /\ q \in Seq(S) /\ Len(q) = Len(seq) + 1 /\ q[Len(seq) + 1] = y
                /\ \A k \in 1..Len(seq) : q[k] = seq[k]
            BY <6>2, AppendProperties
          <6> HIDE DEF q
          <6> QED BY <5>1, <6>1
        <5> HIDE DEF q
        <5>3. q = r
          BY <5>1, <5>2, SeqEqual
        <5> QED BY <5>3 DEF q, r, seq
      <4>3. Append(<<x, y>>, z) = <<x, y, z>>
        <5> DEFINE seq == <<x, y>>  q == Append(seq, z)  r == <<x, y, z>>
        <5>1. seq \in Seq(S) /\ Len(seq) = 2 /\ seq[1] = x /\ seq[2] = y /\ z \in S
              /\ r \in Seq(S) /\ Len(r) = 3 /\ r[1] = x /\ r[2] = y /\ r[3] = z
          OBVIOUS
        <5> HIDE DEF seq, r, S
        <5>2. q \in Seq(S) /\ Len(q) = 3 /\ q[1] = x /\ q[2] = y /\ q[3] = z
          <6>2. seq \in Seq(S) /\ z \in S
            BY <5>1
          <6>1. /\ q \in Seq(S) /\ Len(q) = Len(seq) + 1 /\ q[Len(seq) + 1] = z
                /\ \A k \in 1..Len(seq) : q[k] = seq[k]
            BY <6>2, AppendProperties
          <6> HIDE DEF q
          <6> QED BY <5>1, <6>1
        <5> HIDE DEF q
        <5>3. q = r
          BY <5>1, <5>2, SeqEqual
        <5> QED BY <5>3 DEF q, r, seq
      <4> QED BY <4>1, <4>2, <4>3
    <3> QED BY <3>1, Zenon
  <2> HIDE DEF A, B, C
  <2>2. /\ f[0] = <<>>
        /\ f[1] = IF a > 0 THEN Append(f[0], A) ELSE f[0]
        /\ f[2] = IF b > 0 THEN Append(f[1], B) ELSE f[1]
        /\ f[3] = IF c > 0 THEN Append(f[2], C) ELSE f[2]
    BY <1>5, ZenonT(60) DEF A, B, C
  <2> QED BY <1>6, <2>1, <2>2, ZenonT(60)
<1>8. /\ ~(a > 0) => a = 0 /\ a * u = 0
      /\ ~(b > 0) => b = 0 /\ b * v = 0
      /\ ~(c > 0) => c = 0 /\ c * w = 0
      /\ a * u \in Nat /\ b * v \in Nat /\ c * w \in Nat
  BY SMT
<1> DEFINE x == a * u  y == b * v  z == c * w
<1>9. Total(<<>>) = 0 /\ Carried(<<>>)
  BY FewParts, Zenon
<1>10. /\ Total(<<A>>) = x /\ Carried(<<A>>)
       /\ Total(<<B>>) = y /\ Carried(<<B>>)
       /\ Total(<<C>>) = z /\ Carried(<<C>>)
  BY FewParts, Zenon
<1>11. /\ Total(<<A, B>>) = x + y /\ (y < u => Carried(<<A, B>>))
       /\ Total(<<A, C>>) = x + z /\ (z < u => Carried(<<A, C>>))
       /\ Total(<<B, C>>) = y + z /\ (z < v => Carried(<<B, C>>))
  <2>1. Total(<<A, B>>) = x + y /\ (y < u => Carried(<<A, B>>))
    BY FewParts, Zenon
  <2>2. Total(<<A, C>>) = x + z /\ (z < u => Carried(<<A, C>>))
    BY FewParts, Zenon
  <2>3. Total(<<B, C>>) = y + z /\ (z < v => Carried(<<B, C>>))
    BY FewParts, Zenon
  <2> QED BY <2>1, <2>2, <2>3, Zenon
<1>12. Total(<<A, B, C>>) = x + y + z /\ (y < u /\ z < v => Carried(<<A, B, C>>))
  BY FewParts, Zenon
<1>13. parts = <<>> => ~(a > 0) /\ ~(b > 0) /\ ~(c > 0)
  <2>1. \A p, q, r : <<p>> # <<>> /\ <<p, q>> # <<>> /\ <<p, q, r>> # <<>>
    OBVIOUS
  <2> QED BY <1>7, <2>1, Zenon
<1>14. /\ x \in Nat /\ y \in Nat /\ z \in Nat
       /\ ~(a > 0) => a = 0 /\ x = 0
       /\ ~(b > 0) => b = 0 /\ y = 0
       /\ ~(c > 0) => c = 0 /\ z = 0
  BY <1>8
<1> HIDE DEF A, B, C, x, y, z
<1>15. /\ Total(parts) = x + y + z
       /\ y < u /\ z < v /\ z < u => Carried(parts)
  <2> DEFINE p == a > 0  q == b > 0  r == c > 0
  <2>1. x + y + z = IF p THEN IF q THEN IF r THEN x + y + z ELSE x + y
                              ELSE IF r THEN x + z ELSE x
                    ELSE IF q THEN IF r THEN y + z ELSE y
                              ELSE IF r THEN z ELSE 0
    BY <1>14
  <2> HIDE DEF p, q, r
  <2>2. /\ p /\ q /\ r => parts = <<A, B, C>>
        /\ p /\ q /\ ~r => parts = <<A, B>>
        /\ p /\ ~q /\ r => parts = <<A, C>>
        /\ p /\ ~q /\ ~r => parts = <<A>>
        /\ ~p /\ q /\ r => parts = <<B, C>>
        /\ ~p /\ q /\ ~r => parts = <<B>>
        /\ ~p /\ ~q /\ r => parts = <<C>>
        /\ ~p /\ ~q /\ ~r => parts = <<>>
    BY <1>7 DEF p, q, r
  <2>3. CASE p
    BY <1>10, <1>11, <1>12, <2>1, <2>2, <2>3, Zenon
  <2>4. CASE ~p
    BY <1>9, <1>10, <1>11, <2>1, <2>2, <2>4, Zenon
  <2> QED BY <2>3, <2>4
<1> QED BY <1>13, <1>14, <1>15 DEF parts, x, y, z

\* A span to the nearest minute, and what it is shown as.
Minutes(d) == (d + 30) \div 60

LEMMA SpanRead ==
    ASSUME NEW d \in Nat
    PROVE  Total(FormatSpan(d)) = 60 * Minutes(d) /\ Carried(FormatSpan(d))
<1> DEFINE m == Minutes(d)  a == m \div 1440  b == (m % 1440) \div 60  c == m % 60
           parts == Parts(<<a, b, c>>, <<86400, 3600, 60>>)
<1>1. m \in Nat
  BY DEF Minutes
<1>2. FormatSpan(d) = IF parts = <<>> THEN << <<0, 60>> >> ELSE parts
  <2>1. ~(d < 0)
    OBVIOUS
  <2> QED BY <2>1 DEF FormatSpan, Minutes
<1> HIDE DEF m
<1>3. /\ a \in Nat /\ b \in Nat /\ c \in Nat
      /\ a * 86400 + b * 3600 + c * 60 = 60 * m
      /\ b * 3600 < 86400 /\ c * 60 < 3600 /\ c * 60 < 86400
  BY <1>1, SMT
<1> HIDE DEF a, b, c
<1> DEFINE u == 86400  v == 3600  w == 60
<1>4. /\ u \in Nat /\ v \in Nat /\ w \in Nat
      /\ a * u + b * v + c * w = 60 * m
      /\ b * v < u /\ c * w < v /\ c * w < u
  BY <1>3
<1>5. parts = Parts(<<a, b, c>>, <<u, v, w>>)
  OBVIOUS
<1> HIDE DEF u, v, w, parts
<1>6. /\ Total(parts) = a * u + b * v + c * w
      /\ b * v < u /\ c * w < v /\ c * w < u => Carried(parts)
      /\ parts = <<>> => a = 0 /\ b = 0 /\ c = 0
  BY <1>3, <1>4, <1>5, ThreeParts
<1>7. CASE parts # <<>>
  BY <1>2, <1>4, <1>6, <1>7 DEF m
<1>8. CASE parts = <<>>
  <2>1. 60 * m = 0
    BY <1>3, <1>6, <1>8
  <2>2. 0 \in Nat /\ 60 \in Nat /\ 0 * 60 = 0
    OBVIOUS
  <2>3. Total(<< <<0, 60>> >>) = 0 /\ Carried(<< <<0, 60>> >>)
    BY <2>2, FewParts, ZenonT(60)
  <2> QED BY <1>2, <1>8, <2>1, <2>3, Zenon DEF m
<1> QED BY <1>7, <1>8

LEMMA DurationRead ==
    ASSUME NEW d \in Nat
    PROVE  Total(DurationText(d)) = d /\ Carried(DurationText(d))
<1> DEFINE a == d \div 3600  b == (d % 3600) \div 60  c == d % 60
           u == 3600  v == 60  w == 1
<1>1. /\ a \in Nat /\ b \in Nat /\ c \in Nat /\ u \in Nat /\ v \in Nat /\ w \in Nat
      /\ a * u + b * v + c * w = d
      /\ b * v < u /\ c * w < v /\ c * w < u
  BY SMT
<1>2. DurationText(d) = Parts(<<a, b, c>>, <<u, v, w>>)
  BY DEF DurationText
<1> HIDE DEF a, b, c, u, v, w
<1> DEFINE parts == Parts(<<a, b, c>>, <<u, v, w>>)
<1>3. /\ Total(parts) = a * u + b * v + c * w
      /\ b * v < u /\ c * w < v /\ c * w < u => Carried(parts)
  BY <1>1, ThreeParts
<1> QED BY <1>1, <1>2, <1>3, Zenon

\* The time recorded and the time remaining, in minutes, are the total or one off.
LEMMA MinutesAddUp ==
    ASSUME NEW capacity \in Nat, NEW count \in Nat, count <= capacity, NEW interval \in Nat
    PROVE  /\ capacity * interval \in Nat /\ count * interval \in Nat
           /\ (capacity - count) * interval \in Nat
           /\ 60 * Minutes(capacity * interval) - 60 * Minutes(count * interval)
                  - 60 * Minutes((capacity - count) * interval) \in -60..60
<1>1. capacity * interval \in Nat /\ count * interval \in Nat
      /\ (capacity - count) * interval \in Nat
  <2>1. capacity - count \in Nat
    OBVIOUS
  <2>2. \A x, y \in Nat : x * y \in Nat
    OBVIOUS
  <2> QED BY <2>1, <2>2
<1>2. capacity * interval = count * interval + (capacity - count) * interval
  BY SMT
<1>3. ASSUME NEW x \in Nat, NEW y \in Nat, NEW z \in Nat, x = y + z
      PROVE  60 * Minutes(x) - 60 * Minutes(y) - 60 * Minutes(z) \in -60..60
  BY <1>3 DEF Minutes
<1> QED BY <1>1, <1>2, <1>3

\* Times are read back: an interval as it is, a span within half a minute, with
\* each unit used up, and the time recorded and the time remaining make up the
\* total to the minute.
THEOREM TimesAreReadBack == Spec => []TimesReadBack
<1>1. Outcome => TimesReadBack
  <2>1. SUFFICES ASSUME Outcome, Decoded("time") PROVE TimesReadBack
    BY DEF TimesReadBack
  <2> DEFINE i == input
  <2>2. i \in TimeInputs /\ output = TimesShown(i)
    BY <2>1, InputOfKind, Zenon DEF Outcome, Decoded
  <2>3. i.span \in Nat /\ i.capacity \in Nat /\ i.count \in Nat /\ i.count <= i.capacity
    <3>1. i.span \in Spans /\ i.capacity \in Counts /\ i.count \in Counts /\ i.count <= i.capacity
      BY <2>2 DEF TimeInputs
    <3> HIDE DEF i
    <3>2. \A s \in Spans : s \in Nat
      BY CodecAssumption, SMT
    <3>3. \A n \in Counts : n \in Nat
      BY CodecAssumption, Ranges, SMT
    <3> QED BY <3>1, <3>2, <3>3, Zenon
  <2> HIDE DEF i
  <2> DEFINE d == i.span  cap == i.capacity  n == i.count
  <2>4. /\ output.duration = DurationText(d) /\ output.span = FormatSpan(d)
        /\ output.life = LoggingTimeText(d, TRUE, cap, n)
    BY <2>2 DEF TimesShown
  <2> HIDE DEF d, cap, n
  <2>5. d \in Nat /\ cap \in Nat /\ n \in Nat /\ n <= cap
    BY <2>3 DEF d, cap, n
  <2>6. Total(output.duration) = d /\ Carried(output.duration)
    BY <2>4, <2>5, DurationRead, Zenon
  <2>7. Magnitude(Total(output.span) - d) <= 30 /\ Carried(output.span)
    <3>1. Total(output.span) = 60 * Minutes(d) /\ Carried(output.span)
      BY <2>4, <2>5, SpanRead, Zenon
    <3>2. 60 * Minutes(d) - d \in -30..30
      BY <2>5 DEF Minutes
    <3> HIDE DEF d
    <3> QED BY <3>1, <3>2 DEF Magnitude
  <2>8. ASSUME output.life.ok
        PROVE  Magnitude(Total(output.life.total) - Total(output.life.recorded)
                             - Total(output.life.remaining)) <= 60
    <3>1. output.life = [ok |-> TRUE, total |-> FormatSpan(cap * d),
                         recorded |-> FormatSpan(n * d),
                         remaining |-> FormatSpan((cap - n) * d)]
      BY <2>4, <2>8 DEF LoggingTimeText, Nothing
    <3> DEFINE x == cap * d  y == n * d  z == (cap - n) * d
    <3>2. x \in Nat /\ y \in Nat /\ z \in Nat
          /\ 60 * Minutes(x) - 60 * Minutes(y) - 60 * Minutes(z) \in -60..60
      BY <2>5, MinutesAddUp
    <3>3. /\ output.life.total = FormatSpan(x) /\ output.life.recorded = FormatSpan(y)
          /\ output.life.remaining = FormatSpan(z)
      BY <3>1
    <3> HIDE DEF x, y, z
    <3>4. /\ Total(output.life.total) = 60 * Minutes(x)
          /\ Total(output.life.recorded) = 60 * Minutes(y)
          /\ Total(output.life.remaining) = 60 * Minutes(z)
      BY <3>2, <3>3, SpanRead, Zenon
    <3> QED BY <3>2, <3>4 DEF Magnitude
  <2> QED BY <2>6, <2>7, <2>8, Zenon DEF TimesReadBack, Carried, d, i
<1> QED BY <1>1, OutcomeHolds, PTL

-----------------------------------------------------------------------------
(* The elements that are kept, by their positions *)

UpTo(n) == [k \in 1..n |-> k]
Picked(s, G) == [k \in 1..Len(G) |-> s[G[k]]]

LEMMA PickMore ==
    ASSUME NEW S, NEW s \in Seq(S), NEW G \in Seq(1..Len(s)), NEW x \in 1..Len(s)
    PROVE  Append(Picked(s, G), s[x]) = Picked(s, Append(G, x))
<1> DEFINE n == Len(s)  m == Len(G)  H == Append(G, x)  p == Picked(s, G)
           a == Append(p, s[x])  b == Picked(s, H)
<1>1. n \in Nat /\ m \in Nat /\ (\A k \in 1..n : s[k] \in S) /\ (\A k \in 1..m : G[k] \in 1..n)
  OBVIOUS
<1>2. H \in Seq(1..n) /\ Len(H) = m + 1 /\ (\A k \in 1..m : H[k] = G[k]) /\ H[m + 1] = x
  BY AppendProperties
<1>3. s[x] \in S
  BY <1>1
<1> HIDE DEF n, m, H
<1>4. p = [k \in 1..m |-> s[G[k]]] /\ b = [k \in 1..m + 1 |-> s[H[k]]]
  BY <1>2 DEF Picked, m
<1> HIDE DEF p, b
<1>5. p \in Seq(S) /\ Len(p) = m /\ \A k \in 1..m : p[k] = s[G[k]]
  BY <1>1, <1>4
<1>6. \A k \in 1..m + 1 : H[k] \in 1..n
  BY <1>1, <1>2
<1>7. b \in Seq(S) /\ Len(b) = m + 1 /\ \A k \in 1..m + 1 : b[k] = s[H[k]]
  <2>1. \A k \in 1..m + 1 : s[H[k]] \in S
    BY <1>1, <1>6
  <2> QED BY <1>1, <1>4, <2>1
<1>8. a \in Seq(S) /\ Len(a) = m + 1 /\ (\A k \in 1..m : a[k] = p[k]) /\ a[m + 1] = s[x]
  BY <1>3, <1>5, AppendProperties
<1> HIDE DEF a
<1>9. ASSUME NEW k \in 1..m + 1 PROVE a[k] = b[k]
  <2>1. CASE k \in 1..m
    <3>1. a[k] = p[k] /\ p[k] = s[G[k]]
      BY <1>5, <1>8, <2>1, Zenon
    <3>2. H[k] = G[k]
      BY <1>2, <2>1, Zenon
    <3>3. b[k] = s[H[k]]
      BY <1>7, <1>9, Zenon
    <3> QED BY <3>1, <3>2, <3>3, Zenon
  <2>2. CASE k = m + 1
    BY <1>2, <1>7, <1>8, <1>9, <2>2
  <2> QED BY <1>1, <2>1, <2>2
<1>10. a = b
  BY <1>7, <1>8, <1>9, SeqEqual
<1> QED BY <1>10 DEF a, b, p, H

\* The positions of P up to n, in their order.
Orders(K, P, n) ==
    /\ K \in Seq(1..n)
    /\ \A k \in 1..Len(K) : K[k] \in P
    /\ \A j, k \in 1..Len(K) : j < k => K[j] < K[k]
    /\ \A p \in 1..n : p \in P => \E k \in 1..Len(K) : K[k] = p

LEMMA KeptPicked ==
    ASSUME NEW S, NEW s \in Seq(S), NEW P
    PROVE  /\ Kept(s, P) = Picked(s, Kept(UpTo(Len(s)), P))
           /\ Orders(Kept(UpTo(Len(s)), P), P, Len(s))
<1> DEFINE n == Len(s)  c == UpTo(n)
<1>1. n \in Nat
  OBVIOUS
<1>2. c \in Seq(1..n) /\ Len(c) = n /\ \A k \in 1..n : c[k] = k
  BY <1>1 DEF UpTo
<1> HIDE DEF c
<1>3. PICK f : KeptBy(s, P, n, f) /\ Kept(s, P) = f[n]
  BY <1>1, KeptIs
<1>4. PICK g : KeptBy(c, P, n, g) /\ Kept(c, P) = g[n]
  <2>1. Len(c) \in Nat
    BY <1>1, <1>2
  <2>2. \E g : KeptBy(c, P, Len(c), g) /\ Kept(c, P) = g[Len(c)]
    BY <2>1, KeptIs, Zenon
  <2> QED BY <1>2, <2>2, Zenon
<1> HIDE DEF n
<1> DEFINE T == {k \in Nat : k <= n => g[k] \in Seq(1..n) /\ f[k] = Picked(s, g[k])}
<1>5. 0 \in T
  <2>1. f[0] = <<>> /\ g[0] = <<>>
    BY <1>1, <1>3, <1>4 DEF KeptBy
  <2>2. Picked(s, <<>>) = <<>> /\ <<>> \in Seq(1..n)
    BY DEF Picked
  <2> QED BY <2>1, <2>2, Zenon
<1>6. ASSUME NEW k \in Nat, k \in T PROVE k + 1 \in T
  <2>1. SUFFICES ASSUME k + 1 <= n
                 PROVE  g[k + 1] \in Seq(1..n) /\ f[k + 1] = Picked(s, g[k + 1])
    OBVIOUS
  <2>2. g[k] \in Seq(1..n) /\ f[k] = Picked(s, g[k])
    BY <1>1, <1>6, <2>1
  <2>3. k + 1 \in 0..n /\ k + 1 # 0 /\ (k + 1) - 1 = k /\ k + 1 \in 1..n
    BY <1>1, <2>1
  <2>4. /\ f[k + 1] = IF k + 1 \in P THEN Append(f[k], s[k + 1]) ELSE f[k]
        /\ g[k + 1] = IF k + 1 \in P THEN Append(g[k], c[k + 1]) ELSE g[k]
    <3>1. \A x \in 0..n : /\ f[x] = IF x = 0 THEN <<>>
                                    ELSE IF x \in P THEN Append(f[x - 1], s[x]) ELSE f[x - 1]
                          /\ g[x] = IF x = 0 THEN <<>>
                                    ELSE IF x \in P THEN Append(g[x - 1], c[x]) ELSE g[x - 1]
      BY <1>3, <1>4, Zenon DEF KeptBy
    <3> QED BY <2>3, <3>1, Zenon
  <2>5. c[k + 1] = k + 1
    BY <1>2, <2>3
  <2>6. CASE k + 1 \in P
    <3> DEFINE G == g[k]  x == k + 1
    <3>1. G \in Seq(1..n) /\ x \in 1..n
      BY <2>2, <2>3
    <3> HIDE DEF G, x
    <3>2. Append(Picked(s, G), s[x]) = Picked(s, Append(G, x))
      BY <3>1, PickMore DEF n
    <3>3. Append(G, x) \in Seq(1..n)
      BY <3>1, AppendProperties
    <3> QED BY <2>2, <2>4, <2>5, <2>6, <3>2, <3>3, Zenon DEF G, x
  <2>7. CASE k + 1 \notin P
    BY <2>2, <2>4, <2>7
  <2> QED BY <2>6, <2>7
<1> HIDE DEF T
<1>7. n \in T
  BY <1>1, <1>5, <1>6, SetInduction
<1>8. Kept(s, P) = Picked(s, Kept(c, P))
  BY <1>1, <1>3, <1>4, <1>7 DEF T
<1>9. Orders(Kept(c, P), P, n)
  <2> DEFINE K == Kept(c, P)
  <2>1. K \in Seq(1..n) /\ \E h : Selects(K, c, P, Len(c), h)
    BY <1>2, KeptSelects, Zenon
  <2>2. PICK h : Selects(K, c, P, n, h)
    BY <1>2, <2>1
  <2> HIDE DEF K
  <2>3. /\ \A k \in 1..Len(K) : h[k] \in 1..n /\ h[k] \in P /\ K[k] = c[h[k]]
        /\ \A j, k \in 1..Len(K) : j < k => h[j] < h[k]
        /\ \A p \in 1..n : p \in P => \E k \in 1..Len(K) : h[k] = p
    BY <2>2, Zenon DEF Selects
  <2>4. \A k \in 1..Len(K) : K[k] = h[k] /\ K[k] \in P
    BY <1>2, <2>3
  <2>5. Orders(K, P, n)
    BY <2>1, <2>3, <2>4, Zenon DEF Orders
  <2> QED BY <2>5 DEF K
<1> QED BY <1>8, <1>9 DEF c, n

-----------------------------------------------------------------------------
(* The columns of a table *)

Column(h, name) == CHOOSE c \in 1..Len(h) : h[c] = name
ColumnOf(t, k, name) == t.rows[k][Column(t.header, name)]

LEMMA ColumnIs ==
    ASSUME NEW h, NEW name, NEW c \in 1..Len(h), h[c] = name,
           \A d \in 1..Len(h) : h[d] = name => d = c
    PROVE  Column(h, name) = c
BY Zenon DEF Column

\* Four columns, and more.
Four == <<"index", "time", "temperature", "status">>
Five == <<"index", "time", "temperature", "humidity", "status">>
EventsToo == <<"index", "time", "temperature", "status", "events">>
AllSix == <<"index", "time", "temperature", "humidity", "status", "events">>

LEMMA HeaderCells ==
    /\ Len(Four) = 4 /\ Len(Five) = 5 /\ Len(EventsToo) = 5 /\ Len(AllSix) = 6
    /\ Four[1] = "index" /\ Four[2] = "time" /\ Four[3] = "temperature" /\ Four[4] = "status"
    /\ Five[1] = "index" /\ Five[2] = "time" /\ Five[3] = "temperature"
    /\ Five[4] = "humidity" /\ Five[5] = "status"
    /\ EventsToo[1] = "index" /\ EventsToo[2] = "time" /\ EventsToo[3] = "temperature"
    /\ EventsToo[4] = "status" /\ EventsToo[5] = "events"
    /\ AllSix[1] = "index" /\ AllSix[2] = "time" /\ AllSix[3] = "temperature"
    /\ AllSix[4] = "humidity" /\ AllSix[5] = "status" /\ AllSix[6] = "events"
BY DEF Four, Five, EventsToo, AllSix

LEMMA HeadersDiffer ==
    /\ ~Contains(Four, "humidity") /\ Contains(Five, "humidity")
    /\ ~Contains(EventsToo, "humidity") /\ Contains(AllSix, "humidity")
    /\ Four # Five /\ Four # EventsToo /\ Four # AllSix
    /\ Five # EventsToo /\ Five # AllSix /\ EventsToo # AllSix
<1>1. /\ ~Contains(Four, "humidity") /\ Contains(Five, "humidity")
      /\ ~Contains(EventsToo, "humidity") /\ Contains(AllSix, "humidity")
  BY HeaderCells DEF Contains
<1>2. /\ Four # Five /\ Four # EventsToo /\ Four # AllSix /\ Five # EventsToo
      /\ Five # AllSix /\ EventsToo # AllSix
  BY <1>1, HeaderCells
<1> QED BY <1>1, <1>2

LEMMA Headers ==
    ASSUME NEW h \in {Four, Five, EventsToo, AllSix}
    PROVE  /\ Column(h, "index") = 1 /\ Column(h, "time") = 2 /\ Column(h, "temperature") = 3
           /\ Contains(h, "humidity") <=> h \in {Five, AllSix}
           /\ Contains(h, "humidity") => Column(h, "humidity") = 4 /\ Column(h, "status") = 5
           /\ ~Contains(h, "humidity") => Column(h, "status") = 4
           /\ Len(h) = IF h = Four THEN 4 ELSE IF h = AllSix THEN 6 ELSE 5
<1>1. ASSUME NEW c \in 1..4 PROVE Column(Four, Four[c]) = c
  <2>1. Len(Four) = 4 /\ \A d \in 1..4 : Four[d] = Four[c] => d = c
    BY DEF Four
  <2> QED BY <2>1, ColumnIs
<1>2. ASSUME NEW c \in 1..5 PROVE Column(Five, Five[c]) = c
  <2>1. Len(Five) = 5 /\ \A d \in 1..5 : Five[d] = Five[c] => d = c
    BY DEF Five
  <2> QED BY <2>1, ColumnIs
<1>3. ASSUME NEW c \in 1..5 PROVE Column(EventsToo, EventsToo[c]) = c
  <2>1. Len(EventsToo) = 5 /\ \A d \in 1..5 : EventsToo[d] = EventsToo[c] => d = c
    BY DEF EventsToo
  <2> QED BY <2>1, ColumnIs
<1>4. ASSUME NEW c \in 1..6 PROVE Column(AllSix, AllSix[c]) = c
  <2>1. Len(AllSix) = 6 /\ \A d \in 1..6 : AllSix[d] = AllSix[c] => d = c
    BY DEF AllSix
  <2> QED BY <2>1, ColumnIs
<1>8. 1 \in 1..4 /\ 2 \in 1..4 /\ 3 \in 1..4 /\ 4 \in 1..4
      /\ \A c \in 1..4 : c \in 1..5 /\ c \in 1..6
      /\ 5 \in 1..5 /\ 5 \in 1..6
  OBVIOUS
<1>9. CASE h = Four
  BY <1>1, <1>8, <1>9, HeaderCells, HeadersDiffer, Zenon
<1>10. CASE h = Five
  BY <1>2, <1>8, <1>10, HeaderCells, HeadersDiffer, Zenon
<1>11. CASE h = EventsToo
  BY <1>3, <1>8, <1>11, HeaderCells, HeadersDiffer, Zenon
<1>12. CASE h = AllSix
  BY <1>4, <1>8, <1>12, HeaderCells, HeadersDiffer, Zenon
<1> QED BY <1>9, <1>10, <1>11, <1>12

\* A row has three cells, then those of y, then those of z, the first being e.
Laid(row, a, b, c, d, e, y, z) ==
    /\ Len(row) = 3 + Len(y) + Len(z) /\ row[1] = a /\ row[2] = b /\ row[3] = c
    /\ y = <<>> => row[4] = e
    /\ y = <<d>> => row[4] = d /\ row[5] = e

\* Rows of three cells, none or one, and one or two.
LEMMA Rows ==
    ASSUME NEW a, NEW b, NEW c, NEW d, NEW e, NEW f,
           NEW y \in {<<>>, <<d>>}, NEW z \in {<<e>>, <<e, f>>},
           NEW row, row = (<<a, b, c>> \o y) \o z
    PROVE  Laid(row, a, b, c, d, e, y, z)
<1> DEFINE S == {a, b, c, d, e, f}  x == <<a, b, c>>  xy == x \o y
<1>0. row = xy \o z
  OBVIOUS
<1>1. /\ x \in Seq(S) /\ Len(x) = 3 /\ x[1] = a /\ x[2] = b /\ x[3] = c
      /\ y \in Seq(S) /\ (y = <<>> => Len(y) = 0) /\ (y = <<d>> => Len(y) = 1 /\ y[1] = d)
      /\ z \in Seq(S) /\ Len(z) \in {1, 2} /\ z[1] = e
  <2>1. x \in Seq(S) /\ Len(x) = 3 /\ x[1] = a /\ x[2] = b /\ x[3] = c
    OBVIOUS
  <2>2. y \in Seq(S) /\ (y = <<>> => Len(y) = 0) /\ (y = <<d>> => Len(y) = 1 /\ y[1] = d)
    <3>1. CASE y = <<>>
      BY <3>1
    <3>2. CASE y = <<d>>
      BY <3>2
    <3> QED BY <3>1, <3>2
  <2>3. z \in Seq(S) /\ Len(z) \in {1, 2} /\ z[1] = e
    <3>1. CASE z = <<e>>
      BY <3>1
    <3>2. CASE z = <<e, f>>
      BY <3>2
    <3> QED BY <3>1, <3>2
  <2> QED BY <2>1, <2>2, <2>3, Zenon
<1> HIDE DEF S, x
<1>2. /\ xy \in Seq(S) /\ Len(xy) = 3 + Len(y) /\ (\A k \in 1..3 : xy[k] = x[k])
      /\ \A k \in 1..Len(y) : xy[3 + k] = y[k]
  <2>0. x \in Seq(S) /\ y \in Seq(S)
    BY <1>1, Zenon
  <2>1. /\ xy \in Seq(S) /\ Len(xy) = Len(x) + Len(y)
        /\ \A k \in 1..Len(x) + Len(y) : xy[k] = IF k <= Len(x) THEN x[k] ELSE y[k - Len(x)]
    BY <2>0, ConcatProperties
  <2> HIDE DEF xy
  <2> QED BY <1>1, <2>1
<1> HIDE DEF xy
<1>3. /\ Len(row) = Len(xy) + Len(z) /\ (\A k \in 1..Len(xy) : row[k] = xy[k])
      /\ \A k \in 1..Len(z) : row[Len(xy) + k] = z[k]
  <2>1. xy \in Seq(S) /\ z \in Seq(S)
    BY <1>1, <1>2, Zenon
  <2> DEFINE q == xy \o z
  <2>2. /\ Len(q) = Len(xy) + Len(z)
        /\ \A k \in 1..Len(xy) + Len(z) : q[k] = IF k <= Len(xy) THEN xy[k] ELSE z[k - Len(xy)]
    BY <2>1, ConcatProperties
  <2>3. row = q
    BY <1>0
  <2> HIDE DEF q
  <2>4. Len(xy) \in Nat /\ Len(z) \in Nat
    BY <1>1, <1>2
  <2>5. ASSUME NEW k \in 1..Len(xy) PROVE row[k] = xy[k]
    BY <2>2, <2>3, <2>4
  <2>6. ASSUME NEW k \in 1..Len(z) PROVE row[Len(xy) + k] = z[k]
    <3>1. /\ Len(xy) + k \in 1..Len(xy) + Len(z) /\ ~(Len(xy) + k <= Len(xy))
          /\ (Len(xy) + k) - Len(xy) = k
      BY <2>4
    <3> QED BY <2>2, <2>3, <3>1
  <2> QED BY <2>2, <2>3, <2>5, <2>6
<1>4. row[1] = a /\ row[2] = b /\ row[3] = c /\ Len(row) = 3 + Len(y) + Len(z)
  BY <1>1, <1>2, <1>3
<1>5. y = <<>> => row[4] = e
  <2>1. SUFFICES ASSUME y = <<>> PROVE row[4] = e
    OBVIOUS
  <2>2. Len(xy) = 3 /\ 1 \in 1..Len(z)
    BY <1>1, <1>2, <2>1
  <2>3. row[3 + 1] = z[1]
    BY <1>3, <2>2
  <2> QED BY <1>1, <2>3
<1>6. y = <<d>> => row[4] = d /\ row[5] = e
  <2>1. SUFFICES ASSUME y = <<d>> PROVE row[4] = d /\ row[5] = e
    OBVIOUS
  <2>2. Len(xy) = 4 /\ 1 \in 1..Len(z) /\ xy[4] = d
    BY <1>1, <1>2, <2>1
  <2>3. row[4 + 1] = z[1] /\ row[4] = xy[4]
    BY <1>3, <2>2
  <2>4. 4 + 1 = 5
    OBVIOUS
  <2> QED BY <1>1, <2>2, <2>3, <2>4, Zenon
<1> QED BY <1>4, <1>5, <1>6, Zenon DEF Laid

-----------------------------------------------------------------------------
(* What is made of records *)

\* What every record has that a download holds.
Tidy(r) ==
    /\ r.index \in Nat /\ Twelve(r.temperature) /\ Tenth(r.humidity)
    /\ Measured(r) \/ r.humidity = Nothing

LEMMA TidyRecords ==
    ASSUME NEW i \in StoreInputs, NEW p \in Nat, SlotAt(i, p).ok
    PROVE  Tidy(RecordAt(i, p))
<1> DEFINE slot == SlotAt(i, p)  read == SlotRead(i, p)  r == RecordAt(i, p)
<1>1. Twelve(slot.temperature) /\ Tenth(slot.humidity) /\ i.humid \in BOOLEAN
  <2>1. SlotFits(i, p) /\ i.humid \in BOOLEAN
    BY StoreHolds, Zenon
  <2>2. slot # Nothing
    BY DEF Nothing
  <2> HIDE DEF slot
  <2> QED BY <2>1, <2>2, Zenon DEF SlotFits, slot
<1>2. read = IF i.humid THEN HumidRead(slot) ELSE OldRead(slot)
  BY DEF SlotRead
<1>3. /\ r.index = p /\ r.status = read.status /\ r.temperature = read.temperature
      /\ r.humidity = read.humidity
  BY Zenon DEF RecordAt
<1> HIDE DEF slot, read, r
<1>4. Twelve(0) /\ Tenth(Nothing)
  BY SMT DEF Twelve, Tenth
<1>5. CASE i.humid
  <2>1. read = HumidRead(slot)
    BY <1>2, <1>5
  <2>2. /\ read.status = "measurement" /\ read.temperature = slot.temperature
        /\ read.humidity = slot.humidity
    BY <2>1, Zenon DEF HumidRead
  <2> QED BY <1>1, <1>3, <2>2, Zenon DEF Tidy, Measured, r
<1>6. CASE ~i.humid
  <2>1. read = OldRead(slot)
    BY <1>2, <1>6
  <2>2. /\ read.temperature = (IF slot.paused THEN 0 ELSE slot.temperature)
        /\ read.humidity = Nothing
    BY <2>1, Zenon DEF OldRead
  <2> QED BY <1>1, <1>3, <1>4, <2>2, Zenon DEF Tidy, r
<1> QED BY <1>1, <1>5, <1>6

\* What is read back of row k, by the names of the columns.
RowRead(t, k) ==
    [index |-> ColumnOf(t, k, "index") - 1, time |-> ColumnOf(t, k, "time"),
     temperature |-> ColumnOf(t, k, "temperature"), status |-> ColumnOf(t, k, "status"),
     humidity |-> IF Contains(t.header, "humidity") THEN ColumnOf(t, k, "humidity") ELSE Nothing]

RecordShown(r) ==
    [index |-> r.index, time |-> r.time, temperature |-> Temperature(r), status |-> r.status,
     humidity |-> r.humidity]

\* A row in which a record can be read.
RowOf(t, k, r) ==
    /\ Len(t.rows[k]) = Len(t.header)
    /\ ColumnOf(t, k, "index") = r.index + 1 /\ ColumnOf(t, k, "time") = r.time
    /\ ColumnOf(t, k, "temperature") = Temperature(r) /\ ColumnOf(t, k, "status") = r.status
    /\ IF Contains(t.header, "humidity") THEN ColumnOf(t, k, "humidity") = r.humidity
       ELSE r.humidity = Nothing

LEMMA RowIsRead ==
    ASSUME NEW t, NEW k, NEW r, Tidy(r), RowOf(t, k, r)
    PROVE  RowRead(t, k) = RecordShown(r)
<1>1. r.index \in Nat /\ (r.index + 1) - 1 = r.index
  BY DEF Tidy
<1> QED BY <1>1, Zenon DEF RowOf, RowRead, RecordShown

LEMMA CsvRows ==
    ASSUME NEW S, NEW recs \in Seq(S), \A r \in S : Tidy(r)
    PROVE  /\ Len(Csv(recs).rows) = Len(recs)
           /\ Contains(Csv(recs).header, "humidity") <=> AnyHumidity(recs)
           /\ \A k \in 1..Len(recs) : RowOf(Csv(recs), k, recs[k])
<1> DEFINE n == Len(recs)  any == AnyHumidity(recs)  t == Csv(recs)
<1>1. n \in Nat /\ \A k \in 1..n : recs[k] \in S
  OBVIOUS
<1>2. /\ t.header = (IF any THEN Five ELSE Four)
      /\ t.rows = [k \in 1..n |-> CsvRow(recs[k], any)]
  BY DEF Csv, Five, Four
<1>4. \A k \in 1..n : ~any => ~recs[k].humidity.ok
  BY DEF AnyHumidity
<1> HIDE DEF n, any, t
<1>5. Len(t.rows) = n /\ \A k \in 1..n : t.rows[k] = CsvRow(recs[k], any)
  <2> DEFINE row(k) == CsvRow(recs[k], any)
  <2> HIDE DEF row
  <2>1. t.rows = [k \in 1..n |-> row(k)]
    BY <1>2 DEF row
  <2>2. Len(t.rows) = n /\ \A k \in 1..n : t.rows[k] = row(k)
    BY <1>1, <2>1
  <2> QED BY <2>2 DEF row
<1> DEFINE h == t.header
<1>6. h \in {Four, Five, EventsToo, AllSix} /\ (h = Five <=> any) /\ (h = Four <=> ~any) /\ h # AllSix
  BY <1>2, HeadersDiffer, Zenon
<1> HIDE DEF h
<1>7. /\ Column(h, "index") = 1 /\ Column(h, "time") = 2 /\ Column(h, "temperature") = 3
      /\ Contains(h, "humidity") <=> any
      /\ any => Column(h, "humidity") = 4 /\ Column(h, "status") = 5
      /\ ~any => Column(h, "status") = 4
      /\ Len(h) = IF any THEN 5 ELSE 4
  BY <1>6, Headers, Zenon
<1>8. ASSUME NEW k \in 1..n PROVE RowOf(t, k, recs[k])
  <2> DEFINE r == recs[k]  row == t.rows[k]
             cell == IF Measured(r) THEN r.humidity ELSE Nothing
             y == IF any THEN <<cell>> ELSE <<>>
             z == <<r.status>>
  <2>1. Tidy(r)
    BY <1>1
  <2>2. cell = r.humidity
    BY <2>1 DEF Tidy
  <2>3. row = (<<r.index + 1, r.time, Temperature(r)>> \o y) \o z
    BY <1>5 DEF CsvRow
  <2>4. y \in {<<>>, <<cell>>} /\ z \in {<<r.status>>, <<r.status, r.events>>}
    OBVIOUS
  <2>5. Len(z) = 1 /\ Len(y) = IF any THEN 1 ELSE 0
    OBVIOUS
  <2>6. (any => y = <<cell>>) /\ (~any => y = <<>>)
    OBVIOUS
  <2> HIDE DEF row, y, z, cell
  <2>7. /\ Len(row) = 3 + Len(y) + Len(z)
        /\ row[1] = r.index + 1 /\ row[2] = r.time /\ row[3] = Temperature(r)
        /\ y = <<>> => row[4] = r.status
        /\ y = <<cell>> => row[4] = cell /\ row[5] = r.status
    <3> DEFINE a == r.index + 1  b == r.time  c == Temperature(r)  d == cell
               e == r.status  f == r.events
    <3>1. z \in {<<e>>, <<e, f>>} /\ y \in {<<>>, <<d>>} /\ row = (<<a, b, c>> \o y) \o z
      BY <2>3, <2>4
    <3> HIDE DEF a, b, c, d, e, f
    <3>2. Laid(row, a, b, c, d, e, y, z)
      BY <3>1, Rows, Zenon
    <3> QED BY <3>2 DEF Laid, a, b, c, d, e, f
  <2>8. Len(row) = Len(h)
    BY <1>7, <2>5, <2>7
  <2>9. ~any => r.humidity = Nothing
    <3>1. Tenth(r.humidity) /\ (~any => ~r.humidity.ok)
      BY <1>4, <2>1 DEF Tidy
    <3> QED BY <3>1 DEF Tenth
  <2>10. \A name : ColumnOf(t, k, name) = row[Column(h, name)]
    BY DEF ColumnOf, row, h
  <2> HIDE DEF r
  <2>11. RowOf(t, k, r)
    BY <1>7, <2>2, <2>6, <2>7, <2>8, <2>9, <2>10, Zenon DEF RowOf, row, h
  <2> QED BY <2>11 DEF r
<1> QED BY <1>5, <1>7, <1>8 DEF n, any, t, h

LEMMA TableRows ==
    ASSUME NEW S, NEW recs \in Seq(S), \A r \in S : Tidy(r)
    PROVE  /\ Len(Table(recs).rows) = Len(recs)
           /\ \A k \in 1..Len(recs) : RowOf(Table(recs), k, recs[k])
<1> DEFINE n == Len(recs)  any == AnyHumidity(recs)  t == Table(recs)
           row(k) == (<<recs[k].index + 1, recs[k].time, Temperature(recs[k])>>
                      \o (IF any THEN <<recs[k].humidity>> ELSE <<>>))
                      \o <<recs[k].status, recs[k].events>>
<1>1. n \in Nat /\ \A k \in 1..n : recs[k] \in S
  OBVIOUS
<1>2. t.header = (IF any THEN AllSix ELSE EventsToo) /\ t.rows = [k \in 1..n |-> row(k)]
  BY DEF Table, AllSix, EventsToo
<1>4. \A k \in 1..n : ~any => ~recs[k].humidity.ok
  BY DEF AnyHumidity
<1> HIDE DEF n, any, t
<1>5. Len(t.rows) = n /\ \A k \in 1..n : t.rows[k] = row(k)
  <2> HIDE DEF row
  <2> QED BY <1>1, <1>2
<1> DEFINE h == t.header
<1>6. h \in {Four, Five, EventsToo, AllSix} /\ (h = AllSix <=> any) /\ h # Five /\ h # Four
  BY <1>2, HeadersDiffer, Zenon
<1> HIDE DEF h
<1>7. /\ Column(h, "index") = 1 /\ Column(h, "time") = 2 /\ Column(h, "temperature") = 3
      /\ Contains(h, "humidity") <=> any
      /\ any => Column(h, "humidity") = 4 /\ Column(h, "status") = 5
      /\ ~any => Column(h, "status") = 4
      /\ Len(h) = IF any THEN 6 ELSE 5
  BY <1>6, Headers, Zenon
<1>8. ASSUME NEW k \in 1..n PROVE RowOf(t, k, recs[k])
  <2> DEFINE r == recs[k]  cells == t.rows[k]
             y == IF any THEN <<r.humidity>> ELSE <<>>
             z == <<r.status, r.events>>
  <2>1. Tidy(r)
    BY <1>1
  <2>3. cells = (<<r.index + 1, r.time, Temperature(r)>> \o y) \o z
    BY <1>5
  <2>4. y \in {<<>>, <<r.humidity>>} /\ z \in {<<r.status>>, <<r.status, r.events>>}
    OBVIOUS
  <2>5. Len(z) = 2 /\ Len(y) = IF any THEN 1 ELSE 0
    OBVIOUS
  <2>6. (any => y = <<r.humidity>>) /\ (~any => y = <<>>)
    OBVIOUS
  <2> HIDE DEF cells, y, z
  <2>7. /\ Len(cells) = 3 + Len(y) + Len(z)
        /\ cells[1] = r.index + 1 /\ cells[2] = r.time /\ cells[3] = Temperature(r)
        /\ y = <<>> => cells[4] = r.status
        /\ y = <<r.humidity>> => cells[4] = r.humidity /\ cells[5] = r.status
    <3> DEFINE a == r.index + 1  b == r.time  c == Temperature(r)  d == r.humidity
               e == r.status  f == r.events
    <3>1. z \in {<<e>>, <<e, f>>} /\ y \in {<<>>, <<d>>} /\ cells = (<<a, b, c>> \o y) \o z
      BY <2>3, <2>4
    <3> HIDE DEF a, b, c, d, e, f
    <3>2. Laid(cells, a, b, c, d, e, y, z)
      BY <3>1, Rows, Zenon
    <3> QED BY <3>2 DEF Laid, a, b, c, d, e, f
  <2>8. Len(cells) = Len(h)
    BY <1>7, <2>5, <2>7
  <2>9. ~any => r.humidity = Nothing
    <3>1. Tenth(r.humidity) /\ (~any => ~r.humidity.ok)
      BY <1>4, <2>1 DEF Tidy
    <3> QED BY <3>1 DEF Tenth
  <2>10. \A name : ColumnOf(t, k, name) = cells[Column(h, name)]
    BY DEF ColumnOf, cells, h
  <2> HIDE DEF r
  <2>11. RowOf(t, k, r)
    BY <1>7, <2>6, <2>7, <2>8, <2>9, <2>10, Zenon DEF RowOf, cells, h
  <2> QED BY <2>11 DEF r
<1> QED BY <1>5, <1>8 DEF n, t

LEMMA PickedIs ==
    ASSUME NEW s, NEW n \in Nat, NEW G \in Seq(1..n)
    PROVE  /\ Len(Picked(s, G)) = Len(G) /\ Len(G) \in Nat
           /\ \A k \in 1..Len(G) : Picked(s, G)[k] = s[G[k]] /\ G[k] \in 1..n
<1> DEFINE m == Len(G)  e(k) == s[G[k]]  p == Picked(s, G)
<1>1. m \in Nat /\ \A k \in 1..m : G[k] \in 1..n
  OBVIOUS
<1>2. p = [k \in 1..m |-> e(k)]
  BY DEF Picked
<1> HIDE DEF m, e, p
<1>3. Len(p) = m /\ \A k \in 1..m : p[k] = e(k)
  BY <1>1, <1>2
<1> QED BY <1>1, <1>3 DEF m, e, p

\* The charts, by the positions of what they show.
MeasuredAt(recs) == {k \in 1..Len(recs) : Measured(recs[k])}
HumidAt(recs) == {k \in 1..Len(recs) : Measured(recs[k]) /\ recs[k].humidity.ok}
PointsOf(q, P) ==
    [k \in 1..Len(Kept(q, P)) |-> <<Kept(q, P)[k][1], Kept(q, P)[k][2].tenths>>]

LEMMA ChartPoints ==
    ASSUME NEW S, NEW recs \in Seq(S), NEW q,
           q = [k \in 1..Len(recs) |-> <<recs[k].time, Temperature(recs[k])>>]
    PROVE  Chart(recs) = PointsOf(q, MeasuredAt(recs))
<1> DEFINE n == Len(recs)  P == MeasuredAt(recs)  K == Kept(UpTo(n), P)
           m == Kept(recs, P)  z == Kept(q, P)
           Q == {<<recs[k].time, Temperature(recs[k])>> : k \in 1..n}
<1>1. n \in Nat /\ \A k \in P : Measured(recs[k])
  BY DEF MeasuredAt
<1>2. q \in Seq(Q) /\ Len(q) = n /\ \A k \in 1..n : q[k] = <<recs[k].time, Temperature(recs[k])>>
  <2> DEFINE e(k) == <<recs[k].time, Temperature(recs[k])>>
  <2>1. \A k \in 1..n : e(k) \in Q
    OBVIOUS
  <2> HIDE DEF e, Q
  <2>2. q = [k \in 1..n |-> e(k)]
    BY DEF e
  <2> HIDE DEF n
  <2>3. q \in Seq(Q) /\ Len(q) = n /\ \A k \in 1..n : q[k] = e(k)
    <3>1. q \in [1..n -> Q]
      BY <2>1, <2>2
    <3>2. \A k \in 1..n : q[k] = e(k)
      BY <2>2
    <3> QED BY <1>1, <3>1, <3>2, ListIs, Zenon
  <2> QED BY <2>3 DEF e, n
<1> HIDE DEF Q, P
<1>3. m = Picked(recs, K) /\ Orders(K, P, n)
  BY KeptPicked, Zenon
<1>4. z = Picked(q, K)
  BY <1>2, KeptPicked, Zenon
<1>5. K \in Seq(1..n) /\ \A k \in 1..Len(K) : K[k] \in P
  BY <1>3, Zenon DEF Orders
<1> HIDE DEF K, m, z, n
<1>6. /\ Len(m) = Len(K) /\ Len(z) = Len(K)
      /\ \A k \in 1..Len(K) : m[k] = recs[K[k]] /\ z[k] = q[K[k]] /\ K[k] \in 1..n
  <2>1. /\ Len(Picked(recs, K)) = Len(K) /\ Len(Picked(q, K)) = Len(K)
        /\ \A k \in 1..Len(K) : Picked(recs, K)[k] = recs[K[k]] /\ K[k] \in 1..n
                                /\ Picked(q, K)[k] = q[K[k]]
    BY <1>1, <1>5, PickedIs, Zenon
  <2> QED BY <1>3, <1>4, <2>1, Zenon
<1>7. ASSUME NEW k \in 1..Len(K)
      PROVE  <<m[k].time, m[k].temperature>> = <<z[k][1], z[k][2].tenths>>
  <2>1. m[k] = recs[K[k]] /\ z[k] = q[K[k]] /\ K[k] \in 1..n /\ K[k] \in P
    BY <1>5, <1>6
  <2> DEFINE r == recs[K[k]]
  <2>2. z[k] = <<r.time, Temperature(r)>> /\ Measured(r)
    BY <1>1, <1>2, <2>1, Zenon
  <2>3. Temperature(r).tenths = r.temperature
    BY <2>2 DEF Temperature, Cell
  <2> HIDE DEF r
  <2>4. z[k][1] = r.time /\ z[k][2] = Temperature(r)
    BY <2>2
  <2> QED BY <2>1, <2>3, <2>4, Zenon DEF r
<1>8. Chart(recs) = [k \in 1..Len(m) |-> <<m[k].time, m[k].temperature>>]
  BY DEF Chart, Measurements, MeasuredAt, P, m
<1>9. PointsOf(q, P) = [k \in 1..Len(z) |-> <<z[k][1], z[k][2].tenths>>]
  BY DEF PointsOf, z
<1>10. Chart(recs) = PointsOf(q, P)
  BY <1>6, <1>7, <1>8, <1>9, Zenon
<1> QED BY <1>10 DEF P

LEMMA HumidityPoints ==
    ASSUME NEW S, NEW recs \in Seq(S), NEW q,
           q = [k \in 1..Len(recs) |-> <<recs[k].time, recs[k].humidity>>]
    PROVE  HumidityChart(recs) = PointsOf(q, HumidAt(recs))
<1> DEFINE n == Len(recs)  P == HumidAt(recs)  K == Kept(UpTo(n), P)
           m == Kept(recs, P)  z == Kept(q, P)
           Q == {<<recs[k].time, recs[k].humidity>> : k \in 1..n}
<1>1. n \in Nat
  OBVIOUS
<1>2. q \in Seq(Q) /\ Len(q) = n /\ \A k \in 1..n : q[k] = <<recs[k].time, recs[k].humidity>>
  <2> DEFINE e(k) == <<recs[k].time, recs[k].humidity>>
  <2>1. \A k \in 1..n : e(k) \in Q
    OBVIOUS
  <2> HIDE DEF e, Q
  <2>2. q = [k \in 1..n |-> e(k)]
    BY DEF e
  <2> HIDE DEF n
  <2>3. q \in Seq(Q) /\ Len(q) = n /\ \A k \in 1..n : q[k] = e(k)
    <3>1. q \in [1..n -> Q]
      BY <2>1, <2>2
    <3>2. \A k \in 1..n : q[k] = e(k)
      BY <2>2
    <3> QED BY <1>1, <3>1, <3>2, ListIs, Zenon
  <2> QED BY <2>3 DEF e, n
<1> HIDE DEF Q, P
<1>3. m = Picked(recs, K) /\ Orders(K, P, n)
  BY KeptPicked, Zenon
<1>4. z = Picked(q, K)
  BY <1>2, KeptPicked, Zenon
<1>5. K \in Seq(1..n)
  BY <1>3, Zenon DEF Orders
<1> HIDE DEF K, m, z, n
<1>6. /\ Len(m) = Len(K) /\ Len(z) = Len(K)
      /\ \A k \in 1..Len(K) : m[k] = recs[K[k]] /\ z[k] = q[K[k]] /\ K[k] \in 1..n
  <2>1. /\ Len(Picked(recs, K)) = Len(K) /\ Len(Picked(q, K)) = Len(K)
        /\ \A k \in 1..Len(K) : Picked(recs, K)[k] = recs[K[k]] /\ K[k] \in 1..n
                                /\ Picked(q, K)[k] = q[K[k]]
    BY <1>1, <1>5, PickedIs, Zenon
  <2> QED BY <1>3, <1>4, <2>1, Zenon
<1>7. ASSUME NEW k \in 1..Len(K)
      PROVE  <<m[k].time, m[k].humidity.tenths>> = <<z[k][1], z[k][2].tenths>>
  <2>1. m[k] = recs[K[k]] /\ z[k] = <<recs[K[k]].time, recs[K[k]].humidity>>
    BY <1>2, <1>6, Zenon
  <2>2. z[k][1] = recs[K[k]].time /\ z[k][2] = recs[K[k]].humidity
    BY <2>1
  <2> QED BY <2>1, <2>2, Zenon
<1>8. HumidityChart(recs) = [k \in 1..Len(m) |-> <<m[k].time, m[k].humidity.tenths>>]
  BY DEF HumidityChart, HumidAt, P, m
<1>9. PointsOf(q, P) = [k \in 1..Len(z) |-> <<z[k][1], z[k][2].tenths>>]
  BY DEF PointsOf, z
<1>10. HumidityChart(recs) = PointsOf(q, P)
  BY <1>6, <1>7, <1>8, <1>9, Zenon
<1> QED BY <1>10 DEF P

\* The coldest and the warmest of some readings.
LEMMA LeastReading ==
    ASSUME NEW T, \A v \in T : Twelve(v), T # {}
    PROVE  /\ \E x \in T : \A y \in T : x <= y
           /\ \E x \in T : \A y \in T : x >= y
<1>1. \E x \in T : \A y \in T : x <= y
  <2> DEFINE U == {v + 4096 : v \in T}
  <2>1. U \subseteq Nat /\ U # {}
    BY SMT DEF Twelve
  <2>2. \E x \in U : \A y \in U : x <= y
    <3> HIDE DEF U
    <3> QED BY <2>1, LeastElement, Zenon
  <2>3. PICK x \in T : \A y \in U : x + 4096 <= y
    BY <2>2
  <2>4. \A y \in T : x + 4096 <= y + 4096 /\ x \in Int /\ y \in Int
    BY <2>3, SMT DEF Twelve
  <2>5. \A y \in T : x <= y
    BY <2>4, SMT
  <2> QED BY <2>5
<1>2. \E x \in T : \A y \in T : x >= y
  <2> DEFINE U == {4096 - v : v \in T}
  <2>1. U \subseteq Nat /\ U # {}
    BY SMT DEF Twelve
  <2>2. \E x \in U : \A y \in U : x <= y
    <3> HIDE DEF U
    <3> QED BY <2>1, LeastElement, Zenon
  <2>3. PICK x \in T : \A y \in U : 4096 - x <= y
    BY <2>2
  <2>4. \A y \in T : 4096 - x <= 4096 - y /\ x \in Int /\ y \in Int
    BY <2>3, SMT DEF Twelve
  <2>5. \A y \in T : x >= y
    BY <2>4, SMT
  <2> QED BY <2>5
<1> QED BY <1>1, <1>2

\* The summary and the latest reading are of the points of the chart.
Summarised(recs) ==
    LET chart == Chart(recs)  summary == Summary(recs)  latest == LatestReading(recs)
        values == {chart[k][2] : k \in 1..Len(chart)}
    IN  /\ summary.ok = latest.ok /\ latest.ok = (values # {})
        /\ values # {} =>
            /\ summary.n = Len(chart)
            /\ {summary.min, summary.max} \subseteq values
            /\ \A v \in values : v \in summary.min..summary.max
            /\ <<latest.time, latest.temperature>> = Last(chart)

LEMMA ChartSummarised ==
    ASSUME NEW S, NEW recs \in Seq(S), \A r \in S : Tidy(r)
    PROVE  Summarised(recs)
<1> DEFINE n == Len(recs)  P == MeasuredAt(recs)  K == Kept(UpTo(n), P)
           m == Kept(recs, P)  len == Len(K)  chart == Chart(recs)
           values == {chart[k][2] : k \in 1..Len(chart)}
           t == {recs[k].temperature : k \in {j \in 1..n : Measured(recs[j])}}
           summary == Summary(recs)  latest == LatestReading(recs)
<1>1. n \in Nat /\ \A k \in 1..n : Tidy(recs[k])
  OBVIOUS
<1>2. \A k : k \in P <=> k \in 1..n /\ Measured(recs[k])
  BY DEF MeasuredAt
<1>3. m = Picked(recs, K) /\ Orders(K, P, n)
  BY KeptPicked, Zenon
<1>4. Measurements(recs) = m
  BY DEF Measurements, MeasuredAt
<1>5. chart = [k \in 1..Len(m) |-> <<m[k].time, m[k].temperature>>]
  BY <1>4 DEF Chart
<1>6. /\ t = {} => summary = Nothing
      /\ t # {} => /\ summary.ok /\ summary.n = Len(m)
                   /\ summary.min = CHOOSE v \in t : \A w \in t : v <= w
                   /\ summary.max = CHOOSE v \in t : \A w \in t : v >= w
  <2> DEFINE add(sum, r) == IF Measured(r) THEN sum + r.temperature ELSE sum
             total == FoldLeft(add, 0, recs)
  <2> HIDE DEF t, total
  <2>1. summary = IF t = {} THEN Nothing
                  ELSE [ok |-> TRUE, n |-> Len(m),
                        min |-> CHOOSE v \in t : \A w \in t : v <= w,
                        max |-> CHOOSE v \in t : \A w \in t : v >= w,
                        sum |-> total, from |-> Head(recs).time, to |-> Last(recs).time]
    BY <1>4 DEF Summary, t, total
  <2> HIDE DEF summary, m
  <2> QED BY <2>1
<1>7. /\ m = <<>> => latest = Nothing
      /\ m # <<>> => /\ latest.ok
                     /\ latest.time = Last(m).time /\ latest.temperature = Last(m).temperature
  <2> HIDE DEF m
  <2> QED BY <1>4 DEF LatestReading
<1> HIDE DEF n, P, K, m, len, chart, t, summary, latest
<1>8. /\ K \in Seq(1..n) /\ \A k \in 1..Len(K) : K[k] \in P
      /\ \A p \in 1..n : p \in P => \E k \in 1..Len(K) : K[k] = p
  BY <1>3, Zenon DEF Orders
<1>9. /\ Len(m) = len /\ len \in Nat
      /\ \A k \in 1..len : m[k] = recs[K[k]] /\ K[k] \in 1..n
  <2>1. /\ Len(Picked(recs, K)) = Len(K) /\ Len(K) \in Nat
        /\ \A k \in 1..Len(K) : Picked(recs, K)[k] = recs[K[k]] /\ K[k] \in 1..n
    <3>1. n \in Nat /\ K \in Seq(1..n)
      BY <1>1, <1>8, Zenon
    <3> QED BY <3>1, PickedIs
  <2> QED BY <1>3, <2>1, Zenon DEF len
<1>10. Len(chart) = len /\ \A k \in 1..len : chart[k] = <<m[k].time, m[k].temperature>>
  <2> DEFINE e(k) == <<m[k].time, m[k].temperature>>
  <2> HIDE DEF e
  <2>1. chart = [k \in 1..len |-> e(k)]
    BY <1>5, <1>9, Zenon DEF e
  <2>2. Len(chart) = len /\ \A k \in 1..len : chart[k] = e(k)
    BY <1>9, <2>1
  <2> QED BY <2>2 DEF e
<1>11. \A k \in 1..len : chart[k][2] = recs[K[k]].temperature
  <2>1. \A k \in 1..len : chart[k][2] = m[k].temperature
    BY <1>10
  <2> QED BY <1>9, <2>1, Zenon
<1>12. values = t
  <2>1. \A v : v \in values <=> \E k \in 1..len : v = recs[K[k]].temperature
    BY <1>10, <1>11, Zenon
  <2>2. \A v : v \in t <=> \E p \in P : v = recs[p].temperature
    <3>1. \A v : v \in t <=> \E p \in {j \in 1..n : Measured(recs[j])} : v = recs[p].temperature
      BY Zenon DEF t
    <3> QED BY <1>2, <3>1
  <2> HIDE DEF values
  <2>3. \A k \in 1..len : K[k] \in P
    BY <1>8, Zenon DEF len
  <2>4. \A p \in P : \E k \in 1..len : K[k] = p
    BY <1>2, <1>8, Zenon DEF len
  <2>5. \A v : v \in values <=> v \in t
    <3>1. ASSUME NEW v \in values PROVE v \in t
      BY <2>1, <2>2, <2>3, ZenonT(60)
    <3>2. ASSUME NEW v \in t PROVE v \in values
      BY <2>1, <2>2, <2>4, ZenonT(60)
    <3> QED BY <3>1, <3>2, Zenon
  <2> QED BY <2>5, Zenon
<1>13. values = {} <=> len = 0
  <2>1. len = 0 => values = {}
    BY <1>10
  <2>2. len # 0 => chart[1][2] \in values
    <3>1. SUFFICES ASSUME len # 0 PROVE chart[1][2] \in values
      OBVIOUS
    <3>2. 1 \in 1..Len(chart)
      BY <1>9, <1>10, <3>1
    <3> QED BY <3>2
  <2> QED BY <2>1, <2>2
<1>14. m = <<>> <=> len = 0
  <2>1. m = <<>> => len = 0
    BY <1>9
  <2>2. len = 0 => m = <<>>
    <3>1. m = [k \in 1..Len(K) |-> recs[K[k]]]
      BY <1>3 DEF Picked
    <3> QED BY <3>1 DEF len
  <2> QED BY <2>1, <2>2
<1>15. \A v \in t : Twelve(v)
  <2>1. \A p \in P : Twelve(recs[p].temperature)
    BY <1>1, <1>2, Zenon DEF Tidy
  <2> QED BY <1>2, <2>1 DEF t
<1> HIDE DEF values
<1>16. CASE len = 0
  <2>1. summary = Nothing /\ latest = Nothing /\ values = {}
    BY <1>6, <1>7, <1>12, <1>13, <1>14, <1>16
  <2>2. summary.ok = latest.ok /\ latest.ok = FALSE
    BY <2>1 DEF Nothing
  <2> QED BY <2>1, <2>2 DEF Summarised, values, chart, summary, latest
<1>17. CASE len # 0
  <2>1. /\ summary.ok /\ latest.ok /\ values # {} /\ t # {} /\ m # <<>>
    BY <1>6, <1>7, <1>12, <1>13, <1>14, <1>17, Zenon
  <2>2. /\ summary.min \in t /\ \A w \in t : summary.min <= w
        /\ summary.max \in t /\ \A w \in t : summary.max >= w
    BY <1>6, <1>15, <2>1, LeastReading, Zenon
  <2>3. \A v \in t : v \in summary.min..summary.max
    <3>1. \A v \in t : v \in Int
      BY <1>15, SMT DEF Twelve
    <3> QED BY <2>2, <3>1
  <2>4. <<latest.time, latest.temperature>> = Last(chart)
    <3>1. len \in 1..len
      BY <1>9, <1>17
    <3>2. Last(chart) = chart[len] /\ Last(m) = m[len]
      BY <1>9, <1>10 DEF Last
    <3> QED BY <1>7, <1>10, <2>1, <3>1, <3>2, Zenon
  <2>5. summary.n = Len(chart)
    BY <1>6, <1>9, <1>10, <2>1
  <2>6. summary.ok = latest.ok /\ latest.ok = (values # {})
    <3>1. summary.ok = TRUE /\ latest.ok = TRUE
      BY <1>4, <2>1 DEF summary, latest, Summary, LatestReading, Nothing
    <3> QED BY <2>1, <3>1
  <2>7. {summary.min, summary.max} \subseteq values
    BY <1>12, <2>2
  <2> QED BY <1>12, <2>3, <2>4, <2>5, <2>6, <2>7 DEF Summarised, values, chart, summary, latest
<1> QED BY <1>16, <1>17

LEMMA DownloadedTidy ==
    ASSUME NEW i \in StoreInputs, Downloaded(i).ok
    PROVE  Downloaded(i).records \in Seq({r \in RecordsIn(i) : Tidy(r)})
<1> DEFINE recs == Downloaded(i).records  W == WantedSlots(i)
<1>1. Lists(recs, RecordsIn(i), W)
  BY DownloadLists
<1> HIDE DEF recs
<1>2. recs \in Seq(RecordsIn(i)) /\ Len(recs) \in Nat
  BY <1>1 DEF Lists
<1>3. ASSUME NEW k \in 1..Len(recs) PROVE recs[k] \in RecordsIn(i) /\ Tidy(recs[k])
  <2>1. recs[k] \in RecordsIn(i) /\ recs[k].index \in W
    BY <1>1, <1>2 DEF Lists
  <2>2. PICK p \in Nat : recs[k] = RecordAt(i, p)
    BY <2>1 DEF RecordsIn
  <2>3. RecordAt(i, p).index = p
    BY Zenon DEF RecordAt
  <2>4. p \in W
    BY <2>1, <2>2, <2>3, Zenon
  <2>5. SlotAt(i, p).ok
    BY <2>4 DEF WantedSlots
  <2> QED BY <2>1, <2>2, <2>5, TidyRecords, Zenon
<1> DEFINE R == {r \in RecordsIn(i) : Tidy(r)}
<1>4. \A k \in 1..Len(recs) : recs[k] \in R
  BY <1>3
<1> HIDE DEF R
<1>5. recs \in Seq(R)
  BY <1>2, <1>4
<1> QED BY <1>5 DEF R, recs

\* What the columns of the CSV give back of what the charts show.
ColumnPoints(t, n, name) ==
    Kept([k \in 1..n |-> <<ColumnOf(t, k, "time"), ColumnOf(t, k, name)>>],
         {k \in 1..n : ColumnOf(t, k, name).ok})

LEMMA CsvPoints ==
    ASSUME NEW S, NEW recs \in Seq(S), \A r \in S : Tidy(r)
    PROVE  LET points(name) == ColumnPoints(Csv(recs), Len(recs), name)
           IN  /\ Chart(recs) = [k \in 1..Len(points("temperature")) |->
                      <<points("temperature")[k][1], points("temperature")[k][2].tenths>>]
               /\ Contains(Csv(recs).header, "humidity") =>
                      HumidityChart(recs) = [k \in 1..Len(points("humidity")) |->
                          <<points("humidity")[k][1], points("humidity")[k][2].tenths>>]
<1> DEFINE n == Len(recs)  t == Csv(recs)
           q == [k \in 1..n |-> <<recs[k].time, Temperature(recs[k])>>]
           h == [k \in 1..n |-> <<recs[k].time, recs[k].humidity>>]
           points(name) == ColumnPoints(t, n, name)
<1>1. n \in Nat /\ \A k \in 1..n : Tidy(recs[k])
  OBVIOUS
<1>2. \A k \in 1..n : RowOf(t, k, recs[k])
  BY CsvRows, Zenon
<1>3. Chart(recs) = PointsOf(q, MeasuredAt(recs)) /\ HumidityChart(recs) = PointsOf(h, HumidAt(recs))
  <2>1. Chart(recs) = PointsOf(q, MeasuredAt(recs))
    BY ChartPoints, Zenon
  <2>2. HumidityChart(recs) = PointsOf(h, HumidAt(recs))
    BY HumidityPoints, Zenon
  <2> QED BY <2>1, <2>2
<1>4. \A x : /\ x \in MeasuredAt(recs) <=> x \in 1..n /\ Measured(recs[x])
             /\ x \in HumidAt(recs) <=> x \in 1..n /\ Measured(recs[x]) /\ recs[x].humidity.ok
  BY DEF MeasuredAt, HumidAt
<1> HIDE DEF n, t
<1>5. points("temperature") = Kept(q, MeasuredAt(recs))
  <2>1. \A k \in 1..n : /\ ColumnOf(t, k, "time") = recs[k].time
                        /\ ColumnOf(t, k, "temperature") = Temperature(recs[k])
    BY <1>2, Zenon DEF RowOf
  <2>2. [k \in 1..n |-> <<ColumnOf(t, k, "time"), ColumnOf(t, k, "temperature")>>] = q
    BY <2>1, Zenon
  <2>3. \A r : Temperature(r).ok <=> Measured(r)
    BY DEF Temperature, Cell, Nothing
  <2> DEFINE P == {k \in 1..n : ColumnOf(t, k, "temperature").ok}
  <2>4. \A k : k \in P <=> k \in 1..n /\ Measured(recs[k])
    BY <2>1, <2>3, Zenon
  <2> HIDE DEF P, q
  <2>5. P = MeasuredAt(recs)
    BY <1>4, <2>4, Zenon
  <2> QED BY <2>2, <2>5, Zenon DEF ColumnPoints, P
<1>6. Contains(t.header, "humidity") => points("humidity") = Kept(h, HumidAt(recs))
  <2>0. SUFFICES ASSUME Contains(t.header, "humidity")
                 PROVE  points("humidity") = Kept(h, HumidAt(recs))
    OBVIOUS
  <2>1. \A k \in 1..n : /\ ColumnOf(t, k, "time") = recs[k].time
                        /\ ColumnOf(t, k, "humidity") = recs[k].humidity
    BY <1>2, <2>0, Zenon DEF RowOf
  <2>2. [k \in 1..n |-> <<ColumnOf(t, k, "time"), ColumnOf(t, k, "humidity")>>] = h
    BY <2>1, Zenon
  <2>3. \A k \in 1..n : recs[k].humidity.ok => Measured(recs[k])
    BY <1>1 DEF Tidy, Nothing
  <2> DEFINE P == {k \in 1..n : ColumnOf(t, k, "humidity").ok}
  <2>4. \A k : k \in P <=> k \in 1..n /\ Measured(recs[k]) /\ recs[k].humidity.ok
    BY <2>1, <2>3, Zenon
  <2> HIDE DEF P, h
  <2>5. P = HumidAt(recs)
    BY <1>4, <2>4, Zenon
  <2> QED BY <2>2, <2>5, Zenon DEF ColumnPoints, P
<1> HIDE DEF q, h, points
<1>7. Chart(recs) = [k \in 1..Len(points("temperature")) |->
          <<points("temperature")[k][1], points("temperature")[k][2].tenths>>]
  BY <1>3, <1>5, Zenon DEF PointsOf
<1>8. Contains(t.header, "humidity") =>
          HumidityChart(recs) = [k \in 1..Len(points("humidity")) |->
              <<points("humidity")[k][1], points("humidity")[k][2].tenths>>]
  BY <1>3, <1>6, Zenon DEF PointsOf
<1> QED BY <1>7, <1>8 DEF points, t, n

\* The CSV and the table give back every record by the names of their columns, and
\* the charts, the summary and the latest reading are of the same measurements.
THEOREM ViewsAreOfRecords == Spec => []ViewsAgree
<1>1. Outcome => ViewsAgree
  <2>1. SUFFICES ASSUME Outcome, Decoded("store"), output.ok PROVE ViewsAgree
    BY DEF ViewsAgree
  <2> DEFINE i == input  recs == Downloaded(i).records
             S == {r \in RecordsIn(i) : Tidy(r)}
  <2>2. i \in StoreInputs /\ output = StoreShown(i)
    BY <2>1, InputOfKind, Zenon DEF Outcome, Decoded
  <2>3. Downloaded(i).ok /\ output = Views(recs)
    BY <2>1, <2>2 DEF StoreShown, Nothing
  <2>4. recs \in Seq(S)
    BY <2>2, <2>3, DownloadedTidy, Zenon
  <2>5. \A r \in S : Tidy(r)
    OBVIOUS
  <2> HIDE DEF i, recs, S
  <2> DEFINE n == Len(recs)
  <2>6. /\ output.records = recs /\ output.csv = Csv(recs) /\ output.table = Table(recs)
        /\ output.chart = Chart(recs) /\ output.humidity = HumidityChart(recs)
        /\ output.summary = Summary(recs) /\ output.latest = LatestReading(recs)
    BY <2>3, Zenon DEF Views
  <2>7. \A k \in 1..n : Tidy(recs[k])
    BY <2>4, <2>5
  <2>8. ASSUME NEW t \in {output.csv, output.table}
        PROVE  /\ Len(t.rows) = n
               /\ \A k \in 1..n : /\ Len(t.rows[k]) = Len(t.header)
                                  /\ RowRead(t, k) = RecordShown(recs[k])
    <3>1. Len(t.rows) = n /\ \A k \in 1..n : RowOf(t, k, recs[k])
      <4>1. CASE t = Csv(recs)
        BY <2>4, <2>5, <4>1, CsvRows, Zenon
      <4>2. CASE t = Table(recs)
        BY <2>4, <2>5, <4>2, TableRows, Zenon
      <4> QED BY <2>6, <4>1, <4>2, Zenon
    <3> QED BY <2>7, <3>1, RowIsRead, Zenon DEF RowOf
  <2> DEFINE points(name) == ColumnPoints(output.csv, n, name)
  <2>9. /\ output.chart = [k \in 1..Len(points("temperature")) |->
               <<points("temperature")[k][1], points("temperature")[k][2].tenths>>]
        /\ Contains(output.csv.header, "humidity") =>
               output.humidity = [k \in 1..Len(points("humidity")) |->
                   <<points("humidity")[k][1], points("humidity")[k][2].tenths>>]
    <3> DEFINE c == Csv(recs)  chart == Chart(recs)  humidity == HumidityChart(recs)
               shown(name) == ColumnPoints(c, n, name)
    <3>1. /\ chart = [k \in 1..Len(shown("temperature")) |->
                 <<shown("temperature")[k][1], shown("temperature")[k][2].tenths>>]
          /\ Contains(c.header, "humidity") =>
                 humidity = [k \in 1..Len(shown("humidity")) |->
                     <<shown("humidity")[k][1], shown("humidity")[k][2].tenths>>]
      BY <2>4, <2>5, CsvPoints, Zenon
    <3>2. output.csv = c /\ output.chart = chart /\ output.humidity = humidity
      BY <2>6
    <3> HIDE DEF c, chart, humidity, n
    <3>3. \A name : points(name) = shown(name)
      BY <3>2
    <3> HIDE DEF points, shown
    <3> QED BY <3>1, <3>2, <3>3, Zenon
  <2>10. Summarised(recs)
    BY <2>4, <2>5, ChartSummarised, Zenon
  <2> DEFINE values == {output.chart[k][2] : k \in 1..Len(output.chart)}
  <2>11. /\ output.summary.ok = output.latest.ok /\ output.latest.ok = (values # {})
         /\ values # {} =>
             /\ output.summary.n = Len(output.chart)
             /\ {output.summary.min, output.summary.max} \subseteq values
             /\ \A v \in values : v \in output.summary.min..output.summary.max
             /\ <<output.latest.time, output.latest.temperature>> = Last(output.chart)
    <3> DEFINE chart == Chart(recs)  summary == Summary(recs)  latest == LatestReading(recs)
               shown == {chart[k][2] : k \in 1..Len(chart)}
    <3>1. /\ summary.ok = latest.ok /\ latest.ok = (shown # {})
          /\ shown # {} =>
              /\ summary.n = Len(chart)
              /\ {summary.min, summary.max} \subseteq shown
              /\ \A v \in shown : v \in summary.min..summary.max
              /\ <<latest.time, latest.temperature>> = Last(chart)
      BY <2>10, Zenon DEF Summarised
    <3>2. output.chart = chart /\ output.summary = summary /\ output.latest = latest
      BY <2>6
    <3> HIDE DEF chart, summary, latest
    <3>3. values = shown
      BY <3>2
    <3> HIDE DEF values, shown
    <3> QED BY <3>1, <3>2, <3>3, Zenon
  <2>12. output.records = recs
    BY <2>6
  <2>13. /\ \A t \in {output.csv, output.table} :
             /\ Len(t.rows) = Len(output.records)
             /\ \A k \in 1..Len(output.records) :
                 /\ Len(t.rows[k]) = Len(t.header)
                 /\ RowRead(t, k) = RecordShown(output.records[k])
    BY <2>8, <2>12, Zenon
  <2>14. \A name : points(name) = ColumnPoints(output.csv, Len(output.records), name)
    BY <2>12
  <2> HIDE DEF points
  <2> QED BY <2>9, <2>11, <2>13, <2>14, ZenonT(60)
        DEF ViewsAgree, ColumnPoints, RowRead, RecordShown, ColumnOf, Column
<1> QED BY <1>1, OutcomeHolds, PTL
=============================================================================
