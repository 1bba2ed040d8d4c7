--------------------------- MODULE DiscoveryProofs ---------------------------
(***************************************************************************)
(* Proofs about module Discovery, for any users, devices, nodes and bounds: *)
(*   - TypeOK is an invariant (DiscoveryTypes);                            *)
(*   - scans take the first logger there is (FirstIsTaken);                *)
(*   - pages speak of one logger (PagesAreOfOne), and a confirmation       *)
(*     erases what its page showed (CalmErasesAsShown), while the same     *)
(*     logger comes first;                                                 *)
(*   - records are lost only to an order that was agreed to, always        *)
(*     (ErasingIsAgreed);                                                  *)
(*   - every step of a request leaves less of it, whatever comes and goes  *)
(*     (EveryRequestAdvances), and that is bounded (RequestsAreBounded).   *)
(*                                                                         *)
(* The first is inductive with what a request has found so far (FitOK);    *)
(* the second needs what a scan knows of the bus (ScanOK), the next two    *)
(* that all there is to take is the least node of a logger (CalmOK), and   *)
(* ErasingIsAgreed what an order has been told to agree to (AgreedOK).     *)
(***************************************************************************)
EXTENDS Discovery, TLAPS, FiniteSetTheorems

(* The inductive invariant *)

\* The node of a request at a call that opens it has been taken.
Taken(r) == r.job # "none" /\ Plan(r.job)[r.k] # "find"

\* A request has its type and is at a call of its plan.
Fit(r) ==
    /\ r \in Requests
    /\ r.job # "none" => r.k <= Len(Plan(r.job))
    /\ r.scanning => r.job # "none" /\ Plan(r.job)[r.k] = "find"
    /\ r.job = "command" => r.agreed # AnyCount
    /\ r.info # Nobody => r.job \in Views
    /\ Taken(r) => r.node \in Nodes

FitOK == \A u \in Users : Fit(req[u])

\* What a scan has found was a logger when it was read and is, unless it left;
\* a logger that was listed and stayed is found or still to be read.
ScanOK ==
    \A u \in Users :
        /\ ~req[u].scanning => req[u].found = {}
        /\ req[u].scanning =>
              /\ \A n \in req[u].found : n \in gone[u] \/ bus[n] \in Loggers
              /\ \A m \in req[u].listed \ gone[u] :
                     bus[m] \in Loggers /\ m \in req[u].left \cup req[u].found

\* The count of d is what it was, or its records have gone meanwhile.
Kept(d, count) == stores[d] \in {count, 0}

\* Whatever a scan finds, the least node there is to take is listed, stays, and
\* comes before it.
CalmScan(u) ==
    req[u].scanning =>
        /\ req[u].found # {} => LeastNodes # {}
        /\ \A m \in LeastNodes :
              m \in req[u].listed \ gone[u] /\ \A n \in req[u].found : m <= n

CalmNode(u) == Taken(req[u]) => req[u].node \in LeastNodes

CalmSeen(u) ==
    /\ req[u].info # Nobody => req[u].info \in Firsts /\ Kept(req[u].info, req[u].count)
    /\ req[u].recs # Nobody => req[u].recs \in Firsts

\* A page that can be agreed to shows the one logger there is to take.
CalmPage(u) ==
    (~Running(u) \/ req[u].agreed # 0) /\ page[u].info # Nobody =>
        page[u].info \in Firsts /\ Kept(page[u].info, page[u].count)

Calm(u) == CalmScan(u) /\ CalmNode(u) /\ CalmSeen(u) /\ CalmPage(u)

CalmOK == \A u \in Users : calm[u] => Calm(u)

-----------------------------------------------------------------------------
(* The node that is first, by name or by number *)

\* A set of naturals that is not empty has a least element.
LEMMA LeastNatural ==
  ASSUME NEW S \in SUBSET Nat, S # {}
  PROVE  \E n \in S : \A m \in S : n <= m
  <1> DEFINE Less == {ss \in Nat \X Nat : ss[1] < ss[2]}
  <1>1. IsWellFoundedOn(Less, Nat)
    BY NatLessThanWellFounded DEF OpToRel
  <1>2. PICK n \in S : \A m \in S : <<m, n>> \notin Less
    BY <1>1, WFMin
  <1>3. ASSUME NEW m \in S PROVE n <= m
    <2>1. m \in Nat /\ n \in Nat /\ <<m, n>> \notin Less
      BY <1>2
    <2> QED BY <2>1
  <1> QED BY <1>3

\* The first node found is one of those found, and the least.
LEMMA FirstIsLeast ==
  ASSUME NEW S \in SUBSET Nodes, S # {}
  PROVE  First(S) \in S /\ \A m \in S : First(S) <= m
  <1>1. S \in SUBSET Nat
    BY DiscoveryAssumption
  <1>2. \E n \in S : \A m \in S : n <= m
    BY <1>1, LeastNatural
  <1> QED BY <1>2 DEF First

\* The next entry of a directory is one of its entries.
LEMMA FirstNamedIn ==
  ASSUME NEW S \in SUBSET Nodes, S # {}
  PROVE  FirstNamed(S) \in S
  <1> DEFINE Keys == {NameKey(n) : n \in S}
  <1>1. \A n \in S : NameKey(n) \in Nat
    BY DiscoveryAssumption DEF NameKey
  <1>2. Keys \in SUBSET Nat /\ Keys # {}
    BY <1>1
  <1>3. PICK k \in Keys : \A l \in Keys : k <= l
    BY <1>2, LeastNatural
  <1>4. \E n \in S : \A m \in S : NameKey(n) <= NameKey(m)
    BY <1>3
  <1> QED BY <1>4 DEF FirstNamed

-----------------------------------------------------------------------------
(* Requests stay fit *)

\* A plan begins with a scan, and after a scan comes a call that opens a node.
LEMMA PlanShape ==
  ASSUME NEW job
  PROVE  /\ Len(Plan(job)) \in 3..4 /\ Plan(job)[1] = "find"
         /\ \A k \in 1..Len(Plan(job)) : Plan(job)[k] = "find" =>
                k < Len(Plan(job)) /\ Plan(job)[k + 1] # "find"
  <1>1. CASE job = "device"
    <2>1. Plan(job) = <<"find", "info", "records">>
      BY <1>1 DEF Plan
    <2> QED BY <2>1
  <1>2. CASE job = "records"
    <2>1. Plan(job) = <<"find", "records", "find", "info">>
      BY <1>2 DEF Plan
    <2> QED BY <2>1
  <1>3. CASE job \notin {"device", "records"}
    <2>1. Plan(job) = <<"find", "info", "configure", "reopen">>
      BY <1>3 DEF Plan
    <2> QED BY <2>1
  <1> QED BY <1>1, <1>2, <1>3

\* What people begin with is fit: a request of theirs, or a page.
LEMMA IdleFit == Fit(Idle)
  BY DiscoveryAssumption DEF Idle, Fit, Requests, Taken

LEMMA AskedFit ==
  ASSUME NEW job \in AllJobs, NEW agreed \in {AnyCount} \cup 0..MaxStore,
         job = "command" => agreed # AnyCount
  PROVE  Fit(Asked(job, agreed))
  <1>1. Asked(job, agreed) \in Requests
    BY IdleFit DEF Asked, Fit, Requests
  <1>2. Len(Plan(job)) \in 3..4 /\ Plan(job)[1] = "find"
    BY PlanShape
  <1>3. LET q == Asked(job, agreed)
        IN  /\ q.job = job /\ q.k = 1 /\ ~q.scanning /\ q.agreed = agreed
            /\ q.info = Nobody
    BY DEF Asked, Idle
  <1> QED BY <1>1, <1>2, <1>3 DEF Fit, Taken

LEMMA ViewingFit ==
  ASSUME NEW view \in Views, NEW prompt \in Orders \cup {"none"}
  PROVE  Fit(Viewing(view, prompt))
  <1>1. Viewing(view, prompt) \in Requests
    BY IdleFit DEF Viewing, Fit, Requests, AllJobs
  <1>2. Len(Plan(view)) \in 3..4 /\ Plan(view)[1] = "find" /\ view # "command"
    BY PlanShape DEF Views
  <1>3. LET q == Viewing(view, prompt)
        IN  q.job = view /\ q.k = 1 /\ ~q.scanning /\ q.info = Nobody
    BY DEF Viewing, Idle
  <1> QED BY <1>1, <1>2, <1>3 DEF Fit, Taken

\* The request of u becomes a fit one.
Becomes(u) ==
    /\ \E q : Fit(q) /\ req' = [req EXCEPT ![u] = q]
    /\ page' \in [Users -> Pages]
    /\ calm' \in [Users -> BOOLEAN]

\* What is shown of a request is a page.
LEMMA ShownType ==
  ASSUME NEW r \in Requests PROVE Shown(r) \in Pages
  BY DiscoveryAssumption DEF Shown, Blank, Pages, Requests

\* A request that is over leaves a fit one,
LEMMA OverFits ==
  ASSUME TypeOK, NEW u \in Users, NEW r \in Requests, Over(u, r)
  PROVE  Becomes(u)
  <1>1. CASE r.job \in Views \cup {"command"}
    <2>1. req' = [req EXCEPT ![u] = Idle] /\ calm' = calm
      BY <1>1 DEF Over
    <2>2. page' = [page EXCEPT ![u] = Shown(r)]
      BY <1>1 DEF Over
    <2>3. page' \in [Users -> Pages]
      BY <2>2, ShownType DEF TypeOK
    <2> QED BY <2>1, <2>3, IdleFit DEF Becomes, TypeOK
  <1>2. CASE r.job \notin Views \cup {"command"}
    <2>1. /\ req' = [req EXCEPT ![u] = Viewing(ViewOf(r.job), r.prompt)]
          /\ calm' = [calm EXCEPT ![u] = TRUE] /\ page' = page
      BY <1>2 DEF Over
    <2>2. ViewOf(r.job) \in Views /\ r.prompt \in Orders \cup {"none"}
      BY DEF ViewOf, Views, Requests
    <2>3. calm' \in [Users -> BOOLEAN]
      BY <2>1 DEF TypeOK
    <2> QED BY <2>1, <2>2, <2>3, ViewingFit DEF Becomes, TypeOK
  <1> QED BY <1>1, <1>2

\* and so does one that goes on with a node.
LEMMA ProceedFits ==
  ASSUME TypeOK, NEW u \in Users, NEW r, Fit(r), r.job # "none", ~r.scanning,
         r.node \in Nodes, Proceed(u, r)
  PROVE  Becomes(u)
  <1>1. CASE r.k < Len(Plan(r.job))
    <2> DEFINE q == [r EXCEPT !.k = @ + 1]
    <2>1. req' = [req EXCEPT ![u] = q] /\ UNCHANGED <<page, calm>>
      BY <1>1 DEF Proceed, Continue
    <2>2. r \in Requests /\ r.k \in 1..4 /\ r.k + 1 \in 1..4 /\ r.k + 1 <= Len(Plan(r.job))
      BY <1>1, PlanShape DEF Fit, Requests
    <2>3. q \in Requests
      BY <2>2 DEF Requests
    <2>4. /\ q.job = r.job /\ q.k = r.k + 1 /\ q.scanning = r.scanning
          /\ q.agreed = r.agreed /\ q.info = r.info /\ q.node = r.node
      BY <2>2 DEF Requests
    <2> HIDE DEF q
    <2>5. Fit(q)
      BY <2>2, <2>3, <2>4 DEF Fit
    <2> QED BY <2>1, <2>5 DEF Becomes, TypeOK
  <1>2. CASE ~(r.k < Len(Plan(r.job)))
    BY <1>2, OverFits DEF Proceed, Fit
  <1> QED BY <1>1, <1>2

-----------------------------------------------------------------------------
(* Types *)

\* Each step of a request leaves it fit.
LEMMA HandleFits ==
  ASSUME TypeOK, FitOK, NEW u \in Users, Handle(u) \/ Fail(u)
  PROVE  Becomes(u) /\ gone' \in [Users -> SUBSET Nodes]
         /\ stores' \in [Loggers -> 0..MaxStore] /\ bus' = bus
  <1> DEFINE r == req[u]
  <1>1. Fit(r) /\ r \in Requests
    BY DEF FitOK, Fit
  <1>2. ASSUME Over(u, r) PROVE Becomes(u)
    BY <1>1, <1>2, OverFits
  <1>3. ASSUME Taken(r), NEW q, q \in Requests, Proceed(u, q), q.job = r.job, q.k = r.k,
               q.agreed = r.agreed, q.scanning = r.scanning, q.node = r.node,
               q.info # Nobody => q.job \in Views
        PROVE  Becomes(u)
    <2>1. Fit(q) /\ q.job # "none" /\ ~q.scanning /\ q.node \in Nodes
      BY <1>1, <1>3 DEF Fit, Taken
    <2> QED BY <1>3, <2>1, ProceedFits
  <1>4. ASSUME NEW call \in {"info", "records", "configure", "reopen"}, Calls(u, call)
        PROVE  Taken(r) /\ Reached(u) \in Loggers \cup {Nobody}
    BY <1>4 DEF Calls, Running, Taken, Reached
  <1>list. CASE List(u)
    <2> DEFINE q == [r EXCEPT !.scanning = TRUE, !.left = {n \in Nodes : bus[n] # Nobody},
                              !.node = NoNode,
                              !.listed = {n \in {n \in Nodes : bus[n] # Nobody} :
                                              bus[n] \in Loggers}]
    <2>1. /\ Calls(u, "find") /\ Continue(u, q)
          /\ gone' = [gone EXCEPT ![u] = {}] /\ UNCHANGED <<bus, stores>>
      BY <1>list DEF List
    <2>2. q \in Requests
      BY <1>1 DEF Requests
    <2>3. q.scanning /\ q.job = r.job /\ q.k = r.k /\ q.agreed = r.agreed /\ q.info = r.info
      BY <1>1 DEF Requests
    <2> HIDE DEF q
    <2>4. Fit(q)
      BY <1>1, <2>1, <2>2, <2>3 DEF Fit, Calls, Running, Taken
    <2> QED BY <2>1, <2>4 DEF Continue, Becomes, TypeOK
  <1>read. CASE ReadEntry(u)
    <2> DEFINE n == FirstNamed(r.left)
               found == IF bus[n] \in Loggers THEN r.found \cup {n} ELSE r.found
               q == [r EXCEPT !.left = @ \ {n}, !.found = found]
    <2>1. /\ r.scanning /\ r.left # {} /\ r.left \in SUBSET Nodes /\ r.found \in SUBSET Nodes
          /\ UNCHANGED <<bus, stores, gone>>
      BY <1>1, <1>read DEF ReadEntry, Requests
    <2>2. Continue(u, q)
      BY <1>1, <1>read DEF ReadEntry, Requests
    <2>3. n \in Nodes
      BY <2>1, FirstNamedIn
    <2> HIDE DEF n
    <2>4. found \in SUBSET Nodes
      BY <2>1, <2>3
    <2> HIDE DEF found
    <2>5. q \in Requests
      BY <1>1, <2>1, <2>4 DEF Requests
    <2>6. /\ q.scanning = r.scanning /\ q.job = r.job /\ q.k = r.k
          /\ q.agreed = r.agreed /\ q.info = r.info /\ q.node = r.node
      BY <1>1 DEF Requests
    <2> HIDE DEF q
    <2>7. Fit(q)
      BY <1>1, <2>5, <2>6 DEF Fit, Taken
    <2> QED BY <2>1, <2>2, <2>7 DEF Continue, Becomes, TypeOK
  <1>take. CASE Take(u)
    <2> DEFINE q == [Scanned(r) EXCEPT !.node = First(r.found)]
    <2>1. /\ r.scanning /\ r.found \in SUBSET Nodes /\ UNCHANGED <<bus, stores, gone>>
          /\ r.job # "none"
      BY <1>1, <1>take DEF Take, Requests, Fit
    <2>2. Scanned(r) \in Requests
      BY <1>1 DEF Scanned, Requests
    <2>3. CASE r.found = {}
      BY <1>take, <2>1, <2>2, <2>3, OverFits DEF Take, TypeOK
    <2>4. CASE r.found # {}
      <3>1. First(r.found) \in Nodes
        BY <2>1, <2>4, FirstIsLeast
      <3>2. q \in Requests
        BY <2>2, <3>1 DEF Requests
      <3>3. /\ q.scanning = FALSE /\ q.job = r.job /\ q.k = r.k /\ q.agreed = r.agreed
            /\ q.info = r.info /\ q.node = First(r.found)
        BY <1>1, <2>2 DEF Scanned, Requests
      <3>4. Proceed(u, q)
        BY <1>take, <2>4 DEF Take
      <3> HIDE DEF q
      <3>5. Fit(q)
        BY <1>1, <3>1, <3>2, <3>3 DEF Fit, Taken
      <3> QED BY <2>1, <3>1, <3>3, <3>4, <3>5, ProceedFits DEF TypeOK
    <2> QED BY <2>3, <2>4
  <1>info. CASE Info(u)
    <2> DEFINE d == Reached(u)
               seen == [r EXCEPT !.info = d, !.count = stores[d]]
               asks == [seen EXCEPT !.prompt = seen.job]
               n == IF seen.job = "command" THEN seen.agreed ELSE stores[d]
               goes == [r EXCEPT !.count = n]
    <2>1. Taken(r) /\ d \in Loggers \cup {Nobody} /\ UNCHANGED <<bus, stores, gone>>
      BY <1>4, <1>info DEF Info
    <2>2. CASE d = Nobody
      BY <1>2, <1>info, <2>1, <2>2 DEF Info, TypeOK
    <2>3. CASE d # Nobody
      <3>1. d \in Loggers /\ stores[d] \in 0..MaxStore
        BY <2>1, <2>3 DEF TypeOK
      <3>2. seen \in Requests
        BY <1>1, <2>1, <3>1 DEF Requests
      <3>3. /\ seen.job = r.job /\ seen.k = r.k /\ seen.agreed = r.agreed
            /\ seen.scanning = r.scanning /\ seen.node = r.node
        BY <1>1 DEF Requests
      <3>4. \/ seen.job \notin Views /\ Over(u, asks)
            \/ seen.job \in Views /\ Proceed(u, seen)
            \/ seen.job \notin Views /\ Proceed(u, goes)
        BY <1>info, <2>3 DEF Info
      <3>5. CASE seen.job \notin Views /\ Over(u, asks)
        <4>1. seen.job \in Orders
          BY <2>1, <3>2, <3>3, <3>5 DEF Requests, AllJobs, Taken
        <4>2. asks \in Requests
          BY <3>2, <4>1 DEF Requests
        <4> QED BY <2>1, <3>5, <4>2, OverFits DEF TypeOK
      <3>6. CASE seen.job \in Views /\ Proceed(u, seen)
        <4> HIDE DEF seen
        <4> QED BY <1>3, <2>1, <3>2, <3>3, <3>6 DEF TypeOK
      <3>7. CASE seen.job \notin Views /\ Proceed(u, goes)
        <4>1. n \in 0..MaxStore
          BY <1>1, <3>1, <3>3 DEF Fit, Requests
        <4> HIDE DEF n
        <4>2. goes \in Requests
          BY <1>1, <4>1 DEF Requests
        <4>3. /\ goes.job = r.job /\ goes.k = r.k /\ goes.agreed = r.agreed
              /\ goes.scanning = r.scanning /\ goes.node = r.node /\ goes.info = r.info
          BY <1>1 DEF Requests
        <4>4. goes.info # Nobody => goes.job \in Views
          BY <1>1, <4>3 DEF Fit
        <4>5. Proceed(u, goes)
          BY <3>7
        <4> HIDE DEF goes
        <4> QED BY <1>3, <2>1, <4>2, <4>3, <4>4, <4>5 DEF TypeOK
      <3> QED BY <3>4, <3>5, <3>6, <3>7
    <2> QED BY <2>2, <2>3
  <1>records. CASE Records(u)
    <2> DEFINE q == [r EXCEPT !.recs = Reached(u)]
    <2>1. Taken(r) /\ Reached(u) \in Loggers \cup {Nobody} /\ UNCHANGED <<bus, stores, gone>>
      BY <1>4, <1>records DEF Records
    <2>2. q \in Requests
      BY <1>1, <2>1 DEF Requests
    <2>3. /\ q.job = r.job /\ q.k = r.k /\ q.agreed = r.agreed
          /\ q.scanning = r.scanning /\ q.node = r.node /\ q.info = r.info
      BY <1>1 DEF Requests
    <2>4. q.info # Nobody => q.job \in Views
      BY <1>1, <2>3 DEF Fit
    <2>5. Over(u, r) \/ Proceed(u, q)
      BY <1>records DEF Records
    <2> HIDE DEF q
    <2> QED BY <1>2, <1>3, <2>1, <2>2, <2>3, <2>4, <2>5 DEF TypeOK
  <1>configure. CASE Configure(u)
    <2>1. Taken(r) /\ UNCHANGED <<bus, gone>>
      BY <1>4, <1>configure DEF Configure
    <2>2. stores' \in [Loggers -> 0..MaxStore]
      BY <1>configure, DiscoveryAssumption DEF Configure, TypeOK
    <2>3. Over(u, r) \/ Proceed(u, r)
      BY <1>configure DEF Configure
    <2>4. r.info # Nobody => r.job \in Views
      BY <1>1 DEF Fit
    <2> HIDE DEF r
    <2> QED BY <1>1, <1>2, <1>3, <2>1, <2>2, <2>3, <2>4 DEF TypeOK
  <1>reopen. CASE Reopen(u)
    BY <1>reopen, <1>2 DEF Reopen, TypeOK
  <1>fail. CASE Fail(u)
    BY <1>fail, <1>2 DEF Fail, TypeOK
  <1> QED
    BY <1>list, <1>read, <1>take, <1>info, <1>records, <1>configure, <1>reopen, <1>fail
       DEF Handle

\* So do what people press,
LEMMA PressFits ==
  ASSUME TypeOK, FitOK, NEW u \in Users, Press(u) \/ Confirm(u)
  PROVE  Becomes(u) /\ UNCHANGED <<bus, stores, gone>>
  <1>1. ASSUME NEW q, Fit(q), Begin(u, q)
        PROVE  Becomes(u) /\ UNCHANGED <<bus, stores, gone>>
    <2>1. (calm[u] \/ q.agreed = 0) \in BOOLEAN
      BY DEF TypeOK
    <2>2. calm' = [calm EXCEPT ![u] = calm[u] \/ q.agreed = 0]
      BY <1>1 DEF Begin, TypeOK
    <2>3. calm' \in [Users -> BOOLEAN]
      BY <2>1, <2>2 DEF TypeOK
    <2> QED BY <1>1, <2>3 DEF Begin, Becomes, TypeOK
  <1>2. CASE Press(u)
    <2>1. PICK job \in Jobs : Begin(u, Asked(job, 0))
      BY <1>2 DEF Press
    <2>2. job \in AllJobs /\ 0 \in 0..MaxStore /\ 0 # AnyCount
      BY DiscoveryAssumption DEF AnyCount
    <2> QED BY <1>1, <2>1, <2>2, AskedFit
  <1>3. CASE Confirm(u)
    <2> DEFINE job == page[u].prompt
               agreed == IF job = "command" THEN page[u].count ELSE AnyCount
    <2>1. Begin(u, Asked(job, agreed))
      BY <1>3 DEF Confirm
    <2>2. job \in AllJobs /\ page[u].count \in 0..MaxStore
      BY <1>3 DEF Confirm, TypeOK, Pages, AllJobs
    <2>3. agreed \in {AnyCount} \cup 0..MaxStore /\ (job = "command" => agreed # AnyCount)
      BY <2>2, DiscoveryAssumption DEF AnyCount
    <2> HIDE DEF job, agreed
    <2> QED BY <1>1, <2>1, <2>2, <2>3, AskedFit
  <1> QED BY <1>2, <1>3

\* and what happens to devices.
LEMMA DevicesFit ==
  ASSUME TypeOK, FitOK,
         (\E n \in Nodes : Plug(n) \/ Unplug(n)) \/ (\E d \in Loggers : Record(d))
  PROVE  TypeOK' /\ FitOK'
  <1>1. ASSUME bus' \in [Nodes -> Loggers \cup Others \cup {Nobody}],
               stores' \in [Loggers -> 0..MaxStore], gone' \in [Users -> SUBSET Nodes],
               calm' \in [Users -> BOOLEAN], UNCHANGED <<req, page>>
        PROVE  TypeOK' /\ FitOK'
    BY <1>1 DEF TypeOK, FitOK, Running, Calls
  <1>2. ASSUME NEW n \in Nodes, Plug(n) PROVE TypeOK' /\ FitOK'
    BY <1>1, <1>2 DEF Plug, Disturbed, TypeOK
  <1>3. ASSUME NEW n \in Nodes, Unplug(n) PROVE TypeOK' /\ FitOK'
    <2>1. gone' \in [Users -> SUBSET Nodes]
      BY <1>3 DEF Unplug, TypeOK
    <2> QED BY <1>1, <1>3, <2>1 DEF Unplug, Disturbed, TypeOK
  <1>4. ASSUME NEW d \in Loggers, Record(d) PROVE TypeOK' /\ FitOK'
    <2>1. stores[d] + 1 \in 0..MaxStore
      BY <1>4, DiscoveryAssumption DEF Record, TypeOK
    <2> QED BY <1>1, <1>4, <2>1 DEF Record, TypeOK
  <1> QED BY <1>2, <1>3, <1>4

\* Requests are fit at first.
LEMMA InitFits == Init => TypeOK /\ FitOK
  <1> SUFFICES ASSUME Init PROVE TypeOK /\ FitOK
    OBVIOUS
  <1>1. Idle \in Requests /\ Fit(Idle) /\ Idle.job = "none"
    BY IdleFit DEF Fit, Idle
  <1>2. Blank \in Pages
    BY DiscoveryAssumption DEF Blank, Pages
  <1> QED BY <1>1, <1>2 DEF Init, TypeOK, FitOK, Running, Calls

\* and after every step.
LEMMA NextFits ==
  ASSUME TypeOK, FitOK, [Next]_vars PROVE TypeOK' /\ FitOK'
  <1>1. ASSUME NEW u \in Users, Becomes(u), gone' \in [Users -> SUBSET Nodes],
               stores' \in [Loggers -> 0..MaxStore], bus' = bus
        PROVE  TypeOK' /\ FitOK'
    <2>1. PICK q : Fit(q) /\ req' = [req EXCEPT ![u] = q]
      BY <1>1 DEF Becomes
    <2>2. \A v \in Users : Fit(req'[v]) /\ req'[v] \in Requests
      BY <2>1 DEF FitOK, Fit, TypeOK
    <2>3. req' \in [Users -> Requests]
      BY <2>1, <2>2 DEF TypeOK
    <2>4. ASSUME NEW v \in Users
          PROVE  /\ req'[v].job = "command" => req'[v].agreed # AnyCount
                 /\ Running(v)' /\ ~Calls(v, "find")' => req'[v].node \in Nodes
      BY <2>2 DEF Fit, Taken, Running, Calls
    <2> QED BY <1>1, <2>2, <2>3, <2>4 DEF TypeOK, FitOK, Becomes
  <1>2. CASE \E u \in Users : Press(u) \/ Confirm(u)
    BY <1>1, <1>2, PressFits DEF TypeOK
  <1>3. CASE \E u \in Users : Handle(u) \/ Fail(u)
    BY <1>1, <1>3, HandleFits
  <1>4. CASE UNCHANGED vars
    BY <1>4 DEF vars, TypeOK, FitOK, Running, Calls
  <1> QED BY <1>2, <1>3, <1>4, DevicesFit DEF Next

\* Requests, pages and devices always have their types; no command agrees to
\* any count there may be, and no call is made without a node.
THEOREM DiscoveryTypes == Spec => []TypeOK
  <1>1. TypeOK /\ FitOK /\ [Next]_vars => TypeOK' /\ FitOK'
    BY NextFits
  <1> QED BY <1>1, InitFits, PTL DEF Spec

-----------------------------------------------------------------------------
(* Scans *)

\* The request of u is at rest: no scan is under way.
Rests(u) == ~req'[u].scanning /\ req'[u].found = {}

\* The other users' requests and scans are as before.
OthersScan(u) ==
    \A v \in Users \ {u} : req'[v] = req[v] /\ gone'[v] = gone[v]

\* A request that is over, or goes on to the next call, is at rest.
LEMMA OverRests ==
  ASSUME TypeOK, NEW u \in Users, NEW r, Over(u, r)
  PROVE  Rests(u) /\ \A v \in Users \ {u} : req'[v] = req[v]
  <1>1. \A v, p : ~Viewing(v, p).scanning /\ Viewing(v, p).found = {}
    BY DEF Viewing, Idle
  <1>2. ~Idle.scanning /\ Idle.found = {}
    BY DEF Idle
  <1>3. \/ req' = [req EXCEPT ![u] = Idle]
        \/ req' = [req EXCEPT ![u] = Viewing(ViewOf(r.job), r.prompt)]
    BY DEF Over
  <1> QED BY <1>1, <1>2, <1>3 DEF Rests, TypeOK

LEMMA ProceedRests ==
  ASSUME TypeOK, NEW u \in Users, NEW r \in Requests, ~r.scanning, r.found = {},
         Proceed(u, r)
  PROVE  Rests(u) /\ \A v \in Users \ {u} : req'[v] = req[v]
  <1>1. CASE r.k < Len(Plan(r.job))
    <2> DEFINE q == [r EXCEPT !.k = @ + 1]
    <2>1. req' = [req EXCEPT ![u] = q]
      BY <1>1 DEF Proceed, Continue
    <2>2. ~q.scanning /\ q.found = {}
      BY DEF Requests
    <2> HIDE DEF q
    <2> QED BY <2>1, <2>2 DEF Rests, TypeOK
  <1>2. CASE ~(r.k < Len(Plan(r.job)))
    BY <1>2, OverRests DEF Proceed
  <1> QED BY <1>1, <1>2

\* The scans of users at rest are sound.
LEMMA RestScans ==
  ASSUME ScanOK, NEW u \in Users, Rests(u), OthersScan(u), bus' = bus
  PROVE  ScanOK'
  BY DEF ScanOK, Rests, OthersScan

\* Every call but those of a scan leaves the request at rest.
LEMMA CallRests ==
  ASSUME TypeOK, FitOK, ScanOK, NEW u \in Users,
         Take(u) \/ Info(u) \/ Records(u) \/ Configure(u) \/ Reopen(u) \/ Fail(u)
  PROVE  Rests(u) /\ OthersScan(u) /\ bus' = bus
  <1> DEFINE r == req[u]
  <1>1. Fit(r) /\ r \in Requests /\ (~r.scanning => r.found = {})
    BY DEF FitOK, Fit, ScanOK
  <1>2. ASSUME NEW q, Over(u, q) PROVE Rests(u) /\ \A v \in Users \ {u} : req'[v] = req[v]
    BY <1>2, OverRests
  <1>3. ASSUME NEW call \in {"info", "records", "configure", "reopen"}, Calls(u, call)
        PROVE  ~r.scanning /\ r.found = {} /\ Reached(u) \in Loggers \cup {Nobody}
    BY <1>1, <1>3 DEF Calls, Running, Fit, Reached
  <1>take. CASE Take(u)
    <2> DEFINE q == [Scanned(r) EXCEPT !.node = First(r.found)]
    <2>1. Scanned(r) \in Requests /\ r.found \in SUBSET Nodes
      BY <1>1 DEF Scanned, Requests
    <2>2. CASE r.found = {}
      BY <1>take, <1>2, <2>2 DEF Take, OthersScan
    <2>3. CASE r.found # {}
      <3>1. First(r.found) \in Nodes
        BY <2>1, <2>3, FirstIsLeast
      <3>2. q \in Requests
        BY <2>1, <3>1 DEF Requests
      <3>3. ~q.scanning /\ q.found = {}
        BY <1>1, <2>1 DEF Scanned, Requests
      <3>4. Proceed(u, q)
        BY <1>take, <2>3 DEF Take
      <3> HIDE DEF q
      <3> QED BY <1>take, <3>2, <3>3, <3>4, ProceedRests DEF Take, OthersScan
    <2> QED BY <2>2, <2>3
  <1>info. CASE Info(u)
    <2> DEFINE d == Reached(u)
               seen == [r EXCEPT !.info = d, !.count = stores[d]]
               n == IF seen.job = "command" THEN seen.agreed ELSE stores[d]
               goes == [r EXCEPT !.count = n]
    <2>1. /\ ~r.scanning /\ r.found = {} /\ d \in Loggers \cup {Nobody}
          /\ UNCHANGED <<bus, stores, gone>>
      BY <1>3, <1>info DEF Info
    <2>2. \/ \E q : Over(u, q)
          \/ d # Nobody /\ Proceed(u, seen)
          \/ d # Nobody /\ seen.job \notin Views /\ Proceed(u, goes)
      BY <1>info DEF Info
    <2>3. CASE d # Nobody /\ Proceed(u, seen)
      <3>1. d \in Loggers /\ stores[d] \in 0..MaxStore
        BY <2>1, <2>3 DEF TypeOK
      <3>2. seen \in Requests
        BY <1>1, <3>1 DEF Requests
      <3>3. seen.scanning = r.scanning /\ seen.found = r.found
        BY <1>1 DEF Requests
      <3>4. Proceed(u, seen)
        BY <2>3
      <3> HIDE DEF seen
      <3> QED BY <2>1, <3>2, <3>3, <3>4, ProceedRests DEF OthersScan
    <2>4. CASE d # Nobody /\ seen.job \notin Views /\ Proceed(u, goes)
      <3>1. seen.job = r.job /\ seen.agreed = r.agreed
        BY <1>1 DEF Requests
      <3>2. n \in 0..MaxStore
        BY <1>1, <2>1, <2>4, <3>1 DEF Fit, Requests, TypeOK
      <3> HIDE DEF n
      <3>3. goes \in Requests /\ ~goes.scanning /\ goes.found = {}
        BY <1>1, <2>1, <3>2 DEF Requests
      <3>4. Proceed(u, goes)
        BY <2>4
      <3> HIDE DEF goes
      <3> QED BY <2>1, <3>3, <3>4, ProceedRests DEF OthersScan
    <2> QED BY <1>2, <2>1, <2>2, <2>3, <2>4 DEF OthersScan
  <1>records. CASE Records(u)
    <2> DEFINE q == [r EXCEPT !.recs = Reached(u)]
    <2>1. /\ ~r.scanning /\ r.found = {} /\ Reached(u) \in Loggers \cup {Nobody}
          /\ UNCHANGED <<bus, stores, gone>>
      BY <1>3, <1>records DEF Records
    <2>2. q \in Requests /\ ~q.scanning /\ q.found = {}
      BY <1>1, <2>1 DEF Requests
    <2>3. Over(u, r) \/ Proceed(u, q)
      BY <1>records DEF Records
    <2> HIDE DEF q
    <2> QED BY <1>2, <2>1, <2>2, <2>3, ProceedRests DEF OthersScan
  <1>configure. CASE Configure(u)
    <2>1. ~r.scanning /\ r.found = {} /\ UNCHANGED <<bus, gone>>
      BY <1>3, <1>configure DEF Configure
    <2>2. Over(u, r) \/ Proceed(u, r)
      BY <1>configure DEF Configure
    <2> QED BY <1>1, <1>2, <2>1, <2>2, ProceedRests DEF OthersScan
  <1>over. CASE Reopen(u) \/ Fail(u)
    BY <1>over, <1>2 DEF Reopen, Fail, OthersScan
  <1> QED BY <1>take, <1>info, <1>records, <1>configure, <1>over

\* Scans stay sound,
LEMMA NextScans ==
  ASSUME TypeOK, FitOK, ScanOK, [Next]_vars PROVE ScanOK'
  <1>begin. ASSUME NEW u \in Users, Press(u) \/ Confirm(u) PROVE ScanOK'
    <2>1. \A j, n : ~Asked(j, n).scanning /\ Asked(j, n).found = {}
      BY DEF Asked, Idle
    <2>2. /\ \E j, n : req' = [req EXCEPT ![u] = Asked(j, n)]
          /\ UNCHANGED <<bus, gone>>
      BY <1>begin DEF Press, Confirm, Begin
    <2> QED BY <2>1, <2>2, RestScans DEF Rests, OthersScan, TypeOK
  <1>list. ASSUME NEW u \in Users, List(u) PROVE ScanOK'
    <2> DEFINE there == {n \in Nodes : bus[n] # Nobody}
               q == [req[u] EXCEPT !.scanning = TRUE, !.left = there, !.node = NoNode,
                                   !.listed = {n \in there : bus[n] \in Loggers}]
    <2>1. /\ req' = [req EXCEPT ![u] = q] /\ ~req[u].scanning
          /\ gone' = [gone EXCEPT ![u] = {}] /\ bus' = bus
      BY <1>list DEF List, Continue
    <2>2. /\ q.scanning /\ q.found = req[u].found /\ q.left = there
          /\ q.listed = {n \in there : bus[n] \in Loggers}
      BY DEF TypeOK, Requests
    <2> HIDE DEF q
    <2>3. req'[u] = q /\ gone'[u] = {} /\ OthersScan(u)
      BY <2>1 DEF TypeOK, OthersScan
    <2> QED BY <2>1, <2>2, <2>3 DEF ScanOK, OthersScan
  <1>read. ASSUME NEW u \in Users, ReadEntry(u) PROVE ScanOK'
    <2> DEFINE r == req[u]
               n == FirstNamed(r.left)
               q == [r EXCEPT !.left = @ \ {n},
                              !.found = IF bus[n] \in Loggers THEN @ \cup {n} ELSE @]
    <2>1. r.scanning /\ req' = [req EXCEPT ![u] = q] /\ UNCHANGED <<bus, gone>>
      BY <1>read DEF ReadEntry, Continue
    <2>2. /\ q.scanning = r.scanning /\ q.listed = r.listed /\ q.left = r.left \ {n}
          /\ q.found = IF bus[n] \in Loggers THEN r.found \cup {n} ELSE r.found
      BY DEF TypeOK, Requests
    <2> HIDE DEF q, n
    <2>3. req'[u] = q /\ OthersScan(u)
      BY <2>1 DEF TypeOK, OthersScan
    <2> HIDE DEF r
    <2>4. \A m \in q.found : m \in gone[u] \/ bus[m] \in Loggers
      BY <2>1, <2>2 DEF ScanOK, r
    <2>5. \A m \in q.listed \ gone[u] : bus[m] \in Loggers /\ m \in r.left \cup r.found
      BY <2>1, <2>2 DEF ScanOK, r
    <2>6. \A m \in q.listed \ gone[u] : m \in q.left \cup q.found
      BY <2>2, <2>5
    <2>7. /\ ~req'[u].scanning => req'[u].found = {}
          /\ req'[u].scanning =>
                /\ \A m \in req'[u].found : m \in gone'[u] \/ bus'[m] \in Loggers
                /\ \A m \in req'[u].listed \ gone'[u] :
                       bus'[m] \in Loggers /\ m \in req'[u].left \cup req'[u].found
      BY <2>1, <2>2, <2>3, <2>4, <2>5, <2>6
    <2> QED BY <2>1, <2>3, <2>7 DEF ScanOK, OthersScan
  <1>plug. ASSUME NEW n \in Nodes, Plug(n) PROVE ScanOK'
    BY <1>plug, DiscoveryAssumption DEF Plug, ScanOK, TypeOK
  <1>unplug. ASSUME NEW n \in Nodes, Unplug(n) PROVE ScanOK'
    BY <1>unplug DEF Unplug, ScanOK, TypeOK
  <1>record. ASSUME NEW d \in Loggers, Record(d) PROVE ScanOK'
    BY <1>record DEF Record, ScanOK
  <1>stutter. CASE UNCHANGED vars
    BY <1>stutter DEF vars, ScanOK
  <1> QED
    BY <1>begin, <1>list, <1>read, <1>plug, <1>unplug, <1>record, <1>stutter,
       CallRests, RestScans DEF Next, Handle

\* nothing having been found at first.
LEMMA InitScans == Init => ScanOK
  <1>1. ~Idle.scanning /\ Idle.found = {}
    BY DEF Idle
  <1> QED BY <1>1 DEF Init, ScanOK

\* So types, requests and scans are right, whatever happens.
LEMMA ScansSound == Spec => [](TypeOK /\ FitOK /\ ScanOK)
  <1>1. Init => TypeOK /\ FitOK /\ ScanOK
    BY InitFits, InitScans
  <1>2. TypeOK /\ FitOK /\ ScanOK /\ [Next]_vars => (TypeOK /\ FitOK /\ ScanOK)'
    BY NextFits, NextScans
  <1> QED BY <1>1, <1>2, PTL DEF Spec

\* What a scan of u that ends has taken.
TakesFirst(u) ==
    req[u].scanning /\ ~req'[u].scanning =>
        LET n == req'[u].node
            stayed == req[u].listed \ gone[u]
        IN  IF req[u].found = {} THEN stayed = {}
            ELSE /\ n \in gone[u] \/ bus[n] \in Loggers
                 /\ \A m \in stayed : n <= m

\* It is Take that ends a scan, and it takes the first that was found.
LEMMA TakeTakesFirst ==
  ASSUME TypeOK, FitOK, ScanOK, NEW u \in Users, Take(u) PROVE TakesFirst(u)
  <1> DEFINE r == req[u]
             q == [Scanned(r) EXCEPT !.node = First(r.found)]
  <1>1. /\ Fit(r) /\ r \in Requests /\ r.scanning /\ r.left = {}
        /\ r.job # "none" /\ Plan(r.job)[r.k] = "find"
    BY DEF FitOK, Fit, Take
  <1>2. /\ \A n \in r.found : n \in gone[u] \/ bus[n] \in Loggers
        /\ \A m \in r.listed \ gone[u] : m \in r.found
    BY <1>1 DEF ScanOK
  <1>3. CASE r.found = {}
    BY <1>2, <1>3 DEF TakesFirst
  <1>4. CASE r.found # {}
    <2>1. First(r.found) \in r.found /\ \A m \in r.found : First(r.found) <= m
      BY <1>1, <1>4, FirstIsLeast DEF Requests
    <2>2. r.k < Len(Plan(r.job))
      BY <1>1, PlanShape DEF Fit, Requests
    <2>3. q.k = r.k /\ q.job = r.job /\ q.node = First(r.found)
      BY <1>1 DEF Scanned, Requests
    <2>4. Proceed(u, q)
      BY <1>4 DEF Take
    <2> HIDE DEF q
    <2>5. req' = [req EXCEPT ![u] = [q EXCEPT !.k = @ + 1]]
      BY <2>2, <2>3, <2>4 DEF Proceed, Continue
    <2>6. req'[u].node = First(r.found)
      BY <2>3, <2>5 DEF TypeOK
    <2> QED BY <1>2, <1>4, <2>1, <2>6 DEF TakesFirst
  <1> QED BY <1>3, <1>4

\* No other step ends one.
LEMMA NextTakesFirst ==
  ASSUME TypeOK, FitOK, ScanOK, [Next]_vars, NEW u \in Users PROVE TakesFirst(u)
  <1>1. ASSUME NEW v \in Users, Press(v) \/ Confirm(v) PROVE TakesFirst(u)
    <2>1. ~Running(v) /\ \A w \in Users \ {v} : req'[w] = req[w]
      BY <1>1 DEF Press, Confirm, Begin, TypeOK
    <2>2. ~req[v].scanning
      BY <2>1 DEF Running, FitOK, Fit
    <2> QED BY <2>1, <2>2 DEF TakesFirst
  <1>2. ASSUME NEW v \in Users, List(v) PROVE TakesFirst(u)
    <2>1. ~req[v].scanning /\ \A w \in Users \ {v} : req'[w] = req[w]
      BY <1>2 DEF List, Continue, TypeOK
    <2> QED BY <2>1 DEF TakesFirst
  <1>3. ASSUME NEW v \in Users, ReadEntry(v) PROVE TakesFirst(u)
    <2> DEFINE n == FirstNamed(req[v].left)
               q == [req[v] EXCEPT
                       !.left = @ \ {n},
                       !.found = IF bus[n] \in Loggers THEN @ \cup {n} ELSE @]
    <2>1. req' = [req EXCEPT ![v] = q]
      BY <1>3 DEF ReadEntry, Continue
    <2>2. q.scanning = req[v].scanning
      BY DEF TypeOK, Requests
    <2> HIDE DEF q
    <2>3. req'[u].scanning = req[u].scanning
      BY <2>1, <2>2 DEF TypeOK
    <2> QED BY <2>3 DEF TakesFirst
  <1>4. ASSUME NEW v \in Users, Take(v) PROVE TakesFirst(u)
    <2>1. CASE v = u
      BY <1>4, <2>1, TakeTakesFirst
    <2>2. CASE v # u
      BY <1>4, <2>2, CallRests DEF OthersScan, TakesFirst
    <2> QED BY <2>1, <2>2
  <1>5. ASSUME NEW v \in Users,
               Info(v) \/ Records(v) \/ Configure(v) \/ Reopen(v) \/ Fail(v)
        PROVE  TakesFirst(u)
    <2>1. ~req[v].scanning
      BY <1>5 DEF Info, Records, Configure, Reopen, Fail, Calls, Running, FitOK, Fit
    <2>2. \A w \in Users \ {v} : req'[w] = req[w]
      BY <1>5, CallRests DEF OthersScan
    <2> QED BY <2>1, <2>2 DEF TakesFirst
  <1>6. ASSUME req' = req PROVE TakesFirst(u)
    BY <1>6 DEF TakesFirst
  <1>7. ASSUME NEW n \in Nodes, Plug(n) \/ Unplug(n) PROVE req' = req
    BY <1>7 DEF Plug, Unplug
  <1>8. ASSUME NEW d \in Loggers, Record(d) PROVE req' = req
    BY <1>8 DEF Record
  <1> QED BY <1>1, <1>2, <1>3, <1>4, <1>5, <1>6, <1>7, <1>8 DEF Next, Handle, vars

\* However devices come and go while sysfs is walked, what a scan takes is the
\* node of a logger, or was until it was unplugged, and comes before every logger
\* that was there all the time; a scan that finds none has missed none of those.
THEOREM FirstIsTaken == Spec => FirstTaken
  <1>1. TypeOK /\ FitOK /\ ScanOK /\ [Next]_vars =>
          [\A u \in Users :
             req[u].scanning /\ ~req'[u].scanning =>
                 LET n == req'[u].node
                     stayed == req[u].listed \ gone[u]
                 IN  IF req[u].found = {} THEN stayed = {}
                     ELSE /\ n \in gone[u] \/ bus[n] \in Loggers
                          /\ \A m \in stayed : n <= m]_vars
    BY NextTakesFirst DEF TakesFirst
  <1> QED BY <1>1, ScansSound, PTL DEF Spec, FirstTaken

-----------------------------------------------------------------------------
(* While one logger comes first *)

\* There is one first logger, at the least node of any.
LEMMA FirstsFacts ==
  ASSUME TypeOK
  PROVE  /\ \A n \in LeastNodes : n \in Nodes /\ bus[n] \in Loggers /\ bus[n] \in Firsts
         /\ \A d, e \in Firsts : d = e
         /\ \A d \in Firsts : d \in Loggers /\ \E n \in Nodes : bus[n] = d
  <1>1. \A n \in LeastNodes : n \in Nodes /\ bus[n] \in Loggers /\ bus[n] \in Firsts
    BY DEF LeastNodes, Firsts
  <1>2. ASSUME NEW n \in LeastNodes, NEW m \in LeastNodes PROVE n = m
    <2>1. n <= m /\ m <= n
      BY DEF LeastNodes
    <2>2. n \in Int /\ m \in Int
      BY DiscoveryAssumption DEF LeastNodes
    <2> QED BY <2>1, <2>2
  <1>3. \A d, e \in Firsts : d = e
    BY <1>2 DEF Firsts
  <1> QED BY <1>1, <1>3 DEF Firsts

\* Where there is a logger, there is one at the least node.
LEMMA LeastLogger ==
  ASSUME NEW n \in Nodes, bus[n] \in Loggers PROVE LeastNodes # {}
  <1> DEFINE at == {m \in Nodes : bus[m] \in Loggers}
  <1>1. at \in SUBSET Nat /\ at # {}
    <2>1. Nodes \in SUBSET Nat
      BY DiscoveryAssumption
    <2> QED BY <2>1
  <1>2. PICK m \in at : \A l \in at : m <= l
    BY <1>1, LeastNatural
  <1> QED BY <1>2 DEF LeastNodes

\* Who they are depends on the bus alone.
LEMMA FirstsSame ==
  ASSUME bus' = bus PROVE LeastNodes' = LeastNodes /\ Firsts' = Firsts
  BY DEF LeastNodes, Firsts

\* Records only go all at once.
Shrinks == \A d \in Loggers : stores'[d] \in {stores[d], 0}

\* A step of u leaves the other users as they were.
Alone(u) ==
    \A v \in Users \ {u} :
        req'[v] = req[v] /\ page'[v] = page[v] /\ calm'[v] = calm[v] /\ gone'[v] = gone[v]

\* What one user learns is not lost through what another does.
LEMMA OthersCalm ==
  ASSUME TypeOK, CalmOK, NEW u \in Users, Alone(u), bus' = bus, Shrinks,
         calm'[u] => Calm(u)'
  PROVE  CalmOK'
  <1>1. ASSUME NEW v \in Users \ {u}, calm'[v] PROVE Calm(v)'
    <2>1. Calm(v)
      BY <1>1 DEF CalmOK, Alone
    <2>2. req'[v] = req[v] /\ page'[v] = page[v] /\ gone'[v] = gone[v]
      BY DEF Alone
    <2>3. LeastNodes' = LeastNodes /\ Firsts' = Firsts
      BY FirstsSame
    <2>4. \A d \in Firsts : stores'[d] \in {stores[d], 0}
      BY FirstsFacts DEF Shrinks
    <2>5. CalmScan(v)'
      BY <2>1, <2>2, <2>3 DEF Calm, CalmScan
    <2>6. CalmNode(v)'
      BY <2>1, <2>2, <2>3 DEF Calm, CalmNode, Taken
    <2>7. CalmSeen(v)'
      BY <2>1, <2>2, <2>3, <2>4 DEF Calm, CalmSeen, Kept
    <2>8. CalmPage(v)'
      BY <2>1, <2>2, <2>3, <2>4 DEF Calm, CalmPage, Kept, Running
    <2> QED BY <2>5, <2>6, <2>7, <2>8 DEF Calm
  <1> QED BY <1>1 DEF CalmOK

\* What a request has been told, and what its page will show, is of the first.
Knows(q) ==
    /\ q.info # Nobody => q.info \in Firsts /\ stores[q.info] \in {q.count, 0}
    /\ q.recs # Nobody => q.recs \in Firsts

\* A request that is over leaves a page of the first logger,
LEMMA OverCalm ==
  ASSUME TypeOK, NEW u \in Users, NEW q, q \in Requests, Over(u, q),
         bus' = bus, gone' = gone, Shrinks, calm[u] => Knows(q)
  PROVE  Alone(u) /\ (calm'[u] => Calm(u)')
  <1>1. LeastNodes' = LeastNodes /\ Firsts' = Firsts
    BY FirstsSame
  <1>2. CASE q.job \in Views \cup {"command"}
    <2>1. /\ req' = [req EXCEPT ![u] = Idle] /\ page' = [page EXCEPT ![u] = Shown(q)]
          /\ calm' = calm
      BY <1>2 DEF Over
    <2>2. Alone(u) /\ req'[u] = Idle /\ page'[u] = Shown(q) /\ calm'[u] = calm[u]
      BY <2>1 DEF TypeOK, Alone
    <2>3. ~Idle.scanning /\ Idle.job = "none" /\ Idle.info = Nobody /\ Idle.recs = Nobody
      BY DEF Idle
    <2>4. CalmScan(u)' /\ CalmNode(u)' /\ CalmSeen(u)'
      BY <2>2, <2>3 DEF CalmScan, CalmNode, CalmSeen, Taken
    <2>5. ASSUME calm[u], Shown(q).info # Nobody
          PROVE  Shown(q).info \in Firsts /\ stores'[Shown(q).info] \in {Shown(q).count, 0}
      <3>1. Shown(q).info = q.info /\ Shown(q).count = q.count
        BY <2>5 DEF Shown, Blank
      <3>2. q.info \in Firsts /\ q.info \in Loggers /\ stores[q.info] \in {q.count, 0}
        BY <2>5, <3>1, FirstsFacts DEF Knows
      <3> QED BY <3>1, <3>2 DEF Shrinks
    <2>6. calm[u] => CalmPage(u)'
      BY <1>1, <2>2, <2>5 DEF CalmPage, Kept
    <2> QED BY <2>2, <2>4, <2>6 DEF Calm
  <1>3. CASE q.job \notin Views \cup {"command"}
    <2> DEFINE w == Viewing(ViewOf(q.job), q.prompt)
    <2>1. req' = [req EXCEPT ![u] = w] /\ calm' = [calm EXCEPT ![u] = TRUE] /\ page' = page
      BY <1>3 DEF Over
    <2>2. Alone(u) /\ req'[u] = w
      BY <2>1 DEF TypeOK, Alone
    <2>3. /\ w.job = ViewOf(q.job) /\ w.k = 1 /\ ~w.scanning /\ w.agreed = 0
          /\ w.info = Nobody /\ w.recs = Nobody
      BY DEF Viewing, Idle
    <2>4. w.job # "none" /\ Plan(w.job)[1] = "find"
      BY <2>3, PlanShape DEF ViewOf
    <2> HIDE DEF w
    <2>5. CalmScan(u)' /\ CalmNode(u)' /\ CalmSeen(u)' /\ CalmPage(u)'
      BY <2>2, <2>3, <2>4 DEF CalmScan, CalmNode, CalmSeen, CalmPage, Taken, Running
    <2> QED BY <2>2, <2>5 DEF Calm
  <1> QED BY <1>2, <1>3

\* and one that goes on goes on with its node.
LEMMA ProceedCalm ==
  ASSUME TypeOK, NEW u \in Users, NEW q, q \in Requests, Proceed(u, q),
         ~q.scanning, q.job # "none", q.agreed = req[u].agreed, Running(u),
         bus' = bus, gone' = gone, Shrinks,
         calm[u] => Knows(q) /\ q.node \in LeastNodes /\ CalmPage(u)
  PROVE  Alone(u) /\ (calm'[u] => Calm(u)')
  <1>1. LeastNodes' = LeastNodes /\ Firsts' = Firsts
    BY FirstsSame
  <1>2. \A d \in Firsts : stores'[d] \in {stores[d], 0}
    BY FirstsFacts DEF Shrinks
  <1>3. CASE q.k < Len(Plan(q.job))
    <2> DEFINE n == [q EXCEPT !.k = @ + 1]
    <2>1. req' = [req EXCEPT ![u] = n] /\ page' = page /\ calm' = calm
      BY <1>3 DEF Proceed, Continue
    <2>2. /\ n.job = q.job /\ n.node = q.node /\ n.agreed = q.agreed /\ n.info = q.info
          /\ n.recs = q.recs /\ n.count = q.count /\ ~n.scanning
      BY DEF Requests
    <2> HIDE DEF n
    <2>3. Alone(u) /\ req'[u] = n
      BY <2>1 DEF TypeOK, Alone
    <2>4. CalmScan(u)'
      BY <2>2, <2>3 DEF CalmScan
    <2>5. calm[u] => CalmNode(u)'
      BY <1>1, <2>2, <2>3 DEF CalmNode
    <2>6. calm[u] => CalmSeen(u)'
      BY <1>1, <1>2, <2>2, <2>3 DEF CalmSeen, Knows, Kept
    <2>7. calm[u] => CalmPage(u)'
      BY <1>1, <1>2, <2>1, <2>2, <2>3 DEF CalmPage, Kept, Running
    <2> QED BY <2>1, <2>3, <2>4, <2>5, <2>6, <2>7 DEF Calm
  <1>4. CASE ~(q.k < Len(Plan(q.job)))
    BY <1>4, OverCalm DEF Proceed
  <1> QED BY <1>3, <1>4

\* The calls of a request keep what is known of the first logger.
LEMMA CallCalm ==
  ASSUME TypeOK, FitOK, ScanOK, CalmOK, NEW u \in Users,
         Take(u) \/ Info(u) \/ Records(u) \/ Configure(u) \/ Reopen(u) \/ Fail(u)
  PROVE  CalmOK'
  <1> DEFINE r == req[u]
  <1>1. /\ Fit(r) /\ r \in Requests /\ (~r.scanning => r.found = {})
        /\ calm[u] => Calm(u) /\ Knows(r)
    BY DEF FitOK, Fit, ScanOK, CalmOK, Calm, CalmSeen, Knows, Kept
  <1>2. ASSUME Over(u, r), UNCHANGED <<bus, stores, gone>> PROVE CalmOK'
    BY <1>1, <1>2, OverCalm, OthersCalm DEF Shrinks
  <1>3. ASSUME NEW call \in {"info", "records", "configure", "reopen"}, Calls(u, call)
        PROVE  /\ Taken(r) /\ ~r.scanning /\ r.job # "none" /\ Running(u)
               /\ Reached(u) \in Loggers \cup {Nobody}
               /\ calm[u] => r.node \in LeastNodes /\ Reached(u) \in Firsts /\ CalmPage(u)
    <2>1. Taken(r) /\ ~r.scanning /\ r.job # "none" /\ Running(u)
      BY <1>1, <1>3 DEF Calls, Running, Fit, Taken
    <2>2. calm[u] => r.node \in LeastNodes /\ CalmPage(u)
      BY <1>1, <2>1 DEF Calm, CalmNode
    <2> QED BY <2>1, <2>2, FirstsFacts DEF Reached
  <1>take. CASE Take(u)
    <2> DEFINE q == [Scanned(r) EXCEPT !.node = First(r.found)]
    <2>1. /\ r.scanning /\ r.left = {} /\ r.job # "none" /\ Running(u)
          /\ Plan(r.job)[r.k] = "find"
          /\ r.found \in SUBSET Nodes /\ UNCHANGED <<bus, stores, gone>>
      BY <1>1, <1>take DEF Take, Fit, Requests, Running
    <2>2. Scanned(r) \in Requests
      BY <1>1 DEF Scanned, Requests
    <2>3. /\ Scanned(r).info = r.info /\ Scanned(r).recs = r.recs
          /\ Scanned(r).count = r.count
      BY <1>1 DEF Scanned, Requests
    <2>4. CASE r.found = {}
      <3>1. calm[u] => Knows(Scanned(r))
        BY <1>1, <2>3 DEF Knows
      <3>2. Over(u, Scanned(r))
        BY <1>take, <2>4 DEF Take
      <3> QED BY <2>1, <2>2, <3>1, <3>2, OverCalm, OthersCalm DEF Shrinks
    <2>5. CASE r.found # {}
      <3>1. First(r.found) \in r.found /\ \A m \in r.found : First(r.found) <= m
        BY <2>1, <2>5, FirstIsLeast
      <3>2. First(r.found) \in Nodes
        BY <2>1, <3>1
      <3>3. q \in Requests
        BY <2>2, <3>2 DEF Requests
      <3>4. /\ q.job = r.job /\ q.k = r.k /\ q.agreed = r.agreed /\ ~q.scanning
            /\ q.node = First(r.found) /\ q.info = r.info /\ q.recs = r.recs
            /\ q.count = r.count
        BY <1>1, <2>2 DEF Scanned, Requests
      <3>5. ASSUME calm[u] PROVE First(r.found) \in LeastNodes
        <4>1. PICK m \in LeastNodes :
                m \in r.listed \ gone[u] /\ \A n \in r.found : m <= n
          BY <1>1, <2>1, <2>5, <3>5 DEF Calm, CalmScan
        <4>2. m \in r.found
          BY <2>1, <4>1 DEF ScanOK
        <4>3. m <= First(r.found) /\ First(r.found) <= m
          BY <3>1, <4>1, <4>2
        <4>4. m \in Int /\ First(r.found) \in Int
          <5>1. Nodes \subseteq Int
            BY DiscoveryAssumption
          <5>2. m \in Nodes
            BY DEF LeastNodes
          <5> QED BY <3>2, <5>1, <5>2
        <4> QED BY <4>1, <4>3, <4>4
      <3>6. Proceed(u, q)
        BY <1>take, <2>5 DEF Take
      <3> HIDE DEF q
      <3>7. calm[u] => Knows(q) /\ q.node \in LeastNodes /\ CalmPage(u)
        BY <1>1, <3>4, <3>5 DEF Knows, Calm
      <3> QED BY <2>1, <3>3, <3>4, <3>6, <3>7, ProceedCalm, OthersCalm DEF Shrinks
    <2> QED BY <2>4, <2>5
  <1>info. CASE Info(u)
    <2> DEFINE d == Reached(u)
               seen == [r EXCEPT !.info = d, !.count = stores[d]]
               asks == [seen EXCEPT !.prompt = seen.job]
               n == IF seen.job = "command" THEN seen.agreed ELSE stores[d]
               goes == [r EXCEPT !.count = n]
    <2>1. /\ ~r.scanning /\ r.job # "none" /\ Running(u) /\ d \in Loggers \cup {Nobody}
          /\ UNCHANGED <<bus, stores, gone>> /\ Shrinks
          /\ calm[u] => r.node \in LeastNodes /\ d \in Firsts /\ CalmPage(u)
      BY <1>3, <1>info DEF Info, Shrinks
    <2>2. CASE d = Nobody
      BY <1>2, <1>info, <2>1, <2>2 DEF Info
    <2>3. CASE d # Nobody
      <3>1. d \in Loggers /\ stores[d] \in 0..MaxStore
        BY <2>1, <2>3 DEF TypeOK
      <3>2. seen \in Requests
        BY <1>1, <3>1 DEF Requests
      <3>3. /\ seen.job = r.job /\ seen.agreed = r.agreed /\ ~seen.scanning
            /\ seen.node = r.node /\ seen.info = d /\ seen.count = stores[d]
            /\ seen.recs = r.recs
        BY <1>1, <2>1 DEF Requests
      <3>4. calm[u] => Knows(seen)
        BY <1>1, <2>1, <3>3 DEF Knows
      <3>5. \/ seen.job \notin Views /\ Over(u, asks)
            \/ seen.job \in Views /\ Proceed(u, seen)
            \/ seen.job \notin Views /\ Proceed(u, goes)
        BY <1>info, <2>3 DEF Info
      <3>6. CASE seen.job \notin Views /\ Over(u, asks)
        <4>1. seen.job \in Orders
          BY <2>1, <3>2, <3>3, <3>6 DEF Requests, AllJobs
        <4>2. asks \in Requests
          BY <3>2, <4>1 DEF Requests
        <4>3. asks.info = seen.info /\ asks.count = seen.count /\ asks.recs = seen.recs
          BY <3>2 DEF Requests
        <4>4. calm[u] => Knows(asks)
          BY <3>4, <4>3 DEF Knows
        <4> QED BY <2>1, <3>6, <4>2, <4>4, OverCalm, OthersCalm
      <3>7. CASE seen.job \in Views /\ Proceed(u, seen)
        <4> HIDE DEF seen
        <4> QED BY <2>1, <3>2, <3>3, <3>4, <3>7, ProceedCalm, OthersCalm
      <3>8. CASE seen.job \notin Views /\ Proceed(u, goes)
        <4>1. n \in 0..MaxStore
          BY <1>1, <3>1, <3>3 DEF Fit, Requests
        <4> HIDE DEF n
        <4>2. goes \in Requests
          BY <1>1, <4>1 DEF Requests
        <4>3. /\ goes.job = r.job /\ goes.agreed = r.agreed /\ ~goes.scanning
              /\ goes.node = r.node /\ goes.info = r.info /\ goes.recs = r.recs
          BY <1>1, <2>1 DEF Requests
        <4>4. goes.info = Nobody
          BY <1>1, <3>3, <3>8, <4>3 DEF Fit
        <4>5. calm[u] => Knows(goes)
          BY <1>1, <4>3, <4>4 DEF Knows
        <4>6. Proceed(u, goes)
          BY <3>8
        <4> HIDE DEF goes
        <4> QED BY <2>1, <4>2, <4>3, <4>5, <4>6, ProceedCalm, OthersCalm
      <3> QED BY <3>5, <3>6, <3>7, <3>8
    <2> QED BY <2>2, <2>3
  <1>records. CASE Records(u)
    <2> DEFINE q == [r EXCEPT !.recs = Reached(u)]
    <2>1. /\ ~r.scanning /\ r.job # "none" /\ Running(u)
          /\ Reached(u) \in Loggers \cup {Nobody}
          /\ UNCHANGED <<bus, stores, gone>> /\ Shrinks
          /\ calm[u] => r.node \in LeastNodes /\ Reached(u) \in Firsts /\ CalmPage(u)
      BY <1>3, <1>records DEF Records, Shrinks
    <2>2. q \in Requests
      BY <1>1, <2>1 DEF Requests
    <2>3. /\ q.job = r.job /\ q.agreed = r.agreed /\ ~q.scanning /\ q.node = r.node
          /\ q.info = r.info /\ q.count = r.count /\ q.recs = Reached(u)
      BY <1>1, <2>1 DEF Requests
    <2>4. calm[u] => Knows(q)
      BY <1>1, <2>1, <2>3 DEF Knows
    <2>5. Over(u, r) \/ Proceed(u, q)
      BY <1>records DEF Records
    <2> HIDE DEF q
    <2> QED BY <1>2, <2>1, <2>2, <2>3, <2>4, <2>5, ProceedCalm, OthersCalm
  <1>configure. CASE Configure(u)
    <2>1. /\ ~r.scanning /\ r.job # "none" /\ Running(u) /\ UNCHANGED <<bus, gone>>
          /\ calm[u] => r.node \in LeastNodes /\ CalmPage(u)
      BY <1>3, <1>configure DEF Configure
    <2>2. Shrinks
      BY <1>configure DEF Configure, Shrinks, TypeOK
    <2>3. Over(u, r) \/ Proceed(u, r)
      BY <1>configure DEF Configure
    <2>4. Alone(u) /\ (calm'[u] => Calm(u)')
      BY <1>1, <2>1, <2>2, <2>3, OverCalm, ProceedCalm
    <2> QED BY <2>1, <2>2, <2>4, OthersCalm
  <1>over. CASE Reopen(u) \/ Fail(u)
    BY <1>over, <1>2 DEF Reopen, Fail
  <1> QED BY <1>take, <1>info, <1>records, <1>configure, <1>over

\* A new request knows nothing yet, and a confirmation is of the page there is.
LEMMA BeginCalm ==
  ASSUME TypeOK, CalmOK, NEW u \in Users, Press(u) \/ Confirm(u)
  PROVE  CalmOK'
  <1>1. PICK j, n : j \in AllJobs /\ Begin(u, Asked(j, n))
    BY DiscoveryAssumption DEF Press, Confirm, TypeOK, Pages, AllJobs
  <1> DEFINE q == Asked(j, n)
  <1>2. /\ q.job = j /\ q.agreed = n /\ q.k = 1 /\ ~q.scanning
        /\ q.info = Nobody /\ q.recs = Nobody
    BY DEF Asked, Idle
  <1>3. ~Taken(q)
    BY <1>2, PlanShape DEF Taken
  <1>4. /\ ~Running(u) /\ req' = [req EXCEPT ![u] = q]
        /\ calm' = [calm EXCEPT ![u] = @ \/ q.agreed = 0]
        /\ UNCHANGED <<bus, stores, page, gone>>
    BY <1>1 DEF Begin
  <1> HIDE DEF q
  <1>5. Alone(u) /\ req'[u] = q /\ (calm'[u] => calm[u] \/ q.agreed = 0) /\ Shrinks
    BY <1>4 DEF Alone, Shrinks, TypeOK
  <1>6. LeastNodes' = LeastNodes /\ Firsts' = Firsts
    BY <1>4, FirstsSame
  <1>7. CalmScan(u)' /\ CalmNode(u)' /\ CalmSeen(u)'
    BY <1>2, <1>3, <1>5 DEF CalmScan, CalmNode, CalmSeen, Taken
  <1>8. ASSUME calm'[u] PROVE CalmPage(u)'
    <2>1. CASE q.agreed = 0
      <3>1. q.job # "none"
        BY <1>1, <1>2 DEF AllJobs, Views, Orders
      <3> QED BY <1>5, <2>1, <3>1 DEF CalmPage, Running
    <2>2. CASE q.agreed # 0
      <3>1. CalmPage(u)
        BY <1>5, <1>8, <2>2 DEF CalmOK, Calm
      <3> QED BY <1>4, <1>6, <3>1 DEF CalmPage, Kept
    <2> QED BY <2>1, <2>2
  <1> QED BY <1>4, <1>5, <1>7, <1>8, OthersCalm DEF Calm

\* A scan begins with what is there, and reading an entry changes nothing of that.
LEMMA ScanCalm ==
  ASSUME TypeOK, FitOK, ScanOK, CalmOK, NEW u \in Users, List(u) \/ ReadEntry(u)
  PROVE  CalmOK'
  <1> DEFINE r == req[u]
  <1>1. r \in Requests
    BY DEF TypeOK
  <1>2. ASSUME NEW q, Continue(u, q), q.job = r.job, q.k = r.k, q.agreed = r.agreed,
               q.info = r.info, q.recs = r.recs, q.count = r.count, ~Taken(r),
               calm[u] => CalmScan(u)', UNCHANGED <<bus, stores>>,
               \A v \in Users \ {u} : gone'[v] = gone[v]
        PROVE  CalmOK'
    <2>1. req' = [req EXCEPT ![u] = q] /\ page' = page /\ calm' = calm
      BY <1>2 DEF Continue
    <2>2. Alone(u) /\ req'[u] = q /\ Shrinks
      BY <1>2, <2>1 DEF Alone, Shrinks, TypeOK
    <2>3. Firsts' = Firsts
      BY <1>2, FirstsSame
    <2>4. CalmNode(u)'
      BY <1>2, <2>2 DEF CalmNode, Taken
    <2>5. calm[u] => CalmSeen(u)' /\ CalmPage(u)'
      BY <1>2, <2>1, <2>2, <2>3 DEF CalmOK, Calm, CalmSeen, CalmPage, Kept, Running
    <2> QED BY <1>2, <2>1, <2>2, <2>4, <2>5, OthersCalm DEF Calm
  <1>list. CASE List(u)
    <2> DEFINE there == {n \in Nodes : bus[n] # Nobody}
               q == [r EXCEPT !.scanning = TRUE, !.left = there, !.node = NoNode,
                              !.listed = {n \in there : bus[n] \in Loggers}]
    <2>1. /\ Continue(u, q) /\ ~Taken(r) /\ gone' = [gone EXCEPT ![u] = {}]
          /\ UNCHANGED <<bus, stores>>
      BY <1>list DEF List, Calls, Taken
    <2>2. /\ q.job = r.job /\ q.k = r.k /\ q.agreed = r.agreed /\ q.info = r.info
          /\ q.recs = r.recs /\ q.count = r.count /\ q.found = r.found
          /\ q.listed = {n \in there : bus[n] \in Loggers}
      BY <1>1 DEF Requests
    <2> HIDE DEF q
    <2>3. req'[u] = q /\ gone'[u] = {} /\ LeastNodes' = LeastNodes
      BY <2>1, FirstsSame DEF Continue, TypeOK
    <2>4. CalmScan(u)'
      <3>1. r.found = {}
        BY <1>list DEF List, ScanOK
      <3>2. \A m \in LeastNodes : m \in q.listed
        BY <2>2, DiscoveryAssumption DEF LeastNodes
      <3> QED BY <2>2, <2>3, <3>1, <3>2 DEF CalmScan
    <2> QED BY <1>2, <2>1, <2>2, <2>4 DEF TypeOK
  <1>read. CASE ReadEntry(u)
    <2> DEFINE n == FirstNamed(r.left)
               q == [r EXCEPT !.left = @ \ {n},
                              !.found = IF bus[n] \in Loggers THEN @ \cup {n} ELSE @]
    <2>1. Continue(u, q) /\ r.scanning /\ UNCHANGED <<bus, stores, gone>>
      BY <1>read DEF ReadEntry
    <2>2. /\ q.job = r.job /\ q.k = r.k /\ q.agreed = r.agreed /\ q.info = r.info
          /\ q.recs = r.recs /\ q.count = r.count /\ q.listed = r.listed
          /\ q.scanning = r.scanning
          /\ q.found = IF bus[n] \in Loggers THEN r.found \cup {n} ELSE r.found
      BY <1>1 DEF Requests
    <2>3. ~Taken(r)
      BY <2>1 DEF FitOK, Fit, Taken
    <2> HIDE DEF q
    <2>4. req'[u] = q /\ gone'[u] = gone[u] /\ LeastNodes' = LeastNodes
      BY <2>1, FirstsSame DEF Continue, TypeOK
    <2>5. n \in Nodes
      <3>1. r.left \in SUBSET Nodes /\ r.left # {}
        BY <1>1, <1>read DEF ReadEntry, Requests
      <3> QED BY <3>1, FirstNamedIn
    <2>6. ASSUME calm[u] PROVE CalmScan(u)'
      <3>1. /\ r.found # {} => LeastNodes # {}
            /\ \A m \in LeastNodes :
                  m \in r.listed \ gone[u] /\ \A l \in r.found : m <= l
        BY <2>1, <2>6 DEF CalmOK, Calm, CalmScan
      <3>2. bus[n] \in Loggers => LeastNodes # {} /\ \A m \in LeastNodes : m <= n
        BY <2>5, LeastLogger DEF LeastNodes
      <3> HIDE DEF n
      <3> QED BY <2>2, <2>4, <3>1, <3>2 DEF CalmScan
    <2> QED BY <1>2, <2>1, <2>2, <2>3, <2>6
  <1> QED BY <1>list, <1>read

\* What is known stays known while the same logger comes first.
LEMMA NextCalm ==
  ASSUME TypeOK, FitOK, ScanOK, CalmOK, [Next]_vars PROVE CalmOK'
  <1>1. ASSUME NEW n \in Nodes, Plug(n) \/ Unplug(n) PROVE CalmOK'
    <2>1. Disturbed /\ UNCHANGED <<stores, req, page>>
      BY <1>1 DEF Plug, Unplug
    <2>2. ASSUME NEW u \in Users, calm'[u] PROVE Calm(u)'
      <3>1. calm[u] /\ Calm(u) /\ LeastNodes' = LeastNodes /\ Firsts' = Firsts
        BY <2>1, <2>2 DEF Disturbed, CalmOK
      <3>2. ASSUME req[u].scanning PROVE \A m \in LeastNodes : m \notin gone'[u] \ gone[u]
        <4>1. CASE Plug(n)
          BY <4>1 DEF Plug
        <4>2. CASE Unplug(n)
          <5>1. gone'[u] = gone[u] \cup {n} /\ bus'[n] = Nobody
            BY <3>2, <4>2 DEF Unplug, TypeOK
          <5>2. n \notin LeastNodes'
            BY <5>1, DiscoveryAssumption DEF LeastNodes
          <5> QED BY <3>1, <5>1, <5>2
        <4> QED BY <1>1, <4>1, <4>2
      <3>3. CalmScan(u)'
        BY <2>1, <3>1, <3>2 DEF Calm, CalmScan
      <3>4. CalmNode(u)' /\ CalmSeen(u)' /\ CalmPage(u)'
        BY <2>1, <3>1 DEF Calm, CalmNode, CalmSeen, CalmPage, Kept, Taken, Running
      <3> QED BY <3>3, <3>4 DEF Calm
    <2> QED BY <2>2 DEF CalmOK
  <1>2. ASSUME NEW d \in Loggers, Record(d) PROVE CalmOK'
    <2>1. Firsts' = Firsts /\ LeastNodes' = LeastNodes
      BY <1>2, FirstsSame DEF Record
    <2>2. d \notin Firsts
      BY <1>2, FirstsFacts DEF Record
    <2>3. \A e \in Firsts : stores'[e] = stores[e]
      BY <1>2, <2>2, FirstsFacts DEF Record, TypeOK
    <2>4. ASSUME NEW u \in Users, calm[u] PROVE Calm(u)'
      <3>1. Calm(u) /\ UNCHANGED <<bus, req, page, gone, calm>>
        BY <1>2, <2>4 DEF CalmOK, Record
      <3> QED BY <2>1, <2>3, <3>1
              DEF Calm, CalmScan, CalmNode, CalmSeen, CalmPage, Kept, Running, Taken
    <2> QED BY <1>2, <2>4 DEF CalmOK, Record
  <1>3. CASE UNCHANGED vars
    <2>1. Firsts' = Firsts /\ LeastNodes' = LeastNodes
      BY <1>3, FirstsSame DEF vars
    <2>2. ASSUME NEW u \in Users, calm[u] PROVE Calm(u)'
      <3>1. Calm(u) /\ UNCHANGED <<bus, stores, req, page, gone, calm>>
        BY <1>3, <2>2 DEF CalmOK, vars
      <3> QED BY <2>1, <3>1
              DEF Calm, CalmScan, CalmNode, CalmSeen, CalmPage, Kept, Running, Taken
    <2> QED BY <1>3, <2>2 DEF vars, CalmOK
  <1> QED BY <1>1, <1>2, <1>3, BeginCalm, ScanCalm, CallCalm DEF Next, Handle

\* So the whole invariant holds.
LEMMA CalmKnown == Spec => [](TypeOK /\ FitOK /\ ScanOK /\ CalmOK)
  <1>1. Init => CalmOK
    BY DEF Init, CalmOK
  <1>2. TypeOK /\ FitOK /\ ScanOK /\ CalmOK /\ [Next]_vars =>
            (TypeOK /\ FitOK /\ ScanOK /\ CalmOK)'
    BY NextFits, NextScans, NextCalm
  <1> QED BY <1>1, <1>2, InitFits, InitScans, PTL DEF Spec

\* A page that looks for the logger twice and opens it twice speaks of one logger,
\* while the same one comes first, whatever else comes and goes.
THEOREM PagesAreOfOne == Spec => []PageOfOne
  <1>1. TypeOK /\ FitOK /\ ScanOK /\ CalmOK => PageOfOne
    <2> SUFFICES ASSUME TypeOK, FitOK, ScanOK, CalmOK, NEW u \in Users, calm[u],
                        NEW call \in {"info", "records"}, Calls(u, call)
                 PROVE  /\ req[u].recs # Nobody => Reached(u) = req[u].recs
                        /\ req[u].info # Nobody => Reached(u) = req[u].info
      BY DEF PageOfOne
    <2>1. Calm(u) /\ Taken(req[u])
      BY DEF CalmOK, Calls, Running, Taken
    <2>2. Reached(u) \in Firsts
      BY <2>1, FirstsFacts DEF Calm, CalmNode, Reached
    <2> QED BY <2>1, <2>2, FirstsFacts DEF Calm, CalmSeen
  <1> QED BY <1>1, CalmKnown, PTL

\* Records of d are only lost to a Configure of the logger at its request's node,
LEMMA ErasedBy ==
  ASSUME TypeOK, [Next]_vars, NEW d \in Loggers, stores'[d] < stores[d]
  PROVE  \E u \in Users : Configure(u) /\ d = Reached(u) /\ stores[d] # 0
  <1>1. stores[d] \in Nat /\ stores'[d] # stores[d]
    BY DiscoveryAssumption DEF TypeOK
  <1>2. ASSUME NEW v \in Users, Press(v) \/ Confirm(v) PROVE FALSE
    BY <1>1, <1>2 DEF Press, Confirm, Begin
  <1>3. ASSUME NEW n \in Nodes, Plug(n) \/ Unplug(n) PROVE FALSE
    BY <1>1, <1>3 DEF Plug, Unplug
  <1>4. ASSUME NEW e \in Loggers, Record(e) PROVE FALSE
    <2>1. stores[e] \in Nat
      BY DiscoveryAssumption DEF TypeOK
    <2> QED BY <1>1, <1>4, <2>1 DEF Record, TypeOK
  <1>5. PICK v \in Users : Handle(v) \/ Fail(v)
    BY <1>1, <1>2, <1>3, <1>4 DEF Next, vars
  <1>6. Configure(v)
    BY <1>1, <1>5 DEF Handle, List, ReadEntry, Take, Info, Records, Reopen, Fail
  <1>7. d = Reached(v) /\ stores'[d] = 0
    BY <1>1, <1>6 DEF Configure, TypeOK
  <1> QED BY <1>1, <1>6, <1>7

\* whose step it is.
LEMMA EraseStep ==
  ASSUME TypeOK, FitOK, ScanOK, [Next]_vars, NEW u \in Users, NEW d \in Loggers,
         req'[u] # req[u], stores'[d] < stores[d]
  PROVE  Configure(u) /\ d = Reached(u) /\ stores[d] # 0
  <1>1. PICK v \in Users : Configure(v) /\ d = Reached(v) /\ stores[d] # 0
    BY ErasedBy
  <1>2. v = u
    BY <1>1, CallRests DEF OthersScan
  <1> QED BY <1>1, <1>2

\* While the same logger comes first from the page to the confirmation, who agrees
\* to a prompt erases the logger and the records it was shown, whatever other
\* devices come and go and whatever other users do.
THEOREM CalmErasesAsShown == Spec => ErasedAsShownCalm
  <1>1. TypeOK /\ FitOK /\ ScanOK /\ CalmOK /\ [Next]_vars =>
          [\A u \in Users, d \in Loggers :
             Agrees(u) /\ req'[u] # req[u] /\ stores'[d] < stores[d]
             /\ page[u].info # Nobody /\ calm[u] =>
                 page[u].info = d /\ page[u].count = stores[d]]_vars
    <2> SUFFICES ASSUME TypeOK, FitOK, ScanOK, CalmOK, [Next]_vars,
                        NEW u \in Users, NEW d \in Loggers,
                        Agrees(u), req'[u] # req[u], stores'[d] < stores[d],
                        page[u].info # Nobody, calm[u]
                 PROVE  page[u].info = d /\ page[u].count = stores[d]
      OBVIOUS
    <2>1. d = Reached(u) /\ stores[d] # 0
      BY EraseStep
    <2>2. Calm(u) /\ Taken(req[u]) /\ req[u].agreed # 0
      BY DEF CalmOK, Agrees, Calls, Running, Taken
    <2>3. d \in Firsts
      BY <2>1, <2>2, FirstsFacts DEF Calm, CalmNode, Reached
    <2>4. page[u].info \in Firsts /\ stores[page[u].info] \in {page[u].count, 0}
      BY <2>2 DEF Calm, CalmPage, Kept
    <2> QED BY <2>1, <2>3, <2>4, FirstsFacts
  <1> QED BY <1>1, CalmKnown, PTL DEF Spec, ErasedAsShownCalm

-----------------------------------------------------------------------------
(* What was agreed to *)

\* What a request was told to agree to stands on the page of its user, and no
\* request is about to change the settings with a count that was not agreed to,
\* unless that is 0.
AgreedOf(r, p) ==
    /\ r.job # "none" /\ r.agreed # 0 =>
           p.prompt = r.job /\ (r.job = "command" => r.agreed = p.count)
    /\ r.job # "none" /\ Plan(r.job)[r.k] = "configure" =>
           /\ r.job = "command" => r.count = r.agreed
           /\ r.agreed = 0 => r.count = 0

AgreedOK == \A u \in Users : AgreedOf(req[u], page[u])

\* Settings are changed right after an Info, and first of all comes a scan.
LEMMA PlanConfigures ==
  ASSUME NEW job
  PROVE  /\ Plan(job)[1] = "find"
         /\ \A k \in 1..4 : k <= Len(Plan(job)) /\ Plan(job)[k] = "configure" =>
                job \notin Views
         /\ \A k \in 1..4 : k < Len(Plan(job)) /\ Plan(job)[k + 1] = "configure" =>
                job \notin Views /\ Plan(job)[k] = "info"
  <1>1. CASE job = "device"
    <2>1. Plan(job) = <<"find", "info", "records">>
      BY <1>1 DEF Plan
    <2> QED BY <2>1
  <1>2. CASE job = "records"
    <2>1. Plan(job) = <<"find", "records", "find", "info">>
      BY <1>2 DEF Plan
    <2> QED BY <2>1
  <1>3. CASE job \notin {"device", "records"}
    <2>1. Plan(job) = <<"find", "info", "configure", "reopen">> /\ job \notin Views
      BY <1>3 DEF Plan, Views
    <2> QED BY <2>1
  <1> QED BY <1>1, <1>2, <1>3

\* A step of one request leaves the others and their pages.
LEMMA AgreedAlone ==
  ASSUME AgreedOK, NEW u \in Users, NEW r, NEW p, TypeOK,
         req' = [req EXCEPT ![u] = r], page' = [page EXCEPT ![u] = p], AgreedOf(r, p)
  PROVE  AgreedOK'
  <1> SUFFICES ASSUME NEW v \in Users PROVE AgreedOf(req'[v], page'[v])
    BY DEF AgreedOK
  <1>1. CASE v = u
    BY <1>1 DEF TypeOK
  <1>2. CASE v # u
    BY <1>2 DEF TypeOK, AgreedOK
  <1> QED BY <1>1, <1>2

\* A request that is over leaves nothing agreed to.
LEMMA OverAgreed ==
  ASSUME TypeOK, AgreedOK, NEW u \in Users, NEW q, Over(u, q)
  PROVE  AgreedOK'
  <1>1. CASE q.job \in Views \cup {"command"}
    <2>1. req' = [req EXCEPT ![u] = Idle] /\ page' = [page EXCEPT ![u] = Shown(q)]
      BY <1>1 DEF Over
    <2>2. AgreedOf(Idle, Shown(q))
      BY DEF AgreedOf, Idle
    <2> QED BY <2>1, <2>2, AgreedAlone
  <1>2. CASE q.job \notin Views \cup {"command"}
    <2> DEFINE w == Viewing(ViewOf(q.job), q.prompt)
    <2>1. req' = [req EXCEPT ![u] = w] /\ page' = page
      BY <1>2 DEF Over
    <2>2. w.job = ViewOf(q.job) /\ w.k = 1 /\ w.agreed = 0
      BY DEF Viewing, Idle
    <2> HIDE DEF w
    <2>3. AgreedOf(w, page[u])
      BY <2>2, PlanConfigures DEF AgreedOf
    <2>4. page' = [page EXCEPT ![u] = page[u]]
      BY <2>1 DEF TypeOK
    <2> QED BY <2>1, <2>3, <2>4, AgreedAlone
  <1> QED BY <1>1, <1>2

\* One that goes on, goes on with what was agreed to.
LEMMA ProceedAgreed ==
  ASSUME TypeOK, AgreedOK, NEW u \in Users, NEW q, q \in Requests, Proceed(u, q),
         q.job = req[u].job, q.agreed = req[u].agreed,
         Plan(q.job)[q.k] = "info" /\ q.job \notin Views =>
             /\ q.job = "command" => q.count = q.agreed
             /\ q.agreed = 0 => q.count = 0
  PROVE  AgreedOK'
  <1>1. CASE q.k < Len(Plan(q.job))
    <2> DEFINE n == [q EXCEPT !.k = @ + 1]
    <2>1. req' = [req EXCEPT ![u] = n] /\ page' = page
      BY <1>1 DEF Proceed, Continue
    <2>2. /\ n.job = q.job /\ n.agreed = q.agreed /\ n.count = q.count
          /\ n.k = q.k + 1 /\ q.k \in 1..4
      BY DEF Requests
    <2> HIDE DEF n
    <2>3. Plan(q.job)[q.k + 1] = "configure" =>
              q.job \notin Views /\ Plan(q.job)[q.k] = "info"
      BY <1>1, <2>2, PlanConfigures
    <2>4. Plan(n.job)[n.k] = "configure" =>
              /\ n.job = "command" => n.count = n.agreed
              /\ n.agreed = 0 => n.count = 0
      BY <2>2, <2>3
    <2>5. AgreedOf(n, page[u])
      BY <2>2, <2>4 DEF AgreedOK, AgreedOf
    <2>6. page' = [page EXCEPT ![u] = page[u]]
      BY <2>1 DEF TypeOK
    <2> QED BY <2>1, <2>5, <2>6, AgreedAlone
  <1>2. CASE ~(q.k < Len(Plan(q.job)))
    BY <1>2, OverAgreed DEF Proceed
  <1> QED BY <1>1, <1>2

\* The calls of a request keep to what was agreed to: Info goes on only with a
\* count that was, or with none to lose.
LEMMA HandleAgreed ==
  ASSUME TypeOK, FitOK, AgreedOK, NEW u \in Users, Handle(u) \/ Fail(u)
  PROVE  AgreedOK'
  <1> DEFINE r == req[u]
  <1>1. Fit(r) /\ r \in Requests /\ AgreedOf(r, page[u])
    BY DEF FitOK, TypeOK, AgreedOK
  <1>2. ASSUME NEW q, Continue(u, q), q.job = r.job, q.k = r.k, q.agreed = r.agreed,
               q.count = r.count
        PROVE  AgreedOK'
    <2>1. req' = [req EXCEPT ![u] = q] /\ page' = [page EXCEPT ![u] = page[u]]
      BY <1>2 DEF Continue, TypeOK
    <2>2. AgreedOf(q, page[u])
      BY <1>1, <1>2 DEF AgreedOf
    <2> QED BY <2>1, <2>2, AgreedAlone
  <1>list. CASE List(u)
    <2> DEFINE there == {n \in Nodes : bus[n] # Nobody}
               q == [r EXCEPT !.scanning = TRUE, !.left = there, !.node = NoNode,
                              !.listed = {n \in there : bus[n] \in Loggers}]
    <2>1. Continue(u, q)
      BY <1>list DEF List
    <2>2. q.job = r.job /\ q.k = r.k /\ q.agreed = r.agreed /\ q.count = r.count
      BY <1>1 DEF Requests
    <2> HIDE DEF q
    <2> QED BY <1>2, <2>1, <2>2
  <1>read. CASE ReadEntry(u)
    <2> DEFINE n == FirstNamed(r.left)
               q == [r EXCEPT !.left = @ \ {n},
                              !.found = IF bus[n] \in Loggers THEN @ \cup {n} ELSE @]
    <2>1. Continue(u, q)
      BY <1>read DEF ReadEntry
    <2>2. q.job = r.job /\ q.k = r.k /\ q.agreed = r.agreed /\ q.count = r.count
      BY <1>1 DEF Requests
    <2> HIDE DEF q
    <2> QED BY <1>2, <2>1, <2>2
  <1>take. CASE Take(u)
    <2> DEFINE q == [Scanned(r) EXCEPT !.node = First(r.found)]
    <2>1. r.scanning /\ Plan(r.job)[r.k] = "find" /\ r.found \in SUBSET Nodes
      BY <1>1, <1>take DEF Take, Fit, Requests
    <2>2. CASE r.found = {}
      BY <1>take, <2>2, OverAgreed DEF Take
    <2>3. CASE r.found # {}
      <3>1. First(r.found) \in Nodes
        BY <2>1, <2>3, FirstIsLeast
      <3>2. q \in Requests /\ q.job = r.job /\ q.k = r.k /\ q.agreed = r.agreed
        BY <1>1, <3>1 DEF Scanned, Requests
      <3>3. Proceed(u, q)
        BY <1>take, <2>3 DEF Take
      <3> HIDE DEF q
      <3> QED BY <2>1, <3>2, <3>3, ProceedAgreed
    <2> QED BY <2>2, <2>3
  <1>info. CASE Info(u)
    <2> DEFINE d == Reached(u)
               seen == [r EXCEPT !.info = d, !.count = stores[d]]
               n == IF r.job = "command" THEN r.agreed ELSE stores[d]
               goes == [r EXCEPT !.count = n]
    <2>1. seen.job = r.job /\ seen.agreed = r.agreed
      BY <1>1 DEF Requests
    <2>2. CASE \E q : Over(u, q)
      BY <2>2, OverAgreed
    <2>3. CASE d # Nobody /\ r.job \in Views /\ Proceed(u, seen)
      <3>1. d \in Loggers /\ stores[d] \in 0..MaxStore
        BY <2>3 DEF Reached, TypeOK
      <3>2. seen \in Requests
        BY <1>1, <3>1 DEF Requests
      <3> HIDE DEF seen
      <3> QED BY <2>1, <2>3, <3>2, ProceedAgreed
    <2>4. CASE /\ d # Nobody /\ r.job \notin Views /\ Proceed(u, goes)
               /\ ~Asks(seen, stores[d])
      <3>1. d \in Loggers /\ stores[d] \in 0..MaxStore
        BY <2>4 DEF Reached, TypeOK
      <3>2. n \in 0..MaxStore
        BY <1>1, <1>info, <3>1 DEF Info, Calls, Running, Fit, Requests
      <3>3. /\ r.job = "command" => n = r.agreed
            /\ r.agreed = 0 => n = 0
        BY <2>1, <2>4, <3>1, DiscoveryAssumption DEF Asks, AnyCount
      <3> HIDE DEF n
      <3>4. goes \in Requests /\ goes.job = r.job /\ goes.agreed = r.agreed /\ goes.count = n
        BY <1>1, <3>2 DEF Requests
      <3>5. Proceed(u, goes)
        BY <2>4
      <3> HIDE DEF goes
      <3> QED BY <3>3, <3>4, <3>5, ProceedAgreed
    <2> QED BY <1>info, <2>1, <2>2, <2>3, <2>4 DEF Info
  <1>records. CASE Records(u)
    <2> DEFINE q == [r EXCEPT !.recs = Reached(u)]
    <2>1. CASE Over(u, r)
      BY <2>1, OverAgreed
    <2>2. CASE Proceed(u, q)
      <3>1. Plan(r.job)[r.k] = "records"
        BY <1>records DEF Records, Calls
      <3>2. Reached(u) \in Loggers \cup {Nobody}
        BY DEF Reached
      <3>3. q \in Requests /\ q.job = r.job /\ q.k = r.k /\ q.agreed = r.agreed
        BY <1>1, <3>2 DEF Requests
      <3> HIDE DEF q
      <3> QED BY <2>2, <3>1, <3>3, ProceedAgreed
    <2> QED BY <1>records, <2>1, <2>2 DEF Records
  <1>configure. CASE Configure(u)
    <2>1. Plan(r.job)[r.k] = "configure" /\ (Over(u, r) \/ Proceed(u, r))
      BY <1>configure DEF Configure, Calls
    <2> QED BY <1>1, <2>1, OverAgreed, ProceedAgreed
  <1>over. CASE Reopen(u) \/ Fail(u)
    BY <1>over, OverAgreed DEF Reopen, Fail
  <1> QED
    BY <1>list, <1>read, <1>take, <1>info, <1>records, <1>configure, <1>over DEF Handle

\* Every step keeps to it; a confirmation is of the prompt in view.
LEMMA NextAgreed ==
  ASSUME TypeOK, FitOK, AgreedOK, [Next]_vars
  PROVE  AgreedOK'
  <1>1. ASSUME NEW u \in Users, NEW job, NEW agreed, Begin(u, Asked(job, agreed)),
               agreed # 0 =>
                   page[u].prompt = job /\ (job = "command" => agreed = page[u].count)
        PROVE  AgreedOK'
    <2> DEFINE q == Asked(job, agreed)
    <2>1. req' = [req EXCEPT ![u] = q] /\ page' = [page EXCEPT ![u] = page[u]]
      BY <1>1 DEF Begin, TypeOK
    <2>2. q.job = job /\ q.agreed = agreed /\ q.k = 1
      BY DEF Asked, Idle
    <2> HIDE DEF q
    <2>3. AgreedOf(q, page[u])
      BY <1>1, <2>2, PlanConfigures DEF AgreedOf
    <2> QED BY <2>1, <2>3, AgreedAlone
  <1>2. ASSUME NEW u \in Users, Press(u) PROVE AgreedOK'
    BY <1>1, <1>2 DEF Press
  <1>3. ASSUME NEW u \in Users, Confirm(u) PROVE AgreedOK'
    BY <1>1, <1>3 DEF Confirm
  <1>4. ASSUME UNCHANGED <<req, page>> PROVE AgreedOK'
    BY <1>4 DEF AgreedOK
  <1>5. ASSUME \/ \E n \in Nodes : Plug(n) \/ Unplug(n)
               \/ \E d \in Loggers : Record(d)
               \/ UNCHANGED vars
        PROVE  AgreedOK'
    BY <1>4, <1>5 DEF Plug, Unplug, Record, vars
  <1> QED BY <1>2, <1>3, <1>5, HandleAgreed DEF Next

\* A Configure is a step of its request.
LEMMA ConfigureMoves ==
  ASSUME TypeOK, FitOK, NEW u \in Users, Configure(u)
  PROVE  req'[u] # req[u]
  <1> DEFINE r == req[u]
  <1>1. /\ r.job # "none" /\ r.k \in 1..4 /\ r.k <= Len(Plan(r.job))
        /\ Plan(r.job)[r.k] = "configure"
    BY DEF Configure, Calls, Running, FitOK, Fit, Requests
  <1>2. r.job \notin Views
    BY <1>1, PlanConfigures
  <1>3. ASSUME Over(u, r) PROVE req'[u] # r
    <2>1. CASE r.job = "command"
      <3>1. req'[u] = Idle
        BY <1>3, <2>1 DEF Over, TypeOK
      <3> QED BY <1>1, <3>1 DEF Idle
    <2>2. CASE r.job # "command"
      <3>1. req'[u] = Viewing(ViewOf(r.job), r.prompt)
        BY <1>2, <1>3, <2>2 DEF Over, TypeOK
      <3>2. req'[u].job = ViewOf(r.job)
        BY <3>1 DEF Viewing, Idle
      <3> QED BY <1>2, <3>2 DEF ViewOf, Views
    <2> QED BY <2>1, <2>2
  <1>4. ASSUME r.k < Len(Plan(r.job)), Continue(u, [r EXCEPT !.k = @ + 1])
        PROVE  req'[u] # r
    <2>1. req'[u] = [r EXCEPT !.k = @ + 1]
      BY <1>4 DEF Continue, TypeOK
    <2>2. req'[u].k = r.k + 1
      BY <2>1 DEF TypeOK, Requests
    <2> QED BY <1>1, <2>2
  <1> QED BY <1>3, <1>4 DEF Configure, Proceed

\* Whatever is swapped, plugged or recorded: records are lost only to an order
\* that was agreed to on the prompt in view, and a command's only if they are as
\* many as it printed.
THEOREM ErasingIsAgreed == Spec => ErasedOnlyAgreed
  <1>1. Init => AgreedOK
    <2> SUFFICES ASSUME Init, NEW u \in Users PROVE AgreedOf(req[u], page[u])
      BY DEF AgreedOK
    <2>1. req[u] = Idle /\ Idle.job = "none"
      BY DEF Init, Idle
    <2> QED BY <2>1 DEF AgreedOf
  <1>2. TypeOK /\ FitOK /\ ScanOK /\ AgreedOK /\ [Next]_vars =>
            (TypeOK /\ FitOK /\ ScanOK /\ AgreedOK)'
    BY NextFits, NextScans, NextAgreed
  <1>3. TypeOK /\ FitOK /\ ScanOK /\ AgreedOK /\ [Next]_vars =>
          [\A d \in Loggers : stores'[d] < stores[d] =>
             \E u \in Users :
                /\ Agrees(u) /\ req'[u] # req[u]
                /\ page[u].prompt = req[u].job
                /\ req[u].job = "command" => page[u].count = stores[d]]_vars
    <2> SUFFICES ASSUME TypeOK, FitOK, ScanOK, AgreedOK, [Next]_vars,
                        NEW d \in Loggers, stores'[d] < stores[d]
                 PROVE  \E u \in Users :
                           /\ Agrees(u) /\ req'[u] # req[u]
                           /\ page[u].prompt = req[u].job
                           /\ req[u].job = "command" => page[u].count = stores[d]
      OBVIOUS
    <2>1. PICK u \in Users : Configure(u) /\ d = Reached(u) /\ stores[d] # 0
      BY ErasedBy
    <2>2. Admitted(u) /\ Calls(u, "configure")
      BY <2>1, DiscoveryAssumption DEF Configure, TypeOK
    <2>3. stores[d] = req[u].count
      BY <2>1, <2>2 DEF Admitted
    <2>4. AgreedOf(req[u], page[u])
      BY DEF AgreedOK
    <2>5. req[u].agreed # 0
      BY <2>1, <2>2, <2>3, <2>4 DEF AgreedOf, Calls, Running
    <2>6. req'[u] # req[u]
      BY <2>1, <2>2, ConfigureMoves
    <2> QED
      BY <2>2, <2>3, <2>4, <2>5, <2>6 DEF Agrees, AgreedOf, Calls, Running
  <1> QED BY <1>1, <1>2, <1>3, InitFits, InitScans, PTL DEF Spec, ErasedOnlyAgreed

-----------------------------------------------------------------------------
(* What is left of a request *)

\* A scan takes at most a round: its beginning, its end and a step for every
\* node there is.
Round == Cardinality(Nodes) + 2

\* The calls a request has yet to make after the one it is at; an order goes on
\* with those of the page it ends on.
CallsAfter(r) ==
    Len(Plan(r.job)) - r.k + (IF r.job \in {"save", "start"} THEN 4 ELSE 0)

\* The steps that are left: a round for every call, and what remains of this one.
LeftOf(r) ==
    IF r.job = "none" THEN 0
    ELSE CallsAfter(r) * Round +
         (IF r.scanning THEN Cardinality(r.left) + 1 ELSE Round)

Left(u) == LeftOf(req[u])

\* What a request does leaves less of it, and neither the other users nor the
\* devices that come and go add to it.
RequestsAdvance ==
    [][\A u \in Users : Running(u) =>
        /\ Handle(u) \/ Fail(u) => Left(u)' < Left(u)
        /\ Left(u)' < Left(u) \/ UNCHANGED req[u]]_vars

\* There are finitely many nodes.
LEMMA NodesFinite ==
  /\ Round \in Nat /\ Round >= 2
  /\ \A S \in SUBSET Nodes :
        IsFiniteSet(S) /\ Cardinality(S) \in Nat /\ Cardinality(S) + 2 <= Round
  <1>1. IsFiniteSet(0..99)
    <2>1. 0 \in Int /\ 99 \in Int
      OBVIOUS
    <2>2. ASSUME NEW a \in Int, NEW b \in Int PROVE IsFiniteSet(a..b)
      BY FS_Interval
    <2> QED BY <2>1, <2>2
  <1>2. IsFiniteSet(Nodes)
    BY <1>1, DiscoveryAssumption, FS_Subset
  <1>3. Cardinality(Nodes) \in Nat
    BY <1>2, FS_CardinalityType
  <1>4. ASSUME NEW S \in SUBSET Nodes
        PROVE  IsFiniteSet(S) /\ Cardinality(S) \in Nat /\ Cardinality(S) + 2 <= Round
    <2>1. IsFiniteSet(S) /\ Cardinality(S) <= Cardinality(Nodes)
      BY <1>2, FS_Subset
    <2>2. Cardinality(S) \in Nat
      BY <2>1, FS_CardinalityType
    <2> QED BY <1>3, <2>1, <2>2 DEF Round
  <1> QED BY <1>3, <1>4 DEF Round

\* The calls that are left, by the job.
LEMMA CallsLeft ==
  ASSUME NEW r, Fit(r), r.job # "none"
  PROVE  /\ CallsAfter(r) \in 0..7
         /\ r.job \in {"save", "start"} => CallsAfter(r) >= 4
         /\ r.job \in Views => CallsAfter(r) <= 3
  <1>1. r.k \in 1..4 /\ r.k <= Len(Plan(r.job)) /\ Len(Plan(r.job)) \in 3..4
    BY PlanShape DEF Fit, Requests
  <1> DEFINE l == Len(Plan(r.job))
  <1>2. CallsAfter(r) = l - r.k + (IF r.job \in {"save", "start"} THEN 4 ELSE 0)
    BY DEF CallsAfter
  <1>3. r.job \in Views => r.job \notin {"save", "start"}
    BY DEF Views
  <1>4. l \in 3..4 /\ r.k \in 1..4 /\ r.k <= l
    BY <1>1
  <1> HIDE DEF l
  <1> QED BY <1>2, <1>3, <1>4

\* What is left of the call a request is at is never nothing, and at most a round.
LEMMA LeftParts ==
  ASSUME NEW r, Fit(r), r.job # "none"
  PROVE  \E m \in 1..Round :
            /\ LeftOf(r) = CallsAfter(r) * Round + m
            /\ m = IF r.scanning THEN Cardinality(r.left) + 1 ELSE Round
  <1>1. r.left \in SUBSET Nodes
    BY DEF Fit, Requests
  <1>2. Cardinality(r.left) \in Nat /\ Cardinality(r.left) + 2 <= Round
        /\ Round \in Nat /\ Round >= 2
    BY <1>1, NodesFinite
  <1> DEFINE m == IF r.scanning THEN Cardinality(r.left) + 1 ELSE Round
  <1>3. m \in 1..Round
    BY <1>2
  <1>4. LeftOf(r) = CallsAfter(r) * Round + m
    BY DEF LeftOf
  <1> QED BY <1>3, <1>4

\* So many rounds, and no more.
LEMMA Rounds ==
  ASSUME NEW n \in 0..7
  PROVE  /\ n * Round \in Nat /\ n * Round <= 7 * Round
         /\ n >= 4 => 4 * Round <= n * Round
         /\ n <= 3 => n * Round + Round <= 4 * Round
         /\ n >= 1 => (n - 1) * Round + Round = n * Round
  <1>1. Round \in Nat
    BY NodesFinite
  <1>2. \/ n = 0 \/ n = 1 \/ n = 2 \/ n = 3 \/ n = 4 \/ n = 5 \/ n = 6 \/ n = 7
    OBVIOUS
  <1> QED BY <1>1, <1>2

\* A request never has more left than eight rounds, and has none left just when
\* there is no request.
LEMMA LeftType ==
  ASSUME NEW r, Fit(r)
  PROVE  LeftOf(r) \in 0..(8 * Round) /\ (LeftOf(r) = 0 <=> r.job = "none")
  <1>0. Round \in Nat
    BY NodesFinite
  <1>1. CASE r.job = "none"
    BY <1>0, <1>1 DEF LeftOf
  <1>2. CASE r.job # "none"
    <2>1. PICK m \in 1..Round : LeftOf(r) = CallsAfter(r) * Round + m
      BY <1>2, LeftParts
    <2> DEFINE n == CallsAfter(r) * Round
    <2>2. n \in Nat /\ n <= 7 * Round
      BY <1>2, CallsLeft, Rounds
    <2> HIDE DEF n
    <2>3. LeftOf(r) = n + m
      BY <2>1 DEF n
    <2> QED BY <1>0, <1>2, <2>2, <2>3
  <1> QED BY <1>1, <1>2

\* A request that is over, but for a page, has less left; so has one that goes on
\* to its next call.
LEMMA OverLess ==
  ASSUME TypeOK, NEW u \in Users, Fit(req[u]), req[u].job # "none",
         NEW r, r.job = req[u].job, r.prompt \in Orders \cup {"none"}, Over(u, r)
  PROVE  /\ Left(u)' < Left(u)
         /\ \A v \in Users \ {u} : UNCHANGED req[v]
  <1>0. Round \in Nat
    BY NodesFinite
  <1>1. CASE r.job \in Views \cup {"command"}
    <2>1. req' = [req EXCEPT ![u] = Idle]
      BY <1>1 DEF Over
    <2>2. Left(u)' = 0
      BY <2>1 DEF TypeOK, Left, LeftOf, Idle
    <2>3. Left(u) \in 0..(8 * Round) /\ Left(u) # 0
      BY LeftType DEF Left
    <2> QED BY <1>0, <2>1, <2>2, <2>3 DEF TypeOK
  <1>2. CASE r.job \notin Views \cup {"command"}
    <2> DEFINE q == Viewing(ViewOf(r.job), r.prompt)
    <2>1. req' = [req EXCEPT ![u] = q]
      BY <1>2 DEF Over
    <2>2. Fit(q) /\ q.job \in Views
      <3>1. ViewOf(r.job) \in Views
        BY DEF ViewOf, Views
      <3> QED BY <3>1, ViewingFit DEF Viewing, Idle
    <2> HIDE DEF q
    <2>3. q.job # "none" /\ req[u].job \in {"save", "start"}
      BY <1>2, <2>2 DEF Views, Fit, Requests, AllJobs, Orders
    <2>4. PICK m \in 1..Round : LeftOf(q) = CallsAfter(q) * Round + m
      BY <2>2, <2>3, LeftParts
    <2>5. PICK n \in 1..Round : Left(u) = CallsAfter(req[u]) * Round + n
      BY LeftParts DEF Left
    <2> DEFINE a == CallsAfter(q) * Round  b == CallsAfter(req[u]) * Round
    <2>6. a \in Nat /\ a + Round <= 4 * Round
      BY <2>2, <2>3, CallsLeft, Rounds
    <2>7. b \in Nat /\ 4 * Round <= b
      BY <2>3, CallsLeft, Rounds
    <2>8. Left(u)' = a + m /\ Left(u) = b + n
      BY <2>1, <2>4, <2>5 DEF TypeOK, Left
    <2> HIDE DEF a, b
    <2>9. Left(u)' < Left(u)
      BY <1>0, <2>6, <2>7, <2>8
    <2> QED BY <2>1, <2>9 DEF TypeOK
  <1> QED BY <1>1, <1>2

LEMMA ProceedLess ==
  ASSUME TypeOK, NEW u \in Users, Fit(req[u]), req[u].job # "none",
         NEW r \in Requests, r.job = req[u].job, r.k = req[u].k, ~r.scanning, Proceed(u, r)
  PROVE  /\ Left(u)' < Left(u)
         /\ \A v \in Users \ {u} : UNCHANGED req[v]
  <1>0. Round \in Nat
    BY NodesFinite
  <1>1. CASE r.k < Len(Plan(r.job))
    <2> DEFINE q == [r EXCEPT !.k = @ + 1]
    <2>1. req' = [req EXCEPT ![u] = q]
      BY <1>1 DEF Proceed, Continue
    <2>2. q.job = req[u].job /\ ~q.scanning /\ q.k = req[u].k + 1
      BY DEF Requests
    <2> HIDE DEF q
    <2> DEFINE c == CallsAfter(req[u])
    <2>3. CallsAfter(q) = c - 1 /\ c \in 0..7 /\ c >= 1
      <3> DEFINE l == Len(Plan(req[u].job))  x == req[u].k
                 y == IF req[u].job \in {"save", "start"} THEN 4 ELSE 0
      <3>1. c = l - x + y /\ CallsAfter(q) = l - (x + 1) + y
        BY <2>2 DEF CallsAfter
      <3>2. l \in Int /\ x \in Int /\ x < l /\ y \in {0, 4}
        BY <1>1, PlanShape DEF Fit, Requests
      <3>3. c \in 0..7
        BY CallsLeft
      <3> HIDE DEF l, x, y, c
      <3> QED BY <3>1, <3>2, <3>3
    <2>4. PICK n \in 1..Round : Left(u) = c * Round + n
      BY LeftParts DEF Left
    <2>5. Left(u)' = (c - 1) * Round + Round
      BY <2>1, <2>2, <2>3 DEF TypeOK, Left, LeftOf
    <2> HIDE DEF c
    <2>6. c * Round \in Nat /\ (c - 1) * Round + Round = c * Round
      BY <2>3, Rounds
    <2> DEFINE a == c * Round
    <2>7. a \in Nat /\ Left(u) = a + n /\ Left(u)' = a
      BY <2>4, <2>5, <2>6
    <2> HIDE DEF a
    <2>8. Left(u)' < Left(u)
      BY <2>7
    <2> QED BY <2>1, <2>8 DEF TypeOK
  <1>2. CASE ~(r.k < Len(Plan(r.job)))
    <2>1. r.prompt \in Orders \cup {"none"}
      BY DEF Requests
    <2> QED BY <1>2, <2>1, OverLess DEF Proceed
  <1> QED BY <1>1, <1>2

\* Whatever a request does leaves less of it.
LEMMA HandleLess ==
  ASSUME TypeOK, FitOK, NEW u \in Users, Handle(u) \/ Fail(u)
  PROVE  /\ Left(u)' < Left(u)
         /\ \A v \in Users \ {u} : UNCHANGED req[v]
  <1> DEFINE r == req[u]
  <1>fit. Fit(r) /\ r \in Requests /\ r.prompt \in Orders \cup {"none"}
    BY DEF FitOK, Fit, Requests
  <1>calls. ASSUME NEW call, Calls(u, call) PROVE r.job # "none"
    BY <1>calls DEF Calls, Running
  <1>rest. ASSUME NEW call, call # "find", Calls(u, call) PROVE ~r.scanning
    BY <1>rest, <1>fit DEF Calls, Fit
  <1>scan. ASSUME r.scanning PROVE r.job # "none"
    BY <1>scan, <1>fit DEF Fit
  <1>over. ASSUME r.job # "none", NEW q, q.job = r.job, q.prompt \in Orders \cup {"none"},
                  Over(u, q)
           PROVE  /\ Left(u)' < Left(u)
                  /\ \A v \in Users \ {u} : UNCHANGED req[v]
    BY <1>over, <1>fit, OverLess
  <1>proceed. ASSUME r.job # "none", NEW q \in Requests, q.job = r.job, q.k = r.k,
                     ~q.scanning, Proceed(u, q)
              PROVE  /\ Left(u)' < Left(u)
                     /\ \A v \in Users \ {u} : UNCHANGED req[v]
    BY <1>proceed, <1>fit, ProceedLess
  <1>scanned. ASSUME r.job # "none", NEW q, q.job = r.job, q.k = r.k, q.scanning,
                     Cardinality(q.left) \in Nat,
                     Cardinality(q.left) + 1 < IF r.scanning THEN Cardinality(r.left) + 1
                                               ELSE Round,
                     Continue(u, q)
              PROVE  /\ Left(u)' < Left(u)
                     /\ \A v \in Users \ {u} : UNCHANGED req[v]
    <2>1. req' = [req EXCEPT ![u] = q]
      BY <1>scanned DEF Continue
    <2>2. PICK m \in 1..Round :
            /\ Left(u) = CallsAfter(r) * Round + m
            /\ m = IF r.scanning THEN Cardinality(r.left) + 1 ELSE Round
      BY <1>scanned, <1>fit, LeftParts DEF Left
    <2> DEFINE a == CallsAfter(r) * Round  l == Cardinality(q.left) + 1
    <2>3. Left(u)' = a + l
      BY <1>scanned, <2>1 DEF TypeOK, Left, LeftOf, CallsAfter
    <2>4. a \in Nat
      BY <1>scanned, <1>fit, CallsLeft, Rounds
    <2>5. l \in Nat /\ l < m /\ Left(u) = a + m
      BY <1>scanned, <2>2
    <2> HIDE DEF a, l
    <2>6. Left(u)' < Left(u)
      BY <2>3, <2>4, <2>5
    <2> QED BY <2>1, <2>6 DEF TypeOK
  <1>list. CASE List(u)
    <2> DEFINE there == {n \in Nodes : bus[n] # Nobody}
               q == [r EXCEPT !.scanning = TRUE, !.left = there, !.node = NoNode,
                              !.listed = {n \in there : bus[n] \in Loggers}]
    <2>1. Continue(u, q) /\ r.job # "none" /\ ~r.scanning
      BY <1>list, <1>calls DEF List
    <2>2. q.job = r.job /\ q.k = r.k /\ q.scanning /\ q.left = there
      BY <1>fit DEF Requests
    <2>3. Cardinality(there) \in Nat /\ Cardinality(there) + 2 <= Round /\ Round \in Nat
      BY NodesFinite
    <2>4. Cardinality(there) + 1 < Round
      BY <2>3
    <2> HIDE DEF there, q
    <2> QED BY <1>scanned, <2>1, <2>2, <2>3, <2>4
  <1>read. CASE ReadEntry(u)
    <2> DEFINE n == FirstNamed(r.left)
               found == IF bus[n] \in Loggers THEN r.found \cup {n} ELSE r.found
               q == [r EXCEPT !.left = @ \ {n}, !.found = found]
    <2>1. r.scanning /\ r.left # {} /\ r.left \in SUBSET Nodes /\ r.job # "none"
      BY <1>read, <1>fit, <1>scan DEF ReadEntry, Requests
    <2>2. Continue(u, q)
      BY <1>read, <1>fit DEF ReadEntry, Requests
    <2>3. n \in r.left
      BY <2>1, FirstNamedIn
    <2>4. q.job = r.job /\ q.k = r.k /\ q.scanning /\ q.left = r.left \ {n}
      BY <1>fit, <2>1 DEF Requests
    <2> HIDE DEF n, found, q
    <2>5. IsFiniteSet(r.left) /\ Cardinality(r.left) \in Nat
      BY <2>1, NodesFinite
    <2>6. Cardinality(q.left) = Cardinality(r.left) - 1
      <3> DEFINE S == r.left
      <3>1. IsFiniteSet(S) /\ n \in S /\ q.left = S \ {n}
        BY <2>3, <2>4, <2>5
      <3> HIDE DEF S
      <3>2. Cardinality(S \ {n}) = IF n \in S THEN Cardinality(S) - 1 ELSE Cardinality(S)
        BY <3>1, FS_RemoveElement
      <3>3. Cardinality(q.left) = Cardinality(S) - 1
        BY <3>1, <3>2
      <3> QED BY <3>3 DEF S
    <2>7. Cardinality(q.left) \in Nat
      <3>1. r.left \ {n} \in SUBSET Nodes
        BY <2>1
      <3> QED BY <2>4, <3>1, NodesFinite
    <2>8. Cardinality(q.left) + 1 < Cardinality(r.left) + 1
      BY <2>5, <2>6
    <2> QED BY <1>scanned, <2>1, <2>2, <2>4, <2>7, <2>8
  <1>take. CASE Take(u)
    <2>1. r.scanning /\ r.job # "none"
      BY <1>take, <1>scan DEF Take
    <2>2. /\ Scanned(r) \in Requests /\ Scanned(r).job = r.job /\ Scanned(r).k = r.k
          /\ ~Scanned(r).scanning /\ Scanned(r).prompt = r.prompt
      BY <1>fit DEF Scanned, Requests
    <2>3. CASE r.found = {}
      BY <1>fit, <1>over, <1>take, <2>1, <2>2, <2>3 DEF Take
    <2>4. CASE r.found # {}
      <3> DEFINE q == [Scanned(r) EXCEPT !.node = First(r.found)]
      <3>1. First(r.found) \in Nodes
        BY <1>fit, <2>4, FirstIsLeast DEF Requests
      <3>2. q \in Requests /\ q.job = r.job /\ q.k = r.k /\ ~q.scanning
        BY <2>2, <3>1 DEF Requests
      <3>3. Proceed(u, q)
        BY <1>take, <2>4 DEF Take
      <3> HIDE DEF q
      <3> QED BY <1>proceed, <2>1, <3>2, <3>3
    <2> QED BY <2>3, <2>4
  <1>info. CASE Info(u)
    <2> DEFINE d == Reached(u)
               seen == [r EXCEPT !.info = d, !.count = stores[d]]
               asks == [seen EXCEPT !.prompt = seen.job]
               n == IF seen.job = "command" THEN seen.agreed ELSE stores[d]
               goes == [r EXCEPT !.count = n]
    <2>1. r.job # "none" /\ ~r.scanning
      BY <1>calls, <1>rest, <1>info DEF Info
    <2>2. CASE d = Nobody
      BY <1>fit, <1>over, <1>info, <2>1, <2>2 DEF Info
    <2>3. CASE d # Nobody
      <3>1. d \in Loggers /\ stores[d] \in 0..MaxStore
        BY <2>3 DEF Reached, TypeOK
      <3>2. seen \in Requests
        BY <1>fit, <3>1 DEF Requests
      <3>3. seen.job = r.job /\ seen.k = r.k /\ ~seen.scanning /\ seen.agreed = r.agreed
        BY <1>fit, <2>1 DEF Requests
      <3>4. \/ seen.job \notin Views /\ Over(u, asks)
            \/ Proceed(u, seen)
            \/ seen.job \notin Views /\ ~Asks(seen, stores[d]) /\ Proceed(u, goes)
        BY <1>info, <2>3 DEF Info
      <3>5. CASE seen.job \notin Views /\ Over(u, asks)
        <4>1. asks.job = r.job /\ asks.prompt = r.job
          BY <3>2, <3>3 DEF Requests
        <4>2. r.job \in Orders
          BY <1>fit, <2>1, <3>3, <3>5 DEF Requests, AllJobs
        <4> QED BY <1>over, <2>1, <3>5, <4>1, <4>2
      <3>6. CASE Proceed(u, seen)
        BY <1>proceed, <2>1, <3>2, <3>3, <3>6
      <3>7. CASE seen.job \notin Views /\ ~Asks(seen, stores[d]) /\ Proceed(u, goes)
        <4>1. n \in 0..MaxStore
          BY <1>fit, <3>1, <3>3 DEF Fit, Requests
        <4>2. goes \in Requests /\ goes.job = r.job /\ goes.k = r.k /\ ~goes.scanning
          BY <1>fit, <2>1, <4>1 DEF Requests
        <4> HIDE DEF goes
        <4> QED BY <1>proceed, <2>1, <3>7, <4>2
      <3> QED BY <3>4, <3>5, <3>6, <3>7
    <2> QED BY <2>2, <2>3
  <1>records. CASE Records(u)
    <2>1. r.job # "none" /\ ~r.scanning
      BY <1>calls, <1>rest, <1>records DEF Records
    <2>2. CASE Over(u, r)
      BY <1>fit, <1>over, <2>1, <2>2
    <2>3. CASE Proceed(u, [r EXCEPT !.recs = Reached(u)])
      <3> DEFINE q == [r EXCEPT !.recs = Reached(u)]
      <3>1. Reached(u) \in Loggers \cup {Nobody}
        BY DEF Reached
      <3>2. q \in Requests /\ q.job = r.job /\ q.k = r.k /\ ~q.scanning
        BY <1>fit, <2>1, <3>1 DEF Requests
      <3>3. Proceed(u, q)
        BY <2>3
      <3> HIDE DEF q
      <3> QED BY <1>proceed, <2>1, <3>2, <3>3
    <2> QED BY <1>records, <2>2, <2>3 DEF Records
  <1>configure. CASE Configure(u)
    <2>1. r.job # "none" /\ ~r.scanning /\ (Over(u, r) \/ Proceed(u, r))
      BY <1>calls, <1>rest, <1>configure DEF Configure
    <2> QED BY <1>fit, <1>over, <1>proceed, <2>1
  <1>reopen. CASE Reopen(u) \/ Fail(u)
    <2>1. r.job # "none" /\ Over(u, r)
      BY <1>calls, <1>reopen DEF Reopen, Fail, Running
    <2> QED BY <1>fit, <1>over, <2>1
  <1> QED BY <1>list, <1>read, <1>take, <1>info, <1>records, <1>configure, <1>reopen DEF Handle

\* What people begin, and what comes and goes, leaves the requests under way alone.
LEMMA OthersStay ==
  ASSUME TypeOK, NEW u \in Users, Running(u),
         \/ UNCHANGED vars
         \/ \E v \in Users : Press(v) \/ Confirm(v)
         \/ \E n \in Nodes : Plug(n) \/ Unplug(n)
         \/ \E d \in Loggers : Record(d)
  PROVE  UNCHANGED req[u]
  <1>1. ASSUME NEW v \in Users, Press(v) \/ Confirm(v) PROVE UNCHANGED req[u]
    <2>1. ~Running(v) /\ \E q : req' = [req EXCEPT ![v] = q]
      BY <1>1 DEF Press, Confirm, Begin
    <2> QED BY <2>1 DEF TypeOK
  <1>2. CASE \/ UNCHANGED vars \/ (\E n \in Nodes : Plug(n) \/ Unplug(n))
             \/ (\E d \in Loggers : Record(d))
    BY <1>2 DEF vars, Plug, Unplug, Record
  <1> QED BY <1>1, <1>2

\* However often devices come and go during its scans, and whatever the other
\* users do, every step of a request leaves less of it and nothing adds to it:
\* a scan reads the names it listed, and only those.
THEOREM EveryRequestAdvances == Spec => RequestsAdvance
  <1>1. ASSUME TypeOK, FitOK, [Next]_vars, NEW u \in Users, Running(u)
        PROVE  /\ Handle(u) \/ Fail(u) => Left(u)' < Left(u)
               /\ Left(u)' < Left(u) \/ UNCHANGED req[u]
    <2>1. ASSUME NEW v \in Users, Handle(v) \/ Fail(v)
          PROVE  Left(u)' < Left(u) \/ UNCHANGED req[u]
      BY <1>1, <2>1, HandleLess
    <2> QED BY <1>1, <2>1, HandleLess, OthersStay DEF Next
  <1>2. TypeOK /\ FitOK /\ [Next]_vars =>
          [\A u \in Users : Running(u) =>
              /\ Handle(u) \/ Fail(u) => Left(u)' < Left(u)
              /\ Left(u)' < Left(u) \/ UNCHANGED req[u]]_vars
    BY <1>1
  <1>3. TypeOK /\ FitOK /\ [Next]_vars => (TypeOK /\ FitOK)'
    BY NextFits
  <1> QED BY <1>2, <1>3, InitFits, PTL DEF Spec, RequestsAdvance

\* A request, with the page it ends on, never has more left than eight rounds of
\* the nodes there are, and has none left just when it is over.
THEOREM RequestsAreBounded ==
  Spec => [](\A u \in Users : Left(u) \in 0..(8 * Round) /\ (Left(u) = 0 <=> ~Running(u)))
  <1>1. FitOK => \A u \in Users : Left(u) \in 0..(8 * Round) /\ (Left(u) = 0 <=> ~Running(u))
    BY LeftType DEF FitOK, Left, Running
  <1>2. TypeOK /\ FitOK /\ [Next]_vars => (TypeOK /\ FitOK)'
    BY NextFits
  <1> QED BY <1>1, <1>2, InitFits, PTL DEF Spec
=============================================================================
