------------------------------ MODULE Discovery ------------------------------
(***************************************************************************)
(* Which logger a request is about.  Package hid finds loggers by walking  *)
(* sysfs, entry by entry, while devices come and go; pages and commands    *)
(* then take the first one and open its node again for every call of the   *)
(* Service, each page and each confirmation after a scan of its own.       *)
(*                                                                         *)
(* The calls of the Service are single steps here (module Logger has their *)
(* exchanges, module Site what Info may leave out, and the page lock).     *)
(* What is found is a node; what is there when the node is opened may be   *)
(* another device.                                                         *)
(***************************************************************************)
EXTENDS Integers, Sequences

CONSTANTS
    Users,          \* browser tabs and terminals
    Loggers,        \* devices with the ids Find looks for
    Others,         \* other devices, and those whose uevent does not parse
    Nodes,          \* numbers of hidraw nodes
    MaxStore,       \* bound: records a logger holds
    Jobs            \* what users do, of AllJobs

Views   == {"device", "records"}
Orders  == {"save", "start", "command"}
AllJobs == Views \cup Orders

Nobody == "nobody"
NoNode == -1
AnyCount == -1        \* confirm=yes: agreed to whatever the count is

ASSUME DiscoveryAssumption ==
    /\ Nodes \subseteq 0..99
    /\ MaxStore \in Nat
    /\ Jobs \subseteq AllJobs
    /\ Nobody \notin Loggers \cup Others
    /\ Loggers \cap Others = {}

VARIABLES
    bus,            \* the device at each node
    stores,         \* how many records each logger holds
    req,            \* the request of each user
    page,           \* what each user looks at
    gone,           \* history: nodes unplugged since the user's scan began
    calm            \* history: the same logger came first since the user's page began

vars == <<bus, stores, req, page, gone, calm>>

-----------------------------------------------------------------------------
(* Requests *)

\* The calls of the Service a job makes, one after the other.
Plan(job) ==
    CASE job = "device"  -> <<"find", "info", "records">>
      [] job = "records" -> <<"find", "records", "find", "info">>
      [] OTHER           -> <<"find", "info", "configure", "reopen">>

\* A request is at call k of its job's plan, with the directory entries it
\* has not read, the nodes it found, the node it took, the count it confirms,
\* and the loggers its page will be about.
Requests ==
    [job: AllJobs \cup {"none"}, k: 1..4, agreed: {AnyCount} \cup 0..MaxStore,
     prompt: Orders \cup {"none"},
     scanning: BOOLEAN, listed: SUBSET Nodes, left: SUBSET Nodes, found: SUBSET Nodes,
     node: Nodes \cup {NoNode}, count: 0..MaxStore,
     info: Loggers \cup {Nobody}, recs: Loggers \cup {Nobody}]

Pages ==
    [prompt: Orders \cup {"none"}, info: Loggers \cup {Nobody}, count: 0..MaxStore]

Blank == [prompt |-> "none", info |-> Nobody, count |-> 0]

Idle ==
    [job |-> "none", k |-> 1, agreed |-> 0, prompt |-> "none", scanning |-> FALSE,
     listed |-> {}, left |-> {}, found |-> {}, node |-> NoNode, count |-> 0,
     info |-> Nobody, recs |-> Nobody]

Asked(job, agreed) == [Idle EXCEPT !.job = job, !.agreed = agreed]
Viewing(view, prompt) == [Idle EXCEPT !.job = view, !.prompt = prompt]

Running(u) == req[u].job # "none"
Calls(u, call) == Running(u) /\ Plan(req[u].job)[req[u].k] = call

\* The page after an order: the form's own, with or without a prompt.
ViewOf(job) == IF job = "save" THEN "device" ELSE "records"

\* What is kept of a page: nothing depends on one without a prompt.
Shown(r) ==
    IF r.prompt = "none" THEN Blank
    ELSE [prompt |-> r.prompt, info |-> r.info, count |-> r.count]

Continue(u, r) ==
    /\ req' = [req EXCEPT ![u] = r]
    /\ UNCHANGED <<page, calm>>

\* A request is over, with r.prompt if there is one: a page is shown, a
\* command has printed what it knows, an order ends on a page.
Over(u, r) ==
    IF r.job \in Views \cup {"command"}
    THEN /\ req' = [req EXCEPT ![u] = Idle]
         /\ page' = [page EXCEPT ![u] = Shown(r)]
         /\ UNCHANGED calm
    ELSE /\ req' = [req EXCEPT ![u] = Viewing(ViewOf(r.job), r.prompt)]
         /\ calm' = [calm EXCEPT ![u] = TRUE]
         /\ UNCHANGED page

\* The call returned: on to the next one.
Proceed(u, r) ==
    IF r.k < Len(Plan(r.job)) THEN Continue(u, [r EXCEPT !.k = @ + 1]) ELSE Over(u, r)

-----------------------------------------------------------------------------
(* What people do *)

Begin(u, r) ==
    /\ ~Running(u)
    /\ req' = [req EXCEPT ![u] = r]
    /\ calm' = [calm EXCEPT ![u] = @ \/ r.agreed = 0]
    /\ UNCHANGED <<bus, stores, page, gone>>

\* Open a page, press a button of one, or run the start command.
Press(u) == \E job \in Jobs : Begin(u, Asked(job, 0))

\* The prompt of a page says yes to any count; the command is run again with
\* the count it printed.
Confirm(u) ==
    /\ page[u].prompt # "none"
    /\ Begin(u, Asked(page[u].prompt,
                      IF page[u].prompt = "command" THEN page[u].count ELSE AnyCount))

-----------------------------------------------------------------------------
(* Find *)

\* os.ReadDir: the names at that moment.
List(u) ==
    /\ Calls(u, "find") /\ ~req[u].scanning
    /\ LET there == {n \in Nodes : bus[n] # Nobody}
       IN  Continue(u, [req[u] EXCEPT !.scanning = TRUE, !.left = there, !.node = NoNode,
                                      !.listed = {n \in there : bus[n] \in Loggers}])
    /\ gone' = [gone EXCEPT ![u] = {}]
    /\ UNCHANGED <<bus, stores>>

\* The order of names: hidraw10 before hidraw2.
NameKey(n) == IF n < 10 THEN 100 * n ELSE 10 * n + 1

FirstNamed(nodes) == CHOOSE n \in nodes : \A m \in nodes : NameKey(n) <= NameKey(m)

\* Mutant of ReadEntry: an entry that is gone starts the scan again.
ReadEntryAgain(u) ==
    LET n == FirstNamed(req[u].left)
    IN  /\ req[u].scanning /\ req[u].left # {}
        /\ Continue(u, [req[u] EXCEPT
               !.left  = IF bus[n] = Nobody THEN {m \in Nodes : bus[m] # Nobody} ELSE @ \ {n},
               !.found = IF bus[n] \in Loggers THEN @ \cup {n} ELSE @])
        /\ UNCHANGED <<bus, stores, gone>>

\* readDevice() of the next entry: one that is gone, or whose uevent tells
\* of no id or of another, is passed over.
ReadEntry(u) ==
    LET n == FirstNamed(req[u].left)
    IN  /\ req[u].scanning /\ req[u].left # {}
        /\ Continue(u, [req[u] EXCEPT
               !.left  = @ \ {n},
               !.found = IF bus[n] \in Loggers THEN @ \cup {n} ELSE @])
        /\ UNCHANGED <<bus, stores, gone>>

\* Mutant of First: the order of the directory.
FirstName(found) == FirstNamed(found)

\* The found nodes are sorted by number; everyone takes the first.
First(found) == CHOOSE n \in found : \A m \in found : n <= m

Scanned(r) == [r EXCEPT !.scanning = FALSE, !.listed = {}, !.found = {}]

\* Mutant of Take: the list may be empty.
TakeUnasked(u) ==
    LET r == req[u]
    IN  /\ r.scanning /\ r.left = {}
        /\ Proceed(u, [Scanned(r) EXCEPT !.node =
               IF r.found = {} THEN NoNode ELSE First(r.found)])
        /\ UNCHANGED <<bus, stores, gone>>

\* Mutants of Take: pages, or second scans, take the last.
TakeFor(u, last) ==
    LET r == req[u]
        Last == CHOOSE n \in r.found : \A m \in r.found : m <= n
    IN  /\ r.scanning /\ r.left = {}
        /\ IF r.found = {} THEN Over(u, Scanned(r))
           ELSE Proceed(u, [Scanned(r) EXCEPT !.node = IF last THEN Last ELSE First(r.found)])
        /\ UNCHANGED <<bus, stores, gone>>
TakeLastForPages(u) == TakeFor(u, req[u].job \in Views)
TakeLastAgain(u) == TakeFor(u, req[u].k > 1)

\* The scan is over: devs[0], if there is any.
Take(u) ==
    LET r == req[u]
    IN  /\ r.scanning /\ r.left = {}
        /\ IF r.found = {} THEN Over(u, Scanned(r))
           ELSE Proceed(u, [Scanned(r) EXCEPT !.node = First(r.found)])
        /\ UNCHANGED <<bus, stores, gone>>

-----------------------------------------------------------------------------
(* The other calls, each opening the node anew *)

\* The logger at the node: a device of another kind gives no answer.
Reached(u) == IF bus[req[u].node] \in Loggers THEN bus[req[u].node] ELSE Nobody

\* Is the count one to ask about.
Asks(r, count) == count > 0 /\ r.agreed \notin {AnyCount, count}

\* Info, with which an order goes on, asks or gives up.
Info(u) ==
    LET d == Reached(u)
        r == [req[u] EXCEPT !.info = d, !.count = stores[d]]
    IN  /\ Calls(u, "info")
        /\ IF d = Nobody THEN Over(u, req[u])
           ELSE IF r.job \notin Views /\ Asks(r, stores[d])
                THEN Over(u, [r EXCEPT !.prompt = r.job])
           ELSE IF r.job \in Views THEN Proceed(u, r)
           ELSE Proceed(u, [req[u] EXCEPT !.count =
                    IF r.job = "command" THEN r.agreed ELSE stores[d]])
        /\ UNCHANGED <<bus, stores, gone>>

\* The device page asks for none when there are none.
Records(u) ==
    /\ Calls(u, "records")
    /\ IF Reached(u) = Nobody \/ (req[u].job = "device" /\ req[u].count = 0)
       THEN Over(u, req[u])
       ELSE Proceed(u, [req[u] EXCEPT !.recs = Reached(u)])
    /\ UNCHANGED <<bus, stores, gone>>

\* Mutant of Admitted: the count is not compared.
AdmittedUncounted(u) == Reached(u) # Nobody

\* Configure compares the count it is given with the one it finds.
Admitted(u) == Reached(u) # Nobody /\ stores[Reached(u)] \in {0, req[u].count}

Configure(u) ==
    /\ Calls(u, "configure")
    /\ IF Admitted(u)
       THEN /\ stores' = [stores EXCEPT ![Reached(u)] = 0]
            /\ Proceed(u, req[u])
       ELSE Over(u, req[u]) /\ UNCHANGED stores
    /\ UNCHANGED <<bus, gone>>

\* It then opens the node once more to read the settings back, and whatever
\* that says, is over.
Reopen(u) ==
    /\ Calls(u, "reopen")
    /\ Over(u, req[u])
    /\ UNCHANGED <<bus, stores, gone>>

\* A scan or a call returns an error.
Fail(u) ==
    /\ Running(u) /\ ~req[u].scanning
    /\ Over(u, req[u])
    /\ UNCHANGED <<bus, stores, gone>>

Handle(u) ==
    List(u) \/ ReadEntry(u) \/ Take(u) \/ Info(u) \/ Records(u) \/ Configure(u) \/ Reopen(u)

-----------------------------------------------------------------------------
(* Devices *)

\* The least node of a logger, and the logger there, if there is any.
LeastNodes ==
    {n \in Nodes : bus[n] \in Loggers /\ \A m \in Nodes : bus[m] \in Loggers => n <= m}
Firsts == {bus[n] : n \in LeastNodes}

\* It is calm as long as they are the same: other nodes do not matter.
Disturbed ==
    calm' = [u \in Users |-> calm[u] /\ LeastNodes' = LeastNodes /\ Firsts' = Firsts]

Plug(n) ==
    \E d \in Loggers \cup Others :
        /\ bus[n] = Nobody /\ \A m \in Nodes : bus[m] # d
        /\ bus' = [bus EXCEPT ![n] = d]
        /\ Disturbed
        /\ UNCHANGED <<stores, req, page, gone>>

Unplug(n) ==
    /\ bus[n] # Nobody
    /\ bus' = [bus EXCEPT ![n] = Nobody]
    /\ gone' = [u \in Users |-> IF req[u].scanning THEN gone[u] \cup {n} ELSE {}]
    /\ Disturbed
    /\ UNCHANGED <<stores, req, page>>

Record(d) ==
    /\ \A n \in Nodes : bus[n] # d
    /\ stores[d] < MaxStore
    /\ stores' = [stores EXCEPT ![d] = @ + 1]
    /\ UNCHANGED <<bus, req, page, gone, calm>>

-----------------------------------------------------------------------------
Init ==
    /\ bus = [n \in Nodes |-> Nobody]
    /\ stores \in [Loggers -> 0..MaxStore]
    /\ req = [u \in Users |-> Idle]
    /\ page = [u \in Users |-> Blank]
    /\ gone = [u \in Users |-> {}]
    /\ calm = [u \in Users |-> FALSE]

Next ==
    \/ \E u \in Users : Press(u) \/ Confirm(u) \/ Handle(u) \/ Fail(u)
    \/ \E n \in Nodes : Plug(n) \/ Unplug(n)
    \/ \E d \in Loggers : Record(d)

Spec == Init /\ [][Next]_vars

\* Every call of the Service returns (EveryCallReturns of module Logger).
FairSpec == Spec /\ \A u \in Users : WF_vars(Handle(u))

-----------------------------------------------------------------------------
(* Properties *)

\* Variables have their types; a command never agrees to just any count, and
\* no call is made without a node.
TypeOK ==
    /\ bus \in [Nodes -> Loggers \cup Others \cup {Nobody}]
    /\ stores \in [Loggers -> 0..MaxStore]
    /\ req \in [Users -> Requests]
    /\ page \in [Users -> Pages]
    /\ gone \in [Users -> SUBSET Nodes]
    /\ calm \in [Users -> BOOLEAN]
    /\ \A u \in Users :
           /\ req[u].job = "command" => req[u].agreed # AnyCount
           /\ Running(u) /\ ~Calls(u, "find") => req[u].node \in Nodes

\* Whatever comes and goes during a scan: the node that is taken is a
\* logger's, and no logger that was there from the beginning has a lower
\* number, unless it was unplugged meanwhile; a scan that finds none has
\* missed none that stayed.
FirstTaken ==
    [][\A u \in Users :
        req[u].scanning /\ ~req'[u].scanning =>
            LET n == req'[u].node
                stayed == req[u].listed \ gone[u]
            IN  IF req[u].found = {} THEN stayed = {}
                ELSE /\ n \in gone[u] \/ bus[n] \in Loggers
                     /\ \A m \in stayed : n <= m]_vars

\* While the same logger comes first, whatever else comes and goes during the
\* scans and between them: a page speaks of one logger, although it looks for
\* it twice and opens it twice.
PageOfOne ==
    \A u \in Users : req[u].job \in Views /\ calm[u] =>
        /\ Calls(u, "info") /\ req[u].recs # Nobody => Reached(u) = req[u].recs
        /\ Calls(u, "records") /\ req[u].info # Nobody => Reached(u) = req[u].info

Agrees(u) == Calls(u, "configure") /\ req[u].agreed # 0

\* "ErrRecordsPresent means Configure would erase records the caller has not
\* confirmed": who agrees to a prompt erases the logger and the records it
\* was shown.
ErasedAsShown ==
    [][\A u \in Users, d \in Loggers :
        Agrees(u) /\ req'[u] # req[u] /\ stores'[d] < stores[d] /\ page[u].info # Nobody =>
            page[u].info = d /\ page[u].count = stores[d]]_vars

\* The same while one logger comes first from the page to the confirmation,
\* whatever else comes and goes meanwhile, even in the middle of a scan: who is
\* not asked about the logger that is erased, and for its count, had it swapped.
ErasedAsShownCalm ==
    [][\A u \in Users, d \in Loggers :
        Agrees(u) /\ req'[u] # req[u] /\ stores'[d] < stores[d] /\ page[u].info # Nobody
        /\ calm[u] => page[u].info = d /\ page[u].count = stores[d]]_vars

\* Whatever is swapped, plugged or recorded between the calls of a request and
\* between a page and its confirmation: records are lost only to an order whose
\* user agreed to lose records, on the prompt still in view; a command's, only
\* if they are as many as it had printed.  An order that nobody was asked about
\* because Info found an empty logger erases nothing of the one that took its node.
ErasedOnlyAgreed ==
    [][\A d \in Loggers : stores'[d] < stores[d] =>
        \E u \in Users :
            /\ Agrees(u) /\ req'[u] # req[u]
            /\ page[u].prompt = req[u].job
            /\ req[u].job = "command" => page[u].count = stores[d]]_vars

\* Every request ends, however often devices come and go during its scans.
EveryRequestEnds == \A u \in Users : Running(u) ~> ~Running(u)
=============================================================================
