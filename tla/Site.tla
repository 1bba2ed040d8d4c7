-------------------------------- MODULE Site --------------------------------
(***************************************************************************)
(* The web pages of internal/web/web.go and the start command of           *)
(* cmd/elitelog/main.go: what people see, what they press, and what that   *)
(* does to the logger.                                                     *)
(*                                                                         *)
(* A user is a browser tab (or a terminal) with one request at a time; the *)
(* page it shows stays until the next one, however old.  The handlers of   *)
(* different users run concurrently; only the rendering of pages is under  *)
(* the lock site.mu, because lofigui has one buffer for all of them.       *)
(*                                                                         *)
(* Calls of the Service are single steps here, with the outcomes module    *)
(* Logger shows them to have: Configure erases only what was confirmed to  *)
(* it, Info leaves at zero what it could not read.                         *)
(***************************************************************************)
EXTENDS Integers

CONSTANTS
    Users,          \* browser tabs and terminals
    MaxStore,       \* bound: records in the store
    Forms,          \* what people enter on the device page
    Agreed,         \* counts people give to the start command (-confirm)
    Wanted,         \* intervals they give it (-interval), 0 if none
    Factory,        \* settings of the logger as it is first plugged in
    Views,          \* the pages people open, of AllViews
    Faults          \* subset of {"unread", "partial", "error"}

AllViews == {"device", "records", "monitor"}

Parameters == [interval: Nat, immediate: BOOLEAN, button: BOOLEAN, software: BOOLEAN]
FormValues == [minutes: Nat, seconds: Nat, button: BOOLEAN, software: BOOLEAN]

ASSUME SiteAssumption ==
    /\ MaxStore \in Nat
    /\ Forms \subseteq FormValues
    /\ Agreed \subseteq 0..MaxStore
    /\ Wanted \subseteq Nat
    /\ Factory \in Parameters
    /\ Views \subseteq AllViews
    /\ Faults \subseteq {"unread", "partial", "error"}

VARIABLES
    plugged, store, live, saved,    \* the device, as in module Logger
    req,            \* the request a user waits for
    page,           \* the page a user looks at
    holder,         \* who holds site.mu
    buffer          \* whose output is in lofigui's buffer

device == <<plugged, store, live, saved>>
vars   == <<plugged, store, live, saved, req, page, holder, buffer>>

NoOne == "no one"
ASSUME NoOneAssumption == NoOne \notin Users

-----------------------------------------------------------------------------
(* Settings and Info *)

ValidInterval(seconds) == seconds \in 10..86400 /\ seconds % 10 = 0

Seconds(f) == 60 * f.minutes + f.seconds

\* parseInterval()
Parses(f) ==
    /\ f.minutes \in 0..1440
    /\ f.seconds \in 0..59 /\ f.seconds % 10 = 0
    /\ Seconds(f) \in 10..86400

\* Mutant of InfoOf: an unread count is a sentinel.
InfoOfSentinel(seen) ==
    {[ok |-> TRUE, known |-> k, count |-> IF k THEN store ELSE -1,
      interval |-> IF i THEN live.interval ELSE 0,
      button |-> s /\ live.button] :
        k \in seen, i \in seen, s \in seen}

\* Info of a connected logger: for each part, whether it may go unread.
InfoOf(seen) ==
    {[ok |-> TRUE, known |-> k, count |-> IF k THEN store ELSE 0,
      interval |-> IF i THEN live.interval ELSE 0,
      button |-> s /\ live.button] :
        k \in seen, i \in seen, s \in seen}

NoInfo == [ok |-> FALSE, known |-> FALSE, count |-> 0, interval |-> 0, button |-> FALSE]

Infos ==
    IF plugged THEN InfoOf(IF "unread" \in Faults THEN BOOLEAN ELSE {TRUE}) ELSE {}

\* What a page shows of it, as far as it matters.
Shown(i) == [NoInfo EXCEPT !.ok = i.ok]

\* What a call of Info may return, NoInfo standing for an error.
Answers ==
    Infos \cup (IF plugged /\ "error" \notin Faults THEN {} ELSE {NoInfo})

\* The settings that configure() and start() pass on.
SaveSettings(f) ==
    [interval |-> Seconds(f), immediate |-> FALSE,
     button |-> f.button, software |-> f.software]

StartSettings(i) ==
    [interval |-> IF i.interval = 0 THEN 60 ELSE i.interval, immediate |-> TRUE,
     button |-> i.button, software |-> TRUE]

\* The start command takes the interval it is given, or else Info's as it comes.
CommandSettings(wanted, i) ==
    [StartSettings(i) EXCEPT !.interval = IF wanted > 0 THEN wanted ELSE i.interval]

-----------------------------------------------------------------------------
(* Requests and pages *)

InfoParts ==
    [ok: BOOLEAN, known: BOOLEAN, count: 0..MaxStore, interval: Nat, button: BOOLEAN]

Prompts == {"none", "configure", "start"}

Requests ==
    [path: {"none", "configure", "start", "stop", "command"}, confirm: BOOLEAN,
     form: FormValues, agreed: 0..MaxStore, wanted: Nat,
     at: {"idle", "info", "configure", "stop", "read", "lock", "fill", "show"},
     info: InfoParts, set: Parameters, confirmed: 0..MaxStore,
     view: AllViews, prompt: Prompts]

Pages ==
    [view: AllViews \cup {"none"}, controls: BOOLEAN, prompt: Prompts,
     form: FormValues, from: SUBSET Users]

NoForm == [minutes |-> 0, seconds |-> 0, button |-> FALSE, software |-> FALSE]

Idle ==
    [path |-> "none", confirm |-> FALSE, form |-> NoForm, agreed |-> 0, wanted |-> 0,
     at |-> "idle", info |-> NoInfo, set |-> Factory, confirmed |-> 0,
     view |-> "device", prompt |-> "none"]

Blank ==
    [view |-> "none", controls |-> FALSE, prompt |-> "none", form |-> NoForm,
     from |-> {}]

Running(u) == req[u].at # "idle"

Begin(u, r) ==
    /\ ~Running(u)
    /\ req' = [req EXCEPT ![u] = r]
    /\ UNCHANGED <<device, page, holder, buffer>>

\* On to the page that ends the request: the records page reads the device
\* first, the others once they hold the lock.
Viewing(r, view, prompt) ==
    [Idle EXCEPT !.form = IF prompt = "none" THEN NoForm ELSE r.form,
                 !.view = view, !.prompt = prompt,
                 !.at = IF view = "records" THEN "read" ELSE "lock"]

ViewOf(path) == IF path = "configure" THEN "device" ELSE "records"

\* The request is over but for its page; a command has none.
Ending(r) == IF r.path = "command" THEN Idle ELSE Viewing(r, ViewOf(r.path), "none")

-----------------------------------------------------------------------------
(* What people do *)

Get(u) ==
    \E v \in Views : Begin(u, Viewing(Idle, v, "none"))

\* Save settings, from the form of a device page.
PressSave(u) ==
    \E f \in Forms :
        LET r == [Idle EXCEPT !.path = "configure", !.form = f, !.at = "info"]
        IN  /\ page[u].view = "device" /\ page[u].controls
            /\ Begin(u, IF Parses(f) THEN r ELSE Ending(r))

PressStart(u) ==
    /\ page[u].view = "records" /\ page[u].controls
    /\ Begin(u, [Idle EXCEPT !.path = "start", !.at = "info"])

PressStop(u) ==
    /\ page[u].view = "records" /\ page[u].controls
    /\ Begin(u, [Idle EXCEPT !.path = "stop", !.at = "stop"])

\* The prompt posts the form again, with confirm=yes.
PressConfirm(u) ==
    /\ page[u].prompt # "none"
    /\ Begin(u, [Idle EXCEPT !.path = page[u].prompt, !.form = page[u].form,
                             !.confirm = TRUE, !.at = "info"])

\* elitelog start -confirm n -interval w
Command(u) ==
    \E n \in Agreed, w \in Wanted :
        Begin(u, [Idle EXCEPT !.path = "command", !.agreed = n, !.wanted = w,
                              !.at = "info"])

-----------------------------------------------------------------------------
(* The handlers *)

Step(u, r) ==
    /\ req' = [req EXCEPT ![u] = r]
    /\ UNCHANGED <<page, holder, buffer>>

\* Mutant of Asks: starting asks for nothing.
AsksToSave(r, i) == i.count > 0 /\ r.path = "configure" /\ ~r.confirm

\* The pages prompt when there is anything to lose.
Asks(r, i) == i.count > 0 /\ r.path \in {"configure", "start"} /\ ~r.confirm

\* The start command wants the count.
Declines(r, i) == r.path = "command" /\ i.count > 0 /\ r.agreed # i.count

\* What a handler does when it has its Info.
Informed(r, i) ==
    CASE ~i.ok \/ Declines(r, i) -> Ending(r)
      [] i.ok /\ Asks(r, i)      -> Viewing(r, ViewOf(r.path), r.path)
      [] OTHER ->
            [r EXCEPT !.at = "configure",
                      !.set = CASE r.path = "configure" -> SaveSettings(r.form)
                                [] r.path = "start"     -> StartSettings(i)
                                [] OTHER                -> CommandSettings(r.wanted, i),
                      !.confirmed = IF r.path = "command" THEN r.agreed ELSE i.count]

ReadInfo(u) ==
    \E i \in Answers :
        /\ req[u].at = "info"
        /\ Step(u, Informed(req[u], i))
        /\ UNCHANGED device

\* Does Service.Configure get as far as writing.
Admitted(r) == plugged /\ ValidInterval(r.set.interval) /\ store \in {0, r.confirmed}

\* Configure returns an error before it writes.
ConfigureRefused(u) ==
    /\ req[u].at = "configure"
    /\ ~Admitted(req[u]) \/ "error" \in Faults
    /\ Step(u, Ending(req[u]))
    /\ UNCHANGED device

\* It fails at a block: the start byte is in the first, the interval in the
\* second; nothing is erased or made to last.
ConfigureCut(u) ==
    LET set == req[u].set
    IN  /\ req[u].at = "configure" /\ Admitted(req[u]) /\ "partial" \in Faults
        /\ live' \in {set, [set EXCEPT !.interval = live.interval]}
        /\ Step(u, Ending(req[u]))
        /\ UNCHANGED <<plugged, store, saved>>

\* It goes all the way, whatever the read-back then says.
Configured(u) ==
    /\ req[u].at = "configure" /\ Admitted(req[u])
    /\ store' = 0 /\ live' = req[u].set /\ saved' = req[u].set
    /\ Step(u, Ending(req[u]))
    /\ UNCHANGED plugged

\* stop() leaves what it returned to the records page.
Stopped(u) ==
    /\ req[u].at = "stop"
    /\ Step(u, Ending(req[u]))
    /\ UNCHANGED device

\* The records may have come and Info failed, which recordsPage() ignores.
RecordsAlone ==
    IF plugged /\ "error" \in Faults THEN {[NoInfo EXCEPT !.ok = TRUE]} ELSE {}

\* recordsPage() reads records and Info before it takes the lock.
ReadRecords(u) ==
    \E i \in Answers \cup RecordsAlone :
        /\ req[u].at = "read"
        /\ Step(u, [req[u] EXCEPT !.info = Shown(i), !.at = "lock"])
        /\ UNCHANGED device

-----------------------------------------------------------------------------
(* Rendering *)

\* Mutant of Lock: the lock is not taken.
LockNot(u) ==
    /\ req[u].at = "lock"
    /\ UNCHANGED holder
    /\ buffer' = {}
    /\ req' = [req EXCEPT ![u].at = "fill"]
    /\ UNCHANGED <<device, page>>

\* renderRefreshing() takes the lock and resets the buffer.
Lock(u) ==
    /\ req[u].at = "lock" /\ holder = NoOne
    /\ holder' = u
    /\ buffer' = {}
    /\ req' = [req EXCEPT ![u].at = "fill"]
    /\ UNCHANGED <<device, page>>

\* The page writes into the buffer; home() and monitor() talk to the logger
\* while they do.
Fill(u) ==
    \E i \in IF req[u].view = "records" THEN {req[u].info} ELSE Answers :
        /\ req[u].at = "fill"
        /\ buffer' = buffer \cup {u}
        /\ req' = [req EXCEPT ![u].info = Shown(i), ![u].at = "show"]
        /\ UNCHANGED <<device, page, holder>>

Showing(r) ==
    [view |-> r.view, controls |-> r.info.ok /\ r.view # "monitor",
     prompt |-> r.prompt, form |-> r.form, from |-> buffer]

\* Mutant of Show: the lock is kept when there was no logger to show.
ShowKeeping(u) ==
    /\ req[u].at = "show"
    /\ page' = [page EXCEPT ![u] = Showing(req[u])]
    /\ holder' = IF req[u].info.ok THEN NoOne ELSE holder
    /\ req' = [req EXCEPT ![u] = Idle]
    /\ UNCHANGED <<device, buffer>>

\* What is in the buffer goes out, and the deferred unlock runs.
Show(u) ==
    /\ req[u].at = "show"
    /\ page' = [page EXCEPT ![u] = Showing(req[u])]
    /\ holder' = NoOne
    /\ req' = [req EXCEPT ![u] = Idle]
    /\ UNCHANGED <<device, buffer>>

Press(u) ==
    Get(u) \/ PressSave(u) \/ PressStart(u) \/ PressStop(u) \/ PressConfirm(u) \/ Command(u)

Handle(u) ==
    \/ ReadInfo(u) \/ ConfigureRefused(u) \/ ConfigureCut(u) \/ Configured(u)
    \/ Stopped(u) \/ ReadRecords(u) \/ Fill(u) \/ Show(u)

-----------------------------------------------------------------------------
(* The logger *)

Unplug ==
    /\ plugged /\ plugged' = FALSE
    /\ UNCHANGED <<store, live, saved, req, page, holder, buffer>>

Record ==
    /\ ~plugged /\ store < MaxStore /\ store' = store + 1
    /\ UNCHANGED <<plugged, live, saved, req, page, holder, buffer>>

Replug ==
    /\ ~plugged /\ plugged' = TRUE /\ live' = saved
    /\ UNCHANGED <<store, saved, req, page, holder, buffer>>

-----------------------------------------------------------------------------
Init ==
    /\ plugged = TRUE
    /\ store \in 0..MaxStore
    /\ live = Factory /\ saved = Factory
    /\ req = [u \in Users |-> Idle]
    /\ page = [u \in Users |-> Blank]
    /\ holder = NoOne
    /\ buffer = {}

Next ==
    \/ Unplug \/ Record \/ Replug
    \/ \E u \in Users : Press(u) \/ Handle(u) \/ Lock(u)

\* Calls of the Service return (EveryCallReturns of module Logger), and a
\* sync.Mutex does not let a goroutine starve.
Fairness == \A u \in Users : WF_vars(Handle(u)) /\ SF_vars(Lock(u))

Spec == Init /\ [][Next]_vars

FairSpec == Spec /\ Fairness

-----------------------------------------------------------------------------
(* Properties *)

\* Variables have their types; in particular a count that is shown, confirmed or
\* given to Configure is one that the store can have.
TypeOK ==
    /\ plugged \in BOOLEAN
    /\ store \in 0..MaxStore
    /\ live \in Parameters
    /\ saved \in Parameters
    /\ req \in [Users -> Requests]
    /\ page \in [Users -> Pages]
    /\ holder \in Users \cup {NoOne}
    /\ buffer \subseteq Users

\* Records are erased only for someone who was asked: who confirmed on a page
\* that prompted for it, or gave the start command their exact number.  Neither
\* a count that could not be read nor records made after a handler's Info slip
\* past the prompt.
NothingErasedUnasked ==
    [][store' < store =>
        \E u \in Users :
            /\ req[u].at = "configure" /\ req'[u].at # "configure"
            /\ req[u].confirm \/ (req[u].path = "command" /\ req[u].agreed = store)]_vars

\* A page holds the output of its own request, although all requests write to
\* one buffer ("lofigui's buffer is global").
OwnPage ==
    \A u \in Users : page[u].view # "none" => page[u].from = {u}

\* Every request is answered, whoever else waits for the logger or the lock.
EveryRequestAnswered ==
    \A u \in Users : Running(u) ~> ~Running(u)

\* "Starting keeps the current interval and stop settings."
StartKeeps ==
    [][\A u \in Users :
        req[u].path = "start" /\ req[u].at = "configure" /\ saved' # saved =>
            /\ saved'.interval = live.interval
            /\ saved'.button = live.button
            /\ saved'.software = live.software]_vars
=============================================================================
