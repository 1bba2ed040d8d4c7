----------------------------- MODULE SiteProofs -----------------------------
(***************************************************************************)
(* Proofs about module Site, for any users, forms, bounds and faults:      *)
(*   - TypeOK is an invariant (SiteTypes);                                 *)
(*   - so is OwnPage (PagesAreOwn);                                        *)
(*   - nothing is erased unasked (ErasingIsAskedFor);                      *)
(*   - every step of a request brings it nearer to its end                 *)
(*     (EveryRequestAdvances), and none waits for one that does not get on *)
(*     (LockIsGivenBack).                                                  *)
(***************************************************************************)
EXTENDS Site, TLAPS

(* Types of the operators *)

\* What Info returns has its type, its count the store's or 0.
LEMMA AnswersType ==
  ASSUME TypeOK, NEW i \in Answers PROVE i \in InfoParts
  <1>1. NoInfo \in InfoParts
    BY SiteAssumption DEF NoInfo, InfoParts
  <1>2. ASSUME NEW seen \in SUBSET BOOLEAN, NEW j \in InfoOf(seen) PROVE j \in InfoParts
    <2>1. PICK k \in seen, n \in seen, s \in seen :
             j = [ok |-> TRUE, known |-> k, count |-> IF k THEN store ELSE 0,
                  interval |-> IF n THEN live.interval ELSE 0,
                  button |-> s /\ live.button]
      BY DEF InfoOf
    <2>2. (IF k THEN store ELSE 0) \in 0..MaxStore
      BY SiteAssumption DEF TypeOK
    <2>3. (IF n THEN live.interval ELSE 0) \in Nat
      BY DEF TypeOK, Parameters
    <2>4. k \in BOOLEAN /\ (s /\ live.button) \in BOOLEAN /\ TRUE \in BOOLEAN
      BY ZenonT(10)
    <2> QED BY <2>1, <2>2, <2>3, <2>4 DEF InfoParts
  <1>3. ASSUME i \in Infos PROVE i \in InfoParts
    BY <1>2, <1>3 DEF Infos
  <1> QED BY <1>1, <1>3 DEF Answers

\* So has what a page shows of it.
LEMMA ShownType ==
  ASSUME NEW i \in InfoParts PROVE Shown(i) \in InfoParts
  <1>1. NoInfo \in InfoParts
    BY SiteAssumption DEF NoInfo, InfoParts
  <1>2. i.ok \in BOOLEAN
    BY DEF InfoParts
  <1>3. ASSUME NEW o \in BOOLEAN PROVE [NoInfo EXCEPT !.ok = o] \in InfoParts
    BY <1>1 DEF InfoParts
  <1> QED BY <1>2, <1>3 DEF Shown

\* A rendering request takes what it read and goes to its next step.
LEMMA RenderingType ==
  ASSUME NEW r \in Requests, NEW i \in InfoParts, NEW a \in {"lock", "show"}
  PROVE  /\ [r EXCEPT !.info = i, !.at = a] \in Requests
         /\ [r EXCEPT !.info = i, !.at = a].at = a
  <1>1. ASSUME NEW q \in Requests PROVE [q EXCEPT !.at = a] \in Requests /\ [q EXCEPT !.at = a].at = a
    BY DEF Requests
  <1>2. [r EXCEPT !.info = i] \in Requests
    BY DEF Requests
  <1> QED BY <1>1, <1>2

\* A user without a request has a well-typed one.
LEMMA IdleType == NoForm \in FormValues /\ Idle \in Requests
  <1>1. NoForm \in FormValues
    BY DEF NoForm, FormValues
  <1>2. NoInfo \in InfoParts
    BY SiteAssumption DEF NoInfo, InfoParts
  <1> QED BY <1>1, <1>2, SiteAssumption DEF Idle, Requests, AllViews, Prompts

\* So has one who waits for a page.
LEMMA ViewingType ==
  ASSUME NEW r \in Requests, NEW v \in AllViews, NEW p \in Prompts
  PROVE  Viewing(r, v, p) \in Requests
  <1>1. r.form \in FormValues
    BY DEF Requests
  <1> QED BY <1>1, IdleType DEF Viewing, Requests

\* So has one whose call is over.
LEMMA EndingType ==
  ASSUME NEW r \in Requests PROVE Ending(r) \in Requests
  BY ViewingType, IdleType DEF Ending, ViewOf, AllViews, Prompts

\* What is passed to Configure is settings.
LEMMA SettingsType ==
  /\ \A f \in FormValues : SaveSettings(f) \in Parameters
  /\ \A i \in InfoParts :
        /\ StartSettings(i) \in Parameters
        /\ \A w \in Nat : CommandSettings(w, i) \in Parameters
  <1>1. ASSUME NEW f \in FormValues PROVE SaveSettings(f) \in Parameters
    <2>1. Seconds(f) \in Nat /\ f.button \in BOOLEAN /\ f.software \in BOOLEAN
      BY DEF FormValues, Seconds
    <2> QED BY <2>1 DEF SaveSettings, Parameters
  <1>2. ASSUME NEW i \in InfoParts
        PROVE  /\ StartSettings(i) \in Parameters
               /\ \A w \in Nat : CommandSettings(w, i) \in Parameters
    <2>1. i.interval \in Nat /\ i.button \in BOOLEAN
      BY DEF InfoParts
    <2>2. StartSettings(i) \in Parameters
      BY <2>1 DEF StartSettings, Parameters
    <2> QED BY <2>1, <2>2 DEF CommandSettings, Parameters
  <1> QED BY <1>1, <1>2

\* So has one that has its Info.
LEMMA InformedType ==
  ASSUME NEW r \in Requests, NEW i \in InfoParts PROVE Informed(r, i) \in Requests
  <1>1. ASSUME NEW s \in Parameters, NEW n \in 0..MaxStore
        PROVE  [r EXCEPT !.at = "configure", !.set = s, !.confirmed = n] \in Requests
    BY DEF Requests
  <1>2. /\ r.form \in FormValues /\ r.agreed \in 0..MaxStore /\ i.count \in 0..MaxStore
        /\ r.wanted \in Nat
    BY DEF Requests, InfoParts
  <1>3. CASE ~i.ok \/ Declines(r, i)
    BY <1>3, EndingType DEF Informed, Declines, Asks
  <1>4. CASE i.ok /\ ~Declines(r, i) /\ Asks(r, i)
    <2>1. ViewOf(r.path) \in AllViews /\ r.path \in Prompts
      BY <1>4 DEF ViewOf, AllViews, Prompts, Asks
    <2>2. Informed(r, i) = Viewing(r, ViewOf(r.path), r.path)
      BY <1>4 DEF Informed
    <2> QED BY <2>1, <2>2, ViewingType
  <1>5. CASE i.ok /\ ~Declines(r, i) /\ ~Asks(r, i)
    <2> DEFINE s == CASE r.path = "configure" -> SaveSettings(r.form)
                      [] r.path = "start"     -> StartSettings(i)
                      [] OTHER                -> CommandSettings(r.wanted, i)
               n == IF r.path = "command" THEN r.agreed ELSE i.count
    <2>1. s \in Parameters
      BY <1>2, SettingsType
    <2>2. n \in 0..MaxStore
      BY <1>2
    <2>3. Informed(r, i) = [r EXCEPT !.at = "configure", !.set = s, !.confirmed = n]
      BY <1>5 DEF Informed
    <2> HIDE DEF s, n
    <2> QED BY <2>1, <2>2, <2>3, <1>1
  <1> QED BY <1>3, <1>4, <1>5

-----------------------------------------------------------------------------
(* What a step makes of its user's request *)

Rendering == {"fill", "show"}
Configuring == {"configure", "start", "command"}

\* Someone agreed to what the request is about to confirm.
Consent(r) ==
    r.confirm \/ r.confirmed = 0 \/ (r.path = "command" /\ r.agreed = r.confirmed)

\* The request of u becomes r, away from the buffer.
Moves(u, r) ==
    /\ req' = [req EXCEPT ![u] = r]
    /\ req[u].at \notin Rendering /\ r.at \notin Rendering
    /\ r.at = "info" => r.path \in Configuring
    /\ r.at = "configure" => Consent(r) /\ req[u].at # "configure"
    /\ UNCHANGED <<page, holder, buffer>>

Elsewhere(u) == \E r \in Requests : Moves(u, r)

\* The pages that requests end on are made later.
LEMMA EndingAt ==
  ASSUME NEW r
  PROVE  Ending(r).at \in {"idle", "read", "lock"}
         /\ \A v, p : Viewing(r, v, p).at \in {"read", "lock"}
  BY DEF Ending, Viewing, Idle

\* A handler that has its Info goes on to Configure with consent, or not at all.
LEMMA InformedAt ==
  ASSUME NEW r \in Requests, r.path \in Configuring, NEW i \in InfoParts
  PROVE  /\ Informed(r, i).at \notin Rendering \cup {"info"}
         /\ Informed(r, i).at = "configure" => Consent(Informed(r, i))
  <1>1. CASE ~i.ok \/ Declines(r, i)
    BY <1>1, EndingAt DEF Informed, Declines, Asks, Rendering
  <1>2. CASE i.ok /\ ~Declines(r, i) /\ Asks(r, i)
    BY <1>2, EndingAt DEF Informed, Rendering
  <1>3. CASE i.ok /\ ~Declines(r, i) /\ ~Asks(r, i)
    <2> DEFINE n == IF r.path = "command" THEN r.agreed ELSE i.count
               q == Informed(r, i)
    <2>1. /\ q.at = "configure" /\ q.confirmed = n
          /\ q.confirm = r.confirm /\ q.path = r.path /\ q.agreed = r.agreed
      BY <1>3 DEF Informed, Requests
    <2>2. CASE r.path = "command"
      BY <2>1, <2>2 DEF Consent, Rendering
    <2>3. CASE r.path # "command" /\ i.count = 0
      BY <2>1, <2>3 DEF Consent, Rendering
    <2>4. CASE r.path # "command" /\ i.count # 0
      <3>1. r.confirm
        BY <1>3, <2>4 DEF Asks, InfoParts, Configuring
      <3> QED BY <2>1, <3>1 DEF Consent, Rendering
    <2> QED BY <2>1, <2>2, <2>3, <2>4
  <1> QED BY <1>1, <1>2, <1>3

\* A press of a button begins a request that is not yet at its page.
LEMMA PressMoves ==
  ASSUME TypeOK, NEW u \in Users, Press(u)
  PROVE  Elsewhere(u) /\ UNCHANGED device
  <1>1. ASSUME NEW r \in Requests, Begin(u, r), r.at \notin Rendering \cup {"configure"},
               r.at = "info" => r.path \in Configuring
        PROVE  Elsewhere(u) /\ UNCHANGED device
    BY <1>1 DEF Begin, Running, Elsewhere, Moves, Rendering
  <1>2. Idle \in Requests /\ Idle.at = "idle"
    BY IdleType DEF Idle
  <1>get. CASE Get(u)
    <2>1. PICK v \in Views : Begin(u, Viewing(Idle, v, "none"))
      BY <1>get DEF Get
    <2>2. Viewing(Idle, v, "none") \in Requests
      BY <1>2, ViewingType, SiteAssumption DEF Prompts
    <2> QED BY <1>1, <2>1, <2>2, EndingAt DEF Rendering
  <1>save. CASE PressSave(u)
    <2>1. PICK f \in Forms :
             Begin(u, IF Parses(f)
                      THEN [Idle EXCEPT !.path = "configure", !.form = f, !.at = "info"]
                      ELSE Ending([Idle EXCEPT !.path = "configure", !.form = f, !.at = "info"]))
      BY <1>save DEF PressSave
    <2> DEFINE r == [Idle EXCEPT !.path = "configure", !.form = f, !.at = "info"]
    <2>2. r \in Requests /\ r.at = "info" /\ r.path = "configure"
      BY <1>2, SiteAssumption DEF Requests
    <2> HIDE DEF r
    <2>3. Ending(r) \in Requests /\ Ending(r).at \in {"idle", "read", "lock"}
      BY <2>2, EndingType, EndingAt
    <2>4. Begin(u, r) \/ Begin(u, Ending(r))
      BY <2>1 DEF r
    <2> QED BY <1>1, <2>2, <2>3, <2>4 DEF Rendering, Configuring
  <1>start. CASE PressStart(u)
    <2> DEFINE r == [Idle EXCEPT !.path = "start", !.at = "info"]
    <2>1. r \in Requests /\ r.at = "info" /\ r.path = "start"
      BY <1>2 DEF Requests
    <2>2. Begin(u, r)
      BY <1>start DEF PressStart
    <2> HIDE DEF r
    <2> QED BY <1>1, <2>1, <2>2 DEF Rendering, Configuring
  <1>stop. CASE PressStop(u)
    <2> DEFINE r == [Idle EXCEPT !.path = "stop", !.at = "stop"]
    <2>1. r \in Requests /\ r.at = "stop"
      BY <1>2 DEF Requests
    <2>2. Begin(u, r)
      BY <1>stop DEF PressStop
    <2> HIDE DEF r
    <2> QED BY <1>1, <2>1, <2>2 DEF Rendering
  <1>confirm. CASE PressConfirm(u)
    <2> DEFINE r == [Idle EXCEPT !.path = page[u].prompt, !.form = page[u].form,
                                 !.confirm = TRUE, !.at = "info"]
    <2>1. /\ page[u].prompt \in {"configure", "start"} /\ page[u].form \in FormValues
      BY <1>confirm DEF PressConfirm, TypeOK, Pages, Prompts
    <2>2. r \in Requests /\ r.at = "info" /\ r.path \in {"configure", "start"}
      BY <1>2, <2>1 DEF Requests
    <2>3. Begin(u, r)
      BY <1>confirm DEF PressConfirm
    <2> HIDE DEF r
    <2> QED BY <1>1, <2>2, <2>3 DEF Rendering, Configuring
  <1>command. CASE Command(u)
    <2>1. PICK n \in Agreed, w \in Wanted :
             Begin(u, [Idle EXCEPT !.path = "command", !.agreed = n, !.wanted = w,
                                   !.at = "info"])
      BY <1>command DEF Command
    <2> DEFINE r == [Idle EXCEPT !.path = "command", !.agreed = n, !.wanted = w,
                             !.at = "info"]
    <2>2. r \in Requests /\ r.at = "info" /\ r.path = "command"
      BY <1>2, SiteAssumption DEF Requests
    <2>3. Begin(u, r)
      BY <2>1
    <2> HIDE DEF r
    <2> QED BY <1>1, <2>2, <2>3 DEF Rendering, Configuring
  <1> QED BY <1>get, <1>save, <1>start, <1>stop, <1>confirm, <1>command DEF Press

\* Where a request stands that has no page yet: one that waits for Info will
\* configure, and one that has had its Info has consent.
Underway ==
    \A u \in Users :
        /\ req[u].at = "info" => req[u].path \in Configuring
        /\ req[u].at = "configure" => Consent(req[u])

\* A handler away from the buffer; only Configure touches the device.
LEMMA HandlerMoves ==
  ASSUME TypeOK, Underway, NEW u \in Users,
         \/ ReadInfo(u) \/ ConfigureRefused(u) \/ ConfigureCut(u) \/ Configured(u)
         \/ Stopped(u) \/ ReadRecords(u)
  PROVE  Elsewhere(u) /\ live' \in Parameters
  <1>1. req[u] \in Requests /\ live \in Parameters /\ req[u].set \in Parameters
    BY DEF TypeOK, Requests
  <1>2. ASSUME Step(u, Ending(req[u])), req[u].at \in {"configure", "stop"}
        PROVE  Elsewhere(u)
    <2>1. Ending(req[u]) \in Requests /\ Ending(req[u]).at \in {"idle", "read", "lock"}
      BY <1>1, EndingType, EndingAt
    <2> QED BY <1>2, <2>1 DEF Step, Elsewhere, Moves, Rendering
  <1>info. CASE ReadInfo(u)
    <2>1. PICK i \in Answers :
             req[u].at = "info" /\ Step(u, Informed(req[u], i)) /\ UNCHANGED device
      BY <1>info DEF ReadInfo
    <2>2. i \in InfoParts /\ req[u].path \in Configuring
      BY <2>1, AnswersType DEF Underway
    <2> DEFINE r == Informed(req[u], i)
    <2>3. /\ r \in Requests /\ r.at \notin Rendering \cup {"info"}
          /\ r.at = "configure" => Consent(r)
      BY <1>1, <2>2, InformedType, InformedAt
    <2>4. Step(u, r)
      BY <2>1
    <2> HIDE DEF r
    <2>5. Elsewhere(u)
      BY <2>1, <2>3, <2>4 DEF Step, Elsewhere, Moves, Rendering
    <2> QED BY <1>1, <2>1, <2>5 DEF device
  <1>refused. CASE ConfigureRefused(u)
    BY <1>1, <1>2, <1>refused DEF ConfigureRefused, device
  <1>cut. CASE ConfigureCut(u)
    <2>1. [req[u].set EXCEPT !.interval = live.interval] \in Parameters
      BY <1>1 DEF Parameters
    <2> QED BY <1>1, <1>2, <1>cut, <2>1 DEF ConfigureCut
  <1>configured. CASE Configured(u)
    BY <1>1, <1>2, <1>configured DEF Configured
  <1>stopped. CASE Stopped(u)
    BY <1>1, <1>2, <1>stopped DEF Stopped, device
  <1>records. CASE ReadRecords(u)
    <2>1. PICK i \in Answers \cup RecordsAlone :
             /\ req[u].at = "read" /\ UNCHANGED device
             /\ Step(u, [req[u] EXCEPT !.info = Shown(i), !.at = "lock"])
      BY <1>records DEF ReadRecords
    <2>2. Shown(i) \in InfoParts
      <3>1. NoInfo \in InfoParts
        BY SiteAssumption DEF NoInfo, InfoParts
      <3>2. [NoInfo EXCEPT !.ok = TRUE] \in InfoParts
        BY <3>1 DEF InfoParts
      <3> QED BY <3>2, AnswersType, ShownType DEF RecordsAlone
    <2> DEFINE r == [req[u] EXCEPT !.info = Shown(i), !.at = "lock"]
    <2>3. r \in Requests /\ r.at = "lock"
      <3>1. req[u] \in Requests
        BY <1>1
      <3> QED BY <2>2, <3>1, RenderingType
    <2>4. Step(u, r)
      BY <2>1
    <2> HIDE DEF r
    <2>5. Elsewhere(u)
      BY <2>1, <2>3, <2>4 DEF Step, Elsewhere, Moves, Rendering
    <2> QED BY <1>1, <2>1, <2>5 DEF device
  <1> QED
    BY <1>info, <1>refused, <1>cut, <1>configured, <1>stopped, <1>records

-----------------------------------------------------------------------------
(* The buffer *)

\* The lock is held while a page is made, and the buffer holds what its maker
\* has written into it.
Exclusive ==
    \A u \in Users :
        /\ req[u].at \in Rendering => holder = u
        /\ req[u].at = "fill" => buffer = {}
        /\ req[u].at = "show" => buffer = {u}

SiteInv == TypeOK /\ Underway /\ Exclusive /\ OwnPage

\* Away from the buffer everything stays as it was for the others.
LEMMA ElsewhereKeeps ==
  ASSUME SiteInv, NEW u \in Users, Elsewhere(u),
         plugged' \in BOOLEAN, store' \in 0..MaxStore,
         live' \in Parameters, saved' \in Parameters
  PROVE  SiteInv'
  <1>1. PICK r \in Requests : Moves(u, r)
    BY DEF Elsewhere
  <1>2. /\ req \in [Users -> Requests] /\ req' = [req EXCEPT ![u] = r]
        /\ UNCHANGED <<page, holder, buffer>>
    BY <1>1 DEF Moves, SiteInv, TypeOK
  <1>3. TypeOK'
    BY <1>2 DEF SiteInv, TypeOK
  <1>4. \A v \in Users : req'[v] = IF v = u THEN r ELSE req[v]
    BY <1>2
  <1>5. Underway'
    BY <1>1, <1>4 DEF SiteInv, Underway, Moves, Consent, Configuring
  <1>6. Exclusive'
    BY <1>1, <1>2, <1>4 DEF SiteInv, Exclusive, Moves, Rendering
  <1>7. OwnPage'
    BY <1>2 DEF SiteInv, OwnPage
  <1> QED BY <1>3, <1>5, <1>6, <1>7 DEF SiteInv

\* Making a page: the lock, the content, the way out.
LEMMA LockKeeps ==
  ASSUME SiteInv, NEW u \in Users, Lock(u)
  PROVE  SiteInv'
  <1>1. req \in [Users -> Requests] /\ holder = NoOne /\ NoOne \notin Users
    BY NoOneAssumption DEF SiteInv, TypeOK, Lock
  <1>2. \A v \in Users : req[v].at \notin Rendering
    BY <1>1 DEF SiteInv, Exclusive
  <1> DEFINE r == [req[u] EXCEPT !.at = "fill"]
  <1>3. req' = [req EXCEPT ![u] = r]
    BY DEF Lock
  <1>4. r \in Requests /\ r.at = "fill"
    BY <1>1 DEF Requests
  <1> HIDE DEF r
  <1>5. \A v \in Users : req'[v] = IF v = u THEN r ELSE req[v]
    BY <1>1, <1>3
  <1>6. TypeOK'
    BY <1>1, <1>3, <1>4 DEF SiteInv, TypeOK, Lock, device
  <1>7. Underway'
    BY <1>4, <1>5 DEF SiteInv, Underway, Consent
  <1>8. Exclusive'
    BY <1>2, <1>4, <1>5 DEF Lock, Exclusive, Rendering
  <1>9. OwnPage'
    BY DEF SiteInv, OwnPage, Lock
  <1> QED BY <1>6, <1>7, <1>8, <1>9 DEF SiteInv

\* The lock's holder writes.
LEMMA FillKeeps ==
  ASSUME SiteInv, NEW u \in Users, Fill(u)
  PROVE  SiteInv'
  <1>1. req \in [Users -> Requests] /\ req[u].at = "fill" /\ NoOne \notin Users
    BY NoOneAssumption DEF SiteInv, TypeOK, Fill
  <1>2. holder = u /\ buffer = {} /\ \A v \in Users : req[v].at \in Rendering => v = u
    BY <1>1 DEF SiteInv, Exclusive, Rendering
  <1>3. PICK i \in InfoParts :
           /\ buffer' = buffer \cup {u}
           /\ req' = [req EXCEPT ![u].info = Shown(i), ![u].at = "show"]
           /\ UNCHANGED <<device, page, holder>>
    <2>1. req[u].info \in InfoParts
      BY <1>1 DEF Requests
    <2> QED BY <2>1, AnswersType DEF Fill, SiteInv
  <1> DEFINE r == [req[u] EXCEPT !.info = Shown(i), !.at = "show"]
  <1>4. req' = [req EXCEPT ![u] = r]
    BY <1>1, <1>3
  <1>5. r \in Requests /\ r.at = "show"
    <2>1. Shown(i) \in InfoParts /\ req[u] \in Requests
      BY <1>1, ShownType
    <2> QED BY <2>1, RenderingType
  <1> HIDE DEF r
  <1>6. \A v \in Users : req'[v] = IF v = u THEN r ELSE req[v]
    BY <1>1, <1>4
  <1>7. TypeOK'
    BY <1>1, <1>3, <1>4, <1>5 DEF SiteInv, TypeOK, device
  <1>8. Underway'
    BY <1>5, <1>6 DEF SiteInv, Underway, Consent
  <1>9. Exclusive'
    BY <1>2, <1>3, <1>5, <1>6 DEF Exclusive, Rendering
  <1>10. OwnPage'
    BY <1>3 DEF SiteInv, OwnPage
  <1> QED BY <1>7, <1>8, <1>9, <1>10 DEF SiteInv

\* What goes out is what the holder has written.
LEMMA ShowKeeps ==
  ASSUME SiteInv, NEW u \in Users, Show(u)
  PROVE  SiteInv'
  <1>1. /\ req \in [Users -> Requests] /\ page \in [Users -> Pages]
        /\ req[u] \in Requests /\ req[u].at = "show"
    BY DEF SiteInv, TypeOK, Show
  <1>2. holder = u /\ buffer = {u} /\ \A v \in Users : req[v].at \in Rendering => v = u
    BY <1>1 DEF SiteInv, Exclusive, Rendering
  <1>3. /\ page' = [page EXCEPT ![u] = Showing(req[u])]
        /\ holder' = NoOne /\ req' = [req EXCEPT ![u] = Idle]
        /\ UNCHANGED <<device, buffer>>
    BY DEF Show
  <1>4. Showing(req[u]) \in Pages /\ Showing(req[u]).from = {u}
    <2>1. (req[u].info.ok /\ req[u].view # "monitor") \in BOOLEAN
      BY ZenonT(10)
    <2>2. /\ req[u].view \in AllViews /\ req[u].prompt \in Prompts
          /\ req[u].form \in FormValues /\ req[u].info.count \in 0..MaxStore
          /\ buffer \in SUBSET Users
      BY <1>1, <1>2 DEF Requests, InfoParts
    <2> QED BY <1>2, <2>1, <2>2 DEF Showing, Pages
  <1>5. Idle \in Requests /\ Idle.at = "idle"
    BY IdleType DEF Idle
  <1>6. \A v \in Users : req'[v] = IF v = u THEN Idle ELSE req[v]
    BY <1>1, <1>3
  <1>7. TypeOK'
    BY <1>1, <1>3, <1>4, <1>5 DEF SiteInv, TypeOK, device
  <1>8. Underway'
    BY <1>5, <1>6 DEF SiteInv, Underway, Consent
  <1>9. Exclusive'
    BY <1>2, <1>5, <1>6 DEF Exclusive, Rendering
  <1>10. OwnPage'
    BY <1>1, <1>3, <1>4 DEF SiteInv, OwnPage
  <1> QED BY <1>7, <1>8, <1>9, <1>10 DEF SiteInv

-----------------------------------------------------------------------------
(* The invariant *)

\* The initial states are as the invariant says.
LEMMA InitSite ==
  ASSUME Init PROVE SiteInv
  <1>1. Blank \in Pages
    BY IdleType, SiteAssumption DEF Blank, Pages, Prompts
  <1>2. TypeOK
    BY <1>1, IdleType, SiteAssumption DEF Init, TypeOK
  <1>3. \A u \in Users : req[u].at = "idle" /\ page[u].view = "none"
    BY DEF Init, Idle, Blank
  <1> QED BY <1>2, <1>3 DEF SiteInv, Underway, Exclusive, Rendering, OwnPage

\* Steps of the logger leave the site alone.
LEMMA LoggerKeeps ==
  ASSUME SiteInv, Unplug \/ Record \/ Replug
  PROVE  SiteInv'
  <1>1. UNCHANGED <<req, page, holder, buffer>>
    BY DEF Unplug, Record, Replug
  <1>2. plugged \in BOOLEAN /\ store \in 0..MaxStore /\ live \in Parameters /\ saved \in Parameters
    BY DEF SiteInv, TypeOK
  <1>3. plugged' \in BOOLEAN
    BY <1>2 DEF Unplug, Record, Replug
  <1>4. store' \in 0..MaxStore
    BY <1>2, SiteAssumption DEF Unplug, Record, Replug
  <1>5. live' \in Parameters /\ saved' \in Parameters
    BY <1>2 DEF Unplug, Record, Replug
  <1> QED BY <1>1, <1>3, <1>4, <1>5 DEF SiteInv, TypeOK, Underway, Consent, Exclusive, OwnPage

\* Every step keeps the invariant.
LEMMA NextSite ==
  ASSUME SiteInv, [Next]_vars PROVE SiteInv'
  <1>1. CASE Unplug \/ Record \/ Replug
    BY <1>1, LoggerKeeps
  <1>2. ASSUME NEW u \in Users, Press(u) PROVE SiteInv'
    <2>1. Elsewhere(u) /\ UNCHANGED device
      BY <1>2, PressMoves DEF SiteInv
    <2> QED BY <2>1, ElsewhereKeeps DEF SiteInv, TypeOK, device
  <1>3. ASSUME NEW u \in Users,
               \/ ReadInfo(u) \/ ConfigureRefused(u) \/ ConfigureCut(u) \/ Configured(u)
               \/ Stopped(u) \/ ReadRecords(u)
        PROVE  SiteInv'
    <2>1. Elsewhere(u) /\ live' \in Parameters
      BY <1>3, HandlerMoves DEF SiteInv
    <2>2. /\ plugged \in BOOLEAN /\ store \in 0..MaxStore /\ saved \in Parameters
          /\ req[u].set \in Parameters
      BY DEF SiteInv, TypeOK, Requests
    <2>3. CASE Configured(u)
      BY <2>1, <2>2, <2>3, SiteAssumption, ElsewhereKeeps DEF Configured
    <2>4. CASE ~Configured(u)
      <3>1. UNCHANGED <<plugged, store, saved>>
        BY <1>3, <2>4 DEF device, ReadInfo, ConfigureRefused, ConfigureCut, Stopped, ReadRecords
      <3> QED BY <2>1, <2>2, <3>1, ElsewhereKeeps
    <2> QED BY <2>3, <2>4
  <1>4. ASSUME NEW u \in Users, Lock(u) \/ Fill(u) \/ Show(u) PROVE SiteInv'
    BY <1>4, LockKeeps, FillKeeps, ShowKeeps
  <1>5. CASE UNCHANGED vars
    BY <1>5 DEF vars, SiteInv, TypeOK, Underway, Consent, Exclusive, OwnPage
  <1> QED BY <1>1, <1>2, <1>3, <1>4, <1>5 DEF Next, Handle

\* Requests, pages and the lock keep their types, for any number of users.
THEOREM SiteTypes == Spec => []TypeOK
  <1>1. SiteInv => TypeOK
    BY DEF SiteInv
  <1> QED BY <1>1, InitSite, NextSite, PTL DEF Spec

\* One lock is enough to keep each page its own, although the buffer is global.
THEOREM PagesAreOwn == Spec => []OwnPage
  <1>1. SiteInv => OwnPage
    BY DEF SiteInv
  <1> QED BY <1>1, InitSite, NextSite, PTL DEF Spec

-----------------------------------------------------------------------------
(* Erasing *)

\* Nothing but a Configure that goes all the way changes the settings that last
\* or takes records away.
LEMMA OnlyConfigured ==
  ASSUME SiteInv, [Next]_vars, ~(\E u \in Users : Configured(u))
  PROVE  saved' = saved /\ (store' = store \/ (Record /\ store' = store + 1))
  <1>1. CASE Unplug \/ Record \/ Replug
    BY <1>1 DEF Unplug, Record, Replug
  <1>2. ASSUME NEW u \in Users, Press(u) PROVE UNCHANGED <<saved, store>>
    BY <1>2, PressMoves DEF SiteInv, device
  <1>3. ASSUME NEW u \in Users, Handle(u) \/ Lock(u) PROVE UNCHANGED <<saved, store>>
    BY <1>3 DEF Handle, ReadInfo, ConfigureRefused, ConfigureCut, Stopped, ReadRecords,
                Lock, Fill, Show, device
  <1>4. CASE UNCHANGED vars
    BY <1>4 DEF vars
  <1> QED BY <1>1, <1>2, <1>3, <1>4 DEF Next

\* A Configure that goes all the way was ordered with the count there is.
LEMMA ConfiguredWhole ==
  ASSUME SiteInv, NEW u \in Users, Configured(u)
  PROVE  /\ req[u] \in Requests /\ req[u].at = "configure" /\ Consent(req[u])
         /\ store \in {0, req[u].confirmed} /\ store' = 0 /\ saved' = req[u].set
         /\ req' = [req EXCEPT ![u] = Ending(req[u])]
         /\ Ending(req[u]) \in Requests /\ Ending(req[u]).at # "configure"
         /\ req'[u] = Ending(req[u])
  <1>1. req \in [Users -> Requests]
    BY DEF SiteInv, TypeOK
  <1>2. Consent(req[u])
    BY DEF SiteInv, Underway, Configured
  <1> QED BY <1>1, <1>2, EndingType, EndingAt DEF Configured, Admitted, Step

\* A step that takes records away ends the Configure of someone who was asked.
LEMMA ErasingStep ==
  ASSUME SiteInv, [Next]_vars, store' < store
  PROVE  \E u \in Users :
            /\ req[u].at = "configure" /\ req'[u].at # "configure"
            /\ req[u].confirm \/ (req[u].path = "command" /\ req[u].agreed = store)
  <1>1. store \in Nat
    BY SiteAssumption DEF SiteInv, TypeOK
  <1>2. PICK u \in Users : Configured(u)
    BY <1>1, OnlyConfigured
  <1>3. store # 0 /\ store = req[u].confirmed
    BY <1>1, <1>2, ConfiguredWhole
  <1> QED BY <1>2, <1>3, ConfiguredWhole DEF Consent

\* Neither an unread count nor a stale page nor a command with an old count gets
\* records erased without anyone having been asked.
THEOREM ErasingIsAskedFor == Spec => NothingErasedUnasked
  <1>1. SiteInv /\ [Next]_vars =>
          [store' < store =>
             \E u \in Users :
                /\ req[u].at = "configure" /\ req'[u].at # "configure"
                /\ req[u].confirm \/ (req[u].path = "command" /\ req[u].agreed = store)]_vars
    BY ErasingStep
  <1> QED BY <1>1, InitSite, NextSite, PTL DEF Spec, NothingErasedUnasked

-----------------------------------------------------------------------------
(* What is left of a request *)

\* The steps that a request at a point of its way may still have before it.
StepsFrom(at) ==
    CASE at = "info"                  -> 6
      [] at \in {"configure", "stop"} -> 5
      [] at = "read"                  -> 4
      [] at = "lock"                  -> 3
      [] at = "fill"                  -> 2
      [] at = "show"                  -> 1
      [] OTHER                        -> 0

Left(u) == StepsFrom(req[u].at)

\* What a handler does brings its request nearer to its end, and what the others
\* and the logger do leaves it alone.
RequestsAdvance ==
    [][\A u \in Users : Running(u) =>
        /\ Handle(u) \/ Lock(u) => Left(u)' < Left(u)
        /\ Left(u)' < Left(u) \/ UNCHANGED req[u]]_vars

\* Whoever holds the lock is making a page: nothing else is waited for with it.
HolderRenders == holder # NoOne => req[holder].at \in Rendering

LEMMA StepsType ==
  ASSUME NEW r \in Requests
  PROVE  /\ StepsFrom(r.at) \in 0..6
         /\ StepsFrom(r.at) = 0 <=> r.at = "idle"
  BY DEF StepsFrom, Requests

\* A handler's step leaves the others alone and brings its own request nearer.
LEMMA HandlerAdvances ==
  ASSUME SiteInv, NEW u \in Users, Handle(u) \/ Lock(u)
  PROVE  /\ Left(u)' < Left(u)
         /\ \A v \in Users \ {u} : UNCHANGED req[v]
  <1>1. req \in [Users -> Requests] /\ req[u] \in Requests
    BY DEF SiteInv, TypeOK
  <1>2. ASSUME NEW r, req' = [req EXCEPT ![u] = r], StepsFrom(r.at) < StepsFrom(req[u].at)
        PROVE  /\ Left(u)' < Left(u)
               /\ \A v \in Users \ {u} : UNCHANGED req[v]
    BY <1>1, <1>2 DEF Left
  <1>3. ASSUME req[u].at \in {"configure", "stop"}, Step(u, Ending(req[u]))
        PROVE  /\ Left(u)' < Left(u)
               /\ \A v \in Users \ {u} : UNCHANGED req[v]
    <2>1. Ending(req[u]).at \in {"idle", "read", "lock"}
      BY EndingAt
    <2>2. StepsFrom(Ending(req[u]).at) < StepsFrom(req[u].at)
      BY <1>3, <2>1 DEF StepsFrom
    <2> QED BY <1>2, <1>3, <2>2 DEF Step
  <1>info. CASE ReadInfo(u)
    <2>1. PICK i \in Answers : req[u].at = "info" /\ Step(u, Informed(req[u], i))
      BY <1>info DEF ReadInfo
    <2> DEFINE r == Informed(req[u], i)
    <2>2. r \in Requests /\ r.at \notin Rendering \cup {"info"}
      <3>1. i \in InfoParts /\ req[u].path \in Configuring
        BY <2>1, AnswersType DEF SiteInv, Underway
      <3> QED BY <1>1, <3>1, InformedType, InformedAt
    <2>3. req' = [req EXCEPT ![u] = r]
      BY <2>1 DEF Step
    <2> HIDE DEF r
    <2>4. StepsFrom(r.at) < StepsFrom(req[u].at)
      BY <2>1, <2>2 DEF StepsFrom, Requests
    <2> QED BY <1>2, <2>3, <2>4
  <1>configure. CASE ConfigureRefused(u) \/ ConfigureCut(u) \/ Configured(u) \/ Stopped(u)
    BY <1>3, <1>configure DEF ConfigureRefused, ConfigureCut, Configured, Stopped
  <1>records. CASE ReadRecords(u)
    <2>1. PICK i : req[u].at = "read" /\ Step(u, [req[u] EXCEPT !.info = Shown(i), !.at = "lock"])
      BY <1>records DEF ReadRecords
    <2> DEFINE r == [req[u] EXCEPT !.info = Shown(i), !.at = "lock"]
    <2>2. r.at = "lock" /\ req' = [req EXCEPT ![u] = r]
      BY <1>1, <2>1 DEF Step, Requests
    <2> HIDE DEF r
    <2>3. StepsFrom(r.at) < StepsFrom(req[u].at)
      BY <2>1, <2>2 DEF StepsFrom
    <2> QED BY <1>2, <2>2, <2>3
  <1>lock. CASE Lock(u)
    <2> DEFINE r == [req[u] EXCEPT !.at = "fill"]
    <2>1. req[u].at = "lock" /\ r.at = "fill" /\ req' = [req EXCEPT ![u] = r]
      BY <1>1, <1>lock DEF Lock, Requests
    <2> HIDE DEF r
    <2>2. StepsFrom(r.at) < StepsFrom(req[u].at)
      BY <2>1 DEF StepsFrom
    <2> QED BY <1>2, <2>1, <2>2
  <1>fill. CASE Fill(u)
    <2>1. PICK i : /\ req[u].at = "fill"
                   /\ req' = [req EXCEPT ![u] = [req[u] EXCEPT !.info = Shown(i), !.at = "show"]]
      BY <1>1, <1>fill DEF Fill
    <2> DEFINE r == [req[u] EXCEPT !.info = Shown(i), !.at = "show"]
    <2>2. r.at = "show" /\ req' = [req EXCEPT ![u] = r]
      BY <1>1, <2>1 DEF Requests
    <2> HIDE DEF r
    <2>3. StepsFrom(r.at) < StepsFrom(req[u].at)
      BY <2>1, <2>2 DEF StepsFrom
    <2> QED BY <1>2, <2>2, <2>3
  <1>show. CASE Show(u)
    <2>1. req[u].at = "show" /\ req' = [req EXCEPT ![u] = Idle]
      BY <1>show DEF Show
    <2>2. StepsFrom(Idle.at) < StepsFrom(req[u].at)
      BY <2>1 DEF Idle, StepsFrom
    <2> QED BY <1>2, <2>1, <2>2
  <1> QED BY <1>info, <1>configure, <1>records, <1>lock, <1>fill, <1>show DEF Handle

\* Steps of the logger, and of people, leave the requests under way alone.
LEMMA OthersWait ==
  ASSUME SiteInv, NEW u \in Users, Running(u),
         \/ UNCHANGED vars \/ Unplug \/ Record \/ Replug
         \/ \E v \in Users : Press(v)
  PROVE  UNCHANGED req[u]
  <1>1. CASE UNCHANGED vars \/ Unplug \/ Record \/ Replug
    BY <1>1 DEF vars, Unplug, Record, Replug
  <1>2. ASSUME NEW v \in Users, Press(v) PROVE UNCHANGED req[u]
    <2>1. ~Running(v) /\ \E r : req' = [req EXCEPT ![v] = r]
      BY <1>2 DEF Press, Get, PressSave, PressStart, PressStop, PressConfirm, Command, Begin
    <2> QED BY <2>1 DEF SiteInv, TypeOK
  <1> QED BY <1>1, <1>2

\* Whatever the users, the logger and the lock do, a step of a request brings it
\* nearer to its end, and none of another's takes it back: it is answered after
\* six of its own.
THEOREM EveryRequestAdvances == Spec => RequestsAdvance
  <1>1. ASSUME SiteInv, [Next]_vars, NEW u \in Users, Running(u)
        PROVE  /\ Handle(u) \/ Lock(u) => Left(u)' < Left(u)
               /\ Left(u)' < Left(u) \/ UNCHANGED req[u]
    <2>1. ASSUME NEW v \in Users, Handle(v) \/ Lock(v)
          PROVE  Left(u)' < Left(u) \/ UNCHANGED req[u]
      BY <1>1, <2>1, HandlerAdvances
    <2> QED BY <1>1, <2>1, HandlerAdvances, OthersWait DEF Next
  <1>2. SiteInv /\ [Next]_vars =>
          [\A u \in Users : Running(u) =>
              /\ Handle(u) \/ Lock(u) => Left(u)' < Left(u)
              /\ Left(u)' < Left(u) \/ UNCHANGED req[u]]_vars
    BY <1>1
  <1> QED BY <1>2, InitSite, NextSite, PTL DEF Spec, RequestsAdvance

\* Every step keeps the lock with a page that is being made.
LEMMA HolderStep ==
  ASSUME SiteInv, HolderRenders, [Next]_vars PROVE HolderRenders'
  <1>1. req \in [Users -> Requests] /\ holder \in Users \cup {NoOne}
    BY DEF SiteInv, TypeOK
  <1>2. ASSUME NEW u \in Users, Elsewhere(u) PROVE HolderRenders'
    <2>1. PICK r \in Requests : Moves(u, r)
      BY <1>2 DEF Elsewhere
    <2> QED BY <1>1, <2>1 DEF Moves, HolderRenders
  <1>3. ASSUME NEW u \in Users, Press(u) PROVE HolderRenders'
    BY <1>2, <1>3, PressMoves DEF SiteInv
  <1>4. ASSUME NEW u \in Users,
               \/ ReadInfo(u) \/ ConfigureRefused(u) \/ ConfigureCut(u) \/ Configured(u)
               \/ Stopped(u) \/ ReadRecords(u)
        PROVE  HolderRenders'
    BY <1>2, <1>4, HandlerMoves DEF SiteInv
  <1>5. ASSUME NEW u \in Users, Lock(u) PROVE HolderRenders'
    BY <1>1, <1>5 DEF Lock, HolderRenders, Rendering, Requests
  <1>6. ASSUME NEW u \in Users, Fill(u) PROVE HolderRenders'
    <2>1. PICK i : /\ req' = [req EXCEPT ![u] = [req[u] EXCEPT !.info = Shown(i), !.at = "show"]]
                   /\ holder' = holder
      BY <1>1, <1>6 DEF Fill
    <2> DEFINE r == [req[u] EXCEPT !.info = Shown(i), !.at = "show"]
    <2>2. r.at = "show" /\ req' = [req EXCEPT ![u] = r]
      BY <1>1, <2>1 DEF Requests
    <2> HIDE DEF r
    <2> QED BY <1>1, <2>1, <2>2 DEF HolderRenders, Rendering
  <1>7. ASSUME NEW u \in Users, Show(u) PROVE HolderRenders'
    BY <1>7 DEF Show, HolderRenders
  <1>8. CASE Unplug \/ Record \/ Replug \/ UNCHANGED vars
    BY <1>8 DEF Unplug, Record, Replug, vars, HolderRenders
  <1> QED BY <1>3, <1>4, <1>5, <1>6, <1>7, <1>8 DEF Next, Handle

\* No request waits for one that is not getting on: the lock is free, or with
\* someone who has only to fill and show a page, and nobody has more than six
\* steps before them.
THEOREM LockIsGivenBack ==
  Spec => [](HolderRenders /\ \A u \in Users :
                 Left(u) \in 0..6 /\ (Left(u) = 0 <=> ~Running(u)))
  <1>1. Init => SiteInv /\ HolderRenders
    BY InitSite DEF Init, HolderRenders
  <1>2. SiteInv /\ HolderRenders /\ [Next]_vars => (SiteInv /\ HolderRenders)'
    BY NextSite, HolderStep
  <1>3. SiteInv => \A u \in Users : Left(u) \in 0..6 /\ (Left(u) = 0 <=> ~Running(u))
    BY StepsType DEF SiteInv, TypeOK, Left, Running
  <1> QED BY <1>1, <1>2, <1>3, PTL DEF Spec
=============================================================================
