# A TLA+ model of elitelog

`elitelog` reads, configures and starts Elitech USB temperature loggers through
Linux `hidraw`: a protocol package (`internal/elitech`), a small web site
(`internal/web`) and a command line (`cmd/elitelog`).  This directory holds TLA+
modules of its core logic, the TLC configurations that check them, and proofs:
that records are erased only with consent, that pages and commands are about
the logger people think of, that a download is complete and in place, and that
what is shown and exported is what the logger put into its bytes.

## 1. Inventory

| Component | Source | State it keeps | Operations | Modelled in |
|---|---|---|---|---|
| hidraw link | `internal/hid/conn.go` | an open file and the kernel's ring of input reports | open, write, read with a deadline, close | `Hidraw`, `Logger` |
| logger session | `internal/elitech/logger.go` | a `Logger` with a mutex and the protocol version; the place in a list of exchanges | `Info`, `Configure`, `Stop`, `ReadRaw`, `VerifySettings` | `Logger` |
| record download | `logger.go` (`Records`, `getRecordPacket`), `record.go` | offset, records so far, `preambleSent` | `Records(last)` | `Download` |
| service | `internal/elitech/service.go` | none: a new session for every call | `Info`, `Configure` (with reopen and read-back), `Records`, `Stop` | `Logger`, `Download`, `Site`, `Discovery` |
| report framing | `internal/elitech/frame.go` | none | `encodeFrame`, `decodeFrame` | `Frame`, `Codec` |
| decoding | `info.go`, `record.go` | none | dates, counts, interval, start byte, tenths, records, packets, the status space | `Decoding`, `Readings`, `Codec` |
| web site | `internal/web/web.go` | `site.mu` and lofigui's global buffer; what people's tabs still show | device, records and monitor pages; save, start, stop and their prompts | `Site` |
| command line | `cmd/elitelog/main.go` | none | `start -confirm -interval`, `stop`, `peek` (`info` and `records` print) | `Site`, `Discovery`, `Logger` |
| device discovery | `internal/hid/hid.go` | none; sysfs changes while it is read | `Enumerate`, and `devs[0]` wherever one is needed | `Discovery` |
| CSV export, charts, forms, times | `service.go`, `web.go` | none | cells, points, summary, latest reading, settings form, spans | `Readings`, `Codec` |

How they interact.  Every HTTP request is a goroutine; the command line is
another process.  Each calls the service, which opens the node anew, so **two
calls never share a `Logger` and its mutex does not order them**.  Linux delivers
every input report to every open file of a node, so a session also sees the
replies to other sessions, and those that came too late for its own deadlines.
It defends itself by draining the ring before a request and by comparing
operation and range of a reply, not always both.  The web site adds a lock of
its own, around the making of a page and not around the calls of a POST.  Nobody keeps a
device: every page, every confirmation and every command scans sysfs again, takes
the first logger, and passes on a *path*, which each call of the service opens
anew.

What is hard: interleaved sessions on one device; late replies after a retry;
the record count that is checked long before the format that erases; several
block writes of which one may fail; a logger that keeps settings over a replug
only if the last command of the sequence was obeyed; prompts that stay on screen
while the logger goes on or another takes its place; devices that come and go
between the entries of a scan; bit fields and sentinels.  `PROJECT.json` lists these
hazards line by line with the properties that cover them.

What makes the components correct:

* records are erased only for a caller who confirmed exactly what is lost;
* what a replug restores is the whole settings of one `Configure`;
* success of `Configure` and `Stop` is true;
* a downloaded record is the one at its index, and success is complete;
* everyone's call and request ends;
* a page is its own request's; nothing is erased unasked;
* everyone's request is about the first logger, one logger, and the one shown;
* bytes decode to what the logger put into them, and everything that is shown or
  exported of records says the same.

## 2. Modules

| Module | What it is |
|---|---|
| `Hidraw` | the link shared by `Logger` and `Download`: `Broadcast` (every open file gets a report), `Buffered` (a full ring loses it), `Drained` (`drain` throws away at most `DrainMax`) |
| `Logger` | sessions: calls of `Info`, `Configure`, `Stop` by any number of clients, one device |
| `Download` | `Logger.Records` from the count on |
| `Site` | pages, prompts, the start command, the page lock |
| `Discovery` | scans of sysfs entry by entry, requests that scan and open nodes, devices that come and go |
| `Frame`, `Decoding`, `Readings` | bytes of reports, parameters and records, and what people read, as operators |
| `Codec` | decoding as a step of a trivial system, to check these three over bounded inputs |
| `Store` | the abstract specification: records, lasting settings and standing orders, which `Logger` implements for one caller |
| `HidrawProofs`, `ReadingsProofs` | lemmas about the operators of `Hidraw`, and of `Frame` and `Readings` |
| `LoggerProofs`, `DownloadProofs`, `SiteProofs`, `DiscoveryProofs` | the theorems about `Logger`, `Download`, `Site` and `Discovery` |
| `CodecProofs`, `StoreProofs` | the theorems about `Codec`: bytes, records and forms; and downloads, views and times |
| `MCLogger`, `MCDownload`, `MCSite`, `MCDiscovery`, `MCCodec` | values for the constants |

### Store

What a logger's owner relies on: records grow one by one, and go all at once
together with a change of the lasting settings, by an *order* (settings and a
confirmed number) that stands at the time.  In `Logger` the orders that stand are
those of running `Configure` calls and of formats that still wait in the device's
inbox, whose caller may have ended or been killed.  So the refinement says that a
`Configure`, a dozen exchanges long, has one point at which it takes effect, or
none.  `Site` and `Discovery` take from `Logger` that the service behaves so: a
call of `Configure` is one step of theirs, with that guard, and what they are
asked is who gave the order and what had been shown to them.

Definitions called "Mutant of X" are plausible mistakes in X.  Nothing refers to
them; each makes a property of some run fail in X's place (`mutants` in
`PROJECT.json`), which shows that the property depends on the code being as it is.

### Logger

A client is one call of the service.  A call is a list of *phases* (`prime`,
`count`, `fields`, `status` for `Info`; `prime`, `count`, `read`, `write`,
`format`, `reopen` and a second `Info` for `Configure`; `prime`, `stop` for
`Stop`; `prime` and one read of either space for `ReadRaw`, jobs `peek3` and
`peek5`), a phase a table of exchanges with the addresses of the code
(`PrimeReads`, `CountReads`, `InfoFields`, `StatusParts`, `FactoryBlocks`).

| Code | Model |
|---|---|
| drain and `t.Write` at the start of an exchange | `Write` |
| `awaitReply` passing over another operation's report | `Skip` |
| a reply accepted, and what the code does with it at once | `Prime`, `CountKnown`, `Field`, `Status`, `BlockRead`, `BlockWritten` |
| deadline, malformed report, wrong range, failed write | `Failed`/`CanFail` in `GiveUp`, `CountRetry`, `CountUnknown`, `CountMissing`, `FieldSkipped`, `StatusDone` |
| `ErrRecordsPresent` | `CountRefused` |
| format, `readReport` whose result is discarded, hold, close | `Write`, `Formatted` |
| `Service.Configure`: reopen, `Info`, `VerifySettings` | `Reopen`, `ReopenFails`, job `verify`, `Finish` |
| `Stop`'s single read | `StopAnswered`, `StopUnanswered` |
| `ReadRaw`, which takes any reply of its operation | `Peeked`, and `GiveUp` |
| the process being killed | `Crash` |

The device (external) handles requests in order.  It has `live` settings, which
reads report, and `saved` settings, which a replug restores; a format makes the
live ones saved (`logger.go:267-271`, `PROTOCOL.md` on the save sequence).  It
records only off the bus.  Faults, named in `AllFaults`: a wider range than asked
for, late, lost and damaged replies, 0xFF blocks, a rejected write, a write
acknowledged but not made, a command dropped.  `stopped` is a history variable.

Abstractions: of `Info` only the count, the interval and the start byte are
kept; the clock bytes and the zeroed stop time are left out, as is the block at
0x42, which configuration writes back inside the second block as it was read;
and a settings block that is read and patched between another session's writes
is patched from what the device holds (`Patched`), i.e. the bytes around the
settings are not followed.

### Download

From the point where `Records` has its count.  `AskPacket` writes without
draining, as `getRecordPacket` does; `PassOver` skips acknowledgements, foreign
and malformed reports and packets without a decodable record; `Packet` files
records at `off + i` whatever the report's offset; the first timeout leads to
`StartPreamble` and the 17 reads (`AskPreamble`, `PreambleRead`), the second to
`DownloadFails`.  Old firmware (`Firmware = {FALSE}`) serves records only after
the thirteenth read.  `Erase` is the format of some other session.  The status
and interval reads between count and packets only date 4-byte records; they, the
trailing `primeWith` (its failure is ignored) and unplugging are left out here.

### Site

A user is a tab or a terminal with one request at a time; `page[u]` is what the
tab still shows, and buttons are pressed from it however stale it is.  A request
goes through `info` (`ReadInfo`), `configure` (`Configured`, `ConfigureRefused`,
`ConfigureCut`), `stop`, `read` (`ReadRecords`), then `lock`, `fill`, `show`
(`Lock`, `Fill`, `Show`: `renderRefreshing`).  A redirect after a POST is the GET
it leads to.

Calls of the service are single steps here, with the outcomes that `Logger` has
for them: `Configure` erases only if the store is empty or as confirmed (theorem
`ErasingIsConfirmed`), leaves at zero what `Info` could not read, and a failure
half way leaves live settings mixed but saves none.  Two overlapping `Configure`
calls are therefore ordered here; their interleaving is `Logger`'s business.
What `stop()` returns only changes the message on the records page.  `-interval`
goes to `Configure` unchecked if it is positive (`CommandSettings`); 15 seconds,
which the logger cannot store, are refused there.

### Discovery

`List` is `os.ReadDir`: the names at one moment, in the order of names.
`ReadEntry` opens the next entry's `uevent`: by then it may be gone or another
device's.  `Take` is the end of `Enumerate` (sorted by number) and the `devs[0]` of
`firstDevice`, or the end of the request if there is none.  A request then makes
the calls of `Plan`: a records page scans, downloads, scans *again* and asks
`Info`; an order scans, asks `Info`, and configures, which opens the node twice.
Each call reaches whatever device is at the node then (`Reached`).  `Info`, as far as an order
is concerned, prompts (`Asks`), goes on with the count it read, or the count that
`-confirm` gave.  `Plug` and `Unplug` move devices between nodes at any time, and
a logger off the bus records.  A device of `Others` has other ids or a `uevent`
that does not parse (`parseHIDID`); the text of these files is left out, and so
are an unreadable sysfs (a request may `Fail` before any call, which ends it in
the same way), the exchanges of a call, and what `Info` may lose (`Logger`, `Site`).

`gone` (nodes unplugged since the scan began) and `calm` are history variables for
the properties.  It is calm for a user as long as the logger with the lowest number
is the same, at the same node, as when the page began (`LeastNodes`, `Firsts`):
all other devices may come and go, also in the middle of a scan.

### Frame, Decoding, Readings, Codec

`Codec` draws an input, decodes its bytes in one step and compares.  What the
*logger* puts into bytes is written independently of the decoders (`RecordBytes`
adds the fields of a record up to the words of the layout in `PROTOCOL.md`;
`CountBytes`, `TenthsBytes`), so the properties compare two descriptions.
The status space and the parameters are of a logger with a history (`Histories`):
configured, started and stopped at moments of their own, or never; its parameters
keep that start or the factory's placeholder.  Each of the four extremes may be
missing.
`CodecAssumption` says that inputs fit the fields they are put into: a year is one
of 128, a temperature has twelve bits, and so on (`Clock`, `Sent`, `Stored`,
`StoreFits`).  Nothing else is assumed of them; a moment need not exist.  The host's time zone is left out:
`time.Date` in local time may move a moment that does not exist because of
daylight saving.  The serial number is not modelled.

`Readings` has the status space (`readStatus`, `decodeStatus`) and the lines two
pages make of it; the packet loop of `Records` down to the bytes (`RecordWidth`,
`Slot`, `Placed`), where `Download` has its exchanges; and what is made of records:
CSV and table as a header and rows of cells, charts as points, summary and
latest reading.  `Codec` builds the packets of a store of slots, of both record
widths, with unreadable ones, pauses and missing humidity, downloads the last n, and compares
the outcome with the slots and the outputs with each other.  A 4-byte record's time stays a
pair of start and seconds; floating point is left out, tenths being integers.
The form is submitted as shown or with other numbers (an empty or non-numeric
field is 0 or out of range), times are read back from their text.

## 3. Runs

| Run | Instance | Shows |
|---|---|---|
| `LoggerOne` | one client, also peeking, all six blocks and all `Info` fields, three forms (one of them an invalid interval), store 0..1, ring 3, drain 2, faults late, lose, garble, reject, wide, blank, ignore | `TypeOK`; `CommitWhole`: a replug never restores a mixture; `StopTruthful`: a successful `Stop` was obeyed; `ImplementsStore`: a call of `Configure` is one step of `Store` or none |
| `LoggerTwo` | two symmetric `Configure` clients, one field, one block, ring 1, drain 0, late replies | `EraseConfirmed` and `CountsCurrent`, the invariant behind it |
| `LoggerLive` | one client, two blocks, full status, faults without ignore but with forget, fairness | `Persisted`: success of `Configure` means a replug restores the settings; `CallsAdvance`: a call never goes back; `EveryCallReturns` |
| `DownloadOne` | packets of 6, preamble 17/13, store 0..13 (two full packets and one record), last 0, 1, 5, 6, 7, unreadable records, both firmwares, late preamble reads, lose, garble, erase, fairness | `TypeOK`; `AnswersCurrent`: the one packet asked for or on its way is the one waited for; `RecordsFaithful`, `DownloadComplete`, `EveryDownloadReturns` |
| `DownloadCrossed` | two downloads, packets of 2, late packets | **violates** `RecordsFaithful` |
| `DownloadGap` | a packet of unreadable records | **violates** `UnreadableSkipped` |
| `SiteOne` | two symmetric users, store 0..1, a shortest and a too long interval, `-confirm` 0 and 1, `-interval` absent, possible and impossible, device and records pages, unread counts | `TypeOK`, `OwnPage`, `NothingErasedUnasked` |
| `SiteLive` | two users, monitor and records pages, failing calls, fairness | `EveryRequestAnswered` |
| `SiteKeeps` | one user, a logger that may not be stopped by software, `Info` reads that lose fields | **violates** `StartKeeps` |
| `Discovery` | one user with the save and start forms and the command and the pages they lead to, two loggers with 0..2 records and another device at hidraw2 and hidraw10, fairness | `TypeOK`; `FirstTaken`: a scan takes the first logger that stayed; `PageOfOne`, `ErasedAsShownCalm`: while the same logger comes first; `ErasedOnlyAgreed`: records are lost only to an order agreed to on the prompt in view; `EveryRequestEnds` |
| `DiscoverySwap` | one user with the start form, two loggers with 0..1 records | **violates** `ErasedAsShown` |
| `Codec` | values around the limits of all fields, protocols 0x20 to 0x35, reports of 24 bytes; stores of up to 13 slots of four kinds, the last 1, 2, 3, 6, 7, 20 or all; intervals up to the 16-bit limit; eight histories, and extremes reported, zero and missing | `FramesTrusted`, `RecordsDecoded`, `ReadingsDecoded`, `DatesRoundTrip`, `CountTruthful`, `SettingsRoundTrip`, `StatusRead`; `RecordsPlaced`; `ViewsAgree`: CSV, table, charts, summary and latest reading; `FormKeepsInterval`, `TimesReadBack` |

Why the bounds are enough.  A store of 0 or 1 tells "as confirmed", "changed
since" and "emptied" apart, because the code only compares counts for equality
and with 0; `Discovery` has 2 to tell a shown count from a later one.  Its nodes 2
and 10 are in one order by name and in the other by number; two loggers and a
third device are enough to swap.  One user: two are out of reach of a run (more
than 15 million states), so what others do in between, erasing the logger a prompt
is about, is left to the theorems, which have any number of each.  The
stores of `Codec` put every run of up to three slots of four kinds at the front of a
packet, across its end, in the next one and in the third.
`InboxMax` 2 lets a request wait behind the one that timed out.  It is also an
assumption about the device, which the theorems about one caller share
(`Shallow`): with 3, TLC finds a run in which two killed `Info` calls leave reads
of the identity and of the protocol version in the device, `Stop`'s `prime()`
takes their late replies for its own, and `Stop` then takes the late reply to its
own `prime()` for the acknowledgement.  The ring is
longer than `DrainMax`, so that a drain may leave stale reports, as 16 of 63 may:
3 and 2 with one client, and in `LoggerTwo` 1 and 0, i.e. any report that is in the
ring is left there.  Two clients suffice for a foreign reply; the
theorems hold for any number.  Two packets and one record make a first, a middle
and a partial last packet.  The short tables of `LoggerTwo` and `LoggerLive` keep
one exchange of each kind (in `LoggerLive` both blocks that carry settings); the
whole tables are in `LoggerOne` and in the proofs.  `ReportSize` 24 leaves room
for 12 data bytes instead of 52: the code treats all positions alike.

All runs switch deadlock checking off: the system may rightly stop, with the
logger unplugged for good, everyone idle, or an input decoded.

Fairness.  `Logger` assumes only weak fairness of a client's
`Progress`: each read has a deadline and each sleep an end, so a running call
takes its next step whatever device and bus do; nothing makes a call begin, and
the device owes nothing.  `Skip` is not part of `Progress`: reports that are passed
over may go on for ever and the deadline still passes.  `Download` tells late
packets, late reads and lost answers apart: where a kind of answer is not late,
a deadline passes only after the device has dealt with the request.  There
fairness of `Progress` alone would not do, so `Answer` and `PassOver` are weakly
fair as well; an answer may still be lost or damaged each time, so the device
owes nothing here either.  `Site`
assumes weak fairness of a handler's steps (calls of the service return, which
is `EveryCallReturns`) and strong fairness of `Lock`, because a `sync.Mutex` hands
itself over to a goroutine that has waited for a millisecond.  `Discovery` assumes
weak fairness of a request's steps; plugging and unplugging may go on for ever.

### Findings

1. `DownloadCrossed` (`logger.go:525`): the offset of a record report is not
   compared with the one asked for, and no lock orders two sessions, so two
   downloads at once file records under each other's positions.  The same
   happens to one client whose packet was late: the retry's answer is then taken
   for the next packet.  `DownloadOne` therefore has no late packets and shows
   that nothing else can do it.
2. `DownloadGap` (`logger.go:532`): a packet of only unreadable records ends the
   download with an error, although such records "are skipped".
3. `SiteKeeps` (`web.go:540`): "Starting keeps the current interval and stop
   settings", but it always allows stopping by software, and replaces values
   `Info` lost.
4. `DiscoverySwap` (`web.go:535`, likewise `web.go:371`): a confirmation carries only
   `confirm=yes`; its handler scans again and agrees to whatever count the first
   logger then has, so records made since the prompt, or another logger's, are
   erased without having been shown.  `ErasedAsShownCalm` shows that this takes
   another logger coming first, or the same one coming back: neither other users
   nor other devices can bring it about.

Worth knowing besides: a *dropped* format command is not noticed, because the
reply is thrown away (`logger.go:318`) and the read-back sees live settings.  This
is why `LoggerLive` has no `ignore`; `Persisted` is a statement about loggers that
handle the commands they receive.  Likewise `CommitWhole` is one about loggers
that do not acknowledge writes they did not make (`forget` is not in `LoggerOne`).
Both are for one caller: the service does not order two.  And the two pages judge
recording differently: the monitor by the status space (`RecordingState`), the
records page by whether there are records (`RecordingLine`), so it says "recording
since" of a logger that merely holds some.  The home page's "one packet is enough"
(`web.go:221`) holds only when the count is a multiple of six: otherwise the last
six records lie in two packets.

Two more places where a comment and the code, or the code and what it shows, part.
The comment on `decodeRecordTH` gives a temperature "an 11-bit magnitude"
(`record.go:110-112`), where `decodeRecordTenths` (mask 0x0FFF) and
`PROTOCOL.md:715` ("bits 0-11") have twelve.  `ReadingsDecoded` is about what these
two say, and so *contradicts* that comment for magnitudes of 2048 and more; with
eleven bits 204.8 degrees would be 0.  And an extreme that a logger does not report
is 0 in `Status` (`info.go:164`), so the monitor shows 0.0 beside a reported one,
and none for two extremes that were measured as 0.0 (`web.go:178-183`).
`StatusRead` says just that, for every combination.

## 4. Proofs

### LoggerProofs

Proves, for any clients, settings, tables, bounds and any set of faults:

* `TypeCorrect`: `Spec => []TypeOK`.  The part that is not bookkeeping is that a
  running call is at an exchange that exists, through retries, skipped fields and
  phases of different length.
* `CountsAlwaysCurrent`: `Spec => []CountsCurrent`.
* `ErasingIsConfirmed`: `Spec => EraseConfirmed`: a step that loses records
  handles a format whose caller confirmed exactly that many.
* `EveryCallAdvances`: `Spec => CallsAdvance`, and `CallsAreBounded`: what is left
  of a call (below).

`EraseConfirmed` needs an invariant because the check and the erasing are a dozen
exchanges apart, and the count may come from a reply that was late or not even
asked for by this session.  `CountsCurrent` says that at any time the formats the
device holds (`FormatsCurrent`), the counts in the rings (`CountsInFlight`) and
the confirmations of sessions past the check (`SessionsCurrent`) agree with the
store unless a format has emptied it since, and that an unplugged logger has none
of these (`OffTheBus`).  It is inductive with `TypeOK`: the store only grows off
the bus, where nothing is left to be wrong about, and only shrinks to 0, which
every disjunct allows.  The proof treats a client's step by what it does to its
ring (`RingShrinks`: nothing new), its entitlement (`StaysEntitled`) and to others
(`Others`), and the device's by whether its reply is `Honest`.

For one caller at a time it proves what the service's comments promise:

* `StopIsTruthful`: `Spec => StopTruthful`, under `Alone` and `Shallow`.
* `CommitIsWhole`: `Spec => CommitWhole`, and `LoggerIsAStore`: `Spec =>
  ImplementsStore`, under `Alone`, `Shallow`, `BlocksSound` and `Obeys`.
* `SuccessPersists`: `Spec => Persisted`, under `Alone`, `Shallow`, `BlocksSound`,
  `Telling` and a device that handles what it receives.

| Hypothesis | Says | Because |
|---|---|---|
| `Alone` | one client, which makes one call after the other and may be killed in any | the service orders no two calls: a second one's blocks may come between the first one's blocks and its format, and its replies reach every ring |
| `Shallow` | the device holds at most two requests; `drain` empties a ring of two reports (the code drains 16) | see the bounds: with three, a late reply is taken for the wrong exchange |
| `BlocksSound` | the blocks written cover the interval and the start byte, the first is at 0 | so are `configBlocks` (`FactorySound`) |
| `Obeys` | no `forget`: a logger that answers 1 to a block has stored it | else the format makes a mixture last; the read-back then reports an error |
| `Telling` | no settings have the start byte that a field not read shows (the zero value of `Info`) or that blank bytes decode to | `VerifySettings` could not tell them from a failed read; pages and command ask for manual start or for software stop, which neither value is |
| no `ignore` | every request is handled while the logger stays plugged in | a dropped format is not noticed (section 3) |

The argument is about what is *on the way* to the call: the reports in its ring
and behind them the requests in the device, `Length` of them.  Reports are not
numbered, so a late reply of an earlier exchange, or of a call that was killed, may
be taken for the one waited for.  `StreamOK` says how far this goes: opening the
node empties the ring, so at most the two requests in the device are left over;
the second reply that `prime()` takes cannot be to its first read, so when it
takes it nothing else is on the way (`PrimeCaller`).  From there on what is on the
way are tries of the count only, until the first block is read, which no reply to
a count answers (`BlockStream`, `ReplyBlocks`); past it nothing is on the way but
the exchange's own request or reply.  `Stop` goes from `prime()` to its command
directly (`StopOK`), and so any report it sees is the acknowledgement.

`BlocksOK` then says what `Configure` has achieved: the blocks it has passed carry
its settings (`Wrote`), a positive reply in the ring means the current one does
too, and at the format the device has the settings whole (`WroteAll`).
`FormatsWhole` carries that to the device: a format is handled first and finds the
settings it is meant for, also when the caller has been killed meanwhile.  Together
with `CountsCurrent` (`records` is as the order confirmed, or 0) a format is the one
step of `Store` that carries out an order.

For `SuccessPersists` the invariant is `KeptOK`.  After the format either it has
yet to be handled, and then the call, whose ring is empty, has not got past the
first read of its second `prime()` (`ToFormat`); or the device has the settings
that last, and all on the way is read from them (`FromSaved`).  Handling the format
leads from one to the other, and so does unplugging, which forgets the format.
`GotOK` says the same of what `Info` has read back, which may also be missing or
blank; `Telling` and the least interval rule that out when the comparison holds.

`Left` counts what a call has before it: two steps, writing and being done, for
every exchange that its phase and those that follow it (`Following`) have at most.
`CallsAdvance` says that every step of the call but passing over a report lowers
it, and that nobody else's touches it.  The part that could be wrong is the order
of the phases: each one's exchanges, and those that follow *it*, are among those
that followed the phase before (`NextFollows`; `CountedOut` has them in numbers),
also where the count is tried again, fields are skipped, or `Configure` becomes a
`verify` call.  With the bound `MostSteps`, which a `Configure` of which every
exchange is made attains, this is the part of `EveryCallReturns` that does not
depend on fairness.

The assumptions are `LoggerAssumption` (types of the constants, tables not
empty) and `HidrawAssumption`; TLC evaluates both in every run of `MCLogger`.

### SiteProofs

Proves, for any users, forms, counts, factory settings and faults:

* `SiteTypes`: `Spec => []TypeOK`.
* `PagesAreOwn`: `Spec => []OwnPage`.
* `ErasingIsAskedFor`: `Spec => NothingErasedUnasked`.
* `EveryRequestAdvances`: `Spec => RequestsAdvance`, each step of a request brings
  it nearer to its end, which nobody else's does or undoes; and
  `LockIsGivenBack`: it has at most six before it, and whoever holds the lock is
  filling or showing a page (`HolderRenders`), so it waits for nothing itself.

All follow from the inductive invariant `SiteInv`, the conjunction of
`TypeOK`, `Underway`, `Exclusive` and `OwnPage`.  `Underway` says what a handler
past the prompt has: it was confirmed, or is the command and its confirmed count
is the agreed one, or its confirmed count is 0; with the guard of `Configured`
this leaves no way to erase unasked.  `Exclusive` says that whoever is between
`Lock` and `Show` holds the lock and that the buffer then has only that user's
output; `OwnPage` alone is not inductive, since nothing in it tells what `Show`
will take from the buffer.  The steps are grouped by what they do: `PressMoves` and
`HandlerMoves` give the one request they change, `ElsewhereKeeps` covers all that do
not touch the buffer, and `Lock`, `Fill`, `Show` have a lemma each.

Assumptions: `SiteAssumption` (types of the constants) and `NoOneAssumption` (the
value for a free lock is not a user), evaluated in every run of `MCSite`.

### DiscoveryProofs

Proves, for any users, loggers, other devices and nodes:

* `DiscoveryTypes`: `Spec => []TypeOK`; that no call is made without a node is the
  part a scan that finds nothing could break.
* `FirstIsTaken`: `Spec => FirstTaken`.
* `PagesAreOfOne`: `Spec => []PageOfOne`.
* `CalmErasesAsShown`: `Spec => ErasedAsShownCalm`.
* `ErasingIsAgreed`: `Spec => ErasedOnlyAgreed`, whatever is plugged in or out.
* `EveryRequestAdvances`: `Spec => RequestsAdvance`, and `RequestsAreBounded`: what
  is left of a request.

The inductive invariant has, besides `TypeOK`, four parts.  `FitOK`: what a request
carries fits its job and its place in the plan (a prompt, a node, a count).
`ScanOK`: an entry that was listed as a logger's is still to be read, was found, or
is gone; and a found node was a logger's or is gone.  This is what makes the end of
a scan tell something about its beginning.  `CalmOK`: while the same logger comes
first, a scan under way has found no lower node and has the least one listed or
found (`CalmScan`), so it takes that one whatever other entries come and go; every
call reaches that logger; the count shown is that of the page's logger or has been
replaced by 0 by somebody's erasing.  `ErasedAsShownCalm` then
follows, since `Configure` admits a non-zero count only if it is the one the
handler read.  Minima of sets of nodes exist by `WellFoundedInduction`.
`AgreedOK` is what `ErasedOnlyAgreed` needs.  The guard of `Configure` (`Admitted`) compares the
number that the handler passes with the count of whichever logger is at the node,
so the question is where that number comes from: a request that has agreed to
anything is the one that the prompt on its page is for, and a command has agreed to
the number it printed; at its `Configure` a request that has agreed to nothing
passes 0, since `Info` lets it go on only with an empty logger.

`Left` gives a request a round (`Round`, two steps more than there are nodes) for
each call to come, those of the page an order ends on included, and during a scan
one step for each entry it has yet to read.  Plugging and unplugging change
neither, because a scan reads the names it listed at its beginning: this is what
ends it however often devices come and go.

The assumption is `DiscoveryAssumption`, evaluated in both runs of `MCDiscovery`.

### DownloadProofs

Proves, for any store, packet size, preamble, number asked for and faults:

* `DownloadTypes`: `Spec => []TypeOK`, for any number of downloads at once.
* `EveryDownloadAdvances`: `Spec => DownloadsAdvance`, and `DownloadsAreBounded`:
  what is left of a download, for any number of them at once.
* `AnswersAreCurrent`: `Spec => []AnswersCurrent`,
* `RecordsAreFaithful`: `Spec => []RecordsFaithful`,
* `SuccessIsComplete`: `Spec => []DownloadComplete`, these three under two
  hypotheses: `Alone` (there is one client) and `Punctual` (no packet comes after
  its deadline).

The hypotheses are what finding 1 is about: the code compares no offsets, so with
a second download, or with a packet that is late, records are filed in the wrong
place (`DownloadCrossed` has the counterexample).  They hold in `DownloadOne`.
Reads of the preamble may still be late, every report may be lost or damaged,
and an erase may come at any time.

Neither of the last two properties is inductive: whether a packet is filed in its
place depends on what is under way.  `AnswersCurrent` says what that is: while the
download waits for a packet, a request in the inbox or a packet in the ring is for
the offset it is at, there is at most one of both together, and the packet holds
what the store had there or nothing; while it does not wait, there is none.  It needs
`Quiet` (without a call the ring is empty) and `StoreCurrent` (during a call the
store is as it was counted, or erased).  A retry after a timeout keeps it because a
punctual logger has dealt with the first request by then.  `FiledSoFar` adds what
the loop has done: the positions filed are the readable ones before the current
offset, each from its own place; at the end of the loop that is `DownloadComplete`.

`Left` is two for every position from the current packet on, two for every read
of the preamble while that may still be sent or is under way, and one or two for
the packet itself.  A retry of a packet is paid for by the preamble that came
before it: had the code not `preambleSent`, nothing would go down, and a logger
that never answers would be asked for ever.  The invariant it needs (`Underway`) is
that a running download is at a packet with records, which is why an empty store
must not get that far.

Assumptions: `DownloadAssumption` and `HidrawAssumption`, evaluated in the runs of
`MCDownload`.

### CodecProofs, StoreProofs

`Codec` decodes one input in one step, so its invariants are statements about
operators.  `OutcomeHolds` (`Spec => []Outcome`) says so: an output is the result
of the operator for its kind of input.  From it follow, for all inputs that fit
their fields:

* `FramesAreTrusted`: `Spec => []FramesTrusted`.  The checksum of a report is the
  sum of its bytes mod 256, so overwriting a byte that it covers changes it by
  something that is not 0 mod 256 (`DamageSeen`); overwriting padding changes
  nothing that is read (`PaddingIgnored`).
* `RecordsAreDecoded`, `TenthsAreKept`, `DatesAreKept`, `CountsAreTrue`,
  `SettingsAreKept`, `StatusIsRead`: fields are taken apart by division and
  remainder; each lemma says what one word or byte gives back.  That a moment
  exists (`Real`) is what `OnCalendar` decides (`RealOnCalendar`).  For
  `StatusIsRead` the space gives back the start and each extreme, or 0
  (`StatusDecoded`), and what the records page makes of the two places a start may
  be read from is the real one, or the configuring if neither has it: a start after
  2012 is told from the placeholder (`SinceStart`).
* `FormsAreKept`: `parseInterval` and `Configure` take the same intervals, and what
  `renderControls` puts into the form is taken back.
* `RecordsArePlaced`: `Spec => []RecordsPlaced`, for a store of any length and any
  number asked for.  A packet's slots are those of the store from its offset on,
  decoded (`SlotOfPacket`); its records have, in order, the positions wanted that
  lie in it (`PacketTaken`); increasing lists of positions of adjacent ranges join
  to one (`JoinLists`, `FlattenLists`); the packets cover all that is wanted
  (`PacketsCover`).
* `ViewsAreOfRecords`: `Spec => []ViewsAgree`.  A column is found by its name, which
  occurs once in the header (`HeadersDiffer`); the points of a chart, and what is
  kept of the column of a table, are both the records at the positions of the
  measurements (`KeptPicked`); these have a least and a greatest value.
* `TimesAreReadBack`: `Spec => []TimesReadBack`, by adding up three parts, those that
  are 0 being left out (`ThreeParts`).

Operators that go over a sequence (`Checksum`, `Kept`, `FlattenSeq`, `Total`) are
recursive functions inside a `LET`.  For each, a lemma shows by induction that
such a function exists, after which its equation may be used, and another what it
computes.  The induction is over sets: a set of numbers with 0 and with each one's
successor is `Nat` (`SetInduction`), since otherwise there would be a least number
outside (`LeastElement`, from `WellFoundedInduction`).

The assumption is `CodecAssumption`, evaluated in the run of `MCCodec`.

### Only model-checked

* Liveness (`EveryCallReturns`, `EveryDownloadReturns`, `EveryRequestAnswered`,
  `EveryRequestEnds`): fairness and `ENABLED` are out of the prover's reach.  What
  is proved is that in each of the four nothing can go round in circles; that a
  request which can take a step at last takes one is left to TLC, and with
  it that one can be taken (`Progress` of a call at any exchange, the lock).
* For two callers `CommitWhole`, `StopTruthful`, `Persisted` and `ImplementsStore`
  do not hold, so neither runs nor theorems are about them.

## 5. Plan

In order of importance; all of it is done.

1. `Logger`: sessions, faults, `EraseConfirmed`, `CommitWhole`, `Persisted`,
   `StopTruthful`, liveness.
2. `LoggerProofs`: type correctness and `EraseConfirmed`.
3. `Download`: packets, preamble, `RecordsFaithful`, `DownloadComplete`.
4. `Site`: prompts, lock, `NothingErasedUnasked`, `OwnPage`.
5. `Frame`, `Decoding`, `Codec`.
6. An abstract store, *what a logger's owner relies on* (records, settings,
   erasing with consent, all or nothing settings), which `Logger` with one client
   implements through a refinement mapping.
7. Proofs about `Site`: types, `OwnPage` (mutual exclusion of the buffer), and
   `NothingErasedUnasked` with "past the prompt and unconfirmed means the
   confirmed count is 0" as invariant.
8. `Discovery` and `DiscoveryProofs`.
9. `Readings`, `ReadRaw`, `-interval`.
10. Proofs about `Download`: types; `RecordsFaithful` and `DownloadComplete` for
   one client without late packets, from `AnswersCurrent`.
11. Proofs about `Codec`: all of its invariants.
12. Proofs about `Logger` with one caller: `StopTruthful`, `CommitWhole`,
   `ImplementsStore`, `Persisted`, from what is on the way to the call.
13. Proofs that calls, downloads and requests leave less of themselves with every
   step: the part of their liveness that fairness is not about.

Not modelled: the text of sysfs files, flag parsing, markup, quoting and the
drawing of charts (formatting with no state and no decision beyond those above),
the udev rule, build files.  Durations are taken to fit: a capacity of more than
106 751 records at 24 hours would overflow `time.Duration` in `loggingTimeText`,
and TLC's integers are narrower than that.
