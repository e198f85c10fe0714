# Formal model of the solar inverter incident control platform

This directory models the platform in TLA+: its backend (Go, gin, gorm) and the
part of its frontend (React) that keeps state. TLC checks the models on small instances, TLAPS proves their central properties for
every size. Paths below are relative to the repository; `internal/` stands for
`backend/internal/`.

## 1. Inventory

**Status machines** (`internal/constants/status.go`, `internal/model/`). No
state. `CanTransition` looks an edge up in one of four tables. The tables must be
closed, and agree with the initial and the seeded statuses.

**Record services and repositories** (`internal/service/`, `internal/repository/`,
`internal/handler/`). State: the tables `solar_sites`, `inverter_units`,
`fault_events`, `mitigation_actions`. Four copies of one pattern: Create, Update,
Transition, Delete and the reads. Every write is two to four SQL statements with no
transaction around them: read the row, check it, write *all* columns of the
snapshot back on condition of the version the client expects, append to the audit
table, read the row again. Removal is soft and not conditional on a version.
Correct means: the writes are atomic and ordered by their versions, no write undoes
another, statuses follow the graphs, answers are true.

**Audit log** (`internal/service/security.go`, `internal/repository/security.go`).
State: the table `audit_logs`, append only. Written by the services after the write
it describes: Create and Update drop its error, Transition and Delete return it.
Correct means: it tells of writes that happened, as they happened, once, and of
all changes of status. It is read in pages, as a summary of five statements, and as the latest entries
of one record. Times are taken before the inserts, so entries come late. Correct means: a
reader misses nothing that was there, or knows why.

**Lists** (`Store.List`, `ListAudits`). No state: a page is a count and a select with
OFFSET over an order that changes between the pages. Correct means: a reader of all
pages knows what he can have missed or seen twice.

**Authentication and roles** (`internal/middleware/auth.go`,
`internal/router/router.go`). State: users in the database, a signed token per session at
the client, none in the server. A token carries the role for its whole life. Hard:
accounts change while logins and tokens are under way, servers restart, time is cut
to seconds. Correct means: rights end within a known time, sessions last as promised,
frontend and server agree on who may write.

**Rate limiter** (`internal/middleware/ratelimit.go`). State: one Redis counter per
key and minute, and in each process a map of buckets under a mutex. A request is
counted in Redis; if that fails, before or after it was committed, it is counted in
the map. Hard: the minute rolls while a request is under way, the map is cleaned,
counters expire, servers die. Correct means: a limit that holds, and no refusal of
a client that kept to it.

**Startup, seeding and shutdown** (`cmd/server/main.go`, `internal/database/`).
State: the process, the schema, the users, the seeded rows. The process connects
with up to 20 attempts under a deadline, migrates, seeds every table that has no
live row, pings Redis once, serves, and is launched again by its supervisor when it
ends. Hard: a boot cut short anywhere, a database that comes and goes, seeding next
to what users wrote and removed. Correct means: whoever serves is completely
set up, a boot harms no record, the service comes back.

**Configuration** (`internal/config/`). State: what `Load` made of the environment, for
the life of a process. Values that cannot be read are replaced, others are refused and
end the boot. Correct means: a process that runs has settings its parts can divide by,
compare with and wait for, and a corrected environment is enough to come back.

**Request context** (`internal/middleware/request.go`): per request, no state.

**Frontend workbench** (`frontend/src/`). State: the session, the list of a page and its
flag `loading` (`stores/factory.ts`), the record and target a dialog asks about, the
drawer with the second confirmation (`components/EntityPage.tsx`). Hard: loads and writes
overlap and are continued in the order of their answers, a dialog keeps an old version, a
call that ends closes the dialogs of another, a move that failed may have happened. Correct
means: what was confirmed is what happens, at most once; a refusal has a reason; the list
does not go back in time by itself; the page does not stay busy.

**Interactions.** A request passes the request context, the rate limiter,
authentication and the role check of its route; its handler calls one service,
which calls its repository and `SecurityService.Audit`. The four services share
the audit table and nothing else. The process keeps no state of the records, so
handlers meet in the database only. The workbench is one of the clients: its versions
are those of a list made some time ago. Startup shares the tables with the services,
but never runs beside them in one process.

## 2. Modules

| Module | Models | State and actions |
|---|---|---|
| `StatusGraphs` | `constants/status.go`, first statuses | operators only |
| `RecordRows` | `model/base.go`, the rows of a seeded database, the unique index | constants and operators: `Row`, `CodeFree`, `InitialTables` |
| `VersionedRecords` | what the services promise of the tables (abstract) | `rows`; `Create`, `Edit`, `Move`, `Remove`, each one atomic step of one row |
| `IncidentRecords` | the services over their repositories and the audit table | `rows`, `audits` (the tables); per request `pc`, `input`, `current` (the handler's statement, arguments and snapshot); `ledger` (history). One action per SQL statement: `Get`, `Insert`, `Store`, `Remove`, `Audit`, `Reread`; `...Arrives` for what is checked before the first; `Crash` |
| `Settings` | `config.Load`, `Validate`, the number parsers | operators: `Load`, `Valid` |
| `Startup` | `main`, `database.Open`, `migrate`, `Seed` | `env` (what the next boot will read; `Reconfigure`), `pc`, `run` (the process, its settings and what it remembers), `dbUp`, `redisUp`, `schema`, `users`, `rows`. One action per statement or wait of a boot, `Stop`, `Drained`, failures and their repair |
| `RateLimiter` | `middleware/ratelimit.go` | `counters`, `touched` (Redis), `local` (the maps), `req` (the handlers), `now`; four history variables. `Arrive`, `Exec`, `FallsBack`, `CountLocally`, `Refuse`; `Expire`, `Tick`, `Restart` |
| `Sessions` | `middleware/auth.go`, `securityService.Login`, the routes' roles, `frontend/src/api/client.ts` | `accounts` (the users), `key`, `session` (what clients stored), `req` (the handlers), `now`, `left` (history). `LoginArrives`, `Find`, `Sign`, `Deliver`; `Call`, `Authenticate`, `Finish`; `SetAccount`, `Restart`, `Tick` |
| `RecordPages` | `Store.List`, page sizes | `rows` (listed or not, last write), `walk` (a reader of all pages), four history variables. `Start`, `Count`, `Find`; `Enter`, `Write`, `Leave` |
| `AuditReads` | `ListAudits`, `EntityHistory`, `SummarizeAudits`, limits and windows | `slots` (entries being made and stored), `reader`, `walk`, `history`, `summary`, `now`. One action per statement |
| `Workbench` | `EntityPage.tsx`, `stores/factory.ts`, the lists of statuses in `types/status.ts` | `items`, `loading` (the store); `pending`, `drawer`, `creating` (the page); `calls` (each asynchronous function: its request is sent, served, continued); `rows` (the server's table); `reviewed` (history). The user: `Load`, `Revisit`, `Open`, `Confirm`, `Check`, `Execute`, ...; `Serve...`; `Listed`, `Continue`; `OthersWrite` |
| `MCRecords`, `MCStartup`, `MCRateLimiter`, `MCSessions`, `MCAuditReads`, `MCWorkbench` | small instances | constants for TLC |
| `*Proofs` | theorems | section 5 |

`IncidentRecords`, `VersionedRecords`, `Startup` and `Workbench` extend `RecordRows`;
`Startup` also extends `Settings`. `VersionedRecords` is where the parts meet:

* `IncidentRecords` implements it (`INSTANCE VersionedRecords WITH rows <- rows`, property
  `AtomicRecords`, theorem `HandlersAreAtomic`).
* `Startup` takes its handlers' writes from it, creation and removal, since a boot
  only counts and inserts rows. The refinement is what allows a boot to be modelled
  beside atomic writes in place of whole handlers.
* `Workbench` takes the other clients' writes and its own creation from it. A move of
  its own is written out, as the service accepts or refuses it, and the whole is shown to
  be `VersionedRecords` again (`ServerRows`).

`Sessions`, `RateLimiter`, `RecordPages` and `AuditReads` stand alone: no handler looks at
an account or a counter, and no read changes a row.

Abstractions. A row keeps its phase (absent, live, removed), status, version, code
and one opaque value for the business fields. A code is a model value; `Canonical`
does what trimming and upper-casing do to it: several raw codes fall together, one
becomes blank. An answer is its error code. The audit row keeps who, what, before
and after, and carries as a history field the version the table has no column for.
A statement that fails may or may not have committed (`Breaks`, `FallsBack`).
`ledger` records each committed write with the status the row *really* had; the
audit table is judged against it.

Definitions marked "Variant" are wrong versions of the definition after them. The
specifications do not use them; substituting one shows which property notices the
bug.

## 3. What is checked

| Run | Instance | Shows |
|---|---|---|
| `records_race` | 2 handlers, 1 mitigation action, 2 field values, versions to 3, every statement may fail, crashes | the heart: snapshots are coherent when written back, one winner per version, audit rows true and never repeated, `VersionedRecords` implemented (and with it: statuses follow their graph), successes and conflicts honest |
| `records_tables` | 2 handlers; a site, a fault, an inverter and a free key; raw codes that collide after trimming; targets of the own table, of another, and unknown ones; no failures | codes stay unique, also against removed rows; each row keeps to the statuses of its own table; every change of status is audited when nothing fails |
| `records_unaudited` | 1 handler, failures | **violated** (`EveryMoveAudited`): a committed move may never be audited |
| `records_stale_removal` | 2 handlers, an inverter, no failures | **violated**: the audit row of a removal may name a status the record no longer had |
| `records_pipelined` | 2 handlers, a client one version ahead | **violated**: an update may write an old status back |
| `startup` | 5 keys in four tables, 2 attempts, 2 faults, 7 environments that change between boots | a serving process is complete and has usable settings; boots touch no existing row; the service becomes healthy again unless its environment is refused or a whole table was removed |
| `startup_purged` | the same in one valid environment, no faults | **violated**: without the second exception |
| `limiter` | 2 requests at a time, 2 clients, limit 1, threshold 1, 3 minutes, failures and restarts | the limit holds per counter; refusals are earned; a refused client is told a time after the minute that was full; cleaning drops stale buckets only, and bounds them |
| `sessions` | 1 user, a known and an unknown role, 2 kinds of routes, 2 requests, 2 keys, 4 ticks of half a second | requests are judged by rights less than a token's life and a login old; tokens last their life, less a second; server and buttons agree on who may write |
| `record_pages` | 4 records, 2 times of writing, pages of 1 and 2 | a walk through the pages misses nothing untouched unless a record leaves, repeats nothing without a write, and a page outnumbers its total only after a newcomer |
| `audit_reads` | 3 entries of 2 actors about 2 records, 3 times, pages of 1, histories of 1 and 2, two windows | a walk through the log misses no entry that was there, ties apart; a history loses an entry only to one at least as young; the five counts of a summary differ in one direction only |
| `workbench` | a page of fault events, 1 record, 2 calls at a time, other clients, requests that fail before or after they took effect | a move takes effect on the record exactly as its dialog showed it, and at most once; it is refused only if the record is another by then; remote moves pass both confirmations; the list made after a move shows it; the list goes back in time only if loads overlap; the page does not stay busy |

### Bounds, and why they are enough

* `MaxVersion`: no client asks for a write past it. Three versions give a write
  before, between and after another handler's read and write; a longer history
  repeats these.
* `Requests`: two handlers make every pairwise race; a third writer is covered by
  the theorems, which hold for any number.
* `Targets`: `draft` and `executing` are neighbours in one direction only, so
  allowed and forbidden moves both occur. `records_tables` does the same for the
  graphs of faults and inverters; `StatusesFollowGraph` covers all four.
* `Lookahead`: 0 is a client that only sends versions it was shown, which is what
  the frontend does. 1 is one that pipelines requests.
* `FewWrites` (`records_tables`): no behaviour is followed beyond its third write.
  Two handlers with four tables before them need two writes to collide, and a third
  to come after; the table, not the length of its history, is the question of this run.
* `Faults`: failures and crashes are unlimited where it is `TRUE`.
* `MaxFaults` (startup): two failures can hit two consecutive boots, or one boot
  twice. Stops, boots and changes of the environment are not bounded.
* `Environments` (startup): nothing set, the containers' environment, two in which
  defaults replace what is blank, unreadable, zero or negative, and three that are refused,
  with values at the borders (keys of 15 and 16 characters, limits of 0, 9 and 100000).
* `MaxAttempts` = 2, 20 in the code: a first and a last attempt. The environments set
  deadlines of 1, 2 and 35 seconds: within the attempts, with the last one, and never.
* `Limit` = 1, `Threshold` = 1: the smallest values with something below, at and
  above them. `MaxMinute` = 2 lets a counter expire; requests arrive in the first two
  minutes, and are counted in all three. `MaxSeen` = 2 lets a client exceed the limit
  in every minute it arrives in. One server: two requests meet in Redis whatever
  servers they belong to, a server without Redis behaves as one whose transactions
  all fail, and `LimitHolds` covers any number of both.
* `Sessions`: `Second` = 2 and `TTL` = 2 make the rounding of an expiry visible,
  `MaxLogin` = 1 lets an account change between its reading and the signing, and
  `MaxTime` = `TTL + MaxLogin` is the first moment at which old rights must be gone.
  `MaxLogin` is an assumption, not a bound: the code has no limit of its own for a
  login, and the delay of rights is stated in terms of it.
* Lists: pages of one or two of three or four rows have a first, a middle and a last
  page. Records may be written any number of times within `MaxStamp`.
* Workbench: one record is enough, since two of them only meet in the dialogs, which
  hold one at a time, and the theorems are about any number. An overlap takes two
  calls: the older can end before or after the younger. `MaxVersion` = 3 leaves room for a
  move of the user between two writes of others. `Keyboard` = `FALSE` is a user with a
  pointer, who cannot reach what a dialog covers.

Deadlock checking is on in every run but `workbench`, where everything may stop: once
the record is removed or at its last version and a page is open, nobody has to act.

### Fairness

`Startup`: weak fairness of `Boot` and `Drained` (a running process goes on; every wait
in the code is bounded by a timer), of `Launch` (`restart: unless-stopped` in
`docker-compose.yml`, and whoever stops the service starts it again) and of
`DatabaseReturns` and `RedisReturns` (the same policy for the two stores). Handlers,
stops, failures and changes of the environment are never forced.

`Workbench`: weak fairness, for each call, of its being served (the server answers or the
request fails, by the server's and the client's time-outs) and of its continuation (the
browser runs what an answer has made ready). The user and the other clients owe nothing.

## 4. Disagreements found

1. `records_unaudited`: the status is committed, then the answer to the UPDATE is lost, the
   process dies, or the audit insert fails. The client gets an error or no answer. Its retry reads the record in the
   status it asks for, and no edge leads from a status to itself: it gets a 422
   (`business_rule`), and no audit row is ever written. `README.md` promises one for every change of status.
2. `records_stale_removal`: Delete reads the row, removes it without a version, and
   audits the status it read; a transition in between falsifies the entry. The property
   compares record and statuses only: an edit in between harms nothing.
3. `records_pipelined`: Update never compares the version it read with the one it
   was sent. If the client sends the version its preceding request is about to
   produce, the update reads the old row, and then matches the new version: the old
   status is written back under a newer version, along no edge of the graph.
4. `startup_purged`: seeding counts live rows, the unique index holds removed ones.
   Once the last live record of a table is removed, no later boot succeeds: the run shows it
   on an instance, `PurgesDoLast` for all constants.

## 5. What is proved

All theorems hold for any number of records, requests, codes, fields, versions,
servers, keys, minutes, attempts, environments, users, lives of tokens, audit entries and
overlapping calls, and with failures and crashes. They assume
what the modules assume of their constants: `RowsAssumption` (seeded rows have
known statuses and different codes), `RequestsAssumption`, `SettingsAssumption`,
`StartupAssumption`, `LimiterAssumption` (finitely many goroutines), `SessionsAssumption`,
`PagesAssumption` (finitely many records), `AuditReadsAssumption` (finitely many entries),
`WorkbenchAssumption`.

| Theorem | Property | Beyond that it assumes |
|---|---|---|
| `TypeCorrect`, `CodesStayUnique` (`IncidentRecordsProofs`) | `TypeOK`, `CodesUnique` | nothing |
| `OneWinner`, `AuditsAreUnique`, `SuccessesAreDurable`, `RevisionsAreInOrder` (`RecordAtomicityProofs`) | `OneWinnerPerVersion`, `AuditOnce`, `SuccessIsDurable`, `RevisionsInOrder` | nothing |
| `UpdatesAreCurrent`, `AuditsAreTrue`, `HandlersAreAtomic`, `StatusesFollowGraph`, `ConflictsAreJustified` (`RecordAtomicityProofs`) | `SnapshotCoherent`, `AuditTruthful`, `AtomicRecords`, `StatusFollowsGraph`, `ConflictJustified` | `Lookahead = 0` |
| `ChangesAreAudited` (`RecordAtomicityProofs`) | `EveryChangeAudited` | `Lookahead = 0`, no `Faults` |
| `ServingHasAll`, `BootsAddOnly`, `SettingsStayUsable`, `StartupTyped` (`StartupProofs`) | `ServingIsReady`, `BootKeepsRecords`, `SettingsUsable`, `TypeOK` | nothing |
| `BootEndsAreExplained`, `PurgesDoLast` (`StartupProofs`) | `BootEndsExplained`, `PurgesLast` | nothing |
| `LimitHolds`, `RefusalsAreEarned`, `ResetsStayFresh`, `StaleBucketsAreBounded`, `LimiterTyped` (`RateLimiterProofs`) | `AdmittedBounded`, `RefusalsEarned`, `ResetsAreFresh`, `StaleBucketsBounded`, `TypeOK` | nothing |
| `RightsStayRecent`, `SessionsDoLast`, `ButtonsDoAgree`, `SessionsTyped` (`SessionsProofs`) | `RightsAreRecent`, `SessionsLast`, `ButtonsAgree`, `TypeOK` | nothing |
| `UntouchedAreShown`, `RepeatsAreExplained`, `TotalsAreExplained`, `OffsetsStayInTable`, `PagesTyped` (`RecordPagesProofs`) | `UntouchedShown`, `RepeatsExplained`, `TotalExplained`, `OffsetsInTable`, `TypeOK` | nothing |
| `WalksShowEntries`, `HistoriesDropOldest`, `SummariesGrow`, `AuditReadsTyped` (`AuditReadsProofs`) | `EntriesShown`, `HistoryDropsOldest`, `SummaryGrows`, `TypeOK` | nothing |
| `MovesAreAsShown`, `RefusalsAreStale`, `MovesAreListed`, `BackNeedsOverlap`, `IdlePagesAreQuiet`, `ServerIsVersioned`, `PageTyped` (`WorkbenchProofs`) | `MoveAsShown`, `RefusedOnlyIfStale`, `MoveIsListed`, `BackOnlyByOverlap`, `IdleIsNotBusy`, `ServerRows`, `TypeOK` | nothing |
| `RemoteMovesAreReviewed` (`WorkbenchProofs`) | `ReviewedFirst` | `Keyboard = FALSE` |

`StatusFollowsGraph` is checked at `Lookahead = 1` alone, by the run that violates it: at 0 it is
a consequence of `AtomicRecords`. `RevisionsInOrder`, `BootEndsExplained`, `PurgesLast`,
`OffsetsInTable` and `IdleIsNotBusy` are proved only; all but the last, which is in `Workbench`,
are defined in the modules of their proofs.

The first two assumptions are needed for what they are made: `records_pipelined` and
`records_unaudited` are the counterexamples without them. The second only asks that
no statement fails and the process lives. The third is about the browser: a dialog
does not take the focus, so what lies behind it can still be pressed from the keyboard.

**The records.** `TypeOK` is not inductive: it does not say that a handler about to
insert has a code, or that one about to write has a usable snapshot. `TypeInv` adds
what holds at each statement, including that two pending inserts have different
keys. `CoreInv` adds four things. (1) Coherence: the snapshot's version <= the row's, and
a live row at the snapshot's version *is* the snapshot; this is preserved because every
write raises the version or ends the row. (2) The ledger has exactly one conditional entry
for every version after the first: hence one winner per version. (3) No audit row is ahead
of the version of its row. (4) A handler about to audit has its write in the ledger and not
yet in the audit table.

All this holds whatever versions clients send. What depends on `Lookahead = 0` is guarded
by it in the invariant: expected version <= the snapshot's, so that an UPDATE that matches
finds expected = snapshot = row and writes on the latest row, and a mismatch means that
somebody took the version; and every audit row about a creation, an edit or a move is in the
ledger with the statuses it names. Without it the update of `records_pipelined` still takes
the next version, as the only one, under the code the record always had: what it gets wrong
is the status. `RevisionsInOrder` says so step by step.

With it, `AtomicRecords` follows step by step: each action is one of the four
atomic writes on the latest row, or leaves the tables alone. `ChangesAreAudited` follows
a write from the ledger to the handler that owes its audit row (`Accounted`), and from
there to the audit table.

**Startup.** `ServingIsReady` needs to know why a table that is not empty needs no
seeds: the seeds of a table come together, before any other row of the table, since
handlers only run when all seeds are there. The invariant also says that seeded
rows carry the seeded codes, which is why the unique index makes a boot fail
rather than change a row. `SettingsUsable` follows from `Valid` for all settings but the life of
tokens, which is not validated, and for that from the parser, which replaces what is not
positive. `BootEndsExplained` and `PurgesLast` are what safety can say of `HealthyUnlessPurged`:
the invariant `Unpurged` says that a boot has found no table removed as a whole among those it
has passed, so its seeds collide with nothing else, and a boot that nothing outside cuts short
has nothing to stop at but that. And as a purged table is only changed by handlers, of which
there are none until a process serves, it stays purged.

**Rate limiter.** A Redis counter accounts for all requests it admitted until two
minutes after its own, when no transaction for it can be under way; a bucket of the
current minute is never cleaned, so it accounts for all requests its process
admitted in it. One assumption about the environment is in `Tick`: a Redis
transaction does not last a whole further minute, since the client's own time-outs
end it within seconds. For refusals the same sums are bounded from the other side: a
counter together with the requests still on their way to it never exceeds the
requests seen in its minute, and a new minute begins with having seen those still on their
way. The local map, when below its threshold, grows by one key; at the threshold it is
first cleaned down to the current minute.

**Sessions.** Every token, under way or stored, was issued no later than `MaxLogin`
after its user was active in its role: an account is read while that is so, a login
that has read it is signed in time (`Tick`), and a change of the account records the
moment the role was left. The expiry is `TTL` after the issue, less a part of a second
(`Rounding`). The theorems follow from what `Authenticate` requires of a token;
`ButtonsAgree` is inductive, and rests on the ranks alone (`WritersAgree`).

**Lists.** The order of a list has no ties, so the positions of its records are 0, 1, 2, ...
without gaps (`PositionsDiffer`, `PositionsFill`: an injection of a finite set into an interval of
its size). A page that a record follows is therefore full, and the reader goes on. As long as no record
leaves, a record that nobody writes only moves to later positions (`PositionsRise`): until it was
shown, it is at the walk's offset or beyond (`KeptAhead`). As long as none is written or enters,
it only moves to earlier ones (`PositionsFall`): once shown, it stays behind (`ShownBehind`). A page
that is not empty has its whole offset before it in the list, which bounds the total and
the offsets themselves.

**Audit reads.** For an entry whose time nobody shares, the stored entries before it in the
list are the younger ones, and they only become more; the walk's offset never
passes their number before the entry was shown. A history that lacks an entry it had is full, and
so holds one that is new and at least as young (an exchange argument). Stored entries stay, so
the later counts of a summary are of larger sets.

**Workbench.** The invariant says of each record the page holds, in its list, its
dialogs or a call, that it is not newer than the server's row, and equal to it if it has
its version. A call that was refused or failed changes nothing of that, so it does not matter how often a
dialog is confirmed again. `RefusedOnlyIfStale` rests on the lists of statuses being paths
in the server's graphs. `BackOnlyByOverlap` follows the history field `fresh`: a list that
was asked for after the last one was shown was made from rows not older than it.
`ReviewedFirst` needs that the open drawer belongs to the reviewed move; the only step
that could break it is `Open` behind the drawer.

**Model-checked only**: `HealthyUnlessPurged` and `BusyEnds` (liveness, out of the prover's
reach), and the four violations.

## 6. Not modelled

* The overview (one count per table, of different moments): nothing relates them.
* Pages so far out that the product of page and size wraps: the models count without
  a width. `OffsetsStayInTable` shows that a reader who goes on while pages are full never
  asks for one; a client that makes up a page number is not modelled.
* The order of two late entries of one record in the log: the table has no version, so
  a reader has nothing to compare the order with.
* Request ids, headers, logging, recovery from panics, formatting of answers, the list
  of allowed origins, `Limiter.Status`: no state, and no property is about them.
* Frontend: layout, styling, the static pages; the error texts of the store.
* Deployment: the containers appear as fairness (restart policies) only.
* Several backend processes on one database: the deployment runs one. The handlers
  of `IncidentRecords` could belong to any number of processes, except that `Crash`
  ends them all; `Startup` has one process at a time.
* Clocks that differ between servers, a Redis that loses its data.

## 7. Plan

1. Done: status graphs and rows; `VersionedRecords`; `IncidentRecords` with its runs
   and proofs; `Startup` and `RateLimiter` with theirs.
2. Done: `Sessions` with its proofs, `RecordPages`, `AuditReads`.
3. Done: `Workbench` over `VersionedRecords`; `Settings`, and the environment of a boot;
   histories of records; late answers of the rate limiter.
4. Done: proofs of `Workbench`, `AuditReads`, of the limiter's refusals and its map, and all
   type invariants.
5. Done: proofs of `RecordPages`; the records for any `Lookahead`, as far as they hold;
   why boots end, and that a purge is final.
6. Left: what a far page answers, as an operator on bounded integers, checked against a
   definition; a workbench with two pages that share the server.
