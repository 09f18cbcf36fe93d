# Citadel (dns-compliance): verification project

Citadel checks whether domains that a regulator ordered blocked are really
unreachable through the DNS servers of the country's ISPs. A *dashboard* process
(`cmd/server`) keeps the watchlist, the cases and the results in PostgreSQL and
serves the web frontend; a *crawler* process (`cmd/crawler`) does the DNS look-ups
and screenshots. They talk gRPC in both directions: the dashboard calls `StartSweep`
on the crawler, and the crawler calls `Submit` on the dashboard while that call is
still open.

This directory holds TLA+ models of that system, the TLC runs that check them on
small instances, and TLAPS proofs of the most important results for every instance. The runs
are listed below; each of the modules named `...Proofs` is checked with `tlapm`.

    cd tla
    tlc -workers 2 -config ScanControl_safety.cfg MCScanControl
    tlc -workers 2 -config Console.cfg MCConsole
    tlapm ScanControlProofs.tla

## Inventory

| Component | State | Operations | Interacts with | What is hard | Correct when |
|---|---|---|---|---|---|
| Scan control (`server/scanner.go`) | `running`, `cancelRun`, one goroutine per scan with its context and local `status` | `Trigger`, `TriggerScreenshot`, `Cancel`, `IsRunning`, `run`, `runScreenshot`, `runCrawler` | HTTP handlers, schedulers and the notifier call it; it calls the crawler and the database; publishes progress | check, unlock, check again; cancel against end of run; the call to the crawler ends before the crawler does | one scan at a time; the slot is given back; each row is closed once, by its scan |
| Run ledger (`db/postgres.go`) | `scan_runs`, `scan_results` | `CreateScanRun`, `CompleteScanRun`, `ActiveScanRun`, `InsertResult(s)` | scan control, `Submit`, progress | rows left `running` by a crash; results are attributed by asking which run is running | results belong to the run that asked for them; `completed` means everything arrived |
| Crawler control and sweep (`cmd/crawler`) | `controlServer.running`, the sweep's channels and batches | `StartSweep`, `runSweep`, `streamResults` | called by the dashboard; calls `Submit` | a sweep outlives its caller; a batch can be lost; the last batch must be in before the answer | one sweep at a time; every result sent or logged |
| Result ingestion (`server/grpc.go`) | none of its own | `Submit`, `fetchAndCacheIPInfo` | crawler, database, object store, progress | reads the active run once and inserts later; answers Ok whatever was stored | rows carry the right run |
| Progress stream (`server/broadcaster.go`, `handlers.go`) | subscribers and their buffers (8) | `Subscribe`, `Publish`, `Unsubscribe`, `ScanProgressStream` | scan control and `Submit` publish | snapshot before subscribe; the newest payload is dropped when a buffer is full; payloads are built without a lock, and a build that fails publishes nothing | a viewer ends up seeing the final state |
| DNS pipeline (`internal/pipeline`) | two worker pools, three channels | `Run`, `checkDNS`, `takeScreenshot` | crawler sweep | closing channels in order; pools of size 0 | one result per URL, and it returns |
| Due-date notifications (`internal/notify`, `case_handlers.go`) | one queued task per (department, URL) in Redis | `RescheduleDueDate`, `handleDueDateCheck` | case handlers enqueue; the handler triggers a scan and polls for its end | retries, tasks that are running while they are rescheduled, another scan in the polling gap, times of two clocks | one notification per due date, about that date's scan |
| Resurfaced notifications (`internal/notify`) | notifications | `handleResurfacedSweep` | periodic task | check, then create, without a transaction; times of two clocks, ties and late results | one notification per regression |
| Schedulers (`server/scheduler.go`) | the wait of each loop, two reset channels | `StartScheduler`, `StartSLAScheduler`, `NotifyScheduleChanged` | scan control, settings | coalesced resets; an empty list means "everything" | no domain is scanned by the wrong loop; an empty sweep is never triggered |
| Watchlist and cases (`db/cases.go`, `case_handlers.go`, `handlers.go`) | `department_urls`, `cases`, `case_urls` | add, remove, toggle, create, update | HTTP handlers, importers, due dates | several writes without a transaction; two removals at once | no case without a domain; a domain added by a case is not scanned unless enabled |
| Accounts, sessions, rate limit (`server/auth.go`, ...) | `users`, `sessions`, buckets | log in, log out, clean up | every handler | expiry against clean-up | an expired session opens nothing |
| DNS resolver (`internal/dns`) | connections | `Resolve`, fallbacks, `Classify` | pipeline | fallback order, pooling | an answer is one some server gave |
| Enrichment (`whois`, `ipinfo`, `favicon`, `subfinder`) | cache tables | fetch, upsert | ingestion, handlers | late fetch overwrites a newer row | - |
| Import, export, legal citations (`blockimport`, `blockexport`, `legalcite`) | none | read and write spreadsheets | cases | repeated imports | importing twice changes nothing |
| Reports (`db/postgres.go`) | none | SQL aggregates | handlers | - | - |
| Domains page (`routes/urls.tsx`, `use-grid-preference.ts`) | filters, page, layout, rows, requests under way | fetch effects, debounce, `useGridPreference` | HTTP handlers | old answers; the saved layout arrives after the page; a save after a pause | rows answer the controls; the layout is kept |
| Edits in place (`urls.tsx`, `dns-servers.tsx`) | a cell, edits under way | toggle, choose, roll back | handlers, reloads, other users | rolling back over a newer value; a reload that crosses an edit | the cell shows what is stored |
| Case dialog (`AddUrlDialog` in `urls.tsx`) | form, a save of several requests | `handleSubmit` | case handlers | one request of several fails; a retry of the rest | a save that ends well has stored all |
| Notification bell (`notification-bell.tsx`) | badge, list | poll, open, dismiss, clear | notification handlers | optimistic counts against answers that overtake each other | the next poll corrects it |
| Cascader loader (`cascader-async.tsx`) | per level: nodes, controller, request number, latch | `runLoad`, `loadMore`, `retry`, `invalidate`, closing | a `loadChildren` given by the page | answers to abandoned requests; a level left loading for ever | no stale node, no lost page, no dead load |
| Filter query (`filters-query.tsx`, `filters-dnd.tsx`) | a tree of rules and groups, a drag | insert, move, wrap, unwrap, remove, prune, drop | filter editors | a move into the moved group; indices that shift; slots measured before an edit | it stays a tree; a row lands where it is dropped |
| Rest of the frontend (cascader picker, filter editors, data grid kit, other pages, widgets) | rendering state | - | HTTP | - | - |

## Plan

In order of importance; a later module may EXTEND or INSTANCE an earlier one.

1. **ScanControl** (done): scan control, run ledger, crawler sweep and ingestion in
   one module, because their hazards are about the order of each other's steps.
   Abstract specification **ScanLedger**. Theorems in **ScanControlProofs**.
2. **Sweep** (done): one sweep from the inside, its worker pools, channels and
   batches. Abstract specification **Outbox**. Theorems in **SweepProofs**.
3. **DueCheck** (done): a due-date task from the queue to the notification, over the
   Scanner as ScanControl describes it. Theorems in **DueCheckProofs**.
4. **Progress** (done): broadcaster, viewers and the publishes of a run: what a
   viewer shows is what the ledger says, in the end. Theorems in **ConsoleProofs**.
5. **Cases** and **DueDates** (done): the handlers of several writes, the dialog that
   calls them, and the tasks in the queue against the stored dates. Theorems in
   **CaseProofs**.
6. **GridPage**, **RowEdits**, **NotificationBell**, **CascaderLoader**,
   **FilterQuery** (done): the parts of the browser console that keep state over
   several events. Theorems in **PageProofs** (the page, its edits and the cascader),
   **FilterQueryProofs** and **ConsoleProofs** (the bell, and all parts together).
7. **Schedule**, **Selection**, **Streak** and **Resurfaced** (done): the two scheduler
   loops and the channels that wake them, what they select, the streak rule of
   `SLAActiveURLs` against a reference definition, and the resurfaced sweep. Theorems
   in **BackgroundProofs**.
8. **Import** (a block list imported twice changes nothing), **Sessions**, the
   resolver's fallbacks, the caches that a late look-up overwrites (to do).
9. Proofs (done): every safety property that a run checks is a theorem. What is left
   to TLC is liveness.

Questions about one module with the same bounds go into one run, and small modules
that share no state into one run of MCConsole or MCBackground. A run finishes in a few minutes.

## Modules

### ScanControl

One variable per piece of program state; every action is one step between two
points where another process can be seen.

| Variables | Code |
|---|---|
| `running`, `cancelRun` | the fields of `Scanner`; contexts are named by their scan, 0 is nil |
| `caller` | goroutines between the two critical sections of `Trigger` |
| `launched`, `kind`, `pc`, `ctxDone`, `outcome` | the scan goroutines: which function, where, whether their context is cancelled, `runCrawler`'s `status` |
| `status`, `rows` | `scan_runs.status`; `scan_results` with who checked what and the `scan_run_id` it got |
| `crawlerBusy`, `sweep`, `todo`, `waiting` | `controlServer.running`; each `StartSweep` call on the crawler's side; results not yet sent; the batch in the open `Submit` |
| `submits` | `Submit` handlers between their read of the active run and their inserts |
| `orphans`, `disturbed`, `dropped`, `faultsLeft` | history: rows whose goroutine is gone, scans one of whose calls was cut short, results a log line reports lost, the fault bound |

Actions, by the code they stand for:

- `Scanner`: `Precheck`, `Trigger`, `TriggerRefused` (the two critical sections of
  `Trigger` with the unlocked pre-checks in between), `TriggerScreenshot`, `Cancel`.
- the goroutine: `NothingToScan` (every early return), `CreateScanRun`, `StartSweep`,
  `StartSweepCancelled`, `SweepAnswered`, `SweepAborted` and `SweepCallBroken` (the
  three ways the call ends), `CompleteScanRun`, `CompleteScanRunFails`,
  `SetRunningFalse` (the deferred call).
- the crawler: `BeginSweep`, `RefuseSweep`, `RequestLost`, `SendBatch`, `SendReturns`,
  `SendFails`, `NoticeCancel`, `FinishSweep`.
- ingestion: `SubmitReads`, `SubmitReadFails`, `SubmitInserts`.
- restarts: `DashboardRestarts`, `CrawlerRestarts`. Nothing in `cmd/server/main.go`
  touches `scan_runs` rows that are still `running`, so neither does the model.

What is abstracted. An item is a (URL, DNS server) pair and its verdict is not
modelled. The ids of `scan_runs` are the numbers of the scans, which create their
rows in that order. `Submit`'s inserts are one step because nothing reads
`scan_results` in between that a property tells apart. The publishes of progress
payloads are left out: `Publish` never blocks and returns nothing. `screenshot_url`
and the IP information cache are left out, so `fetchAndCacheIPInfo` and the uploads
are not in this module. `CreateScanRun` returns its row and its error in one
`return` statement, whose order of evaluation Go leaves open; the compilers in use
read the row after the insert, and so does the model.

The lines under "Mutated forms" in the module are not part of the specification.
Each is a mistake the code could make; putting it in the place of the action it is
named after makes TLC find the property it is meant for violated.

### ScanLedger

What the dashboard promises without saying how: a slot that one scan holds at a
time, and a ledger in which only the holder may open and close an entry, once.
ScanControl implements it with `launched`, `cancelRun` and `status`: checked by TLC
(`ImplementsLedger`) and proved (`LedgerRefinement`).

### Sweep

One call of `runSweep`, step by step: per DNS server a call of `pipeline.Run` with
`DNSWorkers` and `ScreenshotWorkers` goroutines, and one streamer goroutine that
sends batches with `Submit`. ScanControl sees all of this as `SendBatch`,
`SendReturns` and `FinishSweep`; Sweep shows that these are a fair summary.

| Variables | Code |
|---|---|
| `stage`, `verdict` | where each (server, URL) is: in a channel, in a worker's hands, in `results`, in a batch, sent; the verdict of its check |
| `dnsLeft`, `shotsLeft` | the workers still in each pool, the two `WaitGroup`s |
| `screenshotClosed`, `resultClosed`, `sendClosed` | the closed channels |
| `returned`, `main` | which calls of `Run` have returned; where `runSweep` is |
| `takeScreenshots`, `ctxDone`, `streaming`, `faultsLeft` | the kind of sweep; whether it is cancelled; whether the streamer still runs; the fault bound |

A channel is the set of items whose `stage` says that they are in it, with its
capacity as a guard of the send: no property depends on the order in a channel. A
worker's identity does not matter either, so a pool is a number and a busy worker is
an item in its hands. The branch of `streamResults` for a crawler without a
dashboard is left out: a sweep that `StartSweep` begins always has one. The images
of a screenshot sweep are left out; their capture delays `runSweep` and nothing else
that is modelled.

### Outbox

What a sweep promises the dashboard: each result is held, then sent in one batch or
lost with a log line, and the sweep is over only when none is held. Sweep implements
it: checked (`ImplementsOutbox`) and proved (`OutboxRefinement`).

### DueCheck

`handleDueDateCheck` and the queue that runs it. A task is one (department, domain);
the handler's position is `pc`, its local variables are `before`, `mine` (the scan it
triggered; the code knows it only as "no scan is running any more") and `found`.
`told` holds every notification ever created. The queue is asynq, modelled from how
`internal/notify` uses it: a handler that returns an error is run again until
`MaxRetry`, then the task is archived; a handler that dies with its process is found
by its lease and counts as a retry.

The Scanner and the crawler appear as ScanControl leaves them: one scan (`scan`), the
rows still running (`openRuns`), one sweep that may outlive its scan (`sweep`,
`left`). `Submit`'s read and insert are one step with the check here; their
interleavings are ScanControl's subject.

The reply of the INSERT may be lost after it was done (`CreateNotificationUnheard`): the
handler returns the error and its task is tried again. `brokenOff` counts these and the
deaths of a handler with its process, which are what may repeat a notification.

Time is counted in ticks of the dashboard's clock, several to a second, because the defect
of `due_outcome` is about fractions of a second: `before` and `until`, the ends of the
handler's query, keep them, `scanned_at` (`Unix`) does not. The two come from different
machines (`DEPLOYMENT.md`: dashboard and crawler run on separate hosts), and nothing in the
code compares their clocks: a result is stamped on a clock that is ahead of the
dashboard's by one of `Skews`, a negative number for one that is behind, and by another
for another result. `ReportsItsScan` excuses exactly the checks whose stamps can lie
outside the query for that reason or for the fraction (`OutOfReach`).

### Progress

The way of a payload from the code that builds it to the button it disables.

| Variables | Code |
|---|---|
| `run`, `phase`, `job`, `submit` | the newest row of `scan_runs` that is not a screenshot's; where the scan goroutine and a `Submit` are |
| `built` | the payload that `runCrawler` or `Submit` has built and not published |
| `stream`, `buffer`, `line` | `ScanProgressStream`: not connected, snapshot sent, subscribed; the subscriber's channel; what is on its way to the browser |
| `call`, `scanning`, `was`, `lists` | `RootLayout`: the POST that starts a scan, `scanning`, `wasScanningRef`, and the reload signal of the lists |
| `behind`, `missed` | history: why the screen may be wrong |

A payload is the row as its builder read it; `LastScanRun` skips the rows of
screenshots, so a screenshot publishes whatever scan came before it.
`buildProgressPayload` reads three times and may fail: then the scanner and `Submit`
publish nothing, and the stream begins without a snapshot. All three builds of the model
have that outcome, and no fault budget limits it.

`behind` names the five ways a viewer is left with something old: `"unbuilt"`, a payload of
the scanner or a snapshot that could not be built; `"gap"`, a publish of the scanner
between its snapshot and its subscription; `"full"`, one that found its channel full;
`"late"`, a payload built before the row changed and published after; `"answer"`, the
answer to its own POST handled after the payloads of that scan. A new run clears them all;
a payload that is as the row is, in a snapshot or published into its channel, all but the
last; and any payload that is handled the last. A payload that `Submit` fails to build
leaves nobody behind, since the row is still what viewers were told. `missed` is the same
for the lists: the viewer may not know that the newest run was open. It is set by a
publish of the scanner that did not reach the viewer, built or not, by one that was older
than the row, and by a connection that breaks with payloads on their way; being told that
the run is open resets it. `progress_stuck` shows what the gap does to a viewer.

### GridPage

The domains page. React runs the effects of a change before anything else happens, so
an action is an event with all effects it sets off: changing the status goes back to
the first page and asks for both lists, once. A request in `fetches` is stale once its
effect was cleaned up. A layout stands for sort order and page size. `unsaved` names
why the saved layout may differ from the screen: two saves under way, a failed one, or
the page left within the pause. The next save that meets no other clears it.

### RowEdits

One cell, edited by this user and others, with the reload of its list. `reasons` names
what may leave it wrong: `"overlap"`, two edits at once, of which the older's rollback
or answer wins; `"lost"`, an edit that was stored and whose answer was not received;
`"race"`, a reload that crossed an edit; `"others"`, an edit by somebody else. The next
undisturbed reload clears them.

### NotificationBell

The badge is counted down at once and set by polls; a request that fails is left to the
next poll. Answers may come in another order than they were asked for.

### CascaderLoader

`useCascaderLoader` on a set of levels. A node carries the generation its level had when
it was asked for, so that `NothingFromBefore` can see one that an invalidation should
have kept out. It excepts nodes that `resolveValue` found: their answer is dropped after
a change of `loadKey` but not after an invalidation. A level whose popup was closed
while it was loading and had nodes is marked `cut` until its next page arrives, and
`LoadedIsWhole` excepts it: closing drops the request and leaves `moreLatch` set, so the
page is not asked for again until the level is reset. Every page has nodes: an
empty one, which the latch keeps from being asked for for ever, is left out. `latest.current` is written in an
effect (`cascader-async.tsx:315-326`) and taken to change with the commit before it; so
are the effects of GridPage. The debounced remote search is left out.

### FilterQuery

A query is a function from ids to rules and groups, and the functions of
`filters-query.tsx` are operators on it. A drag keeps the slots that were measured when
it began. What is beneath a node (`Under`, for `containsFilterNode` and for the subtree
that is cut or copied) is the smallest set that has the node and, with a group, its
children. The three recursions that compute something on the way are recursive functions
of the depth: `Flatten` (the conditions in order), `Gone` (the groups that a removal
takes with it, from the node upwards) and the survivors in `PruneQuery`; `Along` joins
what the members of a group become.

Two of the properties are laws of every query reached rather than of one state: what
each move, removal, wrap and prune would do to it. `EditsAreExact` has five of them:
`DropsLandWhereAimed`, `DropsKeepTheOrder`, `WrapsAreUndone`, `RemovalsAreExact` and
`PruningIsExact`.

### Cases

The dialog's `handleSubmit` is a series of groups of requests, each sent at once; the
first failure ends the save while the others of its group go on, and a retry starts
from what the dialog knows. On the server `AddCaseURL` is two writes and
`RemoveCaseURL` counts before it deletes. `skewed` marks cases that lost a domain
between such a count and its delete, `unlisted` domains that somebody took off the
list or whose second write failed: a domain stays among them until the second write of
an `AddCaseURL` puts it on the list. One department; letters are requests that change
nothing here.

### DueDates

`RescheduleDueDate` as its callers use it: the row first, then per domain a delete and
an enqueue in Redis. A task that is being handled can be neither deleted nor replaced.
`unsure` marks the domains whose task need not be right: `"changed"`, the case, the
domain or the task changed under the request, or another one was under way;
`"dropped"`, the watchlist or a failure of Redis dropped the task. What the task's
handler does is DueCheck's subject.

### Schedule

`minutes` is what `scan_settings` holds for each of the two loops, `at` and `interval`
where a loop is and what it waits for, `reset` the channel of one that wakes it.
`SetScanInterval` writes its settings one by one: of these only the two intervals are
modelled, as `request` goes from one to the next, since a loop reads the others when it
has waited. A save that fails in between leaves its first writes and wakes nobody
(`torn`, until the loop reads its interval again): the loops then finish the old wait.

### Selection

What the loops select when they have waited. A domain is `"off"`, `"watched"` or
`"sla"`, and may change at any time: `StartScheduler` reads the watchlist and takes out
the domains of the other loop with a second query. `covered` is what the last scan of
each loop covers, `stale` names the domains that changed since the loop began to
select, or, after a failure, all of them; nothing is promised of those until its next
turn.

### Streak

`SLAActiveURLs` for one domain: `Top` is the correlated count of its query with the id
as tie-break, `EndsCompliant` the reference: the threshold's number of compliant results, none of
the others later. Results are inserted in any order of their checks.

### Resurfaced

`handleResurfacedSweep` and `resurfacedDomains` for one department and one domain.
`rows` holds its results: a server, a second and a verdict, stored in any order and as
late as may be; several of one server may have the same second. The query has no
tie-break, so a server has flipped when any row of its last second is violating and any
row of the second before it was compliant (`LatestRows`, `PreviousRows`, `Flips`). The
seconds are of the crawler's clock, which may be up to `MaxAhead` ahead of the dashboard's
(`clock`), whose time a notification has; one that is behind looks like a result stored
later. A notification keeps the regressions it was created for (`flips`) and those that
the notifications told of which its sweep found, with their times (`before`). `told` and
`seen` are history.

A regression is a server and the second of its last check, which is all that the code
knows of it. So one outage can be two regressions: a check later in the outage is a new one
if rows with a compliant verdict tie with the one before it. A regression dated ahead of
the dashboard's clock is notified again by every sweep until that clock has reached its
second, since no notification is recent enough before: `EachFlipIsToldOnce` allows a repeat
for that reason only.

### MCScanControl, MCSweep, MCDueCheck, MCProgress

Model values and symmetry for TLC.

### MCConsole

The eight modules from Progress to DueDates side by side. They share no variable, so a
step of one neither enables nor changes a step of another, and nothing is lost when
`focus` picks one of them per behaviour and the others rest in an initial state. Their
properties are checked under the names their modules give them.

### MCBackground

MCSweep beside Schedule, Selection, Streak and Resurfaced, one of them per behaviour as
in MCConsole. `SchedulesAreKept` is the conjunction of `LoopsFollowSettings`,
`EveryDomainHasItsLoop` and `StreakIsConsecutive`, which share no variable.

In every module the definitions under "Mutated forms", or whose comment calls them a
mistake, are not part of the specification.

## Runs

| Run | Question | Bounds | Result |
|---|---|---|---|
| `scan_safety` | do the invariants hold, and is ScanLedger implemented? | 2 scans, 2 items, 1 racing caller, 1 fault | holds, about 950 000 states |
| `scan_liveness` | does every scan, sweep and row come to an end, and a cancelled one even if the crawler hangs? | 2 scans, 1 item, 1 fault | holds, about 37 000 states |
| `scan_overrun` | is streaming over when `StartSweep` returns? | 2 scans, 1 item, no fault | violated |
| `scan_misfiled` | is a screenshot's row in a screenshot's run? | same | violated |
| `background` | in a sweep, are channels used in order, are cut checks kept back, is Outbox implemented? do the schedules follow their settings and cover what is theirs? is each regression told once? | see below | holds, about 957 000 states |
| `sweep_returns` | does every sweep return? | 1 server, 3 URLs, 1 worker per pool, batches of 2, 1 failed `Submit` | holds, about 84 000 states |
| `due_retries` | does every task end, told once and about its own scan? | 1 task, 2 servers, 1 retry, 1 other scan, 1 fault, lost reply or restart, a purge, 3 times half a second apart, clocks level or half a second apart | holds, about 1 960 000 states |
| `due_one_run` | do the results of a verdict share one run? | no fault, 1 other scan | violated |
| `due_outcome` | is the verdict the outcome of the scan? | no fault, no other scan | violated |
| `console` | do the parts of the console show and store what they should? | see below | holds, about 678 000 states |
| `progress_stuck` | does the final publish reach every viewer? | 1 viewer, 1 run, channels of 4 | violated |
| `due_unqueued` | has every due date to come a task? | 1 domain, 1 case, 1 update, time up to 2 | violated |

Two scans are what the hazards need: the one that was cut short and the one its
leftovers meet. Two items let one batch be stored while the other is in flight. One
fault keeps the cause of a bad state visible; cancellation is not a fault and is
never bounded. Deadlock is not checked because the bound on scans stops the system.

The bounds of `background`, part by part. Sweep: two servers, one URL, two DNS workers,
batches of one, one failed `Submit`, a cancellation at any time. Schedule: two
administrators and two saves, which can overlap and fail, with two intervals and the
default. Selection: two domains and three changes, so that one leaves a list while the
other stays. Streak: two servers, three results on each within two seconds and
thresholds up to three, which has ties for each place of a streak. Resurfaced: two servers, two sweeps at
once, four results, a clock of two and a crawler one second ahead: enough for a
regression on each server, for two of one server whose rows tie or come late, and for one
that is told before its second has come. Servers and sweeps are interchangeable there
(`ResurfacedSymmetry`).

For a sweep, two servers are what one closed channel or one unfinished `Run` needs to
be seen by another, and three URLs with one worker per pool fill both channels while a
worker is waiting. In Sweep and DueCheck the system really comes to an end, so
deadlock is not checked there either; `SweepReturns` and `TasksEnd` say that it ends
where it should. One task competes with one other scan and runs at most twice, which
is enough for a retry to meet what its first run left behind. A second task would
compete for the Scanner just as the other scan does, at many times the states; the
proofs below cover any number of tasks. The clocks are level or the crawler's is half a
second ahead, which puts a stamp past the end of the query or takes in a check made before
it, while the fraction alone puts one before its beginning; a clock that is behind adds
nothing but more of the latter. The proof is for every set of differences.

The bounds of `console`, part by part. Progress: one viewer, a channel of one and two
runs, so that a payload of the first run can meet the second; viewers do not influence
each other. Grid: one list (the two lists react to the same events alike), two layouts,
texts and filters, two pages, two events by the user with any number of answers
between them. Cascader: one level of three pages, four requests and two resets, which
is an old answer, a new one and a page more; levels share nothing but the popup.
Filter query: four ids, which is a group in a group with a rule beside each. Row: three
values and three changes, enough for two edits and a reload. Bell: two notifications,
two polls at once, five events. Cases: two tabs, two domains, one case, two saves. Due
dates: two domains, one case, two updates, a clock of two.

The properties that may surprise are the ones with exceptions. `ResultsInTheirOwnRun`
says that results land in their own run *unless* a call of that scan was cut short or
the row they land in was left behind by a crash or a lost update. Both exceptions are
real: `scan_overrun` and `scan_misfiled` show the first with no fault at all.
`ReportsItsScan` excepts the second the handler began in, which `due_outcome` is about,
and as much at either end of the query as the two clocks are apart.
In Progress, RowEdits, GridPage, Cases and DueDates the exceptions are the history
variables `behind`, `reasons`, `unsaved`, `skewed` and `unsure`. Each of their values
was added for a behaviour that TLC found and the code really has, and an exception ends
as soon as the code makes up for it, so what is left is that nothing else goes wrong.

### Findings

- `scan_overrun`: `internal/server/scanner.go:332` says that `StartSweep` only returns
  once the crawler has finished streaming. After `Cancel` the call returns at once;
  the run is closed and the Scanner free while a `Submit` of the same sweep is open.
- `scan_misfiled`: `internal/server/grpc.go:174` says that the row inserted for a
  screenshot belongs to the run of the request, a `screenshot` run. `Submit` asks for
  the first running row, so after `Cancel` the row gets no run, or the next scan's.
- `due_one_run`: `internal/notify/server.go:124` says that all results share one
  `ScanRunID`. The handler polls every 500 ms and then asks for all results of the
  domain since it began: a scan that starts in between contributes results of its own.
- `due_outcome`: `internal/notify/server.go:77` says that the notification has the
  outcome of the scan. Checks made within the second the handler began in are stored
  with a `scanned_at` before it and not found, so the notification can say compliant
  although a server of that very scan was not. (When all checks fall in that second
  there are no results at all, and the task is tried again.)
- `progress_stuck`: `internal/server/scanner.go:334` says that without the final
  publish viewers "would be stuck on the last running payload forever". With it they
  still can be: `ScanProgressStream` sends its snapshot (`handlers.go:1266`) before it
  subscribes (`handlers.go:1271`), and a final publish in between is never seen.
- `due_unqueued`: the notifications design says that a due date that is reached triggers
  a scan, and `internal/notify/enqueue.go:34` that it is scheduled whenever the date
  changes. `CreateCaseForURL` stores the date of its request and never calls
  `RescheduleDueDate`, nor does `AddCaseURL`.

Smaller things the models make visible without a run of their own: a cascader popup
closed during the request for a further page leaves its latch set (`cut`); a payload
that cannot be built ends a run without telling any viewer (`"unbuilt"`); a value
resolved across an invalidation joins its level with what it was before; a
preference that fails to load lets the plain layout be saved over the kept one; the
effect that goes back to the first page does not depend on `workflowStatusFilter`
(`urls.tsx:1476`), so that filter can leave the page index beyond the last page; the
two lists share one error line, which the success of one clears for the other; two
resurfaced sweeps that overlap both create a notification, a regression stored after a
notification newer than its check is never told, and one that the crawler's clock dates
ahead is told until the dashboard's has caught up (`EachFlipIsToldOnce` excuses all three),
and deleting a notification brings it back as long as the regression is the latest
result; a save of the scan settings that fails halfway is in force only after the wait
that is under way.

## Fairness

`DashboardFairness`: weak fairness of each scan goroutine's own steps; the Go
scheduler runs every runnable goroutine. `CrawlerFairness`: weak fairness of the
steps of each sweep, whose checks and sends all carry deadlines
(`pipeline.Config`, `streamResults`), and of `Submit` handlers. No fairness for
requests, cancellations or faults. `ScansEnd` needs the crawler to be fair,
or a broken connection to be reported: `StartSweep` has no deadline of its own.
`CancelNeedsNoCrawler` needs only the dashboard.

Sweep: weak fairness of its goroutines taken together: some goroutine that can go on
does. That is enough because each step brings an item or a goroutine closer to its
end. It includes the end of an open `Submit`, which has a deadline of 60 seconds, or
30 when it streams.

DueCheck: weak fairness of each task's handler, of the crawler and of the end of a
scan. The first is the queue's worker pool, the other two are what `scan_liveness`
shows (`CrawlerIsReleased` and `ScannerIsReleased`, two parts of `ScansEnd`). Other scans
are bounded: if the Scanner were taken by others for ever, a handler in its polling loop would be ended by
its context, which is `HandlerFails`.

Progress: weak fairness of the goroutines of the server taken together, and of each
viewer's stream and browser; nobody has to press a button or to connect. Bell: the
interval goes on, and requests are answered or fail. The other modules of the console
have no liveness property and no fairness.

## Proofs

`ScanControlProofs` proves, for every set of callers and items and every bound:
`TypeCorrect`, `OneScan`, `RunningRowsAreOwned`, `OwnRun`, `CompletedRuns`,
`CancelledRuns`, `OneSweep` and `LedgerRefinement`. The only assumptions are that
the two bounds are natural numbers.

The properties are not inductive as they stand; the argument goes through invariants
defined at the end of ScanControl.

- `Control` ties the Scanner's fields to the goroutines (`OneScanAtATime`), the
  goroutine to its row (`RowFollowsGoroutine`), and rows to owners. From it follow
  `OneScan` and `RunningRowsAreOwned`, and with the step relation the refinement.
- `Delivery` says that a sweep runs for a goroutine blocked in `StartSweep`, and a
  `Submit` for a sweep blocked in `Send`, until a call is cut short; hence the run a
  handler reads is its own. From it follows `OwnRun`.
- `NothingForgotten` follows each item from the sweep through the open `Submit` to
  the table or the log. From it follows `CompletedRuns`.

`SweepProofs` proves, for every finite set of servers and URLs, pools of at least one
worker and batches of at least one result: `TypeCorrect`, `OpenChannels` (nobody sends
on a closed channel), `CutChecks` (no verdict of a cancelled check is reported) and
`OutboxRefinement`. With no worker in a pool `OpenChannels` is false, which is the
hazard listed at `pipeline.go:96`. The invariants are at the end of Sweep:

- `Pools`: a busy worker is one of those left, so a pool is empty only when nobody
  holds an item. `Order`: what is closed, returned or over has nothing left behind it.
  Together they say that a channel is closed after its last sender is done.
- `Leaving`: when the main goroutine is past a point, every item is past it too; this
  is what makes the last step of Outbox legal.
- `CutOff`: a check that the cancellation cut short stays where the cancelled context
  keeps it.

`DueCheckProofs` proves, for every number of departments, domains, servers and
retries: `NothingForgotten` (`DoneMeansTold`) and `NothingRepeated` (`ToldOnce`). The
invariant is `Bookkeeping`: the queue knows which tasks have a handler, a handler that
is done has its notification, and a task that can still be run was told only by
handlers that died or did not hear that it was stored (`ToldByTheBroken`). `ToldOnce`
alone is not inductive: a retry may tell again, so one must know that only handlers that
broke off have told before.

The third theorem is `VerdictsRestOnTheScan` (`ReportsItsScan`), for every set `Skews` of
differences between the clocks. Its invariant `Evidence` follows a check from the scan to
the verdict: the sweep under way belongs to a scan that was started; each server of a
task's scan is still to come, or has a result of a check made while the handler ran, or is
excused (`Waits`, `Reads`, `Tells`, one for each stage of the handler); and the stamp of
each result is the second of its check on some clock the crawler may have
(`RowsAreStamped`). When the handler reads, such a result is found or `OutOfReach`; and
what is found was stamped no earlier than the handler began, so it was checked no earlier
either, on the clock that stamped it (lemma `UnixBefore`: the second a tick lies in does
not begin after it).

The fourth is `DueCheckTypesKept` (`TypeOK`). What is not obvious in it is the number of
scans, which asks for a bound over all tasks at once: every scan is one of the other
scans or the scan of a try of a task, and no try triggers twice, since the handler that
has triggered never goes back (`Spent`, `ScansAreCounted`). A restart may end a handler
before it has triggered, but then that try has none to its name. The count is why
`DataAssumption` takes departments and domains to be finite.

`ConsoleProofs` proves `StreamTypes` (`ProgressTypeOK`) and `ViewersSeeTheRow`
(`ShownIsTrue`) for every set of viewers, number of runs and size of the channels. The
invariant `StreamInvariant` says that the last payload on the way to a connected viewer,
or else what its screen says, is the row (`LastWord`), except between a change of the
row and its publish (`Published`) and for a viewer that is behind. It needs that only
the scan goroutine changes the row and that its payload is the row until it is
published (`ScannerFacts`).

A third theorem, `ListsFollowTheRun` (`ListsAreFresh`), is about the lists that
`RootLayout` reloads when a scan ends. A page that was told of the newest run while it
was open, or is going to be (`KnowsOfOne`), reloads when it is told that it is over; the
invariant `EndsAreHeard` says that it is told last what the row says (`LastTold`), and
that after the end it has reloaded already or still knows of the run. This begins when the
first payload of the run was published or could not be built (`Announced`), the row being
open until then (`ScanHasOpenRow`): from there on a viewer that `missed` nothing has been
told that the run is open, so it cannot hear of the end alone.

Of the bell it proves `BellTypes`, and then of all parts of the console together
`ConsoleIsItsParts` and `ConsoleTypes` (`TypeOK` of MCConsole). The parts share no
variable, so a step of the console is a step of one part and a stutter of the others:
each part's behaviour satisfies that part's specification, and its type invariant is the
one proved of the part alone.

`PageProofs` proves `RowsAlwaysAnswer`, `OneFirstFetch` and `LayoutIsKept`, assuming
only that the plain layout, text and filter are among the choices and that the bounds
are naturals (`GridConstants`). `FreshRequests` is the heart of it: a request that is not
stale asks for what the controls say now, because every effect that asks anew marks the
older ones stale. `OneSave` does the same for the saves of the layout.

It also proves `RowsAreTrue` (`RowIsTrue`). An undisturbed reload reads what is
stored and is shown before anything changes (`CleanReads`); while nothing has
interfered there is one edit at most, and the screen has its new value (`OneEditAtMost`).

Of CascaderLoader the same module proves `NoDeadLoad` (`LoadingIsAlive`) and `NoLateNode`
(`NothingFromBefore`) for every set of levels, number of pages and bounds
(`LoaderConstants`). The invariant `LevelIsSound` says that a level's requests have
different numbers and that exactly the controller's is not aborted (`KnownRequests`):
the three guards of `stale` then agree, so a request that would be let in is the newest
one, is of the level's generation (`OfItsGeneration`), and is there while the level
says that it loads (`Alive`). An abort alone breaks the last part, which is why every
function that aborts must also load again, stop loading or forget the level.

`NoPageIsSkipped` (`LoadedIsWhole`) needs a second invariant, `LevelsAreWhole`: pages
come in order and the latch of `loadMore` is never ahead of the cursor (`InPageOrder`), a
request that will be let in asks for the first page or the one at the cursor
(`AsksInOrder`), and a level that has stopped loading has its latch behind the cursor,
unless it was `cut` (`HoldsItsPages`).

`FilterQueryProofs` proves, for every number of ids, `FilterTypes` (`FilterTypeOK`),
`QueryStaysATree` (`QueryIsATree`) and `EditsStayExact` (`EditsAreExact`). Its layers:

- Trees of sets. `Arbor` is a set of nodes and a function to the sets of their children
  such that nobody holds the root, no two nodes share a child, and a set that has the
  root and, with a node, its children, has them all. A cycle would be such a set's
  complement, so no induction is needed: each edit is a change of the function, and one
  lemma for each says that it keeps an `Arbor` (a leaf put in, a subtree moved, copied
  or wrapped, a group dissolved, children dropped).
- Trees of lists. `ListOf` says that a group's rules list its children, each once. One
  lemma for each operation on lists says what the result is a list of, so that every
  edit of a query is one of those changes of sets. `FilterInvariant` (`Tree`, and ids no
  greater than the counter) is inductive from this.
- Where rows are. `DropIsExact` and `WrapIsUndone` compare lists position by position,
  with the case that a row dropped further on in its own group closes a gap before it.
- What the recursive functions compute. `Iterated`, `FromZeroOn` and `BySize` are
  induction over sets of numbers and of sequences. `TreeIsRanked` gives each node the
  number of groups beneath it, which is less for a member than for its group; so layer d
  of a recursive function is right for the nodes of rank d or less, and the last one for
  all (`LayersSettle`). `FlattenReads`, `PruneReads` and `GoneReads` say then what
  `Flatten`, `PruneQuery` and `Gone` are without their recursion: a group reads as its
  members in order, what survives of a group is what survives of its members, collapsed,
  and what goes is the least set that has the node, the empty groups, and each group
  above the node all of whose members go.
- From that the laws, by induction over ranks (`ByRank`): a drop changes what is read of
  no group but for the dropped node (`DropKeepsTheOrder`), a removal reads as the list
  without what was beneath its node (`RemovalTakesItsOwn`) and a group it empties is
  itself gone (`RemovalEmptiesNone`), reading the survivors is reading the query
  (`SurvivorsRead`), and a survivor survives a second time (`PruningSettles`).

`CaseProofs` proves `CaseTypesKept` (`CasesTypeOK`), `SavesAreComplete`
(`SavedMeansStored`) and `CasesStayWhole` (`CasesAreWhole`) for any number of tabs, cases
and saves and every finite set of domains that is not empty. The invariant
`CasesInvariant` ties each save to its requests: those under way with its number are the
ones its stage asked for (`Asked`), and from the stage that adds on, every domain it adds
is in the case or has a request that is still to put it there, unless another save has
meddled with that domain (`Stored`). That last exception is what a second tab, or an
earlier save of the same dialog whose requests go on after it failed, can undo.

For DueDates it proves `TasksAreRight` (`TasksFollowDates`), for any number of domains,
cases and overlapping updates. A domain that nothing put in doubt has one case, and its
task is `Right` or an update will still come to it (`Settles`). For this one must know
that two updates with a case or a domain in common are both disturbed (`Apart`) and that
one that is not disturbed has the date that is stored and has the domain to itself
(`Undisputed`): its delete then leaves nothing, and its enqueue is the last word.

`BackgroundProofs` proves, for any number of administrators, domains, servers and
sweepers, `BackgroundTypesKept` (`BackgroundTypeOK`), `SchedulesKept`
(`SchedulesAreKept`) and `FlipsToldOnce` (`EachFlipIsToldOnce`) of MCBackground without
its sweep, whose theorems are those of `SweepProofs`. For the schedules, `ReadersFollow`
says that a loop without a signal to come holds what is stored from the moment it has
read, and `ScanLoopKnows` and `SLALoopKnows` what each loop knows in the middle of its
two reads of the domains that have not changed since. That `Graduated` is the reference
`EndsCompliant` holds of every state (`GraduatedIsConsecutive`): `Newer` orders the
results totally, so what fewer than n results are newer than is closed upwards and has n
members if there are as many. For the resurfaced sweep, a notification is created
no more than `MaxAhead` seconds before what it tells of (`ToldAfterwards`), and what a sweep
is about to notify has a regression that those it read of do not tell of, or told of
before its second had come (`News`, `NewsIsNew`). Neither uses which rows there are, so
ties and late results are covered.

The assumptions on the constants are named in the modules that declare them
(`CasesConstants`, `DueDatesConstants`, `ScheduleConstants`, `SelectionConstants`,
`StreakConstants`, `ResurfacedConstants`, `FilterConstants`, `BellConstants`): the bounds
are naturals, a dialog has a domain to choose, there is an interval to save, and the sets
that are counted are finite.

Only model-checked is liveness under fairness, which the proof system does not do:
`ScansEnd`, `CancelNeedsNoCrawler`, `SweepReturns`, `TasksEnd`, `EndIsShown` and
`BadgeCorrects`. So are, by their nature, the six runs that end in a violation.

## Not modelled

`PROJECT.json` lists every component with its status and reason. Left out are

- what the plan above still has: import, sessions, the resolver's fallbacks,
  enrichment caches;
- what only reads: reports and statistics, the handlers behind tables;
- what is I/O: the DNS wire protocols, screenshots, object storage, look-up services;
- what runs once and in sequence: migrations, configuration;
- what renders. Most lines of `web/` are JSX, a vendored component kit (`components/ui`,
  `components/reui`) and pages that fetch on entry and show the answer, and a good part
  of the repository's script lines is the tooling of a design skill (`.agents/`) that is
  no part of the program. They keep no state over several events that could go wrong in
  an order nobody tried, so a model of them would restate their layout. For this reason
  the modelled share of all lines is small although most of the code that schedules,
  stores, sends and receives is modelled.

Within the modelled components: authentication and input validation of handlers; the
tallies in progress payloads; names, letters, agencies and offences of cases; whether a
department's link to a domain is switched on; the remote search of the cascader; the
operators and values of filter rules.
