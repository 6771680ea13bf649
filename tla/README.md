# cookie-http-seeder: models, checks and proofs

A browser extension collects the cookies of approved sites and pushes them to a
receiver on the user's machine; crawlers read the stored cookies, use them, and
report whether they still work.  This directory models that program in TLA+:
every definition is a translation of code under `src/`, and `PROJECT.json`
(`map`) says of which lines.

```
tlc -workers 2 -config Receiver.cfg MCReceiver         # model-check one run
tlapm ReceiverProofs.tla                               # check the proofs
```

## 1. The system

```
 browser(s)                         machine of the user
 +---------------------------+      +----------------------------------------+
 | extension (service worker)|      | receiver: one process, one lock per    |
 |  settings, approvals      | HTTP |           sender namespace             |
 |  sync queue + alarms      |----->|  sources.json  <s>-cookies.json        |
 |  push, login monitor,     |      |  .<s>-sync.json .incidents.json        |
 |  health reporter          |      |  .client-health.json                   |
 +---------------------------+      |  monitor thread (every 60 s), webhooks |
                                    +------^--------------------|------------+
                            feedback (HTTP)|                    |files, no lock
                                    +------|--------------------v------------+
                                    | crawler: CookieConsumer, state.json    |
                                    +----------------------------------------+
```

Paths below are relative to `src/cookie_http_seeder/` and `src/extension/`.

| Component | State | Operations | What makes it correct |
|---|---|---|---|
| Receiver state (`receiver_state.py`, `store.py`, `paths.py`) | configuration and its revision, in memory and in `sources.json`; one snapshot per source | ingest, report, replace_sources, clear_and_pause, incident_action, start | stored cookies always belong to the policy in force, in memory and on disk; nothing of an old policy is visible under a new one |
| Conditional snapshots (`sync_state.py`) | per source: version last seen, verdict, alert cooldowns | accept, feedback, reserve_stale_notification, status | a push is stored once, a retry is safe, a verdict is shown only for the version it was given on, one alert per cooldown |
| Incidents (`incidents.py`, `metadata_policy.py`) | active incidents and the policy each was filed under | observe, act, may_notify, forget | an invalid login is raised in the end and stays listed until another version works |
| Client health (`client_health.py`) | last health report of the extension | accept, forget | entries of an old policy never show |
| Stale monitor, notifications (`monitoring.py`, `notify.py`) | a thread, a debounce timer, webhooks | scan, flush | see the two rows above |
| HTTP layer (`receiver_http.py`, `receiver.py`) | none | authenticate, route, limit | hands each request to one operation |
| Service and process lock (`receiver_service.py`, `process_lock.py`, `cli.py`, `receiver.py`) | a lock file, the token file | start, bind, drain, release | one writer per data directory, also across a restart; what is served is what the files hold |
| Sender namespaces (`senders.py`) | directories, cached states | create on demand | bounded number |
| Crawler consumer (`consumer.py`, `consumer_state.py`, `client.py`) | `state.json`: paused version, outbox of at most 16 reports | request, flush_feedback, wait_for_update | cookies known to be invalid are not sent again; reports are bounded, never about other cookies, and the state file always loads |
| Response rules (`response_rules.py`) | none | classify | pure |
| Cookie normalisation (`cookies.py`) | none | match domain, path, expiry | pure |
| CLI, diagnostics, display | none | print | pure input and output |
| Sync queue (`sync.js`, `background.js`) | jobs in `chrome.storage.local`, alarms, a chain of promises | recover, enqueue, runDue, arm | at most five attempts per batch, automatic events never reset a budget, a pending job always has an alarm |
| Push and collection (`shared.js`, `cookie_collector.js`, `receiver_client.js`) | none durable | read version, collect, push | what is replaced is what was stored when the cookies were read; hidden cookies are not sent as none |
| Settings and approvals (`settings.js`, `settings_lock.js`, `access.js`) | connection, approved sources, permissions | save, approve, revoke | nothing collected is sent once approval or connection was withdrawn |
| Login monitor (`login_monitor.js`) | fingerprints of notices | check, recover | once per condition, sparsely, nothing held back for a notice that was not shown, and in the end |
| Health reporter (`health_reporter.js`) | one shared promise | report | one report at a time |
| Pages and dashboard | views | show, forward | decide nothing |

**Interactions.**  The extension calls the receiver over HTTP; calls may be
late, repeated or lost.  Each mutating call runs under the lock of its
namespace.  The monitor thread takes the same lock.  Crawlers read snapshot
files *without* the lock (each file is replaced atomically) and report back
over HTTP.  Processes that share a consumer's `state.json` exclude each other
by a file lock.

**Hard behaviours.**

* A handler of the receiver rewrites several files one after another.  Each
  write is atomic, the sequence is not: a write may raise `OSError`, the process
  may die between two of them.
* A push travels with the version and revision it was prepared from, and may
  arrive after other pushes, clears, configuration changes and restarts.
* A verdict is formed on cookies read some time ago and arrives late.
* The consumer counts, sends and settles a report in three steps and may die
  between them; the snapshot is replaced or becomes unreadable meanwhile.
* The extension's worker is killed at will by the browser; settings change at
  every `await`.

`PROJECT.json` (`hazards`) lists each such place with its line and the
properties that cover it, or the reason none does yet.

## 2. The modules

| Module | Models |
|---|---|
| `IncidentRules` | the rules of `IncidentStore.observe`, `act` and `may_notify` as operators |
| `Receiver` | one namespace of the receiver with all its files |
| `SnapshotRegister` | abstract: what a namespace promises its clients |
| `MCReceiver` | symmetry sets for the receiver's runs |
| `ReceiverProofs` | theorems about `Receiver`: types, stored cookies match the policy |
| `ReceiverRefinement` | theorems about `Receiver`: it implements `SnapshotRegister`, pushes and their retries |
| `ReceiverIncidents` | theorems about `Receiver`: alerts, incidents, what a changed policy forgets |
| `Consumer` | a crawler with its state file, over the abstract register |
| `MCConsumer` | instance of `Consumer` for TLC |
| `ConsumerProofs` | theorems about `Consumer` |
| `SyncQueue` | the extension's durable queue: `SyncEngine` and the events that feed it |
| `MCSyncQueue` | instance of `SyncQueue` for TLC |
| `PushProtocol` | a push from the browser to the stored snapshot, under changing consent and configuration |
| `LoginMonitor` | the extension's reminders: alarm, status, notices, saved fingerprints |
| `Service` | processes on one data directory: start, lock, requests that make namespaces, shutdown, crash |
| `MCPushProtocol`, `MCLoginMonitor`, `MCService` | instances of these for TLC |
| `SyncQueueProofs`, `PushProtocolProofs`, `LoginMonitorProofs`, `ServiceProofs` | theorems about these |

### Receiver

A handler is a sequence of steps, each of which writes at most one file.  `op`
says which handler holds the lock and what remains to be done; it is `Idle` when
the lock is free.  Checks and assignments that touch no file and precede a write
belong to the step of that write; if the *first* write of a handler fails the
handler has had no effect, which is the same as its not having run, so only
later writes have an explicit failure (`WriteFails`).  `Crash` may come between
any two steps; `Restart` is `ReceiverState.__init__`.

| Action | Code |
|---|---|
| `Prepare` | the client reads `GET /v2/sync` and builds a push |
| `IngestNew`, `WriteMeta`, `Observe` | `ingest`: `accept` writes the snapshot, then its metadata, then incidents are observed |
| `IngestSame`, `Observe` | `ingest` of cookies already stored, or of a request already handled |
| `Report`, `Observe` | `report`: `feedback`, then incidents, then the alert |
| `Scan`, `Observe`, `ReserveStale`/`SkipStale` | `StaleMonitor.scan` for one source |
| `ReplaceSources`, then per changed source `ForgetHealth`, `ForgetIncidents`, `ClearChanged`, then `PublishSources`, `AdoptSources` | `replace_sources`: file first, memory last |
| `ClearAndPause` | `clear_and_pause`, which empties the snapshot and continues as `replace_sources` |
| `IncidentAction`, `AcceptHealth`, `FlushNotify` | handlers of one step |
| `CookiesAge`, `VerdictExpires`, `SnoozeEnds`, `CooldownEnds` | time |

Abstractions: snapshot versions and revisions (random tokens) are fresh
numbers, never reused; an instant is whether its deadline has passed; a set of
cookies is a member of `Jar` or `NoCookies`; the scope of a source (domains and
target URL) is a member of `Site`; sources to be cleared are visited in any
order.  A change of time thresholds alone is a replacement in which no source
changes.  `--notify` is assumed on.  `CooldownEnds` happens only while the lock
is free, since a handler reads the clock once.

### Consumer

`op` is the call that holds the file lock, with the version it is about.  A
request is `Begin` (cookies read, pause checked, file seen writable),
`SiteAnswers`, `Reread` (the snapshot is read again: the same version, another,
or unreadable), then `Record` (pause, outbox and file in one write) or
`OutboxFull`, then the flush: `Intend` (count the attempt, write), `ReportArrives`,
and `SettleDelivered`, `SettleRefused` or `SettleLost`.  A report may outlive its
client, which times out (`ReportIsLate`) and goes on while the receiver has yet to
handle it (`LateReportArrives`).  `FlushFeedback` starts a
flush by itself.  `Stops` is an exception, a failed write or the death of the
process at any step; the file keeps what it last held and the lock is free.

The receiver is the *abstract register* that `receiver` shows `Receiver` to
implement, and goes on (`Push`) while a call is under way.  The outbox is a
function from versions to records, since a new record always has the newest
version and the list is therefore ordered by version.  Every answer that is
neither a conflict (409) nor a network or server failure is "refused": an
authentication error, a paused source (400), an unreadable answer; the receiver
may or may not have filed the verdict.

### SyncQueue

`SyncEngine` chains its operations with `serial`: `task` is the one under way,
`waiting` those whose turn has not come.  Each works on its own copy of the queue
(`task.jobs`), and a step of the model is what runs between two awaits at which
something else can change what the operation goes on to use.

| Action | Code |
|---|---|
| `BeginRecover` | `recover`: interrupted attempts and probes become due again |
| `BeginEnqueue`, `IgnoreChange` | `enqueue` for a manual, changed or periodic reason |
| `BeginRunDue`, `Drop`, `TakeUp`, `AllProcessed` | `runDue`: pick due jobs; for each, drop it or write the intent |
| `Preflight`, `Push` | `getSources` and the checks after it; `pushSource` with every outcome |
| `Finish` | the connection is compared once more |
| `CheckSave`, `WriteQueue`, `Arm` | `save` in its two halves, `arm` |
| `Trigger`, `AlarmFires`, `SettingsSaved` | listeners of `background.js`, each of which starts the worker if need be |
| `Wake`, `StartupRecovers` | evaluation of the worker, whose `startup` calls `recover` only after an await |
| `WorkerDies` | the browser stops the worker: `task` and `waiting` are gone, storage and alarm stay |
| `ChangeConnection`, `ChangeApproval`, `ChangeOption` | pages of the extension change the settings under the engine |
| `WindowPasses`, `PeriodPasses` | time |

Abstractions: time is counted in windows of 30 s (`DEBOUNCE_MS`), a deadline is
"later" or "now", and every retry delay is one window; an alarm may fire at any
time, early or late.  Errors are "transient" (retryable) or "terminal"; the codes
that can be probed are the retryable ones.  The period of recovery probes (15
minutes at least) passes on its own, and not while a probe is under way.  Which
due jobs come first is left open (the code takes them in the order of the queue).
What is read and compared in `arm` is one step: an alarm too many only starts an
idle run.

### PushProtocol

`attempt` is the push a browser has under way (its engine is serial), each step of
it what runs between two awaits.  `posted` are the POSTs under way: a browser
that gives up after eight seconds, or whose worker is killed, leaves its POST
there, to be handled at any later time or never.  The receiver's handlers are one
step each; `Receiver` has their files.

| Action | Code |
|---|---|
| `FetchSources` | `getSources` and the preflight of `sync.js` |
| `ReadVersion` | `GET /v2/sync/<source>`, before collecting |
| `BeginCollection`, `ReadCookies`, `EndCollection` | `collectSourceCookies`: permission, `getAll`, permission again |
| `Recheck` | settings loaded again: same connection, still approved |
| `CheckConnection`, `Post` | `receiverRequest`, with the capability request of labelled senders before the check |
| `GiveUp` | timeout, any failure, or the death of the worker |
| `Ingested`, `Replace` | `POST /v2/cookies` refused or unchanged, or stored |
| `ReplaceSources`, `ClearAndPause`, `Restart` | the receiver's configuration and its revision |
| `ChangeConnection`, `Approve`, `Revoke`, `RemoveAccess` | pages of the extension, and Chrome's own settings |

Abstractions: what is collected is any member of `Jar`, or nothing, and nothing
where access is missing; a scope stands for domains and target; the approval of a
paused entry is no approval.  History fields (`during`, `blind`, `withdrawn`) say
what was true when the cookies were read.

### LoginMonitor

`recover` and `check` run one after another; `task` is the one under way with its
copy of what was shown, and is gone when the worker dies.

| Action | Code |
|---|---|
| `BeginRecover`, `Arm` | `recover`: clear alarm and record, or see to the alarm |
| `BeginCheck`, `Fetch`, `FetchFails` | `check`: the alarm fired, `GET /v1/status` |
| `Pass`, `Show`, `Shown` | the loop over the sources: nothing to show (or it could not be), the notice, its record |
| `EndCheck`, `Cancel`, `Save`, `Write` | the end of the loop, another connection, `save` in its two halves |
| `Startup`, `Die` | evaluation and death of the worker |
| `ChangeConnection`, `SwitchPolling`, `Approve`, `Revoke` | settings, with a message to the worker that may be lost |
| `StatusChanges`, `CooldownEnds` | the receiver, and fifteen minutes |

History fields remember the notices themselves, apart from what the code keeps of
them: `told` is the condition last shown, `recent` that this was less than fifteen
minutes ago, `left` that the source has not been in it all the time since, and
`excused` that since then the record was lost with a killed worker, or reminders
were not wanted (switched off, revoked or paused, another connection), for then the
code may drop it (`login_monitor.js:42-50`, `63-66`).

### Service

Processes are started at will on one directory; one that is started again is
another process.  `proc` holds the stage of each and what it has in memory,
`request` the handler threads.  `alone` and `overlapped` are history: who started
while no other ran and met none that raced it for token or lock, and whether a
process has locked the directory while requests of another were under way.

| Action | Code |
|---|---|
| `Start`, `ReadToken`, `WriteToken` | `configure` and `ensure_token_file`, before the lock |
| `Lock`, `Refuse` | `DataDirectoryLock`; then the port, tried until it is free |
| `Accept` | a request of an authorised client, with its label |
| `Find`, `Miss`, `MakeDirectory`, `Seed`, `SeedFails` | `for_sender`, under the lock of the default state |
| `Replace`, `Answer` | what the handler does then: another configuration, or nothing that matters here |
| `Scan` | a scan of the monitor thread makes states of the namespaces that are there, also after `stop()` gave up waiting for it |
| `Stop`, `Close`, `Exit` | an interrupt, the drain and the release, the end of the process |
| `CutShort` | a second interrupt in `monitor.stop()` or `server_close()`: the lock is released while handlers go on, and `Exit` waits for them |
| `Crash` | a kill |

## 3. The runs

| Run | Bounds | States, time | Shows |
|---|---|---|---|
| `receiver` | 1 source, 2 scopes, 2 jars, 2 pushes, 3 snapshots, 3 revisions | 0.8 M, 40 s | `StoredAtMostOnce`, `RetryIsSafe`, `CredentialsMatchPolicy`, `PolicyChangeForgets`, and refinement of `SnapshotRegister` |
| `receiver_alerts` | 1 source, 2 snapshots, 2 revisions, verdicts, dispositions, the monitor, all deadlines | 1.4 M, 80 s | `AlertsWithinCooldown` for both kinds of alert, `LoginIncidentOutlasts` |
| `receiver_live` | 1 source, verdicts and crashes, fairness | 37 k, 10 s | `InvalidIsRaised` |
| `consumer` | 3 snapshots, 1 record, 2 attempts, all faults, one report that outlives its client | 7 M, 130 s | `FileLoads`, `FeedbackBudget`, `PauseHolds`, `PauseMovesForward`, `InvalidIsNotLost`, `VerdictsAreEvidence` |
| `consumer_full` | 3 snapshots, 2 records, unreadable snapshots only | | a violation, see section 6 |
| `sync_budget` | 1 source, budget 2, 2 connections, approvals and automatic pushes change, 2 deaths | 4.1 M, 120 s | `AttemptsWithinBudget`, `BlockedIsNotTried`, `QuietIsArmed` |
| `sync_probe` | 2 sources, runs of one, budget 1, probes switched off and on, 1 death | 3.2 M, 90 s | `OneProbePerPeriod`, `QuietIsArmed`, `AttemptsWithinBudget` |
| `sync_live` | 1 source, budget 2, changes and periodic events, 1 death, fairness | 0.3 M, 50 s | `QueuedIsSettled` |
| `sync_reset` | 1 source, budget 1, a probe and a periodic event, 1 death | | a violation, see section 6 |
| `push` | 1 browser and 1 late POST, 2 scopes, 2 jars, 3 snapshots, 3 revisions, 2 connections | 0.6 M, 25 s | `ReplacedWasCurrent`, `StoredAsConfigured`, `WithdrawnIsNotSent`, `HiddenIsNotEmpty` |
| `login` | 1 source, 2 snapshots, 2 connections, 1 death, fairness | 0.25 M, 70 s | `ShownOnce`, `ShownSparsely`, `RecordedWasShown`, `AttentionIsDrawn` |
| `service` | 2 processes, one of which may be interrupted twice, 2 requests, 2 labels with room for one, fairness | 0.5 M, 165 s | `OneWriter`, `SendersBounded`, `ServesWhatIsStored`, `StopReleases` |

Each module's `TypeOK` is checked in its first run.

**Why the bounds are enough.**  Sources of one namespace only meet in the
configuration and in the incident file; a replacement visits each by itself, and
`CredentialsSafe` is proved for any number of them.  Two pushes give a late push a
competitor; three snapshots
give a push, its replacement and a clear between them; three revisions leave room
for a configuration change and a restart around it, or two changes.  The consumer
needs a version before and one after the one under discussion.  Its outbox is made
smaller than the code's 16 so that it does fill up, and a budget of two has a
first and a last attempt.  The bounds are guards on `lastVersion`,
`revision` (a crash needs room for the revision of the restart) and `issued`; a
handler only begins if they leave room for all its writes, so that no handler is
cut short by a bound.

`SyncQueue` has a budget of two attempts for the code's five, so that there is a
first, a repeated and a last one; two deaths interrupt both of them, or an
attempt and its recovery.  Sources share the alarm and the limit of a run only,
so two and a limit of one are needed for `sync_probe` alone.  `QuietIsArmed` is
checked where work is left over by the limit or probed (`sync_probe`), and where
jobs are retried or approved again and the connection changes (`sync_budget`).
`OneProbePerPeriod` is about the period; that a probe does not outlast its being
switched off is what the settings make of a stored job (`InContext`).  `MaxWaiting` holds
back new triggers while an operation waits; alarms and `startup` are not held
back, so that two operations do wait behind one under way.

`PushProtocol` needs two pushes that meet.  The second is a POST its browser gave
up (`MaxLate`): to the receiver it is a push of another browser, with an older
collection than the one under way.  A fourth snapshot or a third connection adds
another round of the same.  In `LoginMonitor` sources share the alarm and
the write at the end; what is left of one source's record while another is looked
at is what `Die` takes away at any step.  `Service` has two processes since
the lock has two sides, and two requests and two labels compete for one place.
One of the two may be interrupted twice (`Hasty`), which leaves the other as its
successor or its predecessor; the directory begins with one configuration
(`Configured`) and requests bring the other (`Replacement`).  It stops when its
processes are used up, so deadlock is not checked there.

**Fairness of `Receiver`** (`FairSpec`, used by `receiver_live`).  A handler that holds
the lock goes on, since its thread is not waiting for anything else; the process
is restarted, as `deploy/` configures the service manager to do; the monitor
thread comes back to each source every 60 seconds, and gets the lock then even
though others compete for it (strong fairness of `Scan`); and a disk that fails
does not fail every scan for ever (strong fairness of `Observe`).  Without the
last, no incident need ever be written.  No client, operator or crawler is
assumed to do anything.

**Fairness of `SyncQueue`** (`FairSpec`, used by `sync_live`).  The operation
under way goes on, since every call it awaits ends or is given up by a timeout;
the browser fires alarms, runs the worker's `startup`, and starts a worker again
that it killed (a new start of the browser is enough, `onStartup`); time passes.
No user and no website is assumed to do anything, and they may do as much as they
like: a change in every window is among the behaviours.

**Fairness of `LoginMonitor`** (`FairSpec`, used by `login`).  Operations go on;
Chrome evaluates the worker again and again, since it kills an idle one and starts
it for every event (`Startup`), and each evaluation recovers the alarm; the alarm
is periodic, and its check gets its turn (strong fairness of `BeginCheck`); the
receiver is not out of reach for ever, nor do notices always fail (strong fairness
of `Fetch` and `Show`), without which nothing can be shown.

**Fairness of `Service`** (`FairSpec`, used by `service`).  A handler runs, since
its socket times out after five seconds and whoever waits for the lock of a state
gets it (strong fairness of `Handle`); an interrupted process closes once its
handlers are done.  Nothing is assumed of starts, requests or interrupts.

## 4. The proofs

TLAPS checks the theorems below for every value of the constants: any sets of
sources, scopes, jars, requests, browsers and processes, any bound.  They state
every invariant and every safety property of a step that a passing run checks,
and the refinement.  Each rests on an inductive invariant, `Init => I` and
`I /\ [Next]_vars => I'`, proved action by action; each `I` was checked by TLC on
the bounds of the runs before it was proved.

**`ReceiverProofs`**
* `TypeCorrect`: `TypeOK`, which holds the shape of the handler too: a
  replacement visits only sources that change and has none left when it
  publishes.
* `CredentialsSafe`: `CredentialsMatchPolicy`.  The property is not inductive:
  while sources are being cleared it says nothing of what was already cleared.
  `ReplacementInProgress` adds that memory and disk differ only at `adopt`, and
  that until then cookies are left only where nothing changes or where the loop
  has yet to pass.

**`ReceiverRefinement`**
* `ImplementsRegister`: `Spec => RegisterSpec`.  Every step of every handler, with
  its failed writes and crashes, is a step of the abstract register or none;
  the step that counts is the one that writes the snapshot (`Replace`) or a
  verdict (`Judge`).  Needed: `VersionsDrawn`, no version on disk is ahead of those
  drawn, so that a new one is new.
* `PushIsStoredOnce`: `StoredAtMostOnce`, by `StoredMovesOn`: a push that was
  stored expects a version the source has left behind.
* `DeliveredAgainIsSafe`: `RetryIsSafe`, by `SnapshotIsOfItsPush`: the snapshot
  that carries the number of a request holds the cookies of that request, under
  the scope of its revision.

**`ReceiverIncidents`**
* `AlertsKeepTheCooldown`: `AlertsWithinCooldown`, by `AlertIsReserved`: an alert
  is sent, or about to be, only with its cooldown on file.
* `InvalidLoginOutlasts`: `LoginIncidentOutlasts`, from the rules of
  `IncidentRules` and the order of the steps of each handler.
* `ChangedPolicyForgets`: `PolicyChangeForgets`, by `FiledUnderPolicy`: incidents
  and health entries that are on file were filed under the policy in memory, and
  those of a source whose policy on disk differs are forgotten before.

**`ConsumerProofs`**
* `TypeCorrect`, `FileAlwaysLoads`: `TypeOK` and `FileLoads`, proved together since
  neither is inductive alone: an attempt stays in range because a pending record
  has budget left.
* `PauseAlwaysHolds`: `PauseHolds`, by `PauseInProgress`: a recorded invalid
  version that is still current is the paused one, and a request under way uses a
  version newer than all recorded ones.  The second part is what makes it
  survive a pause that is lifted by a later version.
* `BudgetIsKept`: `FeedbackBudget`, by `SentWereCounted`: what was sent never
  exceeds what the file counts, one less while a report is about to leave.
* `ShownWasObserved`: `VerdictsAreEvidence`, by `EvidenceInProgress`: whatever is in
  the outbox, under way or late was observed on that version.
* `InvalidIsKept`: `InvalidIsNotLost`, by `InvalidInProgress`: the outbox never turns
  a confirmed invalid into anything else, and a report refused as stale is about
  a version that was replaced.
* `PauseAlwaysMovesForward`: `PauseMovesForward`, since only a confirmed version is
  ever paused.

**`SyncQueueProofs`**
* `TypeCorrect`: `TypeOK`, with which operation may stand where.
* `BlockedStaysUntried`: `BlockedIsNotTried`, once the refusal is on record (see
  section 6 for one that is not), by `HaltedIsBlocked`, which relates the
  stored job to the copy of the operation under way: that copy is blocked as well
  or began anew on the user's behalf, and the job is not among those to do.
* `ProbesAreSparse`: `OneProbePerPeriod`, by `ProbedIsNotDue`: a job is on record as
  probed before the probe leaves, in the file and in every copy that can still be
  written over it.
* `RestIsArmed`: `QuietIsArmed`, by `ArmedOrComing`: where work is expected and no
  alarm is set, an operation that sets it is under way, waits, or comes with the
  next start of the worker.
* `BudgetHolds`: `AttemptsWithinBudget`, by `CountedBefore`: every request was
  counted in the stored job before it left.  The hypothesis is that recovery
  probes are off, their default (`settings.js:6`), or that events are the user's
  own.  One of the two is needed: with both probes and automatic
  events a kill at the wrong moment gives one attempt too many, which is the
  finding of `sync_reset`.  The runs `sync_budget` and `sync_probe` satisfy one
  half of it each.
* `AutomaticEventsKeepBudget`: `AutomaticKeepsBudget`, which `sync_reset` refutes
  with probes, holds without them.  The connection is not changed, since a new
  connection starts an empty queue on purpose.

All of them use three facts about the chain of operations: `Generations` (an
operation that began on another connection does not meet a queue of this one),
`RunInOrder` (what a run has yet to process was due) and `WrittenDown` (the copy
is what is stored when a request leaves).  `StepForms` reduces the steps of `Next`
to the ways in which an operation may go on, so that each invariant is shown per
way and not per action and way.

**`PushProtocolProofs`**
* `TypeCorrect`: `TypeOK`.
* `StoredIsOfTheConfiguration`: `StoredAsConfigured`, by `OfItsRevision`: attempts
  and POSTs of the revision in force are about the scope in force.
* `NothingNewerIsUndone`: `ReplacedWasCurrent`, by `ReadInOrder`: the version a push
  expects was read before its cookies, and versions only grow.
* `WithdrawalIsSeen`: `WithdrawnIsNotSent`, by `WithdrawalShows`: what was withdrawn
  still differs from the settings at the check to come.  This needs that
  connections are not used again.
* `NoBlindPush`: `HiddenIsNotEmpty`, by `BlindnessShows`: permission that was missing
  while cookies were read is missing at the second look.  This needs
  that access is not removed and given back within the few milliseconds of one
  `getAll`, the guard of `Approve`: an assumption about the user, not about Chrome,
  which need not ask again for access it has given before.

**`LoginMonitorProofs`**
* `TypeCorrect`: `TypeOK`.
* `NoticesAreSparse`: `ShownSparsely`, by `SparselyInv`: a notice that is recent is
  on record, in the copy of the operation and in the storage, or about to be.  Not
  so where it is `excused`: the record may have been lost with the worker, or
  dropped with the reminders.
* `NoticesAreNotRepeated`: `ShownOnce`, by `OnceInv`: the same of its condition, with
  the same exceptions, and the status the operation works with is the one shown.
* `RecordsAreGenuine`: `RecordedWasShown`, by `RecordedInv`: what a check passes a
  source over for was shown on this connection, in storage and in every copy that
  can still be written there.  It is the other half of the first two: those are also
  true of a monitor that shows nothing.

**`ServiceProofs`** prove one invariant, of which the four theorems are parts.
* `TypeCorrect`: `TypeOK`.
* `OneWriterAtATime`: `OneWriter`, by `HandledUnderLock`: handlers under way are of
  the process that holds the lock.  The exception is named in the property: a
  process interrupted again during its drain (section 6).  The token file, which is
  written before the lock is taken, and a late monitor thread are not handlers.
* `LimitHolds`: `SendersBounded`, by `OneAtATime` and `RoomIsKept`: at most one handler
  makes a namespace, and there is room for it from its look at the limit until it is
  done, a crash and a restart in between included, as long as handlers of two
  processes never met.
* `ServedIsStored`: `ServesWhatIsStored`, by `StartedAlone`: nobody else has the lock
  or handlers, and from its look at the token file on nobody else writes one.

Apart from the hypotheses of `BudgetHolds` and `AutomaticEventsKeepBudget` the only
assumptions are the `ASSUME` of each module: sentinels differ from values,
bounds are numbers, the sets that select actions are subsets of those actions.
TLC evaluates them in every run of the modules that state them.

**Only model-checked**: liveness (`InvalidIsRaised`, `QueuedIsSettled`,
`AttentionIsDrawn`, `StopReleases`), since fairness is out of the prover's reach;
and the two violations of section 6, which are counterexamples.

## 5. Not modelled

* Receiver: corrupted or hand-edited files, snapshots of the first format, the
  history of resolved incidents and reason codes (display only), the debounce
  timer (a notice may be flushed at any time), the sending of webhooks (an alert
  counts when it is reserved or decided).
* Consumer: migration of the version 1 file, `wait_for_update` (reads only), the
  outcome object, more than one report that outlives its client.
* Sync queue: the badge and the notices of `background.js`, the setting of the
  periodic alarm (`syncAlarm`), failures of `chrome.storage`, and which of several
  due jobs goes first, with the question of whether one may be passed over for
  ever.
* Push: cookies that cannot be sent (partitioned, mixed stores, conflicting) are
  a failure like any other, and the first error codes of a refused request are
  left out.  A source revoked during the capability request that a labelled
  sender makes just before its POST is still sent once; `WithdrawnIsNotSent`
  claims approval up to the last check of it and the connection up to the POST.
* Login monitor: the wording, and the limit of 100 sources.
* Service: symbolic links, the checks of headers and bodies, a token given on the
  command line or in the environment, and the locks of other operating systems.  Of
  the monitor thread only the states it makes are in `Service`; the files its scan
  writes are in `Receiver`, where it holds the lock of its namespace.
  `ServesWhatIsStored` speaks of processes that were started while no other ran, see
  section 6.
* Health reporter: its report is `Receiver.AcceptHealth`, which takes any set of
  sources at any time.  Its alarm is its own state, and is right again at the
  next evaluation of the worker.
* Response rules and cookie normalisation are pure functions on strings; the
  models take any of their results.
* The HTTP layer as such, the CLI, diagnostics, display and pages keep no state
  that the other parts rely on.

## 6. Findings

`consumer_full`: `request` remembers an invalid version "when current storage
cannot be checked" (`consumer.py:133`), but in that branch it does not drop
records of other versions, and with a full outbox `enqueue` raises
(`consumer_state.py:114`) before the state is saved.  The pause is lost and the
next request sends the same invalid cookies again, with no process having died
and no write having failed.  The pause and the outbox are separate pieces of
state; saving the first before filing the second would keep it.

`sync_reset`: "Automatic events do not silently reset the retry budget"
(`sync.js:118`), but the lines after it skip blocked, exhausted, retrying and
syncing jobs only.  A worker that dies while it probes an exhausted job leaves it
"probing".  If a periodic event starts the next worker, its `enqueue` is in the
chain before `startup` calls `recover` (`background.js:73` awaits first), and the
job becomes pending with no attempts counted.  The probe is needed for it:
`AutomaticEventsKeepBudget` proves the comment true where probes are off.

**Observations** that contradict no statement of the repository:

* A newer push of unchanged cookies keeps the version (`sync_state.py:131`).  A
  late POST collected before it may therefore still replace the cookies that the
  newer push has just confirmed.  `ReplacedWasCurrent` says what is guaranteed:
  the snapshot replaced was the one stored when the cookies were read.
* A report that times out at the crawler and is handled after a later one on the
  same version overwrites it: the receiver may show "valid" while the crawler is
  paused.  `InvalidIsNotLost` makes an exception of exactly this case.
* `serve` reads its sources and its token before it takes the lock
  (`cli.py:177`, `cli.py:212`).  A process started while another is running or
  starting may get the lock later and serve a configuration, or expect a token,
  that is not in the files any more.  In particular two processes that both find no
  token file (`receiver.py:70-76`) each make one up and write it; the one that gets
  the lock may not be the one that wrote last, and then serves with a token that is
  nowhere.  That every process that serves has the token of the file fails in a trace of
  eight states.
* The drain of `serve` ("Drain accepted requests before releasing the directory lock
  on shutdown.", `receiver_service.py:86`) ends early on a second interrupt in
  `monitor.stop()` or `server_close()` (lines 106-108): the lock is released, the
  handlers go on, and a new process works beside them.  `OneWriter` without its
  exception fails in a trace of eight states, `SendersBounded` without its own in
  one of eighteen.  The operator asked for it twice; catching the interrupt around the two
  calls would keep the comment true.
* A refusal for good that is not yet on record is lost with the worker
  (`sync.js:191-203`): the job is still "syncing", `recover` makes it "retrying"
  (`sync.js:97-100`), and the source is sent again, once per such death and within
  its budget.  `BlockedIsNotTried` therefore begins with the record.
* The health reporter does not serialise `recover` and `report`: one that began
  under an old connection may clear the alarm after the new one has set it.

## 7. Plan

Done: the models and runs of section 3; the proofs of section 4, which cover every
safety property of a passing run and the refinement of `SnapshotRegister`.

Left, in this order:

1. `PushProtocol` against `Receiver`: that the receiver's half of `PushProtocol`
   is what `Receiver` does for one source, as a refinement of a common register.
2. `LoginMonitor`, `Consumer`: lemmas that the prover needs several times in one
   module (`Remembers`, the outbox) stated for a reader on their own.
3. Of the model: the debounce timer of push notices, the health reporter, and the
   order in which due jobs are taken, with whether one may be passed over for
   ever.  `PROJECT.json` lists these as hazards without a property.
