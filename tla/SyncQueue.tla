----------------------------- MODULE SyncQueue -----------------------------
(***************************************************************************)
(* The extension's durable queue: SyncEngine (sync.js) and the events that *)
(* feed it (background.js).  The engine lives in a service worker that the *)
(* browser starts for an event and may kill at any moment; what outlasts   *)
(* it is the queue in chrome.storage.local, the settings and the alarm.    *)
(*                                                                         *)
(* The engine's operations run one after another (serial): task is the one *)
(* under way, waiting those whose turn has not come.  An operation works   *)
(* on a copy of the queue and is suspended at each await; a step of the    *)
(* model is what runs between two of them.  Reading the settings and then  *)
(* the queue is one step, since only the engine writes the queue.          *)
(*                                                                         *)
(* Time is counted in windows of 30 s (DEBOUNCE_MS): a deadline is "later" *)
(* or "now", and a job's age is the number of windows since it was queued. *)
(* Every retry delay is one window.  The period of recovery probes passes  *)
(* on its own.  An alarm may fire at any time, early or late.              *)
(***************************************************************************)
EXTENDS Naturals, Sequences, FiniteSets

CONSTANTS
  Source,         \* the sources
  None,           \* no source
  MaxAttempts,    \* MAX_ATTEMPTS
  Limit,          \* how many sources runDue processes
  ProbesOn,       \* recovery probes are switched on at first
  Triggers,       \* what asks for pushes: "manual", "change", "periodic"
  Edits,          \* what the user may change: "connection", "approval",
                  \* "probe", "onChange", "auto"
  MaxConnection,  \* bound: connections used
  MaxDeaths,      \* bound: how often the worker is killed
  MaxWaiting      \* bound: no new trigger while so many operations wait

ASSUME SyncQueueAssumption ==
  /\ None \notin Source
  /\ MaxAttempts \in Nat \ {0} /\ Limit \in Nat \ {0}
  /\ ProbesOn \in BOOLEAN
  /\ Triggers \subseteq {"manual", "change", "periodic"}
  /\ Edits \subseteq {"connection", "approval", "probe", "onChange", "auto"}
  /\ MaxConnection \in Nat \ {0} /\ MaxDeaths \in Nat /\ MaxWaiting \in Nat

VARIABLES
  settings,   \* connection, approvals and options, in storage
  stored,     \* the queue in storage, and the connection it belongs to
  alarm,      \* RETRY_ALARM is set
  up,         \* the worker runs
  starting,   \* startup() has not called recover yet
  waiting,    \* operations that wait for their turn
  task,       \* the operation under way
  deaths,     \* how often the worker was killed
  requests,   \* history: attempts made for each job since its budget began
  probes,     \* history: probes made for each job in this period
  halted      \* history: jobs recorded as blocked since their budget began

worker == <<up, starting, deaths>>
history == <<requests, probes, halted>>
vars == <<settings, stored, alarm, worker, waiting, task, history>>

-----------------------------------------------------------------------------
(* Jobs *)

Phases == {"none", "pending", "retrying", "syncing", "probing", "succeeded",
           "exhausted", "blocked", "paused"}
Active == {"pending", "retrying", "syncing"}   \* PENDING in the code

\* wait stands for nextAt, probe for probeAt; error is "transient" for the
\* RECOVERABLE codes, which are those that may be retried.
Job(phase, attempts, reason, age, wait, error, probe) ==
  [phase |-> phase, attempts |-> attempts, reason |-> reason, age |-> age,
   wait |-> wait, error |-> error, probe |-> probe]

NoJob == Job("none", 0, "none", 0, "never", "none", "never")
Empty == [s \in Source |-> NoJob]

\* The job ends in this phase, or starts to wait for a probe.
Ended(job, phase, error, probe) ==
  Job(phase, job.attempts, job.reason, 0, "never", error, probe)

WithProbe(job, probe) ==
  Job(job.phase, job.attempts, job.reason, job.age, job.wait, job.error, probe)

\* What the settings leave of a stored job.
InContext(job, s) ==
  CASE job = NoJob \/ settings.approved[s] = "no" -> NoJob
    [] job # NoJob /\ settings.approved[s] = "paused" ->
         Ended(job, "paused", job.error, "never")
    [] OTHER ->
         IF /\ settings.probe /\ job.error = "transient"
            /\ job.phase \in {"exhausted", "probing"}
         THEN WithProbe(job, IF job.probe = "never" THEN "later" ELSE job.probe)
         ELSE WithProbe(job, "never")

\* A queue of another connection is ignored.
Context ==
  [s \in Source |-> IF stored.connection = settings.connection
                    THEN InContext(stored.jobs[s], s) ELSE NoJob]

\* Work that is due some time, and work that is due now.
Expected(job) == \/ job.phase \in Active /\ job.wait # "never"
                 \/ job.phase = "exhausted" /\ job.probe # "never"

Due(job) == \/ job.phase \in Active /\ job.wait = "now"
            \/ job.phase = "exhausted" /\ job.probe = "now"

-----------------------------------------------------------------------------
(* Operations *)

Operation(kind, names) == [kind |-> kind, names |-> names]
Recover == Operation("recover", {})
RunDue == Operation("runDue", {})

\* The operation under way: its next step, its kind, the connection and the
\* switched-off triggers it began with, its copy of the queue, the sources it
\* has yet to process, the one it is at, and the step after the queue is saved.
Task(at, kind, connection, off, jobs, todo, s, then) ==
  [at |-> at, kind |-> kind, connection |-> connection, off |-> off,
   jobs |-> jobs, todo |-> todo, source |-> s, then |-> then]

Idle == Task("idle", "none", 0, {}, Empty, {}, None, "none")

\* The operation goes on at another step, with another copy of the queue.
Continue(at, jobs, todo, s, then) ==
  Task(at, task.kind, task.connection, task.off, jobs, todo, s, then)

Goto(at) == Continue(at, task.jobs, task.todo, task.source, task.then)

SameConnection == settings.connection = task.connection

Off == (IF settings.onChange THEN {} ELSE {"change"})
       \cup (IF settings.auto THEN {} ELSE {"periodic"})

Init ==
  /\ settings = [connection |-> 1, approved |-> [s \in Source |-> "yes"],
                 probe |-> ProbesOn, onChange |-> TRUE, auto |-> TRUE]
  /\ stored = [connection |-> 1, jobs |-> Empty]
  /\ alarm = FALSE
  /\ up = FALSE /\ starting = FALSE /\ deaths = 0
  /\ waiting = <<>>
  /\ task = Idle
  /\ requests = [s \in Source |-> 0]
  /\ probes = [s \in Source |-> 0]
  /\ halted = [s \in Source |-> FALSE]

\* The turn of the first waiting operation.
Turn(kind) ==
  task = Idle /\ waiting # <<>> /\ Head(waiting).kind = kind

\* It begins, at this step, with this copy of the queue.
Begin(at, jobs, todo, then) ==
  /\ task' = Task(at, Head(waiting).kind, settings.connection, Off, jobs, todo,
                  None, then)
  /\ waiting' = Tail(waiting)
  /\ UNCHANGED <<settings, stored, alarm, worker, history>>

-----------------------------------------------------------------------------
(* recover() *)

\* Faulty Reprobed: an interrupted probe may be repeated at once.
ReprobedNow(job) == IF settings.probe THEN "now" ELSE "never"

\* The period of an interrupted probe is not shortened.
Reprobed(job) ==
  IF settings.probe /\ job.probe # "never" THEN job.probe
  ELSE IF settings.probe THEN "later" ELSE "never"

\* An attempt that was interrupted counts.
Recovered(job) ==
  CASE job.phase = "probing" ->
         Ended(job, "exhausted", "transient", Reprobed(job))
    [] job.phase = "syncing" /\ job.attempts >= MaxAttempts ->
         Ended(job, "exhausted", "transient",
               IF settings.probe THEN "later" ELSE "never")
    [] job.phase = "syncing" /\ job.attempts < MaxAttempts ->
         Job("retrying", job.attempts, job.reason, 0,
             IF job.wait = "never" THEN "now" ELSE job.wait, "transient",
             "never")
    [] OTHER -> job

BeginRecover ==
  /\ Turn("recover")
  /\ Begin("save", [s \in Source |-> Recovered(Context[s])], {}, "arm")

-----------------------------------------------------------------------------
(* enqueue(names, reason) *)

\* Faulty Deadline: every change puts the job off by another window.
DeadlinePutOff(reason, age) == IF reason = "manual" THEN "now" ELSE "later"

\* min(now + 30 s, queued + 60 s)
Deadline(reason, age) ==
  IF reason = "manual" \/ age >= 2 THEN "now" ELSE "later"

\* Faulty Skipped: an automatic event unblocks a job.
SkippedUnlessBlocked(reason, job) ==
  reason # "manual" /\ job.phase \in {"exhausted", "retrying", "syncing"}

Skipped(reason, job) ==
  reason # "manual" /\ job.phase \in {"blocked", "exhausted", "retrying", "syncing"}

\* Automatic events join a pending job; everything else begins anew.
Queued(reason, job) ==
  LET joins == reason # "manual" /\ job.phase = "pending"
      age == IF joins THEN job.age ELSE 0
  IN  Job("pending", IF joins THEN job.attempts ELSE 0, reason, age,
          Deadline(reason, age), "none", "never")

BeginEnqueue(reason) ==
  /\ Turn(reason)
  /\ reason = "change" => settings.onChange
  /\ Begin("save",
           [s \in Source |->
              IF /\ s \in Head(waiting).names /\ settings.approved[s] = "yes"
                 /\ ~Skipped(reason, Context[s])
              THEN Queued(reason, Context[s]) ELSE Context[s]],
           {}, "arm")

IgnoreChange ==
  /\ Turn("change") /\ ~settings.onChange
  /\ waiting' = Tail(waiting)
  /\ UNCHANGED <<settings, stored, alarm, worker, task, history>>

-----------------------------------------------------------------------------
(* runDue(limit) *)

\* The first due jobs, in an order that the model leaves open.
BeginRunDue ==
  /\ Turn("runDue")
  /\ LET due == {s \in Source : Due(Context[s])}
     IN  \E picked \in SUBSET due :
           /\ \/ picked = due /\ Cardinality(due) <= Limit
              \/ Cardinality(picked) = Limit
           /\ Begin("take", Context, picked, "none")

Replaced(s, job) == [task.jobs EXCEPT ![s] = job]

\* The trigger was switched off, or the budget is spent: nothing is sent.
Drop(s) ==
  LET job == task.jobs[s]
      off == job.reason \in task.off
  IN  /\ task.at = "take" /\ s \in task.todo
      /\ job.phase # "exhausted"
      /\ off \/ job.attempts >= MaxAttempts
      /\ task' = Continue("take",
                          Replaced(s, Ended(job, IF off THEN "paused"
                                                 ELSE "exhausted",
                                            job.error, job.probe)),
                          task.todo \ {s}, None, "none")
      /\ UNCHANGED <<settings, stored, alarm, worker, waiting, history>>

\* The attempt or the probe, as it is written down before any request.
Intended(job) ==
  IF job.phase = "exhausted"
  THEN Job("probing", job.attempts, job.reason, 0, "never", job.error, "later")
  ELSE Job("syncing", job.attempts + 1, job.reason, 0, "later", job.error,
           job.probe)

Take(s, at) ==
  /\ task.at = "take" /\ s \in task.todo
  /\ task' = Continue(at, Replaced(s, Intended(task.jobs[s])),
                      task.todo \ {s}, s, "preflight")
  /\ UNCHANGED <<settings, stored, alarm, worker, waiting, history>>

\* Faulty MayTake: the spent budget is left to recover to find.
MayTakeUnchecked(job) ==
  job.phase = "exhausted" \/ job.reason \notin task.off

MayTake(job) ==
  \/ job.phase = "exhausted"
  \/ job.reason \notin task.off /\ job.attempts < MaxAttempts

\* Faulty TakeUp: the request is made before the intent is saved.
TakeUpUnsaved(s) == MayTake(task.jobs[s]) /\ Take(s, "preflight")

TakeUp(s) == MayTake(task.jobs[s]) /\ Take(s, "save")

AllProcessed ==
  /\ task.at = "take" /\ task.todo = {}
  /\ task' = Goto("finish")
  /\ UNCHANGED <<settings, stored, alarm, worker, waiting, history>>

\* The catch branch: retry, wait for a probe, or block.
Failed(job, error) ==
  LET retry == /\ error = "transient" /\ job.phase # "probing"
               /\ job.attempts < MaxAttempts
  IN  IF retry
      THEN Job("retrying", job.attempts, job.reason, 0, "later", error, "never")
      ELSE Ended(job, IF error = "transient" THEN "exhausted" ELSE "blocked",
                 error,
                 IF error = "transient" /\ settings.probe THEN "later"
                 ELSE "never")

Answered(job) ==
  task' = Continue("save", Replaced(task.source, job), task.todo, None, "take")

\* getSources, and what is checked before the push.
Preflight ==
  LET s == task.source
      job == task.jobs[s]
      mayPush == SameConnection /\ settings.approved[s] = "yes"
  IN  /\ task.at = "preflight"
      /\ \/ \E error \in {"transient", "terminal"} : Answered(Failed(job, error))
         \/ Answered(Ended(job, "paused", "none", "never"))
         \/ ~mayPush /\ Answered(Failed(job, "terminal"))
         \/ /\ mayPush /\ job.phase = "probing" /\ ~settings.probe
            /\ task' = Continue("take",
                                Replaced(s, Ended(job, "exhausted", job.error,
                                                  "never")),
                                task.todo, None, "none")
         \/ /\ mayPush /\ (job.phase = "probing" => settings.probe)
            /\ task' = Goto("push")
      /\ requests' = [requests EXCEPT
                        ![s] = IF job.phase = "syncing" /\ SameConnection
                               THEN @ + 1 ELSE @]
      /\ probes' = [probes EXCEPT ![s] = IF job.phase = "probing" THEN @ + 1
                                         ELSE @]
      /\ UNCHANGED <<settings, stored, alarm, worker, waiting, halted>>

\* pushSource: everything it may end with.
Push ==
  LET job == task.jobs[task.source]
  IN  /\ task.at = "push"
      /\ \/ Answered(Ended(job, "succeeded", "none", "never"))
         \/ \E error \in {"transient", "terminal"} : Answered(Failed(job, error))
      /\ UNCHANGED <<settings, stored, alarm, worker, waiting, history>>

Finish ==
  /\ task.at = "finish"
  /\ IF SameConnection
     THEN /\ task' = Continue("save", task.jobs, {}, None, "arm")
          /\ UNCHANGED alarm
     ELSE task' = Idle /\ alarm' = FALSE
  /\ UNCHANGED <<settings, stored, worker, waiting, history>>

-----------------------------------------------------------------------------
(* save() and arm() *)

\* The connection is compared; a run that cannot save makes no more requests.
CheckSave ==
  /\ task.at = "save"
  /\ task' = IF SameConnection THEN Goto("write")
             ELSE IF task.then = "arm" THEN Goto("arm") ELSE Goto("finish")
  /\ UNCHANGED <<settings, stored, alarm, worker, waiting, history>>

\* The job has a budget of its own from here on.
Renewed(job) == \/ job.phase \in {"none", "succeeded", "paused"}
                \/ job.phase = "pending" /\ job.reason = "manual"

\* The settings may have changed since they were compared.
WriteQueue ==
  /\ task.at = "write"
  /\ stored' = [connection |-> task.connection, jobs |-> task.jobs]
  /\ task' = Goto(task.then)
  /\ IF SameConnection
     THEN /\ requests' = [s \in Source |-> IF Renewed(task.jobs[s]) THEN 0
                                           ELSE requests[s]]
          /\ halted' = [s \in Source |->
                          /\ ~Renewed(task.jobs[s])
                          /\ halted[s] \/ task.jobs[s].phase = "blocked"]
     ELSE UNCHANGED <<requests, halted>>
  /\ UNCHANGED <<settings, alarm, worker, waiting, probes>>

Armed(expected) ==
  /\ task.at = "arm"
  /\ alarm' = IF SameConnection THEN expected ELSE alarm
  /\ task' = Idle
  /\ waiting' = IF task.kind \in {"manual", "periodic"}
                THEN Append(waiting, RunDue) ELSE waiting
  /\ UNCHANGED <<settings, stored, worker, history>>

\* Faulty Arm: interrupted and failed attempts are forgotten.
ArmForPending == Armed(\E s \in Source : task.jobs[s].phase = "pending")

\* Faulty Arm: a run leaves the alarm that started it to what comes next.
ArmUnlessRun ==
  Armed(IF task.kind = "runDue" THEN alarm
        ELSE \E s \in Source : Expected(task.jobs[s]))

\* The alarm is set when some work is expected and cleared otherwise; after a
\* manual or periodic enqueue the handler calls runDue.
Arm == Armed(\E s \in Source : Expected(task.jobs[s]))

-----------------------------------------------------------------------------
(* The worker, the browser and the user *)

\* An event starts the worker if need be; its operation waits for its turn.
Arrives(operation) ==
  /\ up' = TRUE
  /\ starting' = (starting \/ ~up)
  /\ waiting' = Append(waiting, operation)
  /\ UNCHANGED <<settings, stored, task, deaths, history>>

\* A click, a changed cookie, or the periodic alarm.
Trigger(kind, names) ==
  /\ Len(waiting) < MaxWaiting
  /\ kind = "change" => settings.onChange
  /\ Arrives(Operation(kind, names))
  /\ UNCHANGED alarm

AlarmFires ==
  /\ alarm /\ alarm' = FALSE
  /\ Arrives(RunDue)

\* "settings-saved" from a page of the extension.
SettingsSaved ==
  /\ Edits # {} /\ Len(waiting) < MaxWaiting
  /\ Arrives(Recover)
  /\ UNCHANGED alarm

\* The browser starts, or an event that is not about the queue.
Wake ==
  /\ ~up /\ up' = TRUE /\ starting' = TRUE
  /\ UNCHANGED <<settings, stored, alarm, deaths, waiting, task, history>>

\* startup() calls recover after an await of its own: events that started the
\* worker may be ahead of it.
StartupRecovers ==
  /\ starting /\ starting' = FALSE
  /\ waiting' = Append(waiting, Recover)
  /\ UNCHANGED <<settings, stored, alarm, up, deaths, task, history>>

WorkerDies ==
  /\ up /\ deaths < MaxDeaths
  /\ up' = FALSE /\ starting' = FALSE /\ deaths' = deaths + 1
  /\ waiting' = <<>> /\ task' = Idle
  /\ UNCHANGED <<settings, stored, alarm, history>>

\* saveSettings with another receiver, token or tag: approvals are withdrawn.
ChangeConnection ==
  /\ "connection" \in Edits /\ settings.connection < MaxConnection
  /\ settings' = [settings EXCEPT !.connection = @ + 1,
                                  !.approved = [s \in Source |-> "no"]]
  /\ requests' = [s \in Source |-> 0]
  /\ probes' = [s \in Source |-> 0]
  /\ halted' = [s \in Source |-> FALSE]
  /\ UNCHANGED <<stored, alarm, worker, waiting, task>>

\* approveSources and revokeLocalSource
ChangeApproval(s, approval) ==
  /\ "approval" \in Edits
  /\ settings' = [settings EXCEPT !.approved[s] = approval]
  /\ UNCHANGED <<stored, alarm, worker, waiting, task, history>>

\* saveSettings of an option
ChangeOption ==
  /\ \/ "probe" \in Edits /\ settings' = [settings EXCEPT !.probe = ~@]
     \/ "onChange" \in Edits /\ settings' = [settings EXCEPT !.onChange = ~@]
     \/ "auto" \in Edits /\ settings' = [settings EXCEPT !.auto = ~@]
  /\ UNCHANGED <<stored, alarm, worker, waiting, task, history>>

\* A window passes.
Older(job) ==
  Job(job.phase, job.attempts, job.reason,
      IF job.phase = "pending" /\ job.age < 2 THEN job.age + 1 ELSE job.age,
      IF job.wait = "later" THEN "now" ELSE job.wait, job.error, job.probe)

\* The period of the probes passes.
Probeable(job) == WithProbe(job, IF job.probe = "later" THEN "now" ELSE job.probe)

\* The deadlines of the queue in storage and of the copy in use come nearer.
Passing(jobs, copy) ==
  /\ stored' = [connection |-> stored.connection, jobs |-> jobs]
  /\ task' = Continue(task.at, copy, task.todo, task.source, task.then)
  /\ UNCHANGED <<settings, alarm, worker, waiting, requests, halted>>

WindowPasses ==
  /\ Passing([s \in Source |-> Older(stored.jobs[s])],
             [s \in Source |-> Older(task.jobs[s])])
  /\ UNCHANGED probes

\* A probe does not take as long as the period.
PeriodPasses ==
  /\ task.then # "preflight"
  /\ Passing([s \in Source |-> Probeable(stored.jobs[s])],
             [s \in Source |-> Probeable(task.jobs[s])])
  /\ probes' = [s \in Source |-> 0]

-----------------------------------------------------------------------------
EngineStep ==
  \/ BeginRecover \/ IgnoreChange \/ BeginRunDue
  \/ \E reason \in Triggers : BeginEnqueue(reason)
  \/ \E s \in Source : Drop(s) \/ TakeUp(s)
  \/ AllProcessed \/ Preflight \/ Push \/ Finish
  \/ CheckSave \/ WriteQueue \/ Arm

Next ==
  \/ EngineStep
  \/ \E kind \in Triggers, names \in {Source} \cup {{s} : s \in Source} :
       Trigger(kind, names)
  \/ AlarmFires \/ SettingsSaved \/ Wake \/ StartupRecovers \/ WorkerDies
  \/ ChangeConnection \/ ChangeOption
  \/ \E s \in Source, approval \in {"no", "paused", "yes"} :
       ChangeApproval(s, approval)
  \/ WindowPasses \/ PeriodPasses

Spec == Init /\ [][Next]_vars

\* Operations go on, alarms fire, time passes, and the browser starts the
\* worker again after it was killed, if only because it is started itself.
FairSpec ==
  /\ Spec
  /\ WF_vars(EngineStep) /\ WF_vars(StartupRecovers) /\ WF_vars(Wake)
  /\ WF_vars(AlarmFires) /\ WF_vars(WindowPasses)

-----------------------------------------------------------------------------
(* Properties *)

JobType ==
  [phase : Phases, attempts : 0..MaxAttempts,
   reason : {"none", "manual", "change", "periodic"}, age : 0..2,
   wait : {"never", "later", "now"}, error : {"none", "transient", "terminal"},
   probe : {"never", "later", "now"}]

Stages == {"idle", "take", "preflight", "push", "finish", "save", "write", "arm"}

Operations == [kind : {"recover", "runDue"} \cup Triggers,
               names : SUBSET Source]
Tasks == [at : Stages, kind : {"none", "recover", "runDue"} \cup Triggers,
          connection : 0..MaxConnection, off : SUBSET {"change", "periodic"},
          jobs : [Source -> JobType], todo : SUBSET Source,
          source : Source \cup {None},
          then : {"none", "arm", "take", "preflight"}]

\* Types; an operation waits and is under way in a worker that runs, for a
\* connection that was used, and its requests are about one source.
TypeOK ==
  /\ settings \in [connection : 1..MaxConnection,
                   approved : [Source -> {"no", "paused", "yes"}],
                   probe : BOOLEAN, onChange : BOOLEAN, auto : BOOLEAN]
  /\ stored \in [connection : 1..MaxConnection, jobs : [Source -> JobType]]
  /\ alarm \in BOOLEAN /\ up \in BOOLEAN /\ starting \in BOOLEAN
  /\ deaths \in 0..MaxDeaths
  /\ waiting \in Seq(Operations)
  /\ task \in Tasks
  /\ starting \/ waiting # <<>> => up
  /\ IF task.at = "idle" THEN task = Idle ELSE up /\ task.connection # 0
  /\ task.at \in {"preflight", "push"} => task.then = "preflight"
  /\ task.at \in {"save", "write"} => task.then # "none"
  /\ task.then = "preflight" => task.source \in Source
  /\ requests \in [Source -> Nat] /\ probes \in [Source -> Nat]
  /\ halted \in [Source -> BOOLEAN]

\* Connections are not used again: an operation that began on another one does
\* not meet a queue of the present one.
Generations ==
  /\ stored.connection <= settings.connection
  /\ task.connection <= settings.connection
  /\ task # Idle /\ ~SameConnection => stored.connection < settings.connection

\* What a run has yet to process is due, and what it is at was taken up.
RunInOrder ==
  /\ \A s \in task.todo :
       /\ task.jobs[s].phase \in Active \cup {"exhausted"}
       /\ task.jobs[s].phase = "exhausted" => task.jobs[s].probe = "now"
  /\ task.then = "preflight" =>
       /\ task.source \notin task.todo
       /\ task.jobs[task.source].phase \in {"syncing", "probing"}

\* While requests are made, and when the alarm is set, the copy of the queue is
\* what is stored.
WrittenDown ==
  task.at \in {"preflight", "push", "arm"} /\ SameConnection =>
    stored = [connection |-> task.connection, jobs |-> task.jobs]

\* Between two manual requests, successes or pauses, at most MaxAttempts
\* attempts are made for a source, also when workers are killed between an
\* attempt and its result ("max five automatic attempts", sync.test.mjs:73).
\* This holds while recovery probes are off, as they are by default, or events
\* are the user's own.
AttemptsWithinBudget == \A s \in Source : requests[s] <= MaxAttempts

\* Without recovery probes no job is probed.
NoProbing ==
  /\ ~settings.probe
  /\ \A s \in Source : /\ stored.jobs[s].phase # "probing"
                       /\ task.jobs[s].phase # "probing"
  /\ \A s \in task.todo : task.jobs[s].phase # "exhausted"

\* Why AttemptsWithinBudget: every request was counted in the stored job, and
\* a job that starts to count again was settled on record before.
CountedBefore ==
  \A s \in Source :
    /\ stored.connection < settings.connection => requests[s] = 0
    /\ stored.connection = settings.connection =>
         /\ requests[s] <= stored.jobs[s].attempts
         /\ stored.jobs[s].phase \in {"none", "succeeded", "paused"}
              => requests[s] = 0
    /\ task # Idle /\ SameConnection =>
         /\ \/ requests[s] <= task.jobs[s].attempts
            \/ Renewed(task.jobs[s]) /\ s \notin task.todo
         /\ /\ task.then = "preflight" /\ task.source = s
            /\ task.at \in {"save", "write", "preflight"}
            /\ task.jobs[s].phase = "syncing"
            => requests[s] < task.jobs[s].attempts

\* Once it is on record that the receiver refused a source for good, nothing is
\* sent for it, neither for automatic events nor after a restart, until the user
\* asks or the source is approved anew.  A worker that is killed between the
\* refusal and the save that follows it takes the refusal with it: the job is
\* found in the middle of an attempt, and tried again (sync.js:97-100).
BlockedIsNotTried ==
  task.at \in {"preflight", "push"} => ~halted[task.source]

\* Why BlockedIsNotTried: the stored job is blocked, and an operation leaves it
\* so, or begins it anew on the user's behalf.
HaltedIsBlocked ==
  \A s \in Source : halted[s] =>
    /\ stored.connection = settings.connection
    /\ stored.jobs[s].phase = "blocked"
    /\ task # Idle => /\ \/ task.jobs[s].phase = "blocked"
                         \/ Renewed(task.jobs[s])
                      /\ s \notin task.todo

\* However often the worker is killed in the middle of one, a job is probed at
\* most once per period.
OneProbePerPeriod == \A s \in Source : probes[s] <= 1

\* Why OneProbePerPeriod: once a job was probed nothing makes it due before the
\* period is over.
ProbedIsNotDue ==
  \A s \in Source :
    /\ stored.connection = settings.connection /\ stored.jobs[s].probe = "now"
         => probes[s] = 0
    /\ task.jobs[s].probe = "now" => probes[s] = 0
    /\ /\ task.then = "preflight" /\ task.source = s
       /\ task.jobs[s].phase = "probing"
       => /\ task.jobs[s].probe # "now"
          /\ task.at \in {"save", "write", "preflight"} => probes[s] = 0

\* When the engine has come to rest, every job that has a deadline has an alarm
\* too: what was left over by the limit, interrupted, retried, or approved
\* again meanwhile.
QuietIsArmed ==
  /\ up /\ ~starting /\ task = Idle /\ waiting = <<>>
  /\ stored.connection = settings.connection
  /\ \E s \in Source :
       \/ stored.jobs[s].phase \in Active /\ stored.jobs[s].wait # "never"
       \/ stored.jobs[s].phase = "exhausted" /\ stored.jobs[s].probe # "never"
  => alarm

\* Why QuietIsArmed: where the alarm is not set and there is work, an operation
\* that sets it is under way, waits, or will come with the worker.
ArmedOrComing ==
  /\ stored.connection = settings.connection
  /\ \E s \in Source : Expected(stored.jobs[s])
  => \/ alarm \/ ~up \/ starting \/ task # Idle
     \/ \E i \in 1..Len(waiting) : waiting[i].kind \in {"recover", "runDue"}

\* Automatic events do not reset the retry budget (sync.js:118): the stored
\* count of a job only falls when the user asks, the source was paused or
\* removed, or a push succeeded.
AutomaticKeepsBudget ==
  [][\A s \in Source :
       LET old == stored.jobs[s]
           new == stored'.jobs[s]
       IN  new.attempts < old.attempts => Renewed(old) \/ Renewed(new)]_vars

\* Why, without recovery probes: an operation counts on from what is stored, or
\* begins anew for one of these reasons.
CountsOn ==
  /\ settings.connection = 1
  /\ task # Idle => \A s \in Source :
       \/ stored.jobs[s].attempts <= task.jobs[s].attempts
       \/ Renewed(stored.jobs[s])
       \/ Renewed(task.jobs[s]) /\ s \notin task.todo

\* A job that was queued is settled in the end, however often changes come and
\* wherever the worker is killed: pushed, given up, blocked or dropped.
QueuedIsSettled ==
  \A s \in Source :
    stored.jobs[s].phase \in {"pending", "retrying", "syncing", "probing"}
      ~> stored.jobs[s].phase \notin {"pending", "retrying", "syncing", "probing"}
=============================================================================
