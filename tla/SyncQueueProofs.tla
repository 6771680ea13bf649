-------------------------- MODULE SyncQueueProofs --------------------------
(***************************************************************************)
(* What holds of SyncQueue for every set of sources, every budget of       *)
(* attempts, every limit, any user and any number of deaths of the worker. *)
(***************************************************************************)
EXTENDS SyncQueue, SequenceTheorems, TLAPS

-----------------------------------------------------------------------------
(* Jobs *)

\* The absence of a job.
LEMMA NoJobTyped == /\ NoJob \in JobType /\ Empty \in [Source -> JobType]
                    /\ NoJob.phase = "none" /\ NoJob.attempts = 0
                    /\ NoJob.probe = "never" /\ NoJob.wait = "never"
BY SyncQueueAssumption DEF NoJob, Job, JobType, Phases, Empty

\* A job that ends keeps its attempts.
LEMMA EndedTyped ==
  ASSUME NEW job \in JobType, NEW phase \in Phases,
         NEW error \in {"none", "transient", "terminal"},
         NEW probe \in {"never", "later", "now"}
  PROVE  /\ Ended(job, phase, error, probe) \in JobType
         /\ Ended(job, phase, error, probe).phase = phase
         /\ Ended(job, phase, error, probe).attempts = job.attempts
         /\ Ended(job, phase, error, probe).probe = probe
         /\ Ended(job, phase, error, probe).reason = job.reason
BY DEF Ended, Job, JobType

\* Only the probe is another one.
LEMMA WithProbeTyped ==
  ASSUME NEW job \in JobType, NEW probe \in {"never", "later", "now"}
  PROVE  /\ WithProbe(job, probe) \in JobType
         /\ WithProbe(job, probe).phase = job.phase
         /\ WithProbe(job, probe).attempts = job.attempts
         /\ WithProbe(job, probe).reason = job.reason
         /\ WithProbe(job, probe).wait = job.wait
         /\ WithProbe(job, probe).probe = probe
BY DEF WithProbe, Job, JobType

\* What the settings leave of a job: nothing, a paused one, or the job with
\* another probe, which is not due unless it was.
LEMMA InContextTyped ==
  ASSUME NEW job \in JobType, NEW s \in Source
  PROVE  /\ InContext(job, s) \in JobType
         /\ \/ /\ InContext(job, s).phase = "none"
               /\ InContext(job, s).attempts = 0
            \/ /\ InContext(job, s).phase = "paused"
               /\ InContext(job, s).attempts = job.attempts
            \/ /\ InContext(job, s).phase = job.phase
               /\ InContext(job, s).attempts = job.attempts
               /\ InContext(job, s).reason = job.reason
         /\ InContext(job, s).probe = "now" =>
              job.probe = "now" /\ InContext(job, s).phase = job.phase
         /\ ~settings.probe => InContext(job, s).probe = "never"
<1> PICK left : left = InContext(job, s)
  OBVIOUS
<1>1. CASE job = NoJob \/ settings.approved[s] = "no"
  <2>1. left = NoJob
    BY <1>1 DEF InContext
  <2> QED BY <2>1, NoJobTyped
<1>2. CASE job # NoJob /\ settings.approved[s] = "paused"
  <2>1. left = Ended(job, "paused", job.error, "never")
    BY <1>2 DEF InContext
  <2>2. /\ left \in JobType /\ left.phase = "paused"
        /\ left.attempts = job.attempts /\ left.probe = "never"
    BY <2>1 DEF Ended, Job, JobType, Phases
  <2> QED BY <2>2
<1>3. CASE /\ ~(job = NoJob \/ settings.approved[s] = "no")
           /\ ~(job # NoJob /\ settings.approved[s] = "paused")
  <2>1. PICK probe \in {"never", "later", "now"} :
          /\ left = WithProbe(job, probe)
          /\ probe = "now" => job.probe = "now"
          /\ ~settings.probe => probe = "never"
    <3>1. job.probe \in {"never", "later", "now"}
      BY DEF JobType
    <3>2. CASE /\ settings.probe /\ job.error = "transient"
               /\ job.phase \in {"exhausted", "probing"}
      BY <1>3, <3>1, <3>2 DEF InContext
    <3>3. CASE ~(/\ settings.probe /\ job.error = "transient"
                 /\ job.phase \in {"exhausted", "probing"})
      BY <1>3, <3>3 DEF InContext
    <3> QED BY <3>2, <3>3
  <2>2. /\ left \in JobType /\ left.phase = job.phase
        /\ left.attempts = job.attempts /\ left.reason = job.reason
        /\ left.probe = probe
    BY <2>1, WithProbeTyped
  <2> QED BY <2>1, <2>2
<1> QED BY <1>1, <1>2, <1>3

\* What recover makes of a job: interrupted attempts and probes are over, and
\* no probe becomes due.
LEMMA RecoveredTyped ==
  ASSUME NEW job \in JobType, settings.probe \in BOOLEAN
  PROVE  /\ Recovered(job) \in JobType
         /\ Recovered(job).attempts = job.attempts
         /\ Recovered(job).phase # "probing"
         /\ \/ Recovered(job) = job
            \/ /\ job.phase \in {"syncing", "probing"}
               /\ Recovered(job).phase \in {"exhausted", "retrying"}
         /\ Recovered(job).probe = "now" => job.probe = "now"
<1> PICK after : after = Recovered(job)
  OBVIOUS
<1>0. job.attempts \in Nat /\ MaxAttempts \in Nat
  BY SyncQueueAssumption DEF JobType
<1>1. CASE job.phase = "probing"
  <2>1. after = Ended(job, "exhausted", "transient", Reprobed(job))
    BY <1>1 DEF Recovered
  <2>2. /\ Reprobed(job) \in {"never", "later", "now"}
        /\ Reprobed(job) = "now" => job.probe = "now"
    BY DEF Reprobed, JobType
  <2>3. "exhausted" \in Phases
    BY DEF Phases
  <2>4. /\ after \in JobType /\ after.phase = "exhausted"
        /\ after.attempts = job.attempts /\ after.probe = Reprobed(job)
    BY <2>1, <2>2, <2>3 DEF Ended, Job, JobType
  <2> QED BY <1>1, <2>2, <2>4
<1>2. CASE job.phase = "syncing" /\ job.attempts >= MaxAttempts
  <2>1. PICK probe : probe = IF settings.probe THEN "later" ELSE "never"
    OBVIOUS
  <2>2. after = Ended(job, "exhausted", "transient", probe)
    BY <1>0, <1>2, <2>1 DEF Recovered
  <2>3. /\ after \in JobType /\ after.phase = "exhausted"
        /\ after.attempts = job.attempts /\ after.probe = probe
    BY <2>1, <2>2 DEF Ended, Job, JobType, Phases
  <2> QED BY <1>2, <2>1, <2>3
<1>3. CASE job.phase = "syncing" /\ job.attempts < MaxAttempts
  BY <1>3, SyncQueueAssumption DEF Recovered, Job, JobType, Phases
<1>4. CASE job.phase \notin {"probing", "syncing"}
  BY <1>4 DEF Recovered
<1> QED BY <1>0, <1>1, <1>2, <1>3, <1>4

\* A job that is queued: it joins a pending one or begins anew.
LEMMA QueuedTyped ==
  ASSUME NEW job \in JobType, NEW reason \in {"manual", "change", "periodic"}
  PROVE  /\ Queued(reason, job) \in JobType
         /\ Queued(reason, job).phase = "pending"
         /\ Queued(reason, job).reason = reason
         /\ Queued(reason, job).probe = "never"
         /\ Queued(reason, job).attempts =
              IF reason # "manual" /\ job.phase = "pending"
              THEN job.attempts ELSE 0
<1>1. Deadline(reason, IF reason # "manual" /\ job.phase = "pending"
                       THEN job.age ELSE 0) \in {"later", "now"}
  BY DEF Deadline
<1> QED BY <1>1, SyncQueueAssumption DEF Queued, Job, JobType, Phases

\* An attempt or a probe that is written down.
LEMMA IntendedTyped ==
  ASSUME NEW job \in JobType,
         job.phase = "exhausted" \/ job.attempts < MaxAttempts
  PROVE  /\ Intended(job) \in JobType
         /\ job.phase = "exhausted" =>
              /\ Intended(job).phase = "probing"
              /\ Intended(job).attempts = job.attempts
              /\ Intended(job).probe = "later"
         /\ job.phase # "exhausted" =>
              /\ Intended(job).phase = "syncing"
              /\ Intended(job).attempts = job.attempts + 1
              /\ Intended(job).probe = job.probe
BY SyncQueueAssumption DEF Intended, Job, JobType, Phases

\* A failure keeps the attempts, and no probe becomes due by it.
LEMMA FailedTyped ==
  ASSUME NEW job \in JobType, NEW error \in {"transient", "terminal"}
  PROVE  /\ Failed(job, error) \in JobType
         /\ Failed(job, error).phase \in {"retrying", "exhausted", "blocked"}
         /\ Failed(job, error).attempts = job.attempts
         /\ Failed(job, error).probe # "now"
<1> PICK failed : failed = Failed(job, error)
  OBVIOUS
<1>1. CASE error = "transient" /\ job.phase # "probing"
           /\ job.attempts < MaxAttempts
  BY <1>1 DEF Failed, Job, JobType, Phases
<1>2. CASE ~(error = "transient" /\ job.phase # "probing"
             /\ job.attempts < MaxAttempts)
  <2>1. PICK phase \in {"exhausted", "blocked"}, probe \in {"never", "later"} :
          failed = Ended(job, phase, error, probe)
    BY <1>2 DEF Failed
  <2>2. phase \in Phases /\ error \in {"none", "transient", "terminal"}
    BY DEF Phases
  <2>3. /\ failed \in JobType /\ failed.phase = phase
        /\ failed.attempts = job.attempts /\ failed.probe = probe
    BY <2>1, <2>2 DEF Ended, Job, JobType
  <2> QED BY <2>1, <2>3
<1> QED BY <1>1, <1>2

\* A window that passes changes no more than the age and the deadline.
LEMMA OlderTyped ==
  ASSUME NEW job \in JobType
  PROVE  /\ Older(job) \in JobType /\ Older(job).phase = job.phase
         /\ Older(job).attempts = job.attempts
         /\ Older(job).reason = job.reason /\ Older(job).probe = job.probe
         /\ Older(job).wait = "never" <=> job.wait = "never"
<1>1. (IF job.phase = "pending" /\ job.age < 2 THEN job.age + 1 ELSE job.age)
        \in 0..2
  BY DEF JobType
<1> QED BY <1>1 DEF Older, Job, JobType

\* A period that passes changes no more than the probe.
LEMMA ProbeableTyped ==
  ASSUME NEW job \in JobType
  PROVE  /\ Probeable(job) \in JobType /\ Probeable(job).phase = job.phase
         /\ Probeable(job).attempts = job.attempts
         /\ Probeable(job).reason = job.reason
         /\ Probeable(job).wait = job.wait
         /\ Probeable(job).probe = "never" <=> job.probe = "never"
         /\ job.probe = "now" => Probeable(job).probe = "now"
<1>1. /\ job.probe \in {"never", "later", "now"}
      /\ (IF job.probe = "later" THEN "now" ELSE job.probe)
           \in {"never", "later", "now"}
  BY DEF JobType
<1> QED BY <1>1, WithProbeTyped DEF Probeable

\* Nothing happens to no job.
LEMMA NoJobStays == Older(NoJob) = NoJob /\ Probeable(NoJob) = NoJob
BY DEF Older, Probeable, WithProbe, NoJob, Job

-----------------------------------------------------------------------------
(* Operations *)

\* An operation is under way unless its step is "idle".
LEMMA IdleStep ==
  /\ Idle.at = "idle" /\ Idle.jobs = Empty /\ Idle.todo = {}
  /\ Idle.source = None /\ Idle.then = "none" /\ Idle.connection = 0
  /\ Idle \in Tasks
BY NoJobTyped, SyncQueueAssumption DEF Idle, Task, Tasks, Stages

\* The fields of an operation that goes on.
LEMMA Continued ==
  ASSUME NEW at, NEW jobs, NEW todo, NEW s, NEW then,
         task' = Continue(at, jobs, todo, s, then)
  PROVE  /\ task'.at = at /\ task'.jobs = jobs /\ task'.todo = todo
         /\ task'.source = s /\ task'.then = then
         /\ task'.connection = task.connection /\ task'.kind = task.kind
         /\ task'.off = task.off
BY DEF Continue, Task

\* The types of an operation that goes on.
LEMMA ContinuedTyped ==
  ASSUME task \in Tasks, NEW at \in Stages, NEW jobs \in [Source -> JobType],
         NEW todo \in SUBSET Source, NEW s \in Source \cup {None},
         NEW then \in {"none", "arm", "take", "preflight"},
         task' = Continue(at, jobs, todo, s, then)
  PROVE  task' \in Tasks
BY DEF Continue, Task, Tasks

\* The settings' view of the stored queue.
LEMMA ContextTyped ==
  ASSUME TypeOK
  PROVE  /\ Context \in [Source -> JobType]
         /\ stored.connection = settings.connection =>
              \A s \in Source : Context[s] = InContext(stored.jobs[s], s)
         /\ stored.connection # settings.connection =>
              \A s \in Source : Context[s] = NoJob
<1>1. stored.jobs \in [Source -> JobType]
  BY DEF TypeOK
<1>2. \A s \in Source : InContext(stored.jobs[s], s) \in JobType
  BY <1>1, InContextTyped
<1> QED BY <1>2, NoJobTyped DEF Context

\* An operation begins in its turn, under the settings of that moment.
LEMMA Begun ==
  ASSUME TypeOK, NEW kind, Turn(kind), NEW at \in Stages \ {"idle"},
         NEW jobs \in [Source -> JobType], NEW todo \in SUBSET Source,
         NEW then \in {"none", "arm"}, Begin(at, jobs, todo, then)
  PROVE  /\ task = Idle /\ up
         /\ task'.at = at /\ task'.jobs = jobs /\ task'.todo = todo
         /\ task'.source = None /\ task'.then = then
         /\ task'.connection = settings.connection
         /\ task' \in Tasks /\ waiting' \in Seq(Operations)
         /\ UNCHANGED <<settings, stored, alarm, worker, history>>
PROOF
<1>1. /\ waiting \in Seq(Operations) /\ waiting # <<>>
      /\ settings.connection \in 1..MaxConnection
  BY DEF TypeOK, Turn
<1>2. Head(waiting) \in Operations /\ Tail(waiting) \in Seq(Operations)
  BY <1>1, HeadTailProperties
<1>3. Off \in SUBSET {"change", "periodic"}
  BY DEF Off
<1>4. task' = Task(at, Head(waiting).kind, settings.connection, Off, jobs, todo,
                   None, then)
  BY DEF Begin
<1>5. task' \in Tasks
  BY <1>1, <1>2, <1>3, <1>4, SyncQueueAssumption DEF Task, Tasks, Operations
<1> QED BY <1>1, <1>2, <1>4, <1>5 DEF Begin, Turn, Task, TypeOK

\* Time passes: deadlines come nearer in the queue and in the copy, and nothing
\* else changes.
LEMMA Passed ==
  ASSUME TypeOK, NEW jobs \in [Source -> JobType],
         NEW copy \in [Source -> JobType],
         task = Idle => copy = Empty, Passing(jobs, copy)
  PROVE  /\ stored' = [connection |-> stored.connection, jobs |-> jobs]
         /\ task' = Continue(task.at, copy, task.todo, task.source, task.then)
         /\ task' \in Tasks
         /\ task = Idle => task' = Idle
         /\ task # Idle => task' # Idle
         /\ UNCHANGED <<settings, alarm, worker, waiting, requests, halted>>
<1>1. task' = Continue(task.at, copy, task.todo, task.source, task.then)
  BY DEF Passing
<1>2. /\ task \in Tasks /\ task.at \in Stages /\ task.todo \in SUBSET Source
      /\ task.source \in Source \cup {None}
      /\ task.then \in {"none", "arm", "take", "preflight"}
      /\ task.at = "idle" => task = Idle
  BY DEF TypeOK, Tasks
<1>3. task' \in Tasks
  BY <1>1, <1>2, ContinuedTyped
<1>4. task = Idle => task' = Idle
  BY <1>1 DEF Idle, Continue, Task
<1>5. task # Idle => task' # Idle
  BY <1>1, <1>2, IdleStep, Continued
<1> QED BY <1>1, <1>3, <1>4, <1>5 DEF Passing

\* A window that passes for a queue.
LEMMA OlderQueue ==
  ASSUME NEW jobs \in [Source -> JobType]
  PROVE  /\ [s \in Source |-> Older(jobs[s])] \in [Source -> JobType]
         /\ jobs = Empty => [s \in Source |-> Older(jobs[s])] = Empty
BY OlderTyped, NoJobStays DEF Empty

\* A period that passes for a queue.
LEMMA ProbeableQueue ==
  ASSUME NEW jobs \in [Source -> JobType]
  PROVE  /\ [s \in Source |-> Probeable(jobs[s])] \in [Source -> JobType]
         /\ jobs = Empty => [s \in Source |-> Probeable(jobs[s])] = Empty
BY ProbeableTyped, NoJobStays DEF Empty

\* What a run makes of the job it is at, or passes over.
LEMMA ReplacedTyped ==
  ASSUME TypeOK, NEW s \in Source, NEW job \in JobType
  PROVE  /\ Replaced(s, job) \in [Source -> JobType]
         /\ Replaced(s, job)[s] = job
         /\ \A r \in Source \ {s} : Replaced(s, job)[r] = task.jobs[r]
BY DEF Replaced, TypeOK, Tasks

\* The fields of a run that goes on with another job for one source.
LEMMA Processed ==
  ASSUME TypeOK, NEW s \in Source, NEW job \in JobType,
         NEW at, NEW todo, NEW r, NEW then,
         task' = Continue(at, Replaced(s, job), todo, r, then)
  PROVE  /\ task'.at = at /\ task'.todo = todo /\ task'.source = r
         /\ task'.then = then /\ task'.connection = task.connection
         /\ task'.jobs[s] = job
         /\ \A q \in Source \ {s} : task'.jobs[q] = task.jobs[q]
BY Continued, ReplacedTyped

\* A job that is passed over is ended.
LEMMA Dropped ==
  ASSUME TypeOK, NEW s \in Source, Drop(s)
  PROVE  \E job \in JobType :
           /\ task' = Continue("take", Replaced(s, job), task.todo \ {s}, None,
                               "none")
           /\ job.phase \in {"paused", "exhausted"}
           /\ job.attempts = task.jobs[s].attempts
           /\ job.probe = task.jobs[s].probe
           /\ task.at = "take" /\ s \in task.todo
           /\ task.jobs[s].phase # "exhausted"
           /\ UNCHANGED <<settings, stored, alarm, worker, waiting, history>>
<1>1. PICK phase \in {"paused", "exhausted"} :
        task' = Continue("take",
                         Replaced(s, Ended(task.jobs[s], phase,
                                           task.jobs[s].error,
                                           task.jobs[s].probe)),
                         task.todo \ {s}, None, "none")
  <2>1. CASE task.jobs[s].reason \in task.off
    BY <2>1 DEF Drop
  <2>2. CASE task.jobs[s].reason \notin task.off
    BY <2>2 DEF Drop
  <2> QED BY <2>1, <2>2
<1>2. task.jobs[s] \in JobType
  BY DEF TypeOK, Tasks
<1>3. PICK job : job = Ended(task.jobs[s], phase, task.jobs[s].error,
                             task.jobs[s].probe)
  OBVIOUS
<1>4. /\ job \in JobType /\ job.phase = phase /\ job.probe = task.jobs[s].probe
      /\ job.attempts = task.jobs[s].attempts
  BY <1>2, <1>3 DEF Ended, Job, JobType, Phases
<1>5. job \in JobType
  BY <1>4
<1> WITNESS job \in JobType
<1> QED BY <1>1, <1>3, <1>4 DEF Drop

\* A job that is taken up is written down as an attempt or a probe.
LEMMA Taken ==
  ASSUME TypeOK, NEW s \in Source, TakeUp(s)
  PROVE  /\ task' = Continue("save", Replaced(s, Intended(task.jobs[s])),
                             task.todo \ {s}, s, "preflight")
         /\ Intended(task.jobs[s]) \in JobType
         /\ \/ /\ task.jobs[s].phase = "exhausted"
               /\ Intended(task.jobs[s]).phase = "probing"
               /\ Intended(task.jobs[s]).attempts = task.jobs[s].attempts
               /\ Intended(task.jobs[s]).probe = "later"
            \/ /\ task.jobs[s].phase # "exhausted"
               /\ Intended(task.jobs[s]).phase = "syncing"
               /\ Intended(task.jobs[s]).attempts = task.jobs[s].attempts + 1
               /\ Intended(task.jobs[s]).probe = task.jobs[s].probe
         /\ task.at = "take" /\ s \in task.todo
         /\ UNCHANGED <<settings, stored, alarm, worker, waiting, history>>
<1>1. task.jobs[s] \in JobType
  BY DEF TypeOK, Tasks
<1>2. task.jobs[s].phase = "exhausted" \/ task.jobs[s].attempts < MaxAttempts
  BY DEF TakeUp, MayTake
<1> QED BY <1>1, <1>2, IntendedTyped DEF TakeUp, Take

\* What preflight and push may answer: the job is over, for now or for good.
AnsweredWith(job, old) ==
  /\ job \in JobType
  /\ job.phase \in {"retrying", "exhausted", "blocked", "paused", "succeeded"}
  /\ job.attempts = old.attempts /\ job.probe # "now"

LEMMA FailedAnswer ==
  ASSUME NEW old \in JobType, NEW error \in {"transient", "terminal"}
  PROVE  AnsweredWith(Failed(old, error), old)
BY FailedTyped DEF AnsweredWith

LEMMA EndedAnswer ==
  ASSUME NEW old \in JobType, NEW phase \in {"paused", "succeeded", "exhausted"}
  PROVE  /\ AnsweredWith(Ended(old, phase, "none", "never"), old)
         /\ AnsweredWith(Ended(old, phase, old.error, "never"), old)
BY DEF AnsweredWith, Ended, Job, JobType, Phases

\* preflight goes on to the push, or ends the job and takes the next one.
LEMMA Preflighted ==
  ASSUME TypeOK, Preflight
  PROVE  /\ task.source \in Source /\ task.at = "preflight"
         /\ task.then = "preflight"
         /\ \/ task' = Continue("push", task.jobs, task.todo, task.source,
                                "preflight")
            \/ \E at \in {"save", "take"}, then \in {"take", "none"},
                  job \in JobType :
                 /\ task' = Continue(at, Replaced(task.source, job), task.todo,
                                     None, then)
                 /\ at = "save" => then = "take"
                 /\ AnsweredWith(job, task.jobs[task.source])
         /\ UNCHANGED <<settings, stored, alarm, worker, waiting, halted>>
<1>1. /\ task.at = "preflight" /\ task.then = "preflight"
      /\ task.source \in Source /\ task.jobs[task.source] \in JobType
  BY DEF Preflight, TypeOK, Tasks
<1>2. PICK old \in JobType : old = task.jobs[task.source]
  BY <1>1
<1>3. UNCHANGED <<settings, stored, alarm, worker, waiting, halted>>
  BY DEF Preflight
<1>4. ASSUME NEW job, AnsweredWith(job, old), Answered(job)
      PROVE  \E at \in {"save", "take"}, then \in {"take", "none"},
                j \in JobType :
               /\ task' = Continue(at, Replaced(task.source, j), task.todo,
                                   None, then)
               /\ at = "save" => then = "take"
               /\ AnsweredWith(j, old)
  <2>1. job \in JobType
    BY <1>4 DEF AnsweredWith
  <2> WITNESS "save" \in {"save", "take"}, "take" \in {"take", "none"},
              job \in JobType
  <2> QED BY <1>4 DEF Answered
<1>5. CASE \E error \in {"transient", "terminal"} : Answered(Failed(old, error))
  BY <1>1, <1>2, <1>3, <1>4, <1>5, FailedAnswer
<1>6. CASE Answered(Ended(old, "paused", "none", "never"))
  BY <1>1, <1>2, <1>3, <1>4, <1>6, EndedAnswer
<1>7. CASE task' = Continue("take",
                            Replaced(task.source, Ended(old, "exhausted",
                                                        old.error, "never")),
                            task.todo, None, "none")
  <2>1. Ended(old, "exhausted", old.error, "never") \in JobType
    BY EndedAnswer DEF AnsweredWith
  <2>2. PICK job \in JobType : job = Ended(old, "exhausted", old.error, "never")
    BY <2>1
  <2>3. \E at \in {"save", "take"}, then \in {"take", "none"}, j \in JobType :
          /\ task' = Continue(at, Replaced(task.source, j), task.todo,
                              None, then)
          /\ at = "save" => then = "take"
          /\ AnsweredWith(j, old)
    <3> WITNESS "take" \in {"save", "take"}, "none" \in {"take", "none"},
                job \in JobType
    <3> QED BY <1>7, <2>2, EndedAnswer
  <2> QED BY <1>1, <1>2, <1>3, <2>3
<1>8. CASE task' = Goto("push")
  BY <1>1, <1>3, <1>8 DEF Goto
<1> QED BY <1>2, <1>5, <1>6, <1>7, <1>8 DEF Preflight

\* push ends the job and the run takes the next one.
LEMMA Pushed ==
  ASSUME TypeOK, Push
  PROVE  /\ task.source \in Source /\ task.at = "push"
         /\ \E job \in JobType :
              /\ task' = Continue("save", Replaced(task.source, job), task.todo,
                                  None, "take")
              /\ AnsweredWith(job, task.jobs[task.source])
         /\ UNCHANGED <<settings, stored, alarm, worker, waiting, history>>
<1>1. /\ task.at = "push" /\ task.source \in Source
      /\ task.jobs[task.source] \in JobType
  BY DEF Push, TypeOK, Tasks
<1>2. PICK old \in JobType : old = task.jobs[task.source]
  BY <1>1
<1>3. ASSUME NEW job, AnsweredWith(job, old), Answered(job)
      PROVE  \E j \in JobType :
               /\ task' = Continue("save", Replaced(task.source, j), task.todo,
                                   None, "take")
               /\ AnsweredWith(j, old)
  BY <1>3 DEF Answered, AnsweredWith
<1>4. CASE Answered(Ended(old, "succeeded", "none", "never"))
  BY <1>1, <1>2, <1>3, <1>4, EndedAnswer DEF Push
<1>5. CASE \E error \in {"transient", "terminal"} : Answered(Failed(old, error))
  BY <1>1, <1>2, <1>3, <1>5, FailedAnswer DEF Push
<1> QED BY <1>2, <1>4, <1>5 DEF Push

\* What enqueue makes of the queue.
LEMMA EnqueuedTyped ==
  ASSUME TypeOK, NEW reason \in Triggers, BeginEnqueue(reason)
  PROVE  \E jobs \in [Source -> JobType] :
           /\ Begin("save", jobs, {}, "arm")
           /\ \A s \in Source :
                \/ jobs[s] = Context[s]
                \/ /\ settings.approved[s] = "yes"
                   /\ ~Skipped(reason, Context[s])
                   /\ jobs[s] = Queued(reason, Context[s])
<1>1. reason \in {"manual", "change", "periodic"}
  BY SyncQueueAssumption
<1>2. PICK jobs : jobs =
        [s \in Source |->
           IF /\ s \in Head(waiting).names /\ settings.approved[s] = "yes"
              /\ ~Skipped(reason, Context[s])
           THEN Queued(reason, Context[s]) ELSE Context[s]]
  OBVIOUS
<1>3. Context \in [Source -> JobType]
  BY ContextTyped
<1>4. \A s \in Source : Queued(reason, Context[s]) \in JobType
  BY <1>1, <1>3, QueuedTyped
<1>5. jobs \in [Source -> JobType]
  BY <1>2, <1>3, <1>4
<1> QED BY <1>2, <1>5 DEF BeginEnqueue

\* What recover makes of the queue.
LEMMA RecoveredQueue ==
  ASSUME TypeOK
  PROVE  [s \in Source |-> Recovered(Context[s])] \in [Source -> JobType]
<1>1. settings.probe \in BOOLEAN
  BY DEF TypeOK
<1>2. \A s \in Source : Recovered(Context[s]) \in JobType
  BY <1>1, ContextTyped, RecoveredTyped
<1> QED BY <1>2

\* A run picks jobs that are due.
LEMMA Picked ==
  ASSUME TypeOK, BeginRunDue
  PROVE  \E picked \in SUBSET Source :
           /\ Begin("take", Context, picked, "none")
           /\ \A s \in picked : Due(Context[s])
BY DEF BeginRunDue

-----------------------------------------------------------------------------
(* Types *)

\* An empty queue, no operation and no alarm.
LEMMA InitTyped == Init => TypeOK
<1> SUFFICES ASSUME Init PROVE TypeOK
  OBVIOUS
<1>1. /\ settings \in [connection : 1..MaxConnection,
                       approved : [Source -> {"no", "paused", "yes"}],
                       probe : BOOLEAN, onChange : BOOLEAN, auto : BOOLEAN]
      /\ stored \in [connection : 1..MaxConnection, jobs : [Source -> JobType]]
  BY SyncQueueAssumption, NoJobTyped DEF Init
<1>2. task \in Tasks /\ task.at = "idle" /\ task = Idle /\ task.then = "none"
  BY IdleStep DEF Init
<1>3. deaths \in 0..MaxDeaths /\ waiting \in Seq(Operations) /\ waiting = <<>>
  BY SyncQueueAssumption DEF Init
<1> QED BY <1>1, <1>2, <1>3 DEF Init, TypeOK

\* Every step keeps the types, one case per action.
LEMMA NextTyped == TypeOK /\ [Next]_vars => TypeOK'
<1> SUFFICES ASSUME TypeOK, [Next]_vars PROVE TypeOK'
  OBVIOUS
<1> USE DEF worker, history
<1>0. /\ task \in Tasks /\ task.jobs \in [Source -> JobType]
      /\ task.at \in Stages /\ task.todo \in SUBSET Source
      /\ task.source \in Source \cup {None}
      /\ task.then \in {"none", "arm", "take", "preflight"}
      /\ task.at # "idle" => up
  BY DEF TypeOK, Tasks
<1>1. ASSUME NEW kind, Turn(kind), NEW at \in {"save", "take"},
             NEW jobs \in [Source -> JobType], NEW todo \in SUBSET Source,
             NEW then \in {"none", "arm"}, Begin(at, jobs, todo, then),
             at = "save" => then = "arm"
      PROVE  TypeOK'
  <2>1. /\ task'.at = at /\ task'.then = then /\ up /\ task' \in Tasks
        /\ task'.connection = settings.connection
        /\ waiting' \in Seq(Operations)
        /\ UNCHANGED <<settings, stored, alarm, worker, history>>
    BY <1>1, Begun DEF Stages
  <2>2. settings.connection # 0
    BY DEF TypeOK
  <2> QED BY <1>1, <2>1, <2>2 DEF TypeOK
<1>2. ASSUME NEW at \in Stages \ {"idle"}, NEW jobs \in [Source -> JobType],
             NEW todo \in SUBSET Source, NEW s \in Source \cup {None},
             NEW then \in {"none", "arm", "take", "preflight"},
             task' = Continue(at, jobs, todo, s, then), task.at # "idle",
             at \in {"preflight", "push"} => then = "preflight",
             at \in {"save", "write"} => then # "none",
             then = "preflight" => s \in Source,
             UNCHANGED <<settings, worker, waiting>>, alarm' \in BOOLEAN,
             stored' \in [connection : 1..MaxConnection,
                          jobs : [Source -> JobType]],
             requests' \in [Source -> Nat], probes' \in [Source -> Nat],
             halted' \in [Source -> BOOLEAN]
      PROVE  TypeOK'
  <2>1. /\ task' \in Tasks /\ task'.at = at /\ task'.source = s
        /\ task'.then = then /\ task'.connection = task.connection
    BY <1>0, <1>2, Continued, ContinuedTyped
  <2> QED BY <1>2, <2>1 DEF TypeOK
<1>3. CASE BeginRecover
  BY <1>1, <1>3, RecoveredQueue DEF BeginRecover
<1>4. ASSUME NEW reason \in Triggers, BeginEnqueue(reason) PROVE TypeOK'
  BY <1>1, <1>4, EnqueuedTyped DEF BeginEnqueue
<1>5. CASE BeginRunDue
  BY <1>1, <1>5, Picked, ContextTyped DEF BeginRunDue
<1>6. CASE IgnoreChange
  <2>1. waiting \in Seq(Operations) /\ waiting # <<>> /\ up
    BY <1>6 DEF IgnoreChange, Turn, TypeOK
  <2>2. waiting' \in Seq(Operations)
    BY <1>6, <2>1, HeadTailProperties DEF IgnoreChange
  <2> QED BY <1>6, <2>1, <2>2 DEF IgnoreChange, TypeOK
<1>7. ASSUME NEW s \in Source, Drop(s) PROVE TypeOK'
  <2>1. PICK job \in JobType :
          /\ task' = Continue("take", Replaced(s, job), task.todo \ {s}, None,
                              "none")
          /\ task.at = "take"
          /\ UNCHANGED <<settings, stored, alarm, worker, waiting, history>>
    BY <1>7, Dropped
  <2>2. Replaced(s, job) \in [Source -> JobType]
    BY ReplacedTyped
  <2> QED BY <1>0, <1>2, <2>1, <2>2 DEF Stages, TypeOK
<1>8. ASSUME NEW s \in Source, TakeUp(s) PROVE TypeOK'
  <2>1. /\ task' = Continue("save", Replaced(s, Intended(task.jobs[s])),
                            task.todo \ {s}, s, "preflight")
        /\ Intended(task.jobs[s]) \in JobType /\ task.at = "take"
        /\ UNCHANGED <<settings, stored, alarm, worker, waiting, history>>
    BY <1>8, Taken
  <2>2. Replaced(s, Intended(task.jobs[s])) \in [Source -> JobType]
    BY <2>1, ReplacedTyped
  <2> QED BY <1>0, <1>2, <2>1, <2>2 DEF Stages, TypeOK
<1>9. CASE AllProcessed
  BY <1>0, <1>2, <1>9 DEF AllProcessed, Goto, Stages, TypeOK
<1>10. CASE Preflight
  <2>1. /\ task.source \in Source /\ task.at = "preflight"
        /\ task.then = "preflight"
        /\ \/ task' = Continue("push", task.jobs, task.todo, task.source,
                               "preflight")
           \/ \E at \in {"save", "take"}, then \in {"take", "none"},
                 job \in JobType :
                /\ task' = Continue(at, Replaced(task.source, job), task.todo,
                                    None, then)
                /\ at = "save" => then = "take"
        /\ UNCHANGED <<settings, stored, alarm, worker, waiting, halted>>
    BY <1>10, Preflighted
  <2>2. requests' \in [Source -> Nat] /\ probes' \in [Source -> Nat]
    <3>1. requests \in [Source -> Nat] /\ probes \in [Source -> Nat]
      BY DEF TypeOK
    <3>2. /\ requests[task.source] \in Nat /\ probes[task.source] \in Nat
          /\ requests[task.source] + 1 \in Nat /\ probes[task.source] + 1 \in Nat
      BY <2>1, <3>1
    <3>3. PICK n \in Nat : requests' = [requests EXCEPT ![task.source] = n]
      BY <1>10, <3>2 DEF Preflight
    <3>4. PICK m \in Nat : probes' = [probes EXCEPT ![task.source] = m]
      BY <1>10, <3>2 DEF Preflight
    <3> QED BY <3>1, <3>3, <3>4
  <2>3. /\ stored \in [connection : 1..MaxConnection,
                       jobs : [Source -> JobType]]
        /\ alarm \in BOOLEAN /\ halted \in [Source -> BOOLEAN]
    BY DEF TypeOK
  <2>4. CASE task' = Continue("push", task.jobs, task.todo, task.source,
                              "preflight")
    BY <1>0, <1>2, <2>1, <2>2, <2>3, <2>4 DEF Stages
  <2>5. ASSUME NEW at \in {"save", "take"}, NEW then \in {"take", "none"},
               NEW job \in JobType, at = "save" => then = "take",
               task' = Continue(at, Replaced(task.source, job), task.todo,
                                None, then)
        PROVE  TypeOK'
    <3>1. Replaced(task.source, job) \in [Source -> JobType]
      BY <2>1, ReplacedTyped
    <3> QED BY <1>0, <1>2, <2>1, <2>2, <2>3, <2>5, <3>1 DEF Stages
  <2> QED BY <2>1, <2>4, <2>5
<1>11. CASE Push
  <2>1. /\ task.source \in Source /\ task.at = "push"
        /\ UNCHANGED <<settings, stored, alarm, worker, waiting, history>>
    BY <1>11, Pushed
  <2>2. PICK job \in JobType :
          task' = Continue("save", Replaced(task.source, job), task.todo,
                           None, "take")
    BY <1>11, Pushed
  <2>3. Replaced(task.source, job) \in [Source -> JobType]
    BY <2>1, ReplacedTyped
  <2> QED BY <1>0, <1>2, <2>1, <2>2, <2>3 DEF Stages, TypeOK
<1>12. ASSUME task' = Idle, UNCHANGED <<settings, stored, worker, history>>,
              waiting' \in Seq(Operations), waiting' # <<>> => up,
              alarm' \in BOOLEAN
       PROVE  TypeOK'
  BY <1>12, IdleStep DEF TypeOK
<1>13. CASE Finish
  <2>1. CASE SameConnection
    <3>1. /\ task.at = "finish" /\ alarm' = alarm
          /\ task' = Continue("save", task.jobs, {}, None, "arm")
          /\ UNCHANGED <<settings, stored, worker, waiting, history>>
      BY <1>13, <2>1 DEF Finish
    <3> QED BY <1>0, <1>2, <3>1 DEF Stages, TypeOK
  <2>2. CASE ~SameConnection
    BY <1>12, <1>13, <2>2 DEF Finish, TypeOK
  <2> QED BY <2>1, <2>2
<1>14. CASE CheckSave
  <2>1. /\ task.at = "save" /\ task.then # "none"
        /\ UNCHANGED <<settings, stored, alarm, worker, waiting, history>>
        /\ task' \in {Goto("write"), Goto("arm"), Goto("finish")}
    BY <1>14 DEF CheckSave, TypeOK
  <2>2. PICK at \in {"write", "arm", "finish"} : task' = Goto(at)
    BY <2>1
  <2> QED BY <1>0, <1>2, <2>1, <2>2 DEF Goto, Stages, TypeOK
<1>15. CASE WriteQueue
  <2>1. /\ task.at = "write" /\ task' = Goto(task.then) /\ task.then # "none"
        /\ stored' = [connection |-> task.connection, jobs |-> task.jobs]
        /\ UNCHANGED <<settings, alarm, worker, waiting, probes>>
    BY <1>15 DEF WriteQueue, TypeOK
  <2>2. stored' \in [connection : 1..MaxConnection, jobs : [Source -> JobType]]
    BY <1>0, <2>1, SyncQueueAssumption DEF TypeOK, Tasks
  <2>3. requests' \in [Source -> Nat]
    <3>1. requests \in [Source -> Nat]
      BY DEF TypeOK
    <3>2. \A s \in Source :
            (IF Renewed(task.jobs[s]) THEN 0 ELSE requests[s]) \in Nat
      BY <3>1
    <3> QED BY <1>15, <3>1, <3>2 DEF WriteQueue
  <2>4. halted' \in [Source -> BOOLEAN]
    <3>1. \A s \in Source :
            (/\ ~Renewed(task.jobs[s])
             /\ halted[s] \/ task.jobs[s].phase = "blocked") \in BOOLEAN
      OBVIOUS
    <3> QED BY <1>15, <3>1 DEF WriteQueue, TypeOK
  <2> QED BY <1>0, <1>2, <2>1, <2>2, <2>3, <2>4 DEF Goto, Stages, TypeOK
<1>16. CASE Arm
  <2>1. (\E s \in Source : Expected(task.jobs[s])) \in BOOLEAN
    OBVIOUS
  <2>2. alarm' \in BOOLEAN
    BY <1>16, <2>1 DEF Arm, Armed, TypeOK
  <2>3. /\ waiting \in Seq(Operations) /\ RunDue \in Operations
        /\ task.at = "arm"
    BY <1>16 DEF Arm, Armed, RunDue, Operation, Operations, TypeOK
  <2>4. Append(waiting, RunDue) \in Seq(Operations)
    BY <2>3, AppendProperties
  <2>5. waiting' \in Seq(Operations) /\ up
    BY <1>0, <1>16, <2>3, <2>4 DEF Arm, Armed
  <2> QED BY <1>12, <1>16, <2>2, <2>5 DEF Arm, Armed
<1>17. ASSUME NEW operation \in Operations, Arrives(operation),
              alarm' \in BOOLEAN
       PROVE  TypeOK'
  <2>1. waiting' \in Seq(Operations)
    BY <1>17, AppendProperties DEF Arrives, TypeOK
  <2>2. up' = TRUE /\ starting' \in BOOLEAN
    <3>1. (starting \/ ~up) \in BOOLEAN
      OBVIOUS
    <3> QED BY <1>17, <3>1 DEF Arrives
  <2> QED BY <1>17, <2>1, <2>2 DEF Arrives, TypeOK
<1>18. ASSUME NEW kind \in Triggers, NEW names \in SUBSET Source,
              Trigger(kind, names)
       PROVE  TypeOK'
  <2>1. Operation(kind, names) \in Operations
    BY DEF Operation, Operations
  <2> QED BY <1>17, <1>18, <2>1 DEF Trigger, TypeOK
<1>19. CASE AlarmFires \/ SettingsSaved
  <2>1. RunDue \in Operations /\ Recover \in Operations
    BY DEF RunDue, Recover, Operation, Operations
  <2> QED BY <1>17, <1>19, <2>1 DEF AlarmFires, SettingsSaved, TypeOK
<1>20. CASE Wake
  BY <1>20 DEF Wake, TypeOK
<1>21. CASE StartupRecovers
  <2>1. Recover \in Operations /\ waiting \in Seq(Operations)
    BY DEF Recover, Operation, Operations, TypeOK
  <2>2. waiting' \in Seq(Operations)
    BY <1>21, <2>1, AppendProperties DEF StartupRecovers
  <2> QED BY <1>21, <2>2 DEF StartupRecovers, TypeOK
<1>22. CASE WorkerDies
  <2>1. deaths' \in 0..MaxDeaths
    BY <1>22, SyncQueueAssumption DEF WorkerDies, TypeOK
  <2>2. <<>> \in Seq(Operations)
    OBVIOUS
  <2> QED BY <1>22, <2>1, <2>2, IdleStep DEF WorkerDies, TypeOK
<1>23. ASSUME settings' \in [connection : 1..MaxConnection,
                             approved : [Source -> {"no", "paused", "yes"}],
                             probe : BOOLEAN, onChange : BOOLEAN,
                             auto : BOOLEAN],
              UNCHANGED <<stored, alarm, worker, waiting, task>>,
              requests' \in [Source -> Nat], probes' \in [Source -> Nat],
              halted' \in [Source -> BOOLEAN]
       PROVE  TypeOK'
  BY <1>23 DEF TypeOK
<1>24. CASE ChangeConnection
  <2>1. settings.connection + 1 \in 1..MaxConnection
    BY <1>24, SyncQueueAssumption DEF ChangeConnection, TypeOK
  <2>2. settings' \in [connection : 1..MaxConnection,
                       approved : [Source -> {"no", "paused", "yes"}],
                       probe : BOOLEAN, onChange : BOOLEAN, auto : BOOLEAN]
    BY <1>24, <2>1 DEF ChangeConnection, TypeOK
  <2> QED BY <1>23, <1>24, <2>2 DEF ChangeConnection
<1>25. ASSUME NEW s \in Source, NEW approval \in {"no", "paused", "yes"},
              ChangeApproval(s, approval)
       PROVE  TypeOK'
  <2>1. settings' = [settings EXCEPT !.approved =
                       [settings.approved EXCEPT ![s] = approval]]
    BY <1>25 DEF ChangeApproval, TypeOK
  <2>2. settings' \in [connection : 1..MaxConnection,
                       approved : [Source -> {"no", "paused", "yes"}],
                       probe : BOOLEAN, onChange : BOOLEAN, auto : BOOLEAN]
    BY <2>1 DEF TypeOK
  <2> QED BY <1>23, <1>25, <2>2 DEF ChangeApproval, TypeOK
<1>26. CASE ChangeOption
  <2>1. /\ (~settings.probe) \in BOOLEAN /\ (~settings.onChange) \in BOOLEAN
        /\ (~settings.auto) \in BOOLEAN
    OBVIOUS
  <2>2. settings' \in [connection : 1..MaxConnection,
                       approved : [Source -> {"no", "paused", "yes"}],
                       probe : BOOLEAN, onChange : BOOLEAN, auto : BOOLEAN]
    BY <1>26, <2>1 DEF ChangeOption, TypeOK
  <2> QED BY <1>23, <1>26, <2>2 DEF ChangeOption, TypeOK
<1>27. ASSUME NEW jobs \in [Source -> JobType], NEW copy \in [Source -> JobType],
              task = Idle => copy = Empty, Passing(jobs, copy),
              probes' \in [Source -> Nat]
       PROVE  TypeOK'
  <2>1. /\ stored' = [connection |-> stored.connection, jobs |-> jobs]
        /\ task' = Continue(task.at, copy, task.todo, task.source, task.then)
        /\ task' \in Tasks
        /\ task = Idle => task' = Idle
        /\ UNCHANGED <<settings, alarm, worker, waiting, requests, halted>>
    BY <1>27, Passed
  <2>2. /\ task'.at = task.at /\ task'.then = task.then
        /\ task'.source = task.source /\ task'.connection = task.connection
    BY <2>1, Continued
  <2> QED BY <1>27, <2>1, <2>2 DEF TypeOK
<1>28. stored.jobs \in [Source -> JobType] /\ (task = Idle => task.jobs = Empty)
  BY IdleStep DEF TypeOK
<1>29. CASE WindowPasses
  BY <1>0, <1>27, <1>28, <1>29, OlderQueue DEF WindowPasses, TypeOK
<1>30. CASE PeriodPasses
  BY <1>0, <1>27, <1>28, <1>30, ProbeableQueue DEF PeriodPasses
<1>31. CASE UNCHANGED vars
  BY <1>31 DEF vars, TypeOK
<1>32. \A names \in {Source} \cup {{s} : s \in Source} : names \in SUBSET Source
  OBVIOUS
<1> QED BY <1>3, <1>4, <1>5, <1>6, <1>7, <1>8, <1>9, <1>10, <1>11, <1>13,
           <1>14, <1>15, <1>16, <1>18, <1>19, <1>20, <1>21, <1>22, <1>24,
           <1>25, <1>26, <1>29, <1>30, <1>31, <1>32 DEF Next, EngineStep

\* The types of the engine, its queue and the operation under way.
THEOREM TypeCorrect == Spec => []TypeOK
BY InitTyped, NextTyped, PTL DEF Spec

-----------------------------------------------------------------------------
(* The steps by what they do to the queue *)

\* The operation goes on with the same copy, and no source to process that it
\* did not have.
GoesOn ==
  /\ task # Idle /\ UNCHANGED <<settings, stored, worker, waiting, history>>
  /\ \/ task' = Continue("finish", task.jobs, task.todo, task.source, task.then)
     \/ task.at = "save" /\ task' = Goto("write")
     \/ task.at = "save" /\ ~SameConnection /\ task' = Goto("arm")
     \/ task' = Continue("save", task.jobs, {}, None, "arm")

\* The operation is over.
Stops ==
  task' = Idle /\ UNCHANGED <<settings, stored, history>>

\* Events and the user leave the queue and the operation alone.
Apart ==
  /\ UNCHANGED <<task, stored, history>>
  /\ settings'.connection = settings.connection
  /\ settings'.probe = settings.probe \/ "probe" \in Edits

\* Every step is one of these.
LEMMA StepForms ==
  ASSUME TypeOK, [Next]_vars
  PROVE  \/ BeginRecover \/ BeginRunDue
         \/ \E reason \in Triggers : BeginEnqueue(reason)
         \/ \E s \in Source : Drop(s)
         \/ \E s \in Source : TakeUp(s)
         \/ Preflight \/ Push \/ WriteQueue
         \/ GoesOn \/ Stops \/ Apart
         \/ ChangeConnection \/ WindowPasses \/ PeriodPasses
<1> USE DEF worker, history
<1>0. task.at # "idle" => task # Idle
  BY IdleStep
<1>1. CASE AllProcessed
  BY <1>0, <1>1 DEF AllProcessed, Goto, GoesOn
<1>2. CASE Finish
  BY <1>0, <1>2 DEF Finish, GoesOn, Stops
<1>3. CASE CheckSave
  BY <1>0, <1>3 DEF CheckSave, Goto, GoesOn
<1>4. CASE Arm
  BY <1>4 DEF Arm, Armed, Stops
<1>5. CASE WorkerDies
  BY <1>5 DEF WorkerDies, Stops
<1>6. CASE IgnoreChange
  BY <1>6 DEF IgnoreChange, Apart
<1>7. CASE \E kind \in Triggers, names \in {Source} \cup {{s} : s \in Source} :
             Trigger(kind, names)
  BY <1>7 DEF Trigger, Arrives, Apart
<1>8. CASE AlarmFires \/ SettingsSaved \/ Wake \/ StartupRecovers
  BY <1>8 DEF AlarmFires, SettingsSaved, Wake, StartupRecovers, Arrives, Apart
<1>9. CASE ChangeOption
  <2>1. /\ settings'.connection = settings.connection
        /\ settings'.probe = settings.probe \/ "probe" \in Edits
    BY <1>9 DEF ChangeOption, TypeOK
  <2> QED BY <1>9, <2>1 DEF ChangeOption, Apart
<1>10. ASSUME NEW s \in Source, NEW approval, ChangeApproval(s, approval)
       PROVE  Apart
  <2>1. PICK approved : settings' = [settings EXCEPT !.approved = approved]
    BY <1>10 DEF ChangeApproval, TypeOK
  <2>2. /\ settings'.connection = settings.connection
        /\ settings'.probe = settings.probe
    BY <2>1 DEF TypeOK
  <2> QED BY <1>10, <2>2 DEF ChangeApproval, Apart
<1>11. CASE UNCHANGED vars
  BY <1>11 DEF vars, Apart
<1> QED BY <1>1, <1>2, <1>3, <1>4, <1>5, <1>6, <1>7, <1>8, <1>9, <1>10, <1>11
        DEF Next, EngineStep

\* The fields of an operation that goes on; only what must be saved leads to
\* the steps that rely on what is stored.
LEMMA WentOn ==
  ASSUME TypeOK, GoesOn
  PROVE  /\ task'.jobs = task.jobs /\ task'.todo \subseteq task.todo
         /\ task'.connection = task.connection
         /\ task'.then = "preflight" =>
              task.then = "preflight" /\ task'.source = task.source
                /\ task'.todo = task.todo
         /\ task'.at \in {"finish", "write", "save", "arm"}
         /\ task'.at = "arm" => ~SameConnection
         /\ task'.at \in {"save", "write", "preflight"} /\ task'.then = "preflight"
              => task.at = "save"
         /\ UNCHANGED <<settings, stored, worker, waiting, history>>
<1>1. PICK at, todo, s, then : task' = Continue(at, task.jobs, todo, s, then)
  BY DEF GoesOn, Goto
<1> QED BY <1>1, Continued DEF GoesOn, Goto, Continue, Task

\* After the queue was written it is the copy of the operation that wrote it.
LEMMA Written ==
  ASSUME TypeOK, WriteQueue
  PROVE  /\ task.at = "write" /\ task # Idle
         /\ stored' = [connection |-> task.connection, jobs |-> task.jobs]
         /\ task'.at = task.then /\ task'.jobs = task.jobs
         /\ task'.todo = task.todo /\ task'.source = task.source
         /\ task'.then = task.then /\ task'.connection = task.connection
         /\ UNCHANGED <<settings, alarm, worker, waiting, probes>>
<1>1. task' = Continue(task.then, task.jobs, task.todo, task.source, task.then)
  BY DEF WriteQueue, Goto
<1> QED BY <1>1, Continued, IdleStep DEF WriteQueue

\* What a window or a period that passes does to the queue and to the copy.
LEMMA TimePassed ==
  ASSUME TypeOK, WindowPasses \/ PeriodPasses
  PROVE  /\ stored'.connection = stored.connection
         /\ stored' \in [connection : 1..MaxConnection, jobs : [Source -> JobType]]
         /\ task' \in Tasks
         /\ task'.at = task.at /\ task'.todo = task.todo
         /\ task'.source = task.source /\ task'.then = task.then
         /\ task'.connection = task.connection
         /\ task' = Idle <=> task = Idle
         /\ \A s \in Source :
              /\ stored'.jobs[s].phase = stored.jobs[s].phase
              /\ stored'.jobs[s].attempts = stored.jobs[s].attempts
              /\ stored'.jobs[s].reason = stored.jobs[s].reason
              /\ stored'.jobs[s].wait = "never" <=> stored.jobs[s].wait = "never"
              /\ stored'.jobs[s].probe = "never"
                   <=> stored.jobs[s].probe = "never"
              /\ task'.jobs[s].phase = task.jobs[s].phase
              /\ task'.jobs[s].attempts = task.jobs[s].attempts
              /\ task'.jobs[s].reason = task.jobs[s].reason
              /\ task.jobs[s].probe = "now" => task'.jobs[s].probe = "now"
         /\ stored.jobs = task.jobs => stored'.jobs = task'.jobs
         /\ WindowPasses => \A s \in Source :
              /\ stored'.jobs[s].probe = stored.jobs[s].probe
              /\ task'.jobs[s].probe = task.jobs[s].probe
         /\ UNCHANGED <<settings, alarm, worker, waiting, requests, halted>>
<1>0. /\ stored.jobs \in [Source -> JobType] /\ task.jobs \in [Source -> JobType]
      /\ stored.connection \in 1..MaxConnection
      /\ task = Idle => task.jobs = Empty
  BY IdleStep DEF TypeOK, Tasks
<1>1. CASE WindowPasses
  <2>1. PICK jobs : jobs = [s \in Source |-> Older(stored.jobs[s])]
    OBVIOUS
  <2>2. PICK copy : copy = [s \in Source |-> Older(task.jobs[s])]
    OBVIOUS
  <2>3. /\ jobs \in [Source -> JobType] /\ copy \in [Source -> JobType]
        /\ task = Idle => copy = Empty
    BY <1>0, <2>1, <2>2, OlderQueue
  <2>4. Passing(jobs, copy)
    BY <1>1, <2>1, <2>2 DEF WindowPasses
  <2>5. /\ stored' = [connection |-> stored.connection, jobs |-> jobs]
        /\ task' = Continue(task.at, copy, task.todo, task.source, task.then)
        /\ task' \in Tasks
        /\ task' = Idle <=> task = Idle
        /\ UNCHANGED <<settings, alarm, worker, waiting, requests, halted>>
    BY <2>3, <2>4, Passed
  <2>6. \A s \in Source : jobs[s] = Older(stored.jobs[s])
                          /\ copy[s] = Older(task.jobs[s])
    BY <2>1, <2>2
  <2>7. \A s \in Source : stored.jobs[s] \in JobType /\ task.jobs[s] \in JobType
    BY <1>0
  <2>8. stored.jobs = task.jobs => jobs = copy
    BY <2>1, <2>2
  <2>9. /\ task'.at = task.at /\ task'.todo = task.todo /\ task'.jobs = copy
        /\ task'.source = task.source /\ task'.then = task.then
        /\ task'.connection = task.connection
    BY <2>5, Continued
  <2> QED BY <1>0, <2>3, <2>5, <2>6, <2>7, <2>8, <2>9, OlderTyped
<1>2. CASE PeriodPasses
  <2>1. PICK jobs : jobs = [s \in Source |-> Probeable(stored.jobs[s])]
    OBVIOUS
  <2>2. PICK copy : copy = [s \in Source |-> Probeable(task.jobs[s])]
    OBVIOUS
  <2>3. /\ jobs \in [Source -> JobType] /\ copy \in [Source -> JobType]
        /\ task = Idle => copy = Empty
    BY <1>0, <2>1, <2>2, ProbeableQueue
  <2>4. Passing(jobs, copy)
    BY <1>2, <2>1, <2>2 DEF PeriodPasses
  <2>5. /\ stored' = [connection |-> stored.connection, jobs |-> jobs]
        /\ task' = Continue(task.at, copy, task.todo, task.source, task.then)
        /\ task' \in Tasks
        /\ task' = Idle <=> task = Idle
        /\ UNCHANGED <<settings, alarm, worker, waiting, requests, halted>>
    BY <2>3, <2>4, Passed
  <2>6. \A s \in Source : jobs[s] = Probeable(stored.jobs[s])
                          /\ copy[s] = Probeable(task.jobs[s])
    BY <2>1, <2>2
  <2>7. \A s \in Source : stored.jobs[s] \in JobType /\ task.jobs[s] \in JobType
    BY <1>0
  <2>8. stored.jobs = task.jobs => jobs = copy
    BY <2>1, <2>2
  <2>9. /\ task'.at = task.at /\ task'.todo = task.todo /\ task'.jobs = copy
        /\ task'.source = task.source /\ task'.then = task.then
        /\ task'.connection = task.connection
    BY <2>5, Continued
  <2>10. ~WindowPasses \/ \A s \in Source :
              /\ stored'.jobs[s].probe = stored.jobs[s].probe
              /\ task'.jobs[s].probe = task.jobs[s].probe
    BY <1>1
  <2> QED BY <1>0, <2>3, <2>5, <2>6, <2>7, <2>8, <2>9, <2>10, ProbeableTyped
<1> QED BY <1>1, <1>2

\* An operation begins with the settings' view of the queue, in which it renews
\* some jobs, or with sources that are due.
LEMMA Began ==
  ASSUME TypeOK,
         \/ BeginRecover \/ BeginRunDue
         \/ \E reason \in Triggers : BeginEnqueue(reason)
  PROVE  /\ task = Idle /\ task' # Idle /\ task' \in Tasks
         /\ task'.at \in {"save", "take"} /\ task'.then \in {"none", "arm"}
         /\ task'.connection = settings.connection
         /\ \A s \in Source :
              \/ task'.jobs[s] = Context[s]
              \/ /\ task'.jobs[s] = Recovered(Context[s])
                 /\ s \notin task'.todo
              \/ \E reason \in Triggers :
                   /\ settings.approved[s] = "yes"
                   /\ ~Skipped(reason, Context[s])
                   /\ task'.jobs[s] = Queued(reason, Context[s])
                   /\ s \notin task'.todo
         /\ \A s \in task'.todo : task'.jobs[s] = Context[s] /\ Due(Context[s])
         /\ UNCHANGED <<settings, stored, alarm, worker, history>>
<1>1. CASE BeginRecover
  <2>1. PICK jobs \in [Source -> JobType] :
          jobs = [s \in Source |-> Recovered(Context[s])]
    BY RecoveredQueue
  <2>2. Turn("recover") /\ Begin("save", jobs, {}, "arm")
    BY <1>1, <2>1 DEF BeginRecover
  <2>3. /\ task = Idle /\ task'.at = "save" /\ task'.jobs = jobs
        /\ task'.todo = {} /\ task'.then = "arm"
        /\ task'.connection = settings.connection /\ task' \in Tasks
        /\ UNCHANGED <<settings, stored, alarm, worker, history>>
    BY <2>2, Begun DEF Stages
  <2> QED BY <2>1, <2>3, IdleStep
<1>2. ASSUME NEW reason \in Triggers, BeginEnqueue(reason)
      PROVE  /\ task = Idle /\ task' # Idle /\ task' \in Tasks
             /\ task'.at = "save" /\ task'.then = "arm" /\ task'.todo = {}
             /\ task'.connection = settings.connection
             /\ \A s \in Source :
                  \/ task'.jobs[s] = Context[s]
                  \/ /\ settings.approved[s] = "yes"
                     /\ ~Skipped(reason, Context[s])
                     /\ task'.jobs[s] = Queued(reason, Context[s])
             /\ UNCHANGED <<settings, stored, alarm, worker, history>>
  <2>1. PICK jobs \in [Source -> JobType] :
          /\ Begin("save", jobs, {}, "arm")
          /\ \A s \in Source :
               \/ jobs[s] = Context[s]
               \/ /\ settings.approved[s] = "yes"
                  /\ ~Skipped(reason, Context[s])
                  /\ jobs[s] = Queued(reason, Context[s])
    BY <1>2, EnqueuedTyped
  <2>2. Turn(reason)
    BY <1>2 DEF BeginEnqueue
  <2>3. /\ task = Idle /\ task'.at = "save" /\ task'.jobs = jobs
        /\ task'.todo = {} /\ task'.then = "arm"
        /\ task'.connection = settings.connection /\ task' \in Tasks
        /\ UNCHANGED <<settings, stored, alarm, worker, history>>
    BY <2>1, <2>2, Begun DEF Stages
  <2> QED BY <2>1, <2>3, IdleStep
<1>3. CASE BeginRunDue
  <2>1. PICK picked \in SUBSET Source :
          /\ Begin("take", Context, picked, "none")
          /\ \A s \in picked : Due(Context[s])
    BY <1>3, Picked
  <2>2. Turn("runDue") /\ Context \in [Source -> JobType]
    BY <1>3, ContextTyped DEF BeginRunDue
  <2>3. /\ task = Idle /\ task'.at = "take" /\ task'.jobs = Context
        /\ task'.todo = picked /\ task'.then = "none"
        /\ task'.connection = settings.connection /\ task' \in Tasks
        /\ UNCHANGED <<settings, stored, alarm, worker, history>>
    BY <2>1, <2>2, Begun DEF Stages
  <2> QED BY <2>1, <2>3, IdleStep
<1> QED BY <1>1, <1>2, <1>3

-----------------------------------------------------------------------------
(* Connections *)

\* Every step keeps Generations.
LEMMA GenerationsStep == TypeOK /\ Generations /\ [Next]_vars => Generations'
<1> SUFFICES ASSUME TypeOK, Generations, [Next]_vars PROVE Generations'
  OBVIOUS
<1>0. /\ settings.connection \in Nat /\ stored.connection \in Nat
      /\ task.connection \in Nat /\ MaxConnection \in Nat
  BY SyncQueueAssumption DEF TypeOK, Tasks
<1>1. CASE \/ BeginRecover \/ BeginRunDue
           \/ \E reason \in Triggers : BeginEnqueue(reason)
  BY <1>0, <1>1, Began DEF Generations, SameConnection
<1>2. ASSUME task # Idle, task'.connection = task.connection,
             UNCHANGED <<settings, stored>>
      PROVE  Generations'
  BY <1>0, <1>2 DEF Generations, SameConnection
<1>3. task.at # "idle" => task # Idle
  BY IdleStep
<1>4. ASSUME NEW s \in Source, Drop(s) PROVE Generations'
  <2>1. PICK job \in JobType :
          /\ task' = Continue("take", Replaced(s, job), task.todo \ {s}, None,
                              "none")
          /\ task.at = "take" /\ UNCHANGED <<settings, stored>>
    BY <1>4, Dropped
  <2> QED BY <1>2, <1>3, <2>1, Processed
<1>5. ASSUME NEW s \in Source, TakeUp(s) PROVE Generations'
  <2>1. PICK job \in JobType :
          /\ task' = Continue("save", Replaced(s, job), task.todo \ {s}, s,
                              "preflight")
          /\ task.at = "take" /\ UNCHANGED <<settings, stored>>
    BY <1>5, Taken
  <2> QED BY <1>2, <1>3, <2>1, Processed
<1>6. CASE Preflight
  BY <1>2, <1>3, <1>6, Preflighted, Continued
<1>7. CASE Push
  BY <1>2, <1>3, <1>7, Pushed, Continued
<1>8. CASE WriteQueue
  BY <1>0, <1>8, Written DEF Generations, SameConnection
<1>9. CASE GoesOn
  BY <1>2, <1>9, WentOn DEF GoesOn
<1>10. CASE Stops
  BY <1>0, <1>10, IdleStep DEF Stops, Generations
<1>11. CASE Apart
  BY <1>0, <1>11 DEF Apart, Generations, SameConnection
<1>12. CASE ChangeConnection
  <2>1. settings'.connection = settings.connection + 1
    BY <1>12 DEF ChangeConnection, TypeOK
  <2> QED BY <1>0, <1>12, <2>1 DEF ChangeConnection, Generations, SameConnection
<1>13. CASE WindowPasses \/ PeriodPasses
  BY <1>0, <1>13, TimePassed DEF Generations, SameConnection
<1> QED BY <1>1, <1>4, <1>5, <1>6, <1>7, <1>8, <1>9, <1>10, <1>11, <1>12, <1>13,
           StepForms

\* The queue and the engine begin with the same connection.
LEMMA GenerationsInit == Init => Generations
<1> SUFFICES ASSUME Init PROVE Generations
  OBVIOUS
<1> QED BY IdleStep DEF Init, Generations

-----------------------------------------------------------------------------
(* Runs *)

\* A due job is active, or exhausted with a probe that is due.
LEMMA DuePhase ==
  ASSUME NEW job, Due(job)
  PROVE  /\ job.phase \in Active \cup {"exhausted"}
         /\ job.phase = "exhausted" => job.probe = "now"
BY DEF Due, Active

\* Every step keeps RunInOrder.
LEMMA RunInOrderStep == TypeOK /\ RunInOrder /\ [Next]_vars => RunInOrder'
<1> SUFFICES ASSUME TypeOK, RunInOrder, [Next]_vars PROVE RunInOrder'
  OBVIOUS
<1>0. /\ task.jobs \in [Source -> JobType] /\ task.todo \in SUBSET Source
      /\ task.then = "preflight" => task.source \in Source
  BY DEF TypeOK, Tasks
<1>1. CASE \/ BeginRecover \/ BeginRunDue
           \/ \E reason \in Triggers : BeginEnqueue(reason)
  BY <1>1, Began, DuePhase DEF RunInOrder
<1>2. ASSUME NEW s \in Source, Drop(s) PROVE RunInOrder'
  <2>1. PICK job \in JobType :
          task' = Continue("take", Replaced(s, job), task.todo \ {s}, None,
                           "none")
    BY <1>2, Dropped
  <2>2. /\ task'.todo = task.todo \ {s} /\ task'.then = "none"
        /\ \A q \in Source \ {s} : task'.jobs[q] = task.jobs[q]
    BY <2>1, Processed
  <2> QED BY <1>0, <2>2 DEF RunInOrder
<1>3. ASSUME NEW s \in Source, TakeUp(s) PROVE RunInOrder'
  <2>1. PICK job \in JobType :
          /\ task' = Continue("save", Replaced(s, job), task.todo \ {s}, s,
                              "preflight")
          /\ job.phase \in {"probing", "syncing"}
    BY <1>3, Taken
  <2>2. /\ task'.todo = task.todo \ {s} /\ task'.source = s
        /\ task'.jobs[s] = job
        /\ \A q \in Source \ {s} : task'.jobs[q] = task.jobs[q]
    BY <2>1, Processed
  <2>3. \A q \in task'.todo : q \in task.todo /\ task'.jobs[q] = task.jobs[q]
    BY <1>0, <2>2
  <2>4. \A q \in task'.todo :
          /\ task'.jobs[q].phase \in Active \cup {"exhausted"}
          /\ task'.jobs[q].phase = "exhausted" => task'.jobs[q].probe = "now"
    BY <2>3 DEF RunInOrder
  <2>5. /\ task'.source \notin task'.todo
        /\ task'.jobs[task'.source].phase \in {"syncing", "probing"}
    BY <2>1, <2>2
  <2> QED BY <2>4, <2>5 DEF RunInOrder
<1>4. ASSUME NEW at, NEW then \in {"take", "none"}, NEW job \in JobType,
             task.then = "preflight",
             task' = Continue(at, Replaced(task.source, job), task.todo, None,
                              then)
      PROVE  RunInOrder'
  <2>1. /\ task'.todo = task.todo /\ task'.then = then
        /\ \A q \in Source \ {task.source} : task'.jobs[q] = task.jobs[q]
    BY <1>0, <1>4, Processed
  <2> QED BY <1>0, <1>4, <2>1 DEF RunInOrder
<1>5. CASE Preflight
  <2>1. CASE task' = Continue("push", task.jobs, task.todo, task.source,
                              "preflight")
    BY <1>5, <2>1, Continued, Preflighted DEF RunInOrder
  <2> QED BY <1>4, <1>5, <2>1, Preflighted
<1>6. CASE Push
  <2>1. task.then = "preflight"
    BY <1>6 DEF Push, TypeOK
  <2> QED BY <1>4, <1>6, <2>1, Pushed
<1>7. CASE WriteQueue
  BY <1>7, Written DEF RunInOrder
<1>8. CASE GoesOn
  BY <1>8, WentOn DEF RunInOrder
<1>9. CASE Stops
  BY <1>9, IdleStep DEF Stops, RunInOrder
<1>10. CASE Apart \/ ChangeConnection
  BY <1>10 DEF Apart, ChangeConnection, RunInOrder
<1>11. CASE WindowPasses \/ PeriodPasses
  BY <1>0, <1>11, TimePassed DEF RunInOrder
<1> QED BY <1>1, <1>2, <1>3, <1>5, <1>6, <1>7, <1>8, <1>9, <1>10, <1>11, StepForms

\* At first there is no run.
LEMMA RunInOrderInit == Init => RunInOrder
<1> SUFFICES ASSUME Init PROVE RunInOrder
  OBVIOUS
<1> QED BY IdleStep DEF Init, RunInOrder

\* Every step keeps WrittenDown.
LEMMA WrittenDownStep ==
  TypeOK /\ Generations /\ WrittenDown /\ [Next]_vars => WrittenDown'
<1> SUFFICES ASSUME TypeOK, Generations, WrittenDown, [Next]_vars
             PROVE  WrittenDown'
  OBVIOUS
<1>0. /\ settings.connection \in Nat /\ task.connection \in Nat
  BY DEF TypeOK, Tasks
<1>1. ASSUME task'.at \notin {"preflight", "push", "arm"} PROVE WrittenDown'
  BY <1>1 DEF WrittenDown
<1>2. CASE \/ BeginRecover \/ BeginRunDue
           \/ \E reason \in Triggers : BeginEnqueue(reason)
  BY <1>1, <1>2, Began
<1>3. ASSUME NEW s \in Source, Drop(s) \/ TakeUp(s) PROVE WrittenDown'
  <2>1. task'.at \in {"take", "save"}
    BY <1>3 DEF Drop, TakeUp, Take, Continue, Task
  <2> QED BY <1>1, <2>1
<1>4. CASE Preflight
  <2>1. CASE task' = Continue("push", task.jobs, task.todo, task.source,
                              "preflight")
    BY <1>4, <2>1, Continued, Preflighted DEF WrittenDown, SameConnection
  <2> QED BY <1>1, <1>4, <2>1, Preflighted, Continued
<1>5. CASE Push
  BY <1>1, <1>5, Pushed, Continued
<1>6. CASE WriteQueue
  BY <1>6, Written DEF WrittenDown
<1>7. CASE GoesOn
  BY <1>7, WentOn DEF WrittenDown, SameConnection
<1>8. CASE Stops
  BY <1>1, <1>8, IdleStep DEF Stops
<1>9. CASE Apart
  BY <1>9 DEF Apart, WrittenDown, SameConnection
<1>10. CASE ChangeConnection
  <2>1. settings'.connection = settings.connection + 1 /\ task' = task
    BY <1>10 DEF ChangeConnection, TypeOK
  <2> QED BY <1>0, <2>1 DEF Generations, WrittenDown, SameConnection
<1>11. CASE WindowPasses \/ PeriodPasses
  <2>1. /\ task'.at = task.at /\ task'.connection = task.connection
        /\ stored.jobs = task.jobs => stored'.jobs = task'.jobs
        /\ stored'.connection = stored.connection
        /\ stored' \in [connection : 1..MaxConnection,
                        jobs : [Source -> JobType]]
        /\ settings' = settings
    BY <1>11, TimePassed
  <2> QED BY <2>1 DEF WrittenDown, SameConnection
<1> QED BY <1>2, <1>3, <1>4, <1>5, <1>6, <1>7, <1>8, <1>9, <1>10, <1>11, StepForms

\* At first nothing is under way.
LEMMA WrittenDownInit == Init => WrittenDown
<1> SUFFICES ASSUME Init PROVE WrittenDown
  OBVIOUS
<1> QED BY IdleStep DEF Init, WrittenDown

-----------------------------------------------------------------------------
(* Blocked sources *)

\* A source that is approved keeps the phase of its job.
LEMMA ApprovedInContext ==
  ASSUME NEW job \in JobType, NEW s \in Source, settings.approved[s] = "yes"
  PROVE  InContext(job, s).phase = job.phase
BY WithProbeTyped DEF InContext, JobType

\* What a fresh operation makes of a blocked job.
LEMMA BlockedBegun ==
  ASSUME TypeOK, NEW s \in Source, stored.connection = settings.connection,
         stored.jobs[s].phase = "blocked",
         \/ BeginRecover \/ BeginRunDue
         \/ \E reason \in Triggers : BeginEnqueue(reason)
  PROVE  /\ task'.jobs[s].phase = "blocked" \/ Renewed(task'.jobs[s])
         /\ s \notin task'.todo
<1>0. /\ stored.jobs[s] \in JobType /\ Context[s] \in JobType
      /\ settings.probe \in BOOLEAN
      /\ Context[s] = InContext(stored.jobs[s], s)
  BY ContextTyped DEF TypeOK
<1>1. Context[s].phase \in {"none", "paused", "blocked"}
  BY <1>0, InContextTyped
<1>2. s \notin task'.todo
  BY <1>1, Began DEF Due, Active
<1>3. CASE task'.jobs[s] = Context[s]
  BY <1>1, <1>2, <1>3 DEF Renewed
<1>4. CASE task'.jobs[s] = Recovered(Context[s])
  BY <1>0, <1>1, <1>2, <1>4, RecoveredTyped DEF Renewed
<1>5. ASSUME NEW reason \in Triggers, settings.approved[s] = "yes",
             ~Skipped(reason, Context[s]),
             task'.jobs[s] = Queued(reason, Context[s])
      PROVE  Renewed(task'.jobs[s])
  <2>1. Context[s].phase = "blocked"
    BY <1>0, <1>5, ApprovedInContext
  <2>2. reason = "manual"
    BY <1>5, <2>1 DEF Skipped
  <2>3. task'.jobs[s].phase = "pending" /\ task'.jobs[s].reason = "manual"
    BY <1>0, <1>5, <2>2, QueuedTyped
  <2> QED BY <2>3 DEF Renewed
<1> QED BY <1>2, <1>3, <1>4, <1>5, Began

\* Every step keeps HaltedIsBlocked.
LEMMA HaltedStep ==
  TypeOK /\ Generations /\ RunInOrder /\ HaltedIsBlocked /\ [Next]_vars
    => HaltedIsBlocked'
<1> SUFFICES ASSUME TypeOK, Generations, RunInOrder, HaltedIsBlocked, [Next]_vars
             PROVE  HaltedIsBlocked'
  OBVIOUS
<1> USE DEF history
<1>0. /\ task.jobs \in [Source -> JobType] /\ task.todo \in SUBSET Source
      /\ task.then = "preflight" => task.source \in Source
      /\ task.at # "idle" => task # Idle
      /\ settings.connection \in Nat /\ stored.connection \in Nat
      /\ task.connection \in Nat
  BY IdleStep DEF TypeOK, Tasks
<1>1. CASE \/ BeginRecover \/ BeginRunDue
           \/ \E reason \in Triggers : BeginEnqueue(reason)
  BY <1>1, Began, BlockedBegun DEF HaltedIsBlocked
<1>2. ASSUME task # Idle, NEW s \in Source, ~halted[s],
             UNCHANGED <<settings, stored, halted>>,
             \A r \in Source \ {s} : task'.jobs[r] = task.jobs[r],
             task'.todo \subseteq task.todo
      PROVE  HaltedIsBlocked'
  BY <1>2 DEF HaltedIsBlocked
<1>3. ASSUME NEW s \in Source, Drop(s) PROVE HaltedIsBlocked'
  <2>1. PICK job \in JobType :
          /\ task' = Continue("take", Replaced(s, job), task.todo \ {s}, None,
                              "none")
          /\ task.at = "take" /\ s \in task.todo
          /\ UNCHANGED <<settings, stored, halted>>
    BY <1>3, Dropped
  <2>2. /\ task'.todo \subseteq task.todo
        /\ \A r \in Source \ {s} : task'.jobs[r] = task.jobs[r]
    BY <2>1, Processed
  <2>3. task # Idle /\ ~halted[s]
    BY <1>0, <2>1 DEF HaltedIsBlocked
  <2> QED BY <1>2, <2>1, <2>2, <2>3
<1>4. ASSUME NEW s \in Source, TakeUp(s) PROVE HaltedIsBlocked'
  <2>1. PICK job \in JobType :
          /\ task' = Continue("save", Replaced(s, job), task.todo \ {s}, s,
                              "preflight")
          /\ task.at = "take" /\ s \in task.todo
          /\ UNCHANGED <<settings, stored, halted>>
    BY <1>4, Taken
  <2>2. /\ task'.todo \subseteq task.todo
        /\ \A r \in Source \ {s} : task'.jobs[r] = task.jobs[r]
    BY <2>1, Processed
  <2>3. task # Idle /\ ~halted[s]
    BY <1>0, <2>1 DEF HaltedIsBlocked
  <2> QED BY <1>2, <2>1, <2>2, <2>3
<1>5. task.then = "preflight" => task # Idle /\ ~halted[task.source]
  BY <1>0, IdleStep DEF RunInOrder, HaltedIsBlocked, Renewed
<1>6. ASSUME NEW at, NEW then, NEW job \in JobType,
             task' = Continue(at, Replaced(task.source, job), task.todo, None,
                              then),
             task.then = "preflight", UNCHANGED <<settings, stored, halted>>
      PROVE  HaltedIsBlocked'
  <2>1. /\ task'.todo = task.todo
        /\ \A r \in Source \ {task.source} : task'.jobs[r] = task.jobs[r]
    BY <1>0, <1>6, Processed
  <2> QED BY <1>0, <1>2, <1>5, <1>6, <2>1
<1>7. CASE Preflight
  <2>1. CASE task' = Continue("push", task.jobs, task.todo, task.source,
                              "preflight")
    <3>1. task'.jobs = task.jobs /\ task'.todo = task.todo
      BY <2>1, Continued
    <3> QED BY <1>2, <1>5, <1>7, <3>1, Preflighted
  <2> QED BY <1>6, <1>7, <2>1, Preflighted
<1>8. CASE Push
  <2>1. task.then = "preflight"
    BY <1>8 DEF Push, TypeOK
  <2> QED BY <1>6, <1>8, <2>1, Pushed
<1>9. CASE WriteQueue
  <2>1. /\ task # Idle /\ task'.jobs = task.jobs /\ task'.todo = task.todo
        /\ stored' = [connection |-> task.connection, jobs |-> task.jobs]
        /\ settings' = settings
    BY <1>9, Written
  <2>2. CASE SameConnection
    <3> SUFFICES ASSUME NEW s \in Source, halted'[s]
                 PROVE  /\ task.jobs[s].phase = "blocked"
                        /\ s \notin task.todo
      BY <2>1, <2>2 DEF HaltedIsBlocked, SameConnection
    <3>1. /\ ~Renewed(task.jobs[s])
          /\ halted[s] \/ task.jobs[s].phase = "blocked"
      BY <1>9, <2>2 DEF WriteQueue
    <3>2. CASE halted[s]
      BY <2>1, <3>1, <3>2 DEF HaltedIsBlocked
    <3>3. CASE task.jobs[s].phase = "blocked"
      BY <3>3 DEF RunInOrder, Active
    <3> QED BY <3>1, <3>2, <3>3
  <2>3. CASE ~SameConnection
    <3>1. \A s \in Source : ~halted[s]
      BY <1>0, <2>1, <2>3 DEF Generations, HaltedIsBlocked
    <3>2. halted' = halted
      BY <1>9, <2>3 DEF WriteQueue
    <3> QED BY <3>1, <3>2 DEF HaltedIsBlocked
  <2> QED BY <2>2, <2>3
<1>10. CASE GoesOn
  <2>1. /\ task'.jobs = task.jobs /\ task'.todo \subseteq task.todo
        /\ UNCHANGED <<settings, stored, halted>> /\ task # Idle
    BY <1>10, WentOn DEF GoesOn
  <2> QED BY <2>1 DEF HaltedIsBlocked
<1>11. CASE Stops
  BY <1>11 DEF Stops, HaltedIsBlocked
<1>12. CASE Apart
  BY <1>12 DEF Apart, HaltedIsBlocked
<1>13. CASE ChangeConnection
  BY <1>13 DEF ChangeConnection, HaltedIsBlocked
<1>14. CASE WindowPasses \/ PeriodPasses
  <2>1. /\ halted' = halted /\ settings' = settings /\ task'.todo = task.todo
        /\ stored'.connection = stored.connection
        /\ task' = Idle <=> task = Idle
        /\ \A s \in Source : /\ stored'.jobs[s].phase = stored.jobs[s].phase
                             /\ task'.jobs[s].phase = task.jobs[s].phase
                             /\ task'.jobs[s].reason = task.jobs[s].reason
    BY <1>14, TimePassed
  <2> QED BY <2>1 DEF HaltedIsBlocked, Renewed
<1> QED BY <1>1, <1>3, <1>4, <1>7, <1>8, <1>9, <1>10, <1>11, <1>12, <1>13, <1>14,
           StepForms

\* At first no source is refused.
LEMMA HaltedInit == Init => HaltedIsBlocked
BY DEF Init, HaltedIsBlocked

\* Once it is on record that the receiver refused a source for good, nothing is
\* sent for it, neither for automatic events nor after a restart, until the user
\* asks or it is approved anew: the stored job is blocked, and so is the copy of
\* every operation that is about the present connection (runDue and enqueue in
\* sync.js).  A refusal that was not written down before the worker was killed
\* is forgotten.
THEOREM BlockedStaysUntried == Spec => []BlockedIsNotTried
<1> DEFINE Inv == TypeOK /\ Generations /\ RunInOrder /\ HaltedIsBlocked
<1>1. Init => Inv
  BY InitTyped, GenerationsInit, RunInOrderInit, HaltedInit
<1>2. Inv /\ [Next]_vars => Inv'
  BY NextTyped, GenerationsStep, RunInOrderStep, HaltedStep
<1>3. Inv => BlockedIsNotTried
  <2> SUFFICES ASSUME Inv, task.at \in {"preflight", "push"}
               PROVE  ~halted[task.source]
    BY DEF BlockedIsNotTried
  <2>1. task.then = "preflight" /\ task.source \in Source /\ task # Idle
    BY IdleStep DEF TypeOK
  <2> QED BY <2>1 DEF RunInOrder, HaltedIsBlocked, Renewed
<1> HIDE DEF Inv
<1> QED BY <1>1, <1>2, <1>3, PTL DEF Spec

-----------------------------------------------------------------------------
(* Probes *)

\* No probe is due at the beginning of an operation that was not due before.
LEMMA ProbeBegun ==
  ASSUME TypeOK, NEW s \in Source,
         \/ BeginRecover \/ BeginRunDue
         \/ \E reason \in Triggers : BeginEnqueue(reason),
         task'.jobs[s].probe = "now"
  PROVE  /\ stored.connection = settings.connection
         /\ stored.jobs[s].probe = "now"
<1>0. /\ stored.jobs[s] \in JobType /\ Context[s] \in JobType
      /\ settings.probe \in BOOLEAN
      /\ stored.connection = settings.connection =>
           Context[s] = InContext(stored.jobs[s], s)
      /\ stored.connection # settings.connection => Context[s] = NoJob
  BY ContextTyped DEF TypeOK
<1>1. Context[s].probe = "now"
  <2>1. CASE task'.jobs[s] = Context[s]
    BY <2>1
  <2>2. CASE task'.jobs[s] = Recovered(Context[s])
    BY <1>0, <2>2, RecoveredTyped
  <2>3. ASSUME NEW reason \in Triggers, task'.jobs[s] = Queued(reason, Context[s])
        PROVE  FALSE
    <3>1. reason \in {"manual", "change", "periodic"}
      BY SyncQueueAssumption
    <3> QED BY <1>0, <2>3, <3>1, QueuedTyped
  <2> QED BY <2>1, <2>2, <2>3, Began
<1> QED BY <1>0, <1>1, InContextTyped, NoJobTyped

\* Every step keeps ProbedIsNotDue.
LEMMA ProbedStep ==
  /\ TypeOK /\ Generations /\ RunInOrder /\ WrittenDown /\ ProbedIsNotDue
  /\ [Next]_vars
  => ProbedIsNotDue'
<1> SUFFICES ASSUME TypeOK, Generations, RunInOrder, WrittenDown,
                    ProbedIsNotDue, [Next]_vars
             PROVE  ProbedIsNotDue'
  OBVIOUS
<1> USE DEF history
<1>0. /\ task.jobs \in [Source -> JobType] /\ task.todo \in SUBSET Source
      /\ task.then = "preflight" => task.source \in Source
      /\ task.at # "idle" => task # Idle
      /\ settings.connection \in Nat /\ stored.connection \in Nat
      /\ task.connection \in Nat
      /\ probes \in [Source -> Nat]
  BY IdleStep DEF TypeOK, Tasks
<1>1. CASE \/ BeginRecover \/ BeginRunDue
           \/ \E reason \in Triggers : BeginEnqueue(reason)
  <2>1. /\ task'.then # "preflight"
        /\ UNCHANGED <<settings, stored, probes>>
    BY <1>1, Began
  <2>2. \A s \in Source : task'.jobs[s].probe = "now" => probes[s] = 0
    BY <1>1, ProbeBegun DEF ProbedIsNotDue
  <2> QED BY <2>1, <2>2 DEF ProbedIsNotDue
<1>2. ASSUME NEW s \in Source, UNCHANGED <<settings, stored, probes>>,
             task'.jobs[s].probe = "now" => task.jobs[s].probe = "now",
             \A r \in Source \ {s} : task'.jobs[r] = task.jobs[r],
             task'.then = "preflight" =>
               /\ task'.source = s
               /\ task'.jobs[s].phase = "probing" =>
                    task'.jobs[s].probe # "now" /\ probes[s] = 0
      PROVE  ProbedIsNotDue'
  <2>1. \A r \in Source : task'.jobs[r].probe = "now" => probes[r] = 0
    BY <1>2 DEF ProbedIsNotDue
  <2> QED BY <1>2, <2>1 DEF ProbedIsNotDue
<1>3. ASSUME NEW s \in Source, Drop(s) PROVE ProbedIsNotDue'
  <2>1. PICK job \in JobType :
          /\ task' = Continue("take", Replaced(s, job), task.todo \ {s}, None,
                              "none")
          /\ job.probe = task.jobs[s].probe
          /\ UNCHANGED <<settings, stored, probes>>
    BY <1>3, Dropped
  <2>2. /\ task'.then = "none" /\ task'.jobs[s] = job
        /\ \A r \in Source \ {s} : task'.jobs[r] = task.jobs[r]
    BY <2>1, Processed
  <2> QED BY <1>2, <2>1, <2>2
<1>4. ASSUME NEW s \in Source, TakeUp(s) PROVE ProbedIsNotDue'
  <2>1. PICK job \in JobType :
          /\ task' = Continue("save", Replaced(s, job), task.todo \ {s}, s,
                              "preflight")
          /\ \/ /\ task.jobs[s].phase = "exhausted"
                /\ job.phase = "probing" /\ job.probe = "later"
             \/ job.phase = "syncing" /\ job.probe = task.jobs[s].probe
          /\ s \in task.todo
          /\ UNCHANGED <<settings, stored, probes>>
    BY <1>4, Taken
  <2>2. /\ task'.source = s /\ task'.jobs[s] = job
        /\ \A r \in Source \ {s} : task'.jobs[r] = task.jobs[r]
    BY SMTT(30), <2>1, Processed
  <2>3. job.phase = "probing" => probes[s] = 0
    BY <2>1 DEF RunInOrder, ProbedIsNotDue
  <2> QED BY <1>2, <2>1, <2>2, <2>3
<1>5. ASSUME NEW at, NEW then \in {"take", "none"}, NEW job \in JobType,
             task' = Continue(at, Replaced(task.source, job), task.todo, None,
                              then),
             job.probe # "now", task.then = "preflight",
             UNCHANGED <<settings, stored>>,
             \A r \in Source \ {task.source} : probes'[r] = probes[r],
             /\ stored.connection = settings.connection
             /\ stored.jobs[task.source].probe = "now"
             => probes'[task.source] = 0
      PROVE  ProbedIsNotDue'
  <2>1. /\ task'.then # "preflight" /\ task'.jobs[task.source] = job
        /\ \A r \in Source \ {task.source} : task'.jobs[r] = task.jobs[r]
    BY <1>0, <1>5, Processed
  <2> QED BY <1>0, <1>5, <2>1 DEF ProbedIsNotDue
<1>6. CASE Preflight
  <2>1. /\ task.then = "preflight" /\ task.at = "preflight"
        /\ task.source \in Source /\ task # Idle
        /\ UNCHANGED <<settings, stored>>
    BY <1>0, <1>6, Preflighted
  <2>2. /\ \A r \in Source \ {task.source} : probes'[r] = probes[r]
        /\ task.jobs[task.source].phase # "probing" =>
             probes'[task.source] = probes[task.source]
    BY <1>0, <1>6, <2>1 DEF Preflight
  <2>3. /\ stored.connection = settings.connection
        /\ stored.jobs[task.source].probe = "now"
        => probes'[task.source] = 0
    <3>1. CASE task.jobs[task.source].phase = "probing"
      <4>1. stored.connection = settings.connection =>
              stored.jobs[task.source].probe # "now"
        BY <1>0, <2>1, <3>1 DEF Generations, WrittenDown, ProbedIsNotDue
      <4> QED BY <4>1
    <3>2. CASE task.jobs[task.source].phase # "probing"
      BY <2>1, <2>2, <3>2 DEF ProbedIsNotDue
    <3> QED BY <3>1, <3>2
  <2>4. CASE task' = Continue("push", task.jobs, task.todo, task.source,
                              "preflight")
    <3>1. /\ task'.at = "push" /\ task'.jobs = task.jobs
          /\ task'.source = task.source
      BY <2>4, Continued
    <3>2. \A s \in Source : task.jobs[s].probe = "now" => probes'[s] = 0
      BY <2>1, <2>2 DEF ProbedIsNotDue
    <3> QED BY <2>1, <2>2, <2>3, <3>1, <3>2 DEF ProbedIsNotDue
  <2>5. ASSUME NEW at \in {"save", "take"}, NEW then \in {"take", "none"},
               NEW job \in JobType,
               task' = Continue(at, Replaced(task.source, job), task.todo, None,
                                then),
               AnsweredWith(job, task.jobs[task.source])
        PROVE  ProbedIsNotDue'
    BY <1>5, <2>1, <2>2, <2>3, <2>5 DEF AnsweredWith
  <2> QED BY <1>6, <2>4, <2>5, Preflighted
<1>7. CASE Push
  <2>1. /\ task.then = "preflight" /\ task.source \in Source
        /\ UNCHANGED <<settings, stored, probes>>
    BY <1>7, Pushed DEF Push, TypeOK
  <2>2. PICK job \in JobType :
          /\ task' = Continue("save", Replaced(task.source, job), task.todo,
                              None, "take")
          /\ AnsweredWith(job, task.jobs[task.source])
    BY <1>7, Pushed
  <2>3. /\ stored.connection = settings.connection
        /\ stored.jobs[task.source].probe = "now"
        => probes[task.source] = 0
    BY <2>1 DEF ProbedIsNotDue
  <2> QED BY <1>5, <2>1, <2>2, <2>3 DEF AnsweredWith
<1>8. CASE WriteQueue
  <2>1. /\ task # Idle /\ task'.jobs = task.jobs /\ task'.source = task.source
        /\ stored' = [connection |-> task.connection, jobs |-> task.jobs]
        /\ UNCHANGED <<settings, probes>> /\ task.at = "write"
        /\ task'.then = task.then
    BY <1>8, Written
  <2> QED BY <2>1 DEF ProbedIsNotDue
<1>9. CASE GoesOn
  <2>1. /\ task'.jobs = task.jobs /\ UNCHANGED <<settings, stored, probes>>
        /\ task'.then = "preflight" =>
             task.then = "preflight" /\ task'.source = task.source
        /\ task'.at \in {"save", "write", "preflight"}
             /\ task'.then = "preflight" => task.at = "save"
    BY <1>9, WentOn
  <2> QED BY <2>1 DEF ProbedIsNotDue
<1>10. CASE Stops
  <2>1. \A s \in Source : Idle.jobs[s].probe = "never"
    BY IdleStep, NoJobTyped DEF Empty
  <2> QED BY <1>10, <2>1, IdleStep DEF Stops, ProbedIsNotDue
<1>11. CASE Apart
  BY <1>11 DEF Apart, ProbedIsNotDue
<1>12. CASE ChangeConnection
  BY <1>12 DEF ChangeConnection, ProbedIsNotDue
<1>13. CASE WindowPasses
  <2>1. /\ UNCHANGED <<settings, probes>>
        /\ stored'.connection = stored.connection
        /\ task'.at = task.at /\ task'.source = task.source
        /\ task'.then = task.then
        /\ \A s \in Source : /\ stored'.jobs[s].probe = stored.jobs[s].probe
                             /\ task'.jobs[s].probe = task.jobs[s].probe
                             /\ task'.jobs[s].phase = task.jobs[s].phase
    BY <1>13, TimePassed DEF WindowPasses
  <2> QED BY <2>1 DEF ProbedIsNotDue
<1>14. CASE PeriodPasses
  <2>1. task'.then # "preflight" /\ \A s \in Source : probes'[s] = 0
    BY <1>14, TimePassed DEF PeriodPasses
  <2> QED BY <2>1 DEF ProbedIsNotDue
<1> QED BY <1>1, <1>3, <1>4, <1>6, <1>7, <1>8, <1>9, <1>10, <1>11, <1>12, <1>13,
           <1>14, StepForms

\* At first nothing was probed and no probe is due.
LEMMA ProbedInit == Init => ProbedIsNotDue
<1> SUFFICES ASSUME Init PROVE ProbedIsNotDue
  OBVIOUS
<1>1. \A s \in Source : Empty[s].probe = "never" /\ Idle.jobs[s].probe = "never"
  BY IdleStep, NoJobTyped DEF Empty
<1> QED BY <1>1, IdleStep DEF Init, ProbedIsNotDue

\* Every step leaves at most one probe to the period: only preflight makes one,
\* of a job that was not probed yet.
LEMMA OneProbeStep ==
  /\ TypeOK /\ ProbedIsNotDue /\ OneProbePerPeriod /\ [Next]_vars
  => OneProbePerPeriod'
<1> SUFFICES ASSUME TypeOK, ProbedIsNotDue, OneProbePerPeriod, [Next]_vars
             PROVE  OneProbePerPeriod'
  OBVIOUS
<1> USE DEF history
<1>0. probes \in [Source -> Nat]
  BY DEF TypeOK
<1>1. ASSUME probes' = probes PROVE OneProbePerPeriod'
  BY <1>1 DEF OneProbePerPeriod
<1>2. CASE Preflight
  <2>1. /\ task.then = "preflight" /\ task.at = "preflight"
        /\ task.source \in Source
    BY <1>2, Preflighted
  <2>2. PICK n : /\ n = IF task.jobs[task.source].phase = "probing"
                        THEN probes[task.source] + 1 ELSE probes[task.source]
                 /\ probes' = [probes EXCEPT ![task.source] = n]
    BY <1>2 DEF Preflight
  <2>3. n <= 1
    BY <1>0, <2>1, <2>2 DEF ProbedIsNotDue, OneProbePerPeriod
  <2> QED BY <1>0, <2>1, <2>2, <2>3 DEF OneProbePerPeriod
<1>3. CASE ChangeConnection \/ PeriodPasses
  BY <1>3 DEF ChangeConnection, PeriodPasses, OneProbePerPeriod
<1>4. CASE WindowPasses
  BY <1>1, <1>4 DEF WindowPasses
<1>5. CASE \/ BeginRecover \/ BeginRunDue
           \/ \E reason \in Triggers : BeginEnqueue(reason)
  BY <1>1, <1>5, Began
<1>6. CASE Stops \/ Apart \/ GoesOn \/ WriteQueue \/ Push
  BY <1>1, <1>6, Written, Pushed DEF Stops, Apart, GoesOn
<1>7. CASE \E s \in Source : Drop(s) \/ TakeUp(s)
  BY <1>1, <1>7 DEF Drop, TakeUp, Take
<1> QED BY <1>2, <1>3, <1>4, <1>5, <1>6, <1>7, StepForms

\* A job is probed at most once per period, however often the worker is killed in
\* the middle of one: the next period is on record before the probe is made
\* (attempt in runDue), and recover does not shorten it.
THEOREM ProbesAreSparse == Spec => []OneProbePerPeriod
<1> DEFINE Inv == /\ TypeOK /\ Generations /\ RunInOrder /\ WrittenDown
                  /\ ProbedIsNotDue /\ OneProbePerPeriod
<1>1. Init => Inv
  BY InitTyped, GenerationsInit, RunInOrderInit, WrittenDownInit, ProbedInit
     DEF Init, OneProbePerPeriod
<1>2. Inv /\ [Next]_vars => Inv'
  BY NextTyped, GenerationsStep, RunInOrderStep, WrittenDownStep, ProbedStep,
     OneProbeStep
<1>3. Inv => OneProbePerPeriod
  OBVIOUS
<1> HIDE DEF Inv
<1> QED BY <1>1, <1>2, <1>3, PTL DEF Spec

-----------------------------------------------------------------------------
(* The alarm *)

\* Every step keeps ArmedOrComing.
LEMMA ArmedStep ==
  /\ TypeOK /\ Generations /\ WrittenDown /\ ArmedOrComing /\ [Next]_vars
  => ArmedOrComing'
<1> SUFFICES ASSUME TypeOK, Generations, WrittenDown, ArmedOrComing, [Next]_vars
             PROVE  ArmedOrComing'
  OBVIOUS
<1> USE DEF worker, history
<1>0. /\ settings.connection \in Nat /\ stored.connection \in Nat
      /\ task.connection \in Nat /\ waiting \in Seq(Operations)
      /\ task.at # "idle" => task # Idle
  BY IdleStep DEF TypeOK, Tasks
<1>1. ASSUME task' # Idle \/ alarm' \/ ~up' \/ starting' PROVE ArmedOrComing'
  BY <1>1 DEF ArmedOrComing
<1>2. CASE \/ BeginRecover \/ BeginRunDue
           \/ \E reason \in Triggers : BeginEnqueue(reason)
  BY <1>1, <1>2, Began
<1>3. ASSUME task.at # "idle", NEW at \in Stages \ {"idle"}, task'.at = at
      PROVE  ArmedOrComing'
  BY <1>1, <1>3, IdleStep
<1>4. CASE \E s \in Source : Drop(s) \/ TakeUp(s)
  BY <1>1, <1>4, IdleStep DEF Drop, TakeUp, Take, Continue, Task
<1>5. CASE AllProcessed
  BY <1>1, <1>5, IdleStep DEF AllProcessed, Goto, Continue, Task
<1>6. CASE Preflight
  <2>1. task'.at \in {"save", "take", "push"}
    BY <1>6 DEF Preflight, Answered, Goto, Continue, Task
  <2> QED BY <1>1, <2>1, IdleStep
<1>7. CASE Push
  <2>1. task'.at = "save"
    BY <1>7 DEF Push, Answered, Continue, Task
  <2> QED BY <1>1, <2>1, IdleStep
<1>8. CASE Finish
  <2>1. CASE SameConnection
    BY <1>1, <1>8, <2>1, IdleStep DEF Finish, Continue, Task
  <2>2. CASE ~SameConnection
    <3>1. stored.connection < settings.connection
      BY <1>0, <1>8, <2>2 DEF Finish, Generations
    <3> QED BY <1>0, <1>8, <2>2, <3>1 DEF Finish, ArmedOrComing
  <2> QED BY <2>1, <2>2
<1>9. CASE CheckSave
  BY <1>1, <1>9, IdleStep DEF CheckSave, Goto, Continue, Task
<1>10. CASE WriteQueue
  <2>1. task.then # "idle"
    BY DEF TypeOK, Tasks
  <2> QED BY <1>1, <1>10, <2>1, IdleStep DEF WriteQueue, Goto, Continue, Task
<1>11. CASE Arm
  <2>1. task.at = "arm" /\ UNCHANGED <<settings, stored>>
    BY <1>11 DEF Arm, Armed
  <2>2. CASE SameConnection
    <3>1. stored.jobs = task.jobs
      BY <2>1, <2>2 DEF WrittenDown
    <3>2. alarm' = \E s \in Source : Expected(task.jobs[s])
      BY <1>11, <2>2 DEF Arm, Armed
    <3> QED BY <2>1, <3>1, <3>2 DEF ArmedOrComing
  <2>3. CASE ~SameConnection
    <3>1. stored.connection < settings.connection
      BY <1>0, <2>1, <2>3 DEF Generations
    <3> QED BY <1>0, <2>1, <3>1 DEF ArmedOrComing
  <2> QED BY <2>2, <2>3
<1>12. ASSUME UNCHANGED <<settings, stored, task>>, up' = TRUE,
              starting => starting', ~up => starting',
              alarm => alarm' \/
                \E i \in 1..Len(waiting') :
                  waiting'[i].kind \in {"recover", "runDue"},
              \A i \in 1..Len(waiting) :
                waiting[i].kind \in {"recover", "runDue"} =>
                  \E j \in 1..Len(waiting') : waiting'[j] = waiting[i]
       PROVE  ArmedOrComing'
  BY <1>12 DEF ArmedOrComing
<1>13. CASE IgnoreChange
  <2>1. /\ waiting # <<>> /\ waiting' = Tail(waiting)
        /\ Head(waiting).kind = "change"
    BY <1>13 DEF IgnoreChange, Turn
  <2>2. /\ Len(waiting) \in Nat /\ Len(waiting') = Len(waiting) - 1
        /\ \A i \in 1..Len(waiting') : waiting'[i] = waiting[i + 1]
        /\ waiting[1] = Head(waiting)
    BY <1>0, <2>1, HeadTailProperties
  <2>3. ASSUME NEW i \in 1..Len(waiting),
               waiting[i].kind \in {"recover", "runDue"}
        PROVE  \E j \in 1..Len(waiting') : waiting'[j] = waiting[i]
    <3>1. i # 1
      BY <2>1, <2>2, <2>3
    <3>2. i - 1 \in 1..Len(waiting')
      BY <2>2, <3>1
    <3>3. waiting'[i - 1] = waiting[i]
      BY <2>2, <3>2
    <3> QED BY <3>2, <3>3
  <2>4. up
    BY <2>1 DEF TypeOK
  <2> QED BY <1>12, <1>13, <2>3, <2>4 DEF IgnoreChange
<1>14. ASSUME NEW operation \in Operations, waiting' = Append(waiting, operation)
       PROVE  /\ \A i \in 1..Len(waiting) :
                   \E j \in 1..Len(waiting') : waiting'[j] = waiting[i]
              /\ \E j \in 1..Len(waiting') : waiting'[j] = operation
  <2>1. /\ Len(waiting) \in Nat /\ Len(waiting') = Len(waiting) + 1
        /\ \A i \in 1..Len(waiting) : waiting'[i] = waiting[i]
        /\ waiting'[Len(waiting) + 1] = operation
    BY <1>0, <1>14, AppendProperties
  <2>2. ASSUME NEW i \in 1..Len(waiting)
        PROVE  \E j \in 1..Len(waiting') : waiting'[j] = waiting[i]
    BY <2>1, <2>2
  <2>3. Len(waiting) + 1 \in 1..Len(waiting')
    BY <2>1
  <2> QED BY <2>1, <2>2, <2>3
<1>15. ASSUME NEW operation \in Operations, Arrives(operation),
              alarm' = alarm \/ operation.kind = "runDue"
       PROVE  ArmedOrComing'
  <2>1. /\ \A i \in 1..Len(waiting) :
             \E j \in 1..Len(waiting') : waiting'[j] = waiting[i]
        /\ \E j \in 1..Len(waiting') : waiting'[j] = operation
    BY <1>14, <1>15 DEF Arrives
  <2>2. alarm => alarm' \/ \E j \in 1..Len(waiting') :
                             waiting'[j].kind \in {"recover", "runDue"}
    BY <1>15, <2>1
  <2> QED BY <1>12, <1>15, <2>1, <2>2 DEF Arrives
<1>16. ASSUME NEW kind \in Triggers, NEW names \in SUBSET Source,
              Trigger(kind, names)
       PROVE  ArmedOrComing'
  <2>1. Operation(kind, names) \in Operations
    BY DEF Operation, Operations
  <2> QED BY <1>15, <1>16, <2>1 DEF Trigger
<1>17. CASE AlarmFires \/ SettingsSaved
  <2>1. /\ RunDue \in Operations /\ Recover \in Operations
        /\ RunDue.kind = "runDue"
    BY DEF RunDue, Recover, Operation, Operations
  <2> QED BY <1>15, <1>17, <2>1 DEF AlarmFires, SettingsSaved
<1>18. CASE Wake
  BY <1>1, <1>18 DEF Wake
<1>19. CASE StartupRecovers
  <2>1. Recover \in Operations /\ Recover.kind = "recover"
    BY DEF Recover, Operation, Operations
  <2>2. \E j \in 1..Len(waiting') : waiting'[j].kind = "recover"
    BY <1>14, <1>19, <2>1 DEF StartupRecovers
  <2> QED BY <2>2 DEF ArmedOrComing
<1>20. CASE WorkerDies
  BY <1>1, <1>20 DEF WorkerDies
<1>21. CASE ChangeConnection
  <2>1. settings'.connection = settings.connection + 1 /\ stored' = stored
    BY <1>21 DEF ChangeConnection, TypeOK
  <2> QED BY <1>0, <2>1 DEF Generations, ArmedOrComing
<1>22. ASSUME settings'.connection = settings.connection,
              UNCHANGED <<stored, alarm, worker, waiting, task>>
       PROVE  ArmedOrComing'
  BY <1>22 DEF ArmedOrComing
<1>23. ASSUME NEW s \in Source, NEW approval, ChangeApproval(s, approval)
       PROVE  ArmedOrComing'
  <2>1. PICK approved : settings' = [settings EXCEPT !.approved = approved]
    BY <1>23 DEF ChangeApproval, TypeOK
  <2>2. settings'.connection = settings.connection
    BY <2>1 DEF TypeOK
  <2> QED BY <1>22, <1>23, <2>2 DEF ChangeApproval
<1>24. CASE ChangeOption
  <2>1. settings'.connection = settings.connection
    BY <1>24 DEF ChangeOption, TypeOK
  <2> QED BY <1>22, <1>24, <2>1 DEF ChangeOption
<1>25. CASE WindowPasses \/ PeriodPasses
  <2>1. /\ stored'.connection = stored.connection
        /\ task' = Idle <=> task = Idle
        /\ UNCHANGED <<settings, alarm, worker, waiting>>
        /\ \A s \in Source :
             /\ stored'.jobs[s].phase = stored.jobs[s].phase
             /\ stored'.jobs[s].wait = "never" <=> stored.jobs[s].wait = "never"
             /\ stored'.jobs[s].probe = "never" <=> stored.jobs[s].probe = "never"
    BY <1>25, TimePassed
  <2> QED BY <2>1 DEF ArmedOrComing, Expected
<1>26. CASE UNCHANGED vars
  BY <1>26 DEF vars, ArmedOrComing
<1>27. \A names \in {Source} \cup {{s} : s \in Source} : names \in SUBSET Source
  OBVIOUS
<1> QED BY <1>2, <1>4, <1>5, <1>6, <1>7, <1>8, <1>9, <1>10, <1>11, <1>13, <1>16,
           <1>17, <1>18, <1>19, <1>20, <1>21, <1>23, <1>24, <1>25, <1>26, <1>27
        DEF Next, EngineStep

\* At first nothing is expected.
LEMMA ArmedInit == Init => ArmedOrComing
<1> SUFFICES ASSUME Init PROVE ArmedOrComing
  OBVIOUS
<1>1. \A s \in Source : ~Expected(stored.jobs[s])
  BY NoJobTyped DEF Init, Empty, Expected, Active
<1> QED BY <1>1 DEF ArmedOrComing

\* When the engine has come to rest every job with a deadline has an alarm:
\* whatever takes the alarm away (it fires, or a run finds another connection)
\* leaves an operation behind that sets it again, or no work of the present
\* connection (arm in sync.js, startup in background.js).
THEOREM RestIsArmed == Spec => []QuietIsArmed
<1> DEFINE Inv == /\ TypeOK /\ Generations /\ WrittenDown /\ ArmedOrComing
<1>1. Init => Inv
  BY InitTyped, GenerationsInit, WrittenDownInit, ArmedInit
<1>2. Inv /\ [Next]_vars => Inv'
  BY NextTyped, GenerationsStep, WrittenDownStep, ArmedStep
<1>3. Inv => QuietIsArmed
  <2> SUFFICES ASSUME Inv, up, ~starting, task = Idle, waiting = <<>>,
                      stored.connection = settings.connection,
                      \E s \in Source : Expected(stored.jobs[s])
               PROVE  alarm
    BY DEF QuietIsArmed, Expected
  <2> QED BY DEF ArmedOrComing
<1> HIDE DEF Inv
<1> QED BY <1>1, <1>2, <1>3, PTL DEF Spec

-----------------------------------------------------------------------------
(* The budget of attempts, without recovery probes *)

\* Every step keeps NoProbing, unless the user may switch the probes on.
LEMMA NoProbingStep ==
  ASSUME "probe" \notin Edits
  PROVE  TypeOK /\ RunInOrder /\ NoProbing /\ [Next]_vars => NoProbing'
<1> SUFFICES ASSUME TypeOK, RunInOrder, NoProbing, [Next]_vars
             PROVE  NoProbing'
  OBVIOUS
<1>0. /\ stored.jobs \in [Source -> JobType] /\ task.jobs \in [Source -> JobType]
      /\ task.todo \in SUBSET Source /\ settings.probe = FALSE
      /\ task.then = "preflight" => task.source \in Source
  BY DEF TypeOK, Tasks, NoProbing
<1>1. CASE \/ BeginRecover \/ BeginRunDue
           \/ \E reason \in Triggers : BeginEnqueue(reason)
  <2>1. ASSUME NEW s \in Source
        PROVE  /\ Context[s] \in JobType /\ Context[s].phase # "probing"
               /\ Context[s].probe = "never"
    <3>1. Context[s] \in JobType
      BY ContextTyped
    <3>2. CASE stored.connection = settings.connection
      <4>1. /\ stored.jobs[s] \in JobType /\ stored.jobs[s].phase # "probing"
            /\ Context[s] = InContext(stored.jobs[s], s)
        BY <1>0, <3>2, ContextTyped DEF NoProbing
      <4>2. /\ Context[s].phase \in {"none", "paused", stored.jobs[s].phase}
            /\ Context[s].probe = "never"
        BY <1>0, <4>1, InContextTyped
      <4> QED BY <3>1, <4>1, <4>2
    <3>3. CASE stored.connection # settings.connection
      BY <3>1, <3>3, ContextTyped, NoJobTyped
    <3> QED BY <3>1, <3>2, <3>3
  <2>2. ASSUME NEW s \in Source PROVE task'.jobs[s].phase # "probing"
    <3>1. CASE task'.jobs[s] = Context[s]
      BY <2>1, <3>1
    <3>2. CASE task'.jobs[s] = Recovered(Context[s])
      <4>1. Context[s] \in JobType /\ Context[s].phase # "probing"
        BY <2>1
      <4> QED BY <1>0, <3>2, <4>1, RecoveredTyped
    <3>3. ASSUME NEW reason \in Triggers,
                 task'.jobs[s] = Queued(reason, Context[s])
          PROVE  task'.jobs[s].phase # "probing"
      BY <2>1, <3>3, QueuedTyped, SyncQueueAssumption
    <3> QED BY <1>1, <3>1, <3>2, <3>3, Began
  <2>3. task'.todo \in SUBSET Source
    BY <1>1, Began DEF Tasks
  <2>4. \A s \in task'.todo : task'.jobs[s].phase # "exhausted"
    BY <1>1, <2>1, <2>3, Began DEF Due, Active
  <2> QED BY <1>1, <2>2, <2>4, Began DEF NoProbing
<1>2. ASSUME NEW s \in Source, UNCHANGED <<settings, stored>>,
             \A r \in Source \ {s} : task'.jobs[r] = task.jobs[r],
             task'.jobs[s].phase # "probing",
             task'.todo \subseteq task.todo \ {s}
      PROVE  NoProbing'
  BY <1>0, <1>2 DEF NoProbing
<1>3. ASSUME NEW s \in Source, Drop(s) PROVE NoProbing'
  <2>1. PICK job \in JobType :
          /\ task' = Continue("take", Replaced(s, job), task.todo \ {s}, None,
                              "none")
          /\ job.phase \in {"paused", "exhausted"}
          /\ UNCHANGED <<settings, stored>>
    BY <1>3, Dropped
  <2>2. /\ task'.todo = task.todo \ {s} /\ task'.jobs[s] = job
        /\ \A r \in Source \ {s} : task'.jobs[r] = task.jobs[r]
    BY <2>1, ReplacedTyped DEF Continue, Task
  <2>3. task'.jobs[s].phase # "probing"
    BY <2>1, <2>2
  <2> QED BY <1>2, <2>1, <2>2, <2>3
<1>4. ASSUME NEW s \in Source, TakeUp(s) PROVE NoProbing'
  <2>1. PICK job \in JobType :
          /\ task' = Continue("save", Replaced(s, job), task.todo \ {s}, s,
                              "preflight")
          /\ \/ task.jobs[s].phase = "exhausted" /\ job.phase = "probing"
             \/ job.phase = "syncing"
          /\ s \in task.todo
          /\ UNCHANGED <<settings, stored>>
    BY <1>4, Taken
  <2>2. /\ task'.todo = task.todo \ {s} /\ task'.jobs[s] = job
        /\ \A r \in Source \ {s} : task'.jobs[r] = task.jobs[r]
    BY <2>1, ReplacedTyped DEF Continue, Task
  <2>3. job.phase = "syncing"
    BY <2>1 DEF NoProbing
  <2> QED BY <1>2, <2>1, <2>2, <2>3
<1>5. ASSUME NEW at, NEW then, NEW job \in JobType,
             task' = Continue(at, Replaced(task.source, job), task.todo, None,
                              then),
             AnsweredWith(job, task.jobs[task.source]),
             task.then = "preflight", UNCHANGED <<settings, stored>>
      PROVE  NoProbing'
  <2>1. /\ task'.todo = task.todo /\ task'.jobs[task.source] = job
        /\ \A r \in Source \ {task.source} : task'.jobs[r] = task.jobs[r]
    BY <1>0, <1>5, Processed
  <2>2. task.source \notin task.todo
    BY <1>5 DEF RunInOrder
  <2> QED BY <1>0, <1>2, <1>5, <2>1, <2>2 DEF AnsweredWith
<1>6. CASE Preflight
  <2>1. CASE task' = Continue("push", task.jobs, task.todo, task.source,
                              "preflight")
    <3>1. task'.jobs = task.jobs /\ task'.todo = task.todo
      BY <2>1, Continued
    <3> QED BY <1>6, <3>1, Preflighted DEF NoProbing
  <2> QED BY <1>5, <1>6, <2>1, Preflighted
<1>7. CASE Push
  <2>1. task.then = "preflight"
    BY <1>7 DEF Push, TypeOK
  <2> QED BY <1>5, <1>7, <2>1, Pushed
<1>8. CASE WriteQueue
  <2>1. /\ task'.jobs = task.jobs /\ task'.todo = task.todo
        /\ stored'.jobs = task.jobs /\ settings' = settings
    BY <1>8, Written
  <2> QED BY <2>1 DEF NoProbing
<1>9. CASE GoesOn
  <2>1. /\ task'.jobs = task.jobs /\ task'.todo \subseteq task.todo
        /\ UNCHANGED <<settings, stored>>
    BY <1>9, WentOn
  <2> QED BY <2>1 DEF NoProbing
<1>10. CASE Stops
  <2>1. \A s \in Source : Idle.jobs[s].phase = "none"
    BY IdleStep, NoJobTyped DEF Empty
  <2> QED BY <1>10, <2>1, IdleStep DEF Stops, NoProbing
<1>11. CASE Apart
  BY <1>11 DEF Apart, NoProbing
<1>12. CASE ChangeConnection
  <2>1. settings'.probe = settings.probe
    BY <1>12 DEF ChangeConnection, TypeOK
  <2> QED BY <1>12, <2>1 DEF ChangeConnection, NoProbing
<1>13. CASE WindowPasses \/ PeriodPasses
  <2>1. /\ settings' = settings /\ task'.todo = task.todo
        /\ \A s \in Source : /\ stored'.jobs[s].phase = stored.jobs[s].phase
                             /\ task'.jobs[s].phase = task.jobs[s].phase
    BY <1>13, TimePassed
  <2> QED BY <1>0, <2>1 DEF NoProbing
<1> QED BY <1>1, <1>3, <1>4, <1>6, <1>7, <1>8, <1>9, <1>10, <1>11, <1>12, <1>13,
           StepForms

\* At first there is no job.
LEMMA NoProbingInit == ASSUME ~ProbesOn PROVE Init => NoProbing
<1> SUFFICES ASSUME Init PROVE NoProbing
  OBVIOUS
<1>1. \A s \in Source : Empty[s].phase = "none"
  BY NoJobTyped DEF Empty
<1> QED BY <1>1, IdleStep DEF Init, NoProbing

\* What was sent for a source, against the copy of a fresh operation.
LEMMA CountBegun ==
  ASSUME TypeOK, Generations, CountedBefore, NEW s \in Source,
         NoProbing \/ Triggers \subseteq {"manual"},
         \/ BeginRecover \/ BeginRunDue
         \/ \E reason \in Triggers : BeginEnqueue(reason)
  PROVE  \/ requests[s] <= task'.jobs[s].attempts
         \/ Renewed(task'.jobs[s]) /\ s \notin task'.todo
<1>0. /\ stored.jobs[s] \in JobType /\ Context[s] \in JobType
      /\ settings.probe \in BOOLEAN /\ requests[s] \in Nat
      /\ settings.connection \in Nat /\ stored.connection \in Nat
      /\ Context[s].attempts \in Nat /\ stored.jobs[s].attempts \in Nat
  BY ContextTyped, SyncQueueAssumption DEF TypeOK, JobType
<1>1. /\ \/ requests[s] <= Context[s].attempts
         \/ Context[s].phase = "none"
      /\ NoProbing => Context[s].phase # "probing"
      /\ /\ settings.approved[s] = "yes"
         /\ Context[s].phase \in {"none", "succeeded", "paused"}
         => requests[s] = 0
  <2>1. CASE stored.connection = settings.connection
    <3>1. /\ Context[s] = InContext(stored.jobs[s], s)
          /\ requests[s] <= stored.jobs[s].attempts
          /\ stored.jobs[s].phase \in {"none", "succeeded", "paused"} =>
               requests[s] = 0
          /\ NoProbing => stored.jobs[s].phase # "probing"
      BY <2>1, ContextTyped DEF CountedBefore, NoProbing
    <3>2. settings.approved[s] = "yes" =>
            Context[s].phase = stored.jobs[s].phase
      BY <1>0, <3>1, ApprovedInContext
    <3> QED BY <1>0, <3>1, <3>2, InContextTyped
  <2>2. CASE stored.connection # settings.connection
    <3>1. requests[s] = 0 /\ Context[s] = NoJob
      BY <1>0, <2>2, ContextTyped DEF Generations, CountedBefore
    <3> QED BY <1>0, <3>1, NoJobTyped
  <2> QED BY <2>1, <2>2
<1>2. CASE task'.jobs[s] = Context[s]
  <2>1. s \in task'.todo => Due(Context[s])
    BY <1>2, Began
  <2>2. Context[s].phase = "none" => s \notin task'.todo
    BY <2>1 DEF Due, Active
  <2> QED BY <1>1, <1>2, <2>2 DEF Renewed
<1>3. CASE task'.jobs[s] = Recovered(Context[s]) /\ s \notin task'.todo
  BY <1>0, <1>1, <1>3, RecoveredTyped DEF Renewed
<1>4. ASSUME NEW reason \in Triggers, settings.approved[s] = "yes",
             ~Skipped(reason, Context[s]), s \notin task'.todo,
             task'.jobs[s] = Queued(reason, Context[s])
      PROVE  requests[s] <= task'.jobs[s].attempts \/ Renewed(task'.jobs[s])
  <2>1. /\ task'.jobs[s].phase = "pending" /\ task'.jobs[s].reason = reason
        /\ task'.jobs[s].attempts =
             IF reason # "manual" /\ Context[s].phase = "pending"
             THEN Context[s].attempts ELSE 0
    BY <1>0, <1>4, QueuedTyped, SyncQueueAssumption
  <2>2. CASE reason = "manual"
    BY <2>1, <2>2 DEF Renewed
  <2>3. CASE reason # "manual"
    <3>1. Context[s].phase \in {"none", "pending", "succeeded", "paused"}
      BY <1>0, <1>1, <1>4, <2>3 DEF Skipped, JobType, Phases
    <3> QED BY <1>0, <1>1, <1>4, <2>1, <2>3, <3>1
  <2> QED BY <2>2, <2>3
<1> QED BY <1>2, <1>3, <1>4, Began

\* Every step keeps CountedBefore.
LEMMA CountedStep ==
  /\ TypeOK /\ Generations /\ RunInOrder /\ WrittenDown
  /\ NoProbing \/ Triggers \subseteq {"manual"}
  /\ CountedBefore /\ [Next]_vars
  => CountedBefore'
<1> SUFFICES ASSUME TypeOK, Generations, RunInOrder, WrittenDown,
                    NoProbing \/ Triggers \subseteq {"manual"},
                    CountedBefore, [Next]_vars
             PROVE  CountedBefore'
  OBVIOUS
<1> USE DEF history
<1>0. /\ task.jobs \in [Source -> JobType] /\ task.todo \in SUBSET Source
      /\ task.then = "preflight" => task.source \in Source
      /\ task.at # "idle" => task # Idle
      /\ settings.connection \in Nat /\ stored.connection \in Nat
      /\ task.connection \in Nat
      /\ requests \in [Source -> Nat]
      /\ \A s \in Source : task.jobs[s].attempts \in Nat
  BY IdleStep, SyncQueueAssumption DEF TypeOK, Tasks, JobType
<1>1. CASE \/ BeginRecover \/ BeginRunDue
           \/ \E reason \in Triggers : BeginEnqueue(reason)
  <2>1. /\ task'.then # "preflight"
        /\ UNCHANGED <<settings, stored, requests>>
    BY <1>1, Began
  <2>2. \A s \in Source :
          \/ requests[s] <= task'.jobs[s].attempts
          \/ Renewed(task'.jobs[s]) /\ s \notin task'.todo
    BY <1>1, CountBegun
  <2> QED BY <2>1, <2>2 DEF CountedBefore
<1>2. ASSUME task # Idle, task'.connection = task.connection, NEW s \in Source,
             UNCHANGED <<settings, stored, requests>>,
             task'.todo = task.todo \ {s},
             \A r \in Source \ {s} : task'.jobs[r] = task.jobs[r],
             SameConnection =>
               /\ requests[s] <= task'.jobs[s].attempts
               /\ task'.then = "preflight" =>
                    /\ task'.source = s
                    /\ task'.jobs[s].phase = "syncing" =>
                         requests[s] < task'.jobs[s].attempts
      PROVE  CountedBefore'
  BY <1>2 DEF CountedBefore, SameConnection
<1>3. ASSUME NEW s \in Source, Drop(s) PROVE CountedBefore'
  <2>1. PICK job \in JobType :
          /\ task' = Continue("take", Replaced(s, job), task.todo \ {s}, None,
                              "none")
          /\ job.attempts = task.jobs[s].attempts
          /\ task.at = "take" /\ s \in task.todo
          /\ UNCHANGED <<settings, stored, requests>>
    BY <1>3, Dropped
  <2>2. /\ task'.todo = task.todo \ {s} /\ task'.jobs[s] = job
        /\ task'.then = "none" /\ task'.connection = task.connection
        /\ \A r \in Source \ {s} : task'.jobs[r] = task.jobs[r]
    BY <2>1, ReplacedTyped DEF Continue, Task
  <2>3. SameConnection => requests[s] <= job.attempts
    BY <1>0, <2>1 DEF CountedBefore
  <2> QED BY <1>0, <1>2, <2>1, <2>2, <2>3
<1>4. ASSUME NEW s \in Source, TakeUp(s) PROVE CountedBefore'
  <2>1. PICK job \in JobType :
          /\ task' = Continue("save", Replaced(s, job), task.todo \ {s}, s,
                              "preflight")
          /\ \/ /\ job.phase = "probing"
                /\ job.attempts = task.jobs[s].attempts
             \/ job.attempts = task.jobs[s].attempts + 1
          /\ task.at = "take" /\ s \in task.todo
          /\ UNCHANGED <<settings, stored, requests>>
    BY <1>4, Taken
  <2>2. /\ task'.todo = task.todo \ {s} /\ task'.jobs[s] = job
        /\ task'.source = s /\ task'.connection = task.connection
        /\ \A r \in Source \ {s} : task'.jobs[r] = task.jobs[r]
    BY <2>1, ReplacedTyped DEF Continue, Task
  <2>4. SameConnection => requests[s] <= task.jobs[s].attempts
    BY <1>0, <2>1 DEF CountedBefore
  <2>5. SameConnection =>
          /\ requests[s] <= job.attempts
          /\ job.phase = "syncing" => requests[s] < job.attempts
    BY <1>0, <2>1, <2>4
  <2> QED BY <1>0, <1>2, <2>1, <2>2, <2>5
<1>5. /\ task.then = "preflight" =>
           /\ task.source \notin task.todo /\ task # Idle
           /\ task.jobs[task.source].phase \in {"syncing", "probing"}
      /\ task.then = "preflight" /\ SameConnection =>
           requests[task.source] <= task.jobs[task.source].attempts
  <2>1. task.then = "preflight" =>
          /\ task.source \notin task.todo /\ task # Idle
          /\ task.jobs[task.source].phase \in {"syncing", "probing"}
    BY <1>0, IdleStep DEF RunInOrder
  <2> QED BY <1>0, <2>1 DEF CountedBefore, Renewed
<1>6. CASE Preflight
  <2>1. /\ task.then = "preflight" /\ task.at = "preflight"
        /\ task.source \in Source /\ task # Idle
        /\ UNCHANGED <<settings, stored>>
    BY <1>0, <1>6, Preflighted
  <2>2. requests' = [requests EXCEPT ![task.source] =
                       IF /\ task.jobs[task.source].phase = "syncing"
                          /\ SameConnection THEN @ + 1 ELSE @]
    BY <1>6 DEF Preflight
  <2>3. /\ \A r \in Source \ {task.source} : requests'[r] = requests[r]
        /\ ~SameConnection => requests' = requests
        /\ SameConnection =>
             requests'[task.source] <= task.jobs[task.source].attempts
    BY <1>0, <1>5, <2>1, <2>2 DEF CountedBefore
  <2>4. SameConnection => /\ stored.connection = settings.connection
                          /\ stored.jobs = task.jobs
    BY <2>1 DEF WrittenDown, SameConnection
  <2>5. /\ task'.connection = task.connection /\ task'.todo = task.todo
        /\ task'.then = "preflight" => task'.at = "push"
        /\ task'.then = "preflight" => task'.source = task.source
        /\ \A r \in Source \ {task.source} : task'.jobs[r] = task.jobs[r]
        /\ task'.jobs[task.source].attempts = task.jobs[task.source].attempts
    <3>1. CASE task' = Continue("push", task.jobs, task.todo, task.source,
                                "preflight")
      BY <3>1, Continued
    <3>2. ASSUME NEW at \in {"save", "take"}, NEW then \in {"take", "none"},
                 NEW job \in JobType,
                 task' = Continue(at, Replaced(task.source, job), task.todo,
                                  None, then),
                 AnsweredWith(job, task.jobs[task.source])
          PROVE  /\ task'.connection = task.connection
                 /\ task'.todo = task.todo /\ task'.then # "preflight"
                 /\ \A r \in Source \ {task.source} :
                      task'.jobs[r] = task.jobs[r]
                 /\ task'.jobs[task.source].attempts =
                      task.jobs[task.source].attempts
      <4>1. /\ task'.connection = task.connection /\ task'.todo = task.todo
            /\ task'.then = then /\ task'.jobs[task.source] = job
            /\ \A r \in Source \ {task.source} : task'.jobs[r] = task.jobs[r]
        BY <2>1, <3>2, ReplacedTyped DEF Continue, Task
      <4> QED BY <3>2, <4>1 DEF AnsweredWith
    <3> QED BY <1>6, <3>1, <3>2, Preflighted
  <2> SUFFICES ASSUME NEW s \in Source
               PROVE  /\ stored.connection < settings.connection =>
                           requests'[s] = 0
                      /\ stored.connection = settings.connection =>
                           /\ requests'[s] <= stored.jobs[s].attempts
                           /\ stored.jobs[s].phase \in
                                {"none", "succeeded", "paused"}
                                => requests'[s] = 0
                      /\ SameConnection =>
                           /\ \/ requests'[s] <= task'.jobs[s].attempts
                              \/ Renewed(task'.jobs[s]) /\ s \notin task'.todo
                           /\ /\ task'.then = "preflight" /\ task'.source = s
                              /\ task'.at \in {"save", "write", "preflight"}
                              /\ task'.jobs[s].phase = "syncing"
                              => requests'[s] < task'.jobs[s].attempts
    BY <2>1, <2>5 DEF CountedBefore, SameConnection
  <2>6. CASE s = task.source
    BY <1>0, <1>5, <2>1, <2>3, <2>4, <2>5, <2>6 DEF CountedBefore
  <2>7. CASE s # task.source
    BY <2>1, <2>3, <2>5, <2>7 DEF CountedBefore
  <2> QED BY <2>6, <2>7
<1>7. CASE Push
  <2>1. /\ task.then = "preflight" /\ task.source \in Source
        /\ UNCHANGED <<settings, stored, requests>>
    BY <1>7, Pushed DEF Push, TypeOK
  <2>2. PICK job \in JobType :
          /\ task' = Continue("save", Replaced(task.source, job), task.todo,
                              None, "take")
          /\ AnsweredWith(job, task.jobs[task.source])
    BY <1>7, Pushed
  <2>3. /\ task'.todo = task.todo /\ task'.jobs[task.source] = job
        /\ task'.then = "take" /\ task'.connection = task.connection
        /\ \A r \in Source \ {task.source} : task'.jobs[r] = task.jobs[r]
    BY <2>1, <2>2, ReplacedTyped DEF Continue, Task
  <2>4. task'.todo = task.todo \ {task.source}
    BY <1>0, <1>5, <2>1, <2>3
  <2> QED BY <1>2, <1>5, <2>1, <2>2, <2>3, <2>4 DEF AnsweredWith
<1>8. CASE WriteQueue
  <2>1. /\ task # Idle /\ task.at = "write"
        /\ stored' = [connection |-> task.connection, jobs |-> task.jobs]
        /\ task'.jobs = task.jobs /\ task'.todo = task.todo
        /\ task'.source = task.source /\ task'.then = task.then
        /\ task'.connection = task.connection /\ settings' = settings
    BY <1>8, Written
  <2>2. CASE SameConnection
    <3>1. \A s \in Source :
            requests'[s] = IF Renewed(task.jobs[s]) THEN 0 ELSE requests[s]
      BY <1>8, <2>2 DEF WriteQueue
    <3>2. ASSUME NEW s \in Source
          PROVE  /\ requests'[s] <= task.jobs[s].attempts
                 /\ task.jobs[s].phase \in {"none", "succeeded", "paused"}
                      => requests'[s] = 0
                 /\ /\ task.then = "preflight" /\ task.source = s
                    /\ task.jobs[s].phase = "syncing"
                    => requests'[s] < task.jobs[s].attempts
      <4>1. CASE Renewed(task.jobs[s])
        <5>1. requests'[s] = 0
          BY <3>1, <4>1
        <5>2. task.then = "preflight" => task.source # s
          BY <1>5, <4>1 DEF Renewed
        <5> QED BY <1>0, <5>1, <5>2
      <4>2. CASE ~Renewed(task.jobs[s])
        BY <2>1, <2>2, <3>1, <4>2 DEF CountedBefore, Renewed
      <4> QED BY <4>1, <4>2
    <3>3. stored'.connection = settings'.connection
      BY <2>1, <2>2 DEF SameConnection
    <3> QED BY <1>0, <2>1, <3>2, <3>3 DEF CountedBefore
  <2>3. CASE ~SameConnection
    <3>1. stored.connection < settings.connection
          /\ task.connection < settings.connection
      BY <1>0, <2>1, <2>3 DEF Generations, SameConnection
    <3>2. \A s \in Source : requests[s] = 0
      BY <3>1 DEF CountedBefore
    <3>3. requests' = requests
      BY <1>8, <2>3 DEF WriteQueue
    <3> QED BY <1>0, <2>1, <2>3, <3>1, <3>2, <3>3
            DEF CountedBefore, SameConnection
  <2> QED BY <2>2, <2>3
<1>9. CASE GoesOn
  <2>1. /\ task # Idle /\ task'.jobs = task.jobs
        /\ task'.todo \subseteq task.todo
        /\ task'.connection = task.connection
        /\ UNCHANGED <<settings, stored, requests>>
        /\ task'.then = "preflight" =>
             task.then = "preflight" /\ task'.source = task.source
        /\ task'.at \in {"save", "write", "preflight"}
             /\ task'.then = "preflight" => task.at = "save"
    BY <1>9, WentOn DEF GoesOn
  <2> QED BY <2>1 DEF CountedBefore, SameConnection
<1>10. CASE Stops
  BY <1>10 DEF Stops, CountedBefore
<1>11. CASE Apart
  BY <1>11 DEF Apart, CountedBefore, SameConnection
<1>12. CASE ChangeConnection
  <2>1. /\ settings'.connection = settings.connection + 1
        /\ task' = task /\ stored' = stored
        /\ \A s \in Source : requests'[s] = 0
    BY <1>12 DEF ChangeConnection, TypeOK
  <2>2. /\ stored.connection < settings'.connection
        /\ task.connection < settings'.connection
    BY <1>0, <2>1 DEF Generations
  <2> QED BY <1>0, <2>1, <2>2 DEF CountedBefore, SameConnection
<1>13. CASE WindowPasses \/ PeriodPasses
  <2>1. /\ UNCHANGED <<settings, requests>>
        /\ stored'.connection = stored.connection
        /\ task' = Idle <=> task = Idle
        /\ task'.at = task.at /\ task'.todo = task.todo
        /\ task'.source = task.source /\ task'.then = task.then
        /\ task'.connection = task.connection
        /\ \A s \in Source :
             /\ stored'.jobs[s].phase = stored.jobs[s].phase
             /\ stored'.jobs[s].attempts = stored.jobs[s].attempts
             /\ task'.jobs[s].phase = task.jobs[s].phase
             /\ task'.jobs[s].attempts = task.jobs[s].attempts
             /\ task'.jobs[s].reason = task.jobs[s].reason
    BY <1>13, TimePassed
  <2> QED BY <2>1 DEF CountedBefore, SameConnection, Renewed
<1> QED BY <1>1, <1>3, <1>4, <1>6, <1>7, <1>8, <1>9, <1>10, <1>11, <1>12, <1>13,
           StepForms

\* At first nothing was sent.
LEMMA CountedInit == Init => CountedBefore
<1> SUFFICES ASSUME Init PROVE CountedBefore
  OBVIOUS
<1>1. \A s \in Source : stored.jobs[s].attempts = 0
  BY NoJobTyped DEF Init, Empty
<1> QED BY <1>1 DEF Init, CountedBefore

\* At most MaxAttempts attempts are made for a source between two manual requests,
\* successes or pauses, wherever workers are killed: each is on record before its
\* request (attempt in runDue), and no operation starts to count again but for
\* those reasons.  This is so without recovery probes, the default, and without
\* automatic events; with both, the run sync_reset shows how a budget is reset.
THEOREM BudgetHolds ==
  ASSUME \/ ~ProbesOn /\ "probe" \notin Edits
         \/ Triggers \subseteq {"manual"}
  PROVE  Spec => []AttemptsWithinBudget
<1> DEFINE Excluded == NoProbing \/ Triggers \subseteq {"manual"}
<1> DEFINE Inv == /\ TypeOK /\ Generations /\ RunInOrder /\ WrittenDown
                  /\ Excluded /\ CountedBefore
<1>1. Init => Inv
  BY InitTyped, GenerationsInit, RunInOrderInit, WrittenDownInit, NoProbingInit,
     CountedInit
<1>2. Inv /\ [Next]_vars => Inv'
  <2> SUFFICES ASSUME Inv, [Next]_vars PROVE Inv'
    OBVIOUS
  <2>1. Excluded'
    <3>1. CASE Triggers \subseteq {"manual"}
      BY <3>1
    <3>2. CASE ~(Triggers \subseteq {"manual"})
      BY <3>2, NoProbingStep
    <3> QED BY <3>1, <3>2
  <2> QED BY <2>1, NextTyped, GenerationsStep, RunInOrderStep, WrittenDownStep,
             CountedStep
<1>3. Inv => AttemptsWithinBudget
  <2> SUFFICES ASSUME Inv, NEW s \in Source PROVE requests[s] <= MaxAttempts
    BY DEF AttemptsWithinBudget
  <2>1. /\ settings.connection \in Nat /\ stored.connection \in Nat
        /\ requests[s] \in Nat /\ MaxAttempts \in Nat
        /\ stored.jobs[s].attempts \in 0..MaxAttempts
    BY SyncQueueAssumption DEF TypeOK, JobType
  <2> QED BY <2>1 DEF Generations, CountedBefore
<1> HIDE DEF Inv
<1> QED BY <1>1, <1>2, <1>3, PTL DEF Spec

\* What is stored for a source, against the copy of a fresh operation.
LEMMA KeptBegun ==
  ASSUME TypeOK, NoProbing, stored.connection = settings.connection,
         NEW s \in Source,
         \/ BeginRecover \/ BeginRunDue
         \/ \E reason \in Triggers : BeginEnqueue(reason)
  PROVE  \/ stored.jobs[s].attempts <= task'.jobs[s].attempts
         \/ Renewed(stored.jobs[s])
         \/ Renewed(task'.jobs[s]) /\ s \notin task'.todo
<1>0. /\ stored.jobs[s] \in JobType /\ Context[s] \in JobType
      /\ settings.probe \in BOOLEAN /\ stored.jobs[s].phase # "probing"
      /\ stored.jobs[s].attempts \in Nat
      /\ Context[s] = InContext(stored.jobs[s], s)
  BY ContextTyped, SyncQueueAssumption DEF TypeOK, JobType, NoProbing
<1>1. \/ Context[s].attempts = stored.jobs[s].attempts
      \/ Context[s].phase = "none"
  BY <1>0, InContextTyped
<1>2. CASE task'.jobs[s] = Context[s]
  <2>1. s \in task'.todo => Due(Context[s])
    BY <1>2, Began
  <2>2. Context[s].phase = "none" => s \notin task'.todo
    BY <2>1 DEF Due, Active
  <2> QED BY <1>0, <1>1, <1>2, <2>2 DEF Renewed
<1>3. CASE task'.jobs[s] = Recovered(Context[s]) /\ s \notin task'.todo
  BY <1>0, <1>1, <1>3, RecoveredTyped DEF Renewed
<1>4. ASSUME NEW reason \in Triggers, settings.approved[s] = "yes",
             ~Skipped(reason, Context[s]), s \notin task'.todo,
             task'.jobs[s] = Queued(reason, Context[s])
      PROVE  \/ stored.jobs[s].attempts <= task'.jobs[s].attempts
             \/ Renewed(stored.jobs[s]) \/ Renewed(task'.jobs[s])
  <2>1. /\ task'.jobs[s].phase = "pending" /\ task'.jobs[s].reason = reason
        /\ task'.jobs[s].attempts =
             IF reason # "manual" /\ Context[s].phase = "pending"
             THEN Context[s].attempts ELSE 0
    BY <1>0, <1>4, QueuedTyped, SyncQueueAssumption
  <2>2. CASE reason = "manual"
    BY <2>1, <2>2 DEF Renewed
  <2>3. CASE reason # "manual"
    <3>1. Context[s].phase = stored.jobs[s].phase
      BY <1>0, <1>4, ApprovedInContext
    <3>2. Context[s].phase \in {"none", "pending", "succeeded", "paused"}
      BY <1>0, <1>4, <2>3, <3>1 DEF Skipped, JobType, Phases
    <3> QED BY <1>0, <1>1, <1>4, <2>1, <2>3, <3>1, <3>2 DEF Renewed
  <2> QED BY <2>2, <2>3
<1> QED BY <1>2, <1>3, <1>4, Began

\* Every step keeps CountsOn, unless the user may change the connection.
LEMMA CountsStep ==
  ASSUME "connection" \notin Edits
  PROVE  /\ TypeOK /\ Generations /\ RunInOrder /\ NoProbing /\ CountsOn
         /\ [Next]_vars
         => CountsOn'
<1> SUFFICES ASSUME TypeOK, Generations, RunInOrder, NoProbing, CountsOn,
                    [Next]_vars
             PROVE  CountsOn'
  OBVIOUS
<1>0. /\ task.jobs \in [Source -> JobType] /\ task.todo \in SUBSET Source
      /\ task.then = "preflight" => task.source \in Source
      /\ task.at # "idle" => task # Idle
      /\ settings.connection = 1
      /\ \A s \in Source : /\ task.jobs[s].attempts \in Nat
                           /\ stored.jobs[s].attempts \in Nat
  BY IdleStep, SyncQueueAssumption DEF TypeOK, Tasks, JobType, CountsOn
<1>1. CASE \/ BeginRecover \/ BeginRunDue
           \/ \E reason \in Triggers : BeginEnqueue(reason)
  <2>1. UNCHANGED <<settings, stored>>
    BY <1>1, Began
  <2>2. stored.connection = settings.connection
    BY <1>0 DEF TypeOK, Generations
  <2>3. \A s \in Source :
          \/ stored.jobs[s].attempts <= task'.jobs[s].attempts
          \/ Renewed(stored.jobs[s])
          \/ Renewed(task'.jobs[s]) /\ s \notin task'.todo
    BY <1>1, <2>2, KeptBegun
  <2> QED BY <1>0, <2>1, <2>3 DEF CountsOn
<1>2. ASSUME task # Idle, NEW s \in Source, UNCHANGED <<settings, stored>>,
             task'.todo \subseteq task.todo,
             \A r \in Source \ {s} : task'.jobs[r] = task.jobs[r],
             task.jobs[s].attempts <= task'.jobs[s].attempts,
             task'.jobs[s].attempts \in Nat,
             s \in task.todo \/ ~Renewed(task.jobs[s])
      PROVE  CountsOn'
  BY <1>0, <1>2 DEF CountsOn
<1>3. ASSUME NEW s \in Source, Drop(s) PROVE CountsOn'
  <2>1. PICK job \in JobType :
          /\ task' = Continue("take", Replaced(s, job), task.todo \ {s}, None,
                              "none")
          /\ job.attempts = task.jobs[s].attempts
          /\ task.at = "take" /\ s \in task.todo
          /\ UNCHANGED <<settings, stored>>
    BY <1>3, Dropped
  <2>2. /\ task'.todo = task.todo \ {s} /\ task'.jobs[s] = job
        /\ \A r \in Source \ {s} : task'.jobs[r] = task.jobs[r]
    BY <2>1, ReplacedTyped DEF Continue, Task
  <2>3. /\ task.jobs[s].attempts <= task'.jobs[s].attempts
        /\ task'.jobs[s].attempts \in Nat
    BY <1>0, <2>1, <2>2
  <2>4. task'.todo \subseteq task.todo
    BY <2>2
  <2> QED BY <1>0, <1>2, <2>1, <2>2, <2>3, <2>4
<1>4. ASSUME NEW s \in Source, TakeUp(s) PROVE CountsOn'
  <2>1. PICK job \in JobType :
          /\ task' = Continue("save", Replaced(s, job), task.todo \ {s}, s,
                              "preflight")
          /\ \/ task.jobs[s].phase = "exhausted" /\ job.phase = "probing"
             \/ job.attempts = task.jobs[s].attempts + 1
          /\ task.at = "take" /\ s \in task.todo
          /\ UNCHANGED <<settings, stored>>
    BY <1>4, Taken
  <2>2. /\ task'.todo = task.todo \ {s} /\ task'.jobs[s] = job
        /\ \A r \in Source \ {s} : task'.jobs[r] = task.jobs[r]
    BY <2>1, ReplacedTyped DEF Continue, Task
  <2>3. job.attempts = task.jobs[s].attempts + 1
    BY <2>1 DEF NoProbing
  <2>4. /\ task.jobs[s].attempts <= task'.jobs[s].attempts
        /\ task'.jobs[s].attempts \in Nat
    BY <1>0, <2>2, <2>3
  <2>5. task'.todo \subseteq task.todo
    BY <2>2
  <2> QED BY <1>0, <1>2, <2>1, <2>2, <2>4, <2>5
<1>5. task.then = "preflight" => /\ task # Idle
                                 /\ ~Renewed(task.jobs[task.source])
  BY <1>0, IdleStep DEF RunInOrder, Renewed
<1>6. ASSUME NEW at, NEW then, NEW job \in JobType, task.then = "preflight",
             task' = Continue(at, Replaced(task.source, job), task.todo, None,
                              then),
             AnsweredWith(job, task.jobs[task.source]),
             UNCHANGED <<settings, stored>>
      PROVE  CountsOn'
  <2>1. /\ task'.todo = task.todo /\ task'.jobs[task.source] = job
        /\ \A r \in Source \ {task.source} : task'.jobs[r] = task.jobs[r]
    BY <1>0, <1>6, ReplacedTyped DEF Continue, Task
  <2> QED BY <1>0, <1>2, <1>5, <1>6, <2>1 DEF AnsweredWith
<1>7. CASE Preflight
  <2>1. CASE task' = Continue("push", task.jobs, task.todo, task.source,
                              "preflight")
    <3>1. task'.jobs = task.jobs /\ task'.todo = task.todo
      BY <2>1, Continued
    <3> QED BY <1>5, <1>7, <3>1, Preflighted DEF CountsOn
  <2> QED BY <1>6, <1>7, <2>1, Preflighted
<1>8. CASE Push
  <2>1. task.then = "preflight"
    BY <1>8 DEF Push, TypeOK
  <2> QED BY <1>6, <1>8, <2>1, Pushed
<1>9. CASE WriteQueue
  <2>1. /\ task'.jobs = task.jobs /\ settings' = settings
        /\ stored'.jobs = task.jobs
    BY <1>9, Written
  <2> QED BY <1>0, <2>1 DEF CountsOn
<1>10. CASE GoesOn
  <2>1. /\ task # Idle /\ task'.jobs = task.jobs
        /\ task'.todo \subseteq task.todo /\ UNCHANGED <<settings, stored>>
    BY <1>10, WentOn DEF GoesOn
  <2> QED BY <2>1 DEF CountsOn
<1>11. CASE Stops
  BY <1>11 DEF Stops, CountsOn
<1>12. CASE Apart
  BY <1>12 DEF Apart, CountsOn
<1>13. CASE ChangeConnection
  BY <1>13 DEF ChangeConnection
<1>14. CASE WindowPasses \/ PeriodPasses
  <2>1. /\ settings' = settings /\ task'.todo = task.todo
        /\ task' = Idle <=> task = Idle
        /\ \A s \in Source :
             /\ stored'.jobs[s].phase = stored.jobs[s].phase
             /\ stored'.jobs[s].attempts = stored.jobs[s].attempts
             /\ stored'.jobs[s].reason = stored.jobs[s].reason
             /\ task'.jobs[s].phase = task.jobs[s].phase
             /\ task'.jobs[s].attempts = task.jobs[s].attempts
             /\ task'.jobs[s].reason = task.jobs[s].reason
    BY <1>14, TimePassed
  <2> QED BY <2>1 DEF CountsOn, Renewed
<1> QED BY <1>1, <1>3, <1>4, <1>7, <1>8, <1>9, <1>10, <1>11, <1>12, <1>13, <1>14,
           StepForms

\* Without recovery probes, and for one connection, what sync.js:118 says is true:
\* no automatic event resets a retry budget.  The run sync_reset shows that it is
\* not true with them: a probe that was interrupted is the one phase that
\* Skipped leaves out.
THEOREM AutomaticEventsKeepBudget ==
  ASSUME ~ProbesOn, "probe" \notin Edits, "connection" \notin Edits
  PROVE  Spec => AutomaticKeepsBudget
<1> DEFINE Inv == /\ TypeOK /\ Generations /\ RunInOrder /\ NoProbing
                  /\ CountsOn
<1> DEFINE Kept == \A s \in Source :
                     stored'.jobs[s].attempts < stored.jobs[s].attempts
                       => Renewed(stored.jobs[s]) \/ Renewed(stored'.jobs[s])
<1>1. Init => Inv
  <2>1. Init => CountsOn
    BY DEF Init, CountsOn
  <2> QED BY <2>1, InitTyped, GenerationsInit, RunInOrderInit, NoProbingInit
<1>2. Inv /\ [Next]_vars => Inv'
  BY NextTyped, GenerationsStep, RunInOrderStep, NoProbingStep, CountsStep
<1>3. Inv /\ [Next]_vars => [Kept]_vars
  <2> SUFFICES ASSUME Inv, [Next]_vars PROVE Kept
    OBVIOUS
  <2>1. \A s \in Source : /\ stored.jobs[s].attempts \in Nat
                          /\ task.jobs[s].attempts \in Nat
    BY SyncQueueAssumption DEF TypeOK, Tasks, JobType
  <2>2. CASE WriteQueue
    <3>1. task # Idle /\ stored'.jobs = task.jobs
      BY <2>2, Written
    <3> QED BY <2>1, <3>1 DEF CountsOn
  <2>3. CASE \A s \in Source : stored'.jobs[s].attempts = stored.jobs[s].attempts
    BY <2>1, <2>3
  <2>4. CASE WindowPasses \/ PeriodPasses
    BY <2>3, <2>4, TimePassed
  <2>5. CASE \/ BeginRecover \/ BeginRunDue
             \/ \E reason \in Triggers : BeginEnqueue(reason)
    BY <2>3, <2>5, Began
  <2>6. CASE \E s \in Source : Drop(s) \/ TakeUp(s)
    BY <2>3, <2>6 DEF Drop, TakeUp, Take
  <2>7. CASE Preflight \/ Push \/ GoesOn \/ Stops \/ Apart \/ ChangeConnection
    BY <2>3, <2>7 DEF Preflight, Push, GoesOn, Stops, Apart, ChangeConnection
  <2> QED BY <2>2, <2>4, <2>5, <2>6, <2>7, StepForms
<1>4. AutomaticKeepsBudget <=> [][Kept]_vars
  BY DEF AutomaticKeepsBudget
<1> HIDE DEF Inv, Kept
<1> QED BY <1>1, <1>2, <1>3, <1>4, PTL DEF Spec
=============================================================================
