------------------------------ MODULE Receiver ------------------------------
(***************************************************************************)
(* One namespace of the receiver: ReceiverState (receiver_state.py) with   *)
(* the files it owns.  Every mutating request runs under ReceiverState's   *)
(* lock, but rewrites SEVERAL files one after the other; each rewrite is   *)
(* atomic (paths.atomic_write_text), the sequence is not.  A handler is    *)
(* therefore a sequence of steps, at most one file written by each, with   *)
(* the lock held from the first to the last: op says what remains to be    *)
(* done.  Between two steps the process may die (Crash) and any rewrite    *)
(* may raise OSError (WriteFails), which abandons the rest of the handler. *)
(* Steps that touch no file before the first write belong to that write.   *)
(*                                                                         *)
(* The clients are the environment: a push is prepared from the version    *)
(* and revision read by GET /v2/sync and may be delivered late, repeatedly *)
(* or never; a report may name any version that was ever stored, since     *)
(* consumers read snapshots without the lock and their reports may be late *)
(* or repeated.                                                            *)
(*                                                                         *)
(* Random tokens (snapshot versions, configuration revisions) are fresh    *)
(* numbers.  An instant is reduced to whether its deadline has passed.     *)
(***************************************************************************)
EXTENDS IncidentRules, FiniteSets

CONSTANTS
  Source,       \* names of sources
  Label,        \* labels a source may carry
  Site,         \* cookie scopes: the domains and target_url of a source
  Jar,          \* non-empty sets of cookies
  NoCookies,    \* the empty set of cookies
  RequestId,    \* request identifiers of pushes
  None,         \* nothing: not configured, not sent, not stored
  MaxVersion,   \* bound: number of snapshots written
  MaxRevision,  \* bound: number of configuration revisions drawn
  \* What the environment does:
  Verdicts,     \* results that consumers report
  Disposals,    \* what operators do with incidents
  HealthNames,  \* the sets of sources that health reports name
  Monitored,    \* the sources the monitor thread gets to
  Deadlines     \* the deadlines that may pass

\* One entry of sources.json, without its time thresholds.
SourceSpec == [enabled : BOOLEAN, label : Label, sites : Site]
Policy == [Source -> SourceSpec \cup {None}]

Results == {"valid", "invalid", "error", "unverified"}
Disposal == {"acknowledge", "snooze", "reopen"}
Deadline == {"stale", "ttl", "snooze", "cooldown"}
AlertKinds == {"login_invalid", "snapshot_stale"}
Contents == Jar \cup {NoCookies}

\* A push, and how often the receiver stored a snapshot for it.
Push == [source : Source, jar : Contents, revision : Nat, expected : Nat,
         stored : Nat]

ASSUME ConstantsAssumption ==
  /\ None \notin SourceSpec \cup Push \cup Source \cup RequestId \cup Site
  /\ NoCookies \notin Jar
  /\ MaxVersion \in Nat /\ MaxRevision \in Nat
  /\ Verdicts \subseteq Results /\ Disposals \subseteq Disposal
  /\ HealthNames \subseteq SUBSET Source /\ Monitored \subseteq Source
  /\ Deadlines \subseteq Deadline

VARIABLES
  up,            \* the process runs
  sources,       \* ReceiverState.sources
  revision,      \* ReceiverState.revision
  sourcesFile,   \* sources.json
  snapshot,      \* <source>-cookies.json, by source
  meta,          \* .<source>-sync.json, by source
  incidents,     \* .incidents.json, by source
  health,        \* .client-health.json: the policy each entry was filed under
  lastVersion,   \* the snapshot versions drawn so far are 1..lastVersion
  op,            \* the handler that holds the lock
  pendingNotify, \* ReceiverState.pending_notify
  sent,          \* the pushes clients have prepared
  alerts         \* alerts sent since the cooldown of their kind last ended

durable == <<sourcesFile, snapshot, meta, incidents, health>>
memory == <<up, sources, revision>>
vars == <<memory, durable, lastVersion, op, pendingNotify, sent, alerts>>

-----------------------------------------------------------------------------
(* The files *)

NoSnapshot == [version |-> 0, jar |-> NoCookies, sites |-> None,
               request |-> None, old |-> FALSE]
NoMeta == [version |-> 0, seen |-> "none", request |-> None,
           validation |-> "unverified", expired |-> FALSE,
           loginAlerted |-> FALSE, staleAlerted |-> FALSE]
NoIncidents == [filedUnder |-> None, active |-> [k \in Kinds |-> NoEntry]]

\* store.save_snapshot: a new version, written over the old file.
Saved(s, jar, request) ==
  [version |-> lastVersion + 1, jar |-> jar, sites |-> sources[s].sites,
   request |-> request, old |-> FALSE]

\* Faulty About: the verdict survives a change of version.
AboutKeepsVerdict(m, version) == [m EXCEPT !.version = version]

\* Faulty About: the reset forgets which alerts are cooling down.
AboutForgetsAlerts(m, version) ==
  IF m.version = version THEN m ELSE [NoMeta EXCEPT !.version = version]

\* SyncState's "reset" of metadata that is about another version.
About(m, version) ==
  IF m.version = version THEN m
  ELSE [NoMeta EXCEPT !.version = version,
                      !.loginAlerted = m.loginAlerted,
                      !.staleAlerted = m.staleAlerted]

\* IncidentStore._load: entries filed under another policy do not count.
Loaded(s) == IF incidents[s].filedUnder = sources[s]
             THEN incidents[s] ELSE NoIncidents

\* IncidentStore._write rewrites the file from what _load kept of it.
RewriteIncidents(s, new) ==
  incidents' = [t \in Source |-> IF t = s THEN new ELSE Loaded(t)]

-----------------------------------------------------------------------------
(* What the receiver says of a source: SyncState.status *)

Enabled(s) == sources[s] # None /\ sources[s].enabled
Version(s) == snapshot[s].version
Current(s) == Version(s) # 0 /\ meta[s].version = Version(s)

ReportedResult(s) == IF Current(s) THEN meta[s].validation ELSE "unverified"

Validation(s) ==
  IF ReportedResult(s) # "unverified" /\ meta[s].expired
  THEN "expired" ELSE ReportedResult(s)

Seen(s) == IF Current(s) THEN meta[s].seen
           ELSE IF snapshot[s].old THEN "old" ELSE "recent"

Freshness(s) ==
  CASE Version(s) = 0 -> "missing"
    [] Version(s) # 0 /\ snapshot[s].jar = NoCookies -> "cleared"
    [] OTHER -> CASE Seen(s) = "none" -> "unknown"
                  [] Seen(s) = "old" -> "stale"
                  [] OTHER -> "fresh"

Status(s) == [version |-> Version(s), validation |-> Validation(s),
              freshness |-> Freshness(s)]

-----------------------------------------------------------------------------
(* The lock *)

Stages == {"idle", "meta", "observe", "reserve",
           "forget health", "forget incidents", "clear", "publish", "adopt"}

\* What observing the incidents is followed by.
Sequels == {"answer", "announce push", "alert", "reserve"}

Handler(stage, s, request, then, pending, policy) ==
  [at |-> stage, source |-> s, request |-> request, then |-> then,
   pending |-> pending, policy |-> policy]

Held(stage, s, request, then) ==
  Handler(stage, s, request, then, {}, [t \in Source |-> None])

Idle == Held("idle", None, None, "answer")

\* The lock is free: a handler may begin.
Free == up /\ op = Idle

-----------------------------------------------------------------------------
Init ==
  /\ up = TRUE
  /\ sources \in Policy
  /\ revision = 1
  /\ sourcesFile = sources
  /\ snapshot = [s \in Source |-> NoSnapshot]
  /\ meta = [s \in Source |-> NoMeta]
  /\ incidents = [s \in Source |-> NoIncidents]
  /\ health = [s \in Source |-> None]
  /\ lastVersion = 0
  /\ op = Idle
  /\ pendingNotify = {}
  /\ sent = [r \in RequestId |-> None]
  /\ alerts = [s \in Source |-> [k \in AlertKinds |-> 0]]

-----------------------------------------------------------------------------
(* Pushes: POST /v2/cookies *)

\* A client reads GET /v2/sync, then builds the push it will send.
Prepare(r, s, jar) ==
  /\ Free /\ sent[r] = None /\ sources[s] # None
  /\ sent' = [sent EXCEPT ![r] = [source |-> s, jar |-> jar,
                                  revision |-> revision,
                                  expected |-> Version(s),
                                  stored |-> 0]]
  /\ UNCHANGED <<memory, durable, lastVersion, op, pendingNotify, alerts>>

\* Faulty Replayed: only the metadata is asked.
ReplayedByMeta(r) == LET s == sent[r].source
                     IN  Current(s) /\ r = meta[s].request

Replayed(r) ==
  LET s == sent[r].source
  IN  /\ Version(s) # 0
      /\ \/ r = snapshot[s].request
         \/ Current(s) /\ r = meta[s].request

\* The digests of the push and of the stored snapshot are equal.
SameContent(r) ==
  LET s == sent[r].source
  IN  /\ Version(s) # 0
      /\ snapshot[s].jar = sent[r].jar
      /\ snapshot[s].sites = sources[s].sites

\* Faulty Accepted: the expected version is not compared.
AcceptedAnyVersion(r) ==
  /\ Free /\ sent[r] # None
  /\ sent[r].revision = revision
  /\ Enabled(sent[r].source)
  /\ Replayed(r) => SameContent(r)

\* check_revision and the policy check of ingest, then those of accept.
Accepted(r) ==
  /\ Free /\ sent[r] # None
  /\ sent[r].revision = revision
  /\ Enabled(sent[r].source)
  /\ IF Replayed(r) THEN SameContent(r)
     ELSE sent[r].expected = Version(sent[r].source)

\* accept, other cookies: the snapshot is replaced, its metadata comes next.
IngestNew(r) ==
  /\ Accepted(r) /\ ~SameContent(r)
  /\ lastVersion < MaxVersion
  /\ LET s == sent[r].source
     IN  /\ snapshot' = [snapshot EXCEPT ![s] = Saved(s, sent[r].jar, r)]
         /\ op' = Held("meta", s, r, "announce push")
  /\ lastVersion' = lastVersion + 1
  /\ sent' = [sent EXCEPT ![r].stored = @ + 1]
  /\ UNCHANGED <<memory, sourcesFile, meta, incidents, health, pendingNotify,
                 alerts>>

SeenNow(s, r) ==
  meta' = [meta EXCEPT ![s] = [About(@, Version(s)) EXCEPT !.seen = "recent",
                                                           !.request = r]]

\* accept, the same cookies: only the metadata is rewritten.
IngestSame(r) ==
  /\ Accepted(r) /\ SameContent(r)
  /\ SeenNow(sent[r].source, r)
  /\ op' = Held("observe", sent[r].source, None, "answer")
  /\ UNCHANGED <<memory, sourcesFile, snapshot, incidents, health,
                 lastVersion, pendingNotify, sent, alerts>>

\* The second write of accept.
WriteMeta ==
  /\ op.at = "meta"
  /\ SeenNow(op.source, op.request)
  /\ op' = Held("observe", op.source, None, op.then)
  /\ UNCHANGED <<memory, sourcesFile, snapshot, incidents, health,
                 lastVersion, pendingNotify, sent, alerts>>

Observed(s) ==
  [filedUnder |-> sources[s],
   active |-> [k \in Kinds |-> ObserveEntry(k, Loaded(s).active[k],
                                            Status(s))]]

\* observe_incidents, the last write of a push or report and the first of a
\* scan, and what the handler does after it.
Observe ==
  /\ op.at = "observe"
  /\ IF Observed(op.source) = Loaded(op.source) THEN UNCHANGED incidents
     ELSE RewriteIncidents(op.source, Observed(op.source))
  /\ op' = IF op.then = "reserve"
           THEN Held("reserve", op.source, None, "answer") ELSE Idle
  /\ pendingNotify' = IF op.then = "announce push"
                      THEN pendingNotify \cup {op.source} ELSE pendingNotify
  /\ alerts' = IF op.then = "alert"
               THEN [alerts EXCEPT ![op.source]["login_invalid"] = @ + 1]
               ELSE alerts
  /\ UNCHANGED <<memory, sourcesFile, snapshot, meta, health, lastVersion,
                 sent>>

\* The debounced notification of the pushes accepted since the last one.
FlushNotify ==
  /\ Free /\ pendingNotify # {}
  /\ pendingNotify' = {}
  /\ UNCHANGED <<memory, durable, lastVersion, op, sent, alerts>>

-----------------------------------------------------------------------------
(* Reports: POST /v1/feedback *)

Judged(s, result, alert) ==
  [About(meta[s], Version(s)) EXCEPT
     !.validation = result, !.expired = FALSE,
     !.loginAlerted = @ \/ alert]

\* report and feedback: the verdict is filed, the alert of an invalid login
\* reserved with it, and sent after the incidents were observed.
Report(s, version, result) ==
  /\ Free /\ Enabled(s)
  /\ version # 0 /\ version = Version(s)
  /\ result = "valid" => snapshot[s].jar # NoCookies
  /\ LET alert == /\ result = "invalid" /\ ~meta[s].loginAlerted
                  /\ MayNotify(Loaded(s).active["login_invalid"])
     IN  /\ meta' = [meta EXCEPT ![s] = Judged(s, result, alert)]
         /\ op' = Held("observe", s, None, IF alert THEN "alert" ELSE "answer")
  /\ UNCHANGED <<memory, sourcesFile, snapshot, incidents, health,
                 lastVersion, pendingNotify, sent, alerts>>

-----------------------------------------------------------------------------
(* Incidents and client health *)

\* POST /v1/incidents/<source>: the operator disposes of an active entry.
IncidentAction(s, kind, action) ==
  /\ Free /\ sources[s] # None
  /\ Loaded(s).active[kind] # NoEntry
  /\ RewriteIncidents(s, [Loaded(s) EXCEPT
                            !.active[kind] = Disposed(@, action)])
  /\ UNCHANGED <<memory, sourcesFile, snapshot, meta, health, lastVersion, op,
                 pendingNotify, sent, alerts>>

\* POST /v1/client-health: the whole document is replaced.
AcceptHealth(named) ==
  /\ Free /\ \A s \in named : sources[s] # None
  /\ health' = [s \in Source |-> IF s \in named THEN sources[s] ELSE None]
  /\ UNCHANGED <<memory, sourcesFile, snapshot, meta, incidents, lastVersion,
                 op, pendingNotify, sent, alerts>>

-----------------------------------------------------------------------------
(* StaleMonitor.scan, the part done under the lock for one source *)

\* Faulty Scan: goes straight to the stale alert.
ScanWithoutObserving(s) ==
  /\ Free /\ Enabled(s)
  /\ op' = Held("reserve", s, None, "answer")
  /\ UNCHANGED <<memory, durable, lastVersion, pendingNotify, sent, alerts>>

Scan(s) ==
  /\ Free /\ Enabled(s)
  /\ op' = Held("observe", s, None, "reserve")
  /\ UNCHANGED <<memory, durable, lastVersion, pendingNotify, sent, alerts>>

ReservesStaleAlert(s) ==
  /\ Freshness(s) = "stale"
  /\ MayNotify(Loaded(s).active["snapshot_stale"])
  /\ ~meta[s].staleAlerted

\* Faulty ReserveStale: the alert is sent, the reservation is not kept.
ReserveStaleInMemory ==
  /\ op.at = "reserve"
  /\ ReservesStaleAlert(op.source)
  /\ alerts' = [alerts EXCEPT ![op.source]["snapshot_stale"] = @ + 1]
  /\ op' = Idle
  /\ UNCHANGED <<memory, durable, lastVersion, pendingNotify, sent>>

ReserveStale ==
  /\ op.at = "reserve"
  /\ ReservesStaleAlert(op.source)
  /\ meta' = [meta EXCEPT ![op.source].staleAlerted = TRUE]
  /\ alerts' = [alerts EXCEPT ![op.source]["snapshot_stale"] = @ + 1]
  /\ op' = Idle
  /\ UNCHANGED <<memory, sourcesFile, snapshot, incidents, health,
                 lastVersion, pendingNotify, sent>>

SkipStale ==
  /\ op.at = "reserve"
  /\ ~ReservesStaleAlert(op.source)
  /\ op' = Idle
  /\ UNCHANGED <<memory, durable, lastVersion, pendingNotify, sent, alerts>>

-----------------------------------------------------------------------------
(* Configuration: PUT /v1/sources and DELETE /v2/cookies/<source> *)

\* Faulty Changed: removed sources are overlooked.
ChangedButNotRemoved(new) ==
  {s \in Source : None \notin {sources[s], new[s]} /\ new[s] # sources[s]}

Changed(new) == {s \in Source : sources[s] # None /\ new[s] # sources[s]}

\* Faulty Replacing: the new configuration is published one source early.
ReplacingTooEarly(new, pending) ==
  Handler(IF Cardinality(pending) <= 1 THEN "publish" ELSE "forget health",
          None, None, "answer", pending, new)

\* The next changed source, or the new configuration once none is left.
Replacing(new, pending) ==
  Handler(IF pending = {} THEN "publish" ELSE "forget health",
          None, None, "answer", pending, new)

\* The bounds leave room for every write the handler is going to make.
HasRoom(snapshots) ==
  revision < MaxRevision /\ lastVersion + snapshots <= MaxVersion

ReplaceSources(new) ==
  /\ Free
  /\ HasRoom(Cardinality(Changed(new)))
  /\ op' = Replacing(new, Changed(new))
  /\ UNCHANGED <<memory, durable, lastVersion, pendingNotify, sent, alerts>>

\* Faulty ForgetHealth: entries are left to the policy they were filed under.
ForgetHealthSkipped(s) ==
  /\ op.at = "forget health" /\ s \in op.pending
  /\ op' = [op EXCEPT !.at = "forget incidents", !.source = s]
  /\ UNCHANGED <<memory, durable, lastVersion, pendingNotify, sent, alerts>>

\* The sources of the old configuration are visited in some order.
ForgetHealth(s) ==
  /\ op.at = "forget health" /\ s \in op.pending
  /\ health' = [health EXCEPT ![s] = None]
  /\ op' = [op EXCEPT !.at = "forget incidents", !.source = s]
  /\ UNCHANGED <<memory, sourcesFile, snapshot, meta, incidents, lastVersion,
                 pendingNotify, sent, alerts>>

ForgetIncidents ==
  /\ op.at = "forget incidents"
  /\ RewriteIncidents(op.source, NoIncidents)
  /\ op' = [op EXCEPT !.at = "clear"]
  /\ UNCHANGED <<memory, sourcesFile, snapshot, meta, health, lastVersion,
                 pendingNotify, sent, alerts>>

ClearChanged ==
  /\ op.at = "clear"
  /\ snapshot' = [snapshot EXCEPT
                    ![op.source] = Saved(op.source, NoCookies, None)]
  /\ lastVersion' = lastVersion + 1
  /\ op' = Replacing(op.policy, op.pending \ {op.source})
  /\ UNCHANGED <<memory, sourcesFile, meta, incidents, health, pendingNotify,
                 sent, alerts>>

PublishSources ==
  /\ op.at = "publish"
  /\ sourcesFile' = op.policy
  /\ op' = [op EXCEPT !.at = "adopt"]
  /\ UNCHANGED <<memory, snapshot, meta, incidents, health, lastVersion,
                 pendingNotify, sent, alerts>>

AdoptSources ==
  /\ op.at = "adopt"
  /\ sources' = op.policy
  /\ revision' = revision + 1
  /\ op' = Idle
  /\ UNCHANGED <<up, durable, lastVersion, pendingNotify, sent, alerts>>

\* The snapshot is emptied first; replace_sources then runs as it always does.
ClearAndPause(s) ==
  LET paused == [sources EXCEPT ![s] = [@ EXCEPT !.enabled = FALSE]]
  IN  /\ Free /\ sources[s] # None
      /\ HasRoom(2)
      /\ snapshot' = [snapshot EXCEPT ![s] = Saved(s, NoCookies, None)]
      /\ lastVersion' = lastVersion + 1
      /\ op' = Replacing(paused, Changed(paused))
      /\ UNCHANGED <<memory, sourcesFile, meta, incidents, health,
                     pendingNotify, sent, alerts>>

-----------------------------------------------------------------------------
(* Failures *)

\* A rewrite raises OSError: nothing of it is kept, the handler is abandoned.
WriteFails ==
  /\ op.at \in {"meta", "observe", "reserve", "forget health",
                "forget incidents", "clear", "publish"}
  /\ op' = Idle
  /\ UNCHANGED <<memory, durable, lastVersion, pendingNotify, sent, alerts>>

\* The process dies; what was in memory no longer counts.
Crash ==
  /\ up /\ revision < MaxRevision
  /\ up' = FALSE
  /\ op' = Idle
  /\ pendingNotify' = {}
  /\ UNCHANGED <<sources, revision, durable, lastVersion, sent, alerts>>

\* ReceiverState.__init__ on the configuration file, with a fresh revision.
Restart ==
  /\ ~up
  /\ up' = TRUE
  /\ sources' = sourcesFile
  /\ revision' = revision + 1
  /\ UNCHANGED <<durable, lastVersion, op, pendingNotify, sent, alerts>>

-----------------------------------------------------------------------------
(* Time *)

\* stale_after_seconds pass since the cookies of s were last seen.
CookiesAge(s) ==
  /\ Version(s) # 0
  /\ snapshot' = [snapshot EXCEPT ![s].old = TRUE]
  /\ meta' = [meta EXCEPT ![s].seen = IF @ = "none" THEN "none" ELSE "old"]
  /\ UNCHANGED <<memory, sourcesFile, incidents, health, lastVersion, op,
                 pendingNotify, sent, alerts>>

\* validation_ttl_seconds pass since the verdict.
VerdictExpires(s) ==
  /\ ReportedResult(s) # "unverified"
  /\ meta' = [meta EXCEPT ![s].expired = TRUE]
  /\ UNCHANGED <<memory, sourcesFile, snapshot, incidents, health,
                 lastVersion, op, pendingNotify, sent, alerts>>

SnoozeEnds(s, kind) ==
  /\ incidents[s].active[kind].snooze = "running"
  /\ incidents' = [incidents EXCEPT ![s].active[kind].snooze = "over"]
  /\ UNCHANGED <<memory, sourcesFile, snapshot, meta, health, lastVersion, op,
                 pendingNotify, sent, alerts>>

\* 900 seconds pass since an alert of this kind was reserved.
CooldownEnds(s, kind) ==
  /\ \/ kind = "login_invalid" /\ meta[s].loginAlerted
        /\ meta' = [meta EXCEPT ![s].loginAlerted = FALSE]
     \/ kind = "snapshot_stale" /\ meta[s].staleAlerted
        /\ meta' = [meta EXCEPT ![s].staleAlerted = FALSE]
  /\ op = Idle
  /\ alerts' = [alerts EXCEPT ![s][kind] = 0]
  /\ UNCHANGED <<memory, sourcesFile, snapshot, incidents, health,
                 lastVersion, op, pendingNotify, sent>>
-----------------------------------------------------------------------------
HandlerStep ==
  \/ WriteMeta \/ Observe \/ ReserveStale \/ SkipStale
  \/ \E s \in Source : ForgetHealth(s)
  \/ ForgetIncidents \/ ClearChanged \/ PublishSources \/ AdoptSources

TimePasses ==
  \E s \in Source :
    \/ "stale" \in Deadlines /\ CookiesAge(s)
    \/ "ttl" \in Deadlines /\ VerdictExpires(s)
    \/ "snooze" \in Deadlines /\ \E kind \in Kinds : SnoozeEnds(s, kind)
    \/ "cooldown" \in Deadlines /\ \E kind \in AlertKinds : CooldownEnds(s, kind)

Next ==
  \/ \E r \in RequestId, s \in Source, jar \in Contents : Prepare(r, s, jar)
  \/ \E r \in RequestId : IngestNew(r) \/ IngestSame(r)
  \/ \E s \in Source, v \in 1..lastVersion, result \in Verdicts :
       Report(s, v, result)
  \/ \E s \in Source, kind \in Kinds, action \in Disposals :
       IncidentAction(s, kind, action)
  \/ \E named \in HealthNames : AcceptHealth(named)
  \/ \E s \in Monitored : Scan(s)
  \/ \E s \in Source : ClearAndPause(s)
  \/ \E new \in Policy : ReplaceSources(new)
  \/ HandlerStep
  \/ FlushNotify \/ WriteFails \/ Crash \/ Restart
  \/ TimePasses

Spec == Init /\ [][Next]_vars

\* The monitor thread visits every enabled source again and again, a handler
\* that holds the lock goes on, the service manager restarts the process, and
\* a disk that keeps failing recovers in the end.
FairSpec ==
  /\ Spec
  /\ WF_vars(HandlerStep) /\ WF_vars(Restart)
  /\ \A s \in Monitored : SF_vars(Scan(s)) /\ SF_vars(op.source = s /\ Observe)

-----------------------------------------------------------------------------
(* Properties *)

SnapshotType ==
  [version : Nat, jar : Contents, sites : Site \cup {None},
   request : RequestId \cup {None}, old : BOOLEAN]
MetaType ==
  [version : Nat, seen : {"none", "recent", "old"},
   request : RequestId \cup {None}, validation : Results, expired : BOOLEAN,
   loginAlerted : BOOLEAN, staleAlerted : BOOLEAN]
IncidentsType ==
  [filedUnder : SourceSpec \cup {None}, active : [Kinds -> Entry \cup {NoEntry}]]
OpType ==
  [at : Stages, source : Source \cup {None}, request : RequestId \cup {None},
   then : Sequels, pending : SUBSET Source, policy : Policy]

\* The shape of a handler under way: it only holds the lock of a running
\* process, and a replacement visits sources that change, all of them before it
\* publishes (the loop of replace_sources).
HandlerOK ==
  /\ op \in OpType
  /\ op # Idle => up
  /\ op.pending \subseteq Changed(op.policy)
  /\ op.at \in {"forget incidents", "clear"} => op.source \in op.pending
  /\ op.at \in {"publish", "adopt"} => op.pending = {}
  /\ op.at \in {"meta", "observe", "reserve"} => op.source \in Source
  /\ op.at = "forget health" => op.pending # {}

FilesOK ==
  /\ sourcesFile \in Policy
  /\ snapshot \in [Source -> SnapshotType]
  /\ meta \in [Source -> MetaType]
  /\ incidents \in [Source -> IncidentsType]
  /\ health \in [Source -> SourceSpec \cup {None}]

\* Types of the variables, and the shape of the handler that holds the lock.
TypeOK ==
  /\ up \in BOOLEAN /\ sources \in Policy
  /\ revision \in Nat /\ lastVersion \in Nat
  /\ FilesOK
  /\ HandlerOK
  /\ pendingNotify \in SUBSET Source
  /\ sent \in [RequestId -> Push \cup {None}]
  /\ alerts \in [Source -> [AlertKinds -> Nat]]

HasCookies(s) == snapshot[s].jar # NoCookies

Permits(policy, s) ==
  /\ policy[s] # None /\ policy[s].enabled
  /\ policy[s].sites = snapshot[s].sites

\* At every instant, also between two writes of a handler, after a failed
\* write and after a crash: stored cookies belong to a source that is
\* configured and enabled, in memory and on disk, with the scope they were
\* collected for ("invalidate old credentials before publishing a
\* narrower/new policy", receiver_state.py:97).
CredentialsMatchPolicy ==
  \A s \in Source : HasCookies(s) => /\ Permits(sources, s)
                                     /\ Permits(sourcesFile, s)

\* Why CredentialsMatchPolicy holds: memory and disk only disagree between the
\* last two steps of a replacement, and until a replacement publishes, cookies
\* are only left where nothing changes or where it has yet to pass.
ReplacementInProgress ==
  /\ up /\ op.at # "adopt" => sources = sourcesFile
  /\ op.at = "adopt" => sourcesFile = op.policy
  /\ op.at \in {"forget health", "forget incidents", "clear", "publish", "adopt"}
       => \A s \in Source : HasCookies(s) => \/ s \in op.pending
                                            \/ op.policy[s] = sources[s]

\* A push is stored at most once, however often it is delivered and whatever
\* other pushes, clears, failures and restarts come between two deliveries.
StoredAtMostOnce == \A r \in RequestId : sent[r] # None => sent[r].stored <= 1

\* While the snapshot a push stored is current and no configuration was
\* written since, delivering the push again succeeds and stores nothing, also
\* when the metadata of the first delivery was lost ("a metadata write failure
\* may leave an accepted snapshot; retrying is safe via CAS", sync_state.py:5).
RetryIsSafe ==
  \A r \in RequestId :
    (/\ Free /\ sent[r] # None
     /\ sent[r].revision = revision
     /\ snapshot[sent[r].source].request = r) => Accepted(r) /\ SameContent(r)

\* Alerts of one kind about a source are sent at most once per cooldown, over
\* new snapshots, new configurations, failures and restarts ("avoids
\* notification floods after restarts/failures", sync_state.py:179).
AlertsWithinCooldown ==
  \A s \in Source, k \in AlertKinds : alerts[s][k] <= 1

\* When the policy of a source changes, by a request or because the process
\* restarts on a file written before it died, nothing filed under an earlier
\* policy of the source is visible, not even an entry that was filed under an
\* equal policy some changes ago.
PolicyChangeForgets ==
  [][\A s \in Source : sources'[s] # sources[s] =>
       /\ health'[s] = None \/ health'[s] # sources'[s]
       /\ \A k \in Kinds : Loaded(s)'.active[k] = NoEntry]_vars

\* While the policy stands, an invalid login stays on the list until the
\* crawler finds another version valid: neither the recovery of the version
\* that failed, nor new cookies, nor a failure takes it off; only a handler
\* that replaces the policy does.
LoginIncidentOutlasts ==
  [][\A s \in Source :
       LET e == Loaded(s).active["login_invalid"]
       IN  (/\ e # NoEntry /\ sources'[s] = sources[s]
            /\ op.at # "forget incidents"
            /\ Loaded(s)'.active["login_invalid"] = NoEntry)
           => /\ ReportedResult(s) = "valid"
              /\ Version(s) # e.version]_vars

\* The versions, the cookies and the verdicts the receiver shows, read through
\* metadata that may lag behind the snapshot, are those of the abstract
\* register: a verdict is never shown for another version than it was given on.
Register == INSTANCE SnapshotRegister WITH
  issued <- lastVersion,
  version <- [s \in Source |-> Version(s)],
  jar <- [s \in Source |-> snapshot[s].jar],
  verdict <- [s \in Source |-> ReportedResult(s)]
RegisterSpec == Register!Spec

\* An invalid verdict that stands is raised as an incident in the end, also
\* when the process died or failed to write between the verdict and the
\* incident.
InvalidIsRaised ==
  \A s \in Source :
    (up /\ Enabled(s) /\ Validation(s) = "invalid") ~>
      \/ Loaded(s).active["login_invalid"] # NoEntry
      \/ ~(Enabled(s) /\ Validation(s) = "invalid")
=============================================================================
