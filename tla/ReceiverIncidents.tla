------------------------- MODULE ReceiverIncidents -------------------------
(***************************************************************************)
(* What the receiver tells operators, for every number of sources,         *)
(* incidents and configurations: that alerts keep to their cooldown, that  *)
(* a policy which is left takes with it what was filed under it, and that  *)
(* an invalid login outlasts everything but other cookies that work.       *)
(***************************************************************************)
EXTENDS ReceiverProofs

-----------------------------------------------------------------------------
(* The inductive invariants *)

\* An alert is sent, or about to be sent, only with its cooldown on file.
AlertIsReserved ==
  /\ \A s \in Source :
       /\ alerts[s]["login_invalid"] \in {0, 1}
       /\ alerts[s]["login_invalid"] = 1 => meta[s].loginAlerted
       /\ op.at = "observe" /\ op.then = "alert" /\ op.source = s =>
            meta[s].loginAlerted /\ alerts[s]["login_invalid"] = 0
       /\ alerts[s]["snapshot_stale"] \in {0, 1}
       /\ alerts[s]["snapshot_stale"] = 1 => meta[s].staleAlerted
  /\ op.at = "meta" => op.then # "alert"

\* Nothing is on file about a source.
Forgotten(s) ==
  health[s] = None /\ \A k \in Kinds : incidents[s].active[k] = NoEntry

\* What is on file was filed under the policy in memory; and of a source whose
\* policy is about to change, nothing is left where a replacement has passed.
FiledUnderPolicy ==
  /\ \A s \in Source :
       /\ health[s] \in {None, sources[s]}
       /\ \/ \A k \in Kinds : incidents[s].active[k] = NoEntry
          \/ sources[s] # None /\ incidents[s].filedUnder = sources[s]
       /\ sourcesFile[s] # sources[s] => Forgotten(s)
       /\ op.at \in {"forget health", "forget incidents", "clear", "publish",
                     "adopt"} =>
            \/ op.policy[s] = sources[s] \/ s \in op.pending \/ Forgotten(s)
  /\ op.at \in {"forget incidents", "clear"} => health[op.source] = None
  /\ op.at = "clear" => Forgotten(op.source)
  /\ op.at \in {"meta", "observe"} => sources[op.source] # None

-----------------------------------------------------------------------------
(* Alerts keep to their cooldown *)

\* The reset of metadata does not forget which alerts are cooling down.
LEMMA AboutKeepsAlerts ==
  ASSUME NEW m \in MetaType, NEW v \in Nat
  PROVE  /\ About(m, v) \in MetaType
         /\ About(m, v).loginAlerted = m.loginAlerted
         /\ About(m, v).staleAlerted = m.staleAlerted
<1>1. About(m, v) \in MetaType
  BY AboutTyped
<1> QED BY <1>1 DEF About, NoMeta, MetaType

\* What a handler that holds the lock, or none, is about to do.
LEMMA HeldFor ==
  /\ \A stage, s, request, then :
       /\ Held(stage, s, request, then).at = stage
       /\ Held(stage, s, request, then).source = s
       /\ Held(stage, s, request, then).then = then
  /\ Idle.at = "idle"
  /\ \A new, pending : Replacing(new, pending).at \in {"publish", "forget health"}
BY DEF Held, Handler, Idle, Replacing

LEMMA InitAlerts == Init => AlertIsReserved
<1> SUFFICES ASSUME Init PROVE AlertIsReserved
  OBVIOUS
<1>1. op.at = "idle"
  BY HeldFor DEF Init
<1>2. \A s \in Source, k \in AlertKinds : alerts[s][k] = 0
  BY DEF Init
<1> QED BY <1>1, <1>2 DEF AlertIsReserved, AlertKinds

LEMMA NextAlerts ==
  TypeOK /\ AlertIsReserved /\ [Next]_vars => AlertIsReserved'
<1> SUFFICES ASSUME TypeOK, AlertIsReserved, [Next]_vars
             PROVE  AlertIsReserved'
  OBVIOUS
<1> USE ConstantsAssumption DEF memory, durable
<1>types. /\ meta \in [Source -> MetaType] /\ snapshot \in [Source -> SnapshotType]
          /\ \A s \in Source : meta[s] \in MetaType /\ Version(s) \in Nat
          /\ alerts \in [Source -> [AlertKinds -> Nat]]
  BY DEF TypeOK, FilesOK, Version, SnapshotType
\* No alert is sent, reserved or forgotten.
<1>calm. ASSUME UNCHANGED alerts,
                \A s \in Source : /\ meta'[s].loginAlerted = meta[s].loginAlerted
                                  /\ meta'[s].staleAlerted = meta[s].staleAlerted,
                \/ UNCHANGED op
                \/ op'.at \notin {"observe", "meta"} \/ op'.then # "alert"
         PROVE  AlertIsReserved'
  BY <1>calm DEF AlertIsReserved
<1>seen. ASSUME NEW s \in Source, NEW r, SeenNow(s, r)
         PROVE  \A t \in Source :
                  /\ meta'[t].loginAlerted = meta[t].loginAlerted
                  /\ meta'[t].staleAlerted = meta[t].staleAlerted
  <2> DEFINE m == About(meta[s], Version(s))
  <2>1. /\ m \in MetaType /\ m.loginAlerted = meta[s].loginAlerted
        /\ m.staleAlerted = meta[s].staleAlerted
    BY <1>types, AboutKeepsAlerts
  <2>2. meta' = [meta EXCEPT ![s] = [m EXCEPT !.seen = "recent", !.request = r]]
    BY <1>seen DEF SeenNow
  <2> HIDE DEF m
  <2>3. LET new == [m EXCEPT !.seen = "recent", !.request = r]
        IN  new.loginAlerted = m.loginAlerted /\ new.staleAlerted = m.staleAlerted
    BY <2>1 DEF MetaType
  <2> QED BY <1>types, <2>1, <2>2, <2>3
<1>1. ASSUME NEW r \in RequestId, IngestSame(r) PROVE AlertIsReserved'
  <2>1. sent[r].source \in Source
    BY <1>1 DEF IngestSame, Accepted, TypeOK, Push
  <2>2. UNCHANGED alerts /\ SeenNow(sent[r].source, r) /\ op'.then = "answer"
    BY <1>1 DEF IngestSame, Held, Handler
  <2> QED BY <2>1, <2>2, <1>seen, <1>calm
<1>2. ASSUME NEW r \in RequestId, IngestNew(r) PROVE AlertIsReserved'
  BY <1>2, <1>calm DEF IngestNew, Held, Handler
<1>3. CASE WriteMeta
  <2>1. op.source \in Source /\ op.then # "alert"
    BY <1>3 DEF WriteMeta, TypeOK, HandlerOK, AlertIsReserved
  <2>2. /\ SeenNow(op.source, op.request) /\ UNCHANGED alerts
        /\ op'.source = op.source /\ op'.then = op.then
    BY <1>3 DEF WriteMeta, Held, Handler
  <2> QED BY <2>1, <2>2, <1>seen, <1>calm
\* The alert of an invalid login is only sent with its cooldown on file.
<1>4. ASSUME NEW s \in Source, NEW v \in 1..lastVersion,
             NEW result \in Verdicts, Report(s, v, result)
      PROVE  AlertIsReserved'
  <2> DEFINE alert == /\ result = "invalid" /\ ~meta[s].loginAlerted
                      /\ MayNotify(Loaded(s).active["login_invalid"])
             m == About(meta[s], Version(s))
  <2>1. /\ m \in MetaType /\ m.loginAlerted = meta[s].loginAlerted
        /\ m.staleAlerted = meta[s].staleAlerted
    BY <1>types, AboutKeepsAlerts
  <2>2. /\ meta' = [meta EXCEPT ![s] =
                      [m EXCEPT !.validation = result, !.expired = FALSE,
                                !.loginAlerted = @ \/ alert]]
        /\ op' = Held("observe", s, None, IF alert THEN "alert" ELSE "answer")
        /\ UNCHANGED alerts
    BY <1>4 DEF Report, Judged
  <2>3. alert => meta[s].loginAlerted = FALSE
    BY <1>types DEF MetaType
  <2> HIDE DEF m, alert
  <2>4. /\ meta'[s].staleAlerted = meta[s].staleAlerted
        /\ meta'[s].loginAlerted <=> meta[s].loginAlerted \/ alert
        /\ \A t \in Source : t # s => meta'[t] = meta[t]
    <3>1. LET new == [m EXCEPT !.validation = result, !.expired = FALSE,
                               !.loginAlerted = m.loginAlerted \/ alert]
          IN  /\ new.staleAlerted = m.staleAlerted
              /\ new.loginAlerted = (m.loginAlerted \/ alert)
      BY <2>1 DEF MetaType
    <3> QED BY <2>1, <2>2, <3>1, <1>types
  <2>5. op'.at = "observe" /\ op'.source = s /\ (op'.then = "alert" => alert)
    BY <2>2 DEF Held, Handler
  <2> QED BY <2>2, <2>3, <2>4, <2>5 DEF AlertIsReserved
<1>5. CASE Observe
  <2>1. op.source \in Source /\ op.at = "observe" /\ meta' = meta
        /\ op'.at \in {"reserve", "idle"}
    BY <1>5 DEF Observe, TypeOK, HandlerOK, Idle, Held, Handler
  <2>2. CASE op.then = "alert"
    <3>1. alerts' = [alerts EXCEPT ![op.source]["login_invalid"] = @ + 1]
      BY <1>5, <2>2 DEF Observe
    <3>2. /\ alerts'[op.source]["login_invalid"]
               = alerts[op.source]["login_invalid"] + 1
          /\ alerts'[op.source]["snapshot_stale"]
               = alerts[op.source]["snapshot_stale"]
          /\ \A t \in Source : t # op.source => alerts'[t] = alerts[t]
      BY <2>1, <3>1, <1>types DEF AlertKinds
    <3> QED BY <2>1, <2>2, <3>2 DEF AlertIsReserved
  <2>3. CASE op.then # "alert"
    BY <1>5, <2>1, <2>3, <1>calm DEF Observe
  <2> QED BY <2>2, <2>3
\* So is that of stale cookies.
<1>6. CASE ReserveStale
  <2>1. op.source \in Source /\ ~meta[op.source].staleAlerted
        /\ op'.at = "idle"
    BY <1>6, HeldFor DEF ReserveStale, ReservesStaleAlert, TypeOK, HandlerOK
  <2>2. /\ meta' = [meta EXCEPT ![op.source].staleAlerted = TRUE]
        /\ alerts' = [alerts EXCEPT ![op.source]["snapshot_stale"] = @ + 1]
    BY <1>6 DEF ReserveStale
  <2>3. /\ meta'[op.source].staleAlerted = TRUE
        /\ meta'[op.source].loginAlerted = meta[op.source].loginAlerted
        /\ \A t \in Source : t # op.source => meta'[t] = meta[t]
    BY <2>1, <2>2, <1>types DEF MetaType
  <2>4. /\ alerts'[op.source]["snapshot_stale"]
             = alerts[op.source]["snapshot_stale"] + 1
        /\ alerts'[op.source]["login_invalid"]
             = alerts[op.source]["login_invalid"]
        /\ \A t \in Source : t # op.source => alerts'[t] = alerts[t]
    BY <2>1, <2>2, <1>types DEF AlertKinds
  <2> QED BY <2>1, <2>3, <2>4 DEF AlertIsReserved
\* The cooldown of one kind ends: nobody is about to send an alert.
<1>7. ASSUME NEW s \in Source, NEW kind \in AlertKinds, CooldownEnds(s, kind)
      PROVE  AlertIsReserved'
  <2>1. op'.at = "idle" /\ alerts' = [alerts EXCEPT ![s][kind] = 0]
    BY <1>7, HeldFor DEF CooldownEnds
  <2>2. /\ \A t \in Source : t # s => alerts'[t] = alerts[t]
        /\ \A k \in AlertKinds :
             alerts'[s][k] = IF k = kind THEN 0 ELSE alerts[s][k]
    BY <2>1, <1>types
  <2>3. CASE /\ kind = "login_invalid"
             /\ meta' = [meta EXCEPT ![s].loginAlerted = FALSE]
    <3>1. /\ \A t \in Source : t # s => meta'[t] = meta[t]
          /\ meta'[s].staleAlerted = meta[s].staleAlerted
      BY <2>3, <1>types DEF MetaType
    <3> QED BY <2>1, <2>2, <2>3, <3>1 DEF AlertIsReserved, AlertKinds
  <2>4. CASE /\ kind = "snapshot_stale"
             /\ meta' = [meta EXCEPT ![s].staleAlerted = FALSE]
    <3>1. /\ \A t \in Source : t # s => meta'[t] = meta[t]
          /\ meta'[s].loginAlerted = meta[s].loginAlerted
      BY <2>4, <1>types DEF MetaType
    <3> QED BY <2>1, <2>2, <2>4, <3>1 DEF AlertIsReserved, AlertKinds
  <2> QED BY <1>7, <2>3, <2>4 DEF CooldownEnds
<1>8. ASSUME NEW s \in Source, CookiesAge(s) \/ VerdictExpires(s)
      PROVE  AlertIsReserved'
  <2>1. \/ \E seen : meta' = [meta EXCEPT ![s].seen = seen]
        \/ meta' = [meta EXCEPT ![s].expired = TRUE]
    BY <1>8 DEF CookiesAge, VerdictExpires
  <2>2. \A t \in Source : /\ meta'[t].loginAlerted = meta[t].loginAlerted
                          /\ meta'[t].staleAlerted = meta[t].staleAlerted
    <3>1. \A m \in MetaType : \A x :
            /\ [m EXCEPT !.seen = x].loginAlerted = m.loginAlerted
            /\ [m EXCEPT !.seen = x].staleAlerted = m.staleAlerted
            /\ [m EXCEPT !.expired = x].loginAlerted = m.loginAlerted
            /\ [m EXCEPT !.expired = x].staleAlerted = m.staleAlerted
      BY DEF MetaType
    <3>2. ASSUME NEW x, meta' = [meta EXCEPT ![s].seen = x]
          PROVE  \A t \in Source :
                   /\ meta'[t].loginAlerted = meta[t].loginAlerted
                   /\ meta'[t].staleAlerted = meta[t].staleAlerted
      BY <1>types, <3>1, <3>2
    <3>3. CASE meta' = [meta EXCEPT ![s].expired = TRUE]
      BY <1>types, <3>1, <3>3
    <3> QED BY <2>1, <3>2, <3>3
  <2> QED BY <1>8, <2>2, <1>calm DEF CookiesAge, VerdictExpires
\* All else leaves the alerts alone.
<1>9. CASE UNCHANGED vars
  BY <1>9, <1>calm DEF vars
<1>10. CASE SkipStale \/ FlushNotify \/ WriteFails \/ Crash \/ Restart
  BY <1>10, <1>calm, HeldFor DEF SkipStale, FlushNotify, WriteFails, Crash,
     Restart
<1>11. CASE ForgetIncidents \/ PublishSources \/ AdoptSources \/ ClearChanged
  <2>1. op'.at \notin {"observe", "meta"}
    <3>1. \A stage : [op EXCEPT !.at = stage].at = stage
      BY DEF TypeOK, HandlerOK, OpType
    <3>2. CASE ForgetIncidents \/ PublishSources
      BY <3>1, <3>2 DEF ForgetIncidents, PublishSources
    <3>3. CASE AdoptSources
      BY <3>3, HeldFor DEF AdoptSources
    <3>4. CASE ClearChanged
      BY <3>4 DEF ClearChanged, Replacing, Handler
    <3> QED BY <1>11, <3>2, <3>3, <3>4
  <2> QED BY <1>11, <2>1, <1>calm DEF ForgetIncidents, PublishSources,
     AdoptSources, ClearChanged
<1>12. ASSUME NEW s \in Source, ForgetHealth(s) PROVE AlertIsReserved'
  <2>1. op'.at \notin {"observe", "meta"}
    BY <1>12 DEF ForgetHealth, TypeOK, HandlerOK, OpType
  <2> QED BY <1>12, <2>1, <1>calm DEF ForgetHealth
<1>13. ASSUME NEW s \in Source,
              \/ \E kind \in Kinds, action \in Disposals :
                   IncidentAction(s, kind, action)
              \/ \E kind \in Kinds : SnoozeEnds(s, kind)
              \/ \E r \in RequestId, jar \in Contents : Prepare(r, s, jar)
       PROVE  AlertIsReserved'
  BY <1>13, <1>calm DEF IncidentAction, SnoozeEnds, Prepare
<1>14. ASSUME \/ \E named \in HealthNames : AcceptHealth(named)
              \/ \E s \in Monitored : Scan(s)
              \/ \E s \in Source : ClearAndPause(s)
              \/ \E new \in Policy : ReplaceSources(new)
       PROVE  AlertIsReserved'
  <2>1. \/ UNCHANGED op
        \/ op'.at \notin {"observe", "meta"} \/ op'.then # "alert"
    <3>1. CASE \E named \in HealthNames : AcceptHealth(named)
      BY <3>1 DEF AcceptHealth
    <3>2. CASE \E s \in Monitored : Scan(s)
      BY <3>2 DEF Scan, Held, Handler
    <3>3. ASSUME NEW new, NEW pending, op' = Replacing(new, pending)
          PROVE  op'.then # "alert"
      BY <3>3 DEF Replacing, Handler
    <3>4. CASE \E s \in Source : ClearAndPause(s)
      BY <3>3, <3>4 DEF ClearAndPause
    <3>5. CASE \E new \in Policy : ReplaceSources(new)
      BY <3>3, <3>5 DEF ReplaceSources
    <3> QED BY <1>14, <3>1, <3>2, <3>4, <3>5
  <2> QED BY <1>14, <2>1, <1>calm
          DEF AcceptHealth, Scan, ClearAndPause, ReplaceSources
<1> QED BY <1>1, <1>2, <1>3, <1>4, <1>5, <1>6, <1>7, <1>8, <1>9, <1>10, <1>11,
           <1>12, <1>13, <1>14
        DEF Next, HandlerStep, TimePasses

\* Alerts of one kind about a source keep to their cooldown over new snapshots,
\* new configurations, failed writes and restarts (sync_state.py).
THEOREM AlertsKeepTheCooldown == Spec => []AlertsWithinCooldown
<1>1. Init => TypeOK /\ AlertIsReserved
  BY InitTyped, InitAlerts
<1>2. TypeOK /\ AlertIsReserved /\ [Next]_vars => (TypeOK /\ AlertIsReserved)'
  BY NextTyped, NextAlerts
<1>3. AlertIsReserved => AlertsWithinCooldown
  BY DEF AlertIsReserved, AlertsWithinCooldown, AlertKinds
<1> QED BY <1>1, <1>2, <1>3, PTL DEF Spec

-----------------------------------------------------------------------------
(* An invalid login outlasts all but other cookies that work *)

\* IncidentStore.observe drops an invalid login only on another, valid version.
LEMMA LoginDropped ==
  ASSUME NEW e \in Entry \cup {NoEntry}, e # NoEntry, NEW st,
         ObserveEntry("login_invalid", e, st) = NoEntry
  PROVE  st.validation = "valid" /\ st.version # e.version
<1>1. e \in Entry
  OBVIOUS
<1>2. Recovered("login_invalid", e, st)
  <2> SUFFICES ASSUME ~Recovered("login_invalid", e, st) PROVE FALSE
    OBVIOUS
  <2>1. Continued("login_invalid", e, st) = NoEntry
    BY DEF ObserveEntry
  <2>2. Continued("login_invalid", e, st).status \in Dispositions
    BY <1>1 DEF Continued, Entry, Carried, Dispositions
  <2> QED BY <2>1, <2>2 DEF NoEntry, Dispositions
<1> QED BY <1>2 DEF Recovered

\* An entry is an entry, also when its snooze is over.
LEMMA EntryStays ==
  ASSUME NEW e \in Entry
  PROVE  e # NoEntry /\ [e EXCEPT !.snooze = "over"] \in Entry
BY DEF Entry, NoEntry, Dispositions, Snooze

\* The file is rewritten for one source; of the others it keeps what still
\* counts.
LEMMA RewriteKeeps ==
  ASSUME TypeOK, NEW s \in Source, NEW new, RewriteIncidents(s, new)
  PROVE  /\ incidents'[s] = new
         /\ \A t \in Source : t # s =>
              incidents'[t] = Loaded(t) /\ Loaded(t) \in {incidents[t], NoIncidents}
BY DEF RewriteIncidents, Loaded

\* What is filed about a source after a change to one entry.
LEMMA OneEntry ==
  ASSUME NEW filed \in IncidentsType, NEW kind \in Kinds, NEW e
  PROVE  LET new == [filed EXCEPT !.active[kind] = e]
         IN  /\ new.filedUnder = filed.filedUnder
             /\ \A k \in Kinds :
                  new.active[k] = IF k = kind THEN e ELSE filed.active[k]
BY DEF IncidentsType

\* The end of a snooze changes one entry, which is there before and after.
LEMMA SnoozeEndsOne ==
  ASSUME TypeOK, NEW t \in Source, NEW kind \in Kinds, SnoozeEnds(t, kind)
  PROVE  /\ \A s \in Source : s # t => incidents'[s] = incidents[s]
         /\ incidents'[t].filedUnder = incidents[t].filedUnder
         /\ \A k \in Kinds : k # kind =>
              incidents'[t].active[k] = incidents[t].active[k]
         /\ incidents[t].active[kind] # NoEntry
         /\ incidents'[t].active[kind] # NoEntry
<1> DEFINE e == incidents[t].active[kind]
           over == [e EXCEPT !.snooze = "over"]
<1>1. incidents[t] \in IncidentsType /\ incidents \in [Source -> IncidentsType]
  BY DEF TypeOK, FilesOK
<1>2. e # NoEntry
  BY DEF SnoozeEnds, NoEntry
<1>3. e \in Entry
  BY <1>1, <1>2 DEF IncidentsType
<1>4. over # NoEntry
  BY <1>3, EntryStays
<1>5. incidents' = [incidents EXCEPT
                      ![t] = [incidents[t] EXCEPT !.active[kind] = over]]
  BY DEF SnoozeEnds
<1> HIDE DEF over
<1> QED BY <1>1, <1>2, <1>4, <1>5, OneEntry

\* Who rewrites the incidents.
LEMMA IncidentSteps ==
  ASSUME [Next]_vars
  PROVE  \/ Observe \/ ForgetIncidents
         \/ \E s \in Source, kind \in Kinds, action \in Disposals :
              IncidentAction(s, kind, action)
         \/ \E s \in Source, kind \in Kinds : SnoozeEnds(s, kind)
         \/ UNCHANGED incidents
<1> USE ConstantsAssumption DEF memory, durable
<1>1. CASE \/ WriteMeta \/ ReserveStale \/ SkipStale \/ ClearChanged
           \/ PublishSources \/ AdoptSources \/ FlushNotify \/ WriteFails
           \/ Crash \/ Restart \/ UNCHANGED vars
  BY <1>1 DEF WriteMeta, ReserveStale, SkipStale, ClearChanged, PublishSources,
     AdoptSources, FlushNotify, WriteFails, Crash, Restart, vars
<1>2. ASSUME \/ \E r \in RequestId, s \in Source, jar \in Contents :
                  Prepare(r, s, jar)
             \/ \E r \in RequestId : IngestNew(r) \/ IngestSame(r)
             \/ \E s \in Source, v \in 1..lastVersion, result \in Verdicts :
                  Report(s, v, result)
             \/ \E named \in HealthNames : AcceptHealth(named)
             \/ \E s \in Monitored : Scan(s)
             \/ \E s \in Source : ClearAndPause(s) \/ ForgetHealth(s)
             \/ \E new \in Policy : ReplaceSources(new)
             \/ \E s \in Source : CookiesAge(s) \/ VerdictExpires(s)
             \/ \E s \in Source, kind \in AlertKinds : CooldownEnds(s, kind)
      PROVE  UNCHANGED incidents
  BY <1>2 DEF Prepare, IngestNew, IngestSame, Report, AcceptHealth, Scan,
     ClearAndPause, ForgetHealth, ReplaceSources, CookiesAge, VerdictExpires,
     CooldownEnds
<1>3. CASE Next
  BY <1>1, <1>2, <1>3 DEF Next, HandlerStep, TimePasses
<1> QED BY <1>1, <1>3

LEMMA LoginStays ==
  ASSUME TypeOK, [Next]_vars, NEW s \in Source,
         Loaded(s).active["login_invalid"] # NoEntry,
         sources'[s] = sources[s], op.at # "forget incidents",
         Loaded(s)'.active["login_invalid"] = NoEntry
  PROVE  /\ ReportedResult(s) = "valid"
         /\ Version(s) # Loaded(s).active["login_invalid"].version
<1> USE ConstantsAssumption DEF memory, durable
<1> DEFINE e == Loaded(s).active["login_invalid"]
<1>filed. /\ incidents[s].filedUnder = sources[s] /\ Loaded(s) = incidents[s]
          /\ "login_invalid" \in Kinds /\ e \in Entry
          /\ incidents[s] \in IncidentsType
  <2>1. "login_invalid" \in Kinds
    BY DEF Kinds
  <2>2. incidents[s].filedUnder = sources[s]
    BY <2>1 DEF Loaded, NoIncidents
  <2>3. Loaded(s) = incidents[s] /\ incidents[s] \in IncidentsType
    BY <2>2 DEF Loaded, TypeOK, FilesOK
  <2>4. e \in Entry
    BY <2>1, <2>3 DEF IncidentsType
  <2> QED BY <2>1, <2>2, <2>3, <2>4
\* It is enough that the entry stays on file under the same policy.
<1>stays. ASSUME incidents'[s].filedUnder = sources[s],
                 incidents'[s].active["login_invalid"] # NoEntry
          PROVE  FALSE
  BY <1>stays DEF Loaded
<1>1. ASSUME UNCHANGED incidents PROVE FALSE
  BY <1>1, <1>filed, <1>stays
<1>rewrites. ASSUME NEW t \in Source, t # s, NEW new, RewriteIncidents(t, new)
             PROVE  FALSE
  BY <1>rewrites, <1>filed, <1>stays, RewriteKeeps
<1>2. CASE Observe
  <2>1. op.source \in Source
    BY <1>2 DEF Observe, TypeOK, HandlerOK
  <2>2. RewriteIncidents(op.source, Observed(op.source)) /\ op.source = s
    BY <1>1, <1>2, <1>rewrites, <2>1 DEF Observe
  <2>3. incidents'[s] = Observed(s)
    BY <2>2, RewriteKeeps
  <2>4. ObserveEntry("login_invalid", e, Status(s)) = NoEntry
    <3>1. /\ Observed(s).filedUnder = sources[s]
          /\ Observed(s).active["login_invalid"]
               = ObserveEntry("login_invalid", e, Status(s))
      BY <1>filed DEF Observed
    <3> QED BY <2>3, <3>1, <1>stays
  <2>5. Status(s).validation = "valid" /\ Status(s).version # e.version
    BY <2>4, <1>filed, LoginDropped
  <2> QED BY <2>5 DEF Status, Validation
<1>3. ASSUME NEW t \in Source, NEW kind \in Kinds, NEW action \in Disposals,
             IncidentAction(t, kind, action)
      PROVE  FALSE
  <2> DEFINE new == [Loaded(t) EXCEPT
                       !.active[kind] = Disposed(Loaded(t).active[kind], action)]
  <2>1. RewriteIncidents(t, new) /\ Loaded(t).active[kind] # NoEntry
    BY <1>3 DEF IncidentAction
  <2> HIDE DEF new
  <2>same. t = s
    BY <1>rewrites, <2>1
  <2>2. Loaded(s).active[kind] \in Entry
    BY <2>1, <2>same, <1>filed DEF IncidentsType
  <2>3. Disposed(Loaded(s).active[kind], action) # NoEntry
    BY <2>2, DisposedTyped, EntryStays
  <2>4. incidents'[s] = [Loaded(s) EXCEPT
                           !.active[kind] = Disposed(Loaded(s).active[kind],
                                                     action)]
    BY <2>1, <2>same, RewriteKeeps DEF new
  <2>5. /\ incidents'[s].filedUnder = Loaded(s).filedUnder
        /\ incidents'[s].active["login_invalid"]
             = IF "login_invalid" = kind
               THEN Disposed(Loaded(s).active[kind], action)
               ELSE Loaded(s).active["login_invalid"]
    <3>1. Loaded(s) \in IncidentsType /\ "login_invalid" \in Kinds
      BY <1>filed
    <3>2. PICK filed \in IncidentsType : filed = Loaded(s)
      BY <3>1
    <3>3. PICK d : d = Disposed(Loaded(s).active[kind], action)
      OBVIOUS
    <3>4. incidents'[s] = [filed EXCEPT !.active[kind] = d]
      BY <2>4, <3>2, <3>3
    <3>5. /\ [filed EXCEPT !.active[kind] = d].filedUnder = filed.filedUnder
          /\ \A k \in Kinds : [filed EXCEPT !.active[kind] = d].active[k]
               = IF k = kind THEN d ELSE filed.active[k]
      BY DEF IncidentsType
    <3> QED BY <3>1, <3>2, <3>3, <3>4, <3>5
  <2> QED BY <2>3, <2>5, <1>filed, <1>stays
<1>4. ASSUME NEW t \in Source, NEW kind \in Kinds, SnoozeEnds(t, kind)
      PROVE  FALSE
  <2>1. /\ incidents'[s].filedUnder = incidents[s].filedUnder
        /\ incidents'[s].active["login_invalid"] # NoEntry
    <3>1. "login_invalid" \in Kinds
          /\ incidents[s].active["login_invalid"] # NoEntry
      BY <1>filed
    <3>2. CASE t # s
      BY <1>4, <3>1, <3>2, SnoozeEndsOne
    <3>3. CASE t = s
      BY <1>4, <3>1, <3>3, SnoozeEndsOne
    <3> QED BY <3>2, <3>3
  <2> QED BY <2>1, <1>filed, <1>stays
<1>5. CASE ForgetIncidents
  BY <1>5 DEF ForgetIncidents
<1> QED BY <1>1, <1>2, <1>3, <1>4, <1>5, IncidentSteps

\* Only other cookies that the crawler found valid take an invalid login off the
\* list while its policy stands (incidents.py, observe).
THEOREM InvalidLoginOutlasts == Spec => LoginIncidentOutlasts
<1>1. TypeOK /\ [Next]_vars =>
        [\A s \in Source :
           LET e == Loaded(s).active["login_invalid"]
           IN  (/\ e # NoEntry /\ sources'[s] = sources[s]
                /\ op.at # "forget incidents"
                /\ Loaded(s)'.active["login_invalid"] = NoEntry)
               => /\ ReportedResult(s) = "valid"
                  /\ Version(s) # e.version]_vars
  BY LoginStays
<1> QED BY <1>1, TypeCorrect, PTL DEF Spec, LoginIncidentOutlasts

-----------------------------------------------------------------------------
(* A policy that is left takes with it what was filed under it *)

\* A step of a push, a report, a scan or a failure files nothing.
LEMMA QuietFiles ==
  ASSUME FiledUnderPolicy,
         UNCHANGED <<sources, sourcesFile, incidents, health>>,
         op'.at \in Quiet,
         op'.at \in {"meta", "observe"} => sources[op'.source] # None
  PROVE  FiledUnderPolicy'
BY DEF FiledUnderPolicy, Forgotten, Quiet

\* Neither does one that leaves the lock alone.
LEMMA SameFiles ==
  ASSUME FiledUnderPolicy,
         UNCHANGED <<sources, sourcesFile, incidents, health, op>>
  PROVE  FiledUnderPolicy'
BY DEF FiledUnderPolicy, Forgotten

\* While the file agrees with memory, a step outside a replacement may file
\* what is filed under the policy.
LEMMA FiledNow ==
  ASSUME sources = sourcesFile, UNCHANGED <<sources, sourcesFile>>,
         op'.at \in Quiet,
         op'.at \in {"meta", "observe"} => sources[op'.source] # None,
         \A s \in Source :
           /\ health'[s] \in {None, sources[s]}
           /\ \/ \A k \in Kinds : incidents'[s].active[k] = NoEntry
              \/ sources[s] # None /\ incidents'[s].filedUnder = sources[s]
  PROVE  FiledUnderPolicy'
BY DEF FiledUnderPolicy, Quiet

\* A replacement that begins has every source ahead of it that it changes, and
\* nothing is on file about a source that is not configured.
LEMMA ReplacementFiles ==
  ASSUME FiledUnderPolicy, TypeOK,
         UNCHANGED <<sources, sourcesFile, incidents, health>>,
         NEW new \in Policy, op' = Replacing(new, Changed(new))
  PROVE  FiledUnderPolicy'
<1>1. /\ op'.at \in {"publish", "forget health"}
      /\ op'.pending = Changed(new) /\ op'.policy = new
  BY DEF Replacing, Handler
<1>2. \A s \in Source : \/ op'.policy[s] = sources[s] \/ s \in op'.pending
                        \/ Forgotten(s)
  BY <1>1 DEF Changed, FiledUnderPolicy, Forgotten
<1> QED BY <1>1, <1>2 DEF FiledUnderPolicy, Forgotten

\* Rewriting the file for one source keeps what is filed about the others.
LEMMA RewriteFiles ==
  ASSUME TypeOK, FiledUnderPolicy, NEW s \in Source, NEW new,
         RewriteIncidents(s, new), NEW t \in Source, t # s
  PROVE  /\ \/ \A k \in Kinds : incidents'[t].active[k] = NoEntry
            \/ sources[t] # None /\ incidents'[t].filedUnder = sources[t]
         /\ Forgotten(t) /\ health'[t] = None => Forgotten(t)'
<1>1. incidents'[t] \in {incidents[t], NoIncidents}
  BY RewriteKeeps
<1>2. \A k \in Kinds : NoIncidents.active[k] = NoEntry
  BY DEF NoIncidents
<1> QED BY <1>1, <1>2 DEF FiledUnderPolicy, Forgotten

LEMMA InitFiles == Init => FiledUnderPolicy
<1> SUFFICES ASSUME Init PROVE FiledUnderPolicy
  OBVIOUS
<1>1. op.at = "idle" /\ sources = sourcesFile
  BY IdleTyped DEF Init
<1>2. \A s \in Source : /\ health[s] = None
                        /\ \A k \in Kinds : incidents[s].active[k] = NoEntry
  BY DEF Init, NoIncidents
<1> QED BY <1>1, <1>2 DEF FiledUnderPolicy

LEMMA NextFiles ==
  TypeOK /\ Matching /\ FiledUnderPolicy /\ [Next]_vars => FiledUnderPolicy'
<1> SUFFICES ASSUME TypeOK, Matching, FiledUnderPolicy, [Next]_vars
             PROVE  FiledUnderPolicy'
  OBVIOUS
<1> USE DEF memory, durable
<1>held. ASSUME NEW stage \in {"meta", "observe", "reserve"},
                NEW s, NEW r, NEW then, op' = Held(stage, s, r, then),
                sources[s] # None
         PROVE  /\ op'.at \in Quiet
                /\ op'.at \in {"meta", "observe"} => sources[op'.source] # None
  BY <1>held DEF Held, Handler, Quiet
<1>idle. ASSUME op' = Idle
         PROVE  op'.at \in Quiet /\ op'.at \notin {"meta", "observe"}
  BY <1>idle, IdleTyped DEF Quiet
<1>free. ASSUME Free PROVE sources = sourcesFile /\ op.at = "idle"
  BY <1>free, IdleTyped DEF Free, Matching, ReplacementInProgress
<1>1. ASSUME NEW r \in RequestId, IngestNew(r) \/ IngestSame(r)
      PROVE  FiledUnderPolicy'
  <2>1. sources[sent[r].source] # None
    BY <1>1 DEF IngestNew, IngestSame, Accepted, Enabled
  <2> QED BY <1>1, <2>1, <1>held, QuietFiles DEF IngestNew, IngestSame
<1>2. ASSUME NEW s \in Source,
             \/ Scan(s)
             \/ \E v \in 1..lastVersion, result \in Verdicts : Report(s, v, result)
      PROVE  FiledUnderPolicy'
  <2>1. /\ UNCHANGED <<sources, sourcesFile, incidents, health>>
        /\ sources[s] # None
    BY <1>2 DEF Scan, Report, Enabled
  <2>2. \E then : op' = Held("observe", s, None, then)
    BY <1>2 DEF Scan, Report
  <2> QED BY <2>1, <2>2, <1>held, QuietFiles
<1>3. CASE WriteMeta
  <2>1. sources[op.source] # None
    BY <1>3 DEF WriteMeta, FiledUnderPolicy
  <2> QED BY <1>3, <2>1, <1>held, QuietFiles DEF WriteMeta
<1>4. CASE ReserveStale \/ SkipStale \/ WriteFails \/ Crash
  BY <1>4, <1>idle, QuietFiles DEF ReserveStale, SkipStale, WriteFails, Crash
<1>5. CASE FlushNotify \/ UNCHANGED vars
  BY <1>5, SameFiles DEF FlushNotify, vars
<1>6. ASSUME NEW s \in Source,
             \/ \E r \in RequestId, jar \in Contents : Prepare(r, s, jar)
             \/ CookiesAge(s) \/ VerdictExpires(s)
             \/ \E kind \in AlertKinds : CooldownEnds(s, kind)
      PROVE  FiledUnderPolicy'
  BY <1>6, SameFiles DEF Prepare, CookiesAge, VerdictExpires, CooldownEnds
\* An observation and an operator file under the policy of the source.
<1>7. CASE Observe
  <2> DEFINE s == op.source
  <2>1. s \in Source /\ sources[s] # None /\ sources = sourcesFile
    BY <1>7, IdleTyped DEF Observe, TypeOK, HandlerOK, FiledUnderPolicy, Matching,
       ReplacementInProgress
  <2>2. op'.at \in Quiet /\ op'.at \notin {"meta", "observe"}
    <3>1. op' = Idle \/ op' = Held("reserve", s, None, "answer")
      BY <1>7 DEF Observe
    <3> QED BY <3>1, <1>idle DEF Held, Handler, Quiet
  <2>3. ASSUME NEW t \in Source
        PROVE  \/ \A k \in Kinds : incidents'[t].active[k] = NoEntry
               \/ sources[t] # None /\ incidents'[t].filedUnder = sources[t]
    <3>1. CASE UNCHANGED incidents
      BY <3>1 DEF FiledUnderPolicy
    <3>2. CASE RewriteIncidents(s, Observed(s)) /\ t # s
      BY <2>1, <3>2, RewriteFiles
    <3>3. CASE RewriteIncidents(s, Observed(s)) /\ t = s
      BY <2>1, <3>3, RewriteKeeps DEF Observed
    <3> QED BY <1>7, <3>1, <3>2, <3>3 DEF Observe
  <2>4. /\ UNCHANGED <<sources, sourcesFile, health>>
        /\ \A t \in Source : health[t] \in {None, sources[t]}
    BY <1>7 DEF Observe, FiledUnderPolicy
  <2> QED BY <2>1, <2>2, <2>3, <2>4, FiledNow
<1>8. ASSUME NEW s \in Source, NEW kind \in Kinds, NEW action \in Disposals,
             IncidentAction(s, kind, action)
      PROVE  FiledUnderPolicy'
  <2>1. PICK d : RewriteIncidents(s, [Loaded(s) EXCEPT !.active[kind] = d])
    BY <1>8 DEF IncidentAction
  <2>2. incidents[s].filedUnder = sources[s]
    BY <1>8 DEF IncidentAction, Loaded, NoIncidents
  <2>3. /\ sources = sourcesFile /\ sources[s] # None /\ op'.at = "idle"
        /\ UNCHANGED <<sources, sourcesFile, health>>
        /\ \A t \in Source : health[t] \in {None, sources[t]}
    BY <1>8, <1>free DEF IncidentAction, FiledUnderPolicy
  <2>4. incidents'[s].filedUnder = sources[s]
    <3>1. PICK filed \in IncidentsType : filed = Loaded(s)
      BY LoadedTyped
    <3>2. incidents'[s] = [filed EXCEPT !.active[kind] = d]
      BY <2>1, <3>1, RewriteKeeps
    <3>3. [filed EXCEPT !.active[kind] = d].filedUnder = filed.filedUnder
      BY DEF IncidentsType
    <3> QED BY <2>2, <3>1, <3>2, <3>3 DEF Loaded
  <2>5. \A t \in Source : t # s =>
          \/ \A k \in Kinds : incidents'[t].active[k] = NoEntry
          \/ sources[t] # None /\ incidents'[t].filedUnder = sources[t]
    BY <2>1, RewriteFiles
  <2> QED BY <2>3, <2>4, <2>5, FiledNow DEF Quiet
<1>9. ASSUME NEW named \in HealthNames, AcceptHealth(named)
      PROVE  FiledUnderPolicy'
  <2>1. /\ sources = sourcesFile /\ op'.at = "idle"
        /\ UNCHANGED <<sources, sourcesFile, incidents>>
    BY <1>9, <1>free DEF AcceptHealth
  <2>2. \A t \in Source : health'[t] \in {None, sources[t]}
    BY <1>9 DEF AcceptHealth
  <2> QED BY <2>1, <2>2, FiledNow DEF Quiet, FiledUnderPolicy
<1>10. ASSUME NEW s \in Source, NEW kind \in Kinds, SnoozeEnds(s, kind)
       PROVE  FiledUnderPolicy'
  <2>1. /\ UNCHANGED <<sources, sourcesFile, health, op>>
        /\ incidents[s].active[kind] # NoEntry
    BY <1>10, SnoozeEndsOne DEF SnoozeEnds
  <2>2. \A t \in Source : t # s => incidents'[t] = incidents[t]
    BY <1>10, SnoozeEndsOne
  <2>3. incidents'[s].filedUnder = incidents[s].filedUnder
    BY <1>10, SnoozeEndsOne
  <2>4. \A t \in Source : Forgotten(t) => t # s /\ Forgotten(t)'
    BY <2>1, <2>2 DEF Forgotten
  <2>5. ASSUME NEW t \in Source
        PROVE  \/ \A k \in Kinds : incidents'[t].active[k] = NoEntry
               \/ sources[t] # None /\ incidents'[t].filedUnder = sources[t]
    <3>1. CASE t = s
      <4>1. sources[s] # None /\ incidents[s].filedUnder = sources[s]
        BY <2>1 DEF FiledUnderPolicy
      <4> QED BY <2>3, <3>1, <4>1
    <3>2. CASE t # s
      BY <2>2, <3>2 DEF FiledUnderPolicy
    <3> QED BY <3>1, <3>2
  <2>6. op.at = "clear" => op.source \in Source
    BY DEF TypeOK, HandlerOK, OpType
  <2> QED BY <2>1, <2>4, <2>5, <2>6 DEF FiledUnderPolicy
\* A replacement: each source is forgotten before it passes on.
<1>11. ASSUME NEW new \in Policy, ReplaceSources(new) PROVE FiledUnderPolicy'
  BY <1>11, ReplacementFiles DEF ReplaceSources
<1>12. ASSUME NEW s \in Source, ClearAndPause(s) PROVE FiledUnderPolicy'
  <2> DEFINE paused == [sources EXCEPT ![s] = [@ EXCEPT !.enabled = FALSE]]
  <2>1. paused \in Policy
    <3>1. sources \in Policy /\ sources[s] \in SourceSpec
      BY <1>12 DEF ClearAndPause, TypeOK, Policy
    <3>2. [sources[s] EXCEPT !.enabled = FALSE] \in SourceSpec
      BY <3>1 DEF SourceSpec
    <3> QED BY <3>1, <3>2 DEF Policy
  <2>2. /\ op' = Replacing(paused, Changed(paused))
        /\ UNCHANGED <<sources, sourcesFile, incidents, health>>
    BY <1>12 DEF ClearAndPause
  <2> HIDE DEF paused
  <2> QED BY <2>1, <2>2, ReplacementFiles
<1>13. ASSUME NEW s \in Source, ForgetHealth(s) PROVE FiledUnderPolicy'
  <2>1. /\ op.at = "forget health" /\ s \in op.pending
        /\ op'.at = "forget incidents" /\ op'.source = s
        /\ op'.pending = op.pending /\ op'.policy = op.policy
    BY <1>13 DEF ForgetHealth, TypeOK, HandlerOK, OpType
  <2>2. /\ UNCHANGED <<sources, sourcesFile, incidents>>
        /\ health' = [health EXCEPT ![s] = None]
        /\ health \in [Source -> SourceSpec \cup {None}]
    BY <1>13 DEF ForgetHealth, TypeOK, FilesOK
  <2>3. /\ health'[s] = None
        /\ \A t \in Source : health'[t] \in {health[t], None}
    BY <2>2
  <2>4. \A t \in Source : Forgotten(t) => Forgotten(t)'
    BY <2>2, <2>3 DEF Forgotten
  <2> QED BY <2>1, <2>2, <2>3, <2>4 DEF FiledUnderPolicy
<1>14. CASE ForgetIncidents
  <2>0. PICK s : s = op.source
    OBVIOUS
  <2>1. /\ op.at = "forget incidents" /\ s \in op.pending /\ s \in Source
        /\ op'.at = "clear" /\ op'.source = s
        /\ op'.pending = op.pending /\ op'.policy = op.policy
    BY <1>14, <2>0 DEF ForgetIncidents, TypeOK, HandlerOK, OpType
  <2>2. /\ UNCHANGED <<sources, sourcesFile, health>> /\ health[s] = None
        /\ RewriteIncidents(s, NoIncidents)
    BY <1>14, <2>0, <2>1 DEF ForgetIncidents, FiledUnderPolicy
  <2>3. Forgotten(s)'
    <3>1. incidents'[s] = NoIncidents
      BY <2>1, <2>2, RewriteKeeps
    <3>2. \A k \in Kinds : NoIncidents.active[k] = NoEntry
      BY DEF NoIncidents
    <3> QED BY <2>2, <3>1, <3>2 DEF Forgotten
  <2>4. \A t \in Source : Forgotten(t) => Forgotten(t)'
    <3>1. \A t \in Source : t # s /\ Forgotten(t) => health'[t] = None
      BY <2>2 DEF Forgotten
    <3> QED BY <2>1, <2>2, <2>3, <3>1, RewriteFiles
  <2>5. ASSUME NEW t \in Source
        PROVE  \/ \A k \in Kinds : incidents'[t].active[k] = NoEntry
               \/ sources[t] # None /\ incidents'[t].filedUnder = sources[t]
    <3>1. CASE t = s
      BY <2>3, <3>1 DEF Forgotten
    <3>2. CASE t # s
      BY <2>1, <2>2, <3>2, RewriteFiles
    <3> QED BY <3>1, <3>2
  <2> QED BY <2>1, <2>2, <2>3, <2>4, <2>5 DEF FiledUnderPolicy
<1>15. CASE ClearChanged
  <2> DEFINE s == op.source
  <2>1. /\ op.at = "clear" /\ Forgotten(s)
        /\ op'.at \in {"publish", "forget health"}
        /\ op'.pending = op.pending \ {s} /\ op'.policy = op.policy
        /\ UNCHANGED <<sources, sourcesFile, incidents, health>>
    BY <1>15 DEF ClearChanged, FiledUnderPolicy, Replacing, Handler
  <2>2. \A t \in Source : \/ op.policy[t] = sources[t] \/ t \in op.pending
                          \/ Forgotten(t)
    BY <2>1 DEF FiledUnderPolicy
  <2> QED BY <2>1, <2>2 DEF FiledUnderPolicy, Forgotten
<1>16. CASE PublishSources
  <2>1. /\ op.at = "publish" /\ op.pending = {} /\ sourcesFile' = op.policy
        /\ op'.at = "adopt" /\ op'.policy = op.policy
        /\ UNCHANGED <<sources, incidents, health>>
    BY <1>16 DEF PublishSources, TypeOK, HandlerOK, OpType
  <2>2. \A t \in Source : op.policy[t] = sources[t] \/ Forgotten(t)
    BY <2>1 DEF FiledUnderPolicy
  <2> QED BY <2>1, <2>2 DEF FiledUnderPolicy, Forgotten
\* Memory follows the file: what differs has been forgotten.
<1>17. CASE AdoptSources \/ Restart
  <2>1. /\ sources' = sourcesFile /\ UNCHANGED <<sourcesFile, incidents, health>>
        /\ op'.at = "idle"
    BY <1>17, IdleTyped DEF AdoptSources, Restart, Matching,
       ReplacementInProgress, TypeOK, HandlerOK
  <2> QED BY <2>1 DEF FiledUnderPolicy, Forgotten
<1> QED BY <1>1, <1>2, <1>3, <1>4, <1>5, <1>6, <1>7, <1>8, <1>9, <1>10, <1>11,
           <1>12, <1>13, <1>14, <1>15, <1>16, <1>17, ConstantsAssumption
        DEF Next, HandlerStep, TimePasses

\* Only a replacement that is adopted, and a restart, change a policy in force;
\* both take it from the file.
LEMMA PolicySteps ==
  ASSUME TypeOK, Matching, [Next]_vars
  PROVE  \/ UNCHANGED sources
         \/ sources' = sourcesFile /\ UNCHANGED <<incidents, health>>
<1> USE DEF memory, durable
<1>1. CASE AdoptSources \/ Restart
  BY <1>1 DEF AdoptSources, Restart, Matching, ReplacementInProgress
<1>2. CASE \/ WriteMeta \/ Observe \/ ReserveStale \/ SkipStale
           \/ ForgetIncidents \/ ClearChanged \/ PublishSources \/ FlushNotify
           \/ WriteFails \/ Crash \/ UNCHANGED vars
  BY <1>2 DEF WriteMeta, Observe, ReserveStale, SkipStale, ForgetIncidents,
     ClearChanged, PublishSources, FlushNotify, WriteFails, Crash, vars
<1>3. ASSUME \/ \E r \in RequestId, s \in Source, jar \in Contents :
                  Prepare(r, s, jar)
             \/ \E r \in RequestId : IngestNew(r) \/ IngestSame(r)
             \/ \E s \in Source, v \in 1..lastVersion, result \in Verdicts :
                  Report(s, v, result)
             \/ \E s \in Source, kind \in Kinds, action \in Disposals :
                  IncidentAction(s, kind, action)
             \/ \E named \in HealthNames : AcceptHealth(named)
             \/ \E s \in Monitored : Scan(s)
             \/ \E s \in Source : ClearAndPause(s) \/ ForgetHealth(s)
             \/ \E new \in Policy : ReplaceSources(new)
             \/ \E s \in Source : CookiesAge(s) \/ VerdictExpires(s)
             \/ \E s \in Source, kind \in Kinds : SnoozeEnds(s, kind)
             \/ \E s \in Source, kind \in AlertKinds : CooldownEnds(s, kind)
      PROVE  UNCHANGED sources
  BY <1>3 DEF Prepare, IngestNew, IngestSame, Report, IncidentAction,
     AcceptHealth, Scan, ClearAndPause, ForgetHealth, ReplaceSources,
     CookiesAge, VerdictExpires, SnoozeEnds, CooldownEnds
<1>4. CASE Next
  BY <1>1, <1>2, <1>3, <1>4 DEF Next, HandlerStep, TimePasses
<1> QED BY <1>2, <1>4

\* A policy that changes, by a request or over a restart, leaves nothing visible
\* that was filed under an earlier one (receiver_state.py, replace_sources).
THEOREM ChangedPolicyForgets == Spec => PolicyChangeForgets
<1> DEFINE Filed == TypeOK /\ Matching /\ FiledUnderPolicy
<1>1. Init => Filed
  BY InitTyped, InitMatches, InitFiles
<1>2. Filed /\ [Next]_vars => Filed'
  BY NextTyped, NextMatches, NextFiles
<1>3. Filed /\ [Next]_vars =>
        [\A s \in Source : sources'[s] # sources[s] =>
           /\ health'[s] = None \/ health'[s] # sources'[s]
           /\ \A k \in Kinds : Loaded(s)'.active[k] = NoEntry]_vars
  <2> SUFFICES ASSUME Filed, [Next]_vars, NEW s \in Source,
                      sources'[s] # sources[s]
               PROVE  /\ health'[s] = None
                      /\ \A k \in Kinds : Loaded(s)'.active[k] = NoEntry
    OBVIOUS
  <2>1. /\ sources' = sourcesFile /\ UNCHANGED <<incidents, health>>
        /\ Forgotten(s)
    BY PolicySteps DEF FiledUnderPolicy
  <2> QED BY <2>1 DEF Forgotten, Loaded, NoIncidents
<1> QED BY <1>1, <1>2, <1>3, PTL DEF Spec, PolicyChangeForgets
=============================================================================
