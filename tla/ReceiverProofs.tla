--------------------------- MODULE ReceiverProofs ---------------------------
(***************************************************************************)
(* Proofs, for every value of the constants, about Receiver: types first,  *)
(* then that stored cookies always match the policy.                       *)
(***************************************************************************)
EXTENDS Receiver, TLAPS

\* What stands for "nothing" in each file, and for the free lock, has its type.
LEMMA EmptyTyped ==
  /\ NoSnapshot \in SnapshotType
  /\ NoMeta \in MetaType
  /\ NoIncidents \in IncidentsType
  /\ Idle \in OpType
BY DEF NoSnapshot, SnapshotType, Contents, NoMeta, MetaType, Results,
       NoIncidents, IncidentsType, Idle, Held, Handler, OpType, Stages, Sequels,
       Policy

\* SyncState's reset of the metadata yields metadata.
LEMMA AboutTyped ==
  ASSUME NEW m \in MetaType, NEW v \in Nat
  PROVE  About(m, v) \in MetaType
BY DEF About, MetaType, NoMeta, Results

\* IncidentStore.observe turns an entry, or none, into an entry or none.
LEMMA ObserveEntryTyped ==
  ASSUME NEW kind \in Kinds, NEW e \in Entry \cup {NoEntry},
         NEW st, st.version \in Nat
  PROVE  ObserveEntry(kind, e, st) \in Entry \cup {NoEntry}
<1> DEFINE version == st.version
<1>1. Opened(version) \in Entry
  BY DEF Opened, Entry, Dispositions, Snooze
<1>2. ASSUME e # NoEntry PROVE Continued(kind, e, st) \in Entry
  BY <1>2 DEF Continued, Entry, Carried, Dispositions, Snooze
<1> QED BY <1>1, <1>2 DEF ObserveEntry

\* An operator's action on an entry yields an entry.
LEMMA DisposedTyped ==
  ASSUME NEW e \in Entry, NEW action \in Disposal
  PROVE  Disposed(e, action) \in Entry
BY DEF Disposed, Disposal, Entry, Dispositions, Snooze

\* What a source's loaded incidents look like, and a rewritten file.
LEMMA LoadedTyped ==
  ASSUME TypeOK, NEW s \in Source
  PROVE  Loaded(s) \in IncidentsType
BY EmptyTyped DEF TypeOK, FilesOK, Loaded

\* A rewritten incidents file has its type: IncidentStore._write.
LEMMA RewriteTyped ==
  ASSUME TypeOK, NEW s \in Source, NEW new \in IncidentsType,
         RewriteIncidents(s, new)
  PROVE  incidents' \in [Source -> IncidentsType]
BY LoadedTyped DEF RewriteIncidents

\* What one observation files for a source.
LEMMA ObservedTyped ==
  ASSUME TypeOK, NEW s \in Source
  PROVE  Observed(s) \in IncidentsType
<1>1. Loaded(s) \in IncidentsType
  BY LoadedTyped
<1>2. Status(s).version \in Nat
  BY DEF Status, Version, TypeOK, FilesOK, SnapshotType
<1>3. \A k \in Kinds :
        ObserveEntry(k, Loaded(s).active[k], Status(s)) \in Entry \cup {NoEntry}
  BY <1>1, <1>2, ObserveEntryTyped DEF IncidentsType
<1>4. sources[s] \in SourceSpec \cup {None}
  BY DEF TypeOK, Policy
<1>5. Observed(s).active \in [Kinds -> Entry \cup {NoEntry}]
  BY <1>3 DEF Observed
<1>6. Observed(s) = [filedUnder |-> sources[s], active |-> Observed(s).active]
  BY DEF Observed
<1> QED BY <1>4, <1>5, <1>6 DEF IncidentsType

\* A snapshot about to be written: its source must be configured.
LEMMA SavedTyped ==
  ASSUME TypeOK, NEW s \in Source, sources[s] # None,
         NEW jar \in Contents, NEW request \in RequestId \cup {None}
  PROVE  Saved(s, jar, request) \in SnapshotType
<1>1. sources[s] \in SourceSpec
  BY DEF TypeOK, Policy
<1>2. sources[s].sites \in Site
  BY <1>1 DEF SourceSpec
<1>3. lastVersion \in Nat
  BY DEF TypeOK
<1> QED BY <1>2, <1>3 DEF Saved, SnapshotType

\* The lock held at a stage, on behalf of a source.
LEMMA HeldTyped ==
  ASSUME NEW stage \in Stages, NEW s \in Source \cup {None},
         NEW request \in RequestId \cup {None}, NEW then \in Sequels
  PROVE  /\ Held(stage, s, request, then) \in OpType
         /\ Held(stage, s, request, then).at = stage
         /\ Held(stage, s, request, then).source = s
         /\ Held(stage, s, request, then).pending = {}
BY DEF Held, Handler, OpType, Policy

\* The free lock: no stage, nothing to visit.
LEMMA IdleTyped == Idle \in OpType /\ Idle.at = "idle" /\ Idle.pending = {}
<1>1. /\ "idle" \in Stages /\ "answer" \in Sequels
      /\ None \in Source \cup {None} /\ None \in RequestId \cup {None}
  BY DEF Stages, Sequels
<1> QED BY <1>1, HeldTyped DEF Idle

\* A replacement that goes on.
LEMMA ReplacingTyped ==
  ASSUME NEW new \in Policy, NEW pending \in SUBSET Source
  PROVE  /\ Replacing(new, pending) \in OpType
         /\ pending = {} => Replacing(new, pending).at = "publish"
         /\ pending # {} => Replacing(new, pending).at = "forget health"
         /\ Replacing(new, pending).pending = pending
         /\ Replacing(new, pending).policy = new
BY DEF Replacing, Handler, OpType, Stages, Sequels

-----------------------------------------------------------------------------
(* Types *)

\* A handler that begins at its first write, and one that ends.
LEMMA HandlerBegins ==
  ASSUME UNCHANGED <<up, sources>>, up,
         NEW stage \in {"meta", "observe", "reserve"}, NEW s \in Source,
         NEW request \in RequestId \cup {None}, NEW then \in Sequels,
         op' = Held(stage, s, request, then)
  PROVE  HandlerOK'
<1>1. stage \in Stages
  BY DEF Stages
<1>2. /\ op' \in OpType /\ op'.at = stage /\ op'.source = s
      /\ op'.pending = {}
  BY <1>1, HeldTyped
<1> QED BY <1>2 DEF HandlerOK

\* A handler that ends leaves the lock free.
LEMMA HandlerEnds ==
  ASSUME op' = Idle
  PROVE  HandlerOK'
BY IdleTyped DEF HandlerOK

\* A replacement that begins or goes on.
LEMMA HandlerReplaces ==
  ASSUME UNCHANGED <<up, sources>>, up, NEW new \in Policy,
         NEW pending \in SUBSET Source, pending \subseteq Changed(new),
         op' = Replacing(new, pending)
  PROVE  HandlerOK'
<1>0. op'.policy = new
  BY ReplacingTyped
<1>1. Changed(op.policy)' = Changed(new)
  BY <1>0 DEF Changed
<1>2. /\ op' \in OpType /\ op'.pending = pending
      /\ pending = {} => op'.at = "publish"
      /\ pending # {} => op'.at = "forget health"
  BY ReplacingTyped
<1> QED BY <1>1, <1>2 DEF HandlerOK

\* Nothing about the lock changes.
LEMMA HandlerStays ==
  ASSUME TypeOK, UNCHANGED <<up, sources, op>>
  PROVE  HandlerOK'
<1>1. Changed(op.policy)' = Changed(op.policy)
  BY DEF Changed
<1> QED BY <1>1 DEF TypeOK, HandlerOK

\* ReceiverState.__init__ on empty files is well typed.
LEMMA InitTyped == Init => TypeOK
<1> SUFFICES ASSUME Init PROVE TypeOK
  OBVIOUS
<1>2. HandlerOK
  BY IdleTyped DEF Init, HandlerOK
<1>3. FilesOK
  BY EmptyTyped DEF Init, FilesOK
<1>4. alerts \in [Source -> [AlertKinds -> Nat]]
  BY DEF Init
<1> QED BY <1>2, <1>3, <1>4 DEF Init, TypeOK

\* Every step preserves the types, one case per action.
LEMMA NextTyped == TypeOK /\ [Next]_vars => TypeOK'
<1> SUFFICES ASSUME TypeOK, [Next]_vars PROVE TypeOK'
  OBVIOUS
<1> USE ConstantsAssumption DEF memory, durable
<1>1. ASSUME NEW r \in RequestId, NEW s \in Source, NEW jar \in Contents,
             Prepare(r, s, jar)
      PROVE  TypeOK'
  <2>1. [source |-> s, jar |-> jar, revision |-> revision,
         expected |-> Version(s), stored |-> 0] \in Push
    BY DEF Push, TypeOK, FilesOK, Version, SnapshotType
  <2>2. sent' \in [RequestId -> Push \cup {None}]
    BY <1>1, <2>1 DEF Prepare, TypeOK
  <2>3. HandlerOK'
    BY <1>1, HandlerStays DEF Prepare
  <2> QED BY <1>1, <2>2, <2>3 DEF Prepare, TypeOK, FilesOK
<1>2. ASSUME NEW r \in RequestId, IngestNew(r) PROVE TypeOK'
  <2> DEFINE s == sent[r].source
  <2>1. sent[r] \in Push /\ s \in Source /\ sources[s] # None
    BY <1>2 DEF IngestNew, Accepted, Enabled, TypeOK, Push
  <2>2. Saved(s, sent[r].jar, r) \in SnapshotType
    BY <2>1, SavedTyped DEF Push
  <2>3. FilesOK'
    BY <1>2, <2>1, <2>2 DEF IngestNew, TypeOK, FilesOK
  <2>4. up /\ op' = Held("meta", s, r, "announce push")
    BY <1>2 DEF IngestNew, Accepted, Free
  <2>5. HandlerOK'
    BY <1>2, <2>1, <2>4, HandlerBegins DEF IngestNew, Sequels
  <2>6. [sent[r] EXCEPT !.stored = @ + 1] \in Push
    BY <2>1 DEF Push
  <2>7. sent' \in [RequestId -> Push \cup {None}]
    BY <1>2, <2>6 DEF IngestNew, TypeOK
  <2>8. lastVersion' \in Nat
    <3>1. lastVersion \in Nat
      BY DEF TypeOK
    <3>2. lastVersion' = lastVersion + 1
      BY <1>2 DEF IngestNew
    <3> QED BY <3>1, <3>2
  <2> QED BY <1>2, <2>3, <2>5, <2>7, <2>8 DEF IngestNew, TypeOK
<1>seen. ASSUME NEW s \in Source, NEW r \in RequestId \cup {None},
                SeenNow(s, r)
         PROVE  meta' \in [Source -> MetaType]
  <2>1. Version(s) \in Nat /\ meta \in [Source -> MetaType]
    BY DEF Version, TypeOK, FilesOK, SnapshotType
  <2>2. About(meta[s], Version(s)) \in MetaType
    BY <2>1, AboutTyped
  <2>3. [About(meta[s], Version(s)) EXCEPT !.seen = "recent", !.request = r]
          \in MetaType
    BY <2>2 DEF MetaType
  <2> QED BY <1>seen, <2>1, <2>3 DEF SeenNow
<1>3. ASSUME NEW r \in RequestId, IngestSame(r) PROVE TypeOK'
  <2> DEFINE s == sent[r].source
  <2>1. s \in Source
    BY <1>3 DEF IngestSame, Accepted, TypeOK, Push
  <2>2. meta' \in [Source -> MetaType]
    BY <1>3, <2>1, <1>seen DEF IngestSame
  <2>3. up /\ op' = Held("observe", s, None, "answer")
    BY <1>3 DEF IngestSame, Accepted, Free
  <2>4. HandlerOK'
    BY <1>3, <2>1, <2>3, HandlerBegins DEF IngestSame, Sequels
  <2> QED BY <1>3, <2>2, <2>4 DEF IngestSame, TypeOK, FilesOK
<1>4. ASSUME NEW s \in Source, NEW v \in 1..lastVersion,
             NEW result \in Verdicts, Report(s, v, result)
      PROVE  TypeOK'
  <2>1. Version(s) \in Nat /\ meta \in [Source -> MetaType]
    BY DEF Version, TypeOK, FilesOK, SnapshotType
  <2>2. About(meta[s], Version(s)) \in MetaType /\ result \in Results
    BY <2>1, AboutTyped
  <2>3. PICK alert \in BOOLEAN :
          /\ meta' = [meta EXCEPT ![s] = Judged(s, result, alert)]
          /\ op' = Held("observe", s, None, IF alert THEN "alert" ELSE "answer")
    BY <1>4 DEF Report
  <2>4. Judged(s, result, alert) \in MetaType
    BY <2>2 DEF Judged, MetaType
  <2>5. meta' \in [Source -> MetaType]
    BY <2>1, <2>3, <2>4
  <2>6. PICK then \in Sequels : op' = Held("observe", s, None, then)
    BY <2>3 DEF Sequels
  <2>7. HandlerOK'
    BY <1>4, <2>6, HandlerBegins DEF Report, Free
  <2> QED BY <1>4, <2>5, <2>7 DEF Report, TypeOK, FilesOK
<1>5. ASSUME NEW s \in Source, NEW kind \in Kinds, NEW action \in Disposals,
             IncidentAction(s, kind, action)
      PROVE  TypeOK'
  <2> DEFINE e == Loaded(s).active[kind]
             new == [Loaded(s) EXCEPT !.active[kind] = Disposed(@, action)]
  <2>1. Loaded(s) \in IncidentsType
    BY LoadedTyped
  <2>2. e \in Entry
    BY <1>5, <2>1 DEF IncidentAction, IncidentsType
  <2>3. Disposed(e, action) \in Entry
    BY <2>2, DisposedTyped
  <2>4. new \in IncidentsType
    BY <2>1, <2>3 DEF IncidentsType
  <2>5. RewriteIncidents(s, new)
    BY <1>5 DEF IncidentAction
  <2>6. incidents' \in [Source -> IncidentsType]
    BY <2>4, <2>5, RewriteTyped
  <2>7. HandlerOK'
    BY <1>5, HandlerStays DEF IncidentAction
  <2> QED BY <1>5, <2>6, <2>7 DEF IncidentAction, TypeOK, FilesOK
<1>6. ASSUME NEW named \in HealthNames, AcceptHealth(named) PROVE TypeOK'
  <2>1. health' \in [Source -> SourceSpec \cup {None}]
    BY <1>6 DEF AcceptHealth, TypeOK, Policy
  <2>2. HandlerOK'
    BY <1>6, HandlerStays DEF AcceptHealth
  <2> QED BY <1>6, <2>1, <2>2 DEF AcceptHealth, TypeOK, FilesOK
<1>7. ASSUME NEW s \in Monitored, Scan(s) PROVE TypeOK'
  <2>1. s \in Source
    OBVIOUS
  <2>3. HandlerOK'
    BY <1>7, <2>1, HandlerBegins DEF Scan, Sequels, Free
  <2> QED BY <1>7, <2>3 DEF Scan, TypeOK, FilesOK
<1>saves. ASSUME NEW s \in Source, sources[s] # None,
                 snapshot' = [snapshot EXCEPT ![s] = Saved(s, NoCookies, None)],
                 lastVersion' = lastVersion + 1
          PROVE  /\ snapshot' \in [Source -> SnapshotType]
                 /\ lastVersion' \in Nat
  <2>1. Saved(s, NoCookies, None) \in SnapshotType
    BY <1>saves, SavedTyped DEF Contents
  <2> QED BY <1>saves, <2>1 DEF TypeOK, FilesOK
<1>8. ASSUME NEW s \in Source, ClearAndPause(s) PROVE TypeOK'
  <2> DEFINE paused == [sources EXCEPT ![s] = [@ EXCEPT !.enabled = FALSE]]
  <2>1. sources[s] \in SourceSpec
    BY <1>8 DEF ClearAndPause, TypeOK, Policy
  <2>2. [sources[s] EXCEPT !.enabled = FALSE] \in SourceSpec
    BY <2>1 DEF SourceSpec
  <2>3. paused \in Policy
    BY <2>2 DEF Policy, TypeOK
  <2>4. Changed(paused) \in SUBSET Source
    BY DEF Changed
  <2>5. op' = Replacing(paused, Changed(paused))
    BY <1>8 DEF ClearAndPause
  <2>8. up /\ UNCHANGED <<up, sources>>
    BY <1>8 DEF ClearAndPause, Free
  <2> HIDE DEF paused
  <2>6. HandlerOK'
    BY <2>3, <2>4, <2>5, <2>8, HandlerReplaces
  <2>7. /\ snapshot' \in [Source -> SnapshotType]
        /\ lastVersion' \in Nat
    BY <1>8, <1>saves DEF ClearAndPause
  <2> QED BY <1>8, <2>6, <2>7 DEF ClearAndPause, TypeOK, FilesOK
<1>9. ASSUME NEW new \in Policy, ReplaceSources(new) PROVE TypeOK'
  <2>1. HandlerOK'
    BY <1>9, HandlerReplaces DEF ReplaceSources, Free, Changed
  <2> QED BY <1>9, <2>1 DEF ReplaceSources, TypeOK, FilesOK
<1>10. ASSUME WriteMeta PROVE TypeOK'
  <2>1. op.source \in Source /\ op.request \in RequestId \cup {None}
    BY <1>10 DEF WriteMeta, TypeOK, HandlerOK, OpType
  <2>2. meta' \in [Source -> MetaType]
    BY <1>10, <2>1, <1>seen DEF WriteMeta
  <2>3. op.then \in Sequels /\ up
    BY <1>10, IdleTyped DEF WriteMeta, TypeOK, HandlerOK, OpType
  <2>5. HandlerOK'
    BY <1>10, <2>1, <2>3, HandlerBegins DEF WriteMeta
  <2> QED BY <1>10, <2>2, <2>5 DEF WriteMeta, TypeOK, FilesOK
<1>alerts. ASSUME NEW s \in Source, NEW k \in AlertKinds, NEW n \in Nat,
                  alerts' = [alerts EXCEPT ![s][k] = n]
           PROVE  alerts' \in [Source -> [AlertKinds -> Nat]]
  <2>1. alerts \in [Source -> [AlertKinds -> Nat]]
    BY DEF TypeOK
  <2>2. [alerts[s] EXCEPT ![k] = n] \in [AlertKinds -> Nat]
    BY <2>1
  <2> QED BY <1>alerts, <2>1, <2>2
<1>11. ASSUME Observe PROVE TypeOK'
  <2> DEFINE s == op.source
  <2>1. s \in Source /\ up
    BY <1>11, IdleTyped DEF Observe, TypeOK, HandlerOK
  <2>2. incidents' \in [Source -> IncidentsType]
    BY <1>11, <2>1, ObservedTyped, RewriteTyped DEF Observe, TypeOK, FilesOK
  <2>3. HandlerOK'
    <3>1. CASE op' = Idle
      BY <3>1, HandlerEnds
    <3>2. CASE op' = Held("reserve", s, None, "answer")
      BY <1>11, <2>1, <3>2, HandlerBegins DEF Observe, Sequels
    <3> QED BY <1>11, <3>1, <3>2 DEF Observe
  <2>4. alerts' \in [Source -> [AlertKinds -> Nat]]
    <3>1. /\ alerts \in [Source -> [AlertKinds -> Nat]]
          /\ "login_invalid" \in AlertKinds
      BY DEF TypeOK, AlertKinds
    <3>2. alerts[s]["login_invalid"] + 1 \in Nat
      BY <2>1, <3>1
    <3>3. CASE UNCHANGED alerts
      BY <3>1, <3>3
    <3>4. CASE alerts' = [alerts EXCEPT ![s]["login_invalid"] = @ + 1]
      <4>1. alerts' = [alerts EXCEPT ![s]["login_invalid"] =
                                       alerts[s]["login_invalid"] + 1]
        BY <2>1, <3>1, <3>4
      <4> QED BY <2>1, <3>1, <3>2, <4>1, <1>alerts
    <3> QED BY <1>11, <3>3, <3>4 DEF Observe
  <2>5. pendingNotify' \in SUBSET Source
    BY <1>11, <2>1 DEF Observe, TypeOK
  <2> QED BY <1>11, <2>2, <2>3, <2>4, <2>5 DEF Observe, TypeOK, FilesOK
<1>12. ASSUME ReserveStale PROVE TypeOK'
  <2>1. op.source \in Source
    BY <1>12 DEF ReserveStale, TypeOK, HandlerOK
  <2>2. meta' \in [Source -> MetaType]
    <3>1. meta \in [Source -> MetaType]
      BY DEF TypeOK, FilesOK
    <3>2. meta[op.source] \in MetaType
      BY <2>1, <3>1
    <3>3. [meta[op.source] EXCEPT !.staleAlerted = TRUE] \in MetaType
      BY <3>2 DEF MetaType
    <3> QED BY <1>12, <3>1, <3>3 DEF ReserveStale
  <2>3. alerts' \in [Source -> [AlertKinds -> Nat]]
    BY <1>12, <2>1, <1>alerts DEF ReserveStale, AlertKinds, TypeOK
  <2>4. HandlerOK'
    BY <1>12, HandlerEnds DEF ReserveStale
  <2> QED BY <1>12, <2>2, <2>3, <2>4 DEF ReserveStale, TypeOK, FilesOK
<1>13. ASSUME SkipStale PROVE TypeOK'
  BY <1>13, HandlerEnds DEF SkipStale, TypeOK, FilesOK
<1>visits. ASSUME op \in OpType, op.at \in {"forget health", "forget incidents"},
                  NEW s \in op.pending, UNCHANGED <<up, sources>>,
                  NEW stage \in {"forget incidents", "clear"},
                  op' = [op EXCEPT !.at = stage, !.source = s]
           PROVE  HandlerOK'
  <2>1. /\ op' \in OpType /\ op'.at = stage /\ op'.source = s
        /\ op'.pending = op.pending /\ op'.policy = op.policy
    BY <1>visits DEF OpType, Stages
  <2>2. up
    BY <1>visits, IdleTyped DEF TypeOK, HandlerOK
  <2>4. op'.pending # {} /\ s \in Source /\ op.pending \subseteq Changed(op.policy)
    BY <1>visits, <2>1 DEF OpType, TypeOK, HandlerOK
  <2>5. op'.pending \subseteq Changed(op.policy)'
    BY <1>visits, <2>1, <2>4 DEF Changed
  <2>6. up' /\ op'.source \in op'.pending
    BY <1>visits, <2>1, <2>2
  <2> QED BY <2>1, <2>4, <2>5, <2>6 DEF HandlerOK
<1>14. ASSUME NEW s \in Source, ForgetHealth(s) PROVE TypeOK'
  <2>1. HandlerOK'
    BY <1>14, <1>visits DEF ForgetHealth, TypeOK, HandlerOK
  <2> QED BY <1>14, <2>1 DEF ForgetHealth, TypeOK, FilesOK
<1>15. ASSUME ForgetIncidents PROVE TypeOK'
  <2>1. op \in OpType /\ op.source \in op.pending /\ op.source \in Source
    BY <1>15 DEF ForgetIncidents, TypeOK, HandlerOK, OpType
  <2>2. op' = [op EXCEPT !.at = "clear", !.source = op.source]
    BY <1>15, <2>1 DEF ForgetIncidents, OpType
  <2>3. HandlerOK'
    BY <1>15, <1>visits, <2>1, <2>2 DEF ForgetIncidents
  <2>4. incidents' \in [Source -> IncidentsType]
    BY <1>15, <2>1, EmptyTyped, RewriteTyped DEF ForgetIncidents
  <2> QED BY <1>15, <2>3, <2>4 DEF ForgetIncidents, TypeOK, FilesOK
<1>16. ASSUME ClearChanged PROVE TypeOK'
  <2>1. /\ op \in OpType /\ op.source \in op.pending /\ up
        /\ op.pending \subseteq Changed(op.policy)
        /\ op.source \in Source /\ sources[op.source] # None
    BY <1>16, IdleTyped DEF ClearChanged, TypeOK, HandlerOK, OpType, Changed
  <2>2. op.policy \in Policy /\ op.pending \ {op.source} \in SUBSET Source
    BY <2>1 DEF OpType
  <2>3. HandlerOK'
    BY <1>16, <2>1, <2>2, HandlerReplaces DEF ClearChanged
  <2>4. /\ snapshot' \in [Source -> SnapshotType]
        /\ lastVersion' \in Nat
    BY <1>16, <2>1, <1>saves DEF ClearChanged
  <2> QED BY <1>16, <2>3, <2>4 DEF ClearChanged, TypeOK, FilesOK
<1>17. ASSUME PublishSources PROVE TypeOK'
  <2>1. /\ op \in OpType /\ op.pending = {} /\ up
        /\ op.policy \in Policy
    BY <1>17, IdleTyped DEF PublishSources, TypeOK, HandlerOK, OpType
  <2>2. op' \in OpType /\ op'.at = "adopt" /\ op'.pending = {}
    BY <1>17, <2>1 DEF PublishSources, OpType, Stages
  <2>3. HandlerOK'
    BY <1>17, <2>1, <2>2 DEF PublishSources, HandlerOK
  <2> QED BY <1>17, <2>1, <2>3 DEF PublishSources, TypeOK, FilesOK
<1>18. ASSUME AdoptSources PROVE TypeOK'
  <2>1. op.policy \in Policy
    BY DEF TypeOK, HandlerOK, OpType
  <2> QED BY <1>18, <2>1, HandlerEnds DEF AdoptSources, TypeOK, FilesOK
<1>19. ASSUME FlushNotify PROVE TypeOK'
  BY <1>19, HandlerStays DEF FlushNotify, TypeOK, FilesOK
<1>20. ASSUME WriteFails PROVE TypeOK'
  BY <1>20, HandlerEnds DEF WriteFails, TypeOK, FilesOK
<1>21. ASSUME Crash PROVE TypeOK'
  BY <1>21, HandlerEnds DEF Crash, TypeOK, FilesOK
<1>22. ASSUME Restart PROVE TypeOK'
  <2>1. op = Idle
    BY <1>22 DEF Restart, TypeOK, HandlerOK
  <2> QED BY <1>22, <2>1, HandlerEnds DEF Restart, TypeOK, FilesOK
<1>23. ASSUME TimePasses PROVE TypeOK'
  <2> SUFFICES ASSUME NEW s \in Source,
                 \/ CookiesAge(s) \/ VerdictExpires(s)
                 \/ \E kind \in Kinds : SnoozeEnds(s, kind)
                 \/ \E kind \in AlertKinds : CooldownEnds(s, kind)
               PROVE  TypeOK'
    BY <1>23 DEF TimePasses
  <2>1. CASE CookiesAge(s)
    <3>0. snapshot[s] \in SnapshotType /\ meta[s] \in MetaType
      BY DEF TypeOK, FilesOK
    <3>1. [snapshot[s] EXCEPT !.old = TRUE] \in SnapshotType
      BY <3>0 DEF SnapshotType
    <3>2. [meta[s] EXCEPT !.seen = IF @ = "none" THEN "none" ELSE "old"] \in MetaType
      BY <3>0 DEF MetaType
    <3> QED BY <2>1, <3>1, <3>2, HandlerStays DEF CookiesAge, TypeOK, FilesOK
  <2>2. CASE VerdictExpires(s)
    <3>0. meta[s] \in MetaType
      BY DEF TypeOK, FilesOK
    <3>1. [meta[s] EXCEPT !.expired = TRUE] \in MetaType
      BY <3>0 DEF MetaType
    <3> QED BY <2>2, <3>1, HandlerStays DEF VerdictExpires, TypeOK, FilesOK
  <2>3. ASSUME NEW kind \in Kinds, SnoozeEnds(s, kind) PROVE TypeOK'
    <3>1. incidents[s] \in IncidentsType
      BY DEF TypeOK, FilesOK
    <3>2. incidents[s].active[kind] \in Entry
      BY <2>3, <3>1 DEF SnoozeEnds, IncidentsType, NoEntry
    <3>3. [incidents[s].active[kind] EXCEPT !.snooze = "over"] \in Entry
      BY <3>2 DEF Entry, Snooze
    <3>4. [incidents[s] EXCEPT !.active[kind].snooze = "over"] \in IncidentsType
      BY <3>1, <3>3 DEF IncidentsType
    <3>5. incidents' \in [Source -> IncidentsType]
      BY <2>3, <3>4 DEF SnoozeEnds, TypeOK, FilesOK
    <3> QED BY <2>3, <3>5, HandlerStays DEF SnoozeEnds, TypeOK, FilesOK
  <2>4. ASSUME NEW kind \in AlertKinds, CooldownEnds(s, kind) PROVE TypeOK'
    <3>0. meta \in [Source -> MetaType] /\ meta[s] \in MetaType
      BY DEF TypeOK, FilesOK
    <3>1. /\ [meta[s] EXCEPT !.loginAlerted = FALSE] \in MetaType
          /\ [meta[s] EXCEPT !.staleAlerted = FALSE] \in MetaType
      BY <3>0 DEF MetaType
    <3>3. meta' \in [Source -> MetaType]
      <4>1. CASE meta' = [meta EXCEPT ![s].loginAlerted = FALSE]
        BY <3>0, <3>1, <4>1
      <4>2. CASE meta' = [meta EXCEPT ![s].staleAlerted = FALSE]
        BY <3>0, <3>1, <4>2
      <4> QED BY <2>4, <4>1, <4>2 DEF CooldownEnds
    <3>2. alerts' \in [Source -> [AlertKinds -> Nat]]
      BY <2>4, <1>alerts DEF CooldownEnds
    <3> QED BY <2>4, <3>2, <3>3, HandlerStays DEF CooldownEnds, TypeOK, FilesOK
  <2> QED BY <2>1, <2>2, <2>3, <2>4
<1>24. ASSUME UNCHANGED vars PROVE TypeOK'
  BY <1>24, HandlerStays DEF vars, TypeOK, FilesOK
<1> QED BY <1>1, <1>2, <1>3, <1>4, <1>5, <1>6, <1>7, <1>8, <1>9, <1>10, <1>11,
           <1>12, <1>13, <1>14, <1>15, <1>16, <1>17, <1>18, <1>19, <1>20,
           <1>21, <1>22, <1>23, <1>24 DEF Next, HandlerStep

\* Every variable keeps its type and the lock holder its shape, whatever the
\* sources, pushes, reports, failures and bounds.
THEOREM TypeCorrect == Spec => []TypeOK
BY InitTyped, NextTyped, PTL DEF Spec

-----------------------------------------------------------------------------
(* Stored cookies match the policy *)

Matching == CredentialsMatchPolicy /\ ReplacementInProgress

Quiet == {"idle", "meta", "observe", "reserve"}

\* The step leaves the cookies of every source as they are.
CookiesKept ==
  \A s \in Source : /\ snapshot'[s].jar = snapshot[s].jar
                    /\ snapshot'[s].sites = snapshot[s].sites

\* A step that goes on with the same handler and touches neither cookies nor
\* policy keeps them matching.
LEMMA SameHandlerMatches ==
  ASSUME Matching, UNCHANGED <<up, sources, sourcesFile, op>>, CookiesKept
  PROVE  Matching'
BY DEF Matching, CredentialsMatchPolicy, ReplacementInProgress, HasCookies,
       Permits, CookiesKept

\* So does one after which the lock is free, or held by a push, a report or a
\* scan.
LEMMA QuietHandlerMatches ==
  ASSUME Matching, UNCHANGED <<up, sources, sourcesFile>>, CookiesKept,
         op.at # "adopt", op'.at \in Quiet
  PROVE  Matching'
BY DEF Matching, CredentialsMatchPolicy, ReplacementInProgress, HasCookies,
       Permits, CookiesKept, Quiet

\* A step that empties one snapshot, or none, and leaves a replacement to go on
\* with the sources that change and still hold cookies.
LEMMA ReplacementMatches ==
  ASSUME Matching, UNCHANGED <<up, sources, sourcesFile>>, up,
         op.at # "adopt", op'.at # "adopt",
         \A s \in Source : \/ snapshot'[s].jar = NoCookies
                           \/ /\ snapshot'[s].jar = snapshot[s].jar
                              /\ snapshot'[s].sites = snapshot[s].sites,
         \A s \in Source : snapshot'[s].jar # NoCookies =>
           s \in op'.pending \/ op'.policy[s] = sources[s]
  PROVE  Matching'
BY DEF Matching, CredentialsMatchPolicy, ReplacementInProgress, HasCookies,
       Permits

\* Without any cookies stored, the policy holds.
LEMMA InitMatches == Init => Matching
<1> SUFFICES ASSUME Init PROVE Matching
  OBVIOUS
<1>1. \A s \in Source : ~HasCookies(s)
  BY DEF Init, HasCookies, NoSnapshot
<1>2. op.at = "idle" /\ sources = sourcesFile
  BY IdleTyped DEF Init
<1> QED BY <1>1, <1>2
        DEF Matching, CredentialsMatchPolicy, ReplacementInProgress

\* Stored cookies name a configured source, so a change to its entry is one of
\* the changes a replacement visits.
LEMMA UnchangedUnlessVisited ==
  ASSUME TypeOK, CredentialsMatchPolicy, NEW new \in Policy,
         NEW s \in Source, HasCookies(s)
  PROVE  s \in Changed(new) \/ new[s] = sources[s]
BY DEF CredentialsMatchPolicy, Permits, Changed

\* Every step keeps cookies matching the policy, one case per action.
LEMMA NextMatches == TypeOK /\ Matching /\ [Next]_vars => Matching'
<1> SUFFICES ASSUME TypeOK, Matching, [Next]_vars PROVE Matching'
  OBVIOUS
<1> USE DEF memory, durable
<1>held. ASSUME NEW stage \in {"meta", "observe", "reserve"},
                NEW s, NEW r, NEW then, op' = Held(stage, s, r, then)
         PROVE  op'.at \in Quiet
  BY <1>held DEF Held, Handler, Quiet
<1>free. ASSUME Free PROVE up /\ op.at = "idle" /\ op.at # "adopt"
  BY <1>free, IdleTyped DEF Free
<1>end. ASSUME op' = Idle PROVE op'.at \in Quiet
  BY <1>end, IdleTyped DEF Quiet
<1>kept. ASSUME UNCHANGED snapshot PROVE CookiesKept
  BY <1>kept DEF CookiesKept
<1>1. ASSUME NEW r \in RequestId, NEW s \in Source, NEW jar \in Contents,
             Prepare(r, s, jar)
      PROVE  Matching'
  BY <1>1, <1>kept, SameHandlerMatches DEF Prepare
<1>2. ASSUME NEW r \in RequestId, IngestNew(r) PROVE Matching'
  <2> DEFINE s == sent[r].source
             new == Saved(s, sent[r].jar, r)
  <2>1. /\ up /\ op.at = "idle" /\ UNCHANGED <<up, sources, sourcesFile>>
        /\ sources[s] # None /\ sources[s].enabled
    BY <1>2, <1>free DEF IngestNew, Accepted, Enabled
  <2>2. s \in Source
    BY <1>2 DEF IngestNew, Accepted, TypeOK, Push
  <2>3. /\ snapshot' = [snapshot EXCEPT ![s] = new]
        /\ op'.at = "meta"
    BY <1>2 DEF IngestNew, Held, Handler
  <2>4. snapshot \in [Source -> SnapshotType] /\ new.sites = sources[s].sites
    BY DEF TypeOK, FilesOK, Saved
  <2> HIDE DEF s, new
  <2>5. sources = sourcesFile
    BY <2>1 DEF Matching, ReplacementInProgress
  <2>6. snapshot'[s].sites = sources[s].sites
    BY <2>2, <2>3, <2>4
  <2>7. \A t \in Source : t # s => snapshot'[t] = snapshot[t]
    BY <2>3, <2>4
  <2>8. CredentialsMatchPolicy'
    BY <2>1, <2>2, <2>5, <2>6, <2>7
       DEF Matching, CredentialsMatchPolicy, HasCookies, Permits
  <2>9. ReplacementInProgress'
    BY <2>1, <2>3, <2>5 DEF ReplacementInProgress
  <2> QED BY <2>8, <2>9 DEF Matching
<1>3. ASSUME NEW r \in RequestId, IngestSame(r) PROVE Matching'
  BY <1>3, <1>held, <1>free, <1>kept, QuietHandlerMatches
     DEF IngestSame, Accepted
<1>4. ASSUME NEW s \in Source, NEW v \in 1..lastVersion,
             NEW result \in Verdicts, Report(s, v, result)
      PROVE  Matching'
  BY <1>4, <1>held, <1>free, <1>kept, QuietHandlerMatches DEF Report
<1>5. ASSUME NEW s \in Source, NEW kind \in Kinds, NEW action \in Disposals,
             IncidentAction(s, kind, action)
      PROVE  Matching'
  BY <1>5, <1>kept, SameHandlerMatches DEF IncidentAction
<1>6. ASSUME NEW named \in HealthNames, AcceptHealth(named) PROVE Matching'
  BY <1>6, <1>kept, SameHandlerMatches DEF AcceptHealth
<1>7. ASSUME NEW s \in Monitored, Scan(s) PROVE Matching'
  BY <1>7, <1>held, <1>free, <1>kept, QuietHandlerMatches DEF Scan
<1>8. ASSUME NEW s \in Source, ClearAndPause(s) PROVE Matching'
  <2> DEFINE paused == [sources EXCEPT ![s] = [@ EXCEPT !.enabled = FALSE]]
             empty == Saved(s, NoCookies, None)
  <2>1. /\ up /\ op.at # "adopt" /\ UNCHANGED <<up, sources, sourcesFile>>
        /\ op' = Replacing(paused, Changed(paused))
        /\ snapshot' = [snapshot EXCEPT ![s] = empty]
    BY <1>8, <1>free DEF ClearAndPause
  <2>2. /\ op'.at # "adopt" /\ op'.pending = Changed(paused)
        /\ op'.policy = paused
    BY <2>1 DEF Replacing, Handler
  <2>3. /\ snapshot \in [Source -> SnapshotType] /\ empty.jar = NoCookies
        /\ sources \in Policy
    BY DEF TypeOK, FilesOK, Saved
  <2>4. \A t \in Source : t # s => paused[t] = sources[t]
    BY <2>3 DEF Policy
  <2> HIDE DEF paused, empty
  <2>5. /\ snapshot'[s].jar = NoCookies
        /\ \A t \in Source : t # s => snapshot'[t] = snapshot[t]
    BY <2>1, <2>3
  <2> QED BY <2>1, <2>2, <2>4, <2>5, ReplacementMatches
<1>9. ASSUME NEW new \in Policy, ReplaceSources(new) PROVE Matching'
  <2>1. /\ up /\ op.at # "adopt" /\ UNCHANGED <<up, sources, sourcesFile>>
        /\ op' = Replacing(new, Changed(new)) /\ UNCHANGED snapshot
    BY <1>9, <1>free DEF ReplaceSources
  <2>2. op'.at # "adopt" /\ op'.pending = Changed(new) /\ op'.policy = new
    BY <2>1 DEF Replacing, Handler
  <2>3. \A s \in Source : snapshot'[s].jar # NoCookies =>
                            s \in op'.pending \/ op'.policy[s] = sources[s]
    BY <2>1, <2>2, UnchangedUnlessVisited DEF HasCookies, Matching
  <2> QED BY <2>1, <2>2, <2>3, ReplacementMatches
<1>10. ASSUME WriteMeta PROVE Matching'
  BY <1>10, <1>held, <1>kept, QuietHandlerMatches DEF WriteMeta
<1>11. ASSUME Observe PROVE Matching'
  <2>1. op'.at \in Quiet
    BY <1>11, <1>held, <1>end DEF Observe
  <2> QED BY <1>11, <2>1, <1>kept, QuietHandlerMatches DEF Observe
<1>12. ASSUME ReserveStale PROVE Matching'
  BY <1>12, <1>end, <1>kept, QuietHandlerMatches DEF ReserveStale
<1>13. ASSUME SkipStale PROVE Matching'
  BY <1>13, <1>end, <1>kept, QuietHandlerMatches DEF SkipStale
<1>visits. ASSUME op.at \in {"forget health", "forget incidents"},
                  NEW stage \in {"forget incidents", "clear"},
                  op'.at = stage, op'.pending = op.pending,
                  op'.policy = op.policy,
                  UNCHANGED <<up, sources, sourcesFile, snapshot>>
           PROVE  Matching'
  BY <1>visits DEF Matching, CredentialsMatchPolicy, ReplacementInProgress,
                   HasCookies, Permits
<1>14. ASSUME NEW s \in Source, ForgetHealth(s) PROVE Matching'
  <2>1. /\ op'.at = "forget incidents" /\ op'.pending = op.pending
        /\ op'.policy = op.policy
    BY <1>14 DEF ForgetHealth, TypeOK, HandlerOK, OpType
  <2> QED BY <1>14, <2>1, <1>visits DEF ForgetHealth
<1>15. ASSUME ForgetIncidents PROVE Matching'
  <2>1. /\ op'.at = "clear" /\ op'.pending = op.pending
        /\ op'.policy = op.policy
    BY <1>15 DEF ForgetIncidents, TypeOK, HandlerOK, OpType
  <2> QED BY <1>15, <2>1, <1>visits DEF ForgetIncidents
<1>16. ASSUME ClearChanged PROVE Matching'
  <2> DEFINE s == op.source
             empty == Saved(s, NoCookies, None)
  <2>1. /\ op.at = "clear" /\ UNCHANGED <<up, sources, sourcesFile>>
        /\ op' = Replacing(op.policy, op.pending \ {s})
        /\ snapshot' = [snapshot EXCEPT ![s] = empty]
    BY <1>16 DEF ClearChanged
  <2>2. s \in Source /\ up
    BY <2>1, IdleTyped DEF TypeOK, HandlerOK, OpType
  <2>3. /\ op'.at # "adopt" /\ op'.pending = op.pending \ {s}
        /\ op'.policy = op.policy
    BY <2>1 DEF Replacing, Handler
  <2>4. snapshot \in [Source -> SnapshotType] /\ empty.jar = NoCookies
    BY DEF TypeOK, FilesOK, Saved
  <2> HIDE DEF s, empty
  <2>5. /\ snapshot'[s].jar = NoCookies
        /\ \A t \in Source : t # s => snapshot'[t] = snapshot[t]
    BY <2>1, <2>2, <2>4
  <2>6. \A t \in Source : snapshot[t].jar # NoCookies =>
                            t \in op.pending \/ op.policy[t] = sources[t]
    BY <2>1 DEF Matching, ReplacementInProgress, HasCookies
  <2> QED BY <2>1, <2>2, <2>3, <2>5, <2>6, ReplacementMatches
<1>17. ASSUME PublishSources PROVE Matching'
  <2>1. /\ op.at = "publish" /\ op.pending = {} /\ sourcesFile' = op.policy
        /\ UNCHANGED <<up, sources, snapshot>>
        /\ op'.at = "adopt" /\ op'.policy = op.policy
    BY <1>17 DEF PublishSources, TypeOK, HandlerOK, OpType
  <2>2. \A s \in Source : HasCookies(s) => op.policy[s] = sources[s]
    BY <2>1 DEF Matching, ReplacementInProgress
  <2> QED BY <2>1, <2>2 DEF Matching, CredentialsMatchPolicy,
                            ReplacementInProgress, HasCookies, Permits
<1>18. ASSUME AdoptSources PROVE Matching'
  <2>1. /\ op.at = "adopt" /\ sources' = op.policy /\ sourcesFile = op.policy
        /\ UNCHANGED <<up, sourcesFile, snapshot>> /\ op'.at = "idle"
    BY <1>18, IdleTyped DEF AdoptSources, Matching, ReplacementInProgress
  <2> QED BY <2>1 DEF Matching, CredentialsMatchPolicy, ReplacementInProgress,
                      HasCookies, Permits
<1>19. ASSUME FlushNotify PROVE Matching'
  BY <1>19, <1>kept, SameHandlerMatches DEF FlushNotify
<1>20. ASSUME WriteFails PROVE Matching'
  BY <1>20, <1>end, <1>kept, QuietHandlerMatches DEF WriteFails
<1>21. ASSUME Crash PROVE Matching'
  BY <1>21, IdleTyped DEF Crash, Matching, CredentialsMatchPolicy,
                          ReplacementInProgress, HasCookies, Permits
<1>22. ASSUME Restart PROVE Matching'
  <2>1. op = Idle
    BY <1>22 DEF Restart, TypeOK, HandlerOK
  <2> QED BY <1>22, <2>1, IdleTyped
        DEF Restart, Matching, CredentialsMatchPolicy, ReplacementInProgress,
            HasCookies, Permits
<1>23. ASSUME TimePasses PROVE Matching'
  <2>1. UNCHANGED <<up, sources, sourcesFile, op>>
    BY <1>23 DEF TimePasses, CookiesAge, VerdictExpires, SnoozeEnds,
                 CooldownEnds
  <2>2. CookiesKept
    <3>1. ASSUME NEW s \in Source, CookiesAge(s) PROVE CookiesKept
      <4>1. snapshot' = [snapshot EXCEPT ![s] = [snapshot[s] EXCEPT !.old = TRUE]]
        BY <3>1 DEF CookiesAge
      <4>2. snapshot \in [Source -> SnapshotType] /\ snapshot[s] \in SnapshotType
        BY DEF TypeOK, FilesOK
      <4> QED BY <4>1, <4>2 DEF CookiesKept, SnapshotType
    <3> QED BY <1>23, <3>1, <1>kept
          DEF TimePasses, VerdictExpires, SnoozeEnds, CooldownEnds
  <2> QED BY <2>1, <2>2, SameHandlerMatches
<1>24. ASSUME UNCHANGED vars PROVE Matching'
  BY <1>24, <1>kept, SameHandlerMatches DEF vars
<1> QED BY <1>1, <1>2, <1>3, <1>4, <1>5, <1>6, <1>7, <1>8, <1>9, <1>10, <1>11,
           <1>12, <1>13, <1>14, <1>15, <1>16, <1>17, <1>18, <1>19, <1>20,
           <1>21, <1>22, <1>23, <1>24 DEF Next, HandlerStep

\* At every instant, and in particular between the writes of a handler, after a
\* failed write and after a crash, stored cookies belong to a source that is
\* configured and enabled, in memory and on disk, for the scope they were
\* collected for.
THEOREM CredentialsSafe == Spec => []CredentialsMatchPolicy
<1>1. Init => TypeOK /\ Matching
  BY InitTyped, InitMatches
<1>2. TypeOK /\ Matching /\ [Next]_vars => (TypeOK /\ Matching)'
  BY NextTyped, NextMatches
<1>3. Matching => CredentialsMatchPolicy
  BY DEF Matching
<1> QED BY <1>1, <1>2, <1>3, PTL DEF Spec
=============================================================================
