------------------------- MODULE ReceiverRefinement -------------------------
(***************************************************************************)
(* What a namespace of the receiver promises, for every number of sources, *)
(* pushes, reports and configurations: that it implements the abstract     *)
(* SnapshotRegister, that a push is stored once, and may be retried.       *)
(***************************************************************************)
EXTENDS ReceiverProofs

-----------------------------------------------------------------------------
(* The inductive invariants *)

\* Versions are drawn in order, and metadata is never ahead of them.
VersionsDrawn ==
  \A s \in Source : snapshot[s].version <= lastVersion
                    /\ meta[s].version <= lastVersion

\* Once a push was stored, the version it expects has passed for good.
StoredMovesOn ==
  \A r \in RequestId : sent[r] # None =>
    \/ sent[r].stored = 0
    \/ /\ sent[r].stored = 1
       /\ sent[r].expected < Version(sent[r].source)

\* A snapshot that names a push holds its cookies, of the policy that was in
\* force at its revision.
SnapshotIsOfItsPush ==
  /\ \A r \in RequestId : sent[r] # None => sent[r].revision <= revision
  /\ \A s \in Source : snapshot[s].request # None =>
       LET push == sent[snapshot[s].request]
       IN  /\ Version(s) # 0
           /\ push # None /\ push.source = s /\ push.jar = snapshot[s].jar
           /\ push.revision = revision =>
                Enabled(s) /\ snapshot[s].sites = sources[s].sites

-----------------------------------------------------------------------------
(* What a step does to the snapshots and their metadata *)

\* A snapshot is written under a fresh version: accept, clear.
Writes(s, jar, request) ==
  /\ snapshot' = [snapshot EXCEPT ![s] = Saved(s, jar, request)]
  /\ lastVersion' = lastVersion + 1
  /\ UNCHANGED meta

\* The metadata follows the snapshot: accept.
Follows(s, r) ==
  SeenNow(s, r) /\ UNCHANGED <<snapshot, lastVersion>>

\* A verdict is filed on the version that is stored: report.
Judges(s, result, alert) ==
  /\ Version(s) # 0 /\ (result = "valid" => snapshot[s].jar # NoCookies)
  /\ meta' = [meta EXCEPT ![s] = Judged(s, result, alert)]
  /\ UNCHANGED <<snapshot, lastVersion>>

\* Marks: the age of cookies and verdicts, alerts that are cooling down.
Marks ==
  /\ UNCHANGED lastVersion
  /\ \A s \in Source :
       /\ \A f \in {"version", "jar", "sites", "request"} :
            snapshot'[s][f] = snapshot[s][f]
       /\ \A f \in {"version", "request", "validation"} :
            meta'[s][f] = meta[s][f]

\* Every step is one of these, or touches neither file.
LEMMA RegisterSteps ==
  ASSUME TypeOK, [Next]_vars
  PROVE  \/ \E s \in Source, jar \in Contents, request \in RequestId \cup {None} :
              Writes(s, jar, request)
         \/ \E s \in Source, r \in RequestId \cup {None} : Follows(s, r)
         \/ \E s \in Source, result \in Results, alert \in BOOLEAN :
              Judges(s, result, alert)
         \/ Marks
<1> DEFINE Goal ==
             \/ \E s \in Source, jar \in Contents,
                   request \in RequestId \cup {None} : Writes(s, jar, request)
             \/ \E s \in Source, r \in RequestId \cup {None} : Follows(s, r)
             \/ \E s \in Source, result \in Results, alert \in BOOLEAN :
                  Judges(s, result, alert)
             \/ Marks
<1> SUFFICES Goal
  OBVIOUS
<1> USE ConstantsAssumption DEF memory, durable
<1>none. ASSUME UNCHANGED <<snapshot, meta, lastVersion>> PROVE Goal
  BY <1>none DEF Marks
<1> HIDE DEF Goal
<1>sent. \A r \in RequestId : sent[r] # None =>
           sent[r].source \in Source /\ sent[r].jar \in Contents
  BY DEF TypeOK, Push
<1>op. op.source \in Source \cup {None} /\ op.request \in RequestId \cup {None}
  BY DEF TypeOK, HandlerOK, OpType
<1>1. ASSUME NEW r \in RequestId, NEW s \in Source, NEW jar \in Contents,
             Prepare(r, s, jar)
      PROVE  Goal
  BY <1>1, <1>none DEF Prepare
<1>2. ASSUME NEW r \in RequestId, IngestNew(r) PROVE Goal
  <2>1. sent[r].source \in Source /\ sent[r].jar \in Contents
    BY <1>2, <1>sent DEF IngestNew, Accepted
  <2>2. Writes(sent[r].source, sent[r].jar, r)
    BY <1>2 DEF IngestNew, Writes
  <2> QED BY <2>1, <2>2 DEF Goal
<1>3. ASSUME NEW r \in RequestId, IngestSame(r) PROVE Goal
  <2>1. sent[r].source \in Source
    BY <1>3, <1>sent DEF IngestSame, Accepted
  <2>2. Follows(sent[r].source, r)
    BY <1>3 DEF IngestSame, Follows
  <2> QED BY <2>1, <2>2 DEF Goal
<1>4. CASE WriteMeta
  <2>1. op.source \in Source
    BY <1>4 DEF WriteMeta, TypeOK, HandlerOK
  <2>2. Follows(op.source, op.request)
    BY <1>4 DEF WriteMeta, Follows
  <2> QED BY <1>op, <2>1, <2>2 DEF Goal
<1>5. ASSUME NEW s \in Source, NEW v \in 1..lastVersion,
             NEW result \in Verdicts, Report(s, v, result)
      PROVE  Goal
  <2> DEFINE alert == /\ result = "invalid" /\ ~meta[s].loginAlerted
                      /\ MayNotify(Loaded(s).active["login_invalid"])
  <2>1. alert \in BOOLEAN /\ result \in Results
    OBVIOUS
  <2>2. Judges(s, result, alert)
    BY <1>5 DEF Report, Judges
  <2> HIDE DEF alert
  <2> QED BY <2>1, <2>2 DEF Goal
<1>6. CASE ReserveStale
  <2>1. op.source \in Source
    BY <1>6 DEF ReserveStale, TypeOK, HandlerOK
  <2>2. Marks
    BY <1>6, <2>1 DEF ReserveStale, Marks, TypeOK, FilesOK, MetaType
  <2> QED BY <2>2 DEF Goal
<1>7. CASE ClearChanged
  <2>1. op.source \in Source
    BY <1>7 DEF ClearChanged, TypeOK, HandlerOK, OpType
  <2>2. Writes(op.source, NoCookies, None)
    BY <1>7 DEF ClearChanged, Writes
  <2> QED BY <2>1, <2>2 DEF Goal, Contents
<1>8. ASSUME NEW s \in Source, ClearAndPause(s) PROVE Goal
  <2>1. Writes(s, NoCookies, None)
    BY <1>8 DEF ClearAndPause, Writes
  <2> QED BY <2>1 DEF Goal, Contents
<1>9. ASSUME NEW s \in Source, CookiesAge(s) PROVE Goal
  <2>1. Marks
    BY <1>9 DEF CookiesAge, Marks, TypeOK, FilesOK, MetaType, SnapshotType
  <2> QED BY <2>1 DEF Goal
<1>10. ASSUME NEW s \in Source, VerdictExpires(s) PROVE Goal
  <2>1. Marks
    BY <1>10 DEF VerdictExpires, Marks, TypeOK, FilesOK, MetaType
  <2> QED BY <2>1 DEF Goal
<1>11. ASSUME NEW s \in Source, NEW kind \in AlertKinds, CooldownEnds(s, kind)
       PROVE  Goal
  <2>1. \/ meta' = [meta EXCEPT ![s].loginAlerted = FALSE]
        \/ meta' = [meta EXCEPT ![s].staleAlerted = FALSE]
    BY <1>11 DEF CooldownEnds
  <2>2. \A t \in Source, f \in {"version", "request", "validation"} :
          meta'[t][f] = meta[t][f]
    <3>1. meta \in [Source -> MetaType] /\ s \in Source
      BY DEF TypeOK, FilesOK
    <3>2. ASSUME NEW m \in MetaType, NEW f \in {"version", "request", "validation"}
          PROVE  /\ [m EXCEPT !.loginAlerted = FALSE][f] = m[f]
                 /\ [m EXCEPT !.staleAlerted = FALSE][f] = m[f]
      BY <3>2 DEF MetaType
    <3>3. \/ meta' = [meta EXCEPT ![s] = [meta[s] EXCEPT !.loginAlerted = FALSE]]
          \/ meta' = [meta EXCEPT ![s] = [meta[s] EXCEPT !.staleAlerted = FALSE]]
      BY <2>1
    <3>4. \A t \in Source :
            \/ meta'[t] = meta[t]
            \/ meta'[t] = [meta[t] EXCEPT !.loginAlerted = FALSE]
            \/ meta'[t] = [meta[t] EXCEPT !.staleAlerted = FALSE]
      BY <3>1, <3>3
    <3> QED BY <3>1, <3>2, <3>4
  <2>3. Marks
    BY <1>11, <2>2 DEF CooldownEnds, Marks
  <2> QED BY <2>3 DEF Goal
<1>12. CASE Observe \/ SkipStale \/ ForgetIncidents \/ PublishSources
            \/ AdoptSources \/ FlushNotify \/ WriteFails \/ Crash \/ Restart
            \/ UNCHANGED vars
  BY <1>12, <1>none DEF Observe, SkipStale, ForgetIncidents, PublishSources,
     AdoptSources, FlushNotify, WriteFails, Crash, Restart, vars
<1>13. ASSUME NEW s \in Source,
              \/ ForgetHealth(s) \/ Scan(s)
              \/ \E kind \in Kinds : SnoozeEnds(s, kind)
              \/ \E kind \in Kinds, action \in Disposals :
                   IncidentAction(s, kind, action)
       PROVE  Goal
  BY <1>13, <1>none DEF ForgetHealth, Scan, SnoozeEnds, IncidentAction
<1>14. ASSUME \/ \E named \in HealthNames : AcceptHealth(named)
              \/ \E new \in Policy : ReplaceSources(new)
       PROVE  Goal
  BY <1>14, <1>none DEF AcceptHealth, ReplaceSources
<1>15. \A s \in Monitored : s \in Source
  OBVIOUS
<1> QED BY <1>1, <1>2, <1>3, <1>4, <1>5, <1>6, <1>7, <1>8, <1>9, <1>10, <1>11,
           <1>12, <1>13, <1>14, <1>15
        DEF Next, HandlerStep, TimePasses

-----------------------------------------------------------------------------
(* The receiver implements the register *)

\* What the reset of metadata leaves: nothing, unless it is of this version.
LEMMA AboutVersion ==
  ASSUME NEW m \in MetaType, NEW v \in Nat
  PROVE  /\ About(m, v).version = v
         /\ m.version = v => About(m, v) = m
         /\ m.version # v => About(m, v).validation = "unverified"
BY DEF About, NoMeta, MetaType

\* The metadata of a version that is being drawn cannot be there yet.
LEMMA WritesReplaces ==
  ASSUME TypeOK, VersionsDrawn, NEW s \in Source, NEW jar \in Contents,
         NEW request \in RequestId \cup {None}, Writes(s, jar, request)
  PROVE  /\ Register!Replace(s, jar)
         /\ VersionsDrawn'
<1> DEFINE v == lastVersion + 1
<1>1. /\ snapshot'[s].version = v /\ snapshot'[s].jar = jar /\ v \in Nat
      /\ \A t \in Source : t # s => snapshot'[t] = snapshot[t]
      /\ meta' = meta /\ lastVersion' = v
  BY DEF Writes, Saved, TypeOK, FilesOK
<1>2. \A t \in Source : /\ meta[t].version \in Nat /\ meta[t].version < v
                        /\ snapshot[t].version \in Nat
                        /\ snapshot[t].version < v
  BY DEF VersionsDrawn, TypeOK, FilesOK, MetaType, SnapshotType
<1>3. VersionsDrawn'
  BY <1>1, <1>2 DEF VersionsDrawn
<1>4. ReportedResult(s)' = "unverified"
  BY <1>1, <1>2 DEF ReportedResult, Current, Version
<1>5. \A t \in Source : t # s =>
        /\ Version(t)' = Version(t) /\ ReportedResult(t)' = ReportedResult(t)
        /\ snapshot'[t].jar = snapshot[t].jar
  BY <1>1 DEF ReportedResult, Current, Version
<1>6. Version(s)' = v
  BY <1>1 DEF Version
<1> HIDE DEF v
<1>7. [t \in Source |-> Version(t)]' = [[t \in Source |-> Version(t)]
                                           EXCEPT ![s] = v]
  BY <1>5, <1>6
<1>8. [t \in Source |-> snapshot[t].jar]' = [[t \in Source |-> snapshot[t].jar]
                                               EXCEPT ![s] = jar]
  BY <1>1, <1>5
<1>9. [t \in Source |-> ReportedResult(t)]'
        = [[t \in Source |-> ReportedResult(t)] EXCEPT ![s] = "unverified"]
  BY <1>4, <1>5
<1> QED BY <1>1, <1>3, <1>7, <1>8, <1>9 DEF Register!Replace, v

\* A step after which every source shows the same leaves the register alone.
LEMMA SameRegister ==
  ASSUME UNCHANGED lastVersion,
         \A s \in Source : /\ Version(s)' = Version(s)
                           /\ snapshot'[s].jar = snapshot[s].jar
                           /\ ReportedResult(s)' = ReportedResult(s)
  PROVE  UNCHANGED Register!vars
BY DEF Register!vars

LEMMA FollowsStutters ==
  ASSUME TypeOK, VersionsDrawn, NEW s \in Source,
         NEW r \in RequestId \cup {None}, Follows(s, r)
  PROVE  UNCHANGED Register!vars /\ VersionsDrawn'
<1> DEFINE m == About(meta[s], Version(s))
<1>0. meta[s] \in MetaType /\ Version(s) \in Nat
  BY DEF TypeOK, FilesOK, Version, SnapshotType
<1>1. /\ m \in MetaType /\ m.version = Version(s)
      /\ meta[s].version = Version(s) => m = meta[s]
      /\ meta[s].version # Version(s) => m.validation = "unverified"
  BY <1>0, AboutTyped, AboutVersion
<1>2. meta' = [meta EXCEPT ![s] = [m EXCEPT !.seen = "recent", !.request = r]]
  BY DEF Follows, SeenNow
<1> HIDE DEF m
<1>3. /\ meta'[s].version = Version(s) /\ meta'[s].validation = m.validation
      /\ \A t \in Source : t # s => meta'[t] = meta[t]
      /\ snapshot' = snapshot /\ lastVersion' = lastVersion
  BY <1>1, <1>2 DEF Follows, MetaType, TypeOK, FilesOK
<1>4. VersionsDrawn'
  BY <1>3 DEF VersionsDrawn, Version
<1>5. ReportedResult(s)' = ReportedResult(s)
  BY <1>1, <1>3 DEF ReportedResult, Current, Version
<1>6. \A t \in Source : /\ Version(t)' = Version(t)
                        /\ snapshot'[t].jar = snapshot[t].jar
                        /\ ReportedResult(t)' = ReportedResult(t)
  BY <1>3, <1>5 DEF ReportedResult, Current, Version
<1> QED BY <1>3, <1>4, <1>6, SameRegister

LEMMA JudgesJudges ==
  ASSUME TypeOK, VersionsDrawn, NEW s \in Source, NEW result \in Results,
         NEW alert \in BOOLEAN, Judges(s, result, alert)
  PROVE  Register!Judge(s, result) /\ VersionsDrawn'
<1> DEFINE m == About(meta[s], Version(s))
<1>0. meta[s] \in MetaType /\ Version(s) \in Nat
  BY DEF TypeOK, FilesOK, Version, SnapshotType
<1>1. m \in MetaType /\ m.version = Version(s)
  BY <1>0, AboutTyped, AboutVersion
<1>2. PICK alerted :
        meta' = [meta EXCEPT ![s] =
                   [m EXCEPT !.validation = result, !.expired = FALSE,
                             !.loginAlerted = alerted]]
  BY DEF Judges, Judged
<1> HIDE DEF m
<1>3. /\ meta'[s].version = Version(s) /\ meta'[s].validation = result
      /\ \A t \in Source : t # s => meta'[t] = meta[t]
      /\ snapshot' = snapshot /\ lastVersion' = lastVersion
  <2>1. LET new == [m EXCEPT !.validation = result, !.expired = FALSE,
                             !.loginAlerted = alerted]
        IN  new.version = Version(s) /\ new.validation = result
    BY <1>1 DEF MetaType
  <2>2. meta \in [Source -> MetaType]
    BY DEF TypeOK, FilesOK
  <2> QED BY <1>2, <2>1, <2>2 DEF Judges
<1>4. VersionsDrawn'
  BY <1>3 DEF VersionsDrawn, Version
<1>5. Version(s) # 0 /\ (result = "valid" => snapshot[s].jar # NoCookies)
  BY DEF Judges
<1>6. ReportedResult(s)' = result
  BY <1>3, <1>5 DEF ReportedResult, Current, Version
<1>7. \A t \in Source : t # s => ReportedResult(t)' = ReportedResult(t)
  BY <1>3 DEF ReportedResult, Current, Version
<1>8. [t \in Source |-> ReportedResult(t)]'
        = [[t \in Source |-> ReportedResult(t)] EXCEPT ![s] = result]
  BY <1>6, <1>7
<1>9. UNCHANGED <<[t \in Source |-> Version(t)],
                  [t \in Source |-> snapshot[t].jar]>>
  BY <1>3 DEF Version
<1> QED BY <1>3, <1>4, <1>5, <1>8, <1>9 DEF Register!Judge

LEMMA MarksStutter ==
  ASSUME TypeOK, VersionsDrawn, Marks
  PROVE  UNCHANGED Register!vars /\ VersionsDrawn'
<1>1. \A s \in Source : /\ snapshot'[s].version = snapshot[s].version
                        /\ snapshot'[s].jar = snapshot[s].jar
                        /\ meta'[s].version = meta[s].version
                        /\ meta'[s].validation = meta[s].validation
  BY DEF Marks
<1>2. VersionsDrawn'
  BY <1>1 DEF VersionsDrawn, Marks
<1>3. \A s \in Source : /\ Version(s)' = Version(s)
                        /\ ReportedResult(s)' = ReportedResult(s)
  BY <1>1 DEF ReportedResult, Current, Version
<1> QED BY <1>1, <1>2, <1>3, SameRegister DEF Marks

\* No version was drawn, no verdict given.
LEMMA InitRegister == Init => Register!Init /\ VersionsDrawn
<1> SUFFICES ASSUME Init PROVE Register!Init /\ VersionsDrawn
  OBVIOUS
<1>1. \A s \in Source : /\ snapshot[s].version = 0 /\ meta[s].version = 0
                        /\ snapshot[s].jar = NoCookies
                        /\ ReportedResult(s) = "unverified"
  BY DEF Init, NoSnapshot, NoMeta, ReportedResult, Current, Version
<1> QED BY <1>1 DEF Init, Register!Init, VersionsDrawn, Version

\* Every step of the receiver is one of the register, or none.
LEMMA NextRegister ==
  ASSUME TypeOK, VersionsDrawn, [Next]_vars
  PROVE  [Register!Next]_(Register!vars) /\ VersionsDrawn'
<1>1. ASSUME NEW s \in Source, NEW jar \in Contents,
             NEW request \in RequestId \cup {None}, Writes(s, jar, request)
      PROVE  Register!Next /\ VersionsDrawn'
  BY <1>1, WritesReplaces DEF Register!Next, Contents
<1>2. ASSUME NEW s \in Source, NEW result \in Results, NEW alert \in BOOLEAN,
             Judges(s, result, alert)
      PROVE  Register!Next /\ VersionsDrawn'
  BY <1>2, JudgesJudges DEF Register!Next, Register!Judgements, Results
<1> QED BY <1>1, <1>2, RegisterSteps, FollowsStutters, MarksStutter

\* The receiver implements the register: versions are never used again, and a
\* verdict is only shown for the version, not emptied, that it was given on.
THEOREM ImplementsRegister == Spec => RegisterSpec
<1>1. Init => TypeOK /\ VersionsDrawn /\ Register!Init
  BY InitTyped, InitRegister
<1>2. TypeOK /\ VersionsDrawn /\ [Next]_vars => (TypeOK /\ VersionsDrawn)'
  BY NextTyped, NextRegister
<1>3. TypeOK /\ VersionsDrawn /\ [Next]_vars =>
        [Register!Next]_(Register!vars)
  BY NextRegister
<1> QED BY <1>1, <1>2, <1>3, PTL DEF Spec, RegisterSpec, Register!Spec

-----------------------------------------------------------------------------
(* A push is stored once, and may be delivered again *)

\* No snapshot is written.
SnapshotsStay ==
  /\ UNCHANGED lastVersion
  /\ \A s \in Source, f \in {"version", "jar", "sites", "request"} :
       snapshot'[s][f] = snapshot[s][f]

\* One is emptied, on behalf of no push.
Empties(s) ==
  /\ snapshot' = [snapshot EXCEPT ![s] = Saved(s, NoCookies, None)]
  /\ lastVersion' = lastVersion + 1
  /\ UNCHANGED <<sources, revision>>

\* Clients prepare pushes and the receiver stores them; in all other steps the
\* snapshots stay, or one is emptied, and the configuration stays, or gets
\* another revision.
LEMMA PushSteps ==
  ASSUME TypeOK, [Next]_vars
  PROVE  \/ \E r \in RequestId, s \in Source, jar \in Contents :
              Prepare(r, s, jar)
         \/ \E r \in RequestId : IngestNew(r)
         \/ /\ UNCHANGED sent /\ SnapshotsStay
            /\ UNCHANGED <<sources, revision>> \/ revision' = revision + 1
         \/ UNCHANGED sent /\ \E s \in Source : Empties(s)
<1> DEFINE Calm == /\ UNCHANGED sent /\ SnapshotsStay
                   /\ UNCHANGED <<sources, revision>> \/ revision' = revision + 1
<1> USE ConstantsAssumption DEF memory, durable
<1>1. CASE WriteMeta \/ Observe \/ ReserveStale \/ SkipStale \/ ForgetIncidents
           \/ PublishSources \/ AdoptSources \/ FlushNotify \/ WriteFails
           \/ Crash \/ Restart \/ UNCHANGED vars
  <2>1. UNCHANGED <<sent, snapshot, lastVersion>>
    BY <1>1 DEF WriteMeta, Observe, ReserveStale, SkipStale, ForgetIncidents,
       PublishSources, AdoptSources, FlushNotify, WriteFails, Crash, Restart,
       vars
  <2>2. UNCHANGED <<sources, revision>> \/ revision' = revision + 1
    BY <1>1 DEF WriteMeta, Observe, ReserveStale, SkipStale, ForgetIncidents,
       PublishSources, AdoptSources, FlushNotify, WriteFails, Crash, Restart,
       vars
  <2> QED BY <2>1, <2>2 DEF SnapshotsStay
<1>2. ASSUME \/ \E r \in RequestId : IngestSame(r)
             \/ \E s \in Source, v \in 1..lastVersion, result \in Verdicts :
                  Report(s, v, result)
             \/ \E s \in Source, kind \in Kinds, action \in Disposals :
                  IncidentAction(s, kind, action)
             \/ \E named \in HealthNames : AcceptHealth(named)
             \/ \E s \in Monitored : Scan(s)
             \/ \E new \in Policy : ReplaceSources(new)
             \/ \E s \in Source : ForgetHealth(s) \/ VerdictExpires(s)
             \/ \E s \in Source, kind \in Kinds : SnoozeEnds(s, kind)
             \/ \E s \in Source, kind \in AlertKinds : CooldownEnds(s, kind)
      PROVE  Calm
  <2>1. UNCHANGED <<sent, snapshot, lastVersion, sources, revision>>
    BY <1>2 DEF IngestSame, Report, IncidentAction, AcceptHealth, Scan,
       ReplaceSources, ForgetHealth, VerdictExpires, SnoozeEnds, CooldownEnds
  <2> QED BY <2>1 DEF SnapshotsStay
<1>3. ASSUME NEW s \in Source, CookiesAge(s) PROVE Calm
  BY <1>3 DEF CookiesAge, SnapshotsStay, TypeOK, FilesOK, SnapshotType
<1>4. ASSUME NEW s \in Source, ClearAndPause(s)
      PROVE  UNCHANGED sent /\ Empties(s)
  BY <1>4 DEF ClearAndPause, Empties
<1>5. ASSUME ClearChanged
      PROVE  UNCHANGED sent /\ op.source \in Source /\ Empties(op.source)
  BY <1>5 DEF ClearChanged, Empties, TypeOK, HandlerOK, OpType
<1> HIDE DEF Calm
<1>6. Calm => /\ UNCHANGED sent /\ SnapshotsStay
              /\ UNCHANGED <<sources, revision>> \/ revision' = revision + 1
  BY DEF Calm
<1>7. CASE Next
  BY <1>7, <1>1, <1>2, <1>3, <1>4, <1>5, <1>6 DEF Next, HandlerStep, TimePasses
<1> QED BY <1>1, <1>7

LEMMA InitPushes == Init => StoredMovesOn /\ SnapshotIsOfItsPush
BY DEF Init, StoredMovesOn, SnapshotIsOfItsPush, NoSnapshot

LEMMA NextStoredMovesOn ==
  TypeOK /\ VersionsDrawn /\ StoredMovesOn /\ [Next]_vars => StoredMovesOn'
<1> SUFFICES ASSUME TypeOK, VersionsDrawn, StoredMovesOn, [Next]_vars
             PROVE  StoredMovesOn'
  OBVIOUS
<1> USE DEF memory, durable
<1>types. /\ lastVersion \in Nat
          /\ \A s \in Source : Version(s) \in Nat /\ Version(s) <= lastVersion
          /\ \A r \in RequestId : sent[r] # None =>
               /\ sent[r] \in Push /\ sent[r].source \in Source
               /\ sent[r].expected \in Nat /\ sent[r].stored \in Nat
  BY DEF TypeOK, FilesOK, SnapshotType, VersionsDrawn, Version, Push
\* Versions of a source only grow.
<1>grow. ASSUME \A s \in Source : Version(s) <= Version(s)' /\ Version(s)' \in Nat,
                NEW r \in RequestId, sent'[r] = sent[r]
         PROVE  sent'[r] # None => \/ sent'[r].stored = 0
                                   \/ /\ sent'[r].stored = 1
                                      /\ sent'[r].expected
                                           < Version(sent[r].source)'
  BY <1>grow, <1>types DEF StoredMovesOn
<1>1. ASSUME NEW r \in RequestId, NEW s \in Source, NEW jar \in Contents,
             Prepare(r, s, jar)
      PROVE  StoredMovesOn'
  <2>1. /\ sent'[r].stored = 0 /\ snapshot' = snapshot
        /\ \A q \in RequestId : q # r => sent'[q] = sent[q]
    BY <1>1 DEF Prepare, TypeOK
  <2> QED BY <2>1 DEF StoredMovesOn, Version
<1>2. ASSUME NEW r \in RequestId, IngestNew(r) PROVE StoredMovesOn'
  <2>0. sent[r] # None /\ sent[r].source \in Source
    BY <1>2, <1>types DEF IngestNew, Accepted
  <2> PICK s \in Source : s = sent[r].source
    BY <2>0
  <2>1. /\ sent[r] \in Push /\ sent[r].expected = Version(s)
        /\ sent[r].expected \in Nat
    BY <1>2, <2>0, <1>types DEF IngestNew, Accepted
  <2>2. sent[r].stored = 0
    BY <2>0, <2>1, <1>types DEF StoredMovesOn
  <2>3. /\ sent'[r].stored = 1 /\ sent'[r].expected = Version(s)
        /\ sent'[r].source = s
    <3>1. sent' = [sent EXCEPT ![r] = [sent[r] EXCEPT !.stored = @ + 1]]
      BY <1>2 DEF IngestNew
    <3>2. LET new == [sent[r] EXCEPT !.stored = @ + 1]
          IN  new.stored = 1 /\ new.expected = Version(s) /\ new.source = s
      BY <2>1, <2>2 DEF Push
    <3> QED BY <3>1, <3>2 DEF TypeOK
  <2>4. /\ \A q \in RequestId : q # r => sent'[q] = sent[q]
        /\ snapshot'[s].version = lastVersion + 1
        /\ \A t \in Source : t # s => snapshot'[t] = snapshot[t]
    BY <1>2, <2>1 DEF IngestNew, TypeOK, FilesOK, Saved
  <2>5. \A t \in Source : Version(t) <= Version(t)' /\ Version(t)' \in Nat
    BY <2>1, <2>4, <1>types DEF Version
  <2>6. sent'[r].expected < Version(sent[r].source)'
    BY <2>1, <2>3, <2>4, <1>types DEF Version
  <2>7. ASSUME NEW q \in RequestId, q # r, sent'[q] # None
        PROVE  \/ sent'[q].stored = 0
               \/ /\ sent'[q].stored = 1
                  /\ sent'[q].expected < Version(sent[q].source)'
    <3>1. sent'[q] = sent[q]
      BY <2>4, <2>7
    <3> QED BY <2>5, <2>7, <3>1, <1>grow
  <2> QED BY <2>3, <2>6, <2>7 DEF StoredMovesOn
<1>3. ASSUME UNCHANGED sent,
             SnapshotsStay \/ \E s \in Source : Empties(s)
      PROVE  StoredMovesOn'
  <2>1. \A t \in Source : Version(t) <= Version(t)' /\ Version(t)' \in Nat
    <3>1. CASE SnapshotsStay
      BY <3>1, <1>types DEF SnapshotsStay, Version
    <3>2. ASSUME NEW s \in Source, Empties(s)
          PROVE  \A t \in Source : Version(t) <= Version(t)' /\ Version(t)' \in Nat
      BY <3>2, <1>types DEF Empties, Version, TypeOK, FilesOK, Saved
    <3> QED BY <1>3, <3>1, <3>2
  <2> QED BY <1>3, <2>1, <1>grow DEF StoredMovesOn
<1> QED BY <1>1, <1>2, <1>3, PushSteps

LEMMA NextSnapshotIsOfItsPush ==
  TypeOK /\ SnapshotIsOfItsPush /\ [Next]_vars => SnapshotIsOfItsPush'
<1> SUFFICES ASSUME TypeOK, SnapshotIsOfItsPush, [Next]_vars
             PROVE  SnapshotIsOfItsPush'
  OBVIOUS
<1> USE ConstantsAssumption DEF memory, durable
<1>types. /\ lastVersion \in Nat /\ revision \in Nat
          /\ \A s \in Source : snapshot[s].request \in RequestId \cup {None}
          /\ \A r \in RequestId : sent[r] # None =>
               /\ sent[r] \in Push /\ sent[r].source \in Source
               /\ sent[r].revision \in Nat
  BY DEF TypeOK, FilesOK, SnapshotType, Push
<1>1. ASSUME NEW r \in RequestId, NEW s \in Source, NEW jar \in Contents,
             Prepare(r, s, jar)
      PROVE  SnapshotIsOfItsPush'
  <2>1. /\ sent[r] = None /\ sent'[r].revision = revision
        /\ \A q \in RequestId : q # r => sent'[q] = sent[q]
        /\ UNCHANGED <<snapshot, sources, revision>>
    BY <1>1 DEF Prepare, TypeOK
  <2>2. \A t \in Source : snapshot[t].request # None =>
          snapshot[t].request \in RequestId /\ snapshot[t].request # r
    BY <2>1, <1>types DEF SnapshotIsOfItsPush
  <2> QED BY <2>1, <2>2, <1>types DEF SnapshotIsOfItsPush, Version, Enabled
<1>2. ASSUME NEW r \in RequestId, IngestNew(r) PROVE SnapshotIsOfItsPush'
  <2>0. sent[r] # None /\ sent[r].source \in Source
    BY <1>2, <1>types DEF IngestNew, Accepted
  <2> PICK s \in Source : s = sent[r].source
    BY <2>0
  <2>1. /\ sent[r] \in Push /\ sent[r] # None /\ Enabled(s)
        /\ sent[r].source = s /\ UNCHANGED <<sources, revision>>
    BY <1>2, <2>0, <1>types DEF IngestNew, Accepted
  <2>2. /\ snapshot'[s].version = lastVersion + 1
        /\ snapshot'[s].request = r /\ snapshot'[s].jar = sent[r].jar
        /\ snapshot'[s].sites = sources[s].sites
        /\ \A t \in Source : t # s => snapshot'[t] = snapshot[t]
    BY <1>2, <2>1 DEF IngestNew, TypeOK, FilesOK, Saved
  <2>3. /\ sent'[r].source = s /\ sent'[r].jar = sent[r].jar
        /\ sent'[r].revision = sent[r].revision /\ sent'[r] # None
        /\ \A q \in RequestId : q # r => sent'[q] = sent[q]
    <3>1. sent' = [sent EXCEPT ![r].stored = @ + 1]
      BY <1>2 DEF IngestNew
    <3>2. sent'[r] = [sent[r] EXCEPT !.stored = @ + 1]
          /\ \A q \in RequestId : q # r => sent'[q] = sent[q]
      BY <3>1 DEF TypeOK
    <3>3. [sent[r] EXCEPT !.stored = @ + 1] \in Push
      BY <2>1 DEF Push
    <3> QED BY <2>1, <3>2, <3>3 DEF Push
  <2>4. \A q \in RequestId : sent'[q] # None =>
          /\ sent[q] # None /\ sent'[q].revision = sent[q].revision
          /\ sent'[q].source = sent[q].source /\ sent'[q].jar = sent[q].jar
    BY <2>1, <2>3
  <2>5. \A q \in RequestId : sent[q] # None => sent'[q] # None
    BY <2>3
  <2>6. ASSUME NEW t \in Source, t # s, snapshot'[t].request # None
        PROVE  LET push == sent'[snapshot'[t].request]
               IN  /\ Version(t)' # 0
                   /\ push # None /\ push.source = t
                   /\ push.jar = snapshot'[t].jar
                   /\ push.revision = revision' =>
                        /\ Enabled(t)'
                        /\ snapshot'[t].sites = sources'[t].sites
    <3>1. snapshot'[t] = snapshot[t] /\ snapshot[t].request \in RequestId
      BY <2>2, <2>6, <1>types
    <3>2. LET push == sent[snapshot[t].request]
          IN  /\ snapshot[t].version # 0
              /\ push # None /\ push.source = t /\ push.jar = snapshot[t].jar
              /\ push.revision = revision =>
                   Enabled(t) /\ snapshot[t].sites = sources[t].sites
      BY <2>6, <3>1 DEF SnapshotIsOfItsPush, Version
    <3>3. PICK q \in RequestId : q = snapshot[t].request
      BY <3>1
    <3>4. sent'[q] # None /\ sent[q] # None
      BY <2>5, <3>2, <3>3
    <3> QED BY <2>1, <2>4, <3>1, <3>2, <3>3, <3>4 DEF Version, Enabled
  <2>7. LET push == sent'[snapshot'[s].request]
        IN  /\ Version(s)' # 0
            /\ push # None /\ push.source = s /\ push.jar = snapshot'[s].jar
            /\ Enabled(s)' /\ snapshot'[s].sites = sources'[s].sites
    BY <2>1, <2>2, <2>3, <1>types DEF Version, Enabled
  <2> QED BY <2>1, <2>4, <2>6, <2>7 DEF SnapshotIsOfItsPush
<1>3. ASSUME UNCHANGED sent, SnapshotsStay,
             UNCHANGED <<sources, revision>> \/ revision' = revision + 1
      PROVE  SnapshotIsOfItsPush'
  <2>1. \A t \in Source : /\ snapshot'[t].version = snapshot[t].version
                          /\ snapshot'[t].jar = snapshot[t].jar
                          /\ snapshot'[t].sites = snapshot[t].sites
                          /\ snapshot'[t].request = snapshot[t].request
    BY <1>3 DEF SnapshotsStay
  <2>2. CASE UNCHANGED <<sources, revision>>
    BY <1>3, <2>1, <2>2, <1>types DEF SnapshotIsOfItsPush, Version, Enabled
  <2>3. CASE revision' = revision + 1
    BY <1>3, <2>1, <2>3, <1>types DEF SnapshotIsOfItsPush, Version
  <2> QED BY <1>3, <2>2, <2>3
<1>4. ASSUME UNCHANGED sent, NEW s \in Source, Empties(s)
      PROVE  SnapshotIsOfItsPush'
  <2>1. /\ snapshot'[s].request = None
        /\ \A t \in Source : t # s => snapshot'[t] = snapshot[t]
        /\ UNCHANGED <<sources, revision>>
    BY <1>4 DEF Empties, TypeOK, FilesOK, Saved
  <2> QED BY <1>4, <2>1 DEF SnapshotIsOfItsPush, Version, Enabled
<1> QED BY <1>1, <1>2, <1>3, <1>4, PushSteps

\* However often a push is delivered, and whatever comes between, it replaces
\* the snapshot once: the expected version it carries has passed then.
THEOREM PushIsStoredOnce == Spec => []StoredAtMostOnce
<1>1. Init => TypeOK /\ VersionsDrawn /\ StoredMovesOn
  BY InitTyped, InitRegister, InitPushes
<1>2. TypeOK /\ VersionsDrawn /\ StoredMovesOn /\ [Next]_vars =>
        (TypeOK /\ VersionsDrawn /\ StoredMovesOn)'
  BY NextTyped, NextRegister, NextStoredMovesOn
<1>3. StoredMovesOn => StoredAtMostOnce
  BY DEF StoredMovesOn, StoredAtMostOnce
<1> QED BY <1>1, <1>2, <1>3, PTL DEF Spec

\* A push whose snapshot is current succeeds again and stores nothing, also when
\* the metadata of the first delivery was lost.
THEOREM DeliveredAgainIsSafe == Spec => []RetryIsSafe
<1>1. Init => TypeOK /\ SnapshotIsOfItsPush
  BY InitTyped, InitPushes
<1>2. TypeOK /\ SnapshotIsOfItsPush /\ [Next]_vars =>
        (TypeOK /\ SnapshotIsOfItsPush)'
  BY NextTyped, NextSnapshotIsOfItsPush
<1>3. TypeOK /\ SnapshotIsOfItsPush => RetryIsSafe
  <2> SUFFICES ASSUME TypeOK, SnapshotIsOfItsPush, NEW r \in RequestId,
                      Free, sent[r] # None, sent[r].revision = revision,
                      snapshot[sent[r].source].request = r
               PROVE  Accepted(r) /\ SameContent(r)
    BY DEF RetryIsSafe
  <2>1. sent[r].source \in Source /\ r # None
    BY ConstantsAssumption DEF TypeOK, Push
  <2>2. /\ Version(sent[r].source) # 0 /\ Enabled(sent[r].source)
        /\ snapshot[sent[r].source].jar = sent[r].jar
        /\ snapshot[sent[r].source].sites = sources[sent[r].source].sites
    BY <2>1 DEF SnapshotIsOfItsPush
  <2> QED BY <2>2 DEF Accepted, SameContent, Replayed
<1> QED BY <1>1, <1>2, <1>3, PTL DEF Spec
=============================================================================
