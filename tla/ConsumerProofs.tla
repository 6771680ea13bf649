--------------------------- MODULE ConsumerProofs ---------------------------
(***************************************************************************)
(* What holds of Consumer for every number of snapshots, every budget of   *)
(* attempts and every size of the outbox.                                  *)
(***************************************************************************)
EXTENDS Consumer, FiniteSetTheorems, TLAPS

\* Every record, and the absence of one, is what ConsumerState.load admits.
LEMMA NoRecordIsNone == NoRecord \notin Records /\ NoRecord.attempts = 0
BY DEF NoRecord, OutboxRecord, Records

\* ConsumerState.enqueue turns a record, or none, into a record; it does not
\* take attempts back.
LEMMA MergedTyped ==
  ASSUME NEW record \in Records \cup {NoRecord}, NEW result \in Results
  PROVE  /\ Merged(record, result) \in Records
         /\ Merged(record, result).attempts = record.attempts
         /\ record = NoRecord => Merged(record, result).status = "pending"
         /\ record # NoRecord => Merged(record, result).status = record.status
BY ConsumerAssumption DEF Merged, OutboxRecord, Records, NoRecord, Results

\* Counting an attempt of a record whose budget is not spent.
LEMMA CountedTyped ==
  ASSUME NEW record \in Records, record.attempts < MaxAttempts
  PROVE  /\ Counted(record) \in Records
         /\ Counted(record).attempts = record.attempts + 1
         /\ Counted(record).status = "pending"
              => record.attempts + 1 < MaxAttempts
BY ConsumerAssumption DEF Counted, OutboxRecord, Records

\* What enqueue starts from: the records that stay.
LEMMA KeptTyped ==
  ASSUME TypeOK
  PROVE  /\ Kept \in [Versions -> Records \cup {NoRecord}]
         /\ \A v \in Versions : Kept[v] = file.outbox[v] \/ Kept[v] = NoRecord
         /\ Filed(Kept) \subseteq Filed(file.outbox)
BY DEF TypeOK, Kept, Filed

-----------------------------------------------------------------------------
(* Types *)

\* A consumer without a state file, and a receiver without snapshots.
LEMMA InitTyped == Init => TypeOK
BY ConsumerAssumption
   DEF Init, Register!Init, TypeOK, Empty, State, Idle, Call, Stages, Versions,
       Results

\* Every step keeps the types, one case per action.
LEMMA NextTyped == TypeOK /\ FileLoads /\ [Next]_vars => TypeOK'
<1> SUFFICES ASSUME TypeOK, FileLoads, [Next]_vars PROVE TypeOK'
  OBVIOUS
<1> USE ConsumerAssumption DEF Versions, Stages, Call, Idle, Flushing, State
<1>1. ASSUME NEW cookies \in Jar \cup {NoCookies}, Push(cookies) PROVE TypeOK'
  BY <1>1 DEF Push, Register!Replace, TypeOK, Filed, Results
<1>2. CASE Begin
  BY <1>2 DEF Begin, TypeOK, Filed, receiver
<1>3. ASSUME NEW result \in Observations, SiteAnswers(result) PROVE TypeOK'
  BY <1>3 DEF SiteAnswers, TypeOK, Filed, receiver, Results
<1>4. CASE Reread
  BY <1>4 DEF Reread, TypeOK, Filed, receiver
<1>5. CASE Record
  <2>1. op.version \in Versions /\ op.result \in Results
    BY <1>5 DEF Record, RecordUnder, TypeOK
  <2>2. BlockedAfter \in 0..MaxVersion
    BY <2>1 DEF BlockedAfter, TypeOK
  <2>3. [Kept EXCEPT ![op.version] = Merged(@, op.result)]
          \in [Versions -> Records \cup {NoRecord}]
    BY <2>1, KeptTyped, MergedTyped
  <2>4. file' \in [blocked : 0..MaxVersion,
                   outbox : [Versions -> Records \cup {NoRecord}]]
    BY <1>5, <2>2, <2>3 DEF Record, RecordUnder
  <2>5. op' \in [at : Stages, version : 0..MaxVersion,
                 result : Results \cup {"none", "sent", "stale", "lost", "refused"},
                 seen : {"none", "same", "other", "unreadable"}]
        /\ op'.at = "flush"
    BY <1>5 DEF Record, RecordUnder
  <2>6. confirmed' \subseteq Versions
    BY <1>5, <2>1 DEF Record, RecordUnder, TypeOK
  <2>7. tried' \in [Versions -> Nat]
    BY <1>5 DEF Record, RecordUnder, TypeOK
  <2> QED BY <1>5, <2>4, <2>5, <2>6, <2>7
          DEF Record, RecordUnder, receiver, TypeOK
<1>6. CASE OutboxFull
  BY <1>6 DEF OutboxFull, TypeOK, Filed, receiver
<1>7. CASE FlushFeedback
  BY <1>7 DEF FlushFeedback, TypeOK, Filed, receiver
<1>8. CASE NothingDue
  BY <1>8 DEF NothingDue, TypeOK, Filed, receiver
<1>9. ASSUME NEW v \in Versions, Intend(v) PROVE TypeOK'
  <2>1. file.outbox[v].status = "pending" /\ file.outbox[v] # NoRecord
    BY <1>9 DEF Intend, First, Due, NoRecord, OutboxRecord
  <2>2. file.outbox[v] \in Records /\ file.outbox[v].attempts < MaxAttempts
    BY <2>1 DEF TypeOK, FileLoads, Filed
  <2>3. Counted(file.outbox[v]) \in Records
    BY <2>2, CountedTyped
  <2>4. /\ file' \in [blocked : 0..MaxVersion,
                      outbox : [Versions -> Records \cup {NoRecord}]]
        /\ file'.outbox[v] \in Records
    BY <1>9, <2>3 DEF Intend, TypeOK
  <2>5. v \in Filed(file'.outbox)
    BY <2>4, NoRecordIsNone DEF Filed
  <2>6. op' = Call("report", v, "none", "none")
    BY <1>9 DEF Intend
  <2> QED BY <1>9, <2>4, <2>5, <2>6 DEF Intend, TypeOK, receiver
<1>10. CASE ReportArrives
  <2>1. issued' = issued /\ version' = version /\ late' = late
    BY <1>10 DEF ReportArrives, Register!Judge, receiver
  <2>2. PICK answer \in {"sent", "stale", "lost", "refused"} :
          op' = Call("settle", op.version, answer, "none")
    BY <1>10 DEF ReportArrives
  <2>3. op.at = "report" /\ UNCHANGED <<file, observed, confirmed>>
        /\ tried' = [tried EXCEPT ![op.version] = @ + 1]
    BY <1>10 DEF ReportArrives
  <2>4. file.outbox[op.version].result \in Results
    BY <2>3 DEF TypeOK, Filed, Records
  <2>5. verdict' \in [Source -> Results]
    BY <1>10, <2>4 DEF ReportArrives, Register!Judge, receiver, TypeOK
  <2>6. /\ op'.version \in Filed(file'.outbox) /\ op'.at = "settle"
        /\ op' \in [at : Stages, version : 0..MaxVersion,
                   result : Results \cup {"none", "sent", "stale", "lost", "refused"},
                   seen : {"none", "same", "other", "unreadable"}]
    BY <2>2, <2>3 DEF TypeOK, Filed
  <2>7. tried' \in [Versions -> Nat]
    <3>1. op.version \in Versions /\ tried \in [Versions -> Nat]
      BY <2>3 DEF TypeOK, Filed
    <3>2. tried[op.version] + 1 \in Nat
      BY <3>1
    <3> HIDE DEF Versions
    <3> QED BY <2>3, <3>1, <3>2
  <2> QED BY <2>1, <2>3, <2>5, <2>6, <2>7 DEF TypeOK
<1>11. CASE SettleDelivered
  BY <1>11 DEF SettleDelivered, TypeOK, Filed, receiver
<1>12. CASE SettleRefused
  <2>1. op.version \in Versions /\ file.outbox[op.version] \in Records
    BY <1>12 DEF SettleRefused, TypeOK, Filed
  <2>2. Refused(file.outbox[op.version]) \in Records
    BY <2>1 DEF Records, Refused, OutboxRecord
  <2>3. file' \in [blocked : 0..MaxVersion,
                   outbox : [Versions -> Records \cup {NoRecord}]]
    BY <1>12, <2>1, <2>2 DEF SettleRefused, TypeOK
  <2> QED BY <1>12, <2>3 DEF SettleRefused, TypeOK, receiver
<1>13. CASE SettleLost
  BY SMTT(30), <1>13 DEF SettleLost, TypeOK, Filed, receiver
<1>14. CASE Stops
  BY <1>14 DEF Stops, TypeOK, Filed, receiver
<1>15. CASE UNCHANGED vars
  BY <1>15 DEF vars, receiver, TypeOK, Filed
<1>16. CASE ReportIsLate
  <2>1. op.at = "report" /\ op.version \in Filed(file.outbox)
    BY <1>16 DEF ReportIsLate, TypeOK
  <2>2. op.version \in Versions /\ file.outbox[op.version] \in Records
    BY <2>1 DEF TypeOK, Filed
  <2>3. late' \subseteq [version : Versions, result : Results,
                         handled : BOOLEAN]
    BY <1>16, <2>2 DEF ReportIsLate, Report, Records
  <2> QED BY <1>16, <2>1, <2>2, <2>3 DEF ReportIsLate, TypeOK, Filed, receiver
<1>17. ASSUME NEW report \in late, LateReportArrives(report) PROVE TypeOK'
  <2>1. issued' = issued /\ version' = version
    BY <1>17 DEF LateReportArrives, Register!Judge, receiver
  <2>2. late' \subseteq [version : Versions, result : Results,
                         handled : BOOLEAN]
    BY <1>17 DEF LateReportArrives, TypeOK
  <2>3. verdict' \in [Source -> Results]
    BY <1>17 DEF LateReportArrives, Register!Judge, receiver, TypeOK
  <2> QED BY <1>17, <2>1, <2>2, <2>3 DEF LateReportArrives, TypeOK, Filed
<1> QED BY <1>1, <1>2, <1>3, <1>4, <1>5, <1>6, <1>7, <1>8, <1>9, <1>10, <1>11,
           <1>12, <1>13, <1>14, <1>15, <1>16, <1>17 DEF Next

-----------------------------------------------------------------------------
(* The state file loads *)

\* An outbox with no other records than the file has is not too long.
LEMMA FewerRecords ==
  ASSUME FileLoads, NEW S, S \subseteq Filed(file.outbox)
  PROVE  IsFiniteSet(S) /\ Cardinality(S) <= MaxOutbox
<1>1. IsFiniteSet(Filed(file.outbox))
  <2>1. IsFiniteSet(1..MaxVersion)
    BY ConsumerAssumption, FS_Interval
  <2> QED BY <2>1, FS_Subset DEF Filed, Versions
<1>2. IsFiniteSet(S) /\ Cardinality(S) <= Cardinality(Filed(file.outbox))
  BY <1>1, FS_Subset
<1>3. Cardinality(S) \in Nat /\ Cardinality(Filed(file.outbox)) \in Nat
  BY <1>1, <1>2, FS_CardinalityType
<1> QED BY <1>2, <1>3, ConsumerAssumption DEF FileLoads

\* A missing state file has no records.
LEMMA InitLoads == Init => FileLoads
<1> SUFFICES ASSUME Init PROVE FileLoads
  OBVIOUS
<1>1. Filed(file.outbox) = {}
  BY DEF Init, Empty, State, Filed
<1> QED BY <1>1, FS_EmptySet, ConsumerAssumption DEF FileLoads

\* Every step leaves a file that loads, one case per action that writes it.
LEMMA NextLoads == TypeOK /\ FileLoads /\ [Next]_vars => FileLoads'
<1> SUFFICES ASSUME TypeOK, FileLoads, [Next]_vars PROVE FileLoads'
  OBVIOUS
<1>1. CASE Record
  <2> DEFINE v == op.version
             new == [Kept EXCEPT ![v] = Merged(@, op.result)]
  <2>1. v \in Versions /\ op.result \in Results /\ HasPlace(v)
    BY <1>1 DEF Record, RecordUnder, TypeOK
  <2>2. file'.outbox = new
    BY <1>1 DEF Record, RecordUnder, State
  <2>3. Cardinality(Filed(new)) <= MaxOutbox
    <3>1. CASE Kept[v] # NoRecord
      <4>1. Filed(new) \subseteq Filed(file.outbox)
        BY <2>1, <3>1, KeptTyped DEF Filed
      <4> QED BY <4>1, FewerRecords
    <3>2. CASE Kept[v] = NoRecord
      <4>1. IsFiniteSet(Filed(Kept)) /\ Cardinality(Filed(Kept)) < MaxOutbox
        BY <2>1, <3>2, KeptTyped, FewerRecords DEF HasPlace
      <4>2. Filed(new) \subseteq Filed(Kept) \cup {v}
        BY <2>1 DEF Filed, Kept
      <4>3. v \notin Filed(Kept)
        BY <3>2 DEF Filed
      <4>4. /\ IsFiniteSet(Filed(Kept) \cup {v})
            /\ Cardinality(Filed(Kept) \cup {v}) = Cardinality(Filed(Kept)) + 1
        BY <4>1, <4>3, FS_AddElement
      <4>5. Cardinality(Filed(new)) <= Cardinality(Filed(Kept) \cup {v})
            /\ IsFiniteSet(Filed(new))
        BY <4>2, <4>4, FS_Subset
      <4>6. /\ Cardinality(Filed(Kept)) \in Nat
            /\ Cardinality(Filed(new)) \in Nat
        BY <4>1, <4>5, FS_CardinalityType
      <4> QED BY <4>1, <4>4, <4>5, <4>6, ConsumerAssumption
    <3> QED BY <3>1, <3>2
  <2>4. ASSUME NEW w \in Versions, new[w].status = "pending"
        PROVE  new[w].attempts < MaxAttempts
    <3>1. CASE w = v
      <4>1. Kept[v] \in Records \cup {NoRecord}
        BY <2>1, KeptTyped
      <4>2. new[v] = Merged(Kept[v], op.result)
        BY <2>1, KeptTyped
      <4>3. CASE Kept[v] = NoRecord
        BY <2>1, <3>1, <4>1, <4>2, <4>3, MergedTyped, NoRecordIsNone,
           ConsumerAssumption
      <4>4. CASE Kept[v] # NoRecord
        <5>1. Kept[v] = file.outbox[v] /\ v \in Filed(file.outbox)
          BY <2>1, <4>4, KeptTyped DEF Filed
        <5>2. Kept[v].status = "pending"
          BY <2>1, <2>4, <3>1, <4>1, <4>2, <4>4, MergedTyped
        <5> QED BY <2>1, <3>1, <4>1, <4>2, <5>1, <5>2, MergedTyped
                DEF FileLoads
      <4> QED BY <4>3, <4>4
    <3>2. CASE w # v
      <4>1. new[w] = Kept[w]
        BY <3>2, KeptTyped
      <4>2. Kept[w] # NoRecord
        BY <2>4, <4>1 DEF NoRecord, OutboxRecord
      <4>3. Kept[w] = file.outbox[w] /\ w \in Filed(file.outbox)
        BY <4>2, KeptTyped DEF Filed
      <4> QED BY <2>4, <4>1, <4>3 DEF FileLoads
    <3> QED BY <3>1, <3>2
  <2> HIDE DEF new
  <2> QED BY <2>2, <2>3, <2>4 DEF FileLoads, Filed
<1>2. ASSUME NEW v \in Versions, Intend(v) PROVE FileLoads'
  <2>1. file.outbox[v].status = "pending" /\ file.outbox[v] # NoRecord
    BY <1>2 DEF Intend, First, Due, NoRecord, OutboxRecord
  <2>2. /\ file.outbox[v] \in Records /\ v \in Filed(file.outbox)
        /\ file.outbox[v].attempts < MaxAttempts
    BY <2>1 DEF TypeOK, FileLoads, Filed
  <2>3. file'.outbox = [file.outbox EXCEPT ![v] = Counted(@)]
    BY <1>2 DEF Intend, State
  <2>4. /\ file.outbox \in [Versions -> Records \cup {NoRecord}]
        /\ Counted(file.outbox[v]).status = "pending"
             => Counted(file.outbox[v]).attempts < MaxAttempts
    BY <2>2, CountedTyped DEF TypeOK
  <2>5. Filed(file'.outbox) \subseteq Filed(file.outbox)
    BY <2>2, <2>3, <2>4 DEF Filed
  <2>6. Cardinality(Filed(file'.outbox)) <= MaxOutbox
    BY <2>5, FewerRecords
  <2>7. \A w \in Filed(file'.outbox) :
          file'.outbox[w].status = "pending"
            => file'.outbox[w].attempts < MaxAttempts
    BY <2>3, <2>4, <2>5 DEF FileLoads, Filed
  <2> QED BY <2>6, <2>7 DEF FileLoads
<1>3. CASE SettleDelivered
  <2>1. /\ op.version \in Versions
        /\ file'.outbox = [file.outbox EXCEPT ![op.version] = NoRecord]
        /\ file.outbox \in [Versions -> Records \cup {NoRecord}]
    BY <1>3 DEF SettleDelivered, State, TypeOK, Filed
  <2>2. Filed(file'.outbox) \subseteq Filed(file.outbox)
    BY <2>1 DEF Filed
  <2>3. Cardinality(Filed(file'.outbox)) <= MaxOutbox
    BY <2>2, FewerRecords
  <2> QED BY <2>1, <2>2, <2>3 DEF FileLoads, Filed
<1>4. CASE SettleRefused
  <2>1. /\ op.version \in Filed(file.outbox)
        /\ file'.outbox = [file.outbox EXCEPT ![op.version] = Refused(@)]
        /\ file.outbox \in [Versions -> Records \cup {NoRecord}]
    BY <1>4 DEF SettleRefused, State, TypeOK
  <2>2. Filed(file'.outbox) \subseteq Filed(file.outbox)
    BY <2>1 DEF Filed
  <2>3. Cardinality(Filed(file'.outbox)) <= MaxOutbox
    BY <2>2, FewerRecords
  <2>4. file'.outbox[op.version].status # "pending"
    BY <2>1 DEF Refused, OutboxRecord, Filed
  <2> QED BY <2>1, <2>2, <2>3, <2>4 DEF FileLoads, Filed
<1>5. CASE UNCHANGED file
  BY <1>5 DEF FileLoads, Filed
<1> QED BY <1>1, <1>2, <1>3, <1>4, <1>5
        DEF Next, vars, Push, Begin, SiteAnswers, Reread, OutboxFull,
            FlushFeedback, NothingDue, ReportArrives, ReportIsLate,
            LateReportArrives, SettleLost, Stops

\* The variables keep their types and the file stays loadable: neither follows
\* without the other, since an attempt is only counted while the budget lasts.
LEMMA TypesAndFile == Spec => [](TypeOK /\ FileLoads)
<1>1. Init => TypeOK /\ FileLoads
  BY InitTyped, InitLoads
<1>2. TypeOK /\ FileLoads /\ [Next]_vars => (TypeOK /\ FileLoads)'
  BY NextTyped, NextLoads
<1> QED BY <1>1, <1>2, PTL DEF Spec

\* The types of the consumer, its file and the receiver; a request is about a
\* version and its record, once reported, exists until it is settled.
THEOREM TypeCorrect == Spec => []TypeOK
BY TypesAndFile, PTL

\* The state file passes the checks of ConsumerState.load after any sequence of
\* calls, failures and deaths, for every size of the outbox and every budget.
THEOREM FileAlwaysLoads == Spec => []FileLoads
BY TypesAndFile, PTL

-----------------------------------------------------------------------------
(* The pause holds *)

\* Before the first request nothing is confirmed.
LEMMA InitPaused == Init => PauseInProgress
BY ConsumerAssumption DEF Init, Register!Init, PauseInProgress, Idle, Call

\* Every step keeps the newest confirmed version paused while it is current.
\* The receiver draws versions it never used, and a request under way is about
\* a version that was current after every confirmed one.
LEMMA NextPaused ==
  TypeOK /\ PauseInProgress /\ [Next]_vars => PauseInProgress'
<1> SUFFICES ASSUME TypeOK, PauseInProgress, [Next]_vars
             PROVE  PauseInProgress'
  OBVIOUS
<1> USE ConsumerAssumption DEF Call, Idle, Flushing, State
<1>0. /\ issued \in Nat /\ version[Mine] \in Nat /\ confirmed \subseteq Nat
      /\ op.version \in Nat
  BY DEF TypeOK, Versions
<1>1. ASSUME NEW cookies \in Jar \cup {NoCookies}, Push(cookies)
      PROVE  PauseInProgress'
  <2>1. issued' = issued + 1 /\ version'[Mine] = issued + 1
    BY <1>1 DEF Push, Register!Replace, TypeOK
  <2>2. file' = file /\ op' = op /\ confirmed' = confirmed
    BY <1>1 DEF Push
  <2>3. version[Mine] < version'[Mine] /\ version'[Mine] <= issued'
    BY <1>0, <2>1 DEF PauseInProgress
  <2>4. \A v \in confirmed : v \in Nat /\ v < version'[Mine]
    BY <1>0, <2>1, <2>3 DEF PauseInProgress
  <2>5. op.at \in {"send", "reread", "record"} => op.version < version'[Mine]
    BY <1>0, <2>1, <2>3 DEF PauseInProgress
  <2> QED BY <1>0, <2>1, <2>2, <2>3, <2>4, <2>5 DEF PauseInProgress
<1>2. CASE Begin
  <2>1. \A v \in confirmed : v < version[Mine]
    BY <1>0, <1>2 DEF Begin, PauseInProgress
  <2> QED BY <1>0, <1>2, <2>1 DEF Begin, PauseInProgress, receiver
<1>3. ASSUME NEW result \in Observations, SiteAnswers(result)
      PROVE  PauseInProgress'
  BY <1>0, <1>3 DEF SiteAnswers, PauseInProgress, receiver
<1>4. CASE Reread
  <2>1. PICK seen \in {IF version[Mine] = op.version THEN "same" ELSE "other"}
                      \cup ({"unreadable"} \cap Faults) :
          op' = Call("record", op.version, op.result, seen)
    BY <1>4 DEF Reread
  <2>2. seen = "other" => op.version < version[Mine]
    BY <1>0, <1>4, <2>1 DEF Reread, PauseInProgress
  <2>3. UNCHANGED <<receiver, file, confirmed>> /\ op.at = "reread"
    BY <1>4 DEF Reread
  <2> QED BY <1>0, <2>1, <2>2, <2>3 DEF PauseInProgress, receiver
<1>5. CASE Record
  <2>1. /\ op.at = "record" /\ UNCHANGED receiver
        /\ op' = Flushing
        /\ file'.blocked = BlockedAfter
        /\ confirmed' = IF op.result = "invalid"
                        THEN confirmed \cup {op.version} ELSE confirmed
    BY <1>5 DEF Record, RecordUnder
  <2>2. /\ op.version <= version[Mine]
        /\ \A v \in confirmed : v < op.version
        /\ op.seen = "other" => op.version < version[Mine]
    BY <2>1 DEF PauseInProgress
  <2>3. \A v \in confirmed' :
          v <= version[Mine] /\ (v = version[Mine] => file'.blocked = v)
    BY <1>0, <2>1, <2>2 DEF BlockedAfter
  <2> QED BY <1>0, <2>1, <2>3 DEF PauseInProgress, receiver
<1>6. CASE UNCHANGED <<issued, version, confirmed>>
           /\ file'.blocked = file.blocked
           /\ op'.at \in {"idle", "flush", "report", "settle"}
  BY <1>6 DEF PauseInProgress
<1>7. CASE UNCHANGED vars
  BY <1>7 DEF PauseInProgress, vars, receiver
<1>8. ASSUME NEW v \in Versions, Intend(v) PROVE PauseInProgress'
  BY <1>6, <1>8 DEF Intend, receiver
<1>9. CASE ReportArrives
  <2>1. issued' = issued /\ version' = version
    BY <1>9 DEF ReportArrives, Register!Judge, receiver
  <2>2. op'.at = "settle"
    BY <1>9 DEF ReportArrives
  <2>3. UNCHANGED <<file, confirmed>>
    BY <1>9 DEF ReportArrives
  <2> QED BY <1>6, <2>1, <2>2, <2>3
<1>10. CASE OutboxFull \/ FlushFeedback \/ NothingDue \/ Stops
            \/ SettleDelivered \/ SettleRefused \/ SettleLost
  BY <1>6, <1>10
     DEF OutboxFull, FlushFeedback, NothingDue, Stops, SettleDelivered,
         SettleRefused, SettleLost, receiver
<1>11. CASE ReportIsLate
  BY <1>6, <1>11 DEF ReportIsLate, receiver
<1>12. ASSUME NEW report \in late, LateReportArrives(report)
       PROVE  PauseInProgress'
  <2>1. issued' = issued /\ version' = version
    BY <1>12 DEF LateReportArrives, Register!Judge, receiver
  <2> QED BY <1>12, <2>1 DEF LateReportArrives, PauseInProgress
<1> QED BY <1>1, <1>2, <1>3, <1>4, <1>5, <1>7, <1>8, <1>9, <1>10, <1>11, <1>12
        DEF Next

\* Cookies whose invalid verdict reached the state file are never sent again,
\* by no process and after no failure.
THEOREM PauseAlwaysHolds == Spec => []PauseHolds
<1>1. Init => PauseInProgress
  BY InitPaused
<1>2. TypeOK /\ PauseInProgress /\ [Next]_vars => PauseInProgress'
  BY NextPaused
<1>3. TypeOK /\ PauseInProgress => PauseHolds
  BY DEF PauseInProgress, PauseHolds, TypeOK, Versions
<1> QED BY TypesAndFile, <1>1, <1>2, <1>3, PTL DEF Spec

-----------------------------------------------------------------------------
(* The budget of reports *)

\* Nothing was sent before anything was filed.
LEMMA InitCounted == Init => SentWereCounted
BY DEF Init, SentWereCounted, Empty, State, NoRecord, OutboxRecord, Idle, Call

\* Every step keeps what was sent below what was counted: a report leaves after
\* its attempt was written, and a record goes together with its count.
LEMMA NextCounted ==
  TypeOK /\ FileLoads /\ SentWereCounted /\ [Next]_vars => SentWereCounted'
<1> SUFFICES ASSUME TypeOK, FileLoads, SentWereCounted, [Next]_vars
             PROVE  SentWereCounted'
  OBVIOUS
<1> USE DEF Call, Idle, Flushing, State
<1>0. /\ tried \in [Versions -> Nat]
      /\ \A v \in Versions : file.outbox[v].attempts \in Nat
      /\ file.outbox \in [Versions -> Records \cup {NoRecord}]
  BY NoRecordIsNone DEF TypeOK, Records
<1>1. CASE UNCHANGED <<tried, file>> /\ op'.at # "report"
  BY <1>0, <1>1 DEF SentWereCounted
<1>2. CASE Record
  <2>1. /\ op.version \in Versions /\ op.result \in Results
        /\ op'.at = "flush" /\ op.at = "record"
        /\ file'.outbox = [Kept EXCEPT ![op.version] = Merged(@, op.result)]
        /\ tried' = [w \in Versions |-> IF w \in Filed(Kept)
                                        THEN tried[w] ELSE 0]
    BY <1>2 DEF Record, RecordUnder, TypeOK
  <2>2. ASSUME NEW w \in Versions
        PROVE  tried'[w] <= file'.outbox[w].attempts
    <3>1. Kept[w] \in Records \cup {NoRecord}
          /\ (Kept[w] = file.outbox[w] \/ Kept[w] = NoRecord)
      BY KeptTyped
    <3>2. file'.outbox[w].attempts = Kept[w].attempts
      BY <2>1, <3>1, KeptTyped, MergedTyped
    <3>3. CASE w \in Filed(Kept)
      <4>1. tried'[w] = tried[w] /\ Kept[w] = file.outbox[w]
        BY <2>1, <3>1, <3>3 DEF Filed
      <4> QED BY <1>0, <2>1, <3>2, <4>1 DEF SentWereCounted
    <3>4. CASE w \notin Filed(Kept)
      <4>1. tried'[w] = 0 /\ Kept[w] = NoRecord
        BY <2>1, <3>4 DEF Filed
      <4> QED BY <3>2, <4>1, NoRecordIsNone
    <3> QED BY <3>3, <3>4
  <2> QED BY <1>0, <2>1, <2>2 DEF SentWereCounted
<1>3. ASSUME NEW v \in Versions, Intend(v) PROVE SentWereCounted'
  <2>1. file.outbox[v].status = "pending" /\ file.outbox[v] # NoRecord
    BY <1>3 DEF Intend, First, Due, NoRecord, OutboxRecord
  <2>2. file.outbox[v] \in Records /\ file.outbox[v].attempts < MaxAttempts
    BY <2>1 DEF TypeOK, FileLoads, Filed
  <2>3. Counted(file.outbox[v]).attempts = file.outbox[v].attempts + 1
    BY <2>2, CountedTyped
  <2>4. /\ file'.outbox = [file.outbox EXCEPT ![v] = Counted(@)]
        /\ op'.version = v /\ op.at = "flush" /\ tried' = tried
    BY <1>3 DEF Intend
  <2> QED BY <1>0, <2>3, <2>4 DEF SentWereCounted
<1>4. CASE ReportArrives
  <2>1. /\ op.at = "report" /\ file' = file
        /\ tried' = [tried EXCEPT ![op.version] = @ + 1]
    BY <1>4 DEF ReportArrives
  <2>2. op'.at = "settle"
    BY <1>4 DEF ReportArrives
  <2> QED BY <1>0, <2>1, <2>2 DEF SentWereCounted
<1>5. CASE SettleDelivered
  <2>1. /\ op.at = "settle" /\ op'.at = "idle"
        /\ file'.outbox = [file.outbox EXCEPT ![op.version] = NoRecord]
        /\ tried' = [tried EXCEPT ![op.version] = 0]
    BY <1>5 DEF SettleDelivered
  <2> QED BY <1>0, <2>1, NoRecordIsNone DEF SentWereCounted
<1>6. CASE SettleRefused
  <2>1. /\ op.at = "settle" /\ op'.at = "idle" /\ tried' = tried
        /\ file'.outbox = [file.outbox EXCEPT ![op.version] = Refused(@)]
    BY <1>6 DEF SettleRefused
  <2>2. \A v \in Versions :
          file'.outbox[v].attempts = file.outbox[v].attempts
    BY <1>0, <2>1 DEF Refused, OutboxRecord
  <2> QED BY <1>0, <2>1, <2>2 DEF SentWereCounted
<1>7. CASE UNCHANGED vars
  BY <1>7 DEF vars, SentWereCounted
<1>8. ASSUME NEW cookies \in Jar \cup {NoCookies}, Push(cookies)
      PROVE  SentWereCounted'
  BY <1>8 DEF Push, SentWereCounted
<1>9. ASSUME NEW result \in Observations, SiteAnswers(result)
      PROVE  SentWereCounted'
  BY <1>1, <1>9 DEF SiteAnswers
<1>10. CASE Reread
  BY <1>1, <1>10 DEF Reread
<1>11. CASE Begin \/ OutboxFull \/ FlushFeedback \/ NothingDue \/ SettleLost
            \/ Stops
  BY <1>1, <1>11
     DEF Begin, OutboxFull, FlushFeedback, NothingDue, SettleLost, Stops
<1>12. CASE ReportIsLate
  <2>1. /\ op.at = "report" /\ op'.at = "settle" /\ file' = file
        /\ tried' = [tried EXCEPT ![op.version] = @ + 1]
    BY <1>12 DEF ReportIsLate
  <2> QED BY <1>0, <2>1 DEF SentWereCounted
<1>13. ASSUME NEW report \in late, LateReportArrives(report)
       PROVE  SentWereCounted'
  BY <1>13 DEF LateReportArrives, SentWereCounted
<1> QED BY <1>2, <1>3, <1>4, <1>5, <1>6, <1>7, <1>8, <1>9, <1>10, <1>11, <1>12,
           <1>13 DEF Next

\* A record is reported at most MaxAttempts times, whenever processes die.
THEOREM BudgetIsKept == Spec => []FeedbackBudget
<1>1. Init => SentWereCounted
  BY InitCounted
<1>2. TypeOK /\ FileLoads /\ SentWereCounted /\ [Next]_vars => SentWereCounted'
  BY NextCounted
<1>3. TypeOK /\ SentWereCounted => FeedbackBudget
  <2> SUFFICES ASSUME TypeOK, SentWereCounted, NEW v \in Versions
               PROVE  tried[v] <= MaxAttempts
    BY DEF FeedbackBudget
  <2>1. /\ file.outbox[v].attempts \in 0..MaxAttempts /\ tried[v] \in Nat
    BY NoRecordIsNone, ConsumerAssumption DEF TypeOK, Records
  <2> QED BY <2>1, ConsumerAssumption DEF SentWereCounted
<1> QED BY TypesAndFile, <1>1, <1>2, <1>3, PTL DEF Spec

-----------------------------------------------------------------------------
(* Verdicts are evidence *)

\* What is about to be filed, is filed, is under way or is shown was observed.
EvidenceInProgress ==
  /\ VerdictsAreEvidence
  /\ op.at \in {"reread", "record"} => <<op.version, op.result>> \in observed
  /\ \A v \in Filed(file.outbox) : <<v, file.outbox[v].result>> \in observed
  /\ \A report \in late : <<report.version, report.result>> \in observed

\* enqueue files the result it is given, unless the record says "invalid".
LEMMA MergedResult ==
  ASSUME NEW record, NEW result
  PROVE  \/ Merged(record, result).result = result
         \/ /\ record # NoRecord /\ record.result = "invalid"
            /\ Merged(record, result).result = "invalid"
BY DEF Merged, OutboxRecord

\* Nothing is observed, filed or shown.
LEMMA InitEvidence == Init => EvidenceInProgress
BY ConsumerAssumption
   DEF Init, Register!Init, EvidenceInProgress, VerdictsAreEvidence, Empty,
       State, Idle, Call, Filed

\* Every step keeps results with the version they were observed for.
LEMMA NextEvidence ==
  TypeOK /\ EvidenceInProgress /\ [Next]_vars => EvidenceInProgress'
<1> SUFFICES ASSUME TypeOK, EvidenceInProgress, [Next]_vars
             PROVE  EvidenceInProgress'
  OBVIOUS
<1> USE ConsumerAssumption DEF Call, Idle, Flushing, State
<1>0. /\ file.outbox \in [Versions -> Records \cup {NoRecord}]
      /\ verdict \in [Source -> Results] /\ version \in [Source -> 0..MaxVersion]
  BY DEF TypeOK
<1>1. ASSUME NEW cookies \in Jar \cup {NoCookies}, Push(cookies)
      PROVE  EvidenceInProgress'
  BY <1>0, <1>1
     DEF Push, Register!Replace, EvidenceInProgress, VerdictsAreEvidence, Filed
<1>2. ASSUME NEW result \in Observations, SiteAnswers(result)
      PROVE  EvidenceInProgress'
  BY <1>2
     DEF SiteAnswers, receiver, EvidenceInProgress, VerdictsAreEvidence, Filed
<1>3. CASE Reread
  BY <1>3 DEF Reread, receiver, EvidenceInProgress, VerdictsAreEvidence, Filed
<1>4. CASE Record
  <2>1. /\ op.version \in Versions /\ op.at = "record" /\ op'.at = "flush"
        /\ <<op.version, op.result>> \in observed
        /\ file'.outbox = [Kept EXCEPT ![op.version] = Merged(@, op.result)]
        /\ UNCHANGED <<receiver, observed, late>>
    BY <1>4 DEF Record, RecordUnder, TypeOK, EvidenceInProgress
  <2>2. \A v \in Filed(Kept) : <<v, Kept[v].result>> \in observed
    BY KeptTyped DEF EvidenceInProgress, Filed
  <2>3. ASSUME NEW v \in Filed(file'.outbox)
        PROVE  <<v, file'.outbox[v].result>> \in observed
    <3>1. CASE v = op.version
      <4>1. file'.outbox[v] = Merged(Kept[v], op.result)
        BY <2>1, <3>1, KeptTyped
      <4> QED BY <2>1, <2>2, <3>1, <4>1, MergedResult DEF Filed
    <3>2. CASE v # op.version
      <4>1. file'.outbox[v] = Kept[v] /\ v \in Versions
        BY <2>1, <3>2, KeptTyped DEF Filed
      <4> QED BY <2>2, <2>3, <4>1 DEF Filed
    <3> QED BY <3>1, <3>2
  <2> QED BY <2>1, <2>3
          DEF receiver, EvidenceInProgress, VerdictsAreEvidence
<1>5. CASE /\ UNCHANGED <<receiver, observed, late>>
           /\ \A v \in Filed(file'.outbox) :
                /\ v \in Filed(file.outbox)
                /\ file'.outbox[v].result = file.outbox[v].result
           /\ op'.at \in {"idle", "send", "flush", "report", "settle"}
  BY <1>5 DEF receiver, EvidenceInProgress, VerdictsAreEvidence
<1>6. ASSUME NEW v \in Versions, Intend(v) PROVE EvidenceInProgress'
  <2>1. file.outbox[v] # NoRecord
    BY <1>6 DEF Intend, First, Due, NoRecord, OutboxRecord
  <2>2. /\ file'.outbox = [file.outbox EXCEPT ![v] = Counted(@)]
        /\ op'.at = "report" /\ UNCHANGED <<receiver, observed, late>>
    BY <1>6 DEF Intend
  <2>3. Counted(file.outbox[v]).result = file.outbox[v].result
    BY DEF Counted, OutboxRecord
  <2> QED BY <1>0, <1>5, <2>1, <2>2, <2>3 DEF Filed
<1>7. CASE ReportArrives
  <2>1. /\ op.version \in Filed(file.outbox) /\ op'.at = "settle"
        /\ UNCHANGED <<file, observed, late>>
    BY <1>7 DEF ReportArrives, TypeOK
  <2>2. <<op.version, file.outbox[op.version].result>> \in observed
    BY <2>1 DEF EvidenceInProgress
  <2>3. \/ UNCHANGED receiver
        \/ /\ version[Mine] = op.version /\ version' = version
           /\ verdict'[Mine] = file.outbox[op.version].result
    BY <1>0, <1>7 DEF ReportArrives, Register!Judge
  <2>4. VerdictsAreEvidence'
    BY <2>1, <2>2, <2>3 DEF EvidenceInProgress, VerdictsAreEvidence, receiver
  <2> QED BY <2>1, <2>4 DEF EvidenceInProgress, Filed
<1>8. CASE ReportIsLate
  <2>1. /\ op.version \in Filed(file.outbox) /\ op'.at = "settle"
        /\ UNCHANGED <<receiver, file, observed>>
        /\ late' = {Report(op.version, file.outbox[op.version].result)}
    BY <1>8 DEF ReportIsLate, TypeOK
  <2>2. \A report \in late' : <<report.version, report.result>> \in observed
    BY <2>1 DEF EvidenceInProgress, Report
  <2> QED BY <2>1, <2>2
          DEF EvidenceInProgress, VerdictsAreEvidence, Filed, receiver
<1>9. ASSUME NEW report \in late, LateReportArrives(report)
      PROVE  EvidenceInProgress'
  <2>1. /\ report \in [version : Versions, result : Results, handled : BOOLEAN]
        /\ <<report.version, report.result>> \in observed
    BY DEF TypeOK, EvidenceInProgress
  <2>2. /\ UNCHANGED <<file, op, observed>>
        /\ late' = {[report EXCEPT !.handled = TRUE]}
    BY <1>9 DEF LateReportArrives
  <2>3. \/ UNCHANGED receiver
        \/ /\ version[Mine] = report.version /\ version' = version
           /\ verdict'[Mine] = report.result
    BY <1>0, <1>9 DEF LateReportArrives, Register!Judge
  <2>4. VerdictsAreEvidence'
    BY <2>1, <2>2, <2>3 DEF EvidenceInProgress, VerdictsAreEvidence, receiver
  <2>5. \A other \in late' : <<other.version, other.result>> \in observed
    BY <2>1, <2>2
  <2> QED BY <2>2, <2>4, <2>5 DEF EvidenceInProgress, Filed
<1>10. CASE SettleDelivered
  <2>1. /\ op.version \in Versions
        /\ file'.outbox = [file.outbox EXCEPT ![op.version] = NoRecord]
        /\ op'.at = "idle" /\ UNCHANGED <<receiver, observed, late>>
    BY <1>10 DEF SettleDelivered, TypeOK, Filed
  <2> QED BY <1>0, <1>5, <2>1 DEF Filed
<1>11. CASE SettleRefused
  <2>1. /\ op.version \in Filed(file.outbox)
        /\ file'.outbox = [file.outbox EXCEPT ![op.version] = Refused(@)]
        /\ op'.at = "idle" /\ UNCHANGED <<receiver, observed, late>>
    BY <1>11 DEF SettleRefused, TypeOK
  <2>2. Refused(file.outbox[op.version]).result = file.outbox[op.version].result
    BY DEF Refused, OutboxRecord
  <2> QED BY <1>0, <1>5, <2>1, <2>2 DEF Filed
<1>12. CASE Begin \/ OutboxFull \/ FlushFeedback \/ NothingDue \/ SettleLost
            \/ Stops
  BY <1>5, <1>12
     DEF Begin, OutboxFull, FlushFeedback, NothingDue, SettleLost, Stops
<1>13. CASE UNCHANGED vars
  BY <1>13
     DEF vars, receiver, EvidenceInProgress, VerdictsAreEvidence, Filed
<1> QED BY <1>1, <1>2, <1>3, <1>4, <1>6, <1>7, <1>8, <1>9, <1>10, <1>11, <1>12,
           <1>13 DEF Next

\* The receiver only shows verdicts that were observed with the very cookies
\* they are filed for, whatever is lost, late or refused on the way.
THEOREM ShownWasObserved == Spec => []VerdictsAreEvidence
<1>1. Init => EvidenceInProgress
  BY InitEvidence
<1>2. TypeOK /\ EvidenceInProgress /\ [Next]_vars => EvidenceInProgress'
  BY NextEvidence
<1>3. EvidenceInProgress => VerdictsAreEvidence
  BY DEF EvidenceInProgress
<1> QED BY TypesAndFile, <1>1, <1>2, <1>3, PTL DEF Spec

-----------------------------------------------------------------------------
(* An invalid verdict is not lost *)

\* A late report that was handled decides what is shown of version v.
Overtaken(v) ==
  \E report \in late : /\ report.version = v /\ report.handled
                       /\ report.result = verdict[Mine]

\* A confirmed version has no other record than its invalid one, since it is
\* not used again; a record is never of a version still to come, so a report
\* that was refused as stale is about a version of the past; and a report that
\* was answered has been shown, unless a late one was handled after it.
InvalidInProgress ==
  /\ InvalidIsNotLost
  /\ \A v \in confirmed :
       file.outbox[v] = NoRecord \/ file.outbox[v].result = "invalid"
  /\ \A v \in Filed(file.outbox) : v <= version[Mine]
  /\ op.at = "settle" /\ op.result = "stale" => op.version < version[Mine]
  /\ (/\ op.at = "settle" /\ op.result = "sent"
      /\ op.version \in confirmed /\ op.version = version[Mine]) =>
       verdict[Mine] = "invalid" \/ Overtaken(op.version)
  /\ \A one, other \in late : one = other

\* Nothing is confirmed, filed or under way.
LEMMA InitInvalid == Init => InvalidInProgress
BY DEF Init, InvalidInProgress, InvalidIsNotLost, Empty, State, Idle, Call, Filed

\* What the receiver shows of the current version does not disturb the rest.
LEMMA JudgedKeepsInvalid ==
  ASSUME TypeOK, InvalidInProgress,
         UNCHANGED <<file, confirmed, version>>,
         \A one, other \in late' : one = other,
         op'.at = "settle" /\ op'.result = "stale"
           => op'.version < version[Mine],
         \A v \in confirmed :
           v = version[Mine] =>
             \/ verdict'[Mine] = "invalid" \/ Overtaken(v)'
             \/ /\ file.outbox[v].result = "invalid"
                /\ ~(op'.at = "settle" /\ op'.result = "sent" /\ op'.version = v)
  PROVE  InvalidInProgress'
BY DEF InvalidInProgress, InvalidIsNotLost, Overtaken, Filed

\* Every step keeps it, one case per action that moves the verdict, a record or
\* the version that is current.
LEMMA NextInvalid ==
  TypeOK /\ PauseInProgress /\ InvalidInProgress /\ [Next]_vars
    => InvalidInProgress'
<1> SUFFICES ASSUME TypeOK, PauseInProgress, InvalidInProgress, [Next]_vars
             PROVE  InvalidInProgress'
  OBVIOUS
<1> USE ConsumerAssumption DEF Call, Idle, Flushing, State
<1>0. /\ file.outbox \in [Versions -> Records \cup {NoRecord}]
      /\ verdict \in [Source -> Results] /\ version \in [Source -> 0..MaxVersion]
      /\ version[Mine] \in Nat /\ issued \in Nat /\ op.version \in Nat
      /\ Versions \subseteq Nat /\ confirmed \subseteq Versions
  BY DEF TypeOK, Versions
<1>1. ASSUME NEW cookies \in Jar \cup {NoCookies}, Push(cookies)
      PROVE  InvalidInProgress'
  <2>1. /\ version'[Mine] = issued + 1 /\ version[Mine] <= issued
        /\ UNCHANGED <<file, op, confirmed, late>>
    BY <1>0, <1>1 DEF Push, Register!Replace, PauseInProgress
  <2>2. \A v \in confirmed : v < version'[Mine]
    BY <1>0, <2>1 DEF PauseInProgress
  <2>3. \A v \in Filed(file.outbox) : v < version'[Mine]
    BY <1>0, <2>1 DEF InvalidInProgress, Filed
  <2>4. InvalidIsNotLost'
    BY <1>0, <2>1, <2>2 DEF InvalidIsNotLost
  <2>5. op.at = "settle" /\ op.result = "stale" => op.version < version'[Mine]
    BY <1>0, <2>1 DEF InvalidInProgress
  <2>6. op.version \in confirmed => op.version # version'[Mine]
    BY <1>0, <2>1, <2>2
  <2>7. \A v \in Filed(file.outbox) : v <= version'[Mine]
    BY <1>0, <2>1, <2>3 DEF Filed
  <2> QED BY <2>1, <2>4, <2>5, <2>6, <2>7 DEF InvalidInProgress, Filed
<1>2. CASE Record
  <2>1. /\ op.version \in Versions /\ op.at = "record" /\ op'.at = "flush"
        /\ file'.outbox = [Kept EXCEPT ![op.version] = Merged(@, op.result)]
        /\ confirmed' = IF op.result = "invalid"
                        THEN confirmed \cup {op.version} ELSE confirmed
        /\ UNCHANGED <<receiver, late>>
    BY <1>2 DEF Record, RecordUnder, TypeOK
  <2>2. op.version <= version[Mine] /\ \A v \in confirmed : v < op.version
    BY <2>1 DEF PauseInProgress
  <2>3. file'.outbox[op.version] = Merged(Kept[op.version], op.result)
        /\ \A v \in Versions \ {op.version} : file'.outbox[v] = Kept[v]
    BY <2>1, KeptTyped
  <2>4. op.result = "invalid" => file'.outbox[op.version].result = "invalid"
    BY <2>3, MergedResult
  <2>5. \A v \in confirmed' :
          file'.outbox[v] = NoRecord \/ file'.outbox[v].result = "invalid"
    <3>1. ASSUME NEW v \in confirmed
          PROVE  file'.outbox[v] = NoRecord \/ file'.outbox[v].result = "invalid"
      <4>1. v \in Versions \ {op.version}
        BY <1>0, <2>2
      <4> QED BY <2>3, <4>1, KeptTyped DEF InvalidInProgress
    <3> QED BY <2>1, <2>4, <3>1
  <2>6. \A v \in Filed(file'.outbox) : v <= version[Mine]
    <3>1. ASSUME NEW v \in Filed(file'.outbox) PROVE v <= version[Mine]
      <4>1. CASE v = op.version
        BY <2>2, <4>1
      <4>2. CASE v # op.version
        BY <2>3, <3>1, <4>2, KeptTyped DEF InvalidInProgress, Filed
      <4> QED BY <4>1, <4>2
    <3> QED BY <3>1
  <2>7. InvalidIsNotLost'
    <3>1. ASSUME NEW v \in confirmed', v = version[Mine]
          PROVE  file'.outbox[v].result = "invalid"
      <4>1. v = op.version /\ op.result = "invalid"
        BY <1>0, <2>1, <2>2, <3>1
      <4> QED BY <2>4, <4>1
    <3> QED BY <2>1, <3>1 DEF InvalidIsNotLost, receiver
  <2> QED BY <2>1, <2>5, <2>6, <2>7 DEF InvalidInProgress, receiver
<1>3. CASE /\ UNCHANGED <<receiver, confirmed, late>>
           /\ Filed(file'.outbox) \subseteq Filed(file.outbox)
           /\ \A v \in Filed(file.outbox) :
                file'.outbox[v].result = file.outbox[v].result
           /\ \A v \in Versions : file.outbox[v] = NoRecord
                => file'.outbox[v] = NoRecord
           /\ op'.at = "settle" => op' = op
  BY <1>0, <1>3
     DEF receiver, InvalidInProgress, InvalidIsNotLost, Overtaken, Filed,
         NoRecord, OutboxRecord
<1>4. ASSUME NEW v \in Versions, Intend(v) PROVE InvalidInProgress'
  <2>1. file.outbox[v] # NoRecord
    BY <1>4 DEF Intend, First, Due, NoRecord, OutboxRecord
  <2>2. /\ file'.outbox = [file.outbox EXCEPT ![v] = Counted(@)]
        /\ op'.at = "report" /\ UNCHANGED <<receiver, confirmed, late>>
    BY <1>4 DEF Intend
  <2>3. Counted(file.outbox[v]).result = file.outbox[v].result
    BY DEF Counted, OutboxRecord
  <2> QED BY <1>0, <1>3, <2>1, <2>2, <2>3 DEF Filed
<1>5. CASE ReportArrives
  <2>1. /\ op.version \in Filed(file.outbox) /\ op.at = "report"
        /\ UNCHANGED <<file, confirmed, late>>
    BY <1>5 DEF ReportArrives, TypeOK
  <2>2. PICK answer \in {"sent", "stale", "lost", "refused"} :
          /\ \/ /\ answer # "stale" /\ version[Mine] = op.version
                /\ Register!Judge(Mine, file.outbox[op.version].result)
             \/ /\ answer # "sent" /\ (answer = "stale" => version[Mine] # op.version)
                /\ UNCHANGED receiver
          /\ op' = Call("settle", op.version, answer, "none")
    BY <1>5 DEF ReportArrives
  <2>3. op.version <= version[Mine] /\ op.version \in Versions
    BY <2>1 DEF InvalidInProgress, Filed
  <2>4. version' = version
    BY <2>2 DEF Register!Judge, receiver
  <2>5. op'.result = "stale" => op'.version < version[Mine]
    BY <1>0, <2>2, <2>3
  <2>6. \A one, other \in late' : one = other
    BY <2>1 DEF InvalidInProgress
  <2>7. ASSUME NEW v \in confirmed, v = version[Mine]
        PROVE  \/ verdict'[Mine] = "invalid" \/ Overtaken(v)'
               \/ /\ file.outbox[v].result = "invalid"
                  /\ ~(op'.at = "settle" /\ op'.result = "sent"
                       /\ op'.version = v)
    <3>1. CASE answer # "stale" /\ version[Mine] = op.version
               /\ Register!Judge(Mine, file.outbox[op.version].result)
      <4>1. file.outbox[op.version].result = "invalid"
        BY <2>1, <2>7, <3>1 DEF InvalidInProgress, Filed
      <4>2. verdict'[Mine] = file.outbox[op.version].result
        BY <1>0, <3>1 DEF Register!Judge
      <4> QED BY <4>1, <4>2
    <3>2. CASE answer # "sent" /\ UNCHANGED receiver
      BY <2>1, <2>2, <2>7, <3>2
         DEF InvalidInProgress, InvalidIsNotLost, Overtaken, receiver
    <3> QED BY <2>2, <3>1, <3>2
  <2> QED BY <2>1, <2>4, <2>5, <2>6, <2>7, JudgedKeepsInvalid
<1>6. CASE ReportIsLate
  <2>1. /\ late = {} /\ UNCHANGED <<receiver, file, confirmed>>
        /\ late' = {Report(op.version, file.outbox[op.version].result)}
        /\ op'.at = "settle" /\ op'.result = "lost"
    BY <1>6 DEF ReportIsLate
  <2>2. \A v \in confirmed :
          v = version[Mine] => \/ verdict[Mine] = "invalid"
                               \/ file.outbox[v].result = "invalid"
    BY <2>1 DEF InvalidInProgress, InvalidIsNotLost
  <2> QED BY <2>1, <2>2, JudgedKeepsInvalid DEF receiver
<1>7. ASSUME NEW report \in late, LateReportArrives(report)
      PROVE  InvalidInProgress'
  <2>1. /\ report \in [version : Versions, result : Results, handled : BOOLEAN]
        /\ late = {report} /\ ~report.handled
    BY <1>7 DEF TypeOK, InvalidInProgress, LateReportArrives
  <2>2. PICK handled : handled = [report EXCEPT !.handled = TRUE]
    OBVIOUS
  <2>3. /\ handled.version = report.version /\ handled.result = report.result
        /\ handled.handled
    BY <2>1, <2>2
  <2>4. /\ UNCHANGED <<file, op, confirmed>> /\ late' = {handled}
    BY <1>7, <2>2 DEF LateReportArrives
  <2>5. \/ UNCHANGED receiver
        \/ /\ version[Mine] = report.version /\ version' = version
           /\ verdict'[Mine] = report.result
    BY <1>0, <1>7 DEF LateReportArrives, Register!Judge
  <2>6. version' = version
    BY <2>5 DEF receiver
  <2>7. \A v \in confirmed :
          v = version[Mine] =>
            \/ verdict'[Mine] = "invalid" \/ Overtaken(v)'
            \/ /\ file.outbox[v].result = "invalid"
               /\ ~(op'.at = "settle" /\ op'.result = "sent" /\ op'.version = v)
    <3>1. CASE UNCHANGED receiver
      BY <2>1, <2>4, <3>1
         DEF InvalidInProgress, InvalidIsNotLost, Overtaken, receiver
    <3>2. CASE version[Mine] = report.version /\ verdict'[Mine] = report.result
      <4>1. \A v \in confirmed : v = version[Mine] => Overtaken(v)'
        BY <2>3, <2>4, <3>2 DEF Overtaken
      <4> QED BY <4>1
    <3> QED BY <2>5, <3>1, <3>2
  <2>8. op'.at = "settle" /\ op'.result = "stale" => op'.version < version[Mine]
    BY <2>4 DEF InvalidInProgress
  <2> QED BY <2>4, <2>6, <2>7, <2>8, JudgedKeepsInvalid
<1>8. CASE SettleDelivered
  <2>1. /\ op.version \in Versions /\ op.at = "settle"
        /\ op.result \in {"sent", "stale"}
        /\ file'.outbox = [file.outbox EXCEPT ![op.version] = NoRecord]
        /\ op'.at = "idle" /\ UNCHANGED <<receiver, confirmed, late>>
    BY <1>8 DEF SettleDelivered, TypeOK, Filed
  <2>2. InvalidIsNotLost'
    <3>1. ASSUME NEW v \in confirmed, v = version[Mine]
          PROVE  \/ verdict[Mine] = "invalid" \/ Overtaken(v)
                 \/ file'.outbox[v].result = "invalid"
      <4>1. CASE v = op.version
        BY <1>0, <2>1, <3>1, <4>1 DEF InvalidInProgress
      <4>2. CASE v # op.version
        BY <1>0, <2>1, <3>1, <4>2
           DEF InvalidInProgress, InvalidIsNotLost, Overtaken
      <4> QED BY <4>1, <4>2
    <3> QED BY <2>1, <3>1 DEF InvalidIsNotLost, Overtaken, receiver
  <2> QED BY <1>0, <2>1, <2>2 DEF InvalidInProgress, Filed, receiver
<1>9. CASE SettleRefused
  <2>1. /\ op.version \in Filed(file.outbox)
        /\ file'.outbox = [file.outbox EXCEPT ![op.version] = Refused(@)]
        /\ op'.at = "idle" /\ UNCHANGED <<receiver, confirmed, late>>
    BY <1>9 DEF SettleRefused, TypeOK
  <2>2. Refused(file.outbox[op.version]).result = file.outbox[op.version].result
    BY DEF Refused, OutboxRecord
  <2> QED BY <1>0, <1>3, <2>1, <2>2 DEF Filed
<1>10. ASSUME NEW result \in Observations, SiteAnswers(result)
       PROVE  InvalidInProgress'
  BY <1>3, <1>10 DEF SiteAnswers
<1>11. CASE Reread
  BY <1>3, <1>11 DEF Reread
<1>12. CASE Begin \/ OutboxFull \/ FlushFeedback \/ NothingDue \/ SettleLost
            \/ Stops
  BY <1>3, <1>12
     DEF Begin, OutboxFull, FlushFeedback, NothingDue, SettleLost, Stops
<1>13. CASE UNCHANGED vars
  BY <1>3, <1>13 DEF vars
<1> QED BY <1>1, <1>2, <1>4, <1>5, <1>6, <1>7, <1>8, <1>9, <1>10, <1>11, <1>12,
           <1>13 DEF Next

\* The pause and the types, together with what the other invariants need.
LEMMA PauseIsInProgress == Spec => [](TypeOK /\ PauseInProgress)
BY TypesAndFile, InitPaused, NextPaused, PTL DEF Spec

\* While a version stays current, an invalid verdict that was written down is
\* shown by the receiver or still in the outbox, unless another report on that
\* version that outlived its client overtook it.
THEOREM InvalidIsKept == Spec => []InvalidIsNotLost
<1>1. Init => InvalidInProgress
  BY InitInvalid
<1>2. TypeOK /\ PauseInProgress /\ InvalidInProgress /\ [Next]_vars
        => InvalidInProgress'
  BY NextInvalid
<1>3. InvalidInProgress => InvalidIsNotLost
  BY DEF InvalidInProgress
<1> QED BY PauseIsInProgress, <1>1, <1>2, <1>3, PTL DEF Spec

-----------------------------------------------------------------------------
(* The pause only moves forward *)

\* The pause is about a version whose invalid verdict was written down.
PauseIsConfirmed == file.blocked \in confirmed \cup {0}

\* A pause is written together with the verdict it is about.
LEMMA NextConfirmed == PauseIsConfirmed /\ [Next]_vars => PauseIsConfirmed'
<1> SUFFICES ASSUME PauseIsConfirmed, [Next]_vars PROVE PauseIsConfirmed'
  OBVIOUS
<1>1. CASE Record
  <2>1. /\ file'.blocked = BlockedAfter
        /\ confirmed' = IF op.result = "invalid"
                        THEN confirmed \cup {op.version} ELSE confirmed
    BY <1>1 DEF Record, RecordUnder, State
  <2> QED BY <2>1 DEF BlockedAfter, PauseIsConfirmed
<1>2. CASE file'.blocked = file.blocked /\ confirmed' = confirmed
  BY <1>2 DEF PauseIsConfirmed
<1> QED BY <1>1, <1>2
        DEF Next, vars, Push, Begin, SiteAnswers, Reread, OutboxFull,
            FlushFeedback, NothingDue, Intend, ReportArrives, ReportIsLate,
            LateReportArrives, SettleDelivered, SettleRefused, SettleLost,
            Stops, State

\* The one action of PauseMovesForward.
Forward ==
  LET old == file.blocked
      new == file'.blocked
  IN  old # new /\ old # 0 =>
        \/ new > old
        \/ new = 0 /\ \E v \in Versions : v > old /\ <<v, "valid">> \in observed

\* The version a request used is later than all the paused ones, and a valid
\* answer is only written down once it was observed.
LEMMA StepForward ==
  TypeOK /\ PauseInProgress /\ EvidenceInProgress /\ PauseIsConfirmed
    /\ [Next]_vars => Forward
<1> SUFFICES ASSUME TypeOK, PauseInProgress, EvidenceInProgress,
                    PauseIsConfirmed, [Next]_vars
             PROVE  Forward
  OBVIOUS
<1>1. CASE Record
  <2>1. /\ op.at = "record" /\ op.version \in Versions
        /\ file'.blocked = BlockedAfter
    BY <1>1 DEF Record, RecordUnder, State, TypeOK
  <2>2. file.blocked # 0 => file.blocked < op.version
    BY <2>1 DEF PauseInProgress, PauseIsConfirmed
  <2>3. <<op.version, op.result>> \in observed
    BY <2>1 DEF EvidenceInProgress
  <2>4. file.blocked \in Nat /\ op.version \in Nat
    BY <2>1, ConsumerAssumption DEF TypeOK, Versions
  <2> QED BY <2>1, <2>2, <2>3, <2>4 DEF BlockedAfter, Forward
<1>2. CASE file'.blocked = file.blocked
  BY <1>2 DEF Forward
<1> QED BY <1>1, <1>2
        DEF Next, vars, Push, Begin, SiteAnswers, Reread, OutboxFull,
            FlushFeedback, NothingDue, Intend, ReportArrives, ReportIsLate,
            LateReportArrives, SettleDelivered, SettleRefused, SettleLost,
            Stops, State

\* The pause only moves on to later versions, and is only lifted when a later
\* version was found valid.
THEOREM PauseAlwaysMovesForward == Spec => PauseMovesForward
<1>1. Init => PauseIsConfirmed
  BY DEF Init, PauseIsConfirmed, Empty, State
<1>2. PauseIsConfirmed /\ [Next]_vars => PauseIsConfirmed'
  BY NextConfirmed
<1>3. Spec => []EvidenceInProgress
  BY TypesAndFile, InitEvidence, NextEvidence, PTL DEF Spec
<1>4. TypeOK /\ PauseInProgress /\ EvidenceInProgress /\ PauseIsConfirmed
        /\ [Next]_vars => [Forward]_vars
  BY StepForward
<1>5. [][Forward]_vars <=> PauseMovesForward
  BY DEF Forward, PauseMovesForward
<1> QED BY PauseIsInProgress, <1>1, <1>2, <1>3, <1>4, <1>5, PTL DEF Spec
=============================================================================
