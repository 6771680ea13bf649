------------------------------ MODULE Consumer ------------------------------
(***************************************************************************)
(* The crawler's side: CookieConsumer (consumer.py) and the state file it  *)
(* keeps (consumer_state.py) for one source.  A request uses the cookies   *)
(* of one version, classifies what the site answers, and files the verdict *)
(* in an outbox before it tries to report it.  A version found invalid     *)
(* pauses the consumer: the site is not asked again with those cookies.    *)
(*                                                                         *)
(* Any number of processes may share the state file; the file lock admits  *)
(* one at a time, so op is the one call under way.  Each step writes the   *)
(* state file at most once, as a whole; after an exception, a failed write *)
(* or the death of the process (Stops) the file is what it was and the     *)
(* lock is free.  State is loaded under the lock and saved at every step,  *)
(* so what a call holds in memory is what the file holds.                  *)
(*                                                                         *)
(* The receiver is the abstract register that Receiver is shown to         *)
(* implement.  It goes on while a call is under way.                       *)
(*                                                                         *)
(* The outbox is a list in which a record's place follows its version,     *)
(* since every request uses the newest version: it is modelled as a        *)
(* function, and its first pending record as the one of least version.     *)
(* Migration of the older file format and wait_for_update, which only      *)
(* reads, are left out.                                                    *)
(***************************************************************************)
EXTENDS Naturals, FiniteSets

CONSTANTS
  Source, Mine,   \* the sources of the receiver, and the one consumed here
  Jar, NoCookies, \* sets of cookies that apply to the requested URL, and none
  Observations,   \* what the classifier may find
  MaxAttempts,    \* MAX_FEEDBACK_ATTEMPTS
  MaxOutbox,      \* MAX_OUTBOX
  MaxVersion,     \* bound: number of snapshots pushed
  Faults          \* what may go wrong: "stop", "unreadable", "late"

Results == {"valid", "invalid", "error", "unverified"}

ASSUME ConsumerAssumption ==
  /\ Mine \in Source /\ NoCookies \notin Jar
  /\ Observations \subseteq Results
  /\ MaxAttempts \in Nat \ {0} /\ MaxOutbox \in Nat \ {0}
  /\ MaxVersion \in Nat
  /\ Faults \subseteq {"stop", "unreadable", "late"}

VARIABLES
  issued, version, jar, verdict,  \* the receiver
  file,       \* state.json
  op,         \* the call that holds the file lock
  observed,   \* history: what was found, as pairs of a version and a result
  confirmed,  \* history: versions whose invalid verdict reached state.json
  tried,      \* history: reports sent on behalf of each outbox record
  late        \* reports under way, or handled, after their client gave up

receiver == <<issued, version, jar, verdict>>
vars == <<receiver, file, op, observed, confirmed, tried, late>>

Register == INSTANCE SnapshotRegister

Versions == 1..MaxVersion
OutboxRecord(result, attempts, status) ==
  [result |-> result, attempts |-> attempts, status |-> status]
NoRecord == OutboxRecord("none", 0, "none")
Records == [result : Results, attempts : 0..MaxAttempts,
            status : {"pending", "blocked", "exhausted"}]

\* Version 0 stands for no version.
State(blocked, outbox) == [blocked |-> blocked, outbox |-> outbox]
Empty == State(0, [v \in Versions |-> NoRecord])

\* The call under way: its next step, the version it is about, what the site
\* or the receiver answered, and what became of the snapshot meanwhile.
Call(at, v, result, seen) ==
  [at |-> at, version |-> v, result |-> result, seen |-> seen]

Idle == Call("idle", 0, "none", "none")
Flushing == Call("flush", 0, "none", "none")

Init ==
  /\ Register!Init
  /\ file = Empty
  /\ op = Idle
  /\ observed = {} /\ confirmed = {}
  /\ tried = [v \in Versions |-> 0]
  /\ late = {}

Push(cookies) ==
  /\ issued < MaxVersion
  /\ Register!Replace(Mine, cookies)
  /\ UNCHANGED <<file, op, observed, confirmed, tried, late>>

-----------------------------------------------------------------------------
(* CookieConsumer.request *)

\* Cookies are read before anything else and the state file is seen to be
\* writable before they are sent.
Begin ==
  /\ op = Idle
  /\ version[Mine] # 0 /\ jar[Mine] # NoCookies
  /\ file.blocked # version[Mine]
  /\ op' = Call("send", version[Mine], "none", "none")
  /\ UNCHANGED <<receiver, file, observed, confirmed, tried, late>>

SiteAnswers(result) ==
  /\ op.at = "send"
  /\ op' = Call("reread", op.version, result, "none")
  /\ observed' = observed \cup {<<op.version, result>>}
  /\ UNCHANGED <<receiver, file, confirmed, tried, late>>

\* The snapshot is read again: it may have been replaced, or be unreadable.
Reread ==
  /\ op.at = "reread"
  /\ \E seen \in {IF version[Mine] = op.version THEN "same" ELSE "other"}
                 \cup ({"unreadable"} \cap Faults) :
       op' = Call("record", op.version, op.result, seen)
  /\ UNCHANGED <<receiver, file, observed, confirmed, tried, late>>

\* Faulty BlockedAfter: nothing is concluded from an unreadable snapshot.
BlockedOnlyIfSame ==
  IF op.result = "invalid" /\ op.seen = "same" THEN op.version
  ELSE IF op.result = "valid" /\ op.seen = "same" THEN 0
  ELSE file.blocked

\* Faulty BlockedAfter: any answer but an invalid login lifts the pause.
LiftedByAnyAnswer ==
  IF op.result = "invalid" /\ op.seen # "other" THEN op.version
  ELSE IF op.result # "invalid" /\ op.seen = "same" THEN 0
  ELSE file.blocked

BlockedAfter ==
  IF op.result = "invalid" /\ op.seen # "other" THEN op.version
  ELSE IF op.result = "valid" /\ op.seen = "same" THEN 0
  ELSE file.blocked

\* Records of other versions go once this version was seen to be current.
Kept ==
  [v \in Versions |-> IF op.seen = "same" /\ v # op.version
                      THEN NoRecord ELSE file.outbox[v]]

Filed(outbox) == {v \in Versions : outbox[v] # NoRecord}

\* Faulty Merged: a record keeps the result it was created with.
MergedKeepsFirst(record, result) ==
  IF record = NoRecord
  THEN OutboxRecord(result, 0, "pending")
  ELSE record

\* ConsumerState.enqueue: one record and one budget per version.
Merged(record, result) ==
  IF record = NoRecord
  THEN OutboxRecord(result, 0, "pending")
  ELSE IF record.result = "invalid" THEN record
  ELSE OutboxRecord(result, record.attempts, record.status)

HasPlace(v) == Kept[v] # NoRecord \/ Cardinality(Filed(Kept)) < MaxOutbox

RecordUnder(v) ==
  /\ op.at = "record"
  /\ HasPlace(v)
  /\ file' = State(BlockedAfter, [Kept EXCEPT ![v] = Merged(@, op.result)])
  /\ op' = Flushing
  /\ confirmed' = IF op.result = "invalid"
                  THEN confirmed \cup {op.version} ELSE confirmed
  /\ tried' = [w \in Versions |-> IF w \in Filed(Kept) THEN tried[w] ELSE 0]
  /\ UNCHANGED <<receiver, observed, late>>

\* Faulty Record: the verdict is filed under the version stored by now.
RecordUnderCurrent == RecordUnder(version[Mine])

Record == RecordUnder(op.version)

\* enqueue raises before anything was saved.
OutboxFull ==
  /\ op.at = "record"
  /\ ~HasPlace(op.version)
  /\ op' = Idle
  /\ UNCHANGED <<receiver, file, observed, confirmed, tried, late>>

-----------------------------------------------------------------------------
(* CookieConsumer._flush: at most one report, its attempt counted first *)

FlushFeedback ==
  /\ op = Idle
  /\ op' = Flushing
  /\ UNCHANGED <<receiver, file, observed, confirmed, tried, late>>

\* Faulty Due: exhausted records are tried again.
DueOrExhausted ==
  {v \in Versions : file.outbox[v].status \in {"pending", "exhausted"}}

Due == {v \in Versions : file.outbox[v].status = "pending"}

NothingDue ==
  /\ op.at = "flush" /\ Due = {}
  /\ op' = Idle
  /\ UNCHANGED <<receiver, file, observed, confirmed, tried, late>>

\* Faulty Counted: the budget is found spent one attempt late.
CountedLate(record) ==
  OutboxRecord(record.result, record.attempts + 1,
               IF record.attempts = MaxAttempts THEN "exhausted" ELSE "pending")

Counted(record) ==
  OutboxRecord(record.result, record.attempts + 1,
               IF record.attempts + 1 = MaxAttempts
               THEN "exhausted" ELSE "pending")

First(v) == v \in Due /\ \A w \in Due : v <= w

\* Faulty Intend: the attempt is not written down before the report.
IntendInMemory(v) ==
  /\ op.at = "flush" /\ First(v)
  /\ op' = Call("report", v, "none", "none")
  /\ UNCHANGED <<receiver, file, observed, confirmed, tried, late>>

Intend(v) ==
  /\ op.at = "flush" /\ First(v)
  /\ file' = State(file.blocked, [file.outbox EXCEPT ![v] = Counted(@)])
  /\ op' = Call("report", v, "none", "none")
  /\ UNCHANGED <<receiver, observed, confirmed, tried, late>>

\* POST /v1/feedback: the request may be lost, and so may the answer.
ReportArrives ==
  LET current == version[Mine] = op.version
      judged == Register!Judge(Mine, file.outbox[op.version].result)
  IN  /\ op.at = "report"
      /\ \E answer \in {"sent", "stale", "lost", "refused"} :
           /\ \/ answer # "stale" /\ current /\ judged
              \/ answer # "sent" /\ (answer = "stale" => ~current)
                 /\ UNCHANGED receiver
           /\ op' = Call("settle", op.version, answer, "none")
      /\ tried' = [tried EXCEPT ![op.version] = @ + 1]
      /\ UNCHANGED <<file, observed, confirmed, late>>

\* The client gives up after its timeout, and the request is still under way
\* (bound: once).
Report(v, result) == [version |-> v, result |-> result, handled |-> FALSE]

ReportIsLate ==
  /\ "late" \in Faults /\ late = {}
  /\ op.at = "report"
  /\ op' = Call("settle", op.version, "lost", "none")
  /\ late' = {Report(op.version, file.outbox[op.version].result)}
  /\ tried' = [tried EXCEPT ![op.version] = @ + 1]
  /\ UNCHANGED <<receiver, file, observed, confirmed>>

\* The receiver handles it whenever it comes: files it, or refuses it.
LateReportArrives(report) ==
  /\ ~report.handled
  /\ \/ version[Mine] = report.version /\ Register!Judge(Mine, report.result)
     \/ UNCHANGED receiver
  /\ late' = {[report EXCEPT !.handled = TRUE]}
  /\ UNCHANGED <<file, op, observed, confirmed, tried>>

\* Delivered and refused as stale: the record goes.
SettleDelivered ==
  /\ op.at = "settle" /\ op.result \in {"sent", "stale"}
  /\ file' = State(file.blocked,
                   [file.outbox EXCEPT ![op.version] = NoRecord])
  /\ op' = Idle
  /\ tried' = [tried EXCEPT ![op.version] = 0]
  /\ UNCHANGED <<receiver, observed, confirmed, late>>

Refused(record) == OutboxRecord(record.result, record.attempts, "blocked")

\* A failed authentication or protocol blocks the record until a human looks.
SettleRefused ==
  /\ op.at = "settle" /\ op.result = "refused"
  /\ file' = State(file.blocked,
                   [file.outbox EXCEPT ![op.version] = Refused(@)])
  /\ op' = Idle
  /\ UNCHANGED <<receiver, observed, confirmed, tried, late>>

SettleLost ==
  /\ op.at = "settle" /\ op.result = "lost"
  /\ op' = Idle
  /\ UNCHANGED <<receiver, file, observed, confirmed, tried, late>>

\* An exception, a failed write, or the death of the process.
Stops ==
  /\ "stop" \in Faults /\ op # Idle
  /\ op' = Idle
  /\ UNCHANGED <<receiver, file, observed, confirmed, tried, late>>

Next ==
  \/ \E cookies \in Jar \cup {NoCookies} : Push(cookies)
  \/ Begin
  \/ \E result \in Observations : SiteAnswers(result)
  \/ Reread \/ Record \/ OutboxFull
  \/ FlushFeedback \/ NothingDue
  \/ \E v \in Versions : Intend(v)
  \/ ReportArrives \/ ReportIsLate
  \/ \E report \in late : LateReportArrives(report)
  \/ SettleDelivered \/ SettleRefused \/ SettleLost
  \/ Stops

Spec == Init /\ [][Next]_vars

-----------------------------------------------------------------------------
(* Properties *)

Stages == {"idle", "send", "reread", "record", "flush", "report", "settle"}

\* Types; a request is about a version and its record, once reported, exists
\* until it is settled.
TypeOK ==
  /\ file \in [blocked : 0..MaxVersion,
               outbox : [Versions -> Records \cup {NoRecord}]]
  /\ op \in [at : Stages, version : 0..MaxVersion,
             result : Results \cup {"none", "sent", "stale", "lost", "refused"},
             seen : {"none", "same", "other", "unreadable"}]
  /\ op.at \in {"send", "reread", "record"} => op.version \in Versions
  /\ op.at \in {"reread", "record"} => op.result \in Results
  /\ op.at \in {"report", "settle"} => op.version \in Filed(file.outbox)
  /\ issued \in 0..MaxVersion /\ version \in [Source -> 0..MaxVersion]
  /\ verdict \in [Source -> Results]
  /\ observed \subseteq Versions \X Results
  /\ confirmed \subseteq Versions
  /\ tried \in [Versions -> Nat]
  /\ late \subseteq [version : Versions, result : Results, handled : BOOLEAN]

\* Whatever sequence of calls, failures and deaths wrote it, the state file
\* passes the checks of ConsumerState.load: a file that failed them would stop
\* the crawler for good.
FileLoads ==
  /\ Cardinality(Filed(file.outbox)) <= MaxOutbox
  /\ \A v \in Filed(file.outbox) :
       file.outbox[v].status = "pending" => file.outbox[v].attempts < MaxAttempts

\* Once an invalid verdict is in the state file, the cookies it is about are
\* never sent again, by no process and after no failure
\* (consumer-recovery.md:64).
PauseHolds == op.at = "send" => op.version \notin confirmed

\* Why PauseHolds: a confirmed version that is still current is the paused one,
\* and a request under way uses a version newer than all the confirmed ones.
PauseInProgress ==
  /\ version[Mine] <= issued
  /\ \A v \in confirmed : v <= version[Mine]
                          /\ (v = version[Mine] => file.blocked = v)
  /\ op.at \in {"send", "reread", "record"} =>
       /\ op.version <= version[Mine]
       /\ \A v \in confirmed : v < op.version
  /\ op.at = "record" /\ op.seen = "other" => op.version < version[Mine]

\* The pause only moves on to later versions, and is only lifted when a later
\* version was found valid; errors and lost reports do not lift it.
PauseMovesForward ==
  [][LET old == file.blocked
         new == file'.blocked
     IN  old # new /\ old # 0 =>
           \/ new > old
           \/ new = 0 /\ \E v \in Versions : v > old /\ <<v, "valid">> \in observed
    ]_vars

\* While a version stays current, an invalid verdict that was written down is
\* either what the receiver shows or still in the outbox: an error observed
\* earlier, a lost answer or a stale one does not stand in for it.  Only another
\* report on that version that outlived its client can have overtaken it.
InvalidIsNotLost ==
  \A v \in confirmed :
    v = version[Mine] => \/ verdict[Mine] = "invalid"
                         \/ file.outbox[v].result = "invalid"
                         \/ \E report \in late : report.version = v
                              /\ report.handled /\ report.result = verdict[Mine]

\* The receiver only shows verdicts that were observed with the very cookies
\* they are filed for.
VerdictsAreEvidence ==
  verdict[Mine] # "unverified" => <<version[Mine], verdict[Mine]>> \in observed

\* A record is reported at most MaxAttempts times, also when processes die
\* between counting, sending and settling.
FeedbackBudget == \A v \in Versions : tried[v] <= MaxAttempts

\* Why FeedbackBudget: no report is sent that was not counted in the file.
SentWereCounted ==
  \A v \in Versions :
    tried[v] + (IF op.at = "report" /\ op.version = v THEN 1 ELSE 0)
      <= file.outbox[v].attempts

\* As long as no process dies and every write succeeds, cookies found invalid
\* are not sent again even if the snapshot could not be checked ("Retain the
\* invalid version when current storage cannot be checked", consumer.py:133).
InvalidIsRetained == op.at = "send" => <<op.version, "invalid">> \notin observed
=============================================================================
