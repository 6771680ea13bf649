---------------------------- MODULE LoginMonitor ----------------------------
(***************************************************************************)
(* The extension's optional reminders: LoginMonitor (login_monitor.js) and *)
(* the events of background.js that run it.  On an alarm it asks the       *)
(* receiver for the status of the approved sources and shows a notice for  *)
(* each that needs attention; what it has shown is saved when it is done.  *)
(*                                                                         *)
(* recover and check run one after another (serial); a step is what runs   *)
(* between two awaits, and in between the user may change the settings,    *)
(* the receiver's status may change and the browser may kill the worker.   *)
(* A check that waits for its turn is an alarm that has yet to fire.       *)
(*                                                                         *)
(* The fifteen minutes after a notice are over at some time.               *)
(***************************************************************************)
EXTENDS Naturals, FiniteSets

CONSTANTS
  Source,         \* the sources of the receiver
  Kinds,          \* what needs attention: "invalid", "expired", "stale"
  None,           \* nothing
  MaxVersion,     \* bound: snapshots of a source
  MaxConnection,  \* bound: connections used
  MaxDeaths       \* bound: how often the worker is killed at work

ASSUME LoginMonitorAssumption ==
  /\ Kinds \subseteq {"invalid", "expired", "stale"}
  /\ None \notin (1..MaxVersion) \X Kinds
  /\ MaxVersion \in Nat \ {0} /\ MaxConnection \in Nat \ {0}
  /\ MaxDeaths \in Nat

VARIABLES
  settings,  \* connection, polling, and the approved sources that are enabled
  remote,    \* the receiver's status of each source
  saved,     \* LOGIN_STATE_KEY: what was shown, and for which connection
  alarm,     \* LOGIN_ALARM is set
  due,       \* recover has been asked for
  task,      \* the operation under way
  deaths,    \* how often the worker was killed
  told,      \* history: the condition last shown of each source
  recent,    \* history: that was less than fifteen minutes ago
  left,      \* history: the source has not been in it all the time since then
  excused    \* history: since then the record was lost with the worker, or
             \* reminders were not wanted: switched off, the source revoked,
             \* or the connection changed

history == <<told, recent, left, excused>>
world == <<settings, remote, deaths>>
vars == <<settings, remote, saved, alarm, due, task, deaths, history>>

Condition == (1..MaxVersion) \X Kinds        \* fingerprint in the code

\* kind "fine": nothing to attend to.  disposed: the incident is acknowledged,
\* or snoozed for some more time, or what the receiver knows cannot be read.
Status ==
  {status \in [version : 1..MaxVersion, kind : Kinds \cup {"fine"},
               disposed : BOOLEAN] : status.disposed => status.kind \in Kinds}

\* Faulty ConditionOf: one version is as good as another.
KindOf(status) == status.kind

ConditionOf(status) == <<status.version, status.kind>>

\* What was shown of a source: the condition, forgotten when the source was
\* seen to be fine, and whether less than fifteen minutes ago.
Item(condition, cooling) ==
  [known |-> TRUE, condition |-> condition, cooling |-> cooling]
Unseen == [known |-> FALSE, condition |-> None, cooling |-> FALSE]
NothingSeen == [s \in Source |-> Unseen]

\* The operation under way: its next step, its connection, the status it
\* received, the sources it has yet to look at, its copy of what was shown, the
\* source whose notice it shows, and those shown and not saved.
Idle == [at |-> "idle", connection |-> 0, status |-> <<>>, todo |-> {},
         seen |-> NothingSeen, source |-> None, unsaved |-> {}]

Init ==
  /\ settings = [connection |-> 1, polling |-> TRUE, active |-> Source]
  /\ remote = [s \in Source |->
                 [version |-> 1, kind |-> "fine", disposed |-> FALSE]]
  /\ saved = [connection |-> 0, seen |-> NothingSeen]
  /\ alarm = FALSE /\ due = TRUE
  /\ task = Idle
  /\ deaths = 0
  /\ told = [s \in Source |-> None]
  /\ recent = [s \in Source |-> FALSE]
  /\ left = [s \in Source |-> TRUE]
  /\ excused = [s \in Source |-> FALSE]

-----------------------------------------------------------------------------
(* The operations *)

Wanted == settings.polling /\ settings.active # {}

\* Faulty Context: what was shown on another connection counts.
ContextOfAny ==
  [s \in Source |-> IF s \in settings.active THEN saved.seen[s] ELSE Unseen]

\* What is left of the stored state under the current settings.
Context ==
  [s \in Source |->
     IF saved.connection = settings.connection /\ s \in settings.active
     THEN saved.seen[s] ELSE Unseen]

Begin(at, seen) ==
  task' = [Idle EXCEPT !.at = at, !.connection = settings.connection,
                       !.todo = settings.active, !.seen = seen]

\* recover: with nothing to poll for, the alarm is cleared and all is forgotten.
BeginRecover ==
  /\ task.at = "idle" /\ due
  /\ due' = FALSE
  /\ IF Wanted
     THEN Begin("arm", Context) /\ UNCHANGED alarm
     ELSE Begin("save", NothingSeen) /\ alarm' = FALSE
  /\ UNCHANGED <<world, saved, history>>

\* alarms.get, then create where there is none.
Arm ==
  /\ task.at = "arm"
  /\ alarm' = TRUE
  /\ task' = [task EXCEPT !.at = "save"]
  /\ UNCHANGED <<world, saved, due, history>>

\* check, when the alarm fires.
BeginCheck ==
  /\ task.at = "idle" /\ alarm
  /\ IF Wanted THEN Begin("fetch", Context) ELSE UNCHANGED task
  /\ UNCHANGED <<world, saved, alarm, due, history>>

\* GET /v1/status
Fetch ==
  /\ task.at = "fetch"
  /\ task' = [task EXCEPT !.at = "look", !.status = remote]
  /\ UNCHANGED <<world, saved, alarm, due, history>>

\* The receiver is out of reach, or sends no sources.
FetchFails ==
  /\ task.at = "fetch"
  /\ task' = Idle
  /\ UNCHANGED <<world, saved, alarm, due, history>>

SameConnection == settings.connection = task.connection

Polled(s) == settings.polling /\ s \in settings.active

\* Faulty Repeated: the same condition is shown again after fifteen minutes.
RepeatedSoon(item, condition) == item.known /\ item.cooling

\* Shown already, or shown something else less than fifteen minutes ago.
Repeated(item, condition) ==
  item.known /\ (item.condition = condition \/ item.cooling)

Notable(s) ==
  /\ Polled(s)
  /\ task.status[s].kind \in Kinds /\ ~task.status[s].disposed
  /\ ~Repeated(task.seen[s], ConditionOf(task.status[s]))

\* Faulty Pass: a notice counts as shown when it could not be.
PassRecorded(s) ==
  /\ task.at = "look" /\ s \in task.todo /\ SameConnection
  /\ task' = [task EXCEPT !.todo = @ \ {s},
                !.seen[s] = IF Notable(s)
                            THEN Item(ConditionOf(task.status[s]), TRUE) ELSE @]
  /\ UNCHANGED <<world, saved, alarm, due, history>>

\* Nothing to show of this source, or its notice could not be shown; a source
\* that is fine may be shown again.
Pass(s) ==
  /\ task.at = "look" /\ s \in task.todo /\ SameConnection
  /\ task' = [task EXCEPT !.todo = @ \ {s},
                          !.seen[s].condition =
                             IF Polled(s) /\ task.status[s].kind = "fine"
                             THEN None ELSE @]
  /\ UNCHANGED <<world, saved, alarm, due, history>>

\* notifications.create
Show(s) ==
  /\ task.at = "look" /\ s \in task.todo /\ SameConnection /\ Notable(s)
  /\ task' = [task EXCEPT !.at = "shown", !.source = s, !.todo = @ \ {s},
                          !.unsaved = @ \cup {s}]
  /\ told' = [told EXCEPT ![s] = ConditionOf(task.status[s])]
  /\ recent' = [recent EXCEPT ![s] = TRUE]
  /\ left' = [left EXCEPT ![s] =
                ConditionOf(remote[s]) # ConditionOf(task.status[s])]
  /\ excused' = [excused EXCEPT ![s] = FALSE]
  /\ UNCHANGED <<world, saved, alarm, due>>

Shown ==
  /\ task.at = "shown" /\ SameConnection
  /\ task' = [task EXCEPT !.at = "look", !.source = None,
                !.seen[task.source] =
                   Item(ConditionOf(task.status[task.source]), TRUE)]
  /\ UNCHANGED <<world, saved, alarm, due, history>>

\* Every source has been looked at.
EndCheck ==
  /\ task.at = "look" /\ task.todo = {}
  /\ task' = [task EXCEPT !.at = "save"]
  /\ UNCHANGED <<world, saved, alarm, due, history>>

\* The connection is another one: the operation ends, and nothing is saved.
Cancel ==
  /\ \/ task.at = "look" /\ task.todo # {}
     \/ task.at \in {"shown", "save"}
  /\ ~SameConnection
  /\ task' = Idle
  /\ UNCHANGED <<world, saved, alarm, due, history>>

\* save reads the settings ...
Save ==
  /\ task.at = "save" /\ SameConnection
  /\ task' = [task EXCEPT !.at = "write"]
  /\ UNCHANGED <<world, saved, alarm, due, history>>

\* Faulty Write: what was shown for sources that are fine now is left out.
WriteFingerprints ==
  /\ task.at = "write"
  /\ saved' = [connection |-> task.connection,
               seen |-> [s \in Source |-> IF task.seen[s].condition = None
                                          THEN Unseen ELSE task.seen[s]]]
  /\ task' = Idle
  /\ UNCHANGED <<world, alarm, due, history>>

\* ... and then writes the state.
Write ==
  /\ task.at = "write"
  /\ saved' = [connection |-> task.connection, seen |-> task.seen]
  /\ task' = Idle
  /\ UNCHANGED <<world, alarm, due, history>>

-----------------------------------------------------------------------------
(* The worker and the user *)

\* Where a record was lost, or may be dropped, the notice may be shown again.
Excuse(sources) ==
  /\ excused' = [s \in Source |-> excused[s] \/ s \in sources]
  /\ UNCHANGED <<recent, left>>

\* startup(): on every evaluation of the worker, whatever it is started for.
Startup ==
  /\ ~due /\ due' = TRUE
  /\ UNCHANGED <<world, saved, alarm, task, history>>

\* The worker is killed, and with it what it has not saved.
Die ==
  /\ deaths < MaxDeaths /\ (task.at # "idle" \/ due)
  /\ deaths' = deaths + 1
  /\ due' = FALSE /\ task' = Idle
  /\ Excuse(task.unsaved)
  /\ UNCHANGED <<settings, remote, saved, alarm, told>>

\* Settings are stored; the message that they were may get lost.
Change(new, dropped) ==
  /\ settings' = new
  /\ due' \in {due, TRUE}
  /\ Excuse(dropped)
  /\ UNCHANGED <<remote, saved, alarm, task, deaths>>

\* saveSettings with another endpoint, token or label: approvals are gone.
ChangeConnection ==
  /\ settings.connection < MaxConnection
  /\ Change([settings EXCEPT !.connection = @ + 1, !.active = {}], Source)
  /\ told' = [s \in Source |-> None]

\* Reminders are switched off or on.
SwitchPolling ==
  /\ Change([settings EXCEPT !.polling = ~@], Source)
  /\ UNCHANGED told

\* Approve, or have an approved source enabled.
Approve(s) ==
  /\ s \notin settings.active
  /\ Change([settings EXCEPT !.active = @ \cup {s}], {})
  /\ UNCHANGED told

\* Revoke, or approve it paused.
Revoke(s) ==
  /\ s \in settings.active
  /\ Change([settings EXCEPT !.active = @ \ {s}], {s})
  /\ UNCHANGED told

-----------------------------------------------------------------------------
(* The receiver and time *)

StatusChanges(s, status) ==
  /\ status # remote[s] /\ status.version \in {remote[s].version,
                                              remote[s].version + 1}
  /\ remote' = [remote EXCEPT ![s] = status]
  /\ left' = [left EXCEPT ![s] = @ \/ ConditionOf(status) # told[s]]
  /\ UNCHANGED <<settings, saved, alarm, due, task, deaths, told, recent,
                 excused>>

\* Fifteen minutes have passed since the last notice.
CooldownEnds(s) ==
  /\ recent[s] \/ saved.seen[s].cooling \/ task.seen[s].cooling
  /\ recent' = [recent EXCEPT ![s] = FALSE]
  /\ saved' = [saved EXCEPT !.seen[s].cooling = FALSE]
  /\ task' = [task EXCEPT !.seen[s].cooling = FALSE]
  /\ UNCHANGED <<world, alarm, due, told, left, excused>>

-----------------------------------------------------------------------------
Step == \/ BeginRecover \/ Arm \/ Fetch \/ FetchFails
        \/ Shown \/ EndCheck \/ Cancel \/ Save \/ Write
        \/ \E s \in Source : Pass(s)

User == \/ ChangeConnection \/ SwitchPolling
        \/ \E s \in Source : Approve(s) \/ Revoke(s)

Next ==
  \/ Step \/ BeginCheck \/ Startup \/ Die \/ User
  \/ \E s \in Source : Show(s) \/ CooldownEnds(s)
  \/ \E s \in Source, status \in Status : StatusChanges(s, status)

Spec == Init /\ [][Next]_vars

\* Operations go on.  Chrome evaluates the worker again and again, as it kills
\* an idle one after 30 s and starts it for every event; the alarm is periodic,
\* and a check gets its turn (serial is a queue).  Nothing can be shown to
\* somebody whose receiver is never reached or whose notices always fail.
FairSpec ==
  /\ Spec
  /\ WF_vars(Step) /\ WF_vars(Startup) /\ SF_vars(BeginCheck) /\ SF_vars(Fetch)
  /\ \A s \in Source : SF_vars(Show(s)) /\ WF_vars(CooldownEnds(s))

-----------------------------------------------------------------------------
(* Properties *)

Items == [known : BOOLEAN, condition : Condition \cup {None},
          cooling : BOOLEAN]
Tasks == [at : {"idle", "arm", "fetch", "look", "shown", "save", "write"},
          connection : 0..MaxConnection,
          status : {<<>>} \cup [Source -> Status], todo : SUBSET Source,
          seen : [Source -> Items], source : Source \cup {None},
          unsaved : SUBSET Source]

\* Types; a notice under way is of a source that needs attention and has yet to
\* be recorded, no record is for a connection to come, and what is not saved yet
\* belongs to a check that has its answer.
TypeOK ==
  /\ settings \in [connection : 1..MaxConnection, polling : BOOLEAN,
                   active : SUBSET Source]
  /\ remote \in [Source -> Status]
  /\ saved \in [connection : 0..MaxConnection, seen : [Source -> Items]]
  /\ task \in Tasks
  /\ saved.connection <= settings.connection
  /\ task.connection <= settings.connection
  /\ task.at \in {"look", "shown"} => task.status \in [Source -> Status]
  /\ task.at = "shown" => /\ task.source \in task.unsaved
                          /\ task.status[task.source].kind \in Kinds
  /\ task.at \in {"idle", "arm", "fetch"} => task.unsaved = {}
  /\ alarm \in BOOLEAN /\ due \in BOOLEAN /\ deaths \in 0..MaxDeaths
  /\ told \in [Source -> Condition \cup {None}]
  /\ recent \in [Source -> BOOLEAN] /\ left \in [Source -> BOOLEAN]
  /\ excused \in [Source -> BOOLEAN]

\* The same condition of the same version is shown once, for as long as the
\* source stays in it, across all deaths of the worker but those that lose the
\* record, and while reminders stay wanted on this connection.
ShownOnce ==
  [][\A s \in Source : Show(s) =>
       \/ left[s] \/ told[s] # ConditionOf(task.status[s])
       \/ excused[s]]_vars

\* Two notices about a source are fifteen minutes apart, whatever conditions and
\* versions it went through in between.  The exceptions are those of ShownOnce:
\* the record of the first was lost with the worker before it was saved, or
\* reminders were switched off, the source revoked or paused, or the connection
\* changed in between, for then the record may be dropped (login_monitor.js:42-
\* 50, 63-66).
ShownSparsely ==
  [][\A s \in Source : Show(s) => ~recent[s] \/ excused[s]]_vars

\* What a recorded notice needs to be found again: reminders are wanted, the
\* operation under way is for this connection, and so is what was saved.
Findable(s) ==
  /\ settings.polling /\ s \in settings.active
  /\ task.at # "idle" => SameConnection
  /\ s \notin task.unsaved => saved.connection = settings.connection

BeingRecorded(s) == task.at = "shown" /\ task.source = s

Cools(item) == item.known /\ item.cooling

\* Why ShownSparsely: the fifteen minutes are on record, in what was saved and
\* in what the operation under way goes by.
SparselyInv ==
  \A s \in Source : recent[s] /\ ~excused[s] =>
    /\ Findable(s)
    /\ task.at # "idle" => Cools(task.seen[s]) \/ BeingRecorded(s)
    /\ s \notin task.unsaved => Cools(saved.seen[s])

Remembers(s, item) == item.known /\ item.condition = told[s]

\* Why ShownOnce: so is the condition, as long as the source stays in it; and a
\* source still to be looked at was in it when the status was fetched.
OnceInv ==
  \A s \in Source : ~left[s] /\ ~excused[s] =>
    /\ Findable(s)
    /\ told[s] \in Condition /\ told[s] = ConditionOf(remote[s])
    /\ task.at # "idle" => Remembers(s, task.seen[s]) \/ BeingRecorded(s)
    /\ BeingRecorded(s) => told[s] = ConditionOf(task.status[s])
    /\ task.at \in {"look", "shown"} /\ s \in task.todo =>
         told[s] = ConditionOf(task.status[s])
    /\ s \notin task.unsaved => Remembers(s, saved.seen[s])

\* The item is that of a notice that was shown on this connection, and of the
\* last one unless a record was lost since; or its condition was forgotten when
\* the source was seen to be fine.
WasShown(s, item) ==
  item.known => /\ told[s] # None
                /\ item.condition \in {None, told[s]} \/ excused[s]

\* Nothing is kept from the user for a notice that never reached them: whatever
\* a check goes by when it passes over a source, in storage and in its copy, was
\* shown, and on this connection, though notices fail, workers are killed
\* between a notice and its record, and the connection changes at any await.
RecordedWasShown ==
  \A s \in Source :
    /\ saved.connection = settings.connection /\ s \notin task.unsaved
         => WasShown(s, saved.seen[s])
    /\ task.at # "idle" /\ SameConnection /\ ~BeingRecorded(s)
         => WasShown(s, task.seen[s])

\* Why RecordedWasShown: a notice under way is the last one shown, and nothing
\* was saved since an operation that is about another connection began.
RecordedInv ==
  /\ task.at # "idle" => saved.connection <= task.connection
  /\ \A s \in task.unsaved : SameConnection => told[s] # None
  /\ task.at = "shown" /\ SameConnection =>
       told[task.source] = ConditionOf(task.status[task.source])

\* What needs attention, and goes on doing so, is brought to the user's.
Needs(s) ==
  /\ settings.polling /\ s \in settings.active
  /\ remote[s].kind \in Kinds /\ ~remote[s].disposed

AttentionIsDrawn ==
  \A s \in Source : Needs(s) ~> (~Needs(s) \/ told[s] = ConditionOf(remote[s]))
=============================================================================
