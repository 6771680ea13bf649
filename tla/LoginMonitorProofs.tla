------------------------- MODULE LoginMonitorProofs -------------------------
(***************************************************************************)
(* What holds of LoginMonitor for every set of sources, every number of    *)
(* versions and connections and any number of deaths of the worker.        *)
(***************************************************************************)
EXTENDS LoginMonitor, TLAPS

\* A status that needs attention has a condition.
LEMMA StatusHasCondition ==
  ASSUME NEW status \in Status, status.kind \in Kinds
  PROVE  ConditionOf(status) \in Condition
BY DEF Status, ConditionOf, Condition

\* Records of what was shown.
LEMMA ItemTyped ==
  ASSUME NEW condition \in Condition, NEW cooling \in BOOLEAN
  PROVE  Item(condition, cooling) \in Items
BY DEF Item, Items

\* Nothing seen is a state of records, and nothing of it cools down.
LEMMA NothingTyped ==
  /\ Unseen \in Items /\ NothingSeen \in [Source -> Items]
  /\ \A s \in Source : NothingSeen[s] = Unseen
  /\ ~Unseen.cooling
BY DEF Unseen, Items, NothingSeen

\* The operation that is not there.
LEMMA IdleTyped ==
  /\ Idle \in Tasks /\ Idle.at = "idle" /\ Idle.unsaved = {}
  /\ Idle.connection = 0 /\ Idle.seen = NothingSeen
BY NothingTyped, LoginMonitorAssumption DEF Idle, Tasks

\* What is taken over from the stored state, for an approved source of the same
\* connection unchanged.
LEMMA ContextTyped ==
  ASSUME TypeOK
  PROVE  /\ Context \in [Source -> Items]
         /\ \A s \in Source :
              saved.connection = settings.connection /\ s \in settings.active
                => Context[s] = saved.seen[s]
BY NothingTyped DEF Context, TypeOK

\* The settings hold a connection that was used.
LEMMA SettingsTyped ==
  ASSUME TypeOK
  PROVE  /\ settings.connection \in Nat /\ settings.connection <= MaxConnection
         /\ task.connection \in Nat /\ saved.connection \in Nat
BY LoginMonitorAssumption DEF TypeOK, Tasks

\* An operation begins with a copy of the settings' connection and sources.
LEMMA BegunTyped ==
  ASSUME TypeOK, NEW at \in {"arm", "save", "fetch"},
         NEW seen \in [Source -> Items], Begin(at, seen)
  PROVE  /\ task' \in Tasks /\ task'.at = at /\ task'.seen = seen
         /\ task'.connection = settings.connection
         /\ task'.unsaved = {} /\ task'.todo = settings.active
         /\ task'.connection <= settings.connection
<1>1. settings.connection \in 0..MaxConnection
      /\ settings.active \in SUBSET Source
  BY LoginMonitorAssumption DEF TypeOK
<1>2. task' = [Idle EXCEPT !.at = at, !.connection = settings.connection,
                           !.todo = settings.active, !.seen = seen]
  BY DEF Begin
<1>3. /\ task' \in Tasks /\ task'.at = at /\ task'.seen = seen
      /\ task'.connection = settings.connection
      /\ task'.unsaved = {} /\ task'.todo = settings.active
  BY <1>1, <1>2, IdleTyped DEF Tasks
<1>4. settings.connection <= settings.connection
  BY SettingsTyped
<1> QED BY <1>3, <1>4

\* Passing over a source changes no more than the condition on its record.
LEMMA Passed ==
  ASSUME TypeOK, NEW s \in Source, Pass(s)
  PROVE  /\ task' = [task EXCEPT !.todo = task.todo \ {s}, !.seen = task'.seen]
         /\ task'.seen \in [Source -> Items]
         /\ \A r \in Source : r # s => task'.seen[r] = task.seen[r]
         /\ task'.seen[s].known = task.seen[s].known
         /\ task'.seen[s].cooling = task.seen[s].cooling
         /\ ~(Polled(s) /\ task.status[s].kind = "fine") =>
              task'.seen[s].condition = task.seen[s].condition
<1>1. task \in Tasks /\ task.seen \in [Source -> Items]
  BY DEF TypeOK, Tasks
<1>2. PICK condition : condition = IF Polled(s) /\ task.status[s].kind = "fine"
                                   THEN None ELSE task.seen[s].condition
  OBVIOUS
<1>3. PICK item : item = [task.seen[s] EXCEPT !.condition = condition]
  OBVIOUS
<1>4. PICK seen : seen = [task.seen EXCEPT ![s] = item]
  OBVIOUS
<1>5. task' = [task EXCEPT !.todo = task.todo \ {s}, !.seen = seen]
  BY <1>1, <1>2, <1>3, <1>4 DEF Pass, Tasks
<1>6. task'.seen = seen
  BY <1>1, <1>5 DEF Tasks
<1>7. /\ item \in Items /\ item.known = task.seen[s].known
      /\ item.cooling = task.seen[s].cooling /\ item.condition = condition
  BY <1>1, <1>2, <1>3 DEF Items
<1>8. /\ seen \in [Source -> Items] /\ seen[s] = item
      /\ \A r \in Source : r # s => seen[r] = task.seen[r]
  BY <1>1, <1>4, <1>7
<1> QED BY <1>2, <1>5, <1>6, <1>7, <1>8

\* A record that stops cooling down keeps the rest, in what is saved and in the
\* operation under way.
LEMMA Cooled ==
  ASSUME TypeOK, NEW s \in Source, CooldownEnds(s)
  PROVE  /\ task' = [task EXCEPT !.seen = task'.seen]
         /\ saved' = [saved EXCEPT !.seen = saved'.seen]
         /\ task'.seen \in [Source -> Items] /\ saved'.seen \in [Source -> Items]
         /\ \A r \in Source \ {s} : task'.seen[r] = task.seen[r]
                                    /\ saved'.seen[r] = saved.seen[r]
         /\ \A r \in Source :
              /\ task'.seen[r].known = task.seen[r].known
              /\ task'.seen[r].condition = task.seen[r].condition
              /\ saved'.seen[r].known = saved.seen[r].known
              /\ saved'.seen[r].condition = saved.seen[r].condition
<1>1. /\ task \in Tasks /\ task.seen \in [Source -> Items]
      /\ saved.seen \in [Source -> Items]
      /\ saved \in [connection : 0..MaxConnection, seen : [Source -> Items]]
  BY DEF TypeOK, Tasks
<1>2. PICK item : item = [task.seen[s] EXCEPT !.cooling = FALSE]
  OBVIOUS
<1>3. PICK kept : kept = [saved.seen[s] EXCEPT !.cooling = FALSE]
  OBVIOUS
<1>4. task' = [task EXCEPT !.seen = [task.seen EXCEPT ![s] = item]]
  BY <1>1, <1>2 DEF CooldownEnds, Tasks
<1>5. saved' = [saved EXCEPT !.seen = [saved.seen EXCEPT ![s] = kept]]
  BY <1>1, <1>3 DEF CooldownEnds
<1>6. /\ item \in Items /\ item.known = task.seen[s].known
      /\ item.condition = task.seen[s].condition
  BY <1>1, <1>2 DEF Items
<1>7. /\ kept \in Items /\ kept.known = saved.seen[s].known
      /\ kept.condition = saved.seen[s].condition
  BY <1>1, <1>3 DEF Items
<1>8. task'.seen = [task.seen EXCEPT ![s] = item]
  BY <1>1, <1>4 DEF Tasks
<1>9. saved'.seen = [saved.seen EXCEPT ![s] = kept]
  BY <1>1, <1>5
<1> QED BY <1>1, <1>4, <1>5, <1>6, <1>7, <1>8, <1>9

\* A notice that was shown is put on record.
LEMMA Recorded ==
  ASSUME TypeOK, Shown
  PROVE  /\ task.source \in Source
         /\ ConditionOf(task.status[task.source]) \in Condition
         /\ task' = [task EXCEPT !.at = "look", !.source = None,
                                 !.seen = task'.seen]
         /\ task'.seen = [task.seen EXCEPT ![task.source] =
                            Item(ConditionOf(task.status[task.source]), TRUE)]
         /\ task'.seen \in [Source -> Items]
<1>1. /\ task \in Tasks /\ task.seen \in [Source -> Items]
      /\ task.source \in Source /\ task.status \in [Source -> Status]
      /\ task.status[task.source].kind \in Kinds
  BY DEF Shown, TypeOK, Tasks
<1>2. ConditionOf(task.status[task.source]) \in Condition
  BY <1>1, StatusHasCondition
<1>3. PICK seen : seen = [task.seen EXCEPT ![task.source] =
                            Item(ConditionOf(task.status[task.source]), TRUE)]
  OBVIOUS
<1>4. task' = [task EXCEPT !.at = "look", !.source = None, !.seen = seen]
  BY <1>1, <1>3 DEF Shown, Tasks
<1>5. task'.seen = seen
  BY <1>1, <1>4 DEF Tasks
<1>6. seen \in [Source -> Items]
  BY <1>1, <1>2, <1>3, ItemTyped
<1> QED BY <1>1, <1>2, <1>3, <1>4, <1>5, <1>6

-----------------------------------------------------------------------------
(* Types *)

\* The first connection, every source fine and nothing shown.
LEMMA InitTyped == Init => TypeOK
<1> SUFFICES ASSUME Init PROVE TypeOK
  OBVIOUS
<1> USE LoginMonitorAssumption
<1>1. settings \in [connection : 1..MaxConnection, polling : BOOLEAN,
                    active : SUBSET Source]
  BY DEF Init
<1>2. remote \in [Source -> Status]
  BY DEF Init, Status
<1>3. saved \in [connection : 0..MaxConnection, seen : [Source -> Items]]
  BY NothingTyped DEF Init
<1>4. /\ task = Idle /\ saved.connection = 0 /\ settings.connection = 1
      /\ alarm \in BOOLEAN /\ due \in BOOLEAN /\ deaths = 0
  BY DEF Init
<1>5. /\ told \in [Source -> Condition \cup {None}]
      /\ recent \in [Source -> BOOLEAN] /\ left \in [Source -> BOOLEAN]
      /\ excused \in [Source -> BOOLEAN]
  BY DEF Init
<1> QED BY <1>1, <1>2, <1>3, <1>4, <1>5, IdleTyped DEF TypeOK

\* Every step keeps the types, one case per action.
LEMMA NextTyped == TypeOK /\ [Next]_vars => TypeOK'
<1> SUFFICES ASSUME TypeOK, [Next]_vars PROVE TypeOK'
  OBVIOUS
<1> USE DEF world, history
<1>0. task \in Tasks /\ settings.connection \in 1..MaxConnection
  BY DEF TypeOK
<1>1. CASE BeginRecover
  <2>1. CASE Wanted
    <3>1. Begin("arm", Context) /\ alarm' = alarm
      BY <1>1, <2>1 DEF BeginRecover
    <3>2. /\ task' \in Tasks /\ task'.at = "arm" /\ task'.unsaved = {}
          /\ task'.connection <= settings.connection
      BY <3>1, ContextTyped, BegunTyped
    <3> QED BY <1>1, <3>1, <3>2 DEF BeginRecover, TypeOK
  <2>2. CASE ~Wanted
    <3>1. Begin("save", NothingSeen) /\ alarm' = FALSE
      BY <1>1, <2>2 DEF BeginRecover
    <3>2. /\ task' \in Tasks /\ task'.at = "save"
          /\ task'.connection <= settings.connection
      BY <3>1, NothingTyped, BegunTyped
    <3> QED BY <1>1, <3>1, <3>2 DEF BeginRecover, TypeOK
  <2> QED BY <2>1, <2>2
<1>2. CASE Arm
  BY <1>0, <1>2 DEF Arm, TypeOK, Tasks
<1>3. CASE BeginCheck
  <2>1. CASE Wanted
    <3>1. Begin("fetch", Context)
      BY <1>3, <2>1 DEF BeginCheck
    <3>2. /\ task' \in Tasks /\ task'.at = "fetch" /\ task'.unsaved = {}
          /\ task'.connection <= settings.connection
      BY <3>1, ContextTyped, BegunTyped
    <3> QED BY <1>3, <3>2 DEF BeginCheck, TypeOK
  <2>2. CASE ~Wanted
    BY <1>3, <2>2 DEF BeginCheck, TypeOK
  <2> QED BY <2>1, <2>2
<1>4. CASE Fetch
  BY <1>0, <1>4 DEF Fetch, TypeOK, Tasks
<1>5. CASE FetchFails
  BY <1>5, IdleTyped, SettingsTyped DEF FetchFails, TypeOK
<1>6. ASSUME NEW s \in Source, Pass(s) PROVE TypeOK'
  <2>1. task' = [task EXCEPT !.todo = task.todo \ {s}, !.seen = task'.seen]
        /\ task'.seen \in [Source -> Items]
    BY <1>6, Passed
  <2>2. /\ task' \in Tasks /\ task'.at = task.at /\ task'.status = task.status
        /\ task'.connection = task.connection
    BY <1>0, <2>1 DEF Tasks
  <2> QED BY <1>6, <2>2 DEF Pass, TypeOK
<1>7. ASSUME NEW s \in Source, Show(s) PROVE TypeOK'
  <2>1. /\ task.status \in [Source -> Status] /\ task.status[s].kind \in Kinds
        /\ task' = [task EXCEPT !.at = "shown", !.source = s, !.todo = @ \ {s},
                                !.unsaved = @ \cup {s}]
    BY <1>7 DEF Show, Notable, TypeOK
  <2>2. /\ task' \in Tasks /\ task'.at = "shown" /\ task'.source = s
        /\ task'.status = task.status /\ task'.connection = task.connection
        /\ s \in task'.unsaved
    BY <1>0, <2>1 DEF Tasks
  <2>3. told' \in [Source -> Condition \cup {None}]
    BY <1>7, <2>1, StatusHasCondition DEF Show, TypeOK
  <2>4. /\ recent' \in [Source -> BOOLEAN] /\ left' \in [Source -> BOOLEAN]
        /\ excused' \in [Source -> BOOLEAN]
    <3>1. (ConditionOf(remote[s]) # ConditionOf(task.status[s])) \in BOOLEAN
      OBVIOUS
    <3> QED BY <1>7, <3>1 DEF Show, TypeOK
  <2> QED BY <1>7, <2>1, <2>2, <2>3, <2>4 DEF Show, TypeOK
<1>8. CASE Shown
  <2>1. /\ task' = [task EXCEPT !.at = "look", !.source = None,
                                !.seen = task'.seen]
        /\ task'.seen \in [Source -> Items]
    BY <1>8, Recorded
  <2>2. /\ task' \in Tasks /\ task'.at = "look" /\ task'.status = task.status
        /\ task'.connection = task.connection
    BY <1>0, <2>1 DEF Tasks
  <2> QED BY <1>8, <2>2 DEF Shown, TypeOK
<1>9. CASE EndCheck
  BY <1>0, <1>9 DEF EndCheck, TypeOK, Tasks
<1>10. CASE Cancel
  BY <1>10, IdleTyped, SettingsTyped DEF Cancel, TypeOK
<1>11. CASE Save
  BY <1>0, <1>11 DEF Save, TypeOK, Tasks
<1>12. CASE Write
  <2>1. /\ saved' \in [connection : 0..MaxConnection, seen : [Source -> Items]]
        /\ saved'.connection = task.connection
    BY <1>0, <1>12 DEF Write, Tasks
  <2> QED BY <1>12, <2>1, IdleTyped, SettingsTyped DEF Write, TypeOK
<1>13. CASE Startup
  BY <1>13 DEF Startup, TypeOK
<1>14. ASSUME NEW sources, Excuse(sources)
       PROVE  /\ excused' \in [Source -> BOOLEAN]
              /\ recent' = recent /\ left' = left
  <2>1. \A s \in Source : (excused[s] \/ s \in sources) \in BOOLEAN
    OBVIOUS
  <2> QED BY <1>14, <2>1 DEF Excuse
<1>15. CASE Die
  <2>1. Excuse(task.unsaved)
    BY <1>15 DEF Die
  <2>2. excused' \in [Source -> BOOLEAN] /\ recent' = recent /\ left' = left
    BY <1>14, <2>1
  <2>3. deaths' \in 0..MaxDeaths
    BY <1>15, LoginMonitorAssumption DEF Die, TypeOK
  <2>4. task' = Idle /\ 0 <= settings.connection /\ due' = FALSE
    BY <1>15, SettingsTyped DEF Die
  <2> QED BY <1>15, <2>2, <2>3, <2>4, IdleTyped DEF Die, TypeOK
<1>16. ASSUME NEW new, NEW dropped, Change(new, dropped),
              new \in [connection : 1..MaxConnection, polling : BOOLEAN,
                       active : SUBSET Source],
              settings.connection <= new.connection,
              told' \in [Source -> Condition \cup {None}]
       PROVE  TypeOK'
  <2>1. excused' \in [Source -> BOOLEAN] /\ recent' = recent /\ left' = left
    BY <1>14, <1>16 DEF Change
  <2>2. saved.connection <= new.connection /\ task.connection <= new.connection
    BY <1>16, SettingsTyped DEF TypeOK
  <2> QED BY <1>16, <2>1, <2>2 DEF Change, TypeOK
<1>17. CASE ChangeConnection
  <2>1. PICK new : new = [settings EXCEPT !.connection = @ + 1, !.active = {}]
    OBVIOUS
  <2>2. /\ new \in [connection : 1..MaxConnection, polling : BOOLEAN,
                    active : SUBSET Source]
        /\ settings.connection <= new.connection
    <3>1. /\ settings.connection + 1 \in 1..MaxConnection
          /\ settings.connection <= settings.connection + 1
      BY <1>17, SettingsTyped, LoginMonitorAssumption DEF ChangeConnection
    <3>2. new = [settings EXCEPT !.connection = settings.connection + 1,
                                 !.active = {}]
      BY <2>1
    <3> QED BY <3>1, <3>2 DEF TypeOK
  <2>3. Change(new, Source) /\ told' \in [Source -> Condition \cup {None}]
    BY <1>17, <2>1 DEF ChangeConnection
  <2> QED BY <1>16, <2>2, <2>3
<1>18. CASE SwitchPolling
  <2>1. (~settings.polling) \in BOOLEAN
    OBVIOUS
  <2>2. PICK new : new = [settings EXCEPT !.polling = ~settings.polling]
    OBVIOUS
  <2>3. /\ new \in [connection : 1..MaxConnection, polling : BOOLEAN,
                    active : SUBSET Source]
        /\ settings.connection <= new.connection
    <3>1. settings.connection <= settings.connection
      BY SettingsTyped
    <3> QED BY <2>1, <2>2, <3>1 DEF TypeOK
  <2>4. Change(new, Source) /\ told' = told
    BY <1>18, <2>2 DEF SwitchPolling
  <2> QED BY <1>16, <2>3, <2>4 DEF TypeOK
<1>19. ASSUME NEW s \in Source, Approve(s) PROVE TypeOK'
  <2>1. PICK new : new = [settings EXCEPT !.active = @ \cup {s}]
    OBVIOUS
  <2>2. /\ new \in [connection : 1..MaxConnection, polling : BOOLEAN,
                    active : SUBSET Source]
        /\ settings.connection <= new.connection
    BY <2>1, SettingsTyped DEF TypeOK
  <2>3. Change(new, {}) /\ told' = told
    BY <1>19, <2>1 DEF Approve
  <2> QED BY <1>16, <2>2, <2>3 DEF TypeOK
<1>20. ASSUME NEW s \in Source, Revoke(s) PROVE TypeOK'
  <2>1. PICK new : new = [settings EXCEPT !.active = @ \ {s}]
    OBVIOUS
  <2>2. /\ new \in [connection : 1..MaxConnection, polling : BOOLEAN,
                    active : SUBSET Source]
        /\ settings.connection <= new.connection
    BY <2>1, SettingsTyped DEF TypeOK
  <2>3. Change(new, {s}) /\ told' = told
    BY <1>20, <2>1 DEF Revoke
  <2> QED BY <1>16, <2>2, <2>3 DEF TypeOK
<1>21. ASSUME NEW s \in Source, NEW status \in Status, StatusChanges(s, status)
       PROVE  TypeOK'
  <2>1. PICK lasting \in BOOLEAN : lasting <=>
          left[s] \/ ConditionOf(status) # told[s]
    OBVIOUS
  <2>2. left' = [left EXCEPT ![s] = lasting]
    BY <1>21, <2>1 DEF StatusChanges
  <2> QED BY <1>21, <2>1, <2>2 DEF StatusChanges, TypeOK
<1>22. ASSUME NEW s \in Source, CooldownEnds(s) PROVE TypeOK'
  <2>1. /\ task' = [task EXCEPT !.seen = task'.seen]
        /\ saved' = [saved EXCEPT !.seen = saved'.seen]
        /\ task'.seen \in [Source -> Items] /\ saved'.seen \in [Source -> Items]
    BY <1>22, Cooled
  <2>2. /\ task' \in Tasks /\ task'.at = task.at /\ task'.status = task.status
        /\ task'.connection = task.connection /\ task'.source = task.source
        /\ task'.unsaved = task.unsaved
    BY <1>0, <2>1 DEF Tasks
  <2>3. /\ saved' \in [connection : 0..MaxConnection, seen : [Source -> Items]]
        /\ saved'.connection = saved.connection
    BY <2>1 DEF TypeOK
  <2> QED BY <1>22, <2>2, <2>3 DEF CooldownEnds, TypeOK
<1>23. CASE UNCHANGED vars
  BY <1>23 DEF vars, TypeOK
<1> QED BY <1>1, <1>2, <1>3, <1>4, <1>5, <1>6, <1>7, <1>8, <1>9, <1>10, <1>11,
           <1>12, <1>13, <1>15, <1>17, <1>18, <1>19, <1>20, <1>21, <1>22, <1>23
        DEF Next, Step, User

\* The types of the monitor, its stored state and the operation under way.
THEOREM TypeCorrect == Spec => []TypeOK
BY InitTyped, NextTyped, PTL DEF Spec

-----------------------------------------------------------------------------
(* The fifteen minutes *)

\* No notice has been shown.
LEMMA InitSparse == Init => SparselyInv
BY DEF Init, SparselyInv

\* Less than fifteen minutes have passed, and nothing excuses another notice.
Cooling(s) == recent[s] /\ ~excused[s]

\* What SparselyInv says of a source whose last notice is recent.
SparselyFor(s) ==
  /\ Findable(s)
  /\ task.at # "idle" => Cools(task.seen[s]) \/ BeingRecorded(s)
  /\ s \notin task.unsaved => Cools(saved.seen[s])

\* Every step keeps the fifteen minutes on record: an operation takes them over
\* from the stored state and puts them back, unless it is given up and they are
\* in the stored state still.
LEMMA NextSparse == TypeOK /\ SparselyInv /\ [Next]_vars => SparselyInv'
<1> SUFFICES ASSUME TypeOK, SparselyInv, [Next]_vars,
                    NEW r \in Source, Cooling(r)'
             PROVE  SparselyFor(r)'
  BY DEF SparselyInv, SparselyFor, Cooling
<1> USE DEF world, history, Cooling
<1>0. /\ task \in Tasks
      /\ Cooling(r) => SparselyFor(r)
      /\ recent \in [Source -> BOOLEAN] /\ excused \in [Source -> BOOLEAN]
  BY DEF TypeOK, SparselyInv, SparselyFor
<1>1. ASSUME Cooling(r), settings' = settings, saved' = saved,
             task.at # "idle", task'.connection = task.connection,
             task'.unsaved = task.unsaved,
             Cools(task.seen[r]) => Cools(task'.seen[r]),
             BeingRecorded(r) => Cools(task'.seen[r])
      PROVE  SparselyFor(r)'
  BY <1>0, <1>1 DEF SparselyFor, Findable, SameConnection
<1>2. ASSUME Cooling(r), settings' = settings, saved' = saved,
             r \notin task.unsaved, task' = Idle
      PROVE  SparselyFor(r)'
  BY <1>0, <1>2, IdleTyped DEF SparselyFor, Findable, BeingRecorded
<1>3. ASSUME Cooling(r), NEW at \in {"arm", "save", "fetch"}, Begin(at, Context),
             task.at = "idle", settings' = settings, saved' = saved
      PROVE  SparselyFor(r)'
  <2>1. /\ saved.connection = settings.connection /\ r \in settings.active
        /\ settings.polling /\ Cools(saved.seen[r])
    BY <1>0, <1>3 DEF SparselyFor, Findable, TypeOK
  <2>2. /\ task'.at = at /\ task'.seen = Context /\ task'.unsaved = {}
        /\ task'.connection = settings.connection
    BY <1>3, ContextTyped, BegunTyped
  <2>3. Context[r] = saved.seen[r]
    BY <2>1, ContextTyped
  <2> QED BY <1>3, <2>1, <2>2, <2>3 DEF SparselyFor, Findable, SameConnection
<1>4. CASE BeginRecover
  <2>1. Cooling(r) /\ settings.polling /\ r \in settings.active
    BY <1>0, <1>4 DEF BeginRecover, SparselyFor, Findable
  <2>2. Begin("arm", Context)
    BY <1>4, <2>1 DEF BeginRecover, Wanted
  <2> QED BY <1>3, <1>4, <2>1, <2>2 DEF BeginRecover
<1>5. CASE BeginCheck
  <2>1. Cooling(r) /\ settings.polling /\ r \in settings.active
    BY <1>0, <1>5 DEF BeginCheck, SparselyFor, Findable
  <2>2. Begin("fetch", Context)
    BY <1>5, <2>1 DEF BeginCheck, Wanted
  <2> QED BY <1>3, <1>5, <2>1, <2>2 DEF BeginCheck
<1>6. CASE Arm
  BY <1>0, <1>1, <1>6 DEF Arm, Tasks, BeingRecorded
<1>7. CASE Fetch
  BY <1>0, <1>1, <1>7 DEF Fetch, Tasks, BeingRecorded
<1>8. CASE FetchFails
  BY <1>2, <1>8 DEF FetchFails, TypeOK
<1>9. ASSUME NEW s \in Source, Pass(s) PROVE SparselyFor(r)'
  <2>1. /\ task' = [task EXCEPT !.todo = task.todo \ {s}, !.seen = task'.seen]
        /\ task'.seen[r].known = task.seen[r].known
        /\ task'.seen[r].cooling = task.seen[r].cooling
    BY <1>9, Passed
  <2>2. task'.connection = task.connection /\ task'.unsaved = task.unsaved
    BY <1>0, <2>1 DEF Tasks
  <2> QED BY <1>1, <1>9, <2>1, <2>2 DEF Pass, Cools, BeingRecorded
<1>10. ASSUME NEW s \in Source, Show(s) PROVE SparselyFor(r)'
  <2>1. /\ task.at = "look" /\ SameConnection /\ Polled(s)
        /\ task' = [task EXCEPT !.at = "shown", !.source = s, !.todo = @ \ {s},
                                !.unsaved = @ \cup {s}]
        /\ recent' = [recent EXCEPT ![s] = TRUE]
        /\ excused' = [excused EXCEPT ![s] = FALSE]
        /\ UNCHANGED <<settings, saved>>
    BY <1>10 DEF Show, Notable
  <2>2. /\ task'.at = "shown" /\ task'.source = s /\ task'.seen = task.seen
        /\ task'.unsaved = task.unsaved \cup {s}
        /\ task'.connection = task.connection
    BY <1>0, <2>1 DEF Tasks
  <2>3. CASE r = s
    BY <2>1, <2>2, <2>3
       DEF SparselyFor, Findable, SameConnection, Polled, BeingRecorded
  <2>4. CASE r # s
    <3>1. Cooling(r) /\ SparselyFor(r)
      BY <1>0, <2>1, <2>4
    <3> QED BY <2>1, <2>2, <2>4, <3>1
            DEF SparselyFor, Findable, SameConnection, BeingRecorded
  <2> QED BY <2>3, <2>4
<1>11. CASE Shown
  <2>1. /\ task.source \in Source
        /\ task' = [task EXCEPT !.at = "look", !.source = None,
                                !.seen = task'.seen]
        /\ task'.seen = [task.seen EXCEPT ![task.source] =
                           Item(ConditionOf(task.status[task.source]), TRUE)]
    BY <1>11, Recorded
  <2>2. task'.connection = task.connection /\ task'.unsaved = task.unsaved
    <3>1. PICK seen : task' = [task EXCEPT !.at = "look", !.source = None,
                                           !.seen = seen]
      BY <2>1
    <3> QED BY <1>0, <3>1 DEF Tasks
  <2>3. /\ r = task.source => Cools(task'.seen[r])
        /\ r # task.source => task'.seen[r] = task.seen[r]
    BY <1>0, <2>1 DEF Tasks, Item, Cools
  <2>4. Cooling(r) /\ UNCHANGED <<settings, saved>> /\ task.at = "shown"
    BY <1>11 DEF Shown
  <2>5. /\ BeingRecorded(r) => Cools(task'.seen[r])
        /\ Cools(task.seen[r]) => Cools(task'.seen[r])
    BY <2>3 DEF BeingRecorded
  <2> QED BY <1>1, <2>2, <2>4, <2>5
<1>12. CASE EndCheck
  BY <1>0, <1>1, <1>12 DEF EndCheck, Tasks, BeingRecorded
<1>13. CASE Cancel
  BY <1>0, <1>13 DEF Cancel, SparselyFor, Findable
<1>14. CASE Save
  BY <1>0, <1>1, <1>14 DEF Save, Tasks, BeingRecorded
<1>15. CASE Write
  <2>1. /\ SparselyFor(r) /\ task.at = "write" /\ task' = Idle
        /\ saved' = [connection |-> task.connection, seen |-> task.seen]
        /\ settings' = settings
    BY <1>0, <1>15 DEF Write
  <2> QED BY <2>1, IdleTyped
          DEF SparselyFor, Findable, SameConnection, BeingRecorded
<1>16. CASE Die
  <2>1. /\ Cooling(r) /\ r \notin task.unsaved /\ task' = Idle
        /\ UNCHANGED <<settings, saved>>
    BY <1>16 DEF Die, Excuse
  <2> QED BY <1>2, <2>1
<1>17. CASE ChangeConnection \/ SwitchPolling
  BY <1>17 DEF ChangeConnection, SwitchPolling, Change, Excuse
<1>18. ASSUME NEW s \in Source, Approve(s) \/ Revoke(s) PROVE SparselyFor(r)'
  <2>1. PICK sources, dropped :
          /\ Change([settings EXCEPT !.active = sources], dropped)
          /\ told' = told
          /\ \A q \in settings.active \ dropped : q \in sources
    <3>1. CASE Approve(s)
      <4> WITNESS settings.active \cup {s}, {}
      <4> QED BY <3>1 DEF Approve
    <3>2. CASE Revoke(s)
      <4> WITNESS settings.active \ {s}, {s}
      <4> QED BY <3>2 DEF Revoke
    <3> QED BY <1>18, <3>1, <3>2
  <2>2. /\ Cooling(r) /\ UNCHANGED <<saved, task>>
        /\ settings' = [settings EXCEPT !.active = sources] /\ r \notin dropped
    BY <2>1 DEF Change, Excuse
  <2>3. /\ settings'.connection = settings.connection
        /\ settings'.polling = settings.polling
        /\ r \in settings.active => r \in settings'.active
    BY <2>1, <2>2 DEF TypeOK
  <2> QED BY <1>0, <2>2, <2>3
          DEF SparselyFor, Findable, SameConnection, BeingRecorded
<1>19. ASSUME NEW s \in Source, CooldownEnds(s) PROVE SparselyFor(r)'
  <2>1. /\ r # s /\ Cooling(r) /\ settings' = settings
    BY <1>0, <1>19 DEF CooldownEnds
  <2>2. /\ task' = [task EXCEPT !.seen = task'.seen]
        /\ saved' = [saved EXCEPT !.seen = saved'.seen]
        /\ task'.seen[r] = task.seen[r] /\ saved'.seen[r] = saved.seen[r]
    BY <1>19, <2>1, Cooled
  <2>3. /\ task'.at = task.at /\ task'.connection = task.connection
        /\ task'.unsaved = task.unsaved /\ task'.source = task.source
        /\ saved'.connection = saved.connection
    BY <1>0, <2>2 DEF Tasks, TypeOK
  <2> QED BY <1>0, <2>1, <2>2, <2>3
          DEF SparselyFor, Findable, SameConnection, BeingRecorded
<1>20. CASE UNCHANGED <<settings, saved, task, recent, excused>>
  BY <1>0, <1>20 DEF SparselyFor, Findable, SameConnection, BeingRecorded
<1>21. CASE Startup \/ UNCHANGED vars
            \/ \E s \in Source, status \in Status : StatusChanges(s, status)
  BY <1>20, <1>21 DEF Startup, vars, StatusChanges
<1> QED BY <1>4, <1>5, <1>6, <1>7, <1>8, <1>9, <1>10, <1>11, <1>12, <1>13,
           <1>14, <1>15, <1>16, <1>17, <1>18, <1>19, <1>21
        DEF Next, Step, User

\* Two notices about a source are fifteen minutes apart, whatever conditions and
\* versions it went through in between and however often the worker died with
\* the first on record; but a record that died with the worker, or is not kept
\* when reminders are switched off, the source is revoked or the connection
\* changes, keeps no later notice back.
THEOREM NoticesAreSparse == Spec => ShownSparsely
<1>1. TypeOK /\ SparselyInv =>
        \A s \in Source : Show(s) => ~recent[s] \/ excused[s]
  BY DEF SparselyInv, Show, Notable, Repeated, Cools, BeingRecorded
<1>2. TypeOK /\ SparselyInv /\ [Next]_vars
        => [\A s \in Source : Show(s) => ~recent[s] \/ excused[s]]_vars
  BY <1>1
<1> QED BY InitTyped, NextTyped, InitSparse, NextSparse, <1>2, PTL
        DEF Spec, ShownSparsely

-----------------------------------------------------------------------------
(* The same condition *)

\* Nothing has been shown, and whatever comes may be.
LEMMA InitOnce == Init => OnceInv
BY DEF Init, OnceInv

\* The source is in the condition last shown, and nothing excuses repeating it.
Stays(s) == ~left[s] /\ ~excused[s]

\* What OnceInv says of a source that stayed in the condition last shown.
OnceFor(s) ==
  /\ Findable(s)
  /\ told[s] \in Condition /\ told[s] = ConditionOf(remote[s])
  /\ task.at # "idle" => Remembers(s, task.seen[s]) \/ BeingRecorded(s)
  /\ BeingRecorded(s) => told[s] = ConditionOf(task.status[s])
  /\ task.at \in {"look", "shown"} /\ s \in task.todo =>
       told[s] = ConditionOf(task.status[s])
  /\ s \notin task.unsaved => Remembers(s, saved.seen[s])

\* Every step keeps the condition on record; a check that looks at the source
\* later has fetched that condition, so it does not take the source to be fine.
LEMMA NextOnce == TypeOK /\ OnceInv /\ [Next]_vars => OnceInv'
<1> SUFFICES ASSUME TypeOK, OnceInv, [Next]_vars,
                    NEW r \in Source, Stays(r)'
             PROVE  OnceFor(r)'
  BY DEF OnceInv, OnceFor, Stays
<1> USE DEF world, history, Stays
<1>0. /\ task \in Tasks
      /\ Stays(r) => OnceFor(r)
      /\ left \in [Source -> BOOLEAN] /\ excused \in [Source -> BOOLEAN]
  BY DEF TypeOK, OnceInv, OnceFor
<1>1. ASSUME Stays(r), UNCHANGED <<settings, remote, saved, told>>,
             task.at # "idle", task'.connection = task.connection,
             task'.unsaved = task.unsaved,
             task.at # "fetch" => task'.status = task.status,
             task.at = "fetch" => task'.status = remote,
             task.at \in {"fetch", "look", "shown"}
               \/ task'.at \notin {"look", "shown"},
             task'.todo \subseteq task.todo,
             Remembers(r, task.seen[r]) => Remembers(r, task'.seen[r]),
             BeingRecorded(r) => Remembers(r, task'.seen[r]),
             ~BeingRecorded(r)'
      PROVE  OnceFor(r)'
  BY <1>0, <1>1 DEF OnceFor, Findable, SameConnection, Remembers
<1>2. ASSUME Stays(r), UNCHANGED <<settings, remote, saved, told>>,
             r \notin task.unsaved, task' = Idle
      PROVE  OnceFor(r)'
  BY <1>0, <1>2, IdleTyped DEF OnceFor, Findable, BeingRecorded, Remembers
<1>3. ASSUME Stays(r), NEW at \in {"arm", "save", "fetch"}, Begin(at, Context),
             task.at = "idle", UNCHANGED <<settings, remote, saved, told>>
      PROVE  OnceFor(r)'
  <2>1. /\ saved.connection = settings.connection /\ r \in settings.active
        /\ settings.polling /\ Remembers(r, saved.seen[r])
        /\ told[r] \in Condition /\ told[r] = ConditionOf(remote[r])
    BY <1>0, <1>3 DEF OnceFor, Findable, TypeOK
  <2>2. /\ task'.at = at /\ task'.seen = Context /\ task'.unsaved = {}
        /\ task'.connection = settings.connection
    BY <1>3, ContextTyped, BegunTyped
  <2>3. Context[r] = saved.seen[r]
    BY <2>1, ContextTyped
  <2> QED BY <1>3, <2>1, <2>2, <2>3
          DEF OnceFor, Findable, SameConnection, BeingRecorded, Remembers
<1>4. CASE BeginRecover
  <2>1. Stays(r) /\ settings.polling /\ r \in settings.active
    BY <1>0, <1>4 DEF BeginRecover, OnceFor, Findable
  <2>2. Begin("arm", Context)
    BY <1>4, <2>1 DEF BeginRecover, Wanted
  <2> QED BY <1>3, <1>4, <2>1, <2>2 DEF BeginRecover
<1>5. CASE BeginCheck
  <2>1. Stays(r) /\ settings.polling /\ r \in settings.active
    BY <1>0, <1>5 DEF BeginCheck, OnceFor, Findable
  <2>2. Begin("fetch", Context)
    BY <1>5, <2>1 DEF BeginCheck, Wanted
  <2> QED BY <1>3, <1>5, <2>1, <2>2 DEF BeginCheck
<1>6. CASE Arm
  BY <1>0, <1>1, <1>6 DEF Arm, Tasks, BeingRecorded, Remembers
<1>7. CASE Fetch
  BY <1>0, <1>1, <1>7 DEF Fetch, Tasks, BeingRecorded, Remembers
<1>8. CASE FetchFails
  BY <1>2, <1>8 DEF FetchFails, TypeOK
<1>9. ASSUME NEW s \in Source, Pass(s) PROVE OnceFor(r)'
  <2>1. /\ task' = [task EXCEPT !.todo = task.todo \ {s}, !.seen = task'.seen]
        /\ r # s => task'.seen[r] = task.seen[r]
        /\ task'.seen[r].known = task.seen[r].known
        /\ r = s /\ ~(Polled(r) /\ task.status[r].kind = "fine") =>
             task'.seen[r].condition = task.seen[r].condition
    BY <1>9, Passed
  <2>2. /\ task.at = "look" /\ s \in task.todo /\ Stays(r) /\ told' = told
        /\ UNCHANGED <<settings, remote, saved>>
    BY <1>9 DEF Pass
  <2>3. /\ task'.connection = task.connection /\ task'.unsaved = task.unsaved
        /\ task'.status = task.status /\ task'.todo \subseteq task.todo
        /\ task'.at = "look"
    BY <1>0, <2>1, <2>2 DEF Tasks
  <2>4. r = s => task.status[r].kind \in Kinds
    BY <1>0, <2>2 DEF OnceFor, ConditionOf, Condition
  <2>5. "fine" \notin Kinds
    BY LoginMonitorAssumption
  <2>6. Remembers(r, task.seen[r]) => Remembers(r, task'.seen[r])
    BY <2>1, <2>2, <2>4, <2>5 DEF Remembers
  <2> QED BY <1>1, <2>2, <2>3, <2>6 DEF BeingRecorded
<1>10. ASSUME NEW s \in Source, Show(s) PROVE OnceFor(r)'
  <2>1. /\ task.at = "look" /\ SameConnection /\ Polled(s)
        /\ task.status[s].kind \in Kinds /\ task.status[s] \in Status
        /\ task' = [task EXCEPT !.at = "shown", !.source = s, !.todo = @ \ {s},
                                !.unsaved = @ \cup {s}]
        /\ told' = [told EXCEPT ![s] = ConditionOf(task.status[s])]
        /\ left' = [left EXCEPT ![s] =
                      ConditionOf(remote[s]) # ConditionOf(task.status[s])]
        /\ excused' = [excused EXCEPT ![s] = FALSE]
        /\ UNCHANGED <<settings, remote, saved>>
    BY <1>10 DEF Show, Notable, TypeOK
  <2>2. /\ task'.at = "shown" /\ task'.source = s /\ task'.seen = task.seen
        /\ task'.unsaved = task.unsaved \cup {s}
        /\ task'.todo = task.todo \ {s} /\ task'.status = task.status
        /\ task'.connection = task.connection
    BY <1>0, <2>1 DEF Tasks
  <2>3. told \in [Source -> Condition \cup {None}]
    BY DEF TypeOK
  <2>4. CASE r = s
    <3>1. told'[r] = ConditionOf(task.status[r]) /\ told'[r] \in Condition
      BY <2>1, <2>3, <2>4, StatusHasCondition
    <3>2. ConditionOf(remote[r]) = ConditionOf(task.status[r])
      BY <1>0, <2>1, <2>4
    <3> QED BY <2>1, <2>2, <2>4, <3>1, <3>2
            DEF OnceFor, Findable, SameConnection, Polled, BeingRecorded
  <2>5. CASE r # s
    <3>1. Stays(r) /\ OnceFor(r) /\ told'[r] = told[r]
      BY <1>0, <2>1, <2>3, <2>5
    <3> QED BY <2>1, <2>2, <2>5, <3>1
            DEF OnceFor, Findable, SameConnection, BeingRecorded, Remembers
  <2> QED BY <2>4, <2>5
<1>11. CASE Shown
  <2>1. /\ task.source \in Source
        /\ task' = [task EXCEPT !.at = "look", !.source = None,
                                !.seen = task'.seen]
        /\ task'.seen = [task.seen EXCEPT ![task.source] =
                           Item(ConditionOf(task.status[task.source]), TRUE)]
    BY <1>11, Recorded
  <2>2. /\ task'.connection = task.connection /\ task'.unsaved = task.unsaved
        /\ task'.status = task.status /\ task'.todo = task.todo
        /\ task'.at = "look"
    BY <1>0, <2>1 DEF Tasks
  <2>3. /\ Stays(r) /\ UNCHANGED <<settings, remote, saved, told>>
        /\ task.at = "shown" /\ OnceFor(r)
    BY <1>0, <1>11 DEF Shown
  <2>4. /\ r = task.source => /\ task'.seen[r].known
                              /\ task'.seen[r].condition
                                   = ConditionOf(task.status[r])
        /\ r # task.source => task'.seen[r] = task.seen[r]
    BY <1>0, <2>1 DEF Tasks, Item
  <2>5. BeingRecorded(r) => Remembers(r, task'.seen[r])
    BY <2>3, <2>4 DEF OnceFor, BeingRecorded, Remembers
  <2>6. Remembers(r, task.seen[r]) => Remembers(r, task'.seen[r])
    BY <2>3, <2>4, <2>5 DEF BeingRecorded, Remembers
  <2> QED BY <1>1, <2>2, <2>3, <2>5, <2>6 DEF BeingRecorded
<1>12. CASE EndCheck
  BY <1>0, <1>1, <1>12 DEF EndCheck, Tasks, BeingRecorded, Remembers
<1>13. CASE Cancel
  BY <1>0, <1>13 DEF Cancel, OnceFor, Findable
<1>14. CASE Save
  BY <1>0, <1>1, <1>14 DEF Save, Tasks, BeingRecorded, Remembers
<1>15. CASE Write
  <2>1. /\ OnceFor(r) /\ task.at = "write" /\ task' = Idle
        /\ saved' = [connection |-> task.connection, seen |-> task.seen]
        /\ UNCHANGED <<settings, remote, told>>
    BY <1>0, <1>15 DEF Write
  <2> QED BY <2>1, IdleTyped
          DEF OnceFor, Findable, SameConnection, BeingRecorded, Remembers
<1>16. CASE Die
  <2>1. /\ Stays(r) /\ r \notin task.unsaved /\ task' = Idle
        /\ UNCHANGED <<settings, remote, saved, told>>
    BY <1>16 DEF Die, Excuse
  <2> QED BY <1>2, <2>1
<1>17. CASE ChangeConnection \/ SwitchPolling
  BY <1>17 DEF ChangeConnection, SwitchPolling, Change, Excuse
<1>18. ASSUME NEW s \in Source, Approve(s) \/ Revoke(s) PROVE OnceFor(r)'
  <2>1. PICK sources, dropped :
          /\ Change([settings EXCEPT !.active = sources], dropped)
          /\ told' = told
          /\ \A q \in settings.active \ dropped : q \in sources
    <3>1. CASE Approve(s)
      <4> WITNESS settings.active \cup {s}, {}
      <4> QED BY <3>1 DEF Approve
    <3>2. CASE Revoke(s)
      <4> WITNESS settings.active \ {s}, {s}
      <4> QED BY <3>2 DEF Revoke
    <3> QED BY <1>18, <3>1, <3>2
  <2>2. /\ Stays(r) /\ UNCHANGED <<remote, saved, task, told>>
        /\ settings' = [settings EXCEPT !.active = sources] /\ r \notin dropped
    BY <2>1 DEF Change, Excuse
  <2>3. /\ settings'.connection = settings.connection
        /\ settings'.polling = settings.polling
        /\ r \in settings.active => r \in settings'.active
    BY <2>1, <2>2 DEF TypeOK
  <2> QED BY <1>0, <2>2, <2>3
          DEF OnceFor, Findable, SameConnection, BeingRecorded, Remembers
<1>19. ASSUME NEW s \in Source, CooldownEnds(s) PROVE OnceFor(r)'
  <2>1. Stays(r) /\ UNCHANGED <<settings, remote, told>>
    BY <1>19 DEF CooldownEnds
  <2>2. /\ task' = [task EXCEPT !.seen = task'.seen]
        /\ saved' = [saved EXCEPT !.seen = saved'.seen]
        /\ task'.seen[r].known = task.seen[r].known
        /\ task'.seen[r].condition = task.seen[r].condition
        /\ saved'.seen[r].known = saved.seen[r].known
        /\ saved'.seen[r].condition = saved.seen[r].condition
    BY <1>19, Cooled
  <2>3. /\ task'.at = task.at /\ task'.connection = task.connection
        /\ task'.unsaved = task.unsaved /\ task'.source = task.source
        /\ task'.todo = task.todo /\ task'.status = task.status
        /\ saved'.connection = saved.connection
    BY <1>0, <2>2 DEF Tasks, TypeOK
  <2> QED BY <1>0, <2>1, <2>2, <2>3
          DEF OnceFor, Findable, SameConnection, BeingRecorded, Remembers
<1>20. ASSUME NEW s \in Source, NEW status \in Status, StatusChanges(s, status)
       PROVE  OnceFor(r)'
  <2>1. /\ remote' = [remote EXCEPT ![s] = status]
        /\ UNCHANGED <<settings, saved, task, told, excused>>
        /\ left' = [left EXCEPT ![s] = left[s] \/ ConditionOf(status) # told[s]]
        /\ remote \in [Source -> Status]
    BY <1>20 DEF StatusChanges, TypeOK
  <2>2. Stays(r) /\ (r = s => ConditionOf(status) = told[r])
    BY <1>0, <2>1
  <2>3. told[r] = ConditionOf(remote'[r])
    BY <1>0, <2>1, <2>2 DEF OnceFor
  <2> QED BY <1>0, <2>1, <2>2, <2>3
          DEF OnceFor, Findable, SameConnection, BeingRecorded, Remembers
<1>21. CASE Startup \/ UNCHANGED vars
  <2>1. UNCHANGED <<settings, remote, saved, task, told, left, excused>>
    BY <1>21 DEF Startup, vars
  <2> QED BY <1>0, <2>1
          DEF OnceFor, Findable, SameConnection, BeingRecorded, Remembers
<1> QED BY <1>4, <1>5, <1>6, <1>7, <1>8, <1>9, <1>10, <1>11, <1>12, <1>13,
           <1>14, <1>15, <1>16, <1>17, <1>18, <1>19, <1>20, <1>21
        DEF Next, Step, User

\* The same condition of the same version is shown once, for as long as the
\* source stays in it, reminders stay wanted on this connection and no death
\* loses the record.
THEOREM NoticesAreNotRepeated == Spec => ShownOnce
<1>1. TypeOK /\ OnceInv =>
        \A s \in Source :
          Show(s) => \/ left[s] \/ told[s] # ConditionOf(task.status[s])
                     \/ excused[s]
  <2> SUFFICES ASSUME OnceInv, NEW s \in Source, Show(s), ~left[s], ~excused[s],
                      told[s] = ConditionOf(task.status[s])
               PROVE  FALSE
    OBVIOUS
  <2>1. Remembers(s, task.seen[s])
    BY DEF OnceInv, Show, BeingRecorded
  <2> QED BY <2>1 DEF Remembers, Show, Notable, Repeated
<1>2. TypeOK /\ OnceInv /\ [Next]_vars
        => [\A s \in Source :
              Show(s) => \/ left[s] \/ told[s] # ConditionOf(task.status[s])
                         \/ excused[s]]_vars
  BY <1>1
<1> QED BY InitTyped, NextTyped, InitOnce, NextOnce, <1>2, PTL
        DEF Spec, ShownOnce

-----------------------------------------------------------------------------
(* What is on record *)

\* What RecordedWasShown and the reasons for it say together.
Records == RecordedWasShown /\ RecordedInv

\* Nothing has been shown, and nothing is on record.
LEMMA InitRecords == Init => Records
<1> SUFFICES ASSUME Init PROVE Records
  OBVIOUS
<1>1. /\ task = Idle /\ saved.connection = 0 /\ settings.connection = 1
  BY DEF Init
<1> QED BY <1>1, IdleTyped DEF Records, RecordedWasShown, RecordedInv

\* Every step keeps the records genuine: the copy of an operation begins with
\* what was saved for this connection, a source is added to it when its notice
\* was shown, and a worker that dies in between leaves an excuse.
LEMMA NextRecords == TypeOK /\ Records /\ [Next]_vars => Records'
<1> SUFFICES ASSUME TypeOK, Records, [Next]_vars PROVE Records'
  OBVIOUS
<1> USE DEF world, history
<1>0. /\ task \in Tasks /\ told \in [Source -> Condition \cup {None}]
      /\ excused \in [Source -> BOOLEAN]
      /\ settings.connection \in Nat /\ task.connection \in Nat
      /\ saved.connection \in Nat
      /\ saved.connection <= settings.connection
      /\ task.connection <= settings.connection
  BY SettingsTyped DEF TypeOK
<1>1. ASSUME UNCHANGED <<saved, told>>, settings'.connection = settings.connection,
             \A s \in Source : excused[s] => excused'[s],
             task.at # "idle", task'.at # "idle",
             task'.connection = task.connection,
             task'.unsaved = task.unsaved,
             task'.at = "shown" => /\ task.at = "shown"
                                   /\ task'.source = task.source
                                   /\ task'.status = task.status,
             \A s \in Source :
               /\ SameConnection /\ (BeingRecorded(s) => task'.at # "shown")
               /\ (~BeingRecorded(s) => WasShown(s, task.seen[s]))
               => WasShown(s, task'.seen[s])
      PROVE  Records'
  <2>1. RecordedInv'
    BY <1>1 DEF Records, RecordedInv, SameConnection
  <2>2. ASSUME NEW s \in Source, saved'.connection = settings'.connection,
               s \notin task'.unsaved
        PROVE  WasShown(s, saved.seen[s])'
    <3>1. WasShown(s, saved.seen[s])
      BY <1>1, <2>2 DEF Records, RecordedWasShown
    <3> QED BY <1>1, <3>1 DEF WasShown
  <2>3. ASSUME NEW s \in Source, SameConnection', ~BeingRecorded(s)'
        PROVE  WasShown(s, task.seen[s])'
    <3>1. /\ SameConnection /\ (BeingRecorded(s) => task'.at # "shown")
      BY <1>1, <2>3 DEF SameConnection, BeingRecorded
    <3>2. ~BeingRecorded(s) => WasShown(s, task.seen[s])
      BY <1>1, <3>1 DEF Records, RecordedWasShown
    <3>3. WasShown(s, task'.seen[s])
      BY <1>1, <3>1, <3>2
    <3> QED BY <1>1, <3>3 DEF WasShown
  <2> QED BY <2>1, <2>2, <2>3 DEF Records, RecordedWasShown
<1>2. ASSUME UNCHANGED <<saved, told>>, settings'.connection = settings.connection,
             \A s \in Source : excused[s] => excused'[s],
             task' = Idle,
             task.at # "idle" => \/ ~SameConnection
                                 \/ \A s \in task.unsaved : excused'[s]
      PROVE  Records'
  <2>1. task'.at = "idle" /\ task'.unsaved = {}
    BY <1>2, IdleTyped
  <2>2. RecordedInv'
    BY <2>1 DEF RecordedInv
  <2>3. ASSUME NEW s \in Source, saved.connection = settings.connection
        PROVE  WasShown(s, saved.seen[s])'
    <3>1. CASE s \notin task.unsaved
      BY <1>2, <2>3, <3>1 DEF Records, RecordedWasShown, WasShown
    <3>2. CASE s \in task.unsaved
      <4>1. task.at # "idle"
        BY <3>2 DEF TypeOK
      <4>2. SameConnection
        BY <1>0, <2>3, <4>1 DEF Records, RecordedInv, SameConnection
      <4>3. told[s] # None /\ excused'[s]
        BY <1>2, <3>2, <4>1, <4>2 DEF Records, RecordedInv
      <4> QED BY <1>2, <4>3 DEF WasShown
    <3> QED BY <3>1, <3>2
  <2> QED BY <1>2, <2>1, <2>2, <2>3 DEF Records, RecordedWasShown
<1>3. ASSUME NEW at \in {"arm", "save", "fetch"}, NEW seen \in [Source -> Items],
             Begin(at, seen), task.at = "idle",
             UNCHANGED <<settings, saved, told, excused>>,
             \A s \in Source : seen[s] = Unseen \/
                               /\ saved.connection = settings.connection
                               /\ seen[s] = saved.seen[s]
      PROVE  Records'
  <2>1. /\ task'.at = at /\ task'.seen = seen /\ task'.unsaved = {}
        /\ task'.connection = settings.connection
    BY <1>3, BegunTyped
  <2>2. RecordedInv'
    BY <1>0, <1>3, <2>1 DEF RecordedInv
  <2>3. task.unsaved = {}
    BY <1>3 DEF TypeOK
  <2>4. \A s \in Source : saved.connection = settings.connection
                            => WasShown(s, saved.seen[s])
    BY <2>3 DEF Records, RecordedWasShown
  <2>5. \A s \in Source : WasShown(s, seen[s])
    BY <1>3, <2>4 DEF WasShown, Unseen
  <2> QED BY <1>3, <2>1, <2>2, <2>4, <2>5
          DEF Records, RecordedWasShown, WasShown
<1>4. Context \in [Source -> Items] /\ NothingSeen \in [Source -> Items]
  BY ContextTyped, NothingTyped
<1>5. \A s \in Source : /\ NothingSeen[s] = Unseen
                        /\ Context[s] = Unseen \/
                             /\ saved.connection = settings.connection
                             /\ Context[s] = saved.seen[s]
  BY DEF Context, NothingSeen
<1>6. CASE BeginRecover
  <2>1. /\ task.at = "idle" /\ UNCHANGED <<settings, saved, told, excused>>
        /\ Begin("arm", Context) \/ Begin("save", NothingSeen)
    BY <1>6 DEF BeginRecover
  <2> QED BY <1>3, <1>4, <1>5, <2>1
<1>7. CASE BeginCheck
  <2>1. CASE Wanted
    BY <1>3, <1>4, <1>5, <1>7, <2>1 DEF BeginCheck
  <2>2. CASE ~Wanted
    BY <1>7, <2>2 DEF BeginCheck, Records, RecordedWasShown, RecordedInv,
                      WasShown, SameConnection, BeingRecorded
  <2> QED BY <2>1, <2>2
<1>8. CASE Arm \/ Fetch \/ EndCheck \/ Save
  <2>1. /\ task.at \in {"arm", "fetch", "look", "save"}
        /\ task'.at \in {"save", "look", "write"}
        /\ task'.connection = task.connection /\ task'.seen = task.seen
        /\ task'.unsaved = task.unsaved
        /\ UNCHANGED <<settings, saved, told, excused>>
    BY <1>0, <1>8 DEF Arm, Fetch, EndCheck, Save, Tasks
  <2>2. \A s \in Source : ~BeingRecorded(s)
    BY <2>1 DEF BeingRecorded
  <2> QED BY <1>1, <2>1, <2>2
<1>9. CASE FetchFails \/ Cancel
  <2>1. /\ task' = Idle /\ UNCHANGED <<settings, saved, told, excused>>
        /\ task.unsaved = {} \/ ~SameConnection
    BY <1>9 DEF FetchFails, Cancel, TypeOK
  <2> QED BY <1>2, <2>1
<1>10. ASSUME NEW s \in Source, Pass(s) PROVE Records'
  <2>1. /\ task' = [task EXCEPT !.todo = task.todo \ {s}, !.seen = task'.seen]
        /\ \A r \in Source : r # s => task'.seen[r] = task.seen[r]
        /\ task'.seen[s].known = task.seen[s].known
        /\ task.at = "look" /\ UNCHANGED <<settings, saved, told, excused>>
    BY <1>10, Passed DEF Pass
  <2>2. /\ task'.at = "look" /\ task'.connection = task.connection
        /\ task'.unsaved = task.unsaved
    BY <1>0, <2>1 DEF Tasks
  <2>3. task'.seen[s].condition \in {None, task.seen[s].condition}
    <3>1. task.seen \in [Source -> Items]
      BY <1>0 DEF Tasks
    <3> QED BY <1>0, <1>10, <3>1 DEF Pass, Tasks, Items
  <2>4. \A r \in Source : WasShown(r, task.seen[r]) => WasShown(r, task'.seen[r])
    BY <2>1, <2>3 DEF WasShown
  <2>5. \A r \in Source : ~BeingRecorded(r)
    BY <2>1 DEF BeingRecorded
  <2> QED BY <1>1, <2>1, <2>2, <2>4, <2>5
<1>11. ASSUME NEW s \in Source, Show(s) PROVE Records'
  <2>1. /\ task.at = "look" /\ SameConnection
        /\ task.status[s].kind \in Kinds /\ task.status[s] \in Status
        /\ task' = [task EXCEPT !.at = "shown", !.source = s, !.todo = @ \ {s},
                                !.unsaved = @ \cup {s}]
        /\ told' = [told EXCEPT ![s] = ConditionOf(task.status[s])]
        /\ excused' = [excused EXCEPT ![s] = FALSE]
        /\ UNCHANGED <<settings, saved>>
    BY <1>11 DEF Show, Notable, TypeOK
  <2>2. /\ task'.at = "shown" /\ task'.source = s /\ task'.seen = task.seen
        /\ task'.unsaved = task.unsaved \cup {s} /\ task'.status = task.status
        /\ task'.connection = task.connection
    BY <1>0, <2>1 DEF Tasks
  <2>3. /\ told'[s] = ConditionOf(task.status[s]) /\ told'[s] # None
        /\ \A r \in Source \ {s} : told'[r] = told[r] /\ excused'[r] = excused[r]
    BY <1>0, <2>1, StatusHasCondition, LoginMonitorAssumption DEF Condition
  <2>4. RecordedInv'
    BY <2>1, <2>2, <2>3 DEF Records, RecordedInv, SameConnection
  <2>5. ASSUME NEW r \in Source \ {s}
        PROVE  /\ saved.connection = settings.connection /\ r \notin task.unsaved
                    => WasShown(r, saved.seen[r])'
               /\ WasShown(r, task.seen[r])'
    <3>1. WasShown(r, task.seen[r])
      BY <2>1 DEF Records, RecordedWasShown, BeingRecorded
    <3>2. saved.connection = settings.connection /\ r \notin task.unsaved
            => WasShown(r, saved.seen[r])
      BY DEF Records, RecordedWasShown
    <3> QED BY <2>1, <2>2, <2>3, <3>1, <3>2 DEF WasShown
  <2> QED BY <2>1, <2>2, <2>4, <2>5
          DEF Records, RecordedWasShown, BeingRecorded
<1>12. CASE Shown
  <2>1. /\ task.source \in Source /\ task.at = "shown" /\ SameConnection
        /\ ConditionOf(task.status[task.source]) \in Condition
        /\ task' = [task EXCEPT !.at = "look", !.source = None,
                                !.seen = task'.seen]
        /\ task'.seen = [task.seen EXCEPT ![task.source] =
                           Item(ConditionOf(task.status[task.source]), TRUE)]
        /\ UNCHANGED <<settings, saved, told, excused>>
    BY <1>12, Recorded DEF Shown
  <2>2. task'.connection = task.connection /\ task'.unsaved = task.unsaved
        /\ task'.at = "look"
    <3>1. PICK seen : task' = [task EXCEPT !.at = "look", !.source = None,
                                           !.seen = seen]
      BY <2>1
    <3> QED BY <1>0, <3>1 DEF Tasks
  <2>3. /\ task'.seen[task.source]
             = Item(ConditionOf(task.status[task.source]), TRUE)
        /\ \A r \in Source \ {task.source} : task'.seen[r] = task.seen[r]
    BY <1>0, <2>1 DEF Tasks
  <2>4. /\ told[task.source] = ConditionOf(task.status[task.source])
        /\ told[task.source] # None
    BY <2>1, LoginMonitorAssumption DEF Records, RecordedInv, Condition
  <2>5. WasShown(task.source, task'.seen[task.source])
    BY <2>3, <2>4 DEF WasShown, Item
  <2>6. \A r \in Source : ~BeingRecorded(r) => r # task.source
    BY <2>1 DEF BeingRecorded
  <2>7. \A r \in Source : (~BeingRecorded(r) => WasShown(r, task.seen[r]))
                            => WasShown(r, task'.seen[r])
    BY <2>1, <2>3, <2>5 DEF BeingRecorded
  <2> QED BY <1>1, <2>1, <2>2, <2>7
<1>13. CASE Write
  <2>1. /\ task.at = "write" /\ task' = Idle
        /\ saved'.connection = task.connection /\ saved'.seen = task.seen
        /\ UNCHANGED <<settings, told, excused>>
    BY <1>13 DEF Write
  <2>2. task'.at = "idle" /\ task'.unsaved = {}
    BY <2>1, IdleTyped
  <2>3. SameConnection => \A s \in Source : WasShown(s, task.seen[s])
    BY <2>1 DEF Records, RecordedWasShown, BeingRecorded
  <2>4. RecordedInv'
    BY <2>2 DEF RecordedInv
  <2> QED BY <2>1, <2>2, <2>3, <2>4
          DEF Records, RecordedWasShown, SameConnection, WasShown
<1>14. CASE Die
  <2>1. /\ task' = Idle /\ UNCHANGED <<settings, saved, told>>
        /\ Excuse(task.unsaved) /\ task.unsaved \subseteq Source
    BY <1>0, <1>14 DEF Die, Tasks
  <2>2. \A s \in Source : excused[s] \/ s \in task.unsaved => excused'[s]
    BY <2>1 DEF Excuse
  <2> QED BY <1>2, <2>1, <2>2
<1>15. CASE ChangeConnection
  <2>1. /\ settings'.connection = settings.connection + 1
        /\ UNCHANGED <<saved, task>>
    BY <1>15 DEF ChangeConnection, Change, TypeOK
  <2>2. /\ saved.connection # settings'.connection /\ ~SameConnection'
    BY <1>0, <2>1 DEF SameConnection
  <2>3. RecordedInv'
    BY <2>1, <2>2 DEF Records, RecordedInv
  <2> QED BY <2>1, <2>2, <2>3 DEF RecordedWasShown, Records
<1>16. ASSUME settings'.connection = settings.connection,
              UNCHANGED <<saved, task, told>>,
              \A s \in Source : excused[s] => excused'[s]
       PROVE  Records'
  BY <1>16 DEF Records, RecordedWasShown, RecordedInv, WasShown,
               SameConnection, BeingRecorded
<1>17. CASE SwitchPolling \/ \E s \in Source : Approve(s) \/ Revoke(s)
  <2>1. PICK new, dropped :
          Change(new, dropped) /\ new.connection = settings.connection
    <3>1. CASE SwitchPolling
      <4> WITNESS [settings EXCEPT !.polling = ~@], Source
      <4> QED BY <3>1 DEF SwitchPolling, TypeOK
    <3>2. ASSUME NEW s \in Source, Approve(s)
          PROVE  \E new, dropped : /\ Change(new, dropped)
                                   /\ new.connection = settings.connection
      <4> WITNESS [settings EXCEPT !.active = @ \cup {s}], {}
      <4> QED BY <3>2 DEF Approve, TypeOK
    <3>3. ASSUME NEW s \in Source, Revoke(s)
          PROVE  \E new, dropped : /\ Change(new, dropped)
                                   /\ new.connection = settings.connection
      <4> WITNESS [settings EXCEPT !.active = @ \ {s}], {s}
      <4> QED BY <3>3 DEF Revoke, TypeOK
    <3> QED BY <1>17, <3>1, <3>2, <3>3
  <2>2. /\ settings'.connection = settings.connection
        /\ UNCHANGED <<saved, task>> /\ told' = told
    BY <1>17, <2>1 DEF Change, SwitchPolling, Approve, Revoke
  <2>3. \A s \in Source : excused[s] => excused'[s]
    BY <2>1 DEF Change, Excuse
  <2> QED BY <1>16, <2>2, <2>3
<1>18. ASSUME NEW s \in Source, CooldownEnds(s) PROVE Records'
  <2>1. /\ task' = [task EXCEPT !.seen = task'.seen]
        /\ saved' = [saved EXCEPT !.seen = saved'.seen]
        /\ \A r \in Source :
             /\ task'.seen[r].known = task.seen[r].known
             /\ task'.seen[r].condition = task.seen[r].condition
             /\ saved'.seen[r].known = saved.seen[r].known
             /\ saved'.seen[r].condition = saved.seen[r].condition
        /\ UNCHANGED <<settings, told, excused>>
    BY <1>18, Cooled DEF CooldownEnds
  <2>2. /\ task'.at = task.at /\ task'.connection = task.connection
        /\ task'.unsaved = task.unsaved /\ task'.source = task.source
        /\ task'.status = task.status /\ saved'.connection = saved.connection
    BY <1>0, <2>1 DEF Tasks, TypeOK
  <2>3. RecordedInv'
    BY <2>1, <2>2 DEF Records, RecordedInv, SameConnection
  <2>4. \A r \in Source :
          /\ WasShown(r, saved.seen[r]) => WasShown(r, saved.seen[r])'
          /\ WasShown(r, task.seen[r]) => WasShown(r, task.seen[r])'
    BY <2>1 DEF WasShown
  <2> QED BY <2>1, <2>2, <2>3, <2>4
          DEF Records, RecordedWasShown, SameConnection, BeingRecorded
<1>19. CASE Startup \/ UNCHANGED vars
            \/ \E s \in Source, status \in Status : StatusChanges(s, status)
  <2>1. UNCHANGED <<settings, saved, task, told, excused>>
    BY <1>19 DEF Startup, StatusChanges, vars
  <2> QED BY <1>16, <2>1
<1> QED BY <1>6, <1>7, <1>8, <1>9, <1>10, <1>11, <1>12, <1>13, <1>14, <1>15,
           <1>17, <1>18, <1>19 DEF Next, Step, User

\* Nothing is kept from the user for a notice that never reached them: what is on
\* record of a source, in storage and in the copy a check goes by, was shown on
\* this connection, and last unless the worker died with the record since or
\* reminders were not wanted.
THEOREM RecordsAreGenuine == Spec => []RecordedWasShown
<1>1. Records => RecordedWasShown
  BY DEF Records
<1> QED BY InitTyped, NextTyped, InitRecords, NextRecords, <1>1, PTL DEF Spec
=============================================================================
