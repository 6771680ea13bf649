------------------------- MODULE PushProtocolProofs -------------------------
(***************************************************************************)
(* What holds of PushProtocol for every number of browsers, scopes, sets   *)
(* of cookies, late POSTs and changes of consent and configuration.        *)
(***************************************************************************)
EXTENDS PushProtocol, TLAPS

\* No attempt is an attempt, about to send nothing.
LEMMA NoAttemptTyped ==
  NoAttempt \in AttemptType /\ NoAttempt.at = "idle" /\ ~NoAttempt.blind
  /\ ~NoAttempt.withdrawn
BY PushAssumption DEF NoAttempt, AttemptType, Stages, BeforeRecheck

\* What one step of a browser leaves of an attempt that goes on, or ends.
LEMMA GoesTyped ==
  ASSUME TypeOK, NEW b \in Browser, NEW new \in AttemptType,
         attempt[b].at # "wait", new.at # "wait",
         new.at # "idle" => new.scope # None /\ new.revision # 0,
         Goes(b, new), UNCHANGED <<receiver, consent, posted>>
  PROVE  TypeOK'
<1>1. /\ attempt' \in [Browser -> AttemptType] /\ attempt'[b] = new
      /\ \A c \in Browser : c # b => attempt'[c] = attempt[c]
  BY DEF Goes, TypeOK
<1>2. \A c \in Browser : Awaited(c)' = Awaited(c)
  BY DEF Awaited
<1>3. Awaited(b) = {}
  BY DEF TypeOK
<1> QED BY <1>1, <1>2, <1>3 DEF TypeOK, receiver, consent, Underway

\* A check passed or failed: GoesIf.
LEMMA GoesIfTyped ==
  ASSUME TypeOK, NEW b \in Browser, Underway(b), NEW condition,
         NEW new \in AttemptType, new.at # "wait",
         new.scope = attempt[b].scope, new.revision = attempt[b].revision,
         GoesIf(b, condition, new), UNCHANGED <<receiver, consent, posted>>
  PROVE  TypeOK'
<1>1. CASE condition
  <2>1. Goes(b, new)
    BY <1>1 DEF GoesIf
  <2> QED BY <2>1, GoesTyped DEF TypeOK, Underway
<1>2. CASE ~condition
  <2>1. Goes(b, NoAttempt)
    BY <1>2 DEF GoesIf
  <2> QED BY <2>1, GoesTyped, NoAttemptTyped DEF Underway
<1> QED BY <1>1, <1>2

\* A fresh receiver and browsers that have approved what it holds.
LEMMA InitTyped == Init => TypeOK
<1> SUFFICES ASSUME Init PROVE TypeOK
  OBVIOUS
<1>1. spec.scope \in Scope /\ spec \in Entry
  BY DEF Init, Entry
<1>2. stored \in [version : 0..MaxVersion, jar : Jar \cup {NoCookies},
                  scope : Scope \cup {None}, for : Scope \cup {None}]
  BY PushAssumption DEF Init, Snapshot
<1>3. settings \in [Browser -> [connection : 1..MaxConnection,
                                approved : Scope \cup {None}]]
  BY <1>1, PushAssumption DEF Init
<1>4. attempt \in [Browser -> AttemptType]
  BY NoAttemptTyped DEF Init
<1>5. \A b \in Browser : attempt[b].at = "idle"
  BY NoAttemptTyped DEF Init
<1> QED BY <1>1, <1>2, <1>3, <1>4, <1>5, PushAssumption
        DEF Init, TypeOK, Awaited, Underway

\* Every step keeps the types, one case per action.
LEMMA NextTyped == TypeOK /\ [Next]_vars => TypeOK'
<1> SUFFICES ASSUME TypeOK, [Next]_vars PROVE TypeOK'
  OBVIOUS
<1> USE PushAssumption
<1>0. \A b \in Browser : attempt[b] \in AttemptType
  BY DEF TypeOK
<1>1. ASSUME NEW b \in Browser, FetchSources(b) PROVE TypeOK'
  <2> DEFINE new == [NoAttempt EXCEPT !.at = "version", !.scope = spec.scope,
                                      !.connection = settings[b].connection,
                                      !.revision = revision]
  <2>1. /\ spec.scope \in Scope /\ revision \in 1..MaxRevision
        /\ settings[b].connection \in 0..MaxConnection
    BY DEF TypeOK, Entry
  <2>2. new \in AttemptType /\ new.at = "version"
    <3>1. {"version"} \subseteq Stages
      BY DEF Stages, BeforeRecheck
    <3>2. /\ revision \in 0..MaxRevision
          /\ spec.scope \in Scope \cup {None}
      BY <2>1
    <3>3. \A a \in AttemptType : [a EXCEPT !.at = "version", !.scope = spec.scope,
                                      !.connection = settings[b].connection,
                                      !.revision = revision] \in AttemptType
      BY <2>1, <3>1, <3>2 DEF AttemptType
    <3> QED BY <3>3, NoAttemptTyped DEF AttemptType
  <2>3. new.scope # None /\ new.revision # 0
    BY <2>1, NoAttemptTyped DEF AttemptType
  <2>4. Goes(b, new) /\ attempt[b].at # "wait"
    BY <1>1 DEF FetchSources
  <2> HIDE DEF new
  <2> QED BY <1>1, <2>2, <2>3, <2>4, GoesTyped DEF FetchSources
<1>2. ASSUME NEW b \in Browser, ReadVersion(b) PROVE TypeOK'
  <2> DEFINE new == [attempt[b] EXCEPT !.at = "collect",
                                       !.expected = stored.version]
  <2>0. stored.version \in 0..MaxVersion /\ "collect" \in Stages
    BY DEF TypeOK, Stages, BeforeRecheck
  <2>1. new \in AttemptType /\ new.at = "collect"
    BY <1>0, <2>0 DEF AttemptType
  <2>2. new.scope = attempt[b].scope /\ new.revision = attempt[b].revision
    BY <1>0 DEF AttemptType
  <2>3. Underway(b) /\ GoesIf(b, revision = attempt[b].revision /\ spec.enabled,
                              new)
    BY <1>2 DEF ReadVersion, Underway
  <2> HIDE DEF new
  <2> QED BY <1>2, <2>1, <2>2, <2>3, GoesIfTyped DEF ReadVersion
<1>goes. ASSUME NEW b \in Browser, Underway(b), NEW condition,
                NEW stage \in Stages \ {"wait"},
                GoesIf(b, condition, [attempt[b] EXCEPT !.at = stage]),
                UNCHANGED <<receiver, consent, posted>>
         PROVE  TypeOK'
  <2> DEFINE new == [attempt[b] EXCEPT !.at = stage]
  <2>1. /\ new \in AttemptType /\ new.at = stage
        /\ new.scope = attempt[b].scope /\ new.revision = attempt[b].revision
    BY <1>0 DEF AttemptType
  <2>2. GoesIf(b, condition, new) /\ stage # "wait"
    BY <1>goes
  <2> HIDE DEF new
  <2> QED BY <1>goes, <2>1, <2>2, GoesIfTyped
<1>3. ASSUME NEW b \in Browser, BeginCollection(b) PROVE TypeOK'
  BY <1>3, <1>goes DEF BeginCollection, Underway, Stages, BeforeRecheck
<1>4. ASSUME NEW b \in Browser, ReadCookies(b) PROVE TypeOK'
  <2>1. PICK jar \in Jar \cup {NoCookies} :
          Goes(b, [attempt[b] EXCEPT !.at = "verify", !.jar = jar,
                                     !.during = stored.version,
                                     !.blind = ~granted[b]])
    BY <1>4 DEF ReadCookies
  <2> DEFINE new == [attempt[b] EXCEPT !.at = "verify", !.jar = jar,
                                       !.during = stored.version,
                                       !.blind = ~granted[b]]
  <2>2. /\ stored.version \in 0..MaxVersion /\ (~granted[b]) \in BOOLEAN
        /\ "verify" \in Stages
    BY DEF TypeOK, Stages, BeforeRecheck
  <2>3. /\ new \in AttemptType /\ new.at = "verify"
        /\ new.scope = attempt[b].scope /\ new.revision = attempt[b].revision
    BY <1>0, <2>2 DEF AttemptType
  <2>4. Underway(b) /\ attempt[b].at # "wait" /\ Goes(b, new)
    BY <1>4, <2>1 DEF ReadCookies, Underway
  <2>5. new.scope # None /\ new.revision # 0
    BY <2>3, <2>4 DEF TypeOK
  <2> HIDE DEF new
  <2> QED BY <1>4, <2>3, <2>4, <2>5, GoesTyped DEF ReadCookies
<1>5. ASSUME NEW b \in Browser, EndCollection(b) PROVE TypeOK'
  BY <1>5, <1>goes DEF EndCollection, Underway, Stages, BeforeRecheck
<1>6. ASSUME NEW b \in Browser, Recheck(b) PROVE TypeOK'
  BY <1>6, <1>goes DEF Recheck, Underway, Stages, BeforeRecheck
<1>7. ASSUME NEW b \in Browser, CheckConnection(b) PROVE TypeOK'
  BY <1>7, <1>goes DEF CheckConnection, Underway, Stages, BeforeRecheck
<1>8. ASSUME NEW b \in Browser, Post(b) PROVE TypeOK'
  <2>1. /\ attempt[b].at = "post" /\ posted' = posted \cup {Request(b)}
        /\ attempt' = [attempt EXCEPT ![b] = [NoAttempt EXCEPT !.at = "wait"]]
        /\ UNCHANGED <<receiver, consent>>
    BY <1>8 DEF Post, Goes
  <2>2. attempt[b].scope \in Scope /\ attempt[b].revision \in 1..MaxRevision
    BY <1>0, <2>1 DEF TypeOK, Underway, AttemptType
  <2>3. Request(b) \in RequestType /\ Request(b).browser = b /\ ~Request(b).late
    BY <1>0, <2>2 DEF Request, RequestType, AttemptType
  <2>4. /\ attempt' \in [Browser -> AttemptType] /\ attempt'[b].at = "wait"
        /\ \A c \in Browser : c # b => attempt'[c] = attempt[c]
    BY <2>1, NoAttemptTyped DEF AttemptType, Stages, TypeOK
  <2>5. Awaited(b)' = {Request(b)}
    BY <2>1, <2>3 DEF Awaited, TypeOK
  <2>6. \A c \in Browser : c # b => Awaited(c)' = Awaited(c)
    BY <2>1, <2>3 DEF Awaited
  <2>7. \A c \in Browser :
          /\ IF attempt'[c].at = "wait" THEN \E m \in posted' : Awaited(c)' = {m}
             ELSE Awaited(c)' = {}
          /\ Underway(c)' => attempt'[c].scope # None
                             /\ attempt'[c].revision # 0
    <3>1. ASSUME NEW c \in Browser, c # b
          PROVE  /\ IF attempt[c].at = "wait"
                    THEN \E m \in posted' : Awaited(c)' = {m}
                    ELSE Awaited(c)' = {}
                 /\ Underway(c) => attempt[c].scope # None
                                   /\ attempt[c].revision # 0
      BY <2>1, <2>6, <3>1 DEF TypeOK
    <3>2. Request(b) \in posted'
      BY <2>1
    <3> QED BY <2>4, <2>5, <3>1, <3>2 DEF Underway
  <2> QED BY <2>1, <2>3, <2>4, <2>7 DEF TypeOK, receiver, consent
<1>9. ASSUME NEW b \in Browser, GiveUp(b) PROVE TypeOK'
  <2>1. /\ attempt' = [attempt EXCEPT ![b] = NoAttempt]
        /\ UNCHANGED <<receiver, consent>>
    BY <1>9 DEF GiveUp, Goes
  <2>2. /\ attempt' \in [Browser -> AttemptType] /\ attempt'[b].at = "idle"
        /\ \A c \in Browser : c # b => attempt'[c] = attempt[c]
    BY <2>1, NoAttemptTyped DEF TypeOK
  <2> DEFINE late == {[m EXCEPT !.late = TRUE] : m \in Awaited(b)}
  <2>3. ASSUME NEW m \in Awaited(b)
        PROVE  LET given == [m EXCEPT !.late = TRUE]
               IN  given \in RequestType /\ given.late
    <3>1. m \in RequestType
      BY DEF Awaited, TypeOK
    <3> QED BY <3>1 DEF RequestType
  <2>late. late \subseteq RequestType /\ \A m \in late : m.late
    BY <2>3
  <2>4. posted \ Awaited(b) \subseteq posted'
        /\ posted' \subseteq (posted \ Awaited(b)) \cup late
    BY <1>9 DEF GiveUp
  <2> HIDE DEF late
  <2>5. Awaited(b)' = {}
    BY <2>late, <2>4 DEF Awaited
  <2>6. \A c \in Browser : c # b => Awaited(c)' = Awaited(c)
    BY <2>late, <2>4 DEF Awaited
  <2>7. posted' \subseteq RequestType
    BY <2>late, <2>4 DEF TypeOK
  <2>8. \A c \in Browser :
          /\ IF attempt'[c].at = "wait" THEN \E m \in posted' : Awaited(c)' = {m}
             ELSE Awaited(c)' = {}
          /\ Underway(c)' => attempt'[c].scope # None
                             /\ attempt'[c].revision # 0
    <3> SUFFICES ASSUME NEW c \in Browser, c # b
                 PROVE  IF attempt[c].at = "wait"
                        THEN \E m \in posted' : Awaited(c)' = {m}
                        ELSE Awaited(c)' = {}
      BY <2>2, <2>5 DEF TypeOK, Underway
    <3>1. \A m : Awaited(c)' = {m} => m \in posted'
      BY DEF Awaited
    <3> QED BY <2>6, <3>1 DEF TypeOK
  <2> QED BY <2>1, <2>2, <2>7, <2>8 DEF TypeOK, receiver, consent
<1>answered. ASSUME NEW m \in posted, Answered(m)
             PROVE  /\ attempt' \in [Browser -> AttemptType]
                    /\ posted' \subseteq RequestType
                    /\ \A c \in Browser :
                         /\ IF attempt'[c].at = "wait"
                            THEN \E n \in posted' : Awaited(c)' = {n}
                            ELSE Awaited(c)' = {}
                         /\ Underway(c)' => attempt'[c].scope # None
                                            /\ attempt'[c].revision # 0
  <2>1. /\ m \in RequestType /\ posted' = posted \ {m}
        /\ posted' \subseteq RequestType
    BY <1>answered DEF Answered, TypeOK
  <2>2. \A c \in Browser : \A n : Awaited(c)' = {n} => n \in posted'
    BY DEF Awaited
  <2>3. CASE m.late
    <3>1. attempt' = attempt /\ \A c \in Browser : Awaited(c)' = Awaited(c)
      BY <1>answered, <2>1, <2>3 DEF Answered, Awaited
    <3> QED BY <2>1, <2>2, <3>1 DEF TypeOK, Underway
  <2>4. CASE ~m.late
    <3> DEFINE b == m.browser
    <3>1. b \in Browser /\ attempt' = [attempt EXCEPT ![b] = NoAttempt]
      BY <1>answered, <2>1, <2>4 DEF Answered, RequestType
    <3>2. m \in Awaited(b)
      BY <2>4 DEF Awaited
    <3>3. Awaited(b) = {m}
      BY <3>1, <3>2 DEF TypeOK
    <3>4. Awaited(b)' = {}
      BY <2>1, <3>3 DEF Awaited
    <3>5. \A c \in Browser : c # b => Awaited(c)' = Awaited(c)
      BY <2>1 DEF Awaited
    <3>6. /\ attempt' \in [Browser -> AttemptType] /\ attempt'[b].at = "idle"
          /\ \A c \in Browser : c # b => attempt'[c] = attempt[c]
      BY <3>1, NoAttemptTyped DEF TypeOK
    <3> HIDE DEF b
    <3> QED BY <2>1, <2>2, <3>4, <3>5, <3>6 DEF TypeOK, Underway
  <2> QED BY <2>3, <2>4
<1>10. ASSUME NEW m \in posted, Ingested(m) PROVE TypeOK'
  BY <1>10, <1>answered DEF Ingested, TypeOK, receiver, consent
<1>11. ASSUME NEW m \in posted, Replace(m) PROVE TypeOK'
  <2>1. stored' \in [version : 0..MaxVersion, jar : Jar \cup {NoCookies},
                     scope : Scope \cup {None}, for : Scope \cup {None}]
    BY <1>11 DEF Replace, Snapshot, TypeOK, Entry, RequestType
  <2> QED BY <1>11, <2>1, <1>answered DEF Replace, TypeOK, consent
<1>empties. ASSUME revision < MaxRevision, revision' = revision + 1,
                   \/ /\ stored.version < MaxVersion
                      /\ stored' = Snapshot(stored.version + 1, NoCookies,
                                            spec.scope, None)
                   \/ stored' = stored,
                   spec' \in Entry, UNCHANGED <<consent, attempt, posted>>
            PROVE  TypeOK'
  <2>1. stored' \in [version : 0..MaxVersion, jar : Jar \cup {NoCookies},
                     scope : Scope \cup {None}, for : Scope \cup {None}]
    BY <1>empties DEF Snapshot, TypeOK, Entry
  <2>2. revision' \in 1..MaxRevision
    BY <1>empties DEF TypeOK
  <2> QED BY <1>empties, <2>1, <2>2 DEF TypeOK, consent, Awaited, Underway
<1>12. ASSUME NEW entry \in Entry, ReplaceSources(entry) PROVE TypeOK'
  BY <1>12, <1>empties DEF ReplaceSources
<1>13. CASE ClearAndPause
  <2>1. [spec EXCEPT !.enabled = FALSE] \in Entry
    BY DEF TypeOK, Entry
  <2> QED BY <1>13, <2>1, <1>empties DEF ClearAndPause
<1>14. CASE Restart
  BY <1>14, <1>empties DEF Restart, TypeOK
<1>consent. ASSUME NEW b \in Browser, UNCHANGED <<receiver, posted>>,
                   settings' \in [Browser -> [connection : 1..MaxConnection,
                                              approved : Scope \cup {None}]],
                   granted' \in [Browser -> BOOLEAN],
                   NEW withdrawn \in BOOLEAN,
                   attempt' = [attempt EXCEPT ![b].withdrawn = withdrawn]
            PROVE  TypeOK'
  <2>1. [attempt[b] EXCEPT !.withdrawn = withdrawn] \in AttemptType
    BY <1>0 DEF AttemptType
  <2>2. attempt' \in [Browser -> AttemptType]
    BY <1>consent, <2>1 DEF TypeOK
  <2>3. \A c \in Browser : /\ attempt'[c].at = attempt[c].at
                           /\ attempt'[c].scope = attempt[c].scope
                           /\ attempt'[c].revision = attempt[c].revision
    BY <1>consent, <1>0 DEF TypeOK, AttemptType
  <2>4. \A c \in Browser : Awaited(c)' = Awaited(c)
    BY <1>consent DEF Awaited
  <2>5. \A c \in Browser :
          /\ IF attempt'[c].at = "wait" THEN \E m \in posted : Awaited(c)' = {m}
             ELSE Awaited(c)' = {}
          /\ Underway(c)' => attempt'[c].scope # None
                             /\ attempt'[c].revision # 0
    <3> SUFFICES ASSUME NEW c \in Browser
                 PROVE  /\ IF attempt'[c].at = "wait"
                            THEN \E m \in posted : Awaited(c)' = {m}
                            ELSE Awaited(c)' = {}
                        /\ Underway(c)' => attempt'[c].scope # None
                                           /\ attempt'[c].revision # 0
      OBVIOUS
    <3>1. /\ IF attempt[c].at = "wait" THEN \E m \in posted : Awaited(c) = {m}
             ELSE Awaited(c) = {}
          /\ Underway(c) => attempt[c].scope # None /\ attempt[c].revision # 0
      BY DEF TypeOK
    <3>2. Awaited(c)' = Awaited(c) /\ Underway(c)' = Underway(c)
      BY <2>3, <2>4 DEF Underway
    <3> QED BY <2>3, <3>1, <3>2
  <2> QED BY <1>consent, <2>2, <2>5 DEF TypeOK, receiver
<1>withdraws. ASSUME NEW b \in Browser, NEW stages, Withdraws(b, stages)
              PROVE  \E withdrawn \in BOOLEAN :
                       attempt' = [attempt EXCEPT ![b].withdrawn = withdrawn]
  <2>1. (attempt[b].withdrawn \/ attempt[b].at \in stages) \in BOOLEAN
    OBVIOUS
  <2> QED BY <1>withdraws, <2>1 DEF Withdraws
<1>15. ASSUME NEW b \in Browser, NEW scope \in Scope \cup {None},
              Approve(b, scope)
       PROVE  TypeOK'
  <2>1. settings' \in [Browser -> [connection : 1..MaxConnection,
                                   approved : Scope \cup {None}]]
    BY <1>15 DEF Approve, TypeOK
  <2>2. granted' \in [Browser -> BOOLEAN]
    BY <1>15 DEF Approve, TypeOK
  <2>3. \E withdrawn \in BOOLEAN :
          attempt' = [attempt EXCEPT ![b].withdrawn = withdrawn]
    BY <1>15, <1>withdraws DEF Approve
  <2> QED BY <1>15, <2>1, <2>2, <2>3, <1>consent DEF Approve
<1>16. ASSUME NEW b \in Fickle, ChangeConnection(b) PROVE TypeOK'
  <2>1. b \in Browser
    OBVIOUS
  <2>2. settings[b].connection + 1 \in 1..MaxConnection
    BY <1>16, <2>1 DEF ChangeConnection, TypeOK
  <2>3. settings' \in [Browser -> [connection : 1..MaxConnection,
                                   approved : Scope \cup {None}]]
    BY <1>16, <2>1, <2>2 DEF ChangeConnection, TypeOK
  <2> QED BY <1>16, <2>1, <2>3, <1>withdraws, <1>consent
          DEF ChangeConnection, TypeOK
<1>17. ASSUME NEW b \in Fickle, Revoke(b) PROVE TypeOK'
  <2>1. b \in Browser
    OBVIOUS
  <2>2. settings' \in [Browser -> [connection : 1..MaxConnection,
                                   approved : Scope \cup {None}]]
    BY <1>17, <2>1 DEF Revoke, TypeOK
  <2> QED BY <1>17, <2>1, <2>2, <1>withdraws, <1>consent DEF Revoke, TypeOK
<1>18. ASSUME NEW b \in Fickle, RemoveAccess(b) PROVE TypeOK'
  <2>1. granted' \in [Browser -> BOOLEAN]
    BY <1>18 DEF RemoveAccess, TypeOK
  <2> QED BY <1>18, <2>1 DEF RemoveAccess, TypeOK, receiver, Awaited, Underway
<1>19. CASE UNCHANGED vars
  BY <1>19 DEF vars, receiver, consent, TypeOK, Awaited, Underway
<1> QED BY <1>1, <1>2, <1>3, <1>4, <1>5, <1>6, <1>7, <1>8, <1>9, <1>10, <1>11,
           <1>12, <1>13, <1>14, <1>15, <1>16, <1>17, <1>18, <1>19
        DEF Next, BrowserStep

\* Every variable keeps its type, and a browser waits for at most one POST.
THEOREM TypeCorrect == Spec => []TypeOK
BY InitTyped, NextTyped, PTL DEF Spec

-----------------------------------------------------------------------------
(* What the steps leave of attempts and requests *)

\* An attempt goes on as told, if the condition holds, or ends; the others are
\* left alone.
LEMMA GoesOnOrEnds ==
  ASSUME TypeOK, NEW b \in Browser, NEW condition, NEW new,
         GoesIf(b, condition, new)
  PROVE  /\ \A c \in Browser : c # b => attempt'[c] = attempt[c]
         /\ attempt'[b] = NoAttempt \/ (condition /\ attempt'[b] = new)
BY DEF GoesIf, Goes, TypeOK

\* An attempt that has ended has nothing to send, and nothing to regret.
LEMMA EndedIsIdle ==
  /\ NoAttempt.at = "idle" /\ NoAttempt.connection = 0
  /\ NoAttempt.blind = FALSE /\ NoAttempt.withdrawn = FALSE
BY DEF NoAttempt

\* After an answer there is one request less, and its attempt may be over.
LEMMA AnsweredEnds ==
  ASSUME TypeOK, NEW m \in posted, Answered(m)
  PROVE  /\ posted' \subseteq posted
         /\ \A c \in Browser :
              attempt'[c] = attempt[c] \/ attempt'[c] = NoAttempt
BY DEF Answered, TypeOK, RequestType

\* Who gives up ends the attempt, and its request is gone or late.
LEMMA GiveUpEnds ==
  ASSUME TypeOK, NEW b \in Browser, GiveUp(b)
  PROVE  /\ UNCHANGED <<receiver, consent>>
         /\ attempt'[b] = NoAttempt
         /\ \A c \in Browser : c # b => attempt'[c] = attempt[c]
         /\ \A n \in posted' : \E m \in posted :
              /\ n.revision = m.revision /\ n.for = m.for
              /\ n.expected = m.expected /\ n.during = m.during
<1>1. /\ attempt' = [attempt EXCEPT ![b] = NoAttempt]
      /\ UNCHANGED <<receiver, consent>>
  BY DEF GiveUp, Goes
<1>2. \A n \in posted' :
        n \in posted \/ \E m \in Awaited(b) : n = [m EXCEPT !.late = TRUE]
  BY DEF GiveUp
<1>3. \A m \in Awaited(b) : m \in posted /\ m \in RequestType
  BY DEF Awaited, TypeOK
<1>4. ASSUME NEW n \in posted'
      PROVE  \E m \in posted : /\ n.revision = m.revision /\ n.for = m.for
                              /\ n.expected = m.expected
                              /\ n.during = m.during
  <2>1. CASE n \in posted
    BY <2>1
  <2>2. CASE \E m \in Awaited(b) : n = [m EXCEPT !.late = TRUE]
    BY <2>2, <1>3 DEF RequestType
  <2> QED BY <1>2, <2>1, <2>2
<1>5. /\ attempt'[b] = NoAttempt
      /\ \A c \in Browser : c # b => attempt'[c] = attempt[c]
  BY <1>1 DEF TypeOK
<1> QED BY <1>1, <1>4, <1>5

\* A POST adds the request of its attempt, which waits.
LEMMA PostSends ==
  ASSUME TypeOK, NEW b \in Browser, Post(b)
  PROVE  /\ UNCHANGED <<receiver, consent>>
         /\ attempt[b].at = "post"
         /\ posted' = posted \cup {Request(b)}
         /\ attempt'[b].at = "wait" /\ attempt'[b].withdrawn = FALSE
         /\ attempt'[b].blind = FALSE /\ attempt'[b].connection = 0
         /\ \A c \in Browser : c # b => attempt'[c] = attempt[c]
BY DEF Post, Goes, TypeOK, NoAttempt

\* A change of consent touches no more of an attempt than whether it was
\* withdrawn.
LEMMA ConsentOnlyMarks ==
  ASSUME TypeOK, NEW b \in Browser,
         \/ ChangeConnection(b) \/ Revoke(b) \/ RemoveAccess(b)
         \/ \E scope \in Scope \cup {None} : Approve(b, scope)
  PROVE  /\ UNCHANGED <<receiver, posted>>
         /\ \A c \in Browser :
              /\ c # b => attempt'[c] = attempt[c]
              /\ \A f \in {"at", "connection", "scope", "revision", "expected",
                           "during", "blind"} : attempt'[c][f] = attempt[c][f]
<1>1. UNCHANGED <<receiver, posted>>
  BY DEF ChangeConnection, Revoke, RemoveAccess, Approve
<1>2. \/ attempt' = attempt
      \/ \E withdrawn : attempt' = [attempt EXCEPT ![b].withdrawn = withdrawn]
  BY DEF ChangeConnection, Revoke, RemoveAccess, Approve, Withdraws
<1> QED BY <1>1, <1>2 DEF TypeOK, AttemptType

-----------------------------------------------------------------------------
(* Stored cookies are of the configuration in force *)

LEMMA InitOfItsRevision == Init => StoredAsConfigured /\ OfItsRevision
BY NoAttemptTyped
   DEF Init, StoredAsConfigured, OfItsRevision, Snapshot, Underway

LEMMA NextOfItsRevision ==
  TypeOK /\ StoredAsConfigured /\ OfItsRevision /\ [Next]_vars =>
    StoredAsConfigured' /\ OfItsRevision'
<1> SUFFICES ASSUME TypeOK, StoredAsConfigured, OfItsRevision, [Next]_vars
             PROVE  StoredAsConfigured' /\ OfItsRevision'
  OBVIOUS
<1> USE PushAssumption
<1>types. /\ revision \in Nat /\ \A b \in Browser : attempt[b].revision \in Nat
          /\ \A m \in posted : m.revision \in Nat
  BY DEF TypeOK, AttemptType, RequestType
\* Nothing new is told to a browser or sent.
<1>calm. ASSUME UNCHANGED <<spec, revision>>,
                \A c \in Browser : Underway(c)' =>
                  /\ Underway(c) /\ attempt'[c].scope = attempt[c].scope
                  /\ attempt'[c].revision = attempt[c].revision,
                \A n \in posted' : \E m \in posted :
                  n.revision = m.revision /\ n.for = m.for
         PROVE  OfItsRevision'
  BY <1>calm DEF OfItsRevision
<1>same. ASSUME UNCHANGED receiver PROVE StoredAsConfigured'
  BY <1>same DEF receiver, StoredAsConfigured
<1>1. ASSUME NEW b \in Browser, FetchSources(b)
      PROVE  StoredAsConfigured' /\ OfItsRevision'
  <2>1. /\ attempt'[b].revision = revision /\ attempt'[b].scope = spec.scope
        /\ \A c \in Browser : c # b => attempt'[c] = attempt[c]
        /\ UNCHANGED <<receiver, posted>>
    BY <1>1 DEF FetchSources, Goes, TypeOK, NoAttempt
  <2>2. OfItsRevision'
    BY <2>1, <1>types DEF OfItsRevision, receiver, Underway
  <2> QED BY <2>1, <2>2, <1>same
\* The other steps of a browser up to the POST keep what it was told.
<1>keeps. ASSUME NEW b \in Browser, NEW condition, NEW new,
                 GoesIf(b, condition, new), Underway(b),
                 new.scope = attempt[b].scope,
                 new.revision = attempt[b].revision,
                 UNCHANGED <<receiver, posted>>
          PROVE  StoredAsConfigured' /\ OfItsRevision'
  <2>1. \A c \in Browser : Underway(c)' =>
          /\ Underway(c) /\ attempt'[c].scope = attempt[c].scope
          /\ attempt'[c].revision = attempt[c].revision
    BY <1>keeps, GoesOnOrEnds, EndedIsIdle DEF Underway
  <2> QED BY <1>keeps, <2>1, <1>calm, <1>same DEF receiver
<1>2. ASSUME NEW b \in Browser,
             \/ ReadVersion(b) \/ BeginCollection(b) \/ EndCollection(b)
             \/ Recheck(b) \/ CheckConnection(b)
      PROVE  StoredAsConfigured' /\ OfItsRevision'
  <2>1. attempt[b] \in AttemptType
    BY DEF TypeOK
  <2>2. \A stage, version :
          /\ [attempt[b] EXCEPT !.at = stage].scope = attempt[b].scope
          /\ [attempt[b] EXCEPT !.at = stage].revision = attempt[b].revision
          /\ [attempt[b] EXCEPT !.at = stage, !.expected = version].scope
               = attempt[b].scope
          /\ [attempt[b] EXCEPT !.at = stage, !.expected = version].revision
               = attempt[b].revision
    BY <2>1 DEF AttemptType
  <2>3. CASE ReadVersion(b)
    <3> DEFINE new == [attempt[b] EXCEPT !.at = "collect",
                                         !.expected = stored.version]
    <3>1. new.scope = attempt[b].scope /\ new.revision = attempt[b].revision
      BY <2>2
    <3>2. /\ GoesIf(b, revision = attempt[b].revision /\ spec.enabled, new)
          /\ Underway(b) /\ UNCHANGED <<receiver, posted>>
      BY <2>3 DEF ReadVersion, Underway
    <3> HIDE DEF new
    <3> QED BY <3>1, <3>2, <1>keeps
  <2>4. CASE BeginCollection(b)
    BY <2>4, <2>2, <1>keeps DEF BeginCollection, Underway
  <2>5. CASE EndCollection(b)
    BY <2>5, <2>2, <1>keeps DEF EndCollection, Underway
  <2>6. CASE Recheck(b)
    BY <2>6, <2>2, <1>keeps DEF Recheck, Underway
  <2>7. CASE CheckConnection(b)
    BY <2>7, <2>2, <1>keeps DEF CheckConnection, Underway
  <2> QED BY <1>2, <2>3, <2>4, <2>5, <2>6, <2>7
<1>3. ASSUME NEW b \in Browser, ReadCookies(b)
      PROVE  StoredAsConfigured' /\ OfItsRevision'
  <2>1. /\ Underway(b) /\ attempt'[b].scope = attempt[b].scope
        /\ attempt'[b].revision = attempt[b].revision
        /\ \A c \in Browser : c # b => attempt'[c] = attempt[c]
        /\ UNCHANGED <<receiver, posted>>
    BY <1>3 DEF ReadCookies, Goes, TypeOK, AttemptType, Underway
  <2> QED BY <2>1, <1>calm, <1>same DEF receiver, Underway
\* The request says what its attempt was told.
<1>4. ASSUME NEW b \in Browser, Post(b)
      PROVE  StoredAsConfigured' /\ OfItsRevision'
  <2>1. /\ Request(b).revision = attempt[b].revision
        /\ Request(b).for = attempt[b].scope
    BY DEF Request
  <2>2. OfItsRevision'
    <3>1. /\ Request(b).revision <= revision
          /\ Request(b).revision = revision => Request(b).for = spec.scope
      BY <1>4, <2>1, PostSends DEF OfItsRevision, Underway
    <3>2. UNCHANGED <<spec, revision>>
      BY <1>4, PostSends DEF receiver
    <3>3. \A c \in Browser : Underway(c)' => attempt'[c] = attempt[c]
      BY <1>4, PostSends DEF Underway
    <3>4. \A c \in Browser : Underway(c)' => Underway(c)
      BY <3>3 DEF Underway
    <3>5. posted' = posted \cup {Request(b)}
      BY <1>4, PostSends
    <3>6. \A m \in posted' :
            /\ m.revision <= revision
            /\ m.revision = revision => m.for = spec.scope
      BY <3>1, <3>5 DEF OfItsRevision
    <3>7. \A c \in Browser : Underway(c)' =>
            /\ attempt'[c].revision <= revision
            /\ attempt'[c].revision = revision => attempt'[c].scope = spec.scope
      BY <3>3, <3>4 DEF OfItsRevision
    <3> QED BY <3>2, <3>6, <3>7 DEF OfItsRevision
  <2> QED BY <1>4, <2>2, PostSends, <1>same
<1>5. ASSUME NEW b \in Browser, GiveUp(b)
      PROVE  StoredAsConfigured' /\ OfItsRevision'
  <2>1. \A c \in Browser : Underway(c)' =>
          /\ Underway(c) /\ attempt'[c].scope = attempt[c].scope
          /\ attempt'[c].revision = attempt[c].revision
    <3>1. attempt'[b].at = "idle"
      BY <1>5, GiveUpEnds, EndedIsIdle
    <3> QED BY <1>5, <3>1, GiveUpEnds DEF Underway
  <2> QED BY <1>5, <2>1, GiveUpEnds, <1>calm, <1>same DEF receiver
<1>answered. ASSUME NEW m \in posted, Answered(m), UNCHANGED <<spec, revision>>
             PROVE  OfItsRevision'
  <2>1. \A c \in Browser : Underway(c)' =>
          /\ Underway(c) /\ attempt'[c].scope = attempt[c].scope
          /\ attempt'[c].revision = attempt[c].revision
    BY <1>answered, AnsweredEnds, EndedIsIdle DEF Underway
  <2> QED BY <1>answered, <2>1, AnsweredEnds, <1>calm
<1>6. ASSUME NEW m \in posted, Ingested(m)
      PROVE  StoredAsConfigured' /\ OfItsRevision'
  BY <1>6, <1>answered, <1>same DEF Ingested, receiver
\* What is stored carries the revision in force, so it is for that scope.
<1>7. ASSUME NEW m \in posted, Replace(m)
      PROVE  StoredAsConfigured' /\ OfItsRevision'
  <2>1. m.revision = revision /\ spec.enabled /\ m.for = spec.scope
    BY <1>7 DEF Replace, Refused, OfItsRevision
  <2>2. stored'.scope = spec.scope /\ stored'.for = m.for /\ spec' = spec
    BY <1>7 DEF Replace, Snapshot
  <2> QED BY <1>7, <2>1, <2>2, <1>answered DEF Replace, StoredAsConfigured
\* Nothing carries a revision that is drawn only now.
<1>new. ASSUME revision' = revision + 1, UNCHANGED <<attempt, posted>>
        PROVE  OfItsRevision'
  BY <1>new, <1>types DEF OfItsRevision, Underway
<1>8. ASSUME NEW entry \in Entry, ReplaceSources(entry)
      PROVE  StoredAsConfigured' /\ OfItsRevision'
  BY <1>8, <1>new DEF ReplaceSources, Snapshot, StoredAsConfigured
<1>9. CASE ClearAndPause
  BY <1>9, <1>new DEF ClearAndPause, Snapshot, StoredAsConfigured
<1>10. CASE Restart
  BY <1>10, <1>new DEF Restart, StoredAsConfigured
<1>11. ASSUME NEW b \in Browser,
              \/ ChangeConnection(b) \/ Revoke(b) \/ RemoveAccess(b)
              \/ \E scope \in Scope \cup {None} : Approve(b, scope)
       PROVE  StoredAsConfigured' /\ OfItsRevision'
  <2>1. \A c \in Browser : /\ attempt'[c].at = attempt[c].at
                           /\ attempt'[c].scope = attempt[c].scope
                           /\ attempt'[c].revision = attempt[c].revision
    BY <1>11, ConsentOnlyMarks
  <2> QED BY <1>11, <2>1, ConsentOnlyMarks, <1>calm, <1>same
          DEF receiver, Underway
<1>12. CASE UNCHANGED vars
  BY <1>12, <1>calm, <1>same DEF vars, receiver, Underway
<1> QED BY <1>1, <1>2, <1>3, <1>4, <1>5, <1>6, <1>7, <1>8, <1>9, <1>10, <1>11,
           <1>12
        DEF Next, BrowserStep

\* Cookies are only kept for the entry they were collected for, while it is
\* enabled, whatever configurations came and went (receiver_state.py).
THEOREM StoredIsOfTheConfiguration == Spec => []StoredAsConfigured
<1>1. Init => TypeOK /\ StoredAsConfigured /\ OfItsRevision
  BY InitTyped, InitOfItsRevision
<1>2. TypeOK /\ StoredAsConfigured /\ OfItsRevision /\ [Next]_vars =>
        (TypeOK /\ StoredAsConfigured /\ OfItsRevision)'
  BY NextTyped, NextOfItsRevision
<1> QED BY <1>1, <1>2, PTL DEF Spec

-----------------------------------------------------------------------------
(* A snapshot is only replaced by cookies read while it was stored *)

LEMMA InitReadInOrder == Init => ReadInOrder
BY NoAttemptTyped DEF Init, ReadInOrder

LEMMA NextReadInOrder ==
  TypeOK /\ ReadInOrder /\ [Next]_vars => ReadInOrder'
<1> SUFFICES ASSUME TypeOK, ReadInOrder, [Next]_vars PROVE ReadInOrder'
  OBVIOUS
<1> USE PushAssumption
<1>types. /\ stored.version \in Nat
          /\ \A b \in Browser : /\ attempt[b] \in AttemptType
                                /\ attempt[b].expected \in Nat
                                /\ attempt[b].during \in Nat
          /\ \A m \in posted : m.expected \in Nat /\ m.during \in Nat
  BY DEF TypeOK, AttemptType, RequestType
\* Attempts go no further, requests say what they did, and versions grow.
<1>calm. ASSUME stored'.version \in Nat, stored.version <= stored'.version,
                \A c \in Browser :
                  \/ attempt'[c] = NoAttempt
                  \/ /\ attempt'[c].at = attempt[c].at
                     /\ attempt'[c].expected = attempt[c].expected
                     /\ attempt'[c].during = attempt[c].during,
                \A n \in posted' : \E m \in posted :
                  n.expected = m.expected /\ n.during = m.during
         PROVE  ReadInOrder'
  <2>1. \A m \in posted :
          m.expected <= m.during /\ m.during <= stored'.version
    BY <1>calm, <1>types DEF ReadInOrder
  <2>2. ASSUME NEW c \in Browser
        PROVE  /\ attempt'[c].at \in {"collect", "read"} =>
                    attempt'[c].expected <= stored'.version
               /\ attempt'[c].at \in {"verify", "recheck", "connection",
                                      "post"} =>
                    /\ attempt'[c].expected <= attempt'[c].during
                    /\ attempt'[c].during <= stored'.version
    <3>1. CASE attempt'[c] = NoAttempt
      BY <3>1, EndedIsIdle
    <3>2. CASE /\ attempt'[c].at = attempt[c].at
               /\ attempt'[c].expected = attempt[c].expected
               /\ attempt'[c].during = attempt[c].during
      BY <3>2, <1>calm, <1>types DEF ReadInOrder
    <3> QED BY <1>calm, <3>1, <3>2
  <2> QED BY <1>calm, <2>1, <2>2 DEF ReadInOrder
\* One attempt goes on, in order; nothing else happens.
<1>goes. ASSUME NEW b \in Browser, UNCHANGED <<receiver, posted>>,
                \A c \in Browser : c # b => attempt'[c] = attempt[c],
                attempt'[b].at \in {"collect", "read"} =>
                  attempt'[b].expected <= stored.version,
                attempt'[b].at \in {"verify", "recheck", "connection",
                                    "post"} =>
                  /\ attempt'[b].expected <= attempt'[b].during
                  /\ attempt'[b].during <= stored.version
         PROVE  ReadInOrder'
  BY <1>goes DEF ReadInOrder, receiver
<1>1. ASSUME NEW b \in Browser, FetchSources(b) PROVE ReadInOrder'
  BY <1>1, <1>goes, NoAttemptTyped
     DEF FetchSources, Goes, TypeOK, AttemptType
\* It goes on, in order, or ends.
<1>passes. ASSUME NEW b \in Browser, NEW condition, NEW new,
                  GoesIf(b, condition, new), UNCHANGED <<receiver, posted>>,
                  new.at \in {"collect", "read"} =>
                    new.expected <= stored.version,
                  new.at \in {"verify", "recheck", "connection", "post"} =>
                    new.expected <= new.during /\ new.during <= stored.version
           PROVE  ReadInOrder'
  <2>1. CASE attempt'[b] = NoAttempt
    BY <1>passes, <1>goes, <2>1, GoesOnOrEnds, EndedIsIdle
  <2>2. CASE attempt'[b] = new
    BY <1>passes, <1>goes, <2>2, GoesOnOrEnds
  <2> QED BY <1>passes, <2>1, <2>2, GoesOnOrEnds
<1>2. ASSUME NEW b \in Browser, ReadVersion(b) PROVE ReadInOrder'
  <2> DEFINE new == [attempt[b] EXCEPT !.at = "collect",
                                       !.expected = stored.version]
  <2>1. new.at = "collect" /\ new.expected <= stored.version
    BY <1>types DEF AttemptType
  <2>2. /\ GoesIf(b, revision = attempt[b].revision /\ spec.enabled, new)
        /\ UNCHANGED <<receiver, posted>>
    BY <1>2 DEF ReadVersion
  <2> HIDE DEF new
  <2> QED BY <1>passes, <2>1, <2>2
\* The checks leave what was read, and when.
<1>stage. ASSUME NEW b \in Browser, NEW stage
          PROVE  LET new == [attempt[b] EXCEPT !.at = stage]
                 IN  /\ new.at = stage
                     /\ new.expected = attempt[b].expected
                     /\ new.during = attempt[b].during
  BY <1>types DEF AttemptType
<1>3. ASSUME NEW b \in Browser, BeginCollection(b) PROVE ReadInOrder'
  <2> DEFINE new == [attempt[b] EXCEPT !.at = "read"]
  <2>1. new.at = "read" /\ new.expected <= stored.version
    BY <1>3, <1>stage DEF BeginCollection, ReadInOrder
  <2>2. GoesIf(b, granted[b], new) /\ UNCHANGED <<receiver, posted>>
    BY <1>3 DEF BeginCollection
  <2> HIDE DEF new
  <2> QED BY <1>passes, <2>1, <2>2
\* The version of the moment in which the cookies are read.
<1>4. ASSUME NEW b \in Browser, ReadCookies(b) PROVE ReadInOrder'
  <2>1. /\ attempt[b].at = "read" /\ UNCHANGED <<receiver, posted>>
        /\ attempt'[b].at = "verify" /\ attempt'[b].during = stored.version
        /\ attempt'[b].expected = attempt[b].expected
        /\ \A c \in Browser : c # b => attempt'[c] = attempt[c]
    BY <1>4 DEF ReadCookies, Goes, TypeOK, AttemptType
  <2> QED BY <2>1, <1>goes, <1>types DEF ReadInOrder
<1>check. ASSUME NEW b \in Browser, NEW condition,
                 NEW stage \in {"recheck", "connection", "post"},
                 GoesIf(b, condition, [attempt[b] EXCEPT !.at = stage]),
                 attempt[b].at \in {"verify", "recheck", "connection"},
                 UNCHANGED <<receiver, posted>>
          PROVE  ReadInOrder'
  <2> DEFINE new == [attempt[b] EXCEPT !.at = stage]
  <2>1. /\ new.at \notin {"collect", "read"}
        /\ new.expected <= new.during /\ new.during <= stored.version
    BY <1>check, <1>stage DEF ReadInOrder
  <2>2. GoesIf(b, condition, new)
    BY <1>check
  <2> HIDE DEF new
  <2> QED BY <1>check, <1>passes, <2>1, <2>2
<1>5. ASSUME NEW b \in Browser,
             EndCollection(b) \/ Recheck(b) \/ CheckConnection(b)
      PROVE  ReadInOrder'
  <2>1. CASE EndCollection(b)
    BY <2>1, <1>check DEF EndCollection
  <2>2. CASE Recheck(b)
    BY <2>2, <1>check DEF Recheck
  <2>3. CASE CheckConnection(b)
    BY <2>3, <1>check DEF CheckConnection
  <2> QED BY <1>5, <2>1, <2>2, <2>3
<1>6. ASSUME NEW b \in Browser, Post(b) PROVE ReadInOrder'
  <2>1. /\ Request(b).expected = attempt[b].expected
        /\ Request(b).during = attempt[b].during
    BY DEF Request
  <2>2. /\ attempt[b].expected <= attempt[b].during
        /\ attempt[b].during <= stored.version
    BY <1>6, PostSends DEF ReadInOrder
  <2> QED BY <1>6, <2>1, <2>2, PostSends DEF ReadInOrder, receiver
<1>7. ASSUME NEW b \in Browser, GiveUp(b) PROVE ReadInOrder'
  <2>1. stored' = stored
    BY <1>7, GiveUpEnds DEF receiver
  <2> QED BY <1>7, <2>1, <1>calm, <1>types, GiveUpEnds
<1>answered. ASSUME NEW m \in posted, Answered(m), stored'.version \in Nat,
                    stored.version <= stored'.version
             PROVE  ReadInOrder'
  BY <1>answered, <1>calm, AnsweredEnds
<1>8. ASSUME NEW m \in posted, Ingested(m) PROVE ReadInOrder'
  BY <1>8, <1>answered, <1>types DEF Ingested, receiver
<1>grows. ASSUME \/ \E jar, scope, for :
                      stored' = Snapshot(stored.version + 1, jar, scope, for)
                 \/ stored' = stored
          PROVE  stored'.version \in Nat /\ stored.version <= stored'.version
  BY <1>grows, <1>types DEF Snapshot
<1>9. ASSUME NEW m \in posted, Replace(m) PROVE ReadInOrder'
  BY <1>9, <1>answered, <1>grows DEF Replace
<1>10. ASSUME \/ \E entry \in Entry : ReplaceSources(entry)
              \/ ClearAndPause \/ Restart
       PROVE  ReadInOrder'
  <2>1. stored'.version \in Nat /\ stored.version <= stored'.version
    BY <1>10, <1>grows DEF ReplaceSources, ClearAndPause, Restart
  <2>2. UNCHANGED <<attempt, posted>>
    BY <1>10 DEF ReplaceSources, ClearAndPause, Restart
  <2> QED BY <2>1, <2>2, <1>calm
<1>11. ASSUME NEW b \in Browser,
              \/ ChangeConnection(b) \/ Revoke(b) \/ RemoveAccess(b)
              \/ \E scope \in Scope \cup {None} : Approve(b, scope)
       PROVE  ReadInOrder'
  <2>1. /\ UNCHANGED <<receiver, posted>>
        /\ \A c \in Browser : /\ attempt'[c].at = attempt[c].at
                              /\ attempt'[c].expected = attempt[c].expected
                              /\ attempt'[c].during = attempt[c].during
    BY <1>11, ConsentOnlyMarks
  <2> QED BY <2>1, <1>calm, <1>types DEF receiver
<1>12. CASE UNCHANGED vars
  BY <1>12, <1>calm, <1>types DEF vars, receiver
<1> QED BY <1>1, <1>2, <1>3, <1>4, <1>5, <1>6, <1>7, <1>8, <1>9, <1>10, <1>11,
           <1>12
        DEF Next, BrowserStep

\* What is expected, and so still stored, bounds what was stored while the
\* cookies were read from both sides.
LEMMA CurrentWhenRead ==
  TypeOK /\ ReadInOrder =>
    \A m \in posted : Replace(m) => m.during = stored.version
<1> SUFFICES ASSUME TypeOK, ReadInOrder, NEW m \in posted, Replace(m)
             PROVE  m.during = stored.version
  OBVIOUS
<1>1. m.expected = stored.version
  BY DEF Replace, Refused
<1>2. m.expected <= m.during /\ m.during <= stored.version
  BY DEF ReadInOrder
<1>3. m.during \in Nat /\ stored.version \in Nat
  BY PushAssumption DEF TypeOK, RequestType
<1> QED BY <1>1, <1>2, <1>3

\* The expected version, read before the cookies, keeps a slow or a late POST
\* from undoing what was stored since (receiver_state.py, push_v2).
THEOREM NothingNewerIsUndone == Spec => ReplacedWasCurrent
<1>1. Init => TypeOK /\ ReadInOrder
  BY InitTyped, InitReadInOrder
<1>2. TypeOK /\ ReadInOrder /\ [Next]_vars => (TypeOK /\ ReadInOrder)'
  BY NextTyped, NextReadInOrder
<1>3. TypeOK /\ ReadInOrder =>
        [\A m \in posted : Replace(m) => m.during = stored.version]_vars
  BY CurrentWhenRead
<1> QED BY <1>1, <1>2, <1>3, PTL DEF Spec, ReplacedWasCurrent

-----------------------------------------------------------------------------
(* What is sent was approved, and was really read *)

\* Each of the two invariants speaks of one browser: its attempt, its settings
\* and its access.
Shows(a, s) ==
  /\ a.connection <= s.connection
  /\ a.withdrawn =>
       /\ a.at \in BeforeRecheck =>
            s.connection # a.connection \/ s.approved # a.scope
       /\ a.at = "connection" => s.connection # a.connection
       /\ a.at # "post"

Hidden(a, access) ==
  a.blind => /\ a.at = "verify" => ~access
             /\ a.at \notin {"recheck", "connection", "post"}

LEMMA ByBrowser ==
  /\ WithdrawalShows <=> \A b \in Browser : Shows(attempt[b], settings[b])
  /\ BlindnessShows <=> \A b \in Browser : Hidden(attempt[b], granted[b])
BY DEF WithdrawalShows, BlindnessShows, Shows, Hidden, Approved

\* Nothing is wrong with an attempt that is over.
LEMMA EndedShows ==
  ASSUME NEW a, NEW s, NEW access, a.connection <= s.connection,
         a.blind = FALSE, a.withdrawn = FALSE
  PROVE  Shows(a, s) /\ Hidden(a, access)
BY DEF Shows, Hidden

LEMMA InitShows == Init => WithdrawalShows /\ BlindnessShows
<1> SUFFICES ASSUME Init, NEW b \in Browser
             PROVE  Shows(attempt[b], settings[b])
                    /\ Hidden(attempt[b], granted[b])
  BY ByBrowser
<1>1. attempt[b] = NoAttempt /\ settings[b].connection = 1
  BY DEF Init
<1>2. attempt[b].connection <= settings[b].connection
  BY <1>1, EndedIsIdle
<1> QED BY <1>1, <1>2, EndedIsIdle, EndedShows

LEMMA NextShows ==
  TypeOK /\ WithdrawalShows /\ BlindnessShows /\ [Next]_vars =>
    WithdrawalShows' /\ BlindnessShows'
<1> SUFFICES ASSUME TypeOK, WithdrawalShows, BlindnessShows, [Next]_vars,
                    NEW c \in Browser
             PROVE  /\ Shows(attempt[c], settings[c])'
                    /\ Hidden(attempt[c], granted[c])'
  BY DEF WithdrawalShows, BlindnessShows, Shows, Hidden, Approved
<1> USE PushAssumption
<1> DEFINE Goal(b) == /\ Shows(attempt[b], settings[b])'
                      /\ Hidden(attempt[b], granted[b])'
<1>now. \A b \in Browser : /\ Shows(attempt[b], settings[b])
                           /\ Hidden(attempt[b], granted[b])
  BY ByBrowser
<1>types. \A b \in Browser : /\ attempt[b] \in AttemptType
                             /\ settings[b].connection \in Nat \ {0}
  BY DEF TypeOK
\* A browser of which nothing changes.
<1>still. ASSUME attempt'[c] = attempt[c], settings'[c] = settings[c],
                 granted'[c] = granted[c]
          PROVE  Goal(c)
  BY <1>still, <1>now
\* An attempt that ends.
<1>ends. ASSUME attempt'[c] = NoAttempt, settings'[c] = settings[c]
         PROVE  Goal(c)
  <2>1. attempt'[c].connection <= settings'[c].connection
    BY <1>ends, <1>types, EndedIsIdle
  <2> QED BY <1>ends, <2>1, EndedIsIdle, EndedShows
\* A check of the browser b, which goes on to new only if condition holds.
<1>passes. ASSUME NEW b \in Browser, NEW condition, NEW new,
                  GoesIf(b, condition, new), UNCHANGED consent,
                  condition => Shows(new, settings[b]) /\ Hidden(new, granted[b])
           PROVE  Goal(c)
  <2>1. CASE c # b
    BY <1>passes, <2>1, <1>still, GoesOnOrEnds DEF consent
  <2>2. CASE c = b /\ attempt'[b] = NoAttempt
    BY <1>passes, <2>2, <1>ends DEF consent
  <2>3. CASE c = b /\ condition /\ attempt'[b] = new
    BY <1>passes, <2>3 DEF consent
  <2> QED BY <1>passes, <2>1, <2>2, <2>3, GoesOnOrEnds
<1>stage. ASSUME NEW b \in Browser, NEW stage
          PROVE  LET new == [attempt[b] EXCEPT !.at = stage]
                 IN  /\ new.at = stage /\ new.blind = attempt[b].blind
                     /\ new.scope = attempt[b].scope
                     /\ new.connection = attempt[b].connection
                     /\ new.withdrawn = attempt[b].withdrawn
  BY <1>types DEF AttemptType
<1>1. ASSUME NEW b \in Browser, FetchSources(b) PROVE Goal(c)
  <2>1. /\ attempt'[b].connection = settings[b].connection
        /\ attempt'[b].blind = FALSE /\ attempt'[b].withdrawn = FALSE
        /\ \A d \in Browser : d # b => attempt'[d] = attempt[d]
        /\ UNCHANGED <<settings, granted>>
    BY <1>1 DEF FetchSources, Goes, TypeOK, NoAttempt, consent
  <2>2. CASE c = b
    <3>1. attempt'[c].connection <= settings'[c].connection
      BY <2>1, <2>2, <1>types
    <3> QED BY <2>1, <2>2, <3>1, EndedShows
  <2> QED BY <2>1, <2>2, <1>still
<1>2. ASSUME NEW b \in Browser, ReadVersion(b) PROVE Goal(c)
  <2> DEFINE new == [attempt[b] EXCEPT !.at = "collect",
                                       !.expected = stored.version]
  <2>1. /\ new.at = "collect" /\ new.blind = attempt[b].blind
        /\ new.connection = attempt[b].connection
        /\ new.withdrawn = attempt[b].withdrawn /\ new.scope = attempt[b].scope
    BY <1>types DEF AttemptType
  <2>2. GoesIf(b, revision = attempt[b].revision /\ spec.enabled, new)
        /\ UNCHANGED consent /\ attempt[b].at = "version"
    BY <1>2 DEF ReadVersion
  <2> HIDE DEF new
  <2>3. Shows(new, settings[b]) /\ Hidden(new, granted[b])
    BY <2>1, <2>2, <1>now DEF Shows, Hidden, BeforeRecheck
  <2> QED BY <1>passes, <2>2, <2>3
<1>3. ASSUME NEW b \in Browser, BeginCollection(b) PROVE Goal(c)
  <2> DEFINE new == [attempt[b] EXCEPT !.at = "read"]
  <2>1. GoesIf(b, granted[b], new) /\ UNCHANGED consent
        /\ attempt[b].at = "collect"
    BY <1>3 DEF BeginCollection
  <2>2. Shows(new, settings[b]) /\ Hidden(new, granted[b])
    BY <2>1, <1>stage, <1>now DEF Shows, Hidden, BeforeRecheck
  <2> HIDE DEF new
  <2> QED BY <1>passes, <2>1, <2>2
\* Whether access is missing is noted as the cookies are read.
<1>4. ASSUME NEW b \in Browser, ReadCookies(b) PROVE Goal(c)
  <2>1. /\ attempt[b].at = "read" /\ attempt'[b].at = "verify"
        /\ attempt'[b].blind = (~granted[b])
        /\ attempt'[b].connection = attempt[b].connection
        /\ attempt'[b].scope = attempt[b].scope
        /\ attempt'[b].withdrawn = attempt[b].withdrawn
        /\ \A d \in Browser : d # b => attempt'[d] = attempt[d]
        /\ UNCHANGED <<settings, granted>>
    BY <1>4 DEF ReadCookies, Goes, TypeOK, AttemptType, consent
  <2>2. CASE c = b
    <3>1. Shows(attempt[b], settings[b])'
      BY <2>1, <1>now DEF Shows, BeforeRecheck
    <3>2. Hidden(attempt[b], granted[b])'
      BY <2>1 DEF Hidden
    <3> QED BY <2>2, <3>1, <3>2
  <2> QED BY <2>1, <2>2, <1>still
\* Access that was missing is found to be missing.
<1>5. ASSUME NEW b \in Browser, EndCollection(b) PROVE Goal(c)
  <2> DEFINE new == [attempt[b] EXCEPT !.at = "recheck"]
  <2>1. GoesIf(b, granted[b], new) /\ UNCHANGED consent
        /\ attempt[b].at = "verify"
    BY <1>5 DEF EndCollection
  <2>2. granted[b] => Shows(new, settings[b]) /\ Hidden(new, granted[b])
    BY <2>1, <1>stage, <1>now DEF Shows, Hidden, BeforeRecheck
  <2> HIDE DEF new
  <2> QED BY <1>passes, <2>1, <2>2
\* A withdrawal is found in the settings.
<1>6. ASSUME NEW b \in Browser, Recheck(b) PROVE Goal(c)
  <2> DEFINE new == [attempt[b] EXCEPT !.at = "connection"]
             condition == /\ settings[b].connection = attempt[b].connection
                          /\ Approved(b, attempt[b].scope)
  <2>1. GoesIf(b, condition, new) /\ UNCHANGED consent
        /\ attempt[b].at = "recheck"
    BY <1>6 DEF Recheck
  <2>2. condition => Shows(new, settings[b]) /\ Hidden(new, granted[b])
    BY <2>1, <1>stage, <1>now DEF Shows, Hidden, BeforeRecheck, Approved
  <2> HIDE DEF new, condition
  <2> QED BY <1>passes, <2>1, <2>2
<1>7. ASSUME NEW b \in Browser, CheckConnection(b) PROVE Goal(c)
  <2> DEFINE new == [attempt[b] EXCEPT !.at = "post"]
             condition == settings[b].connection = attempt[b].connection
  <2>1. GoesIf(b, condition, new) /\ UNCHANGED consent
        /\ attempt[b].at = "connection"
    BY <1>7 DEF CheckConnection
  <2>2. condition => Shows(new, settings[b]) /\ Hidden(new, granted[b])
    BY <2>1, <1>stage, <1>now DEF Shows, Hidden, BeforeRecheck
  <2> HIDE DEF new, condition
  <2> QED BY <1>passes, <2>1, <2>2
<1>8. ASSUME NEW b \in Browser, Post(b) PROVE Goal(c)
  <2>1. CASE c = b
    <3>1. /\ attempt'[c].connection = 0 /\ settings' = settings
          /\ attempt'[c].blind = FALSE /\ attempt'[c].withdrawn = FALSE
      BY <1>8, <2>1, PostSends DEF consent
    <3>2. attempt'[c].connection <= settings'[c].connection
      BY <3>1, <1>types
    <3> QED BY <3>1, <3>2, EndedShows
  <2> QED BY <1>8, <2>1, <1>still, PostSends DEF consent
<1>9. ASSUME NEW b \in Browser, GiveUp(b) PROVE Goal(c)
  BY <1>9, <1>still, <1>ends, GiveUpEnds DEF consent
<1>10. ASSUME NEW m \in posted, Answered(m), UNCHANGED consent PROVE Goal(c)
  BY <1>10, <1>still, <1>ends, AnsweredEnds DEF consent
<1>11. ASSUME NEW m \in posted, Ingested(m) \/ Replace(m) PROVE Goal(c)
  BY <1>11, <1>10 DEF Ingested, Replace
<1>12. ASSUME \/ \E entry \in Entry : ReplaceSources(entry)
              \/ ClearAndPause \/ Restart \/ UNCHANGED vars
       PROVE  Goal(c)
  BY <1>12, <1>still
     DEF ReplaceSources, ClearAndPause, Restart, vars, consent
\* What a change of consent does to the browser b, and to an attempt before the
\* last check that looks at it.
<1>marks. ASSUME NEW b \in Browser,
                 \/ ChangeConnection(b) \/ Revoke(b) \/ RemoveAccess(b)
                 \/ \E scope \in Scope \cup {None} : Approve(b, scope)
          PROVE  /\ \A d \in Browser : d # b =>
                      /\ attempt'[d] = attempt[d]
                      /\ settings'[d] = settings[d]
                      /\ granted'[d] = granted[d]
                 /\ attempt'[b].at = attempt[b].at
                 /\ attempt'[b].connection = attempt[b].connection
                 /\ attempt'[b].scope = attempt[b].scope
                 /\ attempt'[b].blind = attempt[b].blind
  <2>1. \A d \in Browser : d # b =>
          settings'[d] = settings[d] /\ granted'[d] = granted[d]
    BY <1>marks
       DEF ChangeConnection, Revoke, RemoveAccess, Approve, TypeOK
  <2> QED BY <1>marks, <2>1, ConsentOnlyMarks
<1>withdraws. ASSUME NEW b \in Browser, NEW stages, Withdraws(b, stages)
              PROVE  attempt'[b].withdrawn <=>
                       attempt[b].withdrawn \/ attempt[b].at \in stages
  BY <1>withdraws DEF Withdraws, TypeOK, AttemptType
<1>13. ASSUME NEW b \in Browser, ChangeConnection(b) PROVE Goal(c)
  <2>1. CASE c = b
    <3>1. settings'[b].connection = settings[b].connection + 1
          /\ granted' = granted
      BY <1>13 DEF ChangeConnection, TypeOK
    <3>2. attempt[b].connection \in Nat
      BY <1>types DEF AttemptType
    <3>3. attempt'[b].connection < settings'[b].connection
      BY <1>13, <1>marks, <1>now, <1>types, <3>1, <3>2 DEF Shows
    <3>4. attempt'[b].withdrawn => attempt'[b].at # "post"
      <4>1. attempt'[b].withdrawn <=>
              \/ attempt[b].withdrawn
              \/ attempt[b].at \in BeforeRecheck \cup {"connection"}
        BY <1>13, <1>withdraws DEF ChangeConnection
      <4> QED BY <4>1, <1>13, <1>marks, <1>now DEF Shows, BeforeRecheck
    <3>5. Shows(attempt[b], settings[b])'
      BY <3>1, <3>2, <3>3, <3>4, <1>types, <1>13, <1>marks DEF Shows
    <3>6. Hidden(attempt[b], granted[b])'
      BY <3>1, <1>13, <1>marks, <1>now DEF Hidden
    <3> QED BY <2>1, <3>5, <3>6
  <2> QED BY <1>13, <2>1, <1>marks, <1>still
<1>14. ASSUME NEW b \in Browser, Revoke(b) PROVE Goal(c)
  <2>1. CASE c = b
    <3>1. /\ settings'[b].connection = settings[b].connection
          /\ settings'[b].approved = None /\ granted' = granted
      BY <1>14 DEF Revoke, TypeOK
    <3>2. attempt[b].at \in BeforeRecheck => attempt[b].scope # None
      BY DEF TypeOK, Underway, BeforeRecheck
    <3>3. attempt'[b].withdrawn <=>
            attempt[b].withdrawn \/ attempt[b].at \in BeforeRecheck
      BY <1>14, <1>withdraws DEF Revoke
    <3>4. Shows(attempt[b], settings[b])'
      BY <3>1, <3>2, <3>3, <1>14, <1>marks, <1>now DEF Shows, BeforeRecheck
    <3>5. Hidden(attempt[b], granted[b])'
      BY <3>1, <1>14, <1>marks, <1>now DEF Hidden
    <3> QED BY <2>1, <3>4, <3>5
  <2> QED BY <1>14, <2>1, <1>marks, <1>still
<1>15. ASSUME NEW b \in Browser, RemoveAccess(b) PROVE Goal(c)
  <2>1. CASE c = b
    <3>1. /\ settings' = settings /\ attempt' = attempt
          /\ granted'[b] = FALSE
      BY <1>15 DEF RemoveAccess, TypeOK
    <3> QED BY <2>1, <3>1, <1>now DEF Shows, Hidden
  <2> QED BY <1>15, <2>1, <1>marks, <1>still
\* An approval of another entry, or under another connection, shows as well;
\* access that is missing is not given back while the cookies are read.
<1>16. ASSUME NEW b \in Browser, NEW scope \in Scope \cup {None},
              Approve(b, scope)
       PROVE  Goal(c)
  <2>1. CASE c = b
    <3>1. /\ settings'[b].connection = settings[b].connection
          /\ settings'[b].approved = scope /\ granted'[b] = TRUE
      BY <1>16 DEF Approve, TypeOK
    <3>2. Hidden(attempt[b], granted[b])'
      BY <3>1, <1>16, <1>marks, <1>now DEF Hidden, Approve
    <3>3. CASE /\ attempt[b].scope = scope
               /\ attempt[b].connection = settings[b].connection
      <4>1. attempt'[b].withdrawn = FALSE
        BY <3>3, <1>16 DEF Approve, TypeOK, AttemptType
      <4> QED BY <2>1, <3>1, <3>2, <4>1, <1>16, <1>marks, <1>now DEF Shows
    <3>4. CASE ~(/\ attempt[b].scope = scope
                 /\ attempt[b].connection = settings[b].connection)
      <4>1. attempt'[b].withdrawn <=>
              attempt[b].withdrawn \/ attempt[b].at \in BeforeRecheck
        BY <3>4, <1>16, <1>withdraws DEF Approve
      <4> QED BY <2>1, <3>1, <3>2, <3>4, <4>1, <1>16, <1>marks, <1>now
              DEF Shows, BeforeRecheck
    <3> QED BY <3>3, <3>4
  <2> QED BY <1>16, <2>1, <1>marks, <1>still
<1> HIDE DEF Goal
<1>17. Goal(c)
  BY <1>1, <1>2, <1>3, <1>4, <1>5, <1>6, <1>7, <1>8, <1>9, <1>11, <1>12, <1>13,
     <1>14, <1>15, <1>16
     DEF Next, BrowserStep
<1> QED BY <1>17 DEF Goal

\* No cookies are sent whose approval, or connection, was withdrawn while they
\* were collected (sync.js, shared.js and receiver_client.js check again).
THEOREM WithdrawalIsSeen == Spec => []WithdrawnIsNotSent
<1>1. Init => TypeOK /\ WithdrawalShows /\ BlindnessShows
  BY InitTyped, InitShows
<1>2. TypeOK /\ WithdrawalShows /\ BlindnessShows /\ [Next]_vars =>
        (TypeOK /\ WithdrawalShows /\ BlindnessShows)'
  BY NextTyped, NextShows
<1>3. WithdrawalShows => WithdrawnIsNotSent
  BY DEF WithdrawalShows, WithdrawnIsNotSent
<1> QED BY <1>1, <1>2, <1>3, PTL DEF Spec

\* What Chrome hid for want of access is not sent as an empty jar
\* (cookie_collector.js asks for the permission before and after).
THEOREM NoBlindPush == Spec => []HiddenIsNotEmpty
<1>1. Init => TypeOK /\ WithdrawalShows /\ BlindnessShows
  BY InitTyped, InitShows
<1>2. TypeOK /\ WithdrawalShows /\ BlindnessShows /\ [Next]_vars =>
        (TypeOK /\ WithdrawalShows /\ BlindnessShows)'
  BY NextTyped, NextShows
<1>3. BlindnessShows => HiddenIsNotEmpty
  BY DEF BlindnessShows, HiddenIsNotEmpty
<1> QED BY <1>1, <1>2, <1>3, PTL DEF Spec
=============================================================================
