---------------------------- MODULE PushProtocol ----------------------------
(***************************************************************************)
(* How cookies travel from a browser to the receiver: pushSource           *)
(* (shared.js) with the checks its caller makes before it (sync.js), the   *)
(* collection (cookie_collector.js), the request (receiver_client.js) and  *)
(* the settings (settings.js, access.js), against the receiver's routes    *)
(* (receiver_http.py, receiver_state.py).                                  *)
(*                                                                         *)
(* Browsers push one source of one namespace.  A browser has one push      *)
(* under way (its engine is serial), and each await of the code is a place *)
(* where its pages may change its settings, and others the receiver.       *)
(* Settings are changed under the Web Lock, so a change is one step.  So   *)
(* is a handler of the receiver: Receiver has its files.                   *)
(*                                                                         *)
(* A POST travels by itself: when the browser gives up after eight seconds *)
(* or its worker is killed, it may still be handled later, or never; to    *)
(* the receiver it is then a push of another browser.  No request is sent  *)
(* twice, each having a new request_id: who tries again begins anew.       *)
(*                                                                         *)
(* Whoever reads the cookies finds any of Jar, or none.                    *)
(***************************************************************************)
EXTENDS Naturals, FiniteSets

CONSTANTS
  Browser,        \* profiles that push this source with the same sender tag
  Scope,          \* domains and target_url of the source
  Jar, NoCookies, \* what may be collected, and the empty collection
  None,           \* nothing: not approved, not known
  Fickle,         \* browsers whose user withdraws consent or reconnects
  MaxVersion,     \* bound: snapshots written
  MaxRevision,    \* bound: configuration revisions drawn
  MaxConnection,  \* bound: connections used by a browser
  MaxLate         \* bound: POSTs still under way after a browser gave up

ASSUME PushAssumption ==
  /\ NoCookies \notin Jar /\ None \notin Scope
  /\ Fickle \subseteq Browser
  /\ MaxVersion \in Nat /\ MaxRevision \in Nat \ {0}
  /\ MaxConnection \in Nat \ {0} /\ MaxLate \in Nat

VARIABLES
  spec,      \* the receiver's entry of the source: scope and enabled
  revision,  \* the revision of its configuration
  stored,    \* the snapshot
  settings,  \* by browser: connection and approved scope
  granted,   \* by browser: Chrome grants access to the source's sites
  attempt,   \* by browser: the push under way
  posted     \* the POSTs under way

receiver == <<spec, revision, stored>>
consent == <<settings, granted>>
vars == <<receiver, consent, attempt, posted>>

Entry == [scope : Scope, enabled : BOOLEAN]

\* Version 0: none was ever stored.  scope is what the receiver files with the
\* cookies; for is what they were collected for.
Snapshot(version, jar, scope, for) ==
  [version |-> version, jar |-> jar, scope |-> scope, for |-> for]

\* A push: its next step, the connection it began with, what it was told (scope,
\* revision, expected) and collected (jar).  History: the version stored when
\* the cookies were read, whether access was missing then, and whether consent
\* was withdrawn since the push began.
NoAttempt ==
  [at |-> "idle", connection |-> 0, scope |-> None, revision |-> 0,
   expected |-> 0, jar |-> NoCookies, during |-> 0, blind |-> FALSE,
   withdrawn |-> FALSE]

\* The stored approval is of the whole entry, its being enabled included: the
\* approval of a paused entry is no approval of it enabled, so it is None here.
Approved(b, scope) == settings[b].approved = scope

Init ==
  /\ spec \in {e \in Entry : e.enabled}
  /\ revision = 1
  /\ stored = Snapshot(0, NoCookies, None, None)
  /\ settings = [b \in Browser |-> [connection |-> 1,
                                  approved |-> spec.scope]]
  /\ granted = [b \in Browser |-> TRUE]
  /\ attempt = [b \in Browser |-> NoAttempt]
  /\ posted = {}

-----------------------------------------------------------------------------
(* A push, as the browser goes through it *)

\* What the attempt becomes, or it ends.
Goes(b, new) == attempt' = [attempt EXCEPT ![b] = new]

\* The attempt ends unless the condition of this check holds.
GoesIf(b, condition, new) == Goes(b, IF condition THEN new ELSE NoAttempt)

\* loadSettings and GET /v1/sources; the entry must be enabled and approved,
\* and the settings, loaded again, the same.
FetchSources(b) ==
  /\ attempt[b].at = "idle"
  /\ spec.enabled /\ Approved(b, spec.scope)
  /\ Goes(b, [NoAttempt EXCEPT !.at = "version", !.scope = spec.scope,
                               !.connection = settings[b].connection,
                               !.revision = revision])
  /\ UNCHANGED <<receiver, consent, posted>>

\* GET /v2/sync/<source>, BEFORE collecting; the configuration must be the same.
ReadVersion(b) ==
  /\ attempt[b].at = "version"
  /\ GoesIf(b, revision = attempt[b].revision /\ spec.enabled,
            [attempt[b] EXCEPT !.at = "collect", !.expected = stored.version])
  /\ UNCHANGED <<receiver, consent, posted>>

\* collectSourceCookies asks for the permission first.
BeginCollection(b) ==
  /\ attempt[b].at = "collect"
  /\ GoesIf(b, granted[b], [attempt[b] EXCEPT !.at = "read"])
  /\ UNCHANGED <<receiver, consent, posted>>

\* chrome.cookies.getAll finds nothing where access is not granted.
ReadCookies(b) ==
  /\ attempt[b].at = "read"
  /\ \E jar \in IF granted[b] THEN Jar \cup {NoCookies} ELSE {NoCookies} :
       Goes(b, [attempt[b] EXCEPT !.at = "verify", !.jar = jar,
                                  !.during = stored.version,
                                  !.blind = ~granted[b]])
  /\ UNCHANGED <<receiver, consent, posted>>

\* Faulty EndCollection: the permission is not asked for again.
EndCollectionUnchecked(b) ==
  /\ attempt[b].at = "verify"
  /\ Goes(b, [attempt[b] EXCEPT !.at = "recheck"])
  /\ UNCHANGED <<receiver, consent, posted>>

\* The permission must still be there.
EndCollection(b) ==
  /\ attempt[b].at = "verify"
  /\ GoesIf(b, granted[b], [attempt[b] EXCEPT !.at = "recheck"])
  /\ UNCHANGED <<receiver, consent, posted>>

\* Faulty Recheck: only the connection is compared after collecting.
RecheckConnection(b) ==
  /\ attempt[b].at = "recheck"
  /\ GoesIf(b, settings[b].connection = attempt[b].connection,
            [attempt[b] EXCEPT !.at = "connection"])
  /\ UNCHANGED <<receiver, consent, posted>>

\* The settings are loaded again: same connection, still approved.
Recheck(b) ==
  /\ attempt[b].at = "recheck"
  /\ GoesIf(b, /\ settings[b].connection = attempt[b].connection
               /\ Approved(b, attempt[b].scope),
            [attempt[b] EXCEPT !.at = "connection"])
  /\ UNCHANGED <<receiver, consent, posted>>

\* receiverRequest compares the connection once more, which a labelled sender
\* only gets to after it asked whether the receiver knows labels.
CheckConnection(b) ==
  /\ attempt[b].at = "connection"
  /\ GoesIf(b, settings[b].connection = attempt[b].connection,
            [attempt[b] EXCEPT !.at = "post"])
  /\ UNCHANGED <<receiver, consent, posted>>

\* late: its browser does not wait for it any more.
Request(b) ==
  [browser |-> b, revision |-> attempt[b].revision, jar |-> attempt[b].jar,
   expected |-> attempt[b].expected, for |-> attempt[b].scope,
   during |-> attempt[b].during, late |-> FALSE]

Post(b) ==
  /\ attempt[b].at = "post"
  /\ posted' = posted \cup {Request(b)}
  /\ Goes(b, [NoAttempt EXCEPT !.at = "wait"])
  /\ UNCHANGED <<receiver, consent>>

Awaited(b) == {m \in posted : m.browser = b /\ ~m.late}

\* Faulty GiveUp: a POST given up is still waited for.
GiveUpWaiting(b) ==
  /\ attempt[b].at # "idle"
  /\ Goes(b, NoAttempt)
  /\ UNCHANGED <<receiver, consent, posted>>

\* A timeout, a failed request, or the death of the worker: a POST under way is
\* lost, or goes on.
GiveUp(b) ==
  /\ attempt[b].at # "idle"
  /\ \/ posted' = posted \ Awaited(b)
     \/ /\ Awaited(b) # {} /\ Cardinality({m \in posted : m.late}) < MaxLate
        /\ posted' = (posted \ Awaited(b))
                     \cup {[m EXCEPT !.late = TRUE] : m \in Awaited(b)}
  /\ Goes(b, NoAttempt)
  /\ UNCHANGED <<receiver, consent>>

-----------------------------------------------------------------------------
(* The receiver *)

\* Faulty Refused: the version is not compared.
RefusedByRevision(m) == m.revision # revision \/ ~spec.enabled

\* check_revision (409), the entry (400), the expected version (409).
Refused(m) ==
  \/ m.revision # revision
  \/ ~spec.enabled
  \/ m.expected # stored.version

\* The same cookies for the same scope are not written again.
Unchanged(m) ==
  stored.version # 0 /\ stored.jar = m.jar /\ stored.scope = spec.scope

\* The request is over, and its browser learns the outcome if it still waits.
Answered(m) ==
  /\ posted' = posted \ {m}
  /\ attempt' = IF m.late THEN attempt
                ELSE [attempt EXCEPT ![m.browser] = NoAttempt]

\* POST /v2/cookies that changes nothing: refused, unchanged, or out of disk.
Ingested(m) ==
  /\ m \in posted
  /\ Refused(m) \/ Unchanged(m)
  /\ Answered(m)
  /\ UNCHANGED <<receiver, consent>>

Replace(m) ==
  /\ m \in posted /\ ~Refused(m) /\ ~Unchanged(m)
  /\ stored.version < MaxVersion
  /\ stored' = Snapshot(stored.version + 1, m.jar, spec.scope, m.for)
  /\ Answered(m)
  /\ UNCHANGED <<spec, revision, consent>>

\* Faulty ReplaceSources: only another scope empties the snapshot.
ReplaceSourcesOfScope(entry) ==
  /\ revision < MaxRevision /\ entry # spec /\ stored.version < MaxVersion
  /\ spec' = entry /\ revision' = revision + 1
  /\ stored' = IF entry.scope = spec.scope THEN stored
               ELSE Snapshot(stored.version + 1, NoCookies, spec.scope, None)
  /\ UNCHANGED <<consent, attempt, posted>>

\* PUT /v1/sources: another entry empties the snapshot under the old one.
ReplaceSources(entry) ==
  /\ revision < MaxRevision /\ entry # spec /\ stored.version < MaxVersion
  /\ spec' = entry /\ revision' = revision + 1
  /\ stored' = Snapshot(stored.version + 1, NoCookies, spec.scope, None)
  /\ UNCHANGED <<consent, attempt, posted>>

\* DELETE /v2/cookies/<source>
ClearAndPause ==
  /\ revision < MaxRevision /\ stored.version < MaxVersion
  /\ spec' = [spec EXCEPT !.enabled = FALSE] /\ revision' = revision + 1
  /\ stored' = Snapshot(stored.version + 1, NoCookies, spec.scope, None)
  /\ UNCHANGED <<consent, attempt, posted>>

\* A restart, or a configuration in which this source is the same.
Restart ==
  /\ revision < MaxRevision
  /\ revision' = revision + 1
  /\ UNCHANGED <<spec, stored, consent, attempt, posted>>

-----------------------------------------------------------------------------
(* The user *)

Withdraws(b, stages) ==
  attempt' = [attempt EXCEPT ![b].withdrawn = @ \/ attempt[b].at \in stages]

BeforeRecheck == {"version", "collect", "read", "verify", "recheck"}

\* saveSettings with another endpoint, token or label.
ChangeConnection(b) ==
  /\ settings[b].connection < MaxConnection
  /\ settings' = [settings EXCEPT
                    ![b] = [connection |-> @.connection + 1, approved |-> None]]
  /\ Withdraws(b, BeforeRecheck \cup {"connection"})
  /\ UNCHANGED <<receiver, granted, posted>>

\* approveSources of the entry the page shows, which may have been replaced long
\* ago (None: it was paused), after Chrome granted access.  That access is removed
\* and given back within the few milliseconds of one getAll is left out: an
\* assumption about the user, since Chrome need not ask again.
Approve(b, scope) ==
  /\ attempt[b].at \notin {"read", "verify"} \/ granted[b]
  /\ settings' = [settings EXCEPT ![b].approved = scope]
  /\ granted' = [granted EXCEPT ![b] = TRUE]
  /\ IF /\ attempt[b].scope = scope
        /\ attempt[b].connection = settings[b].connection
     THEN attempt' = [attempt EXCEPT ![b].withdrawn = FALSE]
     ELSE Withdraws(b, BeforeRecheck)
  /\ UNCHANGED <<receiver, posted>>

\* revokeLocalSource: the approval goes first, access follows unless another
\* source needs it or Chrome refuses.
Revoke(b) ==
  /\ settings' = [settings EXCEPT ![b].approved = None]
  /\ Withdraws(b, BeforeRecheck)
  /\ UNCHANGED <<receiver, granted, posted>>

\* By revokeLocalSource, or by the user in Chrome at any time.
RemoveAccess(b) ==
  /\ granted[b] /\ granted' = [granted EXCEPT ![b] = FALSE]
  /\ UNCHANGED <<receiver, settings, attempt, posted>>

-----------------------------------------------------------------------------
BrowserStep(b) ==
  \/ FetchSources(b) \/ ReadVersion(b)
  \/ BeginCollection(b) \/ ReadCookies(b) \/ EndCollection(b)
  \/ Recheck(b) \/ CheckConnection(b)
  \/ Post(b) \/ GiveUp(b)

Next ==
  \/ \E b \in Browser :
       BrowserStep(b) \/ \E scope \in Scope \cup {None} : Approve(b, scope)
  \/ \E b \in Fickle : ChangeConnection(b) \/ Revoke(b) \/ RemoveAccess(b)
  \/ \E m \in posted : Ingested(m) \/ Replace(m)
  \/ \E entry \in Entry : ReplaceSources(entry)
  \/ ClearAndPause \/ Restart

Spec == Init /\ [][Next]_vars

-----------------------------------------------------------------------------
(* Properties *)

Stages == BeforeRecheck \cup {"idle", "connection", "post", "wait"}

AttemptType ==
  [at : Stages, connection : 0..MaxConnection, scope : Scope \cup {None},
   revision : 0..MaxRevision, expected : 0..MaxVersion,
   jar : Jar \cup {NoCookies}, during : 0..MaxVersion,
   blind : BOOLEAN, withdrawn : BOOLEAN]
RequestType ==
  [browser : Browser, revision : 1..MaxRevision,
   jar : Jar \cup {NoCookies}, expected : 0..MaxVersion, for : Scope,
   during : 0..MaxVersion, late : BOOLEAN]

\* The attempt has yet to send what it was told to collect.
Underway(b) == attempt[b].at \notin {"idle", "wait"}

\* Types; a browser waits for the outcome of just one POST, or of none.
TypeOK ==
  /\ spec \in Entry /\ revision \in 1..MaxRevision
  /\ stored \in [version : 0..MaxVersion, jar : Jar \cup {NoCookies},
                 scope : Scope \cup {None}, for : Scope \cup {None}]
  /\ settings \in [Browser -> [connection : 1..MaxConnection,
                               approved : Scope \cup {None}]]
  /\ granted \in [Browser -> BOOLEAN]
  /\ attempt \in [Browser -> AttemptType]
  /\ posted \subseteq RequestType
  /\ \A b \in Browser :
       /\ IF attempt[b].at = "wait" THEN \E m \in posted : Awaited(b) = {m}
          ELSE Awaited(b) = {}
       /\ Underway(b) => attempt[b].scope # None /\ attempt[b].revision # 0

\* A snapshot is only replaced by cookies that were read while it was the
\* stored one: neither a slow collection nor a late POST undoes what another
\* browser, a clear or a new configuration stored meanwhile.
ReplacedWasCurrent ==
  [][\A m \in posted : Replace(m) => m.during = stored.version]_vars

\* Stored cookies were collected for the very domains and target that are in
\* force, and the source is not paused, whatever configurations came and went
\* while they were collected and sent.
StoredAsConfigured ==
  stored.jar # NoCookies =>
    spec.enabled /\ stored.scope = spec.scope /\ stored.for = spec.scope

\* Why StoredAsConfigured: whatever carries the revision in force, in a browser
\* or under way, is for the scope of the entry in force.
OfItsRevision ==
  /\ \A b \in Browser : Underway(b) =>
       /\ attempt[b].revision <= revision
       /\ attempt[b].revision = revision => attempt[b].scope = spec.scope
  /\ \A m \in posted :
       /\ m.revision <= revision
       /\ m.revision = revision => m.for = spec.scope

\* Why ReplacedWasCurrent: versions only grow, and the expected one was read
\* before the cookies.
ReadInOrder ==
  /\ \A b \in Browser :
       /\ attempt[b].at \in {"collect", "read"} =>
            attempt[b].expected <= stored.version
       /\ attempt[b].at \in {"verify", "recheck", "connection", "post"} =>
            /\ attempt[b].expected <= attempt[b].during
            /\ attempt[b].during <= stored.version
  /\ \A m \in posted :
       m.expected <= m.during /\ m.during <= stored.version

\* Cookies do not leave the browser when the approval, or the connection, was
\* withdrawn while they were being collected ("checks the approval again before
\* it submits", completeness-review.md:55).
WithdrawnIsNotSent ==
  \A b \in Browser : attempt[b].at = "post" => ~attempt[b].withdrawn

\* Why WithdrawnIsNotSent: a withdrawal shows in what the next check compares.
WithdrawalShows ==
  \A b \in Browser :
    /\ attempt[b].connection <= settings[b].connection
    /\ attempt[b].withdrawn =>
         /\ attempt[b].at \in BeforeRecheck =>
              \/ settings[b].connection # attempt[b].connection
              \/ ~Approved(b, attempt[b].scope)
         /\ attempt[b].at = "connection" =>
              settings[b].connection # attempt[b].connection
         /\ attempt[b].at # "post"

\* That Chrome hides the cookies of a site whose access was removed is never
\* sent as there being none: it would empty the stored snapshot.
HiddenIsNotEmpty ==
  \A b \in Browser : attempt[b].at = "post" => ~attempt[b].blind

\* Why HiddenIsNotEmpty: access that was missing while cookies were read is
\* still missing when it is asked for again.
BlindnessShows ==
  \A b \in Browser : attempt[b].blind =>
    /\ attempt[b].at = "verify" => ~granted[b]
    /\ attempt[b].at \notin {"recheck", "connection", "post"}
=============================================================================
