--------------------------- MODULE IncidentRules ---------------------------
(***************************************************************************)
(* The rules by which IncidentStore (cookie_http_seeder/incidents.py)      *)
(* turns the status of one source into the active incidents of that        *)
(* source.  Pure operators: the file that holds the incidents, and the     *)
(* lock under which it is rewritten, belong to Receiver.                   *)
(*                                                                         *)
(* An instant is abstracted to whether it has passed: "snoozed_until" is   *)
(* "never" (None), "running" (in the future) or "over" (in the past).      *)
(* Wording (reason codes, identifiers, the time an entry was opened) is    *)
(* left out, and so is the history of resolved entries, which only the     *)
(* dashboard reads.                                                        *)
(***************************************************************************)
EXTENDS Naturals

Kinds == {"login_invalid", "validation_expired", "snapshot_stale"}

Dispositions == {"open", "acknowledged", "snoozed", "awaiting_validation"}

Snooze == {"never", "running", "over"}

\* No active entry of this kind.
NoEntry == [version |-> 0, status |-> "none", acknowledged |-> FALSE,
            snooze |-> "never"]

Entry == [version : Nat, status : Dispositions, acknowledged : BOOLEAN,
          snooze : Snooze]

Opened(version) == [version |-> version, status |-> "open",
                    acknowledged |-> FALSE, snooze |-> "never"]

(***************************************************************************)
(* A status st is a record with the fields version (0 when the source has  *)
(* no versioned snapshot), validation and freshness.                       *)
(***************************************************************************)
Problem(kind, st) ==
  \/ kind = "login_invalid" /\ st.version # 0 /\ st.validation = "invalid"
  \/ kind = "validation_expired" /\ st.validation = "expired"
  \/ kind = "snapshot_stale" /\ st.freshness = "stale"

\* Faulty Recovered: the version that failed may clear itself.
RecoveredByAnyVersion(kind, e, st) ==
  \/ kind = "login_invalid" /\ st.version # 0 /\ st.validation = "valid"
  \/ kind = "validation_expired" /\ st.validation = "valid"
  \/ kind = "snapshot_stale" /\ st.freshness = "fresh"

\* An invalid login is only over when OTHER cookies were seen to work.
Recovered(kind, e, st) ==
  \/ /\ kind = "login_invalid"
     /\ st.version # 0 /\ st.validation = "valid"
     /\ st.version # e.version
  \/ kind = "validation_expired" /\ st.validation = "valid"
  \/ kind = "snapshot_stale" /\ st.freshness = "fresh"

\* The disposition an invalid login keeps when a new version is invalid too.
Carried(e) ==
  IF e.acknowledged THEN "acknowledged"
  ELSE IF e.snooze = "running" THEN "snoozed" ELSE "open"

\* An unresolved entry met by an observation: the last branches of the loop.
Continued(kind, e, st) ==
  IF kind = "login_invalid" /\ st.version # 0 /\ st.version # e.version
  THEN IF Problem(kind, st)
       THEN [e EXCEPT !.version = st.version,
                      !.status = Carried(e),
                      !.snooze = IF Carried(e) = "snoozed" THEN @ ELSE "never"]
       ELSE [e EXCEPT !.status = "awaiting_validation"]
  ELSE IF e.status = "snoozed" /\ e.snooze # "running"
  THEN [e EXCEPT !.status = "open", !.snooze = "never"]
  ELSE e

ObserveEntry(kind, e, st) ==
  CASE e # NoEntry /\ Recovered(kind, e, st) -> NoEntry
    [] e # NoEntry /\ ~Recovered(kind, e, st) -> Continued(kind, e, st)
    [] e = NoEntry /\ Problem(kind, st) -> Opened(st.version)
    [] OTHER -> NoEntry

MayNotify(e) == e = NoEntry \/ (~e.acknowledged /\ e.snooze # "running")

Disposed(e, action) ==
  [e EXCEPT !.status = CASE action = "acknowledge" -> "acknowledged"
                         [] action = "snooze" -> "snoozed"
                         [] action = "reopen" -> "open",
            !.acknowledged = (action = "acknowledge"),
            !.snooze = IF action = "snooze" THEN "running" ELSE "never"]
=============================================================================
