-------------------------- MODULE SnapshotRegister --------------------------
(***************************************************************************)
(* What a namespace of the receiver promises to its clients: per source, a *)
(* versioned set of cookies and the crawler's verdict on THAT version.     *)
(* Replacing the cookies draws a version never used before and takes the   *)
(* verdict back; a verdict is given on the version that is stored now, and *)
(* an empty set of cookies is never called valid.                          *)
(***************************************************************************)
EXTENDS Naturals

CONSTANTS Source, Jar, NoCookies

VARIABLES
  issued,    \* versions 1..issued were drawn, 0 stands for no version
  version,   \* by source
  jar,       \* by source
  verdict    \* by source

Judgements == {"valid", "invalid", "error", "unverified"}

vars == <<issued, version, jar, verdict>>

Init ==
  /\ issued = 0
  /\ version = [s \in Source |-> 0]
  /\ jar = [s \in Source |-> NoCookies]
  /\ verdict = [s \in Source |-> "unverified"]

Replace(s, cookies) ==
  /\ issued' = issued + 1
  /\ version' = [version EXCEPT ![s] = issued + 1]
  /\ jar' = [jar EXCEPT ![s] = cookies]
  /\ verdict' = [verdict EXCEPT ![s] = "unverified"]

Judge(s, result) ==
  /\ version[s] # 0
  /\ result = "valid" => jar[s] # NoCookies
  /\ verdict' = [verdict EXCEPT ![s] = result]
  /\ UNCHANGED <<issued, version, jar>>

Next == \E s \in Source :
          \/ \E cookies \in Jar \cup {NoCookies} : Replace(s, cookies)
          \/ \E result \in Judgements : Judge(s, result)

Spec == Init /\ [][Next]_vars
=============================================================================
