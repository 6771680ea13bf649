\* One source: verdicts, incidents and what operators do with them, the monitor,
\* stale cookies, and the alerts of both kinds.
CONSTANTS
  Source = {s1}
  Label = {l1}
  Site = {d1}
  Jar = {j1}
  NoCookies = NoCookies
  RequestId = {r1}
  None = None
  MaxVersion = 2
  MaxRevision = 2
  Verdicts = {"valid", "invalid"}
  Disposals = {"acknowledge","snooze","reopen"}
  HealthNames = {{}}
  Monitored = {s1}
  Deadlines = {"stale","ttl","snooze","cooldown"}

SPECIFICATION Spec
INVARIANTS AlertsWithinCooldown
PROPERTIES LoginIncidentOutlasts
