\* One source: late and repeated pushes and reports, configurations replaced,
\* paused and cleared, with writes that fail and crashes.
CONSTANTS
  Source = {s1}
  Label = {l1}
  Site = {d1, d2}
  Jar = {j1, j2}
  NoCookies = NoCookies
  RequestId = {r1, r2}
  None = None
  MaxVersion = 3
  MaxRevision = 3
  Verdicts = {"valid", "invalid"}
  Disposals = {}
  HealthNames = {{}, {s1}}
  Monitored = {}
  Deadlines = {}
SYMMETRY Symmetry
SPECIFICATION Spec
INVARIANTS TypeOK StoredAtMostOnce RetryIsSafe CredentialsMatchPolicy
PROPERTIES RegisterSpec PolicyChangeForgets
