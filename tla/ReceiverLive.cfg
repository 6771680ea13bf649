\* One source: an invalid verdict is raised in the end.
CONSTANTS
  Source = {s1}
  Label = {l1}
  Site = {d1}
  Jar = {j1}
  NoCookies = NoCookies
  RequestId = {r1}
  None = None
  MaxVersion = 2
  MaxRevision = 3
  Verdicts = {"valid", "invalid"}
  Disposals = {}
  HealthNames = {{}}
  Monitored = {s1}
  Deadlines = {"ttl"}

SPECIFICATION FairSpec
PROPERTIES InvalidIsRaised
