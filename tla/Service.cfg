\* Two processes started in turn or at once, one of which may be interrupted
\* twice, two requests, two labels of which there is room for one.
CONSTANTS
  Process = {p1, p2}
  Request = {r1, r2}
  Tag = {t1, t2}
  Default = Default
  Policy = {c1, c2}
  None = None
  MaxSenders = 1
  Configured = {c1}
  Replacement = {c2}
  Hasty = {p1}
SPECIFICATION FairSpec
INVARIANTS TypeOK OneWriter SendersBounded ServesWhatIsStored
PROPERTIES StopReleases
CHECK_DEADLOCK FALSE
