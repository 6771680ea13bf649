\* Three snapshots: pauses, attempts, reports that are queued and dropped, with
\* processes stopped between any two steps and snapshots that cannot be read.
CONSTANTS
  Source = {s1}
  Mine = s1
  Jar = {j1}
  NoCookies = NoCookies
  Observations = {"valid", "invalid", "error"}
  MaxAttempts = 2
  MaxOutbox = 1
  MaxVersion = 3
  Faults = {"stop", "unreadable", "late"}
SPECIFICATION Spec
INVARIANTS TypeOK FileLoads FeedbackBudget PauseHolds InvalidIsNotLost VerdictsAreEvidence
PROPERTIES PauseMovesForward
