\* Two sources, one at a time: recovery probes switched off and on, and work left
\* over, over the death of the worker.
CONSTANTS
  Source = {s1, s2}
  None = None
  MaxAttempts = 1
  Limit = 1
  ProbesOn = TRUE
  Triggers = {"manual"}
  Edits = {"probe"}
  MaxConnection = 1
  MaxDeaths = 1
  MaxWaiting = 1
SYMMETRY Symmetry
SPECIFICATION Spec
INVARIANTS OneProbePerPeriod QuietIsArmed AttemptsWithinBudget
