\* One source, no probes: attempts over deaths, connections, approvals, options.
CONSTANTS
  Source = {s1}
  None = None
  MaxAttempts = 2
  Limit = 1
  ProbesOn = FALSE
  Triggers = {"periodic"}
  Edits = {"connection", "approval", "auto"}
  MaxConnection = 2
  MaxDeaths = 2
  MaxWaiting = 1
SPECIFICATION Spec
INVARIANTS TypeOK AttemptsWithinBudget BlockedIsNotTried QuietIsArmed
