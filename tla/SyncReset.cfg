\* One source: a probe interrupted by the death of the worker.
CONSTANTS
  Source = {s1}
  None = None
  MaxAttempts = 1
  Limit = 1
  ProbesOn = TRUE
  Triggers = {"periodic"}
  Edits = {}
  MaxConnection = 1
  MaxDeaths = 1
  MaxWaiting = 1
SPECIFICATION Spec
PROPERTIES AutomaticKeepsBudget
