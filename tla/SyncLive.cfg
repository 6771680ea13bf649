\* One source: every queued job is settled.
CONSTANTS
  Source = {s1}
  None = None
  MaxAttempts = 2
  Limit = 1
  ProbesOn = FALSE
  Triggers = {"change", "periodic"}
  Edits = {"onChange"}
  MaxConnection = 1
  MaxDeaths = 1
  MaxWaiting = 1
SPECIFICATION FairSpec
PROPERTIES QueuedIsSettled
