\* No crash: a snapshot that cannot be checked, and an outbox that is full.
CONSTANTS
  Source = {s1}
  Mine = s1
  Jar = {j1}
  NoCookies = NoCookies
  Observations = {"valid", "invalid", "error"}
  MaxAttempts = 2
  MaxOutbox = 2
  MaxVersion = 3
  Faults = {"unreadable"}
SPECIFICATION Spec
INVARIANTS InvalidIsRetained
