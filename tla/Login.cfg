\* One source over two snapshots; reminders, approvals and the connection change.
CONSTANTS
  Source = {s1}
  Kinds = {"invalid"}
  None = None
  MaxVersion = 2
  MaxConnection = 2
  MaxDeaths = 1
SPECIFICATION FairSpec
INVARIANTS TypeOK RecordedWasShown
PROPERTIES ShownOnce ShownSparsely AttentionIsDrawn
