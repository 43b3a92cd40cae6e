\* One client, one message ID, used for a prompt and for a compaction after it.
CONSTANTS
  Ids = {m1}
  Clients = {c1}
  Types = {"user", "compaction"}
  MaxAttempts = 1
SPECIFICATION FairExecution
INVARIANTS
  RecoveredTurnRuns
CHECK_DEADLOCK FALSE
