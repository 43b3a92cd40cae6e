\* One client, one prompt.
CONSTANTS
  Ids = {m1}
  Clients = {c1}
  Types = {"user"}
  MaxAttempts = 1
SPECIFICATION FairExecution
INVARIANTS
  DeliberateStopsRelease
CHECK_DEADLOCK FALSE
