\* One client, one prompt; a turn may be resumed once.
CONSTANTS
  Ids = {m1}
  Clients = {c1}
  Types = {"user"}
  MaxAttempts = 1
SPECIFICATION ExecutionSpec
INVARIANTS
  ExecutionTypeOK
  NothingStranded
  ResumeBudget
  ClaimCoversDrain
CHECK_DEADLOCK FALSE
