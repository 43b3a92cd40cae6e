\* Two message IDs, one client; retries are the inbox's own run.
CONSTANTS
  Ids = {m1, m2}
  Clients = {c1}
  Types = {"user", "compaction", "move"}
SPECIFICATION FairRunner
PROPERTIES
  QueuedWaits
  SteersAreHeard
CHECK_DEADLOCK FALSE
