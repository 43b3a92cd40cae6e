\* One client, two prompts, no restart.
CONSTANTS
  Ids = {m1, m2}
  Clients = {c1}
  Types = {"user"}
  MaxAttempts = 1
SPECIFICATION FairProcess
PROPERTIES
  RungSteersAreHeard
CHECK_DEADLOCK FALSE
