\* One child, started at most twice, called from two tool calls of the parent's
\* turn, stopped or removed by a client, and one crash.
CONSTANTS
  Ids = {j1}
  Callers = {c1, c2}
  Stoppers = {c2}
  MaxStarts = 2
  MaxCrashes = 1
SPECIFICATION FairSubagents
INVARIANTS
  SubagentTypeOK
  OutcomeIsItsOwn
  OwnershipIsDurable
  BlockersAreReal
  PromiseKept
PROPERTIES
  BlockersReturn
  PromiseReported
\* A child that may not be started again leaves nothing to do.
CHECK_DEADLOCK FALSE
