\* One Session, two fibers that run it or await its idleness.
CONSTANTS
  Keys = {s1}
  Callers = {c1, c2}
SPECIFICATION FairTraceSpec
INVARIANTS
  TypeOK
  WaitersOwned
PROPERTIES
  Promises
  WaitersReturn
  InputIsServed
\* After teardown nothing happens any more.
CHECK_DEADLOCK FALSE
