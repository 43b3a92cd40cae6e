\* One follower or reader with pages of one event, two fibers, another installation.
CONSTANTS
  Fibers = {f1, f2}
  Readers = {r1}
  Owners = {o1}
  PageSize = 1
  BatchSize = 2
  MaxEvents = 3
SPECIFICATION FairBus
INVARIANTS
  BusTypeOK
  LiveInOrder
  OneSource
PROPERTIES
  ReadersSeeTheLog
\* A full log leaves nothing to do.
CHECK_DEADLOCK FALSE
