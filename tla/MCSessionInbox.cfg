\* Three message IDs, two clients: retries, a prompt or a compaction against a
\* move, and one admission more while a promotion publishes.
CONSTANTS
  Ids = {m1, m2, m3}
  Clients = {c1, c2}
  Types = {"user", "compaction", "move"}
SPECIFICATION InboxSpec
INVARIANTS
  InboxTypeOK
  OneRecordPerId
  OneCompaction
  PromotesWhatItRead
PROPERTIES
  DeliversInOrder
SYMMETRY Symmetry
CHECK_DEADLOCK FALSE
