\* One tool call, beside one block of text.
CONSTANTS
  Calls = {t1}
SPECIFICATION FairStep
INVARIANTS
  InterruptSettlesTools
CHECK_DEADLOCK FALSE
