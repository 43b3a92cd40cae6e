\* Two tool calls, beside one block of text.
CONSTANTS
  Calls = {t1, t2}
SPECIFICATION FairStep
INVARIANTS
  StepTypeOK
  RecordInOrder
  AttemptSettles
  RepeatsAreSilent
  DeclinesStop
PROPERTIES
  InterruptEndsAttempt
CHECK_DEADLOCK FALSE
