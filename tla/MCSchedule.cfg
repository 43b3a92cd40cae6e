\* Any kind of schedule, failures of its steps, and one exit; or, with a schedule
\* without a check, one lease that runs out under a live server.
CONSTANTS
  Servers = {s1, s2}
  Plans <- AllPlans
  MaxFailures = 2
  MaxSlots = 2
  MaxRuns = 2
  MaxFaults = 1
  Stalling = {"none"}
SPECIFICATION FairSchedule
INVARIANTS
  ScheduleTypeOK
  SlotFiresOnce
  OneServerTicks
PROPERTIES
  EveryFiringPrompts
  PauseSticks
  LastPromptIsSeen
\* A removed or finished schedule leaves nothing to do but to look again.
CHECK_DEADLOCK FALSE
