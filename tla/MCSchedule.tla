------------------------------- MODULE MCSchedule -------------------------------
EXTENDS Schedule

\* A repeating task, a reminder, and a check that waits for its
\* condition.
AllPlans ==
  {[once |-> FALSE, mode |-> "none", times |-> 0, ends |-> 0],
   [once |-> TRUE, mode |-> "none", times |-> 0, ends |-> 0],
   [once |-> FALSE, mode |-> "until", times |-> 1, ends |-> 2]}
===============================================================================
