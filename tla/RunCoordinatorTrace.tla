------------------------- MODULE RunCoordinatorTrace -------------------------
(***************************************************************************)
(* RunCoordinator with what its users observe: the calls they make, the    *)
(* drains it begins and their ends.  The trace is what KeyedWork           *)
(* constrains; everything else the coordinator does is internal.           *)
(***************************************************************************)
EXTENDS RunCoordinator

VARIABLE observed   \* the last observable step

traceVars == <<execution, caller, closed, observed>>

TraceInit == Init /\ observed = <<"init">>

\* A step of the fiber of k that begins a drain, ends one, breaks the busy
\* period before its first drain, or is internal.
ObservedFiber(k) ==
  LET next == execution'[k].phase
  IN  IF Phase(k) = "draining" THEN observed' = <<"end", k>>
      ELSE IF next = "draining" THEN observed' = <<"drain", k, execution'[k].scope>>
      ELSE IF Phase(k) = "starting" THEN observed' = <<"fault", k>>
      ELSE UNCHANGED observed

TraceNext ==
  \/ \E k \in Keys :
       \/ \E s \in Promotable : Wake(k, s) /\ observed' = <<"wake", k, s>>
       \/ \E c \in Callers : Run(c, k) /\ observed' = <<"run", k>>
       \/ \E c \in Callers : AwaitIdle(c, k) /\ UNCHANGED observed
       \/ Interrupt(k) /\ observed' = <<"interrupt", k>>
       \/ FiberStep(k) /\ ObservedFiber(k)
  \/ \E c \in Callers :
       \/ RunAgain(c) /\ observed' = <<"run", caller[c].key>>
       \/ (AwaitIdleAgain(c) \/ CallerInterrupted(c)) /\ UNCHANGED observed
  \/ Close /\ observed' = <<"close">>

TraceSpec == TraceInit /\ [][TraceNext]_traceVars

\* Observing takes nothing away: the coordinator's fairness as it is.
FairTraceSpec == TraceSpec /\ Fairness

\* The coordinator keeps the promises of KeyedWork: for each key no two drains
\* overlap, a drain begins only for work recorded by a wake or a run that no
\* interrupt gave up, and recorded work is never lost between a drain's last
\* look at the doorbell and the idle transition.
Work == INSTANCE KeyedWork WITH
          owed <- [k \in Keys |-> Owed(k)],
          serving <- [k \in Keys |-> Serving(k)]

Promises == Work!Spec

\* A wake for queued prompts is answered by a drain that may promote them; only an
\* interrupt of its key, a started hook that fails before the drain, or teardown
\* gives it up.  No later or narrower wake does, nor a failing drain.
InputIsServed ==
  \A k \in Keys :
    Owed(k) = "input" ~>
      Serving(k) = "input" \/ observed \in {<<"interrupt", k>>, <<"fault", k>>, <<"close">>}
=============================================================================
