--------------------------- MODULE RunCoordinator ---------------------------
(***************************************************************************)
(* SessionRunCoordinator (session/run-coordinator.ts): serializes          *)
(* execution for each key.  One execution is a busy period: one fiber that *)
(* drains until its doorbell (pendingWake) is quiet, then runs its settled *)
(* hook and settles.  The map "executions" holds at most one execution per *)
(* key; an idle key has none.                                              *)
(*                                                                         *)
(* JavaScript is single-threaded: the synchronous body of an Effect.sync / *)
(* Effect.suspend is one action, and every place the execution fiber can   *)
(* yield (yieldNow, the hooks, the drain) is a phase of its own, between   *)
(* which wake, run, interrupt and awaitIdle of other fibers interleave.    *)
(*                                                                         *)
(* "done" is a Deferred: whoever awaits it is released when the execution  *)
(* settles.  The map entry is replaced in the same synchronous step, so a  *)
(* fiber that awaits done always awaits that of the current execution; a   *)
(* waiting caller therefore only records its key.                          *)
(***************************************************************************)
CONSTANTS
  Keys,      \* Session IDs
  Callers    \* fibers that call run or awaitIdle

VARIABLES
  execution, \* [Keys -> Execution]: the executions map; Idle when absent
  caller,    \* [Callers -> Call]: what each calling fiber is doing
  closed     \* the coordinator's scope (the process's layer) was closed

vars == <<execution, caller, closed>>

None == "none"
Promotable == {"steer", "input"}
Scopes == Promotable \cup {None}
Exits == {"success", "failed", "interrupted"}

\* idle      no execution
\* forked    fiber parked on its leading yield
\* starting  started hook runs, uninterruptible
\* draining  options.drain runs
\* yielded   doorbell consumed, parked on the yield before the next drain
\* settling  owner exited, settled hook runs (the settlement window)
\* settled   settled hook finished, settle not yet run
Phases == {"idle", "forked", "starting", "draining", "yielded", "settling", "settled"}

Execution ==
  [phase : Phases, force : BOOLEAN, scope : Scopes, pendingWake : Scopes,
   stopping : BOOLEAN, interrupted : BOOLEAN, exit : Exits \cup {None}]

Idle ==
  [phase |-> "idle", force |-> FALSE, scope |-> None, pendingWake |-> None,
   stopping |-> FALSE, interrupted |-> FALSE, exit |-> None]

\* start(): a fresh execution.  A closed scope interrupts what is forked in it.
Started(force, scope) ==
  [phase |-> "forked", force |-> force, scope |-> scope, pendingWake |-> None,
   stopping |-> FALSE, interrupted |-> closed, exit |-> None]

\* free      not in a call
\* joined    run awaits the execution's exit
\* refused   run awaits the cleanup of an execution that is stopping
\* rerun     that cleanup settled; run is about to look again
\* idling    awaitIdle awaits the execution
\* recheck   it settled; awaitIdle is about to look again
CallStates == {"free", "joined", "refused", "rerun", "idling", "recheck"}
Free == [state |-> "free", key |-> None]
Call == [state : CallStates \ {"free"}, key : Keys] \cup {Free}
Waiting == {"joined", "refused", "idling"}

Init ==
  /\ execution = [k \in Keys |-> Idle]
  /\ caller = [c \in Callers |-> Free]
  /\ closed = FALSE

Phase(k) == execution[k].phase
Active(k) == Phase(k) # "idle"

\* execution.owner is defined: the fiber has not exited yet.
Owned(k) == Phase(k) \in {"forked", "starting", "draining", "yielded"}

-----------------------------------------------------------------------------
(* Calls *)

\* Mutant: records the delivery mode that rang, not the scope it needs.
RungDelivery(bell, scope) == IF scope = "input" THEN "queue" ELSE scope
\* Mutant: the last wake wins.
RungNarrow(bell, scope) == scope
\* Coalesced wakes keep the widest scope: "input" subsumes "steer".
Rung(bell, scope) == IF bell = "input" THEN "input" ELSE scope

\* wake(key, scope)
Wake(k, scope) ==
  /\ ~closed
  /\ execution' =
       IF Active(k)
       THEN [execution EXCEPT ![k].pendingWake = Rung(@, scope)]
       ELSE [execution EXCEPT ![k] = Started(FALSE, scope)]
  /\ UNCHANGED <<caller, closed>>

\* The body of run(key), on entry and again after a refusal: a stopping
\* execution refuses joiners, a live one is joined, an idle key starts one.
Join(c, k) ==
  /\ caller' = [caller EXCEPT ![c] =
                  [state |-> IF execution[k].stopping THEN "refused" ELSE "joined", key |-> k]]
  /\ execution' = IF Active(k) THEN execution
                  ELSE [execution EXCEPT ![k] = Started(TRUE, "input")]

Run(c, k) ==
  /\ ~closed
  /\ caller[c].state = "free"
  /\ Join(c, k)
  /\ UNCHANGED closed

RunAgain(c) ==
  /\ caller[c].state = "rerun"
  /\ Join(c, caller[c].key)
  /\ UNCHANGED closed

\* The body of awaitIdle(key), on entry and again after a settlement.
Watch(c, k) ==
  /\ caller' = [caller EXCEPT ![c] =
                  IF Active(k) THEN [state |-> "idling", key |-> k] ELSE Free]
  /\ UNCHANGED <<execution, closed>>

AwaitIdle(c, k) ==
  /\ caller[c].state = "free"
  /\ Active(k)    \* returns at once otherwise
  /\ Watch(c, k)

AwaitIdleAgain(c) ==
  /\ caller[c].state = "recheck"
  /\ Watch(c, caller[c].key)

\* The calling fiber is interrupted: it stops waiting, the execution goes on.
CallerInterrupted(c) ==
  /\ caller[c].state # "free"
  /\ caller' = [caller EXCEPT ![c] = Free]
  /\ UNCHANGED <<execution, closed>>

\* Mutant: the settlement window ignores interrupts.
InterruptedKeepsBell(e) ==
  IF e.phase = "idle" \/ e.stopping \/ e.phase \in {"settling", "settled"} THEN e
  ELSE [e EXCEPT !.stopping = TRUE, !.interrupted = TRUE]

\* A second interrupt during cleanup, or one of an idle key, changes nothing.
\* In the settlement window (owner gone) it only claims the recorded wakes.
\* Otherwise it stops the fiber and clears the doorbell.
Interrupted(e) ==
  IF e.phase = "idle" \/ e.stopping THEN e
  ELSE IF e.phase \in {"settling", "settled"} THEN [e EXCEPT !.pendingWake = None]
  ELSE [e EXCEPT !.stopping = TRUE, !.interrupted = TRUE, !.pendingWake = None]

\* interrupt(key): acknowledged at once, cleanup settles on its own time.
Interrupt(k) ==
  /\ Interrupted(execution[k]) # execution[k]
  /\ execution' = [execution EXCEPT ![k] = Interrupted(@)]
  /\ UNCHANGED <<caller, closed>>

\* The scope closes (process teardown): every owned fiber is interrupted, with
\* no reason and without the stopping mark.
Close ==
  /\ ~closed
  /\ closed' = TRUE
  /\ execution' = [k \in Keys |-> IF Owned(k) THEN [execution[k] EXCEPT !.interrupted = TRUE]
                                  ELSE execution[k]]
  /\ UNCHANGED caller

-----------------------------------------------------------------------------
(* The execution fiber *)

SetPhase(k, phase) ==
  /\ execution' = [execution EXCEPT ![k].phase = phase]
  /\ UNCHANGED <<caller, closed>>

\* First onExit: owner := undefined, then the settled hook starts.
Exit(k, exit) ==
  /\ execution' = [execution EXCEPT ![k].phase = "settling", ![k].exit = exit]
  /\ UNCHANGED <<caller, closed>>

\* The leading yield returns: the started hook runs, unless the fiber was
\* interrupted before it began.
Begin(k) ==
  /\ Phase(k) = "forked"
  /\ IF execution[k].interrupted THEN Exit(k, "interrupted") ELSE SetPhase(k, "starting")

\* The started hook returned: the first drain begins.  An interrupt that came
\* during the uninterruptible hook strikes here.
StartedReturns(k) ==
  /\ Phase(k) = "starting"
  /\ IF execution[k].interrupted THEN Exit(k, "interrupted") ELSE SetPhase(k, "draining")

\* The started hook died (its publication failed): no drain runs.
StartedDies(k) ==
  /\ Phase(k) = "starting"
  /\ Exit(k, "failed")

\* Mutant: loops whether or not the doorbell rang.
ContinuesAlways(e) == ~e.stopping

\* Looping again: the doorbell was rung and nobody stopped the execution.
Continues(e) == ~e.stopping /\ e.pendingWake # None

\* The loop takes the doorbell's scope for its next drain.
NextDrain(e) ==
  [e EXCEPT !.phase = "yielded", !.force = FALSE, !.scope = e.pendingWake, !.pendingWake = None]

\* A drain succeeded: take the doorbell's scope and drain again, or end.
DrainReturns(k) ==
  /\ Phase(k) = "draining"
  /\ IF Continues(execution[k])
     THEN /\ execution' = [execution EXCEPT ![k] = NextDrain(@)]
          /\ UNCHANGED <<caller, closed>>
     ELSE Exit(k, "success")

\* A drain failed, or it ended in interruption (its own or the fiber's).
DrainFails(k, exit) ==
  /\ Phase(k) = "draining"
  /\ Exit(k, exit)

\* The trampoline yield returns: drain again.
Again(k) ==
  /\ Phase(k) = "yielded"
  /\ IF execution[k].interrupted THEN Exit(k, "interrupted") ELSE SetPhase(k, "draining")

SettledReturns(k) ==
  /\ Phase(k) = "settling"
  /\ SetPhase(k, "settled")

\* The settled hook died: the exit becomes its defect.
SettledDies(k) ==
  /\ Phase(k) = "settling"
  /\ execution' = [execution EXCEPT ![k].phase = "settled", ![k].exit = "failed"]
  /\ UNCHANGED <<caller, closed>>

\* Mutant: only joiners are told, not those waiting out the cleanup.
MovesOnJoiners(call) == IF call.state = "joined" THEN Free ELSE call

\* What an awaiting fiber does when done resolves: a joined run returns the
\* exit, a refused run and an awaitIdle look again.
MovesOn(call) ==
  IF call.state = "joined" THEN Free
  ELSE [state |-> IF call.state = "refused" THEN "rerun" ELSE "recheck", key |-> call.key]

\* Deferred.done: everyone awaiting this execution moves on.
Released(k) ==
  [c \in Callers |->
     IF caller[c].key = k /\ caller[c].state \in Waiting THEN MovesOn(caller[c]) ELSE caller[c]]

\* Mutant: the doorbell goes with the execution.
SuccessorNone(e) == Idle
Successor(e) ==
  IF e.pendingWake # None THEN Started(FALSE, e.pendingWake) ELSE Idle

\* settle(): a doorbell that survived starts a successor; otherwise the key is
\* idle.  Waiters get this exit either way.
Settle(k) ==
  /\ Phase(k) = "settled"
  /\ execution' = [execution EXCEPT ![k] = Successor(@)]
  /\ caller' = Released(k)
  /\ UNCHANGED closed

FiberStep(k) ==
  \/ Begin(k)
  \/ StartedReturns(k)
  \/ StartedDies(k)
  \/ DrainReturns(k)
  \/ \E exit \in {"failed", "interrupted"} : DrainFails(k, exit)
  \/ Again(k)
  \/ SettledReturns(k)
  \/ SettledDies(k)
  \/ Settle(k)

CallerStep(c) == RunAgain(c) \/ AwaitIdleAgain(c)

Next ==
  \/ \E k \in Keys : \/ \E s \in Promotable : Wake(k, s)
                     \/ \E c \in Callers : Run(c, k) \/ AwaitIdle(c, k)
                     \/ Interrupt(k)
                     \/ FiberStep(k)
  \/ \E c \in Callers : CallerStep(c) \/ CallerInterrupted(c)
  \/ Close

Spec == Init /\ [][Next]_vars

\* Fibers are scheduled, hooks and drains return, released callers resume.
Fairness ==
  /\ \A k \in Keys : WF_vars(FiberStep(k))
  /\ \A c \in Callers : WF_vars(CallerStep(c))

FairSpec == Spec /\ Fairness

-----------------------------------------------------------------------------
(* Properties *)

TypeOK ==
  /\ execution \in [Keys -> Execution]
  /\ caller \in [Callers -> Call]
  /\ closed \in BOOLEAN

\* Nobody waits for an execution that is gone: a fiber parked in run or
\* awaitIdle waits on a key that still has an execution to settle.  A waiter
\* left behind by a settlement would hang for ever.
WaitersOwned ==
  \A c \in Callers : caller[c].state \in Waiting => Active(caller[c].key)

\* The scope of the drain this execution is about to begin, if it is.
Ahead(e) ==
  IF e.phase \in {"forked", "starting", "yielded"} /\ ~e.interrupted THEN e.scope ELSE None

\* The wider of two scopes.
Widest(a, b) ==
  IF "input" \in {a, b} THEN "input" ELSE IF "steer" \in {a, b} THEN "steer" ELSE None

\* Work that was recorded and that no drain has begun for: what the doorbell
\* holds, and what the next drain of this execution was started for.
Owed(k) ==
  IF closed THEN None ELSE Widest(Ahead(execution[k]), execution[k].pendingWake)

Serving(k) == IF Phase(k) = "draining" THEN execution[k].scope ELSE None

\* A fiber waiting in run or awaitIdle returns, or its key's doorbell rings
\* again: only new work extends a wait.
WaitersReturn ==
  \A c \in Callers, k \in Keys :
    caller[c].state \in Waiting /\ caller[c].key = k
      ~> caller[c].state \notin Waiting \/ execution[k].pendingWake # None
=============================================================================
