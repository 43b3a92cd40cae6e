----------------------------- MODULE SessionRunner -----------------------------
(***************************************************************************)
(* SessionRunner.drain (session/runner/llm.ts) over the inbox of one       *)
(* Session, with execution.ts's loop around it that re-enters a drain      *)
(* after a move or a reload of the Location.  Between two model steps the  *)
(* drain passes a boundary: it handles control work, promotes what its     *)
(* scope and its place in the turn allow, and either runs another step or  *)
(* completes.                                                              *)
(*                                                                         *)
(* A model step is one action that says whether the turn continues; the    *)
(* step counter, which only meets an agent's step limit, is left out.      *)
(***************************************************************************)
EXTENDS SessionInbox

VARIABLE drain  \* the drain that runs, or NoDrain

runnerVars == <<inbox, history, locked, request, promotion, drain>>

\* enter       before the first look at the inbox
\* boundary    advanceToStep's loop, uninterruptible but for its restored parts
\* deciding    still uninterruptible, waiting for the inbox's lock
\* compacting  a manual compaction that was delivered runs
\* idling      the idle hook runs
\* preparing   the next step's context is prepared
\* promoting   promote runs
\* stepping    the model step runs
Running == {"enter", "boundary", "deciding", "compacting", "idling", "preparing", "promoting", "stepping"}
Results == {"success", "failed", "interrupted"}
NoDrain == [pc |-> "out", force |-> FALSE, continuing |-> FALSE, entering |-> FALSE,
            stepped |-> FALSE, scope |-> None]

RunnerInit == InboxInit /\ drain = NoDrain

At(pc) == drain.pc = pc
GoTo(pc) == drain' = [drain EXCEPT !.pc = pc]

\* A drain of the coordinator begins.
Enter(force, scope) ==
  /\ At("out")
  /\ drain' = [pc |-> "enter", force |-> force, continuing |-> FALSE, entering |-> TRUE,
               stepped |-> FALSE, scope |-> scope]
  /\ UNCHANGED inboxVars

\* The coordinator takes the drain's result.
Leave ==
  /\ drain.pc \in Results
  /\ drain' = NoDrain
  /\ UNCHANGED inboxVars

\* The drain re-enters at another instance; stepped is only carried when the
\* turn does not continue.
HandOff(force) ==
  drain' = [drain EXCEPT !.pc = "enter", !.force = force, !.entering = TRUE,
                         !.stepped = @ /\ ~drain.continuing]

\* Queued prompts are not for a steer-scoped drain.
Parked(row) == drain.scope = "steer" /\ row.delivery = "queue" /\ ~IsControl(row)

\* A fresh drain that finds nothing for it completes before it wakes plugins.
Start ==
  /\ At("enter")
  /\ GoTo(IF /\ ~drain.force /\ ~drain.continuing /\ ~drain.stepped
             /\ \A row \in NextPromotable("input") : Parked(row)
          THEN "success" ELSE "boundary")
  /\ UNCHANGED inboxVars

-----------------------------------------------------------------------------
(* The boundary *)

\* The Location was reloaded: hand the rest of the drain to a fresh instance.
Reload ==
  /\ At("boundary")
  /\ HandOff(drain.force)
  /\ UNCHANGED inboxVars

Look ==
  /\ At("boundary")
  /\ GoTo("deciding")
  /\ UNCHANGED inboxVars

\* Mutant: queued work is eligible in the middle of a turn.
BoundaryScopeInput == "input"
\* Entry and idle boundaries look at queued work; mid-turn only steers count.
BoundaryScope == IF drain.entering \/ ~drain.continuing THEN "input" ELSE "steer"

\* Between turns, and with no steer next, the drain is at an entry again.
EntryAfter(next) ==
  drain.entering \/ (~drain.continuing /\ \A row \in next : row.delivery # "steer")

\* Control work first: it is delivered under the lock.  A move ends this
\* drain at its Location; a compaction consumes the request to run a step.
Control ==
  /\ At("deciding")
  /\ TakeControl(BoundaryScope)
  /\ \E row \in NextPromotable(BoundaryScope) :
       IF row.type = "move" THEN HandOff(FALSE)
       ELSE drain' = [drain EXCEPT !.pc = "compacting", !.entering = EntryAfter({row})]

\* Compacted, or the failure is recorded: the request to run a step is spent.
Compacted ==
  /\ At("compacting")
  /\ drain' = [drain EXCEPT !.pc = "boundary", !.force = FALSE]
  /\ UNCHANGED inboxVars

\* Nothing asks for a step: no force, no turn, nothing this scope promotes.
Quiet(next) ==
  ~drain.force /\ ~drain.continuing /\ \A row \in next : Parked(row)

\* No control: complete, offer the idle boundary to plugins, or prepare a step.
Decide ==
  /\ At("deciding")
  /\ Unlocked
  /\ LET next == NextPromotable(BoundaryScope) IN
       /\ \A row \in next : ~IsControl(row)
       /\ drain' = [drain EXCEPT
                      !.entering = EntryAfter(next),
                      !.pc = IF ~Quiet(next) THEN "preparing"
                             ELSE IF next # {} \/ ~drain.stepped THEN "success" ELSE "idling"]
  /\ UNCHANGED inboxVars

\* The idle hook returned: complete, unless something is pending now.
HookReturns ==
  /\ At("idling")
  /\ GoTo(IF inbox = <<>> THEN "success" ELSE "boundary")
  /\ UNCHANGED inboxVars

\* Mutant: promotes what the boundary looked at, whatever its scope.
PromotionScopeWide == IF drain.entering /\ ~drain.continuing THEN "input" ELSE "steer"
\* Mutant: passes the delivery mode it wants instead of a scope.
PromotionScopeDelivery == IF drain.entering /\ ~drain.continuing THEN "queue" ELSE "steer"
\* What promote may consume: queued prompts only at an entry, between turns,
\* and only within the drain's scope.
PromotionScope == IF drain.entering /\ ~drain.continuing THEN drain.scope ELSE "steer"

\* A control admitted during preparation owns this boundary.
ControlFirst ==
  /\ At("preparing")
  /\ Unlocked
  /\ PendingSteers # <<>> /\ IsControl(Head(PendingSteers))
  /\ GoTo("boundary")
  /\ UNCHANGED inboxVars

BeginPromotion ==
  /\ At("preparing")
  /\ Promote(PromotionScope)
  /\ GoTo("promoting")

\* promote goes on: a queued control in front sends the drain back to the
\* boundary; otherwise the step runs, even if nothing was left to promote.
GoOnPromoting ==
  /\ At("promoting")
  /\ \/ PromoteQueued /\ GoTo(IF promotion' # NoPromotion THEN "promoting"
                              ELSE IF Rows("queue") # <<>> THEN "boundary" ELSE "stepping")
     \/ PublishRow /\ UNCHANGED drain
     \/ PublishMore /\ UNCHANGED drain
     \/ Promoted /\ GoTo("stepping")

-----------------------------------------------------------------------------
(* The step *)

StepEnds(continues) ==
  /\ At("stepping")
  /\ drain' = [drain EXCEPT !.pc = "boundary", !.continuing = continues, !.stepped = TRUE,
                            !.force = FALSE, !.entering = FALSE]
  /\ UNCHANGED inboxVars

\* The user declined a tool call or a question: the step interrupts itself.
Declined ==
  /\ At("stepping")
  /\ GoTo("interrupted")
  /\ UNCHANGED inboxVars

\* Preparation, a hook, a compaction or the step fails for good.
Fails ==
  /\ drain.pc \in {"enter", "compacting", "idling", "preparing", "stepping"}
  /\ GoTo("failed")
  /\ UNCHANGED inboxVars

\* A boundary that has the lock hands a move off, which it restores for.
MovesNow ==
  At("deciding") /\ Unlocked /\ \E row \in NextPromotable(BoundaryScope) : row.type = "move"

\* The execution fiber is interrupted.  A boundary's other decisions complete
\* first; a promotion stops between two publications and gives up the lock.
Struck ==
  /\ drain.pc \in Running \ {"boundary", "deciding"} \/ MovesNow
  /\ GoTo("interrupted")
  /\ IF At("promoting") THEN PromotionInterrupted ELSE UNCHANGED inboxVars

-----------------------------------------------------------------------------

Works ==
  \/ Start \/ Reload \/ Look \/ Control \/ Decide \/ Compacted \/ HookReturns
  \/ ControlFirst \/ BeginPromotion \/ GoOnPromoting
  \/ \E continues \in BOOLEAN : StepEnds(continues)
  \/ Declined \/ Fails

RunnerNext ==
  \/ Admission /\ UNCHANGED drain
  \/ \E force \in BOOLEAN, scope \in Promotable : Enter(force, scope)
  \/ Works \/ Struck \/ Leave

RunnerSpec == RunnerInit /\ [][RunnerNext]_runnerVars

\* The drain's fiber runs and its model steps return; what a client began under
\* the lock goes on, and the lock is granted in the order it is asked for.  A
\* Location may reload again and again, but not each time just as a drain
\* reaches its boundary.
FairRunner ==
  /\ RunnerSpec
  /\ SF_runnerVars(Look)
  /\ SF_runnerVars(Control \/ Decide)
  /\ SF_runnerVars(ControlFirst \/ BeginPromotion)
  /\ WF_runnerVars(Start \/ Compacted \/ HookReturns \/ GoOnPromoting)
  /\ WF_runnerVars(\E continues \in BOOLEAN : StepEnds(continues))
  /\ \A c \in Clients : WF_runnerVars(EnqueueCompaction(c) /\ UNCHANGED drain)

-----------------------------------------------------------------------------
(* Properties *)

RunnerTypeOK ==
  /\ InboxTypeOK
  /\ drain \in [pc : Running \cup Results, force : BOOLEAN, continuing : BOOLEAN,
                entering : BOOLEAN, stepped : BOOLEAN, scope : Promotable] \cup {NoDrain}

\* A steer-scoped drain - the one an interrupt that resumes asks for - never
\* promotes a queued prompt, whatever is cancelled, re-queued or admitted while
\* it prepares; and in the middle of a turn nothing queued is consumed, except
\* control work on entry to a Location.
QueuedWaits ==
  [][\A row \in ToSet(inbox) :
       history' = Append(history, row) /\ row.delivery = "queue"
         => /\ ~Parked(row)
            /\ drain.continuing => drain.entering /\ IsControl(row)]_runnerVars

\* Steering reaches the model even if its turn never ends: a steering row that
\* is pending while a drain runs is delivered, or the drain ends - unless the
\* client keeps cancelling and re-queueing control work in front of it, which
\* sends the drain back to its boundary each time.
SteersAreHeard ==
  <>[][~\E id \in Ids : Cancel(id) \/ Queue(id)]_runnerVars
    => \A id \in Ids :
         drain.pc \in Running /\ (\E r \in Pending : r.id = id /\ r.delivery = "steer")
           ~> \/ drain.pc \notin Running
              \/ ~\E r \in Pending : r.id = id /\ r.delivery = "steer"
================================================================================
