--------------------------- MODULE SessionExecution ---------------------------
(***************************************************************************)
(* SessionExecution (session/execution.ts) and SessionRestart              *)
(* (session/execution/restart.ts) for one top-level Session: the run       *)
(* coordinator, the runner's drain and the inbox put together, the durable *)
(* execution claim, and the sweep that resumes claimed Sessions when a     *)
(* server starts.                                                          *)
(*                                                                         *)
(* The tables (inbox, history, claim, attempts) survive the process; a     *)
(* crash loses everything else.  Background jobs and child Sessions, which *)
(* the sweep also recovers, are not in this module.                        *)
(***************************************************************************)
EXTENDS SessionRunner

CONSTANTS
  MaxAttempts  \* restart.ts options.maxAttempts

ASSUME AttemptsAssumption == MaxAttempts \in Nat \ {0}

VARIABLES
  execution, caller, closed,  \* the run coordinator's
  claim,      \* session.time_suspended is set
  attempts,   \* session.resume_attempts; not counted beyond MaxAttempts + 1
  sweep,      \* progress of resumeSuspendedSessions in this process
  asked,      \* progress of an interrupt that asked to resume
  rung,       \* IDs a wake for all input was rung for and nobody gave up
  steered,    \* IDs that were steering when an interrupt's resume woke for them
  unfinished, \* a turn that a process's end cut off has not run again
  resumes     \* resumes since the claim was last released

Session == "session"
Sweeper == "sweeper"
Coordinator == INSTANCE RunCoordinator WITH Keys <- {Session}, Callers <- {Sweeper}

coordinatorVars == <<execution, caller, closed>>
claimVars == <<claim, attempts>>
historyVars == <<rung, steered, unfinished, resumes>>
executionVars == <<inbox, history, locked, request, promotion, drain, execution, caller, closed,
                   claim, attempts, sweep, asked, rung, steered, unfinished, resumes>>

\* boot         the sweep is forked
\* looked       the Session was not active when it looked
\* listed       the claim was there when it listed
\* counted      one more attempt is counted; it will be resumed
\* exhausted    one too many is counted; it will be terminalized
\* noticed      the restart notice is published
\* terminalized this sweep published Failed and released the claim
SweepStates == {"boot", "looked", "listed", "counted", "exhausted", "noticed", "done", "terminalized"}

ExecutionInit ==
  /\ RunnerInit
  /\ Coordinator!Init
  /\ claim = FALSE /\ attempts = 0
  /\ sweep = "boot"
  /\ asked = "no"
  /\ rung = {} /\ steered = {} /\ unfinished = FALSE /\ resumes = 0

Phase == execution[Session].phase
Active == Phase # "idle"
PendingIds == {row.id : row \in Pending}

-----------------------------------------------------------------------------
(* Clients *)

OnlyInbox == UNCHANGED <<drain, execution, caller, closed, claim, attempts, sweep, asked>>

Call(c) == Calls(c) /\ OnlyInbox /\ UNCHANGED historyVars

\* Only a prompt may be admitted without a wake ({ resume: false }).
MayRest(c) == request[c].state = "refused" \/ request[c].item.type \in Prompts \/ closed

\* The call rings the doorbell for all input and returns.  A closed coordinator
\* does not hear it.
Returns(c) ==
  /\ Return(c)
  /\ \/ /\ request[c].state = "admitted"
        /\ Coordinator!Wake(Session, "input")
        /\ rung' = rung \cup ({request[c].item.id} \cap PendingIds)
     \/ MayRest(c) /\ UNCHANGED <<execution, caller, closed, rung>>
  /\ UNCHANGED <<drain, claim, attempts, sweep, asked, steered, unfinished, resumes>>

\* A withdrawn row is owed to nobody; a re-queued one is not steering.
Withdraws(id) ==
  /\ \/ Cancel(id) /\ rung' = rung \ {id}
     \/ Queue(id) /\ UNCHANGED rung
  /\ steered' = steered \ {id}
  /\ OnlyInbox
  /\ UNCHANGED <<unfinished, resumes>>

\* interrupt(sessionID, { resume }) with reason "user".  It gives up what was
\* rung for only where it is accepted.
UserInterrupts(resume) ==
  /\ asked = "no"
  /\ asked' = IF resume THEN "look" ELSE "no"
  /\ \/ /\ Coordinator!Interrupt(Session)
        /\ rung' = {} /\ steered' = {} /\ unfinished' = FALSE
     \/ /\ Coordinator!Interrupted(execution[Session]) = execution[Session] /\ resume
        /\ UNCHANGED <<execution, caller, closed, rung, steered, unfinished>>
  /\ UNCHANGED <<runnerVars, claimVars, sweep, resumes>>

\* Steering input and control work are resumed; queued prompts stay parked.
ResumeLooks ==
  /\ asked = "look"
  /\ asked' = IF \E row \in NextPromotable("input") : row.delivery = "steer" \/ IsControl(row)
              THEN "wake" ELSE "no"
  /\ UNCHANGED <<runnerVars, coordinatorVars, claimVars, sweep, historyVars>>

ResumeWakes ==
  /\ asked = "wake"
  /\ asked' = "no"
  /\ Coordinator!Wake(Session, "steer")
  /\ steered' = steered \cup {row.id : row \in ToSet(Rows("steer"))}
  /\ UNCHANGED <<runnerVars, claimVars, sweep, rung, unfinished, resumes>>

-----------------------------------------------------------------------------
(* The execution's fiber *)

OnlyFiber == UNCHANGED <<inbox, history, locked, request, promotion, sweep, asked>>

\* Mutant: only a resumed execution claims.
ClaimedForced(e) == claim \/ e.force
\* The started event commits with the claim; a claimed Session stays as it is.
Claimed(e) == TRUE

\* A drain begins where the coordinator's fiber enters its drain.
FollowDrain ==
  IF execution'[Session].phase = "draining"
  THEN Enter(execution[Session].force, execution[Session].scope)
  ELSE UNCHANGED drain

\* What is given up when a busy period breaks: what was rung for, unless the
\* doorbell still holds it.
BreaksUnless(served) ==
  /\ rung' = IF served \/ execution[Session].pendingWake = "input" THEN rung ELSE {}
  /\ steered' = IF served \/ execution[Session].pendingWake # "none" THEN steered ELSE {}

Starts ==
  \/ /\ Coordinator!Begin(Session)
     /\ BreaksUnless(execution'[Session].phase = "starting")
     /\ UNCHANGED <<drain, claimVars, unfinished, resumes>>
     /\ OnlyFiber
  \/ /\ Coordinator!StartedReturns(Session)
     /\ claim' = Claimed(execution[Session])
     /\ FollowDrain
     /\ BreaksUnless(execution'[Session].phase = "draining")
     /\ UNCHANGED <<attempts, unfinished, resumes>>
     /\ OnlyFiber
  \/ /\ Coordinator!StartedDies(Session)
     /\ BreaksUnless(FALSE)
     /\ UNCHANGED <<drain, claimVars, unfinished, resumes>>
     /\ OnlyFiber
  \/ /\ Coordinator!Again(Session)
     /\ FollowDrain
     /\ BreaksUnless(execution'[Session].phase = "draining")
     /\ UNCHANGED <<claimVars, unfinished, resumes>>
     /\ OnlyFiber

\* The drain works on.  Once its fiber is interrupted only the uninterruptible
\* part of a boundary still does.
DrainWorks ==
  /\ \/ Works /\ (execution[Session].interrupted => drain.pc \in {"boundary", "deciding"})
     \/ Struck /\ execution[Session].interrupted
  /\ unfinished' = (unfinished /\ drain'.pc # "stepping")
  /\ UNCHANGED <<coordinatorVars, claimVars, sweep, asked, rung, steered, resumes>>

DrainEnds ==
  /\ Leave
  /\ \/ drain.pc = "success" /\ Coordinator!DrainReturns(Session)
     \/ /\ \/ drain.pc \in {"failed", "interrupted"}
           \/ execution[Session].interrupted
        /\ Coordinator!DrainFails(Session, IF drain.pc = "failed" THEN "failed" ELSE "interrupted")
  /\ BreaksUnless(drain.pc = "success" /\ ~execution[Session].interrupted)
  /\ UNCHANGED <<claimVars, sweep, asked, unfinished, resumes>>

\* terminal(): an interrupted exit is "user" if interrupt() gave a reason, else
\* "shutdown".  Every terminal releases the claim with its event, except a
\* shutdown's.
Releases(e) == e.exit = "interrupted" => e.stopping

Settles ==
  \/ /\ Coordinator!SettledReturns(Session)
     /\ IF Releases(execution[Session])
        THEN claim' = FALSE /\ attempts' = 0 /\ resumes' = 0
        ELSE UNCHANGED <<claim, attempts, resumes>>
     /\ unfinished' = (unfinished /\ execution[Session].exit # "failed")
     /\ OnlyFiber /\ UNCHANGED <<drain, rung, steered>>
  \/ /\ Coordinator!SettledDies(Session)
     /\ OnlyFiber /\ UNCHANGED <<drain, claimVars, historyVars>>
  \/ /\ Coordinator!Settle(Session)
     /\ OnlyFiber /\ UNCHANGED <<drain, claimVars, historyVars>>

-----------------------------------------------------------------------------
(* Restart *)

\* The process exits with its layers closed: the graceful half of a restart.
Shutdown ==
  /\ Coordinator!Close
  /\ rung' = {} /\ steered' = {}
  /\ asked' = "no"
  /\ UNCHANGED <<runnerVars, claimVars, sweep, unfinished, resumes>>

\* A turn is in flight: its model step runs, or it continues after one.
InFlight == At("stepping") \/ drain.continuing

\* The process ends, at any point, and a new server starts.  A hook that was
\* publishing has or has not committed.
Restart ==
  /\ closed' = FALSE
  /\ execution' = [k \in {Session} |-> Coordinator!Idle]
  /\ caller' = [c \in {Sweeper} |-> Coordinator!Free]
  /\ drain' = NoDrain
  /\ locked' = FALSE /\ promotion' = NoPromotion
  /\ request' = [c \in Clients |-> Free]
  /\ sweep' = "boot" /\ asked' = "no"
  /\ rung' = {} /\ steered' = {}
  /\ unfinished' = (unfinished \/ InFlight)
  /\ \/ UNCHANGED <<claim, attempts, resumes>>
     \/ Phase = "starting" /\ claim' = Claimed(execution[Session]) /\ UNCHANGED <<attempts, resumes>>
     \/ /\ Phase = "settling" /\ Releases(execution[Session])
        /\ claim' = FALSE /\ attempts' = 0 /\ resumes' = 0
  /\ UNCHANGED <<inbox, history>>

SweepTo(next) == sweep' = next /\ UNCHANGED <<runnerVars, asked, rung, steered, unfinished>>

\* Active Sessions are skipped.
SweepLooks ==
  /\ sweep = "boot"
  /\ SweepTo(IF Active THEN "done" ELSE "looked")
  /\ UNCHANGED <<coordinatorVars, claimVars, resumes>>

SweepLists ==
  /\ sweep = "looked"
  /\ SweepTo(IF claim THEN "listed" ELSE "done")
  /\ UNCHANGED <<coordinatorVars, claimVars, resumes>>

\* Mutant: the last attempt is allowed once more.
ExhaustedLate(count) == count > MaxAttempts + 1
Exhausted(count) == count > MaxAttempts

\* countResume, whether or not the claim is still held.
SweepCounts ==
  /\ sweep = "listed"
  /\ attempts' = IF attempts > MaxAttempts THEN attempts ELSE attempts + 1
  /\ SweepTo(IF Exhausted(attempts + 1) THEN "exhausted" ELSE "counted")
  /\ UNCHANGED <<coordinatorVars, claim, resumes>>

SweepTerminalizes ==
  /\ sweep = "exhausted"
  /\ claim' = FALSE /\ attempts' = 0 /\ resumes' = 0
  /\ sweep' = "terminalized" /\ unfinished' = FALSE
  /\ UNCHANGED <<runnerVars, coordinatorVars, asked, rung, steered>>

SweepNotices ==
  /\ sweep = "counted"
  /\ SweepTo("noticed")
  /\ UNCHANGED <<coordinatorVars, claimVars, resumes>>

\* resume(): run the Session, in a fiber of its own.
SweepResumes ==
  /\ sweep = "noticed"
  /\ Coordinator!Run(Sweeper, Session)
  /\ resumes' = resumes + 1
  /\ SweepTo("done")
  /\ UNCHANGED claimVars

\* That fiber looks again after the cleanup that refused it.
ResumesAgain ==
  /\ Coordinator!RunAgain(Sweeper)
  /\ UNCHANGED <<runnerVars, claimVars, sweep, asked, historyVars>>

-----------------------------------------------------------------------------

Clienting ==
  \/ \E c \in Clients : Call(c) \/ Returns(c)
  \/ \E id \in Ids : Withdraws(id)
  \/ \E resume \in BOOLEAN : UserInterrupts(resume)
  \/ ResumeLooks \/ ResumeWakes

Executing == Starts \/ DrainWorks \/ DrainEnds \/ Settles \/ ResumesAgain

Sweeping ==
  SweepLooks \/ SweepLists \/ SweepCounts \/ SweepTerminalizes \/ SweepNotices \/ SweepResumes

ExecutionNext == Clienting \/ Executing \/ Shutdown \/ Restart \/ Sweeping

ExecutionSpec == ExecutionInit /\ [][ExecutionNext]_executionVars

FairExecution ==
  ExecutionSpec /\ WF_executionVars(Executing) /\ WF_executionVars(Sweeping)

\* One process that neither shuts down nor dies, and whose sweep found nothing:
\* its fibers run, model steps return, and the Location is not reloaded each
\* time just as a drain reaches its boundary.
FairProcess ==
  /\ ExecutionInit /\ [][Clienting \/ Executing]_executionVars
  /\ WF_executionVars(Executing)
  /\ SF_executionVars(Look /\ DrainWorks)

-----------------------------------------------------------------------------
(* Properties *)

ExecutionTypeOK ==
  /\ RunnerTypeOK
  /\ Coordinator!TypeOK
  /\ claim \in BOOLEAN /\ attempts \in 0..(MaxAttempts + 1)
  /\ sweep \in SweepStates /\ asked \in {"no", "look", "wake"}
  /\ rung \subseteq Ids /\ steered \subseteq Ids
  /\ unfinished \in BOOLEAN /\ resumes \in Nat

\* No admitted input is stranded: once its doorbell was rung, the Session does
\* not come to rest with the row still pending - unless an accepted interrupt,
\* a failed busy period, teardown or the end of the process gave it up.
NothingStranded ==
  ~Active /\ ~closed => PendingIds \cap (rung \cup steered) = {}

\* A prompt that is steering when the call that admitted it has rung reaches
\* the model, whatever the drain was doing when the doorbell rang: it is
\* delivered, or withdrawn, or an interrupt gives it up, or the busy period
\* breaks.
RungSteersAreHeard ==
  LET Waits(id) == id \in rung /\ \E row \in Pending : row.id = id /\ row.delivery = "steer"
  IN  \A id \in Ids :
        Waits(id) ~> (~Waits(id) \/ (Phase = "settling" /\ execution[Session].exit # "success"))

\* A turn that keeps dying is not resumed for ever: a crash anywhere in the
\* resume path is counted.  The one resume beyond MaxAttempts is that of a
\* sweep which counted before a live turn released the claim and with it the
\* count: the sweep acts on the active Sessions it looked up before.
ResumeBudget == resumes <= MaxAttempts + 1

\* The claim is written ahead: whatever a drain does, a crash finds the claim
\* set, so the next sweep sees the turn - unless this process's own sweep has
\* terminalized it.
ClaimCoversDrain == Phase = "draining" /\ sweep # "terminalized" => claim

\* What the code says of the claim: "Deliberate stops release the claim;
\* shutdown keeps it" - a stop that is not the process's teardown releases it.
DeliberateStopsRelease ==
  Phase = "settled" /\ execution[Session].exit = "interrupted" /\ ~closed => ~claim

\* What the code says of recovery: the next server start "resumes the turn" -
\* the drain it forces does not end well before the turn that was cut off ran.
RecoveredTurnRuns ==
  At("success") /\ execution[Session].force => ~unfinished
===============================================================================
