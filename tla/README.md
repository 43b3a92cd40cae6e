# RIFT: a verification project for the session engine

RIFT is a fork of OpenCode v2: a terminal coding agent in TypeScript on the
Effect runtime. Clients (TUI, web, CLI, plugins) talk HTTP to a server, whose
core keeps Sessions in SQLite and drives a model step by step. This directory
holds TLA+ specifications of that core, the TLC configurations that check them
on small instances, and proofs checked by TLAPS. Paths below are relative to
`src/opencode/packages/core/src/` unless they start with `src/`; `session/` is
left out where it is clear.

The part modelled first is the one all others lean on: **how input a client
sends becomes exactly one message of a transcript, and how one Session is
driven by at most one turn at a time, over interrupts, crashes and restarts.**
Around it stand what a turn does (one model step with its tools, child Sessions
as background jobs), what starts turns by itself (schedules), and what carries
the record (the event bus).

## 1. Inventory

### Components, their state and operations

| Component | State | Operations | What makes it correct |
|---|---|---|---|
| `SessionRunCoordinator` (`run-coordinator.ts`) | a map from Session to its execution: owner fiber, scope, doorbell (`pendingWake`), stopping mark | `wake`, `run`, `interrupt`, `awaitIdle`; the fiber: started hook, drain loop, settled hook, settle | one drain per Session at a time; no wake is lost in the gap before the idle transition; nobody waits for an execution that is gone |
| `SessionInbox` (`inbox.ts`) | `session_inbox` rows, visible messages, one lock per Session | `reconcile`, `admit`, `admitCompaction`, `cancel`, `steer`, `queue`, `promote`, `nextPromotable` | an ID is recorded once however calls are retried; delivery keeps its order; promotion and withdrawal do not race |
| `SessionRunner` (`runner/llm.ts`) | per drain: force, continuing, entering, stepped, scope | `drain`: boundary, control work, promotion, model step, idle hook | queued prompts wait for the end of a turn and for a drain that may take them; steering is heard during a turn |
| `SessionExecution` (`execution.ts`) | the claim `time_suspended`, `resume_attempts` | started, settled, `interrupt` with resume, `resume`, `wake` | the claim is set whenever a turn is in flight, released by every end but a shutdown |
| `SessionRestart` (`execution/restart.ts`) | none of its own | `resumeSuspendedSessions` at server start | every orphaned turn runs again, a bounded number of times |
| `SessionMove` (`move.ts`) | - | `move` | a Session changes Location only at a boundary |
| Session service (`session.ts`) | - | `prompt`, `compact`, `synthetic`, `interrupt`, inbox edits, revert, ... | calls reach the inbox first and the execution second |
| `SessionRevert` (`revert.ts`, `projector.ts`) | staged revert | stage, clear, commit | never under a running turn |
| `SessionStep` (`runner/step.ts`, `publish-llm-event.ts`, `retry.ts`) | one step's record, its tool fibers | `attempt`; the publisher's handlers | every call settles once, in a record that folds; a decline ends the turn; a repeat is unseen |
| `SessionCompaction` (`compaction.ts`) | checkpoints | manual, auto, overflow recovery | nothing a user said is lost |
| `Job`, subagents (`job.ts`, `tool/plugin/subagent.ts`, `subagent-job.ts`, `subagent-completion.ts`) | jobs and their table, observers | start, wait, block, background, cancel, complete; notify, deliver, recover | one outcome per generation; a promised notice comes, over crashes too |
| `Bus` (`bus.ts`) | events, a sequence, an owner and a lock per aggregate; wake signals; the live channel | publish, publishAll, replay, claim, log | an event and its projections commit together; followers see each event once, in order |
| `Schedule` (`schedule.ts`) | rows, leader lease, per server what its loop remembers | create, pause, resume, remove; loop: claim, rewake, tick, step, fire | a due slot is prompted for once, by one server, and its Session wakes |
| `Permission`, `Form` (`permission.ts`, `form.ts`) | pending questions | ask, reply, close | every question is answered once |
| `SharedCache`, Location lifecycle and activity, `State` | entries; retention counts | get; retain, evict, reload | no load overlaps; nothing in use is evicted |
| MCP, pty and its daemon, files, snapshots, worktrees, credentials, integrations | connections, processes, files | - | mostly I/O |
| model protocols (`src/opencode/packages/ai`), server, client, CLI, TUI (Go launcher in `src/tui`), rift-verify | - | conversion, routing, display | - |

### How they interact

A client call admits a row to the inbox (an event and its projection in one
SQLite transaction) and then *wakes* the execution; the two are separate steps,
and a crash may fall between them. The coordinator forks one fiber for the
Session. Its started hook publishes `Execution.Started` and sets the claim in
the same transaction; then it drains; every drain is a loop of boundaries and
model steps in `llm.ts` that reads the inbox again at each boundary. When a
drain ends the fiber drains again if the doorbell rang, or runs its settled
hook, which publishes the terminal event and (unless it is a shutdown) releases
the claim, and settles: an execution whose doorbell rang meanwhile gets a
successor. After a restart the sweep lists claimed Sessions, counts an attempt,
publishes a notice and runs each with `force`.

Inside a drain a model step is an *attempt*: it reads the provider's stream,
forks a fiber per local tool call, and both record what happens through the
publisher, which publishes on the bus. A tool may be a subagent: it prompts a
child Session, starts a job that resumes it, and blocks on the job, until it
ends or a client (or the call itself) moves it to the background; then an
observer admits the result to the parent's inbox, and until that has happened a
durable row stands for the job, which the sweep after a restart takes up. A
schedule's tick prompts a Session like any client, under a message ID that is
derived from its run counter. All tables are projections of events; the bus
commits an event with its projections under the aggregate's lock, then wakes
the log's followers, then notifies live subscribers.

### What is hard here

JavaScript is single-threaded, but every `yield*` may let another fiber run, so
state read before one is stale after it. The hard cases are listed with their
lines in `PROJECT.json` under "hazards": wakes in the settlement window,
interrupts during cleanup, retries of an admission while its twin is delivered,
cancellation during promotion, a boundary that decides on one inbox and promotes
another, crashes between any two commits, a sweep that runs while requests are
served already, tools and a provider that record one step without a lock, an
interrupt that finds its way into an uninterruptible region, jobs that settle
while they are cancelled and started again, rows recovered while calls make new
ones, leases that a crash leaves behind, a pause during a firing, wakes that
coalesce while a reader pages through history; and, in parts not modelled yet,
evictions of what was just taken into use and questions rejected in a batch.

## 2. Modules

```
KeyedWork                 what a coordinator promises (abstract)
   ^ refined by
RunCoordinatorTrace ----> RunCoordinator            session/run-coordinator.ts
RunCoordinatorProofs          ^ INSTANCE (one key)
                              |
SessionInbox <- SessionRunner <- SessionExecution   inbox.ts, runner/llm.ts, execution.ts,
   ^                                                execution/restart.ts, store.ts
MCSessionInbox (symmetry)

SessionStep                                         runner/step.ts, publish-llm-event.ts
Job <- Subagents                                    job.ts, subagent*.ts, execution/restart.ts
Schedule <- MCSchedule (the plans)                  schedule.ts
EventLog  <- refined by - Bus                       bus.ts
```

The proofs about a module `M` are in `MProofs`, which extends it: Schedule, Bus,
SessionStep and Subagents (with Job) each have one of their own;
SessionInboxProofs, SessionRunnerProofs and SessionExecutionProofs extend one
another as their modules do, and SessionExecutionProofs takes the coordinator's
steps from an instance of RunCoordinatorProofs.

**RunCoordinator.** `execution[k]` is the map entry of key `k` plus the phase of
its fiber: `forked` (parked on the leading yield), `starting` (started hook,
uninterruptible), `draining`, `yielded` (doorbell taken, parked on the yield
before the next drain), `settling` (owner gone, settled hook runs), `settled`.
A synchronous body (`wake`, `interrupt`, the body of `run`) is one action; each
place the fiber can yield is a phase. Waiting on `done` is a state of the
caller: the map entry and the resolution of `done` change in one synchronous
step (`settle`), so who waits always waits on the current execution. Closing the
scope interrupts every owned fiber without the stopping mark, which is how
`execution.ts` tells a shutdown from a user's stop.

**KeyedWork.** Three variables: what is owed, what is served, the last
observable step. A wake widens what is owed, an interrupt drops it, a drain
begins only when nothing is served, and with a scope that together with what
stays owed makes up what was owed. The mapping of RunCoordinatorTrace derives
`owed` from the doorbell and the scope of the drain about to begin; the trace
variable makes calls visible, so that "nothing is lost" cannot be satisfied by
pretending an interrupt happened.

**SessionInbox.** The tables as sequences: `inbox` in `enqueued_seq` order,
`history` of delivered rows. What publishes is one action, as event and
projection commit together. What reads first and publishes later is split:
`admit` (outside the lock), `admitCompaction` (under it), and `promote`, which
publishes row by row under the lock and may be interrupted between two rows.
Message text, files and agents are left out: nothing in the control depends on
them. IDs of moves are fresh in the code; `AdmitMove` only takes an unused one.

**SessionRunner.** The variables of `drain` as a record with a program counter.
A boundary is uninterruptible: it looks at the inbox under the lock, delivers
control work, or decides to complete, to call the idle hook or to prepare a
step; the preparation, the hand-off of a move, the promotion, the compaction and
the hook are restored and may be interrupted. A model step is one action that says whether the turn
goes on; it may also fail or be declined. `Reload` and a move hand the drain to
another instance (execution.ts:84-108 re-enters it).

**SessionExecution.** One top-level Session: SessionRunner's drain inside
RunCoordinator's fiber, client calls that wake after they admitted, interrupts
with and without resume (with the separate look at the inbox and wake), the
claim and the attempt counter, shutdown, a crash at any step (including one with
a hook's transaction committed but not returned from), a restart, and the sweep
step by step. `rung`, `steered`, `unfinished` and `resumes` are history
variables: no guard reads them.

**SessionStep.** What SessionRunner takes as one step, opened. `step` and
`calls` are the publisher's marks (`stepStarted`, `outputStarted`, `called`,
`settled`, ...), `fiber` the tool fibers, `attempt` the attempt's own fiber with
a program counter, `log` the durable events. The publisher's rule (marks first,
synchronously; then publish, uninterruptibly) is how handlers are split: one
action sets the marks and fills `attempt.outbox`, which is published event by
event while tool fibers publish theirs. `interrupted` is latched: an interrupt
that was caught by an `Effect.exit` strikes again at the next `restore`. The
provider sends any stream its adapters can produce: each ID gets an input error
or a call, `step-finish` comes before the terminal event without which the
client reports a failure. Text is one block before any call; deltas, progress
and `Tool.Input.Ended` are left out. Outcomes of their own: `struck`
(interrupted in overflow recovery or in the retry decision), `unrecorded`
(interrupted before the start snapshot existed), `HandedOver` (declined because
the Location closed). Not modelled: failing publications and snapshots, and
the flag that says whether the turn needs another step.

**Job.** The registry of one Session's jobs. An entry belongs to a *generation*:
starting a finished ID again replaces it, while the old generation's fiber may
still be running and callers of it still cleaning up. `done` and `told` are the
two Deferreds a blocked call races; `table` the durable rows. The registry is a
SynchronizedRef, so an update with the write inside it is one action; what a
call does between two updates (removeBlock, closing the scope, the three
deletions of cancelSession) are actions of their own, and a settlement by an old
fiber may come at any time. The registry has no behaviour of its own: its
actions are those of its callers.

**Subagents.** Job's callers are calls of the subagent tool (`CallStarts`,
`Enters` or `HandsOver`, `Notifies`), clients that move work to the background,
stop a child (`execution.ts` cancels its job) or remove the Session. `observer`
holds the fibers that wait for a job and report it, keyed as the set
`notifications` keys them, plus the ones the sweep forks; `notices` the messages
in the parent's inbox by their notification ID, which makes a second delivery a
no-op; `promised` is a history variable, the notifications a call announced. A
call that hands its job over answers "You will be notified" even if the entry is
gone by then (subagent.ts:229-232): `HandsOver` records that promise too, of the
notification that the job it started or joined was told. A
crash empties the process, and the sweep lists the rows and takes them one by
one while calls go on. A row whose child is active on its own is passed over
and waits for the next start.

**Schedule.** One row, several servers. Time is counted in slots of the
schedule, so `Following` is the next slot and a late server skips what it
missed. `lease` is the leader row. It expires by the wall clock (549), which the
model splits: that of an exited server (`dead`) runs out by `LeaseExpires`, and
`LeaseLapses` takes it from a live one, which stalled for LEADER_TTL or whose
heartbeats failed that long; nothing tells that server, and it goes on with its
tick. `Heartbeats` takes a free lease back during a tick, and their failures are
ignored, as in the code. The lease is looked at at each claim and once more per row
(`Step`, 429), never between the check, the prompt and the record. `server[s].row`
is the row as the tick read it: every later write is made with those values
against the current row, by `Update` (only while active) or by the unconditional
record of a run. A prompt admits `msg_<row>_<run>` unless it is known, and wakes
the Session in a step of its own (session.ts:187). `StepFails` is the `catchCause`
of the step (472): it comes at any point, after the admission too, where the
message stays and the run counter does not advance; its own write may fail as well.
The check's outcome, the flag and failures are nondeterministic. The Session is
external: once woken it takes what is pending. Histories, which no action
depends on: `slot`, the slot a message was admitted for; `lost`, the runs that were
admitted and not recorded; `overtaken`, whether a server claimed the lease while
another one was in its tick.

**EventLog, Bus.** EventLog is what `log` promises a reader: at the mark it has
seen what was committed before it looked, afterwards each commit once and in
order. Bus implements it with a lock per aggregate, a batch of events,
replays with an owner, wake signals that hold one wake, and pages;
ReadersSeeTheLog is the refinement. A commit, the wakes and the notifications
are separate actions under the lock; between commit and notification a publish
may be interrupted, and `quiet` records for whom nobody was notified. A Session
that is forked or imported starts with one event, after which its projector
reserves the sequence numbers of what it takes over (projector.ts:311,
transfer.ts:146): a gap in the log, the only one, which readers pass over. A
replayed event that is stored already changes nothing but, perhaps, the owner.

## 3. Runs

| Run | Instance | Question | States |
|---|---|---|---|
| RunCoordinatorTrace | 1 key, 2 callers | refines KeyedWork; `WaitersOwned`, `WaitersReturn`, `InputIsServed` | 32 thousand |
| SessionInbox | 3 IDs, 2 clients, prompts, compactions, moves | `OneRecordPerId`, `OneCompaction`, `PromotesWhatItRead`, `DeliversInOrder` | 1.2 million |
| SessionRunner | 2 IDs, 1 client, all three types | `QueuedWaits`, `SteersAreHeard` | 245 thousand |
| SessionExecution | 1 ID, 1 client, 1 resume allowed, shutdowns, crashes, restarts without bound | `NothingStranded`, `ResumeBudget`, `ClaimCoversDrain` | 3.3 million |
| SessionExecutionTurn | 2 IDs, 1 client, no restart | `RungSteersAreHeard` | 903 thousand |
| SessionStep | 2 tool calls and a text, every stream | `RecordInOrder`, `AttemptSettles`, `RepeatsAreSilent`, `DeclinesStop`, `InterruptEndsAttempt` | 1.4 million |
| Subagents | 1 child started twice, 1 calling fiber, 1 that stops or removes, 1 crash | `OutcomeIsItsOwn`, `OwnershipIsDurable`, `BlockersAreReal`, `PromiseKept`, `BlockersReturn`, `PromiseReported` | 769 thousand |
| Schedule | 2 servers, three kinds of schedule, 2 slots, failures, 1 exit or 1 lapsed lease | `SlotFiresOnce`, `OneServerTicks`, `EveryFiringPrompts`, `PauseSticks`, `LastPromptIsSeen` | 1.8 million |
| Bus | 2 fibers, 1 reader, pages of 1, batches of 2, 3 events, 1 other installation | `LiveInOrder`, `OneSource`, refines EventLog | 1.1 million |
| SessionExecutionDecline, SessionExecutionResume, SessionStepInterrupt | the smallest that shows it | one sentence of a comment or test each | violated, see 6 |

Each passing run also checks the type invariant of its modules.

*Bounds.* Keys of the coordinator share nothing but the closed flag, so one key
is enough for TLC; the proofs cover any number. Two callers can be one joined
and one refused, or one running and one waiting for idleness. Three IDs are two
prompts with a control between them, two clients a call and its retry. The row
order in the inbox matters up to three rows (compaction, move, prompt). In the
runner and the execution one client is enough for a call at any point of a
drain, since two calls of different clients meet only in the inbox, whose own
run has both; with one client the execution's doorbell still rings during a
drain, because the call can be retried and the row re-steered. `attempts` stops
counting at MaxAttempts + 1, beyond which nothing distinguishes it. Two calls of
a step are one that is swept and one that publishes, or one declined and one
interrupted; a third meets nothing new. `MaxStarts` is 2: what one generation
can do to another it can do to the next; the caller that stops is the one that
cleans up an old generation while the other blocks on the new one, and one crash
is enough for the sweep to meet calls and a finished job. One caller blocks in
that run: several at once are in the proof of `BlockersAreReal` only, and
`BlockersReturn` is not checked for them. Two slots are one
firing and one that finds its prompt pending, and two runs a firing and its retry
or successor; the tick does not select a row whose run numbers are used up, the one
place where `MaxRuns` cuts. One exit can be before or after each step of a firing;
failures of a step are not bounded. `MaxFaults` counts exits and stalls together,
and `Stalling` lets a lease lapse in the run only under a schedule without a check: each of
these bounds keeps the run within minutes, and the proofs have neither. The plans are a
repeating task, a reminder, and an until check with an end. Three events with pages of one are a replay of several pages, a commit
during it, and a batch that is read apart. A message ID is delivered at most
once, and that alone keeps the inbox finite.

*Deadlock* is not checked: an idle Session with its IDs used up, an attempt that
returned, a finished schedule, a full log and a process after teardown really
stop.

*Fairness.* `FairSpec`: fibers are scheduled by the runtime, hooks return, a
released caller goes on. `FairRunner`: in addition model steps return (the
transport has timeouts), the lock is granted to whoever keeps asking (its
semaphore is first come, first served, hence strong fairness of the actions that
take it), and a Location is not reloaded at each and every boundary. Clients are
never forced to call anything, except to finish what they began under the lock.
`SteersAreHeard` additionally assumes that the client eventually stops
cancelling and re-queueing control work in front of the row. The fairness of
`FairProcess` is that of one execution fiber, and that it looks at its inbox
again and again if it reaches its boundary again and again. `FairStep`: the
attempt's own steps, the snapshot, an uninterruptible publication and the end
of an interrupted tool; provider and tools owe nothing, so `InterruptEndsAttempt`
says that a hanging tool is reached. `FairSubagents`: the work of a job ends, its
fiber settles, observers, the sweep and calls go on; no call is forced to begin
or to be interrupted. It is weak fairness of all background steps together, and
of all calls together: each has finitely many steps, so none is starved for
ever. `FairSchedule`: a server's loop runs (it sleeps at most MAX_SLEEP), a woken
Session looks, an abandoned lease expires; no heartbeat is owed. `FairBus` binds who holds the
lock and who reads; it implies EventLog's own fairness, that a reader with
events in front of it sees them, which the wakes that coalesce must not break. `FairExecution` gives the
violation runs that check invariants a fair specification; their
counterexamples are finite and need none of it.

Each property has a mutant: a definition with a plausible bug (`MovesOnJoiners`,
`RungNarrow`, `BeforeControlSlice`, `RecordActive`, `WokenLive`, ...) under which
the property fails. Mutants stand before the definition they change and are used
nowhere else.

## 4. Proofs

Every safety property a passing run checks, invariant or action property, is a
theorem, for every value of the constants the assumptions below allow; so are
both refinements, the one of EventLog without its fairness. Each proof has the
same outline: an inductive invariant, one lemma per action that the action keeps
it, and the properties from it. TLC checked each of these invariants on the
instance of the module's run first, over all the states section 3 counts; where
it found a counterexample, the invariant was strengthened or the model corrected
(it showed that a reserved gap was modelled in a place where the code has none).

**Assumptions on constants.** Bounds are natural numbers, those that count
something there is at least one of are positive (`BoundsAssumption` and others).
`CallersAssumption` (Job) and `CallsAssumption` (SessionStep) say that finitely
many fibers are in a call, and that a model's response has finitely many calls;
without that the counter of blockers and a loop over unsettled calls would mean
nothing. `ServersAssumption` and `FibersAssumption` keep the marks "none" and
"dead" apart from names. `PlansAssumption`, `TypesAssumption` and
`StoppersAssumption` are the types of those parameters, `SizesAssumption` that
pages and batches are not empty. RunCoordinator assumes nothing. TLC evaluates
all of them in the runs.

**RunCoordinatorProofs** (`TypeCorrect`, `WaitersCorrect`, `CoordinatorRefines`).
`WaitersOwned` is not inductive: that a phase other than idle persists needs to
know what an idle record looks like and which flags a running one can have.
`Inv` adds to `TypeOK` and `WaitersOwned` the `ExecutionShape` of each key: an
idle key has the blank record, a live one has a scope, and an owned fiber is
interrupted exactly when somebody stopped it or the scope closed.
`TraceSpec => Promises` is proved step by step under `Inv`: each action of the
trace is a step of KeyedWork or a stutter. The lemma `OneKey` reduces a step of
one key to the functions over all keys.

**SessionInboxProofs** (`InboxTypes`, `RecordedOnce`, `CompactionIsSingle`,
`PromotionsHold`, `DeliveriesInOrder`). `Inv` is `Tables` (IDs are distinct
within and across both tables, one compaction), `LockOwned` (the lock is that of
the promotion or of one client's compaction, and while a client holds it there is no
compaction in the table) and `ReadsHold`: what a promotion read is a selection
of the current table, in its order, that leaves out no earlier row of its
delivery. The last is what makes a promotion safe although admissions and
retries run outside the lock: they append or change nothing, and what deletes or
re-queues a row takes the lock. `DeliversInOrder` then follows for each single
publication.

**SessionRunnerProofs** (`RunnerTypes`, `QueuedInputWaits`). `PromotionAllowed`
carries the decision of the boundary over to the promotion: it reads queued
input only if it was asked to, which the drain does only between turns and
within its own scope.

**SessionExecutionProofs** (`ExecutionTypes`, `NothingIsStranded`,
`ResumesAreBounded`, `ClaimIsWrittenAhead`). The invariants of runner and
coordinator hold as they are; `DrainFollows` ties the drain to the phase and the
scope of the execution. `Owes` is what is behind `NothingStranded`: a pending
row whose doorbell rang is *served*, that is, the doorbell holds its scope or a
wider one, or a drain of such a scope is ahead or has not looked its last. The
hard steps are a drain that completes (it does so in the very step in which it
saw the inbox empty for its scope), the settlement, which hands the doorbell to
a successor, and an interrupt, which gives the obligation up. `Counted` bounds
the resumes by the attempts plus one, and by the attempts themselves between the
sweep's count and its run: the one in excess is the count a live turn's release
took back.

**SessionStepProofs** (`StepTypes`, `TheRecordIsInOrder`, `AttemptsSettle`,
`SilentRepeats`, `DeclinesAreFinal`). The record is the log *and* what the
attempt's outbox has still to publish, as tool fibers publish in between. `Sequenced` says that
each pair of its events may stand as it does, which is closed under publishing
from either side; `Contents` that it holds exactly what the marks of step and
calls say, but for a settlement whose fiber has marked it and not published it
yet; `CallOK` and `PhaseOK` what a fiber and a phase imply of the marks. That a
local call without a fiber is about to be forked, or was interrupted before it
could be, is why no call is missed when the attempt settles what its fibers left.

**SubagentsProofs** (`SubagentTypes`, `OutcomesAreOwn`, `OnlyBlockersCount`,
`BackgroundIsOwned`, `PromisesAreKept`). `RegistryInv` says that generations are
started one after the other and what an entry of each status holds; `CallersOK` and `ReportsOK` what
calls, observers and the sweep know of the generation they act for.
`DurableInv` is stronger than the properties: whatever was *told* to a blocked
call, promised by one, or is being acknowledged, has a row or its notice. That
is what a call on its way to its answer relies on while its job ends, is started
again or removed.

**ScheduleProofs** (`ScheduleTypes`, `OneTicks`, `SlotsFireOnce`,
`FiringsPrompt`, `PausesStick`). `Inv` has two parts. What holds whatever happens
to the lease: the types, that what a tick read is a due row of the plan there is, and, until a lease
lapses under a live server, `LeaseHeld`: who ticks or believes to lead holds the
lease, which is why one server ticks at a time (`OneTicks`). `InvAlone` holds
until a server claims the lease while another one ticks: then `ReadHolds` is what remains
true of a row that a tick read while clients pause, resume and remove it, and
`MessagesNumbered` and `SlotsOrdered` relate the run counter, which names the
messages, to the slots: nothing beyond the counter is used but the prompt whose
record is on its way or was lost, and all slots prompted for lie before the next,
but for that prompt's. That a lapsed lease alone breaks nothing is in this split:
`Alone` needs no lease, only that nobody claimed it during a tick. `PausesStick` is the
one theorem without an exception.

**BusProofs** (`BusTypes`, `LiveIsOrdered`, `OwnersAreAlone`, `BusRefinesLog`).
Its heart is `LiveOK`: what the live channel showed, followed by what the holder
of the lock has still to show, ascends and has every position but the quiet
ones. For the refinement: a page shows a reader what follows its cursor with
none left out; a reader that finds nothing up to its target has only gaps in front of it.
`BusRefinesLog` is `BusSpec => Promised!Safety`, each action of Bus a step of
EventLog or a stutter.

Lemmas about sequences and sets come first in each module. `Rows`, a recursive
function, and the pages of a reader need induction over their length; `Least`
(a set of numbers that is not empty has a least member) takes its place, with
the least counterexample, as the library's induction rules are out of the
provers' reach.

**Model-checked only**: liveness (`WaitersReturn`, `InputIsServed`,
`SteersAreHeard`, `RungSteersAreHeard`, `InterruptEndsAttempt`,
`BlockersReturn`, `PromiseReported`, `LastPromptIsSeen`) and the fairness half
of `ReadersSeeTheLog`, because TLAPS has no proof rules for fairness and ENABLED
here; and the three violations of section 6, which are counterexamples.

## 5. What the properties say

* `InputIsServed`: a wake for queued prompts is answered by a drain that may
  take them, however many narrower wakes come; only an interrupt of the key, a
  started hook that fails before the drain, or teardown ends the obligation. A
  drain that fails does not, nor a narrower wake.
* `OneRecordPerId`: an ID is pending or visible, at most once in all, however
  its admissions, retries, cancellation and promotion interleave.
* `DeliversInOrder`: a row overtakes an earlier one only in the ways the code
  means: steers before queued rows, a steered compaction before prompts but not
  over a move, and the queued row chosen before a late steer.
* `QueuedWaits`: no queued prompt in a steer-scoped drain or inside a turn,
  although the boundary that decided and the promotion that follows see
  different inboxes.
* `NothingStranded`: once a call has rung for its row, an idle Session (of an
  open process) does not have the row pending, unless an accepted interrupt, a
  broken busy period or the end of the process gave it up.
* `ClaimCoversDrain`: whenever a drain runs the durable claim is set, unless
  this process's own sweep gave the Session up.
* `ResumeBudget`: between two releases of the claim a Session is resumed at most
  `MaxAttempts + 1` times. The strict bound fails: a sweep that counts while a
  live turn releases its claim loses the count (6, 6).
* `RecordInOrder`: an input precedes its call, both precede the one event that
  settles it, the step's start is first and its end is last - although two tool
  fibers and the attempt publish without a lock. `AttemptSettles`: who comes back from an
  attempt finds every call settled and the step closed; the exceptions are
  named in the property.
* `RepeatsAreSilent`: an attempt that is repeated left nothing in the record but
  its start, and ran no tool. `DeclinesStop`: after a decline nothing continues
  the turn, whatever the stream did. `InterruptEndsAttempt`: the interrupt
  reaches a tool whose fiber was about to be forked, too.
* `OutcomeIsItsOwn`: an obsolete generation, running on after its cancellation,
  neither settles its replacement nor answers its waiters.
* `OwnershipIsDurable`: from the release of a backgrounded call to the admission
  of the notice a row owns the job and knows how it ended, except that a mere
  interruption leaves it to be taken up again.
* `PromiseKept`: a call that answered "You will be notified automatically when
  it finishes" has a row or a notice, through replacement, crash and sweep.
  `PromiseReported`: within one process the notice comes. An observer that looks
  after the child was started again follows the new generation (hazard
  subagent-job.ts:35): then the old row is told at the next start only, which
  is why the property is about the entry's own notification.
* `BlockersAreReal`: no answered or interrupted call leaves a count behind that
  would let `backgroundAll` move a job nobody blocks on. The converse is not
  true: a cleanup can lower the count of a later generation's caller.
* `BlockersReturn`: whatever ends, replaces or evicts a job, who is blocked on
  it is answered, unless `cancelSession` forgot the job before it settled.
* `SlotFiresOnce`: the derived message ID makes a firing that was cut off, by an
  exit or by a failure after its admission, idempotent. Two exceptions are part of the
  property. A check may come to another verdict on the retry than on the firing whose
  record was lost: its notice then meets the earlier message, is recorded as a strike,
  and leaves the slot due, so that after a resume the slot is prompted for again, in
  the one process. And nothing is promised once a leader was overtaken in its
  tick (6, 8).
* `OneServerTicks`: who exits with or without its lease, is refused its own old
  one, or releases it late, never lets two servers tick at once. A lease that runs
  out under a live server does.
* `EveryFiringPrompts`: no firing is swallowed as a duplicate of an earlier one,
  because the run counter advances under a pause; but the run whose record was lost
  may be (6, 9). `PauseSticks`: no write of a tick that began before the pause makes
  the row active again, not even that of a server which was overtaken.
  `LastPromptIsSeen`: the last prompt of a schedule that goes on is delivered though
  its server exits after admitting it; a leader that stalled and does not
  know that another one led meanwhile owes no such wake.
* `LiveInOrder`: live subscribers see commit order, with no gaps but silent
  replays and interrupted publishers. `OneSource`: once an aggregate has an
  owner, replays of others change nothing.

## 6. Where the code and its own words differ

Shown by a run:

1. `DeliberateStopsRelease` (execution.ts:127): declining a tool call ends the
   step with a bare interruption, which `terminal` takes for a shutdown; the
   claim stays and the next server start resumes what the user declined.
2. `RecoveredTurnRuns` (execution.ts:75): a compaction or a move that is pending
   at the crash consumes the sweep's forced drain. In the run the compaction
   reuses the ID of a withdrawn prompt to keep the instance small; with a second
   ID the prompt need not be withdrawn.
3. `InterruptSettlesTools` (runner/step.ts:137, test/session-runner.test.ts:5682):
   after the provider failed, an interrupt that comes while tools are awaited is
   raised again where the retry decision is restored (202), and the attempt ends
   with interrupted calls and the step unsettled. The next drain's
   `settleStaleToolCalls` repairs the calls.

Seen while modelling, without a run of their own:

4. run-coordinator.ts:17 says an interrupt "clears its doorbell"; a second
   interrupt during the cleanup of the first returns at once, so a message sent
   in between runs.
5. inbox.ts:176 "First admission wins": a retry whose twin was admitted *and*
   delivered between its look and its publication gets a conflict, because the
   recovery at 213-219 only looks at pending rows.
6. test/session-execution.test.ts:366 "the sweep must not count, continue, or
   terminalize" a live turn: the sweep's snapshot of active Sessions is older
   than its list of claims; a turn started in between is counted and noticed.
7. schedule.ts:510 "wake every Session whose last scheduled prompt is still
   pending": if the crashed server restarts within LEADER_TTL it is refused its
   own old lease, sets `bootChecked`, and, when the crashed prompt was the last
   run so that no row is active, rests without ever reaching `rewake`. This is
   why `LastPromptIsSeen` is about schedules that go on.
8. schedule.ts:84-86: servers sharing a data directory "never double-fire". A
   leader that stalls in its tick for longer than LEADER_TTL prompts and records for
   a row its successor has fired already; the record is by the row's ID alone
   (407-423), so it rewinds run count and slot, and the slot is prompted for a second
   time under the next message ID. Without its `~overtaken`, `SlotFiresOnce` fails.
9. schedule.ts:270: a retry "reconciles with the earlier admission". The ID names
   the run count only. If the firing fails after its admission, and a pause and a
   resume moved the row to a later slot meanwhile, the next firing is that slot's and
   meets the message of the earlier one: nothing is prompted, and the run is recorded
   as fired. test/schedule.test.ts:850 has the failure, for an unchanged slot. This
   is why `EveryFiringPrompts` excepts a run whose record was lost.

## 7. Plan

Done, most central first: RunCoordinator and its abstract specification,
SessionInbox, SessionRunner, SessionExecution with restart, Job, Subagents,
Schedule, Bus with its abstract specification, SessionStep; and the proofs of
every safety property of these. Next:

1. **SessionStep as a refinement** of `StepEnds`/`Declined`/`Fails` of
   SessionRunner, with the delays and the counter of `retry.ts`.
2. **SessionRevert** and the in-place move over the inbox.
3. **Permission** and **Form**, **LocationActivity**, **SharedCache**.

## 8. Not modelled

See "components" in `PROJECT.json` for each part and its reason. Most of the
repository's lines are generated clients, front ends, provider protocols, an
interpreter and a shell scanner: data conversion and display, without the state
over time a model checker is for. Within the modelled parts: message contents
and blobs, ownership of an ID by another Session, the agent's step limit, titles,
plugins' hooks beyond their places in the control, staged reverts at a prompt,
waits of a job with a timeout, shell and image jobs, a Session removed in a
process that crashed before, the recovered child's resume budget together with
its parent's resume, several top-level Sessions swept concurrently, several rows
in one tick, a failing rewake of a schedule, `Bus.remove`, the routing of events to Locations, and the in-place
move. `replay` and `claim` of the bus have no caller in `src/` of core outside
its tests; they are modelled because the lock and the sequence they share with
`publish` are. Bus takes payloads as persisted, as an embedder or a test may
configure it: without that there is no log to read back. Of external code, SQLite's transactions are taken as atomic, and
Effect's fibers, semaphores and Deferreds behave as their use in the source
presumes.
