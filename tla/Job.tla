---------------------------------- MODULE Job ----------------------------------
(***************************************************************************)
(* The job registry (job.ts): one process-local entry per job ID, replaced *)
(* when the same ID is started again, and the durable row a job owns from  *)
(* the moment it is moved to the background until its notice is            *)
(* acknowledged.                                                           *)
(*                                                                         *)
(* These are the jobs of one Session.  Every job the source starts (shell, *)
(* subagent, image) is recoverable and none is awaited with a timeout.     *)
(* A failed run is a completed one: the registry treats them alike.  The   *)
(* forgetting of entries that were read (COMPLETED_LIMIT) is left out: a   *)
(* forgotten entry is one that has ended and that nobody notifies.         *)
(*                                                                         *)
(* The registry is a SynchronizedRef: an update, with the table write      *)
(* inside it, is one step; what a caller does between two updates is not.  *)
(*                                                                         *)
(* The registry acts only for its callers: who calls what, the observers   *)
(* of backgrounded jobs and the process's death are in Subagents.          *)
(***************************************************************************)
EXTENDS Naturals, FiniteSets

CONSTANTS
  Ids,       \* job IDs
  Callers,   \* fibers that call the registry
  MaxStarts  \* bound: generations of one ID

ASSUME StartsAssumption == MaxStarts \in Nat \ {0}
\* At any time finitely many fibers are in a call.
ASSUME CallersAssumption == IsFiniteSet(Callers)

VARIABLES
  jobs,     \* the registry: ID -> entry
  table,    \* JobTable: ID -> notification -> status
  fiber,    \* ID -> generation -> the fiber that runs it
  done,     \* ID -> generation -> what its Deferred done holds
  told,     \* ID -> generation -> the notification its Deferred backgrounded
            \* holds; 0 when it is not resolved
  caller    \* caller -> what it does

jobVars == <<jobs, table, fiber, done, told, caller>>

\* A generation (the entry's scope) is the number of its start; a notification
\* ID is named after the generation it was created for.
Generations == 1..MaxStarts
Terminal == {"completed", "cancelled"}
Exits == {"completed", "interrupted"}

Absent == [gen |-> 0, status |-> "absent", blockers |-> 0, backgrounded |-> FALSE,
           notification |-> 0]
NoFiber == [exit |-> "none", settled |-> FALSE]
Unresolved == [status |-> "none", notification |-> 0]
Idle == [pc |-> "free", id |-> "none", gen |-> 0, removes |-> FALSE, left |-> {}]

JobInit ==
  /\ jobs = [id \in Ids |-> Absent]
  /\ table = [id \in Ids |-> [n \in Generations |-> "none"]]
  /\ fiber = [id \in Ids |-> [g \in Generations |-> NoFiber]]
  /\ done = [id \in Ids |-> [g \in Generations |-> Unresolved]]
  /\ told = [id \in Ids |-> [g \in Generations |-> 0]]
  /\ caller = [c \in Callers |-> Idle]

Present(id) == jobs[id].status # "absent"
Running(id) == jobs[id].status = "running"
Finished(id) == jobs[id].status \in Terminal
Starts(id) == Cardinality({g \in Generations : fiber[id][g].exit # "none"})

Goes(c, pc, id, gen) == caller' = [caller EXCEPT ![c] = [Idle EXCEPT !.pc = pc, !.id = id, !.gen = gen]]
Steps(c, pc) == caller' = [caller EXCEPT ![c].pc = pc]
Frees(c) == caller' = [caller EXCEPT ![c] = Idle]

-----------------------------------------------------------------------------
(* What an update of the registry does *)

\* Mutant: the completion of a background job stays in memory.
PersistNever(id, entry) == UNCHANGED table

\* persistBackground: insert or update the row of a job that has a notification.
Persist(id, entry) ==
  table' = IF entry.notification = 0 THEN table
           ELSE [table EXCEPT ![id][entry.notification] = entry.status]

\* Mutant: the waiters of a cancelled job are not told.
EndsSilently(id, status) ==
  /\ jobs' = [jobs EXCEPT ![id].status = status, ![id].blockers = 0]
  /\ IF status = "cancelled" THEN UNCHANGED done
     ELSE done' = [done EXCEPT ![id][jobs[id].gen] =
                     [status |-> status, notification |-> jobs[id].notification]]

\* A running entry ends: nobody blocks on it any more, and done is resolved.
Ends(id, status) ==
  /\ jobs' = [jobs EXCEPT ![id].status = status, ![id].blockers = 0]
  /\ done' = [done EXCEPT ![id][jobs[id].gen] =
                [status |-> status, notification |-> jobs[id].notification]]

\* markBackground of a set of entries, and the release of who blocks on them.
MarkBackground(ids) ==
  LET marked(id) == [jobs[id] EXCEPT !.backgrounded = TRUE, !.blockers = 0,
                       !.notification = IF @ = 0 THEN jobs[id].gen ELSE @]
  IN  /\ jobs' = [id \in Ids |-> IF id \in ids THEN marked(id) ELSE jobs[id]]
      /\ table' = [id \in Ids |->
                     IF id \in ids
                     THEN [table[id] EXCEPT ![marked(id).notification] = jobs[id].status]
                     ELSE table[id]]
      /\ told' = [id \in Ids |->
                    IF id \in ids THEN [told[id] EXCEPT ![jobs[id].gen] = marked(id).notification]
                    ELSE told[id]]

-----------------------------------------------------------------------------
(* Starting, running and settling *)

\* start: a running job is joined; any other entry is replaced.
Start(id, notification) ==
  IF Running(id) THEN UNCHANGED <<jobs, fiber>>
  ELSE LET g == Starts(id) + 1
       IN  /\ g <= MaxStarts
           /\ jobs' = [jobs EXCEPT ![id] = [Absent EXCEPT !.gen = g, !.status = "running",
                                                          !.notification = notification]]
           /\ fiber' = [fiber EXCEPT ![id][g].exit = "running"]

\* The run ends by itself, or because its scope was closed.
RunEnds(id, g) ==
  /\ fiber[id][g].exit = "running"
  /\ \E exit \in Exits : fiber' = [fiber EXCEPT ![id][g].exit = exit]
  /\ UNCHANGED <<jobs, table, done, told, caller>>

\* Mutant: whoever settles, settles the entry.
SettlesAny(id, g) == Running(id)
\* The entry is of this generation and nobody settled it.
SettlesOwn(id, g) == jobs[id].gen = g /\ Running(id)

\* settle.  A mere interruption is not written to the table: the row still says
\* running, and a later process takes the job up again.
Settle(id, g) ==
  LET exit == fiber[id][g].exit
      status == IF exit = "interrupted" THEN "cancelled" ELSE exit
  IN  /\ exit \in Exits /\ ~fiber[id][g].settled
      /\ fiber' = [fiber EXCEPT ![id][g].settled = TRUE]
      /\ IF SettlesOwn(id, g)
         THEN /\ Ends(id, status)
              /\ IF status = "cancelled" THEN UNCHANGED table
                 ELSE Persist(id, [jobs[id] EXCEPT !.status = status])
         ELSE UNCHANGED <<jobs, done, table>>
      /\ UNCHANGED <<told, caller>>

-----------------------------------------------------------------------------
(* Callers *)

\* block: look, and register as blocking if there is something to wait for.
Block(c, id) ==
  /\ \/ ~Running(id) /\ Frees(c) /\ UNCHANGED jobs
     \/ Running(id) /\ jobs[id].backgrounded /\ Goes(c, "backgrounded", id, jobs[id].gen) /\ UNCHANGED jobs
     \/ /\ Running(id) /\ ~jobs[id].backgrounded
        /\ jobs' = [jobs EXCEPT ![id].blockers = @ + 1]
        /\ Goes(c, "blocked", id, jobs[id].gen)
  /\ UNCHANGED <<table, fiber, done, told>>

\* The race of done, backgrounded and the caller's own interruption.
Released(c) ==
  /\ caller[c].pc = "blocked"
  /\ \/ done[caller[c].id][caller[c].gen] # Unresolved /\ Steps(c, "unblocking")
     \/ told[caller[c].id][caller[c].gen] # 0 /\ Steps(c, "releasing")
  /\ UNCHANGED <<jobs, table, fiber, done, told>>

BlockInterrupted(c) ==
  /\ caller[c].pc \in {"blocked", "unblocking"}
  /\ Steps(c, "abandoning")
  /\ UNCHANGED <<jobs, table, fiber, done, told>>

Blocking(id) == Running(id) /\ ~jobs[id].backgrounded

\* Mutant: an interrupted wait is not unregistered.
UnblocksServed(c) ==
  caller[c].pc # "abandoning" /\ Blocking(caller[c].id) /\ jobs[caller[c].id].blockers > 0
\* Mutant: the count of a Session that blocks on nothing is lowered too.
UnblocksBlindly(c) == Blocking(caller[c].id)
\* removeBlock, however the wait ended; decrementSession lowers a count there is.
Unblocks(c) == Blocking(caller[c].id) /\ jobs[caller[c].id].blockers > 0

\* removeBlock: it looks at whatever entry the ID has by now.  The call then
\* answers with the result, or with "backgrounded", or goes on to cancel.
RemoveBlock(c) ==
  LET pc == caller[c].pc
  IN  /\ \/ pc = "unblocking" /\ Frees(c)
         \/ pc = "releasing" /\ Steps(c, "backgrounded")
         \/ pc = "abandoning" /\ Steps(c, "cancelling")
      /\ jobs' = IF Unblocks(c) THEN [jobs EXCEPT ![caller[c].id].blockers = @ - 1] ELSE jobs
      /\ UNCHANGED <<table, fiber, done, told>>

\* cancelInternal: a running entry ends, and its scope is to be closed.
CancelInternal(c, id, persist) ==
  LET next(pc) == [caller EXCEPT ![c].pc = pc, ![c].id = id, ![c].gen = jobs[id].gen,
                     ![c].left = @ \ {id}]
  IN  /\ \/ /\ Running(id)
            /\ Ends(id, "cancelled")
            /\ IF persist THEN Persist(id, [jobs[id] EXCEPT !.status = "cancelled"])
               ELSE UNCHANGED table
            /\ caller' = next("closing")
         \/ /\ ~Running(id)
            /\ IF caller[c].removes THEN caller' = next("removing") ELSE Frees(c)
            /\ UNCHANGED <<jobs, done, table>>
      /\ UNCHANGED <<fiber, told>>

Cancel(c, id) ==
  /\ \/ caller[c].pc = "free" /\ Running(id)   \* does nothing otherwise
     \/ caller[c].pc = "cancelling"
  /\ CancelInternal(c, id, TRUE)

\* Closing the scope interrupts the fiber and waits for it.
ScopeCloses(c) ==
  /\ caller[c].pc = "closing"
  /\ fiber[caller[c].id][caller[c].gen].settled
  /\ IF caller[c].removes THEN Steps(c, "removing") ELSE Frees(c)
  /\ UNCHANGED <<jobs, table, fiber, done, told>>

\* background; a finished job too may still be handed over.
Background(id) ==
  /\ IF Present(id) /\ ~jobs[id].backgrounded THEN MarkBackground({id})
     ELSE UNCHANGED <<jobs, table, told>>
  /\ UNCHANGED <<fiber, done>>

\* The jobs that a tool call of the Session is blocked on.
BlockingAll == {id \in Ids : Running(id) /\ ~jobs[id].backgrounded /\ jobs[id].blockers > 0}

BackgroundAll ==
  /\ BlockingAll # {}
  /\ MarkBackground(BlockingAll)
  /\ UNCHANGED <<fiber, done, caller>>

\* Mutant: deletes the rows of the job, not the one of the notification.
CompleteBackgroundById(id, n) ==
  /\ table' = [table EXCEPT ![id] = [m \in Generations |-> "none"]]
  /\ IF jobs[id].notification = n /\ ~Running(id)
     THEN jobs' = [jobs EXCEPT ![id] = Absent]
     ELSE UNCHANGED jobs
  /\ UNCHANGED <<fiber, done, told>>

\* completeBackground, once the notice is admitted.
CompleteBackground(id, n) ==
  /\ table' = [table EXCEPT ![id][n] = "none"]
  /\ IF jobs[id].notification = n /\ ~Running(id)
     THEN jobs' = [jobs EXCEPT ![id] = Absent]
     ELSE UNCHANGED jobs
  /\ UNCHANGED <<fiber, done, told>>

\* cancelSession: the running jobs one after the other, then all rows, then all
\* entries.
CancelSession(c) ==
  /\ \/ /\ caller[c].pc = "free"
        /\ caller' = [caller EXCEPT ![c] = [Idle EXCEPT !.pc = "removing", !.removes = TRUE,
                                              !.left = {id \in Ids : Running(id)}]]
        /\ UNCHANGED <<jobs, table, done>>
     \/ /\ caller[c].pc = "removing" /\ caller[c].left = {}
        /\ table' = [id \in Ids |-> [n \in Generations |-> "none"]]
        /\ caller' = [caller EXCEPT ![c].pc = "deleting"]
        /\ UNCHANGED <<jobs, done>>
     \/ /\ caller[c].pc = "deleting"
        /\ jobs' = [id \in Ids |-> Absent]
        /\ Frees(c)
        /\ UNCHANGED <<table, done>>
  /\ UNCHANGED <<fiber, told>>

CancelsNext(c) ==
  /\ caller[c].pc = "removing"
  /\ \E id \in caller[c].left : CancelInternal(c, id, FALSE)

-----------------------------------------------------------------------------

Fibers == \E id \in Ids, g \in Generations : RunEnds(id, g) \/ Settle(id, g)

\* A call goes on.
Continues(c) ==
  \/ Released(c) \/ RemoveBlock(c) \/ ScopeCloses(c) \/ CancelsNext(c)
  \/ caller[c].pc = "cancelling" /\ Cancel(c, caller[c].id)
  \/ caller[c].pc \in {"removing", "deleting"} /\ CancelSession(c)

-----------------------------------------------------------------------------
(* Properties *)

JobTypeOK ==
  /\ jobs \in [Ids -> [gen: 0..MaxStarts, status: Terminal \cup {"running", "absent"},
                       blockers: Nat, backgrounded: BOOLEAN,
                       notification: 0..MaxStarts]]
  /\ table \in [Ids -> [Generations -> Terminal \cup {"running", "none"}]]
  /\ fiber \in [Ids -> [Generations -> [exit: Exits \cup {"none", "running", "dead"}, settled: BOOLEAN]]]
  /\ done \in [Ids -> [Generations -> [status: Terminal \cup {"none"}, notification: 0..MaxStarts]]]
  /\ told \in [Ids -> [Generations -> 0..MaxStarts]]

\* What a job is said to have done is what its own run did: neither a fiber of
\* an older generation, which cancellation leaves running for a while, nor a
\* replacement settles it, and the waiters heard what the entry says.
OutcomeIsItsOwn ==
  \A id \in Ids :
    /\ \A g \in Generations :
         done[id][g].status = "completed" => fiber[id][g].exit = done[id][g].status
    /\ Finished(id) => done[id][jobs[id].gen].status = jobs[id].status

\* Only what a call is still blocked on counts as blocking: a call that was
\* answered or interrupted, whatever replaced its job meanwhile, leaves nothing
\* behind for backgroundAll to move to the background.
BlockersAreReal ==
  \A id \in Ids :
    jobs[id].blockers <=
      Cardinality({c \in Callers : /\ caller[c].id = id /\ caller[c].gen = jobs[id].gen
                                   /\ caller[c].pc \in {"blocked", "unblocking", "releasing", "abandoning"}})

\* A blocked call returns when its job has ended or was moved to the background,
\* although the ID may have been started again by then - unless the Session's
\* removal forgot the job before it settled.
BlockersReturn ==
  \A c \in Callers, id \in Ids :
    LET waits == caller[c].pc = "blocked" /\ caller[c].id = id
        forgotten == ~Present(id) \/ jobs[id].gen # caller[c].gen
    IN  waits ~> (~waits \/ (forgotten /\ done[id][caller[c].gen] = Unresolved))
===============================================================================
