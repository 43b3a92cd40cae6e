------------------------------- MODULE Subagents -------------------------------
(***************************************************************************)
(* Child Sessions as jobs of their parent: the subagent tool               *)
(* (tool/plugin/subagent.ts), the observers that report a job which was    *)
(* moved to the background (session/subagent-job.ts,                       *)
(* session/subagent-completion.ts) and the recovery of the job rows when   *)
(* the server starts (session/execution/restart.ts), over the registry of  *)
(* module Job.                                                             *)
(*                                                                         *)
(* A job's ID is its child's Session ID: a call that continues a child     *)
(* joins the job if it runs and replaces it otherwise.  The child's own    *)
(* execution is what the job runs, and ends as RunEnds says.               *)
(***************************************************************************)
EXTENDS Job

CONSTANTS
  MaxCrashes,  \* bound: deaths of the process
  Stoppers     \* the callers that stop or remove a Session, rather than call the tool

ASSUME CrashesAssumption == MaxCrashes \in Nat
ASSUME StoppersAssumption == Stoppers \subseteq Callers

VARIABLES
  observer,  \* the fibers that wait for a job and report it, by what forked them
  notices,   \* child -> notifications whose message is in the parent's inbox;
             \* 0 is a message without a notification
  promised,  \* child -> notifications of which a call said "You will be notified"
  sweep,     \* the recovery of the rows after a start
  removal,   \* how far Session.remove got
  crashes

reportVars == <<observer, notices, promised>>
subagentVars == <<jobVars, reportVars, sweep, removal, crashes>>

\* notifications of SubagentJob holds (child, generation): <<"call", id, g>>.
\* The sweep forks an observer for a row: <<"sweep", id, n>>.
ObserverKeys == {"call", "sweep"} \X Ids \X Generations
NoObserver == [pc |-> "none", gen |-> 0, notification |-> 0]
Resting == [pc |-> "rest", left |-> {}, id |-> "none", notification |-> 0]

SubagentInit ==
  /\ JobInit
  /\ observer = [o \in ObserverKeys |-> NoObserver]
  /\ notices = [id \in Ids |-> {}]
  /\ promised = [id \in Ids |-> {}]
  /\ sweep = Resting
  /\ removal = "no"
  /\ crashes = 0

-----------------------------------------------------------------------------
(* Observers *)

\* wait, as far as it gets at once: nothing to wait for, the outcome of a
\* finished job, or the end of whatever generation the ID has now.
Looking(o, id) ==
  IF ~Present(id) THEN NoObserver
  ELSE IF Running(id) THEN [pc |-> "waiting", gen |-> jobs[id].gen, notification |-> 0]
  ELSE [pc |-> "delivering", gen |-> jobs[id].gen,
        notification |-> IF o[1] = "sweep" THEN o[3] ELSE jobs[id].notification]

Observes(o) ==
  LET ended == done[o[2]][observer[o].gen]
  IN  /\ observer[o].pc = "waiting" /\ ended # Unresolved
      /\ observer' = [observer EXCEPT ![o].pc = "delivering",
                        ![o].notification = IF o[1] = "sweep" THEN o[3] ELSE ended.notification]
      /\ UNCHANGED <<jobVars, notices, promised, sweep, removal, crashes>>

\* deliver: the notification ID is the message's ID, so a message that is there
\* already is not admitted again.  A parent that is gone takes no message.
Admits(id, n) == notices' = IF removal = "gone" THEN notices ELSE [notices EXCEPT ![id] = @ \cup {n}]

Delivers(o) ==
  /\ observer[o].pc = "delivering"
  /\ Admits(o[2], observer[o].notification)
  /\ observer' = IF observer[o].notification = 0 \/ removal = "gone" THEN [observer EXCEPT ![o] = NoObserver]
                 ELSE [observer EXCEPT ![o].pc = "acknowledging"]
  /\ UNCHANGED <<jobVars, promised, sweep, removal, crashes>>

Acknowledges(o) ==
  /\ observer[o].pc = "acknowledging"
  /\ CompleteBackground(o[2], observer[o].notification)
  /\ observer' = [observer EXCEPT ![o] = NoObserver]
  /\ UNCHANGED <<caller, notices, promised, sweep, removal, crashes>>

ObserverStep(o) == Observes(o) \/ Delivers(o) \/ Acknowledges(o)

-----------------------------------------------------------------------------
(* The tool *)

\* A call prompts the child and starts its job, or joins it.
CallStarts(c, id) ==
  /\ c \notin Stoppers /\ caller[c].pc = "free" /\ removal # "gone"
  /\ Start(id, 0)
  /\ \E pc \in {"entering", "handing"} : Goes(c, pc, id, jobs'[id].gen)
  /\ UNCHANGED <<table, done, told, reportVars, sweep, removal, crashes>>

\* In the foreground it blocks on the job,
Enters(c) ==
  /\ caller[c].pc = "entering"
  /\ Block(c, caller[c].id)
  /\ UNCHANGED <<reportVars, sweep, removal, crashes>>

\* in the background it hands it over.  When the entry is gone by then, because
\* its notice is in the inbox already or its Session is removed, the call answers
\* all the same that it will be notified: of what the job it started told.
HandsOver(c) ==
  LET id == caller[c].id
  IN  /\ caller[c].pc = "handing"
      /\ Background(id)
      /\ \/ /\ Present(id)
            /\ Goes(c, "backgrounded", id, jobs[id].gen) /\ UNCHANGED promised
         \/ /\ ~Present(id)
            /\ Frees(c)
            /\ promised' = [promised EXCEPT ![id] = @ \cup ({told[id][caller[c].gen]} \ {0})]
      /\ UNCHANGED <<observer, notices, sweep, removal, crashes>>

\* Mutant: a child that was ever observed is not observed again.
UnobservedChild(id, g) == \A h \in Generations : observer[<<"call", id, h>>].pc = "none"
\* notifications does not have the key.
Unobserved(id, g) == observer[<<"call", id, g>>].pc = "none"

\* notify, once per child and generation; the call answers that it will.
Notifies(c) ==
  LET id == caller[c].id   g == caller[c].gen   o == <<"call", id, g>>
  IN  /\ caller[c].pc = "backgrounded"
      /\ observer' = IF Unobserved(id, g) THEN [observer EXCEPT ![o] = Looking(o, id)] ELSE observer
      /\ promised' = [promised EXCEPT ![id] = @ \cup {told[id][g]}]
      /\ Frees(c)
      /\ UNCHANGED <<jobs, table, fiber, done, told, notices, sweep, removal, crashes>>

\* The parent's turn is interrupted.  Only a blocked call stops the child.
CallInterrupted(c) ==
  /\ \/ BlockInterrupted(c)
     \/ /\ caller[c].pc \in {"entering", "handing", "backgrounded"}
        /\ Frees(c)
        /\ UNCHANGED <<jobs, table, fiber, done, told>>
  /\ UNCHANGED <<reportVars, sweep, removal, crashes>>

\* A client moves what the parent is blocked on to the background.
MovesToBackground ==
  /\ BackgroundAll
  /\ UNCHANGED <<reportVars, sweep, removal, crashes>>

\* A stopped child settles: its job is cancelled, whoever waits for it.
StopsChild(c, id) ==
  /\ c \in Stoppers /\ caller[c].pc = "free"
  /\ Cancel(c, id)
  /\ UNCHANGED <<reportVars, sweep, removal, crashes>>

\* Session.remove.  (A bound: no Session is removed in a behaviour with a crash.)
Removes(c) ==
  /\ c \in Stoppers /\ caller[c].pc = "free" /\ removal = "no" /\ crashes = 0
  /\ CancelSession(c)
  /\ removal' = "going"
  /\ UNCHANGED <<reportVars, sweep, crashes>>

\* A call in the registry goes on; the removal ends with its last step.
CallContinues(c) ==
  /\ Continues(c)
  /\ removal' = IF caller[c].pc = "deleting" THEN "gone" ELSE removal
  /\ UNCHANGED <<reportVars, sweep, crashes>>

CallStep(c) == Enters(c) \/ HandsOver(c) \/ Notifies(c) \/ CallContinues(c)

-----------------------------------------------------------------------------
(* The process dies, and the next one sweeps the rows *)

Dead(f) == IF f.exit = "none" THEN f ELSE [exit |-> "dead", settled |-> TRUE]

Crash ==
  /\ crashes < MaxCrashes /\ removal = "no"
  /\ crashes' = crashes + 1
  /\ jobs' = [id \in Ids |-> Absent]
  /\ fiber' = [id \in Ids |-> [g \in Generations |-> Dead(fiber[id][g])]]
  /\ done' = [id \in Ids |-> [g \in Generations |-> Unresolved]]
  /\ told' = [id \in Ids |-> [g \in Generations |-> 0]]
  /\ caller' = [c \in Callers |-> Idle]
  /\ observer' = [o \in ObserverKeys |-> NoObserver]
  /\ sweep' = [Resting EXCEPT !.pc = "listing"]
  /\ UNCHANGED <<table, notices, promised, removal>>

\* The sweep goes on with the row it took, or to the next one.
Swept(pc) == sweep' = [sweep EXCEPT !.pc = pc]
NextRow == sweep' = [Resting EXCEPT !.pc = "rows", !.left = sweep.left]

\* pendingBackground: the rows, with the status they have now.
SweepLists ==
  /\ sweep.pc = "listing"
  /\ sweep' = [sweep EXCEPT !.pc = "rows",
                 !.left = {<<id, n, table[id][n]>> : id \in Ids, n \in Generations} \ (Ids \X Generations \X {"none"})]
  /\ UNCHANGED <<jobVars, reportVars, removal, crashes>>

\* A row of a job that runs again is passed over, one whose job had ended is
\* told, and one whose job was running is recovered - unless the child is active
\* on its own, or has no attempts left.
SweepRow ==
  /\ sweep.pc = "rows"
  /\ \E row \in sweep.left :
       LET id == row[1]   n == row[2]   status == row[3]
           takes(pc) == sweep' = [pc |-> pc, left |-> sweep.left \ {row}, id |-> id, notification |-> n]
       IN  \/ (Running(id) \/ status = "running") /\ sweep' = [sweep EXCEPT !.left = @ \ {row}]
           \/ ~Running(id) /\ takes("telling")
           \/ ~Running(id) /\ status = "running" /\ takes("resuming")
  /\ UNCHANGED <<jobVars, reportVars, removal, crashes>>

SweepTells ==
  /\ sweep.pc = "telling"
  /\ Admits(sweep.id, sweep.notification)
  /\ Swept("acknowledging")
  /\ UNCHANGED <<jobVars, observer, promised, removal, crashes>>

SweepAcknowledges ==
  /\ sweep.pc = "acknowledging"
  /\ CompleteBackground(sweep.id, sweep.notification)
  /\ NextRow
  /\ UNCHANGED <<caller, reportVars, removal, crashes>>

\* The recovered job takes the row's notification, unless a call started the
\* child meanwhile: then it is that job.
SweepStarts ==
  /\ sweep.pc = "resuming"
  /\ Start(sweep.id, sweep.notification)
  /\ Swept("marking")
  /\ UNCHANGED <<table, done, told, caller, reportVars, removal, crashes>>

SweepMarks ==
  /\ sweep.pc = "marking"
  /\ Background(sweep.id)
  /\ Swept("watching")
  /\ UNCHANGED <<caller, reportVars, removal, crashes>>

SweepWatches ==
  LET o == <<"sweep", sweep.id, sweep.notification>>
  IN  /\ sweep.pc = "watching"
      /\ observer' = [observer EXCEPT ![o] = Looking(o, sweep.id)]
      /\ NextRow
      /\ UNCHANGED <<jobVars, notices, promised, removal, crashes>>

SweepEnds ==
  /\ sweep.pc = "rows" /\ sweep.left = {}
  /\ sweep' = Resting
  /\ UNCHANGED <<jobVars, reportVars, removal, crashes>>

SweepStep ==
  \/ SweepLists \/ SweepRow \/ SweepTells \/ SweepAcknowledges
  \/ SweepStarts \/ SweepMarks \/ SweepWatches \/ SweepEnds

-----------------------------------------------------------------------------

FiberStep == Fibers /\ UNCHANGED <<reportVars, sweep, removal, crashes>>

BackgroundStep == FiberStep \/ SweepStep \/ \E o \in ObserverKeys : ObserverStep(o)

SubagentNext ==
  \/ BackgroundStep
  \/ \E c \in Callers :
       \/ CallStep(c) \/ CallInterrupted(c) \/ Removes(c)
       \/ \E id \in Ids : CallStarts(c, id) \/ StopsChild(c, id)
  \/ MovesToBackground
  \/ Crash

SubagentSpec == SubagentInit /\ [][SubagentNext]_subagentVars

\* Children end and fibers settle, observers and the sweep go on, and so do
\* calls.  A generation, an observer and a sweep have finitely many steps: it is
\* enough that calls do not starve them as a whole.
FairSubagents ==
  /\ SubagentSpec
  /\ WF_subagentVars(BackgroundStep)
  /\ WF_subagentVars(\E c \in Callers : CallStep(c))

-----------------------------------------------------------------------------
(* Properties *)

SubagentTypeOK ==
  /\ JobTypeOK
  /\ observer \in [ObserverKeys -> [pc: {"none", "waiting", "delivering", "acknowledging"},
                                    gen: 0..MaxStarts, notification: 0..MaxStarts]]
  /\ notices \in [Ids -> SUBSET (0..MaxStarts)]
  /\ promised \in [Ids -> SUBSET Generations]
  /\ sweep.pc \in {"rest", "listing", "rows", "telling", "acknowledging", "resuming", "marking", "watching"}
  /\ removal \in {"no", "going", "gone"}
  /\ crashes \in 0..MaxCrashes

\* A job that was moved to the background is owned by a row, from before its
\* caller is released until its notice is in the parent's inbox, and the row says
\* how it ended once it ended by itself: a crash loses neither the job nor its
\* result.  Only a Session's removal deletes rows first.
OwnershipIsDurable ==
  removal = "no" =>
    \A id \in Ids :
      LET row == table[id][jobs[id].notification]
      IN  jobs[id].backgrounded =>
            /\ jobs[id].notification # 0
            /\ \/ jobs[id].notification \in notices[id]
               \/ row # "none" /\ (jobs[id].status = "completed" => row = jobs[id].status)

\* A call that answered "You will be notified automatically when it finishes"
\* told the truth: until the notice is in the parent's inbox a row stands for it,
\* through backgrounding, replacement by a continuation, crashes and the sweep.
PromiseKept ==
  removal = "no" =>
    \A id \in Ids : \A n \in promised[id] : table[id][n] # "none" \/ n \in notices[id]

\* ... and within one process the notice comes: no child stays the entry of a job
\* whose end was promised.  Starting the child again before its observer looked
\* is the one way to lose the notice until the next start of the server.
PromiseReported ==
  \A id \in Ids :
    LET awaited == Present(id) /\ jobs[id].notification \in promised[id]
    IN  awaited ~> (~awaited \/ removal # "no")
================================================================================
