----------------------------- MODULE ScheduleProofs -----------------------------
(***************************************************************************)
(* Proofs about Schedule for any servers, plans and bounds.                *)
(*                                                                         *)
(* The properties of Schedule follow from Inv, which is inductive.  Some   *)
(* of it holds whatever happens to the lease; the rest, InvAlone, until a  *)
(* stalled leader is overtaken in its tick: one server ticks at a time, so *)
(* what it read of the row stays true but for what clients do; the run     *)
(* counter names the message of a firing; and every slot prompted for lies *)
(* before the next one, but for runs whose record was lost.                *)
(***************************************************************************)
EXTENDS Schedule, TLAPS

-----------------------------------------------------------------------------
(* The inductive invariant *)

\* A server whose loop is between its claim and the end of its tick, one that is at
\* work on the row it read, and one that has prompted and not recorded.
Ticks == Ticking \cup {"after"}
Works == {"step", "look", "skip", "check", "prompt", "waking", "record"}
Admitted == {"waking", "record"}

\* Who ticks, or believes to lead, holds the lease.
LeaseHeld ==
  \A s \in Servers : server[s].pc \in Ticks \/ server[s].leading => lease = s

\* One server ticks, or none.
Alone == \A s, t \in Servers : server[s].pc \in Ticking /\ server[t].pc \in Ticking => s = t

\* Two rows were created alike.
SamePlan(r, q) ==
  r.once = q.once /\ r.mode = q.mode /\ r.times = q.times /\ r.ends = q.ends

\* A schedule that waits for a slot has runs left.
RunsLeft(r) == r.times # 0 /\ r.due # 0 => r.remaining >= 1

\* What a server read was an active row that was due, created like the one there is.
ReadPlanned(s) ==
  LET read == server[s].row
  IN  /\ server[s].now <= now
      /\ server[s].pc \in Works =>
           /\ read.due # 0 /\ read.due <= server[s].now /\ read.run < MaxRuns
           /\ RunsLeft(read)
           /\ row.status # "absent" /\ row.mode = read.mode
           /\ Stored => SamePlan(row, read)
      /\ server[s].pc \in Works \ {"step", "look", "skip"} /\ server[s].kind = "strike" =>
           read.mode # "none"
      /\ server[s].pc = "check" => read.mode # "none"

\* While no other server writes the row, its counters stay as they were read, and
\* its slot moves only on, though clients pause, resume and remove it.
ReadHolds(s) ==
  server[s].pc \in Works /\ Stored =>
    /\ row.run = server[s].row.run /\ row.remaining = server[s].row.remaining
    /\ row.due # 0 => server[s].row.due <= row.due

\* The messages a row with this run counter may have used up; those whose record
\* was lost aside.
UsedUpTo(messages, n) == \A r \in RunNumbers : messages[r] # "none" => r <= n
KnownUpTo(messages, missing, n) == \A r \in RunNumbers \ missing : messages[r] # "none" => r <= n

\* Message IDs follow the run counter: beyond it there is at most the prompt
\* whose record is on its way, or was lost.
MessagesNumbered ==
  /\ \A r \in RunNumbers : slot[r] # 0 => message[r] # "none"
  /\ row.status = "absent" => UsedUpTo(message, 0)
  /\ Stored => UsedUpTo(message, row.run + 1)
  /\ Stored /\ (\A s \in Servers : server[s].pc \notin Admitted) => KnownUpTo(message, lost, row.run)
  /\ \A s \in Servers : server[s].pc \in Works => UsedUpTo(message, server[s].row.run + 1)
  /\ \A s \in Servers : server[s].pc \in Works \ Admitted => KnownUpTo(message, lost, server[s].row.run)

\* A row that fires, or will when it resumes.
Goes(r) == r.status \in {"active", "paused"} /\ r.due # 0

\* The slots prompted for lie before r's next one; only the run that comes next
\* may have been prompted for that slot already, or, when a check may have hidden
\* it, one whose record was lost.
SlotsBefore(r) ==
  \A q \in RunNumbers :
    slot[q] <= r.due /\ (slot[q] = r.due => q = r.run + 1 \/ (q \in lost /\ r.mode # "none"))

\* Slots prompted for lie before the row's, before those of the servers at work,
\* and are all different but for those; a strike takes none.
SlotsOrdered ==
  /\ Goes(row) => SlotsBefore(row)
  /\ \A s \in Servers : server[s].pc \in Works => SlotsBefore(server[s].row)
  /\ \A s \in Servers :
       server[s].pc \in Admitted /\ server[s].kind = "strike" /\ RunOf(s) \notin lost =>
         slot[RunOf(s)] = 0
  /\ \A q, r \in RunNumbers :
       slot[q] = slot[r] /\ slot[q] # 0 /\ q # r => row.mode # "none" /\ {q, r} \cap lost # {}

\* What holds until a stalled leader is overtaken in its tick.
InvAlone ==
  /\ Alone
  /\ \A s \in Servers : ReadHolds(s)
  /\ MessagesNumbered
  /\ SlotsOrdered

\* The inductive invariant.
Inv ==
  /\ ScheduleTypeOK
  /\ RunsLeft(row)
  /\ \A s \in Servers : ReadPlanned(s)
  /\ stalls = 0 => LeaseHeld
  /\ ~overtaken => InvAlone

-----------------------------------------------------------------------------
(* Types *)

\* The row before it is created, and what a removed one leaves, is a row.
LEMMA NoRowType == NoRow \in Rows
BY BoundsAssumption DEF NoRow, Rows, Modes, Slots

\* What a server remembers at its start has its type.
LEMMA BootsType == Boots \in ServerState
BY BoundsAssumption, NoRowType DEF Boots, ServerState

\* The slot after a time of the clock, where there is one.
LEMMA FollowingType ==
  ASSUME NEW r \in Rows, NEW t \in 0..MaxSlots
  PROVE  /\ Following(r, t) \in {0} \cup Slots
         /\ Following(r, t) = 0 <=> r.once
         /\ Following(r, t) # 0 => Following(r, t) > t
BY BoundsAssumption DEF Following, Slots, Rows

\* A step of the loop that only moves on.
LEMMA StepsType ==
  ASSUME ScheduleTypeOK, NEW s \in Servers,
         NEW pc \in Ticking, Steps(s, pc)
  PROVE  /\ server' \in [Servers -> ServerState]
         /\ server' = [server EXCEPT ![s] = [server[s] EXCEPT !.pc = pc]]
BY DEF Steps, ScheduleTypeOK, ServerState

\* A tick that is over.
LEMMA LeavesType ==
  ASSUME ScheduleTypeOK, NEW s \in Servers, Leaves(s)
  PROVE  /\ server' \in [Servers -> ServerState]
         /\ \A u \in Servers : u # s => server'[u] = server[u]
         /\ server'[s].pc = "after" /\ server'[s].leading = server[s].leading /\ server'[s].now = 0
<1>1. 0 \in 0..MaxSlots
  BY BoundsAssumption
<1>2. server[s] \in ServerState /\ server \in [Servers -> ServerState]
  BY DEF ScheduleTypeOK
<1>3. [server[s] EXCEPT !.pc = "after", !.now = 0, !.row = NoRow, !.kind = "none"] \in ServerState
  BY <1>1, <1>2, NoRowType DEF ServerState
<1> QED BY <1>2, <1>3 DEF Leaves, ServerState

\* A write of the tick leaves a row behind, if it writes one.
LEMMA UpdateType ==
  ASSUME ScheduleTypeOK, NEW values \in Rows, Update(values),
         values.status = "active" => values.due # 0
  PROVE  row' \in Rows /\ (row'.status = "active" => row'.due # 0)
BY DEF Update, ScheduleTypeOK

\* What a server has admitted and not recorded is a run of the row.
LEMMA UnrecordedType == ASSUME Inv, NEW s \in Servers PROVE Unrecorded(s) \subseteq RunNumbers
<1>1. ReadPlanned(s) /\ server[s].row \in Rows
  BY DEF Inv, ScheduleTypeOK, ServerState
<1>2. server[s].pc \in Admitted => server[s].row.run + 1 \in 1..MaxRuns
  BY <1>1, BoundsAssumption DEF ReadPlanned, Works, Admitted, Rows
<1> QED BY <1>2 DEF Unrecorded, RunOf, Admitted, RunNumbers

\* Clients keep the types.
LEMMA ClientsType == ASSUME Inv, Clients PROVE ScheduleTypeOK'
<1> USE BoundsAssumption DEF Inv, ScheduleTypeOK, histories
<1>1. CASE Pause
  BY <1>1 DEF Pause, Rows
<1>2. CASE Resume
  <2>1. row.once \/ now + 1 \in Slots
    BY DEF Slots
  <2>2. row' \in Rows /\ (row'.status = "active" => row'.due # 0)
    <3> DEFINE skipped == IF row.once THEN row.due ELSE now + 1
               next == IF row.due > now THEN row.due ELSE skipped
               done == row.due = 0 \/ Finished(row, next, row.remaining)
    <3>1. next \in {0} \cup Slots /\ (next = 0 => done)
      BY <2>1 DEF Finished, Rows, Slots
    <3>2. row' = [row EXCEPT !.status = IF done THEN "done" ELSE "active",
                             !.due = IF done THEN 0 ELSE next, !.failures = 0, !.retry = FALSE]
      BY <1>2 DEF Resume
    <3>3. CASE done
      BY <3>2, <3>3 DEF Rows
    <3>4. CASE ~done
      <4> HIDE DEF next, done
      <4> QED BY <3>1, <3>2, <3>4 DEF Rows
    <3> QED BY <3>3, <3>4
  <2> QED BY <1>2, <2>2 DEF Resume
<1>3. CASE RemoveRow
  BY <1>3, NoRowType DEF RemoveRow, Rows, NoRow
<1>4. ASSUME NEW plan \in Plans, Create(plan) PROVE ScheduleTypeOK'
  <2>1. plan \in [once : BOOLEAN, mode : Modes, times : Nat, ends : Nat]
    BY PlansAssumption
  <2>2. (now + 1)..(IF plan.once THEN MaxSlots ELSE now + 1) \subseteq Slots
    BY DEF Slots
  <2>3. ASSUME NEW due \in (now + 1)..(IF plan.once THEN MaxSlots ELSE now + 1)
        PROVE  due \in Slots /\ due # 0
    BY <2>2 DEF Slots
  <2>4. ASSUME NEW due \in Slots, due # 0,
               row' = [NoRow EXCEPT !.once = plan.once, !.mode = plan.mode, !.times = plan.times,
                         !.ends = plan.ends, !.status = "active", !.due = due, !.remaining = plan.times]
        PROVE  row' \in Rows /\ row'.due # 0
    BY <2>1, <2>4, NoRowType DEF Rows
  <2>5. ASSUME row' = [NoRow EXCEPT !.mode = "until", !.status = "done", !.run = 1], plan.mode = "until"
        PROVE  row' \in Rows /\ row'.status = "done"
    <3>1. 1 \in 0..MaxRuns /\ "until" \in Modes
      BY DEF Modes
    <3> QED BY <2>5, <3>1, NoRowType DEF Rows
  <2>6. row' \in Rows /\ (row'.status = "active" => row'.due # 0)
    BY <1>4, <2>3, <2>4, <2>5 DEF Create
  <2> QED BY <1>4, <2>6 DEF Create
<1> QED BY <1>1, <1>2, <1>3, <1>4 DEF Clients

\* Every step of a server's loop keeps the types.
LEMMA LoopsType == ASSUME Inv, NEW s \in Servers, Loops(s) PROVE ScheduleTypeOK'
<1> USE BoundsAssumption
<1> DEFINE read == server[s].row
           next == Following(read, server[s].now)
<1>a. ScheduleTypeOK /\ ReadPlanned(s) /\ row \in Rows /\ (row.status = "active" => row.due # 0)
  BY DEF Inv, ScheduleTypeOK
<1>0. /\ read \in Rows /\ server[s].now \in 0..MaxSlots
      /\ next \in {0} \cup Slots /\ (next = 0 => read.once)
  BY <1>a, FollowingType DEF ScheduleTypeOK, ServerState
<1>b. read.failures + 1 \in Nat
  BY <1>0 DEF Rows
<1>c. "loop" \notin Ticking /\ Ticking \subseteq Ticking \cup {"loop", "claim", "after"}
  BY DEF Ticking
<1>1. CASE LoopBegins(s)
  <2>1. HasActiveRows \in BOOLEAN
    BY DEF HasActiveRows
  <2>2. server[s] \in ServerState /\ now \in 0..MaxSlots
    BY <1>a DEF ScheduleTypeOK
  <2>3. /\ [server[s] EXCEPT !.leading = FALSE] \in ServerState
        /\ [server[s] EXCEPT !.pc = "claim", !.active = HasActiveRows, !.now = now] \in ServerState
    BY <2>1, <2>2 DEF ServerState
  <2>4. server' \in [Servers -> ServerState]
    BY <1>a, <1>1, <2>3 DEF LoopBegins, ScheduleTypeOK
  <2> QED BY <1>a, <1>1, <2>4 DEF LoopBegins, Released, ScheduleTypeOK, histories
<1>2. CASE Claim(s)
  <2>1. server' \in [Servers -> ServerState]
    <3>1. AfterClaim(s) \in Ticking \cup {"after"}
      BY DEF AfterClaim, Ticking
    <3>2. server[s] \in ServerState /\ [Boots EXCEPT !.bootChecked = TRUE] \in ServerState
      BY <1>a, BootsType DEF ScheduleTypeOK, ServerState
    <3>3. [server[s] EXCEPT !.pc = AfterClaim(s), !.leading = TRUE, !.bootChecked = TRUE] \in ServerState
      BY <3>1, <3>2 DEF ServerState
    <3> QED BY <1>a, <1>2, <3>2, <3>3 DEF Claim, ScheduleTypeOK
  <2>2. (overtaken \/ \E t \in Servers \ {s} : server[t].pc \in Ticking) \in BOOLEAN
    BY <1>a DEF ScheduleTypeOK
  <2> QED BY <1>a, <1>2, <2>1, <2>2 DEF Claim, ScheduleTypeOK, histories
<1>3. CASE Rewake(s)
  <2>1. server' \in [Servers -> ServerState]
    BY <1>a, <1>3, StepsType, LeavesType DEF Rewake, Ticking
  <2> QED BY <1>a, <1>3, <2>1 DEF Rewake, ScheduleTypeOK, histories
<1>4. CASE Tick(s)
  <2>1. server' \in [Servers -> ServerState]
    BY <1>a, <1>4, LeavesType DEF Tick, ScheduleTypeOK, ServerState, Ticking
  <2> QED BY <1>a, <1>4, <2>1 DEF Tick, ScheduleTypeOK, histories
<1>5. CASE TickEnds(s)
  BY <1>a, <1>5, BootsType DEF TickEnds, Released, ScheduleTypeOK, ServerState, HasActiveRows, histories
<1>6. CASE Step(s)
  <2>1. server' \in [Servers -> ServerState] /\ lease' \in Servers \cup {"none", "dead"}
    BY <1>a, <1>6, StepsType, LeavesType DEF Step, Ticking, ScheduleTypeOK
  <2> QED BY <1>a, <1>6, <2>1 DEF Step, ScheduleTypeOK, histories
<1>11. CASE Look(s)
  <2>1. server' \in [Servers -> ServerState] /\ awake' \subseteq Servers
    BY <1>a, <1>11, StepsType, LeavesType DEF Look, Ticking, ScheduleTypeOK, ServerState
  <2>2. row' \in Rows /\ (row'.status = "active" => row'.due # 0)
    BY <1>a, <1>11 DEF Look, Update, Rows
  <2> QED BY <1>a, <1>11, <2>1, <2>2 DEF Look, ScheduleTypeOK, histories
<1>12. CASE Skip(s)
  <2> DEFINE done == Finished(read, next, read.remaining)
  <2>1. next = 0 => done
    BY DEF Finished
  <2>2. \/ Update([row EXCEPT !.retry = FALSE, !.status = "done", !.due = 0])
        \/ next # 0 /\ Update([row EXCEPT !.retry = FALSE, !.status = "active", !.due = next])
    BY <1>12, <2>1 DEF Skip
  <2>3. row' \in Rows /\ (row'.status = "active" => row'.due # 0)
    <3> HIDE DEF next
    <3>1. CASE Update([row EXCEPT !.retry = FALSE, !.status = "done", !.due = 0])
      BY <1>a, <3>1 DEF Update, Rows
    <3>2. CASE next # 0 /\ Update([row EXCEPT !.retry = FALSE, !.status = "active", !.due = next])
      BY <1>a, <1>0, <3>2 DEF Update, Rows
    <3> QED BY <2>2, <3>1, <3>2
  <2>4. server' \in [Servers -> ServerState]
    BY <1>a, <1>12, LeavesType DEF Skip
  <2> QED BY <1>a, <1>12, <2>3, <2>4 DEF Skip, ScheduleTypeOK, histories
<1>7. CASE Check(s)
  <2> DEFINE ended == next = 0 \/ (read.ends # 0 /\ next > read.ends)
  <2>2. server' \in [Servers -> ServerState]
    BY <1>a, <1>7, LeavesType DEF Check, ScheduleTypeOK, ServerState, Ticking
  <2>3. row' \in Rows /\ (row'.status = "active" => row'.due # 0)
    <3>0. next = 0 => ended
      OBVIOUS
    <3>1. \/ UNCHANGED row
          \/ Update([row EXCEPT !.failures = read.failures + 1, !.retry = TRUE])
          \/ Update([row EXCEPT !.failures = 0, !.retry = FALSE, !.status = "done", !.due = 0])
          \/ next # 0 /\ Update([row EXCEPT !.failures = 0, !.retry = FALSE, !.status = @, !.due = next])
      BY <1>7, <3>0 DEF Check
    <3> HIDE DEF next
    <3>2. CASE Update([row EXCEPT !.failures = read.failures + 1, !.retry = TRUE])
      <4> DEFINE failures == read.failures + 1
      <4> HIDE DEF failures
      <4> QED BY <1>a, <1>b, <3>2 DEF Update, Rows, failures
    <3>3. CASE Update([row EXCEPT !.failures = 0, !.retry = FALSE, !.status = "done", !.due = 0])
      BY <1>a, <3>3 DEF Update, Rows
    <3>4. CASE next # 0 /\ Update([row EXCEPT !.failures = 0, !.retry = FALSE, !.status = @, !.due = next])
      BY <1>a, <1>0, <3>4 DEF Update, Rows
    <3> QED BY <1>a, <3>1, <3>2, <3>3, <3>4
  <2> QED BY <1>a, <1>7, <2>2, <2>3 DEF Check, ScheduleTypeOK, histories
<1>8. CASE StepFails(s)
  <2>1. server' \in [Servers -> ServerState]
    BY <1>a, <1>8, LeavesType DEF StepFails
  <2>2. row' \in Rows /\ (row'.status = "active" => row'.due # 0)
    BY <1>a, <1>8, UpdateType DEF StepFails, Rows
  <2>3. Unrecorded(s) \subseteq RunNumbers
    BY UnrecordedType
  <2> QED BY <1>a, <1>8, <2>1, <2>2, <2>3 DEF StepFails, ScheduleTypeOK
<1>9. CASE Prompt(s)
  <2>1. server' \in [Servers -> ServerState]
    BY <1>a, <1>9, StepsType DEF Prompt, Ticking
  <2>2. /\ message' \in [RunNumbers -> {"none", "pending", "delivered"}]
        /\ slot' \in [RunNumbers -> {0} \cup Slots]
    BY <1>a, <1>0, <1>9 DEF Prompt, ScheduleTypeOK, Rows
  <2> QED BY <1>a, <1>9, <2>1, <2>2 DEF Prompt, ScheduleTypeOK, histories
<1>13. CASE Wake(s)
  <2>1. server' \in [Servers -> ServerState]
    BY <1>a, <1>13, StepsType DEF Wake, Ticking
  <2> QED BY <1>a, <1>13, <2>1 DEF Wake, ScheduleTypeOK, histories
<1>10. CASE Record(s)
  <2> DEFINE remaining == IF read.times = 0 THEN 0 ELSE read.remaining - 1
             done == read.mode = "until" \/ Finished(read, next, remaining)
             ran == [row EXCEPT !.run = read.run + 1, !.last = read.run + 1, !.retry = FALSE]
  <2>1. remaining \in Nat /\ (next = 0 => done) /\ read.run + 1 \in 0..MaxRuns
    BY <1>a, <1>0, <1>10 DEF Record, ReadPlanned, RunsLeft, Works, Finished, Rows
  <2>2. server' \in [Servers -> ServerState]
    BY <1>a, <1>10, LeavesType DEF Record
  <2>3. row' \in Rows /\ (row'.status = "active" => row'.due # 0)
    <3>1. ran \in Rows /\ ran.status = row.status /\ ran.due = row.due
      BY <1>a, <2>1 DEF Rows
    <3> DEFINE fires(failures) == [ran EXCEPT !.failures = failures, !.remaining = remaining,
                                              !.status = "done", !.due = 0]
               goesOn(failures) == [ran EXCEPT !.failures = failures, !.remaining = remaining,
                                               !.status = @, !.due = next]
    <3>2. \/ UNCHANGED row
          \/ \E failures \in {0, ran.failures} :
               row' = fires(failures) \/ (next # 0 /\ row' = goesOn(failures))
          \/ row' = [ran EXCEPT !.failures = read.failures + 1, !.status = "paused"]
          \/ row' = [ran EXCEPT !.failures = 0, !.remaining = 0, !.status = "done", !.due = 0]
      BY <1>10, <2>1 DEF Record, RecordStored
    <3> HIDE DEF read, next, remaining, done, ran
    <3>0. ran.failures \in Nat
      BY <3>1 DEF Rows
    <3>3. ASSUME NEW failures \in Nat, row' = fires(failures)
          PROVE  row' \in Rows /\ row'.status = "done"
      BY <2>1, <3>1, <3>3 DEF Rows
    <3>4. ASSUME NEW failures \in Nat, next # 0, row' = goesOn(failures)
          PROVE  row' \in Rows /\ row'.due # 0
      BY <1>0, <2>1, <3>1, <3>4 DEF Rows
    <3>5. CASE row' = [ran EXCEPT !.failures = read.failures + 1, !.status = "paused"]
      BY <1>b, <3>1, <3>5 DEF Rows
    <3>6. CASE row' = [ran EXCEPT !.failures = 0, !.remaining = 0, !.status = "done", !.due = 0]
      BY <1>0, <2>1, <3>1, <3>6 DEF Rows
    <3> QED BY <1>a, <3>0, <3>2, <3>3, <3>4, <3>5, <3>6
  <2> QED BY <1>a, <1>10, <2>2, <2>3 DEF Record, ScheduleTypeOK, histories
<1> QED BY <1>1, <1>2, <1>3, <1>4, <1>5, <1>6, <1>7, <1>8, <1>9, <1>10, <1>11, <1>12, <1>13
     DEF Loops, Fires

\* Every step keeps the types.
LEMMA TypeStep == Inv /\ [ScheduleNext]_scheduleVars => ScheduleTypeOK'
<1> SUFFICES ASSUME Inv, [ScheduleNext]_scheduleVars PROVE ScheduleTypeOK'
  OBVIOUS
<1> USE BoundsAssumption
<1>a. ScheduleTypeOK
  BY DEF Inv
<1>1. CASE TimePasses \/ LeaseExpires \/ LeaseLapses \/ UNCHANGED scheduleVars
  BY <1>a, <1>1 DEF TimePasses, LeaseExpires, LeaseLapses, scheduleVars, histories, ScheduleTypeOK
<1>2. CASE RetryElapses
  BY <1>a, <1>2 DEF RetryElapses, ScheduleTypeOK, Rows, histories
<1>3. ASSUME NEW s \in Servers, Delivers(s) \/ Heartbeats(s) PROVE ScheduleTypeOK'
  BY <1>a, <1>3 DEF Delivers, Heartbeats, ScheduleTypeOK, histories
<1>4. ASSUME NEW s \in Servers, Exits(s) PROVE ScheduleTypeOK'
  BY <1>a, <1>4, BootsType, UnrecordedType DEF Exits, Released, ScheduleTypeOK
<1> QED BY <1>1, <1>2, <1>3, <1>4, ClientsType, LoopsType DEF ScheduleNext

-----------------------------------------------------------------------------
(* What the steps do to the row, and to what a server knows of it *)

\* The writes of a tick other than a record apply to an active row; they keep its
\* counters, and move its slot beyond the server's time or end it.
LEMMA TickWrites ==
  ASSUME Inv, NEW s \in Servers, Look(s) \/ Skip(s) \/ Check(s) \/ StepFails(s), row' # row
  PROVE  /\ row.status = "active" /\ SamePlan(row', row)
         /\ row'.run = row.run /\ row'.remaining = row.remaining
         /\ \/ row'.status = "done"
            \/ row'.status \in {"active", "paused"} /\ row'.due = row.due
            \/ row'.status = "active" /\ ~row'.once /\ row'.due > server[s].now
<1> USE BoundsAssumption
<1> DEFINE read == server[s].row
           next == Following(read, server[s].now)
<1>1. row \in Rows /\ read \in Rows /\ server[s].now \in 0..MaxSlots
  BY DEF Inv, ScheduleTypeOK, ServerState
<1>2. next # 0 => next > server[s].now /\ ~read.once
  BY <1>1, FollowingType
<1>6. row.status = "active" => row.once = read.once
  <2>1. ReadPlanned(s) /\ server[s].pc \in Works
    BY DEF Inv, Look, Skip, Check, StepFails, Works
  <2> QED BY <2>1 DEF ReadPlanned, SamePlan, Stored
<1>7. CASE Look(s)
  <2>1. row.status = "active" /\ row' = [row EXCEPT !.retry = TRUE]
    BY <1>7 DEF Look, Update
  <2> QED BY <1>1, <2>1 DEF Rows, SamePlan
<1>3. CASE Skip(s)
  <2> DEFINE done == Finished(read, next, read.remaining)
  <2>1. next = 0 => done
    BY DEF Finished
  <2>2. row.status = "active"
        /\ \/ row' = [row EXCEPT !.retry = FALSE, !.status = "done", !.due = 0]
           \/ next # 0 /\ row' = [row EXCEPT !.retry = FALSE, !.status = "active", !.due = next]
    BY <1>3, <2>1 DEF Skip, Update
  <2> HIDE DEF read, next
  <2> QED BY <1>1, <1>2, <1>6, <2>2, ZenonT(40) DEF Rows, SamePlan
<1>4. CASE Check(s)
  <2> DEFINE ended == next = 0 \/ (read.ends # 0 /\ next > read.ends)
  <2>1. next = 0 => ended
    OBVIOUS
  <2>2. row.status = "active"
        /\ \/ row' = [row EXCEPT !.failures = read.failures + 1, !.retry = TRUE]
           \/ row' = [row EXCEPT !.failures = 0, !.retry = FALSE, !.status = "done", !.due = 0]
           \/ next # 0 /\ row' = [row EXCEPT !.failures = 0, !.retry = FALSE, !.status = @, !.due = next]
    BY <1>4, <2>1 DEF Check, Update
  <2> HIDE DEF read, next
  <2> QED BY <1>1, <1>2, <1>6, <2>2, ZenonT(40) DEF Rows, SamePlan
<1>5. CASE StepFails(s)
  <2>1. row.status = "active"
        /\ \/ row' = [row EXCEPT !.status = "paused", !.retry = FALSE]
           \/ row' = [row EXCEPT !.retry = TRUE]
    BY <1>5 DEF StepFails, Update
  <2> QED BY <1>1, <2>1 DEF Rows, SamePlan
<1> QED BY <1>3, <1>4, <1>5, <1>7

\* A record advances the run counter it read of whatever row there still is.  A strike
\* pauses it at its slot; a firing leaves it done or with a later slot.
LEMMA RecordWrites ==
  ASSUME Inv, NEW s \in Servers, Record(s), Stored
  PROVE  /\ SamePlan(row', row) /\ row'.run = server[s].row.run + 1
         /\ \/ row'.status = "done" /\ row'.due = 0
            \/ /\ server[s].kind = "strike"
               /\ row'.status = "paused" /\ row'.due = row.due /\ row'.remaining = row.remaining
            \/ /\ row'.status = row.status /\ ~row'.once /\ row'.due > server[s].now
               /\ row'.times # 0 => row'.remaining >= 1
<1> USE BoundsAssumption
<1> DEFINE read == server[s].row
           next == Following(read, server[s].now)
           remaining == IF read.times = 0 THEN 0 ELSE read.remaining - 1
           done == read.mode = "until" \/ Finished(read, next, remaining)
           ran == [row EXCEPT !.run = read.run + 1, !.last = read.run + 1, !.retry = FALSE]
<1>1. row \in Rows /\ read \in Rows /\ server[s].now \in 0..MaxSlots /\ server[s].pc = "record"
      /\ ReadPlanned(s)
  BY DEF Inv, ScheduleTypeOK, ServerState, Record
<1>2. next # 0 => next > server[s].now /\ ~read.once
  BY <1>1, FollowingType
<1>4. /\ row.times = read.times /\ row.once = read.once /\ (read.times # 0 => read.remaining >= 1)
      /\ read.remaining \in Nat
  BY <1>1 DEF ReadPlanned, RunsLeft, SamePlan, Works, Rows
<1>5. (next = 0 => done) /\ (read.times # 0 /\ ~done => remaining >= 1)
  BY <1>4 DEF Finished
<1>6. /\ ran \in [once : BOOLEAN, mode : Modes, times : Nat, ends : Nat,
                  status : {"absent", "active", "paused", "done", "removed"}, due : {0} \cup Slots,
                  run : Nat, remaining : Nat, last : Nat, failures : Nat, retry : BOOLEAN]
      /\ SamePlan(ran, row) /\ ran.run = read.run + 1
      /\ ran.status = row.status /\ ran.due = row.due /\ ran.remaining = row.remaining
  <2>1. read.run + 1 \in Nat
    BY <1>1 DEF Rows
  <2>2. row \in [once : BOOLEAN, mode : Modes, times : Nat, ends : Nat,
                status : {"absent", "active", "paused", "done", "removed"}, due : {0} \cup Slots,
                run : Nat, remaining : Nat, last : Nat, failures : Nat, retry : BOOLEAN]
    BY <1>1 DEF Rows
  <2> HIDE DEF read
  <2> QED BY <2>1, <2>2 DEF SamePlan
<1> DEFINE ends(failures) == [ran EXCEPT !.failures = failures, !.remaining = remaining,
                                         !.status = "done", !.due = 0]
           goesOn(failures) == [ran EXCEPT !.failures = failures, !.remaining = remaining,
                                           !.status = @, !.due = next]
<1>7. \/ \E failures \in {0, ran.failures} : row' = ends(failures) \/ (~done /\ row' = goesOn(failures))
      \/ server[s].kind = "strike" /\ row' = [ran EXCEPT !.failures = read.failures + 1, !.status = "paused"]
      \/ row' = [ran EXCEPT !.failures = 0, !.remaining = 0, !.status = "done", !.due = 0]
  BY DEF Record, RecordStored
<1> HIDE DEF next, remaining, done, ran
<1>8. ASSUME NEW failures, row' = ends(failures) \/ (~done /\ row' = goesOn(failures))
      PROVE  /\ SamePlan(row', row) /\ row'.run = read.run + 1
             /\ \/ row'.status = "done" /\ row'.due = 0
                \/ ~done /\ row'.status = row.status /\ row'.due = next /\ row'.remaining = remaining
  BY <1>6, <1>8 DEF SamePlan
<1>9. CASE server[s].kind = "strike" /\ row' = [ran EXCEPT !.failures = read.failures + 1, !.status = "paused"]
  BY <1>6, <1>9 DEF SamePlan
<1>10. CASE row' = [ran EXCEPT !.failures = 0, !.remaining = 0, !.status = "done", !.due = 0]
  BY <1>6, <1>10 DEF SamePlan
<1> QED BY <1>2, <1>4, <1>5, <1>7, <1>8, <1>9, <1>10 DEF SamePlan

\* The loop of a server writes only its own entry; the clock, the exits and the
\* stalls so far are not its business, and what was lost or overtaken stays so.
LEMMA OthersKept ==
  ASSUME NEW s \in Servers, Loops(s), server \in [Servers -> ServerState]
  PROVE  /\ \A t \in Servers : t # s => server'[t] = server[t]
         /\ UNCHANGED <<now, crashes, stalls>>
         /\ lost \subseteq lost' /\ (overtaken => overtaken')
<1>1. CASE Claim(s)
  BY <1>1 DEF Claim
<1>2. CASE StepFails(s)
  BY <1>2 DEF StepFails, Leaves
<1>3. CASE Tick(s) \/ Step(s) \/ Look(s) \/ Skip(s) \/ Check(s)
  BY <1>3 DEF Tick, Step, Look, Skip, Check, Steps, Leaves, histories
<1>4. CASE LoopBegins(s) \/ Rewake(s) \/ TickEnds(s) \/ Prompt(s) \/ Wake(s) \/ Record(s)
  BY <1>4 DEF LoopBegins, Rewake, TickEnds, Prompt, Wake, Record, Steps, Leaves, histories
<1> QED BY <1>1, <1>2, <1>3, <1>4 DEF Loops, Fires

\* Exits and leases that run out are remembered.
LEMMA HistoriesGrow ==
  ASSUME Inv, [ScheduleNext]_scheduleVars
  PROVE  /\ stalls' = 0 => stalls = 0
         /\ overtaken => overtaken'
         /\ lost \subseteq lost'
<1>a. server \in [Servers -> ServerState] /\ stalls \in Nat
  BY DEF Inv, ScheduleTypeOK
<1>1. CASE Clients \/ TimePasses \/ RetryElapses \/ LeaseExpires \/ UNCHANGED scheduleVars
  <2>1. histories' = histories
    BY <1>1 DEF Clients, Pause, Resume, RemoveRow, Create, TimePasses, RetryElapses, LeaseExpires,
                scheduleVars
  <2> QED BY <2>1 DEF histories
<1>2. CASE LeaseLapses
  BY <1>a, <1>2 DEF LeaseLapses
<1>3. ASSUME NEW s \in Servers, Heartbeats(s) \/ Delivers(s) \/ Exits(s) PROVE lost \subseteq lost' /\ UNCHANGED <<stalls, overtaken>>
  BY <1>3 DEF Heartbeats, Delivers, Exits, histories
<1> QED BY <1>a, <1>1, <1>2, <1>3, OthersKept DEF ScheduleNext

-----------------------------------------------------------------------------
(* The lease *)

\* How the loop moves the lease: it is taken when it is free or one's own, and
\* given up by its owner.
LEMMA LeaseMoves ==
  ASSUME NEW s \in Servers, Loops(s), server \in [Servers -> ServerState]
  PROVE  \/ lease \in {"none", s} /\ lease' = s /\ server[s].pc \in {"claim", "step"}
         \/ lease' = Released(s) /\ server'[s].pc = "loop" /\ server'[s].leading = FALSE
         \/ /\ lease' = lease
            /\ \/ server[s].pc \in Ticks
               \/ server'[s].pc \notin Ticks /\ server'[s].leading \in {FALSE, server[s].leading}
<1>a. server[s] \in ServerState
  OBVIOUS
<1>1. CASE LoopBegins(s)
  <2>1. \/ server'[s].pc = "loop" /\ server'[s].leading = FALSE
           /\ lease' = IF server[s].leading THEN Released(s) ELSE lease
        \/ server'[s].pc = "claim" /\ server'[s].leading = server[s].leading /\ lease' = lease
    BY <1>a, <1>1 DEF LoopBegins, ServerState
  <2> QED BY <2>1 DEF Ticks, Ticking
<1>2. CASE Claim(s)
  BY <1>a, <1>2 DEF Claim, MayLead, Boots, Ticks, Ticking
<1>3. CASE TickEnds(s)
  BY <1>a, <1>3 DEF TickEnds, Boots, Ticks
<1>4. CASE Step(s)
  BY <1>a, <1>4 DEF Step, MayLead, Ticks, Ticking
<1>5. CASE Rewake(s) \/ Tick(s) \/ Look(s) \/ Skip(s) \/ Check(s) \/ StepFails(s)
  BY <1>5 DEF Rewake, Tick, Look, Skip, Check, StepFails, Ticks, Ticking
<1>6. CASE Prompt(s) \/ Wake(s) \/ Record(s)
  BY <1>6 DEF Prompt, Wake, Record, Ticks, Ticking
<1> QED BY <1>1, <1>2, <1>3, <1>4, <1>5, <1>6 DEF Loops, Fires

\* As long as no lease ran out under a live server: whoever takes the lease finds
\* it free or its own, and whoever gives it up or loses it has stopped ticking.
LEMMA LeaseStep ==
  ASSUME Inv, [ScheduleNext]_scheduleVars, stalls' = 0
  PROVE  LeaseHeld'
<1>a. /\ server \in [Servers -> ServerState] /\ LeaseHeld
      /\ \A s \in Servers : s # "none" /\ s # "dead"
  BY ServersAssumption, HistoriesGrow DEF Inv, ScheduleTypeOK
<1>1. CASE UNCHANGED <<server, lease>>
  BY <1>a, <1>1 DEF LeaseHeld
<1>2. ASSUME NEW s \in Servers, Loops(s) PROVE LeaseHeld'
  <2>1. \A t \in Servers : t # s => server'[t] = server[t]
    BY <1>a, <1>2, OthersKept
  <2>2. CASE lease \in {"none", s} /\ lease' = s
    BY <1>a, <2>1, <2>2 DEF LeaseHeld
  <2>3. CASE lease' = Released(s) /\ server'[s].pc = "loop" /\ server'[s].leading = FALSE
    BY <1>a, <2>1, <2>3 DEF LeaseHeld, Released, Ticks, Ticking
  <2>4. CASE lease' = lease /\ (server[s].pc \in Ticks
               \/ (server'[s].pc \notin Ticks /\ server'[s].leading \in {FALSE, server[s].leading}))
    BY <1>a, <2>1, <2>4 DEF LeaseHeld
  <2> QED BY <1>2, <1>a, <2>2, <2>3, <2>4, LeaseMoves
<1>3. ASSUME NEW s \in Servers, Exits(s) PROVE LeaseHeld'
  BY <1>a, <1>3 DEF Exits, Released, LeaseHeld, Ticks, Ticking, Boots
<1>4. CASE LeaseExpires
  BY <1>a, <1>4 DEF LeaseExpires, LeaseHeld
<1>5. ASSUME LeaseLapses PROVE FALSE
  BY <1>5 DEF LeaseLapses, Inv, ScheduleTypeOK
<1>6. ASSUME NEW s \in Servers, Heartbeats(s) PROVE LeaseHeld'
  BY <1>a, <1>6 DEF Heartbeats, LeaseHeld, Ticks
<1>7. CASE Clients \/ TimePasses \/ RetryElapses \/ UNCHANGED scheduleVars
      \/ \E s \in Servers : Delivers(s)
  BY <1>1, <1>7 DEF Clients, Pause, Resume, RemoveRow, Create, TimePasses, RetryElapses,
                    Delivers, scheduleVars
<1> QED BY <1>2, <1>3, <1>4, <1>5, <1>6, <1>7 DEF ScheduleNext

\* A server begins to tick only with its claim, which notes whom it overtakes.
LEMMA TickingBegins ==
  ASSUME NEW s \in Servers, Loops(s), server \in [Servers -> ServerState],
         server'[s].pc \in Ticking, server[s].pc \notin Ticking
  PROVE  Claim(s) /\ (~overtaken' => \A t \in Servers \ {s} : server[t].pc \notin Ticking)
<1>a. server[s] \in ServerState
  OBVIOUS
<1>1. CASE Claim(s)
  BY <1>1, <1>a DEF Claim, Boots, Ticking
<1>2. CASE LoopBegins(s)
  BY <1>a, <1>2 DEF LoopBegins, Ticking, ServerState
<1>3. CASE TickEnds(s)
  BY <1>a, <1>3 DEF TickEnds, Boots, Ticking
<1>4. CASE Rewake(s) \/ Tick(s) \/ Fires(s)
  BY <1>4 DEF Rewake, Tick, Fires, Step, Look, Skip, Check, StepFails, Prompt, Wake, Record, Ticking
<1> QED BY <1>1, <1>2, <1>3, <1>4 DEF Loops

\* Until a server is overtaken, one ticks at a time.
LEMMA AloneStep ==
  ASSUME Inv, [ScheduleNext]_scheduleVars, ~overtaken'
  PROVE  Alone'
<1>a. server \in [Servers -> ServerState] /\ Alone
  BY HistoriesGrow DEF Inv, InvAlone, ScheduleTypeOK
<1>1. CASE UNCHANGED server
  BY <1>a, <1>1 DEF Alone
<1>2. ASSUME NEW s \in Servers, Loops(s) PROVE Alone'
  <2>1. \A t \in Servers : t # s => server'[t] = server[t]
    BY <1>a, <1>2, OthersKept
  <2>2. server'[s].pc \in Ticking =>
          server[s].pc \in Ticking \/ \A t \in Servers \ {s} : server[t].pc \notin Ticking
    BY <1>a, <1>2, TickingBegins
  <2> QED BY <1>a, <2>1, <2>2 DEF Alone
<1>3. ASSUME NEW s \in Servers, Exits(s) PROVE Alone'
  BY <1>a, <1>3 DEF Exits, Boots, Alone, Ticking
<1>4. CASE Clients \/ TimePasses \/ RetryElapses \/ LeaseExpires \/ LeaseLapses \/ UNCHANGED scheduleVars
      \/ \E s \in Servers : Heartbeats(s) \/ Delivers(s)
  BY <1>1, <1>4 DEF Clients, Pause, Resume, RemoveRow, Create, TimePasses, RetryElapses,
                    LeaseExpires, LeaseLapses, Heartbeats, Delivers, scheduleVars
<1> QED BY <1>2, <1>3, <1>4 DEF ScheduleNext

-----------------------------------------------------------------------------
(* The row and what a server read of it *)

\* A server at work either has just read an active row that is due, or works on
\* with the same row; a check that is struck or expires belongs to a row with one.
LEMMA WorkGoesOn ==
  ASSUME Inv, NEW s \in Servers, Loops(s), server'[s].pc \in Works
  PROVE  /\ server'[s].now = server[s].now /\ UNCHANGED <<row, lost>>
         /\ \/ /\ Tick(s) /\ server[s].pc = "tick" /\ server'[s].pc = "step" /\ server'[s].row = row
               /\ row.status = "active" /\ row.due <= server[s].now /\ row.run < MaxRuns
            \/ /\ server'[s].row = server[s].row
               /\ \/ server[s].pc = "step" /\ server'[s].pc = "look"
                  \/ server[s].pc = "look" /\ server'[s].pc = "skip"
                  \/ /\ server[s].pc = "look" /\ server'[s].kind = "fire"
                     /\ server'[s].pc \in {"check", "prompt"}
                     /\ server'[s].pc = "check" => server[s].row.mode # "none"
                  \/ server[s].pc = "check" /\ server'[s].pc = "prompt"
                  \/ /\ server'[s].kind = server[s].kind
                     /\ \/ Prompt(s) /\ server[s].pc = "prompt" /\ server'[s].pc = "waking"
                        \/ server[s].pc = "waking" /\ server'[s].pc = "record"
<1>a. server \in [Servers -> ServerState] /\ server[s] \in ServerState
  BY DEF Inv, ScheduleTypeOK
<1>b. ~Leaves(s)
  BY LeavesType DEF Inv, Works
<1>1. CASE LoopBegins(s)
  BY <1>a, <1>1 DEF LoopBegins, ServerState, Works
<1>2. CASE Claim(s)
  BY <1>a, <1>2 DEF Claim, AfterClaim, Boots, ServerState, Works
<1>3. CASE Rewake(s)
  BY <1>a, <1>b, <1>3 DEF Rewake, Steps, ServerState, Works
<1>4. CASE Tick(s)
  BY <1>a, <1>b, <1>4 DEF Tick, ServerState, Works, histories
<1>5. CASE TickEnds(s)
  BY <1>a, <1>5 DEF TickEnds, Boots, ServerState, Works
<1>6. CASE Step(s)
  BY <1>a, <1>b, <1>6 DEF Step, Steps, ServerState, histories
<1>11. CASE Look(s)
  <2>1. /\ UNCHANGED <<row, lost>> /\ server[s].pc = "look"
        /\ \/ Steps(s, "skip")
           \/ server' = [server EXCEPT ![s].pc = IF server[s].row.mode = "none" THEN "prompt" ELSE "check",
                                       ![s].kind = "fire"]
    BY <1>b, <1>11 DEF Look, histories
  <2> QED BY <1>a, <2>1 DEF Steps, ServerState
<1>7. CASE Check(s)
  <2>1. /\ UNCHANGED <<row, lost>> /\ server[s].pc = "check"
        /\ \E kind \in {"fire", "strike", "expired"} :
             server' = [server EXCEPT ![s].pc = "prompt", ![s].kind = kind]
    BY <1>b, <1>7 DEF Check, histories
  <2> QED BY <1>a, <2>1 DEF ServerState
<1>8. CASE StepFails(s) \/ Skip(s) \/ Record(s)
  BY <1>b, <1>8 DEF StepFails, Skip, Record
<1>9. CASE Prompt(s)
  BY <1>a, <1>9 DEF Prompt, Steps, ServerState, Works, histories
<1>10. CASE Wake(s)
  BY <1>a, <1>10 DEF Wake, Steps, ServerState, Works, histories
<1> QED BY <1>1, <1>2, <1>3, <1>4, <1>5, <1>6, <1>7, <1>8, <1>9, <1>10, <1>11 DEF Loops, Fires

\* A resumed row keeps its counters; it is done, or keeps a slot that is not past
\* (any slot, if it has only one), or takes the one after now.
LEMMA ResumeWrites ==
  ASSUME Inv, Resume
  PROVE  /\ row.status = "paused"
         /\ SamePlan(row', row) /\ row'.run = row.run /\ row'.remaining = row.remaining
         /\ \/ row'.status = "done" /\ row'.due = 0
            \/ /\ row'.status = "active" /\ row.due # 0
               /\ \/ row'.due = row.due /\ (row.once \/ row.due > now)
                  \/ row'.due = now + 1 /\ row.due <= now
<1> DEFINE skipped == IF row.once THEN row.due ELSE now + 1
           next == IF row.due > now THEN row.due ELSE skipped
           done == row.due = 0 \/ Finished(row, next, row.remaining)
<1>1. row \in Rows /\ now \in 0..MaxSlots /\ row.due \in Nat
  BY BoundsAssumption DEF Inv, ScheduleTypeOK, Rows, Slots
<1>2. row.status = "paused"
      /\ \/ row' = [row EXCEPT !.status = "done", !.due = 0, !.failures = 0, !.retry = FALSE]
         \/ /\ row.due # 0
            /\ row' = [row EXCEPT !.status = "active", !.due = next, !.failures = 0, !.retry = FALSE]
  BY DEF Resume
<1>3. \/ next = row.due /\ (row.once \/ row.due > now)
      \/ next = now + 1 /\ row.due <= now
  BY <1>1
<1> HIDE DEF next
<1> QED BY <1>1, <1>2, <1>3 DEF Rows, SamePlan

\* A schedule that waits for a slot has runs left.
LEMMA RunsStep == Inv /\ [ScheduleNext]_scheduleVars => RunsLeft(row')
<1> SUFFICES ASSUME Inv, [ScheduleNext]_scheduleVars PROVE RunsLeft(row')
  OBVIOUS
<1>a. row \in Rows /\ RunsLeft(row) /\ (row.status = "active" => row.due # 0)
  BY DEF Inv, ScheduleTypeOK
<1>b. row' \in Rows /\ (row'.status = "active" => row'.due # 0)
  BY TypeStep DEF ScheduleTypeOK
<1>1. CASE row' = row
  BY <1>a, <1>1
<1>2. CASE Pause \/ RetryElapses
  BY <1>a, <1>2 DEF Pause, RetryElapses, RunsLeft, Rows
<1>3. CASE Resume
  BY <1>a, <1>3, ResumeWrites DEF RunsLeft, SamePlan
<1>4. CASE RemoveRow
  BY <1>4 DEF RemoveRow, RunsLeft, NoRow
<1>5. ASSUME NEW plan \in Plans, Create(plan) PROVE RunsLeft(row')
  <2>1. plan.times \in Nat
    BY PlansAssumption
  <2>2. ASSUME NEW due,
               row' = [NoRow EXCEPT !.once = plan.once, !.mode = plan.mode, !.times = plan.times,
                         !.ends = plan.ends, !.status = "active", !.due = due, !.remaining = plan.times]
        PROVE  row'.times = plan.times /\ row'.remaining = plan.times
    BY <2>2 DEF NoRow
  <2>3. (row'.times = plan.times /\ row'.remaining = plan.times) \/ row'.due = 0
    BY <1>5, <2>2 DEF Create, NoRow
  <2> QED BY <2>1, <2>3 DEF RunsLeft
<1>6. ASSUME NEW s \in Servers, Look(s) \/ Skip(s) \/ Check(s) \/ StepFails(s), row' # row
      PROVE  RunsLeft(row')
  <2>1. row'.times = row.times /\ row'.remaining = row.remaining /\ row.due # 0
    BY <1>6, <1>a, TickWrites DEF SamePlan
  <2> QED BY <1>a, <2>1 DEF RunsLeft
<1>7. ASSUME NEW s \in Servers, Record(s), row' # row PROVE RunsLeft(row')
  <2>1. Stored
    BY <1>7 DEF Record, RecordStored
  <2> QED BY <1>a, <1>7, <2>1, RecordWrites DEF RunsLeft, SamePlan
<1>8. ASSUME NEW s \in Servers, Loops(s), row' # row PROVE RunsLeft(row')
  BY <1>6, <1>7, <1>8 DEF Loops, LoopBegins, Claim, Rewake, Tick, TickEnds, Fires, Step, Prompt, Wake
<1>9. CASE TimePasses \/ LeaseExpires \/ LeaseLapses \/ UNCHANGED scheduleVars
      \/ \E s \in Servers : Delivers(s) \/ Exits(s) \/ Heartbeats(s)
  BY <1>1, <1>9 DEF TimePasses, LeaseExpires, LeaseLapses, scheduleVars, Delivers, Exits, Heartbeats
<1> QED BY <1>1, <1>2, <1>3, <1>4, <1>5, <1>8, <1>9 DEF ScheduleNext, Clients

\* A client, or a retry, keeps what a tick may have read of a row that is there.
RowKept ==
  row.status # "absent" =>
    /\ row'.status # "absent" /\ row'.mode = row.mode
    /\ Stored' => /\ Stored /\ SamePlan(row', row)
                  /\ row'.run = row.run /\ row'.remaining = row.remaining
                  /\ row'.due # 0 => row.due # 0 /\ row.due <= row'.due

\* What clients and a retry's delay do keeps the row well formed.
LEMMA ClientsKeep == Inv /\ (Clients \/ RetryElapses) => RowKept
<1> SUFFICES ASSUME Inv, Clients \/ RetryElapses PROVE RowKept
  OBVIOUS
<1>a. row \in Rows /\ now \in Nat /\ row.due \in Nat
  BY BoundsAssumption DEF Inv, ScheduleTypeOK, Rows, Slots
<1>1. CASE Pause
  BY <1>a, <1>1 DEF Pause, RowKept, Stored, SamePlan, Rows
<1>2. CASE Resume
  BY <1>a, <1>2, ResumeWrites DEF RowKept, Stored, SamePlan
<1>3. CASE RemoveRow
  BY <1>3 DEF RemoveRow, RowKept, Stored, NoRow
<1>4. ASSUME NEW plan \in Plans, Create(plan) PROVE RowKept
  BY <1>4 DEF Create, RowKept
<1>5. CASE RetryElapses
  BY <1>a, <1>5 DEF RetryElapses, RowKept, Stored, SamePlan, Rows
<1> QED BY <1>1, <1>2, <1>3, <1>4, <1>5 DEF Clients

\* Only a server at work writes the row.
LEMMA LoopsWrite == ASSUME NEW s \in Servers, Loops(s), row' # row PROVE server[s].pc \in Works
BY DEF Loops, LoopBegins, Claim, Rewake, Tick, TickEnds, Fires, Step, Look, Skip, Check, StepFails,
       Prompt, Wake, Record, Works

\* A tick leaves behind a row of the same plan, if there was one.
LEMMA LoopsKeepPlan ==
  ASSUME Inv, NEW s \in Servers, Loops(s)
  PROVE  /\ row'.status = "absent" <=> row.status = "absent"
         /\ row'.mode = row.mode /\ (Stored' => Stored /\ SamePlan(row', row))
<1>1. CASE row' = row
  BY <1>1 DEF Stored, SamePlan
<1>2. CASE (Look(s) \/ Skip(s) \/ Check(s) \/ StepFails(s)) /\ row' # row
  BY <1>2, TickWrites DEF Stored, SamePlan
<1>3. CASE Record(s) /\ row' # row
  <2>1. Stored
    BY <1>3 DEF Record, RecordStored
  <2> QED BY <1>3, <2>1, RecordWrites DEF Stored, SamePlan
<1>4. CASE LoopBegins(s) \/ Claim(s) \/ Rewake(s) \/ Tick(s) \/ TickEnds(s) \/ Step(s) \/ Prompt(s) \/ Wake(s)
  BY <1>1, <1>4 DEF LoopBegins, Claim, Rewake, Tick, TickEnds, Step, Prompt, Wake
<1> QED BY <1>1, <1>2, <1>3, <1>4 DEF Loops, Fires

\* The time a server knows is the clock's at the start of its tick.
LEMMA TimeRead ==
  ASSUME Inv, NEW s \in Servers, Loops(s)
  PROVE  server'[s].now \in {server[s].now, now, 0}
<1>a. server[s] \in ServerState /\ server \in [Servers -> ServerState] /\ ScheduleTypeOK
  BY DEF Inv, ScheduleTypeOK
<1>b. CASE Leaves(s)
  BY <1>a, <1>b, LeavesType
<1>1. CASE LoopBegins(s)
  BY <1>a, <1>1 DEF LoopBegins, ServerState
<1>2. CASE Claim(s)
  <2>1. server'[s].now \in {server[s].now, Boots.now}
    BY <1>a, <1>2 DEF Claim, ServerState, Boots
  <2> QED BY <2>1 DEF Boots
<1>6. CASE TickEnds(s)
  BY <1>a, <1>6 DEF TickEnds, Boots
<1>3. CASE (Rewake(s) \/ Tick(s) \/ Step(s) \/ Prompt(s) \/ Wake(s)) /\ ~Leaves(s)
  BY <1>a, <1>3 DEF Rewake, Tick, Step, Prompt, Wake, Steps, ServerState
<1>4. CASE (Look(s) \/ Check(s)) /\ ~Leaves(s)
  <2>1. \/ Steps(s, "skip")
        \/ \E pc \in {"prompt", "check"}, kind \in {"fire", "strike", "expired"} :
             server' = [server EXCEPT ![s].pc = pc, ![s].kind = kind]
    BY <1>4 DEF Look, Check
  <2> QED BY <1>a, <2>1 DEF Steps, ServerState
<1>5. CASE StepFails(s) \/ Skip(s) \/ Record(s)
  BY <1>b, <1>5 DEF StepFails, Skip, Record
<1> QED BY <1>b, <1>1, <1>2, <1>3, <1>4, <1>5, <1>6 DEF Loops, Fires

\* What a server read was a row of the plan that is still the only one.
LEMMA PlannedStep == Inv /\ [ScheduleNext]_scheduleVars => \A t \in Servers : ReadPlanned(t)'
<1> SUFFICES ASSUME Inv, [ScheduleNext]_scheduleVars, NEW t \in Servers PROVE ReadPlanned(t)'
  OBVIOUS
<1>a. /\ ReadPlanned(t) /\ server \in [Servers -> ServerState] /\ now \in 0..MaxSlots
      /\ server[t].now \in 0..MaxSlots
  BY DEF Inv, ScheduleTypeOK, ServerState
\* The row keeps its plan, and the server its place.
<1>1. ASSUME server'[t] = server[t], now' \in {now, now + 1},
             row.status # "absent" =>
               /\ row'.status # "absent" /\ row'.mode = row.mode
               /\ Stored' => Stored /\ SamePlan(row', row)
      PROVE  ReadPlanned(t)'
  BY <1>a, <1>1 DEF ReadPlanned, SamePlan
<1>2. CASE row' = row /\ server'[t] = server[t] /\ now' \in {now, now + 1}
  BY <1>1, <1>2 DEF Stored, SamePlan
<1>3. CASE Clients \/ RetryElapses
  <2>1. server' = server /\ now' = now
    BY <1>3 DEF Clients, Pause, Resume, RemoveRow, Create, RetryElapses
  <2> QED BY <1>1, <1>3, <2>1, ClientsKeep DEF RowKept
<1>4. ASSUME NEW s \in Servers, Loops(s), s # t PROVE ReadPlanned(t)'
  <2>1. server'[t] = server[t] /\ now' = now
    BY <1>a, <1>4, OthersKept
  <2> QED BY <1>1, <1>4, <2>1, LoopsKeepPlan
<1>5. CASE Loops(t)
  <2>1. now' = now /\ server'[t].now \in {server[t].now, now, 0}
    BY <1>a, <1>5, OthersKept, TimeRead
  <2>2. CASE server'[t].pc \in Works
    <3>1. row' = row /\ server'[t].now = server[t].now
      BY <1>5, <2>2, WorkGoesOn
    <3>2. CASE /\ server[t].pc = "tick" /\ server'[t].pc = "step" /\ server'[t].row = row
               /\ row.status = "active" /\ row.due <= server[t].now /\ row.run < MaxRuns
      <4>1. row.due # 0 /\ RunsLeft(row)
        BY <3>2 DEF Inv, ScheduleTypeOK
      <4> QED BY <1>a, <2>1, <3>1, <3>2, <4>1 DEF ReadPlanned, SamePlan, Stored
    <3>3. CASE /\ server'[t].row = server[t].row
               /\ \/ server[t].pc = "step" /\ server'[t].pc = "look"
                  \/ server[t].pc = "look" /\ server'[t].pc = "skip"
                  \/ /\ server[t].pc = "look" /\ server'[t].kind = "fire"
                     /\ server'[t].pc \in {"check", "prompt"}
                     /\ server'[t].pc = "check" => server[t].row.mode # "none"
                  \/ server[t].pc = "check" /\ server'[t].pc = "prompt"
                  \/ /\ server'[t].kind = server[t].kind
                     /\ \/ server[t].pc = "prompt" /\ server'[t].pc = "waking"
                        \/ server[t].pc = "waking" /\ server'[t].pc = "record"
      BY <1>a, <2>1, <3>1, <3>3 DEF ReadPlanned, Works, Stored
    <3> QED BY <1>5, <2>2, <3>2, <3>3, WorkGoesOn
  <2>3. CASE server'[t].pc \notin Works
    BY <1>a, <2>1, <2>3 DEF ReadPlanned, Works
  <2> QED BY <2>2, <2>3
<1>6. ASSUME NEW s \in Servers, Exits(s) PROVE ReadPlanned(t)'
  <2>1. CASE s # t
    BY <1>2, <1>6, <1>a, <2>1 DEF Exits
  <2>2. CASE s = t
    BY <1>a, <1>6, <2>2 DEF Exits, ReadPlanned, Boots, Works
  <2> QED BY <2>1, <2>2
<1>7. CASE TimePasses \/ LeaseExpires \/ LeaseLapses \/ UNCHANGED scheduleVars
      \/ \E s \in Servers : Delivers(s) \/ Heartbeats(s)
  BY <1>2, <1>7 DEF TimePasses, LeaseExpires, LeaseLapses, scheduleVars, Delivers, Heartbeats
<1> QED BY <1>3, <1>4, <1>5, <1>6, <1>7 DEF ScheduleNext

\* What a server read stays true while it is alone: clients change nothing the
\* firing relies on.
LEMMA ReadStep ==
  ASSUME Inv, ~overtaken, [ScheduleNext]_scheduleVars, NEW t \in Servers
  PROVE  ReadHolds(t)'
<1>a. /\ ReadHolds(t) /\ Alone /\ server \in [Servers -> ServerState]
      /\ row \in Rows /\ row.due \in Nat /\ server[t].row.due \in Nat
  BY BoundsAssumption DEF Inv, InvAlone, ScheduleTypeOK, ServerState, Rows, Slots
<1>b. row'.due \in Nat
  BY BoundsAssumption, TypeStep DEF ScheduleTypeOK, Rows, Slots
<1>1. CASE row' = row /\ server'[t] = server[t]
  BY <1>a, <1>1 DEF ReadHolds, Stored
<1>2. CASE Clients \/ RetryElapses
  <2>1. server' = server
    BY <1>2 DEF Clients, Pause, Resume, RemoveRow, Create, RetryElapses
  <2>2. CASE server[t].pc \in Works
    <3>1. row.status # "absent"
      BY <2>2 DEF Inv, ReadPlanned
    <3> QED BY <1>2, <1>a, <1>b, <2>1, <3>1, ClientsKeep DEF ReadHolds, RowKept
  <2>3. CASE server[t].pc \notin Works
    BY <2>1, <2>3 DEF ReadHolds
  <2> QED BY <2>2, <2>3
<1>3. ASSUME NEW s \in Servers, Loops(s), s # t PROVE ReadHolds(t)'
  <2>1. server'[t] = server[t]
    BY <1>a, <1>3, OthersKept
  <2>2. CASE server[t].pc \in Works
    <3>1. server[s].pc \notin Works
      BY <1>3, <1>a, <2>2 DEF Alone, Works, Ticking
    <3> QED BY <1>1, <1>3, <2>1, <3>1, LoopsWrite
  <2>3. CASE server[t].pc \notin Works
    BY <2>1, <2>3 DEF ReadHolds
  <2> QED BY <2>2, <2>3
<1>4. CASE Loops(t)
  <2> SUFFICES ASSUME server'[t].pc \in Works PROVE ReadHolds(t)'
    BY DEF ReadHolds
  <2>1. row' = row /\ (server'[t].row = row \/ (server'[t].row = server[t].row /\ server[t].pc \in Works))
    BY <1>4, WorkGoesOn DEF Works
  <2> QED BY <1>a, <2>1 DEF ReadHolds, Stored
<1>5. ASSUME NEW s \in Servers, Exits(s) PROVE ReadHolds(t)'
  <2>1. CASE s # t
    BY <1>1, <1>5, <1>a, <2>1 DEF Exits
  <2>2. CASE s = t
    BY <1>a, <1>5, <2>2 DEF Exits, ReadHolds, Boots, Works
  <2> QED BY <2>1, <2>2
<1>6. CASE TimePasses \/ LeaseExpires \/ LeaseLapses \/ UNCHANGED scheduleVars
      \/ \E s \in Servers : Delivers(s) \/ Heartbeats(s)
  BY <1>1, <1>6 DEF TimePasses, LeaseExpires, LeaseLapses, scheduleVars, Delivers, Heartbeats
<1> QED BY <1>2, <1>3, <1>4, <1>5, <1>6 DEF ScheduleNext

-----------------------------------------------------------------------------
(* Message IDs *)

\* No message comes into being.
NoMore == \A r \in RunNumbers : message'[r] # "none" => message[r] # "none"

\* What was enough for the messages stays enough while there are no more.
LEMMA UsedStays ==
  ASSUME NEW m \in Nat, NEW n \in Nat, m <= n, UsedUpTo(message, m), NoMore
  PROVE  UsedUpTo(message', n)
BY DEF UsedUpTo, NoMore, RunNumbers

LEMMA KnownStays ==
  ASSUME NEW m \in Nat, NEW n \in Nat, m <= n, KnownUpTo(message, lost, m), NoMore, lost \subseteq lost'
  PROVE  KnownUpTo(message', lost', n)
BY DEF KnownUpTo, NoMore, RunNumbers

\* A run whose record is lost is one of those set aside.
LEMMA LostKnown ==
  ASSUME NEW n \in Nat, UsedUpTo(message, n + 1), NoMore, n + 1 \in lost'
  PROVE  KnownUpTo(message', lost', n)
BY DEF UsedUpTo, KnownUpTo, NoMore, RunNumbers

\* A row that is there gives way to another only by being removed, and keeps its
\* run counter until a record.
LEMMA RunKept ==
  ASSUME Inv, [ScheduleNext]_scheduleVars, \A s \in Servers : ~Record(s)
  PROVE  /\ row'.status = "absent" => row.status = "absent"
         /\ Stored' /\ Stored => row'.run = row.run
         /\ Stored' /\ ~Stored => row.status = "absent" /\ row'.run \in Nat
<1>a. row \in Rows /\ row' \in Rows
  BY TypeStep DEF Inv, ScheduleTypeOK
<1>b. row'.run \in Nat /\ (row.status = "absent" \/ row.status = "removed" \/ Stored)
  BY <1>a, BoundsAssumption DEF Rows, Stored
<1>1. CASE row' = row
  BY <1>1 DEF Stored
<1>2. CASE Clients
  <2>1. RowKept
    BY <1>2, ClientsKeep
  <2>2. CASE row.status # "absent"
    BY <1>b, <2>1, <2>2 DEF RowKept
  <2>3. CASE row.status = "absent"
    <3>1. PICK plan \in Plans : Create(plan)
      BY <1>2, <2>3 DEF Clients, Pause, Resume, RemoveRow, Stored
    <3>2. row'.status \in {"active", "done"}
      BY <3>1 DEF Create, NoRow
    <3> QED BY <1>b, <2>3, <3>2 DEF Stored
  <2> QED BY <2>2, <2>3
<1>5. CASE RetryElapses
  BY <1>a, <1>5 DEF RetryElapses, Stored, Rows
<1>3. ASSUME NEW s \in Servers, Look(s) \/ Skip(s) \/ Check(s) \/ StepFails(s), row' # row
      PROVE  row'.run = row.run /\ row'.status # "absent" /\ Stored
  BY <1>3, TickWrites DEF Stored
<1>4. ASSUME NEW s \in Servers, Loops(s), row' # row
      PROVE  row'.run = row.run /\ row'.status # "absent" /\ Stored
  BY <1>3, <1>4 DEF Loops, LoopBegins, Claim, Rewake, Tick, TickEnds, Fires, Step, Prompt,
     Wake
<1> QED BY <1>1, <1>2, <1>4, <1>5
     DEF ScheduleNext, scheduleVars, TimePasses, LeaseExpires, LeaseLapses, Delivers, Heartbeats, Exits

\* Beyond the run counter there is at most the prompt that is being recorded.
LEMMA MessagesStep ==
  ASSUME Inv, ~overtaken, [ScheduleNext]_scheduleVars
  PROVE  MessagesNumbered'
<1>a. /\ row.run \in Nat /\ row'.run \in Nat /\ \A s \in Servers : server[s].row.run \in Nat
      /\ server \in [Servers -> ServerState]
      /\ message \in [RunNumbers -> {"none", "pending", "delivered"}]
      /\ slot \in [RunNumbers -> {0} \cup Slots]
  BY TypeStep, BoundsAssumption DEF Inv, ScheduleTypeOK, ServerState, Rows
<1>b. \A s, t \in Servers : server[s].pc \in Works \cup {"tick"} /\ server[t].pc \in Works => s = t
  BY DEF Inv, InvAlone, Alone, Works, Ticking
<1>c. MessagesNumbered /\ \A s \in Servers : ReadHolds(s) /\ ReadPlanned(s)
  BY DEF Inv, InvAlone
<1>d. lost \subseteq lost'
  BY HistoriesGrow
<1> DEFINE None == \A r \in RunNumbers : message'[r] = "none" => message[r] = "none"
           NoRecord == \A s \in Servers : server[s].pc \notin Admitted
\* Steps that bring no message and no record: the row's side.
<1>1. ASSUME NoMore, None, slot' = slot, \A s \in Servers : ~Record(s),
             NoRecord' /\ Stored => NoRecord \/ row.run + 1 \in lost',
             \A s \in Servers : server'[s].pc \in Works =>
               /\ UsedUpTo(message, server'[s].row.run + 1) /\ server'[s].row.run \in Nat
               /\ server'[s].pc \notin Admitted => KnownUpTo(message, lost, server'[s].row.run)
      PROVE  MessagesNumbered'
  <2>1. \A r \in RunNumbers : slot'[r] # 0 => message'[r] # "none"
    BY <1>1, <1>c DEF MessagesNumbered
  <2>2. row'.status = "absent" => UsedUpTo(message', 0)
    BY <1>1, <1>c, RunKept, UsedStays DEF MessagesNumbered
  <2>3. Stored' => UsedUpTo(message', row'.run + 1)
    BY <1>1, <1>a, <1>c, RunKept, UsedStays DEF MessagesNumbered
  <2>4. Stored' /\ NoRecord' => KnownUpTo(message', lost', row'.run)
    <3> SUFFICES ASSUME Stored', NoRecord' PROVE KnownUpTo(message', lost', row'.run)
      OBVIOUS
    <3>1. CASE ~Stored
      <4>1. UsedUpTo(message', row'.run)
        BY <1>1, <1>a, <1>c, <3>1, RunKept, UsedStays DEF MessagesNumbered
      <4> QED BY <4>1 DEF UsedUpTo, KnownUpTo
    <3>2. CASE Stored /\ NoRecord
      BY <1>1, <1>a, <1>c, <1>d, <3>2, RunKept, KnownStays DEF MessagesNumbered
    <3>3. CASE Stored /\ row.run + 1 \in lost'
      BY <1>1, <1>a, <1>c, <3>3, RunKept, LostKnown DEF MessagesNumbered
    <3> QED BY <1>1, <3>1, <3>2, <3>3
  <2>5. \A s \in Servers : server'[s].pc \in Works => UsedUpTo(message', server'[s].row.run + 1)
    BY <1>1, UsedStays
  <2>6. \A s \in Servers :
          server'[s].pc \in Works \ Admitted => KnownUpTo(message', lost', server'[s].row.run)
    BY <1>1, <1>d, KnownStays
  <2> QED BY <2>1, <2>2, <2>3, <2>4, <2>5, <2>6 DEF MessagesNumbered, UsedUpTo, KnownUpTo, Stored
\* The servers stay where they are.
<1>2. ASSUME server' = server, slot' = slot, NoMore, None PROVE MessagesNumbered'
  <2>1. \A s \in Servers : ~Record(s)
    BY <1>2, LeavesType DEF Record, Inv
  <2> QED BY <1>1, <1>2, <1>a, <1>c, <2>1 DEF MessagesNumbered
<1>3. CASE Clients \/ RetryElapses \/ TimePasses \/ LeaseExpires \/ LeaseLapses \/ UNCHANGED scheduleVars
      \/ \E s \in Servers : Heartbeats(s)
  <2>1. UNCHANGED <<server, message, slot>>
    BY <1>3 DEF Clients, Pause, Resume, RemoveRow, Create, RetryElapses, TimePasses,
                LeaseExpires, LeaseLapses, Heartbeats, scheduleVars
  <2> QED BY <1>2, <2>1 DEF NoMore
<1>4. ASSUME NEW s \in Servers, Delivers(s) PROVE MessagesNumbered'
  BY <1>2, <1>4, <1>a DEF Delivers, NoMore
\* A server leaves its work, by an exit or a failure.
<1>5. ASSUME NEW s \in Servers, UNCHANGED <<message, slot>>, lost' = lost \cup Unrecorded(s), ~Record(s),
             server'[s].pc \notin Works, \A t \in Servers : t # s => server'[t] = server[t]
      PROVE  MessagesNumbered'
  <2>1. \A t \in Servers : ~Record(t)
    <3>1. \A t \in Servers : Record(t) => server[t].pc = "record" /\ server'[t].pc = "after"
      BY LeavesType DEF Record, Inv
    <3> QED BY <1>5, <3>1
  <2>2. ASSUME NoRecord', Stored, ~NoRecord PROVE row.run + 1 \in lost'
    <3>1. server[s].pc \in Admitted
      BY <1>5, <2>2 DEF Admitted, Works
    <3>2. row.run = server[s].row.run
      BY <1>c, <2>2, <3>1 DEF ReadHolds, Admitted, Works
    <3> QED BY <1>5, <3>1, <3>2 DEF Unrecorded, RunOf, Admitted
  <2> QED BY <1>1, <1>5, <1>a, <1>c, <2>1, <2>2 DEF NoMore, MessagesNumbered
<1>6. ASSUME NEW s \in Servers, Exits(s) PROVE MessagesNumbered'
  <2>1. server'[s].pc = "loop" /\ \A t \in Servers : t # s => server'[t] = server[t]
    BY <1>a, <1>6 DEF Exits, Boots
  <2>2. ~Record(s)
    BY <2>1, LeavesType DEF Record, Inv
  <2> QED BY <1>5, <1>6, <2>1, <2>2 DEF Exits, Works
<1>7. ASSUME NEW s \in Servers, Loops(s), ~Prompt(s), ~Record(s) PROVE MessagesNumbered'
  <2>1. UNCHANGED <<message, slot>> /\ \A t \in Servers : t # s => server'[t] = server[t]
    <3>1. UNCHANGED <<message, slot>>
      BY <1>7 DEF Loops, LoopBegins, Claim, Rewake, Tick, TickEnds, Fires, Step, Look, Skip, Check,
                  StepFails, Wake
    <3> QED BY <1>7, <1>a, <3>1, OthersKept
  <2>2. CASE StepFails(s)
    <3>1. server'[s].pc \notin Works
      BY <2>2, LeavesType DEF StepFails, Inv, Works
    <3> QED BY <1>5, <1>7, <2>1, <2>2, <3>1 DEF StepFails
  <2>3. CASE ~StepFails(s)
    <3>1. \A t \in Servers : ~Record(t)
      <4>1. \A t \in Servers : Record(t) => server[t].pc = "record" /\ server'[t].pc = "after"
        BY LeavesType DEF Record, Inv
      <4> QED BY <1>7, <2>1, <4>1
    <3>2. server'[s].pc \in Works =>
            \/ server'[s].row = row /\ Stored /\ server[s].pc = "tick" /\ server'[s].pc = "step"
            \/ server'[s].row = server[s].row /\ server[s].pc \in Works \ Admitted
            \/ server'[s].row = server[s].row /\ server[s].pc \in Works /\ server'[s].pc \in Admitted
      BY <1>7, WorkGoesOn DEF Stored, Works, Admitted
    <3>3. server[s].pc \in Admitted => server'[s].pc \in Admitted
      <4>1. server[s].pc \in Admitted => Wake(s)
        BY <1>7, <2>3 DEF Loops, LoopBegins, Claim, Rewake, Tick, TickEnds, Fires, Step, Look, Skip,
           Check, Admitted
      <4>2. Wake(s) => server'[s].pc = "record"
        BY <1>a DEF Wake, Steps, ServerState
      <4> QED BY <4>1, <4>2 DEF Admitted
    <3>4. NoRecord' => NoRecord
      BY <2>1, <3>3
    <3>5. server[s].pc = "tick" => NoRecord
      BY <1>b DEF Admitted, Works
    <3>6. ASSUME NEW t \in Servers, server'[t].pc \in Works
          PROVE  /\ UsedUpTo(message, server'[t].row.run + 1) /\ server'[t].row.run \in Nat
                 /\ server'[t].pc \notin Admitted => KnownUpTo(message, lost, server'[t].row.run)
      <4>1. CASE t # s
        BY <1>a, <1>c, <2>1, <3>6, <4>1 DEF MessagesNumbered
      <4>2. CASE t = s
        BY <1>a, <1>c, <3>2, <3>5, <3>6, <4>2 DEF MessagesNumbered
      <4> QED BY <4>1, <4>2
    <3>7. NoMore /\ None
      BY <2>1 DEF NoMore
    <3> HIDE DEF None, NoRecord
    <3> QED BY <1>1, <2>1, <3>1, <3>4, <3>6, <3>7
  <2> QED BY <2>2, <2>3
<1>8. ASSUME NEW s \in Servers, Prompt(s) PROVE MessagesNumbered'
  <2> DEFINE r == server[s].row.run + 1
  <2>1. /\ server[s].pc = "prompt" /\ server'[s].pc = "waking" /\ server'[s].row = server[s].row
        /\ \A t \in Servers : t # s => server'[t] = server[t] /\ server[t].pc \notin Works
        /\ UNCHANGED <<row, lost>>
    BY <1>8, <1>a, <1>b DEF Prompt, Steps, ServerState, Works, histories
  <2>2. r \in RunNumbers
    BY <1>a, <1>c, <2>1, BoundsAssumption DEF ReadPlanned, Works, RunNumbers
  <2>3. \A q \in RunNumbers : message'[q] # "none" => message[q] # "none" \/ q = r
    BY <1>8, <1>a, <2>2 DEF Prompt, RunOf
  <2>4. \A q \in RunNumbers : slot'[q] # 0 => message'[q] # "none"
    BY <1>8, <1>a, <1>c, <2>2 DEF Prompt, RunOf, MessagesNumbered
  <2>5. UsedUpTo(message', server[s].row.run + 1)
    <3>1. UsedUpTo(message, r)
      BY <1>c, <2>1 DEF MessagesNumbered, Works
    <3>2. r \in Nat
      BY <1>a
    <3> HIDE DEF r
    <3>3. UsedUpTo(message', r)
      BY <2>3, <3>1, <3>2 DEF UsedUpTo
    <3> QED BY <3>3 DEF r
  <2>6. row.status # "absent" /\ (Stored => row.run = server[s].row.run)
    BY <1>c, <2>1 DEF ReadHolds, ReadPlanned, Works
  <2> QED BY <2>1, <2>4, <2>5, <2>6 DEF MessagesNumbered, UsedUpTo, KnownUpTo, Stored, Admitted
<1>9. ASSUME NEW s \in Servers, Record(s) PROVE MessagesNumbered'
  <2>1. /\ server[s].pc = "record" /\ server'[s].pc = "after"
        /\ \A t \in Servers : t # s => server'[t] = server[t] /\ server[t].pc \notin Works
        /\ UNCHANGED <<message, slot, lost>>
    BY <1>9, <1>b, LeavesType DEF Record, Inv, Works, histories
  <2>2. row.status # "absent" /\ (Stored => row'.run = server[s].row.run + 1)
    BY <1>9, <1>c, <2>1, RecordWrites DEF ReadPlanned, Works
  <2>3. row'.status # "absent" /\ (Stored' => Stored)
    BY <1>9, <2>2, LoopsKeepPlan DEF Loops, Fires
  <2>4. UsedUpTo(message, server[s].row.run + 1)
    BY <1>c, <2>1 DEF MessagesNumbered, Works
  <2>5. Stored' => UsedUpTo(message', row'.run) /\ UsedUpTo(message', row'.run + 1)
    BY <1>a, <2>1, <2>2, <2>3, <2>4, UsedStays DEF NoMore
  <2>6. \A q \in RunNumbers : slot'[q] # 0 => message'[q] # "none"
    BY <1>c, <2>1 DEF MessagesNumbered
  <2>7. \A t \in Servers : server'[t].pc \notin Works
    BY <2>1 DEF Works
  <2> QED BY <2>3, <2>5, <2>6, <2>7 DEF MessagesNumbered, UsedUpTo, KnownUpTo, Stored
<1> QED BY <1>3, <1>4, <1>6, <1>7, <1>8, <1>9 DEF ScheduleNext

-----------------------------------------------------------------------------
(* Slots *)

\* A later next slot, or the same one of the same run, still has every prompted
\* slot before it.
LEMMA SlotsStay ==
  ASSUME Inv, NEW r, NEW q, SlotsBefore(r), r.due \in Nat, q.due \in Nat,
         r.due < q.due \/ (r.due = q.due /\ r.run = q.run /\ r.mode = q.mode)
  PROVE  SlotsBefore(q)
BY BoundsAssumption DEF Inv, ScheduleTypeOK, SlotsBefore, Slots

\* More lost records leave it so.
LEMMA SlotsBeforeLost ==
  ASSUME NEW r, SlotsBefore(r), slot' = slot, lost \subseteq lost'
  PROVE  \A q \in RunNumbers :
           slot'[q] <= r.due /\ (slot'[q] = r.due => q = r.run + 1 \/ (q \in lost' /\ r.mode # "none"))
BY DEF SlotsBefore

\* Every slot prompted for lies before the row's next one, and no two runs had
\* the same, but for what a check may hide of a lost one.
LEMMA SlotsStep ==
  ASSUME Inv, ~overtaken, [ScheduleNext]_scheduleVars
  PROVE  SlotsOrdered'
<1>a. /\ row.run \in Nat /\ row'.run \in Nat /\ row.due \in Nat /\ row'.due \in Nat
      /\ \A s \in Servers : /\ server[s].row.run \in Nat /\ server[s].row.due \in Nat
                            /\ server[s].now \in Nat
      /\ server \in [Servers -> ServerState]
      /\ message \in [RunNumbers -> {"none", "pending", "delivered"}]
      /\ slot \in [RunNumbers -> {0} \cup Slots]
      /\ (row.status = "active" => row.due # 0)
  BY TypeStep, BoundsAssumption DEF Inv, ScheduleTypeOK, ServerState, Rows, Slots
<1>b. \A s, t \in Servers : server[s].pc \in Works /\ server[t].pc \in Works => s = t
  BY DEF Inv, InvAlone, Alone, Works, Ticking
<1>c. MessagesNumbered /\ SlotsOrdered /\ \A s \in Servers : ReadHolds(s) /\ ReadPlanned(s)
  BY DEF Inv, InvAlone
<1>d. lost \subseteq lost'
  BY HistoriesGrow
\* Steps that prompt for no slot.
<1>1. ASSUME slot' = slot, row'.mode = row.mode,
             Goes(row') => SlotsBefore(row'),
             \A s \in Servers : server'[s].pc \in Works =>
               /\ SlotsBefore(server'[s].row)
               /\ server'[s].pc \in Admitted =>
                    /\ server[s].pc \in Admitted
                    /\ server'[s].row = server[s].row /\ server'[s].kind = server[s].kind
      PROVE  SlotsOrdered'
  <2>1. Goes(row') => SlotsBefore(row)'
    BY <1>1, <1>d, SlotsBeforeLost DEF SlotsBefore
  <2>2. \A s \in Servers : server'[s].pc \in Works => SlotsBefore(server[s].row)'
    BY <1>1, <1>d, SlotsBeforeLost DEF SlotsBefore
  <2>3. \A s \in Servers :
          server'[s].pc \in Admitted /\ server'[s].kind = "strike" /\ RunOf(s)' \notin lost' =>
            slot'[RunOf(s)'] = 0
    <3> SUFFICES ASSUME NEW s \in Servers, server'[s].pc \in Admitted, server'[s].kind = "strike",
                        RunOf(s)' \notin lost'
                 PROVE  slot'[RunOf(s)'] = 0
      OBVIOUS
    <3>1. RunOf(s)' = RunOf(s) /\ server[s].pc \in Admitted /\ server[s].kind = "strike"
      BY <1>1 DEF RunOf, Admitted, Works
    <3> QED BY <1>1, <1>c, <1>d, <3>1 DEF SlotsOrdered
  <2>4. \A q, r \in RunNumbers :
          slot'[q] = slot'[r] /\ slot'[q] # 0 /\ q # r => row'.mode # "none" /\ {q, r} \cap lost' # {}
    BY <1>1, <1>c, <1>d DEF SlotsOrdered
  <2> QED BY <2>1, <2>2, <2>3, <2>4 DEF SlotsOrdered, Goes
\* The row is as before, and so are the servers at work.
<1>2. ASSUME slot' = slot, row' = row,
             \A s \in Servers : server'[s].pc \in Works => server'[s] = server[s]
      PROVE  SlotsOrdered'
  BY <1>1, <1>2, <1>c DEF SlotsOrdered
<1>3. ASSUME Clients \/ RetryElapses, row.status # "absent" PROVE SlotsOrdered'
  <2>1. RowKept /\ UNCHANGED <<server, slot>>
    BY <1>3, ClientsKeep DEF Clients, Pause, Resume, RemoveRow, Create, RetryElapses
  <2>2. row'.mode = row.mode
    BY <1>3, <2>1 DEF RowKept
  <2>3. Goes(row') => Goes(row) /\ row.due <= row'.due /\ row.run = row'.run
    <3>1. CASE row.status \in {"active", "paused"}
      BY <1>3, <2>1, <3>1 DEF RowKept, Goes, Stored
    <3>2. CASE row.status \notin {"active", "paused"}
      <4>1. row'.status \in {row.status, "removed"}
        BY <1>3, <3>2 DEF Clients, Pause, Resume, RemoveRow, Create, RetryElapses, Inv,
           ScheduleTypeOK, Rows, NoRow
      <4> QED BY <3>2, <4>1 DEF Goes
    <3> QED BY <3>1, <3>2
  <2>4. Goes(row') => SlotsBefore(row')
    BY <1>a, <1>c, <2>2, <2>3, SlotsStay DEF SlotsOrdered
  <2> QED BY <1>1, <1>c, <2>1, <2>2, <2>4 DEF SlotsOrdered
<1>4. ASSUME Clients \/ RetryElapses, row.status = "absent" PROVE SlotsOrdered'
  <2>1. \A q \in RunNumbers : slot[q] = 0
    BY <1>4, <1>a, <1>c DEF MessagesNumbered, UsedUpTo, RunNumbers
  <2>2. \A s \in Servers : server[s].pc \notin Works
    BY <1>4, <1>c DEF ReadPlanned
  <2>3. UNCHANGED <<server, slot>>
    BY <1>4 DEF Clients, Pause, Resume, RemoveRow, Create, RetryElapses
  <2> QED BY <1>a, <2>1, <2>2, <2>3 DEF SlotsOrdered, SlotsBefore, Goes, Works, Admitted
<1>5. ASSUME NEW s \in Servers, Loops(s), ~Prompt(s) PROVE SlotsOrdered'
  <2>1. slot' = slot /\ \A t \in Servers : t # s => server'[t] = server[t]
    <3>1. slot' = slot
      BY <1>5 DEF Loops, LoopBegins, Claim, Rewake, Tick, TickEnds, Fires, Step, Look, Skip, Check,
                  StepFails, Wake, Record
    <3> QED BY <1>5, <1>a, <3>1, OthersKept
  <2>2. row'.mode = row.mode
    BY <1>5, LoopsKeepPlan
  <2>3. server'[s].pc \in Works =>
          \/ server'[s].row = row /\ Goes(row) /\ server'[s].pc \notin Admitted
          \/ /\ server'[s].row = server[s].row /\ server[s].pc \in Works
             /\ server'[s].pc \in Admitted =>
                  server[s].pc \in Admitted /\ server'[s].kind = server[s].kind
    BY <1>5, <1>a, WorkGoesOn DEF Goes, Works, Admitted
  <2>4. \A t \in Servers : server'[t].pc \in Works =>
          /\ SlotsBefore(server'[t].row)
          /\ server'[t].pc \in Admitted =>
               /\ server[t].pc \in Admitted
               /\ server'[t].row = server[t].row /\ server'[t].kind = server[t].kind
    BY <1>c, <2>1, <2>3 DEF SlotsOrdered
  <2>5. ASSUME row' # row, Goes(row') PROVE SlotsBefore(row')
    <3> DEFINE read == server[s].row
    <3>1. server[s].pc \in Works
      BY <1>5, <2>5, LoopsWrite
    <3>2. /\ SlotsBefore(read) /\ read.due # 0 /\ read.due <= server[s].now
          /\ row.mode = read.mode
          /\ Stored => row.run = read.run /\ (row.due # 0 => read.due <= row.due)
      BY <1>c, <3>1 DEF ReadHolds, ReadPlanned, SlotsOrdered
    <3>3. read.due \in Nat /\ server[s].now \in Nat /\ read.run \in Nat
      BY <1>a
    <3>4. read.due < row'.due => SlotsBefore(row')
      BY <1>a, <3>2, <3>3, SlotsStay
    <3>5. CASE Look(s) \/ Skip(s) \/ Check(s) \/ StepFails(s)
      <4>1. row.status = "active" /\ row'.run = row.run
            /\ (row'.due = row.due \/ row'.due > server[s].now)
        BY <2>5, <3>5, TickWrites DEF Goes
      <4>2. SlotsBefore(row)
        BY <1>a, <1>c, <4>1 DEF SlotsOrdered, Goes
      <4>3. CASE row'.due = row.due
        BY <1>a, <2>2, <4>1, <4>2, <4>3, SlotsStay
      <4>4. CASE row'.due > server[s].now
        BY <1>a, <3>2, <3>3, <3>4, <4>4
      <4> QED BY <4>1, <4>3, <4>4
    <3>6. CASE Record(s)
      <4>1. Stored
        BY <2>5, <3>6 DEF Record, RecordStored
      <4>2. CASE row'.due > server[s].now
        BY <1>a, <3>2, <3>3, <3>4, <4>2
      <4>3. CASE server[s].kind = "strike" /\ row'.due = row.due
        <5>1. server[s].pc = "record" /\ read.mode # "none"
          BY <1>c, <3>6, <4>3 DEF Record, ReadPlanned, Works
        <5>2. read.run + 1 \notin lost => slot[read.run + 1] = 0
          BY <1>c, <4>3, <5>1 DEF SlotsOrdered, RunOf, Admitted
        <5>3. read.due <= row'.due
          BY <2>5, <3>2, <4>1, <4>3 DEF Goes
        <5>4. \A q \in RunNumbers : slot[q] <= read.due /\ (slot[q] = read.due => q \in lost)
          BY <3>2, <5>2 DEF SlotsBefore
        <5>5. \A q \in RunNumbers : slot[q] \in Nat
          BY <1>a, BoundsAssumption DEF Slots
        <5>6. \A q \in RunNumbers : slot[q] <= row'.due /\ (slot[q] = row'.due => q \in lost)
          <6> HIDE DEF read
          <6> QED BY <1>a, <3>3, <5>3, <5>4, <5>5
        <5> QED BY <2>2, <3>2, <5>1, <5>6 DEF SlotsBefore
      <4> QED BY <2>5, <3>6, <4>1, <4>2, <4>3, RecordWrites DEF Goes
    <3> QED BY <1>5, <2>5, <3>5, <3>6 DEF Loops, LoopBegins, Claim, Rewake, Tick, TickEnds, Fires,
                                        Step, Wake
  <2>6. Goes(row') => SlotsBefore(row')
    BY <1>c, <2>5 DEF SlotsOrdered
  <2> QED BY <1>1, <2>1, <2>2, <2>4, <2>6
<1>6. ASSUME NEW s \in Servers, Prompt(s) PROVE SlotsOrdered'
  <2> DEFINE read == server[s].row
             r == read.run + 1
  <2>1. /\ server[s].pc = "prompt" /\ server'[s].pc = "waking" /\ server'[s].row = read
        /\ server'[s].kind = server[s].kind
        /\ \A t \in Servers : t # s => server'[t] = server[t] /\ server[t].pc \notin Works
        /\ UNCHANGED <<row, lost>>
    BY <1>6, <1>a, <1>b DEF Prompt, Steps, ServerState, Works, histories
  <2>2. /\ SlotsBefore(read) /\ read.due # 0 /\ read.run < MaxRuns /\ row.mode = read.mode
        /\ Stored => row.run = read.run /\ (row.due # 0 => read.due <= row.due)
    BY <1>c, <2>1 DEF SlotsOrdered, ReadHolds, ReadPlanned, Works
  <2>3. r \in RunNumbers /\ read.due \in Nat /\ read.run \in Nat
    BY <1>a, <2>2, BoundsAssumption DEF RunNumbers
  <2>4. r \notin lost => message[r] = "none"
    BY <1>c, <2>1, <2>3 DEF MessagesNumbered, KnownUpTo, Works, Admitted
  <2> HIDE DEF read
  <2>5. \/ slot' = slot /\ message[r] # "none"
        \/ slot' = [slot EXCEPT ![r] = IF server[s].kind = "strike" THEN 0 ELSE read.due]
    BY <1>6 DEF Prompt, RunOf, read
  <2> HIDE DEF r
  <2>6. \A q \in RunNumbers : slot'[q] = slot[q] \/ (q = r /\ slot'[q] \in {0, read.due})
    BY <1>a, <2>3, <2>5
  <2>7. \A q \in RunNumbers : slot[q] \in Nat /\ slot'[q] \in Nat
    BY <1>a, <2>3, <2>6, BoundsAssumption DEF Slots
  <2>8. \A q \in RunNumbers :
          slot'[q] <= read.due /\ (slot'[q] = read.due => q = r \/ (q \in lost /\ read.mode # "none"))
    BY <2>2, <2>3, <2>6, <2>7 DEF SlotsBefore, r
  <2>9. Goes(row) => SlotsBefore(row)'
    <3> SUFFICES ASSUME Goes(row), NEW q \in RunNumbers
                 PROVE  /\ slot'[q] <= row.due
                        /\ slot'[q] = row.due => q = row.run + 1 \/ (q \in lost /\ row.mode # "none")
      BY <2>1 DEF SlotsBefore
    <3>1. row.run = read.run /\ read.due <= row.due
      BY <2>2 DEF Goes, Stored
    <3> QED BY <1>a, <2>2, <2>3, <2>7, <2>8, <3>1 DEF r
  <2>10. SlotsBefore(server[s].row)'
    BY <2>1, <2>8 DEF SlotsBefore, r
  <2>11. r \notin lost /\ server[s].kind = "strike" => slot'[r] = 0
    BY <1>a, <2>3, <2>4, <2>5
  <2>12. \A q, p \in RunNumbers :
           slot'[q] = slot'[p] /\ slot'[q] # 0 /\ q # p => row.mode # "none" /\ {q, p} \cap lost # {}
    <3> SUFFICES ASSUME NEW q \in RunNumbers, NEW p \in RunNumbers,
                        slot'[q] = slot'[p], slot'[q] # 0, q # p
                 PROVE  row.mode # "none" /\ (q \in lost \/ p \in lost)
      OBVIOUS
    <3>1. CASE slot'[q] = slot[q] /\ slot'[p] = slot[p]
      BY <1>c, <3>1 DEF SlotsOrdered
    <3>2. CASE slot'[q] = read.due
      BY <2>2, <2>8, <3>2
    <3>3. CASE slot'[p] = read.due
      BY <2>2, <2>8, <3>3
    <3> QED BY <2>6, <3>1, <3>2, <3>3
  <2>13. \A t \in Servers : t # s => server'[t].pc \notin Works
    BY <2>1
  <2>14. RunOf(s)' = r
    BY <2>1 DEF RunOf, r
  <2> QED BY <2>1, <2>9, <2>10, <2>11, <2>12, <2>13, <2>14 DEF SlotsOrdered, SlotsBefore, Goes, Works, Admitted, read
<1>7. ASSUME NEW s \in Servers, Delivers(s) \/ Exits(s) PROVE SlotsOrdered'
  BY <1>2, <1>7, <1>a DEF Delivers, Exits, Boots, Works
<1>8. CASE TimePasses \/ LeaseExpires \/ LeaseLapses \/ UNCHANGED scheduleVars
      \/ \E s \in Servers : Heartbeats(s)
  BY <1>2, <1>8 DEF TimePasses, LeaseExpires, LeaseLapses, Heartbeats, scheduleVars
<1> QED BY <1>3, <1>4, <1>5, <1>6, <1>7, <1>8 DEF ScheduleNext

-----------------------------------------------------------------------------
(* The theorems *)

\* The strengthening holds initially.
LEMMA InitInv == ScheduleInit => Inv
<1> SUFFICES ASSUME ScheduleInit PROVE Inv
  OBVIOUS
<1>1. ScheduleTypeOK
  <2>1. NoRow.status # "active"
    BY DEF NoRow
  <2>2. server \in [Servers -> ServerState]
    BY BootsType DEF ScheduleInit
  <2>3. 0 \in 0..MaxSlots /\ 0 \in 0..MaxFaults
    BY BoundsAssumption
  <2>4. /\ message \in [RunNumbers -> {"none", "pending", "delivered"}]
        /\ slot \in [RunNumbers -> {0} \cup Slots]
    BY DEF ScheduleInit
  <2> QED BY NoRowType, <2>1, <2>2, <2>3, <2>4 DEF ScheduleInit, ScheduleTypeOK
<1>2. /\ \A s \in Servers : server[s] = Boots
      /\ Boots.pc = "loop" /\ ~Boots.leading /\ Boots.now = 0
      /\ row = NoRow /\ NoRow.due = 0 /\ NoRow.status = "absent" /\ now = 0
  BY DEF ScheduleInit, Boots, NoRow
<1>3. RunsLeft(row) /\ LeaseHeld /\ Alone /\ \A s \in Servers : ReadPlanned(s) /\ ReadHolds(s)
  BY <1>2 DEF RunsLeft, LeaseHeld, Alone, ReadPlanned, ReadHolds, Ticks, Ticking, Works
<1>4. MessagesNumbered /\ SlotsOrdered
  BY <1>2 DEF ScheduleInit, MessagesNumbered, UsedUpTo, KnownUpTo, SlotsOrdered, SlotsBefore, Goes, Stored,
              Works, Admitted
<1> QED BY <1>1, <1>3, <1>4 DEF Inv, InvAlone

\* The strengthening is inductive.
LEMMA InvStep == Inv /\ [ScheduleNext]_scheduleVars => Inv'
<1> SUFFICES ASSUME Inv, [ScheduleNext]_scheduleVars PROVE Inv'
  OBVIOUS
<1>1. ScheduleTypeOK' /\ RunsLeft(row)' /\ \A s \in Servers : ReadPlanned(s)'
  BY TypeStep, RunsStep, PlannedStep DEF RunsLeft
<1>2. (stalls = 0 => LeaseHeld)'
  BY LeaseStep
<1>3. (~overtaken => InvAlone)'
  <2>1. ~overtaken' => ~overtaken
    BY HistoriesGrow
  <2> QED BY <2>1, AloneStep, ReadStep, MessagesStep, SlotsStep DEF InvAlone
<1> QED BY <1>1, <1>2, <1>3 DEF Inv

\* Hence it holds in every reachable state.
LEMMA Invariance == ScheduleSpec => []Inv
BY InitInv, InvStep, PTL DEF ScheduleSpec

\* Every state of the task, its servers and its messages has its type; a row that
\* is active always has a slot to wait for.
THEOREM ScheduleTypes == ScheduleSpec => []ScheduleTypeOK
<1>1. Inv => ScheduleTypeOK
  BY DEF Inv
<1> QED BY <1>1, Invariance, PTL

\* While no lease has run out under a live server, at most one of those that share
\* the database ticks, whatever exits and whatever lease it leaves or releases.
THEOREM OneTicks == ScheduleSpec => []OneServerTicks
<1>1. Inv => OneServerTicks
  BY DEF Inv, LeaseHeld, OneServerTicks, Ticks
<1> QED BY <1>1, Invariance, PTL

\* Until a stalled leader is overtaken in its tick no slot is prompted for twice,
\* but by a schedule with a check and a run whose record was lost.
THEOREM SlotsFireOnce == ScheduleSpec => []SlotFiresOnce
<1>1. Inv => SlotFiresOnce
  BY DEF Inv, InvAlone, SlotsOrdered, SlotFiresOnce
<1> QED BY <1>1, Invariance, PTL

\* A firing finds its message ID unused, unless the record of that very run was
\* lost, or a stalled leader was overtaken in its tick.
THEOREM FiringsPrompt == ScheduleSpec => EveryFiringPrompts
<1>1. ASSUME Inv, NEW s \in Servers, server[s].pc = "prompt", ~overtaken, RunOf(s) \notin lost
      PROVE  message[RunOf(s)] = "none"
  <2>1. ReadPlanned(s) /\ server[s].row.run \in Nat
    BY <1>1, BoundsAssumption DEF Inv, ScheduleTypeOK, ServerState, Rows
  <2>2. server[s].row.run < MaxRuns /\ KnownUpTo(message, lost, server[s].row.run)
    BY <1>1, <2>1 DEF Inv, InvAlone, MessagesNumbered, ReadPlanned, Works, Admitted
  <2> QED BY <1>1, <2>1, <2>2, BoundsAssumption DEF KnownUpTo, RunOf, RunNumbers
<1>2. Inv => [\A s \in Servers :
                server[s].pc = "prompt" /\ server'[s].pc = "waking" /\ ~overtaken
                  /\ RunOf(s) \notin lost => message[RunOf(s)] = "none"]_scheduleVars
  BY <1>1
<1> QED BY <1>2, Invariance, PTL DEF EveryFiringPrompts

\* Only a client makes a paused row active again: the tick's writes need an active
\* row, and a record keeps a status that changed meanwhile.
THEOREM PausesStick == ScheduleSpec => PauseSticks
<1>1. Inv /\ [ScheduleNext]_scheduleVars =>
        [row.status = "paused" /\ row'.status = "active" => UNCHANGED <<server, lease>>]_scheduleVars
  <2> SUFFICES ASSUME Inv, ScheduleNext, row.status = "paused", row'.status = "active"
               PROVE  UNCHANGED <<server, lease>>
    OBVIOUS
  <2>1. ASSUME NEW s \in Servers, Loops(s) PROVE FALSE
    <3>1. CASE Look(s) \/ Skip(s) \/ Check(s) \/ StepFails(s)
      BY <3>1, TickWrites
    <3>2. CASE Record(s)
      <4>1. Stored
        BY DEF Stored
      <4> QED BY <3>2, <4>1, RecordWrites
    <3> QED BY <2>1, <3>1, <3>2 DEF Loops, LoopBegins, Claim, Rewake, Tick, TickEnds, Fires, Step,
                                  Prompt, Wake
  <2>2. CASE Clients \/ TimePasses \/ RetryElapses \/ LeaseExpires \/ LeaseLapses
    BY <2>2 DEF Clients, Pause, Resume, RemoveRow, Create, TimePasses, RetryElapses, LeaseExpires,
                LeaseLapses
  <2>3. ASSUME NEW s \in Servers, Heartbeats(s) \/ Delivers(s) \/ Exits(s) PROVE FALSE
    BY <2>3 DEF Heartbeats, Delivers, Exits
  <2> QED BY <2>1, <2>2, <2>3 DEF ScheduleNext
<1> QED BY <1>1, Invariance, PTL DEF ScheduleSpec, PauseSticks
=============================================================================
