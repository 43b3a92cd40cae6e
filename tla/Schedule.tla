-------------------------------- MODULE Schedule --------------------------------
(***************************************************************************)
(* One scheduled task (schedule.ts) and the servers that share its         *)
(* database: the leader lease, the loop that ticks, the firing of a row    *)
(* step by step, and the clients that pause, resume and remove it.         *)
(*                                                                         *)
(* Time is counted in slots of the schedule.  The lease runs out under a   *)
(* live leader only when that one stalls for LEADER_TTL, or its heartbeats *)
(* fail that long; it goes on with its tick all the same.                  *)
(* A server wakes at least every MAX_SLEEP, so its sleep and the doorbell  *)
(* that shortens it are no states; a stopped server starts again at once.  *)
(* The Session is external: a wake makes it take what is pending.          *)
(***************************************************************************)
EXTENDS Naturals, FiniteSets

CONSTANTS
  Servers,
  Plans,        \* what may be created: once, mode of the check, times, ends
  MaxFailures,  \* MAX_CHECK_FAILURES
  MaxSlots,     \* bound: the clock
  MaxRuns,      \* bound: firings of the row
  MaxFaults,    \* bound: exits of a server, and leases that run out under a live one
  Stalling      \* bound: the modes of checks under which a lease does so

ASSUME BoundsAssumption ==
  MaxFailures \in Nat \ {0} /\ MaxSlots \in Nat /\ MaxRuns \in Nat \ {0}
  /\ MaxFaults \in Nat

ASSUME ServersAssumption == {"none", "dead"} \cap Servers = {}

Modes == {"none", "if", "until"}

ASSUME PlansAssumption == Plans \subseteq [once : BOOLEAN, mode : Modes, times : Nat, ends : Nat]

VARIABLES
  now,      \* the clock
  row,      \* the row of ScheduleTable
  lease,    \* owner of the leader row: a server, "dead" (an exited one), "none"
  server,   \* per server: where its loop is, what it has read, what it remembers
  message,  \* run -> the prompt msg_<row>_<run>: none, pending or delivered
  slot,     \* history: run -> the slot it was admitted for, 0 for a notice
  awake,    \* the servers in which the Session was woken and has not looked yet
  crashes,  \* history: exits so far
  lost,     \* history: the runs admitted whose firing exited or failed before its record
  stalls,   \* history: how often the lease ran out under a live server
  overtaken \* history: a server claimed the lease while another was in its tick

histories == <<crashes, lost, stalls, overtaken>>
scheduleVars == <<now, row, lease, server, message, slot, awake, histories>>

RunNumbers == 1..MaxRuns
Slots == 1..(MaxSlots + 1)

NoRow == [once |-> FALSE, mode |-> "none", times |-> 0, ends |-> 0, status |-> "absent",
          due |-> 0, run |-> 0, remaining |-> 0, last |-> 0, failures |-> 0, retry |-> FALSE]
Boots == [pc |-> "loop", leading |-> FALSE, bootChecked |-> FALSE, active |-> FALSE,
          now |-> 0, row |-> NoRow, kind |-> "none"]

ScheduleInit ==
  /\ now = 0 /\ row = NoRow /\ lease = "none"
  /\ server = [s \in Servers |-> Boots]
  /\ message = [r \in RunNumbers |-> "none"] /\ slot = [r \in RunNumbers |-> 0]
  /\ awake = {} /\ crashes = 0 /\ lost = {} /\ stalls = 0 /\ overtaken = FALSE

HasActiveRows == row.status = "active"
Stored == row.status \notin {"absent", "removed"}
\* last_message_id is pending.
LastPending(r) == r.last # 0 /\ message[r.last] = "pending"

\* following: the first slot after t; 0 for one-shots.
Following(r, t) == IF r.once THEN 0 ELSE t + 1

\* Mutant: a one-shot is not told from a repeating schedule.
FinishedTimes(r, next, remaining) ==
  (r.times # 0 /\ remaining = 0) \/ (r.ends # 0 /\ next > r.ends)
Finished(r, next, remaining) ==
  next = 0 \/ (r.times # 0 /\ remaining = 0) \/ (r.ends # 0 /\ next > r.ends)

\* Mutant: a write of the tick does not look at the status.
UpdateAny(values) == row' = IF Stored THEN values ELSE row
\* update: the tick's writes apply to a row that is still active.
Update(values) == row' = IF row.status = "active" THEN values ELSE row

\* claimLeader succeeds: the lease is free, expired or the server's own.
MayLead(s) == lease \in {"none", s}

\* Mutant: the lease is deleted whoever owns it.
ReleasedAny(s) == "none"
\* releaseLeader deletes only the server's own lease.
Released(s) == IF lease = s THEN "none" ELSE lease

Steps(s, pc) == server' = [server EXCEPT ![s].pc = pc]
\* The tick of s is over, and what it read is forgotten.
Leaves(s) == server' = [server EXCEPT ![s] = [@ EXCEPT !.pc = "after", !.now = 0, !.row = NoRow, !.kind = "none"]]

-----------------------------------------------------------------------------
(* Clients *)

Create(plan) ==
  /\ row.status = "absent"
  /\ \/ \E due \in (now + 1)..(IF plan.once THEN MaxSlots ELSE now + 1) :
          /\ plan.ends = 0 \/ due <= plan.ends
          /\ row' = [NoRow EXCEPT !.once = plan.once, !.mode = plan.mode, !.times = plan.times,
                       !.ends = plan.ends, !.status = "active", !.due = due, !.remaining = plan.times]
     \* The first evaluation of an until check matches: nothing is left to do.
     \/ /\ plan.mode = "until"
        /\ row' = [NoRow EXCEPT !.mode = "until", !.status = "done", !.run = 1]
  /\ UNCHANGED <<now, lease, server, message, slot, awake, histories>>

Pause ==
  /\ row.status = "active"
  /\ row' = [row EXCEPT !.status = "paused"]
  /\ UNCHANGED <<now, lease, server, message, slot, awake, histories>>

Resume ==
  /\ row.status = "paused"
  /\ LET skipped == IF row.once THEN row.due ELSE now + 1
         next == IF row.due > now THEN row.due ELSE skipped
         done == row.due = 0 \/ Finished(row, next, row.remaining)
     IN  row' = [row EXCEPT !.status = IF done THEN "done" ELSE "active",
                            !.due = IF done THEN 0 ELSE next, !.failures = 0, !.retry = FALSE]
  /\ UNCHANGED <<now, lease, server, message, slot, awake, histories>>

RemoveRow ==
  /\ Stored
  /\ row' = [NoRow EXCEPT !.status = "removed", !.mode = row.mode]
  /\ UNCHANGED <<now, lease, server, message, slot, awake, histories>>

-----------------------------------------------------------------------------
(* The loop *)

MayRest(s) == ~HasActiveRows /\ server[s].bootChecked

LoopBegins(s) ==
  /\ server[s].pc = "loop"
  /\ IF MayRest(s)
     THEN /\ lease' = IF server[s].leading THEN Released(s) ELSE lease
          /\ server' = [server EXCEPT ![s].leading = FALSE]
     ELSE /\ server' = [server EXCEPT ![s].pc = "claim", ![s].active = HasActiveRows, ![s].now = now]
          /\ UNCHANGED lease
  /\ UNCHANGED <<now, row, message, slot, awake, histories>>

\* Mutant: only a boot is followed by a rewake, not a change of the leader.
AfterClaimBoot(s) ==
  IF ~server[s].bootChecked THEN "rewake" ELSE IF server[s].active THEN "tick" ELSE "after"
AfterClaim(s) ==
  IF ~server[s].leading THEN "rewake" ELSE IF server[s].active THEN "tick" ELSE "after"

\* At work on a tick: from the claim to the last write.
Ticking == {"rewake", "tick", "step", "look", "skip", "check", "prompt", "waking", "record"}

Claim(s) ==
  /\ server[s].pc = "claim"
  /\ IF MayLead(s)
     THEN /\ lease' = s
          /\ server' = [server EXCEPT ![s].pc = AfterClaim(s), ![s].leading = TRUE,
                                      ![s].bootChecked = TRUE]
          /\ overtaken' = (overtaken \/ \E t \in Servers \ {s} : server[t].pc \in Ticking)
     ELSE /\ server' = [server EXCEPT ![s] = [Boots EXCEPT !.bootChecked = TRUE]]
          /\ UNCHANGED <<lease, overtaken>>
  /\ UNCHANGED <<now, row, message, slot, awake, crashes, lost, stalls>>

\* rewake: a new leader wakes the Session of a prompt that is still pending.
Rewake(s) ==
  /\ server[s].pc = "rewake"
  /\ awake' = IF Stored /\ LastPending(row) THEN awake \cup {s} ELSE awake
  /\ IF server[s].active THEN Steps(s, "tick") ELSE Leaves(s)
  /\ UNCHANGED <<now, row, lease, message, slot, histories>>

\* tickAt selects the active rows that are due and not backing off.
Tick(s) ==
  /\ server[s].pc = "tick"
  /\ IF row.status = "active" /\ row.due <= server[s].now /\ ~row.retry /\ row.run < MaxRuns
     THEN server' = [server EXCEPT ![s].pc = "step", ![s].row = row]
     ELSE Leaves(s)
  /\ UNCHANGED <<now, row, lease, message, slot, awake, histories>>

\* The tick ends; without active rows the lease is given up.
TickEnds(s) ==
  /\ server[s].pc = "after"
  /\ LET goesOn == server[s].active /\ HasActiveRows
     IN  /\ lease' = IF goesOn THEN lease ELSE Released(s)
         /\ server' = [server EXCEPT ![s] = [Boots EXCEPT !.bootChecked = TRUE, !.leading = goesOn]]
  /\ UNCHANGED <<now, row, message, slot, awake, histories>>

-----------------------------------------------------------------------------
(* Firing a row *)

\* step claims the lease once more before it works on the row.
Step(s) ==
  /\ server[s].pc = "step"
  /\ IF MayLead(s)
     THEN lease' = s /\ Steps(s, "look")
     ELSE Leaves(s) /\ UNCHANGED lease
  /\ UNCHANGED <<now, row, message, slot, awake, histories>>

\* The flag of the Session's Location may be off: look again in an hour.  A slot
\* whose predecessor is still pending is skipped, and its Session woken again.
Look(s) ==
  LET read == server[s].row
  IN  /\ server[s].pc = "look"
      /\ \/ /\ Update([row EXCEPT !.retry = TRUE])
            /\ Leaves(s) /\ UNCHANGED awake
         \/ /\ LastPending(read)
            /\ awake' = awake \cup {s}
            /\ Steps(s, "skip") /\ UNCHANGED row
         \/ /\ ~LastPending(read)
            /\ server' = [server EXCEPT ![s].pc = IF read.mode = "none" THEN "prompt" ELSE "check",
                                        ![s].kind = "fire"]
            /\ UNCHANGED <<row, awake>>
      /\ UNCHANGED <<now, lease, message, slot, histories>>

Skip(s) ==
  LET read == server[s].row
      next == Following(read, server[s].now)
      done == Finished(read, next, read.remaining)
  IN  /\ server[s].pc = "skip"
      /\ Update([row EXCEPT !.retry = FALSE, !.status = IF done THEN "done" ELSE "active",
                            !.due = IF done THEN 0 ELSE next])
      /\ Leaves(s)
      /\ UNCHANGED <<now, lease, message, slot, awake, histories>>

\* fire evaluates the check of the row.
Check(s) ==
  LET read == server[s].row
      next == Following(read, server[s].now)
      ended == next = 0 \/ (read.ends # 0 /\ next > read.ends)
      prompts(kind) == /\ server' = [server EXCEPT ![s].pc = "prompt", ![s].kind = kind]
                       /\ UNCHANGED row
  IN  /\ server[s].pc = "check"
      /\ \/ prompts("fire")
         \* It fails: try again later, or give up when it is invalid or failed too often.
         \/ /\ read.failures + 1 < MaxFailures
            /\ Update([row EXCEPT !.failures = read.failures + 1, !.retry = TRUE])
            /\ Leaves(s)
         \/ prompts("strike")
         \* It does not match.
         \/ /\ read.mode = "until" /\ ended
            /\ prompts("expired")
         \/ /\ ~(read.mode = "until" /\ ended)
            /\ Update([row EXCEPT !.failures = 0, !.retry = FALSE,
                                  !.status = IF ended THEN "done" ELSE @,
                                  !.due = IF ended THEN 0 ELSE next])
            /\ Leaves(s)
      /\ UNCHANGED <<now, lease, message, slot, awake, histories>>

\* Mutant: the message ID is drawn, not derived.
RunOfFresh(s) ==
  IF \A r \in RunNumbers : message[r] # "none" THEN MaxRuns
  ELSE CHOOSE r \in RunNumbers : message[r] = "none" /\ \A q \in 1..(r - 1) : message[q] # "none"
\* The number of the firing names its message.
RunOf(s) == server[s].row.run + 1

\* The run a server has admitted and not recorded.
Unrecorded(s) == IF server[s].pc \in {"waking", "record"} THEN {RunOf(s)} ELSE {}

\* The step fails anywhere, after the admission too: back off, or pause the row
\* when the Session's folder is gone, which those see that need its Location; the
\* write of that may fail as well, and the tick is over.
StepFails(s) ==
  /\ server[s].pc \in {"step", "look", "skip", "check", "prompt", "waking", "record"}
  /\ \/ /\ server[s].pc \in {"look", "check", "prompt"}
        /\ Update([row EXCEPT !.status = "paused", !.retry = FALSE])
     \/ Update([row EXCEPT !.retry = TRUE])
     \/ UNCHANGED row
  /\ lost' = lost \cup Unrecorded(s)
  /\ Leaves(s)
  /\ UNCHANGED <<now, lease, message, slot, awake, crashes, stalls, overtaken>>

\* sessions.prompt admits the message unless it knows it already,
Prompt(s) ==
  LET r == RunOf(s)
  IN  /\ server[s].pc = "prompt"
      /\ IF message[r] = "none"
         THEN /\ message' = [message EXCEPT ![r] = "pending"]
              /\ slot' = [slot EXCEPT ![r] = IF server[s].kind = "strike" THEN 0 ELSE server[s].row.due]
         ELSE UNCHANGED <<message, slot>>
      /\ Steps(s, "waking")
      /\ UNCHANGED <<now, row, lease, awake, histories>>

\* and wakes the Session.
Wake(s) ==
  /\ server[s].pc = "waking"
  /\ awake' = awake \cup {s}
  /\ Steps(s, "record")
  /\ UNCHANGED <<now, row, lease, message, slot, histories>>

\* Mutant: the run is recorded like the tick's other writes.
RecordActive(values) == row' = IF row.status = "active" THEN values ELSE row
\* A run is recorded whatever became of the row's status meanwhile.
RecordStored(values) == row' = IF Stored THEN values ELSE row

Record(s) ==
  LET read == server[s].row
      next == Following(read, server[s].now)
      remaining == IF read.times = 0 THEN 0 ELSE read.remaining - 1
      done == read.mode = "until" \/ Finished(read, next, remaining)
      ran == [row EXCEPT !.run = read.run + 1, !.last = read.run + 1, !.retry = FALSE]
  IN  /\ server[s].pc = "record"
      /\ \/ /\ server[s].kind = "fire"
            /\ RecordStored([ran EXCEPT !.failures = IF read.mode = "none" THEN @ ELSE 0,
                                        !.remaining = remaining, !.status = IF done THEN "done" ELSE @,
                                        !.due = IF done THEN 0 ELSE next])
         \/ /\ server[s].kind = "strike"
            /\ RecordStored([ran EXCEPT !.failures = read.failures + 1, !.status = "paused"])
         \/ /\ server[s].kind = "expired"
            /\ RecordStored([ran EXCEPT !.failures = 0, !.remaining = 0, !.status = "done", !.due = 0])
      /\ Leaves(s)
      /\ UNCHANGED <<now, lease, message, slot, awake, histories>>

-----------------------------------------------------------------------------
(* The Session, time and failures *)

\* A woken Session takes what is pending, with its durable claim.
Delivers(s) ==
  /\ s \in awake
  /\ awake' = awake \ {s}
  /\ message' = [r \in RunNumbers |-> IF message[r] = "pending" THEN "delivered" ELSE message[r]]
  /\ UNCHANGED <<now, row, lease, server, slot, histories>>

TimePasses ==
  /\ now < MaxSlots
  /\ now' = now + 1
  /\ UNCHANGED <<row, lease, server, message, slot, awake, histories>>

RetryElapses ==
  /\ row.retry
  /\ row' = [row EXCEPT !.retry = FALSE]
  /\ UNCHANGED <<now, lease, server, message, slot, awake, histories>>

\* A server crashes, leaving its lease behind, or stops and releases it.
Exits(s) ==
  /\ crashes + stalls < MaxFaults
  /\ crashes' = crashes + 1
  /\ lease' \in {Released(s), IF lease = s THEN "dead" ELSE lease}
  /\ server' = [server EXCEPT ![s] = Boots]
  /\ awake' = awake \ {s}
  /\ lost' = lost \cup Unrecorded(s)
  /\ UNCHANGED <<now, row, message, slot, stalls, overtaken>>

\* The lease of an exited server runs out,
LeaseExpires ==
  /\ lease = "dead"
  /\ lease' = "none"
  /\ UNCHANGED <<now, row, server, message, slot, awake, histories>>

\* and so does that of a live one which stalls, in its tick or out of it: nothing
\* tells it.  (A bound: there is a row to tick for.)
LeaseLapses ==
  /\ lease \in Servers /\ crashes + stalls < MaxFaults
  /\ row.status # "absent" /\ row.mode \in Stalling
  /\ lease' = "none"
  /\ stalls' = stalls + 1
  /\ UNCHANGED <<now, row, server, message, slot, awake, crashes, lost, overtaken>>

\* A heartbeat during the tick takes a lease that ran out back, if nobody else did.
Heartbeats(s) ==
  /\ server[s].pc \in Ticking \ {"rewake"}
  /\ lease = "none"
  /\ lease' = s
  /\ UNCHANGED <<now, row, server, message, slot, awake, histories>>

-----------------------------------------------------------------------------

Fires(s) == Step(s) \/ Look(s) \/ Skip(s) \/ Check(s) \/ StepFails(s) \/ Prompt(s) \/ Wake(s) \/ Record(s)
Loops(s) == LoopBegins(s) \/ Claim(s) \/ Rewake(s) \/ Tick(s) \/ TickEnds(s) \/ Fires(s)

Clients == Pause \/ Resume \/ RemoveRow \/ \E plan \in Plans : Create(plan)

ScheduleNext ==
  \/ Clients \/ TimePasses \/ RetryElapses \/ LeaseExpires \/ LeaseLapses
  \/ \E s \in Servers : Loops(s) \/ Heartbeats(s) \/ Delivers(s) \/ Exits(s)

ScheduleSpec == ScheduleInit /\ [][ScheduleNext]_scheduleVars

\* The loop of a server goes on, a woken Session looks, and leases expire.
FairSchedule ==
  /\ ScheduleSpec
  /\ WF_scheduleVars(LeaseExpires)
  /\ \A s \in Servers : WF_scheduleVars(Loops(s)) /\ WF_scheduleVars(Delivers(s))

-----------------------------------------------------------------------------
(* Properties *)

Rows ==
  [once : BOOLEAN, mode : Modes, times : Nat, ends : Nat,
   status : {"absent", "active", "paused", "done", "removed"}, due : {0} \cup Slots,
   run : 0..MaxRuns, remaining : Nat, last : 0..MaxRuns, failures : Nat, retry : BOOLEAN]

ServerState ==
  [pc : Ticking \cup {"loop", "claim", "after"},
   leading : BOOLEAN, bootChecked : BOOLEAN, active : BOOLEAN, now : 0..MaxSlots, row : Rows,
   kind : {"none", "fire", "strike", "expired"}]

ScheduleTypeOK ==
  /\ now \in 0..MaxSlots
  /\ row \in Rows /\ (row.status = "active" => row.due # 0)
  /\ lease \in Servers \cup {"none", "dead"}
  /\ server \in [Servers -> ServerState]
  /\ message \in [RunNumbers -> {"none", "pending", "delivered"}]
  /\ slot \in [RunNumbers -> {0} \cup Slots]
  /\ awake \subseteq Servers /\ crashes \in 0..MaxFaults /\ lost \subseteq RunNumbers
  /\ stalls \in 0..MaxFaults /\ overtaken \in BOOLEAN

\* No slot is prompted for twice, whatever fails or exits between a prompt and its
\* record, whoever leads next, and however the row is paused and resumed.  The
\* notice of a failed check is not the prompt of its slot; a check that fails on
\* the retry of a run whose record was lost hides that the slot was prompted for.
\* Nothing is promised once a stalled leader was overtaken in its tick.
SlotFiresOnce ==
  ~overtaken =>
    \A q, r \in RunNumbers :
      slot[q] = slot[r] /\ slot[q] # 0 /\ q # r => row.mode # "none" /\ {q, r} \cap lost # {}

\* As long as no lease ran out under a live server, at most one of those that
\* share the database ticks, whatever exits, is released or left behind.
OneServerTicks ==
  stalls = 0 =>
    \A s, t \in Servers : server[s].pc \in Ticking /\ server[t].pc \in Ticking => s = t

\* A firing really prompts: its message ID was not used up by an earlier one,
\* although the row may be paused, resumed and skipped while a prompt is on its
\* way.  Only a run whose record was lost, to a failure after the admission or to
\* an exit, meets its own message; or one of a leader that was overtaken.
EveryFiringPrompts ==
  [][\A s \in Servers :
       server[s].pc = "prompt" /\ server'[s].pc = "waking" /\ ~overtaken /\ RunOf(s) \notin lost =>
         message[RunOf(s)] = "none"]_scheduleVars

\* Only its owner resumes a paused schedule: no write of a tick that began before
\* the pause makes the row active again.
PauseSticks ==
  [][row.status = "paused" /\ row'.status = "active" => UNCHANGED <<server, lease>>]_scheduleVars

\* The last prompt of a schedule that goes on is seen by the Session, although the
\* server that prompted may exit before its Session claims the work.  A leader that
\* stalled may not know that another led meanwhile, and wakes nobody.
LastPromptIsSeen ==
  LastPending(row) ~> ~LastPending(row) \/ row.status # "active" \/ stalls # 0
===============================================================================
