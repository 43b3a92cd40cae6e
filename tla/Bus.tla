---------------------------------- MODULE Bus ----------------------------------
(***************************************************************************)
(* The event bus (bus.ts), for one aggregate: fibers that publish one      *)
(* event, publish a batch, or replay events of another installation, under *)
(* the aggregate's lock; the ownership that fences replays; the volatile   *)
(* live channel; and the readers of the durable log, who are woken through *)
(* a one-slot sliding signal and read in pages.                            *)
(*                                                                         *)
(* Aggregates share nothing but the live channel, on which their order is  *)
(* not defined.  Projectors and commit hooks run inside the transaction    *)
(* that commits: they only matter when they fail.  Event payloads are      *)
(* persisted.  Bus.remove is not modelled: the ID of a deleted Session is  *)
(* not used again.                                                         *)
(***************************************************************************)
EXTENDS Naturals, Sequences, SequencesExt, FiniteSets, FiniteSetsExt

CONSTANTS
  Fibers,     \* fibers that publish or replay
  Readers,    \* streams returned by log
  Owners,     \* installations that replay into or claim the aggregate
  PageSize,   \* logReadPageSize
  BatchSize,  \* events of a publishAll
  MaxEvents   \* bound: length of the log

ASSUME SizesAssumption == PageSize \in Nat \ {0} /\ BatchSize \in Nat \ {0} /\ MaxEvents \in Nat
\* No fiber is the absence of one.
ASSUME FibersAssumption == "none" \notin Fibers

VARIABLES
  log,     \* EventTable and EventSequenceTable: "local", "gap" (reserved), or who sent it
  owner,   \* owner_id of the sequence row
  claimed, \* history: length of the log when its owner was set last
  lock,    \* holder of durableLocks for the aggregate
  fiber,   \* per fiber: what it does under the lock
  wake,    \* per reader: its sliding(1) signal
  reader,  \* per reader: the state of its stream
  live,    \* the live channel: positions in the order of notification
  quiet    \* history: positions nobody was to be, or was, notified of

busVars == <<log, owner, claimed, lock, fiber, wake, reader, live, quiet>>

None == "none"
Ops == {"publish", "publishAll", "replay"}
Idle == [pc |-> "idle", op |-> None, pending |-> <<>>]
Unsubscribed == [registered |-> FALSE, pending |-> FALSE]
Closed == [state |-> "closed", follow |-> FALSE, sequence |-> 0, target |-> 0, mark |-> 0, seen |-> <<>>]

Positions == 1..MaxEvents

BusInit ==
  /\ log = <<>>
  /\ owner = None /\ claimed = 0 /\ lock = None
  /\ fiber = [f \in Fibers |-> Idle]
  /\ wake = [r \in Readers |-> Unsubscribed]
  /\ reader = [r \in Readers |-> Closed]
  /\ live = <<>> /\ quiet = {}

-----------------------------------------------------------------------------
(* Publishing *)

\* publish, publishAll or replay gets the lock of the aggregate.
Locks(f) ==
  /\ fiber[f].pc = "idle" /\ lock = None
  /\ lock' = f
  /\ \E op \in Ops : fiber' = [fiber EXCEPT ![f].pc = "committing", ![f].op = op]
  /\ UNCHANGED <<log, owner, claimed, wake, reader, live, quiet>>

\* Mutant: the lock is not given back.
UnlocksNever(f) == fiber' = [fiber EXCEPT ![f] = Idle] /\ UNCHANGED lock
Unlocks(f) ==
  /\ lock' = None
  /\ fiber' = [fiber EXCEPT ![f] = Idle]

\* Who replays for an installation owns an aggregate that had no owner.
Takes(source) ==
  IF owner = None /\ source # None THEN owner' = source /\ claimed' = Len(log)
  ELSE UNCHANGED <<owner, claimed>>

\* The event that creates a forked or imported Session reserves the positions of
\* what it copied (reserveSequence), in its projector or its commit hook.
Reservations == IF log = <<>> THEN {<<>>, <<"gap">>} ELSE {<<>>}

\* commitDurableEvent and the transaction of publishAll append the events.
Appends(f, events, reserved, source, notify) ==
  LET pending == IF notify THEN [i \in 1..Len(events) |-> Len(log) + i] ELSE <<>>
  IN  /\ Len(log) + Len(events) + Len(reserved) <= MaxEvents
      /\ log' = log \o events \o reserved
      /\ Takes(source)
      /\ fiber' = [fiber EXCEPT ![f].pc = "waking", ![f].pending = pending]
      /\ quiet' = quiet \cup (((Len(log) + 1)..Len(log')) \ ToSet(pending))
      /\ UNCHANGED <<lock, wake, reader, live>>

\* Mutant: a replay does not look at the owner.
FencedNever(source) == FALSE
\* The aggregate belongs to another installation than the replay comes from.
Fenced(source) == owner # None /\ owner # source

\* A replayed event commits when it is the next one.
Commits(f) ==
  /\ fiber[f].pc = "committing"
  /\ \/ /\ fiber[f].op = "publish"
        /\ \E reserved \in Reservations : Appends(f, <<"local">>, reserved, None, TRUE)
     \/ /\ fiber[f].op = "publishAll"
        /\ Appends(f, [i \in 1..BatchSize |-> "local"], <<>>, None, TRUE)
     \/ /\ fiber[f].op = "replay"
        /\ \E source \in Owners \cup {None}, notify \in BOOLEAN, reserved \in Reservations :
             ~Fenced(source)
               /\ Appends(f, <<IF source = None THEN "unowned" ELSE source>>, reserved, source, notify)

\* An exact duplicate of an event in the log changes nothing, but an aggregate
\* without owner is claimed by who sent it.
Duplicates(f) ==
  /\ fiber[f].pc = "committing" /\ fiber[f].op = "replay"
  /\ \E i \in DOMAIN log : log[i] # "gap"
  /\ \E source \in Owners \cup {None} : Takes(source)
  /\ Unlocks(f)
  /\ UNCHANGED <<log, wake, reader, live, quiet>>

\* Nothing is committed: a projector or a commit hook fails, or a replay is out
\* of sequence, diverges, or comes from another owner.
Rejected(f) ==
  /\ fiber[f].pc = "committing"
  /\ Unlocks(f)
  /\ UNCHANGED <<log, owner, claimed, wake, reader, live, quiet>>

\* Mutant: only readers that reached the live phase are woken.
WokenLive(r) == wake[r].registered /\ reader[r].state = "live"
Woken(r) == wake[r].registered

\* Mutant: the lock is released with the commit.
WakesUnlocked(f) ==
  /\ fiber[f].pc = "waking"
  /\ wake' = [r \in Readers |-> [wake[r] EXCEPT !.pending = @ \/ Woken(r)]]
  /\ fiber' = [fiber EXCEPT ![f].pc = "notifying"]
  /\ lock' = None
  /\ UNCHANGED <<log, owner, claimed, reader, live, quiet>>

\* Every registered reader is woken, whatever its buffer holds.
Wakes(f) ==
  /\ fiber[f].pc = "waking"
  /\ wake' = [r \in Readers |-> [wake[r] EXCEPT !.pending = @ \/ Woken(r)]]
  /\ fiber' = [fiber EXCEPT ![f].pc = "notifying"]
  /\ UNCHANGED <<log, owner, claimed, lock, reader, live, quiet>>

\* notify, event by event; listeners are isolated.
Notifies(f) ==
  /\ fiber[f].pc = "notifying"
  /\ IF fiber[f].pending = <<>>
     THEN Unlocks(f) /\ UNCHANGED live
     ELSE /\ live' = Append(live, Head(fiber[f].pending))
          /\ fiber' = [fiber EXCEPT ![f].pending = Tail(@)]
          /\ UNCHANGED lock
  /\ UNCHANGED <<log, owner, claimed, wake, reader, quiet>>

\* A publish or a replay may be interrupted between its commit and its
\* notification; a publishAll may not.
Interrupted(f) ==
  /\ fiber[f].pc = "notifying" /\ fiber[f].op # "publishAll"
  /\ Unlocks(f)
  /\ quiet' = quiet \cup ToSet(fiber[f].pending)
  /\ UNCHANGED <<log, owner, claimed, wake, reader, live>>

\* claim, without the lock.
Claim(o) ==
  /\ log # <<>>
  /\ owner' = o /\ claimed' = Len(log)
  /\ UNCHANGED <<log, lock, fiber, wake, reader, live, quiet>>

-----------------------------------------------------------------------------
(* Reading the log *)

\* log: a follower registers its signal, then looks.
Open(r) ==
  /\ reader[r].state = "closed"
  /\ \E after \in 0..Len(log), follow \in BOOLEAN :
       /\ reader' = [reader EXCEPT ![r] = [Closed EXCEPT !.state = "open", !.follow = follow, !.sequence = after]]
       /\ wake' = [wake EXCEPT ![r].registered = follow]
  /\ UNCHANGED <<log, owner, claimed, lock, fiber, live, quiet>>

Look(r) ==
  /\ reader[r].state = "open"
  /\ reader' = [reader EXCEPT ![r].state = "replaying", ![r].target = Len(log), ![r].mark = Len(log)]
  /\ UNCHANGED <<log, owner, claimed, lock, fiber, wake, live, quiet>>

\* readAfter: the next rows up to the target, at most a page of them.
Page(r) ==
  LET rows == {i \in (reader[r].sequence + 1)..reader[r].target : log[i] # "gap"}
  IN  {i \in rows : Cardinality({j \in rows : j <= i}) <= PageSize}
InOrder(positions) == SetToSortSeq(positions, <)

\* readThrough reads on until a page reaches the target or is empty.
ReadPage(r) ==
  LET page == Page(r)
      last == IF page = {} THEN reader[r].sequence ELSE Max(page)
      more == page # {} /\ last < reader[r].target
  IN  /\ reader[r].state \in {"replaying", "tailing"}
      /\ reader' = [reader EXCEPT ![r].sequence = last, ![r].seen = IF page = {} THEN @ ELSE @ \o InOrder(page),
                      ![r].state = IF more THEN @ ELSE IF @ = "replaying" THEN "replayed" ELSE "live"]
      /\ UNCHANGED <<log, owner, claimed, lock, fiber, wake, live, quiet>>

Marker(r) ==
  /\ reader[r].state = "replayed"
  /\ reader' = [reader EXCEPT ![r].state = IF reader[r].follow THEN "live" ELSE "ended"]
  /\ UNCHANGED <<log, owner, claimed, lock, fiber, wake, live, quiet>>

TakesWake(r) ==
  /\ reader[r].state = "live" /\ wake[r].pending
  /\ wake' = [wake EXCEPT ![r].pending = FALSE]
  /\ reader' = [reader EXCEPT ![r].state = "woken"]
  /\ UNCHANGED <<log, owner, claimed, lock, fiber, live, quiet>>

\* Only a target beyond what was read is read through.
Tails(r) ==
  /\ reader[r].state = "woken"
  /\ reader' = [reader EXCEPT ![r].target = Len(log),
                  ![r].state = IF Len(log) > reader[r].sequence THEN "tailing" ELSE "live"]
  /\ UNCHANGED <<log, owner, claimed, lock, fiber, wake, live, quiet>>

\* The consumer closes the stream.
Close(r) ==
  /\ reader[r].state # "closed"
  /\ reader' = [reader EXCEPT ![r] = Closed]
  /\ wake' = [wake EXCEPT ![r] = Unsubscribed]
  /\ UNCHANGED <<log, owner, claimed, lock, fiber, live, quiet>>

-----------------------------------------------------------------------------

Works(f) == Commits(f) \/ Duplicates(f) \/ Rejected(f) \/ Wakes(f) \/ Notifies(f)
Reads(r) == Look(r) \/ ReadPage(r) \/ Marker(r) \/ TakesWake(r) \/ Tails(r)

BusNext ==
  \/ \E f \in Fibers : Locks(f) \/ Works(f) \/ Interrupted(f)
  \/ \E o \in Owners : Claim(o)
  \/ \E r \in Readers : Open(r) \/ Reads(r) \/ Close(r)

BusSpec == BusInit /\ [][BusNext]_busVars

\* A fiber that holds the lock goes on, and so does whoever reads.
FairBus ==
  /\ BusSpec
  /\ \A f \in Fibers : WF_busVars(Works(f))
  /\ \A r \in Readers : WF_busVars(Reads(r))

-----------------------------------------------------------------------------
(* Properties *)

BusTypeOK ==
  /\ log \in Seq({"local", "gap", "unowned"} \cup Owners) /\ Len(log) <= MaxEvents
  /\ owner \in Owners \cup {None}
  /\ lock \in Fibers \cup {None}
  /\ \A f \in Fibers : fiber[f].pc \in {"committing", "waking", "notifying"} <=> lock = f
  /\ \A r \in Readers : wake[r].registered <=> reader[r].follow

\* The live channel shows the events of an aggregate in the order of their
\* commits, batches unbroken, and leaves out only silent replays and those whose
\* publisher was interrupted after the commit.
LiveInOrder ==
  /\ \A i \in 1..(Len(live) - 1) : live[i] < live[i + 1]
  /\ lock = None => ToSet(live) = (1..Len(log)) \ quiet

\* Since the aggregate has its owner, by a claim or by a replay, everything that
\* is replayed into it comes from that owner.
OneSource ==
  owner # None => \A i \in (claimed + 1)..Len(log) : log[i] \in {"local", "gap", owner}

\* The reader as the abstract log sees it.
LogReader(r) ==
  LET state == reader[r].state
  IN  [state |-> CASE state = "replayed" -> "replaying"
                   [] state \in {"tailing", "woken"} -> "live"
                   [] OTHER -> state,
       follow |-> reader[r].follow, position |-> reader[r].sequence, mark |-> reader[r].mark,
       seen |-> reader[r].seen]

Promised == INSTANCE EventLog WITH reader <- [r \in Readers |-> LogReader(r)]

\* Wakes that coalesce, pages, and events that are committed while a reader
\* replays: it sees each event after its cursor once and in order, one marker,
\* and, if it follows, everything that comes.
ReadersSeeTheLog == Promised!Spec
===============================================================================
