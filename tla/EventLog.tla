------------------------------- MODULE EventLog -------------------------------
(***************************************************************************)
(* What the bus promises to who reads the log of an aggregate, without     *)
(* wakes, pages, locks or publishers: a reader sees every event after its  *)
(* cursor once, in order, and one marker after the events that were there  *)
(* when it looked; a follower sees everything that comes.                  *)
(***************************************************************************)
EXTENDS Naturals, Sequences, SequencesExt, FiniteSets, FiniteSetsExt

CONSTANTS Readers

VARIABLES
  log,    \* the events of the aggregate; "gap" for a reserved position
  reader  \* per reader: where it stands

vars == <<log, reader>>

Closed == [state |-> "closed", follow |-> FALSE, position |-> 0, mark |-> 0, seen |-> <<>>]

\* The positions of the events after a, up to b.
Events(a, b) == {i \in (a + 1)..b : log[i] # "gap"}
InOrder(positions) == SetToSortSeq(positions, <)

Init ==
  /\ log = <<>>
  /\ reader = [r \in Readers |-> Closed]

Commit ==
  /\ Len(log') > Len(log) /\ IsPrefix(log, log')
  /\ UNCHANGED reader

Open(r) ==
  /\ reader[r].state = "closed"
  /\ \E after \in 0..Len(log), follow \in BOOLEAN :
       reader' = [reader EXCEPT ![r] = [Closed EXCEPT !.state = "open", !.follow = follow, !.position = after]]
  /\ UNCHANGED log

\* The watermark: what is there now is replayed before the marker.
Look(r) ==
  /\ reader[r].state = "open"
  /\ reader' = [reader EXCEPT ![r].state = "replaying", ![r].mark = Len(log)]
  /\ UNCHANGED log

\* The reader sees its next events, one or more.
See(r) ==
  /\ reader[r].state \in {"replaying", "live"}
  /\ LET limit == IF reader[r].state = "replaying" THEN reader[r].mark ELSE Len(log)
     IN  \E to \in (reader[r].position + 1)..limit :
           /\ Events(reader[r].position, to) # {}
           /\ reader' = [reader EXCEPT ![r].position = to,
                                       ![r].seen = @ \o InOrder(Events(reader[r].position, to))]
  /\ UNCHANGED log

\* The marker, once nothing is left below the watermark.
Sync(r) ==
  /\ reader[r].state = "replaying"
  /\ Events(reader[r].position, reader[r].mark) = {}
  /\ reader' = [reader EXCEPT ![r].state = IF reader[r].follow THEN "live" ELSE "ended"]
  /\ UNCHANGED log

Close(r) ==
  /\ reader[r].state # "closed"
  /\ reader' = [reader EXCEPT ![r] = Closed]
  /\ UNCHANGED log

Reads(r) == Look(r) \/ See(r) \/ Sync(r)

Next == Commit \/ \E r \in Readers : Open(r) \/ Reads(r) \/ Close(r)

Safety == Init /\ [][Next]_vars

\* Whoever reads gets on.
Spec == Safety /\ \A r \in Readers : WF_vars(Reads(r))
===============================================================================
