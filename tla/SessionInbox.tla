----------------------------- MODULE SessionInbox -----------------------------
(***************************************************************************)
(* SessionInbox (session/inbox.ts): the durable inbox of one Session.      *)
(* Clients admit prompts and control work (compactions, moves); the runner *)
(* promotes them into the transcript at its boundaries.                    *)
(*                                                                         *)
(* A published event and its projections commit in one transaction, so     *)
(* every change of the tables is one action.  What reads the tables and    *)
(* publishes later is split: admission reads first and is not under the    *)
(* Session's lock; promotion, cancellation, delivery changes and control   *)
(* admission hold the lock (KeyedMutex) from their first read.             *)
(***************************************************************************)
EXTENDS SequencesExt

CONSTANTS
  Ids,      \* message IDs, chosen by clients and reused by their retries
  Clients,  \* fibers that admit input
  Types     \* the item types in use: a subset of Prompts \cup Controls

None == "none"
Prompts == {"user", "synthetic"}
Controls == {"compaction", "move"}
Delivery == {"steer", "queue"}
Promotable == {"steer", "input"}

ASSUME TypesAssumption == Types \subseteq Prompts \cup Controls

VARIABLES
  inbox,     \* session_inbox rows, in enqueued_seq order
  history,   \* rows delivered so far, in delivery order (the transcript)
  locked,    \* somebody is inside serialized(sessionID)
  request,   \* [Clients -> Request]: the admission each client has in progress
  promotion  \* the promote call that holds the lock, if one does

inboxVars == <<inbox, history, locked, request, promotion>>

Row == [id : Ids, type : Types, delivery : Delivery]

\* free        no call
\* admitting   admit found nothing and is about to publish
\* compacting  admitCompaction found nothing, holds the lock, about to publish
\* admitted    recorded (or found recorded); the caller wakes execution next
\* refused     LifecycleConflict
RequestStates == {"admitting", "compacting", "admitted", "refused"}
Free == [state |-> "free"]
Request == [state : RequestStates, item : Row] \cup {Free}

\* queued   no steer waits: about to read the first queued row
\* publish  rows are being delivered; more: the steers are read again after
NoPromotion == [stage |-> "none", scope |-> None, rows |-> <<>>, more |-> FALSE]

InboxInit ==
  /\ inbox = <<>> /\ history = <<>>
  /\ locked = FALSE
  /\ request = [c \in Clients |-> Free]
  /\ promotion = NoPromotion

-----------------------------------------------------------------------------
(* Queries *)

IsControl(row) == row.type \in Controls

\* The rows of one delivery mode, in their order.
Rows(delivery) ==
  LET upTo[n \in 0..Len(inbox)] ==
        IF n = 0 THEN <<>>
        ELSE IF inbox[n].delivery = delivery THEN Append(upTo[n - 1], inbox[n]) ELSE upTo[n - 1]
  IN  upTo[Len(inbox)]

\* Mutant: pulls the first compaction forward, across a move.
PendingSteersAcross ==
  LET steers == Rows("steer")
      control == SelectInSeq(steers, LAMBDA r : r.type = "compaction")
  IN  IF control > 1 THEN <<steers[control]>> \o RemoveAt(steers, control) ELSE steers

\* Steers in admission order, except that a compaction which is the first
\* control goes before the prompts in front of it.
PendingSteers ==
  LET steers == Rows("steer")
      control == SelectInSeq(steers, IsControl)
  IN  IF control > 1 /\ steers[control].type = "compaction"
      THEN <<steers[control]>> \o RemoveAt(steers, control) ELSE steers

\* The first steer, else - under "input" - the first queued row, if any.
NextPromotable(scope) ==
  LET next == PendingSteers \o (IF scope = "input" THEN Rows("queue") ELSE <<>>)
  IN  IF next = <<>> THEN {} ELSE {Head(next)}

\* Mutant: without a control, slice(0, -1) drops the last row.
BeforeControlSlice(rows) ==
  LET control == SelectInSeq(rows, IsControl)
  IN  SubSeq(rows, 1, IF control = 0 THEN Len(rows) - 1 ELSE control - 1)
BeforeControl(rows) ==
  LET control == SelectInSeq(rows, IsControl)
  IN  IF control = 0 THEN rows ELSE SubSeq(rows, 1, control - 1)

Pending == ToSet(inbox)
Delivered == ToSet(history)

\* Mutant: looks for a pending row only.
RecordedPending(id) == {r \in Pending : r.id = id}

\* The pending row or the visible message with this ID, if there is one.
Recorded(id) == {r \in Pending \cup Delivered : r.id = id}

CompactionPending == \E r \in Pending : r.type = "compaction"

\* The table after the row with this ID, its primary key, is deleted.
Without(id) == RemoveFirstMatch(inbox, LAMBDA r : r.id = id)

-----------------------------------------------------------------------------
(* Admission *)

SetRequest(c, state, item) == request' = [request EXCEPT ![c] = [state |-> state, item |-> item]]

\* reconcile: an earlier admission of this ID and type wins; another type
\* conflicts.
Reconcile(c, item) ==
  /\ request[c] = Free
  /\ item.type \in Prompts
  /\ LET known == Recorded(item.id) IN
       SetRequest(c, IF known = {} THEN "admitting"
                     ELSE IF \E r \in known : r.type = item.type THEN "admitted"
                     ELSE "refused", item)
  /\ UNCHANGED <<inbox, history, locked, promotion>>

\* admit publishes InboxEnqueued.  projectAdmitted refuses an ID that is
\* visible or pending by now; a pending one of this type is returned instead.
Admit(c) ==
  /\ request[c].state = "admitting"
  /\ LET item == request[c].item IN
       IF Recorded(item.id) = {}
       THEN inbox' = Append(inbox, item) /\ SetRequest(c, "admitted", item)
       ELSE /\ SetRequest(c, IF \E r \in Pending : r.id = item.id /\ r.type = item.type
                             THEN "admitted" ELSE "refused", item)
            /\ UNCHANGED inbox
  /\ UNCHANGED <<history, locked, promotion>>

\* Mutant: the lock does not exclude anybody.
UnlockedAlways == TRUE
Unlocked == ~locked

\* admitCompaction, under the lock: the pending compaction is returned,
\* whatever its ID; an ID taken by something else conflicts.
AdmitCompaction(c, item) ==
  /\ request[c] = Free
  /\ item.type = "compaction"
  /\ Unlocked
  /\ \/ /\ \E r \in Recorded(item.id) : r.type # "compaction" \/ r \in Delivered
        /\ SetRequest(c, "refused", item)
        /\ UNCHANGED locked
     \/ /\ Recorded(item.id) \subseteq Pending
        /\ \A r \in Recorded(item.id) : r.type = "compaction"
        /\ IF CompactionPending THEN SetRequest(c, "admitted", item) /\ UNCHANGED locked
           ELSE SetRequest(c, "compacting", item) /\ locked' = TRUE
  /\ UNCHANGED <<inbox, history, promotion>>

\* It publishes, unless an admission outside the lock took the ID meanwhile.
EnqueueCompaction(c) ==
  /\ request[c].state = "compacting"
  /\ LET item == request[c].item IN
       IF Recorded(item.id) = {}
       THEN inbox' = Append(inbox, item) /\ SetRequest(c, "admitted", item)
       ELSE UNCHANGED inbox /\ SetRequest(c, "refused", item)
  /\ locked' = FALSE
  /\ UNCHANGED <<history, promotion>>

\* SessionMove admits a move under the lock, always with a fresh ID.
AdmitMove(c, item) ==
  /\ request[c] = Free
  /\ item.type = "move"
  /\ Unlocked
  /\ Recorded(item.id) = {}
  /\ inbox' = Append(inbox, item)
  /\ SetRequest(c, "admitted", item)
  /\ UNCHANGED <<history, locked, promotion>>

\* The call returns to its client.
Return(c) ==
  /\ request[c].state \in {"admitted", "refused"}
  /\ request' = [request EXCEPT ![c] = Free]
  /\ UNCHANGED <<inbox, history, locked, promotion>>

\* Cancellation deletes the row, under the lock.
Cancel(id) ==
  /\ Unlocked
  /\ \E r \in Pending : r.id = id
  /\ inbox' = Without(id)
  /\ UNCHANGED <<history, locked, request, promotion>>

\* Mutant: mistakes the scope of a drain for a delivery mode.
RedeliveredScope(row, to) == [row EXCEPT !.delivery = IF to = "queue" THEN "input" ELSE to]
Redelivered(row, to) == [row EXCEPT !.delivery = to]

\* projectDeliveryChanged: the row changes where it stands, if it had the
\* opposite delivery.
ChangeDelivery(id, to) ==
  /\ Unlocked
  /\ \E r \in Pending : r.id = id /\ r.delivery # to
  /\ inbox' = [i \in DOMAIN inbox |->
                 IF inbox[i].id = id THEN Redelivered(inbox[i], to) ELSE inbox[i]]
  /\ UNCHANGED <<history, locked, promotion>>

\* steerInbox wakes execution next; queueInbox does not.
Steer(c, id) ==
  /\ request[c] = Free
  /\ ChangeDelivery(id, "steer")
  /\ \E r \in Pending : r.id = id /\ SetRequest(c, "admitted", Redelivered(r, "steer"))

Queue(id) == ChangeDelivery(id, "queue") /\ UNCHANGED request

-----------------------------------------------------------------------------
(* Promotion *)

\* InboxDelivered consumes the row and inserts its message.
Deliver(row) ==
  /\ inbox' = Without(row.id)
  /\ history' = Append(history, row)

\* A boundary that finds control work first delivers it, under the lock.
TakeControl(scope) ==
  /\ Unlocked
  /\ \E row \in NextPromotable(scope) : IsControl(row) /\ Deliver(row)
  /\ UNCHANGED <<locked, request, promotion>>

\* promote decides on the steers it reads.  A control in front is for the
\* runner to handle first: it returns undefined and changes nothing.
Promote(scope) ==
  /\ Unlocked
  /\ PendingSteers # <<>> => ~IsControl(Head(PendingSteers))
  /\ promotion' =
       IF PendingSteers # <<>> \/ scope = "steer"
       THEN [stage |-> "publish", scope |-> scope, rows |-> BeforeControl(PendingSteers), more |-> FALSE]
       ELSE [stage |-> "queued", scope |-> scope, rows |-> <<>>, more |-> FALSE]
  /\ locked' = TRUE
  /\ UNCHANGED <<inbox, history, request>>

\* No steer: one queued prompt, and then the steers that came meanwhile.
PromoteQueued ==
  /\ promotion.stage = "queued"
  /\ LET queued == Rows("queue") IN
       IF queued # <<>> /\ ~IsControl(Head(queued))
       THEN /\ promotion' = [promotion EXCEPT !.stage = "publish", !.rows = <<Head(queued)>>, !.more = TRUE]
            /\ UNCHANGED locked
       ELSE promotion' = NoPromotion /\ locked' = FALSE
  /\ UNCHANGED <<inbox, history, request>>

PublishRow ==
  /\ promotion.rows # <<>>
  /\ Deliver(Head(promotion.rows))
  /\ promotion' = [promotion EXCEPT !.rows = Tail(@)]
  /\ UNCHANGED <<locked, request>>

PublishMore ==
  /\ promotion.stage = "publish" /\ promotion.rows = <<>> /\ promotion.more
  /\ promotion' = [promotion EXCEPT !.rows = BeforeControl(PendingSteers), !.more = FALSE]
  /\ UNCHANGED <<inbox, history, locked, request>>

\* promote returns, or its fiber is interrupted between two publications.
Release ==
  /\ promotion' = NoPromotion
  /\ locked' = FALSE
  /\ UNCHANGED <<inbox, history, request>>

Promoted ==
  /\ promotion.stage = "publish" /\ promotion.rows = <<>> /\ ~promotion.more
  /\ Release

PromotionInterrupted ==
  /\ promotion # NoPromotion
  /\ Release

-----------------------------------------------------------------------------

\* The calls of clients, apart from their return.
Calls(c) ==
  \/ \E item \in Row : Reconcile(c, item) \/ AdmitCompaction(c, item) \/ AdmitMove(c, item)
  \/ Admit(c) \/ EnqueueCompaction(c)
  \/ \E id \in Ids : Steer(c, id)

Admission ==
  \/ \E c \in Clients : Calls(c) \/ Return(c)
  \/ \E id \in Ids : Cancel(id) \/ Queue(id)

Promotion ==
  \/ \E scope \in Promotable : TakeControl(scope) \/ Promote(scope)
  \/ PromoteQueued \/ PublishRow \/ PublishMore \/ Promoted \/ PromotionInterrupted

InboxNext == Admission \/ Promotion

InboxSpec == InboxInit /\ [][InboxNext]_inboxVars

\* Every call that began goes on: a client's fiber, and the runner's.
FairInbox ==
  /\ InboxSpec
  /\ \A c \in Clients : WF_inboxVars(Admit(c) \/ EnqueueCompaction(c) \/ Return(c))
  /\ WF_inboxVars(PromoteQueued \/ PublishRow \/ PublishMore \/ Promoted)

-----------------------------------------------------------------------------
(* Properties *)

InboxTypeOK ==
  /\ inbox \in Seq(Row) /\ history \in Seq(Row)
  /\ locked \in BOOLEAN
  /\ request \in [Clients -> Request]
  /\ promotion \in [stage : {"none", "queued", "publish"}, scope : Promotable \cup {None},
                    rows : Seq(Row), more : BOOLEAN]

\* First admission wins: however its admissions and retries interleave with
\* promotion, a message ID is pending at most once or visible at most once,
\* never both and never twice.
OneRecordPerId ==
  LET all == inbox \o history
  IN  \A i, j \in DOMAIN all : all[i].id = all[j].id => i = j

\* admitCompaction returns the compaction that is pending already: there is
\* never a second one, whoever asks for one meanwhile.
OneCompaction ==
  \A i, j \in DOMAIN inbox :
    inbox[i].type = "compaction" /\ inbox[j].type = "compaction" => i = j

\* The rows a promotion still has to publish are pending as it read them:
\* nobody cancelled or re-queued one between the read and the publication.
PromotesWhatItRead == ToSet(promotion.rows) \subseteq Pending

\* Row i may be delivered before row j, admitted earlier: a steer goes before
\* queued rows; a steered compaction goes before prompts; and the queued row
\* promote chose when no steer waited goes before steers admitted since.
Overtakes(i, j) ==
  \/ inbox[i].delivery = "steer" /\ inbox[j].delivery = "queue"
  \/ inbox[i].delivery = "queue" /\ inbox[j].delivery = "steer" /\ promotion.more
  \/ /\ inbox[i].delivery = "steer" /\ inbox[j].delivery = "steer"
     /\ inbox[i].type = "compaction" /\ ~IsControl(inbox[j])

\* Nothing else overtakes: delivery keeps the admission order of each delivery
\* mode, no compaction is pulled across an earlier steered move, and no steer
\* crosses a control that is steering in front of it.
DeliversInOrder ==
  [][\A i \in DOMAIN inbox :
       history' = Append(history, inbox[i]) => \A j \in 1..(i - 1) : Overtakes(i, j)]_history
===============================================================================
