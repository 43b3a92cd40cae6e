-------------------------- MODULE SessionRunnerProofs --------------------------
(***************************************************************************)
(* The proofs about SessionRunner, for any IDs, clients and item types:    *)
(* its types, and that a drain consumes queued input only where its scope  *)
(* and its place in the turn allow it.                                     *)
(***************************************************************************)
EXTENDS SessionRunner, SessionInboxProofs

Drains ==
  [pc : Running \cup Results, force : BOOLEAN, continuing : BOOLEAN,
   entering : BOOLEAN, stepped : BOOLEAN, scope : Promotable] \cup {NoDrain}

\* A promotion is the drain's own; it reads queued input only if it was asked
\* to with scope "input", which the drain does only between turns, and within
\* its own scope.
PromotionAllowed ==
  /\ promotion # NoPromotion <=> drain.pc = "promoting"
  /\ promotion.stage = "queued" \/ promotion.more => promotion.scope = "input"
  /\ promotion.scope = "input" => drain.scope = "input" /\ ~drain.continuing

RunnerInv == Inv /\ drain \in Drains /\ PromotionAllowed

-----------------------------------------------------------------------------
(* The steps of a drain *)

\* What a scope may be.
LEMMA ScopesAllowed ==
  ASSUME RunnerInv
  PROVE  /\ BoundaryScope \in Promotable
         /\ drain # NoDrain => PromotionScope \in Promotable /\ drain.scope \in Promotable
BY DEF RunnerInv, Drains, BoundaryScope, PromotionScope, Promotable

\* Unless a drain promotes, no promotion is in progress.
LEMMA NotPromoting ==
  ASSUME RunnerInv, drain.pc # "promoting"
  PROVE  promotion = NoPromotion
BY DEF RunnerInv, PromotionAllowed

\* Away from a promotion the drain moves on, and the promotion stays away.
LEMMA MovesOn ==
  ASSUME RunnerInv, drain.pc # "promoting", Inv', UNCHANGED promotion,
         drain' \in Drains, drain'.pc # "promoting"
  PROVE  RunnerInv'
<1>1. promotion' = NoPromotion
  BY NotPromoting
<1>2. PromotionAllowed'
  BY <1>1 DEF PromotionAllowed, NoPromotion, None
<1> QED BY <1>2 DEF RunnerInv

\* What leaves the inbox alone keeps its invariant.
LEMMA InboxKept ==
  ASSUME RunnerInv, UNCHANGED inboxVars
  PROVE  Inv' /\ UNCHANGED promotion
BY InvNext DEF RunnerInv, inboxVars

\* The rewriting of a drain that is in progress.
LEMMA DrainRewritten ==
  ASSUME drain \in Drains, drain # NoDrain, NEW pc \in Running \cup Results, NEW force \in BOOLEAN,
         NEW continuing \in BOOLEAN, NEW entering \in BOOLEAN, NEW stepped \in BOOLEAN
  PROVE  [drain EXCEPT !.pc = pc, !.force = force, !.continuing = continuing, !.entering = entering,
                       !.stepped = stepped] \in Drains
BY DEF Drains

\* The parts of a drain and their types.
LEMMA DrainFields ==
  ASSUME drain \in Drains
  PROVE  /\ drain.pc # "out" => drain # NoDrain
         /\ drain # NoDrain => /\ drain.pc \in Running \cup Results
                               /\ drain.force \in BOOLEAN /\ drain.continuing \in BOOLEAN
                               /\ drain.entering \in BOOLEAN /\ drain.stepped \in BOOLEAN
                               /\ drain.scope \in Promotable
BY DEF Drains, NoDrain

\* A drain that goes on without a promotion keeps the invariant.
LEMMA GoesTo ==
  ASSUME RunnerInv, drain.pc \notin {"out", "promoting"}, NEW pc \in Running \cup Results,
         pc # "promoting", GoTo(pc), UNCHANGED inboxVars
  PROVE  RunnerInv'
<1>1. drain' = [drain EXCEPT !.pc = pc] /\ drain \in Drains /\ drain # NoDrain
  BY DrainFields DEF GoTo, RunnerInv
<1>2. drain' \in Drains /\ drain'.pc # "promoting"
  BY <1>1 DEF Drains
<1> QED BY <1>2, InboxKept, MovesOn

\* A hand-off leaves a drain that promotes nothing.
LEMMA HandsOff ==
  ASSUME RunnerInv, drain.pc \notin {"out", "promoting"}, NEW force \in BOOLEAN, HandOff(force)
  PROVE  drain' \in Drains /\ drain'.pc # "promoting"
<1>1. drain \in Drains /\ drain # NoDrain
  BY DrainFields DEF RunnerInv
<1>2. (drain.stepped /\ ~drain.continuing) \in BOOLEAN
  OBVIOUS
<1> QED BY <1>1, <1>2 DEF HandOff, Drains, Running

\* A drain's look at its boundary: control work.
LEMMA ControlStep ==
  ASSUME RunnerInv, Control
  PROVE  RunnerInv'
<1>1. drain.pc = "deciding" /\ TakeControl(BoundaryScope) /\ drain \in Drains /\ drain # NoDrain
  BY DrainFields DEF Control, At, RunnerInv
<1>2. Inv' /\ UNCHANGED promotion
  BY <1>1, ScopesAllowed, TakeControlStep DEF TakeControl, RunnerInv
<1>3. drain' \in Drains /\ drain'.pc # "promoting"
  <2>1. CASE HandOff(FALSE)
    BY <1>1, <2>1, HandsOff
  <2>2. ASSUME NEW row, drain' = [drain EXCEPT !.pc = "compacting", !.entering = EntryAfter({row})]
        PROVE  drain' \in Drains /\ drain'.pc # "promoting"
    <3>1. EntryAfter({row}) \in BOOLEAN
      BY <1>1, DrainFields DEF EntryAfter
    <3> QED BY <1>1, <2>2, <3>1 DEF Drains, Running
  <2> QED BY <2>1, <2>2 DEF Control
<1> QED BY <1>1, <1>2, <1>3, MovesOn

\* ... and none.
LEMMA DecideStep ==
  ASSUME RunnerInv, Decide
  PROVE  RunnerInv'
<1> DEFINE next == NextPromotable(BoundaryScope)
<1>1. drain.pc = "deciding" /\ UNCHANGED inboxVars /\ drain \in Drains /\ drain # NoDrain
  BY DrainFields DEF Decide, At, RunnerInv
<1>2. PICK pc \in {"preparing", "success", "idling"} :
        drain' = [drain EXCEPT !.entering = EntryAfter(next), !.pc = pc]
  BY DEF Decide
<1>3. EntryAfter(next) \in BOOLEAN
  BY <1>1, DrainFields DEF EntryAfter
<1> HIDE DEF next
<1>4. drain' \in Drains /\ drain'.pc # "promoting"
  BY <1>1, <1>2, <1>3 DEF Drains, Running, Results
<1> QED BY <1>1, <1>4, InboxKept, MovesOn

\* A boundary begins a promotion of its scope.
LEMMA BeginPromotionStep ==
  ASSUME RunnerInv, BeginPromotion
  PROVE  RunnerInv'
<1>1. /\ drain.pc = "preparing" /\ Promote(PromotionScope) /\ drain' = [drain EXCEPT !.pc = "promoting"]
      /\ drain \in Drains /\ drain # NoDrain
  BY DrainFields DEF BeginPromotion, At, GoTo, RunnerInv
<1>2. PromotionScope \in Promotable /\ drain.scope \in Promotable /\ drain.continuing \in BOOLEAN
  BY <1>1, ScopesAllowed, DrainFields
<1>3. Inv'
  BY <1>1, <1>2, PromoteStep DEF RunnerInv
<1>4. drain' \in Drains /\ drain'.pc = "promoting" /\ drain'.scope = drain.scope
      /\ drain'.continuing = drain.continuing
  BY <1>1 DEF Drains, Running
<1>5. /\ promotion' # NoPromotion /\ promotion'.scope = PromotionScope /\ promotion'.more = FALSE
      /\ promotion'.stage = "queued" => PromotionScope # "steer"
  BY <1>1 DEF Promote, NoPromotion
<1>6. PromotionScope = "input" => drain.scope = "input" /\ ~drain.continuing
  BY DEF PromotionScope
<1>7. PromotionAllowed'
  BY <1>2, <1>4, <1>5, <1>6 DEF PromotionAllowed, Promotable
<1> QED BY <1>3, <1>4, <1>7 DEF RunnerInv

\* A promotion that goes on does so within what it was asked for.
LEMMA GoOnStep ==
  ASSUME RunnerInv, GoOnPromoting
  PROVE  RunnerInv'
<1>1. drain.pc = "promoting" /\ drain \in Drains /\ drain # NoDrain
  BY DrainFields DEF GoOnPromoting, At, RunnerInv
<1>2. /\ promotion # NoPromotion
      /\ promotion.stage = "queued" \/ promotion.more => promotion.scope = "input"
      /\ promotion.scope = "input" => drain.scope = "input" /\ ~drain.continuing
      /\ promotion \in [stage : {"none", "queued", "publish"}, scope : Promotable \cup {None},
                        rows : Seq(Row), more : BOOLEAN]
      /\ promotion.stage # "none"
  BY <1>1, InvHas DEF RunnerInv, PromotionAllowed, LockOwned
<1>3. CASE (PublishRow \/ PublishMore) /\ UNCHANGED drain
  <2>1. Inv' /\ drain' = drain
    BY <1>3, PublishRowStep, PublishMoreStep DEF RunnerInv
  <2>2. promotion'.stage = promotion.stage /\ promotion'.scope = promotion.scope
        /\ (promotion'.more => promotion.more)
    BY <1>2, <1>3 DEF PublishRow, PublishMore
  <2>3. promotion' # NoPromotion
    BY <1>2, <2>2 DEF NoPromotion
  <2>4. PromotionAllowed'
    BY <1>1, <1>2, <2>1, <2>2, <2>3 DEF PromotionAllowed
  <2> QED BY <1>1, <2>1, <2>4 DEF RunnerInv
<1>4. CASE Promoted /\ GoTo("stepping")
  <2>1. Inv' /\ promotion' = NoPromotion
    BY <1>4, EndStep DEF Promoted, Release, RunnerInv
  <2>2. drain' \in Drains /\ drain'.pc # "promoting"
    BY <1>1, <1>4 DEF GoTo, Drains, Running
  <2>3. PromotionAllowed'
    BY <2>1, <2>2 DEF PromotionAllowed, NoPromotion, None
  <2> QED BY <2>1, <2>2, <2>3 DEF RunnerInv
<1>5. CASE PromoteQueued /\ GoTo(IF promotion' # NoPromotion THEN "promoting"
                                 ELSE IF Rows("queue") # <<>> THEN "boundary" ELSE "stepping")
  <2>1. Inv'
    BY <1>5, PromoteQueuedStep DEF RunnerInv
  <2>2. \/ promotion' = NoPromotion
        \/ promotion'.stage = "publish" /\ promotion'.scope = promotion.scope
    BY <1>2, <1>5 DEF PromoteQueued
  <2>3. promotion.scope = "input"
    BY <1>2, <1>5 DEF PromoteQueued
  <2>4. drain' \in Drains /\ (drain'.pc = "promoting" <=> promotion' # NoPromotion)
        /\ drain'.scope = drain.scope /\ drain'.continuing = drain.continuing
    BY <1>1, <1>5 DEF GoTo, Drains, Running
  <2>5. CASE promotion' = NoPromotion
    BY <2>1, <2>4, <2>5 DEF RunnerInv, PromotionAllowed, NoPromotion, None
  <2>6. CASE promotion' # NoPromotion
    <3>1. PromotionAllowed'
      BY <1>2, <2>2, <2>3, <2>4, <2>6 DEF PromotionAllowed
    <3> QED BY <2>1, <2>4, <3>1 DEF RunnerInv
  <2> QED BY <2>5, <2>6
<1> QED BY <1>3, <1>4, <1>5 DEF GoOnPromoting

\* A drain is struck wherever it is.
LEMMA StruckStep ==
  ASSUME RunnerInv, Struck
  PROVE  RunnerInv'
<1>1. drain.pc \in Running /\ GoTo("interrupted") /\ drain \in Drains
  BY DEF Struck, MovesNow, At, Running, RunnerInv
<1>2. drain' \in Drains /\ drain'.pc = "interrupted"
  BY <1>1 DEF GoTo, Drains, Running, Results, NoDrain
<1>3. CASE At("promoting")
  <2>1. Inv' /\ promotion' = NoPromotion
    BY <1>3, EndStep DEF Struck, PromotionInterrupted, Release, RunnerInv
  <2>2. PromotionAllowed'
    BY <1>2, <2>1 DEF PromotionAllowed, NoPromotion, None
  <2> QED BY <1>2, <2>1, <2>2 DEF RunnerInv
<1>4. CASE ~At("promoting")
  BY <1>1, <1>2, <1>4, InboxKept, MovesOn DEF Struck, At
<1> QED BY <1>3, <1>4

\* What clients do leaves the drain and its promotion alone.
LEMMA AdmissionStep ==
  ASSUME RunnerInv, Admission, UNCHANGED drain
  PROVE  RunnerInv'
<1>1. Inv'
  BY InvNext DEF RunnerInv, InboxNext
<1>2. UNCHANGED promotion
  BY DEF Admission, Calls, Return, Reconcile, Admit, AdmitCompaction, EnqueueCompaction, AdmitMove,
     Steer, Cancel, Queue, ChangeDelivery
<1> QED BY <1>1, <1>2 DEF RunnerInv, PromotionAllowed

\* A drain is entered.
LEMMA EnterStep ==
  ASSUME RunnerInv, NEW force \in BOOLEAN, NEW scope \in Promotable, Enter(force, scope)
  PROVE  RunnerInv'
<1>1. drain.pc # "promoting" /\ UNCHANGED inboxVars
  BY DEF Enter, At
<1>2. drain' \in Drains /\ drain'.pc # "promoting"
  BY DEF Enter, Drains, Running
<1> QED BY <1>1, <1>2, InboxKept, MovesOn

\* A drain is left.
LEMMA LeaveStep ==
  ASSUME RunnerInv, Leave
  PROVE  RunnerInv'
<1>1. drain.pc # "promoting" /\ UNCHANGED inboxVars
  BY DEF Leave, Results
<1>2. drain' \in Drains /\ drain'.pc # "promoting"
  BY DEF Leave, Drains, NoDrain
<1> QED BY <1>1, <1>2, InboxKept, MovesOn

\* Every step of a drain keeps the invariant.
LEMMA WorksStep ==
  ASSUME RunnerInv, Works
  PROVE  RunnerInv'
<1>1. CASE Start \/ Look \/ HookReturns \/ ControlFirst \/ Declined \/ Fails
  <2>1. /\ drain.pc \notin {"out", "promoting"} /\ UNCHANGED inboxVars
        /\ \E pc \in {"success", "boundary", "deciding", "interrupted", "failed"} : GoTo(pc)
    BY <1>1 DEF Start, Look, HookReturns, ControlFirst, Declined, Fails, At
  <2> QED BY <2>1, GoesTo DEF Running, Results
<1>2. CASE Reload
  <2>1. /\ drain.pc = "boundary" /\ HandOff(drain.force) /\ UNCHANGED inboxVars
        /\ drain.force \in BOOLEAN
    BY <1>2, DrainFields DEF Reload, At, RunnerInv
  <2> QED BY <2>1, HandsOff, InboxKept, MovesOn
<1>3. CASE Compacted
  <2>1. /\ drain.pc = "compacting" /\ UNCHANGED inboxVars /\ drain \in Drains /\ drain # NoDrain
        /\ drain' = [drain EXCEPT !.pc = "boundary", !.force = FALSE]
    BY <1>3, DrainFields DEF Compacted, At, RunnerInv
  <2>2. drain' \in Drains /\ drain'.pc # "promoting"
    BY <2>1 DEF Drains, Running
  <2> QED BY <2>1, <2>2, InboxKept, MovesOn
<1>4. ASSUME NEW continues \in BOOLEAN, StepEnds(continues) PROVE RunnerInv'
  <2>1. /\ drain.pc = "stepping" /\ UNCHANGED inboxVars /\ drain \in Drains /\ drain # NoDrain
        /\ drain' = [drain EXCEPT !.pc = "boundary", !.continuing = continues, !.stepped = TRUE,
                                  !.force = FALSE, !.entering = FALSE]
    BY <1>4, DrainFields DEF StepEnds, At, RunnerInv
  <2>2. drain' \in Drains /\ drain'.pc # "promoting"
    BY <2>1 DEF Drains, Running
  <2> QED BY <2>1, <2>2, InboxKept, MovesOn
<1> QED BY <1>1, <1>2, <1>3, <1>4, ControlStep, DecideStep, BeginPromotionStep, GoOnStep DEF Works

\* The invariant holds at first.
LEMMA RunnerStarts == ASSUME RunnerInit PROVE RunnerInv
<1>1. Inv /\ promotion = NoPromotion /\ drain = NoDrain
  BY InvInit DEF RunnerInit, InboxInit
<1> QED BY <1>1 DEF RunnerInv, PromotionAllowed, Drains, NoPromotion, NoDrain, None

\* Every step keeps the invariant.
LEMMA RunnerStep == ASSUME RunnerInv, [RunnerNext]_runnerVars PROVE RunnerInv'
<1>1. CASE UNCHANGED runnerVars
  <2>1. UNCHANGED inboxVars /\ UNCHANGED drain
    BY <1>1 DEF runnerVars, inboxVars
  <2> QED BY <2>1, InboxKept DEF RunnerInv, PromotionAllowed
<1> QED BY <1>1, AdmissionStep, EnterStep, WorksStep, StruckStep, LeaveStep DEF RunnerNext

-----------------------------------------------------------------------------
(* Queued input *)

\* The promise for one step.
QueuedWaitsNow ==
  \A row \in ToSet(inbox) :
    history' = Append(history, row) /\ row.delivery = "queue"
      => ~Parked(row) /\ (drain.continuing => drain.entering /\ IsControl(row))

\* It is enough to look at the row that was delivered.
LEMMA DeliveredWaits ==
  ASSUME RunnerInv, NEW k \in 1..Len(inbox), Deliver(inbox[k]),
         inbox[k].delivery = "queue" =>
           ~Parked(inbox[k]) /\ (drain.continuing => drain.entering /\ IsControl(inbox[k]))
  PROVE  QueuedWaitsNow
<1>1. inbox \in Seq(Row) /\ history \in Seq(Row) /\ history' = Append(history, inbox[k])
  BY InvHas DEF RunnerInv, Deliver
<1>2. ASSUME NEW row \in ToSet(inbox), history' = Append(history, row) PROVE row = inbox[k]
  <2>1. row \in Row /\ inbox[k] \in Row
    BY <1>1, <1>2 DEF ToSet
  <2>2. Append(history, row)[Len(history) + 1] = row
    BY <1>1, <2>1, AppendProperties
  <2>3. Append(history, inbox[k])[Len(history) + 1] = inbox[k]
    BY <1>1, <2>1, AppendProperties
  <2> QED BY <1>1, <1>2, <2>2, <2>3
<1> QED BY <1>2 DEF QueuedWaitsNow

\* Control work that is queued is taken at an entry, or between turns.
LEMMA ControlWaits ==
  ASSUME RunnerInv, Control
  PROVE  QueuedWaitsNow
<1>1. PICK row \in NextPromotable(BoundaryScope) : IsControl(row) /\ Deliver(row)
  BY DEF Control, TakeControl
<1>2. inbox \in Seq(Row) /\ BoundaryScope \in Promotable
  BY InvHas, ScopesAllowed DEF RunnerInv
<1>3. PICK k \in 1..Len(inbox) : row = inbox[k]
  BY <1>1, <1>2, NextPending
<1>4. ASSUME row.delivery = "queue" PROVE drain.continuing => drain.entering
  <2>1. BoundaryScope = "steer" => PendingSteers # <<>>
    BY <1>1 DEF NextPromotable
  <2>2. PendingSteers # <<>> => row.delivery = "steer"
    <3>1. ASSUME PendingSteers # <<>> PROVE row.delivery = "steer"
      <4>1. row = Head(PendingSteers)
        BY <1>1, <1>2, <3>1, NextPending
      <4>2. /\ PendingSteers \in Seq(Row)
            /\ \A i \in 1..Len(PendingSteers) : PendingSteers[i].delivery = "steer"
        BY <1>2, SteersRead
      <4>3. 1 \in 1..Len(PendingSteers) /\ Head(PendingSteers) = PendingSteers[1]
        BY <3>1, <4>2, EmptySeq
      <4> QED BY <4>1, <4>2, <4>3
    <3> QED BY <3>1
  <2>3. BoundaryScope # "steer"
    BY <1>4, <2>1, <2>2
  <2> QED BY <2>3 DEF BoundaryScope
<1>5. ~Parked(row)
  BY <1>1 DEF Parked
<1> QED BY <1>1, <1>3, <1>4, <1>5, DeliveredWaits

\* A queued prompt is promoted between turns, by a drain with scope "input".
LEMMA PromotionWaits ==
  ASSUME RunnerInv, PublishRow
  PROVE  QueuedWaitsNow
<1>1. PICK g : Reads(promotion.rows, g, inbox)
  BY InvHas DEF Holding, RunnerInv
<1>2. /\ 1 \in 1..Len(promotion.rows) /\ g[1] \in 1..Len(inbox) /\ Deliver(inbox[g[1]])
      /\ promotion.rows[1] = inbox[g[1]]
  BY <1>1, PublishHead DEF RunnerInv
<1>3. inbox[g[1]].delivery = "steer" \/ promotion.more
  BY <1>2, InvHas DEF Holding, RunnerInv
<1>4. promotion.more => drain.scope = "input" /\ ~drain.continuing
  BY DEF RunnerInv, PromotionAllowed
<1> QED BY <1>2, <1>3, <1>4, DeliveredWaits DEF Parked

\* A row that is delivered was not there before.
LEMMA HistoryGrows ==
  ASSUME RunnerInv, UNCHANGED history
  PROVE  QueuedWaitsNow
<1>1. history \in Seq(Row)
  BY InvHas DEF RunnerInv
<1>2. \A row \in Row : history # Append(history, row)
  <2>1. \A row \in Row : Len(Append(history, row)) = Len(history) + 1
    BY <1>1, AppendProperties
  <2>2. Len(history) \in Nat
    BY <1>1
  <2> QED BY <2>1, <2>2
<1>3. \A row \in ToSet(inbox) : row \in Row
  BY InvHas DEF RunnerInv, ToSet
<1> QED BY <1>2, <1>3 DEF QueuedWaitsNow

\* In every step what is queued waits as it must.
LEMMA RunnerWaits == ASSUME RunnerInv, [RunnerNext]_runnerVars PROVE QueuedWaitsNow
<1>1. CASE Control \/ PublishRow
  BY <1>1, ControlWaits, PromotionWaits
<1>2. CASE ~(Control \/ PublishRow) /\ RunnerNext
  <2>1. CASE Admission
    <3>1. UNCHANGED history
      BY <2>1 DEF Admission, Calls, Return, Reconcile, Admit, AdmitCompaction, EnqueueCompaction,
         AdmitMove, Steer, Cancel, Queue, ChangeDelivery
    <3> QED BY <3>1, HistoryGrows
  <2>2. CASE Works
    <3>1. UNCHANGED history
      BY <1>2, <2>2 DEF Works, Start, Reload, Look, Decide, Compacted, HookReturns, ControlFirst,
         BeginPromotion, Promote, GoOnPromoting, PromoteQueued, PublishMore, Promoted, Release,
         StepEnds, Declined, Fails, inboxVars
    <3> QED BY <3>1, HistoryGrows
  <2>3. CASE Struck \/ Leave \/ \E force \in BOOLEAN, scope \in Promotable : Enter(force, scope)
    <3>1. UNCHANGED history
      BY <2>3 DEF Struck, PromotionInterrupted, Release, Leave, Enter, inboxVars
    <3> QED BY <3>1, HistoryGrows
  <2> QED BY <1>2, <2>1, <2>2, <2>3 DEF RunnerNext
<1>3. CASE UNCHANGED runnerVars
  BY <1>3, HistoryGrows DEF runnerVars
<1> QED BY <1>1, <1>2, <1>3

-----------------------------------------------------------------------------
(* Theorems *)

\* The invariant holds in every reachable state.
THEOREM RunnerInvariant == RunnerSpec => []RunnerInv
BY RunnerStarts, RunnerStep, PTL DEF RunnerSpec

\* Every state of a drain over the inbox has its types.
THEOREM RunnerTypes == RunnerSpec => []RunnerTypeOK
<1>1. RunnerInv => RunnerTypeOK
  BY DEF RunnerInv, Inv, RunnerTypeOK, Drains
<1> QED BY <1>1, RunnerInvariant, PTL

\* A steer-scoped drain never promotes a queued prompt, and nothing queued is
\* consumed in the middle of a turn but control work on entry to a Location.
THEOREM QueuedInputWaits == RunnerSpec => QueuedWaits
<1>1. RunnerInv /\ [RunnerNext]_runnerVars =>
        [\A row \in ToSet(inbox) :
           history' = Append(history, row) /\ row.delivery = "queue"
             => /\ ~Parked(row)
                /\ drain.continuing => drain.entering /\ IsControl(row)]_runnerVars
  BY RunnerWaits DEF QueuedWaitsNow
<1> QED BY <1>1, RunnerInvariant, PTL DEF RunnerSpec, QueuedWaits
================================================================================
