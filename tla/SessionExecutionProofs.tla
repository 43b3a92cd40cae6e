------------------------ MODULE SessionExecutionProofs ------------------------
(***************************************************************************)
(* The proofs about SessionExecution, for any IDs, clients, item types and *)
(* number of attempts: its types, that a claim covers every drain, that    *)
(* resumes are bounded, and that no input is stranded whose doorbell rang. *)
(***************************************************************************)
EXTENDS SessionExecution, SessionRunnerProofs

-----------------------------------------------------------------------------
(* The coordinator's part *)

\* The proofs about the coordinator, for this Session and this caller.
CP == INSTANCE RunCoordinatorProofs WITH Keys <- {Session}, Callers <- {Sweeper}, observed <- <<>>

\* Every step this module takes of the coordinator is one those proofs are about.
LEMMA CoordinatorSteps ==
  ASSUME NEW s, NEW x
  PROVE  /\ Coordinator!Wake(Session, s) <=> CP!Wake(Session, s)
         /\ Coordinator!Run(Sweeper, Session) <=> CP!Run(Sweeper, Session)
         /\ Coordinator!RunAgain(Sweeper) <=> CP!RunAgain(Sweeper)
         /\ Coordinator!Interrupt(Session) <=> CP!Interrupt(Session)
         /\ Coordinator!Close <=> CP!Close
         /\ Coordinator!Begin(Session) <=> CP!Begin(Session)
         /\ Coordinator!StartedReturns(Session) <=> CP!StartedReturns(Session)
         /\ Coordinator!StartedDies(Session) <=> CP!StartedDies(Session)
         /\ Coordinator!DrainReturns(Session) <=> CP!DrainReturns(Session)
         /\ Coordinator!DrainFails(Session, x) <=> CP!DrainFails(Session, x)
         /\ Coordinator!Again(Session) <=> CP!Again(Session)
         /\ Coordinator!SettledReturns(Session) <=> CP!SettledReturns(Session)
         /\ Coordinator!SettledDies(Session) <=> CP!SettledDies(Session)
         /\ Coordinator!Settle(Session) <=> CP!Settle(Session)
<1>1. Coordinator!Wake(Session, s) <=> CP!Wake(Session, s)
  BY DEF Coordinator!Wake, CP!Wake, Coordinator!Active, CP!Active, Coordinator!Phase, CP!Phase, Coordinator!Rung, CP!Rung, Coordinator!Started, CP!Started, Coordinator!None, CP!None
<1>2. Coordinator!Run(Sweeper, Session) <=> CP!Run(Sweeper, Session)
  BY DEF Coordinator!Run, CP!Run, Coordinator!Join, CP!Join, Coordinator!Active, CP!Active, Coordinator!Phase, CP!Phase, Coordinator!Started, CP!Started, Coordinator!None, CP!None
<1>3. Coordinator!RunAgain(Sweeper) <=> CP!RunAgain(Sweeper)
  BY DEF Coordinator!RunAgain, CP!RunAgain, Coordinator!Join, CP!Join, Coordinator!Active, CP!Active, Coordinator!Phase, CP!Phase, Coordinator!Started, CP!Started, Coordinator!None, CP!None
<1>4. Coordinator!Interrupt(Session) <=> CP!Interrupt(Session)
  BY DEF Coordinator!Interrupt, CP!Interrupt, Coordinator!Interrupted, CP!Interrupted, Coordinator!None, CP!None
<1>5. Coordinator!Close <=> CP!Close
  BY DEF Coordinator!Close, CP!Close, Coordinator!Owned, CP!Owned, Coordinator!Phase, CP!Phase
<1>6. Coordinator!Begin(Session) <=> CP!Begin(Session)
  BY DEF Coordinator!Begin, CP!Begin, Coordinator!Phase, CP!Phase, Coordinator!Exit, CP!Exit, Coordinator!SetPhase, CP!SetPhase
<1>7. Coordinator!StartedReturns(Session) <=> CP!StartedReturns(Session)
  BY DEF Coordinator!StartedReturns, CP!StartedReturns, Coordinator!Phase, CP!Phase, Coordinator!Exit, CP!Exit, Coordinator!SetPhase, CP!SetPhase
<1>8. Coordinator!StartedDies(Session) <=> CP!StartedDies(Session)
  BY DEF Coordinator!StartedDies, CP!StartedDies, Coordinator!Phase, CP!Phase, Coordinator!Exit, CP!Exit
<1>9. Coordinator!DrainReturns(Session) <=> CP!DrainReturns(Session)
  BY DEF Coordinator!DrainReturns, CP!DrainReturns, Coordinator!Phase, CP!Phase, Coordinator!Continues, CP!Continues, Coordinator!NextDrain, CP!NextDrain, Coordinator!Exit, CP!Exit, Coordinator!None, CP!None
<1>10. Coordinator!DrainFails(Session, x) <=> CP!DrainFails(Session, x)
  BY DEF Coordinator!DrainFails, CP!DrainFails, Coordinator!Phase, CP!Phase, Coordinator!Exit, CP!Exit
<1>11. Coordinator!Again(Session) <=> CP!Again(Session)
  BY DEF Coordinator!Again, CP!Again, Coordinator!Phase, CP!Phase, Coordinator!Exit, CP!Exit, Coordinator!SetPhase, CP!SetPhase
<1>12. Coordinator!SettledReturns(Session) <=> CP!SettledReturns(Session)
  BY DEF Coordinator!SettledReturns, CP!SettledReturns, Coordinator!Phase, CP!Phase, Coordinator!SetPhase, CP!SetPhase
<1>13. Coordinator!SettledDies(Session) <=> CP!SettledDies(Session)
  BY DEF Coordinator!SettledDies, CP!SettledDies, Coordinator!Phase, CP!Phase
<1>14. Coordinator!Settle(Session) <=> CP!Settle(Session)
  BY DEF Coordinator!Settle, CP!Settle, Coordinator!Phase, CP!Phase, Coordinator!Successor, CP!Successor, Coordinator!Started, CP!Started, Coordinator!Idle, CP!Idle, Coordinator!Released, CP!Released, Coordinator!MovesOn, CP!MovesOn, Coordinator!Waiting, CP!Waiting, Coordinator!Free, CP!Free, Coordinator!None, CP!None
<1> QED BY <1>1, <1>2, <1>3, <1>4, <1>5, <1>6, <1>7, <1>8, <1>9, <1>10, <1>11, <1>12, <1>13, <1>14

\* A step of the coordinator keeps its types and the shape of its executions.
LEMMA CoordinatorStep ==
  ASSUME CP!Inv,
         \/ \E s \in Promotable : Coordinator!Wake(Session, s)
         \/ Coordinator!Run(Sweeper, Session) \/ Coordinator!RunAgain(Sweeper)
         \/ Coordinator!Interrupt(Session) \/ Coordinator!Close
         \/ Coordinator!Begin(Session) \/ Coordinator!StartedReturns(Session)
         \/ Coordinator!StartedDies(Session) \/ Coordinator!DrainReturns(Session)
         \/ \E x \in {"failed", "interrupted"} : Coordinator!DrainFails(Session, x)
         \/ Coordinator!Again(Session) \/ Coordinator!SettledReturns(Session)
         \/ Coordinator!SettledDies(Session) \/ Coordinator!Settle(Session)
         \/ UNCHANGED coordinatorVars
  PROVE  CP!Inv'
<1>1. CASE UNCHANGED coordinatorVars
  <2>1. UNCHANGED CP!vars
    BY <1>1 DEF coordinatorVars, CP!vars
  <2> QED BY <2>1, CP!StepInv
<1>2. CASE ~UNCHANGED coordinatorVars
  <2>1. \/ \E s \in Promotable : CP!Wake(Session, s)
        \/ CP!Run(Sweeper, Session) \/ CP!RunAgain(Sweeper) \/ CP!Interrupt(Session) \/ CP!Close
        \/ CP!Begin(Session) \/ CP!StartedReturns(Session) \/ CP!StartedDies(Session)
        \/ CP!DrainReturns(Session)
        \/ \E x \in {"failed", "interrupted"} : CP!DrainFails(Session, x)
        \/ CP!Again(Session) \/ CP!SettledReturns(Session) \/ CP!SettledDies(Session)
        \/ CP!Settle(Session)
    BY <1>2, CoordinatorSteps
  <2>2. CP!Next
    BY <2>1 DEF CP!Next, CP!FiberStep, CP!CallerStep, CP!Promotable, Promotable
  <2> QED BY <2>2, CP!StepInv
<1> QED BY <1>1, <1>2

\* What an execution is: idle it is blank, a live one has a scope, its fiber is
\* interrupted when somebody stopped it or the process is torn down.
LEMMA ExecutionShaped ==
  ASSUME CP!Inv
  PROVE  /\ Coordinator!TypeOK
         /\ execution \in [{Session} -> Coordinator!Execution]
         /\ execution[Session] \in Coordinator!Execution
         /\ Phase = "idle" => execution[Session] = Coordinator!Idle
         /\ Phase # "idle" => execution[Session].scope \in Promotable
         /\ execution[Session].pendingWake \in {"steer", "input", "none"}
         /\ Phase \in {"forked", "starting", "draining", "yielded"} =>
              (execution[Session].interrupted <=> execution[Session].stopping \/ closed)
<1>1. Coordinator!TypeOK
  BY DEF CP!Inv, CP!TypeOK, Coordinator!TypeOK, CP!Execution, Coordinator!Execution, CP!Phases,
     Coordinator!Phases, CP!Scopes, Coordinator!Scopes, CP!Promotable, Coordinator!Promotable,
     CP!Exits, Coordinator!Exits, CP!None, Coordinator!None, CP!Call, Coordinator!Call,
     CP!CallStates, Coordinator!CallStates, CP!Free, Coordinator!Free
<1>2. execution \in [{Session} -> Coordinator!Execution] /\ execution[Session] \in Coordinator!Execution
  BY <1>1 DEF Coordinator!TypeOK
<1>3. CP!ExecutionShape(execution[Session])
  BY DEF CP!Inv
<1>4. /\ execution[Session].pendingWake \in {"steer", "input", "none"}
      /\ execution[Session].scope \in {"steer", "input", "none"}
  BY <1>2 DEF Coordinator!Execution, Coordinator!Scopes, Coordinator!Promotable, Coordinator!None
<1>5. CP!Idle = Coordinator!Idle
  BY DEF CP!Idle, Coordinator!Idle, CP!None, Coordinator!None
<1> QED BY <1>1, <1>2, <1>3, <1>4, <1>5 DEF CP!ExecutionShape, CP!None, Phase, Promotable

-----------------------------------------------------------------------------
(* What the coordinator's steps do to the Session's execution *)

\* An execution keeps its scope and doorbell.
SameWork ==
  /\ execution'[Session].scope = execution[Session].scope
  /\ execution'[Session].pendingWake = execution[Session].pendingWake

\* A wake rings the doorbell, or starts an execution for its scope.
LEMMA WakeDoes ==
  ASSUME CP!Inv, NEW s \in Promotable, Coordinator!Wake(Session, s)
  PROVE  /\ ~closed /\ ~closed'
         /\ Active => /\ execution'[Session].phase = Phase
                      /\ execution'[Session].scope = execution[Session].scope
                      /\ execution'[Session].pendingWake =
                           IF execution[Session].pendingWake = "input" THEN "input" ELSE s
         /\ ~Active => /\ execution'[Session].phase = "forked" /\ execution'[Session].scope = s
                       /\ execution'[Session].pendingWake = "none"
<1>1. execution \in [{Session} -> Coordinator!Execution] /\ execution[Session] \in Coordinator!Execution
  BY ExecutionShaped
<1> QED BY <1>1 DEF Coordinator!Wake, Coordinator!Active, Coordinator!Phase, Active, Phase,
           Coordinator!Rung, Coordinator!Started, Coordinator!None, Coordinator!Execution

\* A run joins the execution, or starts one for all input.
LEMMA JoinDoes ==
  ASSUME CP!Inv, \/ Coordinator!Run(Sweeper, Session)
                 \/ Coordinator!RunAgain(Sweeper) /\ caller[Sweeper].key = Session
  PROVE  /\ UNCHANGED closed
         /\ Active => execution' = execution
         /\ ~Active => /\ execution'[Session].phase = "forked" /\ execution'[Session].scope = "input"
                       /\ execution'[Session].pendingWake = "none"
<1>1. execution \in [{Session} -> Coordinator!Execution]
  BY ExecutionShaped
<1> QED BY <1>1 DEF Coordinator!Run, Coordinator!RunAgain, Coordinator!Join, Coordinator!Active,
           Coordinator!Phase, Active, Phase, Coordinator!Started, Coordinator!None

\* A caller that looks again looks at the key it waited for.
LEMMA CallerKey ==
  ASSUME CP!Inv, Coordinator!RunAgain(Sweeper)
  PROVE  caller[Sweeper].key = Session
<1>1. caller \in [{Sweeper} -> Coordinator!Call] /\ caller[Sweeper].state = "rerun"
  BY ExecutionShaped DEF Coordinator!TypeOK, Coordinator!RunAgain
<1> QED BY <1>1 DEF Coordinator!Call, Coordinator!Free

\* An interrupt stops the fiber, or takes the doorbell: the phase stays.
LEMMA InterruptDoes ==
  ASSUME CP!Inv, Coordinator!Interrupt(Session)
  PROVE  /\ UNCHANGED closed /\ execution'[Session].phase = Phase
         /\ execution'[Session].scope = execution[Session].scope
<1>1. execution \in [{Session} -> Coordinator!Execution] /\ execution[Session] \in Coordinator!Execution
  BY ExecutionShaped
<1> QED BY <1>1 DEF Coordinator!Interrupt, Coordinator!Interrupted, Phase, Coordinator!Execution

\* A teardown closes the coordinator and leaves its work and its phase.
LEMMA CloseDoes ==
  ASSUME CP!Inv, Coordinator!Close
  PROVE  /\ closed' /\ execution'[Session].phase = Phase /\ SameWork
<1>1. execution \in [{Session} -> Coordinator!Execution] /\ execution[Session] \in Coordinator!Execution
  BY ExecutionShaped
<1> QED BY <1>1 DEF Coordinator!Close, Coordinator!Owned, SameWork, Phase, Coordinator!Execution

\* The fiber's steps before and after a drain, and its failures: an interrupted
\* fiber exits instead.
LEMMA FiberDoes ==
  ASSUME CP!Inv
  PROVE  /\ Coordinator!Begin(Session) =>
              /\ UNCHANGED closed /\ SameWork /\ Phase = "forked"
              /\ execution'[Session].phase \in {"starting", "settling"}
         /\ Coordinator!StartedReturns(Session) \/ Coordinator!Again(Session) =>
              /\ UNCHANGED closed /\ SameWork /\ Phase \in {"starting", "yielded"}
              /\ execution'[Session].phase \in {"draining", "settling"}
         /\ Coordinator!StartedDies(Session) =>
              /\ UNCHANGED closed /\ SameWork /\ Phase = "starting"
              /\ execution'[Session].phase = "settling"
         /\ \A x : Coordinator!DrainFails(Session, x) =>
              /\ UNCHANGED closed /\ SameWork /\ Phase = "draining"
              /\ execution'[Session].phase = "settling"
         /\ Coordinator!SettledReturns(Session) \/ Coordinator!SettledDies(Session) =>
              /\ UNCHANGED closed /\ SameWork /\ Phase = "settling"
              /\ execution'[Session].phase = "settled"
<1>1. execution \in [{Session} -> Coordinator!Execution] /\ execution[Session] \in Coordinator!Execution
  BY ExecutionShaped
<1>2. ASSUME NEW p, Coordinator!SetPhase(Session, p)
      PROVE  UNCHANGED closed /\ SameWork /\ execution'[Session].phase = p
  BY <1>1, <1>2 DEF Coordinator!SetPhase, SameWork, Coordinator!Execution
<1>3. ASSUME NEW x, Coordinator!Exit(Session, x)
      PROVE  UNCHANGED closed /\ SameWork /\ execution'[Session].phase = "settling"
  BY <1>1, <1>3 DEF Coordinator!Exit, SameWork, Coordinator!Execution
<1>4. Coordinator!SettledDies(Session) =>
        UNCHANGED closed /\ SameWork /\ execution'[Session].phase = "settled"
  BY <1>1 DEF Coordinator!SettledDies, SameWork, Coordinator!Execution
<1> QED BY <1>2, <1>3, <1>4 DEF Coordinator!Begin, Coordinator!StartedReturns, Coordinator!Again,
           Coordinator!StartedDies, Coordinator!DrainFails, Coordinator!SettledReturns,
           Coordinator!SettledDies, Coordinator!Phase, Phase

\* A drain that succeeded is followed by another for what the doorbell holds.
LEMMA DrainReturnsDoes ==
  ASSUME CP!Inv, Coordinator!DrainReturns(Session)
  PROVE  /\ UNCHANGED closed /\ Phase = "draining"
         /\ ~execution[Session].stopping /\ execution[Session].pendingWake # "none" =>
              /\ execution'[Session].phase = "yielded"
              /\ execution'[Session].scope = execution[Session].pendingWake
         /\ ~(~execution[Session].stopping /\ execution[Session].pendingWake # "none") =>
              execution'[Session].phase = "settling" /\ SameWork
<1>1. execution \in [{Session} -> Coordinator!Execution] /\ execution[Session] \in Coordinator!Execution
  BY ExecutionShaped
<1> QED BY <1>1, ZenonT(40) DEF Coordinator!DrainReturns, Coordinator!Continues, Coordinator!NextDrain,
           Coordinator!Exit, Coordinator!Phase, Phase, SameWork, Coordinator!None, Coordinator!Execution

\* A settled execution is followed by another for what the doorbell holds.
LEMMA SettleDoes ==
  ASSUME CP!Inv, Coordinator!Settle(Session)
  PROVE  /\ UNCHANGED closed /\ Phase = "settled"
         /\ execution[Session].pendingWake # "none" =>
              /\ execution'[Session].phase = "forked"
              /\ execution'[Session].scope = execution[Session].pendingWake
         /\ execution[Session].pendingWake = "none" => execution'[Session].phase = "idle"
<1>1. execution \in [{Session} -> Coordinator!Execution]
  BY ExecutionShaped
<1> QED BY <1>1 DEF Coordinator!Settle, Coordinator!Successor, Coordinator!Started, Coordinator!Idle,
           Coordinator!Phase, Phase, Coordinator!None

-----------------------------------------------------------------------------
(* The inductive invariant *)

\* The drain is the coordinator's: it runs while the execution drains, with the
\* scope of the execution.
DrainFollows ==
  /\ Phase = "draining" => drain # NoDrain /\ drain.scope = execution[Session].scope
  /\ Phase # "draining" => drain = NoDrain

ClaimHeld == Phase \in {"draining", "yielded"} /\ sweep # "terminalized" => claim

Counted ==
  /\ resumes \in 0..(MaxAttempts + 1)
  /\ resumes <= attempts + 1
  /\ sweep \in {"counted", "noticed"} => resumes <= attempts /\ attempts <= MaxAttempts

\* A drain with scope s or a wider one is ahead, or runs and has not completed.
Ahead(s) ==
  /\ execution[Session].scope \in {s, "input"}
  /\ \/ Phase \in {"forked", "starting", "yielded"}
     \/ Phase = "draining" /\ drain.pc # "success"

Serves(s) == execution[Session].pendingWake \in {s, "input"} \/ Ahead(s)

\* What was rung for and is pending will be looked at: the doorbell holds it, or
\* a drain that may promote it has not looked its last.
Owes ==
  /\ closed => rung = {} /\ steered = {}
  /\ \A id \in rung \cup steered : \E r \in Pending \cup Delivered : r.id = id
  /\ \A r \in Pending : r.id \in rung => Serves("input")
  /\ \A r \in Pending : r.id \in steered => r.delivery = "steer" /\ Serves("steer")

ExecutionInv ==
  /\ RunnerInv /\ CP!Inv
  /\ claim \in BOOLEAN /\ attempts \in 0..(MaxAttempts + 1)
  /\ sweep \in SweepStates /\ asked \in {"no", "look", "wake"}
  /\ rung \subseteq Ids /\ steered \subseteq Ids /\ unfinished \in BOOLEAN
  /\ DrainFollows /\ ClaimHeld /\ Counted /\ Owes

-----------------------------------------------------------------------------
(* What becomes of the rows *)

\* A message with this ID is pending or visible.
Known(id) == \E r \in Pending \cup Delivered : r.id = id

\* No ID is forgotten; a pending row was there, or its ID is new; only a client
\* that steers a row changes it.
RowsKept ==
  /\ \A id : Known(id) => Known(id)'
  /\ \A r \in Pending' : \/ ~Known(r.id)
                         \/ \E q \in Pending : q.id = r.id /\ (q.delivery = r.delivery \/ r.delivery = "steer")

\* The elements of the tables after a step.
LEMMA AppendSet ==
  ASSUME NEW s \in Seq(Row), NEW row \in Row
  PROVE  ToSet(Append(s, row)) = ToSet(s) \cup {row}
<1> DEFINE t == Append(s, row)
<1>1. /\ t \in Seq(Row) /\ Len(t) = Len(s) + 1 /\ t[Len(s) + 1] = row
      /\ \A i \in 1..Len(s) : t[i] = s[i]
  BY AppendProperties
<1>2. DOMAIN t = 1..(Len(s) + 1) /\ DOMAIN s = 1..Len(s) /\ Len(s) \in Nat
  BY <1>1
<1> HIDE DEF t
<1>3. \A i \in 1..(Len(s) + 1) : i = Len(s) + 1 \/ i \in 1..Len(s)
  BY <1>2
<1>4. 1..Len(s) \subseteq 1..(Len(s) + 1) /\ Len(s) + 1 \in 1..(Len(s) + 1)
  BY <1>2
<1>5. ToSet(t) = ToSet(s) \cup {row}
  BY <1>1, <1>2, <1>3, <1>4 DEF ToSet
<1> QED BY <1>5 DEF t

\* What a table holds that lacks one row of another.
LEMMA LacksSet ==
  ASSUME NEW s \in Seq(Row), NEW t, NEW k, LacksAt(t, s, k)
  PROVE  ToSet(t) \subseteq ToSet(s) /\ ToSet(s) \subseteq ToSet(t) \cup {s[k]}
<1>1. /\ t \in Seq(Row) /\ Len(s) \in Nat /\ k \in 1..Len(s) /\ Len(t) = Len(s) - 1
      /\ \A j \in 1..Len(t) : t[j] = s[Back(j, k)] /\ Back(j, k) \in 1..Len(s)
  BY LacksRows
<1>2. DOMAIN t = 1..Len(t) /\ DOMAIN s = 1..Len(s)
  BY <1>1
<1>3. ASSUME NEW i \in 1..Len(s), i # k PROVE \E j \in 1..Len(t) : t[j] = s[i]
  <2>1. CASE i < k
    <3>1. i \in 1..Len(t) /\ Back(i, k) = i
      BY <1>1, <2>1 DEF Back
    <3> QED BY <1>1, <3>1
  <2>2. CASE ~(i < k)
    <3>1. i - 1 \in 1..Len(t) /\ Back(i - 1, k) = i
      BY <1>1, <1>3, <2>2 DEF Back
    <3> QED BY <1>1, <3>1
  <2> QED BY <2>1, <2>2
<1>4. ToSet(t) = {t[j] : j \in 1..Len(t)} /\ ToSet(s) = {s[j] : j \in 1..Len(s)}
  BY <1>2 DEF ToSet
<1>5. ToSet(t) \subseteq ToSet(s)
  BY <1>1, <1>4
<1>6. ASSUME NEW x \in ToSet(s) PROVE x \in ToSet(t) \cup {s[k]}
  BY <1>3, <1>4
<1> QED BY <1>5, <1>6

\* Nothing changes in the tables.
LEMMA RowsUnchanged ==
  ASSUME UNCHANGED <<inbox, history>>
  PROVE  RowsKept /\ Pending' = Pending
<1>1. Pending' = Pending /\ Delivered' = Delivered
  BY DEF Pending, Delivered
<1>2. \A id : Known(id)' = Known(id)
  BY <1>1 DEF Known
<1> QED BY <1>1, <1>2 DEF RowsKept

\* An admission adds a row with a new ID.
LEMMA RowsAppended ==
  ASSUME Inv, NEW row \in Row, Recorded(row.id) = {}, inbox' = Append(inbox, row), UNCHANGED history
  PROVE  RowsKept
<1>1. Pending' = Pending \cup {row} /\ Delivered' = Delivered
  BY InvHas, AppendSet DEF Pending, Delivered
<1>2. ~Known(row.id)
  BY DEF Known, Recorded
<1>3. \A id : Known(id) => Known(id)'
  BY <1>1 DEF Known
<1> QED BY <1>1, <1>2, <1>3 DEF RowsKept

\* A delivery takes a row from the one table to the other.
LEMMA RowsDelivered ==
  ASSUME Inv, NEW k \in 1..Len(inbox), Deliver(inbox[k])
  PROVE  RowsKept /\ Pending' \subseteq Pending
<1>1. LacksAt(inbox', inbox, k) /\ history' = Append(history, inbox[k])
  BY DeliverStep
<1>2. inbox \in Seq(Row) /\ history \in Seq(Row) /\ inbox[k] \in Row
  BY InvHas
<1>3. Pending' \subseteq Pending /\ Pending \subseteq Pending' \cup {inbox[k]}
  BY <1>1, <1>2, LacksSet DEF Pending
<1>4. Delivered' = Delivered \cup {inbox[k]}
  BY <1>1, <1>2, AppendSet DEF Delivered
<1>5. \A id : Known(id) => Known(id)'
  BY <1>3, <1>4 DEF Known
<1> QED BY <1>3, <1>5 DEF RowsKept

\* A change of delivery.
LEMMA RowsRedelivered ==
  ASSUME Inv, NEW id, NEW to \in Delivery, ChangeDelivery(id, to)
  PROVE  /\ \A i : Known(i) <=> Known(i)'
         /\ \A r \in Pending' : \E q \in Pending :
              q.id = r.id /\ IF r.id = id THEN r.delivery = to ELSE q = r
<1>1. /\ inbox' = [i \in DOMAIN inbox |->
                     IF inbox[i].id = id THEN Redelivered(inbox[i], to) ELSE inbox[i]]
      /\ history' = history
  BY DEF ChangeDelivery
<1>2. inbox \in Seq(Row) /\ DOMAIN inbox = 1..Len(inbox) /\ DOMAIN inbox' = 1..Len(inbox)
  BY <1>1, InvHas
<1>3. ASSUME NEW i \in 1..Len(inbox)
      PROVE  inbox'[i].id = inbox[i].id /\ IF inbox'[i].id = id THEN inbox'[i].delivery = to
                                           ELSE inbox'[i] = inbox[i]
  <2>1. inbox[i] \in Row
    BY <1>2
  <2>2. inbox'[i] = IF inbox[i].id = id THEN [inbox[i] EXCEPT !.delivery = to] ELSE inbox[i]
    BY <1>1, <1>2 DEF Redelivered
  <2> QED BY <2>1, <2>2 DEF Row
<1>4. /\ Pending = {inbox[i] : i \in 1..Len(inbox)}
      /\ Pending' = {inbox'[i] : i \in 1..Len(inbox)}
      /\ Delivered' = Delivered
  BY <1>1, <1>2 DEF Pending, Delivered, ToSet
<1>5. \A i : Known(i) <=> Known(i)'
  BY <1>3, <1>4 DEF Known
<1>6. \A r \in Pending' : \E q \in Pending :
        q.id = r.id /\ IF r.id = id THEN r.delivery = to ELSE q = r
  BY <1>3, <1>4
<1> QED BY <1>5, <1>6

\* What clients call, but for cancelling and re-queueing.
LEMMA CallRows ==
  ASSUME Inv, NEW c \in Clients, Calls(c)
  PROVE  RowsKept
<1>1. ASSUME NEW item \in Row, Reconcile(c, item) \/ AdmitCompaction(c, item) PROVE RowsKept
  BY <1>1, RowsUnchanged DEF Reconcile, AdmitCompaction
<1>2. ASSUME NEW item \in Row, AdmitMove(c, item) PROVE RowsKept
  BY <1>2, RowsAppended DEF AdmitMove
<1>3. CASE Admit(c) \/ EnqueueCompaction(c)
  <2> DEFINE item == request[c].item
  <2>1. item \in Row /\ UNCHANGED history
    BY <1>3, InvHas, RequestItem DEF Admit, EnqueueCompaction, RequestStates
  <2>2. \/ UNCHANGED inbox
        \/ Recorded(item.id) = {} /\ inbox' = Append(inbox, item)
    BY <1>3 DEF Admit, EnqueueCompaction
  <2> HIDE DEF item
  <2> QED BY <2>1, <2>2, RowsUnchanged, RowsAppended
<1>4. ASSUME NEW id \in Ids, Steer(c, id) PROVE RowsKept
  <2>1. ChangeDelivery(id, "steer") /\ "steer" \in Delivery
    BY <1>4 DEF Steer, Delivery
  <2>2. /\ \A i : Known(i) <=> Known(i)'
        /\ \A r \in Pending' : \E q \in Pending :
              q.id = r.id /\ IF r.id = id THEN r.delivery = "steer" ELSE q = r
    BY <2>1, RowsRedelivered
  <2> QED BY <2>2 DEF RowsKept
<1> QED BY <1>1, <1>2, <1>3, <1>4 DEF Calls

\* What a drain does to the tables is to deliver.
LEMMA DrainRows ==
  ASSUME RunnerInv, Works \/ Struck
  PROVE  RowsKept /\ Pending' \subseteq Pending
<1>0. Inv
  BY DEF RunnerInv
<1>1. CASE Control
  <2>1. PICK k \in 1..Len(inbox) : Deliver(inbox[k])
    BY <1>0, <1>1, InvHas, ScopesAllowed, NextPending DEF Control, TakeControl
  <2> QED BY <1>0, <2>1, RowsDelivered
<1>2. CASE PublishRow
  <2>1. PICK g : Reads(promotion.rows, g, inbox)
    BY <1>0, InvHas DEF Holding
  <2>2. g[1] \in 1..Len(inbox) /\ Deliver(inbox[g[1]])
    BY <1>0, <1>2, <2>1, PublishHead
  <2> QED BY <1>0, <2>2, RowsDelivered
<1>3. CASE ~(Control \/ PublishRow)
  <2>1. UNCHANGED <<inbox, history>>
    BY <1>3 DEF Works, Struck, Start, Reload, Look, Decide, Compacted, HookReturns, ControlFirst,
       BeginPromotion, Promote, GoOnPromoting, PromoteQueued, PublishMore, Promoted, Release,
       PromotionInterrupted, StepEnds, Declined, Fails, inboxVars
  <2> QED BY <2>1, RowsUnchanged
<1> QED BY <1>1, <1>2, <1>3

\* Nothing is next for a drain that has it all parked: no steer is pending, and
\* for a drain of all input nothing is.
LEMMA NothingNext ==
  ASSUME inbox \in Seq(Row), \A row \in NextPromotable("input") : Parked(row)
  PROVE  /\ \A r \in Pending : r.delivery # "steer"
         /\ drain.scope = "input" => Pending = {}
<1> DEFINE steers == PendingSteers
           queued == Rows("queue")
<1>1. /\ steers \in Seq(Row) /\ \A i \in 1..Len(steers) : steers[i].delivery = "steer"
      /\ steers = <<>> <=> \A r \in Pending : r.delivery # "steer"
  BY SteersRead
<1>2. /\ queued \in Seq(Row)
      /\ queued = <<>> <=> \A r \in Pending : r.delivery # "queue"
  BY RowsRead
<1>3. NextPromotable("input") = IF steers \o queued = <<>> THEN {} ELSE {Head(steers \o queued)}
  BY DEF NextPromotable
<1> HIDE DEF steers, queued
<1>4. steers = <<>>
  <2>1. SUFFICES ASSUME steers # <<>> PROVE FALSE
    OBVIOUS
  <2>2. 1 \in 1..Len(steers) /\ Len(steers) \in Nat /\ Len(queued) \in Nat
    BY <1>1, <1>2, <2>1, EmptySeq
  <2> DEFINE next == steers \o queued
  <2>3. /\ Len(next) = Len(steers) + Len(queued) /\ next \in Seq(Row)
        /\ \A i \in 1..(Len(steers) + Len(queued)) :
             next[i] = IF i <= Len(steers) THEN steers[i] ELSE queued[i - Len(steers)]
    BY <1>1, <1>2, ConcatProperties
  <2> HIDE DEF next
  <2>4. next # <<>> /\ Head(next) = steers[1]
    BY <2>2, <2>3
  <2>5. Parked(steers[1])
    BY <1>3, <2>4 DEF next
  <2> QED BY <1>1, <2>2, <2>5 DEF Parked
<1>5. ASSUME drain.scope = "input" PROVE Pending = {}
  <2>1. steers \o queued = queued
    BY <1>2, <1>4
  <2>2. queued = <<>>
    BY <1>3, <1>5, <2>1 DEF Parked
  <2>3. \A r \in Pending : r.delivery = "steer" \/ r.delivery = "queue"
    BY TwoDeliveries, PendingRows
  <2> QED BY <1>1, <1>2, <1>4, <2>2, <2>3
<1> QED BY <1>1, <1>4, <1>5

\* A drain that completes has looked: nothing is left that it was to promote.
LEMMA Completes ==
  ASSUME RunnerInv, Works \/ Struck, drain'.pc = "success"
  PROVE  /\ UNCHANGED <<inbox, history>>
         /\ \A r \in Pending : r.delivery # "steer"
         /\ drain.scope = "input" => Pending = {}
<1>0. Inv /\ inbox \in Seq(Row) /\ drain \in Drains
  BY InvHas DEF RunnerInv
<1>1. CASE Start
  <2>1. \A row \in NextPromotable("input") : Parked(row)
    BY <1>0, <1>1 DEF Start, GoTo, At, Drains, NoDrain
  <2> QED BY <1>0, <1>1, <2>1, NothingNext DEF Start, inboxVars
<1>2. CASE Decide
  <2>1. Quiet(NextPromotable(BoundaryScope))
    BY <1>0, <1>2 DEF Decide, At, Drains, NoDrain
  <2>2. BoundaryScope = "input"
    BY <2>1 DEF Quiet, BoundaryScope
  <2>3. \A row \in NextPromotable("input") : Parked(row)
    BY <2>1, <2>2 DEF Quiet
  <2> QED BY <1>0, <1>2, <2>3, NothingNext DEF Decide, inboxVars
<1>3. CASE HookReturns
  <2>1. inbox = <<>>
    BY <1>0, <1>3 DEF HookReturns, GoTo, At, Drains, NoDrain
  <2>2. Pending = {}
    BY <2>1 DEF Pending, ToSet
  <2> QED BY <1>3, <2>2 DEF HookReturns, inboxVars
<1>4. CASE ~(Start \/ Decide \/ HookReturns)
  <2>1. drain.pc # "out" => drain # NoDrain
    BY <1>0, DrainFields
  <2>2. drain.pc # "success" => FALSE
    BY <1>0, <1>4, <2>1 DEF Works, Struck, Reload, HandOff, Look, Control, Compacted, ControlFirst,
       BeginPromotion, GoOnPromoting, StepEnds, Declined, Fails, GoTo, At, Drains, NoDrain
  <2>3. drain.pc \in Running
    BY <1>0, <1>4 DEF Works, Struck, MovesNow, Reload, Look, Control, Compacted, ControlFirst,
       BeginPromotion, GoOnPromoting, StepEnds, Declined, Fails, At, Running
  <2> QED BY <2>2, <2>3 DEF Running
<1> QED BY <1>1, <1>2, <1>3, <1>4

\* The drain that works on is the same one.
LEMMA DrainGoesOn ==
  ASSUME RunnerInv, Works \/ Struck
  PROVE  /\ drain # NoDrain /\ drain' # NoDrain /\ drain'.scope = drain.scope
         /\ drain.pc # "success"
<1>1. drain.pc \in Running /\ drain \in Drains
  BY DEF Works, Struck, MovesNow, Start, Reload, Look, Control, Decide, Compacted, HookReturns, ControlFirst,
     BeginPromotion, GoOnPromoting, StepEnds, Declined, Fails, At, Running, RunnerInv
<1>2. drain # NoDrain
  BY <1>1 DEF Running, NoDrain
<1>3. /\ drain'.pc # "out" /\ drain'.scope = drain.scope
  BY <1>1, <1>2 DEF Works, Struck, Start, Reload, HandOff, Look, Control, Decide, Compacted,
     HookReturns, ControlFirst, BeginPromotion, GoOnPromoting, StepEnds, Declined, Fails, GoTo,
     Drains, Running
<1> QED BY <1>1, <1>2, <1>3 DEF Running, NoDrain

-----------------------------------------------------------------------------
(* Every step preserves the invariant *)

\* The doorbell's promise after a step, from what was promised before it.
LEMMA OwesAfter ==
  ASSUME Owes, RowsKept, closed' => rung' = {} /\ steered' = {},
         \A id \in rung' \cup steered' : id \in rung \cup steered \/ Known(id),
         \A r \in Pending' : r.id \in rung' => Serves("input")',
         \A r \in Pending' : r.id \in steered' => r.delivery = "steer" /\ Serves("steer")'
  PROVE  Owes'
<1>1. \A id \in rung' \cup steered' : Known(id)'
  BY DEF RowsKept, Owes, Known
<1> QED BY <1>1 DEF Owes, Known

\* ... for a step that rings no bell.
LEMMA OwesKept ==
  ASSUME Owes, RowsKept, closed' => closed \/ (rung' = {} /\ steered' = {}),
         rung' \subseteq rung, steered' \subseteq steered,
         rung' # {} /\ Pending' # {} /\ Serves("input") => Serves("input")',
         steered' # {} /\ (\E r \in Pending' : r.delivery = "steer") /\ Serves("steer")
           => Serves("steer")'
  PROVE  Owes'
<1>1. closed' => rung' = {} /\ steered' = {}
  BY DEF Owes
<1>2. ASSUME NEW r \in Pending', r.id \in rung' \cup steered'
      PROVE  \E q \in Pending : q.id = r.id /\ (q.delivery = r.delivery \/ r.delivery = "steer")
  BY <1>2 DEF Owes, RowsKept, Known
<1>3. ASSUME NEW r \in Pending', r.id \in rung' PROVE Serves("input")'
  BY <1>2, <1>3 DEF Owes
<1>4. ASSUME NEW r \in Pending', r.id \in steered'
      PROVE  r.delivery = "steer" /\ Serves("steer")'
  BY <1>2, <1>4 DEF Owes
<1> QED BY <1>1, <1>3, <1>4, OwesAfter

\* The invariant's parts after a step that the sweep does not take.
LEMMA ExecutionParts ==
  ASSUME ExecutionInv, RunnerInv', CP!Inv', DrainFollows', Owes',
         UNCHANGED sweep, asked' \in {"no", "look", "wake"},
         rung' \subseteq Ids, steered' \subseteq Ids, unfinished' \in BOOLEAN,
         \/ UNCHANGED <<claim, attempts, resumes>> /\ (ClaimHeld => ClaimHeld')
         \/ UNCHANGED <<attempts, resumes>> /\ claim' = TRUE
         \/ /\ claim' = FALSE /\ attempts' = 0 /\ resumes' = 0
            /\ execution'[Session].phase \notin {"draining", "yielded"}
  PROVE  ExecutionInv'
<1>1. CASE UNCHANGED <<claim, attempts, resumes>> /\ (ClaimHeld => ClaimHeld')
  BY <1>1 DEF ExecutionInv, Counted
<1>2. CASE UNCHANGED <<attempts, resumes>> /\ claim' = TRUE
  BY <1>2 DEF ExecutionInv, Counted, ClaimHeld
<1>3. CASE claim' = FALSE /\ attempts' = 0 /\ resumes' = 0
           /\ execution'[Session].phase \notin {"draining", "yielded"}
  <2>1. Counted'
    BY <1>3, AttemptsAssumption DEF Counted
  <2>2. ClaimHeld'
    BY <1>3 DEF ClaimHeld, Phase
  <2>3. claim' \in BOOLEAN
    BY <1>3
  <2>4. attempts' \in 0..(MaxAttempts + 1)
    BY <1>3, AttemptsAssumption
  <2> QED BY <2>1, <2>2, <2>3, <2>4 DEF ExecutionInv
<1> QED BY <1>1, <1>2, <1>3

\* A pending row's ID is an ID.
LEMMA PendingIdsTyped == ASSUME Inv PROVE PendingIds \subseteq Ids
<1>1. \A r \in Pending : r \in Row
  BY InvHas, PendingRows
<1> QED BY <1>1 DEF PendingIds, Row

\* A client's call reaches the inbox.
LEMMA CallStep ==
  ASSUME ExecutionInv, NEW c \in Clients, Call(c)
  PROVE  ExecutionInv'
<1>1. /\ Calls(c) /\ UNCHANGED <<drain, execution, caller, closed, claim, attempts, sweep, asked>>
      /\ UNCHANGED <<rung, steered, unfinished, resumes>>
  BY DEF Call, OnlyInbox, historyVars
<1>2. RunnerInv'
  BY <1>1, AdmissionStep DEF Admission, ExecutionInv
<1>3. CP!Inv'
  BY <1>1, CoordinatorStep DEF coordinatorVars, ExecutionInv
<1>4. RowsKept
  BY <1>1, CallRows DEF ExecutionInv, RunnerInv
<1>5. DrainFollows' /\ (ClaimHeld => ClaimHeld') /\ \A s : Serves(s)' = Serves(s)
  BY <1>1 DEF DrainFollows, ClaimHeld, Phase, Serves, Ahead, ExecutionInv
<1>6. Owes'
  BY <1>1, <1>4, <1>5, OwesKept DEF ExecutionInv
<1> QED BY <1>1, <1>2, <1>3, <1>5, <1>6, ExecutionParts DEF ExecutionInv

\* Ringing the doorbell serves the scope it rings for, and takes nothing back.
LEMMA RingServes ==
  ASSUME ExecutionInv, NEW s \in Promotable, Coordinator!Wake(Session, s),
         UNCHANGED <<drain, claim, sweep>>
  PROVE  /\ ~closed' /\ CP!Inv' /\ DrainFollows' /\ ClaimHeld'
         /\ Serves(s)' /\ (s = "input" => Serves("steer")')
         /\ Serves("input") => Serves("input")'
         /\ Serves("steer") => Serves("steer")'
<1>1. CP!Inv'
  BY CoordinatorStep DEF ExecutionInv
<1>2. /\ ~closed /\ ~closed'
      /\ Active => /\ execution'[Session].phase = Phase
                   /\ execution'[Session].scope = execution[Session].scope
                   /\ execution'[Session].pendingWake =
                        IF execution[Session].pendingWake = "input" THEN "input" ELSE s
      /\ ~Active => /\ execution'[Session].phase = "forked" /\ execution'[Session].scope = s
                    /\ execution'[Session].pendingWake = "none"
  BY WakeDoes DEF ExecutionInv
<1>3. /\ Phase = "idle" => execution[Session].pendingWake = "none"
      /\ execution[Session].pendingWake \in {"steer", "input", "none"}
  BY ExecutionShaped DEF ExecutionInv, Coordinator!Idle, Coordinator!None
<1>4. CASE Active
  BY <1>1, <1>2, <1>3, <1>4 DEF DrainFollows, ClaimHeld, Phase, Serves, Ahead, ExecutionInv, Promotable
<1>5. CASE ~Active
  <2>1. ~Serves("input") /\ ~Serves("steer")
    BY <1>3, <1>5 DEF Serves, Ahead, Active
  <2> QED BY <1>1, <1>2, <1>5, <2>1
          DEF Active, DrainFollows, ClaimHeld, Phase, Serves, Ahead, ExecutionInv, Promotable
<1> QED BY <1>4, <1>5

\* A client's call returns, and may ring the doorbell.
LEMMA ReturnsStep ==
  ASSUME ExecutionInv, NEW c \in Clients, Returns(c)
  PROVE  ExecutionInv'
<1>1. /\ Return(c) /\ UNCHANGED <<drain, claim, attempts, sweep, asked, steered, unfinished, resumes>>
  BY DEF Returns
<1>2. UNCHANGED <<inbox, history>>
  BY <1>1 DEF Return
<1>3. RunnerInv'
  BY <1>1, AdmissionStep DEF Admission, ExecutionInv
<1>4. RowsKept /\ Pending' = Pending
  BY <1>2, RowsUnchanged
<1>5. CASE UNCHANGED <<execution, caller, closed, rung>>
  <2>1. CP!Inv'
    BY <1>5, CoordinatorStep DEF coordinatorVars, ExecutionInv
  <2>2. DrainFollows' /\ (ClaimHeld => ClaimHeld') /\ \A s : Serves(s)' = Serves(s)
    BY <1>1, <1>5 DEF DrainFollows, ClaimHeld, Phase, Serves, Ahead, ExecutionInv
  <2>3. Owes'
    BY <1>1, <1>4, <1>5, <2>2, OwesKept DEF ExecutionInv
  <2> QED BY <1>1, <1>3, <1>5, <2>1, <2>2, <2>3, ExecutionParts DEF ExecutionInv
<1>6. CASE Coordinator!Wake(Session, "input") /\ rung' = rung \cup ({request[c].item.id} \cap PendingIds)
  <2>1. /\ ~closed' /\ CP!Inv' /\ DrainFollows' /\ ClaimHeld'
        /\ Serves("input")' /\ Serves("steer")'
    BY <1>1, <1>6, RingServes DEF ExecutionInv, Promotable
  <2>2. \A id \in PendingIds : Known(id)
    BY DEF PendingIds, Known
  <2>3. Owes'
    <3>1. \A id \in rung' \cup steered' : id \in rung \cup steered \/ Known(id)
      BY <1>1, <1>6, <2>2
    <3>2. \A r \in Pending' : r.id \in steered' => r.delivery = "steer"
      BY <1>1, <1>4 DEF ExecutionInv, Owes
    <3>3. Owes
      BY DEF ExecutionInv
    <3> QED BY <1>4, <2>1, <3>1, <3>2, <3>3, OwesAfter
  <2>4. rung' \subseteq Ids
    BY <1>6, PendingIdsTyped DEF ExecutionInv, RunnerInv
  <2> QED BY <1>1, <1>3, <2>1, <2>3, <2>4, ExecutionParts DEF ExecutionInv
<1> QED BY <1>5, <1>6 DEF Returns

\* A client cancels or re-queues a pending row.
LEMMA WithdrawsStep ==
  ASSUME ExecutionInv, NEW id \in Ids, Withdraws(id)
  PROVE  ExecutionInv'
<1>1. /\ \/ Cancel(id) /\ rung' = rung \ {id}
         \/ Queue(id) /\ rung' = rung
      /\ steered' = steered \ {id} /\ UNCHANGED <<unfinished, resumes>>
      /\ UNCHANGED <<drain, execution, caller, closed, claim, attempts, sweep, asked>>
  BY DEF Withdraws, OnlyInbox
<1>2. RunnerInv'
  BY <1>1, AdmissionStep DEF Admission, ExecutionInv
<1>3. CP!Inv'
  BY <1>1, CoordinatorStep DEF coordinatorVars, ExecutionInv
<1>4. DrainFollows' /\ (ClaimHeld => ClaimHeld') /\ \A s : Serves(s)' = Serves(s)
  BY <1>1 DEF DrainFollows, ClaimHeld, Phase, Serves, Ahead, ExecutionInv
<1>5. Inv /\ inbox \in Seq(Row)
  BY InvHas DEF ExecutionInv, RunnerInv
<1>6. /\ \A r \in Pending' : \E q \in Pending : q.id = r.id /\ (r.id # id => q = r)
      /\ \A i : Known(i) => Known(i)' \/ (i = id /\ id \notin rung')
  <2>1. CASE Cancel(id) /\ rung' = rung \ {id}
    <3>1. inbox' = Without(id) /\ history' = history
      BY <2>1 DEF Cancel
    <3>2. \/ inbox' = inbox
          \/ \E k \in 1..Len(inbox) : inbox[k].id = id /\ LacksAt(inbox', inbox, k)
      BY <1>5, <3>1, WithoutLacks
    <3>3. /\ Pending' \subseteq Pending /\ Delivered' = Delivered
          /\ \A r \in Pending : r \in Pending' \/ r.id = id
      BY <1>5, <3>1, <3>2, LacksSet DEF Pending, Delivered
    <3> QED BY <2>1, <3>3 DEF Known
  <2>2. CASE Queue(id)
    <3>1. ChangeDelivery(id, "queue") /\ "queue" \in Delivery
      BY <2>2 DEF Queue, Delivery
    <3>2. /\ \A i : Known(i) <=> Known(i)'
          /\ \A r \in Pending' : \E q \in Pending :
               q.id = r.id /\ IF r.id = id THEN r.delivery = "queue" ELSE q = r
      BY <1>5, <3>1, RowsRedelivered
    <3> QED BY <3>2
  <2> QED BY <1>1, <2>1, <2>2
<1>7. Owes'
  <2>1. \A i \in rung' \cup steered' : Known(i)'
    BY <1>1, <1>6 DEF ExecutionInv, Owes, Known
  <2>2. closed' => rung' = {} /\ steered' = {}
    BY <1>1 DEF ExecutionInv, Owes
  <2>3. \A r \in Pending' : r.id \in rung' => Serves("input")'
    BY <1>1, <1>4, <1>6 DEF ExecutionInv, Owes
  <2>4. ASSUME NEW r \in Pending', r.id \in steered' PROVE r.delivery = "steer" /\ Serves("steer")'
    BY <1>1, <1>4, <1>6, <2>4 DEF ExecutionInv, Owes
  <2> QED BY <2>1, <2>2, <2>3, <2>4 DEF Owes, Known
<1> QED BY <1>1, <1>2, <1>3, <1>4, <1>7, ExecutionParts DEF ExecutionInv

\* A step that leaves the tables and the coordinator alone.
LEMMA CoordinatorSame ==
  ASSUME ExecutionInv, UNCHANGED coordinatorVars
  PROVE  /\ CP!Inv' /\ UNCHANGED <<execution, closed>> /\ Phase' = Phase
<1>1. CP!Inv'
  BY CoordinatorStep DEF ExecutionInv
<1> QED BY <1>1 DEF coordinatorVars, Phase

\* A step outside the runner keeps what the runner's invariant says.
LEMMA RunnerSame ==
  ASSUME ExecutionInv, UNCHANGED runnerVars
  PROVE  RunnerInv' /\ RowsKept /\ Pending' = Pending /\ UNCHANGED drain
<1>1. RunnerInv'
  BY RunnerStep DEF ExecutionInv
<1>2. UNCHANGED <<inbox, history>> /\ UNCHANGED drain
  BY DEF runnerVars
<1> QED BY <1>1, <1>2, RowsUnchanged

\* An accepted interrupt gives up all that was rung for.
LEMMA InterruptStep ==
  ASSUME ExecutionInv, NEW resume \in BOOLEAN, UserInterrupts(resume)
  PROVE  ExecutionInv'
<1>1. /\ UNCHANGED runnerVars /\ UNCHANGED <<claim, attempts, sweep, resumes>>
      /\ asked' \in {"no", "look", "wake"}
  BY DEF UserInterrupts, claimVars
<1>2. RunnerInv' /\ RowsKept /\ Pending' = Pending /\ UNCHANGED drain
  BY <1>1, RunnerSame
<1>3. CASE Coordinator!Interrupt(Session) /\ rung' = {} /\ steered' = {} /\ unfinished' = FALSE
  <2>1. CP!Inv'
    BY <1>3, CoordinatorStep DEF ExecutionInv
  <2>2. /\ UNCHANGED closed /\ execution'[Session].phase = Phase
        /\ execution'[Session].scope = execution[Session].scope
    BY <1>3, InterruptDoes DEF ExecutionInv
  <2>3. DrainFollows' /\ (ClaimHeld => ClaimHeld')
    BY <1>1, <1>2, <2>2 DEF ExecutionInv, DrainFollows, ClaimHeld, Phase
  <2>4. Owes'
    BY <1>2, <1>3, OwesKept DEF ExecutionInv
  <2> QED BY <1>1, <1>2, <1>3, <2>1, <2>3, <2>4, ExecutionParts DEF ExecutionInv
<1>4. CASE UNCHANGED <<execution, caller, closed, rung, steered, unfinished>>
  <2>1. CP!Inv' /\ UNCHANGED <<execution, closed>>
    BY <1>4, CoordinatorSame DEF coordinatorVars
  <2>2. DrainFollows' /\ (ClaimHeld => ClaimHeld') /\ \A s : Serves(s)' = Serves(s)
    BY <1>1, <1>2, <2>1 DEF DrainFollows, ClaimHeld, Phase, Serves, Ahead, ExecutionInv
  <2>3. Owes'
    BY <1>2, <1>4, <2>2, OwesKept DEF ExecutionInv
  <2> QED BY <1>1, <1>2, <1>4, <2>1, <2>2, <2>3, ExecutionParts DEF ExecutionInv
<1> QED BY <1>3, <1>4 DEF UserInterrupts

\* The resume of an interrupt looks for pending rows.
LEMMA ResumeLooksStep ==
  ASSUME ExecutionInv, ResumeLooks
  PROVE  ExecutionInv'
<1>1. /\ UNCHANGED runnerVars /\ UNCHANGED coordinatorVars /\ UNCHANGED <<claim, attempts, sweep, resumes>>
      /\ UNCHANGED <<rung, steered, unfinished>> /\ asked' \in {"no", "look", "wake"}
  BY DEF ResumeLooks, claimVars, historyVars
<1>2. RunnerInv' /\ RowsKept /\ Pending' = Pending /\ UNCHANGED drain
  BY <1>1, RunnerSame
<1>3. CP!Inv' /\ UNCHANGED <<execution, closed>>
  BY <1>1, CoordinatorSame
<1>4. DrainFollows' /\ (ClaimHeld => ClaimHeld') /\ \A s : Serves(s)' = Serves(s)
  BY <1>1, <1>2, <1>3 DEF DrainFollows, ClaimHeld, Phase, Serves, Ahead, ExecutionInv
<1>5. Owes'
  BY <1>1, <1>2, <1>3, <1>4, OwesKept DEF ExecutionInv
<1> QED BY <1>1, <1>2, <1>3, <1>4, <1>5, ExecutionParts DEF ExecutionInv

\* The steers an interrupt's resume wakes for.
LEMMA SteersAwait ==
  ASSUME Inv, NEW id \in {row.id : row \in ToSet(Rows("steer"))}
  PROVE  /\ id \in Ids /\ Known(id)
         /\ \A r \in Pending : r.id = id => r.delivery = "steer"
<1>1. /\ inbox \in Seq(Row) /\ \A i, j \in 1..Len(inbox) : inbox[i].id = inbox[j].id => i = j
  BY InvHas DEF Tables
<1> DEFINE t == Rows("steer")
<1>2. /\ t \in Seq(Row)
      /\ \A i \in 1..Len(t) : t[i] \in Pending /\ t[i].delivery = "steer"
  BY <1>1, RowsRead
<1> HIDE DEF t
<1>3. DOMAIN t = 1..Len(t)
  BY <1>2
<1>4. PICK i \in 1..Len(t) : id = t[i].id
  BY <1>3 DEF ToSet, t
<1>5. t[i] \in Pending /\ t[i].delivery = "steer"
  BY <1>2
<1>6. PICK k \in 1..Len(inbox) : t[i] = inbox[k]
  BY <1>1, <1>5, PendingRows
<1>7. ASSUME NEW r \in Pending, r.id = id PROVE r.delivery = "steer"
  <2>1. PICK j \in 1..Len(inbox) : r = inbox[j]
    BY <1>1, PendingRows
  <2>2. j = k
    BY <1>1, <1>4, <1>6, <1>7, <2>1
  <2> QED BY <1>5, <1>6, <2>1, <2>2
<1>8. id \in Ids
  BY <1>1, <1>4, <1>6, PendingRows DEF Row
<1> QED BY <1>4, <1>5, <1>7, <1>8 DEF Known

\* The resume of an interrupt rings for what it saw.
LEMMA ResumeWakesStep ==
  ASSUME ExecutionInv, ResumeWakes
  PROVE  ExecutionInv'
<1> DEFINE woken == {row.id : row \in ToSet(Rows("steer"))}
<1>1. /\ UNCHANGED runnerVars /\ Coordinator!Wake(Session, "steer")
      /\ UNCHANGED <<claim, attempts, sweep, resumes, rung, unfinished>>
      /\ asked' = "no" /\ steered' = steered \cup woken
  BY DEF ResumeWakes, claimVars
<1>2. RunnerInv' /\ RowsKept /\ Pending' = Pending /\ UNCHANGED drain
  BY <1>1, RunnerSame
<1>3. \A id \in woken : /\ id \in Ids /\ Known(id)
                        /\ \A r \in Pending : r.id = id => r.delivery = "steer"
  BY SteersAwait DEF ExecutionInv, RunnerInv
<1> HIDE DEF woken
<1>4. /\ ~closed' /\ CP!Inv' /\ DrainFollows' /\ ClaimHeld'
      /\ Serves("steer")' /\ (Serves("input") => Serves("input")')
  BY <1>1, <1>2, RingServes DEF Promotable
<1>5. Owes'
  <2>1. \A id \in rung' \cup steered' : id \in rung \cup steered \/ Known(id)
    BY <1>1, <1>3
  <2>2. \A r \in Pending' : r.id \in rung' => Serves("input")'
    BY <1>1, <1>2, <1>4 DEF ExecutionInv, Owes
  <2>3. \A r \in Pending' : r.id \in steered' => r.delivery = "steer" /\ Serves("steer")'
    BY <1>1, <1>2, <1>3, <1>4 DEF ExecutionInv, Owes
  <2>4. Owes
    BY DEF ExecutionInv
  <2> QED BY <1>2, <1>4, <2>1, <2>2, <2>3, <2>4, OwesAfter
<1>6. steered' \subseteq Ids
  BY <1>1, <1>3 DEF ExecutionInv
<1> QED BY <1>1, <1>2, <1>4, <1>5, <1>6, ExecutionParts DEF ExecutionInv

\* A busy period breaks, unless what was rung for is served as before.
LEMMA BreakOwes ==
  ASSUME ExecutionInv, NEW served \in BOOLEAN, BreaksUnless(served),
         UNCHANGED <<inbox, history, closed>>,
         served => \A s \in Promotable : Serves(s) => Serves(s)',
         ~served => SameWork \/ closed
  PROVE  Owes' /\ rung' \subseteq rung /\ steered' \subseteq steered
<1>1. RowsKept
  BY RowsUnchanged
<1>2. rung' \subseteq rung /\ steered' \subseteq steered
  BY DEF BreaksUnless
<1>3. Owes
  BY DEF ExecutionInv
<1>4. execution[Session].pendingWake \in {"steer", "input", "none"}
  BY ExecutionShaped DEF ExecutionInv
<1>5. rung' # {} /\ Serves("input") => Serves("input")'
  <2>1. CASE served
    BY <2>1 DEF Promotable
  <2>2. CASE ~served /\ closed
    BY <1>2, <1>3, <2>2 DEF Owes
  <2>3. CASE ~served /\ SameWork
    <3>1. rung' # {} => execution[Session].pendingWake = "input"
      BY <2>3 DEF BreaksUnless
    <3> QED BY <2>3, <3>1 DEF SameWork, Serves
  <2> QED BY <2>1, <2>2, <2>3
<1>6. steered' # {} /\ Serves("steer") => Serves("steer")'
  <2>1. CASE served
    BY <2>1 DEF Promotable
  <2>2. CASE ~served /\ closed
    BY <1>2, <1>3, <2>2 DEF Owes
  <2>3. CASE ~served /\ SameWork
    <3>1. steered' # {} => execution[Session].pendingWake \in {"steer", "input"}
      BY <1>4, <2>3 DEF BreaksUnless
    <3> QED BY <2>3, <3>1 DEF SameWork, Serves
  <2> QED BY <2>1, <2>2, <2>3
<1>7. Owes'
  BY <1>1, <1>2, <1>3, <1>5, <1>6, OwesKept
<1> QED BY <1>2, <1>7

\* The fiber enters its drain, or exits instead.
LEMMA FollowStep ==
  ASSUME ExecutionInv, Phase \in {"starting", "yielded"}, SameWork, FollowDrain, OnlyFiber,
         execution'[Session].phase \in {"draining", "settling"}
  PROVE  /\ RunnerInv' /\ DrainFollows' /\ UNCHANGED <<inbox, history>>
         /\ execution'[Session].phase = "draining" => \A s \in Promotable : Serves(s) => Serves(s)'
<1>0. drain = NoDrain /\ RunnerInv
  BY DEF ExecutionInv, DrainFollows
<1>1. CASE execution'[Session].phase = "draining"
  <2> DEFINE force == execution[Session].force
             scope == execution[Session].scope
  <2>1. Enter(force, scope)
    BY <1>1 DEF FollowDrain
  <2>2. force \in BOOLEAN /\ scope \in Promotable
    BY ExecutionShaped DEF ExecutionInv, Coordinator!Execution
  <2>3. RunnerInv'
    BY <1>0, <2>1, <2>2, EnterStep
  <2>4. drain'.pc = "enter" /\ drain'.scope = scope
    BY <2>1 DEF Enter
  <2>5. drain' # NoDrain
    BY <2>4 DEF NoDrain
  <2> QED BY <1>1, <2>3, <2>4, <2>5 DEF DrainFollows, SameWork, Phase, Serves, Ahead, OnlyFiber
<1>2. CASE execution'[Session].phase = "settling"
  <2>1. UNCHANGED runnerVars
    BY <1>2 DEF FollowDrain, OnlyFiber, runnerVars
  <2>2. RunnerInv'
    BY <2>1, RunnerSame
  <2> QED BY <1>0, <1>2, <2>1, <2>2 DEF DrainFollows, Phase, runnerVars
<1> QED BY <1>1, <1>2

\* The fiber of an execution starts: its hook claims, or dies.
LEMMA StartsStep ==
  ASSUME ExecutionInv, Starts
  PROVE  ExecutionInv'
<1>1. /\ OnlyFiber /\ UNCHANGED <<attempts, unfinished, resumes, sweep, asked>>
  BY DEF Starts, OnlyFiber, claimVars
<1>2. CASE /\ Coordinator!Begin(Session) /\ UNCHANGED <<drain, claim>>
           /\ BreaksUnless(execution'[Session].phase = "starting")
  <2>1. /\ CP!Inv' /\ UNCHANGED closed /\ SameWork /\ Phase = "forked"
        /\ execution'[Session].phase \in {"starting", "settling"}
    BY <1>2, CoordinatorStep, FiberDoes DEF ExecutionInv
  <2>2. UNCHANGED runnerVars /\ UNCHANGED <<inbox, history>>
    BY <1>1, <1>2 DEF OnlyFiber, runnerVars
  <2>3. RunnerInv'
    BY <2>2, RunnerSame
  <2>4. DrainFollows' /\ (ClaimHeld => ClaimHeld')
    BY <1>2, <2>1 DEF ExecutionInv, DrainFollows, ClaimHeld, Phase
  <2>5. execution'[Session].phase = "starting" => \A s \in Promotable : Serves(s) => Serves(s)'
    BY <2>1 DEF SameWork, Serves, Ahead, Phase
  <2>6. Owes' /\ rung' \subseteq rung /\ steered' \subseteq steered
    BY <1>2, <2>1, <2>2, <2>5, BreakOwes
  <2> QED BY <1>1, <1>2, <2>1, <2>3, <2>4, <2>6, ExecutionParts DEF ExecutionInv
<1>3. CASE /\ Coordinator!StartedReturns(Session) /\ claim' = TRUE /\ FollowDrain
           /\ BreaksUnless(execution'[Session].phase = "draining")
  <2>1. /\ CP!Inv' /\ UNCHANGED closed /\ SameWork /\ Phase \in {"starting", "yielded"}
        /\ execution'[Session].phase \in {"draining", "settling"}
    BY <1>3, CoordinatorStep, FiberDoes DEF ExecutionInv
  <2>2. /\ RunnerInv' /\ DrainFollows' /\ UNCHANGED <<inbox, history>>
        /\ execution'[Session].phase = "draining" => \A s \in Promotable : Serves(s) => Serves(s)'
    BY <1>1, <1>3, <2>1, FollowStep
  <2>3. Owes' /\ rung' \subseteq rung /\ steered' \subseteq steered
    BY <1>3, <2>1, <2>2, BreakOwes
  <2> QED BY <1>1, <1>3, <2>1, <2>2, <2>3, ExecutionParts DEF ExecutionInv
<1>4. CASE /\ Coordinator!StartedDies(Session) /\ UNCHANGED <<drain, claim>> /\ BreaksUnless(FALSE)
  <2>1. /\ CP!Inv' /\ UNCHANGED closed /\ SameWork /\ Phase = "starting"
        /\ execution'[Session].phase = "settling"
    BY <1>4, CoordinatorStep, FiberDoes DEF ExecutionInv
  <2>2. UNCHANGED runnerVars /\ UNCHANGED <<inbox, history>>
    BY <1>1, <1>4 DEF OnlyFiber, runnerVars
  <2>3. RunnerInv'
    BY <2>2, RunnerSame
  <2>4. DrainFollows' /\ (ClaimHeld => ClaimHeld')
    BY <1>4, <2>1 DEF ExecutionInv, DrainFollows, ClaimHeld, Phase
  <2>5. Owes' /\ rung' \subseteq rung /\ steered' \subseteq steered
    BY <1>4, <2>1, <2>2, BreakOwes
  <2> QED BY <1>1, <1>4, <2>1, <2>3, <2>4, <2>5, ExecutionParts DEF ExecutionInv
<1>5. CASE /\ Coordinator!Again(Session) /\ UNCHANGED claim /\ FollowDrain
           /\ BreaksUnless(execution'[Session].phase = "draining")
           /\ Phase = "yielded"
  <2>1. /\ CP!Inv' /\ UNCHANGED closed /\ SameWork /\ Phase \in {"starting", "yielded"}
        /\ execution'[Session].phase \in {"draining", "settling"}
    BY <1>5, CoordinatorStep, FiberDoes DEF ExecutionInv
  <2>2. /\ RunnerInv' /\ DrainFollows' /\ UNCHANGED <<inbox, history>>
        /\ execution'[Session].phase = "draining" => \A s \in Promotable : Serves(s) => Serves(s)'
    BY <1>1, <1>5, <2>1, FollowStep
  <2>3. Owes' /\ rung' \subseteq rung /\ steered' \subseteq steered
    BY <1>5, <2>1, <2>2, BreakOwes
  <2>4. ClaimHeld => ClaimHeld'
    BY <1>1, <1>5 DEF ClaimHeld, Phase
  <2> QED BY <1>1, <1>5, <2>1, <2>2, <2>3, <2>4, ExecutionParts DEF ExecutionInv
<1>6. Coordinator!Again(Session) => Phase = "yielded"
  BY DEF Coordinator!Again, Coordinator!Phase, Phase
<1> QED BY <1>2, <1>3, <1>4, <1>5, <1>6 DEF Starts, claimVars, Claimed

\* A drain looks its last only when nothing is left that it was to promote.
LEMMA DrainWorksStep ==
  ASSUME ExecutionInv, DrainWorks
  PROVE  ExecutionInv'
<1>1. /\ Works \/ Struck
      /\ UNCHANGED coordinatorVars /\ UNCHANGED <<claim, attempts, sweep, asked, rung, steered, resumes>>
      /\ unfinished' \in BOOLEAN
  BY DEF DrainWorks, claimVars, ExecutionInv
<1>2. RunnerInv
  BY DEF ExecutionInv
<1>3. RunnerInv' /\ RowsKept /\ Pending' \subseteq Pending
  BY <1>1, <1>2, WorksStep, StruckStep, DrainRows
<1>4. /\ drain # NoDrain /\ drain' # NoDrain /\ drain'.scope = drain.scope
      /\ drain.pc # "success"
  BY <1>1, <1>2, DrainGoesOn
<1>5. CP!Inv' /\ UNCHANGED <<execution, closed>> /\ Phase' = Phase
  BY <1>1, CoordinatorSame
<1>6. Phase = "draining" /\ drain.scope = execution[Session].scope
  BY <1>4 DEF ExecutionInv, DrainFollows
<1>7. DrainFollows' /\ (ClaimHeld => ClaimHeld')
  BY <1>1, <1>4, <1>5, <1>6 DEF DrainFollows, ClaimHeld
<1>8. drain'.pc = "success" =>
        /\ Pending' = Pending
        /\ \A r \in Pending : r.delivery # "steer"
        /\ drain.scope = "input" => Pending = {}
  <2>1. SUFFICES ASSUME drain'.pc = "success"
                 PROVE  /\ Pending' = Pending
                        /\ \A r \in Pending : r.delivery # "steer"
                        /\ drain.scope = "input" => Pending = {}
    OBVIOUS
  <2>2. /\ UNCHANGED <<inbox, history>>
        /\ \A r \in Pending : r.delivery # "steer"
        /\ drain.scope = "input" => Pending = {}
    BY <1>1, <1>2, <2>1, Completes
  <2> QED BY <2>2, RowsUnchanged
<1>9. drain'.pc # "success" => \A s : Serves(s) => Serves(s)'
  BY <1>4, <1>5, <1>6 DEF Serves, Ahead
<1>10. Pending' # {} /\ Serves("input") => Serves("input")'
  <2>1. drain.scope # "input" => ~Ahead("input")
    BY <1>6 DEF Ahead
  <2> QED BY <1>5, <1>8, <1>9, <2>1 DEF Serves
<1>11. (\E r \in Pending' : r.delivery = "steer") /\ Serves("steer") => Serves("steer")'
  BY <1>8, <1>9
<1>12. Owes'
  BY <1>1, <1>3, <1>5, <1>10, <1>11, OwesKept DEF ExecutionInv
<1> QED BY <1>1, <1>3, <1>5, <1>7, <1>12, ExecutionParts DEF ExecutionInv

\* A drain ends and the coordinator takes its exit.
LEMMA DrainEndsStep ==
  ASSUME ExecutionInv, DrainEnds
  PROVE  ExecutionInv'
<1> DEFINE served == drain.pc = "success" /\ ~execution[Session].interrupted
           exit == IF drain.pc = "failed" THEN "failed" ELSE "interrupted"
<1>1. /\ Leave /\ BreaksUnless(served)
      /\ \/ drain.pc = "success" /\ Coordinator!DrainReturns(Session)
         \/ ~served /\ Coordinator!DrainFails(Session, exit)
      /\ UNCHANGED <<claim, attempts, sweep, asked, unfinished, resumes>>
  BY DEF DrainEnds, claimVars, Results
<1>2. /\ RunnerInv' /\ UNCHANGED <<inbox, history>> /\ drain' = NoDrain
  BY <1>1, LeaveStep DEF ExecutionInv, Leave, inboxVars
<1>3. exit \in {"failed", "interrupted"}
  OBVIOUS
<1>4. CP!Inv'
  BY <1>1, <1>3, CoordinatorStep DEF ExecutionInv
<1>5. /\ UNCHANGED closed /\ Phase = "draining"
      /\ execution'[Session].phase \in {"yielded", "settling"}
      /\ ~served => SameWork \/ closed
      /\ served => \A s \in Promotable : Serves(s) => Serves(s)'
  <2>1. CASE ~served /\ Coordinator!DrainFails(Session, exit)
    BY <2>1, FiberDoes DEF ExecutionInv
  <2>2. CASE drain.pc = "success" /\ Coordinator!DrainReturns(Session)
    <3>1. /\ UNCHANGED closed /\ Phase = "draining"
          /\ ~execution[Session].stopping /\ execution[Session].pendingWake # "none" =>
               /\ execution'[Session].phase = "yielded"
               /\ execution'[Session].scope = execution[Session].pendingWake
          /\ ~(~execution[Session].stopping /\ execution[Session].pendingWake # "none") =>
               execution'[Session].phase = "settling" /\ SameWork
      BY <2>2, DrainReturnsDoes DEF ExecutionInv
    <3>2. /\ execution[Session].interrupted <=> execution[Session].stopping \/ closed
          /\ execution[Session].pendingWake \in {"steer", "input", "none"}
      BY <3>1, ExecutionShaped DEF ExecutionInv
    <3>3. ~served => SameWork \/ closed
      BY <2>2, <3>1, <3>2
    <3>4. ASSUME served, NEW s \in Promotable, Serves(s) PROVE Serves(s)'
      <4>1. execution[Session].pendingWake \in {s, "input"}
        BY <3>1, <3>4 DEF Serves, Ahead
      <4>2. execution[Session].pendingWake # "none" /\ ~execution[Session].stopping
        BY <3>2, <3>4, <4>1 DEF Promotable
      <4> QED BY <3>1, <4>1, <4>2 DEF Serves, Ahead, Phase
    <3> QED BY <3>1, <3>3, <3>4
  <2> QED BY <1>1, <2>1, <2>2
<1>6. DrainFollows' /\ (ClaimHeld => ClaimHeld')
  BY <1>1, <1>2, <1>5 DEF DrainFollows, ClaimHeld, Phase
<1>7. served \in BOOLEAN
  OBVIOUS
<1> HIDE DEF served, exit
<1>8. Owes' /\ rung' \subseteq rung /\ steered' \subseteq steered
  BY <1>1, <1>2, <1>5, <1>7, BreakOwes
<1> QED BY <1>1, <1>2, <1>4, <1>6, <1>8, ExecutionParts DEF ExecutionInv

\* The execution settles: its claim is released, or kept for the next start.
LEMMA SettlesStep ==
  ASSUME ExecutionInv, Settles
  PROVE  ExecutionInv'
<1>1. /\ UNCHANGED runnerVars /\ UNCHANGED <<inbox, history, sweep, asked, rung, steered>>
  BY DEF Settles, OnlyFiber, runnerVars, historyVars
<1>2. /\ \/ Coordinator!SettledReturns(Session) \/ Coordinator!SettledDies(Session)
         \/ Coordinator!Settle(Session)
      /\ unfinished' \in BOOLEAN
      /\ \/ UNCHANGED <<claim, attempts, resumes>>
         \/ /\ Coordinator!SettledReturns(Session)
            /\ claim' = FALSE /\ attempts' = 0 /\ resumes' = 0
  BY DEF Settles, claimVars, historyVars, ExecutionInv
<1>3. RunnerInv' /\ RowsKept /\ Pending' = Pending /\ UNCHANGED drain
  BY <1>1, RunnerSame
<1>4. CP!Inv'
  BY <1>2, CoordinatorStep DEF ExecutionInv
<1>5. /\ UNCHANGED closed /\ Phase \in {"settling", "settled"}
      /\ execution'[Session].phase \in {"settled", "forked", "idle"}
      /\ \A s \in Promotable : Serves(s) => Serves(s)'
  <2>1. CASE Coordinator!SettledReturns(Session) \/ Coordinator!SettledDies(Session)
    <3>1. /\ UNCHANGED closed /\ SameWork /\ Phase = "settling"
          /\ execution'[Session].phase = "settled"
      BY <2>1, FiberDoes DEF ExecutionInv
    <3> QED BY <3>1 DEF SameWork, Serves, Ahead
  <2>2. CASE Coordinator!Settle(Session)
    <3>1. /\ UNCHANGED closed /\ Phase = "settled"
          /\ execution[Session].pendingWake # "none" =>
               /\ execution'[Session].phase = "forked"
               /\ execution'[Session].scope = execution[Session].pendingWake
          /\ execution[Session].pendingWake = "none" => execution'[Session].phase = "idle"
      BY <2>2, SettleDoes DEF ExecutionInv
    <3>2. ASSUME NEW s \in Promotable, Serves(s) PROVE Serves(s)'
      <4>1. execution[Session].pendingWake \in {s, "input"}
        BY <3>1, <3>2 DEF Serves, Ahead
      <4>2. execution[Session].pendingWake # "none"
        BY <4>1 DEF Promotable
      <4> QED BY <3>1, <4>1, <4>2 DEF Serves, Ahead, Phase
    <3>3. execution'[Session].phase \in {"forked", "idle"}
      BY <3>1
    <3> QED BY <3>1, <3>2, <3>3
  <2> QED BY <1>2, <2>1, <2>2
<1>6. DrainFollows' /\ (ClaimHeld => ClaimHeld')
  BY <1>3, <1>5 DEF ExecutionInv, DrainFollows, ClaimHeld, Phase
<1>7. Owes'
  BY <1>1, <1>3, <1>5, OwesKept DEF ExecutionInv, Promotable
<1>8. execution'[Session].phase \notin {"draining", "yielded"}
  BY <1>5
<1> QED BY <1>1, <1>2, <1>3, <1>4, <1>6, <1>7, <1>8, ExecutionParts DEF ExecutionInv

\* A run joins the execution or starts one: it takes nothing back.
LEMMA JoinServes ==
  ASSUME ExecutionInv, \/ Coordinator!Run(Sweeper, Session)
                       \/ Coordinator!RunAgain(Sweeper), UNCHANGED runnerVars,
         UNCHANGED <<rung, steered>>
  PROVE  RunnerInv' /\ CP!Inv' /\ DrainFollows' /\ Owes'
         /\ (execution'[Session].phase = Phase \/ execution'[Session].phase = "forked")
<1>1. RunnerInv' /\ RowsKept /\ Pending' = Pending /\ UNCHANGED drain
  BY RunnerSame
<1>2. CP!Inv'
  BY CoordinatorStep DEF ExecutionInv
<1>3. \/ Coordinator!Run(Sweeper, Session)
      \/ Coordinator!RunAgain(Sweeper) /\ caller[Sweeper].key = Session
  BY CallerKey DEF ExecutionInv
<1>4. /\ UNCHANGED closed
      /\ Active => execution' = execution
      /\ ~Active => /\ execution'[Session].phase = "forked" /\ execution'[Session].scope = "input"
                    /\ execution'[Session].pendingWake = "none"
  BY <1>3, JoinDoes DEF ExecutionInv
<1>5. CASE Active
  <2>1. DrainFollows' /\ \A s : Serves(s)' = Serves(s)
    BY <1>1, <1>4, <1>5 DEF DrainFollows, Phase, Serves, Ahead, ExecutionInv
  <2>2. Owes'
    BY <1>1, <1>4, <2>1, OwesKept DEF ExecutionInv
  <2> QED BY <1>1, <1>2, <1>4, <1>5, <2>1, <2>2 DEF Phase
<1>6. CASE ~Active
  <2>1. DrainFollows' /\ \A s : Serves(s)'
    BY <1>1, <1>4, <1>6 DEF DrainFollows, Active, Phase, Serves, Ahead, ExecutionInv
  <2>2. Owes'
    BY <1>1, <1>4, <2>1, OwesKept DEF ExecutionInv
  <2> QED BY <1>1, <1>2, <1>4, <1>6, <2>1, <2>2
<1> QED BY <1>5, <1>6

\* The sweep's run, which a cleanup refused, looks again.
LEMMA ResumesAgainStep ==
  ASSUME ExecutionInv, ResumesAgain
  PROVE  ExecutionInv'
<1>1. /\ Coordinator!RunAgain(Sweeper) /\ UNCHANGED runnerVars
      /\ UNCHANGED <<claim, attempts, resumes, sweep, asked, rung, steered, unfinished>>
  BY DEF ResumesAgain, claimVars, historyVars
<1>2. RunnerInv' /\ CP!Inv' /\ DrainFollows' /\ Owes'
      /\ (execution'[Session].phase = Phase \/ execution'[Session].phase = "forked")
  BY <1>1, JoinServes
<1>3. ClaimHeld => ClaimHeld'
  BY <1>1, <1>2 DEF ClaimHeld, Phase
<1> QED BY <1>1, <1>2, <1>3, ExecutionParts DEF ExecutionInv

-----------------------------------------------------------------------------
(* Restart and the sweep *)

\* A shutdown closes the coordinator.
LEMMA ShutdownStep ==
  ASSUME ExecutionInv, Shutdown
  PROVE  ExecutionInv'
<1>1. /\ Coordinator!Close /\ rung' = {} /\ steered' = {} /\ asked' = "no"
      /\ UNCHANGED runnerVars /\ UNCHANGED <<claim, attempts, sweep, unfinished, resumes>>
  BY DEF Shutdown, claimVars
<1>2. RunnerInv' /\ RowsKept /\ Pending' = Pending /\ UNCHANGED drain
  BY <1>1, RunnerSame
<1>3. CP!Inv' /\ closed' /\ execution'[Session].phase = Phase /\ SameWork
  BY <1>1, CoordinatorStep, CloseDoes DEF ExecutionInv
<1>4. DrainFollows' /\ (ClaimHeld => ClaimHeld')
  BY <1>1, <1>2, <1>3 DEF ExecutionInv, DrainFollows, ClaimHeld, Phase, SameWork
<1>5. Owes'
  BY <1>1, <1>2, OwesKept DEF ExecutionInv
<1> QED BY <1>1, <1>2, <1>3, <1>4, <1>5, ExecutionParts DEF ExecutionInv

\* A fresh process has a blank coordinator ...
LEMMA FreshCoordinator ==
  ASSUME execution' = [k \in {Session} |-> Coordinator!Idle],
         caller' = [c \in {Sweeper} |-> Coordinator!Free], closed' = FALSE
  PROVE  CP!Inv'
<1>1. Coordinator!Idle = CP!Idle /\ Coordinator!Free = CP!Free
  BY DEF Coordinator!Idle, CP!Idle, Coordinator!Free, CP!Free, Coordinator!None, CP!None
<1>2. CP!Idle \in CP!Execution
  BY CP!IdleType
<1>3. CP!TypeOK'
  BY <1>1, <1>2 DEF CP!TypeOK, CP!Call
<1>4. CP!WaitersOwned'
  BY <1>1 DEF CP!WaitersOwned, CP!Waiting, CP!Free
<1>5. \A k \in {Session} : CP!ExecutionShape(execution[k])'
  BY <1>1 DEF CP!ExecutionShape, CP!Idle
<1> QED BY <1>3, <1>4, <1>5 DEF CP!Inv

\* ... and no calls, locks or promotions, while the tables are as they were.
LEMMA FreshRunner ==
  ASSUME RunnerInv, UNCHANGED <<inbox, history>>, drain' = NoDrain, locked' = FALSE,
         promotion' = NoPromotion, request' = [c \in Clients |-> Free]
  PROVE  RunnerInv'
<1>1. /\ inbox' \in Seq(Row) /\ history' \in Seq(Row) /\ Tables(inbox', history')
  BY InvHas DEF RunnerInv
<1>2. /\ request' \in [Clients -> Request] /\ \A c \in Clients : request'[c].state = "free"
  BY DEF Request, Free
<1>3. /\ promotion' \in [stage : {"none", "queued", "publish"}, scope : Promotable \cup {None},
                         rows : Seq(Row), more : BOOLEAN]
  BY DEF NoPromotion
<1>4. InboxTypeOK'
  BY <1>1, <1>2, <1>3 DEF InboxTypeOK
<1>5. LockOwned'
  BY <1>2 DEF LockOwned
<1>6. Holding(NoPromotion, inbox')
  BY HoldingNothing
<1>7. ReadsHold'
  BY <1>6 DEF ReadsHold, Holding
<1>8. PromotionAllowed' /\ drain' \in Drains
  BY DEF PromotionAllowed, NoPromotion, NoDrain, None, Drains
<1>9. Inv'
  BY <1>1, <1>4, <1>5, <1>7 DEF Inv
<1> QED BY <1>8, <1>9 DEF RunnerInv

\* A process ends and the next one starts with the claims as they are stored.
LEMMA RestartStep ==
  ASSUME ExecutionInv, Restart
  PROVE  ExecutionInv'
<1>1. /\ execution' = [k \in {Session} |-> Coordinator!Idle]
      /\ sweep' = "boot" /\ asked' = "no" /\ rung' = {} /\ steered' = {}
      /\ closed' = FALSE /\ drain' = NoDrain
  BY DEF Restart
<1>2. CP!Inv'
  BY FreshCoordinator DEF Restart
<1>3. RunnerInv'
  BY FreshRunner DEF Restart, ExecutionInv
<1>4. execution'[Session].phase = "idle"
  BY <1>1 DEF Coordinator!Idle
<1>5. DrainFollows' /\ ClaimHeld' /\ Owes'
  BY <1>1, <1>4 DEF DrainFollows, ClaimHeld, Owes, Phase
<1>6. unfinished' \in BOOLEAN
  <2>1. unfinished' = (unfinished \/ InFlight)
    BY DEF Restart
  <2> QED BY <2>1 DEF ExecutionInv
<1>7. \/ UNCHANGED <<claim, attempts, resumes>>
      \/ claim' = TRUE /\ UNCHANGED <<attempts, resumes>>
      \/ claim' = FALSE /\ attempts' = 0 /\ resumes' = 0
  BY DEF Restart, Claimed
<1>8. claim' \in BOOLEAN
  BY <1>7 DEF ExecutionInv
<1>9. attempts' \in 0..(MaxAttempts + 1) /\ Counted'
  BY <1>1, <1>7, AttemptsAssumption DEF ExecutionInv, Counted
<1> QED BY <1>1, <1>2, <1>3, <1>5, <1>6, <1>8, <1>9 DEF ExecutionInv, SweepStates

\* The sweep touches only the claim and its counts, until it resumes.
LEMMA SweepParts ==
  ASSUME ExecutionInv, UNCHANGED <<runnerVars, coordinatorVars, asked, rung, steered>>,
         unfinished' \in BOOLEAN, claim' \in BOOLEAN, attempts' \in 0..(MaxAttempts + 1),
         sweep' \in SweepStates, Counted', ClaimHeld'
  PROVE  ExecutionInv'
<1>1. RunnerInv' /\ RowsKept /\ Pending' = Pending /\ UNCHANGED drain
  BY RunnerSame
<1>2. CP!Inv' /\ UNCHANGED <<execution, closed>>
  BY CoordinatorSame
<1>3. DrainFollows' /\ \A s : Serves(s)' = Serves(s)
  BY <1>1, <1>2 DEF DrainFollows, Phase, Serves, Ahead, ExecutionInv
<1>4. Owes'
  BY <1>1, <1>2, <1>3, OwesKept DEF ExecutionInv
<1> QED BY <1>1, <1>2, <1>3, <1>4 DEF ExecutionInv

\* The sweep resumes, or gives up, what was claimed.
LEMMA SweepingStep ==
  ASSUME ExecutionInv, Sweeping
  PROVE  ExecutionInv'
<1>0. /\ claim \in BOOLEAN /\ attempts \in 0..(MaxAttempts + 1) /\ unfinished \in BOOLEAN
      /\ Counted /\ ClaimHeld /\ MaxAttempts \in Nat
  BY AttemptsAssumption DEF ExecutionInv
<1>1. CASE SweepLooks \/ SweepLists \/ SweepNotices
  <2>1. /\ UNCHANGED <<runnerVars, coordinatorVars, asked, rung, steered>>
        /\ UNCHANGED <<unfinished, claim, attempts, resumes>>
        /\ \/ sweep' \in {"looked", "listed", "done"}
           \/ sweep = "counted" /\ sweep' = "noticed"
        /\ sweep # "terminalized"
    BY <1>1 DEF SweepLooks, SweepLists, SweepNotices, SweepTo, claimVars
  <2>2. sweep' \in SweepStates
    BY <2>1 DEF SweepStates
  <2>3. Counted'
    BY <1>0, <2>1 DEF Counted
  <2>4. ClaimHeld'
    BY <1>0, <2>1 DEF ClaimHeld, Phase, coordinatorVars
  <2> QED BY <1>0, <2>1, <2>2, <2>3, <2>4, SweepParts
<1>2. CASE SweepCounts
  <2>1. /\ UNCHANGED <<runnerVars, coordinatorVars, asked, rung, steered>>
        /\ UNCHANGED <<unfinished, claim, resumes>> /\ sweep = "listed"
        /\ attempts' = IF attempts > MaxAttempts THEN attempts ELSE attempts + 1
        /\ sweep' = IF attempts + 1 > MaxAttempts THEN "exhausted" ELSE "counted"
    BY <1>2 DEF SweepCounts, SweepTo, Exhausted
  <2>2. sweep' \in SweepStates
    BY <2>1 DEF SweepStates
  <2>3. attempts' \in 0..(MaxAttempts + 1) /\ Counted'
    BY <1>0, <2>1 DEF Counted
  <2>4. ClaimHeld'
    BY <1>0, <2>1 DEF ClaimHeld, Phase, coordinatorVars
  <2> QED BY <1>0, <2>1, <2>2, <2>3, <2>4, SweepParts
<1>3. CASE SweepTerminalizes
  <2>1. /\ UNCHANGED <<runnerVars, coordinatorVars, asked, rung, steered>>
        /\ claim' = FALSE /\ attempts' = 0 /\ resumes' = 0
        /\ sweep' = "terminalized" /\ unfinished' = FALSE
    BY <1>3 DEF SweepTerminalizes
  <2>2. sweep' \in SweepStates
    BY <2>1 DEF SweepStates
  <2>3. attempts' \in 0..(MaxAttempts + 1) /\ Counted'
    BY <1>0, <2>1 DEF Counted
  <2>4. ClaimHeld'
    BY <2>1 DEF ClaimHeld
  <2>5. claim' \in BOOLEAN /\ unfinished' \in BOOLEAN
    BY <2>1
  <2> QED BY <2>1, <2>2, <2>3, <2>4, <2>5, SweepParts
<1>4. CASE SweepResumes
  <2>1. /\ Coordinator!Run(Sweeper, Session) /\ UNCHANGED runnerVars
        /\ UNCHANGED <<claim, attempts, asked, rung, steered, unfinished>>
        /\ resumes' = resumes + 1 /\ sweep = "noticed" /\ sweep' = "done"
    BY <1>4 DEF SweepResumes, SweepTo, claimVars
  <2>2. RunnerInv' /\ CP!Inv' /\ DrainFollows' /\ Owes'
        /\ (execution'[Session].phase = Phase \/ execution'[Session].phase = "forked")
    BY <2>1, JoinServes
  <2>3. ClaimHeld'
    BY <1>0, <2>1, <2>2 DEF ClaimHeld, Phase
  <2>4. Counted'
    BY <1>0, <2>1 DEF Counted
  <2>5. sweep' \in SweepStates
    BY <2>1 DEF SweepStates
  <2> QED BY <2>1, <2>2, <2>3, <2>4, <2>5 DEF ExecutionInv
<1> QED BY <1>1, <1>2, <1>3, <1>4 DEF Sweeping

-----------------------------------------------------------------------------
(* Theorems *)

\* The invariant holds at first.
LEMMA ExecutionStarts == ASSUME ExecutionInit PROVE ExecutionInv
<1>1. RunnerInv /\ drain = NoDrain
  BY RunnerStarts DEF ExecutionInit, RunnerInit
<1>2. CP!Inv
  <2>1. Coordinator!Init <=> CP!Init
    BY DEF Coordinator!Init, CP!Init, Coordinator!Idle, CP!Idle, Coordinator!Free, CP!Free,
       Coordinator!None, CP!None
  <2> QED BY <2>1, CP!InitInv DEF ExecutionInit
<1>3. Phase = "idle"
  BY DEF ExecutionInit, Coordinator!Init, Coordinator!Idle, Phase
<1>4. DrainFollows /\ ClaimHeld /\ Owes
  BY <1>1, <1>3 DEF ExecutionInit, DrainFollows, ClaimHeld, Owes
<1>5. attempts \in 0..(MaxAttempts + 1) /\ Counted
  BY AttemptsAssumption DEF ExecutionInit, Counted
<1>6. /\ claim \in BOOLEAN /\ sweep \in SweepStates /\ asked \in {"no", "look", "wake"}
      /\ rung \subseteq Ids /\ steered \subseteq Ids /\ unfinished \in BOOLEAN
  BY DEF ExecutionInit, SweepStates
<1> QED BY <1>1, <1>2, <1>4, <1>5, <1>6 DEF ExecutionInv

\* Every step keeps the invariant.
LEMMA ExecutionStep == ASSUME ExecutionInv, [ExecutionNext]_executionVars PROVE ExecutionInv'
<1>1. CASE Clienting
  BY <1>1, CallStep, ReturnsStep, WithdrawsStep, InterruptStep, ResumeLooksStep, ResumeWakesStep
  DEF Clienting
<1>2. CASE Executing
  BY <1>2, StartsStep, DrainWorksStep, DrainEndsStep, SettlesStep, ResumesAgainStep DEF Executing
<1>3. CASE Shutdown \/ Restart \/ Sweeping
  BY <1>3, ShutdownStep, RestartStep, SweepingStep
<1>4. CASE UNCHANGED executionVars
  <2>1. /\ UNCHANGED <<runnerVars, coordinatorVars, asked, rung, steered>>
        /\ UNCHANGED <<unfinished, claim, attempts, resumes, sweep>>
    BY <1>4 DEF executionVars, runnerVars, coordinatorVars
  <2>2. Counted' /\ ClaimHeld'
    BY <2>1 DEF ExecutionInv, Counted, ClaimHeld, Phase, coordinatorVars
  <2>3. /\ unfinished' \in BOOLEAN /\ claim' \in BOOLEAN /\ attempts' \in 0..(MaxAttempts + 1)
        /\ sweep' \in SweepStates
    BY <2>1 DEF ExecutionInv
  <2> QED BY <2>1, <2>2, <2>3, SweepParts
<1> QED BY <1>1, <1>2, <1>3, <1>4 DEF ExecutionNext

\* The invariant holds in every reachable state, whoever crashes or shuts down.
THEOREM ExecutionInvariant == ExecutionSpec => []ExecutionInv
BY ExecutionStarts, ExecutionStep, PTL DEF ExecutionSpec

\* Every variable of a Session's execution keeps its type.
THEOREM ExecutionTypes == ExecutionSpec => []ExecutionTypeOK
<1>1. ExecutionInv => ExecutionTypeOK
  <2>1. SUFFICES ASSUME ExecutionInv PROVE ExecutionTypeOK
    OBVIOUS
  <2>2. RunnerTypeOK
    BY <2>1 DEF ExecutionInv, RunnerInv, Inv, RunnerTypeOK, Drains
  <2>3. Coordinator!TypeOK
    BY <2>1, ExecutionShaped DEF ExecutionInv
  <2>4. resumes \in Nat
    BY <2>1, AttemptsAssumption DEF ExecutionInv, Counted
  <2> QED BY <2>1, <2>2, <2>3, <2>4 DEF ExecutionInv, ExecutionTypeOK
<1> QED BY <1>1, ExecutionInvariant, PTL

\* No admitted input is stranded: a Session at rest has no pending row whose
\* doorbell rang and that nobody gave up.
THEOREM NothingIsStranded == ExecutionSpec => []NothingStranded
<1>1. ExecutionInv => NothingStranded
  <2>1. SUFFICES ASSUME ExecutionInv, ~Active, ~closed, NEW r \in Pending, r.id \in rung \cup steered
                 PROVE  FALSE
    BY DEF NothingStranded, PendingIds
  <2>2. Serves("input") \/ Serves("steer")
    BY <2>1 DEF ExecutionInv, Owes
  <2>3. execution[Session] = Coordinator!Idle
    BY <2>1, ExecutionShaped DEF ExecutionInv, Active
  <2> QED BY <2>1, <2>2, <2>3 DEF Serves, Ahead, Active, Coordinator!Idle, Coordinator!None
<1> QED BY <1>1, ExecutionInvariant, PTL

\* A turn that keeps dying is resumed at most MaxAttempts + 1 times between two
\* releases of its claim: one more than the budget.
THEOREM ResumesAreBounded == ExecutionSpec => []ResumeBudget
<1>1. ExecutionInv => ResumeBudget
  BY AttemptsAssumption DEF ExecutionInv, Counted, ResumeBudget
<1> QED BY <1>1, ExecutionInvariant, PTL

\* The claim is written ahead of the drain: a crash in a drain finds it set.
THEOREM ClaimIsWrittenAhead == ExecutionSpec => []ClaimCoversDrain
<1>1. ExecutionInv => ClaimCoversDrain
  BY DEF ExecutionInv, ClaimHeld, ClaimCoversDrain
<1> QED BY <1>1, ExecutionInvariant, PTL
===============================================================================
