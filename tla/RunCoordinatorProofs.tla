------------------------- MODULE RunCoordinatorProofs -------------------------
(***************************************************************************)
(* Proofs about the run coordinator for any set of keys and callers: its   *)
(* types, that no waiter outlives the execution it waits for, and that     *)
(* what callers observe of it is a behavior of KeyedWork.                  *)
(***************************************************************************)
EXTENDS RunCoordinatorTrace, TLAPS

-----------------------------------------------------------------------------
(* Types *)

\* A key without execution has its type.
LEMMA IdleType == Idle \in Execution
BY DEF Idle, Execution, Phases, Scopes, Promotable, Exits, None

\* An execution that starts has its type.
LEMMA StartedType ==
  ASSUME closed \in BOOLEAN, NEW force \in BOOLEAN, NEW s \in Scopes
  PROVE  Started(force, s) \in Execution
BY DEF Started, Execution, Phases, Scopes, Promotable, None

\* The helpers that rewrite one execution keep its type.
LEMMA HelperTypes ==
  ASSUME closed \in BOOLEAN, NEW e \in Execution
  PROVE  /\ Interrupted(e) \in Execution
         /\ NextDrain(e) \in Execution
         /\ Successor(e) \in Execution
<1>1. Interrupted(e) \in Execution
  BY DEF Interrupted, Execution, Scopes, None
<1>2. NextDrain(e) \in Execution
  BY DEF NextDrain, Execution, Phases, Scopes, None
<1>3. Successor(e) \in Execution
  BY IdleType, StartedType DEF Successor, Execution
<1> QED BY <1>1, <1>2, <1>3

\* A caller that joins or starts an execution keeps the types.
LEMMA JoinType ==
  ASSUME TypeOK, NEW c \in Callers, NEW k \in Keys, Join(c, k)
  PROVE  execution' \in [Keys -> Execution] /\ caller' \in [Callers -> Call]
<1>1. Started(TRUE, "input") \in Execution
  BY StartedType DEF TypeOK, Scopes, Promotable
<1>2. execution' \in [Keys -> Execution]
  BY <1>1 DEF Join, TypeOK
<1>3. \A st \in {"refused", "joined"} : [state |-> st, key |-> k] \in Call
  BY DEF Call, CallStates
<1>4. caller' \in [Callers -> Call]
  BY <1>3 DEF Join, TypeOK
<1> QED BY <1>2, <1>4

\* A step of an execution's fiber rewrites one entry of the map, or settles it.
LEMMA FiberType ==
  ASSUME TypeOK, NEW k \in Keys, FiberStep(k)
  PROVE  TypeOK'
<1> USE DEF TypeOK
<1>1. ASSUME NEW p \in Phases, SetPhase(k, p) PROVE TypeOK'
  BY <1>1 DEF SetPhase, Execution
<1>2. ASSUME NEW x \in Exits, Exit(k, x) PROVE TypeOK'
  BY <1>2, ZenonT(40) DEF Exit, Execution, Phases
<1>3. CASE Begin(k)
  BY <1>1, <1>2, <1>3 DEF Begin, Phases, Exits
<1>4. CASE StartedReturns(k)
  BY <1>1, <1>2, <1>4 DEF StartedReturns, Phases, Exits
<1>5. CASE StartedDies(k)
  BY <1>2, <1>5 DEF StartedDies, Exits
<1>6. CASE DrainReturns(k)
  <2>1. CASE Continues(execution[k])
    <3>1. NextDrain(execution[k]) \in Execution
      BY HelperTypes
    <3> QED BY <1>6, <2>1, <3>1 DEF DrainReturns
  <2>2. CASE ~Continues(execution[k])
    BY <1>2, <1>6, <2>2 DEF DrainReturns, Exits
  <2> QED BY <2>1, <2>2
<1>7. CASE \E exit \in {"failed", "interrupted"} : DrainFails(k, exit)
  BY <1>2, <1>7 DEF DrainFails, Exits
<1>8. CASE Again(k)
  BY <1>1, <1>2, <1>8 DEF Again, Phases, Exits
<1>9. CASE SettledReturns(k)
  BY <1>1, <1>9 DEF SettledReturns, Phases
<1>10. CASE SettledDies(k)
  BY <1>10, ZenonT(40) DEF SettledDies, Execution, Phases, Exits
<1>11. CASE Settle(k)
  <2>1. Successor(execution[k]) \in Execution
    BY HelperTypes
  <2>2. Released(k) \in [Callers -> Call]
    BY DEF Released, MovesOn, Waiting, Call, CallStates, Free
  <2> QED BY <1>11, <2>1, <2>2 DEF Settle
<1> QED
  BY <1>3, <1>4, <1>5, <1>6, <1>7, <1>8, <1>9, <1>10, <1>11 DEF FiberStep

\* Every step keeps the types.
LEMMA TypeStep == TypeOK /\ [Next]_vars => TypeOK'
<1> SUFFICES ASSUME TypeOK, [Next]_vars PROVE TypeOK'
  OBVIOUS
<1>1. ASSUME NEW k \in Keys, NEW s \in Promotable, Wake(k, s) PROVE TypeOK'
  <2>1. Started(FALSE, s) \in Execution
    BY StartedType DEF TypeOK, Scopes
  <2>2. CASE Active(k)
    <3>1. Rung(execution[k].pendingWake, s) \in Scopes
      BY DEF Rung, Scopes, Promotable
    <3> QED BY <1>1, <2>2, <3>1 DEF Wake, TypeOK, Execution
  <2>3. CASE ~Active(k)
    BY <1>1, <2>1, <2>3 DEF Wake, TypeOK
  <2> QED BY <2>2, <2>3
<1>2. ASSUME NEW c \in Callers, NEW k \in Keys, Run(c, k) PROVE TypeOK'
  BY <1>2, JoinType DEF Run, TypeOK
<1>3. ASSUME NEW c \in Callers, NEW k \in Keys, Watch(c, k) PROVE TypeOK'
  BY <1>3 DEF Watch, TypeOK, Call, CallStates, Free
<1>4. ASSUME NEW k \in Keys, Interrupt(k) PROVE TypeOK'
  <2>1. Interrupted(execution[k]) \in Execution
    BY HelperTypes DEF TypeOK
  <2> QED BY <1>4, <2>1 DEF Interrupt, TypeOK
<1>5. ASSUME NEW c \in Callers, RunAgain(c) PROVE TypeOK'
  <2>1. caller[c].key \in Keys
    BY <1>5 DEF RunAgain, TypeOK, Call, Free
  <2> QED BY <1>5, <2>1, JoinType DEF RunAgain, TypeOK
<1>6. ASSUME NEW c \in Callers, CallerInterrupted(c) PROVE TypeOK'
  BY <1>6 DEF CallerInterrupted, TypeOK, Call, CallStates, Free
<1>7. CASE Close
  BY <1>7 DEF Close, TypeOK, Execution
<1>8. CASE UNCHANGED vars
  BY <1>8 DEF vars, TypeOK
<1>9. ASSUME NEW c \in Callers, AwaitIdleAgain(c) PROVE TypeOK'
  BY <1>3, <1>9 DEF AwaitIdleAgain, TypeOK, Call, Free
<1> QED
  BY <1>1, <1>2, <1>3, <1>4, <1>5, <1>6, <1>7, <1>8, <1>9, FiberType
  DEF Next, AwaitIdle, CallerStep

\* Every variable of the coordinator keeps its type.
THEOREM TypeCorrect == Spec => []TypeOK
<1>1. Init => TypeOK
  BY IdleType DEF Init, TypeOK, Call, CallStates, Free
<1> QED BY <1>1, TypeStep, PTL DEF Spec

-----------------------------------------------------------------------------
(* Waiters *)

\* What the current execution of each key looks like.  An idle key has the
\* blank record; a fiber is interrupted exactly when someone stopped it or the
\* scope closed; the next drain always has a scope.
ExecutionShape(e) ==
  /\ e.phase = "idle" => e = Idle
  /\ e.phase # "idle" => e.scope # None
  /\ e.phase \in {"forked", "starting", "draining", "yielded"}
       => (e.interrupted <=> e.stopping \/ closed)

Inv == TypeOK /\ WaitersOwned /\ \A k \in Keys : ExecutionShape(execution[k])

\* At first nobody waits.
LEMMA InitInv == Init => Inv
<1> SUFFICES ASSUME Init PROVE Inv
  OBVIOUS
<1>1. TypeOK
  BY IdleType DEF Init, TypeOK, Call
<1>2. WaitersOwned
  BY DEF Init, WaitersOwned, Waiting, Free
<1>3. \A k \in Keys : ExecutionShape(execution[k])
  BY DEF Init, ExecutionShape, Idle
<1> QED BY <1>1, <1>2, <1>3 DEF Inv

\* No fiber step but settle makes a key idle, and none but settle moves callers.
LEMMA FiberWaiters ==
  ASSUME Inv, NEW k \in Keys, FiberStep(k)
  PROVE  WaitersOwned'
<1> USE DEF Inv, TypeOK
<1>1. CASE Settle(k)
  <2> SUFFICES ASSUME NEW c \in Callers, caller'[c].state \in Waiting
               PROVE  execution'[caller'[c].key].phase # "idle"
    BY DEF WaitersOwned, Active, Phase
  <2>1. caller[c].key # k /\ caller'[c] = caller[c]
    BY <1>1 DEF Settle, Released, MovesOn, Waiting, Free
  <2>2. caller[c].key \in Keys
    BY <2>1 DEF Waiting, Call, Free
  <2> QED BY <1>1, <2>1, <2>2 DEF Settle, WaitersOwned, Active, Phase
<1>2. CASE ~Settle(k)
  <2>1. caller' = caller /\ execution'[k].phase # "idle"
    <3>1. ASSUME NEW p \in Phases \ {"idle"}, SetPhase(k, p)
          PROVE  caller' = caller /\ execution'[k].phase # "idle"
      BY <3>1 DEF SetPhase, Execution
    <3>2. ASSUME NEW x, Exit(k, x)
          PROVE  caller' = caller /\ execution'[k].phase # "idle"
      BY <3>2 DEF Exit, Execution
    <3>3. CASE DrainReturns(k) /\ Continues(execution[k])
      BY <3>3 DEF DrainReturns, NextDrain, Execution
    <3>4. CASE SettledDies(k)
      BY <3>4 DEF SettledDies, Execution
    <3> QED BY <1>2, <3>1, <3>2, <3>3, <3>4
            DEF FiberStep, Begin, StartedReturns, StartedDies, DrainReturns, DrainFails,
                Again, SettledReturns, Phases
  <2>2. \A j \in Keys : j # k => execution'[j] = execution[j]
    BY <1>2 DEF FiberStep, Begin, StartedReturns, StartedDies, DrainReturns, DrainFails,
                Again, SettledReturns, SettledDies, SetPhase, Exit
  <2>3. \A c \in Callers : caller[c].state \in Waiting => caller[c].key \in Keys
    BY DEF Waiting, Call, Free
  <2> QED BY <2>1, <2>2, <2>3 DEF WaitersOwned, Active, Phase
<1> QED BY <1>1, <1>2

\* A step of the fiber of k leaves the entry of every other key alone and gives
\* that of k its shape.
LEMMA FiberShape ==
  ASSUME Inv, NEW k \in Keys, FiberStep(k)
  PROVE  \A j \in Keys : ExecutionShape(execution[j])'
<1> USE DEF Inv, TypeOK
<1>1. closed' = closed /\ \A j \in Keys : j # k => execution'[j] = execution[j]
  BY DEF FiberStep, Begin, StartedReturns, StartedDies, DrainReturns, DrainFails,
         Again, SettledReturns, SettledDies, Settle, SetPhase, Exit
<1>2. ExecutionShape(execution[k]) /\ execution[k] \in Execution
  OBVIOUS
<1>3. ExecutionShape(execution[k])'
  <2>1. CASE Settle(k)
    <3>1. CASE execution[k].pendingWake = None
      BY <1>1, <2>1, <3>1 DEF Settle, Successor, ExecutionShape, Idle
    <3>2. CASE execution[k].pendingWake # None
      BY <1>1, <2>1, <3>2 DEF Settle, Successor, Started, ExecutionShape
    <3> QED BY <3>1, <3>2
  <2>2. CASE DrainReturns(k) /\ Continues(execution[k])
    <3>1. execution'[k] = NextDrain(execution[k])
      BY <2>2 DEF DrainReturns
    <3> QED BY <1>1, <1>2, <2>2, <3>1
            DEF DrainReturns, Phase, Continues, NextDrain, ExecutionShape, Execution
  <2>3. ASSUME NEW x, Owned(k), Exit(k, x) PROVE ExecutionShape(execution[k])'
    BY <1>1, <1>2, <2>3 DEF Exit, Owned, Phase, ExecutionShape, Execution
  <2>4. ASSUME NEW p \in {"starting", "draining"}, Owned(k), SetPhase(k, p)
        PROVE  ExecutionShape(execution[k])'
    BY <1>1, <1>2, <2>4 DEF SetPhase, Owned, Phase, ExecutionShape, Execution
  <2>5. CASE SettledReturns(k) \/ SettledDies(k)
    BY <1>1, <1>2, <2>5 DEF SettledReturns, SettledDies, SetPhase, Phase, ExecutionShape, Execution
  <2> QED BY <2>1, <2>2, <2>3, <2>4, <2>5
          DEF FiberStep, Begin, StartedReturns, StartedDies, DrainReturns, DrainFails,
              Again, Owned, Phase
<1> QED BY <1>1, <1>3 DEF ExecutionShape

\* A caller that joins waits on an execution that will settle.
LEMMA JoinInv ==
  ASSUME Inv, NEW c \in Callers, NEW k \in Keys, Join(c, k), UNCHANGED closed
  PROVE  Inv'
<1> USE DEF Inv, TypeOK
<1>1. TypeOK'
  BY JoinType
<1>2. WaitersOwned'
  BY DEF WaitersOwned, Join, Active, Phase, Started, Waiting, Call, Free
<1>3. \A j \in Keys : ExecutionShape(execution[j])'
  BY DEF ExecutionShape, Join, Active, Phase, Started, None
<1> QED BY <1>1, <1>2, <1>3

\* Every step keeps the invariant.
LEMMA StepInv == Inv /\ [Next]_vars => Inv'
<1> SUFFICES ASSUME Inv, [Next]_vars PROVE Inv'
  OBVIOUS
<1> USE DEF Inv
<1>0. TypeOK'
  BY TypeStep
<1>1. ASSUME NEW k \in Keys, NEW s \in Promotable, Wake(k, s) PROVE Inv'
  <2>1. WaitersOwned'
    BY <1>1 DEF Wake, WaitersOwned, Active, Phase, Started, TypeOK, Waiting, Call, Free
  <2>2. \A j \in Keys : ExecutionShape(execution[j])'
    BY <1>1, ZenonT(40) DEF Wake, ExecutionShape, Active, Phase, Started, TypeOK, Promotable, None,
                Execution, Idle
  <2> QED BY <1>0, <2>1, <2>2
<1>2. ASSUME NEW c \in Callers, NEW k \in Keys, Run(c, k) PROVE Inv'
  BY <1>2, JoinInv DEF Run
<1>3. ASSUME NEW c \in Callers, NEW k \in Keys, Watch(c, k) PROVE Inv'
  <2>1. WaitersOwned'
    BY <1>3 DEF Watch, WaitersOwned, Active, Phase, TypeOK, Waiting, Free, Call
  <2>2. \A j \in Keys : ExecutionShape(execution[j])'
    BY <1>3 DEF Watch, ExecutionShape
  <2> QED BY <1>0, <2>1, <2>2
<1>4. ASSUME NEW k \in Keys, Interrupt(k) PROVE Inv'
  <2>1. /\ Interrupted(execution[k]).phase = execution[k].phase
        /\ ExecutionShape(Interrupted(execution[k]))
    BY DEF Interrupted, ExecutionShape, TypeOK, Execution
  <2>2. WaitersOwned'
    BY <1>4, <2>1 DEF Interrupt, WaitersOwned, Active, Phase, TypeOK, Waiting, Call, Free
  <2>3. \A j \in Keys : ExecutionShape(execution[j])'
    BY <1>4, <2>1 DEF Interrupt, ExecutionShape, TypeOK
  <2> QED BY <1>0, <2>2, <2>3
<1>5. ASSUME NEW c \in Callers, RunAgain(c) PROVE Inv'
  <2>1. caller[c].key \in Keys
    BY <1>5 DEF RunAgain, TypeOK, Call, Free
  <2> QED BY <1>5, <2>1, JoinInv DEF RunAgain
<1>6. ASSUME NEW c \in Callers, AwaitIdleAgain(c) PROVE Inv'
  <2>1. caller[c].key \in Keys
    BY <1>6 DEF AwaitIdleAgain, TypeOK, Call, Free
  <2> QED BY <1>3, <1>6, <2>1 DEF AwaitIdleAgain
<1>7. ASSUME NEW c \in Callers, CallerInterrupted(c) PROVE Inv'
  <2>1. WaitersOwned'
    BY <1>7 DEF CallerInterrupted, WaitersOwned, Active, Phase, TypeOK, Waiting, Free
  <2>2. \A j \in Keys : ExecutionShape(execution[j])'
    BY <1>7 DEF CallerInterrupted, ExecutionShape
  <2> QED BY <1>0, <2>1, <2>2
<1>8. CASE Close
  <2>1. WaitersOwned'
    BY <1>8 DEF Close, WaitersOwned, Active, Phase, TypeOK, Execution, Waiting, Call, Free
  <2>2. \A j \in Keys : ExecutionShape(execution[j])'
    BY <1>8 DEF Close, Owned, Phase, ExecutionShape, TypeOK, Execution, Idle
  <2> QED BY <1>0, <2>1, <2>2
<1>9. ASSUME NEW k \in Keys, FiberStep(k) PROVE Inv'
  BY <1>0, <1>9, FiberWaiters, FiberShape
<1>10. CASE UNCHANGED vars
  BY <1>0, <1>10 DEF vars, WaitersOwned, Active, Phase, ExecutionShape
<1> QED
  BY <1>1, <1>2, <1>3, <1>4, <1>5, <1>6, <1>7, <1>8, <1>9, <1>10
  DEF Next, AwaitIdle, CallerStep

\* No fiber parked in run or awaitIdle is left behind by a settlement: it
\* always waits on an execution that is still to settle.
THEOREM WaitersCorrect == Spec => []WaitersOwned
<1>1. Inv => WaitersOwned
  BY DEF Inv
<1> QED BY <1>1, InitInv, StepInv, PTL DEF Spec

-----------------------------------------------------------------------------
(* Refinement of KeyedWork *)

OwedMap == [j \in Keys |-> Owed(j)]
ServingMap == [j \in Keys |-> Serving(j)]

\* A step that touches one execution changes one entry of the abstract state.
LEMMA OneKey ==
  ASSUME NEW k \in Keys, closed' = closed,
         \A j \in Keys : j # k => execution'[j] = execution[j]
  PROVE  /\ OwedMap' = [OwedMap EXCEPT ![k] = Owed(k)']
         /\ ServingMap' = [ServingMap EXCEPT ![k] = Serving(k)']
<1>1. \A j \in Keys : j # k => Owed(j)' = Owed(j) /\ Serving(j)' = Serving(j)
  BY DEF Owed, Serving, Phase
<1> QED BY <1>1 DEF OwedMap, ServingMap

\* ... and none when what is owed and served under that key stays.
LEMMA Quiet ==
  ASSUME NEW k \in Keys, closed' = closed,
         \A j \in Keys : j # k => execution'[j] = execution[j],
         Owed(k)' = Owed(k), Serving(k)' = Serving(k)
  PROVE  OwedMap' = OwedMap /\ ServingMap' = ServingMap
BY OneKey DEF OwedMap, ServingMap

\* What a key owes and serves are scopes.
LEMMA ScopeTypes ==
  ASSUME Inv, NEW k \in Keys
  PROVE  /\ Owed(k) \in Scopes
         /\ execution[k].pendingWake \in Scopes
         /\ execution[k].scope \in Scopes
BY DEF Inv, TypeOK, Execution, Owed, Widest, Scopes, Promotable, None

\* A wake is a wake of KeyedWork: it is owed until a drain covers it.
LEMMA WakeRefines ==
  ASSUME Inv, NEW k \in Keys, NEW s \in Promotable,
         Wake(k, s), observed' = <<"wake", k, s>>
  PROVE  Work!Next
<1> USE DEF Inv, TypeOK, None
<1>1. \A j \in Keys : j # k => execution'[j] = execution[j]
  BY DEF Wake
<1>2. Owed(k)' = Work!Wider(Owed(k), s)
  <2>1. CASE Active(k)
    <3>1. execution'[k] = [execution[k] EXCEPT !.pendingWake = Rung(execution[k].pendingWake, s)]
      BY <2>1 DEF Wake
    <3>2. /\ execution'[k].pendingWake = Rung(execution[k].pendingWake, s)
          /\ Ahead(execution'[k]) = Ahead(execution[k])
      BY <3>1 DEF Ahead, Execution
    <3>3. Ahead(execution[k]) \in Scopes /\ execution[k].pendingWake \in Scopes
      BY ScopeTypes DEF Ahead, Scopes
    <3> QED BY <3>2, <3>3 DEF Wake, Owed, Rung, Work!Wider, Widest, Scopes, Promotable, Work!None
  <2>2. CASE ~Active(k)
    <3>1. Owed(k) = None
      BY <2>2 DEF Active, Phase, ExecutionShape, Idle, Owed, Ahead, Widest
    <3>2. execution'[k] = Started(FALSE, s) /\ ~closed /\ ~closed'
      BY <2>2 DEF Wake
    <3>3. Owed(k)' = s
      BY <3>2 DEF Owed, Ahead, Widest, Started, Promotable
    <3> QED BY <3>1, <3>3 DEF Work!Wider, Promotable
  <2> QED BY <2>1, <2>2
<1>3. Serving(k)' = Serving(k)
  BY DEF Wake, Serving, Phase, Active, Started, Execution
<1>4. Work!Wake(k, s)
  BY <1>1, <1>2, <1>3, OneKey DEF Work!Wake, OwedMap, ServingMap, Wake
<1> QED BY <1>4 DEF Work!Next, Work!Promotable, Promotable

\* A run is a run of KeyedWork.
LEMMA JoinRefines ==
  ASSUME Inv, NEW c \in Callers, NEW k \in Keys,
         Join(c, k), closed' = closed, observed' = <<"run", k>>
  PROVE  Work!Next
<1> USE DEF Inv, TypeOK, None
<1>1. \A j \in Keys : j # k => execution'[j] = execution[j]
  BY DEF Join
<1>2. CASE Active(k) \/ closed
  <2>1. Owed(k)' = Owed(k)
    BY <1>2 DEF Join, Owed
  <2>2. Serving(k)' = Serving(k)
    BY <1>2 DEF Join, Serving, Phase, Active, Started
  <2>3. Work!Run(k)
    BY <1>1, <2>1, <2>2, Quiet DEF Work!Run, OwedMap, ServingMap
  <2> QED BY <2>3 DEF Work!Next
<1>3. CASE ~Active(k) /\ ~closed
  <2>1. Owed(k) = None /\ Serving(k) = None
    BY <1>3 DEF Active, Phase, ExecutionShape, Idle, Owed, Ahead, Widest, Serving
  <2>2. execution'[k] = Started(TRUE, "input")
    BY <1>3 DEF Join
  <2>3. Owed(k)' = "input" /\ Serving(k)' = None
    BY <1>3, <2>2 DEF Owed, Ahead, Widest, Serving, Phase, Started
  <2>4. Work!Run(k)
    BY <1>1, <2>1, <2>3, OneKey DEF Work!Run, OwedMap, ServingMap, Work!None
  <2> QED BY <2>4 DEF Work!Next
<1> QED BY <1>2, <1>3

\* An interrupt is an interrupt of KeyedWork.
LEMMA InterruptRefines ==
  ASSUME Inv, NEW k \in Keys, Interrupt(k), observed' = <<"interrupt", k>>
  PROVE  Work!Next
<1> USE DEF Inv, TypeOK, None
<1>1. \A j \in Keys : j # k => execution'[j] = execution[j]
  BY DEF Interrupt
<1>2. execution'[k] = Interrupted(execution[k]) /\ execution'[k] # execution[k]
  BY DEF Interrupt
<1>3. /\ execution'[k].pendingWake = None
      /\ execution'[k].phase = execution[k].phase
      /\ execution'[k].scope = execution[k].scope
      /\ Ahead(execution'[k]) = None
  BY <1>2 DEF Interrupted, Ahead, Execution, Phases
<1>4. Owed(k)' = None /\ Serving(k)' = Serving(k)
  BY <1>3 DEF Owed, Widest, Serving, Phase
<1>5. Work!Interrupt(k)
  BY <1>1, <1>4, OneKey DEF Work!Interrupt, OwedMap, ServingMap, Work!None, Interrupt
<1> QED BY <1>5 DEF Work!Next

\* A teardown is a close of KeyedWork.
LEMMA CloseRefines ==
  ASSUME Inv, Close, observed' = <<"close">>
  PROVE  Work!Next
<1> USE DEF Inv, TypeOK
<1>1. \A j \in Keys : Owed(j)' = None /\ Serving(j)' = Serving(j)
  BY DEF Close, Owed, Serving, Phase, Execution
<1>2. Work!Close
  BY <1>1 DEF Work!Close, Work!None, None
<1> QED BY <1>2 DEF Work!Next

\* The step of k's fiber either begins a drain, ends one, breaks the busy period
\* before its first drain, or leaves the abstract state alone.
LEMMA FiberRefines ==
  ASSUME Inv, NEW k \in Keys, FiberStep(k), ObservedFiber(k)
  PROVE  [Work!Next]_(Work!vars)
<1> USE DEF Inv, TypeOK, None
<1>1. closed' = closed /\ \A j \in Keys : j # k => execution'[j] = execution[j]
  BY DEF FiberStep, Begin, StartedReturns, StartedDies, DrainReturns, DrainFails,
         Again, SettledReturns, SettledDies, Settle, SetPhase, Exit
<1>2. /\ execution[k] \in Execution
      /\ ExecutionShape(execution[k])
  OBVIOUS
<1> DEFINE e == execution[k]
           f == execution'[k]
\* Ending the drain that runs.
<1>3. CASE Phase(k) = "draining"
  <2>1. /\ f.phase \in {"settling", "yielded"}
        /\ Widest(Ahead(f), f.pendingWake) = e.pendingWake \/ closed
    <3>1. CASE Continues(e) /\ DrainReturns(k)
      <4>1. f = NextDrain(e)
        BY <3>1 DEF DrainReturns
      <4>2. f.phase = "yielded" /\ f.scope = e.pendingWake /\ f.pendingWake = None
            /\ f.interrupted = e.interrupted
        BY <4>1 DEF NextDrain, Execution
      <4>3. e.interrupted => closed
        BY <1>2, <1>3, <3>1 DEF ExecutionShape, Phase, Continues
      <4> QED BY <4>2, <4>3 DEF Ahead, Widest, Execution, Scopes, Promotable
    <3>2. ASSUME NEW x, Exit(k, x)
          PROVE  f.phase = "settling" /\ f.pendingWake = e.pendingWake
      BY <3>2 DEF Exit, Execution
    <3>3. f.phase = "settling" /\ f.pendingWake = e.pendingWake
            => Widest(Ahead(f), f.pendingWake) = e.pendingWake
      BY DEF Ahead, Widest, Execution, Scopes, Promotable
    <3> QED BY <1>3, <3>1, <3>2, <3>3
            DEF FiberStep, Begin, StartedReturns, StartedDies, DrainReturns, DrainFails,
                Again, SettledReturns, SettledDies, Settle, Phase
  <2>2. Owed(k) = IF closed THEN None ELSE e.pendingWake
    BY <1>3 DEF Owed, Ahead, Phase, Widest, Execution, Scopes, Promotable
  <2>3. Owed(k)' = Owed(k)
    BY <1>1, <2>1, <2>2 DEF Owed
  <2>4. Serving(k)' = None /\ Serving(k) = e.scope /\ e.scope # None
    BY <1>2, <1>3, <2>1 DEF Serving, Phase, ExecutionShape
  <2>5. observed' = <<"end", k>>
    BY <1>3 DEF ObservedFiber
  <2>6. Work!Finish(k)
    BY <1>1, <2>3, <2>4, <2>5, OneKey DEF Work!Finish, OwedMap, ServingMap, Work!None
  <2> QED BY <2>6 DEF Work!Next
\* Beginning one.
<1>4. CASE Phase(k) # "draining" /\ f.phase = "draining"
  <2>1. (StartedReturns(k) \/ Again(k)) /\ ~e.interrupted
    <3>1. ASSUME NEW x, Exit(k, x) PROVE f.phase = "settling"
      BY <3>1 DEF Exit, Execution
    <3>2. ASSUME NEW p, SetPhase(k, p) PROVE f.phase = p
      BY <3>2 DEF SetPhase, Execution
    <3>3. SettledDies(k) => f.phase = "settled"
      BY DEF SettledDies, Execution
    <3>4. Settle(k) => f.phase \in {"idle", "forked"}
      BY DEF Settle, Successor, Started, Idle
    <3> QED BY <1>4, <3>1, <3>2, <3>3, <3>4
            DEF FiberStep, Begin, StartedReturns, StartedDies, DrainReturns, DrainFails,
                Again, SettledReturns
  <2>2. SetPhase(k, "draining") /\ Phase(k) \in {"starting", "yielded"}
    BY <2>1 DEF StartedReturns, Again
  <2>3. f.scope = e.scope /\ f.pendingWake = e.pendingWake
    BY <2>2 DEF SetPhase, Execution
  <2>4. ~closed
    BY <1>2, <2>1, <2>2 DEF ExecutionShape, Phase
  <2>5. Owed(k) = Work!Wider(e.scope, e.pendingWake)
    BY <2>1, <2>2, <2>4 DEF Owed, Ahead, Phase, Widest, Work!Wider, Work!None
  <2>6. Owed(k)' = e.pendingWake
    BY <1>1, <1>4, <2>3, <2>4 DEF Owed, Ahead, Widest, Execution, Scopes, Promotable
  <2>7. Serving(k) = None /\ Serving(k)' = e.scope
    BY <1>4, <2>3 DEF Serving, Phase
  <2>8. observed' = <<"drain", k, e.scope>>
    BY <1>4, <2>3 DEF ObservedFiber
  <2>9. Work!Begin(k, e.scope, e.pendingWake)
    BY <1>1, <2>5, <2>6, <2>7, <2>8, OneKey DEF Work!Begin, OwedMap, ServingMap, Work!None
  <2>10. e.scope \in Work!Promotable /\ e.pendingWake \in Work!Scopes
    BY <1>2, <2>2 DEF ExecutionShape, Phase, Execution, Scopes, Promotable,
                      Work!Scopes, Work!Promotable, Work!None
  <2> QED BY <2>9, <2>10 DEF Work!Next
\* The busy period ends before a drain: the started hook died, or the fiber was
\* interrupted during it.
<1>5. CASE Phase(k) = "starting" /\ f.phase # "draining"
  <2>1. f.phase = "settling" /\ f.pendingWake = e.pendingWake
    <3>1. ASSUME NEW x, Exit(k, x)
          PROVE  f.phase = "settling" /\ f.pendingWake = e.pendingWake
      BY <3>1 DEF Exit, Execution
    <3>2. SetPhase(k, "draining") => f.phase = "draining"
      BY DEF SetPhase, Execution
    <3> QED BY <1>5, <3>1, <3>2
            DEF FiberStep, Begin, StartedReturns, StartedDies, DrainReturns, DrainFails,
                Again, SettledReturns, SettledDies, Settle, Phase
  <2>2. Owed(k)' = IF closed THEN None ELSE e.pendingWake
    BY <1>1, <2>1 DEF Owed, Ahead, Widest, Execution, Scopes, Promotable
  <2>3. Owed(k)' \in Work!Scopes /\ Work!Covers(Owed(k), Owed(k)')
    BY <2>2 DEF Owed, Ahead, Widest, Execution, Scopes, Promotable, Work!Covers, Work!Wider,
                Work!Scopes, Work!Promotable, Work!None
  <2>4. Serving(k)' = Serving(k)
    BY <1>5, <2>1 DEF Serving, Phase
  <2>5. observed' = <<"fault", k>>
    BY <1>5 DEF ObservedFiber, Phase
  <2>6. Work!Fault(k, Owed(k)')
    BY <1>1, <2>3, <2>4, <2>5, OneKey DEF Work!Fault, OwedMap, ServingMap
  <2> QED BY <2>3, <2>6 DEF Work!Next
\* Internal steps.
<1>6. CASE Phase(k) \notin {"draining", "starting"} /\ f.phase # "draining"
  <2>1. Owed(k)' = Owed(k)
    <3>1. CASE Begin(k)
      BY <1>1, <1>2, <3>1 DEF Begin, SetPhase, Exit, Owed, Ahead, Widest, Phase, Execution
    <3>2. CASE Again(k)
      <4>1. SetPhase(k, "draining") => f.phase = "draining"
        BY DEF SetPhase, Execution
      <4>2. Exit(k, "interrupted") /\ e.interrupted
        BY <1>6, <3>2, <4>1 DEF Again
      <4> QED BY <1>1, <1>2, <4>2 DEF Exit, Owed, Ahead, Widest, Execution
    <3>3. CASE SettledReturns(k) \/ SettledDies(k)
      BY <1>1, <1>2, <3>3 DEF SettledReturns, SettledDies, SetPhase, Owed, Ahead, Widest, Phase,
                              Execution
    <3>4. CASE Settle(k)
      BY <1>1, <1>2, <3>4 DEF Settle, Successor, Started, Idle, Owed, Ahead, Widest, Phase,
                              Execution, Scopes, Promotable
    <3> QED BY <1>6, <3>1, <3>2, <3>3, <3>4
            DEF FiberStep, StartedReturns, StartedDies, DrainReturns, DrainFails
  <2>2. Serving(k)' = Serving(k)
    BY <1>6 DEF Serving, Phase
  <2>3. observed' = observed
    BY <1>6 DEF ObservedFiber
  <2> QED BY <1>1, <2>1, <2>2, <2>3, Quiet DEF Work!vars, OwedMap, ServingMap
<1> QED BY <1>3, <1>4, <1>5, <1>6

\* Every observed step is a step of KeyedWork, or none.
LEMMA TraceStep == Inv /\ [TraceNext]_traceVars => [Work!Next]_(Work!vars)
<1> SUFFICES ASSUME Inv, [TraceNext]_traceVars PROVE [Work!Next]_(Work!vars)
  OBVIOUS
<1>1. ASSUME NEW k \in Keys, NEW s \in Promotable, Wake(k, s), observed' = <<"wake", k, s>>
      PROVE  Work!Next
  BY <1>1, WakeRefines
<1>2. ASSUME NEW k \in Keys, NEW c \in Callers, Run(c, k), observed' = <<"run", k>>
      PROVE  Work!Next
  BY <1>2, JoinRefines DEF Run
<1>3. ASSUME NEW c \in Callers, RunAgain(c), observed' = <<"run", caller[c].key>>
      PROVE  Work!Next
  <2>1. caller[c].key \in Keys
    BY <1>3 DEF RunAgain, Inv, TypeOK, Call, Free
  <2> QED BY <1>3, <2>1, JoinRefines DEF RunAgain
<1>4. ASSUME UNCHANGED <<execution, closed, observed>>
      PROVE  UNCHANGED Work!vars
  BY <1>4 DEF Work!vars, Owed, Serving, Phase
<1>5. CASE UNCHANGED traceVars
  BY <1>4, <1>5 DEF traceVars
<1>6. ASSUME NEW c \in Callers,
             \/ \E k \in Keys : AwaitIdle(c, k)
             \/ AwaitIdleAgain(c)
             \/ CallerInterrupted(c),
             UNCHANGED observed
      PROVE  UNCHANGED Work!vars
  BY <1>4, <1>6 DEF AwaitIdle, AwaitIdleAgain, Watch, CallerInterrupted
<1> QED
  BY <1>1, <1>2, <1>3, <1>5, <1>6, InterruptRefines, CloseRefines, FiberRefines DEF TraceNext

\* A step with its observation is a step of the coordinator.
LEMMA TraceIsStep == [TraceNext]_traceVars => [Next]_vars
BY DEF TraceNext, traceVars, Next, vars, CallerStep

\* What callers observe of the coordinator is a behavior of KeyedWork: per key
\* drains never overlap, each begins only for work that a wake or a run recorded
\* and no interrupt gave up since, and no recorded work is ever forgotten.
THEOREM CoordinatorRefines == TraceSpec => Promises
<1>1. TraceInit => Work!Init
  BY DEF TraceInit, Init, Work!Init, Owed, Ahead, Widest, Serving, Phase, Idle, Work!None, None
<1>2. TraceInit => Init
  BY DEF TraceInit
<1>3. Work!Spec <=> Work!Init /\ [][Work!Next]_(Work!vars)
  BY DEF Work!Spec
<1> QED
  BY <1>1, <1>2, <1>3, InitInv, StepInv, TraceStep, TraceIsStep, PTL DEF TraceSpec, Promises
=============================================================================
