-------------------------- MODULE SessionStepProofs ---------------------------
(***************************************************************************)
(* The proofs about SessionStep, for any finite set of tool calls.         *)
(*                                                                         *)
(* The record is what is in the log with what the attempt has still to     *)
(* publish.  Three things make it right: each pair of its events stands in *)
(* an order that Precedes allows, though tool fibers publish between those *)
(* of the attempt; its contents are what the marks of the step and of the  *)
(* calls say; and the phase of the attempt bounds which of them can still  *)
(* change.                                                                 *)
(***************************************************************************)
EXTENDS SessionStep, WellFoundedInduction, FiniteSetTheorems, SequenceTheorems, TLAPS

-----------------------------------------------------------------------------
(* The inductive invariant *)

StepEvent == [type : EventTypes, call : Calls \union {None}]
Step == [started : BOOLEAN, output : BOOLEAN, blocked : BOOLEAN, failure : BOOLEAN,
         finish : FinishReasons \union {None}]
Call == [state : {"unknown", "input", "malformed", "called"}, hosted : BOOLEAN, settled : BOOLEAN]
Phases == {"stream", "forking", "streamed", "stopping", "joining", "joined", "compacting",
           "judging", "deciding", "settling", "closing", "leaving", "returned"}
Attempt == [pc : Phases \union {"publishing"}, then : Phases \union {None}, outbox : Seq(StepEvent),
            call : Calls \union {None}, exit : StreamExits \union {None}, cut : BOOLEAN,
            retry : BOOLEAN, outcome : Outcomes \union {None}]

\* Where the attempt is, or will be when its events are published.
Phase == IF attempt.pc = "publishing" THEN attempt.then ELSE attempt.pc

Shape ==
  /\ log \in Seq(StepEvent) /\ step \in Step /\ calls \in [Calls -> Call]
  /\ fiber \in [Calls -> {None, "running", "settling"} \union Ended]
  /\ attempt \in Attempt /\ Phase \in Phases
  /\ attempt.pc # "publishing" => attempt.outbox = <<>>
  /\ captured \in BOOLEAN /\ interrupted \in BOOLEAN

CallTypes == {"input", "called", "settled"}
CallOrder == {<<"input", "called">>, <<"input", "settled">>, <<"called", "settled">>}
IsEnd(x) == x.type \in {"failed", "ended"}

\* x may stand before y in the record.
Precedes(x, y) ==
  /\ y.type # "started" /\ ~IsEnd(x)
  /\ x.call = y.call /\ x.type \in CallTypes /\ y.type \in CallTypes => <<x.type, y.type>> \in CallOrder

Ordered(s) == \A i, j \in 1..Len(s) : i < j => Precedes(s[i], s[j])

Sequenced ==
  /\ Ordered(log) /\ Ordered(attempt.outbox)
  /\ \A x \in ToSet(log), y \in ToSet(attempt.outbox) : Precedes(x, y)

\* What is recorded, or will be by the attempt.
Record == ToSet(log) \union ToSet(attempt.outbox)

HasEnd == \E x \in Record : IsEnd(x)

\* The record of the step.
StepRecord ==
  /\ step.started <=> Event("started") \in Record
  /\ Record # {} => step.started
  /\ \A x \in Record : x.type = "started" => x = Event("started")
  /\ \A x \in Record : x.type \in CallTypes => x.call \in Calls
  /\ ~step.output => \A x \in Record : x.type # "text"

\* The record of a call.
CallRecord(t) ==
  /\ Of("input", t) \in Record <=> calls[t].state # "unknown"
  /\ Of("called", t) \in Record <=> calls[t].state = "called"
  /\ Of("settled", t) \in Record <=> calls[t].settled /\ fiber[t] # "settling"

Contents == StepRecord /\ \A t \in Calls : CallRecord(t)

\* The marks of a call and its fiber.
CallOK(t) ==
  /\ calls[t].settled => calls[t].state # "unknown"
  /\ calls[t].state # "unknown" => step.output
  /\ fiber[t] # None => calls[t].state = "called" /\ ~calls[t].hosted /\ Of("called", t) \in ToSet(log)
  /\ fiber[t] \in {"settling", "success"} => calls[t].settled
  /\ calls[t].settled /\ calls[t].state = "input" => step.blocked \/ Phase \notin {"stream", "forking"}
  /\ calls[t].state = "called" /\ ~calls[t].hosted /\ fiber[t] = None =>
       (Phase = "forking" /\ attempt.call = t) \/ attempt.exit = "interrupted"

KnownSettled == \A t \in Calls : calls[t].state # "unknown" => calls[t].settled

\* The tool to fork was called.
ForkOK ==
  Phase = "forking" =>
    /\ attempt.call \in Calls
    /\ calls[attempt.call].state = "called" /\ ~calls[attempt.call].hosted /\ fiber[attempt.call] = None

ExitOK ==
  /\ IF Phase \in {"stream", "forking"} THEN attempt.exit = None ELSE attempt.exit \in StreamExits
  /\ attempt.exit = "success" => step.finish # None
  /\ step.blocked => step.failure

\* The tools have ended.
JoinOK ==
  Phase \in {"joined", "compacting", "judging", "deciding", "settling", "closing", "leaving", "returned"} =>
    \A t \in Calls : fiber[t] \in Ended \union {None}

\* When the rest is settled, the step is to be closed, unless the stream had a defect.
CloseOK ==
  /\ Phase \in {"closing", "leaving"} /\ attempt.exit # "defect" =>
       KnownSettled /\ (step.failure \/ step.finish # None)
  /\ Phase = "leaving" /\ (step.failure \/ step.finish # None) => HasEnd
  /\ HasEnd => Phase \in {"leaving", "returned"}
  /\ Phase = "compacting" => ~step.output

\* What the attempt returns.
OutcomeOK ==
  Phase = "returned" =>
    /\ attempt.outcome \in Outcomes
    /\ attempt.outcome \in Again => ~step.output /\ ~HasEnd
    /\ attempt.outcome = "unrecorded" => ~step.started
    /\ attempt.outcome \notin Again \union {"struck", "unrecorded"} /\ attempt.exit # "defect" =>
         KnownSettled /\ HasEnd
    /\ attempt.outcome \in {"Continue", "Completed", "OutputLimit"} => \A t \in Calls : fiber[t] # "declined"

PhaseOK == ForkOK /\ ExitOK /\ JoinOK /\ CloseOK /\ OutcomeOK

StepInv == Shape /\ Sequenced /\ Contents /\ (\A t \in Calls : CallOK(t)) /\ PhaseOK

-----------------------------------------------------------------------------
(* Events and sequences of them *)

\* An event is its type and its call.
LEMMA Events ==
  ASSUME NEW type, NEW t
  PROVE  /\ Of(type, t).type = type /\ Of(type, t).call = t
         /\ Event(type) = Of(type, None)
         /\ type \in EventTypes /\ t \in Calls \union {None} => Of(type, t) \in StepEvent
BY DEF Of, Event, StepEvent

\* What is in a sequence that continues another.
LEMMA ContentsOfConcat ==
  ASSUME NEW S, NEW s \in Seq(S), NEW t \in Seq(S)
  PROVE  s \o t \in Seq(S) /\ ToSet(s \o t) = ToSet(s) \union ToSet(t)
<1>1. /\ s \o t \in Seq(S) /\ Len(s \o t) = Len(s) + Len(t)
      /\ \A i \in 1..(Len(s) + Len(t)) : (s \o t)[i] = IF i <= Len(s) THEN s[i] ELSE t[i - Len(s)]
  BY ConcatProperties
<1>2. Len(s) \in Nat /\ Len(t) \in Nat
  OBVIOUS
<1> DEFINE u == s \o t
<1>3. /\ u \in Seq(S) /\ Len(u) = Len(s) + Len(t)
      /\ \A i \in 1..Len(u) : u[i] = IF i <= Len(s) THEN s[i] ELSE t[i - Len(s)]
  BY <1>1
<1> HIDE DEF u
<1>4. /\ ToSet(u) = {u[i] : i \in 1..Len(u)} /\ ToSet(s) = {s[i] : i \in 1..Len(s)}
      /\ ToSet(t) = {t[i] : i \in 1..Len(t)}
  BY <1>3 DEF ToSet
<1>5. ASSUME NEW i \in 1..Len(u) PROVE u[i] \in ToSet(s) \union ToSet(t)
  <2>1. CASE i <= Len(s)
    <3>1. i \in 1..Len(s) /\ u[i] = s[i]
      BY <1>2, <1>3, <2>1
    <3> QED BY <1>4, <3>1
  <2>2. CASE i > Len(s)
    <3>1. i - Len(s) \in 1..Len(t) /\ ~(i <= Len(s))
      BY <1>2, <1>3, <2>2
    <3>2. u[i] = t[i - Len(s)]
      BY <1>3, <3>1
    <3> QED BY <1>4, <3>1, <3>2
  <2> QED BY <1>2, <1>3, <2>1, <2>2
<1>6. ASSUME NEW i \in 1..Len(s) PROVE s[i] \in ToSet(u)
  <2>1. i \in 1..Len(u) /\ u[i] = s[i]
    BY <1>2, <1>3
  <2> QED BY <1>4, <2>1
<1>7. ASSUME NEW i \in 1..Len(t) PROVE t[i] \in ToSet(u)
  <2>1. Len(s) + i \in 1..Len(u) /\ ~(Len(s) + i <= Len(s)) /\ (Len(s) + i) - Len(s) = i
    BY <1>2, <1>3
  <2>2. u[Len(s) + i] = t[i]
    BY <1>3, <2>1
  <2> QED BY <1>4, <2>1, <2>2
<1>8. ToSet(u) = ToSet(s) \union ToSet(t)
  BY <1>4, <1>5, <1>6, <1>7
<1> QED BY <1>3, <1>8 DEF u

\* Two ordered sequences of which the first may stand before the second.
LEMMA OrderedConcat ==
  ASSUME NEW s \in Seq(StepEvent), NEW t \in Seq(StepEvent), Ordered(s), Ordered(t),
         \A x \in ToSet(s), y \in ToSet(t) : Precedes(x, y)
  PROVE  Ordered(s \o t)
<1>1. /\ s \o t \in Seq(StepEvent) /\ Len(s \o t) = Len(s) + Len(t)
      /\ \A i \in 1..(Len(s) + Len(t)) : (s \o t)[i] = IF i <= Len(s) THEN s[i] ELSE t[i - Len(s)]
  BY ConcatProperties
<1>2. Len(s) \in Nat /\ Len(t) \in Nat
  OBVIOUS
<1> DEFINE u == s \o t
<1>3. /\ Len(u) = Len(s) + Len(t)
      /\ \A i \in 1..Len(u) : u[i] = IF i <= Len(s) THEN s[i] ELSE t[i - Len(s)]
  BY <1>1
<1> HIDE DEF u
<1>4. \A i \in 1..Len(s), j \in 1..Len(t) : Precedes(s[i], t[j])
  BY DEF ToSet
<1> SUFFICES ASSUME NEW i \in 1..Len(u), NEW j \in 1..Len(u), i < j PROVE Precedes(u[i], u[j])
  BY DEF Ordered, u
<1>5. CASE j <= Len(s)
  <2>1. i \in 1..Len(s) /\ j \in 1..Len(s) /\ u[i] = s[i] /\ u[j] = s[j]
    BY <1>2, <1>3, <1>5
  <2>2. Precedes(s[i], s[j])
    BY <2>1 DEF Ordered
  <2> QED BY <2>1, <2>2
<1>6. CASE i <= Len(s) /\ j > Len(s)
  <2>1. i \in 1..Len(s) /\ j - Len(s) \in 1..Len(t) /\ ~(j <= Len(s))
    BY <1>2, <1>3, <1>6
  <2>2. u[i] = s[i] /\ u[j] = t[j - Len(s)]
    BY <1>3, <1>6, <2>1
  <2> QED BY <1>4, <2>1, <2>2
<1>7. CASE i > Len(s) /\ j > Len(s)
  <2>1. /\ i - Len(s) \in 1..Len(t) /\ j - Len(s) \in 1..Len(t) /\ i - Len(s) < j - Len(s)
        /\ ~(i <= Len(s)) /\ ~(j <= Len(s))
    BY <1>2, <1>3, <1>7
  <2>2. u[i] = t[i - Len(s)] /\ u[j] = t[j - Len(s)]
    BY <1>3, <2>1
  <2>3. Precedes(t[i - Len(s)], t[j - Len(s)])
    BY <2>1 DEF Ordered
  <2> QED BY <2>2, <2>3
<1> QED BY <1>2, <1>3, <1>5, <1>6, <1>7

\* No event and one event.
LEMMA NoneOrOne ==
  /\ <<>> \in Seq(StepEvent) /\ ToSet(<<>>) = {} /\ Ordered(<<>>)
  /\ \A x \in StepEvent : <<x>> \in Seq(StepEvent) /\ ToSet(<<x>>) = {x} /\ Ordered(<<x>>)
<1>1. <<>> \in Seq(StepEvent) /\ ToSet(<<>>) = {} /\ Ordered(<<>>)
  BY DEF ToSet, Ordered
<1>2. ASSUME NEW x \in StepEvent PROVE <<x>> \in Seq(StepEvent) /\ ToSet(<<x>>) = {x} /\ Ordered(<<x>>)
  <2>1. <<x>> \in Seq(StepEvent) /\ Len(<<x>>) = 1 /\ DOMAIN <<x>> = 1..1 /\ <<x>>[1] = x
    OBVIOUS
  <2>2. \A i \in 1..1 : i = 1
    OBVIOUS
  <2>3. Ordered(<<x>>)
    BY <2>1, <2>2 DEF Ordered
  <2>4. ToSet(<<x>>) = {x}
    BY <2>1, <2>2 DEF ToSet
  <2> QED BY <2>1, <2>3, <2>4
<1> QED BY <1>1, <1>2

\* The events that settle a set of calls, each once.
LEMMA Settles ==
  ASSUME NEW S \in SUBSET Calls
  PROVE  /\ Settling(S) \in Seq(StepEvent)
         /\ ToSet(Settling(S)) = {Of("settled", t) : t \in S}
         /\ Ordered(Settling(S))
<1> DEFINE T == {Of("settled", t) : t \in S}
<1>1. IsFiniteSet(S)
  BY CallsAssumption, FS_Subset
<1>2. IsFiniteSet(T)
  <2>1. [t \in S |-> Of("settled", t)] \in Surjection(S, T)
    BY DEF Surjection
  <2> QED BY <1>1, <2>1, FS_Surjection
<1>3. \A x \in T : x \in StepEvent /\ x.type = "settled"
  <2>1. ASSUME NEW t \in S PROVE Of("settled", t) \in StepEvent /\ Of("settled", t).type = "settled"
    BY Events DEF EventTypes
  <2> QED BY <2>1
<1>4. \A x, y \in T : x.call = y.call => x = y
  <2>1. ASSUME NEW t \in S, NEW u \in S, Of("settled", t).call = Of("settled", u).call
        PROVE  Of("settled", t) = Of("settled", u)
    BY <2>1, Events
  <2> QED BY <2>1
<1> HIDE DEF T
<1>5. Cardinality(T) \in Nat /\ \E f : f \in Bijection(1..Cardinality(T), T)
  BY <1>2, FS_CardinalityType DEF ExistsBijection
<1>6. \E f \in [1..Cardinality(T) -> T] : IsInjective(f)
  <2>1. PICK f : f \in Bijection(1..Cardinality(T), T)
    BY <1>5
  <2>2. f \in [1..Cardinality(T) -> T] /\ IsInjective(f)
    BY <2>1 DEF Bijection, Injection, IsInjective
  <2> QED BY <2>2
<1> DEFINE f == SetToSeq(T)
<1>7. f \in [1..Cardinality(T) -> T] /\ IsInjective(f)
  BY <1>6 DEF SetToSeq
<1> HIDE DEF f
<1>8. f \in Seq(T) /\ Len(f) = Cardinality(T)
  BY <1>5, <1>7
<1>9. f \in Seq(StepEvent)
  BY <1>3, <1>8
<1>10. ToSet(f) \subseteq T
  BY <1>7 DEF ToSet
<1>11. ASSUME NEW x \in T PROVE x \in ToSet(f)
  <2>1. f \in Injection(1..Cardinality(T), T)
    BY <1>7 DEF Injection, IsInjective
  <2>2. IsFiniteSet(1..Cardinality(T)) /\ Cardinality(1..Cardinality(T)) = Cardinality(T)
    BY <1>5, FS_Interval
  <2>3. f \in Surjection(1..Cardinality(T), T)
    BY <1>2, <2>1, <2>2, FS_Injection
  <2>4. \E i \in 1..Cardinality(T) : f[i] = x
    BY <2>3 DEF Surjection
  <2> QED BY <1>7, <2>4 DEF ToSet
<1>12. Ordered(f)
  <2> SUFFICES ASSUME NEW i \in 1..Len(f), NEW j \in 1..Len(f), i < j PROVE Precedes(f[i], f[j])
    BY DEF Ordered
  <2>1. f[i] \in T /\ f[j] \in T /\ f[i] # f[j]
    BY <1>7, <1>8 DEF IsInjective
  <2>2. f[i].type = "settled" /\ f[j].type = "settled" /\ f[i].call # f[j].call
    BY <1>3, <1>4, <2>1
  <2> QED BY <2>2 DEF Precedes, IsEnd
<1> QED BY <1>9, <1>10, <1>11, <1>12 DEF Settling, f, T

\* How a step starts, if it has not.
LEMMA Starts ==
  ASSUME Shape
  PROVE  /\ Start \in Seq(StepEvent) /\ Ordered(Start)
         /\ ToSet(Start) = IF step.started THEN {} ELSE {Event("started")}
<1>1. Event("started") \in StepEvent
  BY Events DEF EventTypes
<1>2. CASE step.started
  BY <1>2, NoneOrOne DEF Start
<1>3. CASE ~step.started
  BY <1>1, <1>3, NoneOrOne DEF Start
<1> QED BY <1>2, <1>3

-----------------------------------------------------------------------------
(* What the attempt does to itself *)

\* It goes on, and publishes nothing.
LEMMA Goes ==
  ASSUME Shape, attempt.pc # "publishing", NEW pc \in Phases, GoTo(pc)
  PROVE  /\ attempt' \in Attempt /\ attempt'.pc = pc /\ attempt'.outbox = attempt.outbox /\ Phase' = pc
         /\ attempt'.call = attempt.call /\ attempt'.exit = attempt.exit /\ attempt'.cut = attempt.cut
         /\ attempt'.retry = attempt.retry /\ attempt'.outcome = attempt.outcome
<1>1. attempt' = [attempt EXCEPT !.pc = pc, !.then = None] /\ attempt \in Attempt /\ pc # "publishing"
  BY DEF GoTo, Shape, Phases
<1>2. attempt' \in Attempt
  BY <1>1 DEF Attempt
<1>3. /\ attempt'.pc = pc /\ attempt'.outbox = attempt.outbox
      /\ attempt'.call = attempt.call /\ attempt'.exit = attempt.exit /\ attempt'.cut = attempt.cut
      /\ attempt'.retry = attempt.retry /\ attempt'.outcome = attempt.outcome
  BY <1>1 DEF Attempt
<1> QED BY <1>1, <1>2, <1>3 DEF Phase

\* It returns.
LEMMA Returns ==
  ASSUME Shape, attempt.pc # "publishing", NEW outcome \in Outcomes, Return(outcome)
  PROVE  /\ attempt' \in Attempt /\ attempt'.pc = "returned" /\ attempt'.outbox = attempt.outbox
         /\ Phase' = "returned" /\ attempt'.outcome = outcome
         /\ attempt'.call = attempt.call /\ attempt'.exit = attempt.exit /\ attempt'.cut = attempt.cut
<1>1. attempt' = [attempt EXCEPT !.pc = "returned", !.outcome = outcome] /\ attempt \in Attempt
  BY DEF Return, Shape
<1>2. attempt' \in Attempt
  BY <1>1 DEF Attempt, Phases
<1>3. /\ attempt'.pc = "returned" /\ attempt'.outbox = attempt.outbox /\ attempt'.outcome = outcome
      /\ attempt'.call = attempt.call /\ attempt'.exit = attempt.exit /\ attempt'.cut = attempt.cut
  BY <1>1 DEF Attempt
<1> QED BY <1>2, <1>3 DEF Phase

\* It publishes.
LEMMA Publishes ==
  ASSUME Shape, NEW events \in Seq(StepEvent), NEW then \in Phases, Publish(events, then)
  PROVE  /\ attempt' \in Attempt /\ attempt'.pc = "publishing" /\ attempt'.outbox = events /\ Phase' = then
         /\ attempt'.call = attempt.call /\ attempt'.exit = attempt.exit /\ attempt'.cut = attempt.cut
         /\ attempt'.outcome = attempt.outcome
<1>1. /\ attempt' = [attempt EXCEPT !.pc = "publishing", !.outbox = events, !.then = then]
      /\ attempt \in Attempt
  BY DEF Publish, Shape
<1>2. attempt' \in Attempt
  BY <1>1 DEF Attempt
<1>3. /\ attempt'.pc = "publishing" /\ attempt'.outbox = events /\ attempt'.then = then
      /\ attempt'.call = attempt.call /\ attempt'.exit = attempt.exit /\ attempt'.cut = attempt.cut
      /\ attempt'.outcome = attempt.outcome
  BY <1>1 DEF Attempt
<1> QED BY <1>2, <1>3 DEF Phase

\* Who publishes nothing has nothing in its outbox.
LEMMA NothingToPublish ==
  ASSUME Shape, attempt.pc # "publishing"
  PROVE  /\ attempt.outbox = <<>> /\ Record = ToSet(log) /\ Phase = attempt.pc
         /\ \A x \in Record : x \in StepEvent
<1>1. attempt.outbox = <<>> /\ Phase = attempt.pc
  BY DEF Shape, Phase
<1>2. Record = ToSet(log)
  BY <1>1, NoneOrOne DEF Record
<1>3. log \in Seq(StepEvent)
  BY DEF Shape
<1>4. \A x \in ToSet(log) : x \in StepEvent
  BY <1>3 DEF ToSet
<1> QED BY <1>1, <1>2, <1>4

\* What is published may stand behind all that was recorded.
LEMMA RecordGrows ==
  ASSUME Shape, Sequenced, attempt.pc # "publishing", UNCHANGED log,
         NEW events \in Seq(StepEvent), Ordered(events), attempt'.outbox = events,
         \A x \in Record, y \in ToSet(events) : Precedes(x, y)
  PROVE  Sequenced' /\ Record' = Record \union ToSet(events)
<1>1. attempt.outbox = <<>> /\ Record = ToSet(log)
  BY NothingToPublish
<1>2. Sequenced'
  BY <1>1 DEF Sequenced
<1>3. Record' = Record \union ToSet(events)
  BY <1>1 DEF Record
<1> QED BY <1>2, <1>3

\* The record stays while neither the log nor the outbox change.
LEMMA RecordStays ==
  ASSUME Sequenced, UNCHANGED log, attempt'.outbox = attempt.outbox
  PROVE  Sequenced' /\ Record' = Record
BY DEF Sequenced, Record

\* A set of calls is settled.
LEMMA Marks ==
  ASSUME calls \in [Calls -> Call], NEW S, MarkSettled(S)
  PROVE  /\ calls' \in [Calls -> Call]
         /\ \A t \in Calls : /\ calls'[t].state = calls[t].state /\ calls'[t].hosted = calls[t].hosted
                             /\ calls'[t].settled <=> calls[t].settled \/ t \in S
<1>1. ASSUME NEW c \in Call, NEW b \in BOOLEAN
      PROVE  /\ [c EXCEPT !.settled = b] \in Call
             /\ [c EXCEPT !.settled = b].state = c.state /\ [c EXCEPT !.settled = b].hosted = c.hosted
             /\ [c EXCEPT !.settled = b].settled = b
  BY DEF Call
<1>2. ASSUME NEW t \in Calls
      PROVE  /\ calls'[t] \in Call
             /\ calls'[t].state = calls[t].state /\ calls'[t].hosted = calls[t].hosted
             /\ calls'[t].settled <=> calls[t].settled \/ t \in S
  <2>1. calls[t] \in Call /\ calls[t].settled \in BOOLEAN
    BY DEF Call
  <2>2. PICK b \in BOOLEAN : b = (calls[t].settled \/ t \in S)
    OBVIOUS
  <2>3. calls'[t] = [calls[t] EXCEPT !.settled = b]
    BY <2>2 DEF MarkSettled
  <2> QED BY <1>1, <2>1, <2>2, <2>3
<1>3. calls' = [t \in Calls |-> calls'[t]]
  BY DEF MarkSettled
<1> QED BY <1>2, <1>3

-----------------------------------------------------------------------------
(* Steps that change no mark *)

\* At first nothing is recorded and every call is unknown.
LEMMA InitStep == ASSUME StepInit PROVE StepInv
<1>1. /\ log = <<>> /\ captured = FALSE /\ interrupted = FALSE
      /\ step = [started |-> FALSE, output |-> FALSE, blocked |-> FALSE, failure |-> FALSE, finish |-> None]
      /\ attempt = [pc |-> "stream", then |-> None, outbox |-> <<>>, call |-> None, exit |-> None,
                    cut |-> FALSE, retry |-> FALSE, outcome |-> None]
      /\ calls = [t \in Calls |-> [state |-> "unknown", hosted |-> FALSE, settled |-> FALSE]]
      /\ fiber = [t \in Calls |-> None]
  BY DEF StepInit
<1>2. /\ step.started = FALSE /\ step.output = FALSE /\ step.blocked = FALSE /\ step \in Step
  BY <1>1 DEF Step
<1>3. /\ attempt.pc = "stream" /\ attempt.outbox = <<>> /\ attempt.exit = None /\ attempt \in Attempt
  BY <1>1, NoneOrOne DEF Attempt, Phases
<1>4. Phase = "stream"
  BY <1>3 DEF Phase
<1>5. \A t \in Calls : calls[t].state = "unknown" /\ calls[t].settled = FALSE /\ fiber[t] = None
  BY <1>1
<1>6. calls \in [Calls -> Call] /\ fiber \in [Calls -> {None, "running", "settling"} \union Ended]
  BY <1>1 DEF Call
<1>7. Record = {}
  BY <1>1, <1>3, NoneOrOne DEF Record
<1>8. Shape
  BY <1>1, <1>2, <1>3, <1>4, <1>6, NoneOrOne DEF Shape, Phases
<1>9. Sequenced
  BY <1>1, <1>3, NoneOrOne DEF Sequenced
<1>10. Contents
  BY <1>2, <1>5, <1>7 DEF Contents, StepRecord, CallRecord
<1>11. \A t \in Calls : CallOK(t)
  BY <1>5 DEF CallOK, None
<1>12. PhaseOK
  BY <1>2, <1>3, <1>4, <1>7 DEF PhaseOK, ForkOK, ExitOK, JoinOK, CloseOK, OutcomeOK, HasEnd, StreamExits, Failures, None
<1> QED BY <1>8, <1>9, <1>10, <1>11, <1>12 DEF StepInv

\* A step that only moves events from the outbox to the log, or not even that.
LEMMA NothingMarked ==
  ASSUME StepInv, UNCHANGED <<step, calls, fiber>>, Shape', Sequenced',
         Record' = Record, Phase' = Phase, ToSet(log) \subseteq ToSet(log'),
         attempt'.call = attempt.call, attempt'.exit = attempt.exit, attempt'.outcome = attempt.outcome
  PROVE  StepInv'
<1>1. Contents /\ (\A t \in Calls : CallOK(t)) /\ PhaseOK
  BY DEF StepInv
<1>2. Contents'
  BY <1>1 DEF Contents, StepRecord, CallRecord
<1>3. HasEnd' = HasEnd
  BY DEF HasEnd
<1>4. \A t \in Calls : CallOK(t)'
  BY <1>1 DEF CallOK
<1>5. PhaseOK'
  BY <1>1, <1>3 DEF PhaseOK, ForkOK, ExitOK, JoinOK, CloseOK, OutcomeOK, KnownSettled
<1> QED BY <1>2, <1>4, <1>5 DEF StepInv

\* The next event is published.
LEMMA PublishNextInv == ASSUME StepInv, PublishNext PROVE StepInv'
<1>1. /\ attempt.pc = "publishing" /\ attempt.outbox # <<>>
      /\ log' = Append(log, Head(attempt.outbox))
      /\ attempt' = [attempt EXCEPT !.outbox = Tail(@)]
      /\ UNCHANGED <<step, calls, fiber, captured, interrupted>>
      /\ Shape /\ Sequenced
  BY DEF StepInv, PublishNext, At
<1>2. attempt \in Attempt /\ log \in Seq(StepEvent) /\ attempt.outbox \in Seq(StepEvent)
  BY <1>1 DEF Shape, Attempt
<1>3. PICK s : s = attempt.outbox
  OBVIOUS
<1>4. s \in Seq(StepEvent) /\ s # <<>> /\ Len(s) \in Nat /\ Len(s) > 0
  BY <1>1, <1>2, <1>3
<1>5. /\ Head(s) \in StepEvent /\ Tail(s) \in Seq(StepEvent) /\ Len(Tail(s)) = Len(s) - 1
      /\ \A i \in 1..Len(Tail(s)) : Tail(s)[i] = s[i + 1]
      /\ Head(s) = s[1]
  BY <1>4, HeadTailProperties
<1>6. PICK x \in StepEvent, r \in Seq(StepEvent) : x = Head(s) /\ r = Tail(s)
  BY <1>5
<1>7. Len(r) \in Nat /\ Len(r) = Len(s) - 1 /\ s[1] = x /\ \A i \in 1..Len(r) : r[i] = s[i + 1] /\ i + 1 \in 1..Len(s)
  BY <1>4, <1>5, <1>6
<1>8. ToSet(s) = {x} \union ToSet(r)
  <2>1. ToSet(s) = {s[i] : i \in 1..Len(s)} /\ ToSet(r) = {r[i] : i \in 1..Len(r)}
    BY <1>4 DEF ToSet
  <2>2. ASSUME NEW i \in 1..Len(s) PROVE s[i] \in {x} \union ToSet(r)
    <3>1. CASE i = 1
      BY <1>7, <3>1
    <3>2. CASE i # 1
      <4>1. i - 1 \in 1..Len(r) /\ (i - 1) + 1 = i
        BY <1>4, <1>7, <3>2
      <4>2. r[i - 1] = s[i]
        BY <1>7, <4>1
      <4> QED BY <2>1, <4>1, <4>2
    <3> QED BY <3>1, <3>2
  <2>3. x \in ToSet(s) /\ \A i \in 1..Len(r) : r[i] \in ToSet(s)
    BY <1>4, <1>7, <2>1
  <2> QED BY <2>1, <2>2, <2>3
<1>9. Ordered(s) /\ \A y \in ToSet(log), z \in ToSet(s) : Precedes(y, z)
  BY <1>1, <1>3 DEF Sequenced
<1>10. Ordered(r) /\ \A z \in ToSet(r) : Precedes(x, z)
  <2>1. ASSUME NEW i \in 1..Len(r), NEW j \in 1..Len(r), i < j PROVE Precedes(r[i], r[j])
    <3>1. i + 1 \in 1..Len(s) /\ j + 1 \in 1..Len(s) /\ i + 1 < j + 1 /\ r[i] = s[i + 1] /\ r[j] = s[j + 1]
      BY <1>7, <2>1
    <3>2. Precedes(s[i + 1], s[j + 1])
      BY <1>9, <3>1 DEF Ordered
    <3> QED BY <3>1, <3>2
  <2>2. ASSUME NEW i \in 1..Len(r) PROVE Precedes(x, r[i])
    <3>1. i + 1 \in 1..Len(s) /\ 1 \in 1..Len(s) /\ 1 < i + 1 /\ r[i] = s[i + 1] /\ x = s[1]
      BY <1>4, <1>7
    <3>2. Precedes(s[1], s[i + 1])
      BY <1>9, <3>1 DEF Ordered
    <3> QED BY <3>1, <3>2
  <2>3. ToSet(r) = {r[i] : i \in 1..Len(r)}
    BY DEF ToSet
  <2> QED BY <2>1, <2>2, <2>3 DEF Ordered
<1>11. log' = log \o <<x>> /\ <<x>> \in Seq(StepEvent) /\ ToSet(<<x>>) = {x} /\ Ordered(<<x>>)
  BY <1>1, <1>2, <1>3, <1>6, AppendIsConcat, NoneOrOne
<1>12. log' \in Seq(StepEvent) /\ ToSet(log') = ToSet(log) \union {x}
  <2>1. log \o <<x>> \in Seq(StepEvent) /\ ToSet(log \o <<x>>) = ToSet(log) \union ToSet(<<x>>)
    BY <1>2, <1>11, ContentsOfConcat
  <2> QED BY <1>11, <2>1
<1>13. Ordered(log')
  BY <1>1, <1>2, <1>8, <1>9, <1>11, OrderedConcat DEF Sequenced
<1>14. /\ attempt' \in Attempt /\ attempt'.outbox = r /\ attempt'.pc = "publishing" /\ attempt'.then = attempt.then
       /\ attempt'.call = attempt.call /\ attempt'.exit = attempt.exit /\ attempt'.outcome = attempt.outcome
  <2>1. attempt' = [attempt EXCEPT !.outbox = r]
    BY <1>1, <1>3, <1>6
  <2> QED BY <1>1, <1>2, <2>1 DEF Attempt
<1>15. Phase' = Phase
  BY <1>1, <1>14 DEF Phase
<1>16. Sequenced'
  BY <1>8, <1>9, <1>10, <1>12, <1>13, <1>14 DEF Sequenced
<1>17. Record' = Record
  BY <1>3, <1>8, <1>12, <1>14 DEF Record
<1>18. Shape'
  BY <1>1, <1>12, <1>14, <1>15 DEF Shape
<1> QED BY <1>1, <1>12, <1>14, <1>15, <1>16, <1>17, <1>18, NothingMarked

\* All is published.
LEMMA PublishedInv == ASSUME StepInv, Published PROVE StepInv'
<1>1. /\ attempt.pc = "publishing" /\ attempt.outbox = <<>> /\ GoTo(attempt.then)
      /\ UNCHANGED <<log, step, calls, fiber, captured, interrupted>>
      /\ Shape /\ Sequenced
  BY DEF StepInv, Published, At
<1>2. attempt \in Attempt /\ attempt.then \in Phases /\ attempt.then # "publishing"
  BY <1>1 DEF Shape, Phase, Phases
<1>3. /\ attempt' \in Attempt /\ attempt'.pc = attempt.then /\ attempt'.outbox = <<>>
      /\ attempt'.call = attempt.call /\ attempt'.exit = attempt.exit /\ attempt'.outcome = attempt.outcome
  <2>1. attempt' = [attempt EXCEPT !.pc = attempt.then, !.then = None]
    BY <1>1 DEF GoTo
  <2> QED BY <1>1, <1>2, <2>1 DEF Attempt
<1>4. Phase' = Phase
  BY <1>1, <1>2, <1>3 DEF Phase
<1>5. Sequenced' /\ Record' = Record
  BY <1>1, <1>3, RecordStays
<1>6. Shape'
  BY <1>1, <1>3, <1>4 DEF Shape
<1> QED BY <1>1, <1>3, <1>4, <1>5, <1>6, NothingMarked

\* A snapshot, an interrupt, or nothing.
LEMMA EnvironmentInv ==
  ASSUME StepInv, Capture \/ Interrupt \/ UNCHANGED stepVars
  PROVE  StepInv'
<1>1. UNCHANGED <<log, step, calls, fiber, attempt>> /\ captured' \in BOOLEAN /\ interrupted' \in BOOLEAN
  BY DEF StepInv, Shape, Capture, Interrupt, stepVars
<1>2. Shape'
  BY <1>1 DEF StepInv, Shape, Phase
<1>3. Sequenced' /\ Record' = Record
  BY <1>1, RecordStays DEF StepInv
<1>4. Phase' = Phase
  BY <1>1 DEF Phase
<1> QED BY <1>1, <1>2, <1>3, <1>4, NothingMarked

-----------------------------------------------------------------------------
(* The attempt goes on after the stream, and publishes nothing *)

\* What an attempt that goes on, or returns, keeps.
LEMMA Advances ==
  ASSUME StepInv, attempt.pc # "publishing", Phase \notin {"stream", "forking"},
         UNCHANGED <<log, step, calls, fiber, captured, interrupted>>,
         attempt' \in Attempt, attempt'.pc # "publishing", attempt'.pc \notin {"stream", "forking"},
         attempt'.outbox = attempt.outbox, attempt'.exit = attempt.exit
  PROVE  /\ JoinOK' /\ CloseOK' /\ OutcomeOK' => StepInv'
         /\ Phase' = attempt'.pc /\ HasEnd' = HasEnd /\ KnownSettled' = KnownSettled
<1>1. Phase' = attempt'.pc /\ Phase' \in Phases
  BY DEF Phase, Attempt
<1>2. Sequenced' /\ Record' = Record
  BY RecordStays DEF StepInv
<1>3. HasEnd' = HasEnd /\ KnownSettled' = KnownSettled
  BY <1>2 DEF HasEnd, KnownSettled
<1>4. attempt.outbox = <<>> /\ Shape
  BY DEF StepInv, Shape
<1>5. Shape'
  BY <1>1, <1>4 DEF Shape
<1>6. Contents'
  BY <1>2 DEF StepInv, Contents, StepRecord, CallRecord
<1>7. \A t \in Calls : CallOK(t)'
  BY <1>1 DEF StepInv, CallOK
<1>8. ForkOK' /\ ExitOK'
  BY <1>1 DEF StepInv, PhaseOK, ForkOK, ExitOK
<1> QED BY <1>1, <1>2, <1>3, <1>5, <1>6, <1>7, <1>8 DEF StepInv, PhaseOK

\* The attempt waits for its tools, or stops them.
LEMMA JoinInv == ASSUME StepInv, Join PROVE StepInv'
<1>1. /\ attempt.pc = "joining" /\ Shape /\ UNCHANGED <<log, step, calls, fiber, captured, interrupted>>
  BY DEF StepInv, Join, At
<1>2. Phase = "joining"
  BY <1>1 DEF Phase
<1>3. PICK pc \in {"stopping", "joined"} : GoTo(pc) /\ (pc = "joined" => ToolsEnded)
  BY DEF Join
<1>4. /\ attempt' \in Attempt /\ attempt'.pc = pc /\ attempt'.outbox = attempt.outbox /\ Phase' = pc
      /\ attempt'.exit = attempt.exit
  BY <1>1, <1>3, Goes DEF Phases
<1>5. (JoinOK' /\ CloseOK' /\ OutcomeOK' => StepInv') /\ HasEnd' = HasEnd
  BY <1>1, <1>2, <1>3, <1>4, Advances
<1>6. JoinOK'
  BY <1>1, <1>3, <1>4 DEF JoinOK, ToolsEnded
<1>7. ~HasEnd
  BY <1>2 DEF StepInv, PhaseOK, CloseOK
<1>8. CloseOK' /\ OutcomeOK'
  BY <1>3, <1>4, <1>5, <1>7 DEF CloseOK, OutcomeOK
<1> QED BY <1>5, <1>6, <1>8

\* The interrupted tools have ended.
LEMMA StoppedInv == ASSUME StepInv, Stopped PROVE StepInv'
<1>1. /\ attempt.pc = "stopping" /\ Shape /\ UNCHANGED <<log, step, calls, fiber, captured, interrupted>>
      /\ ToolsEnded /\ attempt' = [attempt EXCEPT !.pc = "joined", !.cut = TRUE] /\ attempt \in Attempt
  BY DEF StepInv, Stopped, At, Shape
<1>2. Phase = "stopping"
  BY <1>1 DEF Phase
<1>3. /\ attempt' \in Attempt /\ attempt'.pc = "joined" /\ attempt'.outbox = attempt.outbox
      /\ attempt'.exit = attempt.exit
  BY <1>1 DEF Attempt, Phases
<1>4. (JoinOK' /\ CloseOK' /\ OutcomeOK' => StepInv') /\ Phase' = "joined" /\ HasEnd' = HasEnd
  BY <1>1, <1>2, <1>3, Advances
<1>5. JoinOK'
  BY <1>1 DEF JoinOK, ToolsEnded
<1>6. ~HasEnd
  BY <1>2 DEF StepInv, PhaseOK, CloseOK
<1>7. CloseOK' /\ OutcomeOK'
  BY <1>4, <1>6 DEF CloseOK, OutcomeOK
<1> QED BY <1>4, <1>5, <1>7

\* An overflow without output is compacted, anything else is judged.
LEMMA OverflowInv == ASSUME StepInv, Overflow PROVE StepInv'
<1>1. /\ attempt.pc = "joined" /\ Shape /\ UNCHANGED <<log, step, calls, fiber, captured, interrupted>>
  BY DEF StepInv, Overflow, At
<1>2. Phase = "joined"
  BY <1>1 DEF Phase
<1>3. PICK pc \in {"compacting", "judging"} : GoTo(pc) /\ (pc = "compacting" => ~step.output)
  BY DEF Overflow
<1>4. /\ attempt' \in Attempt /\ attempt'.pc = pc /\ attempt'.outbox = attempt.outbox /\ Phase' = pc
      /\ attempt'.exit = attempt.exit
  BY <1>1, <1>3, Goes DEF Phases
<1>5. (JoinOK' /\ CloseOK' /\ OutcomeOK' => StepInv') /\ HasEnd' = HasEnd
  BY <1>1, <1>2, <1>3, <1>4, Advances
<1>6. JoinOK'
  BY <1>1, <1>2 DEF StepInv, PhaseOK, JoinOK
<1>7. ~HasEnd
  BY <1>2 DEF StepInv, PhaseOK, CloseOK
<1>8. CloseOK' /\ OutcomeOK'
  BY <1>1, <1>3, <1>4, <1>5, <1>7 DEF CloseOK, OutcomeOK
<1> QED BY <1>5, <1>6, <1>8

\* An attempt that returns before it settles was struck, or is repeated in silence.
LEMMA ReturnsEarly ==
  ASSUME StepInv, attempt.pc \in {"compacting", "judging", "deciding"},
         UNCHANGED <<log, step, calls, fiber, captured, interrupted>>,
         NEW outcome \in {"struck"} \union Again, Return(outcome), outcome \in Again => ~step.output
  PROVE  StepInv'
<1>1. Shape /\ Phase = attempt.pc /\ attempt.pc # "publishing"
  BY DEF StepInv, Phase
<1>2. /\ attempt' \in Attempt /\ attempt'.pc = "returned" /\ attempt'.outbox = attempt.outbox
      /\ Phase' = "returned" /\ attempt'.outcome = outcome /\ attempt'.exit = attempt.exit
  BY <1>1, Returns DEF Outcomes
<1>3. (JoinOK' /\ CloseOK' /\ OutcomeOK' => StepInv') /\ HasEnd' = HasEnd
  BY <1>1, <1>2, Advances
<1>4. JoinOK'
  BY <1>1 DEF StepInv, PhaseOK, JoinOK
<1>5. ~HasEnd
  BY <1>1 DEF StepInv, PhaseOK, CloseOK
<1>6. CloseOK'
  BY <1>2, <1>3, <1>5 DEF CloseOK
<1>7. OutcomeOK'
  BY <1>2, <1>3, <1>5 DEF OutcomeOK, Outcomes, Again
<1> QED BY <1>3, <1>4, <1>6, <1>7

\* An attempt goes on to be judged, or to settle.
LEMMA GoesOn ==
  ASSUME StepInv, attempt.pc \in {"compacting", "judging", "deciding"},
         UNCHANGED <<log, step, calls, fiber, captured, interrupted>>,
         NEW pc \in {"judging", "deciding", "settling"}, attempt' \in Attempt, attempt'.pc = pc,
         attempt'.outbox = attempt.outbox, attempt'.exit = attempt.exit
  PROVE  StepInv'
<1>1. Shape /\ Phase = attempt.pc /\ attempt.pc # "publishing"
  BY DEF StepInv, Phase
<1>2. (JoinOK' /\ CloseOK' /\ OutcomeOK' => StepInv') /\ HasEnd' = HasEnd /\ Phase' = pc
  BY <1>1, Advances
<1>3. JoinOK'
  BY <1>1 DEF StepInv, PhaseOK, JoinOK
<1>4. ~HasEnd
  BY <1>1 DEF StepInv, PhaseOK, CloseOK
<1>5. CloseOK' /\ OutcomeOK'
  BY <1>2, <1>4 DEF CloseOK, OutcomeOK
<1> QED BY <1>2, <1>3, <1>5

\* A compaction is struck, repeats the attempt, or does not help.
LEMMA CompactsInv == ASSUME StepInv, Compacts PROVE StepInv'
<1>1. /\ attempt.pc = "compacting" /\ Shape /\ UNCHANGED <<log, step, calls, fiber, captured, interrupted>>
  BY DEF StepInv, Compacts, At
<1>2. ~step.output
  BY <1>1 DEF StepInv, PhaseOK, CloseOK, Phase
<1>3. CASE Return("struck")
  BY <1>1, <1>2, <1>3, ReturnsEarly
<1>4. CASE Return("Compacted")
  BY <1>1, <1>2, <1>4, ReturnsEarly DEF Again
<1>5. CASE GoTo("judging")
  <2>1. /\ attempt' \in Attempt /\ attempt'.pc = "judging" /\ attempt'.outbox = attempt.outbox
        /\ attempt'.exit = attempt.exit
    BY <1>1, <1>5, Goes DEF Phases
  <2> QED BY <1>1, <2>1, GoesOn
<1> QED BY <1>3, <1>4, <1>5 DEF Compacts

\* A rejected continuation is repeated, a provider's failure is decided on.
LEMMA JudgeInv == ASSUME StepInv, Judge PROVE StepInv'
<1>1. /\ attempt.pc = "judging" /\ Shape /\ UNCHANGED <<log, step, calls, fiber, captured, interrupted>>
  BY DEF StepInv, Judge, At
<1>2. CASE ~step.output /\ Return("RecoverFull")
  BY <1>1, <1>2, ReturnsEarly DEF Again
<1>3. CASE \E pc \in {"deciding", "settling"} : GoTo(pc)
  <2>1. PICK pc \in {"deciding", "settling"} : GoTo(pc)
    BY <1>3
  <2>2. /\ attempt' \in Attempt /\ attempt'.pc = pc /\ attempt'.outbox = attempt.outbox
        /\ attempt'.exit = attempt.exit
    BY <1>1, <2>1, Goes DEF Phases
  <2> QED BY <1>1, <2>2, GoesOn
<1> QED BY <1>2, <1>3 DEF Judge

\* What the attempt returns when it leaves: nothing that goes on after a decline.
LEMMA LeaveInv == ASSUME StepInv, Leave PROVE StepInv'
<1>1. /\ attempt.pc = "leaving" /\ Shape /\ UNCHANGED <<log, step, calls, fiber, captured, interrupted>>
  BY DEF StepInv, Leave, At
<1>2. Phase = "leaving" /\ attempt.exit \in StreamExits
  BY <1>1 DEF Phase, StepInv, PhaseOK, ExitOK
<1>3. \E outcome \in Outcomes \ (Again \union {"struck", "unrecorded"}) :
        /\ Return(outcome)
        /\ outcome \in {"Continue", "Completed", "OutputLimit"} => \A t \in Calls : fiber[t] # "declined"
  <2> DEFINE R(o) == /\ Return(o)
                     /\ o \in Outcomes \ (Again \union {"struck", "unrecorded"})
                     /\ o \in {"Continue", "Completed", "OutputLimit"} => \A t \in Calls : fiber[t] # "declined"
  <2>1. CASE Continues
    <3>1. \A t \in Calls : fiber[t] # "declined"
      BY <2>1 DEF Continues, Declined, ToolsInterrupted
    <3>2. Return("Continue")
      BY <2>1 DEF Leave
    <3>3. R("Continue")
      BY <3>1, <3>2 DEF Outcomes, Again
    <3> QED BY <3>3
  <2>2. CASE ~Continues /\ attempt.exit # "success"
    <3>1. Return(IF attempt.exit \in Failures THEN "failed" ELSE attempt.exit)
      BY <2>2 DEF Leave
    <3>2. (IF attempt.exit \in Failures THEN "failed" ELSE attempt.exit) \in {"failed", "interrupted", "defect"}
      BY <1>2, <2>2 DEF StreamExits
    <3>3. R(IF attempt.exit \in Failures THEN "failed" ELSE attempt.exit)
      BY <3>1, <3>2 DEF Outcomes, Again
    <3> QED BY <3>3
  <2>3. CASE ~Continues /\ attempt.exit = "success" /\ Declined # {}
    <3>1. Return("HandedOver") \/ Return("interrupted")
      BY <2>3 DEF Leave
    <3>2. R("HandedOver") \/ R("interrupted")
      BY <3>1 DEF Outcomes, Again
    <3> QED BY <3>2
  <2>4. CASE ~Continues /\ attempt.exit = "success" /\ Declined = {} /\ attempt.cut
    <3>1. Return("interrupted")
      BY <2>4 DEF Leave
    <3>2. R("interrupted")
      BY <3>1 DEF Outcomes, Again
    <3> QED BY <3>2
  <2>5. CASE ~Continues /\ attempt.exit = "success" /\ Declined = {} /\ ~attempt.cut
    <3>1. \A t \in Calls : fiber[t] # "declined"
      BY <2>5 DEF Declined
    <3>2. Return("defect") \/ Return("failed") \/ Return("OutputLimit") \/ Return("Completed")
      BY <2>5 DEF Leave
    <3>3. R("defect") \/ R("failed") \/ R("OutputLimit") \/ R("Completed")
      BY <3>1, <3>2 DEF Outcomes, Again
    <3> QED BY <3>3
  <2> QED BY <2>1, <2>2, <2>3, <2>4, <2>5
<1>4. PICK outcome \in Outcomes \ (Again \union {"struck", "unrecorded"}) :
        /\ Return(outcome)
        /\ outcome \in {"Continue", "Completed", "OutputLimit"} => \A t \in Calls : fiber[t] # "declined"
  BY <1>3
<1>5. /\ attempt' \in Attempt /\ attempt'.pc = "returned" /\ attempt'.outbox = attempt.outbox
      /\ Phase' = "returned" /\ attempt'.outcome = outcome /\ attempt'.exit = attempt.exit
  BY <1>1, <1>4, Returns
<1>6. /\ JoinOK' /\ CloseOK' /\ OutcomeOK' => StepInv'
      /\ HasEnd' = HasEnd /\ KnownSettled' = KnownSettled
  BY <1>1, <1>2, <1>5, Advances
<1>7. JoinOK'
  BY <1>1, <1>2 DEF StepInv, PhaseOK, JoinOK
<1>8. CloseOK'
  BY <1>5 DEF CloseOK
<1>9. attempt.exit # "defect" => KnownSettled /\ HasEnd
  BY <1>2 DEF StepInv, PhaseOK, CloseOK
<1>10. OutcomeOK'
  BY <1>1, <1>4, <1>5, <1>6, <1>9 DEF OutcomeOK
<1> QED BY <1>6, <1>7, <1>8, <1>10

-----------------------------------------------------------------------------
(* The tool fibers *)

\* While a tool runs or publishes, the attempt does not judge: a step of the tool
\* keeps what the phase promises.
LEMMA PhaseKept ==
  ASSUME StepInv, UNCHANGED <<step, attempt>>, HasEnd' = HasEnd, NEW t \in Calls,
         fiber[t] \in {"running", "settling"}, NEW end \in {"settling"} \union Ended,
         fiber' = [fiber EXCEPT ![t] = end],
         \A u \in Calls : calls'[u].state = calls[u].state /\ calls'[u].hosted = calls[u].hosted
  PROVE  PhaseOK' /\ Phase' = Phase /\ \A u \in Calls : fiber'[u] = IF u = t THEN end ELSE fiber[u]
<1>1. Shape /\ PhaseOK /\ fiber \in [Calls -> {None, "running", "settling"} \union Ended]
  BY DEF StepInv, Shape
<1>2. Phase' = Phase
  BY DEF Phase
<1>3. \A u \in Calls : fiber'[u] = IF u = t THEN end ELSE fiber[u]
  BY <1>1
<1>4. fiber[t] \notin Ended \union {None}
  BY DEF Ended, None
<1>5. Phase \notin {"joined", "compacting", "judging", "deciding", "settling", "closing", "leaving", "returned"}
  BY <1>1, <1>4 DEF PhaseOK, JoinOK
<1>6. JoinOK' /\ CloseOK' /\ OutcomeOK'
  BY <1>1, <1>2, <1>5 DEF PhaseOK, JoinOK, CloseOK, OutcomeOK
<1>7. ExitOK'
  BY <1>1, <1>2 DEF PhaseOK, ExitOK
<1>8. ForkOK'
  <2> SUFFICES ASSUME Phase = "forking"
               PROVE  /\ attempt.call \in Calls
                      /\ calls'[attempt.call].state = "called" /\ ~calls'[attempt.call].hosted
                      /\ fiber'[attempt.call] = None
    BY <1>2 DEF ForkOK
  <2>1. /\ attempt.call \in Calls
        /\ calls[attempt.call].state = "called" /\ ~calls[attempt.call].hosted /\ fiber[attempt.call] = None
    BY <1>1 DEF PhaseOK, ForkOK
  <2>2. attempt.call # t
    BY <1>4, <2>1
  <2> QED BY <1>3, <2>1, <2>2
<1> QED BY <1>2, <1>3, <1>6, <1>7, <1>8 DEF PhaseOK

\* A tool gives up, or is interrupted: nothing settles its call yet.
LEMMA ToolEndsInv ==
  ASSUME StepInv, NEW t \in Calls, ToolGivesUp(t) \/ ToolInterrupted(t)
  PROVE  StepInv'
<1>1. /\ fiber[t] = "running" /\ UNCHANGED <<log, step, calls, attempt, captured, interrupted>>
      /\ \E end \in {"declined", "died", "interrupted"} : fiber' = [fiber EXCEPT ![t] = end]
  BY DEF ToolGivesUp, ToolInterrupted, InterruptibleTool
<1>2. PICK end \in {"declined", "died", "interrupted"} : fiber' = [fiber EXCEPT ![t] = end]
  BY <1>1
<1>3. Sequenced' /\ Record' = Record /\ HasEnd' = HasEnd
  BY <1>1, RecordStays DEF StepInv, HasEnd
<1>4. PhaseOK' /\ Phase' = Phase /\ \A u \in Calls : fiber'[u] = IF u = t THEN end ELSE fiber[u]
  BY <1>1, <1>2, <1>3, PhaseKept DEF Ended
<1>5. Shape'
  BY <1>1, <1>2, <1>4 DEF StepInv, Shape, Ended
<1>6. Contents'
  BY <1>1, <1>3, <1>4 DEF StepInv, Contents, StepRecord, CallRecord
<1>7. ASSUME NEW u \in Calls PROVE CallOK(u)'
  <2>1. CallOK(u)
    BY DEF StepInv
  <2>2. CASE u = t
    BY <1>1, <1>4, <2>1, <2>2 DEF CallOK, None
  <2>3. CASE u # t
    BY <1>1, <1>4, <2>1, <2>3 DEF CallOK
  <2> QED BY <2>2, <2>3
<1> QED BY <1>3, <1>4, <1>5, <1>6, <1>7 DEF StepInv

\* A tool returns: its call is settled in memory, and not in the record.
LEMMA ToolReturnsInv ==
  ASSUME StepInv, NEW t \in Calls, ToolReturns(t)
  PROVE  StepInv'
<1>1. /\ fiber[t] = "running" /\ ~calls[t].settled /\ MarkSettled({t})
      /\ fiber' = [fiber EXCEPT ![t] = "settling"]
      /\ UNCHANGED <<log, step, attempt, captured, interrupted>>
      /\ calls \in [Calls -> Call] /\ Shape
  BY DEF ToolReturns, StepInv, Shape
<1>2. /\ calls' \in [Calls -> Call]
      /\ \A u \in Calls : /\ calls'[u].state = calls[u].state /\ calls'[u].hosted = calls[u].hosted
                          /\ calls'[u].settled <=> calls[u].settled \/ u \in {t}
  BY <1>1, Marks
<1>3. Sequenced' /\ Record' = Record /\ HasEnd' = HasEnd
  BY <1>1, RecordStays DEF StepInv, HasEnd
<1>4. PhaseOK' /\ Phase' = Phase /\ \A u \in Calls : fiber'[u] = IF u = t THEN "settling" ELSE fiber[u]
  <2>1. \A u \in Calls : calls'[u].state = calls[u].state /\ calls'[u].hosted = calls[u].hosted
    BY <1>2
  <2>2. /\ UNCHANGED <<step, attempt>> /\ fiber[t] \in {"running", "settling"}
        /\ fiber' = [fiber EXCEPT ![t] = "settling"] /\ HasEnd' = HasEnd
    BY <1>1, <1>3
  <2> QED BY ONLY StepInv, t \in Calls, <2>1, <2>2, PhaseKept
<1>5. Shape'
  BY <1>1, <1>2, <1>4 DEF Shape
<1>6. calls[t].state = "called"
  BY <1>1 DEF StepInv, CallOK, None
<1>7. StepRecord'
  BY <1>1, <1>3 DEF StepInv, Contents, StepRecord
<1>8. ASSUME NEW u \in Calls PROVE CallRecord(u)' /\ CallOK(u)'
  <2>1. CallOK(u) /\ CallRecord(u)
    BY DEF StepInv, Contents
  <2>2. CASE u = t
    <3>1. calls'[u].state = calls[u].state /\ calls'[u].settled /\ fiber'[u] = "settling"
          /\ calls'[u].hosted = calls[u].hosted
      BY <1>2, <1>4, <2>2
    <3>2. CallRecord(u)'
      BY <1>1, <1>3, <2>1, <2>2, <3>1 DEF CallRecord
    <3>3. CallOK(u)'
      BY <1>1, <1>6, <2>1, <2>2, <3>1 DEF CallOK, None
    <3> QED BY <3>2, <3>3
  <2>3. CASE u # t
    <3>1. /\ calls'[u].state = calls[u].state /\ calls'[u].hosted = calls[u].hosted
          /\ calls'[u].settled <=> calls[u].settled
          /\ fiber'[u] = fiber[u]
      BY <1>2, <1>4, <2>3
    <3>2. CallRecord(u)'
      BY <1>3, <2>1, <3>1 DEF CallRecord
    <3>3. CallOK(u)'
      BY <1>1, <1>4, <2>1, <3>1 DEF CallOK
    <3> QED BY <3>2, <3>3
  <2> QED BY <2>2, <2>3
<1> QED BY <1>3, <1>4, <1>5, <1>7, <1>8 DEF StepInv, Contents

\* A tool publishes its result between the attempt's events.
LEMMA ToolPublishesInv ==
  ASSUME StepInv, NEW t \in Calls, ToolPublishes(t)
  PROVE  StepInv'
<1>1. /\ fiber[t] = "settling" /\ log' = Append(log, Of("settled", t))
      /\ fiber' = [fiber EXCEPT ![t] = "success"]
      /\ UNCHANGED <<step, calls, attempt, captured, interrupted>>
      /\ Shape /\ Sequenced /\ log \in Seq(StepEvent) /\ attempt.outbox \in Seq(StepEvent)
  BY DEF ToolPublishes, StepInv, Shape, Attempt
<1>2. CallOK(t) /\ CallRecord(t) /\ StepRecord
  BY DEF StepInv, Contents
<1>3. calls[t].settled /\ calls[t].state = "called" /\ Of("called", t) \in ToSet(log)
  BY <1>1, <1>2 DEF CallOK, None
<1>4. Of("settled", t) \notin Record
  BY <1>1, <1>2 DEF CallRecord
<1>5. PICK x \in StepEvent : x = Of("settled", t) /\ x.type = "settled" /\ x.call = t
  BY Events DEF EventTypes
<1>6. PICK c \in StepEvent : c = Of("called", t) /\ c.type = "called" /\ c.call = t
  BY Events DEF EventTypes
<1>7. \A y \in Record : y \in StepEvent
  BY <1>1 DEF Record, ToSet
<1>8. Phase \notin {"leaving", "returned"}
  BY <1>1 DEF StepInv, PhaseOK, JoinOK, Ended, None
<1>9. ~HasEnd
  BY <1>8 DEF StepInv, PhaseOK, CloseOK
<1>10. ASSUME NEW y \in ToSet(log) PROVE Precedes(y, x)
  <2>1. y \in Record /\ y \in StepEvent /\ ~IsEnd(y)
    BY <1>7, <1>9 DEF Record, HasEnd
  <2>2. y.call = t => y.type # "settled"
    BY <1>4, <2>1 DEF Of, StepEvent
  <2> QED BY <1>5, <2>1, <2>2 DEF Precedes, CallTypes, CallOrder
<1>11. ASSUME NEW y \in ToSet(attempt.outbox) PROVE Precedes(x, y)
  <2>1. y \in Record /\ y \in StepEvent
    BY <1>7 DEF Record
  <2>2. Precedes(c, y)
    BY <1>1, <1>3, <1>6 DEF Sequenced
  <2>3. y.type # "started"
    BY <2>2 DEF Precedes
  <2>4. y.call = t => y.type \notin CallTypes
    <3>1. y.call = t /\ y.type \in CallTypes => y.type = "settled"
      BY <1>6, <2>2 DEF Precedes, CallTypes, CallOrder
    <3>2. y.call = t => y.type # "settled"
      BY <1>4, <2>1 DEF Of, StepEvent
    <3> QED BY <3>1, <3>2
  <2> QED BY <1>5, <2>3, <2>4 DEF Precedes, IsEnd
<1>12. log' = log \o <<x>> /\ <<x>> \in Seq(StepEvent) /\ ToSet(<<x>>) = {x} /\ Ordered(<<x>>)
  BY <1>1, <1>5, AppendIsConcat, NoneOrOne
<1>13. log' \in Seq(StepEvent) /\ ToSet(log') = ToSet(log) \union {x}
  <2>1. log \o <<x>> \in Seq(StepEvent) /\ ToSet(log \o <<x>>) = ToSet(log) \union ToSet(<<x>>)
    BY <1>1, <1>12, ContentsOfConcat
  <2> QED BY <1>12, <2>1
<1>14. Ordered(log')
  BY <1>1, <1>10, <1>12, OrderedConcat DEF Sequenced
<1>15. Sequenced' /\ Record' = Record \union {x}
  BY <1>1, <1>11, <1>13, <1>14 DEF Sequenced, Record
<1>16. HasEnd' = HasEnd
  BY <1>5, <1>15 DEF HasEnd, IsEnd
<1>17. PhaseOK' /\ Phase' = Phase /\ \A u \in Calls : fiber'[u] = IF u = t THEN "success" ELSE fiber[u]
  BY <1>1, <1>16, PhaseKept DEF Ended
<1>18. Shape'
  BY <1>1, <1>13, <1>17 DEF Shape, Ended
<1>19. StepRecord'
  <2>1. x # Event("started") /\ x.type # "started" /\ x.type # "text" /\ x.call \in Calls
    BY <1>5 DEF Event, Of
  <2>2. step.started
    BY <1>2, <1>3 DEF StepRecord, Record
  <2> QED BY <1>1, <1>2, <1>15, <2>1, <2>2 DEF StepRecord
<1>20. ASSUME NEW u \in Calls PROVE CallRecord(u)' /\ CallOK(u)'
  <2>1. CallOK(u) /\ CallRecord(u)
    BY DEF StepInv, Contents
  <2>2. CASE u = t
    <3>1. fiber'[u] = "success" /\ Of("settled", u) \in Record'
      BY <1>5, <1>15, <1>17, <2>2
    <3>2. x # Of("input", u) /\ x # Of("called", u)
      BY <1>5 DEF Of
    <3>3. CallRecord(u)'
      BY <1>1, <1>3, <1>15, <2>1, <2>2, <3>1, <3>2 DEF CallRecord
    <3>4. CallOK(u)'
      BY <1>1, <1>3, <1>13, <1>17, <2>1, <2>2, <3>1 DEF CallOK, None
    <3> QED BY <3>3, <3>4
  <2>3. CASE u # t
    <3>1. fiber'[u] = fiber[u]
      BY <1>17, <2>3
    <3>2. x # Of("input", u) /\ x # Of("called", u) /\ x # Of("settled", u)
      BY <1>5, <2>3 DEF Of
    <3>3. CallRecord(u)'
      BY <1>1, <1>15, <2>1, <3>1, <3>2 DEF CallRecord
    <3>4. CallOK(u)'
      BY <1>1, <1>13, <1>17, <2>1, <3>1 DEF CallOK
    <3> QED BY <3>3, <3>4
  <2> QED BY <2>2, <2>3
<1> QED BY <1>15, <1>17, <1>18, <1>19, <1>20 DEF StepInv, Contents

-----------------------------------------------------------------------------
(* What may be published *)

\* An event that is not in the record, and whose call has not gone further, may
\* follow all that is recorded.
LEMMA MayFollow ==
  ASSUME Shape, StepRecord, ~HasEnd, NEW y \in StepEvent,
         y.type = "started" => ~step.started,
         y.type = "input" => \A type \in CallTypes : Of(type, y.call) \notin Record,
         y.type = "called" => Of("called", y.call) \notin Record /\ Of("settled", y.call) \notin Record,
         y.type = "settled" => Of("settled", y.call) \notin Record,
         NEW x \in Record
  PROVE  Precedes(x, y)
<1>1. x \in StepEvent /\ ~IsEnd(x)
  BY DEF Shape, Attempt, Record, ToSet, HasEnd
<1>2. y.type # "started"
  BY DEF StepRecord
<1>3. ASSUME x.call = y.call, x.type \in CallTypes, y.type \in CallTypes
      PROVE  <<x.type, y.type>> \in CallOrder
  <2>1. x = Of(x.type, y.call)
    BY <1>1, <1>3 DEF Of, StepEvent
  <2>2. y.type # "input"
    BY <1>3, <2>1
  <2>3. y.type = "called" => x.type = "input"
    BY <1>3, <2>1 DEF CallTypes
  <2>4. y.type = "settled" => x.type \in {"input", "called"}
    BY <1>3, <2>1 DEF CallTypes
  <2> QED BY <1>3, <2>2, <2>3, <2>4 DEF CallTypes, CallOrder
<1> QED BY <1>1, <1>2, <1>3 DEF Precedes

\* What follows the start of the step.
LEMMA StartsWith ==
  ASSUME Shape, NEW x \in StepEvent, x.type # "started"
  PROVE  /\ Start \o <<x>> \in Seq(StepEvent) /\ Ordered(Start \o <<x>>)
         /\ ToSet(Start \o <<x>>) = ToSet(Start) \union {x}
<1>1. /\ Start \in Seq(StepEvent) /\ Ordered(Start)
      /\ ToSet(Start) = IF step.started THEN {} ELSE {Event("started")}
  BY Starts
<1>2. <<x>> \in Seq(StepEvent) /\ ToSet(<<x>>) = {x} /\ Ordered(<<x>>)
  BY NoneOrOne
<1>3. Precedes(Event("started"), x)
  BY DEF Precedes, Event, Of, IsEnd, CallTypes
<1>4. \A y \in ToSet(Start), z \in ToSet(<<x>>) : Precedes(y, z)
  BY <1>1, <1>2, <1>3
<1>5. Ordered(Start \o <<x>>)
  BY <1>1, <1>2, <1>4, OrderedConcat
<1>6. ToSet(Start \o <<x>>) = ToSet(Start) \union ToSet(<<x>>) /\ Start \o <<x>> \in Seq(StepEvent)
  <2>1. PICK r \in Seq(StepEvent) : r = <<x>>
    BY <1>2
  <2>2. ToSet(Start \o r) = ToSet(Start) \union ToSet(r) /\ Start \o r \in Seq(StepEvent)
    BY ONLY <1>1, r \in Seq(StepEvent), ContentsOfConcat
  <2> QED BY <2>1, <2>2
<1> QED BY <1>2, <1>5, <1>6

\* The start of a step that settles unsettled calls: with one of those, it has started.
LEMMA SettlesAndStarts ==
  ASSUME StepInv, NEW S \in SUBSET Unsettled
  PROVE  /\ Settling(S) \o Start \in Seq(StepEvent) /\ Ordered(Settling(S) \o Start)
         /\ ToSet(Settling(S) \o Start) = ToSet(Settling(S)) \union ToSet(Start)
<1>1. Shape /\ StepRecord /\ S \subseteq Calls /\ \A t \in Calls : CallRecord(t)
  BY DEF StepInv, Contents, Unsettled
<1>2. /\ Start \in Seq(StepEvent) /\ Ordered(Start)
      /\ ToSet(Start) = IF step.started THEN {} ELSE {Event("started")}
  BY <1>1, Starts
<1>3. /\ Settling(S) \in Seq(StepEvent) /\ Ordered(Settling(S))
      /\ ToSet(Settling(S)) = {Of("settled", t) : t \in S}
  BY <1>1, Settles
<1>4. S # {} => step.started
  <2>1. ASSUME NEW t \in S PROVE step.started
    <3>1. Of("input", t) \in Record
      BY <1>1 DEF Unsettled, CallRecord
    <3> QED BY <1>1, <3>1 DEF StepRecord
  <2> QED BY <2>1
<1>5. \A x \in ToSet(Settling(S)), y \in ToSet(Start) : Precedes(x, y)
  BY <1>2, <1>3, <1>4
<1>6. Ordered(Settling(S) \o Start)
  BY <1>2, <1>3, <1>5, OrderedConcat
<1>7. /\ ToSet(Settling(S) \o Start) = ToSet(Settling(S)) \union ToSet(Start)
      /\ Settling(S) \o Start \in Seq(StepEvent)
  BY <1>2, <1>3, ContentsOfConcat
<1> QED BY <1>6, <1>7

\* What the attempt knows while it listens to the provider.
LEMMA Listens ==
  ASSUME StepInv, Listening
  PROVE  /\ Shape /\ Sequenced /\ StepRecord /\ attempt.pc = "stream" /\ Phase = "stream"
         /\ attempt.outbox = <<>> /\ Record = ToSet(log) /\ ~HasEnd
         /\ attempt.exit = None /\ ~step.blocked /\ step.finish = None
         /\ \A t \in Calls : calls[t].state = "called" /\ ~calls[t].hosted => fiber[t] # None
         /\ \A t \in Calls : calls[t].state \in {"unknown", "input"} => ~calls[t].settled /\ fiber[t] = None
<1>1. Shape /\ Sequenced /\ StepRecord /\ attempt.pc = "stream" /\ ~step.blocked /\ step.finish = None
  BY DEF StepInv, Contents, Listening, At
<1>2. attempt.outbox = <<>> /\ Record = ToSet(log) /\ Phase = "stream"
  BY <1>1, NothingToPublish
<1>3. ~HasEnd /\ attempt.exit = None
  BY <1>2 DEF StepInv, PhaseOK, CloseOK, ExitOK
<1>4. ASSUME NEW t \in Calls
      PROVE  /\ calls[t].state = "called" /\ ~calls[t].hosted => fiber[t] # None
             /\ calls[t].state \in {"unknown", "input"} => ~calls[t].settled /\ fiber[t] = None
  BY <1>1, <1>2, <1>3 DEF StepInv, CallOK, None
<1> QED BY <1>1, <1>2, <1>3, <1>4

\* What the attempt promises while it listens.
LEMMA StreamPhase ==
  ASSUME Phase' = "stream", attempt'.exit = None, ~HasEnd', step'.blocked => step'.failure
  PROVE  PhaseOK'
BY DEF PhaseOK, ForkOK, ExitOK, JoinOK, CloseOK, OutcomeOK, None

-----------------------------------------------------------------------------
(* The provider's events *)

\* The step starts.
LEMMA StepStartsInv == ASSUME StepInv, StepStarts PROVE StepInv'
<1>1. /\ Listening /\ ~step.started /\ step' = [step EXCEPT !.started = TRUE] /\ Publish(Start, "stream")
      /\ UNCHANGED <<log, calls, fiber, captured, interrupted>>
  BY DEF StepStarts
<1>2. /\ Shape /\ Sequenced /\ StepRecord /\ attempt.pc = "stream" /\ Phase = "stream" /\ ~HasEnd
      /\ attempt.exit = None /\ ~step.blocked /\ step \in Step
  BY <1>1, Listens DEF Shape
<1>3. /\ step' \in Step /\ step'.started /\ step'.output = step.output /\ step'.blocked = step.blocked
  BY <1>1, <1>2 DEF Step
<1>4. Start \in Seq(StepEvent) /\ Ordered(Start) /\ ToSet(Start) = {Event("started")}
  BY <1>1, <1>2, Starts
<1>5. /\ attempt' \in Attempt /\ attempt'.pc = "publishing" /\ attempt'.outbox = Start /\ Phase' = "stream"
      /\ attempt'.exit = attempt.exit /\ attempt'.call = attempt.call
  BY <1>1, <1>2, <1>4, Publishes DEF Phases
<1>6. PICK x \in StepEvent : x = Event("started") /\ x.type = "started" /\ x.call = None
  BY Events DEF EventTypes
<1>7. \A y \in Record, z \in ToSet(Start) : Precedes(y, z)
  BY <1>1, <1>2, <1>4, <1>6, MayFollow
<1>8. Sequenced' /\ Record' = Record \union ToSet(Start)
  BY <1>1, <1>2, <1>4, <1>5, <1>7, RecordGrows
<1>9. Record' = Record \union {x}
  BY <1>4, <1>6, <1>8
<1>10. ~HasEnd'
  BY <1>2, <1>6, <1>9 DEF HasEnd, IsEnd
<1>11. PhaseOK'
  BY <1>2, <1>3, <1>5, <1>10, StreamPhase
<1>12. Shape'
  BY <1>1, <1>2, <1>3, <1>5 DEF Shape, Phases
<1>13. StepRecord'
  BY <1>2, <1>3, <1>6, <1>9 DEF StepRecord, CallTypes
<1>14. ASSUME NEW u \in Calls PROVE CallRecord(u)' /\ CallOK(u)'
  <2>1. x # Of("input", u) /\ x # Of("called", u) /\ x # Of("settled", u)
    BY <1>6, Events
  <2>2. CallRecord(u)'
    BY <1>1, <1>9, <2>1 DEF StepInv, Contents, CallRecord
  <2>3. CallOK(u)'
    BY <1>1, <1>2, <1>3, <1>5 DEF StepInv, CallOK
  <2> QED BY <2>2, <2>3
<1> QED BY <1>8, <1>11, <1>12, <1>13, <1>14 DEF StepInv, Contents

\* The first text: nothing of a call is recorded.
LEMMA TextStartsInv == ASSUME StepInv, TextStarts PROVE StepInv'
<1>1. /\ Listening /\ step' = [step EXCEPT !.started = TRUE, !.output = TRUE]
      /\ Publish(Start \o <<Event("text")>>, "stream")
      /\ UNCHANGED <<log, calls, fiber, captured, interrupted>>
  BY DEF TextStarts
<1>2. /\ Shape /\ Sequenced /\ StepRecord /\ attempt.pc = "stream" /\ Phase = "stream" /\ ~HasEnd
      /\ attempt.exit = None /\ ~step.blocked /\ step \in Step
  BY <1>1, Listens DEF Shape
<1>3. /\ step' \in Step /\ step'.started /\ step'.output /\ step'.blocked = step.blocked
  BY <1>1, <1>2 DEF Step
<1>4. PICK x \in StepEvent : x = Event("text") /\ x.type = "text" /\ x.call = None
  BY Events DEF EventTypes
<1>5. PICK events \in Seq(StepEvent) :
        events = Start \o <<Event("text")>> /\ Ordered(events) /\ ToSet(events) = ToSet(Start) \union {x}
  BY <1>2, <1>4, StartsWith
<1>6. ToSet(Start) = IF step.started THEN {} ELSE {Event("started")}
  BY <1>2, Starts
<1>7. /\ attempt' \in Attempt /\ attempt'.pc = "publishing" /\ attempt'.outbox = events /\ Phase' = "stream"
      /\ attempt'.exit = attempt.exit /\ attempt'.call = attempt.call
  BY <1>1, <1>2, <1>5, Publishes DEF Phases
<1>8. PICK s \in StepEvent : s = Event("started") /\ s.type = "started" /\ s.call = None
  BY Events DEF EventTypes
<1>9. ASSUME NEW y \in Record, NEW z \in ToSet(events) PROVE Precedes(y, z)
  <2>1. z = x \/ (z = s /\ ~step.started)
    BY <1>5, <1>6, <1>8
  <2> QED BY <1>2, <1>4, <1>8, <2>1, MayFollow
<1>10. Sequenced' /\ Record' = Record \union ToSet(events)
  BY <1>1, <1>2, <1>5, <1>7, <1>9, RecordGrows
<1>11. Record' = Record \union {s, x}
  BY <1>2, <1>5, <1>6, <1>8, <1>10 DEF StepRecord
<1>12. ~HasEnd'
  BY <1>2, <1>4, <1>8, <1>11 DEF HasEnd, IsEnd
<1>13. PhaseOK'
  BY <1>2, <1>3, <1>7, <1>12, StreamPhase
<1>14. Shape'
  BY <1>1, <1>2, <1>3, <1>7 DEF Shape, Phases
<1>15. StepRecord'
  BY <1>2, <1>3, <1>4, <1>8, <1>11 DEF StepRecord, CallTypes
<1>16. ASSUME NEW u \in Calls PROVE CallRecord(u)' /\ CallOK(u)'
  <2>1. \A y \in {s, x} : y # Of("input", u) /\ y # Of("called", u) /\ y # Of("settled", u)
    BY <1>4, <1>8, Events
  <2>2. CallRecord(u)'
    BY <1>1, <1>11, <2>1 DEF StepInv, Contents, CallRecord
  <2>3. CallOK(u)'
    BY <1>1, <1>2, <1>3, <1>7 DEF StepInv, CallOK
  <2> QED BY <2>2, <2>3
<1> QED BY <1>10, <1>13, <1>14, <1>15, <1>16 DEF StepInv, Contents

\* What records a call that has no record yet.
LEMMA Inputs ==
  ASSUME Shape, NEW t \in Calls
  PROVE  /\ Input(t) \in Seq(StepEvent) /\ Ordered(Input(t))
         /\ ToSet(Input(t)) = IF calls[t].state = "unknown" THEN ToSet(Start) \union {Of("input", t)} ELSE {}
<1>1. Of("input", t) \in StepEvent /\ Of("input", t).type # "started"
  BY Events DEF EventTypes
<1>2. CASE calls[t].state = "unknown"
  <2>1. Input(t) = Start \o <<Of("input", t)>>
    BY <1>2 DEF Input
  <2>2. /\ Start \o <<Of("input", t)>> \in Seq(StepEvent) /\ Ordered(Start \o <<Of("input", t)>>)
        /\ ToSet(Start \o <<Of("input", t)>>) = ToSet(Start) \union {Of("input", t)}
    BY <1>1, StartsWith
  <2> QED BY <1>2, <2>1, <2>2
<1>3. CASE calls[t].state # "unknown"
  BY <1>3, NoneOrOne DEF Input
<1> QED BY <1>2, <1>3

\* The marks of a call that gets further.
LEMMA CallMarked ==
  ASSUME calls \in [Calls -> Call], NEW t \in Calls, NEW state \in {"input", "malformed", "called"},
         NEW hosted \in BOOLEAN, calls' = [calls EXCEPT ![t].state = state, ![t].hosted = hosted]
  PROVE  /\ calls' \in [Calls -> Call]
         /\ calls'[t].state = state /\ calls'[t].hosted = hosted /\ calls'[t].settled = calls[t].settled
         /\ \A u \in Calls \ {t} : calls'[u] = calls[u]
<1>1. calls[t] \in Call
  OBVIOUS
<1>2. PICK c \in Call : c = [calls[t] EXCEPT !.state = state, !.hosted = hosted]
  BY <1>1 DEF Call
<1>3. c.state = state /\ c.hosted = hosted /\ c.settled = calls[t].settled
  BY <1>1, <1>2 DEF Call
<1>4. calls' = [calls EXCEPT ![t] = c]
  BY <1>2
<1> QED BY <1>2, <1>3, <1>4

\* A call gets its input, is malformed or is made.
LEMMA CallGrows ==
  ASSUME StepInv, Listening, NEW t \in Calls, calls[t].state \in {"unknown", "input"},
         step' = OutputStarted, UNCHANGED <<log, fiber, captured, interrupted>>,
         NEW state \in {"input", "malformed", "called"}, NEW hosted \in BOOLEAN,
         calls' \in [Calls -> Call], calls'[t].state = state, calls'[t].hosted = hosted,
         calls'[t].settled = calls[t].settled, \A u \in Calls \ {t} : calls'[u] = calls[u],
         NEW events \in Seq(StepEvent), Ordered(events),
         ToSet(events) = ToSet(Input(t)) \union (IF state = "called" THEN {Of("called", t)} ELSE {}),
         attempt' \in Attempt, attempt'.pc = "publishing", attempt'.outbox = events,
         attempt'.exit = attempt.exit, state = "called" /\ ~hosted => attempt'.call = t,
         Phase' = IF state = "called" /\ ~hosted THEN "forking" ELSE "stream"
  PROVE  StepInv'
<1>1. /\ Shape /\ Sequenced /\ StepRecord /\ attempt.pc = "stream" /\ Phase = "stream" /\ ~HasEnd
      /\ attempt.exit = None /\ ~step.blocked /\ step \in Step /\ step.finish = None
      /\ ~calls[t].settled /\ fiber[t] = None
      /\ \A u \in Calls : calls[u].state = "called" /\ ~calls[u].hosted => fiber[u] # None
  BY Listens DEF Shape
<1>2. CallRecord(t) /\ CallOK(t)
  BY DEF StepInv, Contents
<1>3. /\ step' \in Step /\ step'.started /\ step'.output /\ step'.blocked = step.blocked
      /\ step'.finish = step.finish
  <2>1. step' = [step EXCEPT !.started = TRUE, !.output = TRUE]
    BY DEF OutputStarted
  <2> QED BY <1>1, <2>1 DEF Step
<1>4. PICK s \in StepEvent : s = Event("started") /\ s.type = "started" /\ s.call = None
  BY ONLY Events DEF EventTypes
<1>5. PICK i \in StepEvent : i = Of("input", t) /\ i.type = "input" /\ i.call = t
  BY Events DEF EventTypes
<1>6. PICK c \in StepEvent : c = Of("called", t) /\ c.type = "called" /\ c.call = t
  BY Events DEF EventTypes
<1>7. ToSet(Start) = IF step.started THEN {} ELSE {s}
  BY <1>1, <1>4, Starts
<1>8. ToSet(Input(t)) = IF calls[t].state = "unknown" THEN ToSet(Start) \union {i} ELSE {}
  BY <1>1, <1>5, Inputs
<1>9. ASSUME NEW y \in Record, NEW z \in ToSet(events) PROVE Precedes(y, z)
  <2>1. \/ z = s /\ ~step.started
        \/ z = i /\ calls[t].state = "unknown"
        \/ z = c
    BY <1>6, <1>7, <1>8
  <2>2. CASE z = s /\ ~step.started
    BY <1>1, <1>4, <2>2, MayFollow
  <2>3. CASE z = i /\ calls[t].state = "unknown"
    <3>1. \A type \in CallTypes : Of(type, t) \notin Record
      BY <1>1, <1>2, <2>3 DEF CallRecord, CallTypes
    <3> QED BY <1>1, <1>5, <2>3, <3>1, MayFollow
  <2>4. CASE z = c
    <3>1. Of("called", t) \notin Record /\ Of("settled", t) \notin Record
      BY <1>1, <1>2 DEF CallRecord
    <3> QED BY <1>1, <1>6, <2>4, <3>1, MayFollow
  <2> QED BY <2>1, <2>2, <2>3, <2>4
<1>10. Sequenced' /\ Record' = Record \union ToSet(events)
  BY <1>1, <1>9, RecordGrows
<1>11. Record' = Record \union {s, i} \union (IF state = "called" THEN {c} ELSE {})
  <2>1. step.started => s \in Record
    BY <1>1, <1>4 DEF StepRecord
  <2>2. calls[t].state = "input" => i \in Record /\ step.started
    BY <1>1, <1>2, <1>5 DEF CallRecord, StepRecord
  <2> QED BY <1>6, <1>7, <1>8, <1>10, <2>1, <2>2
<1>12. ~HasEnd'
  BY <1>1, <1>4, <1>5, <1>6, <1>11 DEF HasEnd, IsEnd
<1>13. PhaseOK'
  <2>1. CASE state = "called" /\ ~hosted
    BY <1>1, <1>3, <1>12, <2>1 DEF PhaseOK, ForkOK, ExitOK, JoinOK, CloseOK, OutcomeOK, None
  <2>2. CASE ~(state = "called" /\ ~hosted)
    BY <1>1, <1>3, <1>12, <2>2, StreamPhase
  <2> QED BY <2>1, <2>2
<1>14. Shape'
  BY <1>1, <1>3 DEF Shape, Phases
<1>15. StepRecord'
  BY <1>1, <1>3, <1>4, <1>5, <1>6, <1>11 DEF StepRecord, CallTypes
<1>16. ASSUME NEW u \in Calls PROVE CallRecord(u)' /\ CallOK(u)'
  <2>1. CallRecord(u) /\ CallOK(u)
    BY DEF StepInv, Contents
  <2>2. CASE u = t
    <3>1. /\ s # Of("settled", t) /\ i # Of("settled", t) /\ c # Of("settled", t) /\ s # c /\ i # c
      BY <1>4, <1>5, <1>6 DEF Of
    <3>2. Of("called", t) \in Record' <=> state = "called"
      BY <1>1, <1>2, <1>4, <1>5, <1>6, <1>11, <3>1 DEF CallRecord
    <3>3. Of("settled", t) \notin Record'
      BY <1>1, <1>2, <1>11, <3>1 DEF CallRecord
    <3>4. CallRecord(t)'
      BY <1>1, <1>5, <1>11, <3>2, <3>3 DEF CallRecord
    <3>5. CallOK(t)'
      BY <1>1, <1>3, <1>4 DEF CallOK, None
    <3> QED BY <2>2, <3>4, <3>5
  <2>3. CASE u # t
    <3>1. calls'[u] = calls[u]
      BY <2>3
    <3>2. \A y \in {s, i, c} : y # Of("input", u) /\ y # Of("called", u) /\ y # Of("settled", u)
      BY <1>4, <1>5, <1>6, <2>3, Events
    <3>3. CallRecord(u)'
      BY <1>11, <2>1, <3>1, <3>2 DEF CallRecord
    <3>4. CallOK(u)'
      BY <1>1, <1>3, <2>1, <3>1 DEF CallOK
    <3> QED BY <3>3, <3>4
  <2> QED BY <2>2, <2>3
<1> QED BY <1>10, <1>13, <1>14, <1>15, <1>16 DEF StepInv, Contents

\* The input of a call starts, or fails.
LEMMA InputInv ==
  ASSUME StepInv, NEW t \in Calls, InputStarts(t) \/ InputFails(t)
  PROVE  StepInv'
<1>1. /\ Listening /\ calls[t].state \in {"unknown", "input"} /\ step' = OutputStarted
      /\ Publish(Input(t), "stream") /\ UNCHANGED <<log, fiber, captured, interrupted>>
      /\ \E state \in {"input", "malformed"} : calls' = [calls EXCEPT ![t].state = state]
  BY DEF InputStarts, InputFails
<1>2. PICK state \in {"input", "malformed"} : calls' = [calls EXCEPT ![t].state = state]
  BY <1>1
<1>3. Shape /\ calls \in [Calls -> Call] /\ attempt.pc = "stream"
  BY <1>1, Listens DEF Shape
<1>4. PICK events \in Seq(StepEvent) : events = Input(t) /\ Ordered(events)
  BY <1>3, Inputs
<1>5. /\ attempt' \in Attempt /\ attempt'.pc = "publishing" /\ attempt'.outbox = events /\ Phase' = "stream"
      /\ attempt'.exit = attempt.exit
  BY <1>1, <1>3, <1>4, Publishes DEF Phases
<1>6. PICK hosted \in BOOLEAN : hosted = calls[t].hosted
  BY <1>3 DEF Call
<1>7. calls' = [calls EXCEPT ![t].state = state, ![t].hosted = hosted]
  <2>1. calls[t] \in Call
    BY <1>3
  <2>2. [calls[t] EXCEPT !.state = state] = [calls[t] EXCEPT !.state = state, !.hosted = hosted]
    BY <1>6, <2>1 DEF Call
  <2> QED BY <1>2, <2>2
<1>8. /\ calls' \in [Calls -> Call]
      /\ calls'[t].state = state /\ calls'[t].hosted = hosted /\ calls'[t].settled = calls[t].settled
      /\ \A u \in Calls \ {t} : calls'[u] = calls[u]
  BY <1>3, <1>7, CallMarked
<1>9. ToSet(events) = ToSet(Input(t)) \union (IF state = "called" THEN {Of("called", t)} ELSE {})
  BY <1>4
<1>10. state # "called"
  OBVIOUS
<1> QED BY <1>1, <1>4, <1>5, <1>8, <1>9, <1>10, CallGrows

\* A call is made: a local tool is to be forked.
LEMMA ToolCalledInv ==
  ASSUME StepInv, NEW t \in Calls, NEW hosted \in BOOLEAN, ToolCalled(t, hosted)
  PROVE  StepInv'
<1>1. /\ Listening /\ calls[t].state \in {"unknown", "input"} /\ step' = OutputStarted
      /\ UNCHANGED <<log, fiber, captured, interrupted>>
      /\ calls' = [calls EXCEPT ![t].state = "called", ![t].hosted = hosted]
  BY DEF ToolCalled
<1>2. Shape /\ calls \in [Calls -> Call] /\ attempt \in Attempt /\ StepRecord
  BY <1>1, Listens DEF Shape
<1>3. PICK c \in StepEvent : c = Of("called", t) /\ c.type = "called" /\ c.call = t
  BY Events DEF EventTypes
<1>4. PICK input \in Seq(StepEvent) :
        /\ input = Input(t) /\ Ordered(input)
        /\ ToSet(input) = IF calls[t].state = "unknown" THEN ToSet(Start) \union {Of("input", t)} ELSE {}
  BY <1>2, Inputs
<1>5. PICK one \in Seq(StepEvent) : one = <<c>> /\ ToSet(one) = {c} /\ Ordered(one)
  BY NoneOrOne
<1>6. PICK events \in Seq(StepEvent) : events = input \o one /\ ToSet(events) = ToSet(input) \union ToSet(one)
  BY ContentsOfConcat
<1>7. Ordered(events)
  <2>1. ASSUME NEW y \in ToSet(input) PROVE Precedes(y, c)
    <3>1. y = Event("started") \/ y = Of("input", t)
      BY <1>2, <1>4, Starts
    <3>2. CASE y = Event("started")
      BY <1>3, <3>2 DEF Precedes, IsEnd, CallTypes, Event, Of
    <3>3. CASE y = Of("input", t)
      BY <1>3, <3>3 DEF Precedes, IsEnd, CallTypes, CallOrder, Of
    <3> QED BY <3>1, <3>2, <3>3
  <2>2. \A y \in ToSet(input), z \in ToSet(one) : Precedes(y, z)
    BY <1>5, <2>1
  <2> QED BY <1>4, <1>5, <1>6, <2>2, OrderedConcat
<1>8. attempt' = [attempt EXCEPT !.pc = "publishing", !.outbox = events,
                                 !.then = IF hosted THEN "stream" ELSE "forking", !.call = t]
  BY <1>3, <1>4, <1>5, <1>6 DEF ToolCalled
<1>9. PICK then \in Phases : then = IF hosted THEN "stream" ELSE "forking"
  BY DEF Phases
<1>10. attempt' = [attempt EXCEPT !.pc = "publishing", !.outbox = events, !.then = then, !.call = t]
  BY <1>8, <1>9
<1>11. attempt' \in Attempt
  BY <1>2, <1>10 DEF Attempt
<1>12. /\ attempt'.pc = "publishing" /\ attempt'.outbox = events /\ attempt'.then = then /\ attempt'.call = t
       /\ attempt'.exit = attempt.exit
  BY <1>2, <1>10 DEF Attempt
<1>13. Phase' = IF hosted THEN "stream" ELSE "forking"
  BY <1>9, <1>12 DEF Phase
<1>14. PICK state \in {"input", "malformed", "called"} : state = "called"
  OBVIOUS
<1>15. calls' = [calls EXCEPT ![t].state = state, ![t].hosted = hosted]
  BY <1>1, <1>14
<1>16. /\ calls' \in [Calls -> Call]
       /\ calls'[t].state = state /\ calls'[t].hosted = hosted /\ calls'[t].settled = calls[t].settled
       /\ \A u \in Calls \ {t} : calls'[u] = calls[u]
  BY <1>2, <1>15, CallMarked
<1>17. ToSet(events) = ToSet(Input(t)) \union (IF state = "called" THEN {Of("called", t)} ELSE {})
  BY <1>3, <1>4, <1>5, <1>6, <1>14
<1>18. /\ state = "called" /\ ~hosted => attempt'.call = t
       /\ Phase' = IF state = "called" /\ ~hosted THEN "forking" ELSE "stream"
  BY <1>12, <1>13, <1>14
<1> QED BY <1>1, <1>7, <1>11, <1>12, <1>16, <1>17, <1>18, CallGrows

-----------------------------------------------------------------------------
(* Calls that the attempt settles itself *)

\* Unsettled calls are settled in memory and in what is to be published, after
\* which the step may start.
LEMMA SettlesSome ==
  ASSUME StepInv, attempt.pc # "publishing", ~HasEnd, NEW S \in SUBSET Unsettled, MarkSettled(S),
         UNCHANGED <<log, fiber>>, NEW start \in BOOLEAN, NEW events \in Seq(StepEvent), Ordered(events),
         ToSet(events) = ToSet(Settling(S)) \union (IF start THEN ToSet(Start) ELSE {}),
         attempt'.outbox = events, step' \in Step, step'.started <=> step.started \/ start,
         step'.output = step.output
  PROVE  /\ Sequenced' /\ Contents' /\ ~HasEnd' /\ calls' \in [Calls -> Call]
         /\ \A t \in Calls : /\ calls'[t].state = calls[t].state /\ calls'[t].hosted = calls[t].hosted
                             /\ calls'[t].settled <=> calls[t].settled \/ t \in S
<1>1. Shape /\ Sequenced /\ StepRecord /\ S \in SUBSET Calls /\ calls \in [Calls -> Call]
  BY DEF StepInv, Contents, Shape, Unsettled
<1>2. /\ calls' \in [Calls -> Call]
      /\ \A t \in Calls : /\ calls'[t].state = calls[t].state /\ calls'[t].hosted = calls[t].hosted
                          /\ calls'[t].settled <=> calls[t].settled \/ t \in S
  BY <1>1, Marks
<1>3. ToSet(Settling(S)) = {Of("settled", t) : t \in S}
  BY <1>1, Settles
<1>4. PICK s \in StepEvent : s = Event("started") /\ s.type = "started" /\ s.call = None
  BY ONLY Events DEF EventTypes
<1>5. ToSet(Start) = IF step.started THEN {} ELSE {s}
  BY <1>1, <1>4, Starts
<1>6. ASSUME NEW t \in S
      PROVE  /\ Of("settled", t) \in StepEvent /\ Of("settled", t).type = "settled" /\ Of("settled", t).call = t
             /\ Of("settled", t) \notin Record /\ Of("input", t) \in Record /\ fiber[t] # "settling"
  <2>1. t \in Calls /\ calls[t].state # "unknown" /\ ~calls[t].settled
    BY DEF Unsettled
  <2>2. CallRecord(t) /\ CallOK(t)
    BY <2>1 DEF StepInv, Contents
  <2>3. Of("settled", t) \in StepEvent /\ Of("settled", t).type = "settled" /\ Of("settled", t).call = t
    BY ONLY <2>1, Events DEF EventTypes
  <2> QED BY <2>1, <2>2, <2>3 DEF CallRecord, CallOK
<1>7. ASSUME NEW y \in Record, NEW z \in ToSet(events) PROVE Precedes(y, z)
  <2>1. (z = s /\ ~step.started) \/ \E t \in S : z = Of("settled", t)
    BY <1>3, <1>5
  <2>2. CASE z = s /\ ~step.started
    BY <1>1, <1>4, <2>2, MayFollow
  <2>3. CASE \E t \in S : z = Of("settled", t)
    BY <1>1, <1>6, <2>3, MayFollow
  <2> QED BY <2>1, <2>2, <2>3
<1>8. Sequenced' /\ Record' = Record \union ToSet(events)
  BY <1>1, <1>7, RecordGrows
<1>9. PICK E : E = {Of("settled", t) : t \in S}
  OBVIOUS
<1>10. Record' = Record \union E \union (IF start THEN {s} ELSE {})
  <2>1. step.started => s \in Record
    BY <1>1, <1>4 DEF StepRecord
  <2> QED BY <1>3, <1>5, <1>8, <1>9, <2>1
<1>11. \A y \in E : y \in StepEvent /\ y.type = "settled" /\ y.call \in S
  BY <1>6, <1>9
<1>12. ~HasEnd'
  BY <1>4, <1>10, <1>11 DEF HasEnd, IsEnd
<1>13. E # {} => step.started
  <2>1. ASSUME NEW t \in S PROVE step.started
    BY <1>1, <1>6 DEF StepRecord
  <2> QED BY <1>11, <2>1
<1>14. StepRecord'
  <2>1. step'.started <=> Event("started") \in Record'
    BY <1>1, <1>4, <1>10, <1>11, <1>13 DEF StepRecord
  <2>2. Record' # {} => step'.started
    BY <1>1, <1>10, <1>13 DEF StepRecord
  <2>3. ASSUME NEW x \in Record'
        PROVE  /\ x.type = "started" => x = Event("started")
               /\ x.type \in CallTypes => x.call \in Calls
               /\ ~step'.output => x.type # "text"
    <3>1. CASE x \in Record
      BY <1>1, <3>1 DEF StepRecord
    <3>2. CASE x \in E
      BY <1>1, <1>11, <3>2
    <3>3. CASE x = s
      BY <1>4, <3>3 DEF CallTypes
    <3> QED BY <1>10, <3>1, <3>2, <3>3
  <2> QED BY <2>1, <2>2, <2>3 DEF StepRecord
<1>15. ASSUME NEW u \in Calls PROVE CallRecord(u)'
  <2>1. CallRecord(u)
    BY DEF StepInv, Contents
  <2>2. s # Of("input", u) /\ s # Of("called", u) /\ s # Of("settled", u)
    BY <1>4, Events
  <2>3. Of("input", u) \notin E /\ Of("called", u) \notin E
    BY <1>11, Events
  <2>4. Of("settled", u) \in E <=> u \in S
    BY <1>9, <1>11, Events
  <2>5. u \in S => fiber[u] # "settling"
    BY <1>6
  <2> QED BY <1>2, <1>10, <2>1, <2>2, <2>3, <2>4, <2>5 DEF CallRecord
<1> QED BY <1>2, <1>8, <1>12, <1>14, <1>15 DEF Contents

\* The result of a hosted call.
LEMMA HostedResultInv ==
  ASSUME StepInv, NEW t \in Calls, HostedResult(t)
  PROVE  StepInv'
<1>1. /\ Listening /\ {t} \in SUBSET Unsettled /\ calls[t].state = "called"
      /\ MarkSettled({t}) /\ Publish(Settling({t}), "stream")
      /\ UNCHANGED <<log, step, fiber, captured, interrupted>>
  BY DEF HostedResult, HostedCalls
<1>2. /\ Shape /\ attempt.pc = "stream" /\ Phase = "stream" /\ ~HasEnd
      /\ attempt.exit = None /\ ~step.blocked /\ step \in Step
  BY <1>1, Listens DEF Shape
<1>3. PICK events \in Seq(StepEvent) : events = Settling({t}) /\ Ordered(events)
  BY Settles
<1>4. /\ attempt' \in Attempt /\ attempt'.pc = "publishing" /\ attempt'.outbox = events /\ Phase' = "stream"
      /\ attempt'.exit = attempt.exit
  BY <1>1, <1>2, <1>3, Publishes DEF Phases
<1>5. PICK start \in BOOLEAN : ~start
  OBVIOUS
<1>6. /\ ToSet(events) = ToSet(Settling({t})) \union (IF start THEN ToSet(Start) ELSE {})
      /\ step' \in Step /\ (step'.started <=> step.started \/ start) /\ step'.output = step.output
      /\ UNCHANGED <<log, fiber>> /\ attempt.pc # "publishing"
  BY <1>1, <1>2, <1>3, <1>5
<1>7. /\ Sequenced' /\ Contents' /\ ~HasEnd' /\ calls' \in [Calls -> Call]
      /\ \A u \in Calls : /\ calls'[u].state = calls[u].state /\ calls'[u].hosted = calls[u].hosted
                          /\ calls'[u].settled <=> calls[u].settled \/ u \in {t}
  BY <1>1, <1>2, <1>3, <1>4, <1>5, <1>6, SettlesSome
<1>8. PhaseOK'
  BY <1>1, <1>2, <1>4, <1>7, StreamPhase
<1>9. Shape'
  BY <1>1, <1>2, <1>4, <1>7 DEF Shape, Phases
<1>10. ASSUME NEW u \in Calls PROVE CallOK(u)'
  <2>1. CallOK(u)
    BY DEF StepInv
  <2>2. /\ calls'[u].state = calls[u].state /\ calls'[u].hosted = calls[u].hosted
        /\ calls'[u].settled <=> calls[u].settled \/ u = t
    BY <1>7
  <2> QED BY <1>1, <1>2, <1>4, <2>1, <2>2 DEF CallOK
<1> QED BY <1>7, <1>8, <1>9, <1>10 DEF StepInv

\* The provider finishes the step, or its content filter does and fails what was not called.
LEMMA StepFinishesInv ==
  ASSUME StepInv, NEW reason \in FinishReasons, StepFinishes(reason)
  PROVE  StepInv'
<1>1. Listening /\ UNCHANGED <<log, fiber, captured, interrupted>>
  BY DEF StepFinishes
<1>2. /\ Shape /\ Sequenced /\ attempt.pc = "stream" /\ Phase = "stream" /\ ~HasEnd
      /\ attempt.exit = None /\ ~step.blocked /\ step \in Step /\ step.started \in BOOLEAN
  BY <1>1, Listens DEF Shape, Step
<1>3. CASE reason # "content-filter"
  <2>1. step' = [step EXCEPT !.finish = reason] /\ UNCHANGED <<calls, attempt>>
    BY <1>3 DEF StepFinishes
  <2>2. /\ step' \in Step /\ step'.started = step.started /\ step'.output = step.output
        /\ step'.blocked = step.blocked
    BY <1>2, <2>1 DEF Step
  <2>3. Phase' = Phase
    BY <2>1 DEF Phase
  <2>4. Sequenced' /\ Record' = Record
    BY <1>1, <1>2, <2>1, RecordStays
  <2>5. ~HasEnd'
    BY <1>2, <2>4 DEF HasEnd
  <2>6. PhaseOK'
    BY <1>2, <2>1, <2>2, <2>3, <2>5, StreamPhase
  <2>7. Shape'
    BY <1>1, <1>2, <2>1, <2>2, <2>3 DEF Shape
  <2>8. Contents'
    BY <1>1, <2>1, <2>2, <2>4 DEF StepInv, Contents, StepRecord, CallRecord
  <2>9. \A u \in Calls : CallOK(u)'
    BY <1>1, <2>1, <2>2, <2>3 DEF StepInv, CallOK
  <2> QED BY <2>4, <2>6, <2>7, <2>8, <2>9 DEF StepInv
<1>4. CASE reason = "content-filter"
  <2>1. /\ step' = [step EXCEPT !.started = TRUE, !.blocked = TRUE, !.failure = TRUE, !.finish = reason]
        /\ MarkSettled(Uncalled) /\ Publish(Settling(Uncalled) \o Start, "stream")
    BY <1>4 DEF StepFinishes
  <2>2. PICK S \in SUBSET Unsettled : S = Uncalled
    BY DEF Uncalled
  <2>3. PICK events \in Seq(StepEvent) :
          /\ events = Settling(S) \o Start /\ Ordered(events)
          /\ ToSet(events) = ToSet(Settling(S)) \union ToSet(Start)
    BY SettlesAndStarts
  <2>4. /\ step' \in Step /\ step'.started = TRUE /\ step'.output = step.output
        /\ step'.blocked = TRUE /\ step'.failure = TRUE
    BY <1>2, <2>1 DEF Step
  <2>5. /\ attempt' \in Attempt /\ attempt'.pc = "publishing" /\ attempt'.outbox = events /\ Phase' = "stream"
        /\ attempt'.exit = attempt.exit
    BY <1>2, <2>1, <2>2, <2>3, Publishes DEF Phases
  <2>6. PICK start \in BOOLEAN : start = TRUE
    OBVIOUS
  <2>7. /\ ToSet(events) = ToSet(Settling(S)) \union (IF start THEN ToSet(Start) ELSE {})
        /\ (step'.started <=> step.started \/ start) /\ MarkSettled(S)
        /\ UNCHANGED <<log, fiber>> /\ attempt.pc # "publishing"
    BY <1>1, <1>2, <2>1, <2>2, <2>3, <2>4, <2>6
  <2>8. /\ Sequenced' /\ Contents' /\ ~HasEnd' /\ calls' \in [Calls -> Call]
        /\ \A u \in Calls : /\ calls'[u].state = calls[u].state /\ calls'[u].hosted = calls[u].hosted
                            /\ calls'[u].settled <=> calls[u].settled \/ u \in S
    BY <1>2, <2>3, <2>4, <2>5, <2>7, SettlesSome
  <2>9. PhaseOK'
    BY <1>2, <2>4, <2>5, <2>8, StreamPhase
  <2>10. Shape'
    BY <1>1, <1>2, <2>4, <2>5, <2>8 DEF Shape, Phases
  <2>11. ASSUME NEW u \in Calls PROVE CallOK(u)'
    <3>1. CallOK(u) /\ (u \in S => calls[u].state # "unknown" /\ calls[u].state # "called")
      BY <2>2 DEF StepInv, Uncalled, Unsettled
    <3>2. /\ calls'[u].state = calls[u].state /\ calls'[u].hosted = calls[u].hosted
          /\ calls'[u].settled <=> calls[u].settled \/ u \in S
      BY <2>8
    <3> QED BY <1>1, <1>2, <2>4, <2>5, <3>1, <3>2 DEF CallOK
  <2> QED BY <2>8, <2>9, <2>10, <2>11 DEF StepInv
<1> QED BY <1>3, <1>4

\* The fiber of a call is forked: its call was published.
LEMMA ForkInv == ASSUME StepInv, Fork PROVE StepInv'
<1>1. /\ attempt.pc = "forking" /\ fiber' = [fiber EXCEPT ![attempt.call] = "running"]
      /\ attempt' = [attempt EXCEPT !.pc = "stream", !.call = None]
      /\ UNCHANGED <<log, step, calls, captured, interrupted>>
  BY DEF Fork, At
<1>2. Shape /\ Sequenced /\ attempt \in Attempt
  BY DEF StepInv, Shape
<1>3. attempt.outbox = <<>> /\ Record = ToSet(log) /\ Phase = "forking"
  BY <1>1, <1>2, NothingToPublish
<1>4. PICK t \in Calls : /\ t = attempt.call /\ calls[t].state = "called" /\ ~calls[t].hosted /\ fiber[t] = None
  BY <1>3 DEF StepInv, PhaseOK, ForkOK
<1>5. \A u \in Calls : fiber'[u] = IF u = t THEN "running" ELSE fiber[u]
  BY <1>1, <1>2, <1>4 DEF Shape
<1>6. attempt' \in Attempt /\ attempt'.pc = "stream" /\ attempt'.outbox = attempt.outbox /\ attempt'.exit = attempt.exit
  BY <1>1, <1>2 DEF Attempt, Phases
<1>7. Phase' = "stream"
  BY <1>6 DEF Phase
<1>8. Sequenced' /\ Record' = Record /\ HasEnd' = HasEnd
  BY <1>1, <1>2, <1>6, RecordStays DEF HasEnd
<1>9. ~HasEnd /\ attempt.exit = None /\ (step.blocked => step.failure)
  BY <1>3 DEF StepInv, PhaseOK, CloseOK, ExitOK
<1>10. PhaseOK'
  BY <1>1, <1>6, <1>7, <1>8, <1>9, StreamPhase
<1>11. Shape'
  BY <1>1, <1>2, <1>3, <1>6, <1>7 DEF Shape, Phases
<1>12. StepRecord'
  BY <1>1, <1>8 DEF StepInv, Contents, StepRecord
<1>13. ASSUME NEW u \in Calls PROVE CallRecord(u)' /\ CallOK(u)'
  <2>1. CallRecord(u) /\ CallOK(u)
    BY DEF StepInv, Contents
  <2>2. CASE u = t
    <3>1. fiber'[u] = "running" /\ Of("called", u) \in ToSet(log)
      BY <1>3, <1>4, <1>5, <2>1, <2>2 DEF CallRecord
    <3>2. CallRecord(u)'
      BY <1>1, <1>4, <1>8, <2>1, <2>2, <3>1 DEF CallRecord, None
    <3>3. CallOK(u)'
      BY <1>1, <1>4, <2>1, <2>2, <3>1 DEF CallOK, None
    <3> QED BY <3>2, <3>3
  <2>3. CASE u # t
    <3>1. fiber'[u] = fiber[u]
      BY <1>5, <2>3
    <3>2. CallRecord(u)'
      BY <1>1, <1>8, <2>1, <3>1 DEF CallRecord
    <3>3. CallOK(u)'
      BY <1>1, <1>3, <1>4, <1>6, <1>7, <1>9, <2>1, <2>3, <3>1 DEF CallOK, None
    <3> QED BY <3>2, <3>3
  <2> QED BY <2>2, <2>3
<1> QED BY <1>8, <1>10, <1>11, <1>12, <1>13 DEF StepInv, Contents

\* The stream ends, and malformed calls are failed.
LEMMA StreamEndsInv ==
  ASSUME StepInv, NEW exit \in StreamExits, StreamEnds(exit)
  PROVE  StepInv'
<1>1. /\ attempt.pc = "stream" \/ (attempt.pc = "forking" /\ exit = "interrupted")
      /\ exit = "success" => step.finish # None
      /\ MarkSettled(Malformed)
      /\ attempt' = [attempt EXCEPT !.pc = "publishing", !.outbox = Settling(Malformed),
                                    !.then = "streamed", !.exit = exit, !.call = None]
      /\ UNCHANGED <<log, step, fiber, captured, interrupted>>
  BY DEF StreamEnds, At
<1>2. Shape /\ attempt \in Attempt /\ step \in Step
  BY DEF StepInv, Shape
<1>3. attempt.pc # "publishing" /\ Phase = attempt.pc
  BY <1>1, <1>2, NothingToPublish
<1>4. ~HasEnd /\ attempt.exit = None /\ (step.blocked => step.failure)
  BY <1>1, <1>3 DEF StepInv, PhaseOK, CloseOK, ExitOK
<1>5. PICK S \in SUBSET Unsettled : S = Malformed
  BY DEF Malformed
<1>6. PICK events \in Seq(StepEvent) : events = Settling(S) /\ Ordered(events)
  <2>1. S \in SUBSET Calls
    BY DEF Unsettled
  <2> QED BY <2>1, Settles
<1>7. attempt' = [attempt EXCEPT !.pc = "publishing", !.outbox = events,
                                 !.then = "streamed", !.exit = exit, !.call = None]
  BY <1>1, <1>5, <1>6
<1>8. attempt' \in Attempt
  BY <1>2, <1>7 DEF Attempt, Phases
<1>9. /\ attempt'.pc = "publishing" /\ attempt'.outbox = events /\ attempt'.then = "streamed"
      /\ attempt'.exit = exit
  BY <1>2, <1>7 DEF Attempt
<1>10. Phase' = "streamed"
  BY <1>9 DEF Phase
<1>11. PICK start \in BOOLEAN : ~start
  OBVIOUS
<1>12. /\ ToSet(events) = ToSet(Settling(S)) \union (IF start THEN ToSet(Start) ELSE {})
       /\ step' \in Step /\ (step'.started <=> step.started \/ start) /\ step'.output = step.output
       /\ UNCHANGED <<log, fiber>> /\ MarkSettled(S)
  BY <1>1, <1>2, <1>5, <1>6, <1>11
<1>13. /\ Sequenced' /\ Contents' /\ ~HasEnd' /\ calls' \in [Calls -> Call]
       /\ \A u \in Calls : /\ calls'[u].state = calls[u].state /\ calls'[u].hosted = calls[u].hosted
                           /\ calls'[u].settled <=> calls[u].settled \/ u \in S
  BY <1>3, <1>4, <1>6, <1>9, <1>12, SettlesSome
<1>14. PhaseOK'
  BY <1>1, <1>4, <1>9, <1>10, <1>13 DEF PhaseOK, ForkOK, ExitOK, JoinOK, CloseOK, OutcomeOK
<1>15. Shape'
  BY <1>1, <1>2, <1>8, <1>9, <1>10, <1>13 DEF Shape, Phases
<1>16. ASSUME NEW u \in Calls PROVE CallOK(u)'
  <2>1. CallOK(u) /\ (u \in S => calls[u].state # "unknown")
    BY DEF StepInv, Unsettled
  <2>2. /\ calls'[u].state = calls[u].state /\ calls'[u].hosted = calls[u].hosted
        /\ calls'[u].settled <=> calls[u].settled \/ u \in S
    BY <1>13
  <2>3. calls[u].state = "called" /\ ~calls[u].hosted /\ fiber[u] = None => exit = "interrupted"
    BY <1>1, <1>3, <1>4, <2>1 DEF CallOK, None
  <2> QED BY <1>1, <1>9, <1>10, <2>1, <2>2, <2>3 DEF CallOK
<1> QED BY <1>13, <1>14, <1>15, <1>16 DEF StepInv

-----------------------------------------------------------------------------
(* The attempt publishes after the stream *)

\* Events that are not of a call are published with the marks of the calls as they are.
LEMMA StepPublishes ==
  ASSUME StepInv, attempt.pc # "publishing", Phase \notin {"stream", "forking"}, ~HasEnd,
         UNCHANGED <<log, calls, fiber, captured, interrupted>>,
         NEW events \in Seq(StepEvent), Ordered(events),
         \A x \in ToSet(events) : x.type \notin CallTypes \union {"text"},
         \A x \in ToSet(events) : x.type = "started" => x = Event("started") /\ ~step.started,
         step' \in Step, step'.output = step.output, step'.blocked = step.blocked,
         step'.failure = step.failure, step'.finish = step.finish,
         step'.started <=> step.started \/ Event("started") \in ToSet(events),
         ToSet(events) # {} => step'.started,
         attempt' \in Attempt, attempt'.pc = "publishing", attempt'.outbox = events,
         attempt'.exit = attempt.exit, Phase' \in Phases \ {"stream", "forking"}
  PROVE  /\ JoinOK' /\ CloseOK' /\ OutcomeOK' => StepInv'
         /\ HasEnd' <=> \E x \in ToSet(events) : IsEnd(x)
         /\ KnownSettled' = KnownSettled
<1>1. Shape /\ Sequenced /\ StepRecord
  BY DEF StepInv, Contents
<1>2. ASSUME NEW x \in Record, NEW y \in ToSet(events) PROVE Precedes(x, y)
  <2>1. y \in StepEvent
    BY DEF ToSet
  <2> QED BY <1>1, <2>1, MayFollow DEF CallTypes
<1>3. Sequenced' /\ Record' = Record \union ToSet(events)
  BY <1>1, <1>2, RecordGrows
<1>4. HasEnd' <=> \E x \in ToSet(events) : IsEnd(x)
  BY <1>3 DEF HasEnd
<1>5. StepRecord'
  BY <1>1, <1>3 DEF StepRecord
<1>6. ASSUME NEW u \in Calls PROVE CallRecord(u)' /\ CallOK(u)'
  <2>1. CallRecord(u) /\ CallOK(u)
    BY DEF StepInv, Contents
  <2>2. Of("input", u) \notin ToSet(events) /\ Of("called", u) \notin ToSet(events) /\ Of("settled", u) \notin ToSet(events)
    BY Events DEF CallTypes
  <2>3. CallRecord(u)'
    BY <1>3, <2>1, <2>2 DEF CallRecord
  <2>4. CallOK(u)'
    BY <2>1 DEF CallOK
  <2> QED BY <2>3, <2>4
<1>7. Shape'
  BY <1>1 DEF Shape
<1>8. ForkOK' /\ ExitOK'
  BY DEF StepInv, PhaseOK, ForkOK, ExitOK
<1>9. KnownSettled' = KnownSettled
  BY DEF KnownSettled
<1> QED BY <1>3, <1>4, <1>5, <1>6, <1>7, <1>8, <1>9 DEF StepInv, Contents, PhaseOK

\* The end of the stream is published; an attempt that could not start returns.
LEMMA StreamedInv == ASSUME StepInv, Streamed PROVE StepInv'
<1>1. /\ attempt.pc = "streamed" /\ Shape /\ step \in Step
      /\ UNCHANGED <<log, step, calls, fiber, captured, interrupted>>
  BY DEF StepInv, Streamed, At, Shape
<1>2. Phase = "streamed"
  BY <1>1 DEF Phase
<1>3. ~HasEnd /\ StepRecord
  BY <1>2 DEF StepInv, PhaseOK, CloseOK, Contents
<1>4. CASE attempt.exit = "interrupted" /\ ~CanStart
  <2>1. Return("unrecorded") /\ ~step.started
    BY <1>4 DEF Streamed, CanStart
  <2>2. PICK outcome \in Outcomes : outcome = "unrecorded" /\ Return(outcome)
    BY <2>1 DEF Outcomes
  <2>3. /\ attempt' \in Attempt /\ attempt'.pc = "returned" /\ attempt'.outbox = attempt.outbox
        /\ Phase' = "returned" /\ attempt'.outcome = outcome /\ attempt'.exit = attempt.exit
    BY <1>1, <2>2, Returns
  <2>4. /\ JoinOK' /\ CloseOK' /\ OutcomeOK' => StepInv'
        /\ HasEnd' = HasEnd /\ KnownSettled' = KnownSettled
    BY <1>1, <1>2, <2>3, Advances
  <2>5. ASSUME NEW t \in Calls PROVE fiber[t] \in Ended \union {None}
    <3>1. CallRecord(t) /\ CallOK(t)
      BY DEF StepInv, Contents
    <3>2. calls[t].state = "unknown"
      BY <1>3, <2>1, <3>1 DEF StepRecord, CallRecord
    <3> QED BY <3>1, <3>2 DEF CallOK
  <2>6. JoinOK'
    BY <1>1, <2>5 DEF JoinOK
  <2>7. CloseOK'
    BY <2>3 DEF CloseOK
  <2>8. OutcomeOK'
    BY <1>1, <2>1, <2>2, <2>3 DEF OutcomeOK, Again
  <2> QED BY <2>4, <2>6, <2>7, <2>8
<1>5. CASE ~(attempt.exit = "interrupted" /\ ~CanStart)
  <2>1. PICK then \in {"stopping", "joining"} :
          Publish(IF step.started THEN <<Event("streamed")>> ELSE <<>>, then)
    BY <1>5 DEF Streamed
  <2>2. PICK x \in StepEvent : x = Event("streamed") /\ x.type = "streamed" /\ x.call = None
    BY ONLY Events DEF EventTypes
  <2>3. PICK events \in Seq(StepEvent) :
          /\ events = IF step.started THEN <<Event("streamed")>> ELSE <<>>
          /\ Ordered(events) /\ ToSet(events) = IF step.started THEN {x} ELSE {}
    <3>1. CASE step.started
      BY <2>2, <3>1, NoneOrOne
    <3>2. CASE ~step.started
      BY <3>2, NoneOrOne
    <3> QED BY <3>1, <3>2
  <2>4. /\ attempt' \in Attempt /\ attempt'.pc = "publishing" /\ attempt'.outbox = events /\ Phase' = then
        /\ attempt'.exit = attempt.exit
    BY <1>1, <2>1, <2>3, Publishes DEF Phases
  <2>5. x # Event("started") /\ ~IsEnd(x) /\ x.type # "started" /\ x.type \notin CallTypes \union {"text"}
    BY <2>2 DEF IsEnd, Event, Of, CallTypes
  <2>6. /\ \A y \in ToSet(events) : y.type \notin CallTypes \union {"text"}
        /\ \A y \in ToSet(events) : y.type = "started" => y = Event("started") /\ ~step.started
        /\ step' \in Step /\ step'.output = step.output /\ step'.blocked = step.blocked
        /\ step'.failure = step.failure /\ step'.finish = step.finish
        /\ (step'.started <=> step.started \/ Event("started") \in ToSet(events))
        /\ (ToSet(events) # {} => step'.started)
        /\ Phase' \in Phases \ {"stream", "forking"}
        /\ UNCHANGED <<log, calls, fiber, captured, interrupted>>
    BY <1>1, <2>3, <2>4, <2>5 DEF Phases
  <2>7. /\ JoinOK' /\ CloseOK' /\ OutcomeOK' => StepInv'
        /\ HasEnd' <=> \E y \in ToSet(events) : IsEnd(y)
    BY <1>1, <1>2, <1>3, <2>3, <2>4, <2>6, StepPublishes
  <2>8. ~HasEnd'
    BY <2>3, <2>5, <2>7
  <2>9. JoinOK' /\ CloseOK' /\ OutcomeOK'
    BY <2>4, <2>8 DEF JoinOK, CloseOK, OutcomeOK
  <2> QED BY <2>7, <2>9
<1> QED BY <1>4, <1>5

\* The retry policy decides: an attempt is repeated in silence, or settles.
LEMMA DecideRetryInv == ASSUME StepInv, DecideRetry PROVE StepInv'
<1>1. /\ attempt.pc = "deciding" /\ Shape /\ step \in Step /\ attempt \in Attempt
      /\ UNCHANGED <<log, calls, fiber, captured, interrupted>>
  BY DEF StepInv, DecideRetry, At, Shape
<1>2. Phase = "deciding"
  BY <1>1 DEF Phase
<1>3. CASE interrupted /\ Return("struck") /\ UNCHANGED step
  <2>1. UNCHANGED <<log, step, calls, fiber, captured, interrupted>>
    BY <1>1, <1>3
  <2>2. PICK outcome \in {"struck"} \union Again : Return(outcome) /\ outcome = "struck"
    BY <1>3
  <2>3. outcome \notin Again
    BY <2>2 DEF Again
  <2> QED BY <1>1, <2>1, <2>2, <2>3, ReturnsEarly
<1>4. ASSUME NEW decision \in BOOLEAN, UNCHANGED step,
             attempt' = [attempt EXCEPT !.pc = "settling", !.retry = decision]
      PROVE  StepInv'
  <2>1. PICK pc \in {"judging", "deciding", "settling"} : pc = "settling"
    OBVIOUS
  <2>2. attempt' \in Attempt /\ attempt'.pc = pc /\ attempt'.outbox = attempt.outbox /\ attempt'.exit = attempt.exit
    BY <1>1, <1>4, <2>1 DEF Attempt, Phases
  <2>3. UNCHANGED <<log, step, calls, fiber, captured, interrupted>> /\ attempt.pc \in {"compacting", "judging", "deciding"}
    BY <1>1, <1>4
  <2> QED BY <2>2, <2>3, GoesOn
<1>5. ASSUME ~step.output, step' = [step EXCEPT !.started = TRUE],
             attempt' = [attempt EXCEPT !.pc = "publishing", !.outbox = Start,
                                        !.then = "returned", !.outcome = "Retry"]
      PROVE  StepInv'
  <2>1. /\ step' \in Step /\ step'.started /\ step'.output = step.output /\ step'.blocked = step.blocked
        /\ step'.failure = step.failure /\ step'.finish = step.finish
    BY <1>1, <1>5 DEF Step
  <2>2. PICK events \in Seq(StepEvent) :
          events = Start /\ Ordered(events) /\ ToSet(events) = IF step.started THEN {} ELSE {Event("started")}
    BY <1>1, Starts
  <2>3. attempt' = [attempt EXCEPT !.pc = "publishing", !.outbox = events, !.then = "returned", !.outcome = "Retry"]
    BY <1>5, <2>2
  <2>4. attempt' \in Attempt
    BY <1>1, <2>3 DEF Attempt, Phases, Outcomes, Again
  <2>5. /\ attempt'.pc = "publishing" /\ attempt'.outbox = events /\ attempt'.then = "returned"
        /\ attempt'.exit = attempt.exit /\ attempt'.outcome = "Retry"
    BY <1>1, <2>3 DEF Attempt
  <2>6. Phase' = "returned"
    BY <2>5 DEF Phase
  <2>7. Event("started").type = "started" /\ ~IsEnd(Event("started"))
    BY DEF Event, Of, IsEnd
  <2>8. /\ \A y \in ToSet(events) : y.type \notin CallTypes \union {"text"}
        /\ \A y \in ToSet(events) : y.type = "started" => y = Event("started") /\ ~step.started
        /\ (step'.started <=> step.started \/ Event("started") \in ToSet(events))
        /\ Phase' \in Phases \ {"stream", "forking"}
    BY <2>1, <2>2, <2>6, <2>7 DEF Phases, CallTypes
  <2>9. ~HasEnd
    BY <1>2 DEF StepInv, PhaseOK, CloseOK
  <2>10. /\ JoinOK' /\ CloseOK' /\ OutcomeOK' => StepInv'
         /\ HasEnd' <=> \E y \in ToSet(events) : IsEnd(y)
    BY <1>1, <1>2, <2>1, <2>2, <2>4, <2>5, <2>8, <2>9, StepPublishes
  <2>11. ~HasEnd'
    BY <2>2, <2>7, <2>10
  <2>12. JoinOK'
    BY <1>1, <1>2 DEF StepInv, PhaseOK, JoinOK
  <2>13. CloseOK' /\ OutcomeOK'
    BY <1>5, <2>1, <2>5, <2>6, <2>11 DEF CloseOK, OutcomeOK, Outcomes, Again
  <2> QED BY <2>10, <2>12, <2>13
<1> QED BY <1>3, <1>4, <1>5 DEF DecideRetry

\* The step is closed, unless the stream had a defect before its end was known.
LEMMA CloseStepInv == ASSUME StepInv, CloseStep PROVE StepInv'
<1>1. /\ attempt.pc = "closing" /\ Shape /\ step \in Step /\ attempt \in Attempt
      /\ UNCHANGED <<log, calls, fiber, captured, interrupted>>
  BY DEF StepInv, CloseStep, At, Shape
<1>2. Phase = "closing"
  BY <1>1 DEF Phase
<1>3. ~HasEnd /\ (attempt.exit # "defect" => KnownSettled /\ (step.failure \/ step.finish # None))
  BY <1>2 DEF StepInv, PhaseOK, CloseOK
<1>4. CASE ~(step.failure \/ step.finish # None)
  <2>1. GoTo("leaving") /\ UNCHANGED <<log, step, calls, fiber, captured, interrupted>>
    BY <1>1, <1>4 DEF CloseStep
  <2>2. PICK pc \in Phases : pc = "leaving" /\ GoTo(pc)
    BY <2>1 DEF Phases
  <2>3. /\ attempt' \in Attempt /\ attempt'.pc = pc /\ attempt'.outbox = attempt.outbox /\ Phase' = pc
        /\ attempt'.exit = attempt.exit
    BY <1>1, <2>2, Goes
  <2>4. /\ JoinOK' /\ CloseOK' /\ OutcomeOK' => StepInv'
        /\ HasEnd' = HasEnd
    BY <1>1, <1>2, <2>1, <2>2, <2>3, Advances
  <2>5. JoinOK'
    BY <1>1, <1>2 DEF StepInv, PhaseOK, JoinOK
  <2>6. CloseOK' /\ OutcomeOK'
    BY <1>3, <1>4, <2>1, <2>2, <2>3, <2>4 DEF CloseOK, OutcomeOK
  <2> QED BY <2>4, <2>5, <2>6
<1>5. CASE step.failure \/ step.finish # None
  <2>1. PICK type \in {"failed", "ended"} :
          step' = [step EXCEPT !.started = TRUE] /\ Publish(Start \o <<Event(type)>>, "leaving")
    BY <1>5 DEF CloseStep
  <2>2. /\ step' \in Step /\ step'.started /\ step'.output = step.output /\ step'.blocked = step.blocked
        /\ step'.failure = step.failure /\ step'.finish = step.finish
    BY <1>1, <2>1 DEF Step
  <2>3. PICK x \in StepEvent : x = Event(type) /\ x.type = type /\ x.call = None
    BY ONLY type \in {"failed", "ended"}, Events DEF EventTypes
  <2>4. PICK events \in Seq(StepEvent) :
          events = Start \o <<Event(type)>> /\ Ordered(events) /\ ToSet(events) = ToSet(Start) \union {x}
    BY <1>1, <2>3, StartsWith
  <2>5. ToSet(Start) = IF step.started THEN {} ELSE {Event("started")}
    BY <1>1, Starts
  <2>6. /\ attempt' \in Attempt /\ attempt'.pc = "publishing" /\ attempt'.outbox = events /\ Phase' = "leaving"
        /\ attempt'.exit = attempt.exit
    BY <1>1, <2>1, <2>4, Publishes DEF Phases
  <2>7. /\ Event("started").type = "started" /\ IsEnd(x) /\ x.type # "started"
        /\ x.type \notin CallTypes \union {"text"} /\ x # Event("started")
    BY <2>3 DEF Event, Of, IsEnd, CallTypes
  <2>8. /\ \A y \in ToSet(events) : y.type \notin CallTypes \union {"text"}
        /\ \A y \in ToSet(events) : y.type = "started" => y = Event("started") /\ ~step.started
        /\ (step'.started <=> step.started \/ Event("started") \in ToSet(events))
        /\ Phase' \in Phases \ {"stream", "forking"}
    BY <2>2, <2>4, <2>5, <2>6, <2>7 DEF Phases, CallTypes
  <2>9. /\ JoinOK' /\ CloseOK' /\ OutcomeOK' => StepInv'
        /\ HasEnd' <=> \E y \in ToSet(events) : IsEnd(y)
        /\ KnownSettled' = KnownSettled
    BY <1>1, <1>2, <1>3, <2>2, <2>4, <2>6, <2>8, StepPublishes
  <2>10. HasEnd'
    BY <2>4, <2>7, <2>9
  <2>11. JoinOK'
    BY <1>1, <1>2 DEF StepInv, PhaseOK, JoinOK
  <2>12. CloseOK' /\ OutcomeOK'
    BY <1>3, <2>2, <2>6, <2>9, <2>10 DEF CloseOK, OutcomeOK
  <2> QED BY <2>9, <2>11, <2>12
<1> QED BY <1>4, <1>5

\* Whatever the stream, the tools and the user did, the sweep leaves no known call
\* unsettled: only after a defect of the stream may one be.
LEMMA SweptIsEnough ==
  ASSUME StepInv, attempt.pc = "settling", attempt.exit # "defect", NEW t \in Unsettled
  PROVE  t \in Swept
<1>1. Shape /\ t \in Calls /\ calls[t].state # "unknown" /\ ~calls[t].settled /\ Phase = "settling"
  BY DEF StepInv, Unsettled, Phase
<1>2. CallOK(t) /\ fiber[t] \in Ended \union {None} /\ attempt.exit \in StreamExits
  BY <1>1 DEF StepInv, PhaseOK, JoinOK, ExitOK
<1>3. CASE Interrupts \/ ToolDied \/ step.blocked
  BY <1>3 DEF Swept
<1>4. CASE ~Interrupts /\ ~ToolDied /\ ~step.blocked
  <2>1. attempt.exit # "interrupted" /\ Declined = {} /\ ~ToolsInterrupted
    BY <1>4 DEF Interrupts
  <2>2. attempt.exit \in Failures \/ attempt.exit = "success"
    BY <1>2, <2>1 DEF StreamExits
  <2>3. ProviderError \/ (attempt.exit = "success" /\ ~step.blocked)
    BY <1>4, <2>2 DEF ProviderError, ProviderFailed
  <2>4. fiber[t] \notin {"declined", "died", "interrupted", "success"}
    BY <1>1, <1>2, <1>4, <2>1 DEF Declined, ToolsInterrupted, ToolDied, CallOK
  <2>5. fiber[t] = None
    BY <1>2, <2>4 DEF Ended
  <2>6. calls[t].state # "called" \/ calls[t].hosted
    BY <1>1, <1>2, <2>1, <2>5 DEF CallOK
  <2>7. t \in HostedCalls \union Uncalled
    BY <2>6 DEF HostedCalls, Uncalled
  <2> QED BY <2>3, <2>7 DEF Swept
<1> QED BY <1>3, <1>4

\* The attempt settles the rest.
LEMMA SettleRestInv == ASSUME StepInv, SettleRest PROVE StepInv'
<1>1. /\ attempt.pc = "settling" /\ Shape /\ step \in Step /\ attempt \in Attempt
      /\ UNCHANGED <<log, fiber, captured, interrupted>> /\ MarkSettled(Swept)
  BY DEF StepInv, SettleRest, At, Shape
<1>2. PICK fails \in BOOLEAN : fails = (ProviderError \/ Interrupts)
  OBVIOUS
<1>3. /\ step' = [step EXCEPT !.failure = @ \/ fails, !.started = @ \/ fails]
      /\ Publish(Settling(Swept) \o (IF fails THEN Start ELSE <<>>), "closing")
  BY <1>2 DEF SettleRest
<1>4. Phase = "settling" /\ attempt.pc # "publishing"
  BY <1>1 DEF Phase
<1>5. ~HasEnd /\ attempt.exit \in StreamExits /\ (attempt.exit = "success" => step.finish # None)
      /\ (step.blocked => step.failure)
  BY <1>4 DEF StepInv, PhaseOK, CloseOK, ExitOK
<1>6. PICK S \in SUBSET Unsettled : S = Swept
  BY DEF Swept, HostedCalls, Uncalled
<1>7. S \in SUBSET Calls
  BY DEF Unsettled
<1>8. /\ step' \in Step /\ (step'.started <=> step.started \/ fails) /\ step'.output = step.output
      /\ step'.blocked = step.blocked /\ (step'.failure <=> step.failure \/ fails) /\ step'.finish = step.finish
  <2>1. PICK f \in BOOLEAN, g \in BOOLEAN : f = (step.failure \/ fails) /\ g = (step.started \/ fails)
    OBVIOUS
  <2>2. step' = [step EXCEPT !.failure = f, !.started = g]
    BY <1>3, <2>1
  <2> QED BY <1>1, <2>1, <2>2 DEF Step
<1>9. PICK events \in Seq(StepEvent) :
        /\ events = Settling(S) \o (IF fails THEN Start ELSE <<>>) /\ Ordered(events)
        /\ ToSet(events) = ToSet(Settling(S)) \union (IF fails THEN ToSet(Start) ELSE {})
  <2>1. CASE fails
    <3>1. /\ Settling(S) \o Start \in Seq(StepEvent) /\ Ordered(Settling(S) \o Start)
          /\ ToSet(Settling(S) \o Start) = ToSet(Settling(S)) \union ToSet(Start)
      BY SettlesAndStarts
    <3> QED BY <2>1, <3>1
  <2>2. CASE ~fails
    <3>1. PICK settling \in Seq(StepEvent) : settling = Settling(S) /\ Ordered(settling)
      BY <1>7, Settles
    <3>2. settling \o <<>> = settling
      BY ConcatEmptySeq
    <3> QED BY <2>2, <3>1, <3>2
  <2> QED BY <2>1, <2>2
<1>10. /\ attempt' \in Attempt /\ attempt'.pc = "publishing" /\ attempt'.outbox = events /\ Phase' = "closing"
       /\ attempt'.exit = attempt.exit
  <2>1. Publish(events, "closing")
    BY <1>3, <1>6, <1>9
  <2> QED BY <1>1, <2>1, Publishes DEF Phases
<1>11. UNCHANGED <<log, fiber>> /\ MarkSettled(S)
  BY <1>1, <1>6
<1>12. /\ Sequenced' /\ Contents' /\ ~HasEnd' /\ calls' \in [Calls -> Call]
       /\ \A u \in Calls : /\ calls'[u].state = calls[u].state /\ calls'[u].hosted = calls[u].hosted
                           /\ calls'[u].settled <=> calls[u].settled \/ u \in S
  BY <1>4, <1>5, <1>8, <1>9, <1>10, <1>11, SettlesSome
<1>13. attempt.exit # "defect" => KnownSettled'
  <2> SUFFICES ASSUME attempt.exit # "defect", NEW u \in Calls, calls'[u].state # "unknown"
               PROVE  calls'[u].settled
    BY DEF KnownSettled
  <2>1. calls[u].settled \/ u \in Unsettled
    BY <1>12 DEF Unsettled
  <2>2. u \in Unsettled => u \in S
    BY <1>1, <1>6, SweptIsEnough
  <2> QED BY <1>12, <2>1, <2>2
<1>14. attempt.exit # "defect" => step'.failure \/ step'.finish # None
  <2>1. attempt.exit \in Failures => ProviderError \/ step.blocked
    BY DEF ProviderError, ProviderFailed
  <2>2. attempt.exit = "interrupted" => Interrupts
    BY DEF Interrupts
  <2> QED BY <1>2, <1>5, <1>8, <2>1, <2>2 DEF StreamExits
<1>15. PhaseOK'
  <2>1. ForkOK' /\ OutcomeOK' /\ ExitOK'
    BY <1>5, <1>8, <1>10 DEF ForkOK, OutcomeOK, ExitOK
  <2>2. JoinOK'
    BY <1>1, <1>4 DEF StepInv, PhaseOK, JoinOK
  <2>3. CloseOK'
    BY <1>10, <1>12, <1>13, <1>14 DEF CloseOK
  <2> QED BY <2>1, <2>2, <2>3 DEF PhaseOK
<1>16. Shape'
  BY <1>1, <1>8, <1>10, <1>12 DEF Shape, Phases
<1>17. ASSUME NEW u \in Calls PROVE CallOK(u)'
  <2>1. CallOK(u) /\ (u \in S => calls[u].state # "unknown")
    BY DEF StepInv, Unsettled
  <2>2. /\ calls'[u].state = calls[u].state /\ calls'[u].hosted = calls[u].hosted
        /\ calls'[u].settled <=> calls[u].settled \/ u \in S
    BY <1>12
  <2> QED BY <1>1, <1>4, <1>8, <1>10, <2>1, <2>2 DEF CallOK
<1> QED BY <1>12, <1>15, <1>16, <1>17 DEF StepInv

-----------------------------------------------------------------------------
(* Every step *)

\* Every step keeps the invariant.
LEMMA NextInv == ASSUME StepInv, [StepNext]_stepVars PROVE StepInv'
<1>1. CASE UNCHANGED stepVars \/ Capture \/ Interrupt
  BY <1>1, EnvironmentInv
<1>2. CASE Provider
  <2>1. CASE StepStarts
    BY <2>1, StepStartsInv
  <2>2. CASE TextStarts
    BY <2>2, TextStartsInv
  <2>3. ASSUME NEW t \in Calls, NEW hosted \in BOOLEAN, ToolCalled(t, hosted) PROVE StepInv'
    BY <2>3, ToolCalledInv
  <2>4. ASSUME NEW t \in Calls, InputStarts(t) \/ InputFails(t) PROVE StepInv'
    BY <2>4, InputInv
  <2>5. ASSUME NEW t \in Calls, HostedResult(t) PROVE StepInv'
    BY <2>5, HostedResultInv
  <2>6. ASSUME NEW reason \in FinishReasons, StepFinishes(reason) PROVE StepInv'
    BY <2>6, StepFinishesInv
  <2>7. ASSUME NEW exit \in StreamExits, StreamEnds(exit) PROVE StepInv'
    BY <2>7, StreamEndsInv
  <2> QED BY <1>2, <2>1, <2>2, <2>3, <2>4, <2>5, <2>6, <2>7 DEF Provider
<1>3. CASE AttemptStep
  <2>1. CASE PublishNext \/ Published
    BY <2>1, PublishNextInv, PublishedInv
  <2>2. CASE Fork
    BY <2>2, ForkInv
  <2>3. CASE StreamEnds("interrupted")
    BY <2>3, StreamEndsInv DEF StreamExits
  <2>4. CASE Streamed
    BY <2>4, StreamedInv
  <2>5. CASE Join \/ Stopped
    BY <2>5, JoinInv, StoppedInv
  <2>6. CASE Overflow \/ Compacts
    BY <2>6, OverflowInv, CompactsInv
  <2>7. CASE Judge \/ DecideRetry
    BY <2>7, JudgeInv, DecideRetryInv
  <2>8. CASE SettleRest
    BY <2>8, SettleRestInv
  <2>9. CASE CloseStep \/ Leave
    BY <2>9, CloseStepInv, LeaveInv
  <2> QED BY <1>3, <2>1, <2>2, <2>3, <2>4, <2>5, <2>6, <2>7, <2>8, <2>9 DEF AttemptStep
<1>4. ASSUME NEW t \in Calls, ToolReturns(t) \/ ToolPublishes(t) \/ ToolGivesUp(t) \/ ToolInterrupted(t)
      PROVE  StepInv'
  BY <1>4, ToolReturnsInv, ToolPublishesInv, ToolEndsInv
<1> QED BY <1>1, <1>2, <1>3, <1>4 DEF StepNext

\* However the provider's events, the tool fibers and the interrupt interleave, the
\* record, the marks of the publisher and the phase of the attempt fit each other.
THEOREM StepInvariant == StepSpec => []StepInv
<1>1. StepInit => StepInv
  BY InitStep
<1>2. StepInv /\ [StepNext]_stepVars => StepInv'
  BY NextInv
<1> QED BY <1>1, <1>2, PTL DEF StepSpec

\* Every variable of an attempt keeps its type, and only a call that was made and
\* that a local tool executes has a fiber.
THEOREM StepTypes == StepSpec => []StepTypeOK
<1>1. StepInv => StepTypeOK
  <2> SUFFICES ASSUME StepInv PROVE StepTypeOK
    OBVIOUS
  <2>1. Shape /\ (\A t \in Calls : CallOK(t)) /\ PhaseOK
    BY DEF StepInv
  <2>2. /\ log \in Seq([type : EventTypes, call : Calls \union {None}]) /\ step \in Step
        /\ calls \in [Calls -> Call] /\ fiber \in [Calls -> {None, "running", "settling"} \union Ended]
        /\ {captured, interrupted} \subseteq BOOLEAN /\ attempt.exit \in StreamExits \union {None}
    BY <2>1 DEF Shape, StepEvent, Attempt
  <2>3. At("returned") => attempt.outcome \in Outcomes /\ attempt.outbox = <<>>
    BY <2>1 DEF At, PhaseOK, OutcomeOK, Shape, Phase
  <2>4. ASSUME NEW t \in Calls
        PROVE  /\ calls[t].settled => calls[t].state # "unknown"
               /\ fiber[t] # None => calls[t].state = "called" /\ ~calls[t].hosted
    BY <2>1 DEF CallOK
  <2> QED BY <2>2, <2>3, <2>4 DEF StepTypeOK, Step, Call
<1> QED BY <1>1, StepInvariant, PTL

-----------------------------------------------------------------------------
(* What the record shows *)

\* A set of positions of which no two differ holds at most one.
LEMMA AtMostOne ==
  ASSUME NEW S, \A i, j \in S : i = j
  PROVE  Cardinality(S) <= 1
<1>1. CASE S = {}
  BY <1>1, FS_EmptySet
<1>2. CASE S # {}
  <2>1. PICK i : i \in S
    BY <1>2
  <2>2. S = {i} /\ Cardinality({i}) = 1
    BY <2>1, FS_Singleton
  <2>3. Cardinality(S) = 1
    BY <2>2
  <2> QED BY <2>3
<1> QED BY <1>1, <1>2

\* Where an event of the record is not in the outbox, it is in the log.
LEMMA InTheLog ==
  ASSUME Shape, NEW x \in Record, x \notin ToSet(attempt.outbox)
  PROVE  \E j \in 1..Len(log) : log[j] = x
BY DEF Shape, Record, ToSet

\* The record makes sense to whoever folds it, whenever he reads it: the step's
\* start is first and its end last, each call has its input before its call and
\* both before the one event that settles it.
THEOREM TheRecordIsInOrder == StepSpec => []RecordInOrder
<1>1. StepInv => RecordInOrder
  <2> SUFFICES ASSUME StepInv PROVE RecordInOrder
    OBVIOUS
  <2>1. Shape /\ Sequenced /\ StepRecord /\ \A t \in Calls : CallRecord(t)
    BY DEF StepInv, Contents
  <2>2. log \in Seq(StepEvent) /\ DOMAIN log = 1..Len(log) /\ Len(log) \in Nat
    BY <2>1 DEF Shape
  <2>3. \A i \in 1..Len(log) : log[i] \in ToSet(log) /\ log[i] \in Record /\ log[i] \in StepEvent
    BY <2>2 DEF ToSet, Record
  <2>4. \A i, j \in 1..Len(log) : i < j => Precedes(log[i], log[j])
    BY <2>1 DEF Sequenced, Ordered
  <2>5. \A i \in 1..Len(log), y \in ToSet(attempt.outbox) : Precedes(log[i], y)
    BY <2>1, <2>3 DEF Sequenced
  <2>6. log # <<>> => log[1] = Event("started")
    <3> SUFFICES ASSUME log # <<>> PROVE log[1] = Event("started")
      OBVIOUS
    <3>1. 1 \in 1..Len(log)
      BY <2>2
    <3>2. Event("started") \in Record
      BY <2>1, <2>3, <3>1 DEF StepRecord
    <3>3. Event("started").type = "started"
      BY DEF Event, Of
    <3>4. Event("started") \notin ToSet(attempt.outbox)
      BY <2>5, <3>1, <3>3 DEF Precedes
    <3>5. PICK j \in 1..Len(log) : log[j] = Event("started")
      BY <2>1, <3>2, <3>4, InTheLog
    <3>6. ~(1 < j)
      BY <2>4, <3>1, <3>3, <3>5 DEF Precedes
    <3>7. j = 1
      BY <2>2, <3>6
    <3> QED BY <3>5, <3>7
  <2>7. ASSUME NEW i \in 1..Len(log), i > 1 PROVE log[i].type # "started"
    <3>1. 1 \in 1..Len(log) /\ 1 < i
      BY <2>2, <2>7
    <3> QED BY <2>4, <3>1 DEF Precedes
  <2>8. ASSUME NEW i \in 1..Len(log), log[i].type \in {"failed", "ended"} PROVE i = Len(log)
    <3>1. Len(log) \in 1..Len(log)
      BY <2>2
    <3>2. ~(i < Len(log))
      BY <2>4, <2>8, <3>1 DEF Precedes, IsEnd
    <3>3. i \in Nat /\ i <= Len(log) /\ Len(log) \in Nat
      BY <2>2
    <3> QED BY ONLY <3>2, <3>3
  <2>9. ASSUME NEW t \in Calls, NEW i \in 1..Len(log), log[i] \in {Of("called", t), Of("settled", t)}
        PROVE  \E j \in Positions("input", t) : j < i
    <3>1. Of("input", t) \in Record
      <4>1. log[i] \in Record /\ CallRecord(t)
        BY <2>1, <2>3
      <4>2. calls[t].settled => calls[t].state # "unknown"
        BY DEF StepInv, CallOK
      <4> QED BY <2>9, <4>1, <4>2 DEF CallRecord
    <3>2. /\ Of("input", t).type = "input" /\ Of("input", t).call = t
          /\ log[i].type \in {"called", "settled"} /\ log[i].call = t
      BY <2>9 DEF Of
    <3>3. ~Precedes(log[i], Of("input", t))
      BY <3>2 DEF Precedes, CallTypes, CallOrder
    <3>4. PICK j \in 1..Len(log) : log[j] = Of("input", t)
      BY <2>1, <2>5, <3>1, <3>3, InTheLog
    <3>5. ~(i < j) /\ i # j
      BY <2>4, <3>2, <3>3, <3>4
    <3>6. j < i
      BY <2>2, <3>5
    <3> QED BY <2>2, <3>4, <3>6 DEF Positions
  <2>10. ASSUME NEW t \in Calls, NEW type \in CallTypes PROVE Cardinality(Positions(type, t)) <= 1
    <3>1. Of(type, t).type = type /\ Of(type, t).call = t
      BY DEF Of
    <3>2. ~Precedes(Of(type, t), Of(type, t))
      BY <3>1 DEF Precedes, CallTypes, CallOrder
    <3>3. ASSUME NEW i \in Positions(type, t), NEW j \in Positions(type, t) PROVE i = j
      <4>1. i \in 1..Len(log) /\ j \in 1..Len(log) /\ log[i] = Of(type, t) /\ log[j] = Of(type, t)
        BY <2>2 DEF Positions
      <4>2. ~(i < j) /\ ~(j < i)
        BY <2>4, <3>2, <4>1
      <4> QED BY <2>2, <4>1, <4>2
    <3> QED BY <3>3, AtMostOne
  <2>11. ASSUME NEW t \in Calls, NEW i \in Positions("settled", t), NEW j \in Positions("called", t)
         PROVE  j < i
    <3>1. i \in 1..Len(log) /\ j \in 1..Len(log) /\ log[i] = Of("settled", t) /\ log[j] = Of("called", t)
      BY <2>2 DEF Positions
    <3>2. ~Precedes(log[i], log[j]) /\ log[i] # log[j]
      BY <3>1 DEF Precedes, CallTypes, CallOrder, Of
    <3>3. ~(i < j) /\ i # j
      BY <2>4, <3>1, <3>2
    <3> QED BY <2>2, <3>1, <3>3
  <2>12. ASSUME NEW t \in Calls
         PROVE  /\ \A type \in CallTypes : Cardinality(Positions(type, t)) <= 1
                /\ \A i \in Positions("called", t) : \E j \in Positions("input", t) : j < i
                /\ \A i \in Positions("settled", t) :
                     /\ \E j \in Positions("input", t) : j < i
                     /\ \A j \in Positions("called", t) : j < i
    <3>1. \A i \in Positions("called", t) : i \in 1..Len(log) /\ log[i] = Of("called", t)
      BY <2>2 DEF Positions
    <3>2. \A i \in Positions("settled", t) : i \in 1..Len(log) /\ log[i] = Of("settled", t)
      BY <2>2 DEF Positions
    <3> QED BY <2>9, <2>10, <2>11, <3>1, <3>2
  <2> QED BY <2>2, <2>6, <2>7, <2>8, <2>12 DEF RecordInOrder, CallTypes
<1> QED BY <1>1, StepInvariant, PTL

\* However the provider, the tools and the user end it, an attempt that is neither
\* repeated nor struck, and whose stream had no defect, leaves no call unsettled in
\* the record and its step closed.
THEOREM AttemptsSettle == StepSpec => []AttemptSettles
<1>1. StepInv => AttemptSettles
  <2> SUFFICES ASSUME StepInv, At("returned"), attempt.exit # "defect",
                      attempt.outcome \notin Again \union {"struck"}
               PROVE  AllSettled /\ (attempt.outcome = "unrecorded" \/ Recorded("failed") \/ Recorded("ended"))
    BY DEF AttemptSettles
  <2>1. Shape /\ attempt.pc = "returned" /\ StepRecord /\ \A t \in Calls : CallRecord(t)
    BY DEF StepInv, Contents, At
  <2>2. Record = ToSet(log) /\ Phase = "returned"
    BY <2>1, NothingToPublish
  <2>3. log \in Seq(StepEvent) /\ DOMAIN log = 1..Len(log)
    BY <2>1 DEF Shape
  <2>4. ASSUME NEW type, NEW t PROVE Positions(type, t) # {} <=> Of(type, t) \in Record
    BY <2>2, <2>3 DEF Positions, ToSet
  <2>5. OutcomeOK /\ JoinOK
    BY DEF StepInv, PhaseOK
  <2>6. CASE attempt.outcome = "unrecorded"
    <3>1. Record = {}
      BY <2>1, <2>2, <2>5, <2>6 DEF OutcomeOK, StepRecord
    <3> QED BY <2>4, <2>6, <3>1 DEF AllSettled
  <2>7. CASE attempt.outcome # "unrecorded"
    <3>1. KnownSettled /\ HasEnd
      BY <2>2, <2>5, <2>7 DEF OutcomeOK
    <3>2. Recorded("failed") \/ Recorded("ended")
      BY <2>2, <3>1 DEF HasEnd, IsEnd, Recorded, ToSet
    <3>3. ASSUME NEW t \in Calls, Positions("input", t) # {} PROVE Positions("settled", t) # {}
      <4>1. calls[t].state # "unknown"
        BY <2>1, <2>4, <3>3 DEF CallRecord
      <4>2. calls[t].settled
        BY <3>1, <4>1 DEF KnownSettled
      <4>3. fiber[t] # "settling"
        BY <2>2, <2>5 DEF JoinOK, Ended, None
      <4> QED BY <2>1, <2>4, <4>2, <4>3 DEF CallRecord
    <3> QED BY <3>2, <3>3 DEF AllSettled
  <2> QED BY <2>6, <2>7
<1> QED BY <1>1, StepInvariant, PTL

\* An attempt is repeated behind the user's back only if nothing of it was seen
\* and no tool of it ran.
THEOREM SilentRepeats == StepSpec => []RepeatsAreSilent
<1>1. StepInv => RepeatsAreSilent
  <2> SUFFICES ASSUME StepInv, At("returned"), attempt.outcome \in Again
               PROVE  /\ \A i \in DOMAIN log : log[i].type \in {"started", "streamed"}
                      /\ \A t \in Calls : fiber[t] = None
    BY DEF RepeatsAreSilent
  <2>1. Shape /\ attempt.pc = "returned" /\ StepRecord /\ \A t \in Calls : CallRecord(t) /\ CallOK(t)
    BY DEF StepInv, Contents, At
  <2>2. Record = ToSet(log) /\ Phase = "returned" /\ \A x \in Record : x \in StepEvent
    BY <2>1, NothingToPublish
  <2>3. ~step.output /\ ~HasEnd
    BY <2>2 DEF StepInv, PhaseOK, OutcomeOK
  <2>4. \A t \in Calls : calls[t].state = "unknown" /\ fiber[t] = None
    BY <2>1, <2>3 DEF CallOK
  <2>5. ASSUME NEW x \in Record PROVE x.type \in {"started", "streamed"}
    <3>1. x \in StepEvent /\ x.type # "text" /\ ~IsEnd(x)
      BY <2>1, <2>2, <2>3 DEF StepRecord, HasEnd
    <3>2. x.type \notin CallTypes
      <4> SUFFICES ASSUME x.type \in CallTypes PROVE FALSE
        OBVIOUS
      <4>1. x.call \in Calls
        BY <2>1 DEF StepRecord
      <4>2. x = Of(x.type, x.call)
        BY <3>1 DEF Of, StepEvent
      <4>3. calls[x.call].state = "unknown" /\ CallRecord(x.call) /\ CallOK(x.call)
        BY <2>1, <2>4, <4>1
      <4>4. Of("input", x.call) \notin Record /\ Of("called", x.call) \notin Record /\ Of("settled", x.call) \notin Record
        BY <4>3 DEF CallRecord, CallOK
      <4> QED BY <4>2, <4>4 DEF CallTypes
    <3> QED BY <3>1, <3>2 DEF IsEnd, CallTypes, StepEvent, EventTypes
  <2>6. \A i \in DOMAIN log : log[i] \in Record
    BY <2>2 DEF ToSet
  <2> QED BY <2>4, <2>5, <2>6
<1> QED BY <1>1, StepInvariant, PTL

\* After the user declined a call the attempt never lets the model be asked again.
THEOREM DeclinesAreFinal == StepSpec => []DeclinesStop
<1>1. StepInv => DeclinesStop
  <2> SUFFICES ASSUME StepInv, At("returned"), NEW t \in Calls, fiber[t] = "declined"
               PROVE  attempt.outcome \in {"HandedOver", "failed", "interrupted", "defect", "struck"}
    BY DEF DeclinesStop
  <2>1. Shape /\ attempt.pc = "returned" /\ StepRecord /\ CallRecord(t) /\ CallOK(t) /\ OutcomeOK
    BY DEF StepInv, Contents, At, PhaseOK
  <2>2. Phase = "returned"
    BY <2>1, NothingToPublish
  <2>3. calls[t].state = "called" /\ step.output /\ step.started
    BY <2>1 DEF CallOK, CallRecord, StepRecord, None
  <2> QED BY <2>1, <2>2, <2>3 DEF OutcomeOK, Outcomes
<1> QED BY <1>1, StepInvariant, PTL
===============================================================================
