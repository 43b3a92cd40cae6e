------------------------------ MODULE SessionStep ------------------------------
(***************************************************************************)
(* One attempt at a model step (SessionStep.attempt, session/runner/       *)
(* step.ts) with the publisher that records it (publish-llm-event.ts).     *)
(* The attempt reads the provider's stream; each local tool call runs in a *)
(* fiber of its own and records its result there.  When the stream is over *)
(* the attempt waits for its tools, decides whether to ask the model       *)
(* again, settles what is unsettled and closes the step.                   *)
(*                                                                         *)
(* The log holds the durable events of the attempt: text and tool input    *)
(* once per block, deltas and progress not at all.  A handler commits its  *)
(* marks before its first await and publishes afterwards, one event after  *)
(* the other; only the handlers of one fiber are in order.  The provider,  *)
(* the tools, the snapshots, overflow recovery and the retry policy are    *)
(* the environment.                                                        *)
(***************************************************************************)
EXTENDS Naturals, FiniteSets, SequencesExt

CONSTANT Calls  \* IDs of the tool calls the model may make

ASSUME CallsAssumption == IsFiniteSet(Calls)

VARIABLES
  log,          \* the durable events, in the order they were committed
  step,         \* the publisher's marks of the step
  calls,        \* the publisher's marks of each tool call
  fiber,        \* the fibers of local tool calls
  attempt,      \* the fiber of the attempt
  captured,     \* the start snapshot exists
  interrupted   \* the attempt was interrupted: every interruptible part of it ends

stepVars == <<log, step, calls, fiber, attempt, captured, interrupted>>

None == "none"
FinishReasons == {"stop", "length", "unknown", "content-filter"}
\* How the stream ended: with its terminal event, with a provider failure
\* (overflow and transport are told apart), by the interrupt, or with a defect.
Failures == {"overflow", "transport", "failed"}
StreamExits == {"success", "interrupted", "defect"} \union Failures
\* The model is asked again as if this attempt had not been.
Again == {"Retry", "RecoverFull", "Compacted"}
Outcomes == Again \union {"Completed", "OutputLimit", "Continue", "HandedOver",
                          "failed", "interrupted", "defect", "struck", "unrecorded"}
Ended == {"success", "declined", "died", "interrupted"}

Of(type, t) == [type |-> type, call |-> t]
Event(type) == Of(type, None)
Recorded(type) == \E i \in DOMAIN log : log[i].type = type

StepInit ==
  /\ log = <<>>
  /\ step = [started |-> FALSE, output |-> FALSE, blocked |-> FALSE, failure |-> FALSE,
             finish |-> None]
  /\ calls = [t \in Calls |-> [state |-> "unknown", hosted |-> FALSE, settled |-> FALSE]]
  /\ fiber = [t \in Calls |-> None]
  /\ attempt = [pc |-> "stream", then |-> None, outbox |-> <<>>, call |-> None, exit |-> None,
                cut |-> FALSE, retry |-> FALSE, outcome |-> None]
  /\ captured = FALSE
  /\ interrupted = FALSE

-----------------------------------------------------------------------------
(* Marks and publications *)

At(pc) == attempt.pc = pc
GoTo(pc) == attempt' = [attempt EXCEPT !.pc = pc, !.then = None]
Return(outcome) == attempt' = [attempt EXCEPT !.pc = "returned", !.outcome = outcome]
\* Publish the events, uninterruptibly, and go on.
Publish(events, then) ==
  attempt' = [attempt EXCEPT !.pc = "publishing", !.outbox = events, !.then = then]

\* startAssistant waits for the start snapshot.
CanStart == step.started \/ captured
Start == IF step.started THEN <<>> ELSE <<Event("started")>>

Unsettled == {t \in Calls : calls[t].state # "unknown" /\ ~calls[t].settled}
\* Mutant: sweeps calls that were never recorded.
UncalledUnknown == {t \in Calls : calls[t].state # "called" /\ ~calls[t].settled}
Uncalled == {t \in Unsettled : calls[t].state # "called"}
Malformed == {t \in Unsettled : calls[t].state = "malformed"}
HostedCalls == {t \in Unsettled : calls[t].hosted}

\* failTool marks each call before it publishes.
MarkSettled(S) == calls' = [t \in Calls |-> [calls[t] EXCEPT !.settled = @ \/ t \in S]]
Settling(S) == SetToSeq({Of("settled", t) : t \in S})

PublishNext ==
  /\ At("publishing")
  /\ attempt.outbox # <<>>
  /\ log' = Append(log, Head(attempt.outbox))
  /\ attempt' = [attempt EXCEPT !.outbox = Tail(@)]
  /\ UNCHANGED <<step, calls, fiber, captured, interrupted>>

Published ==
  /\ At("publishing")
  /\ attempt.outbox = <<>>
  /\ GoTo(attempt.then)
  /\ UNCHANGED <<log, step, calls, fiber, captured, interrupted>>

-----------------------------------------------------------------------------
(* The provider's events *)

\* After a content filter the events are read and ignored.  The wait for the
\* start snapshot before the first event is still interruptible.
Listening == At("stream") /\ ~step.blocked /\ step.finish = None /\ CanStart

\* Mutant: only text counts as output.
OutputStartedText == [step EXCEPT !.started = TRUE]
OutputStarted == [step EXCEPT !.started = TRUE, !.output = TRUE]

StepStarts ==
  /\ Listening /\ ~step.started
  /\ step' = [step EXCEPT !.started = TRUE]
  /\ Publish(Start, "stream")
  /\ UNCHANGED <<log, calls, fiber, captured, interrupted>>

\* Text or reasoning: one block, before any call, stands for them all.
TextStarts ==
  /\ Listening /\ ~Recorded("text") /\ \A t \in Calls : calls[t].state = "unknown"
  /\ step' = [step EXCEPT !.started = TRUE, !.output = TRUE]
  /\ Publish(Start \o <<Event("text")>>, "stream")
  /\ UNCHANGED <<log, calls, fiber, captured, interrupted>>

\* What records a call that has no record yet.
Input(t) == IF calls[t].state = "unknown" THEN Start \o <<Of("input", t)>> ELSE <<>>

\* Who executes the call is only decided when it is made.
InputStarts(t) ==
  /\ Listening /\ calls[t].state = "unknown"
  /\ step' = OutputStarted
  /\ calls' = [calls EXCEPT ![t].state = "input"]
  /\ Publish(Input(t), "stream")
  /\ UNCHANGED <<log, fiber, captured, interrupted>>

\* The parser gave up on the input; flush fails the call, when the finish reason is known.
InputFails(t) ==
  /\ Listening /\ calls[t].state \in {"unknown", "input"}
  /\ step' = OutputStarted
  /\ calls' = [calls EXCEPT ![t].state = "malformed"]
  /\ Publish(Input(t), "stream")
  /\ UNCHANGED <<log, fiber, captured, interrupted>>

\* A call of a local tool is executed, once its event is published.
ToolCalled(t, hosted) ==
  /\ Listening /\ calls[t].state \in {"unknown", "input"}
  /\ step' = OutputStarted
  /\ calls' = [calls EXCEPT ![t].state = "called", ![t].hosted = hosted]
  /\ attempt' = [attempt EXCEPT !.pc = "publishing", !.outbox = Input(t) \o <<Of("called", t)>>,
                                !.then = IF hosted THEN "stream" ELSE "forking", !.call = t]
  /\ UNCHANGED <<log, fiber, captured, interrupted>>

Fork ==
  /\ At("forking")
  /\ fiber' = [fiber EXCEPT ![attempt.call] = "running"]
  /\ attempt' = [attempt EXCEPT !.pc = "stream", !.call = None]
  /\ UNCHANGED <<log, step, calls, captured, interrupted>>

\* The result of a hosted tool.  A second error is ignored, a second success is a defect.
HostedResult(t) ==
  /\ Listening /\ t \in HostedCalls /\ calls[t].state = "called"
  /\ MarkSettled({t})
  /\ Publish(Settling({t}), "stream")
  /\ UNCHANGED <<log, step, fiber, captured, interrupted>>

\* A content filter fails the step at once, and every call not made yet.
StepFinishes(reason) ==
  /\ Listening
  /\ IF reason = "content-filter"
       THEN /\ step' = [step EXCEPT !.started = TRUE, !.blocked = TRUE, !.failure = TRUE,
                                    !.finish = reason]
            /\ MarkSettled(Uncalled)
            /\ Publish(Settling(Uncalled) \o Start, "stream")
       ELSE /\ step' = [step EXCEPT !.finish = reason]
            /\ UNCHANGED <<calls, attempt>>
  /\ UNCHANGED <<log, fiber, captured, interrupted>>

\* Success requires the provider's terminal event, which follows its finish.
\* The flush that runs however the stream ends fails the malformed calls.
StreamEnds(exit) ==
  /\ \/ At("stream")
     \/ At("forking") /\ exit = "interrupted"
  /\ exit = "success" => step.finish # None
  /\ exit = "interrupted" => interrupted
  /\ MarkSettled(Malformed)
  /\ attempt' = [attempt EXCEPT !.pc = "publishing", !.outbox = Settling(Malformed),
                                !.then = "streamed", !.exit = exit, !.call = None]
  /\ UNCHANGED <<log, step, fiber, captured, interrupted>>

-----------------------------------------------------------------------------
(* The tool fibers *)

\* Mutant: the fiber publishes where the interrupt still reaches it.
InterruptibleToolPublishing == {"running", "settling"}
\* Only the execution itself is interruptible.
InterruptibleTool == {"running"}

ToolReturns(t) ==
  /\ fiber[t] = "running"
  /\ ~calls[t].settled
  /\ MarkSettled({t})
  /\ fiber' = [fiber EXCEPT ![t] = "settling"]
  /\ UNCHANGED <<log, step, attempt, captured, interrupted>>

ToolPublishes(t) ==
  /\ fiber[t] = "settling"
  /\ log' = Append(log, Of("settled", t))
  /\ fiber' = [fiber EXCEPT ![t] = "success"]
  /\ UNCHANGED <<step, calls, attempt, captured, interrupted>>

\* The user declines, the tool has a defect, or what it waits for was interrupted.
ToolGivesUp(t) ==
  /\ fiber[t] = "running"
  /\ \E end \in {"declined", "died", "interrupted"} : fiber' = [fiber EXCEPT ![t] = end]
  /\ UNCHANGED <<log, step, calls, attempt, captured, interrupted>>

\* Mutant: tools are only interrupted with the provider's stream.
InterruptsToolsStream == At("stopping") /\ attempt.exit = "interrupted"
InterruptsTools == At("stopping")

ToolInterrupted(t) ==
  /\ fiber[t] \in InterruptibleTool
  /\ InterruptsTools
  /\ fiber' = [fiber EXCEPT ![t] = "interrupted"]
  /\ UNCHANGED <<log, step, calls, attempt, captured, interrupted>>

-----------------------------------------------------------------------------
(* After the stream *)

Streamed ==
  /\ At("streamed")
  /\ IF attempt.exit = "interrupted" /\ ~CanStart
       THEN Return("unrecorded")
       ELSE Publish(IF step.started THEN <<Event("streamed")>> ELSE <<>>,
                    IF attempt.exit = "interrupted" THEN "stopping" ELSE "joining")
  /\ UNCHANGED <<log, step, calls, fiber, captured, interrupted>>

\* Mutant: a result that is still being published is not waited for.
ToolsEndedMarked == \A t \in Calls : fiber[t] \in Ended \union {None, "settling"}
ToolsEnded == \A t \in Calls : fiber[t] \in Ended \union {None}

\* The wait for the tools is interruptible; the interrupt passes on to them.
Join ==
  /\ At("joining")
  /\ \/ interrupted /\ GoTo("stopping")
     \/ ~interrupted /\ ToolsEnded /\ GoTo("joined")
  /\ UNCHANGED <<log, step, calls, fiber, captured, interrupted>>

\* The interrupted wait has no exits of the tools: their declines are not seen.
Stopped ==
  /\ At("stopping")
  /\ ToolsEnded
  /\ attempt' = [attempt EXCEPT !.pc = "joined", !.cut = TRUE]
  /\ UNCHANGED <<log, step, calls, fiber, captured, interrupted>>

Declined == IF attempt.cut THEN {} ELSE {t \in Calls : fiber[t] = "declined"}
ToolsInterrupted == attempt.cut \/ \E t \in Calls : fiber[t] = "interrupted"
ToolDied == ~attempt.cut /\ \E t \in Calls : fiber[t] = "died"

\* The provider failed, or finished for no known reason.
ProviderFailed ==
  attempt.exit \in Failures \/ (attempt.exit = "success" /\ step.finish = "unknown")
\* A failure that is recorded already is not recorded again.
ProviderError == ProviderFailed /\ ~step.blocked

\* An overflow before any output: compact and ask again.
Overflow ==
  /\ At("joined")
  /\ GoTo(IF ~step.output /\ attempt.exit = "overflow" THEN "compacting" ELSE "judging")
  /\ UNCHANGED <<log, step, calls, fiber, captured, interrupted>>

Compacts ==
  /\ At("compacting")
  /\ \/ interrupted /\ Return("struck")
     \/ ~interrupted /\ Return("Compacted")
     \/ ~interrupted /\ GoTo("judging")
  /\ UNCHANGED <<log, step, calls, fiber, captured, interrupted>>

\* A rejected continuation is repeated in full, once (recoverContinuation).
Judge ==
  /\ At("judging")
  /\ \/ attempt.exit = "transport" /\ ~step.output /\ Return("RecoverFull")
     \/ GoTo(IF ProviderError /\ attempt.exit # "overflow" THEN "deciding" ELSE "settling")
  /\ UNCHANGED <<log, step, calls, fiber, captured, interrupted>>

\* The retry policy and its hook, interruptible.
DecideRetry ==
  /\ At("deciding")
  /\ \/ /\ interrupted
        /\ Return("struck")
        /\ UNCHANGED step
     \/ \E decision \in BOOLEAN :
          /\ ~interrupted
          /\ IF decision /\ ~step.output
               THEN /\ CanStart
                    /\ step' = [step EXCEPT !.started = TRUE]
                    /\ attempt' = [attempt EXCEPT !.pc = "publishing", !.outbox = Start,
                                                  !.then = "returned", !.outcome = "Retry"]
               ELSE /\ attempt' = [attempt EXCEPT !.pc = "settling", !.retry = decision]
                    /\ UNCHANGED step
  /\ UNCHANGED <<log, calls, fiber, captured, interrupted>>

Interrupts == Declined # {} \/ attempt.exit = "interrupted" \/ ToolsInterrupted

\* Which calls the attempt settles itself: after an interrupt, a tool's defect or
\* a content filter all of them; hosted calls without a result and calls never
\* made when the provider failed or ended well.
Swept ==
  (Unsettled \intersect Declined)
    \union (IF Interrupts \/ ToolDied \/ step.blocked THEN Unsettled ELSE {})
    \union (IF ProviderError \/ (attempt.exit = "success" /\ ~step.blocked)
              THEN HostedCalls \union Uncalled ELSE {})

SettleRest ==
  /\ At("settling")
  /\ LET fails == ProviderError \/ Interrupts IN
       /\ fails => CanStart
       /\ step' = [step EXCEPT !.failure = @ \/ fails, !.started = @ \/ fails]
       /\ MarkSettled(Swept)
       /\ Publish(Settling(Swept) \o (IF fails THEN Start ELSE <<>>), "closing")
  /\ UNCHANGED <<log, fiber, captured, interrupted>>

\* The end snapshot is compared with the start snapshot, which must exist by now.
CloseStep ==
  /\ At("closing")
  /\ IF step.failure \/ step.finish # None
       THEN /\ captured
            /\ step' = [step EXCEPT !.started = TRUE]
            /\ Publish(Start \o <<Event(IF step.failure THEN "failed" ELSE "ended")>>, "leaving")
       ELSE GoTo("leaving") /\ UNCHANGED step
  /\ UNCHANGED <<log, calls, fiber, captured, interrupted>>

\* Mutant: a decline does not keep the provider's failure from continuing the turn.
ContinuesDeclined == ProviderError /\ attempt.retry /\ step.output /\ ~ToolsInterrupted
\* The response broke off after output: the turn continues after it.
Continues ==
  ProviderError /\ attempt.retry /\ step.output /\ Declined = {} /\ ~ToolsInterrupted

Leave ==
  /\ At("leaving")
  /\ IF Continues THEN Return("Continue")
     ELSE IF attempt.exit # "success"
       THEN Return(IF attempt.exit \in Failures THEN "failed" ELSE attempt.exit)
     ELSE IF Declined # {} THEN Return("HandedOver") \/ Return("interrupted")
     ELSE IF attempt.cut THEN Return("interrupted")
     ELSE IF ToolsInterrupted /\ ToolDied THEN Return("defect")
     ELSE IF step.failure THEN Return("failed")
     ELSE Return(IF step.finish = "length" THEN "OutputLimit" ELSE "Completed")
  /\ UNCHANGED <<log, step, calls, fiber, captured, interrupted>>

-----------------------------------------------------------------------------
(* The environment *)

Capture ==
  /\ ~captured
  /\ captured' = TRUE
  /\ UNCHANGED <<log, step, calls, fiber, attempt, interrupted>>

Interrupt ==
  /\ ~interrupted /\ ~At("returned")
  /\ interrupted' = TRUE
  /\ UNCHANGED <<log, step, calls, fiber, attempt, captured>>

Provider ==
  \/ StepStarts
  \/ TextStarts
  \/ \E t \in Calls :
       \/ \E hosted \in BOOLEAN : ToolCalled(t, hosted)
       \/ InputStarts(t)
       \/ InputFails(t)
       \/ HostedResult(t)
  \/ \E reason \in FinishReasons : StepFinishes(reason)
  \/ \E exit \in StreamExits \ {"interrupted"} : StreamEnds(exit)

\* What the attempt does by itself.
AttemptStep ==
  \/ PublishNext \/ Published \/ Fork \/ StreamEnds("interrupted")
  \/ Streamed \/ Join \/ Stopped \/ Overflow \/ Compacts \/ Judge \/ DecideRetry
  \/ SettleRest \/ CloseStep \/ Leave

StepNext ==
  \/ Provider
  \/ AttemptStep
  \/ \E t \in Calls : ToolReturns(t) \/ ToolPublishes(t) \/ ToolGivesUp(t) \/ ToolInterrupted(t)
  \/ Capture
  \/ Interrupt

StepSpec == StepInit /\ [][StepNext]_stepVars

\* The attempt's own steps run, uninterruptible parts end, an interrupted tool
\* ends, and a snapshot is captured.  Provider and tools owe nothing.
FairStep ==
  /\ StepSpec
  /\ WF_stepVars(AttemptStep)
  /\ WF_stepVars(Capture)
  /\ \A t \in Calls : WF_stepVars(ToolPublishes(t)) /\ WF_stepVars(ToolInterrupted(t))

-----------------------------------------------------------------------------
(* Properties *)

EventTypes == {"started", "text", "input", "called", "settled", "streamed", "failed", "ended"}

StepTypeOK ==
  /\ log \in Seq([type : EventTypes, call : Calls \union {None}])
  /\ step \in [started : BOOLEAN, output : BOOLEAN, blocked : BOOLEAN, failure : BOOLEAN,
               finish : FinishReasons \union {None}]
  /\ calls \in [Calls -> [state : {"unknown", "input", "malformed", "called"},
                          hosted : BOOLEAN, settled : BOOLEAN]]
  /\ fiber \in [Calls -> {None, "running", "settling"} \union Ended]
  /\ \A t \in Calls : calls[t].settled => calls[t].state # "unknown"
  /\ \A t \in Calls : fiber[t] # None => calls[t].state = "called" /\ ~calls[t].hosted
  /\ attempt.exit \in StreamExits \union {None}
  /\ At("returned") => attempt.outcome \in Outcomes
  /\ At("returned") => attempt.outbox = <<>>
  /\ {captured, interrupted} \subseteq BOOLEAN

Positions(type, t) == {i \in DOMAIN log : log[i] = Of(type, t)}

\* What the attempt and its tools recorded makes sense to whoever folds it: the
\* step's start comes first and its end last, and each call has its input before
\* its call and both before the one event that settles it (publish-llm-event.ts:84:
\* "provider loop and each owned tool fiber call these methods concurrently without
\* a lock").
RecordInOrder ==
  /\ log # <<>> => log[1] = Event("started")
  /\ \A i \in DOMAIN log : i > 1 => log[i].type # "started"
  /\ \A i \in DOMAIN log : log[i].type \in {"failed", "ended"} => i = Len(log)
  /\ \A t \in Calls :
       /\ \A type \in {"input", "called", "settled"} : Cardinality(Positions(type, t)) <= 1
       /\ \A i \in Positions("called", t) : \E j \in Positions("input", t) : j < i
       /\ \A i \in Positions("settled", t) :
            /\ \E j \in Positions("input", t) : j < i
            /\ \A j \in Positions("called", t) : j < i

\* Every call that is recorded is settled in the record, and not only in memory.
AllSettled == \A t \in Calls : Positions("input", t) # {} => Positions("settled", t) # {}

\* However the provider, the tools and the user end it, an attempt leaves no call
\* unsettled and closes its step: only a defect of the stream, an interrupt that
\* strikes the retry policy, and an attempt that will be repeated leave it open.
AttemptSettles ==
  At("returned") /\ attempt.exit # "defect" /\ attempt.outcome \notin Again \union {"struck"} =>
    /\ AllSettled
    /\ attempt.outcome = "unrecorded" \/ Recorded("failed") \/ Recorded("ended")

\* An attempt is repeated behind the user's back only if nothing of it was seen
\* and no tool ran (publish-llm-event.ts:61: output "bars transparent retries and
\* overflow recovery").
RepeatsAreSilent ==
  At("returned") /\ attempt.outcome \in Again =>
    /\ \A i \in DOMAIN log : log[i].type \in {"started", "streamed"}
    /\ \A t \in Calls : fiber[t] = None

\* After the user declined a call the model is not asked again, whatever the
\* provider's stream and the other tools did; only the drain of a closed Location
\* is handed over.
DeclinesStop ==
  At("returned") /\ (\E t \in Calls : fiber[t] = "declined") =>
    attempt.outcome \in {"HandedOver", "failed", "interrupted", "defect", "struck"}

\* An interrupted attempt ends, though its provider and its tools may hang: the
\* interrupt finds the fiber of every tool.
InterruptEndsAttempt == interrupted ~> At("returned")

\* test/session-runner.test.ts:5682: "durably fails blocked local tools when
\* interrupted while awaiting settlement".
InterruptSettlesTools ==
  At("returned") /\ attempt.cut =>
    \A t \in Calls : fiber[t] = "interrupted" => Positions("settled", t) # {}
================================================================================
