------------------------------ MODULE AgentLoop ------------------------------
(***************************************************************************)
(* The engine's tool-calling loop (internal/engine/engine.go: Engine.run   *)
(* and everything it calls), driven over several turns by a caller that    *)
(* keeps the conversation, and steered by text the user types while it     *)
(* runs (Engine.Enqueue).                                                  *)
(*                                                                         *)
(* Abstractions.  A message keeps its role and, in order, its texts, tool  *)
(* calls and tool results; a text is who wrote it and, for the user's, a   *)
(* number; a call and its id are one element of Calls.  Whether the token  *)
(* estimate is over the threshold is a nondeterministic choice, as are the *)
(* model's replies, the tools' results and everything that can refuse a    *)
(* call before it runs (unknown tool, malformed input, permission, hook).  *)
(* Cancelling the context adds no behaviour of its own here: a cancelled   *)
(* call to the model fails or ends early, and both are choices the model   *)
(* always has.  The events sent to the caller are the module EventStream.  *)
(***************************************************************************)
EXTENDS LoopDetector, Sequences, SequencesExt

CONSTANTS
  MaxToolTurns,  \* WithMaxToolTurns: tool iterations before the forced wrap-up
  KeepRecent,    \* compact.DefaultKeepRecent: messages compaction keeps
  MaxCalls,      \* bound: tool calls in one reply of the model
  MaxTexts       \* bound: texts the user ever types (prompts and steering)

ASSUME LoopAssumption ==
  /\ MaxToolTurns \in Nat \ {0}
  /\ KeepRecent \in Nat \ {0}
  /\ MaxCalls \in Nat
  /\ MaxTexts \in Nat

-----------------------------------------------------------------------------
(* Messages.                                                               *)

Typed(n) == [from |-> "user", n |-> n]    \* the n-th text the user typed
Notice   == [from |-> "engine", n |-> 0]  \* wrapUpNotice, FenceCorrectionNotice
Prose    == [from |-> "model", n |-> 0]   \* text of the model
Summary  == [from |-> "summary", n |-> 0] \* compact.Compact's summary

Texts    == [from : {"user", "engine", "model", "summary"}, n : Nat]
Outcomes == [call : Calls, ran : BOOLEAN] \* a ToolResultBlock; ~ran: refused
Messages == [role : {"user", "assistant"}, texts : Seq(Texts),
             calls : Seq(Calls), results : Seq(Outcomes)]

UserMessage(texts) ==
  [role |-> "user", texts |-> texts, calls |-> <<>>, results |-> <<>>]
AssistantMessage(texts, calls) ==
  [role |-> "assistant", texts |-> texts, calls |-> calls, results |-> <<>>]
ResultMessage(results) ==
  [role |-> "user", texts |-> <<>>, calls |-> <<>>, results |-> results]

EndsWithUser(h) == Len(h) > 0 /\ h[Len(h)].role = "user"

(* What one reply of the model carries (turnResult).  stop "max_tokens" is *)
(* the truncated reply; malformed says the fence layer found a tool call   *)
(* it could not parse.                                                     *)
CallLists == UNION {[1..n -> Calls] : n \in 0..MaxCalls}
Replies   == [prose : BOOLEAN, calls : CallLists,
              stop : {"end", "max_tokens"}, malformed : BOOLEAN]
NoReply   == [prose |-> FALSE, calls |-> <<>>, stop |-> "end", malformed |-> FALSE]
ProseOf(reply) == IF reply.prose THEN <<Prose>> ELSE <<>>

-----------------------------------------------------------------------------
VARIABLES
  conv,          \* the caller's conversation (Server.history, Model.history)
  steer,         \* Engine.steer
  typed,         \* how many texts the user has typed
  pc,            \* where run is
  history,       \* run's history
  runStart,      \* run's runStart: messages before it predate the run
  iterated,      \* iterations > 0
  toolTurns,     \* run's toolTurns
  fenceRetried,  \* run's fenceRetried
  constrainNext, \* run's constrainNext
  reply,         \* the reply being handled
  results,       \* executeTools' resultBlocks so far
  entries,       \* detect.entries
  vetoes,        \* detect.vetoes
  failed,        \* run returned an error
  \* History variables: they record what happened and no guard reads them.
  asked,         \* texts this run was given to say to the model, in order
  ranLog,        \* calls this run executed, in order
  trail,         \* per call, the results of its last two executions this run
  modelCalls     \* requests this run sent

callerVars == <<conv, typed>>
loopVars   == <<history, runStart, iterated, toolTurns, fenceRetried, constrainNext>>
turnVars   == <<reply, results, entries, vetoes>>
ghostVars  == <<asked, ranLog, trail, modelCalls>>
vars == <<callerVars, steer, pc, loopVars, turnVars, failed, ghostVars>>

Init ==
  /\ conv = <<>> /\ steer = <<>> /\ typed = 0 /\ pc = "idle"
  /\ history = <<>> /\ runStart = 0 /\ iterated = FALSE /\ toolTurns = 0
  /\ fenceRetried = FALSE /\ constrainNext = FALSE
  /\ reply = NoReply /\ results = <<>> /\ entries = NewDetector /\ vetoes = 0
  /\ failed = FALSE
  /\ asked = <<>> /\ ranLog = <<>> /\ modelCalls = 0
  /\ trail = [c \in Calls |-> <<>>]

-----------------------------------------------------------------------------
(* The steering queue.                                                     *)

DrainedAsNewMessage(h, texts) ==
  IF texts = <<>> THEN h ELSE Append(h, UserMessage(texts))

\* drainSteering: into a trailing user message, else a new one.
Drained(h, texts) ==
  IF texts = <<>> THEN h
  ELSE IF EndsWithUser(h)
       THEN [h EXCEPT ![Len(h)].texts = @ \o texts]
       ELSE Append(h, UserMessage(texts))

DrainLast(q) == IF q = <<>> THEN <<>> ELSE <<q[Len(q)]>>

\* What one drain takes: the whole queue.
TakenBy(q) == q

-----------------------------------------------------------------------------
(* Compaction.  CondenseOlder shortens the content of tool results and     *)
(* keeps every message, so here it changes nothing.                        *)

\* compact.Compact: the last KeepRecent messages after one summary message.
Compacted(h) ==
  IF Len(h) <= KeepRecent + 1 THEN h
  ELSE <<UserMessage(<<Summary>>)>> \o SubSeq(h, Len(h) - KeepRecent + 1, Len(h))

CompactedOlderGreedy(h, start) == Compacted(h)

\* maybeCompactOlder, when it compacts: only what predates the run.
CompactedOlder(h, start) ==
  Compacted(SubSeq(h, 1, start)) \o SubSeq(h, start + 1, Len(h))

StartOf(h) == IF EndsWithUser(h) THEN Len(h) - 1 ELSE Len(h)

-----------------------------------------------------------------------------
(* The caller and the user.                                                *)

\* runTurn: the prompt joins the conversation and Engine.Run starts on a
\* copy, with a fresh detector.
Prompt ==
  /\ pc = "idle" /\ typed < MaxTexts
  /\ typed' = typed + 1
  /\ conv' = Append(conv, UserMessage(<<Typed(typed')>>))
  /\ history' = conv' /\ runStart' = 0 /\ iterated' = FALSE /\ toolTurns' = 0
  /\ fenceRetried' = FALSE /\ constrainNext' = FALSE
  /\ reply' = NoReply /\ results' = <<>> /\ entries' = NewDetector /\ vetoes' = 0
  /\ failed' = FALSE /\ pc' = "compact"
  /\ asked' = <<Typed(typed')>> \o steer
  /\ ranLog' = <<>> /\ modelCalls' = 0 /\ trail' = [c \in Calls |-> <<>>]
  /\ UNCHANGED steer

\* Enqueue, called while the caller believes the turn is running.
Enqueue ==
  /\ pc # "idle" /\ typed < MaxTexts
  /\ typed' = typed + 1
  /\ steer' = Append(steer, Typed(typed'))
  /\ asked' = Append(asked, Typed(typed'))
  /\ UNCHANGED <<conv, pc, loopVars, turnVars, failed, ranLog, trail, modelCalls>>

\* The caller learns how the run ended: a DoneEvent replaces the conversation,
\* an ErrorEvent leaves it as it was, the prompt at its end.
Finish ==
  /\ pc = "ended"
  /\ conv' = IF failed THEN conv ELSE history
  /\ pc' = "idle"
  /\ UNCHANGED <<typed, steer, loopVars, turnVars, failed, ghostVars>>

-----------------------------------------------------------------------------
(* run.                                                                    *)

\* maybeCompact, before the loop; a failing compaction keeps the history.
CompactBefore ==
  /\ pc = "compact"
  /\ history' \in {history, Compacted(history)}
  /\ runStart' = StartOf(history')
  /\ pc' = "top"
  /\ UNCHANGED <<callerVars, steer, iterated, toolTurns, fenceRetried,
                 constrainNext, turnVars, failed, ghostVars>>

\* The top of the loop: maybeCompactOlder from the second iteration on.
Recheck ==
  /\ pc = "top"
  /\ \/ UNCHANGED <<history, runStart>>
     \/ /\ iterated /\ 0 < runStart /\ runStart <= Len(history)
        /\ LET gained == Len(Compacted(SubSeq(history, 1, runStart)))
           IN  /\ gained < runStart
               /\ history' = CompactedOlder(history, runStart)
               /\ runStart' = gained
  /\ iterated' = TRUE
  /\ pc' = "request"
  /\ UNCHANGED <<callerVars, steer, toolTurns, fenceRetried, constrainNext,
                 turnVars, failed, ghostVars>>

DrainKeepingQueue ==
  /\ history' = Drained(history, TakenBy(steer))
  /\ UNCHANGED steer
  /\ modelCalls' = modelCalls + 1

Drain ==
  /\ history' = Drained(history, TakenBy(steer))
  /\ steer' = <<>>
  /\ modelCalls' = modelCalls + 1

\* drainSteering, buildRequest and the call to the model.
Request ==
  /\ pc = "request"
  /\ Drain
  /\ constrainNext' = FALSE
  /\ pc' = "stream"
  /\ UNCHANGED <<callerVars, runStart, iterated, toolTurns, fenceRetried,
                 turnVars, failed, asked, ranLog, trail>>

\* streamTurn fails: run returns the error and its history goes nowhere.
StreamFails ==
  /\ pc \in {"stream", "wrapStream"}
  /\ failed' = TRUE /\ pc' = "ended"
  /\ UNCHANGED <<callerVars, steer, loopVars, turnVars, ghostVars>>

\* The malformed-fence guard applies once per run, never to a truncated reply.
RetriesFence(r) == ~fenceRetried /\ r.stop # "max_tokens" /\ r.malformed

FenceNoticeForgotten(q) == q
FenceNoticed(q) == Append(q, Notice)

\* The reply is recorded as text, its calls unexecuted, and asked for again.
FenceRetry(r) ==
  /\ pc = "stream" /\ RetriesFence(r)
  /\ fenceRetried' = TRUE /\ constrainNext' = TRUE
  /\ history' = Append(history, AssistantMessage(<<Prose>>, <<>>))
  /\ steer' = FenceNoticed(steer)
  /\ asked' = Append(asked, Notice)
  /\ pc' = "top"
  /\ UNCHANGED <<callerVars, runStart, iterated, toolTurns, turnVars, failed,
                 ranLog, trail, modelCalls>>

WithFinalProse(h, r) ==
  IF r.prose THEN Append(h, AssistantMessage(<<Prose>>, <<>>)) ELSE h

\* A reply without tool calls ends the run.
Answer(r) ==
  /\ pc = "stream" /\ ~RetriesFence(r) /\ r.calls = <<>>
  /\ history' = WithFinalProse(history, r)
  /\ pc' = "ended"
  /\ UNCHANGED <<callerVars, steer, runStart, iterated, toolTurns, fenceRetried,
                 constrainNext, turnVars, failed, ghostVars>>

RefusedAll(calls) == [i \in DOMAIN calls |-> [call |-> calls[i], ran |-> FALSE]]

AnsweredExceptLast(h, r, outcomes) ==
  h \o <<AssistantMessage(ProseOf(r), r.calls),
         ResultMessage(SubSeq(outcomes, 1, Len(outcomes) - 1))>>

\* The assistant turn and the message with its tool results.
Answered(h, r, outcomes) ==
  h \o <<AssistantMessage(ProseOf(r), r.calls), ResultMessage(outcomes)>>

BudgetSpent(n) == n >= MaxToolTurns

\* wrapUp's first step: its notice joins the steering queue.
StartWrapUp ==
  /\ steer' = Append(steer, Notice)
  /\ asked' = Append(asked, Notice)
  /\ pc' = "wrapRequest"

\* failTruncatedCalls: a truncated reply's calls are answered, never executed,
\* and the iteration counts against the budget.
Truncated(r) ==
  /\ pc = "stream" /\ r.calls # <<>> /\ r.stop = "max_tokens"
  /\ history' = Answered(history, r, RefusedAll(r.calls))
  /\ toolTurns' = toolTurns + 1
  /\ IF BudgetSpent(toolTurns') THEN StartWrapUp
     ELSE pc' = "top" /\ UNCHANGED <<steer, asked>>
  /\ UNCHANGED <<callerVars, runStart, iterated, fenceRetried, constrainNext,
                 turnVars, failed, ranLog, trail, modelCalls>>

\* executeTools starts on the calls of a complete reply.
StartTools(r) ==
  /\ pc = "stream" /\ ~RetriesFence(r) /\ r.calls # <<>> /\ r.stop # "max_tokens"
  /\ reply' = r /\ results' = <<>>
  /\ pc' = "tools"
  /\ UNCHANGED <<callerVars, steer, loopVars, entries, vetoes, failed, ghostVars>>

-----------------------------------------------------------------------------
(* dispatchTool, for the next call of the reply.                           *)

DispatchingExceptLast == pc = "tools" /\ Len(results) + 1 < Len(reply.calls)
Dispatching == pc = "tools" /\ Len(results) < Len(reply.calls)
Current == reply.calls[Len(results) + 1]

Settle(ran) == results' = Append(results, [call |-> Current, ran |-> ran])

\* Unknown tool, input that is no JSON object, permission, or PreToolUse hook: the
\* call is refused.  The first two come before the detector, but a call it would
\* veto has run twice, so its tool is known and its input well formed.
Refuse ==
  /\ Dispatching /\ ~Vetoed(entries, Current)
  /\ Settle(FALSE)
  /\ UNCHANGED <<callerVars, steer, pc, loopVars, reply, entries, vetoes, failed,
                 ghostVars>>

Veto ==
  /\ Dispatching /\ Vetoed(entries, Current)
  /\ Settle(FALSE)
  /\ vetoes' = vetoes + 1
  /\ UNCHANGED <<callerVars, steer, pc, loopVars, reply, entries, failed, ghostVars>>

LastTwo(s, r) == IF s = <<>> THEN <<r>> ELSE <<s[Len(s)], r>>

\* The tool runs and returns r (an error of the tool is a result like another).
Execute(r) ==
  /\ Dispatching /\ ~Vetoed(entries, Current)
  /\ Settle(TRUE)
  /\ entries' = Observe(entries, Current, r)
  /\ ranLog' = Append(ranLog, Current)
  /\ trail' = [trail EXCEPT ![Current] = LastTwo(@, r)]
  /\ UNCHANGED <<callerVars, steer, pc, loopVars, reply, vetoes, failed, asked,
                 modelCalls>>

\* After the last call: record the turn, then wrap up or go round.
RecordTurn ==
  /\ pc = "tools" /\ Len(results) = Len(reply.calls)
  /\ history' = Answered(history, reply, results)
  /\ IF vetoes >= VetoLimit
     THEN StartWrapUp /\ UNCHANGED toolTurns
     ELSE /\ toolTurns' = toolTurns + 1
          /\ IF BudgetSpent(toolTurns') THEN StartWrapUp
             ELSE pc' = "top" /\ UNCHANGED <<steer, asked>>
  /\ reply' = NoReply /\ results' = <<>>
  /\ UNCHANGED <<callerVars, runStart, iterated, fenceRetried, constrainNext,
                 entries, vetoes, failed, ranLog, trail, modelCalls>>

-----------------------------------------------------------------------------
(* wrapUp.                                                                 *)

WrapUpRequest ==
  /\ pc = "wrapRequest"
  /\ Drain
  /\ pc' = "wrapStream"
  /\ UNCHANGED <<callerVars, runStart, iterated, toolTurns, fenceRetried,
                 constrainNext, turnVars, failed, asked, ranLog, trail>>

\* The final reply: its prose is kept, its tool calls are ignored.
WrapUpAnswer(r) ==
  /\ pc = "wrapStream"
  /\ history' = WithFinalProse(history, r)
  /\ pc' = "ended"
  /\ UNCHANGED <<callerVars, steer, runStart, iterated, toolTurns, fenceRetried,
                 constrainNext, turnVars, failed, ghostVars>>

-----------------------------------------------------------------------------
Reply ==
  \E r \in Replies :
    FenceRetry(r) \/ Answer(r) \/ Truncated(r) \/ StartTools(r) \/ WrapUpAnswer(r)

Dispatch == Refuse \/ Veto \/ \E r \in Results : Execute(r)

Run == CompactBefore \/ Recheck \/ Request \/ Reply \/ StreamFails \/ Dispatch
       \/ RecordTurn \/ WrapUpRequest

Next == Prompt \/ Enqueue \/ Finish \/ Run

Spec == Init /\ [][Next]_vars

\* The run goroutine is always scheduled, a request to the model ends (reply,
\* error or idle timeout), a permission question is answered or cancelled, a tool
\* returns, and the caller drains the events.
FairSpec == Spec /\ WF_vars(Run) /\ WF_vars(Finish)
-----------------------------------------------------------------------------
(* Properties.                                                             *)

TypeOK ==
  /\ conv \in Seq(Messages) /\ history \in Seq(Messages)
  /\ steer \in Seq(Texts) /\ asked \in Seq(Texts)
  /\ typed \in 0..MaxTexts
  /\ pc \in {"idle", "compact", "top", "request", "stream", "tools",
            "wrapRequest", "wrapStream", "ended"}
  /\ runStart \in Nat /\ toolTurns \in Nat
  /\ iterated \in BOOLEAN /\ fenceRetried \in BOOLEAN
  /\ constrainNext \in BOOLEAN /\ failed \in BOOLEAN
  /\ reply \in Replies /\ results \in Seq(Outcomes)
  /\ Len(results) <= Len(reply.calls)
  /\ entries \in Detectors /\ vetoes \in Nat
  /\ ranLog \in Seq(Calls) /\ modelCalls \in Nat
  /\ trail \in [Calls -> Seq(Results)]

\* Message i carries tool calls only if message i+1 carries their results, one
\* per call and in the calls' order.
AnsweredAt(h, i) ==
  h[i].calls # <<>> =>
    /\ i < Len(h)
    /\ Len(h[i + 1].results) = Len(h[i].calls)
    /\ \A j \in 1..Len(h[i].calls) : h[i + 1].results[j].call = h[i].calls[j]

\* Every tool call the conversation records is answered by the next message,
\* whatever was executed, refused, truncated, retried or compacted: a backend
\* rejects a call left without its result.
AllAnswered(h) == \A i \in 1..Len(h) : AnsweredAt(h, i)
CallsAnswered == AllAnswered(history) /\ AllAnswered(conv)

Running == pc \notin {"idle", "compact"}

\* What one message says to the model, and what the messages of h after start say.
TextsTo(m) == IF m.role = "user" THEN m.texts ELSE <<>>
SaidEach(h, start) == [i \in 1..(Len(h) - start) |-> TextsTo(h[start + i])]
Said(h, start) == FlattenSeq(SaidEach(h, start))

\* The calls that ran according to the outcomes of one message, and according to
\* those of the messages of h after start.
RanEach(outcomes) ==
  [i \in 1..Len(outcomes) |-> IF outcomes[i].ran THEN <<outcomes[i].call>> ELSE <<>>]
RanOf(outcomes) == FlattenSeq(RanEach(outcomes))
RanInEach(h, start) == [i \in 1..(Len(h) - start) |-> RanOf(h[start + i].results)]
RanIn(h, start) == FlattenSeq(RanInEach(h, start))

\* The prompt, the steering text and the engine's notices of the current run are,
\* in the order they came, what the run's own messages and the queue hold: nothing
\* is lost, said twice, reordered, or summarised away by intra-turn compaction,
\* also for text typed after the previous run's last request.
CurrentRunIntact ==
  Running => /\ runStart < Len(history)
             /\ Said(history, runStart) \o steer = asked

\* Every tool execution of this run is recorded, in order, as a result in the run's
\* own messages or in the turn being executed: the model never forgets an effect
\* it had, although results are appended only after the turn's last call.
EffectsRecorded ==
  Running => ranLog = RanIn(history, runStart) \o RanOf(results)

\* Each request ends with a user message and its messages since the prompt
\* alternate between the roles ("to keep message roles valid", drainSteering):
\* steering, fence retry, truncation and wrap-up included.
RequestWellFormed ==
  pc \in {"stream", "wrapStream"} =>
    /\ EndsWithUser(history)
    /\ \A i \in (runStart + 1)..(Len(history) - 1) :
         history[i].role # history[i + 1].role

\* A notice the engine addresses to the model is read by the run it is about: it
\* never waits in the queue when a run is over, where it would tell the next run
\* that its tools are disabled.
NoticesStayInRun ==
  pc \in {"idle", "compact", "stream", "tools", "wrapStream", "ended"} =>
    \A i \in 1..Len(steer) : steer[i] # Notice

\* A run sends the model a bounded number of requests: its tool iterations, one
\* fence retry and one wrap-up, whatever the model answers, truncation ping-pong
\* and vetoes included.
BoundedRequests == modelCalls <= MaxToolTurns + 2

\* A call that returned the same result twice running is never executed a third
\* time in the run, whatever other calls came in between.
NoThirdIdenticalRun ==
  [][Len(ranLog') > Len(ranLog) =>
       LET c == ranLog'[Len(ranLog')]
       IN  Len(trail[c]) = 2 => trail[c][1] # trail[c][2]]_vars

\* A call is skipped only when its last two executions returned the same, and never
\* without a warning: loopWarnNotice is on a result exactly when the same call would
\* be skipped next.
VetoedAfterWarning ==
  [][/\ Veto => Len(trail[Current]) = 2 /\ trail[Current][1] = trail[Current][2]
     /\ \A r \in Results :
          Execute(r) => (Warns(entries, Current, r) <=> Vetoed(entries', Current))]_vars

\* Every run ends, as long as its questions for permission are answered: no reply,
\* refusal, veto or steering keeps it going.
RunEnds == pc # "idle" ~> pc = "idle"
=============================================================================
