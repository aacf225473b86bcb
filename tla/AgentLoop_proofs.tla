-------------------------- MODULE AgentLoop_proofs --------------------------
(***************************************************************************)
(* Proofs about AgentLoop, for every set of calls and results and every    *)
(* bound.  The steps of an invariance proof follow the actions of Next.    *)
(***************************************************************************)
EXTENDS AgentLoop, SequenceTheorems, WellFoundedInduction, TLAPS

\* A reply's calls are a sequence of calls.
LEMMA CallListsAreSequences ==
  ASSUME NEW r \in Replies
  PROVE  r.calls \in Seq(Calls)
<1>1. PICK n \in 0..MaxCalls : r.calls \in [1..n -> Calls]
  BY DEF Replies, CallLists
<1>2. n \in Nat
  BY LoopAssumption
<1>3. QED
  BY <1>1, <1>2

\* Draining the queue into the history keeps it a sequence of messages.
LEMMA DrainedType ==
  ASSUME NEW h \in Seq(Messages), NEW q \in Seq(Texts)
  PROVE  Drained(h, q) \in Seq(Messages)
<1>1. CASE q = <<>>
  BY <1>1 DEF Drained
<1>2. CASE q # <<>> /\ EndsWithUser(h)
  <2>1. h[Len(h)] \in Messages
    BY <1>2 DEF EndsWithUser
  <2>2. h[Len(h)].texts \o q \in Seq(Texts)
    BY <2>1 DEF Messages
  <2>3. [h[Len(h)] EXCEPT !.texts = @ \o q] \in Messages
    BY <2>1, <2>2 DEF Messages
  <2>4. [h EXCEPT ![Len(h)] = [h[Len(h)] EXCEPT !.texts = @ \o q]] \in Seq(Messages)
    BY <1>2, <2>3, ExceptSeq DEF EndsWithUser
  <2>5. QED
    BY <1>2, <2>4 DEF Drained
<1>3. CASE q # <<>> /\ ~EndsWithUser(h)
  <2>1. UserMessage(q) \in Messages
    BY DEF UserMessage, Messages
  <2>2. QED
    BY <1>3, <2>1 DEF Drained
<1>4. QED
  BY <1>1, <1>2, <1>3

\* Compaction returns a sequence of messages.
LEMMA CompactedType ==
  ASSUME NEW h \in Seq(Messages)
  PROVE  /\ Compacted(h) \in Seq(Messages)
         /\ Len(Compacted(h)) <= Len(h)
<1>1. CASE Len(h) <= KeepRecent + 1
  BY <1>1 DEF Compacted
<1>2. CASE ~(Len(h) <= KeepRecent + 1)
  <2>1. Summary \in Texts
    BY DEF Summary, Texts
  <2>2. UserMessage(<<Summary>>) \in Messages
    BY <2>1 DEF UserMessage, Messages
  <2>3. /\ KeepRecent \in Nat
        /\ Len(h) - KeepRecent + 1 \in 1..Len(h)
    BY <1>2, LoopAssumption
  <2>4. /\ SubSeq(h, Len(h) - KeepRecent + 1, Len(h)) \in Seq(Messages)
        /\ Len(SubSeq(h, Len(h) - KeepRecent + 1, Len(h))) = KeepRecent
    BY <2>3
  <2>5. QED
    BY <1>2, <2>2, <2>3, <2>4 DEF Compacted
<1>3. QED
  BY <1>1, <1>2
\* Refusing a sequence of calls gives one outcome per call.
LEMMA RefusedAllType ==
  ASSUME NEW calls \in Seq(Calls)
  PROVE  /\ RefusedAll(calls) \in Seq(Outcomes)
         /\ Len(RefusedAll(calls)) = Len(calls)
         /\ \A i \in 1..Len(calls) : RefusedAll(calls)[i].call = calls[i]
<1>1. DOMAIN calls = 1..Len(calls) /\ Len(calls) \in Nat
  BY LenProperties
<1>2. \A i \in 1..Len(calls) : [call |-> calls[i], ran |-> FALSE] \in Outcomes
  BY ElementOfSeq DEF Outcomes
<1>3. RefusedAll(calls) \in [1..Len(calls) -> Outcomes]
  BY <1>1, <1>2 DEF RefusedAll
<1>4. QED
  BY <1>1, <1>3 DEF RefusedAll

\* Appending a recorded turn keeps the history a sequence of messages.
LEMMA AnsweredType ==
  ASSUME NEW h \in Seq(Messages), NEW r \in Replies, NEW outcomes \in Seq(Outcomes)
  PROVE  /\ Answered(h, r, outcomes) \in Seq(Messages)
         /\ WithFinalProse(h, r) \in Seq(Messages)
<1>1. Prose \in Texts
  BY DEF Prose, Texts
<1>2. ProseOf(r) \in Seq(Texts)
  BY <1>1 DEF ProseOf
<1>3. r.calls \in Seq(Calls)
  BY CallListsAreSequences
<1>4. /\ AssistantMessage(ProseOf(r), r.calls) \in Messages
      /\ AssistantMessage(<<Prose>>, <<>>) \in Messages
      /\ ResultMessage(outcomes) \in Messages
  BY <1>1, <1>2, <1>3 DEF AssistantMessage, ResultMessage, Messages
<1>5. QED
  BY <1>4 DEF Answered, WithFinalProse

-----------------------------------------------------------------------------
(* Type correctness.                                                       *)

\* The values a fresh run starts from.
LEMMA FreshRunType ==
  /\ NoReply \in Replies /\ NoReply.calls = <<>>
  /\ NewDetector \in Detectors
  /\ [c \in Calls |-> <<>>] \in [Calls -> Seq(Results)]
<1>1. <<>> \in [1..0 -> Calls]
  OBVIOUS
<1>2. <<>> \in CallLists
  BY <1>1, LoopAssumption DEF CallLists
<1>3. NoReply \in Replies /\ NoReply.calls = <<>>
  BY <1>2 DEF NoReply, Replies
<1>4. NewDetector \in Detectors
  BY DEF NewDetector, Detectors, VetoStreak
<1>5. QED
  BY <1>3, <1>4

LEMMA InitType == Init => TypeOK
<1> SUFFICES ASSUME Init PROVE TypeOK
  OBVIOUS
<1>1. /\ reply \in Replies /\ Len(results) <= Len(reply.calls)
      /\ entries \in Detectors /\ trail \in [Calls -> Seq(Results)]
  BY FreshRunType DEF Init
<1>2. /\ iterated \in BOOLEAN /\ fenceRetried \in BOOLEAN
      /\ constrainNext \in BOOLEAN /\ failed \in BOOLEAN
  BY DEF Init
<1>3. QED
  BY <1>1, <1>2, LoopAssumption DEF Init, TypeOK

\* Settling a call types its result and keeps the results within the calls.
LEMMA SettleType ==
  ASSUME TypeOK, Dispatching
  PROVE  /\ Current \in Calls
         /\ \A ran \in BOOLEAN :
              Settle(ran) => /\ results' \in Seq(Outcomes)
                             /\ Len(results') = Len(results) + 1
                             /\ Len(results') <= Len(reply.calls)
<1>1. reply.calls \in Seq(Calls)
  BY CallListsAreSequences DEF TypeOK
<1>2. Len(results) + 1 \in 1..Len(reply.calls)
  BY <1>1 DEF Dispatching, TypeOK
<1>3. Current \in Calls
  BY <1>1, <1>2, ElementOfSeq DEF Current
<1>4. ASSUME NEW ran \in BOOLEAN, Settle(ran)
      PROVE  /\ results' \in Seq(Outcomes)
             /\ Len(results') = Len(results) + 1
             /\ Len(results') <= Len(reply.calls)
  <2>1. [call |-> Current, ran |-> ran] \in Outcomes
    BY <1>3 DEF Outcomes
  <2>2. QED
    BY <1>2, <1>4, <2>1, AppendProperties DEF Settle, TypeOK
<1>5. QED
  BY <1>3, <1>4

\* Observing a call that was not vetoed keeps the detector's table typed: a
\* streak never passes VetoStreak.
LEMMA ObserveType ==
  ASSUME NEW e \in Detectors, NEW c \in Calls, NEW r \in Results, ~Vetoed(e, c)
  PROVE  Observe(e, c, r) \in Detectors
<1>1. e[c] \in [streak : 0..VetoStreak, last : Results \cup {NoResult}]
  BY DEF Detectors
<1>2. NextStreak(e[c], r) \in 0..VetoStreak
  BY <1>1 DEF NextStreak, Vetoed, VetoStreak
<1>3. QED
  BY <1>1, <1>2 DEF Observe, Detectors

LEMMA NextType == TypeOK /\ [Next]_vars => TypeOK'
<1> SUFFICES ASSUME TypeOK, [Next]_vars
             PROVE  TypeOK'
  OBVIOUS
<1> USE LoopAssumption
<1>a. reply.calls \in Seq(Calls)
  BY CallListsAreSequences DEF TypeOK
<1>b. Notice \in Texts /\ Prose \in Texts /\ \A n \in Nat : Typed(n) \in Texts
  BY DEF Notice, Prose, Typed, Texts
<1>c. AssistantMessage(<<Prose>>, <<>>) \in Messages
  BY <1>b DEF AssistantMessage, Messages
<1>d. Append(steer, Notice) \in Seq(Texts) /\ Append(asked, Notice) \in Seq(Texts)
  BY <1>b DEF TypeOK
<1>1. CASE Prompt
  <2>1. typed' \in Nat /\ typed' \in 0..MaxTexts
    BY <1>1 DEF Prompt, TypeOK
  <2>2. UserMessage(<<Typed(typed')>>) \in Messages
    BY <1>b, <2>1 DEF UserMessage, Messages
  <2>3. conv' \in Seq(Messages) /\ history' \in Seq(Messages)
    BY <1>1, <2>2 DEF Prompt, TypeOK
  <2>4. asked' \in Seq(Texts) /\ steer' \in Seq(Texts)
    BY <1>1, <1>b, <2>1 DEF Prompt, TypeOK
  <2>5. /\ reply' \in Replies /\ Len(results') <= Len(reply'.calls)
        /\ entries' \in Detectors /\ trail' \in [Calls -> Seq(Results)]
    BY <1>1, FreshRunType DEF Prompt
  <2>6. /\ iterated' \in BOOLEAN /\ fenceRetried' \in BOOLEAN
        /\ constrainNext' \in BOOLEAN /\ failed' \in BOOLEAN
    BY <1>1 DEF Prompt
  <2>7. /\ runStart' \in Nat /\ toolTurns' \in Nat /\ vetoes' \in Nat
        /\ modelCalls' \in Nat /\ ranLog' \in Seq(Calls)
        /\ results' \in Seq(Outcomes) /\ pc' = "compact"
    BY <1>1 DEF Prompt
  <2>8. QED
    BY <2>1, <2>3, <2>4, <2>5, <2>6, <2>7 DEF TypeOK
<1>2. CASE Enqueue
  <2>1. typed' \in Nat /\ typed' \in 0..MaxTexts
    BY <1>2 DEF Enqueue, TypeOK
  <2>2. steer' \in Seq(Texts) /\ asked' \in Seq(Texts)
    BY <1>2, <1>b, <2>1 DEF Enqueue, TypeOK
  <2>3. QED
    BY <1>2, <2>1, <2>2 DEF Enqueue, TypeOK, loopVars, turnVars
<1>3. CASE Finish
  BY <1>3 DEF Finish, TypeOK, loopVars, turnVars, ghostVars
<1>4. CASE CompactBefore
  <2>1. history' \in Seq(Messages)
    BY <1>4, CompactedType DEF CompactBefore, TypeOK
  <2>2. runStart' \in Nat
    BY <1>4, <2>1 DEF CompactBefore, StartOf, EndsWithUser
  <2>3. QED
    BY <1>4, <2>1, <2>2 DEF CompactBefore, TypeOK, callerVars, turnVars, ghostVars
<1>5. CASE Recheck
  <2>1. history' \in Seq(Messages) /\ runStart' \in Nat
    <3>1. CASE UNCHANGED <<history, runStart>>
      BY <3>1 DEF TypeOK
    <3>2. CASE ~UNCHANGED <<history, runStart>>
      <4> DEFINE prefix == SubSeq(history, 1, runStart)
                 rest   == SubSeq(history, runStart + 1, Len(history))
      <4>1. runStart \in 0..Len(history)
        BY <1>5, <3>2 DEF Recheck, TypeOK
      <4>2. prefix \in Seq(Messages) /\ rest \in Seq(Messages)
        BY <4>1 DEF TypeOK
      <4>3. Compacted(prefix) \in Seq(Messages)
        BY <4>2, CompactedType
      <4>4. history' = Compacted(prefix) \o rest /\ runStart' = Len(Compacted(prefix))
        BY <1>5, <3>2 DEF Recheck, CompactedOlder
      <4>5. QED
        BY <4>2, <4>3, <4>4
    <3>3. QED
      BY <3>1, <3>2
  <2>2. QED
    BY <1>5, <2>1 DEF Recheck, TypeOK, callerVars, turnVars, ghostVars
<1>6. CASE Request
  <2>1. history' \in Seq(Messages)
    BY <1>6, DrainedType DEF Request, Drain, TakenBy, TypeOK
  <2>2. constrainNext' \in BOOLEAN
    BY <1>6 DEF Request
  <2>3. QED
    BY <1>6, <2>1, <2>2 DEF Request, Drain, TypeOK, callerVars, turnVars
<1>7. CASE StreamFails
  BY <1>7 DEF StreamFails, TypeOK, callerVars, loopVars, turnVars, ghostVars
<1>8. ASSUME NEW r \in Replies, FenceRetry(r)
      PROVE  TypeOK'
  BY <1>8, <1>c, <1>d DEF FenceRetry, FenceNoticed, TypeOK, callerVars, turnVars
<1>9. ASSUME NEW r \in Replies, Answer(r)
      PROVE  TypeOK'
  <2>1. history' \in Seq(Messages)
    BY <1>9, AnsweredType DEF Answer, TypeOK, WithFinalProse
  <2>2. QED
    BY <1>9, <2>1 DEF Answer, TypeOK, callerVars, turnVars, ghostVars
<1>10. ASSUME NEW r \in Replies, Truncated(r)
       PROVE  TypeOK'
  <2>1. r.calls \in Seq(Calls)
    BY CallListsAreSequences
  <2>2. RefusedAll(r.calls) \in Seq(Outcomes)
    BY <2>1, RefusedAllType
  <2>3. history' \in Seq(Messages)
    BY <1>10, <2>2, AnsweredType DEF Truncated, TypeOK
  <2>4. /\ steer' \in Seq(Texts) /\ asked' \in Seq(Texts)
        /\ toolTurns' \in Nat /\ pc' \in {"top", "wrapRequest"}
    <3>1. toolTurns' \in Nat /\ (StartWrapUp \/ (pc' = "top" /\ UNCHANGED <<steer, asked>>))
      BY <1>10 DEF Truncated, TypeOK
    <3>2. QED
      BY <3>1, <1>d DEF StartWrapUp, TypeOK
  <2>5. QED
    BY <1>10, <2>3, <2>4 DEF Truncated, TypeOK, callerVars, turnVars
<1>11. ASSUME NEW r \in Replies, StartTools(r)
       PROVE  TypeOK'
  <2>1. Len(results') <= Len(reply'.calls)
    BY <1>11, CallListsAreSequences DEF StartTools
  <2>2. QED
    BY <1>11, <2>1 DEF StartTools, TypeOK, callerVars, loopVars, ghostVars
<1>12. CASE Refuse \/ Veto
  <2>1. Settle(FALSE) /\ Dispatching
    BY <1>12 DEF Refuse, Veto
  <2>2. results' \in Seq(Outcomes) /\ Len(results') <= Len(reply.calls)
    BY <2>1, SettleType
  <2>3. CASE Refuse
    BY <2>2, <2>3 DEF Refuse, TypeOK, callerVars, loopVars, ghostVars
  <2>4. CASE Veto
    BY <2>2, <2>4 DEF Veto, TypeOK, callerVars, loopVars, ghostVars
  <2>5. QED
    BY <1>12, <2>3, <2>4
<1>13. ASSUME NEW r \in Results, Execute(r)
       PROVE  TypeOK'
  <2>1. Current \in Calls
    BY <1>13, SettleType DEF Execute
  <2>2. results' \in Seq(Outcomes) /\ Len(results') <= Len(reply.calls)
    BY <1>13, SettleType DEF Execute
  <2>3. entries' \in Detectors
    BY <1>13, <2>1, ObserveType DEF Execute, TypeOK
  <2>4. trail' \in [Calls -> Seq(Results)]
    <3>1. LastTwo(trail[Current], r) \in Seq(Results)
      BY <2>1 DEF LastTwo, TypeOK
    <3>2. QED
      BY <1>13, <2>1, <3>1 DEF Execute, TypeOK
  <2>5. ranLog' \in Seq(Calls)
    BY <1>13, <2>1 DEF Execute, TypeOK
  <2>6. QED
    BY <1>13, <2>2, <2>3, <2>4, <2>5 DEF Execute, TypeOK, callerVars, loopVars
<1>14. CASE RecordTurn
  <2>1. history' \in Seq(Messages)
    BY <1>14, AnsweredType DEF RecordTurn, TypeOK
  <2>2. /\ toolTurns' \in Nat
        /\ steer' \in Seq(Texts) /\ asked' \in Seq(Texts)
        /\ pc' \in {"top", "wrapRequest"}
    <3>1. toolTurns' \in Nat /\ (StartWrapUp \/ (pc' = "top" /\ UNCHANGED <<steer, asked>>))
      BY <1>14 DEF RecordTurn, TypeOK
    <3>2. QED
      BY <3>1, <1>d DEF StartWrapUp, TypeOK
  <2>3. reply' \in Replies /\ results' = <<>> /\ Len(results') <= Len(reply'.calls)
    BY <1>14, FreshRunType DEF RecordTurn
  <2>4. QED
    BY <1>14, <2>1, <2>2, <2>3 DEF RecordTurn, TypeOK, callerVars
<1>15. CASE WrapUpRequest
  <2>1. history' \in Seq(Messages)
    BY <1>15, DrainedType DEF WrapUpRequest, Drain, TakenBy, TypeOK
  <2>2. QED
    BY <1>15, <2>1 DEF WrapUpRequest, Drain, TypeOK, callerVars, turnVars
<1>16. ASSUME NEW r \in Replies, WrapUpAnswer(r)
       PROVE  TypeOK'
  <2>1. history' \in Seq(Messages)
    BY <1>16, AnsweredType DEF WrapUpAnswer, TypeOK, WithFinalProse
  <2>2. QED
    BY <1>16, <2>1 DEF WrapUpAnswer, TypeOK, callerVars, turnVars, ghostVars
<1>17. CASE UNCHANGED vars
  BY <1>17 DEF vars, callerVars, loopVars, turnVars, ghostVars, TypeOK
<1>18. QED
  BY <1>1, <1>2, <1>3, <1>4, <1>5, <1>6, <1>7, <1>8, <1>9, <1>10, <1>11, <1>12,
     <1>13, <1>14, <1>15, <1>16, <1>17 DEF Next, Run, Reply, Dispatch

\* Every variable of the loop keeps its type: in particular the results never
\* outnumber the calls they answer, and a streak stays within the detector's range.
THEOREM LoopTypeCorrect == Spec => []TypeOK
BY InitType, NextType, PTL DEF Spec

-----------------------------------------------------------------------------
(* Bounded requests.  The number of requests is tied to the tool           *)
(* iterations by where the run is; toolTurns stays under the budget while  *)
(* the run can still ask for tools.                                        *)

Retries == IF fenceRetried THEN 1 ELSE 0

RequestsCounted ==
  /\ pc = "compact" => modelCalls = 0 /\ toolTurns = 0 /\ Retries = 0
  /\ pc \in {"top", "request"} =>
       modelCalls = toolTurns + Retries /\ toolTurns < MaxToolTurns
  /\ pc \in {"stream", "tools"} =>
       modelCalls = toolTurns + Retries + 1 /\ toolTurns < MaxToolTurns
  /\ pc = "wrapRequest" => modelCalls <= MaxToolTurns + 1
  /\ modelCalls <= MaxToolTurns + 2

LEMMA RequestsCountedInductive ==
  TypeOK /\ RequestsCounted /\ [Next]_vars => RequestsCounted'
<1> SUFFICES ASSUME TypeOK, RequestsCounted, [Next]_vars
             PROVE  RequestsCounted'
  OBVIOUS
<1> USE LoopAssumption
<1>a. /\ toolTurns \in Nat /\ modelCalls \in Nat /\ Retries \in {0, 1}
      /\ MaxToolTurns \in Nat
  BY DEF TypeOK, Retries
<1>b. UNCHANGED <<pc, modelCalls, toolTurns, fenceRetried>> => RequestsCounted'
  BY DEF RequestsCounted, Retries
<1>1. CASE Prompt
  BY <1>1 DEF Prompt, RequestsCounted, Retries
<1>2. CASE Enqueue \/ Refuse \/ Veto
  BY <1>2, <1>b DEF Enqueue, Refuse, Veto, loopVars, ghostVars
<1>3. CASE Finish \/ StreamFails
  <2>1. pc' \in {"idle", "ended"} /\ modelCalls' = modelCalls
    BY <1>3 DEF Finish, StreamFails, ghostVars
  <2>2. QED
    BY <2>1 DEF RequestsCounted
<1>4. CASE CompactBefore \/ Recheck
  <2>1. /\ pc \in {"compact", "top"} /\ pc' \in {"top", "request"}
        /\ UNCHANGED <<modelCalls, toolTurns, Retries>>
    BY <1>4 DEF CompactBefore, Recheck, ghostVars, Retries
  <2>2. QED
    BY <1>a, <2>1 DEF RequestsCounted
<1>5. CASE Request
  <2>1. /\ pc = "request" /\ pc' = "stream"
        /\ UNCHANGED <<toolTurns, Retries>> /\ modelCalls' = modelCalls + 1
    BY <1>5 DEF Request, Drain, Retries
  <2>2. QED
    BY <1>a, <2>1 DEF RequestsCounted
<1>6. ASSUME NEW r \in Replies, FenceRetry(r)
      PROVE  RequestsCounted'
  <2>1. /\ pc = "stream" /\ pc' = "top" /\ Retries = 0 /\ Retries' = 1
        /\ UNCHANGED <<toolTurns, modelCalls>>
    BY <1>6 DEF FenceRetry, RetriesFence, Retries
  <2>2. QED
    BY <1>a, <2>1 DEF RequestsCounted
<1>7. ASSUME NEW r \in Replies, Answer(r) \/ WrapUpAnswer(r)
      PROVE  RequestsCounted'
  <2>1. pc' = "ended" /\ modelCalls' = modelCalls
    BY <1>7 DEF Answer, WrapUpAnswer, ghostVars
  <2>2. QED
    BY <2>1 DEF RequestsCounted
<1>8. ASSUME NEW r \in Replies, Truncated(r)
      PROVE  RequestsCounted'
  <2>1. /\ pc = "stream" /\ UNCHANGED <<modelCalls, Retries>>
        /\ toolTurns' = toolTurns + 1
        /\ \/ pc' = "wrapRequest"
           \/ pc' = "top" /\ toolTurns' < MaxToolTurns
    BY <1>8, <1>a DEF Truncated, StartWrapUp, BudgetSpent, Retries
  <2>2. QED
    BY <1>a, <2>1 DEF RequestsCounted
<1>9. ASSUME NEW r \in Replies, StartTools(r)
      PROVE  RequestsCounted'
  <2>1. pc = "stream" /\ pc' = "tools" /\ UNCHANGED <<modelCalls, toolTurns, Retries>>
    BY <1>9 DEF StartTools, loopVars, ghostVars, Retries
  <2>2. QED
    BY <2>1 DEF RequestsCounted
<1>10. ASSUME NEW r \in Results, Execute(r)
       PROVE  RequestsCounted'
  BY <1>10, <1>b DEF Execute, loopVars
<1>11. CASE RecordTurn
  <2>1. /\ pc = "tools" /\ UNCHANGED <<modelCalls, Retries>>
        /\ \/ pc' = "wrapRequest"
           \/ pc' = "top" /\ toolTurns' = toolTurns + 1 /\ toolTurns' < MaxToolTurns
    <3>1. CASE vetoes >= VetoLimit
      BY <1>11, <3>1 DEF RecordTurn, StartWrapUp, Retries
    <3>2. CASE ~(vetoes >= VetoLimit)
      BY <1>11, <1>a, <3>2 DEF RecordTurn, StartWrapUp, BudgetSpent, Retries
    <3>3. QED
      BY <3>1, <3>2
  <2>2. QED
    BY <1>a, <2>1 DEF RequestsCounted
<1>12. CASE WrapUpRequest
  <2>1. pc = "wrapRequest" /\ pc' = "wrapStream" /\ modelCalls' = modelCalls + 1
    BY <1>12 DEF WrapUpRequest, Drain
  <2>2. QED
    BY <1>a, <2>1 DEF RequestsCounted
<1>13. CASE UNCHANGED vars
  BY <1>13, <1>b DEF vars, loopVars, ghostVars
<1>14. QED
  BY <1>1, <1>2, <1>3, <1>4, <1>5, <1>6, <1>7, <1>8, <1>9, <1>10, <1>11, <1>12,
     <1>13 DEF Next, Run, Reply, Dispatch

\* A run sends the model at most MaxToolTurns + 2 requests, whatever the model
\* answers and whatever refuses its calls.
THEOREM RequestsAreBounded == Spec => []BoundedRequests
<1>1. Init => RequestsCounted
  BY LoopAssumption DEF Init, RequestsCounted, Retries
<1>2. RequestsCounted => BoundedRequests
  BY DEF RequestsCounted, BoundedRequests
<1>3. QED
  BY <1>1, <1>2, LoopTypeCorrect, RequestsCountedInductive, PTL DEF Spec

-----------------------------------------------------------------------------
(* The loop detector.  Below the veto streak a call's last two results     *)
(* differ, at it they are the same, and the table's lastResult is the last *)
(* of them.                                                                *)

StreakOf(c) ==
  /\ entries[c].streak = 0 => trail[c] = <<>>
  /\ entries[c].streak > 0 =>
       /\ Len(trail[c]) \in {1, 2}
       /\ entries[c].last = trail[c][Len(trail[c])]
  /\ entries[c].streak < VetoStreak /\ Len(trail[c]) = 2 => trail[c][1] # trail[c][2]
  /\ Vetoed(entries, c) => Len(trail[c]) = 2 /\ trail[c][1] = trail[c][2]

Streaks == \A c \in Calls : StreakOf(c)

\* Executing a call that is not vetoed keeps the table in step with the results.
LEMMA ExecuteStreaks ==
  ASSUME TypeOK, Streaks, NEW r \in Results, Execute(r)
  PROVE  Streaks'
<1>1. PICK c \in Calls : c = Current
  BY SettleType DEF Execute
<1>2. /\ entries \in Detectors /\ trail \in [Calls -> Seq(Results)]
      /\ entries[c].streak \in 0..1
      /\ trail[c] \in Seq(Results)
  BY <1>1 DEF Execute, Vetoed, VetoStreak, Detectors, TypeOK
<1>3. /\ entries'[c].streak = NextStreak(entries[c], r) /\ entries'[c].last = r
      /\ trail'[c] = LastTwo(trail[c], r)
      /\ \A d \in Calls \ {c} : entries'[d] = entries[d] /\ trail'[d] = trail[d]
  BY <1>1, <1>2 DEF Execute, Observe, Detectors
<1>4. StreakOf(c)'
  <2>1. CASE entries[c].streak = 0
    <3>1. trail[c] = <<>>
      BY <1>1, <2>1 DEF Streaks, StreakOf
    <3>2. trail'[c] = <<r>> /\ entries'[c].last = r
      BY <1>3, <3>1 DEF LastTwo
    <3>3. entries'[c].streak = 1
      BY <1>3, <2>1 DEF NextStreak
    <3>4. QED
      BY <3>2, <3>3 DEF StreakOf, Vetoed, VetoStreak
  <2>2. CASE entries[c].streak = 1
    <3>1. /\ Len(trail[c]) \in {1, 2}
          /\ entries[c].last = trail[c][Len(trail[c])]
      BY <1>1, <2>2 DEF Streaks, StreakOf
    <3>2. trail[c] # <<>>
      <4> SUFFICES ASSUME trail[c] = <<>> PROVE FALSE
        OBVIOUS
      <4>1. Len(trail[c]) = 0
        OBVIOUS
      <4>2. QED
        BY <3>1, <4>1
    <3>a. trail'[c] = <<entries[c].last, r>>
      BY <1>3, <3>1, <3>2 DEF LastTwo
    <3>3. /\ entries[c].last = r => entries'[c].streak = 2
          /\ entries[c].last # r => entries'[c].streak = 1
      BY <1>3, <2>2 DEF NextStreak
    <3>4. QED
      BY <1>3, <3>a, <3>3 DEF StreakOf, Vetoed, VetoStreak
  <2>3. QED
    BY <1>2, <2>1, <2>2
<1>5. ASSUME NEW d \in Calls \ {c}
      PROVE  StreakOf(d)'
  BY <1>3, <1>5 DEF Streaks, StreakOf, Vetoed
<1>6. QED
  BY <1>4, <1>5 DEF Streaks

LEMMA StreaksInductive == TypeOK /\ Streaks /\ [Next]_vars => Streaks'
<1> SUFFICES ASSUME TypeOK, Streaks, [Next]_vars
             PROVE  Streaks'
  OBVIOUS
<1>1. CASE Prompt
  BY <1>1 DEF Prompt, Streaks, StreakOf, Vetoed, VetoStreak, NewDetector
<1>2. ASSUME NEW r \in Results, Execute(r)
      PROVE  Streaks'
  BY <1>2, ExecuteStreaks
<1>3. CASE UNCHANGED <<entries, trail>>
  BY <1>3 DEF Streaks, StreakOf, Vetoed
<1>4. CASE Enqueue \/ Finish \/ CompactBefore \/ Recheck \/ Request \/ StreamFails
           \/ RecordTurn \/ WrapUpRequest \/ Refuse \/ Veto
  BY <1>3, <1>4 DEF Enqueue, Finish, CompactBefore, Recheck, Request, StreamFails,
     RecordTurn, WrapUpRequest, Refuse, Veto, turnVars, ghostVars
<1>5. CASE Reply
  BY <1>3, <1>5 DEF Reply, FenceRetry, Answer, Truncated, StartTools, WrapUpAnswer,
     turnVars, ghostVars
<1>6. CASE UNCHANGED vars
  BY <1>3, <1>6 DEF vars, turnVars, ghostVars
<1>7. QED
  BY <1>1, <1>2, <1>4, <1>5, <1>6 DEF Next, Run, Dispatch

LEMMA InitStreaks == Init => Streaks
<1> SUFFICES ASSUME Init, NEW c \in Calls PROVE StreakOf(c)
  BY DEF Streaks
<1>1. entries[c].streak = 0 /\ trail[c] = <<>> /\ Len(trail[c]) = 0
  BY DEF Init, NewDetector
<1>2. QED
  BY <1>1 DEF StreakOf, Vetoed, VetoStreak

\* A call whose last two executions returned the same result does not execute
\* again in the run.
THEOREM NoThirdIdenticalExecution == Spec => NoThirdIdenticalRun
<1> DEFINE Step == Len(ranLog') > Len(ranLog) =>
                     LET c == ranLog'[Len(ranLog')]
                     IN  Len(trail[c]) = 2 => trail[c][1] # trail[c][2]
<1>2. TypeOK /\ Streaks /\ [Next]_vars => [Step]_vars
  <2> SUFFICES ASSUME TypeOK, Streaks, Next, Len(ranLog') > Len(ranLog)
               PROVE  LET c == ranLog'[Len(ranLog')]
                      IN  Len(trail[c]) = 2 => trail[c][1] # trail[c][2]
    OBVIOUS
  <2>1. ~UNCHANGED ranLog /\ ranLog' # <<>>
    BY DEF TypeOK
  <2>2. ~(Enqueue \/ Finish \/ CompactBefore \/ Recheck \/ Request \/ StreamFails
          \/ RecordTurn \/ WrapUpRequest \/ Refuse \/ Veto \/ Prompt)
    BY <2>1 DEF Enqueue, Finish, CompactBefore, Recheck, Request, StreamFails,
       RecordTurn, WrapUpRequest, Refuse, Veto, Prompt, ghostVars
  <2>3. ~Reply
    BY <2>1 DEF Reply, FenceRetry, Answer, Truncated, StartTools, WrapUpAnswer, ghostVars
  <2>4. PICK r \in Results : Execute(r)
    BY <2>2, <2>3 DEF Next, Run, Dispatch
  <2>5. Current \in Calls /\ ranLog'[Len(ranLog')] = Current
    BY <2>4, SettleType DEF Execute, TypeOK
  <2>6. ~(entries[Current].streak >= VetoStreak) /\ entries[Current].streak \in Nat
    <3>1. ~Vetoed(entries, Current)
      BY <2>4 DEF Execute
    <3>2. entries \in Detectors
      BY DEF TypeOK
    <3>3. PICK c \in Calls : c = Current
      BY <2>5
    <3>4. entries[c].streak \in Nat
      BY <3>2 DEF Detectors, VetoStreak
    <3>5. QED
      BY <3>1, <3>3, <3>4 DEF Vetoed
  <2>7. QED
    BY <2>5, <2>6 DEF Streaks, StreakOf, VetoStreak
<1>3. QED
  BY <1>2, InitStreaks, LoopTypeCorrect, StreaksInductive, PTL DEF Spec, NoThirdIdenticalRun

\* A skipped call's last two executions returned the same result, the second of them
\* with the warning.
THEOREM SkippedCallsWereWarned == Spec => VetoedAfterWarning
<1> DEFINE Step ==
      /\ Veto => Len(trail[Current]) = 2 /\ trail[Current][1] = trail[Current][2]
      /\ \A r \in Results :
           Execute(r) => (Warns(entries, Current, r) <=> Vetoed(entries', Current))
<1>1. TypeOK /\ Streaks /\ [Next]_vars => [Step]_vars
  <2> SUFFICES ASSUME TypeOK, Streaks
               PROVE  Step
    OBVIOUS
  <2>1. ASSUME Veto
        PROVE  Len(trail[Current]) = 2 /\ trail[Current][1] = trail[Current][2]
    <3>1. Current \in Calls
      BY <2>1, SettleType DEF Veto
    <3>2. QED
      BY <2>1, <3>1 DEF Veto, Streaks, StreakOf
  <2>2. ASSUME NEW r \in Results, Execute(r)
        PROVE  Warns(entries, Current, r) <=> Vetoed(entries', Current)
    <3>1. PICK c \in Calls : c = Current
      BY <2>2, SettleType DEF Execute
    <3>2. entries \in Detectors /\ entries[c].streak \in 0..1
      BY <2>2, <3>1 DEF Execute, Vetoed, VetoStreak, Detectors, TypeOK
    <3>3. entries'[c].streak = NextStreak(entries[c], r)
      BY <2>2, <3>1, <3>2 DEF Execute, Observe, Detectors
    <3>4. NextStreak(entries[c], r) \in 1..2
      BY <3>2 DEF NextStreak
    <3>5. QED
      BY <3>1, <3>3, <3>4 DEF Warns, Vetoed, VetoStreak, WarnStreak
  <2>3. QED
    BY <2>1, <2>2
<1>2. QED
  BY <1>1, InitStreaks, LoopTypeCorrect, StreaksInductive, PTL DEF Spec, VetoedAfterWarning

-----------------------------------------------------------------------------
(* Answered calls.  The only step that records calls appends their results *)
(* with them, given that the results so far are those of the first calls;  *)
(* draining touches texts only; and compaction keeps a suffix, in which a  *)
(* call still has the next message.                                        *)

\* Messages appended after h, answered themselves, leave all calls answered.
LEMMA ExtendAnswered ==
  ASSUME NEW h \in Seq(Messages), NEW g \in Seq(Messages),
         AllAnswered(h), Len(h) <= Len(g),
         \A i \in 1..Len(h) : g[i].calls = h[i].calls /\ g[i].results = h[i].results,
         \A i \in (Len(h) + 1)..Len(g) : AnsweredAt(g, i)
  PROVE  AllAnswered(g)
<1> SUFFICES ASSUME NEW i \in 1..Len(g)
             PROVE  AnsweredAt(g, i)
  BY DEF AllAnswered
<1>1. CASE i \in (Len(h) + 1)..Len(g)
  BY <1>1
<1>2. CASE i \in 1..Len(h)
  <2>1. AnsweredAt(h, i) /\ g[i].calls = h[i].calls
    BY <1>2 DEF AllAnswered
  <2>2. CASE h[i].calls = <<>>
    BY <2>1, <2>2 DEF AnsweredAt
  <2>3. CASE h[i].calls # <<>>
    <3>1. i + 1 \in 1..Len(h) /\ i < Len(g)
      BY <1>2, <2>1, <2>3 DEF AnsweredAt
    <3>2. g[i + 1].results = h[i + 1].results
      BY <3>1
    <3>3. QED
      BY <2>1, <2>3, <3>1, <3>2 DEF AnsweredAt
  <2>4. QED
    BY <2>2, <2>3
<1>3. QED
  BY <1>1, <1>2

\* One message without calls appended.
LEMMA AppendAnswered ==
  ASSUME NEW h \in Seq(Messages), AllAnswered(h), NEW m \in Messages, m.calls = <<>>
  PROVE  AllAnswered(Append(h, m))
<1> DEFINE g == Append(h, m)
<1>1. /\ g \in Seq(Messages) /\ Len(g) = Len(h) + 1
      /\ \A i \in 1..Len(h) : g[i] = h[i]
      /\ g[Len(h) + 1] = m
  BY AppendProperties
<1>2. AnsweredAt(g, Len(h) + 1)
  BY <1>1 DEF AnsweredAt
<1>3. \A i \in (Len(h) + 1)..Len(g) : AnsweredAt(g, i)
  <2>1. \A i \in (Len(h) + 1)..Len(g) : i = Len(h) + 1
    BY <1>1
  <2>2. QED
    BY <1>2, <2>1
<1>4. \A i \in 1..Len(h) : g[i].calls = h[i].calls /\ g[i].results = h[i].results
  BY <1>1
<1>5. g \in Seq(Messages) /\ Len(h) <= Len(g)
  BY <1>1
<1> HIDE DEF g
<1>6. AllAnswered(g)
  BY <1>3, <1>4, <1>5, ExtendAnswered
<1>7. QED
  BY <1>6 DEF g

\* The model's prose appended.
LEMMA ProseAnswered ==
  ASSUME NEW h \in Seq(Messages), AllAnswered(h)
  PROVE  AllAnswered(Append(h, AssistantMessage(<<Prose>>, <<>>)))
<1>1. /\ AssistantMessage(<<Prose>>, <<>>) \in Messages
      /\ AssistantMessage(<<Prose>>, <<>>).calls = <<>>
  BY DEF AssistantMessage, Messages, Prose, Texts
<1>2. QED
  BY <1>1, AppendAnswered

\* A message without calls appended, a text added to the last message.
LEMMA DrainedAnswered ==
  ASSUME NEW h \in Seq(Messages), NEW q \in Seq(Texts), AllAnswered(h)
  PROVE  AllAnswered(Drained(h, q))
<1>1. CASE q = <<>>
  BY <1>1 DEF Drained
<1>2. CASE q # <<>> /\ EndsWithUser(h)
  <2> DEFINE m == [h[Len(h)] EXCEPT !.texts = @ \o q]
  <2>1. /\ Len(h) \in 1..Len(h) /\ h[Len(h)] \in Messages
    BY <1>2 DEF EndsWithUser
  <2>a. h[Len(h)].texts \o q \in Seq(Texts)
    BY <2>1 DEF Messages
  <2>2. /\ m \in Messages
        /\ m.calls = h[Len(h)].calls /\ m.results = h[Len(h)].results
    BY <2>1, <2>a DEF Messages
  <2>3. Drained(h, q) = [h EXCEPT ![Len(h)] = m]
    BY <1>2 DEF Drained
  <2>4. /\ Len(Drained(h, q)) = Len(h)
        /\ \A i \in 1..Len(h) : Drained(h, q)[i] = IF i = Len(h) THEN m ELSE h[i]
    BY <2>1, <2>2, <2>3, ExceptSeq
  <2>5. \A i \in 1..Len(h) : /\ Drained(h, q)[i].calls = h[i].calls
                             /\ Drained(h, q)[i].results = h[i].results
    BY <2>2, <2>4
  <2>6. Drained(h, q) \in Seq(Messages) /\ (Len(h) + 1)..Len(Drained(h, q)) = {}
    BY <2>4, DrainedType
  <2>7. QED
    BY <2>4, <2>5, <2>6, ExtendAnswered
<1>3. CASE q # <<>> /\ ~EndsWithUser(h)
  <2>1. UserMessage(q) \in Messages /\ UserMessage(q).calls = <<>>
    BY DEF UserMessage, Messages
  <2>2. Drained(h, q) = Append(h, UserMessage(q))
    BY <1>3 DEF Drained
  <2>3. QED
    BY <2>1, <2>2, AppendAnswered
<1>4. QED
  BY <1>1, <1>2, <1>3

\* A suffix of h behind a summary.
LEMMA SuffixAnswered ==
  ASSUME NEW h \in Seq(Messages), AllAnswered(h), NEW m \in 1..Len(h),
         NEW g \in Seq(Messages),
         g = <<UserMessage(<<Summary>>)>> \o SubSeq(h, m, Len(h))
  PROVE  AllAnswered(g)
<1>1. /\ Len(g) = Len(h) - m + 2
      /\ g[1].calls = <<>>
      /\ \A i \in 2..Len(g) : g[i] = h[m + i - 2]
  <2>1. UserMessage(<<Summary>>) \in Messages /\ UserMessage(<<Summary>>).calls = <<>>
    BY DEF UserMessage, Messages, Summary, Texts
  <2>2. /\ Len(SubSeq(h, m, Len(h))) = Len(h) - m + 1
        /\ SubSeq(h, m, Len(h)) \in Seq(Messages)
        /\ \A i \in 1..(Len(h) - m + 1) : SubSeq(h, m, Len(h))[i] = h[m + i - 1]
    OBVIOUS
  <2> DEFINE first == UserMessage(<<Summary>>)
             kept  == SubSeq(h, m, Len(h))
  <2> HIDE DEF first, kept
  <2>3. /\ Len(<<first>> \o kept) = 1 + Len(kept)
        /\ (<<first>> \o kept)[1] = first
        /\ \A i \in 2..(1 + Len(kept)) : (<<first>> \o kept)[i] = kept[i - 1]
    BY <2>1, <2>2 DEF first, kept
  <2>4. g = <<first>> \o kept /\ first.calls = <<>> /\ Len(kept) = Len(h) - m + 1
    BY <2>1, <2>2 DEF first, kept
  <2>5. \A i \in 2..(1 + Len(kept)) :
          i - 1 \in 1..(Len(h) - m + 1) /\ kept[i - 1] = h[m + i - 2]
    <3> SUFFICES ASSUME NEW i \in 2..(1 + Len(kept))
                 PROVE  i - 1 \in 1..(Len(h) - m + 1) /\ kept[i - 1] = h[m + i - 2]
      OBVIOUS
    <3>1. i - 1 \in 1..(Len(h) - m + 1) /\ m + (i - 1) - 1 = m + i - 2
      BY <2>4
    <3>2. QED
      BY <2>2, <3>1 DEF kept
  <2>6. Len(g) = 1 + Len(kept) /\ 1 + Len(kept) = Len(h) - m + 2
    BY <2>3, <2>4
  <2>7. QED
    BY <2>3, <2>4, <2>5, <2>6
<1>a. AnsweredAt(g, 1)
  BY <1>1 DEF AnsweredAt
<1> SUFFICES ASSUME NEW i \in 2..Len(g), g[i].calls # <<>>
             PROVE  AnsweredAt(g, i)
  <2>1. \A i \in 1..Len(g) : i = 1 \/ i \in 2..Len(g)
    OBVIOUS
  <2>2. \A i \in 2..Len(g) : g[i].calls = <<>> => AnsweredAt(g, i)
    BY DEF AnsweredAt
  <2>3. QED
    BY <1>a, <2>1, <2>2 DEF AllAnswered
<1>2. g[i] = h[m + i - 2] /\ m + i - 2 \in 1..Len(h)
  BY <1>1
<1>3. AnsweredAt(h, m + i - 2)
  BY <1>2 DEF AllAnswered
<1>4. m + i - 2 < Len(h) /\ i + 1 \in 2..Len(g)
  BY <1>1, <1>2, <1>3 DEF AnsweredAt
<1>5. g[i + 1] = h[m + i - 2 + 1]
  BY <1>1, <1>4
<1>6. QED
  BY <1>1, <1>2, <1>3, <1>4, <1>5 DEF AnsweredAt

\* Compaction, before the run or of what predates it, leaves all calls answered:
\* KeepRecent > 0, so the message after a kept call is kept too.
LEMMA CompactedAnswered ==
  ASSUME NEW h \in Seq(Messages), AllAnswered(h)
  PROVE  AllAnswered(Compacted(h))
<1>1. CASE Len(h) <= KeepRecent + 1
  BY <1>1 DEF Compacted
<1>2. CASE ~(Len(h) <= KeepRecent + 1)
  <2>1. Len(h) - KeepRecent + 1 \in 1..Len(h)
    BY <1>2, LoopAssumption
  <2>2. QED
    BY <1>2, <2>1, CompactedType, SuffixAnswered DEF Compacted
<1>3. QED
  BY <1>1, <1>2

LEMMA CompactedOlderAnswered ==
  ASSUME NEW h \in Seq(Messages), AllAnswered(h), NEW s \in 0..Len(h)
  PROVE  CompactedOlder(h, s) \in Seq(Messages) /\ AllAnswered(CompactedOlder(h, s))
<1> DEFINE prefix == SubSeq(h, 1, s)
           rest   == SubSeq(h, s + 1, Len(h))
<1> USE LoopAssumption
<1>1. prefix \in Seq(Messages) /\ rest \in Seq(Messages) /\ Len(prefix) = s
  OBVIOUS
<1>2. CompactedOlder(h, s) \in Seq(Messages)
  <2>1. Compacted(prefix) \in Seq(Messages)
    BY <1>1, CompactedType
  <2>2. CompactedOlder(h, s) = Compacted(prefix) \o rest
    BY DEF CompactedOlder
  <2>3. QED
    BY <1>1, <2>1, <2>2, ConcatProperties
<1>3. CASE Len(prefix) <= KeepRecent + 1
  <2>1. prefix \o rest = SubSeq(h, 1, Len(h))
    <3>1. /\ 1 \in 1..(Len(h) + 1) /\ s \in (1 - 1)..Len(h)
          /\ Len(h) \in s..Len(h)
      OBVIOUS
    <3>2. QED
      BY <3>1, ConcatAdjacentSubSeq, Zenon
  <2>a. SubSeq(h, 1, Len(h)) = h
    BY SubSeqFull
  <2>2. QED
    BY <1>2, <1>3, <2>1, <2>a DEF CompactedOlder, Compacted
<1>4. CASE ~(Len(prefix) <= KeepRecent + 1)
  <2> DEFINE m == s - KeepRecent + 1
             top == <<UserMessage(<<Summary>>)>>
  <2>1. m \in 1..s
    BY <1>1, <1>4
  <2>2. top \in Seq(Messages)
    BY DEF UserMessage, Messages, Summary, Texts
  <2>3. SubSeq(prefix, m, s) \in Seq(Messages)
    BY <1>1, <2>1
  <2>4. SubSeq(prefix, m, s) \o rest = SubSeq(h, m, Len(h))
    BY <1>1, <2>1
  <2>5. CompactedOlder(h, s) = (top \o SubSeq(prefix, m, s)) \o rest
    BY <1>1, <1>4 DEF CompactedOlder, Compacted
  <2>6. (top \o SubSeq(prefix, m, s)) \o rest = top \o (SubSeq(prefix, m, s) \o rest)
    <3> DEFINE Joined(a, b) == a \o b
               kept == SubSeq(prefix, m, s)
    <3>1. \A a, b, c \in Seq(Messages) : Joined(Joined(a, b), c) = Joined(a, Joined(b, c))
      <4> SUFFICES ASSUME NEW a \in Seq(Messages), NEW b \in Seq(Messages),
                          NEW c \in Seq(Messages)
                   PROVE  (a \o b) \o c = a \o (b \o c)
        OBVIOUS
      <4>1. QED
        BY ConcatAssociative, SMTT(30)
    <3>2. top \in Seq(Messages) /\ kept \in Seq(Messages) /\ rest \in Seq(Messages)
      BY <1>1, <2>2, <2>3
    <3> HIDE DEF top, kept, rest, Joined
    <3>3. Joined(Joined(top, kept), rest) = Joined(top, Joined(kept, rest))
      BY <3>1, <3>2
    <3>4. QED
      BY <3>3 DEF Joined, kept
  <2>7. CompactedOlder(h, s) = <<UserMessage(<<Summary>>)>> \o SubSeq(h, m, Len(h))
    BY <2>4, <2>5, <2>6
  <2>8. m \in 1..Len(h)
    BY <2>1
  <2>9. QED
    <3> HIDE DEF m
    <3>1. QED
      BY <1>2, <2>7, <2>8, SuffixAnswered
<1>5. QED
  BY <1>3, <1>4

\* An assistant message with calls and the message with their results.
LEMMA AnsweredTurn ==
  ASSUME NEW h \in Seq(Messages), AllAnswered(h),
         NEW r \in Replies, NEW outcomes \in Seq(Outcomes),
         Len(outcomes) = Len(r.calls),
         \A j \in 1..Len(r.calls) : outcomes[j].call = r.calls[j]
  PROVE  AllAnswered(Answered(h, r, outcomes)) /\ AllAnswered(WithFinalProse(h, r))
<1>a. ProseOf(r) \in Seq(Texts)
  <2>1. Prose \in Texts
    BY DEF Prose, Texts
  <2>2. QED
    BY <2>1 DEF ProseOf
<1>b. r.calls \in Seq(Calls)
  BY CallListsAreSequences
<1>1. /\ AssistantMessage(ProseOf(r), r.calls) \in Messages
      /\ ResultMessage(outcomes) \in Messages
  BY <1>a, <1>b DEF AssistantMessage, ResultMessage, Messages
<1>2. AllAnswered(Answered(h, r, outcomes))
  <2> DEFINE g == Answered(h, r, outcomes)
  <2>1. /\ g \in Seq(Messages) /\ Len(g) = Len(h) + 2
        /\ \A i \in 1..Len(h) : g[i] = h[i]
        /\ g[Len(h) + 1] = AssistantMessage(ProseOf(r), r.calls)
        /\ g[Len(h) + 2] = ResultMessage(outcomes)
    BY <1>1 DEF Answered
  <2>2. AnsweredAt(g, Len(h) + 1)
    BY <2>1 DEF AnsweredAt, AssistantMessage, ResultMessage
  <2>3. AnsweredAt(g, Len(h) + 2)
    BY <2>1 DEF AnsweredAt, ResultMessage
  <2>4. (Len(h) + 1)..Len(g) = {Len(h) + 1, Len(h) + 2}
    BY <2>1
  <2>5. QED
    BY <2>1, <2>2, <2>3, <2>4, ExtendAnswered
<1>3. AllAnswered(WithFinalProse(h, r))
  BY ProseAnswered DEF WithFinalProse
<1>4. QED
  BY <1>2, <1>3

\* The results so far are those of the reply's first calls.
ResultsFollowCalls ==
  pc = "tools" => \A j \in 1..Len(results) : results[j].call = reply.calls[j]

AnsweredInv == CallsAnswered /\ ResultsFollowCalls

LEMMA SettleFollows ==
  ASSUME TypeOK, ResultsFollowCalls, Dispatching, NEW ran \in BOOLEAN, Settle(ran),
         UNCHANGED <<pc, reply>>
  PROVE  ResultsFollowCalls'
<1>1. Current \in Calls
  BY SettleType
<1>2. /\ results' = Append(results, [call |-> Current, ran |-> ran])
      /\ [call |-> Current, ran |-> ran] \in Outcomes /\ results \in Seq(Outcomes)
  BY <1>1 DEF Settle, Outcomes, TypeOK
<1>3. \A j \in 1..Len(results') : results'[j].call = reply.calls[j]
  BY <1>2 DEF ResultsFollowCalls, Dispatching, Current
<1>4. QED
  BY <1>3 DEF ResultsFollowCalls

LEMMA AnsweredInductive == TypeOK /\ AnsweredInv /\ [Next]_vars => AnsweredInv'
<1> SUFFICES ASSUME TypeOK, AnsweredInv, [Next]_vars
             PROVE  AnsweredInv'
  OBVIOUS
<1>a. /\ history \in Seq(Messages) /\ conv \in Seq(Messages)
      /\ steer \in Seq(Texts) /\ results \in Seq(Outcomes)
      /\ AllAnswered(history) /\ AllAnswered(conv) /\ ResultsFollowCalls
  BY DEF TypeOK, AnsweredInv, CallsAnswered
<1>b. UNCHANGED <<history, conv, pc, results, reply>> => AnsweredInv'
  BY <1>a DEF AnsweredInv, CallsAnswered, AllAnswered, AnsweredAt, ResultsFollowCalls
<1>c. pc' # "tools" /\ AllAnswered(history') /\ AllAnswered(conv') => AnsweredInv'
  BY DEF AnsweredInv, CallsAnswered, ResultsFollowCalls, AllAnswered, AnsweredAt
<1>1. CASE Prompt
  <2>1. /\ typed' \in Nat /\ conv' = Append(conv, UserMessage(<<Typed(typed')>>))
        /\ history' = conv' /\ pc' = "compact"
    BY <1>1 DEF Prompt, TypeOK
  <2>2. /\ UserMessage(<<Typed(typed')>>) \in Messages
        /\ UserMessage(<<Typed(typed')>>).calls = <<>>
    BY <2>1 DEF UserMessage, Messages, Typed, Texts
  <2>3. QED
    BY <1>a, <1>c, <2>1, <2>2, AppendAnswered
<1>2. CASE Enqueue \/ UNCHANGED vars
  BY <1>2, <1>b DEF Enqueue, loopVars, turnVars, vars, callerVars
<1>3. CASE Finish
  BY <1>3, <1>a, <1>c DEF Finish, loopVars
<1>4. CASE CompactBefore
  BY <1>4, <1>a, <1>c, CompactedAnswered DEF CompactBefore, callerVars
<1>5. CASE Recheck
  <2>1. AllAnswered(history')
    <3>1. CASE UNCHANGED <<history, runStart>>
      BY <3>1, <1>a DEF AllAnswered, AnsweredAt
    <3>2. CASE ~UNCHANGED <<history, runStart>>
      BY <1>5, <1>a, <3>2, CompactedOlderAnswered DEF Recheck, TypeOK
    <3>3. QED
      BY <3>1, <3>2
  <2>2. QED
    BY <1>5, <1>a, <1>c, <2>1 DEF Recheck, callerVars
<1>6. CASE Request \/ WrapUpRequest
  BY <1>6, <1>a, <1>c, DrainedAnswered DEF Request, WrapUpRequest, Drain, TakenBy, callerVars
<1>7. CASE StreamFails
  BY <1>7, <1>a, <1>c DEF StreamFails, callerVars, loopVars
<1>8. ASSUME NEW r \in Replies, FenceRetry(r)
      PROVE  AnsweredInv'
  BY <1>8, <1>a, <1>c, ProseAnswered DEF FenceRetry, callerVars
<1>9. ASSUME NEW r \in Replies, Answer(r) \/ WrapUpAnswer(r)
      PROVE  AnsweredInv'
  BY <1>9, <1>a, <1>c, ProseAnswered DEF Answer, WrapUpAnswer, WithFinalProse, callerVars
<1>10. ASSUME NEW r \in Replies, Truncated(r)
       PROVE  AnsweredInv'
  <2>1. /\ RefusedAll(r.calls) \in Seq(Outcomes)
        /\ Len(RefusedAll(r.calls)) = Len(r.calls)
        /\ \A i \in 1..Len(r.calls) : RefusedAll(r.calls)[i].call = r.calls[i]
    BY CallListsAreSequences, RefusedAllType
  <2>2. AllAnswered(history')
    BY <1>10, <1>a, <2>1, AnsweredTurn DEF Truncated
  <2>3. pc' \in {"top", "wrapRequest"} /\ conv' = conv
    BY <1>10 DEF Truncated, StartWrapUp, callerVars
  <2>4. QED
    BY <1>a, <1>c, <2>2, <2>3
<1>11. ASSUME NEW r \in Replies, StartTools(r)
       PROVE  AnsweredInv'
  BY <1>11, <1>a DEF StartTools, loopVars, callerVars, AnsweredInv, CallsAnswered,
     ResultsFollowCalls, AllAnswered, AnsweredAt
<1>12. ASSUME NEW ran \in BOOLEAN, Dispatching, Settle(ran),
              UNCHANGED <<pc, reply, history, conv>>
       PROVE  AnsweredInv'
  BY <1>12, <1>a, SettleFollows DEF AnsweredInv, CallsAnswered, AllAnswered, AnsweredAt
<1>13. CASE Dispatch
  <2>1. \E ran \in BOOLEAN : Dispatching /\ Settle(ran) /\ UNCHANGED <<pc, reply, history, conv>>
    BY <1>13 DEF Dispatch, Refuse, Veto, Execute, callerVars, loopVars
  <2>2. QED
    BY <1>12, <2>1
<1>14. CASE RecordTurn
  <2>1. pc = "tools" /\ Len(results) = Len(reply.calls) /\ reply \in Replies
    BY <1>14 DEF RecordTurn, TypeOK
  <2>2. AllAnswered(Answered(history, reply, results))
    BY <1>a, <2>1, AnsweredTurn DEF ResultsFollowCalls
  <2>3. pc' \in {"top", "wrapRequest"} /\ conv' = conv
        /\ history' = Answered(history, reply, results)
    BY <1>14 DEF RecordTurn, StartWrapUp, callerVars
  <2>4. QED
    BY <1>a, <1>c, <2>2, <2>3
<1>15. QED
  BY <1>1, <1>2, <1>3, <1>4, <1>5, <1>6, <1>7, <1>8, <1>9, <1>10, <1>11, <1>13, <1>14
     DEF Next, Run, Reply

\* Every recorded tool call is answered by the message that follows it, in the
\* running history and in the caller's conversation.
THEOREM EveryCallIsAnswered == Spec => []CallsAnswered
<1>1. Init => AnsweredInv
  BY DEF Init, AnsweredInv, CallsAnswered, AllAnswered, ResultsFollowCalls
<1>2. AnsweredInv => CallsAnswered
  BY DEF AnsweredInv
<1>3. QED
  BY <1>1, <1>2, LoopTypeCorrect, AnsweredInductive, PTL DEF Spec

-----------------------------------------------------------------------------
(* Flattening.  What a run was told and what it did are spread over the    *)
(* messages of its history; FlattenSeq puts them together again.  It is a  *)
(* recursive function, and what it does when a part is added at the end    *)
(* is proved by induction.                                                 *)

\* The order of the naturals as a relation, for the library's well-founded induction.
Below == {ss \in Nat \X Nat : ss[1] < ss[2]}

LEMMA BelowWellFounded == IsWellFoundedOn(Below, Nat)
BY NatLessThanWellFounded DEF OpToRel, Below

\* A set of naturals that is not empty has a least element.
LEMMA LeastNatural ==
  ASSUME NEW T, T \subseteq Nat, T # {}
  PROVE  \E x \in T : \A y \in T : x <= y
<1>1. PICK x \in T : \A y \in T : ~(<<y, x>> \in Below)
  BY BelowWellFounded, WFMin
<1>2. ASSUME NEW y \in T
      PROVE  x <= y
  <2>1. <<y, x>> \in Nat \X Nat /\ x \in Nat /\ y \in Nat
    OBVIOUS
  <2>2. ~(y < x)
    BY <1>1, <2>1 DEF Below
  <2>3. QED
    BY <2>1, <2>2
<1>3. QED
  BY <1>2

\* Induction: a set with 0 and every successor of its members has every natural.
LEMMA SetInduction ==
  ASSUME NEW S, 0 \in S, \A n \in Nat : n \in S => n + 1 \in S
  PROVE Nat \subseteq S
<1>1. SUFFICES ASSUME Nat \ S # {} PROVE FALSE
  OBVIOUS
<1>2. PICK x \in Nat \ S : \A y \in Nat \ S : x <= y
  BY <1>1, LeastNatural
<1>3. x # 0 /\ x - 1 \in Nat
  BY <1>2
<1>4. x - 1 \in S
  BY <1>2, <1>3
<1>5. QED
  BY <1>2, <1>3, <1>4

\* FlattenSeq's recursive function on the sequence of sequences p, up to n.
FlatStep(f, p, i) == IF i = 1 THEN p[i] ELSE f[i - 1] \o p[i]
Flattens(f, p, n) == f = [i \in 1..n |-> FlatStep(f, p, i)]

\* Its value at a position, that it exists, and that FlattenSeq is its last value.
LEMMA FlattensAt ==
  ASSUME NEW f, NEW p, NEW n, Flattens(f, p, n), NEW i \in 1..n
  PROVE  f[i] = FlatStep(f, p, i)
BY DEF Flattens

LEMMA FlattensExists ==
  ASSUME NEW p, NEW n \in Nat
  PROVE  \E f : Flattens(f, p, n)
<1> DEFINE S == {m \in Nat : \E f : Flattens(f, p, m)}
<1>1. 0 \in S
  <2>1. Flattens([i \in 1..0 |-> 0], p, 0)
    BY DEF Flattens
  <2>2. QED
    BY <2>1
<1>2. ASSUME NEW m \in Nat, m \in S
      PROVE  m + 1 \in S
  <2>1. PICK f : Flattens(f, p, m)
    BY <1>2
  <2> DEFINE g == [i \in 1..(m + 1) |-> FlatStep(f, p, i)]
  <2>2. \A i \in 1..m : i \in 1..(m + 1) /\ f[i] = g[i]
    BY <2>1, FlattensAt
  <2>3. \A i \in 1..(m + 1) : FlatStep(f, p, i) = FlatStep(g, p, i)
    <3> HIDE DEF g
    <3>1. \A i \in 1..(m + 1) : i # 1 => i - 1 \in 1..m
      OBVIOUS
    <3>2. QED
      BY <2>2, <3>1 DEF FlatStep
  <2>4. Flattens(g, p, m + 1)
    BY <2>3 DEF Flattens
  <2>5. QED
    BY <2>4
<1>3. Nat \subseteq S
  <2> HIDE DEF S
  <2>1. QED
    BY <1>1, <1>2, SetInduction
<1>4. QED
  BY <1>3

LEMMA FlattenSeqFlattens ==
  ASSUME NEW p, Len(p) \in Nat \ {0}
  PROVE  \E f : Flattens(f, p, Len(p)) /\ FlattenSeq(p) = f[Len(p)]
<1>1. \E f : Flattens(f, p, Len(p))
  BY FlattensExists
<1> DEFINE f == CHOOSE f : Flattens(f, p, Len(p))
<1>2. Flattens(f, p, Len(p))
  BY <1>1
<1>3. FlattenSeq(p) = f[Len(p)]
  BY DEF FlattenSeq, Flattens, FlatStep
<1>4. QED
  BY <1>2, <1>3

\* It depends on the parts up to n only.
LEMMA FlattensAgree ==
  ASSUME NEW p, NEW q, NEW m \in Nat, NEW n \in Nat, m <= n, NEW f, NEW g,
         Flattens(f, p, m), Flattens(g, q, n),
         \A i \in 1..m : p[i] = q[i]
  PROVE  \A i \in 1..m : f[i] = g[i]
<1> DEFINE S == {k \in Nat : k \in 1..m => f[k] = g[k]}
<1>1. 0 \in S
  OBVIOUS
<1>2. ASSUME NEW k \in Nat, k \in S
      PROVE  k + 1 \in S
  <2> SUFFICES ASSUME k + 1 \in 1..m PROVE f[k + 1] = g[k + 1]
    OBVIOUS
  <2>1. k + 1 \in 1..n
    OBVIOUS
  <2>2. f[k + 1] = FlatStep(f, p, k + 1) /\ g[k + 1] = FlatStep(g, q, k + 1)
    BY <2>1, FlattensAt
  <2>3. k + 1 # 1 => k \in 1..m /\ k + 1 - 1 = k
    OBVIOUS
  <2>4. QED
    BY <1>2, <2>2, <2>3 DEF FlatStep
<1>3. Nat \subseteq S
  <2> HIDE DEF S
  <2>1. QED
    BY <1>1, <1>2, SetInduction
<1>4. QED
  BY <1>3

\* Flattening sequences over T gives sequences over T.
LEMMA FlattensType ==
  ASSUME NEW T, NEW n \in Nat, NEW p, NEW f,
         \A i \in 1..n : p[i] \in Seq(T), Flattens(f, p, n)
  PROVE  \A i \in 1..n : f[i] \in Seq(T)
<1> DEFINE S == {k \in Nat : k \in 1..n => f[k] \in Seq(T)}
<1>1. 0 \in S
  OBVIOUS
<1>2. ASSUME NEW k \in Nat, k \in S
      PROVE  k + 1 \in S
  <2> SUFFICES ASSUME k + 1 \in 1..n PROVE f[k + 1] \in Seq(T)
    OBVIOUS
  <2>1. f[k + 1] = FlatStep(f, p, k + 1)
    BY FlattensAt
  <2>2. k + 1 # 1 => k \in 1..n /\ k + 1 - 1 = k
    OBVIOUS
  <2>3. QED
    BY <1>2, <2>1, <2>2 DEF FlatStep
<1>3. Nat \subseteq S
  <2> HIDE DEF S
  <2>1. QED
    BY <1>1, <1>2, SetInduction
<1>4. QED
  BY <1>3

\* What flattening one sequence more does.
Longer(g, m, f, n, q) == g[m] = f[n] \o q[m]

LEMMA FlattensExtend ==
  ASSUME NEW n \in Nat \ {0}, NEW m, m = n + 1, NEW p, NEW q, NEW f, NEW g,
         Flattens(f, p, n), Flattens(g, q, m),
         \A i \in 1..n : p[i] = q[i]
  PROVE  Longer(g, m, f, n, q)
<1>1. \A i \in 1..n : f[i] = g[i]
  <2>1. n <= m /\ n \in Nat /\ m \in Nat
    OBVIOUS
  <2>2. QED
    BY <2>1, FlattensAgree
<1>2. m \in 1..m /\ n \in 1..n /\ m # 1 /\ m - 1 = n
  OBVIOUS
<1>3. g[m] = FlatStep(g, q, m)
  BY <1>2, FlattensAt
<1>4. FlatStep(g, q, m) = g[m - 1] \o q[m]
  BY <1>2, Zenon DEF FlatStep
<1>5. QED
  BY <1>1, <1>2, <1>3, <1>4 DEF Longer

Joined(a, b, c) == a = b \o c

\* Flattening sequence by sequence.
LEMMA FlattenSeqExtend ==
  ASSUME NEW T, NEW n \in Nat, NEW m, m = n + 1, NEW p, NEW q,
         Len(p) = n, Len(q) = m, n = 0 => p = <<>>,
         \A i \in 1..n : p[i] = q[i], \A i \in 1..n : p[i] \in Seq(T), q[m] \in Seq(T)
  PROVE  FlattenSeq(p) \in Seq(T) /\ Joined(FlattenSeq(q), FlattenSeq(p), q[m])
<1>1. Len(q) \in Nat \ {0}
  OBVIOUS
<1>2. PICK g : Flattens(g, q, m) /\ FlattenSeq(q) = g[m]
  BY <1>1, FlattenSeqFlattens
<1>3. CASE n = 0
  <2>1. FlattenSeq(p) = <<>>
    BY <1>3 DEF FlattenSeq
  <2>2. g[m] = FlatStep(g, q, m)
    <3>1. m \in 1..m
      OBVIOUS
    <3>2. QED
      BY <1>2, <3>1, FlattensAt
  <2>3. FlattenSeq(q) = q[m]
    BY <1>2, <1>3, <2>2 DEF FlatStep
  <2>4. QED
    BY <2>1, <2>3 DEF Joined
<1>4. CASE n # 0
  <2>1. PICK f : Flattens(f, p, n) /\ FlattenSeq(p) = f[n]
    BY <1>4, FlattenSeqFlattens
  <2>2. n \in 1..n
    BY <1>4
  <2>3. f[n] \in Seq(T)
    BY <2>1, <2>2, FlattensType
  <2>4. g[m] = f[n] \o q[m]
    <3>1. Longer(g, m, f, n, q)
      BY <1>2, <1>4, <2>1, FlattensExtend
    <3>2. QED
      BY <3>1 DEF Longer
  <2>5. QED
    BY <1>2, <2>1, <2>3, <2>4 DEF Joined
<1>5. QED
  BY <1>3, <1>4

LEMMA FlattenSeqAppend ==
  ASSUME NEW T, NEW p \in Seq(Seq(T)), NEW x \in Seq(T)
  PROVE  /\ FlattenSeq(p) \in Seq(T)
         /\ FlattenSeq(Append(p, x)) = FlattenSeq(p) \o x
<1> DEFINE q == Append(p, x)
           n == Len(p)
           m == n + 1
<1>1. /\ n \in Nat /\ m = n + 1 /\ Len(p) = n /\ Len(q) = m
      /\ n = 0 => p = <<>>
      /\ q[m] = x /\ q[m] \in Seq(T)
  OBVIOUS
<1>2. /\ \A i \in 1..n : p[i] = q[i]
      /\ \A i \in 1..n : p[i] \in Seq(T)
  OBVIOUS
<1> HIDE DEF q, n, m
<1>3. FlattenSeq(p) \in Seq(T) /\ Joined(FlattenSeq(q), FlattenSeq(p), q[m])
  BY <1>1, <1>2, FlattenSeqExtend
<1>4. QED
  BY <1>1, <1>3 DEF q, Joined

\* Parts over no elements are empty, and so is what they flatten to.
LEMMA FlattenEmpty ==
  ASSUME NEW p \in Seq(Seq({}))
  PROVE  FlattenSeq(p) = <<>>
<1>1. FlattenSeq(p) \in Seq({})
  <2>1. <<>> \in Seq({})
    OBVIOUS
  <2>2. QED
    BY <2>1, FlattenSeqAppend
<1>2. QED
  BY <1>1

\* Flattening one part.
LEMMA FlattenOne ==
  ASSUME NEW T, NEW x \in Seq(T)
  PROVE  FlattenSeq(<<x>>) = x
<1>1. <<>> \in Seq(Seq(T)) /\ Append(<<>>, x) = <<x>> /\ FlattenSeq(<<>>) = <<>> /\ <<>> \o x = x
  BY DEF FlattenSeq
<1>2. FlattenSeq(Append(<<>>, x)) = FlattenSeq(<<>>) \o x
  BY <1>1, FlattenSeqAppend
<1>3. QED
  BY <1>1, <1>2

-----------------------------------------------------------------------------
(* What the messages of a run say and do, when the history grows.          *)

LEMMA TextsToType ==
  ASSUME NEW m \in Messages
  PROVE  TextsTo(m) \in Seq(Texts)
BY DEF TextsTo, Messages

\* The parts of the run's messages, as sequences.
LEMMA SaidEachType ==
  ASSUME NEW h \in Seq(Messages), NEW s \in 0..Len(h)
  PROVE  SaidEach(h, s) \in Seq(Seq(Texts)) /\ Len(SaidEach(h, s)) = Len(h) - s
<1>1. Len(h) - s \in Nat
  OBVIOUS
<1>2. \A i \in 1..(Len(h) - s) : TextsTo(h[s + i]) \in Seq(Texts)
  <2> SUFFICES ASSUME NEW i \in 1..(Len(h) - s) PROVE TextsTo(h[s + i]) \in Seq(Texts)
    OBVIOUS
  <2>1. h[s + i] \in Messages
    OBVIOUS
  <2>2. QED
    BY <2>1, TextsToType
<1>3. QED
  BY <1>1, <1>2 DEF SaidEach

LEMMA SaidType ==
  ASSUME NEW h \in Seq(Messages), NEW s \in 0..Len(h)
  PROVE  Said(h, s) \in Seq(Texts)
<1>1. SaidEach(h, s) \in Seq(Seq(Texts)) /\ <<>> \in Seq(Texts)
  BY SaidEachType
<1>2. QED
  BY <1>1, FlattenSeqAppend DEF Said

\* A message appended says what it says, after the others.
LEMMA SaidAppend ==
  ASSUME NEW h \in Seq(Messages), NEW s \in 0..Len(h), NEW m \in Messages
  PROVE  Said(Append(h, m), s) = Said(h, s) \o TextsTo(m)
<1>1. SaidEach(Append(h, m), s) = Append(SaidEach(h, s), TextsTo(m))
  <2>1. Len(Append(h, m)) = Len(h) + 1
    OBVIOUS
  <2>2. \A i \in 1..(Len(h) - s) : Append(h, m)[s + i] = h[s + i]
    OBVIOUS
  <2>3. Append(h, m)[s + (Len(h) - s + 1)] = m
    OBVIOUS
  <2>4. QED
    BY <2>1, <2>2, <2>3, SaidEachType DEF SaidEach
<1>2. SaidEach(h, s) \in Seq(Seq(Texts)) /\ TextsTo(m) \in Seq(Texts)
  BY SaidEachType, TextsToType
<1>3. QED
  BY <1>1, <1>2, FlattenSeqAppend DEF Said

\* The same for the calls that ran.
LEMMA RanEachType ==
  ASSUME NEW outcomes \in Seq(Outcomes)
  PROVE  RanEach(outcomes) \in Seq(Seq(Calls)) /\ Len(RanEach(outcomes)) = Len(outcomes)
<1>1. \A i \in 1..Len(outcomes) : outcomes[i] \in Outcomes
  OBVIOUS
<1>2. QED
  BY <1>1 DEF RanEach, Outcomes

LEMMA RanOfType ==
  ASSUME NEW outcomes \in Seq(Outcomes)
  PROVE  RanOf(outcomes) \in Seq(Calls)
<1>1. RanEach(outcomes) \in Seq(Seq(Calls)) /\ <<>> \in Seq(Calls)
  BY RanEachType
<1>2. QED
  BY <1>1, FlattenSeqAppend DEF RanOf

RanPart(o) == IF o.ran THEN <<o.call>> ELSE <<>>

LEMMA RanOfAppend ==
  ASSUME NEW outcomes \in Seq(Outcomes), NEW o \in Outcomes
  PROVE  RanOf(Append(outcomes, o)) = RanOf(outcomes) \o RanPart(o)
<1>1. RanEach(Append(outcomes, o)) = Append(RanEach(outcomes), RanPart(o))
  <2>1. /\ Len(Append(outcomes, o)) = Len(outcomes) + 1
        /\ Append(outcomes, o)[Len(outcomes) + 1] = o
        /\ \A i \in 1..Len(outcomes) : Append(outcomes, o)[i] = outcomes[i]
    OBVIOUS
  <2>2. QED
    BY <2>1, RanEachType DEF RanEach, RanPart
<1>2. RanEach(outcomes) \in Seq(Seq(Calls)) /\ RanPart(o) \in Seq(Calls)
  <2>1. RanPart(o) \in Seq(Calls)
    BY DEF RanPart, Outcomes
  <2>2. QED
    BY <2>1, RanEachType
<1>3. QED
  BY <1>1, <1>2, FlattenSeqAppend DEF RanOf

LEMMA RanOfNothing == RanOf(<<>>) = <<>>
<1>1. RanEach(<<>>) = <<>>
  BY DEF RanEach
<1>2. QED
  BY <1>1 DEF RanOf, FlattenSeq

\* Of the calls of a truncated reply none runs.
LEMMA RanOfRefused ==
  ASSUME NEW calls \in Seq(Calls)
  PROVE  RanOf(RefusedAll(calls)) = <<>>
<1>1. /\ Len(RefusedAll(calls)) = Len(calls)
      /\ \A i \in 1..Len(calls) : ~RefusedAll(calls)[i].ran
  BY RefusedAllType DEF RefusedAll
<1>2. RanEach(RefusedAll(calls)) \in Seq(Seq({}))
  <2>1. <<>> \in Seq({}) /\ Len(calls) \in Nat
    OBVIOUS
  <2>2. RanEach(RefusedAll(calls)) = [i \in 1..Len(calls) |-> <<>>]
    BY <1>1 DEF RanEach
  <2>3. QED
    BY <2>1, <2>2
<1>3. QED
  BY <1>2, FlattenEmpty DEF RanOf

LEMMA RanInEachType ==
  ASSUME NEW h \in Seq(Messages), NEW s \in 0..Len(h)
  PROVE  RanInEach(h, s) \in Seq(Seq(Calls)) /\ Len(RanInEach(h, s)) = Len(h) - s
<1>1. Len(h) - s \in Nat
  OBVIOUS
<1>2. \A i \in 1..(Len(h) - s) : RanOf(h[s + i].results) \in Seq(Calls)
  <2> SUFFICES ASSUME NEW i \in 1..(Len(h) - s) PROVE RanOf(h[s + i].results) \in Seq(Calls)
    OBVIOUS
  <2>1. h[s + i] \in Messages
    OBVIOUS
  <2>2. h[s + i].results \in Seq(Outcomes)
    BY <2>1 DEF Messages
  <2>3. QED
    BY <2>2, RanOfType
<1>3. QED
  BY <1>1, <1>2 DEF RanInEach

LEMMA RanInType ==
  ASSUME NEW h \in Seq(Messages), NEW s \in 0..Len(h)
  PROVE  RanIn(h, s) \in Seq(Calls)
<1>1. RanInEach(h, s) \in Seq(Seq(Calls)) /\ <<>> \in Seq(Calls)
  BY RanInEachType
<1>2. QED
  BY <1>1, FlattenSeqAppend DEF RanIn

LEMMA RanInAppend ==
  ASSUME NEW h \in Seq(Messages), NEW s \in 0..Len(h), NEW m \in Messages
  PROVE  RanIn(Append(h, m), s) = RanIn(h, s) \o RanOf(m.results)
<1>1. RanInEach(Append(h, m), s) = Append(RanInEach(h, s), RanOf(m.results))
  <2>1. Len(Append(h, m)) = Len(h) + 1
    OBVIOUS
  <2>2. \A i \in 1..(Len(h) - s) : Append(h, m)[s + i] = h[s + i]
    OBVIOUS
  <2>3. Append(h, m)[s + (Len(h) - s + 1)] = m
    OBVIOUS
  <2>4. QED
    BY <2>1, <2>2, <2>3, RanInEachType DEF RanInEach
<1>2. m.results \in Seq(Outcomes)
  BY DEF Messages
<1>3. RanInEach(h, s) \in Seq(Seq(Calls)) /\ RanOf(m.results) \in Seq(Calls)
  BY <1>2, RanInEachType, RanOfType
<1>4. QED
  BY <1>1, <1>3, FlattenSeqAppend DEF RanIn

\* What a message added at the end adds to what was said and to what ran.
Grows(g, h, s, m) ==
  /\ Said(g, s) = Said(h, s) \o TextsTo(m)
  /\ RanIn(g, s) = RanIn(h, s) \o RanOf(m.results)

LEMMA MessageAdded ==
  ASSUME NEW h \in Seq(Messages), NEW s \in 0..Len(h), NEW m \in Messages,
         NEW g, g = Append(h, m)
  PROVE  Grows(g, h, s, m)
BY SaidAppend, RanInAppend DEF Grows

\* Two histories whose messages after t and s are the same.
SameTail(g, t, h, s) ==
  /\ Len(g) - t = Len(h) - s
  /\ \A i \in 1..(Len(h) - s) : g[t + i] = h[s + i]

LEMMA SameTailSame ==
  ASSUME NEW g, NEW t, NEW h, NEW s, SameTail(g, t, h, s)
  PROVE  Said(g, t) = Said(h, s) /\ RanIn(g, t) = RanIn(h, s)
<1>1. SaidEach(g, t) = SaidEach(h, s)
  BY DEF SaidEach, SameTail
<1>2. RanInEach(g, t) = RanInEach(h, s)
  BY DEF RanInEach, SameTail
<1>3. QED
  BY <1>1, <1>2 DEF Said, RanIn

\* The roles alternate after the first s messages.
Alternating(h, s) == \A i \in (s + 1)..(Len(h) - 1) : h[i].role # h[i + 1].role

LEMMA SameTailAlternates ==
  ASSUME NEW g \in Seq(Messages), NEW t \in 0..Len(g), NEW h \in Seq(Messages),
         NEW s \in 0..Len(h), SameTail(g, t, h, s), Alternating(h, s), s < Len(h)
  PROVE  /\ t < Len(g) /\ Alternating(g, t)
         /\ EndsWithUser(h) => EndsWithUser(g)
<1>1. PICK n \in 1..(Len(h) - s) : n = Len(h) - s
  OBVIOUS
<1>a. t + n = Len(g) /\ s + n = Len(h) /\ g[t + n] = h[s + n] /\ t < Len(g)
  <2>1. PICK x, y \in Nat : x = Len(g) /\ y = Len(h)
    OBVIOUS
  <2>2. x - t = y - s /\ g[t + n] = h[s + n]
    BY <2>1 DEF SameTail
  <2>3. t \in 0..x /\ s \in 0..y /\ s < y /\ n = y - s
    BY <1>1, <2>1
  <2>4. t + n = x /\ s + n = y /\ t < x
    BY <2>2, <2>3
  <2>5. QED
    BY <2>1, <2>2, <2>4
<1>2. EndsWithUser(h) => EndsWithUser(g)
  BY <1>a DEF EndsWithUser
<1>3. ASSUME NEW i \in (t + 1)..(Len(g) - 1)
      PROVE  g[i].role # g[i + 1].role
  <2> DEFINE j == i - t
  <2>1. j \in 1..(Len(h) - s) /\ j + 1 \in 1..(Len(h) - s) /\ s + j \in (s + 1)..(Len(h) - 1)
        /\ i = t + j /\ i + 1 = t + (j + 1)
    BY DEF SameTail
  <2>2. g[i] = h[s + j] /\ g[i + 1] = h[s + (j + 1)]
    BY <2>1 DEF SameTail
  <2>3. h[s + j].role # h[s + j + 1].role
    BY <2>1 DEF Alternating
  <2>4. s + (j + 1) = s + j + 1
    BY <2>1
  <2>5. QED
    BY <2>2, <2>3, <2>4
<1>4. QED
  BY <1>a, <1>2, <1>3 DEF Alternating

\* One more message after the last, of the other role.
LEMMA AppendAlternates ==
  ASSUME NEW h \in Seq(Messages), NEW s \in 0..Len(h), s < Len(h), Alternating(h, s),
         NEW m \in Messages, m.role # h[Len(h)].role
  PROVE  Alternating(Append(h, m), s)
<1>1. /\ Len(Append(h, m)) = Len(h) + 1
      /\ \A i \in 1..Len(h) : Append(h, m)[i] = h[i]
      /\ Append(h, m)[Len(h) + 1] = m
  OBVIOUS
<1>2. QED
  BY <1>1 DEF Alternating

\* Compaction keeps the last message, since KeepRecent > 0.
LEMMA CompactedEnd ==
  ASSUME NEW h \in Seq(Messages), Len(h) > 0
  PROVE  Len(Compacted(h)) > 0 /\ Compacted(h)[Len(Compacted(h))] = h[Len(h)]
<1>1. CASE Len(h) <= KeepRecent + 1
  BY <1>1 DEF Compacted
<1>2. CASE ~(Len(h) <= KeepRecent + 1)
  <2> DEFINE first == UserMessage(<<Summary>>)
             kept  == SubSeq(h, Len(h) - KeepRecent + 1, Len(h))
  <2>1. first \in Messages
    BY DEF UserMessage, Messages, Summary, Texts
  <2>2. /\ kept \in Seq(Messages) /\ Len(kept) = KeepRecent /\ KeepRecent > 0
        /\ kept[KeepRecent] = h[Len(h)]
    BY <1>2, LoopAssumption
  <2> HIDE DEF first, kept
  <2>3. Len(<<first>> \o kept) = 1 + Len(kept) /\ (<<first>> \o kept)[1 + Len(kept)] = kept[Len(kept)]
    BY <2>1, <2>2, LoopAssumption
  <2>4. Compacted(h) = <<first>> \o kept
    BY <1>2 DEF Compacted, first, kept
  <2>5. QED
    BY <2>2, <2>3, <2>4, LoopAssumption
<1>3. QED
  BY <1>1, <1>2

LEMMA ConcatAfter ==
  ASSUME NEW T, NEW a \in Seq(T), NEW b \in Seq(T)
  PROVE  /\ a \o b \in Seq(T) /\ Len(a \o b) = Len(a) + Len(b)
         /\ \A i \in 1..Len(b) : (a \o b)[Len(a) + i] = b[i]
OBVIOUS

\* Compacting what predates the run leaves the run's own messages as they are.
LEMMA CompactedOlderTail ==
  ASSUME NEW h \in Seq(Messages), NEW s \in 0..Len(h)
  PROVE  /\ CompactedOlder(h, s) \in Seq(Messages)
         /\ Len(Compacted(SubSeq(h, 1, s))) \in 0..Len(CompactedOlder(h, s))
         /\ SameTail(CompactedOlder(h, s), Len(Compacted(SubSeq(h, 1, s))), h, s)
<1> DEFINE kept == Compacted(SubSeq(h, 1, s))
           rest == SubSeq(h, s + 1, Len(h))
<1>1. kept \in Seq(Messages)
  <2>1. SubSeq(h, 1, s) \in Seq(Messages)
    OBVIOUS
  <2>2. QED
    BY <2>1, CompactedType
<1>2. /\ rest \in Seq(Messages) /\ Len(rest) = Len(h) - s
      /\ \A i \in 1..(Len(h) - s) : rest[i] = h[s + i]
  OBVIOUS
<1>3. CompactedOlder(h, s) = kept \o rest
  BY DEF CompactedOlder
<1> HIDE DEF kept, rest
<1>4. /\ kept \o rest \in Seq(Messages) /\ Len(kept \o rest) = Len(kept) + Len(rest)
      /\ \A i \in 1..Len(rest) : (kept \o rest)[Len(kept) + i] = rest[i]
  <2>1. rest \in Seq(Messages)
    BY <1>2
  <2>2. QED
    BY <1>1, <2>1, ConcatAfter
<1>5. SameTail(kept \o rest, Len(kept), h, s)
  BY <1>1, <1>2, <1>4 DEF SameTail
<1>6. QED
  BY <1>1, <1>2, <1>3, <1>4, <1>5 DEF kept

-----------------------------------------------------------------------------
(* The messages of a run, operation by operation.                          *)

LEMMA PrefixOf ==
  ASSUME NEW T, NEW h \in Seq(T), NEW n \in 0..Len(h)
  PROVE  /\ SubSeq(h, 1, n) \in Seq(T) /\ Len(SubSeq(h, 1, n)) = n
         /\ \A i \in 1..n : SubSeq(h, 1, n)[i] = h[i]
OBVIOUS

Regrouped(a, b, c) == (a \o b) \o c = a \o (b \o c)

LEMMA Associative ==
  ASSUME NEW T, NEW a \in Seq(T), NEW b \in Seq(T), NEW c \in Seq(T)
  PROVE  Regrouped(a, b, c)
BY ConcatAssociative, SMTT(30) DEF Regrouped

\* The steering text joins what was said; no call is recorded.
LEMMA DrainedTurn ==
  ASSUME NEW h \in Seq(Messages), NEW s \in Nat, s < Len(h), NEW q \in Seq(Texts),
         Alternating(h, s), EndsWithUser(h) \/ q # <<>>
  PROVE  LET g == Drained(h, q)
         IN /\ g \in Seq(Messages) /\ s < Len(g) /\ EndsWithUser(g) /\ Alternating(g, s)
            /\ Said(g, s) = Said(h, s) \o q
            /\ RanIn(g, s) = RanIn(h, s)
<1>a. Said(h, s) \in Seq(Texts) /\ RanIn(h, s) \in Seq(Calls)
  BY SaidType, RanInType
<1>b. s \in 0..Len(h)
  OBVIOUS
<1>1. CASE q = <<>>
  <2>1. Drained(h, q) = h /\ EndsWithUser(h) /\ Said(h, s) \o <<>> = Said(h, s)
    BY <1>a, <1>1 DEF Drained
  <2>2. QED
    BY <1>1, <2>1
<1>2. CASE q # <<>> /\ EndsWithUser(h)
  <2> DEFINE n == Len(h)
             f == SubSeq(h, 1, n - 1)
             old == h[n]
             new == [old EXCEPT !.texts = @ \o q]
  <2>1. old \in Messages /\ old.role = "user" /\ n \in Nat \ {0} /\ s \in 0..(n - 1)
    BY <1>2 DEF EndsWithUser
  <2>2. old.texts \in Seq(Texts) /\ old.texts \o q \in Seq(Texts)
    BY <2>1 DEF Messages
  <2>3. /\ new \in Messages /\ new.role = "user"
        /\ new.texts = old.texts \o q /\ new.results = old.results
    BY <2>1, <2>2 DEF Messages
  <2>4. /\ f \in Seq(Messages) /\ Len(f) = n - 1 /\ s \in 0..Len(f)
        /\ \A i \in 1..(n - 1) : f[i] = h[i]
    <3>1. n - 1 \in Nat /\ \A i \in 1..(n - 1) : i \in 1..n
      BY <2>1
    <3>2. n - 1 \in 0..n
      BY <2>1
    <3>3. /\ f \in Seq(Messages) /\ Len(f) = n - 1
          /\ \A i \in 1..(n - 1) : f[i] = h[i]
      BY <3>2, PrefixOf
    <3>4. QED
      BY <2>1, <3>3
  <2>a. h = Append(f, old)
    BY <2>1, <2>4
  <2>5. Drained(h, q) = [h EXCEPT ![n] = new]
    BY <1>2 DEF Drained
  <2> HIDE DEF new, old, f
  <2> DEFINE g == [h EXCEPT ![n] = new]
  <2>b. g \in Seq(Messages) /\ Len(g) = n /\ \A i \in 1..n : g[i] = IF i = n THEN new ELSE h[i]
    BY <2>1, <2>3, ExceptSeq
  <2>c. g = Append(f, new)
    <3>1. Append(f, new) \in Seq(Messages) /\ Len(Append(f, new)) = n
      BY <2>1, <2>3, <2>4
    <3>2. \A i \in 1..n : g[i] = Append(f, new)[i]
      BY <2>b, <2>3, <2>4, SMTT(30)
    <3> HIDE DEF g
    <3>3. QED
      BY <2>b, <3>1, <3>2, SeqEqual
  <2>6. /\ Drained(h, q) = Append(f, new)
        /\ Len(Drained(h, q)) = n
        /\ \A i \in 1..n : Drained(h, q)[i].role = h[i].role
    BY <2>1, <2>3, <2>5, <2>b, <2>c DEF old
  <2>7. Drained(h, q) \in Seq(Messages)
    BY DrainedType
  <2>8. EndsWithUser(Drained(h, q)) /\ Alternating(Drained(h, q), s)
    <3>1. \A i \in (s + 1)..(n - 1) : i \in 1..n /\ i + 1 \in 1..n
      BY <2>1
    <3>2. n \in 1..n
      BY <2>1
    <3>3. QED
      BY <1>2, <2>1, <2>6, <3>1, <3>2 DEF EndsWithUser, Alternating
  <2>d. Grows(Drained(h, q), f, s, new) /\ Grows(h, f, s, old)
    BY <2>1, <2>3, <2>4, <2>6, <2>a, MessageAdded
  <2>9. Said(Drained(h, q), s) = Said(h, s) \o q
    <3>1. Said(Drained(h, q), s) = Said(f, s) \o (old.texts \o q)
      BY <2>3, <2>d DEF Grows, TextsTo
    <3>2. Said(h, s) = Said(f, s) \o old.texts
      BY <2>1, <2>d DEF Grows, TextsTo
    <3>3. Said(f, s) \in Seq(Texts)
      BY <2>4, SaidType
    <3>4. Regrouped(Said(f, s), old.texts, q)
      BY <2>2, <3>3, Associative
    <3>5. QED
      BY <3>1, <3>2, <3>4 DEF Regrouped
  <2>10. RanIn(Drained(h, q), s) = RanIn(h, s)
    BY <2>3, <2>d DEF Grows
  <2>11. QED
    BY <2>1, <2>6, <2>7, <2>8, <2>9, <2>10
<1>3. CASE q # <<>> /\ ~EndsWithUser(h)
  <2> DEFINE m == UserMessage(q)
  <2>1. m \in Messages /\ m.role = "user" /\ m.texts = q /\ m.results = <<>>
    BY DEF UserMessage, Messages
  <2>2. Drained(h, q) = Append(h, m)
    BY <1>3 DEF Drained
  <2> HIDE DEF m
  <2>3. h[Len(h)].role # m.role
    BY <1>3, <2>1 DEF EndsWithUser
  <2>4. Alternating(Append(h, m), s)
    BY <2>1, <2>3, AppendAlternates
  <2>5. EndsWithUser(Append(h, m)) /\ s < Len(Append(h, m)) /\ Append(h, m) \in Seq(Messages)
    BY <2>1 DEF EndsWithUser
  <2>a. Grows(Append(h, m), h, s, m)
    BY <2>1, <1>b, MessageAdded
  <2>6. Said(Append(h, m), s) = Said(h, s) \o q
    BY <2>1, <2>a DEF Grows, TextsTo
  <2>7. RanIn(Append(h, m), s) = RanIn(h, s)
    <3>1. RanIn(Append(h, m), s) = RanIn(h, s) \o <<>>
      BY <2>1, <2>a, RanOfNothing DEF Grows
    <3>2. QED
      BY <1>a, <3>1
  <2>8. QED
    BY <2>2, <2>4, <2>5, <2>6, <2>7
<1>4. QED
  BY <1>1, <1>2, <1>3

\* The model's prose is said by it, not to it.
LEMMA ProseTurn ==
  ASSUME NEW h \in Seq(Messages), NEW s \in Nat, s < Len(h),
         Alternating(h, s), EndsWithUser(h)
  PROVE  LET g == Append(h, AssistantMessage(<<Prose>>, <<>>))
         IN /\ g \in Seq(Messages) /\ s < Len(g) /\ Alternating(g, s)
            /\ Said(g, s) = Said(h, s) /\ RanIn(g, s) = RanIn(h, s)
<1> DEFINE m == AssistantMessage(<<Prose>>, <<>>)
<1>1. m \in Messages /\ m.role = "assistant" /\ m.results = <<>>
  BY DEF AssistantMessage, Messages, Prose, Texts
<1>2. Said(h, s) \in Seq(Texts) /\ RanIn(h, s) \in Seq(Calls)
  BY SaidType, RanInType
<1> HIDE DEF m
<1>3. h[Len(h)].role # m.role
  BY <1>1 DEF EndsWithUser
<1>4. Append(h, m) \in Seq(Messages) /\ s < Len(Append(h, m)) /\ Alternating(Append(h, m), s)
  BY <1>1, <1>3, AppendAlternates
<1>b. s \in 0..Len(h)
  OBVIOUS
<1>a. Grows(Append(h, m), h, s, m)
  BY <1>1, <1>b, MessageAdded
<1>5. Said(Append(h, m), s) = Said(h, s) \o <<>> /\ RanIn(Append(h, m), s) = RanIn(h, s) \o <<>>
  BY <1>1, <1>a, RanOfNothing DEF Grows, TextsTo
<1>6. QED
  BY <1>2, <1>4, <1>5 DEF m

\* A recorded turn says nothing to the model and records what ran.
LEMMA AnsweredRun ==
  ASSUME NEW h \in Seq(Messages), NEW s \in Nat, s < Len(h),
         Alternating(h, s), EndsWithUser(h),
         NEW r \in Replies, NEW outcomes \in Seq(Outcomes)
  PROVE  LET g == Answered(h, r, outcomes)
         IN /\ g \in Seq(Messages) /\ s < Len(g) /\ EndsWithUser(g) /\ Alternating(g, s)
            /\ Said(g, s) = Said(h, s)
            /\ RanIn(g, s) = RanIn(h, s) \o RanOf(outcomes)
<1> DEFINE m == AssistantMessage(ProseOf(r), r.calls)
           a == ResultMessage(outcomes)
           f == Append(h, m)
<1>1. m \in Messages /\ m.role = "assistant" /\ m.results = <<>>
  <2>a. Prose \in Texts
    BY DEF Prose, Texts
  <2>1. ProseOf(r) \in Seq(Texts)
    BY <2>a DEF ProseOf
  <2>2. QED
    BY <2>1, CallListsAreSequences DEF AssistantMessage, Messages
<1>2. a \in Messages /\ a.role = "user" /\ a.texts = <<>> /\ a.results = outcomes
  BY DEF ResultMessage, Messages
<1>3. Answered(h, r, outcomes) = h \o <<m, a>>
  BY DEF Answered
<1>4. Said(h, s) \in Seq(Texts) /\ RanIn(h, s) \in Seq(Calls) /\ RanOf(outcomes) \in Seq(Calls)
  BY SaidType, RanInType, RanOfType
<1> HIDE DEF m, a
<1>5. h \o <<m, a>> = Append(f, a) /\ f \in Seq(Messages) /\ s < Len(f) /\ f[Len(f)] = m
  BY <1>1, <1>2
<1>6. Alternating(f, s)
  BY <1>1, AppendAlternates DEF EndsWithUser
<1>7. Said(f, s) = Said(h, s) /\ RanIn(f, s) = RanIn(h, s)
  <2>b. s \in 0..Len(h)
    OBVIOUS
  <2>a. Grows(f, h, s, m)
    BY <1>1, <2>b, MessageAdded
  <2>1. Said(f, s) = Said(h, s) \o <<>> /\ RanIn(f, s) = RanIn(h, s) \o <<>>
    BY <1>1, <2>a, RanOfNothing DEF Grows, TextsTo
  <2>2. QED
    BY <1>4, <2>1
<1> HIDE DEF f
<1>8. Alternating(Append(f, a), s)
  BY <1>1, <1>2, <1>5, <1>6, AppendAlternates
<1>9. /\ Said(Append(f, a), s) = Said(h, s)
      /\ RanIn(Append(f, a), s) = RanIn(h, s) \o RanOf(outcomes)
  <2>b. s \in 0..Len(f)
    BY <1>5
  <2>a. Grows(Append(f, a), f, s, a)
    BY <1>2, <1>5, <2>b, MessageAdded
  <2>1. Said(Append(f, a), s) = Said(f, s) \o <<>>
    BY <1>2, <2>a DEF Grows, TextsTo
  <2>2. RanIn(Append(f, a), s) = RanIn(f, s) \o RanOf(outcomes)
    BY <1>2, <2>a DEF Grows
  <2>3. QED
    BY <1>4, <1>7, <2>1, <2>2
<1>10. /\ EndsWithUser(Append(f, a)) /\ Append(f, a) \in Seq(Messages)
       /\ s < Len(Append(f, a))
  BY <1>2, <1>5 DEF EndsWithUser
<1>11. QED
  BY <1>3, <1>5, <1>8, <1>9, <1>10

\* A run's last message alone, after the compaction before the loop.
LEMMA LastAlone ==
  ASSUME NEW h \in Seq(Messages), EndsWithUser(h)
  PROVE  /\ StartOf(h) \in Nat /\ StartOf(h) < Len(h) /\ Alternating(h, StartOf(h))
         /\ Said(h, StartOf(h)) = h[Len(h)].texts
         /\ RanIn(h, StartOf(h)) = RanOf(h[Len(h)].results)
<1> DEFINE s == Len(h) - 1
           m == h[Len(h)]
<1>1. StartOf(h) = s /\ s \in Nat /\ s < Len(h) /\ Len(h) - s = 1 /\ s + 1 = Len(h)
  BY DEF StartOf, EndsWithUser
<1>2. m \in Messages /\ m.role = "user"
  BY <1>1 DEF EndsWithUser
<1>3. Alternating(h, s)
  BY <1>1 DEF Alternating
<1>4. m.texts \in Seq(Texts) /\ RanOf(m.results) \in Seq(Calls)
  BY <1>2, RanOfType DEF Messages
<1> HIDE DEF s
<1>5. SaidEach(h, s) = <<m.texts>> /\ RanInEach(h, s) = <<RanOf(m.results)>>
  BY <1>1, <1>2 DEF SaidEach, RanInEach, TextsTo
<1> HIDE DEF m
<1>6. Said(h, s) = m.texts /\ RanIn(h, s) = RanOf(m.results)
  BY <1>4, <1>5, FlattenOne DEF Said, RanIn
<1>7. QED
  BY <1>1, <1>3, <1>6 DEF m

-----------------------------------------------------------------------------
(* What a run was told, what it says and what it did.                      *)

\* Each time the model is asked the run's messages end with the user's, or the queue
\* will make them so; a compaction before the loop leaves such a message at the end.
RolesInv ==
  /\ pc = "compact" => EndsWithUser(history)
  /\ Running => runStart < Len(history) /\ Alternating(history, runStart)
  /\ pc \in {"stream", "tools", "wrapStream"} => EndsWithUser(history)
  /\ pc \in {"top", "request", "wrapRequest"} => EndsWithUser(history) \/ steer # <<>>

\* Before the loop the prompt is the last message.
SaidInv ==
  /\ pc = "compact" => asked = history[Len(history)].texts \o steer
  /\ Running => Said(history, runStart) \o steer = asked

\* No result waits to be recorded unless calls are being executed.
RanInv ==
  /\ pc = "compact" => history[Len(history)].results = <<>> /\ ranLog = <<>>
  /\ pc # "tools" => results = <<>>
  /\ Running => ranLog = RanIn(history, runStart) \o RanOf(results)

ConversationInv == RolesInv /\ SaidInv /\ RanInv

LEMMA AppendConcat ==
  ASSUME NEW T, NEW a \in Seq(T), NEW b \in Seq(T), NEW x \in T, NEW c, Joined(c, a, b),
         NEW d, d = Append(b, x), NEW e, e = Append(c, x)
  PROVE  Joined(e, a, d)
<1>1. d = b \o <<x>> /\ <<x>> \in Seq(T)
  OBVIOUS
<1>2. c = a \o b /\ c \in Seq(T)
  BY DEF Joined
<1>3. e = c \o <<x>>
  BY <1>2
<1>4. Regrouped(a, b, <<x>>)
  BY <1>1, Associative
<1>5. QED
  BY <1>1, <1>2, <1>3, <1>4 DEF Regrouped, Joined

\* What holds of the run's messages while it goes on.
RunParts(h, s, q, said, ran) ==
  /\ s < Len(h) /\ Alternating(h, s)
  /\ Said(h, s) \o q = said
  /\ RanIn(h, s) = ran

\* The engine adds a notice to the queue, or nothing, and goes round or wraps up.
LEMMA RoundOrWrapUp ==
  ASSUME TypeOK, EndsWithUser(history'), results' = <<>>, history' \in Seq(Messages),
         runStart' \in Nat,
         RunParts(history', runStart', steer, asked, ranLog'),
         StartWrapUp \/ (pc' = "top" /\ UNCHANGED <<steer, asked>>)
  PROVE  ConversationInv'
<1>1. Said(history', runStart') \in Seq(Texts) /\ RanIn(history', runStart') \in Seq(Calls)
  BY SaidType, RanInType DEF RunParts
<1>2. Notice \in Texts /\ steer \in Seq(Texts)
  BY DEF Notice, Texts, TypeOK
<1>3. pc' \in {"top", "wrapRequest"}
  BY DEF StartWrapUp
<1>4. Said(history', runStart') \o steer' = asked'
  <2>1. CASE StartWrapUp
    <3>1. /\ Joined(asked, Said(history', runStart'), steer)
          /\ steer' = Append(steer, Notice) /\ asked' = Append(asked, Notice)
      BY <2>1 DEF StartWrapUp, RunParts, Joined
    <3>2. Joined(asked', Said(history', runStart'), steer')
      BY <1>1, <1>2, <3>1, AppendConcat
    <3>3. QED
      BY <3>2 DEF Joined
  <2>2. CASE UNCHANGED <<steer, asked>>
    BY <2>2 DEF RunParts
  <2>3. QED
    BY <2>1, <2>2
<1>5. RolesInv'
  BY <1>3 DEF RolesInv, RunParts, Running
<1>6. SaidInv'
  BY <1>3, <1>4 DEF SaidInv, Running
<1>7. RanInv'
  <2>1. RanIn(history', runStart') \o <<>> = ranLog'
    BY <1>1 DEF RunParts
  <2>2. RanOf(results') = <<>>
    BY RanOfNothing
  <2>3. QED
    BY <1>3, <2>1, <2>2 DEF RanInv, Running
<1>8. QED
  BY <1>5, <1>6, <1>7 DEF ConversationInv

LEMMA ConversationInductive ==
  TypeOK /\ TypeOK' /\ ConversationInv /\ [Next]_vars => ConversationInv'
<1> SUFFICES ASSUME TypeOK, TypeOK', ConversationInv, [Next]_vars
             PROVE  ConversationInv'
  OBVIOUS
<1>a. /\ history \in Seq(Messages) /\ history' \in Seq(Messages) /\ conv \in Seq(Messages)
      /\ steer \in Seq(Texts) /\ asked \in Seq(Texts) /\ results \in Seq(Outcomes)
      /\ runStart \in Nat /\ runStart' \in Nat /\ ranLog \in Seq(Calls)
  BY DEF TypeOK
<1>b. RolesInv /\ SaidInv /\ RanInv
  BY DEF ConversationInv
<1>c. Running => /\ Said(history, runStart) \in Seq(Texts)
                 /\ RanIn(history, runStart) \in Seq(Calls)
                 /\ runStart < Len(history) /\ Alternating(history, runStart)
  BY <1>a, <1>b, SaidType, RanInType DEF RolesInv
\* Nothing of a run changes.
<1>d. ASSUME UNCHANGED <<history, runStart, steer, asked, results, ranLog, pc>>
      PROVE  ConversationInv'
  BY <1>b, <1>d DEF ConversationInv, RolesInv, SaidInv, RanInv, Running, EndsWithUser,
     Alternating
\* Between two requests nothing is being executed.
<1>e. pc # "tools" => results = <<>> /\ RanOf(results) = <<>>
  BY <1>b, RanOfNothing DEF RanInv
<1>f. Running /\ pc # "tools" => ranLog = RanIn(history, runStart)
  <2> SUFFICES ASSUME Running, pc # "tools" PROVE ranLog = RanIn(history, runStart)
    OBVIOUS
  <2>1. ranLog = RanIn(history, runStart) \o <<>>
    BY <1>b, <1>e DEF RanInv
  <2>2. QED
    BY <1>c, <2>1
<1>1. CASE Prompt
  <2> DEFINE m == UserMessage(<<Typed(typed')>>)
  <2>1. /\ history' = Append(conv, m) /\ asked' = <<Typed(typed')>> \o steer
        /\ steer' = steer /\ ranLog' = <<>> /\ results' = <<>> /\ pc' = "compact"
    BY <1>1 DEF Prompt
  <2>2. /\ m \in Messages /\ m.role = "user" /\ m.results = <<>>
        /\ m.texts = <<Typed(typed')>>
    <3>1. typed' \in Nat
      BY <1>1 DEF Prompt, TypeOK
    <3>2. QED
      BY <3>1 DEF UserMessage, Messages, Typed, Texts
  <2> HIDE DEF m
  <2>3. Len(history') > 0 /\ history'[Len(history')] = m
    BY <1>a, <2>1, <2>2
  <2>4. QED
    BY <2>1, <2>2, <2>3 DEF ConversationInv, RolesInv, SaidInv, RanInv, Running, EndsWithUser
<1>2. CASE Enqueue
  <2> DEFINE x == Typed(typed')
  <2>1. x \in Texts
    <3>1. typed' \in Nat
      BY <1>2 DEF Enqueue, TypeOK
    <3>2. QED
      BY <3>1 DEF Typed, Texts
  <2>2. /\ steer' = Append(steer, x) /\ asked' = Append(asked, x)
        /\ UNCHANGED <<history, runStart, results, ranLog, pc>>
    BY <1>2 DEF Enqueue, loopVars, turnVars
  <2> HIDE DEF x
  <2>3. steer' # <<>>
    BY <1>a, <2>1, <2>2, SMTT(30)
  <2>4. RolesInv'
    BY <1>b, <2>2, <2>3 DEF RolesInv, Running, EndsWithUser, Alternating
  <2>5. RanInv'
    BY <1>b, <2>2 DEF RanInv, Running
  <2>6. SaidInv'
    <3>1. CASE pc = "compact"
      <4>1. history[Len(history)] \in Messages
        BY <1>a, <1>b, <3>1 DEF RolesInv, EndsWithUser
      <4>2. history[Len(history)].texts \in Seq(Texts)
        BY <4>1 DEF Messages
      <4>3. history[Len(history)].texts \o steer' = asked'
        <5>1. Joined(asked, history[Len(history)].texts, steer)
          BY <1>b, <3>1 DEF SaidInv, Joined
        <5>2. Joined(asked', history[Len(history)].texts, steer')
          BY <1>a, <2>1, <2>2, <4>2, <5>1, AppendConcat
        <5>3. QED
          BY <5>2 DEF Joined
      <4>4. QED
        BY <2>2, <3>1, <4>3 DEF SaidInv, Running
    <3>2. CASE Running
      <4>1. Said(history, runStart) \o steer' = asked'
        <5>1. Joined(asked, Said(history, runStart), steer)
          BY <1>b, <3>2 DEF SaidInv, Joined
        <5>2. Joined(asked', Said(history, runStart), steer')
          BY <1>a, <1>c, <2>1, <2>2, <3>2, <5>1, AppendConcat
        <5>3. QED
          BY <5>2 DEF Joined
      <4>2. QED
        BY <2>2, <3>2, <4>1 DEF SaidInv, Running
    <3>3. CASE pc = "idle"
      BY <2>2, <3>3 DEF SaidInv, Running
    <3>4. QED
      BY <3>1, <3>2, <3>3 DEF Running
  <2>7. QED
    BY <2>4, <2>5, <2>6 DEF ConversationInv
<1>3. CASE Finish
  <2>1. pc = "ended" /\ pc' = "idle" /\ results' = results
    BY <1>3 DEF Finish, turnVars
  <2>2. QED
    BY <1>e, <2>1 DEF ConversationInv, RolesInv, SaidInv, RanInv, Running
<1>4. CASE CompactBefore
  <2>1. /\ pc = "compact" /\ pc' = "top" /\ runStart' = StartOf(history')
        /\ history' \in {history, Compacted(history)}
        /\ UNCHANGED <<steer, asked, results, ranLog>>
    BY <1>4 DEF CompactBefore, turnVars, ghostVars
  <2>2. EndsWithUser(history) /\ Len(history) > 0
    BY <1>b, <2>1 DEF RolesInv, EndsWithUser
  <2>3. EndsWithUser(history') /\ history'[Len(history')] = history[Len(history)]
    <3>1. /\ Len(Compacted(history)) > 0
          /\ Compacted(history)[Len(Compacted(history))] = history[Len(history)]
      BY <1>a, <2>2, CompactedEnd
    <3>2. QED
      BY <2>1, <2>2, <3>1 DEF EndsWithUser
  <2>4. /\ runStart' < Len(history') /\ Alternating(history', runStart')
        /\ Said(history', runStart') = history[Len(history)].texts
        /\ RanIn(history', runStart') = RanOf(history[Len(history)].results)
    BY <1>a, <2>1, <2>3, LastAlone
  <2>5. RanIn(history', runStart') = <<>> /\ ranLog' = <<>> /\ results' = <<>>
    BY <1>b, <1>e, <2>1, <2>4, RanOfNothing DEF RanInv
  <2>6. RunParts(history', runStart', steer, asked, ranLog')
    BY <1>b, <2>1, <2>4, <2>5 DEF RunParts, SaidInv
  <2>7. QED
    BY <1>a, <2>1, <2>3, <2>5, <2>6, RoundOrWrapUp
<1>5. CASE Recheck
  <2>1. /\ pc = "top" /\ pc' = "request"
        /\ UNCHANGED <<steer, asked, results, ranLog>>
    BY <1>5 DEF Recheck, turnVars, ghostVars
  <2>2. /\ Running /\ runStart < Len(history) /\ Alternating(history, runStart)
        /\ EndsWithUser(history) \/ steer # <<>>
    BY <1>b, <2>1 DEF RolesInv, Running
  <2>3. SameTail(history', runStart', history, runStart)
    <3>1. CASE UNCHANGED <<history, runStart>>
      BY <3>1 DEF SameTail
    <3>2. CASE ~UNCHANGED <<history, runStart>>
      <4>1. runStart \in 0..Len(history)
        BY <1>a, <2>2
      <4>2. /\ history' = CompactedOlder(history, runStart)
            /\ runStart' = Len(Compacted(SubSeq(history, 1, runStart)))
        BY <1>5, <3>2 DEF Recheck
      <4>3. QED
        BY <1>a, <4>1, <4>2, CompactedOlderTail
    <3>3. QED
      BY <3>1, <3>2
  <2>4. runStart \in 0..Len(history) /\ runStart' \in 0..Len(history')
    <3>1. runStart \in 0..Len(history)
      BY <1>a, <2>2
    <3>2. Len(history') \in Nat /\ Len(history) \in Nat
      BY <1>a
    <3>3. Len(history') - runStart' = Len(history) - runStart
      BY <2>3 DEF SameTail
    <3>4. QED
      BY <1>a, <3>1, <3>2, <3>3
  <2>5. /\ runStart' < Len(history') /\ Alternating(history', runStart')
        /\ EndsWithUser(history) => EndsWithUser(history')
    BY <1>a, <2>2, <2>3, <2>4, SameTailAlternates
  <2>6. /\ Said(history', runStart') = Said(history, runStart)
        /\ RanIn(history', runStart') = RanIn(history, runStart)
    BY <2>3, SameTailSame
  <2>7. QED
    BY <1>b, <2>1, <2>2, <2>5, <2>6 DEF ConversationInv, RolesInv, SaidInv, RanInv, Running
<1>6. CASE Request \/ WrapUpRequest
  <2>1. /\ pc \in {"request", "wrapRequest"} /\ pc' \in {"stream", "wrapStream"}
        /\ history' = Drained(history, steer) /\ steer' = <<>>
        /\ UNCHANGED <<runStart, asked, results, ranLog>>
    BY <1>6 DEF Request, WrapUpRequest, Drain, TakenBy, turnVars
  <2>2. /\ Running /\ pc # "tools" /\ runStart < Len(history)
        /\ Alternating(history, runStart)
        /\ (EndsWithUser(history) \/ steer # <<>>)
    BY <1>b, <2>1 DEF RolesInv, Running
  <2>3. /\ runStart < Len(history') /\ EndsWithUser(history')
        /\ Alternating(history', runStart)
        /\ Said(history', runStart) = Said(history, runStart) \o steer
        /\ RanIn(history', runStart) = RanIn(history, runStart)
    BY <1>a, <2>1, <2>2, DrainedTurn
  <2>4. Said(history', runStart) = asked /\ asked \o <<>> = asked
    BY <1>a, <1>b, <2>2, <2>3 DEF SaidInv
  <2>5. QED
    BY <1>b, <2>1, <2>2, <2>3, <2>4 DEF ConversationInv, RolesInv, SaidInv, RanInv, Running
<1>7. CASE StreamFails
  <2>1. /\ pc \in {"stream", "wrapStream"} /\ pc' = "ended"
        /\ UNCHANGED <<history, runStart, steer, asked, results, ranLog>>
    BY <1>7 DEF StreamFails, loopVars, turnVars, ghostVars
  <2>2. QED
    BY <1>b, <2>1 DEF ConversationInv, RolesInv, SaidInv, RanInv, Running
<1>8. ASSUME NEW r \in Replies, FenceRetry(r)
      PROVE  ConversationInv'
  <2>1. /\ pc = "stream" /\ pc' = "top"
        /\ history' = Append(history, AssistantMessage(<<Prose>>, <<>>))
        /\ steer' = Append(steer, Notice) /\ asked' = Append(asked, Notice)
        /\ UNCHANGED <<runStart, results, ranLog>>
    BY <1>8 DEF FenceRetry, FenceNoticed, turnVars
  <2>2. /\ Running /\ pc # "tools" /\ EndsWithUser(history)
        /\ runStart < Len(history) /\ Alternating(history, runStart)
    BY <1>b, <2>1 DEF RolesInv, Running
  <2>3. /\ runStart < Len(history') /\ Alternating(history', runStart)
        /\ Said(history', runStart) = Said(history, runStart)
        /\ RanIn(history', runStart) = RanIn(history, runStart)
    BY <1>a, <2>1, <2>2, ProseTurn
  <2>4. Notice \in Texts
    BY DEF Notice, Texts
  <2>5. Said(history, runStart) \o steer' = asked' /\ steer' # <<>>
    <3>1. Joined(asked, Said(history, runStart), steer)
      BY <1>b, <2>2 DEF SaidInv, Joined
    <3>2. steer' # <<>>
      BY <1>a, <2>1, <2>4
    <3>3. Joined(asked', Said(history, runStart), steer')
      BY <1>a, <1>c, <2>1, <2>2, <2>4, <3>1, AppendConcat
    <3>4. QED
      BY <3>2, <3>3 DEF Joined
  <2>6. QED
    BY <1>b, <2>1, <2>2, <2>3, <2>5 DEF ConversationInv, RolesInv, SaidInv, RanInv, Running
<1>9. ASSUME NEW r \in Replies, Answer(r) \/ WrapUpAnswer(r)
      PROVE  ConversationInv'
  <2>1. /\ pc \in {"stream", "wrapStream"} /\ pc' = "ended"
        /\ history' = WithFinalProse(history, r)
        /\ UNCHANGED <<runStart, steer, asked, results, ranLog>>
    BY <1>9 DEF Answer, WrapUpAnswer, turnVars, ghostVars
  <2>2. /\ Running /\ EndsWithUser(history)
        /\ runStart < Len(history) /\ Alternating(history, runStart)
    BY <1>b, <2>1 DEF RolesInv, Running
  <2>3. /\ runStart < Len(history') /\ Alternating(history', runStart)
        /\ Said(history', runStart) = Said(history, runStart)
        /\ RanIn(history', runStart) = RanIn(history, runStart)
    <3>1. CASE r.prose
      BY <1>a, <2>1, <2>2, <3>1, ProseTurn DEF WithFinalProse
    <3>2. CASE ~r.prose
      BY <2>1, <2>2, <3>2 DEF WithFinalProse
    <3>3. QED
      BY <3>1, <3>2
  <2>4. QED
    BY <1>b, <2>1, <2>2, <2>3 DEF ConversationInv, RolesInv, SaidInv, RanInv, Running
<1>10. ASSUME NEW r \in Replies, Truncated(r)
       PROVE  ConversationInv'
  <2>1. /\ pc = "stream" /\ history' = Answered(history, r, RefusedAll(r.calls))
        /\ UNCHANGED <<runStart, results, ranLog>>
        /\ StartWrapUp \/ (pc' = "top" /\ UNCHANGED <<steer, asked>>)
    BY <1>10 DEF Truncated, turnVars
  <2>2. /\ Running /\ pc # "tools" /\ EndsWithUser(history)
        /\ runStart < Len(history) /\ Alternating(history, runStart)
    BY <1>b, <2>1 DEF RolesInv, Running
  <2>3. r.calls \in Seq(Calls) /\ RefusedAll(r.calls) \in Seq(Outcomes)
    BY CallListsAreSequences, RefusedAllType
  <2>4. /\ runStart < Len(history') /\ EndsWithUser(history')
        /\ Alternating(history', runStart)
        /\ Said(history', runStart) = Said(history, runStart)
        /\ RanIn(history', runStart) = RanIn(history, runStart) \o RanOf(RefusedAll(r.calls))
    BY <1>a, <2>1, <2>2, <2>3, AnsweredRun
  <2>5. RanIn(history', runStart) = ranLog
    <3>1. RanOf(RefusedAll(r.calls)) = <<>>
      BY <2>3, RanOfRefused
    <3>2. RanIn(history, runStart) \o <<>> = RanIn(history, runStart)
      BY <1>c, <2>2
    <3>3. QED
      BY <1>f, <2>2, <2>4, <3>1, <3>2
  <2>6. RunParts(history', runStart', steer, asked, ranLog')
    BY <1>b, <2>1, <2>2, <2>4, <2>5 DEF RunParts, SaidInv
  <2>7. QED
    BY <1>a, <1>e, <2>1, <2>2, <2>4, <2>6, RoundOrWrapUp
<1>11. ASSUME NEW r \in Replies, StartTools(r)
       PROVE  ConversationInv'
  <2>1. /\ pc = "stream" /\ pc' = "tools" /\ results' = <<>>
        /\ UNCHANGED <<history, runStart, steer, asked, ranLog>>
    BY <1>11 DEF StartTools, loopVars, ghostVars
  <2>2. QED
    BY <1>b, <1>e, <2>1 DEF ConversationInv, RolesInv, SaidInv, RanInv, Running
<1>12. ASSUME NEW ran \in BOOLEAN, Dispatching, Settle(ran),
              UNCHANGED <<pc, history, runStart, steer, asked>>,
              ranLog' = IF ran THEN Append(ranLog, Current) ELSE ranLog
       PROVE  ConversationInv'
  <2> DEFINE o == [call |-> Current, ran |-> ran]
  <2>1. pc = "tools" /\ Running /\ Current \in Calls /\ results' = Append(results, o)
    BY <1>12, SettleType DEF Dispatching, Settle, Running
  <2>2. o \in Outcomes /\ RanPart(o) = IF ran THEN <<Current>> ELSE <<>>
    BY <2>1 DEF Outcomes, RanPart
  <2> HIDE DEF o
  <2>3. RanOf(results') = RanOf(results) \o RanPart(o) /\ RanOf(results) \in Seq(Calls)
    BY <1>a, <2>1, <2>2, RanOfAppend, RanOfType
  <2>4. ranLog' = RanIn(history, runStart) \o RanOf(results')
    <3>1. RanPart(o) \in Seq(Calls)
      BY <2>1, <2>2
    <3>2. ranLog' = ranLog \o RanPart(o)
      BY <1>a, <1>12, <2>1, <2>2, SMTT(30)
    <3>3. Regrouped(RanIn(history, runStart), RanOf(results), RanPart(o))
      BY <1>c, <2>1, <2>3, <3>1, Associative
    <3>4. QED
      BY <1>b, <2>1, <2>3, <3>2, <3>3 DEF RanInv, Regrouped
  <2>5. RolesInv' /\ SaidInv'
    BY <1>b, <1>12, <2>1 DEF RolesInv, SaidInv, Running
  <2>6. RanInv'
    BY <1>12, <2>1, <2>4 DEF RanInv, Running
  <2>7. QED
    BY <2>5, <2>6 DEF ConversationInv
<1>13. CASE Dispatch
  <2>1. \E ran \in BOOLEAN :
          /\ Dispatching /\ Settle(ran)
          /\ UNCHANGED <<pc, history, runStart, steer, asked>>
          /\ ranLog' = IF ran THEN Append(ranLog, Current) ELSE ranLog
    BY <1>13 DEF Dispatch, Refuse, Veto, Execute, loopVars, ghostVars
  <2>2. QED
    BY <1>12, <2>1
<1>14. CASE RecordTurn
  <2>1. /\ pc = "tools" /\ history' = Answered(history, reply, results)
        /\ UNCHANGED <<runStart, ranLog>> /\ results' = <<>>
        /\ StartWrapUp \/ (pc' = "top" /\ UNCHANGED <<steer, asked>>)
    BY <1>14 DEF RecordTurn
  <2>2. /\ Running /\ EndsWithUser(history) /\ reply \in Replies
        /\ runStart < Len(history) /\ Alternating(history, runStart)
    BY <1>b, <2>1 DEF RolesInv, Running, TypeOK
  <2>3. /\ runStart < Len(history') /\ EndsWithUser(history')
        /\ Alternating(history', runStart)
        /\ Said(history', runStart) = Said(history, runStart)
        /\ RanIn(history', runStart) = RanIn(history, runStart) \o RanOf(results)
    BY <1>a, <2>1, <2>2, AnsweredRun
  <2>4. RunParts(history', runStart', steer, asked, ranLog')
    BY <1>b, <2>1, <2>2, <2>3 DEF RunParts, SaidInv, RanInv
  <2>5. QED
    BY <1>a, <2>1, <2>3, <2>4, RoundOrWrapUp
<1>15. CASE UNCHANGED vars
  BY <1>d, <1>15 DEF vars, callerVars, loopVars, turnVars, ghostVars
<1>16. QED
  BY <1>1, <1>2, <1>3, <1>4, <1>5, <1>6, <1>7, <1>8, <1>9, <1>10, <1>11, <1>13, <1>14,
     <1>15 DEF Next, Run, Reply

LEMMA InitConversation == Init => ConversationInv
BY DEF Init, ConversationInv, RolesInv, SaidInv, RanInv, Running

LEMMA ConversationHolds == Spec => []ConversationInv
BY InitConversation, ConversationInductive, LoopTypeCorrect, PTL DEF Spec

\* The prompt, the steering text and the notices of the current run are, in the order
\* they came, what its own messages and the queue hold.
THEOREM NothingSaidIsLost == Spec => []CurrentRunIntact
<1>1. ConversationInv => CurrentRunIntact
  BY DEF ConversationInv, RolesInv, SaidInv, CurrentRunIntact
<1>2. QED
  BY <1>1, ConversationHolds, PTL

\* Every execution is on record, in order, in the run's messages or its pending turn.
THEOREM NoEffectIsForgotten == Spec => []EffectsRecorded
<1>1. ConversationInv => EffectsRecorded
  BY DEF ConversationInv, RanInv, EffectsRecorded
<1>2. QED
  BY <1>1, ConversationHolds, PTL

\* Each request ends with a user message and alternates the roles since the prompt.
THEOREM RequestsAreWellFormed == Spec => []RequestWellFormed
<1>1. ConversationInv => RequestWellFormed
  BY DEF ConversationInv, RolesInv, RequestWellFormed, Running, Alternating
<1>2. QED
  BY <1>1, ConversationHolds, PTL

-----------------------------------------------------------------------------
(* Notices.                                                                *)

NoNotice(q) == \A i \in 1..Len(q) : q[i] # Notice

LEMMA NoticesInductive ==
  TypeOK /\ NoticesStayInRun /\ [Next]_vars => NoticesStayInRun'
<1> SUFFICES ASSUME TypeOK, NoticesStayInRun, [Next]_vars
             PROVE  NoticesStayInRun'
  OBVIOUS
<1>a. pc \in {"idle", "compact", "stream", "tools", "wrapStream", "ended"} => NoNotice(steer)
  BY DEF NoticesStayInRun, NoNotice
<1>b. pc' \in {"top", "request", "wrapRequest"} \/ NoNotice(steer') => NoticesStayInRun'
  BY DEF NoticesStayInRun, NoNotice
<1>c. steer \in Seq(Texts)
  BY DEF TypeOK
\* A step of the caller, or one between a request and its reply.
<1>d. ASSUME pc \in {"idle", "compact", "stream", "tools", "wrapStream", "ended"},
             steer' = steer
      PROVE  NoticesStayInRun'
  BY <1>a, <1>b, <1>d DEF NoNotice
<1>1. CASE Enqueue
  <2>1. /\ steer' = Append(steer, Typed(typed')) /\ pc' = pc
        /\ Typed(typed') # Notice /\ Typed(typed') \in Texts
    <3>1. typed' \in Nat
      BY <1>1 DEF Enqueue, TypeOK
    <3>2. Typed(typed').from = "user" /\ Notice.from = "engine"
      BY DEF Typed, Notice
    <3>3. QED
      BY <1>1, <3>1, <3>2 DEF Enqueue, Typed, Texts
  <2>2. CASE pc \in {"top", "request", "wrapRequest"}
    BY <1>b, <2>1, <2>2
  <2>3. CASE pc \notin {"top", "request", "wrapRequest"}
    <3>1. NoNotice(steer)
      BY <1>a, <2>3 DEF TypeOK
    <3>2. NoNotice(Append(steer, Typed(typed')))
      BY <1>c, <2>1, <3>1 DEF NoNotice
    <3>3. QED
      BY <1>b, <2>1, <3>2
  <2>4. QED
    BY <2>2, <2>3
<1>2. CASE Prompt \/ Finish \/ StreamFails \/ CompactBefore \/ Dispatch
  BY <1>2, <1>d DEF Prompt, Finish, StreamFails, CompactBefore, Dispatch, Refuse, Veto,
     Execute, Dispatching
<1>3. CASE Recheck
  BY <1>3, <1>b DEF Recheck
<1>4. CASE Request \/ WrapUpRequest
  <2>1. steer' = <<>>
    BY <1>4 DEF Request, WrapUpRequest, Drain
  <2>2. NoNotice(steer')
    BY <2>1 DEF NoNotice
  <2>3. QED
    BY <1>b, <2>2
<1>5. CASE Reply
  <2>1. PICK r \in Replies :
          FenceRetry(r) \/ Answer(r) \/ Truncated(r) \/ StartTools(r) \/ WrapUpAnswer(r)
    BY <1>5 DEF Reply
  <2>2. CASE FenceRetry(r) \/ Truncated(r)
    BY <2>2, <1>b DEF FenceRetry, Truncated, StartWrapUp
  <2>3. CASE Answer(r) \/ StartTools(r) \/ WrapUpAnswer(r)
    BY <2>3, <1>d DEF Answer, StartTools, WrapUpAnswer
  <2>4. QED
    BY <2>1, <2>2, <2>3
<1>6. CASE RecordTurn
  BY <1>6, <1>b DEF RecordTurn, StartWrapUp
<1>7. CASE UNCHANGED vars
  BY <1>7 DEF vars, NoticesStayInRun
<1>8. QED
  BY <1>1, <1>2, <1>3, <1>4, <1>5, <1>6, <1>7 DEF Next, Run

\* A notice of the engine is read by the run it is about.
THEOREM NoticesAreRead == Spec => []NoticesStayInRun
<1>1. Init => NoticesStayInRun
  BY DEF Init, NoticesStayInRun
<1>2. QED
  BY <1>1, NoticesInductive, LoopTypeCorrect, PTL DEF Spec

=============================================================================
