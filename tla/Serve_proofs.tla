------------------------------ MODULE Serve_proofs ------------------------------
(***************************************************************************)
(* Proofs about korai serve: a connection (ServeConn), for every number of *)
(* messages and requests, and the sessions connections keep                *)
(* (SavedSessions), for every set of connections and session ids and every *)
(* number of turns.                                                        *)
(***************************************************************************)
EXTENDS ServeConn, SavedSessions, SequenceTheorems, TLAPS

-----------------------------------------------------------------------------
(* ServeConn.                                                              *)

LEMMA InitServeType == Init => TypeOK
<1> SUFFICES ASSUME Init
             PROVE  TypeOK
  OBVIOUS
<1>1. inbox \in Seq(Messages) /\ actions \in Seq(Kinds) /\ Len(actions) <= QueueCap
  BY DEF Init, QueueCap
<1>2. sent \in 0..MaxSent /\ asks \in 0..MaxAsks /\ found \in [id : 0..MaxAsks, approved : BOOLEAN]
  BY ServeAssumption DEF Init, NoAnswer
<1>3. turn = 0 /\ lastAbort \in 0..turn /\ cancelTurn \in 0..turn
  BY DEF Init
<1>4. asks = 0 /\ ask \in 0..asks /\ approved \subseteq 1..MaxAsks
  BY DEF Init
<1>5. /\ process = "up" /\ link = "up" /\ loop = "reading" /\ connDone = FALSE
      /\ worker = "idle" /\ cancelled = FALSE /\ engine = "none" /\ answer = "none"
  BY DEF Init
<1>6. QED
  BY <1>1, <1>2, <1>3, <1>4, <1>5 DEF TypeOK

\* Reading takes the first message and leaves messages.
LEMMA ConsumeType ==
  ASSUME TypeOK, inbox # <<>>, Consume
  PROVE  Head(inbox) \in Messages /\ inbox' \in Seq(Messages) /\ sent' \in 0..MaxSent
  BY HeadTailProperties DEF Consume, TypeOK

LEMMA ClientType == TypeOK /\ ClientSends => TypeOK'
<1> SUFFICES ASSUME TypeOK, ClientSends
             PROVE  TypeOK'
  OBVIOUS
<1>1. PICK msg \in Messages : Send(msg)
  <2>1. CASE \E kind \in Kinds \cup {"abort"} : Send([type |-> kind])
    <3>1. PICK kind \in Kinds \cup {"abort"} : Send([type |-> kind])
      BY <2>1
    <3>2. [type |-> kind] \in Messages
      BY DEF Messages
    <3>3. QED
      BY <3>1, <3>2
  <2>2. CASE \E id \in 1..asks, yes \in BOOLEAN :
               Send([type |-> "perm_res", id |-> id, approved |-> yes])
    <3>1. PICK id \in 1..asks, yes \in BOOLEAN :
               Send([type |-> "perm_res", id |-> id, approved |-> yes])
      BY <2>2
    <3>2. id \in 1..MaxAsks
      BY ServeAssumption DEF TypeOK
    <3>3. [type |-> "perm_res", id |-> id, approved |-> yes] \in Messages
      BY <3>2 DEF Messages
    <3>4. QED
      BY <3>1, <3>3
  <2>3. QED
    BY <2>1, <2>2 DEF ClientSends
<1>2. inbox' \in Seq(Messages)
  BY <1>1, AppendProperties DEF Send, TypeOK
<1>3. sent' \in 0..MaxSent /\ link' = link
  BY <1>1, ServeAssumption DEF Send, TypeOK
<1>4. QED
  BY <1>2, <1>3 DEF ClientSends, readVars, turnVars, runVars, TypeOK

LEMMA ReadLoopType == TypeOK /\ ReadLoop => TypeOK'
<1> SUFFICES ASSUME TypeOK, ReadLoop
             PROVE  TypeOK'
  OBVIOUS
<1> USE DEF clientVars, readVars, turnVars, runVars
<1>1. CASE ReadAction
  <2>1. inbox' \in Seq(Messages) /\ sent' \in 0..MaxSent
    BY <1>1, ConsumeType DEF ReadAction, Reads
  <2>2. actions' \in Seq(Kinds) /\ Len(actions') <= QueueCap
    <3>1. PICK kind \in Kinds : actions' = IF Busy THEN actions ELSE Append(actions, kind)
      BY <1>1 DEF ReadAction
    <3>2. CASE Busy
      BY <3>1, <3>2 DEF TypeOK
    <3>3. CASE ~Busy
      <4>1. Len(actions) \in Nat /\ Len(actions) < QueueCap
        BY <3>3, LenProperties DEF Busy, TypeOK, QueueCap
      <4>2. QED
        BY <3>1, <3>3, <4>1, AppendProperties DEF TypeOK, QueueCap
    <3>4. QED
      BY <3>2, <3>3
  <2>3. QED
    BY <1>1, <2>1, <2>2 DEF ReadAction, Consume, TypeOK
<1>2. CASE ReadAbort
  <2>1. inbox' \in Seq(Messages) /\ sent' \in 0..MaxSent
    BY <1>2, ConsumeType DEF ReadAbort, Reads
  <2>2. cancelled' \in BOOLEAN /\ lastAbort' \in 0..turn
    BY <1>2 DEF ReadAbort, TypeOK
  <2>3. QED
    BY <1>2, <2>1, <2>2 DEF ReadAbort, Consume, TypeOK
<1>3. CASE ReadPermRes
  <2>1. Head(inbox) \in Messages /\ inbox' \in Seq(Messages) /\ sent' \in 0..MaxSent
    BY <1>3, ConsumeType DEF ReadPermRes, Reads
  <2>2. Head(inbox) \in [type : {"perm_res"}, id : 1..MaxAsks, approved : BOOLEAN]
    BY <1>3, <2>1 DEF ReadPermRes, Reads, Messages, Kinds
  <2>3. Head(inbox).id \in 1..MaxAsks /\ Head(inbox).approved \in BOOLEAN
    BY <2>2
  <2>4. approved' \subseteq 1..MaxAsks
    BY <1>3, <2>3 DEF ReadPermRes, TypeOK
  <2>5. found' \in [id : 0..MaxAsks, approved : BOOLEAN] /\ loop' \in {"reading", "resolving"}
    BY <1>3, <2>3, ServeAssumption DEF ReadPermRes, Reads, TypeOK
  <2>6. QED
    BY <1>3, <2>1, <2>4, <2>5 DEF ReadPermRes, Consume, TypeOK
<1>4. CASE Resolve
  <2>1. found' \in [id : 0..MaxAsks, approved : BOOLEAN]
    BY <1>4, ServeAssumption DEF Resolve, NoAnswer
  <2>2. answer' \in {"none", "yes", "no"}
    BY <1>4 DEF Resolve, TypeOK
  <2>3. QED
    BY <1>4, <2>1, <2>2 DEF Resolve, TypeOK
<1>5. CASE ReadFails
  BY <1>5 DEF ReadFails, TypeOK
<1>6. CASE HandlerReturns
  BY <1>6 DEF HandlerReturns, TypeOK
<1>7. QED
  BY <1>1, <1>2, <1>3, <1>4, <1>5, <1>6 DEF ReadLoop

LEMMA WorkerType == TypeOK /\ Worker => TypeOK'
<1> SUFFICES ASSUME TypeOK, Worker
             PROVE  TypeOK'
  OBVIOUS
<1> USE DEF clientVars, readVars, turnVars, runVars
<1>1. CASE TakeAction
  <2>1. actions' \in Seq(Kinds) /\ Len(actions') <= QueueCap
    BY <1>1, HeadTailProperties DEF TakeAction, TypeOK, QueueCap
  <2>2. Head(actions) \in Kinds
    BY <1>1, HeadTailProperties DEF TakeAction, TypeOK
  <2>3. worker' \in {"starting", "idle"}
    BY <1>1, <2>2 DEF TakeAction, TurnFrom, Kinds
  <2>4. cancelled' \in BOOLEAN
    BY <1>1 DEF TakeAction, FreshContext, TypeOK
  <2>5. turn' \in Nat /\ lastAbort' \in 0..turn'
    BY <1>1 DEF TakeAction, TypeOK
  <2>6. QED
    BY <1>1, <2>1, <2>3, <2>4, <2>5 DEF TakeAction, TypeOK
<1>2. CASE RegisterCancel
  BY <1>2 DEF RegisterCancel, TypeOK
<1>3. CASE BridgeReturns
  BY <1>3 DEF BridgeReturns, TypeOK
<1>4. CASE EndTurn
  BY <1>4 DEF EndTurn, TypeOK
<1>5. CASE WorkerReturns
  BY <1>5 DEF WorkerReturns, TypeOK
<1>6. QED
  BY <1>1, <1>2, <1>3, <1>4, <1>5 DEF Worker
LEMMA RunType == TypeOK /\ (Run \/ Ask) => TypeOK'
<1> SUFFICES ASSUME TypeOK, Run \/ Ask
             PROVE  TypeOK'
  OBVIOUS
<1> USE DEF clientVars, readVars, turnVars, runVars
<1>1. CASE AskReturns
  BY <1>1 DEF AskReturns, TypeOK
<1>2. CASE RunEnds
  BY <1>2 DEF RunEnds, TypeOK
<1>3. CASE Ask
  <2>1. asks' \in 0..MaxAsks /\ ask' \in 0..asks'
    BY <1>3, ServeAssumption DEF Ask, TypeOK
  <2>2. engine' \in {"none", "running", "asking"} /\ answer' = "none"
    BY <1>3 DEF Ask, TypeOK
  <2>3. QED
    BY <1>3, <2>1, <2>2 DEF Ask, TypeOK
<1>4. QED
  BY <1>1, <1>2, <1>3 DEF Run

\* ServeConn is type correct.
THEOREM ServeTypeCorrect == Spec => []TypeOK
<1>1. TypeOK /\ [Next]_vars => TypeOK'
  <2> SUFFICES ASSUME TypeOK, [Next]_vars
               PROVE  TypeOK'
    OBVIOUS
  <2> USE DEF clientVars, readVars, turnVars, runVars
  <2>1. CASE Disconnect
    BY <2>1 DEF Disconnect, TypeOK
  <2>2. CASE Signal
    BY <2>2 DEF Signal, TypeOK
  <2>3. CASE Exit
    BY <2>3 DEF Exit, TypeOK
  <2>4. CASE UNCHANGED vars
    BY <2>4 DEF vars, TypeOK
  <2>5. QED
    BY <2>1, <2>2, <2>3, <2>4, ClientType, ReadLoopType, WorkerType, RunType DEF Next
<1>2. QED
  BY <1>1, InitServeType, PTL DEF Spec
-----------------------------------------------------------------------------
(* Aborts and answers.                                                     *)

LEMMA AbortInductive == TypeOK /\ AbortHitsItsTurn /\ [Next]_vars => AbortHitsItsTurn'
<1> SUFFICES ASSUME TypeOK, AbortHitsItsTurn, [Next]_vars
             PROVE  AbortHitsItsTurn'
  OBVIOUS
<1> USE DEF clientVars, readVars, turnVars, runVars
<1>1. ASSUME UNCHANGED <<cancelled, worker, lastAbort, turn>>
      PROVE  AbortHitsItsTurn'
  BY <1>1 DEF AbortHitsItsTurn, InTurn
<1>2. CASE ReadAbort
  BY <1>2 DEF ReadAbort, AbortHitsItsTurn, InTurn
<1>3. CASE TakeAction
  <2>1. Head(actions) \in Kinds
    BY <1>3, HeadTailProperties DEF TakeAction, TypeOK
  <2>2. worker' \in {"starting", "idle"}
    BY <1>3, <2>1 DEF TakeAction, TurnFrom, Kinds
  <2>3. QED
    BY <1>3, <2>2 DEF TakeAction, FreshContext, AbortHitsItsTurn, InTurn
<1>4. CASE RegisterCancel
  BY <1>4 DEF RegisterCancel, AbortHitsItsTurn, InTurn
<1>5. CASE BridgeReturns \/ EndTurn \/ WorkerReturns
  BY <1>5 DEF BridgeReturns, EndTurn, WorkerReturns, AbortHitsItsTurn, InTurn
<1>6. CASE ClientSends \/ Disconnect \/ ReadAction \/ ReadPermRes \/ Resolve \/ ReadFails
           \/ HandlerReturns \/ Run \/ Ask \/ Signal \/ Exit \/ UNCHANGED vars
  BY <1>1, <1>6 DEF ClientSends, Disconnect, ReadAction, ReadPermRes, Resolve, ReadFails,
                    HandlerReturns, Run, AskReturns, RunEnds, Ask, Signal, Exit, vars
<1>7. QED
  BY <1>2, <1>3, <1>4, <1>5, <1>6 DEF Next, ReadLoop, Worker

\* An abort cancels no turn but the one in flight when it was read.
THEOREM AbortsAreTargeted == Spec => []AbortHitsItsTurn
<1>1. Init => AbortHitsItsTurn
  BY DEF Init, AbortHitsItsTurn
<1>2. QED
  BY <1>1, ServeTypeCorrect, AbortInductive, PTL DEF Spec

\* An answer in the pending request's channel, and one on its way there, are the
\* client's answers to that request.
AnswerInv ==
  /\ answer = "yes" => ask \in approved
  /\ loop = "resolving" /\ found.approved => found.id \in approved

LEMMA AnswerInductive == TypeOK /\ AnswerInv /\ [Next]_vars => AnswerInv'
<1> SUFFICES ASSUME TypeOK, AnswerInv, [Next]_vars
             PROVE  AnswerInv'
  OBVIOUS
<1> USE DEF clientVars, readVars, turnVars, runVars
<1>1. ASSUME UNCHANGED <<ask, answer, found, approved>>, loop' = loop \/ loop' # "resolving"
      PROVE  AnswerInv'
  BY <1>1 DEF AnswerInv
<1>2. CASE ReadPermRes
  <2>1. ask' = ask /\ answer' = answer /\ approved \subseteq approved'
    BY <1>2 DEF ReadPermRes
  <2>2. Head(inbox).approved => Head(inbox).id \in approved'
    BY <1>2 DEF ReadPermRes
  <2>3. loop' = "resolving" /\ found'.approved => found'.id \in approved'
    BY <1>2, <2>2 DEF ReadPermRes, Reads
  <2>4. QED
    BY <2>1, <2>3 DEF AnswerInv
<1>3. CASE Resolve
  <2>1. ask' = ask /\ approved' = approved /\ loop' = "reading"
    BY <1>3 DEF Resolve
  <2>2. answer' = "yes" => answer = "yes" \/ (found.id = ask /\ found.approved)
    BY <1>3 DEF Resolve, ReachesAsk
  <2>3. QED
    BY <1>3, <2>1, <2>2 DEF AnswerInv, Resolve
<1>4. CASE Ask \/ AskReturns
  BY <1>4 DEF Ask, AskReturns, AnswerInv
<1>5. CASE ClientSends \/ Disconnect \/ ReadAction \/ ReadAbort \/ ReadFails
           \/ HandlerReturns \/ Worker \/ RunEnds \/ Signal \/ Exit \/ UNCHANGED vars
  BY <1>1, <1>5 DEF ClientSends, Disconnect, ReadAction, ReadAbort, ReadFails, HandlerReturns,
                    Worker, TakeAction, RegisterCancel, BridgeReturns, EndTurn, WorkerReturns,
                    RunEnds, Signal, Exit, vars
<1>6. QED
  BY <1>2, <1>3, <1>4, <1>5 DEF Next, ReadLoop, Run

\* Ask allows a call only on the client's approval of that very request.
THEOREM AnswersAreMatched == Spec => OnlyApprovedAsksAllow
<1>1. Init => AnswerInv
  BY DEF Init, AnswerInv
<1>2. AnswerInv => (AskReturns /\ answer = "yes" => ask \in approved)
  BY DEF AnswerInv
<1>3. QED
  BY <1>1, <1>2, ServeTypeCorrect, AnswerInductive, PTL DEF Spec, OnlyApprovedAsksAllow

-----------------------------------------------------------------------------
(* SavedSessions.                                                          *)

LEMMA LoadedType ==
  ASSUME SessionsTypeOK, NEW id \in Ids
  PROVE  Loaded(id) \subseteq Sessions
  BY DEF Loaded, Sessions, SessionsTypeOK

LEMMA FreshType == Fresh \subseteq Sessions
  BY DEF Fresh, Sessions

LEMMA SwapType ==
  ASSUME SessionsTypeOK, NEW c \in Conns, NEW s \in Sessions, Swap(c, s)
  PROVE  SessionsTypeOK'
  BY DEF Swap, StaleAfter, SessionsTypeOK, Sessions, processVars, saved, past

LEMMA ProcessType == SessionsTypeOK /\ (Start \/ Stop) => SessionsTypeOK'
<1>1. ASSUME SessionsTypeOK, Start
      PROVE  SessionsTypeOK'
  <2>1. initial' \in Sessions
    BY <1>1, LoadedType, FreshType DEF Start, SessionsTypeOK
  <2>2. initial'.id \in Ids
    BY <2>1 DEF Sessions
  <2>3. QED
    BY <1>1, <2>1, <2>2 DEF Start, SessionsTypeOK, workerVars, saved, past
<1>2. ASSUME SessionsTypeOK, Stop
      PROVE  SessionsTypeOK'
  BY <1>2 DEF Stop, SessionsTypeOK, saved, past
<1>3. QED
  BY <1>1, <1>2

LEMMA ConnectionType ==
  ASSUME SessionsTypeOK, NEW c \in Conns, Connect(c) \/ EndConnection(c) \/ FailTurn(c)
  PROVE  SessionsTypeOK'
  BY DEF Connect, StaleAfter, EndConnection, FailTurn, TurnCancelled, SessionsTypeOK, Sessions, processVars, saved,
         past

LEMMA SaveType ==
  ASSUME SessionsTypeOK, NEW c \in Conns, Save(session[c])
  PROVE  store' \in [Ids -> SUBSET Turns] /\ latest' \subseteq Ids
  BY DEF Save, SessionsTypeOK, Sessions

LEMMA TurnType ==
  ASSUME SessionsTypeOK, NEW c \in Conns, BeginTurn(c) \/ CompleteTurn(c) \/ Checkpoint(c)
  PROVE  SessionsTypeOK'
<1>1. CASE BeginTurn(c)
  <2>1. turns + 1 \in Turns /\ turns' \in 0..MaxTurns
    BY <1>1, SessionsAssumption DEF BeginTurn, SessionsTypeOK, Turns
  <2>2. session[c] \in Sessions
    BY DEF SessionsTypeOK
  <2>3. session' \in [Conns -> Sessions]
    BY <1>1, <2>1, <2>2 DEF BeginTurn, SessionsTypeOK, Sessions
  <2>4. owner' \in [Turns -> Ids]
    BY <1>1, <2>1, <2>2 DEF BeginTurn, SessionsTypeOK, Sessions
  <2>5. QED
    BY <1>1, <2>1, <2>3, <2>4 DEF BeginTurn, Idle, SessionsTypeOK, processVars, saved
<1>2. CASE CompleteTurn(c)
  <2>1. session[c].history \subseteq Turns
    BY DEF SessionsTypeOK, Sessions
  <2>2. QED
    BY <1>2, <2>1, SaveType DEF CompleteTurn, SessionsTypeOK, processVars
<1>3. CASE Checkpoint(c)
  BY <1>3, SaveType DEF Checkpoint, SessionsTypeOK, processVars, workerVars, past
<1>4. QED
  BY <1>1, <1>2, <1>3

LEMMA CommandType ==
  ASSUME SessionsTypeOK, NEW c \in Conns,
         Clear(c) \/ (\E id \in Ids : ResumeSlash(c, id) \/ ResumeMessage(c, id))
  PROVE  SessionsTypeOK'
<1>1. CASE Clear(c)
  BY <1>1, FreshType, SwapType DEF Clear, Cleared
<1>2. ASSUME NEW id \in Ids, ResumeSlash(c, id)
      PROVE  SessionsTypeOK'
  <2>1. [id |-> id, history |-> {}] \in Sessions
    BY DEF Sessions
  <2>2. QED
    BY <1>2, <2>1, LoadedType, SwapType DEF ResumeSlash
<1>3. ASSUME NEW id \in Ids, ResumeMessage(c, id)
      PROVE  SessionsTypeOK'
  BY <1>3, LoadedType, SwapType DEF ResumeMessage
<1>4. QED
  BY <1>1, <1>2, <1>3

\* SavedSessions is type correct.
THEOREM SessionsTypeCorrect == SessionsSpec => []SessionsTypeOK
<1>1. ASSUME SessionsInit
      PROVE  SessionsTypeOK
  <2>1. initial \in Sessions /\ initial.id \in Ids
    BY <1>1 DEF SessionsInit, Sessions
  <2>2. session \in [Conns -> Sessions] /\ owner \in [Turns -> Ids]
    BY <1>1, <2>1 DEF SessionsInit
  <2>3. store \in [Ids -> SUBSET Turns] /\ turns \in 0..MaxTurns
    BY <1>1, SessionsAssumption DEF SessionsInit
  <2>4. QED
    BY <1>1, <2>1, <2>2, <2>3 DEF SessionsInit, SessionsTypeOK
<1>2. SessionsTypeOK /\ [SessionsNext]_sessionsVars => SessionsTypeOK'
  <2>1. SessionsTypeOK /\ UNCHANGED sessionsVars => SessionsTypeOK'
    BY DEF sessionsVars, processVars, workerVars, saved, past, SessionsTypeOK
  <2>2. QED
    BY <2>1, ProcessType, ConnectionType, TurnType, CommandType DEF SessionsNext
<1>3. QED
  BY <1>1, <1>2, PTL DEF SessionsSpec

-----------------------------------------------------------------------------
(* Sessions keep apart.                                                    *)

\* The turns of a session have begun and were typed into it.
Own(s) == \A t \in s.history : t <= turns /\ owner[t] = s.id

ApartInv ==
  /\ \A id \in Ids : \A t \in store[id] : t <= turns /\ owner[t] = id
  /\ \A c \in Conns : Own(session[c])
  /\ Own(initial)

LEMMA LoadedIsOwn ==
  ASSUME ApartInv, NEW id \in Ids, NEW s \in Loaded(id)
  PROVE  Own(s)
  BY DEF Loaded, ApartInv, Own

LEMMA FreshIsOwn == \A s \in Fresh : Own(s)
  BY DEF Fresh, Own

LEMMA SwapKeepsApart ==
  ASSUME SessionsTypeOK, ApartInv, NEW c \in Conns, NEW s \in Sessions, Own(s), Swap(c, s)
  PROVE  ApartInv'
<1>1. UNCHANGED <<store, initial, turns, owner>>
  BY DEF Swap, processVars, saved, past
<1>2. \A d \in Conns : session'[d] \in {s, session[d]}
  BY DEF Swap, SessionsTypeOK
<1>3. QED
  BY <1>1, <1>2 DEF ApartInv, Own

LEMMA SaveKeepsApart ==
  ASSUME SessionsTypeOK, ApartInv, NEW c \in Conns, Save(session[c]),
         UNCHANGED <<session, initial, turns, owner>>
  PROVE  ApartInv'
<1>1. session[c].id \in Ids /\ session[c].history \subseteq Turns
  BY DEF SessionsTypeOK, Sessions
<1>2. \A id \in Ids : store'[id] = store[id] \/ (id = session[c].id /\ store'[id] = session[c].history)
  BY <1>1 DEF Save, SessionsTypeOK
<1>3. Own(session[c])
  BY DEF ApartInv
<1>4. QED
  BY <1>2, <1>3 DEF ApartInv, Own

LEMMA BeginKeepsApart ==
  ASSUME SessionsTypeOK, ApartInv, NEW c \in Conns, BeginTurn(c)
  PROVE  ApartInv'
<1>1. turns \in Nat /\ turns' = turns + 1 /\ turns + 1 \in Turns
  BY SessionsAssumption DEF BeginTurn, SessionsTypeOK, Turns
<1>2. \A t \in Turns : t <= turns => owner'[t] = owner[t]
  BY <1>1 DEF BeginTurn, SessionsTypeOK, Turns
<1>3. owner'[turns + 1] = session[c].id
  BY <1>1 DEF BeginTurn, SessionsTypeOK
<1>4. store' = store /\ initial' = initial
  BY DEF BeginTurn, saved, processVars
<1>5. \A d \in Conns : session[d].history \subseteq Turns
  BY DEF SessionsTypeOK, Sessions
<1>6. initial.history \subseteq Turns /\ \A id \in Ids : store[id] \subseteq Turns
  BY DEF SessionsTypeOK, Sessions
<1>7. \A id \in Ids : \A t \in store'[id] : t <= turns' /\ owner'[t] = id
  BY <1>1, <1>2, <1>4, <1>6 DEF ApartInv, Turns
<1>8. Own(initial)'
  BY <1>1, <1>2, <1>4, <1>6 DEF ApartInv, Own, Turns
<1>9. ASSUME NEW d \in Conns
      PROVE  Own(session[d])'
  <2>1. CASE d = c
    <3>1. session'[d].id = session[c].id
          /\ session'[d].history = session[c].history \cup {turns + 1}
      BY <2>1 DEF BeginTurn, SessionsTypeOK, Sessions
    <3>2. QED
      BY <1>1, <1>2, <1>3, <1>5, <2>1, <3>1 DEF ApartInv, Own, Turns
  <2>2. CASE d # c
    <3>1. session'[d] = session[d]
      BY <2>2 DEF BeginTurn, SessionsTypeOK
    <3>2. QED
      BY <1>1, <1>2, <1>5, <3>1 DEF ApartInv, Own, Turns
  <2>3. QED
    BY <2>1, <2>2
<1>10. QED
  BY <1>7, <1>8, <1>9 DEF ApartInv

LEMMA ApartInductive == SessionsTypeOK /\ ApartInv /\ [SessionsNext]_sessionsVars => ApartInv'
<1> SUFFICES ASSUME SessionsTypeOK, ApartInv, [SessionsNext]_sessionsVars
             PROVE  ApartInv'
  OBVIOUS
<1>1. CASE Start
  <2>1. Own(initial')
    BY <1>1, LoadedIsOwn, FreshIsOwn DEF Start, SessionsTypeOK
  <2>2. UNCHANGED <<store, session, turns, owner>>
    BY <1>1 DEF Start, workerVars, saved, past
  <2>3. QED
    BY <2>1, <2>2 DEF ApartInv, Own
<1>2. ASSUME UNCHANGED <<store, session, initial, turns, owner>>
      PROVE  ApartInv'
  BY <1>2 DEF ApartInv, Own
<1>3. ASSUME NEW c \in Conns, Connect(c)
      PROVE  ApartInv'
  <2>1. \A d \in Conns : session'[d] \in {initial, session[d]}
    BY <1>3 DEF Connect, SessionsTypeOK
  <2>2. UNCHANGED <<store, initial, turns, owner>>
    BY <1>3 DEF Connect, processVars, saved, past
  <2>3. QED
    BY <2>1, <2>2 DEF ApartInv, Own
<1>4. ASSUME NEW c \in Conns, BeginTurn(c)
      PROVE  ApartInv'
  BY <1>4, BeginKeepsApart
<1>5. ASSUME NEW c \in Conns, CompleteTurn(c) \/ Checkpoint(c)
      PROVE  ApartInv'
  BY <1>5, SaveKeepsApart DEF CompleteTurn, Checkpoint, processVars, workerVars, past
<1>6. ASSUME NEW c \in Conns, Clear(c)
      PROVE  ApartInv'
  BY <1>6, FreshType, FreshIsOwn, SwapKeepsApart DEF Clear, Cleared
<1>7. ASSUME NEW c \in Conns, NEW id \in Ids, ResumeSlash(c, id) \/ ResumeMessage(c, id)
      PROVE  ApartInv'
  <2> DEFINE empty == [id |-> id, history |-> {}]
  <2>1. empty \in Sessions /\ Own(empty)
    BY DEF Sessions, Own
  <2>2. PICK s \in Sessions : Own(s) /\ Swap(c, s)
    BY <1>7, <2>1, LoadedType, LoadedIsOwn DEF ResumeSlash, ResumeMessage
  <2>3. QED
    BY <2>2, SwapKeepsApart
<1>8. ASSUME NEW c \in Conns, EndConnection(c) \/ FailTurn(c)
      PROVE  ApartInv'
  BY <1>2, <1>8 DEF EndConnection, FailTurn, processVars, saved, past
<1>9. CASE Stop \/ UNCHANGED sessionsVars
  BY <1>2, <1>9 DEF Stop, sessionsVars, processVars, workerVars, saved, past
<1>10. QED
  BY <1>1, <1>3, <1>4, <1>5, <1>6, <1>7, <1>8, <1>9 DEF SessionsNext

\* What is saved under an id was typed into that session.
THEOREM NoSessionLeaks == SessionsSpec => []SessionsKeepApart
<1>1. SessionsInit => ApartInv
  BY DEF SessionsInit, ApartInv, Own
<1>2. ApartInv => SessionsKeepApart
  BY DEF ApartInv, SessionsKeepApart
<1>3. QED
  BY <1>1, <1>2, SessionsTypeCorrect, ApartInductive, PTL DEF SessionsSpec
-----------------------------------------------------------------------------
(* Completed turns stay.                                                   *)

\* Outside the stale sessions no two connections hold the same session, a connection
\* holds all that was saved of its own, and what was completed is saved.
StayInv ==
  /\ \A c, d \in open : c # d /\ session[c].id = session[d].id => session[c].id \in stale
  /\ \A c \in open : session[c].id \in stale \/ store[session[c].id] \subseteq session[c].history
  /\ CompletedTurnsStay

LEMMA BindingKeepsTurns ==
  ASSUME SessionsTypeOK, StayInv, NEW c \in Conns, NEW s \in Sessions,
         open' \subseteq open \cup {c}, session' = [session EXCEPT ![c] = s],
         stale' = StaleAfter(c, s), UNCHANGED <<store, owner, completed>>
  PROVE  StayInv'
<1>1. stale \subseteq stale'
  BY DEF StaleAfter
<1>2. session'[c] = s /\ \A d \in Conns \ {c} : session'[d] = session[d]
  BY DEF SessionsTypeOK
<1>3. open' \subseteq Conns /\ open' \ {c} \subseteq open
  BY DEF SessionsTypeOK
<1>4. s.id \in stale' \/ (s.history = store[s.id] /\ \A d \in open \ {c} : session[d].id # s.id)
  BY DEF StaleAfter
<1>5. ASSUME NEW d \in open', NEW e \in open', d # e, session'[d].id = session'[e].id
      PROVE  session'[d].id \in stale'
  <2>1. CASE d # c /\ e # c
    BY <1>1, <1>2, <1>3, <1>5, <2>1 DEF StayInv
  <2>2. CASE d = c \/ e = c
    BY <1>2, <1>3, <1>4, <1>5, <2>2
  <2>3. QED
    BY <2>1, <2>2
<1>6. ASSUME NEW d \in open'
      PROVE  session'[d].id \in stale' \/ store[session'[d].id] \subseteq session'[d].history
  <2>1. CASE d = c
    BY <1>2, <1>4, <2>1
  <2>2. CASE d # c
    BY <1>1, <1>2, <1>3, <2>2 DEF StayInv
  <2>3. QED
    BY <2>1, <2>2
<1>7. CompletedTurnsStay'
  BY <1>1 DEF StayInv, CompletedTurnsStay
<1>8. QED
  BY <1>5, <1>6, <1>7 DEF StayInv

LEMMA SavingKeepsTurns ==
  ASSUME SessionsTypeOK, ApartInv, StayInv, NEW c \in open, Save(session[c]),
         UNCHANGED <<open, session, owner, stale>>,
         completed' \in {completed, completed \cup session[c].history}
  PROVE  StayInv'
<1>1. c \in Conns /\ session[c].id \in Ids /\ store \in [Ids -> SUBSET Turns]
  BY DEF SessionsTypeOK, Sessions
<1>2. store'[session[c].id] = session[c].history
      /\ \A id \in Ids \ {session[c].id} : store'[id] = store[id]
  BY <1>1 DEF Save
<1>3. \A d \in open : session[d].id \in Ids
  BY DEF SessionsTypeOK, Sessions
<1>4. ASSUME NEW d \in open
      PROVE  session[d].id \in stale \/ store'[session[d].id] \subseteq session[d].history
  BY <1>2, <1>3 DEF StayInv
<1>5. ASSUME NEW t \in completed'
      PROVE  t \in store'[owner[t]] \/ owner[t] \in stale
  <2>1. CASE t \in session[c].history
    <3>1. owner[t] = session[c].id
      BY <1>1, <2>1 DEF ApartInv, Own
    <3>2. QED
      BY <1>2, <2>1, <3>1
  <2>2. CASE t \in completed
    <3>1. owner[t] \in Ids
      BY <2>2 DEF SessionsTypeOK
    <3>2. t \in store[owner[t]] \/ owner[t] \in stale
      BY <2>2 DEF StayInv, CompletedTurnsStay
    <3>3. session[c].id \in stale \/ store[session[c].id] \subseteq session[c].history
      BY DEF StayInv
    <3>4. QED
      BY <1>2, <3>1, <3>2, <3>3
  <2>3. QED
    BY <1>5, <2>1, <2>2
<1>6. CompletedTurnsStay'
  BY <1>5 DEF CompletedTurnsStay
<1>7. QED
  BY <1>4, <1>6 DEF StayInv

LEMMA BeginKeepsTurns ==
  ASSUME SessionsTypeOK, ApartInv, StayInv, NEW c \in Conns, BeginTurn(c),
         \A t \in completed : t <= turns
  PROVE  StayInv'
<1>1. UNCHANGED <<store, open, completed, stale>>
  BY DEF BeginTurn, saved
<1>2. \A d \in Conns : session'[d].id = session[d].id /\ session[d].history \subseteq session'[d].history
  BY DEF BeginTurn, SessionsTypeOK, Sessions
<1>3. open \subseteq Conns
  BY DEF SessionsTypeOK
<1>4. \A t \in completed : owner'[t] = owner[t]
  BY SessionsAssumption DEF BeginTurn, SessionsTypeOK, Turns
<1>5. QED
  BY <1>1, <1>2, <1>3, <1>4 DEF StayInv, CompletedTurnsStay

\* Completed turns have begun.
BegunInv == \A t \in completed : t <= turns

LEMMA BegunInductive == SessionsTypeOK /\ ApartInv /\ BegunInv /\ [SessionsNext]_sessionsVars => BegunInv'
<1> SUFFICES ASSUME SessionsTypeOK, ApartInv, BegunInv, [SessionsNext]_sessionsVars
             PROVE  BegunInv'
  OBVIOUS
<1>1. ASSUME NEW c \in Conns, BeginTurn(c)
      PROVE  BegunInv'
  <2>1. completed \subseteq Turns /\ turns \in Nat /\ turns' = turns + 1 /\ completed' = completed
    BY <1>1, SessionsAssumption DEF BeginTurn, SessionsTypeOK
  <2>2. QED
    BY <2>1 DEF BegunInv, Turns
<1>2. ASSUME NEW c \in Conns, CompleteTurn(c)
      PROVE  BegunInv'
  BY <1>2 DEF CompleteTurn, BegunInv, ApartInv, Own
<1>3. ASSUME UNCHANGED <<turns, completed>>
      PROVE  BegunInv'
  BY <1>3 DEF BegunInv
<1>4. QED
  BY <1>1, <1>2, <1>3 DEF SessionsNext, Start, Stop, Connect, EndConnection, FailTurn, Checkpoint, Clear,
     ResumeSlash, ResumeMessage, Swap, past, sessionsVars

LEMMA StayInductive ==
  SessionsTypeOK /\ ApartInv /\ BegunInv /\ StayInv /\ [SessionsNext]_sessionsVars => StayInv'
<1> SUFFICES ASSUME SessionsTypeOK, ApartInv, BegunInv, StayInv, [SessionsNext]_sessionsVars
             PROVE  StayInv'
  OBVIOUS
<1>1. ASSUME open' \subseteq open, UNCHANGED <<session, store, owner, completed, stale>>
      PROVE  StayInv'
  BY <1>1 DEF StayInv, CompletedTurnsStay
<1>2. ASSUME NEW c \in Conns, Connect(c)
      PROVE  StayInv'
  <2>1. initial \in Sessions
    BY DEF SessionsTypeOK
  <2>2. UNCHANGED <<store, owner, completed>>
    BY <1>2 DEF Connect, saved, past
  <2>3. QED
    BY <1>2, <2>1, <2>2, BindingKeepsTurns DEF Connect
<1>3. ASSUME NEW c \in Conns, NEW s \in Sessions, Swap(c, s)
      PROVE  StayInv'
  <2>1. UNCHANGED <<open, store, owner, completed>>
    BY <1>3 DEF Swap, saved, past
  <2>2. QED
    BY <1>3, <2>1, BindingKeepsTurns DEF Swap
<1>4. ASSUME NEW c \in Conns, Clear(c)
      PROVE  StayInv'
  BY <1>3, <1>4, FreshType DEF Clear, Cleared
<1>5. ASSUME NEW c \in Conns, NEW id \in Ids, ResumeSlash(c, id) \/ ResumeMessage(c, id)
      PROVE  StayInv'
  <2> DEFINE empty == [id |-> id, history |-> {}]
  <2>1. empty \in Sessions
    BY DEF Sessions
  <2>2. PICK s \in Sessions : Swap(c, s)
    BY <1>5, <2>1, LoadedType DEF ResumeSlash, ResumeMessage
  <2>3. QED
    BY <1>3, <2>2
<1>6. ASSUME NEW c \in Conns, BeginTurn(c)
      PROVE  StayInv'
  BY <1>6, BeginKeepsTurns DEF BegunInv
<1>7. ASSUME NEW c \in Conns, CompleteTurn(c) \/ Checkpoint(c)
      PROVE  StayInv'
  <2>1. c \in open
    BY <1>7 DEF CompleteTurn, Checkpoint, Idle, SessionsTypeOK
  <2>2. Save(session[c]) /\ UNCHANGED <<open, session, owner, stale>>
        /\ completed' \in {completed, completed \cup session[c].history}
    BY <1>7 DEF CompleteTurn, Checkpoint, workerVars, past
  <2>3. QED
    BY <2>1, <2>2, SavingKeepsTurns
<1>8. ASSUME NEW c \in Conns, EndConnection(c) \/ FailTurn(c)
      PROVE  StayInv'
  BY <1>1, <1>8 DEF EndConnection, FailTurn, saved, past
<1>9. CASE Start \/ Stop \/ UNCHANGED sessionsVars
  BY <1>1, <1>9 DEF Start, Stop, sessionsVars, workerVars, saved, past
<1>10. QED
  BY <1>2, <1>4, <1>5, <1>6, <1>7, <1>8, <1>9 DEF SessionsNext

\* A completed turn stays in the store, outside the sessions taken up as something
\* else than was saved, or by two connections.
THEOREM TurnsAreDurable == SessionsSpec => []CompletedTurnsStay
<1>1. SessionsInit => ApartInv /\ BegunInv /\ StayInv
  BY DEF SessionsInit, ApartInv, Own, BegunInv, StayInv, CompletedTurnsStay
<1>2. StayInv => CompletedTurnsStay
  BY DEF StayInv
<1>3. QED
  BY <1>1, <1>2, SessionsTypeCorrect, ApartInductive, BegunInductive, StayInductive, PTL DEF SessionsSpec
=============================================================================
