-------------------------- MODULE EventStream_proofs --------------------------
(***************************************************************************)
(* EventStream for every capacity and every length of run: its type, the   *)
(* order of what the client receives (it implements OrderedDelivery), the  *)
(* pairing of results with their starts while nothing is dropped, and what *)
(* a client was told of the end.                                           *)
(* Dialect for every vocabulary and every reply: what the model is told    *)
(* that it said.                                                           *)
(***************************************************************************)
EXTENDS EventStream, Dialect, SequenceTheorems, WellFoundedInduction, TLAPS

LEMMA InitStreamType == Init => TypeOK
<1> SUFFICES ASSUME Init
             PROVE  TypeOK
  OBVIOUS
<1>1. NoOut \in Outs
  BY DEF NoOut, Outs, Kinds
<1>2. ch \in Seq(Events) /\ Len(ch) <= Cap /\ client \in Seq(Outs)
  BY StreamAssumption DEF Init
<1>3. QED
  BY <1>1, <1>2 DEF Init, TypeOK

LEMMA EmitType ==
  ASSUME TypeOK, NEW kind \in Kinds, NEW start \in Nat, Emit(kind, start)
  PROVE  /\ emitted' \in Nat /\ ch' \in Seq(Events) /\ Len(ch') <= Cap
         /\ lost' \in BOOLEAN
         /\ UNCHANGED <<bridge, lastStart, captured, out, sendFailed, client>>
<1> DEFINE e == [n |-> emitted', kind |-> kind, start |-> start]
<1>1. emitted' \in Nat /\ e \in Events
  BY DEF Emit, TypeOK, Events
<1>2. UNCHANGED <<bridge, lastStart, captured, out, sendFailed, client>>
  BY DEF Emit, bridgeVars
<1>3. CASE Len(ch) < Cap /\ ch' = Append(ch, e) /\ UNCHANGED lost
  BY <1>1, <1>2, <1>3, StreamAssumption DEF TypeOK
<1>4. CASE Len(ch) >= Cap /\ lost' = TRUE /\ UNCHANGED ch
  BY <1>1, <1>2, <1>4 DEF TypeOK
<1>5. QED
  BY <1>3, <1>4 DEF Emit, Send

LEMMA NextStreamType == TypeOK /\ [Next]_vars => TypeOK'
<1> SUFFICES ASSUME TypeOK, [Next]_vars
             PROVE  TypeOK'
  OBVIOUS
<1>1. CASE Engine
  <2>1. PICK kind \in Kinds, start \in Nat : Emit(kind, start)
    BY <1>1 DEF Engine, Text, StartTool, ToolResult, Blocked, Terminate, Kinds, TypeOK
  <2>2. run' \in {"loop", "executing", "finished", "failed"} /\ open' \in Nat
    BY <1>1, <2>1, EmitType
       DEF Engine, Text, StartTool, ToolResult, Blocked, Terminate, TypeOK
  <2>3. QED
    BY <2>1, <2>2, EmitType DEF TypeOK
<1>2. CASE Receive
  <2> DEFINE e == Head(ch)
  <2>1. e \in Events /\ Tail(ch) \in Seq(Events) /\ Len(Tail(ch)) <= Cap
    BY <1>2, StreamAssumption DEF Receive, TypeOK
  <2>2. IdFor(e) \in Nat /\ StartAfter(e) \in Nat
    BY <2>1 DEF IdFor, StartAfter, Events, TypeOK
  <2>3. CapturedAfter(e) \in BOOLEAN
    BY DEF CapturedAfter, TypeOK
  <2>4. out' \in Outs
    BY <1>2, <2>1, <2>2 DEF Receive, Events, Outs
  <2>5. QED
    BY <1>2, <2>1, <2>2, <2>3, <2>4 DEF Receive, TypeOK, runVars
<1>3. CASE Forward
  BY <1>3 DEF Forward, TypeOK, runVars, NoOut, Outs, Kinds
<1>4. CASE SendFails
  BY <1>4 DEF SendFails, TypeOK, runVars, NoOut, Outs, Kinds
<1>5. CASE RangeEnds
  BY <1>5 DEF RangeEnds, TypeOK, runVars
<1>6. CASE UNCHANGED vars
  BY <1>6 DEF vars, runVars, bridgeVars, TypeOK
<1>7. QED
  BY <1>1, <1>2, <1>3, <1>4, <1>5, <1>6 DEF Next, Bridge

\* The variables always have their types, whatever the capacity of the channel and
\* however long the run.
THEOREM StreamTypeCorrect == Spec => []TypeOK
BY InitStreamType, NextStreamType, PTL DEF Spec

-----------------------------------------------------------------------------
(* Pairing.  While nothing is dropped, the bridge's lastStart, the channel *)
(* and the executing tool's start form a chain: a start is followed by its *)
(* own result, and a result without a start by no start before it.         *)

\* The start that is still waiting for its result after event e of a chain.
WaitingAfter(e) == IF e.kind = "start" THEN e.n ELSE 0

\* e continues a chain in which w is waiting.
Continues(e, w) == IF e.kind = "result" THEN e.start = w ELSE w = 0

\* c is a chain that starts where w is waiting and ends where o is.
Chained(c, w, o) ==
  /\ \A i \in 1..Len(c) : c[i].n # 0
  /\ c # <<>> => Continues(c[1], w)
  /\ \A i \in 2..Len(c) : Continues(c[i], WaitingAfter(c[i - 1]))
  /\ o = IF c = <<>> THEN w ELSE WaitingAfter(c[Len(c)])

PairInv ==
  /\ run = "executing" <=> open # 0
  /\ ~lost =>
       /\ Chained(ch, lastStart, open)
       /\ Pairing
       /\ bridge = "send" => Paired(out)

LEMMA ChainAppend ==
  ASSUME NEW c \in Seq(Events), NEW w, NEW o, Chained(c, w, o),
         NEW e \in Events, e.n # 0, Continues(e, o)
  PROVE  Chained(Append(c, e), w, WaitingAfter(e))
<1> DEFINE g == Append(c, e)
<1>1. /\ Len(g) = Len(c) + 1 /\ g # <<>> /\ Len(c) \in Nat
      /\ \A i \in 1..Len(c) : g[i] = c[i]
      /\ g[Len(c) + 1] = e
  BY AppendProperties
<1> HIDE DEF g
<1>2. \A i \in 1..Len(g) : g[i].n # 0
  BY <1>1 DEF Chained
<1>3. Continues(g[1], w)
  BY <1>1 DEF Chained
<1>4. ASSUME NEW i \in 2..Len(g)
      PROVE  Continues(g[i], WaitingAfter(g[i - 1]))
  <2>1. i - 1 \in 1..Len(c) /\ g[i - 1] = c[i - 1]
    BY <1>1
  <2>2. CASE i = Len(g)
    BY <1>1, <2>1, <2>2 DEF Chained
  <2>3. CASE i # Len(g)
    BY <1>1, <2>1, <2>3 DEF Chained
  <2>4. QED
    BY <2>2, <2>3
<1>5. Chained(g, w, WaitingAfter(e))
  BY <1>1, <1>2, <1>3, <1>4 DEF Chained
<1>6. QED
  BY <1>5 DEF g

LEMMA ChainTail ==
  ASSUME NEW c \in Seq(Events), NEW w, NEW o, Chained(c, w, o), c # <<>>
  PROVE  Chained(Tail(c), WaitingAfter(Head(c)), o)
<1> DEFINE t == Tail(c)
<1>1. /\ Len(t) = Len(c) - 1 /\ Len(c) \in Nat \ {0} /\ Head(c) = c[1]
      /\ \A i \in 1..(Len(c) - 1) : t[i] = c[i + 1]
      /\ (t = <<>> <=> Len(c) = 1)
  <2>1. /\ Len(t) = Len(c) - 1 /\ Len(c) \in Nat \ {0} /\ Head(c) = c[1]
        /\ t \in Seq(Events)
    BY HeadTailProperties
  <2>2. \A i \in 1..(Len(c) - 1) : t[i] = c[i + 1]
    BY <2>1
  <2>3. t = <<>> <=> Len(c) = 1
    <3> HIDE DEF t
    <3>1. t = <<>> <=> Len(t) = 0
      BY <2>1, EmptySeq
    <3>2. QED
      BY <2>1, <3>1
  <2>4. QED
    BY <2>1, <2>2, <2>3
<1> HIDE DEF t
<1>2. \A i \in 1..Len(t) : t[i].n # 0
  BY <1>1 DEF Chained
<1>3. t # <<>> => Continues(t[1], WaitingAfter(c[1]))
  BY <1>1 DEF Chained
<1>4. ASSUME NEW i \in 2..Len(t)
      PROVE  Continues(t[i], WaitingAfter(t[i - 1]))
  <2>1. i + 1 \in 2..Len(c) /\ t[i] = c[i + 1] /\ t[i - 1] = c[i]
    BY <1>1
  <2>2. QED
    BY <2>1 DEF Chained
<1>5. o = IF t = <<>> THEN WaitingAfter(c[1]) ELSE WaitingAfter(t[Len(t)])
  BY <1>1 DEF Chained
<1>6. Chained(t, WaitingAfter(c[1]), o)
  BY <1>2, <1>3, <1>4, <1>5 DEF Chained
<1>7. QED
  BY <1>1, <1>6 DEF t

LEMMA PairInductive == TypeOK /\ PairInv /\ [Next]_vars => PairInv'
<1> SUFFICES ASSUME TypeOK, PairInv, [Next]_vars
             PROVE  PairInv'
  OBVIOUS
<1>1. ASSUME NEW kind \in Kinds, NEW start \in Nat, Emit(kind, start),
             Continues([n |-> emitted', kind |-> kind, start |-> start], open),
             open' = WaitingAfter([n |-> emitted', kind |-> kind, start |-> start]),
             run' = "executing" <=> open' # 0
      PROVE  PairInv'
  <2> DEFINE e == [n |-> emitted', kind |-> kind, start |-> start]
  <2>1. e \in Events /\ e.n # 0
    BY <1>1 DEF Emit, TypeOK, Events
  <2>2. UNCHANGED <<bridge, lastStart, out, client>>
    BY <1>1 DEF Emit, bridgeVars
  <2>3. CASE lost'
    BY <1>1, <2>3 DEF PairInv
  <2>4. CASE ~lost'
    <3>1. ch' = Append(ch, e) /\ ~lost
      BY <1>1, <2>4 DEF Emit, Send
    <3>2. Chained(ch, lastStart, open) /\ ch \in Seq(Events)
      BY <3>1 DEF PairInv, TypeOK
    <3>3. Chained(ch', lastStart, open')
      <4> HIDE DEF e
      <4>1. Continues(e, open) /\ open' = WaitingAfter(e)
        BY <1>1 DEF e
      <4>2. QED
        BY <2>1, <3>1, <3>2, <4>1, ChainAppend
    <3>4. Chained(ch, lastStart, open)'
      BY <2>2, <3>3
    <3>5. Pairing' /\ (bridge' = "send" => Paired(out)')
      BY <2>2, <3>1 DEF PairInv, Pairing, Paired
    <3>6. QED
      BY <1>1, <3>4, <3>5 DEF PairInv
  <2>5. QED
    BY <2>3, <2>4
<1>2. CASE Engine
  <2>1. emitted' # 0 /\ emitted' \in Nat
    BY <1>2 DEF Engine, Text, StartTool, ToolResult, Blocked, Terminate, Emit, TypeOK
  <2>2. CASE Text \/ Terminate("done") \/ Terminate("error")
    BY <1>1, <2>1, <2>2 DEF Text, Terminate, Kinds, Continues, WaitingAfter, PairInv, TypeOK
  <2>3. CASE StartTool
    BY <1>1, <2>1, <2>3 DEF StartTool, Kinds, Continues, WaitingAfter, PairInv, TypeOK
  <2>4. CASE ToolResult
    BY <1>1, <2>1, <2>4 DEF ToolResult, Kinds, Continues, WaitingAfter, PairInv, TypeOK
  <2>5. CASE Blocked
    BY <1>1, <2>1, <2>5 DEF Blocked, Kinds, Continues, WaitingAfter, PairInv, TypeOK
  <2>6. QED
    BY <1>2, <2>2, <2>3, <2>4, <2>5 DEF Engine
<1>3. CASE Receive
  <2> DEFINE e == Head(ch)
  <2>1. /\ e \in Events /\ e = ch[1] /\ ch \in Seq(Events) /\ ch # <<>>
        /\ lastStart \in Nat
    BY <1>3 DEF Receive, TypeOK
  <2>2. CASE lost
    BY <1>3, <2>2 DEF Receive, PairInv, runVars
  <2>3. CASE ~lost
    <3>1. Chained(ch, lastStart, open) /\ Pairing
      BY <2>3 DEF PairInv
    <3>2. Continues(e, lastStart)
      BY <2>1, <3>1 DEF Chained
    <3>3. lastStart' = WaitingAfter(e)
      BY <1>3, <3>2 DEF Receive, StartAfter, WaitingAfter, Continues
    <3>4. Chained(ch', lastStart', open)
      BY <1>3, <2>1, <3>1, <3>3, ChainTail DEF Receive
    <3>5. Chained(ch, lastStart, open)'
      BY <1>3, <3>4 DEF Receive, runVars
    <3>6. Paired(out)'
      BY <1>3, <2>1, <3>2 DEF Receive, Paired, IdFor, Continues
    <3>7. Pairing' /\ (run' = "executing" <=> open' # 0)
      BY <1>3, <3>1 DEF Receive, Pairing, PairInv, Paired, runVars
    <3>8. QED
      BY <3>5, <3>6, <3>7 DEF PairInv
  <2>4. QED
    BY <2>2, <2>3
<1>4. CASE Forward
  <2>1. client' = Append(client, out) /\ client \in Seq(Outs) /\ out \in Outs
    BY <1>4 DEF Forward, TypeOK
  <2>2. ~lost => Pairing'
    BY <1>4, <2>1 DEF Forward, PairInv, Pairing, Paired
  <2>3. UNCHANGED <<run, open, ch, lost, lastStart>> /\ bridge' = "range"
    BY <1>4 DEF Forward, runVars
  <2>4. QED
    BY <2>2, <2>3 DEF PairInv, Chained, Continues, WaitingAfter
<1>5. CASE SendFails \/ RangeEnds
  BY <1>5 DEF SendFails, RangeEnds, PairInv, Pairing, Paired, runVars, Chained,
              Continues, WaitingAfter
<1>6. CASE UNCHANGED vars
  BY <1>6 DEF vars, runVars, bridgeVars, PairInv, Pairing, Paired, Chained,
              Continues, WaitingAfter
<1>7. QED
  BY <1>2, <1>3, <1>4, <1>5, <1>6 DEF Next, Bridge

\* Until something is dropped, every result the client gets carries the id of its
\* own start, whatever the capacity and the interleaving of run and bridge.
THEOREM PairedWhileNothingLost == Spec => []PairedUnlessLost
<1>1. Init => PairInv
  BY DEF Init, PairInv, Chained, Pairing
<1>2. PairInv => PairedUnlessLost
  BY DEF PairInv, PairedUnlessLost
<1>3. QED
  BY <1>1, <1>2, StreamTypeCorrect, PairInductive, PTL DEF Spec

-----------------------------------------------------------------------------
(* What the client was told of the end.                                    *)

\* The history is captured before DoneEvent is sent on.
KeptInv ==
  /\ DoneIsKept
  /\ bridge = "send" /\ out.kind = "done" => captured

LEMMA KeptInductive == TypeOK /\ KeptInv /\ [Next]_vars => KeptInv'
<1> SUFFICES ASSUME TypeOK, KeptInv, [Next]_vars
             PROVE  KeptInv'
  OBVIOUS
<1>1. CASE Engine
  <2>1. UNCHANGED <<bridge, captured, out, client>>
    BY <1>1 DEF Engine, Text, StartTool, ToolResult, Blocked, Terminate, Emit, bridgeVars
  <2>2. QED
    BY <2>1 DEF KeptInv, DoneIsKept
<1>2. CASE Receive
  <2>1. /\ out'.kind = Head(ch).kind /\ captured' = (captured \/ Head(ch).kind = "done")
        /\ UNCHANGED client
    BY <1>2 DEF Receive, CapturedAfter
  <2>2. QED
    BY <2>1 DEF KeptInv, DoneIsKept
<1>3. CASE Forward
  <2>1. /\ Len(client') = Len(client) + 1 /\ client'[Len(client) + 1] = out
        /\ \A i \in 1..Len(client) : client'[i] = client[i]
        /\ UNCHANGED captured
    BY <1>3, AppendProperties DEF Forward, TypeOK
  <2>2. ASSUME NEW i \in 1..Len(client'), client'[i].kind = "done"
        PROVE  captured
    <3>1. i \in 1..Len(client) \/ i = Len(client) + 1
      BY <2>1, LenProperties DEF TypeOK
    <3>2. QED
      BY <1>3, <2>1, <2>2, <3>1 DEF KeptInv, DoneIsKept, Forward
  <2>3. QED
    BY <1>3, <2>1, <2>2 DEF KeptInv, DoneIsKept, Forward
<1>4. CASE SendFails \/ RangeEnds
  BY <1>4 DEF SendFails, RangeEnds, KeptInv, DoneIsKept
<1>5. CASE UNCHANGED vars
  BY <1>5 DEF vars, bridgeVars, KeptInv, DoneIsKept
<1>6. QED
  BY <1>1, <1>2, <1>3, <1>4, <1>5 DEF Next, Bridge

\* A client that was told the turn is done will find it in the session, whatever was
\* lost and whenever the connection broke.
THEOREM DoneIsAlwaysKept == Spec => []DoneIsKept
<1>1. Init => KeptInv
  BY DEF Init, KeptInv, DoneIsKept
<1>2. KeptInv => DoneIsKept
  BY DEF KeptInv
<1>3. QED
  BY <1>1, <1>2, StreamTypeCorrect, KeptInductive, PTL DEF Spec

-----------------------------------------------------------------------------
(* Order.  What the client has, what is being sent and what the channel    *)
(* holds is in the order of emission.                                      *)

OrderInv ==
  /\ \A i \in 1..Len(ch) : ch[i].n \in 1..emitted
  /\ \A i, j \in 1..Len(ch) : i < j => ch[i].n < ch[j].n
  /\ \A i \in 1..Len(client) : client[i].n \in 1..emitted
  /\ \A i \in 1..Len(client), j \in 1..Len(ch) : client[i].n < ch[j].n
  /\ bridge = "send" =>
       /\ out.n \in 1..emitted
       /\ \A i \in 1..Len(client) : client[i].n < out.n
       /\ \A j \in 1..Len(ch) : out.n < ch[j].n

LEMMA OrderInductive == TypeOK /\ OrderInv /\ [Next]_vars => OrderInv'
<1> SUFFICES ASSUME TypeOK, OrderInv, [Next]_vars
             PROVE  OrderInv'
  OBVIOUS
<1>1. CASE Engine
  <2>1. PICK kind \in Kinds, start \in Nat : Emit(kind, start)
    BY <1>1 DEF Engine, Text, StartTool, ToolResult, Blocked, Terminate, Kinds, TypeOK
  <2> DEFINE e == [n |-> emitted', kind |-> kind, start |-> start]
  <2>2. /\ emitted \in Nat /\ emitted' = emitted + 1 /\ e.n = emitted'
        /\ UNCHANGED <<bridge, out, client>>
    BY <2>1 DEF Emit, bridgeVars, TypeOK
  <2>a. \A n \in 1..emitted : n \in 1..emitted' /\ n < emitted'
    BY <2>2
  <2>3. CASE UNCHANGED ch
    <3>1. \A i \in 1..Len(client) : client[i].n \in 1..emitted'
      BY <2>a DEF OrderInv
    <3>2. \A i \in 1..Len(ch) : ch[i].n \in 1..emitted'
      BY <2>a DEF OrderInv
    <3>3. bridge = "send" => out.n \in 1..emitted'
      BY <2>a DEF OrderInv
    <3>4. QED
      BY <2>2, <2>3, <3>1, <3>2, <3>3 DEF OrderInv
  <2>4. CASE ch' = Append(ch, e)
    <3>1. /\ Len(ch) \in Nat /\ Len(ch') = Len(ch) + 1
          /\ \A i \in 1..Len(ch) : ch'[i] = ch[i]
          /\ ch'[Len(ch) + 1] = e
      BY <2>4 DEF TypeOK
    <3>2. \A i \in 1..Len(ch') : i \in 1..Len(ch) \/ (i = Len(ch) + 1 /\ ch'[i] = e)
      BY <3>1
    <3> HIDE DEF e
    <3>3. \A i \in 1..Len(ch') : ch'[i].n \in 1..emitted'
      BY <2>2, <3>1, <3>2 DEF OrderInv
    <3>4. \A i, j \in 1..Len(ch') : i < j => ch'[i].n < ch'[j].n
      BY <2>2, <3>1, <3>2 DEF OrderInv
    <3>a. \A i \in 1..Len(client') : client'[i].n \in 1..emitted
      BY <2>2 DEF OrderInv
    <3>b. \A i \in 1..Len(client'), j \in 1..Len(ch') : client'[i].n < ch'[j].n
      <4> SUFFICES ASSUME NEW i \in 1..Len(client'), NEW j \in 1..Len(ch')
                   PROVE  client'[i].n < ch'[j].n
        OBVIOUS
      <4>1. CASE j \in 1..Len(ch)
        BY <2>2, <3>1, <4>1 DEF OrderInv
      <4>2. CASE ch'[j] = e
        BY <2>2, <2>a, <3>a, <4>2
      <4>3. QED
        BY <3>2, <4>1, <4>2
    <3>5. /\ \A i \in 1..Len(client') : client'[i].n \in 1..emitted'
          /\ \A i \in 1..Len(client'), j \in 1..Len(ch') : client'[i].n < ch'[j].n
      BY <2>a, <3>a, <3>b
    <3>6. bridge' = "send" =>
            /\ out'.n \in 1..emitted'
            /\ \A i \in 1..Len(client') : client'[i].n < out'.n
            /\ \A j \in 1..Len(ch') : out'.n < ch'[j].n
      <4> SUFFICES ASSUME bridge' = "send"
                   PROVE  /\ out'.n \in 1..emitted'
                          /\ \A i \in 1..Len(client') : client'[i].n < out'.n
                          /\ \A j \in 1..Len(ch') : out'.n < ch'[j].n
        OBVIOUS
      <4>1. /\ out'.n \in 1..emitted
            /\ \A i \in 1..Len(client') : client'[i].n < out'.n
            /\ \A j \in 1..Len(ch) : out'.n < ch[j].n
        BY <2>2 DEF OrderInv
      <4>2. out'.n \in 1..emitted' /\ out'.n < e.n
        BY <2>2, <2>a, <4>1
      <4>3. \A j \in 1..Len(ch') : out'.n < ch'[j].n
        BY <3>1, <3>2, <4>1, <4>2
      <4>4. QED
        BY <4>1, <4>2, <4>3
    <3>7. QED
      BY <3>3, <3>4, <3>5, <3>6 DEF OrderInv
  <2>5. QED
    BY <2>1, <2>3, <2>4 DEF Emit, Send
<1>2. CASE Receive
  <2>1. /\ Len(ch) \in Nat \ {0} /\ Len(ch') = Len(ch) - 1
        /\ \A i \in 1..Len(ch') : ch'[i] = ch[i + 1]
        /\ out'.n = ch[1].n
    BY <1>2, HeadTailProperties DEF Receive, TypeOK
  <2>2. UNCHANGED <<emitted, client>>
    BY <1>2 DEF Receive, runVars
  <2>3. \A i \in 1..Len(ch') : i + 1 \in 1..Len(ch) /\ 1 < i + 1 /\ 1 \in 1..Len(ch)
    BY <2>1
  <2>4. /\ \A i \in 1..Len(ch') : ch'[i].n \in 1..emitted'
        /\ \A i \in 1..Len(client'), j \in 1..Len(ch') : client'[i].n < ch'[j].n
    BY <2>1, <2>2, <2>3 DEF OrderInv
  <2>5. \A i, j \in 1..Len(ch') : i < j => ch'[i].n < ch'[j].n
    <3> SUFFICES ASSUME NEW i \in 1..Len(ch'), NEW j \in 1..Len(ch'), i < j
                 PROVE  ch'[i].n < ch'[j].n
      OBVIOUS
    <3>1. i + 1 < j + 1
      OBVIOUS
    <3>2. QED
      BY <2>1, <2>3, <3>1 DEF OrderInv
  <2>6. /\ out'.n \in 1..emitted'
        /\ \A i \in 1..Len(client') : client'[i].n < out'.n
        /\ \A j \in 1..Len(ch') : out'.n < ch'[j].n
    <3>1. 1 \in 1..Len(ch)
      BY <2>1
    <3>2. QED
      BY <2>1, <2>2, <2>3, <3>1 DEF OrderInv
  <2>7. \A i \in 1..Len(client') : client'[i].n \in 1..emitted'
    BY <2>2 DEF OrderInv
  <2>8. QED
    BY <2>4, <2>5, <2>6, <2>7 DEF OrderInv
<1>3. CASE Forward
  <2>1. /\ Len(client) \in Nat /\ Len(client') = Len(client) + 1
        /\ \A i \in 1..Len(client) : client'[i] = client[i]
        /\ client'[Len(client) + 1] = out
    BY <1>3 DEF Forward, TypeOK
  <2>2. UNCHANGED <<emitted, ch>> /\ bridge = "send" /\ bridge' = "range"
    BY <1>3 DEF Forward, runVars
  <2>3. \A i \in 1..Len(client') : i \in 1..Len(client) \/ client'[i] = out
    BY <2>1
  <2>4. /\ \A i \in 1..Len(client') : client'[i].n \in 1..emitted'
        /\ \A i \in 1..Len(client'), j \in 1..Len(ch') : client'[i].n < ch'[j].n
    BY <2>1, <2>2, <2>3 DEF OrderInv
  <2>5. QED
    BY <2>2, <2>4 DEF OrderInv
<1>4. CASE SendFails \/ RangeEnds \/ UNCHANGED vars
  BY <1>4 DEF SendFails, RangeEnds, vars, runVars, bridgeVars, OrderInv
<1>5. QED
  BY <1>1, <1>2, <1>3, <1>4 DEF Next, Bridge

Numbers == [i \in 1..Len(client) |-> client[i].n]

\* The client gets a subsequence of what was emitted, in order and without
\* repetition, whatever is lost and wherever the bridge stops: the stream
\* implements OrderedDelivery.
THEOREM StreamDeliversInOrder == Spec => InOrder
<1>1. Init => OrderInv /\ Delivery!Init
  BY DEF Init, OrderInv, Delivery!Init
<1>2. TypeOK /\ OrderInv /\ [Next]_vars => [Delivery!Next]_Delivery!vars
  <2> SUFFICES ASSUME TypeOK, OrderInv, [Next]_vars
               PROVE  [Delivery!Next]_Delivery!vars
    OBVIOUS
  <2>1. CASE Engine
    <3>1. emitted' = emitted + 1 /\ UNCHANGED client
      BY <2>1 DEF Engine, Text, StartTool, ToolResult, Blocked, Terminate, Emit
    <3>2. QED
      BY <3>1 DEF Delivery!Next, Delivery!Emit
  <2>2. CASE Forward
    <3>1. /\ client \in Seq(Outs) /\ out \in Outs /\ client' = Append(client, out)
          /\ UNCHANGED emitted
      BY <2>2 DEF Forward, runVars, TypeOK
    <3>a. \A i \in 1..Len(client) : client[i].n \in Nat
      <4>1. \A i \in 1..Len(client) : client[i] \in Outs
        BY <3>1
      <4>2. \A o \in Outs : o.n \in Nat
        BY DEF Outs
      <4>3. QED
        BY <4>1, <4>2
    <3>2. Numbers \in Seq(Nat) /\ Len(Numbers) = Len(client)
      BY <3>1, <3>a DEF Numbers
    <3>3. Numbers' = Append(Numbers, out.n)
      BY <3>1, <3>2 DEF Numbers, Outs
    <3>4. Delivery!Newest < out.n /\ out.n \in 1..emitted /\ Delivery!Newest \in Nat
      <4>1. out.n \in 1..emitted /\ \A i \in 1..Len(client) : client[i].n < out.n
        BY <2>2 DEF Forward, OrderInv
      <4>2. Delivery!Newest = IF Numbers = <<>> THEN 0 ELSE Numbers[Len(Numbers)]
        BY DEF Delivery!Newest, Numbers
      <4>3. CASE Numbers = <<>>
        BY <4>1, <4>2, <4>3 DEF TypeOK
      <4>4. CASE Numbers # <<>>
        <5>1. Len(client) \in 1..Len(client)
          <6> SUFFICES ASSUME Len(client) = 0
                       PROVE  FALSE
            BY <3>1
          <6>1. QED
            BY <3>2, <4>4, EmptySeq
        <5>2. Numbers[Len(Numbers)] = client[Len(client)].n
          BY <3>2, <5>1 DEF Numbers
        <5>3. QED
          BY <3>a, <4>1, <4>2, <4>4, <5>1, <5>2
      <4>5. QED
        BY <4>3, <4>4
    <3>5. out.n \in (Delivery!Newest + 1)..emitted
      BY <3>4 DEF TypeOK
    <3>6. Delivery!Deliver
      BY <3>1, <3>3, <3>5 DEF Delivery!Deliver, Numbers
    <3>7. QED
      BY <3>6 DEF Delivery!Next
  <2>3. CASE Receive \/ SendFails \/ RangeEnds \/ UNCHANGED vars
    <3>1. UNCHANGED <<emitted, client>>
      BY <2>3 DEF Receive, SendFails, RangeEnds, vars, runVars
    <3>2. QED
      BY <3>1 DEF Delivery!vars
  <2>4. QED
    BY <2>1, <2>2, <2>3 DEF Next, Bridge
<1>3. QED
  BY <1>1, <1>2, StreamTypeCorrect, OrderInductive, PTL DEF Spec, InOrder, Delivery!Spec

-----------------------------------------------------------------------------
(* Dialect: what the model is told that it said.  A fence of a good call   *)
(* is read as that call wherever it stands, whatever follows (FenceStands);*)
(* a flattened turn is a text with such fences on lines of their own       *)
(* (SaidJoins); so reading it back, from its last fence to its first,      *)
(* gives the text and the calls (ReadBack).  Every reply that was parsed   *)
(* has good calls (HeardWell, the invariant).                              *)

Below == {ss \in Nat \X Nat : ss[1] < ss[2]}

\* A set of naturals that is not empty has a least element.
LEMMA LeastNatural ==
  ASSUME NEW T, T \subseteq Nat, T # {}
  PROVE  \E x \in T : \A y \in T : x <= y
<1>1. IsWellFoundedOn(Below, Nat)
  BY NatLessThanWellFounded DEF OpToRel, Below
<1>2. PICK x \in T : \A y \in T : ~(<<y, x>> \in Below)
  BY <1>1, WFMin
<1>3. ASSUME NEW y \in T
      PROVE  x <= y
  <2>1. <<y, x>> \in Nat \X Nat /\ x \in Nat /\ y \in Nat
    OBVIOUS
  <2>2. ~(y < x)
    BY <1>2, <2>1 DEF Below
  <2>3. QED
    BY <2>1, <2>2
<1>4. QED
  BY <1>3

\* Induction: a set with 0 and every successor of its members has every natural.
LEMMA SetInduction ==
  ASSUME NEW S, 0 \in S, \A n \in Nat : n \in S => n + 1 \in S
  PROVE  Nat \subseteq S
<1>1. SUFFICES ASSUME Nat \ S # {} PROVE FALSE
  OBVIOUS
<1>2. PICK x \in Nat \ S : \A y \in Nat \ S : x <= y
  BY <1>1, LeastNatural
<1>3. x # 0 /\ x - 1 \in Nat
  BY <1>2
<1>4. x - 1 \in S
  BY <1>2, <1>3
<1>5. QED
  BY <1>2, <1>3, <1>4

\* The first place of a set.
LEMMA ForemostIs ==
  ASSUME NEW S, S \subseteq Nat, S # {}
  PROVE  Foremost(S) \in S /\ \A j \in S : Foremost(S) <= j
BY LeastNatural DEF Foremost

LEMMA ForemostAt ==
  ASSUME NEW S, S \subseteq Nat, NEW i \in S, \A j \in S : i <= j
  PROVE  Foremost(S) = i
<1>1. Foremost(S) \in S /\ \A j \in S : Foremost(S) <= j
  BY ForemostIs
<1>2. Foremost(S) <= i /\ i <= Foremost(S) /\ i \in Nat /\ Foremost(S) \in Nat
  BY <1>1
<1>3. QED
  BY <1>2

\* And the last one.
LEMMA LastPlace ==
  ASSUME NEW n \in Nat, NEW S, S \subseteq 1..n, S # {}
  PROVE  \E x \in S : \A y \in S : y <= x
<1> DEFINE T == {k \in Nat : n - k \in S}
<1>1. PICK s : s \in S
  OBVIOUS
<1>2. s \in 1..n /\ n - s \in Nat /\ n - (n - s) = s
  BY <1>1
<1>3. T # {}
  BY <1>1, <1>2
<1>4. PICK k \in T : \A j \in T : k <= j
  BY <1>3, LeastNatural
<1>5. ASSUME NEW y \in S
      PROVE  y <= n - k
  <2>1. y \in 1..n /\ n - y \in Nat /\ n - (n - y) = y
    OBVIOUS
  <2>2. n - y \in T
    BY <2>1
  <2>3. k \in Nat /\ k <= n - y
    BY <1>4, <2>2
  <2>4. QED
    BY <2>1, <2>3
<1>6. QED
  BY <1>4, <1>5

\* Texts of lexemes.
Lexed == Seq(Lexemes)

LEMMA SameText ==
  ASSUME NEW s \in Lexed, NEW t \in Lexed, Len(s) = Len(t), \A i \in 1..Len(s) : s[i] = t[i]
  PROVE  s = t
BY DEF Lexed

\* t is what s has from place a to place b.
IsPiece(t, s, a, b) ==
  t \in Lexed /\ Len(t) = b - a + 1 /\ \A k \in 1..(b - a + 1) : t[k] = s[a + k - 1]

LEMMA PieceIs ==
  ASSUME NEW s \in Lexed, NEW a \in 1..(Len(s) + 1), NEW b \in (a - 1)..Len(s)
  PROVE  IsPiece(SubSeq(s, a, b), s, a, b)
<1>1. Len(s) \in Nat /\ \A i \in 1..Len(s) : s[i] \in Lexemes
  BY DEF Lexed
<1>2. \A i \in a..b : i \in 1..Len(s)
  BY <1>1
<1>3. SubSeq(s, a, b) \in Seq(Lexemes)
  BY <1>1, <1>2, SubSeqProperties DEF Lexed
<1>4. Len(SubSeq(s, a, b)) = b - a + 1
  BY <1>1, <1>2, SubSeqProperties DEF Lexed
<1>5. \A k \in 1..(b - a + 1) : SubSeq(s, a, b)[k] = s[a + k - 1]
  BY <1>1, <1>2, SubSeqProperties DEF Lexed
<1>6. QED
  BY <1>3, <1>4, <1>5 DEF IsPiece, Lexed

\* What Trimmed leaves: nothing of a text of newlines, else what is between the first
\* and the last place that are none.
Inked(s) == s # <<>> => s[1] # Newline /\ s[Len(s)] # Newline
Empty(s) == \A i \in 1..Len(s) : s[i] = Newline

LEMMA TrimmedIs ==
  ASSUME NEW s \in Lexed
  PROVE  \/ Trimmed(s) = <<>> /\ Empty(s)
         \/ \E a \in 1..Len(s), b \in 1..Len(s) :
              /\ a <= b /\ s[a] # Newline /\ s[b] # Newline
              /\ \A i \in 1..Len(s) : s[i] # Newline => a <= i /\ i <= b
              /\ Trimmed(s) = SubSeq(s, a, b)
<1> DEFINE inked == {i \in DOMAIN s : s[i] # Newline}
           final == CHOOSE i \in inked : \A j \in inked : j <= i
<1>1. DOMAIN s = 1..Len(s) /\ Len(s) \in Nat /\ inked \subseteq 1..Len(s) /\ inked \subseteq Nat
  BY DEF Lexed
<1>2. CASE inked = {}
  BY <1>1, <1>2 DEF Trimmed, Empty
<1>3. CASE inked # {}
  <2>1. Trimmed(s) = SubSeq(s, Foremost(inked), final)
    BY <1>3 DEF Trimmed
  <2>2. \A i \in 1..Len(s) : s[i] # Newline <=> i \in inked
    BY <1>1
  <2> HIDE DEF inked
  <2>3. Foremost(inked) \in inked /\ \A j \in inked : Foremost(inked) <= j
    BY <1>1, <1>3, ForemostIs
  <2>4. final \in inked /\ \A j \in inked : j <= final
    BY <1>1, <1>3, LastPlace
  <2> HIDE DEF final
  <2>5. PICK a, b : a = Foremost(inked) /\ b = final
    OBVIOUS
  <2>6. a \in 1..Len(s) /\ b \in 1..Len(s) /\ a <= b
    BY <1>1, <2>3, <2>4, <2>5
  <2>7. s[a] # Newline /\ s[b] # Newline
    BY <2>2, <2>3, <2>4, <2>5, <2>6
  <2>8. \A i \in 1..Len(s) : s[i] # Newline => a <= i /\ i <= b
    BY <2>2, <2>3, <2>4, <2>5
  <2>9. Trimmed(s) = SubSeq(s, a, b)
    BY <2>1, <2>5
  <2>10. QED
    BY <2>6, <2>7, <2>8, <2>9
<1>4. QED
  BY <1>2, <1>3

LEMMA EmptyText == <<>> \in Lexed /\ Inked(<<>>) /\ Empty(<<>>) /\ Len(<<>>) = 0
BY DEF Lexed, Inked, Empty

LEMMA TrimmedText ==
  ASSUME NEW s \in Lexed
  PROVE  /\ Trimmed(s) \in Lexed /\ Inked(Trimmed(s))
         /\ Trimmed(s) = <<>> \/ \E a \in 1..Len(s), b \in 1..Len(s) :
                                   a <= b /\ IsPiece(Trimmed(s), s, a, b)
<1>1. CASE Trimmed(s) = <<>>
  BY <1>1, EmptyText
<1>2. CASE Trimmed(s) # <<>>
  <2>1. PICK a \in 1..Len(s), b \in 1..Len(s) :
          a <= b /\ s[a] # Newline /\ s[b] # Newline /\ Trimmed(s) = SubSeq(s, a, b)
    BY <1>2, TrimmedIs
  <2>2. Len(s) \in Nat /\ a \in 1..(Len(s) + 1) /\ b \in (a - 1)..Len(s)
    BY <2>1 DEF Lexed
  <2>3. IsPiece(Trimmed(s), s, a, b)
    BY <2>1, <2>2, PieceIs
  <2>4. PICK t : t = Trimmed(s)
    OBVIOUS
  <2>5. t \in Lexed /\ Len(t) = b - a + 1 /\ \A k \in 1..(b - a + 1) : t[k] = s[a + k - 1]
    BY <2>3, <2>4 DEF IsPiece
  <2>6. 1 \in 1..(b - a + 1) /\ b - a + 1 \in 1..(b - a + 1) /\ a + 1 - 1 = a
        /\ a + (b - a + 1) - 1 = b
    BY <2>1, <2>2
  <2>7. t[1] = s[a] /\ t[Len(t)] = s[b]
    BY <2>5, <2>6
  <2>8. QED
    BY <2>1, <2>3, <2>4, <2>5, <2>7 DEF Inked
<1>3. QED
  BY <1>1, <1>2

\* A text with ink at both ends stays, whatever newlines follow it.
LEMMA TrimmedBack ==
  ASSUME NEW s \in Lexed, NEW t \in Lexed, Inked(t), Len(t) <= Len(s),
         \A i \in 1..Len(t) : s[i] = t[i],
         \A i \in (Len(t) + 1)..Len(s) : s[i] = Newline
  PROVE  Trimmed(s) = t
<1>1. Len(s) \in Nat /\ Len(t) \in Nat
  BY DEF Lexed
<1>2. CASE t = <<>>
  <2>1. Empty(s)
    BY <1>1, <1>2, EmptyText DEF Empty
  <2>2. Trimmed(s) = <<>>
    <3>1. SUFFICES ASSUME NEW a \in 1..Len(s), s[a] # Newline
                   PROVE  FALSE
      BY TrimmedIs
    <3>2. QED
      BY <2>1, <3>1 DEF Empty
  <2>3. QED
    BY <1>2, <2>2
<1>3. CASE t # <<>>
  <2>1. Len(t) >= 1 /\ t[1] # Newline /\ t[Len(t)] # Newline
    BY <1>1, <1>3 DEF Inked, Lexed
  <2>2. 1 \in 1..Len(t) /\ Len(t) \in 1..Len(t) /\ 1 \in 1..Len(s) /\ Len(t) \in 1..Len(s)
    BY <1>1, <2>1
  <2>3. s[1] # Newline /\ s[Len(t)] # Newline
    BY <2>1, <2>2
  <2>4. ~Empty(s)
    BY <2>2, <2>3 DEF Empty
  <2>5. PICK a \in 1..Len(s), b \in 1..Len(s) :
          /\ s[a] # Newline /\ s[b] # Newline /\ Trimmed(s) = SubSeq(s, a, b)
          /\ \A i \in 1..Len(s) : s[i] # Newline => a <= i /\ i <= b
    BY <2>4, TrimmedIs
  <2>6. a <= 1 /\ Len(t) <= b
    BY <2>2, <2>3, <2>5
  <2>7. ~(b > Len(t))
    BY <1>1, <2>5
  <2>8. a = 1 /\ b = Len(t)
    BY <1>1, <2>5, <2>6, <2>7
  <2>9. IsPiece(Trimmed(s), s, 1, Len(t))
    <3>1. 1 \in 1..(Len(s) + 1) /\ Len(t) \in (1 - 1)..Len(s)
      BY <1>1, <2>2
    <3>2. QED
      BY <2>5, <2>8, <3>1, PieceIs
  <2>10. PICK r : r = Trimmed(s)
    OBVIOUS
  <2>11. r \in Lexed /\ Len(r) = Len(t) /\ \A k \in 1..Len(t) : r[k] = s[k]
    <3>1. Len(t) - 1 + 1 = Len(t) /\ \A k \in 1..Len(t) : 1 + k - 1 = k
      BY <1>1
    <3>2. QED
      BY <2>9, <2>10, <3>1 DEF IsPiece
  <2>12. r = t
    BY <2>11, SameText
  <2>13. QED
    BY <2>10, <2>12
<1>4. QED
  BY <1>2, <1>3

LEMMA TrimmedTwice ==
  ASSUME NEW t \in Lexed, Inked(t)
  PROVE  Trimmed(t) = t
<1>1. Len(t) \in Nat
  BY DEF Lexed
<1>2. Len(t) <= Len(t) /\ \A i \in (Len(t) + 1)..Len(t) : FALSE
  BY <1>1
<1>3. QED
  BY <1>2, TrimmedBack

\* A fence: the next one at place o, its name ends at n, its body at c, itself at e.
FenceAt(s, i, o, n, c, e) ==
  /\ o \in i..Len(s) /\ s[o] = Open /\ \A j \in i..(o - 1) : s[j] # Open
  /\ n \in (o + 1)..Len(s) /\ s[n] = ">" /\ \A j \in (o + 1)..(n - 1) : s[j] # ">"
  /\ c \in (n + 1)..(Len(s) - 1) /\ s[c] = Shut /\ s[c + 1] \in {">", ":"}
  /\ \A j \in (n + 1)..(c - 1) : s[j] = Shut => s[j + 1] \notin {">", ":"}
  /\ e \in (c + 1)..Len(s) /\ s[e] = ">" /\ \A j \in (c + 1)..(e - 1) : s[j] # ">"

\* What is read of it.
NameAt(s, o, n) == Trimmed(SubSeq(s, o + 1, n - 1))
CallAt(s, o, n, c) == Call(NameAt(s, o, n), InputOf(SubSeq(s, n + 1, c - 1)))
ReadAs(s, from, i, o, n, c, e) ==
  [text  |-> SubSeq(s, i, o - 1) \o from[e + 1].text,
   calls |-> (IF NameAt(s, o, n) = <<>> THEN <<>> ELSE <<CallAt(s, o, n, c)>>)
               \o from[e + 1].calls]

LEMMA PlacesOf ==
  ASSUME NEW s \in Lexed, NEW t
  PROVE  /\ Places(s, t) \subseteq Nat /\ Len(s) \in Nat
         /\ \A i : i \in Places(s, t) <=> i \in 1..Len(s) /\ s[i] = t
BY DEF Places, Lexed

LEMMA TagEndsOf ==
  ASSUME NEW s \in Lexed, NEW o \in Nat
  PROVE  /\ TagEnds(s, o) \subseteq Nat
         /\ \A j : j \in TagEnds(s, o) <=> j \in 1..Len(s) /\ s[j] = ">" /\ j > o
<1>1. \A j : j \in TagEnds(s, o) <=> j \in Places(s, ">") /\ j > o
  BY DEF TagEnds
<1>2. QED
  BY <1>1, PlacesOf

LEMMA ClosesOf ==
  ASSUME NEW s \in Lexed, NEW i \in Nat
  PROVE  /\ Closes(s, i) \subseteq Nat
         /\ \A c : c \in Closes(s, i) <=>
              /\ c \in 1..(Len(s) - 1) /\ c >= i /\ s[c] = Shut
              /\ s[c + 1] = ">" \/ (s[c + 1] = ":" /\ TagEnds(s, c) # {})
<1>1. \A c : c \in Closes(s, i) <=>
        /\ c \in Places(s, Shut) /\ c >= i /\ c < Len(s)
        /\ s[c + 1] = ">" \/ (s[c + 1] = ":" /\ TagEnds(s, c) # {})
  BY DEF Closes, TagEnds
<1>2. Len(s) \in Nat /\ \A c : c \in Places(s, Shut) <=> c \in 1..Len(s) /\ s[c] = Shut
  BY PlacesOf
<1>3. \A c : c \in 1..(Len(s) - 1) <=> c \in 1..Len(s) /\ c < Len(s)
  BY <1>2
<1>4. Closes(s, i) \subseteq Nat
  BY <1>1, <1>2
<1>5. QED
  BY <1>1, <1>2, <1>3, <1>4

\* The fence that Read finds is the one at these places.
LEMMA FenceRead ==
  ASSUME NEW s \in Lexed, NEW i \in 1..(Len(s) + 1), NEW o, NEW n, NEW c, NEW e,
         FenceAt(s, i, o, n, c, e), NEW from
  PROVE  Read(s, from, i) = ReadAs(s, from, i, o, n, c, e)
<1> DEFINE opens == {x \in Places(s, Open) : x >= i}
<1>1. Len(s) \in Nat /\ i \in Nat \ {0} /\ o \in Nat /\ n \in Nat /\ c \in Nat /\ e \in Nat
      /\ n + 1 \in Nat
  BY DEF FenceAt, Lexed
<1>2. o \in opens /\ Foremost(opens) = o
  <2>1. opens \subseteq Nat /\ \A x : x \in opens <=> x \in 1..Len(s) /\ s[x] = Open /\ x >= i
    BY PlacesOf
  <2> HIDE DEF opens
  <2>2. o \in 1..Len(s) /\ s[o] = Open /\ o >= i
    BY <1>1 DEF FenceAt
  <2>3. o \in opens
    BY <2>1, <2>2
  <2>4. ASSUME NEW x \in opens
        PROVE  o <= x
    <3>1. x \in Nat /\ s[x] = Open /\ x >= i
      BY <2>1
    <3>2. ~(x \in i..(o - 1))
      BY <3>1 DEF FenceAt
    <3>3. QED
      BY <1>1, <3>1, <3>2
  <2>5. QED
    BY <2>1, <2>3, <2>4, ForemostAt
<1>3. n \in TagEnds(s, o) /\ Foremost(TagEnds(s, o)) = n
  <2>1. n \in 1..Len(s) /\ s[n] = ">" /\ n > o
    BY <1>1 DEF FenceAt
  <2>2. n \in TagEnds(s, o) /\ TagEnds(s, o) \subseteq Nat
    BY <1>1, <2>1, TagEndsOf
  <2>3. ASSUME NEW x \in TagEnds(s, o)
        PROVE  n <= x
    <3>1. x \in Nat /\ s[x] = ">" /\ x > o
      BY <1>1, TagEndsOf
    <3>2. ~(x \in (o + 1)..(n - 1))
      BY <3>1 DEF FenceAt
    <3>3. QED
      BY <1>1, <3>1, <3>2
  <2>4. QED
    BY <2>2, <2>3, ForemostAt
<1>4. e \in TagEnds(s, c) /\ Foremost(TagEnds(s, c)) = e
  <2>1. e \in 1..Len(s) /\ s[e] = ">" /\ e > c
    BY <1>1 DEF FenceAt
  <2>2. e \in TagEnds(s, c) /\ TagEnds(s, c) \subseteq Nat
    BY <1>1, <2>1, TagEndsOf
  <2>3. ASSUME NEW x \in TagEnds(s, c)
        PROVE  e <= x
    <3>1. x \in Nat /\ s[x] = ">" /\ x > c
      BY <1>1, TagEndsOf
    <3>2. ~(x \in (c + 1)..(e - 1))
      BY <3>1 DEF FenceAt
    <3>3. QED
      BY <1>1, <3>1, <3>2
  <2>4. QED
    BY <2>2, <2>3, ForemostAt
<1>5. c \in Closes(s, n + 1) /\ Foremost(Closes(s, n + 1)) = c
  <2>1. c \in 1..(Len(s) - 1) /\ c >= n + 1 /\ s[c] = Shut /\ s[c + 1] \in {">", ":"}
    BY <1>1 DEF FenceAt
  <2>2. c \in Closes(s, n + 1) /\ Closes(s, n + 1) \subseteq Nat
    BY <1>1, <1>4, <2>1, ClosesOf
  <2>3. ASSUME NEW x \in Closes(s, n + 1)
        PROVE  c <= x
    <3>1. x \in Nat /\ s[x] = Shut /\ x >= n + 1 /\ s[x + 1] \in {">", ":"}
      BY <1>1, ClosesOf
    <3>2. ~(x \in (n + 1)..(c - 1))
      BY <3>1 DEF FenceAt
    <3>3. QED
      BY <1>1, <3>1, <3>2
  <2>4. QED
    BY <2>2, <2>3, ForemostAt
<1>6. After(s, c) = e + 1
  BY <1>4 DEF After
<1>7. Read(s, from, i) =
        [text  |-> SubSeq(s, i, o - 1) \o from[e + 1].text,
         calls |-> (IF NameAt(s, o, n) = <<>> THEN <<>> ELSE <<CallAt(s, o, n, c)>>)
                     \o from[e + 1].calls]
  BY <1>2, <1>3, <1>5, <1>6 DEF Read, NameAt, CallAt
<1>8. QED
  BY <1>7 DEF ReadAs

\* Where there is no fence the rest is text.
LEMMA NothingRead ==
  ASSUME NEW s \in Lexed, NEW i \in 1..(Len(s) + 1), NEW from,
         \A o, n, c, e : ~FenceAt(s, i, o, n, c, e)
  PROVE  Read(s, from, i) = [text |-> SubSeq(s, i, Len(s)), calls |-> <<>>]
<1> DEFINE opens == {x \in Places(s, Open) : x >= i}
           o == Foremost(opens)
           n == Foremost(TagEnds(s, o))
           c == Foremost(Closes(s, n + 1))
           e == Foremost(TagEnds(s, c))
<1>1. SUFFICES ASSUME opens # {}, TagEnds(s, o) # {}, Closes(s, n + 1) # {}
               PROVE  FALSE
  BY DEF Read
<1>2. opens \subseteq Nat /\ \A x : x \in opens <=> x \in 1..Len(s) /\ s[x] = Open /\ x >= i
  BY PlacesOf
<1> HIDE DEF opens
<1>3. o \in opens /\ \A x \in opens : o <= x
  BY <1>1, <1>2, ForemostIs
<1> HIDE DEF o
<1>4. o \in Nat /\ i \in Nat \ {0} /\ Len(s) \in Nat /\ o \in i..Len(s) /\ s[o] = Open
  BY <1>2, <1>3 DEF Lexed
<1>5. \A j \in i..(o - 1) : s[j] # Open
  BY <1>2, <1>3, <1>4
<1>6. n \in TagEnds(s, o) /\ \A x \in TagEnds(s, o) : n <= x
  BY <1>1, <1>4, TagEndsOf, ForemostIs
<1> HIDE DEF n
<1>7. n \in Nat /\ n \in (o + 1)..Len(s) /\ s[n] = ">" /\ n + 1 \in Nat
  BY <1>4, <1>6, TagEndsOf
<1>8. \A j \in (o + 1)..(n - 1) : s[j] # ">"
  <2>1. ASSUME NEW j \in (o + 1)..(n - 1), s[j] = ">"
        PROVE  FALSE
    <3>1. j \in 1..Len(s) /\ j > o /\ ~(n <= j)
      BY <1>4, <1>7
    <3>2. j \in TagEnds(s, o)
      BY <1>4, <2>1, <3>1, TagEndsOf
    <3>3. QED
      BY <1>6, <3>1, <3>2
  <2>2. QED
    BY <2>1
<1>9. c \in Closes(s, n + 1) /\ \A x \in Closes(s, n + 1) : c <= x
  BY <1>1, <1>7, ClosesOf, ForemostIs
<1> HIDE DEF c
<1>10. /\ c \in 1..(Len(s) - 1) /\ c >= n + 1 /\ s[c] = Shut
       /\ s[c + 1] = ">" \/ (s[c + 1] = ":" /\ TagEnds(s, c) # {})
  BY <1>7, <1>9, ClosesOf
<1>11. c \in Nat /\ c \in (n + 1)..(Len(s) - 1) /\ c + 1 \in 1..Len(s) /\ c + 1 > c
  BY <1>4, <1>7, <1>10
<1>12. TagEnds(s, c) # {}
  BY <1>10, <1>11, TagEndsOf
<1>13. e \in TagEnds(s, c) /\ \A x \in TagEnds(s, c) : e <= x
  BY <1>11, <1>12, TagEndsOf, ForemostIs
<1> HIDE DEF e
<1>14. e \in Nat /\ e \in (c + 1)..Len(s) /\ s[e] = ">"
  BY <1>4, <1>11, <1>13, TagEndsOf
<1>15. \A j \in (c + 1)..(e - 1) : s[j] # ">"
  <2>1. ASSUME NEW j \in (c + 1)..(e - 1), s[j] = ">"
        PROVE  FALSE
    <3>1. j \in 1..Len(s) /\ j > c /\ ~(e <= j)
      BY <1>4, <1>11, <1>14
    <3>2. j \in TagEnds(s, c)
      BY <1>11, <2>1, <3>1, TagEndsOf
    <3>3. QED
      BY <1>13, <3>1, <3>2
  <2>2. QED
    BY <2>1
<1>16. \A j \in (n + 1)..(c - 1) : s[j] = Shut => s[j + 1] \notin {">", ":"}
  <2>1. ASSUME NEW j \in (n + 1)..(c - 1), s[j] = Shut, s[j + 1] \in {">", ":"}
        PROVE  FALSE
    <3>1. j \in 1..(Len(s) - 1) /\ j >= n + 1 /\ ~(c <= j) /\ e > j /\ j \in Nat /\ e \in 1..Len(s)
      BY <1>4, <1>7, <1>11, <1>14
    <3>2. e \in TagEnds(s, j)
      BY <1>14, <3>1, TagEndsOf
    <3>3. j \in Closes(s, n + 1)
      BY <1>7, <2>1, <3>1, <3>2, ClosesOf
    <3>4. QED
      BY <1>9, <3>1, <3>3
  <2>2. QED
    BY <2>1
<1>17. FenceAt(s, i, o, n, c, e)
  BY <1>4, <1>5, <1>7, <1>8, <1>10, <1>11, <1>14, <1>15, <1>16 DEF FenceAt
<1>18. QED
  BY <1>17

\* Parse's recursive function.
Reads(f, s) == f = [i \in 1..(Len(s) + 1) |-> Read(s, f, i)]

\* Read looks at the places after i only.
LEMMA ReadAgrees ==
  ASSUME NEW s \in Lexed, NEW i \in 1..(Len(s) + 1), NEW f, NEW g,
         \A j \in (i + 1)..(Len(s) + 1) : f[j] = g[j]
  PROVE  Read(s, f, i) = Read(s, g, i)
<1>1. CASE \E o, n, c, e : FenceAt(s, i, o, n, c, e)
  <2>1. PICK o, n, c, e : FenceAt(s, i, o, n, c, e)
    BY <1>1
  <2>2. e + 1 \in (i + 1)..(Len(s) + 1)
    BY <2>1 DEF FenceAt, Lexed
  <2>3. ReadAs(s, f, i, o, n, c, e) = ReadAs(s, g, i, o, n, c, e)
    BY <2>2 DEF ReadAs
  <2>4. QED
    BY <2>1, <2>3, FenceRead
<1>2. CASE \A o, n, c, e : ~FenceAt(s, i, o, n, c, e)
  BY <1>2, NothingRead
<1>3. QED
  BY <1>1, <1>2

LEMMA ReadsExist ==
  ASSUME NEW s \in Lexed
  PROVE  \E f : Reads(f, s)
<1> DEFINE D == 1..(Len(s) + 1)
           IsFrom(f, m) == /\ f = [i \in D |-> f[i]]
                           /\ \A i \in D : i > Len(s) + 1 - m => f[i] = Read(s, f, i)
           S == {m \in Nat : m <= Len(s) + 1 => \E f : IsFrom(f, m)}
<1>1. Len(s) \in Nat
  BY DEF Lexed
<1>2. 0 \in S
  <2>1. \A i \in D : ~(i > Len(s) + 1 - 0)
    BY <1>1
  <2>2. IsFrom([i \in D |-> 0], 0)
    BY <2>1
  <2>3. QED
    BY <2>2
<1>3. ASSUME NEW m \in Nat, m \in S
      PROVE  m + 1 \in S
  <2>1. SUFFICES ASSUME m + 1 <= Len(s) + 1
                 PROVE  \E f : IsFrom(f, m + 1)
    OBVIOUS
  <2>2. PICK f : IsFrom(f, m)
    BY <1>1, <1>3, <2>1
  <2>3. PICK k \in D : k = Len(s) + 1 - m
    BY <1>1, <2>1
  <2> DEFINE g == [f EXCEPT ![k] = Read(s, f, k)]
  <2>4. g = [i \in D |-> g[i]] /\ g[k] = Read(s, f, k) /\ \A j \in D : j # k => g[j] = f[j]
    BY <2>2
  <2> HIDE DEF g
  <2>5. \A i \in D : i >= k => Read(s, f, i) = Read(s, g, i)
    <3>1. ASSUME NEW i \in D, i >= k
          PROVE  Read(s, f, i) = Read(s, g, i)
      <4>1. \A j \in (i + 1)..(Len(s) + 1) : j \in D /\ j # k
        <5>1. i \in Nat /\ k \in Nat
          OBVIOUS
        <5>2. \A j \in (i + 1)..(Len(s) + 1) : j \in Nat /\ j >= 1 /\ j > k
          BY <1>1, <3>1, <5>1
        <5>3. QED
          BY <1>1, <5>1, <5>2
      <4>2. \A j \in (i + 1)..(Len(s) + 1) : f[j] = g[j]
        BY <2>4, <4>1
      <4>3. QED
        BY <4>2, ReadAgrees
    <3>2. QED
      BY <3>1
  <2>6. ASSUME NEW i \in D, i > Len(s) + 1 - (m + 1)
        PROVE  g[i] = Read(s, g, i)
    <3>1. i >= k /\ (i # k => i > Len(s) + 1 - m)
      BY <1>1, <2>3, <2>6
    <3>2. CASE i = k
      BY <2>4, <2>5, <3>1, <3>2
    <3>3. CASE i # k
      BY <2>2, <2>4, <2>5, <3>1, <3>3
    <3>4. QED
      BY <3>2, <3>3
  <2>7. IsFrom(g, m + 1)
    BY <2>4, <2>6
  <2>8. QED
    BY <2>7
<1>4. Nat \subseteq S
  <2> HIDE DEF S
  <2>1. QED
    BY <1>2, <1>3, SetInduction
<1>5. Len(s) + 1 \in S
  BY <1>1, <1>4
<1>6. PICK f : IsFrom(f, Len(s) + 1)
  BY <1>1, <1>5
<1>7. \A i \in D : f[i] = Read(s, f, i)
  BY <1>1, <1>6
<1>8. f = [i \in D |-> Read(s, f, i)]
  <2>1. f = [i \in D |-> f[i]]
    BY <1>6
  <2>2. QED
    BY <1>7, <2>1
<1>9. QED
  BY <1>8 DEF Reads

LEMMA ParseReads ==
  ASSUME NEW s \in Lexed
  PROVE  \E f : Reads(f, s) /\ Parse(s) = [text |-> Trimmed(f[1].text), calls |-> f[1].calls]
<1> DEFINE f == CHOOSE f : Reads(f, s)
<1>1. Reads(f, s)
  BY ReadsExist
<1>2. Parse(s) = [text |-> Trimmed(f[1].text), calls |-> f[1].calls]
  BY DEF Parse, Reads
<1>3. QED
  BY <1>1, <1>2

LEMMA ReadsAt ==
  ASSUME NEW s, NEW f, Reads(f, s), NEW i \in 1..(Len(s) + 1)
  PROVE  f[i] = Read(s, f, i)
BY DEF Reads

-----------------------------------------------------------------------------
\* The calls a reply is found to hold: a name without the mark that ends it, and a body
\* that nothing in it closes, both without newlines around them.
GoodName(x)  == x # <<>> /\ Inked(x) /\ \A j \in 1..Len(x) : x[j] # ">"
GoodInput(x) == /\ x # <<>> /\ Inked(x)
                /\ \A j \in 1..(Len(x) - 1) : x[j] = Shut => x[j + 1] \notin {">", ":"}
GoodCalls == {c \in [name : Lexed, input : Lexed] : GoodName(c.name) /\ GoodInput(c.input)}
Readings  == [text : Lexed, calls : Seq(GoodCalls)]

LEMMA MarksDiffer ==
  /\ {"{", "}", Open, Shut, ">", Newline} \subseteq Lexemes
  /\ "{" # Newline /\ "}" # Newline /\ "{" # Shut /\ Open # Newline /\ Open # ">"
  /\ Open # Shut /\ ">" # Newline /\ Shut # Newline
BY DEF Lexemes, Marks, Open, Shut, Newline

LEMMA InputIsGood ==
  ASSUME NEW s \in Lexed, \A j \in 1..(Len(s) - 1) : s[j] = Shut => s[j + 1] \notin {">", ":"}
  PROVE  InputOf(s) \in Lexed /\ GoodInput(InputOf(s))
<1>1. CASE Trimmed(s) = <<>>
  <2>1. InputOf(s) = <<"{", "}">>
    BY <1>1 DEF InputOf
  <2>2. PICK x, y : x = "{" /\ y = "}"
    OBVIOUS
  <2>a. PICK t : t = <<x, y>>
    OBVIOUS
  <2>b. x \in Lexemes /\ y \in Lexemes /\ x # Newline /\ y # Newline
    BY <2>2, MarksDiffer
  <2>3. t \in Lexed /\ Len(t) = 2 /\ t[1] = x /\ t[2] = y
    BY <2>a, <2>b DEF Lexed
  <2>4. t # <<>> /\ Inked(t)
    <3>1. Len(t) # Len(<<>>)
      BY <2>3, EmptyText
    <3>2. QED
      BY <2>b, <2>3, <3>1 DEF Inked
  <2>5. \A j \in 1..(Len(t) - 1) : t[j] # Shut
    <3>1. \A j \in 1..(2 - 1) : j = 1
      OBVIOUS
    <3>2. QED
      BY <2>2, <2>3, <3>1, MarksDiffer
  <2>6. QED
    BY <2>1, <2>2, <2>a, <2>3, <2>4, <2>5 DEF GoodInput
<1>2. CASE Trimmed(s) # <<>>
  <2>1. PICK t : t = Trimmed(s)
    OBVIOUS
  <2>2. t \in Lexed /\ Inked(t) /\ t # <<>> /\ InputOf(s) = t
    BY <1>2, <2>1, TrimmedText DEF InputOf
  <2>3. PICK a \in 1..Len(s), b \in 1..Len(s) : a <= b /\ IsPiece(t, s, a, b)
    BY <1>2, <2>1, TrimmedText
  <2>4. Len(s) \in Nat /\ Len(t) = b - a + 1 /\ \A k \in 1..Len(t) : t[k] = s[a + k - 1]
    BY <2>3 DEF IsPiece, Lexed
  <2>5. ASSUME NEW j \in 1..(Len(t) - 1), t[j] = Shut
        PROVE  t[j + 1] \notin {">", ":"}
    <3>1. PICK k : k = a + j - 1
      OBVIOUS
    <3>2. j \in 1..Len(t) /\ j + 1 \in 1..Len(t) /\ k \in 1..(Len(s) - 1) /\ a + (j + 1) - 1 = k + 1
      BY <2>3, <2>4, <3>1
    <3>3. t[j] = s[k] /\ t[j + 1] = s[k + 1]
      BY <2>4, <3>1, <3>2
    <3>4. QED
      BY <2>5, <3>2, <3>3
  <2>6. QED
    BY <2>2, <2>5 DEF GoodInput
<1>3. QED
  BY <1>1, <1>2

LEMMA NameIsGood ==
  ASSUME NEW s \in Lexed, \A j \in 1..Len(s) : s[j] # ">", Trimmed(s) # <<>>
  PROVE  Trimmed(s) \in Lexed /\ GoodName(Trimmed(s))
<1>1. PICK t : t = Trimmed(s)
  OBVIOUS
<1>2. t \in Lexed /\ Inked(t) /\ t # <<>>
  BY <1>1, TrimmedText
<1>3. PICK a \in 1..Len(s), b \in 1..Len(s) : a <= b /\ IsPiece(t, s, a, b)
  BY <1>1, TrimmedText
<1>4. Len(s) \in Nat /\ Len(t) = b - a + 1 /\ \A k \in 1..Len(t) : t[k] = s[a + k - 1]
  BY <1>3 DEF IsPiece, Lexed
<1>5. \A k \in 1..Len(t) : a + k - 1 \in 1..Len(s)
  BY <1>3, <1>4
<1>6. QED
  BY <1>1, <1>2, <1>4, <1>5 DEF GoodName

\* u is s with t after it.
IsConcat(u, s, t, T) ==
  /\ u \in Seq(T) /\ Len(u) = Len(s) + Len(t)
  /\ \A i \in 1..Len(s) : u[i] = s[i]
  /\ \A i \in 1..Len(t) : u[Len(s) + i] = t[i]

LEMMA ConcatIs ==
  ASSUME NEW T, NEW s \in Seq(T), NEW t \in Seq(T)
  PROVE  IsConcat(s \o t, s, t, T)
<1>1. s \o t \in Seq(T)
  OBVIOUS
<1>2. Len(s \o t) = Len(s) + Len(t)
  OBVIOUS
<1>3. \A i \in 1..Len(s) : (s \o t)[i] = s[i]
  OBVIOUS
<1>4. \A i \in 1..Len(t) : (s \o t)[Len(s) + i] = t[i]
  OBVIOUS
<1>5. QED
  BY <1>1, <1>2, <1>3, <1>4 DEF IsConcat

\* Everything read is text and good calls.
LEMMA ReadType ==
  ASSUME NEW s \in Lexed, NEW i \in 1..(Len(s) + 1), NEW from,
         \A j \in (i + 1)..(Len(s) + 1) : from[j] \in Readings
  PROVE  Read(s, from, i) \in Readings
<1>1. Len(s) \in Nat
  BY DEF Lexed
<1>2. CASE \A o, n, c, e : ~FenceAt(s, i, o, n, c, e)
  <2>1. Read(s, from, i) = [text |-> SubSeq(s, i, Len(s)), calls |-> <<>>]
    BY <1>2, NothingRead
  <2>2. i \in 1..(Len(s) + 1) /\ Len(s) \in (i - 1)..Len(s)
    BY <1>1
  <2>3. SubSeq(s, i, Len(s)) \in Lexed
    BY <2>2, PieceIs DEF IsPiece
  <2>4. QED
    BY <2>1, <2>3 DEF Readings
<1>3. CASE \E o, n, c, e : FenceAt(s, i, o, n, c, e)
  <2>1. PICK o, n, c, e : FenceAt(s, i, o, n, c, e)
    BY <1>3
  <2>2. /\ o \in i..Len(s) /\ n \in (o + 1)..Len(s) /\ c \in (n + 1)..(Len(s) - 1)
        /\ e \in (c + 1)..Len(s)
        /\ \A j \in (o + 1)..(n - 1) : s[j] # ">"
        /\ \A j \in (n + 1)..(c - 1) : s[j] = Shut => s[j + 1] \notin {">", ":"}
    BY <2>1 DEF FenceAt
  <2>3. e + 1 \in (i + 1)..(Len(s) + 1)
    BY <1>1, <2>2
  <2>4. PICK rest \in Readings : rest = from[e + 1]
    BY <2>3
  <2>5. rest.text \in Lexed /\ rest.calls \in Seq(GoodCalls)
    BY <2>4 DEF Readings
  <2>6. SubSeq(s, i, o - 1) \in Lexed
    <3>1. o - 1 \in (i - 1)..Len(s)
      BY <1>1, <2>2
    <3>2. QED
      BY <3>1, PieceIs DEF IsPiece
  <2>7. SubSeq(s, i, o - 1) \o rest.text \in Lexed
    BY <2>5, <2>6, ConcatIs DEF IsConcat, Lexed
  <2>8. NameAt(s, o, n) # <<>> => NameAt(s, o, n) \in Lexed /\ GoodName(NameAt(s, o, n))
    <3>1. PICK t : t = SubSeq(s, o + 1, n - 1)
      OBVIOUS
    <3>2. o + 1 \in 1..(Len(s) + 1) /\ n - 1 \in ((o + 1) - 1)..Len(s)
      BY <1>1, <2>2
    <3>3. IsPiece(t, s, o + 1, n - 1)
      BY <3>1, <3>2, PieceIs
    <3>4. t \in Lexed /\ Len(t) = n - 1 - (o + 1) + 1
          /\ \A k \in 1..(n - 1 - (o + 1) + 1) : t[k] = s[o + 1 + k - 1]
      BY <3>3 DEF IsPiece
    <3>5. \A k \in 1..Len(t) : o + 1 + k - 1 \in (o + 1)..(n - 1) /\ t[k] = s[o + 1 + k - 1]
      BY <1>1, <2>2, <3>4
    <3>6. \A k \in 1..Len(t) : t[k] # ">"
      BY <2>2, <3>5
    <3>7. QED
      BY <3>1, <3>4, <3>6, NameIsGood DEF NameAt
  <2>9. PICK body : body = SubSeq(s, n + 1, c - 1)
    OBVIOUS
  <2>10. InputOf(body) \in Lexed /\ GoodInput(InputOf(body))
    <3>1. n + 1 \in 1..(Len(s) + 1) /\ c - 1 \in ((n + 1) - 1)..Len(s)
      BY <1>1, <2>2
    <3>2. IsPiece(body, s, n + 1, c - 1)
      BY <2>9, <3>1, PieceIs
    <3>3. body \in Lexed /\ Len(body) = c - 1 - (n + 1) + 1
          /\ \A k \in 1..(c - 1 - (n + 1) + 1) : body[k] = s[n + 1 + k - 1]
      BY <3>2 DEF IsPiece
    <3>4. ASSUME NEW j \in 1..(Len(body) - 1), body[j] = Shut
          PROVE  body[j + 1] \notin {">", ":"}
      <4>1. PICK k : k = n + 1 + j - 1
        OBVIOUS
      <4>2. k \in (n + 1)..(c - 1) /\ n + 1 + (j + 1) - 1 = k + 1
            /\ j \in 1..(c - 1 - (n + 1) + 1) /\ j + 1 \in 1..(c - 1 - (n + 1) + 1)
        BY <1>1, <2>2, <3>3, <4>1
      <4>3. body[j] = s[k] /\ body[j + 1] = s[k + 1]
        BY <3>3, <4>1, <4>2
      <4>4. QED
        BY <2>2, <3>4, <4>2, <4>3
    <3>5. QED
      BY <3>3, <3>4, InputIsGood
  <2>11. PICK calls : calls = IF NameAt(s, o, n) = <<>> THEN <<>> ELSE <<CallAt(s, o, n, c)>>
    OBVIOUS
  <2>12. calls \in Seq(GoodCalls)
    <3>1. CASE NameAt(s, o, n) = <<>>
      BY <2>11, <3>1
    <3>2. CASE NameAt(s, o, n) # <<>>
      <4>1. PICK call : call = CallAt(s, o, n, c)
        OBVIOUS
      <4>2. call = [name |-> NameAt(s, o, n), input |-> InputOf(body)]
        BY <2>9, <4>1 DEF CallAt, Call
      <4>3. call \in GoodCalls
        BY <2>8, <2>10, <3>2, <4>2 DEF GoodCalls
      <4>4. calls = <<call>>
        BY <2>11, <3>2, <4>1
      <4>5. QED
        BY <4>3, <4>4
    <3>3. QED
      BY <3>1, <3>2
  <2>13. calls \o rest.calls \in Seq(GoodCalls)
    BY <2>5, <2>12, ConcatIs DEF IsConcat
  <2>14. Read(s, from, i) = [text |-> SubSeq(s, i, o - 1) \o rest.text, calls |-> calls \o rest.calls]
    <3>1. Read(s, from, i) = ReadAs(s, from, i, o, n, c, e)
      BY <2>1, FenceRead
    <3>2. QED
      BY <2>4, <2>11, <3>1 DEF ReadAs
  <2>15. QED
    BY <2>7, <2>13, <2>14 DEF Readings
<1>4. QED
  BY <1>2, <1>3

LEMMA ReadsType ==
  ASSUME NEW s \in Lexed, NEW f, Reads(f, s)
  PROVE  \A i \in 1..(Len(s) + 1) : f[i] \in Readings
<1> DEFINE D == 1..(Len(s) + 1)
           S == {m \in Nat : \A i \in D : i > Len(s) + 1 - m => f[i] \in Readings}
<1>1. Len(s) \in Nat
  BY DEF Lexed
<1>2. 0 \in S
  BY <1>1
<1>3. ASSUME NEW m \in Nat, m \in S
      PROVE  m + 1 \in S
  <2>1. SUFFICES ASSUME NEW i \in D, i > Len(s) + 1 - (m + 1)
                 PROVE  f[i] \in Readings
    OBVIOUS
  <2>2. \A j \in (i + 1)..(Len(s) + 1) : f[j] \in Readings
    <3>1. \A j \in (i + 1)..(Len(s) + 1) : j \in D /\ j > Len(s) + 1 - m
      BY <1>1, <2>1
    <3>2. QED
      BY <1>3, <3>1
  <2>3. QED
    BY <2>2, ReadType, ReadsAt
<1>4. Nat \subseteq S
  <2> HIDE DEF S
  <2>1. QED
    BY <1>2, <1>3, SetInduction
<1>5. Len(s) + 1 \in S
  BY <1>1, <1>4
<1>6. \A i \in D : i > Len(s) + 1 - (Len(s) + 1)
  BY <1>1
<1>7. QED
  BY <1>5, <1>6

\* What a reply is read as.
Heeds(text, calls) == text \in Lexed /\ Inked(text) /\ calls \in Seq(GoodCalls)

LEMMA ParseIsGood ==
  ASSUME NEW s \in Lexed
  PROVE  Heeds(Parse(s).text, Parse(s).calls)
<1>1. PICK f : Reads(f, s) /\ Parse(s) = [text |-> Trimmed(f[1].text), calls |-> f[1].calls]
  BY ParseReads
<1>2. 1 \in 1..(Len(s) + 1)
  BY DEF Lexed
<1>3. PICK r \in Readings : r = f[1]
  BY <1>1, <1>2, ReadsType
<1>4. r.text \in Lexed /\ r.calls \in Seq(GoodCalls)
  BY <1>3 DEF Readings
<1>5. Parse(s).text = Trimmed(r.text) /\ Parse(s).calls = r.calls
  BY <1>1, <1>3
<1>6. QED
  BY <1>4, <1>5, TrimmedText DEF Heeds

-----------------------------------------------------------------------------
\* A call's fence, place by place.
IsFence(t, name, input) ==
  /\ t \in Lexed /\ Len(t) = Len(name) + Len(input) + 4
  /\ t[1] = Open /\ \A j \in 1..Len(name) : t[1 + j] = name[j]
  /\ t[Len(name) + 2] = ">" /\ \A j \in 1..Len(input) : t[Len(name) + 2 + j] = input[j]
  /\ t[Len(name) + Len(input) + 3] = Shut /\ t[Len(name) + Len(input) + 4] = ">"

LEMMA OneLexeme ==
  ASSUME NEW x \in Lexemes
  PROVE  <<x>> \in Lexed /\ Len(<<x>>) = 1 /\ <<x>>[1] = x
BY DEF Lexed

LEMMA FenceIs ==
  ASSUME NEW name \in Lexed, NEW input \in Lexed
  PROVE  IsFence(Fence(Call(name, input)), name, input)
<1>1. PICK o, g, h : o = Open /\ g = ">" /\ h = Shut
  OBVIOUS
<1>2. o \in Lexemes /\ g \in Lexemes /\ h \in Lexemes
  BY <1>1, MarksDiffer
<1>3. Fence(Call(name, input)) = <<o>> \o name \o <<g>> \o input \o <<h, g>>
  BY <1>1 DEF Fence, Call
<1>4. PICK n, m \in Nat : n = Len(name) /\ m = Len(input)
  BY DEF Lexed
<1>5. PICK a : a = <<o>> \o name
  OBVIOUS
<1>6. a \in Lexed /\ Len(a) = n + 1 /\ a[1] = o /\ \A j \in 1..n : a[1 + j] = name[j]
  <2>1. IsConcat(a, <<o>>, name, Lexemes)
    BY <1>2, <1>5, OneLexeme, ConcatIs DEF Lexed
  <2>2. 1 \in 1..1
    OBVIOUS
  <2>3. QED
    BY <1>2, <1>4, <2>1, <2>2, OneLexeme DEF IsConcat, Lexed
<1>7. PICK b : b = a \o <<g>>
  OBVIOUS
<1>8. b \in Lexed /\ Len(b) = n + 2 /\ b[n + 2] = g /\ \A j \in 1..(n + 1) : b[j] = a[j]
  <2>1. IsConcat(b, a, <<g>>, Lexemes)
    BY <1>2, <1>6, <1>7, OneLexeme, ConcatIs DEF Lexed
  <2>2. 1 \in 1..1 /\ n + 1 + 1 = n + 2
    BY <1>4
  <2>3. b \in Lexed /\ Len(b) = Len(a) + 1 /\ \A j \in 1..Len(a) : b[j] = a[j]
    BY <1>2, <2>1, OneLexeme DEF IsConcat, Lexed
  <2>4. b[Len(a) + 1] = g
    BY <1>2, <2>1, <2>2, OneLexeme DEF IsConcat
  <2>5. QED
    BY <1>6, <2>2, <2>3, <2>4
<1>9. PICK d : d = b \o input
  OBVIOUS
<1>10. /\ d \in Lexed /\ Len(d) = n + m + 2
       /\ \A j \in 1..(n + 2) : d[j] = b[j]
       /\ \A j \in 1..m : d[n + 2 + j] = input[j]
  <2>1. IsConcat(d, b, input, Lexemes)
    BY <1>8, <1>9, ConcatIs DEF Lexed
  <2>2. n + 2 + m = n + m + 2
    BY <1>4
  <2>3. QED
    BY <1>4, <1>8, <2>1, <2>2 DEF IsConcat, Lexed
<1>11. PICK q : q = <<h, g>>
  OBVIOUS
<1>12. q \in Lexed /\ Len(q) = 2 /\ q[1] = h /\ q[2] = g
  BY <1>2, <1>11 DEF Lexed
<1>13. PICK t : t = d \o q
  OBVIOUS
<1>14. /\ t \in Lexed /\ Len(t) = n + m + 4
       /\ \A j \in 1..(n + m + 2) : t[j] = d[j]
       /\ t[n + m + 3] = h /\ t[n + m + 4] = g
  <2>1. IsConcat(t, d, q, Lexemes)
    BY <1>10, <1>12, <1>13, ConcatIs DEF Lexed
  <2>2. t \in Lexed /\ Len(t) = n + m + 2 + 2 /\ \A j \in 1..(n + m + 2) : t[j] = d[j]
    BY <1>10, <1>12, <2>1 DEF IsConcat, Lexed
  <2>3. 1 \in 1..2 /\ 2 \in 1..2
    OBVIOUS
  <2>4. t[n + m + 2 + 1] = h /\ t[n + m + 2 + 2] = g
    BY <1>10, <1>12, <2>1, <2>3 DEF IsConcat
  <2>5. n + m + 2 + 2 = n + m + 4 /\ n + m + 2 + 1 = n + m + 3
    BY <1>4
  <2>6. QED
    BY <2>2, <2>4, <2>5
<1>15. Fence(Call(name, input)) = t
  BY <1>3, <1>5, <1>7, <1>9, <1>11, <1>13
<1>16. t[1] = Open /\ t[n + 2] = ">"
  <2>1. 1 \in 1..(n + m + 2) /\ 1 \in 1..(n + 2) /\ 1 \in 1..(n + 1) /\ n + 2 \in 1..(n + m + 2)
        /\ n + 2 \in 1..(n + 2)
    BY <1>4
  <2>2. QED
    BY <1>1, <1>6, <1>8, <1>10, <1>14, <2>1
<1>17. ASSUME NEW j \in 1..n
       PROVE  t[1 + j] = name[j]
  <2>1. 1 + j \in 1..(n + m + 2) /\ 1 + j \in 1..(n + 2) /\ 1 + j \in 1..(n + 1)
    BY <1>4
  <2>2. QED
    BY <1>6, <1>8, <1>10, <1>14, <2>1
<1>18. ASSUME NEW j \in 1..m
       PROVE  t[n + 2 + j] = input[j]
  <2>1. n + 2 + j \in 1..(n + m + 2)
    BY <1>4
  <2>2. QED
    BY <1>10, <1>14, <2>1
<1>19. QED
  BY <1>1, <1>4, <1>14, <1>15, <1>16, <1>17, <1>18 DEF IsFence

LEMMA GoodFence ==
  ASSUME NEW call \in GoodCalls
  PROVE  Fence(call) \in Lexed /\ Len(Fence(call)) \in Nat
<1>1. call = [name |-> call.name, input |-> call.input] /\ call.name \in Lexed /\ call.input \in Lexed
  BY DEF GoodCalls
<1>2. call = Call(call.name, call.input)
  BY <1>1 DEF Call
<1>3. Fence(call) \in Lexed
  BY <1>1, <1>2, FenceIs DEF IsFence
<1>4. QED
  BY <1>3 DEF Lexed

\* t stands in s at place o.
StandsAt(t, s, o) == o - 1 + Len(t) <= Len(s) /\ \A j \in 1..Len(t) : s[o - 1 + j] = t[j]

\* r is the reading from place i of s where the next fence, at place o, is that call's.
FoundAs(r, s, i, o, call, rest) ==
  r.text = SubSeq(s, i, o - 1) \o rest.text /\ r.calls = <<call>> \o rest.calls

\* A fence of a good call is read as that call, whatever follows.
LEMMA FenceStands ==
  ASSUME NEW s \in Lexed, NEW i \in 1..(Len(s) + 1), NEW o \in Nat, o >= i, NEW call \in GoodCalls,
         StandsAt(Fence(call), s, o), \A j \in i..(o - 1) : s[j] # Open,
         NEW after, after = o + Len(Fence(call)), NEW from
  PROVE  FoundAs(Read(s, from, i), s, i, o, call, from[after])
<1>1. PICK name, input : /\ name \in Lexed /\ input \in Lexed /\ call = Call(name, input)
                         /\ GoodName(name) /\ GoodInput(input)
  <2>1. /\ call.name \in Lexed /\ call.input \in Lexed /\ GoodName(call.name) /\ GoodInput(call.input)
        /\ call = [name |-> call.name, input |-> call.input]
    BY DEF GoodCalls
  <2>2. QED
    BY <2>1 DEF Call
<1>2. PICK t : t = Fence(call)
  OBVIOUS
<1>3. IsFence(t, name, input)
  BY <1>1, <1>2, FenceIs
<1>4. PICK l, m, L \in Nat : l = Len(name) /\ m = Len(input) /\ L = Len(s)
  BY <1>1 DEF Lexed
<1>5. /\ Len(t) = l + m + 4
      /\ t[1] = Open /\ \A j \in 1..l : t[1 + j] = name[j]
      /\ t[l + 2] = ">" /\ \A j \in 1..m : t[l + 2 + j] = input[j]
      /\ t[l + m + 3] = Shut /\ t[l + m + 4] = ">"
  BY <1>3, <1>4 DEF IsFence
<1>6. o - 1 + (l + m + 4) <= L /\ \A j \in 1..(l + m + 4) : s[o - 1 + j] = t[j]
  BY <1>2, <1>4, <1>5 DEF StandsAt
<1>7. l >= 1 /\ m >= 1
  BY <1>1, <1>4 DEF GoodName, GoodInput, Lexed
<1> DEFINE n == o + l + 1
           c == o + l + m + 2
           e == o + l + m + 3
<1>8. s[o] = Open /\ s[n] = ">" /\ s[c] = Shut /\ s[e] = ">"
  <2>1. /\ 1 \in 1..(l + m + 4) /\ o - 1 + 1 = o
        /\ l + 2 \in 1..(l + m + 4) /\ o - 1 + (l + 2) = n
        /\ l + m + 3 \in 1..(l + m + 4) /\ o - 1 + (l + m + 3) = c
        /\ l + m + 4 \in 1..(l + m + 4) /\ o - 1 + (l + m + 4) = e
    BY <1>4
  <2> HIDE DEF n, c, e
  <2>2. QED
    BY <1>5, <1>6, <2>1
<1>9. ASSUME NEW j \in 1..l
      PROVE  s[o + j] = name[j]
  <2>1. 1 + j \in 1..(l + m + 4) /\ o - 1 + (1 + j) = o + j
    BY <1>4
  <2>2. s[o - 1 + (1 + j)] = t[1 + j]
    BY <1>6, <2>1
  <2>3. QED
    BY <1>5, <2>1, <2>2
<1>10. ASSUME NEW j \in 1..m
       PROVE  s[n + j] = input[j]
  <2>1. l + 2 + j \in 1..(l + m + 4) /\ o - 1 + (l + 2 + j) = n + j
    BY <1>4
  <2> HIDE DEF n
  <2>2. s[o - 1 + (l + 2 + j)] = t[l + 2 + j]
    BY <1>6, <2>1
  <2>3. QED
    BY <1>5, <2>1, <2>2
<1>11. /\ o \in i..L /\ n \in (o + 1)..L /\ c \in (n + 1)..(L - 1) /\ e \in (c + 1)..L
       /\ c + 1 = e /\ n \in Nat /\ c \in Nat
       /\ n - 1 = o + l /\ c - 1 = n + m /\ i \in Nat \ {0}
  BY <1>4, <1>6, <1>7
<1>a. PICK nn, cc, ee : nn = n /\ cc = c /\ ee = e
  OBVIOUS
<1>b. e + 1 = o + (l + m + 4)
  BY <1>4
<1> HIDE DEF n, c, e
<1>c. /\ i <= o /\ o < n /\ n < c /\ c < e /\ e <= L
      /\ n \in Nat /\ c \in Nat /\ e \in Nat
  BY <1>11
<1>12. \A j \in (o + 1)..(n - 1) : s[j] # ">"
  <2>1. ASSUME NEW j \in (o + 1)..(n - 1)
        PROVE  s[j] # ">"
    <3>1. PICK k \in 1..l : j = o + k
      <4>1. j - o \in 1..l /\ o + (j - o) = j
        BY <1>4, <1>11
      <4>2. QED
        BY <4>1
    <3>2. s[j] = name[k] /\ name[k] # ">"
      BY <1>1, <1>4, <1>9, <3>1 DEF GoodName
    <3>3. QED
      BY <3>2
  <2>2. QED
    BY <2>1
<1>13. \A j \in (n + 1)..(c - 1) : s[j] = Shut => s[j + 1] \notin {">", ":"}
  <2>1. ASSUME NEW j \in (n + 1)..(c - 1), s[j] = Shut
        PROVE  s[j + 1] \notin {">", ":"}
    <3>1. PICK k \in 1..m : j = n + k
      <4>1. j - n \in 1..m /\ n + (j - n) = j
        BY <1>4, <1>11
      <4>2. QED
        BY <4>1
    <3>2. input[k] = Shut
      BY <1>10, <2>1, <3>1
    <3>3. CASE k = m
      <4>1. j + 1 = c
        BY <1>4, <1>11, <3>1, <3>3
      <4>2. QED
        BY <1>8, <4>1 DEF Shut
    <3>4. CASE k # m
      <4>1. k \in 1..(m - 1) /\ k + 1 \in 1..m /\ j + 1 = n + (k + 1)
        <5>1. k \in 1..(m - 1) /\ k + 1 \in 1..m
          BY <3>4
        <5>2. n \in Nat
          BY <1>11
        <5>3. QED
          BY <3>1, <5>1, <5>2
      <4>2. s[j + 1] = input[k + 1]
        BY <1>10, <4>1
      <4>3. QED
        BY <1>1, <1>4, <3>2, <4>1, <4>2 DEF GoodInput
    <3>5. QED
      BY <3>3, <3>4
  <2>2. QED
    BY <2>1
<1>14. \A j \in (c + 1)..(e - 1) : s[j] # ">"
  BY <1>11
<1>15. FenceAt(s, i, o, n, c, e)
  BY <1>4, <1>8, <1>11, <1>12, <1>13, <1>14 DEF FenceAt
<1>16. NameAt(s, o, n) = name
  <2>1. o + 1 \in 1..(L + 1) /\ n - 1 \in ((o + 1) - 1)..L
    BY <1>c
  <2>2. PICK r : r = SubSeq(s, o + 1, n - 1)
    OBVIOUS
  <2>3. IsPiece(r, s, o + 1, n - 1)
    BY <1>4, <2>1, <2>2, PieceIs
  <2>4. n - 1 - (o + 1) + 1 = l /\ \A k \in 1..l : o + 1 + k - 1 = o + k
    BY <1>4, <1>11
  <2>5. r \in Lexed /\ Len(r) = l /\ \A k \in 1..l : r[k] = s[o + k]
    BY <2>3, <2>4 DEF IsPiece
  <2>6. r = name
    BY <1>1, <1>4, <1>9, <2>5, SameText
  <2>7. QED
    BY <1>1, <2>2, <2>6, TrimmedTwice DEF NameAt, GoodName
<1>17. CallAt(s, o, n, c) = call
  <2>1. n + 1 \in 1..(L + 1) /\ c - 1 \in ((n + 1) - 1)..L
    BY <1>c
  <2>2. PICK r : r = SubSeq(s, n + 1, c - 1)
    OBVIOUS
  <2>3. IsPiece(r, s, n + 1, c - 1)
    BY <1>4, <2>1, <2>2, PieceIs
  <2>4. c - 1 - (n + 1) + 1 = m /\ \A k \in 1..m : n + 1 + k - 1 = n + k
    BY <1>4, <1>11
  <2>5. r \in Lexed /\ Len(r) = m /\ \A k \in 1..m : r[k] = s[n + k]
    BY <2>3, <2>4 DEF IsPiece
  <2>6. r = input
    BY <1>1, <1>4, <1>10, <2>5, SameText
  <2>7. Trimmed(input) = input /\ input # <<>>
    BY <1>1, TrimmedTwice DEF GoodInput
  <2>8. InputOf(r) = input
    BY <2>6, <2>7 DEF InputOf
  <2>9. QED
    BY <1>1, <1>16, <2>2, <2>8 DEF CallAt
<1>18. o + Len(Fence(call)) = e + 1 /\ e + 1 \in (i + 1)..(L + 1)
  <2>1. Len(t) = l + m + 4
    BY <1>5
  <2>2. o + Len(Fence(call)) = e + 1
    BY <1>2, <1>b, <2>1
  <2>3. e + 1 \in (i + 1)..(L + 1)
    BY <1>c
  <2>4. QED
    BY <2>2, <2>3
<1>19. name # <<>>
  BY <1>1 DEF GoodName
<1>20. Read(s, from, i) = [text |-> SubSeq(s, i, o - 1) \o from[e + 1].text,
                           calls |-> <<call>> \o from[e + 1].calls]
  <2>1. Read(s, from, i) = ReadAs(s, from, i, o, n, c, e)
    BY <1>15, FenceRead
  <2>2. (IF NameAt(s, o, n) = <<>> THEN <<>> ELSE <<CallAt(s, o, n, c)>>) = <<call>>
    BY <1>16, <1>17, <1>19
  <2>3. QED
    BY <2>1, <2>2 DEF ReadAs
<1>21. PICK rest : rest = from[e + 1]
  OBVIOUS
<1>22. after = e + 1
  BY <1>18
<1>23. PICK a, b, r : a = SubSeq(s, i, o - 1) \o rest.text /\ b = <<call>> \o rest.calls
                      /\ r = Read(s, from, i)
  OBVIOUS
<1>24. r = [text |-> a, calls |-> b]
  BY <1>20, <1>21, <1>23
<1>25. r.text = a /\ r.calls = b /\ from[after] = rest
  BY <1>21, <1>22, <1>24
<1>26. FoundAs(r, s, i, o, call, rest)
  BY <1>23, <1>25 DEF FoundAs
<1>27. QED
  BY <1>23, <1>25, <1>26

-----------------------------------------------------------------------------
\* u is s, then perhaps a newline, then t, which begins at place p.
Joined(u, s, t, p) ==
  /\ u \in Lexed /\ p \in (Len(s) + 1)..(Len(s) + 2) /\ Len(u) = p - 1 + Len(t)
  /\ \A j \in 1..Len(s) : u[j] = s[j]
  /\ \A j \in (Len(s) + 1)..(p - 1) : u[j] = Newline
  /\ StandsAt(t, u, p)

LEMMA JoinedIs ==
  ASSUME NEW s \in Lexed, NEW t \in Lexed
  PROVE  \E p : Joined(OnNewLine(s) \o t, s, t, p)
<1>1. PICK n, m \in Nat : n = Len(s) /\ m = Len(t)
  BY DEF Lexed
<1>2. PICK v, u : v = OnNewLine(s) /\ u = v \o t
  OBVIOUS
<1>3. PICK p \in (n + 1)..(n + 2) :
        /\ v \in Lexed /\ Len(v) = p - 1 /\ \A j \in 1..n : v[j] = s[j]
        /\ \A j \in (n + 1)..(p - 1) : v[j] = Newline
  <2>1. CASE s = <<>>
    <3>1. v = s /\ n + 1 \in (n + 1)..(n + 2) /\ n + 1 - 1 = n
          /\ \A j \in (n + 1)..(n + 1 - 1) : FALSE
      BY <1>1, <1>2, <2>1 DEF OnNewLine
    <3>2. QED
      BY <1>1, <3>1
  <2>2. CASE s # <<>>
    <3>1. PICK x : x = Newline
      OBVIOUS
    <3>2. v = Append(s, x) /\ x \in Lexemes
      BY <1>2, <2>2, <3>1, MarksDiffer DEF OnNewLine
    <3>3. v \in Lexed /\ Len(v) = n + 1
      BY <1>1, <3>2 DEF Lexed
    <3>4. \A j \in 1..n : v[j] = s[j]
      BY <1>1, <3>2 DEF Lexed
    <3>5. v[n + 1] = x
      BY <1>1, <3>2 DEF Lexed
    <3>6. n + 2 \in (n + 1)..(n + 2) /\ n + 2 - 1 = n + 1
          /\ \A j \in (n + 1)..(n + 2 - 1) : j = n + 1
      BY <1>1
    <3>7. QED
      BY <3>1, <3>3, <3>4, <3>5, <3>6
  <2>3. QED
    BY <2>1, <2>2
<1>4. IsConcat(u, v, t, Lexemes)
  BY <1>2, <1>3, ConcatIs DEF Lexed
<1>5. /\ u \in Lexed /\ Len(u) = p - 1 + m
      /\ \A j \in 1..(p - 1) : u[j] = v[j]
      /\ \A j \in 1..m : u[p - 1 + j] = t[j]
  BY <1>1, <1>3, <1>4 DEF IsConcat, Lexed
<1>6. p - 1 + m <= p - 1 + m
  BY <1>1, <1>3
<1>7. StandsAt(t, u, p)
  BY <1>1, <1>5, <1>6 DEF StandsAt
<1>8. \A j \in 1..n : j \in 1..(p - 1)
  BY <1>1, <1>3
<1>9. \A j \in (n + 1)..(p - 1) : j \in 1..(p - 1)
  BY <1>1, <1>3
<1>10. \A j \in 1..n : u[j] = s[j]
  BY <1>3, <1>5, <1>8
<1>11. \A j \in (n + 1)..(p - 1) : u[j] = Newline
  BY <1>3, <1>5, <1>9
<1>12. Joined(u, s, t, p)
  BY <1>1, <1>3, <1>5, <1>7, <1>10, <1>11 DEF Joined
<1>13. QED
  BY <1>2, <1>12

\* Flattened's recursive function.
SaidStep(f, text, calls, k) == IF k = 0 THEN text ELSE OnNewLine(f[k - 1]) \o Fence(calls[k])
SaidBy(f, text, calls, m)   == f = [k \in 0..m |-> SaidStep(f, text, calls, k)]

LEMMA SaidAt ==
  ASSUME NEW f, NEW text, NEW calls, NEW m, SaidBy(f, text, calls, m), NEW k \in 0..m
  PROVE  f[k] = SaidStep(f, text, calls, k)
BY DEF SaidBy

LEMMA SaidExists ==
  ASSUME NEW text, NEW calls, NEW n \in Nat
  PROVE  \E f : SaidBy(f, text, calls, n)
<1> DEFINE S == {m \in Nat : \E f : SaidBy(f, text, calls, m)}
<1>1. 0 \in S
  <2> DEFINE g == [k \in 0..0 |-> text]
  <2>1. \A k \in 0..0 : SaidStep(g, text, calls, k) = text
    BY DEF SaidStep
  <2>2. SaidBy(g, text, calls, 0)
    BY <2>1 DEF SaidBy
  <2>3. QED
    BY <2>2
<1>2. ASSUME NEW m \in Nat, m \in S
      PROVE  m + 1 \in S
  <2>1. PICK f : SaidBy(f, text, calls, m)
    BY <1>2
  <2> DEFINE g == [k \in 0..(m + 1) |-> SaidStep(f, text, calls, k)]
  <2>2. \A k \in 0..m : k \in 0..(m + 1) /\ f[k] = g[k]
    BY <2>1, SaidAt
  <2>3. \A k \in 0..(m + 1) : SaidStep(f, text, calls, k) = SaidStep(g, text, calls, k)
    <3> HIDE DEF g
    <3>1. \A k \in 0..(m + 1) : k # 0 => k - 1 \in 0..m
      OBVIOUS
    <3>2. QED
      BY <2>2, <3>1 DEF SaidStep
  <2>4. SaidBy(g, text, calls, m + 1)
    BY <2>3 DEF SaidBy
  <2>5. QED
    BY <2>4
<1>3. Nat \subseteq S
  <2> HIDE DEF S
  <2>1. QED
    BY <1>1, <1>2, SetInduction
<1>4. QED
  BY <1>3

LEMMA FlattenedSays ==
  ASSUME NEW text, NEW calls, Len(calls) \in Nat
  PROVE  \E f : SaidBy(f, text, calls, Len(calls)) /\ Flattened(text, calls) = f[Len(calls)]
<1> DEFINE f == CHOOSE f : SaidBy(f, text, calls, Len(calls))
<1>1. SaidBy(f, text, calls, Len(calls))
  BY SaidExists
<1>2. Flattened(text, calls) = f[Len(calls)]
  BY DEF Flattened, SaidBy, SaidStep
<1>3. QED
  BY <1>1, <1>2

\* Each call's fence is joined to what was said before it.
LEMMA SaidJoins ==
  ASSUME NEW text \in Lexed, NEW calls \in Seq(GoodCalls), NEW m \in Nat, m = Len(calls),
         NEW f, SaidBy(f, text, calls, m)
  PROVE  /\ f[0] = text
         /\ \A k \in 0..m : f[k] \in Lexed
         /\ \A k \in 1..m : \E p : Joined(f[k], f[k - 1], Fence(calls[k]), p)
<1>1. ASSUME NEW k \in 1..m, f[k - 1] \in Lexed
      PROVE  f[k] \in Lexed /\ \E p : Joined(f[k], f[k - 1], Fence(calls[k]), p)
  <2>1. PICK c \in GoodCalls : c = calls[k]
    OBVIOUS
  <2>2. Fence(c) \in Lexed
    BY GoodFence
  <2>3. f[k] = OnNewLine(f[k - 1]) \o Fence(c)
    <3>1. k \in 0..m /\ k # 0
      OBVIOUS
    <3>2. f[k] = SaidStep(f, text, calls, k)
      BY <3>1, SaidAt
    <3>3. QED
      BY <2>1, <3>1, <3>2 DEF SaidStep
  <2>4. PICK p : Joined(f[k], f[k - 1], Fence(c), p)
    BY <1>1, <2>2, <2>3, JoinedIs
  <2>5. QED
    BY <2>1, <2>4 DEF Joined
<1>2. f[0] = text
  <2>1. 0 \in 0..m
    OBVIOUS
  <2>2. QED
    BY <2>1, SaidAt DEF SaidStep
<1> DEFINE S == {k \in Nat : k <= m => f[k] \in Lexed}
<1>3. 0 \in S
  BY <1>2
<1>4. ASSUME NEW k \in Nat, k \in S
      PROVE  k + 1 \in S
  <2>1. k + 1 <= m => k + 1 \in 1..m /\ f[(k + 1) - 1] \in Lexed
    BY <1>4
  <2>2. QED
    BY <1>1, <2>1
<1>5. Nat \subseteq S
  <2> HIDE DEF S
  <2>1. QED
    BY <1>3, <1>4, SetInduction
<1>6. \A k \in 0..m : f[k] \in Lexed
  <2>1. \A k \in 0..m : k \in S /\ k <= m
    BY <1>5
  <2>2. QED
    BY <2>1
<1>7. ASSUME NEW k \in 1..m
      PROVE  \E p : Joined(f[k], f[k - 1], Fence(calls[k]), p)
  <2>1. k - 1 \in 0..m
    OBVIOUS
  <2>2. QED
    BY <1>1, <1>6, <2>1
<1>8. QED
  BY <1>2, <1>6, <1>7

\* What was said stands at the head of what is said in the end.
Heads(s, u) == Len(s) <= Len(u) /\ \A j \in 1..Len(s) : u[j] = s[j]

LEMMA SaidHeads ==
  ASSUME NEW text \in Lexed, NEW calls \in Seq(GoodCalls), NEW m \in Nat, m = Len(calls),
         NEW f, SaidBy(f, text, calls, m)
  PROVE  \A k \in 0..m : Heads(f[k], f[m])
<1> DEFINE S == {d \in Nat : d <= m => Heads(f[m - d], f[m])}
<1>1. \A k \in 0..m : f[k] \in Lexed /\ Len(f[k]) \in Nat
  BY SaidJoins DEF Lexed
<1>2. 0 \in S
  <2>1. m - 0 = m /\ m \in 0..m
    OBVIOUS
  <2>2. Heads(f[m], f[m])
    BY <1>1, <2>1 DEF Heads
  <2>3. QED
    BY <2>1, <2>2
<1>3. ASSUME NEW d \in Nat, d \in S
      PROVE  d + 1 \in S
  <2>1. SUFFICES ASSUME d + 1 <= m
                 PROVE  Heads(f[m - (d + 1)], f[m])
    OBVIOUS
  <2>2. PICK k \in 1..m : k = m - d
    BY <2>1
  <2>3. k - 1 = m - (d + 1) /\ k - 1 \in 0..m /\ k \in 0..m /\ m \in 0..m
    BY <2>1, <2>2
  <2>4. Heads(f[k], f[m])
    BY <1>3, <2>1, <2>2
  <2>5. PICK p : Joined(f[k], f[k - 1], Fence(calls[k]), p)
    BY SaidJoins
  <2>6. PICK a, b, u : a = f[k - 1] /\ b = f[k] /\ u = f[m]
    OBVIOUS
  <2>7. Heads(a, b)
    <3>1. Len(a) \in Nat /\ Len(b) \in Nat
      BY <1>1, <2>3, <2>6
    <3>2. PICK l : l = Len(Fence(calls[k]))
      OBVIOUS
    <3>3. l \in Nat
      <4>1. calls[k] \in GoodCalls
        OBVIOUS
      <4>2. QED
        BY <3>2, <4>1, GoodFence
    <3>4. Len(b) = p - 1 + l /\ p \in (Len(a) + 1)..(Len(a) + 2) /\ \A j \in 1..Len(a) : b[j] = a[j]
      BY <2>5, <2>6, <3>2 DEF Joined
    <3>5. QED
      BY <3>1, <3>3, <3>4 DEF Heads
  <2>8. Heads(a, u)
    <3>1. Len(a) \in Nat /\ Len(b) \in Nat /\ Len(u) \in Nat
      BY <1>1, <2>3, <2>6
    <3>2. Len(a) <= Len(b) /\ \A j \in 1..Len(a) : b[j] = a[j]
      BY <2>7 DEF Heads
    <3>3. Len(b) <= Len(u) /\ \A j \in 1..Len(b) : u[j] = b[j]
      BY <2>4, <2>6 DEF Heads
    <3>4. \A j \in 1..Len(a) : j \in 1..Len(b)
      BY <3>1, <3>2
    <3>5. QED
      BY <3>1, <3>2, <3>3, <3>4 DEF Heads
  <2>9. QED
    BY <2>3, <2>6, <2>8
<1>4. Nat \subseteq S
  <2> HIDE DEF S
  <2>1. QED
    BY <1>2, <1>3, SetInduction
<1>5. ASSUME NEW k \in 0..m
      PROVE  Heads(f[k], f[m])
  <2>1. m - k \in Nat /\ m - k <= m /\ m - (m - k) = k
    OBVIOUS
  <2>2. m - k \in S
    BY <1>4, <2>1
  <2>3. QED
    BY <2>1, <2>2
<1>6. QED
  BY <1>5

\* A call's fence where it was joined stands there in what is said in the end.
LEMMA FenceIsSaid ==
  ASSUME NEW text \in Lexed, NEW calls \in Seq(GoodCalls), NEW m \in Nat, m = Len(calls),
         NEW f, SaidBy(f, text, calls, m), NEW k \in 1..m
  PROVE  \E p \in Nat :
           /\ p \in (Len(f[k - 1]) + 1)..(Len(f[k - 1]) + 2)
           /\ p + Len(Fence(calls[k])) = Len(f[k]) + 1
           /\ \A j \in (Len(f[k - 1]) + 1)..(p - 1) : f[m][j] = Newline
           /\ StandsAt(Fence(calls[k]), f[m], p)
<1>1. PICK a, b, u, t : a = f[k - 1] /\ b = f[k] /\ u = f[m] /\ t = Fence(calls[k])
  OBVIOUS
<1>2. a \in Lexed /\ b \in Lexed /\ u \in Lexed /\ t \in Lexed
  <2>1. k - 1 \in 0..m /\ k \in 0..m /\ m \in 0..m /\ calls[k] \in GoodCalls
    OBVIOUS
  <2>2. QED
    BY <1>1, <2>1, SaidJoins, GoodFence
<1>3. PICK la, lb, lu, lt \in Nat : la = Len(a) /\ lb = Len(b) /\ lu = Len(u) /\ lt = Len(t)
  BY <1>2 DEF Lexed
<1>4. PICK p : Joined(b, a, t, p)
  BY <1>1, SaidJoins
<1>5. /\ p \in (la + 1)..(la + 2) /\ lb = p - 1 + lt
      /\ \A j \in (la + 1)..(p - 1) : b[j] = Newline
      /\ \A j \in 1..lt : b[p - 1 + j] = t[j]
  BY <1>3, <1>4 DEF Joined, StandsAt
<1>6. lb <= lu /\ \A j \in 1..lb : u[j] = b[j]
  <2>1. k \in 0..m
    OBVIOUS
  <2>2. Heads(b, u)
    BY <1>1, <2>1, SaidHeads
  <2>3. QED
    BY <1>3, <2>2 DEF Heads
<1>7. \A j \in (la + 1)..(p - 1) : j \in 1..lb
  BY <1>3, <1>5
<1>8. \A j \in 1..lt : p - 1 + j \in 1..lb
  BY <1>3, <1>5
<1>9. StandsAt(t, u, p)
  BY <1>3, <1>5, <1>6, <1>8 DEF StandsAt
<1>10. p + lt = lb + 1 /\ p \in Nat
  BY <1>3, <1>5
<1>11. \A j \in (la + 1)..(p - 1) : u[j] = Newline
  BY <1>5, <1>6, <1>7
<1>12. QED
  BY <1>1, <1>3, <1>5, <1>9, <1>10, <1>11

\* w is the calls after the k-th.
CallsFrom(w, calls, k) ==
  /\ w \in Seq(GoodCalls) /\ Len(w) = Len(calls) - k
  /\ \A j \in 1..(Len(calls) - k) : w[j] = calls[k + j]

\* What is read after the k-th fence: newlines, and the calls that follow.
RestOf(r, calls, k) == r.text \in Lexed /\ Empty(r.text) /\ CallsFrom(r.calls, calls, k)

LEMMA OneMoreCall ==
  ASSUME NEW calls \in Seq(GoodCalls), NEW k \in 1..Len(calls), NEW q, CallsFrom(q, calls, k),
         NEW w, w = <<calls[k]>> \o q
  PROVE  CallsFrom(w, calls, k - 1)
<1>1. PICK m \in Nat : m = Len(calls)
  OBVIOUS
<1>a. PICK c : c = calls[k]
  OBVIOUS
<1>2. /\ c \in GoodCalls /\ q \in Seq(GoodCalls) /\ c = calls[k] /\ Len(q) = m - k
      /\ \A j \in 1..(m - k) : q[j] = calls[k + j]
  BY <1>1, <1>a DEF CallsFrom
<1>3. PICK h, u : h = <<c>> /\ u = h \o q
  OBVIOUS
<1>4. h \in Seq(GoodCalls) /\ Len(h) = 1 /\ h[1] = c
  BY <1>2, <1>3
<1>5. IsConcat(u, h, q, GoodCalls)
  BY <1>2, <1>3, <1>4, ConcatIs
<1>6. /\ u \in Seq(GoodCalls) /\ Len(u) = 1 + (m - k) /\ \A i \in 1..1 : u[i] = h[i]
      /\ \A i \in 1..(m - k) : u[1 + i] = q[i]
  BY <1>2, <1>4, <1>5 DEF IsConcat
<1>7. 1 + (m - k) = m - (k - 1)
  BY <1>1
<1>8. ASSUME NEW j \in 1..(m - (k - 1))
      PROVE  u[j] = calls[k - 1 + j]
  <2>1. CASE j = 1
    <3>1. k - 1 + 1 = k /\ 1 \in 1..1
      BY <1>1
    <3>2. QED
      BY <1>2, <1>4, <1>6, <2>1, <3>1
  <2>2. CASE j # 1
    <3>1. j - 1 \in 1..(m - k) /\ 1 + (j - 1) = j /\ k + (j - 1) = k - 1 + j
      BY <1>1, <2>2
    <3>2. u[1 + (j - 1)] = q[j - 1] /\ q[j - 1] = calls[k + (j - 1)]
      BY <1>2, <1>6, <3>1
    <3>3. QED
      BY <3>1, <3>2
  <2>3. QED
    BY <2>1, <2>2
<1>9. u = w
  BY <1>2, <1>3
<1>10. QED
  BY <1>1, <1>6, <1>7, <1>8, <1>9 DEF CallsFrom

\* r is the n lexemes of s from place a on, with t after them.
PieceAnd(r, n, s, a, t) ==
  /\ r \in Lexed /\ Len(r) = n + Len(t)
  /\ \A j \in 1..n : r[j] = s[a + j - 1]
  /\ \A j \in 1..Len(t) : r[n + j] = t[j]

LEMMA PieceThen ==
  ASSUME NEW s \in Lexed, NEW a \in 1..(Len(s) + 1), NEW b \in (a - 1)..Len(s), NEW t \in Lexed,
         NEW r, r = SubSeq(s, a, b) \o t, NEW n \in Nat, n = b - a + 1
  PROVE  PieceAnd(r, n, s, a, t)
<1>1. PICK q : q = SubSeq(s, a, b)
  OBVIOUS
<1>2. IsPiece(q, s, a, b)
  BY <1>1, PieceIs
<1>3. q \in Lexed /\ Len(q) = n /\ \A j \in 1..n : q[j] = s[a + j - 1]
  BY <1>2 DEF IsPiece
<1>4. IsConcat(r, q, t, Lexemes)
  BY <1>1, <1>3, ConcatIs DEF Lexed
<1>5. /\ r \in Lexed /\ Len(r) = n + Len(t)
      /\ \A j \in 1..n : r[j] = q[j]
      /\ \A j \in 1..Len(t) : r[n + j] = t[j]
  BY <1>3, <1>4 DEF IsConcat, Lexed
<1>6. \A j \in 1..n : r[j] = s[a + j - 1]
  BY <1>3, <1>5
<1>7. QED
  BY <1>5, <1>6 DEF PieceAnd

LEMMA EmptyThen ==
  ASSUME NEW s \in Lexed, NEW a \in 1..(Len(s) + 1), NEW b \in (a - 1)..Len(s), NEW t \in Lexed,
         \A j \in a..b : s[j] = Newline, Empty(t)
  PROVE  SubSeq(s, a, b) \o t \in Lexed /\ Empty(SubSeq(s, a, b) \o t)
<1>a. PICK n \in Nat : n = b - a + 1
  OBVIOUS
<1>b. PICK r : r = SubSeq(s, a, b) \o t
  OBVIOUS
<1>c. PieceAnd(r, n, s, a, t)
  BY <1>a, <1>b, PieceThen
<1>1. /\ r \in Lexed /\ Len(r) = n + Len(t) /\ n = b - a + 1
      /\ \A j \in 1..n : r[j] = s[a + j - 1]
      /\ \A j \in 1..Len(t) : r[n + j] = t[j]
  BY <1>a, <1>c DEF PieceAnd
<1>2. PICK l \in Nat : l = Len(t)
  BY DEF Lexed
<1>3. ASSUME NEW i \in 1..(n + l)
      PROVE  r[i] = Newline
  <2>1. CASE i <= n
    <3>1. i \in 1..n /\ a + i - 1 \in a..b
      BY <1>1, <2>1
    <3>2. QED
      BY <1>1, <3>1
  <2>2. CASE ~(i <= n)
    <3>1. i - n \in 1..l /\ n + (i - n) = i
      BY <1>2, <2>2
    <3>2. r[n + (i - n)] = t[i - n] /\ t[i - n] = Newline
      BY <1>1, <1>2, <3>1 DEF Empty
    <3>3. QED
      BY <3>1, <3>2
  <2>3. QED
    BY <2>1, <2>2
<1>4. Empty(r)
  BY <1>1, <1>2, <1>3 DEF Empty
<1>5. QED
  BY <1>1, <1>4, <1>b

LEMMA RestSaid ==
  ASSUME NEW text \in Lexed, NEW calls \in Seq(GoodCalls), NEW m \in Nat, m = Len(calls),
         NEW f, SaidBy(f, text, calls, m), NEW g, Reads(g, f[m])
  PROVE  \A k \in 1..m : RestOf(g[Len(f[k]) + 1], calls, k)
<1> DEFINE S == {d \in Nat : d < m => RestOf(g[Len(f[m - d]) + 1], calls, m - d)}
<1>1. PICK u \in Lexed : u = f[m]
  <2>1. m \in 0..m
    OBVIOUS
  <2>2. QED
    BY <2>1, SaidJoins
<1>2. PICK L \in Nat : L = Len(u)
  BY DEF Lexed
<1>3. \A k \in 0..m : Len(f[k]) \in Nat /\ Len(f[k]) <= L
  BY <1>1, <1>2, SaidJoins, SaidHeads DEF Heads, Lexed
<1>4. \A i \in 1..(L + 1) : g[i] = Read(u, g, i)
  BY <1>1, <1>2, ReadsAt
<1>5. ASSUME 0 < m
      PROVE  RestOf(g[Len(f[m]) + 1], calls, m)
  <2>1. L + 1 \in 1..(L + 1) /\ L \in ((L + 1) - 1)..L
    OBVIOUS
  <2>2. g[L + 1] = Read(u, g, L + 1)
    BY <1>4, <2>1
  <2>3. \A o, n, c, e : ~FenceAt(u, L + 1, o, n, c, e)
    <3>1. ASSUME NEW o, NEW n, NEW c, NEW e, FenceAt(u, L + 1, o, n, c, e)
          PROVE  FALSE
      <4>1. o \in (L + 1)..L
        BY <1>2, <3>1 DEF FenceAt
      <4>2. QED
        BY <4>1
    <3>2. QED
      BY <3>1
  <2>4. g[L + 1] = [text |-> SubSeq(u, L + 1, L), calls |-> <<>>]
    BY <1>2, <2>1, <2>2, <2>3, NothingRead
  <2>5. PICK t : t = SubSeq(u, L + 1, L)
    OBVIOUS
  <2>6. t \in Lexed /\ Empty(t)
    <3>1. IsPiece(t, u, L + 1, L)
      BY <1>2, <2>1, <2>5, PieceIs
    <3>2. L - (L + 1) + 1 = 0 /\ \A i \in 1..0 : FALSE
      BY <1>2
    <3>3. QED
      BY <3>1, <3>2 DEF IsPiece, Empty
  <2>7. PICK r : r = g[L + 1]
    OBVIOUS
  <2>8. r.text = t /\ r.calls = <<>>
    BY <2>4, <2>5, <2>7
  <2>9. m - m = 0 /\ Len(<<>>) = 0 /\ <<>> \in Seq(GoodCalls) /\ \A j \in 1..0 : FALSE
    OBVIOUS
  <2>10. RestOf(r, calls, m)
    <3>1. CallsFrom(<<>>, calls, m)
      BY <2>9 DEF CallsFrom
    <3>2. QED
      BY <2>6, <2>8, <3>1 DEF RestOf
  <2>11. QED
    BY <1>1, <1>2, <2>7, <2>10
<1>6. 0 \in S
  <2>1. m - 0 = m
    OBVIOUS
  <2>2. QED
    BY <1>5, <2>1
<1>7. ASSUME NEW d \in Nat, d \in S
      PROVE  d + 1 \in S
  <2>1. SUFFICES ASSUME d + 1 < m
                 PROVE  RestOf(g[Len(f[m - (d + 1)]) + 1], calls, m - (d + 1))
    OBVIOUS
  <2>2. PICK k \in 2..m : k = m - d
    BY <2>1
  <2>3. k \in 1..m /\ k - 1 = m - (d + 1) /\ k - 1 \in 0..m /\ k \in 0..m
    BY <2>1, <2>2
  <2>4. RestOf(g[Len(f[k]) + 1], calls, k)
    BY <1>7, <2>1, <2>2
  <2>5. PICK la, lb \in Nat : la = Len(f[k - 1]) /\ lb = Len(f[k]) /\ la <= L /\ lb <= L
    BY <1>3, <2>3
  <2>6. PICK c \in GoodCalls : c = calls[k]
    BY <2>3
  <2>7. PICK lt \in Nat : lt = Len(Fence(c))
    BY <2>6, GoodFence
  <2>8. PICK p \in Nat : /\ p \in (la + 1)..(la + 2) /\ p + lt = lb + 1
                         /\ \A j \in (la + 1)..(p - 1) : u[j] = Newline
                         /\ StandsAt(Fence(c), u, p)
    BY <1>1, <2>3, <2>5, <2>6, <2>7, FenceIsSaid
  <2>9. la + 1 \in 1..(L + 1) /\ p >= la + 1
    BY <2>5, <2>8
  <2>10. \A j \in (la + 1)..(p - 1) : u[j] # Open
    BY <2>8, MarksDiffer
  <2>11. FoundAs(Read(u, g, la + 1), u, la + 1, p, c, g[lb + 1])
    <3>1. lb + 1 = p + Len(Fence(c)) /\ la + 1 \in 1..(Len(u) + 1)
      BY <1>2, <2>7, <2>8, <2>9
    <3>2. QED
      BY <2>8, <2>9, <2>10, <3>1, FenceStands
  <2>12. PICK r, q : r = g[lb + 1] /\ q = g[la + 1]
    OBVIOUS
  <2>13. RestOf(r, calls, k)
    BY <2>4, <2>5, <2>12
  <2>14. q.text = SubSeq(u, la + 1, p - 1) \o r.text /\ q.calls = <<c>> \o r.calls
    BY <1>4, <2>9, <2>11, <2>12 DEF FoundAs
  <2>15. q.text \in Lexed /\ Empty(q.text)
    <3>1. p - 1 \in ((la + 1) - 1)..Len(u)
      <4>1. p - 1 <= L
        BY <2>5, <2>7, <2>8
      <4>2. QED
        BY <1>2, <2>5, <2>8, <4>1
    <3>2. r.text \in Lexed /\ Empty(r.text)
      BY <2>13 DEF RestOf
    <3>3. la + 1 \in 1..(Len(u) + 1)
      BY <1>2, <2>9
    <3>4. QED
      BY <2>8, <2>14, <3>1, <3>2, <3>3, EmptyThen
  <2>16. RestOf(q, calls, k - 1)
    <3>1. PICK w : w = <<c>> \o r.calls
      OBVIOUS
    <3>2. CallsFrom(w, calls, k - 1)
      <4>1. CallsFrom(r.calls, calls, k)
        BY <2>13 DEF RestOf
      <4>2. w = <<calls[k]>> \o r.calls /\ k \in 1..Len(calls)
        BY <2>3, <2>6, <3>1
      <4>3. QED
        BY <4>1, <4>2, OneMoreCall
    <3>3. q.calls = w
      BY <2>14, <3>1
    <3>4. QED
      BY <2>15, <3>2, <3>3 DEF RestOf
  <2>17. QED
    BY <2>3, <2>5, <2>12, <2>16
<1>8. Nat \subseteq S
  <2> HIDE DEF S
  <2>1. QED
    BY <1>6, <1>7, SetInduction
<1>9. ASSUME NEW k \in 1..m
      PROVE  RestOf(g[Len(f[k]) + 1], calls, k)
  <2>1. m - k \in Nat /\ m - k < m /\ m - (m - k) = k
    OBVIOUS
  <2>2. m - k \in S
    BY <1>8, <2>1
  <2>3. QED
    BY <2>1, <2>2
<1>10. QED
  BY <1>9

\* A text without an opening mark is read as it stands.
LEMMA PlainText ==
  ASSUME NEW s \in Lexed, Inked(s), \A i \in 1..Len(s) : s[i] # Open
  PROVE  Parse(s).text = s /\ Parse(s).calls = <<>>
<1>1. PICK g : Reads(g, s) /\ Parse(s) = [text |-> Trimmed(g[1].text), calls |-> g[1].calls]
  BY ParseReads
<1>2. Len(s) \in Nat /\ 1 \in 1..(Len(s) + 1) /\ Len(s) \in (1 - 1)..Len(s)
  BY DEF Lexed
<1>3. \A o, n, c, e : ~FenceAt(s, 1, o, n, c, e)
  <2>1. ASSUME NEW o, NEW n, NEW c, NEW e, FenceAt(s, 1, o, n, c, e)
        PROVE  FALSE
    BY <2>1 DEF FenceAt
  <2>2. QED
    BY <2>1
<1>4. g[1] = [text |-> SubSeq(s, 1, Len(s)), calls |-> <<>>]
  <2>1. g[1] = Read(s, g, 1)
    BY <1>1, <1>2, ReadsAt
  <2>2. Read(s, g, 1) = [text |-> SubSeq(s, 1, Len(s)), calls |-> <<>>]
    BY <1>2, <1>3, NothingRead
  <2>3. QED
    BY <2>1, <2>2
<1>5. PICK t : t = SubSeq(s, 1, Len(s))
  OBVIOUS
<1>6. t = s
  <2>1. IsPiece(t, s, 1, Len(s))
    BY <1>2, <1>5, PieceIs
  <2>2. Len(s) - 1 + 1 = Len(s) /\ \A k \in 1..Len(s) : 1 + k - 1 = k
    BY <1>2
  <2>3. t \in Lexed /\ Len(t) = Len(s) /\ \A k \in 1..Len(s) : t[k] = s[k]
    BY <2>1, <2>2 DEF IsPiece
  <2>4. QED
    BY <2>3, SameText
<1>7. g[1].text = s /\ g[1].calls = <<>>
  <2>1. g[1] = [text |-> s, calls |-> <<>>]
    BY <1>4, <1>5, <1>6
  <2>2. QED
    BY <2>1
<1>8. Parse(s).text = Trimmed(g[1].text) /\ Parse(s).calls = g[1].calls
  BY <1>1
<1>9. QED
  BY <1>7, <1>8, TrimmedTwice

\* A turn of a text and calls is read back as that text and those calls.
LEMMA ReadBack ==
  ASSUME NEW text, NEW calls, Heeds(text, calls), Places(text, Open) = {}
  PROVE  Parse(Flattened(text, calls)).text = text /\ Parse(Flattened(text, calls)).calls = calls
<1>1. text \in Lexed /\ Inked(text) /\ calls \in Seq(GoodCalls)
  BY DEF Heeds
<1>2. PICK m \in Nat : m = Len(calls)
  BY <1>1
<1>3. PICK f : SaidBy(f, text, calls, m) /\ Flattened(text, calls) = f[m]
  BY <1>2, FlattenedSays
<1>4. PICK u \in Lexed : u = f[m]
  <2>1. m \in 0..m
    OBVIOUS
  <2>2. QED
    BY <1>1, <1>2, <1>3, <2>1, SaidJoins
<1>5. PICK L, la \in Nat : L = Len(u) /\ la = Len(text)
  BY <1>1 DEF Lexed
<1>6. \A j \in 1..la : text[j] # Open
  <2>1. \A j \in 1..la : text[j] = Open => j \in Places(text, Open)
    BY <1>1, <1>5, PlacesOf
  <2>2. QED
    BY <2>1
<1>7. CASE m = 0
  <2>1. u = text
    BY <1>1, <1>2, <1>3, <1>4, <1>7, SaidJoins
  <2>2. calls = <<>>
    BY <1>1, <1>2, <1>7, EmptySeq
  <2>3. Parse(u).text = u /\ Parse(u).calls = <<>>
    BY <1>1, <1>5, <1>6, <2>1, PlainText
  <2>4. QED
    BY <1>3, <1>4, <2>1, <2>2, <2>3
<1>8. CASE m # 0
  <2>1. 1 \in 1..m /\ 1 - 1 = 0 /\ 0 \in 0..m /\ 1 \in 0..m
    BY <1>8
  <2>2. PICK g : Reads(g, u) /\ Parse(u) = [text |-> Trimmed(g[1].text), calls |-> g[1].calls]
    BY ParseReads
  <2>3. PICK c \in GoodCalls, lb, lt \in Nat : c = calls[1] /\ lb = Len(f[1]) /\ lt = Len(Fence(c))
    <3>1. f[1] \in Lexed /\ calls[1] \in GoodCalls
      BY <1>1, <1>2, <1>3, <2>1, SaidJoins
    <3>2. QED
      BY <3>1, GoodFence DEF Lexed
  <2>4. f[0] = text /\ f[1 - 1] = text
    BY <1>1, <1>2, <1>3, <2>1, SaidJoins
  <2>5. PICK p \in Nat : /\ p \in (la + 1)..(la + 2) /\ p + lt = lb + 1
                         /\ \A j \in (la + 1)..(p - 1) : u[j] = Newline
                         /\ StandsAt(Fence(c), u, p)
    BY <1>1, <1>2, <1>3, <1>4, <1>5, <2>1, <2>3, <2>4, FenceIsSaid
  <2>6. la <= L /\ \A j \in 1..la : u[j] = text[j]
    <3>1. Heads(f[0], f[m])
      BY <1>1, <1>2, <1>3, <2>1, SaidHeads
    <3>2. QED
      BY <1>4, <1>5, <2>4, <3>1 DEF Heads
  <2>7. \A j \in 1..(p - 1) : u[j] # Open
    <3>1. ASSUME NEW j \in 1..(p - 1)
          PROVE  u[j] # Open
      <4>1. CASE j <= la
        <5>1. j \in 1..la
          BY <1>5, <4>1
        <5>2. QED
          BY <1>6, <2>6, <5>1
      <4>2. CASE ~(j <= la)
        <5>1. j \in (la + 1)..(p - 1)
          BY <1>5, <2>5, <4>2
        <5>2. QED
          BY <2>5, <5>1, MarksDiffer
      <4>3. QED
        BY <4>1, <4>2
    <3>2. QED
      BY <3>1
  <2>8. lb <= L /\ p - 1 <= L /\ p >= 1
    <3>1. Heads(f[1], f[m])
      BY <1>1, <1>2, <1>3, <2>1, SaidHeads
    <3>2. lb <= L
      BY <1>4, <1>5, <2>3, <3>1 DEF Heads
    <3>3. QED
      BY <2>3, <2>5, <3>2
  <2>9. PICK r, q : r = g[lb + 1] /\ q = g[1]
    OBVIOUS
  <2>10. RestOf(r, calls, 1)
    BY <1>1, <1>2, <1>3, <1>4, <2>1, <2>2, <2>3, <2>9, RestSaid
  <2>11. FoundAs(q, u, 1, p, c, r)
    <3>1. lb + 1 = p + Len(Fence(c)) /\ 1 \in 1..(Len(u) + 1)
      BY <1>5, <2>3, <2>5
    <3>2. q = Read(u, g, 1)
      BY <2>2, <2>9, <3>1, ReadsAt
    <3>3. QED
      BY <2>5, <2>7, <2>8, <2>9, <3>1, <3>2, FenceStands
  <2>12. q.calls = calls
    <3>1. PICK w : w = <<c>> \o r.calls
      OBVIOUS
    <3>2. 1 \in 1..Len(calls)
      BY <1>2, <2>1
    <3>3. CallsFrom(w, calls, 1 - 1)
      <4>1. CallsFrom(r.calls, calls, 1)
        BY <2>10 DEF RestOf
      <4>2. w = <<calls[1]>> \o r.calls
        BY <2>3, <3>1
      <4>3. QED
        BY <1>1, <3>2, <4>1, <4>2, OneMoreCall
    <3>4. m - (1 - 1) = m /\ \A j \in 1..m : 1 - 1 + j = j
      OBVIOUS
    <3>5. w \in Seq(GoodCalls) /\ Len(w) = m /\ \A j \in 1..m : w[j] = calls[j]
      BY <1>2, <3>3, <3>4 DEF CallsFrom
    <3>6. w = calls
      BY <1>1, <1>2, <3>5
    <3>7. QED
      BY <2>11, <3>1, <3>6 DEF FoundAs
  <2>13. Trimmed(q.text) = text
    <3>1. 1 \in 1..(Len(u) + 1) /\ p - 1 \in (1 - 1)..Len(u)
      BY <1>5, <2>5, <2>8
    <3>2. r.text \in Lexed /\ Empty(r.text)
      BY <2>10 DEF RestOf
    <3>a. PICK n \in Nat : n = p - 1
      BY <2>8
    <3>b. PICK w, t : w = SubSeq(u, 1, p - 1) \o r.text /\ t = r.text
      OBVIOUS
    <3>c. PieceAnd(w, n, u, 1, t)
      <4>1. n = p - 1 - 1 + 1
        BY <3>a
      <4>2. QED
        BY <3>1, <3>2, <3>b, <4>1, PieceThen
    <3>3. /\ w \in Lexed /\ Len(w) = n + Len(t) /\ n = p - 1
          /\ \A j \in 1..n : w[j] = u[1 + j - 1]
          /\ \A j \in 1..Len(t) : w[n + j] = t[j]
      BY <3>a, <3>c DEF PieceAnd
    <3>4. PICK l \in Nat : l = Len(t)
      BY <3>2, <3>b DEF Lexed
    <3>5. n = p - 1 /\ la <= n
      BY <1>5, <2>5, <3>3
    <3>6. \A j \in 1..n : w[j] = u[j]
      <4>1. \A j \in 1..n : 1 + j - 1 = j
        OBVIOUS
      <4>2. QED
        BY <3>3, <4>1
    <3>7. \A j \in 1..la : w[j] = text[j]
      <4>1. \A j \in 1..la : j \in 1..n
        BY <1>5, <3>5
      <4>2. QED
        BY <2>6, <3>6, <4>1
    <3>8. ASSUME NEW j \in (la + 1)..(n + l)
          PROVE  w[j] = Newline
      <4>1. CASE j <= n
        <5>1. j \in 1..n /\ j \in (la + 1)..(p - 1)
          BY <1>5, <3>5, <4>1
        <5>2. QED
          BY <2>5, <3>6, <5>1
      <4>2. CASE ~(j <= n)
        <5>1. j - n \in 1..l /\ n + (j - n) = j
          BY <1>5, <3>4, <3>5, <4>2
        <5>2. w[n + (j - n)] = t[j - n] /\ t[j - n] = Newline
          BY <3>2, <3>3, <3>4, <3>b, <5>1 DEF Empty
        <5>3. QED
          BY <5>1, <5>2
      <4>3. QED
        BY <4>1, <4>2
    <3>9. Len(w) = n + l /\ la <= n + l
      BY <1>5, <3>3, <3>4, <3>5
    <3>10. Trimmed(w) = text
      BY <1>1, <1>5, <3>3, <3>7, <3>8, <3>9, TrimmedBack
    <3>11. q.text = w
      BY <2>11, <3>b DEF FoundAs
    <3>12. QED
      BY <3>10, <3>11
  <2>14. Parse(u).text = text /\ Parse(u).calls = calls
    BY <2>2, <2>9, <2>12, <2>13
  <2>15. QED
    BY <1>3, <1>4, <2>14
<1>9. QED
  BY <1>7, <1>8

-----------------------------------------------------------------------------
\* A reply whose fences were read holds good calls.
HeardWell == last.fenced => Heeds(last.text, last.calls)

LEMMA HeardWellInit == DialectInit => HeardWell
BY DEF DialectInit, HeardWell, NoReply

LEMMA HeardWellNext == HeardWell /\ [DialectNext]_dialectVars => HeardWell'
<1> SUFFICES ASSUME HeardWell, [DialectNext]_dialectVars
             PROVE  HeardWell'
  OBVIOUS
<1>1. ASSUME NEW m, NEW offered, NEW answer, Complete(m, offered, answer)
      PROVE  HeardWell'
  BY <1>1 DEF Complete, HeardWell, NoReply
<1>2. CASE StartRun
  BY <1>1, <1>2 DEF StartRun
<1>3. CASE AskAgain
  BY <1>1, <1>3 DEF AskAgain
<1>4. ASSUME NEW raw \in Replies, NEW structured \in Structured, NEW truncated \in BOOLEAN,
             ModelReplies(raw, structured, truncated)
      PROVE  HeardWell'
  <2>1. PICK heard : heard = Heard(raw, structured)
    OBVIOUS
  <2>2. /\ last'.text = heard.text /\ last'.calls = heard.calls
        /\ last'.fenced = (mode = "fence" /\ structured = <<>>)
    BY <1>4, <2>1 DEF ModelReplies
  <2>3. SUFFICES ASSUME mode = "fence", structured = <<>>
                 PROVE  Heeds(last'.text, last'.calls)
    BY <2>2 DEF HeardWell, Heeds
  <2>4. heard = Parse(raw)
    BY <2>1, <2>3 DEF Heard
  <2>5. raw \in Lexed
    BY RepliesAssumption DEF Lexed
  <2>6. QED
    BY <2>2, <2>4, <2>5, ParseIsGood
<1>5. CASE UNCHANGED dialectVars
  BY <1>5 DEF dialectVars, HeardWell
<1>6. QED
  BY <1>2, <1>3, <1>4, <1>5 DEF DialectNext

LEMMA HeardWellTells == HeardWell => ReplayTellsTheSame
<1> SUFFICES ASSUME HeardWell, last.fenced, ~Malformed(last.text, last.calls)
             PROVE  Parse(Flattened(last.text, last.calls))
                      = [text |-> last.text, calls |-> last.calls]
  BY DEF ReplayTellsTheSame
<1>1. PICK text, calls : text = last.text /\ calls = last.calls
  OBVIOUS
<1>2. Heeds(text, calls) /\ Places(text, Open) = {}
  BY <1>1 DEF HeardWell, Malformed
<1>3. PICK u : u = Flattened(text, calls)
  OBVIOUS
<1>4. Parse(u).text = text /\ Parse(u).calls = calls
  BY <1>2, <1>3, ReadBack
<1>5. Parse(u) = [text |-> Parse(u).text, calls |-> Parse(u).calls]
  BY DEF Parse
<1>6. QED
  BY <1>1, <1>3, <1>4, <1>5

\* A clean fence turn is replayed to the model as the very words and calls that were heard.
THEOREM ReplaysTellTheSame == DialectSpec => []ReplayTellsTheSame
<1>1. DialectInit => HeardWell
  BY HeardWellInit
<1>2. HeardWell /\ [DialectNext]_dialectVars => HeardWell'
  BY HeardWellNext
<1>3. HeardWell => ReplayTellsTheSame
  BY HeardWellTells
<1>4. QED
  BY <1>1, <1>2, <1>3, PTL DEF DialectSpec
=============================================================================
