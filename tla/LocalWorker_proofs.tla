--------------------------- MODULE LocalWorker_proofs ---------------------------
(***************************************************************************)
(* What holds of a worker connection for any number of turns, frames and   *)
(* breaks, and any buffer.  The invariant is built in layers, each proved  *)
(* inductive on top of those before it:                                    *)
(*                                                                         *)
(*   ShapesOK   the types the steps keep by themselves                     *)
(*   PhaseInv   one turn is inside the semaphore, and past its Dial only   *)
(*              on a connection that is up                                 *)
(*   WireInv    what can be in flight: never a frame of a turn that is     *)
(*              not pumping, nothing behind a terminal frame               *)
(*   EventsOK   what pump hands on are Events                              *)
(*   StreamInv  where the numbering of a turn's frames stands, from what   *)
(*              its caller has read to what is still on the wire           *)
(*   CancelInv  a watcher writes once, so a Cancel is in one place         *)
(***************************************************************************)
EXTENDS LocalWorker, SequenceTheorems, FiniteSetTheorems, TLAPS

\* What pump could be handed, were the wire not known to be in order.
Received == [kind : {"data", "lost"} \cup Ends \cup Handshake, of : Turns \cup {NoTurn}, n : Nat]

\* The types that every step keeps whatever else holds.
ShapesOK ==
  /\ pc \in [Turns -> Phases] /\ cancelled \subseteq Turns
  /\ watcher \in [Turns -> {"none", "waiting", "writing"}]
  /\ sending \subseteq Turns
  /\ held \in [Turns -> Seq(Received)] /\ \A t \in Turns : Len(held[t]) <= 1
  /\ chan \in [Turns -> Seq(Received)] /\ \A t \in Turns : Len(chan[t]) <= Buffer
  /\ got \in [Turns -> Seq(Received)]
  /\ link \in {"none", "handshake", "up"} /\ broken \in BOOLEAN
  /\ up \in Seq(UpFrames) /\ down \in Seq(Frames)
  /\ gen \in Turns \cup {NoTurn} /\ sent \in 0..MaxFrames /\ breaks \in 0..MaxBreaks
  /\ abortedBy \in [Turns -> SUBSET Turns]

LEMMA ShapesInit == Init => ShapesOK
<1> SUFFICES ASSUME Init PROVE ShapesOK
  OBVIOUS
<1>1. <<>> \in Seq(Received) /\ <<>> \in Seq(UpFrames) /\ <<>> \in Seq(Frames) /\ Len(<<>>) = 0
  OBVIOUS
<1>2. \A e \in {held, chan, got} : e \in [Turns -> Seq(Received)] /\ \A t \in Turns : e[t] = <<>>
  BY <1>1 DEF Init
<1>3. \A t \in Turns : Len(held[t]) <= 1 /\ Len(chan[t]) <= Buffer
  BY <1>1, <1>2, WorkerAssumption
<1>4. 0 \in 0..MaxFrames /\ 0 \in 0..MaxBreaks
  BY WorkerAssumption
<1> QED BY <1>1, <1>2, <1>3, <1>4 DEF Init, ShapesOK, Phases

\* A dropped connection is empty and nobody generates.
LEMMA DropShapes ==
  ASSUME ShapesOK, Drop
  PROVE  /\ link' \in {"none", "handshake", "up"} /\ broken' \in BOOLEAN
         /\ up' \in Seq(UpFrames) /\ down' \in Seq(Frames)
         /\ gen' \in Turns \cup {NoTurn} /\ sent' \in 0..MaxFrames /\ breaks' \in 0..MaxBreaks
         /\ abortedBy' \in [Turns -> SUBSET Turns]
<1>1. <<>> \in Seq(UpFrames) /\ <<>> \in Seq(Frames) /\ 0 \in 0..MaxFrames
  BY WorkerAssumption
<1>2. breaks' \in 0..MaxBreaks /\ abortedBy' \in [Turns -> SUBSET Turns]
  BY DEF ShapesOK, Drop
<1> QED BY <1>1, <1>2 DEF Drop

LEMMA ShapesStep == ShapesOK /\ [Next]_vars => ShapesOK'
<1> SUFFICES ASSUME ShapesOK, [Next]_vars PROVE ShapesOK'
  OBVIOUS
<1> USE WorkerAssumption
<1>1. CASE UNCHANGED vars
  BY <1>1 DEF ShapesOK, vars, conn, worker, events
<1>2. CASE Answer
  <2>1. PICK r \in Handshake : down' = Append(down, [kind |-> r, of |-> NoTurn, n |-> 0])
    BY <1>2 DEF Answer
  <2>2. [kind |-> r, of |-> NoTurn, n |-> 0] \in Frames
    BY DEF Frames
  <2>3. down' \in Seq(Frames) /\ up' \in Seq(UpFrames)
    BY <1>2, <2>1, <2>2 DEF Answer, Receive, ShapesOK
  <2> QED BY <1>2, <2>3 DEF Answer, ShapesOK, events, worker
<1>3. CASE Generate
  <2>1. Head(up) \in UpFrames /\ up' \in Seq(UpFrames)
    BY <1>3 DEF Generate, Receive, ShapesOK
  <2>2. Head(up).by \in Turns
    BY <2>1 DEF UpFrames
  <2> QED BY <1>3, <2>1, <2>2 DEF Generate, ShapesOK, events
<1>4. CASE Emit
  <2>1. [kind |-> "data", of |-> gen, n |-> sent + 1] \in Frames
    BY DEF Frames, ShapesOK
  <2>2. down' \in Seq(Frames) /\ sent' \in 0..MaxFrames
    BY <1>4, <2>1 DEF Emit, ShapesOK
  <2> QED BY <1>4, <2>2 DEF Emit, ShapesOK, events
<1>5. ASSUME NEW end \in Ends PROVE [kind |-> end, of |-> gen, n |-> sent + 1] \in Frames
  BY DEF Frames, ShapesOK
<1>6. CASE Complete
  <2>1. down' \in Seq(Frames) /\ gen' = NoTurn /\ sent' = 0
    BY <1>5, <1>6 DEF Complete, Finish, Ends, ShapesOK
  <2> QED BY <1>6, <2>1 DEF Complete, ShapesOK, events
<1>7. CASE Abort
  <2>1. Head(up) \in UpFrames /\ up' \in Seq(UpFrames)
    BY <1>7 DEF Abort, Receive, ShapesOK
  <2>2. Head(up).by \in Turns
    BY <2>1 DEF UpFrames
  <2>3. CASE gen = NoTurn
    BY <1>7, <2>1, <2>3 DEF Abort, ShapesOK, events
  <2>4. CASE gen # NoTurn
    <3>1. [kind |-> "cancelled", of |-> gen, n |-> sent + 1] \in Frames
      BY <1>5 DEF Ends
    <3>2. down' = Append(down, [kind |-> "cancelled", of |-> gen, n |-> sent + 1])
      BY <1>7, <2>4 DEF Abort, Finish
    <3>3. down' \in Seq(Frames)
      BY <3>1, <3>2 DEF ShapesOK
    <3>4. gen' = NoTurn /\ sent' = 0
      BY <1>7, <2>4 DEF Abort, Finish
    <3>5. gen \in Turns /\ abortedBy \in [Turns -> SUBSET Turns]
      BY <2>4 DEF ShapesOK
    <3>6. abortedBy[gen] \cup {Head(up).by} \in SUBSET Turns
      BY <2>2, <3>5
    <3>7. abortedBy' \in [Turns -> SUBSET Turns]
      BY <1>7, <2>4, <3>5, <3>6 DEF Abort
    <3> QED BY <1>7, <2>1, <3>3, <3>4, <3>7 DEF Abort, ShapesOK, events
  <2> QED BY <2>3, <2>4
<1>8. CASE Break
  BY <1>8 DEF Break, ShapesOK, events
<1>9. ASSUME NEW t \in Turns, Call(t) \/ Cancel(t) \/ Acquire(t) \/ GiveUp(t) \/ DialFails(t) \/ Return(t)
      PROVE  ShapesOK'
  BY <1>9 DEF Call, Cancel, Acquire, GiveUp, DialFails, Return, ShapesOK, conn, worker, events, Phases
<1>10. ASSUME NEW t \in Turns, EndWatch(t) \/ Notice(t) PROVE ShapesOK'
  BY <1>10 DEF EndWatch, Notice, ShapesOK, conn, worker, events
<1>11. ASSUME NEW t \in Turns, NEW k \in {"hello", "open", "cancel"}
       PROVE  [kind |-> k, by |-> t] \in UpFrames
  BY DEF UpFrames
<1>12. ASSUME NEW t \in Turns, Dial(t) PROVE ShapesOK'
  <2>1. [kind |-> "hello", by |-> t] \in UpFrames
    BY <1>11
  <2>2. up' \in Seq(UpFrames)
    BY <1>12, <2>1 DEF Dial
  <2> QED BY <1>12, <2>2 DEF Dial, ShapesOK, worker, events
<1>13. ASSUME NEW t \in Turns, Connected(t) PROVE ShapesOK'
  <2>1. down' \in Seq(Frames)
    BY <1>13 DEF Connected, Answered, ShapesOK
  <2> QED BY <1>13, <2>1 DEF Connected, ShapesOK, worker, events, Phases
<1>14. ASSUME NEW t \in Turns, HandshakeFails(t) \/ OpenFails(t) PROVE ShapesOK'
  <2>1. Drop
    BY <1>14 DEF HandshakeFails, OpenFails
  <2>2. pc' \in [Turns -> Phases]
    BY <1>14 DEF HandshakeFails, OpenFails, ShapesOK, Phases
  <2> QED BY <1>14, <2>1, <2>2, DropShapes DEF HandshakeFails, OpenFails, ShapesOK, events
<1>15. ASSUME NEW t \in Turns, NEW k \in {"open", "cancel"}
       PROVE  Written([kind |-> k, by |-> t]) \in Seq(UpFrames)
  <2>1. [kind |-> k, by |-> t] \in UpFrames /\ up \in Seq(UpFrames)
    BY <1>11 DEF ShapesOK
  <2>2. Append(up, [kind |-> k, by |-> t]) \in Seq(UpFrames)
    BY <2>1
  <2> QED BY <2>1, <2>2 DEF Written
<1>16. ASSUME NEW t \in Turns, Open(t) PROVE ShapesOK'
  <2>1. up' \in Seq(UpFrames)
    BY <1>15, <1>16 DEF Open
  <2> QED BY <1>16, <2>1 DEF Open, ShapesOK, worker, Phases
<1>17. ASSUME NEW t \in Turns, WriteCancel(t) PROVE ShapesOK'
  <2>1. up' \in Seq(UpFrames)
    BY <1>15, <1>17 DEF WriteCancel, ShapesOK
  <2> QED BY <1>17, <2>1 DEF WriteCancel, AfterCancel, ShapesOK, worker, events
<1>18. ASSUME NEW t \in Turns, NEW f \in Received
       PROVE  EventOf(t, f) \in Seq(Received) /\ Len(EventOf(t, f)) <= 1
  BY DEF EventOf
<1>19. ASSUME NEW t \in Turns, ReadFrame(t) PROVE ShapesOK'
  <2>1. Head(down) \in Frames /\ down' \in Seq(Frames)
    BY <1>19 DEF ReadFrame, ShapesOK
  <2>2. Head(down) \in Received
    BY <2>1 DEF Frames, Received
  <2>3. held' \in [Turns -> Seq(Received)] /\ \A s \in Turns : Len(held'[s]) <= 1
    BY <1>18, <1>19, <2>2 DEF ReadFrame, ShapesOK
  <2>4. pc' \in [Turns -> Phases]
    BY <1>19 DEF ReadFrame, ShapesOK, Phases
  <2> QED BY <1>19, <2>1, <2>3, <2>4 DEF ReadFrame, ShapesOK, worker
<1>20. ASSUME NEW t \in Turns, ReadFails(t) PROVE ShapesOK'
  <2>1. Lost(t) \in Received
    BY DEF Lost, Received, ShapesOK
  <2>2. held' \in [Turns -> Seq(Received)] /\ \A s \in Turns : Len(held'[s]) <= 1
    BY <1>18, <1>20, <2>1 DEF ReadFails, ShapesOK
  <2>3. Drop
    BY <1>20 DEF ReadFails, OnReadError
  <2>4. pc' \in [Turns -> Phases]
    BY <1>20 DEF ReadFails, ShapesOK, Phases
  <2> QED BY <1>20, <2>2, <2>3, <2>4, DropShapes DEF ReadFails, ShapesOK
<1>21. ASSUME NEW t \in Turns, Deliver(t) PROVE ShapesOK'
  <2>1. /\ chan[t] \o held[t] \in Seq(Received)
        /\ Len(chan[t] \o held[t]) = Len(chan[t]) + Len(held[t])
    BY DEF ShapesOK
  <2>2. chan' \in [Turns -> Seq(Received)] /\ \A s \in Turns : Len(chan'[s]) <= Buffer
    BY <1>21, <2>1 DEF Deliver, ShapesOK
  <2>3. held' \in [Turns -> Seq(Received)] /\ \A s \in Turns : Len(held'[s]) <= 1
    BY <1>21 DEF Deliver, ShapesOK
  <2> QED BY <1>21, <2>2, <2>3 DEF Deliver, ShapesOK, conn, worker
<1>22. ASSUME NEW t \in Turns, StopDelivering(t) PROVE ShapesOK'
  <2>1. held' \in [Turns -> Seq(Received)] /\ \A s \in Turns : Len(held'[s]) <= 1
    BY <1>22 DEF StopDelivering, ShapesOK
  <2> QED BY <1>22, <2>1 DEF StopDelivering, ShapesOK, conn, worker
<1>23. ASSUME NEW t \in Turns, Take(t) PROVE ShapesOK'
  <2>1. /\ Head(chan[t]) \in Received /\ Tail(chan[t]) \in Seq(Received)
        /\ Len(Tail(chan[t])) <= Buffer
    BY <1>23 DEF Take, ShapesOK
  <2>2. got' \in [Turns -> Seq(Received)]
    BY <1>23, <2>1 DEF Take, ShapesOK
  <2>3. chan' \in [Turns -> Seq(Received)] /\ \A s \in Turns : Len(chan'[s]) <= Buffer
    BY <1>23, <2>1 DEF Take, ShapesOK
  <2> QED BY <1>23, <2>2, <2>3 DEF Take, ShapesOK, conn, worker
<1> QED
  BY <1>1, <1>2, <1>3, <1>4, <1>6, <1>7, <1>8, <1>9, <1>10, <1>12, <1>13, <1>14, <1>16, <1>17, <1>19,
     <1>20, <1>21, <1>22, <1>23 DEF Next, Worker, Client

-----------------------------------------------------------------------------
\* The semaphore: two turns inside it are the same turn.
OneInside == \A s, t \in Inside : s = t

PhaseInv ==
  /\ OneInside
  /\ \A t \in Turns : pc[t] \in {"opening", "pumping"} => link = "up"

LEMMA PhaseInit == Init => PhaseInv
BY DEF Init, PhaseInv, OneInside, Inside

LEMMA PhaseStep == ShapesOK /\ PhaseInv /\ [Next]_vars => PhaseInv'
<1> SUFFICES ASSUME ShapesOK, PhaseInv, [Next]_vars PROVE PhaseInv'
  OBVIOUS
<1> USE DEF PhaseInv, OneInside, Inside
<1>1. pc \in [Turns -> Phases]
  BY DEF ShapesOK
<1>2. CASE UNCHANGED <<pc, link>>
  BY <1>2
<1>3. ASSUME NEW t \in Turns, Call(t) \/ Acquire(t) PROVE PhaseInv'
  BY <1>1, <1>3 DEF Call, Acquire, SemFree, conn, Phases
<1>4. ASSUME NEW t \in Turns, GiveUp(t) \/ DialFails(t) \/ Return(t) PROVE PhaseInv'
  BY <1>1, <1>4 DEF GiveUp, DialFails, Return, conn
<1>5. ASSUME NEW t \in Turns, Dial(t) \/ Connected(t) PROVE PhaseInv'
  BY <1>1, <1>5 DEF Dial, Connected
<1>6. ASSUME NEW t \in Turns, HandshakeFails(t) \/ OpenFails(t) PROVE PhaseInv'
  BY <1>1, <1>6 DEF HandshakeFails, OpenFails, Drop
<1>7. ASSUME NEW t \in Turns, Open(t) PROVE PhaseInv'
  BY <1>1, <1>7 DEF Open
<1>8. ASSUME NEW t \in Turns, ReadFrame(t) PROVE PhaseInv'
  BY <1>1, <1>8 DEF ReadFrame
<1>9. ASSUME NEW t \in Turns, ReadFails(t) PROVE PhaseInv'
  BY <1>1, <1>9 DEF ReadFails, OnReadError, Drop
<1>10. ASSUME NEW t \in Turns,
              \/ Cancel(t) \/ Deliver(t) \/ StopDelivering(t) \/ EndWatch(t) \/ Notice(t)
              \/ WriteCancel(t) \/ Take(t)
       PROVE  UNCHANGED <<pc, link>>
  BY <1>10 DEF Cancel, Deliver, StopDelivering, EndWatch, Notice, WriteCancel, Take, conn
<1>11. Worker => UNCHANGED <<pc, link>>
  BY DEF Worker, Answer, Generate, Emit, Complete, Abort, Break
<1>12. UNCHANGED vars => UNCHANGED <<pc, link>>
  BY DEF vars, conn
<1> QED
  BY <1>2, <1>3, <1>4, <1>5, <1>6, <1>7, <1>8, <1>9, <1>10, <1>11, <1>12 DEF Next, Client
-----------------------------------------------------------------------------
\* What can be in flight: nothing without a connection, one answer in a handshake; then
\* only frames of a turn that is pumping, a terminal one last, with nobody generating,
\* and an Open only before anything was generated for it.
WireInv ==
  /\ link # "up" => gen = NoTurn
  /\ link = "none" => up = <<>> /\ down = <<>>
  /\ link = "handshake" =>
       \/ down = <<>> /\ (up = <<>> \/ (Len(up) = 1 /\ up[1].kind = "hello"))
       \/ up = <<>> /\ Len(down) = 1
  /\ link = "up" =>
       /\ \A i \in 1..Len(up) : up[i].kind \in {"open", "cancel"}
       /\ \A i \in 1..Len(down) :
            /\ down[i].kind \in {"data", "done", "cancelled"}
            /\ down[i].of \in Turns /\ pc[down[i].of] = "pumping"
            /\ down[i].kind # "data" => i = Len(down) /\ gen = NoTurn
  /\ gen # NoTurn => pc[gen] = "pumping"
  /\ \A i \in 1..Len(up) : up[i].kind = "open" =>
       /\ pc[up[i].by] = "pumping" /\ down = <<>> /\ gen = NoTurn
       /\ \A j \in 1..Len(up) : up[j].kind = "open" => i = j

LEMMA WireInit == Init => WireInv
BY DEF Init, WireInv

\* A connection that is left alone stays in order while its turn is pumping.
LEMMA WireKept ==
  ASSUME WireInv, UNCHANGED <<link, up, down, gen>>,
         \A x \in Turns : pc[x] = "pumping" => pc'[x] = "pumping",
         gen \in Turns \cup {NoTurn}, \A i \in 1..Len(up) : up[i].by \in Turns
  PROVE  WireInv'
BY DEF WireInv

LEMMA WireDropped == ASSUME Drop PROVE WireInv'
BY DEF Drop, WireInv

LEMMA WireStep == ShapesOK /\ PhaseInv /\ WireInv /\ [Next]_vars => WireInv'
<1> SUFFICES ASSUME ShapesOK, PhaseInv, WireInv, [Next]_vars PROVE WireInv'
  OBVIOUS
<1>1. /\ pc \in [Turns -> Phases] /\ gen \in Turns \cup {NoTurn}
      /\ up \in Seq(UpFrames) /\ down \in Seq(Frames)
      /\ \A i \in 1..Len(up) : up[i].by \in Turns
  <2>1. \A i \in 1..Len(up) : up[i] \in UpFrames
    BY DEF ShapesOK
  <2> QED BY <2>1 DEF ShapesOK, UpFrames
<1>2. ASSUME UNCHANGED <<link, up, down, gen, pc>> PROVE WireInv'
  BY <1>1, <1>2, WireKept
<1>3. CASE UNCHANGED vars
  BY <1>2, <1>3 DEF vars, conn, worker
<1>4. ASSUME NEW t \in Turns, Call(t) \/ Acquire(t) \/ GiveUp(t) \/ DialFails(t) \/ Return(t)
      PROVE  WireInv'
  <2>1. UNCHANGED <<link, up, down, gen>> /\ \A x \in Turns : pc[x] = "pumping" => pc'[x] = "pumping"
    BY <1>1, <1>4 DEF Call, Acquire, GiveUp, DialFails, Return, conn, worker
  <2> QED BY <1>1, <2>1, WireKept
<1>5. ASSUME NEW t \in Turns,
             \/ Cancel(t) \/ Deliver(t) \/ StopDelivering(t) \/ EndWatch(t) \/ Notice(t) \/ Take(t)
      PROVE  WireInv'
  BY <1>2, <1>5 DEF Cancel, Deliver, StopDelivering, EndWatch, Notice, Take, conn, worker
<1>6. ASSUME NEW t \in Turns, HandshakeFails(t) \/ OpenFails(t) \/ ReadFails(t) PROVE WireInv'
  BY <1>6, WireDropped DEF HandshakeFails, OpenFails, ReadFails, OnReadError
<1>7. ASSUME NEW t \in Turns, Dial(t) PROVE WireInv'
  BY <1>1, <1>7 DEF Dial, WireInv, worker
<1>8. ASSUME NEW t \in Turns, Connected(t) PROVE WireInv'
  <2>1. up = <<>> /\ Len(down) = 1 /\ gen = NoTurn
    BY <1>8 DEF Connected, Answered, WireInv
  <2>2. down' = <<>> /\ up' = <<>> /\ gen' = NoTurn /\ link' = "up"
    BY <1>1, <1>8, <2>1 DEF Connected, worker
  <2> QED BY <2>2 DEF WireInv
<1>9. ASSUME NEW t \in Turns, Open(t) PROVE WireInv'
  <2>1. link = "up" /\ \A x \in Turns : pc[x] # "pumping"
    BY <1>9 DEF Open, PhaseInv, OneInside, Inside
  <2>2. gen = NoTurn /\ down = <<>> /\ \A i \in 1..Len(up) : up[i].kind = "cancel"
    BY <1>1, <2>1 DEF WireInv
  <2>3. link' = "up" /\ down' = <<>> /\ gen' = NoTurn /\ pc'[t] = "pumping"
    BY <1>1, <1>9, <2>1, <2>2 DEF Open, worker
  <2>4. CASE broken
    BY <1>9, <2>2, <2>3, <2>4 DEF Open, Written, WireInv
  <2>5. CASE ~broken
    <3>1. up' = Append(up, [kind |-> "open", by |-> t])
      BY <1>9, <2>5 DEF Open, Written
    <3>2. /\ Len(up') = Len(up) + 1 /\ Len(up) \in Nat
          /\ up'[Len(up) + 1] = [kind |-> "open", by |-> t]
          /\ \A i \in 1..Len(up) : up'[i] = up[i]
      BY <1>1, <3>1
    <3>3. \A i \in 1..Len(up') : \/ up'[i].kind = "cancel" 
                                 \/ i = Len(up) + 1 /\ up'[i].kind = "open" /\ up'[i].by = t
      BY <2>2, <3>2
    <3> QED BY <2>3, <3>3 DEF WireInv
  <2> QED BY <2>4, <2>5
<1>10. ASSUME NEW t \in Turns, ReadFrame(t) PROVE WireInv'
  <2>1. /\ link = "up" /\ down # <<>> /\ down' = Tail(down) /\ UNCHANGED <<link, up, gen>>
        /\ pc[t] = "pumping" 
    BY <1>10 DEF ReadFrame, PhaseInv, worker
  <2>2. /\ Len(down') = Len(down) - 1 /\ Head(down) = down[1] /\ 1 \in 1..Len(down)
        /\ \A i \in 1..Len(down') : down'[i] = down[i + 1] /\ i + 1 \in 1..Len(down)
    BY <1>1, <2>1
  <2>3. \A i \in 1..Len(up) : up[i].kind = "cancel"
    BY <1>1, <2>1 DEF WireInv
  <2>4. CASE Head(down).kind \in Ends
    <3>1. Len(down) = 1 /\ gen = NoTurn
      BY <1>1, <2>1, <2>2, <2>4 DEF WireInv, Ends
    <3>2. Len(down') = 0
      BY <2>2, <3>1
    <3>3. link' = "up" /\ gen' = NoTurn /\ \A i \in 1..Len(up') : up'[i].kind = "cancel"
      BY <2>1, <2>3, <3>1
    <3> QED BY <3>2, <3>3 DEF WireInv
  <2>5. CASE Head(down).kind \notin Ends
    <3>1. pc' = pc
      BY <1>10, <2>5 DEF ReadFrame, Terminal
    <3>2. \A i \in 1..Len(down') :
            /\ down'[i].kind \in {"data", "done", "cancelled"}
            /\ down'[i].of \in Turns /\ pc'[down'[i].of] = "pumping"
            /\ down'[i].kind # "data" => i = Len(down') /\ gen' = NoTurn
      <4> TAKE i \in 1..Len(down')
      <4>1. down'[i] = down[i + 1] /\ i + 1 \in 1..Len(down) /\ (i + 1 = Len(down) => i = Len(down'))
        BY <1>1, <2>2
      <4>2. /\ down[i + 1].kind \in {"data", "done", "cancelled"}
            /\ down[i + 1].of \in Turns /\ pc[down[i + 1].of] = "pumping"
            /\ down[i + 1].kind # "data" => i + 1 = Len(down) /\ gen = NoTurn
        BY <2>1, <4>1 DEF WireInv
      <4> QED BY <2>1, <3>1, <4>1, <4>2
    <3>3. link' = "up" /\ \A i \in 1..Len(up') : up'[i].kind = "cancel"
      BY <2>1, <2>3
    <3>4. gen' # NoTurn => pc'[gen'] = "pumping"
      BY <2>1, <3>1 DEF WireInv
    <3> QED BY <3>2, <3>3, <3>4 DEF WireInv
  <2> QED BY <2>4, <2>5
<1>11. ASSUME NEW t \in Turns, WriteCancel(t) PROVE WireInv'
  <2>1. UNCHANGED <<pc, link, down, gen>>
    BY <1>11 DEF WriteCancel, worker
  <2>2. CASE link # "up" \/ broken
    BY <1>2, <1>11, <2>1, <2>2 DEF WriteCancel, Written
  <2>3. CASE link = "up" /\ ~broken
    <3>1. up' = Append(up, [kind |-> "cancel", by |-> t])
      BY <1>11, <2>3 DEF WriteCancel, Written
    <3>2. /\ Len(up') = Len(up) + 1 /\ Len(up) \in Nat
          /\ up'[Len(up) + 1].kind = "cancel"
          /\ \A i \in 1..Len(up) : up'[i] = up[i]
      BY <1>1, <3>1
    <3> QED BY <1>1, <2>1, <2>3, <3>2, SMTT(30) DEF WireInv
  <2> QED BY <2>2, <2>3
<1>12. ASSUME up # <<>> 
       PROVE /\ Len(Tail(up)) = Len(up) - 1 /\ Head(up) = up[1] /\ 1 \in 1..Len(up)
             /\ \A i \in 1..Len(Tail(up)) : Tail(up)[i] = up[i + 1] /\ i + 1 \in 1..Len(up) /\ i + 1 # 1
  BY <1>1, <1>12
<1>13. CASE Answer
  <2>1. up # <<>> /\ up[1].kind = "hello" /\ up' = Tail(up) /\ UNCHANGED <<link, gen>>
    BY <1>13 DEF Answer, Receive, worker
  <2>2. link # "up" /\ link # "none"
    BY <1>12, <2>1 DEF WireInv
  <2>3. link = "handshake" /\ down = <<>> /\ Len(up) = 1 /\ gen = NoTurn
    BY <2>1, <2>2 DEF WireInv, ShapesOK
  <2>4. up' = <<>> /\ Len(up') = 0
    BY <1>1, <2>1, <2>3
  <2>5. Len(down') = 1
    BY <1>1, <1>13, <2>3 DEF Answer
  <2>6. link' = "handshake" /\ gen' = NoTurn
    BY <2>1, <2>3
  <2> QED BY <2>4, <2>5, <2>6 DEF WireInv
<1>14. CASE Generate
  <2>1. /\ up # <<>> /\ up[1].kind = "open" /\ up' = Tail(up) /\ UNCHANGED <<link, down, pc>>
        /\ gen' = up[1].by /\ up[1].by \in Turns
    BY <1>1, <1>14 DEF Generate, Receive
  <2>2. link = "up" /\ pc[up[1].by] = "pumping" /\ down = <<>>
    BY <1>1, <1>12, <2>1 DEF WireInv, ShapesOK
  <2>3. \A i \in 1..Len(up') : up'[i].kind = "cancel"
    BY <1>12, <2>1, <2>2 DEF WireInv
  <2> QED BY <2>1, <2>2, <2>3 DEF WireInv
<1>15. ASSUME gen # NoTurn
       PROVE  /\ link = "up" /\ gen \in Turns /\ pc[gen] = "pumping"
              /\ \A i \in 1..Len(up) : up[i].kind = "cancel"
              /\ \A i \in 1..Len(down) : down[i].kind = "data"
  BY <1>1, <1>15 DEF WireInv
<1>16. CASE Emit
  <2>1. /\ gen # NoTurn /\ UNCHANGED <<pc, link, up, gen>>
        /\ down' = Append(down, [kind |-> "data", of |-> gen, n |-> sent + 1])
    BY <1>16 DEF Emit
  <2>2. /\ Len(down') = Len(down) + 1 /\ Len(down) \in Nat
        /\ down'[Len(down) + 1].kind = "data" /\ down'[Len(down) + 1].of = gen
        /\ \A i \in 1..Len(down) : down'[i] = down[i]
    BY <1>1, <2>1
  <2>3. \A i \in 1..Len(down') : down'[i].kind = "data" /\ down'[i].of \in Turns /\ pc[down'[i].of] = "pumping"
    BY <1>15, <2>1, <2>2 DEF WireInv
  <2> QED BY <1>15, <2>1, <2>3 DEF WireInv
<1>17. ASSUME NEW end \in Ends, Finish(end), gen # NoTurn, UNCHANGED <<pc, link>>,
              \A i \in 1..Len(up') : up'[i].kind = "cancel"
       PROVE  WireInv'
  <2>1. down' = Append(down, [kind |-> end, of |-> gen, n |-> sent + 1]) /\ gen' = NoTurn
    BY <1>17 DEF Finish
  <2>2. /\ Len(down') = Len(down) + 1 /\ Len(down) \in Nat
        /\ down'[Len(down) + 1].kind = end /\ down'[Len(down) + 1].of = gen
        /\ \A i \in 1..Len(down) : down'[i] = down[i]
    BY <1>1, <2>1
  <2>3. \A i \in 1..Len(down') :
          /\ down'[i].kind \in {"data", "done", "cancelled"}
          /\ down'[i].of \in Turns /\ pc[down'[i].of] = "pumping"
          /\ down'[i].kind # "data" => i = Len(down')
    BY <1>15, <1>17, <2>2 DEF WireInv, Ends
  <2> QED BY <1>15, <1>17, <2>1, <2>3 DEF WireInv
<1>18. CASE Complete
  BY <1>15, <1>17, <1>18 DEF Complete, Ends
<1>19. CASE Abort
  <2>1. up # <<>> /\ up[1].kind = "cancel" /\ up' = Tail(up) /\ UNCHANGED <<pc, link>>
    BY <1>19 DEF Abort, Receive
  <2>2. link = "up"
    BY <1>1, <2>1 DEF WireInv, ShapesOK
  <2>3. CASE gen = NoTurn
    <3>1. UNCHANGED <<down, gen>>
      BY <1>19, <2>3 DEF Abort
    <3> QED BY <1>1, <1>12, <2>1, <2>2, <3>1 DEF WireInv
  <2>4. CASE gen # NoTurn
    <3>1. Finish("cancelled")
      BY <1>19, <2>4 DEF Abort
    <3>2. \A i \in 1..Len(up') : up'[i].kind = "cancel"
      BY <1>12, <1>15, <2>1, <2>4
    <3> QED BY <1>17, <2>1, <2>4, <3>1, <3>2 DEF Ends
  <2> QED BY <2>3, <2>4
<1>20. CASE Break
  <2>1. link # "none" /\ up' = <<>> /\ gen' = NoTurn /\ UNCHANGED <<pc, link, down>>
    BY <1>20 DEF Break
  <2>2. link = "handshake" => down = <<>> \/ Len(down) = 1
    BY DEF WireInv
  <2>3. link = "up" => \A i \in 1..Len(down) : down[i].kind # "data" => i = Len(down)
    BY DEF WireInv
  <2> QED BY <2>1, <2>2, <2>3 DEF WireInv
<1> QED
  BY <1>3, <1>4, <1>5, <1>6, <1>7, <1>8, <1>9, <1>10, <1>11, <1>13, <1>14, <1>16, <1>18, <1>19, <1>20
     DEF Next, Worker, Client
-----------------------------------------------------------------------------
(* The sequences a stream is made of.                                      *)

\* Three sequences one after the other, as Stream puts them.
Joined(g, c, h) == g \o c \o h

\* The same stream, put together differently.
SameJoin(f, d, e, g, c, h) == Joined(f, d, e) = Joined(g, c, h)

\* One event x more.
Longer(a, b, x) ==
  /\ Len(b) = Len(a) + 1 /\ b[Len(a) + 1] = x
  /\ \A i \in 1..Len(a) : b[i] = a[i]

\* A beginning of b.
Begins(a, b) == Len(a) <= Len(b) /\ \A i \in 1..Len(a) : a[i] = b[i]

\* Delivering what is held does not change what a turn has been given.
LEMMA JoinedDelivered ==
  ASSUME NEW S, NEW g \in Seq(S), NEW c \in Seq(S), NEW h \in Seq(S),
         NEW d \in Seq(S), d = c \o h, NEW e \in Seq(S), Len(e) = 0
  PROVE  SameJoin(g, d, e, g, c, h)
<1>1. Len(d) = Len(c) + Len(h)
  OBVIOUS
<1>2. \A i \in 1..(Len(c) + Len(h)) : d[i] = IF i <= Len(c) THEN c[i] ELSE h[i - Len(c)]
  OBVIOUS
<1> DEFINE a == Joined(g, d, e)  b == Joined(g, c, h)
<1>3. /\ a \in Seq(S) /\ Len(a) = Len(g) + Len(d) + Len(e)
      /\ b \in Seq(S) /\ Len(b) = Len(g) + Len(c) + Len(h)
  BY DEF Joined
<1>4. \A i \in 1..(Len(g) + Len(d) + Len(e)) :
        a[i] = IF i <= Len(g) THEN g[i]
               ELSE IF i <= Len(g) + Len(d) THEN d[i - Len(g)] ELSE e[i - Len(g) - Len(d)]
  BY DEF Joined
<1>5. \A i \in 1..(Len(g) + Len(c) + Len(h)) :
        b[i] = IF i <= Len(g) THEN g[i]
               ELSE IF i <= Len(g) + Len(c) THEN c[i - Len(g)] ELSE h[i - Len(g) - Len(c)]
  BY DEF Joined
<1> HIDE DEF a, b
<1>l. Len(g) \in Nat /\ Len(c) \in Nat /\ Len(h) \in Nat
  OBVIOUS
<1>6. \A i \in 1..Len(b) : a[i] = b[i]
  <2> TAKE i \in 1..Len(b)
  <2>1. i \in Nat \ {0} /\ i <= Len(g) + Len(c) + Len(h)
    BY <1>3, <1>l
  <2>2. i \in 1..(Len(g) + Len(d) + Len(e)) /\ i \in 1..(Len(g) + Len(c) + Len(h))
    BY <1>1, <1>l, <2>1
  <2>3. CASE i <= Len(g)
    BY <1>4, <1>5, <2>2, <2>3
  <2>4. CASE i > Len(g)
    <3>1. i - Len(g) \in 1..(Len(c) + Len(h)) /\ i <= Len(g) + Len(d)
      BY <1>1, <1>l, <2>1, <2>4
    <3>2. a[i] = d[i - Len(g)]
      BY <1>4, <1>l, <2>2, <2>4, <3>1, SMTT(30)
    <3>3. d[i - Len(g)] = IF i <= Len(g) + Len(c) THEN c[i - Len(g)] ELSE h[i - Len(g) - Len(c)]
      BY <1>2, <1>l, <3>1
    <3> QED BY <1>5, <1>l, <2>2, <2>4, <3>2, <3>3
  <2> QED BY <1>l, <2>1, <2>3, <2>4
<1>7. a = b
  <2>1. Len(a) = Len(b)
    BY <1>1, <1>3, <1>l
  <2> QED BY <1>3, <1>6, <2>1, SeqEqual
<1> QED BY <1>7 DEF a, b, SameJoin

\* Nor does taking the first event of the channel.
LEMMA JoinedTaken ==
  ASSUME NEW S, NEW g \in Seq(S), NEW c \in Seq(S), NEW h \in Seq(S), c # <<>>,
         NEW f \in Seq(S), f = Append(g, Head(c)), NEW d \in Seq(S), d = Tail(c)
  PROVE  SameJoin(f, d, h, g, c, h)
<1>1. Len(f) = Len(g) + 1 /\ Len(d) = Len(c) - 1 /\ Len(c) \in Nat \ {0}
  OBVIOUS
<1>2. \A i \in 1..(Len(g) + 1) : f[i] = IF i <= Len(g) THEN g[i] ELSE c[1]
  OBVIOUS
<1>3. \A i \in 1..(Len(c) - 1) : d[i] = c[i + 1]
  OBVIOUS
<1> DEFINE a == Joined(f, d, h)  b == Joined(g, c, h)
<1>4. /\ a \in Seq(S) /\ Len(a) = Len(f) + Len(d) + Len(h)
      /\ b \in Seq(S) /\ Len(b) = Len(g) + Len(c) + Len(h)
  BY DEF Joined
<1>5. \A i \in 1..(Len(f) + Len(d) + Len(h)) :
        a[i] = IF i <= Len(f) THEN f[i]
               ELSE IF i <= Len(f) + Len(d) THEN d[i - Len(f)] ELSE h[i - Len(f) - Len(d)]
  BY DEF Joined
<1>6. \A i \in 1..(Len(g) + Len(c) + Len(h)) :
        b[i] = IF i <= Len(g) THEN g[i]
               ELSE IF i <= Len(g) + Len(c) THEN c[i - Len(g)] ELSE h[i - Len(g) - Len(c)]
  BY DEF Joined
<1> HIDE DEF a, b
<1>l. Len(g) \in Nat /\ Len(c) \in Nat /\ Len(h) \in Nat
  OBVIOUS
<1>7. \A i \in 1..Len(b) : a[i] = b[i]
  <2> TAKE i \in 1..Len(b)
  <2>1. i \in Nat \ {0} /\ i <= Len(g) + Len(c) + Len(h)
    BY <1>4, <1>l
  <2>2. i \in 1..(Len(f) + Len(d) + Len(h)) /\ i \in 1..(Len(g) + Len(c) + Len(h))
    BY <1>1, <1>l, <2>1
  <2>3. CASE i <= Len(g)
    BY <1>1, <1>2, <1>5, <1>6, <1>l, <2>2, <2>3
  <2>4. CASE i = Len(g) + 1
    <3>1. a[i] = f[i] /\ f[i] = c[1]
      BY <1>1, <1>2, <1>5, <1>l, <2>2, <2>4
    <3>2. b[i] = c[i - Len(g)] /\ i - Len(g) = 1
      BY <1>1, <1>6, <1>l, <2>2, <2>4
    <3> QED BY <3>1, <3>2
  <2>5. CASE i > Len(g) + 1 /\ i <= Len(g) + Len(c)
    <3>1. a[i] = d[i - Len(f)] /\ i - Len(f) \in 1..(Len(c) - 1) /\ i - Len(f) + 1 = i - Len(g)
      BY <1>1, <1>5, <1>l, <2>2, <2>5
    <3>2. b[i] = c[i - Len(g)]
      BY <1>6, <1>l, <2>2, <2>5
    <3> QED BY <1>3, <3>1, <3>2
  <2>6. CASE i > Len(g) + Len(c)
    <3>1. /\ i - Len(f) - Len(d) = i - Len(g) - Len(c)
          /\ ~(i <= Len(f)) /\ ~(i <= Len(f) + Len(d)) /\ ~(i <= Len(g))
      BY <1>1, <1>l, <2>1, <2>6
    <3>2. a[i] = h[i - Len(f) - Len(d)]
      BY <1>5, <2>2, <3>1
    <3>3. b[i] = h[i - Len(g) - Len(c)]
      BY <1>1, <1>6, <1>l, <2>2, <2>6
    <3> QED BY <3>1, <3>2, <3>3
  <2> QED BY <1>1, <1>l, <2>1, <2>3, <2>4, <2>5, <2>6
<1>8. a = b
  <2>1. Len(a) = Len(b)
    BY <1>1, <1>4, <1>l
  <2> QED BY <1>4, <1>7, <2>1, SeqEqual
<1> QED BY <1>8 DEF a, b, SameJoin

\* What pump holds is the last thing a turn has been given; nothing held is nothing given.
LEMMA JoinedHeld ==
  ASSUME NEW S, NEW g \in Seq(S), NEW c \in Seq(S), NEW e \in Seq(S), Len(e) = 0,
         NEW h \in Seq(S), NEW x \in S, h = <<x>>
  PROVE  Longer(Joined(g, c, e), Joined(g, c, h), x)
<1>1. Len(h) = 1 /\ h[1] = x
  OBVIOUS
<1> DEFINE a == Joined(g, c, e)  b == Joined(g, c, h)
<1>2. /\ a \in Seq(S) /\ Len(a) = Len(g) + Len(c) + Len(e)
      /\ b \in Seq(S) /\ Len(b) = Len(g) + Len(c) + Len(h)
  BY DEF Joined
<1>3. \A i \in 1..(Len(g) + Len(c) + Len(e)) :
        a[i] = IF i <= Len(g) THEN g[i]
               ELSE IF i <= Len(g) + Len(c) THEN c[i - Len(g)] ELSE e[i - Len(g) - Len(c)]
  BY DEF Joined
<1>4. \A i \in 1..(Len(g) + Len(c) + Len(h)) :
        b[i] = IF i <= Len(g) THEN g[i]
               ELSE IF i <= Len(g) + Len(c) THEN c[i - Len(g)] ELSE h[i - Len(g) - Len(c)]
  BY DEF Joined
<1> HIDE DEF a, b
<1>l. Len(g) \in Nat /\ Len(c) \in Nat
  OBVIOUS
<1>5. Len(a) = Len(g) + Len(c) /\ Len(b) = Len(a) + 1
  BY <1>1, <1>2, <1>l
<1>6. b[Len(a) + 1] = x
  <2>1. Len(a) + 1 \in 1..(Len(g) + Len(c) + Len(h)) /\ Len(a) + 1 - Len(g) - Len(c) = 1
    BY <1>1, <1>5, <1>l
  <2>2. b[Len(a) + 1] = h[Len(a) + 1 - Len(g) - Len(c)]
    BY <1>4, <1>5, <1>l, <2>1
  <2> QED BY <1>1, <2>1, <2>2
<1>7. \A i \in 1..Len(a) : b[i] = a[i]
  <2> TAKE i \in 1..Len(a)
  <2>1. /\ i \in 1..(Len(g) + Len(c) + Len(e)) /\ i \in 1..(Len(g) + Len(c) + Len(h))
        /\ i <= Len(g) + Len(c)
    BY <1>1, <1>5, <1>l
  <2> QED BY <1>3, <1>4, <2>1
<1> QED BY <1>5, <1>6, <1>7 DEF a, b, Longer

\* A turn that no longer delivers has been given a beginning of what it had.
LEMMA JoinedShorter ==
  ASSUME NEW S, NEW g \in Seq(S), NEW c \in Seq(S), NEW h \in Seq(S), NEW e \in Seq(S), Len(e) = 0
  PROVE  Begins(Joined(g, c, e), Joined(g, c, h))
<1> DEFINE a == Joined(g, c, e)  b == Joined(g, c, h)
<1>2. /\ a \in Seq(S) /\ Len(a) = Len(g) + Len(c) + Len(e)
      /\ b \in Seq(S) /\ Len(b) = Len(g) + Len(c) + Len(h)
  BY DEF Joined
<1>3. \A i \in 1..(Len(g) + Len(c) + Len(e)) :
        a[i] = IF i <= Len(g) THEN g[i]
               ELSE IF i <= Len(g) + Len(c) THEN c[i - Len(g)] ELSE e[i - Len(g) - Len(c)]
  BY DEF Joined
<1>4. \A i \in 1..(Len(g) + Len(c) + Len(h)) :
        b[i] = IF i <= Len(g) THEN g[i]
               ELSE IF i <= Len(g) + Len(c) THEN c[i - Len(g)] ELSE h[i - Len(g) - Len(c)]
  BY DEF Joined
<1> HIDE DEF a, b
<1>l. Len(g) \in Nat /\ Len(c) \in Nat /\ Len(h) \in Nat
  OBVIOUS
<1>5. Len(a) <= Len(b)
  BY <1>2, <1>l
<1>6. \A i \in 1..Len(a) : a[i] = b[i]
  <2> TAKE i \in 1..Len(a)
  <2>1. /\ i \in 1..(Len(g) + Len(c) + Len(e)) /\ i \in 1..(Len(g) + Len(c) + Len(h))
        /\ i <= Len(g) + Len(c)
    BY <1>2, <1>l
  <2> QED BY <1>3, <1>4, <2>1
<1> QED BY <1>5, <1>6 DEF a, b, Begins
-----------------------------------------------------------------------------
Before == {"new", "waiting", "connecting", "opening"}
After  == {"closed", "over"}

\* Where the numbering stands for the turn that is pumping: the frames on the wire go on
\* where its stream ends, and the generation where the wire ends.
OnWire(t) ==
  /\ \A i \in 1..Len(Stream(t)) : Stream(t)[i].kind = "data"
  /\ \A i \in 1..Len(down) : down[i].n = Len(Stream(t)) + i
  /\ gen = t => sent = Len(Stream(t)) + Len(down)
  /\ \A i \in 1..Len(up) : up[i].kind = "open" => Stream(t) = <<>>

Numbered(s, t) ==
  \A i \in 1..Len(s) : s[i].of = t /\ s[i].n = i /\ (i < Len(s) => s[i].kind = "data")

StreamAt(t) ==
  /\ pc[t] \in Before => t \notin sending /\ Stream(t) = <<>>
  /\ Numbered(Stream(t), t)
  /\ t \in sending /\ pc[t] \in After =>
       Stream(t) # <<>> /\ Stream(t)[Len(Stream(t))].kind # "data"
  /\ t \in sending /\ pc[t] = "pumping" => OnWire(t)

StreamInv == \A t \in Turns : StreamAt(t)

LEMMA StreamType == ASSUME ShapesOK, NEW t \in Turns
                    PROVE  Stream(t) \in Seq(Received) /\ Len(Stream(t)) \in Nat
<1>1. got[t] \in Seq(Received) /\ chan[t] \in Seq(Received) /\ held[t] \in Seq(Received)
  BY DEF ShapesOK
<1>2. got[t] \o chan[t] \in Seq(Received)
  BY <1>1
<1>3. Stream(t) \in Seq(Received)
  BY <1>1, <1>2 DEF Stream
<1> QED BY <1>3

LEMMA StreamInit == Init => StreamInv
<1> SUFFICES ASSUME Init, NEW t \in Turns PROVE StreamAt(t)
  BY DEF StreamInv
<1>1. pc[t] = "new" /\ t \notin sending /\ got[t] = <<>> /\ chan[t] = <<>> /\ held[t] = <<>>
  BY DEF Init
<1>2. Stream(t) = <<>> /\ Len(Stream(t)) = 0
  BY <1>1 DEF Stream
<1>3. Numbered(Stream(t), t)
  BY <1>2 DEF Numbered
<1> QED BY <1>1, <1>2, <1>3 DEF StreamAt, After

\* A stream that does not change keeps what is known of it.
LEMMA StreamSame ==
  ASSUME NEW t \in Turns, StreamAt(t), Stream(t)' = Stream(t), t \in sending' => t \in sending,
         pc'[t] \in Before => pc[t] \in Before,
         t \in sending' /\ pc'[t] \in After => pc[t] \in After,
         t \in sending' /\ pc'[t] = "pumping" => OnWire(t)'
  PROVE  StreamAt(t)'
BY DEF StreamAt

\* Nor does a wire that does not change.
LEMMA WireSame ==
  ASSUME NEW t \in Turns, OnWire(t), Stream(t)' = Stream(t), UNCHANGED <<down, gen, sent>>,
         (\E i \in 1..Len(up') : up'[i].kind = "open") => \E i \in 1..Len(up) : up[i].kind = "open"
  PROVE  OnWire(t)'
BY DEF OnWire

LEMMA EventsSame == UNCHANGED <<held, chan, got>> => \A t \in Turns : Stream(t)' = Stream(t)
BY DEF Stream

\* What pump is handed is the next thing its turn is given.
LEMMA StreamGrows ==
  ASSUME ShapesOK, NEW t \in Turns, NEW f \in Received, t \in sending, held[t] = <<>>,
         held' = [held EXCEPT ![t] = EventOf(t, f)], UNCHANGED <<chan, got>>
  PROVE  /\ Longer(Stream(t), Stream(t)', f)
         /\ \A x \in Turns \ {t} : Stream(x)' = Stream(x)
<1>1. /\ got[t] \in Seq(Received) /\ chan[t] \in Seq(Received) /\ held[t] \in Seq(Received)
      /\ Len(held[t]) = 0
  BY DEF ShapesOK
<1>2. held'[t] = <<f>> /\ \A x \in Turns \ {t} : held'[x] = held[x]
  BY DEF ShapesOK, EventOf
<1>3. held'[t] \in Seq(Received)
  <2>1. <<f>> \in Seq(Received)
    OBVIOUS
  <2> QED BY <1>2, <2>1
<1>4. Stream(t) = Joined(got[t], chan[t], held[t]) /\ Stream(t)' = Joined(got[t], chan[t], held'[t])
  BY DEF Stream, Joined
<1>5. Longer(Joined(got[t], chan[t], held[t]), Joined(got[t], chan[t], held'[t]), f)
  BY <1>1, <1>2, <1>3, JoinedHeld
<1>6. \A x \in Turns \ {t} : Stream(x)' = Stream(x)
  BY <1>2 DEF Stream
<1> QED BY <1>4, <1>5, <1>6

\* Not for a turn that no longer delivers.
LEMMA StreamStays ==
  ASSUME ShapesOK, NEW t \in Turns, NEW f, t \notin sending, held[t] = <<>>,
         held' = [held EXCEPT ![t] = EventOf(t, f)], UNCHANGED <<chan, got>>
  PROVE  \A x \in Turns : Stream(x)' = Stream(x)
<1>1. \A x \in Turns : held'[x] = held[x]
  BY DEF ShapesOK, EventOf
<1> QED BY <1>1 DEF Stream

LEMMA StreamLength ==
  ASSUME ShapesOK, NEW t \in Turns, held[t] = <<>>
  PROVE  Len(Stream(t)) = Len(got[t]) + Len(chan[t])
<1>1. got[t] \in Seq(Received) /\ chan[t] \in Seq(Received)
  BY DEF ShapesOK
<1> QED BY <1>1 DEF Stream

\* A turn that stops delivering keeps the beginning of its stream.
LEMMA StreamStopped ==
  ASSUME ShapesOK, NEW t \in Turns, StopDelivering(t)
  PROVE  /\ Begins(Stream(t)', Stream(t))
         /\ \A x \in Turns \ {t} : Stream(x)' = Stream(x)
<1>1. got[t] \in Seq(Received) /\ chan[t] \in Seq(Received) /\ held[t] \in Seq(Received)
  BY DEF ShapesOK
<1>2. /\ held'[t] = <<>> /\ UNCHANGED <<got, chan>>
      /\ \A x \in Turns \ {t} : held'[x] = held[x]
  BY DEF StopDelivering, ShapesOK
<1>3. held'[t] \in Seq(Received) /\ Len(held'[t]) = 0
  BY <1>2
<1>4. Begins(Joined(got[t], chan[t], held'[t]), Joined(got[t], chan[t], held[t]))
  BY <1>1, <1>3, JoinedShorter
<1>5. Stream(t) = Joined(got[t], chan[t], held[t]) /\ Stream(t)' = Joined(got[t], chan[t], held'[t])
  BY <1>2 DEF Stream, Joined
<1>6. \A x \in Turns \ {t} : Stream(x)' = Stream(x)
  BY <1>2 DEF Stream
<1> QED BY <1>4, <1>5, <1>6

LEMMA StreamDelivered ==
  ASSUME ShapesOK, NEW t \in Turns, Deliver(t)
  PROVE  \A x \in Turns : Stream(x)' = Stream(x)
<1>1. got[t] \in Seq(Received) /\ chan[t] \in Seq(Received) /\ held[t] \in Seq(Received)
  BY DEF ShapesOK
<1>2. /\ chan'[t] = chan[t] \o held[t] /\ held'[t] = <<>> /\ got' = got
      /\ \A x \in Turns \ {t} : chan'[x] = chan[x] /\ held'[x] = held[x]
  BY DEF Deliver, ShapesOK
<1>3. chan'[t] \in Seq(Received) /\ held'[t] \in Seq(Received) /\ Len(held'[t]) = 0
  BY <1>1, <1>2
<1>4. SameJoin(got[t], chan'[t], held'[t], got[t], chan[t], held[t])
  BY <1>1, <1>2, <1>3, JoinedDelivered
<1>5. Stream(t)' = Stream(t)
  BY <1>2, <1>4 DEF Stream, Joined, SameJoin
<1> QED BY <1>2, <1>5 DEF Stream

LEMMA StreamTaken ==
  ASSUME ShapesOK, NEW t \in Turns, Take(t)
  PROVE  \A x \in Turns : Stream(x)' = Stream(x)
<1>1. got[t] \in Seq(Received) /\ chan[t] \in Seq(Received) /\ held[t] \in Seq(Received)
  BY DEF ShapesOK
<1>2. /\ got'[t] = Append(got[t], Head(chan[t])) /\ chan'[t] = Tail(chan[t]) /\ held' = held
      /\ \A x \in Turns \ {t} : chan'[x] = chan[x] /\ got'[x] = got[x]
      /\ chan[t] # <<>>
  BY DEF Take, ShapesOK
<1>3. chan'[t] \in Seq(Received) /\ got'[t] \in Seq(Received)
  BY <1>1, <1>2
<1>4. SameJoin(got'[t], chan'[t], held[t], got[t], chan[t], held[t])
  BY <1>1, <1>2, <1>3, JoinedTaken
<1>5. Stream(t)' = Stream(t)
  BY <1>2, <1>4 DEF Stream, Joined, SameJoin
<1> QED BY <1>2, <1>5 DEF Stream

\* A step of the wire alone, or of the watchers: the turn that is pumping stays on the wire.
LEMMA StreamsKept ==
  ASSUME StreamInv, pc' = pc, sending' = sending, \A x \in Turns : Stream(x)' = Stream(x),
         \A x \in Turns : pc[x] = "pumping" /\ x \in sending /\ OnWire(x) => OnWire(x)'
  PROVE  StreamInv'
<1> SUFFICES ASSUME NEW x \in Turns PROVE StreamAt(x)'
  BY DEF StreamInv
<1>1. StreamAt(x)
  BY DEF StreamInv
<1> QED BY <1>1, StreamSame DEF StreamAt

\* A step of a turn that has not sent its Open.
LEMMA StreamsBefore ==
  ASSUME ShapesOK, StreamInv, NEW t \in Turns, pc[t] \in Before,
         NEW p \in Before \cup {"over"}, pc' = [pc EXCEPT ![t] = p], UNCHANGED events,
         \A x \in Turns : pc[x] = "pumping" /\ x \in sending /\ OnWire(x) => OnWire(x)'
  PROVE  StreamInv'
<1> SUFFICES ASSUME NEW x \in Turns PROVE StreamAt(x)'
  BY DEF StreamInv
<1>1. StreamAt(x) /\ (x = t => x \notin sending) /\ sending' = sending
  BY DEF StreamInv, StreamAt, events
<1>2. Stream(x)' = Stream(x)
  BY EventsSame DEF events
<1>3. pc' \in [Turns -> Phases \cup {p}] /\ pc'[x] = IF x = t THEN p ELSE pc[x]
  BY DEF ShapesOK
<1>4. pc'[x] \in Before => pc[x] \in Before
  BY <1>3
<1>5. x \in sending' => pc'[x] = pc[x]
  BY <1>1, <1>3
<1>6. x \in sending' /\ pc'[x] = "pumping" => OnWire(x)'
  BY <1>1, <1>5 DEF StreamAt
<1> QED BY <1>1, <1>2, <1>4, <1>5, <1>6, StreamSame

LEMMA StreamStep ==
  ShapesOK /\ PhaseInv /\ WireInv /\ StreamInv /\ [Next]_vars => StreamInv'
<1> SUFFICES ASSUME ShapesOK, PhaseInv, WireInv, StreamInv, [Next]_vars PROVE StreamInv'
  OBVIOUS
<1>1. /\ pc \in [Turns -> Phases] /\ gen \in Turns \cup {NoTurn} /\ sent \in Nat
      /\ up \in Seq(UpFrames) /\ down \in Seq(Frames) /\ Len(down) \in Nat
      /\ \A i \in 1..Len(up) : up[i].by \in Turns
  <2>1. \A i \in 1..Len(up) : up[i] \in UpFrames
    BY DEF ShapesOK
  <2> QED BY <2>1, SMTT(30) DEF ShapesOK, UpFrames
<1>2. \A x, y \in Turns : pc[x] = "pumping" /\ pc[y] = "pumping" => x = y
  BY DEF PhaseInv, OneInside, Inside
<1>3. \A x \in Turns : Stream(x) \in Seq(Received) /\ Len(Stream(x)) \in Nat
  BY StreamType
<1>4. ASSUME UNCHANGED <<held, chan, got>> PROVE \A x \in Turns : Stream(x)' = Stream(x)
  BY <1>4, EventsSame
<1>5. ASSUME UNCHANGED <<pc, sending, up, down, gen, sent>>, \A x \in Turns : Stream(x)' = Stream(x)
      PROVE  StreamInv'
  <2>1. \A x \in Turns : OnWire(x) => OnWire(x)'
    BY <1>5, WireSame
  <2> QED BY <1>5, <2>1, StreamsKept
<1>6. CASE UNCHANGED vars
  BY <1>4, <1>5, <1>6 DEF vars, conn, worker, events
<1>7. ASSUME NEW t \in Turns, Cancel(t) \/ EndWatch(t) \/ Notice(t) PROVE StreamInv'
  BY <1>4, <1>5, <1>7 DEF Cancel, EndWatch, Notice, conn, worker, events
<1>8. ASSUME NEW t \in Turns, Deliver(t) PROVE StreamInv'
  BY <1>5, <1>8, StreamDelivered DEF Deliver, conn, worker
<1>9. ASSUME NEW t \in Turns, Take(t) PROVE StreamInv'
  BY <1>5, <1>9, StreamTaken DEF Take, conn, worker
<1>10. ASSUME NEW t \in Turns, Call(t) \/ Acquire(t) \/ GiveUp(t) \/ DialFails(t) PROVE StreamInv'
  <2>1. /\ UNCHANGED <<up, down, gen, sent>> /\ UNCHANGED events
        /\ pc[t] \in Before
    BY <1>10 DEF Call, Acquire, GiveUp, DialFails, conn, worker, Before
  <2>2. PICK p \in Before \cup {"over"} : pc' = [pc EXCEPT ![t] = p]
    BY <1>10 DEF Call, Acquire, GiveUp, DialFails, Before
  <2>3. \A x \in Turns : Stream(x)' = Stream(x)
    BY <1>4, <2>1 DEF events
  <2>4. \A x \in Turns : OnWire(x) => OnWire(x)'
    BY <2>1, <2>3, WireSame
  <2> QED BY <2>1, <2>2, <2>4, StreamsBefore
<1>11. ASSUME NEW t \in Turns, Dial(t) \/ Connected(t) \/ HandshakeFails(t) \/ OpenFails(t)
       PROVE  StreamInv'
  <2>1. UNCHANGED events /\ pc[t] \in {"connecting", "opening"}
    BY <1>11 DEF Dial, Connected, HandshakeFails, OpenFails
  <2>2. PICK p \in Before \cup {"over"} : pc' = [pc EXCEPT ![t] = p]
    <3>1. CASE Dial(t)
      <4>1. pc' = [pc EXCEPT ![t] = "connecting"]
        BY <1>1, <3>1 DEF Dial
      <4> QED BY <4>1 DEF Before
    <3> QED BY <1>11, <3>1 DEF Connected, HandshakeFails, OpenFails, Before
  <2>3. \A x \in Turns : pc[x] # "pumping"
    BY <2>1 DEF PhaseInv, OneInside, Inside
  <2>4. pc[t] \in Before
    BY <2>1 DEF Before
  <2> QED BY <2>1, <2>2, <2>3, <2>4, StreamsBefore
<1>12. ASSUME NEW t \in Turns, Open(t) PROVE StreamInv'
  <2>1. /\ pc[t] = "opening" /\ pc' = [pc EXCEPT ![t] = "pumping"] /\ sending' = sending \cup {t}
        /\ UNCHANGED <<held, chan, got, down, gen, sent>>
    BY <1>12 DEF Open, worker
  <2>2. link = "up" /\ \A x \in Turns : pc[x] # "pumping"
    BY <2>1 DEF PhaseInv, OneInside, Inside
  <2>3. down = <<>> /\ Len(down) = 0 /\ gen = NoTurn
    BY <1>1, <2>2 DEF WireInv
  <2> SUFFICES ASSUME NEW x \in Turns PROVE StreamAt(x)'
    BY DEF StreamInv
  <2>4. StreamAt(x) /\ Stream(x)' = Stream(x)
    BY <1>4, <2>1 DEF StreamInv
  <2>5. CASE x = t
    <3>1. Stream(x) = <<>> /\ Len(Stream(x)) = 0
      BY <2>1, <2>4, <2>5 DEF StreamAt, Before
    <3>2. pc'[x] = "pumping" 
      BY <1>1, <2>1, <2>5
    <3>3. gen' # x
      BY <2>1, <2>3, WorkerAssumption
    <3>4. OnWire(x)'
      BY <2>1, <2>3, <2>4, <3>1, <3>3 DEF OnWire
    <3> QED BY <2>4, <3>2, <3>4, StreamSame DEF StreamAt, Before, After
  <2>6. CASE x # t
    <3>1. pc'[x] = pc[x] /\ (x \in sending' => x \in sending)
      BY <1>1, <2>1, <2>6
    <3> QED BY <2>2, <2>4, <3>1, StreamSame
  <2> QED BY <2>5, <2>6
<1>13. ASSUME NEW t \in Turns, ReadFrame(t) PROVE StreamInv'
  <2> DEFINE f == Head(down)
  <2>1. /\ pc[t] = "pumping" /\ held[t] = <<>> /\ down # <<>> /\ down' = Tail(down)
        /\ held' = [held EXCEPT ![t] = EventOf(t, f)]
        /\ pc' = IF f.kind \in Ends THEN [pc EXCEPT ![t] = "closed"] ELSE pc
        /\ UNCHANGED <<chan, got, sending, up, gen, sent>>
    BY <1>13 DEF ReadFrame, Reads, Terminal, worker
  <2>2. /\ Len(down') = Len(down) - 1 /\ f = down[1] /\ 1 \in 1..Len(down)
        /\ \A i \in 1..Len(down') : down'[i] = down[i + 1] /\ i + 1 \in 1..Len(down)
    BY <1>1, <2>1
  <2>3. link = "up"
    BY <2>1 DEF PhaseInv
  <2>4. f.kind \in {"data", "done", "cancelled"} /\ f.of = t
    BY <1>2, <2>1, <2>2, <2>3 DEF WireInv
  <2>5. f \in Received
    <3>1. f \in Frames
      BY <1>1, <2>2
    <3> QED BY <3>1 DEF Frames, Received
  <2>6. \A i \in 1..Len(up) : up[i].kind # "open"
    BY <2>1, <2>2, <2>3 DEF WireInv
  <2> HIDE DEF f
  <2> SUFFICES ASSUME NEW x \in Turns PROVE StreamAt(x)'
    BY DEF StreamInv
  <2>7. StreamAt(x)
    BY DEF StreamInv
  <2>8. pc'[t] \in {"pumping", "closed"} /\ (x # t => pc'[x] = pc[x])
    BY <1>1, <2>1
  <2>9. CASE x # t
    <3>1. Stream(x)' = Stream(x)
      BY <2>1, <2>9 DEF Stream, ShapesOK
    <3>2. pc[x] # "pumping"
      BY <1>2, <2>1, <2>9
    <3> QED BY <2>1, <2>7, <2>8, <2>9, <3>1, <3>2, StreamSame
  <2>10. CASE x = t /\ t \notin sending
    <3>1. Stream(x)' = Stream(x)
      BY <2>1, <2>10, StreamStays
    <3> QED BY <2>1, <2>7, <2>8, <2>10, <3>1, StreamSame DEF Before
  <2>11. CASE x = t /\ t \in sending
    <3>1. Longer(Stream(x), Stream(x)', f)
      BY <2>1, <2>5, <2>11, StreamGrows
    <3>2. OnWire(x)
      BY <2>1, <2>7, <2>11 DEF StreamAt
    <3>3. f.n = Len(Stream(x)) + 1
      BY <2>2, <3>2 DEF OnWire
    <3>4. /\ Len(Stream(x)') = Len(Stream(x)) + 1 /\ Len(Stream(x)) \in Nat
          /\ Stream(x)'[Len(Stream(x)')] = f
          /\ \A i \in 1..Len(Stream(x)') : i # Len(Stream(x)') =>
               i \in 1..Len(Stream(x)) /\ Stream(x)'[i] = Stream(x)[i]
      BY <1>3, <3>1 DEF Longer
    <3>5. Numbered(Stream(x)', x)
      <4>1. \A i \in 1..Len(Stream(x)) : /\ Stream(x)[i].of = x /\ Stream(x)[i].n = i
                                         /\ Stream(x)[i].kind = "data"
        BY <2>7, <3>2 DEF StreamAt, Numbered, OnWire
      <4>2. f.of = x
        BY <2>4, <2>11
      <4> QED BY <3>3, <3>4, <4>1, <4>2 DEF Numbered
    <3>6. Stream(x)' # <<>>
      BY <3>4
    <3>7. CASE f.kind \in Ends
      <4>1. pc'[x] = "closed"
        BY <1>1, <2>1, <2>11, <3>7
      <4>2. Stream(x)'[Len(Stream(x)')].kind # "data"
        BY <3>4, <3>7 DEF Ends
      <4> QED BY <3>5, <3>6, <4>1, <4>2 DEF StreamAt, Before
    <3>8. CASE f.kind = "data"
      <4>1. pc'[x] = "pumping"
        BY <2>1, <2>11, <3>8 DEF Ends
      <4>2. \A i \in 1..Len(Stream(x)') : Stream(x)'[i].kind = "data"
        BY <3>2, <3>4, <3>8 DEF OnWire
      <4>3. \A i \in 1..Len(down') : down'[i].n = Len(Stream(x)') + i
        <5> TAKE i \in 1..Len(down')
        <5>1. down[i + 1].n = Len(Stream(x)) + (i + 1)
          BY <2>2, <3>2 DEF OnWire
        <5>2. i \in Nat /\ Len(Stream(x)) + (i + 1) = (Len(Stream(x)) + 1) + i
          BY <3>4
        <5> QED BY <2>2, <3>4, <5>1, <5>2
      <4>4. gen' = x => sent' = Len(Stream(x)') + Len(down')
        <5>1. gen = x => sent = Len(Stream(x)) + Len(down)
          BY <3>2 DEF OnWire
        <5> QED BY <1>1, <2>1, <2>2, <3>4, <5>1
      <4>5. \A i \in 1..Len(up') : up'[i].kind = "open" => Stream(x)' = <<>>
        BY <2>1, <2>6
      <4>6. OnWire(x)'
        BY <4>2, <4>3, <4>4, <4>5 DEF OnWire
      <4> QED BY <3>5, <4>1, <4>6 DEF StreamAt, Before, After
    <3> QED BY <2>4, <3>7, <3>8 DEF Ends
  <2> QED BY <2>9, <2>10, <2>11
<1>14. ASSUME NEW t \in Turns, ReadFails(t) PROVE StreamInv'
  <2>1. /\ pc[t] = "pumping" /\ held[t] = <<>>
        /\ held' = [held EXCEPT ![t] = EventOf(t, Lost(t))]
        /\ pc' = [pc EXCEPT ![t] = "closed"]
        /\ UNCHANGED <<chan, got, sending>>
    BY <1>14 DEF ReadFails, Reads
  <2>2. Lost(t).kind = "lost" /\ Lost(t).of = t /\ Lost(t).n = Len(Stream(t)) + 1
    BY <2>1, StreamLength DEF Lost
  <2>3. Lost(t) \in Received
    BY DEF Lost, Received, ShapesOK
  <2> SUFFICES ASSUME NEW x \in Turns PROVE StreamAt(x)'
    BY DEF StreamInv
  <2>4. StreamAt(x)
    BY DEF StreamInv
  <2>5. pc'[t] = "closed" /\ (x # t => pc'[x] = pc[x])
    BY <1>1, <2>1
  <2>6. CASE x # t
    <3>1. Stream(x)' = Stream(x)
      BY <2>1, <2>6 DEF Stream, ShapesOK
    <3>2. pc[x] # "pumping"
      BY <1>2, <2>1, <2>6
    <3> QED BY <2>1, <2>4, <2>5, <2>6, <3>1, <3>2, StreamSame
  <2>7. CASE x = t /\ t \notin sending
    <3>1. Stream(x)' = Stream(x)
      BY <2>1, <2>7, StreamStays
    <3> QED BY <2>1, <2>4, <2>5, <2>7, <3>1, StreamSame DEF Before
  <2>8. CASE x = t /\ t \in sending
    <3>1. Longer(Stream(x), Stream(x)', Lost(t))
      BY <2>1, <2>3, <2>8, StreamGrows
    <3>2. /\ Len(Stream(x)') = Len(Stream(x)) + 1 /\ Len(Stream(x)) \in Nat
          /\ Stream(x)'[Len(Stream(x)')] = Lost(t)
          /\ \A i \in 1..Len(Stream(x)') : i # Len(Stream(x)') =>
               i \in 1..Len(Stream(x)) /\ Stream(x)'[i] = Stream(x)[i]
      BY <1>3, <3>1 DEF Longer
    <3>3. \A i \in 1..Len(Stream(x)) : /\ Stream(x)[i].of = x /\ Stream(x)[i].n = i
                                       /\ Stream(x)[i].kind = "data"
      BY <2>1, <2>4, <2>8 DEF StreamAt, Numbered, OnWire
    <3>4. Numbered(Stream(x)', x)
      BY <2>2, <2>8, <3>2, <3>3 DEF Numbered
    <3>5. Stream(x)' # <<>> /\ Stream(x)'[Len(Stream(x)')].kind # "data"
      BY <2>2, <3>2
    <3> QED BY <2>5, <2>8, <3>4, <3>5 DEF StreamAt, Before
  <2> QED BY <2>6, <2>7, <2>8
<1>15. ASSUME NEW t \in Turns, StopDelivering(t) PROVE StreamInv'
  <2>1. UNCHANGED <<pc, up, down, gen, sent>> /\ sending' = sending \ {t}
    BY <1>15 DEF StopDelivering, conn, worker
  <2> SUFFICES ASSUME NEW x \in Turns PROVE StreamAt(x)'
    BY DEF StreamInv
  <2>2. StreamAt(x)
    BY DEF StreamInv
  <2>3. CASE x # t
    <3>1. Stream(x)' = Stream(x)
      BY <1>15, <2>3, StreamStopped
    <3>2. x \in sending /\ pc[x] = "pumping" => OnWire(x)'
      BY <2>1, <2>2, <3>1, WireSame DEF StreamAt
    <3> QED BY <2>1, <2>2, <2>3, <3>1, <3>2, StreamSame
  <2>4. CASE x = t
    <3>1. Len(Stream(x)') <= Len(Stream(x)) /\ \A i \in 1..Len(Stream(x)') : Stream(x)'[i] = Stream(x)[i]
      BY <1>15, <2>4, StreamStopped DEF Begins
    <3>2. Stream(x)' \in Seq(Received) /\ Len(Stream(x)') \in Nat
      <4>1. ShapesOK'
        BY ShapesStep
      <4>2. got'[x] \in Seq(Received) /\ chan'[x] \in Seq(Received) /\ held'[x] \in Seq(Received)
        BY <4>1 DEF ShapesOK
      <4>3. got'[x] \o chan'[x] \in Seq(Received)
        BY <4>2
      <4>4. Stream(x)' \in Seq(Received)
        BY <4>2, <4>3 DEF Stream
      <4> QED BY <4>4
    <3>3. Numbered(Stream(x)', x)
      <4> SUFFICES ASSUME NEW i \in 1..Len(Stream(x)')
                   PROVE  /\ Stream(x)'[i].of = x /\ Stream(x)'[i].n = i
                          /\ i < Len(Stream(x)') => Stream(x)'[i].kind = "data"
        BY DEF Numbered
      <4>1. i \in 1..Len(Stream(x)) /\ (i < Len(Stream(x)') => i < Len(Stream(x)))
        BY <1>3, <3>1, <3>2
      <4> QED BY <2>2, <3>1, <4>1 DEF StreamAt, Numbered
    <3>4. pc'[x] \in Before => Stream(x)' = <<>>
      <4> HAVE pc'[x] \in Before
      <4>1. Len(Stream(x)) = 0
        BY <2>1, <2>2 DEF StreamAt
      <4>2. Len(Stream(x)') = 0
        BY <3>1, <3>2, <4>1
      <4> QED BY <3>2, <4>2
    <3> QED BY <2>1, <2>4, <3>3, <3>4 DEF StreamAt
  <2> QED BY <2>3, <2>4
<1>16. ASSUME NEW t \in Turns, Return(t) PROVE StreamInv'
  <2>1. /\ pc[t] = "closed" /\ pc' = [pc EXCEPT ![t] = "over"] /\ UNCHANGED events
        /\ UNCHANGED <<up, down, gen, sent>>
    BY <1>16 DEF Return, conn, worker
  <2> SUFFICES ASSUME NEW x \in Turns PROVE StreamAt(x)'
    BY DEF StreamInv
  <2>2. StreamAt(x) /\ Stream(x)' = Stream(x) /\ sending' = sending
    BY <1>4, <2>1 DEF StreamInv, events
  <2>3. pc'[x] = IF x = t THEN "over" ELSE pc[x]
    BY <1>1, <2>1
  <2>4. x \in sending /\ pc'[x] = "pumping" => OnWire(x)'
    BY <2>1, <2>2, <2>3, WireSame DEF StreamAt
  <2> QED BY <2>1, <2>2, <2>3, <2>4, StreamSame DEF Before, After
<1>17. ASSUME NEW t \in Turns, WriteCancel(t) PROVE StreamInv'
  <2>1. UNCHANGED <<pc, down, gen, sent>> /\ UNCHANGED events
    BY <1>17 DEF WriteCancel, worker
  <2>2. (\E i \in 1..Len(up') : up'[i].kind = "open") => \E i \in 1..Len(up) : up[i].kind = "open"
    <3>1. CASE up' = up
      BY <3>1
    <3>2. CASE up' = Append(up, [kind |-> "cancel", by |-> t])
      <4>1. /\ Len(up') = Len(up) + 1 /\ Len(up) \in Nat /\ up'[Len(up) + 1].kind = "cancel"
            /\ \A i \in 1..Len(up) : up'[i] = up[i]
        BY <1>1, <3>2
      <4> QED BY <4>1
    <3> QED BY <1>17, <3>1, <3>2 DEF WriteCancel, Written
  <2>3. \A x \in Turns : Stream(x)' = Stream(x)
    BY <1>4, <2>1 DEF events
  <2>4. \A x \in Turns : OnWire(x) => OnWire(x)'
    BY <2>1, <2>2, <2>3, WireSame
  <2> QED BY <2>1, <2>3, <2>4, StreamsKept DEF events
<1>18. ASSUME up # <<>>
       PROVE  /\ Len(Tail(up)) = Len(up) - 1 /\ Head(up) = up[1] /\ 1 \in 1..Len(up)
              /\ \A i \in 1..Len(Tail(up)) : Tail(up)[i] = up[i + 1] /\ i + 1 \in 1..Len(up) /\ i + 1 # 1
  BY <1>1, <1>18
<1>19. ASSUME UNCHANGED <<pc, sending, held, chan, got>>,
              \A x \in Turns : pc[x] = "pumping" /\ x \in sending /\ OnWire(x) => OnWire(x)'
       PROVE  StreamInv'
  BY <1>4, <1>19, StreamsKept
<1>20. CASE Answer
  <2>1. up # <<>> /\ up[1].kind = "hello"
    BY <1>20 DEF Answer, Receive
  <2>2. link # "up"
    BY <1>18, <2>1 DEF WireInv
  <2>3. \A x \in Turns : pc[x] # "pumping"
    BY <2>2 DEF PhaseInv
  <2> QED BY <1>19, <1>20, <2>3 DEF Answer, events
<1>21. CASE Generate
  <2>1. /\ up # <<>> /\ up[1].kind = "open" /\ up' = Tail(up) /\ UNCHANGED <<down, pc>> /\ UNCHANGED events
        /\ gen' = up[1].by /\ up[1].by \in Turns /\ sent' = 0
    BY <1>1, <1>21 DEF Generate, Receive
  <2>2. 1 \in 1..Len(up)
    BY <1>18, <2>1
  <2>3. down = <<>> /\ Len(down) = 0
    BY <2>1, <2>2 DEF WireInv
  <2>4. \A i \in 1..Len(up') : up'[i].kind # "open"
    BY <1>18, <2>1, <2>2 DEF WireInv
  <2>5. ASSUME NEW x \in Turns, OnWire(x) PROVE OnWire(x)'
    <3>1. Stream(x) = <<>> /\ Len(Stream(x)) = 0 /\ Stream(x)' = Stream(x)
      BY <1>4, <2>1, <2>2, <2>5 DEF OnWire, events
    <3> QED BY <2>1, <2>3, <2>4, <3>1 DEF OnWire
  <2> QED BY <1>19, <2>1, <2>5 DEF events
<1>22. ASSUME NEW k, gen # NoTurn,
              down' = Append(down, [kind |-> k, of |-> gen, n |-> sent + 1]),
              NEW x \in Turns, pc[x] = "pumping", OnWire(x), Stream(x)' = Stream(x)
       PROVE  /\ x = gen /\ Len(down') = Len(down) + 1
              /\ \A i \in 1..Len(Stream(x)') : Stream(x)'[i].kind = "data"
              /\ \A i \in 1..Len(down') : down'[i].n = Len(Stream(x)') + i
              /\ sent = Len(Stream(x)) + Len(down)
              /\ \A i \in 1..Len(up) : up[i].kind # "open"
  <2>1. gen \in Turns /\ pc[gen] = "pumping"
    BY <1>1, <1>22 DEF WireInv
  <2>2. x = gen
    BY <1>2, <1>22, <2>1
  <2>3. sent = Len(Stream(x)) + Len(down) /\ \A i \in 1..Len(down) : down[i].n = Len(Stream(x)) + i
    BY <1>22, <2>2 DEF OnWire
  <2>4. /\ Len(down') = Len(down) + 1 /\ down'[Len(down) + 1].n = sent + 1
        /\ \A i \in 1..Len(down) : down'[i] = down[i]
    BY <1>1, <1>22
  <2>5. sent + 1 = Len(Stream(x)) + (Len(down) + 1)
    BY <1>1, <1>3, <2>3
  <2>6. \A i \in 1..Len(down') : down'[i].n = Len(Stream(x)') + i
    <3> TAKE i \in 1..Len(down')
    <3>1. CASE i = Len(down) + 1
      BY <1>22, <2>4, <2>5, <3>1
    <3>2. CASE i # Len(down) + 1
      <4>1. i \in 1..Len(down)
        BY <1>1, <2>4, <3>2
      <4> QED BY <1>22, <2>3, <2>4, <4>1
    <3> QED BY <3>1, <3>2
  <2>7. \A i \in 1..Len(Stream(x)') : Stream(x)'[i].kind = "data"
    BY <1>22 DEF OnWire
  <2>8. \A i \in 1..Len(up) : up[i].kind # "open"
    BY <1>22 DEF WireInv
  <2> QED BY <2>2, <2>3, <2>4, <2>6, <2>7, <2>8
<1>23. CASE Emit
  <2>1. /\ gen # NoTurn /\ UNCHANGED <<pc, up, gen>> /\ UNCHANGED events /\ sent' = sent + 1
        /\ down' = Append(down, [kind |-> "data", of |-> gen, n |-> sent + 1])
    BY <1>23 DEF Emit
  <2>2. ASSUME NEW x \in Turns, pc[x] = "pumping", OnWire(x) PROVE OnWire(x)'
    <3>1. Stream(x)' = Stream(x)
      BY <1>4, <2>1 DEF events
    <3>2. /\ Len(down') = Len(down) + 1
          /\ \A i \in 1..Len(Stream(x)') : Stream(x)'[i].kind = "data"
          /\ \A i \in 1..Len(down') : down'[i].n = Len(Stream(x)') + i
          /\ sent = Len(Stream(x)) + Len(down)
          /\ \A i \in 1..Len(up) : up[i].kind # "open"
      BY <1>22, <2>1, <2>2, <3>1
    <3>3. sent' = Len(Stream(x)') + Len(down')
      BY <1>1, <1>3, <2>1, <3>1, <3>2
    <3> QED BY <2>1, <3>2, <3>3 DEF OnWire
  <2> QED BY <1>19, <2>1, <2>2 DEF events
<1>24. ASSUME NEW end, Finish(end), gen # NoTurn, UNCHANGED <<pc>>, UNCHANGED events,
              (\E i \in 1..Len(up') : up'[i].kind = "open") => \E i \in 1..Len(up) : up[i].kind = "open"
       PROVE  StreamInv'
  <2>1. gen' = NoTurn /\ down' = Append(down, [kind |-> end, of |-> gen, n |-> sent + 1])
    BY <1>24 DEF Finish
  <2>2. ASSUME NEW x \in Turns, pc[x] = "pumping", OnWire(x) PROVE OnWire(x)'
    <3>1. Stream(x)' = Stream(x)
      BY <1>4, <1>24 DEF events
    <3>2. /\ \A i \in 1..Len(Stream(x)') : Stream(x)'[i].kind = "data"
          /\ \A i \in 1..Len(down') : down'[i].n = Len(Stream(x)') + i
          /\ \A i \in 1..Len(up) : up[i].kind # "open"
      BY <1>22, <1>24, <2>1, <2>2, <3>1
    <3>3. gen' # x
      BY <2>1, WorkerAssumption
    <3> QED BY <1>24, <3>2, <3>3 DEF OnWire
  <2> QED BY <1>19, <1>24, <2>2 DEF events
<1>25. CASE Complete
  BY <1>24, <1>25 DEF Complete
<1>26. CASE Abort
  <2>1. up # <<>> /\ up' = Tail(up) /\ UNCHANGED pc /\ UNCHANGED events
    BY <1>26 DEF Abort, Receive
  <2>2. (\E i \in 1..Len(up') : up'[i].kind = "open") => \E i \in 1..Len(up) : up[i].kind = "open"
    BY <1>18, <2>1
  <2>3. CASE gen = NoTurn
    <3>1. UNCHANGED <<down, gen, sent>> /\ \A x \in Turns : Stream(x)' = Stream(x)
      BY <1>4, <1>26, <2>1, <2>3 DEF Abort, events
    <3>2. \A x \in Turns : OnWire(x) => OnWire(x)'
      BY <2>2, <3>1, WireSame
    <3> QED BY <1>19, <2>1, <3>2 DEF events
  <2>4. CASE gen # NoTurn
    BY <1>24, <1>26, <2>1, <2>2, <2>4 DEF Abort
  <2> QED BY <2>3, <2>4
<1>27. CASE Break
  <2>1. up' = <<>> /\ Len(up') = 0 /\ gen' = NoTurn /\ UNCHANGED <<pc, down>> /\ UNCHANGED events
    BY <1>27 DEF Break
  <2>2. ASSUME NEW x \in Turns, OnWire(x) PROVE OnWire(x)'
    <3>1. Stream(x)' = Stream(x)
      BY <1>4, <2>1 DEF events
    <3>2. gen' # x
      BY <2>1, WorkerAssumption
    <3> QED BY <2>1, <2>2, <3>1, <3>2 DEF OnWire
  <2> QED BY <1>19, <2>1, <2>2 DEF events
<1> QED
  BY <1>6, <1>7, <1>8, <1>9, <1>10, <1>11, <1>12, <1>13, <1>14, <1>15, <1>16, <1>17, <1>20, <1>21, <1>23,
     <1>25, <1>26, <1>27 DEF Next, Worker, Client
-----------------------------------------------------------------------------
\* What pump hands on are Events: by then the handshake is over.
EventsOK ==
  /\ held \in [Turns -> Seq(Events)] /\ chan \in [Turns -> Seq(Events)]
  /\ got \in [Turns -> Seq(Events)]

LEMMA EventsInit == Init => EventsOK
<1> SUFFICES ASSUME Init PROVE EventsOK
  OBVIOUS
<1>1. <<>> \in Seq(Events)
  OBVIOUS
<1> QED BY <1>1 DEF Init, EventsOK

LEMMA EventsStep == ShapesOK /\ PhaseInv /\ WireInv /\ EventsOK /\ [Next]_vars => EventsOK'
<1> SUFFICES ASSUME ShapesOK, PhaseInv, WireInv, EventsOK, [Next]_vars PROVE EventsOK'
  OBVIOUS
<1>1. CASE UNCHANGED <<held, chan, got>>
  BY <1>1 DEF EventsOK
<1>2. ASSUME NEW t \in Turns, NEW f \in Events, held' = [held EXCEPT ![t] = EventOf(t, f)],
             UNCHANGED <<chan, got>>
      PROVE  EventsOK'
  <2>1. EventOf(t, f) \in Seq(Events)
    <3>1. <<f>> \in Seq(Events) /\ <<>> \in Seq(Events)
      OBVIOUS
    <3> QED BY <3>1 DEF EventOf
  <2> QED BY <1>2, <2>1 DEF EventsOK
<1>3. ASSUME NEW t \in Turns, ReadFrame(t) PROVE EventsOK'
  <2>1. link = "up" /\ down # <<>>
    BY <1>3 DEF ReadFrame, PhaseInv
  <2>2. Head(down) \in Frames /\ Head(down) = down[1] /\ 1 \in 1..Len(down)
    BY <2>1 DEF ShapesOK
  <2>3. Head(down).kind \in {"data"} \cup Ends /\ Head(down).of \in Turns
    BY <2>1, <2>2 DEF WireInv, Ends
  <2>4. Head(down) \in Events
    BY <2>2, <2>3 DEF Frames, Events
  <2> QED BY <1>2, <1>3, <2>4 DEF ReadFrame
<1>4. ASSUME NEW t \in Turns, ReadFails(t) PROVE EventsOK'
  <2>1. Lost(t) \in Events
    BY DEF Lost, Events, EventsOK
  <2> QED BY <1>2, <1>4, <2>1 DEF ReadFails
<1>5. ASSUME NEW t \in Turns, Deliver(t) PROVE EventsOK'
  <2>1. chan[t] \o held[t] \in Seq(Events) /\ <<>> \in Seq(Events)
    BY DEF EventsOK
  <2> QED BY <1>5, <2>1 DEF Deliver, EventsOK
<1>6. ASSUME NEW t \in Turns, StopDelivering(t) PROVE EventsOK'
  <2>1. <<>> \in Seq(Events)
    OBVIOUS
  <2> QED BY <1>6, <2>1 DEF StopDelivering, EventsOK
<1>7. ASSUME NEW t \in Turns, Take(t) PROVE EventsOK'
  <2>1. Append(got[t], Head(chan[t])) \in Seq(Events) /\ Tail(chan[t]) \in Seq(Events)
    BY <1>7 DEF Take, EventsOK
  <2> QED BY <1>7, <2>1 DEF Take, EventsOK
<1>8. ASSUME NEW t \in Turns,
             \/ Call(t) \/ Cancel(t) \/ Acquire(t) \/ GiveUp(t) \/ Dial(t) \/ DialFails(t) \/ Connected(t)
             \/ HandshakeFails(t) \/ Open(t) \/ OpenFails(t) \/ Return(t) \/ EndWatch(t) \/ Notice(t)
             \/ WriteCancel(t)
      PROVE  UNCHANGED <<held, chan, got>>
  BY <1>8 DEF Call, Cancel, Acquire, GiveUp, Dial, DialFails, Connected, HandshakeFails, Open, OpenFails,
     Return, EndWatch, Notice, WriteCancel, events
<1>9. Worker \/ UNCHANGED vars => UNCHANGED <<held, chan, got>>
  BY DEF Worker, Answer, Generate, Emit, Complete, Abort, Break, vars, events
<1> QED
  BY <1>1, <1>3, <1>4, <1>5, <1>6, <1>7, <1>8, <1>9 DEF Next, Client
-----------------------------------------------------------------------------
\* The turns that have sent their Open.
Opened == {"pumping", "closed", "over"}

\* A turn that has written its Cancel: its context has ended and its watcher is done.
Wrote(s) == s \in cancelled /\ watcher[s] = "none" /\ pc[s] \in Opened

\* The Cancel of s is frame i to the worker.
CancelAt(i, s) == up[i].kind = "cancel" /\ up[i].by = s

\* A Cancel on the wire is the only one of its turn.
OneOnWire ==
  \A s \in Turns : \A i \in 1..Len(up) : CancelAt(i, s) =>
    Wrote(s) /\ \A j \in 1..Len(up) : CancelAt(j, s) => i = j

\* A Cancel that has cut a generation short is off the wire and has cut no other.
SpentOnce ==
  \A s, t \in Turns : s \in abortedBy[t] =>
    /\ Wrote(s) /\ (s = t \/ pc[s] = "over")
    /\ \A i \in 1..Len(up) : ~CancelAt(i, s)
    /\ \A u \in Turns : s \in abortedBy[u] => u = t

\* A watcher writes once, after its turn's Open, so the Cancel of a turn is still to be
\* written, on the wire, or spent on one generation.
CancelInv ==
  /\ IsFiniteSet(cancelled)
  /\ \A s \in Turns : watcher[s] = "writing" => s \in cancelled
  /\ \A s \in Turns : watcher[s] # "none" => pc[s] \in Opened
  /\ OneOnWire /\ SpentOnce

LEMMA CancelInit == Init => CancelInv
<1> SUFFICES ASSUME Init PROVE CancelInv
  OBVIOUS
<1>1. IsFiniteSet(cancelled)
  BY FS_EmptySet DEF Init
<1> QED BY <1>1 DEF Init, CancelInv, OneOnWire, SpentOnce

\* Steps that write no Cancel and spend none.
LEMMA CancelKept ==
  ASSUME CancelInv, IsFiniteSet(cancelled'), cancelled \subseteq cancelled', abortedBy' = abortedBy,
         \A s \in Turns : pc[s] \in Opened => pc'[s] \in Opened,
         \A s \in Turns : pc[s] = "over" => pc'[s] = "over",
         \A s \in Turns : Wrote(s) => watcher'[s] = "none",
         \A s \in Turns : watcher'[s] = "writing" => s \in cancelled',
         \A s \in Turns : watcher'[s] # "none" => pc'[s] \in Opened,
         \A i \in 1..Len(up') : \A s \in Turns : CancelAt(i, s)' => i \in 1..Len(up) /\ CancelAt(i, s)
  PROVE  CancelInv'
<1>1. \A s \in Turns : Wrote(s) => Wrote(s)'
  BY DEF Wrote
<1>2. OneOnWire'
  BY <1>1 DEF CancelInv, OneOnWire
<1>3. SpentOnce'
  BY <1>1 DEF CancelInv, SpentOnce
<1> QED BY <1>2, <1>3 DEF CancelInv

LEMMA CancelStep ==
  ShapesOK /\ PhaseInv /\ WireInv /\ CancelInv /\ [Next]_vars => CancelInv'
<1> SUFFICES ASSUME ShapesOK, PhaseInv, WireInv, CancelInv, [Next]_vars PROVE CancelInv'
  OBVIOUS
<1>1. /\ pc \in [Turns -> Phases] /\ watcher \in [Turns -> {"none", "waiting", "writing"}]
      /\ up \in Seq(UpFrames) /\ Len(up) \in Nat /\ cancelled \subseteq Turns
      /\ abortedBy \in [Turns -> SUBSET Turns] /\ gen \in Turns \cup {NoTurn}
      /\ \A i \in 1..Len(up) : up[i].by \in Turns
  <2>1. \A i \in 1..Len(up) : up[i] \in UpFrames
    BY DEF ShapesOK
  <2> QED BY <2>1, SMTT(30) DEF ShapesOK, UpFrames
<1>2. /\ IsFiniteSet(cancelled) /\ OneOnWire /\ SpentOnce
      /\ \A s \in Turns : watcher[s] = "writing" => s \in cancelled
      /\ \A s \in Turns : watcher[s] # "none" => pc[s] \in Opened
  BY DEF CancelInv
<1>3. ASSUME up' = up \/ Len(up') = 0
      PROVE  \A i \in 1..Len(up') : \A s \in Turns : CancelAt(i, s)' => i \in 1..Len(up) /\ CancelAt(i, s)
  BY <1>3 DEF CancelAt
\* Steps of the turns.
<1>4. ASSUME UNCHANGED <<cancelled, watcher, abortedBy>>,
             NEW t \in Turns, NEW p, pc' = [pc EXCEPT ![t] = p],
             pc[t] = p \/ pc[t] \notin Opened \/ p = "over" \/ (pc[t] = "pumping" /\ p = "closed"),
             \A i \in 1..Len(up') : \A s \in Turns : CancelAt(i, s)' => i \in 1..Len(up) /\ CancelAt(i, s)
      PROVE  CancelInv'
  <2>1. \A s \in Turns : pc'[s] = IF s = t THEN p ELSE pc[s]
    BY <1>1, <1>4
  <2>2. \A s \in Turns : pc[s] \in Opened => pc'[s] \in Opened
    BY <1>4, <2>1 DEF Opened
  <2>3. \A s \in Turns : pc[s] = "over" => pc'[s] = "over"
    BY <1>4, <2>1 DEF Opened
  <2> QED BY <1>2, <1>4, <2>2, <2>3, CancelKept DEF Wrote
<1>5. ASSUME NEW t \in Turns, Call(t) \/ Acquire(t) \/ GiveUp(t) \/ DialFails(t) \/ Return(t)
      PROVE  CancelInv'
  <2>1. UNCHANGED <<cancelled, watcher, abortedBy, up>>
    BY <1>5 DEF Call, Acquire, GiveUp, DialFails, Return, conn, worker
  <2>2. PICK p : pc' = [pc EXCEPT ![t] = p] /\ (pc[t] \notin Opened \/ p = "over")
    BY <1>5 DEF Call, Acquire, GiveUp, DialFails, Return, Opened
  <2> QED BY <1>3, <1>4, <2>1, <2>2
<1>6. ASSUME NEW t \in Turns, HandshakeFails(t) \/ OpenFails(t) PROVE CancelInv'
  <2>1. UNCHANGED <<cancelled, watcher, abortedBy>> /\ up' = <<>> /\ Len(up') = 0
    BY <1>6 DEF HandshakeFails, OpenFails, Drop
  <2>2. pc' = [pc EXCEPT ![t] = "over"]
    BY <1>6 DEF HandshakeFails, OpenFails
  <2> QED BY <1>3, <1>4, <2>1, <2>2
<1>7. ASSUME NEW t \in Turns, Dial(t) PROVE CancelInv'
  <2>1. pc' = [pc EXCEPT ![t] = pc[t]]
    BY <1>1, <1>7 DEF Dial
  <2>2. up' = <<[kind |-> "hello", by |-> t]>> /\ UNCHANGED <<cancelled, watcher, abortedBy>>
    BY <1>7 DEF Dial, worker
  <2>3. Len(up') = 1 /\ up'[1].kind = "hello"
    BY <2>2
  <2>4. \A i \in 1..Len(up') : \A s \in Turns : ~CancelAt(i, s)'
    BY <2>3 DEF CancelAt
  <2> QED BY <1>4, <2>1, <2>2, <2>4
<1>8. ASSUME NEW t \in Turns, Connected(t) PROVE CancelInv'
  <2>1. pc' = [pc EXCEPT ![t] = "opening"] /\ pc[t] \notin Opened
    BY <1>8 DEF Connected, Opened
  <2>2. UNCHANGED <<cancelled, watcher, abortedBy, up>>
    BY <1>8 DEF Connected, worker
  <2> QED BY <1>3, <1>4, <2>1, <2>2
<1>9. ASSUME NEW t \in Turns, ReadFrame(t) PROVE CancelInv'
  <2>1. pc[t] = "pumping" /\ UNCHANGED <<cancelled, watcher, abortedBy, up>>
    BY <1>9 DEF ReadFrame, worker
  <2>2. PICK p \in {pc[t], "closed"} : pc' = [pc EXCEPT ![t] = p]
    BY <1>1, <1>9 DEF ReadFrame
  <2> QED BY <1>3, <1>4, <2>1, <2>2
<1>10. ASSUME NEW t \in Turns, ReadFails(t) PROVE CancelInv'
  <2>1. UNCHANGED <<cancelled, watcher, abortedBy>> /\ up' = <<>> /\ Len(up') = 0
    BY <1>10 DEF ReadFails, OnReadError, Drop
  <2>2. pc[t] = "pumping" /\ pc' = [pc EXCEPT ![t] = "closed"]
    BY <1>10 DEF ReadFails
  <2> QED BY <1>3, <1>4, <2>1, <2>2
<1>11. ASSUME UNCHANGED <<pc, cancelled, watcher, abortedBy>>, up' = up \/ Len(up') = 0 PROVE CancelInv'
  BY <1>2, <1>3, <1>11, CancelKept DEF Wrote
<1>12. ASSUME NEW t \in Turns, Deliver(t) \/ StopDelivering(t) \/ Take(t) PROVE CancelInv'
  BY <1>11, <1>12 DEF Deliver, StopDelivering, Take, conn, worker
<1>13. CASE UNCHANGED vars
  BY <1>11, <1>13 DEF vars, conn, worker
<1>14. ASSUME NEW t \in Turns, Cancel(t) PROVE CancelInv'
  <2>1. cancelled' = cancelled \cup {t} /\ UNCHANGED <<pc, watcher, up, abortedBy>>
    BY <1>14 DEF Cancel, conn, worker
  <2>2. IsFiniteSet(cancelled')
    BY <1>2, <2>1, FS_AddElement
  <2> QED BY <1>2, <1>3, <2>1, <2>2, CancelKept DEF Wrote
<1>15. ASSUME NEW t \in Turns, EndWatch(t) \/ Notice(t) PROVE CancelInv'
  <2>1. UNCHANGED <<pc, cancelled, up, abortedBy>> /\ watcher[t] = "waiting"
    BY <1>15 DEF EndWatch, Notice, conn, worker
  <2>2. \A s \in Turns \ {t} : watcher'[s] = watcher[s]
    BY <1>1, <1>15 DEF EndWatch, Notice
  <2>3. watcher'[t] = "none" \/ (watcher'[t] = "writing" /\ t \in cancelled)
    BY <1>1, <1>15 DEF EndWatch, Notice
  <2>4. \A s \in Turns : Wrote(s) => watcher'[s] = "none"
    BY <2>1, <2>2 DEF Wrote
  <2> QED BY <1>2, <1>3, <2>1, <2>2, <2>3, <2>4, CancelKept
<1>16. ASSUME NEW t \in Turns, Open(t) PROVE CancelInv'
  <2>1. /\ pc[t] = "opening" /\ pc' = [pc EXCEPT ![t] = "pumping"]
        /\ watcher' = [watcher EXCEPT ![t] = "waiting"] /\ UNCHANGED <<cancelled, abortedBy>>
    BY <1>16 DEF Open, worker
  <2>2. \A i \in 1..Len(up') : \A s \in Turns : CancelAt(i, s)' => i \in 1..Len(up) /\ CancelAt(i, s)
    <3>1. CASE up' = up
      BY <1>3, <3>1
    <3>2. CASE up' = Append(up, [kind |-> "open", by |-> t])
      <4>1. /\ Len(up') = Len(up) + 1 /\ up'[Len(up) + 1].kind = "open"
            /\ \A i \in 1..Len(up) : up'[i] = up[i]
        BY <1>1, <3>2
      <4> QED BY <1>1, <4>1 DEF CancelAt
    <3> QED BY <1>16, <3>1, <3>2 DEF Open, Written
  <2>3. \A s \in Turns : /\ pc'[s] = IF s = t THEN "pumping" ELSE pc[s]
                         /\ watcher'[s] = IF s = t THEN "waiting" ELSE watcher[s]
    BY <1>1, <2>1
  <2>4. \A s \in Turns : pc[s] \in Opened => pc'[s] \in Opened
    BY <2>3 DEF Opened
  <2>5. \A s \in Turns : Wrote(s) => watcher'[s] = "none"
    BY <2>1, <2>3 DEF Wrote, Opened
  <2>6. \A s \in Turns : watcher'[s] # "none" => pc'[s] \in Opened
    BY <1>2, <2>3 DEF Opened
  <2>7. \A s \in Turns : pc[s] = "over" => pc'[s] = "over"
    BY <2>1, <2>3
  <2>8. \A s \in Turns : watcher'[s] = "writing" => s \in cancelled'
    BY <1>2, <2>1, <2>3
  <2> QED BY <1>2, <2>1, <2>2, <2>4, <2>5, <2>6, <2>7, <2>8, CancelKept
\* A Cancel is written.
<1>17. ASSUME NEW t \in Turns, WriteCancel(t) PROVE CancelInv'
  <2>1. /\ watcher[t] = "writing" /\ watcher' = [watcher EXCEPT ![t] = "none"]
        /\ UNCHANGED <<pc, cancelled, abortedBy>>
    BY <1>17 DEF WriteCancel, AfterCancel, worker
  <2>2. \A s \in Turns : watcher'[s] = IF s = t THEN "none" ELSE watcher[s]
    BY <1>1, <2>1
  <2>3. \A s \in Turns : Wrote(s) => Wrote(s)' /\ s # t
    BY <2>1, <2>2 DEF Wrote
  <2>4. Wrote(t)'
    BY <1>2, <2>1, <2>2 DEF Wrote
  <2>5. CASE up' = up
    BY <1>2, <1>3, <2>1, <2>2, <2>3, <2>5, CancelKept DEF Wrote
  <2>6. CASE up' = Append(up, [kind |-> "cancel", by |-> t])
    <3>1. /\ Len(up') = Len(up) + 1 /\ up'[Len(up) + 1].kind = "cancel" /\ up'[Len(up) + 1].by = t
          /\ \A i \in 1..Len(up) : up'[i] = up[i]
          /\ \A i \in 1..Len(up') : i # Len(up) + 1 => i \in 1..Len(up)
      BY <1>1, <2>6
    <3>2. \A s \in Turns \ {t} : \A i \in 1..Len(up') : CancelAt(i, s)' => i \in 1..Len(up) /\ CancelAt(i, s)
      BY <3>1 DEF CancelAt
    <3>3. \A i \in 1..Len(up') : CancelAt(i, t)' => i = Len(up) + 1
      <4>1. \A i \in 1..Len(up) : ~CancelAt(i, t)
        BY <1>2, <2>3 DEF OneOnWire
      <4> QED BY <3>1, <4>1 DEF CancelAt
    <3>4. OneOnWire'
      <4> SUFFICES ASSUME NEW s \in Turns, NEW i \in 1..Len(up'), CancelAt(i, s)'
                   PROVE  Wrote(s)' /\ \A j \in 1..Len(up') : CancelAt(j, s)' => i = j
        BY DEF OneOnWire
      <4>1. CASE s = t
        BY <2>4, <3>3, <4>1
      <4>2. CASE s # t
        BY <1>2, <2>3, <3>2, <4>2 DEF OneOnWire
      <4> QED BY <4>1, <4>2
    <3>5. SpentOnce'
      <4>1. \A s, u \in Turns : s \in abortedBy[u] => s # t
        BY <1>2, <2>3 DEF SpentOnce
      <4> QED BY <1>2, <2>1, <2>3, <3>2, <4>1 DEF SpentOnce
    <3> QED BY <1>2, <2>1, <2>2, <3>4, <3>5 DEF CancelInv
  <2> QED BY <1>17, <2>5, <2>6 DEF WriteCancel, Written
\* Steps of the worker.
<1>18. ASSUME up # <<>>, up' = Tail(up)
       PROVE  /\ 1 \in 1..Len(up) /\ Head(up) = up[1]
              /\ \A i \in 1..Len(up') : i + 1 \in 1..Len(up) /\ i + 1 # 1 /\ \A s : CancelAt(i, s)' <=> CancelAt(i + 1, s)
              /\ \A i, j \in 1..Len(up') : i + 1 = j + 1 => i = j
  <2>1. /\ Len(up') = Len(up) - 1 /\ 1 \in 1..Len(up) /\ Head(up) = up[1]
        /\ \A i \in 1..Len(up') : i + 1 \in 1..Len(up) /\ i + 1 # 1 /\ up'[i] = up[i + 1]
        /\ \A i, j \in 1..Len(up') : i + 1 = j + 1 => i = j
    BY <1>1, <1>18
  <2> QED BY <2>1 DEF CancelAt
<1>19. ASSUME up # <<>>, up' = Tail(up), UNCHANGED <<pc, cancelled, watcher>>
       PROVE  OneOnWire' /\ \A s : Wrote(s)' <=> Wrote(s)
  <2>1. \A s : Wrote(s)' <=> Wrote(s)
    BY <1>19 DEF Wrote
  <2> SUFFICES ASSUME NEW s \in Turns, NEW i \in 1..Len(up'), CancelAt(i, s)'
               PROVE  Wrote(s)' /\ \A j \in 1..Len(up') : CancelAt(j, s)' => i = j
    BY <2>1 DEF OneOnWire
  <2>2. i + 1 \in 1..Len(up) /\ CancelAt(i + 1, s)
    BY <1>18, <1>19
  <2>3. ASSUME NEW j \in 1..Len(up'), CancelAt(j, s)' PROVE i = j
    <3>1. j + 1 \in 1..Len(up) /\ CancelAt(j + 1, s)
      BY <1>18, <1>19, <2>3
    <3>2. i + 1 = j + 1
      BY <1>2, <2>2, <3>1 DEF OneOnWire
    <3> QED BY <1>18, <1>19, <3>2
  <2> QED BY <1>2, <2>1, <2>2, <2>3 DEF OneOnWire
<1>20. ASSUME up # <<>>, up' = Tail(up), UNCHANGED <<pc, cancelled, watcher, abortedBy>> PROVE CancelInv'
  <2>1. OneOnWire' /\ \A s : Wrote(s)' <=> Wrote(s)
    BY <1>19, <1>20
  <2>2. SpentOnce'
    BY <1>2, <1>18, <1>20, <2>1 DEF SpentOnce
  <2> QED BY <1>2, <1>20, <2>1, <2>2 DEF CancelInv
<1>21. CASE Answer \/ Generate
  BY <1>20, <1>21 DEF Answer, Generate, Receive, worker
<1>22. CASE Emit \/ Complete
  BY <1>11, <1>22 DEF Emit, Complete
<1>23. CASE Break
  <2>1. Len(up') = 0
    BY <1>23 DEF Break
  <2> QED BY <1>11, <1>23, <2>1 DEF Break
<1>24. CASE Abort
  <2>1. up # <<>> /\ Head(up).kind = "cancel" /\ up' = Tail(up) /\ UNCHANGED <<pc, cancelled, watcher>>
    BY <1>24 DEF Abort, Receive
  <2>2. CASE gen = NoTurn
    BY <1>20, <1>24, <2>1, <2>2 DEF Abort
  <2>3. CASE gen # NoTurn
    <3>0. PICK c : c = Head(up).by
      OBVIOUS
    <3>1. 1 \in 1..Len(up) /\ c \in Turns /\ CancelAt(1, c)
      BY <1>1, <1>18, <2>1, <3>0 DEF CancelAt
    <3>2. Wrote(c)
      BY <1>2, <3>1 DEF OneOnWire
    <3>3. \A t \in Turns : c \notin abortedBy[t]
      BY <1>2, <3>1 DEF SpentOnce
    <3>4. \A i \in 1..Len(up') : ~CancelAt(i, c)'
      BY <1>2, <1>18, <2>1, <3>1 DEF OneOnWire
    <3>5. gen \in Turns /\ pc[gen] = "pumping"
      BY <1>1, <2>3 DEF WireInv
    <3>6. c = gen \/ pc[c] = "over"
      BY <3>1, <3>2, <3>5 DEF Wrote, Opened, PhaseInv, OneInside, Inside
    <3>7. abortedBy' = [abortedBy EXCEPT ![gen] = @ \cup {c}]
      BY <1>24, <2>3, <3>0 DEF Abort
    <3>8. \A t \in Turns : \A s : s \in abortedBy'[t] <=> s \in abortedBy[t] \/ (t = gen /\ s = c)
      BY <1>1, <3>5, <3>7
    <3>9. OneOnWire' /\ \A s : Wrote(s)' <=> Wrote(s)
      BY <1>19, <2>1
    <3>10. SpentOnce'
      <4> SUFFICES ASSUME NEW s \in Turns, NEW t \in Turns, s \in abortedBy'[t]
                   PROVE  /\ Wrote(s)' /\ (s = t \/ pc'[s] = "over")
                          /\ \A i \in 1..Len(up') : ~CancelAt(i, s)'
                          /\ \A u \in Turns : s \in abortedBy'[u] => u = t
        BY DEF SpentOnce
      <4>1. CASE s = c
        <5>1. t = gen /\ \A u \in Turns : s \in abortedBy'[u] => u = t
          BY <3>3, <3>8, <4>1
        <5> QED BY <2>1, <3>2, <3>4, <3>6, <3>9, <4>1, <5>1
      <4>2. CASE s # c
        <5>1. s \in abortedBy[t] /\ \A u \in Turns : s \in abortedBy'[u] => s \in abortedBy[u]
          BY <3>8, <4>2
        <5> QED BY <1>2, <1>18, <2>1, <3>9, <5>1 DEF SpentOnce
      <4> QED BY <4>1, <4>2
    <3> QED BY <1>2, <2>1, <3>9, <3>10 DEF CancelInv
  <2> QED BY <2>2, <2>3
<1> QED
  BY <1>5, <1>6, <1>7, <1>8, <1>9, <1>10, <1>12, <1>13, <1>14, <1>15, <1>16, <1>17, <1>21, <1>22, <1>23, <1>24
     DEF Next, Worker, Client
-----------------------------------------------------------------------------
(* The theorems.                                                           *)

ConnectionInv ==
  ShapesOK /\ PhaseInv /\ WireInv /\ EventsOK /\ StreamInv /\ CancelInv

\* The layers together are inductive.
THEOREM ConnectionInvariant == Spec => []ConnectionInv
<1>1. Init => ConnectionInv
  BY ShapesInit, PhaseInit, WireInit, EventsInit, StreamInit, CancelInit DEF ConnectionInv
<1>2. ConnectionInv /\ [Next]_vars => ConnectionInv'
  BY ShapesStep, PhaseStep, WireStep, EventsStep, StreamStep, CancelStep DEF ConnectionInv
<1> QED BY <1>1, <1>2, PTL DEF Spec

\* The variables of a client, its connection and its worker keep their types: the channel
\* of a turn within its capacity, a pump with one event at most in hand.
THEOREM TypeCorrect == Spec => []TypeOK
<1>1. ConnectionInv => TypeOK
  BY DEF ConnectionInv, ShapesOK, EventsOK, TypeOK
<1> QED BY <1>1, ConnectionInvariant, PTL

\* Whatever the connection lives through, a turn is given the frames generated for it and
\* no other's, from the first on and without a gap, and an end unless it was cancelled.
THEOREM FramesReachTheirTurn == Spec => []StreamIsItsOwn
<1>1. ASSUME ConnectionInv PROVE StreamIsItsOwn
  <2> SUFFICES ASSUME NEW t \in Turns
               PROVE  /\ \A i \in 1..Len(Stream(t)) :
                           /\ Stream(t)[i].of = t /\ Stream(t)[i].n = i
                           /\ i < Len(Stream(t)) => Stream(t)[i].kind = "data"
                      /\ t \in sending /\ pc[t] \in {"closed", "over"} =>
                           Stream(t) # <<>> /\ Last(Stream(t)).kind # "data"
    BY DEF StreamIsItsOwn
  <2>1. StreamAt(t)
    BY <1>1 DEF ConnectionInv, StreamInv
  <2> QED BY <2>1 DEF StreamAt, Numbered, After, Last
<1> QED BY <1>1, ConnectionInvariant, PTL

\* pump's "byte-aligned": between two turns the connection holds nothing of the last one,
\* and the worker generates nothing more of it.
THEOREM NothingIsLeftBehind == Spec => []LinkIsAligned
<1>1. ASSUME ConnectionInv PROVE LinkIsAligned
  <2> SUFFICES ASSUME link = "up", \A t \in Turns : pc[t] # "pumping"
               PROVE  down = <<>> /\ gen = NoTurn /\ \A i \in 1..Len(up) : up[i].kind = "cancel"
    BY DEF LinkIsAligned
  <2>1. WireInv /\ up \in Seq(UpFrames) /\ down \in Seq(Frames) /\ gen \in Turns \cup {NoTurn}
    BY <1>1 DEF ConnectionInv, ShapesOK
  <2>2. gen = NoTurn
    BY <2>1 DEF WireInv
  <2>3. \A i \in 1..Len(down) : FALSE
    BY <2>1 DEF WireInv
  <2>4. down = <<>>
    BY <2>1, <2>3
  <2>5. \A i \in 1..Len(up) : up[i] \in UpFrames
    BY <2>1
  <2>6. \A i \in 1..Len(up) : up[i].by \in Turns
    BY <2>5 DEF UpFrames
  <2> QED BY <2>1, <2>2, <2>4, <2>6 DEF WireInv
<1> QED BY <1>1, ConnectionInvariant, PTL

\* The turns whose generation was cut short are no more than the contexts that ended: each
\* was cut by a Cancel of its own.
LEMMA OneCancelEach ==
  ASSUME ConnectionInv
  PROVE  Cardinality({t \in Turns : abortedBy[t] # {}}) <= Cardinality(cancelled)
<1> DEFINE Cut == {t \in Turns : abortedBy[t] # {}}
           f == [t \in Cut |-> CHOOSE s \in abortedBy[t] : TRUE]
<1>1. \A t \in Cut : f[t] \in abortedBy[t]
  OBVIOUS
<1>2. /\ SpentOnce /\ IsFiniteSet(cancelled)
      /\ \A t \in Turns : \A s \in abortedBy[t] : s \in Turns /\ s \in cancelled
  BY DEF ConnectionInv, CancelInv, SpentOnce, Wrote, ShapesOK
<1>3. f \in [Cut -> cancelled]
  BY <1>1, <1>2
<1>4. ASSUME NEW t \in Cut, NEW u \in Cut, f[t] = f[u] PROVE t = u
  BY <1>1, <1>2, <1>4 DEF SpentOnce
<1> HIDE DEF Cut, f
<1>5. f \in Injection(Cut, cancelled)
  BY <1>3, <1>4 DEF Injection, IsInjective
<1>6. Cardinality(Cut) <= Cardinality(cancelled)
  BY <1>2, <1>5, FS_Injection
<1> QED BY <1>6 DEF Cut

\* A Cancel that comes late cuts short only a turn that came after its own, and a context
\* that ends cuts short one generation at most.
THEOREM CancelsAreSpentOnce == Spec => []CancelStopsOne
<1>1. ASSUME ConnectionInv PROVE CancelStopsOne
  <2>1. \A s, t \in Turns : s \in abortedBy[t] => s \in cancelled /\ (s = t \/ pc[s] = "over")
    BY <1>1 DEF ConnectionInv, CancelInv, SpentOnce, Wrote
  <2> QED BY <1>1, <2>1, OneCancelEach DEF CancelStopsOne
<1> QED BY <1>1, ConnectionInvariant, PTL
=============================================================================
