------------------------------ MODULE LocalWorker ------------------------------
(***************************************************************************)
(* LocalWorkerClient (internal/apiclient/localworker_client.go): the turns *)
(* of a session, and of the connections of korai serve, share one socket   *)
(* to an inference worker that speaks the frames of internal/localproto.   *)
(*                                                                         *)
(* A turn is a call of Complete.  It takes the client's semaphore, dials   *)
(* if there is no connection, writes its Open frame and leaves a goroutine *)
(* (pump) reading frames until a terminal one.  A second goroutine, the    *)
(* turn's watcher, writes a Cancel frame when the turn's context ends.     *)
(* The turns that are over leave the connection to the next.               *)
(*                                                                         *)
(* The worker is external: it answers a Hello, generates for an Open until *)
(* a terminal frame, ends a generation early for a Cancel, ignores a       *)
(* Cancel without one, and may stop talking, or close, at any moment.  A   *)
(* frame carries the turn it was generated for and its number.  Writes     *)
(* return: they succeed, or fail on a connection that is closed.           *)
(***************************************************************************)
EXTENDS Integers, Sequences, FiniteSets, SequencesExt

CONSTANTS
  Turns,      \* the calls of Complete
  NoTurn,     \* the worker generates for nobody
  MaxFrames,  \* bound: frames of a generation before its terminal one
  Buffer,     \* capacity of a turn's event channel, 64
  MaxBreaks   \* bound: connections the worker closes

ASSUME WorkerAssumption ==
  /\ NoTurn \notin Turns /\ MaxFrames \in Nat /\ Buffer \in Nat \ {0} /\ MaxBreaks \in Nat

VARIABLES
  \* The client.
  pc,         \* where each turn is
  cancelled,  \* the turns whose context has ended
  watcher,    \* each turn's watcher
  sending,    \* the turns pump still delivers to
  held,       \* the events a turn's pump has to deliver, none or one
  chan,       \* the channel of each turn
  got,        \* what the caller of each turn has read
  \* The connection and what is in flight on it.
  link,       \* "none", "handshake" or "up"
  up,         \* frames to the worker
  down,       \* frames from the worker
  broken,     \* the worker has closed it
  \* The worker.
  gen,        \* the turn it generates for
  sent,       \* frames of this generation
  breaks,     \* connections it has closed
  abortedBy   \* history: for each turn, the turns whose Cancel cut it short

conn   == <<link, up, down, broken>>
worker == <<gen, sent, breaks, abortedBy>>
events == <<sending, held, chan, got>>
vars   == <<pc, cancelled, watcher, events, conn, worker>>

Ends      == {"done", "cancelled"}
Handshake == {"ready", "mismatch"}
UpFrames  == [kind : {"hello", "open", "cancel"}, by : Turns]
Frames    == [kind : {"data"} \cup Ends \cup Handshake, of : Turns \cup {NoTurn}, n : Nat]
\* Token and ToolCall events are a frame's, "lost" is the error pump makes itself.
Events    == [kind : {"data", "lost"} \cup Ends, of : Turns, n : Nat]

Phases == {"new", "waiting", "connecting", "opening", "pumping", "closed", "over"}

\* The turns inside the semaphore.
Inside == {t \in Turns : pc[t] \in {"connecting", "opening", "pumping", "closed"}}

Init ==
  /\ pc = [t \in Turns |-> "new"] /\ cancelled = {}
  /\ watcher = [t \in Turns |-> "none"]
  /\ sending = {} /\ held = [t \in Turns |-> <<>>]
  /\ chan = [t \in Turns |-> <<>>] /\ got = [t \in Turns |-> <<>>]
  /\ link = "none" /\ up = <<>> /\ down = <<>> /\ broken = FALSE
  /\ gen = NoTurn /\ sent = 0 /\ breaks = 0 /\ abortedBy = [t \in Turns |-> {}]

-----------------------------------------------------------------------------
(* Connecting.                                                             *)

\* dropConn, or the Close of a failed handshake.  The worker notices.
Drop ==
  /\ link' = "none" /\ up' = <<>> /\ down' = <<>> /\ broken' = FALSE
  /\ gen' = NoTurn /\ sent' = 0 /\ UNCHANGED <<breaks, abortedBy>>

\* A read error that leaves the connection for the next turn.
KeepOnError == UNCHANGED <<conn, worker>>

Call(t) ==
  /\ pc[t] = "new" /\ pc' = [pc EXCEPT ![t] = "waiting"]
  /\ UNCHANGED <<cancelled, watcher, events, conn, worker>>

\* The semaphore is free.
SemFree == Inside = {}

Acquire(t) ==
  /\ pc[t] = "waiting" /\ SemFree
  /\ pc' = [pc EXCEPT ![t] = IF link = "up" THEN "opening" ELSE "connecting"]
  /\ UNCHANGED <<cancelled, watcher, events, conn, worker>>

\* The context ends before the semaphore is free.
GiveUp(t) ==
  /\ pc[t] = "waiting" /\ t \in cancelled
  /\ pc' = [pc EXCEPT ![t] = "over"]
  /\ UNCHANGED <<cancelled, watcher, events, conn, worker>>

Dial(t) ==
  /\ pc[t] = "connecting" /\ link = "none"
  /\ link' = "handshake" /\ up' = <<[kind |-> "hello", by |-> t]>>
  /\ UNCHANGED <<pc, cancelled, watcher, events, down, broken, worker>>

DialFails(t) ==
  /\ pc[t] = "connecting" /\ link = "none"
  /\ pc' = [pc EXCEPT ![t] = "over"]
  /\ UNCHANGED <<cancelled, watcher, events, conn, worker>>

\* Ready with the client's protocol version.
Answered == down # <<>> /\ Head(down).kind = "ready"

Connected(t) ==
  /\ pc[t] = "connecting" /\ link = "handshake" /\ Answered
  /\ link' = "up" /\ down' = Tail(down)
  /\ pc' = [pc EXCEPT ![t] = "opening"]
  /\ UNCHANGED <<cancelled, watcher, events, up, broken, worker>>

\* Another version, a closed connection, or ten seconds of silence.
HandshakeFails(t) ==
  /\ pc[t] = "connecting" /\ link = "handshake"
  /\ ~Answered
  /\ pc' = [pc EXCEPT ![t] = "over"] /\ Drop
  /\ UNCHANGED <<cancelled, watcher, events>>

-----------------------------------------------------------------------------
(* A turn.                                                                 *)

\* A frame reaches the worker unless the connection is broken.
Written(f) == IF broken THEN up ELSE Append(up, f)

\* sendTurn, and the goroutines of the turn.
Open(t) ==
  /\ pc[t] = "opening"
  /\ up' = Written([kind |-> "open", by |-> t])
  /\ pc' = [pc EXCEPT ![t] = "pumping"]
  /\ watcher' = [watcher EXCEPT ![t] = "waiting"]
  /\ sending' = sending \cup {t}
  /\ UNCHANGED <<cancelled, held, chan, got, link, down, broken, worker>>

\* The write fails, or a block of the request has no wire form.
OpenFails(t) ==
  /\ pc[t] = "opening"
  /\ pc' = [pc EXCEPT ![t] = "over"] /\ Drop
  /\ UNCHANGED <<cancelled, watcher, events>>

\* The event pump makes of a frame, with its content, or of an error.
EventOf(t, f) == IF t \in sending THEN <<f>> ELSE <<>>

Lost(t) == [kind |-> "lost", of |-> t, n |-> Len(got[t]) + Len(chan[t]) + 1]

\* pump reads on, also for a caller that has gone, to the terminal frame.
Reads(t) == held[t] = <<>>

\* A pump that also returns when nobody listens any more.
PumpReturns(t, f) == f.kind \in Ends \/ t \notin sending

\* Only a terminal frame ends the turn on a connection that works.
Terminal(t, f) == f.kind \in Ends

ReadFrame(t) ==
  /\ pc[t] = "pumping" /\ Reads(t) /\ down # <<>>
  /\ LET f == Head(down) IN
       /\ held' = [held EXCEPT ![t] = EventOf(t, f)]
       /\ pc' = IF Terminal(t, f) THEN [pc EXCEPT ![t] = "closed"] ELSE pc
  /\ down' = Tail(down)
  /\ UNCHANGED <<cancelled, watcher, sending, chan, got, link, up, broken, worker>>

\* What becomes of the connection when a read fails.
OnReadError == Drop

\* A read fails when the connection ends.
ConnectionEnds == broken

\* It also fails when two minutes pass without a frame (streamIdleTimeout).
GoesSilent == TRUE

ReadFails(t) ==
  /\ pc[t] = "pumping" /\ Reads(t) /\ down = <<>> /\ GoesSilent
  /\ OnReadError
  /\ held' = [held EXCEPT ![t] = EventOf(t, Lost(t))]
  /\ pc' = [pc EXCEPT ![t] = "closed"]
  /\ UNCHANGED <<cancelled, watcher, sending, chan, got>>

\* deliver: both cases of its select.
Deliver(t) ==
  /\ held[t] # <<>> /\ Len(chan[t]) < Buffer
  /\ chan' = [chan EXCEPT ![t] = @ \o held[t]]
  /\ held' = [held EXCEPT ![t] = <<>>]
  /\ UNCHANGED <<pc, cancelled, watcher, sending, got, conn, worker>>

StopDelivering(t) ==
  /\ held[t] # <<>> /\ t \in cancelled
  /\ held' = [held EXCEPT ![t] = <<>>] /\ sending' = sending \ {t}
  /\ UNCHANGED <<pc, cancelled, watcher, chan, got, conn, worker>>

\* pump returns: watcherDone and the channel are closed, the semaphore is released.
Return(t) ==
  /\ pc[t] = "closed" /\ held[t] = <<>>
  /\ pc' = [pc EXCEPT ![t] = "over"]
  /\ UNCHANGED <<cancelled, watcher, events, conn, worker>>

\* The watcher's select takes watcherDone.
EndWatch(t) ==
  /\ watcher[t] = "waiting" /\ pc[t] = "over"
  /\ watcher' = [watcher EXCEPT ![t] = "none"]
  /\ UNCHANGED <<pc, cancelled, events, conn, worker>>

\* It takes ctx.Done(), with watcherDone ready or not, and goes on to write.
Notice(t) ==
  /\ watcher[t] = "waiting" /\ t \in cancelled
  /\ watcher' = [watcher EXCEPT ![t] = "writing"]
  /\ UNCHANGED <<pc, cancelled, events, conn, worker>>

\* A watcher that goes on writing.
StillWriting == "writing"

\* The watcher writes once.
AfterCancel == "none"

\* writeFrame: on whatever connection there is by now.
WriteCancel(t) ==
  /\ watcher[t] = "writing" /\ watcher' = [watcher EXCEPT ![t] = AfterCancel]
  /\ up' = IF link = "up" THEN Written([kind |-> "cancel", by |-> t]) ELSE up
  /\ UNCHANGED <<pc, cancelled, events, link, down, broken, worker>>

\* The caller: its context ends, during the turn or after it; it reads until the channel
\* is closed, or until its context has ended.
Cancel(t) ==
  /\ pc[t] # "new" /\ t \notin cancelled
  /\ cancelled' = cancelled \cup {t}
  /\ UNCHANGED <<pc, watcher, events, conn, worker>>

Take(t) ==
  /\ chan[t] # <<>>
  /\ got' = [got EXCEPT ![t] = Append(@, Head(chan[t]))]
  /\ chan' = [chan EXCEPT ![t] = Tail(@)]
  /\ UNCHANGED <<pc, cancelled, watcher, sending, held, conn, worker>>

-----------------------------------------------------------------------------
(* The worker.                                                             *)

Receive(kind) == up # <<>> /\ Head(up).kind = kind /\ up' = Tail(up)

Answer ==
  /\ Receive("hello")
  /\ \E r \in Handshake : down' = Append(down, [kind |-> r, of |-> NoTurn, n |-> 0])
  /\ UNCHANGED <<pc, cancelled, watcher, events, link, broken, worker>>

Generate ==
  /\ Receive("open") /\ gen = NoTurn
  /\ gen' = Head(up).by /\ sent' = 0
  /\ UNCHANGED <<pc, cancelled, watcher, events, link, down, broken, breaks, abortedBy>>

Emit ==
  /\ gen # NoTurn /\ sent < MaxFrames
  /\ sent' = sent + 1 /\ down' = Append(down, [kind |-> "data", of |-> gen, n |-> sent + 1])
  /\ UNCHANGED <<pc, cancelled, watcher, events, link, up, broken, gen, breaks, abortedBy>>

Finish(end) ==
  /\ down' = Append(down, [kind |-> end, of |-> gen, n |-> sent + 1])
  /\ gen' = NoTurn /\ sent' = 0

Complete ==
  /\ gen # NoTurn /\ Finish("done")
  /\ UNCHANGED <<pc, cancelled, watcher, events, link, up, broken, breaks, abortedBy>>

Abort ==
  /\ Receive("cancel")
  /\ IF gen = NoTurn THEN UNCHANGED <<down, gen, sent, abortedBy>>
     ELSE /\ Finish("cancelled")
          /\ abortedBy' = [abortedBy EXCEPT ![gen] = @ \cup {Head(up).by}]
  /\ UNCHANGED <<pc, cancelled, watcher, events, link, broken, breaks>>

\* The worker ends or closes the connection.  What it has written is still read.
Break ==
  /\ link # "none" /\ ~broken /\ breaks < MaxBreaks
  /\ broken' = TRUE /\ up' = <<>> /\ gen' = NoTurn /\ sent' = 0 /\ breaks' = breaks + 1
  /\ UNCHANGED <<pc, cancelled, watcher, events, link, down, abortedBy>>

-----------------------------------------------------------------------------
Client(t) ==
  \/ Acquire(t) \/ GiveUp(t) \/ Dial(t) \/ DialFails(t) \/ Connected(t) \/ HandshakeFails(t)
  \/ Open(t) \/ OpenFails(t) \/ ReadFrame(t) \/ ReadFails(t)
  \/ Deliver(t) \/ StopDelivering(t) \/ Return(t)
  \/ EndWatch(t) \/ Notice(t) \/ WriteCancel(t) \/ Take(t)

Worker == Answer \/ Generate \/ Emit \/ Complete \/ Abort \/ Break

Next == Worker \/ \E t \in Turns : Call(t) \/ Cancel(t) \/ Client(t)

\* Goroutines run, deadlines pass and callers drain their channel.  Nothing is assumed
\* of the worker.
Fairness == \A t \in Turns : WF_vars(Client(t))

Spec == Init /\ [][Next]_vars /\ Fairness
-----------------------------------------------------------------------------
TypeOK ==
  /\ pc \in [Turns -> Phases] /\ cancelled \subseteq Turns
  /\ watcher \in [Turns -> {"none", "waiting", "writing"}]
  /\ sending \subseteq Turns
  /\ held \in [Turns -> Seq(Events)] /\ \A t \in Turns : Len(held[t]) <= 1
  /\ chan \in [Turns -> Seq(Events)] /\ \A t \in Turns : Len(chan[t]) <= Buffer
  /\ got \in [Turns -> Seq(Events)]
  /\ link \in {"none", "handshake", "up"} /\ broken \in BOOLEAN
  /\ up \in Seq(UpFrames) /\ down \in Seq(Frames)
  /\ gen \in Turns \cup {NoTurn} /\ sent \in 0..MaxFrames /\ breaks \in 0..MaxBreaks
  /\ abortedBy \in [Turns -> SUBSET Turns]

\* What a turn has been given, in order.
Stream(t) == got[t] \o chan[t] \o held[t]

\* A turn is given the frames generated for it and no other's, from the first on and
\* without a gap, although the connection outlives the turn, its cancellation, its
\* timeout and its worker; and a turn that was not cancelled is given an end.
StreamIsItsOwn ==
  \A t \in Turns :
    LET s == Stream(t) IN
    /\ \A i \in 1..Len(s) : s[i].of = t /\ s[i].n = i /\ (i < Len(s) => s[i].kind = "data")
    /\ t \in sending /\ pc[t] \in {"closed", "over"} => s # <<>> /\ Last(s).kind # "data"

\* "so the reused connection stays byte-aligned" (pump): between two turns nothing of
\* the last one is left on the connection the next will use, and nothing more of it will
\* come.
LinkIsAligned ==
  link = "up" /\ {t \in Turns : pc[t] = "pumping"} = {} =>
    /\ down = <<>> /\ gen = NoTurn
    /\ \A i \in 1..Len(up) : up[i].kind = "cancel"

\* A Cancel frame written late can stop a turn that nobody cancelled, but only one
\* that came after its own, and a context that ends stops one generation at most.
CancelStopsOne ==
  /\ \A s, t \in Turns : s \in abortedBy[t] => s \in cancelled /\ (s = t \/ pc[s] = "over")
  /\ Cardinality({t \in Turns : abortedBy[t] # {}}) <= Cardinality(cancelled)

\* "A worker that accepts the connection and then says nothing must not wedge the CLI"
\* (handshakeTimeout), nor one that stops talking (streamIdleTimeout): every call of
\* Complete ends, and leaves the semaphore to the next.
TurnsEnd == \A t \in Turns : pc[t] = "waiting" ~> pc[t] = "over"
=============================================================================
