------------------------------- MODULE ServeConn -------------------------------
(***************************************************************************)
(* One connection of korai serve: handleWS's read loop, the worker that    *)
(* runs turns, the permission asker between them (internal/wsasker), and   *)
(* the process that shuts down under them.                                 *)
(*                                                                         *)
(* The read loop handles the client's messages in order and must never     *)
(* wait for the worker: the worker may be inside Ask, waiting for an       *)
(* answer only the read loop can bring.  An abort runs in the read loop    *)
(* and reaches the turn through the cancel function the worker registers.  *)
(* A turn's context is done when the turn is aborted or its connection is. *)
(*                                                                         *)
(* A turn is the engine's run as AgentLoop models it, seen from outside: a *)
(* goroutine that asks permissions and ends, while the worker forwards its *)
(* events (EventStream) until it ends or a send fails.  Messages that only *)
(* cause a reply (the session list, a malformed one) are left out.         *)
(***************************************************************************)
EXTENDS Naturals, Sequences

CONSTANTS
  MaxSent,   \* bound: messages the client sends
  MaxAsks    \* bound: permissions asked

ASSUME ServeAssumption == MaxSent \in Nat /\ MaxAsks \in Nat

QueueCap == 1   \* the capacity of actions

VARIABLES
  process,      \* "up", "stopping" after a signal, "exited"
  link,         \* whether the client is connected
  inbox, sent,  \* the messages on their way to the read loop; how many were sent
  loop,         \* the read loop: "reading", "resolving", "draining", "ended"
  found,        \* Resolve: the request whose channel it looked up, and the answer
  connDone,     \* connCtx is cancelled
  actions,      \* the channel of actions
  worker,       \* "idle", "starting", "bridging", "finished", "ended"
  turn,         \* turns begun
  cancelTurn,   \* the turn whose cancel function is registered, or 0
  engine,       \* the run's goroutine: "none", "running", "asking"
  cancelled,    \* the last turn's context is cancelled
  asks, ask,    \* permission requests issued; the pending one, or 0
  answer,       \* what the pending request's channel holds
  \* History variables.
  approved,     \* the requests the client approved
  lastAbort     \* the turn in flight when the last abort was read

clientVars == <<link, inbox, sent>>
readVars   == <<loop, found, connDone, lastAbort>>
turnVars   == <<worker, turn, cancelTurn>>
runVars    == <<engine, asks, ask, answer>>
vars == <<process, clientVars, readVars, actions, turnVars, cancelled, runVars, approved>>

Kinds == {"message", "slash", "sessions_resume"}
NoAnswer == [id |-> 0, approved |-> FALSE]

Init ==
  /\ process = "up" /\ link = "up" /\ inbox = <<>> /\ sent = 0
  /\ loop = "reading" /\ found = NoAnswer /\ connDone = FALSE /\ lastAbort = 0
  /\ actions = <<>>
  /\ worker = "idle" /\ turn = 0 /\ cancelTurn = 0 /\ cancelled = FALSE
  /\ engine = "none" /\ asks = 0 /\ ask = 0 /\ answer = "none" /\ approved = {}

InTurn == worker \in {"starting", "bridging"}

\* Writes to the client fail.
Broken == link = "down" \/ connDone

-----------------------------------------------------------------------------
(* The client.                                                             *)

Send(msg) ==
  /\ link = "up" /\ sent < MaxSent
  /\ inbox' = Append(inbox, msg) /\ sent' = sent + 1
  /\ UNCHANGED link

ClientSends ==
  /\ \/ \E kind \in Kinds \cup {"abort"} : Send([type |-> kind])
     \/ \E id \in 1..asks, yes \in BOOLEAN :
          Send([type |-> "perm_res", id |-> id, approved |-> yes])
  /\ UNCHANGED <<process, readVars, actions, turnVars, cancelled, runVars, approved>>

Disconnect ==
  /\ link = "up" /\ link' = "down"
  /\ UNCHANGED <<process, inbox, sent, readVars, actions, turnVars, cancelled, runVars, approved>>

-----------------------------------------------------------------------------
(* The read loop.                                                          *)

Reads(type) ==
  /\ loop = "reading" /\ ~connDone /\ inbox # <<>> /\ Head(inbox).type = type

Consume == inbox' = Tail(inbox) /\ UNCHANGED <<link, sent>>

\* A full queue holding up the read loop.
WaitWhenFull == Len(actions) < QueueCap

\* The send on actions does not wait.
CanOffer == TRUE

\* A message, slash command or resume goes to the worker, or is refused as busy.
Busy == Len(actions) >= QueueCap

ReadAction ==
  /\ \E kind \in Kinds :
       /\ Reads(kind) /\ CanOffer
       /\ actions' = IF Busy THEN actions ELSE Append(actions, kind)
  /\ Consume
  /\ UNCHANGED <<process, readVars, turnVars, cancelled, runVars, approved>>

ReadAbort ==
  /\ Reads("abort") /\ Consume
  /\ cancelled' = (cancelled \/ (cancelTurn # 0 /\ cancelTurn = turn))
  /\ lastAbort' = IF InTurn THEN turn ELSE lastAbort
  /\ UNCHANGED <<process, loop, found, connDone, actions, turnVars, runVars, approved>>

\* Resolve looks the request up under the lock ...
ReadPermRes ==
  /\ Reads("perm_res") /\ Consume
  /\ approved' = IF Head(inbox).approved THEN approved \cup {Head(inbox).id} ELSE approved
  /\ IF Head(inbox).id = ask
     THEN /\ loop' = "resolving"
          /\ found' = [id |-> ask, approved |-> Head(inbox).approved]
     ELSE UNCHANGED <<loop, found>>
  /\ UNCHANGED <<process, connDone, lastAbort, actions, turnVars, cancelled, runVars>>

SingleSlot(id) == ask # 0

\* Every request has a channel of its own; one Ask has left holds nobody up.
ReachesAsk(id) == id = ask

\* ... and sends on its channel, which holds one answer, after it.
Resolve ==
  /\ loop = "resolving"
  /\ answer' = IF ReachesAsk(found.id) /\ answer = "none"
               THEN IF found.approved THEN "yes" ELSE "no"
               ELSE answer
  /\ loop' = "reading" /\ found' = NoAnswer
  /\ UNCHANGED <<process, clientVars, connDone, lastAbort, actions, turnVars, cancelled, engine, asks, ask,
                 approved>>

\* Read fails: cancelConn, close(actions).
ReadFails ==
  /\ loop = "reading" /\ (link = "down" \/ connDone)
  /\ loop' = "draining" /\ connDone' = TRUE
  /\ UNCHANGED <<process, clientVars, found, lastAbort, actions, turnVars, cancelled, runVars,
                 approved>>

\* wg.Wait returns.
HandlerReturns ==
  /\ loop = "draining" /\ worker = "ended" /\ loop' = "ended"
  /\ UNCHANGED <<process, clientVars, found, connDone, lastAbort, actions, turnVars, cancelled,
                 runVars, approved>>

-----------------------------------------------------------------------------
(* The worker.                                                             *)

\* Only a message, or a slash command that submits a prompt, begins a turn.
TurnFrom(kind) ==
  CASE kind = "message" -> {"starting"}
    [] kind = "slash" -> {"starting", "idle"}
    [] kind = "sessions_resume" -> {"idle"}

\* A turn whose context is the one an abort has cancelled.
ReusedContext == cancelled

\* Every turn gets a context of its own.
FreshContext == FALSE

TakeAction ==
  /\ worker = "idle" /\ actions # <<>>
  /\ actions' = Tail(actions)
  /\ worker' \in TurnFrom(Head(actions))
  /\ IF worker' = "starting"
     THEN turn' = turn + 1 /\ cancelled' = FreshContext
     ELSE UNCHANGED <<turn, cancelled>>
  /\ UNCHANGED <<process, clientVars, readVars, cancelTurn, runVars, approved>>

\* setCancel(cancel), then eng.Run starts its goroutine.
RegisterCancel ==
  /\ worker = "starting" /\ worker' = "bridging"
  /\ cancelTurn' = turn /\ engine' = "running"
  /\ UNCHANGED <<process, clientVars, readVars, actions, turn, cancelled, asks, ask, answer,
                 approved>>

\* Bridge returns: the run has closed its channel, or forwarding an event failed.
BridgeReturns ==
  /\ worker = "bridging" /\ (engine = "none" \/ Broken)
  /\ worker' = "finished"
  /\ UNCHANGED <<process, clientVars, readVars, actions, turn, cancelTurn, cancelled, runVars,
                 approved>>

\* cancel(), setCancel(nil); the worker stops when a send failed.
EndTurn ==
  /\ worker = "finished" /\ cancelled' = TRUE /\ cancelTurn' = 0
  /\ \/ engine = "none" /\ worker' = "idle"
     \/ Broken /\ worker' = "ended"
  /\ UNCHANGED <<process, clientVars, readVars, actions, turn, runVars, approved>>

\* A channel nobody closes.
LeftOpen == FALSE

\* The read loop closes the channel of actions when it ends.
Closed == loop = "draining"

\* The worker's range over the closed channel ends.
WorkerReturns ==
  /\ worker = "idle" /\ actions = <<>> /\ Closed /\ worker' = "ended"
  /\ UNCHANGED <<process, clientVars, readVars, actions, turn, cancelTurn, cancelled, runVars,
                 approved>>

-----------------------------------------------------------------------------
(* The run.                                                                *)

\* Ask: the request is pending before it is sent; a failed send denies at once.
Ask ==
  /\ engine = "running" /\ asks < MaxAsks
  /\ asks' = asks + 1 /\ answer' = "none"
  /\ IF Broken THEN UNCHANGED <<engine, ask>> ELSE engine' = "asking" /\ ask' = asks + 1
  /\ UNCHANGED <<process, clientVars, readVars, actions, turnVars, cancelled, approved>>

\* The turn's context derives from the connection's.
ContextDone == cancelled \/ connDone

AskReturns ==
  /\ engine = "asking" /\ (answer # "none" \/ ContextDone)
  /\ engine' = "running" /\ ask' = 0 /\ answer' = "none"
  /\ UNCHANGED <<process, clientVars, readVars, actions, turnVars, cancelled, asks, approved>>

RunEnds ==
  /\ engine = "running" /\ engine' = "none"
  /\ UNCHANGED <<process, clientVars, readVars, actions, turnVars, cancelled, asks, ask, answer,
                 approved>>

-----------------------------------------------------------------------------
(* The process.                                                            *)

\* SIGINT or SIGTERM cancels the context every connection derives from.
Signal ==
  /\ process = "up" /\ process' = "stopping" /\ connDone' = TRUE
  /\ UNCHANGED <<clientVars, loop, found, lastAbort, actions, turnVars, cancelled, runVars, approved>>

\* Shutdown closes the listener, Serve and runServe return; WebSocket connections
\* were hijacked from the HTTP server, which does not wait for them.
Exit ==
  /\ process = "stopping" /\ process' = "exited"
  /\ UNCHANGED <<clientVars, readVars, actions, turnVars, cancelled, runVars, approved>>

-----------------------------------------------------------------------------
ReadLoop == ReadAction \/ ReadAbort \/ ReadPermRes \/ Resolve \/ ReadFails \/ HandlerReturns
Worker == TakeAction \/ RegisterCancel \/ BridgeReturns \/ EndTurn \/ WorkerReturns
Run == AskReturns \/ RunEnds

Next ==
  /\ process # "exited"
  /\ ClientSends \/ Disconnect \/ ReadLoop \/ Worker \/ Run \/ Ask \/ Signal \/ Exit

Spec == Init /\ [][Next]_vars

\* The goroutines are scheduled; an engine run ends unless it waits for an answer
\* (AgentLoop's RunEnds).  Nothing is assumed of the client.
FairSpec ==
  /\ Spec
  /\ WF_vars(process # "exited" /\ ReadLoop)
  /\ WF_vars(process # "exited" /\ Worker)
  /\ WF_vars(process # "exited" /\ Run)
-----------------------------------------------------------------------------
Messages == [type : Kinds \cup {"abort"}]
            \cup [type : {"perm_res"}, id : 1..MaxAsks, approved : BOOLEAN]

TypeOK ==
  /\ process \in {"up", "stopping", "exited"} /\ link \in {"up", "down"}
  /\ inbox \in Seq(Messages) /\ sent \in 0..MaxSent
  /\ loop \in {"reading", "resolving", "draining", "ended"} /\ connDone \in BOOLEAN
  /\ found \in [id : 0..MaxAsks, approved : BOOLEAN]
  /\ actions \in Seq(Kinds) /\ Len(actions) <= QueueCap
  /\ worker \in {"idle", "starting", "bridging", "finished", "ended"}
  /\ turn \in Nat /\ lastAbort \in 0..turn /\ cancelTurn \in 0..turn
  /\ cancelled \in BOOLEAN /\ engine \in {"none", "running", "asking"}
  /\ asks \in 0..MaxAsks /\ ask \in 0..asks /\ answer \in {"none", "yes", "no"}
  /\ approved \subseteq 1..MaxAsks

\* "A late or unknown id ... is ignored" (Asker.Resolve): whatever the client sends
\* and whenever, Ask allows a tool call only on the client's approval of this very
\* request, never on the answer to one that was cancelled before.
OnlyApprovedAsksAllow == [][AskReturns /\ answer = "yes" => ask \in approved]_vars

\* An abort cancels the turn in flight when it was read, never a later one.
AbortHitsItsTurn == cancelled /\ InTurn => lastAbort = turn

\* "The read loop must keep reading while a turn runs, or a perm_res can never
\* arrive and Ask deadlocks" (package wsasker): an answer the client has sent ends
\* the ask, whatever was sent before it.
Answering == \E i \in DOMAIN inbox : inbox[i].type = "perm_res" /\ inbox[i].id = ask
AnswersArrive ==
  engine = "asking" /\ Answering ~> engine # "asking" \/ process = "exited"

\* "cancelConn() unblock an in-flight turn and any pending permission ask; close(actions)
\* let the worker drain and exit" (handleWS): after a disconnection the handler
\* returns and no run is left waiting for an answer nobody can give.
ConnectionDrains ==
  link = "down" ~> (loop = "ended" /\ engine = "none") \/ process = "exited"
=============================================================================
