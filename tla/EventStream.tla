----------------------------- MODULE EventStream -----------------------------
(***************************************************************************)
(* The events of one run on their way to a client of `korai serve`: the    *)
(* channel of Engine.Run, the non-blocking send that fills it              *)
(* (internal/engine/engine.go) and the bridge that empties it onto the     *)
(* connection (internal/wsevent/bridge.go).                                *)
(*                                                                         *)
(* Every emission attempt has a number, whether the channel takes the      *)
(* event or not.  An event is its number, its kind and, for the result of  *)
(* a tool that was started, the number of its start; a result without one  *)
(* is that of a call blocked before execution or cut short by truncation.  *)
(* Text and compaction events, which the bridge treats alike, are of one   *)
(* kind.  The id the bridge mints at an event is that event's number.      *)
(***************************************************************************)
EXTENDS Naturals, Sequences

CONSTANTS
  Cap,       \* the channel's capacity: 64
  MaxEvents  \* bound: events of a run before its terminal event

ASSUME StreamAssumption == Cap \in Nat \ {0} /\ MaxEvents \in Nat

Kinds  == {"text", "start", "result", "error", "done"}
Events == [n : Nat, kind : Kinds, start : Nat]
Outs   == [n : Nat, kind : Kinds, start : Nat, id : Nat]
NoOut  == [n |-> 0, kind |-> "text", start |-> 0, id |-> 0]

VARIABLES
  run,       \* the run goroutine: in its loop, executing a tool, over
  open,      \* the number of the executing tool's start, else 0
  ch,        \* the channel
  emitted,   \* emission attempts so far
  lost,      \* some event was dropped
  bridge,    \* Bridge: at the range, at send, returned
  lastStart, \* Bridge's lastStart, 0 for the empty id
  captured,  \* Bridge's history is set
  out,       \* the event being sent
  sendFailed,\* Bridge returned a send error
  client     \* what the client received

runVars    == <<run, open, emitted>>
bridgeVars == <<bridge, lastStart, captured, out, sendFailed>>
vars == <<runVars, ch, lost, bridgeVars, client>>

Init ==
  /\ run = "loop" /\ open = 0 /\ emitted = 0
  /\ ch = <<>> /\ lost = FALSE
  /\ bridge = "range" /\ lastStart = 0 /\ captured = FALSE /\ out = NoOut
  /\ sendFailed = FALSE /\ client = <<>>

-----------------------------------------------------------------------------
(* The run goroutine.                                                      *)

BlockingSend(e) ==
  /\ Len(ch) < Cap
  /\ ch' = Append(ch, e) /\ UNCHANGED lost

\* send: into the channel if there is room, else nowhere.
Send(e) ==
  \/ Len(ch) < Cap /\ ch' = Append(ch, e) /\ UNCHANGED lost
  \/ Len(ch) >= Cap /\ lost' = TRUE /\ UNCHANGED ch

Emit(kind, start) ==
  /\ emitted' = emitted + 1
  /\ Send([n |-> emitted', kind |-> kind, start |-> start])
  /\ UNCHANGED <<bridgeVars, client>>

\* A text fragment or a compaction.
Text ==
  /\ run = "loop" /\ emitted < MaxEvents
  /\ Emit("text", 0) /\ UNCHANGED <<run, open>>

\* dispatchTool, permission and hooks passed: the start, then Execute.
StartTool ==
  /\ run = "loop" /\ emitted < MaxEvents
  /\ Emit("start", 0)
  /\ run' = "executing" /\ open' = emitted'

\* Execute returned: its result, an error of the tool included.
ToolResult ==
  /\ run = "executing"
  /\ Emit("result", open)
  /\ run' = "loop" /\ open' = 0

\* blocked, failTruncatedCalls.
Blocked ==
  /\ run = "loop" /\ emitted < MaxEvents
  /\ Emit("result", 0) /\ UNCHANGED <<run, open>>

\* run returned: the terminal event, before the channel is closed.
Terminate(kind) ==
  /\ run = "loop"
  /\ Emit(kind, 0)
  /\ run' = (IF kind = "done" THEN "finished" ELSE "failed") /\ UNCHANGED open

Engine == Text \/ StartTool \/ ToolResult \/ Blocked \/ Terminate("done")
          \/ Terminate("error")

Over == run \in {"finished", "failed"}

-----------------------------------------------------------------------------
(* Bridge.                                                                 *)

StickyStart(e) == IF e.kind = "start" THEN e.n ELSE lastStart

\* lastStart after event e: consumed by the very next result.
StartAfter(e) ==
  IF e.kind = "start" THEN e.n
  ELSE IF e.kind = "result" THEN 0 ELSE lastStart

\* The id that e is sent with, 0 for none.
IdFor(e) ==
  IF e.kind = "start" THEN e.n
  ELSE IF e.kind # "result" THEN 0
  ELSE IF lastStart = 0 THEN e.n ELSE lastStart

CapturedAfter(e) == captured \/ e.kind = "done"

Receive ==
  /\ bridge = "range" /\ ch # <<>>
  /\ LET e == Head(ch)
     IN  /\ out' = [n |-> e.n, kind |-> e.kind, start |-> e.start, id |-> IdFor(e)]
         /\ lastStart' = StartAfter(e)
         /\ captured' = CapturedAfter(e)
  /\ ch' = Tail(ch)
  /\ bridge' = "send"
  /\ UNCHANGED <<runVars, lost, sendFailed, client>>

RetryingForward ==
  /\ bridge = "send"
  /\ client' = Append(client, out)
  /\ UNCHANGED <<runVars, ch, lost, bridgeVars>>

Forward ==
  /\ bridge = "send"
  /\ client' = Append(client, out)
  /\ bridge' = "range" /\ out' = NoOut
  /\ UNCHANGED <<runVars, ch, lost, lastStart, captured, sendFailed>>

\* The connection is presumed broken: Bridge returns at once.
SendFails ==
  /\ bridge = "send"
  /\ sendFailed' = TRUE /\ bridge' = "returned" /\ out' = NoOut
  /\ UNCHANGED <<runVars, ch, lost, lastStart, captured, client>>

\* The channel is closed and empty.
RangeEnds ==
  /\ bridge = "range" /\ Over /\ ch = <<>>
  /\ bridge' = "returned"
  /\ UNCHANGED <<runVars, ch, lost, lastStart, captured, out, sendFailed, client>>

Bridge == Receive \/ Forward \/ SendFails \/ RangeEnds

Next == Engine \/ Bridge

Spec == Init /\ [][Next]_vars

\* The run goroutine is scheduled; nothing is assumed of the connection.  A run
\* emits boundedly many events here, so it comes to its end unless it is kept from it.
FairSpec == Spec /\ WF_vars(Engine)
-----------------------------------------------------------------------------
TypeOK ==
  /\ run \in {"loop", "executing", "finished", "failed"}
  /\ open \in Nat /\ emitted \in Nat
  /\ ch \in Seq(Events) /\ Len(ch) <= Cap /\ lost \in BOOLEAN
  /\ bridge \in {"range", "send", "returned"}
  /\ lastStart \in Nat /\ captured \in BOOLEAN /\ out \in Outs
  /\ sendFailed \in BOOLEAN /\ client \in Seq(Outs)

\* The id of a result is the one its own start was sent with, or its own when it
\* had no start.
Paired(o) == o.kind = "result" => o.id = IF o.start = 0 THEN o.n ELSE o.start

Pairing == \A i \in 1..Len(client) : Paired(client[i])

\* As long as nothing was dropped, every result the client sees is paired with its
\* own call, although events carry no call id and blocked calls have no start.
PairedUnlessLost == ~lost => Pairing

\* A client that was told the turn is done will find it in the session, whatever
\* was lost and whenever the connection broke.
DoneIsKept ==
  (\E i \in 1..Len(client) : client[i].kind = "done") => captured

\* A client that stops reading, at any point, never keeps the run from ending: the
\* engine's goroutine outlives no stalled connection.
RunNeverWaits == <>Over

\* Loss, failure and stalling never reorder, repeat or invent an event.
Delivery == INSTANCE OrderedDelivery
              WITH got <- [i \in 1..Len(client) |-> client[i].n]
InOrder == Delivery!Spec
=============================================================================
