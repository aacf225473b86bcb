----------------------------- MODULE SavedSessions -----------------------------
(***************************************************************************)
(* The conversations korai serve keeps: the session a process starts from  *)
(* (resolveSession), the history and session id every connection's worker  *)
(* holds (cmd/korai/serve.go), and the store both are saved to.            *)
(*                                                                         *)
(* A connection starts from the session the process was assembled with.    *)
(* A completed turn, and the checkpoint's ticker, save the connection's    *)
(* whole history under its id, replacing what was there; a failed turn     *)
(* leaves its user message in the history, unsaved.  The store is the      *)
(* SDK's: a save replaces one session and succeeds; a load returns it, or  *)
(* fails, whether the session is there or not.                             *)
(*                                                                         *)
(* A history is the set of the turns it holds, in full or in a summary, so *)
(* compaction does not change it.  A connection is open until its worker   *)
(* has ended, so a client that reconnects may have two for a while.        *)
(***************************************************************************)
EXTENDS Naturals

CONSTANTS
  Conns,    \* the connections a process can have open
  Ids,      \* session ids: those NewID mints and those clients bring
  MaxTurns  \* bound: turns begun

ASSUME SessionsAssumption == MaxTurns \in Nat

VARIABLES
  store,      \* the turns saved under each id
  latest,     \* the ids that may be Latest: the last one saved, if any
  known,      \* the ids in use
  up,         \* whether the process runs
  initial,    \* the session it was assembled with
  open,       \* the open connections
  session,    \* the session each worker holds: id and history
  running,    \* the connections in a turn
  turns,      \* the number of turns begun
  \* History variables.
  owner,      \* the session each turn was typed into
  completed,  \* the turns in the history of a turn that ran to its end
  stale       \* the sessions a connection took up without what the store has of
              \* them, or while another connection held them

processVars  == <<up, initial>>
workerVars   == <<open, session, running>>
saved        == <<store, latest>>
past         == <<turns, owner, completed>>
sessionsVars == <<processVars, workerVars, saved, known, past, stale>>

Turns == 1..MaxTurns

Sessions == [id : Ids, history : SUBSET Turns]

SessionsInit ==
  /\ store = [id \in Ids |-> {}] /\ latest = {} /\ known = {}
  /\ up = FALSE /\ stale = {}
  /\ initial \in [id : Ids, history : {{}}]
  /\ open = {} /\ session = [c \in Conns |-> initial] /\ running = {}
  /\ turns = 0 /\ owner = [t \in Turns |-> initial.id] /\ completed = {}

\* NewID.
Fresh == {[id |-> id, history |-> {}] : id \in Ids \ known}

\* What loading id can give, if the load does not fail.
Loaded(id) == IF store[id] = {} THEN {} ELSE {[id |-> id, history |-> store[id]]}

StaleAfter(c, s) ==
  IF s.history = store[s.id] /\ \A d \in open \ {c} : session[d].id # s.id
  THEN stale ELSE stale \cup {s.id}

-----------------------------------------------------------------------------
(* The process.                                                            *)

\* resolveSession: the latest session under --resume, otherwise a new one.
Start ==
  /\ ~up /\ up' = TRUE
  /\ initial' \in Fresh \cup UNION {Loaded(id) : id \in latest}
  /\ known' = known \cup {initial'.id}
  /\ UNCHANGED <<workerVars, saved, past, stale>>

\* The process ends, or its machine does.
Stop ==
  /\ up /\ up' = FALSE /\ open' = {} /\ running' = {}
  /\ UNCHANGED <<initial, session, saved, known, past, stale>>

-----------------------------------------------------------------------------
(* A connection.                                                           *)

Connect(c) ==
  /\ up /\ c \notin open /\ open' = open \cup {c}
  /\ session' = [session EXCEPT ![c] = initial]
  /\ stale' = StaleAfter(c, initial)
  /\ UNCHANGED <<processVars, running, saved, known, past>>

\* cancelConn: a turn still in flight ends in an error.
TurnCancelled(c) == running \ {c}

EndConnection(c) ==
  /\ c \in open
  /\ open' = open \ {c} /\ running' = TurnCancelled(c)
  /\ UNCHANGED <<processVars, session, saved, known, past, stale>>

Idle(c) == c \in open \ running

-----------------------------------------------------------------------------
(* Turns.                                                                  *)

\* runTurn: the user message joins the history.
BeginTurn(c) ==
  /\ Idle(c) /\ turns < MaxTurns
  /\ turns' = turns + 1 /\ running' = running \cup {c}
  /\ session' = [session EXCEPT ![c].history = @ \cup {turns + 1}]
  /\ owner' = [owner EXCEPT ![turns + 1] = session[c].id]
  /\ UNCHANGED <<processVars, open, saved, known, completed, stale>>

\* A save to the session the process started with.
SaveAsInitial(s) ==
  /\ store' = [store EXCEPT ![initial.id] = s.history]
  /\ latest' = {initial.id}

\* saver.
Save(s) ==
  /\ store' = [store EXCEPT ![s.id] = s.history]
  /\ latest' = {s.id}

CompleteTurn(c) ==
  /\ c \in running /\ running' = running \ {c}
  /\ Save(session[c])
  /\ completed' = completed \cup session[c].history
  /\ UNCHANGED <<processVars, open, session, known, turns, owner, stale>>

FailTurn(c) ==
  /\ c \in running /\ running' = running \ {c}
  /\ UNCHANGED <<processVars, open, session, saved, known, past, stale>>

\* The active-session ticker.
Checkpoint(c) ==
  /\ Idle(c) /\ session[c].history # {}
  /\ Save(session[c])
  /\ UNCHANGED <<processVars, workerVars, known, past, stale>>

-----------------------------------------------------------------------------
(* Commands.                                                               *)

Swap(c, s) ==
  /\ session' = [session EXCEPT ![c] = s]
  /\ known' = known \cup {s.id} /\ stale' = StaleAfter(c, s)
  /\ UNCHANGED <<processVars, open, running, saved, past>>

\* A /clear that keeps what was said.
RenamedOnly(c) == {[s EXCEPT !.history = session[c].history] : s \in Fresh}

\* A new session, empty.
Cleared(c) == Fresh

Clear(c) ==
  /\ Idle(c)
  /\ \E s \in Cleared(c) : Swap(c, s)

\* /resume binds the id whether or not it loads.
ResumeSlash(c, id) ==
  /\ Idle(c)
  /\ \/ \E s \in Loaded(id) : Swap(c, s)
     \/ Swap(c, [id |-> id, history |-> {}])

\* sessions_resume reports a failed load and keeps the session.
ResumeMessage(c, id) ==
  /\ Idle(c)
  /\ \E s \in Loaded(id) : Swap(c, s)

-----------------------------------------------------------------------------
SessionsNext ==
  \/ Start \/ Stop
  \/ \E c \in Conns :
       \/ Connect(c) \/ EndConnection(c)
       \/ BeginTurn(c) \/ CompleteTurn(c) \/ FailTurn(c) \/ Checkpoint(c)
       \/ Clear(c) \/ \E id \in Ids : ResumeSlash(c, id) \/ ResumeMessage(c, id)

SessionsSpec == SessionsInit /\ [][SessionsNext]_sessionsVars
-----------------------------------------------------------------------------
SessionsTypeOK ==
  /\ store \in [Ids -> SUBSET Turns] /\ latest \subseteq Ids /\ known \subseteq Ids
  /\ up \in BOOLEAN /\ initial \in Sessions /\ stale \subseteq Ids
  /\ open \subseteq Conns /\ session \in [Conns -> Sessions] /\ running \subseteq open
  /\ turns \in 0..MaxTurns /\ owner \in [Turns -> Ids] /\ completed \subseteq Turns

\* No conversation leaks into another: what is saved under an id was typed into
\* that session, across /clear, /resume, reconnections, restarts and checkpoints.
SessionsKeepApart == \A id \in Ids : \A t \in store[id] : owner[t] = id

\* "The session store persists per turn" (runServe): a completed turn is in the store
\* under its session, and stays there however the process and its clients go on --
\* unless a connection took the session up as something else than was saved, or beside
\* another one, and so overwrites it.
CompletedTurnsStay ==
  \A t \in completed : t \in store[owner[t]] \/ owner[t] \in stale

\* "Announce the active session id so the client can reconcile its conversation with
\* the engine's session" (worker): what a new connection continues is what the
\* session announced holds.
AnnouncedIsWhole ==
  [][\A c \in Conns : Connect(c) => session'[c].history = store[session'[c].id]]_sessionsVars
=============================================================================
