------------------------------ MODULE Backends ------------------------------
(***************************************************************************)
(* Where a session's turns are answered: the advertised local worker and   *)
(* its discovery (internal/localworker/localworker.go), the choice made    *)
(* when the session is assembled (cmd/korai/session.go: assemble,          *)
(* authGate), the selector between the local and the remote backend        *)
(* (internal/apiclient/clientselector.go) and /worker_mode                 *)
(* (internal/command/worker.go).  The worker comes and goes by itself.     *)
(***************************************************************************)
EXTENDS Naturals, FiniteSets

Modes == {"local", "remote"}

VARIABLES wish,      \* what flags and environment ask for
          worker,    \* the worker: its file, and which of its ends answer
          kind,      \* how korai runs: "terminal", "print" or "serve"
          endpoint,  \* the local endpoint of the session, if any
          clients,   \* the backends that were built
          active,    \* ClientSelector.active
          session,   \* "new", "open", "failed", or "turn" while a turn runs
          switched,  \* the modes /worker_mode was told to switch to
          answer     \* what the last request of a turn got

backendVars == <<wish, worker, kind, endpoint, clients, active, session, switched, answer>>

Wishes == [address : {"none", "tcp", "url"},  \* --local-worker-addr, --local-worker-url
           direct  : BOOLEAN,                 \* KORAI_LOCAL_WORKER_DIRECT
           local   : BOOLEAN,                 \* --local
           key     : BOOLEAN]                 \* resolveBearer finds a credential

Workers == [advert : {"none", "url", "both"}, answers : SUBSET {"url", "socket"}]

BackendInit ==
  /\ wish \in Wishes
  /\ worker \in Workers
  /\ kind \in {"terminal", "print", "serve"}
  /\ endpoint = "none" /\ clients = {} /\ active = "remote"
  /\ session = "new" /\ switched = {} /\ answer = "none"

\* The worker starts, stops, hangs or leaves a stale file behind.
WorkerChanges ==
  /\ worker' \in Workers
  /\ UNCHANGED <<wish, kind, endpoint, clients, active, session, switched, answer>>

\* The direct channel can hang: it is tried only when KORAI_LOCAL_WORKER_DIRECT
\* asks for it, and it is no fallback for a URL that does not answer.
DirectIfAnswers == worker.advert = "both" /\ "socket" \in worker.answers
Direct == wish.direct /\ DirectIfAnswers

\* localworker.Resolve: an address, then a URL, as given; else the advertised
\* worker if it answers its probe.
Endpoint ==
  CASE wish.address = "tcp" -> "tcp"
    [] wish.address = "url" -> "http"
    [] wish.address = "none" /\ Direct -> "unix"
    [] wish.address = "none" /\ ~Direct /\ worker.advert # "none" /\ "url" \in worker.answers -> "http"
    [] OTHER -> "none"

\* assemble: --local fails without a worker; a missing credential does not.
Assemble ==
  /\ session = "new"
  /\ IF wish.local /\ Endpoint = "none"
     THEN session' = "failed" /\ UNCHANGED <<endpoint, clients, active>>
     ELSE /\ session' = "open"
          /\ endpoint' = Endpoint
          /\ clients' = (IF Endpoint = "none" THEN {} ELSE {"local"})
                          \cup (IF wish.key THEN {"remote"} ELSE {})
          /\ active' = IF Endpoint = "none" THEN "remote" ELSE "local"
  /\ UNCHANGED <<wish, worker, kind, switched, answer>>

\* ClientSelector.SetMode refuses a backend that was not built.
AnyMode(m) == m \in Modes
CanSwitch(m) == m \in clients

\* /worker_mode: the terminal runs commands between turns (while one runs, what
\* is typed steers it); a second connection of serve may switch during a turn.
SwitchMode(m) ==
  /\ \/ session = "open" /\ kind # "print"
     \/ session = "turn" /\ kind = "serve"
  /\ active' = IF CanSwitch(m) THEN m ELSE active
  /\ switched' = IF CanSwitch(m) THEN switched \cup {m} ELSE switched
  /\ UNCHANGED <<wish, worker, kind, endpoint, clients, session, answer>>

\* The gate of the terminal and of print: a remote turn needs a remote backend.
AuthGate == active = "remote" => "remote" \in clients
Gated == kind # "serve"

StartTurn ==
  /\ session = "open"
  /\ Gated => AuthGate
  /\ session' = "turn"
  /\ answer' = "none"
  /\ UNCHANGED <<wish, worker, kind, endpoint, clients, active, switched>>

\* ClientSelector.Complete, once per request of the turn: it reads the active
\* backend anew.  A backend that does not answer fails the turn.
Request ==
  /\ session = "turn"
  /\ IF active \notin clients
     THEN answer' = "unconfigured" /\ session' = "open"
     ELSE \/ answer' = active /\ session' = "turn"
          \/ answer' = "error" /\ session' = "open"
  /\ UNCHANGED <<wish, worker, kind, endpoint, clients, active, switched>>

EndTurn ==
  /\ session = "turn"
  /\ session' = "open"
  /\ UNCHANGED <<wish, worker, kind, endpoint, clients, active, switched, answer>>

BackendNext ==
  \/ WorkerChanges \/ Assemble \/ StartTurn \/ Request \/ EndTurn
  \/ \E m \in Modes : SwitchMode(m)

BackendSpec == BackendInit /\ [][BackendNext]_backendVars

-----------------------------------------------------------------------------
BackendTypeOK ==
  /\ wish \in Wishes /\ worker \in Workers
  /\ kind \in {"terminal", "print", "serve"}
  /\ endpoint \in {"none", "tcp", "unix", "http"}
  /\ clients \subseteq Modes /\ active \in Modes /\ switched \subseteq Modes
  /\ session \in {"new", "open", "failed", "turn"}
  /\ answer \in {"none", "local", "remote", "error", "unconfigured"}

(* The gate is asked once, when a turn begins, but every request of the    *)
(* turn looks its backend up again: a gated turn never meets a backend     *)
(* that was not built.                                                     *)
GatedTurnsAreServed == Gated => answer # "unconfigured"

(* Nothing goes where it was not wished: the direct channel, which can     *)
(* hang, is used only when asked for, and a session with a local worker    *)
(* sends no request to the network before /worker_mode remote.             *)
OnlyByWish ==
  /\ endpoint = "unix" => wish.direct
  /\ (answer = "remote" /\ endpoint # "none") => "remote" \in switched
  /\ (wish.local /\ session # "new") => (session = "failed" \/ endpoint # "none")
=============================================================================
