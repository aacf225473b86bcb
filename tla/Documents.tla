------------------------------ MODULE Documents ------------------------------
(***************************************************************************)
(* Diagnostics after an edit (internal/lsp/lsp.go over csync.Map and       *)
(* csync.VersionedMap): a tool that wrote a file notifies the language     *)
(* servers, waits until the version of the diagnostics store has moved and *)
(* then held still, and appends what the store holds to its result.  The   *)
(* servers publish when they like, each from a goroutine of its own; the   *)
(* version carries no file and no document version.                        *)
(***************************************************************************)
EXTENDS Naturals

CONSTANTS Files,         \* the files tools write and servers publish for
          Servers,       \* the language servers that serve them
          MaxPublishes,  \* bound: notifications the servers send
          MaxReports     \* bound: calls of ReportAfterChange(s), DiagnoseFile, Notify

VARIABLES sent,      \* Manager.openVersions: 0 for a file never opened
          told,      \* per server and file, the last version it was told of
          publishes, \* how many notifications the servers have sent
          handling,  \* per server, the notification its handler is storing
          diags,     \* VersionedMap.m: per file, the latest notification stored
          stored,    \* how many notifications have been stored
          version,   \* VersionedMap.v
          call,      \* the tool's call: what it waits for
          report,    \* what the last report was made of
          reports    \* how many calls there have been

docVars == <<sent, told, publishes, handling, diags, stored, version, call, report, reports>>

Nobody   == [step |-> 0]
NoCall   == [at |-> "none", files |-> {}, start |-> 0, last |-> 0]
NoReport == [seen |-> 0, holds |-> 0]

DocInit ==
  /\ sent = [f \in Files |-> 0]
  /\ told = [s \in Servers |-> [f \in Files |-> 0]]
  /\ publishes = 0
  /\ handling = [s \in Servers |-> Nobody]
  /\ diags = [f \in Files |-> 0]
  /\ stored = 0 /\ version = 0
  /\ call = NoCall /\ report = NoReport /\ reports = 0

\* A server publishes for a file it has, or for another file of the project.
Publishes(s, f) ==
  /\ \E g \in Files : told[s][g] > 0
  /\ publishes < MaxPublishes
  /\ handling[s] = Nobody
  /\ publishes' = publishes + 1
  /\ handling' = [handling EXCEPT ![s] = [step |-> 1, file |-> f, n |-> publishes + 1]]
  /\ UNCHANGED <<sent, told, diags, stored, version, call, report, reports>>

\* VersionedMap.Set: the value under the lock, then the version, atomically each.
StoreFirst == {1}
BumpFirst  == {2}
StoresAt   == StoreFirst

Handle(s) ==
  LET h == handling[s]
  IN  /\ h # Nobody
      /\ IF h.step \in StoresAt
         THEN /\ diags' = [diags EXCEPT ![h.file] = h.n]
              /\ stored' = stored + 1
              /\ UNCHANGED version
         ELSE /\ version' = version + 1
              /\ UNCHANGED <<diags, stored>>
      /\ handling' = [handling EXCEPT ![s] = IF h.step = 1 THEN [h EXCEPT !.step = 2] ELSE Nobody]
      /\ UNCHANGED <<sent, told, publishes, call, report, reports>>

\* Notify for every changed file: opened on first sight, else changed, each with
\* the next version; a call for several files waits once for them all.
Notify(written) ==
  /\ call = NoCall
  /\ reports < MaxReports
  /\ reports' = reports + 1
  /\ sent' = [f \in Files |-> IF f \in written THEN sent[f] + 1 ELSE sent[f]]
  /\ told' = [s \in Servers |-> sent']
  /\ call' = [NoCall EXCEPT !.at = "told", !.files = written]
  /\ UNCHANGED <<publishes, handling, diags, stored, version, report>>

\* WaitForDiagnostics begins; a publication that came before it is not awaited.
BeginWait ==
  /\ call.at = "told"
  /\ call' = [call EXCEPT !.at = "first", !.start = version, !.last = version]
  /\ UNCHANGED <<sent, told, publishes, handling, diags, stored, version, report, reports>>

\* A poll sees that the version has moved, for the first time or again.
SeesMove ==
  /\ call.at \in {"first", "steady"}
  /\ version # call.last
  /\ call' = [call EXCEPT !.at = "steady", !.last = version]
  /\ UNCHANGED <<sent, told, publishes, handling, diags, stored, version, report, reports>>

\* The wait ends - nothing moved for a second, the version held still, or the
\* time is up - and the report reads the store.
Reports ==
  /\ call.at \in {"first", "steady"}
  /\ call' = NoCall
  /\ report' = [seen |-> call.last, holds |-> stored]
  /\ UNCHANGED <<sent, told, publishes, handling, diags, stored, version, reports>>

DocNext ==
  \/ \E s \in Servers : Handle(s) \/ \E f \in Files : Publishes(s, f)
  \/ \E written \in (SUBSET Files) \ {{}} : Notify(written)
  \/ BeginWait \/ SeesMove \/ Reports

DocSpec == DocInit /\ [][DocNext]_docVars

-----------------------------------------------------------------------------
(* The version is all that the wait looks at, and it is read without the   *)
(* lock: whatever movement a wait saw, the report that follows is made of  *)
(* the diagnostics that moved it, from however many servers at once.       *)
ReportsWhatMoved == report.holds >= report.seen
=============================================================================
