-------------------------------- MODULE Terminal --------------------------------
(***************************************************************************)
(* The REPL's commands (internal/tui/model.go): turns, /clear, /resume,    *)
(* /revert, /compact, the checkpoint's ticker and quitting.                *)
(*                                                                         *)
(* Update runs one message at a time and never blocks.  What does block is *)
(* a command it returns: each runs in a goroutine of its own, over what    *)
(* Update captured for it, and its result is a message of its own.         *)
(* Commands in flight end in any order, and only a turn and a compaction   *)
(* make the terminal busy.                                                 *)
(*                                                                         *)
(* A conversation is the set of its turns, so compaction does not change   *)
(* it; the worktree, and a snapshot of it, are the set of the turns whose  *)
(* edits it holds.  The store is the SDK's: a save replaces a session.     *)
(* What an engine run does otherwise is AgentLoop's; dialogs are           *)
(* PermMode's.                                                             *)
(***************************************************************************)
EXTENDS Naturals, Sequences, FiniteSets

CONSTANTS
  Ids,          \* sessions
  Saved,        \* the one an earlier process has saved
  NoSession,    \* nothing is saved under an id
  MaxTurns,     \* bound: turns submitted, turn 0 being one of an earlier process
  MaxCommands,  \* bound: /resume, /revert, /compact and ticks
  MaxInFlight   \* bound: commands in flight

ASSUME TerminalAssumption ==
  /\ Saved \in Ids
  /\ MaxTurns \in Nat /\ MaxCommands \in Nat /\ MaxInFlight \in Nat
  /\ \A s \in SUBSET (0..MaxTurns) : NoSession # s

VARIABLES
  id,         \* the session conversations are saved under
  history,    \* the conversation
  busy,       \* a turn or a compaction is running, as the terminal sees it
  run,        \* the engine's run: none, or its turn with what it was started from
  flight,     \* the commands in flight and the results not yet handled
  store,      \* the saved sessions
  worktree,   \* the turns whose edits are in the files
  snaplog,    \* the undo log
  turns,      \* turns submitted
  commands,   \* commands given
  \* History variables.
  owner,      \* the session each turn was typed into
  completed,  \* the turns whose run ended well
  undoable,   \* the turns /revert has not undone
  crossed,    \* sessions whose load arrived while a turn or a compaction was running
  overtaken,  \* sessions with two saves in flight at once, cleared, or changed since loaded
  disturbed   \* a snapshot failed, or a snapshot or revert was in flight when a turn
              \* or a revert began

conv  == <<id, history, store>>
files == <<worktree, snaplog>>
past  == <<owner, completed, undoable, crossed, overtaken, disturbed>>
vars  == <<conv, busy, run, flight, files, turns, commands, past>>

Turns == 0..MaxTurns

NoRun == <<>>
Runs  == [turn : Turns, from : SUBSET Turns, interrupted : BOOLEAN,
          state : {"running", "done", "failed", "closed"}]
Commands ==
  [kind : {"save"}, id : Ids, history : SUBSET Turns]
  \cup [kind : {"load"}, id : Ids]
  \cup [kind : {"loaded"}, id : Ids, history : SUBSET Turns]
  \cup [kind : {"compact", "compacted"}, history : SUBSET Turns]
  \cup [kind : {"snapshot"}, label : Turns]
  \cup [kind : {"taken"}, label : Turns, tree : SUBSET Turns]
  \cup [kind : {"revert", "reverted"}, label : Turns, tree : SUBSET Turns, steps : Nat]

\* A new session or the one that was saved, whose conversation is then resumed.
Init ==
  /\ store = [i \in Ids |-> IF i = Saved THEN {0} ELSE NoSession]
  /\ owner = [t \in Turns |-> Saved]
  /\ id \in Ids /\ history = (IF store[id] = NoSession THEN {} ELSE store[id])
  /\ busy = FALSE /\ run = NoRun /\ flight = {} /\ worktree = {} /\ snaplog = <<>>
  /\ turns = 0 /\ commands = 0 /\ completed = {0} /\ undoable = {}
  /\ crossed = {} /\ overtaken = {} /\ disturbed = FALSE

InFlight(kinds) == {c \in flight : c.kind \in kinds}
Files == InFlight({"snapshot", "taken", "revert", "reverted"})
Room == Cardinality(flight) < MaxInFlight
Given == commands < MaxCommands /\ commands' = commands + 1

-----------------------------------------------------------------------------
(* Turns.                                                                  *)

\* submit and runTurn.  The snapshot may fail, or there is no git.
Submit ==
  /\ ~busy /\ turns < MaxTurns /\ Room
  /\ turns' = turns + 1 /\ busy' = TRUE
  /\ history' = history \cup {turns + 1}
  /\ run' = [turn |-> turns + 1, from |-> history', interrupted |-> FALSE,
             state |-> "running"]
  /\ flight' = flight \cup {[kind |-> "snapshot", label |-> turns + 1]}
  /\ owner' = [owner EXCEPT ![turns + 1] = id]
  /\ undoable' = undoable \cup {turns + 1}
  /\ disturbed' = (disturbed \/ Files # {})
  /\ UNCHANGED <<id, store, files, commands, completed, crossed, overtaken>>

\* ctrl+c or esc.
Interrupt ==
  /\ busy /\ run # NoRun /\ ~run.interrupted /\ run' = [run EXCEPT !.interrupted = TRUE]
  /\ UNCHANGED <<conv, busy, flight, files, turns, commands, past>>

Running == run # NoRun /\ run.state = "running"

RunEdits ==
  /\ Running /\ run.turn \notin worktree
  /\ worktree' = worktree \cup {run.turn}
  /\ UNCHANGED <<conv, busy, run, flight, snaplog, turns, commands, past>>

\* The run sends its last event, or that is dropped and the channel closes.
RunEnds ==
  /\ Running
  /\ \E s \in {"failed", "closed"} \cup (IF run.interrupted THEN {} ELSE {"done"}) :
       run' = [run EXCEPT !.state = s]
  /\ UNCHANGED <<conv, busy, flight, files, turns, commands, past>>

\* A save of the conversation without its last turn.
SaveBefore(i, h) == [kind |-> "save", id |-> i, history |-> h \ {turns}]

\* saveCmd captures the session and its history.
SaveOf(i, h) == [kind |-> "save", id |-> i, history |-> h]

Overtakes(c) == IF \E d \in InFlight({"save"}) : d.id = c.id /\ d # c
                THEN overtaken \cup {c.id} ELSE overtaken

\* DoneEvent: the run's messages are the conversation.
OnDone ==
  /\ run # NoRun /\ run.state = "done" /\ Room
  /\ run' = NoRun /\ busy' = FALSE
  /\ history' = run.from
  /\ LET c == SaveOf(id, history') IN flight' = flight \cup {c} /\ overtaken' = Overtakes(c)
  /\ completed' = completed \cup {run.turn}
  /\ UNCHANGED <<id, store, files, turns, commands, owner, undoable, crossed, disturbed>>

\* The error of an interrupt that leaves the terminal busy.
IdleUnlessInterrupted == run.interrupted

\* What ErrorEvent and turnDoneMsg leave of the terminal's state.
IdleAgain == FALSE

\* ErrorEvent, or turnDoneMsg.
OnFailure ==
  /\ run # NoRun /\ run.state \in {"failed", "closed"}
  /\ run' = NoRun /\ busy' = IdleAgain
  /\ UNCHANGED <<conv, flight, files, turns, commands, past>>

-----------------------------------------------------------------------------
(* The conversation's commands.                                            *)

Issue(c) == flight' = flight \cup {c}

RunSave(c) ==
  /\ c \in InFlight({"save"}) /\ flight' = flight \ {c}
  /\ store' = [store EXCEPT ![c.id] = c.history]
  /\ UNCHANGED <<id, history, busy, run, files, turns, commands, past>>

\* activeSyncTickMsg, busy or not.
Tick ==
  /\ Given /\ history # {} /\ Room
  /\ LET c == SaveOf(id, history) IN Issue(c) /\ overtaken' = Overtakes(c)
  /\ UNCHANGED <<conv, busy, run, files, turns, owner, completed, undoable, crossed, disturbed>>

\* /clear keeps the session's id.
Clear ==
  /\ ~busy /\ history # {} /\ history' = {}
  /\ overtaken' = overtaken \cup {id}
  /\ UNCHANGED <<id, store, busy, run, flight, files, turns, commands, owner, completed,
                 undoable, crossed, disturbed>>

Resume(i) ==
  /\ ~busy /\ Given /\ Room /\ Issue([kind |-> "load", id |-> i])
  /\ UNCHANGED <<conv, busy, run, files, turns, past>>

RunLoad(c) ==
  /\ c \in InFlight({"load"}) /\ store[c.id] # NoSession
  /\ flight' = (flight \ {c}) \cup {[kind |-> "loaded", id |-> c.id, history |-> store[c.id]]}
  /\ UNCHANGED <<conv, busy, run, files, turns, commands, past>>

\* The load fails: only a note is shown.
LoadFails(c) ==
  /\ c \in InFlight({"load"}) /\ flight' = flight \ {c}
  /\ UNCHANGED <<conv, busy, run, files, turns, commands, past>>

\* A resume that shows the other conversation and goes on saving as before.
KeptId(c) == id

\* The session a resumed history is saved under.
ResumedId(c) == c.id

\* resumeLoadedMsg, busy or not.
OnLoaded(c) ==
  /\ c \in InFlight({"loaded"}) /\ flight' = flight \ {c}
  /\ id' = ResumedId(c) /\ history' = c.history
  /\ crossed' = IF busy THEN crossed \cup {c.id} ELSE crossed
  /\ overtaken' = IF store[c.id] # c.history \/ (\E d \in InFlight({"save"}) : d.id = c.id)
                  THEN overtaken \cup {c.id} ELSE overtaken
  /\ UNCHANGED <<store, busy, run, files, turns, commands, owner, completed, undoable,
                 disturbed>>

Compact ==
  /\ ~busy /\ history # {} /\ Given /\ Room
  /\ busy' = TRUE /\ Issue([kind |-> "compact", history |-> history])
  /\ UNCHANGED <<conv, run, files, turns, past>>

RunCompact(c) ==
  /\ c \in InFlight({"compact"})
  /\ flight' = (flight \ {c}) \cup {[c EXCEPT !.kind = "compacted"]}
  /\ UNCHANGED <<conv, busy, run, files, turns, commands, past>>

\* compactDoneMsg, with a shorter history or an error.
OnCompacted(c) ==
  /\ c \in InFlight({"compacted"}) /\ flight' = flight \ {c} /\ busy' = FALSE
  /\ history' \in {history, c.history}
  /\ UNCHANGED <<id, store, run, files, turns, commands, past>>

-----------------------------------------------------------------------------
(* Snapshots.                                                              *)

\* Manager.Snapshot, whenever its goroutine comes to it.
RunSnapshot(c) ==
  /\ c \in InFlight({"snapshot"})
  /\ flight' = (flight \ {c}) \cup {[kind |-> "taken", label |-> c.label, tree |-> worktree]}
  /\ UNCHANGED <<conv, busy, run, files, turns, commands, past>>

SnapshotFails(c) ==
  /\ c \in InFlight({"snapshot"}) /\ flight' = flight \ {c} /\ disturbed' = TRUE
  /\ UNCHANGED <<conv, busy, run, files, turns, commands, owner, completed, undoable,
                 crossed, overtaken>>

\* Log.Add.
OnTaken(c) ==
  /\ c \in InFlight({"taken"}) /\ flight' = flight \ {c}
  /\ snaplog' = Append(snaplog, [label |-> c.label, tree |-> c.tree])
  /\ UNCHANGED <<conv, busy, run, worktree, turns, commands, past>>

\* Log.At.
At(n) == snaplog[Len(snaplog) + 1 - n]

\* startRevert.
Revert(n) ==
  /\ ~busy /\ n \in 1..Len(snaplog) /\ Given /\ Room
  /\ Issue([kind |-> "revert", label |-> At(n).label, tree |-> At(n).tree, steps |-> n])
  /\ disturbed' = (disturbed \/ Files # {})
  /\ UNCHANGED <<conv, busy, run, files, turns, owner, completed, undoable, crossed, overtaken>>

RunRevert(c) ==
  /\ c \in InFlight({"revert"})
  /\ worktree' = c.tree /\ flight' = (flight \ {c}) \cup {[c EXCEPT !.kind = "reverted"]}
  /\ UNCHANGED <<conv, busy, run, snaplog, turns, commands, past>>

\* The restore fails: the log is kept.
RevertFails(c) ==
  /\ c \in InFlight({"revert"}) /\ flight' = flight \ {c}
  /\ UNCHANGED <<conv, busy, run, files, turns, commands, past>>

\* A Truncate that keeps the snapshot just restored.
TruncatedNewer(n) == SubSeq(snaplog, 1, Len(snaplog) - n + 1)

\* Log.Truncate.
Truncated(n) == IF n > Len(snaplog) THEN snaplog ELSE SubSeq(snaplog, 1, Len(snaplog) - n)

\* revertDoneMsg.
OnReverted(c) ==
  /\ c \in InFlight({"reverted"}) /\ flight' = flight \ {c}
  /\ snaplog' = Truncated(c.steps)
  /\ undoable' = {t \in undoable : t < c.label}
  /\ UNCHANGED <<conv, busy, run, worktree, turns, commands, owner, completed, crossed,
                 overtaken, disturbed>>

-----------------------------------------------------------------------------
Handle(c) ==
  \/ RunSave(c) \/ RunLoad(c) \/ LoadFails(c) \/ OnLoaded(c)
  \/ RunCompact(c) \/ OnCompacted(c)
  \/ RunSnapshot(c) \/ SnapshotFails(c) \/ OnTaken(c)
  \/ RunRevert(c) \/ RevertFails(c) \/ OnReverted(c)

System == RunEnds \/ OnDone \/ OnFailure \/ \E c \in flight : Handle(c)

User ==
  \/ Submit \/ Interrupt \/ Tick \/ Clear \/ Compact
  \/ \E i \in Ids : Resume(i)
  \/ \E n \in 1..MaxTurns : Revert(n)

Next == System \/ User \/ RunEdits

\* Runs end (AgentLoop), commands return and Update handles every message.
Spec == Init /\ [][Next]_vars /\ WF_vars(System)
-----------------------------------------------------------------------------
TypeOK ==
  /\ id \in Ids /\ history \subseteq Turns /\ busy \in BOOLEAN
  /\ run = NoRun \/ run \in Runs
  /\ \A c \in flight : c.kind \in {"revert", "reverted"} \/ c \in Commands
  /\ \A i \in Ids : store[i] = NoSession \/ store[i] \subseteq Turns
  /\ worktree \subseteq Turns /\ snaplog \in Seq([label : Turns, tree : SUBSET Turns])
  /\ turns \in 0..MaxTurns /\ commands \in 0..MaxCommands
  /\ owner \in [Turns -> Ids] /\ completed \subseteq Turns /\ undoable \subseteq Turns
  /\ crossed \subseteq Ids /\ overtaken \subseteq Ids /\ disturbed \in BOOLEAN

\* What is saved under an id was typed into that session: /resume and /clear do not mix
\* conversations, nor do the saves, compactions and runs in flight meanwhile -- unless
\* the load of /resume arrived while a turn or a compaction was running.
ConversationsKeepApart ==
  \A i \in Ids \ crossed : store[i] # NoSession => \A t \in store[i] : owner[t] = i

\* Once its saves are done the session on screen is saved with all its completed turns,
\* unless a save overtook another or a load, or a load crossed a turn.
LastTurnIsKept ==
  ~busy /\ (\A c \in InFlight({"save"}) : c.id # id) /\ id \notin overtaken \cup crossed =>
    \A t \in history \cap completed : store[id] # NoSession /\ t \in store[id]

\* "so a further /revert steps further back rather than re-undoing the same turn"
\* (revertDoneMsg): with nothing in flight the log has the turns that were not undone,
\* in order, unless snapshots failed or overlapped.
LogMatchesTurns ==
  ~disturbed /\ Files = {} =>
    /\ {snaplog[i].label : i \in DOMAIN snaplog} = undoable
    /\ \A i, j \in DOMAIN snaplog : i < j => snaplog[i].label < snaplog[j].label

\* The terminal never stays busy: a turn or a compaction ends in a message that gives
\* the prompt back, interrupted or not.
PromptReturns == busy ~> ~busy
=============================================================================
