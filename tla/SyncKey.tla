--------------------------------- MODULE SyncKey ---------------------------------
(***************************************************************************)
(* The key of the history sync on one device (internal/synckey,            *)
(* cmd/korai/sync.go, nuke.go): setup, join, the recovery export, the      *)
(* setting that turns sync on, and the wipe.                               *)
(*                                                                         *)
(* Commands are processes of their own over files without a lock: each     *)
(* step reads or writes one of them, may fail, and the process may end     *)
(* after any.  A REPL with an open session goes on with the key it loaded. *)
(* The hub and the encrypted store are the SDK's, external.                *)
(***************************************************************************)
EXTENDS Naturals, Sequences, FiniteSets

CONSTANTS
  Shells,    \* processes
  NoKey,     \* there is no key, or no recovery file
  MaxKeys,   \* bound: keys generated; the last one is another device's
  MaxCmds    \* bound: commands

ASSUME KeyAssumption == MaxKeys \in Nat \ {0} /\ MaxCmds \in Nat

Keys   == 1..MaxKeys
Traces == {"sessions.db", "sessions", "snapshots", "sync-cursor", "MEMORY.md"}

VARIABLES
  keyFile,   \* ~/.korai/sync.key
  envKey,    \* KORAI_SYNC_KEY, which comes first
  recovery,  \* the key in the recovery file
  synced,    \* settings.json turns sync on
  traces,    \* what else there is on disk
  hub,       \* what the hub has under each key
  armed,     \* there is a nuke verifier
  step,      \* where each process is
  at,        \* the removal a wipe is at
  key,       \* the key it works with
  made,      \* keys generated on this device
  cmds,      \* commands begun
  printed,   \* the key whose words or code were shown last, for a join
  \* History.
  wiped,     \* what a wipe has removed
  kept       \* the key or its recovery outlived a wipe: removing it failed, or a
             \* command saved it again

keyVars == <<keyFile, envKey, recovery, synced, traces, hub, armed, step, at, key,
             made, cmds, printed, wiped, kept>>

\* The wipe from its last step on; the key must go before what it can read.
TracesFirst == <<"sessions.db", "sessions", "snapshots", "sync-cursor", "MEMORY.md",
                 "key", "recovery", "hub">>

\* Wipe, in the order of its removals.
WipeOrder == <<"key", "recovery", "sessions.db", "sessions", "snapshots", "sync-cursor",
               "MEMORY.md", "hub">>

Steps == {"idle", "saving", "joining", "printing", "enabling", "open", "wiping"}

KeyInit ==
  /\ keyFile = NoKey /\ envKey \in {NoKey, MaxKeys} /\ recovery = NoKey
  /\ synced = FALSE /\ traces = Traces
  /\ hub = [k \in Keys |-> "empty"] /\ armed \in BOOLEAN
  /\ step = [p \in Shells |-> "idle"] /\ at = [p \in Shells |-> 1]
  /\ key = [p \in Shells |-> NoKey]
  /\ made = 0 /\ cmds = 0
  /\ printed = NoKey /\ wiped = {} /\ kept = FALSE

\* Load.
Loaded == IF envKey # NoKey THEN envKey ELSE keyFile

Disk == <<keyFile, recovery, synced, traces, hub, armed>>
Past == <<printed, wiped, kept>>
Become(p, s) == step' = [step EXCEPT ![p] = s]
Rest(p) ==
  /\ Become(p, "idle") /\ key' = [key EXCEPT ![p] = NoKey] /\ at' = [at EXCEPT ![p] = 1]
Take(p, k) == key' = [key EXCEPT ![p] = k]
Command(p) == step[p] = "idle" /\ cmds < MaxCmds /\ cmds' = cmds + 1

-----------------------------------------------------------------------------
(* korai sync.                                                             *)

\* setup: the key there is, or a new one.
Setup(p) ==
  /\ Command(p)
  /\ \/ /\ Loaded # NoKey /\ Take(p, Loaded) /\ Become(p, "printing") /\ UNCHANGED made
     \/ /\ Loaded = NoKey /\ made + 1 < MaxKeys /\ made' = made + 1
        /\ Take(p, made + 1) /\ Become(p, "saving")
  /\ UNCHANGED <<Disk, envKey, at, Past>>

\* join, with the words of this device's key or of another's.
Join(p) ==
  /\ Command(p) /\ \E k \in {MaxKeys, printed} \ {NoKey} : Take(p, k)
  /\ Become(p, "joining")
  /\ UNCHANGED <<Disk, envKey, at, made, Past>>

\* Save.
SaveKey(p) ==
  /\ step[p] \in {"saving", "joining"} /\ keyFile' = key[p]
  /\ Become(p, IF step[p] = "saving" THEN "printing" ELSE "enabling")
  /\ kept' = (kept \/ wiped # {})
  /\ UNCHANGED <<envKey, recovery, synced, traces, hub, armed, key, at, made, cmds, printed, wiped>>

\* printKeyTransports.
PrintWords(p) ==
  /\ step[p] = "printing" /\ printed' = key[p] /\ Become(p, "enabling")
  /\ UNCHANGED <<Disk, envKey, key, at, made, cmds, wiped, kept>>

\* enableSyncSettings.
EnableSync(p) ==
  /\ step[p] = "enabling" /\ synced' = TRUE /\ Rest(p)
  /\ UNCHANGED <<keyFile, recovery, traces, hub, armed, envKey, made, cmds, Past>>

\* qr: the code of the key there is, for a join too.
ShowCode(p) ==
  /\ Command(p) /\ Loaded # NoKey /\ printed' = Loaded
  /\ UNCHANGED <<Disk, envKey, step, key, at, made, wiped, kept>>

\* ExportRecovery.
Export(p) ==
  /\ Command(p) /\ Loaded # NoKey /\ recovery' = Loaded
  /\ kept' = (kept \/ wiped # {})
  /\ UNCHANGED <<keyFile, synced, traces, hub, armed, envKey, step, key, at, made, printed, wiped>>

-----------------------------------------------------------------------------
(* korai nuke.                                                             *)

\* SetNukeVerifier, once.
Arm(p) ==
  /\ Command(p) /\ ~armed /\ armed' = TRUE
  /\ UNCHANGED <<keyFile, recovery, synced, traces, hub, envKey, step, key, at, made, Past>>

\* runNuke with the right code; a wrong one, or none set, does nothing.
Nuke(p) ==
  /\ Command(p) /\ armed /\ Take(p, Loaded) /\ Become(p, "wiping") /\ at' = [at EXCEPT ![p] = 1]
  /\ UNCHANGED <<Disk, envKey, made, Past>>

\* One removal of Wipe.  One that fails is noted and the next one follows.
WipeStep(p) ==
  /\ step[p] = "wiping"
  /\ LET what == WipeOrder[at[p]]
     IN \/ /\ keyFile'  = IF what = "key" THEN NoKey ELSE keyFile
           /\ recovery' = IF what = "recovery" THEN NoKey ELSE recovery
           /\ traces'   = traces \ {what}
           /\ hub' = IF what = "hub" /\ key[p] # NoKey THEN [hub EXCEPT ![key[p]] = "nuked"] ELSE hub
           /\ wiped' = wiped \cup {what} /\ UNCHANGED kept
        \/ /\ UNCHANGED <<keyFile, recovery, traces, hub, wiped>>
           /\ kept' = (kept \/ what \in {"key", "recovery"})
  /\ IF at[p] = Len(WipeOrder) THEN Rest(p)
     ELSE at' = [at EXCEPT ![p] = @ + 1] /\ UNCHANGED <<step, key>>
  /\ UNCHANGED <<synced, armed, envKey, made, cmds, printed>>

-----------------------------------------------------------------------------
(* The rest of the device.                                                 *)

\* A REPL loads the key, if sync is on, and keeps it.
OpenSession(p) ==
  /\ Command(p) /\ synced /\ Loaded # NoKey /\ Take(p, Loaded) /\ Become(p, "open")
  /\ UNCHANGED <<Disk, envKey, at, made, Past>>

\* Its store is written and pushed.
SyncSession(p) ==
  /\ step[p] = "open" /\ traces' = traces \cup {"sessions.db", "sync-cursor"}
  /\ hub' = [hub EXCEPT ![key[p]] = IF @ = "nuked" THEN @ ELSE "data"]
  /\ UNCHANGED <<keyFile, recovery, synced, armed, envKey, step, key, at, made, cmds, Past>>

\* A process ends, done or killed.
Ends(p) ==
  /\ step[p] # "idle" /\ Rest(p)
  /\ UNCHANGED <<Disk, envKey, made, cmds, Past>>

KeyNext ==
  \E p \in Shells :
       \/ Setup(p) \/ Join(p) \/ SaveKey(p) \/ PrintWords(p) \/ EnableSync(p)
       \/ ShowCode(p) \/ Export(p) \/ Arm(p) \/ Nuke(p) \/ WipeStep(p)
       \/ OpenSession(p) \/ SyncSession(p) \/ Ends(p)

KeySpec == KeyInit /\ [][KeyNext]_keyVars
-----------------------------------------------------------------------------
\* "shredding K_folder first makes all remote ciphertext permanently unreadable even if
\* the machine loses power before the later steps run" (Wipe): once a wipe has removed
\* anything else, key and recovery file are gone, wherever it stops -- unless removing
\* one failed, which the wipe only reports, or a command stored the key meanwhile.
ShredComesFirst ==
  wiped \ {"key", "recovery"} # {} => kept \/ (keyFile = NoKey /\ recovery = NoKey)
=============================================================================
