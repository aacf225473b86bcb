---------------------------- MODULE LoopDetector ----------------------------
(***************************************************************************)
(* The per-run loop detector of internal/engine/loopdetect.go: for each    *)
(* tool call (tool name plus normalised arguments, here one element of     *)
(* Calls) the number of consecutive executions that returned the same      *)
(* volatile-stripped result, and that result.                              *)
(*                                                                         *)
(* These are the detector's operations as functions of its table, with no  *)
(* state of their own; AgentLoop holds the table as a variable and         *)
(* LoopProgress runs the detector against a workspace that changes.        *)
(***************************************************************************)
EXTENDS Naturals

CONSTANTS
  Calls,     \* the distinct (tool, normalised arguments) pairs: callKey values
  Results    \* the distinct stripped results a tool may return

NoResult == "none"   \* lastResult of a call that has not run yet

ASSUME ResultsAssumption == NoResult \notin Results

VetoStreak == 2      \* check vetoes at streak >= 2
WarnStreak == 2      \* observe warns when the streak becomes 2
VetoLimit  == 2      \* vetoCount() >= 2 makes the engine wrap the run up

\* newLoopDetector: an absent map entry is streak 0.
NewDetector == [c \in Calls |-> [streak |-> 0, last |-> NoResult]]

LateVetoed(entries, c) == entries[c].streak >= VetoStreak + 1

\* check, before the call runs: TRUE when it must be skipped.
Vetoed(entries, c) == entries[c].streak >= VetoStreak

\* The streak after an execution of the call of entry e returned r.
NextStreak(e, r) == IF e.last = r THEN e.streak + 1 ELSE 1

\* observe, after the call ran: a changed result is progress and restarts the
\* streak.
Observe(entries, c, r) ==
  [entries EXCEPT ![c] = [streak |-> NextStreak(@, r), last |-> r]]

\* observe's return value: exactly when the streak reaches 2.
Warns(entries, c, r) == NextStreak(entries[c], r) = WarnStreak

\* The table: streak is 0 exactly where nothing ran.
Detectors == [Calls -> [streak : 0..VetoStreak, last : Results \cup {NoResult}]]
=============================================================================
