------------------------------- MODULE PermMode -------------------------------
(***************************************************************************)
(* Who decides that a tool call runs: the shared mode selector and the     *)
(* permission engine (internal/perm), the decisions the tools take         *)
(* themselves (internal/tools), the TUI's dialogs and mode keys            *)
(* (internal/tui), ExitPlanMode (internal/tools/plan) and the sub-agent    *)
(* (cmd/korai/session.go).                                                 *)
(*                                                                         *)
(* The engine's goroutine reads the mode twice for one call, once for the  *)
(* tool's own decision and once in Resolve, and hands questions to the UI, *)
(* which shows one dialog of a kind at a time; the user changes the mode,  *)
(* answers, or interrupts between any two of these steps.  A dialog stays  *)
(* open when the call that asked is interrupted.  Calls are numbered.      *)
(*                                                                         *)
(* One tool stands for each way the tools decide: ReadFile for those that  *)
(* are always allowed, Edit for those that change files, Bash for those    *)
(* that run commands; WebFetch and Task always ask.                        *)
(***************************************************************************)
EXTENDS Naturals

CONSTANTS
  MaxCalls,   \* bound: tool calls dispatched
  RuleTools   \* the tools settings have allow and deny rules for

Modes == {"default", "plan", "acceptEdits", "bypassPermissions"}
Tools == {"ReadFile", "Edit", "Bash", "WebFetch", "Task", "ExitPlanMode"}

ASSUME PermAssumption == MaxCalls \in Nat /\ RuleTools \subseteq Tools

NoDialog == [call |-> 0, tool |-> "ReadFile"]

VARIABLES
  mode, prePlan,   \* ModeSelector
  startMode,       \* the mode the session was assembled with
  allow, deny,     \* Rules
  sessionAllowed,  \* Model.sessionAllowed
  pc,              \* where the dispatch is; "off" between turns
  number,          \* the call's number
  tool, base,      \* its tool and the tool's own decision
  answer,          \* the reply on the call's channel
  target,          \* ExitPlanMode: the mode to set
  permDialog,      \* Model.pending: the call that asked and its tool, or NoDialog
  planDialog,      \* Model.pendingPlan: the number of the call that asked, or 0
  \* History variables.
  held,            \* the modes in force since the call's dispatch began
  approved,        \* the calls the user allowed in a dialog
  leftOff,         \* the last mode in force that was not plan mode
  ran              \* the last tool that executed, for whom, and its call

selector == <<mode, prePlan, leftOff, held>>
session  == <<startMode, allow, deny>>
dispatch == <<pc, number, tool, base, answer, target>>
ui       == <<sessionAllowed, permDialog, planDialog, approved>>
vars == <<selector, session, dispatch, ui, ran>>

Init ==
  /\ startMode \in Modes /\ mode = startMode /\ prePlan = "default"
  /\ allow \in SUBSET RuleTools /\ deny \in SUBSET RuleTools
  /\ sessionAllowed = {} /\ permDialog = NoDialog /\ planDialog = 0
  /\ pc = "off" /\ number = 0 /\ tool = "ReadFile" /\ base = "deny" /\ answer = "none"
  /\ target = "default"
  /\ held = {} /\ approved = {} /\ ran = [tool |-> "none", by |-> "none", call |-> 0]
  /\ leftOff = IF mode = "plan" THEN "default" ELSE mode

-----------------------------------------------------------------------------
(* ModeSelector.                                                           *)

PrePlanAfter(m) == IF m = "plan" /\ mode # "plan" THEN mode ELSE prePlan

Set(m) ==
  /\ mode' = m
  /\ prePlan' = PrePlanAfter(m)
  /\ leftOff' = IF m = "plan" THEN leftOff ELSE m
  /\ held' = IF pc \in {"off", "idle"} THEN held ELSE held \cup {m}

\* cycleOrder; a mode outside the rotation goes to default.
NextInCycle ==
  CASE mode = "default" -> "acceptEdits" [] mode = "acceptEdits" -> "plan" [] OTHER -> "default"

-----------------------------------------------------------------------------
(* The decisions.                                                          *)

\* CheckPermission of the tools that change files, and of those that run commands.
FileBase(m) ==
  IF m \in {"bypassPermissions", "acceptEdits"} THEN "allow"
  ELSE IF m = "plan" THEN "deny" ELSE "ask"
CommandBase(m) ==
  IF m = "bypassPermissions" THEN "allow" ELSE IF m = "plan" THEN "deny" ELSE "ask"

\* CheckPermission of each tool.
Base(t, m) ==
  CASE t \in {"ReadFile", "ExitPlanMode"} -> "allow"
    [] t = "Edit" -> FileBase(m)
    [] t = "Bash" -> CommandBase(m)
    [] OTHER -> IF m = "bypassPermissions" THEN "allow" ELSE "ask"

AllowRuleFirst(t, b, m) ==
  IF m = "bypassPermissions" \/ t \in allow THEN "allow"
  ELSE IF t \in deny THEN "deny"
  ELSE b

\* Engine.Resolve of a call with base decision b in mode m, up to the Asker.
Resolved(t, b, m) ==
  IF m = "bypassPermissions" THEN "allow"
  ELSE IF t \in deny THEN "deny"
  ELSE IF b = "ask" /\ t \in allow THEN "allow"
  ELSE b

-----------------------------------------------------------------------------
(* The engine's goroutine.                                                 *)

\* Runner: a turn starts and ends.
Turn ==
  /\ \/ pc = "off" /\ permDialog = NoDialog /\ planDialog = 0 /\ pc' = "idle"
     \/ pc = "idle" /\ pc' = "off"
  /\ UNCHANGED <<selector, session, number, tool, base, answer, target, ui, ran>>

\* dispatchTool: CheckPermission in the current mode.
Check(t) ==
  /\ pc = "idle" /\ number < MaxCalls
  /\ number' = number + 1 /\ tool' = t /\ base' = Base(t, mode)
  /\ answer' = "none" /\ pc' = "checked" /\ held' = {mode}
  /\ UNCHANGED <<mode, prePlan, leftOff, session, target, ui, ran>>

\* Resolve, which reads the mode again.
Resolve ==
  /\ pc = "checked"
  /\ pc' = CASE Resolved(tool, base, mode) = "allow" -> "permitted"
             [] Resolved(tool, base, mode) = "deny" -> "idle"
             [] OTHER -> "asking"
  /\ UNCHANGED <<selector, session, number, tool, base, answer, target, ui, ran>>

\* Ask returns with the user's answer.
TakeAnswer ==
  /\ pc = "asked" /\ answer # "none"
  /\ pc' = IF answer = "allow" THEN "permitted" ELSE "idle"
  /\ UNCHANGED <<selector, session, number, tool, base, answer, target, ui, ran>>

\* The turn's context is cancelled: Ask and ApprovePlan return its error.
Interrupted ==
  /\ pc \in {"asking", "asked", "planAsking", "planAsked"}
  /\ pc' = "idle"
  /\ UNCHANGED <<selector, session, number, tool, base, answer, target, ui, ran>>

\* A PreToolUse hook blocks the permitted call.
HookBlocks ==
  /\ pc = "permitted" /\ pc' = "idle"
  /\ UNCHANGED <<selector, session, number, tool, base, answer, target, ui, ran>>

\* Execute: the tool acts here; Task and ExitPlanMode only begin.
Execute ==
  /\ pc = "permitted"
  /\ pc' = CASE tool = "Task" -> "subAgent" [] tool = "ExitPlanMode" -> "planAsking"
             [] OTHER -> "idle"
  /\ ran' = [tool |-> tool, by |-> "agent", call |-> number]
  /\ UNCHANGED <<selector, session, number, tool, base, answer, target, ui>>

\* The sub-agent has a selector of its own, in the mode the session was assembled
\* with, and an asker that denies; it has every tool but Task and ExitPlanMode.
SubAgentRuns(t) ==
  /\ pc = "subAgent" /\ t \notin {"Task", "ExitPlanMode"}
  /\ Resolved(t, Base(t, startMode), startMode) = "allow"
  /\ ran' = [tool |-> t, by |-> "subAgent", call |-> number]
  /\ UNCHANGED <<selector, session, dispatch, ui>>

SubAgentEnds ==
  /\ pc = "subAgent" /\ pc' = "idle"
  /\ UNCHANGED <<selector, session, number, tool, base, answer, target, ui, ran>>

\* ExitPlanMode: on approval the plan is saved and PrePlan is read, then Set is called.
TakePlanAnswer ==
  /\ pc = "planAsked" /\ answer # "none"
  /\ IF answer = "reject"
     THEN pc' = "idle" /\ UNCHANGED target
     ELSE /\ pc' = "approved"
          /\ target' = IF answer = "approve" THEN prePlan ELSE "acceptEdits"
  /\ UNCHANGED <<selector, session, number, tool, base, answer, ui, ran>>

LeavePlanMode ==
  /\ pc = "approved"
  /\ Set(target)
  /\ pc' = "idle"
  /\ UNCHANGED <<session, number, tool, base, answer, target, ui, ran>>

-----------------------------------------------------------------------------
(* The user interface.                                                     *)

NoDialogOpen == permDialog = NoDialog /\ planDialog = 0

\* shift+tab: dialogs take all keys while they are open.
CycleMode ==
  /\ NoDialogOpen
  /\ Set(NextInCycle)
  /\ UNCHANGED <<session, dispatch, ui, ran>>

\* /plan: toggles, or with a task enters plan mode; only while no turn runs.
PlanCommand ==
  /\ pc = "off" /\ NoDialogOpen
  /\ \/ Set("plan")
     \/ mode = "plan" /\ Set("default")
  /\ UNCHANGED <<session, dispatch, ui, ran>>

\* permRequestMsg: the listener is armed when no permission dialog is open.
ShowPermission ==
  /\ pc = "asking" /\ permDialog = NoDialog
  /\ pc' = "asked"
  /\ IF tool \in sessionAllowed
     THEN answer' = "allow" /\ UNCHANGED permDialog
     ELSE permDialog' = [call |-> number, tool |-> tool] /\ UNCHANGED answer
  /\ UNCHANGED <<selector, session, number, tool, base, target, sessionAllowed, planDialog,
                 approved, ran>>

AnyCallAnswered(call) == TRUE

\* The reply goes to the call that asked; nobody reads that of an interrupted one.
Answers(call) == call = number

\* onDialogKey, resolvePermission.
AnswerPermission ==
  /\ permDialog # NoDialog
  /\ \E decision \in {"allow", "allowForSession", "deny"} :
       /\ answer' = IF Answers(permDialog.call)
                    THEN IF decision = "deny" THEN "deny" ELSE "allow"
                    ELSE answer
       /\ sessionAllowed' = IF decision = "allowForSession"
                            THEN sessionAllowed \cup {permDialog.tool} ELSE sessionAllowed
       /\ approved' = IF decision = "deny" THEN approved ELSE approved \cup {permDialog.call}
  /\ permDialog' = NoDialog
  /\ UNCHANGED <<selector, session, pc, number, tool, base, target, planDialog, ran>>

ShowPlan ==
  /\ pc = "planAsking" /\ planDialog = 0
  /\ pc' = "planAsked" /\ planDialog' = number
  /\ UNCHANGED <<selector, session, number, tool, base, answer, target, sessionAllowed,
                 permDialog, approved, ran>>

\* onPlanKey, resolvePlan: a permission dialog is in front of the plan's.
AnswerPlan ==
  /\ planDialog # 0 /\ permDialog = NoDialog
  /\ answer' \in IF Answers(planDialog)
                 THEN {"reject", "approve", "approveAcceptEdits"} ELSE {answer}
  /\ planDialog' = 0
  /\ UNCHANGED <<selector, session, pc, number, tool, base, target, sessionAllowed, permDialog,
                 approved, ran>>

-----------------------------------------------------------------------------
Engine == Turn \/ (\E t \in Tools : Check(t) \/ SubAgentRuns(t)) \/ Resolve \/ TakeAnswer
          \/ Interrupted \/ HookBlocks \/ Execute \/ SubAgentEnds \/ TakePlanAnswer
          \/ LeavePlanMode
User == CycleMode \/ PlanCommand \/ ShowPermission \/ AnswerPermission \/ ShowPlan
        \/ AnswerPlan

Next == Engine \/ User

Spec == Init /\ [][Next]_vars
-----------------------------------------------------------------------------
Decisions == {"allow", "ask", "deny"}

TypeOK ==
  /\ mode \in Modes /\ prePlan \in Modes /\ startMode \in Modes /\ target \in Modes
  /\ leftOff \in Modes /\ held \subseteq Modes
  /\ allow \subseteq RuleTools /\ deny \subseteq RuleTools
  /\ sessionAllowed \subseteq Tools
  /\ pc \in {"off", "idle", "checked", "asking", "asked", "permitted", "subAgent",
            "planAsking", "planAsked", "approved"}
  /\ number \in 0..MaxCalls /\ tool \in Tools /\ base \in Decisions
  /\ answer \in {"none", "allow", "deny", "reject", "approve", "approveAcceptEdits"}
  /\ permDialog \in [call : 0..MaxCalls, tool : Tools] /\ planDialog \in 0..MaxCalls
  /\ approved \subseteq 0..MaxCalls
  /\ ran \in [tool : Tools \cup {"none"}, by : {"none", "agent", "subAgent"},
              call : 0..MaxCalls]

\* bypassPermissions is "reachable only via flag or config, never by an accidental
\* keypress" (mode_selector.go): no sequence of mode keys, plan commands and plan
\* approvals leads a session there that was not started there.
BypassIsOptIn == mode = "bypassPermissions" => startMode = "bypassPermissions"

\* While plan mode is on, the selector remembers the mode it will restore, however
\* plan mode was entered, and also when it is entered while already on.
PlanRemembersMode == mode = "plan" => prePlan = leftOff

\* ExitPlanMode tells the model "You have left plan mode": that is so after every
\* approval, whatever the user did to the mode while the plan was on screen.
ApprovalLeavesPlanMode == [][LeavePlanMode => mode' # "plan"]_vars

\* Whatever runs was allowed: by the user for this very call or for the session, by
\* a rule, or by a mode in force since its dispatch began; the answer to a dialog
\* left open by an interrupted call never lets another call through.
RunsWithConsent ==
  [][Execute => \/ number \in approved
                \/ tool \in allow \cup sessionAllowed
                \/ \E m \in held : Base(tool, m) = "allow"]_vars

\* A deny rule holds against every dialog, session allowance, allow rule and change
\* of mode, for the agent and its sub-agents, unless the session opted into bypass.
DenyRulesHold ==
  [][\A t \in deny : (Execute /\ tool = t) \/ SubAgentRuns(t)
                     => startMode = "bypassPermissions"]_vars

\* A call dispatched wholly in plan mode changes no file and runs no command,
\* whatever the rules and the session allow.
PlanModeBlocks ==
  [][Execute /\ held = {"plan"} => tool \notin {"Edit", "Bash"}]_vars
=============================================================================
