------------------------------ MODULE Tools_proofs ------------------------------
(***************************************************************************)
(* Proofs about the tools: who decides that a call runs (PermMode), and    *)
(* what ApplyPatch and the snapshots do to texts and files (PatchText,     *)
(* Worktree).  What is known of texts in general is in EditMatch_proofs.   *)
(***************************************************************************)
EXTENDS PermMode, PatchText, Worktree, EditMatch_proofs

-----------------------------------------------------------------------------
(* PermMode, for every number of calls and every set of tools that         *)
(* settings have rules for.                                                *)

ToolTypes ==
  /\ sessionAllowed \subseteq Tools /\ tool \in Tools /\ base \in Decisions
  /\ permDialog \in [call : 0..MaxCalls, tool : Tools]

ModeTypes ==
  /\ mode \in Modes /\ prePlan \in Modes /\ startMode \in Modes /\ target \in Modes
  /\ leftOff \in Modes /\ held \subseteq Modes

LEMMA InitPermType == Init => TypeOK
  BY PermAssumption DEF Init, TypeOK, Modes, Tools, Decisions, NoDialog

LEMMA SetType ==
  ASSUME TypeOK, NEW m \in Modes, Set(m)
  PROVE  mode' \in Modes /\ prePlan' \in Modes /\ leftOff' \in Modes /\ held' \subseteq Modes
  BY DEF Set, PrePlanAfter, TypeOK

LEMMA EngineType == TypeOK /\ Engine => TypeOK'
<1> SUFFICES ASSUME TypeOK, Engine
             PROVE  TypeOK'
  OBVIOUS
<1> USE PermAssumption DEF TypeOK, ui, session, selector, dispatch
<1>1. CASE Turn
  BY <1>1 DEF Turn
<1>2. ASSUME NEW t \in Tools, Check(t)
      PROVE  TypeOK'
  BY <1>2 DEF Check, Base, FileBase, CommandBase, Decisions
<1>3. ASSUME NEW t \in Tools, SubAgentRuns(t)
      PROVE  TypeOK'
  BY <1>3 DEF SubAgentRuns
<1>4. CASE Resolve
  BY <1>4 DEF Resolve
<1>5. CASE TakeAnswer
  BY <1>5 DEF TakeAnswer
<1>6. CASE Interrupted
  BY <1>6 DEF Interrupted
<1>7. CASE HookBlocks
  BY <1>7 DEF HookBlocks
<1>8. CASE Execute
  BY <1>8 DEF Execute
<1>9. CASE SubAgentEnds
  BY <1>9 DEF SubAgentEnds
<1>10. CASE TakePlanAnswer
  BY <1>10 DEF TakePlanAnswer, Modes
<1>11. CASE LeavePlanMode
  BY <1>11, SetType DEF LeavePlanMode
<1>12. QED
  BY <1>1, <1>2, <1>3, <1>4, <1>5, <1>6, <1>7, <1>8, <1>9, <1>10, <1>11 DEF Engine

LEMMA UserType == TypeOK /\ User => TypeOK'
<1> SUFFICES ASSUME TypeOK, User
             PROVE  TypeOK'
  OBVIOUS
<1> USE PermAssumption DEF TypeOK, ui, session, selector, dispatch
<1>1. CASE CycleMode
  <2>1. NextInCycle \in Modes
    BY DEF NextInCycle, Modes
  <2>2. QED
    BY <1>1, <2>1, SetType DEF CycleMode
<1>2. CASE PlanCommand
  <2>1. PICK m \in Modes : Set(m)
    BY <1>2 DEF PlanCommand, Modes
  <2>2. QED
    BY <1>2, <2>1, SetType DEF PlanCommand
<1>3. CASE ShowPermission
  BY <1>3 DEF ShowPermission
<1>4. CASE AnswerPermission
  <2>1. NoDialog \in [call : 0..MaxCalls, tool : Tools]
    BY DEF NoDialog, Tools
  <2>2. permDialog.call \in 0..MaxCalls /\ permDialog.tool \in Tools
    OBVIOUS
  <2>3. /\ answer' \in {"allow", "deny", answer}
        /\ sessionAllowed' \subseteq Tools /\ approved' \subseteq 0..MaxCalls
    BY <1>4, <2>2 DEF AnswerPermission
  <2>4. permDialog' = NoDialog
        /\ UNCHANGED <<selector, session, pc, number, tool, base, target, planDialog, ran>>
    BY <1>4 DEF AnswerPermission
  <2>5. QED
    BY <2>1, <2>3, <2>4
<1>5. CASE ShowPlan
  BY <1>5 DEF ShowPlan
<1>6. CASE AnswerPlan
  BY <1>6 DEF AnswerPlan
<1>7. QED
  BY <1>1, <1>2, <1>3, <1>4, <1>5, <1>6 DEF User
\* PermMode is type correct.
THEOREM PermTypeCorrect == Spec => []TypeOK
<1>1. TypeOK /\ UNCHANGED vars => TypeOK'
  BY DEF vars, selector, session, dispatch, ui, TypeOK
<1>2. TypeOK /\ [Next]_vars => TypeOK'
  BY <1>1, EngineType, UserType DEF Next
<1>3. QED
  BY <1>2, InitPermType, PTL DEF Spec

-----------------------------------------------------------------------------
(* The modes.                                                              *)

\* The remembered mode is the last one that was not plan mode, and no mode kept
\* anywhere is bypassPermissions unless the session opted in.
OptedIn == startMode = "bypassPermissions"

ModeInv ==
  /\ prePlan # "plan"
  /\ leftOff = IF mode = "plan" THEN prePlan ELSE mode
  /\ pc = "approved" => target # "plan"
  /\ OptedIn \/ "bypassPermissions" \notin {mode, prePlan}
  /\ pc = "approved" => OptedIn \/ target # "bypassPermissions"

LEMMA SetKeepsModes ==
  ASSUME TypeOK, ModeInv, NEW m \in Modes, Set(m), m = "bypassPermissions" => OptedIn
  PROVE  /\ prePlan' # "plan"
         /\ leftOff' = IF mode' = "plan" THEN prePlan' ELSE mode'
         /\ OptedIn \/ "bypassPermissions" \notin {mode', prePlan'}
  BY DEF Set, PrePlanAfter, ModeInv

LEMMA ModeInductive == TypeOK /\ ModeInv /\ [Next]_vars => ModeInv'
<1> SUFFICES ASSUME TypeOK, ModeInv, [Next]_vars
             PROVE  ModeInv'
  OBVIOUS
<1> USE DEF session, selector, dispatch
<1>1. UNCHANGED startMode
  BY DEF vars, Next, Engine, User, Turn, Check, SubAgentRuns, Resolve, TakeAnswer,
         Interrupted, HookBlocks, Execute, SubAgentEnds, TakePlanAnswer, LeavePlanMode,
         CycleMode, PlanCommand, ShowPermission, AnswerPermission, ShowPlan, AnswerPlan
<1>2. ASSUME UNCHANGED selector, pc' = "approved" => pc = "approved" /\ target' = target
      PROVE  ModeInv'
  BY <1>1, <1>2 DEF ModeInv, OptedIn
<1>3. ASSUME NEW m \in Modes, Set(m), m = "bypassPermissions" => OptedIn, pc' # "approved"
      PROVE  ModeInv'
  BY <1>1, <1>3, SetKeepsModes DEF ModeInv, OptedIn
<1>4. CASE TakePlanAnswer
  BY <1>1, <1>4 DEF TakePlanAnswer, ModeInv, OptedIn
<1>5. CASE LeavePlanMode
  BY <1>3, <1>5 DEF LeavePlanMode, ModeInv, TypeOK
<1>6. CASE CycleMode
  <2>1. NextInCycle \in Modes \ {"bypassPermissions"}
    BY DEF NextInCycle, Modes
  <2>2. CASE pc = "approved"
    <3>1. UNCHANGED <<pc, target>>
      BY <1>6 DEF CycleMode
    <3>2. QED
      BY <1>1, <1>6, <2>1, <3>1, SetKeepsModes DEF CycleMode, ModeInv, OptedIn
  <2>3. CASE pc # "approved"
    BY <1>3, <1>6, <2>1, <2>3 DEF CycleMode
  <2>4. QED
    BY <2>2, <2>3
<1>7. CASE PlanCommand
  <2>1. PICK m \in {"plan", "default"} : Set(m)
    BY <1>7 DEF PlanCommand
  <2>2. QED
    BY <1>3, <1>7, <2>1 DEF PlanCommand, Modes
<1>8. CASE Turn \/ (\E t \in Tools : Check(t) \/ SubAgentRuns(t)) \/ Resolve \/ TakeAnswer
           \/ Interrupted \/ HookBlocks \/ Execute \/ SubAgentEnds
  <2>1. pc' # "approved" \/ UNCHANGED <<pc, target>>
    BY <1>8 DEF Turn, Check, SubAgentRuns, Resolve, TakeAnswer, Interrupted, HookBlocks,
                Execute, SubAgentEnds
  <2>2. UNCHANGED <<mode, prePlan, leftOff>>
    BY <1>8 DEF Turn, Check, SubAgentRuns, Resolve, TakeAnswer, Interrupted, HookBlocks,
                Execute, SubAgentEnds
  <2>3. QED
    BY <1>1, <2>1, <2>2 DEF ModeInv, OptedIn
<1>9. CASE ShowPermission \/ AnswerPermission \/ ShowPlan \/ AnswerPlan
  BY <1>2, <1>9 DEF ShowPermission, AnswerPermission, ShowPlan, AnswerPlan
<1>10. CASE UNCHANGED vars
  BY <1>2, <1>10 DEF vars
<1>11. QED
  BY <1>4, <1>5, <1>6, <1>7, <1>8, <1>9, <1>10 DEF Next, Engine, User

LEMMA InitModes == Init => ModeInv
  BY DEF Init, ModeInv, OptedIn, Modes

\* No key, command or approved plan brings a session to bypassPermissions that was
\* not started there.
THEOREM BypassNeedsOptIn == Spec => []BypassIsOptIn
<1>1. ModeInv => BypassIsOptIn
  BY DEF ModeInv, OptedIn, BypassIsOptIn
<1>2. QED
  BY <1>1, InitModes, ModeInductive, PermTypeCorrect, PTL DEF Spec

\* In plan mode the selector holds the mode that was left.
THEOREM PlanModeRemembers == Spec => []PlanRemembersMode
<1>1. ModeInv => PlanRemembersMode
  BY DEF ModeInv, PlanRemembersMode
<1>2. QED
  BY <1>1, InitModes, ModeInductive, PermTypeCorrect, PTL DEF Spec

\* An approved plan always ends plan mode.
THEOREM ApprovalEndsPlanMode == Spec => ApprovalLeavesPlanMode
<1>1. ModeInv => (LeavePlanMode => mode' # "plan")
  BY DEF ModeInv, LeavePlanMode, Set
<1>2. QED
  BY <1>1, InitModes, ModeInductive, PermTypeCorrect, PTL DEF Spec, ApprovalLeavesPlanMode
-----------------------------------------------------------------------------
(* The calls.                                                              *)

\* What lets call number run.
Consented ==
  \/ number \in approved
  \/ tool \in allow \cup sessionAllowed
  \/ \E m \in held : Base(tool, m) = "allow"

Resolving == {"asking", "asked", "permitted"}

\* The call being dispatched: its decision was taken in a mode held since it began;
\* once resolved it is not barred by plan mode or by a deny rule; an answer of
\* "allow" was given to this call or for the session.
CallInv ==
  /\ pc \notin {"off", "idle"} => mode \in held
  /\ pc = "checked" => \E m \in held : base = Base(tool, m)
  /\ pc \in Resolving /\ held = {"plan"} => tool \notin {"Edit", "Bash"}
  /\ pc \in Resolving /\ tool \in deny => OptedIn
  /\ answer = "allow" => number \in approved \/ tool \in sessionAllowed
  /\ pc = "permitted" => Consented

LEMMA InitCalls == Init => CallInv
  BY DEF Init, CallInv, Resolving

\* A change of mode only adds to the modes held.
LEMMA SetKeepsCalls ==
  ASSUME TypeOK, CallInv, NEW m \in Modes, Set(m), UNCHANGED <<session, dispatch, ui>>
  PROVE  CallInv'
<1> USE DEF session, dispatch, ui
<1>1. UNCHANGED <<tool, base, allow, deny, startMode, approved, sessionAllowed, number, pc, answer>>
  OBVIOUS
<1>2. CASE pc \in {"off", "idle"}
  <2>1. held' = held
    BY <1>2 DEF Set
  <2>2. QED
    BY <1>1, <1>2, <2>1 DEF CallInv, Resolving, Consented, OptedIn, Base, FileBase, CommandBase
<1>3. CASE pc \notin {"off", "idle"}
  <2>1. mode \in held /\ held \subseteq held' /\ mode' \in held'
    BY <1>3 DEF Set, CallInv
  <2>2. held' = {"plan"} => held = {"plan"}
    BY <2>1
  <2>3. pc = "checked" => \E k \in held' : base = Base(tool, k)
    BY <2>1 DEF CallInv
  <2>4. pc = "permitted" => \/ number \in approved \/ tool \in allow \cup sessionAllowed
                            \/ \E k \in held' : Base(tool, k) = "allow"
    BY <2>1 DEF CallInv, Consented
  <2>5. QED
    BY <1>1, <2>1, <2>2, <2>3, <2>4 DEF CallInv, Resolving, Consented, OptedIn, Base, FileBase, CommandBase
<1>4. QED
  BY <1>2, <1>3

\* Resolving a call lets it through only as the modes and rules allow.
LEMMA ResolveKeepsCalls ==
  ASSUME TypeOK, ModeInv, CallInv, Resolve
  PROVE  CallInv'
<1> USE DEF session, selector, dispatch, ui
<1>1. UNCHANGED <<mode, held, tool, base, allow, deny, startMode, approved, sessionAllowed,
                  number, answer>>
  BY DEF Resolve
<1>2. PICK k \in held : base = Base(tool, k)
  BY DEF Resolve, CallInv
<1>3. mode \in held
  BY DEF Resolve, CallInv
<1>4. ASSUME pc' \in Resolving, held = {"plan"}
      PROVE  tool \notin {"Edit", "Bash"}
  <2>1. mode = "plan" /\ k = "plan"
    BY <1>2, <1>3, <1>4
  <2>2. Resolved(tool, base, mode) # "deny"
    BY <1>4 DEF Resolve, Resolving
  <2>3. QED
    BY <1>2, <2>1, <2>2 DEF Resolved, Base, FileBase, CommandBase
<1>5. ASSUME pc' \in Resolving, tool \in deny
      PROVE  OptedIn
  <2>1. CASE mode = "bypassPermissions"
    BY <2>1 DEF ModeInv
  <2>2. CASE mode # "bypassPermissions"
    <3>1. Resolved(tool, base, mode) = "deny"
      BY <1>5, <2>2 DEF Resolved
    <3>2. pc' = "idle"
      BY <3>1 DEF Resolve
    <3>3. QED
      BY <1>5, <3>2 DEF Resolving
  <2>3. QED
    BY <2>1, <2>2
<1>6. ASSUME pc' = "permitted"
      PROVE  Consented
  <2>1. Resolved(tool, base, mode) = "allow"
    BY <1>6 DEF Resolve
  <2>2. CASE mode = "bypassPermissions"
    <3>1. Base(tool, mode) = "allow"
      BY <2>2 DEF Base, FileBase, CommandBase
    <3>2. QED
      BY <1>3, <3>1 DEF Consented
  <2>3. CASE mode # "bypassPermissions"
    BY <1>2, <2>1, <2>3 DEF Resolved, Consented
  <2>4. QED
    BY <2>2, <2>3
<1>7. pc' \notin {"checked", "off"}
  BY DEF Resolve
<1>8. QED
  BY <1>1, <1>3, <1>4, <1>5, <1>6, <1>7 DEF CallInv, Consented, OptedIn, Base, FileBase, CommandBase
\* An answer given in the permission dialog reaches only the call that asked, and
\* records the consent it stands for.
LEMMA AnswerKeepsCalls ==
  ASSUME TypeOK, CallInv, AnswerPermission
  PROVE  CallInv'
<1> USE DEF session, selector, dispatch, ui
<1>1. UNCHANGED <<mode, held, tool, base, allow, deny, startMode, number, pc>>
  BY DEF AnswerPermission
<1>2. approved \subseteq approved' /\ sessionAllowed \subseteq sessionAllowed'
  BY DEF AnswerPermission
<1>3. answer' = "allow" => answer = "allow" \/ number \in approved'
  BY DEF AnswerPermission, Answers
<1>4. answer' = "allow" => number \in approved' \/ tool \in sessionAllowed'
  BY <1>2, <1>3 DEF CallInv
<1>5. Consented => Consented'
  BY <1>1, <1>2 DEF Consented, Base, FileBase, CommandBase
<1>6. QED
  BY <1>1, <1>4, <1>5 DEF CallInv, Resolving, OptedIn, Base, FileBase, CommandBase

\* Steps that leave the call, its modes and the consents alone and do not let the
\* dispatch through.
LEMMA QuietStepKeepsCalls ==
  ASSUME CallInv, UNCHANGED <<mode, held, tool, base, allow, deny, startMode, approved,
                              sessionAllowed, number>>,
         answer' # "allow" \/ answer' = answer \/ tool \in sessionAllowed,
         pc' # "checked",
         pc' \in {"off", "idle"} \/ pc \notin {"off", "idle"},
         pc' \in Resolving => pc \in Resolving,
         pc' = "permitted" => Consented
  PROVE  CallInv'
<1>1. Consented' = Consented
  BY DEF Consented, Base, FileBase, CommandBase
<1>2. QED
  BY <1>1 DEF CallInv, OptedIn, Base, FileBase, CommandBase, Resolving

LEMMA CallInductive == TypeOK /\ ModeInv /\ CallInv /\ [Next]_vars => CallInv'
<1> SUFFICES ASSUME TypeOK, ModeInv, CallInv, [Next]_vars
             PROVE  CallInv'
  OBVIOUS
<1> USE DEF session, selector, dispatch, ui
<1>1. CASE Turn
  BY <1>1, QuietStepKeepsCalls DEF Turn, Resolving
<1>2. ASSUME NEW t \in Tools, Check(t)
      PROVE  CallInv'
  BY <1>2 DEF Check, CallInv, Resolving, Base, FileBase, CommandBase
<1>3. ASSUME NEW t \in Tools, SubAgentRuns(t)
      PROVE  CallInv'
  BY <1>3, QuietStepKeepsCalls DEF SubAgentRuns, Resolving
<1>4. CASE Resolve
  BY <1>4, ResolveKeepsCalls
<1>5. CASE TakeAnswer
  <2>1. pc' = "permitted" => Consented
    BY <1>5 DEF TakeAnswer, CallInv, Consented
  <2>2. QED
    BY <1>5, <2>1, QuietStepKeepsCalls DEF TakeAnswer, Resolving
<1>6. CASE Interrupted
  BY <1>6, QuietStepKeepsCalls DEF Interrupted, Resolving
<1>7. CASE HookBlocks
  BY <1>7, QuietStepKeepsCalls DEF HookBlocks, Resolving
<1>8. CASE Execute
  BY <1>8, QuietStepKeepsCalls DEF Execute, Resolving
<1>9. CASE SubAgentEnds
  BY <1>9, QuietStepKeepsCalls DEF SubAgentEnds, Resolving
<1>10. CASE TakePlanAnswer
  BY <1>10, QuietStepKeepsCalls DEF TakePlanAnswer, Resolving
<1>11. CASE LeavePlanMode
  <2>1. mode' = target /\ held' = held \cup {target} /\ pc' = "idle"
    BY <1>11 DEF LeavePlanMode, Set
  <2>2. UNCHANGED <<tool, allow, deny, startMode, approved, sessionAllowed, number, answer>>
    BY <1>11 DEF LeavePlanMode
  <2>3. QED
    BY <2>1, <2>2 DEF CallInv, Resolving
<1>12. CASE CycleMode
  <2>1. NextInCycle \in Modes
    BY DEF NextInCycle, Modes
  <2>2. QED
    BY <1>12, <2>1, SetKeepsCalls DEF CycleMode
<1>13. CASE PlanCommand
  <2>1. PICK m \in Modes : Set(m)
    BY <1>13 DEF PlanCommand, Modes
  <2>2. QED
    BY <1>13, <2>1, SetKeepsCalls DEF PlanCommand
<1>14. CASE ShowPermission
  BY <1>14, QuietStepKeepsCalls DEF ShowPermission, Resolving
<1>15. CASE AnswerPermission
  BY <1>15, AnswerKeepsCalls
<1>16. CASE ShowPlan
  BY <1>16, QuietStepKeepsCalls DEF ShowPlan, Resolving
<1>17. CASE AnswerPlan
  <2>1. answer' # "allow" \/ answer' = answer
    BY <1>17 DEF AnswerPlan
  <2>2. UNCHANGED <<mode, held, tool, base, allow, deny, startMode, approved, sessionAllowed,
                    number, pc>>
    BY <1>17 DEF AnswerPlan
  <2>3. Consented' = Consented
    BY <2>2 DEF Consented, Base, FileBase, CommandBase
  <2>4. QED
    BY <2>1, <2>2, <2>3 DEF CallInv, Resolving, OptedIn, Base, FileBase, CommandBase
<1>18. CASE UNCHANGED vars
  <2>1. UNCHANGED <<mode, held, tool, base, allow, deny, startMode, approved, sessionAllowed,
                    number, answer, pc>>
    BY <1>18 DEF vars
  <2>2. Consented' = Consented
    BY <2>1 DEF Consented, Base, FileBase, CommandBase
  <2>3. QED
    BY <2>1, <2>2 DEF CallInv, Resolving, OptedIn, Base, FileBase, CommandBase
<1>19. QED
  BY <1>1, <1>2, <1>3, <1>4, <1>5, <1>6, <1>7, <1>8, <1>9, <1>10, <1>11, <1>12, <1>13,
     <1>14, <1>15, <1>16, <1>17, <1>18 DEF Next, Engine, User

\* What every call that runs satisfies, put together.
PermInv == TypeOK /\ ModeInv /\ CallInv

LEMMA PermInvariant == Spec => []PermInv
<1>1. Init => PermInv
  BY InitPermType, InitModes, InitCalls DEF PermInv
<1>2. PermInv /\ [Next]_vars => PermInv'
  <2>1. TypeOK /\ UNCHANGED vars => TypeOK'
    BY DEF vars, selector, session, dispatch, ui, TypeOK
  <2>2. QED
    BY <2>1, EngineType, UserType, ModeInductive, CallInductive DEF PermInv, Next
<1>3. QED
  BY <1>1, <1>2, PTL DEF Spec

\* No call runs without the consent of the user, a rule or a mode in force since it
\* was dispatched; an answer meant for another call never lets it through.
THEOREM EveryRunHasConsent == Spec => RunsWithConsent
<1>1. PermInv => (Execute => \/ number \in approved
                             \/ tool \in allow \cup sessionAllowed
                             \/ \E m \in held : Base(tool, m) = "allow")
  BY DEF PermInv, CallInv, Consented, Execute
<1>2. QED
  BY <1>1, PermInvariant, PTL DEF RunsWithConsent

\* A denied tool runs only in a session that opted into bypass, for the agent and
\* its sub-agents.
THEOREM DenyRulesAreFinal == Spec => DenyRulesHold
<1>1. PermInv => \A t \in deny : (Execute /\ tool = t) \/ SubAgentRuns(t)
                                => startMode = "bypassPermissions"
  <2> SUFFICES ASSUME PermInv, NEW t \in deny
               PROVE  (Execute /\ tool = t) \/ SubAgentRuns(t) => OptedIn
    BY DEF OptedIn
  <2>1. Execute /\ tool = t => OptedIn
    BY DEF PermInv, CallInv, Resolving, Execute
  <2>2. SubAgentRuns(t) => OptedIn
    BY DEF SubAgentRuns, Resolved, OptedIn
  <2>3. QED
    BY <2>1, <2>2
<1>2. QED
  BY <1>1, PermInvariant, PTL DEF DenyRulesHold

\* A call dispatched wholly in plan mode changes no file and runs no command.
THEOREM PlanModeIsReadOnly == Spec => PlanModeBlocks
<1>1. PermInv => (Execute /\ held = {"plan"} => tool \notin {"Edit", "Bash"})
  BY DEF PermInv, CallInv, Resolving, Execute
<1>2. QED
  BY <1>1, PermInvariant, PTL DEF PlanModeBlocks

-----------------------------------------------------------------------------
(* PatchText: what the matchers compare.                                   *)

TextLine  == Seq(STRING)
TextLines == Seq(TextLine)

LEMMA SolidIs ==
  ASSUME NEW s \in TextLine
  PROVE  /\ Len(s) \in Nat /\ Solid(s) \subseteq 1..Len(s)
         /\ \A i : i \in Solid(s) <=> i \in 1..Len(s) /\ s[i] \notin Blank
         /\ Solid(s) # {} =>
              /\ Min(Solid(s)) \in Solid(s) /\ Max(Solid(s)) \in Solid(s)
              /\ \A i \in Solid(s) : Min(Solid(s)) <= i /\ i <= Max(Solid(s))
BY SolidPlaces DEF TextLine

LEMMA TrimOfTrimEnd ==
  ASSUME NEW s \in TextLine
  PROVE  TrimEnd(s) \in TextLine /\ Trim(TrimEnd(s)) = Trim(s)
<1>1. CASE Solid(s) = {}
  <2>1. TrimEnd(s) = <<>> /\ Trim(s) = <<>>
    BY <1>1 DEF TrimEnd, Trim, Solid
  <2>2. Solid(<<>>) = {}
    BY DEF Solid
  <2>3. Trim(<<>>) = <<>>
    BY <2>2 DEF Trim, Solid
  <2>4. QED
    BY <2>1, <2>3 DEF TextLine
<1>2. CASE Solid(s) # {}
  <2>1. PICK lo, hi : lo = Min(Solid(s)) /\ hi = Max(Solid(s))
    OBVIOUS
  <2>2. /\ lo \in 1..Len(s) /\ hi \in 1..Len(s) /\ lo <= hi /\ Len(s) \in Nat
        /\ \A i \in Solid(s) : lo <= i /\ i <= hi
    BY <1>2, <2>1, SolidIs
  <2>3. PICK t : t = SubSeq(s, 1, hi)
    OBVIOUS
  <2>4. TrimEnd(s) = t
    BY <1>2, <2>1, <2>3 DEF TrimEnd, Solid
  <2>5. IsPiece(t, s, 1, hi, STRING)
    <3>1. 1 \in 1..(Len(s) + 1) /\ hi \in (1 - 1)..Len(s)
      BY <2>2
    <3>2. QED
      BY <2>3, <3>1, PieceIs DEF TextLine
  <2>6. t \in TextLine /\ Len(t) = hi /\ \A k \in 1..hi : t[k] = s[k]
    <3>1. hi - 1 + 1 = hi /\ \A k \in 1..hi : 1 + k - 1 = k
      BY <2>2
    <3>2. QED
      BY <2>5, <3>1 DEF IsPiece, TextLine
  <2>7. Solid(t) = Solid(s)
    <3>1. \A i : i \in Solid(t) <=> i \in 1..hi /\ t[i] \notin Blank
      BY <2>6, SolidIs
    <3>2. \A i : i \in Solid(s) <=> i \in 1..Len(s) /\ s[i] \notin Blank
      BY SolidIs
    <3>3. \A i \in 1..hi : i \in 1..Len(s)
      BY <2>2
    <3>4. \A i \in Solid(s) : i \in 1..hi
      BY <2>2, <3>2
    <3>5. \A i : i \in Solid(t) <=> i \in Solid(s)
      BY <2>6, <3>1, <3>2, <3>3, <3>4
    <3>6. QED
      BY <3>5
  <2>8. Trim(s) = SubSeq(s, lo, hi)
    BY <1>2, <2>1 DEF Trim, Solid
  <2>9. Trim(t) = SubSeq(t, lo, hi)
    <3>1. Solid(t) # {} /\ Min(Solid(t)) = lo /\ Max(Solid(t)) = hi
      BY <1>2, <2>1, <2>7
    <3>2. QED
      BY <3>1 DEF Trim, Solid
  <2>10. PICK a, b : a = SubSeq(s, lo, hi) /\ b = SubSeq(t, lo, hi)
    OBVIOUS
  <2>11. IsPiece(a, s, lo, hi, STRING)
    <3>1. lo \in 1..(Len(s) + 1) /\ hi \in (lo - 1)..Len(s)
      BY <2>2
    <3>2. QED
      BY <2>10, <3>1, PieceIs DEF TextLine
  <2>12. IsPiece(b, t, lo, hi, STRING)
    <3>1. lo \in 1..(Len(t) + 1) /\ hi \in (lo - 1)..Len(t)
      BY <2>2, <2>6
    <3>2. QED
      BY <2>6, <2>10, <3>1, PieceIs DEF TextLine
  <2>13. a = b
    <3>1. \A k \in 1..(hi - lo + 1) : lo + k - 1 \in 1..hi
      BY <2>2
    <3>2. /\ a \in Seq(STRING) /\ b \in Seq(STRING) /\ Len(a) = Len(b) /\ Len(a) = hi - lo + 1
          /\ \A k \in 1..(hi - lo + 1) : a[k] = b[k]
      BY <2>6, <2>11, <2>12, <3>1 DEF IsPiece
    <3>3. QED
      BY <3>2, SeqEqual
  <2>14. QED
    BY <2>4, <2>6, <2>8, <2>9, <2>10, <2>13
<1>3. QED
  BY <1>1, <1>2

\* Lines that match by any matcher match by the loosest.
LEMMA LooserForm ==
  ASSUME NEW a \in TextLine, NEW b \in TextLine, NEW m \in 1..4, Form(m, a) = Form(m, b)
  PROVE  Form(4, a) = Form(4, b)
<1>1. ASSUME Trim(a) = Trim(b)
      PROVE  Form(4, a) = Form(4, b)
  BY <1>1 DEF Form, Folded
<1>2. CASE m = 1
  BY <1>2 DEF Form
<1>3. CASE m = 2
  <2>1. TrimEnd(a) = TrimEnd(b)
    BY <1>3 DEF Form
  <2>2. Trim(a) = Trim(b)
    BY <2>1, TrimOfTrimEnd
  <2>3. QED
    BY <1>1, <2>2
<1>4. CASE m = 3
  BY <1>1, <1>4 DEF Form
<1>5. CASE m = 4
  BY <1>5
<1>6. QED
  BY <1>2, <1>3, <1>4, <1>5

-----------------------------------------------------------------------------
(* PatchText: texts put together.                                          *)

\* The first n parts of f, one after the other.
Cat(f, n) == FlattenSeq([i \in 1..n |-> f[i]])

LEMMA CatNothing ==
  ASSUME NEW f
  PROVE  Cat(f, 0) = <<>>
<1> DEFINE p == [i \in 1..0 |-> f[i]]
<1>1. p \in Seq({}) /\ Len(p) = 0
  OBVIOUS
<1>2. p = <<>>
  BY <1>1, EmptySeq
<1>3. FlattenSeq(<<>>) = <<>>
  BY DEF FlattenSeq
<1>4. QED
  BY <1>2, <1>3 DEF Cat

LEMMA CatNext ==
  ASSUME NEW T, NEW f, NEW n \in Nat, NEW m, m = n + 1, \A i \in 1..m : f[i] \in Seq(T)
  PROVE  /\ Cat(f, n) \in Seq(T) /\ Cat(f, m) \in Seq(T)
         /\ IsConcat(Cat(f, m), Cat(f, n), f[m])
<1> DEFINE p == [i \in 1..n |-> f[i]]
           q == [i \in 1..m |-> f[i]]
<1>1. Len(p) = n /\ Len(q) = m /\ m \in 1..m /\ q[m] = f[m] /\ f[m] \in Seq(T)
  OBVIOUS
<1>2. n = 0 => p = <<>>
  <2>1. n = 0 => p \in Seq({})
    OBVIOUS
  <2>2. QED
    BY <1>1, <2>1, EmptySeq
<1>3. (\A i \in 1..n : p[i] = q[i]) /\ (\A i \in 1..n : p[i] \in Seq(T))
  OBVIOUS
<1>4. Cat(f, n) = FlattenSeq(p) /\ Cat(f, m) = FlattenSeq(q)
  BY DEF Cat
<1> HIDE DEF p, q
<1>5. FlattenSeq(p) \in Seq(T) /\ IsConcat(FlattenSeq(q), FlattenSeq(p), q[m])
  BY <1>1, <1>2, <1>3, FlattenSeqExtend
<1>6. FlattenSeq(p) \o q[m] \in Seq(T)
  BY <1>1, <1>5
<1>7. QED
  BY <1>1, <1>4, <1>5, <1>6 DEF IsConcat

LEMMA CatType ==
  ASSUME NEW T, NEW f, NEW n \in Nat, \A i \in 1..n : f[i] \in Seq(T)
  PROVE  Cat(f, n) \in Seq(T)
<1>1. CASE n = 0
  <2>1. Cat(f, 0) = <<>>
    BY CatNothing
  <2>2. <<>> \in Seq(T)
    OBVIOUS
  <2>3. QED
    BY <1>1, <2>1, <2>2
<1>2. CASE n # 0
  <2>1. n - 1 \in Nat /\ n = n - 1 + 1
    BY <1>2
  <2>2. QED
    BY <2>1, CatNext
<1>3. QED
  BY <1>1, <1>2

LEMMA CatSame ==
  ASSUME NEW f, NEW g, NEW n \in Nat, \A i \in 1..n : f[i] = g[i]
  PROVE  Cat(f, n) = Cat(g, n)
<1>1. [i \in 1..n |-> f[i]] = [i \in 1..n |-> g[i]]
  OBVIOUS
<1>2. QED
  BY <1>1 DEF Cat

LEMMA ConcatThree ==
  ASSUME NEW T, NEW a \in Seq(T), NEW b \in Seq(T), NEW c \in Seq(T),
         NEW ab, IsConcat(ab, a, b), NEW abc, IsConcat(abc, ab, c), NEW bc, IsConcat(bc, b, c)
  PROVE  IsConcat(abc, a, bc)
<1>1. (a \o b) \o c = a \o (b \o c)
  BY ConcatAssociative
<1>2. QED
  BY <1>1 DEF IsConcat

LEMMA ConcatThreeBack ==
  ASSUME NEW T, NEW a \in Seq(T), NEW b \in Seq(T), NEW c \in Seq(T),
         NEW ab, IsConcat(ab, a, b), NEW bc, IsConcat(bc, b, c), NEW abc, IsConcat(abc, a, bc)
  PROVE  IsConcat(abc, ab, c)
<1>1. (a \o b) \o c = a \o (b \o c)
  BY ConcatAssociative
<1>2. QED
  BY <1>1 DEF IsConcat

\* Where two agree from some part on, they end alike.
EndAlike(f, g, m, n, x) == IsConcat(Cat(f, n), Cat(f, m), x) /\ IsConcat(Cat(g, n), Cat(g, m), x)

LEMMA CatTail ==
  ASSUME NEW T, NEW f, NEW g, NEW m \in Nat, NEW n \in Nat, m <= n,
         \A i \in 1..n : f[i] \in Seq(T) /\ g[i] \in Seq(T),
         \A i \in (m + 1)..n : f[i] = g[i]
  PROVE  \E x \in Seq(T) : EndAlike(f, g, m, n, x)
<1> DEFINE S == {d \in Nat : m + d <= n => \E x \in Seq(T) : EndAlike(f, g, m, m + d, x)}
<1>1. 0 \in S
  <2>1. Cat(f, m) \in Seq(T) /\ Cat(g, m) \in Seq(T)
    <3>1. \A i \in 1..m : f[i] \in Seq(T) /\ g[i] \in Seq(T)
      OBVIOUS
    <3>2. QED
      BY <3>1, CatType
  <2>2. <<>> \in Seq(T) /\ EndAlike(f, g, m, m, <<>>)
    BY <2>1, ConcatEmptySeq DEF EndAlike, IsConcat
  <2>3. m + 0 = m
    OBVIOUS
  <2>4. QED
    BY <2>2, <2>3
<1>2. ASSUME NEW d \in Nat, d \in S
      PROVE  d + 1 \in S
  <2> SUFFICES ASSUME m + (d + 1) <= n
               PROVE  \E x \in Seq(T) : EndAlike(f, g, m, m + (d + 1), x)
    OBVIOUS
  <2>1. PICK k, l : k = m + d /\ l = m + (d + 1)
    OBVIOUS
  <2>2. k \in Nat /\ l = k + 1 /\ l \in (m + 1)..n /\ l \in 1..n /\ k <= n
    BY <2>1
  <2>3. PICK x \in Seq(T) : EndAlike(f, g, m, k, x)
    BY <1>2, <2>1, <2>2
  <2>4. \A i \in 1..l : f[i] \in Seq(T) /\ g[i] \in Seq(T)
    BY <2>2
  <2>5. /\ Cat(f, k) \in Seq(T) /\ IsConcat(Cat(f, l), Cat(f, k), f[l])
        /\ Cat(g, k) \in Seq(T) /\ IsConcat(Cat(g, l), Cat(g, k), g[l])
    BY <2>2, <2>4, CatNext
  <2>6. Cat(f, m) \in Seq(T) /\ Cat(g, m) \in Seq(T)
    <3>1. \A i \in 1..m : f[i] \in Seq(T) /\ g[i] \in Seq(T)
      OBVIOUS
    <3>2. QED
      BY <3>1, CatType
  <2>7. PICK y : y = f[l]
    OBVIOUS
  <2>8. y \in Seq(T) /\ g[l] = y
    BY <2>2, <2>7
  <2>9. PICK z : z = x \o y
    OBVIOUS
  <2>10. IsConcat(z, x, y) /\ z \in Seq(T)
    BY <2>3, <2>8, <2>9, ConcatProperties DEF IsConcat
  <2>11. IsConcat(Cat(f, l), Cat(f, m), z) /\ IsConcat(Cat(g, l), Cat(g, m), z)
    BY <2>3, <2>5, <2>6, <2>7, <2>8, <2>10, ConcatThree DEF EndAlike
  <2>12. EndAlike(f, g, m, l, z)
    BY <2>11 DEF EndAlike
  <2>13. QED
    BY <2>1, <2>10, <2>12
<1>3. Nat \subseteq S
  <2> HIDE DEF S
  <2>1. QED
    BY <1>1, <1>2, SetInduction
<1>4. n - m \in Nat /\ m + (n - m) = n
  OBVIOUS
<1>5. QED
  BY <1>3, <1>4

\* Parts that are empty add nothing.
LEMMA CatEmpties ==
  ASSUME NEW T, NEW f, NEW m \in Nat, NEW n \in Nat, m <= n,
         \A i \in 1..m : f[i] \in Seq(T), \A i \in (m + 1)..n : f[i] = <<>>
  PROVE  Cat(f, n) = Cat(f, m)
<1> DEFINE S == {d \in Nat : m + d <= n => Cat(f, m + d) = Cat(f, m)}
<1>1. 0 \in S
  OBVIOUS
<1>2. ASSUME NEW d \in Nat, d \in S
      PROVE  d + 1 \in S
  <2> SUFFICES ASSUME m + (d + 1) <= n
               PROVE  Cat(f, m + (d + 1)) = Cat(f, m)
    OBVIOUS
  <2>1. PICK k, l : k = m + d /\ l = m + (d + 1)
    OBVIOUS
  <2>2. k \in Nat /\ l = k + 1 /\ l \in (m + 1)..n /\ k <= n /\ l <= n
    BY <2>1
  <2>3. \A i \in 1..l : f[i] \in Seq(T)
    <3>1. \A i \in 1..l : i \in 1..m \/ i \in (m + 1)..n
      BY <2>2
    <3>2. <<>> \in Seq(T)
      OBVIOUS
    <3>3. QED
      BY <3>1, <3>2
  <2>4. Cat(f, k) \in Seq(T) /\ IsConcat(Cat(f, l), Cat(f, k), f[l])
    BY <2>2, <2>3, CatNext
  <2>5. f[l] = <<>>
    BY <2>2
  <2>6. Cat(f, k) = Cat(f, m)
    BY <1>2, <2>1, <2>2
  <2>7. Cat(f, l) = Cat(f, k)
    BY <2>4, <2>5, ConcatEmptySeq DEF IsConcat
  <2>8. QED
    BY <2>1, <2>6, <2>7
<1>3. Nat \subseteq S
  <2> HIDE DEF S
  <2>1. QED
    BY <1>1, <1>2, SetInduction
<1>4. n - m \in Nat /\ m + (n - m) = n
  OBVIOUS
<1>5. QED
  BY <1>3, <1>4

\* Lines, one by one, are the text they are of.
LEMMA CatLines ==
  ASSUME NEW T, NEW f, NEW lines \in Seq(T), NEW m \in 0..Len(lines),
         \A i \in 1..m : f[i] = <<lines[i]>>
  PROVE  Cat(f, m) = SubSeq(lines, 1, m)
<1> DEFINE S == {k \in Nat : k <= m => Cat(f, k) = SubSeq(lines, 1, k)}
<1>0. Len(lines) \in Nat /\ \A i \in 1..Len(lines) : lines[i] \in T
  OBVIOUS
<1>1. 0 \in S
  <2>1. SubSeq(lines, 1, 0) = <<>>
    BY SubSeqEmpty
  <2>2. QED
    BY <2>1, CatNothing
<1>2. ASSUME NEW k \in Nat, k \in S
      PROVE  k + 1 \in S
  <2> SUFFICES ASSUME k + 1 <= m
               PROVE  Cat(f, k + 1) = SubSeq(lines, 1, k + 1)
    OBVIOUS
  <2>1. PICK l : l = k + 1
    OBVIOUS
  <2>2. /\ l \in 1..m /\ l \in 1..Len(lines) /\ l - 1 = k /\ k <= m
        /\ \A i \in 1..l : i \in 1..m /\ i \in 1..Len(lines)
    BY <1>0, <2>1
  <2>3. \A i \in 1..l : f[i] \in Seq(T)
    <3>1. \A i \in 1..l : <<lines[i]>> \in Seq(T)
      BY <1>0, <2>2
    <3>2. QED
      BY <2>2, <3>1
  <2>4. IsConcat(Cat(f, l), Cat(f, k), f[l])
    BY <2>1, <2>3, CatNext
  <2>5. Cat(f, k) = SubSeq(lines, 1, k)
    BY <1>2, <2>2
  <2>6. SubSeq(lines, 1, l) = SubSeq(lines, 1, l - 1) \o <<lines[l]>>
    <3>1. 1 \in 1..Len(lines) /\ l \in 1..Len(lines)
      BY <2>2
    <3>2. QED
      BY <3>1, SubSeqRecursiveSecond
  <2>7. f[l] = <<lines[l]>>
    BY <2>2
  <2>8. QED
    BY <2>1, <2>2, <2>4, <2>5, <2>6, <2>7 DEF IsConcat
<1>3. Nat \subseteq S
  <2> HIDE DEF S
  <2>1. QED
    BY <1>1, <1>2, SetInduction
<1>4. m \in Nat
  BY <1>0
<1>5. QED
  BY <1>3, <1>4

\* Parts one place further along.
IsShift(T, f, g, n, m) ==
  /\ m \in 1..(n + 1)
  /\ \A i \in 1..n : f[i] \in Seq(T)
  /\ \A i \in 1..(n + 1) : g[i] \in Seq(T)
  /\ \A i \in m..n : g[i + 1] = f[i]
  /\ Cat(g, m) = Cat(f, m - 1)

LEMMA CatShift ==
  ASSUME NEW T, NEW f, NEW g, NEW n \in Nat, NEW m, IsShift(T, f, g, n, m)
  PROVE  Cat(g, n + 1) = Cat(f, n)
<1>0. /\ m \in 1..(n + 1)
      /\ \A i \in 1..n : f[i] \in Seq(T)
      /\ \A i \in 1..(n + 1) : g[i] \in Seq(T)
      /\ \A i \in m..n : g[i + 1] = f[i]
      /\ Cat(g, m) = Cat(f, m - 1)
  BY DEF IsShift
<1> DEFINE S == {d \in Nat : m - 1 + d <= n => Cat(g, m + d) = Cat(f, m - 1 + d)}
<1>1. 0 \in S
  <2>1. m + 0 = m /\ m - 1 + 0 = m - 1
    BY <1>0
  <2>2. QED
    BY <1>0, <2>1
<1>2. ASSUME NEW d \in Nat, d \in S
      PROVE  d + 1 \in S
  <2> SUFFICES ASSUME m - 1 + (d + 1) <= n
               PROVE  Cat(g, m + (d + 1)) = Cat(f, m - 1 + (d + 1))
    OBVIOUS
  <2>1. PICK k, l, j : k = m - 1 + d /\ l = m - 1 + (d + 1) /\ j = m + (d + 1)
    OBVIOUS
  <2>2. /\ k \in Nat /\ l \in Nat /\ l = k + 1 /\ j = l + 1 /\ l \in m..n /\ k <= n
        /\ l = m + d
    BY <1>0, <2>1
  <2>3. /\ \A i \in 1..l : f[i] \in Seq(T)
        /\ \A i \in 1..j : g[i] \in Seq(T)
    BY <1>0, <2>2
  <2>4. IsConcat(Cat(f, l), Cat(f, k), f[l])
    BY <2>2, <2>3, CatNext
  <2>5. IsConcat(Cat(g, j), Cat(g, l), g[j])
    BY <2>2, <2>3, CatNext
  <2>6. g[j] = f[l]
    BY <1>0, <2>2
  <2>7. Cat(g, l) = Cat(f, k)
    BY <1>2, <2>1, <2>2
  <2>8. QED
    BY <2>1, <2>4, <2>5, <2>6, <2>7 DEF IsConcat
<1>3. Nat \subseteq S
  <2> HIDE DEF S
  <2>1. QED
    BY <1>1, <1>2, SetInduction
<1>4. n + 1 - m \in Nat /\ m + (n + 1 - m) = n + 1 /\ m - 1 + (n + 1 - m) = n
  BY <1>0
<1>5. n + 1 - m \in S /\ m - 1 + (n + 1 - m) <= n
  <2> HIDE DEF S
  <2>1. QED
    BY <1>3, <1>4
<1>6. Cat(g, m + (n + 1 - m)) = Cat(f, m - 1 + (n + 1 - m))
  BY <1>5
<1>7. QED
  BY <1>4, <1>6

-----------------------------------------------------------------------------
(* PatchText: regions of a file and what is put in their places.  From the *)
(* last region backwards, one region at a time.                            *)

Regions == [start : Nat, len : Nat, new : TextLines]
EndOf(r) == r.start + r.len

\* What the regions from the k-th on put in at a place, the lines they take, and what
\* the text has for a line of the file: what goes in before it, and the line if it stays.
NewsPart(Q, k, p)      == [i \in 1..Len(Q) |-> IF i >= k /\ Q[i].start = p THEN Q[i].new ELSE <<>>]
NewsFrom(Q, k, p)      == Cat(NewsPart(Q, k, p), Len(Q))
TakenFrom(Q, k)        == {x \in Nat : \E i \in k..Len(Q) : Q[i].start < x /\ x <= EndOf(Q[i])}
LineFrom(lines, Q, k, p) == IF p <= Len(lines) /\ p \notin TakenFrom(Q, k) THEN <<lines[p]>> ELSE <<>>
PartsFrom(lines, Q, k) ==
  [p \in 1..(Len(lines) + 1) |-> NewsFrom(Q, k, p - 1) \o LineFrom(lines, Q, k, p)]
TextFrom(lines, Q, k)  == Cat(PartsFrom(lines, Q, k), Len(lines) + 1)

LEMMA NewsPartType ==
  ASSUME NEW Q \in Seq(Regions), NEW k \in Nat, NEW p
  PROVE  /\ Len(Q) \in Nat /\ \A i \in 1..Len(Q) : NewsPart(Q, k, p)[i] \in TextLines
         /\ NewsFrom(Q, k, p) \in TextLines
<1>1. Len(Q) \in Nat /\ \A i \in 1..Len(Q) : Q[i] \in Regions
  OBVIOUS
<1>2. \A i \in 1..Len(Q) : Q[i].new \in TextLines
  BY <1>1 DEF Regions
<1>3. <<>> \in TextLines
  BY DEF TextLines
<1>4. \A i \in 1..Len(Q) : NewsPart(Q, k, p)[i] \in TextLines
  BY <1>2, <1>3 DEF NewsPart
<1>5. NewsFrom(Q, k, p) \in TextLines
  BY <1>1, <1>4, CatType DEF NewsFrom, TextLines
<1>6. QED
  BY <1>1, <1>4, <1>5

LEMMA PartsType ==
  ASSUME NEW lines \in TextLines, NEW Q \in Seq(Regions), NEW k \in Nat
  PROVE  \A p \in 1..(Len(lines) + 1) : PartsFrom(lines, Q, k)[p] \in TextLines
<1> SUFFICES ASSUME NEW p \in 1..(Len(lines) + 1)
             PROVE  PartsFrom(lines, Q, k)[p] \in TextLines
  OBVIOUS
<1>1. NewsFrom(Q, k, p - 1) \in TextLines
  BY NewsPartType
<1>2. LineFrom(lines, Q, k, p) \in TextLines
  <2>1. CASE p <= Len(lines)
    <3>1. lines[p] \in TextLine
      BY <2>1 DEF TextLines
    <3>2. <<>> \in TextLines /\ <<lines[p]>> \in TextLines
      BY <3>1 DEF TextLines
    <3>3. QED
      BY <3>2 DEF LineFrom
  <2>2. CASE ~(p <= Len(lines))
    BY <2>2 DEF LineFrom, TextLines
  <2>3. QED
    BY <2>1, <2>2
<1>3. PICK a, b : a = NewsFrom(Q, k, p - 1) /\ b = LineFrom(lines, Q, k, p)
  OBVIOUS
<1>4. a \o b \in TextLines
  BY <1>1, <1>2, <1>3, ConcatProperties DEF TextLines
<1>5. QED
  BY <1>3, <1>4 DEF PartsFrom

\* One region more: what it puts in comes first at its place, and nowhere else.
LEMMA NewsStep ==
  ASSUME NEW Q \in Seq(Regions), NEW k \in 1..Len(Q), NEW m, m = k + 1, NEW p
  PROVE  /\ Q[k].start # p => NewsFrom(Q, k, p) = NewsFrom(Q, m, p)
         /\ Q[k].start = p => IsConcat(NewsFrom(Q, k, p), Q[k].new, NewsFrom(Q, m, p))
<1>1. PICK f, g : f = NewsPart(Q, k, p) /\ g = NewsPart(Q, m, p)
  OBVIOUS
<1>2. PICK n : n = Len(Q)
  OBVIOUS
<1>3. /\ n \in Nat /\ k \in 1..n /\ k \in Nat /\ m \in Nat
      /\ \A i \in 1..n : f[i] \in TextLines /\ g[i] \in TextLines
  <2>1. n \in Nat /\ k \in 1..n /\ k \in Nat /\ m \in Nat
    BY <1>2
  <2>2. QED
    BY <1>1, <1>2, <2>1, NewsPartType
<1>4. /\ \A i \in 1..n : f[i] = IF i >= k /\ Q[i].start = p THEN Q[i].new ELSE <<>>
      /\ \A i \in 1..n : g[i] = IF i >= m /\ Q[i].start = p THEN Q[i].new ELSE <<>>
  BY <1>1, <1>2 DEF NewsPart
<1>5. \A i \in 1..n : i # k => f[i] = g[i]
  <2>1. \A i \in 1..n : i # k => (i >= k <=> i >= m)
    BY <1>3
  <2>2. QED
    BY <1>4, <2>1
<1>6. NewsFrom(Q, k, p) = Cat(f, n) /\ NewsFrom(Q, m, p) = Cat(g, n)
  BY <1>1, <1>2 DEF NewsFrom
<1>7. CASE Q[k].start # p
  <2>1. \A i \in 1..n : f[i] = g[i]
    BY <1>3, <1>4, <1>5, <1>7
  <2>2. QED
    BY <1>3, <1>6, <1>7, <2>1, CatSame
<1>8. CASE Q[k].start = p
  <2>1. PICK x \in TextLines : EndAlike(f, g, k, n, x)
    <3>1. \A i \in (k + 1)..n : f[i] = g[i]
      BY <1>3, <1>5
    <3>2. k <= n
      BY <1>3
    <3>3. QED
      BY <1>3, <3>1, <3>2, CatTail DEF TextLines
  <2>2. f[k] = Q[k].new /\ g[k] = <<>>
    BY <1>3, <1>4, <1>8
  <2>3. Cat(g, k) = <<>>
    <3>1. \A i \in 1..k : g[i] = <<>>
      BY <1>3, <1>4
    <3>2. Cat(g, k) = Cat(g, 0)
      <4>1. \A i \in (0 + 1)..k : g[i] = <<>>
        BY <3>1
      <4>2. \A i \in 1..0 : g[i] \in Seq(TextLine)
        OBVIOUS
      <4>3. 0 <= k /\ 0 \in Nat
        BY <1>3
      <4>4. QED
        BY <1>3, <4>1, <4>2, <4>3, CatEmpties
    <3>3. QED
      BY <3>2, CatNothing
  <2>4. Cat(f, k) = Q[k].new
    <3>1. PICK j : j = k - 1
      OBVIOUS
    <3>2. j \in Nat /\ k = j + 1 /\ \A i \in 1..j : i \in 1..n /\ ~(i >= k)
      BY <1>3, <3>1
    <3>3. Cat(f, j) = <<>>
      <4>1. \A i \in (0 + 1)..j : f[i] = <<>>
        BY <1>4, <3>2
      <4>2. \A i \in 1..0 : f[i] \in Seq(TextLine)
        OBVIOUS
      <4>3. 0 <= j /\ 0 \in Nat
        BY <3>2
      <4>4. Cat(f, j) = Cat(f, 0)
        BY <3>2, <4>1, <4>2, <4>3, CatEmpties
      <4>5. QED
        BY <4>4, CatNothing
    <3>4. IsConcat(Cat(f, k), Cat(f, j), f[k])
      <4>1. \A i \in 1..k : i \in 1..n
        BY <1>3
      <4>2. \A i \in 1..k : f[i] \in Seq(TextLine)
        BY <1>3, <4>1 DEF TextLines
      <4>3. QED
        BY <3>2, <4>2, CatNext
    <3>5. f[k] \in Seq(TextLine)
      BY <1>3 DEF TextLines
    <3>6. <<>> \o f[k] = f[k]
      BY <3>5, ConcatEmptySeq
    <3>7. QED
      BY <2>2, <3>3, <3>4, <3>6 DEF IsConcat
  <2>5. <<>> \o x = x
    BY ConcatEmptySeq DEF TextLines
  <2>6. QED
    BY <1>6, <1>8, <2>1, <2>3, <2>4, <2>5 DEF EndAlike, IsConcat
<1>9. QED
  BY <1>7, <1>8

\* Where no region starts nothing goes in.
LEMMA NoNews ==
  ASSUME NEW Q \in Seq(Regions), NEW k \in Nat, NEW p, \A i \in k..Len(Q) : Q[i].start # p
  PROVE  NewsFrom(Q, k, p) = <<>>
<1>1. PICK f, n : f = NewsPart(Q, k, p) /\ n = Len(Q)
  OBVIOUS
<1>2. n \in Nat
  BY <1>1
<1>3. \A i \in 1..n : i >= k => i \in k..Len(Q)
  BY <1>1, <1>2
<1>4. \A i \in 1..n : f[i] = <<>>
  BY <1>1, <1>3 DEF NewsPart
<1>5. Cat(f, n) = Cat(f, 0)
  <2>1. \A i \in (0 + 1)..n : f[i] = <<>>
    BY <1>4
  <2>2. \A i \in 1..0 : f[i] \in Seq(TextLine)
    OBVIOUS
  <2>3. 0 <= n /\ 0 \in Nat
    BY <1>2
  <2>4. QED
    BY <1>2, <2>1, <2>2, <2>3, CatEmpties
<1>6. QED
  BY <1>1, <1>5, CatNothing DEF NewsFrom

\* Lines before every region are the file's.
LEMMA LinesBefore ==
  ASSUME NEW lines \in TextLines, NEW Q \in Seq(Regions), NEW k \in Nat \ {0},
         NEW e \in 0..Len(lines), \A i \in k..Len(Q) : e <= Q[i].start
  PROVE  \A p \in 1..e : PartsFrom(lines, Q, k)[p] = <<lines[p]>>
<1> SUFFICES ASSUME NEW p \in 1..e
             PROVE  PartsFrom(lines, Q, k)[p] = <<lines[p]>>
  OBVIOUS
<1>1. Len(lines) \in Nat /\ Len(Q) \in Nat
  BY DEF TextLines
<1>2. p \in 1..(Len(lines) + 1) /\ p <= Len(lines) /\ p \in 1..Len(lines) /\ p - 1 < e /\ p <= e
      /\ p \in Nat /\ p - 1 \in Nat
  BY <1>1
<1>3. \A i \in k..Len(Q) : Q[i].start \in Nat
  <2>1. \A i \in k..Len(Q) : i \in 1..Len(Q)
    BY <1>1
  <2>2. \A i \in 1..Len(Q) : Q[i] \in Regions
    OBVIOUS
  <2>3. QED
    BY <2>1, <2>2 DEF Regions
<1>4. \A i \in k..Len(Q) : e <= Q[i].start
  OBVIOUS
<1>5. \A i \in k..Len(Q) : Q[i].start # p - 1 /\ ~(Q[i].start < p)
  <2>1. SUFFICES ASSUME NEW i \in k..Len(Q)
                 PROVE  Q[i].start # p - 1 /\ ~(Q[i].start < p)
    OBVIOUS
  <2>2. PICK s : s = Q[i].start
    OBVIOUS
  <2>3. e <= s /\ s \in Nat
    BY <1>3, <1>4, <2>2
  <2>4. s # p - 1 /\ ~(s < p)
    BY <1>2, <2>3
  <2>5. QED
    BY <2>2, <2>4
<1>6. NewsFrom(Q, k, p - 1) = <<>>
  BY <1>5, NoNews
<1>7. p \notin TakenFrom(Q, k)
  BY <1>5 DEF TakenFrom
<1>8. LineFrom(lines, Q, k, p) = <<lines[p]>>
  BY <1>2, <1>7 DEF LineFrom
<1>9. lines[p] \in TextLine
  BY <1>2 DEF TextLines
<1>10. <<lines[p]>> \in Seq(TextLine)
  BY <1>9
<1>11. <<>> \o <<lines[p]>> = <<lines[p]>>
  BY <1>10, ConcatEmptySeq
<1>12. QED
  BY <1>2, <1>6, <1>8, <1>11 DEF PartsFrom

\* A text that ends alike before and after one region more.
OneMore(lines, Q, k, r, x) ==
  /\ IsConcat(TextFrom(lines, Q, k + 1), SubSeq(lines, 1, EndOf(r)), x)
  /\ IsConcat(TextFrom(lines, Q, k), SubSeq(lines, 1, r.start) \o r.new, x)

LEMMA StepBack ==
  ASSUME NEW lines \in TextLines, NEW Q \in Seq(Regions), NEW k \in 1..Len(Q),
         NEW r, r = Q[k], EndOf(r) <= Len(lines),
         \A i \in (k + 1)..Len(Q) : EndOf(r) <= Q[i].start
  PROVE  \E x \in TextLines : OneMore(lines, Q, k, r, x)
<1>1. PICK n, s, e, m : n = Len(lines) /\ s = r.start /\ e = EndOf(r) /\ m = k + 1
  OBVIOUS
<1>2. /\ r \in Regions /\ n \in Nat /\ s \in 0..n /\ e \in s..n /\ e \in 0..n /\ k \in Nat \ {0}
      /\ m \in Nat \ {0} /\ r.new \in TextLines /\ Len(Q) \in Nat
  <2>1. r \in Regions /\ n \in Nat /\ Len(Q) \in Nat
    BY <1>1 DEF TextLines
  <2>2. r.start \in Nat /\ r.len \in Nat /\ r.new \in TextLines
    BY <2>1 DEF Regions
  <2>3. e = s + r.len /\ e <= n
    BY <1>1 DEF EndOf
  <2>4. QED
    BY <1>1, <2>1, <2>2, <2>3
<1>3. PICK f, g : f = PartsFrom(lines, Q, k) /\ g = PartsFrom(lines, Q, m)
  OBVIOUS
<1>4. /\ \A p \in 1..(n + 1) : f[p] \in TextLines
      /\ \A p \in 1..(n + 1) : g[p] \in TextLines
  BY <1>1, <1>2, <1>3, PartsType
<1>5. TextFrom(lines, Q, k) = Cat(f, n + 1) /\ TextFrom(lines, Q, m) = Cat(g, n + 1)
  BY <1>1, <1>3 DEF TextFrom
<1>6. \A i \in m..Len(Q) : e <= Q[i].start
  BY <1>1
<1>7. \A i \in k..Len(Q) : s <= Q[i].start
  <2>1. SUFFICES ASSUME NEW i \in k..Len(Q)
                 PROVE  s <= Q[i].start
    OBVIOUS
  <2>2. i = k \/ i \in m..Len(Q)
    BY <1>1, <1>2
  <2>3. CASE i = k
    BY <1>1, <1>2, <2>3
  <2>4. CASE i \in m..Len(Q)
    <3>1. PICK t : t = Q[i].start
      OBVIOUS
    <3>2. e <= t
      BY <1>6, <2>4, <3>1
    <3>3. t \in Nat
      <4>1. i \in 1..Len(Q)
        BY <1>2
      <4>2. Q[i] \in Regions
        BY <4>1
      <4>3. QED
        BY <3>1, <4>2 DEF Regions
    <3>4. s <= t
      BY <1>2, <3>2, <3>3
    <3>5. QED
      BY <3>1, <3>4
  <2>5. QED
    BY <2>2, <2>3, <2>4
<1>8. \A p \in 1..e : g[p] = <<lines[p]>>
  <2>1. e \in 0..Len(lines) /\ m \in Nat \ {0}
    BY <1>1, <1>2
  <2>2. \A p \in 1..e : PartsFrom(lines, Q, m)[p] = <<lines[p]>>
    BY <1>6, <2>1, LinesBefore
  <2>3. QED
    BY <1>3, <2>2
<1>9. \A p \in 1..s : f[p] = <<lines[p]>>
  <2>1. s \in 0..Len(lines) /\ k \in Nat \ {0}
    BY <1>1, <1>2
  <2>2. \A p \in 1..s : PartsFrom(lines, Q, k)[p] = <<lines[p]>>
    BY <1>7, <2>1, LinesBefore
  <2>3. QED
    BY <1>3, <2>2
<1>10. Cat(g, e) = SubSeq(lines, 1, e)
  <2>1. e \in 0..Len(lines) /\ lines \in Seq(TextLine)
    BY <1>1, <1>2 DEF TextLines
  <2>2. QED
    BY <1>8, <2>1, CatLines, Zenon
<1>11. Cat(f, s) = SubSeq(lines, 1, s)
  <2>1. s \in 0..Len(lines) /\ lines \in Seq(TextLine)
    BY <1>1, <1>2 DEF TextLines
  <2>2. QED
    BY <1>9, <2>1, CatLines, Zenon
<1>12. \A p \in 1..(n + 1) : p <= s \/ p > e =>
         LineFrom(lines, Q, k, p) = LineFrom(lines, Q, m, p)
  <2>1. SUFFICES ASSUME NEW p \in 1..(n + 1), p <= s \/ p > e
                 PROVE  LineFrom(lines, Q, k, p) = LineFrom(lines, Q, m, p)
    OBVIOUS
  <2>2. ~(s < p /\ p <= e)
    BY <1>2, <2>1
  <2>3. \A i : i \in k..Len(Q) <=> i = k \/ i \in m..Len(Q)
    BY <1>1, <1>2
  <2>4. (\E i \in k..Len(Q) : Q[i].start < p /\ p <= EndOf(Q[i]))
          <=> (\E i \in m..Len(Q) : Q[i].start < p /\ p <= EndOf(Q[i]))
    BY <1>1, <2>2, <2>3
  <2>5. p \in TakenFrom(Q, k) <=> p \in TakenFrom(Q, m)
    BY <2>4 DEF TakenFrom
  <2>6. QED
    BY <2>5 DEF LineFrom
<1>13. \A p \in 1..(n + 1) : p - 1 # s => NewsFrom(Q, k, p - 1) = NewsFrom(Q, m, p - 1)
  BY <1>1, NewsStep
<1>14. /\ \A p \in 1..(n + 1) : f[p] = NewsFrom(Q, k, p - 1) \o LineFrom(lines, Q, k, p)
       /\ \A p \in 1..(n + 1) : g[p] = NewsFrom(Q, m, p - 1) \o LineFrom(lines, Q, m, p)
  BY <1>1, <1>3 DEF PartsFrom
<1>15. \A p \in 1..(n + 1) : p > e /\ p - 1 # s => f[p] = g[p]
  BY <1>12, <1>13, <1>14
<1>16. PICK N : N = NewsFrom(Q, m, s)
  OBVIOUS
<1>17. N \in TextLines /\ IsConcat(NewsFrom(Q, k, s), r.new, N)
  BY <1>1, <1>2, <1>16, NewsStep, NewsPartType
<1>18. PICK A, B : A = SubSeq(lines, 1, s) /\ B = SubSeq(lines, 1, e)
  OBVIOUS
<1>19. A \in TextLines /\ B \in TextLines
  <2>1. \A p \in 1..s : p \in 1..(n + 1)
    BY <1>2
  <2>2. Cat(f, s) \in Seq(TextLine)
    BY <1>2, <1>4, <2>1, CatType DEF TextLines
  <2>3. \A p \in 1..e : p \in 1..(n + 1)
    BY <1>2
  <2>4. Cat(g, e) \in Seq(TextLine)
    BY <1>2, <1>4, <2>3, CatType DEF TextLines
  <2>5. QED
    BY <1>10, <1>11, <1>18, <2>2, <2>4 DEF TextLines
<1>20. PICK AN : AN = A \o r.new
  OBVIOUS
<1>21. IsConcat(AN, A, r.new) /\ AN \in TextLines
  BY <1>2, <1>19, <1>20, ConcatProperties DEF IsConcat, TextLines
<1>22. SUFFICES \E x \in TextLines : IsConcat(Cat(g, n + 1), B, x) /\ IsConcat(Cat(f, n + 1), AN, x)
  BY <1>1, <1>5, <1>18, <1>20 DEF OneMore
<1>23. CASE s = e
  <2>1. PICK q, l : q = e + 1 /\ l = LineFrom(lines, Q, m, q)
    OBVIOUS
  <2>2. /\ q \in 1..(n + 1) /\ q > e /\ q - 1 = s /\ q \in Nat /\ n + 1 \in Nat /\ q <= n + 1
        /\ \A p \in (q + 1)..(n + 1) : p \in 1..(n + 1) /\ p > e /\ p - 1 # s
        /\ \A p \in 1..q : p \in 1..(n + 1)
    BY <1>2, <1>23, <2>1
  <2>3. f[q] = NewsFrom(Q, k, s) \o l /\ g[q] = N \o l
    BY <1>12, <1>14, <1>16, <2>1, <2>2
  <2>4. l \in TextLines
    <3>1. l = <<>> \/ (q <= n /\ l = <<lines[q]>>)
      BY <1>1, <2>1 DEF LineFrom
    <3>2. q <= n => lines[q] \in TextLine
      BY <1>1, <2>2 DEF TextLines
    <3>3. q <= n => <<lines[q]>> \in Seq(TextLine)
      BY <3>2
    <3>4. <<>> \in Seq(TextLine)
      OBVIOUS
    <3>5. l \in Seq(TextLine)
      BY <3>1, <3>3, <3>4
    <3>6. QED
      BY <3>5 DEF TextLines
  <2>5. PICK fq, gq : fq = f[q] /\ gq = g[q]
    OBVIOUS
  <2>6. fq \in TextLines /\ gq \in TextLines
    BY <1>4, <2>2, <2>5
  <2>7. IsConcat(fq, r.new, gq)
    <3>1. IsConcat(fq, NewsFrom(Q, k, s), l) /\ IsConcat(gq, N, l)
      BY <2>3, <2>5 DEF IsConcat
    <3>2. QED
      BY <1>2, <1>17, <2>4, <3>1, ConcatThree DEF TextLines
  <2>8. IsConcat(Cat(f, q), A, fq)
    <3>1. \A p \in 1..q : f[p] \in Seq(TextLine)
      BY <1>4, <2>2 DEF TextLines
    <3>2. IsConcat(Cat(f, q), Cat(f, e), f[q])
      BY <1>2, <2>1, <3>1, CatNext
    <3>3. QED
      BY <1>11, <1>18, <1>23, <2>5, <3>2
  <2>9. IsConcat(Cat(g, q), B, gq)
    <3>1. \A p \in 1..q : g[p] \in Seq(TextLine)
      BY <1>4, <2>2 DEF TextLines
    <3>2. IsConcat(Cat(g, q), Cat(g, e), g[q])
      BY <1>2, <2>1, <3>1, CatNext
    <3>3. QED
      BY <1>10, <1>18, <2>5, <3>2
  <2>10. IsConcat(Cat(f, q), AN, gq)
    BY <1>2, <1>19, <1>21, <2>6, <2>7, <2>8, ConcatThreeBack DEF TextLines
  <2>11. PICK x \in TextLines : EndAlike(f, g, q, n + 1, x)
    <3>1. \A p \in (q + 1)..(n + 1) : f[p] = g[p]
      BY <1>15, <2>2
    <3>2. QED
      BY <1>4, <2>2, <3>1, CatTail DEF TextLines
  <2>12. PICK y : y = gq \o x
    OBVIOUS
  <2>13. IsConcat(y, gq, x) /\ y \in TextLines
    BY <2>6, <2>11, <2>12, ConcatProperties DEF IsConcat, TextLines
  <2>14. IsConcat(Cat(g, n + 1), B, y)
    <3>1. IsConcat(Cat(g, n + 1), Cat(g, q), x)
      BY <2>11 DEF EndAlike
    <3>2. QED
      BY <1>19, <2>6, <2>9, <2>11, <2>13, <3>1, ConcatThree DEF TextLines
  <2>15. IsConcat(Cat(f, n + 1), AN, y)
    <3>1. IsConcat(Cat(f, n + 1), Cat(f, q), x)
      BY <2>11 DEF EndAlike
    <3>2. QED
      BY <1>21, <2>6, <2>10, <2>11, <2>13, <3>1, ConcatThree DEF TextLines
  <2>16. QED
    BY <2>13, <2>14, <2>15
<1>24. CASE s # e
  <2>1. PICK q : q = s + 1
    OBVIOUS
  <2>2. /\ q \in 1..(n + 1) /\ q - 1 = s /\ q \in Nat /\ n + 1 \in Nat /\ e <= n + 1 /\ q <= e
        /\ s \in Nat /\ e \in Nat
        /\ \A p \in (e + 1)..(n + 1) : p \in 1..(n + 1) /\ p > e /\ p - 1 # s
        /\ \A p \in 1..q : p \in 1..(n + 1)
        /\ \A p \in (q + 1)..e : p \in 1..(n + 1) /\ p - 1 # s /\ p - 1 < e /\ s < p /\ p <= e
    BY <1>2, <1>24, <2>1
  <2>3. \A p \in q..e : LineFrom(lines, Q, k, p) = <<>>
    <3>1. SUFFICES ASSUME NEW p \in q..e
                   PROVE  LineFrom(lines, Q, k, p) = <<>>
      OBVIOUS
    <3>2. p \in Nat /\ s < p /\ p <= e /\ k \in k..Len(Q)
      BY <1>2, <2>1, <2>2
    <3>3. p \in TakenFrom(Q, k)
      BY <1>1, <3>2 DEF TakenFrom
    <3>4. QED
      BY <3>3 DEF LineFrom
  <2>4. \A p \in q..e : NewsFrom(Q, m, p - 1) = <<>>
    <3>1. SUFFICES ASSUME NEW p \in q..e
                   PROVE  NewsFrom(Q, m, p - 1) = <<>>
      OBVIOUS
    <3>2. p - 1 < e /\ p - 1 \in Nat
      BY <1>2, <2>1, <2>2
    <3>3. \A i \in m..Len(Q) : Q[i].start # p - 1
      BY <1>2, <1>6, <3>2
    <3>4. m \in Nat
      BY <1>2
    <3>5. QED
      BY <3>3, <3>4, NoNews
  <2>5. f[q] = r.new
    <3>1. q \in q..e
      BY <2>2
    <3>2. N = <<>> /\ LineFrom(lines, Q, k, q) = <<>>
      BY <1>16, <2>2, <2>3, <2>4, <3>1
    <3>3. f[q] = NewsFrom(Q, k, s) \o LineFrom(lines, Q, k, q)
      BY <1>14, <2>2
    <3>4. NewsFrom(Q, k, s) = r.new \o <<>>
      BY <1>17, <3>2 DEF IsConcat
    <3>5. r.new \o <<>> = r.new
      BY <1>2, ConcatEmptySeq DEF TextLines
    <3>6. QED
      BY <3>2, <3>3, <3>4, <3>5
  <2>6. \A p \in (q + 1)..e : f[p] = <<>>
    <3>1. SUFFICES ASSUME NEW p \in (q + 1)..e
                   PROVE  f[p] = <<>>
      OBVIOUS
    <3>2. p \in q..e /\ p \in 1..(n + 1) /\ p - 1 # s
      BY <2>2
    <3>3. f[p] = NewsFrom(Q, k, p - 1) \o LineFrom(lines, Q, k, p)
      BY <1>14, <3>2
    <3>4. NewsFrom(Q, k, p - 1) = <<>> /\ LineFrom(lines, Q, k, p) = <<>>
      BY <1>13, <2>3, <2>4, <3>2
    <3>5. <<>> \o <<>> = <<>>
      <4>1. <<>> \in Seq({})
        OBVIOUS
      <4>2. QED
        BY <4>1, ConcatEmptySeq
    <3>6. QED
      BY <3>3, <3>4, <3>5
  <2>7. IsConcat(Cat(f, q), A, f[q])
    <3>1. \A p \in 1..q : f[p] \in Seq(TextLine)
      BY <1>4, <2>2 DEF TextLines
    <3>2. IsConcat(Cat(f, q), Cat(f, s), f[q])
      BY <2>1, <2>2, <3>1, CatNext
    <3>3. QED
      BY <1>11, <1>18, <3>2
  <2>8. Cat(f, e) = Cat(f, q)
    <3>1. \A p \in 1..q : f[p] \in Seq(TextLine)
      BY <1>4, <2>2 DEF TextLines
    <3>2. QED
      BY <2>2, <2>6, <3>1, CatEmpties
  <2>9. Cat(f, e) = AN
    BY <1>20, <2>5, <2>7, <2>8 DEF IsConcat
  <2>10. PICK x \in TextLines : EndAlike(f, g, e, n + 1, x)
    <3>1. \A p \in (e + 1)..(n + 1) : f[p] = g[p]
      BY <1>15, <2>2
    <3>2. QED
      BY <1>4, <2>2, <3>1, CatTail DEF TextLines
  <2>11. QED
    BY <1>10, <1>18, <2>9, <2>10 DEF EndAlike
<1>25. QED
  BY <1>23, <1>24

\* What a text made of two has up to a place of the first, and after the first.
IsSplit(out, b, x, s, a, c) ==
  /\ SubSeq(out, 1, s) = a
  /\ SubSeq(out, Len(b) + 1, Len(out)) = c

LEMMA SplitIs ==
  ASSUME NEW T, NEW b \in Seq(T), NEW x \in Seq(T), NEW out, IsConcat(out, b, x),
         NEW s \in 0..Len(b), NEW a, a = SubSeq(b, 1, s)
  PROVE  IsSplit(out, b, x, s, a, x)
<1>1. PICK n, m, u, v : n = Len(b) /\ m = Len(x) /\ u = n + 1 /\ v = n + m
  OBVIOUS
<1>0. PICK c : c = SubSeq(out, u, v)
  OBVIOUS
<1>2. n \in Nat /\ m \in Nat /\ s \in 0..n
  BY <1>1
<1>3. /\ out \in Seq(T) /\ Len(out) = n + m
      /\ \A i \in 1..(n + m) : out[i] = IF i <= n THEN b[i] ELSE x[i - n]
  BY <1>1, ConcatProperties DEF IsConcat
<1>4. PICK d : d = SubSeq(out, 1, s)
  OBVIOUS
<1>5. IsPiece(d, out, 1, s, T)
  <2>1. 1 \in 1..(Len(out) + 1) /\ s \in (1 - 1)..Len(out)
    BY <1>2, <1>3
  <2>2. QED
    BY <1>3, <1>4, <2>1, PieceIs
<1>6. IsPiece(a, b, 1, s, T)
  <2>1. 1 \in 1..(Len(b) + 1) /\ s \in (1 - 1)..Len(b)
    BY <1>1, <1>2
  <2>2. QED
    BY <2>1, PieceIs
<1>7. IsPiece(c, out, u, v, T)
  <2>1. u \in 1..(Len(out) + 1) /\ v \in (u - 1)..Len(out)
    BY <1>1, <1>2, <1>3
  <2>2. QED
    BY <1>0, <1>3, <2>1, PieceIs
<1>8. a = d
  <2>1. s - 1 + 1 = s /\ \A k \in 1..s : 1 + k - 1 = k /\ k \in 1..(n + m) /\ k <= n
    BY <1>2
  <2>2. /\ a \in Seq(T) /\ d \in Seq(T) /\ Len(a) = s /\ Len(d) = s
        /\ \A k \in 1..s : a[k] = d[k]
    BY <1>3, <1>5, <1>6, <2>1 DEF IsPiece
  <2>3. QED
    BY <2>2, SeqEqual
<1>9. c = x
  <2>1. /\ v - u + 1 = m
        /\ \A k \in 1..m : u + k - 1 = n + k
    BY <1>1, <1>2
  <2>2. c \in Seq(T) /\ Len(c) = m /\ \A k \in 1..m : c[k] = out[n + k]
    BY <1>7, <2>1 DEF IsPiece
  <2>3. \A k \in 1..m : out[n + k] = x[k]
    <3>1. SUFFICES ASSUME NEW k \in 1..m
                   PROVE  out[n + k] = x[k]
      OBVIOUS
    <3>2. PICK i : i = n + k
      OBVIOUS
    <3>3. i \in 1..(n + m) /\ ~(i <= n) /\ i - n = k
      BY <1>2, <3>2
    <3>4. out[i] = x[i - n]
      BY <1>3, <3>3
    <3>5. QED
      BY <3>2, <3>3, <3>4
  <2>4. \A k \in 1..m : c[k] = x[k]
    BY <2>2, <2>3
  <2>5. QED
    BY <1>1, <2>2, <2>4, SeqEqual
<1>10. QED
  BY <1>0, <1>1, <1>3, <1>4, <1>8, <1>9 DEF IsSplit

\* Regions in order and apart from each other, in a text of n lines.
Ordered(n, Q) ==
  /\ \A i \in 1..Len(Q) : EndOf(Q[i]) <= n
  /\ \A i \in 1..Len(Q) : \A j \in (i + 1)..Len(Q) : EndOf(Q[i]) <= Q[j].start

SplicedTo(lines, Q, k) == TextFrom(lines, Q, k) = Spliced(TextFrom(lines, Q, k + 1), Q[k])

LEMMA SplicedBack ==
  ASSUME NEW lines \in TextLines, NEW Q \in Seq(Regions), Ordered(Len(lines), Q), NEW k \in 1..Len(Q)
  PROVE  SplicedTo(lines, Q, k)
<1>1. PICK r : r = Q[k]
  OBVIOUS
<1>2. /\ r \in Regions /\ r.start \in Nat /\ r.len \in Nat /\ r.new \in TextLines /\ Len(lines) \in Nat
      /\ EndOf(r) \in Nat /\ EndOf(r) <= Len(lines) /\ r.start <= EndOf(r)
      /\ \A i \in (k + 1)..Len(Q) : EndOf(r) <= Q[i].start
  <2>1. r \in Regions /\ Len(lines) \in Nat
    BY <1>1 DEF TextLines
  <2>2. r.start \in Nat /\ r.len \in Nat /\ r.new \in TextLines
    BY <2>1 DEF Regions
  <2>3. EndOf(r) <= Len(lines) /\ \A i \in (k + 1)..Len(Q) : EndOf(r) <= Q[i].start
    BY <1>1 DEF Ordered
  <2>4. EndOf(r) \in Nat /\ r.start <= EndOf(r)
    BY <2>2 DEF EndOf
  <2>5. QED
    BY <2>1, <2>2, <2>3, <2>4
<1>3. PICK x \in TextLines : OneMore(lines, Q, k, r, x)
  BY <1>1, <1>2, StepBack
<1>4. PICK s, e, out, a, b : /\ s = r.start /\ e = EndOf(r) /\ out = TextFrom(lines, Q, k + 1)
                             /\ a = SubSeq(lines, 1, s) /\ b = SubSeq(lines, 1, e)
  OBVIOUS
<1>5. IsConcat(out, b, x)
  BY <1>3, <1>4 DEF OneMore
<1>6. b \in Seq(TextLine) /\ Len(b) = e /\ \A i \in 1..e : b[i] = lines[i]
  <2>1. 1 \in 1..(Len(lines) + 1) /\ e \in (1 - 1)..Len(lines)
    BY <1>2, <1>4
  <2>2. IsPiece(b, lines, 1, e, TextLine)
    BY <1>4, <2>1, PieceIs DEF TextLines
  <2>3. e - 1 + 1 = e /\ \A i \in 1..e : 1 + i - 1 = i
    BY <1>2, <1>4
  <2>4. QED
    BY <2>2, <2>3 DEF IsPiece
<1>7. a = SubSeq(b, 1, s)
  <2>1. PICK c : c = SubSeq(b, 1, s)
    OBVIOUS
  <2>2. IsPiece(a, lines, 1, s, TextLine)
    <3>1. 1 \in 1..(Len(lines) + 1) /\ s \in (1 - 1)..Len(lines)
      BY <1>2, <1>4
    <3>2. QED
      BY <1>4, <3>1, PieceIs DEF TextLines
  <2>3. IsPiece(c, b, 1, s, TextLine)
    <3>1. 1 \in 1..(Len(b) + 1) /\ s \in (1 - 1)..Len(b)
      BY <1>2, <1>4, <1>6
    <3>2. QED
      BY <1>6, <2>1, <3>1, PieceIs
  <2>4. s - 1 + 1 = s /\ \A i \in 1..s : 1 + i - 1 = i /\ i \in 1..e
    BY <1>2, <1>4
  <2>5. a \in Seq(TextLine) /\ c \in Seq(TextLine) /\ Len(a) = s /\ Len(c) = s
        /\ \A i \in 1..s : a[i] = c[i]
    BY <1>6, <2>2, <2>3, <2>4 DEF IsPiece
  <2>6. QED
    BY <2>1, <2>5, SeqEqual
<1>8. IsSplit(out, b, x, s, a, x)
  <2>1. s \in 0..Len(b)
    BY <1>2, <1>4, <1>6
  <2>2. QED
    BY <1>3, <1>5, <1>6, <1>7, <2>1, SplitIs DEF TextLines
<1>9. Spliced(out, r) = (a \o r.new) \o x
  <2>1. r.start + r.len + 1 = Len(b) + 1
    BY <1>4, <1>6 DEF EndOf
  <2>2. SubSeq(out, 1, r.start) = a /\ SubSeq(out, r.start + r.len + 1, Len(out)) = x
    BY <1>4, <1>8, <2>1 DEF IsSplit
  <2>3. QED
    BY <2>2, Zenon DEF Spliced
<1>10. TextFrom(lines, Q, k) = (a \o r.new) \o x
  BY <1>3, <1>4 DEF OneMore, IsConcat
<1>11. QED
  BY <1>1, <1>4, <1>9, <1>10 DEF SplicedTo

\* With no region the text is the file.
LEMMA NoRegion ==
  ASSUME NEW lines \in TextLines, NEW Q \in Seq(Regions), NEW k, k = Len(Q) + 1
  PROVE  TextFrom(lines, Q, k) = lines
<1>1. PICK n, f : n = Len(lines) /\ f = PartsFrom(lines, Q, k)
  OBVIOUS
<1>2. n \in Nat /\ n \in 0..Len(lines) /\ n + 1 \in Nat /\ n <= n + 1 /\ k \in Nat \ {0} /\ Len(Q) \in Nat
      /\ n + 1 \in 1..(Len(lines) + 1) /\ ~(n + 1 <= Len(lines))
  BY <1>1 DEF TextLines
<1>3. \A i : i \notin k..Len(Q)
  BY <1>2
<1>4. \A p \in 1..n : f[p] = <<lines[p]>>
  BY <1>1, <1>2, <1>3, LinesBefore
<1>5. f[n + 1] = <<>>
  <2>1. k \in Nat /\ \A i \in k..Len(Q) : Q[i].start # n + 1 - 1
    BY <1>2, <1>3
  <2>2. NewsFrom(Q, k, n + 1 - 1) = <<>>
    BY <2>1, NoNews
  <2>3. LineFrom(lines, Q, k, n + 1) = <<>>
    BY <1>2 DEF LineFrom
  <2>4. f[n + 1] = NewsFrom(Q, k, n + 1 - 1) \o LineFrom(lines, Q, k, n + 1)
    BY <1>1, <1>2 DEF PartsFrom
  <2>5. <<>> \o <<>> = <<>>
    <3>1. <<>> \in Seq({})
      OBVIOUS
    <3>2. QED
      BY <3>1, ConcatEmptySeq
  <2>6. QED
    BY <2>2, <2>3, <2>4, <2>5
<1>6. \A p \in 1..n : f[p] \in Seq(TextLine)
  <2>1. \A p \in 1..n : lines[p] \in TextLine
    BY <1>1 DEF TextLines
  <2>2. \A p \in 1..n : <<lines[p]>> \in Seq(TextLine)
    BY <2>1
  <2>3. QED
    BY <1>4, <2>2
<1>7. Cat(f, n + 1) = Cat(f, n)
  <2>1. \A p \in (n + 1)..(n + 1) : f[p] = <<>>
    <3>1. \A p \in (n + 1)..(n + 1) : p = n + 1
      BY <1>2
    <3>2. QED
      BY <1>5, <3>1
  <2>2. QED
    BY <1>2, <1>6, <2>1, CatEmpties
<1>8. Cat(f, n) = SubSeq(lines, 1, n)
  <2>1. lines \in Seq(TextLine)
    BY DEF TextLines
  <2>2. QED
    BY <1>2, <1>4, <2>1, CatLines, Zenon
<1>9. SubSeq(lines, 1, n) = lines
  BY <1>1, SubSeqFull DEF TextLines
<1>10. QED
  BY <1>1, <1>7, <1>8, <1>9 DEF TextFrom

\* applyReplacements, from the last region backwards.
SplicesStep(f, lines, Q, k) == IF k = Len(Q) + 1 THEN lines ELSE Spliced(f[k + 1], Q[k])
Splices(f, lines, Q) == f = [k \in 1..(Len(Q) + 1) |-> SplicesStep(f, lines, Q, k)]

LEMMA SplicesAt ==
  ASSUME NEW f, NEW lines, NEW Q, Splices(f, lines, Q), NEW k \in 1..(Len(Q) + 1)
  PROVE  f[k] = SplicesStep(f, lines, Q, k)
BY DEF Splices

LEMMA ReplacementsAreSplices ==
  ASSUME NEW lines, NEW Q, \E f : Splices(f, lines, Q)
  PROVE  \E f : Splices(f, lines, Q) /\ ApplyReplacements(lines, Q) = f[1]
<1> DEFINE f == CHOOSE f : Splices(f, lines, Q)
<1>1. Splices(f, lines, Q)
  OBVIOUS
<1>2. ApplyReplacements(lines, Q) = f[1]
  BY DEF ApplyReplacements, Splices, SplicesStep
<1>3. QED
  BY <1>1, <1>2

LEMMA ReplacementsAreText ==
  ASSUME NEW lines \in TextLines, NEW Q \in Seq(Regions), Ordered(Len(lines), Q)
  PROVE  ApplyReplacements(lines, Q) = TextFrom(lines, Q, 1)
<1>1. PICK n : n = Len(Q)
  OBVIOUS
<1>2. n \in Nat
  BY <1>1
<1> DEFINE g == [k \in 1..(Len(Q) + 1) |-> TextFrom(lines, Q, k)]
<1>3. \A k \in 1..n : TextFrom(lines, Q, k) = Spliced(TextFrom(lines, Q, k + 1), Q[k])
  BY <1>1, SplicedBack DEF SplicedTo
<1>4. TextFrom(lines, Q, n + 1) = lines
  BY <1>1, NoRegion
<1>5. Splices(g, lines, Q)
  <2>1. \A k \in 1..(Len(Q) + 1) : TextFrom(lines, Q, k) = SplicesStep(g, lines, Q, k)
    <3>1. SUFFICES ASSUME NEW k \in 1..(Len(Q) + 1)
                   PROVE  TextFrom(lines, Q, k) = SplicesStep(g, lines, Q, k)
      OBVIOUS
    <3>2. CASE k = Len(Q) + 1
      BY <1>1, <1>4, <3>2 DEF SplicesStep
    <3>3. CASE k # Len(Q) + 1
      <4>1. k \in 1..n /\ k + 1 \in 1..(Len(Q) + 1)
        BY <1>1, <1>2, <3>3
      <4>2. g[k + 1] = TextFrom(lines, Q, k + 1)
        BY <4>1
      <4> HIDE DEF g
      <4>3. TextFrom(lines, Q, k) = Spliced(g[k + 1], Q[k])
        BY <1>3, <4>1, <4>2
      <4>4. QED
        BY <3>3, <4>3 DEF SplicesStep
    <3>4. QED
      BY <3>2, <3>3
  <2>2. QED
    BY <2>1 DEF Splices
<1>6. PICK f : Splices(f, lines, Q) /\ ApplyReplacements(lines, Q) = f[1]
  <2> HIDE DEF g
  <2>1. QED
    BY <1>5, ReplacementsAreSplices
<1> DEFINE S == {d \in Nat : d <= n => f[n + 1 - d] = TextFrom(lines, Q, n + 1 - d)}
<1>7. 0 \in S
  <2>1. n + 1 - 0 = n + 1 /\ n + 1 \in 1..(Len(Q) + 1)
    BY <1>1, <1>2
  <2>2. f[n + 1] = lines
    <3>1. f[n + 1] = SplicesStep(f, lines, Q, n + 1)
      BY <1>6, <2>1, SplicesAt
    <3>2. QED
      BY <1>1, <3>1 DEF SplicesStep
  <2>3. QED
    BY <1>4, <2>1, <2>2
<1>8. ASSUME NEW d \in Nat, d \in S
      PROVE  d + 1 \in S
  <2> SUFFICES ASSUME d + 1 <= n
               PROVE  f[n + 1 - (d + 1)] = TextFrom(lines, Q, n + 1 - (d + 1))
    OBVIOUS
  <2>1. PICK k : k = n + 1 - (d + 1)
    OBVIOUS
  <2>2. k \in 1..n /\ k \in 1..(Len(Q) + 1) /\ k # Len(Q) + 1 /\ k + 1 = n + 1 - d /\ d <= n
    BY <1>1, <1>2, <2>1
  <2>3. f[n + 1 - d] = TextFrom(lines, Q, n + 1 - d)
    BY <1>8, <2>2
  <2>4. f[k + 1] = TextFrom(lines, Q, k + 1)
    BY <2>2, <2>3
  <2>5. f[k] = SplicesStep(f, lines, Q, k)
    BY <1>6, <2>2, SplicesAt
  <2>6. f[k] = Spliced(f[k + 1], Q[k])
    BY <2>2, <2>5 DEF SplicesStep
  <2>7. f[k] = TextFrom(lines, Q, k)
    BY <1>3, <2>2, <2>4, <2>6
  <2>8. QED
    BY <2>1, <2>7
<1>9. Nat \subseteq S
  <2> HIDE DEF S
  <2>1. QED
    BY <1>7, <1>8, SetInduction
<1>10. n \in S /\ n + 1 - n = 1
  BY <1>2, <1>9
<1>11. f[1] = TextFrom(lines, Q, 1)
  BY <1>2, <1>10
<1>12. QED
  BY <1>6, <1>11

-----------------------------------------------------------------------------
(* PatchText: the sort.                                                    *)

\* t is s with r put in at place m.
IsInserted(t, s, m, r) ==
  /\ Len(t) = Len(s) + 1
  /\ \A i \in 1..(m - 1) : t[i] = s[i]
  /\ t[m] = r
  /\ \A i \in m..Len(s) : t[i + 1] = s[i]

LEMMA InsertAtInserts ==
  ASSUME NEW T, NEW s \in Seq(T), NEW r \in T, NEW m \in 1..(Len(s) + 1)
  PROVE  InsertAt(s, m, r) \in Seq(T) /\ IsInserted(InsertAt(s, m, r), s, m, r)
<1>1. PICK n, a, b, l : n = Len(s) /\ l = m - 1 /\ a = SubSeq(s, 1, l) /\ b = SubSeq(s, m, n)
  OBVIOUS
<1>2. n \in Nat /\ l \in 0..n /\ m = l + 1 /\ m \in 1..(n + 1)
  BY <1>1
<1>3. a \in Seq(T) /\ Len(a) = l /\ \A i \in 1..l : a[i] = s[i]
  <2>1. 1 \in 1..(Len(s) + 1) /\ l \in (1 - 1)..Len(s)
    BY <1>1, <1>2
  <2>2. IsPiece(a, s, 1, l, T)
    BY <1>1, <2>1, PieceIs
  <2>3. l - 1 + 1 = l /\ \A i \in 1..l : 1 + i - 1 = i
    BY <1>2
  <2>4. QED
    BY <2>2, <2>3 DEF IsPiece
<1>4. b \in Seq(T) /\ Len(b) = n - l /\ \A i \in 1..(n - l) : b[i] = s[l + i]
  <2>1. n \in (m - 1)..Len(s)
    BY <1>1, <1>2
  <2>2. IsPiece(b, s, m, n, T)
    BY <1>1, <2>1, PieceIs
  <2>3. n - m + 1 = n - l /\ \A i \in 1..(n - l) : m + i - 1 = l + i
    BY <1>2
  <2>4. QED
    BY <2>2, <2>3 DEF IsPiece
<1>5. PICK ar : ar = a \o <<r>>
  OBVIOUS
<1>6. ar \in Seq(T) /\ Len(ar) = m /\ (\A i \in 1..l : ar[i] = s[i]) /\ ar[m] = r
  <2>1. <<r>> \in Seq(T) /\ Len(<<r>>) = 1 /\ <<r>>[1] = r
    OBVIOUS
  <2>2. /\ ar \in Seq(T) /\ Len(ar) = l + 1
        /\ \A i \in 1..(l + 1) : ar[i] = IF i <= l THEN a[i] ELSE <<r>>[i - l]
    BY <1>3, <1>5, <2>1, ConcatProperties
  <2>3. \A i \in 1..l : i \in 1..(l + 1) /\ i <= l
    BY <1>2
  <2>4. m \in 1..(l + 1) /\ ~(m <= l) /\ m - l = 1
    BY <1>2
  <2>5. QED
    BY <1>2, <1>3, <2>1, <2>2, <2>3, <2>4
<1>7. PICK t : t = ar \o b
  OBVIOUS
<1>8. /\ t \in Seq(T) /\ Len(t) = n + 1
      /\ \A i \in 1..(n + 1) : t[i] = IF i <= m THEN ar[i] ELSE b[i - m]
  <2>1. m + (n - l) = n + 1
    BY <1>2
  <2>2. /\ t \in Seq(T) /\ Len(t) = Len(ar) + Len(b)
        /\ \A i \in 1..(Len(ar) + Len(b)) : t[i] = IF i <= Len(ar) THEN ar[i] ELSE b[i - Len(ar)]
    BY <1>4, <1>6, <1>7, ConcatProperties
  <2>3. QED
    BY <1>4, <1>6, <2>1, <2>2
<1>9. \A i \in 1..l : t[i] = s[i]
  <2>1. \A i \in 1..l : i \in 1..(n + 1) /\ i <= m
    BY <1>2
  <2>2. QED
    BY <1>6, <1>8, <2>1
<1>10. t[m] = r
  <2>1. m \in 1..(n + 1) /\ m <= m
    BY <1>2
  <2>2. QED
    BY <1>6, <1>8, <2>1
<1>11. \A i \in m..n : t[i + 1] = s[i]
  <2>1. SUFFICES ASSUME NEW i \in m..n
                 PROVE  t[i + 1] = s[i]
    OBVIOUS
  <2>2. PICK j, k : j = i + 1 /\ k = j - m
    OBVIOUS
  <2>3. j \in 1..(n + 1) /\ ~(j <= m) /\ k \in 1..(n - l) /\ l + k = i
    BY <1>2, <2>2
  <2>4. t[j] = b[k]
    BY <1>8, <2>2, <2>3
  <2>5. b[k] = s[i]
    BY <1>4, <2>3
  <2>6. QED
    BY <2>2, <2>4, <2>5
<1>12. InsertAt(s, m, r) = t
  BY <1>1, <1>5, <1>7 DEF InsertAt
<1>13. QED
  BY <1>1, <1>8, <1>9, <1>10, <1>11, <1>12 DEF IsInserted

\* What a region puts in at a place comes after what the others before it do.
NewsOf(r, p) == IF r.start = p THEN r.new ELSE <<>>

LEMMA InsertedNews ==
  ASSUME NEW s \in Seq(Regions), NEW r \in Regions, NEW m \in 1..(Len(s) + 1),
         NEW t \in Seq(Regions), IsInserted(t, s, m, r),
         \A i \in m..Len(s) : s[i].start > r.start, NEW p
  PROVE  IsConcat(NewsFrom(t, 1, p), NewsFrom(s, 1, p), NewsOf(r, p))
<1>1. PICK n, l, f, g : n = Len(s) /\ l = m - 1 /\ f = NewsPart(s, 1, p) /\ g = NewsPart(t, 1, p)
  OBVIOUS
<1>2. /\ n \in Nat /\ l \in 0..n /\ m = l + 1 /\ m \in 1..(n + 1) /\ m \in Nat /\ l \in Nat
      /\ n + 1 \in Nat /\ Len(t) = n + 1
  BY <1>1 DEF IsInserted
<1>3. /\ \A i \in 1..n : f[i] \in TextLines
      /\ \A i \in 1..(n + 1) : g[i] \in TextLines
  <2>1. 1 \in Nat
    OBVIOUS
  <2>2. QED
    BY <1>1, <1>2, <2>1, NewsPartType
<1>4. /\ \A i \in 1..n : f[i] = NewsOf(s[i], p)
      /\ \A i \in 1..(n + 1) : g[i] = NewsOf(t[i], p)
  <2>1. \A i \in 1..n : f[i] = NewsOf(s[i], p)
    BY <1>1 DEF NewsPart, NewsOf
  <2>2. \A i \in 1..(n + 1) : g[i] = NewsOf(t[i], p)
    BY <1>1, <1>2 DEF NewsPart, NewsOf
  <2>3. QED
    BY <2>1, <2>2
<1>5. \A i \in 1..l : g[i] = f[i]
  <2>1. \A i \in 1..l : i \in 1..n /\ i \in 1..(n + 1) /\ t[i] = s[i]
    BY <1>1, <1>2 DEF IsInserted
  <2>2. QED
    BY <1>4, <2>1
<1>6. g[m] = NewsOf(r, p)
  BY <1>2, <1>4 DEF IsInserted
<1>7. \A i \in m..n : g[i + 1] = f[i]
  <2>1. \A i \in m..n : i \in 1..n /\ i + 1 \in 1..(n + 1) /\ t[i + 1] = s[i]
    BY <1>1, <1>2 DEF IsInserted
  <2>2. QED
    BY <1>4, <2>1
<1>8. Cat(g, l) = Cat(f, l)
  BY <1>2, <1>5, CatSame
<1>9. NewsFrom(s, 1, p) = Cat(f, n) /\ NewsFrom(t, 1, p) = Cat(g, n + 1)
  BY <1>1, <1>2 DEF NewsFrom
<1>10. \A i \in 1..l : i \in 1..n /\ i \in 1..(n + 1)
  BY <1>2
<1>11. CASE r.start # p
  <2>1. Cat(g, m) = Cat(g, l)
    <3>1. \A i \in (l + 1)..m : g[i] = <<>>
      <4>1. \A i \in (l + 1)..m : i = m
        BY <1>2
      <4>2. QED
        BY <1>6, <1>11, <4>1 DEF NewsOf
    <3>2. \A i \in 1..l : g[i] \in Seq(TextLine)
      BY <1>3, <1>10 DEF TextLines
    <3>3. l <= m
      BY <1>2
    <3>4. QED
      BY <1>2, <3>1, <3>2, <3>3, CatEmpties
  <2>2. Cat(g, m) = Cat(f, l)
    BY <1>8, <2>1
  <2>3. Cat(g, n + 1) = Cat(f, n)
    <3>1. IsShift(TextLine, f, g, n, m)
      BY <1>1, <1>2, <1>3, <1>7, <2>2 DEF IsShift, TextLines
    <3>2. QED
      BY <1>2, <3>1, CatShift
  <2>4. Cat(f, n) \in Seq(TextLine)
    BY <1>2, <1>3, CatType DEF TextLines
  <2>5. Cat(f, n) \o <<>> = Cat(f, n)
    BY <2>4, ConcatEmptySeq
  <2>6. NewsOf(r, p) = <<>>
    BY <1>11 DEF NewsOf
  <2>7. QED
    BY <1>9, <2>3, <2>5, <2>6 DEF IsConcat
<1>12. CASE r.start = p
  <2>1. \A i \in m..n : f[i] = <<>>
    <3>1. \A i \in m..n : i \in 1..n /\ s[i].start > p
      BY <1>1, <1>2, <1>12
    <3>2. p \in Nat /\ \A i \in 1..n : s[i].start \in Nat
      <4>1. \A i \in 1..n : s[i] \in Regions
        BY <1>1
      <4>2. QED
        BY <1>12, <4>1 DEF Regions
    <3>3. \A i \in m..n : s[i].start # p
      <4>1. SUFFICES ASSUME NEW i \in m..n PROVE s[i].start # p
        OBVIOUS
      <4>2. PICK b : b = s[i].start
        OBVIOUS
      <4>3. b > p /\ b \in Nat
        BY <3>1, <3>2, <4>2
      <4>4. QED
        BY <3>2, <4>2, <4>3
    <3>4. QED
      BY <1>4, <3>1, <3>3 DEF NewsOf
  <2>2. Cat(f, n) = Cat(f, l)
    <3>1. \A i \in (l + 1)..n : f[i] = <<>>
      BY <1>2, <2>1
    <3>2. \A i \in 1..l : f[i] \in Seq(TextLine)
      BY <1>3, <1>10 DEF TextLines
    <3>3. l <= n
      BY <1>2
    <3>4. QED
      BY <1>2, <3>1, <3>2, <3>3, CatEmpties
  <2>3. Cat(g, n + 1) = Cat(g, m)
    <3>1. \A i \in (m + 1)..(n + 1) : g[i] = <<>>
      <4>1. SUFFICES ASSUME NEW i \in (m + 1)..(n + 1)
                     PROVE  g[i] = <<>>
        OBVIOUS
      <4>2. PICK j : j = i - 1
        OBVIOUS
      <4>3. j \in m..n /\ j + 1 = i
        BY <1>2, <4>2
      <4>4. g[j + 1] = f[j] /\ f[j] = <<>>
        BY <1>7, <2>1, <4>3
      <4>5. QED
        BY <4>3, <4>4
    <3>2. \A i \in 1..m : g[i] \in Seq(TextLine)
      <4>1. \A i \in 1..m : i \in 1..(n + 1)
        BY <1>2
      <4>2. QED
        BY <1>3, <4>1 DEF TextLines
    <3>3. m <= n + 1
      BY <1>2
    <3>4. QED
      BY <1>2, <3>1, <3>2, <3>3, CatEmpties
  <2>4. IsConcat(Cat(g, m), Cat(g, l), g[m])
    <3>1. \A i \in 1..m : g[i] \in Seq(TextLine)
      <4>1. \A i \in 1..m : i \in 1..(n + 1)
        BY <1>2
      <4>2. QED
        BY <1>3, <4>1 DEF TextLines
    <3>2. QED
      BY <1>2, <3>1, CatNext
  <2>5. QED
    BY <1>6, <1>8, <1>9, <2>2, <2>3, <2>4
<1>13. QED
  BY <1>11, <1>12

\* The regions as the chunks give them: whichever of two starts first ends before the
\* other starts, and of two that start together the earlier one takes no line.
Apart(R) ==
  \A i \in 1..Len(R) : \A j \in (i + 1)..Len(R) :
    /\ R[i].start <= R[j].start => EndOf(R[i]) <= R[j].start
    /\ R[j].start < R[i].start => EndOf(R[j]) <= R[i].start

InOrder(s) == \A a \in 1..Len(s) : \A b \in (a + 1)..Len(s) : EndOf(s[a]) <= s[b].start

\* The sort after k regions.
Sorted(R, k, s) ==
  /\ s \in Seq(Regions) /\ Len(s) = k
  /\ \A a \in 1..k : \E i \in 1..k : s[a] = R[i]
  /\ \A i \in 1..k : \E a \in 1..k : s[a] = R[i]
  /\ InOrder(s)
  /\ \A p : NewsFrom(s, 1, p) = Cat(NewsPart(R, 1, p), k)

\* Where a region goes.
PlaceFor(s, r) == Min({k \in DOMAIN s : s[k].start > r.start} \cup {Len(s) + 1})

LEMMA PlaceIs ==
  ASSUME NEW s \in Seq(Regions), NEW r \in Regions, InOrder(s), NEW m, m = PlaceFor(s, r)
  PROVE  /\ m \in 1..(Len(s) + 1)
         /\ \A i \in 1..(m - 1) : s[i].start <= r.start
         /\ \A i \in m..Len(s) : s[i].start > r.start
<1>1. PICK n, P : n = Len(s) /\ P = {k \in DOMAIN s : s[k].start > r.start} \cup {n + 1}
  OBVIOUS
<1>2. n \in Nat /\ DOMAIN s = 1..n /\ P \subseteq 1..(n + 1) /\ n + 1 \in P
  BY <1>1
<1>3. m \in P /\ \A k \in P : m <= k
  <2>1. P # {} /\ P \subseteq Nat
    BY <1>2
  <2>2. Min(P) \in P /\ \A k \in P : Min(P) <= k
    BY <2>1, LeastPlace
  <2>3. m = Min(P)
    BY <1>1 DEF PlaceFor
  <2>4. QED
    BY <2>2, <2>3
<1>4. m \in 1..(n + 1)
  BY <1>2, <1>3
<1>5. r.start \in Nat /\ \A i \in 1..n : s[i] \in Regions /\ s[i].start \in Nat /\ s[i].len \in Nat
  <2>1. \A i \in 1..n : s[i] \in Regions
    BY <1>1
  <2>2. QED
    BY <2>1 DEF Regions
<1>6. ASSUME NEW i \in 1..(m - 1)
      PROVE  s[i].start <= r.start
  <2>1. i \in 1..n /\ ~(m <= i)
    BY <1>2, <1>4
  <2>2. i \notin P
    BY <1>3, <2>1
  <2>3. ~(s[i].start > r.start)
    BY <1>1, <1>2, <2>1, <2>2
  <2>4. PICK x, y : x = s[i].start /\ y = r.start
    OBVIOUS
  <2>5. x \in Nat /\ y \in Nat /\ ~(x > y)
    BY <1>5, <2>1, <2>3, <2>4
  <2>6. QED
    BY <2>4, <2>5
<1>7. ASSUME NEW i \in m..n
      PROVE  s[i].start > r.start
  <2>1. i \in 1..n /\ m \in 1..n /\ m # n + 1 /\ (i = m \/ i \in (m + 1)..n)
    BY <1>2, <1>4
  <2>2. s[m].start > r.start
    BY <1>1, <1>3, <2>1
  <2>3. CASE i \in (m + 1)..n
    <3>1. EndOf(s[m]) <= s[i].start
      BY <1>1, <2>1, <2>3 DEF InOrder
    <3>2. PICK x, l, y, z : x = s[m].start /\ l = s[m].len /\ y = s[i].start /\ z = r.start
      OBVIOUS
    <3>3. x \in Nat /\ l \in Nat /\ y \in Nat /\ z \in Nat /\ x + l <= y /\ x > z
      BY <1>5, <2>1, <2>2, <3>1, <3>2 DEF EndOf
    <3>4. y > z
      BY <3>3
    <3>5. QED
      BY <3>2, <3>4
  <2>4. QED
    BY <2>1, <2>2, <2>3
<1>8. QED
  BY <1>1, <1>4, <1>6, <1>7

LEMMA SortedNone ==
  ASSUME NEW R
  PROVE  Sorted(R, 0, <<>>)
<1>1. <<>> \in Seq(Regions) /\ Len(<<>>) = 0
  OBVIOUS
<1>2. InOrder(<<>>)
  BY DEF InOrder
<1>3. \A p : NewsFrom(<<>>, 1, p) = Cat(NewsPart(R, 1, p), 0)
  <2>1. \A p : Cat(NewsPart(<<>>, 1, p), 0) = <<>>
    BY CatNothing
  <2>2. \A p : Cat(NewsPart(R, 1, p), 0) = <<>>
    BY CatNothing
  <2>3. QED
    BY <1>1, <2>1, <2>2 DEF NewsFrom
<1>4. QED
  BY <1>1, <1>2, <1>3 DEF Sorted

LEMMA SortedOneMore ==
  ASSUME NEW R \in Seq(Regions), Apart(R), NEW k \in Nat, NEW l, l = k + 1, l <= Len(R),
         NEW s, Sorted(R, k, s)
  PROVE  Sorted(R, l, Inserted(s, R[l]))
<1>1. PICK r, m, t : r = R[l] /\ m = PlaceFor(s, r) /\ t = InsertAt(s, m, r)
  OBVIOUS
<1>2. /\ Len(R) \in Nat /\ l \in 1..Len(R) /\ r \in Regions /\ s \in Seq(Regions) /\ Len(s) = k
      /\ InOrder(s)
  <2>1. Len(R) \in Nat /\ l \in 1..Len(R)
    OBVIOUS
  <2>2. R[l] \in Regions
    BY <2>1
  <2>3. QED
    BY <1>1, <2>1, <2>2 DEF Sorted
<1>3. /\ m \in 1..(k + 1)
      /\ \A i \in 1..(m - 1) : s[i].start <= r.start
      /\ \A i \in m..k : s[i].start > r.start
  BY <1>1, <1>2, PlaceIs
<1>4. t \in Seq(Regions) /\ IsInserted(t, s, m, r)
  BY <1>1, <1>2, <1>3, InsertAtInserts
<1>5. /\ Len(t) = l
      /\ \A i \in 1..(m - 1) : t[i] = s[i]
      /\ t[m] = r
      /\ \A i \in m..k : t[i + 1] = s[i]
  BY <1>2, <1>4 DEF IsInserted
<1>6. Inserted(s, R[l]) = t
  BY <1>1 DEF Inserted, PlaceFor
<1>7. \A a \in 1..l : a = m \/ (a \in 1..(m - 1) /\ a \in 1..k) \/ (a - 1 \in m..k /\ a - 1 \in 1..k /\ a - 1 + 1 = a)
  BY <1>3
<1>8. \A a \in 1..l : \E i \in 1..l : t[a] = R[i]
  <2>1. SUFFICES ASSUME NEW a \in 1..l
                 PROVE  \E i \in 1..l : t[a] = R[i]
    OBVIOUS
  <2>2. \A b \in 1..k : \E i \in 1..l : s[b] = R[i]
    <3>1. \A i \in 1..k : i \in 1..l
      OBVIOUS
    <3>2. QED
      BY <3>1 DEF Sorted
  <2>3. CASE a = m
    <3>1. l \in 1..l /\ t[a] = R[l]
      BY <1>1, <1>5, <2>3
    <3>2. QED
      BY <3>1
  <2>4. CASE a \in 1..(m - 1) /\ a \in 1..k
    <3>1. t[a] = s[a]
      BY <1>5, <2>4
    <3>2. QED
      BY <2>2, <2>4, <3>1
  <2>5. CASE a - 1 \in m..k /\ a - 1 \in 1..k /\ a - 1 + 1 = a
    <3>1. PICK b : b = a - 1
      OBVIOUS
    <3>2. t[b + 1] = s[b] /\ b \in 1..k /\ b + 1 = a
      BY <1>5, <2>5, <3>1
    <3>3. t[a] = s[b]
      BY <3>2
    <3>4. QED
      BY <2>2, <3>2, <3>3
  <2>6. QED
    BY <1>7, <2>3, <2>4, <2>5
<1>9. \A i \in 1..l : \E a \in 1..l : t[a] = R[i]
  <2>1. SUFFICES ASSUME NEW i \in 1..l
                 PROVE  \E a \in 1..l : t[a] = R[i]
    OBVIOUS
  <2>2. CASE i = l
    <3>1. m \in 1..l /\ t[m] = R[i]
      BY <1>1, <1>3, <1>5, <2>2
    <3>2. QED
      BY <3>1
  <2>3. CASE i # l
    <3>1. i \in 1..k
      BY <2>3
    <3>2. PICK b \in 1..k : s[b] = R[i]
      BY <3>1 DEF Sorted
    <3>3. CASE b \in 1..(m - 1)
      <4>1. t[b] = s[b] /\ b \in 1..l
        BY <1>5, <3>3
      <4>2. QED
        BY <3>2, <4>1
    <3>4. CASE b \in m..k
      <4>1. PICK a : a = b + 1
        OBVIOUS
      <4>2. t[a] = s[b] /\ a \in 1..l
        BY <1>5, <3>4, <4>1
      <4>3. QED
        BY <3>2, <4>2
    <3>5. b \in 1..(m - 1) \/ b \in m..k
      BY <1>3
    <3>6. QED
      BY <3>3, <3>4, <3>5
  <2>4. QED
    BY <2>2, <2>3
<1>10. \A b \in 1..k : /\ s[b].start <= r.start => EndOf(s[b]) <= r.start
                       /\ s[b].start > r.start => EndOf(r) <= s[b].start
  <2>1. SUFFICES ASSUME NEW b \in 1..k
                 PROVE  /\ s[b].start <= r.start => EndOf(s[b]) <= r.start
                        /\ s[b].start > r.start => EndOf(r) <= s[b].start
    OBVIOUS
  <2>2. PICK i \in 1..k : s[b] = R[i]
    BY DEF Sorted
  <2>3. i \in 1..Len(R) /\ l \in (i + 1)..Len(R)
    BY <1>2
  <2>4. /\ R[i].start <= R[l].start => EndOf(R[i]) <= R[l].start
        /\ R[l].start < R[i].start => EndOf(R[l]) <= R[i].start
    BY <2>3 DEF Apart
  <2>5. r.start \in Nat /\ s[b].start \in Nat
    <3>1. s[b] \in Regions
      BY <1>2
    <3>2. QED
      BY <1>2, <3>1 DEF Regions
  <2>6. PICK x, y : x = s[b].start /\ y = r.start
    OBVIOUS
  <2>7. x > y <=> y < x
    BY <2>5, <2>6
  <2>8. QED
    BY <1>1, <2>2, <2>4, <2>6, <2>7
<1>11. InOrder(t)
  <2>1. SUFFICES ASSUME NEW a \in 1..l, NEW b \in (a + 1)..l
                 PROVE  EndOf(t[a]) <= t[b].start
    BY <1>5 DEF InOrder
  <2>2. \A x \in 1..k : \A y \in (x + 1)..k : EndOf(s[x]) <= s[y].start
    BY <1>2 DEF InOrder
  <2>3. PICK c, d : c = a - 1 /\ d = b - 1
    OBVIOUS
  <2>4. CASE b < m
    <3>1. a \in 1..(m - 1) /\ b \in 1..(m - 1) /\ a \in 1..k /\ b \in (a + 1)..k
      BY <1>3, <2>4
    <3>2. QED
      BY <1>5, <2>2, <3>1
  <2>5. CASE b = m
    <3>1. a \in 1..(m - 1) /\ a \in 1..k
      BY <1>3, <2>5
    <3>2. EndOf(s[a]) <= r.start
      BY <1>3, <1>10, <3>1
    <3>3. QED
      BY <1>5, <2>5, <3>1, <3>2
  <2>6. CASE b > m /\ a < m
    <3>1. a \in 1..(m - 1) /\ a \in 1..k /\ d \in (a + 1)..k /\ d \in m..k /\ d + 1 = b
      BY <1>3, <2>3, <2>6
    <3>2. t[a] = s[a] /\ t[b] = s[d]
      BY <1>5, <3>1
    <3>3. QED
      BY <2>2, <3>1, <3>2
  <2>7. CASE b > m /\ a = m
    <3>1. d \in 1..k /\ d \in m..k /\ d + 1 = b
      BY <1>3, <2>3, <2>7
    <3>2. t[a] = r /\ t[b] = s[d]
      BY <1>5, <2>7, <3>1
    <3>3. EndOf(r) <= s[d].start
      BY <1>3, <1>10, <3>1
    <3>4. QED
      BY <3>2, <3>3
  <2>8. CASE b > m /\ a > m
    <3>1. c \in 1..k /\ c \in m..k /\ c + 1 = a /\ d \in (c + 1)..k /\ d \in m..k /\ d + 1 = b
      BY <1>3, <2>3, <2>8
    <3>2. t[a] = s[c] /\ t[b] = s[d]
      BY <1>5, <3>1
    <3>3. QED
      BY <2>2, <3>1, <3>2
  <2>9. b < m \/ b = m \/ (b > m /\ a < m) \/ (b > m /\ a = m) \/ (b > m /\ a > m)
    BY <1>3
  <2>10. QED
    BY <2>4, <2>5, <2>6, <2>7, <2>8, <2>9
<1>12. ASSUME NEW p
       PROVE  NewsFrom(t, 1, p) = Cat(NewsPart(R, 1, p), l)
  <2>1. IsConcat(NewsFrom(t, 1, p), NewsFrom(s, 1, p), NewsOf(r, p))
    <3>1. m \in 1..(Len(s) + 1) /\ \A i \in m..Len(s) : s[i].start > r.start
      BY <1>2, <1>3
    <3>2. QED
      BY <1>2, <1>4, <3>1, InsertedNews
  <2>2. NewsFrom(s, 1, p) = Cat(NewsPart(R, 1, p), k)
    BY DEF Sorted
  <2>3. PICK f : f = NewsPart(R, 1, p)
    OBVIOUS
  <2>4. f[l] = NewsOf(r, p)
    <3>1. l >= 1
      BY <1>2
    <3>2. QED
      BY <1>1, <1>2, <2>3, <3>1 DEF NewsPart, NewsOf
  <2>5. IsConcat(Cat(f, l), Cat(f, k), f[l])
    <3>1. 1 \in Nat
      OBVIOUS
    <3>2. \A i \in 1..Len(R) : f[i] \in TextLines
      BY <2>3, <3>1, NewsPartType
    <3>3. \A i \in 1..l : i \in 1..Len(R)
      BY <1>2
    <3>4. \A i \in 1..l : f[i] \in Seq(TextLine)
      BY <3>2, <3>3 DEF TextLines
    <3>5. QED
      BY <3>4, CatNext
  <2>6. QED
    BY <2>1, <2>2, <2>3, <2>4, <2>5 DEF IsConcat
<1>13. QED
  BY <1>4, <1>5, <1>6, <1>8, <1>9, <1>11, <1>12 DEF Sorted

\* ByPosition's recursive function on the regions R, up to n of them.
SortsStep(f, R, k) == IF k = 0 THEN <<>> ELSE Inserted(f[k - 1], R[k])
Sorts(f, R, n) == f = [k \in 0..n |-> SortsStep(f, R, k)]

LEMMA SortsAt ==
  ASSUME NEW f, NEW R, NEW n, Sorts(f, R, n), NEW k \in 0..n
  PROVE  f[k] = SortsStep(f, R, k)
BY DEF Sorts

LEMMA SortsExists ==
  ASSUME NEW R, NEW n \in Nat
  PROVE  \E f : Sorts(f, R, n)
<1> DEFINE S == {m \in Nat : \E f : Sorts(f, R, m)}
<1>1. 0 \in S
  <2>1. Sorts([k \in 0..0 |-> <<>>], R, 0)
    BY DEF Sorts, SortsStep
  <2>2. QED
    BY <2>1
<1>2. ASSUME NEW m \in Nat, m \in S
      PROVE  m + 1 \in S
  <2>1. PICK f : Sorts(f, R, m)
    BY <1>2
  <2> DEFINE g == [k \in 0..(m + 1) |-> SortsStep(f, R, k)]
  <2>2. \A k \in 0..m : k \in 0..(m + 1) /\ f[k] = g[k]
    BY <2>1, SortsAt
  <2>3. \A k \in 0..(m + 1) : SortsStep(f, R, k) = SortsStep(g, R, k)
    <3> HIDE DEF g
    <3>1. \A k \in 0..(m + 1) : k # 0 => k - 1 \in 0..m
      OBVIOUS
    <3>2. QED
      BY <2>2, <3>1 DEF SortsStep
  <2>4. Sorts(g, R, m + 1)
    BY <2>3 DEF Sorts
  <2>5. QED
    BY <2>4
<1>3. Nat \subseteq S
  <2> HIDE DEF S
  <2>1. QED
    BY <1>1, <1>2, SetInduction
<1>4. QED
  BY <1>3

LEMMA ByPositionSorts ==
  ASSUME NEW R, Len(R) \in Nat
  PROVE  \E f : Sorts(f, R, Len(R)) /\ ByPosition(R) = f[Len(R)]
<1>1. \E f : Sorts(f, R, Len(R))
  BY SortsExists
<1> DEFINE f == CHOOSE f : Sorts(f, R, Len(R))
<1>2. Sorts(f, R, Len(R))
  BY <1>1
<1>3. ByPosition(R) = f[Len(R)]
  BY DEF ByPosition, Sorts, SortsStep
<1>4. QED
  BY <1>2, <1>3

\* The sort gives the same regions, in order, and keeps the order of those that start
\* together.
LEMMA ByPositionIsSorted ==
  ASSUME NEW R \in Seq(Regions), Apart(R)
  PROVE  Sorted(R, Len(R), ByPosition(R))
<1>1. PICK n : n = Len(R)
  OBVIOUS
<1>2. n \in Nat
  BY <1>1
<1>3. PICK f : Sorts(f, R, n) /\ ByPosition(R) = f[n]
  BY <1>1, <1>2, ByPositionSorts
<1> DEFINE S == {k \in Nat : k <= n => Sorted(R, k, f[k])}
<1>4. 0 \in S
  <2>1. f[0] = SortsStep(f, R, 0)
    <3>1. 0 \in 0..n
      BY <1>2
    <3>2. QED
      BY <1>3, <3>1, SortsAt
  <2>2. f[0] = <<>>
    BY <2>1 DEF SortsStep
  <2>3. QED
    BY <2>2, SortedNone
<1>5. ASSUME NEW k \in Nat, k \in S
      PROVE  k + 1 \in S
  <2> SUFFICES ASSUME k + 1 <= n PROVE Sorted(R, k + 1, f[k + 1])
    OBVIOUS
  <2>1. PICK l : l = k + 1
    OBVIOUS
  <2>2. l \in 0..n /\ l # 0 /\ l - 1 = k /\ k <= n /\ l <= Len(R)
    BY <1>1, <1>2, <2>1
  <2>3. f[l] = Inserted(f[k], R[l])
    <3>1. f[l] = SortsStep(f, R, l)
      BY <1>3, <2>2, SortsAt
    <3>2. QED
      BY <2>2, <3>1 DEF SortsStep
  <2>4. Sorted(R, k, f[k])
    BY <1>5, <2>2
  <2>5. Sorted(R, l, Inserted(f[k], R[l]))
    BY <2>1, <2>2, <2>4, SortedOneMore
  <2>6. QED
    BY <2>1, <2>3, <2>5
<1>6. Nat \subseteq S
  <2> HIDE DEF S
  <2>1. QED
    BY <1>4, <1>5, SetInduction
<1>7. n \in S
  BY <1>2, <1>6
<1>8. Sorted(R, n, f[n])
  BY <1>2, <1>7
<1>9. QED
  BY <1>1, <1>3, <1>8

\* Applying the regions in the order of their places gives the text they say.
LEMMA SortedSaysTheSame ==
  ASSUME NEW lines \in TextLines, NEW R \in Seq(Regions), NEW s, Sorted(R, Len(R), s)
  PROVE  TextFrom(lines, s, 1) = TextFrom(lines, R, 1)
<1>1. PICK n : n = Len(R)
  OBVIOUS
<1>2. /\ Len(s) = n /\ (\A a \in 1..n : \E i \in 1..n : s[a] = R[i])
      /\ \A i \in 1..n : \E a \in 1..n : s[a] = R[i]
  BY <1>1 DEF Sorted
<1>3. \A p : NewsFrom(s, 1, p) = NewsFrom(R, 1, p)
  BY DEF Sorted, NewsFrom
<1>4. TakenFrom(s, 1) = TakenFrom(R, 1)
  <2>1. \A x : (\E i \in 1..n : s[i].start < x /\ x <= EndOf(s[i]))
                 <=> (\E i \in 1..n : R[i].start < x /\ x <= EndOf(R[i]))
    BY <1>2
  <2>2. QED
    BY <1>1, <1>2, <2>1 DEF TakenFrom
<1>5. \A p : LineFrom(lines, s, 1, p) = LineFrom(lines, R, 1, p)
  BY <1>4 DEF LineFrom
<1>6. PartsFrom(lines, s, 1) = PartsFrom(lines, R, 1)
  BY <1>3, <1>5 DEF PartsFrom
<1>7. QED
  BY <1>6 DEF TextFrom

LEMMA AppliedIsText ==
  ASSUME NEW lines \in TextLines, NEW R \in Seq(Regions), Apart(R),
         \A i \in 1..Len(R) : EndOf(R[i]) <= Len(lines)
  PROVE  ApplyReplacements(lines, ByPosition(R)) = TextFrom(lines, R, 1)
<1>1. PICK s : s = ByPosition(R)
  OBVIOUS
<1>2. Sorted(R, Len(R), s)
  BY <1>1, ByPositionIsSorted
<1>3. s \in Seq(Regions) /\ Ordered(Len(lines), s)
  <2>1. /\ s \in Seq(Regions) /\ Len(s) = Len(R) /\ InOrder(s)
        /\ \A a \in 1..Len(R) : \E i \in 1..Len(R) : s[a] = R[i]
    BY <1>2 DEF Sorted
  <2>2. \A a \in 1..Len(s) : EndOf(s[a]) <= Len(lines)
    BY <2>1
  <2>3. QED
    BY <2>1, <2>2 DEF Ordered, InOrder
<1>4. ApplyReplacements(lines, s) = TextFrom(lines, s, 1)
  BY <1>3, ReplacementsAreText
<1>5. QED
  BY <1>1, <1>2, <1>4, SortedSaysTheSame

-----------------------------------------------------------------------------
(* PatchText: the search.                                                  *)

LEMMA MatchLooser ==
  ASSUME NEW lines \in TextLines, NEW pattern \in TextLines, NEW i \in Nat,
         i + Len(pattern) <= Len(lines), NEW m \in 1..4, MatchAt(lines, pattern, i, m)
  PROVE  MatchAt(lines, pattern, i, 4)
<1>1. SUFFICES ASSUME NEW j \in DOMAIN pattern
               PROVE  Form(4, lines[i + j]) = Form(4, pattern[j])
  BY DEF MatchAt
<1>2. PICK n, p, k : n = Len(lines) /\ p = Len(pattern) /\ k = i + j
  OBVIOUS
<1>3. n \in Nat /\ p \in Nat /\ j \in 1..p /\ DOMAIN pattern = 1..p
  BY <1>2 DEF TextLines
<1>4. k \in 1..n
  BY <1>2, <1>3
<1>5. lines[k] \in TextLine /\ pattern[j] \in TextLine
  BY <1>2, <1>3, <1>4 DEF TextLines
<1>6. Form(m, lines[k]) = Form(m, pattern[j])
  BY <1>2 DEF MatchAt
<1>7. QED
  BY <1>2, <1>5, <1>6, LooserForm

\* What is found is in the file, at the cursor or later, and matches by the loosest matcher.
SeekFound(lines, pattern, start, r) ==
  r \in start..(Len(lines) - Len(pattern)) /\ MatchAt(lines, pattern, r, 4)

LEMMA SeekFinds ==
  ASSUME NEW lines \in TextLines, NEW pattern \in TextLines, pattern # <<>>, NEW start \in Nat,
         NEW eof, NEW r, r = Seek(lines, pattern, start, eof), r # NotFound
  PROVE  SeekFound(lines, pattern, start, r)
<1>1. PICK last, at, ms : /\ last = Len(lines) - Len(pattern)
                          /\ at = [m \in 1..4 |-> {i \in start..last : MatchAt(lines, pattern, i, m)}]
                          /\ ms = {m \in 1..4 : at[m] # {}}
  OBVIOUS
<1>2. r = IF ms = {} THEN NotFound ELSE IF eof /\ last \in at[Min(ms)] THEN last ELSE Min(at[Min(ms)])
  BY <1>1 DEF Seek
<1>3. ms # {} /\ r = IF eof /\ last \in at[Min(ms)] THEN last ELSE Min(at[Min(ms)])
  BY <1>2
<1>4. PICK m : m = Min(ms)
  OBVIOUS
<1>5. m \in ms
  <2>1. ms \subseteq Nat
    BY <1>1
  <2>2. QED
    BY <1>3, <1>4, <2>1, LeastPlace
<1>6. m \in 1..4 /\ at[m] # {} /\ at[m] = {i \in start..last : MatchAt(lines, pattern, i, m)}
  BY <1>1, <1>5
<1>7. last \in Int /\ at[m] \subseteq Nat
  <2>1. Len(lines) \in Nat /\ Len(pattern) \in Nat
    BY DEF TextLines
  <2>2. QED
    BY <1>1, <1>6, <2>1
<1>8. r \in at[m]
  <2>1. Min(at[m]) \in at[m]
    BY <1>6, <1>7, LeastPlace
  <2>2. QED
    BY <1>3, <1>4, <2>1
<1>9. r \in start..last /\ MatchAt(lines, pattern, r, m)
  BY <1>6, <1>8
<1>10. r \in Nat /\ r + Len(pattern) <= Len(lines)
  <2>1. PICK n, p : n = Len(lines) /\ p = Len(pattern)
    OBVIOUS
  <2>2. n \in Nat /\ p \in Nat
    BY <2>1 DEF TextLines
  <2>3. QED
    BY <1>1, <1>9, <2>1, <2>2
<1>11. MatchAt(lines, pattern, r, 4)
  BY <1>6, <1>9, <1>10, MatchLooser
<1>12. QED
  BY <1>1, <1>9, <1>11 DEF SeekFound

LEMMA UnendedIs ==
  ASSUME NEW s \in TextLines
  PROVE  Unended(s) \in TextLines
<1>1. CASE s # <<>> /\ Last(s) = <<>>
  <2>1. Len(s) \in Nat \ {0}
    BY <1>1, EmptySeq DEF TextLines
  <2>2. PICK l : l = Len(s) - 1
    OBVIOUS
  <2>3. 1 \in 1..(Len(s) + 1) /\ l \in (1 - 1)..Len(s)
    BY <2>1, <2>2
  <2>4. IsPiece(SubSeq(s, 1, l), s, 1, l, TextLine)
    BY <2>3, PieceIs DEF TextLines
  <2>5. QED
    BY <1>1, <2>2, <2>4 DEF Unended, Front, IsPiece, TextLines
<1>2. CASE ~(s # <<>> /\ Last(s) = <<>>)
  BY <1>2 DEF Unended
<1>3. QED
  BY <1>1, <1>2

LEMMA UnendedShorter ==
  ASSUME NEW s \in TextLines, s # <<>>, Last(s) = <<>>
  PROVE  Len(Unended(s)) # Len(s)
<1>1. Len(s) \in Nat \ {0}
  BY EmptySeq DEF TextLines
<1>2. PICK l : l = Len(s) - 1
  OBVIOUS
<1>3. 1 \in 1..(Len(s) + 1) /\ l \in (1 - 1)..Len(s)
  BY <1>1, <1>2
<1>4. IsPiece(SubSeq(s, 1, l), s, 1, l, TextLine)
  BY <1>3, PieceIs DEF TextLines
<1>5. Unended(s) = SubSeq(s, 1, l)
  BY <1>2 DEF Unended, Front
<1>6. l - 1 + 1 = l /\ l # Len(s)
  BY <1>1, <1>2
<1>7. QED
  BY <1>4, <1>5, <1>6 DEF IsPiece

\* Where the chunk that only adds lines puts them: at the end, before an empty last line.
EndOfFile(lines) == Len(lines) - (IF lines # <<>> /\ Last(lines) = <<>> THEN 1 ELSE 0)

\* A region of fewer lines than the chunk has is without the chunk's final empty one.
IsCut(c, r) == r.len # Len(c.old)

\* What is between the cursor before a chunk and the cursor after it.
Placed(lines, c, b, r, a) ==
  /\ r \in Regions /\ a \in b..Len(lines)
  /\ r.len = Len(OldOf(c, IsCut(c, r))) /\ r.new = NewOf(c, IsCut(c, r))
  /\ c.old = <<>> => r.start = EndOfFile(lines)
  /\ c.old # <<>> =>
       /\ b <= r.start /\ EndOf(r) <= a
       /\ MatchAt(lines, OldOf(c, IsCut(c, r)), r.start, 4)
       /\ c.at # <<>> => \E h \in (b + 1)..r.start : Form(4, lines[h]) = Form(4, c.at)

Accs(n) == [reps : Seq(Regions), cursor : 0..n, ok : BOOLEAN]

LocatesOne(lines, c, acc, res) ==
  /\ res \in Accs(Len(lines))
  /\ res.ok => /\ acc.ok
               /\ \E r \in Regions : /\ res.reps = Append(acc.reps, r)
                                     /\ Placed(lines, c, acc.cursor, r, res.cursor)

\* The heading moves the cursor past a line that matches it.
HeadingAt(lines, at, b, k) == k \in (b + 1)..Len(lines) /\ Form(4, lines[k]) = Form(4, at)

LEMMA HeadingFound ==
  ASSUME NEW lines \in TextLines, NEW at \in TextLine, at # <<>>, NEW b \in 0..Len(lines), NEW h,
         h = Seek(lines, <<at>>, b, FALSE), h # NotFound
  PROVE  HeadingAt(lines, at, b, h + 1)
<1>1. PICK p, n : p = <<at>> /\ n = Len(lines)
  OBVIOUS
<1>2. p \in TextLines /\ p # <<>> /\ Len(p) = 1 /\ p[1] = at /\ 1 \in DOMAIN p /\ n \in Nat /\ b \in Nat
  BY <1>1 DEF TextLines
<1>3. SeekFound(lines, p, b, h)
  BY <1>1, <1>2, SeekFinds
<1>4. h \in b..(n - 1) /\ MatchAt(lines, p, h, 4)
  BY <1>1, <1>2, <1>3 DEF SeekFound
<1>5. Form(4, lines[h + 1]) = Form(4, p[1])
  BY <1>2, <1>4 DEF MatchAt
<1>6. h + 1 \in (b + 1)..n
  <2>1. n \in Nat /\ b \in Nat
    BY <1>2
  <2>2. PICK k \in b..(n - 1) : k = h
    BY <1>4
  <2>3. k + 1 \in (b + 1)..n
    BY <2>1
  <2>4. QED
    BY <2>2, <2>3
<1>7. QED
  BY <1>1, <1>2, <1>5, <1>6 DEF HeadingAt

LEMMA EndOfFileIs ==
  ASSUME NEW lines \in TextLines
  PROVE  EndOfFile(lines) \in 0..Len(lines)
<1>1. PICK n : n = Len(lines)
  OBVIOUS
<1>2. n \in Nat
  BY <1>1 DEF TextLines
<1>3. lines # <<>> => n # 0
  BY <1>1, EmptySeq DEF TextLines
<1>4. QED
  BY <1>1, <1>2, <1>3 DEF EndOfFile

\* One chunk.
LEMMA LocatesIt ==
  ASSUME NEW lines \in TextLines, NEW c \in Chunks, NEW acc \in Accs(Len(lines))
  PROVE  LocatesOne(lines, c, acc, Locate(lines, acc, c))
<1>1. PICK b, heading, cursor, end :
        /\ b = acc.cursor
        /\ heading = IF c.at = <<>> THEN b - 1 ELSE Seek(lines, <<c.at>>, b, FALSE)
        /\ cursor = heading + 1
        /\ end = IF lines # <<>> /\ Last(lines) = <<>> THEN Len(lines) - 1 ELSE Len(lines)
  OBVIOUS
<1>2. PICK whole, cut : /\ whole = Seek(lines, c.old, cursor, c.eof)
                        /\ cut = (whole = NotFound /\ Last(c.old) = <<>>)
  OBVIOUS
<1>3. PICK old, new : /\ old = IF cut THEN Unended(c.old) ELSE c.old
                      /\ new = IF cut THEN Unended(c.new) ELSE c.new
  OBVIOUS
<1>4. PICK found : found = IF cut THEN Seek(lines, old, cursor, c.eof) ELSE whole
  OBVIOUS
<1>5. PICK res : res = Locate(lines, acc, c)
  OBVIOUS
<1>6. res = IF ~acc.ok \/ (c.at # <<>> /\ heading = NotFound) THEN [acc EXCEPT !.ok = FALSE]
            ELSE IF c.old = <<>>
            THEN [acc EXCEPT !.reps = Append(@, Rep(end, 0, c.new)), !.cursor = cursor]
            ELSE IF found = NotFound THEN [acc EXCEPT !.ok = FALSE]
            ELSE [acc EXCEPT !.reps = Append(@, Rep(found, Len(old), new)),
                             !.cursor = NextCursor(found, Len(old))]
  BY <1>1, <1>2, <1>3, <1>4, <1>5 DEF Locate
<1>7. PICK n : n = Len(lines)
  OBVIOUS
<1>8. /\ n \in Nat /\ b \in 0..n /\ acc.reps \in Seq(Regions) /\ acc.ok \in BOOLEAN
      /\ c.at \in TextLine /\ c.old \in TextLines /\ c.new \in TextLines
  BY <1>1, <1>7 DEF Accs, Chunks, TextLines, TextLine
<1>9. [acc EXCEPT !.ok = FALSE] \in Accs(n) /\ ~[acc EXCEPT !.ok = FALSE].ok
  BY <1>7 DEF Accs
<1>10. CASE ~acc.ok \/ (c.at # <<>> /\ heading = NotFound)
  BY <1>5, <1>6, <1>7, <1>9, <1>10 DEF LocatesOne
<1>11. CASE acc.ok /\ (c.at # <<>> => heading # NotFound)
  <2>1. /\ cursor \in b..n
        /\ c.at # <<>> => cursor \in (b + 1)..n /\ Form(4, lines[cursor]) = Form(4, c.at)
    <3>1. CASE c.at = <<>>
      BY <1>1, <1>8, <3>1
    <3>2. CASE c.at # <<>>
      <4>1. heading = Seek(lines, <<c.at>>, b, FALSE) /\ heading # NotFound
        BY <1>1, <1>11, <3>2
      <4>2. HeadingAt(lines, c.at, b, heading + 1)
        BY <1>7, <1>8, <3>2, <4>1, HeadingFound
      <4>3. cursor \in (b + 1)..n /\ Form(4, lines[cursor]) = Form(4, c.at)
        BY <1>1, <1>7, <4>2 DEF HeadingAt
      <4>4. QED
        BY <1>8, <4>3
    <3>3. QED
      BY <3>1, <3>2
  <2>2. cursor \in 0..n /\ cursor \in Nat
    BY <1>8, <2>1
  <2>3. CASE c.old = <<>>
    <3>1. PICK r : r = Rep(end, 0, c.new)
      OBVIOUS
    <3>2. end = EndOfFile(lines) /\ end \in 0..n
      <4>1. end = EndOfFile(lines)
        BY <1>1, <1>7, <1>8 DEF EndOfFile
      <4>2. QED
        BY <1>7, <4>1, EndOfFileIs
    <3>3. r.start = end /\ r.len = 0 /\ r.new = c.new /\ r \in Regions
      <4>1. end \in Nat
        BY <3>2
      <4>2. QED
        BY <1>8, <3>1, <4>1 DEF Rep, Regions
    <3>4. res = [acc EXCEPT !.reps = Append(@, r), !.cursor = cursor]
      BY <1>6, <1>11, <2>3, <3>1
    <3>5. Append(acc.reps, r) \in Seq(Regions)
      BY <1>8, <3>3
    <3>6. res = [reps |-> Append(acc.reps, r), cursor |-> cursor, ok |-> acc.ok]
      BY <3>4 DEF Accs
    <3>7. res \in Accs(n) /\ res.reps = Append(acc.reps, r) /\ res.cursor = cursor
      BY <1>8, <2>2, <3>5, <3>6 DEF Accs
    <3>8. ~IsCut(c, r)
      BY <2>3, <3>3 DEF IsCut
    <3>9. Placed(lines, c, b, r, cursor)
      BY <1>7, <2>1, <2>3, <3>2, <3>3, <3>8 DEF Placed, OldOf, NewOf
    <3>10. QED
      BY <1>1, <1>5, <1>7, <1>11, <3>3, <3>7, <3>9 DEF LocatesOne
  <2>4. CASE c.old # <<>> /\ found = NotFound
    BY <1>5, <1>6, <1>7, <1>9, <1>11, <2>4 DEF LocatesOne
  <2>5. CASE c.old # <<>> /\ found # NotFound
    <3>1. PICK len, r, next : len = Len(old) /\ r = Rep(found, len, new) /\ next = found + len
      OBVIOUS
    <3>2. old \in TextLines /\ new \in TextLines /\ len \in Nat
      <4>1. Unended(c.old) \in TextLines /\ Unended(c.new) \in TextLines
        BY <1>8, UnendedIs
      <4>2. old \in TextLines /\ new \in TextLines
        BY <1>3, <1>8, <4>1
      <4>3. QED
        BY <3>1, <4>2 DEF TextLines
    <3>3. cut <=> len # Len(c.old)
      <4>1. CASE cut
        <5>1. Last(c.old) = <<>>
          BY <1>2, <4>1
        <5>2. Len(Unended(c.old)) # Len(c.old)
          BY <1>8, <2>5, <5>1, UnendedShorter
        <5>3. QED
          BY <1>3, <3>1, <4>1, <5>2
      <4>2. CASE ~cut
        BY <1>3, <3>1, <4>2
      <4>3. QED
        BY <4>1, <4>2
    <3>4. found = Seek(lines, old, cursor, c.eof)
      BY <1>2, <1>3, <1>4
    <3>5. found \in cursor..(n - len) /\ MatchAt(lines, old, found, 4)
      <4>1. CASE old = <<>>
        <5>1. found = cursor /\ len = 0
          BY <3>1, <3>4, <4>1 DEF Seek
        <5>2. found \in cursor..(n - len)
          BY <1>8, <2>1, <5>1
        <5>3. DOMAIN old = {}
          BY <4>1
        <5>4. QED
          BY <5>2, <5>3 DEF MatchAt
      <4>2. CASE old # <<>>
        <5>1. SeekFound(lines, old, cursor, found)
          BY <2>2, <2>5, <3>2, <3>4, <4>2, SeekFinds
        <5>2. QED
          BY <1>7, <3>1, <5>1 DEF SeekFound
      <4>3. QED
        BY <4>1, <4>2
    <3>6. /\ found \in Nat /\ next \in found..n /\ next \in 0..n /\ b <= found /\ next \in b..n
          /\ cursor <= found
      BY <1>8, <2>1, <2>2, <3>1, <3>2, <3>5
    <3>7. r.start = found /\ r.len = len /\ r.new = new /\ r \in Regions
      BY <3>1, <3>2, <3>6 DEF Rep, Regions
    <3>8. res = [acc EXCEPT !.reps = Append(@, r), !.cursor = next]
      BY <1>6, <1>11, <2>5, <3>1 DEF NextCursor
    <3>9. Append(acc.reps, r) \in Seq(Regions)
      BY <1>8, <3>7
    <3>10. res = [reps |-> Append(acc.reps, r), cursor |-> next, ok |-> acc.ok]
      BY <3>8 DEF Accs
    <3>11. res \in Accs(n) /\ res.reps = Append(acc.reps, r) /\ res.cursor = next
      BY <1>8, <3>6, <3>9, <3>10 DEF Accs
    <3>12. IsCut(c, r) <=> cut
      BY <3>3, <3>7 DEF IsCut
    <3>13. old = OldOf(c, IsCut(c, r)) /\ new = NewOf(c, IsCut(c, r))
      BY <1>3, <3>12 DEF OldOf, NewOf
    <3>14. EndOf(r) = next
      BY <3>1, <3>7 DEF EndOf
    <3>15. c.at # <<>> => \E h \in (b + 1)..r.start : Form(4, lines[h]) = Form(4, c.at)
      <4>1. SUFFICES ASSUME c.at # <<>>
                     PROVE  \E h \in (b + 1)..r.start : Form(4, lines[h]) = Form(4, c.at)
        OBVIOUS
      <4>2. cursor \in (b + 1)..r.start
        BY <1>8, <2>1, <3>6, <3>7, <4>1
      <4>3. QED
        BY <2>1, <4>1, <4>2
    <3>16. next <= next
      BY <3>6
    <3>17. Placed(lines, c, b, r, next)
      BY <1>7, <2>5, <3>1, <3>5, <3>6, <3>7, <3>13, <3>14, <3>15, <3>16 DEF Placed
    <3>18. QED
      BY <1>1, <1>5, <1>7, <1>11, <3>7, <3>11, <3>17 DEF LocatesOne
  <2>6. QED
    BY <2>3, <2>4, <2>5
<1>12. QED
  BY <1>10, <1>11

\* Located's recursive function, up to n chunks.
LocatesStep(f, lines, chunks, k) ==
  IF k = 0 THEN [reps |-> <<>>, cursor |-> 0, ok |-> TRUE] ELSE Locate(lines, f[k - 1], chunks[k])
Locates(f, lines, chunks, n) == f = [k \in 0..n |-> LocatesStep(f, lines, chunks, k)]

LEMMA LocatesAt ==
  ASSUME NEW f, NEW lines, NEW chunks, NEW n, Locates(f, lines, chunks, n), NEW k \in 0..n
  PROVE  f[k] = LocatesStep(f, lines, chunks, k)
BY DEF Locates

LEMMA LocatesExists ==
  ASSUME NEW lines, NEW chunks, NEW n \in Nat
  PROVE  \E f : Locates(f, lines, chunks, n)
<1> DEFINE S == {m \in Nat : \E f : Locates(f, lines, chunks, m)}
<1>1. 0 \in S
  <2>1. Locates([k \in 0..0 |-> [reps |-> <<>>, cursor |-> 0, ok |-> TRUE]], lines, chunks, 0)
    BY DEF Locates, LocatesStep
  <2>2. QED
    BY <2>1
<1>2. ASSUME NEW m \in Nat, m \in S
      PROVE  m + 1 \in S
  <2>1. PICK f : Locates(f, lines, chunks, m)
    BY <1>2
  <2> DEFINE g == [k \in 0..(m + 1) |-> LocatesStep(f, lines, chunks, k)]
  <2>2. \A k \in 0..m : k \in 0..(m + 1) /\ f[k] = g[k]
    BY <2>1, LocatesAt
  <2>3. \A k \in 0..(m + 1) : LocatesStep(f, lines, chunks, k) = LocatesStep(g, lines, chunks, k)
    <3> HIDE DEF g
    <3>1. \A k \in 0..(m + 1) : k # 0 => k - 1 \in 0..m
      OBVIOUS
    <3>2. QED
      BY <2>2, <3>1 DEF LocatesStep
  <2>4. Locates(g, lines, chunks, m + 1)
    BY <2>3 DEF Locates
  <2>5. QED
    BY <2>4
<1>3. Nat \subseteq S
  <2> HIDE DEF S
  <2>1. QED
    BY <1>1, <1>2, SetInduction
<1>4. QED
  BY <1>3

LEMMA LocatedLocates ==
  ASSUME NEW lines, NEW chunks, Len(chunks) \in Nat
  PROVE  \E f : Locates(f, lines, chunks, Len(chunks)) /\ Located(lines, chunks) = f[Len(chunks)]
<1>1. \E f : Locates(f, lines, chunks, Len(chunks))
  BY LocatesExists
<1> DEFINE f == CHOOSE f : Locates(f, lines, chunks, Len(chunks))
<1>2. Locates(f, lines, chunks, Len(chunks))
  BY <1>1
<1>3. Located(lines, chunks) = f[Len(chunks)]
  BY DEF Located, Locates, LocatesStep
<1>4. QED
  BY <1>2, <1>3

\* The regions of k chunks and the cursors between them.
PlacedAll(lines, chunks, R, cur, k) ==
  /\ R \in Seq(Regions) /\ Len(R) = k
  /\ \A i \in 0..k : cur[i] \in 0..Len(lines)
  /\ \A i \in 0..k : \A j \in i..k : cur[i] <= cur[j]
  /\ \A i \in 1..k : Placed(lines, chunks[i], cur[i - 1], R[i], cur[i])

\* One chunk more.
LEMMA PlacedOneMore ==
  ASSUME NEW lines \in TextLines, NEW chunks, NEW R, NEW cur, NEW k \in Nat, NEW l, l = k + 1,
         PlacedAll(lines, chunks, R, cur, k), NEW r \in Regions,
         cur[l] \in 0..Len(lines), Placed(lines, chunks[l], cur[k], r, cur[l]),
         NEW Q, Q = Append(R, r)
  PROVE  PlacedAll(lines, chunks, Q, cur, l)
<1>1. PICK n : n = Len(lines)
  OBVIOUS
<1>2. n \in Nat /\ l \in Nat
  BY <1>1 DEF TextLines
<1>3. /\ R \in Seq(Regions) /\ Len(R) = k
      /\ \A i \in 0..k : cur[i] \in 0..n
      /\ \A i \in 0..k : \A j \in i..k : cur[i] <= cur[j]
      /\ \A i \in 1..k : Placed(lines, chunks[i], cur[i - 1], R[i], cur[i])
  BY <1>1 DEF PlacedAll
<1>4. Q \in Seq(Regions) /\ Len(Q) = l /\ Q[l] = r /\ \A i \in 1..k : Q[i] = R[i]
  BY <1>3
<1>5. cur[k] <= cur[l] /\ cur[k] \in 0..n /\ cur[l] \in 0..n
  <2>1. cur[l] \in cur[k]..n
    BY <1>1 DEF Placed
  <2>2. k \in 0..k
    OBVIOUS
  <2>3. cur[k] \in 0..n /\ cur[l] \in 0..n
    BY <1>1, <1>3, <2>2
  <2>4. QED
    BY <1>2, <2>1, <2>3
<1>6. \A i \in 0..l : i = l \/ i \in 0..k
  BY <1>2
<1>7. \A i \in 0..l : cur[i] \in 0..n
  BY <1>3, <1>5, <1>6
<1>8. \A i \in 0..l : \A j \in i..l : cur[i] <= cur[j]
  <2>1. SUFFICES ASSUME NEW i \in 0..l, NEW j \in i..l
                 PROVE  cur[i] <= cur[j]
    OBVIOUS
  <2>2. j \in 0..l
    BY <1>2
  <2>3. PICK x, y, z, w : x = cur[i] /\ y = cur[j] /\ z = cur[k] /\ w = cur[l]
    OBVIOUS
  <2>4. x \in 0..n /\ y \in 0..n /\ z \in 0..n /\ w \in 0..n /\ z <= w
    BY <1>5, <1>7, <2>2, <2>3
  <2>5. CASE j = l /\ i = l
    BY <1>2, <2>3, <2>4, <2>5
  <2>6. CASE j = l /\ i \in 0..k
    <3>1. k \in i..k
      BY <2>6
    <3>2. x <= z
      BY <1>3, <2>3, <2>6, <3>1
    <3>3. x <= w
      BY <1>2, <2>4, <3>2
    <3>4. QED
      BY <2>3, <2>6, <3>3
  <2>7. CASE j # l
    <3>1. i \in 0..k /\ j \in i..k
      BY <1>2, <2>7
    <3>2. QED
      BY <1>3, <3>1
  <2>8. QED
    BY <1>6, <2>5, <2>6, <2>7
<1>9. \A i \in 1..l : Placed(lines, chunks[i], cur[i - 1], Q[i], cur[i])
  <2>1. SUFFICES ASSUME NEW i \in 1..l
                 PROVE  Placed(lines, chunks[i], cur[i - 1], Q[i], cur[i])
    OBVIOUS
  <2>2. CASE i = l
    <3>1. l - 1 = k
      OBVIOUS
    <3>2. QED
      BY <1>4, <2>2, <3>1
  <2>3. CASE i # l
    <3>1. i \in 1..k
      BY <2>3
    <3>2. QED
      BY <1>3, <1>4, <3>1
  <2>4. QED
    BY <2>2, <2>3
<1>10. QED
  BY <1>1, <1>4, <1>7, <1>8, <1>9 DEF PlacedAll

\* Every chunk is located, at or after the cursor the chunks before it leave.
LEMMA LocatedPlaces ==
  ASSUME NEW lines \in TextLines, NEW chunks \in Seq(Chunks), Located(lines, chunks).ok
  PROVE  \E cur : PlacedAll(lines, chunks, Located(lines, chunks).reps, cur, Len(chunks))
<1>1. PICK n, N : n = Len(lines) /\ N = Len(chunks)
  OBVIOUS
<1>2. n \in Nat /\ N \in Nat /\ \A i \in 1..N : chunks[i] \in Chunks
  BY <1>1 DEF TextLines
<1>3. PICK f : Locates(f, lines, chunks, N) /\ Located(lines, chunks) = f[N]
  BY <1>1, <1>2, LocatedLocates
<1> DEFINE cur == [i \in 0..N |-> f[i].cursor]
           S == {k \in Nat : k <= N => /\ f[k] \in Accs(n)
                                       /\ f[k].ok => PlacedAll(lines, chunks, f[k].reps, cur, k)}
<1>4. 0 \in S
  <2>1. f[0] = LocatesStep(f, lines, chunks, 0)
    <3>1. 0 \in 0..N
      BY <1>2
    <3>2. QED
      BY <1>3, <3>1, LocatesAt
  <2>2. f[0] = [reps |-> <<>>, cursor |-> 0, ok |-> TRUE]
    BY <2>1 DEF LocatesStep
  <2>3. f[0] \in Accs(n) /\ f[0].reps = <<>> /\ f[0].cursor = 0
    BY <1>2, <2>2 DEF Accs
  <2>4. cur[0] = 0
    BY <1>2, <2>3
  <2>5. PlacedAll(lines, chunks, <<>>, cur, 0)
    <3> HIDE DEF cur
    <3>1. <<>> \in Seq(Regions) /\ Len(<<>>) = 0
      OBVIOUS
    <3>2. (\A i \in 0..0 : cur[i] \in 0..n) /\ \A i \in 0..0 : \A j \in i..0 : cur[i] <= cur[j]
      <4>1. \A i \in 0..0 : i = 0 /\ \A j \in i..0 : j = 0
        OBVIOUS
      <4>2. cur[0] \in 0..n /\ cur[0] <= cur[0]
        BY <1>2, <2>4
      <4>3. QED
        BY <4>1, <4>2
    <3>3. QED
      BY <1>1, <3>1, <3>2 DEF PlacedAll
  <2>6. QED
    BY <2>3, <2>5
<1>5. ASSUME NEW k \in Nat, k \in S
      PROVE  k + 1 \in S
  <2> SUFFICES ASSUME k + 1 <= N
               PROVE  /\ f[k + 1] \in Accs(n)
                      /\ f[k + 1].ok => PlacedAll(lines, chunks, f[k + 1].reps, cur, k + 1)
    OBVIOUS
  <2>1. PICK l : l = k + 1
    OBVIOUS
  <2>2. l \in 0..N /\ l \in 1..N /\ k \in 0..N /\ l # 0 /\ l - 1 = k /\ k <= N
    BY <1>2, <2>1
  <2>3. f[l] = Locate(lines, f[k], chunks[l])
    <3>1. f[l] = LocatesStep(f, lines, chunks, l)
      BY <1>3, <2>2, LocatesAt
    <3>2. QED
      BY <2>2, <3>1 DEF LocatesStep
  <2>4. f[k] \in Accs(n) /\ (f[k].ok => PlacedAll(lines, chunks, f[k].reps, cur, k))
    BY <1>5, <2>2
  <2>5. cur[k] = f[k].cursor /\ cur[l] = f[l].cursor
    BY <2>2
  <2>6. LocatesOne(lines, chunks[l], f[k], f[l])
    <3>1. chunks[l] \in Chunks /\ f[k] \in Accs(Len(lines))
      BY <1>1, <1>2, <2>2, <2>4
    <3>2. QED
      BY <2>3, <3>1, LocatesIt
  <2>7. f[l] \in Accs(n)
    BY <1>1, <2>6 DEF LocatesOne
  <2>8. ASSUME f[l].ok
        PROVE  PlacedAll(lines, chunks, f[l].reps, cur, l)
    <3>1. PICK r \in Regions : /\ f[l].reps = Append(f[k].reps, r)
                               /\ Placed(lines, chunks[l], f[k].cursor, r, f[l].cursor)
      BY <2>6, <2>8 DEF LocatesOne
    <3>2. PlacedAll(lines, chunks, f[k].reps, cur, k)
      BY <2>4, <2>6, <2>8 DEF LocatesOne
    <3>3. cur[l] \in 0..Len(lines)
      BY <1>1, <2>5, <2>7 DEF Accs
    <3> HIDE DEF cur
    <3>4. QED
      BY <2>1, <2>5, <3>1, <3>2, <3>3, PlacedOneMore
  <2>9. QED
    BY <2>1, <2>7, <2>8
<1>6. Nat \subseteq S
  <2> HIDE DEF S
  <2>1. QED
    BY <1>4, <1>5, SetInduction
<1>7. N \in S
  BY <1>2, <1>6
<1>8. PlacedAll(lines, chunks, f[N].reps, cur, N)
  BY <1>2, <1>3, <1>7
<1>9. QED
  BY <1>1, <1>3, <1>8

-----------------------------------------------------------------------------
(* PatchText: the places found are the places the patch says.              *)

PosOf(chunks, R) == [i \in DOMAIN chunks |-> R[i].start]
CutOf(chunks, R) == {i \in DOMAIN chunks : IsCut(chunks[i], R[i])}

\* A chunk and its region.
RegionOf(c, r, start, cut) ==
  /\ r \in Regions /\ r.start = start
  /\ r.len = Len(OldOf(c, cut)) /\ r.new = NewOf(c, cut)

LEMMA PlacedRegions ==
  ASSUME NEW lines \in TextLines, NEW chunks \in Seq(Chunks), NEW R, NEW cur,
         PlacedAll(lines, chunks, R, cur, Len(chunks)),
         NEW pos, pos = PosOf(chunks, R), NEW cut, cut = CutOf(chunks, R), NEW i \in 1..Len(chunks)
  PROVE  /\ RegionOf(chunks[i], R[i], pos[i], i \in cut)
         /\ pos[i] \in 0..Len(lines) /\ EndOf(R[i]) <= Len(lines)
         /\ chunks[i].old = <<>> => pos[i] = EndOfFile(lines) /\ R[i].len = 0
         /\ chunks[i].old # <<>> =>
              /\ cur[i - 1] <= pos[i] /\ EndOf(R[i]) <= cur[i]
              /\ MatchAt(lines, OldOf(chunks[i], i \in cut), pos[i], 4)
              /\ chunks[i].at # <<>> =>
                   \E h \in (cur[i - 1] + 1)..pos[i] : Form(4, lines[h]) = Form(4, chunks[i].at)
<1>1. PICK n, c, r, x, b, a : /\ n = Len(lines) /\ c = chunks[i] /\ r = R[i] /\ x = (i \in cut)
                              /\ b = cur[i - 1] /\ a = cur[i]
  OBVIOUS
<1>2. n \in Nat /\ i \in DOMAIN chunks /\ x \in BOOLEAN /\ c \in Chunks /\ Len(chunks) \in Nat
  BY <1>1 DEF TextLines
<1>3. Placed(lines, c, b, r, a)
  BY <1>1 DEF PlacedAll
<1>4. x <=> IsCut(c, r)
  BY <1>1, <1>2 DEF CutOf
<1>5. pos[i] = r.start
  BY <1>1, <1>2 DEF PosOf
<1>6. /\ r \in Regions /\ a \in b..n
      /\ r.len = Len(OldOf(c, x)) /\ r.new = NewOf(c, x)
      /\ c.old = <<>> => r.start = EndOfFile(lines)
      /\ c.old # <<>> =>
           /\ b <= r.start /\ EndOf(r) <= a
           /\ MatchAt(lines, OldOf(c, x), r.start, 4)
           /\ c.at # <<>> => \E h \in (b + 1)..r.start : Form(4, lines[h]) = Form(4, c.at)
  BY <1>1, <1>3, <1>4 DEF Placed, OldOf, NewOf
<1>7. RegionOf(c, r, pos[i], x)
  BY <1>5, <1>6 DEF RegionOf
<1>8. c.old = <<>> => r.len = 0
  <2>1. SUFFICES ASSUME c.old = <<>> PROVE r.len = 0
    OBVIOUS
  <2>2. Unended(<<>>) = <<>>
    BY DEF Unended
  <2>3. OldOf(c, x) = <<>>
    BY <1>2, <2>1, <2>2 DEF OldOf
  <2>4. QED
    BY <1>6, <2>3
<1>9. r.start \in Nat /\ r.len \in Nat /\ EndOf(r) = r.start + r.len
  BY <1>6 DEF Regions, EndOf
<1>10. a \in 0..n
  <2>1. i \in 0..Len(chunks)
    BY <1>2
  <2>2. QED
    BY <1>1, <2>1 DEF PlacedAll
<1>11. r.start \in 0..n /\ EndOf(r) <= n
  <2>1. CASE c.old = <<>>
    <3>1. r.start \in 0..n
      BY <1>1, <1>6, <2>1, EndOfFileIs
    <3>2. EndOf(r) = r.start
      BY <1>8, <1>9, <2>1
    <3>3. QED
      BY <1>2, <3>1, <3>2
  <2>2. CASE c.old # <<>>
    <3>1. EndOf(r) <= a
      BY <1>6, <2>2
    <3>2. QED
      BY <1>2, <1>9, <1>10, <3>1
  <2>3. QED
    BY <2>1, <2>2
<1>12. QED
  BY <1>1, <1>5, <1>6, <1>7, <1>8, <1>11

\* The places after which chunk i may apply: where the chunks before it end.
EndsBefore(chunks, pos, cut, i) ==
  {0} \cup {pos[j] + Len(OldOf(chunks[j], j \in cut)) : j \in {k \in 1..i-1 : chunks[k].old # <<>>}}

LEMMA AfterIs ==
  ASSUME NEW lines \in TextLines, NEW chunks \in Seq(Chunks), NEW R, NEW cur,
         PlacedAll(lines, chunks, R, cur, Len(chunks)),
         NEW pos, pos = PosOf(chunks, R), NEW cut, cut = CutOf(chunks, R), NEW i \in 1..Len(chunks)
  PROVE  Max(EndsBefore(chunks, pos, cut, i)) \in 0..cur[i - 1]
<1>1. PICK l, b, E : l = i - 1 /\ b = cur[l] /\ E = EndsBefore(chunks, pos, cut, i)
  OBVIOUS
<1>2. /\ Len(chunks) \in Nat /\ l \in 0..Len(chunks) /\ Len(lines) \in Nat
      /\ b \in 0..Len(lines) /\ b \in Nat
  <2>1. Len(chunks) \in Nat /\ l \in 0..Len(chunks) /\ Len(lines) \in Nat
    BY <1>1 DEF TextLines
  <2>2. b \in 0..Len(lines)
    BY <1>1, <2>1 DEF PlacedAll
  <2>3. QED
    BY <2>1, <2>2
<1>3. ASSUME NEW j \in 1..l, chunks[j].old # <<>>
      PROVE  pos[j] + Len(OldOf(chunks[j], j \in cut)) \in 0..b
  <2>1. j \in 1..Len(chunks) /\ j \in 0..Len(chunks) /\ l \in j..Len(chunks)
    BY <1>2
  <2>2. /\ RegionOf(chunks[j], R[j], pos[j], j \in cut) /\ pos[j] \in 0..Len(lines)
        /\ EndOf(R[j]) <= cur[j]
    BY <1>3, <2>1, PlacedRegions
  <2>3. PICK r, e, y : r = R[j] /\ e = pos[j] + Len(OldOf(chunks[j], j \in cut)) /\ y = cur[j]
    OBVIOUS
  <2>4. e = EndOf(r) /\ r.start \in Nat /\ r.len \in Nat /\ e = r.start + r.len
    BY <2>2, <2>3 DEF RegionOf, EndOf, Regions
  <2>5. y <= b /\ y \in 0..Len(lines)
    BY <1>1, <2>1, <2>3 DEF PlacedAll
  <2>6. e <= y
    BY <2>2, <2>3, <2>4
  <2>7. e \in 0..b
    BY <1>2, <2>4, <2>5, <2>6
  <2>8. QED
    BY <2>3, <2>7
<1>4. E \subseteq 0..b
  <2>1. \A j \in {k \in 1..l : chunks[k].old # <<>>} : pos[j] + Len(OldOf(chunks[j], j \in cut)) \in 0..b
    BY <1>3
  <2>2. 0 \in 0..b
    BY <1>2
  <2>3. QED
    BY <1>1, <2>1, <2>2 DEF EndsBefore
<1>5. E # {}
  BY <1>1 DEF EndsBefore
<1>6. Max(E) \in E
  BY <1>2, <1>4, <1>5, GreatestPlace
<1>7. QED
  BY <1>1, <1>4, <1>6

LEMMA PlacedFits ==
  ASSUME NEW lines \in TextLines, NEW chunks \in Seq(Chunks), NEW R, NEW cur,
         PlacedAll(lines, chunks, R, cur, Len(chunks)),
         NEW pos, pos = PosOf(chunks, R), NEW cut, cut = CutOf(chunks, R)
  PROVE  Fits(lines, chunks, pos, cut)
<1>1. PICK n, N : n = Len(lines) /\ N = Len(chunks)
  OBVIOUS
<1>2. n \in Nat /\ N \in Nat /\ DOMAIN chunks = 1..N
  BY <1>1 DEF TextLines
<1>3. ASSUME NEW i \in 1..N, chunks[i].old = <<>>
      PROVE  pos[i] = n - (IF lines # <<>> /\ Last(lines) = <<>> THEN 1 ELSE 0)
  BY <1>1, <1>3, PlacedRegions DEF EndOfFile
<1>4. ASSUME NEW i \in 1..N, chunks[i].old # <<>>, NEW after, after = Max(EndsBefore(chunks, pos, cut, i))
      PROVE  /\ pos[i] >= after /\ pos[i] + Len(OldOf(chunks[i], i \in cut)) <= n
             /\ MatchAt(lines, OldOf(chunks[i], i \in cut), pos[i], 4)
             /\ chunks[i].at # <<>> =>
                  \E h \in after + 1..pos[i] : Form(4, lines[h]) = Form(4, chunks[i].at)
  <2>1. PICK b, p, o : b = cur[i - 1] /\ p = pos[i] /\ o = OldOf(chunks[i], i \in cut)
    OBVIOUS
  <2>2. after \in 0..b
    BY <1>1, <1>4, <2>1, AfterIs
  <2>3. b \in 0..n /\ b \in Nat
    <3>1. i - 1 \in 0..N
      BY <1>2
    <3>2. b \in 0..n
      BY <1>1, <2>1, <3>1 DEF PlacedAll
    <3>3. QED
      BY <1>2, <3>2
  <2>4. /\ RegionOf(chunks[i], R[i], p, i \in cut) /\ p \in 0..n /\ EndOf(R[i]) <= n
        /\ b <= p /\ MatchAt(lines, o, p, 4)
        /\ chunks[i].at # <<>> => \E h \in (b + 1)..p : Form(4, lines[h]) = Form(4, chunks[i].at)
    BY <1>1, <1>4, <2>1, PlacedRegions
  <2>5. p >= after
    BY <1>2, <2>2, <2>3, <2>4
  <2>6. p + Len(o) <= n
    <3>1. EndOf(R[i]) = p + Len(o)
      BY <2>1, <2>4 DEF RegionOf, EndOf
    <3>2. QED
      BY <2>4, <3>1
  <2>7. \A h \in (b + 1)..p : h \in after + 1..p
    BY <1>2, <2>2, <2>3, <2>4
  <2>8. QED
    BY <2>1, <2>4, <2>5, <2>6, <2>7
<1>5. QED
  BY <1>1, <1>2, <1>3, <1>4 DEF Fits, EndsBefore

\* The text the patch says, by chunks, is the text by regions.
TakenBy(chunks, pos, cut) ==
  UNION {pos[i] + 1..pos[i] + Len(OldOf(chunks[i], i \in cut)) : i \in DOMAIN chunks}
HereOf(chunks, pos, cut, k) ==
  [i \in DOMAIN chunks |-> IF pos[i] = k THEN NewOf(chunks[i], i \in cut) ELSE <<>>]
WovenAt(lines, chunks, pos, cut, k) ==
  FlattenSeq(HereOf(chunks, pos, cut, k))
    \o IF k < Len(lines) /\ k + 1 \notin TakenBy(chunks, pos, cut) THEN <<lines[k + 1]>> ELSE <<>>

LEMMA WovenIs ==
  ASSUME NEW lines, NEW chunks, NEW pos, NEW cut
  PROVE  Woven(lines, chunks, pos, cut)
           = FlattenSeq([k \in 1..Len(lines) + 1 |-> WovenAt(lines, chunks, pos, cut, k - 1)])
BY DEF Woven, WovenAt, HereOf, TakenBy

LEMMA WovenIsText ==
  ASSUME NEW lines \in TextLines, NEW chunks \in Seq(Chunks), NEW R \in Seq(Regions),
         Len(R) = Len(chunks), NEW pos, NEW cut,
         \A i \in 1..Len(chunks) : RegionOf(chunks[i], R[i], pos[i], i \in cut)
  PROVE  Woven(lines, chunks, pos, cut) = TextFrom(lines, R, 1)
<1>1. PICK n, N : n = Len(lines) /\ N = Len(chunks)
  OBVIOUS
<1>2. n \in Nat /\ N \in Nat /\ DOMAIN chunks = 1..N /\ Len(R) = N
  BY <1>1 DEF TextLines
<1>3. \A i \in 1..N : /\ R[i].start = pos[i] /\ R[i].new = NewOf(chunks[i], i \in cut)
                      /\ EndOf(R[i]) = pos[i] + Len(OldOf(chunks[i], i \in cut))
                      /\ pos[i] \in Nat /\ EndOf(R[i]) \in Nat
  <2>1. SUFFICES ASSUME NEW i \in 1..N
                 PROVE  /\ R[i].start = pos[i] /\ R[i].new = NewOf(chunks[i], i \in cut)
                        /\ EndOf(R[i]) = pos[i] + Len(OldOf(chunks[i], i \in cut))
                        /\ pos[i] \in Nat /\ EndOf(R[i]) \in Nat
    OBVIOUS
  <2>2. RegionOf(chunks[i], R[i], pos[i], i \in cut)
    BY <1>1
  <2>3. QED
    BY <2>2 DEF RegionOf, EndOf, Regions
<1>4. TakenBy(chunks, pos, cut) = TakenFrom(R, 1)
  <2>1. \A x : x \in TakenBy(chunks, pos, cut)
                 <=> \E i \in 1..N : x \in pos[i] + 1..pos[i] + Len(OldOf(chunks[i], i \in cut))
    BY <1>2 DEF TakenBy
  <2>2. \A x : x \in TakenFrom(R, 1) <=> x \in Nat /\ \E i \in 1..N : R[i].start < x /\ x <= EndOf(R[i])
    BY <1>2 DEF TakenFrom
  <2>3. \A i \in 1..N : \A x : x \in pos[i] + 1..pos[i] + Len(OldOf(chunks[i], i \in cut))
                                 <=> x \in Nat /\ R[i].start < x /\ x <= EndOf(R[i])
    <3>1. SUFFICES ASSUME NEW i \in 1..N, NEW x
                   PROVE  x \in pos[i] + 1..pos[i] + Len(OldOf(chunks[i], i \in cut))
                            <=> x \in Nat /\ R[i].start < x /\ x <= EndOf(R[i])
      OBVIOUS
    <3>2. PICK p, e : p = pos[i] /\ e = EndOf(R[i])
      OBVIOUS
    <3>3. p \in Nat /\ e \in Nat
      BY <1>3, <3>2
    <3>4. x \in p + 1..e <=> x \in Nat /\ p < x /\ x <= e
      BY <3>3
    <3>5. QED
      BY <1>3, <3>2, <3>4
  <2>4. \A x : x \in TakenBy(chunks, pos, cut) <=> x \in TakenFrom(R, 1)
    BY <2>1, <2>2, <2>3
  <2>5. QED
    BY <2>4
<1>5. ASSUME NEW k
      PROVE  FlattenSeq(HereOf(chunks, pos, cut, k)) = NewsFrom(R, 1, k)
  <2>1. \A i \in 1..N : (i >= 1 /\ R[i].start = k) <=> pos[i] = k
    BY <1>2, <1>3
  <2>2. \A i \in 1..N : NewsPart(R, 1, k)[i] = IF pos[i] = k THEN NewOf(chunks[i], i \in cut) ELSE <<>>
    BY <1>2, <1>3, <2>1 DEF NewsPart
  <2>3. [i \in 1..N |-> NewsPart(R, 1, k)[i]] = HereOf(chunks, pos, cut, k)
    BY <1>2, <2>2 DEF HereOf
  <2>4. NewsFrom(R, 1, k) = FlattenSeq([i \in 1..N |-> NewsPart(R, 1, k)[i]])
    BY <1>2 DEF NewsFrom, Cat
  <2>5. QED
    BY <2>3, <2>4
<1>6. \A p \in 1..n + 1 : PartsFrom(lines, R, 1)[p] = WovenAt(lines, chunks, pos, cut, p - 1)
  <2>1. SUFFICES ASSUME NEW p \in 1..n + 1
                 PROVE  PartsFrom(lines, R, 1)[p] = WovenAt(lines, chunks, pos, cut, p - 1)
    OBVIOUS
  <2>2. PICK k : k = p - 1
    OBVIOUS
  <2>3. k + 1 = p /\ (k < n <=> p <= n)
    BY <1>2, <2>2
  <2>4. LineFrom(lines, R, 1, p)
          = IF k < Len(lines) /\ k + 1 \notin TakenBy(chunks, pos, cut) THEN <<lines[k + 1]>> ELSE <<>>
    BY <1>1, <1>4, <2>3 DEF LineFrom
  <2>5. PartsFrom(lines, R, 1)[p] = NewsFrom(R, 1, k) \o LineFrom(lines, R, 1, p)
    BY <1>1, <2>2 DEF PartsFrom
  <2>6. NewsFrom(R, 1, k) = FlattenSeq(HereOf(chunks, pos, cut, k))
    BY <1>5
  <2>7. QED
    BY <2>2, <2>4, <2>5, <2>6 DEF WovenAt
<1>7. [p \in 1..n + 1 |-> PartsFrom(lines, R, 1)[p]]
        = [p \in 1..n + 1 |-> WovenAt(lines, chunks, pos, cut, p - 1)]
  BY <1>6
<1>8. TextFrom(lines, R, 1) = FlattenSeq([p \in 1..n + 1 |-> PartsFrom(lines, R, 1)[p]])
  BY <1>1 DEF TextFrom, Cat
<1>9. QED
  BY <1>1, <1>7, <1>8, WovenIs

LEMMA PlacedApart ==
  ASSUME NEW lines \in TextLines, NEW chunks \in Seq(Chunks), NEW R, NEW cur,
         PlacedAll(lines, chunks, R, cur, Len(chunks)),
         NEW pos, pos = PosOf(chunks, R), NEW cut, cut = CutOf(chunks, R),
         ~AdditionTaken(chunks, pos, cut)
  PROVE  Apart(R)
<1>1. PICK n, N : n = Len(lines) /\ N = Len(chunks)
  OBVIOUS
<1>2. n \in Nat /\ N \in Nat /\ DOMAIN chunks = 1..N /\ Len(R) = N
  BY <1>1 DEF TextLines, PlacedAll
<1>3. \A i \in 1..N : /\ R[i].start = pos[i] /\ R[i].len = Len(OldOf(chunks[i], i \in cut))
                      /\ R[i].start \in Nat /\ R[i].len \in Nat
                      /\ chunks[i].old = <<>> => R[i].len = 0
                      /\ chunks[i].old # <<>> => cur[i - 1] <= pos[i] /\ EndOf(R[i]) <= cur[i]
  <2>1. SUFFICES ASSUME NEW i \in 1..N
                 PROVE  /\ R[i].start = pos[i] /\ R[i].len = Len(OldOf(chunks[i], i \in cut))
                        /\ R[i].start \in Nat /\ R[i].len \in Nat
                        /\ chunks[i].old = <<>> => R[i].len = 0
                        /\ chunks[i].old # <<>> => cur[i - 1] <= pos[i] /\ EndOf(R[i]) <= cur[i]
    OBVIOUS
  <2>2. /\ RegionOf(chunks[i], R[i], pos[i], i \in cut)
        /\ chunks[i].old = <<>> => R[i].len = 0
        /\ chunks[i].old # <<>> => cur[i - 1] <= pos[i] /\ EndOf(R[i]) <= cur[i]
    BY <1>1, PlacedRegions
  <2>3. QED
    BY <2>2 DEF RegionOf, Regions
<1>4. \A i, j \in 1..N : chunks[i].old = <<>> =>
        ~(pos[i] \in pos[j]..pos[j] + Len(OldOf(chunks[j], j \in cut)) - 1)
  BY <1>2 DEF AdditionTaken
<1>5. ASSUME NEW i \in 1..N, NEW j \in (i + 1)..N
      PROVE  /\ R[i].start <= R[j].start => EndOf(R[i]) <= R[j].start
             /\ R[j].start < R[i].start => EndOf(R[j]) <= R[i].start
  <2>1. j \in 1..N /\ i \in 0..N /\ j - 1 \in i..N /\ j - 1 \in 0..N
    BY <1>2
  <2>2. PICK p, a, q, b : p = R[i].start /\ a = R[i].len /\ q = R[j].start /\ b = R[j].len
    OBVIOUS
  <2>3. p \in Nat /\ a \in Nat /\ q \in Nat /\ b \in Nat /\ EndOf(R[i]) = p + a /\ EndOf(R[j]) = q + b
    BY <1>3, <2>1, <2>2 DEF EndOf
  <2>4. CASE chunks[i].old # <<>> /\ chunks[j].old # <<>>
    <3>1. PICK x, y : x = cur[i] /\ y = cur[j - 1]
      OBVIOUS
    <3>2. x <= y /\ x \in 0..n /\ y \in 0..n
      BY <1>1, <2>1, <3>1 DEF PlacedAll
    <3>3. p + a <= x /\ y <= q
      BY <1>3, <2>1, <2>2, <2>3, <2>4, <3>1
    <3>4. p + a <= q
      BY <1>2, <2>3, <3>2, <3>3
    <3>5. p + a <= q /\ ~(q < p)
      BY <2>3, <3>4
    <3>6. QED
      BY <2>2, <2>3, <3>5
  <2>5. CASE chunks[i].old = <<>>
    <3>1. a = 0
      BY <1>3, <2>2, <2>5
    <3>2. ~(p \in q..q + b - 1)
      <4>1. ~(pos[i] \in pos[j]..pos[j] + Len(OldOf(chunks[j], j \in cut)) - 1)
        BY <1>4, <2>1, <2>5
      <4>2. QED
        BY <1>3, <2>1, <2>2, <4>1
    <3>3. (p <= q => p + a <= q) /\ (q < p => q + b <= p)
      BY <2>3, <3>1, <3>2
    <3>4. QED
      BY <2>2, <2>3, <3>3
  <2>6. CASE chunks[j].old = <<>>
    <3>1. b = 0
      BY <1>3, <2>1, <2>2, <2>6
    <3>2. ~(q \in p..p + a - 1)
      <4>1. ~(pos[j] \in pos[i]..pos[i] + Len(OldOf(chunks[i], i \in cut)) - 1)
        BY <1>4, <2>1, <2>6
      <4>2. QED
        BY <1>3, <2>1, <2>2, <4>1
    <3>3. (p <= q => p + a <= q) /\ (q < p => q + b <= p)
      BY <2>3, <3>1, <3>2
    <3>4. QED
      BY <2>2, <2>3, <3>3
  <2>7. QED
    BY <2>4, <2>5, <2>6
<1>6. QED
  BY <1>2, <1>5 DEF Apart

\* Every chunk that can be located is applied as the patch says.
SaysOf(lines, chunks, text) ==
  \E pos \in [DOMAIN chunks -> 0..Len(lines)], cut \in SUBSET DOMAIN chunks :
    /\ Fits(lines, chunks, pos, cut)
    /\ text = Unended(Woven(lines, chunks, pos, cut)) \/ AdditionTaken(chunks, pos, cut)

LEMMA NewContentSays ==
  ASSUME NEW lines \in TextLines, NEW chunks \in Seq(Chunks), Located(lines, chunks).ok
  PROVE  SaysOf(lines, chunks, NewContent(lines, chunks))
<1>1. PICK R, pos, cut : /\ R = Located(lines, chunks).reps
                         /\ pos = PosOf(chunks, R) /\ cut = CutOf(chunks, R)
  OBVIOUS
<1>2. PICK cur : PlacedAll(lines, chunks, R, cur, Len(chunks))
  BY <1>1, LocatedPlaces
<1>3. Fits(lines, chunks, pos, cut)
  BY <1>1, <1>2, PlacedFits
<1>4. \A i \in 1..Len(chunks) : /\ RegionOf(chunks[i], R[i], pos[i], i \in cut)
                                /\ pos[i] \in 0..Len(lines) /\ EndOf(R[i]) <= Len(lines)
  BY <1>1, <1>2, PlacedRegions
<1>5. pos \in [DOMAIN chunks -> 0..Len(lines)] /\ cut \in SUBSET DOMAIN chunks
  <2>1. DOMAIN chunks = 1..Len(chunks)
    OBVIOUS
  <2>2. pos = [i \in DOMAIN chunks |-> pos[i]]
    BY <1>1 DEF PosOf
  <2>3. cut \in SUBSET DOMAIN chunks
    BY <1>1 DEF CutOf
  <2>4. QED
    BY <1>4, <2>1, <2>2, <2>3
<1>6. ASSUME ~AdditionTaken(chunks, pos, cut)
      PROVE  NewContent(lines, chunks) = Unended(Woven(lines, chunks, pos, cut))
  <2>1. R \in Seq(Regions) /\ Len(R) = Len(chunks)
    BY <1>2 DEF PlacedAll
  <2>2. Apart(R)
    BY <1>1, <1>2, <1>6, PlacedApart
  <2>3. \A i \in 1..Len(R) : EndOf(R[i]) <= Len(lines)
    BY <1>4, <2>1
  <2>4. ApplyReplacements(lines, ByPosition(R)) = TextFrom(lines, R, 1)
    BY <2>1, <2>2, <2>3, AppliedIsText
  <2>5. Woven(lines, chunks, pos, cut) = TextFrom(lines, R, 1)
    BY <1>4, <2>1, WovenIsText
  <2>6. QED
    BY <1>1, <2>4, <2>5 DEF NewContent
<1>7. QED
  BY <1>3, <1>5, <1>6 DEF SaysOf

-----------------------------------------------------------------------------
(* PatchText: parsing gives hunks.                                         *)

LEMMA NoChunkType == NoChunk \in Chunks
BY DEF NoChunk, Chunks

LEMMA ChangedType ==
  ASSUME NEW chunks \in Seq(Chunks), NEW mark, NEW text \in TextLine
  PROVE  Changed(chunks, mark, text) \in Seq(Chunks)
<1>1. PICK all, c : all = (IF chunks = <<>> THEN <<NoChunk>> ELSE chunks) /\ c = Last(all)
  OBVIOUS
<1>2. all \in Seq(Chunks) /\ all # <<>>
  BY <1>1, NoChunkType
<1>3. Front(all) \in Seq(Chunks) /\ c \in Chunks
  BY <1>1, <1>2, FrontLast
<1>4. PICK old, new : /\ old = (IF mark = "+" THEN c.old ELSE Append(c.old, text))
                      /\ new = (IF mark = "-" THEN c.new ELSE Append(c.new, text))
  OBVIOUS
<1>5. c.old \in TextLines /\ c.new \in TextLines
  BY <1>3 DEF Chunks, TextLines, TextLine
<1>6. old \in TextLines /\ new \in TextLines
  BY <1>4, <1>5 DEF TextLines
<1>7. PICK d : d = [c EXCEPT !.old = old, !.new = new]
  OBVIOUS
<1>8. d \in Chunks
  BY <1>3, <1>6, <1>7 DEF Chunks, TextLines, TextLine
<1>9. Changed(chunks, mark, text) = Append(Front(all), d)
  BY <1>1, <1>4, <1>7 DEF Changed
<1>10. QED
  BY <1>3, <1>8, <1>9

\* What a line does to the last hunk, and the end of the file to it.
LEMMA BodyLineType ==
  ASSUME NEW Q, NEW h \in HunksOver(Q), NEW l \in EnvelopeLines
  PROVE  BodyLine(h, l) \in HunksOver(Q)
<1>1. PICK text : text = l.text
  OBVIOUS
<1>2. text \in TextLine
  BY <1>1 DEF EnvelopeLines, TextLine
<1>3. h.content \in TextLines /\ h.chunks \in Seq(Chunks)
  BY DEF HunksOver, TextLines, TextLine
<1>4. Append(h.content, text) \in TextLines
  BY <1>2, <1>3 DEF TextLines
<1>5. [h EXCEPT !.content = Append(@, l.text)] \in HunksOver(Q)
  <2>1. PICK x : x = Append(h.content, text)
    OBVIOUS
  <2>2. [h EXCEPT !.content = x] \in HunksOver(Q)
    BY <1>4, <2>1 DEF HunksOver, TextLines, TextLine
  <2>3. QED
    BY <1>1, <2>1, <2>2
<1>6. [h EXCEPT !.chunks = Append(@, [NoChunk EXCEPT !.at = l.text])] \in HunksOver(Q)
  <2>1. PICK c, x : c = [NoChunk EXCEPT !.at = text] /\ x = Append(h.chunks, c)
    OBVIOUS
  <2>2. c \in Chunks
    <3>1. PICK n : n = NoChunk
      OBVIOUS
    <3>2. n \in Chunks
      BY <3>1, NoChunkType
    <3>3. [n EXCEPT !.at = text] \in Chunks
      BY <1>2, <3>2 DEF Chunks, TextLine
    <3>4. QED
      BY <2>1, <3>1, <3>3
  <2>3. x \in Seq(Chunks)
    BY <1>3, <2>1, <2>2
  <2>4. [h EXCEPT !.chunks = x] \in HunksOver(Q)
    BY <2>3 DEF HunksOver
  <2>5. QED
    BY <1>1, <2>1, <2>4
<1>7. [h EXCEPT !.chunks = Changed(@, l.mark, l.text)] \in HunksOver(Q)
  <2>1. PICK x : x = Changed(h.chunks, l.mark, text)
    OBVIOUS
  <2>2. x \in Seq(Chunks)
    BY <1>2, <1>3, <2>1, ChangedType
  <2>3. [h EXCEPT !.chunks = x] \in HunksOver(Q)
    BY <2>2 DEF HunksOver
  <2>4. QED
    BY <1>1, <2>1, <2>3
<1>8. QED
  BY <1>5, <1>6, <1>7 DEF BodyLine

LEMMA AtEofType ==
  ASSUME NEW Q, NEW h \in HunksOver(Q)
  PROVE  AtEof(h) \in HunksOver(Q)
<1>1. CASE h.op = "update" /\ h.chunks # <<>>
  <2>1. h.chunks \in Seq(Chunks)
    BY DEF HunksOver
  <2>2. PICK f, c : f = Front(h.chunks) /\ c = Last(h.chunks)
    OBVIOUS
  <2>3. f \in Seq(Chunks) /\ c \in Chunks
    BY <1>1, <2>1, <2>2, FrontLast
  <2>4. PICK d, x : d = [c EXCEPT !.eof = TRUE] /\ x = Append(f, d)
    OBVIOUS
  <2>5. d \in Chunks
    BY <2>3, <2>4 DEF Chunks
  <2>6. x \in Seq(Chunks)
    BY <2>3, <2>4, <2>5
  <2>7. [h EXCEPT !.chunks = x] \in HunksOver(Q)
    BY <2>6 DEF HunksOver
  <2>8. AtEof(h) = [h EXCEPT !.chunks = x]
    BY <1>1, <2>2, <2>4 DEF AtEof
  <2>9. QED
    BY <2>7, <2>8
<1>2. CASE ~(h.op = "update" /\ h.chunks # <<>>)
  BY <1>2 DEF AtEof
<1>3. QED
  BY <1>1, <1>2

\* The hunks so far, over a set of paths, and what the next line belongs to.
Reading(P, p) ==
  /\ p \in [hunks : Seq(HunksOver(P \cup {<<>>})), in : {"none", "head", "body"}]
  /\ p.in # "none" => p.hunks # <<>>

LEMMA ReadingOf ==
  ASSUME NEW P, NEW hs \in Seq(HunksOver(P \cup {<<>>})), NEW x \in {"none", "head", "body"},
         x # "none" => hs # <<>>
  PROVE  Reading(P, [hunks |-> hs, in |-> x])
<1>1. PICK T : T = Seq(HunksOver(P \cup {<<>>}))
  OBVIOUS
<1>2. PICK p : p = [hunks |-> hs, in |-> x]
  OBVIOUS
<1>3. p \in [hunks : T, in : {"none", "head", "body"}] /\ p.hunks = hs /\ p.in = x
  BY <1>1, <1>2
<1>4. QED
  BY <1>1, <1>2, <1>3 DEF Reading

\* The marks apart from each other.
LEMMA MarksApart ==
  /\ "move" \notin FileMarks /\ "eof" \notin FileMarks /\ "move" # "eof"
  /\ FileMarks \subseteq Stars /\ "move" \in Stars /\ "eof" \in Stars
BY DEF FileMarks, Stars

\* One alternative of ParseLine at a time.
LEMMA ParseLineType ==
  ASSUME NEW P, NEW p, Reading(P, p), NEW l \in LinesOver(P)
  PROVE  Reading(P, ParseLine(p, l))
<1>1. PICK Q, hs, in : Q = P \cup {<<>>} /\ hs = p.hunks /\ in = p.in
  OBVIOUS
<1>2. /\ hs \in Seq(HunksOver(Q)) /\ (in # "none" => hs # <<>>) /\ in \in {"none", "head", "body"}
      /\ p \in [hunks : Seq(HunksOver(Q)), in : {"none", "head", "body"}] /\ l \in EnvelopeLines
  BY <1>1 DEF Reading, LinesOver
<1>3. ASSUME NEW g \in Seq(HunksOver(Q)), NEW x \in {"none", "head", "body"}, g # <<>>
      PROVE  Reading(P, [hunks |-> g, in |-> x])
  BY <1>1, <1>3, ReadingOf
<1>4. ASSUME hs # <<>>, NEW h \in HunksOver(Q)
      PROVE  Replaced(hs, h) \in Seq(HunksOver(Q)) /\ Replaced(hs, h) # <<>>
  <2>1. PICK f : f = Front(hs)
    OBVIOUS
  <2>2. f \in Seq(HunksOver(Q))
    BY <1>2, <1>4, <2>1, FrontLast
  <2>3. Append(f, h) \in Seq(HunksOver(Q)) /\ Append(f, h) # <<>>
    BY <1>4, <2>2, AppendType
  <2>4. QED
    BY <2>1, <2>3 DEF Replaced
<1>5. hs # <<>> => Last(hs) \in HunksOver(Q)
  BY <1>2, FrontLast
<1>6. CASE l.mark \in FileMarks
  <2>1. PICK h : h = Hunk(l.mark, l.text)
    OBVIOUS
  <2>2. h \in HunksOver(Q)
    <3>1. l.text \in Q /\ l.mark \in FileMarks
      BY <1>1, <1>6 DEF LinesOver
    <3>2. <<>> \in Q /\ <<>> \in Seq(Seq(STRING)) /\ <<>> \in Seq(Chunks)
      BY <1>1
    <3>3. QED
      BY <1>1, <2>1, <3>1, <3>2 DEF Hunk, HunksOver
  <2>3. PICK x : x = Opens(l.mark)
    OBVIOUS
  <2>4. x \in {"none", "head", "body"}
    BY <2>3 DEF Opens
  <2>5. PICK g : g = Append(hs, h)
    OBVIOUS
  <2>6. g \in Seq(HunksOver(Q)) /\ g # <<>>
    BY <1>2, <2>2, <2>5, AppendType
  <2>7. ParseLine(p, l) = [hunks |-> g, in |-> x]
    BY <1>1, <1>6, <2>1, <2>3, <2>5 DEF ParseLine
  <2>8. QED
    BY <1>3, <2>4, <2>6, <2>7
<1>7. CASE l.mark = "move" /\ in = "head"
  <2>1. PICK h, t : h = Last(hs) /\ t = l.text
    OBVIOUS
  <2>2. PICK g : g = [h EXCEPT !.move = t]
    OBVIOUS
  <2>3. h \in HunksOver(Q) /\ hs # <<>>
    BY <1>2, <1>5, <1>7, <2>1
  <2>4. t \in Q
    BY <1>1, <1>7, <2>1 DEF LinesOver
  <2>5. g \in HunksOver(Q)
    BY <1>1, <2>2, <2>3, <2>4 DEF HunksOver
  <2>6. PICK r : r = Replaced(hs, g)
    OBVIOUS
  <2>7. r \in Seq(HunksOver(Q)) /\ r # <<>>
    BY <1>4, <2>3, <2>5, <2>6
  <2>8. ParseLine(p, l) = [hunks |-> r, in |-> "body"]
    BY <1>1, <1>7, <2>1, <2>2, <2>6, MarksApart DEF ParseLine
  <2>9. QED
    BY <1>3, <2>7, <2>8
<1>8. CASE l.mark = "eof" /\ in # "none"
  <2>1. PICK h, g : h = Last(hs) /\ g = AtEof(h)
    OBVIOUS
  <2>2. h \in HunksOver(Q) /\ hs # <<>>
    BY <1>2, <1>5, <1>8, <2>1
  <2>3. g \in HunksOver(Q)
    BY <2>1, <2>2, AtEofType
  <2>4. PICK r : r = Replaced(hs, g)
    OBVIOUS
  <2>5. r \in Seq(HunksOver(Q)) /\ r # <<>>
    BY <1>4, <2>2, <2>3, <2>4
  <2>6. ParseLine(p, l) = [hunks |-> r, in |-> "none"]
    BY <1>1, <1>8, <2>1, <2>4, MarksApart DEF ParseLine
  <2>7. QED
    BY <1>3, <2>5, <2>6
<1>9. CASE /\ l.mark \notin FileMarks /\ ~(l.mark = "move" /\ in = "head")
           /\ ~(l.mark = "eof" /\ in # "none") /\ (l.mark \in Stars \/ in = "none")
  <2>1. ParseLine(p, l) = [p EXCEPT !.in = "none"]
    BY <1>1, <1>9 DEF ParseLine
  <2>2. [p EXCEPT !.in = "none"] = [hunks |-> hs, in |-> "none"]
    BY <1>1, <1>2
  <2>3. Reading(P, [hunks |-> hs, in |-> "none"])
    BY <1>1, <1>2, ReadingOf
  <2>4. QED
    BY <2>1, <2>2, <2>3
<1>10. CASE l.mark \notin Stars /\ in # "none"
  <2>1. PICK h, g : h = Last(hs) /\ g = BodyLine(h, l)
    OBVIOUS
  <2>2. h \in HunksOver(Q) /\ hs # <<>>
    BY <1>2, <1>5, <1>10, <2>1
  <2>3. g \in HunksOver(Q)
    BY <1>2, <2>1, <2>2, BodyLineType
  <2>4. PICK r : r = Replaced(hs, g)
    OBVIOUS
  <2>5. r \in Seq(HunksOver(Q)) /\ r # <<>>
    BY <1>4, <2>2, <2>3, <2>4
  <2>6. ParseLine(p, l) = [hunks |-> r, in |-> "body"]
    BY <1>1, <1>10, <2>1, <2>4, MarksApart DEF ParseLine
  <2>7. QED
    BY <1>3, <2>5, <2>6
<1>11. QED
  BY <1>6, <1>7, <1>8, <1>9, <1>10, MarksApart

\* ReadHunks' recursive function on a body, up to n of its lines.
ReadsStep(f, body, k) == IF k = 0 THEN [hunks |-> <<>>, in |-> "none"] ELSE ParseLine(f[k - 1], body[k])
Reads(f, body, n) == f = [k \in 0..n |-> ReadsStep(f, body, k)]

LEMMA ReadsAt ==
  ASSUME NEW f, NEW body, NEW n, Reads(f, body, n), NEW k \in 0..n
  PROVE  f[k] = ReadsStep(f, body, k)
BY DEF Reads

LEMMA ReadsExists ==
  ASSUME NEW body, NEW n \in Nat
  PROVE  \E f : Reads(f, body, n)
<1> DEFINE S == {m \in Nat : \E f : Reads(f, body, m)}
<1>1. 0 \in S
  <2>1. Reads([k \in 0..0 |-> [hunks |-> <<>>, in |-> "none"]], body, 0)
    BY DEF Reads, ReadsStep
  <2>2. QED
    BY <2>1
<1>2. ASSUME NEW m \in Nat, m \in S
      PROVE  m + 1 \in S
  <2>1. PICK f : Reads(f, body, m)
    BY <1>2
  <2> DEFINE g == [k \in 0..(m + 1) |-> ReadsStep(f, body, k)]
  <2>2. \A k \in 0..m : k \in 0..(m + 1) /\ f[k] = g[k]
    BY <2>1, ReadsAt
  <2>3. \A k \in 0..(m + 1) : ReadsStep(f, body, k) = ReadsStep(g, body, k)
    <3> HIDE DEF g
    <3>1. \A k \in 0..(m + 1) : k # 0 => k - 1 \in 0..m
      OBVIOUS
    <3>2. QED
      BY <2>2, <3>1 DEF ReadsStep
  <2>4. Reads(g, body, m + 1)
    BY <2>3 DEF Reads
  <2>5. QED
    BY <2>4
<1>3. Nat \subseteq S
  <2> HIDE DEF S
  <2>1. QED
    BY <1>1, <1>2, SetInduction
<1>4. QED
  BY <1>3

LEMMA ReadHunksReads ==
  ASSUME NEW body, Len(body) \in Nat
  PROVE  \E f : Reads(f, body, Len(body)) /\ ReadHunks(body) = f[Len(body)].hunks
<1>1. \E f : Reads(f, body, Len(body))
  BY ReadsExists
<1> DEFINE f == CHOOSE f : Reads(f, body, Len(body))
<1>2. Reads(f, body, Len(body))
  BY <1>1
<1>3. ReadHunks(body) = f[Len(body)].hunks
  BY DEF ReadHunks, Reads, ReadsStep
<1>4. QED
  BY <1>2, <1>3

LEMMA ReadHunksType ==
  ASSUME NEW P, NEW body \in Seq(LinesOver(P))
  PROVE  ReadHunks(body) \in Seq(HunksOver(P \cup {<<>>}))
<1>1. PICK n : n = Len(body)
  OBVIOUS
<1>2. n \in Nat
  BY <1>1
<1>3. PICK f : Reads(f, body, n) /\ ReadHunks(body) = f[n].hunks
  BY <1>1, <1>2, ReadHunksReads
<1> DEFINE S == {k \in Nat : k <= n => Reading(P, f[k])}
<1>4. 0 \in S
  <2>1. f[0] = ReadsStep(f, body, 0)
    <3>1. 0 \in 0..n
      BY <1>2
    <3>2. QED
      BY <1>3, <3>1, ReadsAt
  <2>2. f[0] = [hunks |-> <<>>, in |-> "none"]
    BY <2>1 DEF ReadsStep
  <2>3. Reading(P, [hunks |-> <<>>, in |-> "none"])
    <3>1. PICK e, x : e = <<>> /\ x = "none"
      OBVIOUS
    <3>2. e \in Seq(HunksOver(P \cup {<<>>})) /\ x \in {"none", "head", "body"} /\ ~(x # "none")
      BY <3>1
    <3>3. Reading(P, [hunks |-> e, in |-> x])
      BY <3>2, ReadingOf
    <3>4. QED
      BY <3>1, <3>3
  <2>4. QED
    BY <2>2, <2>3
<1>5. ASSUME NEW k \in Nat, k \in S
      PROVE  k + 1 \in S
  <2> SUFFICES ASSUME k + 1 <= n PROVE Reading(P, f[k + 1])
    OBVIOUS
  <2>1. PICK l : l = k + 1
    OBVIOUS
  <2>2. l \in 0..n /\ l # 0 /\ l - 1 = k /\ k <= n /\ l \in 1..Len(body)
    BY <1>1, <1>2, <2>1
  <2>3. f[l] = ParseLine(f[k], body[l])
    <3>1. f[l] = ReadsStep(f, body, l)
      BY <1>3, <2>2, ReadsAt
    <3>2. QED
      BY <2>2, <3>1 DEF ReadsStep
  <2>4. Reading(P, f[k]) /\ body[l] \in LinesOver(P)
    BY <1>5, <2>2
  <2>5. Reading(P, ParseLine(f[k], body[l]))
    BY <2>4, ParseLineType
  <2>6. QED
    BY <2>1, <2>3, <2>5
<1>6. Nat \subseteq S
  <2> HIDE DEF S
  <2>1. QED
    BY <1>4, <1>5, SetInduction
<1>7. Reading(P, f[n])
  BY <1>2, <1>6
<1>8. QED
  BY <1>3, <1>7 DEF Reading

\* What Parse accepts is hunks over the paths its lines name.
LEMMA ParseType ==
  ASSUME NEW P, NEW lines \in Seq(LinesOver(P)), Parse(lines) # Malformed
  PROVE  Parse(lines) \in Seq(HunksOver(P))
<1>1. PICK begins, ends : /\ begins = {i \in DOMAIN lines : lines[i].mark = "begin"}
                          /\ ends = {i \in DOMAIN lines : lines[i].mark = "end"}
  OBVIOUS
<1>2. PICK a, b : a = Min(begins) + 1 /\ b = Max(ends) - 1
  OBVIOUS
<1>3. PICK body : body = SubSeq(lines, a, b)
  OBVIOUS
<1>4. PICK hs : hs = ReadHunks(body)
  OBVIOUS
<1>5. Parse(lines) =
        IF begins = {} \/ ends = {} \/ Max(ends) <= Min(begins) THEN Malformed
        ELSE IF \E i \in DOMAIN hs :
                  hs[i].path = <<>> \/ (hs[i].op = "update" /\ hs[i].chunks = <<>>)
        THEN Malformed
        ELSE hs
  BY <1>1, <1>2, <1>3, <1>4 DEF Parse
<1>6. /\ begins # {} /\ ends # {} /\ ~(Max(ends) <= Min(begins))
      /\ ~\E i \in DOMAIN hs : hs[i].path = <<>> \/ (hs[i].op = "update" /\ hs[i].chunks = <<>>)
      /\ Parse(lines) = hs
  BY <1>5
<1>7. PICK n : n = Len(lines)
  OBVIOUS
<1>8. n \in Nat /\ DOMAIN lines = 1..n
  BY <1>7
<1>9. Min(begins) \in begins /\ Max(ends) \in ends
  <2>1. begins \subseteq Nat /\ ends \subseteq 0..n
    BY <1>1, <1>8
  <2>2. QED
    BY <1>6, <1>8, <2>1, LeastPlace, GreatestPlace
<1>10. a \in 1..(Len(lines) + 1) /\ b \in (a - 1)..Len(lines)
  <2>1. PICK u \in 1..n : u = Min(begins)
    BY <1>1, <1>8, <1>9
  <2>2. PICK v \in 1..n : v = Max(ends)
    BY <1>1, <1>8, <1>9
  <2>3. a = u + 1 /\ b = v - 1 /\ ~(v <= u)
    BY <1>2, <1>6, <2>1, <2>2
  <2>4. QED
    BY <1>7, <1>8, <2>3
<1>11. body \in Seq(LinesOver(P))
  BY <1>3, <1>10, PieceIs DEF IsPiece
<1>12. hs \in Seq(HunksOver(P \cup {<<>>}))
  BY <1>4, <1>11, ReadHunksType
<1>13. PICK m : m = Len(hs)
  OBVIOUS
<1>14. m \in Nat /\ DOMAIN hs = 1..m /\ \A i \in 1..m : hs[i] \in HunksOver(P \cup {<<>>})
  BY <1>12, <1>13
<1>15. \A i \in 1..m : hs[i] \in HunksOver(P)
  <2> TAKE i \in 1..m
  <2>1. hs[i] \in HunksOver(P \cup {<<>>}) /\ hs[i].path # <<>>
    BY <1>6, <1>14
  <2>2. PICK h : h = hs[i]
    OBVIOUS
  <2>3. h \in HunksOver(P)
    BY <2>1, <2>2 DEF HunksOver
  <2>4. QED
    BY <2>2, <2>3
<1>16. hs \in Seq(HunksOver(P))
  BY <1>12, <1>13, <1>14, <1>15
<1>17. QED
  BY <1>6, <1>16

-----------------------------------------------------------------------------
(* PatchText: the theorem.                                                 *)

\* The file is text, the patch lines of an envelope.
PatchTextTypes == original \in TextLines /\ envelope \in Seq(EnvelopeLines)

LEMMA PatchTextTyped == PatchSpec => []PatchTextTypes
<1>1. PatchInit => PatchTextTypes
  BY PatchTextAssumption DEF PatchInit, PatchTextTypes, TextLines, TextLine
<1>2. PatchTextTypes /\ [PatchNext]_patchVars => PatchTextTypes'
  <2> SUFFICES ASSUME PatchTextTypes, [PatchNext]_patchVars PROVE PatchTextTypes'
    OBVIOUS
  <2>1. ASSUME NEW l \in PatchLines, WriteLine(l)
        PROVE  PatchTextTypes'
    <3>1. l \in EnvelopeLines
      BY PatchTextAssumption
    <3>2. original' \in TextLines
      BY <2>1 DEF WriteLine, PatchTextTypes
    <3>3. envelope' = Append(envelope, l) /\ envelope \in Seq(EnvelopeLines)
      BY <2>1 DEF WriteLine, PatchTextTypes
    <3>4. Append(envelope, l) \in Seq(EnvelopeLines)
      BY <3>1, <3>3, AppendType
    <3>5. QED
      BY <3>2, <3>3, <3>4 DEF PatchTextTypes
  <2>2. CASE UNCHANGED patchVars
    BY <2>2 DEF PatchTextTypes, patchVars
  <2>3. QED
    BY <2>1, <2>2 DEF PatchNext
<1>3. QED
  BY <1>1, <1>2, PTL DEF PatchSpec

\* The property of a patch, its hunks and the file they apply to named.
LEMMA HunkSays ==
  ASSUME NEW lines \in TextLines, NEW P, NEW h \in HunksOver(P), NEW current,
         h.op = "update", current = [p \in {TargetPath} |-> lines], CanApply(<<h>>, current)
  PROVE  SaysOf(lines, h.chunks, Result(h, current).content)
<1>1. Applies(h, current)
  <2>1. PICK s : s = <<h>>
    OBVIOUS
  <2>2. 1 \in DOMAIN s /\ s[1] = h
    BY <2>1
  <2>3. QED
    BY <2>1, <2>2 DEF CanApply
<1>2. h.path \in DOMAIN current /\ Located(current[h.path], h.chunks).ok
  BY <1>1 DEF Applies
<1>3. current[h.path] = lines
  BY <1>2
<1>4. PICK chunks : chunks = h.chunks
  OBVIOUS
<1>5. chunks \in Seq(Chunks)
  BY <1>4 DEF HunksOver
<1>6. Located(lines, chunks).ok
  BY <1>2, <1>3, <1>4
<1>7. SaysOf(lines, chunks, NewContent(lines, chunks))
  BY <1>5, <1>6, NewContentSays
<1>8. Result(h, current).content = NewContent(current[h.path], h.chunks)
  BY DEF Result
<1>9. QED
  BY <1>3, <1>4, <1>7, <1>8

\* For every file and every patch over them, however long: the regions the chunks are
\* located at are apart and in the order of the chunks, the sort by position keeps each
\* region's lines with it, and replacing from the last region on moves nothing that is
\* still to be replaced: the new text is the old one with the patch's lines woven in.
THEOREM PatchesApplyAsWritten == PatchSpec => []PatchesDoWhatTheySay
<1>1. PatchTextTypes => PatchesDoWhatTheySay
  <2> SUFFICES ASSUME PatchTextTypes PROVE PatchesDoWhatTheySay
    OBVIOUS
  <2>1. PICK P : P = Seq(STRING)
    OBVIOUS
  <2>2. PICK lines : lines = Append(envelope, End)
    OBVIOUS
  <2>3. EnvelopeLines \subseteq LinesOver(P)
    BY <2>1 DEF LinesOver, EnvelopeLines
  <2>4. End \in EnvelopeLines
    BY DEF End, EnvelopeLines, Marks, Stars
  <2>5. lines \in Seq(LinesOver(P))
    <3>1. envelope \in Seq(LinesOver(P)) /\ End \in LinesOver(P)
      BY <2>3, <2>4 DEF PatchTextTypes
    <3>2. QED
      BY <2>2, <3>1, AppendType
  <2>6. PICK hunks : hunks = Parse(lines)
    OBVIOUS
  <2>7. PICK h : h = hunks[1]
    OBVIOUS
  <2>8. PICK current : current = [p \in {TargetPath} |-> original]
    OBVIOUS
  <2>9. ASSUME hunks # Malformed, hunks # <<>>, h.op = "update", CanApply(<<h>>, current)
        PROVE  SaysOf(original, h.chunks, Result(h, current).content)
    <3>1. hunks \in Seq(HunksOver(P))
      BY <2>5, <2>6, <2>9, ParseType
    <3>2. h \in HunksOver(P)
      BY <2>7, <2>9, <3>1
    <3>3. original \in TextLines
      BY DEF PatchTextTypes
    <3>4. QED
      BY <2>8, <2>9, <3>2, <3>3, HunkSays
  <2>10. QED
    BY <2>2, <2>6, <2>7, <2>8, <2>9 DEF PatchesDoWhatTheySay, SaysOf
<1>2. QED
  BY <1>1, PatchTextTyped, PTL

-----------------------------------------------------------------------------
(* Worktree, for every set of paths, jobs and envelopes: restores.         *)

\* The fields of a job are those it was begun with.
IsJob(r) ==
  /\ r = [kind |-> r.kind, tree |-> r.tree, pc |-> r.pc, before |-> r.before, added |-> r.added,
          out |-> r.out, left |-> r.left, alone |-> r.alone]
  /\ r.kind \in {"snapshot", "restore"} /\ r.alone \in BOOLEAN

TreeShapes ==
  /\ files = [p \in Paths |-> files[p]]
  /\ jobs = [j \in Jobs |-> jobs[j]] /\ \A j \in Jobs : jobs[j] = Idle \/ IsJob(jobs[j])
  /\ \E S : trees \in Seq(S)

\* The files a restore has to remove: there when it was begun, and not in the tree.
ToRemove(j) == {p \in Paths \ Ignored : jobs[j].before[p] # Absent /\ Tree(j)[p] = Absent}

\* Where a restore is that nobody has disturbed.
RestoreAt(j) ==
  LET job == jobs[j]
  IN /\ job.pc \notin {"writing", "removing", "done"} => \A p \in Paths : files[p] = job.before[p]
     /\ job.pc \in {"diff", "read-tree"} => \A p \in Paths \ Ignored : index[p] = files[p]
     /\ job.pc = "checkout-index" => \A p \in Paths : index[p] = Tree(j)[p]
     /\ job.pc \in {"read-tree", "checkout-index", "writing"} => job.added = ToRemove(j)
     /\ (job.pc = "writing") =>
          /\ \A p \in Paths : job.out[p] = Tree(j)[p]
          /\ \A p \in job.left : p \in Paths /\ Tree(j)[p] # Absent
          /\ \A p \in Paths : files[p] = IF Tree(j)[p] = Absent \/ p \in job.left
                                         THEN job.before[p] ELSE Tree(j)[p]
     /\ job.pc \in {"removing", "done"} =>
          /\ job.added \subseteq ToRemove(j)
          /\ job.pc = "removing" => job.left \subseteq job.added
          /\ \A p \in Paths : files[p] = IF Tree(j)[p] # Absent \/ p \in ToRemove(j) \ job.added
                                         THEN Tree(j)[p] ELSE job.before[p]

\* Where a snapshot is.
SnapshotAt(j) ==
  /\ jobs[j].pc = "add" => \A p \in Paths : files[p] = jobs[j].before[p]
  /\ jobs[j].pc = "write-tree" => \A p \in Paths \ Ignored : index[p] = jobs[j].before[p]

JobOK(j) ==
  Busy(j) =>
    /\ jobs[j].kind = "restore" => jobs[j].tree \in DOMAIN trees /\ jobs[j].pc # "write-tree"
    /\ jobs[j].kind = "snapshot" => jobs[j].pc \in {"add", "write-tree"}
    /\ jobs[j].alone =>
         /\ \A k \in Jobs : Busy(k) => k = j
         /\ jobs[j].kind = "restore" => RestoreAt(j)
         /\ jobs[j].kind = "snapshot" => SnapshotAt(j)

\* Ignored files are in no tree, and a snapshot nobody disturbed is what the files were.
TreesInv ==
  /\ \A p \in Ignored : index[p] = Absent
  /\ \A n \in DOMAIN trees :
       /\ \A p \in Ignored : trees[n].files[p] = Absent
       /\ trees[n].alone => \A p \in Paths \ Ignored : trees[n].files[p] = trees[n].of[p]

GitInv == TreeShapes /\ TreesInv /\ \A j \in Jobs : JobOK(j)

\* A job nobody has disturbed is the only one.
LEMMA AloneIsAlone ==
  ASSUME GitInv, NEW j \in Jobs, NEW k \in Jobs, Busy(j), Busy(k), jobs[k].alone
  PROVE  k = j
  BY DEF GitInv, JobOK

LEMMA BusyIsJob ==
  ASSUME GitInv, NEW j \in Jobs, Busy(j)
  PROVE  IsJob(jobs[j])
  BY DEF GitInv, TreeShapes, Busy, Idle

\* A job that is disturbed, or has nothing more to do, is as it should be.
LEMMA DisturbedIsOK ==
  ASSUME GitInv, NEW k \in Jobs, DOMAIN trees \subseteq DOMAIN trees',
         ~Busy(k)' \/ (Busy(k) /\ jobs'[k].kind = jobs[k].kind /\ jobs'[k].tree = jobs[k].tree
                       /\ jobs'[k].pc = jobs[k].pc /\ ~jobs'[k].alone)
  PROVE  JobOK(k)'
  BY DEF GitInv, JobOK, Busy

\* One job moves on: the others are as they were.
LEMMA OneJobMoves ==
  ASSUME GitInv, NEW j \in Jobs, Busy(j), NEW r, r = Idle \/ IsJob(r),
         jobs' = [jobs EXCEPT ![j] = r], DOMAIN trees \subseteq DOMAIN trees'
  PROVE  /\ jobs'[j] = r /\ \A k \in Jobs : k # j => jobs'[k] = jobs[k]
         /\ jobs' = [k \in Jobs |-> jobs'[k]] /\ \A k \in Jobs : jobs'[k] = Idle \/ IsJob(jobs'[k])
         /\ \A k \in Jobs : k # j => JobOK(k)'
<1>1. jobs'[j] = r /\ \A k \in Jobs : k # j => jobs'[k] = jobs[k]
  BY DEF GitInv, TreeShapes
<1>2. jobs' = [k \in Jobs |-> jobs'[k]] /\ \A k \in Jobs : jobs'[k] = Idle \/ IsJob(jobs'[k])
  BY <1>1 DEF GitInv, TreeShapes
<1>3. ASSUME NEW k \in Jobs, k # j
      PROVE  JobOK(k)'
  <2>1. jobs'[k] = jobs[k]
    BY <1>1, <1>3
  <2>2. Busy(k) => ~jobs[k].alone
    BY <1>3, AloneIsAlone
  <2>3. QED
    BY <2>1, <2>2, DisturbedIsOK DEF Busy
<1>4. QED
  BY <1>1, <1>2, <1>3

\* The jobs when somebody else writes.
LEMMA DisturbedJobs ==
  ASSUME GitInv, NEW self, NEW k \in Jobs
  PROVE  /\ Disturbed(self) = [n \in Jobs |-> Disturbed(self)[n]]
         /\ k = self \/ ~Busy(k) => Disturbed(self)[k] = jobs[k]
         /\ k # self /\ Busy(k) =>
              /\ IsJob(Disturbed(self)[k]) /\ Disturbed(self)[k].kind = jobs[k].kind
              /\ Disturbed(self)[k].tree = jobs[k].tree /\ Disturbed(self)[k].pc = jobs[k].pc
              /\ ~Disturbed(self)[k].alone
<1>1. Disturbed(self) = [n \in Jobs |-> Disturbed(self)[n]]
  BY DEF Disturbed
<1>2. k = self \/ ~Busy(k) => Disturbed(self)[k] = jobs[k]
  BY DEF Disturbed
<1>3. ASSUME k # self, Busy(k)
      PROVE  /\ IsJob(Disturbed(self)[k]) /\ Disturbed(self)[k].kind = jobs[k].kind
             /\ Disturbed(self)[k].tree = jobs[k].tree /\ Disturbed(self)[k].pc = jobs[k].pc
             /\ ~Disturbed(self)[k].alone
  <2>1. PICK r : r = jobs[k]
    OBVIOUS
  <2>2. Disturbed(self)[k] = [r EXCEPT !.alone = FALSE]
    BY <1>3, <2>1 DEF Disturbed
  <2>3. IsJob(r)
    BY <1>3, <2>1, BusyIsJob
  <2>4. QED
    BY <2>1, <2>2, <2>3 DEF IsJob
<1>4. QED
  BY <1>1, <1>2, <1>3

\* One job begins or writes: the others are disturbed.
LEMMA OneJobWrites ==
  ASSUME GitInv, NEW j \in Jobs, NEW r, IsJob(r),
         jobs' = [Disturbed(j) EXCEPT ![j] = r], DOMAIN trees \subseteq DOMAIN trees'
  PROVE  /\ jobs'[j] = r
         /\ jobs' = [k \in Jobs |-> jobs'[k]] /\ \A k \in Jobs : jobs'[k] = Idle \/ IsJob(jobs'[k])
         /\ \A k \in Jobs : k # j => JobOK(k)'
<1> DEFINE D == Disturbed(j)
<1>1. D = [n \in Jobs |-> D[n]]
  BY DisturbedJobs
<1>2. jobs' = [D EXCEPT ![j] = r]
  OBVIOUS
<1> HIDE DEF D
<1>3. jobs'[j] = r /\ \A k \in Jobs : k # j => jobs'[k] = D[k]
  BY <1>1, <1>2
<1>4. jobs' = [k \in Jobs |-> jobs'[k]]
  BY <1>1, <1>2
<1>5. ASSUME NEW k \in Jobs, k # j
      PROVE  (jobs'[k] = Idle \/ IsJob(jobs'[k])) /\ JobOK(k)'
  <2>1. jobs'[k] = Disturbed(j)[k]
    BY <1>3, <1>5 DEF D
  <2>2. CASE Busy(k)
    BY <1>5, <2>1, <2>2, DisturbedJobs, DisturbedIsOK
  <2>3. CASE ~Busy(k)
    <3>1. jobs'[k] = jobs[k] /\ jobs[k] = Idle
      BY <2>1, <2>3, DisturbedJobs DEF GitInv, TreeShapes, IsJob, Busy
    <3>2. ~Busy(k)'
      BY <2>3, <3>1 DEF Busy
    <3>3. QED
      BY <3>1, <3>2, DisturbedIsOK
  <2>4. QED
    BY <2>2, <2>3
<1>6. QED
  BY <1>3, <1>4, <1>5

\* Somebody who is no job writes: all are disturbed.
LEMMA OutsiderWrites ==
  ASSUME GitInv, jobs' = Disturbed(""), UNCHANGED trees
  PROVE  /\ jobs' = [k \in Jobs |-> jobs'[k]] /\ \A k \in Jobs : jobs'[k] = Idle \/ IsJob(jobs'[k])
         /\ \A k \in Jobs : JobOK(k)'
<1>1. jobs' = [k \in Jobs |-> jobs'[k]]
  BY DisturbedJobs DEF Disturbed
<1>2. ASSUME NEW k \in Jobs
      PROVE  (jobs'[k] = Idle \/ IsJob(jobs'[k])) /\ JobOK(k)'
  <2>1. k # ""
    BY WorktreeAssumption
  <2>2. CASE Busy(k)
    BY <2>1, <2>2, DisturbedJobs, DisturbedIsOK
  <2>3. CASE ~Busy(k)
    <3>1. jobs'[k] = jobs[k] /\ jobs[k] = Idle
      BY <2>3, DisturbedJobs DEF GitInv, TreeShapes, IsJob, Busy
    <3>2. ~Busy(k)'
      BY <2>3, <3>1 DEF Busy
    <3>3. QED
      BY <3>1, <3>2, DisturbedIsOK
  <2>4. QED
    BY <2>2, <2>3
<1>3. QED
  BY <1>1, <1>2

\* A job that moves on keeps what it was begun with.
Same(r, q) == r.kind = q.kind /\ r.tree = q.tree /\ r.before = q.before /\ r.alone = q.alone

\* The steps of a job that changes its own record only, and the index.
LEMMA JobMoves ==
  ASSUME GitInv, NEW j \in Jobs, Busy(j), NEW r, IsJob(r), Same(r, jobs[j]),
         jobs' = [jobs EXCEPT ![j] = r], UNCHANGED <<files, trees>>,
         TreesInv',
         jobs[j].kind = "snapshot" => r.pc \in {"add", "write-tree"},
         jobs[j].kind = "restore" => r.pc # "write-tree",
         jobs[j].alone /\ jobs[j].kind = "restore" => RestoreAt(j)',
         jobs[j].alone /\ jobs[j].kind = "snapshot" => SnapshotAt(j)'
  PROVE  GitInv'
<1>1. DOMAIN trees \subseteq DOMAIN trees'
  OBVIOUS
<1>2. /\ jobs'[j] = r /\ \A k \in Jobs : k # j => jobs'[k] = jobs[k]
      /\ jobs' = [k \in Jobs |-> jobs'[k]] /\ \A k \in Jobs : jobs'[k] = Idle \/ IsJob(jobs'[k])
      /\ \A k \in Jobs : k # j => JobOK(k)'
  BY <1>1, OneJobMoves
<1>3. TreeShapes'
  BY <1>2 DEF GitInv, TreeShapes
<1>4. ASSUME jobs[j].alone, NEW k \in Jobs, Busy(k)'
      PROVE  k = j
  BY <1>2, <1>4 DEF GitInv, JobOK, Busy
<1>5. JobOK(j)'
  BY <1>2, <1>4 DEF GitInv, JobOK, Same
<1>6. QED
  BY <1>2, <1>3, <1>5 DEF GitInv

\* What is true of a restore, or of a snapshot, that nobody has disturbed.
LEMMA AloneAt ==
  ASSUME GitInv, NEW j \in Jobs, Busy(j), jobs[j].alone
  PROVE  /\ jobs[j].kind = "restore" => RestoreAt(j) /\ jobs[j].tree \in DOMAIN trees
         /\ jobs[j].kind = "snapshot" => SnapshotAt(j)
  BY DEF GitInv, JobOK

LEMMA BusyPoints ==
  ASSUME GitInv, NEW j \in Jobs, Busy(j)
  PROVE  /\ jobs[j].kind = "snapshot" => jobs[j].pc \in {"add", "write-tree"}
         /\ jobs[j].kind = "restore" => jobs[j].tree \in DOMAIN trees /\ jobs[j].pc # "write-tree"
  BY DEF GitInv, JobOK

LEMMA AddAllStep ==
  ASSUME GitInv, NEW j \in Jobs, AddAll(j)
  PROVE  GitInv'
<1>1. PICK job : job = jobs[j]
  OBVIOUS
<1>2. PICK r : r = [job EXCEPT !.pc = IF job.kind = "restore" THEN "diff" ELSE "write-tree"]
  OBVIOUS
<1>3. Busy(j) /\ IsJob(job) /\ job.pc = "add" /\ UNCHANGED <<files, trees>>
      /\ jobs' = [jobs EXCEPT ![j] = r]
  BY <1>1, <1>2, BusyIsJob DEF AddAll, At
<1>4. /\ IsJob(r) /\ Same(r, job)
      /\ r.pc = IF job.kind = "restore" THEN "diff" ELSE "write-tree"
  BY <1>2, <1>3 DEF IsJob, Same
<1>5. jobs'[j] = r
  BY <1>3 DEF GitInv, TreeShapes
<1>6. \A p \in Paths : index'[p] = IF p \in Ignored THEN index[p] ELSE files[p]
  BY DEF AddAll
<1>7. TreesInv'
  BY <1>3, <1>6, WorktreeAssumption DEF GitInv, TreesInv
<1>8. job.alone => \A p \in Paths : files[p] = job.before[p]
  BY <1>1, <1>3, <1>4, AloneAt DEF RestoreAt, SnapshotAt, IsJob
<1>9. job.alone /\ job.kind = "restore" => RestoreAt(j)'
  BY <1>3, <1>4, <1>5, <1>6, <1>8 DEF RestoreAt, Same
<1>10. job.alone /\ job.kind = "snapshot" => SnapshotAt(j)'
  BY <1>3, <1>4, <1>5, <1>6, <1>8 DEF SnapshotAt, Same
<1>11. QED
  BY <1>1, <1>3, <1>4, <1>7, <1>9, <1>10, JobMoves

LEMMA DiffStep ==
  ASSUME GitInv, NEW j \in Jobs, Diff(j)
  PROVE  GitInv'
<1>1. PICK job : job = jobs[j]
  OBVIOUS
<1>2. PICK r : r = [[job EXCEPT !.added = Added(Tree(j))] EXCEPT !.pc = "read-tree"]
  OBVIOUS
<1>3. Busy(j) /\ IsJob(job) /\ job.pc = "diff" /\ UNCHANGED <<files, trees, index>>
      /\ jobs' = [jobs EXCEPT ![j] = r]
  BY <1>1, <1>2, BusyIsJob DEF Diff, At
<1>4. IsJob(r) /\ Same(r, job) /\ r.pc = "read-tree" /\ r.added = Added(Tree(j))
  BY <1>2, <1>3 DEF IsJob, Same
<1>5. jobs'[j] = r /\ Tree(j)' = Tree(j)
  BY <1>1, <1>3, <1>4 DEF GitInv, TreeShapes, Tree, Same
<1>6. TreesInv'
  BY <1>3 DEF GitInv, TreesInv
<1>7. ASSUME job.alone, job.kind = "restore"
      PROVE  RestoreAt(j)'
  <2>1. RestoreAt(j)
    BY <1>1, <1>3, <1>7, AloneAt
  <2>2. /\ \A p \in Paths : files[p] = job.before[p]
        /\ \A p \in Paths \ Ignored : index[p] = files[p]
    BY <1>1, <1>3, <2>1 DEF RestoreAt
  <2>3. \A p \in Ignored : index[p] = Absent
    BY DEF GitInv, TreesInv
  <2>4. Added(Tree(j)) = ToRemove(j)
    BY <1>1, <2>2, <2>3, WorktreeAssumption DEF Added, ToRemove
  <2>5. ToRemove(j)' = ToRemove(j)
    BY <1>1, <1>4, <1>5 DEF ToRemove, Same
  <2>6. QED
    BY <1>3, <1>4, <1>5, <2>2, <2>4, <2>5 DEF RestoreAt, Same
<1>8. job.kind = "restore"
  BY <1>1, <1>3, BusyPoints DEF IsJob
<1>9. QED
  BY <1>1, <1>3, <1>4, <1>6, <1>7, <1>8, JobMoves

LEMMA ReadTreeStep ==
  ASSUME GitInv, NEW j \in Jobs, ReadTree(j)
  PROVE  GitInv'
<1>1. PICK job : job = jobs[j]
  OBVIOUS
<1>2. PICK r : r = [job EXCEPT !.pc = "checkout-index"]
  OBVIOUS
<1>3. Busy(j) /\ IsJob(job) /\ job.pc = "read-tree" /\ UNCHANGED <<files, trees>> /\ index' = Tree(j)
      /\ jobs' = [jobs EXCEPT ![j] = r]
  BY <1>1, <1>2, BusyIsJob DEF ReadTree, At
<1>4. IsJob(r) /\ Same(r, job) /\ r.pc = "checkout-index" /\ r.added = job.added
  BY <1>2, <1>3 DEF IsJob, Same
<1>5. jobs'[j] = r /\ Tree(j)' = Tree(j)
  BY <1>1, <1>3, <1>4 DEF GitInv, TreeShapes, Tree, Same
<1>6. job.kind = "restore" /\ job.tree \in DOMAIN trees
  BY <1>1, <1>3, BusyPoints DEF IsJob
<1>7. TreesInv'
  <2>1. \A p \in Ignored : Tree(j)[p] = Absent
    BY <1>1, <1>6 DEF GitInv, TreesInv, Tree
  <2>2. QED
    BY <1>3, <2>1 DEF GitInv, TreesInv
<1>8. ASSUME job.alone
      PROVE  RestoreAt(j)'
  <2>1. RestoreAt(j)
    BY <1>1, <1>3, <1>6, <1>8, AloneAt
  <2>2. (\A p \in Paths : files[p] = job.before[p]) /\ job.added = ToRemove(j)
    BY <1>1, <1>3, <2>1 DEF RestoreAt
  <2>3. ToRemove(j)' = ToRemove(j)
    BY <1>1, <1>4, <1>5 DEF ToRemove, Same
  <2>4. QED
    BY <1>3, <1>4, <1>5, <2>2, <2>3 DEF RestoreAt, Same
<1>9. QED
  BY <1>1, <1>3, <1>4, <1>6, <1>7, <1>8, JobMoves

LEMMA CheckOutStep ==
  ASSUME GitInv, NEW j \in Jobs, CheckOut(j)
  PROVE  GitInv'
<1>1. PICK job : job = jobs[j]
  OBVIOUS
<1>2. PICK r : r = [[[job EXCEPT !.out = index] EXCEPT !.left = {p \in Paths : index[p] # Absent}]
                      EXCEPT !.pc = "writing"]
  OBVIOUS
<1>3. Busy(j) /\ IsJob(job) /\ job.pc = "checkout-index" /\ UNCHANGED <<files, trees, index>>
      /\ jobs' = [jobs EXCEPT ![j] = r]
  BY <1>1, <1>2, BusyIsJob DEF CheckOut, At
<1>4. /\ IsJob(r) /\ Same(r, job) /\ r.pc = "writing" /\ r.added = job.added
      /\ r.out = index /\ r.left = {p \in Paths : index[p] # Absent}
  BY <1>2, <1>3 DEF IsJob, Same
<1>5. jobs'[j] = r /\ Tree(j)' = Tree(j)
  BY <1>1, <1>3, <1>4 DEF GitInv, TreeShapes, Tree, Same
<1>6. job.kind = "restore" /\ TreesInv'
  BY <1>1, <1>3, BusyPoints DEF IsJob, GitInv, TreesInv
<1>7. ASSUME job.alone
      PROVE  RestoreAt(j)'
  <2>1. RestoreAt(j)
    BY <1>1, <1>3, <1>6, <1>7, AloneAt
  <2>2. /\ \A p \in Paths : files[p] = job.before[p] /\ index[p] = Tree(j)[p]
        /\ job.added = ToRemove(j)
    BY <1>1, <1>3, <2>1 DEF RestoreAt
  <2>3. ToRemove(j)' = ToRemove(j)
    BY <1>1, <1>4, <1>5 DEF ToRemove, Same
  <2>4. QED
    BY <1>3, <1>4, <1>5, <2>2, <2>3 DEF RestoreAt, Same
<1>8. QED
  BY <1>1, <1>3, <1>4, <1>6, <1>7, JobMoves

LEMMA WrittenStep ==
  ASSUME GitInv, NEW j \in Jobs, Written(j)
  PROVE  GitInv'
<1>1. PICK job : job = jobs[j]
  OBVIOUS
<1>2. PICK r : r = [[job EXCEPT !.left = job.added] EXCEPT !.pc = "removing"]
  OBVIOUS
<1>3. Busy(j) /\ IsJob(job) /\ job.pc = "writing" /\ UNCHANGED <<files, trees, index>>
      /\ job.left = {} /\ jobs' = [jobs EXCEPT ![j] = r]
  BY <1>1, <1>2, BusyIsJob DEF Written, At
<1>4. /\ IsJob(r) /\ Same(r, job) /\ r.pc = "removing" /\ r.added = job.added
      /\ r.left = job.added
  BY <1>2, <1>3 DEF IsJob, Same
<1>5. jobs'[j] = r /\ Tree(j)' = Tree(j)
  BY <1>1, <1>3, <1>4 DEF GitInv, TreeShapes, Tree, Same
<1>6. job.kind = "restore" /\ TreesInv'
  BY <1>1, <1>3, BusyPoints DEF IsJob, GitInv, TreesInv
<1>7. ASSUME job.alone
      PROVE  RestoreAt(j)'
  <2>1. RestoreAt(j)
    BY <1>1, <1>3, <1>6, <1>7, AloneAt
  <2>2. /\ job.added = ToRemove(j)
        /\ \A p \in Paths : files[p] = IF Tree(j)[p] = Absent THEN job.before[p] ELSE Tree(j)[p]
    BY <1>1, <1>3, <2>1 DEF RestoreAt
  <2>3. ToRemove(j)' = ToRemove(j)
    BY <1>1, <1>4, <1>5 DEF ToRemove, Same
  <2>4. QED
    BY <1>3, <1>4, <1>5, <2>2, <2>3 DEF RestoreAt, Same
<1>8. QED
  BY <1>1, <1>3, <1>4, <1>6, <1>7, JobMoves

LEMMA RemovedStep ==
  ASSUME GitInv, NEW j \in Jobs, Removed(j)
  PROVE  GitInv'
<1>1. PICK job : job = jobs[j]
  OBVIOUS
<1>2. PICK r : r = [job EXCEPT !.pc = "done"]
  OBVIOUS
<1>3. Busy(j) /\ IsJob(job) /\ job.pc = "removing" /\ UNCHANGED <<files, trees, index>>
      /\ jobs' = [jobs EXCEPT ![j] = r]
  BY <1>1, <1>2, BusyIsJob DEF Removed, At
<1>4. IsJob(r) /\ Same(r, job) /\ r.pc = "done" /\ r.added = job.added
  BY <1>2, <1>3 DEF IsJob, Same
<1>5. jobs'[j] = r /\ Tree(j)' = Tree(j)
  BY <1>1, <1>3, <1>4 DEF GitInv, TreeShapes, Tree, Same
<1>6. job.kind = "restore" /\ TreesInv'
  BY <1>1, <1>3, BusyPoints DEF IsJob, GitInv, TreesInv
<1>7. ASSUME job.alone
      PROVE  RestoreAt(j)'
  <2>1. RestoreAt(j)
    BY <1>1, <1>3, <1>6, <1>7, AloneAt
  <2>2. ToRemove(j)' = ToRemove(j)
    BY <1>1, <1>4, <1>5 DEF ToRemove, Same
  <2>3. QED
    BY <1>1, <1>3, <1>4, <1>5, <2>1, <2>2 DEF RestoreAt, Same
<1>8. QED
  BY <1>1, <1>3, <1>4, <1>6, <1>7, JobMoves

LEMMA ReturnStep ==
  ASSUME GitInv, NEW j \in Jobs, Return(j)
  PROVE  GitInv'
<1>1. /\ Busy(j) /\ jobs' = [jobs EXCEPT ![j] = Idle] /\ UNCHANGED <<files, index, trees>>
      /\ DOMAIN trees \subseteq DOMAIN trees'
  BY DEF Return
<1>2. /\ jobs'[j] = Idle /\ jobs' = [k \in Jobs |-> jobs'[k]]
      /\ \A k \in Jobs : jobs'[k] = Idle \/ IsJob(jobs'[k])
      /\ \A k \in Jobs : k # j => JobOK(k)'
  BY <1>1, OneJobMoves
<1>3. JobOK(j)'
  BY <1>2 DEF JobOK, Busy, Idle
<1>4. QED
  BY <1>1, <1>2, <1>3 DEF GitInv, TreeShapes, TreesInv

LEMMA WriteTreeStep ==
  ASSUME GitInv, NEW j \in Jobs, WriteTree(j)
  PROVE  GitInv'
<1>1. PICK job : job = jobs[j]
  OBVIOUS
<1>2. PICK t : t = [files |-> index, of |-> job.before, alone |-> job.alone]
  OBVIOUS
<1>3. /\ Busy(j) /\ IsJob(job) /\ job.pc = "write-tree" /\ jobs' = [jobs EXCEPT ![j] = Idle]
      /\ UNCHANGED <<files, index>> /\ trees' = Append(trees, t)
  BY <1>1, <1>2, BusyIsJob DEF WriteTree, At
<1>4. PICK S : trees \in Seq(S)
  BY DEF GitInv, TreeShapes
<1>5. trees \in Seq(S \cup {t})
  BY <1>4
<1>6. /\ trees' \in Seq(S \cup {t}) /\ Len(trees') = Len(trees) + 1
      /\ trees'[Len(trees) + 1] = t
      /\ \A n \in DOMAIN trees : n \in DOMAIN trees' /\ trees'[n] = trees[n]
  BY <1>3, <1>5
<1>7. /\ jobs' = [k \in Jobs |-> jobs'[k]] /\ \A k \in Jobs : jobs'[k] = Idle \/ IsJob(jobs'[k])
      /\ jobs'[j] = Idle /\ \A k \in Jobs : k # j => JobOK(k)'
  BY <1>3, <1>6, OneJobMoves
<1>8. TreeShapes'
  BY <1>3, <1>6, <1>7 DEF GitInv, TreeShapes
<1>9. JobOK(j)'
  BY <1>7 DEF JobOK, Busy, Idle
<1>10. job.alone => \A p \in Paths \ Ignored : index[p] = job.before[p]
  BY <1>1, <1>3, AloneAt, BusyPoints DEF SnapshotAt, IsJob
<1>11. TreesInv'
  BY <1>2, <1>3, <1>4, <1>6, <1>10 DEF GitInv, TreesInv
<1>12. QED
  BY <1>7, <1>8, <1>9, <1>11 DEF GitInv

\* Whatever is written, the worktree has the same paths.
Writes(f, c) == files' \in {files, [files EXCEPT ![f] = c]}

LEMMA OneFileWritten ==
  ASSUME GitInv, NEW f, NEW c, Writes(f, c)
  PROVE  /\ files' = [p \in Paths |-> files'[p]]
         /\ \A p \in Paths : p # f => files'[p] = files[p]
         /\ f \in Paths => files'[f] \in {files[f], c}
         /\ f \in Paths /\ files' = [files EXCEPT ![f] = c] => files'[f] = c
  BY DEF GitInv, TreeShapes, Writes

LEMMA StartStep ==
  ASSUME GitInv, NEW j \in Jobs, NEW what, NEW tree, Start(j, what, tree),
         what = "snapshot" \/ (what = "restore" /\ tree \in DOMAIN trees)
  PROVE  GitInv'
<1>1. PICK r : r = [kind |-> what, tree |-> tree, pc |-> "add", before |-> files, added |-> {},
                    out |-> files, left |-> {}, alone |-> \A k \in Jobs : ~Busy(k)]
  OBVIOUS
<1>2. /\ IsJob(r) /\ r.pc = "add" /\ r.before = files /\ r.kind = what /\ r.tree = tree
      /\ r.alone => \A k \in Jobs : ~Busy(k)
  BY <1>1 DEF IsJob
<1>3. /\ jobs' = [Disturbed(j) EXCEPT ![j] = r] /\ UNCHANGED <<files, index, trees>>
      /\ DOMAIN trees \subseteq DOMAIN trees'
  BY <1>1 DEF Start
<1>4. /\ jobs'[j] = r /\ jobs' = [k \in Jobs |-> jobs'[k]]
      /\ \A k \in Jobs : jobs'[k] = Idle \/ IsJob(jobs'[k])
      /\ \A k \in Jobs : k # j => JobOK(k)'
  BY <1>2, <1>3, OneJobWrites
<1>5. ASSUME r.alone, NEW k \in Jobs, Busy(k)'
      PROVE  k = j
  <2>1. SUFFICES ASSUME k # j PROVE FALSE
    OBVIOUS
  <2>2. ~Busy(k)
    BY <1>2, <1>5
  <2>3. jobs'[k] = Disturbed(j)[k]
    BY <1>3, <2>1 DEF Disturbed
  <2>4. jobs'[k] = jobs[k]
    BY <2>2, <2>3, DisturbedJobs
  <2>5. QED
    BY <1>5, <2>2, <2>4 DEF Busy
<1>6. r.kind = "restore" => RestoreAt(j)'
  BY <1>2, <1>3, <1>4 DEF RestoreAt
<1>7. r.kind = "snapshot" => SnapshotAt(j)'
  BY <1>2, <1>3, <1>4 DEF SnapshotAt
<1>8. JobOK(j)'
  BY <1>2, <1>3, <1>4, <1>5, <1>6, <1>7 DEF JobOK
<1>9. QED
  BY <1>3, <1>4, <1>8 DEF GitInv, TreeShapes, TreesInv

\* A restore that writes or removes a file.
LEMMA JobWrites ==
  ASSUME GitInv, NEW j \in Jobs, Busy(j), NEW r, IsJob(r), Same(r, jobs[j]),
         jobs[j].pc \in {"writing", "removing"}, r.pc = jobs[j].pc,
         jobs' = [Disturbed(j) EXCEPT ![j] = r], UNCHANGED <<index, trees>>,
         files' = [p \in Paths |-> files'[p]],
         jobs[j].alone => RestoreAt(j)'
  PROVE  GitInv'
<1>1. DOMAIN trees \subseteq DOMAIN trees'
  OBVIOUS
<1>2. /\ jobs'[j] = r /\ jobs' = [k \in Jobs |-> jobs'[k]]
      /\ \A k \in Jobs : jobs'[k] = Idle \/ IsJob(jobs'[k])
      /\ \A k \in Jobs : k # j => JobOK(k)'
  BY <1>1, OneJobWrites
<1>3. ASSUME jobs[j].alone, NEW k \in Jobs, Busy(k)'
      PROVE  k = j
  <2>1. SUFFICES ASSUME k # j PROVE FALSE
    OBVIOUS
  <2>2. ~Busy(k)
    BY <1>3, <2>1, AloneIsAlone
  <2>3. jobs'[k] = Disturbed(j)[k]
    BY <2>1 DEF Disturbed
  <2>4. jobs'[k] = jobs[k]
    BY <2>2, <2>3, DisturbedJobs
  <2>5. QED
    BY <1>3, <2>2, <2>4 DEF Busy
<1>4. jobs[j].kind = "restore" /\ jobs[j].tree \in DOMAIN trees
  BY BusyPoints, BusyIsJob DEF IsJob
<1>5. JobOK(j)'
  BY <1>2, <1>3, <1>4 DEF JobOK, Same
<1>6. QED
  BY <1>2, <1>5 DEF GitInv, TreeShapes, TreesInv

LEMMA WriteOutStep ==
  ASSUME GitInv, NEW j \in Jobs, NEW f \in Paths, WriteOut(j, f)
  PROVE  GitInv'
<1>1. PICK job : job = jobs[j]
  OBVIOUS
<1>2. PICK r : r = [job EXCEPT !.left = job.left \ {f}]
  OBVIOUS
<1>3. /\ Busy(j) /\ IsJob(job) /\ job.pc = "writing" /\ f \in job.left /\ UNCHANGED <<index, trees>>
      /\ files' = [files EXCEPT ![f] = job.out[f]]
  BY <1>1, BusyIsJob DEF WriteOut, At
<1>4. Disturbed(j)[j] = job
  BY <1>1, DisturbedJobs
<1>5. jobs' = [Disturbed(j) EXCEPT ![j] = r]
  BY <1>2, <1>4 DEF WriteOut
<1>6. /\ IsJob(r) /\ Same(r, job) /\ r.pc = "writing" /\ r.added = job.added /\ r.out = job.out
      /\ r.left = job.left \ {f}
  BY <1>2, <1>3 DEF IsJob, Same
<1>7. jobs'[j] = r /\ Tree(j)' = Tree(j)
  <2>1. j \in DOMAIN Disturbed(j)
    BY DEF Disturbed
  <2>2. jobs'[j] = r
    BY <1>5, <2>1
  <2>3. QED
    BY <1>1, <1>3, <1>6, <2>2 DEF Tree, Same
<1>8. /\ files' = [p \in Paths |-> files'[p]] /\ files'[f] = job.out[f]
      /\ \A p \in Paths : p # f => files'[p] = files[p]
  <2>1. PICK c : c = job.out[f]
    OBVIOUS
  <2>2. Writes(f, c) /\ files' = [files EXCEPT ![f] = c]
    BY <1>3, <2>1 DEF Writes
  <2>3. QED
    BY <2>1, <2>2, OneFileWritten
<1>9. ASSUME job.alone
      PROVE  RestoreAt(j)'
  <2>1. RestoreAt(j)
    BY <1>1, <1>3, <1>9, AloneAt, BusyPoints DEF IsJob
  <2>2. /\ job.added = ToRemove(j)
        /\ \A p \in Paths : job.out[p] = Tree(j)[p]
        /\ \A p \in job.left : p \in Paths /\ Tree(j)[p] # Absent
        /\ \A p \in Paths : files[p] = IF Tree(j)[p] = Absent \/ p \in job.left
                                       THEN job.before[p] ELSE Tree(j)[p]
    BY <1>1, <1>3, <2>1 DEF RestoreAt
  <2>3. ToRemove(j)' = ToRemove(j)
    BY <1>1, <1>6, <1>7 DEF ToRemove, Same
  <2>4. \A p \in Paths : files'[p] = IF Tree(j)[p] = Absent \/ p \in r.left
                                     THEN job.before[p] ELSE Tree(j)[p]
    BY <1>3, <1>6, <1>8, <2>2
  <2>5. QED
    BY <1>6, <1>7, <2>2, <2>3, <2>4 DEF RestoreAt, Same
<1>10. QED
  BY <1>1, <1>3, <1>5, <1>6, <1>8, <1>9, JobWrites

LEMMA RemoveAddedStep ==
  ASSUME GitInv, NEW j \in Jobs, NEW f \in Paths, RemoveAdded(j, f)
  PROVE  GitInv'
<1>1. PICK job : job = jobs[j]
  OBVIOUS
<1>2. PICK a : a = IF files'[f] = Absent THEN job.added \ {f} ELSE job.added
  OBVIOUS
<1>3. PICK r : r = [[job EXCEPT !.left = job.left \ {f}] EXCEPT !.added = a]
  OBVIOUS
<1>4. /\ Busy(j) /\ IsJob(job) /\ job.pc = "removing" /\ f \in job.left /\ UNCHANGED <<index, trees>>
      /\ files' \in {files, [files EXCEPT ![f] = Absent]}
  BY <1>1, BusyIsJob DEF RemoveAdded, At
<1>5. Disturbed(j)[j] = job
  BY <1>1, DisturbedJobs
<1>6. jobs' = [Disturbed(j) EXCEPT ![j] = r]
  <2>1. [job EXCEPT !.left = job.left \ {f}].added = job.added
    BY <1>4 DEF IsJob
  <2>2. QED
    BY <1>2, <1>3, <1>5, <2>1 DEF RemoveAdded
<1>7. /\ IsJob(r) /\ Same(r, job) /\ r.pc = "removing" /\ r.added = a
      /\ r.left = job.left \ {f}
  BY <1>3, <1>4 DEF IsJob, Same
<1>8. jobs'[j] = r /\ Tree(j)' = Tree(j)
  <2>1. j \in DOMAIN Disturbed(j)
    BY DEF Disturbed
  <2>2. jobs'[j] = r
    BY <1>6, <2>1
  <2>3. QED
    BY <1>1, <1>4, <1>7, <2>2 DEF Tree, Same
<1>9. /\ files' = [p \in Paths |-> files'[p]] /\ files'[f] \in {files[f], Absent}
      /\ \A p \in Paths : p # f => files'[p] = files[p]
  BY <1>4, OneFileWritten DEF Writes
<1>10. ASSUME job.alone
       PROVE  RestoreAt(j)'
  <2>1. RestoreAt(j)
    BY <1>1, <1>4, <1>10, AloneAt, BusyPoints DEF IsJob
  <2>2. /\ job.added \subseteq ToRemove(j) /\ job.left \subseteq job.added
        /\ \A p \in Paths : files[p] = IF Tree(j)[p] # Absent \/ p \in ToRemove(j) \ job.added
                                       THEN Tree(j)[p] ELSE job.before[p]
    BY <1>1, <1>4, <2>1 DEF RestoreAt
  <2>3. ToRemove(j)' = ToRemove(j)
    BY <1>1, <1>7, <1>8 DEF ToRemove, Same
  <2>4. a \subseteq ToRemove(j) /\ job.left \ {f} \subseteq a
    BY <1>2, <2>2
  <2>5. f \in ToRemove(j) /\ Tree(j)[f] = Absent /\ job.before[f] # Absent
    <3>1. f \in ToRemove(j)
      BY <1>4, <2>2
    <3>2. QED
      BY <1>1, <3>1 DEF ToRemove
  <2>6. \A p \in Paths : files'[p] = IF Tree(j)[p] # Absent \/ p \in ToRemove(j) \ a
                                     THEN Tree(j)[p] ELSE job.before[p]
    BY <1>1, <1>2, <1>4, <1>9, <2>2, <2>5
  <2>7. QED
    BY <1>7, <1>8, <2>3, <2>4, <2>6 DEF RestoreAt, Same
<1>11. QED
  BY <1>1, <1>4, <1>6, <1>7, <1>9, <1>10, JobWrites

\* Tools write, or only read.
LEMMA ToolSteps ==
  ASSUME GitInv,
         \/ \E p \in Paths, c \in Contents : Write(p, c)
         \/ \E e \in Patches : ApplyPatch(e)
         \/ PatchStep \/ PatchEnds \/ UNCHANGED treeVars
  PROVE  GitInv'
<1>1. ASSUME jobs' = Disturbed(""), UNCHANGED <<index, trees>>, files' = [p \in Paths |-> files'[p]]
      PROVE  GitInv'
  <2>1. /\ jobs' = [k \in Jobs |-> jobs'[k]] /\ \A k \in Jobs : jobs'[k] = Idle \/ IsJob(jobs'[k])
        /\ \A k \in Jobs : JobOK(k)'
    BY <1>1, OutsiderWrites
  <2>2. QED
    BY <1>1, <2>1 DEF GitInv, TreeShapes, TreesInv
<1>2. ASSUME NEW p \in Paths, NEW c \in Contents, Write(p, c)
      PROVE  GitInv'
  <2>1. Writes(p, c) \/ Writes(p, <<>>)
    BY <1>2 DEF Write, Writes
  <2>2. files' = [q \in Paths |-> files'[q]]
    BY <2>1, OneFileWritten
  <2>3. jobs' = Disturbed("") /\ UNCHANGED <<index, trees>>
    BY <1>2 DEF Write
  <2>4. QED
    BY <1>1, <2>2, <2>3
<1>3. CASE PatchStep
  <2>1. jobs' = Disturbed("") /\ UNCHANGED <<index, trees>>
    BY <1>3 DEF PatchStep
  <2>2. \E f, c : Writes(f, c)
    BY <1>3 DEF PatchStep, Writes
  <2>3. files' = [q \in Paths |-> files'[q]]
    BY <2>2, OneFileWritten
  <2>4. QED
    BY <1>1, <2>1, <2>3
<1>4. ASSUME UNCHANGED <<files, index, trees, jobs>>
      PROVE  GitInv'
  BY <1>4 DEF GitInv, TreeShapes, TreesInv, JobOK, RestoreAt, SnapshotAt, Busy, Tree, ToRemove
<1>5. ASSUME NEW e \in Patches, ApplyPatch(e)
      PROVE  GitInv'
  BY <1>4, <1>5 DEF ApplyPatch
<1>6. PatchEnds \/ UNCHANGED treeVars => GitInv'
  BY <1>4 DEF PatchEnds, treeVars
<1>7. QED
  BY <1>2, <1>3, <1>5, <1>6

LEMMA GitInvStep == GitInv /\ [TreeNext]_treeVars => GitInv'
<1> SUFFICES ASSUME GitInv, [TreeNext]_treeVars
             PROVE  GitInv'
  OBVIOUS
<1>1. ASSUME NEW j \in Jobs, Git(j)
      PROVE  GitInv'
  <2>1. Snapshot(j) => GitInv'
    BY StartStep DEF Snapshot
  <2>2. Restore(j) => GitInv'
    BY StartStep DEF Restore
  <2>3. QED
    BY <1>1, <2>1, <2>2, AddAllStep, WriteTreeStep, DiffStep, ReadTreeStep, CheckOutStep,
       WrittenStep, RemovedStep, ReturnStep, WriteOutStep, RemoveAddedStep DEF Git
<1>2. QED
  BY <1>1, ToolSteps DEF TreeNext

LEMMA GitInvInit == TreeInit => GitInv
<1> SUFFICES ASSUME TreeInit
             PROVE  GitInv
  OBVIOUS
<1>1. TreeShapes
  <2>1. trees \in Seq({}) 
    BY DEF TreeInit
  <2>2. QED
    BY <2>1 DEF TreeInit, TreeShapes
<1>2. TreesInv
  <2>1. DOMAIN trees = {}
    BY DEF TreeInit
  <2>2. \A p \in Ignored : index[p] = Absent
    BY WorktreeAssumption DEF TreeInit
  <2>3. QED
    BY <2>1, <2>2 DEF TreesInv
<1>3. \A j \in Jobs : JobOK(j)
  BY DEF TreeInit, JobOK, Busy, Idle
<1>4. QED
  BY <1>1, <1>2, <1>3 DEF GitInv

\* "This restores precisely the snapshot tree's tracked set" (package snapshot): a restore
\* that nobody disturbed and that ended well gives back the files as they were when the
\* snapshot was begun, one that fails leaves each file as it was or as in the snapshot, and
\* none touches an ignored file.
THEOREM RestoresAreExact == TreeSpec => []RestoreIsExact
<1>1. ASSUME GitInv
      PROVE  RestoreIsExact
  <2> SUFFICES ASSUME NEW j \in Jobs, Busy(j), jobs[j].kind = "restore", jobs[j].alone
               PROVE  /\ \A p \in Paths : files[p] \in {jobs[j].before[p]}
                           \cup (IF p \in Ignored THEN {} ELSE {Tree(j)[p]})
                      /\ jobs[j].pc = "done" /\ trees[jobs[j].tree].alone =>
                           \A p \in Paths \ (Ignored \cup jobs[j].added) :
                             files[p] = trees[jobs[j].tree].of[p]
    BY DEF RestoreIsExact, Tree
  <2>1. RestoreAt(j) /\ jobs[j].tree \in DOMAIN trees
    BY <1>1, AloneAt
  <2>2. /\ \A p \in Ignored : Tree(j)[p] = Absent
        /\ trees[jobs[j].tree].alone => \A p \in Paths \ Ignored : Tree(j)[p] = trees[jobs[j].tree].of[p]
    BY <1>1, <2>1 DEF GitInv, TreesInv, Tree
  <2>3. \A p \in Paths : files[p] \in {jobs[j].before[p]}
                           \cup (IF p \in Ignored THEN {} ELSE {Tree(j)[p]})
    BY <2>1, <2>2 DEF RestoreAt, ToRemove
  <2>4. ASSUME jobs[j].pc = "done", NEW p \in Paths \ (Ignored \cup jobs[j].added)
        PROVE  files[p] = Tree(j)[p]
    BY <2>1, <2>2, <2>4 DEF RestoreAt, ToRemove
  <2>5. QED
    BY <2>2, <2>3, <2>4
<1>2. QED
  BY <1>1, GitInvInit, GitInvStep, PTL DEF TreeSpec

-----------------------------------------------------------------------------
(* Worktree: patches.                                                      *)

\* What a patch writes and removes is in the worktree.
IsResult(r) ==
  /\ r.path \in Paths /\ r.path # <<>>
  /\ r.from # <<>> => r.from \in Paths /\ r.op # "delete"

PatchFields(q) ==
  q = [phase |-> q.phase, next |-> q.next, results |-> q.results, failed |-> q.failed,
       before |-> q.before, alone |-> q.alone]

IsPatch(q) ==
  /\ PatchFields(q)
  /\ q.phase \in {1, 2} /\ q.next \in Nat \ {0}
  /\ DOMAIN q.results \subseteq Nat \ {0}
  /\ \A i \in DOMAIN q.results : IsResult(q.results[i])
  /\ q.phase = 2 => q.next \in DOMAIN q.results /\ Moves(q.results[q.next])

Made(r) == files[r.path] = IF r.op = "delete" THEN Absent ELSE r.content

\* How far a patch has come with its section i.
SectionAt(q, i) ==
  LET r == q.results[i]
  IN /\ i < q.next => Made(r) /\ (Moves(r) => files[r.from] = Absent)
     /\ i >= q.next /\ Moves(r) => files[r.from] = q.before[r.from]
     /\ i > q.next => files[r.path] = q.before[r.path]
     /\ i = q.next /\ q.phase = 2 => Made(r)

SectionsAt(q) == \A i \in DOMAIN q.results : SectionAt(q, i)

PatchInv ==
  patch # NoPatch =>
    /\ IsPatch(patch)
    /\ patch.alone /\ Separate(patch.results) => SectionsAt(patch)

\* The results of an envelope that applies.
LEMMA ResultsAreOf ==
  ASSUME NEW e \in Patches, NEW current, CanApply(Parse(e), current)
  PROVE  /\ DOMAIN Results(Parse(e), current) \subseteq Nat \ {0}
         /\ \A i \in DOMAIN Results(Parse(e), current) : IsResult(Results(Parse(e), current)[i])
<1>1. PICK hunks : hunks = Parse(e)
  OBVIOUS
<1>2. hunks \in Seq(HunksOver(Paths))
  <2>1. e \in Seq(LinesOver(Paths)) /\ hunks # Malformed
    BY <1>1, PatchesAssumption DEF CanApply
  <2>2. QED
    BY <1>1, <2>1, ParseType
<1>3. DOMAIN hunks \subseteq Nat \ {0} /\ \A i \in DOMAIN hunks : hunks[i] \in HunksOver(Paths)
  BY <1>2
<1>4. ASSUME NEW h \in HunksOver(Paths)
      PROVE  IsResult(Result(h, current))
  <2>1. h.path \in Paths /\ h.path # <<>> /\ (h.move # <<>> => h.move \in Paths)
    BY WorktreeAssumption DEF HunksOver
  <2>2. CASE h.op = "update" /\ h.move # <<>>
    <3>1. /\ Result(h, current).path = h.move /\ Result(h, current).from = h.path
          /\ Result(h, current).op = h.op
      BY <2>2 DEF Result
    <3>2. QED
      BY <2>1, <2>2, <3>1 DEF IsResult
  <2>3. CASE ~(h.op = "update" /\ h.move # <<>>)
    <3>1. Result(h, current).path = h.path /\ Result(h, current).from = <<>>
      BY <2>3 DEF Result
    <3>2. QED
      BY <2>1, <3>1 DEF IsResult
  <2>4. QED
    BY <2>2, <2>3
<1>5. \A i \in DOMAIN hunks : Results(hunks, current)[i] = Result(hunks[i], current)
  BY DEF Results
<1>6. DOMAIN Results(hunks, current) = DOMAIN hunks
  BY DEF Results
<1>7. QED
  BY <1>1, <1>3, <1>4, <1>5, <1>6

\* A patch that begins has done nothing.
LEMMA PatchBegins ==
  ASSUME PatchInv, NEW e \in Patches, ApplyPatch(e)
  PROVE  PatchInv'
<1>1. PICK current : current = [f \in PatchFiles(Parse(e)) \cap DOMAIN Readable |-> files[f]]
  OBVIOUS
<1>2. UNCHANGED files /\ patch = NoPatch
  BY DEF ApplyPatch
<1>3. CASE CanApply(Parse(e), current) /\ patch' # patch
  <2>1. PICK rs : rs = Results(Parse(e), current)
    OBVIOUS
  <2>2. PICK q : q = [phase |-> 1, next |-> 1, results |-> rs, failed |-> FALSE,
                      before |-> files, alone |-> TRUE]
    OBVIOUS
  <2>3. patch' = q
    BY <1>1, <1>3, <2>1, <2>2 DEF ApplyPatch
  <2>4. IsPatch(q)
    <3>1. DOMAIN rs \subseteq Nat \ {0} /\ \A i \in DOMAIN rs : IsResult(rs[i])
      BY <1>3, <2>1, ResultsAreOf
    <3>2. QED
      BY <2>2, <3>1 DEF IsPatch, PatchFields
  <2>5. SectionsAt(q)
    BY <2>2, <2>4 DEF SectionsAt, SectionAt, IsPatch
  <2>6. SectionsAt(patch)'
    BY <1>2, <2>3, <2>5 DEF SectionsAt, SectionAt, Made
  <2>7. QED
    BY <2>3, <2>4, <2>6 DEF PatchInv
<1>4. CASE patch' = patch
  BY <1>2, <1>4 DEF PatchInv
<1>5. CASE ~CanApply(Parse(e), current)
  BY <1>1, <1>4, <1>5 DEF ApplyPatch
<1>6. QED
  BY <1>3, <1>4, <1>5

\* A section that is written to changes no file of another.
LEMMA OtherSections ==
  ASSUME NEW q, IsPatch(q), Separate(q.results), NEW i \in DOMAIN q.results,
         NEW k \in DOMAIN q.results, k # i,
         NEW w \in {q.results[i].path, q.results[i].from}, w # <<>>,
         \A f \in Paths : f # w => files'[f] = files[f]
  PROVE  /\ files'[q.results[k].path] = files[q.results[k].path]
         /\ Moves(q.results[k]) => files'[q.results[k].from] = files[q.results[k].from]
<1>1. /\ {q.results[i].path, q.results[i].from} \cap {q.results[k].path, q.results[k].from} \subseteq {<<>>}
      /\ IsResult(q.results[k])
  BY DEF Separate, IsPatch
<1>2. w # q.results[k].path /\ w # q.results[k].from
  BY <1>1
<1>3. QED
  BY <1>1, <1>2 DEF IsResult, Moves

\* A section is written, removed, or moved in two steps.
LEMMA PhasesOf ==
  ASSUME NEW q, IsPatch(q), q.next \in DOMAIN q.results
  PROVE  LET r == q.results[q.next]
         IN /\ q.phase = 2 => /\ Moves(r) /\ r.op # "delete" /\ Phases(r)[q.phase] = "remove"
                              /\ Len(Phases(r)) = 2
            /\ q.phase = 1 /\ Moves(r) => /\ r.op # "delete" /\ Phases(r)[q.phase] = "write"
                                          /\ Len(Phases(r)) = 2
            /\ q.phase = 1 /\ ~Moves(r) => /\ Phases(r)[q.phase] = IF r.op = "delete" THEN "remove" ELSE "write"
                                           /\ Len(Phases(r)) = 1
<1>1. PICK r : r = q.results[q.next]
  OBVIOUS
<1>2. IsResult(r) /\ (Moves(r) => r.op # "delete")
  BY <1>1 DEF IsPatch, IsResult, Moves
<1>3. /\ Moves(r) => Phases(r) = <<"write", "remove">>
      /\ ~Moves(r) => Phases(r) = IF r.op = "delete" THEN <<"remove">> ELSE <<"write">>
  BY <1>2 DEF Phases
<1>4. q.phase = 2 => Moves(r)
  BY <1>1 DEF IsPatch
<1>5. q.phase \in {1, 2}
  BY DEF IsPatch
<1>6. QED
  BY <1>1, <1>2, <1>3, <1>4, <1>5

\* The sections of a patch that is at work on one of them.
LEMMA SectionsStep ==
  ASSUME NEW q, IsPatch(q), Separate(q.results), SectionsAt(q), q.next \in DOMAIN q.results,
         NEW n, IsPatch(n), n.results = q.results, n.before = q.before,
         n.next = q.next \/ (n.next = q.next + 1 /\ n.phase = 1),
         NEW w \in {q.results[q.next].path, q.results[q.next].from}, w # <<>>,
         \A f \in Paths : f # w => files'[f] = files[f],
         SectionAt(n, q.next)'
  PROVE  SectionsAt(n)'
<1> SUFFICES ASSUME NEW k \in DOMAIN q.results, k # q.next
             PROVE  SectionAt(n, k)'
  BY DEF SectionsAt
<1>1. PICK r : r = q.results[k]
  OBVIOUS
<1>2. /\ files'[r.path] = files[r.path]
      /\ Moves(r) => files'[r.from] = files[r.from]
  BY <1>1, OtherSections
<1>3. SectionAt(q, k)
  BY DEF SectionsAt
<1>4. k \in Nat /\ q.next \in Nat
  BY DEF IsPatch
<1>5. Made(r)' <=> Made(r)
  BY <1>2 DEF Made
<1>6. (k < n.next <=> k < q.next) /\ (k >= n.next <=> k > q.next)
      /\ (k > n.next => k > q.next) /\ (k = n.next => n.phase = 1)
  BY <1>4
<1>7. n.phase # 2 \/ k # n.next
  BY <1>6
<1>8. k > q.next => k >= q.next
  BY <1>4
<1>9. QED
  BY <1>1, <1>2, <1>3, <1>5, <1>6, <1>7, <1>8 DEF SectionAt

\* Everybody else who writes disturbs a patch.
LEMMA PatchStays ==
  ASSUME PatchInv, patch' = PatchDisturbed \/ (patch' = patch /\ UNCHANGED files)
  PROVE  PatchInv'
<1>1. CASE patch' = patch /\ UNCHANGED files
  BY <1>1 DEF PatchInv, SectionsAt, SectionAt, Made
<1>2. CASE patch' = PatchDisturbed /\ patch = NoPatch
  BY <1>2 DEF PatchDisturbed, NoPatch, PatchInv
<1>3. CASE patch' = PatchDisturbed /\ patch # NoPatch
  <2>1. PICK q : q = patch
    OBVIOUS
  <2>2. IsPatch(q)
    BY <1>3, <2>1 DEF PatchInv
  <2>3. patch' = [q EXCEPT !.alone = FALSE]
    BY <1>3, <2>1, <2>2 DEF PatchDisturbed, IsPatch
  <2>4. IsPatch(patch') /\ ~patch'.alone
    BY <2>2, <2>3 DEF IsPatch, PatchFields
  <2>5. QED
    BY <2>4 DEF PatchInv
<1>4. QED
  BY <1>1, <1>2, <1>3

\* A step of a patch that fails.
LEMMA PatchStepFails ==
  ASSUME TreeShapes, NEW q, IsPatch(q), q.next \in DOMAIN q.results, NEW r, r = q.results[q.next],
         NEW n, n = [q EXCEPT !.failed = TRUE],
         files' \in IF Phases(r)[q.phase] = "write" THEN {files, [files EXCEPT ![r.path] = <<>>]} ELSE {files}
  PROVE  IsPatch(n) /\ (Separate(q.results) /\ SectionsAt(q) => SectionsAt(n)')
<1>1. /\ IsPatch(n) /\ n.results = q.results /\ n.before = q.before /\ n.next = q.next
      /\ n.phase = q.phase
  BY DEF IsPatch, PatchFields
<1>2. CASE UNCHANGED files
  BY <1>1, <1>2 DEF SectionsAt, SectionAt, Made
<1>3. CASE ~UNCHANGED files
  <2>1. files' = [files EXCEPT ![r.path] = <<>>] /\ Phases(r)[q.phase] = "write"
    BY <1>3
  <2>2. q.phase = 1
    BY <2>1, PhasesOf DEF IsPatch
  <2>3. IsResult(r) /\ r.path # <<>>
    BY DEF IsPatch, IsResult
  <2>4. \A f \in Paths : f # r.path => files'[f] = files[f]
    BY <2>1 DEF TreeShapes
  <2>5. ASSUME Separate(q.results), SectionsAt(q)
        PROVE  SectionsAt(n)'
    <3>1. SectionAt(q, q.next) /\ q.next \in Nat
      BY <2>5 DEF SectionsAt, IsPatch
    <3>2. SectionAt(n, q.next)'
      BY <1>1, <2>2, <2>3, <2>4, <3>1 DEF SectionAt, Moves, IsResult
    <3>3. PICK w \in {q.results[q.next].path, q.results[q.next].from} : w = r.path
      OBVIOUS
    <3>4. QED
      BY <1>1, <2>3, <2>4, <2>5, <3>2, <3>3, SectionsStep, ZenonT(30)
  <2>6. QED
    BY <1>1, <2>5
<1>4. QED
  BY <1>2, <1>3

\* The section at work, and one that is done, after a step.
LEMMA SectionAtWork ==
  ASSUME NEW n, NEW i, NEW r, r = n.results[i], ~(i < n.next), ~(i > n.next),
         files'[r.from] = n.before[r.from], Made(r)'
  PROVE  SectionAt(n, i)'
BY DEF SectionAt

LEMMA SectionDone ==
  ASSUME NEW n, NEW i \in Nat, NEW r, r = n.results[i], n.next = i + 1,
         Moves(r) => files'[r.from] = Absent, Made(r)'
  PROVE  SectionAt(n, i)'
<1>1. ~(i >= i + 1) /\ ~(i > i + 1) /\ i # i + 1
  OBVIOUS
<1>2. QED
  BY <1>1 DEF SectionAt

Advanced(q, last) ==
  [[q EXCEPT !.next = IF last THEN q.next + 1 ELSE q.next] EXCEPT !.phase = IF last THEN 1 ELSE q.phase + 1]

\* A step of a patch that succeeds: a file is written, and moved if it is to be; or removed.
LEMMA PatchStepWorks ==
  ASSUME TreeShapes, NEW q, IsPatch(q), q.next \in DOMAIN q.results, NEW r, r = q.results[q.next],
         NEW last \in BOOLEAN, last <=> q.phase = Len(Phases(r)),
         NEW n, n = Advanced(q, last),
         files' = IF Phases(r)[q.phase] = "write" THEN [files EXCEPT ![r.path] = r.content]
                  ELSE [files EXCEPT ![Removes(r)] = Absent]
  PROVE  IsPatch(n) /\ (Separate(q.results) /\ SectionsAt(q) => SectionsAt(n)')
<1>1. /\ n.results = q.results /\ n.before = q.before
      /\ n.next = IF last THEN q.next + 1 ELSE q.next
      /\ n.phase = IF last THEN 1 ELSE q.phase + 1
      /\ PatchFields(n)
  BY DEF IsPatch, PatchFields, Advanced
<1>2. IsResult(r) /\ r.path # <<>> /\ r.path \in Paths /\ q.next \in Nat \ {0} /\ q.phase \in {1, 2}
  BY DEF IsPatch, IsResult
<1>3. ASSUME Separate(q.results), SectionsAt(q), IsPatch(n), SectionAt(n, q.next)',
             n.next = q.next \/ (n.next = q.next + 1 /\ n.phase = 1),
             NEW w \in {r.path, r.from}, w # <<>>, \A f \in Paths : f # w => files'[f] = files[f]
      PROVE  SectionsAt(n)'
  BY <1>1, <1>3, SectionsStep
<1>4. CASE q.phase = 1 /\ Moves(r)
  <2>1. /\ ~last /\ n.next = q.next /\ n.phase = 2 /\ r.op # "delete"
        /\ files' = [files EXCEPT ![r.path] = r.content]
    BY <1>1, <1>4, PhasesOf
  <2>2. IsPatch(n)
    BY <1>1, <1>2, <1>4, <2>1 DEF IsPatch
  <2>3. files'[r.path] = r.content /\ \A f \in Paths : f # r.path => files'[f] = files[f]
    BY <1>2, <2>1 DEF TreeShapes
  <2>4. ASSUME Separate(q.results), SectionsAt(q)
        PROVE  SectionsAt(n)'
    <3>1. SectionAt(q, q.next)
      BY <2>4 DEF SectionsAt
    <3>2. r.from \in Paths /\ r.from # r.path
      BY <1>2, <1>4 DEF IsResult, Moves
    <3>3. Made(r)'
      BY <2>1, <2>3 DEF Made
    <3>4. n.results[q.next] = r /\ files'[r.from] = files[r.from] /\ ~(q.next < q.next)
          /\ ~(q.next > q.next) /\ q.next >= q.next
      BY <1>1, <1>2, <2>3, <3>2
    <3>5. files[r.from] = q.before[r.from]
      BY <1>4, <3>1, <3>4 DEF SectionAt
    <3>6. SectionAt(n, q.next)'
      <4>1. /\ r = n.results[q.next] /\ ~(q.next < n.next) /\ ~(q.next > n.next)
            /\ files'[r.from] = n.before[r.from]
        BY <1>1, <2>1, <3>4, <3>5
      <4>2. QED
        BY <3>3, <4>1, SectionAtWork
    <3>7. QED
      BY <1>2, <1>3, <2>1, <2>2, <2>3, <2>4, <3>6
  <2>5. QED
    BY <2>2, <2>4
<1>5. CASE q.phase = 1 /\ ~Moves(r)
  <2>1. /\ last /\ n.next = q.next + 1 /\ n.phase = 1
        /\ files' = [files EXCEPT ![r.path] = IF r.op = "delete" THEN Absent ELSE r.content]
    BY <1>1, <1>5, PhasesOf DEF Removes
  <2>2. IsPatch(n)
    BY <1>1, <1>2, <1>5, <2>1 DEF IsPatch
  <2>3. /\ files'[r.path] = IF r.op = "delete" THEN Absent ELSE r.content
        /\ \A f \in Paths : f # r.path => files'[f] = files[f]
    BY <1>2, <2>1 DEF TreeShapes
  <2>4. Made(r)'
    BY <2>3 DEF Made
  <2>5. SectionAt(n, q.next)'
    BY <1>1, <1>2, <1>5, <2>1, <2>4, SectionDone
  <2>6. QED
    BY <1>2, <1>3, <2>1, <2>2, <2>3, <2>5
<1>6. CASE q.phase = 2
  <2>1. /\ last /\ n.next = q.next + 1 /\ n.phase = 1 /\ Moves(r) /\ r.op # "delete"
        /\ files' = [files EXCEPT ![r.from] = Absent]
    BY <1>1, <1>6, PhasesOf DEF Removes
  <2>2. IsPatch(n)
    BY <1>1, <1>2, <1>6, <2>1 DEF IsPatch
  <2>3. r.from \in Paths /\ r.from # r.path /\ r.from # <<>>
    BY <1>2, <2>1 DEF IsResult, Moves
  <2>4. files'[r.from] = Absent /\ \A f \in Paths : f # r.from => files'[f] = files[f]
    BY <2>1, <2>3 DEF TreeShapes
  <2>5. ASSUME Separate(q.results), SectionsAt(q)
        PROVE  SectionsAt(n)'
    <3>1. Made(r)
      BY <1>6, <2>5 DEF SectionsAt, SectionAt
    <3>2. Made(r)'
      BY <1>2, <2>3, <2>4, <3>1 DEF Made
    <3>3. SectionAt(n, q.next)'
      <4>1. /\ r = n.results[q.next] /\ n.next = q.next + 1 /\ q.next \in Nat
            /\ files'[r.from] = Absent
        BY <1>1, <1>2, <2>1, <2>4
      <4>2. QED
        BY <3>2, <4>1, SectionDone
    <3>4. QED
      BY <1>3, <2>1, <2>2, <2>3, <2>4, <2>5, <3>3
  <2>6. QED
    BY <2>2, <2>5
<1>7. QED
  BY <1>2, <1>4, <1>5, <1>6

LEMMA PatchStepStep ==
  ASSUME TreeShapes, PatchInv, PatchStep
  PROVE  PatchInv'
<1>1. PICK q : q = patch
  OBVIOUS
<1>2. IsPatch(q) /\ q.next \in DOMAIN q.results
  BY <1>1 DEF PatchInv, PatchStep
<1>3. PICK r : r = q.results[q.next]
  OBVIOUS
<1>4. PICK last \in BOOLEAN : last <=> q.phase = Len(Phases(r))
  OBVIOUS
<1>5. PICK f : f = [q EXCEPT !.failed = TRUE]
  OBVIOUS
<1>6. PICK n : n = Advanced(q, last)
  OBVIOUS
<1>7. f.alone = q.alone /\ f.results = q.results /\ n.alone = q.alone /\ n.results = q.results
  BY <1>2, <1>5, <1>6 DEF IsPatch, PatchFields, Advanced
<1>8. q.alone /\ Separate(q.results) => SectionsAt(q)
  BY <1>1 DEF PatchInv, PatchStep
<1>9. \/ /\ patch' = f
         /\ files' \in IF Phases(r)[q.phase] = "write" THEN {files, [files EXCEPT ![r.path] = <<>>]} ELSE {files}
      \/ /\ patch' = n
         /\ files' = IF Phases(r)[q.phase] = "write" THEN [files EXCEPT ![r.path] = r.content]
                     ELSE [files EXCEPT ![Removes(r)] = Absent]
  BY <1>1, <1>2, <1>3, <1>4, <1>5, <1>6 DEF PatchStep, IsPatch, PatchFields, Advanced
<1>10. CASE patch' = f /\ files' \in IF Phases(r)[q.phase] = "write"
                                     THEN {files, [files EXCEPT ![r.path] = <<>>]} ELSE {files}
  <2>1. IsPatch(f) /\ (Separate(q.results) /\ SectionsAt(q) => SectionsAt(f)')
    BY <1>2, <1>3, <1>5, <1>10, PatchStepFails
  <2>2. f.alone /\ Separate(f.results) => SectionsAt(f)'
    BY <1>7, <1>8, <2>1
  <2>3. f.alone /\ Separate(f.results) => SectionsAt(patch)'
    BY <1>10, <2>2 DEF SectionsAt, SectionAt, Made
  <2>4. QED
    BY <1>10, <2>1, <2>3 DEF PatchInv
<1>11. CASE patch' = n /\ files' = IF Phases(r)[q.phase] = "write" THEN [files EXCEPT ![r.path] = r.content]
                                   ELSE [files EXCEPT ![Removes(r)] = Absent]
  <2>1. IsPatch(n) /\ (Separate(q.results) /\ SectionsAt(q) => SectionsAt(n)')
    BY <1>2, <1>3, <1>4, <1>6, <1>11, PatchStepWorks
  <2>2. n.alone /\ Separate(n.results) => SectionsAt(n)'
    BY <1>7, <1>8, <2>1
  <2>3. n.alone /\ Separate(n.results) => SectionsAt(patch)'
    BY <1>11, <2>2 DEF SectionsAt, SectionAt, Made
  <2>4. QED
    BY <1>11, <2>1, <2>3 DEF PatchInv
<1>12. QED
  BY <1>9, <1>10, <1>11

\* A patch that stops half way has made the changes of its first sections and none of the
\* later ones, and never loses a file it moves: until the new one is written whole, the old
\* one is there (Execute of ApplyPatch, one result after the other).
THEOREM PatchesStopBetweenFiles == TreeSpec => []PatchStopsBetweenFiles
<1>1. TreeInit => PatchInv
  BY DEF TreeInit, PatchInv
<1>2. ASSUME GitInv, PatchInv, [TreeNext]_treeVars
      PROVE  PatchInv'
  <2>1. ASSUME NEW j \in Jobs, Git(j)
        PROVE  patch' = PatchDisturbed \/ (patch' = patch /\ UNCHANGED files)
    BY <2>1 DEF Git, Snapshot, Restore, Start, AddAll, WriteTree, Diff, ReadTree, CheckOut,
                Written, Removed, Return, WriteOut, RemoveAdded
  <2>2. ASSUME NEW p \in Paths, NEW c \in Contents, Write(p, c)
        PROVE  patch' = PatchDisturbed
    BY <2>2 DEF Write
  <2>3. PatchEnds => PatchInv'
    BY DEF PatchEnds, PatchInv
  <2>4. UNCHANGED treeVars => patch' = patch /\ UNCHANGED files
    BY DEF treeVars
  <2>5. TreeShapes
    BY <1>2 DEF GitInv
  <2>6. QED
    BY <1>2, <2>1, <2>2, <2>3, <2>4, <2>5, PatchBegins, PatchStays, PatchStepStep DEF TreeNext
<1>3. ASSUME PatchInv
      PROVE  PatchStopsBetweenFiles
  <2> SUFFICES ASSUME patch # NoPatch, patch.alone, Separate(patch.results),
                      NEW i \in DOMAIN patch.results, NEW r, r = patch.results[i]
               PROVE  /\ i < patch.next => Made(r) /\ (Moves(r) => files[r.from] = Absent)
                      /\ i > patch.next => files[r.path] = patch.before[r.path]
                      /\ i >= patch.next /\ Moves(r) => Made(r) \/ files[r.from] = patch.before[r.from]
    BY DEF PatchStopsBetweenFiles, Made
  <2>1. SectionAt(patch, i)
    BY <1>3 DEF PatchInv, SectionsAt
  <2>2. QED
    BY <2>1 DEF SectionAt
<1>4. QED
  BY <1>1, <1>2, <1>3, GitInvInit, GitInvStep, PTL DEF TreeSpec
=================================================================================
