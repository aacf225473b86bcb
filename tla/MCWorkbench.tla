--------------------------------- MODULE MCWorkbench ---------------------------------
(***************************************************************************)
(* What works on text and files, each part on its own: EditMatch,          *)
(* PatchText, Worktree, Documents and Prompt.  `part' says which one a     *)
(* behaviour is of; the variables of the others hold still.                *)
(***************************************************************************)
EXTENDS EditMatch, PatchText, Worktree, Documents, Prompt

CONSTANTS j1, j2

VARIABLE part

\* EditMatch: small files, among them ones for the looser replacers.
MCEditFiles ==
  {<<"a", NL, " ", "a">>, <<"a", " ", "b", NL>>, <<"a", NL, "b", NL, "a", NL, "b">>,
   <<"\\", "n", "a">>, <<" ", "a", NL, " ", "b", NL, " ", "a">>, <<"a", NL, NL, "b">>,
   <<"a", NL, "a", "b", NL, "b", NL, "a", NL, "b", NL, "b">>}
MCOldTexts ==
  TextsUpTo({"a", "b", " ", NL, "\\", "n"}, 3)
    \cup {<<x, NL, y, NL, z>> \o end : x, y, z \in {"a", "b"}, end \in {<<>>, <<NL>>}}
MCNewTexts == {<<"b">>}

\* PatchText: one file, and envelopes of up to MaxLines lines.
Ln(m, t) == [mark |-> m, text |-> t]
MCTargets ==
  {<<>>, <<<<"a">>, <<"b">>, <<"a">>>>, <<<<"a">>, <<"a", " ">>, <<>>>>,
   <<<<" ", "a">>, <<"endash">>, <<"a">>>>}
MCBeginnings == {<<Ln("begin", <<>>), Ln("update", <<"p">>)>>, <<Ln("begin", <<>>), Ln("other", <<>>)>>}
MCPatchLines ==
  {Ln(m, t) : m \in {" ", "-", "+"}, t \in {<<"a">>, <<>>, <<"b">>}}
    \cup {Ln("-", <<"-">>), Ln("@@", <<>>), Ln("@@", <<"a">>), Ln("eof", <<>>),
          Ln("update", <<"p">>)}

\* Worktree: three paths, one of them ignored, and two envelopes that add, move,
\* update and delete.
MCPaths == {<<"p">>, <<"q">>, <<"r">>}
MCIgnored == {<<"r">>}
MCContents == {<<<<"a">>>>}
Envelope(ls) == <<Ln("begin", <<>>)>> \o ls \o <<Ln("end", <<>>)>>
MCPatches ==
  {Envelope(<<Ln("update", <<"p">>), Ln("move", <<"q">>), Ln("-", <<"a">>), Ln("+", <<"b">>),
              Ln("add", <<"r">>), Ln("+", <<"b">>)>>),
   Envelope(<<Ln("delete", <<"p">>), Ln("update", <<"q">>), Ln("+", <<"b">>)>>)}

\* Prompt: an empty box, a command being typed, a mention and a longer one, a text.
MCInputs == {"", "/", "@", "@f", "t"}
MCCommandsFor == [v \in MCInputs |-> IF v = "/" THEN <<"clear", "quit">> ELSE <<>>]
MCFilesFor ==
  [v \in MCInputs |-> IF v = "@" THEN <<"f1", "f2">> ELSE IF v = "@f" THEN <<"f1">> ELSE <<>>]
MCCompleted == [n \in {"clear", "quit", "f1", "f2"} |-> "t"]
MCNamed == [n \in {"clear", "quit"} |-> "t"]

\* Prompt: requests come in turns of the same text, and the last of MaxAsks meets no menu
\* and no search.
FewAsks ==
  /\ asked > 0 => lines = <<"t">>
  /\ asked = MaxAsks => menu = <<>> /\ atItems = <<>> /\ ~searching /\ fileList = "none"

-----------------------------------------------------------------------------
EditStill  == EditInit /\ content = CHOOSE f \in EditFiles : TRUE
PatchStill == PatchInit /\ original = <<>> /\ envelope = CHOOSE e \in Beginnings : TRUE
TreeStill  == TreeInit /\ files = [p \in Paths |-> Absent]

Init ==
  \/ part = "edit"  /\ EditInit  /\ PatchStill /\ TreeStill /\ DocInit /\ PromptInit
  \/ part = "patch" /\ EditStill /\ PatchInit  /\ TreeStill /\ DocInit /\ PromptInit
  \/ part = "tree"  /\ EditStill /\ PatchStill /\ TreeInit  /\ DocInit /\ PromptInit
  \/ part \in {"docs", "prompt"}
                    /\ EditStill /\ PatchStill /\ TreeStill /\ DocInit /\ PromptInit

Next ==
  /\ UNCHANGED part
  /\ \/ part = "edit"  /\ EditNext  /\ UNCHANGED <<patchVars, treeVars, docVars, promptVars>>
     \/ part = "patch" /\ PatchNext /\ UNCHANGED <<editVars, treeVars, docVars, promptVars>>
     \/ part = "tree"  /\ TreeNext  /\ UNCHANGED <<editVars, patchVars, docVars, promptVars>>
     \/ part = "docs"  /\ DocNext   /\ UNCHANGED <<editVars, patchVars, treeVars, promptVars>>
     \/ part = "prompt" /\ PromptNext /\ FewAsks'
        /\ UNCHANGED <<editVars, patchVars, treeVars, docVars>>

Spec == Init /\ [][Next]_<<part, editVars, patchVars, treeVars, docVars, promptVars>>
=============================================================================
