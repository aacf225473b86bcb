--------------------------------- MODULE Worktree ---------------------------------
(***************************************************************************)
(* The files of a project: the shadow index snapshots are taken and        *)
(* restored with (internal/snapshot), the ApplyPatch and Write tools, and  *)
(* whoever else edits.                                                     *)
(*                                                                         *)
(* A snapshot or a restore is a job of several git commands over one index *)
(* on disk, which every korai process on the worktree shares and none      *)
(* locks for longer than a command.  A command may fail, and checking out  *)
(* the index writes one file after the other.  A tree is the content of    *)
(* every path; ignored files are never in it.                              *)
(***************************************************************************)
EXTENDS Patch

CONSTANTS
  Paths,     \* the paths of the worktree
  Ignored,   \* those .gitignore excludes
  Absent,    \* no file has this path
  Contents,  \* what the Write tool and the user write
  Patches,   \* the envelopes the model sends
  Jobs,      \* what runs git, in this process or another
  MaxJobs,   \* bound: snapshots and restores
  MaxEdits   \* bound: tool calls and edits

ASSUME WorktreeAssumption ==
  /\ Ignored \subseteq Paths /\ <<>> \notin Paths /\ "" \notin Jobs
  /\ MaxJobs \in Nat /\ MaxEdits \in Nat

ASSUME PatchesAssumption == Patches \subseteq Seq(LinesOver(Paths))

VARIABLES
  files,   \* the worktree
  index,   \* the shadow repository's index
  trees,   \* the snapshots taken, each with the files when it was begun
  jobs,    \* the git jobs
  patch,   \* the ApplyPatch call
  started, \* jobs begun
  calls    \* tool calls and edits begun

treeVars == <<files, index, trees, jobs, patch, started, calls>>

\* "alone": nothing else has written files or run git since this began (history).
Idle    == [kind |-> "none"]
NoPatch == [phase |-> 0]

TreeInit ==
  /\ files \in [Paths -> Contents \cup {Absent}]
  /\ index = [p \in Paths |-> Absent] /\ trees = <<>>
  /\ jobs = [j \in Jobs |-> Idle] /\ patch = NoPatch /\ started = 0 /\ calls = 0

Busy(j) == jobs[j].kind # "none"

\* The other jobs, when somebody else writes.
Disturbed(self) == [j \in Jobs |-> IF Busy(j) /\ j # self THEN [jobs[j] EXCEPT !.alone = FALSE] ELSE jobs[j]]

PatchDisturbed == IF patch.phase = 0 THEN patch ELSE [patch EXCEPT !.alone = FALSE]

-----------------------------------------------------------------------------
(* Snapshots.                                                              *)

Start(j, kind, tree) ==
  /\ ~Busy(j) /\ started < MaxJobs /\ started' = started + 1
  /\ jobs' = [Disturbed(j) EXCEPT ![j] =
                [kind |-> kind, tree |-> tree, pc |-> "add", before |-> files, added |-> {},
                 out |-> files, left |-> {}, alone |-> \A k \in Jobs : ~Busy(k)]]
  /\ UNCHANGED <<files, index, trees, patch, calls>>

Snapshot(j) == Start(j, "snapshot", 0)
Restore(j)  == \E t \in DOMAIN trees : Start(j, "restore", t)

At(j, pc) == Busy(j) /\ jobs[j].pc = pc
Tree(j)   == trees[jobs[j].tree].files

\* git add -A.
AddAll(j) ==
  /\ At(j, "add")
  /\ index' = [p \in Paths |-> IF p \in Ignored THEN index[p] ELSE files[p]]
  /\ jobs' = [jobs EXCEPT ![j].pc = IF jobs[j].kind = "restore" THEN "diff" ELSE "write-tree"]
  /\ UNCHANGED <<files, trees, patch, started, calls>>

\* git write-tree.
WriteTree(j) ==
  /\ At(j, "write-tree")
  /\ trees' = Append(trees, [files |-> index, of |-> jobs[j].before, alone |-> jobs[j].alone])
  /\ jobs' = [jobs EXCEPT ![j] = Idle]
  /\ UNCHANGED <<files, index, patch, started, calls>>

\* A diff that lists every file that is not as in the tree.
AllChanged(tree) == {p \in Paths : index[p] # tree[p] /\ index[p] # Absent}

\* git diff --cached --diff-filter=A.
Added(tree) == {p \in Paths : index[p] # Absent /\ tree[p] = Absent}

Diff(j) ==
  /\ At(j, "diff")
  /\ jobs' = [jobs EXCEPT ![j].added = Added(Tree(j)), ![j].pc = "read-tree"]
  /\ UNCHANGED <<files, index, trees, patch, started, calls>>

\* git read-tree.
ReadTree(j) ==
  /\ At(j, "read-tree") /\ index' = Tree(j)
  /\ jobs' = [jobs EXCEPT ![j].pc = "checkout-index"]
  /\ UNCHANGED <<files, trees, patch, started, calls>>

\* git checkout-index -a -f, which has read the index and writes its files.
CheckOut(j) ==
  /\ At(j, "checkout-index")
  /\ jobs' = [jobs EXCEPT ![j].out = index, ![j].left = {p \in Paths : index[p] # Absent},
                          ![j].pc = "writing"]
  /\ UNCHANGED <<files, index, trees, patch, started, calls>>

WriteOut(j, p) ==
  /\ At(j, "writing") /\ p \in jobs[j].left
  /\ files' = [files EXCEPT ![p] = jobs[j].out[p]]
  /\ jobs' = [Disturbed(j) EXCEPT ![j].left = @ \ {p}]
  /\ patch' = PatchDisturbed
  /\ UNCHANGED <<index, trees, started, calls>>

Written(j) ==
  /\ At(j, "writing") /\ jobs[j].left = {}
  /\ jobs' = [jobs EXCEPT ![j].left = jobs[j].added, ![j].pc = "removing"]
  /\ UNCHANGED <<files, index, trees, patch, started, calls>>

\* The files the tree has not are removed, as far as that works.
RemoveAdded(j, p) ==
  /\ At(j, "removing") /\ p \in jobs[j].left
  /\ files' \in {files, [files EXCEPT ![p] = Absent]}
  /\ jobs' = [Disturbed(j) EXCEPT ![j].left = @ \ {p},
                ![j].added = IF files'[p] = Absent THEN @ \ {p} ELSE @]
  /\ patch' = PatchDisturbed
  /\ UNCHANGED <<index, trees, started, calls>>

Removed(j) ==
  /\ At(j, "removing") /\ jobs[j].left = {}
  /\ jobs' = [jobs EXCEPT ![j].pc = "done"]
  /\ UNCHANGED <<files, index, trees, patch, started, calls>>

\* A command fails, or the caller has the result.
Return(j) ==
  /\ Busy(j) /\ jobs[j].pc # "removing" /\ jobs' = [jobs EXCEPT ![j] = Idle]
  /\ UNCHANGED <<files, index, trees, patch, started, calls>>

-----------------------------------------------------------------------------
(* Tools.                                                                  *)

Call == calls < MaxEdits /\ calls' = calls + 1

\* Execute of the Write tool, and the user's editor.  A write that fails may leave an
\* empty file.
Write(p, c) ==
  /\ Call /\ files' \in {[files EXCEPT ![p] = c], [files EXCEPT ![p] = <<>>]}
  /\ jobs' = Disturbed("") /\ patch' = PatchDisturbed
  /\ UNCHANGED <<index, trees, started>>

Readable == [p \in {q \in Paths : files[q] # Absent} |-> files[p]]

\* Execute of ApplyPatch: what the patch needs is read, and all of it applies, or nothing
\* is written.
ApplyPatch(envelope) ==
  LET hunks   == Parse(envelope)
      current == [p \in PatchFiles(hunks) \cap DOMAIN Readable |-> files[p]]
  IN /\ patch = NoPatch /\ Call
     /\ patch' = IF hunks # <<>> /\ CanApply(hunks, current)
                 THEN [phase |-> 1, next |-> 1, results |-> Results(hunks, current),
                       failed |-> FALSE, before |-> files, alone |-> TRUE]
                 ELSE patch
     /\ UNCHANGED <<files, index, trees, jobs, started>>

Moves(r) == r.from \notin {<<>>, r.path}

\* A move that removes the old file before it writes the new one.
OldFirst(r) ==
  IF r.op = "delete" THEN <<"remove">> ELSE IF Moves(r) THEN <<"remove", "write">> ELSE <<"write">>

\* The steps of a result, in order.
Phases(r) ==
  IF r.op = "delete" THEN <<"remove">> ELSE IF Moves(r) THEN <<"write", "remove">> ELSE <<"write">>

Removes(r) == IF r.op = "delete" THEN r.path ELSE r.from

PatchStep ==
  /\ patch # NoPatch /\ ~patch.failed /\ patch.next \in DOMAIN patch.results
  /\ LET r == patch.results[patch.next]
         step == Phases(r)[patch.phase]
         last == patch.phase = Len(Phases(r))
     IN \/ /\ files' = IF step = "write" THEN [files EXCEPT ![r.path] = r.content]
                       ELSE [files EXCEPT ![Removes(r)] = Absent]
           /\ patch' = [patch EXCEPT !.next = IF last THEN @ + 1 ELSE @,
                                     !.phase = IF last THEN 1 ELSE @ + 1]
        \/ /\ files' \in IF step = "write" THEN {files, [files EXCEPT ![r.path] = <<>>]} ELSE {files}
           /\ patch' = [patch EXCEPT !.failed = TRUE]
  /\ jobs' = Disturbed("")
  /\ UNCHANGED <<index, trees, started, calls>>

PatchEnds ==
  /\ patch # NoPatch /\ (patch.failed \/ patch.next \notin DOMAIN patch.results)
  /\ patch' = NoPatch
  /\ UNCHANGED <<files, index, trees, jobs, started, calls>>

-----------------------------------------------------------------------------
Git(j) ==
  \/ Snapshot(j) \/ Restore(j) \/ AddAll(j) \/ WriteTree(j) \/ Diff(j) \/ ReadTree(j)
  \/ CheckOut(j) \/ Written(j) \/ Removed(j) \/ Return(j)
  \/ \E p \in Paths : WriteOut(j, p) \/ RemoveAdded(j, p)

TreeNext ==
  \/ \E j \in Jobs : Git(j)
  \/ \E p \in Paths, c \in Contents : Write(p, c)
  \/ \E e \in Patches : ApplyPatch(e)
  \/ PatchStep \/ PatchEnds

TreeSpec == TreeInit /\ [][TreeNext]_treeVars
-----------------------------------------------------------------------------
\* "This restores precisely the snapshot tree's tracked set" (package snapshot): a
\* restore that ran alone and ended well gives back the files as they were when the
\* snapshot was begun, if that ran alone too; where it fails, a file is as before or as
\* in the snapshot; and an ignored file is never touched.
RestoreIsExact ==
  \A j \in Jobs : Busy(j) /\ jobs[j].kind = "restore" /\ jobs[j].alone =>
    LET t == trees[jobs[j].tree]
    IN /\ \A p \in Paths : files[p] \in {jobs[j].before[p]} \cup (IF p \in Ignored THEN {} ELSE {t.files[p]})
       /\ jobs[j].pc = "done" /\ t.alone =>
            \A p \in Paths \ (Ignored \cup jobs[j].added) : files[p] = t.of[p]

\* The paths of a patch's results, if no two results have one in common.
Separate(rs) ==
  \A i, k \in DOMAIN rs : i # k => {rs[i].path, rs[i].from} \cap {rs[k].path, rs[k].from} \subseteq {<<>>}

\* A patch that stops half way has made the changes of its first sections and none of
\* the later ones, and never loses a file it moves: until the new one is written whole,
\* the old one is there.
PatchStopsBetweenFiles ==
  patch # NoPatch /\ patch.alone /\ Separate(patch.results) =>
    \A i \in DOMAIN patch.results :
      LET r == patch.results[i]
          made == files[r.path] = (IF r.op = "delete" THEN Absent ELSE r.content)
          gone == Moves(r) => files[r.from] = Absent
      IN /\ i < patch.next => made /\ gone
         /\ i > patch.next => files[r.path] = patch.before[r.path]
         /\ i >= patch.next /\ Moves(r) => made \/ files[r.from] = patch.before[r.from]
=============================================================================
