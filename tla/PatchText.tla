-------------------------------- MODULE PatchText --------------------------------
(***************************************************************************)
(* A patch for one file, written line by line by the model, and what       *)
(* becomes of the file when it is applied as far as it goes.               *)
(***************************************************************************)
EXTENDS Patch

CONSTANTS
  Targets,    \* the contents the file may have
  Beginnings, \* what an envelope may begin with
  PatchLines, \* the lines it may go on with
  MaxLines    \* bound: lines of the envelope

ASSUME PatchTextAssumption ==
  /\ Targets \subseteq Seq(Seq(STRING))
  /\ Beginnings \subseteq Seq(EnvelopeLines) /\ PatchLines \subseteq EnvelopeLines

VARIABLES
  original,   \* the file's content
  envelope    \* the lines of the patch

patchVars == <<original, envelope>>

PatchInit == original \in Targets /\ envelope \in Beginnings

WriteLine(l) ==
  /\ Len(envelope) < MaxLines /\ envelope' = Append(envelope, l) /\ UNCHANGED original

PatchNext == \E l \in PatchLines : WriteLine(l)

PatchSpec == PatchInit /\ [][PatchNext]_patchVars

-----------------------------------------------------------------------------
(* What a patch says, without a search order.                              *)

TargetPath == <<"p">>
End == [mark |-> "end", text |-> <<>>]

\* A chunk's lines, or without their final empty one.
OldOf(c, cut) == IF cut THEN Unended(c.old) ELSE c.old
NewOf(c, cut) == IF cut THEN Unended(c.new) ELSE c.new

\* Where the chunks may apply: in order, apart from each other, each where the file has
\* its lines up to blanks and typography, after its heading; additions go to the end.
Fits(lines, chunks, pos, cut) ==
  LET n == Len(lines)
      old(i) == OldOf(chunks[i], i \in cut)
      after(i) == Max({0} \cup {pos[j] + Len(old(j)) : j \in {k \in 1..i-1 : chunks[k].old # <<>>}})
  IN \A i \in DOMAIN chunks :
       IF chunks[i].old = <<>>
       THEN pos[i] = n - (IF lines # <<>> /\ Last(lines) = <<>> THEN 1 ELSE 0)
       ELSE /\ pos[i] >= after(i) /\ pos[i] + Len(old(i)) <= n
            /\ MatchAt(lines, old(i), pos[i], 4)
            /\ chunks[i].at # <<>> =>
                 \E h \in after(i) + 1..pos[i] : Form(4, lines[h]) = Form(4, chunks[i].at)

\* Every line no chunk takes, with the chunks' lines at their places.
Woven(lines, chunks, pos, cut) ==
  LET taken == UNION {pos[i] + 1..pos[i] + Len(OldOf(chunks[i], i \in cut)) : i \in DOMAIN chunks}
      here(k, i) == IF pos[i] = k THEN NewOf(chunks[i], i \in cut) ELSE <<>>
      at(k) == FlattenSeq([i \in DOMAIN chunks |-> here(k, i)])
                 \o IF k < Len(lines) /\ k + 1 \notin taken THEN <<lines[k + 1]>> ELSE <<>>
  IN FlattenSeq([k \in 1..Len(lines) + 1 |-> at(k - 1)])

\* An addition at the end falls into the lines another chunk takes.
AdditionTaken(chunks, pos, cut) ==
  \E i, j \in DOMAIN chunks :
    chunks[i].old = <<>> /\ pos[i] \in pos[j]..pos[j] + Len(OldOf(chunks[j], j \in cut)) - 1

\* A patch that applies does what it says: every line marked "-" is gone, every "+" line
\* is where the patch puts it, and every other line of the file stays, whatever the
\* matchers' looseness, the cursor, the sort and the order of the replacements do --
\* unless the chunk that only adds lines falls into another's.
PatchesDoWhatTheySay ==
  LET hunks == Parse(Append(envelope, End))
      chunks == hunks[1].chunks
      current == [p \in {TargetPath} |-> original]
  IN hunks # Malformed /\ hunks # <<>> /\ hunks[1].op = "update"
     /\ CanApply(<<hunks[1]>>, current) =>
       \E pos \in [DOMAIN chunks -> 0..Len(original)], cut \in SUBSET DOMAIN chunks :
         /\ Fits(original, chunks, pos, cut)
         /\ \/ Result(hunks[1], current).content = Unended(Woven(original, chunks, pos, cut))
            \/ AdditionTaken(chunks, pos, cut)
=============================================================================
