------------------------------- MODULE MemoryStore -------------------------------
(***************************************************************************)
(* The memory file of a project (internal/memory, internal/tools/memory):  *)
(* korai processes that remember facts and notes in it, and the recall     *)
(* that puts notes into their requests and counts how often it did.        *)
(*                                                                         *)
(* A process has one Store, whose mutex its agents share; nothing locks    *)
(* the file between processes.  A write is a truncation and a write, and   *)
(* may fail after the first.  The byte cap is a number of entries here, a  *)
(* note's text a body with the marker it may end with, a fact its key.     *)
(***************************************************************************)
EXTENDS Naturals, Sequences, SequencesExt, FiniteSets

CONSTANTS
  Sessions,         \* korai processes
  FactKeys,      \* keys of facts
  Bodies,        \* texts of notes
  Queries,       \* what a user or a sub-agent's prompt says
  Relevance,     \* the terms and tags of a body a query hits
  Cap,           \* maxBytes, in entries
  FactCap,       \* MaxFactWritesPerTurn
  NoteCap,       \* MaxNoteWritesPerTurn
  RecallTopK,
  MaxTurns,      \* bound: turns of all processes
  MaxWrites,     \* bound: writes to the file
  MaxEdits       \* bound: edits by hand

ASSUME MemoryAssumption ==
  /\ Relevance \in [Bodies \X Queries -> Nat]
  /\ {Cap, FactCap, NoteCap, RecallTopK, MaxTurns, MaxWrites, MaxEdits} \subseteq Nat

VARIABLES
  memory,    \* MEMORY.md: facts and notes in order
  writing,   \* what each process is writing, with the file as it loaded it
  facts,     \* factWrites of each process
  notes,     \* noteWrites
  lastQuery, \* of each process's Provider
  asking,    \* what the model is being asked about, and the notes Section is to count
  turns, writes, edits,
  \* History.
  shared     \* a sub-agent has asked with the provider of its parent

memVars == <<memory, writing, facts, notes, lastQuery, asking, turns, writes, edits, shared>>

Text == [body : Bodies, mark : {"", "pinned"}]
Fact(k, pinned) == [key |-> k, pinned |-> pinned]
Note(t, pinned) == [text |-> t, pinned |-> pinned, uses |-> 0]

NoFile  == [facts |-> <<>>, notes |-> <<>>]
Nothing == [kind |-> "none"]

MemInit ==
  /\ memory = NoFile /\ writing = [p \in Sessions |-> Nothing]
  /\ facts = [p \in Sessions |-> 0] /\ notes = [p \in Sessions |-> 0]
  /\ lastQuery = [p \in Sessions |-> ""]
  /\ asking = [p \in Sessions |-> [query |-> "", step |-> "between turns", recalled |-> {}]]
  /\ turns = 0 /\ writes = 0 /\ edits = 0 /\ shared = FALSE

-----------------------------------------------------------------------------
(* The file.                                                               *)

\* Parse after Marshal: a marker a text ends with becomes the entry's own.
Parsed(t) == [t EXCEPT !.mark = ""]
Reread(file) ==
  [facts |-> file.facts,
   notes |-> [i \in DOMAIN file.notes |->
                [file.notes[i] EXCEPT !.text = Parsed(@), !.pinned = @ \/ file.notes[i].text.mark # ""]]]

\* Eviction that takes the oldest note of all first.
Oldest(file, pinned) == {i \in DOMAIN file.notes : i = 1}

\* lowestUtilityNote: the least recalled, oldest first.
LowestUtility(file, pinned) ==
  {i \in DOMAIN file.notes :
     /\ file.notes[i].pinned = pinned
     /\ \A j \in DOMAIN file.notes : file.notes[j].pinned = pinned =>
          \/ file.notes[j].uses > file.notes[i].uses
          \/ file.notes[j].uses = file.notes[i].uses /\ j >= i}

\* firstFact.
FirstFact(file, pinned) ==
  {i \in DOMAIN file.facts : /\ file.facts[i].pinned = pinned
                             /\ \A j \in DOMAIN file.facts : file.facts[j].pinned = pinned => j >= i}

WithoutNote(file, pinned) ==
  {[file EXCEPT !.notes = RemoveAt(@, i)] : i \in LowestUtility(file, pinned)}
WithoutFact(file, pinned) ==
  {[file EXCEPT !.facts = RemoveAt(@, i)] : i \in FirstFact(file, pinned)}

\* What evict takes, in order: unpinned notes, pinned ones, unpinned facts, pinned ones.
Evictions(file) ==
  <<WithoutNote(file, FALSE), WithoutNote(file, TRUE), WithoutFact(file, FALSE), WithoutFact(file, TRUE)>>

OneLess(file) ==
  LET first == CHOOSE n \in 1..4 : /\ Evictions(file)[n] # {}
                                   /\ \A m \in 1..(n - 1) : Evictions(file)[m] = {}
  IN CHOOSE f \in Evictions(file)[first] : TRUE

Size(file) == Len(file.facts) + Len(file.notes)

\* One round of evict, if there is too much and more than one entry.
Shrunk(file) == IF Size(file) > Cap /\ Size(file) > 1 THEN OneLess(file) ELSE file

\* evict.
Evicted(file) ==
  LET f[n \in 0..Size(file)] == IF n = 0 THEN file ELSE Shrunk(f[n - 1])
  IN f[Size(file)]

\* A fact takes the place of the one with its key.
WithFact(file, f) ==
  LET same == {i \in DOMAIN file.facts : file.facts[i].key = f.key}
  IN IF same = {} THEN [file EXCEPT !.facts = Append(@, f)]
     ELSE [file EXCEPT !.facts[CHOOSE i \in same : \A j \in same : i <= j] = f]

\* One more use of the notes at some places.
Counted(file, places) ==
  [file EXCEPT !.notes = [i \in DOMAIN file.notes |->
     IF i \in places THEN [file.notes[i] EXCEPT !.uses = @ + 1] ELSE file.notes[i]]]

-----------------------------------------------------------------------------
(* Remember and RecordUses, under the Store's mutex.                       *)

Begin(p, w) ==
  /\ writing[p].kind = "none" /\ writes < MaxWrites
  /\ writing' = [writing EXCEPT ![p] = w]

SetFact(p) ==
  /\ asking[p].step # "between turns" /\ facts[p] < FactCap
  /\ \E k \in FactKeys, pinned \in BOOLEAN :
       Begin(p, [kind |-> "fact", file |-> WithFact(Reread(memory), Fact(k, pinned))])
  /\ UNCHANGED <<memory, facts, notes, lastQuery, asking, turns, writes, edits, shared>>

\* A note that is there already is counted and not written.
AddNote(p) ==
  /\ asking[p].step # "between turns" /\ notes[p] < NoteCap
  /\ \E t \in Text, pinned \in BOOLEAN :
       LET file == Reread(memory)
       IN IF \E i \in DOMAIN file.notes : file.notes[i].text = t
          THEN /\ writing[p].kind = "none" /\ notes' = [notes EXCEPT ![p] = @ + 1] /\ UNCHANGED writing
          ELSE /\ Begin(p, [kind |-> "note", file |-> [file EXCEPT !.notes = Append(@, Note(t, pinned))]])
               /\ UNCHANGED notes
  /\ UNCHANGED <<memory, facts, lastQuery, asking, turns, writes, edits, shared>>

\* RecordUses of what Section recalled; none of it there any more, nothing is written.
RecordUses(p) ==
  /\ asking[p].step = "counting"
  /\ LET file == Reread(memory)
         counted == {i \in DOMAIN file.notes : file.notes[i].text \in asking[p].recalled}
     IN IF counted = {} THEN writing[p].kind = "none" /\ UNCHANGED writing
        ELSE Begin(p, [kind |-> "uses", file |-> Counted(file, counted)])
  /\ asking' = [asking EXCEPT ![p].step = "asking", ![p].recalled = {}]
  /\ UNCHANGED <<memory, facts, notes, lastQuery, turns, writes, edits, shared>>

\* saveLocked, which counts the write, or fails before or after the truncation.
Saved(p) ==
  /\ writing[p].kind # "none" /\ writes' = writes + 1
  /\ \/ /\ memory' = Evicted(writing[p].file)
        /\ facts' = [facts EXCEPT ![p] = IF writing[p].kind = "fact" THEN @ + 1 ELSE @]
        /\ notes' = [notes EXCEPT ![p] = IF writing[p].kind = "note" THEN @ + 1 ELSE @]
     \/ memory' \in {memory, NoFile} /\ UNCHANGED <<facts, notes>>
  /\ writing' = [writing EXCEPT ![p] = Nothing]
  /\ UNCHANGED <<lastQuery, asking, turns, edits, shared>>

-----------------------------------------------------------------------------
(* Turns and the section of a request.                                     *)

\* recallNotes: the unpinned notes the query hits, best first, newest first.
Better(file, i, j, q) ==
  LET score(n) == Relevance[<<file.notes[n].text.body, q>>]
  IN score(i) > score(j) \/ (score(i) = score(j) /\ i > j)
Recalled(file, q) ==
  LET hits == {i \in DOMAIN file.notes :
                 ~file.notes[i].pinned /\ Relevance[<<file.notes[i].text.body, q>>] > 0}
  IN {file.notes[i].text : i \in {j \in hits : Cardinality({k \in hits : Better(file, k, j, q)}) < RecallTopK}}

\* The user sends a message: SessionStart resets the caps of the turn.
SessionStart(p) ==
  /\ asking[p].step = "between turns" /\ writing[p].kind = "none" /\ turns < MaxTurns
  /\ turns' = turns + 1 /\ facts' = [facts EXCEPT ![p] = 0] /\ notes' = [notes EXCEPT ![p] = 0]
  /\ \E q \in Queries : asking' = [asking EXCEPT ![p].query = q, ![p].step = "asking"]
  /\ UNCHANGED <<memory, writing, lastQuery, writes, edits, shared>>

\* A request of a sub-agent, which has the Provider of its parent and a query of its own.
SubAgentAsks(p) ==
  /\ asking[p].step = "asking" /\ memory # NoFile
  /\ \E q \in Queries \ {asking[p].query} :
       LET recalled == Recalled(Reread(memory), q)
       IN /\ lastQuery' = [lastQuery EXCEPT ![p] = q]
          /\ asking' = IF q # lastQuery[p] /\ recalled # {}
                       THEN [asking EXCEPT ![p].step = "counting", ![p].recalled = recalled]
                       ELSE asking
  /\ shared' = TRUE
  /\ UNCHANGED <<memory, writing, facts, notes, turns, writes, edits>>

\* A Provider that counts on every request.
EveryRequest(p) == TRUE

NewQuery(p) == asking[p].query # lastQuery[p]

\* Section for a request of the turn.
Section(p) ==
  /\ asking[p].step = "asking" /\ memory # NoFile
  /\ lastQuery' = [lastQuery EXCEPT ![p] = asking[p].query]
  /\ LET recalled == Recalled(Reread(memory), asking[p].query)
     IN IF NewQuery(p) /\ recalled # {}
        THEN asking' = [asking EXCEPT ![p].step = "counting", ![p].recalled = recalled]
        ELSE UNCHANGED asking
  /\ UNCHANGED <<memory, writing, facts, notes, turns, writes, edits, shared>>

TurnEnds(p) ==
  /\ asking[p].step = "asking" /\ writing[p].kind = "none"
  /\ asking' = [asking EXCEPT ![p].step = "between turns"]
  /\ UNCHANGED <<memory, writing, facts, notes, lastQuery, turns, writes, edits, shared>>

\* Somebody writes a line into the file: one without a section is a pinned note, and a
\* second fact with a key stays.
EditByHand ==
  /\ edits < MaxEdits /\ edits' = edits + 1
  /\ memory' \in
       {[memory EXCEPT !.notes = Append(@, Note(t, TRUE))] : t \in Text} \cup
       {[memory EXCEPT !.facts = Append(@, Fact(k, FALSE))] : k \in FactKeys}
  /\ UNCHANGED <<writing, facts, notes, lastQuery, asking, turns, writes, shared>>

MemNext ==
  \/ EditByHand
  \/ \E p \in Sessions :
       \/ SetFact(p) \/ AddNote(p) \/ RecordUses(p) \/ Saved(p)
       \/ SessionStart(p) \/ SubAgentAsks(p) \/ Section(p) \/ TurnEnds(p)

MemSpec == MemInit /\ [][MemNext]_memVars
-----------------------------------------------------------------------------
\* "Recall uses are recorded once per distinct query, not once per request, so the
\* tool-loop's repeated request builds do not inflate the utility counters" (Provider):
\* with any number of requests of any number of processes a note is counted once a turn
\* -- as long as no sub-agent's prompt comes between two requests of its parent, after
\* which the parent's query counts as a new one.
UsesCountQueries ==
  shared \/ \A i \in DOMAIN memory.notes : memory.notes[i].uses <= turns

\* Where entries of `had' are gone from a file, it has nothing of less use left: classes
\* go in order, unpinned notes, pinned ones, unpinned facts and pinned ones, and of two
\* unpinned notes the one that was recalled less often.
KeepsUseful(had, file) ==
  LET gone == ToSet(had.notes) \ ToSet(file.notes)
      left == ToSet(file.notes)
      lost == ToSet(had.facts) \ ToSet(file.facts)
  IN /\ \A n \in gone, m \in left : ~m.pinned => ~n.pinned /\ n.uses <= m.uses
     /\ lost # {} => left = {}
     /\ (\E f \in lost : f.pinned) => \A f \in ToSet(file.facts) : f.pinned

\* Eviction goes by utility (evict): what a save drops is never worth more than what it
\* keeps.
EvictsByUtility ==
  [][\A p \in Sessions :
       writing[p].kind # "none" /\ writing'[p].kind = "none" /\ memory' \notin {memory, NoFile} =>
         KeepsUseful(writing[p].file, memory')]_memVars
=============================================================================
