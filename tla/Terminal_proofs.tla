----------------------------- MODULE Terminal_proofs -----------------------------
(***************************************************************************)
(* Proofs about the terminal: the conversations and the undo log of        *)
(* Terminal, and the requests and selections of Prompt.                    *)
(***************************************************************************)
EXTENDS Terminal, Prompt, TLAPS

-----------------------------------------------------------------------------
(* The conversation.                                                       *)

Past == 0..turns
Saves       == InFlight({"save"})
Compactions == InFlight({"compact", "compacted"})
Typed(o, i, h) == \A t \in h : o[t] = i
TypedBy(i, h)  == Typed(owner, i, h)

IsRun(r) == r = [turn |-> r.turn, from |-> r.from, interrupted |-> r.interrupted, state |-> r.state]

\* Turns are of the past, and a command carries what its handler needs.
ShapeInv ==
  /\ id \in Ids /\ turns \in Turns /\ history \subseteq Past /\ completed \subseteq Past
  /\ DOMAIN store = Ids /\ DOMAIN owner = Turns
  /\ \A i \in Ids : store[i] # NoSession => store[i] \subseteq Past
  /\ run # NoRun => IsRun(run) /\ run.turn \in Past \ completed /\ run.from \subseteq Past
  /\ \A c \in flight :
       /\ c.kind \in {"save", "load", "loaded"} => c.id \in Ids
       /\ c.kind \in {"save", "loaded", "compact", "compacted"} => c.history \subseteq Past
       /\ c.kind = "compact" => c = [kind |-> "compact", history |-> c.history]
       /\ c.kind = "revert" => c = [kind |-> "revert", label |-> c.label, tree |-> c.tree, steps |-> c.steps]

\* What makes the terminal busy is one run or one compaction.
BusyInv ==
  /\ ~busy => run = NoRun /\ Compactions = {}
  /\ run = NoRun \/ Compactions = {}
  /\ \A c, d \in Compactions : c = d

\* Whatever may be saved under an id has been typed into that session.
ApartInv ==
  /\ \A i \in Ids \ crossed : store[i] # NoSession => TypedBy(i, store[i])
  /\ \A c \in InFlight({"save", "loaded"}) : c.id \notin crossed => TypedBy(c.id, c.history)
  /\ id \notin crossed => /\ TypedBy(id, history)
                          /\ run # NoRun => TypedBy(id, run.from)
                          /\ \A c \in Compactions : c.history = history

\* The one save of the session on screen has its completed turns, or the store has.
KeptInv ==
  /\ \A c, d \in Saves : c.id = d.id => c = d \/ c.id \in overtaken
  /\ id \notin overtaken \cup crossed =>
       /\ \A c \in Saves : c.id = id => history \cap completed \subseteq c.history
       /\ (\A c \in Saves : c.id # id) => store[id] # NoSession \/ history \cap completed = {}
       /\ (\A c \in Saves : c.id # id) /\ store[id] # NoSession => history \cap completed \subseteq store[id]

ConvInv == ShapeInv /\ BusyInv /\ ApartInv /\ KeptInv

\* The commands by kind, of which every step starts or ends one.
LEMMA Kinds_of ==
  ASSUME NEW c \in flight
  PROVE  /\ c \in Saves <=> c.kind = "save"
         /\ c \in Compactions <=> c.kind = "compact" \/ c.kind = "compacted"
         /\ c \in InFlight({"save", "loaded"}) <=> c.kind = "save" \/ c.kind = "loaded"
BY DEF Saves, Compactions, InFlight

LEMMA ConvInvInit ==
  ASSUME Init
  PROVE  ConvInv
<1>1. turns = 0 /\ flight = {} /\ run = NoRun /\ busy = FALSE /\ crossed = {} /\ overtaken = {} /\ completed = {0}
  BY DEF Init
<1>2. /\ id \in Ids /\ DOMAIN store = Ids /\ DOMAIN owner = Turns /\ Past = {0} /\ turns \in Turns
      /\ \A i \in Ids : store[i] = (IF i = Saved THEN {0} ELSE NoSession)
      /\ \A t \in Turns : owner[t] = Saved
      /\ history = (IF store[id] = NoSession THEN {} ELSE store[id])
  BY <1>1, TerminalAssumption DEF Init, Past, Turns
<1>3. \A i \in Ids : store[i] # NoSession => i = Saved /\ store[i] = {0}
  BY <1>2
<1>4. history \subseteq {0} /\ (history # {} => id = Saved /\ store[id] # NoSession /\ store[id] = history)
  BY <1>2, <1>3
<1>5. 0 \in Turns
  BY TerminalAssumption DEF Turns
<1>6. Saves = {} /\ Compactions = {} /\ InFlight({"save", "loaded"}) = {}
  BY <1>1 DEF Saves, Compactions, InFlight
<1>7. ShapeInv
  BY <1>1, <1>2, <1>3, <1>4 DEF ShapeInv
<1>8. BusyInv
  BY <1>1, <1>6 DEF BusyInv
<1>9. ApartInv
  BY <1>1, <1>2, <1>3, <1>4, <1>5, <1>6 DEF ApartInv, TypedBy, Typed
<1>10. KeptInv
  <2>1. store[id] # NoSession => history \subseteq store[id]
    BY <1>2
  <2>2. store[id] # NoSession \/ history = {}
    BY <1>4
  <2>3. QED
    BY <1>6, <2>1, <2>2 DEF KeptInv
<1>11. QED
  BY <1>7, <1>8, <1>9, <1>10 DEF ConvInv

\* Steps that leave the conversation, its saves and compactions as they are.
LEMMA QuietKeeps ==
  ASSUME ConvInv, UNCHANGED <<conv, busy, run, turns, owner, completed, crossed, overtaken>>,
         \A c \in flight' :
           \/ c \in flight
           \/ c.kind = "load" /\ c.id \in Ids
           \/ c.kind \in {"snapshot", "taken", "reverted"}
           \/ c = [kind |-> "revert", label |-> c.label, tree |-> c.tree, steps |-> c.steps],
         \A c \in flight \ flight' : c.kind \notin {"save", "compact", "compacted"}
  PROVE  ConvInv'
<1>1. UNCHANGED <<id, history, store, busy, run, turns, owner, completed, crossed, overtaken>>
  BY DEF conv
<1>2. \A c \in flight' : c \in flight \/ c.kind \in {"load", "snapshot", "taken", "revert", "reverted"}
  <2>1. \A k, l, tr, s : [kind |-> k, label |-> l, tree |-> tr, steps |-> s].kind = k
    OBVIOUS
  <2>2. QED
    BY <2>1
<1>3. Saves' = Saves /\ Compactions' = Compactions
  BY <1>2 DEF Saves, Compactions, InFlight
<1>4. InFlight({"save", "loaded"})' \subseteq InFlight({"save", "loaded"})
  BY <1>2 DEF InFlight
<1>5. ShapeInv'
  <2>1. ShapeInv
    BY DEF ConvInv
  <2>2. ASSUME NEW c \in flight'
        PROVE  /\ c.kind \in {"save", "load", "loaded"} => c.id \in Ids
               /\ c.kind \in {"save", "loaded", "compact", "compacted"} => c.history \subseteq Past
               /\ c.kind = "compact" => c = [kind |-> "compact", history |-> c.history]
               /\ c.kind = "revert" => c = [kind |-> "revert", label |-> c.label, tree |-> c.tree, steps |-> c.steps]
    <3>1. CASE c \in flight
      BY <2>1, <3>1 DEF ShapeInv
    <3>2. CASE c \notin flight
      BY <1>2, <3>2
    <3>3. QED
      BY <3>1, <3>2
  <2>3. Past' = Past
    BY <1>1 DEF Past
  <2>4. QED
    BY <1>1, <2>1, <2>2, <2>3 DEF ShapeInv
<1>6. BusyInv'
  BY <1>1, <1>3 DEF ConvInv, BusyInv
<1>7. ApartInv'
  BY <1>1, <1>3, <1>4 DEF ConvInv, ApartInv, TypedBy
<1>8. KeptInv'
  BY <1>1, <1>3 DEF ConvInv, KeptInv
<1>9. QED
  BY <1>5, <1>6, <1>7, <1>8 DEF ConvInv

LEMMA QuietSteps ==
  ASSUME ConvInv,
         \/ RunEdits \/ (\E i \in Ids : Resume(i)) \/ (\E n \in 1..MaxTurns : Revert(n))
         \/ \E c \in flight : \/ LoadFails(c) \/ RunSnapshot(c) \/ SnapshotFails(c) \/ OnTaken(c)
                              \/ RunRevert(c) \/ RevertFails(c) \/ OnReverted(c)
  PROVE  ConvInv'
<1> DEFINE Same == UNCHANGED <<conv, busy, run, turns, owner, completed, crossed, overtaken>>
           New(c) == \/ c \in flight
                     \/ c.kind = "load" /\ c.id \in Ids
                     \/ c.kind \in {"snapshot", "taken", "reverted"}
                     \/ c = [kind |-> "revert", label |-> c.label, tree |-> c.tree, steps |-> c.steps]
<1>1. CASE RunEdits
  <2>1. Same /\ flight' = flight
    BY <1>1 DEF RunEdits, past, conv
  <2>2. QED
    BY <2>1, QuietKeeps
<1>2. ASSUME NEW i \in Ids, Resume(i)
      PROVE  ConvInv'
  <2>1. Same /\ flight' = flight \cup {[kind |-> "load", id |-> i]}
    BY <1>2 DEF Resume, Issue, past, conv
  <2>2. \A c \in flight' : New(c)
    BY <2>1
  <2>3. QED
    BY <2>1, <2>2, QuietKeeps
<1>3. ASSUME NEW n \in 1..MaxTurns, Revert(n)
      PROVE  ConvInv'
  <2>1. Same /\ flight' = flight \cup {[kind |-> "revert", label |-> At(n).label, tree |-> At(n).tree, steps |-> n]}
    BY <1>3 DEF Revert, Issue, past, conv
  <2>2. \A c \in flight' : New(c)
    BY <2>1
  <2>3. QED
    BY <2>1, <2>2, QuietKeeps
<1>4. ASSUME NEW c \in flight, LoadFails(c) \/ SnapshotFails(c) \/ OnTaken(c) \/ RevertFails(c) \/ OnReverted(c)
      PROVE  ConvInv'
  <2>1. Same /\ flight' = flight \ {c}
    BY <1>4 DEF LoadFails, SnapshotFails, OnTaken, RevertFails, OnReverted, past, conv, files
  <2>2. c.kind \in {"load", "snapshot", "taken", "revert", "reverted"}
    BY <1>4 DEF LoadFails, SnapshotFails, OnTaken, RevertFails, OnReverted, InFlight
  <2>3. \A d \in flight \ flight' : d.kind \notin {"save", "compact", "compacted"}
    BY <2>1, <2>2
  <2>4. \A d \in flight' : d \in flight
    BY <2>1
  <2>5. QED
    BY <2>1, <2>3, <2>4, QuietKeeps
<1>5. ASSUME NEW c \in flight, RunSnapshot(c)
      PROVE  ConvInv'
  <2>1. Same /\ flight' = (flight \ {c}) \cup {[kind |-> "taken", label |-> c.label, tree |-> worktree]}
        /\ c.kind = "snapshot"
    BY <1>5 DEF RunSnapshot, InFlight, past, conv
  <2>2. (\A d \in flight' : New(d)) /\ \A d \in flight \ flight' : d.kind \notin {"save", "compact", "compacted"}
    BY <2>1
  <2>3. QED
    BY <2>1, <2>2, QuietKeeps
<1>6. ASSUME NEW c \in flight, RunRevert(c)
      PROVE  ConvInv'
  <2>1. Same /\ flight' = (flight \ {c}) \cup {[c EXCEPT !.kind = "reverted"]} /\ c.kind = "revert"
    BY <1>6 DEF RunRevert, InFlight, past, conv
  <2>2. c = [kind |-> "revert", label |-> c.label, tree |-> c.tree, steps |-> c.steps]
    BY <2>1 DEF ConvInv, ShapeInv
  <2>3. PICK d : d = [c EXCEPT !.kind = "reverted"]
    OBVIOUS
  <2>4. d.kind = "reverted"
    BY <2>2, <2>3
  <2>5. (\A e \in flight' : New(e)) /\ \A e \in flight \ flight' : e.kind \notin {"save", "compact", "compacted"}
    BY <2>1, <2>3, <2>4
  <2>6. QED
    BY <2>1, <2>5, QuietKeeps
<1>7. QED
  BY <1>1, <1>2, <1>3, <1>4, <1>5, <1>6

\* A turn begins: it is new, so no conversation has it yet.
LEMMA SubmitKeeps ==
  ASSUME ConvInv, Submit
  PROVE  ConvInv'
<1>1. /\ ~busy /\ turns < MaxTurns /\ turns' = turns + 1 /\ busy' = TRUE
      /\ history' = history \cup {turns + 1}
      /\ run' = [turn |-> turns + 1, from |-> history', interrupted |-> FALSE, state |-> "running"]
      /\ flight' = flight \cup {[kind |-> "snapshot", label |-> turns + 1]}
      /\ owner' = [owner EXCEPT ![turns + 1] = id]
      /\ UNCHANGED <<id, store, completed, crossed, overtaken>>
  BY DEF Submit
<1>2. ShapeInv /\ BusyInv /\ ApartInv /\ KeptInv
  BY DEF ConvInv
<1>3. turns \in Nat /\ MaxTurns \in Nat /\ turns + 1 \in Turns /\ turns + 1 \notin Past /\ Past \subseteq Past'
      /\ turns + 1 \in Past' /\ Past \subseteq Turns
  BY <1>1, <1>2, TerminalAssumption DEF ShapeInv, Turns, Past
<1>4. PICK now : now = turns + 1
  OBVIOUS
<1>5. run = NoRun /\ Compactions = {}
  BY <1>1, <1>2 DEF BusyInv
<1>6. Saves' = Saves /\ Compactions' = Compactions /\ InFlight({"save", "loaded"})' = InFlight({"save", "loaded"})
  BY <1>1 DEF Saves, Compactions, InFlight
<1>7. run'.turn = now /\ run'.from = history' /\ IsRun(run')
  BY <1>1, <1>4 DEF IsRun
<1>8. DOMAIN owner' = DOMAIN owner /\ \A h \in Past : owner'[h] = owner[h]
  BY <1>1, <1>2, <1>3, <1>4 DEF ShapeInv
<1>9. owner'[now] = id
  BY <1>1, <1>2, <1>3, <1>4 DEF ShapeInv
<1>10. ShapeInv'
  <2>1. ASSUME NEW c \in flight'
        PROVE  /\ c.kind \in {"save", "load", "loaded"} => c.id \in Ids
               /\ c.kind \in {"save", "loaded", "compact", "compacted"} => c.history \subseteq Past'
               /\ c.kind = "compact" => c = [kind |-> "compact", history |-> c.history]
               /\ c.kind = "revert" => c = [kind |-> "revert", label |-> c.label, tree |-> c.tree, steps |-> c.steps]
    <3>1. CASE c \in flight
      BY <1>2, <1>3, <3>1 DEF ShapeInv
    <3>2. CASE c = [kind |-> "snapshot", label |-> turns + 1]
      <4>1. c.kind = "snapshot"
        BY <3>2
      <4>2. QED
        BY <4>1
    <3>3. QED
      BY <1>1, <3>1, <3>2
  <2>2. history' \subseteq Past' /\ completed' \subseteq Past' /\ now \in Past' \ completed'
    BY <1>1, <1>2, <1>3, <1>4 DEF ShapeInv
  <2>3. \A i \in Ids : store'[i] # NoSession => store'[i] \subseteq Past'
    BY <1>1, <1>2, <1>3 DEF ShapeInv
  <2>4. id' \in Ids /\ turns' \in Turns /\ DOMAIN store' = Ids /\ DOMAIN owner' = Turns
    BY <1>1, <1>2, <1>3, <1>8 DEF ShapeInv
  <2>5. QED
    BY <1>7, <2>1, <2>2, <2>3, <2>4 DEF ShapeInv
<1>11. BusyInv'
  BY <1>1, <1>5, <1>6 DEF BusyInv
<1>12. \A i, h : h \subseteq Past => (TypedBy(i, h) => Typed(owner', i, h))
  BY <1>8 DEF TypedBy, Typed
<1>13. ApartInv'
  <2>1. ASSUME NEW i \in Ids \ crossed', store'[i] # NoSession
        PROVE  Typed(owner', i, store'[i])
    <3>1. PICK h : h = store[i]
      OBVIOUS
    <3>2. h \subseteq Past /\ TypedBy(i, h)
      BY <1>1, <1>2, <2>1, <3>1 DEF ShapeInv, ApartInv
    <3>3. Typed(owner', i, h)
      BY <1>12, <3>2
    <3>4. store'[i] = h
      BY <1>1, <3>1
    <3>5. QED
      BY <3>3, <3>4
  <2>2. ASSUME NEW c \in InFlight({"save", "loaded"})', c.id \notin crossed'
        PROVE  Typed(owner', c.id, c.history)
    <3>1. c \in flight /\ c.kind \in {"save", "loaded"}
      BY <1>6 DEF InFlight
    <3>2. c.history \subseteq Past /\ TypedBy(c.id, c.history)
      BY <1>1, <1>2, <1>6, <2>2, <3>1 DEF ShapeInv, ApartInv
    <3>3. QED
      BY <1>12, <3>2
  <2>3. ASSUME id' \notin crossed'
        PROVE  Typed(owner', id', history') /\ Typed(owner', id', run'.from)
    <3>1. history \subseteq Past /\ TypedBy(id, history)
      BY <1>1, <1>2, <2>3 DEF ShapeInv, ApartInv
    <3>2. \A h \in history' : owner'[h] = id'
      BY <1>1, <1>4, <1>8, <1>9, <3>1 DEF TypedBy, Typed
    <3>3. QED
      BY <1>7, <3>2 DEF Typed
  <2>4. Compactions' = {}
    BY <1>5, <1>6
  <2>5. QED
    BY <2>1, <2>2, <2>3, <2>4 DEF ApartInv, TypedBy
<1>14. KeptInv'
  <2>1. history' \cap completed' = history \cap completed
    BY <1>1, <1>2, <1>3 DEF ShapeInv
  <2>2. QED
    BY <1>1, <1>2, <1>6, <2>1 DEF KeptInv
<1>15. QED
  BY <1>10, <1>11, <1>13, <1>14 DEF ConvInv

\* Interrupt and the end of a run change nothing of what it was started from.
LEMMA RunKeeps ==
  ASSUME ConvInv, Interrupt \/ RunEnds
  PROVE  ConvInv'
<1>1. /\ UNCHANGED <<id, history, store, busy, flight, turns, owner, completed, crossed, overtaken>>
      /\ run # NoRun
      /\ \/ run' = [run EXCEPT !.interrupted = TRUE]
         \/ \E s : run' = [run EXCEPT !.state = s]
  BY DEF Interrupt, RunEnds, Running, conv, past
<1>2. ShapeInv /\ BusyInv /\ ApartInv /\ KeptInv
  BY DEF ConvInv
<1>3. IsRun(run)
  BY <1>1, <1>2 DEF ShapeInv
<1>4. IsRun(run') /\ run'.turn = run.turn /\ run'.from = run.from
  <2>1. PICK a, b, c, d : run = [turn |-> a, from |-> b, interrupted |-> c, state |-> d]
    BY <1>3 DEF IsRun
  <2>2. PICK e, f : run' = [turn |-> a, from |-> b, interrupted |-> e, state |-> f]
    BY <1>1, <2>1
  <2>3. QED
    BY <2>1, <2>2 DEF IsRun
<1>5. /\ Past' = Past /\ Saves' = Saves /\ Compactions' = Compactions
      /\ InFlight({"save", "loaded"})' = InFlight({"save", "loaded"})
  BY <1>1 DEF Past, Saves, Compactions, InFlight
<1>6. ShapeInv'
  BY <1>1, <1>2, <1>4, <1>5 DEF ShapeInv
<1>7. BusyInv'
  BY <1>1, <1>2, <1>5 DEF BusyInv
<1>8. ApartInv'
  BY <1>1, <1>2, <1>4, <1>5 DEF ApartInv, TypedBy
<1>9. KeptInv'
  BY <1>1, <1>2, <1>5 DEF KeptInv
<1>10. QED
  BY <1>6, <1>7, <1>8, <1>9 DEF ConvInv

\* A new save: the session and the history Update has now.
LEMMA SaveIssued ==
  ASSUME ConvInv, NEW h, h \subseteq Past', NEW c, c = SaveOf(id, h), flight' = flight \cup {c},
         UNCHANGED id, overtaken' = Overtakes(c)
  PROVE  /\ Saves' = Saves \cup {c} /\ Compactions' = Compactions
         /\ InFlight({"save", "loaded"})' = InFlight({"save", "loaded"}) \cup {c}
         /\ c.kind = "save" /\ c.id = id /\ c.history = h
         /\ overtaken \subseteq overtaken'
         /\ \A a, b \in Saves' : a.id = b.id => a = b \/ a.id \in overtaken'
<1>1. c.kind = "save" /\ c.id = id /\ c.history = h
  BY DEF SaveOf
<1>2. /\ Saves' = Saves \cup {c} /\ Compactions' = Compactions
      /\ InFlight({"save", "loaded"})' = InFlight({"save", "loaded"}) \cup {c}
  BY <1>1 DEF Saves, Compactions, InFlight
<1>3. overtaken \subseteq overtaken' /\ \A d \in Saves : d.id = id => d = c \/ id \in overtaken'
  BY <1>1 DEF Overtakes, Saves
<1>4. \A a, b \in Saves : a.id = b.id => a = b \/ a.id \in overtaken
  BY DEF ConvInv, KeptInv
<1>5. \A a, b \in Saves' : a.id = b.id => a = b \/ a.id \in overtaken'
  BY <1>1, <1>2, <1>3, <1>4
<1>6. QED
  BY <1>1, <1>2, <1>3, <1>5

\* A run that ended well: its conversation is the terminal's and is being saved.
LEMMA OnDoneKeeps ==
  ASSUME ConvInv, OnDone
  PROVE  ConvInv'
<1>1. /\ run # NoRun /\ run' = NoRun /\ busy' = FALSE /\ history' = run.from
      /\ completed' = completed \cup {run.turn}
      /\ UNCHANGED <<id, store, turns, owner, crossed>>
  BY DEF OnDone
<1>2. PICK c : c = SaveOf(id, history') /\ flight' = flight \cup {c} /\ overtaken' = Overtakes(c)
  BY DEF OnDone
<1>3. ShapeInv /\ BusyInv /\ ApartInv /\ KeptInv
  BY DEF ConvInv
<1>4. Past' = Past /\ run.from \subseteq Past /\ run.turn \in Past
  BY <1>1, <1>3 DEF Past, ShapeInv
<1>5. PICK h : h = history' /\ h = run.from /\ h \subseteq Past'
  BY <1>1, <1>4
<1>6. /\ Saves' = Saves \cup {c} /\ Compactions' = Compactions
      /\ InFlight({"save", "loaded"})' = InFlight({"save", "loaded"}) \cup {c}
      /\ c.kind = "save" /\ c.id = id /\ c.history = h
      /\ overtaken \subseteq overtaken'
      /\ \A a, b \in Saves' : a.id = b.id => a = b \/ a.id \in overtaken'
  BY <1>1, <1>2, <1>5, SaveIssued
<1>7. Compactions = {}
  BY <1>1, <1>3 DEF BusyInv
<1>8. ShapeInv'
  BY <1>1, <1>2, <1>3, <1>4, <1>5, <1>6 DEF ShapeInv
<1>9. BusyInv'
  BY <1>1, <1>6, <1>7 DEF BusyInv
<1>10. ApartInv'
  <2>1. id \notin crossed => TypedBy(id, h)
    BY <1>1, <1>3, <1>5 DEF ApartInv
  <2>2. \A i, g : TypedBy(i, g)' <=> TypedBy(i, g)
    BY <1>1 DEF TypedBy
  <2>3. id' \notin crossed' => TypedBy(id', history')
    BY <1>1, <1>5, <2>1 DEF TypedBy
  <2>4. \A d \in InFlight({"save", "loaded"})' : d.id \notin crossed' => TypedBy(d.id, d.history)
    BY <1>1, <1>3, <1>6, <2>1 DEF ApartInv
  <2>5. \A i \in Ids \ crossed' : store'[i] # NoSession => TypedBy(i, store'[i])
    BY <1>1, <1>3 DEF ApartInv, TypedBy
  <2>6. QED
    BY <1>1, <1>6, <1>7, <2>2, <2>3, <2>4, <2>5 DEF ApartInv, TypedBy
<1>11. KeptInv'
  BY <1>1, <1>5, <1>6 DEF KeptInv
<1>12. QED
  BY <1>8, <1>9, <1>10, <1>11 DEF ConvInv

\* A run that failed leaves the conversation with its turn, which is not completed.
LEMMA OnFailureKeeps ==
  ASSUME ConvInv, OnFailure
  PROVE  ConvInv'
<1>1. /\ run # NoRun /\ run' = NoRun
      /\ UNCHANGED <<id, history, store, flight, turns, owner, completed, crossed, overtaken>>
  BY DEF OnFailure, conv, past
<1>2. ShapeInv /\ BusyInv /\ ApartInv /\ KeptInv
  BY DEF ConvInv
<1>3. /\ Past' = Past /\ Saves' = Saves /\ Compactions' = Compactions
      /\ InFlight({"save", "loaded"})' = InFlight({"save", "loaded"})
  BY <1>1 DEF Past, Saves, Compactions, InFlight
<1>4. Compactions = {}
  BY <1>1, <1>2 DEF BusyInv
<1>5. ShapeInv'
  BY <1>1, <1>2, <1>3 DEF ShapeInv
<1>6. BusyInv'
  BY <1>1, <1>3, <1>4 DEF BusyInv
<1>7. ApartInv'
  BY <1>1, <1>2, <1>3 DEF ApartInv, TypedBy
<1>8. KeptInv'
  BY <1>1, <1>2, <1>3 DEF KeptInv
<1>9. QED
  BY <1>5, <1>6, <1>7, <1>8 DEF ConvInv

LEMMA TickKeeps ==
  ASSUME ConvInv, Tick
  PROVE  ConvInv'
<1>1. UNCHANGED <<id, history, store, busy, run, turns, owner, completed, crossed>>
  BY DEF Tick, conv
<1>2. PICK c : c = SaveOf(id, history) /\ flight' = flight \cup {c} /\ overtaken' = Overtakes(c)
  BY DEF Tick, Issue
<1>3. ShapeInv /\ BusyInv /\ ApartInv /\ KeptInv
  BY DEF ConvInv
<1>4. Past' = Past /\ history \subseteq Past'
  BY <1>1, <1>3 DEF Past, ShapeInv
<1>5. /\ Saves' = Saves \cup {c} /\ Compactions' = Compactions
      /\ InFlight({"save", "loaded"})' = InFlight({"save", "loaded"}) \cup {c}
      /\ c.kind = "save" /\ c.id = id /\ c.history = history
      /\ overtaken \subseteq overtaken'
      /\ \A a, b \in Saves' : a.id = b.id => a = b \/ a.id \in overtaken'
  BY <1>1, <1>2, <1>4, SaveIssued
<1>6. ShapeInv'
  BY <1>1, <1>2, <1>3, <1>4, <1>5 DEF ShapeInv
<1>7. BusyInv'
  BY <1>1, <1>3, <1>5 DEF BusyInv
<1>8. ApartInv'
  <2>1. \A i, g : TypedBy(i, g)' <=> TypedBy(i, g)
    BY <1>1 DEF TypedBy
  <2>2. \A d \in InFlight({"save", "loaded"})' : d.id \notin crossed' => TypedBy(d.id, d.history)
    BY <1>1, <1>3, <1>5 DEF ApartInv
  <2>3. QED
    BY <1>1, <1>3, <1>5, <2>1, <2>2 DEF ApartInv, TypedBy
<1>9. KeptInv'
  BY <1>1, <1>3, <1>5 DEF KeptInv
<1>10. QED
  BY <1>6, <1>7, <1>8, <1>9 DEF ConvInv

\* The one save of a session reaches the store: what it had to have is there.
LEMMA RunSaveKeeps ==
  ASSUME ConvInv, NEW c \in flight, RunSave(c)
  PROVE  ConvInv'
<1>1. /\ c \in Saves /\ c.kind = "save" /\ flight' = flight \ {c}
      /\ store' = [store EXCEPT ![c.id] = c.history]
      /\ UNCHANGED <<id, history, busy, run, turns, owner, completed, crossed, overtaken>>
  BY DEF RunSave, past, Saves, InFlight
<1>2. ShapeInv /\ BusyInv /\ ApartInv /\ KeptInv
  BY DEF ConvInv
<1>3. /\ Past' = Past /\ Saves' = Saves \ {c} /\ Compactions' = Compactions
      /\ InFlight({"save", "loaded"})' \subseteq InFlight({"save", "loaded"})
      /\ c \in InFlight({"save", "loaded"})
  BY <1>1 DEF Past, Saves, Compactions, InFlight
<1>4. c.id \in Ids /\ c.history \subseteq Past
  BY <1>1, <1>2 DEF ShapeInv
<1>5. /\ DOMAIN store' = Ids /\ store'[c.id] = c.history
      /\ \A i \in Ids : i # c.id => store'[i] = store[i]
  BY <1>1, <1>2, <1>4 DEF ShapeInv
<1>6. c.history # NoSession
  <2>1. c.history \in SUBSET (0..MaxTurns)
    BY <1>2, <1>4, TerminalAssumption DEF ShapeInv, Past, Turns
  <2>2. QED
    BY <2>1, TerminalAssumption
<1>7. ShapeInv'
  BY <1>1, <1>2, <1>3, <1>4, <1>5 DEF ShapeInv
<1>8. BusyInv'
  BY <1>1, <1>2, <1>3 DEF BusyInv
<1>9. ApartInv'
  <2>1. c.id \notin crossed => TypedBy(c.id, c.history)
    BY <1>2, <1>3 DEF ApartInv
  <2>2. \A i \in Ids \ crossed' : store'[i] # NoSession => TypedBy(i, store'[i])
    BY <1>1, <1>2, <1>5, <2>1 DEF ApartInv
  <2>3. \A i, g : TypedBy(i, g)' <=> TypedBy(i, g)
    BY <1>1 DEF TypedBy
  <2>4. QED
    BY <1>1, <1>2, <1>3, <2>2, <2>3 DEF ApartInv, TypedBy
<1>10. KeptInv'
  <2>1. ASSUME id \notin overtaken \cup crossed, \A d \in Saves' : d.id # id
        PROVE  /\ store'[id] # NoSession \/ history \cap completed = {}
               /\ store'[id] # NoSession => history \cap completed \subseteq store'[id]
    <3>1. CASE c.id = id
      BY <1>1, <1>2, <1>5, <1>6, <2>1, <3>1 DEF KeptInv
    <3>2. CASE c.id # id
      <4>1. \A d \in Saves : d.id # id
        BY <1>3, <2>1, <3>2
      <4>2. store'[id] = store[id]
        BY <1>2, <1>5, <3>2 DEF ShapeInv
      <4>3. QED
        BY <1>2, <2>1, <4>1, <4>2 DEF KeptInv
    <3>3. QED
      BY <3>1, <3>2
  <2>2. QED
    BY <1>1, <1>2, <1>3, <2>1 DEF KeptInv
<1>11. QED
  BY <1>7, <1>8, <1>9, <1>10 DEF ConvInv

\* /clear, a load that arrives and a compaction.
LEMMA ClearKeeps ==
  ASSUME ConvInv, Clear
  PROVE  ConvInv'
<1>1. /\ ~busy /\ history' = {} /\ overtaken' = overtaken \cup {id}
      /\ UNCHANGED <<id, store, busy, run, flight, turns, owner, completed, crossed>>
  BY DEF Clear
<1>2. ShapeInv /\ BusyInv /\ ApartInv /\ KeptInv
  BY DEF ConvInv
<1>3. /\ Past' = Past /\ Saves' = Saves /\ Compactions' = Compactions
      /\ InFlight({"save", "loaded"})' = InFlight({"save", "loaded"})
  BY <1>1 DEF Past, Saves, Compactions, InFlight
<1>4. run = NoRun /\ Compactions = {}
  BY <1>1, <1>2 DEF BusyInv
<1>5. ShapeInv'
  BY <1>1, <1>2, <1>3 DEF ShapeInv
<1>6. BusyInv'
  BY <1>1, <1>2, <1>3 DEF BusyInv
<1>7. ApartInv'
  <2>1. \A i, g : TypedBy(i, g)' <=> TypedBy(i, g)
    BY <1>1 DEF TypedBy
  <2>2. \A i : TypedBy(i, {})
    BY DEF TypedBy, Typed
  <2>3. QED
    BY <1>1, <1>2, <1>3, <1>4, <2>1, <2>2 DEF ApartInv, TypedBy
<1>8. KeptInv'
  BY <1>1, <1>2, <1>3 DEF KeptInv
<1>9. QED
  BY <1>5, <1>6, <1>7, <1>8 DEF ConvInv

LEMMA RunLoadKeeps ==
  ASSUME ConvInv, NEW c \in flight, RunLoad(c)
  PROVE  ConvInv'
<1>1. /\ c.kind = "load" /\ store[c.id] # NoSession
      /\ UNCHANGED <<id, history, store, busy, run, turns, owner, completed, crossed, overtaken>>
  BY DEF RunLoad, InFlight, conv, past
<1>2. PICK d : d = [kind |-> "loaded", id |-> c.id, history |-> store[c.id]]
  OBVIOUS
<1>3. flight' = (flight \ {c}) \cup {d} /\ d.kind = "loaded" /\ d.id = c.id /\ d.history = store[c.id]
  BY <1>2 DEF RunLoad
<1>4. ShapeInv /\ BusyInv /\ ApartInv /\ KeptInv
  BY DEF ConvInv
<1>5. c.id \in Ids /\ store[c.id] \subseteq Past
  BY <1>1, <1>4 DEF ShapeInv
<1>6. /\ Past' = Past /\ Saves' = Saves /\ Compactions' = Compactions
      /\ InFlight({"save", "loaded"})' = InFlight({"save", "loaded"}) \cup {d}
  BY <1>1, <1>3 DEF Past, Saves, Compactions, InFlight
<1>7. ShapeInv'
  BY <1>1, <1>3, <1>4, <1>5, <1>6 DEF ShapeInv
<1>8. BusyInv'
  BY <1>1, <1>4, <1>6 DEF BusyInv
<1>9. ApartInv'
  <2>1. d.id \notin crossed => TypedBy(d.id, d.history)
    BY <1>1, <1>3, <1>4, <1>5 DEF ApartInv
  <2>2. \A i, g : TypedBy(i, g)' <=> TypedBy(i, g)
    BY <1>1 DEF TypedBy
  <2>3. \A e \in InFlight({"save", "loaded"})' : e.id \notin crossed' => TypedBy(e.id, e.history)
    BY <1>1, <1>4, <1>6, <2>1 DEF ApartInv
  <2>4. QED
    BY <1>1, <1>4, <1>6, <2>2, <2>3 DEF ApartInv, TypedBy
<1>10. KeptInv'
  BY <1>1, <1>4, <1>6 DEF KeptInv
<1>11. QED
  BY <1>7, <1>8, <1>9, <1>10 DEF ConvInv

\* A load that arrives: its session is on screen, which has crossed a turn or a
\* compaction if there is one.
LEMMA OnLoadedKeeps ==
  ASSUME ConvInv, NEW c \in flight, OnLoaded(c)
  PROVE  ConvInv'
<1>1. /\ c.kind = "loaded" /\ flight' = flight \ {c}
      /\ id' = c.id /\ history' = c.history
      /\ crossed' = (IF busy THEN crossed \cup {c.id} ELSE crossed)
      /\ overtaken' = (IF store[c.id] # c.history \/ (\E d \in Saves : d.id = c.id)
                       THEN overtaken \cup {c.id} ELSE overtaken)
      /\ UNCHANGED <<store, busy, run, turns, owner, completed>>
  BY DEF OnLoaded, InFlight, ResumedId, Saves
<1>2. ShapeInv /\ BusyInv /\ ApartInv /\ KeptInv
  BY DEF ConvInv
<1>3. /\ Past' = Past /\ Saves' = Saves /\ Compactions' = Compactions
      /\ InFlight({"save", "loaded"})' \subseteq InFlight({"save", "loaded"})
      /\ c \in InFlight({"save", "loaded"})
  BY <1>1 DEF Past, Saves, Compactions, InFlight
<1>4. c.id \in Ids /\ c.history \subseteq Past
  BY <1>1, <1>2 DEF ShapeInv
<1>5. ShapeInv'
  BY <1>1, <1>2, <1>3, <1>4 DEF ShapeInv
<1>6. BusyInv'
  BY <1>1, <1>2, <1>3 DEF BusyInv
<1>7. crossed \subseteq crossed' /\ overtaken \subseteq overtaken'
  BY <1>1
<1>8. ApartInv'
  <2>1. \A i, g : TypedBy(i, g)' <=> TypedBy(i, g)
    BY <1>1 DEF TypedBy
  <2>2. ASSUME id' \notin crossed'
        PROVE  ~busy /\ TypedBy(id', history')
    BY <1>1, <1>2, <1>3, <2>2 DEF ApartInv
  <2>3. ~busy => run' = NoRun /\ Compactions' = {}
    BY <1>1, <1>2, <1>3 DEF BusyInv
  <2>4. \A i \in Ids \ crossed' : store'[i] # NoSession => TypedBy(i, store'[i])
    BY <1>1, <1>2, <1>7 DEF ApartInv
  <2>5. \A e \in InFlight({"save", "loaded"})' : e.id \notin crossed' => TypedBy(e.id, e.history)
    BY <1>2, <1>3, <1>7 DEF ApartInv
  <2>6. \A i, g : TypedBy(i, g) <=> Typed(owner', i, g)
    BY <1>1 DEF TypedBy
  <2>7. QED
    BY <2>2, <2>3, <2>4, <2>5, <2>6 DEF ApartInv, TypedBy
<1>9. KeptInv'
  <2>1. ASSUME id' \notin overtaken' \cup crossed'
        PROVE  store'[id'] = history' /\ \A d \in Saves' : d.id # id'
    BY <1>1, <1>3, <2>1
  <2>2. \A a, b \in Saves' : a.id = b.id => a = b \/ a.id \in overtaken'
    BY <1>2, <1>3, <1>7 DEF KeptInv
  <2>3. history' # NoSession
    <3>1. c.history \in SUBSET (0..MaxTurns)
      BY <1>2, <1>4, TerminalAssumption DEF ShapeInv, Past, Turns
    <3>2. QED
      BY <1>1, <3>1, TerminalAssumption
  <2>4. QED
    BY <2>1, <2>2, <2>3 DEF KeptInv
<1>10. QED
  BY <1>5, <1>6, <1>8, <1>9 DEF ConvInv

LEMMA CompactKeeps ==
  ASSUME ConvInv, Compact
  PROVE  ConvInv'
<1>1. /\ ~busy /\ busy' = TRUE
      /\ UNCHANGED <<id, history, store, run, turns, owner, completed, crossed, overtaken>>
  BY DEF Compact, conv, past
<1>2. PICK c : c = [kind |-> "compact", history |-> history]
  OBVIOUS
<1>3. flight' = flight \cup {c} /\ c.kind = "compact" /\ c.history = history
      /\ c = [kind |-> "compact", history |-> c.history]
  BY <1>2 DEF Compact, Issue
<1>4. ShapeInv /\ BusyInv /\ ApartInv /\ KeptInv
  BY DEF ConvInv
<1>5. /\ Past' = Past /\ Saves' = Saves /\ Compactions' = Compactions \cup {c}
      /\ InFlight({"save", "loaded"})' = InFlight({"save", "loaded"})
  BY <1>1, <1>3 DEF Past, Saves, Compactions, InFlight
<1>6. run = NoRun /\ Compactions = {}
  BY <1>1, <1>4 DEF BusyInv
<1>7. ShapeInv'
  BY <1>1, <1>3, <1>4, <1>5, <1>6 DEF ShapeInv
<1>8. BusyInv'
  BY <1>1, <1>5, <1>6 DEF BusyInv
<1>9. ApartInv'
  BY <1>1, <1>3, <1>4, <1>5, <1>6 DEF ApartInv, TypedBy
<1>10. KeptInv'
  BY <1>1, <1>4, <1>5 DEF KeptInv
<1>11. QED
  BY <1>7, <1>8, <1>9, <1>10 DEF ConvInv

LEMMA RunCompactKeeps ==
  ASSUME ConvInv, NEW c \in flight, RunCompact(c)
  PROVE  ConvInv'
<1>1. /\ c.kind = "compact"
      /\ UNCHANGED <<id, history, store, busy, run, turns, owner, completed, crossed, overtaken>>
  BY DEF RunCompact, InFlight, conv, past
<1>2. ShapeInv /\ BusyInv /\ ApartInv /\ KeptInv
  BY DEF ConvInv
<1>3. PICK d : d = [c EXCEPT !.kind = "compacted"]
  OBVIOUS
<1>4. flight' = (flight \ {c}) \cup {d} /\ d.kind = "compacted" /\ d.history = c.history
  <2>1. PICK h : c = [kind |-> "compact", history |-> h]
    BY <1>1, <1>2 DEF ShapeInv
  <2>2. flight' = (flight \ {c}) \cup {d}
    BY <1>3 DEF RunCompact
  <2>3. QED
    BY <1>3, <2>1, <2>2
<1>5. /\ Past' = Past /\ Saves' = Saves /\ Compactions' = (Compactions \ {c}) \cup {d} /\ c \in Compactions
      /\ InFlight({"save", "loaded"})' = InFlight({"save", "loaded"})
  BY <1>1, <1>4 DEF Past, Saves, Compactions, InFlight
<1>6. ShapeInv'
  BY <1>1, <1>2, <1>4, <1>5 DEF ShapeInv
<1>7. BusyInv'
  BY <1>1, <1>2, <1>5 DEF BusyInv
<1>8. ApartInv'
  BY <1>1, <1>2, <1>4, <1>5 DEF ApartInv, TypedBy
<1>9. KeptInv'
  BY <1>1, <1>2, <1>5 DEF KeptInv
<1>10. QED
  BY <1>6, <1>7, <1>8, <1>9 DEF ConvInv

LEMMA OnCompactedKeeps ==
  ASSUME ConvInv, NEW c \in flight, OnCompacted(c)
  PROVE  ConvInv'
<1>1. /\ c.kind = "compacted" /\ flight' = flight \ {c} /\ busy' = FALSE
      /\ history' = history \/ history' = c.history
      /\ UNCHANGED <<id, store, run, turns, owner, completed, crossed, overtaken>>
  BY DEF OnCompacted, InFlight, past
<1>2. ShapeInv /\ BusyInv /\ ApartInv /\ KeptInv
  BY DEF ConvInv
<1>3. /\ Past' = Past /\ Saves' = Saves /\ Compactions' = Compactions \ {c} /\ c \in Compactions
      /\ InFlight({"save", "loaded"})' = InFlight({"save", "loaded"})
  BY <1>1 DEF Past, Saves, Compactions, InFlight
<1>4. run = NoRun /\ Compactions' = {}
  BY <1>1, <1>2, <1>3 DEF BusyInv
<1>5. c.history \subseteq Past /\ history \subseteq Past
  BY <1>1, <1>2 DEF ShapeInv
<1>6. id \notin crossed => history' = history
  BY <1>1, <1>2, <1>3 DEF ApartInv
<1>7. ShapeInv'
  BY <1>1, <1>2, <1>3, <1>4, <1>5 DEF ShapeInv
<1>8. BusyInv'
  BY <1>1, <1>4 DEF BusyInv
<1>9. ApartInv'
  BY <1>1, <1>2, <1>3, <1>4, <1>6 DEF ApartInv, TypedBy
<1>10. KeptInv'
  BY <1>1, <1>2, <1>3, <1>6 DEF KeptInv
<1>11. QED
  BY <1>7, <1>8, <1>9, <1>10 DEF ConvInv

LEMMA ConvInvStep ==
  ASSUME ConvInv, [Next]_vars
  PROVE  ConvInv'
<1>1. CASE UNCHANGED vars
  <2>1. UNCHANGED <<conv, busy, run, turns, owner, completed, crossed, overtaken>> /\ flight' = flight
    BY <1>1 DEF vars, past, conv
  <2>2. QED
    BY <2>1, QuietKeeps
<1>2. CASE System
  <2>1. ASSUME NEW c \in flight, Handle(c)
        PROVE  ConvInv'
    BY <2>1, QuietSteps, RunSaveKeeps, RunLoadKeeps, OnLoadedKeeps, RunCompactKeeps, OnCompactedKeeps DEF Handle
  <2>2. QED
    BY <1>2, <2>1, RunKeeps, OnDoneKeeps, OnFailureKeeps DEF System
<1>3. CASE User
  BY <1>3, SubmitKeeps, RunKeeps, TickKeeps, ClearKeeps, CompactKeeps, QuietSteps DEF User
<1>4. CASE RunEdits
  BY <1>4, QuietSteps
<1>5. QED
  BY <1>1, <1>2, <1>3, <1>4 DEF Next

\* Sessions do not mix: with any turns, saves, loads, compactions and checkpoints in
\* flight, what is saved under an id was typed into that session, unless a /resume
\* arrived while it was busy (saveCmd, resumeLoadedMsg, Model.Update).
THEOREM SessionsDoNotMix == Spec => []ConversationsKeepApart
<1>1. ConvInv => ConversationsKeepApart
  BY DEF ConvInv, ApartInv, ConversationsKeepApart, TypedBy, Typed
<1>2. QED
  BY <1>1, ConvInvInit, ConvInvStep, PTL DEF Spec

\* The session on screen is saved with every turn it completed as soon as its saves are
\* done, unless two saves of it, or a save and a load, were in flight at once.
THEOREM TurnsAreSaved == Spec => []LastTurnIsKept
<1>1. ConvInv => LastTurnIsKept
  <2>1. SUFFICES ASSUME ConvInv, \A c \in Saves : c.id # id, id \notin overtaken \cup crossed,
                        NEW t \in history \cap completed
                 PROVE  store[id] # NoSession /\ t \in store[id]
    BY DEF LastTurnIsKept, Saves
  <2>2. QED
    BY <2>1 DEF ConvInv, KeptInv
<1>2. QED
  BY <1>1, ConvInvInit, ConvInvStep, PTL DEF Spec

-----------------------------------------------------------------------------
(* The undo log.                                                           *)

LogEntry  == [label : Turns, tree : SUBSET Turns]
Labels(l) == {l[i].label : i \in DOMAIN l}
Ascending(l) == \A i, j \in DOMAIN l : i < j => l[i].label < l[j].label

LogShape ==
  /\ worktree \subseteq Turns /\ snaplog \in Seq(LogEntry) /\ undoable \subseteq Past
  /\ \A c \in Files :
       /\ c.label \in Turns
       /\ c.kind # "snapshot" => c.tree \subseteq Turns
       /\ c.kind \in {"revert", "reverted"} => c.steps \in Nat

\* While nothing was disturbed: the log has the turns that were not undone, with the one
\* whose snapshot is on its way, and a revert is of the entry it was asked for.
LogHolds ==
  ~disturbed =>
    /\ \A c, d \in Files : c = d
    /\ Ascending(snaplog)
    /\ Files = {} => undoable = Labels(snaplog)
    /\ \A c \in Files : c.kind \in {"snapshot", "taken"} =>
         /\ undoable = Labels(snaplog) \cup {c.label}
         /\ \A i \in DOMAIN snaplog : snaplog[i].label < c.label
    /\ \A c \in Files : c.kind \in {"revert", "reverted"} =>
         /\ undoable = Labels(snaplog) /\ c.steps \in 1..Len(snaplog)
         /\ c.label = At(c.steps).label

LogInv == LogShape /\ LogHolds

LEMMA FilesAre ==
  ASSUME NEW c \in flight
  PROVE  c \in Files <=> c.kind \in {"snapshot", "taken", "revert", "reverted"}
BY DEF Files, InFlight

LEMMA LogInvInit ==
  ASSUME Init
  PROVE  LogInv
<1>1. flight = {} /\ worktree = {} /\ snaplog = <<>> /\ undoable = {}
  BY DEF Init
<1>2. Files = {}
  BY <1>1 DEF Files, InFlight
<1>3. snaplog \in Seq(LogEntry) /\ DOMAIN snaplog = {}
  BY <1>1
<1>4. QED
  BY <1>1, <1>2, <1>3 DEF LogInv, LogShape, LogHolds, Labels, Ascending

\* Steps of the conversation leave the log alone.
LEMMA LogUntouched ==
  ASSUME LogInv, UNCHANGED <<snaplog, undoable, disturbed, turns>>, worktree' \subseteq Turns, Files' = Files
  PROVE  LogInv'
<1>1. Past' = Past
  BY DEF Past
<1>2. LogShape'
  BY <1>1 DEF LogInv, LogShape
<1>3. LogHolds'
  BY DEF LogInv, LogHolds, At
<1>4. QED
  BY <1>2, <1>3 DEF LogInv

LEMMA LogSubmit ==
  ASSUME ConvInv, LogInv, Submit
  PROVE  LogInv'
<1>1. /\ turns < MaxTurns /\ turns' = turns + 1 /\ undoable' = undoable \cup {turns + 1}
      /\ disturbed' = (disturbed \/ Files # {}) /\ UNCHANGED <<worktree, snaplog>>
  BY DEF Submit, files
<1>2. PICK c : c = [kind |-> "snapshot", label |-> turns + 1]
  OBVIOUS
<1>3. flight' = flight \cup {c} /\ c.kind = "snapshot" /\ c.label = turns + 1
  BY <1>2 DEF Submit
<1>4. Files' = Files \cup {c}
  BY <1>3 DEF Files, InFlight
<1>5. turns \in Nat /\ turns + 1 \in Turns /\ Past \subseteq Past' /\ turns + 1 \in Past' /\ \A h \in Past : h < turns + 1
  BY <1>1, TerminalAssumption DEF ConvInv, ShapeInv, Turns, Past
<1>6. LogShape'
  BY <1>1, <1>3, <1>4, <1>5 DEF LogInv, LogShape
<1>7. ASSUME ~disturbed'
      PROVE  /\ Files = {} /\ ~disturbed /\ undoable = Labels(snaplog) /\ Ascending(snaplog)
             /\ \A i \in DOMAIN snaplog : snaplog[i].label < turns + 1
  <2>1. Files = {} /\ ~disturbed
    BY <1>1, <1>7
  <2>2. undoable = Labels(snaplog) /\ undoable \subseteq Past /\ Ascending(snaplog)
    BY <2>1 DEF LogInv, LogShape, LogHolds
  <2>3. QED
    BY <1>5, <2>1, <2>2 DEF Labels
<1>8. LogHolds'
  BY <1>1, <1>3, <1>4, <1>7 DEF LogHolds
<1>9. QED
  BY <1>6, <1>8 DEF LogInv

LEMMA LogSnapshot ==
  ASSUME ConvInv, LogInv, NEW c \in flight, RunSnapshot(c) \/ SnapshotFails(c)
  PROVE  LogInv'
<1>1. c \in Files /\ c.kind = "snapshot" /\ UNCHANGED <<worktree, snaplog, undoable, turns>> /\ Past' = Past
  BY DEF RunSnapshot, SnapshotFails, Files, InFlight, files, past, Past
<1>2. CASE RunSnapshot(c)
  <2>1. PICK d : d = [kind |-> "taken", label |-> c.label, tree |-> worktree]
    OBVIOUS
  <2>2. flight' = (flight \ {c}) \cup {d} /\ d.kind = "taken" /\ d.label = c.label /\ d.tree = worktree
        /\ disturbed' = disturbed
    BY <1>2, <2>1 DEF RunSnapshot, past
  <2>3. Files' = (Files \ {c}) \cup {d}
    BY <1>1, <2>2 DEF Files, InFlight
  <2>4. LogShape'
    BY <1>1, <2>2, <2>3 DEF LogInv, LogShape
  <2>5. LogHolds'
    BY <1>1, <2>2, <2>3 DEF LogInv, LogHolds
  <2>6. QED
    BY <2>4, <2>5 DEF LogInv
<1>3. CASE SnapshotFails(c)
  <2>1. disturbed' = TRUE /\ flight' = flight \ {c}
    BY <1>3 DEF SnapshotFails
  <2>2. Files' \subseteq Files
    BY <2>1 DEF Files, InFlight
  <2>3. LogShape'
    BY <1>1, <2>2 DEF LogInv, LogShape
  <2>4. QED
    BY <2>1, <2>3 DEF LogInv, LogHolds
<1>4. QED
  BY <1>2, <1>3

LEMMA LogTaken ==
  ASSUME ConvInv, LogInv, NEW c \in flight, OnTaken(c)
  PROVE  LogInv'
<1>1. /\ c \in Files /\ c.kind = "taken" /\ flight' = flight \ {c}
      /\ UNCHANGED <<worktree, undoable, disturbed, turns>> /\ Past' = Past
  BY DEF OnTaken, Files, InFlight, past, Past
<1>2. PICK e : e = [label |-> c.label, tree |-> c.tree]
  OBVIOUS
<1>3. e \in LogEntry /\ e.label = c.label /\ snaplog \in Seq(LogEntry)
  BY <1>1, <1>2 DEF LogInv, LogShape, LogEntry
<1>4. PICK r : r = snaplog'
  OBVIOUS
<1>5. r = Append(snaplog, e)
  BY <1>2, <1>4 DEF OnTaken
<1>6. PICK n \in Nat : n = Len(snaplog) /\ DOMAIN snaplog = 1..n
  BY <1>3
<1>7. /\ r \in Seq(LogEntry) /\ DOMAIN r = 1..(n + 1) /\ r[n + 1] = e
      /\ \A i \in 1..n : r[i] = snaplog[i]
  BY <1>3, <1>5, <1>6
<1>8. Files' = Files \ {c}
  BY <1>1 DEF Files, InFlight
<1>9. LogShape'
  BY <1>1, <1>4, <1>7, <1>8 DEF LogInv, LogShape
<1>10. Labels(r) = Labels(snaplog) \cup {c.label}
  <2>1. \A i \in 1..(n + 1) : i \in 1..n \/ i = n + 1
    OBVIOUS
  <2>2. \A i \in 1..n : i \in 1..(n + 1)
    OBVIOUS
  <2>3. n + 1 \in 1..(n + 1)
    OBVIOUS
  <2>4. QED
    BY <1>3, <1>6, <1>7, <2>1, <2>2, <2>3 DEF Labels
<1>11. ASSUME ~disturbed
       PROVE  Files' = {} /\ undoable = Labels(r) /\ Ascending(r)
  <2>1. /\ \A a, b \in Files : a = b
        /\ Ascending(snaplog) /\ undoable = Labels(snaplog) \cup {c.label}
        /\ \A i \in DOMAIN snaplog : snaplog[i].label < c.label
    BY <1>1, <1>11 DEF LogInv, LogHolds
  <2>2. ASSUME NEW i \in DOMAIN r, NEW j \in DOMAIN r, i < j
        PROVE  r[i].label < r[j].label
    <3>1. i \in 1..n
      BY <1>7, <2>2
    <3>2. CASE j \in 1..n
      BY <1>6, <1>7, <2>1, <2>2, <3>1, <3>2 DEF Ascending
    <3>3. CASE j = n + 1
      BY <1>3, <1>6, <1>7, <2>1, <3>1, <3>3
    <3>4. QED
      BY <1>7, <3>2, <3>3
  <2>3. QED
    BY <1>1, <1>8, <1>10, <2>1, <2>2 DEF Ascending
<1>12. LogHolds'
  BY <1>1, <1>4, <1>11 DEF LogHolds
<1>13. QED
  BY <1>9, <1>12 DEF LogInv

\* An entry of the log, counted from its end.
LEMMA AtIsEntry ==
  ASSUME snaplog \in Seq(LogEntry), NEW n \in 1..Len(snaplog)
  PROVE  /\ Len(snaplog) + 1 - n \in DOMAIN snaplog /\ At(n) = snaplog[Len(snaplog) + 1 - n]
         /\ At(n).label \in Turns /\ At(n).tree \subseteq Turns
<1>1. PICK m \in Nat : m = Len(snaplog) /\ DOMAIN snaplog = 1..m
  OBVIOUS
<1>2. PICK k : k = m + 1 - n /\ k \in 1..m
  BY <1>1
<1>3. snaplog[k] \in LogEntry
  BY <1>1, <1>2
<1>4. At(n) = snaplog[k]
  BY <1>1, <1>2 DEF At
<1>5. QED
  BY <1>1, <1>2, <1>3, <1>4 DEF LogEntry

LEMMA LogRevert ==
  ASSUME ConvInv, LogInv, NEW n \in 1..MaxTurns, Revert(n)
  PROVE  LogInv'
<1>1. /\ n \in 1..Len(snaplog) /\ disturbed' = (disturbed \/ Files # {})
      /\ UNCHANGED <<worktree, snaplog, undoable, turns>> /\ Past' = Past
  BY DEF Revert, files, Past
<1>2. PICK c : c = [kind |-> "revert", label |-> At(n).label, tree |-> At(n).tree, steps |-> n]
  OBVIOUS
<1>3. flight' = flight \cup {c} /\ c.kind = "revert" /\ c.label = At(n).label /\ c.tree = At(n).tree /\ c.steps = n
  BY <1>2 DEF Revert, Issue
<1>4. Files' = Files \cup {c}
  BY <1>3 DEF Files, InFlight
<1>5. At(n).label \in Turns /\ At(n).tree \subseteq Turns /\ n \in Nat
  BY <1>1, AtIsEntry DEF LogInv, LogShape
<1>6. LogShape'
  BY <1>1, <1>3, <1>4, <1>5 DEF LogInv, LogShape
<1>7. At(n)' = At(n)
  BY <1>1 DEF At
<1>8. ASSUME ~disturbed'
      PROVE  Files = {} /\ undoable = Labels(snaplog) /\ Ascending(snaplog)
  BY <1>1, <1>8 DEF LogInv, LogHolds
<1>9. LogHolds'
  BY <1>1, <1>3, <1>4, <1>7, <1>8 DEF LogHolds
<1>10. QED
  BY <1>6, <1>9 DEF LogInv

LEMMA LogRunRevert ==
  ASSUME ConvInv, LogInv, NEW c \in flight, RunRevert(c) \/ RevertFails(c)
  PROVE  LogInv'
<1>1. c \in Files /\ c.kind = "revert" /\ UNCHANGED <<snaplog, undoable, disturbed, turns>> /\ Past' = Past
  BY DEF RunRevert, RevertFails, Files, InFlight, files, past, Past
<1>2. c.label \in Turns /\ c.tree \subseteq Turns /\ c.steps \in Nat
  BY <1>1 DEF LogInv, LogShape
<1>3. CASE RunRevert(c)
  <2>1. PICK d : d = [c EXCEPT !.kind = "reverted"]
    OBVIOUS
  <2>2. c = [kind |-> "revert", label |-> c.label, tree |-> c.tree, steps |-> c.steps]
    BY <1>1 DEF ConvInv, ShapeInv
  <2>3. d.kind = "reverted" /\ d.label = c.label /\ d.tree = c.tree /\ d.steps = c.steps
    BY <2>1, <2>2
  <2>4. flight' = (flight \ {c}) \cup {d} /\ worktree' = c.tree
    BY <1>3, <2>1 DEF RunRevert
  <2>5. Files' = (Files \ {c}) \cup {d}
    BY <1>1, <2>3, <2>4 DEF Files, InFlight
  <2>6. LogShape'
    BY <1>1, <1>2, <2>3, <2>4, <2>5 DEF LogInv, LogShape
  <2>7. LogHolds'
    BY <1>1, <2>3, <2>5 DEF LogInv, LogHolds, At
  <2>8. QED
    BY <2>6, <2>7 DEF LogInv
<1>4. CASE RevertFails(c)
  <2>1. flight' = flight \ {c} /\ worktree' = worktree
    BY <1>4 DEF RevertFails, files
  <2>2. Files' = Files \ {c}
    BY <2>1 DEF Files, InFlight
  <2>3. LogShape'
    BY <1>1, <2>1, <2>2 DEF LogInv, LogShape
  <2>4. LogHolds'
    BY <1>1, <2>2 DEF LogInv, LogHolds
  <2>5. QED
    BY <2>3, <2>4 DEF LogInv
<1>5. QED
  BY <1>3, <1>4

\* A revert that is done: the log ends before the entry it restored.
LEMMA LogReverted ==
  ASSUME ConvInv, LogInv, NEW c \in flight, OnReverted(c)
  PROVE  LogInv'
<1>1. /\ c \in Files /\ c.kind = "reverted" /\ flight' = flight \ {c}
      /\ snaplog' = Truncated(c.steps) /\ undoable' = {u \in undoable : u < c.label}
      /\ UNCHANGED <<worktree, disturbed, turns>> /\ Past' = Past
  BY DEF OnReverted, Files, InFlight, Past
<1>2. c.label \in Turns /\ c.steps \in Nat /\ snaplog \in Seq(LogEntry)
  BY <1>1 DEF LogInv, LogShape
<1>3. PICK m \in Nat : m = Len(snaplog) /\ DOMAIN snaplog = 1..m
  BY <1>2
<1>4. Files' = Files \ {c}
  BY <1>1 DEF Files, InFlight
<1>5. PICK r : r = snaplog'
  OBVIOUS
<1>6. ASSUME c.steps <= m
      PROVE  /\ r \in Seq(LogEntry) /\ m - c.steps \in Nat /\ DOMAIN r = 1..(m - c.steps)
             /\ \A i \in 1..(m - c.steps) : i \in DOMAIN snaplog /\ r[i] = snaplog[i]
  <2>1. r = SubSeq(snaplog, 1, m - c.steps)
    BY <1>1, <1>2, <1>3, <1>5, <1>6 DEF Truncated
  <2>2. PICK k \in Nat : k = m - c.steps /\ k <= m
    BY <1>2, <1>3, <1>6
  <2>3. r \in Seq(LogEntry) /\ DOMAIN r = 1..k /\ \A i \in 1..k : i \in DOMAIN snaplog /\ r[i] = snaplog[i]
    BY <1>2, <1>3, <2>1, <2>2
  <2>4. QED
    BY <2>2, <2>3
<1>7. LogShape'
  <2>1. r \in Seq(LogEntry)
    <3>1. CASE c.steps <= m
      BY <1>6, <3>1
    <3>2. CASE c.steps > m
      BY <1>1, <1>2, <1>3, <1>5, <3>2 DEF Truncated
    <3>3. QED
      BY <1>2, <1>3, <3>1, <3>2
  <2>2. QED
    BY <1>1, <1>4, <1>5, <2>1 DEF LogInv, LogShape
<1>8. ASSUME ~disturbed
      PROVE  Files' = {} /\ undoable' = Labels(r) /\ Ascending(r)
  <2>1. /\ \A a, b \in Files : a = b
        /\ Ascending(snaplog) /\ undoable = Labels(snaplog) /\ c.steps \in 1..m
        /\ c.label = At(c.steps).label
    BY <1>1, <1>3, <1>8 DEF LogInv, LogHolds
  <2>2. PICK k \in Nat : k = m - c.steps /\ k + 1 \in 1..m /\ c.label = snaplog[k + 1].label
    <3>1. m - c.steps \in Nat /\ (m - c.steps) + 1 \in 1..m /\ m + 1 - c.steps = (m - c.steps) + 1
      BY <2>1
    <3>2. At(c.steps) = snaplog[m + 1 - c.steps]
      BY <1>3 DEF At
    <3>3. QED
      BY <2>1, <3>1, <3>2
  <2>3. DOMAIN r = 1..k /\ \A i \in 1..k : i \in DOMAIN snaplog /\ r[i] = snaplog[i]
    BY <1>6, <2>1, <2>2
  <2>4. \A i \in DOMAIN snaplog : snaplog[i].label \in Nat
    <3>1. \A i \in DOMAIN snaplog : snaplog[i] \in LogEntry
      BY <1>2
    <3>2. Turns \subseteq Nat
      BY DEF Turns
    <3>3. QED
      BY <3>1, <3>2 DEF LogEntry
  <2>5. \A i \in 1..m : snaplog[i].label < c.label <=> i \in 1..k
    <3>1. ASSUME NEW i \in 1..m
          PROVE  snaplog[i].label < c.label <=> i \in 1..k
      <4>1. CASE i < k + 1
        BY <1>3, <2>1, <2>2, <4>1 DEF Ascending
      <4>2. CASE i = k + 1
        BY <1>3, <2>2, <2>4, <4>2
      <4>3. CASE i > k + 1
        <5>1. snaplog[k + 1].label < snaplog[i].label
          BY <1>3, <2>1, <2>2, <4>3 DEF Ascending
        <5>2. QED
          BY <1>3, <2>2, <2>4, <4>3, <5>1
      <4>4. QED
        BY <2>2, <4>1, <4>2, <4>3
    <3>2. QED
      BY <3>1
  <2>6. undoable' = Labels(r)
    BY <1>1, <1>3, <2>1, <2>3, <2>5 DEF Labels
  <2>7. Ascending(r)
    BY <2>1, <2>3 DEF Ascending
  <2>8. QED
    BY <1>1, <1>4, <2>1, <2>6, <2>7
<1>9. LogHolds'
  BY <1>1, <1>5, <1>8 DEF LogHolds
<1>10. QED
  BY <1>7, <1>9 DEF LogInv

LEMMA LogInvStep ==
  ASSUME ConvInv, LogInv, [Next]_vars
  PROVE  LogInv'
<1> DEFINE Same == UNCHANGED <<worktree, snaplog, undoable, disturbed, turns>> /\ Files' = Files
<1>1. worktree \subseteq Turns
  BY DEF LogInv, LogShape
<1>2. CASE UNCHANGED vars
  <2>1. Same
    BY <1>2 DEF vars, files, past, Files, InFlight
  <2>2. QED
    BY <1>1, <2>1, LogUntouched
<1>3. CASE RunEdits
  <2>1. /\ UNCHANGED <<snaplog, undoable, disturbed, turns>> /\ Files' = Files
        /\ run # NoRun /\ worktree' = worktree \cup {run.turn}
    BY <1>3 DEF RunEdits, past, Files, InFlight, Running
  <2>2. run.turn \in Turns
    BY <2>1, TerminalAssumption DEF ConvInv, ShapeInv, Past, Turns
  <2>3. QED
    BY <1>1, <2>1, <2>2, LogUntouched
<1>4. CASE RunEnds \/ OnFailure \/ Interrupt \/ Clear
  <2>1. Same
    BY <1>4 DEF RunEnds, OnFailure, Interrupt, Clear, past, files, Files, InFlight
  <2>2. QED
    BY <1>1, <2>1, LogUntouched
<1>5. ASSUME NEW d, d.kind \notin {"snapshot", "taken", "revert", "reverted"}, flight' = flight \cup {d}
      PROVE  Files' = Files
  BY <1>5 DEF Files, InFlight
<1>6. \A i, h : SaveOf(i, h).kind = "save"
  BY DEF SaveOf
<1>7. CASE OnDone
  <2>1. flight' = flight \cup {SaveOf(id, history')} /\ UNCHANGED <<worktree, snaplog, undoable, disturbed, turns>>
    BY <1>7 DEF OnDone, files
  <2>2. SaveOf(id, history').kind = "save"
    BY DEF SaveOf
  <2>3. Files' = Files
    BY <1>5, <2>1, <2>2
  <2>4. QED
    BY <1>1, <2>1, <2>3, LogUntouched
<1>8. CASE Tick
  <2>1. flight' = flight \cup {SaveOf(id, history)} /\ UNCHANGED <<worktree, snaplog, undoable, disturbed, turns>>
    BY <1>8 DEF Tick, Issue, files
  <2>2. QED
    BY <1>1, <1>5, <1>6, <2>1, LogUntouched
<1>9. CASE Compact
  <2>1. PICK d : d = [kind |-> "compact", history |-> history]
    OBVIOUS
  <2>2. d.kind = "compact" /\ flight' = flight \cup {d} /\ UNCHANGED <<worktree, snaplog, undoable, disturbed, turns>>
    BY <1>9, <2>1 DEF Compact, Issue, files, past
  <2>3. QED
    BY <1>1, <1>5, <2>2, LogUntouched
<1>10. ASSUME NEW i \in Ids, Resume(i)
       PROVE  LogInv'
  <2>1. PICK d : d = [kind |-> "load", id |-> i]
    OBVIOUS
  <2>2. d.kind = "load" /\ flight' = flight \cup {d} /\ UNCHANGED <<worktree, snaplog, undoable, disturbed, turns>>
    BY <1>10, <2>1 DEF Resume, Issue, files, past
  <2>3. QED
    BY <1>1, <1>5, <2>2, LogUntouched
<1>11. ASSUME NEW c \in flight, RunSave(c) \/ LoadFails(c) \/ OnLoaded(c) \/ OnCompacted(c)
       PROVE  LogInv'
  <2>1. /\ c.kind \in {"save", "load", "loaded", "compacted"} /\ flight' = flight \ {c}
        /\ UNCHANGED <<worktree, snaplog, undoable, disturbed, turns>>
    BY <1>11 DEF RunSave, LoadFails, OnLoaded, OnCompacted, InFlight, files, past
  <2>2. Files' = Files
    BY <2>1 DEF Files, InFlight
  <2>3. QED
    BY <1>1, <2>1, <2>2, LogUntouched
<1>12. ASSUME NEW c \in flight, RunLoad(c)
       PROVE  LogInv'
  <2>1. PICK d : d = [kind |-> "loaded", id |-> c.id, history |-> store[c.id]]
    OBVIOUS
  <2>2. /\ c.kind = "load" /\ d.kind = "loaded" /\ flight' = (flight \ {c}) \cup {d}
        /\ UNCHANGED <<worktree, snaplog, undoable, disturbed, turns>>
    BY <1>12, <2>1 DEF RunLoad, InFlight, files, past
  <2>3. Files' = Files
    BY <2>2 DEF Files, InFlight
  <2>4. QED
    BY <1>1, <2>2, <2>3, LogUntouched
<1>13. ASSUME NEW c \in flight, RunCompact(c)
       PROVE  LogInv'
  <2>1. PICK d : d = [c EXCEPT !.kind = "compacted"]
    OBVIOUS
  <2>2. /\ c.kind = "compact" /\ flight' = (flight \ {c}) \cup {d}
        /\ UNCHANGED <<worktree, snaplog, undoable, disturbed, turns>>
    BY <1>13, <2>1 DEF RunCompact, InFlight, files, past
  <2>3. d.kind = "compacted"
    <3>1. PICK h : c = [kind |-> "compact", history |-> h]
      BY <2>2 DEF ConvInv, ShapeInv
    <3>2. QED
      BY <2>1, <3>1
  <2>4. Files' = Files
    BY <2>2, <2>3 DEF Files, InFlight
  <2>5. QED
    BY <1>1, <2>2, <2>4, LogUntouched
<1>14. CASE System
  <2>1. ASSUME NEW c \in flight, Handle(c)
        PROVE  LogInv'
    BY <1>11, <1>12, <1>13, <2>1, LogSnapshot, LogTaken, LogRunRevert, LogReverted DEF Handle
  <2>2. QED
    BY <1>4, <1>7, <1>14, <2>1 DEF System
<1>15. CASE User
  BY <1>4, <1>8, <1>9, <1>10, <1>15, LogSubmit, LogRevert DEF User
<1>16. QED
  BY <1>2, <1>3, <1>14, <1>15 DEF Next

\* Each /revert steps further back: with no snapshot or revert in flight the log has
\* exactly the turns that were not undone, in order, as long as none failed and none was
\* in flight when a turn or another revert began (Log.Add, Log.Truncate).
THEOREM RevertStepsBack == Spec => []LogMatchesTurns
<1> DEFINE Both == ConvInv /\ LogInv
<1>1. Init => Both
  BY ConvInvInit, LogInvInit
<1>2. Both /\ [Next]_vars => Both'
  BY ConvInvStep, LogInvStep
<1>3. Both => LogMatchesTurns
  BY DEF LogInv, LogHolds, LogMatchesTurns, Labels, Ascending
<1> HIDE DEF Both
<1>4. QED
  BY <1>1, <1>2, <1>3, PTL DEF Spec

-----------------------------------------------------------------------------
(* The requests.                                                           *)

AskStates == {"asked", "heard", "shown"}
AskVars == <<dialog, listening, heard, ask, asked>>

\* What a request is, where it is.
RequestShape ==
  /\ asked \in Nat /\ DOMAIN heard = Kinds /\ DOMAIN dialog = Kinds
  /\ \A k \in Kinds : heard[k] = NoAsk \/ heard[k] \in 1..asked
  /\ \A k \in Kinds : dialog[k] = NoAsk \/ dialog[k] \in [n : 1..asked, choice : Nat]
  /\ ask = NoAsk \/ ask \in [n : 1..asked, kind : Kinds, state : AskStates]

\* The listener of a kind is armed, has heard a request or has shown it: one of the three.
OnePlace(k) ==
  /\ k \in listening => heard[k] = NoAsk /\ dialog[k] = NoAsk
  /\ heard[k] # NoAsk => dialog[k] = NoAsk
  /\ k \in listening \/ heard[k] # NoAsk \/ dialog[k] # NoAsk

\* The request a tool waits for is where its state says.
AskFollowed ==
  ask # NoAsk =>
    /\ \A k \in Kinds : heard[k] = ask.n => ask.kind = k /\ ask.state = "heard"
    /\ ask.state = "heard" => heard[ask.kind] = ask.n
    /\ ask.state = "shown" => dialog[ask.kind] # NoAsk /\ dialog[ask.kind].n = ask.n

AskInv == RequestShape /\ (\A k \in Kinds : OnePlace(k)) /\ AskFollowed

LEMMA AskInvInit == PromptInit => AskInv
  BY PromptAssumption DEF PromptInit, AskInv, RequestShape, OnePlace, AskFollowed, Kinds

\* Most keys have nothing to do with requests.
LEMMA AskInvKept == AskInv /\ UNCHANGED AskVars => AskInv'
  BY DEF AskInv, RequestShape, OnePlace, AskFollowed, AskVars

LEMMA AskInvCancel == AskInv /\ Cancel => AskInv'
  BY DEF AskInv, RequestShape, OnePlace, AskFollowed, Cancel

LEMMA AskInvAsk ==
  ASSUME AskInv, NEW k \in Kinds, Ask(k)
  PROVE  AskInv'
<1> USE DEF AskInv, RequestShape, OnePlace, AskFollowed
<1>1. asked' = asked + 1 /\ asked \in Nat /\ asked' \in 1..asked'
  BY DEF Ask
<1>2. PICK s : s = "asked"
  OBVIOUS
<1>3. ask' = [n |-> asked', kind |-> k, state |-> s] /\ s \in AskStates /\ s # "heard" /\ s # "shown"
  BY <1>2 DEF Ask, AskStates
<1>4. ask' \in [n : 1..asked', kind : Kinds, state : AskStates]
  BY <1>1, <1>3
<1>5. UNCHANGED <<dialog, heard, listening>>
  BY DEF Ask
<1>6. \A j \in Kinds : heard[j] # asked'
  BY <1>1, PromptAssumption
<1>7. RequestShape'
  BY <1>1, <1>4, <1>5
<1>8. AskFollowed'
  BY <1>3, <1>5, <1>6
<1> QED BY <1>5, <1>7, <1>8

LEMMA AskInvHear ==
  ASSUME AskInv, NEW k \in Kinds, Hear(k)
  PROVE  AskInv'
<1> USE DEF AskInv, RequestShape, OnePlace, AskFollowed
<1>1. PICK s : s = "heard"
  OBVIOUS
<1>2. ask # NoAsk /\ ask \in [n : 1..asked, kind : Kinds, state : AskStates] /\ ask.kind = k
  BY DEF Hear
<1>3. ask' = [ask EXCEPT !.state = s] /\ s \in AskStates /\ s # "shown" /\ s = "heard"
  BY <1>1 DEF Hear, AskStates
<1>4. ask' \in [n : 1..asked, kind : Kinds, state : AskStates] /\ ask'.n = ask.n /\ ask'.kind = k /\ ask'.state = s
  BY <1>2, <1>3
<1>5. UNCHANGED <<dialog, asked>> /\ listening' = listening \ {k} /\ heard' = [heard EXCEPT ![k] = ask.n]
  BY DEF Hear
<1>6. ask.state = "asked" /\ k \in listening /\ ask.n \in 1..asked /\ ask.n # NoAsk
  BY <1>2, PromptAssumption DEF Hear
<1>7. \A j \in Kinds : heard[j] # ask.n
  BY <1>2, <1>6
<1>8. RequestShape'
  BY <1>4, <1>5, <1>6
<1>9. \A j \in Kinds : OnePlace(j)'
  BY <1>5, <1>6
<1>10. AskFollowed'
  BY <1>3, <1>4, <1>5, <1>7
<1> QED BY <1>8, <1>9, <1>10

\* A reply to n leaves the tool waiting only for another request.
LEMMA RepliedTo ==
  ASSUME AskInv, NEW n, Reply(n)
  PROVE  ask' = NoAsk \/ (ask' = ask /\ ask # NoAsk /\ ask.n # n)
  BY DEF Reply

\* A listener that has heard a request answers it or puts it on screen.
LEMMA AskInvOnRequest ==
  ASSUME AskInv, NEW k \in Kinds, OnRequest(k)
  PROVE  AskInv'
<1> USE DEF AskInv, RequestShape, OnePlace, AskFollowed
<1>1. /\ heard[k] # NoAsk /\ heard[k] \in 1..asked /\ dialog[k] = NoAsk /\ k \notin listening
      /\ heard' = [heard EXCEPT ![k] = NoAsk] /\ UNCHANGED asked
  BY DEF OnRequest
<1>2. CASE k = "permission" /\ allowed
  <2>1. listening' = listening \cup {k} /\ Reply(heard[k]) /\ UNCHANGED dialog
    BY <1>2 DEF OnRequest, Rearmed
  <2>2. ask' = NoAsk \/ (ask' = ask /\ ask # NoAsk /\ ask.n # heard[k])
    BY <2>1, RepliedTo
  <2>3. RequestShape'
    BY <1>1, <2>1, <2>2
  <2>4. \A j \in Kinds : OnePlace(j)'
    BY <1>1, <2>1
  <2>5. AskFollowed'
    BY <1>1, <2>1, <2>2, PromptAssumption
  <2> QED BY <2>3, <2>4, <2>5
<1>3. CASE ~(k = "permission" /\ allowed)
  <2>1. PICK r : r = [n |-> heard[k], choice |-> 1]
    OBVIOUS
  <2>2. r \in [n : 1..asked, choice : Nat] /\ r # NoAsk /\ r.n = heard[k]
    BY <1>1, <2>1, PromptAssumption
  <2>3. dialog' = [dialog EXCEPT ![k] = r] /\ UNCHANGED listening
    BY <1>3, <2>1 DEF OnRequest
  <2>4. PICK s : s = "shown"
    OBVIOUS
  <2>5. ask' = (IF ask # NoAsk /\ ask.n = heard[k] THEN [ask EXCEPT !.state = s] ELSE ask)
    BY <1>3, <2>4 DEF OnRequest
  <2>6. \A j \in Kinds : OnePlace(j)'
    BY <1>1, <2>2, <2>3
  <2>7. CASE ask # NoAsk /\ ask.n = heard[k]
    <3>1. ask \in [n : 1..asked, kind : Kinds, state : AskStates] /\ s \in AskStates
      BY <2>4, <2>7 DEF AskStates
    <3>2. ask' = [ask EXCEPT !.state = s]
      BY <2>5, <2>7
    <3>3. /\ ask' \in [n : 1..asked, kind : Kinds, state : AskStates]
          /\ ask'.n = ask.n /\ ask'.kind = ask.kind /\ ask'.state = s
      BY <3>1, <3>2
    <3>4. ask.kind = k
      BY <1>1, <2>7
    <3>5. \A j \in Kinds : heard'[j] # ask.n
      BY <1>1, <2>7, <3>1, <3>4, PromptAssumption
    <3>6. RequestShape'
      BY <1>1, <2>2, <2>3, <3>3
    <3>7. AskFollowed'
      BY <1>1, <2>2, <2>3, <2>4, <2>7, <3>3, <3>4, <3>5
    <3> QED BY <2>6, <3>6, <3>7
  <2>8. CASE ~(ask # NoAsk /\ ask.n = heard[k])
    <3>1. UNCHANGED ask
      BY <2>5, <2>8
    <3>2. RequestShape'
      BY <1>1, <2>2, <2>3, <3>1
    <3>3. ask # NoAsk => ask.n # NoAsk
      BY PromptAssumption
    <3>4. AskFollowed'
      BY <1>1, <2>2, <2>3, <2>8, <3>1, <3>3
    <3> QED BY <2>6, <3>2, <3>4
  <2> QED BY <2>7, <2>8
<1> QED BY <1>2, <1>3

LEMMA AskInvDialogMove == AskInv /\ DialogMove => AskInv'
<1> SUFFICES ASSUME AskInv, DialogMove
             PROVE  AskInv'
  OBVIOUS
<1> USE DEF AskInv, RequestShape, OnePlace, AskFollowed
<1>1. PICK k : k = InFront
  OBVIOUS
<1>2. k \in Kinds /\ dialog[k] # NoAsk /\ UNCHANGED <<listening, heard, ask, asked>>
  BY <1>1 DEF DialogMove, Choosing, NoDialog, InFront, Kinds
<1>3. PICK c : c = (dialog[k].choice % Options) + 1
  OBVIOUS
<1>4. dialog[k] \in [n : 1..asked, choice : Nat] /\ c \in Nat
  BY <1>2, <1>3 DEF Options
<1>5. PICK r : r = [dialog[k] EXCEPT !.choice = c]
  OBVIOUS
<1>6. r \in [n : 1..asked, choice : Nat] /\ r.n = dialog[k].n /\ r # NoAsk
  <2> HIDE DEF AskInv, RequestShape, OnePlace, AskFollowed
  <2>1. r \in [n : 1..asked, choice : Nat] /\ r.n = dialog[k].n
    BY <1>4, <1>5
  <2>2. NoAsk \notin [n : 1..asked, choice : Nat]
    BY PromptAssumption
  <2> QED BY <2>1, <2>2
<1>7. dialog' = [dialog EXCEPT ![k] = r]
  BY <1>1, <1>3, <1>5 DEF DialogMove
<1>8. RequestShape'
  BY <1>2, <1>6, <1>7
<1>9. \A j \in Kinds : OnePlace(j)'
  BY <1>2, <1>6, <1>7
<1>10. AskFollowed'
  BY <1>2, <1>6, <1>7
<1> QED BY <1>8, <1>9, <1>10

\* An answer arms the listener again: whoever asked need not be waiting any more.
LEMMA AskInvResolve ==
  ASSUME AskInv, ~NoDialog, Resolve, UNCHANGED <<heard, asked>>
  PROVE  AskInv'
<1> USE DEF AskInv, RequestShape, OnePlace, AskFollowed
<1>1. PICK k : k = InFront
  OBVIOUS
<1>2. k \in Kinds /\ dialog[k] # NoAsk /\ heard[k] = NoAsk
  BY <1>1 DEF NoDialog, InFront, Kinds
<1>3. listening' = listening \cup {k} /\ dialog' = [dialog EXCEPT ![k] = NoAsk] /\ Reply(dialog[k].n)
  BY <1>1 DEF Resolve, Rearmed
<1>4. ask' = NoAsk \/ (ask' = ask /\ ask # NoAsk /\ ask.n # dialog[k].n)
  BY <1>3, RepliedTo
<1>5. RequestShape'
  BY <1>2, <1>3, <1>4
<1>6. \A j \in Kinds : OnePlace(j)'
  BY <1>2, <1>3
<1>7. AskFollowed'
  BY <1>2, <1>3, <1>4
<1> QED BY <1>5, <1>6, <1>7

LEMMA AskInvStep == AskInv /\ [PromptNext]_promptVars => AskInv'
<1> SUFFICES ASSUME AskInv, [PromptNext]_promptVars
             PROVE  AskInv'
  OBVIOUS
<1>1. CASE UNCHANGED AskVars
  BY <1>1, AskInvKept
<1>2. CASE UNCHANGED promptVars
  BY <1>1, <1>2 DEF promptVars, talk, AskVars
<1>3. ASSUME NEW v \in Inputs, Type(v) \/ Search(v) \/ Steer(v)
      PROVE  AskInv'
  BY <1>1, <1>3 DEF Type, Search, Steer, talk, AskVars
<1>4. CASE FilesLoaded \/ Recall \/ CtrlF \/ SearchMove \/ SearchEsc \/ Quit \/ TurnOver
  BY <1>1, <1>4 DEF FilesLoaded, Recall, CtrlF, SearchMove, SearchEsc, Quit, TurnOver, talk, AskVars
<1>5. CASE Enter \/ MenuEnter
  BY <1>1, <1>5 DEF Enter, MenuEnter, SubmitLine, talk, AskVars
<1>6. CASE MenuMove \/ MenuTab \/ MenuEsc \/ AtMove \/ AtAccept \/ AtEsc
  BY <1>1, <1>6 DEF MenuMove, MenuTab, MenuEsc, AtMove, AtAccept, AtEsc, talk, AskVars
<1>7. ASSUME NEW k \in Kinds, Ask(k) \/ Hear(k) \/ OnRequest(k)
      PROVE  AskInv'
  BY <1>7, AskInvAsk, AskInvHear, AskInvOnRequest
<1>8. CASE DialogMove
  BY <1>8, AskInvDialogMove
<1>9. CASE DialogEnter
  <2>1. ~NoDialog /\ UNCHANGED <<heard, asked>>
    BY <1>9 DEF DialogEnter, Choosing
  <2>2. CASE Resolve
    BY <2>1, <2>2, AskInvResolve
  <2>3. CASE ~Resolve
    BY <1>1, <1>9, <2>1, <2>3 DEF DialogEnter, AskVars
  <2> QED BY <2>2, <2>3
<1>10. CASE DialogEsc
  BY <1>10, AskInvResolve DEF DialogEsc, Choosing
<1>11. CASE Feedback
  <2>1. ~NoDialog /\ UNCHANGED <<heard, asked>>
    BY <1>11 DEF Feedback
  <2>2. CASE Resolve
    BY <2>1, <2>2, AskInvResolve
  <2>3. CASE ~Resolve
    BY <1>1, <1>11, <2>1, <2>3 DEF Feedback, AskVars
  <2> QED BY <2>2, <2>3
<1>12. CASE Cancel
  BY <1>12, AskInvCancel
<1> QED
  BY <1>2, <1>3, <1>4, <1>5, <1>6, <1>7, <1>8, <1>9, <1>10, <1>11, <1>12 DEF PromptNext

\* A request is never left without anybody to show it: a dialog whose turn was cancelled
\* keeps its listener busy only until it is answered, and every answer, that of the
\* session's allowance included, arms the listener again (waitForPermission, waitForPlan).
THEOREM RequestsAreShown == PromptSpec => []NobodyAsksInVain
<1>1. AskInv => NobodyAsksInVain
  <2> SUFFICES ASSUME AskInv, ask # NoAsk
               PROVE  NobodyAsksInVain
    BY DEF NobodyAsksInVain
  <2>1. ask.kind \in Kinds /\ ask.state \in AskStates
    BY DEF AskInv, RequestShape
  <2>2. OnePlace(ask.kind)
    BY <2>1 DEF AskInv
  <2> QED
    BY <2>1, <2>2 DEF AskInv, AskFollowed, OnePlace, NobodyAsksInVain, AskStates
<1> QED
  BY <1>1, AskInvInit, AskInvStep, PTL DEF PromptSpec

-----------------------------------------------------------------------------
(* The selections.                                                         *)

Place == Nat \ {0}
Holds(i, list) == list # <<>> => i \in 1..Len(list)

LineInv == input \in Inputs /\ entries \in Nat
MenuInv == menu \in Seq(DOMAIN Named) /\ menuIdx \in Place /\ Holds(menuIdx, menu)
PickerInv == atItems \in Seq(DOMAIN Completed) /\ atIdx \in Place /\ Holds(atIdx, atItems)
PastInv == lines \in Seq(Inputs) /\ pos \in 1..(Len(lines) + 1)
FoundInv == hits \in Seq(Nat) /\ cur \in Place /\ Holds(cur, hits)

SelInv == LineInv /\ MenuInv /\ PickerInv /\ PastInv /\ FoundInv

\* A selection that moves stays in its list.
LEMMA MovedHolds ==
  ASSUME NEW S, NEW list \in Seq(S), list # <<>>, NEW i \in 1..Len(list), NEW j \in Moved(i, list)
  PROVE  j \in Place /\ Holds(j, list)
<1>1. PICK n : n = Len(list)
  OBVIOUS
<1>2. n \in Nat /\ n > 0
  BY <1>1
<1>3. \A m \in Nat : m % n \in 0..(n - 1)
  BY <1>2
<1>4. i \in Nat /\ i + n - 2 \in Nat \cup {-1}
  BY <1>1, <1>2
<1>5. CASE j = (i % n) + 1
  BY <1>1, <1>2, <1>3, <1>4, <1>5 DEF Place, Holds
<1>6. CASE j = ((i + n - 2) % n) + 1
  BY <1>1, <1>2, <1>3, <1>4, <1>6 DEF Place, Holds
<1> QED BY <1>1, <1>5, <1>6 DEF Moved

\* One past the end of a list that changed goes to its first item.
LEMMA InRangeHolds ==
  ASSUME NEW S, NEW list \in Seq(S), NEW i \in Place
  PROVE  InRange(i, list) \in Place /\ Holds(InRange(i, list), list)
<1>1. PICK n : n = Len(list)
  OBVIOUS
<1>2. n \in Nat /\ (list # <<>> => n > 0)
  BY <1>1
<1> QED BY <1>1, <1>2 DEF InRange, Holds, Place

LEMMA SelInvInit == PromptInit => SelInv
  BY PromptAssumption
     DEF PromptInit, SelInv, LineInv, MenuInv, PickerInv, PastInv, FoundInv, Place, Holds

LEMMA MenuUpdated ==
  ASSUME MenuInv, NEW v \in Inputs, UpdateMenu(v)
  PROVE  MenuInv'
<1>1. menu' \in Seq(DOMAIN Named)
  BY PromptAssumption DEF UpdateMenu
<1>2. menuIdx \in Place /\ menuIdx' = InRange(menuIdx, menu')
  BY DEF MenuInv, UpdateMenu, InRange
<1> QED BY <1>1, <1>2, InRangeHolds DEF MenuInv

LEMMA PickerUpdated ==
  ASSUME PickerInv, NEW v \in Inputs, NEW loaded, UpdateAt(v, loaded)
  PROVE  PickerInv'
<1>1. CASE atItems' = <<>> /\ UNCHANGED atIdx
  BY <1>1 DEF PickerInv, Holds
<1>2. CASE UNCHANGED <<atItems, atIdx>>
  BY <1>2 DEF PickerInv, Holds
<1>3. CASE atItems' = FilesFor[v] /\ atIdx' = InRange(atIdx, atItems')
  <2>1. atItems' \in Seq(DOMAIN Completed) /\ atIdx \in Place
    BY <1>3, PromptAssumption DEF PickerInv
  <2> QED BY <1>3, <2>1, InRangeHolds DEF PickerInv
<1> QED BY <1>1, <1>2, <1>3 DEF UpdateAt

MenuVars == <<menu, menuIdx>>
PickerVars == <<atItems, atIdx>>
PastVars == <<lines, pos>>
FoundVars == <<hits, cur>>

LEMMA MenuKept == MenuInv /\ UNCHANGED MenuVars => MenuInv'
  BY DEF MenuInv, MenuVars, Holds

LEMMA PickerKept == PickerInv /\ UNCHANGED PickerVars => PickerInv'
  BY DEF PickerInv, PickerVars, Holds

LEMMA PastKept == PastInv /\ UNCHANGED PastVars => PastInv'
  BY DEF PastInv, PastVars

LEMMA FoundKept == FoundInv /\ UNCHANGED FoundVars => FoundInv'
  BY DEF FoundInv, FoundVars, Holds

LEMMA EntryCounts ==
  ASSUME entries \in Nat, Entry
  PROVE  entries' \in Nat
  BY DEF Entry

LEMMA SelType ==
  ASSUME SelInv, NEW v \in Inputs, Type(v)
  PROVE  SelInv'
<1>1. LineInv'
  BY DEF SelInv, LineInv, Type
<1>2. MenuInv'
  BY MenuUpdated DEF SelInv, Type
<1>3. PickerInv'
  BY PickerUpdated DEF SelInv, Type
<1>4. UNCHANGED <<PastVars, FoundVars>>
  BY DEF Type, find, PastVars, FoundVars
<1> QED BY <1>1, <1>2, <1>3, <1>4, PastKept, FoundKept DEF SelInv

\* A list of files that comes late.
LEMMA SelFilesLoaded ==
  ASSUME SelInv, FilesLoaded
  PROVE  SelInv'
<1>1. input \in Inputs /\ UNCHANGED <<input, entries>>
  BY DEF SelInv, LineInv, FilesLoaded, box
<1>2. PickerInv'
  BY <1>1, PickerUpdated DEF SelInv, FilesLoaded
<1>3. UNCHANGED <<MenuVars, PastVars, FoundVars>>
  BY DEF FilesLoaded, find, MenuVars, PastVars, FoundVars
<1> QED BY <1>1, <1>2, <1>3, MenuKept, PastKept, FoundKept DEF SelInv, LineInv

LEMMA SelRecall ==
  ASSUME SelInv, Recall
  PROVE  SelInv'
<1>1. PICK n : n = Len(lines)
  OBVIOUS
<1>2. lines \in Seq(Inputs) /\ n \in Nat /\ n > 0 /\ pos \in 1..(n + 1)
  BY <1>1 DEF SelInv, PastInv, Recall
<1>3. \A m \in 1..n : lines[m] \in Inputs
  BY <1>1, <1>2
<1>4. UNCHANGED <<MenuVars, PickerVars, FoundVars, lines, entries>>
  BY DEF Recall, menus, MenuVars, PickerVars, FoundVars
<1>5. CASE pos' = (IF pos > 1 THEN pos - 1 ELSE pos) /\ input' = lines[pos']
  <2>1. pos' \in 1..n
    BY <1>2, <1>5
  <2> QED BY <1>1, <1>2, <1>3, <1>4, <1>5, <2>1, MenuKept, PickerKept, FoundKept
             DEF SelInv, LineInv, PastInv
<1>6. CASE /\ pos <= Len(lines) /\ pos' = pos + 1
           /\ input' = IF pos' > Len(lines) THEN Empty ELSE lines[pos']
  <2>1. pos' \in 1..(n + 1) /\ (pos' > n \/ pos' \in 1..n)
    BY <1>1, <1>2, <1>6
  <2>2. input' \in Inputs
    BY <1>1, <1>3, <1>6, <2>1, PromptAssumption
  <2> QED BY <1>1, <1>2, <1>4, <2>1, <2>2, MenuKept, PickerKept, FoundKept
             DEF SelInv, LineInv, PastInv
<1> QED BY <1>5, <1>6 DEF Recall

LEMMA SelSubmit ==
  ASSUME SelInv, NEW v \in Inputs, SubmitLine(v)
  PROVE  SelInv'
<1>1. UNCHANGED FoundVars
  BY DEF SubmitLine, FoundVars
<1>2. LineInv'
  <2>1. input' = Empty /\ (UNCHANGED entries \/ Entry \/ entries' = 0)
    BY DEF SubmitLine
  <2> QED BY <2>1, EntryCounts, PromptAssumption DEF SelInv, LineInv
<1>3. UNCHANGED <<MenuVars, PickerVars>> \/ (menu' = <<>> /\ menuIdx' = 1 /\ atItems' = <<>> /\ atIdx' = 1)
  BY DEF SubmitLine, MenuVars, PickerVars
<1>4. MenuInv' /\ PickerInv'
  <2>1. CASE UNCHANGED <<MenuVars, PickerVars>>
    BY <2>1, MenuKept, PickerKept DEF SelInv
  <2>2. CASE menu' = <<>> /\ menuIdx' = 1 /\ atItems' = <<>> /\ atIdx' = 1
    <3>1. MenuInv'
      BY <2>2 DEF MenuInv, Holds, Place
    <3>2. PickerInv'
      BY <2>2 DEF PickerInv, Holds, Place
    <3> QED BY <3>1, <3>2
  <2> QED BY <1>3, <2>1, <2>2
<1>5. PastInv'
  <2>1. CASE UNCHANGED PastVars
    BY <2>1, PastKept DEF SelInv
  <2>2. CASE (lines' = lines \/ lines' = Append(lines, v)) /\ pos' = Len(lines') + 1
    <3>1. lines' \in Seq(Inputs)
      BY <2>2 DEF SelInv, PastInv
    <3>2. PICK n : n = Len(lines')
      OBVIOUS
    <3>3. n \in Nat
      BY <3>1, <3>2
    <3> QED BY <2>2, <3>1, <3>2, <3>3 DEF PastInv
  <2> QED BY <2>1, <2>2 DEF SubmitLine, PastVars
<1> QED BY <1>1, <1>2, <1>4, <1>5, FoundKept DEF SelInv

\* The keys of an open menu.
LEMMA SelMenu ==
  ASSUME SelInv, MenuMove \/ MenuTab \/ MenuEnter \/ MenuEsc
  PROVE  SelInv'
<1>1. menu \in Seq(DOMAIN Named) /\ menu # <<>> /\ menuIdx \in 1..Len(menu)
  BY DEF SelInv, MenuInv, Holds, MenuMove, MenuTab, MenuEnter, MenuEsc, InMenu
<1>2. menu[menuIdx] \in DOMAIN Named
  BY <1>1
<1>3. CASE MenuEnter
  BY <1>2, <1>3, SelSubmit, PromptAssumption DEF MenuEnter
<1>4. CASE MenuMove
  <2>1. MenuInv'
    BY <1>1, <1>4, MovedHolds DEF MenuMove, MenuInv
  <2>2. UNCHANGED <<PickerVars, PastVars, FoundVars, input, entries>>
    BY <1>4 DEF MenuMove, box, find, PickerVars, PastVars, FoundVars
  <2> QED BY <2>1, <2>2, PickerKept, PastKept, FoundKept DEF SelInv, LineInv
<1>5. CASE MenuTab \/ MenuEsc
  <2>1. menu' = <<>> /\ UNCHANGED menuIdx
    BY <1>5 DEF MenuTab, MenuEsc
  <2>2. MenuInv'
    BY <2>1 DEF SelInv, MenuInv, Holds
  <2>3. UNCHANGED <<PickerVars, PastVars, FoundVars, entries>>
    BY <1>5 DEF MenuTab, MenuEsc, box, find, PickerVars, PastVars, FoundVars
  <2>4. input' \in Inputs
    BY <1>2, <1>5, PromptAssumption DEF MenuTab, MenuEsc, box, SelInv, LineInv
  <2> QED BY <2>2, <2>3, <2>4, PickerKept, PastKept, FoundKept DEF SelInv, LineInv
<1> QED BY <1>3, <1>4, <1>5

\* The keys of an open file picker.
LEMMA SelPicker ==
  ASSUME SelInv, AtMove \/ AtAccept \/ AtEsc
  PROVE  SelInv'
<1>1. atItems \in Seq(DOMAIN Completed) /\ atItems # <<>> /\ atIdx \in 1..Len(atItems)
  BY DEF SelInv, PickerInv, Holds, AtMove, AtAccept, AtEsc, InPicker
<1>2. atItems[atIdx] \in DOMAIN Completed
  BY <1>1
<1>3. UNCHANGED <<MenuVars, PastVars, FoundVars, entries>>
  BY DEF AtMove, AtAccept, AtEsc, find, MenuVars, PastVars, FoundVars
<1>4. input' \in Inputs
  BY <1>2, PromptAssumption DEF AtMove, AtAccept, AtEsc, box, SelInv, LineInv
<1>5. PickerInv'
  <2>1. CASE AtMove
    BY <1>1, <2>1, MovedHolds DEF AtMove, PickerInv
  <2>2. CASE AtAccept \/ AtEsc
    <3>1. atItems' = <<>> /\ (atIdx' = 1 \/ UNCHANGED atIdx)
      BY <2>2 DEF AtAccept, AtEsc
    <3> QED BY <3>1 DEF SelInv, PickerInv, Holds, Place
  <2> QED BY <2>1, <2>2
<1> QED BY <1>3, <1>4, <1>5, MenuKept, PastKept, FoundKept DEF SelInv, LineInv

LEMMA SelSearch ==
  ASSUME SelInv, CtrlF \/ SearchMove \/ SearchEsc \/ \E v \in Inputs : Search(v)
  PROVE  SelInv'
<1>1. UNCHANGED <<MenuVars, PickerVars, PastVars, entries>>
  BY DEF CtrlF, SearchMove, SearchEsc, Search, menus, MenuVars, PickerVars, PastVars
<1>2. LineInv'
  BY PromptAssumption DEF CtrlF, SearchMove, SearchEsc, Search, box, SelInv, LineInv
<1>3. FoundInv'
  <2>1. CASE SearchMove
    BY <2>1, MovedHolds DEF SearchMove, SelInv, FoundInv, Holds
  <2>2. CASE CtrlF \/ SearchEsc
    <3>1. hits' = <<>> /\ cur' = 1
      BY <2>2 DEF CtrlF, SearchEsc
    <3> QED BY <3>1 DEF FoundInv, Holds, Place
  <2>3. ASSUME NEW v \in Inputs, Search(v)
        PROVE  FoundInv'
    <3>1. cur' = 1 /\ \E n \in 0..entries : hits' = <<>> \/ hits' \in Matches(n)
      BY <2>3 DEF Search
    <3>2. hits' \in Seq(Nat)
      <4>1. CASE hits' = <<>>
        BY <4>1
      <4>2. ASSUME NEW n \in 0..entries, hits' \in Matches(n)
            PROVE  hits' \in Seq(Nat)
        <5>1. n \in Nat /\ 1..entries \subseteq Nat
          BY DEF SelInv, LineInv
        <5>2. hits' \in [1..n -> 1..entries]
          BY <4>2 DEF Matches
        <5>3. hits' \in [1..n -> Nat]
          BY <5>1, <5>2
        <5> QED BY <5>1, <5>3
      <4> QED BY <3>1, <4>1, <4>2
    <3>3. PICK n : n = Len(hits')
      OBVIOUS
    <3>4. n \in Nat /\ (hits' # <<>> => n > 0)
      BY <3>2, <3>3
    <3> QED BY <3>1, <3>2, <3>3, <3>4 DEF FoundInv, Holds, Place
  <2> QED BY <2>1, <2>2, <2>3
<1> QED BY <1>1, <1>2, <1>3, MenuKept, PickerKept, PastKept DEF SelInv

SelLists == <<MenuVars, PickerVars, PastVars, FoundVars>>

LEMMA SelKept ==
  ASSUME SelInv, UNCHANGED SelLists, input' \in Inputs, entries' \in Nat
  PROVE  SelInv'
  BY MenuKept, PickerKept, PastKept, FoundKept DEF SelInv, LineInv, SelLists

LEMMA SelInvStep == SelInv /\ [PromptNext]_promptVars => SelInv'
<1> SUFFICES ASSUME SelInv, [PromptNext]_promptVars
             PROVE  SelInv'
  OBVIOUS
<1>1. input \in Inputs /\ entries \in Nat /\ Empty \in Inputs
  BY PromptAssumption DEF SelInv, LineInv
<1>2. CASE UNCHANGED promptVars
  BY <1>1, <1>2, SelKept
     DEF promptVars, box, menus, find, SelLists, MenuVars, PickerVars, PastVars, FoundVars
<1>3. ASSUME NEW v \in Inputs, Type(v) \/ Search(v) \/ Steer(v)
      PROVE  SelInv'
  <2>1. CASE Steer(v)
    BY <1>1, <2>1, SelKept, EntryCounts
       DEF Steer, menus, find, SelLists, MenuVars, PickerVars, PastVars, FoundVars
  <2> QED BY <1>3, <2>1, SelType, SelSearch
<1>4. CASE Enter
  BY <1>1, <1>4, SelSubmit DEF Enter
<1>5. CASE Cancel \/ Quit \/ TurnOver
  BY <1>1, <1>5, SelKept, EntryCounts
     DEF Cancel, Quit, TurnOver, box, menus, find, SelLists, MenuVars, PickerVars, PastVars, FoundVars
<1>6. ASSUME NEW k \in Kinds, Ask(k) \/ Hear(k) \/ OnRequest(k)
      PROVE  SelInv'
  BY <1>1, <1>6, SelKept
     DEF Ask, Hear, OnRequest, box, menus, find, SelLists, MenuVars, PickerVars, PastVars, FoundVars
<1>7. CASE DialogMove \/ DialogEnter \/ DialogEsc \/ Feedback
  <2>1. UNCHANGED <<menus, find>> /\ (UNCHANGED input \/ input' = Empty) /\ (UNCHANGED entries \/ Entry)
    BY <1>7 DEF DialogMove, DialogEnter, DialogEsc, Feedback, Resolve, box
  <2> QED BY <1>1, <2>1, SelKept, EntryCounts
             DEF menus, find, SelLists, MenuVars, PickerVars, PastVars, FoundVars
<1> QED
  BY <1>2, <1>3, <1>4, <1>5, <1>6, <1>7, SelFilesLoaded, SelRecall, SelMenu, SelPicker, SelSearch
     DEF PromptNext

\* No key can index past a list: the selections of the menu, of the picker, of the search
\* and of the history are inside their lists whatever the user types and whenever the list
\* of files comes (updateMenu, updateAt, run).
THEOREM KeysStayInLists == PromptSpec => []SelectionsInRange
<1>1. SelInv => SelectionsInRange
  <2> SUFFICES ASSUME SelInv
               PROVE  SelectionsInRange
    OBVIOUS
  <2>1. DOMAIN menu = 1..Len(menu) /\ DOMAIN atItems = 1..Len(atItems) /\ DOMAIN hits = 1..Len(hits)
    BY DEF SelInv, MenuInv, PickerInv, FoundInv
  <2> QED BY <2>1 DEF SelInv, MenuInv, PickerInv, PastInv, FoundInv, Holds, SelectionsInRange
<1> QED
  BY <1>1, SelInvInit, SelInvStep, PTL DEF PromptSpec
=============================================================================
