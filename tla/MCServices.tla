--------------------------------- MODULE MCServices ---------------------------------
(***************************************************************************)
(* What stands around the agent, each part on its own: LoginTokens,        *)
(* SyncKey, MemoryStore, Dialect and Backends.  `part' says which one a    *)
(* behaviour is of; the variables of the others hold still.                *)
(***************************************************************************)
EXTENDS LoginTokens, SyncKey, MemoryStore, Dialect, Backends, TLC

CONSTANTS p1, p2, a, b, x, y

VARIABLE part

\* LoginTokens and SyncKey: the processes do the same.
Symmetry == Permutations({p1, p2})

\* MemoryStore: query x hits both bodies, y only the first.
MCRelevance == [t \in Bodies \X Queries |-> IF t[2] = x THEN 1 ELSE IF t[1] = a THEN 2 ELSE 0]

\* Dialect: prose, calls written in every way, good and bad, and two in a row.
MCChunks ==
  {<<"w">>, <<Newline>>,
   <<Open, "n", ">", "{", "}", Shut, ">">>,
   <<Open, "n", ">", "{", "w", "}", Shut, ":", "n", ">">>,
   <<Open, "n", ">", "{", Shut, "w", "}", Shut, ">">>,
   <<Open, "n", ">", Shut, ">">>,
   <<Open, "n", ">", "{", Shut, ">">>,
   <<Open, ">", "{", "}", Shut, ">">>,
   <<Open, "n", ">", "{", "}">>,
   <<Open, "n">>, <<Shut, ":">>}
MCReplies == MCChunks \cup {c \o d : c, d \in MCChunks}
MCStructured == {<<>>, <<Call(<<"n">>, <<"{", "}">>)>>}

-----------------------------------------------------------------------------
TokenStill   == TokenInit /\ base = [p \in Procs |-> CHOOSE c \in Bases : TRUE]
KeyStill     == KeyInit /\ envKey = NoKey /\ ~armed
DialectStill == DialectInit /\ listing = "off" /\ model = CHOOSE m \in Models : TRUE
BackendStill == /\ BackendInit
                /\ wish = CHOOSE v \in Wishes : TRUE
                /\ worker = CHOOSE v \in Workers : TRUE
                /\ kind = "serve"

Init ==
  \/ part = "tokens"   /\ TokenInit  /\ KeyStill /\ MemInit /\ DialectStill /\ BackendStill
  \/ part = "key"      /\ TokenStill /\ KeyInit  /\ MemInit /\ DialectStill /\ BackendStill
  \/ part = "memory"   /\ TokenStill /\ KeyStill /\ MemInit /\ DialectStill /\ BackendStill
  \/ part = "dialect"  /\ TokenStill /\ KeyStill /\ MemInit /\ DialectInit  /\ BackendStill
  \/ part = "backends" /\ TokenStill /\ KeyStill /\ MemInit /\ DialectStill /\ BackendInit

Next ==
  /\ UNCHANGED part
  /\ \/ part = "tokens"   /\ TokenNext
        /\ UNCHANGED <<keyVars, memVars, dialectVars, backendVars>>
     \/ part = "key"      /\ KeyNext
        /\ UNCHANGED <<tokenVars, memVars, dialectVars, backendVars>>
     \/ part = "memory"   /\ MemNext
        /\ UNCHANGED <<tokenVars, keyVars, dialectVars, backendVars>>
     \/ part = "dialect"  /\ DialectNext
        /\ UNCHANGED <<tokenVars, keyVars, memVars, backendVars>>
     \/ part = "backends" /\ BackendNext
        /\ UNCHANGED <<tokenVars, keyVars, memVars, dialectVars>>

Spec == /\ Init
        /\ [][Next]_<<part, tokenVars, keyVars, memVars, dialectVars, backendVars>>
=============================================================================
