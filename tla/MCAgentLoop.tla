---------------------------- MODULE MCAgentLoop ----------------------------
(***************************************************************************)
(* AgentLoop on small instances.                                           *)
(***************************************************************************)
EXTENDS AgentLoop, TLC

CallSymmetry == Permutations(Calls) \cup Permutations(Results)
=============================================================================
