---------------------------- MODULE MCSavedSessions ----------------------------
(***************************************************************************)
(* SavedSessions with a few sessions and turns.  Session ids and           *)
(* connections are interchangeable.                                        *)
(***************************************************************************)
EXTENDS SavedSessions, TLC

Symmetry == Permutations(Conns) \cup Permutations(Ids)
=============================================================================
