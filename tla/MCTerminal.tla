------------------------------- MODULE MCTerminal -------------------------------
(***************************************************************************)
(* Terminal with a few turns, sessions and commands, for TLC.              *)
(***************************************************************************)
EXTENDS Terminal
=============================================================================
