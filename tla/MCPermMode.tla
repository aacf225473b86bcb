----------------------------- MODULE MCPermMode -----------------------------
(***************************************************************************)
(* PermMode with two calls, one of which may leave its dialog open for the *)
(* other, and rules for one tool that changes files.                       *)
(***************************************************************************)
EXTENDS PermMode
=============================================================================
