--------------------------- MODULE MCEventStream ---------------------------
(***************************************************************************)
(* EventStream with a channel shorter than the runs that fill it.          *)
(***************************************************************************)
EXTENDS EventStream
=============================================================================
