------------------------------ MODULE MCServeConn ------------------------------
(***************************************************************************)
(* ServeConn with a client that sends a few messages: enough to fill the   *)
(* queue behind a running turn, abort, and answer an earlier and a later   *)
(* permission request.                                                     *)
(***************************************************************************)
EXTENDS ServeConn
=============================================================================
