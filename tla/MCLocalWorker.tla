------------------------------ MODULE MCLocalWorker ------------------------------
(***************************************************************************)
(* LocalWorker with a few turns on one client, for TLC.                    *)
(***************************************************************************)
EXTENDS LocalWorker
=============================================================================
