---------------------------- MODULE MCIngestion ----------------------------
(* At most one application, some of the listeners and a few events. *)
EXTENDS Ingestion

CONSTANT a1

=============================================================================
