-------------------------- MODULE MCConfigWatcher --------------------------
(* Two applications. *)
EXTENDS ConfigWatcher
MCApplications == <<"a1", "a2">>
=============================================================================
