----------------------------- MODULE MCBlockDAG -----------------------------
(* Small instances of the BlockDAG engine. *)
EXTENDS BlockDAG
=============================================================================
