----------------------------- MODULE MCGhostDAG -----------------------------
(* Instances of GhostDAG for TLC. *)
EXTENDS GhostDAG

\* The ghost variable accepted decides no step and occurs in no property here.
WithoutAccepted == <<blocks, parent_to_children, tips, restarts, indexed, engine>>
=============================================================================
