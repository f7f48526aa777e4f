-------------------------- MODULE MCFinalityEngine --------------------------
(* The engine without the history variable that none of its properties reads. *)
EXTENDS FinalityEngine

View == <<blocks, parent_to_children, tips, restarts, indexed, engine>>
=============================================================================
