----------------------------- MODULE LedgerDAG -----------------------------
(***************************************************************************)
(* What the block DAG promises to its users, whatever identifies a block   *)
(* and however it is stored, indexed or restarted: an append-only graph    *)
(* with one root, in which a node points at older nodes only and knows the *)
(* length of its longest path to the root.                                 *)
(***************************************************************************)
EXTENDS Naturals

VARIABLES nodes,
          links,   \* pairs <<node, older node>>
          depth    \* node -> Nat

lvars == <<nodes, links, depth>>

Init == nodes = {} /\ links = {} /\ depth = [n \in {} |-> 0]

LongestPath(d, over) ==
  IF over = {} THEN d = 0
  ELSE /\ \E p \in over : d = depth[p] + 1
       /\ \A p \in over : depth[p] < d

Append(n, over) ==
  /\ n \notin nodes
  /\ over = {} <=> nodes = {}
  /\ nodes' = nodes \cup {n}
  /\ links' = links \cup {<<n, p>> : p \in over}
  /\ depth' = [m \in nodes' |-> IF m = n THEN depth'[n] ELSE depth[m]]
  /\ LongestPath(depth'[n], over)

Next == \E n \in nodes' : \E over \in SUBSET nodes : Append(n, over)

Spec == Init /\ [][Next]_lvars
=============================================================================
