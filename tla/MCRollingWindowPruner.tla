----------------------- MODULE MCRollingWindowPruner -----------------------
(* Three blocks, two of them of one height, two of which contain the same   *)
(* transaction.                                                             *)
EXTENDS RollingWindowPruner, TLC

CONSTANTS h1, h2, h3, x, y, p, q

MCTxsOf == (h1 :> {x}) @@ (h2 :> {x, y}) @@ (h3 :> {})
MCHeightOf == (h1 :> 1) @@ (h2 :> 2) @@ (h3 :> 2)

\* The threads may be exchanged.
Callers == Permutations({p, q})
=============================================================================
