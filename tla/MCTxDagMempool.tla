--------------------------- MODULE MCTxDagMempool ---------------------------
(* Three transactions of two senders, the first of which is the cheapest. *)
EXTENDS TxDagMempool

CONSTANTS t1, t2, t3, s1, s2

MCPrice == (t1 :> 1) @@ (t2 :> 2) @@ (t3 :> 3)
MCSender == (t1 :> s1) @@ (t2 :> s1) @@ (t3 :> s2)
=============================================================================
