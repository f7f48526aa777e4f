------------------------- MODULE MCParallelExecutor -------------------------
(* Instances of ParallelExecutor for TLC. *)
EXTENDS ParallelExecutor

CONSTANTS b, c, d, k, l, s

Tx(kind, from, to, nonce, amount, fee, ok, slots) ==
  [kind |-> kind, from |-> from, to |-> to, nonce |-> nonce, amount |-> amount,
   fee |-> fee, ok |-> ok, slots |-> slots]

Transfer(from, to, nonce, amount, fee) ==
  Tx("transfer", from, to, nonce, amount, fee, TRUE, {})

\* A chain of conflicts, transfers to oneself, two of one sender, a contract that
\* is deployed, called, and called with an error, and another that names the same
\* storage key.
MCPool == {Transfer(b, b, 0, 1, 1), Transfer(b, c, 0, 1, 1), Transfer(c, d, 0, 2, 1),
           Transfer(d, d, 0, 1, 1), Transfer(c, b, 1, 1, 0), Transfer(d, k, 1, 1, 1),
           Tx("deploy", d, k, 0, 0, 1, TRUE, {s}), Tx("call", c, k, 0, 0, 1, TRUE, {s}),
           Tx("call", b, k, 0, 0, 1, FALSE, {s}), Tx("deploy", b, l, 0, 0, 1, TRUE, {s})}
=============================================================================
