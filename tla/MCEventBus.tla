----------------------------- MODULE MCEventBus -----------------------------
(* A block socket, a peer listener and a subscriber to all. *)
EXTENDS EventBus, TLC

CONSTANTS peers, socket, all

MCWants == (socket :> <<"new_block">>)
           @@ (peers :> <<"peer_connected", "peer_disconnected">>)
=============================================================================
