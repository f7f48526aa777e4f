----------------------------- MODULE StateSync -----------------------------
(***************************************************************************)
(* Fast catch-up of the account state (src/src/network/state_sync.rs).     *)
(* Handlers of two snapshots may run at once; each compares the roots      *)
(* under the read lock of the state, lets it go, and installs the snapshot *)
(* under the write lock, which it keeps to its end.                        *)
(***************************************************************************)
EXTENDS Integers

CONSTANTS Roots,      \* state roots, the state stands for its root
          Handlers,   \* tasks that run handle_state_snapshot
          MaxSnapshots

VARIABLES state, last_synced_root,
          sync_in_progress,
          snapshots,  \* snapshots on their way to this node
          handler,    \* task -> where it is, and with which snapshot
          sent,
          moved       \* ghost: the node executed something since the last snapshot

vars == <<state, last_synced_root, sync_in_progress, snapshots, handler, sent, moved>>

Idle == [pc |-> "idle", root |-> 0, intact |-> TRUE]
Snapshots == [root : Roots, intact : BOOLEAN]

request_state_sync ==
  /\ ~sync_in_progress
  /\ sync_in_progress' = TRUE
  /\ UNCHANGED <<state, last_synced_root, snapshots, handler, sent, moved>>

\* A peer answers, or sends a snapshot nobody asked for; one that was damaged on its
\* way fails validate.
snapshot_arrives(s) ==
  /\ sent < MaxSnapshots /\ sent' = sent + 1
  /\ snapshots' = snapshots \cup {s}
  /\ UNCHANGED <<state, last_synced_root, sync_in_progress, handler, moved>>

\* validate and the comparison of the roots.
handle_state_snapshot(t, s) ==
  /\ handler[t] = Idle
  /\ snapshots' = snapshots \ {s}
  /\ IF ~s.intact THEN UNCHANGED <<sync_in_progress, handler>>
     ELSE IF s.root = state THEN sync_in_progress' = FALSE /\ UNCHANGED handler
     ELSE /\ handler' = [handler EXCEPT ![t] = [pc |-> "install", root |-> s.root,
                                               intact |-> TRUE]]
          /\ UNCHANGED sync_in_progress
  /\ UNCHANGED <<state, last_synced_root, sent, moved>>

\* Mutant: the root is noted before the write lock is taken.
install_noting_first(t) ==
  \/ /\ handler[t].pc = "install"
     /\ last_synced_root' = handler[t].root
     /\ handler' = [handler EXCEPT ![t].pc = "write"]
     /\ UNCHANGED <<state, sync_in_progress, snapshots, sent, moved>>
  \/ /\ handler[t].pc = "write"
     /\ state' = handler[t].root /\ moved' = FALSE
     /\ sync_in_progress' = FALSE
     /\ handler' = [handler EXCEPT ![t] = Idle]
     /\ UNCHANGED <<last_synced_root, snapshots, sent>>

install(t) ==
  /\ handler[t].pc = "install"
  /\ state' = handler[t].root
  /\ last_synced_root' = handler[t].root
  /\ sync_in_progress' = FALSE /\ moved' = FALSE
  /\ handler' = [handler EXCEPT ![t] = Idle]
  /\ UNCHANGED <<snapshots, sent>>

\* The node executes a block.
execute(root) ==
  /\ root # state /\ state' = root /\ moved' = TRUE
  /\ UNCHANGED <<last_synced_root, sync_in_progress, snapshots, handler, sent>>

is_state_synced == state = last_synced_root

Init ==
  /\ state \in Roots /\ last_synced_root = state
  /\ sync_in_progress = FALSE /\ snapshots = {} /\ sent = 0 /\ moved = FALSE
  /\ handler = [t \in Handlers |-> Idle]

Next ==
  \/ request_state_sync
  \/ \E s \in Snapshots : snapshot_arrives(s)
  \/ \E t \in Handlers :
       install(t) \/ \E s \in snapshots : handle_state_snapshot(t, s)
  \/ \E root \in Roots : execute(root)

Spec == Init /\ [][Next]_vars

-----------------------------------------------------------------------------
(* Properties *)

\* The state and the root it was synchronised to differ only through what the node
\* executed itself, with two snapshots being installed at once.
RootsTogether == is_state_synced \/ moved

\* "Sync in progress flag" (state_sync.rs:73): once a snapshot has been dealt with,
\* whatever came of it, the flag is down and the node may ask again.
Released ==
  (\E s \in snapshots : s \notin snapshots') /\ handler' = handler => ~sync_in_progress'
FlagReleased == [][Released]_vars
=============================================================================
