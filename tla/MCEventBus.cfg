SPECIFICATION FairSpec
CONSTANTS
  peers = peers
  socket = socket
  all = all
  Types = {"new_block", "peer_connected", "peer_disconnected"}
  Publishers = {p}
  Singles = {socket}
  Sockets = {socket, all}
  PeerSubs = {peers}
  AllSubs = {all}
  Wants <- MCWants
  Capacity = 1
  MaxEvents = 3
CHECK_DEADLOCK FALSE
INVARIANTS
  HeardWithoutGap
  ForwardedOnce
PROPERTIES
  Delivered
