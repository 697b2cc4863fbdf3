\* Two loops on one peer, one that may never connect, one that returns, one invalid.
SPECIFICATION KeeperSpec
CONSTANTS
  tcp = tcp
  ws = ws
  dead = dead
  bare = bare
  bad = bad
  atlas = atlas
  other = other
  Addr = {tcp, ws, dead, bare, bad}
  PeerId = {atlas, other}
  NoPeerId = NoPeerId
  Invalid = Invalid
  PeerIdOf <- MCPeerIdOf
  Reachable = {tcp, ws, bare}
INVARIANTS
  RestsOnlyConnected
PROPERTIES
  StopEndsDialling ReachableGetsConnected
CHECK_DEADLOCK FALSE
