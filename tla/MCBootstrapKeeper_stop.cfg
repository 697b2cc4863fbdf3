\* What stop() does not stop.
SPECIFICATION KeeperSpec
CONSTANTS
  tcp = tcp
  ws = ws
  dead = dead
  bare = bare
  bad = bad
  atlas = atlas
  other = other
  Addr = {tcp, ws, dead, bare, bad}
  PeerId = {atlas, other}
  NoPeerId = NoPeerId
  Invalid = Invalid
  PeerIdOf <- MCPeerIdOf
  Reachable = {tcp, ws, bare}
INVARIANT
  StoppedMeansIdle
CHECK_DEADLOCK FALSE
