\* One attempt at discovery, during which up to three connections are made.
SPECIFICATION Spec
CONSTANTS
  atlas = atlas both = both n1 = n1 n2 = n2 star = star forged = forged
  lan = lan lan2 = lan2 loop = loop p0 = p0 p1 = p1 p2 = p2 p3 = p3
  Bootstrap = {atlas, both}
  Advert <- Adverts
  Address = {lan, lan2, loop}
  Loopback = {loop}
  Kind <- Kinds
  Announced <- AnnouncedBy
  Beacon <- BeaconOf
  Peer <- Peers
  NoPeer = NoPeer
  PeerOf <- Apart
  Conn = {c1, c2, c3}
  NoConn = NoConn
INVARIANTS
  ChosenIsKept
PROPERTIES
  BlameIsTrue DiscoverySettles
CHECK_DEADLOCK FALSE
