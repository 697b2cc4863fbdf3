\* Two missions at once, two providers whose bids differ in trust and reputation,
\* duplicates allowed.
SPECIFICATION Spec
CONSTANTS
  Mission = {m1, m2}
  Provider = {p1, p2}
  NoProvider = NoProvider
  TrustLevel = {"community", "other"}
  TrustRank <- MCTrustRank
  Reputation = {0, 1}
  Latency = {1}
  MaxBids = 2
INVARIANTS
  PreferredServed BestServed UnservedMeansUnheard
PROPERTIES
  ImplementsAuction
CHECK_DEADLOCK FALSE
