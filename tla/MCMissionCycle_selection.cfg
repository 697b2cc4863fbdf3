\* One mission, three providers, all three sort keys of selectWinningBid.
SPECIFICATION Spec
CONSTANTS
  Mission = {m1}
  Provider = {p1, p2, p3}
  NoProvider = NoProvider
  TrustLevel = {"community", "other"}
  TrustRank <- MCTrustRank
  Reputation = {0, 1}
  Latency = {0, 1}
  MaxBids = 3
SYMMETRY ProviderSymmetry
INVARIANTS
  SelectionDecides BestServed
CHECK_DEADLOCK FALSE
