--------------------------- MODULE MCMissionCycle ---------------------------
(* TLC instances of MissionCycle. *)
EXTENDS MissionCycle, TLC

\* The five answers of `TRUST_RANK[...] ?? 0`.
MCTrustRank ==
  [t \in TrustLevel |->
     CASE t = "delegated" -> 4
       [] t = "standard" -> 3
       [] t = "community" -> 2
       [] t = "unverified" -> 1
       [] OTHER -> 0]

\* The module only ever compares providers for equality.
ProviderSymmetry == Permutations(Provider)

=============================================================================
