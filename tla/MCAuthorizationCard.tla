------------------------ MODULE MCAuthorizationCard ------------------------
(* TLC instances of AuthorizationCard. *)
EXTENDS AuthorizationCard

\* Whatever depends on whatever else: chains, forks, cycles.
AnyDependencies == {d \in [Item -> SUBSET Item] : \A i \in Item : i \notin d[i]}

=============================================================================
