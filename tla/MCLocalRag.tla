----------------------------- MODULE MCLocalRag -----------------------------
(* A small instance of LocalRag. *)
EXTENDS LocalRag, TLC

\* Two documents, of two scopes; the second has the best chunk.
TwoScopes == 1 :> "common" @@ 2 :> "own"
OneScope == 1 :> "common" @@ 2 :> "common"
Scores == 1 :> <<2, 3>> @@ 2 :> <<4, 2>>
=============================================================================
