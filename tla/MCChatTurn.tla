----------------------------- MODULE MCChatTurn -----------------------------
(* TLC instances of ChatTurn. *)
EXTENDS ChatTurn, TLC

TurnSymmetry == Permutations(Msg) \cup Permutations(Text)

=============================================================================
