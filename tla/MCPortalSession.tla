-------------------------- MODULE MCPortalSession --------------------------
(* Instances of PortalSession for TLC. *)
EXTENDS PortalSession, TLC

\* A KB chosen by hand; without agentStart nothing is chosen, and nothing is local.
ByHand == {[kb |-> TRUE, rag |-> "local"]}
=============================================================================
