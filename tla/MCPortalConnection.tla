------------------------ MODULE MCPortalConnection ------------------------
(* The TLC instance of PortalConnection gives values to its constants only. *)
EXTENDS PortalConnection

=============================================================================
