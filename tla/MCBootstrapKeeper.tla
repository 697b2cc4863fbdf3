-------------------------- MODULE MCBootstrapKeeper --------------------------
(* TLC instances of BootstrapKeeper: two addresses of one peer, one of       *)
(* another that is never reachable, one without a peer id, one malformed.    *)
EXTENDS BootstrapKeeper

CONSTANTS tcp, ws, dead, bare, bad, atlas, other

MCPeerIdOf ==
  [a \in Addr |-> CASE a \in {tcp, ws} -> atlas
                    [] a = dead -> other
                    [] a = bare -> NoPeerId
                    [] OTHER -> Invalid]

=============================================================================
