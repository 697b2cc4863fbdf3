-------------------------- MODULE BootstrapKeeper --------------------------
(***************************************************************************)
(* Every FHS node keeps a connection to each of its bootstraps: one loop   *)
(* per address dials with retry and backoff, tags the peer keep-alive,     *)
(* waits until the peer disconnects and dials again                        *)
(* (packages/fhs-node/src/diagnostics.ts, dialBootstraps).                 *)
(*                                                                         *)
(* The loops share nothing but the stop flag, but two addresses may lead   *)
(* to one peer, and libp2p dials and drops connections on its own, in      *)
(* particular while a loop is awaiting peerStore.merge.  Names that any    *)
(* module would have begin with Keeper here, so that this module can be    *)
(* extended beside another.                                                *)
(***************************************************************************)

CONSTANTS
  Addr,       \* bootstrap addresses of the configuration
  PeerId,     \* peer ids
  NoPeerId,   \* an address without /p2p/<peerId>
  Invalid,    \* an address multiaddr() rejects
  PeerIdOf,   \* what each address carries
  Reachable   \* addresses where, from time to time, a dial can succeed

ASSUME PeerIdAssumption ==
  /\ PeerIdOf \in [Addr -> PeerId \cup {NoPeerId, Invalid}]
  /\ NoPeerId \notin PeerId /\ Invalid \notin PeerId /\ NoPeerId # Invalid
ASSUME ReachableAssumption == Reachable \subseteq Addr

VARIABLES
  pc,         \* where maintain() is, for each address
  stopped,    \* the flag stop() sets
  link,       \* peers libp2p has a connection with
  missed      \* loops whose peer dropped before they listened for it (history)

keeper == <<pc, stopped, link, missed>>

LoopPlaces == {"dialing",    \* awaiting node.dial
               "sleeping",   \* awaiting the backoff timer
               "marking",    \* awaiting peerStore.merge
               "waiting",    \* awaiting peer:disconnect
               "done"}       \* returned

\* dialBootstraps runs every maintain() up to its first await.
KeeperInit ==
  /\ pc = [a \in Addr |-> IF PeerIdOf[a] = Invalid THEN "done" ELSE "dialing"]
  /\ stopped = FALSE
  /\ link = {}
  /\ missed = {}

-----------------------------------------------------------------------------
(* Slips a change to this code could make; nothing below uses them.        *)

Slip_HearOneWaiter(p) ==        \* one waiter per peer instead of per address
  LET waiters == {a \in Addr : pc[a] = "waiting" /\ PeerIdOf[a] = p}
  IN  IF waiters = {} THEN {} ELSE {CHOOSE a \in waiters : TRUE}

Slip_DialFailIgnoresStop(a) ==  \* without `if (stopped) return false`
  /\ pc[a] = "dialing"
  /\ pc' = [pc EXCEPT ![a] = "sleeping"]
  /\ UNCHANGED <<stopped, link, missed>>

Slip_DialFailGivesUp(a) ==      \* without the retry
  /\ pc[a] = "dialing"
  /\ pc' = [pc EXCEPT ![a] = "done"]
  /\ UNCHANGED <<stopped, link, missed>>

-----------------------------------------------------------------------------
(* The loop of one address.                                                *)

Goto(a, place) == pc' = [pc EXCEPT ![a] = place]

\* node.dial resolves, with a new connection or the one there already was.
LoopDialOk(a) ==
  /\ pc[a] = "dialing"
  /\ link' = link \cup ({PeerIdOf[a]} \cap PeerId)
  /\ Goto(a, IF PeerIdOf[a] = NoPeerId THEN "done" ELSE "marking")
  /\ UNCHANGED <<stopped, missed>>

\* node.dial rejects: back off, unless everything was stopped meanwhile.
LoopDialFail(a) ==
  /\ pc[a] = "dialing"
  /\ Goto(a, IF stopped THEN "done" ELSE "sleeping")
  /\ UNCHANGED <<stopped, link, missed>>

\* The backoff timer: min(initialDelayMs * 2^(attempt-1), maxDelayMs).
Retry(a) ==
  /\ pc[a] = "sleeping"
  /\ Goto(a, "dialing")
  /\ UNCHANGED <<stopped, link, missed>>

\* peerStore.merge settles, well or badly, and only now is the listener for
\* peer:disconnect registered, whatever became of the connection meanwhile.
Listen(a) ==
  /\ pc[a] = "marking"
  /\ Goto(a, "waiting")
  /\ UNCHANGED <<stopped, link, missed>>

-----------------------------------------------------------------------------
(* The node and its owner.                                                 *)

\* The loops whose listener hears that the last connection with p is gone.
Hear(p) == {a \in Addr : pc[a] = "waiting" /\ PeerIdOf[a] = p}

\* peer:disconnect.  A loop that hears it dials again; one that is still
\* marking the peer does not hear it.
LinkDown(p) ==
  /\ p \in link
  /\ link' = link \ {p}
  /\ pc' = [a \in Addr |-> IF a \notin Hear(p) THEN pc[a]
                           ELSE IF stopped THEN "done" ELSE "dialing"]
  /\ missed' = (missed \ Hear(p))
               \cup {a \in Addr : pc[a] = "marking" /\ PeerIdOf[a] = p}
  /\ UNCHANGED stopped

\* libp2p connects on its own: keep-alive, peer discovery, an inbound dial.
LinkUp(p) ==
  /\ p \notin link
  /\ link' = link \cup {p}
  /\ UNCHANGED <<pc, stopped, missed>>

\* stop(), or the node's own "stop" event: every waiter is woken and its loop
\* returns; a loop awaiting a dial or the peer store has no waiter.
Stop ==
  /\ ~ stopped
  /\ stopped' = TRUE
  /\ pc' = [a \in Addr |-> IF pc[a] \in {"sleeping", "waiting"}
                           THEN "done" ELSE pc[a]]
  /\ UNCHANGED <<link, missed>>

KeeperNext ==
  \/ \E a \in Addr : LoopDialOk(a) \/ LoopDialFail(a) \/ Retry(a) \/ Listen(a)
  \/ \E p \in PeerId : LinkDown(p) \/ LinkUp(p)
  \/ Stop

\* Awaits settle and timers fire.  A reachable bootstrap cannot refuse every
\* one of infinitely many dials.  Nobody owes a drop, a libp2p dial or a stop.
KeeperFairness ==
  /\ \A a \in Addr : /\ WF_keeper(LoopDialOk(a) \/ LoopDialFail(a))
                     /\ WF_keeper(Retry(a))
                     /\ WF_keeper(Listen(a))
  /\ \A a \in Reachable : SF_keeper(LoopDialOk(a))

KeeperSpec == KeeperInit /\ [][KeeperNext]_keeper /\ KeeperFairness

-----------------------------------------------------------------------------
(* Properties.                                                             *)

KeeperTypeOK ==
  /\ pc \in [Addr -> LoopPlaces]
  /\ stopped \in BOOLEAN
  /\ link \subseteq PeerId
  /\ missed \subseteq Addr

\* A loop rests only while its peer is connected, whichever address the peer
\* was dialled at and however often it drops.  The one exception is recorded:
\* the peer dropped in the window before the listener was registered.
RestsOnlyConnected ==
  \A a \in Addr : pc[a] = "waiting" => PeerIdOf[a] \in link \/ a \in missed

\* After stop() a loop may finish the await it is in, but no loop starts
\* another dial and no backoff is left pending.
StopEndsDialling ==
  [][stopped => \A a \in Addr : pc'[a] \in {"dialing", "sleeping"} => pc'[a] = pc[a] /\ pc[a] = "dialing"]_keeper

\* A loop that is trying gets its peer connected in the end, whatever becomes
\* of the other addresses, invalid or dead ones included.
ReachableGetsConnected ==
  \A a \in Reachable :
    pc[a] \in {"dialing", "sleeping"} /\ PeerIdOf[a] \in PeerId ~> PeerIdOf[a] \in link \/ stopped

\* "si la conexión se cae vuelve a empezar" (diagnostics.ts:122): a loop never
\* rests while its peer is disconnected.
NeverRestsDisconnected ==
  \A a \in Addr : pc[a] = "waiting" => PeerIdOf[a] \in link

\* "Devuelve una función para detener todo" (diagnostics.ts:127): once stopped,
\* no loop goes into its wait for the next disconnection.
StoppedMeansIdle == stopped => \A a \in Addr : pc[a] # "waiting"

=============================================================================
