----------------------------- MODULE Discovery -----------------------------
(***************************************************************************)
(* How the portal finds a Navigator: discoverNavigator of                  *)
(* apps/portal-chat/src/services/p2p-discovery.ts.                         *)
(*                                                                         *)
(* Every bootstrap is dialled at once.  Each announcement received starts  *)
(* a handler of its own, which verifies it, looks its addresses up in the  *)
(* DHT and dials them all at once.  The first dial to succeed settles the  *)
(* promise, unless the timer did; the handlers in flight go on after that. *)
(* A dial does not always open a connection: libp2p returns the one it has *)
(* with the peer, if any, and bootstraps and Navigators may be one peer.   *)
(***************************************************************************)
EXTENDS Naturals

CONSTANTS
  Bootstrap,   \* configured bootstrap addresses
  Advert,      \* announcements that may arrive, each one a message
  Address,     \* multiaddrs announced in them
  Loopback,    \* those that name the browser's own machine
  Kind,        \* what verification makes of an announcement
  Announced,   \* the addresses it carries
  Beacon,      \* the addresses of its node's beacon in the DHT
  Peer, NoPeer,
  PeerOf,      \* whose bootstrap, or whose announcement, it is
  Conn, NoConn \* libp2p connections

ASSUME LoopbackAssumption == Loopback \subseteq Address
ASSUME KindAssumption == Kind \in [Advert -> {"navigator", "other", "invalid"}]
ASSUME AddressAssumption == /\ Announced \in [Advert -> SUBSET Address]
                            /\ Beacon \in [Advert -> SUBSET Address]
ASSUME PeerAssumption == PeerOf \in [Bootstrap \cup Advert -> Peer] /\ NoPeer \notin Peer
ASSUME ConnAssumption == NoConn \notin Conn

VARIABLES
  state,     \* the promise
  reason,    \* what its error says
  blamed,    \* the addresses named in it
  chosen,    \* chosenConnection
  boot,      \* the dial of each bootstrap
  handler,   \* the await the handler of each announcement is in
  dials,     \* dials of announced addresses in flight
  failures,  \* keys of navigatorDialFailures
  open,      \* open connections of the node
  owner,     \* whom each connection made so far is with
  returned,  \* connections that dials of announced addresses returned (history)
  closed     \* connections closed here (history)

promise == <<state, reason, blamed, chosen>>
swarm == <<open, owner, returned, closed>>
vars == <<promise, boot, handler, dials, failures, swarm>>

Places == {"unseen", "verifying", "invalid", "other", "reading", "dialled"}

\* The stage the error names; "" while there is none.
Reasons == {"", "no bootstrap", "bootstrap", "rejected", "others", "silence",
            "unreachable", "incomplete"}

Init ==
  /\ state = IF Bootstrap = {} THEN "failed" ELSE "seeking"
  /\ reason = IF Bootstrap = {} THEN "no bootstrap" ELSE ""
  /\ blamed = {}
  /\ chosen = NoConn
  /\ boot = [b \in Bootstrap |-> "dialling"]
  /\ handler = [a \in Advert |-> "unseen"]
  /\ dials = {}
  /\ failures = {}
  /\ open = {} /\ owner = [c \in Conn |-> NoPeer]
  /\ returned = {} /\ closed = {}

-----------------------------------------------------------------------------
(* Helpers.  (Slip_ operators: what a careless change would make of the    *)
(* definition that follows; nothing uses them.)                            *)

\* finish(error).
Fail(why, addresses) ==
  IF state = "seeking"
  THEN state' = "failed" /\ reason' = why /\ blamed' = addresses /\ UNCHANGED chosen
  ELSE UNCHANGED promise

Connected == \E b \in Bootstrap : boot[b] = "up"

Verified == {a \in Advert : handler[a] \in {"reading", "dialled"}}

\* The addresses that may lead somewhere from this browser, or all if none does.
FromHere(addresses) ==
  IF addresses \subseteq Loopback THEN addresses ELSE addresses \ Loopback

Slip_NotDiscovered ==  \* "No se descubrió un Navigator activo", whatever happened
  IF ~ Connected THEN "bootstrap" ELSE "silence"

\* timeoutMessage.
Stage ==
  IF ~ Connected THEN "bootstrap"
  ELSE IF Verified # {} THEN IF failures # {} THEN "unreachable" ELSE "incomplete"
  ELSE IF \E a \in Advert : handler[a] = "invalid" THEN "rejected"
  ELSE IF \E a \in Advert : handler[a] = "other" THEN "others"
  ELSE "silence"

\* node.dial resolves with c: the connection there is with the peer, or a new one.
Dialled(p, c) ==
  /\ (c \in open /\ owner[c] = p) \/ owner[c] = NoPeer
  /\ owner' = [owner EXCEPT ![c] = p]

-----------------------------------------------------------------------------
(* Bootstraps.                                                             *)

BootstrapUp(b, c) ==
  /\ boot[b] = "dialling"
  /\ boot' = [boot EXCEPT ![b] = "up"]
  /\ Dialled(PeerOf[b], c)
  /\ open' = open \cup {c}
  /\ UNCHANGED <<promise, handler, dials, failures, returned, closed>>

\* The last bootstrap to fail, if none connected, ends the discovery.
BootstrapDown(b) ==
  /\ boot[b] = "dialling"
  /\ boot' = [boot EXCEPT ![b] = "down"]
  /\ IF \A d \in Bootstrap \ {b} : boot[d] = "down" THEN Fail("no bootstrap", {})
     ELSE UNCHANGED promise
  /\ UNCHANGED <<handler, dials, failures, swarm>>

Slip_UntilConnected ==  \* the timer cleared by the first bootstrap
  /\ state = "seeking" /\ ~ Connected
  /\ Fail(Stage, {})
  /\ UNCHANGED <<boot, handler, dials, failures, swarm>>

\* The timer.
Timeout ==
  /\ state = "seeking"
  /\ Fail(Stage, IF Stage = "unreachable" THEN FromHere(failures) ELSE {})
  /\ UNCHANGED <<boot, handler, dials, failures, swarm>>

-----------------------------------------------------------------------------
(* Announcements: handleAdvertise, await by await.                         *)

\* The listener is there until the promise is settled.
Receive(a) ==
  /\ state = "seeking" /\ Connected
  /\ handler[a] = "unseen"
  /\ handler' = [handler EXCEPT ![a] = "verifying"]
  /\ UNCHANGED <<promise, boot, dials, failures, swarm>>

Verify(a) ==
  /\ handler[a] = "verifying"
  /\ handler' = [handler EXCEPT ![a] = IF Kind[a] = "navigator" THEN "reading" ELSE Kind[a]]
  /\ UNCHANGED <<promise, boot, dials, failures, swarm>>

\* readDhtBeacon answers in time or not; the addresses are dialled at once.
ReadBeacon(a, found) ==
  LET announced == IF found /\ Beacon[a] # {} THEN Beacon[a] ELSE Announced[a]
  IN  /\ handler[a] = "reading"
      /\ handler' = [handler EXCEPT ![a] = "dialled"]
      /\ dials' = dials \cup ({a} \X FromHere(announced))
      /\ UNCHANGED <<promise, boot, failures, swarm>>

Slip_CloseEveryLate(c) ==  \* E2E-026: without comparing with the chosen one
  IF state # "seeking" THEN open' = open \ {c} /\ closed' = closed \cup {c} /\ UNCHANGED promise
  ELSE /\ state' = "found" /\ chosen' = c /\ open' = open \cup {c}
       /\ UNCHANGED <<reason, blamed, closed>>

\* The continuation of a dial that succeeded.
Arrive(c) ==
  \/ /\ state = "seeking"
     /\ state' = "found" /\ chosen' = c
     /\ open' = open \cup {c}
     /\ UNCHANGED <<reason, blamed, closed>>
  \/ /\ state # "seeking" /\ c = chosen
     /\ open' = open \cup {c}
     /\ UNCHANGED <<promise, closed>>
  \/ /\ state # "seeking" /\ c # chosen
     /\ open' = open \ {c}
     /\ closed' = closed \cup {c}
     /\ UNCHANGED promise

DialOk(a, x, c) ==
  /\ <<a, x>> \in dials
  /\ dials' = dials \ {<<a, x>>}
  /\ Dialled(PeerOf[a], c)
  /\ returned' = returned \cup {c}
  /\ Arrive(c)
  /\ UNCHANGED <<boot, handler, failures>>

DialFail(a, x) ==
  /\ <<a, x>> \in dials
  /\ dials' = dials \ {<<a, x>>}
  /\ failures' = failures \cup {x}
  /\ UNCHANGED <<promise, boot, handler, swarm>>

\* A connection is lost, by the network or by the other side.
Drop(c) ==
  /\ c \in open
  /\ open' = open \ {c}
  /\ UNCHANGED <<promise, boot, handler, dials, failures, owner, returned, closed>>

Next ==
  \/ Timeout
  \/ \E b \in Bootstrap : BootstrapDown(b) \/ \E c \in Conn : BootstrapUp(b, c)
  \/ \E a \in Advert : Receive(a) \/ Verify(a) \/ \E found \in BOOLEAN : ReadBeacon(a, found)
  \/ \E a \in Advert, x \in Address : DialFail(a, x) \/ \E c \in Conn : DialOk(a, x, c)
  \/ \E c \in Conn : Drop(c)

\* The timer fires.  Nothing else is promised: dials and the DHT may hang.
Spec == Init /\ [][Next]_vars /\ WF_vars(Timeout)

-----------------------------------------------------------------------------
(* Properties.                                                             *)

TypeOK ==
  /\ state \in {"seeking", "found", "failed"}
  /\ reason \in Reasons
  /\ blamed \subseteq Address
  /\ chosen \in Conn \cup {NoConn}
  /\ boot \in [Bootstrap -> {"dialling", "up", "down"}]
  /\ handler \in [Advert -> Places]
  /\ dials \subseteq Advert \X Address
  /\ failures \subseteq Address
  /\ open \subseteq Conn
  /\ owner \in [Conn -> Peer \cup {NoPeer}]
  /\ returned \subseteq Conn /\ closed \subseteq Conn

\* The connection handed to the session is never closed here, neither before nor
\* after, however many addresses resolve to it (E2E-026,
\* docs/historial-incidencias-e2e.md:73).
ChosenIsKept == chosen \notin closed

\* Once settled, no other connection that a dial of an announced address gave is
\* left open: not those of a second Navigator, not one that came after the timer.
OthersAreClosed == state # "seeking" => returned \cap open \subseteq {chosen}

\* It is found exactly if a connection was chosen, and it is one to a verified
\* Navigator.
FoundIsANavigator ==
  /\ (state = "found") <=> (chosen # NoConn)
  /\ state = "found" => \E a \in Verified : Kind[a] = "navigator" /\ owner[chosen] = PeerOf[a]

\* With every bootstrap lost there is nothing to wait for, and with one left there is.
NoBootstrapNoWait ==
  /\ state = "seeking" => \E b \in Bootstrap : boot[b] # "down"
  /\ reason = "no bootstrap" => \A b \in Bootstrap : boot[b] = "down"

\* The promise is settled once; late dials and handlers leave the outcome alone.
SettledIsFinal == [][state # "seeking" => UNCHANGED promise]_vars

\* The error at the timeout names the stage that failed: with a verified Navigator
\* and a dial that failed it names addresses that failed, those of this machine
\* only if no other did; it never blames the announcements then (E2E-025).
BlameIsTrue ==
  [][state = "seeking" /\ state' = "failed" /\ Connected =>
       /\ Verified # {} /\ failures # {} => reason' = "unreachable" /\ blamed' # {}
       /\ reason' = "unreachable" => /\ blamed' \subseteq failures
                                     /\ blamed' \cap Loopback # {} => failures \subseteq Loopback
       /\ reason' \in {"rejected", "others", "silence"} => Verified = {}]_vars

\* Whatever hangs, discovery ends.
DiscoverySettles == state = "seeking" ~> state # "seeking"

=============================================================================
