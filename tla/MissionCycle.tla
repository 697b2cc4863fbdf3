---------------------------- MODULE MissionCycle ----------------------------
(***************************************************************************)
(* The Navigator's market for work: publish a mission offer on GossipSub,  *)
(* collect the bids that come back before a deadline, choose one, publish  *)
(* the assignment (apps/navigator/src/p2p/mission-cycle.ts and the         *)
(* BidCollector of nav-node.ts).                                           *)
(*                                                                         *)
(* The collector is one map shared by every mission in progress; the       *)
(* gateways run missions concurrently, and bids reach the map through a    *)
(* single pubsub handler.  GossipSub may lose a bid, delay it past the     *)
(* deadline, deliver it twice or out of order.                             *)
(***************************************************************************)
EXTENDS Integers, Sequences

CONSTANTS
  Mission,        \* mission ids; each is a fresh randomUUID(), used once
  Provider,       \* provider DIDs
  NoProvider,     \* preferredProviderDid undefined
  TrustLevel,     \* the trustLevel strings a bid may carry
  TrustRank,      \* TRUST_RANK, completed with 0 for every other string
  Reputation,     \* reputationScore values
  Latency,        \* estimatedLatencyMs values
  MaxBids         \* bound: bids one waiter accumulates (duplicates count)

ASSUME NoProviderAssumption == NoProvider \notin Provider
ASSUME RankAssumption == TrustRank \in [TrustLevel -> Nat]
ASSUME ScoreAssumption == Reputation \subseteq Int /\ Latency \subseteq Int
ASSUME BoundAssumption == MaxBids \in Nat

\* MissionBidMessage, reduced to the fields selection reads.
Bid == [mission : Mission, provider : Provider, trust : TrustLevel,
        reputation : Reputation, latency : Latency]

VARIABLES
  phase,      \* where runMissionCycle is for each mission
  preferred,  \* preferredProviderDid the caller passed
  pending,    \* BidCollector.pending: bids of the open waiters
  sent,       \* bids published; any of them may be delivered, again, or never
  heard,      \* bids the pubsub handler got while their mission was open (history)
  assign      \* assignments published, in order (history of the topic)

vars == <<phase, preferred, pending, sent, heard, assign>>

Phases == {"idle", "collecting", "unserved", "assigned"}

Init ==
  /\ phase = [m \in Mission |-> "idle"]
  /\ preferred = [m \in Mission |-> NoProvider]
  /\ pending = [m \in {} |-> <<>>]
  /\ sent = {}
  /\ heard = {}
  /\ assign = <<>>

-----------------------------------------------------------------------------
(* Selection.  (Operators named Slip_ are what a careless change would     *)
(* make of the definition that follows.  Nothing uses them: they show      *)
(* which property would notice.)                                           *)

\* The comparator of selectWinningBid: trust, then reputation, then latency.
Beats(a, b) ==
  \/ TrustRank[a.trust] > TrustRank[b.trust]
  \/ /\ TrustRank[a.trust] = TrustRank[b.trust]
     /\ \/ a.reputation > b.reputation
        \/ a.reputation = b.reputation /\ a.latency < b.latency

\* Array.prototype.sort is stable: the head of the sorted copy is the
\* earliest of the bids nobody beats.
HeadOfSort(bids, i) ==
  /\ \A j \in DOMAIN bids : ~ Beats(bids[j], bids[i])
  /\ \A j \in 1 .. i - 1 : Beats(bids[i], bids[j])

\* bids.find(...): the preferred provider's first bid.
FirstOf(bids, p, i) ==
  /\ bids[i].provider = p
  /\ \A j \in 1 .. i - 1 : bids[j].provider # p

HasBid(bids, p) == \E j \in DOMAIN bids : bids[j].provider = p

Slip_WinsBySort(bids, p, i) ==  \* without the preference
  HeadOfSort(bids, i)

Slip_WinsByArrival(bids, p, i) ==  \* without the sort
  IF HasBid(bids, p) THEN FirstOf(bids, p, i) ELSE i = 1

\* selectWinningBid returns bids[i].
Wins(bids, p, i) ==
  IF HasBid(bids, p) THEN FirstOf(bids, p, i) ELSE HeadOfSort(bids, i)

-----------------------------------------------------------------------------
(* The Navigator.                                                          *)

\* runMissionCycle up to its await: the offer is published and the waiter
\* opened in one turn of the event loop, so no bid can fall in between.
Open(m, p) ==
  /\ phase[m] = "idle"
  /\ phase' = [phase EXCEPT ![m] = "collecting"]
  /\ preferred' = [preferred EXCEPT ![m] = p]
  /\ pending' = [k \in DOMAIN pending \cup {m} |->
                   IF k = m THEN <<>> ELSE pending[k]]
  /\ UNCHANGED <<sent, heard, assign>>

Slip_AddBidToAll(b) ==  \* without looking up the mission's own waiter
  pending' = [m \in DOMAIN pending |-> Append(pending[m], b)]

Slip_AddBidOnce(b) ==  \* duplicates told by their provider, whatever the mission
  pending' = IF b.mission \in DOMAIN pending /\ \A m \in DOMAIN pending : ~ HasBid(pending[m], b.provider)
             THEN [pending EXCEPT ![b.mission] = Append(@, b)]
             ELSE pending

\* BidCollector.addBid: a bid for a mission without a waiter is ignored.
AddBid(b) ==
  pending' = IF b.mission \in DOMAIN pending
             THEN [pending EXCEPT ![b.mission] = Append(@, b)]
             ELSE pending

\* The pubsub handler of TOPIC_MISSIONS_BID.
Deliver(b) ==
  /\ b \in sent
  /\ b.mission \in DOMAIN pending => Len(pending[b.mission]) < MaxBids
  /\ AddBid(b)
  /\ heard' = IF phase[b.mission] = "collecting" THEN heard \cup {b} ELSE heard
  /\ UNCHANGED <<phase, preferred, sent, assign>>

\* The waiter's timer removes it and resolves the promise ...
CloseWaiter(m) == pending' = [k \in DOMAIN pending \ {m} |-> pending[k]]

\* ... and runMissionCycle resumes in the same turn: null without bids, else
\* the winner is assigned.
Deadline(m) ==
  /\ phase[m] = "collecting"
  /\ m \in DOMAIN pending
  /\ CloseWaiter(m)
  /\ \/ /\ pending[m] = <<>>
        /\ phase' = [phase EXCEPT ![m] = "unserved"]
        /\ UNCHANGED assign
     \/ \E i \in DOMAIN pending[m] :
          /\ Wins(pending[m], preferred[m], i)
          /\ phase' = [phase EXCEPT ![m] = "assigned"]
          /\ assign' = Append(assign, pending[m][i])
  /\ UNCHANGED <<preferred, sent, heard>>

-----------------------------------------------------------------------------
(* Providers and the network.  A published bid stays in sent: one that is  *)
(* lost, or dropped because its signature does not verify, is never        *)
(* delivered; a duplicate is delivered twice.                              *)

\* A provider answers an offer; it may be slow, so the mission may be over.
\* One bid per provider and mission (a repeat is a duplicate delivery).
SubmitBid(b) ==
  /\ phase[b.mission] # "idle"
  /\ \A c \in sent : c.mission = b.mission => c.provider # b.provider
  /\ sent' = sent \cup {b}
  /\ UNCHANGED <<phase, preferred, pending, heard, assign>>

Next ==
  \/ \E m \in Mission, p \in Provider \cup {NoProvider} : Open(m, p)
  \/ \E m \in Mission : Deadline(m)
  \/ \E b \in sent : Deliver(b)
  \/ \E b \in Bid : SubmitBid(b)

\* Only the timers are fair: setTimeout fires; bids are owed to nobody.
Fairness == \A m \in Mission : WF_vars(Deadline(m))

Spec == Init /\ [][Next]_vars /\ Fairness

-----------------------------------------------------------------------------
(* Properties.                                                             *)

TypeOK ==
  /\ phase \in [Mission -> Phases]
  /\ preferred \in [Mission -> Provider \cup {NoProvider}]
  /\ DOMAIN pending \subseteq Mission
  /\ pending \in [DOMAIN pending -> Seq(Bid)]
  /\ sent \subseteq Bid
  /\ heard \subseteq sent
  /\ assign \in Seq(Bid)

\* The collector's map holds exactly the missions still collecting: no waiter
\* outlives its deadline, no running mission is without one.
NoWaiterLeak == DOMAIN pending = {m \in Mission : phase[m] = "collecting"}

\* A mission is assigned at most once, and only a finished one is.
AssignedOnce ==
  /\ \A i, j \in DOMAIN assign :
       assign[i].mission = assign[j].mission => i = j
  /\ \A i \in DOMAIN assign : phase[assign[i].mission] = "assigned"

\* Work goes only to a provider that bid for that very mission and whose bid
\* was heard before the deadline, whatever other missions run at the time.
AssignedWasHeard == \A i \in DOMAIN assign : assign[i] \in heard

\* "Si pujó, gana él" (mission-cycle.ts:29): the provider the runtime already
\* announced gets the mission whenever a bid of its own was heard in time.
PreferredServed ==
  \A i \in DOMAIN assign : \A b \in heard :
    LET m == assign[i].mission IN
    b.mission = m /\ b.provider = preferred[m] => assign[i].provider = preferred[m]

\* Otherwise the mission goes to a bid that none heard in time beats.
BestServed ==
  \A i \in DOMAIN assign : \A b \in heard :
    LET m == assign[i].mission IN
    b.mission = m /\ assign[i].provider # preferred[m] => ~ Beats(b, assign[i])

\* The comparator orders any bids that may have come in: whenever the deadline
\* falls, selection finds one winner and only one (a comparator that is not a
\* weak order would leave the head of the sort to the engine's algorithm).
SelectionDecides ==
  \A m \in DOMAIN pending : pending[m] # <<>> =>
    \E i \in DOMAIN pending[m] : \A j \in DOMAIN pending[m] :
      Wins(pending[m], preferred[m], j) <=> i = j

\* A mission is given up only if nobody's bid was heard in time.
UnservedMeansUnheard == \A b \in heard : phase[b.mission] # "unserved"

\* An outcome is final: a bid delivered after the deadline changes neither the
\* mission's end nor the assignment already published.
OutcomeIsFinal ==
  [][ /\ \A m \in Mission : phase[m] \in {"unserved", "assigned"} => phase'[m] = phase[m]
      /\ \A i \in DOMAIN assign : i \in DOMAIN assign' /\ assign'[i] = assign[i]
    ]_vars

-----------------------------------------------------------------------------
(* The promise to the callers, and the mapping that shows it kept.         *)

Pairs(bids) == {<<b.mission, b.provider>> : b \in bids}

Assigned == {assign[i] : i \in DOMAIN assign}

Market == INSTANCE Auction WITH
  opened <- {m \in Mission : phase[m] # "idle"},
  bidders <- Pairs(sent),
  award <- Pairs(Assigned),
  abandoned <- {m \in Mission : phase[m] = "unserved"}

\* The collector, its deadline and the selection rule implement the auction:
\* each offer is settled exactly once, with a provider that answered it.
ImplementsAuction == Market!Spec

=============================================================================
