--------------------------- MODULE NetworkProofs ---------------------------
(***************************************************************************)
(* Proofs about the two ways into the network: Discovery, for any number   *)
(* of bootstraps, announcements, addresses and connections, shared between *)
(* them in any way; and BootstrapKeeper, for any addresses and peers.      *)
(*                                                                         *)
(* In Discovery the point is a connection's identity: one that libp2p      *)
(* makes is new to everything recorded (its owner was nobody), and one it  *)
(* reuses was open.  While the promise is pending no dial has returned;    *)
(* from then on every one returned is the chosen one or is closed in the   *)
(* same step.                                                              *)
(*                                                                         *)
(* In BootstrapKeeper, that a resting loop's peer is connected unless its  *)
(* drop was missed must hold already while the loop awaits the peer store. *)
(* That stop() ends the dialling rests on no loop being asleep once        *)
(* stopped.  The assumption the component makes about its constants is a   *)
(* hypothesis here, where it is instantiated.                              *)
(***************************************************************************)
EXTENDS Discovery, BootstrapKeeper, TLAPS

\* Nothing was returned or closed before the promise was settled.
Untouched == state = "seeking" => returned = {} /\ closed = {} /\ chosen = NoConn

\* Only addresses of Navigators are dialled.
OnlyNavigators ==
  /\ \A a \in Advert : handler[a] \in {"reading", "dialled"} => Kind[a] = "navigator"
  /\ \A d \in dials : handler[d[1]] = "dialled"

\* A connection that was given to anybody has an owner.
Owned == \A c \in open \cup returned : owner[c] # NoPeer

IInv ==
  /\ TypeOK /\ ChosenIsKept /\ OthersAreClosed /\ FoundIsANavigator /\ NoBootstrapNoWait
  /\ Untouched /\ OnlyNavigators /\ Owned
  /\ chosen # NoConn => chosen \in returned

-----------------------------------------------------------------------------

LEMMA InitIsGood == Init => IInv
  <1>. SUFFICES ASSUME Init PROVE IInv
    OBVIOUS
  <1>1. TypeOK
    BY ConnAssumption DEF Init, TypeOK, Reasons, Places
  <1>. QED
    BY <1>1, ConnAssumption
    DEF Init, IInv, ChosenIsKept, OthersAreClosed, FoundIsANavigator, NoBootstrapNoWait,
        Untouched, OnlyNavigators, Owned

LEMMA StageIsNamed == Stage \in Reasons \ {"", "no bootstrap"}
  BY DEF Stage, Reasons

\* A bootstrap's dial: whatever connection it gets, no dialled one is reopened.
LEMMA BootstrapUpKeeps ==
  ASSUME IInv, NEW b \in Bootstrap, NEW c \in Conn, BootstrapUp(b, c)
  PROVE  IInv'
  <1>. USE DEF IInv, BootstrapUp, Dialled, promise
  <1>1. owner[c] = NoPeer => c \notin open \cup returned
    BY DEF Owned
  <1>2. PeerOf[b] \in Peer /\ PeerOf[b] # NoPeer
    BY PeerAssumption
  <1>3. TypeOK'
    BY <1>2 DEF TypeOK
  <1>4. owner'[c] = PeerOf[b] /\ \A d \in Conn \ {c} : owner'[d] = owner[d]
    BY DEF TypeOK
  <1>5. Owned'
    BY <1>2, <1>4 DEF Owned, TypeOK
  <1>6. OthersAreClosed'
    BY <1>1 DEF OthersAreClosed
  <1>7. FoundIsANavigator'
    <2>1. chosen # NoConn => owner'[chosen] = owner[chosen]
      BY <1>1, <1>4 DEF TypeOK
    <2>. QED BY <2>1 DEF FoundIsANavigator, Verified
  <1>8. NoBootstrapNoWait'
    BY DEF NoBootstrapNoWait, TypeOK
  <1>. QED
    BY <1>3, <1>5, <1>6, <1>7, <1>8 DEF ChosenIsKept, Untouched, OnlyNavigators

LEMMA BootstrapDownKeeps ==
  ASSUME IInv, NEW b \in Bootstrap, BootstrapDown(b)
  PROVE  IInv'
  <1>. USE DEF IInv, BootstrapDown, Fail, promise, swarm
  <1>1. TypeOK'
    BY DEF TypeOK, Reasons
  <1>2. NoBootstrapNoWait'
    BY DEF NoBootstrapNoWait, TypeOK
  <1>3. OthersAreClosed' /\ FoundIsANavigator' /\ ChosenIsKept' /\ Untouched'
    BY DEF OthersAreClosed, FoundIsANavigator, ChosenIsKept, Untouched, Verified, TypeOK
  <1>. QED BY <1>1, <1>2, <1>3 DEF OnlyNavigators, Owned

LEMMA TimeoutKeeps ==
  ASSUME IInv, Timeout
  PROVE  IInv'
  <1>. USE DEF IInv, Timeout, Fail, promise, swarm
  <1>1. TypeOK'
    BY StageIsNamed DEF TypeOK, FromHere
  <1>2. NoBootstrapNoWait'
    BY StageIsNamed DEF NoBootstrapNoWait
  <1>3. OthersAreClosed' /\ FoundIsANavigator' /\ ChosenIsKept' /\ Untouched'
    BY DEF OthersAreClosed, FoundIsANavigator, ChosenIsKept, Untouched, Verified, TypeOK
  <1>. QED BY <1>1, <1>2, <1>3 DEF OnlyNavigators, Owned

\* The handler of an announcement, up to its dials.
LEMMA HandlerKeeps ==
  ASSUME IInv, NEW a \in Advert, NEW found \in BOOLEAN,
         Receive(a) \/ Verify(a) \/ ReadBeacon(a, found)
  PROVE  IInv'
  <1>. USE DEF IInv
  <1>1. UNCHANGED <<promise, boot, failures, swarm>>
    BY DEF Receive, Verify, ReadBeacon
  <1>2. TypeOK' /\ OnlyNavigators'
    <2>1. CASE Receive(a)
      BY <2>1 DEF Receive, TypeOK, Places, OnlyNavigators, promise, swarm
    <2>2. CASE Verify(a)
      BY <2>2, KindAssumption DEF Verify, TypeOK, Places, OnlyNavigators, promise, swarm
    <2>3. CASE ReadBeacon(a, found)
      <3>1. FromHere(IF found /\ Beacon[a] # {} THEN Beacon[a] ELSE Announced[a]) \subseteq Address
        BY AddressAssumption DEF FromHere
      <3>2. dials' \subseteq Advert \X Address
        BY <2>3, <3>1 DEF ReadBeacon, TypeOK
      <3>3. handler' = [handler EXCEPT ![a] = "dialled"] /\ handler[a] = "reading"
        BY <2>3 DEF ReadBeacon
      <3>4. \A d \in dials' : d \in dials \/ d[1] = a
        BY <2>3 DEF ReadBeacon
      <3>5. TypeOK'
        BY <1>1, <3>2, <3>3 DEF TypeOK, Places, promise, swarm
      <3>6. OnlyNavigators'
        BY <3>3, <3>4 DEF OnlyNavigators, TypeOK
      <3>. QED BY <3>5, <3>6
    <2>. QED BY <2>1, <2>2, <2>3
  <1>3. Verified \subseteq Verified'
    BY KindAssumption DEF Receive, Verify, ReadBeacon, Verified, TypeOK
  <1>4. FoundIsANavigator'
    BY <1>1, <1>3 DEF FoundIsANavigator, promise, swarm
  <1>. QED
    BY <1>1, <1>2, <1>4 DEF OthersAreClosed, ChosenIsKept, NoBootstrapNoWait, Untouched, Owned, promise, swarm

\* A dial that succeeds: the promise takes its connection, or has it already, or the
\* connection is closed.
LEMMA DialOkKeeps ==
  ASSUME IInv, NEW a \in Advert, NEW x \in Address, NEW c \in Conn, DialOk(a, x, c)
  PROVE  IInv'
  <1>. USE DEF IInv
  <1>1. /\ owner[c] = NoPeer => c \notin open \cup returned
        /\ (c \in open /\ owner[c] = PeerOf[a]) \/ owner[c] = NoPeer
        /\ owner' = [owner EXCEPT ![c] = PeerOf[a]]
        /\ returned' = returned \cup {c}
        /\ dials' = dials \ {<<a, x>>}
        /\ UNCHANGED <<boot, handler, failures>>
    BY DEF DialOk, Dialled, Owned
  <1>2. PeerOf[a] \in Peer /\ PeerOf[a] # NoPeer
    BY PeerAssumption
  <1>3. a \in Verified /\ Kind[a] = "navigator"
    BY DEF DialOk, OnlyNavigators, Verified
  <1>4. owner'[c] = PeerOf[a] /\ \A d \in Conn \ {c} : owner'[d] = owner[d]
    BY <1>1 DEF TypeOK
  <1>5. OnlyNavigators' /\ Verified' = Verified /\ NoConn # c
    BY <1>1, ConnAssumption DEF OnlyNavigators, Verified
  <1>6. CASE state = "seeking"
    <2>1. /\ state' = "found" /\ chosen' = c /\ open' = open \cup {c}
          /\ UNCHANGED <<reason, blamed, closed>>
      BY <1>6 DEF DialOk, Arrive
    <2>2. TypeOK'
      BY <1>1, <1>2, <2>1 DEF TypeOK
    <2>3. ChosenIsKept' /\ OthersAreClosed' /\ Untouched' /\ NoBootstrapNoWait'
      BY <1>1, <1>6, <2>1 DEF ChosenIsKept, OthersAreClosed, Untouched, NoBootstrapNoWait
    <2>4. FoundIsANavigator'
      BY <1>3, <1>4, <1>5, <2>1 DEF FoundIsANavigator
    <2>5. Owned'
      BY <1>1, <1>2, <1>4, <2>1 DEF Owned, TypeOK
    <2>. QED BY <1>1, <1>5, <2>1, <2>2, <2>3, <2>4, <2>5
  <1>7. CASE state # "seeking"
    <2>1. /\ UNCHANGED promise
          /\ \/ c = chosen /\ open' = open \cup {c} /\ UNCHANGED closed
             \/ c # chosen /\ open' = open \ {c} /\ closed' = closed \cup {c}
      BY <1>7 DEF DialOk, Arrive
    <2>2. UNCHANGED <<state, reason, blamed, chosen>>
      BY <2>1 DEF promise
    <2>3. TypeOK'
      BY <1>1, <1>2, <2>1, <2>2 DEF TypeOK
    <2>4. ChosenIsKept' /\ OthersAreClosed' /\ Untouched' /\ NoBootstrapNoWait'
      BY <1>1, <1>7, <2>1, <2>2 DEF ChosenIsKept, OthersAreClosed, Untouched, NoBootstrapNoWait
    <2>5. FoundIsANavigator'
      <3>1. chosen # NoConn => owner'[chosen] = owner[chosen]
        BY <1>1, <1>4 DEF TypeOK
      <3>. QED BY <1>5, <2>2, <3>1 DEF FoundIsANavigator
    <2>6. Owned'
      BY <1>1, <1>2, <1>4, <2>1 DEF Owned, TypeOK
    <2>. QED BY <1>1, <1>5, <2>2, <2>3, <2>4, <2>5, <2>6
  <1>. QED BY <1>6, <1>7

LEMMA LossKeeps ==
  ASSUME IInv,
         \/ \E a \in Advert, x \in Address : DialFail(a, x)
         \/ \E c \in Conn : Drop(c)
         \/ UNCHANGED vars
  PROVE  IInv'
  <1>1. /\ UNCHANGED <<promise, boot, handler, owner, returned, closed>>
        /\ open' \subseteq open /\ dials' \subseteq dials
        /\ failures' \subseteq Address
    BY DEF DialFail, Drop, vars, swarm, IInv, TypeOK
  <1>2. TypeOK'
    BY <1>1 DEF IInv, TypeOK, promise
  <1>. QED
    BY <1>1, <1>2 DEF IInv, OthersAreClosed, ChosenIsKept, FoundIsANavigator, NoBootstrapNoWait,
                      Untouched, OnlyNavigators, Owned, Verified, promise

LEMMA StepIsGood == IInv /\ [Next]_vars => IInv'
  BY BootstrapUpKeeps, BootstrapDownKeeps, TimeoutKeeps, HandlerKeeps, DialOkKeeps, LossKeeps
  DEF Next

THEOREM Invariance == Spec => []IInv
  BY InitIsGood, StepIsGood, PTL DEF Spec

\* The types, for every value of the constants.
THEOREM TypeCorrectness == Spec => []TypeOK
  BY Invariance, PTL DEF IInv

\* Discovery never closes the connection it hands over, whatever the order in which
\* addresses, announcements and bootstraps resolve to it.
THEOREM NeverClosesTheChosen == Spec => []ChosenIsKept
  BY Invariance, PTL DEF IInv

\* It leaves no other Navigator connection open once it is over.
THEOREM ClosesTheOthers == Spec => []OthersAreClosed
  BY Invariance, PTL DEF IInv

\* What it hands over is a connection to a verified Navigator.
THEOREM HandsOverANavigator == Spec => []FoundIsANavigator
  BY Invariance, PTL DEF IInv

\* It gives up at once if and only if every bootstrap failed.
THEOREM GivesUpInTime == Spec => []NoBootstrapNoWait
  BY Invariance, PTL DEF IInv

\* The promise is settled once.
THEOREM SettlesOnce == Spec => SettledIsFinal
  <1>1. IInv /\ [Next]_vars => [state # "seeking" => UNCHANGED promise]_vars
    BY DEF Next, Timeout, BootstrapDown, BootstrapUp, Receive, Verify, ReadBeacon, DialFail,
           DialOk, Arrive, Drop, Fail
  <1>. QED BY <1>1, Invariance, PTL DEF Spec, SettledIsFinal

\* The error at the timeout is about the stage that failed.
THEOREM BlamesTheStage == Spec => BlameIsTrue
  <1>. DEFINE Fair == state = "seeking" /\ state' = "failed" /\ Connected =>
                        /\ Verified # {} /\ failures # {} => reason' = "unreachable" /\ blamed' # {}
                        /\ reason' = "unreachable" => /\ blamed' \subseteq failures
                                                      /\ blamed' \cap Loopback # {} => failures \subseteq Loopback
                        /\ reason' \in {"rejected", "others", "silence"} => Verified = {}
  <1>1. ASSUME IInv, Next PROVE Fair
    <2>1. CASE Timeout
      <3>1. state' = "failed" => reason' = Stage
                                 /\ blamed' = IF Stage = "unreachable" THEN FromHere(failures) ELSE {}
        BY <2>1 DEF Timeout, Fail, promise
      <3>2. failures # {} => FromHere(failures) # {}
        BY DEF FromHere
      <3>. QED BY <3>1, <3>2 DEF Stage, FromHere
    <2>2. ASSUME NEW b \in Bootstrap, BootstrapDown(b) PROVE Fair
      <3>1. ~ (state = "seeking" /\ state' = "failed" /\ Connected)
        BY <2>2 DEF BootstrapDown, Connected, promise
      <3>. QED BY <3>1
    <2>3. ASSUME state' # "failed" \/ state' = state PROVE Fair
      BY <2>3
    <2>4. \A a \in Advert, x \in Address, c \in Conn : DialOk(a, x, c) => state' # "failed" \/ state' = state
      BY DEF DialOk, Arrive, promise
    <2>. QED
      BY <1>1, <2>1, <2>2, <2>3, <2>4
      DEF Next, BootstrapUp, Receive, Verify, ReadBeacon, DialFail, Drop, promise
  <1>2. IInv /\ [Next]_vars => [Fair]_vars
    BY <1>1
  <1>. QED BY <1>2, Invariance, PTL DEF Spec, BlameIsTrue

-----------------------------------------------------------------------------
(* The keeper's loops.                                                     *)

\* What holds from the dial's success on, and not only while resting.
ConnectedOrMissed ==
  \A a \in Addr : pc[a] \in {"marking", "waiting"} =>
    PeerIdOf[a] \in PeerId /\ (PeerIdOf[a] \in link \/ a \in missed)

\* stop() wakes every sleeper, and whoever is refused later does not sleep.
NoSleeperOnceStopped == stopped => \A a \in Addr : pc[a] # "sleeping"

\* maintain() returns at once for an address multiaddr() rejects.
InvalidIsDone == \A a \in Addr : PeerIdOf[a] = Invalid => pc[a] = "done"

KeeperIInv == KeeperTypeOK /\ ConnectedOrMissed /\ NoSleeperOnceStopped /\ InvalidIsDone

-----------------------------------------------------------------------------

LEMMA KeeperInitIsGood == KeeperInit => KeeperIInv
  BY PeerIdAssumption DEF KeeperInit, KeeperIInv, KeeperTypeOK, LoopPlaces,
         ConnectedOrMissed, NoSleeperOnceStopped, InvalidIsDone

\* One loop's own steps.
LEMMA LoopStep ==
  ASSUME KeeperIInv, NEW a \in Addr,
         LoopDialOk(a) \/ LoopDialFail(a) \/ Retry(a) \/ Listen(a)
  PROVE  KeeperIInv'
  <1>. USE DEF KeeperIInv, KeeperTypeOK, LoopPlaces, Goto, ConnectedOrMissed,
              NoSleeperOnceStopped, InvalidIsDone
  <1>1. CASE LoopDialOk(a)
    <2>1. PeerIdOf[a] \in PeerId \cup {NoPeerId} /\ NoPeerId \notin PeerId
      BY <1>1, PeerIdAssumption DEF LoopDialOk
    <2>2. KeeperTypeOK' /\ NoSleeperOnceStopped' /\ InvalidIsDone'
      BY <1>1 DEF LoopDialOk
    <2>3. ConnectedOrMissed'
      BY <1>1, <2>1 DEF LoopDialOk
    <2>. QED BY <2>2, <2>3
  <1>2. CASE LoopDialFail(a)
    BY <1>2 DEF LoopDialFail
  <1>3. CASE Retry(a)
    BY <1>3 DEF Retry
  <1>4. CASE Listen(a)
    BY <1>4 DEF Listen
  <1>. QED BY <1>1, <1>2, <1>3, <1>4

\* A drop moves every loop that hears it and marks every loop that cannot.
LEMMA LinkDownStep ==
  ASSUME KeeperIInv, NEW p \in PeerId, LinkDown(p)
  PROVE  KeeperIInv'
  <1>. USE DEF KeeperIInv, LinkDown, Hear
  <1>1. KeeperTypeOK' /\ NoSleeperOnceStopped' /\ InvalidIsDone'
    BY DEF KeeperTypeOK, LoopPlaces, NoSleeperOnceStopped, InvalidIsDone
  <1>2. ASSUME NEW a \in Addr, pc'[a] \in {"marking", "waiting"}
        PROVE  PeerIdOf[a] \in PeerId /\ (PeerIdOf[a] \in link' \/ a \in missed')
    <2>1. pc'[a] = pc[a] /\ a \notin Hear(p)
      BY <1>2 DEF KeeperTypeOK
    <2>2. PeerIdOf[a] \in PeerId /\ (PeerIdOf[a] \in link \/ a \in missed)
      BY <1>2, <2>1 DEF ConnectedOrMissed
    <2>3. CASE PeerIdOf[a] = p
      BY <1>2, <2>1, <2>2, <2>3
    <2>4. CASE PeerIdOf[a] # p
      BY <2>1, <2>2, <2>4
    <2>. QED BY <2>3, <2>4
  <1>. QED BY <1>1, <1>2 DEF ConnectedOrMissed

LEMMA KeeperStep == KeeperIInv /\ [KeeperNext]_keeper => KeeperIInv'
  <1>. SUFFICES ASSUME KeeperIInv, [KeeperNext]_keeper PROVE KeeperIInv'
    OBVIOUS
  <1>1. CASE \E a \in Addr : LoopDialOk(a) \/ LoopDialFail(a) \/ Retry(a) \/ Listen(a)
    BY <1>1, LoopStep
  <1>2. CASE \E p \in PeerId : LinkDown(p)
    BY <1>2, LinkDownStep
  <1>3. CASE \E p \in PeerId : LinkUp(p)
    BY <1>3 DEF LinkUp, KeeperIInv, KeeperTypeOK, ConnectedOrMissed, NoSleeperOnceStopped,
                InvalidIsDone
  <1>4. CASE Stop
    BY <1>4 DEF Stop, KeeperIInv, KeeperTypeOK, LoopPlaces, ConnectedOrMissed,
                NoSleeperOnceStopped, InvalidIsDone
  <1>5. CASE UNCHANGED keeper
    BY <1>5 DEF keeper, KeeperIInv, KeeperTypeOK, ConnectedOrMissed, NoSleeperOnceStopped, InvalidIsDone
  <1>. QED BY <1>1, <1>2, <1>3, <1>4, <1>5 DEF KeeperNext

LEMMA KeeperInvariance == KeeperSpec => []KeeperIInv
  <1>1. KeeperInit => KeeperIInv
    BY KeeperInitIsGood
  <1>2. KeeperIInv /\ [KeeperNext]_keeper => KeeperIInv'
    BY KeeperStep
  <1>. QED BY <1>1, <1>2, PTL DEF KeeperSpec

-----------------------------------------------------------------------------

\* The loops, the flag and the links stay what they are declared to be.
THEOREM KeeperTypeCorrect ==
  KeeperSpec => []KeeperTypeOK
  <1>1. KeeperIInv => KeeperTypeOK
    BY DEF KeeperIInv
  <1>. QED BY <1>1, KeeperInvariance, PTL

\* A loop of dialBootstraps rests only while its peer is connected, but for a
\* drop between the dial and the listener; for any number of addresses, any of
\* which may share a peer.
THEOREM LoopsRestConnected ==
  KeeperSpec => []RestsOnlyConnected
  <1>1. KeeperIInv => RestsOnlyConnected
    BY DEF KeeperIInv, ConnectedOrMissed, RestsOnlyConnected
  <1>. QED BY <1>1, KeeperInvariance, PTL

\* After stop() no loop of dialBootstraps begins another dial or backoff.
THEOREM StopIsEffective ==
  KeeperSpec => StopEndsDialling
  <1>1. KeeperIInv /\ [KeeperNext]_keeper =>
          [stopped => \A a \in Addr : pc'[a] \in {"dialing", "sleeping"}
                        => pc'[a] = pc[a] /\ pc[a] = "dialing"]_keeper
    <2>. SUFFICES ASSUME KeeperIInv, KeeperNext, stopped, NEW a \in Addr,
                         pc'[a] \in {"dialing", "sleeping"}
                  PROVE  pc'[a] = pc[a] /\ pc[a] = "dialing"
      OBVIOUS
    <2>. USE DEF KeeperIInv, KeeperTypeOK, LoopPlaces, NoSleeperOnceStopped
    <2>1. CASE \E b \in Addr : LoopDialOk(b) \/ LoopDialFail(b) \/ Retry(b) \/ Listen(b)
      BY <2>1 DEF LoopDialOk, LoopDialFail, Retry, Listen, Goto
    <2>2. CASE \E p \in PeerId : LinkDown(p) \/ LinkUp(p)
      BY <2>2 DEF LinkDown, LinkUp, Hear
    <2>3. CASE Stop
      BY <2>3 DEF Stop
    <2>. QED BY <2>1, <2>2, <2>3 DEF KeeperNext
  <1>. QED BY <1>1, KeeperInvariance, PTL DEF KeeperSpec, StopEndsDialling
=============================================================================
