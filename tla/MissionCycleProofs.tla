------------------------- MODULE MissionCycleProofs -------------------------
(***************************************************************************)
(* Proofs about MissionCycle, for any missions, providers and bids.        *)
(*                                                                         *)
(* The safety invariants relate published assignments to the bids heard in *)
(* time, but the code reads the winner from the waiter's array; so the     *)
(* inductive invariant IInv adds that an open waiter holds exactly what    *)
(* was heard for its mission, and that nothing is heard for an idle one.   *)
(* That selection has one answer is a fact about the comparator: it is a   *)
(* strict weak order, and a finite list has one head under it.             *)
(***************************************************************************)
EXTENDS MissionCycle, FiniteSetTheorems, TLAPS

\* An open waiter holds bids of its own mission only, each heard in time ...
PendingWasHeard ==
  \A m \in DOMAIN pending : \A i \in DOMAIN pending[m] :
    pending[m][i] \in heard /\ pending[m][i].mission = m

\* ... and all of them: no bid heard in time is dropped or overwritten.
HeardIsPending ==
  \A b \in heard : b.mission \in DOMAIN pending =>
    \E i \in DOMAIN pending[b.mission] : pending[b.mission][i] = b

HeardWasOpen == \A b \in heard : phase[b.mission] # "idle"

IInv ==
  /\ TypeOK
  /\ NoWaiterLeak
  /\ PendingWasHeard
  /\ HeardIsPending
  /\ HeardWasOpen
  /\ AssignedOnce
  /\ AssignedWasHeard
  /\ PreferredServed
  /\ BestServed
  /\ UnservedMeansUnheard

-----------------------------------------------------------------------------

\* Appending to a sequence keeps its elements and adds one at the end.
LEMMA AppendFacts ==
  ASSUME NEW S, NEW s \in Seq(S), NEW e \in S
  PROVE  /\ Append(s, e) \in Seq(S)
         /\ DOMAIN Append(s, e) = DOMAIN s \cup {Len(s) + 1}
         /\ \A i \in DOMAIN s : Append(s, e)[i] = s[i] /\ i # Len(s) + 1
         /\ Append(s, e)[Len(s) + 1] = e
  OBVIOUS

\* Type correctness of every step.
LEMMA TypeOKStep == TypeOK /\ [Next]_vars => TypeOK'
<1> SUFFICES ASSUME TypeOK, [Next]_vars PROVE TypeOK'
  OBVIOUS
<1> USE DEF TypeOK
<1>1. ASSUME NEW m \in Mission, NEW p \in Provider \cup {NoProvider}, Open(m, p)
      PROVE  TypeOK'
  BY <1>1 DEF Open, Phases
<1>2. ASSUME NEW m \in Mission, Deadline(m)
      PROVE  TypeOK'
  <2>1. pending' \in [DOMAIN pending' -> Seq(Bid)] /\ DOMAIN pending' \subseteq Mission
    BY <1>2 DEF Deadline, CloseWaiter
  <2>2. assign' \in Seq(Bid)
    <3>1. CASE UNCHANGED assign
      BY <3>1
    <3>2. CASE \E i \in DOMAIN pending[m] : assign' = Append(assign, pending[m][i])
      <4>1. PICK i \in DOMAIN pending[m] : assign' = Append(assign, pending[m][i])
        BY <3>2
      <4>2. pending[m] \in Seq(Bid)
        BY <1>2 DEF Deadline
      <4>3. pending[m][i] \in Bid
        BY <4>2
      <4> QED
        BY <4>1, <4>3, AppendFacts
    <3> QED
      BY <1>2, <3>1, <3>2 DEF Deadline
  <2>3. phase' \in [Mission -> Phases]
    BY <1>2 DEF Deadline, Phases
  <2> QED
    BY <1>2, <2>1, <2>2, <2>3 DEF Deadline
<1>3. ASSUME NEW b \in sent, Deliver(b)
      PROVE  TypeOK'
  <2>1. b \in Bid /\ b.mission \in Mission
    BY DEF Bid
  <2>2. pending' \in [DOMAIN pending' -> Seq(Bid)] /\ DOMAIN pending' \subseteq Mission
    BY <1>3, <2>1, AppendFacts DEF Deliver, AddBid
  <2> QED
    BY <1>3, <2>1, <2>2 DEF Deliver
<1>4. ASSUME NEW b \in Bid, SubmitBid(b)
      PROVE  TypeOK'
  BY <1>4 DEF SubmitBid
<1>5. CASE UNCHANGED vars
  BY <1>5 DEF vars
<1> QED
  BY <1>1, <1>2, <1>3, <1>4, <1>5 DEF Next

\* The state of the market is always well typed: the collector's map never
\* holds anything but bids, under ids of this Navigator's missions.
THEOREM TypeCorrect == Spec => []TypeOK
<1>1. Init => TypeOK
  BY DEF Init, TypeOK, Phases, Bid
<1> QED
  BY <1>1, TypeOKStep, PTL DEF Spec

-----------------------------------------------------------------------------
(* The inductive step, one lemma per action.                               *)

LEMMA OpenStep ==
  ASSUME IInv, NEW m \in Mission, NEW p \in Provider \cup {NoProvider}, Open(m, p)
  PROVE  IInv'
<1> USE DEF Open
<1>1. TypeOK'
  BY TypeOKStep DEF IInv, Next
<1>2. m \notin DOMAIN pending /\ DOMAIN pending' = DOMAIN pending \cup {m}
  BY DEF IInv, NoWaiterLeak
<1>3. pending'[m] = <<>> /\ \A k \in DOMAIN pending : pending'[k] = pending[k]
  BY <1>2
<1>4. \A b \in heard : b.mission \in Mission /\ b.mission # m
  BY DEF IInv, TypeOK, HeardWasOpen, Bid
<1>5. NoWaiterLeak'
  BY <1>2 DEF IInv, TypeOK, NoWaiterLeak, Phases
<1>6. PendingWasHeard'
  BY <1>2, <1>3 DEF IInv, PendingWasHeard
<1>7. HeardIsPending'
  BY <1>2, <1>3, <1>4 DEF IInv, HeardIsPending
<1>8. HeardWasOpen' /\ UnservedMeansUnheard'
  BY <1>4 DEF IInv, TypeOK, HeardWasOpen, UnservedMeansUnheard
<1>9. \A i \in DOMAIN assign : assign[i].mission \in Mission /\ assign[i].mission # m
  <2>1. \A i \in DOMAIN assign : assign[i] \in Bid
    BY DEF IInv, TypeOK
  <2> QED
    BY <2>1 DEF IInv, AssignedOnce, Bid
<1>10. AssignedOnce' /\ AssignedWasHeard'
  BY <1>9 DEF IInv, TypeOK, AssignedOnce, AssignedWasHeard
<1>11. PreferredServed' /\ BestServed'
  BY <1>9 DEF IInv, TypeOK, PreferredServed, BestServed, Beats
<1> QED
  BY <1>1, <1>5, <1>6, <1>7, <1>8, <1>10, <1>11 DEF IInv

LEMMA DeliverStep ==
  ASSUME IInv, NEW b \in sent, Deliver(b)
  PROVE  IInv'
<1> DEFINE m == b.mission
<1> USE DEF Deliver
<1>1. TypeOK'
  BY TypeOKStep DEF IInv, Next
<1>2. b \in Bid /\ m \in Mission
  BY DEF IInv, TypeOK, Bid
<1>3. m \in DOMAIN pending <=> phase[m] = "collecting"
  BY <1>2 DEF IInv, NoWaiterLeak
<1>4. CASE m \notin DOMAIN pending
  <2>1. UNCHANGED vars
    BY <1>2, <1>3, <1>4 DEF vars, AddBid
  <2> QED
    BY <2>1 DEF vars, IInv, TypeOK, NoWaiterLeak, PendingWasHeard, HeardIsPending,
       HeardWasOpen, AssignedOnce, AssignedWasHeard, PreferredServed, BestServed,
       UnservedMeansUnheard, Beats
<1>5. CASE m \in DOMAIN pending
  <2>1. heard' = heard \cup {b} /\ phase[m] = "collecting"
    BY <1>3, <1>5
  <2>2. /\ DOMAIN pending' = DOMAIN pending
        /\ pending'[m] = Append(pending[m], b)
        /\ \A k \in DOMAIN pending \ {m} : pending'[k] = pending[k]
    BY <1>5 DEF AddBid
  <2>3. pending[m] \in Seq(Bid)
    BY <1>5 DEF IInv, TypeOK
  <2>4. /\ DOMAIN pending'[m] = DOMAIN pending[m] \cup {Len(pending[m]) + 1}
        /\ \A i \in DOMAIN pending[m] : pending'[m][i] = pending[m][i]
        /\ pending'[m][Len(pending[m]) + 1] = b
    BY <1>2, <2>2, <2>3, AppendFacts
  <2>5. NoWaiterLeak'
    BY <2>2 DEF IInv, NoWaiterLeak
  <2>6. PendingWasHeard'
    BY <2>1, <2>2, <2>4 DEF IInv, PendingWasHeard
  <2>7. HeardIsPending'
    <3> SUFFICES ASSUME NEW c \in heard', c.mission \in DOMAIN pending
                 PROVE  \E i \in DOMAIN pending'[c.mission] : pending'[c.mission][i] = c
      BY <2>2 DEF HeardIsPending
    <3>1. CASE c = b
      BY <3>1, <2>4
    <3>2. CASE c \in heard /\ c.mission = m
      BY <3>2, <2>4 DEF IInv, HeardIsPending
    <3>3. CASE c \in heard /\ c.mission # m
      BY <3>3, <2>2 DEF IInv, HeardIsPending
    <3> QED
      BY <2>1, <3>1, <3>2, <3>3
  <2>8. HeardWasOpen' /\ UnservedMeansUnheard'
    BY <2>1 DEF IInv, HeardWasOpen, UnservedMeansUnheard
  <2>9. AssignedOnce' /\ AssignedWasHeard'
    BY <2>1 DEF IInv, AssignedOnce, AssignedWasHeard
  <2>10. \A i \in DOMAIN assign : assign[i].mission # m
    BY <2>1 DEF IInv, AssignedOnce
  <2>11. PreferredServed' /\ BestServed'
    BY <2>1, <2>10 DEF IInv, PreferredServed, BestServed, Beats
  <2> QED
    BY <1>1, <2>5, <2>6, <2>7, <2>8, <2>9, <2>11 DEF IInv
<1> QED
  BY <1>4, <1>5

LEMMA SubmitStep ==
  ASSUME IInv, NEW b \in Bid, SubmitBid(b)
  PROVE  IInv'
<1>1. TypeOK'
  BY TypeOKStep DEF IInv, Next
<1> QED
  BY <1>1 DEF SubmitBid, IInv, NoWaiterLeak, PendingWasHeard, HeardIsPending,
     HeardWasOpen, AssignedOnce, AssignedWasHeard, PreferredServed, BestServed,
     UnservedMeansUnheard, Beats

\* Whatever bid selection returns, if the preferred provider has one in the
\* array the winner is the preferred provider, and otherwise nothing beats it.
LEMMA WinnerFacts ==
  ASSUME NEW s \in Seq(Bid), NEW p, NEW i \in DOMAIN s, Wins(s, p, i)
  PROVE  /\ HasBid(s, p) => s[i].provider = p
         /\ s[i].provider # p => \A j \in DOMAIN s : ~ Beats(s[j], s[i])
  BY DEF Wins, HasBid, FirstOf, HeadOfSort

LEMMA DeadlineStep ==
  ASSUME IInv, NEW m \in Mission, Deadline(m)
  PROVE  IInv'
<1>1. TypeOK'
  BY TypeOKStep DEF IInv, Next
<1>2. /\ m \in DOMAIN pending /\ phase[m] = "collecting"
      /\ DOMAIN pending' = DOMAIN pending \ {m}
      /\ \A k \in DOMAIN pending' : pending'[k] = pending[k]
      /\ UNCHANGED <<preferred, sent, heard>>
  BY DEF Deadline, CloseWaiter
<1>3. pending[m] \in Seq(Bid)
  BY <1>2 DEF IInv, TypeOK
<1>4. /\ phase'[m] \in {"unserved", "assigned"}
      /\ \A k \in Mission \ {m} : phase'[k] = phase[k]
  BY DEF Deadline, IInv, TypeOK
<1>5. \A b \in heard : b.mission \in Mission
  BY DEF IInv, TypeOK, Bid
<1>6. NoWaiterLeak'
  BY <1>2, <1>4 DEF IInv, NoWaiterLeak
<1>7. PendingWasHeard' /\ HeardIsPending'
  BY <1>2 DEF IInv, PendingWasHeard, HeardIsPending
<1>8. HeardWasOpen'
  BY <1>2, <1>4, <1>5 DEF IInv, HeardWasOpen
<1>9. \A i \in DOMAIN assign : assign[i].mission \in Mission \ {m}
  <2>1. \A i \in DOMAIN assign : assign[i] \in Bid
    BY DEF IInv, TypeOK
  <2> QED
    BY <1>2, <2>1 DEF IInv, AssignedOnce, Bid
<1>10. CASE pending[m] = <<>> /\ phase'[m] = "unserved" /\ UNCHANGED assign
  <2>1. UnservedMeansUnheard'
    BY <1>2, <1>4, <1>5, <1>10 DEF IInv, HeardIsPending, UnservedMeansUnheard
  <2>2. AssignedOnce' /\ AssignedWasHeard'
    BY <1>2, <1>4, <1>9, <1>10 DEF IInv, AssignedOnce, AssignedWasHeard
  <2>3. PreferredServed' /\ BestServed'
    BY <1>2, <1>10 DEF IInv, PreferredServed, BestServed, Beats
  <2> QED
    BY <1>1, <1>6, <1>7, <1>8, <2>1, <2>2, <2>3 DEF IInv
<1>11. CASE \E i \in DOMAIN pending[m] :
              /\ Wins(pending[m], preferred[m], i)
              /\ phase' = [phase EXCEPT ![m] = "assigned"]
              /\ assign' = Append(assign, pending[m][i])
  <2>1. PICK i \in DOMAIN pending[m] :
              /\ Wins(pending[m], preferred[m], i)
              /\ phase' = [phase EXCEPT ![m] = "assigned"]
              /\ assign' = Append(assign, pending[m][i])
    BY <1>11
  <2> DEFINE w == pending[m][i]
             n == Len(assign) + 1
  <2>2. w \in heard /\ w.mission = m
    BY <1>2 DEF IInv, PendingWasHeard
  <2>3. /\ DOMAIN assign' = DOMAIN assign \cup {n}
        /\ \A j \in DOMAIN assign : assign'[j] = assign[j] /\ j # n
        /\ assign'[n] = w
    <3>1. w \in Bid /\ assign \in Seq(Bid)
      BY <2>2 DEF IInv, TypeOK
    <3> QED
      BY <2>1, <3>1, AppendFacts
  <2>4. UnservedMeansUnheard'
    BY <1>2, <1>4, <1>5, <2>1 DEF IInv, TypeOK, UnservedMeansUnheard
  <2>5. AssignedOnce'
    <3>1. phase'[m] = "assigned"
      BY <2>1 DEF IInv, TypeOK
    <3> QED
      BY <1>4, <1>9, <2>2, <2>3, <3>1 DEF IInv, AssignedOnce
  <2>6. AssignedWasHeard'
    BY <1>2, <2>2, <2>3 DEF IInv, AssignedWasHeard
  <2>7. \A b \in heard : b.mission = m =>
          \E j \in DOMAIN pending[m] : pending[m][j] = b
    BY <1>2 DEF IInv, HeardIsPending
  <2>8. \A b \in heard : b.mission = m =>
          /\ b.provider = preferred[m] => w.provider = preferred[m]
          /\ w.provider # preferred[m] => ~ Beats(b, w)
    BY <1>3, <2>1, <2>7, WinnerFacts DEF HasBid
  <2>9. PreferredServed'
    BY <1>2, <2>2, <2>3, <2>8 DEF IInv, PreferredServed
  <2>10. BestServed'
    BY <1>2, <2>2, <2>3, <2>8 DEF IInv, BestServed, Beats
  <2> QED
    BY <1>1, <1>6, <1>7, <1>8, <2>4, <2>5, <2>6, <2>9, <2>10 DEF IInv
<1> QED
  BY <1>10, <1>11, <1>4 DEF Deadline, IInv, TypeOK

LEMMA IInvStep == IInv /\ [Next]_vars => IInv'
<1> SUFFICES ASSUME IInv, [Next]_vars PROVE IInv'
  OBVIOUS
<1>1. CASE UNCHANGED vars
  BY <1>1 DEF vars, IInv, TypeOK, NoWaiterLeak, PendingWasHeard, HeardIsPending,
     HeardWasOpen, AssignedOnce, AssignedWasHeard, PreferredServed, BestServed,
     UnservedMeansUnheard, Beats
<1> QED
  BY <1>1, OpenStep, DeliverStep, SubmitStep, DeadlineStep DEF Next

LEMMA InductiveInvariant == Spec => []IInv
<1>1. Init => IInv
  BY DEF Init, IInv, TypeOK, Phases, Bid, NoWaiterLeak, PendingWasHeard,
     HeardIsPending, HeardWasOpen, AssignedOnce, AssignedWasHeard,
     PreferredServed, BestServed, UnservedMeansUnheard
<1> QED
  BY <1>1, IInvStep, PTL DEF Spec

-----------------------------------------------------------------------------
(* What the Navigator's callers rely on.                                   *)

\* The collector keeps a waiter for a mission exactly while it is collecting.
THEOREM WaitersDoNotLeak == Spec => []NoWaiterLeak
  BY InductiveInvariant, PTL DEF IInv

\* However many missions share the collector and however late or often bids
\* arrive, each is assigned at most once, to a bid of its own heard in time.
THEOREM AssignmentIsSound == Spec => [](AssignedOnce /\ AssignedWasHeard)
  BY InductiveInvariant, PTL DEF IInv

\* The provider announced to the user serves the mission if it bid in time;
\* if it did not, the mission goes to a bid no other one beats.
THEOREM SelectionIsRight == Spec => [](PreferredServed /\ BestServed)
  BY InductiveInvariant, PTL DEF IInv

\* The provider announced aside, the mission goes to a bid that no bid heard in time
\* beats: the sort of selectWinningBid looks at all of them.
THEOREM BestBidIsServed == Spec => []BestServed
  BY InductiveInvariant, PTL DEF IInv

-----------------------------------------------------------------------------
(* The comparator.  An array sorted by it has one head, whatever the bids. *)

\* A finite set that a strict order R orders has an element with none before it.
LEMMA SomethingIsFirst ==
  ASSUME NEW D, IsFiniteSet(D), D # {}, NEW R,
         \A a \in D : <<a, a>> \notin R,
         \A a, b, c \in D : <<a, b>> \in R /\ <<b, c>> \in R => <<a, c>> \in R
  PROVE  \E i \in D : \A j \in D : <<j, i>> \notin R
<1> DEFINE Ahead(x) == {y \in D : <<y, x>> \in R}
           fronts == {Ahead(x) : x \in D}
<1>1. fronts \subseteq FiniteSubsetsOf(D)
  <2>1. \A x \in D : Ahead(x) \in SUBSET D
    OBVIOUS
  <2>2. \A x \in D : IsFiniteSet(Ahead(x))
    <3> HIDE DEF Ahead
    <3> QED BY <2>1, FS_Subset
  <2> HIDE DEF Ahead
  <2> QED BY <2>1, <2>2 DEF FiniteSubsetsOf
<1>2. PICK I \in fronts : \A J \in fronts : <<J, I>> \notin StrictSubsetOrdering(D)
  <2> HIDE DEF fronts
  <2>1. fronts # {} => \E I \in fronts : \A J \in fronts : ~ (<<J, I>> \in StrictSubsetOrdering(D))
    BY <1>1, FS_StrictSubsetOrderingWellFounded, WFMin, Zenon
  <2>2. fronts # {}
    <3> HIDE DEF Ahead
    <3> QED BY DEF fronts
  <2> QED BY <2>1, <2>2
<1>3. PICK x \in D : I = Ahead(x)
  BY <1>2
<1>4. ASSUME NEW y \in D, <<y, x>> \in R PROVE FALSE
  <2>1. Ahead(y) \in fronts /\ Ahead(y) \subseteq I /\ y \in I /\ y \notin Ahead(y)
    BY <1>3, <1>4
  <2>2. <<Ahead(y), I>> \in StrictSubsetOrdering(D)
    BY <2>1, <1>3 DEF StrictSubsetOrdering
  <2> QED BY <1>2, <2>1, <2>2
<1> QED
  BY <1>4

\* Beats is a strict weak order: bids that do not beat each other can stand for each
\* other.
LEMMA BeatsOrders ==
  ASSUME NEW a \in Bid, NEW b \in Bid, NEW c \in Bid
  PROVE  /\ ~ Beats(a, a)
         /\ Beats(a, b) => ~ Beats(b, a)
         /\ Beats(a, b) /\ Beats(b, c) => Beats(a, c)
         /\ Beats(a, b) /\ ~ Beats(c, b) => Beats(a, c)
         /\ ~ Beats(b, a) /\ Beats(b, c) => Beats(a, c)
<1>1. \A x \in {a, b, c} : /\ TrustRank[x.trust] \in Int
                           /\ x.reputation \in Int /\ x.latency \in Int
  <2>1. \A x \in Bid : x.trust \in TrustLevel /\ x.reputation \in Reputation /\ x.latency \in Latency
    BY DEF Bid
  <2>2. \A x \in Bid : TrustRank[x.trust] \in Nat
    BY <2>1, RankAssumption
  <2>3. \A x \in Bid : x.reputation \in Int /\ x.latency \in Int
    BY <2>1, ScoreAssumption
  <2> QED BY <2>2, <2>3
<1> QED
  BY <1>1 DEF Beats

\* So the stable sort of a list of bids has one head ...
LEMMA SortHasOneHead ==
  ASSUME NEW s \in Seq(Bid), s # <<>>
  PROVE  \E i \in DOMAIN s : \A j \in DOMAIN s : HeadOfSort(s, j) <=> i = j
<1> DEFINE D == DOMAIN s
           Before(i, j) == Beats(s[i], s[j]) \/ (~ Beats(s[j], s[i]) /\ i < j)
           R == {x \in D \X D : Before(x[1], x[2])}
<1>1. D = 1 .. Len(s) /\ Len(s) \in Nat /\ D # {} /\ IsFiniteSet(D) /\ \A i \in D : s[i] \in Bid
  <2>1. D = 1 .. Len(s) /\ Len(s) \in Nat /\ Len(s) # 0 /\ \A i \in D : s[i] \in Bid
    OBVIOUS
  <2>2. 1 \in 1 .. Len(s) /\ IsFiniteSet(1 .. Len(s))
    BY <2>1, FS_Interval
  <2> QED BY <2>1, <2>2
<1>2. \A i, j \in D : <<i, j>> \in R <=> Before(i, j)
  OBVIOUS
<1>3. \A i \in D : ~ Before(i, i)
  BY <1>1, BeatsOrders
<1>4. \A i, j, k \in D : Before(i, j) /\ Before(j, k) => Before(i, k)
  <2> SUFFICES ASSUME NEW i \in D, NEW j \in D, NEW k \in D, Before(i, j), Before(j, k)
              PROVE  Before(i, k)
    OBVIOUS
  <2>1. s[i] \in Bid /\ s[j] \in Bid /\ s[k] \in Bid
    BY <1>1
  <2>2. /\ Beats(s[i], s[j]) /\ Beats(s[j], s[k]) => Beats(s[i], s[k])
        /\ Beats(s[i], s[j]) /\ ~ Beats(s[k], s[j]) => Beats(s[i], s[k])
        /\ ~ Beats(s[j], s[i]) /\ Beats(s[j], s[k]) => Beats(s[i], s[k])
        /\ Beats(s[k], s[i]) /\ ~ Beats(s[j], s[i]) => Beats(s[k], s[j])
    BY <2>1, BeatsOrders
  <2>3. i < j /\ j < k => i < k
    BY <1>1
  <2> QED BY <2>2, <2>3
<1>5. PICK i \in D : \A j \in D : ~ Before(j, i)
  <2> HIDE DEF Before, D
  <2>1. \A a, b, c \in D : <<a, b>> \in R /\ <<b, c>> \in R => <<a, c>> \in R
    BY <1>4
  <2>2. \A a \in D : <<a, a>> \notin R
    BY <1>3
  <2> HIDE DEF R
  <2>3. \E i \in D : \A j \in D : <<j, i>> \notin R
    <3>1. D # {} /\ IsFiniteSet(D)
      BY <1>1
    <3> QED BY <2>1, <2>2, <3>1, SomethingIsFirst
  <2> QED BY <1>2, <2>3
<1>6. HeadOfSort(s, i)
  <2>1. \A j \in D : ~ Beats(s[j], s[i]) /\ (j < i => Beats(s[i], s[j]))
    BY <1>5
  <2>2. \A j \in 1 .. i - 1 : j \in D /\ j < i
    BY <1>1
  <2> QED BY <2>1, <2>2 DEF HeadOfSort
<1>7. ASSUME NEW j \in D, HeadOfSort(s, j) PROVE i = j
  <2>1. ~ Beats(s[i], s[j]) /\ ~ Beats(s[j], s[i])
    BY <1>6, <1>7 DEF HeadOfSort
  <2>2. i < j => i \in 1 .. j - 1
    BY <1>1
  <2>3. j < i => j \in 1 .. i - 1
    BY <1>1
  <2>4. ~ (i < j) /\ ~ (j < i)
    BY <1>6, <1>7, <2>1, <2>2, <2>3 DEF HeadOfSort
  <2> QED BY <1>1, <2>4
<1> QED
  BY <1>6, <1>7

\* ... and a list in which the preferred provider bids has one first bid of it.
LEMMA OneFirstBid ==
  ASSUME NEW s \in Seq(Bid), NEW p, HasBid(s, p)
  PROVE  \E i \in DOMAIN s : \A j \in DOMAIN s : FirstOf(s, p, j) <=> i = j
<1> DEFINE D == {i \in DOMAIN s : s[i].provider = p}
           R == {x \in D \X D : x[1] < x[2]}
<1>1. DOMAIN s = 1 .. Len(s) /\ Len(s) \in Nat
  OBVIOUS
<1>2. D # {} /\ D \subseteq DOMAIN s /\ IsFiniteSet(D)
  <2>1. D # {} /\ D \in SUBSET DOMAIN s
    BY DEF HasBid
  <2>2. IsFiniteSet(DOMAIN s)
    BY <1>1, FS_Interval
  <2> QED BY <2>1, <2>2, FS_Subset
<1>3. /\ \A a \in D : <<a, a>> \notin R
      /\ \A a, b, c \in D : <<a, b>> \in R /\ <<b, c>> \in R => <<a, c>> \in R
      /\ \A a, b \in D : <<a, b>> \notin R => ~ (a < b)
  <2> D \subseteq Nat
    BY <1>1, <1>2
  <2> QED OBVIOUS
<1>4. PICK i \in D : \A j \in D : <<j, i>> \notin R
  <2> HIDE DEF D, R
  <2> QED BY <1>2, <1>3, SomethingIsFirst
<1>5. FirstOf(s, p, i)
  <2>1. \A j \in D : ~ (j < i)
    BY <1>3, <1>4
  <2>2. \A j \in 1 .. i - 1 : j \in DOMAIN s /\ j < i
    BY <1>1
  <2> QED BY <2>1, <2>2 DEF FirstOf
<1>6. ASSUME NEW j \in DOMAIN s, FirstOf(s, p, j) PROVE i = j
  BY <1>1, <1>5, <1>6 DEF FirstOf
<1> QED
  BY <1>5, <1>6

\* Whenever the deadline falls, selectWinningBid has one answer and only one: neither
\* the lookup of the preferred provider nor the head of the sort depends on how the
\* engine sorts, for any ranks, reputations and latencies that are numbers.
THEOREM SelectionIsDecided == Spec => []SelectionDecides
<1>1. ASSUME TypeOK, NEW m \in DOMAIN pending, pending[m] # <<>>
      PROVE  \E i \in DOMAIN pending[m] : \A j \in DOMAIN pending[m] :
               Wins(pending[m], preferred[m], j) <=> i = j
  <2>1. pending[m] \in Seq(Bid)
    BY <1>1 DEF TypeOK
  <2>2. CASE HasBid(pending[m], preferred[m])
    BY <2>1, <2>2, OneFirstBid DEF Wins
  <2>3. CASE ~ HasBid(pending[m], preferred[m])
    BY <1>1, <2>1, <2>3, SortHasOneHead DEF Wins
  <2> QED BY <2>2, <2>3
<1>2. TypeOK => SelectionDecides
  BY <1>1 DEF SelectionDecides
<1> QED
  BY <1>2, TypeCorrect, PTL

\* "No provider available" is never the answer when one was heard in time.
THEOREM GivenUpOnlyWhenUnheard == Spec => []UnservedMeansUnheard
  BY InductiveInvariant, PTL DEF IInv

\* An outcome never changes: the assignments published only grow, and a mission
\* that ended stays ended, whatever is delivered afterwards.
THEOREM OutcomesAreFinal == Spec => OutcomeIsFinal
<1> DEFINE Final ==
      /\ \A m \in Mission : phase[m] \in {"unserved", "assigned"} => phase'[m] = phase[m]
      /\ \A i \in DOMAIN assign : i \in DOMAIN assign' /\ assign'[i] = assign[i]
<1>1. IInv /\ [Next]_vars => [Final]_vars
  <2> SUFFICES ASSUME IInv, Next PROVE Final
    OBVIOUS
  <2> USE DEF IInv, TypeOK
  <2>1. ASSUME NEW m \in Mission, NEW p \in Provider \cup {NoProvider}, Open(m, p)
        PROVE  Final
    BY <2>1 DEF Open
  <2>2. ASSUME NEW m \in Mission, Deadline(m)
        PROVE  Final
    <3>1. \A k \in Mission : phase[k] \in {"unserved", "assigned"} => phase'[k] = phase[k]
      BY <2>2 DEF Deadline
    <3>2. \A i \in DOMAIN assign : i \in DOMAIN assign' /\ assign'[i] = assign[i]
      <4>1. CASE UNCHANGED assign
        BY <4>1
      <4>2. CASE \E i \in DOMAIN pending[m] : assign' = Append(assign, pending[m][i])
        <5>1. pending[m] \in Seq(Bid)
          BY <2>2 DEF Deadline
        <5> QED
          BY <4>2, <5>1, AppendFacts
      <4> QED
        BY <2>2, <4>1, <4>2 DEF Deadline
    <3> QED
      BY <3>1, <3>2
  <2>3. ASSUME NEW b \in sent, Deliver(b)
        PROVE  Final
    BY <2>3 DEF Deliver
  <2>4. ASSUME NEW b \in Bid, SubmitBid(b)
        PROVE  Final
    BY <2>4 DEF SubmitBid
  <2> QED
    BY <2>1, <2>2, <2>3, <2>4 DEF Next
<1> QED
  BY <1>1, InductiveInvariant, PTL DEF Spec, OutcomeIsFinal

-----------------------------------------------------------------------------
(* Refinement: every step of the market is a step of the auction or none.  *)

LEMMA AuctionStep == IInv /\ [Next]_vars => [Market!Next]_(Market!vars)
<1> SUFFICES ASSUME IInv, [Next]_vars PROVE [Market!Next]_(Market!vars)
  OBVIOUS
<1> USE DEF IInv, TypeOK, Market!vars, Pairs, Assigned
<1>1. ASSUME NEW m \in Mission, NEW p \in Provider \cup {NoProvider}, Open(m, p)
      PROVE  Market!Offer(m)
  BY <1>1 DEF Open, Market!Offer
<1>2. ASSUME NEW m \in Mission, Deadline(m)
      PROVE  Market!Settle(m)
  <2>1. /\ m \in {k \in Mission : phase[k] # "idle"}
        /\ \A k \in Mission \ {m} : phase'[k] = phase[k]
        /\ UNCHANGED sent
    BY <1>2 DEF Deadline
  <2>2. {k \in Mission : phase'[k] # "idle"} = {k \in Mission : phase[k] # "idle"}
    BY <1>2, <2>1 DEF Deadline
  <2>3. ~ Market!Settled(m)
    BY <1>2 DEF Deadline, Market!Settled, AssignedOnce
  <2>4. CASE pending[m] = <<>> /\ phase'[m] = "unserved" /\ UNCHANGED assign
    <3>1. {k \in Mission : phase'[k] = "unserved"} = {k \in Mission : phase[k] = "unserved"} \cup {m}
      BY <2>1, <2>4
    <3> QED
      BY <2>1, <2>2, <2>3, <2>4, <3>1 DEF Market!Settle, Market!Abandon
  <2>5. CASE phase'[m] = "assigned" /\ \E i \in DOMAIN pending[m] : assign' = Append(assign, pending[m][i])
    <3>1. PICK i \in DOMAIN pending[m] : assign' = Append(assign, pending[m][i])
      BY <2>5
    <3> DEFINE w == pending[m][i]
    <3>2. w \in heard /\ w \in Bid /\ w \in sent /\ w.mission = m /\ w.provider \in Provider
      BY <1>2 DEF Deadline, PendingWasHeard, Bid
    <3>3. Assigned' = Assigned \cup {w}
      <4>1. /\ DOMAIN assign' = DOMAIN assign \cup {Len(assign) + 1}
            /\ \A j \in DOMAIN assign : assign'[j] = assign[j]
            /\ assign'[Len(assign) + 1] = w
        BY <3>1, <3>2, AppendFacts
      <4> QED
        BY <4>1
    <3>4. Pairs(Assigned)' = Pairs(Assigned) \cup {<<m, w.provider>>}
      BY <3>2, <3>3
    <3>5. {k \in Mission : phase'[k] = "unserved"} = {k \in Mission : phase[k] = "unserved"}
      BY <1>2, <2>1, <2>5 DEF Deadline
    <3>6. <<m, w.provider>> \in Pairs(sent)
      BY <3>2
    <3>7. PICK p \in Provider : p = w.provider
      BY <3>2
    <3>8. Market!Award(m, p)
      BY <2>1, <2>2, <2>3, <3>4, <3>5, <3>6, <3>7 DEF Market!Award
    <3> QED
      BY <3>8 DEF Market!Settle
  <2> QED
    BY <1>2, <2>4, <2>5 DEF Deadline
<1>3. ASSUME NEW b \in sent, Deliver(b)
      PROVE  UNCHANGED Market!vars
  BY <1>3 DEF Deliver
<1>4. ASSUME NEW b \in Bid, SubmitBid(b)
      PROVE  \E m \in Mission, p \in Provider : Market!Answer(m, p)
  <2>1. PICK m \in Mission, p \in Provider : m = b.mission /\ p = b.provider
    BY DEF Bid
  <2>2. Pairs(sent)' = Pairs(sent) \cup {<<b.mission, b.provider>>}
    BY <1>4 DEF SubmitBid
  <2>3. Market!Answer(m, p)
    BY <1>4, <2>1, <2>2 DEF SubmitBid, Market!Answer
  <2> QED
    BY <2>3
<1>5. CASE UNCHANGED vars
  BY <1>5 DEF vars
<1> QED
  BY <1>1, <1>2, <1>3, <1>4, <1>5 DEF Next, Market!Next

\* The collector, its deadline and the selection rule refine the auction: each
\* offer is settled at most once and only with a provider that answered it.
\* (That it is settled at all needs the timers, and is left to TLC.)
THEOREM RefinesAuction == Spec => Market!Init /\ [][Market!Next]_(Market!vars)
<1>1. Init => Market!Init
  BY DEF Init, Market!Init, Pairs, Assigned
<1> QED
  BY <1>1, AuctionStep, InductiveInvariant, PTL DEF Spec

=============================================================================
