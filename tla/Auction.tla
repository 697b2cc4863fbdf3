------------------------------ MODULE Auction ------------------------------
(***************************************************************************)
(* What the offer/bid/assign cycle promises its callers, without           *)
(* collector, deadline or selection rule: every mission opened is settled  *)
(* exactly once, either given up or awarded to a provider that bid for it. *)
(***************************************************************************)

CONSTANTS
  Mission,
  Provider

VARIABLES
  opened,     \* missions offered
  bidders,    \* pairs <<mission, provider>>: who answered which offer
  award,      \* pairs <<mission, provider>>: who got which mission
  abandoned   \* missions settled without a provider

vars == <<opened, bidders, award, abandoned>>

Settled(m) == m \in abandoned \/ \E p \in Provider : <<m, p>> \in award

Init ==
  /\ opened = {}
  /\ bidders = {}
  /\ award = {}
  /\ abandoned = {}

Offer(m) ==
  /\ m \notin opened
  /\ opened' = opened \cup {m}
  /\ UNCHANGED <<bidders, award, abandoned>>

Answer(m, p) ==
  /\ m \in opened
  /\ bidders' = bidders \cup {<<m, p>>}
  /\ UNCHANGED <<opened, award, abandoned>>

Award(m, p) ==
  /\ m \in opened
  /\ ~ Settled(m)
  /\ <<m, p>> \in bidders
  /\ award' = award \cup {<<m, p>>}
  /\ UNCHANGED <<opened, bidders, abandoned>>

Abandon(m) ==
  /\ m \in opened
  /\ ~ Settled(m)
  /\ abandoned' = abandoned \cup {m}
  /\ UNCHANGED <<opened, bidders, award>>

Settle(m) == Abandon(m) \/ \E p \in Provider : Award(m, p)

Next ==
  \E m \in Mission :
    \/ Offer(m)
    \/ Settle(m)
    \/ \E p \in Provider : Answer(m, p)

Spec == Init /\ [][Next]_vars /\ \A m \in Mission : WF_vars(Settle(m))

=============================================================================
