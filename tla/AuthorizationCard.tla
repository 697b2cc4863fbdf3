------------------------- MODULE AuthorizationCard -------------------------
(***************************************************************************)
(* The cards with which the portal asks the user for permission: toggleItem *)
(* and decisionsFor of services/authorization.ts, addAuthorizationCard,     *)
(* resolveAuthorizationCard and the status queries of                       *)
(* components/chat-view.ts.                                                 *)
(*                                                                         *)
(* A card lives in three places that nothing keeps together: the map        *)
(* authorizationCards (from the request to its final outcome), an interval  *)
(* that counts down, and the page, from which any redrawing of the messages *)
(* removes it.  The Navigator that grants the permissions is environment.   *)
(***************************************************************************)
EXTENDS Integers, Sequences, FiniteSetsExt

CONSTANTS
  Request,       \* authorizations that may be requested, by id
  Item,          \* the items of a request
  Dependencies,  \* what the items of a request may depend on
  MaxFailures    \* bound: failed messages waiting for a retry

ASSUME ItemAssumption == Item # {} /\ IsFiniteSet(Item)
ASSUME DependenciesAssumption == Dependencies \subseteq [Item -> SUBSET Item]
ASSUME BoundAssumption == MaxFailures \in Nat

VARIABLES
  place,     \* "none", "asking", "decided" (both in the map) or "done"
  needs,     \* dependsOn of the items of each request
  selected,  \* the items marked
  page,      \* is the card on the page?
  allow,     \* is each of the two buttons enabled?
  deny,
  label,     \* what the countdown says
  late,      \* is the deadline over?
  sent,      \* decisions sent (history)
  ready,     \* is the session with the Navigator open?
  turn,      \* is a message pending?
  failed,    \* failed messages
  outcome,   \* has the Navigator a final outcome?
  asked,     \* status requests under way to it
  mail       \* final outcomes under way from it

card == <<place, needs, selected, page, allow, deny, label, late, sent>>
view == <<ready, turn, failed>>
navigator == <<outcome, asked, mail>>
vars == <<card, view, navigator>>

\* The requests in authorizationCards.
Pending == {r \in Request : place[r] \in {"asking", "decided"}}

Init ==
  /\ place = [r \in Request |-> "none"]
  /\ needs = [r \in Request |-> [i \in Item |-> {}]]
  /\ selected = [r \in Request |-> {}]
  /\ page = [r \in Request |-> FALSE]
  /\ allow = [r \in Request |-> FALSE] /\ deny = [r \in Request |-> FALSE]
  /\ label = [r \in Request |-> ""]
  /\ late = [r \in Request |-> FALSE]
  /\ sent = [r \in Request |-> <<>>]
  /\ ready = TRUE /\ turn = FALSE /\ failed = 0
  /\ outcome = [r \in Request |-> FALSE] /\ asked = {} /\ mail = {}

-----------------------------------------------------------------------------
(* The selection.  (Slip_ operators: what a careless change would make of  *)
(* the definition that follows; nothing uses them.)                        *)

\* S holds what its items outside `marked` depend on.
Reaches(d, marked, S) == \A j \in S \ marked : d[j] \subseteq S

\* S holds no item that depends on one of `marked` outside S.
Stands(d, marked, S) == \A j \in S : d[j] \cap marked \subseteq S

Slip_MarkDirect(d, marked, i) ==  \* the dependencies, without theirs
  marked \cup {i} \cup d[i]

\* toggleItem(on): the least addition that reaches everything i depends on.
Mark(d, marked, i) ==
  {j \in Item : \A S \in SUBSET Item :
                  marked \cup {i} \subseteq S /\ Reaches(d, marked, S) => j \in S}

Slip_UnmarkOne(d, marked, i) == marked \ {i}

\* toggleItem(off): the most that stands without i.
Unmark(d, marked, i) == UNION {S \in SUBSET (marked \ {i}) : Stands(d, marked, S)}

\* The two as toggleItem writes them: `add` and `remove` call themselves on what an item
\* depends on, and on what depends on it.
Add(d, marked, i) ==
  LET add[a \in (SUBSET Item) \X Item] ==
        LET next == a[1]  id == a[2]
        IN IF id \in next THEN next
           ELSE FoldSet(LAMBDA dependency, acc : add[<<acc, dependency>>], next \cup {id}, d[id])
  IN add[<<marked, i>>]

Remove(d, marked, i) ==
  LET remove[a \in (SUBSET Item) \X Item] ==
        LET next == a[1]  id == a[2]
        IN IF id \notin next THEN next
           ELSE FoldSet(LAMBDA item, acc : IF id \in d[item] THEN remove[<<acc, item>>] ELSE acc,
                        next \ {id}, Item)
  IN remove[<<marked, i>>]

-----------------------------------------------------------------------------
(* The user.                                                               *)

\* The change event of a check box; they are disabled by a decision only.
Toggle(r, i) ==
  /\ place[r] = "asking" /\ page[r]
  /\ selected' = [selected EXCEPT ![r] = IF i \in @ THEN Unmark(needs[r], @, i)
                                         ELSE Mark(needs[r], @, i)]
  /\ allow' = [allow EXCEPT ![r] = selected'[r] # {}]
  /\ UNCHANGED <<place, needs, page, deny, label, late, sent, view, navigator>>

Slip_DecideAgain(r, yes) ==  \* the buttons left enabled
  /\ place[r] \in {"asking", "decided"} /\ page[r]
  /\ IF yes THEN allow[r] ELSE deny[r]
  /\ place' = [place EXCEPT ![r] = "decided"]
  /\ label' = [label EXCEPT ![r] = "sending"]
  /\ sent' = IF ready THEN [sent EXCEPT ![r] = Append(@, [yes |-> yes, items |->
                                                          IF yes THEN selected[r] ELSE {}])]
             ELSE sent
  /\ UNCHANGED <<needs, selected, page, allow, deny, late, view, navigator>>

\* decide(): a decision made without a session is not sent, now or later.
Decide(r, yes) ==
  /\ place[r] \in {"asking", "decided"} /\ page[r]
  /\ IF yes THEN allow[r] ELSE deny[r]
  /\ place' = [place EXCEPT ![r] = "decided"]
  /\ allow' = [allow EXCEPT ![r] = FALSE] /\ deny' = [deny EXCEPT ![r] = FALSE]
  /\ label' = [label EXCEPT ![r] = "sending"]
  /\ sent' = IF ready THEN [sent EXCEPT ![r] = Append(@, [yes |-> yes, items |->
                                                          IF yes THEN selected[r] ELSE {}])]
             ELSE sent
  /\ UNCHANGED <<needs, selected, page, late, view, navigator>>

-----------------------------------------------------------------------------
(* Time.                                                                   *)

Deadline(r) ==
  /\ r \in Pending /\ ~ late[r]
  /\ late' = [late EXCEPT ![r] = TRUE]
  /\ UNCHANGED <<place, needs, selected, page, allow, deny, label, sent, view, navigator>>

\* The interval, which runs once a second until the final outcome.
Tick(r) ==
  /\ r \in Pending
  /\ label' = [label EXCEPT ![r] = IF late[r] THEN "expired" ELSE "left"]
  /\ allow' = [allow EXCEPT ![r] = @ /\ ~ late[r]]
  /\ deny' = [deny EXCEPT ![r] = @ /\ ~ late[r]]
  /\ UNCHANGED <<place, needs, selected, page, late, sent, view, navigator>>

-----------------------------------------------------------------------------
(* Events of the session.                                                  *)

\* "authorization.requested": every item starts marked.
Requested(r, d) ==
  /\ ready /\ place[r] = "none"
  /\ place' = [place EXCEPT ![r] = "asking"]
  /\ needs' = [needs EXCEPT ![r] = d]
  /\ selected' = [selected EXCEPT ![r] = Item]
  /\ page' = [page EXCEPT ![r] = TRUE]
  /\ allow' = [allow EXCEPT ![r] = TRUE] /\ deny' = [deny EXCEPT ![r] = TRUE]
  /\ label' = [label EXCEPT ![r] = "left"]
  /\ UNCHANGED <<late, sent, view, navigator>>

\* "authorization.resolved" with a final outcome: written into the card, wherever that
\* is; an outcome for no card of the map is put on the page in a card of its own.
Resolved(r) ==
  /\ r \in mail
  /\ mail' = mail \ {r}
  /\ place' = [place EXCEPT ![r] = "done"]
  /\ page' = [page EXCEPT ![r] = @ \/ r \notin Pending]
  /\ allow' = [allow EXCEPT ![r] = FALSE] /\ deny' = [deny EXCEPT ![r] = FALSE]
  /\ label' = [label EXCEPT ![r] = ""]
  /\ UNCHANGED <<needs, selected, late, sent, view, outcome, asked>>

Slip_NoStatus ==  \* without the status requests
  /\ ~ ready
  /\ ready' = TRUE
  /\ UNCHANGED <<card, turn, failed, navigator>>

\* "connected": the cards of the map are asked about.
SessionUp ==
  /\ ~ ready
  /\ ready' = TRUE
  /\ asked' = Pending
  /\ UNCHANGED <<card, turn, failed, outcome, mail>>

SessionDown ==
  /\ ready
  /\ ready' = FALSE
  /\ asked' = {} /\ mail' = {}
  /\ UNCHANGED <<card, turn, failed, outcome>>

-----------------------------------------------------------------------------
(* The turn, as far as the page is concerned.                              *)

Submit ==
  /\ ~ turn
  /\ turn' = TRUE
  /\ UNCHANGED <<card, ready, failed, navigator>>

\* "error" marks the message and draws all messages again, and only messages.
Fail ==
  /\ turn /\ failed < MaxFailures
  /\ turn' = FALSE
  /\ failed' = failed + 1
  /\ page' = [r \in Request |-> FALSE]
  /\ UNCHANGED <<place, needs, selected, allow, deny, label, late, sent, ready, navigator>>

\* A retry draws them again if it removes an incomplete answer.
Retry(incomplete) ==
  /\ ~ turn /\ failed > 0
  /\ turn' = TRUE
  /\ failed' = failed - 1
  /\ page' = IF incomplete THEN [r \in Request |-> FALSE] ELSE page
  /\ UNCHANGED <<place, needs, selected, allow, deny, label, late, sent, ready, navigator>>

Complete ==
  /\ turn
  /\ turn' = FALSE
  /\ UNCHANGED <<card, ready, failed, navigator>>

-----------------------------------------------------------------------------
(* The Navigator.                                                          *)

\* It decides, expires or cancels, and says so if there is a session.
Settle(r) ==
  /\ place[r] # "none" /\ ~ outcome[r]
  /\ outcome' = [outcome EXCEPT ![r] = TRUE]
  /\ mail' = IF ready THEN mail \cup {r} ELSE mail
  /\ UNCHANGED <<card, view, asked>>

\* Asked for the status, it answers; the portal ignores PENDING.
Answer(r) ==
  /\ r \in asked
  /\ asked' = asked \ {r}
  /\ mail' = IF outcome[r] THEN mail \cup {r} ELSE mail
  /\ UNCHANGED <<card, view, outcome>>

Next ==
  \/ SessionUp \/ SessionDown
  \/ Submit \/ Fail \/ Complete \/ \E incomplete \in BOOLEAN : Retry(incomplete)
  \/ \E r \in Request :
       \/ \E d \in Dependencies : Requested(r, d)
       \/ \E i \in Item : Toggle(r, i)
       \/ \E yes \in BOOLEAN : Decide(r, yes)
       \/ Deadline(r) \/ Tick(r) \/ Resolved(r) \/ Settle(r) \/ Answer(r)

\* Time passes and the interval fires; the Navigator settles and answers, and what it
\* says arrives while the session lasts.  Nothing is assumed of user and session.
Fairness ==
  \A r \in Request : /\ WF_vars(Deadline(r)) /\ WF_vars(Tick(r))
                     /\ WF_vars(Settle(r)) /\ WF_vars(Answer(r)) /\ WF_vars(Resolved(r))

Spec == Init /\ [][Next]_vars /\ Fairness

-----------------------------------------------------------------------------
(* Properties.                                                             *)

Decision == [yes : BOOLEAN, items : SUBSET Item]

TypeOK ==
  /\ place \in [Request -> {"none", "asking", "decided", "done"}]
  /\ needs \in [Request -> [Item -> SUBSET Item]]
  /\ selected \in [Request -> SUBSET Item]
  /\ page \in [Request -> BOOLEAN]
  /\ allow \in [Request -> BOOLEAN] /\ deny \in [Request -> BOOLEAN]
  /\ label \in [Request -> {"", "left", "sending", "expired"}]
  /\ late \in [Request -> BOOLEAN]
  /\ sent \in [Request -> Seq(Decision)]
  /\ ready \in BOOLEAN /\ turn \in BOOLEAN /\ failed \in 0 .. MaxFailures
  /\ outcome \in [Request -> BOOLEAN]
  /\ asked \subseteq Request /\ mail \subseteq Request

Closed(d, S) == \A i \in S : d[i] \subseteq S

\* However the boxes were ticked, no decision allows an item without all it depends on
\* ("marcar un ítem marca de qué depende; desmarcar uno desmarca lo que depende de él",
\* authorization.ts:140).
DecisionsAreClosed ==
  \A r \in Request : \A n \in 1 .. Len(sent[r]) : Closed(needs[r], sent[r][n].items)

\* Whatever depends on what, cycles included: marking and unmarking an item give what
\* the two recursions of toggleItem compute.
TogglesLikeTheCode ==
  \A r \in Request : place[r] = "asking" => \A i \in Item :
    IF i \in selected[r]
    THEN Unmark(needs[r], selected[r], i) = Remove(needs[r], selected[r], i)
    ELSE Mark(needs[r], selected[r], i) = Add(needs[r], selected[r], i)

\* A card sends one decision, whatever happens to buttons, boxes and countdown.
DecidesOnce == \A r \in Request : Len(sent[r]) <= 1

\* "Autorizar lo seleccionado" never sends a decision that allows nothing.
AllowIsNotEmpty ==
  \A r \in Request : \A n \in 1 .. Len(sent[r]) : sent[r][n].yes => sent[r][n].items # {}

\* "Tras reconectar, las autorizaciones pendientes se consultan en vez de quedar
\* ambiguas" (chat-view.ts:1232): an outcome lost with a session is learnt in the next.
OutcomeIsLearnt == <>[] ready => \A r \in Request : r \in Pending ~> r \notin Pending

\* The same comment, of the page: an outcome asked for after a reconnection is for a
\* card that the user has before him.
FetchedOutcomeIsShown ==
  [][\A r \in Request : r \in asked \ asked' /\ ready' /\ outcome[r] => page[r]]_vars

\* "Venció; no se envió nada." (chat-view.ts:1482)
ExpiredMeansNothingSent == \A r \in Request : label[r] = "expired" => sent[r] = <<>>

=============================================================================
