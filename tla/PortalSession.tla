--------------------------- MODULE PortalSession ---------------------------
(***************************************************************************)
(* The sessions of the Navigator with the portals: registerPortalSession   *)
(* (p2p/portal-session.ts) and the EventBus on which the agent's events go  *)
(* round (events/event-bus.ts).                                            *)
(*                                                                         *)
(* Each stream has a loop that reads frames one by one.  A question starts *)
(* work that nobody awaits: OCR, indexing, recommendation of knowledge     *)
(* bases, the run itself.  Its events reach, through the one bus, every    *)
(* stream that bears at that moment the session id of the question.  What  *)
(* that work does is module AgentRun; here it is a step with an outcome.   *)
(* chatCancel changes nothing here: it answers CANCELLED and forgets       *)
(* activeRuntime, which nobody reads, and the run goes on.  A chatRequest   *)
(* that does not end in a message of the user is answered with an error,   *)
(* and changes nothing here either.                                        *)
(***************************************************************************)
EXTENDS Integers, Sequences, SequencesExt

CONSTANTS
  Streams,    \* bound: streams that portals open
  Session,    \* session (conversation) ids
  Questions,  \* bound: chatRequests
  Builds,     \* values of AUTHORIZATION_CONFORMANT considered
  Started     \* preferences that agentStart brings

\* Numbered as they come.
Stream == 1 .. Streams
Question == 1 .. Questions

NoSession == "none"
NoQuestion == 0
NoStream == 0

\* preferences, of which the session itself reads these: a KB chosen by hand, and
\* where the fragments of a document come from.  Before any agentStart: {}.
Preferences == [kb : BOOLEAN, rag : {"local", "network"}]
Unset == [kb |-> FALSE, rag |-> "undefined"]

ASSUME BoundAssumption == Streams \in Nat /\ Questions \in Nat
ASSUME SessionAssumption == NoSession \notin Session
ASSUME BuildsAssumption == Builds \subseteq BOOLEAN
ASSUME StartedAssumption == Started \subseteq Preferences

VARIABLES
  conformant, \* AUTHORIZATION_CONFORMANT
  open,       \* may the stream be written?
  loop,       \* the loop that reads it: "none", "reading", "fetching" or "over"
  sid,        \* sessionId of its handler
  pref,       \* preferences of its handler
  clients,    \* EventBus.clients, in order of insertion
  pending,    \* pendingKbRecommendations of the handler
  job,        \* what each question is going through
  active,     \* how many of its runs are under way
  runs,       \* runs it has started (history)
  withKbs,    \* questions run on knowledge bases (history)
  cards,      \* recommendations on the users' screens, and the streams they came on
  decided,    \* the ones agreed to (history)
  told,       \* questions whose stream got an answer of some kind (history)
  threw,      \* has a send failed? (history)
  dead        \* has a rejection that nobody handles ended the process?

session == <<open, loop, sid, pref, clients>>
work == <<pending, job, active, runs, withKbs, cards, decided>>
heard == <<told, threw>>
vars == <<conformant, session, work, heard, dead>>

NoJob == [at |-> "new", stream |-> NoStream, session |-> NoSession, pref |-> Unset]

Init ==
  /\ conformant \in Builds
  /\ open = [s \in Stream |-> FALSE] /\ loop = [s \in Stream |-> "none"]
  /\ sid = [s \in Stream |-> NoSession] /\ pref = [s \in Stream |-> Unset]
  /\ clients = <<>>
  /\ pending = [s \in Stream |-> [c \in Session |-> NoQuestion]]
  /\ job = [q \in Question |-> NoJob]
  /\ active = [q \in Question |-> 0] /\ runs = [q \in Question |-> 0]
  /\ withKbs = {} /\ cards = {} /\ decided = {}
  /\ told = {}
  /\ threw = FALSE /\ dead = FALSE

-----------------------------------------------------------------------------
(* The bus.                                                                *)

\* emit goes through the clients in order; a stream that cannot be written throws, and
\* those behind it hear nothing.
Throwing(c) == {i \in DOMAIN clients : sid[clients[i]] = c /\ ~ open[clients[i]]}
Throws(c) == Throwing(c) # {}

Slip_Reached(c) ==      \* the first stream only
  {clients[i] : i \in {k \in DOMAIN clients :
     sid[clients[k]] = c /\ \A j \in 1 .. k - 1 : sid[clients[j]] # c}}

Reached(c) ==
  {clients[i] : i \in {k \in DOMAIN clients :
     sid[clients[k]] = c /\ \A j \in Throwing(c) : k < j}}

\* An event of q.  Every one but "delta" is an answer of some kind.
Emit(q, event) ==
  LET c == job[q].session
  IN /\ told' = IF job[q].stream \in Reached(c) /\ event # "delta" THEN told \cup {q} ELSE told
     /\ threw' = (threw \/ Throws(c))

\* sendError: to the stream of the question alone.  It may throw as well.
SendError(q) ==
  LET s == job[q].stream
  IN /\ told' = IF open[s] THEN told \cup {q} ELSE told
     /\ threw' = (threw \/ ~ open[s])

Goes(q, at) == job' = [job EXCEPT ![q].at = at]

-----------------------------------------------------------------------------
(* Streams come and go.                                                    *)

\* The handshake is over: subscribe, and read.
Open(s) ==
  /\ loop[s] = "none" /\ (s > 1 => loop[s - 1] # "none") /\ ~ dead
  /\ open' = [open EXCEPT ![s] = TRUE] /\ loop' = [loop EXCEPT ![s] = "reading"]
  /\ clients' = Append(clients, s)
  /\ UNCHANGED <<conformant, sid, pref, work, heard, dead>>

\* The portal goes away, and its screen.  The loop notices only when it reads.
Closes(s) ==
  /\ open[s] /\ ~ dead
  /\ open' = [open EXCEPT ![s] = FALSE]
  /\ cards' = {card \in cards : card.on # s}
  /\ UNCHANGED <<conformant, loop, sid, pref, clients, pending, job, active, runs, withKbs,
                 decided, heard, dead>>

\* A stream subscribed is there once (TypeOK).
Unsubscribed(s) == RemoveAt(clients, CHOOSE i \in DOMAIN clients : clients[i] = s)

Slip_LoopEnds(s) ==      \* without finally
  /\ loop[s] = "reading" /\ ~ open[s] /\ ~ dead
  /\ loop' = [loop EXCEPT ![s] = "over"]
  /\ UNCHANGED <<conformant, open, sid, pref, clients, work, heard, dead>>

\* finally.
LoopEnds(s) ==
  /\ loop[s] = "reading" /\ ~ open[s] /\ ~ dead
  /\ loop' = [loop EXCEPT ![s] = "over"]
  /\ clients' = Unsubscribed(s)
  /\ UNCHANGED <<conformant, open, sid, pref, work, heard, dead>>

Reads(s) == loop[s] = "reading" /\ open[s] /\ ~ dead

\* agentStart may name another session; what runs in the former goes on.
AgentStart(s, c, p) ==
  /\ Reads(s)
  /\ sid' = [sid EXCEPT ![s] = c]
  /\ pref' = [pref EXCEPT ![s] = p]
  /\ UNCHANGED <<conformant, open, loop, clients, work, heard, dead>>

-----------------------------------------------------------------------------
(* What a question goes through.                                           *)

RunChat(q, kbs) ==
  /\ active' = [active EXCEPT ![q] = @ + 1]
  /\ runs' = [runs EXCEPT ![q] = @ + 1]
  /\ withKbs' = IF kbs THEN withKbs \cup {q} ELSE withKbs

NoRun == UNCHANGED <<active, runs, withKbs>>

\* resolveKbAndChat: without the gate, or with a KB chosen by hand, the run starts.
ResolveKbAndChat(q, p) ==
  IF ~ conformant THEN RunChat(q, FALSE)
  ELSE IF p.kb THEN RunChat(q, TRUE)
  ELSE NoRun

After(p) == IF conformant /\ ~ p.kb THEN "resolve" ELSE "chat"

\* chatRequest.  It fixes the session id if agentStart did not.  With an attachment,
\* the loop waits for its bytes.
ChatRequest(s, q, c, file) ==
  /\ Reads(s) /\ job[q].at = "new" /\ (q > 1 => job[q - 1].at # "new")
  /\ sid[s] \in {c, NoSession}
  /\ sid' = [sid EXCEPT ![s] = c]
  /\ LET j == [at |-> IF file THEN "fetch" ELSE After(pref[s]),
               stream |-> s, session |-> c, pref |-> pref[s]]
     IN job' = [job EXCEPT ![q] = j]
  /\ loop' = IF file THEN [loop EXCEPT ![s] = "fetching"] ELSE loop
  /\ IF file THEN NoRun ELSE ResolveKbAndChat(q, pref[s])
  /\ UNCHANGED <<conformant, open, pref, clients, pending, cards, decided, heard, dead>>

\* artifactRefsToDataUrls.  An error that cannot be sent ends the loop.
Fetched(q) ==
  /\ job[q].at = "fetch" /\ ~ dead
  /\ LET s == job[q].stream
     IN \/ /\ Goes(q, "ocr")
           /\ loop' = [loop EXCEPT ![s] = "reading"] /\ UNCHANGED <<clients, heard>>
        \/ /\ Goes(q, "over") /\ SendError(q)
           /\ loop' = [loop EXCEPT ![s] = IF open[s] THEN "reading" ELSE "over"]
           /\ clients' = IF open[s] THEN clients ELSE Unsubscribed(s)
  /\ NoRun
  /\ UNCHANGED <<conformant, open, sid, pref, pending, cards, decided, dead>>

\* extractOcrText ends.  Text goes to the session, and is indexed if documents are
\* searched in the network.  A send that throws is answered with a sendError, and
\* nobody handles the rejection if that throws too.
OcrEnds(q) ==
  /\ job[q].at = "ocr" /\ ~ dead
  /\ \/ /\ conformant
        /\ Emit(q, "ocr")
        /\ Goes(q, IF Throws(job[q].session) \/ job[q].pref.rag = "local" THEN "over" ELSE "index")
        /\ dead' = (Throws(job[q].session) /\ ~ open[job[q].stream])
     \/ Goes(q, "over") /\ SendError(q) /\ dead' = ~ open[job[q].stream]
  /\ NoRun
  /\ UNCHANGED <<conformant, session, pending, cards, decided>>

\* indexDocumentForRag ends: the question follows, unless there was only the document.
IndexEnds(q) ==
  /\ job[q].at = "index" /\ ~ dead
  /\ LET j == job[q]
     IN \/ Goes(q, "over") /\ NoRun /\ UNCHANGED <<heard, dead>>
        \/ Goes(q, After(j.pref)) /\ ResolveKbAndChat(q, j.pref) /\ UNCHANGED <<heard, dead>>
        \/ Goes(q, "over") /\ NoRun /\ SendError(q) /\ dead' = ~ open[j.stream]
  /\ UNCHANGED <<conformant, session, pending, cards, decided>>

\* resolveKbCandidates ends.  A recommendation that cannot be emitted counts as none,
\* although it stays pending.
Resolved(q) ==
  /\ job[q].at = "resolve" /\ ~ dead
  /\ LET j == job[q]
     IN \/ Goes(q, "chat") /\ RunChat(q, FALSE) /\ UNCHANGED <<pending, cards, heard>>
        \/ /\ pending' = [pending EXCEPT ![j.stream][j.session] = q]
           /\ Emit(q, "recommended")
           /\ cards' = cards \cup {[on |-> s, of |-> q] : s \in Reached(j.session)}
           /\ IF Throws(j.session) THEN Goes(q, "chat") /\ RunChat(q, FALSE)
              ELSE Goes(q, "asking") /\ NoRun
  /\ UNCHANGED <<conformant, session, decided, dead>>

Slip_KbDecision(s, q, use) ==      \* the recommendation is not deleted
  LET card == [on |-> s, of |-> q]
      p == pending[s][job[q].session]
  IN /\ Reads(s) /\ card \in cards
     /\ cards' = cards \ {card}
     /\ decided' = IF use THEN decided \cup {card} ELSE decided
     /\ IF p = NoQuestion THEN job' = job /\ NoRun ELSE Goes(p, "chat") /\ RunChat(p, use)
     /\ UNCHANGED <<conformant, session, pending, heard, dead>>

\* kbDecision: the user answers the card of q, but the message names only its session.
\* What runs is whatever is pending there on that stream: q, a question whose
\* recommendation came after q's, or nothing.
KbDecision(s, q, use) ==
  LET card == [on |-> s, of |-> q]
      c == job[q].session
      p == pending[s][c]
  IN /\ Reads(s) /\ card \in cards
     /\ cards' = cards \ {card}
     /\ decided' = IF use THEN decided \cup {card} ELSE decided
     /\ pending' = [pending EXCEPT ![s][c] = NoQuestion]
     /\ IF p = NoQuestion THEN job' = job /\ NoRun ELSE Goes(p, "chat") /\ RunChat(p, use)
     /\ UNCHANGED <<conformant, session, heard, dead>>

\* The run emits.  If a send throws, run rejects; its catch emits an error, which throws
\* for the same reason, and that rejection is nobody's.
RunEmits(q, event) ==
  /\ active[q] > 0 /\ ~ dead
  /\ Emit(q, event)
  /\ dead' = Throws(job[q].session)
  /\ active' = IF event = "delta" THEN active ELSE [active EXCEPT ![q] = @ - 1]
  /\ UNCHANGED <<conformant, session, pending, job, runs, withKbs, cards, decided>>

Work(q) ==
  \/ Fetched(q) \/ OcrEnds(q) \/ IndexEnds(q) \/ Resolved(q)
  \/ RunEmits(q, "completed") \/ RunEmits(q, "error")

Next ==
  \/ \E s \in Stream : Open(s) \/ Closes(s) \/ LoopEnds(s)
  \/ \E s \in Stream, c \in Session :
       \/ \E p \in Started : AgentStart(s, c, p)
       \/ \E q \in Question, file \in BOOLEAN : ChatRequest(s, q, c, file)
  \/ \E s \in Stream, q \in Question, use \in BOOLEAN : KbDecision(s, q, use)
  \/ \E q \in Question : Work(q) \/ RunEmits(q, "delta")

\* Each method of the agent ends (AgentRun!RunEnds), and so does a fetch.
Spec == Init /\ [][Next]_vars /\ \A q \in Question : WF_vars(Work(q))

-----------------------------------------------------------------------------
(* Properties.                                                             *)

TypeOK ==
  /\ IsInjective(clients) /\ Range(clients) \subseteq Stream
  /\ \A s \in Stream : /\ Contains(clients, s) <=> loop[s] \in {"reading", "fetching"}
                       /\ sid[s] \in Session \cup {NoSession}
                       /\ pending[s] \in [Session -> Question \cup {NoQuestion}]
  /\ \A q \in Question : active[q] <= runs[q]
  /\ cards \cup decided \subseteq [on : Stream, of : Question]
  /\ dead => threw

\* Unless a send fails, a question is answered by one run at most, through OCR, index,
\* recommendation and decision, whichever cards are open and in whatever order they are
\* answered; and by one on knowledge bases only if the user chose them, or agreed on its
\* stream to a card of its session.  That card may be another question's: ConfirmedItself
\* is false.
Agreed(q) == \E card \in decided : card.on = job[q].stream /\ job[card.of].session = job[q].session

RunsOnceAsConfirmed ==
  ~ threw => \A q \in Question :
    /\ runs[q] <= 1
    /\ q \in withKbs => job[q].pref.kb \/ Agreed(q)

\* "Nunca el LLM decide qué KB(s) usar sin que el usuario haya visto y confirmado cuáles
\* se van a consultar" (runtime.ts:253-255): no question is run on knowledge bases
\* whose card, its own, the user did not agree to.
ConfirmedItself ==
  ~ threw => \A q \in withKbs : job[q].pref.kb \/ [on |-> job[q].stream, of |-> q] \in decided

\* Whoever asks on a stream that stays open and bears the session all along, and while
\* no send fails, gets an answer on it: text, an error, a recommendation to decide on.
Busy(q) == job[q].at \in {"fetch", "ocr", "index", "resolve"} \/ active[q] > 0

Stays(q) ==
  job[q].at # "new" => /\ \E s \in Stream : job[q].stream = s /\ open[s] /\ sid[s] = job[q].session
                       /\ ~ threw

EverybodyIsTold == \A q \in Question : []Stays(q) => (Busy(q) ~> q \in told)

=============================================================================
