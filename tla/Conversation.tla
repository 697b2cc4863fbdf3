---------------------------- MODULE Conversation ----------------------------
(***************************************************************************)
(* The conversations of the chat view: the one on screen, the history kept *)
(* in the browser, and the switches from one to another while requests,    *)
(* events and work on documents are under way                              *)
(* (apps/portal-chat/src/components/chat-view.ts, services/chat-history.ts).*)
(*                                                                         *)
(* A connection is here its life as seen by the view (PortalConnection has *)
(* its inside, ChatTurn a turn on it): every conversation shown gets its   *)
(* own, and the handlers of all of them are the same handleEvent.  Closing *)
(* one stops neither an opening under way nor the frames already read      *)
(* (services/api.ts: only the generation is compared, and close() does not *)
(* advance it), so a closed connection may still speak.                    *)
(*                                                                         *)
(* Time: updatedAt is Date.now(), which is taken not to go back, so that   *)
(* sorting by it is moving the conversation just written to the front.     *)
(* A save that throws (storage full or disabled) is left out.              *)
(***************************************************************************)
EXTENDS Integers, Sequences, SequencesExt, FiniteSets

CONSTANTS
  Text,             \* user messages
  NoText,           \* pendingMessageId is null
  Sources,          \* RAG sources the user chooses in the dialog
  Kinds,            \* of each: a "plain" text, a "document" with a question, a "scan" alone
  MaxConversations, \* MAX_CONVERSATIONS
  MaxMessages,      \* MAX_MESSAGES_PER_CONVERSATION
  Browsers,         \* browsers considered: with workers, hence localRag, or without
  Conversations,    \* bound: conversations ever created
  Connections,      \* bound: connections with anything still to do
  Answers,          \* bound: answers ever begun
  Redials,          \* bound: connections reopened, by the reconnect button or after a loss
  Awaits            \* bound: dispatches of a message awaiting its context at a time

NoRequest == [text |-> NoText, file |-> FALSE, source |-> "local"]
Source == {"local", "network"}
NoConversation == 0
NoConnection == 0
NoAnswer == 0

ASSUME TextAssumption == NoText \notin Text /\ (Text \cup {NoText}) \cap Nat = {}
ASSUME KindsAssumption == Kinds \in [Text -> SUBSET {"plain", "document", "scan"}]
ASSUME SourcesAssumption == Sources \subseteq Source
ASSUME BrowsersAssumption == Browsers \subseteq BOOLEAN
ASSUME CapAssumption == MaxConversations \in Nat \ {0} /\ MaxMessages \in Nat \ {0}
ASSUME BoundAssumption == {Conversations, Connections, Answers, Redials, Awaits} \subseteq Nat

\* An ApiOptions: a message with its artifacts, or with the fragments found.
Request == [text : Text, file : BOOLEAN, source : Source]

VARIABLES
  conns,      \* connections
  current,    \* chatConnection
  redials,    \* connections reopened so far
  active,     \* historyConversationId
  hasRag,     \* is there a localRag?
  wanted,     \* pendingConversationRagSource
  shown,      \* state.messages: texts and numbers of answers
  streaming,  \* state.isStreaming
  disabled,   \* sendBtn.disabled
  turn,       \* pendingMessageId
  reply,      \* responseMessageId
  queued,     \* queuedSendOptions
  history,    \* chatHistory.conversations
  made,       \* conversations created so far
  answers,    \* assistant messages: what requests their deltas answer, which completed them
  failed,     \* user messages with the retry button
  kind,       \* what each user message was sent as
  payload,    \* retryPayloads: what it would be sent as again
  awaiting,   \* dispatchMessage calls that await resolveDocumentContext
  indexing,   \* messages whose extracted text localRag indexes and queries
  stored,     \* what localStorage has
  origin      \* conversation each text was written in (history)

screen == <<active, hasRag, wanted, shown, streaming, disabled, turn, reply, queued>>
kept == <<history, made, answers, failed, stored>>
network == <<conns, current, redials>>
vars == <<screen, kept, network, kind, payload, awaiting, indexing, origin>>

-----------------------------------------------------------------------------
(* The history.  (Slip_ operators: what a careless change would make of the *)
(* definition that follows; nothing uses them.)                             *)

Ids(h) == {h[i].id : i \in DOMAIN h}
Find(h, id) == h[CHOOSE i \in DOMAIN h : h[i].id = id]
Last_(s, n) == SubSeq(s, IF Len(s) > n THEN Len(s) - n + 1 ELSE 1, Len(s))
IsAnswer(m) == m \notin Text

\* The elements of s that are in S, in their order.  (SelectSeq, which the provers know
\* nothing about.)
Only(s, S) ==
  LET kept_[i \in 0 .. Len(s)] ==
        IF i = 0 THEN <<>>
        ELSE IF s[i] \in S THEN Append(kept_[i - 1], s[i]) ELSE kept_[i - 1]
  IN kept_[Len(s)]

\* The conversations of h but the one with this id.
Others(h, id) == Only(h, {c \in Range(h) : c.id # id})

Slip_Upsert(h, c) ==  \* without the cap of trimHistory
  <<[c EXCEPT !.messages = Last_(@, MaxMessages)]>> \o Others(h, c.id)

\* upsertConversation and trimHistory, of a conversation written just now.
Upsert(h, c) ==
  LET all == <<[c EXCEPT !.messages = Last_(@, MaxMessages)]>> \o Others(h, c.id)
  IN SubSeq(all, 1, IF Len(all) > MaxConversations THEN MaxConversations ELSE Len(all))

\* createConversation.
Created == [id |-> made + 1, source |-> wanted, messages |-> <<>>]

\* The conversation ensureHistoryConversation returns.
Ensured == IF active \in Ids(history) THEN Find(history, active) ELSE Created

\* saveChatHistory.
Saved == stored' = [history |-> history', answers |-> answers', failed |-> failed']

Slip_Persist ==  \* without saveChatHistory
  /\ active' = Ensured.id
  /\ made' = IF active \in Ids(history) THEN made ELSE made + 1
  /\ made' <= Conversations
  /\ history' = Upsert(history, [Ensured EXCEPT !.messages = shown'])
  /\ UNCHANGED stored

\* persistActiveConversation, of the messages as the handler leaves them.  What
\* is stored is a copy; in memory history and screen share the messages.
Persist ==
  /\ active' = Ensured.id
  /\ made' = IF active \in Ids(history) THEN made ELSE made + 1
  /\ made' <= Conversations
  /\ history' = Upsert(history, [Ensured EXCEPT !.messages = shown'])
  /\ Saved

\* ensureHistoryConversation alone.
Ensure ==
  IF active \in Ids(history) THEN UNCHANGED <<active, made, history, stored>>
  ELSE /\ active' = made + 1
       /\ made' = made + 1
       /\ made' <= Conversations
       /\ history' = Upsert(history, Created)
       /\ Saved

-----------------------------------------------------------------------------
(* Connections, as the view uses them.                                     *)

\* What send() of a connection does with a request: write it, or leave it to the
\* opening of a session, which it starts.
Sent(cs, k, r) ==
  IF cs[k].phase = "open"
    THEN [cs EXCEPT ![k].work[r.text] =
            IF r.file THEN IF r.source = "network" THEN "file" ELSE "file, local" ELSE "asked",
                    ![k].lost = @ \ {r.text}]
    ELSE [cs EXCEPT ![k].waiting = r, ![k].phase = "opening"]

Connection == 1 .. Connections
Idle == [t \in Text |-> "no"]
Gone == [home |-> NoConversation, phase |-> "gone", closed |-> TRUE,
         waiting |-> NoRequest, work |-> Idle, lost |-> {}]

\* The request of t is answered, one way or another.
Done(c, t) == [c EXCEPT !.work[t] = "no", !.lost = @ \ {t}]

\* The connections with k as c; a closed one with nothing more to say is gone.
With(k, c) ==
  [conns EXCEPT ![k] =
    IF c.closed /\ c.phase # "opening" /\ (c.work = Idle \/ c.phase = "failed") THEN Gone ELSE c]

\* createChatConnection, in the place of a connection that is gone.
Create ==
  \E k \in Connection :
    /\ conns[k] = Gone
    /\ \A j \in 1 .. k - 1 : conns[j] # Gone
    /\ conns' = [conns EXCEPT ![k] = [home |-> active, phase |-> "opening", closed |-> FALSE,
                                     waiting |-> NoRequest, work |-> Idle, lost |-> {}]]
    /\ current' = k

\* What close() leaves of the connection: an opening under way goes on.
Closed == IF current = NoConnection THEN conns
          ELSE With(current, [conns[current] EXCEPT !.closed = TRUE])

\* reconnectBtn, enabled while the view shows "disconnected" (the status written
\* last: that a closed connection may write it too is left out).  Runs under way
\* keep the session id, so they may answer on the new session too.
ReconnectButton ==
  /\ \/ current = NoConnection /\ Create
     \/ /\ current # NoConnection
        /\ conns[current].phase = "failed"
        /\ conns' = [conns EXCEPT ![current].phase = "opening"]
        /\ UNCHANGED current
  /\ redials < Redials
  /\ redials' = redials + 1
  /\ UNCHANGED <<screen, kept, kind, payload, awaiting, indexing, origin>>

-----------------------------------------------------------------------------
(* Turns.                                                                  *)

OnScreen(t) == t \in Range(shown)
Call(t, p) == [text |-> t, file |-> p \in {"document", "scan"}]
Calls == [text : Text, file : BOOLEAN]

\* dispatchMessage up to its await, of a message on the screen, as payload p.
Dispatch(t, p) ==
  /\ awaiting[Call(t, p)] < Awaits
  /\ awaiting' = [awaiting EXCEPT ![Call(t, p)] = @ + 1]
  /\ failed' = failed \ {t}
  /\ reply' = NoAnswer
  /\ turn' = t
  /\ streaming' = TRUE
  /\ disabled' = TRUE
  /\ Persist

Submit(t, k) ==
  /\ ~ streaming
  /\ origin[t] = NoConversation
  /\ shown' = Append(shown, t)
  /\ kind' = [kind EXCEPT ![t] = k]
  /\ payload' = [payload EXCEPT ![t] = k]
  /\ UNCHANGED <<network, hasRag, wanted, queued, answers, indexing>>
  /\ Dispatch(t, k)
  /\ origin' = [origin EXCEPT ![t] = active']

\* The answers retryMessage takes off the screen: those begun after the message
\* and not completed, and the one of the turn that failed.
Incomplete(t) ==
  LET at == CHOOSE i \in DOMAIN shown : shown[i] = t
      after == {i \in at + 1 .. Len(shown) :
                  \A j \in at + 1 .. i : IsAnswer(shown[j])}
  IN {m \in {shown[i] : i \in after} : answers[m].done = NoText} \cup {reply}

Retry(t) ==
  /\ ~ streaming
  /\ OnScreen(t)
  /\ t \in failed
  /\ payload[t] # "gone" \/ kind[t] = "plain"
  /\ shown' = Only(shown, Range(shown) \ Incomplete(t))
  /\ payload' = [payload EXCEPT ![t] = IF @ = "gone" THEN "plain" ELSE @]
  /\ UNCHANGED <<network, hasRag, wanted, queued, answers, kind, indexing, origin>>
  /\ Dispatch(t, payload'[t])

Slip_Resume(c) ==  \* comparing no message
  /\ awaiting[c] > 0
  /\ awaiting' = [awaiting EXCEPT ![c] = @ - 1]
  /\ IF streaming
       THEN LET r == [text |-> c.text, file |-> c.file, source |-> Ensured.source]
            IN IF current = NoConnection
                 THEN queued' = r /\ Create
                 ELSE /\ conns' = Sent(conns, current, r)
                      /\ UNCHANGED <<current, queued>>
       ELSE UNCHANGED <<conns, current, queued>>
  /\ UNCHANGED <<redials, active, hasRag, wanted, shown, streaming, disabled, turn, reply, kept, kind,
                 payload, indexing, origin>>

\* dispatchMessage resumes, and sends unless the turn is over or another's.
Resume(c) ==
  /\ awaiting[c] > 0
  /\ awaiting' = [awaiting EXCEPT ![c] = @ - 1]
  /\ IF streaming /\ turn = c.text
       THEN LET r == [text |-> c.text, file |-> c.file, source |-> Ensured.source]
            IN IF current = NoConnection
                 THEN queued' = r /\ Create
                 ELSE /\ conns' = Sent(conns, current, r)
                      /\ UNCHANGED <<current, queued>>
       ELSE UNCHANGED <<conns, current, queued>>
  /\ UNCHANGED <<redials, active, hasRag, wanted, shown, streaming, disabled, turn, reply, kept, kind,
                 payload, indexing, origin>>

-----------------------------------------------------------------------------
(* Switches.                                                               *)

\* What every switch resets.
Leave ==
  /\ conns' = Closed
  /\ current' = NoConnection
  /\ turn' = NoText
  /\ reply' = NoAnswer
  /\ queued' = NoRequest
  /\ UNCHANGED hasRag

\* startNewConversation.  The send button stays as it is.
Start(source) ==
  /\ Leave
  /\ active' = NoConversation
  /\ wanted' = source
  /\ shown' = <<>>
  /\ streaming' = FALSE
  /\ UNCHANGED disabled

\* ragDialogCreate: the dialog opens only when nothing streams, and does not ask
\* again when it is accepted.
NewConversation(source) ==
  /\ Start(source)
  /\ UNCHANGED <<redials, kept, kind, payload, awaiting, indexing, origin>>

\* clearHistoryBtn.
ClearHistory ==
  /\ Start("local")
  /\ history' = <<>>
  /\ stored' = [stored EXCEPT !.history = <<>>]
  /\ UNCHANGED <<redials, made, answers, failed, kind, payload, awaiting, indexing, origin>>

SelectConversation(id) ==
  /\ ~ streaming
  /\ id \in Ids(history)
  /\ Leave
  /\ active' = id
  /\ wanted' = Find(history, id).source
  /\ shown' = Find(history, id).messages
  /\ UNCHANGED <<redials, streaming, disabled, kept, kind, payload, awaiting, indexing, origin>>

\* The page is loaded again: memory is gone, and initializeHistory shows the
\* conversation written last.
Reload ==
  /\ conns' = [k \in Connection |-> Gone]
  /\ current' = NoConnection
  /\ turn' = NoText /\ reply' = NoAnswer /\ queued' = NoRequest
  /\ streaming' = FALSE /\ disabled' = FALSE
  /\ history' = stored.history
  /\ answers' = stored.answers
  /\ failed' = stored.failed
  /\ IF history' = <<>>
       THEN active' = NoConversation /\ wanted' = "local" /\ shown' = <<>>
       ELSE /\ active' = Head(history').id
            /\ wanted' = Head(history').source
            /\ shown' = Head(history').messages
  /\ payload' = [t \in Text |-> "gone"]
  /\ awaiting' = [c \in Calls |-> 0]
  /\ indexing' = {}
  /\ UNCHANGED <<redials, hasRag, made, stored, kind, origin>>

-----------------------------------------------------------------------------
(* Events, from whichever connection (handleEvent).                        *)

\* handshakeAck: what waits inside the connection goes out, then onOpen sends what
\* the view has queued, on the connection it then has.
Opens(k) ==
  /\ conns[k].phase = "opening"
  /\ LET w == conns[k].waiting
         opened == [conns EXCEPT ![k].phase = "open", ![k].waiting = NoRequest]
         first == IF w = NoRequest THEN opened ELSE Sent(opened, k, w)
     IN IF queued # NoRequest /\ turn # NoText /\ streaming
          THEN /\ queued' = NoRequest
               /\ conns' = IF current = NoConnection THEN first ELSE Sent(first, current, queued)
          ELSE conns' = first /\ UNCHANGED queued
  /\ UNCHANGED <<current, redials, active, hasRag, wanted, shown, streaming, disabled, turn,
                 reply, kept, kind, payload, awaiting, indexing, origin>>

\* An open session is lost (handleTransportFailure).  A closed connection says no more;
\* another opens again by itself, and tells the view nothing of the requests under way,
\* nor of the turn that waits for them.  They are lost: their runs go on, and may be
\* heard again on the new session, which nothing ensures.
Drops(k) ==
  LET asked == {t \in Text : conns[k].work[t] # "no"}
      waits == IF k = current /\ asked # {} THEN {turn} \ {NoText} ELSE {}
  IN /\ conns[k].phase = "open"
     /\ redials' = redials + (IF conns[k].closed THEN 0 ELSE 1)
     /\ redials' <= Redials
     /\ conns' = [conns EXCEPT ![k] =
          IF conns[k].closed THEN Gone
          ELSE [conns[k] EXCEPT !.phase = "opening", !.lost = @ \cup asked \cup waits]]
     /\ UNCHANGED <<current, screen, kept, kind, payload, awaiting, indexing, origin>>

\* addMessage.
AddMessage(m) == shown' = Append(shown, m) /\ Persist

\* appendAssistantText.
Append_(t) ==
  IF reply \in Range(shown)
    THEN /\ answers' = [answers EXCEPT ![reply].about = @ \cup {t}]
         /\ UNCHANGED <<active, shown, reply, made, history, stored>>
    ELSE /\ Len(answers) < Answers
         /\ answers' = Append(answers, [about |-> {t}, done |-> NoText])
         /\ reply' = Len(answers) + 1
         /\ AddMessage(Len(answers) + 1)

Delta(k, t) ==
  /\ conns[k].phase = "open"
  /\ conns[k].work[t] \in {"asked", "answering"}
  /\ conns' = [conns EXCEPT ![k].work[t] = "answering"]
  /\ UNCHANGED <<current, redials, hasRag, wanted, streaming, disabled, turn, queued, failed,
                 kind, payload, awaiting, indexing, origin>>
  /\ Append_(t)

EndTurn == turn' = NoText /\ streaming' = FALSE /\ disabled' = FALSE

\* The answer completeAssistantResponse completes: without one begun in this turn,
\* the last on the screen.
Completed_ ==
  LET all == {m \in Range(shown) : IsAnswer(m)}
      at(m) == CHOOSE i \in DOMAIN shown : shown[i] = m
  IN IF reply # NoAnswer THEN {reply} \cap all
     ELSE {m \in all : \A n \in all : at(n) <= at(m)}

Complete(k, t) ==
  /\ conns[k].phase = "open"
  /\ conns[k].work[t] \in {"asked", "answering"}
  /\ conns' = With(k, Done(conns[k], t))
  /\ answers' = [a \in DOMAIN answers |->
                   IF a \in Completed_ THEN [answers[a] EXCEPT !.done = t] ELSE answers[a]]
  /\ shown' = shown
  /\ failed' = failed
  /\ Persist
  /\ reply' = NoAnswer
  /\ payload' = [u \in Text |-> IF u = turn THEN "gone" ELSE payload[u]]
  /\ EndTurn
  /\ UNCHANGED <<current, redials, hasRag, wanted, queued, kind, awaiting, indexing, origin>>

\* markPendingMessageFailed and what the callers of it do.
FailTurn ==
  /\ failed' = failed \cup ({turn} \cap Range(shown))
  /\ shown' = shown
  /\ answers' = answers
  /\ Persist
  /\ EndTurn

\* The Navigator refuses or fails, or the frame could not be written, which may be seen
\* after the session was lost.
Error(k, t) ==
  /\ \/ conns[k].phase = "open" /\ conns[k].work[t] # "no"
     \/ conns[k].phase = "opening" /\ conns[k].work[t] \in {"asked", "file", "file, local"}
  /\ conns' = With(k, Done(conns[k], t))
  /\ queued' = NoRequest
  /\ FailTurn
  /\ UNCHANGED <<current, redials, hasRag, wanted, reply, kind, payload, awaiting, indexing, origin>>

\* A session cannot be opened: the attempts are exhausted, which a closed
\* connection keeps to itself, or there are no bootstrap addresses, which it
\* does not.  What waited in it goes on waiting.
OpeningFails(k) ==
  /\ conns[k].phase = "opening"
  /\ conns' = With(k, [conns[k] EXCEPT !.phase = "failed"])
  /\ \/ conns[k].closed /\ UNCHANGED <<screen, kept>>
     \/ /\ queued' = NoRequest
        /\ FailTurn
        /\ UNCHANGED <<hasRag, wanted, reply>>
  /\ UNCHANGED <<current, redials, kind, payload, awaiting, indexing, origin>>

HasQuestion(t) == t # NoText /\ payload[t] \in {"plain", "document"}

\* ocr.extracted: the text goes to localRag, or stays with the network, or nobody
\* asked anything about it.  Of a scan the Navigator expects no answer, and
\* with fragments found here it waits for another request.
Ocr(k, t) ==
  /\ conns[k].phase = "open"
  /\ conns[k].work[t] \in {"file", "file, local"}
  /\ conns' = With(k, IF conns[k].work[t] = "file, local" THEN Done(conns[k], t)
                      ELSE [conns[k] EXCEPT !.work[t] = IF kind[t] = "scan" THEN "indexing" ELSE "asked"])
  /\ UNCHANGED <<current, redials, hasRag, wanted, shown, queued, answers, kind, origin>>
  /\ \/ /\ HasQuestion(turn) /\ hasRag /\ Ensured.source = "local"
        /\ UNCHANGED <<turn, reply, failed, payload, awaiting>>
        /\ Ensure
        /\ streaming' = TRUE /\ disabled' = TRUE
        /\ indexing' = indexing \cup {turn}
     \/ /\ HasQuestion(turn) /\ Ensured.source = "network"
        /\ UNCHANGED <<turn, reply, failed, payload, awaiting, indexing>>
        /\ Ensure
        /\ streaming' = TRUE /\ disabled' = TRUE
     \/ /\ HasQuestion(turn) /\ ~ hasRag /\ Ensured.source = "local"
        /\ payload' = [payload EXCEPT ![turn] = "plain"]
        /\ IF OnScreen(turn) THEN Dispatch(turn, "plain")
           ELSE UNCHANGED <<streaming, disabled, turn, reply, failed, awaiting>> /\ Ensure
        /\ UNCHANGED indexing
     \/ /\ ~ HasQuestion(turn)
        /\ UNCHANGED <<reply, failed, payload, awaiting, indexing>>
        /\ Ensure
        /\ EndTurn

-----------------------------------------------------------------------------
(* What localRag answers to an index and the query after it.               *)

Indexed(t) ==
  /\ t \in indexing
  /\ indexing' = indexing \ {t}
  /\ payload' = [payload EXCEPT ![t] = "plain"]
  /\ UNCHANGED <<network, hasRag, wanted, shown, queued, answers, kind, origin>>
  /\ \/ OnScreen(t) /\ Dispatch(t, "plain")
     \/ ~ OnScreen(t) /\ UNCHANGED <<active, streaming, disabled, turn, reply, made, history, failed,
                                     stored, awaiting>>

Slip_IndexFails(t) ==  \* without giving the send button back
  /\ t \in indexing
  /\ indexing' = indexing \ {t}
  /\ failed' = failed \cup ({turn} \cap Range(shown))
  /\ UNCHANGED <<network, hasRag, wanted, shown, streaming, disabled, turn, reply, queued, answers,
                 kind, payload, awaiting, origin>>
  /\ Persist

\* It fails: the turn that pays is the one the view is then in.
IndexFails(t) ==
  /\ t \in indexing
  /\ indexing' = indexing \ {t}
  /\ FailTurn
  /\ UNCHANGED <<network, hasRag, wanted, reply, queued, kind, payload, awaiting, origin>>

-----------------------------------------------------------------------------
Init ==
  /\ conns = [k \in Connection |-> Gone] /\ current = NoConnection /\ redials = 0
  /\ hasRag \in Browsers
  /\ active = NoConversation /\ wanted = "local" /\ shown = <<>>
  /\ streaming = FALSE /\ disabled = FALSE /\ turn = NoText /\ reply = NoAnswer /\ queued = NoRequest
  /\ history = <<>> /\ made = 0 /\ answers = <<>> /\ failed = {}
  /\ stored = [history |-> <<>>, answers |-> <<>>, failed |-> {}]
  /\ kind = [t \in Text |-> "plain"] /\ payload = [t \in Text |-> "gone"]
  /\ awaiting = [c \in Calls |-> 0] /\ indexing = {}
  /\ origin = [t \in Text |-> NoConversation]

Next ==
  \/ \E t \in Text : (\E k \in Kinds[t] : Submit(t, k)) \/ Retry(t) \/ Indexed(t) \/ IndexFails(t)
  \/ \E c \in Calls : Resume(c)
  \/ \E source \in Sources : NewConversation(source)
  \/ \E id \in Ids(history) : SelectConversation(id)
  \/ ClearHistory \/ Reload \/ ReconnectButton
  \/ \E k \in Connection :
       \/ Opens(k) \/ OpeningFails(k) \/ Drops(k)
       \/ \E t \in Text : Delta(k, t) \/ Complete(k, t) \/ Error(k, t) \/ Ocr(k, t)

Spec == Init /\ [][Next]_vars

-----------------------------------------------------------------------------
(* Properties.                                                             *)

Message == Text \cup 1 .. Answers
Conversation == [id : 1 .. Conversations, source : Source, messages : Seq(Message)]
Answer == [about : SUBSET Text, done : Text \cup {NoText}]
Phase == {"opening", "open", "failed", "gone"}
Work == {"no", "file", "file, local", "indexing", "asked", "answering"}
Link == [home : 0 .. Conversations, phase : Phase, closed : BOOLEAN,
         waiting : Request \cup {NoRequest}, work : [Text -> Work], lost : SUBSET Text]

TypeOK ==
  /\ conns \in [Connection -> Link]
  /\ current \in 0 .. Connections /\ redials \in 0 .. Redials
  /\ active \in 0 .. made /\ made \in 0 .. Conversations
  /\ hasRag \in Browsers /\ wanted \in Source /\ shown \in Seq(Message) 
  /\ streaming \in BOOLEAN /\ disabled \in BOOLEAN
  /\ turn \in Text \cup {NoText} /\ reply \in 0 .. Len(answers)
  /\ queued \in Request \cup {NoRequest}
  /\ history \in Seq(Conversation) /\ Len(history) <= MaxConversations
  /\ answers \in Seq(Answer) /\ failed \subseteq Text
  /\ stored \in [history : Seq(Conversation), answers : Seq(Answer), failed : SUBSET Text]
  /\ kind \in [Text -> {"plain", "document", "scan"}]
  /\ payload \in [Text -> {"plain", "document", "scan", "gone"}]
  /\ awaiting \in [Calls -> 0 .. Awaits] /\ indexing \subseteq Text
  /\ origin \in [Text -> 0 .. Conversations]

\* A request leaves only on a connection of the conversation its message was
\* written in, whatever the user switched to while its fragments were looked
\* for, while its connection opened, or while it lay queued.  (A connection
\* opened from the status button before there is a conversation has no home.)
SentFromHome ==
  \A k \in Connection : \A t \in Text :
    conns[k].work[t] # "no" => conns[k].home \in {origin[t], NoConversation}

\* What a reload would show is what there is: the stored history is the one in
\* memory, clicks and completed answers included; only an answer still being
\* written may be behind.  And the screen shows the history's conversation.
ReloadShowsTheSame ==
  /\ stored.history = history
  /\ \A i \in DOMAIN history : \A j \in DOMAIN history[i].messages :
       LET m == history[i].messages[j]
       IN IF IsAnswer(m)
            THEN /\ m \in DOMAIN stored.answers
                 /\ stored.answers[m].done = answers[m].done
                 /\ answers[m].done # NoText /\ reply # m
                      => stored.answers[m].about = answers[m].about
            ELSE m \in stored.failed <=> m \in failed
  /\ active \in Ids(history) => Find(history, active).messages = Last_(shown, MaxMessages)
  /\ active \notin Ids(history) => shown = <<>>

\* A view that streams has its send button disabled and something to wait for: a
\* dispatch that will resume, a document being indexed, a request queued for a
\* connection that opens, or one under way on it.  Unless a session was lost with all
\* the turn waited for: then the view may stream for a turn nobody will end.
StreamsForSomething ==
  /\ streaming <=> turn # NoText
  /\ streaming =>
       /\ disabled
       /\ \/ \E c \in Calls : c.text = turn /\ awaiting[c] > 0
          \/ turn \in indexing
          \/ /\ current # NoConnection
             /\ \/ conns[current].phase = "opening" /\ {queued, conns[current].waiting} # {NoRequest}
                \/ \E t \in Text : conns[current].work[t] # "no" /\ t \notin conns[current].lost
                \/ turn \in conns[current].lost

\* The send button is disabled only while the view streams.  False: a new conversation
\* accepted during a turn leaves it disabled (Start).
ButtonComesBack == disabled => streaming

\* An answer kept in a conversation answers only messages written in it: "Cambiar
\* de conversacion no mezcla mensajes ni eventos de la sesion activa".
AnswersStayHome ==
  \A i \in DOMAIN history : \A j \in DOMAIN history[i].messages :
    LET m == history[i].messages[j]
    IN IsAnswer(m) => \A t \in answers[m].about : origin[t] = history[i].id
=============================================================================
