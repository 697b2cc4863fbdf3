------------------------------ MODULE ChatTurn ------------------------------
(***************************************************************************)
(* The chat view's turn on top of its connection: a message is dispatched, *)
(* the view streams until an event ends the turn, and a failed message may *)
(* be retried (apps/portal-chat/src/components/chat-view.ts).              *)
(*                                                                         *)
(* Composed with PortalConnection: each step of the connection is a step   *)
(* here, in which the view handles the events the connection called back   *)
(* with.  The events carry no message id; the view applies them to the     *)
(* turn it is in.  The model begins when the view creates its connection   *)
(* and ends when the user leaves the conversation.                         *)
(***************************************************************************)
EXTENDS PortalConnection

CONSTANTS
  Text,       \* user messages of the conversation
  NoText      \* pendingMessageId is null

ASSUME NoTextAssumption == NoText \notin Text

VARIABLES
  streaming,  \* state.isStreaming
  turn,       \* pendingMessageId
  failed,     \* messages marked failed, with a retry button
  queued,     \* queuedSendOptions, as the call of send() it will become
  about,      \* the message each dispatched call is about
  preparing,  \* calls awaiting resolveDocumentContext
  dropped     \* calls send() gave up without an event (history)

view == <<streaming, turn, failed, queued>>
turnVars == <<vars, view, about, preparing, dropped>>

\* createChatConnection, from the reconnect button or for a first message,
\* which then waits for the connection to open.
TurnInit ==
  /\ Init
  /\ failed = {}
  /\ preparing = {}
  /\ dropped = {}
  /\ \/ /\ streaming = FALSE /\ turn = NoText /\ queued = NoMsg
        /\ about = [c \in Msg |-> NoText]
     \/ \E c \in Msg, t \in Text :
          /\ streaming = TRUE /\ turn = t /\ queued = c
          /\ about = [d \in Msg |-> IF d = c THEN t ELSE NoText]

-----------------------------------------------------------------------------
(* The view's handlers.  (Slip_ operators: what a careless change would    *)
(* make of the definition that follows; nothing uses them.)                *)

\* dispatchMessage up to its await.
Dispatch(t) ==
  /\ \E c \in Msg : /\ about[c] = NoText
                    /\ about' = [about EXCEPT ![c] = t]
                    /\ preparing' = preparing \cup {c}
  /\ failed' = failed \ {t}
  /\ turn' = t
  /\ streaming' = TRUE
  /\ conn' = Now
  /\ UNCHANGED <<env, asked, clicks, queued, dropped>>

Submit(t) ==
  /\ ~ streaming
  /\ \A c \in Msg : about[c] # t
  /\ Dispatch(t)

Retry(t) ==
  /\ ~ streaming
  /\ t \in failed
  /\ Dispatch(t)

Slip_PreparedUnchecked(c) ==  \* without the test after resolveDocumentContext
  /\ c \in preparing
  /\ preparing' = preparing \ {c}
  /\ Send(c)
  /\ UNCHANGED <<view, about, dropped>>

\* dispatchMessage resumes, and sends unless the turn is over or another's.
Prepared(c) ==
  /\ c \in preparing
  /\ preparing' = preparing \ {c}
  /\ IF streaming /\ turn = about[c] THEN Send(c)
     ELSE conn' = Now /\ UNCHANGED <<env, asked, clicks>>
  /\ UNCHANGED <<view, about, dropped>>

\* The reconnect button, enabled only while the view shows "disconnected".
ReconnectButton ==
  /\ conn.status = "disconnected"
  /\ Reconnect
  /\ UNCHANGED <<view, about, preparing, dropped>>

EndTurn == streaming' = FALSE /\ turn' = NoText

\* The second conjunct of a connection step: handleEvent.
HandleEvent ==
  CASE conn'.out = <<"completed">> -> EndTurn /\ UNCHANGED <<failed, queued>>
    [] conn'.out = <<"error">>     -> /\ EndTurn
                                      /\ failed' = failed \cup ({turn} \cap Text)
                                      /\ queued' = NoMsg
    [] OTHER                       -> UNCHANGED view

\* onOpen sends the queued message, in the turn of the event loop that
\* handles the acknowledgement.
OpensWithQueued == conn.reader /\ inbox # <<>> /\ Head(inbox) = "ack"
                   /\ queued # NoMsg /\ turn # NoText /\ streaming

SendQueued ==
  /\ OpensWithQueued
  /\ conn' = SendNow(HandleEnvelope(Now, "ack"), queued)
  /\ inbox' = Tail(inbox)
  /\ asked' = asked \cup {queued}
  /\ queued' = NoMsg
  /\ UNCHANGED <<wire, nav, bound, work, sent, clicks, streaming, turn, failed, about, preparing, dropped>>

ConnectionStep ==
  /\ \/ \E m \in Msg : SendResumes(m) \/ NavigatorAnswers(m)
     \/ OpenSessionResumes \/ ReconnectFires \/ HandshakeFires
     \/ ReadFrame /\ ~ OpensWithQueued
     \/ StreamEnds \/ NavigatorAcks \/ StreamDrops
  /\ HandleEvent
  /\ dropped' = dropped \cup {m \in Msg : /\ conn.coro[m] = "start"
                                          /\ conn'.coro[m] = "none"
                                          /\ conn'.out = <<>>}
  /\ UNCHANGED <<about, preparing>>

TurnNext ==
  \/ \E t \in Text : Submit(t) \/ Retry(t)
  \/ \E c \in Msg : Prepared(c)
  \/ ReconnectButton
  \/ SendQueued
  \/ ConnectionStep

TurnSpec == TurnInit /\ [][TurnNext]_turnVars

-----------------------------------------------------------------------------
(* Properties.                                                             *)

TurnTypeOK ==
  /\ TypeOK
  /\ streaming \in BOOLEAN
  /\ turn \in Text \cup {NoText}
  /\ failed \subseteq Text
  /\ queued \in Msg \cup {NoMsg}
  /\ about \in [Msg -> Text \cup {NoText}]
  /\ preparing \subseteq Msg /\ dropped \subseteq Msg

\* A call that will, left alone, end its turn.
Alive(c) ==
  \/ c \in preparing \/ queued = c \/ conn.pending = c \/ conn.coro[c] # "none"
  \/ c \in work
  \/ conn.reader /\ \E i \in DOMAIN inbox : inbox[i] # "ack"

\* While the view streams, the message's call is somewhere on its way, or it
\* was given up between its two writes, or it was written and its stream is
\* gone: a turn is never left open by anything else, however submit, retry,
\* reconnections and errors fall.
TurnIsAccountedFor ==
  streaming => \E c \in Msg : about[c] = turn /\ (Alive(c) \/ c \in sent \cup dropped)

\* A failed message can be retried: the one in the turn is never among them,
\* and a turn that is over is either answered or marked.
FailedIsOver == turn \notin failed /\ (streaming <=> turn # NoText)

\* "se mantiene el mensaje fallido para reintentarlo"
\* (historial-incidencias-e2e.md:62): when the session is back, a message that was
\* written to the lost one, and that nothing will answer any more, is not still
\* streaming, where neither retry nor another message is possible.
NoStrandedTurn ==
  conn.ready /\ wire /\ streaming /\ (\E c \in sent : about[c] = turn)
    => \E c \in Msg : about[c] = turn /\ Alive(c)

=============================================================================
