-------------------------- MODULE PortalConnection --------------------------
(***************************************************************************)
(* The browser's session with a Navigator over libp2p: connectToChat of    *)
(* apps/portal-chat/src/services/api.ts.                                   *)
(*                                                                         *)
(* One closure holds the session's variables.  openSession opens it in a   *)
(* chain of awaits; between two of them the user may send, reconnect or    *)
(* close, timers may fire and the network may fail.  conn is the closure;  *)
(* its synchronous functions are operators from conn to conn, so that an   *)
(* action is a callback or the resumption of one await, with every call it *)
(* makes.  Each opening of a session has a generation of its own and mutes *)
(* the readers of the earlier ones: conn.reader is the present one's.      *)
(***************************************************************************)
EXTENDS Naturals, Sequences

CONSTANTS
  Msg,          \* calls of send(): one per message, or per retry of it
  NoMsg,        \* pending is null
  MaxAttempts,  \* MAX_AUTOMATIC_RECONNECT_ATTEMPTS
  MaxClicks     \* bound: calls of reconnect()

ASSUME NoMsgAssumption == NoMsg \notin Msg
ASSUME AttemptsAssumption == MaxAttempts \in Nat /\ MaxClicks \in Nat

VARIABLES
  conn,     \* the closure of connectToChat
  wire,     \* the stream conn.stream refers to is open
  nav,      \* what the Navigator knows of that stream
  bound,    \* it knows which session the stream is of: agentStart arrived on it
  inbox,    \* frames from the Navigator on it, not yet read
  work,     \* chat requests it is answering, whichever stream they came on
  sent,     \* chat requests written to a stream (history)
  asked,    \* messages send() was called with (history)
  clicks    \* calls of reconnect()

env == <<wire, nav, bound, inbox, work, sent>>
vars == <<conn, env, asked, clicks>>

\* Where openSession is.  All but "idle" have opening = true.
Opening == {"stopping",     \* await previousNode.stop()
            "config",       \* await loadBootstrapAddresses
            "keygen",       \* await generateKeyPair
            "creating",     \* await createPortalP2pNode
            "discovering",  \* await discoverNavigator
            "streaming",    \* await newStream
            "signing",      \* await the signature of the handshake
            "cleanup"}      \* await failedNode.stop()

\* Of these, the ones before the opening has its node.
Early == {"stopping", "config", "keygen", "creating"}

Frame == {"ack", "completed", "error"}

Connection ==
  [place        : Opening \cup {"idle"},
   closed       : BOOLEAN,               \* closedByCaller
   ready        : BOOLEAN,
   node         : BOOLEAN,               \* node is defined
   live         : BOOLEAN,               \* a node was created and never told to stop
   outlived     : BOOLEAN,               \* close() came too early to stop it (history)
   stream       : BOOLEAN,               \* stream is defined
   key          : BOOLEAN,               \* privateKey is defined
   reconnecting : BOOLEAN,               \* reconnectTimer is set
   handshaking  : BOOLEAN,               \* handshakeTimer is set
   attempt      : 0 .. MaxAttempts,      \* reconnectAttempt
   pending      : Msg \cup {NoMsg},
   reader       : BOOLEAN,               \* readFrames runs for this generation
   status       : {"connecting", "connected", "disconnected"},  \* last onStatus
   coro         : [Msg -> {"none", "start", "chat"}],  \* which envelope send() is signing
   stale        : SUBSET Msg,            \* whose captured stream is a former one
   out          : Seq({"open", "completed", "error"})] \* onOpen/onEvent calls of this step

-----------------------------------------------------------------------------
(* The synchronous functions of the closure.                               *)

\* (Operators named Slip_ are what a careless change would make of the next
\* definition.  Nothing uses them: they show which property would notice.)

Slip_ClearsOneTimer(c) == [c EXCEPT !.reconnecting = FALSE]

ClearReconnectTimer(c) == [c EXCEPT !.reconnecting = FALSE, !.handshaking = FALSE]

Slip_ForgetWithoutStopping(c) ==
  [c EXCEPT !.node = FALSE, !.stream = FALSE, !.key = FALSE,
            !.stale = {m \in Msg : c.coro[m] # "none"}]

\* node, stream and privateKey are cleared and the node told to stop, as
\* openSession, its catch block and reconnect do.
Forget(c) ==
  [c EXCEPT !.live = @ /\ ~ c.node, !.node = FALSE, !.stream = FALSE, !.key = FALSE,
            !.stale = {m \in Msg : c.coro[m] # "none"}]

\* openSession up to its first await.
OpenSession(c) ==
  IF c.place # "idle" \/ c.closed THEN c
  ELSE [Forget(c) EXCEPT !.place = "stopping", !.ready = FALSE, !.reader = FALSE,
                         !.handshaking = FALSE, !.status = "connecting"]

Slip_NeverGiveUp(c) ==
  IF c.closed \/ c.reconnecting THEN c
  ELSE [c EXCEPT !.ready = FALSE, !.reconnecting = TRUE, !.status = "connecting"]

HandleTransportFailure(c) ==
  IF c.closed \/ c.reconnecting THEN c
  ELSE IF c.attempt < MaxAttempts
  THEN [c EXCEPT !.ready = FALSE, !.attempt = @ + 1, !.reconnecting = TRUE,
                 !.status = "connecting"]
  ELSE [c EXCEPT !.ready = FALSE, !.status = "disconnected", !.out = Append(@, "error")]

\* send(): queue the message and open a session, or start writing it.
SendNow(c, m) ==
  IF ~ c.ready THEN OpenSession(ClearReconnectTimer([c EXCEPT !.pending = m]))
  ELSE IF c.stream /\ c.key THEN [c EXCEPT !.coro[m] = "start", !.stale = @ \ {m}]
  ELSE c

\* reconnect().
ReconnectNow(c) ==
  OpenSession(Forget([ClearReconnectTimer(c) EXCEPT !.closed = FALSE, !.outlived = FALSE,
                                                    !.attempt = 0, !.ready = FALSE]))

\* close(): the node is told to stop, not forgotten.  An opening whose node is
\* still to come goes on, and creates it.
CloseNow(c) ==
  [ClearReconnectTimer(c) EXCEPT !.closed = TRUE, !.ready = FALSE, !.live = @ /\ ~ c.node,
                                 !.outlived = c.place \in Early,
                                 !.status = "disconnected"]

Slip_AckKeepsPending(c) ==
  LET up == ClearReconnectTimer([c EXCEPT !.ready = TRUE, !.attempt = 0,
                                          !.status = "connected"])
      go == IF c.pending = NoMsg THEN up ELSE SendNow(up, c.pending)
  IN  [go EXCEPT !.out = Append(@, "open")]

\* handleEnvelope, case handshakeAck.
AckNow(c) ==
  LET up == ClearReconnectTimer([c EXCEPT !.ready = TRUE, !.attempt = 0,
                                          !.status = "connected"])
      go == IF c.pending = NoMsg THEN up
            ELSE SendNow([up EXCEPT !.pending = NoMsg], c.pending)
  IN  [go EXCEPT !.out = Append(@, "open")]

\* handleEnvelope; the frames that end a turn stand for those that do not.
HandleEnvelope(c, frame) ==
  IF frame = "ack" THEN AckNow(c) ELSE [c EXCEPT !.out = Append(@, frame)]

\* The handshake timer's callback.
HandshakeTimeout(c) ==
  IF c.ready \/ c.closed THEN [c EXCEPT !.handshaking = FALSE]
  ELSE HandleTransportFailure([c EXCEPT !.handshaking = FALSE])

-----------------------------------------------------------------------------
(* Steps.                                                                  *)

Now == [conn EXCEPT !.out = <<>>]

\* The closure becomes c.  A stream it lets go of takes its frames along.
Become(c) ==
  /\ conn' = c
  /\ IF conn.stream /\ ~ c.stream
     THEN /\ wire' = FALSE /\ nav' = "fresh" /\ bound' = FALSE /\ inbox' = <<>>
          /\ UNCHANGED <<work, sent>>
     ELSE UNCHANGED env

Init ==
  /\ conn = OpenSession(
       [place |-> "idle", closed |-> FALSE, ready |-> FALSE, node |-> FALSE,
        live |-> FALSE, outlived |-> FALSE, stream |-> FALSE, key |-> FALSE, reconnecting |-> FALSE,
        handshaking |-> FALSE, attempt |-> 0, pending |-> NoMsg, reader |-> FALSE,
        status |-> "connecting", coro |-> [m \in Msg |-> "none"], stale |-> {},
        out |-> <<>>])
  /\ wire = FALSE
  /\ nav = "fresh"
  /\ bound = FALSE
  /\ inbox = <<>>
  /\ work = {}
  /\ sent = {}
  /\ asked = {}
  /\ clicks = 0

(* The user, through the chat view.                                        *)

Send(m) ==
  /\ m \notin asked
  /\ asked' = asked \cup {m}
  /\ Become(SendNow(Now, m))
  /\ UNCHANGED clicks

Reconnect ==
  /\ clicks < MaxClicks
  /\ clicks' = clicks + 1
  /\ Become(ReconnectNow(Now))
  /\ UNCHANGED asked

Close ==
  /\ Become(CloseNow(Now))
  /\ UNCHANGED <<asked, clicks>>

(* openSession resumes.                                                    *)

Stopped ==
  /\ conn.place = "stopping"
  /\ Become([Now EXCEPT !.place = "config"])

Configured ==
  /\ conn.place = "config"
  /\ Become([Now EXCEPT !.place = "keygen"])

\* No usable configuration: reported, and not retried.
ConfigFails ==
  /\ conn.place = "config"
  /\ Become([Now EXCEPT !.place = "idle", !.status = "disconnected", !.out = <<"error">>])

KeyGenerated ==
  /\ conn.place = "keygen"
  /\ Become([Now EXCEPT !.place = "creating", !.key = TRUE])

NodeCreated ==
  /\ conn.place = "creating"
  /\ Become([Now EXCEPT !.place = "discovering", !.node = TRUE, !.live = TRUE])

\* A node that was told to stop finds nobody.
Discovered ==
  /\ conn.place = "discovering"
  /\ conn.live
  /\ Become([Now EXCEPT !.place = "streaming"])

\* The catch block, up to its await.
Catch(c) == [Forget(c) EXCEPT !.place = "cleanup"]

\* The stream is stored before the handshake is built, which needs the key: a
\* reconnect() that cleared it meanwhile makes building it throw.
StreamOpened ==
  /\ conn.place = "streaming"
  /\ conn.live
  /\ LET c == [Now EXCEPT !.stream = TRUE] IN
     /\ conn' = IF conn.key THEN [c EXCEPT !.place = "signing"] ELSE Catch(c)
     /\ wire' = conn.key
  /\ UNCHANGED <<nav, bound, inbox, work, sent>>

\* The handshake is written, its timer set and, unless reconnect() cleared the
\* key, the reader started.
HandshakeSent ==
  /\ conn.place = "signing"
  /\ LET c == [Now EXCEPT !.handshaking = TRUE] IN
     IF conn.key
     THEN /\ wire
          /\ conn' = [c EXCEPT !.place = "idle", !.reader = TRUE]
          /\ nav' = IF nav = "fresh" THEN "greeted" ELSE nav
          /\ UNCHANGED <<wire, bound, inbox, work, sent>>
     ELSE Become(Catch(c))

\* An await of the opening rejects; the signature's also when its stream is closed.
OpeningFails ==
  /\ conn.place \in {"keygen", "creating", "discovering", "streaming", "signing"}
  /\ Become(Catch(Now))

CleanedUp ==
  /\ conn.place = "cleanup"
  /\ Become(HandleTransportFailure([Now EXCEPT !.place = "idle"]))

OpenSessionResumes ==
  /\ \/ Stopped \/ Configured \/ ConfigFails \/ KeyGenerated \/ NodeCreated
     \/ Discovered \/ StreamOpened \/ HandshakeSent \/ OpeningFails \/ CleanedUp
  /\ UNCHANGED <<asked, clicks>>

(* Timers.                                                                 *)

ReconnectFires ==
  /\ conn.reconnecting
  /\ Become(OpenSession([Now EXCEPT !.reconnecting = FALSE]))
  /\ UNCHANGED <<asked, clicks>>

HandshakeFires ==
  /\ conn.handshaking
  /\ Become(HandshakeTimeout(Now))
  /\ UNCHANGED <<asked, clicks>>

(* readFrames.                                                             *)

ReadFrame ==
  /\ conn.reader
  /\ inbox # <<>>
  /\ conn' = HandleEnvelope(Now, Head(inbox))
  /\ inbox' = Tail(inbox)
  /\ UNCHANGED <<wire, nav, bound, work, sent, asked, clicks>>

Slip_StreamEndsUnreported ==
  /\ conn.reader
  /\ conn' = [Now EXCEPT !.reader = FALSE]
  /\ UNCHANGED <<env, asked, clicks>>

\* The iteration ends or throws, because the stream closed or because a frame
\* cannot be decoded; frames that arrived before may be lost.
StreamEnds ==
  /\ conn.reader
  /\ LET c == [Now EXCEPT !.reader = FALSE] IN
     conn' = IF c.closed THEN c ELSE HandleTransportFailure(c)
  /\ UNCHANGED <<env, asked, clicks>>

(* send()'s two awaits: agentStart is signed and written, then chatRequest,  *)
(* each to the stream captured before its signature.  What a write to a      *)
(* former stream does depends on how far its node has stopped.               *)

Writable(m) == wire \/ m \in conn.stale

\* A write to the closed stream throws: P2P_SEND.
WriteFails(m) ==
  /\ conn.coro[m] # "none"
  /\ ~ wire \/ m \in conn.stale
  /\ conn' = [Now EXCEPT !.coro[m] = "none", !.stale = @ \ {m}, !.out = <<"error">>]
  /\ UNCHANGED <<env, asked, clicks>>

\* Between the two the stream is looked up again: with none, send() returns
\* and nobody is told.  From agentStart on, the Navigator forwards the events
\* of the session to this stream.
StartSent(m) ==
  /\ conn.coro[m] = "start"
  /\ Writable(m)
  /\ conn' = [Now EXCEPT !.coro[m] = IF conn.stream /\ conn.key THEN "chat" ELSE "none",
                         !.stale = @ \ {m}]
  /\ bound' = (bound \/ m \notin conn.stale)
  /\ UNCHANGED <<wire, nav, inbox, work, sent, asked, clicks>>

\* A Navigator that gets anything before the handshake drops the stream.  What
\* is written to a former stream may still reach it.
ChatSent(m) ==
  /\ conn.coro[m] = "chat"
  /\ Writable(m)
  /\ conn' = [Now EXCEPT !.coro[m] = "none", !.stale = @ \ {m}]
  /\ sent' = sent \cup {m}
  /\ IF m \in conn.stale
     THEN work' \in {work, work \cup {m}} /\ UNCHANGED <<nav, bound>>
     ELSE IF nav \in {"greeted", "serving"}
     THEN work' = work \cup {m} /\ bound' = TRUE /\ UNCHANGED nav
     ELSE nav' = "refused" /\ UNCHANGED <<work, bound>>
  /\ UNCHANGED <<wire, inbox, asked, clicks>>

SendResumes(m) == WriteFails(m) \/ StartSent(m) \/ ChatSent(m)

(* The Navigator and the network.                                          *)

NavigatorAcks ==
  /\ wire /\ nav = "greeted"
  /\ nav' = "serving"
  /\ inbox' = Append(inbox, "ack")
  /\ conn' = Now
  /\ UNCHANGED <<wire, bound, work, sent, asked, clicks>>

\* The last event of a run, completed or failed, goes to the stream that is
\* bound to the session by now, not to the one the request came on.
NavigatorAnswers(m) ==
  /\ m \in work
  /\ work' = work \ {m}
  /\ IF wire /\ nav = "serving" /\ bound
     THEN \E frame \in {"completed", "error"} : inbox' = Append(inbox, frame)
     ELSE UNCHANGED inbox
  /\ conn' = Now
  /\ UNCHANGED <<wire, nav, bound, sent, asked, clicks>>

\* The stream closes: a network fault, a Navigator restart, our own node.  A
\* run goes on, unless the Navigator is gone with it.
StreamDrops ==
  /\ wire
  /\ wire' = FALSE
  /\ work' \in {work, {}}
  /\ conn' = Now
  /\ UNCHANGED <<nav, bound, inbox, sent, asked, clicks>>

Next ==
  \/ \E m \in Msg : Send(m) \/ SendResumes(m) \/ NavigatorAnswers(m)
  \/ Reconnect \/ Close
  \/ OpenSessionResumes
  \/ ReconnectFires \/ HandshakeFires
  \/ ReadFrame \/ StreamEnds
  \/ NavigatorAcks \/ StreamDrops

\* Awaits settle, timers fire and received frames are read; a stopped node
\* closes its streams, and a closed stream ends its reader.  Nothing is owed by the Navigator, the network or the user.
Fairness ==
  /\ WF_vars(OpenSessionResumes)
  /\ WF_vars(ReconnectFires)
  /\ WF_vars(HandshakeFires)
  /\ WF_vars(ReadFrame)
  /\ WF_vars(StreamEnds /\ ~ wire)
  /\ \A m \in Msg : WF_vars(SendResumes(m))
  /\ WF_vars(StreamDrops /\ ~ conn.live)

Spec == Init /\ [][Next]_vars /\ Fairness

-----------------------------------------------------------------------------
(* Properties.                                                             *)

TypeOK ==
  /\ conn \in Connection
  /\ wire \in BOOLEAN /\ bound \in BOOLEAN
  /\ nav \in {"fresh", "greeted", "serving", "refused"}
  /\ inbox \in Seq(Frame)
  /\ work \subseteq Msg /\ sent \subseteq Msg /\ asked \subseteq Msg
  /\ clicks \in 0 .. MaxClicks

\* "Sin límite, un Navigator que no responde dejaba la sesión «conectando»
\* para siempre" (api.ts:87): whenever the view shows "connecting" and
\* openSession is not running, a timer is set that will go on or give up.
NeverStalls ==
  conn.status = "connecting" /\ conn.place = "idle" => conn.reconnecting \/ conn.handshaking

\* A session that is ready has what send() needs and no timer left over from
\* its opening, or from the failure of an earlier one, that would tear it down.
ReadyIsSettled ==
  conn.ready => /\ conn.stream /\ conn.key
                /\ conn.place = "idle" /\ ~ conn.reconnecting /\ ~ conn.handshaking

\* The view shows "connected" exactly while send() would write at once.
StatusIsTruthful == (conn.status = "connected") <=> conn.ready

\* A libp2p node that runs is in node, where reconnect(), close() or the next
\* opening stops it, and a closed connection runs none (api.ts:428-436), but for
\* one interleaving: a close() that finds the opening before its node exists has
\* nothing to stop.  NothingOutlivesClose, without the exception, is false.
NoOrphanNode ==
  conn.live => conn.node /\ (conn.closed => conn.outlived)

\* "close" ends the connection's node, whenever it is called.  It does not: an
\* opening that was creating its node goes on to discover a Navigator, and the
\* view, which dropped the connection, calls nothing that would stop it.
NothingOutlivesClose == conn.closed /\ conn.place = "idle" => ~ conn.live

\* One call of send() writes the request at most once, however often the
\* session is opened again.
WrittenOnce == \A m \in sent : conn.pending # m /\ conn.coro[m] = "none"

\* Once close() has found no opening and no reader to outlive it, the closed
\* connection is silent until the caller reconnects: no event, no status.
ClosedIsSilent ==
  [][ conn.closed /\ conn.place = "idle" /\ ~ conn.reader
      /\ (\A m \in Msg : conn.coro[m] = "none") /\ conn'.closed
      => /\ conn'.out = <<>> /\ conn'.place = "idle"
         /\ conn'.status \in {conn.status, "disconnected"} ]_vars

\* "una caída posterior permite reconexión automática"
\* (historial-incidencias-e2e.md:147): a session whose stream is gone does not
\* stay connected, whatever timers its opening left behind.
DropIsNoticed == conn.ready /\ ~ wire ~> ~ conn.ready \/ conn.closed

\* Connecting comes to an end: connected, or given up and reported.
ConnectingEnds == conn.status = "connecting" ~> conn.status # "connecting"

=============================================================================
