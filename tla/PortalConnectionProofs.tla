----------------------- MODULE PortalConnectionProofs -----------------------
(***************************************************************************)
(* Proofs about PortalConnection: whatever the user, the timers, the       *)
(* network and the Navigator do between the awaits of openSession, and for *)
(* any number of messages and attempts.  And about ChatTurn, the view's     *)
(* turn on top of it, which needs all of them.                              *)
(*                                                                         *)
(* The closure's functions call one another before the step ends, and in   *)
(* between a session may be "connecting" with no timer set.  So the facts  *)
(* every function keeps (Base) are apart from the one each step restores   *)
(* (Waiting), and the lemmas go function by function before they go action *)
(* by action.                                                              *)
(***************************************************************************)
EXTENDS ChatTurn, TLAPS

\* What every function of the closure keeps.
Base(c) ==
  /\ c.ready => c.stream /\ c.key /\ c.place = "idle" /\ ~ c.reconnecting /\ ~ c.handshaking
  /\ (c.status = "connected") <=> c.ready
  /\ c.live => c.node
  /\ c.closed /\ (c.live \/ c.place \in Early) => c.outlived
  /\ c.reader => c.stream /\ c.key /\ c.place = "idle"
  /\ c.closed => c.status # "connecting"
  /\ c.place = "signing" /\ c.key => c.stream

Good(c) == c \in Connection /\ Base(c)

\* What every step restores.
Waiting(c) == c.status = "connecting" /\ c.place = "idle" => c.reconnecting \/ c.handshaking

\* Where a message is: queued, being written, or written, in that order only.
Ledger(c, written, known) ==
  /\ written \subseteq known /\ known \subseteq Msg
  /\ c.pending # NoMsg => c.pending \in known
  /\ \A m \in Msg : c.coro[m] # "none" => m \in known /\ c.pending # m
  /\ \A m \in written : c.pending # m /\ c.coro[m] = "none"

IInv == TypeOK /\ Base(conn) /\ Waiting(conn) /\ Ledger(conn, sent, asked)

SameMessages(c, d) == d.pending = c.pending /\ d.coro = c.coro

\* A step that moves no message.
MovesNone == SameMessages(conn, conn') /\ sent' = sent

-----------------------------------------------------------------------------
(* The closure's functions.                                                *)

LEMMA ClearFacts ==
  ASSUME NEW c, Good(c)
  PROVE  /\ Good(ClearReconnectTimer(c))
         /\ SameMessages(c, ClearReconnectTimer(c))
  BY DEF Good, Base, Connection, ClearReconnectTimer, SameMessages

LEMMA OpenFacts ==
  ASSUME NEW c, Good(c)
  PROVE  /\ Good(OpenSession(c))
         /\ Waiting(OpenSession(c))
         /\ SameMessages(c, OpenSession(c))
  <1>1. CASE c.place # "idle" \/ c.closed
    BY <1>1 DEF Good, Base, Waiting, OpenSession, SameMessages
  <1>2. CASE ~ (c.place # "idle" \/ c.closed)
    <2>1. PICK f : f = Forget(c)
      OBVIOUS
    <2>2. f \in Connection /\ SameMessages(c, f) /\ f.closed = c.closed /\ ~ f.live
      BY <2>1 DEF Good, Base, Connection, Forget, SameMessages
    <2>3. PICK d : d = [f EXCEPT !.place = "stopping", !.ready = FALSE, !.reader = FALSE,
                                 !.handshaking = FALSE, !.status = "connecting"]
      OBVIOUS
    <2>4. d = OpenSession(c)
      BY <1>2, <2>1, <2>3 DEF OpenSession
    <2>5. d \in Connection /\ SameMessages(f, d)
      BY <2>2, <2>3 DEF Connection, SameMessages, Opening
    <2>6. Base(d) /\ Waiting(d)
      BY <1>2, <2>2, <2>3 DEF Connection, Base, Waiting
    <2>. QED BY <2>2, <2>4, <2>5, <2>6 DEF Good, SameMessages
  <1>. QED BY <1>1, <1>2

LEMMA FailureFacts ==
  ASSUME NEW c, Good(c)
  PROVE  /\ Good(HandleTransportFailure(c))
         /\ Waiting(HandleTransportFailure(c))
         /\ SameMessages(c, HandleTransportFailure(c))
  <1>1. CASE c.closed \/ c.reconnecting
    BY <1>1 DEF Good, Base, Waiting, HandleTransportFailure, SameMessages
  <1>2. CASE ~ (c.closed \/ c.reconnecting) /\ c.attempt < MaxAttempts
    <2>1. c.attempt + 1 \in 0 .. MaxAttempts
      BY <1>2, AttemptsAssumption DEF Good, Connection
    <2>. QED
      BY <1>2, <2>1 DEF Good, Base, Waiting, Connection, HandleTransportFailure, SameMessages
  <1>3. CASE ~ (c.closed \/ c.reconnecting) /\ ~ (c.attempt < MaxAttempts)
    <2>1. Append(c.out, "error") \in Seq({"open", "completed", "error"})
      BY DEF Good, Connection
    <2>. QED
      BY <1>3, <2>1 DEF Good, Base, Waiting, Connection, HandleTransportFailure, SameMessages
  <1>. QED BY <1>1, <1>2, <1>3

LEMMA TimeoutFacts ==
  ASSUME NEW c, Good(c)
  PROVE  /\ Good(HandshakeTimeout(c))
         /\ Waiting(HandshakeTimeout(c))
         /\ SameMessages(c, HandshakeTimeout(c))
  <1>1. PICK d : d = [c EXCEPT !.handshaking = FALSE]
    OBVIOUS
  <1>2. Good(d) /\ SameMessages(c, d) /\ d.ready = c.ready /\ d.closed = c.closed
    BY <1>1 DEF Good, Base, Connection, SameMessages
  <1>3. CASE c.ready \/ c.closed
    <2>1. HandshakeTimeout(c) = d
      BY <1>1, <1>3 DEF HandshakeTimeout
    <2>2. Waiting(d)
      BY <1>2, <1>3 DEF Good, Base, Waiting
    <2>. QED BY <1>2, <2>1, <2>2
  <1>4. CASE ~ (c.ready \/ c.closed)
    <2>1. HandshakeTimeout(c) = HandleTransportFailure(d)
      BY <1>1, <1>4 DEF HandshakeTimeout
    <2>. QED BY <1>2, <2>1, FailureFacts DEF SameMessages
  <1>. QED BY <1>3, <1>4

\* send() moves a message nobody holds yet to the queue or to its coroutine.
LEMMA SendFacts ==
  ASSUME NEW c, NEW m \in Msg, NEW written, NEW known,
         Good(c), Waiting(c), Ledger(c, written, known),
         m \in known, m \notin written, c.pending # m, c.coro[m] = "none"
  PROVE  /\ Good(SendNow(c, m))
         /\ Waiting(SendNow(c, m))
         /\ Ledger(SendNow(c, m), written, known)
  <1>1. CASE ~ c.ready
    <2>1. PICK q : q = [c EXCEPT !.pending = m]
      OBVIOUS
    <2>2. Good(q) /\ q.pending = m /\ q.coro = c.coro
      BY <2>1 DEF Good, Base, Connection
    <2>3. Good(ClearReconnectTimer(q)) /\ SameMessages(q, ClearReconnectTimer(q))
      BY <2>2, ClearFacts
    <2>4. PICK o : o = OpenSession(ClearReconnectTimer(q))
      OBVIOUS
    <2>5. Good(o) /\ Waiting(o) /\ o.pending = m /\ o.coro = c.coro
      BY <2>2, <2>3, <2>4, OpenFacts DEF SameMessages
    <2>6. SendNow(c, m) = o
      BY <1>1, <2>1, <2>4 DEF SendNow
    <2>7. Ledger(o, written, known)
      BY <2>5 DEF Ledger
    <2>. QED BY <2>5, <2>6, <2>7
  <1>2. CASE c.ready
    <2>1. PICK d : d = [c EXCEPT !.coro[m] = "start", !.stale = @ \ {m}]
      OBVIOUS
    <2>2. SendNow(c, m) = d
      BY <1>2, <2>1 DEF SendNow, Good, Base
    <2>3. Good(d)
      BY <2>1 DEF Good, Base, Connection
    <2>4. Waiting(d)
      BY <1>2, <2>1 DEF Good, Base, Connection, Waiting
    <2>5. d.pending = c.pending /\ d.coro = [c.coro EXCEPT ![m] = "start"]
      BY <2>1 DEF Good, Connection
    <2>6. c.coro \in [Msg -> {"none", "start", "chat"}]
      BY DEF Good, Connection
    <2>7. Ledger(d, written, known)
      BY <2>5, <2>6 DEF Ledger
    <2>. QED BY <2>2, <2>3, <2>4, <2>7
  <1>. QED BY <1>1, <1>2

\* What the acknowledgement does: connected, no timers, the queue emptied.
LEMMA AckFacts ==
  ASSUME NEW c, NEW written, NEW known,
         Good(c), c.reader, Ledger(c, written, known)
  PROVE  /\ Good(AckNow(c))
         /\ Waiting(AckNow(c))
         /\ Ledger(AckNow(c), written, known)
  <1>1. PICK up : up = ClearReconnectTimer([c EXCEPT !.ready = TRUE, !.attempt = 0,
                                                    !.status = "connected"])
    OBVIOUS
  <1>2. Good(up) /\ SameMessages(c, up) /\ up.ready
    <2>1. PICK a : a = [c EXCEPT !.ready = TRUE, !.attempt = 0, !.status = "connected"]
      OBVIOUS
    <2>2. 0 \in 0 .. MaxAttempts
      BY AttemptsAssumption
    <2>3. a \in Connection /\ SameMessages(c, a) /\ a.ready /\ a.status = "connected"
          /\ a.place = "idle" /\ a.stream /\ a.key /\ (a.live => a.node)
          /\ (a.closed /\ a.live => a.outlived)
      BY <2>1, <2>2 DEF Good, Base, Connection, SameMessages
    <2>4. up = [a EXCEPT !.reconnecting = FALSE, !.handshaking = FALSE]
      BY <1>1, <2>1 DEF ClearReconnectTimer
    <2>. QED BY <2>3, <2>4 DEF Good, Base, Connection, SameMessages, Early
  <1>3. Waiting(up) /\ Ledger(up, written, known)
    BY <1>2 DEF Waiting, Good, Base, SameMessages, Ledger
  <1>4. PICK go : go = IF c.pending = NoMsg THEN up
                       ELSE SendNow([up EXCEPT !.pending = NoMsg], c.pending)
    OBVIOUS
  <1>5. Good(go) /\ Waiting(go) /\ Ledger(go, written, known)
    <2>1. CASE c.pending = NoMsg
      BY <1>2, <1>3, <1>4, <2>1
    <2>2. CASE c.pending # NoMsg
      <3>1. PICK e : e = [up EXCEPT !.pending = NoMsg]
        OBVIOUS
      <3>2. Good(e) /\ Waiting(e) /\ e.pending = NoMsg /\ e.coro = up.coro
        BY <1>2, <1>3, <3>1 DEF Good, Base, Waiting, Connection
      <3>3. c.pending \in Msg /\ c.pending \in known /\ c.pending \notin written
            /\ c.coro[c.pending] = "none"
        BY <2>2 DEF Good, Connection, Ledger
      <3>4. Ledger(e, written, known)
        BY <1>3, <3>2, NoMsgAssumption DEF Ledger
      <3>5. e.pending # c.pending /\ e.coro[c.pending] = "none"
        BY <1>2, <2>2, <3>2, <3>3 DEF SameMessages
      <3>6. PICK m \in Msg : m = c.pending
        BY <3>3
      <3>7. Good(SendNow(e, m)) /\ Waiting(SendNow(e, m)) /\ Ledger(SendNow(e, m), written, known)
        BY <3>2, <3>3, <3>4, <3>5, <3>6, SendFacts
      <3>. QED BY <1>4, <2>2, <3>1, <3>6, <3>7
    <2>. QED BY <2>1, <2>2
  <1>6. PICK d : d = [go EXCEPT !.out = Append(@, "open")]
    OBVIOUS
  <1>7. d = AckNow(c)
    BY <1>1, <1>4, <1>6 DEF AckNow
  <1>8. Append(go.out, "open") \in Seq({"open", "completed", "error"})
    BY <1>5 DEF Good, Connection
  <1>9. Good(d) /\ SameMessages(go, d)
    BY <1>5, <1>6, <1>8 DEF Good, Base, Connection, SameMessages
  <1>10. Waiting(d)
    BY <1>5, <1>6 DEF Waiting, Good, Connection
  <1>11. Ledger(d, written, known)
    BY <1>5, <1>9 DEF SameMessages, Ledger
  <1>. QED BY <1>7, <1>9, <1>10, <1>11

LEMMA ReconnectFacts ==
  ASSUME NEW c, Good(c)
  PROVE  /\ Good(ReconnectNow(c))
         /\ Waiting(ReconnectNow(c))
         /\ SameMessages(c, ReconnectNow(c))
  <1>1. PICK k : k = [ClearReconnectTimer(c) EXCEPT !.closed = FALSE, !.outlived = FALSE,
                                                    !.attempt = 0, !.ready = FALSE]
    OBVIOUS
  <1>a. PICK t : t = ClearReconnectTimer(c)
    OBVIOUS
  <1>b. Good(t) /\ SameMessages(c, t) /\ t.place = c.place /\ t.reader = c.reader
        /\ t.status = c.status /\ t.live = c.live /\ t.node = c.node
    BY <1>a DEF ClearReconnectTimer, Good, Base, Connection, SameMessages
  <1>c. 0 \in 0 .. MaxAttempts
    BY AttemptsAssumption
  <1>2. k \in Connection /\ SameMessages(c, k) /\ ~ k.closed /\ ~ k.ready
        /\ k.place = c.place /\ k.reader = c.reader /\ k.status = c.status
        /\ k.live = c.live /\ k.node = c.node
    <2>1. k = [t EXCEPT !.closed = FALSE, !.outlived = FALSE, !.attempt = 0, !.ready = FALSE]
      BY <1>1, <1>a
    <2>2. t \in Connection
      BY <1>b DEF Good
    <2>3. k \in Connection /\ SameMessages(t, k)
      BY <1>c, <2>1, <2>2 DEF Connection, SameMessages
    <2>4. /\ ~ k.closed /\ ~ k.ready /\ k.place = t.place /\ k.reader = t.reader
          /\ k.status = t.status /\ k.live = t.live /\ k.node = t.node
      BY <2>1, <2>2 DEF Connection
    <2>. QED BY <1>b, <2>3, <2>4 DEF SameMessages
  <1>3. PICK f : f = Forget(k)
    OBVIOUS
  <1>4. f \in Connection /\ SameMessages(k, f) /\ ~ f.closed /\ ~ f.ready /\ ~ f.live
        /\ f.place = c.place /\ f.reader = c.reader /\ f.status = c.status /\ ~ f.key
    BY <1>2, <1>3 DEF Forget, Connection, SameMessages, Good, Base
  <1>5. PICK o : o = OpenSession(f)
    OBVIOUS
  <1>6. o = ReconnectNow(c)
    BY <1>1, <1>3, <1>5 DEF ReconnectNow
  <1>7. CASE c.place # "idle"
    <2>1. o = f
      BY <1>4, <1>5, <1>7 DEF OpenSession
    <2>2. Base(f) /\ Waiting(f)
      BY <1>4, <1>7 DEF Good, Base, Waiting
    <2>. QED BY <1>2, <1>4, <1>6, <2>1, <2>2 DEF Good, SameMessages
  <1>8. CASE c.place = "idle"
    <2>1. PICK g : g = Forget(f)
      OBVIOUS
    <2>2. g \in Connection /\ SameMessages(f, g) /\ ~ g.closed /\ ~ g.live
      BY <1>4, <2>1 DEF Forget, Connection, SameMessages
    <2>3. o = [g EXCEPT !.place = "stopping", !.ready = FALSE, !.reader = FALSE,
                        !.handshaking = FALSE, !.status = "connecting"]
      BY <1>4, <1>5, <1>8, <2>1 DEF OpenSession
    <2>4. o \in Connection /\ SameMessages(g, o)
      BY <2>2, <2>3 DEF Connection, SameMessages, Opening
    <2>5. Base(o) /\ Waiting(o)
      BY <2>2, <2>3 DEF Connection, Base, Waiting
    <2>. QED BY <1>2, <1>4, <1>6, <2>2, <2>4, <2>5 DEF Good, SameMessages
  <1>. QED BY <1>7, <1>8

LEMMA CloseFacts ==
  ASSUME NEW c, Good(c)
  PROVE  /\ Good(CloseNow(c))
         /\ Waiting(CloseNow(c))
         /\ SameMessages(c, CloseNow(c))
  <1>1. PICK k : k = ClearReconnectTimer(c)
    OBVIOUS
  <1>2. Good(k) /\ SameMessages(c, k)
    BY <1>1, ClearFacts
  <1>3. k.node = c.node /\ k.live = c.live /\ k.place = c.place
    BY <1>1 DEF ClearReconnectTimer, Good, Connection
  <1>4. (k.live /\ ~ c.node) = FALSE
    BY <1>3 DEF Good, Base
  <1>5. PICK d : d = [k EXCEPT !.closed = TRUE, !.ready = FALSE, !.live = FALSE,
                               !.outlived = c.place \in Early, !.status = "disconnected"]
    OBVIOUS
  <1>6. d = CloseNow(c)
    BY <1>1, <1>4, <1>5, Zenon DEF CloseNow
  <1>7. CASE c.place \in Early
    <2>1. (c.place \in Early) = TRUE
      BY <1>7
    <2>2. d = [k EXCEPT !.closed = TRUE, !.ready = FALSE, !.live = FALSE,
                        !.outlived = TRUE, !.status = "disconnected"]
      BY <1>5, <2>1, Zenon
    <2>3. d \in Connection /\ SameMessages(k, d)
      BY <1>2, <2>2 DEF Good, Connection, SameMessages
    <2>4. Base(d) /\ Waiting(d)
      BY <1>2, <1>3, <1>7, <2>2 DEF Good, Connection, Base, Waiting
    <2>. QED BY <1>2, <1>6, <2>3, <2>4 DEF Good, SameMessages
  <1>8. CASE ~ (c.place \in Early)
    <2>1. (c.place \in Early) = FALSE
      BY <1>8
    <2>2. d = [k EXCEPT !.closed = TRUE, !.ready = FALSE, !.live = FALSE,
                        !.outlived = FALSE, !.status = "disconnected"]
      BY <1>5, <2>1, Zenon
    <2>3. d \in Connection /\ SameMessages(k, d)
      BY <1>2, <2>2 DEF Good, Connection, SameMessages
    <2>4. Base(d) /\ Waiting(d)
      BY <1>2, <1>3, <1>8, <2>2 DEF Good, Connection, Base, Waiting
    <2>. QED BY <1>2, <1>6, <2>3, <2>4 DEF Good, SameMessages
  <1>. QED BY <1>7, <1>8

\* The catch block is only reached while opening.
LEMMA CatchFacts ==
  ASSUME NEW c, Good(c), c.place # "idle"
  PROVE  /\ Good(Catch(c))
         /\ Waiting(Catch(c))
         /\ SameMessages(c, Catch(c))
  <1>1. PICK f : f = Forget(c)
    OBVIOUS
  <1>2. f \in Connection /\ SameMessages(c, f) /\ ~ f.live
        /\ f.ready = c.ready /\ f.reader = c.reader /\ f.status = c.status /\ f.closed = c.closed
    BY <1>1 DEF Forget, Connection, SameMessages, Good, Base
  <1>3. PICK d : d = [f EXCEPT !.place = "cleanup"]
    OBVIOUS
  <1>4. d = Catch(c)
    BY <1>1, <1>3 DEF Catch
  <1>5. d \in Connection /\ SameMessages(f, d) /\ Base(d) /\ Waiting(d)
    BY <1>2, <1>3 DEF Good, Base, Waiting, Connection, SameMessages, Opening, Early
  <1>. QED BY <1>2, <1>4, <1>5 DEF Good, SameMessages

-----------------------------------------------------------------------------
(* The steps.                                                              *)

EnvOK ==
  /\ wire \in BOOLEAN /\ bound \in BOOLEAN
  /\ nav \in {"fresh", "greeted", "serving", "refused"}
  /\ inbox \in Seq(Frame)
  /\ work \subseteq Msg /\ sent \subseteq Msg

Known == asked \subseteq Msg /\ clicks \in 0 .. MaxClicks

LEMMA NowFacts ==
  ASSUME IInv
  PROVE  /\ Good(Now) /\ Waiting(Now) /\ SameMessages(conn, Now)
         /\ Ledger(Now, sent, asked)
         /\ Now.place = conn.place /\ Now.reader = conn.reader /\ Now.closed = conn.closed
  <1>1. <<>> \in Seq({"open", "completed", "error"})
    OBVIOUS
  <1>2. Now \in Connection
    BY <1>1 DEF Now, IInv, TypeOK, Connection
  <1>3. SameMessages(conn, Now)
    BY DEF Now, SameMessages, IInv, TypeOK, Connection
  <1>4. Base(Now) /\ Waiting(Now) /\ Now.place = conn.place /\ Now.reader = conn.reader
        /\ Now.closed = conn.closed
    BY DEF Now, IInv, TypeOK, Connection, Base, Waiting
  <1>5. Ledger(Now, sent, asked)
    BY <1>3 DEF SameMessages, IInv, Ledger
  <1>. QED BY <1>2, <1>3, <1>4, <1>5 DEF Good

LEMMA BecomeFacts ==
  ASSUME IInv, NEW c, Become(c)
  PROVE  conn' = c /\ sent' = sent /\ EnvOK'
  <1>1. <<>> \in Seq(Frame)
    OBVIOUS
  <1>2. CASE conn.stream /\ ~ c.stream
    BY <1>1, <1>2 DEF Become, IInv, TypeOK, EnvOK
  <1>3. CASE ~ (conn.stream /\ ~ c.stream)
    BY <1>3 DEF Become, env, IInv, TypeOK, EnvOK
  <1>. QED BY <1>2, <1>3

\* A step whose new closure moves no message keeps the invariant.
LEMMA QuietStep ==
  ASSUME IInv, NEW d, conn' = d, Good(d), Waiting(d), SameMessages(conn, d),
         EnvOK', sent' = sent, Known', asked' = asked
  PROVE  IInv' /\ MovesNone
  BY DEF MovesNone, IInv, TypeOK, Good, EnvOK, Known, SameMessages, Ledger

LEMMA InitIInv == Init => IInv
  <1>. SUFFICES ASSUME Init PROVE IInv
    OBVIOUS
  <1>1. PICK r : r = [place |-> "idle", closed |-> FALSE, ready |-> FALSE, node |-> FALSE,
                      live |-> FALSE, outlived |-> FALSE, stream |-> FALSE, key |-> FALSE, reconnecting |-> FALSE,
                      handshaking |-> FALSE, attempt |-> 0, pending |-> NoMsg, reader |-> FALSE,
                      status |-> "connecting", coro |-> [m \in Msg |-> "none"], stale |-> {},
                      out |-> <<>>]
    OBVIOUS
  <1>2. r \in Connection
    BY <1>1, AttemptsAssumption DEF Connection
  <1>3. Base(r)
    BY <1>1 DEF Base
  <1>4. conn = OpenSession(r)
    BY <1>1 DEF Init
  <1>5. Good(conn) /\ Waiting(conn) /\ SameMessages(r, conn)
    BY <1>2, <1>3, <1>4, OpenFacts DEF Good
  <1>6. Ledger(conn, sent, asked)
    BY <1>1, <1>5 DEF Init, SameMessages, Ledger
  <1>7. <<>> \in Seq(Frame) /\ 0 \in 0 .. MaxClicks
    BY AttemptsAssumption
  <1>8. EnvOK /\ Known
    BY <1>7 DEF Init, EnvOK, Known
  <1>. QED BY <1>5, <1>6, <1>8 DEF IInv, TypeOK, Good, EnvOK, Known

LEMMA ReconnectStep ==
  ASSUME IInv, Reconnect \/ Close
  PROVE  IInv' /\ MovesNone
  <1>1. PICK n : n = Now
    OBVIOUS
  <1>2. Good(n) /\ Waiting(n) /\ SameMessages(conn, n)
    BY <1>1, NowFacts
  <1>4. CASE Reconnect
    <2>1. conn' = ReconnectNow(n) /\ sent' = sent /\ asked' = asked /\ EnvOK' /\ Known'
      <3>1. PICK c : c = ReconnectNow(n)
        OBVIOUS
      <3>2. Become(c)
        BY <1>1, <1>4, <3>1 DEF Reconnect, Become
      <3>. QED BY <1>4, <3>1, <3>2, BecomeFacts, AttemptsAssumption
               DEF Reconnect, IInv, TypeOK, Known
    <2>. QED BY <1>2, <2>1, ReconnectFacts, QuietStep DEF SameMessages
  <1>5. CASE Close
    <2>1. conn' = CloseNow(n) /\ sent' = sent /\ asked' = asked /\ EnvOK' /\ Known'
      <3>1. PICK c : c = CloseNow(n)
        OBVIOUS
      <3>2. Become(c)
        BY <1>1, <1>5, <3>1 DEF Close, Become
      <3>. QED BY <1>5, <3>1, <3>2, BecomeFacts DEF Close, IInv, TypeOK, Known
    <2>. QED BY <1>2, <2>1, CloseFacts, QuietStep DEF SameMessages
  <1>. QED BY <1>4, <1>5

LEMMA UserStep ==
  ASSUME IInv, (\E m \in Msg : Send(m)) \/ Reconnect \/ Close
  PROVE  IInv'
  <1>1. PICK n : n = Now
    OBVIOUS
  <1>2. Good(n) /\ Waiting(n) /\ SameMessages(conn, n) /\ Ledger(n, sent, asked)
    BY <1>1, NowFacts
  <1>3. CASE \E m \in Msg : Send(m)
    <2>1. PICK m \in Msg : Send(m)
      BY <1>3
    <2>2. conn' = SendNow(n, m) /\ sent' = sent /\ asked' = asked \cup {m} /\ m \notin asked
          /\ EnvOK' /\ Known'
      <3>1. PICK c : c = SendNow(n, m)
        OBVIOUS
      <3>2. Become(c)
        BY <1>1, <2>1, <3>1 DEF Send, Become
      <3>. QED BY <2>1, <3>1, <3>2, BecomeFacts DEF Send, IInv, TypeOK, Known
    <2>3. Ledger(n, sent, asked')
      BY <1>2, <2>2 DEF Ledger
    <2>4. m \in asked' /\ m \notin sent /\ n.pending # m /\ n.coro[m] = "none"
      <3>1. n.coro \in [Msg -> {"none", "start", "chat"}]
        BY <1>2 DEF Good, Connection
      <3>. QED BY <1>2, <2>2, <3>1, NoMsgAssumption DEF Ledger
    <2>5. PICK s, a : s = sent /\ a = asked'
      OBVIOUS
    <2>6. Good(conn') /\ Waiting(conn') /\ Ledger(conn', s, a)
      BY <1>2, <2>2, <2>3, <2>4, <2>5, SendFacts
    <2>. QED BY <2>2, <2>5, <2>6 DEF IInv, TypeOK, Good, EnvOK, Known
  <1>4. CASE Reconnect \/ Close
    BY <1>4, ReconnectStep
  <1>. QED BY <1>3, <1>4

LEMMA OpeningStep ==
  ASSUME IInv, OpenSessionResumes
  PROVE  IInv' /\ MovesNone
  <1>1. PICK n : n = Now
    OBVIOUS
  <1>2. Good(n) /\ Waiting(n) /\ SameMessages(conn, n) /\ n.place = conn.place
    BY <1>1, NowFacts
  <1>3. asked' = asked /\ Known'
    BY DEF OpenSessionResumes, IInv, TypeOK, Known
  <1>4. ASSUME NEW d, conn' = d, sent' = sent, EnvOK', Good(d), Waiting(d), SameMessages(n, d)
        PROVE  IInv' /\ MovesNone
    BY <1>2, <1>3, <1>4, QuietStep DEF SameMessages
  <1>5. ASSUME NEW d, Become(d), Good(d), Waiting(d), SameMessages(n, d)
        PROVE  IInv' /\ MovesNone
    BY <1>4, <1>5, BecomeFacts
  <1>6. CASE Stopped
    <2>1. PICK d : d = [n EXCEPT !.place = "config"]
      OBVIOUS
    <2>2. Become(d)
      BY <1>1, <1>6, <2>1 DEF Stopped, Become
    <2>3. Good(d) /\ Waiting(d) /\ SameMessages(n, d)
      BY <1>2, <1>6, <2>1 DEF Stopped, Good, Base, Waiting, Connection, Opening, Early, SameMessages
    <2>. QED BY <1>5, <2>2, <2>3
  <1>7. CASE Configured
    <2>1. PICK d : d = [n EXCEPT !.place = "keygen"]
      OBVIOUS
    <2>2. Become(d)
      BY <1>1, <1>7, <2>1 DEF Configured, Become
    <2>3. Good(d) /\ Waiting(d) /\ SameMessages(n, d)
      BY <1>2, <1>7, <2>1 DEF Configured, Good, Base, Waiting, Connection, Opening, Early, SameMessages
    <2>. QED BY <1>5, <2>2, <2>3
  <1>8. CASE ConfigFails
    <2>1. PICK d : d = [n EXCEPT !.place = "idle", !.status = "disconnected", !.out = <<"error">>]
      OBVIOUS
    <2>2. Become(d)
      BY <1>1, <1>8, <2>1 DEF ConfigFails, Become
    <2>3. <<"error">> \in Seq({"open", "completed", "error"})
      OBVIOUS
    <2>4. Good(d) /\ Waiting(d) /\ SameMessages(n, d)
      BY <1>2, <1>8, <2>1, <2>3
         DEF ConfigFails, Good, Base, Waiting, Connection, Opening, Early, SameMessages
    <2>. QED BY <1>5, <2>2, <2>4
  <1>9. CASE KeyGenerated
    <2>1. PICK d : d = [n EXCEPT !.place = "creating", !.key = TRUE]
      OBVIOUS
    <2>2. Become(d)
      BY <1>1, <1>9, <2>1 DEF KeyGenerated, Become
    <2>3. Good(d) /\ Waiting(d) /\ SameMessages(n, d)
      BY <1>2, <1>9, <2>1 DEF KeyGenerated, Good, Base, Waiting, Connection, Opening, Early, SameMessages
    <2>. QED BY <1>5, <2>2, <2>3
  <1>10. CASE NodeCreated
    <2>1. PICK d : d = [n EXCEPT !.place = "discovering", !.node = TRUE, !.live = TRUE]
      OBVIOUS
    <2>2. Become(d)
      BY <1>1, <1>10, <2>1 DEF NodeCreated, Become
    <2>3. Good(d) /\ Waiting(d) /\ SameMessages(n, d)
      BY <1>2, <1>10, <2>1 DEF NodeCreated, Good, Base, Waiting, Connection, Opening, Early, SameMessages
    <2>. QED BY <1>5, <2>2, <2>3
  <1>11. CASE Discovered
    <2>1. PICK d : d = [n EXCEPT !.place = "streaming"]
      OBVIOUS
    <2>2. Become(d)
      BY <1>1, <1>11, <2>1 DEF Discovered, Become
    <2>3. Good(d) /\ Waiting(d) /\ SameMessages(n, d)
      BY <1>2, <1>11, <2>1 DEF Discovered, Good, Base, Waiting, Connection, Opening, Early, SameMessages
    <2>. QED BY <1>5, <2>2, <2>3
  <1>12. CASE StreamOpened
    <2>1. PICK c : c = [n EXCEPT !.stream = TRUE]
      OBVIOUS
    <2>2. Good(c) /\ Waiting(c) /\ SameMessages(n, c) /\ c.place = "streaming"
          /\ c.key = conn.key /\ c.stream
      <3>1. n.key = conn.key
        BY <1>1 DEF Now, IInv, TypeOK, Connection
      <3>. QED BY <1>2, <1>12, <2>1, <3>1
               DEF StreamOpened, Good, Base, Waiting, Connection, Early, SameMessages
    <2>3. sent' = sent /\ EnvOK'
      BY <1>12 DEF StreamOpened, IInv, TypeOK, Connection, EnvOK
    <2>4. CASE conn.key
      <3>1. PICK d : d = [c EXCEPT !.place = "signing"]
        OBVIOUS
      <3>2. conn' = d
        BY <1>1, <1>12, <2>1, <2>4, <3>1 DEF StreamOpened
      <3>3. Good(d) /\ Waiting(d) /\ SameMessages(n, d)
        BY <2>2, <3>1 DEF Good, Base, Waiting, Connection, Opening, Early, SameMessages
      <3>. QED BY <1>4, <2>3, <3>2, <3>3
    <2>5. CASE ~ conn.key
      <3>1. conn' = Catch(c)
        BY <1>1, <1>12, <2>1, <2>5 DEF StreamOpened
      <3>2. Good(Catch(c)) /\ Waiting(Catch(c)) /\ SameMessages(n, Catch(c))
        BY <2>2, CatchFacts DEF SameMessages
      <3>. QED BY <1>4, <2>3, <3>1, <3>2
    <2>. QED BY <2>4, <2>5
  <1>13. CASE HandshakeSent
    <2>1. PICK c : c = [n EXCEPT !.handshaking = TRUE]
      OBVIOUS
    <2>2. Good(c) /\ Waiting(c) /\ SameMessages(n, c) /\ c.place = "signing"
          /\ c.key = conn.key /\ c.handshaking
      <3>1. n.key = conn.key
        BY <1>1 DEF Now, IInv, TypeOK, Connection
      <3>. QED BY <1>2, <1>13, <2>1, <3>1
               DEF HandshakeSent, Good, Base, Waiting, Connection, Early, SameMessages
    <2>3. CASE conn.key
      <3>1. PICK d : d = [c EXCEPT !.place = "idle", !.reader = TRUE]
        OBVIOUS
      <3>2. conn' = d
        BY <1>1, <1>13, <2>1, <2>3, <3>1 DEF HandshakeSent
      <3>3. Good(d) /\ Waiting(d) /\ SameMessages(n, d)
        BY <2>2, <2>3, <3>1 DEF Good, Base, Waiting, Connection, Opening, Early, SameMessages
      <3>4. sent' = sent /\ EnvOK'
        BY <1>13, <2>3 DEF HandshakeSent, IInv, TypeOK, EnvOK
      <3>. QED BY <1>4, <3>2, <3>3, <3>4
    <2>4. CASE ~ conn.key
      <3>1. PICK d : d = Catch(c)
        OBVIOUS
      <3>2. Become(d)
        BY <1>1, <1>13, <2>1, <2>4, <3>1 DEF HandshakeSent, Become
      <3>3. Good(d) /\ Waiting(d) /\ SameMessages(n, d)
        BY <2>2, <3>1, CatchFacts DEF SameMessages
      <3>. QED BY <1>5, <3>2, <3>3
    <2>. QED BY <2>3, <2>4
  <1>14. CASE OpeningFails
    <2>1. PICK d : d = Catch(n)
      OBVIOUS
    <2>2. Become(d)
      BY <1>1, <1>14, <2>1 DEF OpeningFails, Become
    <2>3. n.place # "idle"
      BY <1>2, <1>14 DEF OpeningFails
    <2>. QED BY <1>2, <1>5, <2>1, <2>2, <2>3, CatchFacts
  <1>15. CASE CleanedUp
    <2>1. PICK c : c = [n EXCEPT !.place = "idle"]
      OBVIOUS
    <2>2. Good(c) /\ SameMessages(n, c)
      BY <1>2, <1>15, <2>1 DEF CleanedUp, Good, Base, Connection, Opening, Early, SameMessages
    <2>3. PICK d : d = HandleTransportFailure(c)
      OBVIOUS
    <2>4. Become(d)
      BY <1>1, <1>15, <2>1, <2>3 DEF CleanedUp, Become
    <2>5. Good(d) /\ Waiting(d) /\ SameMessages(n, d)
      BY <2>2, <2>3, FailureFacts DEF SameMessages
    <2>. QED BY <1>5, <2>4, <2>5
  <1>. QED BY <1>6, <1>7, <1>8, <1>9, <1>10, <1>11, <1>12, <1>13, <1>14, <1>15
           DEF OpenSessionResumes

LEMMA TimerStep ==
  ASSUME IInv, ReconnectFires \/ HandshakeFires
  PROVE  IInv' /\ MovesNone
  <1>1. PICK n : n = Now
    OBVIOUS
  <1>2. Good(n) /\ Waiting(n) /\ SameMessages(conn, n)
    BY <1>1, NowFacts
  <1>3. asked' = asked /\ Known'
    BY DEF ReconnectFires, HandshakeFires, IInv, TypeOK, Known
  <1>4. ASSUME NEW d, Become(d), Good(d), Waiting(d), SameMessages(n, d)
        PROVE  IInv' /\ MovesNone
    BY <1>2, <1>3, <1>4, BecomeFacts, QuietStep DEF SameMessages
  <1>5. CASE ReconnectFires
    <2>1. PICK c : c = [n EXCEPT !.reconnecting = FALSE]
      OBVIOUS
    <2>2. Good(c) /\ SameMessages(n, c)
      BY <1>2, <2>1 DEF Good, Base, Connection, SameMessages
    <2>3. PICK d : d = OpenSession(c)
      OBVIOUS
    <2>4. Become(d)
      BY <1>1, <1>5, <2>1, <2>3 DEF ReconnectFires, Become
    <2>. QED BY <1>4, <2>2, <2>3, <2>4, OpenFacts DEF SameMessages
  <1>6. CASE HandshakeFires
    <2>1. PICK d : d = HandshakeTimeout(n)
      OBVIOUS
    <2>2. Become(d)
      BY <1>1, <1>6, <2>1 DEF HandshakeFires, Become
    <2>. QED BY <1>2, <1>4, <2>1, <2>2, TimeoutFacts
  <1>. QED BY <1>5, <1>6

LEMMA EndStep ==
  ASSUME IInv, StreamEnds
  PROVE  IInv' /\ MovesNone
  <1>1. PICK n : n = Now
    OBVIOUS
  <1>2. Good(n) /\ Waiting(n) /\ SameMessages(conn, n)
    BY <1>1, NowFacts
  <1>3. asked' = asked /\ sent' = sent /\ Known' /\ EnvOK'
    BY DEF StreamEnds, env, IInv, TypeOK, Known, EnvOK
  <1>5. IInv' /\ MovesNone
    <2>1. PICK c : c = [n EXCEPT !.reader = FALSE]
      OBVIOUS
    <2>2. Good(c) /\ Waiting(c) /\ SameMessages(n, c)
      BY <1>2, <2>1 DEF Good, Base, Waiting, Connection, SameMessages
    <2>3. conn' = IF c.closed THEN c ELSE HandleTransportFailure(c)
      BY <1>1, <2>1 DEF StreamEnds
    <2>4. Good(conn') /\ Waiting(conn') /\ SameMessages(n, conn')
      BY <2>2, <2>3, FailureFacts DEF SameMessages
    <2>. QED BY <1>2, <1>3, <2>4, QuietStep DEF SameMessages
  <1>. QED BY <1>5

LEMMA ReaderStep ==
  ASSUME IInv, ReadFrame \/ StreamEnds
  PROVE  IInv'
  <1>1. PICK n : n = Now
    OBVIOUS
  <1>2. Good(n) /\ Waiting(n) /\ SameMessages(conn, n) /\ Ledger(n, sent, asked)
        /\ n.reader = conn.reader
    BY <1>1, NowFacts
  <1>3. asked' = asked /\ sent' = sent /\ Known' /\ EnvOK'
    <2>1. CASE ReadFrame
      BY <2>1 DEF ReadFrame, IInv, TypeOK, Known, EnvOK
    <2>2. CASE StreamEnds
      BY <2>2 DEF StreamEnds, env, IInv, TypeOK, Known, EnvOK
    <2>. QED BY <2>1, <2>2
  <1>4. CASE ReadFrame
    <2>1. PICK frame \in Frame : frame = Head(inbox)
      BY <1>4 DEF ReadFrame, IInv, TypeOK
    <2>2. conn' = HandleEnvelope(n, frame) /\ n.reader
      BY <1>1, <1>2, <1>4, <2>1 DEF ReadFrame
    <2>3. CASE frame = "ack"
      <3>1. PICK s, a : s = sent /\ a = asked
        OBVIOUS
      <3>2. conn' = AckNow(n)
        BY <2>2, <2>3 DEF HandleEnvelope
      <3>3. Good(conn') /\ Waiting(conn') /\ Ledger(conn', s, a)
        BY <1>2, <2>2, <3>1, <3>2, AckFacts
      <3>. QED BY <1>3, <3>1, <3>3 DEF IInv, TypeOK, Good, EnvOK, Known
    <2>4. CASE frame # "ack"
      <3>1. PICK d : d = [n EXCEPT !.out = Append(@, frame)]
        OBVIOUS
      <3>2. conn' = d
        BY <2>2, <2>4, <3>1 DEF HandleEnvelope
      <3>3. Append(n.out, frame) \in Seq({"open", "completed", "error"})
        BY <1>2, <2>4 DEF Frame, Good, Connection
      <3>4. Good(d) /\ Waiting(d) /\ SameMessages(n, d)
        BY <1>2, <3>1, <3>3 DEF Good, Base, Waiting, Connection, SameMessages
      <3>. QED BY <1>2, <1>3, <3>2, <3>4, QuietStep DEF SameMessages
    <2>. QED BY <2>3, <2>4
  <1>5. CASE StreamEnds
    BY <1>5, EndStep
  <1>. QED BY <1>4, <1>5

\* send() resumes: its message stays where it is or leaves, written or not.
LEMMA SendStep ==
  ASSUME IInv, NEW m \in Msg, SendResumes(m)
  PROVE  IInv'
  <1>1. PICK n : n = Now
    OBVIOUS
  <1>2. Good(n) /\ Waiting(n) /\ Ledger(n, sent, asked)
        /\ n.coro \in [Msg -> {"none", "start", "chat"}]
    BY <1>1, NowFacts DEF Good, Connection
  <1>3. n.coro = conn.coro
    BY <1>1, NowFacts DEF SameMessages
  <1>4. asked' = asked /\ Known' /\ EnvOK'
    <2>1. CASE WriteFails(m)
      BY <2>1 DEF WriteFails, env, IInv, TypeOK, Known, EnvOK
    <2>2. CASE StartSent(m)
      <3>1. bound' \in BOOLEAN
        BY <2>2, Zenon DEF StartSent
      <3>. QED BY <2>2, <3>1 DEF StartSent, IInv, TypeOK, Known, EnvOK
    <2>3. CASE ChatSent(m)
      BY <2>3 DEF ChatSent, IInv, TypeOK, Known, EnvOK
    <2>. QED BY <2>1, <2>2, <2>3 DEF SendResumes
  <1>5. n.coro[m] # "none"
    BY <1>3 DEF SendResumes, WriteFails, StartSent, ChatSent
  <1>6. m \in asked /\ n.pending # m
    BY <1>2, <1>5 DEF Ledger
  <1>7. ASSUME NEW d, NEW k \in {"none", "chat"}, conn' = d, Good(d), Waiting(d),
               d.pending = n.pending, d.coro = [n.coro EXCEPT ![m] = k],
               sent' = sent \/ (sent' = sent \cup {m} /\ k = "none")
        PROVE  IInv'
    <2>1. m \notin sent
      BY <1>2, <1>5 DEF Ledger
    <2>2. Ledger(d, sent', asked')
      BY <1>2, <1>4, <1>6, <1>7, <2>1 DEF Ledger
    <2>. QED BY <1>4, <1>7, <2>2 DEF IInv, TypeOK, Good, EnvOK, Known
  <1>8. CASE WriteFails(m)
    <2>1. PICK d : d = [n EXCEPT !.coro[m] = "none", !.stale = @ \ {m}, !.out = <<"error">>]
      OBVIOUS
    <2>2. <<"error">> \in Seq({"open", "completed", "error"})
      OBVIOUS
    <2>3. Good(d) /\ Waiting(d) /\ d.pending = n.pending /\ d.coro = [n.coro EXCEPT ![m] = "none"]
      BY <1>2, <2>1, <2>2 DEF Good, Base, Waiting, Connection
    <2>4. conn' = d /\ sent' = sent
      BY <1>1, <1>8, <2>1 DEF WriteFails, env
    <2>. QED BY <1>7, <2>3, <2>4
  <1>9. CASE StartSent(m)
    <2>1. PICK k \in {"none", "chat"} : k = IF conn.stream /\ conn.key THEN "chat" ELSE "none"
      OBVIOUS
    <2>2. PICK d : d = [n EXCEPT !.coro[m] = k, !.stale = @ \ {m}]
      OBVIOUS
    <2>3. Good(d) /\ Waiting(d) /\ d.pending = n.pending /\ d.coro = [n.coro EXCEPT ![m] = k]
      BY <1>2, <2>1, <2>2 DEF Good, Base, Waiting, Connection
    <2>4. conn' = d /\ sent' = sent
      BY <1>1, <1>9, <2>1, <2>2 DEF StartSent
    <2>. QED BY <1>7, <2>3, <2>4
  <1>10. CASE ChatSent(m)
    <2>1. PICK d : d = [n EXCEPT !.coro[m] = "none", !.stale = @ \ {m}]
      OBVIOUS
    <2>2. Good(d) /\ Waiting(d) /\ d.pending = n.pending /\ d.coro = [n.coro EXCEPT ![m] = "none"]
      BY <1>2, <2>1 DEF Good, Base, Waiting, Connection
    <2>3. conn' = d /\ sent' = sent \cup {m}
      BY <1>1, <1>10, <2>1 DEF ChatSent
    <2>. QED BY <1>7, <2>2, <2>3
  <1>. QED BY <1>8, <1>9, <1>10 DEF SendResumes

LEMMA NetworkStep ==
  ASSUME IInv, (\E m \in Msg : NavigatorAnswers(m)) \/ NavigatorAcks \/ StreamDrops
  PROVE  IInv' /\ MovesNone
  <1>1. PICK n : n = Now
    OBVIOUS
  <1>2. Good(n) /\ Waiting(n) /\ SameMessages(conn, n)
    BY <1>1, NowFacts
  <1>3. asked' = asked /\ sent' = sent /\ Known'
    BY DEF NavigatorAnswers, NavigatorAcks, StreamDrops, IInv, TypeOK, Known
  <1>4. conn' = n
    BY <1>1 DEF NavigatorAnswers, NavigatorAcks, StreamDrops
  <1>5. EnvOK'
    <2>1. \A frame \in Frame : Append(inbox, frame) \in Seq(Frame)
      BY DEF IInv, TypeOK
    <2>2. {"ack", "completed", "error"} = Frame
      BY DEF Frame
    <2>3. CASE \E m \in Msg : NavigatorAnswers(m)
      BY <2>1, <2>2, <2>3 DEF NavigatorAnswers, IInv, TypeOK, EnvOK
    <2>4. CASE NavigatorAcks
      BY <2>1, <2>2, <2>4 DEF NavigatorAcks, IInv, TypeOK, EnvOK
    <2>5. CASE StreamDrops
      BY <2>5 DEF StreamDrops, IInv, TypeOK, EnvOK
    <2>. QED BY <2>3, <2>4, <2>5
  <1>. QED BY <1>2, <1>3, <1>4, <1>5, QuietStep

LEMMA IInvStep == IInv /\ [Next]_vars => IInv'
  <1>. SUFFICES ASSUME IInv, [Next]_vars PROVE IInv'
    OBVIOUS
  <1>1. CASE (\E m \in Msg : Send(m)) \/ Reconnect \/ Close
    BY <1>1, UserStep
  <1>2. CASE OpenSessionResumes
    BY <1>2, OpeningStep
  <1>3. CASE ReconnectFires \/ HandshakeFires
    BY <1>3, TimerStep
  <1>4. CASE ReadFrame \/ StreamEnds
    BY <1>4, ReaderStep
  <1>5. CASE \E m \in Msg : SendResumes(m)
    BY <1>5, SendStep
  <1>6. CASE (\E m \in Msg : NavigatorAnswers(m)) \/ NavigatorAcks \/ StreamDrops
    BY <1>6, NetworkStep
  <1>7. CASE UNCHANGED vars
    BY <1>7 DEF vars, env, IInv, TypeOK, Base, Waiting, Ledger
  <1>. QED BY <1>1, <1>2, <1>3, <1>4, <1>5, <1>6, <1>7 DEF Next

LEMMA InductiveInvariant == Spec => []IInv
  BY InitIInv, IInvStep, PTL DEF Spec

-----------------------------------------------------------------------------

\* The closure's variables and the stream stay what they are declared to be;
\* in particular no more than MaxAttempts automatic attempts are counted.
THEOREM TypeCorrect == Spec => []TypeOK
  <1>1. IInv => TypeOK
    BY DEF IInv
  <1>. QED BY <1>1, InductiveInvariant, PTL

\* No interleaving of user, timers and network leaves the chat "connecting"
\* with nothing left to move it (api.ts:87).
THEOREM NeverStuckConnecting == Spec => []NeverStalls
  <1>1. IInv => NeverStalls
    BY DEF IInv, Waiting, NeverStalls
  <1>. QED BY <1>1, InductiveInvariant, PTL

\* A ready session has its stream and key and no timer against it, and the view
\* shows "connected" exactly then.
THEOREM ReadyIsTrue == Spec => [](ReadyIsSettled /\ StatusIsTruthful)
  <1>1. IInv => ReadyIsSettled /\ StatusIsTruthful
    BY DEF IInv, Base, ReadyIsSettled, StatusIsTruthful
  <1>. QED BY <1>1, InductiveInvariant, PTL

\* A running libp2p node is where reconnect, close or the next opening stops it,
\* and a closed connection runs one only if close() came before the opening had
\* it: the invariant follows that close() through the rest of the opening.
THEOREM NodesAreOwned == Spec => []NoOrphanNode
  <1>1. IInv => NoOrphanNode
    BY DEF IInv, Base, NoOrphanNode
  <1>. QED BY <1>1, InductiveInvariant, PTL

\* A call of send() writes its request at most once, over any number of sessions.
THEOREM NothingWrittenTwice == Spec => []WrittenOnce
  <1>1. IInv => WrittenOnce
    BY DEF IInv, Ledger, WrittenOnce
  <1>. QED BY <1>1, InductiveInvariant, PTL

\* What ClosedIsSilent asks of a step, for the closure it comes to.
Silent(c, d) ==
  d.out = <<>> /\ d.place = "idle" /\ d.status \in {c.status, "disconnected"}

\* A closed connection with nothing left running calls nobody back, whichever
\* timer fires or message is sent on it, until reconnect().
THEOREM ClosingIsQuiet == Spec => ClosedIsSilent
  <1>1. ASSUME IInv, Next, conn.closed, conn.place = "idle", ~ conn.reader,
               \A m \in Msg : conn.coro[m] = "none", conn'.closed
        PROVE  Silent(conn, conn')
    <2>1. PICK n : n = Now
      OBVIOUS
    <2>2. n \in Connection /\ n.closed /\ n.place = "idle" /\ n.out = <<>>
          /\ n.status = conn.status
      <3>1. conn \in Connection
        BY <1>1 DEF IInv, TypeOK
      <3>2. n = [conn EXCEPT !.out = <<>>]
        BY <2>1 DEF Now
      <3>3. n \in Connection
        BY <1>1, <2>1, NowFacts DEF Good
      <3>4. conn.closed
        BY <1>1
      <3>5. n.closed = conn.closed /\ n.place = conn.place /\ n.out = <<>>
            /\ n.status = conn.status
        BY <3>1, <3>2 DEF Connection
      <3>. QED BY <1>1, <3>3, <3>4, <3>5
    <2>3. ASSUME NEW c \in Connection, c.closed, c.place = "idle"
          PROVE  OpenSession(c) = c /\ HandleTransportFailure(c) = c
      BY <2>3 DEF OpenSession, HandleTransportFailure
    <2>4. CASE \E m \in Msg : Send(m)
      <3>1. PICK m \in Msg : conn' = SendNow(n, m)
        BY <2>1, <2>4 DEF Send, Become
      <3>2. CASE n.ready
        BY <2>2, <3>1, <3>2 DEF SendNow, Connection, Silent
      <3>3. CASE ~ n.ready
        <4>1. PICK c : c = ClearReconnectTimer([n EXCEPT !.pending = m])
          OBVIOUS
        <4>2. c \in Connection /\ c.closed /\ c.place = "idle" /\ c.out = <<>>
              /\ c.status = conn.status
          BY <2>2, <4>1 DEF ClearReconnectTimer, Connection
        <4>3. conn' = OpenSession(c)
          BY <3>1, <3>3, <4>1 DEF SendNow
        <4>. QED BY <2>3, <4>2, <4>3 DEF Silent
      <3>. QED BY <3>2, <3>3
    <2>5. CASE Reconnect
      <3>1. conn' = ReconnectNow(n)
        BY <2>1, <2>5 DEF Reconnect, Become
      <3>2. PICK f : f = Forget([ClearReconnectTimer(n) EXCEPT !.closed = FALSE,
                                   !.outlived = FALSE, !.attempt = 0, !.ready = FALSE])
        OBVIOUS
      <3>3. f.closed = FALSE /\ f.place = "idle"
        BY <2>2, <3>2 DEF Forget, ClearReconnectTimer, Connection
      <3>4. ~ OpenSession(f).closed
        BY <3>3 DEF OpenSession, Forget
      <3>. QED BY <1>1, <3>1, <3>2, <3>4 DEF ReconnectNow
    <2>6. CASE Close
      <3>1. conn' = CloseNow(n)
        BY <2>1, <2>6 DEF Close, Become
      <3>. QED BY <2>2, <3>1 DEF CloseNow, ClearReconnectTimer, Connection, Silent
    <2>7. CASE OpenSessionResumes
      BY <1>1, <2>7 DEF OpenSessionResumes, Stopped, Configured, ConfigFails, KeyGenerated,
         NodeCreated, Discovered, StreamOpened, HandshakeSent, OpeningFails, CleanedUp
    <2>8. CASE ReconnectFires
      <3>1. PICK c : c = [n EXCEPT !.reconnecting = FALSE]
        OBVIOUS
      <3>2. conn' = OpenSession(c)
        BY <2>1, <2>8, <3>1 DEF ReconnectFires, Become
      <3>3. /\ c \in Connection /\ c.closed = n.closed /\ c.place = n.place
            /\ c.out = n.out /\ c.status = n.status
        BY <2>2, <3>1 DEF Connection
      <3>4. OpenSession(c) = c
        BY <2>2, <2>3, <3>3
      <3>. QED BY <2>2, <3>2, <3>3, <3>4 DEF Silent
    <2>9. CASE HandshakeFires
      <3>1. PICK d : d = [n EXCEPT !.handshaking = FALSE]
        OBVIOUS
      <3>2. conn' = HandshakeTimeout(n)
        BY <2>1, <2>9 DEF HandshakeFires, Become
      <3>3. conn' = d
        BY <2>2, <3>1, <3>2 DEF HandshakeTimeout
      <3>4. d.out = n.out /\ d.place = n.place /\ d.status = n.status
        BY <2>2, <3>1 DEF Connection
      <3>. QED BY <2>2, <3>3, <3>4 DEF Silent
    <2>10. CASE ReadFrame \/ StreamEnds
      BY <1>1, <2>10 DEF ReadFrame, StreamEnds
    <2>11. CASE \E m \in Msg : SendResumes(m)
      BY <1>1, <2>11 DEF SendResumes, WriteFails, StartSent, ChatSent
    <2>12. CASE (\E m \in Msg : NavigatorAnswers(m)) \/ NavigatorAcks \/ StreamDrops
      BY <2>1, <2>2, <2>12 DEF NavigatorAnswers, NavigatorAcks, StreamDrops, Silent
    <2>. QED
      BY <1>1, <2>4, <2>5, <2>6, <2>7, <2>8, <2>9, <2>10, <2>11, <2>12 DEF Next
  <1>2. IInv /\ [Next]_vars =>
          [ conn.closed /\ conn.place = "idle" /\ ~ conn.reader
            /\ (\A m \in Msg : conn.coro[m] = "none") /\ conn'.closed
            => /\ conn'.out = <<>> /\ conn'.place = "idle"
               /\ conn'.status \in {conn.status, "disconnected"} ]_vars
    BY <1>1 DEF Silent
  <1>. QED BY <1>2, InductiveInvariant, PTL DEF Spec, ClosedIsSilent

-----------------------------------------------------------------------------
(* The turn of the chat view (ChatTurn).  Its steps are steps of the        *)
(* connection, with a message queued by the view sent as soon as it opens,  *)
(* so the connection's invariant comes along.  A turn is accounted for      *)
(* because its message, once prepared, is queued, held by the connection or *)
(* written, and nothing but the end of the turn takes it out of there       *)
(* (Tended); which needs that ready means a stream and a key to write to.   *)

\* A message the connection holds.
Holds(c, m) == c.pending = m \/ c.coro[m] # "none"

TurnTypes ==
  /\ streaming \in BOOLEAN /\ turn \in Text \cup {NoText} /\ failed \subseteq Text
  /\ queued \in Msg \cup {NoMsg} /\ about \in [Msg -> Text \cup {NoText}]
  /\ preparing \subseteq Msg /\ dropped \subseteq Msg

\* What the view has queued is a call of its own that nobody has made yet.
Queued ==
  queued # NoMsg => queued \notin asked /\ queued \notin preparing /\ about[queued] # NoText

\* The message of the turn, by its call c, is somewhere.
Tends(c) == c \in preparing \/ queued = c \/ Holds(conn, c) \/ c \in sent \/ c \in dropped
Tended == streaming => \E c \in Msg : about[c] = turn /\ Tends(c)

TurnInv == IInv /\ TurnTypes /\ Queued /\ Tended /\ FailedIsOver

\* send() keeps hold of what it holds, unless it queues the message instead of another.
LEMMA SendHolds ==
  ASSUME NEW c, Good(c), NEW m \in Msg
  PROVE  /\ Holds(SendNow(c, m), m)
         /\ c.ready => \A x \in Msg : Holds(c, x) => Holds(SendNow(c, m), x)
  <1>1. CASE ~ c.ready
    <2>1. PICK q : q = [c EXCEPT !.pending = m]
      OBVIOUS
    <2>2. Good(q) /\ q.pending = m
      BY <2>1 DEF Good, Base, Connection
    <2>3. PICK r : r = ClearReconnectTimer(q)
      OBVIOUS
    <2>4. Good(r) /\ r.pending = m
      BY <2>2, <2>3, ClearFacts DEF SameMessages
    <2>5. SendNow(c, m) = OpenSession(r)
      BY <1>1, <2>1, <2>3 DEF SendNow
    <2>6. OpenSession(r).pending = m
      BY <2>4, OpenFacts DEF SameMessages
    <2>. QED BY <1>1, <2>5, <2>6 DEF Holds
  <1>2. CASE c.ready
    <2>1. PICK d : d = [c EXCEPT !.coro[m] = "start", !.stale = @ \ {m}]
      OBVIOUS
    <2>2. SendNow(c, m) = d
      BY <1>2, <2>1 DEF SendNow, Good, Base
    <2>3. d.pending = c.pending /\ d.coro = [c.coro EXCEPT ![m] = "start"]
          /\ c.coro \in [Msg -> {"none", "start", "chat"}]
      BY <2>1 DEF Good, Connection
    <2>. QED BY <2>2, <2>3 DEF Holds
  <1>. QED BY <1>1, <1>2

\* The acknowledgement makes the session ready and loses no message.
LEMMA AckHolds ==
  ASSUME NEW c, Good(c), c.reader
  PROVE  AckNow(c).ready /\ \A x \in Msg : Holds(c, x) => Holds(AckNow(c), x)
  <1>1. PICK a : a = [c EXCEPT !.ready = TRUE, !.attempt = 0, !.status = "connected"]
    OBVIOUS
  <1>2. PICK up : up = [a EXCEPT !.reconnecting = FALSE, !.handshaking = FALSE]
    OBVIOUS
  <1>3. Good(up) /\ SameMessages(c, up) /\ up.ready /\ up.stream /\ up.key
    <2>1. 0 \in 0 .. MaxAttempts
      BY AttemptsAssumption
    <2>2. a \in Connection /\ SameMessages(c, a) /\ a.ready /\ a.status = "connected"
          /\ a.place = "idle" /\ a.stream /\ a.key /\ (a.live => a.node)
          /\ (a.closed /\ a.live => a.outlived)
      BY <1>1, <2>1 DEF Good, Base, Connection, SameMessages
    <2>. QED BY <1>2, <2>2 DEF Good, Base, Connection, SameMessages, Early
  <1>4. PICK go : go = IF c.pending = NoMsg THEN up
                       ELSE SendNow([up EXCEPT !.pending = NoMsg], c.pending)
    OBVIOUS
  <1>5. AckNow(c) = [go EXCEPT !.out = Append(@, "open")]
    BY <1>1, <1>2, <1>4 DEF AckNow, ClearReconnectTimer
  <1>6. go \in Connection /\ go.ready /\ \A x \in Msg : Holds(c, x) => Holds(go, x)
    <2>1. CASE c.pending = NoMsg
      BY <1>3, <1>4, <2>1 DEF Good, Holds, SameMessages
    <2>2. CASE c.pending # NoMsg
      <3>1. PICK m \in Msg : m = c.pending
        BY <2>2 DEF Good, Connection
      <3>2. PICK e : e = [up EXCEPT !.pending = NoMsg]
        OBVIOUS
      <3>3. e \in Connection /\ e.ready /\ e.stream /\ e.key /\ e.coro = up.coro
        BY <1>3, <3>2 DEF Good, Connection
      <3>4. go = [e EXCEPT !.coro[m] = "start", !.stale = @ \ {m}]
        BY <1>4, <2>2, <3>1, <3>2, <3>3 DEF SendNow
      <3>5. go \in Connection /\ go.ready /\ go.coro = [c.coro EXCEPT ![m] = "start"]
            /\ c.coro \in [Msg -> {"none", "start", "chat"}]
        BY <1>3, <3>3, <3>4 DEF Connection, SameMessages, Good
      <3>. QED BY <3>1, <3>5 DEF Holds
    <2>. QED BY <2>1, <2>2
  <1>7. PICK d : d = [go EXCEPT !.out = Append(@, "open")]
    OBVIOUS
  <1>8. d.ready = go.ready /\ d.pending = go.pending /\ d.coro = go.coro
    BY <1>6, <1>7 DEF Connection
  <1>. QED BY <1>5, <1>6, <1>7, <1>8 DEF Holds

\* A step that moves no message leaves each where it is.
LEMMA MovesNoneHolds ==
  ASSUME MovesNone
  PROVE  \A x \in Msg : Holds(conn, x) => Holds(conn', x)
  BY DEF MovesNone, SameMessages, Holds

\* send()'s coroutine lets go of its own message alone: written, failed with an event,
\* or given up without one.
LEMMA ResumesHold ==
  ASSUME IInv, NEW m \in Msg, SendResumes(m)
  PROVE  /\ sent \subseteq sent'
         /\ \A x \in Msg : Holds(conn, x) => Holds(conn', x) \/ x = m
         /\ \/ Holds(conn', m)
            \/ conn'.out = <<"error">>
            \/ m \in sent'
            \/ conn.coro[m] = "start" /\ conn'.coro[m] = "none" /\ conn'.out = <<>>
  <1>1. PICK n : n = Now
    OBVIOUS
  <1>2. n \in Connection /\ n.pending = conn.pending /\ n.coro = conn.coro /\ n.out = <<>>
        /\ n.coro \in [Msg -> {"none", "start", "chat"}]
    <2>1. n.out = <<>>
      BY <1>1 DEF Now, IInv, TypeOK, Connection
    <2>. QED BY <1>1, <2>1, NowFacts DEF Good, SameMessages, Connection
  <1>3. CASE WriteFails(m)
    <2>1. PICK d : d = [n EXCEPT !.coro[m] = "none", !.stale = @ \ {m}, !.out = <<"error">>]
      OBVIOUS
    <2>2. d.out = <<"error">> /\ d.pending = n.pending /\ d.coro = [n.coro EXCEPT ![m] = "none"]
      BY <1>2, <2>1 DEF Connection
    <2>3. conn' = d /\ sent' = sent
      BY <1>1, <1>3, <2>1 DEF WriteFails, env
    <2>. QED BY <1>2, <2>2, <2>3 DEF Holds
  <1>4. CASE StartSent(m)
    <2>1. PICK k \in {"none", "chat"} : k = IF conn.stream /\ conn.key THEN "chat" ELSE "none"
      OBVIOUS
    <2>2. PICK d : d = [n EXCEPT !.coro[m] = k, !.stale = @ \ {m}]
      OBVIOUS
    <2>3. d.out = <<>> /\ d.pending = n.pending /\ d.coro = [n.coro EXCEPT ![m] = k]
      BY <1>2, <2>2 DEF Connection
    <2>4. conn' = d /\ sent' = sent /\ conn.coro[m] = "start"
      BY <1>1, <1>4, <2>1, <2>2 DEF StartSent
    <2>. QED BY <1>2, <2>3, <2>4 DEF Holds
  <1>5. CASE ChatSent(m)
    <2>1. PICK d : d = [n EXCEPT !.coro[m] = "none", !.stale = @ \ {m}]
      OBVIOUS
    <2>2. d.pending = n.pending /\ d.coro = [n.coro EXCEPT ![m] = "none"]
      BY <1>2, <2>1 DEF Connection
    <2>3. conn' = d /\ sent' = sent \cup {m}
      BY <1>1, <1>5, <2>1 DEF ChatSent
    <2>. QED BY <1>2, <2>2, <2>3 DEF Holds
  <1>. QED BY <1>3, <1>4, <1>5 DEF SendResumes

LEMMA ReadHolds ==
  ASSUME IInv, ReadFrame
  PROVE  sent' = sent /\ \A x \in Msg : Holds(conn, x) => Holds(conn', x)
  <1>1. PICK n : n = Now
    OBVIOUS
  <1>2. Good(n) /\ SameMessages(conn, n) /\ n.reader
    BY <1>1, NowFacts DEF ReadFrame
  <1>3. conn' = HandleEnvelope(n, Head(inbox)) /\ sent' = sent
    BY <1>1 DEF ReadFrame
  <1>4. CASE Head(inbox) = "ack"
    <2>1. conn' = AckNow(n)
      BY <1>3, <1>4 DEF HandleEnvelope
    <2>2. \A x \in Msg : Holds(n, x) => Holds(AckNow(n), x)
      BY <1>2, AckHolds
    <2>. QED BY <1>2, <1>3, <2>1, <2>2 DEF SameMessages, Holds
  <1>5. CASE Head(inbox) # "ack"
    <2>1. PICK d : d = [n EXCEPT !.out = Append(@, Head(inbox))]
      OBVIOUS
    <2>2. conn' = d /\ d.pending = n.pending /\ d.coro = n.coro
      BY <1>2, <1>3, <1>5, <2>1 DEF HandleEnvelope, Good, Connection
    <2>. QED BY <1>2, <1>3, <2>2 DEF SameMessages, Holds
  <1>. QED BY <1>4, <1>5

\* A step of the view alone: the connection only begins a new step.
LEMMA ViewStep ==
  ASSUME IInv, conn' = Now, UNCHANGED <<env, asked, clicks>>
  PROVE  IInv' /\ MovesNone
  <1>1. PICK n : n = Now
    OBVIOUS
  <1>2. Good(n) /\ Waiting(n) /\ SameMessages(conn, n)
    BY <1>1, NowFacts
  <1>3. EnvOK' /\ Known' /\ sent' = sent /\ asked' = asked
    BY DEF env, IInv, TypeOK, EnvOK, Known
  <1>. QED BY <1>1, <1>2, <1>3, QuietStep

LEMMA DispatchStep ==
  ASSUME TurnInv, NEW t \in Text, Dispatch(t)
  PROVE  TurnInv'
  <1>1. PICK c \in Msg : /\ about[c] = NoText
                         /\ about' = [about EXCEPT ![c] = t]
                         /\ preparing' = preparing \cup {c}
    BY DEF Dispatch
  <1>2. IInv'
    BY ViewStep DEF Dispatch, TurnInv
  <1>3. turn' = t /\ streaming' = TRUE /\ failed' = failed \ {t}
        /\ UNCHANGED <<asked, queued, dropped>>
    BY DEF Dispatch
  <1>4. TurnTypes'
    BY <1>1, <1>3 DEF TurnInv, TurnTypes
  <1>5. Queued'
    BY <1>1, <1>3 DEF TurnInv, TurnTypes, Queued
  <1>6. Tended'
    <2>1. about'[c] = t /\ c \in preparing'
      BY <1>1 DEF TurnInv, TurnTypes
    <2>. QED BY <1>3, <2>1 DEF Tended, Tends
  <1>7. FailedIsOver'
    BY <1>3, NoTextAssumption DEF FailedIsOver
  <1>. QED BY <1>2, <1>4, <1>5, <1>6, <1>7 DEF TurnInv

LEMMA PreparedStep ==
  ASSUME TurnInv, NEW c \in Msg, Prepared(c)
  PROVE  TurnInv'
  <1>1. c \in preparing /\ preparing' = preparing \ {c}
        /\ UNCHANGED <<streaming, turn, failed, queued, about, dropped>>
    BY DEF Prepared, view
  <1>2. TurnTypes' /\ FailedIsOver'
    BY <1>1 DEF TurnInv, TurnTypes, FailedIsOver
  <1>3. CASE streaming /\ turn = about[c]
    <2>1. Send(c)
      BY <1>3 DEF Prepared
    <2>2. IInv'
      BY <2>1, UserStep DEF TurnInv
    <2>3. asked' = asked \cup {c}
      BY <2>1 DEF Send
    <2>4. Queued'
      BY <1>1, <2>3 DEF TurnInv, Queued
    <2>5. Holds(conn', c)
      <3>1. PICK n : n = Now
        OBVIOUS
      <3>2. conn' = SendNow(n, c)
        BY <2>1, <3>1 DEF Send, Become
      <3>3. Good(n)
        BY <3>1, NowFacts DEF TurnInv
      <3>. QED BY <3>2, <3>3, SendHolds
    <2>6. Tended'
      BY <1>1, <1>3, <2>5 DEF Tended, Tends
    <2>. QED BY <1>2, <2>2, <2>4, <2>6 DEF TurnInv
  <1>4. CASE ~ (streaming /\ turn = about[c])
    <2>1. conn' = Now /\ UNCHANGED <<env, asked, clicks>>
      BY <1>4 DEF Prepared
    <2>2. IInv' /\ MovesNone
      BY <2>1, ViewStep DEF TurnInv
    <2>3. Queued'
      BY <1>1, <2>1 DEF TurnInv, Queued
    <2>4. Tended'
      <3>1. \A x \in Msg : about[x] = turn /\ streaming /\ Tends(x) => Tends(x)'
        BY <1>1, <1>4, <2>2, MovesNoneHolds DEF Tends, MovesNone
      <3>. QED BY <1>1, <3>1 DEF TurnInv, Tended
    <2>. QED BY <1>2, <2>2, <2>3, <2>4 DEF TurnInv
  <1>. QED BY <1>3, <1>4

LEMMA ButtonStep ==
  ASSUME TurnInv, ReconnectButton
  PROVE  TurnInv'
  <1>1. IInv' /\ MovesNone
    BY ReconnectStep DEF ReconnectButton, TurnInv
  <1>2. UNCHANGED <<streaming, turn, failed, queued, about, preparing, dropped, asked>>
    BY DEF ReconnectButton, Reconnect, view
  <1>3. TurnTypes' /\ FailedIsOver' /\ Queued'
    BY <1>2 DEF TurnInv, TurnTypes, FailedIsOver, Queued
  <1>4. \A x \in Msg : Tends(x) => Tends(x)'
    BY <1>1, <1>2, MovesNoneHolds DEF Tends, MovesNone
  <1>5. Tended'
    BY <1>2, <1>4 DEF TurnInv, Tended
  <1>. QED BY <1>1, <1>3, <1>5 DEF TurnInv

\* The session opens and what the view has queued goes out with it.
LEMMA QueuedStep ==
  ASSUME TurnInv, SendQueued
  PROVE  TurnInv'
  <1>1. PICK n : n = Now
    OBVIOUS
  <1>2. PICK k : k = AckNow(n)
    OBVIOUS
  <1>3. PICK q \in Msg : q = queued
    BY DEF SendQueued, OpensWithQueued, TurnInv, TurnTypes
  <1>4. /\ conn.reader /\ inbox # <<>> /\ queued # NoMsg
        /\ conn' = SendNow(k, q) /\ inbox' = Tail(inbox)
        /\ asked' = asked \cup {q} /\ queued' = NoMsg
        /\ UNCHANGED <<wire, nav, bound, work, sent, clicks, streaming, turn, failed, about,
                       preparing, dropped>>
    BY <1>1, <1>2, <1>3 DEF SendQueued, OpensWithQueued, HandleEnvelope
  <1>5. Good(n) /\ SameMessages(conn, n) /\ n.reader /\ Ledger(n, sent, asked)
    BY <1>1, <1>4, NowFacts DEF TurnInv
  <1>6. PICK s, a : s = sent /\ a = asked
    OBVIOUS
  <1>7. Good(k) /\ Waiting(k) /\ Ledger(k, s, a)
    BY <1>2, <1>5, <1>6, AckFacts
  <1>8. q \notin a
    BY <1>3, <1>4, <1>6 DEF TurnInv, Queued
  <1>9. PICK b : b = a \cup {q}
    OBVIOUS
  <1>10. Ledger(k, s, b) /\ q \in b /\ q \notin s /\ k.pending # q /\ k.coro[q] = "none"
    <2>1. k.coro \in [Msg -> {"none", "start", "chat"}]
      BY <1>7 DEF Good, Connection
    <2>2. k.pending # q
      BY <1>3, <1>4, <1>7, <1>8 DEF Ledger
    <2>3. k.coro[q] = "none" /\ q \notin s
      BY <1>7, <1>8, <2>1 DEF Ledger
    <2>. QED BY <1>7, <1>9, <2>2, <2>3 DEF Ledger
  <1>11. Good(conn') /\ Waiting(conn') /\ Ledger(conn', s, b)
    BY <1>4, <1>7, <1>10, SendFacts
  <1>12. inbox' \in Seq(Frame)
    BY <1>4 DEF TurnInv, IInv, TypeOK
  <1>13. IInv'
    BY <1>4, <1>6, <1>9, <1>11, <1>12 DEF TurnInv, IInv, TypeOK, Good
  <1>14. TurnTypes' /\ FailedIsOver' /\ Queued'
    BY <1>4 DEF TurnInv, TurnTypes, FailedIsOver, Queued
  <1>15. /\ Holds(conn', q)
         /\ \A x \in Msg : Holds(conn, x) => Holds(conn', x)
    <2>1. k.ready /\ \A x \in Msg : Holds(n, x) => Holds(k, x)
      BY <1>2, <1>5, AckHolds
    <2>2. Holds(conn', q) /\ \A x \in Msg : Holds(k, x) => Holds(conn', x)
      BY <1>4, <1>7, <2>1, SendHolds
    <2>3. \A x \in Msg : Holds(conn, x) => Holds(n, x)
      BY <1>5 DEF SameMessages, Holds
    <2>. QED BY <2>1, <2>2, <2>3
  <1>16. \A x \in Msg : Tends(x) => Tends(x)'
    BY <1>3, <1>4, <1>15 DEF Tends
  <1>17. Tended'
    BY <1>4, <1>16 DEF TurnInv, Tended
  <1>. QED BY <1>13, <1>14, <1>17 DEF TurnInv

\* An event ends the turn, or the view stays as it is.
LEMMA EventEnds ==
  ASSUME HandleEvent, failed \subseteq Text
  PROVE  /\ \/ streaming' = FALSE /\ turn' = NoText /\ queued' \in {queued, NoMsg}
               /\ failed' \subseteq Text
            \/ UNCHANGED view
         /\ conn'.out = <<"error">> => streaming' = FALSE
  <1>1. CASE conn'.out = <<"completed">>
    <2>1. EndTurn /\ UNCHANGED <<failed, queued>>
      BY <1>1 DEF HandleEvent
    <2>. QED BY <2>1 DEF EndTurn
  <1>2. CASE conn'.out # <<"completed">> /\ conn'.out = <<"error">>
    <2>1. EndTurn /\ failed' = failed \cup ({turn} \cap Text) /\ queued' = NoMsg
      BY <1>2 DEF HandleEvent
    <2>. QED BY <2>1 DEF EndTurn
  <1>3. CASE conn'.out # <<"completed">> /\ conn'.out # <<"error">>
    BY <1>3 DEF HandleEvent
  <1>. QED BY <1>1, <1>2, <1>3

\* In a step of the connection a message is lost sight of only with an event that ends
\* the turn, or by send() giving up between its writes, which dropped records.
LEMMA ConnectionHolds ==
  ASSUME TurnInv, ConnectionStep
  PROVE  /\ IInv' /\ asked' = asked /\ sent \subseteq sent'
         /\ dropped \subseteq dropped' /\ dropped' \subseteq Msg
         /\ \A x \in Msg : Holds(conn, x) =>
              Holds(conn', x) \/ conn'.out = <<"error">> \/ x \in sent' \/ x \in dropped'
  <1>1. dropped' = dropped \cup {m \in Msg : /\ conn.coro[m] = "start"
                                             /\ conn'.coro[m] = "none"
                                             /\ conn'.out = <<>>}
    BY DEF ConnectionStep
  <1>2. dropped \subseteq dropped' /\ dropped' \subseteq Msg
    BY <1>1 DEF TurnInv, TurnTypes
  <1>3. ASSUME NEW m \in Msg, SendResumes(m)
        PROVE  /\ IInv' /\ asked' = asked /\ sent \subseteq sent'
               /\ \A x \in Msg : Holds(conn, x) =>
                    Holds(conn', x) \/ conn'.out = <<"error">> \/ x \in sent' \/ x \in dropped'
    <2>1. IInv'
      BY <1>3, SendStep DEF TurnInv
    <2>2. asked' = asked
      BY <1>3 DEF SendResumes, WriteFails, StartSent, ChatSent
    <2>. QED BY <1>1, <1>3, <2>1, <2>2, ResumesHold DEF TurnInv
  <1>4. CASE OpenSessionResumes \/ ReconnectFires \/ HandshakeFires \/ StreamEnds
             \/ (\E m \in Msg : NavigatorAnswers(m)) \/ NavigatorAcks \/ StreamDrops
    <2>1. IInv' /\ MovesNone
      BY <1>4, OpeningStep, TimerStep, EndStep, NetworkStep DEF TurnInv
    <2>2. asked' = asked
      BY <1>4 DEF OpenSessionResumes, ReconnectFires, HandshakeFires, StreamEnds,
                  NavigatorAnswers, NavigatorAcks, StreamDrops
    <2>. QED BY <1>2, <2>1, <2>2, MovesNoneHolds DEF MovesNone
  <1>5. CASE ReadFrame
    <2>1. IInv' /\ asked' = asked
      BY <1>5, ReaderStep DEF TurnInv, ReadFrame
    <2>. QED BY <1>2, <1>5, <2>1, ReadHolds DEF TurnInv
  <1>. QED BY <1>2, <1>3, <1>4, <1>5 DEF ConnectionStep

LEMMA ConnectionKeeps ==
  ASSUME TurnInv, ConnectionStep
  PROVE  TurnInv'
  <1>1. IInv' /\ asked' = asked /\ sent \subseteq sent'
        /\ dropped \subseteq dropped' /\ dropped' \subseteq Msg
    BY ConnectionHolds
  <1>2. UNCHANGED <<about, preparing>>
    BY DEF ConnectionStep
  <1>3. /\ \/ streaming' = FALSE /\ turn' = NoText /\ queued' \in {queued, NoMsg}
              /\ failed' \subseteq Text
           \/ UNCHANGED view
        /\ conn'.out = <<"error">> => streaming' = FALSE
    BY EventEnds DEF ConnectionStep, TurnInv, TurnTypes
  <1>4. CASE streaming' = FALSE /\ turn' = NoText /\ queued' \in {queued, NoMsg}
             /\ failed' \subseteq Text
    <2>1. TurnTypes' /\ Queued' /\ Tended' /\ FailedIsOver'
      BY <1>1, <1>2, <1>4, NoTextAssumption
         DEF TurnInv, TurnTypes, Queued, Tended, FailedIsOver
    <2>. QED BY <1>1, <2>1 DEF TurnInv
  <1>5. CASE streaming' # FALSE /\ UNCHANGED view
    <2>1. UNCHANGED <<streaming, turn, failed, queued>>
      BY <1>5 DEF view
    <2>2. TurnTypes' /\ Queued' /\ FailedIsOver'
      BY <1>1, <1>2, <2>1 DEF TurnInv, TurnTypes, Queued, FailedIsOver
    <2>3. \A x \in Msg : Tends(x) => Tends(x)'
      BY <1>1, <1>2, <1>3, <1>5, <2>1, ConnectionHolds DEF Tends
    <2>4. Tended'
      BY <1>2, <2>1, <2>3 DEF TurnInv, Tended
    <2>. QED BY <1>1, <2>2, <2>4 DEF TurnInv
  <1>6. CASE streaming' = FALSE /\ UNCHANGED view
    <2>1. UNCHANGED <<streaming, turn, failed, queued>>
      BY <1>6 DEF view
    <2>2. TurnTypes' /\ Queued' /\ FailedIsOver' /\ Tended'
      BY <1>1, <1>2, <1>6, <2>1 DEF TurnInv, TurnTypes, Queued, FailedIsOver, Tended
    <2>. QED BY <1>1, <2>2 DEF TurnInv
  <1>. QED BY <1>3, <1>4, <1>5, <1>6

LEMMA TurnInitHolds == TurnInit => TurnInv
  <1>. SUFFICES ASSUME TurnInit PROVE TurnInv
    OBVIOUS
  <1>1. Init /\ failed = {} /\ preparing = {} /\ dropped = {}
    BY DEF TurnInit
  <1>2. IInv
    BY <1>1, InitIInv
  <1>3. asked = {}
    BY <1>1 DEF Init
  <1>4. CASE /\ streaming = FALSE /\ turn = NoText /\ queued = NoMsg
             /\ about = [c \in Msg |-> NoText]
    <2>1. TurnTypes /\ Queued /\ Tended /\ FailedIsOver
      BY <1>1, <1>4 DEF TurnTypes, Queued, Tended, FailedIsOver
    <2>. QED BY <1>2, <2>1 DEF TurnInv
  <1>5. CASE \E c \in Msg, t \in Text :
               /\ streaming = TRUE /\ turn = t /\ queued = c
               /\ about = [d \in Msg |-> IF d = c THEN t ELSE NoText]
    <2>1. PICK c \in Msg, t \in Text :
               /\ streaming = TRUE /\ turn = t /\ queued = c
               /\ about = [d \in Msg |-> IF d = c THEN t ELSE NoText]
      BY <1>5
    <2>2. about[c] = t /\ t # NoText
      BY <2>1, NoTextAssumption
    <2>3. TurnTypes /\ Queued /\ Tended /\ FailedIsOver
      BY <1>1, <1>3, <2>1, <2>2 DEF TurnTypes, Queued, Tended, Tends, FailedIsOver
    <2>. QED BY <1>2, <2>3 DEF TurnInv
  <1>. QED BY <1>4, <1>5 DEF TurnInit

LEMMA TurnStep == TurnInv /\ [TurnNext]_turnVars => TurnInv'
  <1>. SUFFICES ASSUME TurnInv, [TurnNext]_turnVars PROVE TurnInv'
    OBVIOUS
  <1>1. CASE \E t \in Text : Submit(t) \/ Retry(t)
    BY <1>1, DispatchStep DEF Submit, Retry
  <1>2. CASE \E c \in Msg : Prepared(c)
    BY <1>2, PreparedStep
  <1>3. CASE ReconnectButton
    BY <1>3, ButtonStep
  <1>4. CASE SendQueued
    BY <1>4, QueuedStep
  <1>5. CASE ConnectionStep
    BY <1>5, ConnectionKeeps
  <1>6. CASE UNCHANGED turnVars
    <2>1. IInv'
      BY <1>6, IInvStep DEF turnVars, TurnInv
    <2>2. UNCHANGED <<conn, sent, asked, streaming, turn, failed, queued, about, preparing, dropped>>
      BY <1>6 DEF turnVars, vars, env, view
    <2>3. TurnTypes' /\ Queued' /\ Tended' /\ FailedIsOver'
      BY <2>2 DEF TurnInv, TurnTypes, Queued, Tended, Tends, Holds, FailedIsOver
    <2>. QED BY <2>1, <2>3 DEF TurnInv
  <1>. QED BY <1>1, <1>2, <1>3, <1>4, <1>5, <1>6 DEF TurnNext

LEMMA TurnInvariant == TurnSpec => []TurnInv
  BY TurnInitHolds, TurnStep, PTL DEF TurnSpec

\* However submit, retry, reconnections and errors fall, a view that streams has its
\* message on its way, written, or given up between its two writes.
THEOREM TurnsAreAccountedFor == TurnSpec => []TurnIsAccountedFor
  <1>1. TurnInv => TurnIsAccountedFor
    <2>. SUFFICES ASSUME TurnInv, streaming PROVE \E c \in Msg : about[c] = turn /\ (Alive(c) \/ c \in sent \cup dropped)
      BY DEF TurnIsAccountedFor
    <2>1. PICK c \in Msg : about[c] = turn /\ Tends(c)
      BY DEF TurnInv, Tended
    <2>2. Alive(c) \/ c \in sent \cup dropped
      BY <2>1 DEF Tends, Holds, Alive
    <2>. QED BY <2>1, <2>2
  <1>. QED BY <1>1, TurnInvariant, PTL

\* A message marked failed is not the one of the turn, and the view streams exactly
\* while it has a turn: what can be retried is over.
THEOREM FailedTurnsAreOver == TurnSpec => []FailedIsOver
  <1>1. TurnInv => FailedIsOver
    BY DEF TurnInv
  <1>. QED BY <1>1, TurnInvariant, PTL

=============================================================================
