# galaxIA-Core in TLA+

galaxIA-Core is a decentralised chat network (FHS): a browser portal opens a
libp2p session with a *Navigator*, which finds providers of models (*Stars*) and
tools (*Satellites*) over GossipSub, hands them work by auction and streams the
answer back. These modules model the parts of it where several actors interleave
and the order of things is not written down anywhere else. TLC checks them on small
instances; what matters most is proved with TLAPS for every value of the constants.

Every definition is read off the source at the commit beside this directory;
`PROJECT.json` maps each one to its lines, and lists every run, mutant, finding,
hazard and theorem.

## 1. The system

| Component | Source | State it keeps | Operations |
|---|---|---|---|
| Portal connection | `apps/portal-chat/src/services/api.ts` | one closure: node, stream, key, ready, opening, two timers, attempt count, one queued message | send, reconnect, close; resumptions of `openSession`; frames; timer callbacks |
| Chat view | `components/chat-view.ts` | turn in progress, messages and which failed, queued options, documents in work, authorization cards, the current connection | submit, retry, switch or create conversation, handle event |
| Navigator discovery | `services/p2p-discovery.ts` | one promise settled once, failures by address | announcements, parallel dials, timeout |
| Chat history | `services/chat-history.ts`, `chat-view.ts` | capped conversations, in memory and in `localStorage` | create, choose, upsert, trim, save, load, clear |
| Local RAG | `services/local-rag/` | requests awaited in the page; in a worker, a queue and chunks and vectors in SQLite or IndexedDB | index, query, delete, clear; chunking, ranking |
| Authorization | `authorization.ts`, `commands.ts` | selection of authorised items, command list | toggle, apply |
| Portal session | `apps/navigator/src/p2p/portal-session.ts`, `events/event-bus.ts` | per stream: session id, preferences, pending KB recommendations; one event bus for all | handshake, agentStart, chatRequest, kbDecision, cancel |
| Agent runtime | `agent/runtime.ts`, `agent/kb-matching.ts`, `agent/conformance.ts`, `p2p/p2p-atlas-client.ts` | one request: model and tools found, prompt, tools used, provenance | chat, OCR with failover, network RAG, knowledge bases, recommendation |
| IPFS artifacts | `ipfs/ipfs-client.ts` | pinned file, backstop timers | upload, gateway link, unpin |
| Dispatch | `p2p/p2p-llm-gateway.ts`, `p2p/p2p-mcp-host.ts` | per call: stream, text so far, timer | auction, dial, stream, timeout |
| Mission market | `p2p/mission-cycle.ts`, `p2p/nav-node.ts` | bids by mission, one timer each | offer, bid, deadline, assignment |
| Bootstrap keeper | `packages/fhs-node/src/diagnostics.ts` | a stop flag, a loop per address, the waiters | dial, back off, tag, wait, stop |
| Wire, node assembly, Atlas, log agent | `p2p-wire.ts`, `create-node.ts`, `apps/atlas`, `rust/atlas`, ... | configuration, keys, DHT records of libp2p | encoding, signatures, start-up |

**How they interact.** The view calls the connection (`send`, `reconnect`,
`close`) and is called back (`onEvent`, `onOpen`, `onStatus`). The connection speaks
to the portal session over one libp2p stream: handshake and acknowledgement, then
`agentStart` and `chatRequest` per message, and events in the other direction. The
portal session starts a run per request and forwards what the event bus says about
its session id. A run calls the gateways, which auction each call in the mission
market and then open a stream of their own to the winner. Under all of it every
node keeps its bootstraps connected.

**What is hard.** Everything is a single-threaded event loop per process, so the
hazards are not data races but *awaits*: a state read before an await and used
after it, two callbacks in the order nobody tested, a timer that outlives what it
was for. Streams and GossipSub messages are lost, late, repeated. Sessions are
reopened with the same session id while the runs of the former stream go on.
Failures are retried automatically, by a button and by hand, over each other.

**What makes each component correct.**

- Market: each offer settled exactly once; work only to a provider that bid for
  that very mission in time; the announced provider wins if it bid.
- Bootstrap keeper: no loop rests while its peer is gone; stop means stop.
- Portal connection: the status shown is true; nothing waits for ever; a node that
  runs is where something will stop it; no timer tears a ready session down; no request is written twice; a drop is noticed; closed means silent.
- Chat turn: an open turn has something that will end it; a failed message can be
  retried.
- Conversations: a request leaves on the connection of its own conversation; a reload
  shows what was on the screen; no answer wanders into another conversation.
- Dispatch and runtime: a request ends, whoever fails; nothing is said twice nor after
  the end; in the build of the repository only the message leaves; provenance names
  whose text it rests on; an ephemeral file is removed.
- Discovery: settles once, keeps the connection it chose and no other.
- Portal session: one run per question, on the knowledge bases the user agreed to;
  whoever stays gets an answer.
- Local RAG: a query answers exactly from one reading of each document; what was
  cleared does not return; every request is settled.

The hazards of `PROJECT.json` are this list at the lines where they bite, with the
properties that cover them. Where a property covers less than the hazard, or none does, a
note says what is left, and whether the hazard does go wrong (section 6).

## 2. Modules

| Module | Models | Proofs |
|---|---|---|
| `Auction` | abstract: missions are offered, answered, and settled exactly once | |
| `MissionCycle` | `runMissionCycle`, `selectWinningBid`, `BidCollector`, the pubsub handler | `MissionCycleProofs` |
| `BootstrapKeeper` | `dialBootstraps` | `NetworkProofs` |
| `PortalConnection` | `connectToChat`, the Navigator and the network as its environment | `PortalConnectionProofs` |
| `ChatTurn` | the chat view's turn, composed with `PortalConnection` | `PortalConnectionProofs` |
| `Discovery` | `discoverNavigator` | `NetworkProofs` |
| `AuthorizationCard` | `toggleItem`, the card of `chat-view.ts`, status after a reconnection | `AuthorizationCardProofs` |
| `AgentRun` | `AgentRuntime`, both gateways, `PeerCache`, `kbMatchScore`, the IPFS client | `AgentRunProofs` |
| `PortalSession` | `registerPortalSession`, `EventBus` | `PortalSessionProofs` |
| `Conversation` | the chat view across conversations, `chat-history.ts` | `ConversationProofs` |
| `LocalRag` | `LocalRagStore`, its worker, `chunkText`, `rankCosineTopK` | `LocalRagProofs` |

Each `MC*` module with its `.cfg` files instantiates one of them for TLC.
Operators named `Slip_*` are plausible bugs, placed before the definition they would
replace; nothing uses them. Each property has one that breaks it (`mutants` of
`PROJECT.json`), which shows that the property says something about the code.

### MissionCycle

`phase[m]` is where `runMissionCycle` is for mission `m`; `pending` is the
collector's map, mission to bids in order of arrival. `Open` is everything up to the
await (offer published and waiter opened in one turn of the event loop), `Deliver`
the pubsub handler, `Deadline` the timer together with the rest of `runMissionCycle`,
which resumes in the same turn. The network is a set `sent`: a bid in it may be
delivered at any time, again, or never, which covers loss, delay, duplication and
reordering, and messages dropped for a bad signature. `heard` and `assign` are
histories. A mission id is used once, because it is a fresh UUID. The result of
JavaScript's stable sort is stated, not computed: the earliest of the bids nobody
beats. Scores are integers; `NaN` off the wire is not modelled.

`ImplementsAuction` is the refinement: opened, answered, awarded and abandoned
missions read off `phase`, `sent` and `assign`; it includes the abstract fairness
(every offer is settled).

### BootstrapKeeper

`pc[a]` is the await the loop of address `a` is in. Loops share the stop flag and,
when two addresses carry one peer id, the peer. `link` is the set of peers libp2p
is connected with; it changes under the loops by drops and by libp2p's own dials.
The environment may drop a connection at any moment, in particular while a loop
awaits `peerStore.merge`; `missed` records that this happened. Its specification,
`KeeperSpec`, and a few other names have a prefix, because its proofs stand beside those
of `Discovery` in one module, `NetworkProofs`.

### PortalConnection

`conn` is the closure of `connectToChat`, a record with one field per variable
(`place` stands for `opening` and the await `openSession` is in). The synchronous
functions of the closure are operators from record to record, composed the way the
code calls them (`AckNow` calls `SendNow`, which may call `OpenSession`); an action is
a callback or the resumption of one await. `connectionGeneration` is not kept: a
new opening drops the former stream with all it had received, which is what the
comparison of generations does. `stale` names the calls of `send` whose captured
stream was replaced while they signed. `out` holds the events of the last step, for
the view. `wire`, `nav`, `bound`, `inbox` and `work` are the stream, the Navigator's side of
it, the frames under way and the runs in progress. A run outlives its stream: its
last event goes to whatever stream is bound to the session by then, or to nobody.

`close()` stops the node there is. When it comes before the opening under way has created
its node (`Early` are the awaits before that), it finds none; the opening goes on, starts
one, and nobody calls the connection again, since the view has dropped it. `outlived`
records that this happened, at `close()`. `NoOrphanNode` says that a node which runs is the
connection's, and runs on after a close in this one case only: a `close()` that came
later has stopped it, whatever the opening does next. `NothingOutlivesClose` is what one
would want instead, and is false (section 6).

Left out: the control envelopes, deltas and status events (their handlers change
nothing in the closure), the text of messages, the length of delays. A frame that
does not decode ends the reader like a stream that closes (`StreamEnds`).

### ChatTurn

Extends `PortalConnection`: a step of the connection is a step here, in which the
view handles the events in `conn'.out`. `Msg` are the *calls* of `send()`, `Text` the
user's messages; `about` says which message a call is for, so a retry is a second
call about the same text. The model begins when the view creates its connection,
from the button or for a first message, and ends when the user leaves the
conversation: what a closed connection may still do to the next one is in
`Conversation`.

### Discovery

`state`, `reason`, `blamed` and `chosen` are the promise: whether it is settled, the
stage its error names, the addresses the error lists and the connection handed over.
`handler[a]` is the await `handleAdvertise` is in for announcement `a`: one handler
per announcement, all running at once, and going on after the promise is settled.
`dials` are the dials of announced addresses in flight. A dial returns the open
connection libp2p has with the peer or a new one (`Dialled`), whoever made it: a
bootstrap, another address, another announcement. `returned` and `closed`
are histories. Signature and clock checks are an input: `Kind` says what
verification makes of an announcement. The DHT is asked with a limit of 3 s, so
`ReadBeacon` finds a beacon or does not. A connection closed as surplus is gone at
once. What the caller does with a failure (it stops the node) belongs to
`PortalConnection`, which abstracts all of this by one await.

### AuthorizationCard

`place[r]` says whether request `r` is in the map `authorizationCards` ("asking" and
"decided" are) and `page[r]` whether its card is on the page: two facts the code keeps
apart, since drawing the messages again removes every card (`Fail`, `Retry`).
`allow`, `deny` and `label` are the buttons and the countdown, `late` the clock,
`sent` the decisions that left. `Mark` and `Unmark` state what `toggleItem` computes,
the least addition and the most that may stay; `Add` and `Remove` are its two recursions
as they are written, and `TogglesLikeTheCode` compares. The session is
abstracted to `ready`, the status `PortalConnection` reports; a final outcome under way
(`mail`) and status requests (`asked`) are lost with it. The Navigator that decides is
environment: the one in this repository declares authorization unsupported
(`conformance.ts`). An outcome for a card already resolved makes a card of its own,
as the code does. Labels, risk notes and previews are left out.

### AgentRun

One request from the method of `AgentRuntime` that a portal session calls to its
end. `stage` is the await the method is in; `todo` what its loop has yet to go
through (OCR tools, knowledge bases or tool calls); `call` the one dispatch under way,
from the offer to the last frame (`phase`). `Assigned` lets any provider win, which is
what the market allows (`MissionCycle`): the one asked for is `asked`, the one that
executes is `by`. A timer rejects the call and leaves its reader behind: `late` holds
those readers, and `LateAcked`, `LateDelta` and `LateOver` are what they go on to do.
`CallEnds` is every end of a dispatch, in the stage it belongs to; `LocalStep` is the
code between two dispatches. `cache` is `PeerCache`, a sequence because the code
iterates in order of insertion and takes the first.

`conformant` is the build constant of `conformance.ts`. Both values are checked: in
the repository's build no context, file or tool call may leave. `Payload` tells apart what
a model request carries: the user's `message`; the `dialogue` it became, when a Star
asked for tools and the request is repeated with its answer and the results or
errors of the tools; or a `context` of documents, knowledge bases or tools. The second
request may be executed by another Star than the first, so a dialogue of one Star may
reach another. Visibility, capabilities
and tool names are read off a beacon the way `visibilityFromBeacon`,
`advertisedTools` and `guessCapability` do. Words are model values: `SameWord` is
equality or being a listed pair of variants, and the score of a knowledge base is
the number of words it shares. What a model answers is any number of pieces up to
`MaxDeltas` and any tool calls up to `MaxToolCalls`; texts themselves are left out.

`file` is the attachment at the node of IPFS. It is the same file at each attempt of
a failover and so has one CID: `pinned` says whether it is there, `unpins` counts
`pin/rm` requests under way (nobody awaits them), `timers` the backstops. `LostUpload`
is an upload that fails, which may have pinned the file all the same.

### PortalSession

Per stream: whether it can be written (`open`), the loop that reads it (`loop`), the
variables of its handler (`sid`, `pref`, `pending`); before any `agentStart` the
preferences are empty, so neither RAG is asked for (`Unset`). The loop awaits only fetches; all
else that a question starts runs on its own, and `job[q]` says where it is. Each piece
of work is one step with an outcome, justified by `RunEnds` of `AgentRun`. `Emit` is
the bus: clients in order of subscription, those that bear the session id of the
event at that moment, ended by the first that throws. A second throw, inside a handler
nobody awaits, is a rejection that ends the process (`dead`).

A recommendation puts a card on every stream that hears it (`cards`), and `KbDecision` is
the answer to one of them. On the wire the answer names a session and no card, so it is
taken for whatever question is pending in that session, which the recommendation of a
later question has overwritten: the card answered and the question run are two facts
(`decided`, `withKbs`). `RunsOnceAsConfirmed` relates them as far as the code does: a
question is run on knowledge bases only after the user agreed, on its stream, to a card of
its session. `ConfirmedItself`, that the card was its own, is false (section 6).

### Conversation

The view with several conversations, each with its connection. A connection is
its life as the view sees it (`opening`, `open`, `failed`, `gone`), the request queued
in it and, per message, what the Navigator is doing about it (`work`). An open connection may
lose its session (`Drops`): it opens again by itself and tells the view nothing. `lost`
keeps the messages whose answer was expected on the session lost; their runs go on at the
Navigator and may be heard on the next session, which nothing ensures. All call the one
`handleEvent`, closed ones too, for as long as they have something to read. `shown` is
the screen; messages are the user's texts and numbers of answers; `answers` says which
texts the pieces of an answer are about and which completed it. `history` is the memory
copy, `stored` the one in `localStorage`, both capped by the operators of
`chat-history.ts`. `awaiting` are the calls of `dispatchMessage` that await the
context of a document, `indexing` the work on a document that answers later.
`origin` is a history.

The view streaming (`streaming`) and its send button (`disabled`) are two variables, as in
the code: a dispatch sets both and the end of a turn clears both, but
`startNewConversation` clears the first only. `StreamsForSomething` says that a view which
streams has its button disabled and something to wait for, unless its turn was lost with a
session; `ButtonComesBack`, that the button is disabled only while the view streams, is
false (section 6).

### LocalRag

The page posts requests (`Post`), the worker queues them (`queue`), takes one at a time
(`Take`) and goes through its statements, one action each; `at` is the next one and
`left` what its loop has still to do. SQLite commits each statement, IndexedDB each
transaction (`Transaction`). Any statement may fail (`Fails`); `Restart` ends page and
worker between any two; what is written stays, and the next session chooses its store
again. `chunks`, `vectors` and `records` are the three tables; a row keeps the request
that wrote it (`run`), which stands for its text. `ChunkText`, `Place` and `Rank` are the
algorithms, checked against what they should compute. A vector is what the query finds
it worth. `InKeyOrder` is the order in which IndexedDB hands the records over, the
numbers in a key compared as numbers. The code's keys are text, in which chunk 10 comes
before chunk 2; that order decides only between equals of one document.

## 3. Runs

| Run | Instance | States | Shows |
|---|---|---|---|
| `market` | 2 missions, 2 providers, 2 trust levels, a bound on bids per waiter | 463,865 | who wins, that nobody with a bid is given up, and that the market implements `Auction`, its settlement included |
| `bootstraps` | 5 addresses: two on one peer, one dead, one without id, one invalid | 3,336 | loops, drops, stop |
| `session` | 2 calls of send, 5 attempts, 2 clicks | 165,902 | what runs on after a close, nothing tears a ready session down, nothing written twice; connecting ends, drops are noticed |
| `turns` | 3 calls about 2 texts, 1 attempt, 1 click | 352,005 | turns are accounted for |
| `discovery` | 2 bootstraps, 4 announcements, 3 addresses, 3 connections | 241,436 | discovery keeps the connection it chose, blames the stage that failed, settles |
| `card` | 1 request of 3 items, all 64 relations between different items, 1 failed message | 255,752 | one decision, closed under dependencies; the outcome is learnt; `toggleItem` computes `Mark` and `Unmark` |
| `agent` | 2 Stars, 2 Satellites, 16 requests, both builds, 2 pieces of text, 1 tool call, 1 reader left behind | 309,305 | what leaves, what is attributed, what is said, what stays at IPFS; every request ends |
| `portal` | 2 streams, 1 session id, 2 questions, both builds | 208,160 | one run per question, knowledge bases only after a card of the session was agreed to, an answer for whoever stays |
| `conversations` | 2 messages (one with a document), 1 conversation kept of 2 made, 2 messages kept, 2 connections, 1 reopening, browsers with and without workers | 2,735,174 | requests leave from home, a reload shows the same, streaming is for something |
| `rag` | 2 documents in 2 scopes, 3 requests, 2 sessions of the page, both stores | 409,020 | exact answers of either store (`SqliteIsExact`, `IndexedDbIsExact`), one reading, cleared stays cleared, requests settle; chunking and ranking |
| `scope`, `mixed` | as `agent` with one local chat; as `conversations` with 2 kept | | violations, section 6 |

Two more instances pass and are kept as configurations: `MCMissionCycle_selection` (3
providers, 2 values of each sort key, 19,509 states: `SelectionDecides`) and `MCConversation_switching` (3
conversations of which 2 are kept, no session lost, 663,671 states).

**Why the bounds suffice.** Missions and loops interact only pairwise (a shared map,
a shared peer), so two of each show every interaction; a third provider is
needed only for the order of three bids. `MaxAttempts` is the code's own 5 where the
counter matters; in `turns` it is 1, which reaches exhaustion sooner and changes
nothing else. `MaxClicks`, the number of calls of `reconnect()`, is the only bound on
the connection besides the number of calls of `send()`; two clicks reach a
click during the opening another click began. `MaxBids` bounds duplicates. The
announcements of `discovery` are two Navigators, one of which is also a bootstrap, a
Star and a forgery; the Navigators have an address of the local machine each, and
three connections are a bootstrap's, the chosen one and a surplus one. Requests for
authorization share nothing but the session and the page, so one shows what happens
to each; three items suffice for a chain, a fork and a cycle.

`agent` follows one request, because a runtime is made for each and what two share (the
cache, the bus) is either only read or belongs to `PortalSession`. The Stars are one
local and one external, the Satellites one whose beacon names no tools and one that
names several, one of them undeclared, and that is vetoed; one Star bids without
having been heard of. That is the least in which the winner differs from the one
asked for in each respect the properties tell apart. The 16 requests are each path of
the runtime at least once, scopes at both ends, and each policy for the file. One
reader left behind is enough for a late piece of text to meet whatever the next
call does; a second would do the same. In `portal` two streams that bear one session
(two tabs) are the case in which events of one are seen by the other; with two
session ids the streams are independent. In `conversations` one conversation is kept
of two made, so that making the second evicts the first, and two messages are
kept, so that a question, an answer and a second question overflow. `Redials` bounds how
often a connection opens again, by the button or by itself after a loss: one is enough to
lose a session with the turn it was to answer, and to have the former run speak on the next. Three requests of
`rag` are an index, what comes between (another index, a clear, a deletion) and a
query; two sessions are one restart. Chunks of three words that share one, over texts
of up to 7 words, meet every position of the last window; `RankingIsStable` gives up
to 4 stored records every score of 3 values and cuts the ranking at up to 3.

Symmetry is used only in runs without liveness properties, over sets the modules compare
only for equality.

`CHECK_DEADLOCK FALSE` everywhere: each of these systems may stop, when the bounded
inputs are used up or the node was stopped.

**Fairness.** A timer that is set fires; an await settles, well or badly; a received
frame is read; a stopped node closes its streams and a closed stream ends
its reader. These are the guarantees of the event loop and of libp2p that the code
relies on. Strong fairness is used once: a bootstrap that is reachable does not
refuse each of infinitely many dials. Nothing is assumed of users, providers,
Navigator, or of the network's willingness to deliver. `Discovery` assumes its timer
alone: a dial or a DHT query may hang for ever. `AuthorizationCard` assumes timers, a
Navigator that settles and answers in the end, and delivery while a session lasts; that
a session lasts is a premise of `OutcomeIsLearnt`, not an assumption. `AgentRun`
assumes that code which can run does (`LocalStep`) and that a dispatch ends
(`CallEnds`): the auction has a deadline, a dial a timeout, and a call a timer that
nothing clears but its end. Providers may stay silent for ever. `PortalSession` assumes
that each method of the agent ends, which `RunEnds` shows, and a fetch too (`Work`);
nothing of portals. `LocalRag` assumes that the worker goes on while it has something to
do, well or badly; an embedding or a database that never answers would hold up the queue
for ever, and the code has no timer against it. `ChatTurn` and `Conversation` have no
fairness: only invariants are checked of them.

## 4. What is proved

For every value of the constants, from the assumptions the modules name (the null
value is not an element; ranks and bounds are naturals; tables are functions on their
sets). Each proof has the same shape: an invariant `IInv` holds at first, every step
keeps it, and the properties follow from it. What `IInv` has to add to the properties
is what a reader of the code has to know:

- **Market.** The inductive invariant adds to the types that a waiter's bids are
  exactly heard bids of its own mission, that what is heard of a collecting mission
  is in its waiter, and that assignments are heard bids of assigned missions. From it:
  `NoWaiterLeak`, `AssignedOnce`, `AssignedWasHeard`, `PreferredServed`, `BestServed`,
  `UnservedMeansUnheard`, `OutcomeIsFinal`, and the safety part of the refinement
  (`RefinesAuction`). `SelectionIsDecided` says that any bids have exactly one winner:
  the comparator is a strict weak order, so among the positions of the bids nobody
  beats, a finite set of naturals, there is one that is least.
- **Bootstrap keeper.** The invariant adds that a loop marking its peer either has
  it connected or is recorded in `missed`, and that nothing sleeps once stopped. From it
  `RestsOnlyConnected` and `StopEndsDialling`.
- **Portal connection.** The closure's functions call one another, and between two
  of them a session may be "connecting" with no timer set; so what every function
  keeps (`Base`) is apart from what every step restores (`Waiting`), with a lemma per
  function and then a lemma per group of actions. `Ledger` says where a message is:
  queued, being written, or written, in that order only. That a node runs on after a
  close only if `close()` was too early for it needs to be known of openings that have not
  created theirs (`Early`), since these will. From it
  `NeverStalls`, `ReadyIsSettled`, `NoOrphanNode`, `WrittenOnce` and `ClosedIsSilent`.
- **Chat turn.** In the same module, because a step of the connection is a step here
  and its invariant is needed: `handleEvent` calls `send` when the session becomes
  ready, and the message is then held by the connection only if ready means a stream
  and a key to write with. The invariant adds that what the view has queued is a call
  nobody has made yet (`Queued`) and that the message of an open turn has a call that is
  somewhere (`Tended`): in preparation, queued, held by the connection, written, or given
  up between its two writes. From it `TurnIsAccountedFor` and `FailedIsOver`.
- **Discovery.** The invariant adds that nothing was returned or closed before the
  promise is settled (`Untouched`), that only verified Navigators are dialled
  (`OnlyNavigators`), and that a connection has an owner once it was returned or
  opened (`Owned`), so that a new one is never the chosen one. From it
  `ChosenIsKept`, `OthersAreClosed`, `FoundIsANavigator`, `NoBootstrapNoWait`,
  `SettledIsFinal` and `BlameIsTrue`.
- **Authorization card.** Two lemmas say that `Mark` and `Unmark` keep a closed
  selection closed, for any dependency relation. The invariant adds that the
  selection is closed (`SelectionClosed`), that buttons are enabled only before a
  decision and "allow" only with something marked (`ButtonsFit`), and that nothing
  was sent before a decision (`AskingIsUnsent`). From it `DecisionsAreClosed`,
  `DecidesOnce` and `AllowIsNotEmpty`. `TogglesLikeTheCode` needs no invariant but the
  types: for any finite set of items and any relation, cycles included, each recursion of
  `toggleItem` is a function on what is marked. It exists, because what it computes can be
  said without it (what is reached through items not marked yet), and it is the only one,
  because each call is made with more marked (or fewer) than the one that makes it, so
  that two functions would differ first at some smallest distance from the end.
- **Agent runtime.** What has to be known is what a dispatch may be at each stage
  (`Placed`) and what the readers of dispatches that timed out may still do, since they
  outlive the stage that started them (`OneVoice`: a reader that may still show text is
  that of the call that ended the run, and there is one). Without the gate, the request
  has been stripped and no tool is loaded before anything is dispatched, so a dialogue with a
  Star has errors in it where results of tools would be (`OnlyTheMessage`); a file pinned at IPFS belongs to the dispatch under way or its
  removal is (`Kept`); of each call the user has read the pieces heard so far or none
  (`Read`). From it `OnlyTheMessageLeaves`, `ContextIsAttributed`, `NothingIsForgotten`,
  `SaidOnce` and `CompletedIsSilent`.
- **Portal session.** That a question runs once rests on its not having run at all before
  its last stage (`Unrun`), and on what is pending being a question that asks, on the very
  stream and session it was asked on (`Asked`), so that a second decision finds nothing and the first runs a question of the very
  session whose card was answered.
  That the bus has one client per stream that is read rests on at most one question
  waiting for bytes on each (`Fetching`). From it `TypeOK` and `RunsOnceAsConfirmed`.
- **Conversations.** The history is a list of conversations with ids of their own, each
  message in the conversation it was written in, the screen being the active one
  (`Library`). What a connection is asked is about messages of its own conversation, what
  is queued about one of the active conversation, and the connection in use is open and
  of the active conversation or of none yet (`Wiring`). What is stored is the history,
  the failures, and the answers but for what the one in the making has got since
  (`Stored`). The message of the turn is on the screen (`TurnShown`): without this a retry
  could write where it does not belong. A loss keeps what waits: the turn that was to be
  answered on the session goes into `lost` with it. From it `TypeOK`, `SentFromHome`,
  `ReloadShowsTheSame` and `StreamsForSomething`. Trimming and moving to the front are
  lemmas about sequences: `Only`, which keeps the elements of a set, is shown to have a
  value, then to return those elements and no others, and each once if each was there once.
- **Local RAG.** Requests are served in the order they are posted (`Ordered`), so what a
  clear undid was asked for before all that is still to be served (`Wiped`). A vector
  whose document has any chunk has its own (`Paired`): the join of a query drops a vector
  only with its whole document and never gives it a chunk that is another's. While a
  document is read again nothing of an earlier reading is beside it (`Read`). From it
  `OneReading`, `ClearedStaysCleared` and `SqliteIsExact`; for the last, a lemma says that
  `Top` returns what its name says, and that the best of each document and then the best of
  these are the best of all. `IndexedDbIsExact` adds that the records in the order of
  their keys are all of them, each once (each has as many before it as its place says),
  and that `Rank` of them is the best.
- **Chunking and ranking.** `ChunksCoverTheText` and `RankingIsStable`, the latter for
  records of any worth and in any number. `ChunkText`, `Place` and `Rank` are recursive
  functions over naturals or intervals. For each it is shown that a function that
  satisfies its equation exists up to any size, and then what it yields, by the least
  argument at which it would not. The binary search of `Place` keeps what is better, or as
  good and earlier, to the left of its interval and the rest to the right.

Some theorems are about invariants that no run lists (`NeverStalls`, `OthersAreClosed`,
most type invariants and others): the runs keep to the properties that say most.

Only model-checked:

- Liveness: `ReachableGetsConnected`, `ConnectingEnds`, `DropIsNoticed`,
  `DiscoverySettles`, `OutcomeIsLearnt`, `RunEnds`, `EverybodyIsTold`,
  `RequestsAreSettled`, and the fairness part of `ImplementsAuction`. They depend on
  ENABLED, which the prover does not handle.
- `TypeOK` of `AgentRun`, which no run lists (added to `agent`, TLC finds that it holds): its tools are sequences filtered by
  an operator (`SelectSeq`), about which the provers know nothing. Where the proofs above
  need such a type they have it in `IInv` (of calls, requests, files and what was shown).

The induction theorems of the library take an operator as a parameter and cannot be used
here. Induction is written as a least counterexample: a non-empty set of naturals has a
least element (`SmallestExists`, `LeastExists`), and at that element the claim follows
from the one before.

## 5. Plan

Done, in this order: `MissionCycle`, `BootstrapKeeper`, `PortalConnection`, `ChatTurn`,
`Discovery`, `AuthorizationCard`; then `AgentRun`, which holds provider resolution,
dispatch and IPFS artifacts together because a failure of one is handled in another;
`PortalSession`; `Conversation`; `LocalRag`. All have proofs, and every invariant and
every safety property of a step that a run lists is a theorem.

To come, in order of worth:

1. The hazards without a property: a completion without a message id, and a fusion of
   knowledge bases that fails after their answers were indexed.
2. `TypeOK` of `AgentRun`, with filters that are functions, as `Only` is in `Conversation`.

## 6. Disagreements found

Two of them are runs of their own, against sentences of the repository (`scope` and `mixed`).
The others are configurations beside the module, each of which TLC finds violated. Against
sentences of the repository:

1. **The scope of a request does not bind the auction.** (`scope`) Providers are filtered by
   the user's scope when they are resolved, but the offer carries only a capability and
   a preference; if the preferred provider does not bid, any bidder gets the mission
   (`p2p-llm-gateway.ts:45-54`, `mission-cycle.ts:115-131`). With scope "local" the
   message can go to an external Star.
2. **A closed connection speaks in the next conversation.** (`mixed`) `handleEvent` does
   not ask which connection calls it, and `close()` neither advances the generation
   nor stops the reader: a delta already read when the history is cleared is drawn, and
   saved, in the conversation that follows. `docs/historial-local-chat.md` says that
   changing conversation mixes neither messages nor events.
3. **A bootstrap that drops while it is being tagged is forgotten.** (`MCBootstrapKeeper_missed`) The
   listener for the disconnection is registered after `await node.peerStore.merge`
   (`diagnostics.ts:206-216`). A drop during that await leaves the loop waiting for the
   next disconnection of a peer that is not connected. The comment promises to start
   over if the connection drops.
4. **A turn can be left streaming.** (`MCChatTurn_stranded`) A message is written, the
   stream drops, the automatic reconnection succeeds: no error is raised, so the view
   streams on, with neither retry nor a new message possible. The incident log
   says that the failed message is kept to be retried.
   `TurnIsAccountedFor` shows that this and a request given up between its two
   envelopes are the only ways a turn is left open.
5. **An answer can be attributed to a Star that did not give it.** (`MCAgentRun_answerer`)
   `executedLlmProviderId` is set when another Star than the chosen one executes a call,
   and never reset (`runtime.ts:1023-1027`): if another executes the first call of a run
   and the chosen one the second, which gives the answer, provenance names the other. The
   comment there says that it must name who really answered.
6. **More than the literal message leaves.** (`MCAgentRun_literal`) The build that only forwards "el
   mensaje literal del usuario al Star elegido" (`conformance.ts:8-9`) offers no tools, but a
   Star that asks for one all the same is asked again, with its answer and an error per
   tool (`runtime.ts:290-304`, `895`), and another Star may execute that request.
   `OnlyTheMessageLeaves` shows that this is all that leaves besides the message.
7. **An answer to one card confirms another question.** (`MCPortalSession_unconfirmed`) The recommendation
   of a second question overwrites the pending one of the first (`portal-session.ts:152`),
   and a decision names only the session (228-231): agreeing to the first card runs the
   second question on knowledge bases nobody agreed to, and the first question never.
   `runtime.ts:253-255` promises the contrary. Only a conformant build recommends.
8. **Clearing the history leaves what the other store holds.** (`MCLocalRag_cleared`)
   `clearIndex` clears the store of this session. What an earlier session indexed in
   the other one stays, and is found by a later session that opens it.
   `docs/historial-local-chat.md:61` says that deleting the history deletes the local
   content.

The rest contradicts no document of the repository, or not plainly:

9. **A node outlives `close()`.** (`MCPortalConnection_leak`) `close()` during the awaits of
   `openSession` before the node is assigned (`api.ts:136-167`) finds no node to stop. The
   opening goes on, creates one, discovers a Navigator and shakes hands; its view has set
   the connection to `null` (`chat-view.ts:584-585`, `613-614`), so nobody stops it.
10. **The send button can stay disabled.** (`MCConversation_button`) The dialog for a new
    conversation opens while nothing streams and is accepted after a message was sent:
    `startNewConversation` (`chat-view.ts:583-607`) resets `isStreaming` and not
    `sendBtn.disabled`. The key Enter still sends, and the end of that turn gives it back.
11. **`stop()` does not stop a loop in flight.** (`MCBootstrapKeeper_stop`) It wakes loops
    that sleep or wait; one that is dialling or tagging goes on to register a listener
    and wait, after everything was stopped.
12. **"It expired; nothing was sent", after a decision was.** (`MCAuthorizationCard_expired`)
    The countdown goes on after `decide()`; if the outcome has not come by the deadline, the
    card says the opposite of what happened. Ticking a box after the deadline also
    enables the button again until the next second.
13. **A pending card vanishes with a failed turn.** (`MCAuthorizationCard_shown`)
    `renderMessages` draws messages only. The card stays in the map, its status is asked for
    after the reconnection, and the answer is ignored (pending) or written into an element
    that is no longer on the page.

Seen in the models, against no sentence of the repository: if a configured bootstrap is
also a Navigator and another one is chosen, the late dial returns the bootstrap's
connection, which is closed as surplus (`p2p-discovery.ts:198-203`). In a failover nobody
awaits `pin/rm`, and the next attempt uploads the same CID: the removal of the first may
take the file of the second (`runtime.ts:818-830`). A completion carries no message id and
so completes the last answer on the screen (`chat-view.ts:1559`).

## 7. Not modelled

- Encoding, signatures and identity files: a message that does not verify is one that is
  never delivered. libp2p, GossipSub, the DHT, IPFS and the browser's databases
  themselves appear as an environment that may lose, delay, repeat, drop and fail.
- Node assembly (`create-node.ts` and its neighbours), Atlas and the log agent: start-up,
  configuration, metrics and logging around libp2p.
- Rendering, Markdown, the diagnostics log and panel, the tour, command suggestions and
  the prompt history; the control envelopes of the connection, whose handlers change
  nothing in its closure.
- `chatCancel`, which forgets a variable nobody reads. Samples and calls in flight of the
  providers, which have no effect in this Navigator. The parsing of what a tool returns.
- Storage that refuses to write, histories written by another version, two tabs over one
  OPFS, and two requests that upload the same file at once.
- `NaN` scores of bids: their order would be that of the engine's sort algorithm.
- Scripts, container builds and project management.
