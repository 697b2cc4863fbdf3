------------------------------ MODULE AgentRun ------------------------------
(***************************************************************************)
(* One request carried out by the agent of the Navigator: the methods of   *)
(* AgentRuntime (agent/runtime.ts) with the two gateways through which it  *)
(* reaches providers (p2p-llm-gateway.ts, p2p-mcp-host.ts), the cache of   *)
(* beacons in which it finds them (nav-node.ts, p2p-atlas-client.ts), the  *)
(* score of a knowledge base (kb-matching.ts) and the node of IPFS where it *)
(* leaves the attachment of an OCR (ipfs-client.ts).                       *)
(*                                                                         *)
(* A request is a chat (run), the OCR of an attachment (extractOcrText),   *)
(* the indexing of its text (indexDocumentForRag) or the recommendation of *)
(* knowledge bases (resolveKbCandidates).  It goes through stages; most    *)
(* dispatch one call to one provider: an offer on the market, a dial, a    *)
(* handshake, the request, the frames of the answer.  The market (module   *)
(* MissionCycle) and the providers are environment.  AUTHORIZATION_CONFORMANT *)
(* is a constant of the build: `conformant` never changes in a behaviour.  *)
(***************************************************************************)
EXTENDS Integers, Sequences, SequencesExt, FiniteSetsExt

CONSTANTS
  Star, Satellite, \* providers of models and of tools
  NoProvider,
  Declared,        \* visibility each beacon declares, or "unspecified"
  Capabilities,    \* capabilities of each Satellite's beacon
  Named,           \* names of tools among the tags of each Satellite's beacon, in order
  Guess,           \* mapping of guessCapability, from names of tools
  Vetoed,          \* FHS_VETOED_PROVIDERS
  Heard,           \* providers whose beacons reach this Navigator; the others only bid
  Word, Variants,  \* words with content, and the pairs that differ in an ending only
  Topics,          \* words of the description and the tags of each Satellite
  IpfsNode,        \* is IPFS_API_URL set?
  PrivateGateway,  \* and IPFS_PRIVATE_GATEWAY_URL?
  Builds,          \* values of AUTHORIZATION_CONFORMANT considered
  Requests,        \* the requests considered
  MaxDeltas,       \* bound: pieces of text one call streams
  MaxToolCalls,    \* bound: tool calls one answer asks for
  MaxLate          \* bound: readers of timed-out calls followed; any other hears no more

Provider == Star \cup Satellite
Capability == {"ocr", "summarize", "index", "query", "kb"}
Entry == {"run", "ocr", "index", "kb"}

\* scope: the rank of preferences.scope.  words: the capabilities classifyIntent
\* reads in the message.  doc, rag, kbs: documentContext, ragActive with
\* ragSource "network", and kbProviderIds.  about: the words with content of the
\* message.  most: kbMaxPerQuestion.  ipfs, private: preferences.ipfs.
Request == [entry : Entry, scope : 0 .. 3, words : SUBSET {"ocr", "summarize"},
            doc : BOOLEAN, rag : BOOLEAN, kbs : Seq(Satellite),
            about : SUBSET Word, most : Nat,
            ipfs : {"off", "ephemeral", "reuse"}, private : BOOLEAN]

ASSUME ProviderAssumption == Star \cap Satellite = {} /\ NoProvider \notin Provider
ASSUME DeclaredAssumption == Declared \in [Provider -> {"private", "community", "public", "unspecified"}]
ASSUME ToolsAssumption ==
  /\ \A p \in Satellite : Capabilities[p] \in Seq(Capability)
  /\ \A p \in Satellite : Named[p] \in Seq(STRING)
  /\ Range(Guess) \subseteq Capability
ASSUME TopicsAssumption == Topics \in [Satellite -> SUBSET Word] /\ Variants \subseteq SUBSET Word
ASSUME IpfsAssumption == {IpfsNode, PrivateGateway} \subseteq BOOLEAN
ASSUME BuildsAssumption == Builds \subseteq BOOLEAN
ASSUME RequestsAssumption == Requests \subseteq Request
ASSUME BoundAssumption == {MaxDeltas, MaxToolCalls, MaxLate} \subseteq Nat

VARIABLES
  conformant, \* AUTHORIZATION_CONFORMANT
  req,        \* the request
  cache,      \* PeerCache: a Map iterates in order of insertion, and forgets nobody
  stage,      \* what the method is doing
  llm,        \* the Star resolveLlm chose
  tools,      \* loadedTools
  todo,       \* OCR tools, KB ids or tool calls the loop has yet to go through
  call,       \* the dispatch under way, or NoCall
  late,       \* dispatches that timed out and whose reader goes on
  used,       \* usedTools: capability and executor
  executed,   \* executedLlmProviderId
  spoke,      \* the Star whose answer came last (history)
  direct,     \* directTexts: the KB calls whose fragments are at hand
  indexed,    \* anyIndexed
  context,    \* calls whose results are in the prompt (history)
  sent,       \* requests written to providers: to whom, what (history)
  shown,      \* pieces of text emitted as assistant.delta (history)
  file,       \* the attachment, at the node of IPFS
  outcome     \* how the method ended

run == <<stage, llm, tools, todo, used, executed, spoke, direct, indexed, context, outcome>>
net == <<call, late, sent, shown>>
vars == <<conformant, req, cache, file, run, net>>

NoCall == [for |-> "none", cap |-> "none", asked |-> NoProvider, by |-> NoProvider,
           phase |-> "none", heard |-> 0, link |-> FALSE]

\* The file is the same at every attempt, and so is its CID.  unpins: pin/rm under way.
\* timers: backstops.  fault: a request to the node failed (history).
NoFile == [pinned |-> FALSE, unpins |-> 0, timers |-> 0, fault |-> FALSE]

Init ==
  /\ conformant \in Builds
  /\ req \in Requests
  /\ cache = <<>>
  /\ stage = "idle" /\ llm = NoProvider /\ tools = <<>> /\ todo = <<>>
  /\ used = {} /\ executed = NoProvider /\ spoke = NoProvider /\ direct = {} /\ indexed = FALSE
  /\ context = {} /\ outcome = "none"
  /\ call = NoCall /\ late = {} /\ sent = {} /\ shown = <<>>
  /\ file = NoFile

-----------------------------------------------------------------------------
(* Whom the runtime knows.                                                 *)

\* upsert of a beacon.  A known provider keeps its place in the Map.
Beacon(p) ==
  /\ p \in Heard /\ ~ Contains(cache, p)
  /\ cache' = Append(cache, p)
  /\ UNCHANGED <<conformant, req, file, run, net>>

\* visibilityFromBeacon, and its rank in SCOPE_RANK.  (No beacon declares "network".)
Visibility(p) ==
  CASE Declared[p] = "private" -> 0
    [] Declared[p] = "public"  -> 3
    [] OTHER                   -> 2

\* matchesScope.
InScope(p) == Visibility(p) <= req.scope

\* getProviders.
Known(type) == SelectSeq(cache, LAMBDA p : p \in type)

\* resolveLlm: every Star of the P2P network advertises one model, "auto", with
\* tool calling, and nothing counts the requests in flight: the first in scope.
ResolveLlm ==
  LET stars == SelectSeq(Known(Star), InScope)
  IN IF stars = <<>> THEN NoProvider ELSE stars[1]

\* guessCapability.  A name it does not know stands for itself.
GuessCapability(name) == IF name \in DOMAIN Guess THEN Guess[name] ELSE name

\* advertisedTools: what the tools a beacon names are for; what the beacon does not
\* declare is not offered.  Without names, its capabilities.
AdvertisedTools(p) ==
  LET caps == Capabilities[p]
      names == IF Named[p] # <<>> THEN Named[p] ELSE caps
      for == [i \in DOMAIN names |-> IF Len(caps) = 1 THEN caps[1] ELSE GuessCapability(names[i])]
  IN SelectSeq(for, LAMBDA c : Contains(caps, c))

\* resolveToolProviders for one capability, then loadToolsForCapabilities: all the
\* tools of each provider found, whichever the capability it was found for.
ToolsOf(p) ==
  LET caps == AdvertisedTools(p) IN [i \in DOMAIN caps |-> [by |-> p, cap |-> caps[i]]]
Offers(p, cap) == p \in Satellite /\ Contains(Capabilities[p], cap)
Load(cap) ==
  LET found == SelectSeq(Known(Satellite), LAMBDA p : Offers(p, cap) /\ InScope(p))
  IN FlattenSeq([i \in DOMAIN found |-> ToolsOf(found[i])])
With(ts, cap) == SelectSeq(ts, LAMBDA t : t.cap = cap)
Without(ts, cap) == SelectSeq(ts, LAMBDA t : t.cap # cap)

\* listKbProviders.
KnownKbs == SelectSeq(Known(Satellite), LAMBDA p : Offers(p, "kb") /\ InScope(p))

\* kbMatchScore: how many words of the question a KB has, in some form.  The fraction
\* they are of the question is compared with KB_MATCH_THRESHOLD, 0.2.
SameWord(a, b) == a = b \/ {a, b} \in Variants
KbMatchScore(p) == Cardinality({w \in req.about : \E k \in Topics[p] : SameWord(w, k)})
Matches(p) == req.about # {} /\ 5 * KbMatchScore(p) >= Cardinality(req.about)

\* recommendKbCandidates: the best first, equals in the order of the cache.
Recommended ==
  LET found == SelectSeq(KnownKbs, Matches)
      Before(i, j) == LET a == KbMatchScore(found[i])
                          b == KbMatchScore(found[j])
                      IN a > b \/ (a = b /\ i < j)
      order == SetToSortSeq(DOMAIN found, Before)
  IN [n \in 1 .. Min({req.most, Len(found)}) |-> found[order[n]]]

-----------------------------------------------------------------------------
(* One dispatch: generate of P2pLlmGateway, callTool of P2pMcpHost.        *)

\* buildFileArtifact: the file travels in the request, or is left at IPFS first.  (A chat
\* has no attachment by then: the session of the portal has had its OCR done.)
ByLink(for) == for = "ocr" /\ req.ipfs # "off" /\ IpfsNode

Ask(for, cap, p) ==
  call' = [NoCall EXCEPT !.for = for, !.cap = cap, !.asked = p,
                         !.phase = IF ByLink(for) THEN "upload" ELSE "offer"]

ModelCall(c) == c.cap = "chat"
\* onDelta is given, and pieces shown as they come, only for an answer to the user
\* that may not turn out to be a request for tools.
Live(c) == c.for = "answer" \/ (c.for = "first" /\ tools = <<>>)

\* What the request carries.  The second one to a model goes on from the first: it
\* also carries what that Star answered and what became of each tool it asked for,
\* an error when the tool was not offered (a dialogue).
Payload(c) ==
  LET Prompt(plain) == IF req.doc \/ context # {} THEN "context" ELSE plain
  IN
  CASE c.for = "first"  -> Prompt("message")
    [] c.for = "answer" -> Prompt("dialogue")
    [] c.for \in {"choose", "rag", "fuse", "kb"} -> "message"
    [] c.for = "ocr"   -> "file"
    [] c.for = "tool"  -> "arguments"
    [] OTHER           -> "text"

Slip_Uploaded ==      \* the backstop scheduled once the link is complete
  LET whole == req.private => PrivateGateway
  IN /\ call.phase = "upload"
     /\ call' = IF whole THEN [call EXCEPT !.phase = "offer", !.link = TRUE]
                ELSE [call EXCEPT !.phase = "broken"]
     /\ file' = [file EXCEPT !.pinned = TRUE,
                             !.timers = IF req.ipfs = "reuse" \/ ~ whole THEN @ ELSE @ + 1]
     /\ UNCHANGED <<conformant, req, cache, run, late, sent, shown>>

\* uploadToIpfs and scheduleBackstopUnpin.  resolveGatewayUrl throws for the private
\* network without a gateway: the file is pinned and the call knows no CID.
Uploaded ==
  /\ call.phase = "upload"
  /\ call' = IF req.private => PrivateGateway
             THEN [call EXCEPT !.phase = "offer", !.link = TRUE]
             ELSE [call EXCEPT !.phase = "broken"]
  /\ file' = [file EXCEPT !.pinned = TRUE,
                          !.timers = IF req.ipfs = "reuse" THEN @ ELSE @ + 1]
  /\ UNCHANGED <<conformant, req, cache, run, late, sent, shown>>

\* unpinFromIpfs is not awaited: pin/rm is carried out some time, or fails for good.
Unpinned ==
  /\ file.unpins > 0
  /\ \/ file' = [file EXCEPT !.unpins = @ - 1, !.pinned = FALSE]
     \/ file' = [file EXCEPT !.unpins = @ - 1, !.fault = TRUE]
  /\ UNCHANGED <<conformant, req, cache, run, net>>

\* IPFS_EPHEMERAL_BACKSTOP_MS is three hours, more than any request lasts.
Backstop ==
  /\ file.timers > 0 /\ stage = "over"
  /\ file' = [file EXCEPT !.timers = @ - 1, !.unpins = @ + 1]
  /\ UNCHANGED <<conformant, req, cache, run, net>>

\* The end of a call that left the file at IPFS, answered or not.
Release ==
  file' = IF call.link /\ req.ipfs # "reuse" THEN [file EXCEPT !.unpins = @ + 1] ELSE file

\* An upload that fails may have pinned the file all the same.
LostUpload == \E b \in {file.pinned, TRUE} : file' = [file EXCEPT !.fault = TRUE, !.pinned = b]

\* The offer names the capability, and the provider one would rather have: nothing
\* in it, and nothing after it, says in which scope the bidder has to be.
Assigned(p) ==
  /\ call.phase = "offer"
  /\ IF ModelCall(call) THEN p \in Star ELSE Offers(p, call.cap)
  /\ call' = [call EXCEPT !.by = p, !.phase = "dial"]
  /\ UNCHANGED <<conformant, req, cache, file, run, late, sent, shown>>

\* dialProvider: the addresses one after the other, until one of them answers.
Dialled ==
  /\ call.phase = "dial"
  /\ call' = [call EXCEPT !.phase = "open"]
  /\ UNCHANGED <<conformant, req, cache, file, run, late, sent, shown>>

\* The stream opens; only now the timer starts.
Connected ==
  /\ call.phase = "open"
  /\ call' = [call EXCEPT !.phase = "hello"]
  /\ UNCHANGED <<conformant, req, cache, file, run, late, sent, shown>>

\* makeChatRequestEnvelope and makeToolCallEnvelope.
Envelope(c) == [to |-> c.by, what |-> Payload(c)]

\* handshakeAck: the request is written.
Acked ==
  /\ call.phase = "hello"
  /\ call' = [call EXCEPT !.phase = "reading"]
  /\ sent' = sent \cup {Envelope(call)}
  /\ UNCHANGED <<conformant, req, cache, file, run, late, shown>>

Piece(c) == [for |-> c.for, nth |-> c.heard + 1]

\* chatDelta.
Delta ==
  /\ call.phase = "reading" /\ ModelCall(call) /\ call.heard < MaxDeltas
  /\ call' = [call EXCEPT !.heard = @ + 1]
  /\ shown' = IF Live(call) THEN Append(shown, Piece(call)) ELSE shown
  /\ UNCHANGED <<conformant, req, cache, file, run, late, sent>>

\* The reader of a call that timed out goes on: it writes the request if the
\* acknowledgement comes, and forwards the pieces of text.  Nobody waits for it.
LateAcked(c) ==
  /\ c \in late /\ c.phase = "hello"
  /\ late' = (late \ {c}) \cup {[c EXCEPT !.phase = "reading"]}
  /\ sent' = sent \cup {Envelope(c)}
  /\ UNCHANGED <<conformant, req, cache, file, run, call, shown>>

LateDelta(c) ==
  /\ c \in late /\ c.phase = "reading" /\ ModelCall(c) /\ c.heard < MaxDeltas
  /\ late' = (late \ {c}) \cup {[c EXCEPT !.heard = @ + 1]}
  /\ shown' = IF Live(c) THEN Append(shown, Piece(c)) ELSE shown
  /\ UNCHANGED <<conformant, req, cache, file, run, call, sent>>

LateOver(c) ==
  /\ c \in late
  /\ late' = late \ {c}
  /\ UNCHANGED <<conformant, req, cache, file, run, call, sent, shown>>

\* Every way a dispatch throws: the file cannot be left at IPFS; nobody bids before the deadline; no address answers;
\* the handshake or the answer is an error; the timer fires, and the reader stays.
Slip_Fails ==      \* no timer
  /\ call.phase \in {"upload", "broken", "offer", "dial", "open"}
  /\ call' = NoCall
  /\ Release
  /\ UNCHANGED <<conformant, req, cache, late, sent, shown>>

Fails ==
  /\ \/ call.phase # "none" /\ late' = late
     \/ /\ call.phase \in {"hello", "reading"} /\ Cardinality(late) < MaxLate
        /\ late' = late \cup {call}
  /\ call' = NoCall
  /\ IF call.phase = "upload" THEN LostUpload ELSE Release
  /\ UNCHANGED <<conformant, req, cache, sent, shown>>

\* The answer is complete, or its stream ends: both count as an answer.
Answered ==
  /\ call.phase = "reading"
  /\ call' = NoCall
  /\ Release
  /\ UNCHANGED <<conformant, req, cache, late, sent>>

\* generate answers with all the text and the tool calls asked for.  callLlm emits
\* the text now, if it was not streamed and the answer is not a request for tools.
Slip_Says(c, calls, text) ==      \* whether or not it was streamed
  shown' = IF c.for = "choose" \/ calls # <<>> THEN shown
           ELSE shown \o [i \in 1 .. text |-> [for |-> c.for, nth |-> i]]

Says(c, calls, text) ==
  shown' = IF c.for = "choose" \/ calls # <<>> \/ (Live(c) /\ c.heard > 0) THEN shown
           ELSE shown \o [i \in 1 .. text |-> [for |-> c.for, nth |-> i]]

ModelAnswers(calls) ==
  /\ Answered
  /\ \E text \in 0 .. MaxDeltas : /\ call.heard > 0 => text = call.heard
                                  /\ Says(call, calls, text)
  /\ executed' = IF call.by # llm THEN call.by ELSE executed
  /\ spoke' = call.by

-----------------------------------------------------------------------------
(* The stages of run.                                                      *)

At(s) == stage = s /\ call = NoCall
Waiting(s) == stage = s /\ call # NoCall
Over(how) == stage' = "over" /\ outcome' = how
ByCall == {[cap |-> call.cap, by |-> call.by]}
Slip_ByCall == {[cap |-> call.cap, by |-> call.asked]}   \* the provider asked, not the executor
Executor == ByCall

Quiet == UNCHANGED <<conformant, req, cache, file, late, sent, shown>>

\* Without the gate on what leaves, only the literal message travels.
Slip_Stripped(r) ==      \* documentContext stays
  IF conformant THEN r ELSE [r EXCEPT !.words = {}, !.rag = FALSE, !.kbs = <<>>]

Stripped(r) ==
  IF conformant THEN r
  ELSE [r EXCEPT !.words = {}, !.doc = FALSE, !.rag = FALSE, !.kbs = <<>>]

\* classifyIntent, then loadToolsForCapabilities on what the words ask for: OCR before
\* summaries.
LoadIntent(r) ==
  LET Asked(cap) == IF cap \in r.words THEN Load(cap) ELSE <<>>
  IN Asked("ocr") \o Asked("summarize")

StartRun ==
  /\ stage = "idle" /\ req.entry = "run"
  /\ req' = Stripped(req)
  /\ llm' = ResolveLlm
  /\ IF llm' = NoProvider
     THEN Over("NO_LLM") /\ UNCHANGED <<tools, todo>>
     ELSE /\ tools' = IF req'.doc THEN Without(LoadIntent(req'), "ocr") ELSE LoadIntent(req')
          /\ todo' = req'.kbs
          /\ stage' = "rag" /\ outcome' = outcome
  /\ UNCHANGED <<conformant, cache, used, executed, spoke, direct, indexed, context, file, net>>

\* queryRagContext: the first tool found for document.query.
QueryTools == With(Load("query"), "query")

Rag ==
  /\ At("rag")
  /\ IF req.rag /\ QueryTools # <<>>
     THEN Ask("rag", "query", QueryTools[1].by) /\ stage' = stage
     ELSE stage' = "kb" /\ call' = call
  /\ UNCHANGED <<llm, tools, todo, used, executed, spoke, direct, indexed, context, outcome>>
  /\ Quiet

\* Fragments, or none.
Fragments ==
  \/ used' = used \cup Executor /\ context' = context \cup ByCall
  \/ UNCHANGED <<used, context>>

Queried(from, to) ==
  /\ Waiting(from)
  /\ stage' = to
  /\ \/ Answered /\ shown' = shown /\ Fragments
     \/ Fails /\ UNCHANGED <<used, context>>
  /\ UNCHANGED <<llm, tools, todo, executed, spoke, direct, indexed, outcome>>

\* queryMultipleKbs: one confirmed KB after the other (its scope is not looked at);
\* then their text as it is, or a query on what could be indexed.
Kb ==
  /\ At("kb")
  /\ IF todo # <<>>
     THEN /\ IF Contains(cache, todo[1]) /\ Offers(todo[1], "kb")
             THEN Ask("kb", "kb", todo[1]) /\ todo' = todo
             ELSE todo' = Tail(todo) /\ call' = call
          /\ UNCHANGED <<stage, context>>
     ELSE /\ todo' = todo
          /\ context' = IF indexed THEN context ELSE context \cup direct
          /\ IF indexed /\ QueryTools # <<>>
             THEN Ask("fuse", "query", QueryTools[1].by) /\ stage' = "fuse"
             ELSE stage' = "first" /\ call' = call
  /\ UNCHANGED <<llm, tools, used, executed, spoke, direct, indexed, outcome>>
  /\ Quiet

IndexTools == With(Load("index"), "index")

\* A KB is recorded even when it has nothing to say.  What it says is indexed at once.
KbAnswers ==
  /\ Waiting("kb")
  /\ call.phase = "reading"
  /\ used' = used \cup Executor
  /\ todo' = Tail(todo)
  /\ \/ direct' = direct /\ call' = NoCall /\ stage' = stage
     \/ /\ direct' = direct \cup ByCall
        /\ IF IndexTools = <<>> THEN call' = NoCall /\ stage' = stage
           ELSE Ask("kbIndex", "index", IndexTools[1].by) /\ stage' = "kbIndex"
  /\ UNCHANGED <<llm, tools, executed, spoke, indexed, context, outcome>>
  /\ Quiet

KbFails ==
  /\ Waiting("kb") /\ Fails
  /\ todo' = Tail(todo)
  /\ UNCHANGED <<stage, llm, tools, used, executed, spoke, direct, indexed, context, outcome>>

KbIndexed ==
  /\ Waiting("kbIndex")
  /\ stage' = "kb"
  /\ \/ Answered /\ shown' = shown /\ indexed' = TRUE
     \/ Fails /\ indexed' = indexed
  /\ UNCHANGED <<llm, tools, todo, used, executed, spoke, direct, context, outcome>>

\* callLlm, the first time with the tools, the second without.
CallModel ==
  /\ \/ At("first")
     \/ At("answer")
  /\ Ask(stage, "chat", llm)
  /\ UNCHANGED run
  /\ Quiet

FirstAnswers(calls) ==
  /\ Waiting("first")
  /\ ModelAnswers(calls)
  /\ IF calls = <<>> THEN Over("completed") /\ todo' = todo
     ELSE stage' = "tool" /\ todo' = calls /\ outcome' = outcome
  /\ UNCHANGED <<llm, tools, used, direct, indexed, context>>

AnswerAnswers(calls) ==
  /\ Waiting("answer")
  /\ ModelAnswers(calls)
  /\ Over("completed")
  /\ UNCHANGED <<llm, tools, todo, used, direct, indexed, context>>

\* The exception leaves run: the session of the portal emits RUNTIME_ERROR.
Slip_ModelFails ==      \* the timer resolves the promise with what there is
  /\ Waiting("first") \/ Waiting("answer")
  /\ Fails
  /\ Over("completed")
  /\ UNCHANGED <<llm, tools, todo, used, executed, spoke, direct, indexed, context>>

ModelFails ==
  /\ Waiting("first") \/ Waiting("answer")
  /\ Fails
  /\ Over("RUNTIME_ERROR")
  /\ UNCHANGED <<llm, tools, todo, used, executed, spoke, direct, indexed, context>>

\* executeToolCall: the first tool with that name, unless it is vetoed.  A call is
\* also refused when its arguments cannot be parsed, or name no file for the OCR.
ToolsNamed(name) == {i \in DOMAIN tools : tools[i].cap = name}
Executing(name) == tools[Min(ToolsNamed(name))].by
MayExecute(name) == ToolsNamed(name) # {} /\ Executing(name) \notin Vetoed

Tool ==
  /\ At("tool")
  /\ IF todo = <<>> THEN stage' = "answer" /\ UNCHANGED <<todo, call>>
     ELSE /\ stage' = stage
          /\ \/ todo' = Tail(todo) /\ call' = call
             \/ /\ MayExecute(todo[1])
                /\ Ask("tool", todo[1], Executing(todo[1])) /\ todo' = todo
  /\ UNCHANGED <<llm, tools, used, executed, spoke, direct, indexed, context, outcome>>
  /\ Quiet

ToolOver ==
  /\ Waiting("tool")
  /\ todo' = Tail(todo)
  /\ \/ /\ Answered /\ shown' = shown
        /\ used' = used \cup Executor /\ context' = context \cup ByCall
     \/ Fails /\ UNCHANGED <<used, context>>
  /\ UNCHANGED <<stage, llm, tools, executed, spoke, direct, indexed, outcome>>

-----------------------------------------------------------------------------
(* The other methods.                                                      *)

\* extractOcrText and runOcrDeterministically: one provider after the other.
StartOcr ==
  /\ stage = "idle" /\ req.entry = "ocr"
  /\ todo' = LET found == With(Load("ocr"), "ocr") IN [i \in DOMAIN found |-> found[i].by]
  /\ IF ~ conformant THEN Over("NON_CONFORMANT")
     ELSE IF todo' = <<>> THEN Over("NO_OCR_PROVIDER")
     ELSE stage' = "ocr" /\ outcome' = outcome
  /\ UNCHANGED <<conformant, req, cache, llm, tools, used, executed, spoke, direct, indexed, context, file, net>>

Ocr ==
  /\ At("ocr")
  /\ Ask("ocr", "ocr", todo[1])
  /\ UNCHANGED run
  /\ Quiet

OcrAnswers ==
  /\ Waiting("ocr")
  /\ Answered /\ shown' = shown
  /\ used' = used \cup Executor
  /\ Over("text") \/ Over("OCR_FAILED")      \* no text is an answer: nobody else is tried
  /\ UNCHANGED <<llm, tools, todo, executed, spoke, direct, indexed, context>>

OcrFails ==
  /\ Waiting("ocr") /\ Fails
  /\ IF Len(todo) = 1 THEN Over("OCR_FAILED") /\ todo' = todo
     ELSE todo' = Tail(todo) /\ UNCHANGED <<stage, outcome>>
  /\ UNCHANGED <<llm, tools, used, executed, spoke, direct, indexed, context>>

\* indexDocumentForRag.
StartIndex ==
  /\ stage = "idle" /\ req.entry = "index"
  /\ IF conformant /\ IndexTools # <<>>
     THEN Ask("index", "index", IndexTools[1].by) /\ stage' = "index" /\ outcome' = outcome
     ELSE Over("unavailable") /\ call' = call
  /\ UNCHANGED <<llm, tools, todo, used, executed, spoke, direct, indexed, context>>
  /\ Quiet

Indexed ==
  /\ Waiting("index")
  /\ \/ Answered /\ shown' = shown /\ Over("indexed")
     \/ Fails /\ Over("unavailable")
  /\ UNCHANGED <<llm, tools, todo, used, executed, spoke, direct, indexed, context>>

\* resolveKbCandidates, which a session of the portal asks for in a conformant build:
\* the KBs whose descriptions match the question, or the one that the model names.
StartKb ==
  /\ stage = "idle" /\ req.entry = "kb" /\ conformant
  /\ llm' = ResolveLlm
  /\ IF Recommended # <<>> THEN Over("candidates") /\ todo' = Recommended /\ call' = call
     ELSE /\ todo' = KnownKbs
          /\ IF KnownKbs = <<>> \/ llm' = NoProvider THEN Over("noCandidate") /\ call' = call
             ELSE Ask("choose", "chat", llm') /\ stage' = "choose" /\ outcome' = outcome
  /\ UNCHANGED <<tools, used, executed, spoke, direct, indexed, context>>
  /\ Quiet

\* Only an id that was offered is accepted; anything else is none.
Chosen ==
  /\ Waiting("choose")
  /\ \/ /\ ModelAnswers(<<>>)
        /\ \/ \E p \in Range(todo) : todo' = <<p>> /\ Over("candidates")
           \/ todo' = <<>> /\ Over("noCandidate")
     \/ Fails /\ todo' = <<>> /\ Over("noCandidate") /\ UNCHANGED <<executed, spoke>>
  /\ UNCHANGED <<llm, tools, used, direct, indexed, context>>

-----------------------------------------------------------------------------
ToolCalls == BoundedSeq(Capability, MaxToolCalls)

LocalStep == StartRun \/ StartOcr \/ StartIndex \/ StartKb \/ Rag \/ Kb \/ CallModel \/ Tool \/ Ocr

CallEnds ==
  \/ Queried("rag", "kb") \/ Queried("fuse", "first")
  \/ KbAnswers \/ KbFails \/ KbIndexed
  \/ \E calls \in ToolCalls : FirstAnswers(calls) \/ AnswerAnswers(calls)
  \/ ModelFails \/ ToolOver
  \/ OcrAnswers \/ OcrFails \/ Indexed \/ Chosen

Next ==
  \/ \E p \in Provider : Beacon(p) \/ Assigned(p)
  \/ Dialled \/ Connected \/ Acked \/ Delta
  \/ Uploaded \/ Unpinned \/ Backstop
  \/ \E c \in late : LateAcked(c) \/ LateDelta(c) \/ LateOver(c)
  \/ LocalStep
  \/ CallEnds

\* The deadline of the auction, the timeout of each dial and the timer of the call end
\* every dispatch; the rest is code that runs.
Spec == Init /\ [][Next]_vars /\ WF_vars(LocalStep) /\ WF_vars(CallEnds)

-----------------------------------------------------------------------------
(* Properties.                                                             *)

\* buildProvenance.
Provenance == [llm |-> IF executed # NoProvider THEN executed ELSE llm, tools |-> used]

Stages == {"idle", "rag", "kb", "kbIndex", "fuse", "first", "tool", "answer",
           "ocr", "index", "choose", "over"}
Outcomes == {"none", "completed", "NO_LLM", "RUNTIME_ERROR", "text", "OCR_FAILED", "NON_CONFORMANT",
             "NO_OCR_PROVIDER", "indexed", "unavailable", "candidates",
             "noCandidate"}
Result == [cap : Capability, by : Provider]

TypeOK ==
  /\ conformant \in BOOLEAN
  /\ req \in Request
  /\ Range(cache) \subseteq Provider /\ IsInjective(cache)
  /\ stage \in Stages /\ outcome \in Outcomes
  /\ llm \in Star \cup {NoProvider}
  /\ executed \in Star \cup {NoProvider} /\ spoke \in Star \cup {NoProvider}
  /\ Range(tools) \subseteq Result
  /\ used \subseteq Result /\ direct \subseteq Result /\ context \subseteq Result
  /\ indexed \in BOOLEAN
  /\ call.by \in Provider \cup {NoProvider}
  /\ file \in [pinned : BOOLEAN, unpins : Nat, timers : Nat, fault : BOOLEAN]

\* What a build that is not conformant disables (conformance.ts:11-12): whatever the
\* request carries and whatever a Star answers or asks for, no document, fragment, file,
\* argument of a tool or question for a knowledge base leaves, nobody but Stars is
\* written to, and no file is left at IPFS.  What does leave is the message and, when a
\* Star asks for tools all the same, the dialogue it began; and to whichever Star wins
\* the auction.  So it is less than MessageIsLiteral.
OnlyTheMessageLeaves ==
  ~ conformant => /\ \A s \in sent : s.to \in Star /\ s.what \in {"message", "dialogue"}
                  /\ ~ file.pinned

\* "solo reenvía el mensaje literal del usuario al Star elegido" (conformance.ts:8-9).
\* It does not: a Star that asks for a tool it was not offered is asked again, or
\* another in its place, with the first answer and an error per tool.
MessageIsLiteral == ~ conformant => \A s \in sent : s.what = "message"

\* Whoever's text is in the prompt is named in the provenance of the answer, also when
\* it executed a mission that was meant for another.
ContextIsAttributed == context \subseteq Provenance.tools

\* What the user reads of one call to a model is its pieces in order, each one once:
\* streamed, or all at the end, never both.  What was said to choose a KB is not shown.
SaidOnce ==
  /\ \A i, j \in DOMAIN shown :
       i < j /\ shown[i].for = shown[j].for => shown[j].nth > shown[i].nth
  /\ \A i \in DOMAIN shown : shown[i].for # "choose"
  /\ \A i \in DOMAIN shown : shown[i].nth > 1 =>
       \E j \in 1 .. i - 1 : shown[j] = [shown[i] EXCEPT !.nth = @ - 1]

\* An ephemeral attachment is not forgotten at IPFS (DEC-0052): once the OCR is over,
\* whoever failed on the way, its removal is under way or done, unless a request to the
\* node failed.  The backstop is for the one failure in which the CID is not known.
NothingIsForgotten ==
  outcome # "none" /\ file.pinned /\ req.ipfs = "ephemeral" =>
    \/ file.unpins > 0
    \/ file.fault
    \/ req.private /\ ~ PrivateGateway /\ file.timers > 0

\* assistant.completed is the last thing heard of a run, although calls that timed out
\* still have readers.
CompletedIsSilent == [][outcome = "completed" => shown' = shown]_vars

\* Every request ends, whoever fails to bid, to answer or to finish.
RunEnds == (stage # "idle") ~> (stage = "over")

\* "un usuario que pide scope "local" solo acepta nodos locales" (runtime.ts:1094):
\* nothing is sent to a provider out of the scope of the request.
ScopeIsRespected == \A s \in sent : Visibility(s.to) <= req.scope

\* "la procedencia debe nombrar al que de verdad respondió" (runtime.ts:1025).
AnswerIsAttributed ==
  outcome = "completed" => spoke = Provenance.llm

=============================================================================
