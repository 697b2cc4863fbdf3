------------------------------ MODULE LocalRag ------------------------------
(***************************************************************************)
(* The documents the portal keeps in the browser to answer from            *)
(* (apps/portal-chat/src/services/local-rag): the page posts requests to a *)
(* worker, which serves them one by one and keeps chunks and vectors in    *)
(* SQLite on OPFS or, when that cannot be opened, in IndexedDB.            *)
(*                                                                         *)
(* SQLite commits each statement; the worker may be terminated, with its   *)
(* page, between any two of them, and any may fail.  What stays is what    *)
(* was written.  Each session of the page chooses its store again.  One    *)
(* page is open at a time: two would share the store and each count        *)
(* vector ids on its own.                                                  *)
(*                                                                         *)
(* A chunk's text is the document, its number, and the request that        *)
(* indexed it; what a query finds it worth is the constant Score.          *)
(***************************************************************************)
EXTENDS Integers, Sequences, FiniteSets, SequencesExt

CONSTANTS
  Scopes,       \* RAG scopes: the common one, or a conversation's
  Docs,         \* documents, numbered
  ScopeOf,      \* scope each document is indexed in
  Score,        \* what the chunks of each document are worth to a query
  ChunkSize, Overlap, \* DEFAULT_CHUNK_SIZE and DEFAULT_CHUNK_OVERLAP, in words
  TopK,         \* DEFAULT_TOP_K
  Words,        \* lengths of the texts to index, in words
  Kinds,        \* requests the page makes: "index", "query", "clear", "delete"
  Stores,       \* what the sessions may open: "sqlite", "indexeddb"
  Requests,     \* bound: requests posted
  Sessions      \* bound: sessions of the page

Doc == 1 .. Docs
Request == 1 .. Requests
NoDoc == 0
NoRequest == 0
NoStore == "none"

ASSUME ChunkAssumption == ChunkSize \in Nat \ {0} /\ Overlap \in 0 .. ChunkSize - 1
ASSUME ScopeAssumption == ScopeOf \in [Doc -> Scopes]
ASSUME BoundAssumption == Docs \in Nat /\ Requests \in Nat /\ Sessions \in Nat \ {0} /\ TopK \in Nat
ASSUME WordsAssumption == Words \subseteq Nat
ASSUME KindsAssumption == Kinds \subseteq {"index", "query", "clear", "delete"}
ASSUME StoresAssumption == Stores \subseteq {"sqlite", "indexeddb"}

VARIABLES
  chunks,     \* rag_chunks
  vectors,    \* rag_embeddings
  records,    \* the object store of IndexedDB
  store,      \* of this session, once ensureSqlite has decided
  nextId,     \* nextVectorId
  queue,      \* requestQueue: those that wait
  serving,    \* the one handleRequest is at
  at,         \* where it is
  left,       \* what its loop has still to do
  asked,      \* what each request asks
  awaited,    \* LocalRagStore.pending
  cleared,    \* stores and requests wiped from them by a clear that succeeded (history)
  session     \* sessions of the page so far

persisted == <<chunks, vectors, records>>
worker == <<store, nextId, queue, serving, at, left>>
page == <<asked, awaited, session>>
vars == <<persisted, worker, page, cleared>>

-----------------------------------------------------------------------------
(* Algorithms.  (Slip_ operators: what a careless change would make of the *)
(* definition that follows; nothing uses them.)                            *)

Slip_ChunkText(w) ==  \* stopping when the next chunk would not be full
  LET from[start \in 0 .. w] ==
        IF start >= w \/ (start > 0 /\ start + ChunkSize > w) THEN <<>>
        ELSE <<start .. (IF start + ChunkSize > w THEN w ELSE start + ChunkSize) - 1>>
               \o (IF start + ChunkSize >= w THEN <<>> ELSE from[start + ChunkSize - Overlap])
  IN from[0]

\* chunkText: of a text of w words, the words (from 0) in each of its chunks.
ChunkText(w) ==
  LET from[start \in 0 .. w] ==
        IF start >= w THEN <<>>
        ELSE <<start .. (IF start + ChunkSize > w THEN w ELSE start + ChunkSize) - 1>>
               \o (IF start + ChunkSize >= w THEN <<>> ELSE from[start + ChunkSize - Overlap])
  IN from[0]

\* Every chunk there may be is worth something to the query.
ASSUME ScoreAssumption ==
  /\ Score \in [Doc -> Seq(Int)]
  /\ \A d \in Doc, w \in Words : DOMAIN ChunkText(w) \subseteq DOMAIN Score[d]

Slip_Place(ranked, score) ==  \* > for >=
  LET low[bounds \in (0 .. Len(ranked)) \X (0 .. Len(ranked))] ==
        LET l == bounds[1]  h == bounds[2]  m == (l + h) \div 2
        IN IF l >= h THEN l
           ELSE IF ranked[m + 1].score > score THEN low[<<m + 1, h>>] ELSE low[<<l, m>>]
  IN low[<<0, Len(ranked)>>]

\* The binary search of rankCosineTopK.
Place(ranked, score) ==
  LET low[bounds \in (0 .. Len(ranked)) \X (0 .. Len(ranked))] ==
        LET l == bounds[1]  h == bounds[2]  m == (l + h) \div 2
        IN IF l >= h THEN l
           ELSE IF ranked[m + 1].score >= score THEN low[<<m + 1, h>>] ELSE low[<<l, m>>]
  IN low[<<0, Len(ranked)>>]

\* rankCosineTopK: the best k of a sequence of scored records, best first.
Rank(input, k) ==
  FoldLeft(LAMBDA ranked, r :
             LET low == Place(ranked, r.score)
                 all == InsertAt(ranked, low + 1, r)
             IN IF low >= k THEN ranked
                ELSE SubSeq(all, 1, IF Len(all) > k THEN k ELSE Len(all)),
           <<>>, input)

-----------------------------------------------------------------------------
(* What a query reads.  It names a scope and, mostly, a document.          *)

Query == [scope : Scopes, doc : Doc \cup {NoDoc}]
Matches(c, q) == IF q.doc = NoDoc THEN ScopeOf[c.doc] = q.scope ELSE c.doc = q.doc

\* Of scored records, the k best; among equals, those that came first.
Top(S, k) == {r \in S : Cardinality({s \in S : s.score > r.score \/ (s.score = r.score /\ s.id < r.id)}) < k}

Nearest(doc) ==
  Top({[id |-> v.id, score |-> Score[v.doc][v.n]] : v \in {u \in vectors : u.key = doc}}, TopK)

Slip_QuerySqlite(q) ==  \* without the filter on the scope
  LET keys == IF q.doc = NoDoc THEN {c.doc : c \in chunks} ELSE {q.doc}
      hits == UNION {Nearest(k) : k \in keys}
      joined == {hc \in hits \X chunks : hc[2].id = hc[1].id}
  IN Top({[id |-> hc[1].id, score |-> hc[1].score, doc |-> hc[2].doc, n |-> hc[2].n] :
            hc \in joined}, TopK)

\* querySqlite: the best of each partition, those that have a chunk in the scope,
\* and the best of these.
QuerySqlite(q) ==
  LET keys == IF q.doc = NoDoc THEN {c.doc : c \in chunks} ELSE {q.doc}
      hits == UNION {Nearest(k) : k \in keys}
      joined == {hc \in hits \X chunks : hc[2].id = hc[1].id /\ Matches(hc[2], q)}
  IN Top({[id |-> hc[1].id, score |-> hc[1].score, doc |-> hc[2].doc, n |-> hc[2].n] :
            hc \in joined}, TopK)

\* readIndexedDb, with the predicates of those who read: a document, and so what its
\* conversation has here; or what a query names.
RecordsOf(doc) == {r \in records : r.doc = doc}
Slip_RecordsFor(q) == records  \* without the predicate
RecordsFor(q) == {r \in records : Matches(r, q)}

\* getAll: in the order of the keys.  (They are texts, "d:10" before "d:2"; numbers here:
\* that only tells among equals, past ten chunks of a document.)
KeyBefore(a, b) == a.doc < b.doc \/ (a.doc = b.doc /\ a.n < b.n)
InKeyOrder(S) ==
  [i \in 1 .. Cardinality(S) |-> CHOOSE r \in S : Cardinality({s \in S : KeyBefore(s, r)}) = i - 1]

\* queryIndexedDb.
QueryIndexedDb(q) ==
  LET scored == {[doc |-> r.doc, n |-> r.n, score |-> Score[r.doc][r.n]] : r \in RecordsFor(q)}
  IN Range(Rank(InKeyOrder(scored), TopK))

-----------------------------------------------------------------------------
(* The page.                                                               *)

Nothing == [kind |-> "none", doc |-> NoDoc, words |-> 0]
Init ==
  /\ chunks = {} /\ vectors = {} /\ records = {}
  /\ store = NoStore /\ nextId = 1
  /\ queue = <<>> /\ serving = NoRequest /\ at = "idle" /\ left = {}
  /\ asked = [r \in Request |-> Nothing] /\ awaited = {} /\ session = 1
  /\ cleared = {}

\* send(), from index, query, clear or deleteConversation (of the conversation that
\* has the document).
Post(kind, doc, words) ==
  \E r \in Request :
    /\ asked[r] = Nothing
    /\ \A s \in 1 .. r - 1 : asked[s] # Nothing
    /\ asked' = [asked EXCEPT ![r] = [kind |-> kind, doc |-> doc, words |-> words]]
    /\ awaited' = awaited \cup {r}
    /\ queue' = Append(queue, r)
    /\ UNCHANGED <<persisted, store, nextId, serving, at, left, session, cleared>>

PostAny ==
  \E kind \in Kinds :
    CASE kind = "index"              -> \E d \in Doc, w \in Words : Post(kind, d, w)
      [] kind \in {"query", "delete"} -> \E d \in Doc : Post(kind, d, 0)
      [] kind = "clear"              -> Post(kind, NoDoc, 0)

\* The page is closed or loaded again, and the worker with it.
Restart ==
  /\ session < Sessions
  /\ session' = session + 1
  /\ store' = NoStore /\ nextId' = 1
  /\ queue' = <<>> /\ serving' = NoRequest /\ at' = "idle" /\ left' = {}
  /\ awaited' = {}
  /\ UNCHANGED <<persisted, asked, cleared>>

\* The "error" event of the worker: every promise rejects.  The requests go on, and
\* their results find nobody waiting.
WorkerError ==
  /\ awaited # {}
  /\ awaited' = {}
  /\ UNCHANGED <<persisted, worker, asked, session, cleared>>

-----------------------------------------------------------------------------
(* The worker.                                                             *)

Goes(place) == at' = place /\ UNCHANGED <<queue, serving>>

\* A result or an error is posted, and the next request may begin.
Answers ==
  /\ awaited' = awaited \ {serving}
  /\ serving' = NoRequest
  /\ at' = "idle"
  /\ left' = {}
  /\ UNCHANGED <<queue, asked, session>>

Slip_Take ==  \* without the chain of requestQueue: one overtakes another
  /\ serving = NoRequest
  /\ queue # <<>>
  /\ serving' = Last(queue)
  /\ queue' = Front(queue)
  /\ at' = "embedding"
  /\ left' = {}
  /\ UNCHANGED <<persisted, store, nextId, page, cleared>>

Take ==
  /\ serving = NoRequest
  /\ queue # <<>>
  /\ serving' = Head(queue)
  /\ queue' = Tail(queue)
  /\ at' = "embedding"
  /\ left' = {}
  /\ UNCHANGED <<persisted, store, nextId, page, cleared>>

Serving(kind) == serving # NoRequest /\ asked[serving].kind = kind
TheDoc == asked[serving].doc
TheChunks == ChunkText(asked[serving].words)

Slip_Fails ==  \* without the post of the error
  /\ serving # NoRequest
  /\ serving' = NoRequest /\ at' = "idle" /\ left' = {}
  /\ UNCHANGED <<persisted, store, nextId, queue, page, cleared>>

\* The text has no words, the model cannot be loaded, a statement or a transaction
\* fails: handleRequest answers an error, with what was written written.
Fails ==
  /\ serving # NoRequest
  /\ Answers
  /\ UNCHANGED <<persisted, store, nextId, cleared>>

\* embed, for the requests that embed something.
Embed ==
  /\ at = "embedding"
  /\ Serving("index") => TheChunks # <<>>
  /\ Goes("opening")
  /\ UNCHANGED <<persisted, store, nextId, left, page, cleared>>

\* ensureSqlite: the first time it opens the database, or falls back.
Open ==
  /\ at = "opening"
  /\ IF store = NoStore THEN store' \in Stores ELSE store' = store
  /\ nextId' = IF store = NoStore /\ store' = "sqlite"
                 THEN 1 + Max({0} \cup {c.id : c \in chunks}) ELSE nextId
  /\ Goes("ready")
  /\ UNCHANGED <<persisted, left, page, cleared>>

Ready(kind, s) == Serving(kind) /\ at = "ready" /\ store = s

\* indexSqlite: first the statements that delete what the document had ...
DeleteVectors ==
  /\ Ready("index", "sqlite")
  /\ vectors' = {v \in vectors : v.key # TheDoc}
  /\ Goes("vectorsDeleted")
  /\ UNCHANGED <<chunks, records, store, nextId, left, page, cleared>>

DeleteChunks ==
  /\ Serving("index") /\ at = "vectorsDeleted"
  /\ chunks' = {c \in chunks : c.doc # TheDoc}
  /\ left' = DOMAIN TheChunks
  /\ Goes("inserting")
  /\ UNCHANGED <<vectors, records, store, nextId, page, cleared>>

\* ... then a chunk and its vector at a time.  Both tables have a key, and an
\* insertion that repeats one fails; the vector id is used up all the same.
InsertChunk ==
  /\ Serving("index") /\ at = "inserting" /\ left # {}
  /\ nextId' = nextId + 1
  /\ LET n == Min(left)
     IN IF \E c \in chunks : c.id = nextId \/ (c.doc = TheDoc /\ c.n = n)
          THEN Answers /\ UNCHANGED chunks
          ELSE /\ chunks' = chunks \cup {[id |-> nextId, doc |-> TheDoc, n |-> n, run |-> serving]}
               /\ Goes("chunkInserted")
               /\ UNCHANGED <<left, page>>
  /\ UNCHANGED <<vectors, records, store, cleared>>

InsertVector ==
  /\ Serving("index") /\ at = "chunkInserted"
  /\ LET n == Min(left)
     IN IF \E v \in vectors : v.id = nextId - 1
          THEN Answers /\ UNCHANGED vectors
          ELSE /\ vectors' = vectors \cup {[id |-> nextId - 1, key |-> TheDoc, doc |-> TheDoc, n |-> n,
                                           run |-> serving]}
               /\ left' = left \ {n}
               /\ Goes("inserting")
               /\ UNCHANGED page
  /\ UNCHANGED <<chunks, records, store, nextId, cleared>>

IndexedInSqlite ==
  /\ Serving("index") /\ at = "inserting" /\ left = {}
  /\ Answers
  /\ UNCHANGED <<persisted, store, nextId, cleared>>

\* transaction: all of it, or nothing (Fails).
Transaction(deleted, put) == records' = (records \ deleted) \cup put

Slip_DeleteRecords ==  \* relying on put to replace
  /\ Ready("index", "indexeddb")
  /\ Goes("recordsDeleted")
  /\ UNCHANGED <<persisted, store, nextId, left, page, cleared>>

\* indexIndexedDb: one transaction deletes, another puts, over what has the same key.
DeleteRecords ==
  /\ Ready("index", "indexeddb")
  /\ Transaction(RecordsOf(TheDoc), {})
  /\ Goes("recordsDeleted")
  /\ UNCHANGED <<chunks, vectors, store, nextId, left, page, cleared>>

PutRecords ==
  /\ Serving("index") /\ at = "recordsDeleted"
  /\ Transaction({r \in RecordsOf(TheDoc) : r.n \in DOMAIN TheChunks},
                 {[doc |-> TheDoc, n |-> n, run |-> serving] : n \in DOMAIN TheChunks})
  /\ Answers
  /\ UNCHANGED <<chunks, vectors, store, nextId, cleared>>

\* What a query finds is stated below of every query and every moment; here it ends.
ServeQuery ==
  /\ Serving("query") /\ at = "ready"
  /\ Answers
  /\ UNCHANGED <<persisted, store, nextId, cleared>>

\* Requests for an index that a clear posted after them undoes.
Before(r) == {s \in 1 .. r - 1 : asked[s].kind = "index"}

\* clearIndex: two statements, or a transaction.
ClearVectors ==
  /\ Ready("clear", "sqlite")
  /\ vectors' = {}
  /\ Goes("allVectorsDeleted")
  /\ UNCHANGED <<chunks, records, store, nextId, left, page, cleared>>

ClearChunks ==
  /\ Serving("clear") /\ at = "allVectorsDeleted"
  /\ chunks' = {}
  /\ nextId' = 1
  /\ cleared' = cleared \cup {<<"sqlite", r>> : r \in Before(serving)}
  /\ Answers
  /\ UNCHANGED <<vectors, records, store>>

ClearRecords ==
  /\ Ready("clear", "indexeddb")
  /\ Transaction(records, {})
  /\ cleared' = cleared \cup {<<"indexeddb", r>> : r \in Before(serving)}
  /\ Answers
  /\ UNCHANGED <<chunks, vectors, store, nextId>>

\* deleteConversation, which the page has but does not call: chunks before vectors.
DeleteConversationChunks ==
  /\ Ready("delete", "sqlite")
  /\ left' = {c.doc : c \in {d \in chunks : d.doc = TheDoc}}
  /\ chunks' = {c \in chunks : c.doc # TheDoc}
  /\ Goes("conversationChunksDeleted")
  /\ UNCHANGED <<vectors, records, store, nextId, page, cleared>>

DeleteConversationVectors ==
  /\ Serving("delete") /\ at = "conversationChunksDeleted"
  /\ vectors' = {v \in vectors : v.key \notin left}
  /\ Answers
  /\ UNCHANGED <<chunks, records, store, nextId, cleared>>

DeleteConversationRecords ==
  /\ Ready("delete", "indexeddb")
  /\ Transaction(RecordsOf(TheDoc), {})
  /\ Answers
  /\ UNCHANGED <<chunks, vectors, store, nextId, cleared>>

Serve ==
  \/ Take \/ Embed \/ Open \/ ServeQuery
  \/ DeleteVectors \/ DeleteChunks \/ InsertChunk \/ InsertVector \/ IndexedInSqlite
  \/ DeleteRecords \/ PutRecords
  \/ ClearVectors \/ ClearChunks \/ ClearRecords
  \/ DeleteConversationChunks \/ DeleteConversationVectors \/ DeleteConversationRecords

Next == PostAny \/ Restart \/ WorkerError \/ Serve \/ Fails

\* The worker goes on while it has something to do: its promises settle (an
\* embedding or a database that never answers is left out).
Fairness == WF_vars(Serve \/ Fails)
Spec == Init /\ [][Next]_vars /\ Fairness

-----------------------------------------------------------------------------
(* Properties.                                                             *)

Chunk == [id : Nat, doc : Doc, n : Nat, run : Request]
TypeOK ==
  /\ chunks \subseteq Chunk
  /\ vectors \subseteq [id : Nat, key : Doc, doc : Doc, n : Nat, run : Request]
  /\ records \subseteq [doc : Doc, n : Nat, run : Request]
  /\ store \in Stores \cup {NoStore} /\ nextId \in Nat \ {0}
  /\ queue \in Seq(Request) /\ serving \in Request \cup {NoRequest}
  /\ (at = "idle") <=> (serving = NoRequest)
  /\ left \subseteq Nat /\ awaited \subseteq Request /\ session \in 1 .. Sessions
  /\ \A c, d \in chunks : (c.id = d.id \/ (c.doc = d.doc /\ c.n = d.n)) => c = d

\* Whatever the interleaving of indexing, clearing, failing and closing the page, a
\* query answers from its scope and document alone, with chunks whose own
\* vector is stored, and no better chunk is left out.
IsBest(found, candidates, q) ==
  LET text(r) == <<r.doc, r.n>>
      all == {text(c) : c \in {d \in candidates : Matches(d, q)}}
      got == {text(f) : f \in found}
      worth(x) == Score[x[1]][x[2]]
  IN /\ got \subseteq all
     /\ Cardinality(found) = IF Cardinality(all) < TopK THEN Cardinality(all) ELSE TopK
     /\ \A f \in found : f.score = worth(text(f))
     /\ \A x \in got, y \in all \ got : worth(x) >= worth(y)

SqliteIsExact ==
  \A q \in Query :
    IsBest(QuerySqlite(q),
           {c \in chunks : \E v \in vectors : v.id = c.id /\ v.doc = c.doc /\ v.n = c.n}, q)

\* The same of the other store.
IndexedDbIsExact == \A q \in Query : IsBest(QueryIndexedDb(q), records, q)

\* What a document is answered from is one reading of it: no chunk, vector or record
\* of an earlier indexing outlives the next one.
OneReading ==
  \A S \in {chunks, vectors, records} : \A a, b \in S : a.doc = b.doc => a.run = b.run

\* A clear that succeeded is final for the store it cleared: nothing whose indexing
\* was asked for before it is there afterwards, not even what was being
\* indexed or still waited.
ClearedStaysCleared ==
  /\ \A c \in chunks \cup vectors : <<"sqlite", c.run>> \notin cleared
  /\ \A r \in records : <<"indexeddb", r.run>> \notin cleared

\* "Borrar el historial elimina el contenido local": nothing whose indexing was
\* asked for before a clear that succeeded is anywhere in the browser.
ClearedIsGone ==
  \A c \in chunks \cup vectors \cup records : \A s \in Stores : <<s, c.run>> \notin cleared

\* Every request the page waits for is settled, whatever fails before or in it.
RequestsAreSettled == \A r \in Request : r \in awaited ~> r \notin awaited

\* Whatever the query being served finds the records worth, the binary insertion ranks
\* them as a stable sort does: best first, equals in the order of their keys, and
\* the first k of that.
RankingIsStable ==
  at = "ready" /\ Serving("query") =>
    \A input \in [1 .. Cardinality(records) -> 0 .. 2], k \in 1 .. 3 :
      LET scored == [i \in DOMAIN input |-> [place |-> i, score |-> input[i]]]
          ahead(i) == {j \in DOMAIN input : input[j] > input[i] \/ (input[j] = input[i] /\ j < i)}
          ranked == Rank(scored, k)
      IN /\ Len(ranked) = IF Len(input) < k THEN Len(input) ELSE k
         /\ \A i \in DOMAIN ranked : Cardinality(ahead(ranked[i].place)) = i - 1

\* The chunks of the text being indexed, of any shorter one and of any a chunk longer
\* leave no word out, share Overlap words with the one before, and none is contained
\* in another.
ChunksCoverTheText ==
  at = "opening" /\ Serving("index") =>
    \A w \in 0 .. asked[serving].words + ChunkSize :
      LET c == ChunkText(w)
      IN /\ UNION Range(c) = 0 .. w - 1
         /\ \A i \in DOMAIN c : c[i] # {} /\ Cardinality(c[i]) <= ChunkSize
         /\ \A i \in 2 .. Len(c) : Cardinality(c[i] \cap c[i - 1]) = Overlap
         /\ \A i, j \in DOMAIN c : i # j => ~ c[i] \subseteq c[j]
=============================================================================
