------------------------ MODULE PortalSessionProofs ------------------------
(***************************************************************************)
(* Proofs about PortalSession, for any number of streams and questions,    *)
(* any sessions and either build: its types, and that while no send fails  *)
(* a question is answered by one run at most, on knowledge bases only if   *)
(* the user chose them or agreed to a card of its session on its stream,   *)
(* in whatever order cards come and are answered.                          *)
(*                                                                         *)
(* Neither invariant is inductive.  The clients of the bus are the streams *)
(* whose loop reads, which a fetch that fails would break if two questions  *)
(* could wait for bytes on one stream (Fetching).  And a question has run   *)
(* no more than once because it has not run at all before the last of its   *)
(* stages (Unrun) and because what is pending is a question in the stage    *)
(* "asking" of that very stream and session (Asked): a second kbDecision    *)
(* for it finds nothing, and the one that runs it answers a card of its     *)
(* session, its own or another's.  That agreement keeps meaning what it did *)
(* because a question with a card was asked, and keeps its stream and its   *)
(* session ever after (Placed).                                             *)
(***************************************************************************)
EXTENDS PortalSession, SequenceTheorems, TLAPS

Phase == {"new", "fetch", "ocr", "index", "resolve", "asking", "chat", "over"}

Prefs == Preferences \cup {Unset}

Jobs == [at : Phase, stream : Stream \cup {NoStream},
         session : Session \cup {NoSession}, pref : Prefs]

Cards == [on : Stream, of : Question]

Types ==
  /\ conformant \in BOOLEAN
  /\ open \in [Stream -> BOOLEAN]
  /\ loop \in [Stream -> {"none", "reading", "fetching", "over"}]
  /\ sid \in [Stream -> Session \cup {NoSession}]
  /\ pref \in [Stream -> Prefs]
  /\ clients \in Seq(Stream)
  /\ pending \in [Stream -> [Session -> Question \cup {NoQuestion}]]
  /\ job \in [Question -> Jobs]
  /\ active \in [Question -> Nat] /\ runs \in [Question -> Nat]
  /\ withKbs \subseteq Question /\ cards \subseteq Cards /\ decided \subseteq Cards
  /\ threw \in BOOLEAN /\ dead \in BOOLEAN

\* A question that was asked has a stream and a session; so has one that is pending, and
\* one whose card was shown.
Placed ==
  /\ \A q \in Question :
       job[q].at # "new" => job[q].stream \in Stream /\ job[q].session \in Session
  /\ \A s \in Stream, c \in Session :
       pending[s][c] # NoQuestion => job[pending[s][c]].at \in {"asking", "chat"}
  /\ \A card \in cards \cup decided : job[card.of].at # "new"

\* The clients of the bus are the streams with a loop, once each.
Subscribed ==
  /\ IsInjective(clients)
  /\ \A s \in Stream : Contains(clients, s) <=> loop[s] \in {"reading", "fetching"}

\* A loop that waits for bytes waits for those of one question.
Fetching ==
  /\ \A q \in Question : job[q].at = "fetch" => loop[job[q].stream] = "fetching"
  /\ \A q, r \in Question :
       job[q].at = "fetch" /\ job[r].at = "fetch" /\ job[q].stream = job[r].stream => q = r

Counts == (\A q \in Question : active[q] <= runs[q]) /\ (dead => threw)

\* Before its last stage a question has not run.
Unrun ==
  ~ threw => \A q \in Question : /\ job[q].at \notin {"chat", "over"} => runs[q] = 0
                                 /\ q \in withKbs => runs[q] > 0

\* What is pending waits for a decision, on the stream and session it was asked on.
Asked ==
  ~ threw => \A s \in Stream, c \in Session :
    pending[s][c] # NoQuestion =>
      /\ job[pending[s][c]].at = "asking"
      /\ job[pending[s][c]].stream = s /\ job[pending[s][c]].session = c

IInv ==
  /\ Types /\ Placed /\ Subscribed /\ Fetching /\ Counts
  /\ Unrun /\ Asked /\ RunsOnceAsConfirmed

-----------------------------------------------------------------------------
(* The operators of the model.                                             *)

\* Removing an element of a sequence without repetitions removes that one alone.
LEMMA Removed ==
  ASSUME NEW S, NEW q \in Seq(S), NEW i \in DOMAIN q, IsInjective(q)
  PROVE  /\ RemoveAt(q, i) \in Seq(S)
         /\ IsInjective(RemoveAt(q, i))
         /\ \A x : Contains(RemoveAt(q, i), x) <=> Contains(q, x) /\ x # q[i]
<1> DEFINE d == RemoveAt(q, i)
           n == Len(q)
<1>1. /\ d \in Seq(S) /\ n \in Nat /\ i \in 1 .. n
      /\ DOMAIN d = 1 .. n - 1
      /\ \A k \in 1 .. n - 1 : d[k] = IF k < i THEN q[k] ELSE q[k + 1]
  <2> DEFINE l == SubSeq(q, 1, i - 1)
             r == SubSeq(q, i + 1, n)
  <2>1. n \in Nat /\ i \in 1 .. n /\ \A k \in 1 .. n : q[k] \in S  OBVIOUS
  <2>2. l \in Seq(S) /\ Len(l) = i - 1 /\ \A k \in 1 .. i - 1 : l[k] = q[k]
    <3>1. \A k \in 1 .. i - 1 : q[k] \in S  BY <2>1
    <3>2. /\ l \in Seq(S) /\ Len(l) = IF 1 <= i - 1 THEN i - 1 - 1 + 1 ELSE 0
          /\ \A k \in 1 .. i - 1 - 1 + 1 : l[k] = q[1 + k - 1]
      BY <2>1, <3>1, SubSeqProperties
    <3> HIDE DEF l
    <3> QED  BY <2>1, <3>2
  <2>3. r \in Seq(S) /\ Len(r) = n - i /\ \A k \in 1 .. n - i : r[k] = q[i + k]
    <3>1. \A k \in i + 1 .. n : q[k] \in S  BY <2>1
    <3>2. /\ r \in Seq(S) /\ Len(r) = IF i + 1 <= n THEN n - (i + 1) + 1 ELSE 0
          /\ \A k \in 1 .. n - (i + 1) + 1 : r[k] = q[i + 1 + k - 1]
      BY <2>1, <3>1, SubSeqProperties
    <3> HIDE DEF r
    <3> QED  BY <2>1, <3>2
  <2>4. d = l \o r  BY DEF RemoveAt
  <2> HIDE DEF d, l, r, n
  <2>5. /\ d \in Seq(S) /\ Len(d) = Len(l) + Len(r)
        /\ \A k \in 1 .. Len(l) + Len(r) : d[k] = IF k <= Len(l) THEN l[k] ELSE r[k - Len(l)]
    BY <2>2, <2>3, <2>4, ConcatProperties
  <2>6. Len(d) = n - 1  BY <2>1, <2>2, <2>3, <2>5
  <2>7. ASSUME NEW k \in 1 .. n - 1
        PROVE  d[k] = IF k < i THEN q[k] ELSE q[k + 1]
    <3>1. CASE k < i
      <4>1. k \in 1 .. i - 1 /\ k \in 1 .. Len(l) + Len(r) /\ k <= Len(l)
        BY <2>1, <2>2, <2>3, <3>1
      <4>2. d[k] = l[k] /\ l[k] = q[k]  BY <2>2, <2>5, <4>1
      <4> QED  BY <3>1, <4>2
    <3>2. CASE ~ k < i
      <4>0. k \in Int /\ i \in Int /\ i <= k /\ k <= n - 1  BY <2>1, <3>2
      <4>1. k - (i - 1) \in 1 .. n - i  BY <2>1, <4>0
      <4>2. k \in 1 .. Len(l) + Len(r) /\ ~ k <= Len(l)  BY <2>1, <2>2, <2>3, <4>0
      <4>3. d[k] = r[k - (i - 1)]  BY <2>2, <2>5, <4>2
      <4>4. r[k - (i - 1)] = q[i + (k - (i - 1))]  BY <2>3, <4>1
      <4>5. i + (k - (i - 1)) = k + 1  BY <4>0
      <4> QED  BY <3>2, <4>3, <4>4, <4>5
    <3> QED  BY <3>1, <3>2
  <2> QED  BY <2>1, <2>5, <2>6, <2>7
<1>2. DOMAIN q = 1 .. n  OBVIOUS
<1> HIDE DEF d, n
<1>3. \A a, b \in 1 .. n : q[a] = q[b] => a = b  BY <1>2 DEF IsInjective
<1>4. IsInjective(d)
  <2> SUFFICES ASSUME NEW a \in 1 .. n - 1, NEW b \in 1 .. n - 1, d[a] = d[b]
               PROVE  a = b
    BY <1>1 DEF IsInjective
  <2>1. CASE a < i /\ b < i  BY <1>1, <1>3, <2>1
  <2>2. CASE a < i /\ ~ b < i
    <3>1. q[a] = q[b + 1] /\ a \in 1 .. n /\ b + 1 \in 1 .. n  BY <1>1, <2>2
    <3> QED  BY <1>1, <1>3, <2>2, <3>1
  <2>3. CASE ~ a < i /\ b < i
    <3>1. q[a + 1] = q[b] /\ a + 1 \in 1 .. n /\ b \in 1 .. n  BY <1>1, <2>3
    <3> QED  BY <1>1, <1>3, <2>3, <3>1
  <2>4. CASE ~ a < i /\ ~ b < i
    <3>1. q[a + 1] = q[b + 1] /\ a + 1 \in 1 .. n /\ b + 1 \in 1 .. n  BY <1>1, <2>4
    <3> QED  BY <1>1, <1>3, <3>1
  <2> QED  BY <2>1, <2>2, <2>3, <2>4
<1>5. ASSUME NEW x
      PROVE  Contains(d, x) <=> Contains(q, x) /\ x # q[i]
  <2>1. ASSUME NEW k \in 1 .. n - 1, d[k] = x
        PROVE  Contains(q, x) /\ x # q[i]
    <3> DEFINE j == IF k < i THEN k ELSE k + 1
    <3>1. j \in 1 .. n /\ q[j] = x /\ j # i  BY <1>1, <2>1
    <3> QED  BY <1>1, <1>3, <3>1 DEF Contains, n
  <2>2. ASSUME NEW j \in 1 .. n, q[j] = x, x # q[i]
        PROVE  Contains(d, x)
    <3> DEFINE k == IF j < i THEN j ELSE j - 1
    <3>1. j # i  BY <2>2
    <3>2. k \in 1 .. n - 1 /\ d[k] = x  BY <1>1, <2>2, <3>1
    <3> HIDE DEF k
    <3> QED  BY <1>1, <3>2 DEF Contains
  <2> QED  BY <1>1, <2>1, <2>2 DEF Contains, n
<1> QED  BY <1>1, <1>4, <1>5 DEF d

\* Unsubscribing a stream takes that one out of the bus.
LEMMA Unsubscribes ==
  ASSUME Types, IsInjective(clients), NEW s \in Stream, Contains(clients, s)
  PROVE  /\ Unsubscribed(s) \in Seq(Stream)
         /\ IsInjective(Unsubscribed(s))
         /\ \A x : Contains(Unsubscribed(s), x) <=> Contains(clients, x) /\ x # s
<1> DEFINE i == CHOOSE k \in DOMAIN clients : clients[k] = s
<1>1. clients \in Seq(Stream)  BY DEF Types
<1>2. \E k \in DOMAIN clients : clients[k] = s  BY <1>1 DEF Contains
<1>3. i \in DOMAIN clients /\ clients[i] = s  BY <1>2
<1>4. Unsubscribed(s) = RemoveAt(clients, i)  BY DEF Unsubscribed
<1> HIDE DEF i
<1> QED  BY <1>1, <1>3, <1>4, Removed

\* Whether a KB was chosen by hand is known of any preferences.
LEMMA ChosenOrNot == \A p \in Prefs : p.kb \in BOOLEAN
<1>1. \A p \in Preferences : p.kb \in BOOLEAN  BY DEF Preferences
<1>2. Unset.kb = FALSE  BY DEF Unset
<1> QED  BY <1>1, <1>2 DEF Prefs

\* A send leaves a failure known.
LEMMA Sends ==
  ASSUME Types, NEW q \in Question,
         \/ \E e \in {"ocr", "recommended", "completed", "error", "delta"} : Emit(q, e)
         \/ SendError(q)
  PROVE  threw' \in BOOLEAN /\ (threw => threw')
BY DEF Types, Emit, SendError, Throws

\* A question goes to another stage, and changes nothing else.
LEMMA GoesOn ==
  ASSUME Types, NEW q \in Question, NEW at \in Phase, Goes(q, at)
  PROVE  /\ job' \in [Question -> Jobs]
         /\ job'[q].at = at
         /\ \A r \in Question : /\ r # q => job'[r] = job[r]
                                /\ job'[r].stream = job[r].stream
                                /\ job'[r].session = job[r].session
                                /\ job'[r].pref = job[r].pref
BY DEF Types, Goes, Jobs

\* What one question's work does to the counts: q runs n times more, on knowledge bases
\* only if k; those of the others stay.
Counted(q, n, k) ==
  /\ active' \in [Question -> Nat] /\ runs' \in [Question -> Nat]
  /\ withKbs' \subseteq Question
  /\ active'[q] = active[q] + n /\ runs'[q] = runs[q] + n
  /\ \A r \in Question \ {q} : /\ active'[r] = active[r] /\ runs'[r] = runs[r]
                               /\ r \in withKbs' <=> r \in withKbs
  /\ q \in withKbs' => q \in withKbs \/ (k /\ n = 1)

LEMMA RunIsCounted ==
  ASSUME Types, NEW q \in Question, NEW k \in BOOLEAN, RunChat(q, k)
  PROVE  Counted(q, 1, k)
BY DEF Types, RunChat, Counted

LEMMA NoRunIsCounted ==
  ASSUME Types, NEW q \in Question, NoRun
  PROVE  Counted(q, 0, FALSE)
BY DEF Types, NoRun, Counted

LEMMA ResolvedIsCounted ==
  ASSUME Types, NEW q \in Question, NEW p \in Prefs, ResolveKbAndChat(q, p)
  PROVE  Counted(q, IF After(p) = "chat" THEN 1 ELSE 0, p.kb)
<1>1. p.kb \in BOOLEAN /\ conformant \in BOOLEAN  BY ChosenOrNot DEF Types
<1>2. CASE ~ conformant
  <2>1. Counted(q, 1, FALSE)  BY <1>2, RunIsCounted DEF ResolveKbAndChat
  <2>2. After(p) = "chat"  BY <1>2 DEF After
  <2> QED  BY <2>1, <2>2 DEF Counted
<1>3. CASE conformant /\ p.kb
  <2>1. Counted(q, 1, TRUE)  BY <1>3, RunIsCounted DEF ResolveKbAndChat
  <2>2. After(p) = "chat"  BY <1>3 DEF After
  <2> QED  BY <1>3, <2>1, <2>2 DEF Counted
<1>4. CASE conformant /\ ~ p.kb
  <2>1. Counted(q, 0, FALSE)  BY <1>4, NoRunIsCounted DEF ResolveKbAndChat
  <2>2. After(p) # "chat"  BY <1>4 DEF After
  <2> QED  BY <2>1, <2>2 DEF Counted
<1> QED  BY <1>1, <1>2, <1>3, <1>4

-----------------------------------------------------------------------------
(* Types.                                                                  *)

LEMMA TypesInit == Init => Types /\ Placed
<1> SUFFICES ASSUME Init  PROVE Types /\ Placed  OBVIOUS
<1>1. Unset \in Prefs /\ NoJob \in Jobs
  BY DEF Prefs, NoJob, Jobs, Phase
<1>2. clients \in Seq(Stream)  BY DEF Init
<1> QED  BY <1>1, <1>2, BuildsAssumption DEF Init, Types, Placed, NoJob

\* What the steps of a stream do to the types.
LEMMA StreamTypes ==
  ASSUME Types, Subscribed, NEW s \in Stream, Open(s) \/ Closes(s) \/ LoopEnds(s)
  PROVE  Types'
<1>1. CASE Open(s)
  <2>1. clients' \in Seq(Stream)  BY <1>1 DEF Types, Open
  <2> QED  BY <1>1, <2>1 DEF Types, Open, work, heard
<1>2. CASE Closes(s)  BY <1>2 DEF Types, Closes, work, heard
<1>3. CASE LoopEnds(s)
  <2>1. clients' \in Seq(Stream)
    BY <1>3, Unsubscribes DEF LoopEnds, Subscribed
  <2> QED  BY <1>3, <2>1 DEF Types, LoopEnds, work, heard
<1> QED  BY <1>1, <1>2, <1>3

\* The same, for the frames a stream reads.
LEMMA FrameTypes ==
  ASSUME Types, NEW s \in Stream, NEW c \in Session,
         \/ \E p \in Started : AgentStart(s, c, p)
         \/ \E q \in Question, file \in BOOLEAN : ChatRequest(s, q, c, file)
  PROVE  Types'
<1>1. ASSUME NEW p \in Started, AgentStart(s, c, p)
      PROVE  Types'
  BY <1>1, StartedAssumption DEF Types, Prefs, AgentStart, work, heard
<1>2. ASSUME NEW q \in Question, NEW file \in BOOLEAN, ChatRequest(s, q, c, file)
      PROVE  Types'
  <2>1. pref[s] \in Prefs /\ s \in Stream \cup {NoStream}  BY DEF Types
  <2>2. After(pref[s]) \in Phase  BY DEF After, Phase
  <2>3. job' \in [Question -> Jobs]
    BY <1>2, <2>1, <2>2 DEF Types, ChatRequest, Jobs, Phase
  <2>4. \E n, k : Counted(q, n, k)
    BY <1>2, <2>1, NoRunIsCounted, ResolvedIsCounted DEF ChatRequest
  <2>5. /\ sid' \in [Stream -> Session \cup {NoSession}]
        /\ loop' \in [Stream -> {"none", "reading", "fetching", "over"}]
    BY <1>2 DEF Types, ChatRequest
  <2> QED  BY <1>2, <2>3, <2>4, <2>5 DEF Types, ChatRequest, Counted, heard
<1> QED  BY <1>1, <1>2

-----------------------------------------------------------------------------
(* The work of a question.                                                 *)

\* A stage of q's work takes it to another: it runs only at the last, on knowledge bases
\* only if it brought them, and asks only by leaving itself pending.
Moves(q, at, n, k) ==
  /\ job[q].at \in {"fetch", "ocr", "index", "resolve"} /\ at \notin {"new", "fetch"}
  /\ Goes(q, at) /\ Counted(q, n, k)
  /\ n = 1 => at = "chat"
  /\ k /\ n = 1 => job[q].pref.kb
  /\ at = "asking" =>
       pending' = [pending EXCEPT ![job[q].stream][job[q].session] = q]
  /\ at # "asking" /\ ~ threw' => pending' = pending
  /\ \A s \in Stream, c \in Session :
       pending'[s][c] # pending[s][c] => pending'[s][c] = q /\ at \in {"asking", "chat"}
  /\ pending' \in [Stream -> [Session -> Question \cup {NoQuestion}]]
  /\ UNCHANGED <<conformant, open, sid, pref, decided>>
  /\ cards' \subseteq cards \cup [on : Stream, of : {q}]
  /\ threw' \in BOOLEAN /\ (threw => threw')
  /\ dead' \in BOOLEAN /\ (dead' => threw')

Stages(q) == Fetched(q) \/ OcrEnds(q) \/ IndexEnds(q) \/ Resolved(q)

LEMMA FetchedMoves ==
  ASSUME Types, NEW q \in Question, Fetched(q)
  PROVE  \E at \in Phase : Moves(q, at, 0, FALSE)
<1>0. ~ (0 = 1)  OBVIOUS
<1>1. /\ job[q].at = "fetch" /\ ~ dead
      /\ \/ Goes(q, "ocr") /\ UNCHANGED heard
         \/ Goes(q, "over") /\ SendError(q)
      /\ NoRun /\ UNCHANGED <<conformant, open, sid, pref, pending, cards, decided, dead>>
  BY DEF Fetched
<1>2. Counted(q, 0, FALSE)  BY <1>1, NoRunIsCounted
<1>3. threw' \in BOOLEAN /\ (threw => threw')  BY <1>1, Sends DEF heard, Types
<1>4. "ocr" \in Phase /\ "over" \in Phase  BY DEF Phase
<1>5. pending' \in [Stream -> [Session -> Question \cup {NoQuestion}]]
      /\ dead' \in BOOLEAN /\ ~ dead'
  BY <1>1 DEF Types
<1>6. CASE Goes(q, "ocr")
  <2>1. Moves(q, "ocr", 0, FALSE)  BY <1>0, <1>1, <1>2, <1>3, <1>5, <1>6 DEF Moves
  <2> QED  BY <1>4, <2>1
<1>7. CASE Goes(q, "over")
  <2>1. Moves(q, "over", 0, FALSE)  BY <1>0, <1>1, <1>2, <1>3, <1>5, <1>7 DEF Moves
  <2> QED  BY <1>4, <2>1
<1> QED  BY <1>1, <1>6, <1>7

LEMMA OcrMoves ==
  ASSUME Types, Counts, NEW q \in Question, OcrEnds(q)
  PROVE  \E at \in Phase : Moves(q, at, 0, FALSE)
<1>0. ~ (0 = 1)  OBVIOUS
<1>1. /\ job[q].at = "ocr" /\ ~ dead
      /\ NoRun /\ UNCHANGED <<conformant, open, sid, pref, pending, cards, decided>>
      /\ \E at \in {"over", "index"} : Goes(q, at)
      /\ Emit(q, "ocr") \/ SendError(q)
  BY DEF OcrEnds, session
<1>2. Counted(q, 0, FALSE)  BY <1>1, NoRunIsCounted
<1>3. threw' \in BOOLEAN /\ (threw => threw')  BY <1>1, Sends
<1>4. dead' \in BOOLEAN /\ (dead' => threw')
  <2>1. CASE /\ Emit(q, "ocr")
             /\ dead' = (Throws(job[q].session) /\ ~ open[job[q].stream])
    <3>1. threw' = (threw \/ Throws(job[q].session))  BY <2>1 DEF Emit
    <3> QED  BY <2>1, <3>1 DEF Throws
  <2>2. CASE SendError(q) /\ dead' = ~ open[job[q].stream]
    <3>1. threw' = (threw \/ ~ open[job[q].stream])  BY <2>2 DEF SendError
    <3> QED  BY <2>2, <3>1
  <2> QED  BY <2>1, <2>2 DEF OcrEnds
<1>5. PICK at \in {"over", "index"} : Goes(q, at)  BY <1>1
<1>6. pending' \in [Stream -> [Session -> Question \cup {NoQuestion}]]  BY <1>1 DEF Types
<1>7. Moves(q, at, 0, FALSE)  BY <1>0, <1>1, <1>2, <1>3, <1>4, <1>5, <1>6 DEF Moves
<1> QED  BY <1>5, <1>7 DEF Phase

LEMMA IndexMoves ==
  ASSUME Types, NEW q \in Question, IndexEnds(q)
  PROVE  \E at \in Phase, n \in {0, 1}, k \in BOOLEAN : Moves(q, at, n, k)
<1>0. ~ (0 = 1)  OBVIOUS
<1>1. /\ job[q].at = "index" /\ ~ dead /\ job[q].pref \in Prefs
      /\ UNCHANGED <<conformant, open, sid, pref, pending, cards, decided>>
  BY DEF IndexEnds, session, Types, Jobs
<1>2. pending' \in [Stream -> [Session -> Question \cup {NoQuestion}]]  BY <1>1 DEF Types
<1>3. CASE Goes(q, "over") /\ NoRun /\ UNCHANGED <<heard, dead>>
  <2>1. Counted(q, 0, FALSE)  BY <1>3, NoRunIsCounted
  <2>2. Moves(q, "over", 0, FALSE)  BY <1>0, <1>1, <1>2, <1>3, <2>1 DEF Moves, heard, Types
  <2> QED  BY <2>2 DEF Phase
<1>4. CASE /\ Goes(q, After(job[q].pref)) /\ ResolveKbAndChat(q, job[q].pref)
           /\ UNCHANGED <<heard, dead>>
  <2> DEFINE p == job[q].pref
             n == IF After(p) = "chat" THEN 1 ELSE 0
  <2>1. Counted(q, n, p.kb)  BY <1>1, <1>4, ResolvedIsCounted
  <2>2. After(p) \in {"resolve", "chat"} /\ p.kb \in BOOLEAN
    BY <1>1, ChosenOrNot DEF After
  <2>3. Moves(q, After(p), n, p.kb)
    BY <1>1, <1>2, <1>4, <2>1, <2>2 DEF Moves, heard, Types
  <2> QED  BY <2>2, <2>3 DEF Phase
<1>5. CASE Goes(q, "over") /\ NoRun /\ SendError(q) /\ dead' = ~ open[job[q].stream]
  <2>1. Counted(q, 0, FALSE)  BY <1>5, NoRunIsCounted
  <2>2. threw' \in BOOLEAN /\ (threw => threw')  BY <1>5, Sends
  <2>3. dead' \in BOOLEAN /\ (dead' => threw')  BY <1>5 DEF SendError
  <2>4. Moves(q, "over", 0, FALSE)  BY <1>0, <1>1, <1>2, <1>5, <2>1, <2>2, <2>3 DEF Moves
  <2> QED  BY <2>4 DEF Phase
<1> QED  BY <1>3, <1>4, <1>5 DEF IndexEnds

LEMMA ResolvedMoves ==
  ASSUME Types, Placed, NEW q \in Question, Resolved(q)
  PROVE  \E at \in Phase, n \in {0, 1} : Moves(q, at, n, FALSE)
<1>0. ~ (0 = 1)  OBVIOUS
<1>1. /\ job[q].at = "resolve" /\ ~ dead
      /\ job[q].stream \in Stream /\ job[q].session \in Session
      /\ UNCHANGED <<conformant, open, sid, pref, decided, dead>>
  BY DEF Resolved, session, Placed
<1>2. dead' \in BOOLEAN /\ ~ dead'  BY <1>1 DEF Types
<1>3. CASE Goes(q, "chat") /\ RunChat(q, FALSE) /\ UNCHANGED <<pending, cards, heard>>
  <2>1. Counted(q, 1, FALSE)  BY <1>3, RunIsCounted
  <2>2. Moves(q, "chat", 1, FALSE)  BY <1>1, <1>2, <1>3, <2>1 DEF Moves, heard, Types
  <2> QED  BY <2>2 DEF Phase
<1>4. CASE /\ pending' = [pending EXCEPT ![job[q].stream][job[q].session] = q]
           /\ Emit(q, "recommended")
           /\ cards' = cards \cup {[on |-> s, of |-> q] : s \in Reached(job[q].session)}
           /\ IF Throws(job[q].session) THEN Goes(q, "chat") /\ RunChat(q, FALSE)
              ELSE Goes(q, "asking") /\ NoRun
  <2>1. pending' \in [Stream -> [Session -> Question \cup {NoQuestion}]]
    BY <1>4 DEF Types
  <2>2. /\ threw' \in BOOLEAN /\ (threw => threw')
        /\ Throws(job[q].session) => threw'
    BY <1>4, Sends DEF Emit
  <2>5. cards' \subseteq cards \cup [on : Stream, of : {q}]
    <3>1. Reached(job[q].session) \subseteq Stream  BY DEF Reached, Types
    <3> QED  BY <1>4, <3>1
  <2>3. CASE Throws(job[q].session)
    <3>1. Counted(q, 1, FALSE)  BY <1>4, <2>3, RunIsCounted
    <3>2. Moves(q, "chat", 1, FALSE)
      BY <1>1, <1>2, <1>4, <2>1, <2>2, <2>3, <2>5, <3>1 DEF Moves
    <3> QED  BY <3>2 DEF Phase
  <2>4. CASE ~ Throws(job[q].session)
    <3>1. Counted(q, 0, FALSE)  BY <1>4, <2>4, NoRunIsCounted
    <3>2. Moves(q, "asking", 0, FALSE)
      BY <1>0, <1>1, <1>2, <1>4, <2>1, <2>2, <2>4, <2>5, <3>1 DEF Moves
    <3> QED  BY <3>2 DEF Phase
  <2> QED  BY <2>3, <2>4
<1> QED  BY <1>3, <1>4 DEF Resolved

LEMMA StagesMove ==
  ASSUME Types, Placed, Counts, NEW q \in Question, Stages(q)
  PROVE  \E at \in Phase, n \in {0, 1}, k \in BOOLEAN : Moves(q, at, n, k)
BY FetchedMoves, OcrMoves, IndexMoves, ResolvedMoves DEF Stages

\* An event of a run takes nothing but the run away.
LEMMA RunEmitsOnly ==
  ASSUME Types, Counts, NEW q \in Question, NEW e \in {"completed", "error", "delta"},
         RunEmits(q, e)
  PROVE  /\ active' \in [Question -> Nat]
         /\ \A r \in Question : active'[r] <= active[r]
         /\ threw' \in BOOLEAN /\ (threw => threw')
         /\ dead' \in BOOLEAN /\ (dead' => threw')
         /\ UNCHANGED <<conformant, session, pending, job, runs, withKbs, cards, decided>>
<1>1. active' \in [Question -> Nat] /\ \A r \in Question : active'[r] <= active[r]
  BY DEF RunEmits, Types
<1>2. threw' = (threw \/ Throws(job[q].session))  BY DEF RunEmits, Emit
<1>3. dead' = Throws(job[q].session)  BY DEF RunEmits
<1> QED  BY <1>1, <1>2, <1>3 DEF RunEmits, Throws, Types

-----------------------------------------------------------------------------
(* The steps, in five kinds: what leaves questions alone, a question, a     *)
(* decision, a stage of a question's work and an event of a run.            *)

Idle ==
  \/ \E s \in Stream : Open(s) \/ Closes(s) \/ LoopEnds(s)
  \/ \E s \in Stream, c \in Session, p \in Started : AgentStart(s, c, p)
  \/ UNCHANGED vars

Asks == \E s \in Stream, c \in Session, q \in Question, file \in BOOLEAN : ChatRequest(s, q, c, file)
Decides == \E s \in Stream, q \in Question, use \in BOOLEAN : KbDecision(s, q, use)
Proceeds == \E q \in Question : Stages(q)
Talks == \E q \in Question, e \in {"completed", "error", "delta"} : RunEmits(q, e)

LEMMA Kinds == [Next]_vars => Idle \/ Asks \/ Decides \/ Proceeds \/ Talks
<1> SUFFICES ASSUME Next  PROVE Idle \/ Asks \/ Decides \/ Proceeds \/ Talks
  BY DEF Idle
<1>1. CASE \E s \in Stream : Open(s) \/ Closes(s) \/ LoopEnds(s)  BY <1>1 DEF Idle
<1>2. CASE \E s \in Stream, c \in Session :
             \/ \E p \in Started : AgentStart(s, c, p)
             \/ \E q \in Question, file \in BOOLEAN : ChatRequest(s, q, c, file)
  BY <1>2 DEF Idle, Asks
<1>4. CASE \E s \in Stream, q \in Question, use \in BOOLEAN : KbDecision(s, q, use)
  BY <1>4 DEF Decides
<1>3. CASE \E q \in Question : Work(q) \/ RunEmits(q, "delta")
  BY <1>3 DEF Work, Proceeds, Talks, Stages
<1> QED  BY <1>1, <1>2, <1>3, <1>4 DEF Next

LEMMA IdleLeaves ==
  ASSUME Idle
  PROVE  /\ UNCHANGED <<pending, job, active, runs, withKbs, decided, heard, dead>>
         /\ cards' \subseteq cards
BY DEF Idle, Open, Closes, LoopEnds, AgentStart, vars, work

\* A question, asked.
Asking(s, q, c, file, at, n, k) ==
  /\ job[q].at = "new" /\ at \in {"fetch", "resolve", "chat"} /\ (at = "fetch" <=> file)
  /\ loop[s] = "reading"
  /\ loop' = IF file THEN [loop EXCEPT ![s] = "fetching"] ELSE loop
  /\ job' \in [Question -> Jobs]
  /\ job'[q].at = at /\ job'[q].stream = s /\ job'[q].session = c
  /\ \A r \in Question \ {q} : job'[r] = job[r]
  /\ Counted(q, n, k) /\ (n = 1 => at = "chat") /\ (k /\ n = 1 => job'[q].pref.kb)
  /\ UNCHANGED <<clients, pending, cards, decided, heard, dead>>

LEMMA RequestAsks ==
  ASSUME Types, NEW s \in Stream, NEW c \in Session, NEW q \in Question, NEW file \in BOOLEAN,
         ChatRequest(s, q, c, file)
  PROVE  \E at \in Phase, n \in {0, 1}, k \in BOOLEAN : Asking(s, q, c, file, at, n, k)
<1> DEFINE at == IF file THEN "fetch" ELSE After(pref[s])
           j == [at |-> at, stream |-> s, session |-> c, pref |-> pref[s]]
<1>1. /\ loop[s] = "reading" /\ job[q].at = "new"
      /\ job' = [job EXCEPT ![q] = j]
      /\ loop' = IF file THEN [loop EXCEPT ![s] = "fetching"] ELSE loop
      /\ IF file THEN NoRun ELSE ResolveKbAndChat(q, pref[s])
      /\ UNCHANGED <<clients, pending, cards, decided, heard, dead>>
  BY DEF ChatRequest, Reads
<1>2. pref[s] \in Prefs /\ pref[s].kb \in BOOLEAN  BY ChosenOrNot DEF Types
<1>3. After(pref[s]) \in {"resolve", "chat"}  BY DEF After
<1>4. at \in {"fetch", "resolve", "chat"} /\ (at = "fetch" <=> file) /\ at \in Phase
  BY <1>3 DEF Phase
<1>5. j \in Jobs  BY <1>2, <1>4 DEF Jobs
<1>6. j.at = at /\ j.stream = s /\ j.session = c /\ j.pref = pref[s]  OBVIOUS
<1>7. /\ job' \in [Question -> Jobs] /\ job'[q] = j
      /\ \A r \in Question \ {q} : job'[r] = job[r]
  BY <1>1, <1>5 DEF Types
<1>8. CASE file
  <2>1. Counted(q, 0, FALSE)  BY <1>1, <1>8, NoRunIsCounted
  <2>2. ~ (0 = 1)  OBVIOUS
  <2> HIDE DEF j, at
  <2>3. Asking(s, q, c, file, at, 0, FALSE)
    BY <1>1, <1>4, <1>6, <1>7, <2>1, <2>2 DEF Asking
  <2> QED  BY <1>4, <2>3
<1>9. CASE ~ file
  <2> DEFINE n == IF After(pref[s]) = "chat" THEN 1 ELSE 0
  <2>1. Counted(q, n, pref[s].kb)  BY <1>1, <1>2, <1>9, ResolvedIsCounted
  <2>2. n \in {0, 1} /\ (n = 1 => at = "chat")  BY <1>9
  <2> HIDE DEF j, at, n
  <2>3. Asking(s, q, c, file, at, n, pref[s].kb)
    BY <1>1, <1>4, <1>6, <1>7, <2>1, <2>2 DEF Asking
  <2> QED  BY <1>2, <1>4, <2>2, <2>3
<1> QED  BY <1>8, <1>9

\* A decision on the card of q, in session c: p, pending there, runs; or nothing does.
Deciding(s, c, q, use, p) ==
  /\ c \in Session /\ c = job[q].session /\ job[q].at # "new"
  /\ p \in Question \cup {NoQuestion} /\ p = pending[s][c]
  /\ pending' = [pending EXCEPT ![s][c] = NoQuestion]
  /\ p = NoQuestion => UNCHANGED <<job, active, runs, withKbs>>
  /\ p # NoQuestion => p \in Question /\ Counted(p, 1, use) /\ Goes(p, "chat")
  /\ decided' = IF use THEN decided \cup {[on |-> s, of |-> q]} ELSE decided
  /\ cards' \subseteq cards
  /\ UNCHANGED <<conformant, session, heard, dead>>

LEMMA DecisionDecides ==
  ASSUME Types, Placed, NEW s \in Stream, NEW q \in Question, NEW use \in BOOLEAN,
         KbDecision(s, q, use)
  PROVE  Deciding(s, job[q].session, q, use, pending[s][job[q].session])
<1> DEFINE c == job[q].session
           card == [on |-> s, of |-> q]
           p == pending[s][c]
<1>1. /\ card \in cards /\ cards' = cards \ {card}
      /\ decided' = IF use THEN decided \cup {card} ELSE decided
      /\ pending' = [pending EXCEPT ![s][c] = NoQuestion]
      /\ IF p = NoQuestion THEN job' = job /\ NoRun ELSE Goes(p, "chat") /\ RunChat(p, use)
      /\ UNCHANGED <<conformant, session, heard, dead>>
  BY DEF KbDecision
<1>2. card.of = q  OBVIOUS
<1>3. job[q].at # "new" /\ c \in Session  BY <1>1, <1>2 DEF Placed
<1>4. p \in Question \cup {NoQuestion}  BY <1>3 DEF Types
<1> HIDE DEF p
<1>5. p # NoQuestion => p \in Question /\ Counted(p, 1, use) /\ Goes(p, "chat")
  BY <1>1, <1>4, RunIsCounted
<1>6. p = NoQuestion => UNCHANGED <<job, active, runs, withKbs>>  BY <1>1 DEF NoRun
<1>7. Deciding(s, c, q, use, p)  BY <1>1, <1>3, <1>4, <1>5, <1>6 DEF Deciding, p
<1> QED  BY <1>7 DEF p

\* Whoever agreed to a card keeps having agreed.
LEMMA AgreedStays ==
  ASSUME Types, Placed, NEW q \in Question, Agreed(q), decided \subseteq decided',
         job'[q] = job[q],
         \A r \in Question : job[r].at # "new" => job'[r].session = job[r].session
  PROVE  Agreed(q)'
<1>1. PICK card \in decided : card.on = job[q].stream /\ job[card.of].session = job[q].session
  BY DEF Agreed
<1>2. card.of \in Question /\ job[card.of].at # "new"  BY <1>1 DEF Types, Cards, Placed
<1>3. job'[card.of].session = job[card.of].session  BY <1>2
<1> QED  BY <1>1, <1>3 DEF Agreed

-----------------------------------------------------------------------------
(* Each part of the invariant is kept.                                     *)

LEMMA WorkTypes ==
  ASSUME Types, Placed, Subscribed, Fetching, Counts, Proceeds \/ Talks
  PROVE  Types'
<1>1. ASSUME NEW q \in Question, Stages(q)
      PROVE  Types'
  <2>1. PICK at \in Phase, n \in {0, 1}, k \in BOOLEAN : Moves(q, at, n, k)
    BY <1>1, StagesMove
  <2>2. job' \in [Question -> Jobs]  BY <2>1, GoesOn DEF Moves
  <2>5. cards' \subseteq Cards /\ decided' \subseteq Cards  BY <2>1 DEF Moves, Types, Cards
  <2>3. CASE Fetched(q)
    <3> DEFINE s == job[q].stream
    <3>1. s \in Stream /\ loop[s] = "fetching"
      BY <2>3 DEF Fetched, Placed, Fetching
    <3>2. Contains(clients, s) /\ IsInjective(clients)  BY <3>1 DEF Subscribed
    <3>3. Unsubscribed(s) \in Seq(Stream)  BY <3>1, <3>2, Unsubscribes
    <3>4. /\ loop' \in [Stream -> {"none", "reading", "fetching", "over"}]
          /\ clients' \in Seq(Stream)
      BY <2>3, <3>1, <3>3 DEF Fetched, Types
    <3> QED  BY <2>1, <2>2, <2>5, <3>4 DEF Types, Moves, Counted
  <2>4. CASE OcrEnds(q) \/ IndexEnds(q) \/ Resolved(q)
    <3>1. UNCHANGED session  BY <2>4 DEF OcrEnds, IndexEnds, Resolved
    <3> QED  BY <2>1, <2>2, <2>5, <3>1 DEF Types, Moves, Counted, session
  <2> QED  BY <1>1, <2>3, <2>4 DEF Stages
<1>2. ASSUME NEW q \in Question, NEW e \in {"completed", "error", "delta"}, RunEmits(q, e)
      PROVE  Types'
  BY <1>2, RunEmitsOnly DEF Types, session
<1> QED  BY <1>1, <1>2 DEF Proceeds, Talks

LEMMA DecisionTypes ==
  ASSUME Types, Placed, Decides
  PROVE  Types'
<1>1. PICK s \in Stream, q \in Question, use \in BOOLEAN : KbDecision(s, q, use)
  BY DEF Decides
<1> DEFINE c == job[q].session
           p == pending[s][c]
<1>2. Deciding(s, c, q, use, p)  BY <1>1, DecisionDecides
<1> HIDE DEF c, p
<1>3. /\ job' \in [Question -> Jobs]
      /\ active' \in [Question -> Nat] /\ runs' \in [Question -> Nat]
      /\ withKbs' \subseteq Question
  <2>1. CASE p = NoQuestion  BY <1>2, <2>1 DEF Deciding, Types
  <2>2. CASE p # NoQuestion
    <3>1. "chat" \in Phase  BY DEF Phase
    <3> QED  BY <1>2, <2>2, <3>1, GoesOn DEF Deciding, Counted
  <2> QED  BY <2>1, <2>2
<1>4. pending' \in [Stream -> [Session -> Question \cup {NoQuestion}]]
  BY <1>2 DEF Types, Deciding
<1>5. cards' \subseteq Cards /\ decided' \subseteq Cards  BY <1>2 DEF Types, Deciding, Cards
<1> QED  BY <1>2, <1>3, <1>4, <1>5 DEF Types, Deciding, session, heard

LEMMA TypesStep ==
  ASSUME Types, Placed, Subscribed, Fetching, Counts, [Next]_vars
  PROVE  Types'
<1>1. CASE \E s \in Stream : Open(s) \/ Closes(s) \/ LoopEnds(s)  BY <1>1, StreamTypes
<1>2. CASE \E s \in Stream, c \in Session : \/ \E p \in Started : AgentStart(s, c, p)
                                            \/ \E q \in Question, file \in BOOLEAN : ChatRequest(s, q, c, file)
  BY <1>2, FrameTypes
<1>3. CASE Proceeds \/ Talks  BY <1>3, WorkTypes
<1>4. CASE UNCHANGED vars  BY <1>4 DEF vars, session, work, heard, Types
<1>5. CASE Decides  BY <1>5, DecisionTypes
<1> QED  BY <1>1, <1>2, <1>3, <1>4, <1>5, Kinds DEF Idle, Asks

LEMMA PendingType ==
  ASSUME Types
  PROVE  \A s \in Stream, c \in Session : pending[s][c] \in Question \cup {NoQuestion}
BY DEF Types

LEMMA PlacedStep ==
  ASSUME Types, Placed, Counts, [Next]_vars
  PROVE  Placed'
<1>1. CASE Idle
  <2>1. UNCHANGED <<job, pending, decided>> /\ cards' \subseteq cards  BY <1>1, IdleLeaves
  <2> QED  BY <2>1 DEF Placed
<1>2. CASE Asks
  <2>1. PICK s \in Stream, c \in Session, q \in Question, file \in BOOLEAN : ChatRequest(s, q, c, file)
    BY <1>2 DEF Asks
  <2>2. /\ job[q].at = "new"
        /\ job'[q].stream = s /\ job'[q].session = c
        /\ \A r \in Question \ {q} : job'[r] = job[r]
        /\ UNCHANGED <<pending, cards, decided>> /\ job'[q].at # "new"
    BY <2>1, RequestAsks DEF Asking
  <2>4. \A card \in cards \cup decided : card.of \in Question \ {q}
    BY <2>2 DEF Types, Cards, Placed
  <2>3. \A x \in Stream, y \in Session :
          pending[x][y] # NoQuestion => pending[x][y] \in Question \ {q}
    BY <2>2, PendingType DEF Placed
  <2> QED  BY <2>2, <2>3, <2>4 DEF Placed
<1>3. CASE Decides
  <2>1. PICK s \in Stream, q \in Question, use \in BOOLEAN : KbDecision(s, q, use)
    BY <1>3 DEF Decides
  <2> DEFINE c == job[q].session
             p == pending[s][c]
  <2>2. Deciding(s, c, q, use, p)  BY <2>1, DecisionDecides
  <2>3. p # NoQuestion => job[p].at \in {"asking", "chat"}
    BY <2>2 DEF Placed, Deciding
  <2>4. \A x \in Stream, y \in Session :
          pending'[x][y] # NoQuestion => pending'[x][y] = pending[x][y]
    BY <2>2 DEF Types, Deciding
  <2>5. \A card \in cards' \cup decided' : job[card.of].at # "new" /\ card.of \in Question
    BY <2>2 DEF Deciding, Placed, Types, Cards
  <2> HIDE DEF c, p
  <2>6. \A r \in Question : /\ job'[r].stream = job[r].stream
                             /\ job'[r].session = job[r].session
                             /\ \/ job'[r] = job[r]
                                \/ job[r].at \in {"asking", "chat"} /\ job'[r].at = "chat"
    <3>1. CASE p = NoQuestion  BY <2>2, <3>1 DEF Deciding
    <3>2. CASE p # NoQuestion  BY <2>2, <2>3, <3>2, GoesOn DEF Deciding, Phase
    <3> QED  BY <3>1, <3>2
  <2>7. /\ \A r \in Question : job'[r].at # "new" =>
               job'[r].stream \in Stream /\ job'[r].session \in Session
        /\ \A card \in cards' \cup decided' : job'[card.of].at # "new"
    BY <2>5, <2>6 DEF Placed
  <2>8. ASSUME NEW x \in Stream, NEW y \in Session, pending'[x][y] # NoQuestion
        PROVE  job'[pending'[x][y]].at \in {"asking", "chat"}
    <3>1. pending'[x][y] \in Question /\ job[pending'[x][y]].at \in {"asking", "chat"}
      BY <2>4, <2>8, PendingType DEF Placed
    <3> QED  BY <2>6, <3>1
  <2> QED  BY <2>7, <2>8 DEF Placed
<1>4. CASE Proceeds
  <2>1. PICK q \in Question : Stages(q)  BY <1>4 DEF Proceeds
  <2>2. PICK at \in Phase, n \in {0, 1}, k \in BOOLEAN : Moves(q, at, n, k)
    BY <2>1, StagesMove
  <2>3. /\ job'[q].at = at
        /\ \A r \in Question : /\ r # q => job'[r] = job[r]
                               /\ job'[r].stream = job[r].stream
                               /\ job'[r].session = job[r].session
    BY <2>2, GoesOn DEF Moves
  <2>4. /\ job[q].at \in {"fetch", "ocr", "index", "resolve"}
        /\ \A x \in Stream, y \in Session :
             pending'[x][y] # pending[x][y] => pending'[x][y] = q /\ at \in {"asking", "chat"}
    BY <2>2 DEF Moves
  <2>5. \A x \in Stream, y \in Session :
          pending[x][y] # NoQuestion => pending[x][y] \in Question \ {q}
    BY <2>4, PendingType DEF Placed
  <2>6. at # "new" /\ decided' = decided /\ cards' \subseteq cards \cup [on : Stream, of : {q}]
    BY <2>2 DEF Moves
  <2>7. ASSUME NEW card \in cards' \cup decided'
        PROVE  job'[card.of].at # "new"
    <3>1. CASE card.of = q  BY <2>3, <2>6, <3>1
    <3>2. CASE card.of # q
      <4>1. card \in cards \cup decided  BY <2>6, <2>7, <3>2
      <4>2. card.of \in Question /\ job[card.of].at # "new"  BY <4>1 DEF Types, Cards, Placed
      <4> QED  BY <2>3, <3>2, <4>2
    <3> QED  BY <3>1, <3>2
  <2> QED  BY <2>3, <2>4, <2>5, <2>7 DEF Placed
<1>5. CASE Talks
  <2>1. UNCHANGED <<job, pending, cards, decided>>  BY <1>5, RunEmitsOnly DEF Talks
  <2> QED  BY <2>1 DEF Placed
<1> QED  BY <1>1, <1>2, <1>3, <1>4, <1>5, Kinds

LEMMA SubscribedStep ==
  ASSUME Types, Placed, Subscribed, Fetching, [Next]_vars
  PROVE  Subscribed'
<1>1. ASSUME NEW s \in Stream, Open(s)
      PROVE  Subscribed'
  <2>1. ~ Contains(clients, s)  BY <1>1 DEF Open, Subscribed
  <2>2. /\ clients \in Seq(Stream) /\ clients' = Append(clients, s)
        /\ loop' = [loop EXCEPT ![s] = "reading"]
    BY <1>1 DEF Open, Types
  <2>3. /\ Len(clients') = Len(clients) + 1 /\ DOMAIN clients' = 1 .. Len(clients) + 1
        /\ clients'[Len(clients) + 1] = s
        /\ \A i \in 1 .. Len(clients) : clients'[i] = clients[i]
    BY <2>2
  <2>4. IsInjective(clients')
    <3>1. \A i, j \in 1 .. Len(clients) : clients[i] = clients[j] => i = j
      BY <2>2 DEF Subscribed, IsInjective
    <3>2. \A i \in 1 .. Len(clients) : clients[i] # s  BY <2>1 DEF Contains
    <3>3. SUFFICES ASSUME NEW i \in 1 .. Len(clients) + 1, NEW j \in 1 .. Len(clients) + 1,
                          clients'[i] = clients'[j]
                   PROVE  i = j
      BY <2>3 DEF IsInjective
    <3> QED  BY <2>2, <2>3, <3>1, <3>2, <3>3
  <2>5. \A x : Contains(clients', x) <=> Contains(clients, x) \/ x = s
    BY <2>2, <2>3 DEF Contains
  <2> QED  BY <2>2, <2>4, <2>5 DEF Subscribed, Types
<1>2. ASSUME NEW s \in Stream, Contains(clients, s),
             loop' = [loop EXCEPT ![s] = "over"], clients' = Unsubscribed(s)
      PROVE  Subscribed'
  BY <1>2, Unsubscribes DEF Subscribed, Types
<1>3. ASSUME NEW s \in Stream, loop[s] \in {"reading", "fetching"},
             \E at \in {"reading", "fetching"} : loop' = [loop EXCEPT ![s] = at],
             UNCHANGED clients
      PROVE  Subscribed'
  BY <1>3 DEF Subscribed, Types
<1>4. ASSUME UNCHANGED <<loop, clients>>
      PROVE  Subscribed'
  BY <1>4 DEF Subscribed
<1>5. ASSUME NEW s \in Stream, Closes(s) \/ LoopEnds(s)
      PROVE  Subscribed'
  <2>1. CASE Closes(s)  BY <2>1, <1>4 DEF Closes
  <2>2. CASE LoopEnds(s)
    <3>1. Contains(clients, s)  BY <2>2 DEF LoopEnds, Subscribed
    <3> QED  BY <2>2, <3>1, <1>2 DEF LoopEnds
  <2> QED  BY <1>5, <2>1, <2>2
<1>6. CASE \E s \in Stream, c \in Session, p \in Started : AgentStart(s, c, p)
  BY <1>6, <1>4 DEF AgentStart
<1>7. CASE Asks
  <2>1. PICK s \in Stream, c \in Session, q \in Question, file \in BOOLEAN : ChatRequest(s, q, c, file)
    BY <1>7 DEF Asks
  <2>2. /\ loop[s] = "reading" /\ UNCHANGED clients
        /\ loop' = IF file THEN [loop EXCEPT ![s] = "fetching"] ELSE loop
    BY <2>1, RequestAsks DEF Asking
  <2> QED  BY <2>2, <1>3, <1>4
<1>8. CASE Decides  BY <1>8, <1>4 DEF Decides, KbDecision, session
<1>9. CASE Talks  BY <1>9, <1>4 DEF Talks, RunEmits, session
<1>10. ASSUME NEW q \in Question, Stages(q)
       PROVE  Subscribed'
  <2>1. CASE Fetched(q)
    <3> DEFINE s == job[q].stream
    <3>1. s \in Stream /\ loop[s] = "fetching" /\ Contains(clients, s)
      BY <2>1 DEF Fetched, Placed, Fetching, Subscribed
    <3>2. \/ loop' = [loop EXCEPT ![s] = "reading"] /\ UNCHANGED clients
          \/ loop' = [loop EXCEPT ![s] = "over"] /\ clients' = Unsubscribed(s)
      BY <2>1 DEF Fetched
    <3> HIDE DEF s
    <3> QED  BY <3>1, <3>2, <1>2, <1>3
  <2>2. CASE OcrEnds(q) \/ IndexEnds(q) \/ Resolved(q)
    BY <2>2, <1>4 DEF OcrEnds, IndexEnds, Resolved, session
  <2> QED  BY <1>10, <2>1, <2>2 DEF Stages
<1>11. CASE UNCHANGED vars  BY <1>11, <1>4 DEF vars, session
<1> QED  BY <1>1, <1>5, <1>6, <1>7, <1>8, <1>9, <1>10, <1>11, Kinds DEF Idle, Proceeds

LEMMA FetchingStep ==
  ASSUME Types, Placed, Fetching, Counts, [Next]_vars
  PROVE  Fetching'
<1>1. ASSUME UNCHANGED job,
             \A q \in Question : job[q].at = "fetch" => loop'[job[q].stream] = loop[job[q].stream]
      PROVE  Fetching'
  BY <1>1 DEF Fetching
<1>2. ASSUME NEW s \in Stream, loop[s] # "fetching",
             \E l : loop' = [loop EXCEPT ![s] = l],
             UNCHANGED job
      PROVE  Fetching'
  <2>1. \A q \in Question : job[q].at = "fetch" => job[q].stream \in Stream /\ job[q].stream # s
    BY <1>2 DEF Fetching, Placed
  <2>2. \A x \in Stream \ {s} : loop'[x] = loop[x]  BY <1>2 DEF Types
  <2> QED  BY <1>1, <1>2, <2>1, <2>2
<1>3. CASE Idle
  <2>1. UNCHANGED job  BY <1>3, IdleLeaves
  <2>2. \/ UNCHANGED loop
        \/ \E s \in Stream : Open(s) \/ LoopEnds(s)
    BY <1>3 DEF Idle, Closes, AgentStart, vars, session
  <2>3. ASSUME NEW s \in Stream, Open(s) \/ LoopEnds(s)
        PROVE  loop[s] # "fetching" /\ \E l : loop' = [loop EXCEPT ![s] = l]
    BY <2>3 DEF Open, LoopEnds
  <2> QED  BY <2>1, <2>2, <2>3, <1>1, <1>2
<1>4. CASE Asks
  <2>1. PICK s \in Stream, c \in Session, q \in Question, file \in BOOLEAN : ChatRequest(s, q, c, file)
    BY <1>4 DEF Asks
  <2>2. /\ loop[s] = "reading" /\ (job'[q].at = "fetch" <=> file) /\ job'[q].stream = s
        /\ loop' = IF file THEN [loop EXCEPT ![s] = "fetching"] ELSE loop
        /\ \A r \in Question \ {q} : job'[r] = job[r]
    BY <2>1, RequestAsks DEF Asking
  <2>3. \A r \in Question \ {q} :
          job'[r].at = "fetch" => /\ job'[r].stream \in Stream \ {s}
                                  /\ loop[job'[r].stream] = "fetching"
    BY <2>2 DEF Fetching, Placed
  <2>4. \A x \in Stream \ {s} : loop'[x] = loop[x]  BY <2>2 DEF Types
  <2>5. file => loop'[s] = "fetching"  BY <2>2 DEF Types
  <2>6. \A r \in Question : job'[r].at = "fetch" => loop'[job'[r].stream] = "fetching"
    BY <2>2, <2>3, <2>4, <2>5
  <2>7. \A p, r \in Question :
          job'[p].at = "fetch" /\ job'[r].at = "fetch" /\ job'[p].stream = job'[r].stream => p = r
    BY <2>2, <2>3 DEF Fetching
  <2> QED  BY <2>6, <2>7 DEF Fetching
<1>5. ASSUME NEW q \in Question, NEW at \in Phase, at # "fetch", Goes(q, at),
             \A x \in Stream : loop'[x] # loop[x] => x = job[q].stream /\ job[q].at = "fetch"
      PROVE  Fetching'
  <2>1. /\ job'[q].at = at
        /\ \A r \in Question : r # q => job'[r] = job[r]
    BY <1>5, GoesOn
  <2>2. ASSUME NEW r \in Question, job'[r].at = "fetch"
        PROVE  loop'[job'[r].stream] = "fetching"
    <3>1. r # q /\ job'[r] = job[r] /\ job[r].at = "fetch"  BY <1>5, <2>1, <2>2
    <3>2. job[r].stream \in Stream /\ loop[job[r].stream] = "fetching"
      BY <3>1 DEF Placed, Fetching
    <3>3. loop'[job[r].stream] = loop[job[r].stream]
      BY <1>5, <3>1, <3>2 DEF Fetching
    <3> QED  BY <3>1, <3>2, <3>3
  <2>3. \A r \in Question : job'[r].at = "fetch" => job'[r] = job[r]  BY <1>5, <2>1
  <2> QED  BY <2>2, <2>3 DEF Fetching
<1>6. CASE Decides
  <2>1. PICK s \in Stream, q \in Question, use \in BOOLEAN : KbDecision(s, q, use)
    BY <1>6 DEF Decides
  <2> DEFINE p == pending[s][job[q].session]
  <2>2. Deciding(s, job[q].session, q, use, p) /\ UNCHANGED loop
    BY <2>1, DecisionDecides DEF Deciding, session
  <2> HIDE DEF p
  <2>3. CASE p = NoQuestion  BY <2>2, <2>3, <1>1 DEF Deciding
  <2>4. CASE p # NoQuestion  BY <2>2, <2>4, <1>5 DEF Deciding, Phase
  <2> QED  BY <2>3, <2>4
<1>7. CASE Proceeds
  <2>1. PICK q \in Question : Stages(q)  BY <1>7 DEF Proceeds
  <2>2. PICK at \in Phase : at # "fetch" /\ Goes(q, at)  BY <2>1, StagesMove DEF Moves
  <2>3. \A x \in Stream : loop'[x] # loop[x] => x = job[q].stream /\ job[q].at = "fetch"
    <3>1. CASE Fetched(q)
      <4>1. job[q].at = "fetch" /\ \E l : loop' = [loop EXCEPT ![job[q].stream] = l]
        BY <3>1 DEF Fetched
      <4> QED  BY <4>1 DEF Types
    <3>2. CASE OcrEnds(q) \/ IndexEnds(q) \/ Resolved(q)
      BY <3>2 DEF OcrEnds, IndexEnds, Resolved, session
    <3> QED  BY <2>1, <3>1, <3>2 DEF Stages
  <2> QED  BY <2>2, <2>3, <1>5
<1>8. CASE Talks
  <2>1. UNCHANGED <<job, loop>>  BY <1>8, RunEmitsOnly DEF Talks, session
  <2> QED  BY <2>1, <1>1
<1> QED  BY <1>3, <1>4, <1>6, <1>7, <1>8, Kinds

LEMMA CountsStep ==
  ASSUME Types, Placed, Counts, [Next]_vars
  PROVE  Counts'
<1>1. ASSUME NEW q \in Question, NEW n \in {0, 1}, NEW k, Counted(q, n, k)
      PROVE  \A r \in Question : active'[r] <= runs'[r]
  <2>1. active'[q] <= runs'[q]  BY <1>1 DEF Counts, Counted, Types
  <2>2. \A r \in Question \ {q} : active'[r] <= runs'[r]  BY <1>1 DEF Counts, Counted
  <2> QED  BY <2>1, <2>2
<1>2. CASE Idle
  <2>1. UNCHANGED <<active, runs, heard, dead>>  BY <1>2, IdleLeaves
  <2> QED  BY <2>1 DEF heard, Counts
<1>3. CASE Asks
  <2>1. PICK q \in Question, n \in {0, 1}, k \in BOOLEAN : Counted(q, n, k) /\ UNCHANGED <<heard, dead>>
    BY <1>3, RequestAsks DEF Asks, Asking
  <2> QED  BY <2>1, <1>1 DEF Counts, heard
<1>4. CASE Decides
  <2>1. /\ \/ UNCHANGED <<active, runs>>
           \/ \E q \in Question, k \in BOOLEAN : Counted(q, 1, k)
        /\ UNCHANGED <<heard, dead>>
    BY <1>4, DecisionDecides DEF Decides, Deciding
  <2> QED  BY <2>1, <1>1 DEF Counts, heard
<1>5. CASE Proceeds
  <2>1. PICK q \in Question, at \in Phase, n \in {0, 1}, k \in BOOLEAN : Moves(q, at, n, k)
    BY <1>5, StagesMove DEF Proceeds
  <2> QED  BY <2>1, <1>1 DEF Counts, Moves
<1>6. CASE Talks
  <2>1. /\ \A r \in Question : active'[r] <= active[r] /\ active'[r] \in Nat
        /\ UNCHANGED runs
        /\ dead' => threw'
    BY <1>6, RunEmitsOnly DEF Talks
  <2> QED  BY <2>1 DEF Counts, Types
<1> QED  BY <1>2, <1>3, <1>4, <1>5, <1>6, Kinds

\* A question that has not run yet goes on, and the others stay as they are.
Advances(q, n, k) ==
  /\ job[q].at \notin {"chat", "over"}
  /\ \A r \in Question \ {q} : job'[r] = job[r]
  /\ job[q].at # "new" => job'[q].session = job[q].session
  /\ Counted(q, n, k)
  /\ n = 1 => job'[q].at = "chat"
  /\ k /\ n = 1 => job'[q].pref.kb \/ Agreed(q)'
  /\ decided \subseteq decided'

\* Then it has run once at most, with good reason, and before its last stage not at all.
LEMMA Advanced ==
  ASSUME Types, Placed, Unrun, RunsOnceAsConfirmed, threw => threw',
         NEW q \in Question, NEW n \in {0, 1}, NEW k \in BOOLEAN,
         ~ threw => Advances(q, n, k)
  PROVE  Unrun' /\ RunsOnceAsConfirmed'
<1> SUFFICES ASSUME ~ threw'  PROVE Unrun' /\ RunsOnceAsConfirmed'
  BY DEF Unrun, RunsOnceAsConfirmed
<1>1. ~ threw /\ Advances(q, n, k)  OBVIOUS
<1>2. runs[q] = 0 /\ q \notin withKbs  BY <1>1 DEF Unrun, Advances
<1>3. runs'[q] = n  BY <1>1, <1>2 DEF Advances, Counted
<1>4. q \in withKbs' => k /\ n = 1  BY <1>1, <1>2 DEF Advances, Counted
<1>5. /\ job'[q].at \notin {"chat", "over"} => runs'[q] = 0
      /\ q \in withKbs' => runs'[q] > 0
      /\ runs'[q] <= 1
      /\ q \in withKbs' => job'[q].pref.kb \/ Agreed(q)'
  <2>1. job'[q].at \notin {"chat", "over"} => n = 0  BY <1>1 DEF Advances
  <2>2. q \in withKbs' => job'[q].pref.kb \/ Agreed(q)'  BY <1>1, <1>4 DEF Advances
  <2> QED  BY <1>3, <1>4, <2>1, <2>2
<1>6. ASSUME NEW r \in Question \ {q}
      PROVE  /\ job'[r].at \notin {"chat", "over"} => runs'[r] = 0
             /\ r \in withKbs' => runs'[r] > 0
             /\ runs'[r] <= 1
             /\ r \in withKbs' => job'[r].pref.kb \/ Agreed(r)'
  <2>1. /\ job'[r] = job[r] /\ runs'[r] = runs[r] /\ (r \in withKbs' <=> r \in withKbs)
        /\ decided \subseteq decided'
    BY <1>1 DEF Advances, Counted
  <2>2. /\ job[r].at \notin {"chat", "over"} => runs[r] = 0
        /\ r \in withKbs => runs[r] > 0
    BY <1>1 DEF Unrun
  <2>3. /\ runs[r] <= 1
        /\ r \in withKbs => job[r].pref.kb \/ Agreed(r)
    BY <1>1 DEF RunsOnceAsConfirmed
  <2>4. \A p \in Question : job[p].at # "new" => job'[p].session = job[p].session
    BY <1>1 DEF Advances
  <2>5. Agreed(r) => Agreed(r)'  BY <2>1, <2>4, AgreedStays
  <2> QED  BY <2>1, <2>2, <2>3, <2>5
<1> QED  BY <1>5, <1>6 DEF Unrun, RunsOnceAsConfirmed

LEMMA RunsStep ==
  ASSUME Types, Placed, Counts, Unrun, Asked, RunsOnceAsConfirmed, [Next]_vars
  PROVE  Unrun' /\ RunsOnceAsConfirmed'
<1>1. ASSUME UNCHANGED <<job, runs, withKbs>>, decided \subseteq decided', threw => threw'
      PROVE  Unrun' /\ RunsOnceAsConfirmed'
  <2>1. \A q \in Question : Agreed(q) => Agreed(q)'  BY <1>1, AgreedStays
  <2> QED  BY <1>1, <2>1 DEF Unrun, RunsOnceAsConfirmed
<1>2. CASE Idle
  <2>1. UNCHANGED <<job, runs, withKbs, decided, heard>>  BY <1>2, IdleLeaves
  <2> QED  BY <2>1, <1>1 DEF heard
<1>3. CASE Asks
  <2>1. PICK s \in Stream, c \in Session, q \in Question, file \in BOOLEAN,
             at \in Phase, n \in {0, 1}, k \in BOOLEAN : Asking(s, q, c, file, at, n, k)
    BY <1>3, RequestAsks DEF Asks
  <2>2. Advances(q, n, k)  BY <2>1 DEF Asking, Advances
  <2>3. threw' = threw  BY <2>1 DEF Asking, heard
  <2> QED  BY <2>2, <2>3, Advanced
<1>4. CASE Decides
  <2>1. PICK s \in Stream, q \in Question, use \in BOOLEAN : KbDecision(s, q, use)
    BY <1>4 DEF Decides
  <2>0. PICK c : c = job[q].session  OBVIOUS
  <2>9. PICK p : p = pending[s][c]  OBVIOUS
  <2>2. Deciding(s, c, q, use, p)  BY <2>0, <2>1, <2>9, DecisionDecides
  <2>3. threw' = threw /\ decided \subseteq decided'  BY <2>2 DEF Deciding, heard
  <2>4. CASE p = NoQuestion
    <3>1. UNCHANGED <<job, runs, withKbs>>  BY <2>2, <2>4 DEF Deciding
    <3> QED  BY <2>3, <3>1, <1>1
  <2>5. CASE p # NoQuestion
    <3>1. p \in Question /\ Counted(p, 1, use) /\ Goes(p, "chat")  BY <2>2, <2>5 DEF Deciding
    <3>2. ~ threw => job[p].at = "asking" /\ job[p].stream = s /\ job[p].session = c
      BY <2>2, <2>5 DEF Asked, Deciding
    <3>3. use => [on |-> s, of |-> q] \in decided'  BY <2>2 DEF Deciding
    <3>5. /\ job'[p].at = "chat" /\ \A r \in Question \ {p} : job'[r] = job[r]
          /\ \A r \in Question : job'[r].stream = job[r].stream /\ job'[r].session = job[r].session
      BY <3>1, GoesOn DEF Phase
    <3>6. ~ threw /\ use => Agreed(p)'
      <4> SUFFICES ASSUME ~ threw, use  PROVE Agreed(p)'  OBVIOUS
      <4>1. job'[p].stream = s /\ job'[p].session = c /\ job'[q].session = c
        BY <2>0, <3>1, <3>2, <3>5
      <4> QED  BY <3>3, <4>1 DEF Agreed
    <3>7. ~ threw => Advances(p, 1, use)
      BY <2>3, <3>1, <3>2, <3>5, <3>6 DEF Advances
    <3> QED  BY <2>3, <3>1, <3>7, Advanced
  <2> QED  BY <2>4, <2>5
<1>5. CASE Proceeds
  <2>1. PICK q \in Question, at \in Phase, n \in {0, 1}, k \in BOOLEAN : Moves(q, at, n, k)
    BY <1>5, StagesMove DEF Proceeds
  <2>2. /\ job'[q].at = at /\ job'[q].pref = job[q].pref /\ job'[q].session = job[q].session
        /\ \A r \in Question \ {q} : job'[r] = job[r]
    BY <2>1, GoesOn DEF Moves
  <2>3. Advances(q, n, k)  BY <2>1, <2>2 DEF Moves, Advances
  <2>4. threw => threw'  BY <2>1 DEF Moves
  <2> QED  BY <2>3, <2>4, Advanced
<1>6. CASE Talks
  <2>1. UNCHANGED <<job, runs, withKbs, decided>> /\ (threw => threw')
    BY <1>6, RunEmitsOnly DEF Talks
  <2> QED  BY <2>1, <1>1
<1> QED  BY <1>2, <1>3, <1>4, <1>5, <1>6, Kinds

LEMMA AskedStep ==
  ASSUME Types, Placed, Counts, Asked, [Next]_vars
  PROVE  Asked'
<1>1. ASSUME threw => threw', UNCHANGED pending,
             \A r \in Question : job[r].at = "asking" => job'[r] = job[r]
      PROVE  Asked'
  <2> SUFFICES ASSUME ~ threw', NEW s \in Stream, NEW c \in Session, pending'[s][c] # NoQuestion
               PROVE  /\ job'[pending'[s][c]].at = "asking"
                      /\ job'[pending'[s][c]].stream = s /\ job'[pending'[s][c]].session = c
    BY DEF Asked
  <2>1. pending'[s][c] = pending[s][c] /\ pending[s][c] \in Question
    BY <1>1, PendingType
  <2>2. job[pending[s][c]].at = "asking" /\ job[pending[s][c]].stream = s /\ job[pending[s][c]].session = c
    BY <1>1, <2>1 DEF Asked
  <2> QED  BY <1>1, <2>1, <2>2
<1>2. CASE Idle
  <2>1. UNCHANGED <<pending, job, heard>>  BY <1>2, IdleLeaves
  <2> QED  BY <2>1, <1>1 DEF heard
<1>3. CASE Asks
  <2>1. PICK s \in Stream, c \in Session, q \in Question, file \in BOOLEAN,
             at \in Phase, n \in {0, 1}, k \in BOOLEAN : Asking(s, q, c, file, at, n, k)
    BY <1>3, RequestAsks DEF Asks
  <2> QED  BY <2>1, <1>1 DEF Asking, heard
<1>4. CASE Decides
  <2>1. PICK s \in Stream, q \in Question, use \in BOOLEAN : KbDecision(s, q, use)
    BY <1>4 DEF Decides
  <2> DEFINE c == job[q].session
             p == pending[s][c]
  <2>2. Deciding(s, c, q, use, p)  BY <2>1, DecisionDecides
  <2>3. c \in Session /\ p \in Question \cup {NoQuestion}  BY <2>2 DEF Deciding
  <2>4. ~ threw /\ p # NoQuestion => job[p].stream = s /\ job[p].session = c
    BY <2>3 DEF Asked
  <2> HIDE DEF c, p
  <2>5. \A r \in Question \ {p} : job'[r] = job[r]
    <3>1. CASE p = NoQuestion  BY <2>2, <3>1 DEF Deciding
    <3>2. CASE p # NoQuestion  BY <2>2, <3>2, GoesOn DEF Deciding, Phase
    <3> QED  BY <3>1, <3>2
  <2>6. /\ pending' = [pending EXCEPT ![s][c] = NoQuestion]
        /\ threw' = threw
    BY <2>2 DEF Deciding, heard
  <2> SUFFICES ASSUME ~ threw', NEW x \in Stream, NEW y \in Session, pending'[x][y] # NoQuestion
               PROVE  /\ job'[pending'[x][y]].at = "asking"
                      /\ job'[pending'[x][y]].stream = x /\ job'[pending'[x][y]].session = y
    BY DEF Asked
  <2>7. ~ (x = s /\ y = c) /\ pending'[x][y] = pending[x][y]  BY <2>3, <2>6 DEF Types
  <2>8. /\ job[pending[x][y]].at = "asking"
        /\ job[pending[x][y]].stream = x /\ job[pending[x][y]].session = y
    BY <2>6, <2>7 DEF Asked
  <2>9. pending[x][y] \in Question \ {p}  BY <2>4, <2>6, <2>7, <2>8, PendingType
  <2> QED  BY <2>5, <2>7, <2>8, <2>9
<1>5. CASE Proceeds
  <2>1. PICK q \in Question, at \in Phase, n \in {0, 1}, k \in BOOLEAN : Moves(q, at, n, k)
    BY <1>5, StagesMove DEF Proceeds
  <2>2. /\ job'[q].at = at /\ job'[q].stream = job[q].stream /\ job'[q].session = job[q].session
        /\ \A r \in Question \ {q} : job'[r] = job[r]
    BY <2>1, GoesOn DEF Moves
  <2>3. job[q].at # "asking" /\ job[q].at # "new" /\ (threw => threw')  BY <2>1 DEF Moves
  <2>4. CASE at = "asking"
    <3>1. /\ pending' = [pending EXCEPT ![job[q].stream][job[q].session] = q]
          /\ job[q].stream \in Stream /\ job[q].session \in Session
      BY <2>1, <2>3, <2>4 DEF Moves, Placed
    <3> SUFFICES ASSUME ~ threw', NEW x \in Stream, NEW y \in Session, pending'[x][y] # NoQuestion
                 PROVE  /\ job'[pending'[x][y]].at = "asking"
                        /\ job'[pending'[x][y]].stream = x /\ job'[pending'[x][y]].session = y
      BY DEF Asked
    <3>2. CASE x = job[q].stream /\ y = job[q].session
      <4>1. pending'[x][y] = q  BY <3>1, <3>2 DEF Types
      <4> QED  BY <2>2, <2>4, <3>2, <4>1
    <3>3. CASE ~ (x = job[q].stream /\ y = job[q].session)
      <4>1. pending'[x][y] = pending[x][y]  BY <3>1, <3>3 DEF Types
      <4>2. /\ job[pending[x][y]].at = "asking"
            /\ job[pending[x][y]].stream = x /\ job[pending[x][y]].session = y
        BY <2>3, <4>1 DEF Asked
      <4>3. pending[x][y] \in Question \ {q}  BY <2>3, <4>1, <4>2, PendingType
      <4> QED  BY <2>2, <4>1, <4>2, <4>3
    <3> QED  BY <3>2, <3>3
  <2>5. CASE at # "asking" /\ ~ threw'
    <3>1. UNCHANGED pending  BY <2>1, <2>5 DEF Moves
    <3> QED  BY <2>2, <2>3, <3>1, <1>1
  <2>6. CASE threw'  BY <2>6 DEF Asked
  <2> QED  BY <2>4, <2>5, <2>6
<1>6. CASE Talks
  <2>1. UNCHANGED <<job, pending>> /\ (threw => threw')  BY <1>6, RunEmitsOnly DEF Talks
  <2> QED  BY <2>1, <1>1
<1> QED  BY <1>2, <1>3, <1>4, <1>5, <1>6, Kinds

-----------------------------------------------------------------------------
(* The theorems.                                                           *)

\* The invariant holds when the Navigator starts.
LEMMA InitHolds == Init => IInv
<1> SUFFICES ASSUME Init  PROVE IInv  OBVIOUS
<1>1. Types /\ Placed  BY TypesInit
<1>2. Subscribed  BY DEF Init, Subscribed, IsInjective, Contains
<1>3. Fetching /\ Unrun /\ Asked /\ Counts /\ RunsOnceAsConfirmed
  BY DEF Init, Fetching, Unrun, Asked, Counts, RunsOnceAsConfirmed, NoJob
<1> QED  BY <1>1, <1>2, <1>3 DEF IInv

\* Every step of a stream or of a question's work keeps it.
LEMMA StepKeeps == IInv /\ [Next]_vars => IInv'
BY TypesStep, PlacedStep, SubscribedStep, FetchingStep, CountsStep, RunsStep, AskedStep DEF IInv

\* The invariant holds of the sessions as long as the Navigator lives.
THEOREM Invariance == Spec => []IInv
BY InitHolds, StepKeeps, PTL DEF Spec

\* The bus of the Navigator has one client per stream that is being read, and what is
\* pending, run and counted is of questions that were asked.
THEOREM TypeCorrectness == Spec => []TypeOK
<1>1. IInv => TypeOK
  <2> SUFFICES ASSUME IInv  PROVE TypeOK  OBVIOUS
  <2>1. Range(clients) \subseteq Stream  BY DEF IInv, Types, Range
  <2> QED  BY <2>1 DEF IInv, Types, Cards, Subscribed, Counts, TypeOK
<1> QED  BY <1>1, Invariance, PTL

\* While no send fails, registerPortalSession answers a question with one run at most,
\* whichever cards are open and in whatever order they are answered; and with one on
\* knowledge bases only if the user chose them, or agreed on its stream to a card of its
\* session, its own or another question's.
THEOREM AnsweredOnceAsConfirmed == Spec => []RunsOnceAsConfirmed
<1>1. IInv => RunsOnceAsConfirmed  BY DEF IInv
<1> QED  BY <1>1, Invariance, PTL

=============================================================================
