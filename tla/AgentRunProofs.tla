--------------------------- MODULE AgentRunProofs ---------------------------
(***************************************************************************)
(* Proofs about AgentRun, for any providers, beacons, requests and builds, *)
(* and any bounds.                                                         *)
(*                                                                         *)
(* The properties speak of what has left the Navigator, of the prompt, of  *)
(* the file at IPFS and of what the user has read; none is inductive.  The *)
(* inductive invariant IInv says what a dispatch may be at each stage of   *)
(* the request, and what the readers of those that timed out may still     *)
(* do: they outlive the stage that started them.                           *)
(***************************************************************************)
EXTENDS AgentRun, TLAPS

Talk == {"first", "answer"}           \* the dispatches whose text the user reads
Opening == {"idle", "rag", "kb", "kbIndex", "fuse", "ocr", "index", "choose"}

\* A dispatch is for the stage the request is at; only an OCR leaves a file at IPFS.
IsCall(c) ==
  /\ c = [for |-> c.for, cap |-> c.cap, asked |-> c.asked, by |-> c.by,
          phase |-> c.phase, heard |-> c.heard, link |-> c.link]
  /\ c.for \in Stages \ {"idle", "over"}
  /\ c.phase \in {"upload", "broken", "offer", "dial", "open", "hello", "reading"}
  /\ c.heard \in Nat /\ c.link \in BOOLEAN
  /\ c.for \in Talk => c.cap = "chat"
  /\ c.for # "ocr" => ~ c.link /\ c.phase \notin {"upload", "broken"}

\* Where the request is, and what is under way for it.
Placed ==
  /\ stage \in Stages
  /\ outcome = "none" <=> stage # "over"
  /\ call = NoCall \/ (IsCall(call) /\ call.for = stage)
  /\ \A c \in late : IsCall(c)
  /\ req \in Request

\* Without the gate: the request has been stripped of all but its message, no tool is
\* loaded, and whatever is or was dispatched went to a Star.
ToAStar(c) ==
  c # NoCall => c.for \in Talk /\ (c.phase = "offer" \/ c.by \in Star)

OnlyTheMessage ==
  ~ conformant =>
    /\ stage \in {"idle", "rag", "kb", "first", "tool", "answer", "over"}
    /\ stage \in {"rag", "kb", "first", "tool", "answer"} \/ late # {} =>
         ~ req.doc /\ ~ req.rag /\ tools = <<>>
    /\ stage \in {"rag", "kb"} => todo = <<>> /\ call = NoCall
    /\ stage = "idle" => late = {}
    /\ context = {} /\ direct = {} /\ ~ indexed
    /\ ToAStar(call) /\ \A c \in late : ToAStar(c)
    /\ \A s \in sent : s.to \in Star /\ s.what \in {"message", "dialogue"}
    /\ ~ file.pinned

\* Whoever spoke into the prompt, or is about to, is among those used.
Attributed == context \subseteq used /\ direct \subseteq used

\* An ephemeral file that is pinned belongs to the dispatch under way, or its removal is.
File == [pinned : BOOLEAN, unpins : Nat, timers : Nat, fault : BOOLEAN]
Kept ==
  /\ file \in File
  /\ file.pinned /\ req.ipfs = "ephemeral" =>
       \/ file.unpins > 0 \/ file.fault \/ call.link
       \/ req.private /\ ~ PrivateGateway /\ file.timers > 0

\* A reader that may still show text is that of the call that ended the run, and the
\* only one.
OneVoice ==
  \A c \in late : c.for \in Talk =>
    /\ outcome = "RUNTIME_ERROR"
    /\ \A d \in late : d.for \in Talk => c = d

\* How much the user has read of a call: the pieces heard if they are shown as they come,
\* none if they are kept for the end, or if the call is yet to be made.
Said(s, f) == {s[i].nth : i \in {j \in DOMAIN s : s[j].for = f}}
ReadSoFar(c) == Said(shown, c.for) = IF Live(c) THEN 1 .. c.heard ELSE {}
Read ==
  /\ shown \in Seq([for : Talk, nth : Nat])
  /\ stage \in Opening \/ (stage = "first" /\ call = NoCall) => shown = <<>>
  /\ stage \in {"first", "tool"} \/ (stage = "answer" /\ call = NoCall) => Said(shown, "answer") = {}
  /\ call.for \in Talk => ReadSoFar(call)
  /\ \A c \in late : c.for \in Talk => ReadSoFar(c)
  /\ SaidOnce

IInv == Placed /\ OnlyTheMessage /\ Attributed /\ Kept /\ OneVoice /\ Read

-----------------------------------------------------------------------------
(* Dispatches.                                                             *)

\* What Ask begins.
LEMMA AskBegins ==
  ASSUME NEW for \in Stages \ {"idle", "over"}, NEW cap, NEW p, Ask(for, cap, p),
         for \in Talk => cap = "chat"
  PROVE  /\ IsCall(call') /\ call' # NoCall
         /\ call'.for = for /\ call'.cap = cap /\ call'.heard = 0 /\ ~ call'.link
         /\ call'.phase = IF ByLink(for) THEN "upload" ELSE "offer"
<1> DEFINE first == IF ByLink(for) THEN "upload" ELSE "offer"
<1>1. call' = [for |-> for, cap |-> cap, asked |-> p, by |-> NoProvider,
               phase |-> first, heard |-> 0, link |-> FALSE]
  BY DEF Ask, NoCall
<1>2. for # "ocr" => first = "offer"
  BY DEF ByLink
<1>3. first \in {"upload", "offer"} /\ for # "none"
  BY DEF Stages
<1> HIDE DEF first
<1>4. IsCall(call')
  BY <1>1, <1>2, <1>3 DEF IsCall, Stages
<1> QED
  BY <1>1, <1>3, <1>4 DEF NoCall, first

\* What becomes of one field or another of a dispatch ...
LEMMA ByChanges ==
  ASSUME NEW c, IsCall(c), NEW p
  PROVE  /\ IsCall([c EXCEPT !.by = p]) /\ [c EXCEPT !.by = p].by = p
         /\ \A x \in {"for", "cap", "phase", "heard", "link"} : [c EXCEPT !.by = p][x] = c[x]
  BY DEF IsCall

LEMMA PhaseChanges ==
  ASSUME NEW c, IsCall(c), NEW s \in {"offer", "dial", "open", "hello", "reading"}
  PROVE  /\ IsCall([c EXCEPT !.phase = s]) /\ [c EXCEPT !.phase = s].phase = s
         /\ \A x \in {"for", "cap", "by", "heard", "link"} : [c EXCEPT !.phase = s][x] = c[x]
  BY DEF IsCall

LEMMA HeardChanges ==
  ASSUME NEW c, IsCall(c)
  PROVE  LET d == [c EXCEPT !.heard = @ + 1]
         IN /\ IsCall(d) /\ d.heard = c.heard + 1
            /\ \A x \in {"for", "cap", "by", "phase", "link"} : d[x] = c[x]
  BY DEF IsCall

LEMMA LinkChanges ==
  ASSUME NEW c, IsCall(c), c.for = "ocr", NEW b \in BOOLEAN
  PROVE  /\ IsCall([c EXCEPT !.link = b]) /\ [c EXCEPT !.link = b].link = b
         /\ \A x \in {"for", "cap", "by", "phase", "heard"} : [c EXCEPT !.link = b][x] = c[x]
  BY DEF IsCall

LEMMA Breaks ==
  ASSUME NEW c, IsCall(c), c.for = "ocr"
  PROVE  /\ IsCall([c EXCEPT !.phase = "broken"])
         /\ \A x \in {"for", "link"} : [c EXCEPT !.phase = "broken"][x] = c[x]
  BY DEF IsCall

\* ... and so what an assignment and an upload make of the dispatch under way.
LEMMA AssignedCall ==
  ASSUME Placed, NEW p \in Provider, Assigned(p)
  PROVE  /\ IsCall(call) /\ call.phase = "offer"
         /\ IsCall(call') /\ call'.by = p /\ call'.phase = "dial"
         /\ \A x \in {"for", "cap", "heard", "link"} : call'[x] = call[x]
<1> DEFINE d == [call EXCEPT !.by = p]
<1>1. IsCall(call) /\ call.phase = "offer"
  BY DEF Placed, NoCall, Assigned
<1>2. IsCall(d) /\ d.by = p /\ \A x \in {"for", "cap", "phase", "heard", "link"} : d[x] = call[x]
  BY <1>1, ByChanges
<1>3. call' = [d EXCEPT !.phase = "dial"]
  BY DEF Assigned
<1> HIDE DEF d
<1>4. IsCall(call') /\ call'.phase = "dial"
      /\ \A x \in {"for", "cap", "by", "heard", "link"} : call'[x] = d[x]
  BY <1>2, <1>3, PhaseChanges
<1> QED
  BY <1>1, <1>2, <1>4

LEMMA UploadedCall ==
  ASSUME Placed, Uploaded
  PROVE  /\ IsCall(call) /\ call.for = "ocr" /\ call.for = stage
         /\ IsCall(call') /\ call'.for = "ocr"
         /\ call'.link = IF req.private => PrivateGateway THEN TRUE ELSE call.link
<1> DEFINE d == [call EXCEPT !.phase = "offer"]
<1>1. IsCall(call) /\ call.for = "ocr" /\ call.for = stage
  BY DEF Placed, NoCall, Uploaded, IsCall
<1>2. CASE req.private => PrivateGateway
  <2>1. IsCall(d) /\ d.for = "ocr"
    BY <1>1, PhaseChanges
  <2>2. call' = [d EXCEPT !.link = TRUE]
    BY <1>2 DEF Uploaded
  <2> HIDE DEF d
  <2>3. IsCall(call') /\ call'.for = "ocr" /\ call'.link = TRUE
    BY <2>1, <2>2, LinkChanges
  <2> QED BY <1>1, <1>2, <2>3
<1>3. CASE ~ (req.private => PrivateGateway)
  <2>1. call' = [call EXCEPT !.phase = "broken"]
    BY <1>3 DEF Uploaded
  <2> QED BY <1>1, <1>3, <2>1, Breaks
<1> QED
  BY <1>2, <1>3

\* A stripped request is a request to the same method, for the same use of IPFS.
LEMMA StrippedRequest ==
  ASSUME NEW r \in Request
  PROVE  /\ Stripped(r) \in Request
         /\ \A x \in {"entry", "scope", "about", "most", "ipfs", "private"} :
              Stripped(r)[x] = r[x]
         /\ ~ conformant => /\ ~ Stripped(r).doc /\ ~ Stripped(r).rag
                            /\ Stripped(r).words = {} /\ Stripped(r).kbs = <<>>
<1> DEFINE Keeps(a, b) == \A x \in {"entry", "scope", "about", "most", "ipfs", "private"} : a[x] = b[x]
           a == [r EXCEPT !.words = {}]
           b == [a EXCEPT !.doc = FALSE]
           d == [b EXCEPT !.rag = FALSE]
           e == [d EXCEPT !.kbs = <<>>]
<1>1. a \in Request /\ a.words = {} /\ Keeps(a, r)
  BY DEF Request
<1>2. b \in Request /\ ~ b.doc /\ b.words = a.words /\ Keeps(b, a)
  <2> HIDE DEF a
  <2> QED BY <1>1 DEF Request
<1>3. d \in Request /\ ~ d.rag /\ d.doc = b.doc /\ d.words = b.words /\ Keeps(d, b)
  <2> HIDE DEF b
  <2> QED BY <1>2 DEF Request
<1>4. e \in Request /\ e.kbs = <<>> /\ e.rag = d.rag /\ e.doc = d.doc /\ e.words = d.words /\ Keeps(e, d)
  <2> HIDE DEF d
  <2>1. \A s \in Seq(Satellite) :
          LET q == [d EXCEPT !.kbs = s]
          IN q \in Request /\ q.kbs = s /\ q.rag = d.rag /\ q.doc = d.doc /\ q.words = d.words /\ Keeps(q, d)
    BY <1>3 DEF Request
  <2>2. <<>> \in Seq(Satellite)
    OBVIOUS
  <2> QED BY <2>1, <2>2
<1>5. ~ conformant => Stripped(r) = e
  BY DEF Stripped
<1> HIDE DEF a, b, d, e
<1> QED
  BY <1>1, <1>2, <1>3, <1>4, <1>5 DEF Stripped

-----------------------------------------------------------------------------
(* Where the request is.                                                   *)

LEMMA PlacedStep == IInv /\ [Next]_vars => Placed'
<1> SUFFICES ASSUME IInv, [Next]_vars PROVE Placed'
  OBVIOUS
<1>0. Placed
  BY DEF IInv
<1>1. call # NoCall => IsCall(call) /\ call.for = stage /\ stage \notin {"idle", "over"}
  BY <1>0 DEF Placed, IsCall
<1> USE DEF Stages
<1>2. ASSUME UNCHANGED <<req, call, stage, outcome>>, \A c \in late' : IsCall(c) PROVE Placed'
  BY <1>0, <1>2 DEF Placed
<1>3. ASSUME UNCHANGED <<req, stage, outcome, late>>, IsCall(call'), call'.for = stage PROVE Placed'
  BY <1>0, <1>3 DEF Placed
<1>4. ASSUME stage' \in Stages, outcome' = "none" <=> stage' # "over", req' \in Request,
             call' = NoCall \/ (IsCall(call') /\ call'.for = stage'),
             \A c \in late' : c \in late \/ (c = call /\ call # NoCall)
      PROVE  Placed'
  BY <1>0, <1>1, <1>4 DEF Placed
<1>5. CASE UNCHANGED vars
  BY <1>0, <1>2, <1>5 DEF Placed, vars, run, net
<1>6. ASSUME NEW p \in Provider, Beacon(p) PROVE Placed'
  BY <1>0, <1>2, <1>6 DEF Placed, Beacon, run, net
<1>7. ASSUME NEW p \in Provider, Assigned(p) PROVE Placed'
  <2>1. IsCall(call) /\ IsCall(call') /\ call'.for = call.for /\ call # NoCall
    BY <1>0, <1>7, AssignedCall DEF IsCall, NoCall
  <2> QED BY <1>1, <1>3, <1>7, <2>1 DEF Assigned, run
<1>8. CASE Dialled \/ Connected \/ Acked \/ Delta
  <2>1. IsCall(call) /\ call.for = stage
    BY <1>1, <1>8 DEF Dialled, Connected, Acked, Delta, NoCall
  <2>2. \/ call' = [call EXCEPT !.phase = "open"] \/ call' = [call EXCEPT !.phase = "hello"]
        \/ call' = [call EXCEPT !.phase = "reading"] \/ call' = [call EXCEPT !.heard = @ + 1]
    BY <1>8 DEF Dialled, Connected, Acked, Delta
  <2>3. IsCall(call') /\ call'.for = stage
    BY <2>1, <2>2 DEF IsCall
  <2> QED BY <1>3, <1>8, <2>3 DEF Dialled, Connected, Acked, Delta, run
<1>9. CASE Uploaded
  BY <1>0, <1>3, <1>9, UploadedCall DEF Uploaded, run
<1>10. CASE Unpinned \/ Backstop
  BY <1>0, <1>2, <1>10 DEF Placed, Unpinned, Backstop, run, net
<1>11. ASSUME NEW c \in late, LateAcked(c) \/ LateDelta(c) \/ LateOver(c) PROVE Placed'
  <2>1. IsCall(c)
    BY <1>0 DEF Placed
  <2>2. IsCall([c EXCEPT !.phase = "reading"]) /\ IsCall([c EXCEPT !.heard = @ + 1])
    BY <2>1, PhaseChanges, HeardChanges
  <2>3. \A d \in late' : d \in late \/ d = [c EXCEPT !.phase = "reading"] \/ d = [c EXCEPT !.heard = @ + 1]
    BY <1>11 DEF LateAcked, LateDelta, LateOver
  <2> QED BY <1>0, <1>2, <1>11, <2>2, <2>3 DEF Placed, LateAcked, LateDelta, LateOver, run
<1>12. CASE StartRun
  BY <1>0, <1>1, <1>4, <1>12, StrippedRequest DEF Placed, StartRun, Over, net
<1>13. CASE StartOcr \/ StartIndex \/ StartKb
  <2>1. call = NoCall
    BY <1>1, <1>13 DEF StartOcr, StartIndex, StartKb
  <2>2. call' = NoCall \/ (IsCall(call') /\ call'.for = stage')
    <3>1. StartOcr => call' = NoCall
      BY <2>1 DEF StartOcr, net
    <3>2. StartIndex => call' = NoCall \/ (IsCall(call') /\ call'.for = stage')
      BY <2>1, AskBegins DEF StartIndex, Talk
    <3>3. StartKb => call' = NoCall \/ (IsCall(call') /\ call'.for = stage')
      BY <2>1, AskBegins DEF StartKb, Talk
    <3> QED BY <1>13, <3>1, <3>2, <3>3
  <2> QED BY <1>0, <1>4, <1>13, <2>2 DEF Placed, StartOcr, StartIndex, StartKb, Over, Quiet, net
<1>14. CASE Rag \/ Kb \/ CallModel \/ Tool \/ Ocr
  <2>1. call' = NoCall \/ (IsCall(call') /\ call'.for = stage')
    BY <1>14, AskBegins DEF Rag, Kb, CallModel, Tool, Ocr, At, Talk, run
  <2> QED BY <1>0, <1>4, <1>14, <2>1 DEF Placed, Rag, Kb, CallModel, Tool, Ocr, At, Quiet, run
<1>15. CASE KbAnswers
  <2>1. call' = NoCall \/ (IsCall(call') /\ call'.for = stage')
    BY <1>15, AskBegins DEF KbAnswers, Waiting, Talk
  <2> QED BY <1>0, <1>4, <1>15, <2>1 DEF Placed, KbAnswers, Waiting, Quiet
<1>16. ASSUME call # NoCall, Answered \/ Fails
       PROVE  call' = NoCall /\ req' = req /\ \A c \in late' : c \in late \/ c = call
  BY <1>16 DEF Answered, Fails
<1>17. CASE Queried("rag", "kb") \/ Queried("fuse", "first")
  BY <1>0, <1>4, <1>16, <1>17 DEF Placed, Queried, Waiting
<1>18. CASE KbFails \/ KbIndexed \/ ToolOver \/ OcrFails
  BY <1>0, <1>4, <1>16, <1>18 DEF Placed, KbFails, KbIndexed, ToolOver, OcrFails, Waiting, Over
<1>19. CASE ModelFails \/ OcrAnswers \/ Indexed \/ Chosen
  BY <1>0, <1>4, <1>16, <1>19 DEF Placed, ModelFails, OcrAnswers, Indexed, Chosen, ModelAnswers, Waiting, Over
<1>20. ASSUME NEW calls \in ToolCalls, FirstAnswers(calls) \/ AnswerAnswers(calls) PROVE Placed'
  BY <1>0, <1>4, <1>16, <1>20 DEF Placed, FirstAnswers, AnswerAnswers, ModelAnswers, Waiting, Over
<1> QED
  BY <1>5, <1>6, <1>7, <1>8, <1>9, <1>10, <1>11, <1>12, <1>13, <1>14, <1>15, <1>17, <1>18, <1>19,
     <1>20 DEF Next, LocalStep, CallEnds

-----------------------------------------------------------------------------
(* The file at IPFS.                                                       *)

\* One field or two of it change at a time.
LEMMA CountChanges ==
  ASSUME NEW f \in File, NEW n \in Nat
  PROVE  /\ /\ [f EXCEPT !.unpins = n] \in File /\ [f EXCEPT !.unpins = n].unpins = n
            /\ \A x \in {"pinned", "timers", "fault"} : [f EXCEPT !.unpins = n][x] = f[x]
         /\ /\ [f EXCEPT !.timers = n] \in File /\ [f EXCEPT !.timers = n].timers = n
            /\ \A x \in {"pinned", "unpins", "fault"} : [f EXCEPT !.timers = n][x] = f[x]
  BY DEF File

LEMMA FlagChanges ==
  ASSUME NEW f \in File, NEW b \in BOOLEAN
  PROVE  /\ /\ [f EXCEPT !.pinned = b] \in File /\ [f EXCEPT !.pinned = b].pinned = b
            /\ \A x \in {"unpins", "timers", "fault"} : [f EXCEPT !.pinned = b][x] = f[x]
         /\ /\ [f EXCEPT !.fault = b] \in File /\ [f EXCEPT !.fault = b].fault = b
            /\ \A x \in {"pinned", "unpins", "timers"} : [f EXCEPT !.fault = b][x] = f[x]
  BY DEF File

LEMMA UploadedFile ==
  ASSUME file \in File, Uploaded
  PROVE  /\ file' \in File
         /\ req.ipfs = "ephemeral" => file'.timers = file.timers + 1
<1> DEFINE n == IF req.ipfs = "reuse" THEN file.timers ELSE file.timers + 1
           f == [file EXCEPT !.pinned = TRUE]
<1>1. f \in File /\ f.timers = file.timers
  BY FlagChanges
<1>2. file' = [f EXCEPT !.timers = n]
  BY DEF Uploaded
<1>3. n \in Nat
  BY DEF File
<1>4. file' \in File /\ file'.timers = n
  <2> HIDE DEF f, n
  <2> QED BY <1>1, <1>2, <1>3, CountChanges
<1> QED
  BY <1>4

LEMMA UnpinnedFile ==
  ASSUME file \in File, Unpinned
  PROVE  /\ file' \in File
         /\ ~ file'.pinned \/ (file'.fault /\ file'.pinned = file.pinned)
<1> DEFINE f == [file EXCEPT !.unpins = file.unpins - 1]
<1>1. file.unpins - 1 \in Nat
  BY DEF Unpinned, File
<1>2. f \in File /\ f.pinned = file.pinned
  BY <1>1, CountChanges
<1>3. file' = [f EXCEPT !.pinned = FALSE] \/ file' = [f EXCEPT !.fault = TRUE]
  BY DEF Unpinned
<1> HIDE DEF f
<1>4. CASE file' = [f EXCEPT !.pinned = FALSE]
  <2>1. file' \in File /\ file'.pinned = FALSE
    BY <1>2, <1>4, FlagChanges
  <2> QED BY <2>1
<1>5. CASE file' = [f EXCEPT !.fault = TRUE]
  <2>1. file' \in File /\ file'.fault = TRUE /\ file'.pinned = f.pinned
    BY <1>2, <1>5, FlagChanges
  <2> QED BY <1>2, <2>1
<1> QED
  BY <1>3, <1>4, <1>5

LEMMA BackstopFile ==
  ASSUME file \in File, Backstop
  PROVE  /\ file' \in File /\ file'.unpins > 0 /\ file'.pinned = file.pinned
<1> DEFINE f == [file EXCEPT !.timers = file.timers - 1]
<1>1. file.timers - 1 \in Nat /\ file.unpins + 1 \in Nat /\ file.unpins + 1 > 0
  BY DEF Backstop, File
<1>2. f \in File /\ f.pinned = file.pinned /\ f.unpins = file.unpins
  BY <1>1, CountChanges
<1>3. file' = [f EXCEPT !.unpins = file.unpins + 1]
  BY DEF Backstop
<1> HIDE DEF f
<1> QED
  BY <1>1, <1>2, <1>3, CountChanges

LEMMA LostUploadFile ==
  ASSUME file \in File, LostUpload
  PROVE  file' \in File /\ file'.fault = TRUE
<1> DEFINE f == [file EXCEPT !.fault = TRUE]
<1>1. f \in File /\ f.fault = TRUE
  BY FlagChanges
<1>2. file' = [f EXCEPT !.pinned = TRUE] \/ file' = [f EXCEPT !.pinned = FALSE]
  BY DEF LostUpload, File
<1> HIDE DEF f
<1>3. CASE file' = [f EXCEPT !.pinned = TRUE]
  BY <1>1, <1>3, FlagChanges
<1>4. CASE file' = [f EXCEPT !.pinned = FALSE]
  BY <1>1, <1>4, FlagChanges
<1> QED
  BY <1>2, <1>3, <1>4

LEMMA ReleasedFile ==
  ASSUME file \in File, Release
  PROVE  /\ file' \in File
         /\ ~ call.link => file' = file
         /\ call.link /\ req.ipfs = "ephemeral" => file'.unpins > 0
  BY DEF Release, File

\* Only an OCR has to do with the file: every other step leaves it alone, and the way to it.
LEMMA OthersLeaveFile ==
  ASSUME Placed, [Next]_vars, ~ Uploaded, ~ Unpinned, ~ Backstop,
         ~ OcrAnswers, ~ OcrFails
  PROVE  /\ file' = file /\ (call'.link \/ ~ call.link)
         /\ req'.ipfs = req.ipfs /\ req'.private = req.private
<1> DEFINE Unconcerned == /\ file' = file /\ (call'.link \/ ~ call.link)
                          /\ req'.ipfs = req.ipfs /\ req'.private = req.private
<1>1. stage # "ocr" => ~ call.link /\ call.phase # "upload"
  BY DEF Placed, IsCall, NoCall
<1>2. CASE UNCHANGED vars
  BY <1>2 DEF vars, net
<1>3. ASSUME NEW p \in Provider, Beacon(p) PROVE Unconcerned
  BY <1>3 DEF Beacon, net
<1>4. ASSUME NEW p \in Provider, Assigned(p) PROVE Unconcerned
  BY <1>4, AssignedCall DEF Assigned
<1>5. CASE Dialled \/ Connected \/ Acked \/ Delta
  <2>1. IsCall(call)
    BY <1>5 DEF Dialled, Connected, Acked, Delta, Placed, NoCall
  <2>2. call'.link = call.link
    BY <1>5, <2>1 DEF Dialled, Connected, Acked, Delta, IsCall
  <2> QED BY <1>5, <2>2, <2>1 DEF Dialled, Connected, Acked, Delta, IsCall
<1>6. ASSUME NEW c \in late, LateAcked(c) \/ LateDelta(c) \/ LateOver(c) PROVE Unconcerned
  BY <1>6 DEF LateAcked, LateDelta, LateOver
<1>7. CASE StartRun
  BY <1>7, StrippedRequest DEF StartRun, net, Placed
<1>8. CASE StartOcr \/ StartIndex \/ StartKb
  BY <1>1, <1>8 DEF StartOcr, StartIndex, StartKb, Quiet, net
<1>9. CASE Rag \/ Kb \/ CallModel \/ Tool \/ Ocr
  BY <1>9 DEF Rag, Kb, CallModel, Tool, Ocr, At, NoCall, Quiet
<1>10. CASE KbAnswers
  BY <1>1, <1>10 DEF KbAnswers, Waiting, Quiet
<1>11. ASSUME stage # "ocr", Answered \/ Fails PROVE Unconcerned
  BY <1>1, <1>11 DEF Answered, Fails, Release
<1>12. CASE Queried("rag", "kb") \/ Queried("fuse", "first")
  BY <1>11, <1>12 DEF Queried, Waiting
<1>13. CASE KbFails \/ KbIndexed \/ ModelFails \/ ToolOver \/ Indexed \/ Chosen
  BY <1>11, <1>13 DEF KbFails, KbIndexed, ModelFails, ToolOver, Indexed, Chosen, Waiting, ModelAnswers
<1>14. ASSUME NEW calls \in ToolCalls, FirstAnswers(calls) \/ AnswerAnswers(calls) PROVE Unconcerned
  BY <1>11, <1>14 DEF FirstAnswers, AnswerAnswers, Waiting, ModelAnswers
<1> QED
  BY <1>2, <1>3, <1>4, <1>5, <1>6, <1>7, <1>8, <1>9, <1>10, <1>12, <1>13, <1>14
  DEF Next, LocalStep, CallEnds

LEMMA KeptStep == IInv /\ [Next]_vars => Kept'
<1> SUFFICES ASSUME IInv, [Next]_vars PROVE Kept'
  OBVIOUS
<1> USE DEF IInv
<1> DEFINE Whole == req.private => PrivateGateway
           Safe == \/ file'.unpins > 0 \/ file'.fault \/ call'.link
                   \/ req'.private /\ ~ PrivateGateway /\ file'.timers > 0
<1>1. file \in File /\ call.link \in BOOLEAN
  <2>1. file \in File
    BY DEF Kept, File
  <2>2. NoCall.link = FALSE
    BY DEF NoCall
  <2>3. IsCall(call) => call.link \in BOOLEAN
    BY DEF IsCall
  <2> QED BY <2>1, <2>2, <2>3 DEF Placed
<1>2. ASSUME file' \in File, file'.pinned /\ req'.ipfs = "ephemeral" => Safe PROVE Kept'
  BY <1>2 DEF Kept, File
<1>3. CASE Uploaded
  <2>1. req' = req
    BY <1>3 DEF Uploaded
  <2>2. file' \in File /\ (req.ipfs = "ephemeral" => file'.timers = file.timers + 1)
    BY <1>1, <1>3, UploadedFile
  <2>3. call'.link = IF Whole THEN TRUE ELSE call.link
    BY <1>3, UploadedCall
  <2>4. file.timers + 1 > 0
    BY <1>1 DEF File
  <2> QED BY <1>2, <2>1, <2>2, <2>3, <2>4
<1>4. CASE Unpinned
  <2>1. req' = req /\ file' \in File /\ (file'.pinned => file'.fault)
    BY <1>1, <1>4, UnpinnedFile DEF Unpinned
  <2> QED BY <1>2, <2>1
<1>5. CASE Backstop
  BY <1>1, <1>2, <1>5, BackstopFile
<1>6. CASE OcrAnswers \/ OcrFails
  <2>1. req' = req /\ (Release \/ LostUpload)
    BY <1>6 DEF OcrAnswers, OcrFails, Answered, Fails
  <2>2. CASE LostUpload
    BY <1>1, <1>2, <2>2, LostUploadFile
  <2>3. CASE Release
    <3>1. CASE call.link
      BY <1>1, <1>2, <2>1, <2>3, <3>1, ReleasedFile
    <3>2. CASE ~ call.link
      <4>1. file' = file
        BY <1>1, <2>3, <3>2, ReleasedFile
      <4> QED BY <1>1, <1>2, <2>1, <3>2, <4>1 DEF Kept
    <3> QED BY <3>1, <3>2
  <2> QED BY <2>1, <2>2, <2>3
<1>7. CASE ~ Uploaded /\ ~ Unpinned /\ ~ Backstop /\ ~ OcrAnswers /\ ~ OcrFails
  <2>1. /\ file' = file /\ (call'.link \/ ~ call.link)
        /\ req'.ipfs = req.ipfs /\ req'.private = req.private
    BY <1>1, <1>7, OthersLeaveFile
  <2> QED BY <1>1, <1>2, <2>1 DEF Kept
<1> QED
  BY <1>3, <1>4, <1>5, <1>6, <1>7

-----------------------------------------------------------------------------
(* What the user reads.                                                    *)

\* SaidOnce of any list of pieces.
Once(s) ==
  /\ \A i, j \in DOMAIN s : i < j /\ s[i].for = s[j].for => s[j].nth > s[i].nth
  /\ \A i \in DOMAIN s : s[i].for # "choose"
  /\ \A i \in DOMAIN s : s[i].nth > 1 =>
       \E j \in 1 .. i - 1 : s[j] = [s[i] EXCEPT !.nth = @ - 1]

Pieces == [for : Talk, nth : Nat]

LEMMA NoneIsChoose ==
  ASSUME NEW s \in Seq(Pieces)
  PROVE  \A i \in DOMAIN s : s[i].for # "choose"
<1>1. \A p \in Pieces : p.for # "choose"
  BY DEF Pieces, Talk
<1> QED
  BY <1>1

\* The next piece of a call, after all those before it.
LEMMA NextPiece ==
  ASSUME NEW s \in Seq(Pieces), Once(s), NEW f \in Talk, NEW n \in Nat, Said(s, f) = 1 .. n
  PROVE  LET t == Append(s, [for |-> f, nth |-> n + 1])
         IN /\ t \in Seq(Pieces) /\ Once(t) /\ Said(t, f) = 1 .. n + 1
            /\ \A g \in Talk \ {f} : Said(t, g) = Said(s, g)
<1> DEFINE x == [for |-> f, nth |-> n + 1]
           t == Append(s, x)
           k == Len(s) + 1
<1>1. x \in Pieces /\ x.for = f /\ x.nth = n + 1
  BY DEF Pieces
<1>2. /\ t \in Seq(Pieces) /\ DOMAIN s = 1 .. k - 1 /\ DOMAIN t = 1 .. k /\ k \in Nat \ {0}
      /\ t[k] = x /\ \A i \in 1 .. k - 1 : t[i] = s[i] /\ s[i] \in Pieces
  BY <1>1
<1>3. \A i \in 1 .. k - 1 : s[i].nth \in Nat /\ (s[i].for = f => s[i].nth \in 1 .. n)
  BY <1>2 DEF Said, Pieces
<1>4. \A m \in 1 .. n : \E i \in 1 .. k - 1 : s[i].for = f /\ s[i].nth = m
  BY <1>2 DEF Said
<1> HIDE DEF t, x, k
<1>5. Said(t, f) = 1 .. n + 1
  <2>1. Said(t, f) \subseteq 1 .. n + 1
    BY <1>1, <1>2, <1>3 DEF Said
  <2>2. ASSUME NEW m \in 1 .. n + 1 PROVE m \in Said(t, f)
    <3>1. CASE m = n + 1
      BY <1>1, <1>2, <3>1 DEF Said
    <3>2. CASE m \in 1 .. n
      <4>1. PICK i \in 1 .. k - 1 : s[i].for = f /\ s[i].nth = m
        BY <1>4, <3>2
      <4>2. i \in DOMAIN t /\ t[i].for = f /\ t[i].nth = m
        BY <1>2, <4>1
      <4> QED BY <4>2 DEF Said
    <3> QED BY <3>1, <3>2
  <2> QED BY <2>1, <2>2
<1>6. ASSUME NEW g \in Talk \ {f} PROVE Said(t, g) = Said(s, g)
  <2>1. {j \in DOMAIN t : t[j].for = g} = {j \in DOMAIN s : s[j].for = g}
    BY <1>1, <1>2
  <2>2. \A j \in DOMAIN s : t[j] = s[j]
    BY <1>2
  <2> QED BY <2>1, <2>2 DEF Said
<1>7. Once(t)
  <2>1. ASSUME NEW i \in DOMAIN t, NEW j \in DOMAIN t, i < j, t[i].for = t[j].for
        PROVE  t[j].nth > t[i].nth
    <3>1. i \in 1 .. k - 1
      BY <1>2, <2>1
    <3>2. CASE j = k
      BY <1>1, <1>2, <1>3, <2>1, <3>1, <3>2
    <3>3. CASE j \in 1 .. k - 1
      BY <1>2, <2>1, <3>1, <3>3 DEF Once
    <3> QED BY <1>2, <3>2, <3>3
  <2>2. \A i \in DOMAIN t : t[i].for # "choose"
    BY <1>2, NoneIsChoose
  <2>3. ASSUME NEW i \in DOMAIN t, t[i].nth > 1
        PROVE  \E j \in 1 .. i - 1 : t[j] = [t[i] EXCEPT !.nth = @ - 1]
    <3>1. CASE i = k
      <4>1. n \in 1 .. n
        BY <1>1, <1>2, <2>3, <3>1
      <4>2. PICK j \in 1 .. k - 1 : s[j].for = f /\ s[j].nth = n
        BY <1>4, <4>1
      <4>3. s[j] = [for |-> f, nth |-> n]
        BY <1>2, <4>2 DEF Pieces
      <4>4. [x EXCEPT !.nth = @ - 1] = [for |-> f, nth |-> n]
        BY DEF x
      <4> QED BY <1>2, <3>1, <4>2, <4>3, <4>4
    <3>2. CASE i \in 1 .. k - 1
      <4>1. t[i] = s[i] /\ i \in DOMAIN s
        BY <1>2, <3>2
      <4>2. PICK j \in 1 .. i - 1 : s[j] = [s[i] EXCEPT !.nth = @ - 1]
        BY <2>3, <4>1 DEF Once
      <4>3. t[j] = s[j]
        BY <1>2, <3>2
      <4> QED BY <4>1, <4>2, <4>3
    <3> QED BY <1>2, <3>1, <3>2
  <2> QED BY <2>1, <2>2, <2>3 DEF Once
<1> QED
  BY <1>2, <1>5, <1>6, <1>7 DEF t, x

\* All the pieces of a call of which nothing was shown.
LEMMA AllPieces ==
  ASSUME NEW s \in Seq(Pieces), Once(s), NEW f \in Talk, NEW n \in Nat, Said(s, f) = {}
  PROVE  LET t == s \o [i \in 1 .. n |-> [for |-> f, nth |-> i]]
         IN /\ t \in Seq(Pieces) /\ Once(t)
            /\ \A g \in Talk \ {f} : Said(t, g) = Said(s, g)
<1> DEFINE u == [i \in 1 .. n |-> [for |-> f, nth |-> i]]
           t == s \o u
           k == Len(s)
<1>1. u \in Seq(Pieces) /\ Len(u) = n /\ \A i \in 1 .. n : u[i].for = f /\ u[i].nth = i
  BY DEF Pieces
<1>2. k \in Nat /\ DOMAIN s = 1 .. k /\ \A i \in 1 .. k : s[i] \in Pieces /\ s[i].for # f
  <2>1. k \in Nat /\ DOMAIN s = 1 .. k /\ \A i \in 1 .. k : s[i] \in Pieces
    OBVIOUS
  <2>2. \A i \in DOMAIN s : s[i].for # f
    BY DEF Said
  <2> HIDE DEF k
  <2> QED BY <2>1, <2>2
<1>3. /\ t \in Seq(Pieces) /\ DOMAIN t = 1 .. k + n
      /\ \A i \in 1 .. k : t[i] = s[i]
      /\ \A i \in k + 1 .. k + n : t[i] = u[i - k] /\ i - k \in 1 .. n
  <2> HIDE DEF u
  <2> QED BY <1>1, <1>2
<1>4. \A i \in k + 1 .. k + n : /\ t[i] = [for |-> f, nth |-> i - k]
                               /\ t[i].for = f /\ t[i].nth = i - k /\ i - k \in 1 .. n
  BY <1>3
<1> HIDE DEF t, u, k
<1>5. ASSUME NEW g \in Talk \ {f} PROVE Said(t, g) = Said(s, g)
  <2>1. \A j \in DOMAIN t : j \in 1 .. k \/ j \in k + 1 .. k + n
    BY <1>2, <1>3
  <2>3. \A j \in DOMAIN t : t[j].for = g <=> j \in DOMAIN s /\ s[j].for = g
    BY <1>2, <1>3, <1>4, <2>1
  <2>4. {j \in DOMAIN t : t[j].for = g} = {j \in DOMAIN s : s[j].for = g}
    BY <1>2, <1>3, <2>3
  <2>2. \A j \in DOMAIN s : t[j] = s[j]
    BY <1>2, <1>3
  <2> QED BY <2>2, <2>4 DEF Said
<1>6. Once(t)
  <2>1. ASSUME NEW i \in DOMAIN t, NEW j \in DOMAIN t, i < j, t[i].for = t[j].for
        PROVE  t[j].nth > t[i].nth
    <3>1. CASE j \in 1 .. k
      <4>1. i \in DOMAIN s /\ j \in DOMAIN s /\ t[i] = s[i] /\ t[j] = s[j]
        BY <1>2, <1>3, <2>1, <3>1
      <4> QED BY <2>1, <4>1 DEF Once
    <3>2. CASE j \in k + 1 .. k + n /\ i \in 1 .. k
      <4>1. t[j].for = f /\ t[i].for # f
        BY <1>2, <1>3, <1>4, <3>2
      <4> QED BY <2>1, <4>1
    <3>3. CASE j \in k + 1 .. k + n /\ i \in k + 1 .. k + n
      <4>1. t[j].nth = j - k /\ t[i].nth = i - k
        BY <1>4, <3>3
      <4> QED BY <1>2, <2>1, <3>3, <4>1
    <3> QED BY <1>2, <1>3, <2>1, <3>1, <3>2, <3>3
  <2>2. \A i \in DOMAIN t : t[i].for # "choose"
    BY <1>3, NoneIsChoose
  <2>3. ASSUME NEW i \in DOMAIN t, t[i].nth > 1
        PROVE  \E j \in 1 .. i - 1 : t[j] = [t[i] EXCEPT !.nth = @ - 1]
    <3>1. CASE i \in 1 .. k
      <4>1. t[i] = s[i] /\ i \in DOMAIN s
        BY <1>2, <1>3, <3>1
      <4>2. PICK j \in 1 .. i - 1 : s[j] = [s[i] EXCEPT !.nth = @ - 1]
        BY <2>3, <4>1 DEF Once
      <4>3. t[j] = s[j]
        BY <1>2, <1>3, <3>1
      <4> QED BY <4>1, <4>2, <4>3
    <3>2. CASE i \in k + 1 .. k + n
      <4>1. t[i] = [for |-> f, nth |-> i - k] /\ t[i].nth = i - k
        BY <1>4, <3>2
      <4>5. i - k > 1
        BY <2>3, <4>1
      <4>2. i - 1 \in k + 1 .. k + n /\ i - 1 \in 1 .. i - 1
        BY <1>2, <3>2, <4>5
      <4>3. t[i - 1] = [for |-> f, nth |-> i - k - 1]
        <5>1. t[i - 1] = [for |-> f, nth |-> (i - 1) - k]
          BY <1>4, <4>2
        <5>2. (i - 1) - k = i - k - 1
          BY <1>2, <3>2
        <5> QED BY <5>1, <5>2
      <4>4. [t[i] EXCEPT !.nth = @ - 1] = [for |-> f, nth |-> i - k - 1]
        BY <4>1
      <4>6. t[i - 1] = [t[i] EXCEPT !.nth = @ - 1]
        BY <4>3, <4>4
      <4> QED BY <4>2, <4>6
    <3>3. i \in 1 .. k \/ i \in k + 1 .. k + n
      BY <1>2, <1>3
    <3> QED BY <3>1, <3>2, <3>3
  <2> QED BY <2>1, <2>2, <2>3 DEF Once
<1> QED
  BY <1>3, <1>5, <1>6 DEF t, u

\* While a request is under way, no reader left behind has anything to show.
LEMMA LateIsSilent ==
  ASSUME Placed, OneVoice, stage # "over"
  PROVE  \A c \in late : c.for \notin Talk
  BY DEF Placed, OneVoice

\* A step that shows nothing keeps what is known of what was read, if it starts nothing
\* but a call that comes in its turn.
LEMMA NothingShown ==
  ASSUME Read, shown' = shown, tools' = tools,
         \A c \in late' : c.for \in Talk =>
           \E d \in late \cup {call} : d.for = c.for /\ d.heard = c.heard,
         call'.for \in Talk =>
           \/ call.for = call'.for /\ call.heard = call'.heard
           \/ call = NoCall /\ stage = call'.for /\ call'.heard = 0,
         stage' \in Opening \/ (stage' = "first" /\ call' = NoCall) =>
           stage \in Opening \/ (stage = "first" /\ call = NoCall),
         stage' \in {"first", "tool"} \/ (stage' = "answer" /\ call' = NoCall) =>
           stage \in Opening \cup {"first", "tool"} \/ (stage = "answer" /\ call = NoCall)
  PROVE  Read'
<1>1. shown = <<>> => \A f \in Talk : Said(shown, f) = {}
  BY DEF Said
<1>2. call'.for \in Talk => ReadSoFar(call)'
  <2> SUFFICES ASSUME call'.for \in Talk PROVE ReadSoFar(call)'
    OBVIOUS
  <2>1. CASE call.for = call'.for /\ call.heard = call'.heard
    BY <2>1 DEF Read, ReadSoFar, Live
  <2>2. CASE call = NoCall /\ stage = call'.for /\ call'.heard = 0
    <3>1. Said(shown, call'.for) = {}
      BY <1>1, <2>2 DEF Read, Talk
    <3> QED BY <2>2, <3>1 DEF ReadSoFar, Live
  <2> QED BY <2>1, <2>2
<1>3. \A c \in late' : c.for \in Talk => ReadSoFar(c)'
  <2> SUFFICES ASSUME NEW c \in late', c.for \in Talk PROVE ReadSoFar(c)'
    OBVIOUS
  <2>1. PICK d \in late \cup {call} : d.for = c.for /\ d.heard = c.heard
    OBVIOUS
  <2>2. ReadSoFar(d)
    BY <2>1 DEF Read
  <2> QED BY <2>1, <2>2 DEF ReadSoFar, Live
<1>4. SaidOnce'
  BY DEF Read, SaidOnce
<1>5. stage' \in {"first", "tool"} \/ (stage' = "answer" /\ call' = NoCall) => Said(shown', "answer") = {}
  BY <1>1 DEF Read, Talk
<1> QED
  BY <1>2, <1>3, <1>4, <1>5 DEF Read

LEMMA ReadStep == IInv /\ [Next]_vars => Read'
<1> SUFFICES ASSUME IInv, [Next]_vars PROVE Read'
  OBVIOUS
<1>0. Placed /\ OneVoice /\ Read
  BY DEF IInv
<1> USE DEF Opening, Talk
<1>1. call # NoCall => IsCall(call) /\ call.for = stage /\ stage \notin {"idle", "over"}
  BY <1>0 DEF Placed, IsCall
<1>2. NoCall.for = "none" /\ NoCall.heard = 0
  BY DEF NoCall
<1>3. stage # "over" => \A c \in late : c.for \notin Talk
  BY <1>0, LateIsSilent
<1>4. CASE UNCHANGED vars
  BY <1>0, <1>4, NothingShown DEF vars, run, net
<1>5. ASSUME NEW p \in Provider, Beacon(p) PROVE Read'
  BY <1>0, <1>5, NothingShown DEF Beacon, run, net
<1>6. ASSUME NEW p \in Provider, Assigned(p) PROVE Read'
  <2>1. IsCall(call) /\ IsCall(call') /\ call'.for = call.for /\ call'.heard = call.heard
    BY <1>0, <1>6, AssignedCall
  <2>2. call # NoCall /\ call' # NoCall
    BY <2>1 DEF IsCall, NoCall
  <2> QED BY <1>0, <1>6, <2>1, <2>2, NothingShown DEF Assigned, run
<1>7. CASE Dialled \/ Connected \/ Acked
  <2>1. IsCall(call) /\ call # NoCall
    BY <1>1, <1>7 DEF Dialled, Connected, Acked, NoCall
  <2>2. PICK s \in {"open", "hello", "reading"} : call' = [call EXCEPT !.phase = s]
    BY <1>7 DEF Dialled, Connected, Acked
  <2>4. IsCall(call') /\ call'.for = call.for /\ call'.heard = call.heard
    <3> DEFINE d == [call EXCEPT !.phase = s]
    <3>1. IsCall(d) /\ d.for = call.for /\ d.heard = call.heard
      <4>1. s \in {"offer", "dial", "open", "hello", "reading"}
        BY <2>2
      <4> QED BY <2>1, <4>1, PhaseChanges
    <3> HIDE DEF d
    <3>2. call' = d
      BY <2>2 DEF d
    <3> QED BY <3>1, <3>2
  <2>3. call' # NoCall
    BY <2>4 DEF IsCall, NoCall
  <2> QED BY <1>0, <1>7, <2>1, <2>3, <2>4, NothingShown DEF Dialled, Connected, Acked, run
<1>8. CASE Uploaded
  <2>1. call.for = "ocr" /\ call.for = stage /\ call'.for = "ocr" 
    BY <1>0, <1>8, UploadedCall
  <2> QED BY <1>0, <1>8, <2>1, NothingShown DEF Uploaded, run
<1>9. CASE Unpinned \/ Backstop
  BY <1>0, <1>9, NothingShown DEF Unpinned, Backstop, run, net
<1>10. CASE Delta
  <2>1. IsCall(call) /\ call # NoCall /\ call.for = stage
    BY <1>1, <1>10 DEF Delta, NoCall
  <2>2. /\ IsCall(call') /\ call'.for = call.for /\ call'.heard = call.heard + 1
        /\ tools' = tools /\ stage' = stage /\ late' = late /\ call.heard \in Nat
    BY <1>10, <2>1, HeardChanges DEF Delta, run, IsCall
  <2>3. call' # NoCall
    BY <2>2 DEF IsCall, NoCall
  <2>4. stage # "over"
    BY <2>1 DEF IsCall
  <2>5. CASE ~ Live(call)
    <3>1. shown' = shown /\ call.for # "answer" /\ (call.for = "first" => tools # <<>>)
      BY <1>10, <2>5 DEF Delta, Live
    <3>2. call'.for \in Talk => ReadSoFar(call)'
      BY <1>0, <2>2, <3>1 DEF Read, ReadSoFar, Live
    <3> QED BY <1>0, <1>3, <2>1, <2>2, <2>3, <2>4, <3>1, <3>2 DEF Read, SaidOnce
  <2>6. CASE Live(call)
    <3>1. call.for \in Talk /\ Said(shown, call.for) = 1 .. call.heard
      BY <1>0, <2>6 DEF Live, Read, ReadSoFar
    <3>2. shown' = Append(shown, [for |-> call.for, nth |-> call.heard + 1])
      BY <1>10, <2>6 DEF Delta, Piece
    <3>3. shown \in Seq(Pieces) /\ Once(shown)
      BY <1>0 DEF Read, SaidOnce, Once, Pieces
    <3>4. /\ shown' \in Seq(Pieces) /\ Once(shown')
          /\ Said(shown', call.for) = 1 .. call.heard + 1
          /\ \A g \in Talk \ {call.for} : Said(shown', g) = Said(shown, g)
      BY <2>2, <3>1, <3>2, <3>3, NextPiece
    <3>5. ReadSoFar(call)'
      BY <2>2, <2>6, <3>4 DEF ReadSoFar, Live
    <3>6. stage = "first" => Said(shown', "answer") = {}
      BY <1>0, <2>1, <3>4 DEF Read
    <3> QED BY <1>3, <2>1, <2>2, <2>3, <2>4, <3>1, <3>4, <3>5, <3>6 DEF Read, SaidOnce, Once, Pieces
  <2> QED BY <2>5, <2>6
<1>11. ASSUME NEW c \in late, LateAcked(c) \/ LateOver(c) PROVE Read'
  <2>1. IsCall(c)
    BY <1>0 DEF Placed
  <2>2. \A d \in late' : d \in late \/ (d.for = c.for /\ d.heard = c.heard)
    <3>1. [c EXCEPT !.phase = "reading"].for = c.for /\ [c EXCEPT !.phase = "reading"].heard = c.heard
      BY <2>1, PhaseChanges
    <3> QED BY <1>11, <3>1 DEF LateAcked, LateOver
  <2> QED BY <1>0, <1>11, <2>2, NothingShown DEF LateAcked, LateOver, run
<1>12. ASSUME NEW c \in late, LateDelta(c) PROVE Read'
  <2> DEFINE e == [c EXCEPT !.heard = @ + 1]
  <2>1. IsCall(c) /\ c.heard \in Nat
    BY <1>0 DEF Placed, IsCall
  <2>2. e.for = c.for /\ e.heard = c.heard + 1
    BY <2>1, HeardChanges
  <2>3. late' = (late \ {c}) \cup {e} /\ call' = call /\ stage' = stage /\ tools' = tools
    BY <1>12 DEF LateDelta, run
  <2> HIDE DEF e
  <2>4. CASE ~ Live(c)
    <3>1. shown' = shown /\ c.for # "answer" /\ (c.for = "first" => tools # <<>>)
      BY <1>12, <2>4 DEF LateDelta, Live
    <3>2. e.for \in Talk => ReadSoFar(e)'
      BY <1>0, <2>2, <2>3, <3>1 DEF Read, ReadSoFar, Live
    <3>3. call'.for \in Talk => ReadSoFar(call)'
      BY <1>0, <2>3, <3>1 DEF Read, ReadSoFar, Live
    <3>4. \A d \in late' : d.for \in Talk => ReadSoFar(d)'
      BY <1>0, <2>3, <3>1, <3>2 DEF Read, ReadSoFar, Live
    <3> QED BY <1>0, <2>3, <3>1, <3>3, <3>4 DEF Read, SaidOnce
  <2>5. CASE Live(c)
    <3>1. c.for \in Talk /\ Said(shown, c.for) = 1 .. c.heard
      BY <1>0, <2>5 DEF Live, Read, ReadSoFar
    <3>2. shown' = Append(shown, [for |-> c.for, nth |-> c.heard + 1])
      BY <1>12, <2>5 DEF LateDelta, Piece
    <3>3. shown \in Seq(Pieces) /\ Once(shown)
      BY <1>0 DEF Read, SaidOnce, Once, Pieces
    <3>4. /\ shown' \in Seq(Pieces) /\ Once(shown')
          /\ Said(shown', c.for) = 1 .. c.heard + 1
      BY <2>1, <3>1, <3>2, <3>3, NextPiece
    <3>5. ReadSoFar(e)'
      BY <2>2, <2>3, <2>5, <3>4 DEF ReadSoFar, Live
    <3>6. stage = "over" /\ call = NoCall
      BY <1>0, <1>1, <1>3, <3>1
    <3>7. \A d \in late' : d.for \in Talk => d = e
      BY <1>0, <2>3, <3>1 DEF OneVoice
    <3> QED BY <1>2, <2>3, <3>4, <3>5, <3>6, <3>7 DEF Read, SaidOnce, Once, Pieces
  <2> QED BY <2>4, <2>5
<1>13. CASE StartRun
  <2>1. shown = <<>> /\ stage = "idle" /\ call = NoCall /\ late' = late /\ call' = call /\ shown' = shown
    BY <1>0, <1>1, <1>13 DEF StartRun, Read, net
  <2>2. \A c \in late : c.for \notin Talk
    BY <1>3, <2>1
  <2>3. Said(shown', "answer") = {}
    BY <2>1 DEF Said
  <2>4. stage' \in {"rag", "over"}
    BY <1>13 DEF StartRun, Over
  <2> QED BY <1>0, <1>2, <2>1, <2>2, <2>3, <2>4 DEF Read, SaidOnce
<1>14. CASE StartOcr \/ StartIndex \/ StartKb
  <2>1. stage = "idle" /\ call = NoCall /\ shown' = shown /\ tools' = tools /\ late' = late
    BY <1>1, <1>14 DEF StartOcr, StartIndex, StartKb, Quiet, net
  <2>2. call' = NoCall \/ call'.for \in {"index", "choose"}
    <3>1. StartOcr => call' = call
      BY DEF StartOcr, net
    <3>2. StartIndex => call' = call \/ call'.for = "index"
      BY AskBegins DEF StartIndex, Stages
    <3>3. StartKb => call' = call \/ call'.for = "choose"
      BY AskBegins DEF StartKb, Stages
    <3> QED BY <1>14, <2>1, <3>1, <3>2, <3>3
  <2>3. stage' \in {"idle", "ocr", "index", "choose", "over"}
    BY <1>14 DEF StartOcr, StartIndex, StartKb, Over
  <2> QED BY <1>0, <1>2, <2>1, <2>2, <2>3, NothingShown
<1>15. CASE Rag \/ Kb \/ Tool \/ Ocr \/ CallModel
  <2>1. /\ call = NoCall /\ shown' = shown /\ tools' = tools /\ late' = late
        /\ stage \in {"rag", "kb", "tool", "ocr", "first", "answer"}
    BY <1>15 DEF Rag, Kb, Tool, Ocr, CallModel, At, Quiet, run
  <2>2. call' = NoCall \/ (/\ call'.heard = 0 /\ call' # NoCall
                           /\ call'.for \in {"rag", "kb", "fuse", "tool", "ocr"} \/ (call'.for = stage /\ stage' = stage))
    BY <1>15, <2>1, AskBegins DEF Rag, Kb, Tool, Ocr, CallModel, At, Stages, run
  <2>3. \/ stage \in {"rag", "kb", "ocr"} /\ stage' \in {"rag", "kb", "fuse", "first", "ocr"}
        \/ stage = "tool" /\ stage' \in {"tool", "answer"}
        \/ stage \in {"first", "answer"} /\ stage' = stage /\ call' # NoCall
    BY <1>15, <2>1, AskBegins DEF Rag, Kb, Tool, Ocr, CallModel, At, Stages, run
  <2> QED BY <1>0, <1>2, <2>1, <2>2, <2>3, NothingShown
<1>16. CASE KbAnswers
  <2>1. stage = "kb" /\ shown' = shown /\ tools' = tools /\ late' = late /\ stage' \in {"kb", "kbIndex"}
    BY <1>16 DEF KbAnswers, Waiting, Quiet
  <2>2. call' = NoCall \/ call'.for = "kbIndex"
    BY <1>16, AskBegins DEF KbAnswers, Stages
  <2> QED BY <1>0, <1>2, <2>1, <2>2, NothingShown
<1>17. ASSUME call # NoCall, Answered \/ Fails
       PROVE  call' = NoCall /\ \A c \in late' : c \in late \/ c = call
  BY <1>17 DEF Answered, Fails
<1>18. CASE Queried("rag", "kb") \/ Queried("fuse", "first") \/ KbFails \/ KbIndexed
            \/ OcrFails \/ OcrAnswers \/ Indexed \/ Chosen
  <2>1. /\ call # NoCall /\ (Answered \/ Fails) /\ shown' = shown /\ tools' = tools
        /\ stage \in {"rag", "fuse", "kb", "kbIndex", "ocr", "index", "choose"}
    BY <1>1, <1>18 DEF Queried, KbFails, KbIndexed, OcrFails, OcrAnswers, Indexed, Chosen, Waiting,
         Fails, ModelAnswers, Says
  <2>2. stage' \in {"kb", "first", "ocr", "over"}
    BY <1>18 DEF Queried, KbFails, KbIndexed, OcrFails, OcrAnswers, Indexed, Chosen, Waiting, Over
  <2> QED BY <1>0, <1>2, <1>17, <2>1, <2>2, NothingShown
<1>19. CASE ModelFails \/ ToolOver
  <2>1. /\ call # NoCall /\ (Answered \/ Fails) /\ shown' = shown /\ tools' = tools
        /\ stage' = "over" \/ (stage = "tool" /\ stage' = "tool")
    BY <1>19 DEF ModelFails, ToolOver, Waiting, Fails, Over
  <2> QED BY <1>0, <1>2, <1>17, <2>1, NothingShown
<1>20. ASSUME NEW calls \in ToolCalls, FirstAnswers(calls) \/ AnswerAnswers(calls) PROVE Read'
  <2>1. /\ call # NoCall /\ call.for = stage /\ stage \in Talk /\ call' = NoCall /\ late' = late
        /\ tools' = tools
        /\ stage' = "over" \/ (stage = "first" /\ stage' = "tool" /\ calls # <<>>)
    BY <1>1, <1>20 DEF FirstAnswers, AnswerAnswers, Waiting, ModelAnswers, Answered, Over
  <2>2. PICK text \in 0 .. MaxDeltas : Says(call, calls, text)
    BY <1>20 DEF FirstAnswers, AnswerAnswers, ModelAnswers
  <2>3. \A c \in late' : c.for \notin Talk
    BY <1>3, <2>1
  <2>4. CASE shown' = shown
    BY <1>0, <1>2, <2>1, <2>3, <2>4, NothingShown
  <2>5. CASE shown' # shown
    <3>1. /\ shown' = shown \o [i \in 1 .. text |-> [for |-> call.for, nth |-> i]]
          /\ calls = <<>> /\ ~ (Live(call) /\ call.heard > 0)
      BY <2>2, <2>5 DEF Says
    <3>2. Said(shown, call.for) = {}
      <4>1. ReadSoFar(call) /\ call.heard \in Nat
        BY <1>0, <1>1, <2>1 DEF Read, IsCall
      <4> QED BY <3>1, <4>1 DEF ReadSoFar
    <3>3. shown \in Seq(Pieces) /\ Once(shown)
      BY <1>0 DEF Read, SaidOnce, Once, Pieces
    <3>4. shown' \in Seq(Pieces) /\ Once(shown')
      BY <2>1, <3>1, <3>2, <3>3, AllPieces
    <3> QED BY <1>2, <2>1, <2>3, <3>1, <3>4 DEF Read, SaidOnce, Once, Pieces
  <2> QED BY <2>4, <2>5
<1> QED
  BY <1>4, <1>5, <1>6, <1>7, <1>8, <1>9, <1>10, <1>11, <1>12, <1>13, <1>14, <1>15, <1>16, <1>18,
     <1>19, <1>20 DEF Next, LocalStep, CallEnds

-----------------------------------------------------------------------------
(* The other parts of the invariant.                                       *)

LEMMA AttributedStep == IInv /\ [Next]_vars => Attributed'
<1> SUFFICES ASSUME IInv, [Next]_vars PROVE Attributed'
  OBVIOUS
<1>0. Attributed
  BY DEF IInv
<1>1. ASSUME UNCHANGED <<context, direct>>, used \subseteq used' PROVE Attributed'
  BY <1>0, <1>1 DEF Attributed
<1>2. CASE UNCHANGED vars
  BY <1>1, <1>2 DEF vars, run
<1>3. ASSUME NEW p \in Provider, Beacon(p) \/ Assigned(p) PROVE Attributed'
  BY <1>1, <1>3 DEF Beacon, Assigned, run
<1>4. CASE Dialled \/ Connected \/ Acked \/ Delta \/ Uploaded \/ Unpinned \/ Backstop
  BY <1>1, <1>4 DEF Dialled, Connected, Acked, Delta, Uploaded, Unpinned, Backstop, run
<1>5. ASSUME NEW c \in late, LateAcked(c) \/ LateDelta(c) \/ LateOver(c) PROVE Attributed'
  BY <1>1, <1>5 DEF LateAcked, LateDelta, LateOver, run
<1>6. CASE StartRun \/ StartOcr \/ StartIndex \/ StartKb \/ Rag \/ CallModel \/ Tool \/ Ocr
  BY <1>1, <1>6 DEF StartRun, StartOcr, StartIndex, StartKb, Rag, CallModel, Tool, Ocr, run
<1>7. CASE Kb
  BY <1>0, <1>7 DEF Kb, Attributed
<1>8. CASE KbAnswers
  BY <1>0, <1>8 DEF KbAnswers, Attributed, Executor
<1>9. CASE Queried("rag", "kb") \/ Queried("fuse", "first")
  BY <1>0, <1>9 DEF Queried, Fragments, Attributed, Executor
<1>10. CASE ToolOver
  BY <1>0, <1>10 DEF ToolOver, Attributed, Executor
<1>11. CASE KbFails \/ KbIndexed \/ ModelFails \/ OcrAnswers \/ OcrFails \/ Indexed \/ Chosen
  BY <1>1, <1>11 DEF KbFails, KbIndexed, ModelFails, OcrAnswers, OcrFails, Indexed, Chosen
<1>12. ASSUME NEW calls \in ToolCalls, FirstAnswers(calls) \/ AnswerAnswers(calls) PROVE Attributed'
  BY <1>1, <1>12 DEF FirstAnswers, AnswerAnswers
<1> QED
  BY <1>2, <1>3, <1>4, <1>5, <1>6, <1>7, <1>8, <1>9, <1>10, <1>11, <1>12
  DEF Next, LocalStep, CallEnds

LEMMA OneVoiceStep == IInv /\ [Next]_vars => OneVoice'
<1> SUFFICES ASSUME IInv, [Next]_vars PROVE OneVoice'
  OBVIOUS
<1>0. Placed /\ OneVoice
  BY DEF IInv
<1>1. call # NoCall => IsCall(call) /\ call.for = stage /\ stage \notin {"idle", "over"}
  BY <1>0 DEF Placed, IsCall
<1>2. stage # "over" => \A c \in late : c.for \notin Talk
  BY <1>0, LateIsSilent
<1>3. ASSUME late' = late, outcome' = outcome \/ stage # "over" PROVE OneVoice'
  BY <1>0, <1>2, <1>3 DEF OneVoice
<1>4. CASE UNCHANGED vars
  BY <1>3, <1>4 DEF vars, run, net
<1>5. ASSUME NEW p \in Provider, Beacon(p) \/ Assigned(p) PROVE OneVoice'
  BY <1>3, <1>5 DEF Beacon, Assigned, run, net
<1>6. CASE Dialled \/ Connected \/ Acked \/ Delta \/ Uploaded \/ Unpinned \/ Backstop
  BY <1>3, <1>6 DEF Dialled, Connected, Acked, Delta, Uploaded, Unpinned, Backstop, run, net
<1>7. ASSUME NEW c \in late, LateAcked(c) \/ LateDelta(c) \/ LateOver(c) PROVE OneVoice'
  <2>1. IsCall(c) /\ outcome' = outcome
    BY <1>0, <1>7 DEF Placed, LateAcked, LateDelta, LateOver, run
  <2>2. PICK e : e.for = c.for /\ late' \subseteq (late \ {c}) \cup {e}
    BY <1>7, <2>1, PhaseChanges, HeardChanges DEF LateAcked, LateDelta, LateOver
  <2> QED BY <1>0, <2>1, <2>2 DEF OneVoice
<1>8. CASE StartRun \/ StartOcr \/ StartIndex \/ StartKb \/ Rag \/ Kb \/ CallModel \/ Tool \/ Ocr
  BY <1>3, <1>8 DEF StartRun, StartOcr, StartIndex, StartKb, Rag, Kb, CallModel, Tool, Ocr, At, Quiet,
     run, net
<1>9. CASE KbAnswers
  BY <1>3, <1>9 DEF KbAnswers, Quiet
<1>10. ASSUME NEW calls \in ToolCalls, FirstAnswers(calls) \/ AnswerAnswers(calls) PROVE OneVoice'
  BY <1>3, <1>10 DEF FirstAnswers, AnswerAnswers, Waiting, ModelAnswers, Answered
<1>11. ASSUME stage \notin Talk \cup {"over"}, call # NoCall, Answered \/ Fails PROVE OneVoice'
  BY <1>1, <1>2, <1>11 DEF OneVoice, Answered, Fails
<1>12. CASE Queried("rag", "kb") \/ Queried("fuse", "first")
  BY <1>11, <1>12 DEF Queried, Waiting, Talk
<1>13. CASE KbFails \/ KbIndexed \/ ToolOver \/ OcrAnswers \/ OcrFails \/ Indexed \/ Chosen
  BY <1>11, <1>13
  DEF KbFails, KbIndexed, ToolOver, OcrAnswers, OcrFails, Indexed, Chosen, Waiting, ModelAnswers, Talk
<1>14. CASE ModelFails
  <2>1. stage # "over" /\ outcome' = "RUNTIME_ERROR" /\ \A c \in late' : c \in late \/ c = call
    BY <1>14 DEF ModelFails, Waiting, Fails, Over
  <2> QED BY <1>2, <2>1 DEF OneVoice
<1> QED
  BY <1>4, <1>5, <1>6, <1>7, <1>8, <1>9, <1>10, <1>12, <1>13, <1>14 DEF Next, LocalStep, CallEnds

LEMMA OnlyTheMessageStep == IInv /\ [Next]_vars => OnlyTheMessage'
<1> SUFFICES ASSUME IInv, [Next]_vars PROVE OnlyTheMessage'
  OBVIOUS
<1> USE DEF IInv, OnlyTheMessage, Placed, Talk, ToAStar, IsCall, NoCall
<1>0. ~ conformant => call = NoCall \/ stage \in Talk
  OBVIOUS
<1>1. CASE UNCHANGED vars
  BY <1>1 DEF vars, run, net
<1>2. ASSUME NEW p \in Provider, Beacon(p) PROVE OnlyTheMessage'
  BY <1>2 DEF Beacon, run, net
<1>3. ASSUME NEW p \in Provider, Assigned(p) PROVE OnlyTheMessage'
  BY <1>3 DEF Assigned, ModelCall, run
<1>4. CASE Dialled \/ Connected \/ Delta
  BY <1>4 DEF Dialled, Connected, Delta, run
<1>5. CASE Uploaded
  BY <1>5 DEF Uploaded
<1>6. CASE Backstop
  <2>1. file'.pinned = file.pinned
    <3>1. file \in File
      BY DEF Kept, File
    <3> QED BY <1>6, <3>1, BackstopFile
  <2> QED BY <1>6, <2>1 DEF Backstop, run, net
<1>7. CASE Acked
  BY <1>7 DEF Acked, Envelope, Payload, run
<1>8. CASE Unpinned
  <2>1. conformant \/ ~ file'.pinned
    <3>1. file \in File
      BY DEF Kept, File
    <3> QED BY <1>8, <3>1, UnpinnedFile
  <2> QED BY <1>8, <2>1 DEF Unpinned, run, net
<1>9. ASSUME NEW c \in late, LateAcked(c) PROVE OnlyTheMessage'
  BY <1>9 DEF LateAcked, Envelope, Payload, run
<1>10. ASSUME NEW c \in late, LateDelta(c) \/ LateOver(c) PROVE OnlyTheMessage'
  BY <1>10 DEF LateDelta, LateOver, run
<1>11. CASE StartRun
  BY <1>11 DEF StartRun, Over, Stripped, LoadIntent, net
<1>12. CASE StartOcr \/ StartIndex \/ StartKb
  BY <1>12 DEF StartOcr, StartIndex, StartKb, Over, Quiet, net
<1>13. CASE Rag \/ Kb
  BY <1>13 DEF Rag, Kb, Ask, At, Quiet, ByLink
<1>14. CASE Tool
  BY <1>14 DEF Tool, Ask, At, Quiet, ByLink, MayExecute, ToolsNamed
<1>15. CASE CallModel \/ Ocr
  BY <1>15 DEF CallModel, Ocr, Ask, At, Quiet, ByLink, run
<1>16. CASE Queried("rag", "kb") \/ Queried("fuse", "first")
  <2>1. conformant
    BY <1>0, <1>16 DEF Queried, Waiting
  <2>2. conformant' = conformant
    BY <1>16 DEF Queried, Answered, Fails
  <2> QED BY <2>1, <2>2
<1>17. CASE KbAnswers \/ KbFails \/ KbIndexed \/ ToolOver \/ OcrAnswers \/ OcrFails \/ Indexed \/ Chosen
  <2>1. conformant
    BY <1>0, <1>17 DEF KbAnswers, KbFails, KbIndexed, ToolOver, OcrAnswers, OcrFails, Indexed, Chosen, Waiting
  <2>2. conformant' = conformant
    BY <1>17 DEF KbAnswers, KbFails, KbIndexed, ToolOver, OcrAnswers, OcrFails, Indexed, Chosen,
       ModelAnswers, Answered, Fails, Quiet
  <2> QED BY <2>1, <2>2
<1>18. ASSUME NEW calls \in ToolCalls, FirstAnswers(calls) \/ AnswerAnswers(calls)
       PROVE  OnlyTheMessage'
  BY <1>18 DEF FirstAnswers, AnswerAnswers, Waiting, ModelAnswers, Answered, Release, Over
<1>19. CASE ModelFails
  BY <1>19 DEF ModelFails, Waiting, Fails, Release, LostUpload, Over
<1> QED
  BY <1>1, <1>2, <1>3, <1>4, <1>5, <1>6, <1>7, <1>8, <1>9,
     <1>10, <1>11, <1>12, <1>13, <1>14, <1>15, <1>16, <1>17, <1>18, <1>19 DEF Next, LocalStep, CallEnds

-----------------------------------------------------------------------------
(* The theorems.                                                           *)

\* A request starts with nothing under way and nothing left anywhere ...
LEMMA InitIInv == Init => IInv
<1> SUFFICES ASSUME Init PROVE IInv
  OBVIOUS
<1> USE DEF Init, NoCall
<1>1. Placed
  BY RequestsAssumption DEF Placed, Stages
<1>2. OnlyTheMessage
  BY DEF OnlyTheMessage, ToAStar, NoFile
<1>3. Attributed /\ OneVoice
  BY DEF Attributed, OneVoice
<1>4. Kept
  BY DEF Kept, NoFile, File
<1>5. Read
  BY DEF Read, Said, SaidOnce, Opening, Talk
<1> QED
  BY <1>1, <1>2, <1>3, <1>4, <1>5 DEF IInv

\* ... and every step of it keeps the invariant.
LEMMA NextIInv == IInv /\ [Next]_vars => IInv'
  BY PlacedStep, OnlyTheMessageStep, AttributedStep, KeptStep, OneVoiceStep, ReadStep DEF IInv

THEOREM Invariance == Spec => []IInv
  BY InitIInv, NextIInv, PTL DEF Spec

\* Without AUTHORIZATION_CONFORMANT nothing of what it disables leaves: what run sends is
\* the message and, asked again, the dialogue it began, only to Stars (whichever won
\* the auction), and the other methods send nothing: whatever the request carries,
\* whichever calls time out, and whatever tools the answers ask for.
THEOREM NoMoreThanTheMessage == Spec => []OnlyTheMessageLeaves
<1>1. IInv => OnlyTheMessageLeaves
  BY DEF IInv, OnlyTheMessage, OnlyTheMessageLeaves
<1> QED
  BY <1>1, Invariance, PTL

\* buildProvenance names every provider whose text is in the prompt, also one that
\* executed a mission meant for another.
THEOREM ContextHasItsAuthors == Spec => []ContextIsAttributed
<1>1. IInv => ContextIsAttributed
  BY DEF IInv, Attributed, ContextIsAttributed, Provenance
<1> QED
  BY <1>1, Invariance, PTL

\* Once an OCR is over, an ephemeral file is no longer pinned, or its removal is under
\* way, or a request to the node failed, or, for the one failure in which nobody learnt
\* its CID, the backstop is set.
THEOREM NoFileIsForgotten == Spec => []NothingIsForgotten
<1>1. IInv => NothingIsForgotten
  <2> SUFFICES ASSUME IInv, outcome # "none" PROVE NothingIsForgotten
    BY DEF NothingIsForgotten
  <2>1. call = NoCall
    BY DEF IInv, Placed, IsCall
  <2> QED BY <2>1 DEF IInv, Kept, NothingIsForgotten, NoCall
<1> QED
  BY <1>1, Invariance, PTL

\* Of each call the user reads the pieces in order and once, whether they were streamed
\* or came with the answer, and none of what was said to choose a knowledge base.
THEOREM EachPieceOnce == Spec => []SaidOnce
<1>1. IInv => SaidOnce
  BY DEF IInv, Read
<1> QED
  BY <1>1, Invariance, PTL

\* Nothing is emitted after assistant.completed: the call of a run that completed was
\* answered, and the readers that timeouts left behind have nothing to show.
THEOREM NothingAfterCompleted == Spec => CompletedIsSilent
<1>1. IInv /\ [Next]_vars => [outcome = "completed" => shown' = shown]_vars
  <2> SUFFICES ASSUME IInv, Next, outcome = "completed" PROVE shown' = shown
    BY DEF vars, net
  <2>1. stage = "over" /\ call = NoCall /\ \A c \in late : c.for \notin Talk
    BY DEF IInv, Placed, IsCall, OneVoice
  <2>2. ASSUME NEW p \in Provider, Beacon(p) \/ Assigned(p) PROVE shown' = shown
    BY <2>2 DEF Beacon, Assigned, net
  <2>3. CASE Dialled \/ Connected \/ Acked \/ Delta \/ Uploaded \/ Unpinned \/ Backstop
    BY <2>1, <2>3 DEF Dialled, Connected, Acked, Delta, Uploaded, Unpinned, Backstop, NoCall, net
  <2>4. ASSUME NEW c \in late, LateAcked(c) \/ LateDelta(c) \/ LateOver(c) PROVE shown' = shown
    BY <2>1, <2>4 DEF LateAcked, LateDelta, LateOver, Live, Talk
  <2>5. ~ LocalStep
    BY <2>1 DEF LocalStep, StartRun, StartOcr, StartIndex, StartKb, Rag, Kb, CallModel, Tool, Ocr, At
  <2>6. ~ CallEnds
    BY <2>1 DEF CallEnds, Queried, KbAnswers, KbFails, KbIndexed, FirstAnswers, AnswerAnswers,
       ModelFails, ToolOver, OcrAnswers, OcrFails, Indexed, Chosen, Waiting
  <2> QED BY <2>2, <2>3, <2>4, <2>5, <2>6 DEF Next
<1> QED
  BY <1>1, Invariance, PTL DEF Spec, CompletedIsSilent

=============================================================================
