----------------------------- MODULE MCAgentRun -----------------------------
(* Instances of AgentRun for TLC. *)
EXTENDS AgentRun

CONSTANTS near, far, box, hub,  \* a local and an external Star, two Satellites
          right, rights, school       \* words, two of them variants

MCDeclared == near :> "private" @@ far :> "public" @@ box :> "private" @@ hub :> "unspecified"
MCCapabilities == box :> <<"ocr", "kb">> @@ hub :> <<"kb", "index", "query", "ocr">>

\* hub names its tools, and one that stands for nothing it declares.
MCNamed == box :> <<>> @@ hub :> <<"search_kb", "resume", "document_index", "document_query", "extract_text">>
MCGuess == "search_kb" :> "kb" @@ "document_index" :> "index"
           @@ "document_query" :> "query" @@ "extract_text" :> "ocr"

MCTopics == box :> {right} @@ hub :> {right, school}
MCVariants == {{right, rights}}

Chat == [entry |-> "run", scope |-> 3, words |-> {}, doc |-> FALSE, rag |-> FALSE, kbs |-> <<>>,
         about |-> {}, most |-> 1, ipfs |-> "off", private |-> FALSE]
MCRequests ==
  { [Chat EXCEPT !.doc = TRUE, !.words = {"ocr"}],
    [Chat EXCEPT !.words = {"ocr", "summarize"}],
    [Chat EXCEPT !.rag = TRUE, !.kbs = <<hub>>],
    [Chat EXCEPT !.scope = 0, !.rag = TRUE, !.kbs = <<box, hub>>] }
  \cup {[Chat EXCEPT !.entry = e, !.scope = n] : e \in {"ocr", "index", "kb"}, n \in {0, 3}}
  \cup {[Chat EXCEPT !.entry = "kb", !.about = {rights, school}, !.most = n] : n \in {1, 2}}
  \cup {[Chat EXCEPT !.entry = "ocr", !.ipfs = keep, !.private = b] :
           keep \in {"ephemeral", "reuse"}, b \in BOOLEAN}

\* A chat in the scope "local".
LocalChat == {[Chat EXCEPT !.scope = 0]}
=============================================================================
