------------------------- MODULE ConversationProofs -------------------------
(***************************************************************************)
(* Proofs about Conversation, for any texts, sources, caps and bounds.     *)
(*                                                                         *)
(* None of the four invariants is inductive.  Three things are needed      *)
(* besides: the history keeps every conversation once, the active one      *)
(* among them as the screen has it, each with texts written in it only     *)
(* (Archived); what a connection was given, or lies queued, is of the      *)
(* conversation it was made for, and the connection in use serves the      *)
(* active one with its sources (Wired); and what was not saved is only     *)
(* what an answer in the making got since (Stored).                        *)
(***************************************************************************)
EXTENDS Conversation, SequenceTheorems, FiniteSetTheorems, TLAPS

-----------------------------------------------------------------------------
(* The operators of the history.                                           *)

\* A set of numbers has a least one: the segments below its elements are finite
\* sets, and inclusion of finite sets is well-founded.
LEMMA LeastExists ==
  ASSUME NEW S \in SUBSET Nat, S # {}
  PROVE  \E x \in S : \A y \in S : x <= y
  <1>. DEFINE below == {0 .. x - 1 : x \in S}
  <1>1. below \subseteq FiniteSubsetsOf(Nat)
    <2>. SUFFICES ASSUME NEW x \in S PROVE 0 .. x - 1 \in SUBSET Nat /\ IsFiniteSet(0 .. x - 1)
      BY DEF FiniteSubsetsOf
    <2>. QED BY FS_Interval
  <1>2. PICK I \in below : \A J \in below : <<J, I>> \notin StrictSubsetOrdering(Nat)
    <2>. HIDE DEF below
    <2>1. below # {} => \E I \in below : \A J \in below : ~ (<<J, I>> \in StrictSubsetOrdering(Nat))
      BY <1>1, FS_StrictSubsetOrderingWellFounded, WFMin, Zenon
    <2>2. below # {}
      BY DEF below
    <2>. QED BY <2>1, <2>2
  <1>3. PICK x \in S : I = 0 .. x - 1
    BY <1>2
  <1>4. \A y \in S : x <= y
    <2>. SUFFICES ASSUME NEW y \in S, y < x PROVE FALSE
      OBVIOUS
    <2>1. 0 .. y - 1 \in below /\ 0 .. y - 1 \subseteq I /\ y \in I /\ y \notin 0 .. y - 1
      BY <1>3
    <2>2. <<0 .. y - 1, I>> \in StrictSubsetOrdering(Nat)
      BY <2>1, <1>3 DEF StrictSubsetOrdering
    <2>. QED BY <1>2, <2>1, <2>2
  <1>. QED BY <1>4

\* So what holds of 0, and of a number when it holds of the one before, holds up to n.
LEMMA UpTo ==
  ASSUME NEW n \in Nat, NEW D, 0 \in D, \A i \in 1 .. n : i - 1 \in D => i \in D
  PROVE  0 .. n \subseteq D
  <1>. DEFINE B == (0 .. n) \ D
  <1>. SUFFICES ASSUME B # {} PROVE FALSE
    OBVIOUS
  <1>1. PICK x \in B : \A y \in B : x <= y
    <2>1. B \in SUBSET Nat
      OBVIOUS
    <2>. QED BY <2>1, LeastExists
  <1>2. x \in 1 .. n /\ x - 1 \in 0 .. n /\ x - 1 \notin B
    BY <1>1
  <1>. QED BY <1>1, <1>2

\* The function Only is defined with exists: it does up to each index.
LEMMA OnlyIsDefined ==
  ASSUME NEW T, NEW s \in Seq(T), NEW S
  PROVE  \E f : /\ f[0] = <<>>
                /\ \A i \in 1 .. Len(s) :
                     f[i] = IF s[i] \in S THEN Append(f[i - 1], s[i]) ELSE f[i - 1]
                /\ Only(s, S) = f[Len(s)]
  <1>. DEFINE Step(g, i) == IF i = 0 THEN <<>>
                            ELSE IF s[i] \in S THEN Append(g[i - 1], s[i]) ELSE g[i - 1]
              Is(g, n) == g = [i \in 0 .. n |-> Step(g, i)]
              D == {n \in Nat : \E g : Is(g, n)}
  <1>1. 0 \in D
    <2>. DEFINE g == [i \in 0 .. 0 |-> <<>>]
    <2>1. Is(g, 0)
      OBVIOUS
    <2>. QED BY <2>1
  <1>2. ASSUME NEW n \in 1 .. Len(s), n - 1 \in D PROVE n \in D
    <2>1. PICK g : Is(g, n - 1)
      BY <1>2
    <2>2. n \in Nat /\ n - 1 \in Nat
      OBVIOUS
    <2>. DEFINE h == [i \in 0 .. n |-> IF i = n THEN Step(g, n) ELSE g[i]]
    <2>3. \A i \in 0 .. n - 1 : g[i] = Step(g, i) /\ h[i] = g[i]
      <3>1. ASSUME NEW i \in 0 .. n - 1 PROVE g[i] = Step(g, i)
        <4>1. g[i] = [j \in 0 .. n - 1 |-> Step(g, j)][i]
          BY <2>1, Zenon
        <4>. HIDE DEF Step
        <4>. QED BY <4>1
      <3>2. ASSUME NEW i \in 0 .. n - 1 PROVE h[i] = g[i]
        <4>. HIDE DEF Step
        <4>. QED BY <2>2
      <3>. QED BY <3>1, <3>2
    <2>4. h[n] = Step(g, n)
      <3>. HIDE DEF Step
      <3>. QED BY <2>2
    <2>5. \A i \in 0 .. n : h[i] = Step(g, i)
      <3>. HIDE DEF Step, h
      <3>. QED BY <2>2, <2>3, <2>4
    <2>6. \A i \in 0 .. n : Step(g, i) = Step(h, i)
      <3>1. \A i \in 1 .. n : g[i - 1] = h[i - 1]
        <4>. HIDE DEF h
        <4>. QED BY <2>2, <2>3
      <3>. HIDE DEF h
      <3>. QED BY <3>1, <2>2
    <2>7. Is(h, n)
      <3>1. h = [i \in 0 .. n |-> h[i]]
        OBVIOUS
      <3>. HIDE DEF h, Step
      <3>. QED BY <3>1, <2>5, <2>6
    <2>. QED BY <2>7, <2>2
  <1>3. Len(s) \in D
    <2>1. Len(s) \in Nat /\ 0 .. Len(s) \subseteq D
      <3>1. Len(s) \in Nat
        OBVIOUS
      <3>. HIDE DEF D
      <3>. QED BY <1>1, <1>2, <3>1, UpTo
    <2>. HIDE DEF D
    <2>. QED BY <2>1
  <1>. DEFINE f == CHOOSE g : Is(g, Len(s))
  <1>4. Is(f, Len(s))
    BY <1>3
  <1>5. Only(s, S) = f[Len(s)]
    BY DEF Only
  <1>6. ASSUME NEW i \in 0 .. Len(s) PROVE f[i] = Step(f, i)
    <2>. HIDE DEF f
    <2>1. f[i] = [j \in 0 .. Len(s) |-> Step(f, j)][i]
      BY <1>4, Zenon
    <2>. HIDE DEF Step
    <2>. QED BY <2>1
  <1>. HIDE DEF f
  <1>7. Len(s) \in Nat /\ f[0] = Step(f, 0)
    <2>1. Len(s) \in Nat
      OBVIOUS
    <2>. HIDE DEF Step
    <2>. QED BY <1>6, <2>1
  <1>8. ASSUME NEW i \in 1 .. Len(s)
        PROVE  f[i] = IF s[i] \in S THEN Append(f[i - 1], s[i]) ELSE f[i - 1]
    <2>1. f[i] = Step(f, i)
      <3>. HIDE DEF Step
      <3>. QED BY <1>6, <1>7
    <2>. QED BY <2>1, <1>7
  <1>. QED
    BY <1>5, <1>7, <1>8

\* Only(s, S) has the elements of s that are in S, at positions in the same order.
LEMMA OnlyKeeps ==
  ASSUME NEW T, NEW s \in Seq(T), NEW S
  PROVE  /\ Only(s, S) \in Seq(T)
         /\ Range(Only(s, S)) = Range(s) \cap S
         /\ IsInjective(s) => IsInjective(Only(s, S))
  <1>1. PICK f : /\ f[0] = <<>>
                 /\ \A i \in 1 .. Len(s) :
                      f[i] = IF s[i] \in S THEN Append(f[i - 1], s[i]) ELSE f[i - 1]
                 /\ Only(s, S) = f[Len(s)]
    BY OnlyIsDefined
  <1>. DEFINE Good(i, q) ==
         /\ q \in Seq(T)
         /\ \A x : (\E j \in 1 .. Len(q) : q[j] = x) <=> x \in S /\ \E j \in 1 .. i : s[j] = x
         /\ IsInjective(s) => \A j, k \in 1 .. Len(q) : q[j] = q[k] => j = k
       D == {i \in 0 .. Len(s) : Good(i, f[i])}
  <1>2. 0 \in D
    <2>1. f[0] = <<>> /\ 0 \in 0 .. Len(s)
      BY <1>1
    <2>2. Good(0, <<>>)
      OBVIOUS
    <2>. HIDE DEF Good
    <2>. QED BY <2>1, <2>2
  <1>3. ASSUME NEW i \in 1 .. Len(s), i - 1 \in D PROVE i \in D
    <2>1. i - 1 \in 0 .. Len(s) /\ Good(i - 1, f[i - 1]) /\ s[i] \in T
      BY <1>3
    <2>2. f[i] = IF s[i] \in S THEN Append(f[i - 1], s[i]) ELSE f[i - 1]
      BY <1>1
    <2>3. \A x : (\E j \in 1 .. i : s[j] = x) <=> x = s[i] \/ \E j \in 1 .. i - 1 : s[j] = x
      OBVIOUS
    <2>4. ASSUME s[i] \notin S PROVE Good(i, f[i])
      <3>. DEFINE p == f[i - 1]
      <3>1. f[i] = p
        BY <2>2, <2>4
      <3>. HIDE DEF p
      <3>2. ASSUME NEW x
            PROVE  (\E j \in 1 .. Len(p) : p[j] = x) <=> x \in S /\ \E j \in 1 .. i : s[j] = x
        <4>1. (\E j \in 1 .. Len(p) : p[j] = x) <=> x \in S /\ \E j \in 1 .. i - 1 : s[j] = x
          BY <2>1 DEF p
        <4>. QED BY <4>1, <2>3, <2>4
      <3>3. Good(i, p)
        BY <2>1, <3>2 DEF p
      <3>4. Good(i, f[i])
        BY <3>1, <3>3
      <3>. QED BY <3>4
    <2>5. ASSUME s[i] \in S PROVE Good(i, f[i])
      <3>. DEFINE p == f[i - 1]
                  q == Append(p, s[i])
      <3>1. q \in Seq(T) /\ Len(q) = Len(p) + 1 /\ q[Len(p) + 1] = s[i]
            /\ \A j \in 1 .. Len(p) : q[j] = p[j]
        BY <2>1, AppendProperties
      <3>2. Len(p) \in Nat
        BY <2>1
      <3>. HIDE DEF p, q
      <3>3. ASSUME NEW x
            PROVE  (\E j \in 1 .. Len(q) : q[j] = x) <=> x \in S /\ \E j \in 1 .. i : s[j] = x
        <4>1. (\E j \in 1 .. Len(q) : q[j] = x) <=> x = s[i] \/ \E j \in 1 .. Len(p) : p[j] = x
          BY <3>1, <3>2
        <4>2. (\E j \in 1 .. Len(p) : p[j] = x) <=> x \in S /\ \E j \in 1 .. i - 1 : s[j] = x
          BY <2>1 DEF p
        <4>. QED BY <4>1, <4>2, <2>3, <2>5
      <3>4. ASSUME IsInjective(s), NEW j \in 1 .. Len(q), NEW k \in 1 .. Len(q), q[j] = q[k]
            PROVE  j = k
        <4>1. \A a, b \in 1 .. Len(p) : p[a] = p[b] => a = b
          BY <2>1, <3>4 DEF p
        <4>2. ASSUME NEW a \in 1 .. Len(p) PROVE p[a] # s[i]
          <5>1. p[a] # s[i] \/ \E b \in 1 .. i - 1 : s[b] = s[i]
            BY <2>1 DEF p
          <5>2. \A b \in 1 .. i - 1 : s[b] # s[i]
            BY <3>4 DEF IsInjective
          <5>. QED BY <5>1, <5>2
        <4>. QED BY <3>1, <3>2, <3>4, <4>1, <4>2
      <3>5. Good(i, q)
        BY <3>1, <3>3, <3>4
      <3>6. f[i] = q
        BY <2>2, <2>5 DEF p, q
      <3>7. Good(i, f[i])
        BY <3>5, <3>6
      <3>. QED BY <3>7
    <2>6. Good(i, f[i]) /\ i \in 0 .. Len(s)
      <3>. HIDE DEF Good
      <3>. QED BY <2>4, <2>5
    <2>. HIDE DEF Good
    <2>. QED BY <2>6
  <1>4. Len(s) \in Nat /\ 0 .. Len(s) \subseteq D
    <2>1. Len(s) \in Nat
      OBVIOUS
    <2>. HIDE DEF D
    <2>. QED BY <1>2, <1>3, <2>1, UpTo
  <1>5. Good(Len(s), Only(s, S))
    <2>1. Len(s) \in D
      <3>. HIDE DEF D
      <3>. QED BY <1>4
    <2>. QED BY <2>1, <1>1
  <1>6. Range(Only(s, S)) = {Only(s, S)[j] : j \in 1 .. Len(Only(s, S))} /\ Range(s) = {s[j] : j \in 1 .. Len(s)}
    BY <1>5, RangeEquality
  <1>7. Range(Only(s, S)) = Range(s) \cap S
    BY <1>5, <1>6
  <1>. QED
    BY <1>5, <1>7 DEF IsInjective

\* The last n of a sequence.
LEMMA LastN ==
  ASSUME NEW T, NEW s \in Seq(T), NEW n \in Nat
  PROVE  /\ Last_(s, n) \in Seq(T) /\ Len(Last_(s, n)) <= n
         /\ Range(Last_(s, n)) \subseteq Range(s)
         /\ Len(s) <= n => Last_(s, n) = s
  <1>. DEFINE m == IF Len(s) > n THEN Len(s) - n + 1 ELSE 1
              q == SubSeq(s, m, Len(s))
  <1>1. Len(s) \in Nat /\ m \in Int /\ m >= 1 /\ m <= Len(s) + 1 /\ Len(s) - m + 1 <= n
    OBVIOUS
  <1>. HIDE DEF m
  <1>2. \A i \in m .. Len(s) : s[i] \in T
    BY <1>1
  <1>3. /\ q \in Seq(T) /\ Len(q) = (IF m <= Len(s) THEN Len(s) - m + 1 ELSE 0)
        /\ \A i \in 1 .. Len(s) - m + 1 : q[i] = s[m + i - 1]
    BY <1>1, <1>2, SubSeqProperties
  <1>. HIDE DEF q
  <1>4. \A i \in 1 .. Len(q) : q[i] \in Range(s)
    <2>. SUFFICES ASSUME NEW i \in 1 .. Len(q) PROVE q[i] \in Range(s)
      OBVIOUS
    <2>1. m + i - 1 \in 1 .. Len(s) /\ q[i] = s[m + i - 1]
      BY <1>1, <1>3
    <2>. QED BY <2>1, RangeEquality
  <1>5. Range(q) \subseteq Range(s)
    BY <1>3, <1>4, RangeEquality
  <1>6. ASSUME Len(s) <= n PROVE q = s
    <2>1. m = 1
      BY <1>6 DEF m
    <2>. QED BY <2>1, SubSeqFull DEF q
  <1>7. q = Last_(s, n)
    BY DEF q, m, Last_
  <1>. QED
    BY <1>1, <1>3, <1>5, <1>6, <1>7

-----------------------------------------------------------------------------
(* What the history keeps.                                                 *)

\* A message of conversation a: a text written in it, or an answer there is.
FromHere(x, a, o, n) == IF x \in Text THEN o[x] = a ELSE x \in 1 .. n

Kept(c, o, n, m) ==
  /\ c.id \in 1 .. m /\ Len(c.messages) <= MaxMessages
  /\ \A x \in Range(c.messages) : FromHere(x, c.id, o, n)

Apart(h) == \A i, j \in DOMAIN h : h[i].id = h[j].id => i = j

\* The history h keeps each conversation once, the active one, a, among them, with what
\* is on the screen, s; o says where texts were written, n and m count answers and
\* conversations.
Archived(h, a, s, o, n, m) ==
  /\ h \in Seq(Conversation) /\ Len(h) <= MaxConversations /\ Apart(h)
  /\ m \in 0 .. Conversations /\ a \in 0 .. m
  /\ \A c \in Range(h) : Kept(c, o, n, m)
  /\ s \in Seq(Message) /\ \A x \in Range(s) : FromHere(x, a, o, n)
  /\ IF a = NoConversation THEN s = <<>>
     ELSE \E c \in Range(h) : c.id = a /\ c.messages = Last_(s, MaxMessages)

\* The sources of the active conversation, or of the one to be created.
SourceOf(h, a, w) == IF a \in Ids(h) THEN Find(h, a).source ELSE w

-----------------------------------------------------------------------------
(* Writing to the history.                                                 *)

LEMMA Found ==
  ASSUME NEW h \in Seq(Conversation), Apart(h)
  PROVE  /\ \A c \in Range(h) : c.id \in Ids(h) /\ Find(h, c.id) = c
         /\ \A id \in Ids(h) : Find(h, id) \in Range(h) /\ Find(h, id).id = id
  <1>1. Range(h) = {h[i] : i \in DOMAIN h}
    BY DEF Range
  <1>2. ASSUME NEW i \in DOMAIN h PROVE h[i].id \in Ids(h) /\ Find(h, h[i].id) = h[i]
    <2>1. h[i].id \in Ids(h)
      BY DEF Ids
    <2>2. \A j \in DOMAIN h : h[j].id = h[i].id <=> j = i
      BY DEF Apart
    <2>3. (CHOOSE j \in DOMAIN h : h[j].id = h[i].id) = i
      BY <2>2
    <2>. QED BY <2>1, <2>3 DEF Find
  <1>3. ASSUME NEW id \in Ids(h) PROVE Find(h, id) \in Range(h) /\ Find(h, id).id = id
    <2>1. PICK i \in DOMAIN h : h[i].id = id
      BY DEF Ids
    <2>. QED BY <1>1, <1>2, <2>1
  <1>. QED BY <1>1, <1>2, <1>3

LEMMA NobodyIsZero ==
  ASSUME NEW h, NEW a, NEW s, NEW o, NEW n, NEW m, Archived(h, a, s, o, n, m)
  PROVE  /\ Ids(h) \subseteq 1 .. m
         /\ a \in Ids(h) <=> a # NoConversation
  <1>1. Range(h) = {h[i] : i \in DOMAIN h}
    BY DEF Range
  <1>2. Ids(h) = {c.id : c \in Range(h)}
    BY <1>1 DEF Ids
  <1>3. Ids(h) \subseteq 1 .. m
    BY <1>2 DEF Archived, Kept
  <1>4. a # NoConversation => a \in Ids(h)
    BY <1>2 DEF Archived
  <1>. QED BY <1>3, <1>4 DEF NoConversation

\* upsertConversation puts the conversation in front, and of the others keeps some.
LEMMA UpsertPuts ==
  ASSUME NEW h \in Seq(Conversation), Apart(h), NEW c \in Conversation
  PROVE  LET u == Upsert(h, c)
             d == [c EXCEPT !.messages = Last_(@, MaxMessages)]
         IN /\ u \in Seq(Conversation) /\ Len(u) \in 1 .. MaxConversations /\ Apart(u)
            /\ d \in Range(u)
            /\ \A e \in Range(u) : e = d \/ (e \in Range(h) /\ e.id # c.id)
  <1>. DEFINE d == [c EXCEPT !.messages = Last_(@, MaxMessages)]
              rest == Others(h, c.id)
              all == <<d>> \o rest
              k == IF Len(all) > MaxConversations THEN MaxConversations ELSE Len(all)
              u == SubSeq(all, 1, k)
  <1>1. d \in Conversation /\ d.id = c.id
    <2>1. Last_(c.messages, MaxMessages) \in Seq(Message)
      BY LastN, CapAssumption DEF Conversation
    <2>. QED BY <2>1 DEF Conversation
  <1>2. /\ rest \in Seq(Conversation)
        /\ Range(rest) = {e \in Range(h) : e.id # c.id}
        /\ IsInjective(rest)
    <2>1. IsInjective(h)
      BY DEF Apart, IsInjective
    <2>2. Range(h) \cap {e \in Range(h) : e.id # c.id} = {e \in Range(h) : e.id # c.id}
      OBVIOUS
    <2>. QED BY <2>1, <2>2, OnlyKeeps DEF Others
  <1>3. \A i, j \in 1 .. Len(rest) : rest[i].id = rest[j].id => i = j
    <2>. SUFFICES ASSUME NEW i \in 1 .. Len(rest), NEW j \in 1 .. Len(rest), rest[i].id = rest[j].id
                  PROVE  i = j
      OBVIOUS
    <2>1. rest[i] \in Range(h) /\ rest[j] \in Range(h)
      BY <1>2, RangeEquality
    <2>2. rest[i] = rest[j]
      BY <2>1, Found
    <2>. QED BY <2>2, <1>2 DEF IsInjective
  <1>4. \A i \in 1 .. Len(rest) : rest[i] \in Range(h) /\ rest[i].id # c.id
    BY <1>2, RangeEquality
  <1>. HIDE DEF d, rest
  <1>5. /\ all \in Seq(Conversation) /\ Len(all) = Len(rest) + 1 /\ all[1] = d
        /\ \A i \in 2 .. Len(all) : all[i] = rest[i - 1]
    <2>1. <<d>> \in Seq(Conversation) /\ Len(<<d>>) = 1 /\ <<d>>[1] = d
      BY <1>1
    <2>2. Len(rest) \in Nat
      BY <1>2
    <2>. QED BY <1>2, <2>1, <2>2, ConcatProperties
  <1>6. Len(rest) \in Nat /\ k \in 1 .. MaxConversations /\ k <= Len(all)
    BY <1>2, <1>5, CapAssumption
  <1>. HIDE DEF all, k
  <1>7. u \in Seq(Conversation) /\ Len(u) = k /\ \A i \in 1 .. k : u[i] = all[i]
    <2>1. \A i \in 1 .. k : all[i] \in Conversation
      BY <1>5, <1>6
    <2>2. k \in Int /\ 1 <= k /\ k - 1 + 1 = k
      BY <1>6, CapAssumption
    <2>3. /\ u \in Seq(Conversation) /\ Len(u) = k - 1 + 1
          /\ \A i \in 1 .. k - 1 + 1 : u[i] = all[1 + i - 1]
      BY <2>1, <2>2, SubSeqProperties
    <2>4. \A i \in 1 .. k : 1 + i - 1 = i
      BY <1>6
    <2>. QED BY <2>2, <2>3, <2>4
  <1>. HIDE DEF u
  <1>8. u[1] = d /\ \A i \in 2 .. k : u[i] = rest[i - 1] /\ i - 1 \in 1 .. Len(rest)
    BY <1>5, <1>6, <1>7
  <1>9. Apart(u)
    <2>. SUFFICES ASSUME NEW i \in 1 .. k, NEW j \in 1 .. k, u[i].id = u[j].id PROVE i = j
      BY <1>7 DEF Apart
    <2>1. i = 1 \/ i \in 2 .. k
      BY <1>6, CapAssumption
    <2>2. j = 1 \/ j \in 2 .. k
      BY <1>6, CapAssumption
    <2>3. ASSUME NEW x \in 2 .. k PROVE u[x].id # c.id
      BY <2>3, <1>4, <1>8
    <2>4. CASE i \in 2 .. k /\ j \in 2 .. k
      BY <2>4, <1>3, <1>8
    <2>. QED BY <2>1, <2>2, <2>3, <2>4, <1>1, <1>8
  <1>10. d \in Range(u) /\ \A e \in Range(u) : e = d \/ (e \in Range(h) /\ e.id # c.id)
    <2>1. Range(u) = {u[i] : i \in 1 .. k}
      BY <1>7, RangeEquality
    <2>2. 1 \in 1 .. k /\ \A i \in 1 .. k : i = 1 \/ i \in 2 .. k
      BY <1>6, CapAssumption
    <2>. QED BY <2>1, <2>2, <1>4, <1>8
  <1>11. u = Upsert(h, c) /\ d = [c EXCEPT !.messages = Last_(@, MaxMessages)]
    BY DEF u, d, k, all, rest, Upsert
  <1>. QED BY <1>1, <1>6, <1>7, <1>9, <1>10, <1>11

\* So the history stays in order when the active conversation, or a new one, is written
\* as the screen has it.
LEMMA Written ==
  ASSUME NEW h, NEW a, NEW s, NEW o, NEW n, NEW m, Archived(h, a, s, o, n, m),
         NEW src \in Source, NEW s2 \in Seq(Message), NEW o2, NEW n2 \in Nat, n \in Nat, n <= n2,
         NEW a2, NEW m2 \in 0 .. Conversations,
         a # NoConversation => a2 = a /\ m2 = m,
         a = NoConversation => a2 = m + 1 /\ m2 = m + 1,
         \A t \in Text : o[t] # NoConversation => o2[t] = o[t],
         \A x \in Range(s2) : FromHere(x, a2, o2, n2)
  PROVE  LET u == Upsert(h, [id |-> a2, source |-> src, messages |-> s2])
         IN Archived(u, a2, s2, o2, n2, m2) /\ \A w : SourceOf(u, a2, w) = src
  <1>. DEFINE c == [id |-> a2, source |-> src, messages |-> s2]
              d == [id |-> a2, source |-> src, messages |-> Last_(s2, MaxMessages)]
              u == Upsert(h, c)
  <1>1. h \in Seq(Conversation) /\ Apart(h) /\ m \in Nat /\ m <= m2 /\ a2 \in 1 .. m2 /\ m2 <= Conversations
    BY BoundAssumption DEF Archived, NoConversation
  <1>2. c \in Conversation
    BY <1>1, BoundAssumption DEF Conversation
  <1>3. /\ u \in Seq(Conversation) /\ Len(u) \in 1 .. MaxConversations /\ Apart(u)
        /\ d \in Range(u)
        /\ \A e \in Range(u) : e = d \/ (e \in Range(h) /\ e.id # c.id)
    <2>1. [c EXCEPT !.messages = Last_(@, MaxMessages)] = d
      OBVIOUS
    <2>. HIDE DEF c, d
    <2>. QED BY <1>1, <1>2, <2>1, UpsertPuts
  <1>4. /\ Last_(s2, MaxMessages) \in Seq(Message) /\ Len(Last_(s2, MaxMessages)) <= MaxMessages
        /\ Range(Last_(s2, MaxMessages)) \subseteq Range(s2)
    BY LastN, CapAssumption
  <1>5. Kept(d, o2, n2, m2)
    BY <1>1, <1>4 DEF Kept
  <1>6. ASSUME NEW e \in Range(h) PROVE Kept(e, o2, n2, m2)
    <2>1. Kept(e, o, n, m)
      BY DEF Archived
    <2>2. e.id \in 1 .. m2 /\ e.id # NoConversation
      BY <2>1, <1>1 DEF Kept, NoConversation
    <2>3. \A x \in Range(e.messages) : FromHere(x, e.id, o2, n2)
      BY <2>1, <2>2 DEF Kept, FromHere
    <2>. QED BY <2>1, <2>2, <2>3 DEF Kept
  <1>7. Archived(u, a2, s2, o2, n2, m2)
    <2>. HIDE DEF u, d
    <2>1. \A e \in Range(u) : Kept(e, o2, n2, m2)
      BY <1>3, <1>5, <1>6
    <2>2. \E e \in Range(u) : e.id = a2 /\ e.messages = Last_(s2, MaxMessages)
      BY <1>3 DEF d
    <2>3. a2 # NoConversation /\ a2 \in 0 .. m2
      BY <1>1 DEF NoConversation
    <2>4. Len(u) <= MaxConversations
      BY <1>3
    <2>. QED BY <1>3, <2>1, <2>2, <2>3, <2>4 DEF Archived
  <1>8. \A w : SourceOf(u, a2, w) = src
    <2>. HIDE DEF u
    <2>. QED BY <1>3, Found DEF SourceOf
  <1>. QED BY <1>7, <1>8

-----------------------------------------------------------------------------
(* Connections.                                                            *)

\* What a connection was given belongs to the conversation it was made for; o says
\* where texts were written.
Fits(c, o) ==
  /\ c \in Link
  /\ c.phase = "gone" => c = Gone
  /\ c.waiting # NoRequest => c.home \in {o[c.waiting.text], NoConversation}
  /\ \A t \in Text : c.work[t] # "no" => c.home \in {o[t], NoConversation}

\* The connection in use serves the active conversation, a, with its sources.
InUse(c, a, src) ==
  /\ ~ c.closed /\ c.home \in {a, NoConversation}
  /\ c.waiting # NoRequest => c.waiting.source = src
  /\ \A t \in Text : c.work[t] = "file, local" => src = "local"

\* A request for the active conversation, with its sources.
ForHere(r, a, src, o) ==
  r \in Request /\ a # NoConversation /\ o[r.text] = a /\ r.source = src

Wired(cs, cur, q, a, src, o) ==
  /\ cs \in [Connection -> Link] /\ cur \in 0 .. Connections
  /\ \A k \in Connection : Fits(cs[k], o)
  /\ cur # NoConnection => InUse(cs[cur], a, src)
  /\ q # NoRequest => ForHere(q, a, src, o)

\* It has something to wait for, whatever is queued.
Carries(c) ==
  \/ c.phase = "opening" /\ c.waiting # NoRequest
  \/ \E t \in Text : c.work[t] # "no" /\ t \notin c.lost

LEMMA Numbered == \A k : k \in Connection <=> k \in 0 .. Connections /\ k # NoConnection
  BY BoundAssumption DEF Connection, NoConnection

\* send() hands a request of its conversation to a connection.
LEMMA SentFits ==
  ASSUME NEW cs \in [Connection -> Link], NEW k \in Connection, NEW o, Fits(cs[k], o),
         NEW r \in Request, cs[k].home \in {o[r.text], NoConversation}
  PROVE  \E d \in Link :
           /\ Sent(cs, k, r) = [cs EXCEPT ![k] = d]
           /\ Fits(d, o) /\ Carries(d)
           /\ \A a : \A src \in Source : InUse(cs[k], a, src) /\ r.source = src => InUse(d, a, src)
  <1>1. r.text \in Text /\ r # NoRequest /\ r.file \in BOOLEAN /\ r.source \in Source
    BY TextAssumption DEF Request, NoRequest
  <1>2. CASE cs[k].phase = "open"
    <2>. DEFINE w == IF r.file THEN IF r.source = "network" THEN "file" ELSE "file, local" ELSE "asked"
                d == [cs[k] EXCEPT !.work[r.text] = w, !.lost = @ \ {r.text}]
    <2>1. w \in Work /\ w # "no" /\ (w = "file, local" => r.source = "local")
      BY <1>1 DEF Work, Source
    <2>2. Sent(cs, k, r) = [cs EXCEPT ![k] = d]
      BY <1>2 DEF Sent
    <2>. HIDE DEF w
    <2>3. /\ d \in Link /\ d.home = cs[k].home /\ d.phase = "open" /\ d.closed = cs[k].closed
          /\ d.waiting = cs[k].waiting /\ d.lost = cs[k].lost \ {r.text}
          /\ \A t \in Text : d.work[t] = IF t = r.text THEN w ELSE cs[k].work[t]
      BY <1>1, <1>2, <2>1 DEF Link
    <2>. HIDE DEF d
    <2>4. Fits(d, o)
      BY <2>3 DEF Fits
    <2>5. Carries(d)
      BY <1>1, <2>1, <2>3 DEF Carries
    <2>6. ASSUME NEW a, NEW src \in Source, InUse(cs[k], a, src), r.source = src PROVE InUse(d, a, src)
      BY <2>1, <2>3, <2>6 DEF InUse
    <2>. QED BY <2>2, <2>3, <2>4, <2>5, <2>6
  <1>3. CASE cs[k].phase # "open"
    <2>. DEFINE d == [cs[k] EXCEPT !.waiting = r, !.phase = "opening"]
    <2>1. Sent(cs, k, r) = [cs EXCEPT ![k] = d]
      BY <1>3 DEF Sent
    <2>2. /\ d \in Link /\ d.home = cs[k].home /\ d.phase = "opening" /\ d.closed = cs[k].closed
          /\ d.waiting = r /\ d.work = cs[k].work
      BY <1>1 DEF Link, Phase
    <2>. HIDE DEF d
    <2>3. Fits(d, o)
      BY <2>2 DEF Fits
    <2>4. Carries(d)
      BY <1>1, <2>2 DEF Carries
    <2>5. ASSUME NEW a, NEW src \in Source, InUse(cs[k], a, src), r.source = src PROVE InUse(d, a, src)
      BY <2>2, <2>5 DEF InUse
    <2>. QED BY <2>1, <2>2, <2>3, <2>4, <2>5
  <1>. QED BY <1>2, <1>3

\* One connection changes.
LEMMA WiredExcept ==
  ASSUME NEW cs, NEW cur, NEW q, NEW a, NEW src, NEW o, Wired(cs, cur, q, a, src, o),
         NEW k \in Connection, NEW d, Fits(d, o), k = cur => InUse(d, a, src)
  PROVE  Wired([cs EXCEPT ![k] = d], cur, q, a, src, o)
  <1>1. d \in Link /\ cs \in [Connection -> Link]
    BY DEF Fits, Wired
  <1>. QED BY <1>1, BoundAssumption DEF Wired, Connection, NoConnection

\* The connection in use is given a request of the conversation.
LEMMA WiredSent ==
  ASSUME NEW cs, NEW cur, NEW q, NEW a, NEW src \in Source, NEW o, Wired(cs, cur, q, a, src, o),
         cur # NoConnection, NEW r, ForHere(r, a, src, o)
  PROVE  /\ Wired(Sent(cs, cur, r), cur, q, a, src, o)
         /\ Carries(Sent(cs, cur, r)[cur])
  <1>1. /\ cs \in [Connection -> Link] /\ cur \in Connection /\ Fits(cs[cur], o) /\ r \in Request
        /\ InUse(cs[cur], a, src) /\ r.source = src /\ cs[cur].home \in {o[r.text], NoConversation}
    <2>1. cur \in Connection
      BY BoundAssumption DEF Wired, Connection, NoConnection
    <2>. QED BY <2>1 DEF Wired, ForHere, InUse
  <1>2. PICK d \in Link : /\ Sent(cs, cur, r) = [cs EXCEPT ![cur] = d]
                          /\ Fits(d, o) /\ Carries(d) /\ InUse(d, a, src)
    BY <1>1, SentFits
  <1>3. Sent(cs, cur, r)[cur] = d
    BY <1>1, <1>2
  <1>4. Wired([cs EXCEPT ![cur] = d], cur, q, a, src, o)
    BY <1>1, <1>2, WiredExcept
  <1>. QED BY <1>2, <1>3, <1>4

\* A conversation is created, or a text written in the active one.
LEMMA WiredStays ==
  ASSUME NEW cs, NEW cur, NEW q, NEW a, NEW src, NEW o, Wired(cs, cur, q, a, src, o),
         NEW a2, a # NoConversation => a2 = a,
         NEW o2, \A t \in Text : o[t] # NoConversation => o2[t] = o[t]
  PROVE  Wired(cs, cur, q, a2, src, o2)
  <1>1. ASSUME NEW k \in Connection PROVE Fits(cs[k], o2)
    <2>1. Fits(cs[k], o) /\ cs[k] \in Link
      BY DEF Wired, Fits
    <2>2. cs[k].waiting # NoRequest => cs[k].waiting.text \in Text
      BY <2>1 DEF Link, Request
    <2>. QED BY <2>1, <2>2 DEF Fits
  <1>2. q # NoRequest => ForHere(q, a2, src, o2)
    <2>1. q # NoRequest => q.text \in Text
      BY DEF Wired, ForHere, Request
    <2>. QED BY <2>1 DEF Wired, ForHere
  <1>3. cur # NoConnection => InUse(cs[cur], a2, src)
    BY DEF Wired, InUse
  <1>. QED BY <1>1, <1>2, <1>3 DEF Wired

LEMMA GoneFits == ASSUME NEW o PROVE Gone \in Link /\ Fits(Gone, o) /\ Gone.closed
  <1>1. Gone \in Link
    BY BoundAssumption DEF Gone, Link, Phase, Idle, Work, NoConversation
  <1>. QED BY <1>1 DEF Gone, Fits, Idle

\* With forgets a closed connection with nothing more to say, which is not the one in use.
LEMMA WiredWith ==
  ASSUME NEW q, NEW a, NEW src, NEW o, Wired(conns, current, q, a, src, o),
         NEW k \in Connection, NEW d, Fits(d, o), k = current => InUse(d, a, src)
  PROVE  /\ Wired(With(k, d), current, q, a, src, o)
         /\ With(k, d) = [conns EXCEPT ![k] = d] \/ With(k, d) = [conns EXCEPT ![k] = Gone]
         /\ k = current => With(k, d) = [conns EXCEPT ![k] = d]
  <1>1. k = current => ~ d.closed
    BY DEF InUse
  <1>2. CASE d.closed /\ d.phase # "opening" /\ (d.work = Idle \/ d.phase = "failed")
    <2>1. With(k, d) = [conns EXCEPT ![k] = Gone] /\ k # current
      BY <1>1, <1>2 DEF With
    <2>2. Wired([conns EXCEPT ![k] = Gone], current, q, a, src, o)
      BY <2>1, GoneFits, WiredExcept
    <2>. QED BY <2>1, <2>2
  <1>3. CASE ~ (d.closed /\ d.phase # "opening" /\ (d.work = Idle \/ d.phase = "failed"))
    <2>1. With(k, d) = [conns EXCEPT ![k] = d]
      BY <1>3 DEF With
    <2>2. Wired([conns EXCEPT ![k] = d], current, q, a, src, o)
      BY WiredExcept
    <2>. QED BY <2>1, <2>2
  <1>. QED BY <1>2, <1>3

\* A connection is d instead of c: what it does about text t is now w.
Changed(c, d, t, w) ==
  /\ d \in Link /\ d.home = c.home /\ d.phase = c.phase /\ d.closed = c.closed
  /\ d.waiting = c.waiting
  /\ \A u \in Text : d.work[u] = IF u = t THEN w ELSE c.work[u]

LEMMA WorkIs ==
  ASSUME NEW c \in Link, NEW t \in Text, NEW w \in Work
  PROVE  LET d == [c EXCEPT !.work[t] = w]
         IN Changed(c, d, t, w) /\ d.lost = c.lost
  BY DEF Changed, Link

LEMMA DoneIs ==
  ASSUME NEW c \in Link, NEW t \in Text
  PROVE  Changed(c, Done(c, t), t, "no")
  BY DEF Changed, Link, Done, Work

\* An event of a connection changes what it does about text t to w.
LEMMA WorkChanges ==
  ASSUME NEW q, NEW a, NEW src, NEW o, Wired(conns, current, q, a, src, o),
         NEW k \in Connection, NEW t \in Text, conns[k].work[t] # "no",
         NEW w \in Work, w # "file, local", NEW d, Changed(conns[k], d, t, w)
  PROVE  /\ Wired([conns EXCEPT ![k] = d], current, q, a, src, o)
         /\ Wired(With(k, d), current, q, a, src, o)
  <1>1. Fits(conns[k], o) /\ conns[k] \in Link /\ (k = current => InUse(conns[k], a, src))
    <2>1. k # NoConnection
      BY Numbered
    <2>. QED BY <2>1 DEF Wired, Fits
  <1>2. conns[k].phase # "gone"
    <2>1. Gone.work[t] = "no"
      BY DEF Gone, Idle
    <2>. QED BY <1>1, <2>1 DEF Fits
  <1>3. Fits(d, o)
    BY <1>1, <1>2 DEF Fits, Changed
  <1>4. k = current => InUse(d, a, src)
    BY <1>1 DEF InUse, Changed
  <1>5. Wired([conns EXCEPT ![k] = d], current, q, a, src, o)
    BY <1>3, <1>4, WiredExcept
  <1>6. Wired(With(k, d), current, q, a, src, o)
    BY <1>3, <1>4, WiredWith
  <1>. QED BY <1>5, <1>6

\* createChatConnection.
LEMMA WiredCreated ==
  ASSUME NEW q, NEW src, NEW o, NEW a \in 0 .. Conversations, NEW r,
         Wired(conns, current, q, a, src, o), current = NoConnection,
         r # NoRequest => ForHere(r, a, src, o), Create, active = a
  PROVE  /\ Wired(conns', current', r, a, src, o)
         /\ current' \in Connection /\ conns'[current'].phase = "opening"
  <1>. DEFINE d == [home |-> a, phase |-> "opening", closed |-> FALSE,
                    waiting |-> NoRequest, work |-> Idle, lost |-> {}]
  <1>1. PICK k \in Connection : conns' = [conns EXCEPT ![k] = d] /\ current' = k
    BY DEF Create
  <1>2. d \in Link /\ d.home = a /\ d.phase = "opening" /\ ~ d.closed /\ d.waiting = NoRequest
        /\ \A t \in Text : d.work[t] = "no"
    BY DEF Link, Phase, Idle, Work
  <1>. HIDE DEF d
  <1>3. Fits(d, o) /\ InUse(d, a, src)
    BY <1>2 DEF Fits, InUse
  <1>. QED
    BY <1>1, <1>2, <1>3, BoundAssumption DEF Wired, Connection, NoConnection

-----------------------------------------------------------------------------
(* The invariant.                                                          *)

Types ==
  /\ redials \in 0 .. Redials /\ hasRag \in Browsers /\ wanted \in Source
  /\ answers \in Seq(Answer) /\ reply \in 0 .. Len(answers) /\ failed \subseteq Text
  /\ kind \in [Text -> {"plain", "document", "scan"}]
  /\ payload \in [Text -> {"plain", "document", "scan", "gone"}]
  /\ awaiting \in [Calls -> 0 .. Awaits] /\ indexing \subseteq Text
  /\ origin \in [Text -> 0 .. Conversations]
  /\ streaming \in BOOLEAN /\ disabled \in BOOLEAN /\ turn \in Text \cup {NoText}

Library == Archived(history, active, shown, origin, Len(answers), made)
Wiring == Wired(conns, current, queued, active, SourceOf(history, active, wanted), origin)

\* What was not saved is what an answer in the making has got since.
Stored ==
  /\ stored = [history |-> history, answers |-> stored.answers, failed |-> failed]
  /\ stored.answers \in Seq(Answer) /\ Len(stored.answers) = Len(answers)
  /\ \A m \in 1 .. Len(answers) :
       /\ stored.answers[m].done = answers[m].done
       /\ answers[m].done # NoText => stored.answers[m] = answers[m]
  /\ reply # NoAnswer => answers[reply].done = NoText

\* The message of the turn is on the screen.
TurnShown == turn # NoText => OnScreen(turn)

IInv == Types /\ Library /\ Wiring /\ Stored /\ TurnShown /\ StreamsForSomething

-----------------------------------------------------------------------------
(* What the steps have in common.                                          *)

\* ensureHistoryConversation returns the active conversation, or a new one.
LEMMA EnsuredIs ==
  ASSUME Library, wanted \in Source
  PROVE  LET src == SourceOf(history, active, wanted)
             id == IF active = NoConversation THEN made + 1 ELSE active
         IN /\ src \in Source /\ Ensured.source = src /\ Ensured.id = id
            /\ \A s : [Ensured EXCEPT !.messages = s] = [id |-> id, source |-> src, messages |-> s]
            /\ active \in Ids(history) <=> active # NoConversation
  <1>1. active \in Ids(history) <=> active # NoConversation
    BY NobodyIsZero DEF Library
  <1>2. CASE active \in Ids(history)
    <2>1. history \in Seq(Conversation) /\ Apart(history)
      BY DEF Library, Archived
    <2>2. Find(history, active) \in Range(history) /\ Find(history, active).id = active
      BY <1>2, <2>1, Found
    <2>3. Find(history, active) \in Conversation
      BY <2>1, <2>2, RangeOfSeq
    <2>4. Ensured = Find(history, active) /\ SourceOf(history, active, wanted) = Find(history, active).source
      BY <1>2 DEF Ensured, SourceOf
    <2>. HIDE DEF Conversation
    <2>5. \A c \in Conversation : /\ c.source \in Source
                                  /\ \A s : [c EXCEPT !.messages = s] = [id |-> c.id, source |-> c.source, messages |-> s]
      BY DEF Conversation
    <2>. QED BY <1>1, <1>2, <2>2, <2>3, <2>4, <2>5
  <1>3. CASE active \notin Ids(history)
    BY <1>1, <1>3 DEF Ensured, Created, SourceOf
  <1>. QED BY <1>2, <1>3

\* The answers and the failures may change when the history is written, and what is on
\* the screen: it remains to see that all of it is of the active conversation.
Rewritten ==
  /\ wanted' = wanted
  /\ shown' \in Seq(Message)
  /\ answers' \in Seq(Answer) /\ Len(answers) <= Len(answers')
  /\ failed' \subseteq Text
  /\ origin' \in [Text -> 0 .. Conversations]
  /\ \A t \in Text : origin[t] # NoConversation => origin'[t] = origin[t]
  /\ \A x \in Range(shown') : FromHere(x, active', origin', Len(answers'))
  /\ reply' # NoAnswer => reply' \in 1 .. Len(answers') /\ answers'[reply'].done = NoText

Stays ==
  /\ Library' /\ Stored'
  /\ SourceOf(history, active, wanted)' = SourceOf(history, active, wanted)
  /\ active' \in 1 .. made' /\ made' <= Conversations
  /\ active # NoConversation => active' = active

LEMMA WriteStays ==
  ASSUME IInv, Rewritten,
         LET id == IF active = NoConversation THEN made + 1 ELSE active
         IN /\ active' = id
            /\ made' = IF active = NoConversation THEN made + 1 ELSE made
            /\ made' <= Conversations
            /\ history' = Upsert(history, [id |-> id, source |-> SourceOf(history, active, wanted),
                                           messages |-> shown']),
         Saved
  PROVE  Stays
  <1>. DEFINE src == SourceOf(history, active, wanted)
              c == [id |-> active', source |-> src, messages |-> shown']
  <1>1. /\ Archived(history, active, shown, origin, Len(answers), made)
        /\ src \in Source /\ Len(answers) \in Nat /\ Len(answers') \in Nat
        /\ Len(answers) <= Len(answers') /\ made \in 0 .. Conversations /\ active \in 0 .. made
    BY EnsuredIs DEF IInv, Types, Library, Archived, Rewritten
  <1>2. made' \in 0 .. Conversations /\ active' \in 1 .. made'
    BY <1>1, BoundAssumption DEF NoConversation
  <1>3. history' = Upsert(history, c)
    OBVIOUS
  <1>. HIDE DEF src
  <1>4. Archived(Upsert(history, c), active', shown', origin', Len(answers'), made')
        /\ \A w : SourceOf(Upsert(history, c), active', w) = src
    BY <1>1, <1>2, Written DEF Rewritten
  <1>5. Library'
    BY <1>3, <1>4 DEF Library
  <1>6. SourceOf(history', active', wanted') = src
    BY <1>3, <1>4
  <1>7. Stored'
    <2>1. stored' = [history |-> history', answers |-> answers', failed |-> failed']
      BY DEF Saved
    <2>. QED BY <2>1 DEF Stored, Rewritten
  <1>. QED BY <1>1, <1>2, <1>5, <1>6, <1>7 DEF Stays, src

LEMMA PersistStays ==
  ASSUME IInv, Persist, Rewritten
  PROVE  Stays
  <1>1. Library /\ wanted \in Source
    BY DEF IInv, Types
  <1>. QED
    BY <1>1, EnsuredIs, WriteStays DEF Persist

LEMMA EnsureStays ==
  ASSUME IInv, Ensure,
         UNCHANGED <<wanted, shown, answers, failed, origin>>, reply' \in {reply, NoAnswer}
  PROVE  /\ Library' /\ Stored'
         /\ SourceOf(history, active, wanted)' = SourceOf(history, active, wanted)
         /\ active # NoConversation => active' = active
  <1>1. active \in Ids(history) <=> active # NoConversation
    BY EnsuredIs DEF IInv, Types
  <1>2. CASE active \in Ids(history)
    <2>1. UNCHANGED <<active, made, history, stored>>
      BY <1>2 DEF Ensure
    <2>. QED BY <2>1 DEF IInv, Library, Stored
  <1>3. CASE active \notin Ids(history)
    <2>1. shown = <<>>
      BY <1>1, <1>3 DEF IInv, Library, Archived
    <2>2. Created = [id |-> made + 1, source |-> SourceOf(history, active, wanted), messages |-> shown']
      BY <1>3, <2>1 DEF Created, SourceOf
    <2>3. Rewritten
      <3>1. Range(shown') = {}
        BY <2>1 DEF Range
      <3>2. shown' \in Seq(Message)
        BY <2>1
      <3>3. reply' # NoAnswer => reply' \in 1 .. Len(answers') /\ answers'[reply'].done = NoText
        BY DEF IInv, Types, Stored, NoAnswer
      <3>. QED BY <3>1, <3>2, <3>3 DEF Rewritten, IInv, Types
    <2>4. Stays
      BY <1>1, <1>3, <2>2, <2>3, WriteStays DEF Ensure
    <2>. QED BY <2>4 DEF Stays
  <1>. QED BY <1>2, <1>3

\* A connection left as it was still serves the active conversation.
LEMMA WiringStays ==
  ASSUME IInv, NEW cs, NEW cur,
         Wired(cs, cur, queued, active, SourceOf(history, active, wanted), origin),
         SourceOf(history, active, wanted)' = SourceOf(history, active, wanted),
         active # NoConversation => active' = active,
         \A t \in Text : origin[t] # NoConversation => origin'[t] = origin[t],
         conns' = cs, current' = cur, queued' \in {queued, NoRequest}
  PROVE  Wiring'
  <1>. DEFINE src == SourceOf(history, active, wanted)
  <1>1. Wired(cs, cur, queued', active, src, origin)
    BY DEF Wired
  <1>. HIDE DEF src
  <1>2. Wired(cs, cur, queued', active', src, origin')
    BY <1>1, WiredStays
  <1>. QED BY <1>2 DEF Wiring, src

-----------------------------------------------------------------------------
(* Turns.                                                                  *)

\* dispatchMessage leaves a call that will resume.
LEMMA DispatchStep ==
  ASSUME IInv, NEW t \in Text, NEW p, Dispatch(t, p), OnScreen(t)',
         UNCHANGED <<current, redials, hasRag, wanted, queued, answers>>,
         Wired(conns', current, queued, active, SourceOf(history, active, wanted), origin),
         shown' \in Seq(Message), origin' \in [Text -> 0 .. Conversations],
         \A u \in Text : origin[u] # NoConversation => origin'[u] = origin[u],
         \A x \in Range(shown') : FromHere(x, active', origin', Len(answers)),
         kind' \in [Text -> {"plain", "document", "scan"}],
         payload' \in [Text -> {"plain", "document", "scan", "gone"}],
         indexing' \subseteq Text
  PROVE  IInv'
  <1>1. /\ Call(t, p) \in Calls /\ Call(t, p).text = t
        /\ awaiting \in [Calls -> 0 .. Awaits] /\ Awaits \in Nat
    BY BoundAssumption DEF Call, Calls, IInv, Types
  <1>2. awaiting' \in [Calls -> 0 .. Awaits] /\ awaiting'[Call(t, p)] > 0
    BY <1>1 DEF Dispatch
  <1>3. Rewritten
    BY DEF Rewritten, Dispatch, IInv, Types
  <1>4. Stays
    BY <1>3, PersistStays DEF Dispatch
  <1>5. Wiring'
    BY <1>4, WiringStays DEF Stays
  <1>6. Types'
    BY <1>2, <1>3 DEF Types, IInv, Rewritten, Dispatch, NoAnswer
  <1>7. TurnShown'
    BY DEF TurnShown, Dispatch
  <1>8. StreamsForSomething'
    BY <1>1, <1>2, TextAssumption DEF StreamsForSomething, Dispatch
  <1>. QED BY <1>4, <1>5, <1>6, <1>7, <1>8 DEF IInv, Stays

\* Whoever is on the screen without a conversation?  Nobody.
LEMMA ScreenIsHome ==
  ASSUME IInv
  PROVE  /\ shown \in Seq(Message)
         /\ \A x \in Range(shown) : FromHere(x, active, origin, Len(answers)) /\ active # NoConversation
  <1>1. active = NoConversation => Range(shown) = {}
    BY DEF IInv, Library, Archived, Range
  <1>. QED BY <1>1 DEF IInv, Library, Archived

LEMMA AppendShows ==
  ASSUME NEW T, NEW s \in Seq(T), NEW x \in T
  PROVE  Append(s, x) \in Seq(T) /\ Range(Append(s, x)) = Range(s) \cup {x}
  <1>1. /\ Append(s, x) \in Seq(T) /\ Len(Append(s, x)) = Len(s) + 1
        /\ \A i \in 1 .. Len(s) : Append(s, x)[i] = s[i]
        /\ Append(s, x)[Len(s) + 1] = x
    BY AppendProperties
  <1>2. Range(s) = {s[i] : i \in 1 .. Len(s)}
    BY RangeEquality
  <1>3. Range(Append(s, x)) = {Append(s, x)[i] : i \in 1 .. Len(s) + 1}
    BY <1>1, RangeEquality
  <1>4. Len(s) \in Nat /\ \A i : i \in 1 .. Len(s) + 1 <=> i \in 1 .. Len(s) \/ i = Len(s) + 1
    OBVIOUS
  <1>. QED BY <1>1, <1>2, <1>3, <1>4

LEMMA SubmitStep ==
  ASSUME IInv, NEW t \in Text, NEW k \in Kinds[t], Submit(t, k)
  PROVE  IInv'
  <1>1. shown \in Seq(Message) /\ t \in Message
    BY ScreenIsHome DEF Message
  <1>2. shown' \in Seq(Message) /\ Range(shown') = Range(shown) \cup {t}
    BY <1>1, AppendShows DEF Submit
  <1>3. OnScreen(t)'
    BY <1>2 DEF OnScreen
  <1>4. Persist /\ Dispatch(t, k)
    BY DEF Submit, Dispatch
  <1>5. active' = (IF active = NoConversation THEN made + 1 ELSE active) /\ active' \in 1 .. Conversations
    <2>1. Library /\ wanted \in Source
      BY DEF IInv, Types
    <2>2. active' = Ensured.id /\ made' = (IF active \in Ids(history) THEN made ELSE made + 1) /\ made' <= Conversations
      BY <1>4 DEF Persist
    <2>3. made \in 0 .. Conversations /\ active \in 0 .. made
      BY DEF IInv, Library, Archived
    <2>. QED BY <2>1, <2>2, <2>3, EnsuredIs, BoundAssumption DEF NoConversation
  <1>6. /\ origin' = [origin EXCEPT ![t] = active'] /\ origin[t] = NoConversation
        /\ origin \in [Text -> 0 .. Conversations]
    BY DEF Submit, IInv, Types
  <1>7. \A u \in Text : origin[u] # NoConversation => origin'[u] = origin[u]
    BY <1>6
  <1>8. ASSUME NEW x \in Range(shown') PROVE FromHere(x, active', origin', Len(answers))
    <2>1. CASE x = t
      BY <2>1, <1>6 DEF FromHere
    <2>2. CASE x # t
      <3>1. FromHere(x, active, origin, Len(answers)) /\ active # NoConversation
        BY <2>2, <1>2, ScreenIsHome
      <3>. QED BY <3>1, <2>2, <1>5, <1>6 DEF FromHere
    <2>. QED BY <2>1, <2>2
  <1>9. origin' \in [Text -> 0 .. Conversations]
    BY <1>5, <1>6
  <1>10. /\ kind' \in [Text -> {"plain", "document", "scan"}]
         /\ payload' \in [Text -> {"plain", "document", "scan", "gone"}]
    BY KindsAssumption DEF Submit, IInv, Types
  <1>11. UNCHANGED <<network, hasRag, wanted, queued, answers, indexing>>
    BY DEF Submit
  <1>. QED
    BY <1>2, <1>3, <1>4, <1>7, <1>8, <1>9, <1>10, <1>11, DispatchStep
       DEF IInv, Types, Wiring, network

\* retryMessage takes answers off the screen, never a message of the user.
LEMMA RetryStep ==
  ASSUME IInv, NEW t \in Text, Retry(t)
  PROVE  IInv'
  <1>1. /\ shown \in Seq(Message) /\ OnScreen(t) /\ active # NoConversation
        /\ \A x \in Range(shown) : FromHere(x, active, origin, Len(answers))
    BY ScreenIsHome DEF Retry, OnScreen
  <1>2. t \notin Incomplete(t)
    <2>. DEFINE at == CHOOSE i \in DOMAIN shown : shown[i] = t
                after == {i \in at + 1 .. Len(shown) : \A j \in at + 1 .. i : IsAnswer(shown[j])}
    <2>1. \E i \in DOMAIN shown : shown[i] = t
      BY <1>1 DEF OnScreen, Range
    <2>2. at \in 1 .. Len(shown)
      BY <1>1, <2>1
    <2>. HIDE DEF at
    <2>3. \A i \in after : shown[i] # t
      BY <2>2 DEF IsAnswer
    <2>4. reply # t
      BY TextAssumption DEF IInv, Types
    <2>. HIDE DEF after
    <2>5. Incomplete(t) = {m \in {shown[i] : i \in after} : answers[m].done = NoText} \cup {reply}
      BY DEF Incomplete, after, at
    <2>. QED BY <2>3, <2>4, <2>5
  <1>3. shown' \in Seq(Message) /\ Range(shown') = Range(shown) \cap (Range(shown) \ Incomplete(t))
    <2>1. shown' = Only(shown, Range(shown) \ Incomplete(t))
      BY DEF Retry
    <2>. QED BY <1>1, <2>1, OnlyKeeps
  <1>4. OnScreen(t)'
    BY <1>1, <1>2, <1>3 DEF OnScreen
  <1>5. Dispatch(t, payload'[t]) /\ UNCHANGED <<network, hasRag, wanted, queued, answers, kind, indexing, origin>>
    BY DEF Retry
  <1>6. active' = active
    <2>1. Library /\ wanted \in Source
      BY DEF IInv, Types
    <2>. QED BY <1>1, <1>5, <2>1, EnsuredIs DEF Dispatch, Persist
  <1>7. \A x \in Range(shown') : FromHere(x, active', origin', Len(answers))
    BY <1>1, <1>3, <1>5, <1>6
  <1>8. payload' \in [Text -> {"plain", "document", "scan", "gone"}]
    BY DEF Retry, IInv, Types
  <1>. QED
    BY <1>3, <1>4, <1>5, <1>7, <1>8, DispatchStep DEF IInv, Types, Wiring, network

\* What a step leaves alone when it starts a dispatch of a message on the screen.
LEMMA AgainStep ==
  ASSUME IInv, NEW t \in Text, OnScreen(t), Dispatch(t, "plain"),
         UNCHANGED <<current, redials, hasRag, wanted, shown, queued, answers, kind, origin>>,
         Wired(conns', current, queued, active, SourceOf(history, active, wanted), origin),
         payload' \in [Text -> {"plain", "document", "scan", "gone"}], indexing' \subseteq Text
  PROVE  IInv'
  <1>1. /\ shown \in Seq(Message) /\ active # NoConversation
        /\ \A x \in Range(shown) : FromHere(x, active, origin, Len(answers))
    BY ScreenIsHome DEF OnScreen
  <1>2. active' = active
    <2>1. Library /\ wanted \in Source
      BY DEF IInv, Types
    <2>. QED BY <1>1, <2>1, EnsuredIs DEF Dispatch, Persist
  <1>3. OnScreen(t)'
    BY DEF OnScreen
  <1>. QED
    BY <1>1, <1>2, <1>3, DispatchStep DEF IInv, Types

LEMMA IndexedStep ==
  ASSUME IInv, NEW t \in Text, Indexed(t)
  PROVE  IInv'
  <1>1. /\ payload' \in [Text -> {"plain", "document", "scan", "gone"}]
        /\ indexing' = indexing \ {t} /\ indexing' \subseteq Text
        /\ UNCHANGED <<network, hasRag, wanted, shown, queued, answers, kind, origin>>
    BY DEF Indexed, IInv, Types
  <1>2. CASE OnScreen(t)
    <2>1. Dispatch(t, "plain")
      BY <1>2 DEF Indexed
    <2>. QED BY <1>1, <1>2, <2>1, AgainStep DEF IInv, Wiring, network
  <1>3. CASE ~ OnScreen(t)
    <2>1. UNCHANGED <<active, streaming, disabled, turn, reply, made, history, failed, stored, awaiting>>
      BY <1>3 DEF Indexed
    <2>2. streaming => turn # t
      BY <1>3 DEF IInv, TurnShown, StreamsForSomething
    <2>3. Types' /\ Library' /\ Stored' /\ TurnShown'
      BY <1>1, <2>1 DEF IInv, Types, Library, Stored, TurnShown, OnScreen, network
    <2>4. Wiring'
      BY <1>1, <2>1 DEF IInv, Wiring, network
    <2>5. StreamsForSomething'
      BY <1>1, <2>1, <2>2 DEF IInv, StreamsForSomething, network
    <2>. QED BY <2>3, <2>4, <2>5 DEF IInv
  <1>. QED BY <1>2, <1>3

\* A turn ends, and all is saved.
LEMMA EndStep ==
  ASSUME IInv, Rewritten, Persist, EndTurn, UNCHANGED <<current, redials, hasRag, origin>>,
         Wired(conns', current, queued, active, SourceOf(history, active, wanted), origin),
         queued' \in {queued, NoRequest}, reply' \in {reply, NoAnswer},
         kind' \in [Text -> {"plain", "document", "scan"}],
         payload' \in [Text -> {"plain", "document", "scan", "gone"}],
         awaiting' \in [Calls -> 0 .. Awaits], indexing' \subseteq Text
  PROVE  IInv'
  <1>1. Stays
    BY PersistStays
  <1>2. Wiring'
    BY <1>1, WiringStays DEF Stays
  <1>3. /\ reply' \in 0 .. Len(answers') /\ turn' \in Text \cup {NoText}
        /\ streaming' \in BOOLEAN /\ disabled' \in BOOLEAN
    <2>1. Len(answers') \in Nat
      BY DEF Rewritten
    <2>2. reply' \in 1 .. Len(answers') \/ reply' = 0
      BY DEF Rewritten, NoAnswer
    <2>3. turn' \in Text \cup {NoText} /\ streaming' \in BOOLEAN /\ disabled' \in BOOLEAN
      BY DEF EndTurn
    <2>4. reply' \in 0 .. Len(answers')
      BY <2>1, <2>2
    <2>. QED BY <2>3, <2>4
  <1>4. Types'
    BY <1>3 DEF Types, IInv, Rewritten
  <1>5. TurnShown' /\ StreamsForSomething'
    BY DEF TurnShown, StreamsForSomething, EndTurn
  <1>. QED BY <1>1, <1>2, <1>4, <1>5 DEF IInv, Stays

\* The screen as it was is of the active conversation also if there was none.
LEMMA SameScreen ==
  ASSUME IInv, Persist, UNCHANGED <<shown, origin>>, Len(answers') = Len(answers)
  PROVE  \A x \in Range(shown') : FromHere(x, active', origin', Len(answers'))
  <1>1. Library /\ wanted \in Source
    BY DEF IInv, Types
  <1>. QED BY <1>1, ScreenIsHome, EnsuredIs DEF Persist

LEMMA FailStep ==
  ASSUME IInv, FailTurn, UNCHANGED <<current, redials, hasRag, wanted, reply, origin>>,
         Wired(conns', current, queued, active, SourceOf(history, active, wanted), origin),
         queued' \in {queued, NoRequest},
         kind' \in [Text -> {"plain", "document", "scan"}],
         payload' \in [Text -> {"plain", "document", "scan", "gone"}],
         awaiting' \in [Calls -> 0 .. Awaits], indexing' \subseteq Text
  PROVE  IInv'
  <1>1. /\ Persist /\ EndTurn /\ UNCHANGED <<shown, answers>>
        /\ failed' = failed \cup ({turn} \cap Range(shown))
    BY DEF FailTurn
  <1>2. failed' \subseteq Text
    <2>1. Range(shown) \subseteq Message
      BY ScreenIsHome, RangeOfSeq
    <2>2. NoText \notin Message
      BY TextAssumption DEF Message
    <2>. QED BY <1>1, <2>1, <2>2 DEF IInv, Types
  <1>3. Rewritten
    <2>1. \A x \in Range(shown') : FromHere(x, active', origin', Len(answers'))
      BY <1>1, SameScreen
    <2>2. reply' # NoAnswer => reply' \in 1 .. Len(answers') /\ answers'[reply'].done = NoText
      BY <1>1 DEF IInv, Types, Stored, NoAnswer
    <2>3. shown' \in Seq(Message)
      BY <1>1, ScreenIsHome
    <2>. QED BY <1>1, <1>2, <2>1, <2>2, <2>3 DEF Rewritten, IInv, Types
  <1>. QED BY <1>1, <1>3, EndStep

LEMMA IndexFailsStep ==
  ASSUME IInv, NEW t \in Text, IndexFails(t)
  PROVE  IInv'
  <1>1. Wired(conns', current, queued, active, SourceOf(history, active, wanted), origin)
    BY DEF IInv, Wiring, IndexFails, network
  <1>. QED BY <1>1, FailStep DEF IndexFails, IInv, Types, network

LEMMA ErrorStep ==
  ASSUME IInv, NEW k \in Connection, NEW t \in Text, Error(k, t)
  PROVE  IInv'
  <1>1. Wired(conns, current, queued, active, SourceOf(history, active, wanted), origin)
    BY DEF IInv, Wiring
  <1>2. conns[k].work[t] # "no" /\ Changed(conns[k], Done(conns[k], t), t, "no") /\ "no" \in Work
    BY <1>1, DoneIs DEF Error, Work, Wired
  <1>3. conns' = With(k, Done(conns[k], t))
    BY DEF Error
  <1>4. Wired(conns', current, queued, active, SourceOf(history, active, wanted), origin)
    BY <1>1, <1>2, <1>3, WorkChanges
  <1>. QED BY <1>4, FailStep DEF Error, IInv, Types

LEMMA OpeningFailsStep ==
  ASSUME IInv, NEW k \in Connection, OpeningFails(k)
  PROVE  IInv'
  <1>. DEFINE d == [conns[k] EXCEPT !.phase = "failed"]
              src == SourceOf(history, active, wanted)
  <1>1. Wired(conns, current, queued, active, src, origin)
    BY DEF IInv, Wiring
  <1>2. /\ Fits(conns[k], origin) /\ conns[k] \in Link
        /\ k = current => InUse(conns[k], active, src)
    BY <1>1, Numbered DEF Wired
  <1>3. /\ d \in Link /\ d.home = conns[k].home /\ d.phase = "failed" /\ d.closed = conns[k].closed
        /\ d.waiting = conns[k].waiting /\ d.work = conns[k].work
    BY <1>2 DEF Link, Phase
  <1>4. conns' = With(k, d)
    BY DEF OpeningFails
  <1>. HIDE DEF d, src
  <1>5. Fits(d, origin) /\ (k = current => InUse(d, active, src))
    BY <1>2, <1>3 DEF Fits, InUse
  <1>6. /\ Wired(conns', current, queued, active, src, origin)
        /\ conns' = [conns EXCEPT ![k] = d] \/ conns' = [conns EXCEPT ![k] = Gone]
    BY <1>1, <1>4, <1>5, WiredWith
  <1>7. CASE conns[k].closed /\ UNCHANGED <<screen, kept>>
    <2>1. k # current /\ (current # NoConnection => current \in Connection)
      BY <1>1, <1>7, Numbered DEF Wired, InUse
    <2>2. current # NoConnection => conns'[current] = conns[current]
      BY <1>1, <1>6, <2>1 DEF Wired
    <2>3. UNCHANGED <<current, redials, kind, payload, awaiting, indexing, origin>>
      BY DEF OpeningFails
    <2>4. Types' /\ Library' /\ Stored' /\ TurnShown'
      BY <1>7, <2>3 DEF IInv, Types, Library, Stored, TurnShown, OnScreen, screen, kept
    <2>5. Wiring'
      BY <1>6, <1>7, <2>3 DEF Wiring, screen, kept, src
    <2>6. StreamsForSomething'
      BY <1>7, <2>2, <2>3 DEF IInv, StreamsForSomething, screen
    <2>. QED BY <2>4, <2>5, <2>6 DEF IInv
  <1>8. CASE queued' = NoRequest /\ FailTurn /\ UNCHANGED <<hasRag, wanted, reply>>
    <2>1. UNCHANGED <<current, redials, kind, payload, awaiting, indexing, origin>>
      BY DEF OpeningFails
    <2>. QED BY <1>6, <1>8, <2>1, FailStep DEF IInv, Types, src
  <1>. QED BY <1>7, <1>8 DEF OpeningFails

\* The answer of the turn is completed, or the last one on the screen.
LEMMA CompleteStep ==
  ASSUME IInv, NEW k \in Connection, NEW t \in Text, Complete(k, t)
  PROVE  IInv'
  <1>1. Wired(conns, current, queued, active, SourceOf(history, active, wanted), origin)
    BY DEF IInv, Wiring
  <1>2. conns[k].work[t] # "no" /\ Changed(conns[k], Done(conns[k], t), t, "no") /\ "no" \in Work
    BY <1>1, DoneIs DEF Complete, Work, Wired
  <1>3. conns' = With(k, Done(conns[k], t))
    BY DEF Complete
  <1>4. Wired(conns', current, queued, active, SourceOf(history, active, wanted), origin)
    BY <1>1, <1>2, <1>3, WorkChanges
  <1>5. answers' \in Seq(Answer) /\ Len(answers') = Len(answers)
    <2>1. answers \in Seq(Answer) /\ DOMAIN answers = 1 .. Len(answers) /\ Len(answers) \in Nat
      BY DEF IInv, Types
    <2>2. \A a \in 1 .. Len(answers) : [answers[a] EXCEPT !.done = t] \in Answer
      <3>. SUFFICES ASSUME NEW a \in 1 .. Len(answers) PROVE [answers[a] EXCEPT !.done = t] \in Answer
        OBVIOUS
      <3>1. answers[a] \in Answer
        <4>. HIDE DEF Answer
        <4>. QED BY <2>1
      <3>. QED BY <3>1 DEF Answer
    <2>3. answers' = [a \in 1 .. Len(answers) |->
                        IF a \in Completed_ THEN [answers[a] EXCEPT !.done = t] ELSE answers[a]]
      BY <2>1 DEF Complete
    <2>. HIDE DEF Answer
    <2>4. answers' \in [1 .. Len(answers) -> Answer]
      BY <2>1, <2>2, <2>3
    <2>. QED BY <2>1, <2>4
  <1>6. Persist /\ EndTurn /\ UNCHANGED <<shown, failed, origin, wanted>> /\ reply' = NoAnswer
    BY DEF Complete
  <1>7. Rewritten
    <2>1. \A x \in Range(shown') : FromHere(x, active', origin', Len(answers'))
      BY <1>5, <1>6, SameScreen
    <2>2. shown' \in Seq(Message)
      BY <1>6, ScreenIsHome
    <2>. QED BY <1>5, <1>6, <2>1, <2>2 DEF Rewritten, IInv, Types
  <1>8. payload' \in [Text -> {"plain", "document", "scan", "gone"}]
    BY DEF Complete, IInv, Types
  <1>. QED BY <1>4, <1>6, <1>7, <1>8, EndStep DEF Complete, IInv, Types

-----------------------------------------------------------------------------
(* Requests that leave.                                                    *)

\* Nothing the view shows or keeps changes.
LEMMA SameView ==
  ASSUME IInv,
         UNCHANGED <<active, hasRag, wanted, shown, streaming, disabled, turn, reply, kept, kind,
                     payload, indexing, origin>>,
         redials' \in 0 .. Redials, awaiting' \in [Calls -> 0 .. Awaits]
  PROVE  Types' /\ Library' /\ Stored' /\ TurnShown'
  BY DEF IInv, Types, Library, Stored, TurnShown, OnScreen, kept

LEMMA CarriesOn ==
  ASSUME current' # NoConnection, Carries(conns'[current']), streaming' <=> turn' # NoText,
         streaming' => disabled'
  PROVE  StreamsForSomething'
  BY DEF Carries, StreamsForSomething

\* dispatchMessage resumes: a turn still on is on the screen, so of the active
\* conversation.
LEMMA ResumeStep ==
  ASSUME IInv, NEW c \in Calls, Resume(c)
  PROVE  IInv'
  <1>. DEFINE r == [text |-> c.text, file |-> c.file, source |-> Ensured.source]
              src == SourceOf(history, active, wanted)
  <1>1. awaiting' = [awaiting EXCEPT ![c] = @ - 1] /\ awaiting[c] > 0
    BY DEF Resume
  <1>2. awaiting' \in [Calls -> 0 .. Awaits]
    <2>1. awaiting \in [Calls -> 0 .. Awaits] /\ Awaits \in Nat
      BY BoundAssumption DEF IInv, Types
    <2>. QED BY <1>1, <2>1
  <1>3. /\ UNCHANGED <<redials, active, hasRag, wanted, shown, streaming, disabled, turn, reply,
                       kept, kind, payload, indexing, origin>>
        /\ UNCHANGED <<history, made>>
    BY DEF Resume, kept
  <1>4. Types' /\ Library' /\ Stored' /\ TurnShown'
    BY <1>2, <1>3, SameView DEF IInv, Types
  <1>5. /\ Wired(conns, current, queued, active, src, origin)
        /\ src \in Source /\ Ensured.source = src /\ active \in 0 .. Conversations
        /\ streaming <=> turn # NoText
        /\ streaming => disabled
    BY EnsuredIs, BoundAssumption DEF IInv, Wiring, Types, Library, Archived, StreamsForSomething
  <1>6. ASSUME Wired(conns', current', queued', active, src, origin) PROVE Wiring'
    BY <1>3, <1>6 DEF Wiring
  <1>7. CASE streaming /\ turn = c.text
    <2>1. ForHere(r, active, src, origin)
      <3>1. c.text \in Text /\ c.file \in BOOLEAN
        BY DEF Calls
      <3>2. FromHere(c.text, active, origin, Len(answers)) /\ active # NoConversation
        BY <1>5, <1>7, ScreenIsHome DEF IInv, TurnShown, OnScreen
      <3>. QED BY <1>5, <3>1, <3>2 DEF ForHere, FromHere, Request
    <2>2. r # NoRequest
      BY <2>1, TextAssumption DEF ForHere, Request, NoRequest
    <2>3. CASE current = NoConnection
      <3>1. queued' = r /\ Create
        BY <1>7, <2>3 DEF Resume
      <3>. HIDE DEF r, src
      <3>2. Wired(conns', current', r, active, src, origin) /\ current' \in Connection /\ conns'[current'].phase = "opening"
        BY <1>5, <2>1, <2>3, <3>1, WiredCreated
      <3>3. StreamsForSomething'
        BY <1>3, <1>5, <2>2, <3>1, <3>2, Numbered DEF StreamsForSomething
      <3>. QED BY <1>4, <1>6, <3>1, <3>2, <3>3 DEF IInv
    <2>4. CASE current # NoConnection
      <3>1. conns' = Sent(conns, current, r) /\ UNCHANGED <<current, queued>>
        BY <1>7, <2>4 DEF Resume
      <3>. HIDE DEF r, src
      <3>2. Wired(conns', current, queued, active, src, origin) /\ Carries(conns'[current])
        BY <1>5, <2>1, <2>4, <3>1, WiredSent
      <3>3. StreamsForSomething'
        BY <1>3, <1>5, <2>4, <3>1, <3>2, CarriesOn
      <3>. QED BY <1>4, <1>6, <3>1, <3>2, <3>3 DEF IInv
    <2>. QED BY <2>3, <2>4
  <1>8. CASE ~ (streaming /\ turn = c.text)
    <2>1. UNCHANGED <<conns, current, queued>>
      BY <1>8 DEF Resume
    <2>2. \A d \in Calls : d # c => awaiting'[d] = awaiting[d]
      BY <1>1 DEF IInv, Types
    <2>3. StreamsForSomething'
      BY <1>3, <1>8, <2>1, <2>2 DEF IInv, StreamsForSomething
    <2>. QED BY <1>4, <1>5, <1>6, <2>1, <2>3 DEF IInv
  <1>. QED BY <1>7, <1>8

\* The reconnect button: what lies queued stays queued.
LEMMA ReconnectStep ==
  ASSUME IInv, ReconnectButton
  PROVE  IInv'
  <1>. DEFINE src == SourceOf(history, active, wanted)
  <1>1. UNCHANGED <<screen, kept, kind, payload, awaiting, indexing, origin>> /\ redials < Redials /\ redials' = redials + 1
    BY DEF ReconnectButton
  <1>2. UNCHANGED <<active, hasRag, wanted, shown, streaming, disabled, turn, reply, queued, history>>
    BY <1>1 DEF screen, kept
  <1>3. Types' /\ Library' /\ Stored' /\ TurnShown'
    <2>1. redials' \in 0 .. Redials /\ awaiting' \in [Calls -> 0 .. Awaits]
      BY <1>1, BoundAssumption DEF IInv, Types
    <2>. QED BY <1>1, <1>2, <2>1, SameView
  <1>4. Wired(conns, current, queued, active, src, origin) /\ active \in 0 .. Conversations
    BY BoundAssumption DEF IInv, Wiring, Library, Archived
  <1>5. ASSUME Wired(conns', current', queued, active, src, origin) PROVE Wiring'
    BY <1>1, <1>2, <1>5 DEF Wiring
  <1>6. CASE current = NoConnection /\ Create
    <2>. HIDE DEF src
    <2>1. Wired(conns', current', queued, active, src, origin)
      BY <1>4, <1>6, WiredCreated DEF Wired
    <2>2. StreamsForSomething'
      BY <1>1, <1>2, <1>6 DEF IInv, StreamsForSomething
    <2>. QED BY <1>3, <1>5, <2>1, <2>2 DEF IInv
  <1>7. CASE current # NoConnection /\ conns[current].phase = "failed" /\ conns' = [conns EXCEPT ![current].phase = "opening"] /\ UNCHANGED current
    <2>. HIDE DEF src
    <2>1. current \in Connection /\ Fits(conns[current], origin) /\ conns[current] \in Link /\ InUse(conns[current], active, src)
      BY <1>4, <1>7, Numbered DEF Wired
    <2>2. PICK d : d = [conns[current] EXCEPT !.phase = "opening"]
      OBVIOUS
    <2>3. /\ d \in Link /\ d.home = conns[current].home /\ d.phase = "opening" /\ d.closed = conns[current].closed
          /\ d.waiting = conns[current].waiting /\ d.work = conns[current].work
          /\ d.lost = conns[current].lost
      BY <2>1, <2>2 DEF Link, Phase
    <2>4. Fits(d, origin) /\ InUse(d, active, src)
      BY <2>1, <2>3 DEF Fits, InUse
    <2>5. conns' = [conns EXCEPT ![current] = d]
      BY <1>7, <2>2
    <2>6. Wired(conns', current', queued, active, src, origin)
      <3>1. Wired([conns EXCEPT ![current] = d], current, queued, active, src, origin)
        BY <1>4, <2>1, <2>4, WiredExcept
      <3>. QED BY <1>7, <2>5, <3>1
    <2>7. conns'[current] = d
      BY <1>4, <2>1, <2>5 DEF Wired
    <2>8. StreamsForSomething'
      BY <1>1, <1>2, <1>7, <2>3, <2>7 DEF IInv, StreamsForSomething
    <2>. QED BY <1>3, <1>5, <2>6, <2>8 DEF IInv
  <1>. QED BY <1>6, <1>7 DEF ReconnectButton

-----------------------------------------------------------------------------
(* Switches.                                                               *)

\* A conversation left takes nothing along: its connection, closed, goes on for it.
LEMMA LeftWired ==
  ASSUME IInv, Leave, origin' = origin, NEW a, NEW src
  PROVE  Wired(conns', current', queued', a, src, origin')
  <1>1. Wired(conns, current, queued, active, SourceOf(history, active, wanted), origin)
    BY DEF IInv, Wiring
  <1>2. conns' = Closed /\ current' = NoConnection /\ queued' = NoRequest
    BY DEF Leave
  <1>3. conns \in [Connection -> Link] /\ \A k \in Connection : Fits(conns[k], origin)
    BY <1>1 DEF Wired
  <1>4. NoConnection \in 0 .. Connections
    BY BoundAssumption DEF NoConnection
  <1>5. CASE current = NoConnection
    BY <1>2, <1>3, <1>4, <1>5 DEF Closed, Wired
  <1>6. CASE current # NoConnection
    <2>1. current \in Connection
      BY <1>1, <1>6, Numbered DEF Wired
    <2>2. PICK d : d = [conns[current] EXCEPT !.closed = TRUE]
      OBVIOUS
    <2>3. /\ d \in Link /\ d.home = conns[current].home /\ d.phase = conns[current].phase /\ d.closed
          /\ d.waiting = conns[current].waiting /\ d.work = conns[current].work
          /\ d.lost = conns[current].lost
      BY <1>3, <2>1, <2>2 DEF Link
    <2>4. Fits(d, origin)
      <3>1. conns[current].phase = "gone" => d = Gone
        <4>1. ASSUME conns[current].phase = "gone" PROVE d = Gone
          <5>1. conns[current] = Gone
            BY <1>3, <2>1, <4>1 DEF Fits
          <5>2. /\ Gone.home = NoConversation /\ Gone.phase = "gone" /\ Gone.closed
                /\ Gone.waiting = NoRequest /\ Gone.work = Idle /\ Gone.lost = {}
            BY DEF Gone
          <5>3. d = [home |-> d.home, phase |-> d.phase, closed |-> TRUE,
                     waiting |-> d.waiting, work |-> d.work, lost |-> d.lost]
            BY <2>3 DEF Link
          <5>. QED BY <2>3, <5>1, <5>2, <5>3 DEF Gone
        <4>. QED BY <4>1
      <3>. QED BY <1>3, <2>1, <2>3, <3>1 DEF Fits
    <2>5. PICK e : conns' = [conns EXCEPT ![current] = e] /\ e \in {d, Gone}
      <3>1. conns' = With(current, d)
        BY <1>2, <1>6, <2>2 DEF Closed
      <3>. QED BY <3>1 DEF With
    <2>6. Fits(e, origin) /\ e \in Link
      BY <2>3, <2>4, <2>5, GoneFits
    <2>. QED BY <1>2, <1>3, <1>4, <2>1, <2>5, <2>6 DEF Wired
  <1>. QED BY <1>5, <1>6

\* A screen without a turn.
LEMMA LeaveStep ==
  ASSUME IInv, Leave, streaming' = FALSE, disabled' = disabled, Library', wanted' \in Source,
         UNCHANGED <<redials, answers, failed, kind, payload, awaiting, indexing, origin>>,
         stored' = [stored EXCEPT !.history = history']
  PROVE  IInv'
  <1>1. Wiring'
    BY LeftWired DEF Wiring
  <1>2. Stored' /\ TurnShown' /\ StreamsForSomething'
    BY DEF Leave, IInv, Stored, TurnShown, StreamsForSomething
  <1>3. Types'
    <2>1. turn' \in Text \cup {NoText} /\ hasRag' = hasRag /\ streaming' \in BOOLEAN
      BY DEF Leave
    <2>2. reply' \in 0 .. Len(answers')
      BY DEF Leave, IInv, Types, NoAnswer
    <2>. QED BY <2>1, <2>2 DEF IInv, Types
  <1>. QED BY <1>1, <1>2, <1>3 DEF IInv

LEMMA StartStep ==
  ASSUME IInv, NEW source \in Source, Start(source), history' \in {history, <<>>},
         UNCHANGED <<redials, made, answers, failed, kind, payload, awaiting, indexing, origin>>,
         stored' = [stored EXCEPT !.history = history']
  PROVE  IInv'
  <1>1. Archived(history, active, shown, origin, Len(answers), made)
    BY DEF IInv, Library
  <1>2. active' = NoConversation /\ shown' = <<>> /\ wanted' = source /\ streaming' = FALSE /\ Leave
        /\ disabled' = disabled
    BY DEF Start
  <1>3. /\ history' \in Seq(Conversation) /\ Len(history') <= MaxConversations /\ Apart(history')
        /\ \A c \in Range(history') : c \in Range(history)
    <2>1. CASE history' = history
      BY <1>1, <2>1 DEF Archived
    <2>2. CASE history' = <<>>
      <3>1. Range(history') = {}
        BY <2>2 DEF Range
      <3>. QED BY <2>2, <3>1, CapAssumption DEF Apart
    <2>. QED BY <2>1, <2>2
  <1>4. Library'
    <2>1. Range(shown') = {} /\ shown' \in Seq(Message)
      BY <1>2 DEF Range
    <2>2. made' \in 0 .. Conversations /\ 0 \in 0 .. made'
      BY <1>1, BoundAssumption DEF Archived
    <2>. QED BY <1>1, <1>2, <1>3, <2>1, <2>2 DEF Library, Archived, NoConversation
  <1>. QED BY <1>2, <1>4, LeaveStep

LEMMA SelectStep ==
  ASSUME IInv, NEW id \in Ids(history), SelectConversation(id)
  PROVE  IInv'
  <1>. DEFINE c == Find(history, id)
  <1>1. Archived(history, active, shown, origin, Len(answers), made)
    BY DEF IInv, Library
  <1>2. /\ active' = id /\ shown' = c.messages /\ wanted' = c.source /\ streaming' = FALSE /\ Leave
        /\ disabled' = disabled
        /\ UNCHANGED <<redials, kept, kind, payload, awaiting, indexing, origin>>
    BY DEF SelectConversation, IInv, Types
  <1>3. c \in Range(history) /\ c.id = id /\ c \in Conversation
    <2>1. history \in Seq(Conversation) /\ Apart(history)
      BY <1>1 DEF Archived
    <2>2. c \in Range(history) /\ c.id = id
      BY <2>1, Found
    <2>. QED BY <2>1, <2>2, RangeOfSeq
  <1>. HIDE DEF c
  <1>4. Kept(c, origin, Len(answers), made) /\ c.messages \in Seq(Message) /\ c.source \in Source
    BY <1>1, <1>3 DEF Archived, Conversation
  <1>5. Last_(c.messages, MaxMessages) = c.messages
    BY <1>4, LastN, CapAssumption DEF Kept
  <1>6. UNCHANGED <<history, made, answers, failed, stored>>
    BY <1>2 DEF kept
  <1>7. Archived(history, id, c.messages, origin, Len(answers), made)
    <2>1. id # NoConversation /\ id \in 0 .. made
      BY <1>3, <1>4 DEF Kept, NoConversation
    <2>. QED BY <1>1, <1>3, <1>4, <1>5, <2>1 DEF Archived, Kept
  <1>8. Library'
    BY <1>2, <1>6, <1>7 DEF Library
  <1>9. stored' = [stored EXCEPT !.history = history']
    BY <1>6 DEF IInv, Stored
  <1>. QED BY <1>2, <1>4, <1>6, <1>8, <1>9, LeaveStep

\* Reloading takes the stored history for the one in memory.
LEMMA ReloadStep ==
  ASSUME IInv, Reload
  PROVE  IInv'
  <1>1. Archived(history, active, shown, origin, Len(answers), made)
    BY DEF IInv, Library
  <1>2. /\ history' = history /\ answers' = stored.answers /\ failed' = failed
        /\ UNCHANGED <<redials, hasRag, made, stored, kind, origin>>
        /\ conns' = [k \in Connection |-> Gone] /\ current' = NoConnection /\ queued' = NoRequest
        /\ turn' = NoText /\ reply' = NoAnswer /\ streaming' = FALSE /\ disabled' = FALSE
        /\ payload' = [t \in Text |-> "gone"] /\ awaiting' = [c \in Calls |-> 0] /\ indexing' = {}
    BY DEF Reload, IInv, Stored
  <1>3. answers' \in Seq(Answer) /\ Len(answers') = Len(answers)
    BY <1>2 DEF IInv, Stored
  <1>4. wanted' \in Source /\ Archived(history, active', shown', origin, Len(answers), made)
    <2>1. CASE history = <<>>
      <3>1. active' = NoConversation /\ shown' = <<>> /\ wanted' = "local"
        BY <1>2, <2>1 DEF Reload
      <3>2. Range(shown') = {} /\ shown' \in Seq(Message)
        BY <3>1 DEF Range
      <3>3. 0 \in 0 .. made
        BY <1>1, BoundAssumption DEF Archived
      <3>. QED BY <1>1, <3>1, <3>2, <3>3 DEF Archived, NoConversation, Source
    <2>2. CASE history # <<>>
      <3>. DEFINE c == history[1]
      <3>1. active' = c.id /\ shown' = c.messages /\ wanted' = c.source
        BY <1>2, <2>2 DEF Reload
      <3>2. history \in Seq(Conversation)
        BY <1>1 DEF Archived
      <3>3. c \in Range(history)
        <4>1. 1 \in 1 .. Len(history)
          BY <2>2, <3>2
        <4>. QED BY <3>2, <4>1, RangeEquality
      <3>4. c \in Conversation
        BY <3>2, <3>3, RangeOfSeq
      <3>. HIDE DEF c
      <3>5. Kept(c, origin, Len(answers), made) /\ c.messages \in Seq(Message) /\ c.source \in Source
        BY <1>1, <3>3, <3>4 DEF Archived, Conversation
      <3>6. Last_(c.messages, MaxMessages) = c.messages
        BY <3>5, LastN, CapAssumption DEF Kept
      <3>7. c.id # NoConversation /\ c.id \in 0 .. made
        BY <3>5 DEF Kept, NoConversation
      <3>. QED BY <1>1, <3>1, <3>3, <3>5, <3>6, <3>7 DEF Archived, Kept
    <2>. QED BY <2>1, <2>2
  <1>5. Library'
    BY <1>2, <1>3, <1>4 DEF Library
  <1>6. Types'
    <2>1. /\ turn' \in Text \cup {NoText} /\ indexing' \subseteq Text
          /\ streaming' \in BOOLEAN /\ disabled' \in BOOLEAN
      BY <1>2
    <2>2. reply' \in 0 .. Len(answers')
      BY <1>2, <1>3 DEF NoAnswer
    <2>3. awaiting' \in [Calls -> 0 .. Awaits]
      BY <1>2, BoundAssumption
    <2>4. payload' \in [Text -> {"plain", "document", "scan", "gone"}]
      BY <1>2
    <2>. QED BY <1>2, <1>3, <1>4, <2>1, <2>2, <2>3, <2>4 DEF IInv, Types
  <1>7. Stored'
    <2>1. stored = [history |-> history, answers |-> stored.answers, failed |-> failed]
      BY DEF IInv, Stored
    <2>. QED BY <1>2, <1>3, <2>1 DEF Stored
  <1>8. Wiring'
    <2>1. \A k \in Connection : conns'[k] = Gone
      BY <1>2
    <2>2. NoConnection \in 0 .. Connections
      BY BoundAssumption DEF NoConnection
    <2>3. conns' \in [Connection -> Link]
      BY <1>2, GoneFits
    <2>. QED BY <1>2, <2>1, <2>2, <2>3, GoneFits DEF Wiring, Wired
  <1>9. TurnShown' /\ StreamsForSomething'
    BY <1>2 DEF TurnShown, StreamsForSomething
  <1>. QED BY <1>5, <1>6, <1>7, <1>8, <1>9 DEF IInv

-----------------------------------------------------------------------------
(* Events.                                                                 *)

\* A session opens, and what waited for it goes out.
LEMMA OpensStep ==
  ASSUME IInv, NEW k \in Connection, Opens(k)
  PROVE  IInv'
  <1>. DEFINE src == SourceOf(history, active, wanted)
              w == conns[k].waiting
              opened == [conns EXCEPT ![k].phase = "open", ![k].waiting = NoRequest]
              first == IF w = NoRequest THEN opened ELSE Sent(opened, k, w)
              queuedGoes == queued # NoRequest /\ turn # NoText /\ streaming
  <1>1. /\ conns[k].phase = "opening"
        /\ UNCHANGED <<current, redials, active, hasRag, wanted, shown, streaming, disabled, turn,
                       reply, kept, kind, payload, awaiting, indexing, origin>>
        /\ queuedGoes => /\ queued' = NoRequest
                         /\ conns' = IF current = NoConnection THEN first ELSE Sent(first, current, queued)
        /\ ~ queuedGoes => conns' = first /\ queued' = queued
    BY DEF Opens
  <1>2. Types' /\ Library' /\ Stored' /\ TurnShown'
    BY <1>1, SameView DEF IInv, Types
  <1>3. /\ Wired(conns, current, queued, active, src, origin) /\ src \in Source
        /\ streaming <=> turn # NoText
        /\ streaming => disabled
    BY EnsuredIs DEF IInv, Wiring, Types, StreamsForSomething
  <1>4. /\ conns \in [Connection -> Link] /\ Fits(conns[k], origin) /\ conns[k] \in Link
        /\ k = current => InUse(conns[k], active, src)
    BY <1>3, Numbered DEF Wired
  <1>5. PICK e : e = [conns[k] EXCEPT !.phase = "open", !.waiting = NoRequest]
    OBVIOUS
  <1>6. opened = [conns EXCEPT ![k] = e]
    BY <1>4, <1>5
  <1>7. /\ e \in Link /\ e.home = conns[k].home /\ e.phase = "open" /\ e.closed = conns[k].closed
        /\ e.waiting = NoRequest /\ e.work = conns[k].work /\ e.lost = conns[k].lost
    BY <1>4, <1>5 DEF Link, Phase
  <1>8. Fits(e, origin) /\ (k = current => InUse(e, active, src))
    BY <1>4, <1>7 DEF Fits, InUse
  <1>. HIDE DEF opened, src
  <1>9. Wired(opened, current, queued, active, src, origin) /\ opened \in [Connection -> Link] /\ opened[k] = e
    <2>1. Wired([conns EXCEPT ![k] = e], current, queued, active, src, origin)
      BY <1>3, <1>8, WiredExcept
    <2>. QED BY <1>4, <1>6, <1>7, <2>1
  <1>10. /\ Wired(first, current, queued, active, src, origin)
         /\ \A j \in Connection : j # k => first[j] = conns[j]
         /\ IF w = NoRequest THEN first[k] = e ELSE Carries(first[k])
    <2>1. CASE w = NoRequest
      BY <1>4, <1>6, <1>9, <2>1
    <2>2. CASE w # NoRequest
      <3>1. w \in Request /\ opened[k].home \in {origin[w.text], NoConversation}
        BY <1>4, <1>7, <1>9, <2>2 DEF Link, Fits
      <3>2. k = current => w.source = src
        BY <1>4, <2>2 DEF InUse
      <3>. HIDE DEF w
      <3>3. PICK d \in Link : /\ Sent(opened, k, w) = [opened EXCEPT ![k] = d]
                              /\ Fits(d, origin) /\ Carries(d)
                              /\ \A a : \A s \in Source : InUse(opened[k], a, s) /\ w.source = s => InUse(d, a, s)
        <4>1. opened \in [Connection -> Link] /\ Fits(opened[k], origin)
          BY <1>8, <1>9
        <4>. QED BY <4>1, <3>1, SentFits, SMTT(30)
      <3>4. k = current => InUse(d, active, src)
        BY <1>3, <1>8, <1>9, <3>2, <3>3
      <3>5. Wired([opened EXCEPT ![k] = d], current, queued, active, src, origin)
        BY <1>9, <3>3, <3>4, WiredExcept
      <3>6. first = [opened EXCEPT ![k] = d]
        BY <2>2, <3>3
      <3>. QED BY <1>4, <1>6, <1>9, <2>2, <3>3, <3>5, <3>6
    <2>. QED BY <2>1, <2>2
  <1>. HIDE DEF first, w, queuedGoes
  <1>11. ASSUME Wired(conns', current, queued', active, src, origin) PROVE Wiring'
    BY <1>1, <1>11 DEF Wiring, src, kept
  <1>12. CASE queuedGoes /\ current # NoConnection
    <2>1. ForHere(queued, active, src, origin)
      BY <1>3, <1>12 DEF Wired, queuedGoes
    <2>2. conns' = Sent(first, current, queued) /\ queued' = NoRequest
      BY <1>1, <1>12
    <2>3. Wired(conns', current, queued, active, src, origin) /\ Carries(conns'[current])
      BY <1>3, <1>10, <1>12, <2>1, <2>2, WiredSent
    <2>4. Wired(conns', current, queued', active, src, origin)
      BY <2>2, <2>3 DEF Wired
    <2>5. StreamsForSomething'
      BY <1>1, <1>3, <1>12, <2>3, CarriesOn
    <2>. QED BY <1>2, <1>11, <2>4, <2>5 DEF IInv
  <1>13. CASE ~ (queuedGoes /\ current # NoConnection)
    <2>1. conns' = first /\ queued' \in {queued, NoRequest} /\ (queued' = queued \/ current = NoConnection)
      BY <1>1, <1>13
    <2>2. Wired(conns', current, queued', active, src, origin)
      BY <1>10, <2>1 DEF Wired
    <2>3. StreamsForSomething'
      <3>1. CASE ~ streaming \/ current = NoConnection
        BY <1>1, <3>1 DEF IInv, StreamsForSomething
      <3>2. CASE streaming /\ current # NoConnection /\ k # current
        <4>1. conns'[current] = conns[current]
          BY <1>3, <1>10, <2>1, <3>2, Numbered DEF Wired
        <4>. QED BY <1>1, <2>1, <3>2, <4>1 DEF IInv, StreamsForSomething
      <3>3. CASE streaming /\ current # NoConnection /\ k = current
        <4>1. CASE w # NoRequest
          BY <1>1, <1>3, <1>10, <2>1, <3>3, <4>1, CarriesOn
        <4>2. CASE w = NoRequest
          <5>1. queued = NoRequest /\ conns'[current] = e
            BY <1>3, <1>10, <1>13, <2>1, <3>3, <4>2 DEF queuedGoes
          <5>2. conns[current].waiting = NoRequest /\ e.work = conns[current].work
                /\ e.lost = conns[current].lost
            BY <1>7, <3>3, <4>2 DEF w
          <5>. QED BY <1>1, <3>3, <5>1, <5>2 DEF IInv, StreamsForSomething
        <4>. QED BY <4>1, <4>2
      <3>. QED BY <3>1, <3>2, <3>3
    <2>. QED BY <1>2, <1>11, <2>2, <2>3 DEF IInv
  <1>. QED BY <1>12, <1>13

\* A session is lost: if the turn waited for an answer on it, the turn is lost with it.
LEMMA DropsStep ==
  ASSUME IInv, NEW k \in Connection, Drops(k)
  PROVE  IInv'
  <1>. DEFINE src == SourceOf(history, active, wanted)
              asked == {t \in Text : conns[k].work[t] # "no"}
              waits == IF k = current /\ asked # {} THEN {turn} \ {NoText} ELSE {}
  <1>1. /\ conns[k].phase = "open"
        /\ conns' = [conns EXCEPT ![k] =
             IF conns[k].closed THEN Gone
             ELSE [conns[k] EXCEPT !.phase = "opening", !.lost = @ \cup asked \cup waits]]
        /\ redials' = redials + (IF conns[k].closed THEN 0 ELSE 1) /\ redials' <= Redials
        /\ UNCHANGED <<current, screen, kept, kind, payload, awaiting, indexing, origin>>
    BY DEF Drops
  <1>2. /\ UNCHANGED <<active, hasRag, wanted, shown, streaming, disabled, turn, reply, queued>>
        /\ UNCHANGED <<history, made, answers, failed, stored>>
    BY <1>1 DEF screen, kept
  <1>3. redials' \in 0 .. Redials /\ awaiting' \in [Calls -> 0 .. Awaits]
    BY <1>1, BoundAssumption DEF IInv, Types
  <1>4. Types' /\ Library' /\ Stored' /\ TurnShown'
    BY <1>1, <1>2, <1>3, SameView
  <1>5. Wired(conns, current, queued, active, src, origin)
    BY DEF IInv, Wiring
  <1>. HIDE DEF src
  <1>6. /\ conns \in [Connection -> Link] /\ Fits(conns[k], origin) /\ conns[k] \in Link
        /\ k = current => InUse(conns[k], active, src)
        /\ current # NoConnection => current \in Connection
    BY <1>5, Numbered DEF Wired
  <1>7. ASSUME Wired(conns', current', queued', active, src, origin) PROVE Wiring'
    BY <1>1, <1>2, <1>7 DEF Wiring, src
  <1>8. k # current => StreamsForSomething'
    <2>1. k # current /\ current # NoConnection => conns'[current] = conns[current]
      BY <1>1, <1>6
    <2>. QED BY <1>1, <1>2, <2>1 DEF IInv, StreamsForSomething
  <1>9. CASE conns[k].closed
    <2>1. conns' = [conns EXCEPT ![k] = Gone] /\ k # current
      BY <1>1, <1>6, <1>9 DEF InUse
    <2>2. Wired(conns', current', queued', active, src, origin)
      <3>1. Wired([conns EXCEPT ![k] = Gone], current, queued, active, src, origin)
        BY <1>5, <2>1, GoneFits, WiredExcept
      <3>. QED BY <1>1, <1>2, <2>1, <3>1 DEF screen
    <2>. QED BY <1>4, <1>7, <1>8, <2>1, <2>2 DEF IInv
  <1>10. CASE ~ conns[k].closed
    <2>1. waits \subseteq Text /\ asked \subseteq Text
      BY DEF IInv, Types
    <2>2. PICK d : /\ d = [conns[k] EXCEPT !.phase = "opening", !.lost = @ \cup asked \cup waits]
                   /\ conns' = [conns EXCEPT ![k] = d]
      <3>1. conns' = [conns EXCEPT ![k] =
              [conns[k] EXCEPT !.phase = "opening", !.lost = @ \cup asked \cup waits]]
        <4>. HIDE DEF waits, asked
        <4>. QED BY <1>1, <1>10
      <3>. QED BY <3>1
    <2>. HIDE DEF waits, asked
    <2>3. /\ d \in Link /\ d.home = conns[k].home /\ d.phase = "opening" /\ d.closed = conns[k].closed
          /\ d.waiting = conns[k].waiting /\ d.work = conns[k].work
          /\ d.lost = conns[k].lost \cup asked \cup waits
      BY <1>6, <2>1, <2>2 DEF Link, Phase
    <2>4. conns' = [conns EXCEPT ![k] = d]
      BY <2>2
    <2>5. Fits(d, origin) /\ (k = current => InUse(d, active, src))
      BY <1>6, <2>3 DEF Fits, InUse
    <2>6. Wired(conns', current', queued', active, src, origin)
      <3>1. Wired([conns EXCEPT ![k] = d], current, queued, active, src, origin)
        BY <1>5, <1>6, <2>3, <2>5, WiredExcept
      <3>. QED BY <1>1, <1>2, <2>4, <3>1 DEF screen
    <2>7. k = current => StreamsForSomething'
      <3>. SUFFICES ASSUME k = current PROVE StreamsForSomething'
        OBVIOUS
      <3>1. conns'[current] = d /\ k # NoConnection
        BY <1>6, <2>4, Numbered
      <3>2. (\E t \in Text : conns[current].work[t] # "no") /\ turn # NoText => turn \in d.lost
        BY <2>3 DEF asked, waits
      <3>3. turn \in conns[current].lost => turn \in d.lost
        BY <2>3
      <3>. QED BY <1>1, <1>2, <3>1, <3>2, <3>3 DEF IInv, StreamsForSomething
    <2>. QED BY <1>4, <1>7, <1>8, <2>6, <2>7 DEF IInv
  <1>. QED BY <1>9, <1>10

\* A delta goes into the answer of the turn, or begins one.
LEMMA DeltaStep ==
  ASSUME IInv, NEW k \in Connection, NEW t \in Text, Delta(k, t)
  PROVE  IInv'
  <1>1. /\ conns[k].phase = "open" /\ conns[k].work[t] # "no"
        /\ conns' = [conns EXCEPT ![k].work[t] = "answering"]
        /\ UNCHANGED <<current, redials, hasRag, wanted, streaming, disabled, turn, queued, failed,
                       kind, payload, awaiting, indexing, origin>>
        /\ Append_(t)
    BY DEF Delta
  <1>2. Wired(conns', current, queued, active, SourceOf(history, active, wanted), origin)
    <2>1. Wired(conns, current, queued, active, SourceOf(history, active, wanted), origin)
      BY DEF IInv, Wiring
    <2>2. "answering" \in Work /\ conns[k] \in Link
      BY <2>1 DEF Work, Wired
    <2>4. Changed(conns[k], [conns[k] EXCEPT !.work[t] = "answering"], t, "answering")
      BY <2>2, WorkIs
    <2>3. Wired([conns EXCEPT ![k] = [conns[k] EXCEPT !.work[t] = "answering"]], current, queued, active,
                SourceOf(history, active, wanted), origin)
      BY <1>1, <2>1, <2>2, <2>4, WorkChanges
    <2>. QED BY <1>1, <2>3
  <1>3. StreamsForSomething'
    <2>1. conns \in [Connection -> Link] /\ (current # NoConnection => current \in Connection)
      BY Numbered DEF IInv, Wiring, Wired
    <2>2. \A j \in Connection : /\ conns'[j].phase = conns[j].phase /\ conns'[j].waiting = conns[j].waiting
                                /\ conns'[j].lost = conns[j].lost
                                /\ \A u \in Text : conns[j].work[u] # "no" => conns'[j].work[u] # "no"
      BY <1>1, <2>1 DEF Link
    <2>. QED BY <1>1, <2>1, <2>2 DEF IInv, StreamsForSomething
  <1>4. answers \in Seq(Answer) /\ Len(answers) \in Nat /\ reply \in 0 .. Len(answers)
    BY DEF IInv, Types
  <1>5. CASE reply \in Range(shown)
    <2>1. answers' = [answers EXCEPT ![reply].about = @ \cup {t}] /\ UNCHANGED <<active, shown, reply, made, history, stored>>
      BY <1>1, <1>5 DEF Append_
    <2>2. reply \in 1 .. Len(answers) /\ answers[reply].done = NoText
      <3>1. FromHere(reply, active, origin, Len(answers)) /\ reply \notin Text
        BY <1>4, <1>5, ScreenIsHome, TextAssumption
      <3>. QED BY <3>1 DEF FromHere, IInv, Stored, NoAnswer
    <2>3. answers[reply] \in Answer
      <3>. HIDE DEF Answer
      <3>. QED BY <1>4, <2>2
    <2>4. PICK b : b = [answers[reply] EXCEPT !.about = @ \cup {t}]
      OBVIOUS
    <2>5. b \in Answer /\ b.done = NoText
      BY <2>2, <2>3, <2>4 DEF Answer
    <2>6. answers' = [answers EXCEPT ![reply] = b]
      BY <2>1, <2>4
    <2>7. /\ answers' \in Seq(Answer) /\ Len(answers') = Len(answers)
          /\ \A m \in 1 .. Len(answers) : answers'[m] = IF m = reply THEN b ELSE answers[m]
      <3>. HIDE DEF Answer
      <3>. QED BY <1>4, <2>2, <2>5, <2>6, ExceptSeq
    <2>8. Types' /\ TurnShown'
      BY <1>1, <2>1, <2>7 DEF IInv, Types, TurnShown, OnScreen
    <2>9. Stored'
      BY <1>1, <2>1, <2>2, <2>5, <2>7 DEF IInv, Stored
    <2>10. Library'
      BY <1>1, <2>1, <2>7 DEF IInv, Library
    <2>11. Wiring'
      BY <1>1, <1>2, <2>1 DEF Wiring
    <2>. QED BY <1>3, <2>8, <2>9, <2>10, <2>11 DEF IInv
  <1>6. CASE reply \notin Range(shown)
    <2>. DEFINE n == Len(answers) + 1
                b == [about |-> {t}, done |-> NoText]
    <2>1. /\ Len(answers) < Answers /\ answers' = Append(answers, b) /\ reply' = n
          /\ shown' = Append(shown, n) /\ Persist
      BY <1>1, <1>6 DEF Append_, AddMessage
    <2>2. b \in Answer /\ n \in 1 .. Answers /\ n \in Message /\ n \notin Text
      BY <1>4, <2>1, BoundAssumption, TextAssumption DEF Answer, Message
    <2>. HIDE DEF b
    <2>3. answers' \in Seq(Answer) /\ Len(answers') = n /\ answers'[n] = b
      BY <1>4, <2>1, <2>2, AppendProperties
    <2>4. shown' \in Seq(Message) /\ Range(shown') = Range(shown) \cup {n}
      BY <2>1, <2>2, ScreenIsHome, AppendShows
    <2>5. active # NoConversation => active' = active
      BY <2>1, EnsuredIs DEF Persist, IInv, Types
    <2>6. ASSUME NEW x \in Range(shown') PROVE FromHere(x, active', origin', Len(answers'))
      <3>1. CASE x = n
        BY <1>4, <2>2, <2>3, <3>1 DEF FromHere
      <3>2. CASE x \in Range(shown)
        <4>1. FromHere(x, active, origin, Len(answers)) /\ active' = active
          BY <2>5, <3>2, ScreenIsHome
        <4>. QED BY <1>1, <1>4, <2>3, <4>1 DEF FromHere
      <3>. QED BY <2>4, <3>1, <3>2
    <2>7. answers'[reply'].done = NoText /\ reply' \in 1 .. Len(answers')
      BY <1>4, <2>1, <2>3 DEF b
    <2>8. Len(answers) <= Len(answers')
      BY <1>4, <2>3
    <2>9. Rewritten
      BY <1>1, <2>3, <2>4, <2>6, <2>7, <2>8 DEF Rewritten, IInv, Types
    <2>10. Stays
      BY <2>1, <2>9, PersistStays
    <2>11. Wiring'
      BY <1>1, <1>2, <2>10, WiringStays DEF Stays
    <2>12. Types'
      <3>1. reply' \in 0 .. Len(answers')
        BY <2>3, <2>7, <1>4
      <3>. QED BY <1>1, <2>3, <3>1 DEF IInv, Types
    <2>13. TurnShown'
      BY <1>1, <2>4 DEF IInv, TurnShown, OnScreen
    <2>. QED BY <1>3, <2>10, <2>11, <2>12, <2>13 DEF IInv, Stays
  <1>. QED BY <1>5, <1>6

\* The text of a document arrives.
LEMMA OcrStep ==
  ASSUME IInv, NEW k \in Connection, NEW t \in Text, Ocr(k, t)
  PROVE  IInv'
  <1>. DEFINE src == SourceOf(history, active, wanted)
              w == IF kind[t] = "scan" THEN "indexing" ELSE "asked"
              d == IF conns[k].work[t] = "file, local" THEN Done(conns[k], t)
                   ELSE [conns[k] EXCEPT !.work[t] = w]
  <1>1. /\ conns[k].phase = "open" /\ conns[k].work[t] \in {"file", "file, local"}
        /\ UNCHANGED <<current, redials, hasRag, wanted, shown, queued, answers, kind, origin>>
        /\ conns' = With(k, d)
    BY DEF Ocr
  <1>2. w \in Work /\ w \notin {"no", "file, local"} /\ "no" \in Work
    BY DEF Work
  <1>3. /\ Wired(conns, current, queued, active, src, origin) /\ src \in Source /\ Ensured.source = src
        /\ streaming <=> turn # NoText
    BY EnsuredIs DEF IInv, Wiring, Types, StreamsForSomething
  <1>13. conns[k] \in Link
    BY <1>3 DEF Wired
  <1>14. /\ conns[k].work[t] = "file, local" => Changed(conns[k], d, t, "no")
         /\ conns[k].work[t] = "file" => Changed(conns[k], d, t, w) /\ d.lost = conns[k].lost
    <2>. HIDE DEF w
    <2>. QED BY <1>2, <1>13, DoneIs, WorkIs
  <1>. HIDE DEF w, d
  <1>4. Wired(conns', current, queued, active, src, origin)
    <2>. HIDE DEF src
    <2>. QED BY <1>1, <1>2, <1>3, <1>14, WorkChanges
  <1>5. turn # NoText => turn \in Text /\ OnScreen(turn)
    BY DEF IInv, Types, TurnShown
  <1>6. ASSUME Ensure, failed' = failed, reply' = reply
        PROVE  Library' /\ Stored' /\ Wiring'
    <2>1. /\ Library' /\ Stored'
          /\ SourceOf(history, active, wanted)' = SourceOf(history, active, wanted)
          /\ active # NoConversation => active' = active
      BY <1>1, <1>6, EnsureStays
    <2>2. Wiring'
      BY <1>1, <1>4, <2>1, WiringStays
    <2>. QED BY <2>1, <2>2
  <1>7. ASSUME UNCHANGED <<turn, reply, failed, payload, awaiting>>, streaming' = TRUE, disabled' = TRUE, Ensure,
               turn # NoText, indexing' \subseteq Text
        PROVE  Types' /\ Library' /\ Stored' /\ Wiring' /\ TurnShown'
    BY <1>1, <1>6, <1>7 DEF IInv, Types, TurnShown, OnScreen
  <1>8. CASE /\ HasQuestion(turn)
             /\ UNCHANGED <<turn, reply, failed, payload, awaiting>>
             /\ Ensure
             /\ streaming' = TRUE /\ disabled' = TRUE
             /\ indexing' = indexing \cup {turn}
    <2>1. turn # NoText
      BY <1>8 DEF HasQuestion
    <2>2. indexing' \subseteq Text /\ turn' \in indexing'
      BY <1>5, <1>8, <2>1 DEF IInv, Types
    <2>3. StreamsForSomething'
      BY <1>8, <2>1, <2>2 DEF StreamsForSomething
    <2>. QED BY <1>7, <1>8, <2>1, <2>2, <2>3 DEF IInv
  <1>9. CASE /\ HasQuestion(turn) /\ Ensured.source = "network"
             /\ UNCHANGED <<turn, reply, failed, payload, awaiting, indexing>>
             /\ Ensure
             /\ streaming' = TRUE /\ disabled' = TRUE
    <2>1. turn # NoText /\ streaming
      BY <1>3, <1>9 DEF HasQuestion
    <2>2. indexing' \subseteq Text
      BY <1>9 DEF IInv, Types
    <2>3. StreamsForSomething'
      <3>1. CASE \/ \E c \in Calls : c.text = turn /\ awaiting[c] > 0
                 \/ turn \in indexing
        BY <1>9, <2>1, <3>1 DEF StreamsForSomething
      <3>2. CASE /\ current # NoConnection
                 /\ \/ conns[current].phase = "opening" /\ {queued, conns[current].waiting} # {NoRequest}
                    \/ \E u \in Text : conns[current].work[u] # "no" /\ u \notin conns[current].lost
                    \/ turn \in conns[current].lost
        <4>1. conns \in [Connection -> Link] /\ current \in Connection /\ InUse(conns[current], active, src)
          BY <1>3, <3>2, Numbered DEF Wired
        <4>2. CASE k # current
          <5>1. conns'[current] = conns[current]
            BY <1>1, <4>1, <4>2 DEF With
          <5>. QED BY <1>1, <1>9, <2>1, <3>2, <5>1 DEF StreamsForSomething
        <4>3. CASE k = current
          <5>1. conns[k].work[t] = "file" /\ ~ conns[k].closed
            BY <1>1, <1>3, <1>9, <4>1, <4>3 DEF InUse
          <5>2. Changed(conns[k], d, t, w) /\ d.lost = conns[k].lost
            BY <1>14, <5>1
          <5>3. conns' = [conns EXCEPT ![k] = d]
            BY <1>1, <5>1, <5>2 DEF With, Changed
          <5>4. conns'[current] = d
            BY <4>1, <4>3, <5>3
          <5>5. conns[current].phase = "open" /\ conns[current].lost = d.lost
            BY <1>1, <4>3, <5>2
          <5>6. (\E u \in Text : conns[current].work[u] # "no" /\ u \notin conns[current].lost)
                  => \E u \in Text : d.work[u] # "no" /\ u \notin d.lost
            BY <1>2, <4>3, <5>2 DEF Changed
          <5>. QED BY <1>1, <1>9, <2>1, <3>2, <5>4, <5>5, <5>6 DEF StreamsForSomething
        <4>. QED BY <4>2, <4>3
      <3>. QED BY <2>1, <3>1, <3>2 DEF IInv, StreamsForSomething
    <2>. QED BY <1>7, <1>9, <2>1, <2>2, <2>3 DEF IInv
  <1>10. CASE /\ HasQuestion(turn)
              /\ payload' = [payload EXCEPT ![turn] = "plain"]
              /\ IF OnScreen(turn) THEN Dispatch(turn, "plain")
                 ELSE UNCHANGED <<streaming, disabled, turn, reply, failed, awaiting>> /\ Ensure
              /\ UNCHANGED indexing
    <2>1. turn \in Text /\ OnScreen(turn) /\ Dispatch(turn, "plain")
      BY <1>5, <1>10 DEF HasQuestion
    <2>2. payload' \in [Text -> {"plain", "document", "scan", "gone"}] /\ indexing' \subseteq Text
      BY <1>10 DEF IInv, Types
    <2>. QED BY <1>1, <1>4, <2>1, <2>2, AgainStep
  <1>11. CASE /\ UNCHANGED <<reply, failed, payload, awaiting, indexing>>
              /\ Ensure
              /\ EndTurn
    <2>1. Library' /\ Stored' /\ Wiring'
      BY <1>6, <1>11
    <2>2. TurnShown' /\ StreamsForSomething'
      BY <1>11 DEF TurnShown, StreamsForSomething, EndTurn
    <2>3. Types'
      <3>1. turn' \in Text \cup {NoText} /\ streaming' \in BOOLEAN /\ disabled' \in BOOLEAN
        BY <1>11 DEF EndTurn
      <3>. QED BY <1>1, <1>11, <3>1 DEF IInv, Types
    <2>. QED BY <2>1, <2>2, <2>3 DEF IInv
  <1>12. \/ /\ HasQuestion(turn)
            /\ UNCHANGED <<turn, reply, failed, payload, awaiting>>
            /\ Ensure
            /\ streaming' = TRUE /\ disabled' = TRUE
            /\ indexing' = indexing \cup {turn}
         \/ /\ HasQuestion(turn) /\ Ensured.source = "network"
            /\ UNCHANGED <<turn, reply, failed, payload, awaiting, indexing>>
            /\ Ensure
            /\ streaming' = TRUE /\ disabled' = TRUE
         \/ /\ HasQuestion(turn)
            /\ payload' = [payload EXCEPT ![turn] = "plain"]
            /\ IF OnScreen(turn) THEN Dispatch(turn, "plain")
               ELSE UNCHANGED <<streaming, disabled, turn, reply, failed, awaiting>> /\ Ensure
            /\ UNCHANGED indexing
         \/ /\ UNCHANGED <<reply, failed, payload, awaiting, indexing>>
            /\ Ensure
            /\ EndTurn
    BY DEF Ocr
  <1>. QED BY <1>8, <1>9, <1>10, <1>11, <1>12

-----------------------------------------------------------------------------
(* The theorems.                                                           *)

LEMMA InitStep == Init => IInv
  <1>. SUFFICES ASSUME Init PROVE IInv
    OBVIOUS
  <1>1. history = <<>> /\ shown = <<>> /\ answers = <<>> /\ active = NoConversation /\ made = 0
    BY DEF Init
  <1>2. Types
    <2>1. awaiting \in [Calls -> 0 .. Awaits] /\ redials \in 0 .. Redials /\ origin \in [Text -> 0 .. Conversations]
      BY BoundAssumption DEF Init, NoConversation
    <2>2. answers \in Seq(Answer) /\ reply \in 0 .. Len(answers)
      BY <1>1 DEF Init, NoAnswer
    <2>. QED BY <2>1, <2>2 DEF Init, Types, Source
  <1>3. Library
    <2>1. Range(history) = {} /\ Range(shown) = {}
      BY <1>1 DEF Range
    <2>. QED BY <1>1, <2>1, BoundAssumption, CapAssumption DEF Library, Archived, Apart, NoConversation
  <1>4. Wiring
    <2>1. conns = [k \in Connection |-> Gone] /\ current = NoConnection /\ queued = NoRequest
      BY DEF Init
    <2>2. NoConnection \in 0 .. Connections
      BY BoundAssumption DEF NoConnection
    <2>. QED BY <2>1, <2>2, GoneFits DEF Wiring, Wired
  <1>5. Stored /\ TurnShown /\ StreamsForSomething
    <2>1. stored = [history |-> <<>>, answers |-> <<>>, failed |-> {}] /\ failed = {} /\ reply = NoAnswer
          /\ turn = NoText /\ streaming = FALSE /\ disabled = FALSE
      BY DEF Init
    <2>. QED BY <1>1, <2>1 DEF Stored, TurnShown, StreamsForSomething
  <1>. QED BY <1>2, <1>3, <1>4, <1>5 DEF IInv

LEMMA IInvStep == IInv /\ [Next]_vars => IInv'
  <1>. SUFFICES ASSUME IInv, [Next]_vars PROVE IInv'
    OBVIOUS
  <1>1. ASSUME NEW t \in Text, (\E k \in Kinds[t] : Submit(t, k)) \/ Retry(t) \/ Indexed(t) \/ IndexFails(t)
        PROVE  IInv'
    BY <1>1, SubmitStep, RetryStep, IndexedStep, IndexFailsStep
  <1>2. ASSUME NEW c \in Calls, Resume(c) PROVE IInv'
    BY <1>2, ResumeStep
  <1>3. ASSUME NEW source \in Sources, NewConversation(source) PROVE IInv'
    <2>1. UNCHANGED <<history, made, answers, failed, stored>>
      BY <1>3 DEF NewConversation, kept
    <2>2. stored' = [stored EXCEPT !.history = history']
      BY <2>1 DEF IInv, Stored
    <2>. QED BY <1>3, <2>1, <2>2, StartStep, SourcesAssumption DEF NewConversation
  <1>4. ASSUME NEW id \in Ids(history), SelectConversation(id) PROVE IInv'
    BY <1>4, SelectStep
  <1>5. CASE ClearHistory
    <2>1. stored' = [stored EXCEPT !.history = history'] /\ "local" \in Source
      BY <1>5 DEF ClearHistory, Source
    <2>. QED BY <1>5, <2>1, StartStep DEF ClearHistory
  <1>6. CASE Reload
    BY <1>6, ReloadStep
  <1>7. CASE ReconnectButton
    BY <1>7, ReconnectStep
  <1>8. ASSUME NEW k \in Connection, Opens(k) \/ OpeningFails(k) \/ Drops(k) PROVE IInv'
    BY <1>8, OpensStep, OpeningFailsStep, DropsStep
  <1>9. ASSUME NEW k \in Connection, NEW t \in Text, Delta(k, t) \/ Complete(k, t) \/ Error(k, t) \/ Ocr(k, t)
        PROVE  IInv'
    BY <1>9, DeltaStep, CompleteStep, ErrorStep, OcrStep
  <1>10. CASE UNCHANGED vars
    <2>1. /\ UNCHANGED <<redials, awaiting, conns, current, queued, history, made, answers, failed, stored>>
          /\ UNCHANGED <<active, hasRag, wanted, shown, streaming, disabled, turn, reply, kept, kind,
                         payload, indexing, origin>>
      BY <1>10 DEF vars, screen, kept, network
    <2>2. Types' /\ Library' /\ Stored' /\ TurnShown'
      BY <2>1, SameView DEF IInv, Types
    <2>3. Wiring' /\ StreamsForSomething'
      BY <2>1 DEF IInv, Wiring, StreamsForSomething
    <2>. QED BY <2>2, <2>3 DEF IInv
  <1>. QED
    BY <1>1, <1>2, <1>3, <1>4, <1>5, <1>6, <1>7, <1>8, <1>9, <1>10 DEF Next

LEMMA Invariance == Spec => []IInv
  BY InitStep, IInvStep, PTL DEF Spec

\* Every variable has its type, in particular no more conversations are kept than
\* MAX_CONVERSATIONS and the answer under way is one there is.
THEOREM TypeCorrect == Spec => []TypeOK
  <1>1. IInv => TypeOK
    <2>. SUFFICES ASSUME IInv PROVE TypeOK
      OBVIOUS
    <2>1. /\ conns \in [Connection -> Link] /\ current \in 0 .. Connections
          /\ queued \in Request \cup {NoRequest}
      BY DEF IInv, Wiring, Wired, ForHere
    <2>2. /\ history \in Seq(Conversation) /\ Len(history) <= MaxConversations
          /\ made \in 0 .. Conversations /\ active \in 0 .. made /\ shown \in Seq(Message)
      BY DEF IInv, Library, Archived
    <2>3. stored \in [history : Seq(Conversation), answers : Seq(Answer), failed : SUBSET Text]
      <3>1. stored = [history |-> history, answers |-> stored.answers, failed |-> failed]
            /\ stored.answers \in Seq(Answer) /\ failed \subseteq Text
        BY DEF IInv, Stored, Types
      <3>. QED BY <2>2, <3>1
    <2>. QED BY <2>1, <2>2, <2>3 DEF IInv, Types, TypeOK, Link, Work
  <1>. QED BY <1>1, Invariance, PTL

\* Whatever the user switches to while the fragments of a message are looked for,
\* while its connection opens or while it lies queued, dispatchMessage and send()
\* put it only on a connection of the conversation it was written in.
THEOREM RequestsLeaveFromHome == Spec => []SentFromHome
  <1>1. IInv => SentFromHome
    BY DEF IInv, Wiring, Wired, Fits, SentFromHome
  <1>. QED BY <1>1, Invariance, PTL

\* saveChatHistory is called whenever it must be: after any step, loading the page
\* again shows the history in memory, its failed messages and its completed answers
\* as they are, and the screen is the active conversation of the history.
THEOREM NothingLostOnReload == Spec => []ReloadShowsTheSame
  <1>1. IInv => ReloadShowsTheSame
    <2>. SUFFICES ASSUME IInv PROVE ReloadShowsTheSame
      OBVIOUS
    <2>1. Archived(history, active, shown, origin, Len(answers), made)
      BY DEF IInv, Library
    <2>2. stored.history = history /\ stored.failed = failed
      BY DEF IInv, Stored
    <2>3. ASSUME NEW i \in DOMAIN history, NEW j \in DOMAIN history[i].messages,
                 IsAnswer(history[i].messages[j])
          PROVE  history[i].messages[j] \in 1 .. Len(answers)
      <3>1. history \in Seq(Conversation)
        BY <2>1 DEF Archived
      <3>2. history[i] \in Range(history) /\ history[i] \in Conversation
        <4>1. history[i] \in Range(history)
          BY DEF Range
        <4>. QED BY <3>1, <4>1, RangeOfSeq
      <3>3. history[i].messages[j] \in Range(history[i].messages)
        BY DEF Range
      <3>. QED BY <2>1, <2>3, <3>2, <3>3 DEF Archived, Kept, FromHere, IsAnswer
    <2>4. stored.answers \in Seq(Answer) /\ DOMAIN stored.answers = 1 .. Len(answers)
      BY DEF IInv, Stored
    <2>5. \A m \in 1 .. Len(answers) : /\ stored.answers[m].done = answers[m].done
                                       /\ answers[m].done # NoText => stored.answers[m] = answers[m]
      BY DEF IInv, Stored
    <2>6. active \in Ids(history) <=> active # NoConversation
      BY <2>1, NobodyIsZero
    <2>7. active \in Ids(history) => Find(history, active).messages = Last_(shown, MaxMessages)
      <3>1. history \in Seq(Conversation) /\ Apart(history)
        BY <2>1 DEF Archived
      <3>2. active \in Ids(history) =>
              \E c \in Range(history) : c.id = active /\ c.messages = Last_(shown, MaxMessages)
        BY <2>1, <2>6 DEF Archived
      <3>. QED BY <3>1, <3>2, Found
    <2>8. active \notin Ids(history) => shown = <<>>
      BY <2>1, <2>6 DEF Archived
    <2>. QED BY <2>2, <2>3, <2>4, <2>5, <2>7, <2>8 DEF ReloadShowsTheSame
  <1>. QED BY <1>1, Invariance, PTL

\* While the view of chat-view.ts streams its send button is disabled, and a dispatch will
\* resume, a document is being indexed, or the connection in use has a request to send or
\* under way; or else a session was lost with what the turn waited for, which is the one
\* way in which it may stream for a turn nobody will end.
THEOREM NobodyWaitsInVain == Spec => []StreamsForSomething
  <1>1. IInv => StreamsForSomething
    BY DEF IInv
  <1>. QED BY <1>1, Invariance, PTL
=============================================================================
