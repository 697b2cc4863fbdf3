--------------------------- MODULE LocalRagProofs ---------------------------
(***************************************************************************)
(* Proofs about LocalRag, for any documents, scopes, scores, texts and     *)
(* number of requests and sessions.                                        *)
(*                                                                         *)
(* Two things carry them.  Requests are served in the order they are       *)
(* posted, so what a clear undid was asked for before all that is still to *)
(* be served.  And a vector whose document has any chunk at all has its    *)
(* own, so the join of a query drops a vector only with its whole          *)
(* document, and never gives one a chunk that is not its own.  That        *)
(* a document's best and then the best of these are the best of all is a   *)
(* fact about Top, which is proved first.                                  *)
(*                                                                         *)
(* The chunks of a text and the ranking are recursive: a recursive         *)
(* function is shown to exist up to each size, and what it gives to hold   *)
(* up to each size, by the least counterexample there would be (UpTo).     *)
(***************************************************************************)
EXTENDS LocalRag, FiniteSetTheorems, FunctionTheorems, SequenceTheorems, TLAPS

\* Min of FiniteSetsExt is what its name says.
LEMMA MinIsLeast ==
  ASSUME NEW S \in SUBSET Nat, S # {}
  PROVE  Min(S) \in S /\ \A y \in S : Min(S) <= y
  <1>. DEFINE below == {0 .. x - 1 : x \in S}
  <1>1. below \subseteq FiniteSubsetsOf(Nat)
    <2>. SUFFICES ASSUME NEW x \in S PROVE 0 .. x - 1 \in SUBSET Nat /\ IsFiniteSet(0 .. x - 1)
      BY DEF FiniteSubsetsOf
    <2>. QED BY FS_Interval
  <1>2. PICK I \in below : \A J \in below : <<J, I>> \notin StrictSubsetOrdering(Nat)
    <2>. HIDE DEF below
    <2>1. below # {} => \E I \in below : \A J \in below : ~ (<<J, I>> \in StrictSubsetOrdering(Nat))
      BY <1>1, FS_StrictSubsetOrderingWellFounded, WFMin, Zenon
    <2>2. below # {}
      BY DEF below
    <2>. QED BY <2>1, <2>2
  <1>3. PICK x \in S : I = 0 .. x - 1
    BY <1>2
  <1>4. \A y \in S : x <= y
    <2>. SUFFICES ASSUME NEW y \in S, y < x PROVE FALSE
      OBVIOUS
    <2>1. 0 .. y - 1 \in below /\ 0 .. y - 1 \subseteq I /\ y \in I /\ y \notin 0 .. y - 1
      BY <1>3
    <2>2. <<0 .. y - 1, I>> \in StrictSubsetOrdering(Nat)
      BY <2>1, <1>3 DEF StrictSubsetOrdering
    <2>. QED BY <1>2, <2>1, <2>2
  <1>. QED BY <1>4 DEF Min

-----------------------------------------------------------------------------
(* Recursive definitions, over numbers: what holds of 0, and of a number   *)
(* when it holds of the one before, holds up to n.                         *)

LEMMA UpTo ==
  ASSUME NEW n \in Nat, NEW D, 0 \in D, \A i \in 1 .. n : i - 1 \in D => i \in D
  PROVE  0 .. n \subseteq D
  <1>. DEFINE B == (0 .. n) \ D
  <1>. SUFFICES ASSUME B # {} PROVE FALSE
    OBVIOUS
  <1>1. B \in SUBSET Nat
    OBVIOUS
  <1>2. Min(B) \in B /\ \A y \in B : Min(B) <= y
    <2>. HIDE DEF B
    <2>. QED BY <1>1, MinIsLeast
  <1>3. Min(B) \in 1 .. n /\ Min(B) - 1 \in 0 .. n /\ Min(B) - 1 \notin B
    BY <1>2
  <1>. QED BY <1>2, <1>3

-----------------------------------------------------------------------------
(* The chunks of a text.                                                   *)

\* The chunk that begins at word a of a text of w.
Window(a, w) == a .. (IF a + ChunkSize > w THEN w ELSE a + ChunkSize) - 1

\* The recursive function of chunkText exists: it does from w down to each start.
LEMMA ChunksAreDefined ==
  ASSUME NEW w \in Nat
  PROVE  \E f : /\ f[w] = <<>>
                /\ \A s \in 0 .. w - 1 :
                     f[s] = <<Window(s, w)>>
                            \o (IF s + ChunkSize >= w THEN <<>> ELSE f[s + ChunkSize - Overlap])
                /\ ChunkText(w) = f[0]
  <1>. DEFINE Step(g, s) == IF s >= w THEN <<>>
                            ELSE <<Window(s, w)>>
                                 \o (IF s + ChunkSize >= w THEN <<>> ELSE g[s + ChunkSize - Overlap])
              Is(g, n) == g = [s \in w - n .. w |-> Step(g, s)]
              D == {n \in Nat : \E g : Is(g, n)}
  <1>. USE ChunkAssumption
  <1>1. 0 \in D
    <2>. DEFINE g == [s \in w .. w |-> <<>>]
    <2>1. Is(g, 0)
      BY SMT
    <2>. HIDE DEF Is, g
    <2>. QED BY <2>1
  <1>2. ASSUME NEW n \in 1 .. w, n - 1 \in D
        PROVE  n \in D
    <2>1. PICK g : Is(g, n - 1)
      BY <1>2
    <2>. DEFINE h == [s \in w - n .. w |-> IF s = w - n THEN Step(g, s) ELSE g[s]]
    <2>2. \A s \in w - (n - 1) .. w : h[s] = g[s] /\ g[s] = Step(g, s)
      <3>. SUFFICES ASSUME NEW s \in w - (n - 1) .. w PROVE h[s] = g[s] /\ g[s] = Step(g, s)
        OBVIOUS
      <3>1. g[s] = Step(g, s)
        <4>. HIDE DEF Step
        <4>. QED BY <2>1
      <3>2. s \in w - n .. w /\ s # w - n
        OBVIOUS
      <3>. HIDE DEF Step
      <3>. QED BY <3>1, <3>2
    <2>3. \A s \in w - n .. w : Step(g, s) = Step(h, s)
      <3>. SUFFICES ASSUME NEW s \in w - n .. w PROVE Step(g, s) = Step(h, s)
        OBVIOUS
      <3>1. CASE s + ChunkSize >= w
        BY <3>1
      <3>2. CASE ~ (s + ChunkSize >= w)
        <4>1. s + ChunkSize - Overlap \in w - (n - 1) .. w
          BY <3>2
        <4>. HIDE DEF h
        <4>. QED BY <4>1, <2>2
      <3>. QED BY <3>1, <3>2
    <2>4. \A s \in w - n .. w : h[s] = Step(h, s)
      <3>. SUFFICES ASSUME NEW s \in w - n .. w PROVE h[s] = Step(h, s)
        OBVIOUS
      <3>1. h[s] = Step(g, s)
        <4>1. CASE s = w - n
          <5>. HIDE DEF Step
          <5>. QED BY <4>1
        <4>2. CASE s # w - n
          <5>1. s \in w - (n - 1) .. w
            BY <4>2
          <5>. HIDE DEF Step, h
          <5>. QED BY <5>1, <2>2
        <4>. QED BY <4>1, <4>2
      <3>. HIDE DEF Step, h
      <3>. QED BY <3>1, <2>3
    <2>5. Is(h, n)
      <3>1. h = [s \in w - n .. w |-> h[s]]
        OBVIOUS
      <3>. HIDE DEF Step, h
      <3>. QED BY <3>1, <2>4
    <2>. HIDE DEF h, Is
    <2>. QED BY <2>5
  <1>3. \E g : Is(g, w)
    <2>1. 0 .. w \subseteq D
      <3>. HIDE DEF D
      <3>. QED BY <1>1, <1>2, UpTo
    <2>. QED BY <2>1
  <1>. DEFINE f == CHOOSE g : Is(g, w)
  <1>4. Is(f, w)
    <2>. HIDE DEF Is
    <2>. QED BY <1>3
  <1>5. ChunkText(w) = f[0]
    BY DEF ChunkText, Window
  <1>6. \A s \in 0 .. w : f[s] = Step(f, s)
    <2>. HIDE DEF f, Step
    <2>. QED BY <1>4
  <1>. HIDE DEF f
  <1>7. f[w] = <<>>
    <2>1. f[w] = Step(f, w)
      <3>. HIDE DEF Step
      <3>. QED BY <1>6
    <2>. QED BY <2>1
  <1>8. \A s \in 0 .. w - 1 :
          f[s] = <<Window(s, w)>>
                 \o (IF s + ChunkSize >= w THEN <<>> ELSE f[s + ChunkSize - Overlap])
    <2>. SUFFICES ASSUME NEW s \in 0 .. w - 1
                  PROVE  f[s] = <<Window(s, w)>>
                                \o (IF s + ChunkSize >= w THEN <<>> ELSE f[s + ChunkSize - Overlap])
      OBVIOUS
    <2>1. s \in 0 .. w /\ ~ (s >= w)
      OBVIOUS
    <2>2. f[s] = Step(f, s)
      <3>. HIDE DEF Step
      <3>. QED BY <1>6, <2>1
    <2>. QED BY <2>1, <2>2
  <1>. QED BY <1>5, <1>7, <1>8

\* What a run of chunks from word s on is.
Covering(c, s, w) ==
  /\ c \in Seq(SUBSET Nat) /\ c # <<>> /\ c[1] = Window(s, w)
  /\ UNION Range(c) = s .. w - 1
  /\ \A i \in DOMAIN c : \E a \in s .. w - 1 : c[i] = Window(a, w)
  /\ \A i \in 2 .. Len(c) : Cardinality(c[i] \cap c[i - 1]) = Overlap
  /\ \A i, j \in DOMAIN c : i # j => ~ c[i] \subseteq c[j]

\* The chunk from s that reaches the end of the text is such a run.
LEMMA LastChunkCovers ==
  ASSUME NEW w \in Nat, NEW s \in 0 .. w - 1, s + ChunkSize >= w
  PROVE  Covering(<<Window(s, w)>>, s, w)
  <1>. DEFINE c == <<Window(s, w)>>
  <1>. USE ChunkAssumption
  <1>1. Window(s, w) = s .. w - 1 /\ s .. w - 1 \subseteq Nat
    BY DEF Window
  <1>2. c \in Seq(SUBSET Nat) /\ Len(c) = 1 /\ DOMAIN c = {1} /\ c[1] = Window(s, w) /\ c # <<>>
    BY <1>1
  <1>3. Range(c) = {Window(s, w)}
    BY <1>2 DEF Range
  <1>. HIDE DEF c
  <1>. QED BY <1>1, <1>2, <1>3 DEF Covering

\* And so is one that does not, before a run from Overlap words before its end.
LEMMA OneMoreCovers ==
  ASSUME NEW w \in Nat, NEW s \in 0 .. w - 1, s + ChunkSize < w, NEW rest,
         Covering(rest, s + ChunkSize - Overlap, w)
  PROVE  Covering(<<Window(s, w)>> \o rest, s, w)
  <1>. DEFINE t == s + ChunkSize - Overlap
              c == <<Window(s, w)>> \o rest
  <1>. USE ChunkAssumption
  <1>1. /\ Window(s, w) = s .. s + ChunkSize - 1 /\ Window(s, w) \subseteq Nat
        /\ t \in s + 1 .. w - 1 /\ t <= s + ChunkSize
    BY DEF Window
  <1>2. rest \in Seq(SUBSET Nat) /\ Len(rest) \in Nat \ {0}
    BY EmptySeq, SMT DEF Covering
  <1>3. /\ c \in Seq(SUBSET Nat) /\ Len(c) = Len(rest) + 1 /\ c # <<>>
        /\ c[1] = Window(s, w) /\ \A i \in 2 .. Len(c) : i - 1 \in DOMAIN rest /\ c[i] = rest[i - 1]
    BY <1>1, <1>2
  <1>. HIDE DEF c
  <1>4. /\ DOMAIN c = 1 .. Len(rest) + 1 /\ DOMAIN rest = 1 .. Len(rest)
        /\ \A i \in DOMAIN c : i # 1 => i \in 2 .. Len(c) /\ i - 1 \in DOMAIN rest /\ c[i] = rest[i - 1]
    BY <1>2, <1>3
  <1>5. Range(c) = {Window(s, w)} \cup Range(rest)
    <2>1. \A i \in DOMAIN rest : i + 1 \in DOMAIN c /\ c[i + 1] = rest[i]
      BY <1>2, <1>3, <1>4
    <2>2. 1 \in DOMAIN c
      BY <1>2, <1>4
    <2>3. {c[i] : i \in DOMAIN c} = {Window(s, w)} \cup {rest[i] : i \in DOMAIN rest}
      <3>1. ASSUME NEW i \in DOMAIN c PROVE c[i] \in {Window(s, w)} \cup {rest[j] : j \in DOMAIN rest}
        <4>1. CASE i = 1
          BY <1>3, <4>1
        <4>2. CASE i # 1
          <5>1. i - 1 \in DOMAIN rest /\ c[i] = rest[i - 1]
            BY <1>4, <4>2
          <5>. QED BY <5>1
        <4>. QED BY <4>1, <4>2
      <3>2. Window(s, w) \in {c[i] : i \in DOMAIN c}
        BY <1>3, <2>2
      <3>3. ASSUME NEW j \in DOMAIN rest PROVE rest[j] \in {c[i] : i \in DOMAIN c}
        BY <2>1
      <3>. QED BY <3>1, <3>2, <3>3
    <2>. QED BY <2>3 DEF Range
  <1>6. UNION Range(c) = s .. w - 1
    <2>1. UNION Range(c) = Window(s, w) \cup UNION Range(rest)
      BY <1>5
    <2>2. UNION Range(rest) = t .. w - 1
      BY DEF Covering
    <2>. QED BY <1>1, <2>1, <2>2
  <1>7. \A i \in DOMAIN rest : \E a \in t .. w - 1 : rest[i] = Window(a, w)
    BY DEF Covering
  <1>8. \A i \in DOMAIN c : \E a \in s .. w - 1 : c[i] = Window(a, w)
    <2>. SUFFICES ASSUME NEW i \in DOMAIN c PROVE \E a \in s .. w - 1 : c[i] = Window(a, w)
      OBVIOUS
    <2>1. CASE i = 1
      BY <1>3, <2>1
    <2>2. CASE i # 1
      <3>1. PICK a \in t .. w - 1 : c[i] = Window(a, w)
        BY <1>4, <1>7, <2>2
      <3>. QED BY <1>1, <3>1
    <2>. QED BY <2>1, <2>2
  <1>9. \A i \in DOMAIN rest : ~ Window(s, w) \subseteq rest[i] /\ ~ rest[i] \subseteq Window(s, w)
    <2>. SUFFICES ASSUME NEW i \in DOMAIN rest
                  PROVE  ~ Window(s, w) \subseteq rest[i] /\ ~ rest[i] \subseteq Window(s, w)
      OBVIOUS
    <2>1. PICK a \in t .. w - 1 : rest[i] = Window(a, w)
      BY <1>7
    <2>2. s \in Window(s, w) /\ s \notin Window(a, w)
      BY <1>1 DEF Window
    <2>3. \E x \in Window(a, w) : x \notin Window(s, w)
      <3>1. CASE a + ChunkSize > w
        BY <1>1, <3>1 DEF Window
      <3>2. CASE ~ (a + ChunkSize > w)
        <4>1. a + ChunkSize - 1 \in Window(a, w) /\ a + ChunkSize - 1 \notin Window(s, w)
          BY <1>1, <3>2 DEF Window
        <4>. QED BY <4>1
      <3>. QED BY <3>1, <3>2
    <2>. QED BY <2>1, <2>2, <2>3
  <1>10. \A i, j \in DOMAIN c : i # j => ~ c[i] \subseteq c[j]
    <2>. SUFFICES ASSUME NEW i \in DOMAIN c, NEW j \in DOMAIN c, i # j PROVE ~ c[i] \subseteq c[j]
      OBVIOUS
    <2>1. CASE i = 1
      BY <1>3, <1>4, <1>9, <2>1, Zenon
    <2>2. CASE j = 1
      <3>1. i - 1 \in DOMAIN rest /\ c[i] = rest[i - 1] /\ c[j] = Window(s, w)
        BY <1>3, <1>4, <2>2
      <3>. QED BY <1>9, <3>1
    <2>3. CASE i # 1 /\ j # 1
      <3>1. \A k, l \in DOMAIN rest : k # l => ~ rest[k] \subseteq rest[l]
        BY DEF Covering
      <3>2. i - 1 \in DOMAIN rest /\ j - 1 \in DOMAIN rest /\ c[i] = rest[i - 1] /\ c[j] = rest[j - 1]
        BY <1>4, <2>3
      <3>3. i - 1 # j - 1
        BY <1>2, <1>4
      <3>. QED BY <3>1, <3>2, <3>3
    <2>. QED BY <2>1, <2>2, <2>3
  <1>11. \A i \in 2 .. Len(c) : Cardinality(c[i] \cap c[i - 1]) = Overlap
    <2>. SUFFICES ASSUME NEW i \in 2 .. Len(c) PROVE Cardinality(c[i] \cap c[i - 1]) = Overlap
      OBVIOUS
    <2>1. CASE i = 2
      <3>1. c[2] = Window(t, w) /\ c[1] = Window(s, w)
        BY <1>2, <1>3, <2>1 DEF Covering
      <3>2. Window(t, w) \cap Window(s, w) = t .. s + ChunkSize - 1
        BY <1>1 DEF Window
      <3>3. Cardinality(t .. s + ChunkSize - 1) = Overlap
        BY <1>1, FS_Interval
      <3>4. i - 1 = 1
        BY <2>1
      <3>. QED BY <2>1, <3>1, <3>2, <3>3, <3>4, Zenon
    <2>2. CASE i # 2
      <3>1. i \in Int /\ i - 1 \in 2 .. Len(rest) /\ i - 1 \in 2 .. Len(c)
        BY <1>2, <1>3, <2>2
      <3>2. c[i] = rest[i - 1] /\ c[i - 1] = rest[i - 1 - 1]
        BY <1>3, <3>1
      <3>3. Cardinality(rest[i - 1] \cap rest[i - 1 - 1]) = Overlap
        BY <3>1 DEF Covering
      <3>. QED BY <3>2, <3>3
    <2>. QED BY <2>1, <2>2
  <1>12. Covering(c, s, w)
    BY <1>3, <1>6, <1>8, <1>10, <1>11 DEF Covering
  <1>. QED BY <1>12 DEF c

\* So the chunks of any text do.
LEMMA ChunksCover ==
  ASSUME NEW w \in Nat
  PROVE  IF w = 0 THEN ChunkText(w) = <<>> ELSE Covering(ChunkText(w), 0, w)
  <1>. USE ChunkAssumption
  <1>1. PICK f : /\ f[w] = <<>>
                 /\ \A s \in 0 .. w - 1 :
                      f[s] = <<Window(s, w)>>
                             \o (IF s + ChunkSize >= w THEN <<>> ELSE f[s + ChunkSize - Overlap])
                 /\ ChunkText(w) = f[0]
    BY ChunksAreDefined
  <1>2. ASSUME NEW s \in 0 .. w - 1, s + ChunkSize < w => Covering(f[s + ChunkSize - Overlap], s + ChunkSize - Overlap, w)
        PROVE  Covering(f[s], s, w)
    <2>1. CASE s + ChunkSize >= w
      <3>1. f[s] = <<Window(s, w)>> \o <<>>
        BY <1>1, <2>1
      <3>2. <<Window(s, w)>> \o <<>> = <<Window(s, w)>>
        OBVIOUS
      <3>. QED BY <2>1, <3>1, <3>2, LastChunkCovers
    <2>2. CASE ~ (s + ChunkSize >= w)
      <3>1. f[s] = <<Window(s, w)>> \o f[s + ChunkSize - Overlap] /\ s + ChunkSize < w
        BY <1>1, <2>2
      <3>. QED BY <1>2, <3>1, OneMoreCovers
    <2>. QED BY <2>1, <2>2
  <1>. DEFINE D == {n \in Nat : \A s \in 0 .. w - 1 : w - s <= n => Covering(f[s], s, w)}
  <1>3. 0 \in D
    OBVIOUS
  <1>4. ASSUME NEW n \in 1 .. w, n - 1 \in D PROVE n \in D
    <2>. SUFFICES ASSUME NEW s \in 0 .. w - 1, w - s <= n PROVE Covering(f[s], s, w)
      OBVIOUS
    <2>1. s + ChunkSize < w => /\ s + ChunkSize - Overlap \in 0 .. w - 1
                               /\ w - (s + ChunkSize - Overlap) <= n - 1
      OBVIOUS
    <2>. QED BY <1>2, <1>4, <2>1
  <1>5. 0 .. w \subseteq D
    <2>. HIDE DEF D
    <2>. QED BY <1>3, <1>4, UpTo
  <1>6. w # 0 => Covering(f[0], 0, w)
    <2>1. w \in D
      <3>. HIDE DEF D
      <3>. QED BY <1>5
    <2>. QED BY <2>1
  <1>. QED BY <1>1, <1>6

\* And they are finitely many.
LEMMA ChunksAreFew ==
  ASSUME NEW w \in Nat
  PROVE  IsFiniteSet(DOMAIN ChunkText(w))
  <1>1. CASE w = 0
    <2>1. DOMAIN ChunkText(w) = {}
      BY <1>1, ChunksCover
    <2>. QED BY <2>1, FS_EmptySet
  <1>2. CASE w # 0
    <2>1. ChunkText(w) \in Seq(SUBSET Nat)
      BY <1>2, ChunksCover DEF Covering
    <2>2. DOMAIN ChunkText(w) = 1 .. Len(ChunkText(w)) /\ Len(ChunkText(w)) \in Nat
      BY <2>1
    <2>. QED BY <2>2, FS_Interval
  <1>. QED BY <1>1, <1>2

-----------------------------------------------------------------------------
(* The best of a set.                                                      *)

\* Of records with an id and a score: the one comes before the other.
Better(s, r) == s.score > r.score \/ (s.score = r.score /\ s.id < r.id)
Ranked(S) ==
  /\ IsFiniteSet(S)
  /\ \A r \in S : r.id \in Int /\ r.score \in Int
  /\ \A r, s \in S : r.id = s.id => r = s
AtMost(n, k) == IF n < k THEN n ELSE k

\* Top(S, k) has k of S, or all, and those it has come before those it has not.  (The
\* number of those ahead of a record tells the records apart: it is a bijection.)
LEMMA TopIsBest ==
  ASSUME NEW S, Ranked(S), NEW k \in Nat
  PROVE  /\ Top(S, k) \subseteq S
         /\ Cardinality(Top(S, k)) = AtMost(Cardinality(S), k)
         /\ \A x \in Top(S, k), y \in S \ Top(S, k) : Better(x, y)
  <1>. DEFINE ahead(r) == {s \in S : s.score > r.score \/ (s.score = r.score /\ s.id < r.id)}
              n == Cardinality(S)
              rank == [r \in S |-> Cardinality(ahead(r))]
  <1>1. n \in Nat /\ IsFiniteSet(S)
    BY FS_CardinalityType DEF Ranked
  <1>2. \A r \in S : IsFiniteSet(ahead(r)) /\ rank[r] \in 0 .. n - 1
    <2>. SUFFICES ASSUME NEW r \in S
                  PROVE  IsFiniteSet(ahead(r)) /\ rank[r] \in 0 .. n - 1
      OBVIOUS
    <2>1. ahead(r) \in SUBSET S /\ r \notin ahead(r)
      BY DEF Ranked
    <2>2. IsFiniteSet(ahead(r)) /\ Cardinality(ahead(r)) <= n /\ Cardinality(ahead(r)) # n
      BY <1>1, <2>1, FS_Subset
    <2>3. Cardinality(ahead(r)) \in Nat
      BY <2>2, FS_CardinalityType
    <2>. QED BY <1>1, <2>2, <2>3
  <1>3. \A r, s \in S : Better(s, r) => rank[s] < rank[r]
    <2>. SUFFICES ASSUME NEW r \in S, NEW s \in S, Better(s, r)
                  PROVE  rank[s] < rank[r]
      OBVIOUS
    <2>1. ahead(s) \in SUBSET ahead(r) /\ s \in ahead(r) /\ s \notin ahead(s)
      BY DEF Ranked, Better
    <2>2. IsFiniteSet(ahead(r)) /\ IsFiniteSet(ahead(s))
      BY <1>2
    <2>3. Cardinality(ahead(s)) <= Cardinality(ahead(r)) /\ Cardinality(ahead(s)) # Cardinality(ahead(r))
      BY <2>1, <2>2, FS_Subset
    <2>4. Cardinality(ahead(s)) \in Nat /\ Cardinality(ahead(r)) \in Nat
      BY <2>2, FS_CardinalityType
    <2>. QED BY <2>3, <2>4
  <1>4. \A r, s \in S : r # s => Better(r, s) \/ Better(s, r)
    BY DEF Ranked, Better
  <1>5. \A r, s \in S : rank[r] = rank[s] => r = s
    <2>. SUFFICES ASSUME NEW r \in S, NEW s \in S, r # s PROVE rank[r] # rank[s]
      OBVIOUS
    <2>1. rank[r] \in 0 .. n - 1 /\ rank[s] \in 0 .. n - 1 /\ (rank[r] < rank[s] \/ rank[s] < rank[r])
      BY <1>2, <1>3, <1>4
    <2>. HIDE DEF rank
    <2>. QED BY <1>1, <2>1
  <1>6. rank \in Bijection(S, 0 .. n - 1)
    <2>. HIDE DEF ahead
    <2>1. rank \in [S -> 0 .. n - 1]
      BY <1>2
    <2>3. rank \in Injection(S, 0 .. n - 1)
      <3>. HIDE DEF rank
      <3>. QED BY <2>1, <1>5, Fun_IsInj
    <2>4. IsFiniteSet(0 .. n - 1) /\ Cardinality(0 .. n - 1) = n
      BY <1>1, FS_Interval
    <2>. QED BY <2>3, <2>4, FS_Injection DEF Bijection
  <1>7. Top(S, k) = {r \in S : rank[r] < k}
    BY DEF Top
  <1>8. Cardinality(Top(S, k)) = AtMost(n, k)
    <2>. DEFINE m == AtMost(n, k)
                f == [r \in Top(S, k) |-> rank[r]]
    <2>. HIDE DEF rank
    <2>1. m \in Nat
      BY <1>1 DEF AtMost
    <2>2. IsFiniteSet(0 .. m - 1) /\ Cardinality(0 .. m - 1) = m
      <3>. HIDE DEF m
      <3>. QED BY <2>1, FS_Interval
    <2>3. f \in [Top(S, k) -> 0 .. m - 1]
      BY <1>1, <1>6, <1>7 DEF AtMost, Bijection, Injection
    <2>4. \A r, s \in Top(S, k) : rank[r] = rank[s] => r = s
      BY <1>7, <1>5
    <2>5. \A i \in 0 .. m - 1 : \E r \in Top(S, k) : f[r] = i
      BY <1>1, <1>6, <1>7 DEF AtMost, Bijection, Surjection
    <2>6. f \in Bijection(Top(S, k), 0 .. m - 1)
      <3>1. \A r, s \in Top(S, k) : f[r] = f[s] => r = s
        BY <2>4
      <3>. HIDE DEF f, m
      <3>. QED BY <2>3, <2>5, <3>1, Fun_IsBij
    <2>7. IsFiniteSet(Top(S, k))
      BY <1>1, <1>7, FS_Subset
    <2>. QED BY <2>2, <2>6, <2>7, FS_Bijection DEF ExistsBijection
  <1>9. \A x \in Top(S, k), y \in S \ Top(S, k) : Better(x, y)
    <2>. HIDE DEF rank
    <2>. QED BY <1>3, <1>4, <1>6, <1>7, <1>1 DEF Bijection, Injection
  <1>. QED BY <1>7, <1>8, <1>9

\* Max of FiniteSetsExt is what its name says, for a finite set.
LEMMA MaxIsMost ==
  ASSUME NEW S \in SUBSET Nat, S # {}, IsFiniteSet(S)
  PROVE  Max(S) \in S /\ \A y \in S : Max(S) >= y
  <1>. DEFINE over == {{y \in S : y > x} : x \in S}
  <1>1. over \subseteq FiniteSubsetsOf(S)
    <2>. SUFFICES ASSUME NEW x \in S PROVE IsFiniteSet({y \in S : y > x})
      BY DEF FiniteSubsetsOf
    <2>. QED BY FS_Subset
  <1>2. PICK I \in over : \A J \in over : <<J, I>> \notin StrictSubsetOrdering(S)
    <2>. HIDE DEF over
    <2>1. over # {} => \E I \in over : \A J \in over : ~ (<<J, I>> \in StrictSubsetOrdering(S))
      BY <1>1, FS_StrictSubsetOrderingWellFounded, WFMin, Zenon
    <2>2. over # {}
      BY DEF over
    <2>. QED BY <2>1, <2>2
  <1>3. PICK x \in S : I = {y \in S : y > x}
    BY <1>2
  <1>4. \A y \in S : x >= y
    <2>. SUFFICES ASSUME NEW y \in S, y > x PROVE FALSE
      OBVIOUS
    <2>1. {z \in S : z > y} \in over
      OBVIOUS
    <2>2. {z \in S : z > y} \subseteq I /\ y \in I /\ y \notin {z \in S : z > y}
      <3>1. ~ (y > y) /\ \A z \in S : z > y => z > x
        OBVIOUS
      <3>. QED BY <1>3, <3>1, Zenon
    <2>3. <<{z \in S : z > y}, I>> \in StrictSubsetOrdering(S)
      BY <2>2, <1>3 DEF StrictSubsetOrdering
    <2>. QED BY <1>2, <2>1, <2>3
  <1>. QED BY <1>4 DEF Max

-----------------------------------------------------------------------------

\* The numbers of the chunks of the text being indexed, and those Score knows.  (Names
\* of their own, so that no proof has to look inside ChunkText.)
TheNumbers == DOMAIN TheChunks
Scored(d) == DOMAIN Score[d]

\* Every text there may be has chunks that Score knows, by assumption.
LEMMA NumbersAreScored ==
  ASSUME NEW d \in Doc, NEW w \in Words
  PROVE  DOMAIN ChunkText(w) \subseteq Scored(d) /\ Scored(d) \subseteq Nat
  <1>1. Score[d] \in Seq(Int)
    BY ScoreAssumption
  <1>2. DOMAIN Score[d] = 1 .. Len(Score[d]) /\ Len(Score[d]) \in Nat
    BY <1>1
  <1>3. DOMAIN Score[d] \subseteq Nat
    BY <1>2
  <1>. QED BY <1>3, ScoreAssumption DEF Scored

\* Everything stored is one thing, and worth something to a query.
StoreTyped ==
  /\ chunks \subseteq Chunk /\ IsFiniteSet(chunks)
  /\ vectors \subseteq [id : Nat, key : Doc, doc : Doc, n : Nat, run : Request] /\ IsFiniteSet(vectors)
  /\ records \subseteq [doc : Doc, n : Nat, run : Request] /\ IsFiniteSet(records)
  /\ \A c \in chunks \cup vectors \cup records : c.n \in Scored(c.doc)
  /\ \A c, d \in chunks : (c.id = d.id \/ (c.doc = d.doc /\ c.n = d.n)) => c = d

\* What is asked makes sense.
PageTyped ==
  /\ asked \in [Request -> [kind : Kinds \cup {"none"}, doc : Doc \cup {NoDoc}, words : Words \cup {0}]]
  /\ \A r \in Request : asked[r].kind = "index" => asked[r].doc \in Doc /\ asked[r].words \in Words
  /\ awaited \subseteq Request /\ session \in 1 .. Sessions

\* What is still to be inserted is of the text being indexed.
WorkerTyped ==
  /\ store \in Stores \cup {NoStore} /\ nextId \in Nat \ {0}
  /\ queue \in Seq(Request) /\ serving \in Request \cup {NoRequest}
  /\ (at = "idle") <=> (serving = NoRequest)
  /\ left \subseteq Nat
  /\ Serving("index") /\ at \in {"inserting", "chunkInserted"} => left \subseteq TheNumbers

Typed == StoreTyped /\ PageTyped /\ WorkerTyped

\* The three together are the type invariant, and more.
LEMMA TypedIsTypeOK == Typed => TypeOK
  BY DEF Typed, StoreTyped, PageTyped, WorkerTyped, TypeOK

\* The page posts with what its callers give it.
LEMMA Posts ==
  ASSUME PostAny
  PROVE  \E k \in Kinds, d \in Doc \cup {NoDoc}, w \in Words \cup {0} :
            (k = "index" => d \in Doc /\ w \in Words) /\ Post(k, d, w)
  <1>. PICK k \in Kinds :
         CASE k = "index" -> \E d \in Doc, w \in Words : Post(k, d, w)
           [] k \in {"query", "delete"} -> \E d \in Doc : Post(k, d, 0)
           [] k = "clear" -> Post(k, NoDoc, 0)
    BY DEF PostAny
  <1>1. CASE k = "index"
    BY <1>1
  <1>2. CASE k \in {"query", "delete"}
    BY <1>2
  <1>3. CASE k = "clear"
    BY <1>3
  <1>. QED BY <1>1, <1>2, <1>3, KindsAssumption

\* What a step does to the requests: one is posted, all are dropped with the worker,
\* the next is taken, or the one being served goes on or is answered.
LEMMA Steps ==
  ASSUME [Next]_vars
  PROVE  \/ PostAny
         \/ Restart
         \/ Take
         \/ UNCHANGED <<queue, asked, session>> /\ serving' \in {serving, NoRequest}
  <1>1. CASE WorkerError \/ Fails
    BY <1>1 DEF WorkerError, worker, Fails, Answers
  <1>2. CASE Serve /\ ~ Take
    BY <1>2 DEF Serve, Goes, Answers, page, Embed, Open, ServeQuery, DeleteVectors, DeleteChunks,
        InsertChunk, InsertVector, IndexedInSqlite, DeleteRecords, PutRecords, ClearVectors,
        ClearChunks, ClearRecords, DeleteConversationChunks, DeleteConversationVectors,
        DeleteConversationRecords
  <1>3. CASE UNCHANGED vars
    BY <1>3 DEF vars, worker, page
  <1>. QED BY <1>1, <1>2, <1>3 DEF Next

\* Nothing is stored or asked at first.
LEMMA InitTyped == Init => Typed
  <1>. SUFFICES ASSUME Init PROVE Typed
    OBVIOUS
  <1>1. StoreTyped
    BY FS_EmptySet DEF Init, StoreTyped
  <1>2. PageTyped
    BY BoundAssumption DEF Init, PageTyped, Nothing
  <1>3. WorkerTyped
    BY DEF Init, WorkerTyped, Serving, NoRequest
  <1>. QED
    BY <1>1, <1>2, <1>3 DEF Typed

\* A step keeps what is asked.
LEMMA PageTypedStep ==
  ASSUME PageTyped, [Next]_vars
  PROVE  PageTyped'
  <1>1. awaited' \subseteq awaited \/ PostAny
    BY DEF Next, Restart, WorkerError, Fails, vars, Serve, Goes, Answers, page, Take, Embed, Open,
        ServeQuery, DeleteVectors, DeleteChunks, InsertChunk, InsertVector, IndexedInSqlite,
        DeleteRecords, PutRecords, ClearVectors, ClearChunks, ClearRecords,
        DeleteConversationChunks, DeleteConversationVectors, DeleteConversationRecords
  <1>2. CASE PostAny
    <2>. PICK k \in Kinds, d \in Doc \cup {NoDoc}, w \in Words \cup {0} :
           (k = "index" => d \in Doc /\ w \in Words) /\ Post(k, d, w)
      BY <1>2, Posts
    <2>. QED BY DEF Post, PageTyped
  <1>3. CASE ~ PostAny
    BY <1>1, <1>3, Steps, BoundAssumption DEF Restart, Take, page, PageTyped
  <1>. QED BY <1>2, <1>3

\* Requests are posted, wait and are served in the order of their numbers.
Was(r) == asked[r] # Nothing
Ordered ==
  /\ \A r \in Request : Was(r) => \A s \in 1 .. r - 1 : Was(s)
  /\ \A i \in DOMAIN queue : Was(queue[i])
  /\ \A i, j \in DOMAIN queue : i < j => queue[i] < queue[j]
  /\ serving # NoRequest => Was(serving) /\ \A i \in DOMAIN queue : serving < queue[i]

\* A step keeps the order: the new request has the highest number so far.
LEMMA OrderedStep ==
  ASSUME Typed, Ordered, [Next]_vars
  PROVE  Ordered'
  <1>. USE BoundAssumption DEF Typed, PageTyped, WorkerTyped, Request, NoRequest
  <1>1. CASE PostAny
    <2>. PICK k \in Kinds, d \in Doc \cup {NoDoc}, w \in Words \cup {0} : Post(k, d, w)
      BY <1>1, Posts
    <2>. PICK r \in Request : /\ asked[r] = Nothing
                              /\ \A s \in 1 .. r - 1 : asked[s] # Nothing
                              /\ asked' = [asked EXCEPT ![r] = [kind |-> k, doc |-> d, words |-> w]]
                              /\ queue' = Append(queue, r)
                              /\ serving' = serving
      BY DEF Post
    <2>1. asked'[r] # Nothing /\ \A s \in Request : Was(s) => asked'[s] # Nothing
      BY KindsAssumption DEF Was, Nothing
    <2>2. \A s \in Request : Was(s) => s < r
      BY DEF Was, Ordered
    <2>3. /\ Len(queue') = Len(queue) + 1 /\ queue'[Len(queue) + 1] = r
          /\ \A i \in DOMAIN queue : queue'[i] = queue[i] /\ queue[i] \in Request
          /\ DOMAIN queue = 1 .. Len(queue) /\ Len(queue) \in Nat
          /\ DOMAIN queue' = 1 .. Len(queue) + 1
      OBVIOUS
    <2>4. \A s \in Request : asked'[s] # Nothing => \A q \in 1 .. s - 1 : asked'[q] # Nothing
      BY <2>1 DEF Ordered, Was
    <2>5. \A i \in DOMAIN queue' : asked'[queue'[i]] # Nothing
      BY <2>1, <2>3 DEF Ordered
    <2>6. \A i, j \in DOMAIN queue' : i < j => queue'[i] < queue'[j]
      BY <2>2, <2>3 DEF Ordered
    <2>7. serving # NoRequest => asked'[serving] # Nothing /\ \A i \in DOMAIN queue' : serving < queue'[i]
      BY <2>1, <2>2, <2>3 DEF Ordered
    <2>. QED BY <2>4, <2>5, <2>6, <2>7 DEF Ordered, Was
  <1>2. CASE Restart
    BY <1>2 DEF Restart, Ordered, Was
  <1>3. CASE Take
    <2>1. /\ serving' = queue[1] /\ asked' = asked
          /\ DOMAIN queue = 1 .. Len(queue) /\ Len(queue) \in Nat \ {0}
          /\ DOMAIN queue' = 1 .. Len(queue) - 1
          /\ \A i \in 1 .. Len(queue) - 1 : queue'[i] = queue[i + 1]
          /\ \A i \in 1 .. Len(queue) : queue[i] \in Int
      BY <1>3 DEF Take, page
    <2>2. /\ \A i \in 1 .. Len(queue) : asked[queue[i]] # Nothing
          /\ \A i, j \in 1 .. Len(queue) : i < j => queue[i] < queue[j]
      BY <2>1 DEF Ordered, Was
    <2>3. asked[serving'] # Nothing /\ \A i \in DOMAIN queue' : serving' < queue'[i] /\ asked[queue'[i]] # Nothing
      <3>. SUFFICES ASSUME NEW i \in DOMAIN queue'
                    PROVE  serving' < queue'[i] /\ asked[queue'[i]] # Nothing
        BY <2>1, <2>2
      <3>1. 1 \in 1 .. Len(queue) /\ i + 1 \in 1 .. Len(queue) /\ 1 < i + 1 /\ queue'[i] = queue[i + 1]
        BY <2>1
      <3>. QED BY <2>1, <2>2, <3>1
    <2>4. \A i, j \in DOMAIN queue' : i < j => queue'[i] < queue'[j]
      <3>. SUFFICES ASSUME NEW i \in DOMAIN queue', NEW j \in DOMAIN queue', i < j
                    PROVE  queue'[i] < queue'[j]
        OBVIOUS
      <3>1. /\ i + 1 \in 1 .. Len(queue) /\ j + 1 \in 1 .. Len(queue) /\ i + 1 < j + 1
            /\ queue'[i] = queue[i + 1] /\ queue'[j] = queue[j + 1]
        BY <2>1
      <3>. QED BY <2>2, <3>1
    <2>. QED BY <2>1, <2>3, <2>4 DEF Ordered, Was
  <1>4. CASE UNCHANGED <<queue, asked, session>> /\ serving' \in {serving, NoRequest}
    BY <1>4 DEF Ordered, Was
  <1>. QED BY <1>1, <1>2, <1>3, <1>4, Steps

\* A step keeps the worker's types, the id it continues from included.
LEMMA WorkerTypedStep ==
  ASSUME Typed, Ordered, [Next]_vars
  PROVE  WorkerTyped'
  <1>. USE BoundAssumption DEF Typed, WorkerTyped, Request, NoRequest, persisted, page, Serving
  <1>1. CASE PostAny
    <2>. PICK k \in Kinds, d \in Doc \cup {NoDoc}, w \in Words \cup {0} :
           (k = "index" => d \in Doc /\ w \in Words) /\ Post(k, d, w)
      BY <1>1, Posts
    <2>. PICK r \in Request : asked[r] = Nothing
                              /\ asked' = [asked EXCEPT ![r] = [kind |-> k, doc |-> d, words |-> w]]
                              /\ queue' = Append(queue, r)
      BY DEF Post
    <2>1. serving # r /\ serving # NoRequest => asked'[serving] = asked[serving]
      BY DEF PageTyped
    <2>2. at \in {"inserting", "chunkInserted"} /\ Serving("index")' =>
            Serving("index") /\ asked'[serving] = asked[serving]
      BY <2>1 DEF Post, Ordered, Was
    <2>3. at \in {"inserting", "chunkInserted"} /\ Serving("index")' => TheNumbers' = TheNumbers
      BY <2>2 DEF Post, TheNumbers, TheChunks
    <2>. QED BY <2>2, <2>3 DEF Post
  <1>2. CASE Restart
    BY <1>2 DEF Restart
  <1>3. CASE Take
    BY <1>3 DEF Take
  <1>4. CASE Fails \/ ServeQuery \/ IndexedInSqlite
    BY <1>4 DEF Fails, ServeQuery, IndexedInSqlite, Answers
  <1>5. UNCHANGED <<asked, serving>> => TheNumbers' = TheNumbers
    BY DEF TheNumbers, TheChunks
  <1>6. CASE WorkerError \/ UNCHANGED vars
    BY <1>5, <1>6 DEF WorkerError, vars, worker
  <1>7. CASE Open
    <2>1. {0} \cup {c.id : c \in chunks} \in SUBSET Nat
      BY DEF StoreTyped, Chunk
    <2>2. IsFiniteSet({0} \cup {c.id : c \in chunks})
      <3>. DEFINE f == [c \in chunks |-> c.id]
      <3>1. f \in Surjection(chunks, {c.id : c \in chunks})
        BY Fun_IsSurj
      <3>2. IsFiniteSet({c.id : c \in chunks})
        BY <3>1, FS_Surjection DEF StoreTyped
      <3>. QED BY <3>2, FS_Union, FS_Singleton
    <2>3. Max({0} \cup {c.id : c \in chunks}) \in Nat
      BY <2>1, <2>2, MaxIsMost
    <2>. QED BY <1>7, <2>3 DEF Open, Goes
  <1>8. CASE Embed \/ DeleteVectors \/ DeleteRecords \/ ClearVectors
    BY <1>8 DEF Embed, DeleteVectors, DeleteRecords, ClearVectors, Ready, Goes
  <1>9. CASE DeleteChunks
    <2>1. TheNumbers \subseteq Nat
      BY <1>9, NumbersAreScored DEF DeleteChunks, PageTyped, TheNumbers, TheChunks
    <2>2. left' = TheNumbers
      BY <1>9 DEF DeleteChunks, TheNumbers
    <2>3. /\ UNCHANGED <<store, nextId, queue, serving, asked>>
          /\ at = "vectorsDeleted" /\ at' = "inserting"
      BY <1>9 DEF DeleteChunks, Goes
    <2>. QED BY <1>5, <2>1, <2>2, <2>3
  <1>10. CASE InsertChunk \/ InsertVector
    BY <1>5, <1>10 DEF InsertChunk, InsertVector, Goes, Answers
  <1>11. CASE PutRecords \/ ClearChunks \/ ClearRecords \/ DeleteConversationVectors
              \/ DeleteConversationRecords
    BY <1>11 DEF PutRecords, ClearChunks, ClearRecords, DeleteConversationVectors,
                 DeleteConversationRecords, Answers
  <1>12. CASE DeleteConversationChunks
    BY <1>12, BoundAssumption DEF DeleteConversationChunks, Ready, Goes, StoreTyped, Chunk, Doc
  <1>. QED
    BY <1>1, <1>2, <1>3, <1>4, <1>6, <1>7, <1>8, <1>9, <1>10, <1>11, <1>12 DEF Next, Serve

-----------------------------------------------------------------------------

\* Between the statements of a request: nothing is stored, and no place is entered
\* where something holds of what the request has written.
LEMMA Resting ==
  ASSUME Restart \/ Take \/ Embed \/ Open \/ ServeQuery \/ IndexedInSqlite \/ Fails
  PROVE  UNCHANGED <<chunks, vectors, records, cleared>> /\ at' \in {"idle", "embedding", "opening", "ready"}
  BY DEF Restart, Take, Embed, Open, ServeQuery, IndexedInSqlite, Fails, Goes, Answers, persisted

\* What the page does leaves the request being served alone.
LEMMA Apart ==
  ASSUME Typed, Ordered, PostAny \/ WorkerError \/ UNCHANGED vars
  PROVE  /\ UNCHANGED <<chunks, vectors, records, cleared, serving, at, left, nextId>>
         /\ serving # NoRequest => asked'[serving] = asked[serving]
  <1>1. CASE PostAny
    <2>. PICK k \in Kinds, d \in Doc \cup {NoDoc}, w \in Words \cup {0} : Post(k, d, w)
      BY <1>1, Posts
    <2>. PICK r \in Request : asked[r] = Nothing
                              /\ asked' = [asked EXCEPT ![r] = [kind |-> k, doc |-> d, words |-> w]]
      BY DEF Post
    <2>. QED BY DEF Post, persisted, Typed, PageTyped, WorkerTyped, Ordered, Was
  <1>2. CASE WorkerError \/ UNCHANGED vars
    BY <1>2 DEF WorkerError, vars, worker, persisted, page
  <1>. QED BY <1>1, <1>2

\* What is indexed is a document's, and its next chunk has a number Score knows.
LEMMA Indexing ==
  ASSUME Typed, Serving("index")
  PROVE  /\ serving \in Request /\ TheDoc \in Doc
         /\ TheNumbers \subseteq Scored(TheDoc) /\ TheNumbers \subseteq Nat /\ IsFiniteSet(TheNumbers)
         /\ at \in {"inserting", "chunkInserted"} /\ left # {} =>
              Min(left) \in left /\ Min(left) \in Nat /\ Min(left) \in Scored(TheDoc)
  <1>1. serving \in Request /\ TheDoc \in Doc /\ asked[serving].words \in Words
    BY DEF Typed, PageTyped, WorkerTyped, Serving, TheDoc
  <1>2. TheNumbers \subseteq Scored(TheDoc) /\ TheNumbers \subseteq Nat
    BY <1>1, NumbersAreScored DEF TheNumbers, TheChunks
  <1>3. left # {} => Min(left) \in left
    BY MinIsLeast DEF Typed, WorkerTyped
  <1>4. IsFiniteSet(TheNumbers)
    BY <1>1, ChunksAreFew, WordsAssumption DEF TheNumbers, TheChunks
  <1>. QED BY <1>1, <1>2, <1>3, <1>4 DEF Typed, WorkerTyped

\* A chunk and its vector are written one after the other.
Inserting == Serving("index") /\ at \in {"inserting", "chunkInserted"}
HasChunk(v) == \E c \in chunks : c.id = v.id /\ c.doc = v.doc /\ c.n = v.n
Paired ==
  /\ \A u, v \in vectors : u.id = v.id => u = v
  /\ \A v \in vectors : v.key = v.doc
  /\ \A v \in vectors : (\E c \in chunks : c.doc = v.doc) => HasChunk(v)
  /\ Serving("index") /\ at = "vectorsDeleted" => \A v \in vectors : v.doc # TheDoc
  /\ Inserting => \A v \in vectors : v.doc = TheDoc => HasChunk(v)
  /\ Serving("index") /\ at = "chunkInserted" =>
       left # {} /\ \E c \in chunks : c.id = nextId - 1 /\ c.doc = TheDoc /\ c.n = Min(left)

\* What a statement writes.
LEMMA Inserts ==
  ASSUME Typed, Paired
  PROVE  /\ InsertChunk => \/ UNCHANGED chunks
                           \/ /\ chunks' = chunks \cup {[id |-> nextId, doc |-> TheDoc, n |-> Min(left), run |-> serving]}
                              /\ \A c \in chunks : c.id # nextId /\ ~ (c.doc = TheDoc /\ c.n = Min(left))
                              /\ left # {} /\ nextId \in Nat
         /\ InsertVector => \/ UNCHANGED vectors
                            \/ /\ vectors' = vectors \cup {[id |-> nextId - 1, key |-> TheDoc, doc |-> TheDoc,
                                                            n |-> Min(left), run |-> serving]}
                               /\ \A v \in vectors : v.id # nextId - 1
                               /\ left # {} /\ nextId - 1 \in Nat
  BY DEF InsertChunk, InsertVector, Paired, Typed, WorkerTyped

\* A step keeps the types of what is stored.
LEMMA StoreTypedStep ==
  ASSUME Typed, Ordered, Paired, [Next]_vars
  PROVE  StoreTyped'
  <1>. USE DEF Typed, StoreTyped
  <1>1. CASE UNCHANGED <<chunks, vectors, records>>
    BY <1>1
  <1>2. CASE DeleteVectors \/ ClearVectors \/ DeleteConversationVectors
    BY <1>2, FS_Subset, FS_EmptySet DEF DeleteVectors, ClearVectors, DeleteConversationVectors
  <1>3. CASE DeleteChunks \/ ClearChunks \/ DeleteConversationChunks
    BY <1>3, FS_Subset, FS_EmptySet DEF DeleteChunks, ClearChunks, DeleteConversationChunks
  <1>4. CASE InsertChunk
    <2>1. UNCHANGED <<vectors, records>> /\ Serving("index") /\ at = "inserting"
      BY <1>4 DEF InsertChunk
    <2>2. CASE UNCHANGED chunks
      BY <2>1, <2>2
    <2>3. CASE ~ UNCHANGED chunks
      <3>. DEFINE new == [id |-> nextId, doc |-> TheDoc, n |-> Min(left), run |-> serving]
      <3>1. /\ chunks' = chunks \cup {new}
            /\ \A c \in chunks : c.id # nextId /\ ~ (c.doc = TheDoc /\ c.n = Min(left))
            /\ left # {} /\ nextId \in Nat
        BY <1>4, <2>3, Inserts
      <3>2. new \in Chunk /\ new.n \in Scored(new.doc)
        BY <2>1, <3>1, Indexing DEF Chunk
      <3>3. IsFiniteSet(chunks')
        BY <3>1, FS_AddElement
      <3>. QED BY <2>1, <3>1, <3>2, <3>3 DEF Chunk
    <2>. QED BY <2>2, <2>3
  <1>5. CASE InsertVector
    <2>1. UNCHANGED <<chunks, records>> /\ Serving("index") /\ at = "chunkInserted"
      BY <1>5 DEF InsertVector
    <2>2. CASE UNCHANGED vectors
      BY <2>1, <2>2
    <2>3. CASE ~ UNCHANGED vectors
      <3>. DEFINE new == [id |-> nextId - 1, key |-> TheDoc, doc |-> TheDoc, n |-> Min(left), run |-> serving]
      <3>1. vectors' = vectors \cup {new} /\ left # {} /\ nextId - 1 \in Nat
        BY <1>5, <2>3, Inserts
      <3>2. /\ new \in [id : Nat, key : Doc, doc : Doc, n : Nat, run : Request]
            /\ new.n \in Scored(new.doc)
        BY <2>1, <3>1, Indexing
      <3>3. IsFiniteSet(vectors')
        BY <3>1, FS_AddElement
      <3>. QED BY <2>1, <3>1, <3>2, <3>3
    <2>. QED BY <2>2, <2>3
  <1>6. CASE DeleteRecords \/ ClearRecords \/ DeleteConversationRecords
    <2>1. records' \subseteq records /\ UNCHANGED <<chunks, vectors>>
      BY <1>6 DEF DeleteRecords, ClearRecords, DeleteConversationRecords, Transaction
    <2>2. IsFiniteSet(records')
      BY <2>1, FS_Subset
    <2>. QED BY <2>1, <2>2
  <1>7. CASE PutRecords
    <2>. DEFINE new == {[doc |-> TheDoc, n |-> n, run |-> serving] : n \in TheNumbers}
    <2>1. /\ TheDoc \in Doc /\ serving \in Request /\ UNCHANGED <<chunks, vectors>>
          /\ TheNumbers \subseteq Nat /\ TheNumbers \subseteq Scored(TheDoc) /\ IsFiniteSet(TheNumbers)
      BY <1>7, Indexing DEF PutRecords
    <2>2. records' \subseteq records \cup new
      BY <1>7 DEF PutRecords, Transaction, TheNumbers
    <2>3. IsFiniteSet(records')
      <3>. DEFINE f == [n \in TheNumbers |-> [doc |-> TheDoc, n |-> n, run |-> serving]]
      <3>1. f \in Surjection(TheNumbers, new)
        BY DEF Surjection
      <3>2. IsFiniteSet(new)
        <4>. HIDE DEF f, new
        <4>. QED BY <2>1, <3>1, FS_Surjection
      <3>3. IsFiniteSet(records \cup new)
        <4>. HIDE DEF new
        <4>. QED BY <3>2, FS_Union
      <3>. HIDE DEF new
      <3>. QED BY <2>2, <3>3, FS_Subset
    <2>. QED BY <2>1, <2>2, <2>3
  <1>. QED
    BY <1>1, <1>2, <1>3, <1>4, <1>5, <1>6, <1>7, Apart, Resting DEF Next, Serve

\* A step keeps vectors and chunks paired, wherever the worker is interrupted.
LEMMA PairedStep ==
  ASSUME Typed, Ordered, Paired, [Next]_vars
  PROVE  Paired'
  <1>. USE DEF Paired, Inserting, Serving, NoRequest
  <1>1. CASE PostAny \/ WorkerError \/ UNCHANGED vars
    BY <1>1, Apart DEF HasChunk, TheDoc
  <1>2. CASE Restart \/ Take \/ Embed \/ Open \/ ServeQuery \/ IndexedInSqlite \/ Fails
    BY <1>2, Resting DEF HasChunk
  <1>3. CASE DeleteVectors
    BY <1>3 DEF DeleteVectors, Ready, Goes, page, HasChunk, TheDoc
  <1>4. CASE DeleteChunks
    BY <1>4 DEF DeleteChunks, Goes, page, HasChunk, TheDoc
  <1>5. CASE InsertChunk
    <2>1. UNCHANGED vectors /\ at = "inserting" /\ Serving("index") /\ nextId' = nextId + 1
      BY <1>5 DEF InsertChunk
    <2>2. CASE at' = "idle" /\ UNCHANGED chunks
      BY <2>1, <2>2 DEF HasChunk
    <2>3. CASE ~ (at' = "idle" /\ UNCHANGED chunks)
      <3>. DEFINE new == [id |-> nextId, doc |-> TheDoc, n |-> Min(left), run |-> serving]
      <3>1. chunks' = chunks \cup {new} /\ left # {} /\ UNCHANGED <<left, asked, serving>> /\ at' = "chunkInserted"
        BY <1>5, <2>3 DEF InsertChunk, Goes, Answers, page
      <3>2. TheDoc' = TheDoc /\ Min(left)' = Min(left)
        BY <3>1 DEF TheDoc
      <3>3. nextId' - 1 = nextId
        BY <2>1 DEF Typed, WorkerTyped
      <3>4. \A v \in vectors : HasChunk(v) => HasChunk(v)'
        BY <2>1, <3>1 DEF HasChunk
      <3>5. \A v \in vectors : (\E c \in chunks' : c.doc = v.doc) => HasChunk(v)'
        BY <2>1, <3>1, <3>4
      <3>6. new \in chunks' /\ new.id = nextId /\ new.doc = TheDoc /\ new.n = Min(left)
        BY <3>1
      <3>. QED BY <2>1, <3>1, <3>2, <3>3, <3>4, <3>5, <3>6
    <2>. QED BY <2>2, <2>3
  <1>6. CASE InsertVector
    BY <1>6 DEF InsertVector, Goes, Answers, page, HasChunk, TheDoc
  <1>7. CASE DeleteRecords \/ PutRecords \/ ClearRecords \/ DeleteConversationRecords
    BY <1>7 DEF DeleteRecords, PutRecords, ClearRecords, DeleteConversationRecords, Goes, Answers, HasChunk
  <1>8. CASE ClearVectors \/ ClearChunks
    BY <1>8 DEF ClearVectors, ClearChunks, Ready, Goes, Answers, HasChunk
  <1>9. CASE DeleteConversationChunks \/ DeleteConversationVectors
    BY <1>9 DEF DeleteConversationChunks, DeleteConversationVectors, Ready, Goes, Answers, HasChunk
  <1>. QED
    BY <1>1, <1>2, <1>3, <1>4, <1>5, <1>6, <1>7, <1>8, <1>9 DEF Next, Serve

\* While a document is read again, nothing of an earlier reading is with it.
Read ==
  /\ OneReading
  /\ Inserting => \A c \in chunks \cup vectors : c.doc = TheDoc => c.run = serving
  /\ Serving("index") /\ at = "recordsDeleted" => \A r \in records : r.doc # TheDoc

\* A step keeps readings apart.
LEMMA ReadStep ==
  ASSUME Typed, Ordered, Paired, Read, [Next]_vars
  PROVE  Read'
  <1>. USE DEF Read, OneReading, Inserting, Serving, NoRequest
  <1>1. CASE PostAny \/ WorkerError \/ UNCHANGED vars
    BY <1>1, Apart DEF TheDoc
  <1>2. CASE Restart \/ Take \/ Embed \/ Open \/ ServeQuery \/ IndexedInSqlite \/ Fails
    BY <1>2, Resting
  <1>3. CASE DeleteVectors \/ ClearVectors \/ DeleteConversationVectors
    BY <1>3 DEF DeleteVectors, ClearVectors, DeleteConversationVectors, Ready, Goes, Answers
  <1>4. CASE DeleteChunks
    BY <1>4 DEF DeleteChunks, Goes, page, TheDoc, Paired
  <1>5. CASE InsertChunk
    BY <1>5 DEF InsertChunk, Goes, Answers, page, TheDoc
  <1>6. CASE InsertVector
    BY <1>6 DEF InsertVector, Goes, Answers, page, TheDoc
  <1>7. CASE DeleteRecords
    BY <1>7 DEF DeleteRecords, Transaction, RecordsOf, Ready, Goes, page, TheDoc
  <1>8. CASE PutRecords
    BY <1>8 DEF PutRecords, Transaction, RecordsOf, Answers, TheDoc
  <1>9. CASE ClearRecords \/ DeleteConversationRecords
    BY <1>9 DEF ClearRecords, DeleteConversationRecords, Transaction, RecordsOf, Answers
  <1>10. CASE ClearChunks \/ DeleteConversationChunks
    BY <1>10 DEF ClearChunks, DeleteConversationChunks, Goes, Answers
  <1>. QED
    BY <1>1, <1>2, <1>3, <1>4, <1>5, <1>6, <1>7, <1>8, <1>9, <1>10 DEF Next, Serve

\* What a clear undid was asked for before all that waits or is being served.
Wiped ==
  /\ ClearedStaysCleared
  /\ cleared \subseteq {"sqlite", "indexeddb"} \X Request
  /\ \A e \in cleared : /\ Was(e[2])
                        /\ serving # NoRequest => e[2] < serving
                        /\ \A i \in DOMAIN queue : e[2] < queue[i]
  /\ Serving("clear") /\ at = "allVectorsDeleted" => vectors = {}

\* The order of requests alone.
LEMMA WipedBefore ==
  ASSUME Typed, Ordered, Wiped, [Next]_vars
  PROVE  \A e \in cleared : /\ asked'[e[2]] # Nothing
                            /\ serving' # NoRequest => e[2] < serving'
                            /\ \A i \in DOMAIN queue' : e[2] < queue'[i]
  <1>. USE BoundAssumption DEF Typed, PageTyped, WorkerTyped, Request, NoRequest, Wiped, Was
  <1>. SUFFICES ASSUME NEW e \in cleared
                PROVE  /\ asked'[e[2]] # Nothing
                       /\ serving' # NoRequest => e[2] < serving'
                       /\ \A i \in DOMAIN queue' : e[2] < queue'[i]
    OBVIOUS
  <1>0. e[2] \in Request
    OBVIOUS
  <1>1. CASE PostAny
    <2>. PICK k \in Kinds, d \in Doc \cup {NoDoc}, w \in Words \cup {0} : Post(k, d, w)
      BY <1>1, Posts
    <2>. PICK r \in Request : /\ asked[r] = Nothing
                              /\ asked' = [asked EXCEPT ![r] = [kind |-> k, doc |-> d, words |-> w]]
                              /\ queue' = Append(queue, r)
                              /\ serving' = serving
      BY DEF Post
    <2>1. asked'[e[2]] # Nothing
      BY <1>0, KindsAssumption DEF Nothing
    <2>2. e[2] < r
      BY <1>0 DEF Ordered
    <2>. QED BY <2>1, <2>2
  <1>2. CASE Restart
    BY <1>2 DEF Restart
  <1>3. CASE Take
    BY <1>3 DEF Take, page
  <1>4. CASE UNCHANGED <<queue, asked, session>> /\ serving' \in {serving, NoRequest}
    BY <1>4
  <1>. QED BY <1>1, <1>2, <1>3, <1>4, Steps

\* A step keeps what was cleared away.
LEMMA WipedStep ==
  ASSUME Typed, Ordered, Paired, Wiped, [Next]_vars
  PROVE  Wiped'
  <1>. USE DEF Wiped, ClearedStaysCleared, Serving, NoRequest
  <1>1. CASE PostAny \/ WorkerError \/ UNCHANGED vars
    BY <1>1, Apart, WipedBefore DEF Was
  <1>2. CASE Restart \/ Take \/ Embed \/ Open \/ ServeQuery \/ IndexedInSqlite \/ Fails
    BY <1>2, Resting, WipedBefore DEF Was
  <1>3. CASE DeleteVectors \/ ClearVectors \/ DeleteConversationVectors
    BY <1>3, WipedBefore DEF DeleteVectors, ClearVectors, DeleteConversationVectors, Ready, Goes, Answers, Was, page
  <1>4. CASE DeleteChunks \/ DeleteConversationChunks
    BY <1>4, WipedBefore DEF DeleteChunks, DeleteConversationChunks, Goes, page, Was
  <1>5. CASE InsertChunk \/ InsertVector
    <2>1. serving # NoRequest /\ UNCHANGED <<records, cleared>> /\ at' # "allVectorsDeleted"
      BY <1>5 DEF InsertChunk, InsertVector, Goes, Answers
    <2>2. \A c \in chunks' \cup vectors' : c \in chunks \cup vectors \/ c.run = serving
      BY <1>5 DEF InsertChunk, InsertVector
    <2>3. \A e \in cleared : e[2] # serving
      BY <2>1 DEF Typed, WorkerTyped, Request
    <2>4. \A c \in chunks' \cup vectors' : <<"sqlite", c.run>> \notin cleared
      BY <2>2, <2>3
    <2>. QED BY <2>1, <2>4, WipedBefore DEF Was
  <1>6. CASE DeleteRecords \/ DeleteConversationRecords
    BY <1>6, WipedBefore DEF DeleteRecords, DeleteConversationRecords, Transaction, RecordsOf, Ready, Goes, Answers, page, Was
  <1>7. CASE PutRecords
    <2>1. serving # NoRequest /\ UNCHANGED <<chunks, vectors, cleared>> /\ at' # "allVectorsDeleted"
      BY <1>7 DEF PutRecords, Answers
    <2>2. \A r \in records' : r \in records \/ r.run = serving
      BY <1>7 DEF PutRecords, Transaction
    <2>3. \A e \in cleared : e[2] # serving
      BY <2>1 DEF Typed, WorkerTyped, Request
    <2>4. \A r \in records' : <<"indexeddb", r.run>> \notin cleared
      BY <2>2, <2>3
    <2>. QED BY <2>1, <2>4, WipedBefore DEF Was
  <1>8. ASSUME NEW s \in {"sqlite", "indexeddb"}, serving # NoRequest, Answers,
               cleared' = cleared \cup {<<s, r>> : r \in Before(serving)}
        PROVE  /\ cleared' \subseteq {"sqlite", "indexeddb"} \X Request
               /\ \A e \in cleared' : e \in cleared \/ e[1] = s
               /\ \A e \in cleared' : Was(e[2])' /\ \A i \in DOMAIN queue' : e[2] < queue'[i]
               /\ serving' = NoRequest /\ at' = "idle"
    <2>1. serving \in Request /\ Before(serving) \subseteq Request /\ \A r \in Before(serving) : r < serving
      BY <1>8, BoundAssumption DEF Typed, WorkerTyped, Request, Before
    <2>2. UNCHANGED <<queue, asked>> /\ serving' = NoRequest /\ at' = "idle"
      BY <1>8 DEF Answers
    <2>3. \A r \in Before(serving) : Was(r) /\ \A i \in DOMAIN queue : r < queue[i]
      <3>1. \A i \in DOMAIN queue : queue[i] \in Request /\ serving < queue[i]
        BY <1>8 DEF Typed, WorkerTyped, Ordered
      <3>2. \A r \in Before(serving) : Was(r)
        BY DEF Before, Was, Nothing
      <3>. QED BY <2>1, <3>1, <3>2, BoundAssumption DEF Request
    <2>. QED BY <1>8, <2>1, <2>2, <2>3 DEF Was
  <1>9. CASE ClearRecords
    <2>1. serving # NoRequest /\ Answers /\ records' = {} /\ UNCHANGED <<chunks, vectors>>
          /\ cleared' = cleared \cup {<<"indexeddb", r>> : r \in Before(serving)}
      BY <1>9 DEF ClearRecords, Ready, Transaction
    <2>. QED BY <1>8, <2>1
  <1>10. CASE ClearChunks
    <2>1. serving # NoRequest /\ Answers /\ chunks' = {} /\ vectors' = {} /\ UNCHANGED records
          /\ cleared' = cleared \cup {<<"sqlite", r>> : r \in Before(serving)}
      BY <1>10 DEF ClearChunks
    <2>. QED BY <1>8, <2>1
  <1>. QED
    BY <1>1, <1>2, <1>3, <1>4, <1>5, <1>6, <1>7, <1>9, <1>10 DEF Next, Serve

-----------------------------------------------------------------------------

\* The inductive invariant.
IInv == Typed /\ Ordered /\ Paired /\ Read /\ Wiped

\* It holds at first ...
LEMMA InitIInv == Init => IInv
  <1>. SUFFICES ASSUME Init PROVE IInv
    OBVIOUS
  <1>1. Typed
    BY InitTyped
  <1>2. Ordered /\ Paired /\ Read /\ Wiped
    BY DEF Init, Ordered, Paired, Read, Wiped, Was, OneReading, ClearedStaysCleared, Inserting,
           Serving, NoRequest
  <1>. QED BY <1>1, <1>2 DEF IInv

\* ... and every step keeps it.
LEMMA NextIInv == IInv /\ [Next]_vars => IInv'
  BY PageTypedStep, WorkerTypedStep, StoreTypedStep, OrderedStep, PairedStep, ReadStep, WipedStep
  DEF IInv, Typed

\* So it holds whatever is asked, fails or is interrupted.
THEOREM Invariance == Spec => []IInv
  BY InitIInv, NextIInv, PTL DEF Spec

\* Every variable stays in its type, and no two chunks share a key.
THEOREM TypeCorrectness == Spec => []TypeOK
  <1>1. IInv => TypeOK
    BY TypedIsTypeOK DEF IInv
  <1>. QED BY <1>1, Invariance, PTL

\* What a document is answered from is one reading of it: DELETE before INSERT in
\* indexSqlite and indexIndexedDb, at any interruption.
THEOREM NeverMixesReadings == Spec => []OneReading
  <1>1. IInv => OneReading
    BY DEF IInv, Read
  <1>. QED BY <1>1, Invariance, PTL

\* After clearIndex nothing asked for before it is in the store it cleared.
THEOREM ClearsForGood == Spec => []ClearedStaysCleared
  <1>1. IInv => ClearedStaysCleared
    BY DEF IInv, Wiped
  <1>. QED BY <1>1, Invariance, PTL

-----------------------------------------------------------------------------

\* What is one to one with a finite set is finite, and as large.
LEMMA OneToOne ==
  ASSUME NEW A, NEW B, NEW f \in [A -> B], IsFiniteSet(A),
         \A x, y \in A : f[x] = f[y] => x = y,
         \A b \in B : \E x \in A : f[x] = b
  PROVE  IsFiniteSet(B) /\ Cardinality(B) = Cardinality(A)
  <1>1. f \in Bijection(A, B)
    BY Fun_IsBij
  <1>. QED BY <1>1, FS_Bijection DEF ExistsBijection

\* What a query makes of a vector.
Worth(v) == Score[v.doc][v.n]
Hit(v) == [id |-> v.id, score |-> Worth(v)]
Found(v) == [id |-> v.id, score |-> Worth(v), doc |-> v.doc, n |-> v.n]
VectorsOf(doc) == {u \in vectors : u.key = doc}

\* Every vector stored is worth a number.
LEMMA WorthIsInt ==
  ASSUME Typed, NEW v \in vectors
  PROVE  Worth(v) \in Int /\ v.doc \in Doc /\ v.id \in Nat
  <1>1. v.doc \in Doc /\ v.n \in DOMAIN Score[v.doc] /\ v.id \in Nat
    BY DEF Typed, StoreTyped, Scored
  <1>2. Score[v.doc] \in Seq(Int)
    BY <1>1, ScoreAssumption
  <1>. QED BY <1>1, <1>2 DEF Worth

\* Vectors, and so what is made of them, are told apart by their ids.
LEMMA HitsAreRanked ==
  ASSUME Typed, Paired, NEW V \in SUBSET vectors
  PROVE  /\ Ranked({Hit(v) : v \in V}) /\ Ranked({Found(v) : v \in V})
         /\ Cardinality({Hit(v) : v \in V}) = Cardinality(V)
         /\ Cardinality({Found(v) : v \in V}) = Cardinality(V)
         /\ IsFiniteSet(V)
  <1>1. IsFiniteSet(V)
    BY FS_Subset DEF Typed, StoreTyped
  <1>2. \A u, v \in V : u.id = v.id => u = v
    BY DEF Paired
  <1>3. \A v \in V : Worth(v) \in Int /\ v.id \in Int
    BY WorthIsInt
  <1>4. \A v \in V : Hit(v).id = v.id /\ Hit(v).score = Worth(v) /\ Found(v).id = v.id /\ Found(v).score = Worth(v)
    BY DEF Hit, Found
  <1>5. IsFiniteSet({Hit(v) : v \in V}) /\ Cardinality({Hit(v) : v \in V}) = Cardinality(V)
    <2>. DEFINE f == [v \in V |-> Hit(v)]
    <2>1. f \in [V -> {Hit(v) : v \in V}] /\ \A x, y \in V : f[x] = f[y] => x = y
      BY <1>2, <1>4
    <2>2. \A b \in {Hit(v) : v \in V} : \E x \in V : f[x] = b
      OBVIOUS
    <2>. HIDE DEF f
    <2>. QED BY <1>1, <2>1, <2>2, OneToOne
  <1>6. IsFiniteSet({Found(v) : v \in V}) /\ Cardinality({Found(v) : v \in V}) = Cardinality(V)
    <2>. DEFINE f == [v \in V |-> Found(v)]
    <2>1. f \in [V -> {Found(v) : v \in V}] /\ \A x, y \in V : f[x] = f[y] => x = y
      BY <1>2, <1>4
    <2>2. \A b \in {Found(v) : v \in V} : \E x \in V : f[x] = b
      OBVIOUS
    <2>. HIDE DEF f
    <2>. QED BY <1>1, <2>1, <2>2, OneToOne
  <1>. QED BY <1>1, <1>2, <1>3, <1>4, <1>5, <1>6 DEF Ranked

\* The documents a query may answer from, the vectors that have their chunk there, and
\* those of them among the best of their document.
Admitted(q) == {d \in Doc : \E c \in chunks : c.doc = d /\ Matches(c, q)}
Candidates(q) == {v \in vectors : v.doc \in Admitted(q)}
Shortlist(q) == {v \in Candidates(q) : Hit(v) \in Nearest(v.doc)}
Text(v) == <<v.doc, v.n>>

\* The join of querySqlite gives each hit its own chunk, or drops it.
LEMMA QueryRanksShortlist ==
  ASSUME Typed, Paired, NEW q \in Query
  PROVE  QuerySqlite(q) = Top({Found(v) : v \in Shortlist(q)}, TopK)
  <1>. DEFINE keys == IF q.doc = NoDoc THEN {c.doc : c \in chunks} ELSE {q.doc}
              hits == UNION {Nearest(k) : k \in keys}
              joined == {hc \in hits \X chunks : hc[2].id = hc[1].id /\ Matches(hc[2], q)}
              read(hc) == [id |-> hc[1].id, score |-> hc[1].score, doc |-> hc[2].doc, n |-> hc[2].n]
  <1>1. \A c, d \in chunks : c.doc = d.doc => (Matches(c, q) <=> Matches(d, q))
    BY DEF Matches
  <1>2. \A d \in Admitted(q) : d \in keys
    BY DEF Admitted, Matches
  <1>3. \A v \in Candidates(q) : HasChunk(v)
    BY DEF Candidates, Admitted, Paired
  <1>4. ASSUME NEW hc \in joined
        PROVE  \E v \in Shortlist(q) : read(hc) = Found(v)
    <2>. PICK k \in keys : hc[1] \in Nearest(k)
      OBVIOUS
    <2>1. PICK v \in vectors : v.key = k /\ hc[1] = Hit(v)
      BY DEF Nearest, Top, Hit, Worth
    <2>2. v.doc = k /\ hc[2] \in chunks /\ hc[2].id = v.id /\ Matches(hc[2], q)
      BY <2>1 DEF Paired, Hit
    <2>3. \E c \in chunks : c.doc = v.doc
      BY <2>2 DEF Matches
    <2>4. hc[2].doc = v.doc /\ hc[2].n = v.n
      BY <2>2, <2>3 DEF Paired, HasChunk, Typed, StoreTyped
    <2>5. v \in Shortlist(q)
      BY <2>1, <2>2, <2>4, WorthIsInt DEF Shortlist, Candidates, Admitted
    <2>6. read(hc) = Found(v)
      BY <2>1, <2>4 DEF Found, Hit
    <2>. QED BY <2>5, <2>6
  <1>5. ASSUME NEW v \in Shortlist(q)
        PROVE  \E hc \in joined : read(hc) = Found(v)
    <2>1. v \in vectors /\ v.doc \in Admitted(q) /\ Hit(v) \in Nearest(v.doc) /\ v.doc \in keys
      BY <1>2 DEF Shortlist, Candidates
    <2>2. PICK c \in chunks : c.id = v.id /\ c.doc = v.doc /\ c.n = v.n
      BY <1>3 DEF HasChunk, Shortlist
    <2>3. Matches(c, q)
      BY <1>1, <2>1, <2>2 DEF Admitted
    <2>4. <<Hit(v), c>> \in joined
      BY <2>1, <2>2, <2>3 DEF Hit
    <2>5. read(<<Hit(v), c>>) = Found(v)
      BY <2>2 DEF Hit, Found
    <2>. QED BY <2>4, <2>5
  <1>6. {read(hc) : hc \in joined} = {Found(v) : v \in Shortlist(q)}
    <2>. HIDE DEF read, joined
    <2>. QED BY <1>4, <1>5
  <1>. QED BY <1>6 DEF QuerySqlite

\* The shortlist is as long as the answer needs.
LEMMA ShortlistSuffices ==
  ASSUME Typed, Paired, NEW q \in Query
  PROVE  /\ AtMost(Cardinality(Shortlist(q)), TopK) = AtMost(Cardinality(Candidates(q)), TopK)
         /\ IsFiniteSet(Candidates(q)) /\ IsFiniteSet(Shortlist(q))
         /\ \A u \in Candidates(q) \ Shortlist(q) :
              \E V \in SUBSET Shortlist(q) : Cardinality(V) = TopK /\ \A v \in V : Worth(v) >= Worth(u)
  <1>. DEFINE C == Candidates(q)
              W == Shortlist(q)
  <1>1. C \in SUBSET vectors /\ W \in SUBSET C /\ TopK \in Nat
    BY BoundAssumption DEF Candidates, Shortlist
  <1>2. IsFiniteSet(C) /\ IsFiniteSet(W) /\ Cardinality(W) <= Cardinality(C)
    BY <1>1, HitsAreRanked, FS_Subset
  <1>3. Cardinality(C) \in Nat /\ Cardinality(W) \in Nat
    BY <1>2, FS_CardinalityType
  <1>4. ASSUME NEW u \in C \ W
        PROVE  \E V \in SUBSET W : Cardinality(V) = TopK /\ \A v \in V : Worth(v) >= Worth(u)
    <2>. DEFINE d == u.doc
                H == {Hit(v) : v \in VectorsOf(d)}
                V == {v \in VectorsOf(d) : Hit(v) \in Nearest(d)}
    <2>1. Nearest(d) = Top(H, TopK) /\ VectorsOf(d) \in SUBSET vectors
      BY DEF Nearest, Hit, Worth, VectorsOf
    <2>2. Ranked(H) /\ IsFiniteSet(H)
      BY <2>1, HitsAreRanked DEF Ranked
    <2>3. /\ Nearest(d) \subseteq H
          /\ Cardinality(Nearest(d)) = AtMost(Cardinality(H), TopK)
          /\ \A x \in Nearest(d), y \in H \ Nearest(d) : Better(x, y)
      <3>. HIDE DEF H
      <3>. QED BY <1>1, <2>1, <2>2, TopIsBest
    <2>4. u \in VectorsOf(d) /\ Hit(u) \in H /\ Hit(u) \notin Nearest(d)
      BY DEF Shortlist, Candidates, VectorsOf, Paired
    <2>5. Cardinality(Nearest(d)) = TopK
      <3>1. Cardinality(H) # Cardinality(Nearest(d)) /\ Cardinality(H) \in Nat
        BY <2>2, <2>3, <2>4, FS_Subset, FS_CardinalityType
      <3>. QED BY <1>1, <2>3, <3>1 DEF AtMost
    <2>6. Nearest(d) = {Hit(v) : v \in V}
      BY <2>3
    <2>7. V \in SUBSET vectors
      BY <2>1
    <2>8. Cardinality(V) = TopK
      BY <2>5, <2>6, <2>7, HitsAreRanked
    <2>9. V \in SUBSET W
      BY DEF Shortlist, Candidates, VectorsOf, Paired
    <2>10. \A v \in V : Worth(v) >= Worth(u)
      <3>. SUFFICES ASSUME NEW v \in V PROVE Worth(v) >= Worth(u)
        OBVIOUS
      <3>1. Better(Hit(v), Hit(u))
        BY <2>3, <2>4
      <3>2. Worth(v) \in Int /\ Worth(u) \in Int
        BY <1>1, <2>7, WorthIsInt
      <3>. QED BY <3>1, <3>2 DEF Better, Hit
    <2>. QED BY <2>8, <2>9, <2>10
  <1>5. AtMost(Cardinality(W), TopK) = AtMost(Cardinality(C), TopK)
    <2>1. CASE C = W
      BY <2>1
    <2>2. CASE C # W
      <3>1. PICK u \in C \ W : TRUE
        BY <1>1, <2>2
      <3>2. PICK V \in SUBSET W : Cardinality(V) = TopK
        BY <1>4
      <3>3. TopK <= Cardinality(W)
        BY <1>2, <3>2, FS_Subset
      <3>. QED BY <1>1, <1>2, <1>3, <3>3 DEF AtMost
    <2>. QED BY <2>1, <2>2
  <1>. QED BY <1>2, <1>4, <1>5

\* The answer of querySqlite, in any state with paired vectors.
LEMMA QueryIsBest ==
  ASSUME Typed, Paired, NEW q \in Query
  PROVE  IsBest(QuerySqlite(q),
                {c \in chunks : \E v \in vectors : v.id = c.id /\ v.doc = c.doc /\ v.n = c.n}, q)
  <1>. DEFINE C == Candidates(q)
              W == Shortlist(q)
              R == {Found(v) : v \in W}
              F == QuerySqlite(q)
              D == {c \in chunks : \E v \in vectors : v.id = c.id /\ v.doc = c.doc /\ v.n = c.n}
              all == {<<c.doc, c.n>> : c \in {d \in D : Matches(d, q)}}
              got == {<<f.doc, f.n>> : f \in F}
  <1>1. C \in SUBSET vectors /\ W \in SUBSET C /\ TopK \in Nat
    BY BoundAssumption DEF Candidates, Shortlist
  <1>2. /\ F \subseteq R
        /\ Cardinality(F) = AtMost(Cardinality(R), TopK)
        /\ \A x \in F, y \in R \ F : Better(x, y)
    <2>1. F = Top(R, TopK)
      BY QueryRanksShortlist
    <2>2. Ranked(R)
      BY <1>1, HitsAreRanked
    <2>. HIDE DEF F, R
    <2>. QED BY <1>1, <2>1, <2>2, TopIsBest
  <1>3. IsFiniteSet(C) /\ IsFiniteSet(W) /\ IsFiniteSet(R) /\ IsFiniteSet(F)
    BY <1>1, <1>2, ShortlistSuffices, HitsAreRanked, FS_Subset DEF Ranked
  <1>4. \A v \in vectors : /\ Found(v).score = Worth(v) /\ Worth(v) = Score[v.doc][v.n]
                           /\ Found(v).doc = v.doc /\ Found(v).n = v.n /\ Worth(v) \in Int
    BY WorthIsInt DEF Found, Worth
  <1>5. \A v \in C : HasChunk(v)
    BY DEF Candidates, Admitted, Paired
  <1>6. all = {Text(v) : v \in C}
    <2>1. ASSUME NEW c \in D, Matches(c, q) PROVE \E v \in C : <<c.doc, c.n>> = Text(v)
      <3>1. PICK v \in vectors : v.doc = c.doc /\ v.n = c.n
        OBVIOUS
      <3>2. v \in C
        BY <2>1, <3>1, WorthIsInt DEF Candidates, Admitted
      <3>. QED BY <3>1, <3>2 DEF Text
    <2>2. ASSUME NEW v \in C PROVE \E c \in D : Matches(c, q) /\ <<c.doc, c.n>> = Text(v)
      <3>1. PICK c \in chunks : c.id = v.id /\ c.doc = v.doc /\ c.n = v.n
        BY <1>5 DEF HasChunk
      <3>2. c \in D
        BY <1>1, <3>1
      <3>3. Matches(c, q)
        BY <3>1 DEF Candidates, Admitted, Matches
      <3>. QED BY <3>1, <3>2, <3>3 DEF Text
    <2>. HIDE DEF D, C
    <2>. QED BY <2>1, <2>2
  <1>7. Cardinality(all) = Cardinality(C)
    <2>. DEFINE f == [v \in C |-> Text(v)]
    <2>1. \A u, v \in C : Text(u) = Text(v) => u = v
      BY <1>1, <1>5 DEF Text, HasChunk, Paired, Typed, StoreTyped
    <2>2. f \in [C -> all] /\ (\A x, y \in C : f[x] = f[y] => x = y) /\ \A b \in all : \E x \in C : f[x] = b
      BY <1>6, <2>1
    <2>. HIDE DEF f, all, C
    <2>. QED BY <1>3, <2>2, OneToOne
  <1>8. got \subseteq all
    BY <1>1, <1>2, <1>4, <1>6 DEF Text
  <1>9. Cardinality(F) = IF Cardinality(all) < TopK THEN Cardinality(all) ELSE TopK
    BY <1>1, <1>2, <1>7, HitsAreRanked, ShortlistSuffices DEF AtMost
  <1>10. \A f \in F : f.score = Score[f.doc][f.n]
    BY <1>1, <1>2, <1>4
  <1>11. ASSUME NEW x \in got, NEW y \in all \ got
         PROVE  Score[x[1]][x[2]] >= Score[y[1]][y[2]]
    <2>1. PICK v \in W : Found(v) \in F /\ x = Text(v)
      BY <1>1, <1>2, <1>4 DEF Text
    <2>2. PICK u \in C : y = Text(u) /\ Found(u) \notin F
      BY <1>1, <1>4, <1>6 DEF Text
    <2>3. Score[x[1]][x[2]] = Worth(v) /\ Score[y[1]][y[2]] = Worth(u) /\ Worth(v) \in Int /\ Worth(u) \in Int
      BY <1>1, <1>4, <2>1, <2>2 DEF Text
    <2>4. \A a, b \in vectors : Better(Found(a), Found(b)) => Worth(a) >= Worth(b)
      BY <1>4 DEF Better
    <2>5. CASE u \in W
      BY <1>1, <1>2, <2>1, <2>2, <2>3, <2>4, <2>5
    <2>6. CASE u \notin W
      <3>1. PICK V \in SUBSET W : Cardinality(V) = TopK /\ \A h \in V : Worth(h) >= Worth(u)
        BY <2>6, ShortlistSuffices
      <3>2. CASE \E h \in V : Found(h) \notin F
        <4>. PICK h \in V : Found(h) \notin F
          BY <3>2
        <4>1. Worth(v) >= Worth(h) /\ Worth(h) >= Worth(u) /\ Worth(h) \in Int
          BY <1>1, <1>2, <1>4, <2>1, <2>4, <3>1
        <4>. QED BY <2>3, <4>1
      <3>3. CASE \A h \in V : Found(h) \in F
        <4>. DEFINE G == {Found(h) : h \in V}
        <4>1. G \in SUBSET F /\ Cardinality(G) = TopK
          BY <1>1, <3>1, <3>3, HitsAreRanked
        <4>2. Cardinality(F) <= TopK /\ Cardinality(F) \in Nat
          BY <1>1, <1>2, <1>3, FS_CardinalityType DEF AtMost
        <4>3. F = G
          BY <1>1, <1>3, <4>1, <4>2, FS_Subset
        <4>4. PICK h \in V : Found(v) = Found(h)
          BY <2>1, <4>3
        <4>5. Worth(v) = Worth(h)
          BY <1>1, <1>4, <4>4
        <4>. QED BY <2>3, <3>1, <4>5
      <3>. QED BY <3>2, <3>3
    <2>. QED BY <2>5, <2>6
  <1>. QED BY <1>8, <1>9, <1>10, <1>11 DEF IsBest

\* querySqlite answers with the best chunks of what was asked for, and no better one that
\* has its vector is left out, at every moment.
THEOREM AnswersExactly == Spec => []SqliteIsExact
  <1>1. IInv => SqliteIsExact
    BY QueryIsBest DEF IInv, SqliteIsExact
  <1>. QED BY <1>1, Invariance, PTL

\* The chunks of a text of any length leave no word out, share Overlap words with the
\* one before, and none is contained in another (chunkText).
THEOREM ChunksCoverAnyText == Spec => []ChunksCoverTheText
  <1>. USE ChunkAssumption
  <1>1. ASSUME NEW w \in Nat, NEW c, c = ChunkText(w)
        PROVE  /\ UNION Range(c) = 0 .. w - 1
               /\ \A i \in DOMAIN c : c[i] # {} /\ Cardinality(c[i]) <= ChunkSize
               /\ \A i \in 2 .. Len(c) : Cardinality(c[i] \cap c[i - 1]) = Overlap
               /\ \A i, j \in DOMAIN c : i # j => ~ c[i] \subseteq c[j]
    <2>1. CASE w = 0
      <3>1. c = <<>>
        BY <1>1, <2>1, ChunksCover
      <3>2. Range(c) = {} /\ DOMAIN c = {} /\ Len(c) = 0
        BY <3>1 DEF Range
      <3>. QED BY <2>1, <3>2
    <2>2. CASE w # 0
      <3>1. Covering(c, 0, w)
        BY <1>1, <2>2, ChunksCover
      <3>2. ASSUME NEW i \in DOMAIN c PROVE c[i] # {} /\ Cardinality(c[i]) <= ChunkSize
        <4>1. PICK a \in 0 .. w - 1 : c[i] = Window(a, w)
          BY <3>1 DEF Covering
        <4>2. a \in Window(a, w)
          BY DEF Window
        <4>3. Cardinality(Window(a, w)) <= ChunkSize
          <5>1. CASE a + ChunkSize > w
            <6>1. Window(a, w) = a .. w - 1 /\ Cardinality(a .. w - 1) = w - a
              BY <5>1, FS_Interval DEF Window
            <6>. QED BY <5>1, <6>1
          <5>2. CASE ~ (a + ChunkSize > w)
            <6>1. Window(a, w) = a .. a + ChunkSize - 1 /\ Cardinality(a .. a + ChunkSize - 1) = ChunkSize
              BY <5>2, FS_Interval DEF Window
            <6>. QED BY <6>1
          <5>. QED BY <5>1, <5>2
        <4>. QED BY <4>1, <4>2, <4>3
      <3>. QED BY <3>1, <3>2 DEF Covering
    <2>. QED BY <2>1, <2>2
  <1>2. IInv => ChunksCoverTheText
    <2>. SUFFICES ASSUME IInv, at = "opening", Serving("index"),
                         NEW w \in 0 .. asked[serving].words + ChunkSize
                  PROVE  w \in Nat
      BY <1>1 DEF ChunksCoverTheText
    <2>1. asked[serving].words \in Nat
      BY WordsAssumption DEF IInv, Typed, PageTyped, WorkerTyped, Serving, Nothing, NoRequest
    <2>. QED BY <2>1
  <1>. QED BY <1>2, Invariance, PTL

-----------------------------------------------------------------------------
(* The ranking: rankCosineTopK takes the records one by one, finds the     *)
(* place of each by binary search and cuts the list at k.                  *)

\* One record taken.
Inserted(ranked, r, k) ==
  LET low == Place(ranked, r.score)
      all == InsertAt(ranked, low + 1, r)
  IN IF low >= k THEN ranked
     ELSE SubSeq(all, 1, IF Len(all) > k THEN k ELSE Len(all))

\* The ranking is the last of a chain of lists, each the one before with a record taken.
\* (The fold is a recursive function of sets of positions, defined up to each size.)
LEMMA RankIsAChain ==
  ASSUME NEW T, NEW input \in Seq(T), NEW k
  PROVE  \E g : /\ g[0] = <<>>
                /\ \A m \in 1 .. Len(input) : g[m] = Inserted(g[m - 1], input[m], k)
                /\ Rank(input, k) = g[Len(input)]
  <1>. DEFINE n == Len(input)
              Step(f, s) == IF s = {} THEN <<>> ELSE Inserted(f[s \ {Max(s)}], input[Max(s)], k)
              Small(m) == {s \in SUBSET (1 .. n) : Cardinality(s) <= m}
              Is(f, m) == f = [s \in Small(m) |-> Step(f, s)]
              D == {m \in Nat : \E f : Is(f, m)}
  <1>1. /\ n \in Nat /\ DOMAIN input = 1 .. n
        /\ IsFiniteSet(1 .. n) /\ Cardinality(1 .. n) = n
    <2>1. n \in Nat /\ DOMAIN input = 1 .. n
      OBVIOUS
    <2>. HIDE DEF n
    <2>. QED BY <2>1, FS_Interval
  <1>. HIDE DEF n
  <1>2. \A s \in SUBSET (1 .. n) :
          /\ IsFiniteSet(s) /\ Cardinality(s) \in 0 .. n /\ (Cardinality(s) = 0 <=> s = {})
          /\ s # {} => /\ Max(s) \in s
                       /\ s \ {Max(s)} \in SUBSET (1 .. n) /\ Cardinality(s \ {Max(s)}) = Cardinality(s) - 1
    <2>. SUFFICES ASSUME NEW s \in SUBSET (1 .. n)
                  PROVE  /\ IsFiniteSet(s) /\ Cardinality(s) \in 0 .. n /\ (Cardinality(s) = 0 <=> s = {})
                         /\ s # {} => /\ Max(s) \in s
                                      /\ s \ {Max(s)} \in SUBSET (1 .. n)
                                      /\ Cardinality(s \ {Max(s)}) = Cardinality(s) - 1
      OBVIOUS
    <2>1. IsFiniteSet(s) /\ Cardinality(s) <= n
      <3>1. IsFiniteSet(s) /\ Cardinality(s) <= Cardinality(1 .. n)
        BY <1>1, FS_Subset, Zenon
      <3>. QED BY <1>1, <3>1, Zenon
    <2>2. Cardinality(s) \in Nat /\ (Cardinality(s) = 0 <=> s = {})
      BY <2>1, FS_CardinalityType, FS_EmptySet
    <2>3. s # {} => Max(s) \in s
      BY <1>1, <2>1, MaxIsMost
    <2>4. s # {} => Cardinality(s \ {Max(s)}) = Cardinality(s) - 1
      BY <2>1, <2>3, FS_RemoveElement
    <2>5. Cardinality(s) \in 0 .. n
      BY <1>1, <2>1, <2>2
    <2>6. s \ {Max(s)} \in SUBSET (1 .. n)
      BY Zenon
    <2>. QED BY <2>1, <2>2, <2>3, <2>4, <2>5, <2>6, Zenon
  <1>3. 0 \in D
    <2>. DEFINE f == [s \in Small(0) |-> <<>>]
    <2>1. \A s \in Small(0) : s = {}
      <3>. SUFFICES ASSUME NEW s \in Small(0) PROVE s = {}
        OBVIOUS
      <3>1. s \in SUBSET (1 .. n) /\ Cardinality(s) <= 0
        BY Zenon
      <3>2. Cardinality(s) \in 0 .. n /\ (Cardinality(s) = 0 <=> s = {})
        BY <1>2, <3>1, Zenon
      <3>. QED BY <1>1, <3>1, <3>2
    <2>2. \A s \in Small(0) : Step(f, s) = <<>>
      BY <2>1
    <2>3. f = [s \in Small(0) |-> Step(f, s)]
      <3>. HIDE DEF Small, Step
      <3>. QED BY <2>2
    <2>4. Is(f, 0)
      BY <2>3
    <2>. HIDE DEF Is, f
    <2>. QED BY <2>4
  <1>4. ASSUME NEW m \in 1 .. n, m - 1 \in D PROVE m \in D
    <2>1. PICK f : Is(f, m - 1)
      BY <1>4
    <2>. DEFINE h == [s \in Small(m) |-> Step(f, s)]
    <2>2. ASSUME NEW s \in Small(m - 1) PROVE h[s] = f[s]
      <3>1. f[s] = Step(f, s)
        <4>. HIDE DEF Step, Small
        <4>. QED BY <2>1
      <3>2. s \in Small(m)
        <4>1. s \in SUBSET (1 .. n) /\ Cardinality(s) <= m - 1
          BY Zenon
        <4>2. Cardinality(s) \in 0 .. n
          BY <1>2, <4>1, Zenon
        <4>3. Cardinality(s) <= m
          BY <1>1, <4>1, <4>2
        <4>. QED BY <4>1, <4>3, Zenon
      <3>. HIDE DEF Step, Small
      <3>. QED BY <3>1, <3>2
    <2>3. ASSUME NEW s \in Small(m) PROVE Step(f, s) = Step(h, s)
      <3>1. CASE s = {}
        BY <3>1
      <3>2. CASE s # {}
        <4>1. s \ {Max(s)} \in Small(m - 1)
          BY <1>1, <1>2, <3>2
        <4>2. h[s \ {Max(s)}] = f[s \ {Max(s)}]
          <5>. HIDE DEF h, Small
          <5>. QED BY <2>2, <4>1
        <4>. HIDE DEF h, Small
        <4>. QED BY <4>2
      <3>. QED BY <3>1, <3>2
    <2>4. h = [s \in Small(m) |-> Step(h, s)]
      <3>. HIDE DEF Step, Small
      <3>. QED BY <2>3
    <2>5. Is(h, m)
      BY <2>4
    <2>. HIDE DEF Is, h
    <2>. QED BY <2>5
  <1>5. \E f : Is(f, n)
    <2>1. 0 .. n \subseteq D
      <3>. HIDE DEF D
      <3>. QED BY <1>1, <1>3, <1>4, UpTo
    <2>2. n \in D
      <3>. HIDE DEF D
      <3>. QED BY <1>1, <2>1
    <2>. HIDE DEF Is
    <2>. QED BY <2>2
  <1>6. Small(n) = SUBSET (1 .. n)
    <2>1. ASSUME NEW s \in SUBSET (1 .. n) PROVE Cardinality(s) <= n
      <3>1. Cardinality(s) \in 0 .. n
        BY <1>2, Zenon
      <3>. QED BY <1>1, <3>1
    <2>. QED BY <2>1, Zenon
  <1>. DEFINE fold == CHOOSE f : f = [s \in SUBSET (1 .. n) |-> Step(f, s)]
  <1>7. fold = [s \in SUBSET (1 .. n) |-> Step(fold, s)]
    <2>1. \E f : f = [s \in SUBSET (1 .. n) |-> Step(f, s)]
      <3>. HIDE DEF Step, Small
      <3>. QED BY <1>5, <1>6
    <2>. HIDE DEF Step
    <2>. QED BY <2>1
  <1>8. Rank(input, k) = fold[1 .. n]
    BY <1>1 DEF Rank, FoldLeft, MapThenFoldSet, Inserted
  <1>. HIDE DEF fold
  <1>9. \A s \in SUBSET (1 .. n) : fold[s] = Step(fold, s)
    <2>. HIDE DEF Step
    <2>. QED BY <1>7
  <1>. DEFINE g == [m \in 0 .. n |-> fold[1 .. m]]
  <1>10. g[0] = <<>>
    <2>1. 1 .. 0 = {} /\ 0 \in 0 .. n
      BY <1>1
    <2>. QED BY <1>9, <2>1
  <1>11. ASSUME NEW m \in 1 .. n PROVE g[m] = Inserted(g[m - 1], input[m], k)
    <2>1. /\ m \in 0 .. n /\ m - 1 \in 0 .. n /\ 1 .. m \in SUBSET (1 .. n) /\ 1 .. m # {}
          /\ 1 .. m \in SUBSET Nat
      <3>1. m \in Nat /\ m \in 1 .. m /\ m \in 0 .. n /\ m - 1 \in 0 .. n
        BY <1>1
      <3>2. \A y \in 1 .. m : y \in 1 .. n /\ y \in Nat
        BY <1>1
      <3>. QED BY <3>1, <3>2, Zenon
    <2>2. Max(1 .. m) = m
      <3>1. Max(1 .. m) \in 1 .. m /\ \A y \in 1 .. m : Max(1 .. m) >= y
        BY <1>2, <2>1, MaxIsMost
      <3>. QED BY <3>1
    <2>3. (1 .. m) \ {m} = 1 .. m - 1
      OBVIOUS
    <2>4. g[m] = fold[1 .. m] /\ g[m - 1] = fold[1 .. m - 1]
      BY <2>1
    <2>5. fold[1 .. m] = Step(fold, 1 .. m)
      <3>. HIDE DEF Step
      <3>. QED BY <1>9, <2>1
    <2>. HIDE DEF g
    <2>. QED BY <2>1, <2>2, <2>3, <2>4, <2>5
  <1>12. g[n] = Rank(input, k)
    BY <1>1, <1>8
  <1>. HIDE DEF g
  <1>. QED BY <1>10, <1>11, <1>12 DEF n

\* What the binary search finds, between l and h, when p is the place.
Between(p, l, h) == IF l >= h THEN l ELSE IF p <= l THEN l ELSE IF p >= h THEN h ELSE p

\* In a list that is best first, the binary search finds the place: what is before it is as
\* good at least, what is after it is worse.
LEMMA PlaceIsFound ==
  ASSUME NEW ranked, NEW score \in Int, Len(ranked) \in Nat,
         \A i \in 1 .. Len(ranked) : ranked[i].score \in Int,
         \A i, j \in 1 .. Len(ranked) : i < j => ranked[i].score >= ranked[j].score
  PROVE  /\ Place(ranked, score) \in 0 .. Len(ranked)
         /\ \A i \in 1 .. Len(ranked) : i <= Place(ranked, score) <=> ranked[i].score >= score
  <1>. DEFINE n == Len(ranked)
              good(i) == ranked[i].score >= score
              B == (0 .. n) \X (0 .. n)
              Half(b) == (b[1] + b[2]) \div 2
              Step(f, b) == IF b[1] >= b[2] THEN b[1]
                            ELSE IF good(Half(b) + 1) THEN f[<<Half(b) + 1, b[2]>>] ELSE f[<<b[1], Half(b)>>]
              low == CHOOSE f : f = [b \in B |-> Step(f, b)]
              Past == {x \in 0 .. n : \A i \in 1 .. n : i > x => ~ good(i)}
  <1>1. n \in Nat
    OBVIOUS
  <1>2. \A i, j \in 1 .. n : i < j /\ good(j) => good(i)
    OBVIOUS
  <1>. HIDE DEF n, good
  <1>3. PICK p \in 0 .. n : \A i \in 1 .. n : i <= p <=> good(i)
    <2>1. Past \in SUBSET Nat /\ n \in Past
      BY <1>1
    <2>2. Min(Past) \in Past /\ \A y \in Past : Min(Past) <= y
      <3>. HIDE DEF Past
      <3>. QED BY <2>1, MinIsLeast
    <2>3. PICK p \in 0 .. n : /\ \A i \in 1 .. n : i > p => ~ good(i)
                              /\ p > 0 => p - 1 \notin Past
      <3>1. Min(Past) \in 0 .. n /\ \A i \in 1 .. n : i > Min(Past) => ~ good(i)
        BY <2>2
      <3>2. Min(Past) - 1 \notin Past
        <4>. HIDE DEF Past
        <4>. QED BY <1>1, <2>2, <3>1
      <3>. HIDE DEF Past
      <3>. QED BY <3>1, <3>2
    <2>4. ASSUME NEW i \in 1 .. n, i <= p PROVE good(i)
      <3>1. p \in 1 .. n /\ p - 1 \in 0 .. n /\ p - 1 \notin Past
        BY <1>1, <2>3, <2>4
      <3>2. PICK j \in 1 .. n : j > p - 1 /\ good(j)
        BY <3>1
      <3>3. j = p
        BY <1>1, <2>3, <3>2
      <3>. QED BY <1>1, <1>2, <2>4, <3>2, <3>3
    <2>5. ASSUME NEW i \in 1 .. n, ~ (i <= p) PROVE ~ good(i)
      BY <1>1, <2>3, <2>5
    <2>. QED BY <2>4, <2>5
  <1>4. ASSUME NEW b \in B, b[1] < b[2]
        PROVE  /\ Half(b) \in Int /\ b[1] <= Half(b) /\ Half(b) < b[2]
               /\ <<Half(b) + 1, b[2]>> \in B /\ <<b[1], Half(b)>> \in B
               /\ good(Half(b) + 1) <=> Half(b) < p
    <2>1. b[1] \in 0 .. n /\ b[2] \in 0 .. n
      OBVIOUS
    <2>2. Half(b) \in Int /\ b[1] <= Half(b) /\ Half(b) < b[2]
      BY <1>1, <1>4, <2>1
    <2>. HIDE DEF Half
    <2>3. Half(b) + 1 \in 0 .. n /\ Half(b) \in 0 .. n /\ Half(b) + 1 \in 1 .. n
      BY <1>1, <2>1, <2>2
    <2>4. good(Half(b) + 1) <=> Half(b) < p
      BY <1>1, <1>3, <2>2, <2>3
    <2>. QED BY <2>1, <2>2, <2>3, <2>4
  <1>. HIDE DEF Half
  <1>5. \E f : f = [b \in B |-> Step(f, b)]
    <2>. DEFINE f == [b \in B |-> Between(p, b[1], b[2])]
    <2>1. ASSUME NEW b \in B PROVE f[b] = Step(f, b)
      <3>1. b[1] \in 0 .. n /\ b[2] \in 0 .. n /\ f[b] = Between(p, b[1], b[2])
        OBVIOUS
      <3>2. CASE b[1] >= b[2]
        BY <3>1, <3>2 DEF Between
      <3>5. b[1] < b[2] => /\ Half(b) \in Int /\ b[1] <= Half(b) /\ Half(b) < b[2]
                           /\ good(Half(b) + 1) <=> Half(b) < p
        BY <1>4
      <3>3. CASE b[1] < b[2] /\ Half(b) < p
        <4>1. f[<<Half(b) + 1, b[2]>>] = Between(p, Half(b) + 1, b[2])
          BY <1>4, <3>3
        <4>2. Between(p, Half(b) + 1, b[2]) = Between(p, b[1], b[2])
          BY <1>1, <3>1, <3>3, <3>5 DEF Between
        <4>3. good(Half(b) + 1) /\ ~ (b[1] >= b[2])
          BY <1>1, <3>1, <3>3, <3>5
        <4>. QED BY <3>1, <4>1, <4>2, <4>3
      <3>4. CASE b[1] < b[2] /\ ~ (Half(b) < p)
        <4>1. f[<<b[1], Half(b)>>] = Between(p, b[1], Half(b))
          BY <1>4, <3>4
        <4>2. Between(p, b[1], Half(b)) = Between(p, b[1], b[2])
          BY <1>1, <3>1, <3>4, <3>5 DEF Between
        <4>3. ~ good(Half(b) + 1) /\ ~ (b[1] >= b[2])
          BY <1>1, <3>1, <3>4, <3>5
        <4>. QED BY <3>1, <4>1, <4>2, <4>3
      <3>. QED BY <1>1, <3>1, <3>2, <3>3, <3>4
    <2>2. f = [b \in B |-> Step(f, b)]
      <3>1. f = [b \in B |-> f[b]]
        OBVIOUS
      <3>. HIDE DEF f, Step, B
      <3>. QED BY <2>1, <3>1
    <2>. HIDE DEF f, Step
    <2>. QED BY <2>2
  <1>6. low = [b \in B |-> Step(low, b)]
    <2>. HIDE DEF Step, B
    <2>. QED BY <1>5
  <1>7. Place(ranked, score) = low[<<0, n>>]
    BY DEF Place, n, good, Half
  <1>. HIDE DEF low
  <1>8. \A b \in B : low[b] = Step(low, b)
    <2>. HIDE DEF Step, B
    <2>. QED BY <1>6
  <1>. DEFINE D == {d \in Nat : \A b \in B : b[2] - b[1] <= d => low[b] = Between(p, b[1], b[2])}
  <1>9. 0 \in D
    <2>. SUFFICES ASSUME NEW b \in B, b[2] - b[1] <= 0 PROVE low[b] = Between(p, b[1], b[2])
      OBVIOUS
    <2>1. b[1] \in 0 .. n /\ b[2] \in 0 .. n
      OBVIOUS
    <2>2. b[1] >= b[2]
      BY <1>1, <2>1
    <2>. QED BY <1>8, <2>2 DEF Between
  <1>10. ASSUME NEW d \in 1 .. n, d - 1 \in D PROVE d \in D
    <2>. SUFFICES ASSUME NEW b \in B, b[2] - b[1] <= d PROVE low[b] = Between(p, b[1], b[2])
      BY <1>1
    <2>1. b[1] \in 0 .. n /\ b[2] \in 0 .. n /\ low[b] = Step(low, b)
      BY <1>8
    <2>2. \A c \in B : c[2] - c[1] <= d - 1 => low[c] = Between(p, c[1], c[2])
      BY <1>10
    <2>3. CASE b[1] >= b[2]
      BY <2>1, <2>3 DEF Between
    <2>4. CASE b[1] < b[2] /\ Half(b) < p
      <3>. DEFINE c == <<Half(b) + 1, b[2]>>
      <3>1. c \in B /\ c[1] = Half(b) + 1 /\ c[2] = b[2] /\ c[2] - c[1] <= d - 1
        BY <1>1, <1>4, <2>1, <2>4
      <3>2. low[c] = Between(p, Half(b) + 1, b[2])
        <4>. HIDE DEF c, B
        <4>. QED BY <2>2, <3>1
      <3>3. Between(p, Half(b) + 1, b[2]) = Between(p, b[1], b[2])
        BY <1>1, <1>3, <1>4, <2>1, <2>4 DEF Between
      <3>4. good(Half(b) + 1) /\ ~ (b[1] >= b[2])
        BY <1>1, <1>4, <2>1, <2>4
      <3>. QED BY <2>1, <3>2, <3>3, <3>4
    <2>5. CASE b[1] < b[2] /\ ~ (Half(b) < p)
      <3>. DEFINE c == <<b[1], Half(b)>>
      <3>1. c \in B /\ c[1] = b[1] /\ c[2] = Half(b) /\ c[2] - c[1] <= d - 1
        BY <1>1, <1>4, <2>1, <2>5
      <3>2. low[c] = Between(p, b[1], Half(b))
        <4>. HIDE DEF c, B
        <4>. QED BY <2>2, <3>1
      <3>3. Between(p, b[1], Half(b)) = Between(p, b[1], b[2])
        BY <1>1, <1>3, <1>4, <2>1, <2>5 DEF Between
      <3>4. ~ good(Half(b) + 1) /\ ~ (b[1] >= b[2])
        BY <1>1, <1>4, <2>1, <2>5
      <3>. QED BY <2>1, <3>2, <3>3, <3>4
    <2>. QED BY <1>1, <2>1, <2>3, <2>4, <2>5
  <1>11. n \in D
    <2>1. 0 .. n \subseteq D
      <3>. HIDE DEF D
      <3>. QED BY <1>1, <1>9, <1>10, UpTo
    <2>. HIDE DEF D
    <2>. QED BY <1>1, <2>1
  <1>12. low[<<0, n>>] = p
    <2>1. <<0, n>> \in B /\ <<0, n>>[1] = 0 /\ <<0, n>>[2] = n /\ n - 0 <= n
      BY <1>1
    <2>2. low[<<0, n>>] = Between(p, 0, n)
      <3>1. \A b \in B : b[2] - b[1] <= n => low[b] = Between(p, b[1], b[2])
        BY <1>11
      <3>. HIDE DEF B
      <3>. QED BY <2>1, <3>1
    <2>. QED BY <1>1, <1>3, <2>2 DEF Between
  <1>. QED BY <1>3, <1>7, <1>12 DEF n, good

\* The first k of a list with a record put at its place.
LEMMA InsertedIs ==
  ASSUME NEW T, NEW ranked \in Seq(T), NEW r \in T, NEW k \in Nat, Len(ranked) <= k,
         NEW p \in 0 .. Len(ranked), p = Place(ranked, r.score)
  PROVE  /\ p >= k => Inserted(ranked, r, k) = ranked
         /\ p < k => /\ Inserted(ranked, r, k) \in Seq(T)
                     /\ Len(Inserted(ranked, r, k)) = AtMost(Len(ranked) + 1, k)
                     /\ \A i \in 1 .. AtMost(Len(ranked) + 1, k) :
                          Inserted(ranked, r, k)[i] = IF i <= p THEN ranked[i]
                                                      ELSE IF i = p + 1 THEN r ELSE ranked[i - 1]
  <1>. DEFINE n == Len(ranked)
              all == InsertAt(ranked, p + 1, r)
              before == SubSeq(ranked, 1, p)
              after == SubSeq(ranked, p + 1, n)
              cut == AtMost(n + 1, k)
  <1>1. n \in Nat /\ p \in 0 .. n /\ \A i \in 1 .. n : ranked[i] \in T
    OBVIOUS
  <1>2. before \in Seq(T) /\ Len(before) = p /\ \A i \in 1 .. p : before[i] = ranked[i]
    <2>1. \A i \in 1 .. p : ranked[i] \in T
      BY <1>1
    <2>2. /\ before \in Seq(T) /\ Len(before) = IF 1 <= p THEN p - 1 + 1 ELSE 0
          /\ \A i \in 1 .. p - 1 + 1 : before[i] = ranked[1 + i - 1]
      BY <1>1, <2>1, SubSeqProperties
    <2>. HIDE DEF before
    <2>. QED BY <1>1, <2>2
  <1>3. after \in Seq(T) /\ Len(after) = n - p /\ \A i \in 1 .. n - p : after[i] = ranked[p + i]
    <2>1. \A i \in p + 1 .. n : ranked[i] \in T
      BY <1>1
    <2>2. /\ after \in Seq(T) /\ Len(after) = IF p + 1 <= n THEN n - (p + 1) + 1 ELSE 0
          /\ \A i \in 1 .. n - (p + 1) + 1 : after[i] = ranked[p + 1 + i - 1]
      BY <1>1, <2>1, SubSeqProperties
    <2>. HIDE DEF after
    <2>. QED BY <1>1, <2>2
  <1>4. all = before \o <<r>> \o after
    <2>1. (p + 1) - 1 = p
      BY <1>1
    <2>2. all = SubSeq(ranked, 1, (p + 1) - 1) \o <<r>> \o SubSeq(ranked, p + 1, Len(ranked))
      BY DEF InsertAt
    <2>. HIDE DEF all
    <2>. QED BY <2>1, <2>2, Zenon
  <1>. HIDE DEF all, before, after, n
  <1>5. /\ before \o <<r>> \in Seq(T) /\ Len(before \o <<r>>) = p + 1
        /\ \A i \in 1 .. p + 1 : (before \o <<r>>)[i] = IF i <= p THEN ranked[i] ELSE r
    BY <1>1, <1>2
  <1>6. /\ all \in Seq(T) /\ Len(all) = n + 1
        /\ \A i \in 1 .. n + 1 : all[i] = IF i <= p THEN ranked[i]
                                          ELSE IF i = p + 1 THEN r ELSE ranked[i - 1]
    <2>1. /\ all \in Seq(T) /\ Len(all) = Len(before \o <<r>>) + Len(after)
          /\ \A i \in 1 .. Len(before \o <<r>>) + Len(after) :
               all[i] = IF i <= Len(before \o <<r>>) THEN (before \o <<r>>)[i]
                        ELSE after[i - Len(before \o <<r>>)]
      BY <1>3, <1>4, <1>5, ConcatProperties
    <2>2. all \in Seq(T) /\ Len(all) = n + 1
      BY <1>1, <1>3, <1>5, <2>1
    <2>3. ASSUME NEW i \in 1 .. n + 1
          PROVE  all[i] = IF i <= p THEN ranked[i] ELSE IF i = p + 1 THEN r ELSE ranked[i - 1]
      <3>1. CASE i <= p + 1
        <4>1. i \in 1 .. p + 1 /\ i \in 1 .. p + 1 + (n - p)
          BY <1>1, <3>1
        <4>2. all[i] = (before \o <<r>>)[i]
          BY <1>3, <1>5, <2>1, <3>1, <4>1
        <4>. QED BY <1>1, <1>5, <3>1, <4>1, <4>2
      <3>2. CASE ~ (i <= p + 1)
        <4>0. p \in Int /\ n \in Int /\ i \in Int /\ i > p + 1 /\ i <= n + 1 /\ p >= 0
          BY <1>1, <3>2
        <4>1. i \in 1 .. p + 1 + (n - p) /\ i - (p + 1) \in 1 .. n - p /\ p + (i - (p + 1)) = i - 1
          BY <4>0
        <4>2. all[i] = after[i - (p + 1)]
          BY <1>3, <1>5, <2>1, <3>2, <4>1
        <4>3. after[i - (p + 1)] = ranked[i - 1]
          BY <1>3, <4>1
        <4>. QED BY <1>1, <3>2, <4>2, <4>3
      <3>. QED BY <3>1, <3>2
    <2>. QED BY <2>2, <2>3
  <1>7. cut \in 0 .. n + 1 /\ cut = (IF Len(all) > k THEN k ELSE Len(all))
    BY <1>1, <1>6 DEF AtMost, n
  <1>8. Inserted(ranked, r, k) = IF p >= k THEN ranked ELSE SubSeq(all, 1, cut)
    BY <1>7 DEF Inserted, all
  <1>. HIDE DEF cut
  <1>9. /\ SubSeq(all, 1, cut) \in Seq(T) /\ Len(SubSeq(all, 1, cut)) = cut
        /\ \A i \in 1 .. cut : SubSeq(all, 1, cut)[i] = all[i]
    <2>1. \A i \in 1 .. cut : all[i] \in T
      BY <1>1, <1>6, <1>7
    <2>2. /\ SubSeq(all, 1, cut) \in Seq(T)
          /\ Len(SubSeq(all, 1, cut)) = IF 1 <= cut THEN cut - 1 + 1 ELSE 0
          /\ \A i \in 1 .. cut - 1 + 1 : SubSeq(all, 1, cut)[i] = all[1 + i - 1]
      BY <1>1, <1>6, <1>7, <2>1, SubSeqProperties
    <2>. QED BY <1>1, <1>7, <2>2
  <1>10. ASSUME p < k
         PROVE  /\ Inserted(ranked, r, k) \in Seq(T) /\ Len(Inserted(ranked, r, k)) = cut
                /\ \A i \in 1 .. cut : Inserted(ranked, r, k)[i] = all[i]
    BY <1>1, <1>8, <1>9, <1>10
  <1>11. \A i \in 1 .. cut : i \in 1 .. n + 1
    BY <1>1, <1>7
  <1>. QED BY <1>1, <1>6, <1>8, <1>10, <1>11 DEF cut, n

-----------------------------------------------------------------------------

\* One input comes before another: it is better, or as good and earlier.
Ahead(input, i, j) == input[i].score > input[j].score \/ (input[i].score = input[j].score /\ i < j)

\* A list is what a stable sort makes of the first m inputs, cut at k: pos says which input
\* each of it is.
StableTop(ranked, pos, input, m, k) ==
  /\ Len(ranked) = AtMost(m, k)
  /\ pos \in [1 .. AtMost(m, k) -> 1 .. m]
  /\ \A i \in 1 .. AtMost(m, k) : ranked[i] = input[pos[i]]
  /\ \A i, j \in 1 .. AtMost(m, k) : i < j => Ahead(input, pos[i], pos[j])
  /\ \A x \in 1 .. m : \/ \E j \in 1 .. AtMost(m, k) : pos[j] = x
                       \/ m > k /\ \A i \in 1 .. AtMost(m, k) : Ahead(input, pos[i], x)

\* It still is when the next input was put at its place.
LEMMA InsertedIsStable ==
  ASSUME NEW T, NEW input \in Seq(T), \A r \in T : r.score \in Int,
         NEW m \in 1 .. Len(input), NEW k \in Nat,
         NEW ranked \in Seq(T), NEW pos, StableTop(ranked, pos, input, m - 1, k)
  PROVE  /\ Inserted(ranked, input[m], k) \in Seq(T)
         /\ \E new : StableTop(Inserted(ranked, input[m], k), new, input, m, k)
  <1>. DEFINE n == AtMost(m - 1, k)
              l == AtMost(m, k)
              r == input[m]
              p == Place(ranked, r.score)
              e == Inserted(ranked, r, k)
  <1>1. /\ n \in Nat /\ l \in Nat /\ n <= k /\ l = AtMost(n + 1, k) /\ (n < k => n = m - 1) /\ n <= m - 1
        /\ m \in Nat /\ \A i \in 1 .. m : input[i] \in T /\ input[i].score \in Int
    BY DEF AtMost
  <1>2. /\ Len(ranked) = n /\ pos \in [1 .. n -> 1 .. m - 1]
        /\ \A i \in 1 .. n : ranked[i] = input[pos[i]] /\ ranked[i].score \in Int
        /\ \A i, j \in 1 .. n : i < j => Ahead(input, pos[i], pos[j])
        /\ \A x \in 1 .. m - 1 : \/ \E j \in 1 .. n : pos[j] = x
                                 \/ m - 1 > k /\ \A i \in 1 .. n : Ahead(input, pos[i], x)
    BY <1>1 DEF StableTop
  <1>. HIDE DEF n, l, r, p, e
  <1>3. p \in 0 .. n /\ \A i \in 1 .. n : i <= p <=> ranked[i].score >= r.score
    <2>1. ASSUME NEW i \in 1 .. n, NEW j \in 1 .. n, i < j PROVE ranked[i].score >= ranked[j].score
      <3>1. Ahead(input, pos[i], pos[j]) /\ ranked[i] = input[pos[i]] /\ ranked[j] = input[pos[j]]
        BY <1>2, <2>1
      <3>2. ranked[i].score \in Int /\ ranked[j].score \in Int
        BY <1>2
      <3>. QED BY <3>1, <3>2 DEF Ahead
    <2>2. r.score \in Int /\ r \in T
      BY <1>1 DEF r
    <2>. QED BY <1>1, <1>2, <2>1, <2>2, PlaceIsFound DEF p
  <1>4. \A i \in 1 .. n : /\ pos[i] \in 1 .. m - 1
                          /\ i <= p => Ahead(input, pos[i], m)
                          /\ i > p => Ahead(input, m, pos[i])
    <2>. TAKE i \in 1 .. n
    <2>1. pos[i] \in 1 .. m - 1
      BY <1>2
    <2>2. pos[i] < m /\ m \in Nat
      BY <1>1, <2>1
    <2>3. ranked[i] = input[pos[i]] /\ ranked[i].score \in Int
      BY <1>2
    <2>4. i <= p <=> input[pos[i]].score >= input[m].score
      BY <1>3, <2>3 DEF r
    <2>5. input[pos[i]].score \in Int /\ input[m].score \in Int
      BY <1>1, <2>3
    <2>6. i > p <=> ~ (i <= p)
      BY <1>3
    <2>. QED BY <2>1, <2>2, <2>4, <2>5, <2>6 DEF Ahead
  <1>5. CASE p >= k
    <2>1. n = k /\ l = k /\ p = n /\ e = ranked
      <3>1. n = k /\ l = k /\ p = n
        BY <1>1, <1>3, <1>5 DEF AtMost
      <3>2. e = ranked
        BY <1>1, <1>2, <1>3, <1>5, InsertedIs DEF e, p, r
      <3>. QED BY <3>1, <3>2
    <2>2. \A x \in 1 .. m : x \in 1 .. m - 1 \/ x = m
      BY <1>1
    <2>3. pos \in [1 .. l -> 1 .. m]
      BY <1>1, <1>2, <2>1
    <2>4. ASSUME NEW x \in 1 .. m
          PROVE  \/ \E j \in 1 .. l : pos[j] = x
                 \/ m > k /\ \A i \in 1 .. l : Ahead(input, pos[i], x)
      <3>1. CASE x = m
        <4>1. m > k
          BY <1>1, <2>1
        <4>. QED BY <1>1, <1>4, <2>1, <3>1, <4>1
      <3>2. CASE x \in 1 .. m - 1
        <4>1. m - 1 > k => m > k
          BY <1>1
        <4>. QED BY <1>2, <2>1, <3>2, <4>1, Zenon
      <3>. QED BY <2>2, <3>1, <3>2
    <2>5. StableTop(e, pos, input, m, k)
      BY <1>2, <2>1, <2>3, <2>4 DEF StableTop, l
    <2>. QED BY <2>1, <2>5 DEF e, r
  <1>6. CASE ~ (p >= k)
    <2>. DEFINE new == [i \in 1 .. l |-> IF i <= p THEN pos[i] ELSE IF i = p + 1 THEN m ELSE pos[i - 1]]
    <2>1. /\ e \in Seq(T) /\ Len(e) = l
          /\ \A i \in 1 .. l : e[i] = IF i <= p THEN ranked[i] ELSE IF i = p + 1 THEN r ELSE ranked[i - 1]
      <3>1. r \in T /\ p < k
        BY <1>1, <1>3, <1>6 DEF r
      <3>2. l = AtMost(Len(ranked) + 1, k) /\ p \in 0 .. Len(ranked) /\ Len(ranked) <= k
        BY <1>1, <1>2, <1>3
      <3>3. p = Place(ranked, r.score)
        BY DEF p
      <3>4. /\ e \in Seq(T) /\ Len(e) = AtMost(Len(ranked) + 1, k)
            /\ \A i \in 1 .. AtMost(Len(ranked) + 1, k) :
                 e[i] = IF i <= p THEN ranked[i] ELSE IF i = p + 1 THEN r ELSE ranked[i - 1]
        <4>1. ranked \in Seq(T) /\ k \in Nat /\ e = Inserted(ranked, r, k)
          BY DEF e
        <4>. HIDE DEF e
        <4>. QED BY <3>1, <3>2, <3>3, <4>1, InsertedIs
      <3>. QED BY <3>2, <3>4
    <2>2. \A i \in 1 .. l : \/ i <= p /\ i \in 1 .. n /\ new[i] = pos[i] /\ e[i] = ranked[i]
                            \/ i = p + 1 /\ new[i] = m /\ e[i] = r
                            \/ i > p + 1 /\ i - 1 \in 1 .. n /\ i - 1 > p /\ new[i] = pos[i - 1] /\ e[i] = ranked[i - 1]
      BY <1>1, <1>3, <2>1 DEF AtMost
    <2>3. new \in [1 .. l -> 1 .. m]
      <3>1. \A i \in 1 .. l : new[i] \in 1 .. m
        <4>. SUFFICES ASSUME NEW i \in 1 .. l PROVE new[i] \in 1 .. m
          OBVIOUS
        <4>1. \A j \in 1 .. n : pos[j] \in 1 .. m
          BY <1>1, <1>4
        <4>2. m \in 1 .. m
          BY <1>1
        <4>. HIDE DEF new
        <4>. QED BY <2>2, <4>1, <4>2
      <3>. QED BY <3>1
    <2>. HIDE DEF new
    <2>4. \A i \in 1 .. l : e[i] = input[new[i]]
      BY <1>2, <2>2 DEF r
    <2>5. ASSUME NEW i \in 1 .. l, NEW j \in 1 .. l, i < j PROVE Ahead(input, new[i], new[j])
      BY <1>1, <1>2, <1>3, <1>4, <2>2, <2>5
    <2>6. ASSUME NEW x \in 1 .. m, \A j \in 1 .. l : new[j] # x
          PROVE  m > k /\ \A i \in 1 .. l : Ahead(input, new[i], x)
      <3>1. p + 1 \in 1 .. l /\ new[p + 1] = m
        BY <1>1, <1>3, <1>6, <2>2 DEF AtMost
      <3>2. x \in 1 .. m - 1
        BY <1>1, <2>6, <3>1
      <3>3. CASE \E j \in 1 .. n : pos[j] = x
        <4>1. PICK j \in 1 .. n : pos[j] = x
          BY <3>3
        <4>2. j = n /\ n = l /\ p < n
          <5>1. ~ (j <= p)
            <6>1. j <= p => j \in 1 .. l /\ new[j] = pos[j]
              BY <1>1, <1>3, <2>2, <3>1
            <6>. QED BY <2>6, <4>1, <6>1
          <5>2. ~ (j + 1 \in 1 .. l)
            <6>1. j + 1 \in 1 .. l => new[j + 1] = pos[j]
              BY <1>1, <1>3, <2>2, <5>1
            <6>. QED BY <2>6, <4>1, <6>1
          <5>. QED BY <1>1, <1>3, <5>1, <5>2 DEF AtMost
        <4>3. m > k
          BY <1>1, <4>2 DEF AtMost
        <4>4. ASSUME NEW i \in 1 .. l PROVE Ahead(input, new[i], x)
          <5>1. CASE i = p + 1
            BY <1>4, <2>2, <3>1, <4>1, <4>2, <5>1
          <5>2. CASE i <= p
            <6>1. i \in 1 .. n /\ new[i] = pos[i] /\ i < j
              BY <1>1, <1>3, <2>2, <4>2, <5>2
            <6>. QED BY <1>2, <4>1, <6>1
          <5>3. CASE i > p + 1
            <6>1. i - 1 \in 1 .. n /\ new[i] = pos[i - 1]
              BY <1>3, <2>2, <5>3
            <6>2. i - 1 < j
              BY <1>1, <4>2
            <6>. QED BY <1>2, <4>1, <6>1, <6>2
          <5>. QED BY <1>3, <5>1, <5>2, <5>3
        <4>. QED BY <4>3, <4>4
      <3>4. CASE ~ \E j \in 1 .. n : pos[j] = x
        <4>1. m - 1 > k /\ \A j \in 1 .. n : Ahead(input, pos[j], x)
          BY <1>2, <3>2, <3>4
        <4>2. n = k /\ n \in 1 .. n /\ n > p /\ m > k
          BY <1>1, <1>3, <1>6, <4>1 DEF AtMost
        <4>3. Ahead(input, m, x)
          <5>1. Ahead(input, m, pos[n]) /\ Ahead(input, pos[n], x) /\ pos[n] \in 1 .. m
            BY <1>1, <1>4, <4>1, <4>2
          <5>2. x \in 1 .. m
            OBVIOUS
          <5>3. input[m].score \in Int /\ input[pos[n]].score \in Int /\ input[x].score \in Int
            BY <1>1, <5>1, <5>2
          <5>4. pos[n] \in Int /\ m \in Int /\ x \in Int
            BY <1>1, <5>1, <5>2
          <5>. QED BY <5>1, <5>3, <5>4 DEF Ahead
        <4>4. ASSUME NEW i \in 1 .. l PROVE Ahead(input, new[i], x)
          BY <2>2, <4>1, <4>3
        <4>. QED BY <4>2, <4>4
      <3>. QED BY <3>3, <3>4
    <2>7. StableTop(e, new, input, m, k)
      BY <2>1, <2>3, <2>4, <2>5, <2>6 DEF StableTop, l
    <2>. QED BY <2>1, <2>7 DEF e, r
  <1>. QED BY <1>5, <1>6

\* So the ranking is what a stable sort makes of the whole input, cut at k.
LEMMA RankIsStable ==
  ASSUME NEW T, \A r \in T : r.score \in Int, NEW input \in Seq(T), NEW k \in Nat
  PROVE  /\ Rank(input, k) \in Seq(T)
         /\ \E pos : StableTop(Rank(input, k), pos, input, Len(input), k)
  <1>. DEFINE n == Len(input)
  <1>1. n \in Nat
    OBVIOUS
  <1>2. PICK g : /\ g[0] = <<>>
                 /\ \A m \in 1 .. n : g[m] = Inserted(g[m - 1], input[m], k)
                 /\ Rank(input, k) = g[n]
    BY RankIsAChain
  <1>. DEFINE D == {m \in 0 .. n : g[m] \in Seq(T) /\ \E pos : StableTop(g[m], pos, input, m, k)}
  <1>3. 0 \in D
    <2>. DEFINE pos == [i \in 1 .. 0 |-> 0]
    <2>1. AtMost(0, k) = 0
      BY DEF AtMost
    <2>2. 1 .. 0 = {} /\ g[0] \in Seq(T) /\ Len(g[0]) = 0
      BY <1>2
    <2>3. pos \in [1 .. 0 -> 1 .. 0]
      OBVIOUS
    <2>4. StableTop(g[0], pos, input, 0, k)
      BY <2>1, <2>2, <2>3 DEF StableTop
    <2>. QED BY <1>1, <2>2, <2>4
  <1>4. ASSUME NEW m \in 1 .. n, m - 1 \in D PROVE m \in D
    <2>1. PICK pos : StableTop(g[m - 1], pos, input, m - 1, k)
      BY <1>4
    <2>2. g[m - 1] \in Seq(T) /\ m \in 1 .. Len(input) /\ m \in 0 .. n
      BY <1>4
    <2>3. /\ Inserted(g[m - 1], input[m], k) \in Seq(T)
          /\ \E new : StableTop(Inserted(g[m - 1], input[m], k), new, input, m, k)
      BY <2>1, <2>2, InsertedIsStable
    <2>. QED BY <1>2, <2>2, <2>3
  <1>5. n \in D
    <2>. HIDE DEF D, n
    <2>1. 0 .. n \subseteq D
      BY <1>1, <1>3, <1>4, UpTo
    <2>. QED BY <1>1, <2>1
  <1>. QED BY <1>2, <1>5

\* Those ahead of the i-th of such a list are i - 1.
LEMMA AheadAreCounted ==
  ASSUME NEW n \in Nat, NEW input, \A i \in 1 .. n : input[i].score \in Int,
         NEW k \in Nat, NEW ranked, NEW pos, StableTop(ranked, pos, input, n, k),
         NEW i \in 1 .. AtMost(n, k)
  PROVE  Cardinality({j \in 1 .. n : Ahead(input, j, pos[i])}) = i - 1
  <1>. DEFINE ahead == {j \in 1 .. n : Ahead(input, j, pos[i])}
              f == [j \in 1 .. i - 1 |-> pos[j]]
              l == AtMost(n, k)
              S == 1 .. i - 1
  <1>1. l \in Nat /\ i \in 1 .. l /\ 1 .. i - 1 \subseteq 1 .. l
    BY DEF AtMost
  <1>. HIDE DEF l
  <1>2. /\ \A j \in 1 .. l : pos[j] \in 1 .. n
        /\ \A a, b \in 1 .. l : a < b => Ahead(input, pos[a], pos[b])
        /\ \A x \in 1 .. n : (\E j \in 1 .. l : pos[j] = x) \/ \A j \in 1 .. l : Ahead(input, pos[j], x)
    BY DEF StableTop, l
  <1>3. \A a, b \in 1 .. n : ~ (Ahead(input, a, b) /\ Ahead(input, b, a)) /\ ~ Ahead(input, a, a)
    BY DEF Ahead
  <1>4. ASSUME NEW a \in 1 .. l, NEW b \in 1 .. l, a # b PROVE pos[a] # pos[b]
    <2>1. a < b \/ b < a
      BY <1>1, <1>4
    <2>. QED BY <1>2, <1>3, <2>1
  <1>5. \A j \in 1 .. i - 1 : f[j] \in ahead
    BY <1>1, <1>2
  <1>6. ASSUME NEW x \in ahead PROVE \E j \in 1 .. i - 1 : f[j] = x
    <2>1. x \in 1 .. n /\ Ahead(input, x, pos[i])
      OBVIOUS
    <2>2. PICK j \in 1 .. l : pos[j] = x
      BY <1>1, <1>2, <1>3, <2>1
    <2>3. j # i /\ ~ (i < j)
      BY <1>1, <1>2, <1>3, <2>1, <2>2
    <2>4. j \in 1 .. i - 1
      BY <1>1, <2>3
    <2>. QED BY <2>2, <2>4
  <1>7. f \in [1 .. i - 1 -> ahead]
    BY <1>5
  <1>8. \A a, b \in 1 .. i - 1 : f[a] = f[b] => a = b
    BY <1>1, <1>4
  <1>9. IsFiniteSet(1 .. i - 1) /\ Cardinality(1 .. i - 1) = i - 1
    BY <1>1, FS_Interval
  <1>10. /\ f \in [S -> ahead] /\ IsFiniteSet(S) /\ \A a, b \in S : f[a] = f[b] => a = b
         /\ \A x \in ahead : \E j \in S : f[j] = x
    <2>. HIDE DEF f, ahead
    <2>. QED BY <1>6, <1>7, <1>8, <1>9
  <1>11. Cardinality(ahead) = Cardinality(S)
    <2>. HIDE DEF f, ahead, S
    <2>. QED BY <1>10, OneToOne, Zenon
  <1>. QED BY <1>9, <1>11

\* Whatever the records are found worth, the binary insertion ranks them as a stable sort
\* does, and keeps the first k (rankCosineTopK).
THEOREM RanksStably == Spec => []RankingIsStable
  <1>1. ASSUME IInv, NEW input \in [1 .. Cardinality(records) -> 0 .. 2], NEW k \in 1 .. 3
        PROVE  LET scored == [i \in DOMAIN input |-> [place |-> i, score |-> input[i]]]
                   ahead(i) == {j \in DOMAIN input : input[j] > input[i] \/ (input[j] = input[i] /\ j < i)}
                   ranked == Rank(scored, k)
               IN /\ Len(ranked) = IF Len(input) < k THEN Len(input) ELSE k
                  /\ \A i \in DOMAIN ranked : Cardinality(ahead(ranked[i].place)) = i - 1
    <2>. DEFINE n == Cardinality(records)
                scored == [i \in 1 .. n |-> [place |-> i, score |-> input[i]]]
                ahead(i) == {j \in 1 .. n : input[j] > input[i] \/ (input[j] = input[i] /\ j < i)}
                ranked == Rank(scored, k)
                T == [place : Nat, score : Int]
    <2>1. n \in Nat
      BY <1>1, FS_CardinalityType DEF IInv, Typed, StoreTyped
    <2>. HIDE DEF n
    <2>2. input \in [1 .. n -> 0 .. 2]
      BY DEF n
    <2>3. /\ scored \in Seq(T) /\ Len(scored) = n
          /\ DOMAIN input = 1 .. n /\ Len(input) = n /\ k \in Nat
          /\ \A i \in 1 .. n : scored[i].score = input[i] /\ scored[i].place = i
      <3>1. \A i \in 1 .. n : i \in Nat /\ input[i] \in Int
        <4>1. \A i \in 1 .. n : input[i] \in 0 .. 2
          BY <2>2
        <4>2. 0 .. 2 \subseteq Int /\ 1 .. n \subseteq Nat
          BY <2>1
        <4>. HIDE DEF T, scored
        <4>. QED BY <4>1, <4>2, Zenon
      <3>2. \A i \in 1 .. n : scored[i] \in T /\ scored[i].score = input[i] /\ scored[i].place = i
        BY <3>1
      <3>3. DOMAIN scored = 1 .. n /\ DOMAIN input = 1 .. n
        BY <2>2
      <3>4. scored = [i \in 1 .. n |-> scored[i]]
        OBVIOUS
      <3>5. scored \in [1 .. n -> T]
        <4>. HIDE DEF scored, T
        <4>. QED BY <3>2, <3>4
      <3>6. input \in Seq(0 .. 2)
        BY <2>1, <2>2
      <3>7. scored \in Seq(T) /\ Len(scored) = n /\ Len(input) = n
        <4>. HIDE DEF scored, T
        <4>. QED BY <2>1, <3>3, <3>5, <3>6
      <3>. QED BY <3>2, <3>3, <3>7
    <2>4. \A r \in T : r.score \in Int
      OBVIOUS
    <2>. HIDE DEF scored, T
    <2>5. ranked \in Seq(T) /\ \E pos : StableTop(ranked, pos, scored, n, k)
      BY <2>3, <2>4, RankIsStable
    <2>6. PICK pos : StableTop(ranked, pos, scored, n, k)
      BY <2>5
    <2>7. Len(ranked) = (IF Len(input) < k THEN Len(input) ELSE k) /\ DOMAIN ranked = 1 .. AtMost(n, k)
      BY <2>3, <2>5, <2>6 DEF StableTop, AtMost
    <2>8. ASSUME NEW i \in DOMAIN ranked PROVE Cardinality(ahead(ranked[i].place)) = i - 1
      <3>1. pos[i] \in 1 .. n /\ ranked[i] = scored[pos[i]]
        BY <2>6, <2>7 DEF StableTop
      <3>2. ranked[i].place = pos[i]
        BY <2>3, <3>1
      <3>3. ahead(pos[i]) = {j \in 1 .. n : Ahead(scored, j, pos[i])}
        BY <2>3, <3>1 DEF Ahead
      <3>4. \A j \in 1 .. n : scored[j].score \in Int
        <4>. TAKE j \in 1 .. n
        <4>1. input[j] \in 0 .. 2 /\ scored[j].score = input[j]
          BY <2>2, <2>3
        <4>. QED BY <4>1
      <3>5. Cardinality({j \in 1 .. n : Ahead(scored, j, pos[i])}) = i - 1
        BY <2>1, <2>3, <2>6, <2>7, <3>4, AheadAreCounted
      <3>. QED BY <3>2, <3>3, <3>5
    <2>9. DOMAIN input = 1 .. n /\ Rank([i \in 1 .. n |-> [place |-> i, score |-> input[i]]], k) = ranked
      BY <2>3 DEF scored
    <2>. HIDE DEF ranked
    <2>. QED BY <2>7, <2>8, <2>9
  <1>2. IInv => RankingIsStable
    BY <1>1 DEF RankingIsStable
  <1>. QED BY <1>2, Invariance, PTL

-----------------------------------------------------------------------------
(* The answer of queryIndexedDb.                                           *)

\* The records are read in the order of their keys, each once.
LEMMA KeysAreInOrder ==
  ASSUME NEW S, IsFiniteSet(S), \A r \in S : r.doc \in Int /\ r.n \in Int,
         \A r, s \in S : r.doc = s.doc /\ r.n = s.n => r = s
  PROVE  /\ InKeyOrder(S) \in [1 .. Cardinality(S) -> S]
         /\ \A i, j \in 1 .. Cardinality(S) : InKeyOrder(S)[i] = InKeyOrder(S)[j] => i = j
         /\ \A r \in S : \E i \in 1 .. Cardinality(S) : InKeyOrder(S)[i] = r
  <1>. DEFINE n == Cardinality(S)
              below(r) == {s \in S : KeyBefore(s, r)}
              f == [r \in S |-> Cardinality(below(r))]
  <1>1. n \in Nat /\ IsFiniteSet(0 .. n - 1) /\ Cardinality(0 .. n - 1) = n
    <2>1. n \in Nat
      BY FS_CardinalityType
    <2>. HIDE DEF n
    <2>2. 0 \in Int /\ n - 1 \in Int /\ (IF 0 > n - 1 THEN 0 ELSE n - 1 - 0 + 1) = n
      BY <2>1
    <2>. QED BY <2>1, <2>2, FS_Interval
  <1>2. \A a, b \in S : ~ KeyBefore(a, a) /\ (a # b => KeyBefore(a, b) \/ KeyBefore(b, a))
    BY DEF KeyBefore
  <1>3. \A a, b, c \in S : KeyBefore(a, b) /\ KeyBefore(b, c) => KeyBefore(a, c)
    BY DEF KeyBefore
  <1>4. ASSUME NEW r \in S PROVE IsFiniteSet(below(r)) /\ Cardinality(below(r)) \in 0 .. n - 1
    <2>1. IsFiniteSet(below(r)) /\ Cardinality(below(r)) <= n /\ (n = Cardinality(below(r)) => S = below(r))
      BY FS_Subset
    <2>2. r \notin below(r)
      BY <1>2
    <2>3. Cardinality(below(r)) \in Nat
      BY <2>1, FS_CardinalityType
    <2>. HIDE DEF below, n
    <2>. QED BY <1>1, <2>1, <2>2, <2>3
  <1>5. ASSUME NEW a \in S, NEW b \in S, KeyBefore(a, b)
        PROVE  Cardinality(below(a)) # Cardinality(below(b))
    <2>1. below(a) \in SUBSET below(b) /\ a \in below(b) /\ a \notin below(a)
      BY <1>2, <1>3, <1>5
    <2>. HIDE DEF below
    <2>. QED BY <1>4, <2>1, FS_Subset
  <1>6. \A a, b \in S : f[a] = f[b] => a = b
    BY <1>2, <1>5
  <1>7. f \in [S -> 0 .. n - 1]
    BY <1>4
  <1>8. \A i \in 0 .. n - 1 : \E r \in S : f[r] = i
    <2>. HIDE DEF f, below
    <2>1. f \in Injection(S, 0 .. n - 1)
      BY <1>6, <1>7, Fun_IsInj
    <2>2. f \in Surjection(S, 0 .. n - 1)
      BY <1>1, <2>1, FS_Injection
    <2>. QED BY <2>2, Fun_SurjectionProperties
  <1>9. ASSUME NEW i \in 1 .. n
        PROVE  InKeyOrder(S)[i] \in S /\ f[InKeyOrder(S)[i]] = i - 1
    <2>1. i - 1 \in 0 .. n - 1
      BY <1>1
    <2>2. \E r \in S : Cardinality(below(r)) = i - 1
      BY <1>8, <2>1
    <2>3. InKeyOrder(S)[i] = CHOOSE r \in S : Cardinality(below(r)) = i - 1
      BY DEF InKeyOrder
    <2>. HIDE DEF below
    <2>. QED BY <2>2, <2>3
  <1>. HIDE DEF f, below
  <1>10. InKeyOrder(S) \in [1 .. n -> S]
    <2>. DEFINE nth(i) == CHOOSE r \in S : Cardinality({s \in S : KeyBefore(s, r)}) = i - 1
    <2>1. InKeyOrder(S) = [i \in 1 .. n |-> nth(i)]
      BY DEF InKeyOrder
    <2>. HIDE DEF n, nth
    <2>2. \A i \in 1 .. n : nth(i) \in S
      BY <1>9, <2>1
    <2>. QED BY <2>1, <2>2
  <1>11. \A i, j \in 1 .. n : InKeyOrder(S)[i] = InKeyOrder(S)[j] => i = j
    <2>. TAKE i \in 1 .. n, j \in 1 .. n
    <2>. HAVE InKeyOrder(S)[i] = InKeyOrder(S)[j]
    <2>1. i - 1 = j - 1 /\ i \in Int /\ j \in Int
      BY <1>1, <1>9
    <2>. QED BY <2>1
  <1>12. ASSUME NEW r \in S PROVE \E i \in 1 .. n : InKeyOrder(S)[i] = r
    <2>1. f[r] \in 0 .. n - 1 /\ f[r] + 1 \in 1 .. n /\ f[r] = (f[r] + 1) - 1
      BY <1>1, <1>7
    <2>2. f[InKeyOrder(S)[f[r] + 1]] = f[r] /\ InKeyOrder(S)[f[r] + 1] \in S
      BY <1>9, <2>1
    <2>3. InKeyOrder(S)[f[r] + 1] = r
      BY <1>6, <2>2
    <2>. QED BY <2>1, <2>3
  <1>. QED BY <1>10, <1>11, <1>12

\* Whatever the records, the best of those a query names are found, each once.
LEMMA QueryIsBestOfRecords ==
  ASSUME Typed, NEW q \in Query
  PROVE  IsBest(QueryIndexedDb(q), records, q)
  <1>. DEFINE R == RecordsFor(q)
              read(r) == [doc |-> r.doc, n |-> r.n, score |-> Score[r.doc][r.n]]
              S == {read(r) : r \in R}
              n == Cardinality(S)
              input == InKeyOrder(S)
              found == Rank(input, TopK)
              F == QueryIndexedDb(q)
              text(s) == <<s.doc, s.n>>
              all == {text(c) : c \in {d \in records : Matches(d, q)}}
              got == {text(s) : s \in F}
              l == AtMost(n, TopK)
  <1>1. /\ R \in SUBSET records /\ IsFiniteSet(R) /\ TopK \in Nat
        /\ \A r \in R : r.doc \in Doc /\ r.n \in Nat /\ Score[r.doc][r.n] \in Int
    <2>1. R \in SUBSET records /\ IsFiniteSet(records)
      BY DEF RecordsFor, Typed, StoreTyped
    <2>2. ASSUME NEW r \in records PROVE r.doc \in Doc /\ r.n \in Nat /\ Score[r.doc][r.n] \in Int
      <3>1. r.doc \in Doc /\ r.n \in Nat /\ r.n \in DOMAIN Score[r.doc]
        BY DEF Typed, StoreTyped, Scored
      <3>2. Score[r.doc] \in Seq(Int)
        BY <3>1, ScoreAssumption
      <3>. QED BY <3>1, <3>2
    <2>3. TopK \in Nat
      BY BoundAssumption
    <2>. HIDE DEF R
    <2>. QED BY <2>1, <2>2, <2>3, FS_Subset
  <1>2. \A s \in S : s.doc \in Int /\ s.n \in Int /\ s.score \in Int /\ s.score = Score[s.doc][s.n]
    <2>. HIDE DEF R
    <2>. QED BY <1>1 DEF Doc
  <1>3. \A r, s \in S : r.doc = s.doc /\ r.n = s.n => r = s
    OBVIOUS
  <1>4. IsFiniteSet(S)
    <2>. DEFINE g == [r \in R |-> read(r)]
    <2>1. g \in [R -> S] /\ \A s \in S : \E r \in R : g[r] = s
      OBVIOUS
    <2>. HIDE DEF R, S, g
    <2>2. g \in Surjection(R, S)
      BY <2>1, Fun_IsSurj
    <2>. QED BY <1>1, <2>2, FS_Surjection
  <1>5. n \in Nat /\ l \in 0 .. n /\ l = (IF n < TopK THEN n ELSE TopK)
    <2>1. n \in Nat
      BY <1>4, FS_CardinalityType
    <2>. HIDE DEF n
    <2>. QED BY <1>1, <2>1 DEF AtMost
  <1>6. /\ input \in [1 .. n -> S]
        /\ \A i, j \in 1 .. n : input[i] = input[j] => i = j
        /\ \A s \in S : \E i \in 1 .. n : input[i] = s
    <2>. HIDE DEF S
    <2>. QED BY <1>2, <1>3, <1>4, KeysAreInOrder
  <1>7. F = Range(found)
    BY DEF QueryIndexedDb
  <1>8. all = {text(s) : s \in S}
    <2>1. R = {d \in records : Matches(d, q)}
      BY DEF RecordsFor
    <2>2. \A r \in R : text(read(r)) = text(r)
      OBVIOUS
    <2>3. all = {text(c) : c \in R}
      BY <2>1
    <2>. HIDE DEF R, all, text, read
    <2>. QED BY <2>2, <2>3
  <1>9. Cardinality(all) = n
    <2>. DEFINE g == [s \in S |-> text(s)]
    <2>. HIDE DEF S, all
    <2>1. g \in [S -> all] /\ (\A x, y \in S : g[x] = g[y] => x = y) /\ \A b \in all : \E x \in S : g[x] = b
      BY <1>3, <1>8
    <2>. HIDE DEF g
    <2>. QED BY <1>4, <2>1, OneToOne
  <1>. HIDE DEF S, R, n, input, found, F, l, all
  <1>10. input \in Seq(S) /\ Len(input) = n
    BY <1>5, <1>6
  <1>11. PICK pos : StableTop(found, pos, input, n, TopK)
    BY <1>1, <1>2, <1>10, RankIsStable DEF found
  <1>12. found \in Seq(S)
    BY <1>1, <1>2, <1>10, RankIsStable DEF found
  <1>13. /\ Len(found) = l /\ DOMAIN found = 1 .. l
         /\ \A i \in 1 .. l : pos[i] \in 1 .. n /\ found[i] = input[pos[i]]
         /\ \A i, j \in 1 .. l : i < j => Ahead(input, pos[i], pos[j])
         /\ \A x \in 1 .. n : \/ \E j \in 1 .. l : pos[j] = x
                              \/ \A i \in 1 .. l : Ahead(input, pos[i], x)
    BY <1>11, <1>12 DEF StableTop, l
  <1>14. F = {found[i] : i \in 1 .. l}
    BY <1>7, <1>13 DEF Range
  <1>15. \A i \in 1 .. l : found[i] \in S
    BY <1>6, <1>13
  <1>16. \A i, j \in 1 .. l : found[i] = found[j] => i = j
    <2>. SUFFICES ASSUME NEW i \in 1 .. l, NEW j \in 1 .. l, found[i] = found[j] PROVE i = j
      OBVIOUS
    <2>1. pos[i] = pos[j]
      BY <1>6, <1>13
    <2>2. ~ Ahead(input, pos[i], pos[i])
      <3>1. pos[i] \in 1 .. n /\ input[pos[i]] \in S
        BY <1>6, <1>13
      <3>2. input[pos[i]].score \in Int /\ pos[i] \in Int
        BY <1>2, <1>5, <3>1
      <3>. QED BY <3>2 DEF Ahead
    <2>3. ~ (i < j) /\ ~ (j < i)
      BY <1>13, <2>1, <2>2
    <2>. QED BY <1>5, <2>3
  <1>17. Cardinality(F) = l
    <2>. DEFINE g == [i \in 1 .. l |-> found[i]]
    <2>1. g \in [1 .. l -> F] /\ (\A x, y \in 1 .. l : g[x] = g[y] => x = y) /\ \A b \in F : \E x \in 1 .. l : g[x] = b
      BY <1>14, <1>16
    <2>2. IsFiniteSet(1 .. l) /\ Cardinality(1 .. l) = l
      <3>1. 1 \in Int /\ l \in Int /\ (IF 1 > l THEN 0 ELSE l - 1 + 1) = l
        BY <1>5
      <3>. QED BY <3>1, FS_Interval
    <2>. HIDE DEF g
    <2>. QED BY <2>1, <2>2, OneToOne
  <1>18. F \subseteq S
    BY <1>14, <1>15
  <1>19. got \subseteq all
    BY <1>8, <1>18
  <1>20. \A f \in F : f.score = Score[f.doc][f.n]
    BY <1>2, <1>18
  <1>21. ASSUME NEW x \in got, NEW y \in all \ got PROVE Score[x[1]][x[2]] >= Score[y[1]][y[2]]
    <2>1. PICK i \in 1 .. l : x = text(found[i])
      BY <1>14
    <2>2. PICK s \in S : y = text(s)
      BY <1>8
    <2>3. PICK j \in 1 .. n : input[j] = s
      BY <1>6
    <2>4. ~ \E a \in 1 .. l : pos[a] = j
      <3>. SUFFICES ASSUME NEW a \in 1 .. l, pos[a] = j PROVE FALSE
        OBVIOUS
      <3>1. found[a] = s /\ found[a] \in F
        BY <1>13, <1>14, <2>3
      <3>. QED BY <2>2, <3>1
    <2>5. Ahead(input, pos[i], j)
      BY <1>13, <2>4
    <2>6. found[i] \in S /\ found[i] = input[pos[i]]
      BY <1>13, <1>15
    <2>7. found[i].score >= s.score
      <3>1. found[i].score \in Int /\ s.score \in Int
        BY <1>2, <2>6
      <3>. QED BY <2>3, <2>5, <2>6, <3>1 DEF Ahead
    <2>8. Score[x[1]][x[2]] = found[i].score /\ Score[y[1]][y[2]] = s.score
      BY <1>2, <2>1, <2>2, <2>6
    <2>. QED BY <2>7, <2>8
  <1>22. Cardinality(F) = IF Cardinality(all) < TopK THEN Cardinality(all) ELSE TopK
    BY <1>5, <1>9, <1>17
  <1>. QED BY <1>19, <1>20, <1>21, <1>22 DEF IsBest, F, all

\* A query over IndexedDB answers from its scope and document alone, with every record
\* better than those it leaves out, at every moment.
THEOREM AnswersExactlyFromRecords == Spec => []IndexedDbIsExact
  <1>1. IInv => IndexedDbIsExact
    BY QueryIsBestOfRecords DEF IInv, IndexedDbIsExact
  <1>. QED BY <1>1, Invariance, PTL
=============================================================================
