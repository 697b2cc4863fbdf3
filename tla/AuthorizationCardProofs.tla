---------------------- MODULE AuthorizationCardProofs ----------------------
(***************************************************************************)
(* Proofs about AuthorizationCard, for any items, depending on each other   *)
(* in any way.                                                             *)
(*                                                                         *)
(* That marking and unmarking keep a selection closed is a fact about the   *)
(* two operators; everything else follows from an invariant of the cards:   *)
(* a button is enabled only while nothing was decided, and "allow" only     *)
(* while something is marked.                                              *)
(*                                                                         *)
(* That the recursions of toggleItem compute the two operators is shown    *)
(* by exhibiting the recursive function, and then that there is no other:  *)
(* where two differed, take the fewest items left to visit.                *)
(***************************************************************************)
EXTENDS AuthorizationCard, FiniteSetTheorems, TLAPS

\* The selection can be decided upon as it stands.
SelectionClosed == \A r \in Request : Closed(needs[r], selected[r])

\* Buttons are for cards not decided, and "allow" is for something.
ButtonsFit ==
  \A r \in Request : /\ allow[r] \/ deny[r] => place[r] = "asking"
                     /\ allow[r] => selected[r] # {}

\* Nothing was sent for a card that is still asking.
AskingIsUnsent == \A r \in Request : place[r] \in {"none", "asking"} => sent[r] = <<>>

IInv ==
  /\ TypeOK /\ DecisionsAreClosed /\ DecidesOnce /\ AllowIsNotEmpty
  /\ SelectionClosed /\ ButtonsFit /\ AskingIsUnsent

-----------------------------------------------------------------------------
(* The selection.                                                          *)

\* Marking an item of a closed selection leaves it closed: what a new item depends on
\* is in every set that reaches, and what an old one depends on was there before.
LEMMA MarkKeepsClosed ==
  ASSUME NEW d \in [Item -> SUBSET Item], NEW S \in SUBSET Item, NEW i \in Item, Closed(d, S)
  PROVE  Mark(d, S, i) \subseteq Item /\ Closed(d, Mark(d, S, i)) /\ i \in Mark(d, S, i)
  <1>1. Mark(d, S, i) \subseteq Item /\ i \in Mark(d, S, i)
    BY DEF Mark
  <1>2. SUFFICES ASSUME NEW j \in Mark(d, S, i), NEW k \in d[j] PROVE k \in Mark(d, S, i)
    BY <1>1 DEF Closed
  <1>3. j \in Item /\ k \in Item
    BY <1>1, <1>2
  <1>4. SUFFICES ASSUME NEW T \in SUBSET Item, S \cup {i} \subseteq T, Reaches(d, S, T)
                 PROVE  k \in T
    BY <1>3 DEF Mark
  <1>5. j \in T
    BY <1>4 DEF Mark
  <1>6. CASE j \in S
    BY <1>2, <1>4, <1>6 DEF Closed
  <1>7. CASE j \notin S
    BY <1>2, <1>4, <1>5, <1>7 DEF Reaches
  <1>. QED BY <1>6, <1>7

\* Unmarking one leaves it closed: an item that stands depends on nothing removed.
LEMMA UnmarkKeepsClosed ==
  ASSUME NEW d \in [Item -> SUBSET Item], NEW S \in SUBSET Item, NEW i \in Item, Closed(d, S)
  PROVE  Unmark(d, S, i) \subseteq S \ {i} /\ Closed(d, Unmark(d, S, i))
  <1>1. Unmark(d, S, i) \subseteq S \ {i}
    BY DEF Unmark
  <1>2. SUFFICES ASSUME NEW j \in Unmark(d, S, i), NEW k \in d[j] PROVE k \in Unmark(d, S, i)
    BY <1>1 DEF Closed
  <1>3. PICK T \in SUBSET (S \ {i}) : Stands(d, S, T) /\ j \in T
    BY DEF Unmark
  <1>4. k \in S
    BY <1>2, <1>3 DEF Closed
  <1>5. k \in T
    BY <1>2, <1>3, <1>4 DEF Stands
  <1>. QED BY <1>3, <1>5 DEF Unmark

-----------------------------------------------------------------------------
(* The recursions of toggleItem.                                           *)

\* Of some finite sets, one holds none of the others.
LEMMA SmallestExists ==
  ASSUME NEW S, NEW B \in SUBSET FiniteSubsetsOf(S), B # {}
  PROVE  \E x \in B : \A y \in B : y \subseteq x => y = x
  <1>1. PICK x \in B : \A y \in B : ~ (<<y, x>> \in StrictSubsetOrdering(S))
    BY FS_StrictSubsetOrderingWellFounded, WFMin, Zenon
  <1>2. ASSUME NEW y \in B, y \subseteq x, y # x PROVE FALSE
    <2>1. x \in SUBSET S /\ y \in SUBSET S
      BY DEF FiniteSubsetsOf
    <2>. QED BY <1>1, <1>2, <2>1 DEF StrictSubsetOrdering
  <1>. QED BY <1>2

\* What the marked items and the new ones reach, the new ones following what they
\* depend on.
Reached(d, marked, new) ==
  {j \in Item : \A S \in SUBSET Item : marked \cup new \subseteq S /\ Reaches(d, marked, S) => j \in S}

LEMMA ReachedIsLeast ==
  ASSUME NEW d \in [Item -> SUBSET Item], NEW marked \in SUBSET Item, NEW new \in SUBSET Item
  PROVE  /\ Reached(d, marked, new) \in SUBSET Item
         /\ marked \cup new \subseteq Reached(d, marked, new)
         /\ Reaches(d, marked, Reached(d, marked, new))
         /\ \A S \in SUBSET Item :
              marked \cup new \subseteq S /\ Reaches(d, marked, S) => Reached(d, marked, new) \subseteq S
  <1>1. Reached(d, marked, new) \in SUBSET Item /\ marked \cup new \subseteq Reached(d, marked, new)
    BY DEF Reached
  <1>2. \A S \in SUBSET Item :
          marked \cup new \subseteq S /\ Reaches(d, marked, S) => Reached(d, marked, new) \subseteq S
    BY DEF Reached
  <1>3. ASSUME NEW j \in Reached(d, marked, new) \ marked, NEW k \in d[j]
        PROVE  k \in Reached(d, marked, new)
    <2>1. j \in Item /\ k \in Item
      BY <1>1
    <2>2. ASSUME NEW S \in SUBSET Item, marked \cup new \subseteq S, Reaches(d, marked, S) PROVE k \in S
      BY <1>2, <2>2 DEF Reaches
    <2>. QED BY <2>1, <2>2 DEF Reached
  <1>. QED BY <1>1, <1>2, <1>3 DEF Reaches

\* Nothing is reached from nothing new.
LEMMA NothingReached ==
  ASSUME NEW d \in [Item -> SUBSET Item], NEW marked \in SUBSET Item, NEW new \in SUBSET marked
  PROVE  Reached(d, marked, new) = marked
  <1>1. Reaches(d, marked, marked)
    BY DEF Reaches
  <1>2. new \in SUBSET Item /\ marked \cup new = marked
    OBVIOUS
  <1>3. marked \cup new \subseteq Reached(d, marked, new) /\ Reached(d, marked, new) \subseteq marked
    BY <1>1, <1>2, ReachedIsLeast
  <1>. QED BY <1>2, <1>3

\* The new items can be followed one after the other.
LEMMA ReachedOneByOne ==
  ASSUME NEW d \in [Item -> SUBSET Item], NEW marked \in SUBSET Item, NEW new \in SUBSET Item,
         NEW x \in new
  PROVE  Reached(d, Reached(d, marked, new \ {x}), {x}) = Reached(d, marked, new)
  <1>. DEFINE a == Reached(d, marked, new \ {x})
              b == Reached(d, a, {x})
              c == Reached(d, marked, new)
  <1>1. /\ a \in SUBSET Item /\ marked \cup (new \ {x}) \subseteq a /\ Reaches(d, marked, a)
        /\ \A S \in SUBSET Item : marked \cup (new \ {x}) \subseteq S /\ Reaches(d, marked, S) => a \subseteq S
    <2>1. new \ {x} \in SUBSET Item
      OBVIOUS
    <2>. QED BY <2>1, ReachedIsLeast
  <1>. HIDE DEF a
  <1>2. /\ b \in SUBSET Item /\ a \cup {x} \subseteq b /\ Reaches(d, a, b)
        /\ \A S \in SUBSET Item : a \cup {x} \subseteq S /\ Reaches(d, a, S) => b \subseteq S
    <2>1. {x} \in SUBSET Item
      OBVIOUS
    <2>. QED BY <1>1, <2>1, ReachedIsLeast
  <1>3. /\ c \in SUBSET Item /\ marked \cup new \subseteq c /\ Reaches(d, marked, c)
        /\ \A S \in SUBSET Item : marked \cup new \subseteq S /\ Reaches(d, marked, S) => c \subseteq S
    BY ReachedIsLeast
  <1>. HIDE DEF b, c
  <1>4. a \subseteq c
    BY <1>1, <1>3
  <1>5. Reaches(d, a, c)
    BY <1>1, <1>3 DEF Reaches
  <1>6. b \subseteq c
    BY <1>2, <1>3, <1>4, <1>5
  <1>7. Reaches(d, marked, b)
    BY <1>1, <1>2 DEF Reaches
  <1>8. c \subseteq b
    BY <1>1, <1>2, <1>3, <1>7
  <1>. QED BY <1>6, <1>8 DEF a, b, c

\* An item not marked yet is followed by what it depends on.
LEMMA ReachedThroughOne ==
  ASSUME NEW d \in [Item -> SUBSET Item], NEW marked \in SUBSET Item, NEW i \in Item \ marked
  PROVE  Reached(d, marked, {i}) = Reached(d, marked \cup {i}, d[i])
  <1>1. \A S \in SUBSET Item :
          marked \cup {i} \subseteq S /\ Reaches(d, marked, S)
            <=> (marked \cup {i}) \cup d[i] \subseteq S /\ Reaches(d, marked \cup {i}, S)
    BY DEF Reaches
  <1>. QED BY <1>1 DEF Reached

\* The loop over what an item depends on.
AddAll(f, marked, new) == FoldSet(LAMBDA x, acc : f[<<acc, x>>], marked, new)

\* It adds what is reached, if what it calls does.
LEMMA LoopAdds ==
  ASSUME NEW d \in [Item -> SUBSET Item], NEW marked \in SUBSET Item, NEW new \in SUBSET Item, NEW f,
         \A acc \in SUBSET Item, x \in Item :
           marked \subseteq acc => f[<<acc, x>>] = Reached(d, acc, {x})
  PROVE  AddAll(f, marked, new) = Reached(d, marked, new)
  <1>. DEFINE Step(g, s) == IF s = {} THEN marked
                            ELSE f[<<g[s \ {CHOOSE x \in s : TRUE}], CHOOSE x \in s : TRUE>>]
              fold == CHOOSE g : g = [s \in SUBSET new |-> Step(g, s)]
              all == [s \in SUBSET new |-> Reached(d, marked, s)]
  <1>1. AddAll(f, marked, new) = fold[new]
    BY DEF AddAll, FoldSet, MapThenFoldSet
  <1>2. ASSUME NEW s \in SUBSET new, NEW g,
               s # {} => LET x == CHOOSE x \in s : TRUE IN g[s \ {x}] = Reached(d, marked, s \ {x})
        PROVE  Step(g, s) = Reached(d, marked, s)
    <2>1. CASE s = {}
      <3>1. Reached(d, marked, s) = marked
        BY <2>1, NothingReached
      <3>. QED BY <2>1, <3>1
    <2>2. CASE s # {}
      <3>. DEFINE x == CHOOSE x \in s : TRUE
      <3>1. x \in s
        BY <2>2
      <3>2. g[s \ {x}] = Reached(d, marked, s \ {x}) /\ Step(g, s) = f[<<g[s \ {x}], x>>]
        BY <1>2, <2>2
      <3>. HIDE DEF x, Step
      <3>3. Reached(d, marked, s \ {x}) \in SUBSET Item /\ marked \subseteq Reached(d, marked, s \ {x})
        <4>1. s \ {x} \in SUBSET Item
          OBVIOUS
        <4>. QED BY <4>1, ReachedIsLeast
      <3>4. x \in Item /\ s \in SUBSET Item
        BY <3>1
      <3>5. f[<<Reached(d, marked, s \ {x}), x>>] = Reached(d, Reached(d, marked, s \ {x}), {x})
        BY <3>3, <3>4
      <3>. QED BY <3>1, <3>2, <3>4, <3>5, ReachedOneByOne
    <2>. QED BY <2>1, <2>2
  <1>3. fold = [s \in SUBSET new |-> Step(fold, s)]
    <2>1. \A s \in SUBSET new : Step(all, s) = all[s]
      <3>. SUFFICES ASSUME NEW s \in SUBSET new PROVE Step(all, s) = all[s]
        OBVIOUS
      <3>1. \A x : all[s \ {x}] = Reached(d, marked, s \ {x})
        OBVIOUS
      <3>. HIDE DEF all
      <3>2. Step(all, s) = Reached(d, marked, s)
        BY <1>2, <3>1
      <3>. QED BY <3>2 DEF all
    <2>2. all = [s \in SUBSET new |-> Step(all, s)]
      <3>1. all = [s \in SUBSET new |-> all[s]]
        OBVIOUS
      <3>. HIDE DEF Step, all
      <3>. QED BY <2>1, <3>1
    <2>. HIDE DEF Step, all
    <2>. QED BY <2>2
  <1>. HIDE DEF fold
  <1>4. \A s \in SUBSET new : fold[s] = Step(fold, s)
    <2>. HIDE DEF Step
    <2>. QED BY <1>3
  <1>. HIDE DEF Step, all
  <1>5. \A s \in SUBSET new : fold[s] = Reached(d, marked, s)
    <2>. DEFINE B == {s \in SUBSET new : fold[s] # Reached(d, marked, s)}
    <2>. SUFFICES ASSUME B # {} PROVE FALSE
      OBVIOUS
    <2>1. B \in SUBSET FiniteSubsetsOf(Item)
      BY ItemAssumption, FS_Subset DEF FiniteSubsetsOf
    <2>2. PICK s \in B : \A y \in B : y \subseteq s => y = s
      <3>. HIDE DEF B
      <3>. QED BY <2>1, SmallestExists
    <2>3. s # {} => LET x == CHOOSE x \in s : TRUE IN fold[s \ {x}] = Reached(d, marked, s \ {x})
      BY <2>2
    <2>. QED BY <1>2, <1>4, <2>3
  <1>. QED BY <1>1, <1>5

\* So the recursion that marks adds what is reached, nothing more and nothing less.
LEMMA AddMarks ==
  ASSUME NEW d \in [Item -> SUBSET Item], NEW marked \in SUBSET Item, NEW i \in Item
  PROVE  Add(d, marked, i) = Reached(d, marked, {i})
  <1>. DEFINE Pair == (SUBSET Item) \X Item
              Step(f, a) == IF a[2] \in a[1] THEN a[1]
                            ELSE AddAll(f, a[1] \cup {a[2]}, d[a[2]])
              add == CHOOSE f : f = [a \in Pair |-> Step(f, a)]
              all == [a \in Pair |-> Reached(d, a[1], {a[2]})]
  <1>1. Add(d, marked, i) = add[<<marked, i>>]
    BY DEF Add, AddAll
  <1>2. ASSUME NEW m \in SUBSET Item, NEW x \in Item, NEW f,
               x \notin m => \A acc \in SUBSET Item, y \in Item :
                               m \cup {x} \subseteq acc => f[<<acc, y>>] = Reached(d, acc, {y})
        PROVE  Step(f, <<m, x>>) = Reached(d, m, {x})
    <2>1. CASE x \in m
      <3>1. Reached(d, m, {x}) = m
        BY <2>1, NothingReached
      <3>. QED BY <2>1, <3>1
    <2>2. CASE x \notin m
      <3>1. m \cup {x} \in SUBSET Item /\ d[x] \in SUBSET Item
        OBVIOUS
      <3>2. AddAll(f, m \cup {x}, d[x]) = Reached(d, m \cup {x}, d[x])
        <4>. DEFINE next == m \cup {x}
                    new == d[x]
        <4>1. next \in SUBSET Item /\ new \in SUBSET Item
          BY <3>1
        <4>2. \A acc \in SUBSET Item, y \in Item : next \subseteq acc => f[<<acc, y>>] = Reached(d, acc, {y})
          BY <1>2, <2>2
        <4>. HIDE DEF next, new
        <4>3. AddAll(f, next, new) = Reached(d, next, new)
          BY <4>1, <4>2, LoopAdds
        <4>. QED BY <4>3 DEF next, new
      <3>3. Reached(d, m, {x}) = Reached(d, m \cup {x}, d[x])
        BY <2>2, ReachedThroughOne
      <3>. QED BY <2>2, <3>2, <3>3
    <2>. QED BY <2>1, <2>2
  <1>. HIDE DEF Step
  <1>3. \A m \in SUBSET Item, x \in Item : <<m, x>> \in Pair /\ all[<<m, x>>] = Reached(d, m, {x})
    OBVIOUS
  <1>4. \A a \in Pair : a[1] \in SUBSET Item /\ a[2] \in Item /\ a = <<a[1], a[2]>>
    OBVIOUS
  <1>5. \A a \in Pair : Step(all, a) = all[a]
    <2>. SUFFICES ASSUME NEW a \in Pair PROVE Step(all, a) = all[a]
      OBVIOUS
    <2>. HIDE DEF Pair, all
    <2>1. Step(all, <<a[1], a[2]>>) = Reached(d, a[1], {a[2]})
      BY <1>2, <1>3, <1>4
    <2>. QED BY <1>3, <1>4, <2>1
  <1>6. add = [a \in Pair |-> Step(add, a)]
    <2>1. all = [a \in Pair |-> all[a]]
      OBVIOUS
    <2>. HIDE DEF Pair, all
    <2>2. all = [a \in Pair |-> Step(all, a)]
      BY <1>5, <2>1
    <2>. QED BY <2>2
  <1>. HIDE DEF add, all
  <1>7. \A m \in SUBSET Item, x \in Item : add[<<m, x>>] = Step(add, <<m, x>>)
    <2>. HIDE DEF Pair
    <2>. QED BY <1>3, <1>6
  <1>8. \A m \in SUBSET Item, x \in Item : add[<<m, x>>] = Reached(d, m, {x})
    <2>. DEFINE B == {Item \ m : m \in {n \in SUBSET Item : \E x \in Item : add[<<n, x>>] # Reached(d, n, {x})}}
    <2>. SUFFICES ASSUME B # {} PROVE FALSE
      OBVIOUS
    <2>1. B \in SUBSET FiniteSubsetsOf(Item)
      BY ItemAssumption, FS_Subset DEF FiniteSubsetsOf
    <2>2. PICK r \in B : \A y \in B : y \subseteq r => y = r
      <3>. HIDE DEF B
      <3>. QED BY <2>1, SmallestExists
    <2>3. PICK m \in SUBSET Item, x \in Item : r = Item \ m /\ add[<<m, x>>] # Reached(d, m, {x})
      OBVIOUS
    <2>4. ASSUME x \notin m, NEW acc \in SUBSET Item, NEW y \in Item, m \cup {x} \subseteq acc
          PROVE  add[<<acc, y>>] = Reached(d, acc, {y})
      <3>1. Item \ acc \subseteq r /\ Item \ acc # r
        BY <2>3, <2>4
      <3>2. Item \ acc \notin B
        BY <2>2, <3>1
      <3>. QED BY <3>2
    <2>5. Step(add, <<m, x>>) = Reached(d, m, {x})
      BY <1>2, <2>4
    <2>. QED BY <1>7, <2>3, <2>5
  <1>. QED BY <1>1, <1>8

\* What is left when some items go, and with them what depends on them.
Left(d, marked, gone) == UNION {S \in SUBSET (marked \ gone) : Stands(d, marked, S)}

LEMMA LeftIsMost ==
  ASSUME NEW d \in [Item -> SUBSET Item], NEW marked \in SUBSET Item, NEW gone
  PROVE  /\ Left(d, marked, gone) \in SUBSET Item
         /\ Left(d, marked, gone) \subseteq marked \ gone
         /\ Stands(d, marked, Left(d, marked, gone))
         /\ \A S \in SUBSET (marked \ gone) : Stands(d, marked, S) => S \subseteq Left(d, marked, gone)
  <1>1. /\ Left(d, marked, gone) \subseteq marked \ gone
        /\ \A S \in SUBSET (marked \ gone) : Stands(d, marked, S) => S \subseteq Left(d, marked, gone)
    BY DEF Left
  <1>2. ASSUME NEW j \in Left(d, marked, gone), NEW k \in d[j] \cap marked
        PROVE  k \in Left(d, marked, gone)
    <2>1. PICK S \in SUBSET (marked \ gone) : Stands(d, marked, S) /\ j \in S
      BY DEF Left
    <2>2. k \in S
      BY <1>2, <2>1 DEF Stands
    <2>. QED BY <1>1, <2>1, <2>2
  <1>3. Stands(d, marked, Left(d, marked, gone))
    BY <1>2 DEF Stands
  <1>. QED BY <1>1, <1>3

\* All is left when nothing marked goes.
LEMMA AllIsLeft ==
  ASSUME NEW d \in [Item -> SUBSET Item], NEW marked \in SUBSET Item, NEW gone, gone \cap marked = {}
  PROVE  Left(d, marked, gone) = marked
  <1>1. Stands(d, marked, marked) /\ marked \in SUBSET (marked \ gone)
    BY DEF Stands
  <1>2. Left(d, marked, gone) \subseteq marked \ gone /\ marked \subseteq Left(d, marked, gone)
    BY <1>1, LeftIsMost
  <1>. QED BY <1>2

\* The items can go one after the other.
LEMMA LeftOneByOne ==
  ASSUME NEW d \in [Item -> SUBSET Item], NEW marked \in SUBSET Item, NEW gone, NEW x \in gone
  PROVE  Left(d, Left(d, marked, gone \ {x}), {x}) = Left(d, marked, gone)
  <1>. DEFINE a == Left(d, marked, gone \ {x})
              b == Left(d, a, {x})
              c == Left(d, marked, gone)
  <1>1. /\ a \in SUBSET Item /\ a \subseteq marked \ (gone \ {x}) /\ Stands(d, marked, a)
        /\ \A S \in SUBSET (marked \ (gone \ {x})) : Stands(d, marked, S) => S \subseteq a
    BY LeftIsMost
  <1>. HIDE DEF a
  <1>2. /\ b \in SUBSET Item /\ b \subseteq a \ {x} /\ Stands(d, a, b)
        /\ \A S \in SUBSET (a \ {x}) : Stands(d, a, S) => S \subseteq b
    BY <1>1, LeftIsMost
  <1>3. /\ c \in SUBSET Item /\ c \subseteq marked \ gone /\ Stands(d, marked, c)
        /\ \A S \in SUBSET (marked \ gone) : Stands(d, marked, S) => S \subseteq c
    BY LeftIsMost
  <1>. HIDE DEF b, c
  <1>4. c \subseteq a
    <2>1. c \in SUBSET (marked \ (gone \ {x}))
      BY <1>3
    <2>. QED BY <1>1, <1>3, <2>1
  <1>5. Stands(d, a, c)
    BY <1>1, <1>3 DEF Stands
  <1>6. c \subseteq b
    <2>1. c \in SUBSET (a \ {x})
      BY <1>3, <1>4
    <2>. QED BY <1>2, <1>5, <2>1
  <1>7. Stands(d, marked, b)
    BY <1>1, <1>2 DEF Stands
  <1>8. b \subseteq c
    <2>1. b \in SUBSET (marked \ gone)
      BY <1>1, <1>2
    <2>. QED BY <1>3, <1>7, <2>1
  <1>. QED BY <1>6, <1>8 DEF a, b, c

\* With a marked item goes what depends on it.
LEMMA LeftThroughOne ==
  ASSUME NEW d \in [Item -> SUBSET Item], NEW marked \in SUBSET Item, NEW i \in marked
  PROVE  Left(d, marked, {i}) = Left(d, marked \ {i}, {x \in Item : i \in d[x]})
  <1>. DEFINE rest == marked \ {i}
              gone == {x \in Item : i \in d[x]}
  <1>1. \A S : S \in SUBSET (marked \ {i}) /\ Stands(d, marked, S)
                <=> S \in SUBSET (rest \ gone) /\ Stands(d, rest, S)
    <2>. SUFFICES ASSUME NEW S \in SUBSET rest
                  PROVE  Stands(d, marked, S) <=> S \cap gone = {} /\ Stands(d, rest, S)
      <3>. HIDE DEF gone
      <3>. QED OBVIOUS
    <2>. QED BY DEF Stands
  <1>. HIDE DEF gone, rest
  <1>2. {S \in SUBSET (marked \ {i}) : Stands(d, marked, S)} = {S \in SUBSET (rest \ gone) : Stands(d, rest, S)}
    BY <1>1
  <1>. QED BY <1>2 DEF Left, gone, rest

\* The loop that removes what depends on an item i.
RemoveAll(f, d, i, marked, items) ==
  FoldSet(LAMBDA x, acc : IF i \in d[x] THEN f[<<acc, x>>] ELSE acc, marked, items)

\* It leaves what is left, if what it calls does.
LEMMA LoopRemoves ==
  ASSUME NEW d \in [Item -> SUBSET Item], NEW i \in Item, NEW marked \in SUBSET Item, NEW f,
         \A acc \in SUBSET marked, x \in Item : f[<<acc, x>>] = Left(d, acc, {x})
  PROVE  RemoveAll(f, d, i, marked, Item) = Left(d, marked, {x \in Item : i \in d[x]})
  <1>. DEFINE Gone(s) == {x \in s : i \in d[x]}
              Call(acc, x) == IF i \in d[x] THEN f[<<acc, x>>] ELSE acc
              Step(g, s) == IF s = {} THEN marked
                            ELSE Call(g[s \ {CHOOSE x \in s : TRUE}], CHOOSE x \in s : TRUE)
              fold == CHOOSE g : g = [s \in SUBSET Item |-> Step(g, s)]
              all == [s \in SUBSET Item |-> Left(d, marked, Gone(s))]
  <1>1. RemoveAll(f, d, i, marked, Item) = fold[Item]
    BY DEF RemoveAll, FoldSet, MapThenFoldSet
  <1>2. ASSUME NEW s \in SUBSET Item, NEW g,
               s # {} => LET x == CHOOSE x \in s : TRUE IN g[s \ {x}] = Left(d, marked, Gone(s \ {x}))
        PROVE  Step(g, s) = Left(d, marked, Gone(s))
    <2>1. CASE s = {}
      <3>1. Left(d, marked, Gone(s)) = marked
        BY <2>1, AllIsLeft
      <3>. QED BY <2>1, <3>1
    <2>2. CASE s # {}
      <3>. DEFINE x == CHOOSE x \in s : TRUE
                  acc == Left(d, marked, Gone(s \ {x}))
      <3>1. x \in s
        BY <2>2
      <3>2. Step(g, s) = Call(acc, x)
        <4>1. g[s \ {x}] = acc
          BY <1>2, <2>2
        <4>. HIDE DEF acc, Call
        <4>. QED BY <2>2, <4>1
      <3>. HIDE DEF x, Step
      <3>3. acc \in SUBSET marked
        BY LeftIsMost
      <3>4. CASE i \in d[x]
        <4>1. Gone(s \ {x}) = Gone(s) \ {x} /\ x \in Gone(s)
          BY <3>1, <3>4
        <4>2. Call(acc, x) = Left(d, acc, {x})
          <5>. HIDE DEF acc
          <5>. QED BY <3>1, <3>3, <3>4
        <4>3. Left(d, Left(d, marked, Gone(s) \ {x}), {x}) = Left(d, marked, Gone(s))
          <5>. HIDE DEF Gone
          <5>. QED BY <4>1, LeftOneByOne
        <4>. HIDE DEF Gone, Call
        <4>. QED BY <3>2, <4>1, <4>2, <4>3
      <3>5. CASE i \notin d[x]
        <4>1. Gone(s \ {x}) = Gone(s)
          BY <3>1, <3>5
        <4>2. Call(acc, x) = acc
          <5>. HIDE DEF acc
          <5>. QED BY <3>5
        <4>. HIDE DEF Gone, Call
        <4>. QED BY <3>2, <4>1, <4>2
      <3>. QED BY <3>4, <3>5
    <2>. QED BY <2>1, <2>2
  <1>. HIDE DEF Gone
  <1>3. fold = [s \in SUBSET Item |-> Step(fold, s)]
    <2>1. \A s \in SUBSET Item : Step(all, s) = all[s]
      <3>. SUFFICES ASSUME NEW s \in SUBSET Item PROVE Step(all, s) = all[s]
        OBVIOUS
      <3>1. \A x : all[s \ {x}] = Left(d, marked, Gone(s \ {x}))
        OBVIOUS
      <3>. HIDE DEF all
      <3>2. Step(all, s) = Left(d, marked, Gone(s))
        BY <1>2, <3>1
      <3>. QED BY <3>2 DEF all
    <2>2. all = [s \in SUBSET Item |-> Step(all, s)]
      <3>1. all = [s \in SUBSET Item |-> all[s]]
        OBVIOUS
      <3>. HIDE DEF Step, all
      <3>. QED BY <2>1, <3>1
    <2>. HIDE DEF Step, all
    <2>. QED BY <2>2
  <1>. HIDE DEF fold
  <1>4. \A s \in SUBSET Item : fold[s] = Step(fold, s)
    <2>. HIDE DEF Step
    <2>. QED BY <1>3
  <1>. HIDE DEF Step, all
  <1>5. \A s \in SUBSET Item : fold[s] = Left(d, marked, Gone(s))
    <2>. DEFINE B == {s \in SUBSET Item : fold[s] # Left(d, marked, Gone(s))}
    <2>. SUFFICES ASSUME B # {} PROVE FALSE
      OBVIOUS
    <2>1. B \in SUBSET FiniteSubsetsOf(Item)
      BY ItemAssumption, FS_Subset DEF FiniteSubsetsOf
    <2>2. PICK s \in B : \A y \in B : y \subseteq s => y = s
      <3>. HIDE DEF B
      <3>. QED BY <2>1, SmallestExists
    <2>3. s # {} => LET x == CHOOSE x \in s : TRUE IN fold[s \ {x}] = Left(d, marked, Gone(s \ {x}))
      BY <2>2
    <2>. QED BY <1>2, <1>4, <2>3
  <1>6. fold[Item] = Left(d, marked, Gone(Item))
    BY <1>5
  <1>. QED BY <1>1, <1>6 DEF Gone

\* So the recursion that unmarks leaves what is left, nothing more and nothing less.
LEMMA RemoveUnmarks ==
  ASSUME NEW d \in [Item -> SUBSET Item], NEW marked \in SUBSET Item, NEW i \in Item
  PROVE  Remove(d, marked, i) = Left(d, marked, {i})
  <1>. DEFINE Pair == (SUBSET Item) \X Item
              Step(f, a) == IF a[2] \notin a[1] THEN a[1]
                            ELSE RemoveAll(f, d, a[2], a[1] \ {a[2]}, Item)
              remove == CHOOSE f : f = [a \in Pair |-> Step(f, a)]
              all == [a \in Pair |-> Left(d, a[1], {a[2]})]
  <1>1. Remove(d, marked, i) = remove[<<marked, i>>]
    BY DEF Remove, RemoveAll
  <1>2. ASSUME NEW m \in SUBSET Item, NEW x \in Item, NEW f,
               x \in m => \A acc \in SUBSET (m \ {x}), y \in Item : f[<<acc, y>>] = Left(d, acc, {y})
        PROVE  Step(f, <<m, x>>) = Left(d, m, {x})
    <2>1. CASE x \notin m
      <3>1. Left(d, m, {x}) = m
        BY <2>1, AllIsLeft
      <3>. QED BY <2>1, <3>1
    <2>2. CASE x \in m
      <3>1. m \ {x} \in SUBSET Item
        OBVIOUS
      <3>2. RemoveAll(f, d, x, m \ {x}, Item) = Left(d, m \ {x}, {y \in Item : x \in d[y]})
        BY <1>2, <2>2, <3>1, LoopRemoves
      <3>3. Left(d, m, {x}) = Left(d, m \ {x}, {y \in Item : x \in d[y]})
        BY <2>2, LeftThroughOne
      <3>. QED BY <2>2, <3>2, <3>3
    <2>. QED BY <2>1, <2>2
  <1>. HIDE DEF Step
  <1>3. \A m \in SUBSET Item, x \in Item : <<m, x>> \in Pair /\ all[<<m, x>>] = Left(d, m, {x})
    OBVIOUS
  <1>4. \A a \in Pair : a[1] \in SUBSET Item /\ a[2] \in Item /\ a = <<a[1], a[2]>>
    OBVIOUS
  <1>5. \A a \in Pair : Step(all, a) = all[a]
    <2>. SUFFICES ASSUME NEW a \in Pair PROVE Step(all, a) = all[a]
      OBVIOUS
    <2>. HIDE DEF Pair, all
    <2>1. Step(all, <<a[1], a[2]>>) = Left(d, a[1], {a[2]})
      BY <1>2, <1>3, <1>4
    <2>. QED BY <1>3, <1>4, <2>1
  <1>6. remove = [a \in Pair |-> Step(remove, a)]
    <2>1. all = [a \in Pair |-> all[a]]
      OBVIOUS
    <2>. HIDE DEF Pair, all
    <2>2. all = [a \in Pair |-> Step(all, a)]
      BY <1>5, <2>1
    <2>. QED BY <2>2
  <1>. HIDE DEF remove, all
  <1>7. \A m \in SUBSET Item, x \in Item : remove[<<m, x>>] = Step(remove, <<m, x>>)
    <2>. HIDE DEF Pair
    <2>. QED BY <1>3, <1>6
  <1>8. \A m \in SUBSET Item, x \in Item : remove[<<m, x>>] = Left(d, m, {x})
    <2>. DEFINE B == {m \in SUBSET Item : \E x \in Item : remove[<<m, x>>] # Left(d, m, {x})}
    <2>. SUFFICES ASSUME B # {} PROVE FALSE
      OBVIOUS
    <2>1. B \in SUBSET FiniteSubsetsOf(Item)
      BY ItemAssumption, FS_Subset DEF FiniteSubsetsOf
    <2>2. PICK m \in B : \A y \in B : y \subseteq m => y = m
      <3>. HIDE DEF B
      <3>. QED BY <2>1, SmallestExists
    <2>3. PICK x \in Item : remove[<<m, x>>] # Left(d, m, {x})
      OBVIOUS
    <2>4. ASSUME x \in m, NEW acc \in SUBSET (m \ {x}), NEW y \in Item
          PROVE  remove[<<acc, y>>] = Left(d, acc, {y})
      <3>1. acc \subseteq m /\ acc # m /\ acc \in SUBSET Item
        BY <2>4
      <3>2. acc \notin B
        BY <2>2, <3>1
      <3>. QED BY <3>1, <3>2
    <2>5. Step(remove, <<m, x>>) = Left(d, m, {x})
      BY <1>2, <2>4
    <2>. QED BY <1>7, <2>3, <2>5
  <1>. QED BY <1>1, <1>8

-----------------------------------------------------------------------------
(* The steps.                                                              *)

\* A function that is false everywhere is Boolean: cards off the page, for one.
LEMMA AllFalse == [r \in Request |-> FALSE] \in [Request -> BOOLEAN]
  BY Zenon

\* The portal starts with no card.
LEMMA InitIsGood == Init => IInv
  <1>. SUFFICES ASSUME Init PROVE IInv
    OBVIOUS
  <1>1. sent \in [Request -> Seq(Decision)]
    <2>1. <<>> \in Seq(Decision)
      OBVIOUS
    <2>2. sent = [r \in Request |-> <<>>]
      BY DEF Init
    <2>. QED BY <2>1, <2>2, Zenon
  <1>2. needs \in [Request -> [Item -> SUBSET Item]]
    BY DEF Init
  <1>3. TypeOK
    <2>1. /\ page \in [Request -> BOOLEAN] /\ late \in [Request -> BOOLEAN]
          /\ allow \in [Request -> BOOLEAN] /\ deny \in [Request -> BOOLEAN]
          /\ outcome \in [Request -> BOOLEAN]
      BY AllFalse DEF Init
    <2>2. ready \in BOOLEAN /\ turn \in BOOLEAN
      BY Zenon DEF Init
    <2>3. failed \in 0 .. MaxFailures
      <3>1. failed = 0
        BY DEF Init
      <3>. QED BY <3>1, BoundAssumption
    <2>4. /\ place \in [Request -> {"none", "asking", "decided", "done"}]
          /\ selected \in [Request -> SUBSET Item]
          /\ label \in [Request -> {"", "left", "sending", "expired"}]
          /\ asked \subseteq Request /\ mail \subseteq Request
      BY DEF Init
    <2>. QED BY <1>1, <1>2, <2>1, <2>2, <2>3, <2>4 DEF TypeOK
  <1>4. \A r \in Request : /\ sent[r] = <<>> /\ Len(sent[r]) = 0
                          /\ selected[r] = {} /\ ~ allow[r] /\ ~ deny[r]
    <2>1. \A r \in Request : sent[r] = <<>> /\ selected[r] = {}
      BY DEF Init
    <2>2. \A r \in Request : allow[r] = FALSE /\ deny[r] = FALSE
      BY Zenon DEF Init
    <2>3. Len(<<>>) = 0
      OBVIOUS
    <2>. QED BY <2>1, <2>2, <2>3
  <1>5. DecisionsAreClosed /\ DecidesOnce /\ AllowIsNotEmpty
    BY <1>4 DEF DecisionsAreClosed, DecidesOnce, AllowIsNotEmpty
  <1>6. SelectionClosed /\ ButtonsFit /\ AskingIsUnsent
    BY <1>4 DEF SelectionClosed, ButtonsFit, AskingIsUnsent, Closed
  <1>. QED BY <1>3, <1>5, <1>6 DEF IInv

\* A new card: everything is marked, and nothing was sent.
LEMMA RequestedKeeps ==
  ASSUME IInv, NEW r \in Request, NEW d \in Dependencies, Requested(r, d)
  PROVE  IInv'
  <1>. USE DEF IInv
  <1>1. d \in [Item -> SUBSET Item]
    BY DependenciesAssumption
  <1>2. TypeOK'
    BY <1>1 DEF Requested, TypeOK, view, navigator
  <1>3. /\ sent' = sent /\ sent[r] = <<>> /\ selected'[r] = Item /\ needs'[r] = d
        /\ \A q \in Request \ {r} : needs'[q] = needs[q] /\ selected'[q] = selected[q]
    BY DEF Requested, TypeOK, AskingIsUnsent
  <1>4. SelectionClosed' /\ DecisionsAreClosed'
    BY <1>1, <1>3 DEF SelectionClosed, DecisionsAreClosed, Closed
  <1>5. DecidesOnce' /\ AllowIsNotEmpty'
    BY <1>3 DEF DecidesOnce, AllowIsNotEmpty
  <1>6. ButtonsFit' /\ AskingIsUnsent'
    BY <1>3, ItemAssumption DEF ButtonsFit, AskingIsUnsent, Requested, TypeOK
  <1>. QED BY <1>2, <1>4, <1>5, <1>6

LEMMA ToggleKeeps ==
  ASSUME IInv, NEW r \in Request, NEW i \in Item, Toggle(r, i)
  PROVE  IInv'
  <1>. USE DEF IInv
  <1>1. needs[r] \in [Item -> SUBSET Item] /\ selected[r] \in SUBSET Item
        /\ Closed(needs[r], selected[r])
    BY DEF TypeOK, SelectionClosed
  <1>2. selected'[r] = IF i \in selected[r] THEN Unmark(needs[r], selected[r], i)
                       ELSE Mark(needs[r], selected[r], i)
    BY DEF Toggle, TypeOK
  <1>3. selected'[r] \subseteq Item /\ Closed(needs[r], selected'[r])
    BY <1>1, <1>2, MarkKeepsClosed, UnmarkKeepsClosed
  <1>4. /\ UNCHANGED <<place, needs, page, deny, label, late, sent, view, navigator>>
        /\ \A q \in Request \ {r} : selected'[q] = selected[q] /\ allow'[q] = allow[q]
        /\ allow'[r] = (selected'[r] # {})
        /\ place[r] = "asking"
        /\ selected' \in [Request -> SUBSET Item] /\ allow' \in [Request -> BOOLEAN]
    <2>1. selected' = [selected EXCEPT ![r] = selected'[r]]
      BY <1>2 DEF Toggle, TypeOK
    <2>. QED BY <1>3, <2>1 DEF Toggle, TypeOK
  <1>5. TypeOK'
    BY <1>4 DEF TypeOK, view, navigator
  <1>6. SelectionClosed' /\ ButtonsFit'
    BY <1>3, <1>4 DEF SelectionClosed, ButtonsFit
  <1>. QED
    BY <1>4, <1>5, <1>6 DEF DecisionsAreClosed, DecidesOnce, AllowIsNotEmpty, AskingIsUnsent

\* A decision: the button was enabled, so it is the first.
LEMMA DecideKeeps ==
  ASSUME IInv, NEW r \in Request, NEW yes \in BOOLEAN, Decide(r, yes)
  PROVE  IInv'
  <1>. USE DEF IInv
  <1>. DEFINE decision == [yes |-> yes, items |-> IF yes THEN selected[r] ELSE {}]
  <1>1. decision \in Decision /\ Closed(needs[r], decision.items)
        /\ (decision.yes => decision.items # {})
    BY DEF Decide, Decision, TypeOK, SelectionClosed, ButtonsFit, Closed
  <1>2. place[r] = "asking" /\ sent[r] = <<>>
    BY DEF Decide, ButtonsFit, AskingIsUnsent
  <1>3. /\ place' = [place EXCEPT ![r] = "decided"]
        /\ allow' = [allow EXCEPT ![r] = FALSE] /\ deny' = [deny EXCEPT ![r] = FALSE]
        /\ label' = [label EXCEPT ![r] = "sending"]
        /\ UNCHANGED <<needs, selected, page, late, view, navigator>>
    BY DEF Decide
  <1>4. \/ sent' = sent
        \/ sent' = [sent EXCEPT ![r] = <<decision>>]
    <2>1. Append(sent[r], decision) = <<decision>>
      BY <1>2
    <2>. QED BY <2>1 DEF Decide, TypeOK
  <1>5. sent' \in [Request -> Seq(Decision)]
    <2>1. <<decision>> \in Seq(Decision)
      BY <1>1
    <2>. QED BY <1>4, <2>1 DEF TypeOK
  <1>6. TypeOK'
    BY <1>3, <1>5 DEF TypeOK, view, navigator
  <1>7. \A q \in Request : sent'[q] = sent[q] \/ (q = r /\ sent'[q] = <<decision>>)
    BY <1>4 DEF TypeOK
  <1>8. DecisionsAreClosed' /\ AllowIsNotEmpty' /\ DecidesOnce'
    <2>. SUFFICES ASSUME NEW q \in Request
         PROVE /\ \A n \in 1 .. Len(sent'[q]) : /\ Closed(needs[q], sent'[q][n].items)
                                                /\ sent'[q][n].yes => sent'[q][n].items # {}
               /\ Len(sent'[q]) <= 1
      BY <1>3 DEF DecisionsAreClosed, AllowIsNotEmpty, DecidesOnce
    <2>1. CASE sent'[q] = sent[q]
      BY <2>1 DEF DecisionsAreClosed, AllowIsNotEmpty, DecidesOnce
    <2>2. CASE q = r /\ sent'[q] = <<decision>>
      <3>1. Len(sent'[q]) = 1 /\ sent'[q][1] = decision
        BY <2>2
      <3>. QED BY <1>1, <2>2, <3>1
    <2>. QED BY <1>7, <2>1, <2>2
  <1>9. SelectionClosed' /\ ButtonsFit' /\ AskingIsUnsent'
    BY <1>3, <1>7 DEF SelectionClosed, ButtonsFit, AskingIsUnsent, TypeOK
  <1>. QED BY <1>6, <1>8, <1>9

\* Time and outcomes: buttons are only disabled, and nothing is sent.
LEMMA PassingKeeps ==
  ASSUME IInv, NEW r \in Request, Deadline(r) \/ Tick(r) \/ Resolved(r)
  PROVE  IInv'
  <1>. USE DEF IInv
  <1>1. UNCHANGED <<needs, selected, sent>>
    BY DEF Deadline, Tick, Resolved
  <1>2. TypeOK' /\ ButtonsFit' /\ AskingIsUnsent'
    <2>1. CASE Deadline(r)
      BY <2>1 DEF Deadline, TypeOK, ButtonsFit, AskingIsUnsent, view, navigator
    <2>2. CASE Tick(r)
      BY <2>2 DEF Tick, TypeOK, ButtonsFit, AskingIsUnsent, view, navigator
    <2>3. CASE Resolved(r)
      <3>1. /\ place' = [place EXCEPT ![r] = "done"]
            /\ allow' = [allow EXCEPT ![r] = FALSE] /\ deny' = [deny EXCEPT ![r] = FALSE]
        BY <2>3 DEF Resolved
      <3>2. page' \in [Request -> BOOLEAN]
        BY <2>3 DEF Resolved, TypeOK, Pending
      <3>3. TypeOK'
        BY <2>3, <3>1, <3>2 DEF Resolved, TypeOK, view
      <3>4. r \in Request /\ place'[r] = "done"
        BY <3>1 DEF TypeOK
      <3>5. \A s \in Request \ {r} : place'[s] = place[s] /\ allow'[s] = allow[s] /\ deny'[s] = deny[s]
        BY <3>1 DEF TypeOK
      <3>6. ~ allow'[r] /\ ~ deny'[r]
        BY <3>1 DEF TypeOK
      <3>7. ButtonsFit'
        BY <1>1, <3>4, <3>5, <3>6 DEF ButtonsFit
      <3>8. AskingIsUnsent'
        BY <1>1, <3>4, <3>5 DEF AskingIsUnsent
      <3>. QED BY <3>3, <3>7, <3>8
    <2>. QED BY <2>1, <2>2, <2>3
  <1>. QED
    BY <1>1, <1>2 DEF DecisionsAreClosed, DecidesOnce, AllowIsNotEmpty, SelectionClosed

\* Sessions, turns and the Navigator touch no more of a card than whether it is shown.
LEMMA OthersKeep ==
  ASSUME IInv,
         \/ SessionUp \/ SessionDown \/ Submit \/ Fail \/ Complete
         \/ \E incomplete \in BOOLEAN : Retry(incomplete)
         \/ \E r \in Request : Settle(r) \/ Answer(r)
         \/ UNCHANGED vars
  PROVE  IInv'
  <1>. USE DEF IInv
  <1>1. UNCHANGED <<place, needs, selected, allow, deny, label, late, sent>>
    BY DEF SessionUp, SessionDown, Submit, Fail, Complete, Retry, Settle, Answer, vars, card
  <1>2. TypeOK'
    <2>1. page' \in [Request -> BOOLEAN]
      <3>1. page' = page \/ page' = [r \in Request |-> FALSE]
        BY DEF SessionUp, SessionDown, Submit, Fail, Complete, Retry, Settle, Answer, vars, card
      <3>. QED BY <3>1, AllFalse DEF TypeOK
    <2>2. ready' \in BOOLEAN /\ turn' \in BOOLEAN
      <3>1. ready' \in {ready, TRUE, FALSE} /\ turn' \in {turn, TRUE, FALSE}
        BY DEF SessionUp, SessionDown, Submit, Fail, Complete, Retry, Settle, Answer, vars, view
      <3>. QED BY <3>1, Zenon DEF TypeOK
    <2>3. failed' \in 0 .. MaxFailures
      <3>1. \/ failed' = failed
            \/ failed' = failed + 1 /\ failed < MaxFailures
            \/ failed' = failed - 1 /\ failed > 0
        BY DEF SessionUp, SessionDown, Submit, Fail, Complete, Retry, Settle, Answer, vars, view
      <3>2. failed \in 0 .. MaxFailures
        BY Zenon DEF TypeOK
      <3>. QED BY <3>1, <3>2, BoundAssumption
    <2>4. outcome' \in [Request -> BOOLEAN] /\ asked' \subseteq Request /\ mail' \subseteq Request
      BY DEF SessionUp, SessionDown, Submit, Fail, Complete, Retry, Settle, Answer, vars,
             navigator, Pending, TypeOK
    <2>. QED BY <1>1, <2>1, <2>2, <2>3, <2>4 DEF TypeOK
  <1>. QED
    BY <1>1, <1>2
    DEF DecisionsAreClosed, DecidesOnce, AllowIsNotEmpty, SelectionClosed, ButtonsFit, AskingIsUnsent

LEMMA Inductive == IInv /\ [Next]_vars => IInv'
  <1>. SUFFICES ASSUME IInv, [Next]_vars PROVE IInv'
    OBVIOUS
  <1>1. ASSUME NEW r \in Request, NEW d \in Dependencies, Requested(r, d) PROVE IInv'
    BY <1>1, RequestedKeeps
  <1>2. ASSUME NEW r \in Request, NEW i \in Item, Toggle(r, i) PROVE IInv'
    BY <1>2, ToggleKeeps
  <1>3. ASSUME NEW r \in Request, NEW yes \in BOOLEAN, Decide(r, yes) PROVE IInv'
    BY <1>3, DecideKeeps
  <1>4. ASSUME NEW r \in Request, Deadline(r) \/ Tick(r) \/ Resolved(r) PROVE IInv'
    BY <1>4, PassingKeeps
  <1>. QED
    BY <1>1, <1>2, <1>3, <1>4, OthersKeep DEF Next

\* The inductive invariant, from which the theorems below are read off.
THEOREM Invariance == Spec => []IInv
  <1>. QED BY InitIsGood, Inductive, PTL DEF Spec

-----------------------------------------------------------------------------

\* The state of the cards, of the view and of the Navigator stays in its type.
THEOREM TypeCorrectness == Spec => []TypeOK
  <1>1. IInv => TypeOK
    BY DEF IInv
  <1>. QED BY <1>1, Invariance, PTL

\* No decision allows an item without what it depends on, for any dependencies between
\* any number of items, cycles included (toggleItem, decisionsFor).
THEOREM DecisionsStayClosed == Spec => []DecisionsAreClosed
  <1>1. IInv => DecisionsAreClosed
    BY DEF IInv
  <1>. QED BY <1>1, Invariance, PTL

\* At most one decision is sent for a card (decide disables what leads to it).
THEOREM OneDecision == Spec => []DecidesOnce
  <1>1. IInv => DecidesOnce
    BY DEF IInv
  <1>. QED BY <1>1, Invariance, PTL

\* The button that allows never sends a decision that allows nothing (syncCheckboxes).
THEOREM AllowAllows == Spec => []AllowIsNotEmpty
  <1>1. IInv => AllowIsNotEmpty
    BY DEF IInv
  <1>. QED BY <1>1, Invariance, PTL

\* Whatever the items depend on, marking and unmarking do what toggleItem computes with
\* its two recursions.
THEOREM TogglesAsWritten == Spec => []TogglesLikeTheCode
  <1>1. ASSUME IInv, NEW r \in Request, NEW i \in Item
        PROVE  /\ Unmark(needs[r], selected[r], i) = Remove(needs[r], selected[r], i)
               /\ Mark(needs[r], selected[r], i) = Add(needs[r], selected[r], i)
    <2>1. needs[r] \in [Item -> SUBSET Item] /\ selected[r] \in SUBSET Item
      BY <1>1 DEF IInv, TypeOK
    <2>2. Mark(needs[r], selected[r], i) = Reached(needs[r], selected[r], {i})
      BY DEF Mark, Reached
    <2>3. Unmark(needs[r], selected[r], i) = Left(needs[r], selected[r], {i})
      BY DEF Unmark, Left
    <2>. QED BY <2>1, <2>2, <2>3, AddMarks, RemoveUnmarks
  <1>2. IInv => TogglesLikeTheCode
    BY <1>1 DEF TogglesLikeTheCode
  <1>. QED BY <1>2, Invariance, PTL

=============================================================================
