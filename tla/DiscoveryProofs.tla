-------------------------- MODULE DiscoveryProofs --------------------------
(***************************************************************************)
(* Proofs about DiscoveryPaging, for every catalog, any number of its      *)
(* changes, every limit and search, and each of the three engines.         *)
(*                                                                         *)
(* ListingWhole: a listing that was read to its end is whole.  At every    *)
(* position of the catalog two sets are counted: the objects that the      *)
(* listing passed without delivering them (Missed) and those it delivered  *)
(* without having passed them (Ahead).  A dropped column moves those       *)
(* behind it back by one, so that at most one more is missed; an added one *)
(* moves them on, so that at most one more is ahead (CatalogKeeps).  A     *)
(* page passes no object that it does not deliver, and what it repeats was *)
(* ahead (ReadKeeps).  So at the last page what is missed is bounded by    *)
(* the columns dropped, and what was repeated by those added.              *)
(*                                                                         *)
(* FailuresExplained: every sentinel in an error tells something that went *)
(* wrong or a context that ended (Explained), and PostgreSQL's errors tell *)
(* of nothing but the cancellation once there was one (Undistracted).      *)
(*                                                                         *)
(* As far as a listing goes, a step of a call is of one of seven kinds     *)
(* (CallStep), and as far as its error goes of one of two (Failing,        *)
(* Going); each action of the service and of each discoverer is shown to   *)
(* be of one of each (ServiceSteps, PgSteps, MySteps, LiteSteps).          *)
(***************************************************************************)
EXTENDS DiscoveryPaging, FiniteSetTheorems, WellFoundedInduction, TLAPS
---------------------------------------------------------------------------
(* Ranks in a set of numbers, and the first of them.                       *)

\* The least of some numbers is one of them, and is below the others.
LEMMA LeastIs ==
    ASSUME NEW S \in SUBSET Nat, S # {}
    PROVE  Min(S) \in S /\ \A o \in S : Min(S) <= o
<1> DEFINE R == OpToRel(<, Nat)
<1>1. IsWellFoundedOn(R, Nat)
  BY NatLessThanWellFounded
<1>2. \A o, p \in Nat : <<o, p>> \in R <=> o < p
  BY DEF OpToRel
<1> HIDE DEF R
<1>3. \E o \in S : \A p \in S : ~(<<p, o>> \in R)
  BY <1>1, WFMin
<1>4. PICK o \in S : \A p \in S : ~(<<p, o>> \in R)
  BY <1>3
<1>5. ASSUME NEW p \in S
      PROVE  o <= p
  <2>1. o \in Nat /\ p \in Nat /\ ~(<<p, o>> \in R)
    BY <1>4
  <2>2. ~(p < o)
    BY <1>2, <2>1
  <2>3. QED
    BY <2>1, <2>2
<1>6. QED
  BY <1>5 DEF Min
---------------------------------------------------------------------------
(***************************************************************************)
(* How many of a set of objects come up to one of them.                    *)
(***************************************************************************)
UpTo(S, o) == {p \in S : p <= o}
Rank(S, o) == Cardinality(UpTo(S, o))

\* The objects are finitely many numbers, none of them 0.
LEMMA IdsAre ==
    ASSUME NEW S \in SUBSET Ids
    PROVE  IsFiniteSet(S) /\ Cardinality(S) \in Nat /\ S \in SUBSET (Nat \ {0})
  BY DiscoveryAssumption, FS_Subset, FS_CardinalityType

\* An object's rank is a number, and not 0 if it is itself counted.
LEMMA RankIs ==
    ASSUME NEW S \in SUBSET Ids, NEW o
    PROVE  /\ IsFiniteSet(UpTo(S, o)) /\ Rank(S, o) \in Nat /\ Rank(S, o) <= Cardinality(S)
           /\ o \in S => Rank(S, o) # 0
<1>1. UpTo(S, o) \in SUBSET Ids /\ UpTo(S, o) \in SUBSET S
  BY DEF UpTo
<1>2. IsFiniteSet(UpTo(S, o)) /\ Rank(S, o) \in Nat /\ Rank(S, o) <= Cardinality(S)
  BY <1>1, IdsAre, FS_Subset DEF Rank
<1>3. ASSUME o \in S
      PROVE  Rank(S, o) # 0
  <2>1. o \in UpTo(S, o)
    BY <1>3, IdsAre DEF UpTo
  <2>2. QED
    BY <1>2, <2>1, FS_EmptySet DEF Rank
<1>4. QED
  BY <1>2, <1>3

\* A later object has a higher rank.
LEMMA RankGrows ==
    ASSUME NEW S \in SUBSET Ids, NEW o \in Nat, NEW p \in S, o < p
    PROVE  Rank(S, o) < Rank(S, p)
<1>1. p \in Nat /\ UpTo(S, o) \cup {p} \in SUBSET UpTo(S, p) /\ p \notin UpTo(S, o)
  BY IdsAre DEF UpTo
<1>2. IsFiniteSet(UpTo(S, o)) /\ IsFiniteSet(UpTo(S, p)) /\ Rank(S, o) \in Nat /\ Rank(S, p) \in Nat
  BY RankIs
<1>3. Cardinality(UpTo(S, o) \cup {p}) = Rank(S, o) + 1
  BY <1>1, <1>2, FS_AddElement DEF Rank
<1>4. Cardinality(UpTo(S, o) \cup {p}) <= Rank(S, p)
  BY <1>1, <1>2, FS_Subset DEF Rank
<1>5. QED
  BY <1>2, <1>3, <1>4

\* Ranks are in the order of the objects.
LEMMA RankOrders ==
    ASSUME NEW S \in SUBSET Ids, NEW o \in S, NEW p \in S
    PROVE  o <= p <=> Rank(S, o) <= Rank(S, p)
<1>1. o \in Nat /\ p \in Nat /\ Rank(S, o) \in Nat /\ Rank(S, p) \in Nat
  BY IdsAre, RankIs
<1>2. CASE o < p
  BY <1>1, <1>2, RankGrows
<1>3. CASE p < o
  BY <1>1, <1>3, RankGrows
<1>4. QED
  BY <1>1, <1>2, <1>3

\* A new object moves those behind it on by one.
LEMMA RankAdds ==
    ASSUME NEW S \in SUBSET Ids, NEW o \in Ids \ S, NEW p \in Nat
    PROVE  Rank(S \cup {o}, p) = Rank(S, p) + (IF o <= p THEN 1 ELSE 0)
<1>1. IsFiniteSet(UpTo(S, p)) /\ Rank(S, p) \in Nat /\ o \notin UpTo(S, p)
  BY RankIs DEF UpTo
<1>2. CASE o <= p
  <2>1. UpTo(S \cup {o}, p) = UpTo(S, p) \cup {o}
    BY <1>2 DEF UpTo
  <2>2. QED
    BY <1>1, <1>2, <2>1, FS_AddElement DEF Rank
<1>3. CASE ~(o <= p)
  <2>1. UpTo(S \cup {o}, p) = UpTo(S, p)
    BY <1>3 DEF UpTo
  <2>2. QED
    BY <1>1, <1>3, <2>1 DEF Rank
<1>4. QED
  BY <1>2, <1>3

\* A removed object moves those behind it back by one.
LEMMA RankRemoves ==
    ASSUME NEW S \in SUBSET Ids, NEW o \in S, NEW p \in Nat
    PROVE  Rank(S \ {o}, p) = Rank(S, p) - (IF o <= p THEN 1 ELSE 0)
<1>1. S \ {o} \in SUBSET Ids /\ o \in Ids \ (S \ {o}) /\ (S \ {o}) \cup {o} = S
  OBVIOUS
<1>2. Rank(S \ {o}, p) \in Nat /\ Rank(S, p) \in Nat
  BY <1>1, RankIs
<1>3. Rank(S, p) = Rank(S \ {o}, p) + (IF o <= p THEN 1 ELSE 0)
  BY <1>1, RankAdds
<1>4. QED
  BY <1>2, <1>3

\* The last of some objects is the one the others do not come up to.
LEMMA LastIs ==
    ASSUME NEW S \in SUBSET Ids, S # {}
    PROVE  Max(S) \in S /\ \A o \in S : o <= Max(S)
<1> DEFINE Left(o) == Cardinality(S) - Rank(S, o)
           T == {Left(o) : o \in S}
<1>1. \A o \in S : Left(o) \in Nat /\ Rank(S, o) \in Nat /\ Cardinality(S) \in Nat
  <2>1. Cardinality(S) \in Nat
    BY IdsAre
  <2>2. ASSUME NEW o \in S
        PROVE  Rank(S, o) \in Nat /\ Rank(S, o) <= Cardinality(S)
    BY RankIs
  <2>3. QED
    BY <2>1, <2>2
<1>2. T \in SUBSET Nat /\ T # {}
  BY <1>1
<1>3. Min(T) \in T /\ \A n \in T : Min(T) <= n
  <2> HIDE DEF T
  <2>1. QED
    BY <1>2, LeastIs
<1>4. PICK m \in S : \A o \in S : Left(m) <= Left(o)
  BY <1>3
<1>5. ASSUME NEW o \in S
      PROVE  o <= m
  <2>1. Rank(S, o) <= Rank(S, m)
    BY <1>1, <1>4
  <2>2. QED
    BY <2>1, RankOrders
<1>6. \A o \in S : m >= o
  BY <1>5, IdsAre
<1> HIDE DEF T, Left
<1>7. Max(S) \in S /\ \A o \in S : Max(S) >= o
  BY <1>6 DEF Max
<1>8. QED
  BY <1>7, IdsAre

\* The first n of a set: those before one of them are among them, and they
\* are all if they are fewer than n or the set has no more than n.
LEMMA FirstAre ==
    ASSUME NEW S \in SUBSET Ids, NEW n \in Nat \ {0}
    PROVE  /\ FirstOf(S, n) \in SUBSET S
           /\ \A o \in FirstOf(S, n), p \in S : p <= o => p \in FirstOf(S, n)
           /\ S # {} => FirstOf(S, n) # {}
           /\ Cardinality(FirstOf(S, n)) < n => FirstOf(S, n) = S
           /\ Cardinality(S) <= n => FirstOf(S, n) = S
<1> DEFINE F == FirstOf(S, n)
<1>1. F = {o \in S : Rank(S, o) <= n}
  BY DEF FirstOf, Rank, UpTo
<1>2. F \in SUBSET S /\ F \in SUBSET Ids /\ IsFiniteSet(F) /\ Cardinality(F) \in Nat
  <2>1. F \in SUBSET S
    BY <1>1
  <2>2. QED
    BY <2>1, IdsAre
<1>3. ASSUME NEW o \in F, NEW p \in S, p <= o
      PROVE  p \in F
  <2>1. Rank(S, p) <= Rank(S, o) /\ Rank(S, p) \in Nat /\ Rank(S, o) \in Nat
    BY <1>2, <1>3, RankOrders, RankIs
  <2>2. QED
    BY <1>1, <2>1
<1>4. ASSUME NEW o \in S, \A p \in S \ F : o <= p, Cardinality(F) < n
      PROVE  o \in F
  <2>1. UpTo(S, o) \in SUBSET (F \cup {o})
    BY <1>4, <1>2, IdsAre DEF UpTo
  <2>2. IsFiniteSet(F \cup {o}) /\ Cardinality(F \cup {o}) <= Cardinality(F) + 1
    BY <1>2, FS_AddElement
  <2>3. Cardinality(F \cup {o}) \in Nat
    BY <2>2, FS_CardinalityType
  <2>4. Rank(S, o) <= Cardinality(F \cup {o}) /\ Rank(S, o) \in Nat
    BY <2>1, <2>2, FS_Subset, RankIs DEF Rank
  <2>5. Rank(S, o) <= n
    BY <1>2, <1>4, <2>2, <2>3, <2>4
  <2>6. QED
    BY <1>1, <2>5
<1>5. ASSUME Cardinality(F) < n
      PROVE  F = S
  <2>1. SUFFICES ASSUME S \ F # {} PROVE FALSE
    BY <1>2
  <2>2. S \ F \in SUBSET Nat
    BY IdsAre
  <2>3. PICK o \in S \ F : \A p \in S \ F : o <= p
    BY <2>1, <2>2, LeastIs
  <2>4. QED
    BY <1>4, <1>5, <2>3
<1>6. ASSUME S # {}
      PROVE  F # {}
  <2>1. SUFFICES ASSUME F = {} PROVE FALSE
    OBVIOUS
  <2>2. Cardinality(F) = 0
    BY <2>1, FS_EmptySet
  <2>3. QED
    BY <1>5, <1>6, <2>1, <2>2
<1>7. ASSUME Cardinality(S) <= n
      PROVE  F = S
  <2>1. ASSUME NEW o \in S
        PROVE  Rank(S, o) <= n
    BY <1>7, RankIs, IdsAre
  <2>2. QED
    BY <1>1, <2>1
<1>8. QED
  BY <1>2, <1>3, <1>5, <1>6, <1>7

(***************************************************************************)
(* What is listed, at a position of the catalog.                           *)
(***************************************************************************)
Slack(n) == IF Renumbered THEN n ELSE 0

\* Passed without being delivered, and delivered without being passed.
Missed(delivered, n) == {o \in Found(Steady) \ delivered : Position(o) <= n}
Ahead(delivered, n) == {o \in delivered \ gone : Position(o) > n}

\* A listing that has come to position n of the catalog, and one that is over.
Underway(delivered, n, repeats) ==
    /\ Cardinality(Missed(delivered, n)) <= Slack(drops)
    /\ repeats + Cardinality(Ahead(delivered, n)) <= Slack(additions)

Over(delivered, repeats) ==
    /\ Cardinality(Found(Steady) \ delivered) <= Slack(drops)
    /\ repeats <= Slack(additions)

\* Objects that were listed, or were there from the beginning, are there unless
\* they are known to be gone.
CatalogType ==
    /\ catalog \in SUBSET Ids /\ gone \in SUBSET Ids
    /\ drops \in Nat /\ additions \in Nat
    /\ Steady \in SUBSET catalog

\* Whatever it is listed by, an object has a position, in the order of the objects.
LEMMA PositionsAre ==
    ASSUME CatalogType
    PROVE  /\ \A o \in Ids : Position(o) \in Nat
           /\ \A o \in catalog : Position(o) # 0
           /\ \A o, p \in catalog : o <= p <=> Position(o) <= Position(p)
<1>1. catalog \in SUBSET Ids /\ Ids \in SUBSET (Nat \ {0})
  BY IdsAre DEF CatalogType
<1>2. CASE Renumbered
  <2>1. \A o : Position(o) = Rank(catalog, o)
    BY <1>2 DEF Position, Rank, UpTo
  <2>2. \A o \in catalog, p \in catalog : o <= p <=> Rank(catalog, o) <= Rank(catalog, p)
    BY <1>1, RankOrders
  <2>3. \A o : Rank(catalog, o) \in Nat /\ (o \in catalog => Rank(catalog, o) # 0)
    BY <1>1, RankIs
  <2>4. QED
    BY <2>1, <2>2, <2>3
<1>3. CASE ~Renumbered
  BY <1>1, <1>3 DEF Position
<1>4. QED
  BY <1>2, <1>3

\* Two objects do not share a position.
LEMMA PositionIsOnes ==
    ASSUME CatalogType, NEW n
    PROVE  \E o : {p \in catalog : Position(p) = n} \in SUBSET {o}
<1>1. ASSUME NEW o \in catalog, NEW p \in catalog, Position(o) = Position(p)
      PROVE  o = p
  <2>1. o \in Nat /\ p \in Nat /\ Position(o) \in Nat /\ Position(p) \in Nat
    BY PositionsAre, IdsAre DEF CatalogType
  <2>2. o <= p /\ p <= o
    BY <1>1, <2>1, PositionsAre
  <2>3. QED
    BY <2>1, <2>2
<1>2. CASE \E o \in catalog : Position(o) = n
  <2>1. PICK o \in catalog : Position(o) = n
    BY <1>2
  <2>2. QED
    BY <1>1, <2>1
<1>3. QED
  BY <1>2

\* What is counted of a listing is finite.
LEMMA CountsAre ==
    ASSUME CatalogType, NEW delivered \in SUBSET Ids, NEW n
    PROVE  /\ IsFiniteSet(Missed(delivered, n)) /\ Cardinality(Missed(delivered, n)) \in Nat
           /\ IsFiniteSet(Ahead(delivered, n)) /\ Cardinality(Ahead(delivered, n)) \in Nat
           /\ IsFiniteSet(Found(Steady) \ delivered) /\ Cardinality(Found(Steady) \ delivered) \in Nat
           /\ Slack(drops) \in Nat /\ Slack(additions) \in Nat
           /\ Found(Steady) \in SUBSET catalog
           /\ Missed(delivered, n) \in SUBSET Ids /\ Ahead(delivered, n) \in SUBSET Ids
<1>1. Found(Steady) \in SUBSET catalog
  BY DEF CatalogType, Found
<1>2. Missed(delivered, n) \in SUBSET Ids /\ Found(Steady) \ delivered \in SUBSET Ids
      /\ Ahead(delivered, n) \in SUBSET Ids
  BY <1>1 DEF Missed, Ahead, CatalogType
<1>3. Slack(drops) \in Nat /\ Slack(additions) \in Nat
  BY DEF Slack, CatalogType
<1>4. QED
  BY <1>1, <1>2, <1>3, IdsAre

\* A set that gains at most one element has at most one more.
LEMMA OneMore ==
    ASSUME NEW S \in SUBSET Ids, NEW T \in SUBSET Ids, NEW o, T \in SUBSET (S \cup {o})
    PROVE  /\ Cardinality(T) <= Cardinality(S) + 1
           /\ Cardinality(S) \in Nat /\ Cardinality(T) \in Nat
<1>1. IsFiniteSet(S) /\ Cardinality(S) \in Nat /\ Cardinality(T) \in Nat
  BY IdsAre
<1>2. IsFiniteSet(S \cup {o}) /\ Cardinality(S \cup {o}) \in {Cardinality(S), Cardinality(S) + 1}
  BY <1>1, FS_AddElement
<1>3. Cardinality(T) <= Cardinality(S \cup {o})
  BY <1>2, FS_Subset
<1>4. QED
  BY <1>1, <1>2, <1>3

\* A part of a set has no more elements.
LEMMA NoMore ==
    ASSUME NEW S \in SUBSET Ids, NEW T \in SUBSET S
    PROVE  /\ Cardinality(T) <= Cardinality(S)
           /\ Cardinality(S) \in Nat /\ Cardinality(T) \in Nat
  BY IdsAre, FS_Subset
---------------------------------------------------------------------------
(* What a change of the catalog does to a listing under way.               *)

\* A new object moves those behind it on by one: one of the delivered may be ahead again.
LEMMA CreateKeeps ==
    ASSUME CatalogType, NEW o \in Ids, CreateObject(o),
           NEW delivered \in SUBSET Ids, delivered \ gone \in SUBSET catalog,
           NEW n \in Nat, NEW repeats \in Nat
    PROVE  /\ CatalogType' /\ (delivered \ gone \in SUBSET catalog)'
           /\ Underway(delivered, n, repeats) => Underway(delivered, n, repeats)'
           /\ Over(delivered, repeats) => Over(delivered, repeats)'
<1>1. /\ catalog' = catalog \cup {o} /\ o \notin catalog /\ gone' = gone
      /\ drops' = drops /\ additions' = additions + 1
      /\ UNCHANGED <<engine, operation, listing>>
  BY DEF CreateObject
<1>2. /\ Steady' = Steady /\ Found(Steady)' = Found(Steady) /\ Renumbered' = Renumbered
      /\ Slack(drops)' = Slack(drops)
      /\ Slack(additions)' = Slack(additions) + (IF Renumbered THEN 1 ELSE 0)
  BY <1>1 DEF Steady, Found, Renumbered, Slack, CatalogType
<1>3. CatalogType' /\ (delivered \ gone \in SUBSET catalog)'
  BY <1>1, <1>2 DEF CatalogType
<1>4. ASSUME NEW p \in catalog
      PROVE  /\ Position(p) \in Nat
             /\ Position(p)' \in {Position(p), Position(p) + (IF Renumbered THEN 1 ELSE 0)}
  <2>1. CASE Renumbered
    <3>1. Position(p) = Rank(catalog, p) /\ Position(p)' = Rank(catalog', p)
      BY <1>2, <2>1 DEF Position, Rank, UpTo
    <3>2. p \in Nat /\ catalog \in SUBSET Ids
      BY IdsAre DEF CatalogType
    <3>3. Rank(catalog', p) = Rank(catalog, p) + (IF o <= p THEN 1 ELSE 0) /\ Rank(catalog, p) \in Nat
      BY <1>1, <3>2, RankAdds, RankIs
    <3>4. QED
      BY <2>1, <3>1, <3>3
  <2>2. CASE ~Renumbered
    BY <1>2, <2>2, IdsAre DEF Position, CatalogType
  <2>3. QED
    BY <2>1, <2>2
<1>5. Missed(delivered, n)' \in SUBSET Missed(delivered, n)
  <2>1. Found(Steady) \in SUBSET catalog
    BY CountsAre
  <2>2. QED
    BY <1>2, <1>4, <2>1 DEF Missed
<1>6. PICK x : {p \in catalog : Position(p) = n} \in SUBSET {x}
  BY PositionIsOnes
<1>7. Ahead(delivered, n)' \in SUBSET (IF Renumbered THEN Ahead(delivered, n) \cup {x} ELSE Ahead(delivered, n))
  <2>1. ASSUME NEW p \in Ahead(delivered, n)', p \notin Ahead(delivered, n)
        PROVE  Renumbered /\ p = x
    <3>1. p \in delivered \ gone /\ p \in catalog /\ Position(p)' > n /\ ~(Position(p) > n)
      BY <1>1, <2>1 DEF Ahead
    <3>2. Renumbered /\ Position(p) = n
      BY <1>4, <3>1
    <3>3. QED
      BY <1>6, <3>1, <3>2
  <2>2. QED
    BY <2>1
<1>8. /\ Missed(delivered, n) \in SUBSET Ids /\ Ahead(delivered, n) \in SUBSET Ids
      /\ Ahead(delivered, n)' \in SUBSET Ids
      /\ Slack(drops) \in Nat /\ Slack(additions) \in Nat
  <2>1. Ahead(delivered, n)' \in SUBSET Ids
    BY DEF Ahead
  <2>2. QED
    BY <2>1, CountsAre
<1>9. /\ Cardinality(Missed(delivered, n)') <= Cardinality(Missed(delivered, n))
      /\ Cardinality(Missed(delivered, n)) \in Nat /\ Cardinality(Missed(delivered, n)') \in Nat
  BY <1>5, <1>8, NoMore
<1>10. /\ Cardinality(Ahead(delivered, n)') <= Cardinality(Ahead(delivered, n)) + (IF Renumbered THEN 1 ELSE 0)
       /\ Cardinality(Ahead(delivered, n)) \in Nat /\ Cardinality(Ahead(delivered, n)') \in Nat
  BY <1>7, <1>8, NoMore, OneMore
<1>11. Underway(delivered, n, repeats) => Underway(delivered, n, repeats)'
  BY <1>2, <1>8, <1>9, <1>10 DEF Underway
<1>12. Over(delivered, repeats) => Over(delivered, repeats)'
  BY <1>2, <1>8 DEF Over
<1>13. QED
  BY <1>3, <1>11, <1>12

\* A drop moves those behind it back by one: one of them may be passed by.
LEMMA DropKeeps ==
    ASSUME CatalogType, NEW o \in Ids, DropObject(o),
           NEW delivered \in SUBSET Ids, delivered \ gone \in SUBSET catalog,
           NEW n \in Nat, NEW repeats \in Nat
    PROVE  /\ CatalogType' /\ (delivered \ gone \in SUBSET catalog)'
           /\ Underway(delivered, n, repeats) => Underway(delivered, n, repeats)'
           /\ Over(delivered, repeats) => Over(delivered, repeats)'
<1>1. /\ catalog' = catalog \ {o} /\ o \in catalog /\ gone' = gone \cup {o}
      /\ drops' = drops + 1 /\ additions' = additions
      /\ UNCHANGED <<engine, operation, listing>>
  BY DEF DropObject, Forget
<1>2. /\ Steady' = Steady \ {o} /\ Found(Steady)' \in SUBSET (Found(Steady) \ {o})
      /\ Renumbered' = Renumbered /\ Slack(additions)' = Slack(additions)
      /\ Slack(drops)' = Slack(drops) + (IF Renumbered THEN 1 ELSE 0)
  BY <1>1 DEF Steady, Found, Renumbered, Slack, CatalogType
<1>3. CatalogType' /\ (delivered \ gone \in SUBSET catalog)'
  BY <1>1, <1>2 DEF CatalogType
<1>4. ASSUME NEW p \in catalog
      PROVE  /\ Position(p) \in Nat /\ Position(p)' \in Int
             /\ \/ Position(p)' = Position(p)
                \/ Renumbered /\ Position(p)' + 1 = Position(p)
  <2>1. CASE Renumbered
    <3>1. Position(p) = Rank(catalog, p) /\ Position(p)' = Rank(catalog', p)
      BY <1>2, <2>1 DEF Position, Rank, UpTo
    <3>2. p \in Nat /\ catalog \in SUBSET Ids
      BY IdsAre DEF CatalogType
    <3>3. Rank(catalog', p) = Rank(catalog, p) - (IF o <= p THEN 1 ELSE 0) /\ Rank(catalog, p) \in Nat
      BY <1>1, <3>2, RankRemoves, RankIs
    <3>4. QED
      BY <2>1, <3>1, <3>3
  <2>2. CASE ~Renumbered
    BY <1>2, <2>2, IdsAre DEF Position, CatalogType
  <2>3. QED
    BY <2>1, <2>2
<1>5. Found(Steady) \in SUBSET catalog
  BY CountsAre
<1>6. PICK x : {p \in catalog : Position(p) = n + 1} \in SUBSET {x}
  BY PositionIsOnes
<1>7. Missed(delivered, n)' \in SUBSET (IF Renumbered THEN Missed(delivered, n) \cup {x} ELSE Missed(delivered, n))
  <2>1. ASSUME NEW p \in Missed(delivered, n)', p \notin Missed(delivered, n)
        PROVE  Renumbered /\ p = x
    <3>1. p \in Found(Steady) \ delivered /\ p \in catalog /\ Position(p)' <= n /\ ~(Position(p) <= n)
      BY <1>2, <1>5, <2>1 DEF Missed
    <3>2. Renumbered /\ Position(p) = n + 1
      BY <1>4, <3>1
    <3>3. QED
      BY <1>6, <3>1, <3>2
  <2>2. QED
    BY <2>1
<1>8. Ahead(delivered, n)' \in SUBSET Ahead(delivered, n)
  <2>1. ASSUME NEW p \in Ahead(delivered, n)'
        PROVE  p \in Ahead(delivered, n)
    <3>1. p \in delivered \ gone /\ p \in catalog /\ Position(p)' > n
      BY <1>1, <2>1 DEF Ahead
    <3>2. Position(p) > n
      BY <1>4, <3>1
    <3>3. QED
      BY <3>1, <3>2 DEF Ahead
  <2>2. QED
    BY <2>1
<1>9. /\ Missed(delivered, n) \in SUBSET Ids /\ Ahead(delivered, n) \in SUBSET Ids
      /\ Missed(delivered, n)' \in SUBSET Ids
      /\ Slack(drops) \in Nat /\ Slack(additions) \in Nat
      /\ Found(Steady) \ delivered \in SUBSET Ids
  <2>1. Missed(delivered, n)' \in SUBSET Ids /\ Found(Steady) \ delivered \in SUBSET Ids
    BY <1>2, <1>5 DEF Missed, CatalogType
  <2>2. QED
    BY <2>1, CountsAre
<1>10. /\ Cardinality(Missed(delivered, n)') <= Cardinality(Missed(delivered, n)) + (IF Renumbered THEN 1 ELSE 0)
       /\ Cardinality(Missed(delivered, n)) \in Nat /\ Cardinality(Missed(delivered, n)') \in Nat
  BY <1>7, <1>9, NoMore, OneMore
<1>11. /\ Cardinality(Ahead(delivered, n)') <= Cardinality(Ahead(delivered, n))
       /\ Cardinality(Ahead(delivered, n)) \in Nat /\ Cardinality(Ahead(delivered, n)') \in Nat
  BY <1>8, <1>9, NoMore
<1>12. Underway(delivered, n, repeats) => Underway(delivered, n, repeats)'
  BY <1>2, <1>9, <1>10, <1>11 DEF Underway
<1>13. Over(delivered, repeats) => Over(delivered, repeats)'
  <2>1. Found(Steady)' \ delivered \in SUBSET (Found(Steady) \ delivered)
    BY <1>2
  <2>2. /\ Cardinality(Found(Steady)' \ delivered) <= Cardinality(Found(Steady) \ delivered)
        /\ Cardinality(Found(Steady) \ delivered) \in Nat /\ Cardinality(Found(Steady)' \ delivered) \in Nat
    BY <1>9, <2>1, NoMore
  <2>3. QED
    BY <1>2, <1>9, <2>2 DEF Over
<1>14. QED
  BY <1>3, <1>12, <1>13

\* When all objects are gone nothing is missed any more.
LEMMA GoneKeeps ==
    ASSUME CatalogType,
           NEW delivered \in SUBSET Ids, delivered \ gone \in SUBSET catalog,
           NEW n \in Nat, NEW repeats \in Nat,
           catalog' \in SUBSET Ids, gone' = gone \cup catalog,
           UNCHANGED <<engine, operation, listing, drops, additions>>
    PROVE  /\ CatalogType' /\ (delivered \ gone \in SUBSET catalog)' /\ Steady' = {}
           /\ Underway(delivered, n, repeats) => Underway(delivered, n, repeats)'
           /\ Over(delivered, repeats) => Over(delivered, repeats)'
<1>1. Steady' = {} /\ delivered \ gone' = {}
  BY DEF CatalogType, Steady
<1>2. Found(Steady)' = {} /\ Missed(delivered, n)' = {} /\ Ahead(delivered, n)' = {}
  BY <1>1 DEF Found, Missed, Ahead
<1>3. CatalogType'
  BY <1>1 DEF CatalogType
<1>4. Slack(drops)' = Slack(drops) /\ Slack(additions)' = Slack(additions)
      /\ Slack(drops) \in Nat /\ Slack(additions) \in Nat
  BY DEF Slack, Renumbered, CatalogType
<1>5. Cardinality({}) = 0 /\ Cardinality(Ahead(delivered, n)) \in Nat
  BY FS_EmptySet, CountsAre
<1>6. Found(Steady)' \ delivered = {}
  BY <1>2
<1>7. QED
  BY <1>1, <1>2, <1>3, <1>4, <1>5, <1>6 DEF Underway, Over

\* The catalog may change as it likes between two pages.
LEMMA CatalogKeeps ==
    ASSUME CatalogType, CatalogStep,
           NEW delivered \in SUBSET Ids, delivered \ gone \in SUBSET catalog,
           NEW n \in Nat, NEW repeats \in Nat
    PROVE  /\ CatalogType' /\ (delivered \ gone \in SUBSET catalog)'
           /\ Underway(delivered, n, repeats) => Underway(delivered, n, repeats)'
           /\ Over(delivered, repeats) => Over(delivered, repeats)'
<1>1. CASE \E o \in Ids : CreateObject(o) \/ DropObject(o)
  BY <1>1, CreateKeeps, DropKeeps
<1>2. ASSUME NEW what, Vanish(what)
      PROVE  /\ UNCHANGED <<engine, operation, listing, drops, additions>>
             /\ \/ UNCHANGED <<catalog, gone>>
                \/ catalog' \in SUBSET Ids /\ gone' = gone \cup catalog
  BY <1>2 DEF Vanish, Forget
<1>3. ASSUME NEW objects \in SUBSET Ids, Reappear(objects)
      PROVE  /\ UNCHANGED <<engine, operation, listing, drops, additions>>
             /\ catalog' \in SUBSET Ids /\ gone' = gone \cup catalog
  BY <1>3 DEF Reappear
<1>4. CASE UNCHANGED <<engine, operation, listing, drops, additions, catalog, gone>>
  BY <1>4 DEF CatalogType, Underway, Over, Missed, Ahead, Found, Steady, Position, Renumbered, Slack
<1>5. CASE /\ UNCHANGED <<engine, operation, listing, drops, additions>>
           /\ catalog' \in SUBSET Ids /\ gone' = gone \cup catalog
  BY <1>5, GoneKeeps
<1>6. QED
  BY <1>1, <1>2, <1>3, <1>4, <1>5 DEF CatalogStep
---------------------------------------------------------------------------
(* What a page does to it.                                                 *)

\* A page has the objects that come next: all of them, or those up to its last one.
LEMMA PageIs ==
    ASSUME CatalogType, NEW r, r.limit \in Nat \ {0}, NEW n \in Nat
    PROVE  LET read == ReadPage(r, n) IN
           /\ read \in [objects : SUBSET Rows(r, n), last : Nat, more : BOOLEAN, constraints : {{}}]
           /\ ~read.more => read.objects = Rows(r, n)
           /\ read.more =>
                /\ read.objects # {} /\ read.last > n
                /\ \A o \in read.objects : Position(o) <= read.last
                /\ \A o \in Rows(r, n) : Position(o) <= read.last => o \in read.objects
<1> DEFINE S == Rows(r, n)
           F == FirstOf(S, r.limit + 1)
           O == FirstOf(F, r.limit)
           read == ReadPage(r, n)
<1>1. read = [objects |-> O, last |-> IF O = {} THEN 0 ELSE Position(Max(O)),
              more |-> Cardinality(F) > r.limit, constraints |-> {}]
  BY DEF ReadPage
<1>2. S \in SUBSET catalog /\ S \in SUBSET Ids /\ \A o \in S : Position(o) > n
  BY DEF Rows, CatalogType
<1> HIDE DEF S
<1>3. /\ F \in SUBSET S
      /\ \A o \in F, p \in S : p <= o => p \in F
      /\ S # {} => F # {}
      /\ Cardinality(F) < r.limit + 1 => F = S
  <2> DEFINE k == r.limit + 1
  <2>1. k \in Nat \ {0}
    OBVIOUS
  <2> HIDE DEF k
  <2>2. /\ FirstOf(S, k) \in SUBSET S
        /\ \A o \in FirstOf(S, k), p \in S : p <= o => p \in FirstOf(S, k)
        /\ S # {} => FirstOf(S, k) # {}
        /\ Cardinality(FirstOf(S, k)) < k => FirstOf(S, k) = S
    BY <1>2, <2>1, FirstAre
  <2>3. QED
    BY <2>2 DEF k
<1> HIDE DEF F
<1>4. /\ O \in SUBSET F
      /\ \A o \in O, p \in F : p <= o => p \in O
      /\ F # {} => O # {}
      /\ Cardinality(F) <= r.limit => O = F
  BY <1>2, <1>3, FirstAre
<1> HIDE DEF O
<1>5. Cardinality(F) \in Nat
  BY <1>2, <1>3, IdsAre
<1>6. ASSUME O # {}
      PROVE  /\ Max(O) \in catalog /\ Position(Max(O)) \in Nat /\ Position(Max(O)) > n
             /\ \A o \in O : Position(o) <= Position(Max(O))
             /\ \A o \in S : Position(o) <= Position(Max(O)) => o \in O
  <2>1. O \in SUBSET Ids
    BY <1>2, <1>3, <1>4
  <2>2. Max(O) \in O /\ \A o \in O : o <= Max(O)
    BY <1>6, <2>1, LastIs
  <2>3. Max(O) \in catalog /\ Max(O) \in S /\ O \in SUBSET catalog /\ Max(O) \in F
    BY <1>2, <1>3, <1>4, <2>2
  <2>4. Position(Max(O)) \in Nat /\ Position(Max(O)) > n
    BY <1>2, <2>3, PositionsAre DEF CatalogType
  <2>5. ASSUME NEW o \in O
        PROVE  Position(o) <= Position(Max(O))
    BY <2>2, <2>3, PositionsAre
  <2>6. ASSUME NEW o \in S, Position(o) <= Position(Max(O))
        PROVE  o \in O
    <3>1. o <= Max(O)
      BY <1>2, <2>3, <2>6, PositionsAre
    <3>2. o \in F
      BY <1>3, <2>3, <3>1
    <3>3. QED
      BY <1>4, <2>2, <3>1, <3>2
  <2>7. QED
    BY <2>3, <2>4, <2>5, <2>6
<1>7. ASSUME Cardinality(F) > r.limit
      PROVE  O # {}
  <2>1. F # {}
    BY <1>7, FS_EmptySet
  <2>2. QED
    BY <1>4, <2>1
<1>8. ASSUME ~(Cardinality(F) > r.limit)
      PROVE  O = S
  BY <1>3, <1>4, <1>5, <1>8
<1>9. O \in SUBSET S
  BY <1>3, <1>4
<1> HIDE DEF read
<1>10. /\ read.objects = O
       /\ read.last = IF O = {} THEN 0 ELSE Position(Max(O))
       /\ read.more = (Cardinality(F) > r.limit)
       /\ read.constraints = {}
       /\ read = [objects |-> read.objects, last |-> read.last, more |-> read.more,
                  constraints |-> read.constraints]
  BY <1>1
<1>11. read.last \in Nat /\ read.more \in BOOLEAN /\ read.objects \in SUBSET S
  BY <1>6, <1>9, <1>10
<1>12. read \in [objects : SUBSET S, last : Nat, more : BOOLEAN, constraints : {{}}]
  BY <1>10, <1>11
<1>13. ASSUME ~read.more
       PROVE  read.objects = S
  <2>1. ~(Cardinality(F) > r.limit)
    BY <1>10, <1>13
  <2>2. QED
    BY <1>8, <1>10, <2>1
<1>14. ASSUME read.more
       PROVE  /\ read.objects # {} /\ read.last > n
              /\ \A o \in read.objects : Position(o) <= read.last
              /\ \A o \in S : Position(o) <= read.last => o \in read.objects
  <2>1. Cardinality(F) > r.limit
    BY <1>10, <1>14
  <2>2. O # {}
    BY <1>7, <2>1
  <2>3. QED
    BY <1>6, <1>10, <2>2
<1>15. QED
  BY <1>12, <1>13, <1>14 DEF S, read

\* With a page that was read the listing has come to its end, or to the page's last object.
LEMMA ReadKeeps ==
    ASSUME CatalogType, NEW n \in Nat, NEW delivered \in SUBSET Ids, NEW repeats \in Nat,
           delivered \ gone \in SUBSET catalog,
           listing.request.limit \in Nat \ {0},
           Underway(delivered, n, repeats)
    PROVE  LET read == ReadPage(listing.request, n)
               now == delivered \cup read.objects
               again == repeats + Cardinality((read.objects \cap delivered) \ gone)
           IN  IF read.more THEN Underway(now, read.last, again) ELSE Over(now, again)
<1> DEFINE read == ReadPage(listing.request, n)
           now == delivered \cup read.objects
           twice == (read.objects \cap delivered) \ gone
           again == repeats + Cardinality(twice)
           S == Rows(listing.request, n)
<1>1. /\ read \in [objects : SUBSET S, last : Nat, more : BOOLEAN, constraints : {{}}]
      /\ ~read.more => read.objects = S
      /\ read.more =>
           /\ read.objects # {} /\ read.last > n
           /\ \A o \in read.objects : Position(o) <= read.last
           /\ \A o \in S : Position(o) <= read.last => o \in read.objects
  BY PageIs
<1> HIDE DEF read
<1>2. /\ S \in SUBSET catalog
      /\ \A o \in S : Position(o) > n
      /\ \A o \in Found(Steady) : Position(o) > n => o \in S
  BY DEF Rows, Found, CatalogType
<1>3. \A o \in catalog : Position(o) \in Nat
  BY PositionsAre DEF CatalogType
<1>4. /\ Cardinality(Missed(delivered, n)) <= Slack(drops)
      /\ repeats + Cardinality(Ahead(delivered, n)) <= Slack(additions)
      /\ Found(Steady) \in SUBSET catalog
      /\ Missed(delivered, n) \in SUBSET Ids /\ Ahead(delivered, n) \in SUBSET Ids
      /\ IsFiniteSet(Ahead(delivered, n)) /\ Cardinality(Ahead(delivered, n)) \in Nat
      /\ Slack(drops) \in Nat /\ Slack(additions) \in Nat
  BY CountsAre DEF Underway
<1> HIDE DEF S
<1>5. twice \in SUBSET Ahead(delivered, n)
  BY <1>1, <1>2 DEF Ahead
<1>6. /\ IsFiniteSet(twice) /\ Cardinality(twice) \in Nat
      /\ Cardinality(twice) <= Cardinality(Ahead(delivered, n))
  BY <1>4, <1>5, FS_Subset, FS_CardinalityType
<1>7. CASE read.more
  <2>1. Missed(now, read.last) \in SUBSET Missed(delivered, n)
    BY <1>1, <1>2, <1>3, <1>4, <1>7 DEF Missed
  <2>2. Ahead(now, read.last) \in SUBSET (Ahead(delivered, n) \ twice)
    <3>1. ASSUME NEW o \in Ahead(now, read.last)
          PROVE  o \in Ahead(delivered, n) /\ o \notin twice
      <4>1. o \in now \ gone /\ Position(o) > read.last
        BY <3>1 DEF Ahead
      <4>2. o \in catalog /\ Position(o) \in Nat
        BY <1>1, <1>2, <1>3, <4>1
      <4>3. o \notin read.objects
        BY <1>1, <1>7, <4>1, <4>2
      <4>4. QED
        BY <1>1, <1>7, <4>1, <4>2, <4>3 DEF Ahead
    <3>2. QED
      BY <3>1
  <2>3. /\ Cardinality(Ahead(now, read.last)) <= Cardinality(Ahead(delivered, n)) - Cardinality(twice)
        /\ Cardinality(Ahead(now, read.last)) \in Nat
    <3>1. Ahead(delivered, n) \cap twice = twice
      BY <1>5
    <3>2. /\ Cardinality(Ahead(delivered, n) \ twice) = Cardinality(Ahead(delivered, n)) - Cardinality(twice)
          /\ Ahead(delivered, n) \ twice \in SUBSET Ids
      BY <1>4, <3>1, FS_Difference
    <3>3. /\ Cardinality(Ahead(now, read.last)) <= Cardinality(Ahead(delivered, n) \ twice)
          /\ Cardinality(Ahead(now, read.last)) \in Nat
      BY <2>2, <3>2, NoMore
    <3>4. QED
      BY <3>2, <3>3
  <2>4. /\ Cardinality(Missed(now, read.last)) <= Cardinality(Missed(delivered, n))
        /\ Cardinality(Missed(now, read.last)) \in Nat /\ Cardinality(Missed(delivered, n)) \in Nat
    BY <1>4, <2>1, NoMore
  <2> HIDE DEF now, twice
  <2>5. again + Cardinality(Ahead(now, read.last)) <= Slack(additions)
    BY <1>4, <1>6, <2>3
  <2>6. Cardinality(Missed(now, read.last)) <= Slack(drops)
    BY <1>4, <2>4
  <2>7. Underway(now, read.last, again)
    BY <2>5, <2>6 DEF Underway
  <2>8. QED
    BY <1>7, <2>7 DEF read, now, twice
<1>8. CASE ~read.more
  <2>1. Found(Steady) \ now \in SUBSET Missed(delivered, n)
    BY <1>1, <1>2, <1>3, <1>4, <1>8 DEF Missed
  <2>2. /\ Cardinality(Found(Steady) \ now) <= Cardinality(Missed(delivered, n))
        /\ Cardinality(Found(Steady) \ now) \in Nat /\ Cardinality(Missed(delivered, n)) \in Nat
    BY <1>4, <2>1, NoMore
  <2> HIDE DEF now, twice
  <2>3. Over(now, again)
    BY <1>4, <1>6, <2>2 DEF Over
  <2>4. QED
    BY <1>8, <2>3 DEF read, now, twice
<1>9. QED
  BY <1>7, <1>8

(***************************************************************************)
(* The invariant of a listing.                                             *)
(***************************************************************************)
\* A constraint that is to be told with these pages, the first one of which has
\* the objects first.
Due(k, first, delivered) ==
    /\ k \in Constraints /\ k \subseteq Steady
    /\ engine = "sqlite" \/ k \cap (IF engine = "mysql" THEN first ELSE delivered) # {}

Told(constraints, first, delivered) ==
    operation = "columns" => \A k : Due(k, first, delivered) => k \in constraints

Delivered == listing.delivered \cup page.objects
Repeats == listing.repeats + Cardinality((page.objects \cap listing.delivered) \ gone)
FirstPage == IF call.after = 0 THEN page.objects ELSE listing.first

ListingType ==
    /\ listing = [request |-> listing.request, cursor |-> listing.cursor, begun |-> listing.begun,
                  delivered |-> listing.delivered, first |-> listing.first,
                  constraints |-> listing.constraints, repeats |-> listing.repeats,
                  state |-> listing.state]
    /\ listing.delivered \in SUBSET Ids /\ listing.repeats \in Nat
    /\ listing.state \in {"none", "open", "complete"}
    /\ listing.state = "open" => listing.request \in Requests
    /\ listing.cursor.position \in Nat

PageType ==
    /\ page = [objects |-> page.objects, last |-> page.last, more |-> page.more,
               constraints |-> page.constraints]
    /\ page.objects \in SUBSET Ids /\ page.last \in Nat

CallType ==
    /\ call = [request |-> call.request, after |-> call.after, cursor |-> call.cursor, oid |-> call.oid]
    /\ pc \notin {"answer", "close"} => err = {}

CatalogInv ==
    /\ CatalogType
    /\ engine \in {"postgres", "mysql", "sqlite"}
    /\ OneSchema => Cardinality(catalog) = 1
    /\ listing.delivered \ gone \in SUBSET catalog
    /\ page.objects \ gone \in SUBSET catalog

\* The cursor of an open listing is where it has come to.
ListingInv ==
    /\ listing.state = "none" => listing.repeats = 0
    /\ listing.state = "open" =>
          /\ listing.cursor = NoCursor => listing.delivered = {} /\ listing.first = {}
          /\ listing.cursor # NoCursor =>
                /\ listing.cursor = encodeCursor(listing.request, listing.cursor.position)
                /\ listing.cursor.position # 0
          /\ Underway(listing.delivered, listing.cursor.position, listing.repeats)
    /\ listing.state # "open" => listing.cursor = NoCursor
    /\ listing.state = "complete" => Over(listing.delivered, listing.repeats)
    /\ listing.state = "complete" \/ (listing.state = "open" /\ listing.cursor # NoCursor) =>
          Told(listing.constraints, listing.first, listing.delivered)

\* A call that is not refused continues the listing.
CallInv ==
    /\ pc = "service" =>
          \/ call.cursor.fingerprint = <<"elsewhere">>
          \/ /\ listing.state = "open" /\ call.cursor = listing.cursor
             /\ listing.cursor = NoCursor => call.request = listing.request
    /\ pc \notin {"idle", "service"} /\ err = {} =>
          /\ listing.state = "open" /\ call.request = listing.request
          /\ call.after = listing.cursor.position
    /\ Numbered /\ pc \in {"rows", "constraints"} => call.oid = oid \/ Steady = {}
    /\ pc = "snapshot" => operation = "sources"
    /\ pc = "constraints" => operation = "columns" /\ (engine # "postgres" => call.after = 0)

\* What was read takes it to the page's end.
PageInv ==
    /\ pc \in {"constraints", "close", "answer"} /\ err = {} =>
          IF page.more THEN /\ page.objects # {} /\ page.last # 0
                            /\ Underway(Delivered, page.last, Repeats)
                       ELSE Over(Delivered, Repeats)
    /\ pc \in {"close", "answer"} /\ err = {} =>
          Told(listing.constraints \cup page.constraints, FirstPage, Delivered)

PagingType == ListingType /\ PageType /\ CallType
PagingInv == PagingType /\ CatalogInv /\ ListingInv /\ CallInv /\ PageInv

\* A cursor tells the request it was issued for, and no cursor tells none.
LEMMA PrintsAre ==
    /\ \A r : requestFingerprint(r) # <<"none">> /\ requestFingerprint(r) # <<"elsewhere">>
    /\ \A r, s : requestFingerprint(r) = requestFingerprint(s) => r = s
    /\ NoCursor.fingerprint # <<"elsewhere">>
    /\ NoCursor.position = 0
    /\ \A r, n : encodeCursor(r, n).fingerprint = requestFingerprint(r)
                 /\ encodeCursor(r, n).position = n
  BY DEF requestFingerprint, NoCursor, encodeCursor

\* What the page under way adds to the listing is of the right kind.
LEMMA RepeatsAre ==
    ASSUME PagingType
    PROVE  Repeats \in Nat /\ Delivered \in SUBSET Ids
<1>1. (page.objects \cap listing.delivered) \ gone \in SUBSET Ids
  BY DEF PagingType, PageType
<1>2. QED
  BY <1>1, IdsAre DEF PagingType, PageType, ListingType, Repeats, Delivered
---------------------------------------------------------------------------
(* Changes of the catalog. *)

\* A change of the catalog leaves the call and the client alone; the table's identity
\* only changes once nothing of it is left.
LEMMA CatalogMoves ==
    ASSUME CatalogType, CatalogStep
    PROVE  /\ UNCHANGED <<engine, operation, callVars, listing>>
           /\ gone \in SUBSET gone' /\ Steady' \in SUBSET Steady
           /\ oid' = oid \/ Steady' = {}
           /\ ~OneSchema
<1>1. /\ UNCHANGED <<engine, operation, callVars, listing>> /\ gone \in SUBSET gone'
      /\ ~OneSchema
  BY DEF CatalogStep, CreateObject, DropObject, Vanish, Reappear, Forget, Change
<1>2. Steady' \in SUBSET Steady
  BY <1>1 DEF Steady
<1>3. oid' = oid \/ Steady' = {}
  <2>1. CASE \E objects \in SUBSET Ids : Reappear(objects)
    BY <1>1, <2>1 DEF Reappear, Steady, CatalogType
  <2>2. CASE \E o \in Ids : CreateObject(o) \/ DropObject(o)
    BY <2>2 DEF CreateObject, DropObject
  <2>3. CASE \E what : Vanish(what)
    BY <2>3 DEF Vanish
  <2>4. QED
    BY <2>1, <2>2, <2>3 DEF CatalogStep
<1>4. QED
  BY <1>1, <1>2, <1>3

\* Fewer repeats keep a listing within its bound.
LEMMA FewerRepeats ==
    ASSUME NEW delivered, NEW n, NEW r \in Nat, NEW s \in Nat, r <= s, CatalogType,
           delivered \in SUBSET Ids
    PROVE  /\ Underway(delivered, n, s) => Underway(delivered, n, r)
           /\ Over(delivered, s) => Over(delivered, r)
  BY CountsAre DEF Underway, Over

\* Any change of the catalog keeps the invariant, wherever the call is.
LEMMA CatalogStepKeeps == PagingInv /\ CatalogStep => PagingInv'
<1> SUFFICES ASSUME PagingInv, CatalogStep
             PROVE  PagingInv'
  OBVIOUS
<1>1. PagingType /\ CatalogInv /\ ListingInv /\ CallInv /\ PageInv /\ CatalogType
  BY DEF PagingInv, CatalogInv
<1>2. /\ UNCHANGED <<engine, operation, callVars, listing>>
      /\ gone \in SUBSET gone' /\ Steady' \in SUBSET Steady
      /\ oid' = oid \/ Steady' = {}
      /\ ~OneSchema
  BY <1>1, CatalogMoves
<1>3. UNCHANGED <<engine, operation, listing, pc, call, page, err>>
  BY <1>2 DEF callVars
<1>4. PagingType'
  BY <1>1, <1>3 DEF PagingType, ListingType, PageType, CallType
<1>5. /\ listing.delivered \in SUBSET Ids /\ listing.cursor.position \in Nat /\ listing.repeats \in Nat
      /\ page.objects \in SUBSET Ids /\ page.last \in Nat
      /\ listing.delivered \ gone \in SUBSET catalog /\ page.objects \ gone \in SUBSET catalog
      /\ Delivered \in SUBSET Ids /\ Repeats \in Nat /\ Delivered \ gone \in SUBSET catalog
  BY <1>1, RepeatsAre DEF PagingType, ListingType, PageType, CatalogInv, Delivered
<1>6. CatalogType' /\ (listing.delivered \ gone \in SUBSET catalog)'
      /\ Delivered' = Delivered /\ (page.objects \ gone \in SUBSET catalog)'
  <2>1. CatalogType' /\ listing.delivered \ gone' \in SUBSET catalog'
    BY <1>1, <1>5, CatalogKeeps
  <2>2. page.objects \ gone' \in SUBSET catalog'
    BY <1>1, <1>5, CatalogKeeps
  <2>3. QED
    BY <1>3, <2>1, <2>2 DEF Delivered
<1>7. CatalogInv'
  <2>1. ~OneSchema'
    BY <1>2 DEF OneSchema
  <2>2. QED
    BY <1>1, <1>2, <1>6, <2>1 DEF CatalogInv
<1>8. \A constraints, first, delivered : Told(constraints, first, delivered) => Told(constraints, first, delivered)'
  BY <1>2 DEF Told, Due
<1>9. ListingInv'
  <2>1. Underway(listing.delivered, listing.cursor.position, listing.repeats)
        => Underway(listing.delivered, listing.cursor.position, listing.repeats)'
    BY <1>1, <1>3, <1>5, CatalogKeeps
  <2>2. Over(listing.delivered, listing.repeats) => Over(listing.delivered, listing.repeats)'
    BY <1>1, <1>3, <1>5, CatalogKeeps
  <2>3. Told(listing.constraints, listing.first, listing.delivered)
        => Told(listing.constraints, listing.first, listing.delivered)'
    BY <1>3, <1>8
  <2>4. QED
    BY <1>1, <1>3, <2>1, <2>2, <2>3 DEF ListingInv, encodeCursor, requestFingerprint
<1>10. CallInv'
  BY <1>1, <1>2, <1>3 DEF CallInv, Numbered
<1>11. PageInv'
  <2>1. PICK d, r : d = Delivered /\ r = Repeats'
    OBVIOUS
  <2>2. d \in SUBSET Ids /\ r \in Nat /\ r <= Repeats
    <3>1. (page.objects \cap listing.delivered) \ gone' \in SUBSET ((page.objects \cap listing.delivered) \ gone)
      BY <1>2
    <3>2. Repeats' <= Repeats /\ Repeats' \in Nat
      BY <1>3, <1>5, <3>1, NoMore DEF Repeats
    <3>3. QED
      BY <1>5, <2>1, <3>2
  <2>3. /\ Underway(d, page.last, Repeats) => Underway(d, page.last, r)
        /\ Over(d, Repeats) => Over(d, r)
    BY <1>1, <1>5, <2>2, FewerRepeats
  <2>4. /\ Underway(d, page.last, r) => Underway(d, page.last, r)'
        /\ Over(d, r) => Over(d, r)'
    BY <1>1, <1>3, <1>5, <2>1, <2>2, CatalogKeeps
  <2>5. /\ Underway(Delivered, page.last, Repeats) => Underway(Delivered, page.last, Repeats)'
        /\ Over(Delivered, Repeats) => Over(Delivered, Repeats)'
    BY <1>3, <1>6, <2>1, <2>3, <2>4
  <2>6. Told(listing.constraints \cup page.constraints, FirstPage, Delivered)
        => Told(listing.constraints \cup page.constraints, FirstPage, Delivered)'
    BY <1>3, <1>6, <1>8 DEF FirstPage
  <2>7. QED
    BY <1>1, <1>3, <2>5, <2>6 DEF PageInv
<1>12. QED
  BY <1>4, <1>7, <1>9, <1>10, <1>11 DEF PagingInv
---------------------------------------------------------------------------
(* Steps of a call: it waits, is refused, is accepted by the service, goes *)
(* on to its statements, reads its page, tells its constraints, or closes  *)
(* its connection.                                                         *)

Still == UNCHANGED <<engine, operation, catalogVars, clientVars>>

Waits == Still /\ UNCHANGED <<pc, call, page, err>>

Refuses == Still /\ pc' \in {"answer", "close"} /\ err' # {} /\ UNCHANGED <<call, page>>

Accepts ==
    /\ Still /\ pc = "service" /\ pc' \in {"snapshot", "open"}
    /\ decodeCursor(call.cursor, call.request)
    /\ call' = [call EXCEPT !.after = call.cursor.position]
    /\ pc' = "snapshot" => operation = "sources"
    /\ UNCHANGED <<page, err>>

GoesOn ==
    /\ Still /\ pc \in {"open", "schema", "relation"} /\ pc' \in {"schema", "relation", "rows"}
    /\ call' = call \/ call' = [call EXCEPT !.oid = oid]
    /\ Numbered /\ pc' = "rows" => call' = [call EXCEPT !.oid = oid]
    /\ UNCHANGED <<page, err>>

Reads ==
    /\ Still /\ pc \in {"snapshot", "rows"} /\ pc' \in {"constraints", "close", "answer"}
    /\ \/ page' = ReadPage(call.request, call.after)
       \/ page' = NoPage /\ Numbered /\ call.oid # oid
    /\ pc' = "constraints" => operation = "columns" /\ (engine # "postgres" => call.after = 0)
    /\ pc' # "constraints" /\ operation = "columns" => engine # "postgres" /\ call.after # 0
    /\ UNCHANGED <<call, err>>

Tells ==
    /\ Still /\ pc = "constraints" /\ pc' \in {"close", "answer"}
    /\ \E found :
          /\ page' = [page EXCEPT !.constraints = found]
          /\ \A k \in Existing :
                k \notin found =>
                   \/ engine # "sqlite" /\ k \cap page.objects = {}
                   \/ Numbered /\ call.oid # oid
    /\ UNCHANGED <<call, err>>

Closes == Still /\ pc = "close" /\ pc' = "answer" /\ UNCHANGED <<call, page, err>>

CallStep == Waits \/ Refuses \/ Accepts \/ GoesOn \/ Reads \/ Tells \/ Closes

\* A step that leaves the catalog and the client alone keeps what is said of them.
LEMMA StillKeeps ==
    ASSUME PagingInv, Still
    PROVE  ListingType' /\ CatalogType' /\ ListingInv' /\ (page' = page => PageType' /\ CatalogInv')
<1>1. UNCHANGED <<engine, operation, catalog, oid, listing, gone, drops, additions>>
  BY DEF Still, catalogVars, clientVars
<1>2. ListingType' /\ CatalogType'
  BY <1>1 DEF PagingInv, PagingType, ListingType, CatalogInv, CatalogType, Steady
<1>3. page' = page => PageType' /\ CatalogInv'
  BY <1>1, <1>2 DEF PagingInv, PagingType, PageType, CatalogInv, OneSchema
<1>4. /\ \A d, n, r : Underway(d, n, r)' <=> Underway(d, n, r)
      /\ \A d, r : Over(d, r)' <=> Over(d, r)
      /\ \A c, f, d : Told(c, f, d)' <=> Told(c, f, d)
  BY <1>1 DEF Underway, Over, Told, Due, Missed, Ahead, Found, Steady, Position, Renumbered, Slack
<1>5. ListingInv'
  BY <1>1, <1>4 DEF PagingInv, ListingInv, encodeCursor, requestFingerprint
<1>6. QED
  BY <1>2, <1>3, <1>5

\* Such a step changes nothing that the listing is measured by.
LEMMA StillIs ==
    ASSUME Still
    PROVE  /\ UNCHANGED <<engine, operation, catalog, oid, listing, gone, drops, additions>>
           /\ Steady' = Steady /\ Numbered' = Numbered /\ NoCursor' = NoCursor
           /\ \A d, n, r : Underway(d, n, r)' <=> Underway(d, n, r)
           /\ \A d, r : Over(d, r)' <=> Over(d, r)
           /\ \A c, f, d : Told(c, f, d)' <=> Told(c, f, d)
<1>1. UNCHANGED <<engine, operation, catalog, oid, listing, gone, drops, additions>>
  BY DEF Still, catalogVars, clientVars
<1>2. QED
  BY <1>1 DEF Underway, Over, Told, Due, Missed, Ahead, Found, Steady, Position, Renumbered, Slack,
              Numbered, NoCursor

\* A step that waits or closes the connection keeps the invariant,
LEMMA WaitKeeps == PagingInv /\ (Waits \/ Closes) => PagingInv'
<1> SUFFICES ASSUME PagingInv, Waits \/ Closes
             PROVE  PagingInv'
  OBVIOUS
<1>1. /\ Still /\ UNCHANGED <<call, page, err>> /\ (pc' = pc \/ (pc = "close" /\ pc' = "answer"))
  BY DEF Waits, Closes
<1>2. ListingType' /\ CatalogType' /\ ListingInv' /\ PageType' /\ CatalogInv'
  BY <1>1, StillKeeps
<1>3. /\ UNCHANGED <<engine, operation, catalog, oid, listing, gone, drops, additions>>
      /\ Steady' = Steady /\ Numbered' = Numbered /\ NoCursor' = NoCursor
      /\ \A d, n, r : Underway(d, n, r)' <=> Underway(d, n, r)
      /\ \A d, r : Over(d, r)' <=> Over(d, r)
      /\ \A c, f, d : Told(c, f, d)' <=> Told(c, f, d)
  BY <1>1, StillIs
<1>4. CallType' /\ CallInv'
  BY <1>1, <1>3 DEF PagingInv, PagingType, CallType, CallInv
<1>5. Delivered' = Delivered /\ Repeats' = Repeats /\ FirstPage' = FirstPage
  BY <1>1, <1>3 DEF Delivered, Repeats, FirstPage
<1>6. PageInv'
  BY <1>1, <1>3, <1>5 DEF PagingInv, PageInv
<1>7. QED
  BY <1>2, <1>4, <1>6 DEF PagingInv, PagingType

\* and so does one that fails,
LEMMA RefuseKeeps == PagingInv /\ Refuses => PagingInv'
<1> SUFFICES ASSUME PagingInv, Refuses
             PROVE  PagingInv'
  OBVIOUS
<1>1. Still /\ UNCHANGED <<call, page>> /\ pc' \in {"answer", "close"} /\ err' # {}
  BY DEF Refuses
<1>2. ListingType' /\ CatalogType' /\ ListingInv' /\ PageType' /\ CatalogInv'
  BY <1>1, StillKeeps
<1>3. CallType' /\ CallInv' /\ PageInv'
  BY <1>1 DEF PagingInv, PagingType, CallType, CallInv, PageInv
<1>4. QED
  BY <1>2, <1>3 DEF PagingInv, PagingType

\* one that accepts the request's cursor,
LEMMA AcceptKeeps == PagingInv /\ Accepts => PagingInv'
<1> SUFFICES ASSUME PagingInv, Accepts
             PROVE  PagingInv'
  OBVIOUS
<1>1. /\ Still /\ UNCHANGED <<page, err>> /\ pc = "service" /\ pc' \in {"snapshot", "open"}
      /\ decodeCursor(call.cursor, call.request)
      /\ call' = [call EXCEPT !.after = call.cursor.position]
      /\ pc' = "snapshot" => operation = "sources"
  BY DEF Accepts
<1>2. ListingType' /\ CatalogType' /\ ListingInv' /\ PageType' /\ CatalogInv'
  BY <1>1, StillKeeps
<1>3. UNCHANGED <<listing, operation>>
  BY <1>1, StillIs
<1>4. /\ call' = [request |-> call.request, after |-> call.cursor.position, cursor |-> call.cursor,
                  oid |-> call.oid]
      /\ err = {}
  BY <1>1 DEF PagingInv, PagingType, CallType
<1>5. listing.state = "open" /\ call.cursor = listing.cursor /\ call.request = listing.request
  <2>1. call.cursor.fingerprint # <<"elsewhere">>
    BY <1>1, PrintsAre DEF decodeCursor
  <2>2. /\ listing.state = "open" /\ call.cursor = listing.cursor
        /\ listing.cursor = NoCursor => call.request = listing.request
    BY <1>1, <2>1 DEF PagingInv, CallInv
  <2>3. ASSUME listing.cursor # NoCursor
        PROVE  call.request = listing.request
    <3>1. listing.cursor = encodeCursor(listing.request, listing.cursor.position)
      BY <2>2, <2>3 DEF PagingInv, ListingInv
    <3>2. listing.cursor.fingerprint = requestFingerprint(listing.request)
      BY <3>1, PrintsAre
    <3>3. listing.cursor.fingerprint = requestFingerprint(call.request)
      BY <1>1, <2>2, <2>3 DEF decodeCursor
    <3>4. QED
      BY <3>2, <3>3, PrintsAre
  <2>4. QED
    BY <2>2, <2>3
<1>6. CallType' /\ CallInv' /\ PageInv'
  BY <1>1, <1>3, <1>4, <1>5 DEF CallType, CallInv, PageInv
<1>7. QED
  BY <1>2, <1>6 DEF PagingInv, PagingType

\* one that goes on to the next statement,
LEMMA GoOnKeeps == PagingInv /\ GoesOn => PagingInv'
<1> SUFFICES ASSUME PagingInv, GoesOn
             PROVE  PagingInv'
  OBVIOUS
<1>1. /\ Still /\ UNCHANGED <<page, err>>
      /\ pc \in {"open", "schema", "relation"} /\ pc' \in {"schema", "relation", "rows"}
      /\ call' = call \/ call' = [call EXCEPT !.oid = oid]
      /\ Numbered /\ pc' = "rows" => call' = [call EXCEPT !.oid = oid]
  BY DEF GoesOn
<1>2. ListingType' /\ CatalogType' /\ ListingInv' /\ PageType' /\ CatalogInv'
  BY <1>1, StillKeeps
<1>3. UNCHANGED <<listing, oid>> /\ Numbered' = Numbered
  BY <1>1, StillIs
<1>4. /\ call'.request = call.request /\ call'.after = call.after /\ CallType'
      /\ Numbered /\ pc' = "rows" => call'.oid = oid
      /\ err = {}
  BY <1>1 DEF PagingInv, PagingType, CallType
<1>5. CallInv' /\ PageInv'
  BY <1>1, <1>3, <1>4 DEF PagingInv, CallInv, PageInv
<1>6. QED
  BY <1>2, <1>4, <1>5 DEF PagingInv, PagingType
---------------------------------------------------------------------------
(* The steps that read.                                                    *)

\* A listing that has come to its cursor has told the constraints of its pages so far.
LEMMA ToldSoFar ==
    ASSUME PagingInv, pc \notin {"idle", "service"}, err = {}
    PROVE  /\ call.after = 0 <=> listing.cursor = NoCursor
           /\ call.after = 0 => listing.delivered = {} /\ listing.first = {}
           /\ call.after # 0 => Told(listing.constraints, listing.first, listing.delivered)
<1>1. listing.state = "open" /\ call.after = listing.cursor.position
  BY DEF PagingInv, CallInv
<1>2. CASE listing.cursor = NoCursor
  BY <1>1, <1>2, PrintsAre DEF PagingInv, ListingInv
<1>3. CASE listing.cursor # NoCursor
  BY <1>1, <1>3 DEF PagingInv, ListingInv
<1>4. QED
  BY <1>2, <1>3

\* one that reads the page,
LEMMA ReadStepKeeps == PagingInv /\ Reads => PagingInv'
<1> SUFFICES ASSUME PagingInv, Reads
             PROVE  PagingInv'
  OBVIOUS
<1>1. /\ Still /\ UNCHANGED <<call, err>>
      /\ pc \in {"snapshot", "rows"} /\ pc' \in {"constraints", "close", "answer"}
      /\ \/ page' = ReadPage(call.request, call.after)
         \/ page' = NoPage /\ Numbered /\ call.oid # oid
      /\ pc' = "constraints" => operation = "columns" /\ (engine # "postgres" => call.after = 0)
      /\ pc' # "constraints" /\ operation = "columns" => engine # "postgres" /\ call.after # 0
  BY DEF Reads
<1>2. ListingType' /\ CatalogType' /\ ListingInv'
  BY <1>1, StillKeeps
<1>3. /\ UNCHANGED <<engine, operation, catalog, oid, listing, gone, drops, additions>>
      /\ Steady' = Steady /\ Numbered' = Numbered /\ NoCursor' = NoCursor
      /\ \A d, n, r : Underway(d, n, r)' <=> Underway(d, n, r)
      /\ \A d, r : Over(d, r)' <=> Over(d, r)
      /\ \A c, f, d : Told(c, f, d)' <=> Told(c, f, d)
  BY <1>1, StillIs
<1>4. /\ CatalogType /\ CallType /\ err = {}
      /\ listing.delivered \in SUBSET Ids /\ listing.repeats \in Nat
      /\ listing.delivered \ gone \in SUBSET catalog
      /\ page.objects \ gone \in SUBSET catalog
  BY <1>1 DEF PagingInv, PagingType, CallType, ListingType, CatalogInv
<1>5. /\ listing.state = "open" /\ call.request = listing.request
      /\ call.after = listing.cursor.position /\ call.after \in Nat
      /\ listing.request.limit \in Nat \ {0}
      /\ Underway(listing.delivered, call.after, listing.repeats)
  <2>1. /\ listing.state = "open" /\ call.request = listing.request
        /\ call.after = listing.cursor.position /\ call.after \in Nat
        /\ Underway(listing.delivered, call.after, listing.repeats)
        /\ listing.request \in Requests
    BY <1>1, <1>4 DEF PagingInv, CallInv, ListingInv, PagingType, ListingType
  <2>2. QED
    BY <2>1, DiscoveryAssumption
<1>6. CallType' /\ CallInv'
  <2>1. CallType'
    BY <1>1, <1>4 DEF CallType
  <2>2. Numbered /\ pc' = "constraints" => call.oid = oid \/ Steady = {}
    BY <1>1 DEF PagingInv, CallInv, Numbered
  <2>3. QED
    BY <1>1, <1>3, <1>5, <2>1, <2>2 DEF CallInv
<1>7. /\ PageType' /\ page'.objects \in SUBSET catalog
      /\ IF page'.more
         THEN /\ page'.objects # {} /\ page'.last # 0
              /\ Underway(Delivered', page'.last, Repeats')
         ELSE Over(Delivered', Repeats')
  <2>1. CASE page' = ReadPage(call.request, call.after)
    <3> DEFINE read == ReadPage(listing.request, call.after)
    <3>1. /\ read \in [objects : SUBSET Rows(listing.request, call.after), last : Nat,
                       more : BOOLEAN, constraints : {{}}]
          /\ read.more => read.objects # {} /\ read.last > call.after
      BY <1>4, <1>5, PageIs
    <3>2. LET now == listing.delivered \cup read.objects
              again == listing.repeats + Cardinality((read.objects \cap listing.delivered) \ gone)
          IN  IF read.more THEN Underway(now, read.last, again) ELSE Over(now, again)
      BY <1>4, <1>5, ReadKeeps
    <3>3. page' = read
      BY <1>5, <2>1
    <3> HIDE DEF read
    <3>4. Rows(listing.request, call.after) \in SUBSET catalog /\ catalog \in SUBSET Ids
      BY <1>4 DEF Rows, CatalogType
    <3>5. /\ Delivered' = listing.delivered \cup read.objects
          /\ Repeats' = listing.repeats + Cardinality((read.objects \cap listing.delivered) \ gone)
      BY <1>3, <3>3 DEF Delivered, Repeats
    <3>6. PageType' /\ page'.objects \in SUBSET catalog
      BY <3>1, <3>3, <3>4 DEF PageType
    <3>7. read.more => read.objects # {} /\ read.last # 0
      BY <1>5, <3>1
    <3>8. QED
      BY <3>2, <3>3, <3>5, <3>6, <3>7
  <2>2. CASE page' = NoPage /\ Numbered /\ call.oid # oid
    <3>1. Steady = {}
      BY <1>1, <2>2 DEF PagingInv, CallInv, Numbered
    <3>2. PageType' /\ page'.objects = {} /\ page'.more = FALSE
      BY <2>2 DEF PageType, NoPage
    <3>3. Delivered' = listing.delivered /\ Repeats' = listing.repeats
      <4>1. Cardinality({}) = 0 /\ (page'.objects \cap listing.delivered) \ gone = {}
        BY <3>2, FS_EmptySet
      <4>2. QED
        BY <1>3, <1>4, <3>2, <4>1 DEF Delivered, Repeats
    <3>4. Over(listing.delivered, listing.repeats)
      <4>1. Found(Steady) \ listing.delivered = {} /\ Cardinality({}) = 0
        BY <3>1, FS_EmptySet DEF Found
      <4>2. listing.repeats <= Slack(additions) /\ Slack(drops) \in Nat
        <5>1. /\ Cardinality(Ahead(listing.delivered, call.after)) \in Nat
              /\ Slack(drops) \in Nat /\ Slack(additions) \in Nat
          BY <1>4, CountsAre
        <5>2. listing.repeats + Cardinality(Ahead(listing.delivered, call.after)) <= Slack(additions)
          BY <1>5 DEF Underway
        <5>3. QED
          BY <1>4, <5>1, <5>2
      <4>3. QED
        BY <4>1, <4>2 DEF Over
    <3>5. QED
      BY <3>2, <3>3, <3>4
  <2>3. QED
    BY <1>1, <2>1, <2>2
<1>8. CatalogInv'
  BY <1>2, <1>3, <1>4, <1>7 DEF PagingInv, CatalogInv, OneSchema
<1>9. pc' \in {"close", "answer"} => Told(listing.constraints \cup page'.constraints, FirstPage', Delivered')
  <2> SUFFICES ASSUME pc' # "constraints", operation = "columns"
               PROVE  Told(listing.constraints \cup page'.constraints, FirstPage', Delivered')
    BY DEF Told
  <2>1. engine \in {"mysql", "sqlite"} /\ call.after # 0
    BY <1>1 DEF PagingInv, CatalogInv
  <2>2. Told(listing.constraints, listing.first, listing.delivered)
    BY <1>1, <1>4, <2>1, ToldSoFar
  <2>3. FirstPage' = listing.first
    BY <1>1, <1>3, <2>1 DEF FirstPage
  <2>4. QED
    BY <2>1, <2>2, <2>3 DEF Told, Due
<1>10. PageInv'
  BY <1>3, <1>7, <1>9 DEF PageInv
<1>11. QED
  BY <1>2, <1>6, <1>7, <1>8, <1>10 DEF PagingInv, PagingType

\* and one that reads the constraints.
LEMMA TellKeeps == PagingInv /\ Tells => PagingInv'
<1> SUFFICES ASSUME PagingInv, Tells
             PROVE  PagingInv'
  OBVIOUS
<1>1. /\ Still /\ UNCHANGED <<call, err>> /\ pc = "constraints" /\ pc' \in {"close", "answer"}
  BY DEF Tells
<1>2. PICK found :
        /\ page' = [page EXCEPT !.constraints = found]
        /\ \A k \in Existing :
              k \notin found =>
                 \/ engine # "sqlite" /\ k \cap page.objects = {}
                 \/ Numbered /\ call.oid # oid
  BY DEF Tells
<1>3. ListingType' /\ CatalogType' /\ ListingInv'
  BY <1>1, StillKeeps
<1>4. /\ UNCHANGED <<engine, operation, catalog, oid, listing, gone, drops, additions>>
      /\ Steady' = Steady /\ Numbered' = Numbered /\ NoCursor' = NoCursor
      /\ \A d, n, r : Underway(d, n, r)' <=> Underway(d, n, r)
      /\ \A d, r : Over(d, r)' <=> Over(d, r)
      /\ \A c, f, d : Told(c, f, d)' <=> Told(c, f, d)
  BY <1>1, StillIs
<1>5. /\ page'.objects = page.objects /\ page'.last = page.last /\ page'.more = page.more
      /\ page'.constraints = found /\ PageType'
  BY <1>2 DEF PagingInv, PagingType, PageType
<1>6. err = {} /\ CallType'
  BY <1>1 DEF PagingInv, PagingType, CallType
<1>7. CatalogInv'
  BY <1>3, <1>4, <1>5 DEF PagingInv, CatalogInv, OneSchema
<1>8. CallInv'
  BY <1>1, <1>4, <1>6 DEF PagingInv, CallInv
<1>9. Delivered' = Delivered /\ Repeats' = Repeats /\ FirstPage' = FirstPage
  BY <1>1, <1>4, <1>5 DEF Delivered, Repeats, FirstPage
<1>10. Told(listing.constraints \cup found, FirstPage, Delivered)
  <2> SUFFICES ASSUME operation = "columns", NEW k, Due(k, FirstPage, Delivered)
               PROVE  k \in listing.constraints \cup found
    BY DEF Told
  <2>1. k \in Constraints /\ k \subseteq Steady /\ k # {}
    BY DiscoveryAssumption DEF Due
  <2>2. k \in Existing
    BY <2>1 DEF PagingInv, CatalogInv, CatalogType, Existing
  <2>3. ~(Numbered /\ call.oid # oid)
    BY <1>1, <2>1 DEF PagingInv, CallInv
  <2>4. CASE engine = "postgres"
    <3>1. k \cap Delivered # {}
      BY <2>4 DEF Due
    <3>2. CASE k \cap page.objects # {}
      BY <1>2, <2>2, <2>3, <3>2
    <3>3. CASE k \cap page.objects = {}
      <4>1. k \cap listing.delivered # {}
        BY <3>1, <3>3 DEF Delivered
      <4>2. call.after # 0
        BY <1>1, <1>6, <4>1, ToldSoFar
      <4>3. Told(listing.constraints, listing.first, listing.delivered)
        BY <1>1, <1>6, <4>2, ToldSoFar
      <4>4. QED
        BY <2>1, <2>4, <4>1, <4>3 DEF Told, Due
    <3>4. QED
      BY <3>2, <3>3
  <2>5. CASE engine # "postgres"
    <3>1. call.after = 0
      BY <1>1, <2>5 DEF PagingInv, CallInv
    <3>2. FirstPage = page.objects /\ Delivered = page.objects
      BY <1>1, <1>6, <3>1, ToldSoFar DEF FirstPage, Delivered
    <3>3. engine = "sqlite" \/ k \cap page.objects # {}
      BY <3>2 DEF Due
    <3>4. QED
      BY <1>2, <2>2, <2>3, <3>3
  <2>6. QED
    BY <2>4, <2>5
<1>11. PageInv'
  BY <1>1, <1>4, <1>5, <1>6, <1>9, <1>10 DEF PagingInv, PageInv
<1>12. QED
  BY <1>3, <1>5, <1>6, <1>7, <1>8, <1>11 DEF PagingInv, PagingType

\* So every step of a call keeps the invariant of the listing.
LEMMA CallStepKeeps == PagingInv /\ CallStep => PagingInv'
  BY WaitKeeps, RefuseKeeps, AcceptKeeps, GoOnKeeps, ReadStepKeeps, TellKeeps DEF CallStep
---------------------------------------------------------------------------
(***************************************************************************)
(* What a listing is answered with.                                        *)
(***************************************************************************)
Named(e) == {i \in DOMAIN Sentinels : Sentinels[i][1] \in e}

LiteMeanings == {LiteFailures[code] : code \in DOMAIN LiteFailures}

\* A category tells what went wrong (w), or that the request (r) or its statements'
\* context (c) ended.
Happened(category, r, c, w) ==
    \/ category \in w
    \/ category = "cancelled" /\ r = "cancelled"
    \/ category = "query_timeout" /\ c = "deadline"

\* Every sentinel in an error tells what happened, and an error without one is internal.
Explained(e, r, c, w) ==
    /\ \A i \in Named(e) : Happened(Sentinels[i][2], r, c, w)
    /\ e # {} /\ Named(e) = {} =>
          \/ "internal" \in w
          \/ engine = "sqlite" /\ w \cap LiteMeanings # {}

\* PostgreSQL's errors tell of nothing else once the request was given up.
Undistracted(e, r) ==
    engine = "postgres" /\ r = "cancelled" /\ e # {} =>
        /\ Named(e) # {}
        /\ \A i \in Named(e) : Sentinels[i][2] \notin {"database_unavailable", "internal", "query_timeout"}

Fits(a, r, c, w) ==
    /\ a # "ok"
    /\ \/ Happened(a, r, c, w)
       \/ engine = "sqlite" /\ a = "internal" /\ w \cap LiteMeanings # {}
    /\ r = "cancelled" /\ engine = "postgres" =>
          a \notin {"database_unavailable", "internal", "query_timeout"}

AnswerInv ==
    /\ engine \in {"postgres", "mysql", "sqlite"}
    /\ ctx \in {"live", "cancelled"} /\ query \in {"none", "live", "canceled", "deadline"}
    /\ query = "canceled" => ctx = "cancelled"
    /\ pc \notin {"answer", "close"} => err = {}
    /\ pc = "close" => engine = "sqlite"
    /\ pc # "idle" /\ err = {} => causes = {}
    /\ Explained(err, ctx, query, causes)
    /\ Undistracted(err, ctx)
    /\ pc = "idle" /\ answer = "ok" => causes = {}
    /\ pc = "idle" /\ answer \notin {"none", "ok"} => Fits(answer, ctx, query, causes)

\* The sentinels, each with its category.
LEMMA SentinelsAre ==
    /\ DOMAIN Sentinels = 1..12
    /\ \A i \in DOMAIN Sentinels :
          \/ Sentinels[i] = <<"ErrInvalidCursor", "invalid_cursor">>
          \/ Sentinels[i] = <<"ErrInvalidRequest", "invalid_request">>
          \/ Sentinels[i] = <<"ErrSourceNotFound", "source_not_found">>
          \/ Sentinels[i] = <<"ErrSchemaNotFound", "schema_not_found">>
          \/ Sentinels[i] = <<"ErrRelationNotFound", "relation_not_found">>
          \/ Sentinels[i] = <<"ErrUnsupportedRelationKind", "unsupported_relation_kind">>
          \/ Sentinels[i] = <<"ErrDatabasePermissionDenied", "database_permission_denied">>
          \/ Sentinels[i] = <<"ErrQueryTimeout", "query_timeout">>
          \/ Sentinels[i] = <<"context.DeadlineExceeded", "query_timeout">>
          \/ Sentinels[i] = <<"ErrCancelled", "cancelled">>
          \/ Sentinels[i] = <<"context.Canceled", "cancelled">>
          \/ Sentinels[i] = <<"ErrDatabaseUnavailable", "database_unavailable">>
  BY DEF Sentinels

\* What the sentinels tell.
LEMMA SentinelsTell ==
    \A e, i : i \in Named(e) =>
        \/ Sentinels[i][2] = "invalid_cursor" /\ "ErrInvalidCursor" \in e
        \/ Sentinels[i][2] = "invalid_request" /\ "ErrInvalidRequest" \in e
        \/ Sentinels[i][2] = "source_not_found" /\ "ErrSourceNotFound" \in e
        \/ Sentinels[i][2] = "schema_not_found" /\ "ErrSchemaNotFound" \in e
        \/ Sentinels[i][2] = "relation_not_found" /\ "ErrRelationNotFound" \in e
        \/ Sentinels[i][2] = "unsupported_relation_kind" /\ "ErrUnsupportedRelationKind" \in e
        \/ Sentinels[i][2] = "database_permission_denied" /\ "ErrDatabasePermissionDenied" \in e
        \/ Sentinels[i][2] = "query_timeout" /\ ("ErrQueryTimeout" \in e \/ "context.DeadlineExceeded" \in e)
        \/ Sentinels[i][2] = "cancelled" /\ ("ErrCancelled" \in e \/ "context.Canceled" \in e)
        \/ Sentinels[i][2] = "database_unavailable" /\ "ErrDatabaseUnavailable" \in e
  BY SentinelsAre DEF Named

\* An error with one of these has a sentinel.
LEMMA SomeSentinels ==
    \A e : \/ "ErrQueryTimeout" \in e \/ "ErrCancelled" \in e
           \/ "ErrDatabasePermissionDenied" \in e \/ "ErrDatabaseUnavailable" \in e
           => Named(e) # {}
<1>1. /\ Sentinels[7] = <<"ErrDatabasePermissionDenied", "database_permission_denied">>
      /\ Sentinels[8] = <<"ErrQueryTimeout", "query_timeout">>
      /\ Sentinels[10] = <<"ErrCancelled", "cancelled">>
      /\ Sentinels[12] = <<"ErrDatabaseUnavailable", "database_unavailable">>
  BY DEF Sentinels
<1>2. {7, 8, 10, 12} \subseteq DOMAIN Sentinels
  BY SentinelsAre
<1>3. QED
  BY <1>1, <1>2 DEF Named

\* An explained error is told by what happened.
LEMMA ClassifyFits ==
    ASSUME NEW e, e # {}, NEW w, Explained(e, ctx, query, w), Undistracted(e, ctx)
    PROVE  Fits(Classify(e), ctx, query, w)
<1>1. Classify(e) = IF Named(e) = {} THEN "internal" ELSE Sentinels[Min(Named(e))][2]
  BY DEF Classify, Named
<1>2. CASE Named(e) = {}
  BY <1>1, <1>2 DEF Fits, Explained, Undistracted, Happened
<1>3. CASE Named(e) # {}
  <2>1. Named(e) \in SUBSET Nat
    BY SentinelsAre DEF Named
  <2>2. Min(Named(e)) \in Named(e)
    BY <1>3, <2>1, LeastIs
  <2>3. PICK i \in Named(e) : Classify(e) = Sentinels[i][2]
    BY <1>1, <1>3, <2>2
  <2>4. Classify(e) # "ok"
    BY <2>3, SentinelsTell
  <2>5. QED
    BY <2>3, <2>4 DEF Fits, Explained, Undistracted
<1>4. QED
  BY <1>2, <1>3
---------------------------------------------------------------------------
\* A step fails with an error that tells why, or goes on without one.
Honest(e, why) ==
    /\ e # {}
    /\ Explained(e, ctx, query, causes \cup why)
    /\ Undistracted(e, ctx)

Failing ==
    /\ \E e, why : err' = e /\ causes' = causes \cup why /\ Honest(e, why)
    /\ pc' = "answer" \/ (pc' = "close" /\ engine = "sqlite")
    /\ UNCHANGED <<engine, ctx, query, answer>>

Going ==
    /\ pc # "idle" /\ pc' # "idle"
    /\ pc' = "close" => engine = "sqlite"
    /\ err = {} \/ pc' = "answer"
    /\ UNCHANGED <<engine, err, causes, ctx, answer>>
    /\ query' = query \/ (pc = "open" /\ query' = "live")

\* A step that fails honestly keeps the invariant of the error,
LEMMA FailingKeeps == AnswerInv /\ Failing => AnswerInv'
  BY DEF AnswerInv, Failing, Honest, Explained, Undistracted

\* and so does one that goes on.
LEMMA GoingKeeps == AnswerInv /\ Going => AnswerInv'
<1> SUFFICES ASSUME AnswerInv, Going
             PROVE  AnswerInv'
  OBVIOUS
<1>1. query' = query \/ err = {}
  BY DEF AnswerInv, Going
<1>2. Named({}) = {}
  BY DEF Named
<1>3. Explained(err, ctx, query, causes)'
  BY <1>1, <1>2 DEF AnswerInv, Going, Explained
<1>4. Undistracted(err, ctx)'
  BY DEF AnswerInv, Going, Undistracted
<1>5. QED
  BY <1>3, <1>4 DEF AnswerInv, Going

\* What was explained stays so, and errors that are explained may be joined.
LEMMA MoreExplained ==
    ASSUME NEW e, NEW r, NEW c, NEW w, NEW v, Explained(e, r, c, w), w \subseteq v
    PROVE  Explained(e, r, c, v)
  BY DEF Explained, Happened

\* Errors that are explained may be joined.
LEMMA JoinExplained ==
    ASSUME NEW e, NEW f, NEW r, NEW c, NEW w, Explained(e, r, c, w), Explained(f, r, c, w)
    PROVE  Explained(e \cup f, r, c, w)
<1>1. Named(e \cup f) = Named(e) \cup Named(f)
  BY DEF Named
<1>2. QED
  BY <1>1 DEF Explained
---------------------------------------------------------------------------
(* What the engines make of the errors of their statements.                *)

\* PostgreSQL's: the contexts are asked before the code.
LEMMA PgErrorsAreHonest ==
    ASSUME AnswerInv, engine = "postgres", NEW code, NEW why,
           \/ code = "interrupted" /\ why = {} /\ Interrupted
           \/ code \in DOMAIN PgFailures /\ why = {PgFailures[code]}
    PROVE  Honest(classifyQueryError(code), why)
<1> DEFINE e == classifyQueryError(code)
<1>1. ctx \in {"live", "cancelled"} /\ (query = "canceled" => ctx = "cancelled")
  BY DEF AnswerInv
<1>2. CASE ctx = "cancelled"
  <2>1. e = {"ErrCancelled", "context.Canceled"}
    BY <1>2 DEF classifyQueryError
  <2> HIDE DEF e
  <2>2. Named(e) # {} /\ \A i \in Named(e) : Sentinels[i][2] = "cancelled"
    BY <2>1, SentinelsTell, SomeSentinels
  <2>3. QED
    BY <1>2, <2>1, <2>2 DEF Honest, Explained, Undistracted, Happened, e
<1>3. CASE ctx = "live" /\ query = "deadline"
  <2>1. e = DriverSays(code) \cup {"ErrQueryTimeout"}
    BY <1>3 DEF classifyQueryError
  <2>2. \/ DriverSays(code) \in {{}, {"context.DeadlineExceeded"}}
        \/ DriverSays(code) = {"context.Canceled"} /\ why = {"cancelled"}
    BY <1>3 DEF DriverSays, PgFailures
  <2> HIDE DEF e
  <2>3. e # {} /\ Named(e) # {}
    BY <2>1, SomeSentinels
  <2>4. \A i \in Named(e) :
            Sentinels[i][2] = "query_timeout" \/ (Sentinels[i][2] = "cancelled" /\ "cancelled" \in why)
    BY <2>1, <2>2, SentinelsTell
  <2>5. QED
    BY <1>3, <2>3, <2>4 DEF Honest, Explained, Undistracted, Happened, e
<1>4. CASE ctx = "live" /\ query # "deadline"
  <2>1. code \in DOMAIN PgFailures /\ why = {PgFailures[code]}
    BY <1>1, <1>4 DEF Interrupted
  <2>2. e = DriverSays(code) \cup {PgSentinel(code)}
    BY <1>4 DEF classifyQueryError
  <2>3. \/ e = {"ErrQueryTimeout"} /\ why = {"query_timeout"}
        \/ e = {"context.DeadlineExceeded", "ErrQueryTimeout"} /\ why = {"query_timeout"}
        \/ e = {"context.Canceled", "ErrCancelled"} /\ why = {"cancelled"}
        \/ e = {"ErrDatabasePermissionDenied"} /\ why = {"database_permission_denied"}
        \/ e = {"ErrDatabaseUnavailable"} /\ why = {"database_unavailable"}
        \/ e = {"ErrInternal"} /\ why = {"internal"}
    <3>1. code \in {"c57014", "c42501", "c08006", "safeToRetry", "cXX000", "broken",
                   "dialTimeout", "poolClosed"}
      BY <2>1 DEF PgFailures
    <3>2. DriverSays(code) = IF code = "dialTimeout" THEN {"context.DeadlineExceeded"}
                             ELSE IF code = "poolClosed" THEN {"context.Canceled"} ELSE {}
      BY <3>1 DEF DriverSays
    <3>3. QED
      BY <2>1, <2>2, <3>1, <3>2 DEF PgFailures, PgSentinel
  <2> HIDE DEF e
  <2>4. \A i \in Named(e) : Sentinels[i][2] \in why
    BY <2>3, SentinelsTell
  <2>5. Named(e) = {} => "internal" \in why
    BY <2>3, SomeSentinels
  <2>6. Honest(e, why)
    BY <1>4, <2>3, <2>4, <2>5 DEF Honest, Explained, Undistracted, Happened
  <2>7. QED
    BY <2>6 DEF e
<1>5. QED
  BY <1>1, <1>2, <1>3, <1>4

\* An error of the discoverer's own, with its sentinel.
LEMMA PlainErrorsAreHonest ==
    ASSUME AnswerInv, NEW tags, NEW why,
           \/ tags = {"ErrDatabaseUnavailable"} /\ why = {"database_unavailable"} /\ ctx = "live"
           \/ tags = {"ErrSchemaNotFound"} /\ why = {"schema_not_found"}
           \/ tags = {"ErrRelationNotFound"} /\ why = {"relation_not_found"}
           \/ tags = {"ErrUnsupportedRelationKind"} /\ why = {"unsupported_relation_kind"}
           \/ tags = {"ErrDatabasePermissionDenied"} /\ why = {"database_permission_denied"}
           \/ tags = {"ErrInvalidRequest"} /\ why = {"invalid_request"}
           \/ tags = {"ErrSourceNotFound"} /\ why = {"source_not_found"}
           \/ tags = {"ErrInvalidCursor"} /\ why = {"invalid_cursor"}
           \/ tags = {"ErrCancelled", "context.Canceled"} /\ why = {} /\ ctx = "cancelled"
           \/ tags = {"DatabaseFailure"} /\ engine = "sqlite" /\ why \cap LiteMeanings # {}
    PROVE  Honest(tags, why)
<1>1. tags # {}
  OBVIOUS
<1>2. CASE tags = {"DatabaseFailure"}
  <2>1. Named(tags) = {}
    BY <1>2, SentinelsTell
  <2>2. QED
    BY <1>2, <2>1 DEF Honest, Explained, Undistracted
<1>3. CASE tags # {"DatabaseFailure"}
  <2>1. Named(tags) # {}
    <3>1. \A i \in 1..12 : Sentinels[i][1] \in tags => i \in Named(tags)
      BY SentinelsAre DEF Named
    <3>2. \E i \in 1..12 : Sentinels[i][1] \in tags
      BY <1>3 DEF Sentinels
    <3>3. QED
      BY <3>1, <3>2
  <2>2. \A i \in Named(tags) : Happened(Sentinels[i][2], ctx, query, causes \cup why)
    BY <1>3, SentinelsTell DEF Happened
  <2>3. ctx = "cancelled" => \A i \in Named(tags) :
            Sentinels[i][2] \notin {"database_unavailable", "internal", "query_timeout"}
    BY <1>3, SentinelsTell
  <2>4. QED
    BY <1>1, <2>1, <2>2, <2>3 DEF Honest, Explained, Undistracted
<1>4. QED
  BY <1>2, <1>3

\* MySQL's: the failure to close the rows may be joined.
LEMMA MyErrorsAreHonest ==
    ASSUME AnswerInv, engine = "mysql", NEW closing \in {{}, {"ErrInternal"}}, NEW tags, NEW why,
           \/ tags = classifyDiscoveryQueryError("interrupted") \cup closing /\ why = {} /\ Interrupted
           \/ \E code \in DOMAIN MyFailures :
                 tags = classifyDiscoveryQueryError(code) \cup closing /\ why = {MyFailures[code]}
           \/ closing # {} /\ tags = closing /\ why = {"internal"}
    PROVE  Honest(tags, why)
<1>1. query = "canceled" => ctx = "cancelled"
  BY DEF AnswerInv
<1>2. ASSUME NEW e, tags = e \cup closing, e # {},
             \A i \in Named(e) : Happened(Sentinels[i][2], ctx, query, causes \cup why),
             Named(e) # {} \/ "internal" \in why
      PROVE  Honest(tags, why)
  <2>1. Named(closing) = {}
    BY SentinelsTell
  <2>2. Named(tags) = Named(e)
    BY <1>2, <2>1 DEF Named
  <2>3. QED
    BY <1>2, <2>2 DEF Honest, Explained, Undistracted
<1>3. ASSUME NEW code, code # "badCatalog", MyContext # {},
             \/ code = "interrupted" /\ Interrupted
             \/ code \in DOMAIN MyFailures /\ why = {MyFailures[code]}
      PROVE  LET e == classifyDiscoveryQueryError(code) IN
             /\ e # {} /\ Named(e) # {}
             /\ \A i \in Named(e) : Happened(Sentinels[i][2], ctx, query, causes \cup why)
  <2> DEFINE e == classifyDiscoveryQueryError(code)
  <2>1. e = DriverSays(code) \cup MyContext
    BY <1>3 DEF classifyDiscoveryQueryError
  <2>2. \/ MyContext = {"ErrCancelled"} /\ ctx = "cancelled"
        \/ MyContext = {"ErrQueryTimeout"} /\ query = "deadline"
    BY <1>3 DEF MyContext
  <2>3. \/ DriverSays(code) = {}
        \/ DriverSays(code) = {"context.DeadlineExceeded"}
              /\ (query = "deadline" \/ "query_timeout" \in why)
        \/ DriverSays(code) = {"context.Canceled"} /\ (ctx = "cancelled" \/ "cancelled" \in why)
    <3>1. CASE code = "interrupted" /\ Interrupted
      BY <1>1, <3>1 DEF DriverSays, Interrupted
    <3>2. CASE code # "interrupted"
      BY <1>3, <3>2 DEF DriverSays, MyFailures
    <3>3. QED
      BY <1>3, <3>1, <3>2 DEF MyFailures
  <2> HIDE DEF e
  <2>4. e # {} /\ Named(e) # {}
    BY <2>1, <2>2, SomeSentinels
  <2>5. \A i \in Named(e) :
            \/ Sentinels[i][2] = "cancelled" /\ (ctx = "cancelled" \/ "cancelled" \in why)
            \/ Sentinels[i][2] = "query_timeout" /\ (query = "deadline" \/ "query_timeout" \in why)
    BY <2>1, <2>2, <2>3, SentinelsTell
  <2>6. QED
    BY <2>4, <2>5 DEF Happened, e
<1>4. CASE tags = classifyDiscoveryQueryError("interrupted") \cup closing /\ Interrupted
  <2>1. MyContext # {}
    BY <1>1, <1>4 DEF Interrupted, MyContext
  <2>2. LET e == classifyDiscoveryQueryError("interrupted") IN
        /\ e # {} /\ Named(e) # {}
        /\ \A i \in Named(e) : Happened(Sentinels[i][2], ctx, query, causes \cup why)
    BY <1>3, <1>4, <2>1
  <2>3. QED
    BY <1>2, <1>4, <2>2
<1>5. ASSUME NEW code \in DOMAIN MyFailures,
             tags = classifyDiscoveryQueryError(code) \cup closing, why = {MyFailures[code]}
      PROVE  Honest(tags, why)
  <2> DEFINE e == classifyDiscoveryQueryError(code)
  <2>1. CASE code # "badCatalog" /\ MyContext # {}
    <3>1. e # {} /\ Named(e) # {}
          /\ \A i \in Named(e) : Happened(Sentinels[i][2], ctx, query, causes \cup why)
      BY <1>3, <1>5, <2>1
    <3>2. QED
      BY <1>2, <1>5, <3>1
  <2>2. CASE code = "badCatalog" \/ MyContext = {}
    <3>1. \/ e = {"ErrDatabasePermissionDenied"} /\ why = {"database_permission_denied"}
          \/ e = {"ErrQueryTimeout"} /\ why = {"query_timeout"}
          \/ e = {"context.DeadlineExceeded", "ErrQueryTimeout"} /\ why = {"query_timeout"}
          \/ e = {"ErrCancelled"} /\ why = {"cancelled"}
          \/ e = {"context.Canceled", "ErrCancelled"} /\ why = {"cancelled"}
          \/ e = {"ErrDatabaseUnavailable"} /\ why = {"database_unavailable"}
          \/ e = {"ErrInternal"} /\ why = {"internal"}
      <4>1. CASE code = "badCatalog"
        BY <1>5, <4>1 DEF classifyDiscoveryQueryError, MyFailures
      <4>2. CASE code # "badCatalog" /\ MyContext = {}
        <5>1. e = DriverSays(code) \cup {MySentinel[code]}
          BY <4>2 DEF classifyDiscoveryQueryError
        <5>2. DriverSays(code) = IF code = "dialTimeout" THEN {"context.DeadlineExceeded"}
                                 ELSE IF code = "poolClosed" THEN {"context.Canceled"} ELSE {}
          BY <1>5 DEF DriverSays, MyFailures
        <5>3. QED
          BY <1>5, <4>2, <5>1, <5>2 DEF MyFailures, MySentinel
      <4>3. QED
        BY <2>2, <4>1, <4>2
    <3>2. tags = e \cup closing
      BY <1>5
    <3> HIDE DEF e
    <3>3. e # {} /\ \A i \in Named(e) : Sentinels[i][2] \in why
      BY <3>1, SentinelsTell
    <3>4. Named(e) # {} \/ "internal" \in why
      BY <3>1, SomeSentinels
    <3>5. \A i \in Named(e) : Happened(Sentinels[i][2], ctx, query, causes \cup why)
      BY <3>3 DEF Happened
    <3>6. QED
      BY <1>2, <3>2, <3>3, <3>4, <3>5
  <2>3. QED
    BY <2>1, <2>2
<1>6. CASE closing # {} /\ tags = closing /\ why = {"internal"}
  <2>1. tags = {"ErrInternal"}
    BY <1>6
  <2>2. Named(tags) = {}
    BY <2>1, SentinelsTell
  <2>3. QED
    BY <1>6, <2>1, <2>2 DEF Honest, Explained, Undistracted
<1>7. QED
  BY <1>4, <1>5, <1>6

\* SQLite's: joined to the error there was.
LEMMA LiteErrorsAreHonest ==
    ASSUME AnswerInv, engine = "sqlite", NEW tags, NEW why,
           \/ tags = err \cup LiteContext /\ why = {} /\ Interrupted
           \/ \E code \in DOMAIN LiteFailures :
                 tags = err \cup projectSQLiteDiscoveryError /\ why = {LiteFailures[code]}
    PROVE  Honest(tags, why)
<1>1. (query = "canceled" => ctx = "cancelled") /\ Explained(err, ctx, query, causes)
  BY DEF AnswerInv
<1>2. ASSUME NEW e, e # {}, tags = err \cup e, Explained(e, ctx, query, causes \cup why)
      PROVE  Honest(tags, why)
  <2>1. Explained(err, ctx, query, causes \cup why)
    BY <1>1, MoreExplained
  <2>2. Explained(tags, ctx, query, causes \cup why)
    BY <1>2, <2>1, JoinExplained
  <2>3. QED
    BY <1>2, <2>2 DEF Honest, Undistracted
<1>3. ASSUME LiteContext # {}
      PROVE  Explained(LiteContext, ctx, query, causes \cup why)
  <2>1. CASE ctx = "cancelled"
    <3>1. LiteContext = {"ErrCancelled", "context.Canceled"}
      BY <2>1 DEF LiteContext
    <3>2. Named(LiteContext) # {} /\ \A i \in Named(LiteContext) : Sentinels[i][2] = "cancelled"
      BY <3>1, SentinelsTell, SomeSentinels
    <3>3. QED
      BY <2>1, <3>2 DEF Explained, Happened
  <2>2. CASE ctx # "cancelled"
    <3>1. LiteContext = {"ErrQueryTimeout"} /\ query = "deadline"
      BY <1>3, <2>2 DEF LiteContext
    <3>2. Named(LiteContext) # {} /\ \A i \in Named(LiteContext) : Sentinels[i][2] = "query_timeout"
      BY <3>1, SentinelsTell, SomeSentinels
    <3>3. QED
      BY <3>1, <3>2 DEF Explained, Happened
  <2>3. QED
    BY <2>1, <2>2
<1>4. CASE tags = err \cup LiteContext /\ Interrupted
  <2>1. LiteContext # {}
    BY <1>1, <1>4 DEF Interrupted, LiteContext
  <2>2. QED
    BY <1>2, <1>3, <1>4, <2>1
<1>5. ASSUME NEW code \in DOMAIN LiteFailures,
             tags = err \cup projectSQLiteDiscoveryError, why = {LiteFailures[code]}
      PROVE  Honest(tags, why)
  <2>1. CASE LiteContext # {}
    BY <1>2, <1>3, <1>5, <2>1 DEF projectSQLiteDiscoveryError
  <2>2. CASE LiteContext = {}
    <3>1. tags = err \cup {"DatabaseFailure"}
      BY <1>5, <2>2 DEF projectSQLiteDiscoveryError
    <3>2. Named({"DatabaseFailure"}) = {} /\ why \cap LiteMeanings # {}
      BY <1>5, SentinelsTell DEF LiteMeanings
    <3>3. Explained({"DatabaseFailure"}, ctx, query, causes \cup why)
      BY <3>2 DEF Explained
    <3>4. QED
      BY <1>2, <3>1, <3>3
  <2>3. QED
    BY <2>1, <2>2
<1>6. QED
  BY <1>4, <1>5
---------------------------------------------------------------------------
(* Every step of a call fails honestly and is refused, or goes on.         *)

\* A step that fails with an honest error.
LEMMA FailsHonestly ==
    ASSUME NEW tags, NEW why, NEW next, Honest(tags, why), Fails(tags, why, next),
           next = "answer" \/ (next = "close" /\ engine = "sqlite"),
           UNCHANGED <<unread, ctx, query, call, page>>
    PROVE  Failing /\ Refuses
<1>1. err' = tags /\ causes' = causes \cup why /\ pc' = next /\ tags # {}
  BY DEF Fails, Honest
<1>2. UNCHANGED <<engine, operation, catalogVars, clientVars, answer, ctx, query, call, page>>
  BY DEF unread
<1>3. QED
  BY <1>1, <1>2 DEF Failing, Refuses, Still

\* A step that leaves the error as it is.
LEMMA GoesOnHonestly ==
    ASSUME AnswerInv, pc \notin {"idle", "answer", "close"}, UNCHANGED <<unread, ctx, query, err, causes>>,
           pc' \in {"schema", "relation", "rows", "constraints", "snapshot", "open", "answer"}
           \/ (pc' = "close" /\ engine = "sqlite")
    PROVE  Going /\ Still /\ UNCHANGED err
<1>1. UNCHANGED <<engine, operation, catalogVars, clientVars, answer>>
  BY DEF unread
<1>2. err = {}
  BY DEF AnswerInv
<1>3. QED
  BY <1>1, <1>2 DEF Going, Still

\* Opening the source's runtime,
LEMMA OpenSteps ==
    ASSUME AnswerInv, NEW failures, NEW next \in {"schema", "rows"}, Open(failures, next),
           \A f \in failures : ctx = "live" => Honest(f[1], f[2]),
           Numbered => next # "rows"
    PROVE  (Failing /\ Refuses) \/ (Going /\ CallStep)
<1>1. pc = "open" /\ UNCHANGED <<unread, call, ctx, page>>
  BY DEF Open
<1>2. CASE ctx = "live" /\ query' = (IF OneSchema THEN query ELSE "live") /\ pc' = next
           /\ UNCHANGED <<err, causes>>
  <2>1. UNCHANGED <<engine, operation, catalogVars, clientVars, answer>>
    BY <1>1 DEF unread
  <2>2. err = {}
    BY <1>1 DEF AnswerInv
  <2>3. Going
    BY <1>1, <1>2, <2>1, <2>2 DEF Going
  <2>4. GoesOn
    BY <1>1, <1>2, <2>1 DEF GoesOn, Still
  <2>5. QED
    BY <2>3, <2>4 DEF CallStep
<1>3. CASE ctx = "cancelled" /\ Fails({"ErrCancelled", "context.Canceled"}, {}, "answer") /\ UNCHANGED query
  <2>1. Honest({"ErrCancelled", "context.Canceled"}, {})
    BY <1>3, PlainErrorsAreHonest
  <2>2. QED
    BY <1>1, <1>3, <2>1, FailsHonestly
<1>4. CASE ctx = "live" /\ (\E f \in failures : Fails(f[1], f[2], "answer")) /\ UNCHANGED query
  <2>1. PICK f \in failures : Fails(f[1], f[2], "answer")
    BY <1>4
  <2>2. QED
    BY <1>1, <1>4, <2>1, FailsHonestly
<1>5. QED
  BY <1>2, <1>3, <1>4 DEF Open

\* comparing the schema of the request with the only one,
LEMMA OnlySchemaSteps ==
    ASSUME AnswerInv, NEW next \in {"relation", "rows"}, NEW otherwise,
           otherwise = "answer" \/ (otherwise = "close" /\ engine = "sqlite"),
           engine # "postgres", CheckOnlySchema(next, otherwise)
    PROVE  (Failing /\ Refuses) \/ (Going /\ CallStep)
<1>1. pc = "schema" /\ UNCHANGED <<unread, call, ctx, query, page>>
  BY DEF CheckOnlySchema
<1>2. CASE Fails({"ErrSchemaNotFound"}, {"schema_not_found"}, otherwise)
  <2>1. Honest({"ErrSchemaNotFound"}, {"schema_not_found"})
    BY PlainErrorsAreHonest
  <2>2. QED
    BY <1>1, <1>2, <2>1, FailsHonestly
<1>3. CASE pc' = next /\ UNCHANGED <<err, causes>>
  <2>1. Going /\ Still /\ UNCHANGED err
    BY <1>1, <1>3, GoesOnHonestly
  <2>2. GoesOn
    BY <1>1, <1>3, <2>1 DEF GoesOn, Numbered
  <2>3. QED
    BY <2>1, <2>2 DEF CallStep
<1>4. QED
  BY <1>2, <1>3 DEF CheckOnlySchema

\* and listing that one, which is never cut.
LEMMA OnlySchemaRows ==
    ASSUME AnswerInv, PagingInv, NEW next,
           next = "answer" \/ (next = "close" /\ engine = "sqlite"), ListOnlySchema(next)
    PROVE  Going /\ CallStep
<1>1. /\ pc = "rows" /\ OneSchema /\ pc' = next
      /\ page' = [ReadPage(call.request, call.after) EXCEPT !.more = FALSE]
      /\ UNCHANGED <<unread, call, ctx, query, err, causes>>
  BY DEF ListOnlySchema
<1>2. Going /\ Still /\ UNCHANGED err
  BY <1>1, GoesOnHonestly
<1>3. CatalogType /\ Cardinality(catalog) = 1 /\ catalog \in SUBSET Ids
  BY <1>1 DEF PagingInv, CatalogInv, CatalogType
<1>4. call.request.limit \in Nat \ {0}
  <2>1. call.request \in Requests
    BY <1>1 DEF PagingInv, PagingType, ListingType, CallType, CallInv
  <2>2. QED
    BY <2>1, DiscoveryAssumption
<1>5. ReadPage(call.request, call.after).more = FALSE
  <2> DEFINE rows == FirstOf(Rows(call.request, call.after), call.request.limit + 1)
  <2>1. rows \in SUBSET catalog
    BY DEF FirstOf, Rows
  <2>2. Cardinality(rows) <= 1 /\ Cardinality(rows) \in Nat
    BY <1>3, <2>1, NoMore
  <2>3. ReadPage(call.request, call.after).more = (Cardinality(rows) > call.request.limit)
    BY DEF ReadPage
  <2> HIDE DEF rows
  <2>4. (Cardinality(rows) > call.request.limit) = FALSE
    BY <1>4, <2>2
  <2>5. QED
    BY <2>3, <2>4
<1>6. page' = ReadPage(call.request, call.after)
  <2> DEFINE read == ReadPage(call.request, call.after)
  <2>1. read = [objects |-> read.objects, last |-> read.last, more |-> read.more,
                constraints |-> read.constraints]
    BY DEF ReadPage
  <2> HIDE DEF read
  <2>2. [read EXCEPT !.more = FALSE] = read
    BY <1>5, <2>1 DEF read
  <2>3. QED
    BY <1>1, <2>2 DEF read
<1>7. Reads
  BY <1>1, <1>2, <1>6 DEF Reads, OneSchema
<1>8. QED
  BY <1>2, <1>7 DEF CallStep
---------------------------------------------------------------------------
(* PostgreSQL's steps. *)

\* A statement that fails.
LEMMA PgFailsHonestly ==
    ASSUME AnswerInv, engine = "postgres", PgFails, UNCHANGED <<unread, ctx, query, call, page>>
    PROVE  Failing /\ Refuses
<1>1. CASE Interrupted /\ Fails(classifyQueryError("interrupted"), {}, "answer")
  <2>1. Honest(classifyQueryError("interrupted"), {})
    BY <1>1, PgErrorsAreHonest
  <2>2. QED
    BY <1>1, <2>1, FailsHonestly
<1>2. CASE \E code \in DOMAIN PgFailures : Fails(classifyQueryError(code), {PgFailures[code]}, "answer")
  <2>1. PICK code \in DOMAIN PgFailures : Fails(classifyQueryError(code), {PgFailures[code]}, "answer")
    BY <1>2
  <2>2. Honest(classifyQueryError(code), {PgFailures[code]})
    BY PgErrorsAreHonest
  <2>3. QED
    BY <2>1, <2>2, FailsHonestly
<1>3. QED
  BY <1>1, <1>2 DEF PgFails

\* Each of the discoverer's steps.
LEMMA PgSteps ==
    ASSUME AnswerInv, PagingInv, PgNext
    PROVE  (Failing /\ Refuses) \/ (Going /\ CallStep)
<1>1. CASE PgOpen
  <2> DEFINE failures == {<<{"ErrDatabaseUnavailable"}, {"database_unavailable"}>>}
             first == PgFirst
  <2>1. engine = "postgres" /\ Open(failures, first)
    BY <1>1 DEF PgOpen
  <2>2. ctx = "live" => Honest({"ErrDatabaseUnavailable"}, {"database_unavailable"})
    BY PlainErrorsAreHonest
  <2>3. first \in {"schema", "rows"} /\ (Numbered => first # "rows")
    BY DEF PgFirst, Numbered
  <2>4. \A f \in failures : ctx = "live" => Honest(f[1], f[2])
    BY <2>2
  <2> HIDE DEF failures, first
  <2>5. QED
    BY <2>1, <2>3, <2>4, OpenSteps
<1>2. CASE PgCheckSchema
  <2>1. engine = "postgres" /\ pc = "schema" /\ UNCHANGED <<unread, ctx, query, call, page>>
    BY <1>2 DEF PgCheckSchema, PgStep
  <2>2. CASE PgFails
    BY <2>1, <2>2, PgFailsHonestly
  <2>3. CASE Fails({"ErrSchemaNotFound"}, {"schema_not_found"}, "answer")
    <3>1. Honest({"ErrSchemaNotFound"}, {"schema_not_found"})
      BY PlainErrorsAreHonest
    <3>2. QED
      BY <2>1, <2>3, <3>1, FailsHonestly
  <2>4. CASE Fails({"ErrDatabasePermissionDenied"}, {"database_permission_denied"}, "answer")
    <3>1. Honest({"ErrDatabasePermissionDenied"}, {"database_permission_denied"})
      BY PlainErrorsAreHonest
    <3>2. QED
      BY <2>1, <2>4, <3>1, FailsHonestly
  <2>5. CASE /\ pc' = (IF operation = "columns" THEN "relation" ELSE "rows")
             /\ UNCHANGED <<err, causes>>
    <3>1. Going /\ Still /\ UNCHANGED err
      BY <2>1, <2>5, GoesOnHonestly
    <3>2. GoesOn
      BY <2>1, <2>5, <3>1 DEF GoesOn, Numbered
    <3>3. QED
      BY <3>1, <3>2 DEF CallStep
  <2>6. QED
    BY <1>2, <2>2, <2>3, <2>4, <2>5 DEF PgCheckSchema
<1>3. CASE PgResolveRelation
  <2>1. engine = "postgres" /\ pc = "relation" /\ UNCHANGED <<unread, ctx, query, page>>
    BY <1>3 DEF PgResolveRelation, PgStep
  <2>2. CASE PgFails /\ UNCHANGED call
    BY <2>1, <2>2, PgFailsHonestly
  <2>3. CASE UNCHANGED call /\ \/ Fails({"ErrRelationNotFound"}, {"relation_not_found"}, "answer")
                               \/ Fails({"ErrDatabasePermissionDenied"}, {"database_permission_denied"}, "answer")
                               \/ Fails({"ErrUnsupportedRelationKind"}, {"unsupported_relation_kind"}, "answer")
    <3>1. /\ Honest({"ErrRelationNotFound"}, {"relation_not_found"})
          /\ Honest({"ErrDatabasePermissionDenied"}, {"database_permission_denied"})
          /\ Honest({"ErrUnsupportedRelationKind"}, {"unsupported_relation_kind"})
      BY PlainErrorsAreHonest
    <3>2. QED
      BY <2>1, <2>3, <3>1, FailsHonestly
  <2>4. CASE call' = [call EXCEPT !.oid = oid] /\ pc' = "rows" /\ UNCHANGED <<err, causes>>
    <3>1. Going /\ Still /\ UNCHANGED err
      BY <2>1, <2>4, GoesOnHonestly
    <3>2. GoesOn
      BY <2>1, <2>4, <3>1 DEF GoesOn
    <3>3. QED
      BY <3>1, <3>2 DEF CallStep
  <2>5. QED
    BY <1>3, <2>2, <2>3, <2>4 DEF PgResolveRelation
<1>4. CASE PgListRows
  <2>1. engine = "postgres" /\ pc = "rows" /\ UNCHANGED <<unread, ctx, query, call>>
    BY <1>4 DEF PgListRows, PgStep
  <2>2. CASE PgFails /\ UNCHANGED page
    BY <2>1, <2>2, PgFailsHonestly
  <2>3. CASE /\ page' = IF PgSameRelation THEN ReadPage(call.request, call.after) ELSE NoPage
             /\ pc' = IF operation = "columns" THEN "constraints" ELSE "answer"
             /\ UNCHANGED <<err, causes>>
    <3>1. Going /\ Still /\ UNCHANGED err
      BY <2>1, <2>3, GoesOnHonestly
    <3>2. Reads
      BY <2>1, <2>3, <3>1 DEF Reads, PgSameRelation, Numbered
    <3>3. QED
      BY <3>1, <3>2 DEF CallStep
  <2>4. QED
    BY <1>4, <2>2, <2>3 DEF PgListRows
<1>5. CASE PgListConstraints
  <2>1. engine = "postgres" /\ pc = "constraints" /\ UNCHANGED <<unread, ctx, query, call>>
    BY <1>5 DEF PgListConstraints, PgStep
  <2>2. CASE PgFails /\ UNCHANGED page
    BY <2>1, <2>2, PgFailsHonestly
  <2>3. CASE /\ page' = [page EXCEPT !.constraints =
                    {k \in Existing : PgSameRelation /\ k \cap page.objects # {}}]
             /\ pc' = "answer"
             /\ UNCHANGED <<err, causes>>
    <3>1. Going /\ Still /\ UNCHANGED err
      BY <2>1, <2>3, GoesOnHonestly
    <3> DEFINE found == {k \in Existing : PgSameRelation /\ k \cap page.objects # {}}
    <3>2. \A k \in Existing : k \notin found => \/ engine # "sqlite" /\ k \cap page.objects = {}
                                                \/ Numbered /\ call.oid # oid
      BY <2>1 DEF PgSameRelation, Numbered
    <3>3. page' = [page EXCEPT !.constraints = found]
      BY <2>3
    <3> HIDE DEF found
    <3>4. Tells
      BY <2>1, <2>3, <3>1, <3>2, <3>3 DEF Tells
    <3>5. QED
      BY <3>1, <3>4 DEF CallStep
  <2>4. QED
    BY <1>5, <2>2, <2>3 DEF PgListConstraints
<1>6. QED
  BY <1>1, <1>2, <1>3, <1>4, <1>5 DEF PgNext
---------------------------------------------------------------------------
(* MySQL's steps. *)

\* A statement that fails.
LEMMA MyFailsHonestly ==
    ASSUME AnswerInv, engine = "mysql", MyFails, UNCHANGED <<unread, ctx, query, call, page>>
    PROVE  Failing /\ Refuses
<1>1. PICK closing \in {{}, {"ErrInternal"}} :
         \/ Interrupted /\ Fails(classifyDiscoveryQueryError("interrupted") \cup closing, {}, "answer")
         \/ \E code \in DOMAIN MyFailures :
               Fails(classifyDiscoveryQueryError(code) \cup closing, {MyFailures[code]}, "answer")
         \/ closing # {} /\ Fails(closing, {"internal"}, "answer")
  BY DEF MyFails
<1>2. CASE Interrupted /\ Fails(classifyDiscoveryQueryError("interrupted") \cup closing, {}, "answer")
  <2>1. Honest(classifyDiscoveryQueryError("interrupted") \cup closing, {})
    BY <1>2, MyErrorsAreHonest
  <2>2. QED
    BY <1>2, <2>1, FailsHonestly
<1>3. CASE \E code \in DOMAIN MyFailures :
              Fails(classifyDiscoveryQueryError(code) \cup closing, {MyFailures[code]}, "answer")
  <2>1. PICK code \in DOMAIN MyFailures :
              Fails(classifyDiscoveryQueryError(code) \cup closing, {MyFailures[code]}, "answer")
    BY <1>3
  <2>2. Honest(classifyDiscoveryQueryError(code) \cup closing, {MyFailures[code]})
    BY MyErrorsAreHonest
  <2>3. QED
    BY <2>1, <2>2, FailsHonestly
<1>4. CASE closing # {} /\ Fails(closing, {"internal"}, "answer")
  <2>1. Honest(closing, {"internal"})
    BY <1>4, MyErrorsAreHonest
  <2>2. QED
    BY <1>4, <2>1, FailsHonestly
<1>5. QED
  BY <1>1, <1>2, <1>3, <1>4

\* An opening that fails.  One that timed out has sentinels of both.
LEMMA MyOpensHonestly ==
    ASSUME AnswerInv, engine = "mysql", NEW f \in MyOpenFailures, ctx = "live"
    PROVE  Honest(f[1], f[2])
<1>1. CASE f = <<{"ErrDatabaseUnavailable"}, {"database_unavailable"}>>
  BY <1>1, PlainErrorsAreHonest
<1>2. CASE f = <<{"ErrDatabaseUnavailable", "context.DeadlineExceeded"},
                 {"database_unavailable", "query_timeout"}>>
  <2> DEFINE e == {"ErrDatabaseUnavailable", "context.DeadlineExceeded"}
             why == {"database_unavailable", "query_timeout"}
  <2>1. Named(e) # {}
    BY SomeSentinels
  <2>2. \A i \in Named(e) : Sentinels[i][2] \in why
    BY SentinelsTell
  <2>3. Honest(e, why)
    BY <2>1, <2>2 DEF Honest, Explained, Undistracted, Happened
  <2>4. QED
    BY <1>2, <2>3
<1>3. QED
  BY <1>1, <1>2 DEF MyOpenFailures

\* Each of the discoverer's steps.
LEMMA MySteps ==
    ASSUME AnswerInv, PagingInv, MyNext
    PROVE  (Failing /\ Refuses) \/ (Going /\ CallStep)
<1>1. CASE MyOpen
  <2>1. engine = "mysql" /\ Open(MyOpenFailures, "schema")
    BY <1>1 DEF MyOpen
  <2>2. \A f \in MyOpenFailures : ctx = "live" => Honest(f[1], f[2])
    BY <2>1, MyOpensHonestly
  <2>3. QED
    BY <2>1, <2>2, OpenSteps
<1>2. CASE MyCheckSchema
  BY <1>2, OnlySchemaSteps DEF MyCheckSchema
<1>3. CASE MyListSchemas
  BY <1>3, OnlySchemaRows DEF MyListSchemas
<1>4. CASE MyResolveRelation
  <2>1. engine = "mysql" /\ pc = "relation" /\ UNCHANGED <<unread, ctx, query, call, page>>
    BY <1>4 DEF MyResolveRelation, MyStep
  <2>2. CASE MyFails
    BY <2>1, <2>2, MyFailsHonestly
  <2>3. CASE Fails({"ErrRelationNotFound"}, {"relation_not_found"}, "answer")
    <3>1. Honest({"ErrRelationNotFound"}, {"relation_not_found"})
      BY PlainErrorsAreHonest
    <3>2. QED
      BY <2>1, <2>3, <3>1, FailsHonestly
  <2>4. CASE pc' = "rows" /\ UNCHANGED <<err, causes>>
    <3>1. Going /\ Still /\ UNCHANGED err
      BY <2>1, <2>4, GoesOnHonestly
    <3>2. GoesOn
      BY <2>1, <2>4, <3>1 DEF GoesOn, Numbered
    <3>3. QED
      BY <3>1, <3>2 DEF CallStep
  <2>5. QED
    BY <1>4, <2>2, <2>3, <2>4 DEF MyResolveRelation
<1>5. CASE MyListRows
  <2>1. engine = "mysql" /\ pc = "rows" /\ UNCHANGED <<unread, ctx, query, call>>
    BY <1>5 DEF MyListRows, MyStep
  <2>2. CASE MyFails /\ UNCHANGED page
    BY <2>1, <2>2, MyFailsHonestly
  <2>3. CASE /\ page' = ReadPage(call.request, call.after)
             /\ pc' = IF operation = "columns" /\ call.after = 0 THEN "constraints" ELSE "answer"
             /\ UNCHANGED <<err, causes>>
    <3>1. Going /\ Still /\ UNCHANGED err
      BY <2>1, <2>3, GoesOnHonestly
    <3>2. Reads
      BY <2>1, <2>3, <3>1 DEF Reads
    <3>3. QED
      BY <3>1, <3>2 DEF CallStep
  <2>4. QED
    BY <1>5, <2>2, <2>3 DEF MyListRows
<1>6. CASE MyListConstraints
  <2>1. engine = "mysql" /\ pc = "constraints" /\ UNCHANGED <<unread, ctx, query, call>>
    BY <1>6 DEF MyListConstraints, MyStep
  <2>2. CASE MyFails /\ UNCHANGED page
    BY <2>1, <2>2, MyFailsHonestly
  <2>3. CASE /\ page' = [page EXCEPT !.constraints = {k \in Existing : k \cap page.objects # {}}]
             /\ pc' = "answer"
             /\ UNCHANGED <<err, causes>>
    <3>1. Going /\ Still /\ UNCHANGED err
      BY <2>1, <2>3, GoesOnHonestly
    <3> DEFINE found == {k \in Existing : k \cap page.objects # {}}
    <3>2. \A k \in Existing : k \notin found => engine # "sqlite" /\ k \cap page.objects = {}
      BY <2>1
    <3>3. page' = [page EXCEPT !.constraints = found]
      BY <2>3
    <3> HIDE DEF found
    <3>4. Tells
      BY <2>1, <2>3, <3>1, <3>2, <3>3 DEF Tells
    <3>5. QED
      BY <3>1, <3>4 DEF CallStep
  <2>4. QED
    BY <1>6, <2>2, <2>3 DEF MyListConstraints
<1>7. QED
  BY <1>1, <1>2, <1>3, <1>4, <1>5, <1>6 DEF MyNext
---------------------------------------------------------------------------
(* SQLite's steps. *)

\* A statement, or the closing of the connection, that fails.
LEMMA LiteFailsHonestly ==
    ASSUME AnswerInv, engine = "sqlite", NEW next \in {"close", "answer"}, LiteFails(next),
           UNCHANGED <<unread, ctx, query, call, page>>
    PROVE  Failing /\ Refuses
<1>1. CASE Interrupted /\ Fails(err \cup LiteContext, {}, next)
  <2>1. Honest(err \cup LiteContext, {})
    BY <1>1, LiteErrorsAreHonest
  <2>2. QED
    BY <1>1, <2>1, FailsHonestly
<1>2. CASE \E code \in DOMAIN LiteFailures :
              Fails(err \cup projectSQLiteDiscoveryError, {LiteFailures[code]}, next)
  <2>1. PICK code \in DOMAIN LiteFailures :
              Fails(err \cup projectSQLiteDiscoveryError, {LiteFailures[code]}, next)
    BY <1>2
  <2>2. Honest(err \cup projectSQLiteDiscoveryError, {LiteFailures[code]})
    BY LiteErrorsAreHonest
  <2>3. QED
    BY <2>1, <2>2, FailsHonestly
<1>3. QED
  BY <1>1, <1>2 DEF LiteFails

\* Each of the discoverer's steps.
LEMMA LiteSteps ==
    ASSUME AnswerInv, PagingInv, LiteNext
    PROVE  (Failing /\ Refuses) \/ (Going /\ CallStep)
<1>1. CASE LiteOpen
  <2> DEFINE failures == {<<{"ErrDatabaseUnavailable"}, {"database_unavailable"}>>} \cup
                         {<<{"DatabaseFailure"}, {LiteFailures[code]}>> : code \in DOMAIN LiteFailures}
  <2>1. engine = "sqlite" /\ Open(failures, "schema")
    BY <1>1 DEF LiteOpen
  <2>2. ctx = "live" => Honest({"ErrDatabaseUnavailable"}, {"database_unavailable"})
    BY PlainErrorsAreHonest
  <2>3. ASSUME NEW code \in DOMAIN LiteFailures
        PROVE  Honest({"DatabaseFailure"}, {LiteFailures[code]})
    <3>1. {LiteFailures[code]} \cap LiteMeanings # {}
      BY DEF LiteMeanings
    <3>2. QED
      BY <2>1, <3>1, PlainErrorsAreHonest
  <2>4. \A f \in failures : ctx = "live" => Honest(f[1], f[2])
    BY <2>2, <2>3
  <2> HIDE DEF failures
  <2>5. QED
    BY <2>1, <2>4, OpenSteps
<1>2. CASE LiteCheckSchema
  BY <1>2, OnlySchemaSteps DEF LiteCheckSchema
<1>3. CASE LiteListSchemas
  BY <1>3, OnlySchemaRows DEF LiteListSchemas
<1>4. CASE LiteResolveRelation
  <2>1. engine = "sqlite" /\ pc = "relation" /\ UNCHANGED <<unread, ctx, query, call, page>>
    BY <1>4 DEF LiteResolveRelation, LiteStep
  <2>2. CASE LiteFails("close")
    BY <2>1, <2>2, LiteFailsHonestly
  <2>3. CASE Fails({"ErrRelationNotFound"}, {"relation_not_found"}, "close")
    <3>1. Honest({"ErrRelationNotFound"}, {"relation_not_found"})
      BY PlainErrorsAreHonest
    <3>2. QED
      BY <2>1, <2>3, <3>1, FailsHonestly
  <2>4. CASE pc' = "rows" /\ UNCHANGED <<err, causes>>
    <3>1. Going /\ Still /\ UNCHANGED err
      BY <2>1, <2>4, GoesOnHonestly
    <3>2. GoesOn
      BY <2>1, <2>4, <3>1 DEF GoesOn, Numbered
    <3>3. QED
      BY <3>1, <3>2 DEF CallStep
  <2>5. QED
    BY <1>4, <2>2, <2>3, <2>4 DEF LiteResolveRelation
<1>5. CASE LiteListRows
  <2>1. engine = "sqlite" /\ pc = "rows" /\ UNCHANGED <<unread, ctx, query, call>>
    BY <1>5 DEF LiteListRows, LiteStep
  <2>2. CASE LiteFails("close") /\ UNCHANGED page
    BY <2>1, <2>2, LiteFailsHonestly
  <2>3. CASE /\ page' = ReadPage(call.request, call.after)
             /\ pc' = IF operation = "columns" /\ call.after = 0 THEN "constraints" ELSE "close"
             /\ UNCHANGED <<err, causes>>
    <3>1. Going /\ Still /\ UNCHANGED err
      BY <2>1, <2>3, GoesOnHonestly
    <3>2. Reads
      BY <2>1, <2>3, <3>1 DEF Reads
    <3>3. QED
      BY <3>1, <3>2 DEF CallStep
  <2>4. QED
    BY <1>5, <2>2, <2>3 DEF LiteListRows
<1>6. CASE LiteListConstraints
  <2>1. engine = "sqlite" /\ pc = "constraints" /\ UNCHANGED <<unread, ctx, query, call>>
    BY <1>6 DEF LiteListConstraints, LiteStep
  <2>2. CASE LiteFails("close") /\ UNCHANGED page
    BY <2>1, <2>2, LiteFailsHonestly
  <2>3. CASE page' = [page EXCEPT !.constraints = Existing] /\ pc' = "close" /\ UNCHANGED <<err, causes>>
    <3>1. Going /\ Still /\ UNCHANGED err
      BY <2>1, <2>3, GoesOnHonestly
    <3>2. Tells
      BY <2>1, <2>3, <3>1 DEF Tells
    <3>3. QED
      BY <3>1, <3>2 DEF CallStep
  <2>4. QED
    BY <1>6, <2>2, <2>3 DEF LiteListConstraints
<1>7. CASE LiteClose
  <2>1. engine = "sqlite" /\ pc = "close" /\ UNCHANGED <<unread, ctx, query, call, page>>
    BY <1>7 DEF LiteClose, LiteStep
  <2>2. CASE LiteFails("answer")
    BY <2>1, <2>2, LiteFailsHonestly
  <2>3. CASE pc' = "answer" /\ UNCHANGED <<err, causes>>
    <3>1. UNCHANGED <<engine, operation, catalogVars, clientVars, answer>>
      BY <2>1 DEF unread
    <3>2. Going /\ Closes
      BY <2>1, <2>3, <3>1 DEF Going, Closes, Still
    <3>3. QED
      BY <3>2 DEF CallStep
  <2>4. QED
    BY <1>7, <2>2, <2>3 DEF LiteClose
<1>8. QED
  BY <1>1, <1>2, <1>3, <1>4, <1>5, <1>6, <1>7 DEF LiteNext
---------------------------------------------------------------------------
(* The service's steps. *)

\* The checks of the request, and the listing of the sources.
LEMMA ServiceSteps ==
    ASSUME AnswerInv, PagingInv, CheckRequest \/ ListDataSources
    PROVE  (Failing /\ Refuses) \/ (Going /\ CallStep)
<1>1. CASE CheckRequest
  <2>1. pc = "service" /\ UNCHANGED <<unread, ctx, query, page>>
    BY <1>1 DEF CheckRequest
  <2>2. CASE /\ ctx = "cancelled" /\ UNCHANGED call
             /\ Fails({"ErrCancelled", "context.Canceled"}, {}, "answer")
    <3>1. Honest({"ErrCancelled", "context.Canceled"}, {})
      BY <2>2, PlainErrorsAreHonest
    <3>2. QED
      BY <2>1, <2>2, <3>1, FailsHonestly
  <2>3. CASE /\ UNCHANGED call
             /\ \E input \in DOMAIN ServiceErrors :
                   Fails({ServiceErrors[input][1]}, {ServiceErrors[input][2]}, "answer")
    <3>1. \/ Fails({"ErrInvalidRequest"}, {"invalid_request"}, "answer")
          \/ Fails({"ErrSourceNotFound"}, {"source_not_found"}, "answer")
      BY <2>3 DEF ServiceErrors
    <3>2. /\ Honest({"ErrInvalidRequest"}, {"invalid_request"})
          /\ Honest({"ErrSourceNotFound"}, {"source_not_found"})
      BY PlainErrorsAreHonest
    <3>3. QED
      BY <2>1, <2>3, <3>1, <3>2, FailsHonestly
  <2>4. CASE UNCHANGED call /\ Fails({"ErrInvalidCursor"}, {"invalid_cursor"}, "answer")
    <3>1. Honest({"ErrInvalidCursor"}, {"invalid_cursor"})
      BY PlainErrorsAreHonest
    <3>2. QED
      BY <2>1, <2>4, <3>1, FailsHonestly
  <2>5. CASE /\ decodeCursor(call.cursor, call.request)
             /\ call' = [call EXCEPT !.after = call.cursor.position]
             /\ pc' = IF operation = "sources" THEN "snapshot" ELSE "open"
             /\ UNCHANGED <<err, causes>>
    <3>1. Going /\ Still /\ UNCHANGED err
      BY <2>1, <2>5, GoesOnHonestly
    <3>2. Accepts
      BY <2>1, <2>5, <3>1 DEF Accepts
    <3>3. QED
      BY <3>1, <3>2 DEF CallStep
  <2>6. QED
    BY <1>1, <2>2, <2>3, <2>4, <2>5 DEF CheckRequest
<1>2. CASE ListDataSources
  <2>1. /\ pc = "snapshot" /\ UNCHANGED <<unread, call, ctx, query, err, causes>>
        /\ page' = ReadPage(call.request, call.after) /\ pc' = "answer"
    BY <1>2 DEF ListDataSources
  <2>2. Going /\ Still /\ UNCHANGED err
    BY <2>1, GoesOnHonestly
  <2>3. operation = "sources"
    BY <2>1 DEF PagingInv, CallInv
  <2>4. Reads
    BY <2>1, <2>2, <2>3 DEF Reads
  <2>5. QED
    BY <2>2, <2>4 DEF CallStep
<1>3. QED
  BY <1>1, <1>2
---------------------------------------------------------------------------
(* What else happens to a call. *)

\* The request is given up, or its statements take too long.
LEMMA ContextEndsKeeps ==
    ASSUME AnswerInv, PagingInv, CancelRequest \/ QueryTimeout
    PROVE  AnswerInv' /\ Waits
<1>1. /\ pc \notin {"idle", "answer"}
      /\ UNCHANGED <<engine, operation, catalogVars, clientVars, pc, call, page, err, answer, causes>>
      /\ \/ /\ ctx = "live" /\ ctx' = "cancelled"
            /\ query' = IF query = "live" THEN "canceled" ELSE query
         \/ /\ query = "live" /\ query' = "deadline" /\ UNCHANGED ctx
  BY DEF CancelRequest, QueryTimeout
<1>2. Waits
  BY <1>1 DEF Waits, Still
<1>3. \A category : Happened(category, ctx, query, causes) => Happened(category, ctx, query, causes)'
  BY <1>1 DEF Happened
<1>4. Explained(err, ctx, query, causes)'
  BY <1>1, <1>3 DEF AnswerInv, Explained, Named, LiteMeanings
<1>5. Undistracted(err, ctx)'
  BY <1>1 DEF AnswerInv, Undistracted
<1>6. QED
  BY <1>1, <1>2, <1>4, <1>5 DEF AnswerInv

\* Without an error there is nothing to explain.
LEMMA NothingIsExplained ==
    ASSUME NEW r, NEW c, NEW w
    PROVE  Explained({}, r, c, w) /\ Undistracted({}, r)
  BY DEF Explained, Undistracted, Named

\* A new call starts without an error.
LEMMA CallKeepsAnswer ==
    ASSUME AnswerInv, NEW r, NEW cursor, Call(r, cursor)
    PROVE  AnswerInv'
<1>1. /\ pc' = "service" /\ ctx' = "live" /\ query' = "none" /\ engine' = engine
      /\ err' = {} /\ answer' = "none" /\ causes' = {}
  BY DEF Call
<1>2. Explained({}, "live", "none", {})' /\ Undistracted({}, "live")'
  BY <1>1 DEF Explained, Undistracted, Named
<1>3. QED
  BY <1>1, <1>2 DEF AnswerInv

\* What is answered fits the error.
LEMMA RespondKeepsAnswer ==
    ASSUME AnswerInv, Respond
    PROVE  AnswerInv'
<1>1. /\ pc = "answer" /\ pc' = "idle" /\ err' = {} /\ UNCHANGED <<engine, ctx, query, causes>>
      /\ \/ err # {} /\ answer' = Classify(err)
         \/ err = {} /\ answer' = "ok"
  BY DEF Respond
<1>2. (Explained(err, ctx, query, causes) /\ Undistracted(err, ctx))'
  BY <1>1 DEF Explained, Undistracted, Named
<1>3. CASE err # {} /\ answer' = Classify(err)
  <2>1. Fits(Classify(err), ctx, query, causes)
    BY <1>3, ClassifyFits DEF AnswerInv
  <2>2. PICK a : a = answer' /\ Fits(a, ctx, query, causes)
    BY <1>3, <2>1
  <2>3. Fits(answer, ctx, query, causes)'
    BY <1>1, <2>2 DEF Fits, Happened, LiteMeanings
  <2>4. answer' # "ok"
    BY <2>2 DEF Fits
  <2>5. QED
    BY <1>1, <1>2, <2>3, <2>4 DEF AnswerInv
<1>4. CASE err = {} /\ answer' = "ok"
  BY <1>1, <1>2, <1>4 DEF AnswerInv
<1>5. QED
  BY <1>1, <1>3, <1>4

\* What leaves the call alone leaves its error alone.
LEMMA StutterKeeps ==
    ASSUME AnswerInv, UNCHANGED <<engine, callVars>>
    PROVE  AnswerInv'
  BY DEF AnswerInv, callVars, Explained, Undistracted, Named, Fits, Happened, LiteMeanings
---------------------------------------------------------------------------
(* The client's steps, and its page. *)

\* A listing begins before everything there is.
LEMMA StartKeeps ==
    ASSUME PagingInv, NEW r \in Requests, StartListing(r)
    PROVE  PagingInv'
<1>1. /\ UNCHANGED <<engine, operation, catalog, oid>>
      /\ pc' = "service" /\ err' = {} /\ page' = NoPage
      /\ call' = [NoCall(r) EXCEPT !.cursor = NoCursor]
      /\ listing' = [NoListing(r) EXCEPT !.state = "open", !.begun = catalog]
      /\ gone' = {} /\ drops' = 0 /\ additions' = 0
  BY DEF StartListing, Call, catalogVars
<1>2. /\ listing' = [request |-> r, cursor |-> NoCursor, begun |-> catalog, delivered |-> {},
                     first |-> {}, constraints |-> {}, repeats |-> 0, state |-> "open"]
      /\ call' = [request |-> r, after |-> 0, cursor |-> NoCursor, oid |-> 0]
      /\ page' = [objects |-> {}, last |-> 0, more |-> FALSE, constraints |-> {}]
  BY <1>1 DEF NoListing, NoCall, NoPage
<1>3. NoCursor' = NoCursor /\ NoCursor.position = 0
  BY DEF NoCursor
<1>4. PagingType'
  <2>1. ListingType'
    BY <1>2, <1>3 DEF ListingType
  <2>2. PageType'
    BY <1>2 DEF PageType
  <2>3. CallType'
    BY <1>1, <1>2 DEF CallType
  <2>4. QED
    BY <2>1, <2>2, <2>3 DEF PagingType
<1>5. CatalogType /\ CatalogInv
  BY DEF PagingInv, CatalogInv
<1>6. Steady' = catalog
  BY <1>1, <1>2 DEF Steady
<1>7. CatalogInv' /\ CatalogType'
  <2>1. CatalogType'
    BY <1>1, <1>5, <1>6 DEF CatalogType
  <2>2. (listing.delivered \ gone = {} /\ page.objects \ gone = {})'
    BY <1>2
  <2>3. QED
    BY <1>1, <1>5, <2>1, <2>2 DEF CatalogInv, OneSchema
<1>8. Underway({}, 0, 0)'
  <2>1. Found(Steady)' \in SUBSET catalog
    BY <1>2, <1>6 DEF Found
  <2>2. \A o \in catalog : Position(o)' = Position(o) /\ Position(o) \in Nat /\ Position(o) # 0
    <3>1. catalog \in SUBSET Ids
      BY <1>5 DEF CatalogType
    <3>2. QED
      BY <1>1, <1>5, <3>1, PositionsAre DEF Position, Renumbered
  <2>3. \A o \in catalog : ~(Position(o)' <= 0)
    BY <2>2
  <2>4. Missed({}, 0)' = {} /\ Ahead({}, 0)' = {}
    BY <2>1, <2>3 DEF Missed, Ahead
  <2>5. Cardinality({}) = 0
    BY FS_EmptySet
  <2>6. Slack(drops)' = 0 /\ Slack(additions)' = 0
    BY <1>1 DEF Slack
  <2>7. QED
    BY <2>4, <2>5, <2>6 DEF Underway
<1>9. ListingInv'
  BY <1>2, <1>3, <1>8 DEF ListingInv
<1>10. CallInv' /\ PageInv'
  <2>1. (listing.state = "open" /\ call.cursor = listing.cursor /\ call.request = listing.request)'
    BY <1>2
  <2>2. QED
    BY <1>1, <2>1 DEF CallInv, PageInv
<1>11. QED
  BY <1>4, <1>7, <1>9, <1>10 DEF PagingInv

\* A call with a cursor of the listing, or with none of it, leaves the listing alone.
LEMMA CallKeeps ==
    ASSUME PagingInv, NEW r, NEW cursor, Call(r, cursor), UNCHANGED clientVars,
           \/ cursor.fingerprint = <<"elsewhere">>
           \/ listing.state = "open" /\ cursor = listing.cursor /\ cursor # NoCursor
    PROVE  PagingInv'
<1>1. /\ Still
      /\ pc' = "service" /\ err' = {} /\ page' = NoPage
      /\ call' = [NoCall(r) EXCEPT !.cursor = cursor]
  BY DEF Call, Still
<1>2. /\ call' = [request |-> r, after |-> 0, cursor |-> cursor, oid |-> 0]
      /\ page' = [objects |-> {}, last |-> 0, more |-> FALSE, constraints |-> {}]
  BY <1>1 DEF NoCall, NoPage
<1>3. ListingType' /\ CatalogType' /\ ListingInv'
  BY <1>1, StillKeeps
<1>4. UNCHANGED <<engine, operation, catalog, oid, listing, gone, drops, additions>> /\ NoCursor' = NoCursor
  BY <1>1, StillIs
<1>5. PageType' /\ CallType'
  <2>1. PageType'
    BY <1>2 DEF PageType
  <2>2. CallType'
    BY <1>1, <1>2 DEF CallType
  <2>3. QED
    BY <2>1, <2>2
<1>6. CatalogInv'
  BY <1>2, <1>3, <1>4 DEF PagingInv, CatalogInv, OneSchema
<1>7. CallInv' /\ PageInv'
  BY <1>1, <1>2, <1>4 DEF CallInv, PageInv
<1>8. QED
  BY <1>3, <1>5, <1>6, <1>7 DEF PagingInv, PagingType

\* Each of the client's steps keeps the invariant.
LEMMA ClientStepKeeps == PagingInv /\ ClientStep => PagingInv'
<1> SUFFICES ASSUME PagingInv, ClientStep
             PROVE  PagingInv'
  OBVIOUS
<1>1. PICK r \in Requests : StartListing(r) \/ NextPage(r) \/ \E ordinal \in BOOLEAN : BadCursor(r, ordinal)
  BY DEF ClientStep
<1>2. CASE StartListing(r)
  BY <1>2, StartKeeps
<1>3. CASE NextPage(r)
  BY <1>3, CallKeeps DEF NextPage
<1>4. CASE \E ordinal \in BOOLEAN : BadCursor(r, ordinal)
  <2>1. PICK ordinal \in BOOLEAN : BadCursor(r, ordinal)
    BY <1>4
  <2> DEFINE cursor == [fingerprint |-> <<"elsewhere">>, position |-> 1, ordinal |-> ordinal]
  <2>2. Call(r, cursor) /\ UNCHANGED clientVars /\ cursor.fingerprint = <<"elsewhere">>
    BY <2>1 DEF BadCursor
  <2> HIDE DEF cursor
  <2>3. QED
    BY <2>2, CallKeeps
<1>5. QED
  BY <1>1, <1>2, <1>3, <1>4

\* A page that is answered takes the listing to the page's end.
LEMMA RespondKeeps == PagingInv /\ Respond => PagingInv'
<1> SUFFICES ASSUME PagingInv, Respond
             PROVE  PagingInv'
  OBVIOUS
<1>1. /\ pc = "answer" /\ pc' = "idle" /\ err' = {} /\ page' = NoPage
      /\ call' = NoCall(listing'.request)
      /\ UNCHANGED <<engine, operation, catalogVars, gone, drops, additions>>
      /\ \/ err # {} /\ UNCHANGED listing
         \/ err = {} /\ BuildPage
  BY DEF Respond
<1>2. CallType' /\ PageType' /\ CallInv' /\ PageInv'
  BY <1>1 DEF CallType, PageType, CallInv, PageInv, NoCall, NoPage
<1>3. page'.objects = {}
  BY <1>1 DEF NoPage
<1>4. CASE err # {} /\ UNCHANGED listing
  <2>1. Still
    BY <1>1, <1>4 DEF Still, clientVars
  <2>2. ListingType' /\ CatalogType' /\ ListingInv'
    BY <2>1, StillKeeps
  <2>3. CatalogInv'
    BY <1>1, <1>3, <1>4, <2>2 DEF PagingInv, CatalogInv, OneSchema, catalogVars
  <2>4. QED
    BY <1>2, <2>2, <2>3 DEF PagingInv, PagingType
<1>5. CASE err = {} /\ BuildPage
  <2> DEFINE next == IF page.more /\ page.objects # {} THEN encodeCursor(call.request, page.last)
                     ELSE NoCursor
  <2>1. /\ listing.state = "open" /\ call.request = listing.request /\ listing.request \in Requests
        /\ IF page.more THEN /\ page.objects # {} /\ page.last # 0
                             /\ Underway(Delivered, page.last, Repeats)
                        ELSE Over(Delivered, Repeats)
        /\ Told(listing.constraints \cup page.constraints, FirstPage, Delivered)
        /\ page.last \in Nat
    BY <1>1, <1>5 DEF PagingInv, CallInv, PageInv, PagingType, ListingType, PageType
  <2>2. listing' = [request |-> listing.request, cursor |-> next, begun |-> listing.begun,
                    delivered |-> Delivered, first |-> FirstPage,
                    constraints |-> listing.constraints \cup page.constraints,
                    repeats |-> Repeats,
                    state |-> IF next = NoCursor THEN "complete" ELSE "open"]
    <3>1. listing = [request |-> listing.request, cursor |-> listing.cursor, begun |-> listing.begun,
                     delivered |-> listing.delivered, first |-> listing.first,
                     constraints |-> listing.constraints, repeats |-> listing.repeats,
                     state |-> listing.state]
      BY DEF PagingInv, PagingType, ListingType
    <3>2. listing' = [listing EXCEPT
              !.request = call.request,
              !.cursor = next,
              !.repeats = Repeats,
              !.delivered = Delivered,
              !.first = FirstPage,
              !.constraints = listing.constraints \cup page.constraints,
              !.state = IF next = NoCursor THEN "complete" ELSE "open"]
      BY <1>5 DEF BuildPage, Repeats, Delivered, FirstPage
    <3> HIDE DEF next
    <3>3. QED
      BY <2>1, <3>1, <3>2
  <2>3. /\ next = NoCursor <=> ~page.more
        /\ page.more => next = encodeCursor(listing.request, page.last)
    BY <2>1, PrintsAre
  <2>4. next.position \in Nat /\ (page.more => next.position = page.last)
    BY <2>1, <2>3, PrintsAre
  <2> HIDE DEF next
  <2>5. Repeats \in Nat /\ Delivered \in SUBSET Ids
    BY RepeatsAre DEF PagingInv
  <2>6. UNCHANGED <<engine, operation, catalog, oid, gone, drops, additions>>
        /\ Steady' = Steady /\ NoCursor' = NoCursor
    BY <1>1, <2>2 DEF Steady, catalogVars, NoCursor
  <2>7. /\ \A d, n, t : Underway(d, n, t)' <=> Underway(d, n, t)
        /\ \A d, t : Over(d, t)' <=> Over(d, t)
        /\ \A c, f, d : Told(c, f, d)' <=> Told(c, f, d)
    BY <2>2, <2>6 DEF Underway, Over, Told, Due, Missed, Ahead, Found, Position, Renumbered, Slack
  <2>8. ListingType'
    BY <2>1, <2>2, <2>4, <2>5 DEF ListingType
  <2>9. CatalogInv'
    <3>1. Delivered \ gone \in SUBSET catalog
      BY DEF PagingInv, CatalogInv, Delivered
    <3>2. CatalogType'
      BY <2>6 DEF PagingInv, CatalogInv, CatalogType
    <3>3. QED
      BY <1>3, <2>2, <2>6, <3>1, <3>2 DEF PagingInv, CatalogInv, OneSchema
  <2>10. ListingInv'
    <3>1. CASE page.more
      <4>1. listing'.state = "open" /\ listing'.cursor = next /\ next # NoCursor
        BY <2>2, <2>3, <3>1
      <4>2. (listing.cursor = encodeCursor(listing.request, listing.cursor.position))'
        BY <2>2, <2>3, <2>4, <2>6, <3>1 DEF encodeCursor, requestFingerprint
      <4>3. Underway(listing.delivered, listing.cursor.position, listing.repeats)'
        BY <2>1, <2>2, <2>4, <2>7, <3>1
      <4>4. Told(listing.constraints, listing.first, listing.delivered)'
        BY <2>1, <2>2, <2>7
      <4>5. QED
        BY <2>1, <2>2, <2>4, <2>6, <3>1, <4>1, <4>2, <4>3, <4>4 DEF ListingInv
    <3>2. CASE ~page.more
      <4>1. listing'.state = "complete" /\ listing'.cursor = NoCursor'
        BY <2>2, <2>3, <2>6, <3>2
      <4>2. Over(listing.delivered, listing.repeats)'
        BY <2>1, <2>2, <2>7, <3>2
      <4>3. Told(listing.constraints, listing.first, listing.delivered)'
        BY <2>1, <2>2, <2>7
      <4>4. QED
        BY <4>1, <4>2, <4>3 DEF ListingInv
    <3>3. QED
      BY <3>1, <3>2
  <2>11. QED
    BY <1>2, <2>8, <2>9, <2>10 DEF PagingInv, PagingType
<1>6. QED
  BY <1>1, <1>4, <1>5
---------------------------------------------------------------------------
(* The theorems. *)

\* The invariant holds at first,
LEMMA InitHolds == Init => AnswerInv /\ PagingInv
<1> SUFFICES ASSUME Init
             PROVE  AnswerInv /\ PagingInv
  OBVIOUS
<1>1. PICK r : call = NoCall(r) /\ listing = NoListing(r)
  BY DEF Init
<1>2. /\ call = [request |-> r, after |-> 0, cursor |-> NoCursor, oid |-> 0]
      /\ listing = [request |-> r, cursor |-> NoCursor, begun |-> {}, delivered |-> {},
                    first |-> {}, constraints |-> {}, repeats |-> 0, state |-> "none"]
  BY <1>1 DEF NoCall, NoListing
<1>3. /\ pc = "idle" /\ err = {} /\ ctx = "live" /\ query = "none" /\ answer = "none" /\ causes = {}
      /\ page = [objects |-> {}, last |-> 0, more |-> FALSE, constraints |-> {}]
      /\ engine \in {"postgres", "mysql", "sqlite"}
      /\ catalog \in SUBSET Ids /\ (OneSchema => Cardinality(catalog) = 1)
      /\ gone = {} /\ drops = 0 /\ additions = 0
  BY DEF Init, NoPage
<1>4. AnswerInv
  BY <1>3, NothingIsExplained DEF AnswerInv
<1>5. PagingType
  <2>1. ListingType
    BY <1>2 DEF ListingType, NoCursor
  <2>2. PageType
    BY <1>3 DEF PageType
  <2>3. CallType
    BY <1>2, <1>3 DEF CallType
  <2>4. QED
    BY <2>1, <2>2, <2>3 DEF PagingType
<1>6. CatalogInv
  <2>1. Steady = {}
    BY <1>2 DEF Steady
  <2>2. CatalogType
    BY <1>3, <2>1 DEF CatalogType
  <2>3. listing.delivered \ gone = {} /\ page.objects \ gone = {}
    BY <1>2, <1>3
  <2>4. QED
    BY <1>3, <2>2, <2>3 DEF CatalogInv
<1>7. ListingInv /\ CallInv /\ PageInv
  BY <1>2, <1>3 DEF ListingInv, CallInv, PageInv
<1>8. QED
  BY <1>4, <1>5, <1>6, <1>7 DEF PagingInv

\* every step keeps it,
LEMMA StepKeeps == AnswerInv /\ PagingInv /\ [Next]_vars => (AnswerInv /\ PagingInv)'
<1> SUFFICES ASSUME AnswerInv, PagingInv, [Next]_vars
             PROVE  AnswerInv' /\ PagingInv'
  OBVIOUS
<1>1. CASE (Failing /\ Refuses) \/ (Going /\ CallStep)
  <2>1. AnswerInv'
    BY <1>1, FailingKeeps, GoingKeeps
  <2>2. CallStep
    BY <1>1 DEF CallStep
  <2>3. QED
    BY <2>1, <2>2, CallStepKeeps
<1>2. CASE ClientStep
  <2>1. \E r, cursor : Call(r, cursor)
    BY <1>2 DEF ClientStep, StartListing, NextPage, BadCursor
  <2>2. QED
    BY <1>2, <2>1, CallKeepsAnswer, ClientStepKeeps
<1>3. CASE CatalogStep
  <2>1. CatalogType
    BY DEF PagingInv, CatalogInv
  <2>2. UNCHANGED <<engine, callVars>>
    BY <1>3, <2>1, CatalogMoves
  <2>3. QED
    BY <1>3, <2>2, StutterKeeps, CatalogStepKeeps
<1>4. CASE CancelRequest \/ QueryTimeout
  BY <1>4, ContextEndsKeeps, WaitKeeps
<1>5. CASE Respond
  BY <1>5, RespondKeepsAnswer, RespondKeeps
<1>6. CASE UNCHANGED vars
  <2>1. Waits /\ UNCHANGED <<engine, callVars>>
    BY <1>6 DEF vars, callVars, Waits, Still
  <2>2. QED
    BY <2>1, StutterKeeps, WaitKeeps
<1>7. QED
  BY <1>1, <1>2, <1>3, <1>4, <1>5, <1>6, PgSteps, MySteps, LiteSteps, ServiceSteps DEF Next

\* and so it always holds: of every error, and of every listing.
LEMMA DiscoveryInvariant == Spec => [](AnswerInv /\ PagingInv)
  BY InitHolds, StepKeeps, PTL DEF Spec

(* A failure is told by what happened, whatever the engine, and a request  *)
(* that was given up is never told as a failure of the database: the       *)
(* errors of every statement of the three discoverers, as Classify tells   *)
(* them.                                                                   *)
THEOREM FailuresExplained == Spec => []FailuresAreExplained
<1>1. AnswerInv => FailuresAreExplained
  BY DEF AnswerInv, FailuresAreExplained, Fits, Happened, LiteMeanings
<1>2. QED
  BY <1>1, DiscoveryInvariant, PTL

(* A listing read to its end is whole, for any catalog, any change of it   *)
(* between any two statements, any limit and any search.                   *)
THEOREM ListingWhole == Spec => []ListingIsWhole
<1>1. PagingInv => ListingIsWhole
  <2> SUFFICES ASSUME PagingInv
               PROVE  ListingIsWhole
    OBVIOUS
  <2>1. CatalogType /\ PagingType /\ ListingInv
    BY DEF PagingInv, CatalogInv
  <2>2. listing.delivered \in SUBSET Ids /\ listing.repeats \in Nat
    BY <2>1 DEF PagingType, ListingType
  <2>3. listing.repeats <= Slack(additions)
    <3>1. CASE listing.state = "none"
      <4>1. Slack(additions) \in Nat
        BY <2>1, <2>2, CountsAre
      <4>2. QED
        BY <2>1, <3>1, <4>1 DEF ListingInv
    <3>2. CASE listing.state = "open"
      <4> DEFINE ahead == Cardinality(Ahead(listing.delivered, listing.cursor.position))
      <4>1. ahead \in Nat /\ Slack(additions) \in Nat
        BY <2>1, <2>2, CountsAre
      <4>2. listing.repeats + ahead <= Slack(additions)
        BY <2>1, <3>2 DEF ListingInv, Underway
      <4> HIDE DEF ahead
      <4>3. QED
        BY <2>2, <4>1, <4>2
    <3>3. CASE listing.state = "complete"
      BY <2>1, <3>3 DEF ListingInv, Over
    <3>4. QED
      BY <2>1, <3>1, <3>2, <3>3 DEF PagingType, ListingType
  <2>4. CASE listing.state = "complete"
    <3>1. /\ Cardinality(Found(Steady) \ listing.delivered) <= Slack(drops)
          /\ Told(listing.constraints, listing.first, listing.delivered)
      BY <2>1, <2>4 DEF ListingInv, Over
    <3>2. ASSUME operation = "columns", NEW k \in Constraints, k \subseteq Steady,
                 k \cap (IF engine = "mysql" THEN listing.first ELSE listing.delivered) # {}
          PROVE  k \in listing.constraints
      BY <3>1, <3>2 DEF Told, Due
    <3>3. QED
      BY <2>3, <3>1, <3>2 DEF ListingIsWhole, Slack
  <2>5. CASE listing.state # "complete"
    BY <2>3, <2>5 DEF ListingIsWhole, Slack
  <2>6. QED
    BY <2>4, <2>5
<1>2. QED
  BY <1>1, DiscoveryInvariant, PTL
===========================================================================
