------------------------ MODULE SqliteRuntimeProofs ------------------------
(***************************************************************************)
(* Proofs about SqliteRuntime, for every set of database ids, operations   *)
(* (finitely many), closers and entry objects: the counters count, and a   *)
(* runtime that reports it is drained is idle for good.                    *)
(***************************************************************************)
EXTENDS SqliteRuntime, FiniteSetTheorems, TLAPS

\* Everything keeps its type; the bounds of the counters follow from what they count.
TypeInv ==
    /\ isClosed \in BOOLEAN
    /\ active \in Nat
    /\ entries \in [Ids -> Objects \cup {None}]
    /\ drainClosed \in BOOLEAN
    /\ entryActive \in [Objects -> Nat]
    /\ detached \in [Objects -> BOOLEAN]
    /\ pc \in [Ops -> {"idle", "prepare", "connect", "configure", "using", "release"}]
    /\ lease \in [Ops -> [id : Ids, entry : Objects] \cup {NoLease}]
    /\ physical \in [Ops -> BOOLEAN]
    /\ closer \in [Closers -> {"idle", "waiting", "timeout", "ok"}]

\* An operation holds a lease from acquire to release, and a connection inside.
OpInv ==
    \A u \in Ops :
        /\ pc[u] = "idle" <=> lease[u] = NoLease
        /\ physical[u] => pc[u] \in {"configure", "using"}

\* The drain of a closed runtime is over when nothing is leased, and not before.
DrainInv ==
    /\ drainClosed <=> isClosed /\ active = 0
    /\ \A s \in Closers : closer[s] = "ok" => drainClosed

IInv == TypeInv /\ OpInv /\ LeasesAreCounted /\ DrainInv
---------------------------------------------------------------------------
\* Leases are counted in finite sets.
LEMMA HoldersFinite ==
    /\ IsFiniteSet(Holders)
    /\ \A e \in Objects : IsFiniteSet(LeasesOn(e))
    /\ Cardinality(Holders) \in 0..Cardinality(Ops)
    /\ \A e \in Objects : Cardinality(LeasesOn(e)) \in 0..Cardinality(Ops)
  <1>1. Holders \in SUBSET Ops /\ \A e \in Objects : LeasesOn(e) \in SUBSET Ops
    BY DEF Holders, LeasesOn
  <1>2. IsFiniteSet(Ops) /\ Cardinality(Ops) \in Nat
    BY SqliteAssumption, FS_CardinalityType
  <1>3. ASSUME NEW S \in SUBSET Ops
        PROVE  IsFiniteSet(S) /\ Cardinality(S) \in 0..Cardinality(Ops)
    BY <1>2, FS_Subset, FS_CardinalityType
  <1>4. QED BY <1>1, <1>3

\* A lease on an object is a lease.
LEMMA LeasedEntryIsHeld ==
    ASSUME TypeInv
    PROVE  \A e \in Objects : LeasesOn(e) \subseteq Holders
  BY SqliteAssumption DEF TypeInv, LeasesOn, Holders, NoLease

\* A new lease: one holder more, of its entry and of no other.
LEMMA LeaseTaken ==
    ASSUME NEW u \in Ops, NEW id \in Ids, NEW e \in Objects,
           TypeInv, OpInv, pc[u] = "idle", Lease(u, id, e)
    PROVE  /\ Holders' = Holders \cup {u} /\ u \notin Holders
           /\ LeasesOn(e)' = LeasesOn(e) \cup {u} /\ u \notin LeasesOn(e)
           /\ \A other \in Objects \ {e} : LeasesOn(other)' = LeasesOn(other)
           /\ lease'[u] = [id |-> id, entry |-> e]
           /\ \A w \in Ops \ {u} : lease'[w] = lease[w]
  BY SqliteAssumption DEF TypeInv, OpInv, Lease, Holders, LeasesOn, NoLease

\* A lease given back: one holder less.
LEMMA LeaseReturned ==
    ASSUME NEW u \in Ops, NEW id \in Ids, NEW e \in Objects,
           TypeInv, OpInv, Release(u), lease[u] = [id |-> id, entry |-> e]
    PROVE  /\ Holders' = Holders \ {u} /\ u \in Holders
           /\ LeasesOn(e)' = LeasesOn(e) \ {u} /\ u \in LeasesOn(e)
           /\ \A other \in Objects \ {e} : LeasesOn(other)' = LeasesOn(other)
           /\ \A w \in Ops \ {u} : lease'[w] = lease[w]
           /\ lease'[u] = NoLease
  BY SqliteAssumption DEF TypeInv, OpInv, Release, Holders, LeasesOn, NoLease

\* The bounds of TypeOK.
LEMMA CountersAreBounded == TypeInv /\ LeasesAreCounted => TypeOK
  <1> SUFFICES ASSUME TypeInv, LeasesAreCounted PROVE TypeOK
    OBVIOUS
  <1>1. active \in 0..Cardinality(Ops) BY HoldersFinite DEF LeasesAreCounted
  <1>2. \A e \in Objects : entryActive[e] \in 0..Cardinality(Ops)
    BY HoldersFinite DEF LeasesAreCounted
  <1>3. entryActive \in [Objects -> 0..Cardinality(Ops)] BY <1>2 DEF TypeInv
  <1>4. QED BY <1>1, <1>3 DEF TypeInv, TypeOK
---------------------------------------------------------------------------
\* The steps of an operation between its two counts.
Middle(u) == PrepareDefinition(u) \/ OpenPhysical(u) \/ Configure(u) \/ CloseClient(u)

\* Steps that count nothing.
Uncounted ==
    \/ \E u \in Ops : Middle(u)
    \/ \E s \in Closers : CloseAgain(s) \/ CloseReturns(s)
    \/ UNCHANGED vars

Counted ==
    \/ \E u \in Ops, id \in Ids : AcquireShared(u, id) \/ \E e \in Objects : AcquireNew(u, id, e)
    \/ \E u \in Ops : Release(u)
    \/ \E id \in Ids : Invalidate(id)
    \/ \E s \in Closers : CloseFirst(s)

\* Every step counts an operation, or does not.
LEMMA CountedOrNot == [Next]_vars => Counted \/ Uncounted
  BY DEF Next, OpStep, Counted, Uncounted, Middle

\* One that does not keeps the invariant.
LEMMA UncountedKeeps ==
    ASSUME Uncounted, IInv
    PROVE  IInv'
  <1>1. ASSUME NEW u \in Ops, Middle(u) PROVE IInv'
    <2>1. TypeInv'
      BY <1>1 DEF IInv, TypeInv, Middle, PrepareDefinition, OpenPhysical, Configure, CloseClient,
        runtimeVars, objectVars
    <2>2. OpInv'
      BY <1>1 DEF IInv, TypeInv, OpInv, Middle, PrepareDefinition, OpenPhysical, Configure,
        CloseClient, runtimeVars, objectVars
    <2>3. UNCHANGED <<runtimeVars, objectVars, lease, closer>>
      BY <1>1 DEF Middle, PrepareDefinition, OpenPhysical, Configure, CloseClient
    <2>4. LeasesAreCounted' /\ DrainInv'
      BY <2>3 DEF IInv, LeasesAreCounted, DrainInv, Holders, LeasesOn, runtimeVars, objectVars
    <2>5. QED BY <2>1, <2>2, <2>4 DEF IInv
  <1>2. ASSUME NEW s \in Closers, CloseAgain(s) \/ CloseReturns(s) PROVE IInv'
    <2>1. UNCHANGED <<runtimeVars, objectVars, opVars>> BY <1>2 DEF CloseAgain, CloseReturns
    <2>2. TypeInv'
      BY <1>2, <2>1 DEF IInv, TypeInv, CloseAgain, CloseReturns, runtimeVars, objectVars, opVars
    <2>3. OpInv' /\ LeasesAreCounted'
      BY <2>1 DEF IInv, OpInv, LeasesAreCounted, Holders, LeasesOn, runtimeVars, objectVars, opVars
    <2>4. DrainInv'
      BY <1>2, <2>1 DEF IInv, TypeInv, DrainInv, CloseAgain, CloseReturns, runtimeVars
    <2>5. QED BY <2>2, <2>3, <2>4 DEF IInv
  <1>3. CASE UNCHANGED vars
    BY <1>3 DEF IInv, TypeInv, OpInv, LeasesAreCounted, DrainInv, Holders, LeasesOn, vars,
      runtimeVars, objectVars, opVars
  <1>4. QED BY <1>1, <1>2, <1>3 DEF Uncounted
---------------------------------------------------------------------------
\* acquire, both outcomes.
LEMMA AcquireKeeps ==
    ASSUME NEW u \in Ops, NEW id \in Ids, IInv,
           AcquireShared(u, id) \/ \E e \in Objects : AcquireNew(u, id, e)
    PROVE  IInv'
  <1> USE DEF IInv
  <1>1. PICK e \in Objects :
            /\ Lease(u, id, e) /\ pc[u] = "idle" /\ ~isClosed
            /\ UNCHANGED <<isClosed, drainClosed, physical, closer>>
            /\ entries' = [entries EXCEPT ![id] = e]
            /\ entryActive' = [entryActive EXCEPT ![e] = entryActive[e] + 1]
            /\ detached' = [detached EXCEPT ![e] = FALSE]
            /\ \/ entries[id] = e /\ ~detached[e]
               \/ entries[id] = None /\ Free(e)
    <2>1. CASE AcquireShared(u, id)
      <3>1. entries[id] \in Objects BY <2>1 DEF AcquireShared, TypeInv
      <3>2. entries' = [entries EXCEPT ![id] = entries[id]]
        BY <2>1 DEF AcquireShared, TypeInv
      <3>3. detached' = [detached EXCEPT ![entries[id]] = FALSE]
        BY <2>1, <3>1 DEF AcquireShared, TypeInv
      <3>4. QED BY <2>1, <3>1, <3>2, <3>3 DEF AcquireShared
    <2>2. ASSUME NEW e \in Objects, AcquireNew(u, id, e)
          PROVE  /\ entryActive' = [entryActive EXCEPT ![e] = entryActive[e] + 1]
                 /\ entries[id] = None
      <3>1. entryActive[e] = 0 BY <2>2, FS_EmptySet DEF AcquireNew, Free, LeasesAreCounted
      <3>2. entries[id] = None BY <2>2 DEF AcquireNew, LeasesAreCounted
      <3>3. QED BY <2>2, <3>1, <3>2 DEF AcquireNew
    <2>3. QED BY <2>1, <2>2 DEF AcquireNew
  <1>2. /\ Holders' = Holders \cup {u} /\ u \notin Holders
        /\ LeasesOn(e)' = LeasesOn(e) \cup {u} /\ u \notin LeasesOn(e)
        /\ \A other \in Objects \ {e} : LeasesOn(other)' = LeasesOn(other)
        /\ lease'[u] = [id |-> id, entry |-> e]
        /\ \A w \in Ops \ {u} : lease'[w] = lease[w]
    BY <1>1, LeaseTaken
  <1>3. TypeInv' BY <1>1 DEF TypeInv, Lease
  <1>4. OpInv' BY <1>1, SqliteAssumption DEF TypeInv, OpInv, Lease, NoLease
  <1>5. active' = Cardinality(Holders')
    BY <1>1, <1>2, HoldersFinite, FS_AddElement DEF LeasesAreCounted, Lease
  <1>6. ASSUME NEW other \in Objects PROVE entryActive'[other] = Cardinality(LeasesOn(other)')
    <2>1. CASE other = e
      <3>1. Cardinality(LeasesOn(e) \cup {u}) = Cardinality(LeasesOn(e)) + 1
        BY <1>2, HoldersFinite, FS_AddElement
      <3>2. entryActive[e] = Cardinality(LeasesOn(e)) BY DEF LeasesAreCounted
      <3>3. entryActive'[e] = entryActive[e] + 1 BY <1>1 DEF TypeInv
      <3>4. QED BY <1>2, <2>1, <3>1, <3>2, <3>3
    <2>2. CASE other # e BY <1>1, <1>2, <2>2 DEF LeasesAreCounted, TypeInv
    <2>3. QED BY <2>1, <2>2
  <1>7. ASSUME NEW d \in Ids, entries'[d] # None
        PROVE  /\ ~detached'[entries'[d]]
               /\ LeasesOn(entries[d])' # {}
               /\ \A w \in LeasesOn(entries[d])' : lease'[w].id = d
    <2>1. CASE d = id
      <3>1. entries'[d] = e BY <1>1, <2>1 DEF TypeInv
      <3>2. \A w \in LeasesOn(e) : w \in Ops \ {u} /\ lease[w].id = id
        BY <1>1, <1>2, SqliteAssumption DEF LeasesAreCounted, Free, LeasesOn
      <3>3. QED BY <1>1, <1>2, <2>1, <3>1, <3>2 DEF TypeInv
    <2>2. CASE d # id
      <3>1. entries'[d] = entries[d] /\ entries[d] \in Objects BY <1>1, <1>7, <2>2 DEF TypeInv
      <3>2. entries[d] # e BY <1>1, <2>2, <3>1, SqliteAssumption DEF LeasesAreCounted, Free
      <3>3. LeasesOn(entries[d])' = LeasesOn(entries[d]) BY <1>2, <3>1, <3>2
      <3>4. \A w \in LeasesOn(entries[d]) : w \in Ops \ {u}
        BY <1>2, <3>1, LeasedEntryIsHeld DEF LeasesOn
      <3>5. QED BY <1>1, <1>2, <1>7, <3>1, <3>2, <3>3, <3>4 DEF LeasesAreCounted, TypeInv, LeasesOn
    <2>3. QED BY <2>1, <2>2
  <1>8. ASSUME NEW w \in Holders', ~detached'[lease'[w].entry]
        PROVE  entries'[lease'[w].id] = lease'[w].entry
    <2>1. CASE w = u BY <1>1, <1>2, <2>1 DEF TypeInv
    <2>2. CASE w # u
      <3>1. w \in Holders /\ w \in Ops /\ lease'[w] = lease[w]
        BY <1>2, <2>2 DEF Holders
      <3>2. lease[w].id \in Ids /\ lease[w].entry \in Objects BY <3>1 DEF Holders, TypeInv
      <3>3. CASE lease[w].entry = e
        <4>1. w \in LeasesOn(e) BY <3>1, <3>3 DEF LeasesOn
        <4>2. entries[id] = e /\ lease[w].id = id
          BY <1>1, <4>1, <3>2, SqliteAssumption DEF Free, LeasesAreCounted
        <4>3. QED BY <1>1, <3>1, <3>3, <4>2 DEF TypeInv
      <3>4. CASE lease[w].entry # e
        <4>1. entries[lease[w].id] = lease[w].entry
          BY <1>1, <1>8, <3>1, <3>2, <3>4 DEF LeasesAreCounted, TypeInv
        <4>2. lease[w].id # id BY <1>1, <3>2, <3>4, <4>1, SqliteAssumption
        <4>3. QED BY <1>1, <3>1, <3>2, <4>1, <4>2 DEF TypeInv
      <3>5. QED BY <3>3, <3>4
    <2>3. QED BY <2>1, <2>2
  <1>9. LeasesAreCounted' BY <1>5, <1>6, <1>7, <1>8 DEF LeasesAreCounted
  <1>10. DrainInv' BY <1>1 DEF DrainInv
  <1>11. QED BY <1>3, <1>4, <1>9, <1>10
---------------------------------------------------------------------------
\* release.
LEMMA ReleaseKeeps ==
    ASSUME NEW u \in Ops, IInv, Release(u)
    PROVE  IInv'
  <1> USE DEF IInv
  <1>l. PICK id \in Ids, e \in Objects : lease[u] = [id |-> id, entry |-> e]
    BY DEF TypeInv, OpInv, Release
  <1>r. /\ pc[u] = "release" /\ pc' = [pc EXCEPT ![u] = "idle"]
        /\ entryActive' = [entryActive EXCEPT ![e] = Decremented(@)]
        /\ active' = Decremented(active)
        /\ entries' = IF entryActive'[e] = 0 /\ entries[id] = e
                      THEN [entries EXCEPT ![id] = None] ELSE entries
        /\ drainClosed' = (drainClosed \/ (isClosed /\ active' = 0))
        /\ lease' = [lease EXCEPT ![u] = NoLease]
        /\ UNCHANGED <<isClosed, detached, physical, closer>>
    BY <1>l DEF Release
  <1>1. /\ Holders' = Holders \ {u} /\ u \in Holders
        /\ LeasesOn(e)' = LeasesOn(e) \ {u} /\ u \in LeasesOn(e)
        /\ \A other \in Objects \ {e} : LeasesOn(other)' = LeasesOn(other)
        /\ \A w \in Ops \ {u} : lease'[w] = lease[w]
        /\ lease'[u] = NoLease
    BY <1>l, LeaseReturned
  <1>2. active > 0 /\ entryActive[e] > 0
    <2>1. Cardinality(Holders) # 0 /\ Cardinality(LeasesOn(e)) # 0
      BY <1>1, HoldersFinite, FS_EmptySet
    <2>2. QED BY <1>1, <2>1 DEF LeasesAreCounted, TypeInv
  <1>3. active' = active - 1 /\ active' \in Nat
    BY <1>r, <1>2 DEF Decremented, TypeInv
  <1>4. /\ entryActive' = [entryActive EXCEPT ![e] = entryActive[e] - 1]
        /\ entryActive[e] - 1 \in Nat
    BY <1>r, <1>1, <1>2 DEF Decremented, TypeInv
  <1>5. entries' \in [Ids -> Objects \cup {None}] /\ pc'[u] = "idle"
    BY <1>r, <1>1 DEF TypeInv
  <1>6. TypeInv' BY <1>r, <1>3, <1>4, <1>5 DEF TypeInv
  <1>7. OpInv' BY <1>r, <1>1 DEF OpInv, TypeInv
  <1>8. active' = Cardinality(Holders')
    BY <1>1, <1>3, HoldersFinite, FS_RemoveElement DEF LeasesAreCounted
  <1>9. ASSUME NEW other \in Objects PROVE entryActive'[other] = Cardinality(LeasesOn(other)')
    <2>1. CASE other = e
      BY <1>1, <1>4, <2>1, HoldersFinite, FS_RemoveElement DEF LeasesAreCounted, TypeInv
    <2>2. CASE other # e BY <1>1, <1>4, <2>2 DEF LeasesAreCounted, TypeInv
    <2>3. QED BY <2>1, <2>2
  <1>10. ASSUME NEW d \in Ids, entries'[d] # None
         PROVE  /\ ~detached'[entries'[d]]
                /\ LeasesOn(entries[d])' # {}
                /\ \A w \in LeasesOn(entries[d])' : lease'[w].id = d
    <2>1. entries'[d] = entries[d] /\ entries[d] \in Objects
      BY <1>r, <1>10 DEF TypeInv
    <2>2. /\ ~detached[entries[d]] /\ LeasesOn(entries[d]) # {}
          /\ \A w \in LeasesOn(entries[d]) : lease[w].id = d
      BY <2>1, <1>10 DEF LeasesAreCounted
    <2>3. CASE entries[d] = e
      <3>1. d = id BY <1>l, <1>1, <2>2, <2>3
      <3>2. entryActive'[e] # 0 BY <1>r, <1>10, <2>1, <2>3, <3>1, SqliteAssumption DEF TypeInv
      <3>3. LeasesOn(e)' # {} BY <1>1, <1>9, <3>2, FS_EmptySet
      <3>4. QED BY <1>r, <1>1, <2>1, <2>2, <2>3, <3>3 DEF LeasesOn
    <2>4. CASE entries[d] # e
      <3>1. LeasesOn(entries[d])' = LeasesOn(entries[d]) BY <1>1, <2>1, <2>4
      <3>2. \A w \in LeasesOn(entries[d]) : w \in Ops \ {u} BY <1>1, <2>4 DEF LeasesOn
      <3>3. QED BY <1>r, <1>1, <2>1, <2>2, <3>1, <3>2 DEF LeasesOn
    <2>5. QED BY <2>3, <2>4
  <1>11. ASSUME NEW w \in Holders', ~detached'[lease'[w].entry]
         PROVE  entries'[lease'[w].id] = lease'[w].entry
    <2>1. w \in Holders /\ w \in Ops \ {u} /\ lease'[w] = lease[w] BY <1>1 DEF Holders
    <2>2. lease[w].id \in Ids /\ lease[w].entry \in Objects BY <2>1 DEF Holders, TypeInv
    <2>3. entries[lease[w].id] = lease[w].entry
      BY <1>r, <1>11, <2>1, <2>2 DEF LeasesAreCounted
    <2>4. CASE lease[w].entry = e
      <3>1. w \in LeasesOn(e)' BY <1>1, <2>1, <2>4 DEF LeasesOn
      <3>2. Cardinality(LeasesOn(e)') # 0
        <4>1. IsFiniteSet(LeasesOn(e)') BY <1>1, HoldersFinite, FS_RemoveElement
        <4>2. QED BY <3>1, <4>1, FS_EmptySet
      <3>3. entryActive'[e] # 0 BY <1>1, <1>9, <3>2
      <3>4. QED BY <1>r, <2>1, <2>3, <3>3
    <2>5. CASE lease[w].entry # e
      <3>1. ~(entries[id] = e /\ lease[w].id = id) BY <2>3, <2>5
      <3>2. QED BY <1>r, <2>1, <2>2, <2>3, <3>1 DEF TypeInv
    <2>6. QED BY <2>4, <2>5
  <1>12. LeasesAreCounted' BY <1>8, <1>9, <1>10, <1>11 DEF LeasesAreCounted
  <1>13. DrainInv'
    BY <1>r, <1>2, <1>3 DEF DrainInv, TypeInv
  <1>14. QED BY <1>6, <1>7, <1>12, <1>13
---------------------------------------------------------------------------
\* Detaching entries changes no count and hides no lease that is still shared.
LEMMA DetachedKeeps ==
    ASSUME NEW S \in SUBSET Ids, TypeInv, LeasesAreCounted, Detached(S),
           UNCHANGED <<active, entryActive, opVars>>
    PROVE  LeasesAreCounted'
  <1>1. UNCHANGED Holders /\ \A e \in Objects : LeasesOn(e)' = LeasesOn(e)
    BY DEF Holders, LeasesOn, opVars
  <1>2. lease' = lease BY DEF opVars
  <1>3. active' = Cardinality(Holders')
        /\ \A e \in Objects : entryActive'[e] = Cardinality(LeasesOn(e)')
    BY <1>1 DEF LeasesAreCounted
  <1>4. ASSUME NEW d \in Ids, entries'[d] # None
        PROVE  /\ ~detached'[entries'[d]]
               /\ LeasesOn(entries[d])' # {}
               /\ \A w \in LeasesOn(entries[d])' : lease'[w].id = d
    <2>1. d \notin S /\ entries'[d] = entries[d] /\ entries[d] \in Objects
      BY <1>4 DEF Detached, TypeInv
    <2>2. /\ ~detached[entries[d]] /\ LeasesOn(entries[d]) # {}
          /\ \A w \in LeasesOn(entries[d]) : lease[w].id = d
      BY <1>4, <2>1 DEF LeasesAreCounted
    <2>3. \A other \in S : entries[other] # entries[d]
      BY <2>1, <2>2, SqliteAssumption DEF LeasesAreCounted
    <2>4. QED BY <1>1, <1>2, <2>1, <2>2, <2>3 DEF Detached
  <1>5. ASSUME NEW w \in Holders', ~detached'[lease'[w].entry]
        PROVE  entries'[lease'[w].id] = lease'[w].entry
    <2>1. w \in Holders /\ lease[w].id \in Ids /\ lease[w].entry \in Objects
      BY <1>1 DEF Holders, TypeInv
    <2>2. ~detached[lease[w].entry] /\ \A other \in S : entries[other] # lease[w].entry
      BY <1>2, <1>5, <2>1 DEF Detached
    <2>3. entries[lease[w].id] = lease[w].entry BY <2>1, <2>2 DEF LeasesAreCounted
    <2>4. QED BY <1>2, <2>1, <2>2, <2>3 DEF Detached
  <1>6. QED BY <1>3, <1>4, <1>5 DEF LeasesAreCounted

\* Entries leave the cache, and stay counted.
LEMMA DetachingKeeps ==
    ASSUME IInv, (\E id \in Ids : Invalidate(id)) \/ \E s \in Closers : CloseFirst(s)
    PROVE  IInv'
  <1> USE DEF IInv
  <1>1. ASSUME NEW id \in Ids, Invalidate(id) PROVE IInv'
    <2>1. LeasesAreCounted' BY <1>1, DetachedKeeps DEF Invalidate
    <2>2. TypeInv' BY <1>1 DEF Invalidate, Detached, TypeInv, opVars
    <2>3. OpInv' /\ DrainInv' BY <1>1 DEF Invalidate, OpInv, DrainInv, opVars
    <2>4. QED BY <2>1, <2>2, <2>3
  <1>2. ASSUME NEW s \in Closers, CloseFirst(s) PROVE IInv'
    <2>1. LeasesAreCounted' BY <1>2, DetachedKeeps DEF CloseFirst
    <2>2. TypeInv' BY <1>2 DEF CloseFirst, Detached, TypeInv, opVars
    <2>3. OpInv' BY <1>2 DEF CloseFirst, OpInv, opVars
    <2>4. DrainInv' BY <1>2 DEF CloseFirst, DrainInv, TypeInv
    <2>5. QED BY <2>1, <2>2, <2>3, <2>4
  <1>3. QED BY <1>1, <1>2
---------------------------------------------------------------------------
\* The invariant the theorems rest on.
THEOREM InductiveInvariant == Spec => []IInv
  <1>1. Init => IInv
    <2> SUFFICES ASSUME Init PROVE IInv
      OBVIOUS
    <2>1. TypeInv BY DEF Init, TypeInv
    <2>2. OpInv BY DEF Init, OpInv
    <2>3. Holders = {} /\ \A e \in Objects : LeasesOn(e) = {}
      BY SqliteAssumption DEF Init, Holders, LeasesOn, NoLease
    <2>4. LeasesAreCounted BY <2>3, FS_EmptySet DEF Init, LeasesAreCounted
    <2>5. DrainInv BY DEF Init, DrainInv
    <2>6. QED BY <2>1, <2>2, <2>4, <2>5 DEF IInv
  <1>2. IInv /\ [Next]_vars => IInv'
    BY CountedOrNot, UncountedKeeps, AcquireKeeps, ReleaseKeeps, DetachingKeeps DEF Counted
  <1>3. QED BY <1>1, <1>2, PTL DEF Spec

(* Every variable keeps its type, and no counter exceeds the number of     *)
(* operations.                                                             *)
THEOREM TypeCorrect == Spec => []TypeOK
  BY InductiveInvariant, CountersAreBounded, PTL DEF IInv

(* The counters count leases and the map holds the entries that are leased *)
(* and not detached, whatever was invalidated under the operations.        *)
THEOREM CountersCount == Spec => []LeasesAreCounted
  BY InductiveInvariant, PTL DEF IInv

(* A runtime whose drain has ended, and a Close that reported success, mean *)
(* that no operation is under way and no connection is open.               *)
THEOREM DrainMeansIdle == Spec => []DrainedMeansIdle
  <1>1. IInv => DrainedMeansIdle
    <2> SUFFICES ASSUME IInv, drainClosed PROVE isClosed /\ \A u \in Ops : ~physical[u] /\ pc[u] = "idle"
      BY DEF DrainedMeansIdle, IInv, DrainInv
    <2>1. Holders = {} BY HoldersFinite, FS_EmptySet DEF IInv, DrainInv, LeasesAreCounted
    <2>2. QED BY <2>1 DEF IInv, DrainInv, OpInv, TypeInv, Holders
  <1>2. QED BY <1>1, InductiveInvariant, PTL

(* No connection is open without a lease.                                  *)
THEOREM ConnectionsAreLeased == Spec => []ConnectionIsLeased
  <1>1. IInv => ConnectionIsLeased
    BY DEF IInv, OpInv, TypeInv, Holders, ConnectionIsLeased
  <1>2. QED BY <1>1, InductiveInvariant, PTL
=============================================================================
