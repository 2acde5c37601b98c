--------------------------- MODULE SqliteRuntime ---------------------------
(***************************************************************************)
(* The SQLite runtime: src/internal/connection/sqlite/runtime.go, and the  *)
(* opening of one physical connection in connection.go.                    *)
(*                                                                         *)
(* SQLite connections are not pooled: every query and discovery operation  *)
(* opens one of its own and closes it.  The runtime only counts them.  An  *)
(* operation takes a lease on the logical entry of its database id before  *)
(* it prepares the definition, and gives the lease back when its physical  *)
(* connection is closed.  Invalidate detaches the entry, so that later     *)
(* operations start a new one, and Close waits until no lease is left.     *)
(*                                                                         *)
(* Entries are objects: a release compares the entry it leased with the    *)
(* entry now in the map by identity.  An object no lease and no map slot   *)
(* refers to is garbage and may be allocated again.                        *)
(***************************************************************************)
EXTENDS Integers, FiniteSets

CONSTANTS Ids,      \* database ids
          Ops,      \* goroutines that run a query or a discovery
          Closers,  \* goroutines that call Close
          Objects,  \* identities of logicalEntry objects
          None

ASSUME SqliteAssumption ==
    /\ IsFiniteSet(Ops)
    /\ None \notin Ids \cup Objects

VARIABLES
    isClosed,     \* Runtime.isClosed
    active,       \* Runtime.active
    entries,      \* Runtime.entries
    drainClosed,  \* Runtime.drainClosed, and the drain channel with it
    entryActive,  \* logicalEntry.active
    detached,     \* logicalEntry.detached
    pc,           \* where each operation is
    lease,        \* the id and the entry captured by the operation's release function
    physical,     \* whether the operation's physical connection is open
    closer        \* state of every caller of Close

runtimeVars == <<isClosed, active, entries, drainClosed>>
objectVars  == <<entryActive, detached>>
opVars      == <<pc, lease, physical>>
vars == <<runtimeVars, objectVars, opVars, closer>>

NoLease == [id |-> None, entry |-> None]

\* The operations that hold a lease, all of them or those on one entry.
Holders    == {u \in Ops : lease[u] # NoLease}
LeasesOn(e) == {u \in Ops : lease[u].entry = e}

Free(e) == LeasesOn(e) = {} /\ \A id \in Ids : entries[id] # e

Init ==
    /\ isClosed = FALSE
    /\ active = 0
    /\ entries = [id \in Ids |-> None]
    /\ drainClosed = FALSE
    /\ entryActive = [e \in Objects |-> 0]
    /\ detached = [e \in Objects |-> FALSE]
    /\ pc = [u \in Ops |-> "idle"]
    /\ lease = [u \in Ops |-> NoLease]
    /\ physical = [u \in Ops |-> FALSE]
    /\ closer = [s \in Closers |-> "idle"]
---------------------------------------------------------------------------
Lease(u, id, e) ==
    /\ lease' = [lease EXCEPT ![u] = [id |-> id, entry |-> e]]
    /\ pc' = [pc EXCEPT ![u] = "prepare"]
    /\ active' = active + 1

\* acquire: an entry that is in the map and not detached is shared.
AcquireShared(u, id) ==
    /\ pc[u] = "idle"
    /\ ~isClosed
    /\ entries[id] # None
    /\ ~detached[entries[id]]
    /\ Lease(u, id, entries[id])
    /\ entryActive' = [entryActive EXCEPT ![entries[id]] = @ + 1]
    /\ UNCHANGED <<isClosed, entries, drainClosed, detached, physical, closer>>

\* acquire: otherwise a new entry takes the slot.
AcquireNew(u, id, e) ==
    /\ pc[u] = "idle"
    /\ ~isClosed
    /\ entries[id] # None => detached[entries[id]]
    /\ Free(e)
    /\ Lease(u, id, e)
    /\ entries' = [entries EXCEPT ![id] = e]
    /\ entryActive' = [entryActive EXCEPT ![e] = 1]
    /\ detached' = [detached EXCEPT ![e] = FALSE]
    /\ UNCHANGED <<isClosed, drainClosed, physical, closer>>

\* open up to the physical connection: preparing the definition, its path or
\* the context may fail, and then the deferred release runs.
PrepareDefinition(u) ==
    /\ pc[u] = "prepare"
    /\ \E next \in {"connect", "release"} : pc' = [pc EXCEPT ![u] = next]
    /\ UNCHANGED <<runtimeVars, objectVars, lease, physical, closer>>

\* openPhysicalConnection: nothing is opened for a bad file or a done context.
OpenPhysical(u) ==
    /\ pc[u] = "connect"
    /\ \/ /\ pc' = [pc EXCEPT ![u] = "configure"]
          /\ physical' = [physical EXCEPT ![u] = TRUE]
       \/ /\ pc' = [pc EXCEPT ![u] = "release"]
          /\ UNCHANGED physical
    /\ UNCHANGED <<runtimeVars, objectVars, lease, closer>>

\* Configuring the connection, or a last look at the context in
\* openPhysicalConnection or in open, fails: the connection is closed again.
Configure(u) ==
    /\ pc[u] = "configure"
    /\ \/ /\ pc' = [pc EXCEPT ![u] = "using"]
          /\ UNCHANGED physical
       \/ /\ pc' = [pc EXCEPT ![u] = "release"]
          /\ physical' = [physical EXCEPT ![u] = FALSE]
    /\ UNCHANGED <<runtimeVars, objectVars, lease, closer>>

\* Mutant: the lease is given back before the connection is closed.
BugCloseClient(u) ==
    /\ pc[u] = "using"
    /\ pc' = [pc EXCEPT ![u] = "release"]
    /\ UNCHANGED <<runtimeVars, objectVars, lease, physical, closer>>

\* client.close, first half: the physical connection is closed (whatever it
\* answers), then the lease is given back.
CloseClient(u) ==
    /\ pc[u] = "using"
    /\ pc' = [pc EXCEPT ![u] = "release"]
    /\ physical' = [physical EXCEPT ![u] = FALSE]
    /\ UNCHANGED <<runtimeVars, objectVars, lease, closer>>

\* Mutant: a lease is given back without being counted out.
BugDecremented(n) == n

Decremented(n) == IF n > 0 THEN n - 1 ELSE n

\* Mutant: release does not look at whether its entry is still in the map.
BugRelease(u) ==
    LET id == lease[u].id
        e  == lease[u].entry IN
    /\ pc[u] = "release"
    /\ entryActive' = [entryActive EXCEPT ![e] = Decremented(@)]
    /\ active' = Decremented(active)
    /\ entries' = IF entryActive'[e] = 0 THEN [entries EXCEPT ![id] = None] ELSE entries
    /\ drainClosed' = (drainClosed \/ (isClosed /\ active' = 0))
    /\ pc' = [pc EXCEPT ![u] = "idle"]
    /\ lease' = [lease EXCEPT ![u] = NoLease]
    /\ UNCHANGED <<isClosed, detached, physical, closer>>

\* Mutant: release never closes the drain channel.
BugReleaseNoDrain(u) ==
    LET id == lease[u].id
        e  == lease[u].entry IN
    /\ pc[u] = "release"
    /\ entryActive' = [entryActive EXCEPT ![e] = Decremented(@)]
    /\ active' = Decremented(active)
    /\ entries' = IF entryActive'[e] = 0 /\ entries[id] = e
                  THEN [entries EXCEPT ![id] = None] ELSE entries
    /\ pc' = [pc EXCEPT ![u] = "idle"]
    /\ lease' = [lease EXCEPT ![u] = NoLease]
    /\ UNCHANGED <<isClosed, drainClosed, detached, physical, closer>>

\* release: the entry leaves the map with its last lease, if it is still the
\* one in the map; the last lease of a closed runtime ends the drain.
Release(u) ==
    LET id == lease[u].id
        e  == lease[u].entry IN
    /\ pc[u] = "release"
    /\ entryActive' = [entryActive EXCEPT ![e] = Decremented(@)]
    /\ active' = Decremented(active)
    /\ entries' = IF entryActive'[e] = 0 /\ entries[id] = e
                  THEN [entries EXCEPT ![id] = None] ELSE entries
    /\ drainClosed' = (drainClosed \/ (isClosed /\ active' = 0))
    /\ pc' = [pc EXCEPT ![u] = "idle"]
    /\ lease' = [lease EXCEPT ![u] = NoLease]
    /\ UNCHANGED <<isClosed, detached, physical, closer>>
---------------------------------------------------------------------------
Detached(S) ==
    /\ entries' = [id \in Ids |-> IF id \in S THEN None ELSE entries[id]]
    /\ detached' = [e \in Objects |-> detached[e] \/ \E id \in S : entries[id] = e]

Invalidate(id) ==
    /\ ~isClosed
    /\ Detached({id})
    /\ UNCHANGED <<isClosed, active, drainClosed, entryActive, opVars, closer>>

\* Mutant: the drain ends as soon as the runtime is closed.
BugCloseFirst(s) ==
    /\ closer[s] \in {"idle", "timeout"}
    /\ ~isClosed
    /\ isClosed' = TRUE
    /\ Detached(Ids)
    /\ drainClosed' = TRUE
    /\ closer' = [closer EXCEPT ![s] = "waiting"]
    /\ UNCHANGED <<active, entryActive, opVars>>

CloseFirst(s) ==
    /\ closer[s] \in {"idle", "timeout"}
    /\ ~isClosed
    /\ isClosed' = TRUE
    /\ Detached(Ids)
    /\ drainClosed' = (active = 0)
    /\ closer' = [closer EXCEPT ![s] = "waiting"]
    /\ UNCHANGED <<active, entryActive, opVars>>

CloseAgain(s) ==
    /\ closer[s] \in {"idle", "timeout"}
    /\ isClosed
    /\ closer' = [closer EXCEPT ![s] = "waiting"]
    /\ UNCHANGED <<runtimeVars, objectVars, opVars>>

\* The select of Close: with both channels ready either branch may be taken.
CloseReturns(s) ==
    /\ closer[s] = "waiting"
    /\ \/ drainClosed /\ closer' = [closer EXCEPT ![s] = "ok"]
       \/ closer' = [closer EXCEPT ![s] = "timeout"]
    /\ UNCHANGED <<runtimeVars, objectVars, opVars>>
---------------------------------------------------------------------------
OpStep(u) ==
    \/ PrepareDefinition(u) \/ OpenPhysical(u) \/ Configure(u) \/ CloseClient(u) \/ Release(u)

Next ==
    \/ \E u \in Ops :
          \/ OpStep(u)
          \/ \E id \in Ids : AcquireShared(u, id) \/ \E e \in Objects : AcquireNew(u, id, e)
    \/ \E id \in Ids : Invalidate(id)
    \/ \E s \in Closers : CloseFirst(s) \/ CloseAgain(s) \/ CloseReturns(s)

\* An operation that holds a lease ends: its context carries a deadline that
\* interrupts SQLite, and the clean-up is deferred on every path.
Spec == Init /\ [][Next]_vars /\ \A u \in Ops : WF_vars(OpStep(u))
---------------------------------------------------------------------------
TypeOK ==
    /\ isClosed \in BOOLEAN
    /\ active \in 0..Cardinality(Ops)
    /\ entries \in [Ids -> Objects \cup {None}]
    /\ drainClosed \in BOOLEAN
    /\ entryActive \in [Objects -> 0..Cardinality(Ops)]
    /\ detached \in [Objects -> BOOLEAN]
    /\ pc \in [Ops -> {"idle", "prepare", "connect", "configure", "using", "release"}]
    /\ lease \in [Ops -> [id : Ids, entry : Objects] \cup {NoLease}]
    /\ physical \in [Ops -> BOOLEAN]
    /\ closer \in [Closers -> {"idle", "waiting", "timeout", "ok"}]

(* The counters count: the runtime's number is the number of operations    *)
(* that hold a lease, and an entry's is the number of leases on it, however *)
(* often the entry was detached and replaced under them. And the map holds  *)
(* exactly entries in use: one nobody leases is removed, a leased entry     *)
(* that no Invalidate detached is found again.                             *)
LeasesAreCounted ==
    /\ active = Cardinality(Holders)
    /\ \A e \in Objects : entryActive[e] = Cardinality(LeasesOn(e))
    /\ \A id \in Ids : entries[id] # None =>
          /\ ~detached[entries[id]]
          /\ LeasesOn(entries[id]) # {}
          /\ \A u \in LeasesOn(entries[id]) : lease[u].id = id
    /\ \A u \in Holders : ~detached[lease[u].entry] => entries[lease[u].id] = lease[u].entry

(* When the drain ends, and when Close reports success, no operation holds  *)
(* a physical connection, and none will: every later acquire is refused.   *)
DrainedMeansIdle ==
    drainClosed \/ (\E s \in Closers : closer[s] = "ok") =>
        isClosed /\ \A u \in Ops : ~physical[u] /\ pc[u] = "idle"

(* A connection never outlives the lease that lets Close wait for it.      *)
ConnectionIsLeased == \A u \in Ops : physical[u] => u \in Holders

(* Close is not starved: once the runtime is closed the drain ends.        *)
DrainEnds == isClosed ~> drainClosed
===========================================================================
