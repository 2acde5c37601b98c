------------------------ MODULE DefinitionFreshness ------------------------
(***************************************************************************)
(* A replaced connection and the clients opened from it: the PostgreSQL    *)
(* opener (PostgresOpener) composed with the definitions it opens          *)
(* (Manager, src/internal/connection/manager.go) and with the registrar    *)
(* that replaces them (replacementRegistrar,                               *)
(* src/internal/app/replacement_registrar.go).                             *)
(*                                                                         *)
(* The registrar first replaces the definition and then, holding no lock,  *)
(* invalidates the runtimes of the kinds concerned; attempts look the      *)
(* definition up in between, before or after, and several imports replace  *)
(* definitions at once.  Definitions are versions, numbered in the order   *)
(* Manager.Register takes its lock.  Close is left to PostgresOpener: a     *)
(* closed opener serves nothing.                                            *)
(***************************************************************************)
EXTENDS PostgresOpener

CONSTANTS Registrars,  \* requests that register a definition
          MaxVersions  \* bound: registrations in one behaviour

ASSUME FreshnessAssumption ==
    /\ MaxVersions \in Nat /\ MaxVersions <= MaxGeneration
    /\ None \notin Ids

Kinds == {"postgres", "other"}
NoDefinition == [version |-> 0, kind |-> "other"]

VARIABLES
    registered,  \* Manager.definitions
    versions,    \* number of registrations so far
    found,       \* what Manager.Lookup gave to an attempt's Prepare
    looked,      \* the attempts that have looked their definition up
    registrar,   \* the id a registrar still has to invalidate
    settled,     \* history: the definition of each id when last no invalidation of it was due
    promised     \* history: settled[id] when the caller called Open

managerVars == <<registered, versions, found, looked>>
registrarVars == <<registrar, settled>>
freshVars == <<vars, managerVars, registrarVars, promised>>

FreshInit ==
    /\ Init
    /\ registered = [id \in Ids |-> NoDefinition]
    /\ versions = 0
    /\ found = [a \in Attempt |-> NoDefinition]
    /\ looked = {}
    /\ registrar = [r \in Registrars |-> None]
    /\ settled = [id \in Ids |-> 0]
    /\ promised = [c \in Callers |-> 0]
---------------------------------------------------------------------------
\* Mutant: only a definition of another kind invalidates the runtimes.
BugInvalidates(previous, kind) ==
    \/ previous = NoDefinition /\ kind = "postgres"
    \/ previous # NoDefinition /\ previous.kind # kind

\* replacementRegistrar.Register, after the manager answered: is this runtime
\* one of those to invalidate?  Never twice.
Invalidates(previous, kind) ==
    \/ previous # NoDefinition /\ previous.kind = "postgres"
    \/ (previous = NoDefinition \/ previous.kind # kind) /\ kind = "postgres"

\* Registrars other than r that have an invalidation of an id before them.
Due(r, id) == {other \in Registrars \ {r} : registrar[other] = id}

\* Manager.Register, under its lock.
Register(r, id, kind) ==
    /\ registrar[r] = None
    /\ versions < MaxVersions
    /\ versions' = versions + 1
    /\ registered' = [registered EXCEPT ![id] = [version |-> versions', kind |-> kind]]
    /\ IF Invalidates(registered[id], kind)
       THEN /\ registrar' = [registrar EXCEPT ![r] = id]
            /\ UNCHANGED settled
       ELSE /\ settled' = [settled EXCEPT ![id] = IF Due(r, id) = {} THEN versions' ELSE @]
            /\ UNCHANGED registrar
    /\ UNCHANGED <<vars, found, looked, promised>>

\* replacementRegistrar.invalidate, after which Register and the import return.
InvalidateRuntime(r) ==
    LET id == registrar[r] IN
    /\ registrar[r] # None
    /\ Invalidate(id)
    /\ settled' = [settled EXCEPT ![id] = IF Due(r, id) = {} THEN registered[id].version ELSE @]
    /\ registrar' = [registrar EXCEPT ![r] = None]
    /\ UNCHANGED <<managerVars, promised>>

\* Manager.Prepare: the definition is looked up under the read lock ...
Lookup(a) ==
    /\ pc[a] = "prepare"
    /\ a \notin looked
    /\ found' = [found EXCEPT ![a] = registered[target[a]]]
    /\ looked' = looked \cup {a}
    /\ UNCHANGED <<vars, registered, versions, registrarVars, promised>>

\* ... and its secrets are resolved after it was let go, which may fail.
Resolve(a) ==
    /\ a \in looked
    /\ Prepare(a)
    /\ pc'[a] = "create" => found[a].kind = "postgres" /\ found[a] # NoDefinition
    /\ outcome'[a] = "unsupported" => found[a].kind # "postgres" /\ found[a] # NoDefinition
    /\ outcome'[a] = "notfound" => found[a] = NoDefinition
    /\ UNCHANGED <<managerVars, registrarVars, promised>>

\* The timer of the attempt is left out: an attempt may fail without it.
OpenAttempt(a) ==
    /\ CreatePool(a) \/ Ping(a) \/ Verify(a) \/ DiscardPool(a) \/ finishAttempt(a)
       \/ CloseStale(a) \/ EndAttempt(a) \/ PoolClosed(a)
    /\ UNCHANGED <<managerVars, registrarVars, promised>>

Open(c, id) ==
    /\ OpenCached(c, id) \/ OpenJoin(c, id) \/ OpenStart(c, id)
    /\ promised' = [promised EXCEPT ![c] = settled[id]]
    /\ UNCHANGED <<managerVars, registrarVars>>

\* What a caller does with a connection of its client makes no difference here.
UseRuntime(c) ==
    /\ WaitDone(c) \/ WaitCancelled(c) \/ CancelCall(c) \/ Release(c)
    /\ UNCHANGED <<managerVars, registrarVars, promised>>
---------------------------------------------------------------------------
FreshNext ==
    \/ \E r \in Registrars :
          InvalidateRuntime(r) \/ \E id \in Ids, kind \in Kinds : Register(r, id, kind)
    \/ \E a \in Attempt : Lookup(a) \/ Resolve(a) \/ OpenAttempt(a)
    \/ \E c \in Callers : UseRuntime(c) \/ \E id \in Ids : Open(c, id)

FreshSpec == FreshInit /\ [][FreshNext]_freshVars
---------------------------------------------------------------------------
(* Once every registrar of an id has invalidated it, the client cached for *)
(* the id was opened from the definition that is registered: no attempt    *)
(* that looked up an older one can put its client into the cache.          *)
CachedDefinitionIsRegistered ==
    \A id \in Ids :
        LET k == entries[id].client IN
        k # None /\ (\A r \in Registrars : registrar[r] # id) => found[k] = registered[id]

(* A call of Open that starts when the imports of its id have returned is  *)
(* never given a client of a definition they replaced, whatever openings   *)
(* they overlapped and whatever is imported meanwhile.                     *)
ImportedDefinitionIsUsed ==
    \A c \in Callers : reply[c] = "client" =>
        found[request[c].attempt].version >= promised[c]
===========================================================================
