-------------------------- MODULE ConnectionImport --------------------------
(***************************************************************************)
(* Importing a connection: Importer.Import of                              *)
(* src/internal/connection/importer.go, together with the three places it  *)
(* writes to: the encrypted secret store (secret/local/store.go), the      *)
(* definition file (connection/filestore/store.go) and the definitions the *)
(* running process serves (connection/manager.go).                         *)
(*                                                                         *)
(* Both stores keep a snapshot in memory and replace the file on disk      *)
(* through atomicfile.Replace; a restart reads the files back.  Import     *)
(* holds no lock: it stores the new secret, looks up the definition it     *)
(* replaces, upserts the new definition, registers it with the manager and *)
(* deletes the old secret, under the context of the request, which may be  *)
(* cancelled at any moment.                                                *)
(*                                                                         *)
(* Every adapter parses a connection string into exactly one secret (the   *)
(* password, or the path of a SQLite file), and every stored secret gets a *)
(* fresh random reference: a definition is identified by its reference.    *)
(***************************************************************************)
EXTENDS Naturals, FiniteSets

CONSTANTS Ids,         \* database ids
          Importers,   \* requests to the administration socket, one at a time each
          MaxSecrets,  \* bound: secrets stored in one behaviour
          Outcomes     \* what atomicfile.Replace may do: see Writes below

ASSUME ImportAssumption ==
    /\ MaxSecrets \in Nat
    /\ Outcomes \subseteq {"ok", "unchanged", "replaced"}

Reference == 1..MaxSecrets
None == 0

VARIABLES
    stored,       \* number of references handed out
    memSecrets,   \* secret store: entries in memory
    diskSecrets,  \* and on disk
    memDefs,      \* filestore: definitions in memory
    diskDefs,     \* and on disk
    served,       \* Manager.definitions
    pc,           \* where each request is in Import
    ctx,          \* its context
    id,           \* the id it imports
    new,          \* the reference of the definition it is importing
    old,          \* the reference of the definition it found
    overlapped,   \* history: ids that were imported by two requests at once
    excused       \* history: references whose deletion failed or was cut off

stores     == <<stored, memSecrets, diskSecrets, memDefs, diskDefs, served>>
importVars == <<pc, ctx, id, new, old>>
history    == <<overlapped, excused>>
vars == <<stores, importVars, history>>

\* Importers at work on an id.
Importing(d) == {i \in Importers : pc[i] # "idle" /\ id[i] = d}

Init ==
    /\ stored = 0
    /\ memSecrets = {}
    /\ diskSecrets = {}
    /\ memDefs = [d \in Ids |-> None]
    /\ diskDefs = [d \in Ids |-> None]
    /\ served = [d \in Ids |-> None]
    /\ pc = [i \in Importers |-> "idle"]
    /\ ctx = [i \in Importers |-> "live"]
    /\ id \in [Importers -> Ids]  \* of no meaning before a request arrives
    /\ new = [i \in Importers |-> None]
    /\ old = [i \in Importers |-> None]
    /\ overlapped = {}
    /\ excused = {}
---------------------------------------------------------------------------
(***************************************************************************)
(* atomicfile.Replace writes a temporary file, renames it over the old one *)
(* and syncs the directory.  It succeeds, fails before the rename and      *)
(* leaves the file alone, or fails after it: the caller is told of an      *)
(* error, and the file on disk is the new one.  The stores replace their   *)
(* snapshot in memory only when it succeeds.                               *)
(***************************************************************************)
WriteSecrets(entries, outcome) ==
    /\ memSecrets' = IF outcome = "ok" THEN entries ELSE memSecrets
    /\ diskSecrets' = IF outcome = "unchanged" THEN diskSecrets ELSE entries

WriteDefs(definitions, outcome) ==
    /\ memDefs' = IF outcome = "ok" THEN definitions ELSE memDefs
    /\ diskDefs' = IF outcome = "unchanged" THEN diskDefs ELSE definitions

Goto(i, next) == pc' = [pc EXCEPT ![i] = next]

\* A request arrives; its identity and connection string are valid.
Start(i, d) ==
    /\ pc[i] = "idle"
    /\ stored < MaxSecrets
    /\ Goto(i, "store")
    /\ ctx' = [ctx EXCEPT ![i] = "live"]
    /\ id' = [id EXCEPT ![i] = d]
    /\ new' = [new EXCEPT ![i] = None]
    /\ old' = [old EXCEPT ![i] = None]
    /\ overlapped' = IF Importing(d) = {} THEN overlapped ELSE overlapped \cup {d}
    /\ UNCHANGED <<stores, excused>>

\* The client of the request goes away.
Cancel(i) ==
    /\ pc[i] # "idle"
    /\ ctx[i] = "live"
    /\ ctx' = [ctx EXCEPT ![i] = "cancelled"]
    /\ UNCHANGED <<stores, pc, id, new, old, history>>

\* Mutant: the import goes on after a failed write of the secret.
BugStoreSecret(i) ==
    /\ pc[i] = "store"
    /\ stored < MaxSecrets
    /\ stored' = stored + 1
    /\ \E outcome \in Outcomes :
          /\ WriteSecrets(memSecrets \cup {stored'}, outcome)
          /\ new' = [new EXCEPT ![i] = IF outcome = "ok" THEN stored' ELSE None]
    /\ Goto(i, "lookup")
    /\ UNCHANGED <<memDefs, diskDefs, served, ctx, id, old, history>>

\* secrets.Store: a cancelled context or a failed write ends the import, and no
\* reference is known that could be deleted.
StoreSecret(i) ==
    /\ pc[i] = "store"
    /\ \/ /\ ctx[i] = "cancelled"
          /\ Goto(i, "idle")
          /\ UNCHANGED <<stored, memSecrets, diskSecrets, new>>
       \/ /\ ctx[i] = "live"
          /\ stored < MaxSecrets
          /\ stored' = stored + 1
          /\ \E outcome \in Outcomes :
                /\ WriteSecrets(memSecrets \cup {stored'}, outcome)
                /\ Goto(i, IF outcome = "ok" THEN "lookup" ELSE "idle")
                /\ new' = [new EXCEPT ![i] = IF outcome = "ok" THEN stored' ELSE None]
    /\ UNCHANGED <<memDefs, diskDefs, served, ctx, id, old, history>>

\* existingDefinition: the definition found, none, or an error.
LookupExisting(i) ==
    /\ pc[i] = "lookup"
    /\ \/ /\ ctx[i] = "cancelled"
          /\ Goto(i, "deleteNew")
          /\ UNCHANGED old
       \/ /\ ctx[i] = "live"
          /\ Goto(i, "upsert")
          /\ old' = [old EXCEPT ![i] = memDefs[id[i]]]
    /\ UNCHANGED <<stores, ctx, id, new, history>>

\* Mutant: the error of a failed write is lost.
BugUpsert(i) ==
    /\ pc[i] = "upsert"
    /\ \/ /\ ctx[i] = "cancelled"
          /\ Goto(i, "deleteNew")
          /\ UNCHANGED <<memDefs, diskDefs>>
       \/ /\ ctx[i] = "live"
          /\ \E outcome \in Outcomes :
                WriteDefs([memDefs EXCEPT ![id[i]] = new[i]], outcome)
          /\ Goto(i, "register")
    /\ UNCHANGED <<stored, memSecrets, diskSecrets, served, ctx, id, new, old, history>>

\* Mutant: nothing is cleaned up after a failed upsert.
BugUpsertLeaks(i) ==
    /\ pc[i] = "upsert"
    /\ ctx[i] = "live"
    /\ \E outcome \in Outcomes :
          /\ WriteDefs([memDefs EXCEPT ![id[i]] = new[i]], outcome)
          /\ Goto(i, IF outcome = "ok" THEN "register" ELSE "idle")
    /\ UNCHANGED <<stored, memSecrets, diskSecrets, served, ctx, id, new, old, history>>

\* definitions.Upsert: the lock is held from the copy to the write.
Upsert(i) ==
    /\ pc[i] = "upsert"
    /\ \/ /\ ctx[i] = "cancelled"
          /\ Goto(i, "deleteNew")
          /\ UNCHANGED <<memDefs, diskDefs>>
       \/ /\ ctx[i] = "live"
          /\ \E outcome \in Outcomes :
                /\ WriteDefs([memDefs EXCEPT ![id[i]] = new[i]], outcome)
                /\ Goto(i, IF outcome = "ok" THEN "register" ELSE "deleteNew")
    /\ UNCHANGED <<stored, memSecrets, diskSecrets, served, ctx, id, new, old, history>>

\* registrar.Register cannot fail for a definition that was validated.
Register(i) ==
    /\ pc[i] = "register"
    /\ served' = [served EXCEPT ![id[i]] = new[i]]
    /\ Goto(i, IF old[i] = None THEN "idle" ELSE "deleteOld")
    /\ UNCHANGED <<stored, memSecrets, diskSecrets, memDefs, diskDefs, ctx, id, new, old, history>>

\* secrets.Delete under the context of the request: an unknown reference, a
\* cancelled context and a failed write leave the entry where it is.
DeleteSecret(i, ref) ==
    /\ Goto(i, "idle")
    /\ \/ /\ ctx[i] = "live" /\ ref \in memSecrets
          /\ \E outcome \in Outcomes :
                /\ WriteSecrets(memSecrets \ {ref}, outcome)
                /\ excused' = IF outcome = "ok" THEN excused ELSE excused \cup {ref}
       \/ /\ ctx[i] = "cancelled" \/ ref \notin memSecrets
          /\ excused' = excused \cup {ref}
          /\ UNCHANGED <<memSecrets, diskSecrets>>
    /\ UNCHANGED <<stored, memDefs, diskDefs, served, ctx, id, new, old, overlapped>>

\* deleteOld and deleteNew: the one reference the definition has; what a
\* failure costs is a secret nobody refers to.
DeleteOld(i) == pc[i] = "deleteOld" /\ DeleteSecret(i, old[i])
DeleteNew(i) == pc[i] = "deleteNew" /\ DeleteSecret(i, new[i])

\* The process stops between two steps and is started again: both stores are
\* opened from their files, and the manager is built from the definitions.
Restart ==
    /\ memSecrets' = diskSecrets
    /\ memDefs' = diskDefs
    /\ served' = diskDefs
    /\ pc' = [i \in Importers |-> "idle"]
    /\ overlapped' = {}
    /\ excused' = excused \cup {s \in diskSecrets : \A d \in Ids : diskDefs[d] # s}
    /\ UNCHANGED <<stored, diskSecrets, diskDefs, ctx, id, new, old>>
---------------------------------------------------------------------------
\* Mutant: the old secret is deleted before the new definition is registered.
BugImportStep(i) ==
    \/ StoreSecret(i) \/ LookupExisting(i) \/ Upsert(i) \/ DeleteNew(i)
    \/ /\ pc[i] = "register" /\ old[i] # None /\ old[i] \in memSecrets
       /\ WriteSecrets(memSecrets \ {old[i]}, "ok")
       /\ UNCHANGED <<stored, memDefs, diskDefs, served, importVars, history>>
    \/ Register(i)

ImportStep(i) ==
    \/ StoreSecret(i) \/ LookupExisting(i) \/ Upsert(i) \/ Register(i)
    \/ DeleteOld(i) \/ DeleteNew(i)

Next ==
    \/ \E i \in Importers : ImportStep(i) \/ Cancel(i) \/ \E d \in Ids : Start(i, d)
    \/ Restart

Spec == Init /\ [][Next]_vars
---------------------------------------------------------------------------
TypeOK ==
    /\ stored \in 0..MaxSecrets
    /\ memSecrets \subseteq Reference
    /\ diskSecrets \subseteq Reference
    /\ memDefs \in [Ids -> Reference \cup {None}]
    /\ diskDefs \in [Ids -> Reference \cup {None}]
    /\ served \in [Ids -> Reference \cup {None}]
    /\ pc \in [Importers -> {"idle", "store", "lookup", "upsert", "register",
                             "deleteOld", "deleteNew"}]
    /\ ctx \in [Importers -> {"live", "cancelled"}]
    /\ id \in [Importers -> Ids]
    /\ new \in [Importers -> Reference \cup {None}]
    /\ old \in [Importers -> Reference \cup {None}]
    /\ overlapped \subseteq Ids
    /\ excused \subseteq Reference

(* Whatever the process is doing when it stops, and however many imports   *)
(* are at work, the definitions on disk refer to secrets that are on disk: *)
(* what a restart loads can be prepared.                                   *)
StoredDefinitionsResolve == \A d \in Ids : diskDefs[d] # None => diskDefs[d] \in diskSecrets

(* The definitions being served refer to secrets the store still has.      *)
ServedDefinitionsResolve == \A d \in Ids : served[d] # None => served[d] \in memSecrets

(* When no import of an id is at work, the process serves what a restart   *)
(* would serve, unless two imports of the id ran at the same time.         *)
ServedIsStored ==
    \A d \in Ids \ overlapped : Importing(d) = {} => served[d] = diskDefs[d] /\ served[d] = memDefs[d]

(* And what it serves can be prepared, at every step of such an import.    *)
ServedResolvesUnlessOverlapped ==
    \A d \in Ids \ overlapped : served[d] # None => served[d] \in memSecrets

(* No secret is left behind: one that no definition refers to belongs to an *)
(* import at work, or could not be deleted, or two imports overlapped.     *)
NoOrphans ==
    overlapped = {} => \A s \in memSecrets \ excused :
        \/ \E d \in Ids : memDefs[d] = s
        \/ \E i \in Importers : pc[i] # "idle" /\ s \in {new[i], old[i]}

(* A write that fails leaves the snapshots in memory and on disk alone, so  *)
(* that they never differ.                                                  *)
FailedWritesPreserveSnapshots == memSecrets = diskSecrets /\ memDefs = diskDefs
=============================================================================
