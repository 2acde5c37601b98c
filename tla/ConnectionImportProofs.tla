----------------------- MODULE ConnectionImportProofs -----------------------
(***************************************************************************)
(* Proofs about ConnectionImport, for every set of ids and importers and   *)
(* any number of secrets, when a write that is reported as failed left its *)
(* file alone.                                                             *)
(*                                                                         *)
(* The invariant says whose a reference is (RefsOf), what an import knows  *)
(* of its new and its old one at each of its steps (StepInv), and how what *)
(* is served follows what is stored while imports of an id do not overlap  *)
(* (QuietInv).                                                             *)
(***************************************************************************)
EXTENDS ConnectionImport, TLAPS

\* The references an id has to do with: its definition, what is served of it, and
\* those of the imports at work on it.
RefsOf(d) ==
    {s \in Reference : \/ s = memDefs[d] \/ s = served[d]
                       \/ \E i \in Importing(d) : s = new[i] \/ s = old[i]}

\* References are handed out once, and to one id.
RefInv ==
    /\ memSecrets \subseteq 1..stored
    /\ \A d \in Ids : RefsOf(d) \subseteq 1..stored
    /\ \A d, e \in Ids : d # e => RefsOf(d) \cap RefsOf(e) = {}

Unused(i) == pc[i] \in {"lookup", "upsert", "deleteNew"}

StepInv ==
    /\ \A i \in Importers :
          /\ pc[i] = "store" => new[i] = None
          /\ pc[i] \in {"store", "lookup"} => old[i] = None
          /\ pc[i] \notin {"idle", "store"} => new[i] # None
          /\ pc[i] = "deleteOld" => old[i] # None
          /\ pc[i] \in {"lookup", "upsert"} => new[i] \in memSecrets
          /\ Unused(i) => \A d \in Ids : memDefs[d] # new[i] /\ served[d] # new[i]
          /\ pc[i] \in {"register", "deleteOld"} /\ old[i] # None =>
                \A d \in Ids : memDefs[d] # old[i]
    /\ \A i, j \in Importers : pc[i] \notin {"idle", "store"} /\ pc[j] # "idle" =>
          /\ i # j => new[j] # new[i]
          /\ Unused(i) => old[j] # new[i]

\* An id that is imported by one request at a time.
QuietInv ==
    \A d \in Ids \ overlapped :
        /\ \A i, j \in Importing(d) : i = j
        /\ Importing(d) = {} => served[d] = memDefs[d]
        /\ \A i \in Importing(d) :
              /\ pc[i] \in {"store", "lookup", "upsert", "deleteNew"} => served[d] = memDefs[d]
              /\ pc[i] = "upsert" => old[i] = memDefs[d]
              /\ pc[i] = "deleteNew" => old[i] \in {None, memDefs[d]}
              /\ pc[i] = "register" => served[d] = old[i] /\ memDefs[d] = new[i]
              /\ pc[i] = "deleteOld" => served[d] = new[i] /\ memDefs[d] = new[i]
        /\ served[d] # None => served[d] \in memSecrets

IInv ==
    /\ TypeOK
    /\ FailedWritesPreserveSnapshots
    /\ StoredDefinitionsResolve
    /\ RefInv
    /\ StepInv
    /\ QuietInv
    /\ NoOrphans
---------------------------------------------------------------------------
\* No write that is reported as failed has replaced its file.
CleanWrites == "replaced" \notin Outcomes

(***************************************************************************)
(* What each step does when writes are clean: both copies of a store stay  *)
(* the same.                                                               *)
(***************************************************************************)
\* A secret that was stored has the next reference.
LEMMA StoreSecretDoes ==
    ASSUME CleanWrites, IInv, NEW i \in Importers, StoreSecret(i)
    PROVE  /\ pc[i] = "store"
           /\ UNCHANGED <<memDefs, diskDefs, served, ctx, id, old, history>>
           /\ diskSecrets' = memSecrets'
           /\ \/ /\ stored' \in {stored, stored + 1} /\ stored' \in 0..MaxSecrets
                 /\ pc' = [pc EXCEPT ![i] = "idle"]
                 /\ memSecrets' = memSecrets
                 /\ new' \in {new, [new EXCEPT ![i] = None]}
              \/ /\ stored' = stored + 1 /\ stored' \in Reference
                 /\ pc' = [pc EXCEPT ![i] = "lookup"]
                 /\ memSecrets' = memSecrets \cup {stored'}
                 /\ new' = [new EXCEPT ![i] = stored']
  <1>1. CASE pc[i] = "store" /\ ctx[i] = "cancelled" /\ Goto(i, "idle") /\ UNCHANGED <<stored,
      memSecrets, diskSecrets, new>>
    BY <1>1 DEF IInv, TypeOK, FailedWritesPreserveSnapshots, StoreSecret, Goto
  <1>2. ASSUME NEW outcome \in Outcomes, stored < MaxSecrets, stored' = stored + 1, pc[i] = "store",
               WriteSecrets(memSecrets \cup {stored'}, outcome),
               Goto(i, IF outcome = "ok" THEN "lookup" ELSE "idle"),
               new' = [new EXCEPT ![i] = IF outcome = "ok" THEN stored' ELSE None]
        PROVE  /\ diskSecrets' = memSecrets'
               /\ \/ /\ pc' = [pc EXCEPT ![i] = "idle"]
                     /\ memSecrets' = memSecrets
                     /\ new' = [new EXCEPT ![i] = None]
                  \/ /\ pc' = [pc EXCEPT ![i] = "lookup"]
                     /\ memSecrets' = memSecrets \cup {stored'}
                     /\ new' = [new EXCEPT ![i] = stored']
    <2>1. outcome \in {"ok", "unchanged"} BY <1>2, ImportAssumption DEF CleanWrites
    <2>2. QED BY <1>2, <2>1 DEF IInv, FailedWritesPreserveSnapshots, WriteSecrets, Goto
  <1>3. stored < MaxSecrets => stored + 1 \in Reference /\ stored + 1 \in 0..MaxSecrets
    BY ImportAssumption DEF IInv, TypeOK, Reference
  <1>4. QED BY <1>1, <1>2, <1>3 DEF StoreSecret

\* The new definition is stored, or nothing is.
LEMMA UpsertDoes ==
    ASSUME CleanWrites, IInv, NEW i \in Importers, Upsert(i)
    PROVE  /\ pc[i] = "upsert"
           /\ UNCHANGED <<stored, memSecrets, diskSecrets, served, ctx, id, new, old, history>>
           /\ diskDefs' = memDefs'
           /\ \/ /\ pc' = [pc EXCEPT ![i] = "deleteNew"]
                 /\ memDefs' = memDefs
              \/ /\ pc' = [pc EXCEPT ![i] = "register"]
                 /\ memDefs' = [memDefs EXCEPT ![id[i]] = new[i]]
  <1>1. ASSUME NEW outcome \in Outcomes, WriteDefs([memDefs EXCEPT ![id[i]] = new[i]], outcome),
               Goto(i, IF outcome = "ok" THEN "register" ELSE "deleteNew")
        PROVE  /\ diskDefs' = memDefs'
               /\ \/ /\ pc' = [pc EXCEPT ![i] = "deleteNew"]
                     /\ memDefs' = memDefs
                  \/ /\ pc' = [pc EXCEPT ![i] = "register"]
                     /\ memDefs' = [memDefs EXCEPT ![id[i]] = new[i]]
    <2>1. outcome \in {"ok", "unchanged"} BY <1>1, ImportAssumption DEF CleanWrites
    <2>2. QED BY <1>1, <2>1 DEF IInv, FailedWritesPreserveSnapshots, WriteDefs, Goto
  <1>2. QED BY <1>1 DEF Upsert, Goto, IInv, FailedWritesPreserveSnapshots

\* The secret is gone, or excused.
LEMMA DeleteDoes ==
    ASSUME CleanWrites, IInv, NEW i \in Importers, NEW ref, DeleteSecret(i, ref)
    PROVE  /\ UNCHANGED <<stored, memDefs, diskDefs, served, ctx, id, new, old, overlapped>>
           /\ pc' = [pc EXCEPT ![i] = "idle"]
           /\ diskSecrets' = memSecrets'
           /\ \/ memSecrets' = memSecrets \ {ref} /\ excused' = excused
              \/ memSecrets' = memSecrets /\ excused' = excused \cup {ref}
  <1>1. ASSUME NEW outcome \in Outcomes, WriteSecrets(memSecrets \ {ref}, outcome),
               excused' = IF outcome = "ok" THEN excused ELSE excused \cup {ref}
        PROVE  /\ diskSecrets' = memSecrets'
               /\ \/ memSecrets' = memSecrets \ {ref} /\ excused' = excused
                  \/ memSecrets' = memSecrets /\ excused' = excused \cup {ref}
    <2>1. outcome \in {"ok", "unchanged"} BY <1>1, ImportAssumption DEF CleanWrites
    <2>2. QED BY <1>1, <2>1 DEF IInv, FailedWritesPreserveSnapshots, WriteSecrets
  <1>2. QED BY <1>1 DEF DeleteSecret, Goto, IInv, FailedWritesPreserveSnapshots
---------------------------------------------------------------------------
\* No definition is told from every reference.
LEMMA NoneIsNoReference == None \notin Reference
  BY ImportAssumption DEF None, Reference

\* What the references of an id mean for its fields.
LEMMA Known ==
    ASSUME IInv
    PROVE  /\ stored \in Nat
           /\ \A d \in Ids : memDefs[d] \in 0..stored /\ served[d] \in 0..stored
           /\ \A i \in Importers : pc[i] # "idle" => new[i] \in 0..stored /\ old[i] \in 0..stored
           /\ \A s \in memSecrets : s \in 1..stored
  <1>1. stored \in Nat BY DEF IInv, TypeOK
  <1>2. ASSUME NEW d \in Ids, NEW s \in Reference \cup {None}, s # None => s \in RefsOf(d)
        PROVE  s \in 0..stored
    BY <1>1, <1>2 DEF IInv, RefInv, None
  <1>3. ASSUME NEW d \in Ids PROVE memDefs[d] \in 0..stored /\ served[d] \in 0..stored
    <2>1. /\ memDefs[d] # None => memDefs[d] \in RefsOf(d)
          /\ served[d] # None => served[d] \in RefsOf(d)
      BY DEF IInv, TypeOK, RefsOf
    <2>2. QED BY <2>1, <1>2 DEF IInv, TypeOK
  <1>4. ASSUME NEW i \in Importers, pc[i] # "idle"
      PROVE new[i] \in 0..stored /\ old[i] \in 0..stored
    <2>1. /\ new[i] # None => new[i] \in RefsOf(id[i])
          /\ old[i] # None => old[i] \in RefsOf(id[i])
      BY <1>4 DEF IInv, TypeOK, RefsOf, Importing
    <2>2. QED BY <2>1, <1>2 DEF IInv, TypeOK
  <1>5. QED BY <1>1, <1>3, <1>4 DEF IInv, RefInv

\* Different ids have nothing in common.
LEMMA Apart ==
    ASSUME IInv, NEW d \in Ids, NEW e \in Ids, d # e
    PROVE  /\ memDefs[d] # None => memDefs[d] # memDefs[e] /\ memDefs[d] # served[e]
           /\ served[d] # None => served[d] # memDefs[e] /\ served[d] # served[e]
           /\ \A i \in Importing(d) :
                 /\ new[i] # None => new[i] # memDefs[e] /\ new[i] # served[e]
                 /\ old[i] # None => old[i] # memDefs[e] /\ old[i] # served[e]
           /\ \A i \in Importing(d) : \A j \in Importing(e) :
                 new[i] # None => new[i] # old[j]
  BY DEF IInv, TypeOK, RefInv, RefsOf, Importing

\* A secret that is deleted is one an import found or stored.
LEMMA Deleting ==
    ASSUME NEW i \in Importers
    PROVE  /\ DeleteOld(i) <=> pc[i] = "deleteOld" /\ DeleteSecret(i, old[i])
           /\ DeleteNew(i) <=> pc[i] = "deleteNew" /\ DeleteSecret(i, new[i])
  BY DEF DeleteOld, DeleteNew

\* Steps of a running process: types.
LEMMA TypesKept ==
    ASSUME CleanWrites, IInv, NEW i \in Importers, NEW d \in Ids,
           Start(i, d) \/ ImportStep(i) \/ Cancel(i)
    PROVE  TypeOK'
  <1> USE DEF IInv
  <1>1. CASE Start(i, d)
    BY <1>1 DEF TypeOK, Start, Goto, stores
  <1>2. CASE Cancel(i)
    BY <1>2 DEF TypeOK, Cancel, stores, history
  <1>3. CASE StoreSecret(i)
    <2>1. new' \in [Importers -> Reference \cup {None}] BY <1>3, StoreSecretDoes DEF TypeOK
    <2>2. pc' \in [Importers -> {"idle", "store", "lookup", "upsert", "register", "deleteOld",
        "deleteNew"}]
      <3>1. CASE pc' = [pc EXCEPT ![i] = "idle"] BY <3>1 DEF TypeOK
      <3>2. CASE pc' = [pc EXCEPT ![i] = "lookup"] BY <3>2 DEF TypeOK
      <3>3. QED BY <1>3, <3>1, <3>2, StoreSecretDoes
    <2>3. stored' \in 0..MaxSecrets /\ memSecrets' \subseteq Reference
      <3>1. CASE memSecrets' = memSecrets /\ stored' \in 0..MaxSecrets BY <3>1 DEF TypeOK
      <3>2. CASE memSecrets' = memSecrets \cup {stored'} /\ stored' \in Reference
        BY <3>2 DEF TypeOK, Reference
      <3>3. QED BY <1>3, <3>1, <3>2, StoreSecretDoes
    <2>4. QED BY <1>3, <2>1, <2>2, <2>3, StoreSecretDoes DEF TypeOK, history
  <1>4. CASE LookupExisting(i)
    BY <1>4 DEF TypeOK, LookupExisting, Goto, stores, history
  <1>5. CASE Upsert(i)
    BY <1>5, UpsertDoes DEF TypeOK, history
  <1>6. CASE Register(i)
    BY <1>6 DEF TypeOK, Register, Goto, history
  <1>7. CASE DeleteOld(i)
    <2>1. old[i] \in Reference BY <1>7, Deleting DEF TypeOK, StepInv
    <2>2. QED BY <1>7, <2>1, Deleting, DeleteDoes DEF TypeOK
  <1>8. CASE DeleteNew(i)
    <2>1. new[i] \in Reference BY <1>8, Deleting DEF TypeOK, StepInv
    <2>2. QED BY <1>8, <2>1, Deleting, DeleteDoes DEF TypeOK
  <1>9. QED BY <1>1, <1>2, <1>3, <1>4, <1>5, <1>6, <1>7, <1>8 DEF ImportStep

\* Memory and disk stay the same.
LEMMA SnapshotsKept ==
    ASSUME CleanWrites, IInv, NEW i \in Importers, NEW d \in Ids,
           Start(i, d) \/ ImportStep(i) \/ Cancel(i)
    PROVE  FailedWritesPreserveSnapshots'
  <1> USE DEF IInv
  <1>1. CASE Start(i, d)
    BY <1>1 DEF FailedWritesPreserveSnapshots, Start, Goto, stores
  <1>2. CASE Cancel(i)
    BY <1>2 DEF FailedWritesPreserveSnapshots, Cancel, stores, history
  <1>3. CASE StoreSecret(i)
    BY <1>3, StoreSecretDoes DEF FailedWritesPreserveSnapshots, history
  <1>4. CASE LookupExisting(i)
    BY <1>4 DEF FailedWritesPreserveSnapshots, LookupExisting, Goto, stores, history
  <1>5. CASE Upsert(i)
    BY <1>5, UpsertDoes DEF FailedWritesPreserveSnapshots, history
  <1>6. CASE Register(i)
    BY <1>6 DEF FailedWritesPreserveSnapshots, Register, Goto, history
  <1>7. CASE DeleteOld(i)
    BY <1>7, DeleteDoes, Deleting DEF FailedWritesPreserveSnapshots
  <1>8. CASE DeleteNew(i)
    BY <1>8, DeleteDoes, Deleting DEF FailedWritesPreserveSnapshots
  <1>9. QED BY <1>1, <1>2, <1>3, <1>4, <1>5, <1>6, <1>7, <1>8 DEF ImportStep

\* An import adds to the references of its id only one that was never used.
LEMMA RefsShrink ==
    ASSUME CleanWrites, IInv, NEW i \in Importers, NEW d \in Ids,
           Start(i, d) \/ ImportStep(i) \/ Cancel(i)
    PROVE  \A e \in Ids :
              RefsOf(e)' \subseteq RefsOf(e) \cup
                                  (IF stored' > stored /\ e = id'[i] THEN {stored'} ELSE {})
  <1> USE DEF IInv
  <1>1. CASE Start(i, d)
    <2>1. ASSUME NEW e \in Ids, NEW j \in Importing(e)', j # i
        PROVE j \in Importing(e) /\ new'[j] = new[j] /\ old'[j] = old[j]
      BY <1>1, <2>1 DEF TypeOK, Importing, Start, Goto
    <2>2. new'[i] \notin Reference /\ old'[i] \notin Reference
      BY <1>1, NoneIsNoReference DEF TypeOK, Start
    <2>3. QED BY <1>1, <2>1, <2>2 DEF RefsOf, Start, stores
  <1>2. CASE Cancel(i)
    BY <1>2 DEF TypeOK, RefsOf, Importing, Cancel, stores, history
  <1>3. CASE StoreSecret(i)
    BY <1>3, StoreSecretDoes DEF TypeOK, RefsOf, Importing, history
  <1>4. CASE LookupExisting(i)
    BY <1>4 DEF TypeOK, RefsOf, Importing, LookupExisting, Goto, stores, history
  <1>5. CASE Upsert(i)
    BY <1>5, UpsertDoes DEF TypeOK, RefsOf, Importing, history
  <1>6. CASE Register(i)
    BY <1>6 DEF TypeOK, RefsOf, Importing, Register, Goto, history
  <1>7. CASE DeleteOld(i)
    BY <1>7, DeleteDoes, Deleting DEF TypeOK, RefsOf, Importing
  <1>8. CASE DeleteNew(i)
    BY <1>8, DeleteDoes, Deleting DEF TypeOK, RefsOf, Importing
  <1>9. QED BY <1>1, <1>2, <1>3, <1>4, <1>5, <1>6, <1>7, <1>8 DEF ImportStep

\* No step deletes a secret a stored definition has, or stores one without its secret.
LEMMA ResolvesKept ==
    ASSUME CleanWrites, IInv, NEW i \in Importers, NEW d \in Ids,
           Start(i, d) \/ ImportStep(i) \/ Cancel(i)
    PROVE  StoredDefinitionsResolve'
  <1> USE DEF IInv
  <1>1. CASE Start(i, d)
    BY <1>1 DEF TypeOK, FailedWritesPreserveSnapshots, StoredDefinitionsResolve, StepInv, Unused,
      Start, Goto, stores
  <1>2. CASE Cancel(i)
    BY <1>2 DEF TypeOK, FailedWritesPreserveSnapshots, StoredDefinitionsResolve, StepInv, Unused,
      Cancel, stores, history
  <1>3. CASE StoreSecret(i)
    BY <1>3, StoreSecretDoes
      DEF TypeOK, FailedWritesPreserveSnapshots, StoredDefinitionsResolve, StepInv, Unused, history
  <1>4. CASE LookupExisting(i)
    BY <1>4 DEF TypeOK, FailedWritesPreserveSnapshots, StoredDefinitionsResolve, StepInv, Unused,
      LookupExisting, Goto, stores, history
  <1>5. CASE Upsert(i)
    BY <1>5, UpsertDoes DEF TypeOK, FailedWritesPreserveSnapshots, StoredDefinitionsResolve,
      StepInv, Unused, history
  <1>6. CASE Register(i)
    BY <1>6 DEF TypeOK, FailedWritesPreserveSnapshots, StoredDefinitionsResolve, StepInv, Unused,
      Register, Goto, history
  <1>7. CASE DeleteOld(i)
    BY <1>7, DeleteDoes, Deleting
      DEF TypeOK, FailedWritesPreserveSnapshots, StoredDefinitionsResolve, StepInv, Unused
  <1>8. CASE DeleteNew(i)
    BY <1>8, DeleteDoes, Deleting
      DEF TypeOK, FailedWritesPreserveSnapshots, StoredDefinitionsResolve, StepInv, Unused
  <1>9. QED BY <1>1, <1>2, <1>3, <1>4, <1>5, <1>6, <1>7, <1>8 DEF ImportStep

\* What an import knows of its two references.
LEMMA StepsKept ==
    ASSUME CleanWrites, IInv, NEW i \in Importers, NEW d \in Ids,
           Start(i, d) \/ ImportStep(i) \/ Cancel(i)
    PROVE  StepInv'
  <1> USE DEF IInv
  <1>1. CASE Start(i, d)
    BY <1>1 DEF TypeOK, StepInv, Unused, Start, Goto, stores
  <1>2. CASE Cancel(i)
    BY <1>2 DEF TypeOK, StepInv, Unused, Cancel, stores, history
  <1>3. CASE StoreSecret(i)
    BY <1>3, Known, StoreSecretDoes DEF TypeOK, StepInv, Unused, history
  <1>4. CASE LookupExisting(i)
    BY <1>4 DEF TypeOK, StepInv, Unused, LookupExisting, Goto, stores, history
  <1>5. CASE Upsert(i)
    <2>1. CASE pc' = [pc EXCEPT ![i] = "deleteNew"] /\ memDefs' = memDefs
      <3>1. UNCHANGED <<memSecrets, served, id, new, old>> /\ pc[i] = "upsert" BY <1>5, UpsertDoes
      <3>2. \A j \in Importers : pc'[j] = IF j = i THEN "deleteNew" ELSE pc[j] BY <2>1 DEF TypeOK
      <3>3. QED BY <2>1, <3>1, <3>2 DEF StepInv, Unused
    <2>2. CASE pc' = [pc EXCEPT ![i] = "register"] /\ memDefs' = [memDefs EXCEPT ![id[i]] = new[i]]
      <3>1. UNCHANGED <<memSecrets, served, id, new, old>> /\ pc[i] = "upsert" BY <1>5, UpsertDoes
      <3>2. old[i] # None => \A e \in Ids : e # id[i] => memDefs[e] # old[i]
        BY <3>1, Apart DEF TypeOK, Importing
      <3>3. old[i] # new[i] /\ new[i] # None BY <3>1 DEF StepInv, Unused
      <3>4. old[i] # None => \A e \in Ids : memDefs'[e] # old[i]
        BY <2>2, <3>2, <3>3 DEF TypeOK
      <3>5. ASSUME NEW j \in Importers, j # i, pc[j] # "idle"
          PROVE old[j] # new[i] /\ new[j] # new[i]
        BY <3>1, <3>5 DEF StepInv, Unused
      <3>6. ASSUME NEW j \in Importers, j # i, pc[j] # "idle", NEW e \in Ids
            PROVE  memDefs'[e] \in {memDefs[e], new[i]}
        BY <2>2 DEF TypeOK
      <3>7. QED BY <2>2, <3>1, <3>3, <3>4, <3>5, <3>6 DEF TypeOK, StepInv, Unused
    <2>3. QED BY <1>5, <2>1, <2>2, UpsertDoes
  <1>6. CASE Register(i)
    BY <1>6 DEF TypeOK, StepInv, Unused, Register, Goto, history
  <1>7. CASE DeleteOld(i)
    BY <1>7, DeleteDoes, Deleting DEF TypeOK, StepInv, Unused
  <1>8. CASE DeleteNew(i)
    BY <1>8, DeleteDoes, Deleting DEF TypeOK, StepInv, Unused
  <1>9. QED BY <1>1, <1>2, <1>3, <1>4, <1>5, <1>6, <1>7, <1>8 DEF ImportStep

\* What is served follows what is stored.
LEMMA QuietKept ==
    ASSUME CleanWrites, IInv, NEW i \in Importers, NEW d \in Ids,
           Start(i, d) \/ ImportStep(i) \/ Cancel(i)
    PROVE  QuietInv'
  <1> USE DEF IInv
  <1>1. CASE Start(i, d)
    BY <1>1 DEF TypeOK, QuietInv, StepInv, Unused, Importing, Start, Goto, stores
  <1>2. CASE Cancel(i)
    BY <1>2 DEF TypeOK, QuietInv, StepInv, Unused, Importing, Cancel, stores, history
  <1>3. CASE StoreSecret(i)
    BY <1>3, Known, StoreSecretDoes DEF TypeOK, QuietInv, StepInv, Unused, Importing, history
  <1>4. CASE LookupExisting(i)
    BY <1>4 DEF TypeOK, QuietInv, StepInv, Unused, Importing, LookupExisting, Goto, stores, history
  <1>5. CASE Upsert(i)
    <2>1. UNCHANGED <<memSecrets, served, id, new, old, overlapped>> /\ pc[i] = "upsert"
      BY <1>5, UpsertDoes DEF history
    <2>2. \A e \in Ids : Importing(e)' = Importing(e)
      BY <1>5, <2>1, UpsertDoes DEF TypeOK, Importing
    <2>3. CASE pc' = [pc EXCEPT ![i] = "deleteNew"] /\ memDefs' = memDefs
      BY <2>1, <2>2, <2>3 DEF TypeOK, QuietInv, Importing
    <2>4. CASE pc' = [pc EXCEPT ![i] = "register"] /\ memDefs' = [memDefs EXCEPT ![id[i]] = new[i]]
      BY <2>1, <2>2, <2>4 DEF TypeOK, QuietInv, Importing
    <2>5. QED BY <1>5, <2>3, <2>4, UpsertDoes
  <1>6. CASE Register(i)
    <2>1. pc[i] = "register" /\ served' = [served EXCEPT ![id[i]] = new[i]]
      BY <1>6 DEF Register
    <2>2. UNCHANGED <<memSecrets, memDefs, id, new, old, overlapped>> BY <1>6 DEF Register, history
    <2>3. pc' = [pc EXCEPT ![i] = IF old[i] = None THEN "idle" ELSE "deleteOld"]
      BY <1>6 DEF Register, Goto
    <2>4. ASSUME NEW e \in Ids \ overlapped, e # id[i]
        PROVE Importing(e)' = Importing(e) /\ served'[e] = served[e]
      BY <2>1, <2>2, <2>3, <2>4 DEF TypeOK, Importing
    <2>5. id[i] \notin overlapped =>
            new[i] = memDefs[id[i]] /\ new[i] # None /\ new[i] \in memSecrets
      BY <2>1 DEF TypeOK, QuietInv, Importing, StepInv, StoredDefinitionsResolve,
        FailedWritesPreserveSnapshots
    <2>6. ASSUME id[i] \notin overlapped PROVE \A j \in Importing(id[i]) : j = i
      BY <2>1, <2>6 DEF TypeOK, QuietInv, Importing
    <2>7. QED BY <2>1, <2>2, <2>3, <2>4, <2>5, <2>6 DEF TypeOK, QuietInv, Importing
  <1>7. CASE DeleteOld(i)
    <2>1. UNCHANGED <<memDefs, served, id, new, old, overlapped>> /\ pc[i] = "deleteOld"
          /\ pc' = [pc EXCEPT ![i] = "idle"] /\ memSecrets \ {old[i]} \subseteq memSecrets'
      BY <1>7, Deleting, DeleteDoes
    <2>2. \A e \in Ids : Importing(e)' = Importing(e) \ {i} BY <2>1 DEF TypeOK, Importing
    <2>3. ASSUME NEW e \in Ids \ overlapped PROVE served[e] # old[i]
      <3>1. old[i] # None BY <2>1 DEF StepInv
      <3>2. CASE e = id[i] BY <2>1, <3>1, <3>2 DEF TypeOK, StepInv, QuietInv, Importing
      <3>3. CASE e # id[i] BY <2>1, <3>1, <3>3, Apart DEF TypeOK, Importing
      <3>4. QED BY <3>2, <3>3
    <2>4. QED BY <2>1, <2>2, <2>3 DEF TypeOK, QuietInv, Importing
  <1>8. CASE DeleteNew(i)
    BY <1>8, DeleteDoes, Deleting DEF TypeOK, QuietInv, StepInv, Unused, Importing
  <1>9. QED BY <1>1, <1>2, <1>3, <1>4, <1>5, <1>6, <1>7, <1>8 DEF ImportStep

\* Secrets are referred to, or excused.
LEMMA OrphansKept ==
    ASSUME CleanWrites, IInv, NEW i \in Importers, NEW d \in Ids,
           Start(i, d) \/ ImportStep(i) \/ Cancel(i)
    PROVE  NoOrphans'
  <1> USE DEF IInv
  <1>1. CASE Start(i, d)
    BY <1>1 DEF TypeOK, NoOrphans, QuietInv, StepInv, Importing, Start, Goto, stores
  <1>2. CASE Cancel(i)
    BY <1>2 DEF TypeOK, NoOrphans, QuietInv, StepInv, Importing, Cancel, stores, history
  <1>3. CASE StoreSecret(i)
    <2>1. CASE /\ pc' = [pc EXCEPT ![i] = "idle"] /\ memSecrets' = memSecrets
               /\ new' \in {new, [new EXCEPT ![i] = None]}
      <3>1. pc[i] = "store" /\ UNCHANGED <<memDefs, old, history>> BY <1>3, StoreSecretDoes
      <3>2. new[i] \notin memSecrets /\ old[i] \notin memSecrets
        BY <3>1, NoneIsNoReference DEF TypeOK, StepInv
      <3>3. QED BY <2>1, <3>1, <3>2 DEF TypeOK, NoOrphans, history
    <2>2. CASE /\ pc' = [pc EXCEPT ![i] = "lookup"] /\ memSecrets' = memSecrets \cup {stored'}
               /\ new' = [new EXCEPT ![i] = stored']
      <3>1. pc[i] = "store" /\ UNCHANGED <<memDefs, old, history>> BY <1>3, StoreSecretDoes
      <3>2. new[i] \notin memSecrets BY <3>1, NoneIsNoReference DEF TypeOK, StepInv
      <3>3. QED BY <2>2, <3>1, <3>2 DEF TypeOK, NoOrphans, history
    <2>3. QED BY <1>3, <2>1, <2>2, StoreSecretDoes
  <1>4. CASE LookupExisting(i)
    <2>1. /\ pc[i] = "lookup" /\ pc'[i] # "idle"
          /\ \A j \in Importers : j # i => pc'[j] = pc[j] /\ old'[j] = old[j]
          /\ UNCHANGED <<memSecrets, memDefs, new, history>>
      BY <1>4 DEF TypeOK, LookupExisting, Goto, stores
    <2>2. old[i] \notin memSecrets BY <2>1, NoneIsNoReference DEF TypeOK, StepInv
    <2>3. QED BY <2>1, <2>2 DEF TypeOK, NoOrphans, history
  <1>5. CASE Upsert(i)
    BY <1>5, UpsertDoes DEF TypeOK, NoOrphans, QuietInv, StepInv, Importing, history
  <1>6. CASE Register(i)
    <2>1. pc[i] = "register" /\ UNCHANGED <<memSecrets, memDefs, id, new, old, history>> BY <1>6
        DEF Register
    <2>2. pc' = [pc EXCEPT ![i] = IF old[i] = None THEN "idle" ELSE "deleteOld"]
      BY <1>6 DEF Register, Goto
    <2>3. overlapped = {} => new[i] = memDefs[id[i]]
      BY <2>1 DEF TypeOK, QuietInv, Importing
    <2>4. None \notin memSecrets BY NoneIsNoReference DEF TypeOK
    <2>5. QED BY <2>1, <2>2, <2>3, <2>4 DEF TypeOK, NoOrphans, history
  <1>7. CASE DeleteOld(i)
    <2>1. /\ pc[i] = "deleteOld" /\ UNCHANGED <<memDefs, id, new, old, overlapped>>
          /\ pc' = [pc EXCEPT ![i] = "idle"]
          /\ memSecrets' \ excused' \subseteq (memSecrets \ excused) \ {old[i]}
      BY <1>7, Deleting, DeleteDoes
    <2>2. overlapped = {} => new[i] = memDefs[id[i]]
      BY <2>1 DEF TypeOK, QuietInv, Importing
    <2>3. None \notin memSecrets BY NoneIsNoReference DEF TypeOK
    <2>4. QED BY <2>1, <2>2, <2>3 DEF TypeOK, NoOrphans
  <1>8. CASE DeleteNew(i)
    <2>1. /\ pc[i] = "deleteNew" /\ UNCHANGED <<memDefs, id, new, old, overlapped>>
          /\ pc' = [pc EXCEPT ![i] = "idle"]
          /\ memSecrets' \ excused' \subseteq (memSecrets \ excused) \ {new[i]}
      BY <1>8, Deleting, DeleteDoes
    <2>2. overlapped = {} => old[i] \in {None, memDefs[id[i]]}
      BY <2>1 DEF TypeOK, QuietInv, Importing
    <2>3. None \notin memSecrets BY NoneIsNoReference DEF TypeOK
    <2>4. QED BY <2>1, <2>2, <2>3 DEF TypeOK, NoOrphans
  <1>9. QED BY <1>1, <1>2, <1>3, <1>4, <1>5, <1>6, <1>7, <1>8 DEF ImportStep

\* No step hands out a reference that is somebody's.
LEMMA ReferencesKept ==
    ASSUME CleanWrites, IInv, NEW i \in Importers, NEW d \in Ids,
           Start(i, d) \/ ImportStep(i) \/ Cancel(i)
    PROVE  RefInv'
  <1>1. /\ stored \in Nat
        /\ stored' \in {stored, stored + 1}
        /\ memSecrets' \subseteq memSecrets \cup (IF stored' > stored THEN {stored'} ELSE {})
    <2>1. CASE StoreSecret(i)
      <3>1. stored \in Nat BY DEF IInv, TypeOK
      <3>2. QED BY <2>1, <3>1, StoreSecretDoes
    <2>2. CASE DeleteOld(i) \/ DeleteNew(i)
      BY <2>2, DeleteDoes, Deleting DEF IInv, TypeOK
    <2>3. CASE Upsert(i) BY <2>3, UpsertDoes DEF IInv, TypeOK
    <2>4. CASE Start(i, d) \/ LookupExisting(i) \/ Register(i) \/ Cancel(i)
      BY <2>4 DEF IInv, TypeOK, Start, LookupExisting, Register, Cancel, stores
    <2>5. QED BY <2>1, <2>2, <2>3, <2>4 DEF ImportStep
  <1>2. ASSUME NEW e \in Ids PROVE RefsOf(e)' \subseteq 1..stored'
    <2>1. RefsOf(e) \subseteq 1..stored BY DEF IInv, RefInv
    <2>2. QED BY <1>1, <2>1, RefsShrink
  <1>3. ASSUME NEW e \in Ids, NEW f \in Ids, e # f PROVE RefsOf(e)' \cap RefsOf(f)' = {}
    <2>1. /\ RefsOf(e) \subseteq 1..stored /\ RefsOf(f) \subseteq 1..stored
          /\ RefsOf(e) \cap RefsOf(f) = {}
      BY <1>3 DEF IInv, RefInv
    <2>2. stored' > stored => stored' \notin 1..stored BY <1>1
    <2>3. QED BY <1>3, <2>1, <2>2, RefsShrink
  <1>4. memSecrets' \subseteq 1..stored' BY <1>1 DEF IInv, RefInv
  <1>5. QED BY <1>2, <1>3, <1>4 DEF RefInv

\* A restart ends all imports, and what it loads is what was in memory.
LEMMA RestartKeeps ==
    ASSUME IInv, Restart
    PROVE  IInv'
  <1>1. /\ memDefs' = memDefs /\ served' = memDefs /\ memSecrets' = memSecrets
        /\ diskDefs' = diskDefs /\ diskSecrets' = diskSecrets
        /\ pc' = [i \in Importers |-> "idle"]
        /\ overlapped' = {} /\ UNCHANGED <<stored, ctx, id, new, old>>
    BY DEF IInv, Restart, FailedWritesPreserveSnapshots
  <1>2. \A e \in Ids : Importing(e)' = {} BY <1>1 DEF Importing
  <1>3. TypeOK' BY <1>1 DEF IInv, TypeOK, Restart
  <1>4. FailedWritesPreserveSnapshots' /\ StoredDefinitionsResolve'
    BY <1>1 DEF IInv, FailedWritesPreserveSnapshots, StoredDefinitionsResolve
  <1>5. RefInv'
    <2>1. \A e \in Ids : RefsOf(e)' \subseteq RefsOf(e) BY <1>1, <1>2 DEF RefsOf
    <2>2. QED BY <1>1, <2>1 DEF IInv, RefInv
  <1>6. StepInv' BY <1>1 DEF StepInv, Unused
  <1>7. QuietInv'
    BY <1>1, <1>2 DEF IInv, QuietInv, StoredDefinitionsResolve, FailedWritesPreserveSnapshots
  <1>8. NoOrphans'
    BY <1>1 DEF IInv, Restart, NoOrphans, FailedWritesPreserveSnapshots
  <1>9. QED BY <1>3, <1>4, <1>5, <1>6, <1>7, <1>8 DEF IInv
---------------------------------------------------------------------------
\* The invariant the theorems rest on.
THEOREM InductiveInvariant ==
    ASSUME CleanWrites
    PROVE  Spec => []IInv
  <1>1. ASSUME Init PROVE IInv
    <2>1. TypeOK BY <1>1, ImportAssumption DEF Init, TypeOK, None
    <2>2. /\ FailedWritesPreserveSnapshots /\ StoredDefinitionsResolve /\ NoOrphans
          /\ StepInv
      BY <1>1 DEF Init, FailedWritesPreserveSnapshots, StoredDefinitionsResolve, NoOrphans,
        StepInv, Unused
    <2>3. \A d \in Ids : Importing(d) = {} BY <1>1 DEF Init, Importing
    <2>4. \A d \in Ids : RefsOf(d) = {}
      BY <1>1, <2>3, NoneIsNoReference DEF Init, RefsOf
    <2>5. RefInv BY <1>1, <2>4 DEF Init, RefInv
    <2>6. QuietInv BY <1>1, <2>3 DEF Init, QuietInv
    <2>7. QED BY <2>1, <2>2, <2>5, <2>6 DEF IInv
  <1>2. ASSUME IInv, [Next]_vars PROVE IInv'
    <2>1. ASSUME NEW i \in Importers, NEW d \in Ids, Start(i, d) \/ ImportStep(i) \/ Cancel(i)
          PROVE  IInv'
      BY <1>2, <2>1, TypesKept, SnapshotsKept, ResolvesKept, ReferencesKept, StepsKept, QuietKept,
        OrphansKept
      DEF IInv
    <2>2. CASE \E i \in Importers : ImportStep(i) \/ Cancel(i)
      <3>1. PICK i \in Importers : ImportStep(i) \/ Cancel(i) BY <2>2
      <3>2. id[i] \in Ids BY <1>2 DEF IInv, TypeOK
      <3>3. QED BY <2>1, <3>1, <3>2
    <2>3. CASE Restart BY <1>2, <2>3, RestartKeeps
    <2>4. CASE UNCHANGED vars
      BY <1>2, <2>4 DEF IInv, TypeOK, FailedWritesPreserveSnapshots, StoredDefinitionsResolve,
        RefInv, RefsOf,
         StepInv, Unused, QuietInv, NoOrphans, Importing, vars, stores, importVars, history
    <2>5. QED BY <1>2, <2>1, <2>2, <2>3, <2>4 DEF Next
  <1>3. QED BY <1>1, <1>2, PTL DEF Spec

(* Every variable keeps its type.                                          *)
THEOREM TypeCorrect ==
    ASSUME CleanWrites
    PROVE  Spec => []TypeOK
  BY InductiveInvariant, PTL DEF IInv

(* Whenever the process stops, the definitions on disk refer to secrets    *)
(* that are on disk, however many imports were at work and at which steps. *)
THEOREM StoredResolve ==
    ASSUME CleanWrites
    PROVE  Spec => []StoredDefinitionsResolve
  BY InductiveInvariant, PTL DEF IInv

(* What is served is what a restart would serve, once the imports of an id *)
(* are over, unless two of them overlapped.                                *)
THEOREM ServedIsOnDisk ==
    ASSUME CleanWrites
    PROVE  Spec => []ServedIsStored
  <1>1. IInv => ServedIsStored
    BY DEF IInv, QuietInv, FailedWritesPreserveSnapshots, ServedIsStored
  <1>2. QED BY <1>1, InductiveInvariant, PTL

(* What is served of an id can be prepared at every step of an import that *)
(* has the id to itself.                                                   *)
THEOREM ServedResolves ==
    ASSUME CleanWrites
    PROVE  Spec => []ServedResolvesUnlessOverlapped
  <1>1. IInv => ServedResolvesUnlessOverlapped
    BY DEF IInv, QuietInv, ServedResolvesUnlessOverlapped
  <1>2. QED BY <1>1, InductiveInvariant, PTL

(* A secret that nothing refers to could not be deleted, or imports overlapped. *)
THEOREM NothingOrphaned ==
    ASSUME CleanWrites
    PROVE  Spec => []NoOrphans
  BY InductiveInvariant, PTL DEF IInv
=============================================================================
