-------------------------- MODULE RuntimeHandles --------------------------
(***************************************************************************)
(* What a database runtime promises about the handles it caches, whatever  *)
(* the engine: the abstract specification the PostgreSQL and the MySQL     *)
(* openers are shown to implement.                                         *)
(*                                                                         *)
(* A handle (a connection pool) is created once.  It is private to the     *)
(* attempt that opened it until it is served for one database id, served   *)
(* until it is retired, and a retired handle never comes back.  After the  *)
(* runtime shuts nothing is served any more, and the runtime reports that  *)
(* it is drained only when every handle it ever created is closed; nothing *)
(* is created after that.                                                  *)
(***************************************************************************)
EXTENDS Naturals

CONSTANTS Ids,     \* database ids
          Handle,  \* identities of the handles the runtime may create
          None     \* no handle: not a member of Handle

VARIABLES status,   \* life of every handle
          serving,  \* the handle served for an id
          shut,     \* no handle is served any more
          drained   \* the runtime has reported that it holds nothing

vars == <<status, serving, shut, drained>>

Served(h) == \E id \in Ids : serving[id] = h

Init ==
    /\ status = [h \in Handle |-> "unborn"]
    /\ serving = [id \in Ids |-> None]
    /\ shut = FALSE
    /\ drained = FALSE

Create(h) ==
    /\ status[h] = "unborn"
    /\ ~drained
    /\ status' = [status EXCEPT ![h] = "live"]
    /\ UNCHANGED <<serving, shut, drained>>

Serve(id, h) ==
    /\ ~shut
    /\ status[h] = "live"
    /\ ~Served(h)
    /\ serving[id] = None
    /\ serving' = [serving EXCEPT ![id] = h]
    /\ UNCHANGED <<status, shut, drained>>

Retire(id, h) ==
    /\ serving[id] = h
    /\ serving' = [serving EXCEPT ![id] = None]
    /\ status' = [status EXCEPT ![h] = "retired"]
    /\ UNCHANGED <<shut, drained>>

Discard(h) ==
    /\ status[h] = "live"
    /\ ~Served(h)
    /\ status' = [status EXCEPT ![h] = "retired"]
    /\ UNCHANGED <<serving, shut, drained>>

Destroy(h) ==
    /\ status[h] = "retired"
    /\ status' = [status EXCEPT ![h] = "closed"]
    /\ UNCHANGED <<serving, shut, drained>>

Shut ==
    /\ ~shut
    /\ shut' = TRUE
    /\ status' = [h \in Handle |-> IF Served(h) THEN "retired" ELSE status[h]]
    /\ serving' = [id \in Ids |-> None]
    /\ UNCHANGED drained

Drain ==
    /\ shut
    /\ \A h \in Handle : status[h] \in {"unborn", "closed"}
    /\ drained' = TRUE
    /\ UNCHANGED <<status, serving, shut>>

Next ==
    \/ \E h \in Handle :
          \/ Create(h) \/ Discard(h) \/ Destroy(h)
          \/ \E id \in Ids : Serve(id, h) \/ Retire(id, h)
    \/ Shut
    \/ Drain

Spec == Init /\ [][Next]_vars
===========================================================================
