----------------------------- MODULE Discovery -----------------------------
(***************************************************************************)
(* Listing the sources, schemas, tables or columns page by page:           *)
(*   src/internal/execution/discovery_service.go   the checks and the page *)
(*   src/internal/execution/cursor.go              where a page begins     *)
(*   src/internal/execution/errors.go              the category of an error*)
(*   src/internal/transports/mcp/handler.go        the tools               *)
(* One client reads one listing at a time and may send its cursor with     *)
(* another request; meanwhile the catalog of the database changes.  The    *)
(* discoverers are in PostgresDiscovery, MySQLDiscovery, SqliteDiscovery.  *)
(*                                                                         *)
(* An error is the set of the sentinels errors.Is finds in it.             *)
(***************************************************************************)
EXTENDS Integers, Sequences, FiniteSetsExt

CONSTANTS Ids,         \* objects, numbered in the order they are listed
          Matching,    \* those whose name contains the search text
          Requests,    \* requests the client makes: limit, search, schema
          Constraints, \* what may bind columns of the table: sets of columns
          MaxChanges,  \* bound: changes of the catalog
          MaxCalls     \* bound: calls of the client

ASSUME DiscoveryAssumption ==
    /\ Ids \subseteq Nat \ {0} /\ IsFiniteSet(Ids) /\ Matching \subseteq Ids
    /\ Requests \subseteq [limit : Nat \ {0}, search : BOOLEAN, schema : {"right", "wrong"}]
    /\ Constraints \subseteq (SUBSET Ids) \ {{}}
    /\ MaxChanges \in Nat /\ MaxCalls \in Nat

VARIABLES
    engine,     \* the kind of the source
    operation,  \* what is listed: "sources", "schemas", "tables", "columns"
    catalog,    \* the objects that are there and that the user may see
    attnum,     \* the highest number a column of the table ever had
    place,      \* what became of the schema or the table that is listed
    oid,        \* the table's identity: another one after it was created anew
    changes,    \* changes of the catalog so far
    pc,         \* where the call is
    call,       \* its request, where its page begins, the table it resolved
    ctx,        \* the call's context: "live", "cancelled"
    query,      \* that of its statements: "none", "live", "canceled", "deadline"
    page,       \* what was read: the objects, the last one's position, whether
                \* there are more, and constraints
    err,        \* the error so far
    answer,     \* what the tool answered
    causes,     \* history: what went wrong, as the categories that would tell it
    calls,      \* calls so far
    listing,    \* the client's: the request, the next cursor and what it got
    gone,       \* history: objects dropped since the listing began
    drops,      \* history: columns dropped since the listing began
    additions   \* history: objects added since

catalogVars == <<catalog, attnum, place, oid, changes>>
callVars == <<pc, call, ctx, query, page, err, answer, causes, calls>>
clientVars == <<listing, gone, drops, additions>>
vars == <<engine, operation, catalogVars, callVars, clientVars>>

NoCursor == [fingerprint |-> <<"none">>, position |-> 0, ordinal |-> FALSE]
NoPage == [objects |-> {}, last |-> 0, more |-> FALSE, constraints |-> {}]
NoListing(r) ==
    [request |-> r, cursor |-> NoCursor, begun |-> {}, delivered |-> {}, first |-> {},
     constraints |-> {}, repeats |-> 0, state |-> "none"]
NoCall(r) == [request |-> r, after |-> 0, cursor |-> NoCursor, oid |-> 0]

\* MySQL and SQLite have one schema each, which is not asked of the database.
OneSchema == engine # "postgres" /\ operation = "schemas"

\* A column of PostgreSQL keeps its number, which no other column gets later; one
\* of MySQL or SQLite bears its place among those there are.
Numbered == engine = "postgres" /\ operation = "columns"
Renumbered == engine # "postgres" /\ operation = "columns"
Position(o) == IF Renumbered THEN Cardinality({p \in catalog : p <= o}) ELSE o

Init ==
    /\ engine \in {"postgres", "mysql", "sqlite"}
    /\ operation \in {"sources", "schemas", "tables", "columns"}
    /\ operation = "sources" => engine = "postgres"  \* no engine is asked
    /\ catalog \in SUBSET Ids /\ (OneSchema => Cardinality(catalog) = 1)
    /\ attnum \in Ids \cup {0}
    /\ IF Numbered THEN \A o \in catalog : o <= attnum ELSE attnum = 0
    /\ place = "there" /\ oid = 1 /\ changes = 0
    /\ pc = "idle" /\ ctx = "live" /\ query = "none"
    /\ LET r == CHOOSE r \in Requests : TRUE IN call = NoCall(r) /\ listing = NoListing(r)
    /\ page = NoPage /\ err = {} /\ answer = "none" /\ causes = {} /\ calls = 0
    /\ gone = {} /\ drops = 0 /\ additions = 0
---------------------------------------------------------------------------
(* The catalog changes under the listing. *)

Change == changes < MaxChanges /\ changes' = changes + 1 /\ ~OneSchema

\* A new column of PostgreSQL or SQLite comes last, a name may come anywhere;
\* sources are imported and never removed.
CreateObject(o) ==
    /\ Change /\ place = "there" /\ o \notin catalog
    /\ Numbered => o > attnum
    /\ operation = "columns" /\ engine = "sqlite" => \A p \in catalog : p < o
    /\ catalog' = catalog \cup {o}
    /\ attnum' = IF Numbered /\ o > attnum THEN o ELSE attnum
    /\ additions' = additions + 1
    /\ UNCHANGED <<engine, operation, place, oid, callVars, listing, gone, drops>>

\* What is dropped and created again is another object.
Forget(dropped) == catalog' = catalog \ dropped /\ gone' = gone \cup dropped

DropObject(o) ==
    /\ Change /\ o \in catalog
    /\ operation # "sources"
    /\ Forget({o})
    /\ drops' = drops + 1
    /\ UNCHANGED <<engine, operation, attnum, place, oid, callVars, listing, additions>>

\* The schema or the table goes, or the user loses the right to see it; USAGE of
\* a schema does not hide the names of its tables from the catalog.
Vanish(what) ==
    /\ Change /\ place = "there"
    /\ operation \in {"tables", "columns"}
    /\ what # "no relation" => engine = "postgres"
    /\ what \notin {"no schema", "schema denied"} => operation = "columns"
    /\ place' = what
    /\ IF what = "schema denied" THEN UNCHANGED <<catalog, gone>> ELSE Forget(catalog)
    /\ UNCHANGED <<engine, operation, attnum, oid, callVars, listing, drops, additions>>

Reappear(objects) ==
    /\ Change /\ place # "there"
    /\ place' = "there" /\ oid' = oid + 1
    /\ catalog' = objects
    /\ attnum' = IF Numbered /\ objects # {} THEN Max(objects) ELSE 0
    /\ gone' = gone \cup catalog
    /\ UNCHANGED <<engine, operation, callVars, listing, drops, additions>>
---------------------------------------------------------------------------
(* The client. *)

Call(r, cursor) ==
    /\ pc = "idle" /\ calls < MaxCalls /\ calls' = calls + 1
    /\ pc' = "service" /\ ctx' = "live" /\ query' = "none"
    /\ call' = [NoCall(r) EXCEPT !.cursor = cursor]
    /\ page' = NoPage /\ err' = {} /\ answer' = "none" /\ causes' = {}
    /\ UNCHANGED <<engine, operation, catalogVars>>

StartListing(r) ==
    /\ Call(r, NoCursor)
    /\ listing' = [NoListing(r) EXCEPT !.state = "open", !.begun = catalog]
    /\ gone' = {} /\ drops' = 0 /\ additions' = 0

\* The cursor goes with the listing's request, or with another one.
NextPage(r) ==
    /\ listing.state = "open" /\ listing.cursor # NoCursor
    /\ Call(r, listing.cursor)
    /\ UNCHANGED clientVars

\* Something that is no cursor, or one of another operation.
BadCursor(r, ordinal) ==
    /\ Call(r, [fingerprint |-> <<"elsewhere">>, position |-> 1, ordinal |-> ordinal])
    /\ UNCHANGED clientVars

CancelRequest ==
    /\ pc \notin {"idle", "answer"} /\ ctx = "live"
    /\ ctx' = "cancelled"
    /\ query' = IF query = "live" THEN "canceled" ELSE query
    /\ UNCHANGED <<engine, operation, catalogVars, clientVars, pc, call, page, err, answer, causes, calls>>

\* context.WithTimeoutCause of the discoverers.
QueryTimeout ==
    /\ pc \notin {"idle", "answer"} /\ query = "live"
    /\ query' = "deadline"
    /\ UNCHANGED <<engine, operation, catalogVars, clientVars, pc, call, ctx, page, err, answer, causes, calls>>
---------------------------------------------------------------------------
(* The service. *)

unread == <<engine, operation, catalogVars, clientVars, answer, calls>>

Fails(tags, why, next) == err' = tags /\ causes' = causes \cup why /\ pc' = next

\* requestFingerprint: the operation and all of the request but its cursor.
requestFingerprint(r) == <<operation, r>>

\* Mutant: the cursor is not bound to the request it was issued for.
BugDecodeCursor(cursor, r) ==
    \/ cursor = NoCursor
    \/ cursor.fingerprint # <<"elsewhere">> /\ cursor.ordinal = (operation = "columns")

\* decodeCursor: of this shape and for this request.
decodeCursor(cursor, r) ==
    \/ cursor = NoCursor
    \/ /\ cursor.position > 0
       /\ cursor.ordinal = (operation = "columns")
       /\ cursor.fingerprint = requestFingerprint(r)

encodeCursor(r, last) ==
    [fingerprint |-> requestFingerprint(r), position |-> last, ordinal |-> operation = "columns"]

\* The rows of a statement with LIMIT limit + 1: those after the position, in order.
Rows(r, after) == {o \in catalog : (r.search => o \in Matching) /\ Position(o) > after}
FirstOf(objects, n) == {o \in objects : Cardinality({p \in objects : p <= o}) <= n}

ReadPage(r, after) ==
    LET rows == FirstOf(Rows(r, after), r.limit + 1)
        objects == FirstOf(rows, r.limit)
    IN  [objects |-> objects,
         last |-> IF objects = {} THEN 0 ELSE Position(Max(objects)),
         more |-> Cardinality(rows) > r.limit,
         constraints |-> {}]

\* What the service refuses: its context, the limits and identifiers, the cursor,
\* and a source it does not know.
ServiceErrors ==
    [malformed |-> <<"ErrInvalidRequest", "invalid_request">>,
     unknown |-> <<"ErrSourceNotFound", "source_not_found">>]

CheckRequest ==
    /\ pc = "service"
    /\ \/ /\ ctx = "cancelled"
          /\ Fails({"ErrCancelled", "context.Canceled"}, {}, "answer")
          /\ UNCHANGED call
       \/ /\ ctx = "live"
          /\ \E input \in DOMAIN ServiceErrors :
                /\ input = "unknown" => operation # "sources" /\ decodeCursor(call.cursor, call.request)
                /\ Fails({ServiceErrors[input][1]}, {ServiceErrors[input][2]}, "answer")
          /\ UNCHANGED call
       \/ /\ ctx = "live" /\ ~decodeCursor(call.cursor, call.request)
          /\ Fails({"ErrInvalidCursor"}, {"invalid_cursor"}, "answer")
          /\ UNCHANGED call
       \/ /\ ctx = "live" /\ decodeCursor(call.cursor, call.request)
          /\ call' = [call EXCEPT !.after = call.cursor.position]
          /\ pc' = IF operation = "sources" THEN "snapshot" ELSE "open"
          /\ UNCHANGED <<err, causes>>
    /\ UNCHANGED <<unread, ctx, query, page>>

\* ListDataSources: a snapshot of the registry, sorted and cut.
ListDataSources ==
    /\ pc = "snapshot"
    /\ page' = ReadPage(call.request, call.after)
    /\ pc' = "answer"
    /\ UNCHANGED <<unread, call, ctx, query, err, causes>>

\* Classify: the sentinels in the order it asks for them.
Sentinels ==
    << <<"ErrInvalidCursor", "invalid_cursor">>,
       <<"ErrInvalidRequest", "invalid_request">>,
       <<"ErrSourceNotFound", "source_not_found">>,
       <<"ErrSchemaNotFound", "schema_not_found">>,
       <<"ErrRelationNotFound", "relation_not_found">>,
       <<"ErrUnsupportedRelationKind", "unsupported_relation_kind">>,
       <<"ErrDatabasePermissionDenied", "database_permission_denied">>,
       <<"ErrQueryTimeout", "query_timeout">>,
       <<"context.DeadlineExceeded", "query_timeout">>,
       <<"ErrCancelled", "cancelled">>,
       <<"context.Canceled", "cancelled">>,
       <<"ErrDatabaseUnavailable", "database_unavailable">> >>

Classify(tags) ==
    LET found == {i \in DOMAIN Sentinels : Sentinels[i][1] \in tags} IN
    IF found = {} THEN "internal" ELSE Sentinels[Min(found)][2]

\* The rest of the List methods and of the tool's handler: a page, with a cursor
\* for the next one if there is more, or the category of the error.
BuildPage ==
    LET next == IF page.more /\ page.objects # {} THEN encodeCursor(call.request, page.last)
                ELSE NoCursor
    IN  listing' = [listing EXCEPT
            !.request = call.request,
            !.cursor = next,
            !.repeats = @ + Cardinality((page.objects \cap listing.delivered) \ gone),
            !.delivered = @ \cup page.objects,
            !.first = IF call.after = 0 THEN page.objects ELSE @,
            !.constraints = @ \cup page.constraints,
            !.state = IF next = NoCursor THEN "complete" ELSE "open"]

Respond ==
    /\ pc = "answer"
    /\ pc' = "idle"
    /\ \/ err # {} /\ answer' = Classify(err) /\ UNCHANGED listing
       \/ err = {} /\ answer' = "ok" /\ BuildPage
    /\ call' = NoCall(listing'.request) /\ page' = NoPage /\ err' = {}
    /\ UNCHANGED <<engine, operation, catalogVars, ctx, query, causes, calls, gone, drops, additions>>
---------------------------------------------------------------------------
(* What the discoverers have in common. *)

\* open, whose steps PostgresOpener, MySQLOpener and SqliteRuntime describe, and the
\* timer of the statements.
Open(failures, next) ==
    /\ pc = "open"
    /\ \/ /\ ctx = "live"
          /\ query' = IF OneSchema THEN query ELSE "live"
          /\ pc' = next
          /\ UNCHANGED <<err, causes>>
       \/ /\ ctx = "cancelled"
          /\ Fails({"ErrCancelled", "context.Canceled"}, {}, "answer")
          /\ UNCHANGED query
       \/ /\ ctx = "live"
          /\ \E f \in failures : Fails(f[1], f[2], "answer")
          /\ UNCHANGED query
    /\ UNCHANGED <<unread, call, ctx, page>>

\* The only schema of MySQL and SQLite: a comparison, no statement.
ListOnlySchema(next) ==
    /\ pc = "rows" /\ OneSchema
    /\ page' = [ReadPage(call.request, call.after) EXCEPT !.more = FALSE]
    /\ pc' = next
    /\ UNCHANGED <<unread, call, ctx, query, err, causes>>

\* MySQL and SQLite compare the schema of the request with the one they have.
CheckOnlySchema(next, otherwise) ==
    /\ pc = "schema"
    /\ IF operation # "schemas" /\ call.request.schema = "wrong"
       THEN Fails({"ErrSchemaNotFound"}, {"schema_not_found"}, otherwise)
       ELSE pc' = next /\ UNCHANGED <<err, causes>>
    /\ UNCHANGED <<unread, call, ctx, query, page>>

Interrupted == query \in {"canceled", "deadline"}

\* The context's error that errors.Is finds in a failure by itself: that of the
\* statements' context, that of a dialing which took too long, or of the pool's own
\* context, when an invalidation closes the pool while it makes a connection.
DriverSays(code) ==
    CASE code = "interrupted" ->
            {IF query = "deadline" THEN "context.DeadlineExceeded" ELSE "context.Canceled"}
      [] code = "dialTimeout" -> {"context.DeadlineExceeded"}
      [] code = "poolClosed" -> {"context.Canceled"}
      [] OTHER -> {}

\* The constraints of the table that are there; one goes with each of its columns.
Existing == {k \in Constraints : k \subseteq catalog}
===========================================================================
