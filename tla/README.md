# DataPorch in TLA+

DataPorch is a Go service that lets agents explore and query databases. An
administrator imports connections through a local socket; agents list schemas,
tables and columns and run read-only queries through MCP. This directory holds
TLA+ specifications of its stateful parts, TLC configurations that check them on
small instances, and TLAPS proofs of the most important results. Paths below are
relative to `src/` of the repository.

## The system

| Component | State | Operations | Talks to |
|---|---|---|---|
| PostgreSQL and MySQL runtime caches (`internal/connection/{postgres,mysql}/opener.go`) | entry per id (attempt in flight, or cached client with its pool), generation per id, closed flag, closing error, two wait groups | Open, OpenQuery, Invalidate, Close; one goroutine per attempt, one per pool being closed, one that completes the shutdown | Prepare of the manager, the driver, callers with contexts |
| SQLite runtime (`internal/connection/sqlite/runtime.go`, `connection.go`) | logical entries with lease counters, a total, closed flag, drain channel | open (acquire, prepare, connect), client.close (release), Invalidate, Close | manager, SQLite |
| Importer (`internal/connection/importer.go`) | none of its own | Import: parse, store secret, look up, upsert, register, delete the old secret | secret store, definition store, registrar |
| Definition store (`internal/connection/filestore/store.go`) | snapshot in memory and file | Open, Lookup, List, Upsert | `atomicfile.Replace` |
| Secret store (`internal/secret/local/store.go`, `init.go`) | entries sealed to their references, in memory and file; master key | Open, Store, Resolve, Delete; Init | `atomicfile` |
| Connection manager (`internal/connection/manager.go`) | definitions being served | Register, Lookup, List, Prepare | secret resolver |
| Replacement registrar (`internal/app/replacement_registrar.go`) | none | Register, then invalidation of the runtimes of the old and the new kind | manager, runtimes |
| Query executors and result budgets (`internal/connection/*/query.go`, `query_result.go`, `query_error.go`, `query_runtime.go`) | a leased connection and transaction; the budget of the result | Query: read-only transaction, rows within a byte and row budget, clean-up, release or destruction of the connection | runtimes, the database |
| Query service and tool (`internal/execution/query.go`, `query_errors.go`, `internal/transports/mcp/query.go`) | none | QueryRelationalDatabase, ClassifyRelationalQuery, the tool's answer | executors |
| Discoverers (`internal/connection/*/discoverer.go`, `*_discovery.go`) | none | ListSchemas, ListTables, ListColumns: checks, catalog statements, constraints | runtimes, the catalog of the database |
| Discovery service and tools (`internal/execution/discovery_service.go`, `cursor.go`, `errors.go`, `internal/transports/mcp/handler.go`) | none; cursors travel through the client | sources, schemas, tables, columns, page by page | manager, discoverers |
| MCP token service and store (`internal/mcptoken`, `mcptoken/local`) | verifier and state in memory, file | Create, Rotate, Revoke, Status, Verify | `atomicfile`, bearer authentication |
| Local MCP server (`internal/transports/localmcp/server.go`, `internal/mcpcontrol/local`) | runtime lock, socket, credential file, one credential per run | Run | clients of the socket |
| Stdio proxy (`internal/transports/mcpstdio`) | two forwarding goroutines; a credential read per request | Run, RoundTrip with one retry | local MCP server |
| Application (`internal/app/app.go`, `relational_module.go`) | three servers, their error channels, runtimes | New, Run, shutdown | all of the above |
| Command line, background service (`internal/cli`) | definition and state of the systemd or launchd service | run, restart, stop, status | service manager, health endpoint |
| Connectors, read-only policy, configuration, HTTP API, access control | none | parsing, validation | |

### What is hard

- **Concurrency.** Every caller, every attempt and every pool closer is a
  goroutine; invalidations and the shutdown come at any moment, and the mutexes
  are let go around every call to a driver. Import requests run concurrently and
  the importer holds no lock over its five steps.
- **Failure and restart.** A context may be cancelled at every step, every write
  may fail, and `atomicfile.Replace` may report a failure of a file it did
  replace. The process may stop between any two steps and reads its files again.
- **Ordering.** A pool is opened from a definition that is being replaced; a
  release arrives after its entry was detached; closers are started by attempts
  that are themselves waited for.
- **Timeouts.** Opening attempts, queries, `Close` and the shutdown have
  deadlines, and what they wait for may end at the same moment.

`PROJECT.json` lists these hazards with their lines and the properties about them.

## Modules

| Module | Models | Role |
|---|---|---|
| `RuntimeHandles` | — | abstract specification: what a runtime promises about the handles it caches |
| `PostgresOpener` | `postgres/opener.go` | detailed specification; refines `RuntimeHandles` |
| `MySQLOpener` | `mysql/opener.go` | extends `PostgresOpener` with what MySQL does differently |
| `SqliteRuntime` | `sqlite/runtime.go`, `connection.go` | leases and the drain |
| `ConnectionImport` | `importer.go`, `filestore/store.go`, `secret/local/store.go`, `manager.go` | the import over its stores, with restarts |
| `DefinitionFreshness` | `manager.go`, `replacement_registrar.go` | composes the manager and the registrar with `PostgresOpener` |
| `OpenerProofs` | | `PostgresOpener`, `MySQLOpener` and `DefinitionFreshness`: inductive invariants, safety theorems, refinements |
| `ConnectionImportProofs`, `McpTokenProofs`, `LocalMcpProofs`, `SqliteRuntimeProofs`, `BackgroundServiceProofs` | | inductive invariants and safety theorems |
| `QueryExecutionProofs` | | the connections, the results and the answers of the queries |
| `DiscoveryProofs` | | the listings: that they are whole, and what they are answered with |
| `McpToken` | `mcptoken/service.go`, `mcptoken/local/store.go` | the bearer token over its file, with clocks and restarts |
| `ResultBudget` | `*/query_result.go` | the arithmetic of a result's size, with a reference definition |
| `RelationalQuery` | `transports/mcp/query.go`, `execution/query.go`, `query_errors.go` | what the engines' queries have in common: variables, the tool, the service, the classification of errors |
| `PostgresQuery`, `MySQLQuery`, `SqliteQuery` | `*/query.go`, `query_result.go`, `query_error.go`, `query_runtime.go` | the executors; extend `RelationalQuery` |
| `QueryExecution` | | composes them |
| `AppLifecycle` | `app/app.go`, `relational_module.go`, `app/cli.go` | one process: New, Run, its servers, the shutdown |
| `BackgroundService` | `cli/lifecycle.go`, `service_systemd.go`, `service_launchd.go`, `health.go`, `secret/local/init.go`, `atomicfile.Create` | composes `AppLifecycle` with the service manager, the commands and `secrets init` |
| `Discovery` | `execution/discovery_service.go`, `cursor.go`, `errors.go`, `transports/mcp/handler.go` | what the engines' listings have in common: the client, the catalog, the service |
| `PostgresDiscovery`, `MySQLDiscovery`, `SqliteDiscovery` | `*/discoverer.go`, `*_discovery.go` | the discoverers; extend `Discovery` |
| `DiscoveryPaging` | | composes them |
| `LocalMcp` | `transports/localmcp/server.go`, `mcpcontrol/local`, `transports/mcpstdio` | successive runs of the local MCP server, and a proxy's requests |

`MC<Module>` modules define symmetry sets and bounded inputs for TLC; `MCOpenersLive` runs
the two openers, which share their variables, side by side in one instance.

### Runtime caches

*State.* `entries`, `generations`, `isClosed`, `completing` (the goroutine of
`completeClose`) are the fields of `Opener`. Attempts are numbered in the order
they start, and a pool has the number of the attempt that created it: `pc[a]` is
the program counter of `runAttempt`/`openRuntime`/`finishAttempt`, `cause[a]` the
cancellation cause of its context, `outcome[a]` its client or error, `pool[a]` the
life of its pool. Callers and closers are goroutines with a context of their own.

*Actions.* One per critical section of the mutex (`OpenCached`, `OpenJoin`,
`OpenStart`, `finishAttempt`, `Invalidate`, `CloseFirst`), one per call made
outside it (`Prepare`, `CreatePool`, `Ping`, `Verify`, `DiscardPool`, `CloseStale`,
`PoolClosed`) and one per step of a waiting goroutine. `Expire` is the attempt's
timer. The two wait groups are predicates over attempts and pools, which is what
they count. `MySQLOpener` reuses these actions and replaces those that differ:
the rejection of a client that lost its entry, the projection of errors, the
errors of closing pools, and a `Close` that looks at `closeDone` once only.

*Left out.* The early returns for a nil or cancelled context and for an invalid
id change nothing. Two defensive checks (a definition of another id, a nil pool
without an error) cannot fail with the repository's manager and pool factories.
What callers do with a connection is only taking it and giving it back.

### SQLite

Entries are objects whose identity matters: `release` removes an id's entry only
if it is the one it leased. `Objects` are allocated when nothing refers to them,
so that a name that comes back is a new object. The connection is opened and
closed by the operation that leases the entry, and `drainClosed` is the channel
`Close` waits on.

### Import and freshness

A definition has exactly one secret (every adapter makes it so) and every stored
secret has a fresh reference, so a definition is identified by its reference.
`ConnectionImport` keeps every store twice, in memory and on disk; `Restart` may
happen between any two steps and loads both. `Outcomes` is what
`atomicfile.Replace` does: succeed, fail and leave the file, or fail after the
rename. `DefinitionFreshness` numbers registrations; an attempt's `Prepare` is
split into `Lookup` (under the manager's lock) and `Resolve`, and a registrar
into `Register` and `InvalidateRuntime`, which is where the code holds no lock.

### MCP token

`mutationMu` serialises Create, Rotate and Revoke from their look at the state to
their return, so `op` is the one in flight: `Save` (or `Delete`) on the file, then
`Commit` in memory. `Verify` reads state and verifier together under `runtimeMu`
and answers later (`Read`, `Compare`). A token is a number and its verifier the
same one. A time is a wall clock, which is all that reaches the file, and a
monotonic reading, which `time.Time.Before` prefers: `Encodes` and `Decodes` are
the same comparison before and after the monotonic part is lost. `Restart` may
happen at any step; the clock may go back while the process is down, and then
`Rotate` refuses until it has caught up. A mutation refused for the state it finds
changes nothing and is left out. A crash is one of the process: a removal that
the machine forgets (mcptoken/local/store.go:160 does not sync the directory) is
not modelled.

### Local MCP

Runs of `Server.Run` are numbered; the lock, the socket file and the credential
file are each the number of the run they belong to. A run listens before it has a
credential to publish and cleans up by path: both make the order of its steps
matter. `Start` may be called by any number of processes at once, `Crash` kills one
anywhere. A proxy's request reads the credential, looks at the socket, dials (the
kernel connects it although nobody accepts yet), is accepted by the run that
serves, and is authenticated at any time after that, also when the run is being
shut down. A request without a body is not sent again. Proxies do not interact,
so one shows everything. Connections that are kept alive need no actions: a run that
closes them ends as in `Drain` or `Crash`, and until then they reach the run that the
socket leads to.

### Query execution

A query is followed from the tool to its answer. `engine` is chosen once; `pc[q]`
is where the query is, in the executor's own order: open, acquire, begin,
query, rows, drain (the deferred close of the rows), and the clean-up of its
engine. PostgreSQL's is rollback, DeallocateAll, DiscardAll and Release, each of
which may fail or exceed the deadline of the clean-up, and then Destroy; MySQL's
is a rollback and always a destruction; SQLite's closes the statement and the
connection. `marks[c]` is what the session of a connection keeps of the queries
run in it, `others` the connections that discovery uses.

An error is what `errors.Is` and `errors.As` find in it: a set of sentinels, the
driver's error by what it stands for, and the projection an engine made of it.
`errors.Join` joins these, and `ClassifyRelationalQuery` asks for them in the
order of the code. SQLSTATEs, MySQL's error numbers and SQLite's result codes are
represented by one code for each category they are told as; what a code means (`PgMeaning`,
`MyMeaning`, `LiteMeaning`) is taken from the database's manual, not from the code.

A row is a sequence of cells, a cell its kind and lengths: raw, what escaping
adds, and what escaping the JSON once more adds, since the tool sends the result as
structured content and as a text. The budget adds up parts as the code does;
`EncodedSize` says how long the encoding is.

*Left out.* The request has no deadline of its own (the handler's context has
none), the access policy allows everything, and `nil` checks for what the repository's
own types never return. *Worth knowing:* the tool refuses results over about half of the limit,
because it sends them twice, after the executor has accepted them up to the
limit; a clean-up that timed out is told as `query_timeout` although the query was
in time; a connection to PostgreSQL that breaks without an error code, and
MySQL's `ErrInvalidConn`, are told as `internal`, not as unavailable, where the
driver does not say that a retry is safe. A pool that makes a new connection may fail in two
ways of its own while both contexts are live: the dialing takes too long (`DialTimeout`, told as
`query_timeout` or as unavailable), or the pool is closed by an invalidation (`PoolClosed`, told as
`cancelled`, although nobody cancelled the query). MySQL's `FLOAT` reaches the executor as a Go type that
`mysqlCellString` does not know, and the query is told as `internal` (`MyUnknownValue`); PostgreSQL
sends text, for which there is no such case.

### Application and background service

`app` is where `New` and `Run` are, `server[s]` what the goroutine of each server does,
`heard` the channels that were read (a channel set to nil, or read by a
`waitFor` function). `cancelled` is `runCtx`, whose end stops the administration and local
MCP servers; the public one is stopped by `Shutdown`. `expired` is the deadline of the
HTTP shutdown which an interrupted `Run` shares with the closing of the runtimes: one that is not
closed by then is `"left"`. A `Run` that stops for another reason gives the runtimes a deadline of their own. `busy` are
servers with a request in flight; the administration's requests are left out,
because nobody waits for them.

`BackgroundService` adds the service manager: the definition file, whether the manager has
loaded it, the job it is doing, and the process it runs, which is the one of
`AppLifecycle`. A native command succeeds, fails at once, or fails after it had
its effect (it timed out); an interrupted one fails at once. launchd's `Restart` waits until the
service is unloaded, systemd's does not return before its job is done. `portTaken` is a
`run -f` by hand on the same address. `fresh` is a history variable: the manager started a process since
the command at work began, which is what a `restart` promises. `secrets init` creates the key and then the store;
`Creates` are the ways in which `atomicfile.Create` can fail or be killed. `user` bounds the
behaviours to one of two stories, that of `secrets init` and that of the service.

*Worth knowing* (each follows from the code and is a conjunct, an exception or an
action of the model): `Run` returns from a failed listen without closing the runtimes
(app.go:205); a public server that fails by itself is not shut down, its requests are
not waited for (app.go:290); `Run` of the administration server returns as soon as
its `Shutdown` begins (localadmin/server.go:80), so that an import in flight may
be cut off by the end of the process - which `connection_import` covers as a crash; an
interrupted `run` cleans up with commands that fail at once, which may leave the service
running with its definition removed, and `status` calls it stopped; the health check takes
any answer on the address for the service's; a creation of the key that failed, or a
kill between the key and the store, leaves `secrets init` refusing until the file is removed by hand.

### Discovery

A client reads one listing at a time: `listing` is its request, the next cursor and
what it was given; it may send a cursor with any request, or something that is no cursor.
`catalog` is what the database (or, for sources, the registry) would list now,
numbered in the order of the listing. It changes between any two steps, at most
`MaxChanges` times; the table itself may be dropped, denied, or created again under
its name with another `oid`. A page is the first `limit + 1` rows after the cursor's
position: a name, or for columns an ordinal (`Position`): PostgreSQL's attribute number,
which stays, or the place among the columns there are, which MySQL and SQLite
number anew. A discoverer's statements are steps of their own; only SQLite's three constraint
statements are one.

*Worth knowing.* A listing of MySQL or SQLite columns may skip one column for each that is
dropped meanwhile, and repeat one for each that is added before it: `ListingIsWhole` states
this bound. MySQL tells the constraints with the first page only and only those that touch one of its
columns; a constraint of later columns alone is never told. An error that SQLite reports by a
code of its own is told as `internal`: the discoverer keeps a `DatabaseFailure`
with the category, which `execution.Classify` does not look for (errors.go:52).
The cursor is bound to the request, not to the definition of the source,
which may be replaced between two pages. `open` tells a failed opening as unavailable together with the
opener's error (discoverer.go:65), so that MySQL's attempt that timed out is told as `query_timeout`
(`MyOpenFailures`); a statement that makes a connection may fail as a query does (`dialTimeout`,
`poolClosed`), whose errors wrap the context's, and MySQL's inconsistent catalog rows are `ErrInternal`
as they are found (`badCatalog`). PostgreSQL's answer to catalog values it never stores is left out.

## What the runs check

| Run | Instance | States | Shows |
|---|---|---|---|
| `pg_opener` | 1 id, 2 callers, 1 closer, 2 attempts, 1 invalidation | 0.7 million | cache never stale, no pool forgotten, one opening per id, fresh clients, causes, a truthful `Close`, refinement of `RuntimeHandles` |
| `openers_live` | PostgreSQL or MySQL, 1 id, 1 caller, 1 closer, 2 attempts, 1 invalidation | 0.3 million | every caller is answered, the shutdown ends; MySQL: every closing error is reported, rejected clients are given to nobody, refinement |
| `sqlite_runtime` | 2 ids, 3 operations, 3 objects, 1 closer | 0.2 million | counters count, stale releases are harmless, the drain means idle and happens |
| `connection_import` | 2 ids, 2 requests, 4 secrets | 0.6 million | what is on disk can always be prepared; see below |
| `definition_freshness` | 1 id, 1 caller, 2 registrars, 2 attempts, 3 registrations | 1.1 million | the cached client is of the registered definition; calls after an import get that definition or a later one |
| `mcp_token` | 3 tokens, 1 request, 3 wall clock readings, clock set back only while stopped | 81 thousand | what was saved loads, the token handed out works, answers fit the time of the request |
| `local_mcp` | 3 runs, 1 proxy | 19 thousand | a serving run can be reached, no run is turned away by a dead one, one reread suffices, locks are released, requests end |
| `import_overlap` | 1 id, 2 requests | | violation, see Findings |
| `import_failed_sync` | 1 id, 1 request | | violation, see Findings |
| `query_execution` | 1 query at a time, over and over, 1 pooled connection shared with discovery, rows of 3 kinds, row limit 2, byte limit 87 | 34 thousand | connections go back clean, the budget is exact, answers are explained, queries end |
| `lifecycle` | both managers, 1 runtime, 2 calls of `secrets init` | 319 thousand | runtimes outlive requests, stopping ends, commands tell the truth, key and store fit |
| `discovery_paging` | 3 objects, 3 calls, 2 changes of the catalog | 3.4 million | listings are whole, failures are explained |

*Why the bounds are enough.* The openers treat ids independently (every critical
section but the first `Close` touches one id), so one id shows every interleaving
of one entry. Two attempts are needed for an attempt that was invalidated to run
beside its successor; a third would only repeat that. Two callers share an
attempt, one of them giving up. `definition_freshness` uses three registrations by
two registrars, so that an import may overlap another and follow a third. In
`sqlite_runtime` three operations allow a detached entry with a lease beside a
new entry of the same id and one of another id. `connection_import` allows two
imports of one id, or of two, each following an earlier one. Three tokens are
one that is created, its rotation, and one created after a revocation or rotated
again; three readings of the clock order two of them in every way. Three runs
are one that left files behind, one that cleans up and one that starts meanwhile.
One query at a time is enough for `query_execution` because queries share nothing but the pool
(the cache of clients is the openers' business), where discovery stands for the other users; the
next request then finds what the last one left. The byte limit of 87 puts the refusal of a
row, the tenth row (two digits) and the refusal of the tool within reach of the rows of the
instance, for each way a cell is told. `lifecycle` has one runtime because the runtimes are closed side by
side and each is waited for; two calls of `secrets init` are one that leaves files and one
that finds them. Three calls, two changes and three objects give a listing of two pages and a
failed or foreign call between them, while a column is dropped and another created.

*What the properties leave.* Some hazards are what the code does, and a property can only say how
far they go. After a kill between key and store, or a store that could not be written, every later
`secrets init` refuses; `KeyMatchesStore` says that no other failure leads there with a key left behind. A slow
server may use up the deadline it shares with the runtimes; `RuntimesOutliveRequests` says that a runtime is
given up for no other reason. A failed `restart` may have stopped the old process; `CommandsTellTruth`
says that one that succeeded has a new process, and that a failed one keeps the definition. The
clean-up of an interrupted `run` may remove the definition of a running process; the same property says
that this needs a clean-up step that failed. `SavedStateLoads` is for a clock that is not set back while the process
runs. `ErrorsHaveCauses` says that a caller is told of a timeout only if an attempt timed out, and of a
cancellation only if it gave up itself.

*Deadlock* is checked except in `sqlite_runtime` (nothing is left to do once a
closed runtime has drained), in `definition_freshness` (`Close` is left out
there, so the bounded attempts run out), in `discovery_paging` (the bounded calls run
out) and in `lifecycle` (the bounded calls of `secrets init` do).

*Fairness.* `PostgresOpener` assumes that the attempt's timer fires
(`context.WithTimeoutCause`, opener.go:173), that a goroutine with nothing to
wait for goes on, that a driver call returns once its context is done, and
that callers give their connections back: every query and discovery runs under
a timeout (postgres/query.go:111, discoverer.go:77). Nothing is assumed of a
database that does not answer: `Prepare`, `CreatePool` and `Ping` need not return
before the timer. Nothing obliges anybody to call `Open`, `Invalidate` or `Close`,
and a `Close` whose context ends need not be repeated. `SqliteRuntime` assumes that an operation that holds a lease goes
on (its context has a deadline, which interrupts SQLite, sqlite/query.go:103).
`LocalMcp` assumes that a run and a request go on with their next step: `Shutdown`
has a timeout (localmcp/server.go:144) and handlers end because queries do. Nothing
obliges a run to start, stop or be killed. `QueryExecution` assumes that the query's timer
fires (postgres/query.go:111), that a call to the database returns once the context has
ended, and that a clean-up ends, which has deadlines of its own (`cleanupTimeout`, the read and
write timeouts of MySQL's connections; SQLite's is local). A database need not
answer and need not stop sending rows. `BackgroundService` assumes that the process goes on with what
needs nobody else, that its administration and local servers stop when told to, and that its deadline
fires; a request and the pools of a runtime need not end - `closeRuntimeLifecycles` gives
each runtime the deadline its `Close` keeps, which is a step of the openers. `McpToken`,
`ConnectionImport` and `DiscoveryPaging` need no fairness.

*Reading the results of `definition_freshness`.* A definition counts as promised
to later calls when no registrar of its id has an invalidation before it. With
two overlapping imports of one id the second may return while the first still
has to invalidate, and a call made then may be given the client of the older
definition; it is gone when the first import returns.

## Findings

- **Concurrent imports of one id** (`import_overlap`). `Import` holds no lock
  between looking up the definition it replaces and registering its own. Import A
  upserts; B finds A's definition, upserts and registers; A registers, so the
  manager serves A's definition; B deletes A's secret as the old one. Both report
  success, and every use of the source fails on a missing secret until a restart
  or another import. The definition on disk is B's and stays good: that is
  `StoredDefinitionsResolve`, which holds.
- **A failed write that happened** (`import_failed_sync`). `atomicfile.Replace`
  reports the failure of the directory sync after the rename. The stores keep the
  old snapshot in memory while the file is the new one; the tests of both stores
  state that a failed write preserves both. After such a failure of `Upsert` the
  importer deletes the new secret, and a restart loads a definition whose
  secret is gone. `connection_import` therefore leaves this outcome out:
  its properties hold for writes that succeed or leave the file alone.

## What is proved

`OpenerProofs` proves in its first part, for every set of ids, callers and closers and every
bound, from `OpenerAssumption` alone (both bounds are naturals): type correctness
(which no run needs to check any more, here and in the other modules with proofs),
every safety invariant of `pg_opener`, and that the opener implements
`RuntimeHandles`.

None of the invariants is inductive as it stands. `CacheIsCurrent` needs to know
that the attempt in an entry has not published yet and that a cached pool has been
closed by nobody; `SingleFlight` that an attempt nobody cancelled is still the one
in its entry; `CloseReportsTruth` that no attempt starts after the first `Close` and
that only attempts start closers. `IInv` adds

- `AttemptInv`: what `pc[a]` says about `pool[a]`, `outcome[a]`, `cause[a]` and the
  entry of its id (an opening attempt without a cause is the one in its entry);
- `ShutdownInv`: a closed opener has no entries, and `completing` moves on only when
  what it waited for is over for good;
- `CallerInv`: a caller that waits or holds a client knows a started attempt for its
  own id, of a generation no older than its call;
- `CloserInv`: a successful `Close` means that `closeDone` is closed.

The proof has one lemma per conjunct of `IInv`, each with one step per action that
touches it; `QuietOrLoud` splits the actions by whether they touch entries, pools
or attempts at all. The safety theorems follow from `IInv`, and `NextRefines` maps every
step to a step of `RuntimeHandles` or to a stutter.

Its second part does the same for MySQL's cache, with the fairness it is checked under.
`StepsAre` says that a step is one of PostgreSQL's, for which the lemmas
above do, or one of four that are MySQL's own: an error told in its terms (`Tells`), a client
rejected (`Rejects`), a pool closed under its users (`Closes`), a `Close` that times out although it might
have returned (`Expires`). For `CloseReportsErrors` the invariant adds that a pool whose `Close`
failed is closing until its error is joined (`FailedInv`), so that none is on the way
once the closers are done; for `HeldClientsWereCached` that a rejected attempt has no client
to give (`HolderInv`).

`ConnectionImportProofs` proves the invariants of `connection_import` for every set of
ids and requests and any number of secrets, from `ImportAssumption` and
`CleanWrites`: no write that is reported as failed replaced its file, which the
second finding shows to be needed. `StoredDefinitionsResolve` is not inductive: a
request deletes the old secret it looked up some steps ago. `IInv` says whose a
reference is (`RefInv`: ids share none, and each is handed out once), what a request
knows of its new and its old reference at each step (`StepInv`: what it
deletes is in no definition and in nobody's hands), and that what is served
follows what is stored as long as an id is imported by one request at a time
(`QuietInv`).

`McpTokenProofs` proves the invariants of `mcp_token` for any number of tokens, clock
readings and requests, from `TokenAssumption`; only `SavedStateLoads` needs a
clock that is not set back while the process runs (`MaySetClock`). The assumption is
needed: `encode` (store.go:187) compares `rotated_at` with `created_at` as `time.Now` returned
them, and in one process both have monotonic readings, which are compared. The file holds the wall
clocks. If the clock was set back in between, a file is written that `decode` refuses at the
next start, and the token just handed out is answered with 503.
`TokenInv` says that a token is minted once and that a dead one is on no disk and in no
memory, `DiskInv` what the file holds while a mutation is in flight, `RequestInv`
what a request has read, and `ClockInv` how the two clocks of a time agree.

`LocalMcpProofs` proves the safety invariants of `local_mcp` for any number of runs and
proxies. `RunInv` says that a run between lock and unlock is the one holding the lock, and
that only that one has a listener; `RequestInv` that a proxy that tries again
holds the credential of the run that refused it, should that one still serve, so
that a second refusal comes from another run.

`SqliteRuntimeProofs` proves the invariants of `sqlite_runtime` for every set of ids,
entry objects and closers and every finite set of operations, from `SqliteAssumption`.
The counters are numbers and the leases are sets, so each step that counts is shown to
add one holder to, or take one from, the two sets its counters stand for
(`LeaseTaken`, `LeaseReturned`, by the library's facts about finite sets). `OpInv` ties a
connection to a lease, and `DrainInv` says that the drain is closed exactly when the
runtime is closed and counts nobody: once that holds `acquire` refuses, so it holds for good.

The third part of `OpenerProofs` proves the invariants of `definition_freshness`, from
`OpenerAssumption` and `FreshnessAssumption`. Every step of the composition is a
step of the opener or leaves it alone (`OpenerMoves`), so the composition implements the opener
(`OpenerIsPreserved`) and the opener's inductive invariant is used as it stands. What is
added: `FoundInv`, an attempt nobody invalidated since it started has found a definition no
older than what is settled for its id, and the registered one if no invalidation is due; and
`PromiseInv`, the attempt a caller joined finds, or found, what the caller was
promised. Neither invariant of the run is inductive: both hold because an invalidation moves the
generation of the id past every attempt that may have looked too early.

`QueryExecutionProofs` proves `PooledConnectionsAreClean` for any number of queries,
connections and rows and all three engines at once, from `RelationalQueryAssumption`.
The executors have some forty steps, but as far as connections go each is one of five
kinds: `Quiet` and `Idle` touch none, `Take` gets one that is free, `Work` marks
or clears or breaks the one the query has, `Give` returns it clean or lost. `KindKeeps`
shows once that each kind preserves `ConnInv` (whose a connection is, and which marks the
clean-up has cleared at each of its steps), and `PgKind`, `MyKind` and `LiteKind` that
each step of an engine is of one of the kinds.

The second part of `QueryExecutionProofs` proves `BudgetIsExact`, for rows of any length and
every limit. `encodedRowSize` and its MySQL and SQLite forms add up cells, so
what they compute is an induction on the cells already added (`BoundedInduction`, from the
library's theorem on minimal elements of a set, which the provers can use where its induction theorems
take an operator): `RowSizeIsExact` says that the cells and commas of a row make `EncodedRow`, and
`FitIsExact` that each engine's early refusals (a cell longer than the limit, a sum
already past it) refuse nothing that would have fit. `BudgetIsExact` speaks of finished results;
`ResultInv` says of one being read that its budget is the one of what it retained
(`BudgetOf`), with the commas between rows, and that what it refused would not have fit.
Every step leaves a result alone, starts it, retains a row, refuses one, or is past the reading.

Its third part proves `AnswerIsExplained`. An answer is chosen from an error that was
joined from several others on its way, so the invariant is about errors: `Explained` says that
every sentinel and every category in one is told by something that went wrong or by a context
that ended, and `Speaks` that a client is told something by it. Both survive `errors.Join`
(`JoinIs`), and what each engine makes of an error (`PgErrorTells`, `MyErrorTells`,
`LiteErrorTells`). A step of a query fails with such an error (`Fails`), halts in SQLite's loop over
the rows with one that is not projected yet (`Halts`), or goes on (`GoesOn`); `PgAnswer`, `MyAnswer`,
`LiteAnswer` and `ToolAnswer` say so of every action, and `ClassifyTells` that the order of
`ClassifyRelationalQuery` makes a cancelled request a cancelled answer whatever else is joined to it.
Two assumptions are needed. `NoErrorAssumption`: the value for "no error" is none of
the codes. And in `RelationalQueryAssumption`, the fixed parts of an encoded result are at most an eighth of the limit:
otherwise a message that says no more than that the result was too large would itself be too large. The
configuration takes no limit below 65,536 bytes (config.go:24), and those parts are some hundred bytes.

`BackgroundServiceProofs` proves `RuntimesOutliveRequests`, `KeyMatchesStore` and
`CommandsTellTruth` for every set of runtimes and any number of calls of `secrets init`.
`ProcessInv` says what each stage of `Run` knows of its servers: that a stage is
only reached once what it waits for has ended, so that when the runtimes are closed nobody but a request the
deadline of the shutdown gave up on is left (`ClosingRuntimes`), and that no runtime was given up
before (`NoneLeft`). `SecretsInv` adds the step
at which an `init` owns a key without a store. `CommandsTellTruth` is an action property; `ServiceInv` says what a
command knows of the manager at each of its steps (`CleaningUp`, `DefinitionWritten`, `Restarted`), and what
launchd knows (`LaunchdKnows`). A process that survived a clean-up that
failed is the one case in which it may not be known (`StrayIsBroken`).

`DiscoveryProofs` proves both properties of `discovery_paging`, for every finite catalog and any
number of its changes, every limit and search, any constraints, and the three engines, from
`DiscoveryAssumption`. `ListingIsWhole` speaks of the end of a listing; on its way the invariant
counts, at the position the listing has come to, the objects it passed without delivering
them (`Missed`) and those it delivered that are again, or still, before it (`Ahead`), and `Underway`
bounds both. Of columns that are numbered anew, dropping one moves those behind it back, so
that at most one slips past the cursor, and adding one moves them on, so that at most one
comes again: `CatalogKeeps`, from how a rank changes with the set it is counted in (`RankAdds`,
`RankRemoves`). Everything else has a position of its own that no change moves. A page leaves nothing
out between two cursors, and what it repeats was ahead (`ReadKeeps`); what was repeated is paid for
by what is no longer ahead, so the two together never exceed the columns added.
The last page leaves nothing behind it, and `Underway` becomes `Over`. `Told` says
the same of the constraints: whatever page its first column was on, a constraint that was there throughout
is in what was told, because a page's constraints are read after its objects. For
PostgreSQL this needs that the table which was resolved is still the one there is, or that
nothing of the listing is left to be told (`CallInv`: `oid`). `PagingInv` is the conjunction.

`FailuresAreExplained` rests on `AnswerInv`: every sentinel in an error tells something that went
wrong or a context that ended (`Explained`), and once the request was given up, PostgreSQL's
errors have no sentinel of another kind (`Undistracted`); MySQL's and SQLite's may, since they join
what fails while rows or a connection are closed. `PgErrorsAreHonest`, `MyErrorsAreHonest` and
`LiteErrorsAreHonest` say it of what the three classifications make of a failed statement. The some
thirty actions are not proved one by one against both invariants: `ServiceSteps`, `PgSteps`,
`MySteps` and `LiteSteps` show that each is of one of the seven kinds of `CallStep` and fails
honestly (`Failing`) or goes on (`Going`), and each kind is proved once. Both invariants are shown in
one induction: a failed step leaves its page behind only because its error is not empty,
and an honest one is not.

*Only model-checked:* liveness (the prover does not reason about ENABLED).

## Not modelled, and why

Validation of connection strings and of configuration, the commands that are
clients of the administration socket, what the discoverers tell of a column or a constraint (types,
defaults, actions), the table of SQLite authorizer codes, HTTP encoding, logging, and
the access policy that allows everything: they keep no state and nothing in them happens
over time. The MCP SDK, the drivers and the service managers are external, modelled by how the code
uses them. A crash of the machine, as opposed to the process, is not modelled: what a file system does
with a removal it was not asked to sync (mcptoken/local/store.go:160) is outside the
program. The two forwarding goroutines of the stdio proxy are not modelled; each request of `LocalMcp`
stands for one message. `plugins/`, `acceptance/` and the build files are not part of the program.
