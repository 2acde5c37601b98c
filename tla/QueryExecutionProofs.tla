------------------------ MODULE QueryExecutionProofs ------------------------
(***************************************************************************)
(* Proofs about QueryExecution, for every set of queries and connections,  *)
(* any number of them at once, and every limit.                            *)
(*                                                                         *)
(* CleanPool: a connection that nobody holds is clean, and no two queries  *)
(* share one.  Every step is one of five kinds as far as connections go    *)
(* (Quiet, Idle, Take, Work and Give, or a step of discovery); the         *)
(* invariant is kept by each kind, and each action of each engine is shown *)
(* to be of one.                                                           *)
(*                                                                         *)
(* BudgetExact: the bytes counted for a result are those it is encoded in. *)
(* The sums over a row are functions on its indices, so what they compute  *)
(* is proved by induction over the naturals (BoundedInduction).  Every     *)
(* step leaves the result of a query alone, starts it, retains a row,      *)
(* refuses one or is past the reading.                                     *)
(*                                                                         *)
(* AnswersExplained: what a query is answered with tells what happened.    *)
(* Of a query's error the invariant says, at every place on the way, that  *)
(* each sentinel and each category in it is told by something that went    *)
(* wrong or by a context that ended (Explained), and that a client would   *)
(* be told something by it (Speaks).  Joining errors keeps this (JoinIs),  *)
(* and so does what each engine makes of them (PgErrorTells, MyErrorTells, *)
(* LiteErrorTells).  A step of a query then fails with an error that tells *)
(* why (Fails), halts in SQLite's loop over the rows with one that is not  *)
(* projected yet (Halts), or goes on (GoesOn); at the end the tool chooses *)
(* by the sentinels in their order (ClassifyTells).                        *)
(***************************************************************************)
EXTENDS QueryExecution, FiniteSetTheorems, WellFoundedInduction, TLAPS

Mark == {"transaction", "statements", "settings"}

\* Where a query has no connection, and where it has one.
Loose == {"idle", "open", "acquire", "respond", "done"}
Held ==
    {"begin", "query", "rows", "drain", "rollback", "deallocate", "discard", "release", "destroy",
     "prepare", "ended", "close statement", "close client"}

ConnType ==
    /\ pc \in [Queries -> Loose \cup Held]
    /\ conn \in [Queries -> Conns \cup Queries \cup {None}]
    /\ open \in SUBSET (Conns \cup Queries)
    /\ marks \in [Conns \cup Queries -> SUBSET Mark]
    /\ others \in SUBSET Conns

\* The clean-up clears the marks one after the other, the transaction first.
Cleared(at, c) ==
    /\ at \in {"deallocate", "discard"} => "transaction" \notin marks[c]
    /\ at = "release" => c \notin open \/ marks[c] = {}

QueryInv(q) ==
    /\ pc[q] \in Loose => conn[q] = None
    /\ pc[q] \in Held => /\ conn[q] \in IF Pooled THEN Conns ELSE {q}
                         /\ conn[q] \notin others
                         /\ Cleared(pc[q], conn[q])

Apart == \A q, r \in Queries : conn[q] # None /\ conn[q] = conn[r] => q = r

OpenInv ==
    \A c \in open : \/ c \in Conns /\ marks[c] = {}
                    \/ \E q \in Queries : conn[q] = c

ConnInv == (\A q \in Queries : QueryInv(q)) /\ Apart /\ OpenInv

IInv == ConnType /\ ConnInv
---------------------------------------------------------------------------
Quiet == UNCHANGED <<pc, sessions>>

Idle(q) ==
    /\ pc[q] \in Loose
    /\ \E next \in Loose : pc' = [pc EXCEPT ![q] = next]
    /\ UNCHANGED sessions

\* A connection is taken from the pool, or opened for the query.
Take(q) ==
    /\ pc[q] \in Loose
    /\ \E next \in {"begin", "prepare"} : pc' = [pc EXCEPT ![q] = next]
    /\ \E c \in Conns \cup Queries :
          /\ c \in IF Pooled THEN Conns ELSE {q}
          /\ Pooled => Free(c)
          /\ conn' = [conn EXCEPT ![q] = c]
          /\ open' = open \cup {c}
          /\ marks' \in {marks, [marks EXCEPT ![c] = IF c \in open THEN @ ELSE {}]}
    /\ UNCHANGED others

\* Something is done on the connection, which may be down afterwards.
Work(q) ==
    /\ pc[q] \in Held
    /\ \E next \in Held :
          /\ pc' = [pc EXCEPT ![q] = next]
          /\ next \in {"deallocate", "discard"} => "transaction" \notin marks'[conn[q]]
          /\ next = "release" => conn[q] \notin open' \/ marks'[conn[q]] = {}
    /\ open' \in {open, open \ {conn[q]}}
    /\ \E left \in SUBSET Mark : marks' \in {marks, [marks EXCEPT ![conn[q]] = left]}
    /\ UNCHANGED <<conn, others>>

\* The connection is given back clean, or it is down.
Give(q) ==
    /\ pc[q] \in Held
    /\ \E next \in Loose : pc' = [pc EXCEPT ![q] = next]
    /\ conn' = [conn EXCEPT ![q] = None]
    /\ open' \in {open, open \ {conn[q]}}
    /\ conn[q] \in open' => conn[q] \in Conns /\ marks[conn[q]] = {}
    /\ UNCHANGED <<marks, others>>

Kind(q) == Quiet \/ Idle(q) \/ Take(q) \/ Work(q) \/ Give(q)
---------------------------------------------------------------------------
\* A query has no connection, or one.
LEMMA LooseOrHeld == Loose \cap Held = {} /\ {"begin", "prepare"} \subseteq Held
  BY DEF Loose, Held

\* A query has a connection where the places of the code say so.
LEMMA ConnIsNone ==
    ASSUME IInv, NEW q \in Queries
    PROVE  /\ pc[q] \in Loose <=> conn[q] = None
           /\ pc[q] \in Held => conn[q] \in Conns \cup Queries
  BY RelationalQueryAssumption, LooseOrHeld DEF IInv, ConnInv, ConnType, QueryInv

\* Each kind keeps the types.
LEMMA KindKeepsType ==
    ASSUME IInv, NEW q \in Queries, Kind(q)
    PROVE  ConnType'
  <1> USE DEF IInv, ConnType, sessions
  <1>1. CASE Quiet BY <1>1 DEF Quiet
  <1>2. CASE Idle(q) BY <1>2 DEF Idle
  <1>3. CASE Take(q)
    <2>1. PICK c \in Conns \cup Queries :
              /\ conn' = [conn EXCEPT ![q] = c]
              /\ open' = open \cup {c}
              /\ marks' \in {marks, [marks EXCEPT ![c] = IF c \in open THEN @ ELSE {}]}
      BY <1>3 DEF Take
    <2>2. marks' \in [Conns \cup Queries -> SUBSET Mark]
      <3>1. CASE marks' = marks BY <3>1
      <3>2. CASE marks' = [marks EXCEPT ![c] = IF c \in open THEN @ ELSE {}] BY <3>2
      <3>3. QED BY <2>1, <3>1, <3>2
    <2>3. pc' \in [Queries -> Loose \cup Held] BY <1>3, LooseOrHeld DEF Take
    <2>4. QED BY <1>3, <2>1, <2>2, <2>3 DEF Take
  <1>4. CASE Work(q)
    <2>1. PICK left \in SUBSET Mark : marks' \in {marks, [marks EXCEPT ![conn[q]] = left]}
      BY <1>4 DEF Work
    <2>2. marks' \in [Conns \cup Queries -> SUBSET Mark]
      <3>1. CASE marks' = marks BY <3>1
      <3>2. CASE marks' = [marks EXCEPT ![conn[q]] = left] BY <3>2
      <3>3. QED BY <2>1, <3>1, <3>2
    <2>3. pc' \in [Queries -> Loose \cup Held] BY <1>4 DEF Work
    <2>4. QED BY <1>4, <2>2, <2>3 DEF Work
  <1>5. CASE Give(q) BY <1>5 DEF Give
  <1>6. QED BY <1>1, <1>2, <1>3, <1>4, <1>5 DEF Kind
---------------------------------------------------------------------------
\* A step of one query on its own connection leaves the others' as they are.
LEMMA OthersKeep ==
    ASSUME IInv, NEW q \in Queries, NEW p \in Queries \ {q}, UNCHANGED <<engine, others>>,
           pc'[p] = pc[p], conn'[p] = conn[p],
           conn[p] # None => (conn[p] \in open' => conn[p] \in open) /\ marks'[conn[p]] = marks[conn[p]]
    PROVE  QueryInv(p)'
  <1>1. CASE pc[p] \in Loose
    <2>1. QueryInv(p) BY DEF IInv, ConnInv
    <2>2. QED BY <1>1, <2>1, LooseOrHeld DEF QueryInv
  <1>2. CASE pc[p] \in Held
    <2>1. QueryInv(p) /\ conn[p] # None BY <1>2, ConnIsNone, LooseOrHeld DEF IInv, ConnInv
    <2>2. QED BY <1>2, <2>1, LooseOrHeld DEF QueryInv, Cleared, Pooled
  <1>3. QED BY <1>1, <1>2 DEF IInv, ConnType

\* Taking a clean connection nobody holds keeps the invariant of the connections,
LEMMA TakeKeeps ==
    ASSUME IInv, NEW q \in Queries, Take(q), engine' = engine
    PROVE  ConnInv'
  <1> USE DEF IInv, ConnType
  <1>1. PICK c \in Conns \cup Queries :
            /\ c \in IF Pooled THEN Conns ELSE {q}
            /\ Pooled => Free(c)
            /\ conn' = [conn EXCEPT ![q] = c]
            /\ open' = open \cup {c}
            /\ marks' \in {marks, [marks EXCEPT ![c] = IF c \in open THEN @ ELSE {}]}
            /\ UNCHANGED others
    BY DEF Take
  <1>2. PICK next \in {"begin", "prepare"} : pc' = [pc EXCEPT ![q] = next]
    BY DEF Take
  <1>3. c # None BY <1>1, RelationalQueryAssumption
  <1>4. c \notin others /\ \A p \in Queries : conn[p] # c
    <2>1. CASE Pooled BY <1>1, <2>1 DEF Free
    <2>2. CASE ~Pooled
      <3>1. c = q /\ q \notin others BY <1>1, <2>2, RelationalQueryAssumption
      <3>2. ASSUME NEW p \in Queries, conn[p] = c PROVE FALSE
        <4>1. pc[p] \in Held BY <1>3, <3>2, ConnIsNone
        <4>2. conn[p] = p BY <2>2, <4>1 DEF ConnInv, QueryInv
        <4>3. QED BY <3>1, <3>2, <4>1, <4>2, LooseOrHeld DEF Take
      <3>3. QED BY <3>1, <3>2
    <2>3. QED BY <2>1, <2>2
  <1>5. ASSUME NEW d \in Conns \cup Queries, d # c
        PROVE  marks'[d] = marks[d] /\ (d \in open' <=> d \in open)
    BY <1>1, <1>5
  <1>6. ASSUME NEW p \in Queries \ {q} PROVE QueryInv(p)'
    <2>1. conn[p] # None => conn[p] \in Conns \cup Queries /\ conn[p] # c BY <1>4
    <2>2. pc'[p] = pc[p] /\ conn'[p] = conn[p] BY <1>1, <1>2
    <2>3. UNCHANGED <<engine, others>> BY <1>1
    <2>4. QED BY <1>5, <2>1, <2>2, <2>3, OthersKeep
  <1>7. QueryInv(q)'
    <2>1. pc'[q] = next /\ conn'[q] = c BY <1>1, <1>2
    <2>2. next \in Held /\ next \notin Loose /\ next \notin {"deallocate", "discard", "release"}
      BY LooseOrHeld
    <2>3. QED BY <1>1, <1>4, <2>1, <2>2 DEF QueryInv, Cleared, Pooled
  <1>8. Apart' BY <1>1, <1>4 DEF ConnInv, Apart
  <1>9. OpenInv'
    <2> SUFFICES ASSUME NEW d \in open'
                 PROVE  (d \in Conns /\ marks'[d] = {}) \/ \E p \in Queries : conn'[p] = d
      BY DEF OpenInv
    <2>1. CASE d = c BY <1>1, <2>1
    <2>2. CASE d # c
      <3>1. d \in open /\ marks'[d] = marks[d] BY <1>1, <1>5, <2>2
      <3>2. conn[q] = None BY ConnIsNone DEF Take
      <3>3. None \notin open BY RelationalQueryAssumption
      <3>4. QED BY <1>1, <3>1, <3>2, <3>3 DEF ConnInv, OpenInv
    <2>3. QED BY <2>1, <2>2
  <1>10. QED BY <1>6, <1>7, <1>8, <1>9 DEF ConnInv

\* working on one's own does,
LEMMA WorkKeeps ==
    ASSUME IInv, NEW q \in Queries, Work(q), engine' = engine
    PROVE  ConnInv'
  <1> USE DEF IInv, ConnType
  <1>1. conn[q] \in Conns \cup Queries /\ conn' = conn /\ others' = others
    BY ConnIsNone DEF Work
  <1>2. PICK next \in Held :
            /\ pc' = [pc EXCEPT ![q] = next]
            /\ next \in {"deallocate", "discard"} => "transaction" \notin marks'[conn[q]]
            /\ next = "release" => conn[q] \notin open' \/ marks'[conn[q]] = {}
    BY DEF Work
  <1>3. ASSUME NEW d \in Conns \cup Queries, d # conn[q]
        PROVE  marks'[d] = marks[d] /\ (d \in open' <=> d \in open)
    BY <1>1, <1>3 DEF Work
  <1>4. open' \subseteq open BY DEF Work
  <1>5. ASSUME NEW p \in Queries \ {q} PROVE QueryInv(p)'
    <2>1. conn[p] # None => conn[p] \in Conns \cup Queries /\ conn[p] # conn[q]
      BY DEF ConnInv, Apart
    <2>2. pc'[p] = pc[p] /\ conn'[p] = conn[p] BY <1>1, <1>2
    <2>3. QED BY <1>1, <1>3, <2>1, <2>2, OthersKeep
  <1>6. QueryInv(q)'
    <2>1. pc'[q] = next /\ next \notin Loose BY <1>2, LooseOrHeld
    <2>2. QueryInv(q) /\ pc[q] \in Held BY DEF ConnInv, Work
    <2>3. QED BY <1>1, <1>2, <2>1, <2>2 DEF QueryInv, Cleared, Pooled
  <1>7. Apart' BY <1>1 DEF ConnInv, Apart
  <1>8. OpenInv' BY <1>1, <1>3, <1>4 DEF ConnInv, OpenInv
  <1>9. QED BY <1>5, <1>6, <1>7, <1>8 DEF ConnInv

\* and so does giving it up: clean to the pool, or destroyed.
LEMMA GiveKeeps ==
    ASSUME IInv, NEW q \in Queries, Give(q), engine' = engine
    PROVE  ConnInv'
  <1> USE DEF IInv, ConnType
  <1>1. /\ conn[q] \in Conns \cup Queries /\ conn' = [conn EXCEPT ![q] = None]
        /\ UNCHANGED <<marks, others>>
        /\ open' \in {open, open \ {conn[q]}}
        /\ conn[q] \in open' => conn[q] \in Conns /\ marks[conn[q]] = {}
    BY ConnIsNone DEF Give
  <1>2. PICK next \in Loose : pc' = [pc EXCEPT ![q] = next] BY DEF Give
  <1>3. ASSUME NEW p \in Queries \ {q} PROVE QueryInv(p)'
    <2>1. conn[p] # None => conn[p] # conn[q] BY DEF ConnInv, Apart
    <2>2. pc'[p] = pc[p] /\ conn'[p] = conn[p] BY <1>1, <1>2
    <2>3. conn[p] # None => (conn[p] \in open' => conn[p] \in open) BY <1>1
    <2>4. QED BY <1>1, <2>2, <2>3, OthersKeep
  <1>4. QueryInv(q)'
    <2>1. pc'[q] = next /\ next \notin Held /\ conn'[q] = None BY <1>1, <1>2, LooseOrHeld
    <2>2. QED BY <2>1 DEF QueryInv
  <1>5. Apart' BY <1>1 DEF ConnInv, Apart
  <1>6. OpenInv'
    <2> SUFFICES ASSUME NEW d \in open'
                 PROVE  (d \in Conns /\ marks[d] = {}) \/ \E p \in Queries : conn'[p] = d
      BY <1>1 DEF OpenInv
    <2>1. CASE d = conn[q] BY <1>1, <2>1
    <2>2. CASE d # conn[q]
      <3>1. d \in open BY <1>1
      <3>2. CASE d \in Conns /\ marks[d] = {} BY <3>2
      <3>3. ASSUME NEW p \in Queries, conn[p] = d PROVE conn'[p] = d BY <1>1, <2>2, <3>3
      <3>4. QED BY <3>1, <3>2, <3>3 DEF ConnInv, OpenInv
    <2>3. QED BY <2>1, <2>2
  <1>7. QED BY <1>3, <1>4, <1>5, <1>6 DEF ConnInv

\* Each kind keeps the invariant.
LEMMA KindKeeps ==
    ASSUME IInv, NEW q \in Queries, Kind(q), engine' = engine
    PROVE  IInv'
  <1>1. ConnType' BY KindKeepsType
  <1>2. CASE Quiet
    BY <1>1, <1>2 DEF IInv, ConnInv, QueryInv, Apart, OpenInv, Cleared, Quiet, sessions, Pooled
  <1>3. CASE Idle(q)
    <2>1. PICK next \in Loose : pc' = [pc EXCEPT ![q] = next] BY <1>3 DEF Idle
    <2>2. UNCHANGED <<conn, open, marks, others>> BY <1>3 DEF Idle, sessions
    <2>3. ASSUME NEW p \in Queries \ {q} PROVE QueryInv(p)'
      <3>1. pc'[p] = pc[p] BY <2>1 DEF IInv, ConnType
      <3>2. QED BY <2>2, <3>1, OthersKeep
    <2>4. QueryInv(q)'
      <3>1. pc'[q] = next /\ next \notin Held BY <2>1, LooseOrHeld DEF IInv, ConnType
      <3>2. conn[q] = None BY <1>3, ConnIsNone DEF Idle
      <3>3. QED BY <2>2, <3>1, <3>2 DEF QueryInv
    <2>5. Apart' /\ OpenInv' BY <2>2 DEF IInv, ConnInv, Apart, OpenInv
    <2>6. QED BY <1>1, <2>3, <2>4, <2>5 DEF IInv, ConnInv
  <1>4. QED BY <1>1, <1>2, <1>3, TakeKeeps, WorkKeeps, GiveKeeps DEF Kind, IInv

\* Discovery takes connections that are free and gives them back as they were.
LEMMA DiscoveryKeeps ==
    ASSUME IInv, NEW c \in Conns, BorrowConnection(c) \/ ReturnConnection(c)
    PROVE  IInv'
  <1> USE DEF IInv, ConnType
  <1>1. CASE BorrowConnection(c)
    <2>1. /\ Free(c) /\ others' = others \cup {c} /\ open' = open \cup {c}
          /\ marks' = [marks EXCEPT ![c] = IF c \in open THEN @ ELSE {}]
          /\ UNCHANGED <<engine, pc, conn>>
      BY <1>1 DEF BorrowConnection, config
    <2>2. marks'[c] = {}
      BY <2>1 DEF ConnInv, OpenInv, Free
    <2>3. ConnType' BY <2>1
    <2>4. ASSUME NEW p \in Queries PROVE QueryInv(p)'
      <3>1. conn[p] # c BY <2>1 DEF Free
      <3>2. conn[p] # None => /\ conn[p] \in open' => conn[p] \in open
                              /\ marks'[conn[p]] = marks[conn[p]]
        BY <2>1, <3>1
      <3>3. QueryInv(p) BY DEF ConnInv
      <3>4. pc[p] \in Held => conn[p] # None BY ConnIsNone, LooseOrHeld
      <3>5. QED BY <2>1, <3>1, <3>2, <3>3, <3>4 DEF QueryInv, Cleared, Pooled
    <2>5. Apart' BY <2>1 DEF ConnInv, Apart
    <2>6. OpenInv' BY <2>1, <2>2 DEF ConnInv, OpenInv
    <2>7. QED BY <2>3, <2>4, <2>5, <2>6 DEF ConnInv
  <1>2. CASE ReturnConnection(c)
    BY <1>2 DEF ReturnConnection, config, ConnInv, QueryInv, Apart, OpenInv, Cleared, Pooled
  <1>3. QED BY <1>1, <1>2
---------------------------------------------------------------------------
(***************************************************************************)
(* What kind of step each action is.                                       *)
(***************************************************************************)

\* The tool, the service and the query's context.
LEMMA ToolKind ==
    ASSUME IInv, NEW q \in Queries,
           \/ RefuseRequest(q) \/ QueryRelationalDatabase(q) \/ Respond(q) \/ NextRequest(q)
           \/ CancelRequest(q) \/ QueryTimeout(q)
    PROVE  Kind(q) /\ engine' = engine
  <1> USE DEF Kind, Loose, Go, config
  <1>1. CASE RefuseRequest(q) BY <1>1 DEF RefuseRequest, Idle
  <1>2. CASE QueryRelationalDatabase(q) BY <1>2 DEF QueryRelationalDatabase, Idle
  <1>3. CASE Respond(q) BY <1>3 DEF Respond, Idle
  <1>4. CASE NextRequest(q) BY <1>4 DEF NextRequest, Idle
  <1>5. CASE CancelRequest(q) BY <1>5 DEF CancelRequest, Quiet
  <1>6. CASE QueryTimeout(q) BY <1>6 DEF QueryTimeout, Quiet
  <1>7. QED BY <1>1, <1>2, <1>3, <1>4, <1>5, <1>6

\* A step that only moves on, as most of those that have a connection.
LEMMA MovesOn ==
    ASSUME NEW q \in Queries, pc[q] \in Held,
           NEW next \in Held \ {"deallocate", "discard", "release"}, Go(q, next),
           open' \in {open, open \ {conn[q]}}, UNCHANGED <<conn, marks, others>>
    PROVE  Work(q)
  BY DEF Work, Go

\* The loop over the rows is the same for every engine.
LEMMA RowKind ==
    ASSUME IInv, NEW q \in Queries, NEW row, NEW sizes, NEW fit, NEW after \in {"drain", "ended"},
           ReadRow(q, row, sizes, fit, after)
    PROVE  Kind(q) /\ engine' = engine
  <1>1. UNCHANGED sessions /\ engine' = engine /\ pc[q] = "rows" BY DEF ReadRow, config
  <1>2. Go(q, after) \/ UNCHANGED pc BY DEF ReadRow
  <1>3. CASE UNCHANGED pc BY <1>1, <1>3 DEF Kind, Quiet
  <1>4. CASE Go(q, after)
    <2>1. after \in Held \ {"deallocate", "discard", "release"} /\ pc[q] \in Held
      BY <1>1 DEF Held
    <2>2. UNCHANGED <<conn, open, marks, others>> BY <1>1 DEF sessions
    <2>3. QED BY <1>1, <1>4, <2>1, <2>2, MovesOn DEF Kind
  <1>5. QED BY <1>2, <1>3, <1>4

\* The end of the reading is told apart by where the query goes.
LEMMA StartGoes ==
    ASSUME NEW q \in Queries, NEW after, StartResult(q, after)
    PROVE  Go(q, "rows") \/ Go(q, after)
  BY DEF StartResult

\* What a query may have left in its session.
LEMMA LeavesMarks ==
    ASSUME IInv, NEW q \in Queries, pc[q] = "query", UNCHANGED <<conn, open, others>>,
           NEW left \in SUBSET Mark, marks' = [marks EXCEPT ![conn[q]] = @ \cup left],
           NEW next \in {"query", "rows", "drain", "rollback"}, Go(q, next)
    PROVE  Work(q)
  <1>1. pc[q] \in Held /\ next \in Held BY DEF Held
  <1>2. conn[q] \in Conns \cup Queries BY <1>1, ConnIsNone
  <1>3. marks[conn[q]] \cup left \in SUBSET Mark BY <1>2 DEF IInv, ConnType
  <1>4. QED BY <1>1, <1>3 DEF Work, Go

\* A transaction begins.
LEMMA BeginsTransaction ==
    ASSUME IInv, NEW q \in Queries, pc[q] = "begin", UNCHANGED <<conn, open, others>>,
           marks' = [marks EXCEPT ![conn[q]] = @ \cup {"transaction"}], Go(q, "query")
    PROVE  Work(q)
  <1>1. pc[q] \in Held /\ "query" \in Held BY DEF Held
  <1>2. conn[q] \in Conns \cup Queries BY <1>1, ConnIsNone
  <1>3. marks[conn[q]] \cup {"transaction"} \in SUBSET Mark BY <1>2 DEF IInv, ConnType, Mark
  <1>4. QED BY <1>1, <1>3 DEF Work, Go

\* PostgreSQL: the clean-up of a connection, then Release or Destroy.
LEMMA PgCleanUpKind ==
    ASSUME IInv, engine = "postgres", NEW q \in Queries,
           PgRollback(q) \/ PgDeallocateAll(q) \/ PgDiscardAll(q) \/ PgRelease(q) \/ PgDestroy(q)
    PROVE  Kind(q) /\ engine' = engine
  <1>1. ASSUME NEW at \in {"rollback", "deallocate", "discard"}, NEW clears \in SUBSET Mark,
               NEW next \in Held, PgCleanUpStep(q, at, clears, next),
               next \in {"deallocate", "discard"} => "transaction" \in clears \/ at = "deallocate",
               next = "release" => at = "discard" /\ {"statements", "settings"} \subseteq clears
        PROVE  Work(q) /\ engine' = engine
    <2>1. pc[q] = at /\ at \in Held /\ "destroy" \in Held BY <1>1 DEF PgCleanUpStep, Held
    <2>2. conn[q] \in Conns \cup Queries /\ marks[conn[q]] \in SUBSET Mark
      BY <2>1, ConnIsNone DEF IInv, ConnType
    <2>3. UNCHANGED <<engine, conn, open, others>> BY <1>1 DEF PgCleanUpStep, config
    <2>4. CASE Go(q, "destroy") /\ UNCHANGED marks
      BY <2>1, <2>3, <2>4, MovesOn
    <2>5. CASE marks' = [marks EXCEPT ![conn[q]] = @ \ clears] /\ Go(q, next)
      <3>1. marks'[conn[q]] = marks[conn[q]] \ clears BY <2>2, <2>5 DEF IInv, ConnType
      <3>2. at \in {"deallocate", "discard"} => "transaction" \notin marks[conn[q]]
        BY <2>1 DEF IInv, ConnInv, QueryInv, Cleared
      <3>3. next \in {"deallocate", "discard"} => "transaction" \notin marks'[conn[q]]
        BY <1>1, <3>1, <3>2
      <3>4. next = "release" => marks'[conn[q]] = {}
        BY <1>1, <2>2, <3>1, <3>2 DEF Mark
      <3>5. marks[conn[q]] \ clears \in SUBSET Mark BY <2>2
      <3>6. QED BY <2>1, <2>3, <2>5, <3>3, <3>4, <3>5 DEF Work, Go
    <2>6. QED BY <1>1, <2>3, <2>4, <2>5 DEF PgCleanUpStep
  <1>2. CASE PgRollback(q) BY <1>1, <1>2 DEF PgRollback, Kind, Mark, Held
  <1>3. CASE PgDeallocateAll(q) BY <1>1, <1>3 DEF PgDeallocateAll, Kind, Mark, Held
  <1>4. CASE PgDiscardAll(q) BY <1>1, <1>4 DEF PgDiscardAll, Kind, Mark, Held
  <1>5. CASE PgRelease(q)
    <2>1. pc[q] = "release" /\ pc[q] \in Held /\ "respond" \in Loose
      BY <1>5 DEF PgRelease, Held, Loose
    <2>2. conn[q] \in Conns /\ (conn[q] \in open => marks[conn[q]] = {})
      BY <2>1 DEF IInv, ConnInv, QueryInv, Cleared, Pooled
    <2>3. QED BY <1>5, <2>1, <2>2 DEF PgRelease, Kind, Give, Go, config
  <1>6. CASE PgDestroy(q)
    <2>1. pc[q] \in Held /\ "respond" \in Loose BY <1>6 DEF PgDestroy, Held, Loose
    <2>2. QED BY <1>6, <2>1 DEF PgDestroy, Kind, Give, Go, config
  <1>7. QED BY <1>2, <1>3, <1>4, <1>5, <1>6

\* PostgreSQL: the opening, the query and its rows.
LEMMA PgKind ==
    ASSUME IInv, NEW q \in Queries, PgNext(q)
    PROVE  Kind(q) /\ engine' = engine
  <1>1. engine = "postgres" BY DEF PgNext
  <1>2. CASE PgOpen(q)
    BY <1>2 DEF PgOpen, PgFails, Go, Kind, Idle, Loose, config
  <1>3. CASE PgAcquire(q)
    <2>1. pc[q] \in Loose /\ engine' = engine BY <1>3 DEF PgAcquire, Loose, config
    <2>2. CASE Go(q, "respond") /\ UNCHANGED sessions
      BY <2>1, <2>2 DEF Kind, Idle, Go, Loose
    <2>3. ASSUME NEW c \in Conns, Free(c), conn' = [conn EXCEPT ![q] = c], open' = open \cup {c},
                 marks' = [marks EXCEPT ![c] = IF c \in open THEN @ ELSE {}], Go(q, "begin"),
                 UNCHANGED others
          PROVE  Take(q)
      BY <1>1, <2>1, <2>3 DEF Take, Go, Pooled
    <2>4. QED BY <1>3, <2>1, <2>2, <2>3 DEF PgAcquire, PgFails, Kind
  <1>4. CASE PgBegin(q)
    <2>1. pc[q] = "begin" /\ UNCHANGED <<engine, conn, others>> BY <1>4 DEF PgBegin, config
    <2>2. pc[q] \in Held /\ "release" \in Held BY <2>1 DEF Held
    <2>3. CASE Go(q, "release") /\ open' = open \ {conn[q]} /\ UNCHANGED marks
      BY <2>1, <2>2, <2>3 DEF Work, Go, Kind
    <2>4. QED BY <1>4, <2>1, <2>3, BeginsTransaction DEF PgBegin, PgFails, Kind
  <1>5. CASE PgQuery(q)
    <2>1. pc[q] = "query" /\ UNCHANGED <<engine, conn, others>> BY <1>5 DEF PgQuery, config
    <2>2. pc[q] \in Held /\ "rollback" \in Held BY <2>1 DEF Held
    <2>3. CASE Go(q, "rollback") /\ open' \in {open, open \ {conn[q]}} /\ UNCHANGED marks
      BY <2>1, <2>2, <2>3, MovesOn DEF Kind
    <2>4. ASSUME NEW left \in {{}, {"statements", "settings"}},
                 marks' = [marks EXCEPT ![conn[q]] = @ \cup left], UNCHANGED open,
                 Go(q, "rows") \/ Go(q, "drain") \/ Go(q, "rollback")
          PROVE  Work(q)
      BY <2>1, <2>4, LeavesMarks DEF Mark
    <2>5. QED BY <1>5, <2>1, <2>3, <2>4, StartGoes DEF PgQuery, PgFails, Drop, Kind
  <1>6. CASE PgRow(q) BY <1>6, RowKind DEF PgRow
  <1>7. CASE PgRowsEnd(q) \/ PgDrain(q)
    <2>1. pc[q] \in Held /\ "rollback" \in Held BY <1>7 DEF PgRowsEnd, PgDrain, Held
    <2>2. Go(q, "rollback") /\ open' \in {open, open \ {conn[q]}}
      BY <1>7 DEF PgRowsEnd, PgDrain, PgFails, Drop
    <2>3. UNCHANGED <<engine, conn, marks, others>> BY <1>7 DEF PgRowsEnd, PgDrain, config
    <2>4. QED BY <2>1, <2>2, <2>3, MovesOn DEF Kind
  <1>8. QED BY <1>1, <1>2, <1>3, <1>4, <1>5, <1>6, <1>7, PgCleanUpKind DEF PgNext

\* MySQL: a used connection is never kept.
LEMMA MyKind ==
    ASSUME IInv, NEW q \in Queries, MyNext(q)
    PROVE  Kind(q) /\ engine' = engine
  <1>1. engine = "mysql" BY DEF MyNext
  <1>2. CASE MyOpen(q)
    BY <1>2 DEF MyOpen, MyFails, Go, Kind, Idle, Loose, config
  <1>3. CASE MyAcquire(q)
    <2>1. pc[q] \in Loose /\ engine' = engine BY <1>3 DEF MyAcquire, Loose, config
    <2>2. CASE Go(q, "respond") /\ UNCHANGED sessions
      BY <2>1, <2>2 DEF Kind, Idle, Go, Loose
    <2>3. ASSUME NEW c \in Conns, Free(c), conn' = [conn EXCEPT ![q] = c], open' = open \cup {c},
                 marks' = [marks EXCEPT ![c] = IF c \in open THEN @ ELSE {}], Go(q, "begin"),
                 UNCHANGED others
          PROVE  Take(q)
      BY <1>1, <2>1, <2>3 DEF Take, Go, Pooled
    <2>4. QED BY <1>3, <2>1, <2>2, <2>3 DEF MyAcquire, MyFails, Kind
  <1>4. CASE MyBegin(q)
    <2>1. pc[q] = "begin" /\ UNCHANGED <<engine, conn, others>> BY <1>4 DEF MyBegin, config
    <2>2. pc[q] \in Held /\ "destroy" \in Held BY <2>1 DEF Held
    <2>3. CASE Go(q, "destroy") /\ open' \in {open, open \ {conn[q]}} /\ UNCHANGED marks
      BY <2>1, <2>2, <2>3, MovesOn DEF Kind
    <2>4. QED BY <1>4, <2>1, <2>3, BeginsTransaction DEF MyBegin, MyFails, Drop, Kind
  <1>5. CASE MyQuery(q)
    <2>1. pc[q] = "query" /\ UNCHANGED <<engine, conn, others>> BY <1>5 DEF MyQuery, config
    <2>2. pc[q] \in Held /\ "rollback" \in Held BY <2>1 DEF Held
    <2>3. CASE Go(q, "rollback") /\ open' \in {open, open \ {conn[q]}} /\ UNCHANGED marks
      BY <2>1, <2>2, <2>3, MovesOn DEF Kind
    <2>4. ASSUME NEW left \in {{}, {"statements", "settings"}},
                 marks' = [marks EXCEPT ![conn[q]] = @ \cup left], UNCHANGED open,
                 Go(q, "rows") \/ Go(q, "drain")
          PROVE  Work(q)
      BY <2>1, <2>4, LeavesMarks DEF Mark
    <2>5. QED BY <1>5, <2>1, <2>3, <2>4, StartGoes DEF MyQuery, MyFails, Drop, Kind
  <1>6. CASE MyRow(q)
    <2>1. CASE MyUnknownValue(q)
      <3>1. pc[q] \in Held /\ "drain" \in Held BY <2>1 DEF MyUnknownValue, Held
      <3>2. Go(q, "drain") /\ UNCHANGED <<engine, conn, open, marks, others>>
        BY <2>1 DEF MyUnknownValue, config, sessions
      <3>3. QED BY <3>1, <3>2, MovesOn DEF Kind
    <2>2. QED BY <1>6, <2>1, RowKind DEF MyRow
  <1>7. CASE MyRowsEnd(q) \/ MyDrain(q)
    <2>1. pc[q] \in Held /\ "rollback" \in Held BY <1>7 DEF MyRowsEnd, MyDrain, Held
    <2>2. Go(q, "rollback") /\ open' \in {open, open \ {conn[q]}}
      BY <1>7 DEF MyRowsEnd, MyDrain, MyFails, Drop
    <2>3. UNCHANGED <<engine, conn, marks, others>> BY <1>7 DEF MyRowsEnd, MyDrain, config
    <2>4. QED BY <2>1, <2>2, <2>3, MovesOn DEF Kind
  <1>8. CASE MyRollback(q)
    <2>1. pc[q] \in Held /\ "destroy" \in Held /\ Go(q, "destroy")
          /\ UNCHANGED <<engine, conn, open, others>>
      BY <1>8 DEF MyRollback, Held, config
    <2>2. CASE UNCHANGED marks BY <2>1, <2>2, MovesOn DEF Kind
    <2>3. CASE marks' = [marks EXCEPT ![conn[q]] = @ \ {"transaction"}]
      <3>1. conn[q] \in Conns \cup Queries BY <2>1, ConnIsNone
      <3>2. marks[conn[q]] \ {"transaction"} \in SUBSET Mark BY <3>1 DEF IInv, ConnType
      <3>3. QED BY <2>1, <2>3, <3>2 DEF Work, Go, Kind
    <2>4. QED BY <1>8, <2>1, <2>2, <2>3 DEF MyRollback
  <1>9. CASE MyDestroy(q)
    <2>1. pc[q] \in Held /\ "respond" \in Loose BY <1>9 DEF MyDestroy, Held, Loose
    <2>2. QED BY <1>9, <2>1 DEF MyDestroy, Kind, Give, Go, config
  <1>10. QED BY <1>2, <1>3, <1>4, <1>5, <1>6, <1>7, <1>8, <1>9 DEF MyNext

\* SQLite: a connection is opened and closed for each query.
LEMMA LiteKind ==
    ASSUME IInv, NEW q \in Queries, LiteNext(q)
    PROVE  Kind(q) /\ engine' = engine
  <1>1. engine = "sqlite" BY DEF LiteNext
  <1>2. CASE LiteOpen(q)
    <2>1. pc[q] \in Loose /\ UNCHANGED <<engine, marks, others>>
      BY <1>2 DEF LiteOpen, Loose, config
    <2>2. CASE Go(q, "respond") /\ UNCHANGED <<conn, open>>
      BY <2>1, <2>2 DEF Kind, Idle, Go, Loose, sessions
    <2>3. CASE conn' = [conn EXCEPT ![q] = q] /\ open' = open \cup {q} /\ Go(q, "prepare")
      BY <1>1, <2>1, <2>3 DEF Kind, Take, Go, Pooled
    <2>4. QED BY <1>2, <2>1, <2>2, <2>3 DEF LiteOpen, LiteFails
  <1>3. CASE LitePrepare(q)
    <2>1. pc[q] \in Held /\ UNCHANGED <<engine, conn, open, marks, others>>
      BY <1>3 DEF LitePrepare, Held, config, sessions
    <2>2. \E next \in {"rows", "ended", "close client", "close statement"} : Go(q, next)
      BY <1>3, StartGoes DEF LitePrepare, LiteFails
    <2>3. {"rows", "ended", "close client", "close statement"} \subseteq
            Held \ {"deallocate", "discard", "release"}
      BY DEF Held
    <2>4. QED BY <2>1, <2>2, <2>3, MovesOn DEF Kind
  <1>4. CASE LiteRow(q) BY <1>4, RowKind DEF LiteRow
  <1>5. CASE LiteStepEnds(q) \/ LiteReadEnds(q) \/ LiteCloseStatement(q)
    <2>1. pc[q] \in Held /\ UNCHANGED <<engine, conn, open, marks, others>>
      BY <1>5 DEF LiteStepEnds, LiteReadEnds, LiteCloseStatement, Held, config, sessions
    <2>2. \E next \in {"ended", "close client", "close statement"} : Go(q, next)
      BY <1>5 DEF LiteStepEnds, LiteReadEnds, LiteCloseStatement, LiteFails
    <2>3. {"ended", "close client", "close statement"} \subseteq
            Held \ {"deallocate", "discard", "release"}
      BY DEF Held
    <2>4. QED BY <2>1, <2>2, <2>3, MovesOn DEF Kind
  <1>6. CASE LiteCloseClient(q)
    <2>1. pc[q] \in Held /\ "respond" \in Loose BY <1>6 DEF LiteCloseClient, Held, Loose
    <2>2. conn[q] = q BY <1>1, <2>1 DEF IInv, ConnInv, QueryInv, Pooled
    <2>3. Go(q, "respond") BY <1>6 DEF LiteCloseClient, LiteFails
    <2>4. QED BY <1>6, <2>1, <2>2, <2>3 DEF LiteCloseClient, Kind, Give, Go, config
  <1>7. QED BY <1>2, <1>3, <1>4, <1>5, <1>6 DEF LiteNext
---------------------------------------------------------------------------
\* The invariant the theorems rest on.
THEOREM InductiveInvariant == Spec => []IInv
  <1>1. Init => IInv
    <2> SUFFICES ASSUME Init PROVE IInv
      OBVIOUS
    <2>1. ConnType BY DEF Init, ConnType, Loose
    <2>2. \A q \in Queries : pc[q] = "idle" /\ conn[q] = None BY DEF Init
    <2>3. "idle" \in Loose /\ "idle" \notin Held BY DEF Loose, Held
    <2>4. \A q \in Queries : QueryInv(q) BY <2>2, <2>3 DEF QueryInv
    <2>5. Apart BY <2>2 DEF Apart
    <2>6. OpenInv BY DEF Init, OpenInv
    <2>7. QED BY <2>1, <2>4, <2>5, <2>6 DEF IInv, ConnInv
  <1>2. IInv /\ [Next]_vars => IInv'
    <2> SUFFICES ASSUME IInv, [Next]_vars PROVE IInv'
      OBVIOUS
    <2>1. ASSUME NEW q \in Queries,
                 \/ RefuseRequest(q) \/ QueryRelationalDatabase(q) \/ Respond(q) \/ NextRequest(q)
                 \/ CancelRequest(q) \/ QueryTimeout(q)
                 \/ PgNext(q) \/ MyNext(q) \/ LiteNext(q)
          PROVE  IInv'
      BY <2>1, ToolKind, PgKind, MyKind, LiteKind, KindKeeps
    <2>2. CASE UNCHANGED vars
      BY <2>2 DEF IInv, ConnType, ConnInv, QueryInv, Apart, OpenInv, Cleared, Pooled, vars, config,
        sessions
    <2>3. QED BY <2>1, <2>2, DiscoveryKeeps DEF Next
  <1>3. QED BY <1>1, <1>2, PTL DEF Spec

(* Whatever fails or times out in between, a connection that nobody holds  *)
(* is in no transaction and keeps nothing of the last query, no two        *)
(* queries share one, and a query that has ended has none.                 *)
THEOREM CleanPool == Spec => []PooledConnectionsAreClean
  <1>1. IInv => PooledConnectionsAreClean
    <2> SUFFICES ASSUME IInv PROVE PooledConnectionsAreClean
      OBVIOUS
    <2>1. \A c \in open : Holders(c) = {} => c \in Conns /\ marks[c] = {}
      BY DEF IInv, ConnInv, OpenInv, Holders
    <2>2. ASSUME NEW c \in Conns PROVE Cardinality(Holders(c)) <= 1
      <3>1. CASE Holders(c) = {} BY <3>1, FS_EmptySet
      <3>2. CASE Holders(c) # {}
        <4>1. PICK q \in Queries : conn[q] = c BY <3>2 DEF Holders
        <4>2. c # None BY RelationalQueryAssumption
        <4>3. Holders(c) = {q} BY <4>1, <4>2 DEF Holders, IInv, ConnInv, Apart
        <4>4. Cardinality({q}) = 1 BY FS_Singleton
        <4>5. Cardinality(Holders(c)) = 1 BY <4>3, <4>4
        <4>6. QED BY <4>5
      <3>3. QED BY <3>1, <3>2
    <2>3. \A q \in Queries : pc[q] \in {"idle", "respond", "done"} => conn[q] = None
      BY DEF IInv, ConnInv, QueryInv, Loose
    <2>4. QED BY <2>1, <2>2, <2>3 DEF PooledConnectionsAreClean
  <1>2. QED BY <1>1, InductiveInvariant, PTL
---------------------------------------------------------------------------
(***************************************************************************)
(* The size of a result.                                                   *)
(***************************************************************************)
\* A set of naturals with zero and every successor has them all.
LEMMA SetInduction ==
    ASSUME NEW T, T \subseteq Nat, 0 \in T, \A n \in T : n + 1 \in T
    PROVE  T = Nat
<1> SUFFICES ASSUME Nat \ T # {} PROVE FALSE
  OBVIOUS
<1> DEFINE R == OpToRel(<, Nat)
<1>0. \A x, y \in Nat : <<y, x>> \in R <=> y < x
  BY DEF OpToRel
<1>1. \E x \in Nat \ T : \A y \in Nat \ T : ~ (<<y, x>> \in R)
  <2>1. IsWellFoundedOn(R, Nat)
    BY NatLessThanWellFounded
  <2> HIDE DEF R
  <2>2. Nat \ T \subseteq Nat
    OBVIOUS
  <2>3. QED BY WFMin, <2>1, <2>2
<1> HIDE DEF R
<1>2. PICK x \in Nat \ T : \A y \in Nat \ T : ~(y < x)
  BY <1>0, <1>1
<1>3. x # 0 /\ x - 1 \in Nat
  OBVIOUS
<1>4. x - 1 \in T
  BY <1>2, <1>3
<1>5. x - 1 + 1 \in T
  BY <1>4
<1> QED BY <1>5

\* The same up to a bound.
LEMMA BoundedInduction ==
    ASSUME NEW n \in Nat, NEW T, 0 \in T, \A i \in 1..n : i - 1 \in T => i \in T
    PROVE  \A i \in 0..n : i \in T
<1> DEFINE U == {i \in Nat : i <= n => i \in T}
<1>1. 0 \in U
  OBVIOUS
<1>2. ASSUME NEW i \in U
      PROVE  i + 1 \in U
  <2>1. CASE i + 1 <= n
    <3>1. i \in T /\ i + 1 \in 1..n /\ i + 1 - 1 = i
      BY <2>1
    <3>2. QED
      BY <3>1
  <2>2. QED
    BY <2>1
<1>3. U = Nat
  <2> HIDE DEF U
  <2>1. U \subseteq Nat
    BY DEF U
  <2>2. QED
    BY SetInduction, <1>1, <1>2, <2>1
<1>4. QED
  BY <1>3

\* The recursion of Used has a solution, which is Used.
LEMMA UsedDef ==
    ASSUME NEW s, Len(s) \in Nat
    PROVE  /\ Used(s)[0] = 0
           /\ \A i \in 1..Len(s) : Used(s)[i] = Used(s)[i - 1] + s[i]
<1> DEFINE n == Len(s)
           Solves(k, f) == f = [i \in 0..k |-> IF i = 0 THEN 0 ELSE f[i - 1] + s[i]]
           T == {k \in 0..n : \E f : Solves(k, f)}
<1>1. 0 \in T
  <2>1. Solves(0, [i \in 0..0 |-> 0])
    OBVIOUS
  <2>2. 0 \in 0..n
    OBVIOUS
  <2> HIDE DEF Solves
  <2>3. QED
    BY <2>1, <2>2
<1>2. ASSUME NEW k \in 1..n, k - 1 \in T
      PROVE  k \in T
  <2>1. PICK f : Solves(k - 1, f)
    BY <1>2
  <2> DEFINE g == [i \in 0..k |-> IF i = k THEN f[k - 1] + s[k] ELSE f[i]]
  <2>2. \A i \in 0..k : g[i] = IF i = 0 THEN 0 ELSE g[i - 1] + s[i]
    <3> TAKE i \in 0..k
    <3>1. CASE i = k
      BY <3>1
    <3>2. CASE i # k
      <4>1. i \in 0..(k - 1) /\ (i # 0 => i - 1 \in 0..k /\ i - 1 # k)
        BY <3>2
      <4>2. f[i] = IF i = 0 THEN 0 ELSE f[i - 1] + s[i]
        BY <2>1, <4>1
      <4>3. QED
        BY <4>1, <4>2, <3>2
    <3>3. QED
      BY <3>1, <3>2
  <2> HIDE DEF g
  <2>3. Solves(k, g)
    <3>1. g = [i \in 0..k |-> g[i]]
      BY DEF g
    <3>2. QED
      BY <3>1, <2>2
  <2>4. QED
    BY <2>3
<1>3. \E f : Solves(n, f)
  <2> HIDE DEF T
  <2>1. \A i \in 0..n : i \in T
    BY <1>1, <1>2, BoundedInduction
  <2>2. n \in T
    BY <2>1
  <2>3. QED
    BY <2>2 DEF T
<1>4. Solves(n, Used(s))
  <2> DEFINE u == CHOOSE f : Solves(n, f)
  <2>1. Solves(n, u)
    BY <1>3
  <2>2. u = Used(s)
    BY DEF Used
  <2>3. QED
    BY <2>1, <2>2
<1>5. QED
  <2> HIDE DEF n
  <2>1. \A i \in 0..n : Used(s)[i] = IF i = 0 THEN 0 ELSE Used(s)[i - 1] + s[i]
    BY <1>4
  <2>2. QED
    BY <2>1 DEF n

\* What parts take together is a number that grows with them.
LEMMA UsedType ==
    ASSUME NEW s \in Seq(Nat)
    PROVE  \A i \in 0..Len(s) : Used(s)[i] \in Nat
<1> DEFINE T == {i \in 0..Len(s) : Used(s)[i] \in Nat}
<1>1. 0 \in T
  BY UsedDef
<1>2. ASSUME NEW i \in 1..Len(s), i - 1 \in T
      PROVE  i \in T
  <2>1. Used(s)[i] = Used(s)[i - 1] + s[i] /\ s[i] \in Nat
    BY UsedDef
  <2>2. QED
    BY <1>2, <2>1
<1> HIDE DEF T
<1>3. \A i \in 0..Len(s) : i \in T
  <2>1. Len(s) \in Nat
    OBVIOUS
  <2>2. QED
    BY <1>1, <1>2, <2>1, BoundedInduction
<1>4. QED
  BY <1>3 DEF T

\* The sum of a sequence's first elements grows with their number.
LEMMA UsedGrows ==
    ASSUME NEW s \in Seq(Nat)
    PROVE  \A i \in 0..Len(s) : \A j \in 0..i : Used(s)[j] <= Used(s)[i]
<1> DEFINE T == {i \in 0..Len(s) : \A j \in 0..i : Used(s)[j] <= Used(s)[i]}
<1>1. 0 \in T
  BY UsedDef
<1>2. ASSUME NEW i \in 1..Len(s), i - 1 \in T
      PROVE  i \in T
  <2>1. Used(s)[i] = Used(s)[i - 1] + s[i] /\ s[i] \in Nat
    BY UsedDef
  <2>2. \A j \in 0..i : Used(s)[j] \in Nat
    BY UsedType
  <2>3. \A j \in 0..(i - 1) : Used(s)[j] <= Used(s)[i - 1]
    BY <1>2
  <2>4. ASSUME NEW j \in 0..i
        PROVE  Used(s)[j] <= Used(s)[i]
    <3>1. CASE j = i
      BY <3>1, <2>2
    <3>2. CASE j # i
      <4>1. j \in 0..(i - 1) /\ i - 1 \in 0..i
        BY <3>2
      <4>2. QED
        BY <2>1, <2>2, <2>3, <4>1
    <3>3. QED
      BY <3>1, <3>2
  <2>5. QED
    BY <2>4
<1> HIDE DEF T
<1>3. \A i \in 0..Len(s) : i \in T
  <2>1. Len(s) \in Nat
    OBVIOUS
  <2>2. QED
    BY <1>1, <1>2, <2>1, BoundedInduction
<1>4. QED
  BY <1>3 DEF T

\* A sum is at least each of its elements and of its partial sums.
LEMMA TotalBounds ==
    ASSUME NEW s \in Seq(Nat)
    PROVE  /\ Total(s) \in Nat
           /\ \A i \in 1..Len(s) : Used(s)[i] <= Total(s) /\ s[i] <= Total(s)
<1>1. Total(s) \in Nat
  BY UsedType DEF Total
<1>2. ASSUME NEW i \in 1..Len(s)
      PROVE  Used(s)[i] <= Total(s) /\ s[i] <= Total(s)
  <2>1. Used(s)[i] <= Total(s)
    BY UsedGrows DEF Total
  <2>2. Used(s)[i] = Used(s)[i - 1] + s[i] /\ s[i] \in Nat
    BY UsedDef
  <2>3. Used(s)[i] \in Nat /\ Used(s)[i - 1] \in Nat
    BY UsedType
  <2>4. QED
    BY <1>1, <2>1, <2>2, <2>3
<1>3. QED
  BY <1>1, <1>2

\* Asking part by part is asking for the whole.
LEMMA FitsIsTotal ==
    ASSUME NEW s \in Seq(Nat)
    PROVE  fits(s) <=> Total(s) <= ByteLimit
<1>1. \A i \in 1..Len(s) : /\ Used(s)[i] = Used(s)[i - 1] + s[i]
                           /\ Used(s)[i] \in Nat /\ Used(s)[i - 1] \in Nat /\ s[i] \in Nat
                           /\ Used(s)[i] <= Total(s)
  BY UsedDef, UsedType, TotalBounds
<1>2. fits(s) <=> \A i \in 1..Len(s) : Used(s)[i] <= ByteLimit
  <2>1. \A i \in 1..Len(s) : s[i] <= ByteLimit - Used(s)[i - 1] <=> Used(s)[i] <= ByteLimit
    BY <1>1, BudgetAssumption
  <2>2. QED
    BY <2>1 DEF fits
<1>3. CASE Len(s) = 0
  <2>1. Total(s) = 0
    BY <1>3, UsedDef DEF Total
  <2>2. QED
    BY <1>2, <1>3, <2>1, BudgetAssumption
<1>4. CASE Len(s) # 0
  <2>1. Len(s) \in 1..Len(s) /\ Total(s) = Used(s)[Len(s)]
    BY <1>4 DEF Total
  <2>2. Total(s) \in Nat
    BY TotalBounds
  <2>3. QED
    BY <1>1, <1>2, <2>1, <2>2, BudgetAssumption
<1>5. QED
  BY <1>3, <1>4

\* The size that is counted for a row is the one it is encoded in.
LEMMA RowSizeIsExact ==
    ASSUME NEW s \in Seq(Nat)
    PROVE  /\ rowParts(s) \in Seq(Nat)
           /\ rowSize(s) = EncodedRow(s)
           /\ rowSize(s) \in Nat
<1> DEFINE p == rowParts(s)
           tail == [i \in 1..Len(s) |-> s[i] + (IF i > 1 THEN 1 ELSE 0)]
           Commas(i) == IF i > 0 THEN i - 1 ELSE 0
           T == {i \in 0..Len(s) : Used(p)[i + 1] = 2 + Commas(i) + Used(s)[i]}
<1>1. tail \in Seq(Nat) /\ Len(tail) = Len(s)
  OBVIOUS
<1>2. /\ p \in Seq(Nat) /\ Len(p) = Len(s) + 1 /\ p[1] = 2
      /\ \A i \in 1..Len(s) : p[i + 1] = s[i] + (IF i > 1 THEN 1 ELSE 0)
  <2>1. p = <<2>> \o tail
    BY DEF rowParts
  <2> HIDE DEF p
  <2>2. p \in Seq(Nat) /\ Len(p) = Len(s) + 1 /\ p[1] = 2
    BY <1>1, <2>1
  <2>3. \A i \in 1..Len(s) : p[i + 1] = tail[i]
    BY <1>1, <2>1
  <2>4. QED
    BY <2>2, <2>3
<1> HIDE DEF p, tail
<1>3. 0 \in T
  BY <1>2, UsedDef
<1>4. ASSUME NEW i \in 1..Len(s), i - 1 \in T
      PROVE  i \in T
  <2>1. Used(s)[i] = Used(s)[i - 1] + s[i]
    BY UsedDef
  <2>2. Used(p)[i + 1] = Used(p)[i] + p[i + 1]
    <3>1. i + 1 \in 1..Len(p) /\ i + 1 - 1 = i /\ Len(p) \in Nat
      BY <1>2
    <3>2. QED
      BY <3>1, UsedDef
  <2>3. Used(p)[i] = 2 + Commas(i - 1) + Used(s)[i - 1]
    BY <1>4
  <2>4. Used(s)[i - 1] \in Nat /\ s[i] \in Nat
    BY UsedType
  <2>5. p[i + 1] = s[i] + (IF i > 1 THEN 1 ELSE 0)
    BY <1>2
  <2>6. Used(p)[i + 1] = 2 + Commas(i) + Used(s)[i]
    <3>1. CASE i = 1
      BY <3>1, <2>1, <2>2, <2>3, <2>4, <2>5
    <3>2. CASE i > 1
      <4>1. i \in Nat /\ p[i + 1] = s[i] + 1 /\ Commas(i) = i - 1
        BY <3>2, <2>5
      <4>2. Used(p)[i] = i + Used(s)[i - 1]
        BY <3>2, <4>1, <2>3, <2>4
      <4>3. \A x, y \in Nat : (i + x) + (y + 1) = 2 + (i - 1) + (x + y)
        BY <4>1
      <4>4. Used(p)[i + 1] = (i + Used(s)[i - 1]) + (s[i] + 1)
        BY <4>1, <4>2, <2>2
      <4>5. Used(p)[i + 1] = 2 + (i - 1) + (Used(s)[i - 1] + s[i])
        BY <4>3, <4>4, <2>4
      <4>6. QED
        BY <4>1, <4>5, <2>1
    <3>3. QED
      BY <3>1, <3>2
  <2>7. QED
    BY <2>6
<1>5. \A i \in 0..Len(s) : i \in T
  <2> HIDE DEF T
  <2>1. Len(s) \in Nat
    OBVIOUS
  <2>2. QED
    BY <1>3, <1>4, <2>1, BoundedInduction
<1>6. Len(s) \in T
  BY <1>5
<1>7. rowSize(s) = EncodedRow(s)
  <2>1. Used(p)[Len(p)] = 2 + Commas(Len(s)) + Used(s)[Len(s)]
    BY <1>2, <1>6
  <2>2. QED
    BY <2>1 DEF rowSize, EncodedRow, Total, p
<1>8. QED
  BY <1>2, <1>7, TotalBounds DEF p, rowSize

\* The digits of a number are a number.
LEMMA DigitsType == \A n \in Nat : Digits[n] \in Nat
<1> DEFINE Value(f, m) == IF m < 10 THEN 1 ELSE 1 + f[m \div 10]
           Solves(n, f) == f \in [0..n -> Nat] /\ \A m \in 0..n : f[m] = Value(f, m)
           T == {n \in Nat : \E f : Solves(n, f)}
<1>1. \A m \in Nat : m >= 10 => m \div 10 \in 0..(m - 1)
  OBVIOUS
<1>2. T = Nat
  <2>1. 0 \in T
    <3>1. Solves(0, [m \in 0..0 |-> 1])
      OBVIOUS
    <3> HIDE DEF Solves
    <3>2. QED
      BY <3>1
  <2>2. ASSUME NEW n \in T
        PROVE  n + 1 \in T
    <3>1. PICK f : Solves(n, f)
      BY <2>2
    <3> DEFINE g == [m \in 0..(n + 1) |-> IF m = n + 1 THEN Value(f, n + 1) ELSE f[m]]
    <3>2. n \in Nat
      BY <2>2
    <3>3. g \in [0..(n + 1) -> Nat]
      <4>1. Value(f, n + 1) \in Nat
        BY <1>1, <3>1, <3>2
      <4> HIDE DEF Value
      <4>2. QED
        BY <3>1, <3>2, <4>1
    <3>4. ASSUME NEW m \in 0..(n + 1)
          PROVE  g[m] = Value(g, m)
      <4>1. m >= 10 => g[m \div 10] = f[m \div 10]
        BY <1>1, <3>2
      <4>2. CASE m = n + 1
        BY <4>1, <4>2
      <4>3. CASE m # n + 1
        <5>1. m \in 0..n
          BY <4>3, <3>2
        <5>2. f[m] = Value(f, m)
          BY <3>1, <5>1
        <5>3. QED
          BY <4>1, <4>3, <5>2
      <4>4. QED
        BY <4>2, <4>3
    <3> HIDE DEF g, Value
    <3>5. Solves(n + 1, g)
      BY <3>3, <3>4
    <3> HIDE DEF Solves
    <3>6. QED
      BY <3>2, <3>5
  <2> HIDE DEF T
  <2>3. T \subseteq Nat
    BY DEF T
  <2>4. QED
    BY <2>1, <2>2, <2>3, SetInduction
<1> DEFINE F == [n \in Nat |-> CHOOSE f : Solves(n, f)]
<1>3. \A n \in Nat : Solves(n, F[n])
  <2> HIDE DEF Solves
  <2>1. \A n \in Nat : \E f : Solves(n, f)
    BY <1>2
  <2>2. QED
    BY <2>1
<1> HIDE DEF F
\* Two solutions agree where both are defined.
<1>4. \A m \in Nat : \A n, k \in Nat : m <= n /\ m <= k => F[n][m] = F[k][m]
  <2> DEFINE U == {m \in Nat : \A l \in 0..m : \A n, k \in Nat : l <= n /\ l <= k => F[n][l] = F[k][l]}
  <2>1. 0 \in U
    BY <1>3
  <2>2. ASSUME NEW m \in U
        PROVE  m + 1 \in U
    <3>1. m \in Nat
      BY <2>2
    <3>2. ASSUME NEW n \in Nat, NEW k \in Nat, m + 1 <= n, m + 1 <= k
          PROVE  F[n][m + 1] = F[k][m + 1]
      <4>0. m + 1 \in 0..n /\ m + 1 \in 0..k
        BY <3>1, <3>2
      <4>1. F[n][m + 1] = Value(F[n], m + 1) /\ F[k][m + 1] = Value(F[k], m + 1)
        <5> HIDE DEF Value
        <5>1. QED
          BY <1>3, <3>2, <4>0
      <4>2. m + 1 >= 10 => F[n][(m + 1) \div 10] = F[k][(m + 1) \div 10]
        <5> SUFFICES ASSUME m + 1 >= 10 PROVE F[n][(m + 1) \div 10] = F[k][(m + 1) \div 10]
          OBVIOUS
        <5>1. (m + 1) \div 10 \in 0..m
          BY <1>1, <3>1
        <5> DEFINE l == (m + 1) \div 10
        <5> HIDE DEF l
        <5>2. l \in 0..m
          BY <5>1 DEF l
        <5>3. l <= n /\ l <= k
          BY <5>2, <3>1, <3>2
        <5>4. F[n][l] = F[k][l]
          BY <2>2, <5>2, <5>3
        <5>5. QED
          BY <5>4 DEF l
      <4>3. QED
        BY <4>1, <4>2
    <3>3. ASSUME NEW l \in 0..(m + 1), NEW n \in Nat, NEW k \in Nat, l <= n, l <= k
          PROVE  F[n][l] = F[k][l]
      <4>1. CASE l = m + 1
        BY <4>1, <3>2, <3>3
      <4>2. CASE l # m + 1
        BY <4>2, <3>1, <3>3, <2>2
      <4>3. QED
        BY <4>1, <4>2
    <3>4. QED
      BY <3>1, <3>3
  <2> HIDE DEF U
  <2>3. U \subseteq Nat
    BY DEF U
  <2>4. U = Nat
    BY <2>1, <2>2, <2>3, SetInduction
  <2>5. QED
    BY <2>4 DEF U
<1> DEFINE G == [n \in Nat |-> F[n][n]]
<1>5. G = [n \in Nat |-> IF n < 10 THEN 1 ELSE 1 + G[n \div 10]]
  <2>1. ASSUME NEW n \in Nat
        PROVE  F[n][n] = IF n < 10 THEN 1 ELSE 1 + F[n \div 10][n \div 10]
    <3>1. F[n][n] = Value(F[n], n)
      BY <1>3
    <3>2. CASE n < 10
      BY <3>1, <3>2
    <3>3. CASE n >= 10
      <4> DEFINE l == n \div 10
      <4>1. l \in Nat /\ l <= n
        BY <1>1, <3>3
      <4> HIDE DEF l
      <4>2. F[n][l] = F[l][l]
        BY <1>4, <4>1
      <4>3. QED
        BY <3>1, <3>3, <4>2 DEF l
    <3>4. QED
      BY <3>2, <3>3
  <2>2. \A n \in Nat : n >= 10 => n \div 10 \in Nat
    BY <1>1
  <2>3. QED
    BY <2>1, <2>2
<1>6. Digits = [n \in Nat |-> IF n < 10 THEN 1 ELSE 1 + Digits[n \div 10]]
  <2> DEFINE IsDigits(f) == f = [n \in Nat |-> IF n < 10 THEN 1 ELSE 1 + f[n \div 10]]
  <2>1. IsDigits(G)
    BY <1>5
  <2> HIDE DEF G
  <2>2. IsDigits(CHOOSE f : IsDigits(f))
    BY <2>1
  <2>3. Digits = CHOOSE f : IsDigits(f)
    BY DEF Digits
  <2>4. QED
    BY <2>2, <2>3
<1>7. QED
  <2> DEFINE U == {n \in Nat : \A l \in 0..n : Digits[l] \in Nat}
  <2>1. 0 \in U
    BY <1>6
  <2>2. ASSUME NEW n \in U
        PROVE  n + 1 \in U
    <3>1. n \in Nat /\ \A l \in 0..n : Digits[l] \in Nat
      BY <2>2
    <3>2. Digits[n + 1] = IF n + 1 < 10 THEN 1 ELSE 1 + Digits[(n + 1) \div 10]
      BY <1>6, <3>1
    <3>3. n + 1 >= 10 => (n + 1) \div 10 \in 0..n
      BY <1>1, <3>1
    <3>4. Digits[n + 1] \in Nat
      BY <3>1, <3>2, <3>3
    <3>5. QED
      BY <3>1, <3>4
  <2> HIDE DEF U
  <2>3. U \subseteq Nat
    BY DEF U
  <2>4. U = Nat
    BY <2>1, <2>2, <2>3, SetInduction
  <2>5. QED
    BY <2>4 DEF U

Budget == [fixedSize : Nat, rowsSize : Nat, retainedRows : Nat]

Result ==
    [fixed : Nat, rows : Nat, bytes : Nat, again : Nat,
     state : {"none", "reading", "complete", "truncated"}, refused : Nat]

\* What a result is encoded in with one more row, as its budget counts it.
Counted(b, size) ==
    b.fixedSize + b.rowsSize + (IF b.retainedRows > 0 THEN 1 ELSE 0) + size
        + Digits[b.retainedRows + 1] + SizeOfFalse

\* The elements of a sequence of numbers are numbers.
LEMMA ElementsAreNumbers ==
    ASSUME NEW s \in Seq(Nat)
    PROVE  \A i \in 1..Len(s) : s[i] \in Nat
  OBVIOUS

\* The sum of six elements, written out.
LEMMA TotalOfSix ==
    ASSUME NEW s \in Seq(Nat), Len(s) = 6
    PROVE  Total(s) = s[1] + s[2] + s[3] + s[4] + s[5] + s[6]
<1>1. Len(s) \in Nat
  OBVIOUS
<1> DEFINE n == Len(s)
           u == Used(s)
<1>2. u[0] = 0 /\ \A i \in 1..n : u[i] = u[i - 1] + s[i]
  BY <1>1, UsedDef
<1>3. n = 6 /\ Total(s) = u[n]
  BY DEF Total
<1>4. \A i \in 1..6 : s[i] \in Nat
  BY ElementsAreNumbers
<1> HIDE DEF n, u
<1>5. /\ u[1] = u[0] + s[1] /\ u[2] = u[1] + s[2] /\ u[3] = u[2] + s[3]
      /\ u[4] = u[3] + s[4] /\ u[5] = u[4] + s[5] /\ u[6] = u[5] + s[6]
  <2>1. \A i \in 1..6 : u[i] = u[i - 1] + s[i]
    BY <1>2, <1>3
  <2>2. QED
    BY <2>1
<1>6. Total(s) = u[6]
  BY <1>3
<1>7. QED
  BY <1>2, <1>4, <1>5, <1>6

\* The check of a row compares the bytes that would be counted with the limit.
LEMMA FitsAdditionalRowIsExact ==
    ASSUME NEW b \in Budget, NEW size \in Nat
    PROVE  FitsAdditionalRow(b, size) <=> Counted(b, size) <= ByteLimit
<1> DEFINE comma == IF b.retainedRows > 0 THEN 1 ELSE 0
           digits == Digits[b.retainedRows + 1]
           parts == <<b.fixedSize, b.rowsSize, comma, size, digits, SizeOfFalse>>
<1>1. b.fixedSize \in Nat /\ b.rowsSize \in Nat /\ comma \in Nat /\ digits \in Nat /\ SizeOfFalse \in Nat
  BY DigitsType DEF Budget, SizeOfFalse
<1>2. FitsAdditionalRow(b, size) <=> fits(parts)
  BY DEF FitsAdditionalRow
<1>3. Counted(b, size) = b.fixedSize + b.rowsSize + comma + size + digits + SizeOfFalse
  BY DEF Counted
<1> HIDE DEF comma, digits
<1>4. /\ parts \in Seq(Nat) /\ Len(parts) = 6
      /\ parts[1] = b.fixedSize /\ parts[2] = b.rowsSize /\ parts[3] = comma
      /\ parts[4] = size /\ parts[5] = digits /\ parts[6] = SizeOfFalse
  BY <1>1
<1> HIDE DEF parts
<1>5. Total(parts) = b.fixedSize + b.rowsSize + comma + size + digits + SizeOfFalse
  BY <1>4, TotalOfSix
<1>6. QED
  BY <1>2, <1>3, <1>4, <1>5, FitsIsTotal

\* Stopping at the first cell that is too large refuses the same rows.
LEMMA RowFitsIsExact ==
    ASSUME NEW b \in Budget, NEW s \in Seq(Nat)
    PROVE  /\ EncodedRow(s) \in Nat /\ Counted(b, EncodedRow(s)) \in Nat
           /\ RowFits(b, s) <=> Counted(b, EncodedRow(s)) <= ByteLimit
           /\ \A i \in 1..Len(s) : s[i] <= Counted(b, EncodedRow(s))
<1>1. EncodedRow(s) \in Nat /\ rowSize(s) = EncodedRow(s) /\ rowParts(s) \in Seq(Nat)
  BY RowSizeIsExact
<1>2. Digits[b.retainedRows + 1] \in Nat /\ b.fixedSize \in Nat /\ b.rowsSize \in Nat
  BY DigitsType DEF Budget
<1>3. Counted(b, EncodedRow(s)) \in Nat /\ EncodedRow(s) <= Counted(b, EncodedRow(s))
  <2> DEFINE e == EncodedRow(s)
             comma == IF b.retainedRows > 0 THEN 1 ELSE 0
             digits == Digits[b.retainedRows + 1]
  <2>1. comma \in Nat /\ digits \in Nat /\ e \in Nat /\ SizeOfFalse \in Nat
    BY <1>1, <1>2 DEF SizeOfFalse
  <2>2. Counted(b, e) = b.fixedSize + b.rowsSize + comma + e + digits + SizeOfFalse
    BY DEF Counted
  <2> HIDE DEF e, comma, digits
  <2>3. Counted(b, e) \in Nat /\ e <= Counted(b, e)
    BY <1>2, <2>1, <2>2
  <2>4. QED
    BY <2>3 DEF e
<1>4. fits(rowParts(s)) <=> EncodedRow(s) <= ByteLimit
  BY <1>1, FitsIsTotal DEF rowSize
<1>5. RowFits(b, s) <=> Counted(b, EncodedRow(s)) <= ByteLimit
  BY <1>1, <1>3, <1>4, FitsAdditionalRowIsExact, BudgetAssumption DEF RowFits
<1>6. ASSUME NEW i \in 1..Len(s)
      PROVE  s[i] <= Counted(b, EncodedRow(s))
  <2>1. Total(s) \in Nat /\ s[i] <= Total(s) /\ s[i] \in Nat
    BY TotalBounds
  <2>2. Total(s) <= EncodedRow(s)
    BY <2>1 DEF EncodedRow
  <2>3. QED
    BY <1>1, <1>3, <2>1, <2>2
<1>7. QED
  BY <1>1, <1>3, <1>5, <1>6

\* What each engine asks of a row before it retains it.
Fit(b, row) ==
    CASE engine = "postgres" -> RowFits(b, PgSizes(row))
      [] engine = "mysql" -> MyRowFits(b, row)
      [] OTHER -> LiteRowFits(b, row)

SizesOf(row) ==
    CASE engine = "postgres" -> PgSizes(row)
      [] engine = "mysql" -> MySizes(row)
      [] OTHER -> LiteSizes(row)

\* The sizes of a row's cells, as each engine takes them.
LEMMA SizesType ==
    ASSUME NEW row \in RowKinds
    PROVE  /\ Len(row) \in Nat
           /\ \A i \in 1..Len(row) : row[i] \in Cell
           /\ PgSizes(row) \in Seq(Nat) /\ Len(PgSizes(row)) = Len(row)
           /\ MySizes(row) \in Seq(Nat) /\ Len(MySizes(row)) = Len(row)
           /\ LiteSizes(row) \in Seq(Nat) /\ Len(LiteSizes(row)) = Len(row)
<1>1. row \in Seq(Cell) /\ Len(row) \in Nat /\ DOMAIN row = 1..Len(row)
      /\ \A i \in 1..Len(row) : row[i] \in Cell
  BY RelationalQueryAssumption
<1>2. \A cell \in Cell : TextSize(cell) \in Nat /\ MyCellSize(cell) \in Nat /\ LiteCellSize(cell) \in Nat
  BY DEF Cell, TextSize, MyCellSize, LiteCellSize, SizeOfNull
<1>3. PgSizes(row) \in Seq(Nat) /\ Len(PgSizes(row)) = Len(row)
  BY <1>1, <1>2 DEF PgSizes
<1>4. MySizes(row) \in Seq(Nat) /\ Len(MySizes(row)) = Len(row)
  BY <1>1, <1>2 DEF MySizes
<1>5. LiteSizes(row) \in Seq(Nat) /\ Len(LiteSizes(row)) = Len(row)
  BY <1>1, <1>2 DEF LiteSizes
<1>6. QED
  BY <1>1, <1>3, <1>4, <1>5

\* However an engine asks, a row fits exactly if the result fits with it.
LEMMA FitIsExact ==
    ASSUME NEW b \in Budget, NEW row \in RowKinds
    PROVE  /\ SizesOf(row) \in Seq(Nat)
           /\ Fit(b, row) <=> Counted(b, EncodedRow(SizesOf(row))) <= ByteLimit
<1>1. CASE engine = "postgres"
  BY <1>1, SizesType, RowFitsIsExact DEF Fit, SizesOf
<1>2. CASE engine = "mysql"
  <2> DEFINE s == MySizes(row)
  <2>1. SizesOf(row) = s /\ (Fit(b, row) <=> MyRowFits(b, row))
    BY <1>2 DEF Fit, SizesOf
  <2>2. s \in Seq(Nat) /\ DOMAIN row = 1..Len(row) /\ Len(s) = Len(row)
    BY SizesType, RelationalQueryAssumption
  <2>3. ASSUME NEW i \in 1..Len(row), MyTooLong(row[i])
        PROVE  s[i] > ByteLimit
    <3>1. s[i] = MyCellSize(row[i]) /\ row[i] \in Cell
      BY <2>2, SizesType DEF MySizes
    <3>2. QED
      BY <2>3, <3>1, BudgetAssumption DEF Cell, MyTooLong, MyCellSize, TextSize
  <2> HIDE DEF s
  <2>4. /\ Counted(b, EncodedRow(s)) \in Nat
        /\ RowFits(b, s) <=> Counted(b, EncodedRow(s)) <= ByteLimit
        /\ \A i \in 1..Len(s) : s[i] \in Nat /\ s[i] <= Counted(b, EncodedRow(s))
    BY <2>2, RowFitsIsExact
  <2>5. RowFits(b, s) => \A i \in 1..Len(row) : ~MyTooLong(row[i])
    BY <2>2, <2>3, <2>4, BudgetAssumption
  <2>6. QED
    BY <2>1, <2>2, <2>4, <2>5 DEF MyRowFits, s
<1>3. CASE engine \notin {"postgres", "mysql"}
  <2> DEFINE s == LiteSizes(row)
  <2>1. SizesOf(row) = s /\ (Fit(b, row) <=> LiteRowFits(b, row))
    BY <1>3 DEF Fit, SizesOf
  <2>2. s \in Seq(Nat) /\ DOMAIN row = 1..Len(row) /\ Len(s) = Len(row)
    BY SizesType, RelationalQueryAssumption
  <2>3. ASSUME NEW i \in 1..Len(row), LiteTooLong(row[i])
        PROVE  s[i] > ByteLimit
    <3>1. s[i] = LiteCellSize(row[i]) /\ row[i] \in Cell
      BY <2>2, SizesType DEF LiteSizes
    <3>2. QED
      BY <2>3, <3>1, BudgetAssumption DEF Cell, LiteTooLong, LiteCellSize, TextSize
  <2> HIDE DEF s
  <2>4. /\ Counted(b, EncodedRow(s)) \in Nat
        /\ RowFits(b, s) <=> Counted(b, EncodedRow(s)) <= ByteLimit
        /\ \A i \in 1..Len(s) : s[i] \in Nat /\ s[i] <= Counted(b, EncodedRow(s))
    BY <2>2, RowFitsIsExact
  <2>5. RowFits(b, s) => \A i \in 1..Len(row) : ~LiteTooLong(row[i])
    BY <2>2, <2>3, <2>4, BudgetAssumption
  <2>6. QED
    BY <2>1, <2>2, <2>4, <2>5 DEF LiteRowFits, s
<1>4. QED
  BY <1>1, <1>2, <1>3
---------------------------------------------------------------------------
(***************************************************************************)
(* The result of a query and its budget.                                   *)
(***************************************************************************)
Commas(n) == IF n > 0 THEN n - 1 ELSE 0

\* The budget of a result that is being read.
BudgetOf(o) ==
    [fixedSize |-> o.fixed, rowsSize |-> 2 + o.bytes + Commas(o.rows), retainedRows |-> o.rows]

\* What is retained fits, and what was refused would not have.
SizeInv(o) ==
    /\ o.rows > 0 => EncodedSize(o.fixed, o.rows, o.bytes) <= ByteLimit
    /\ o.refused > 0 => EncodedSize(o.fixed, o.rows + 1, o.bytes + o.refused) > ByteLimit

ResultInv ==
    /\ budget \in [Queries -> Budget]
    /\ out \in [Queries -> Result]
    /\ \A q \in Queries :
          /\ SizeInv(out[q])
          /\ pc[q] = "rows" => /\ out[q].state = "reading" /\ out[q].refused = 0
                               /\ budget[q] = BudgetOf(out[q])

\* As far as its result goes, a step of a query leaves it, starts it, retains a
\* row, refuses one, or is past the reading.
Leaves(q) == UNCHANGED <<pc, result>>

Starts(q) ==
    /\ \E next \in Loose \cup Held : pc' = [pc EXCEPT ![q] = next]
    /\ \E size \in FixedSizes :
          /\ budget' = [budget EXCEPT ![q] = NewBudget(size)]
          /\ out' = [out EXCEPT ![q] = [NoResult EXCEPT !.fixed = size, !.state = "reading"]]

Retains(q) ==
    /\ pc[q] = "rows"
    /\ \E row \in RowKinds : Fit(budget[q], row) /\ Retain(q, row, SizesOf(row))
    /\ UNCHANGED pc

Refuses(q) ==
    /\ pc[q] = "rows"
    /\ \E row \in RowKinds :
          /\ ~Fit(budget[q], row)
          /\ out' = [out EXCEPT ![q].refused = EncodedRow(SizesOf(row))]
    /\ \E next \in (Loose \cup Held) \ {"rows"} : pc' = [pc EXCEPT ![q] = next]
    /\ UNCHANGED budget

Passes(q) ==
    /\ \E next \in (Loose \cup Held) \ {"rows"} : pc' = [pc EXCEPT ![q] = next]
    /\ \E o \in {out[q], NoResult, [out[q] EXCEPT !.state = "complete"],
                 [out[q] EXCEPT !.state = "truncated"]} :
          out' = [out EXCEPT ![q] = o]
    /\ \E b \in {budget[q], NewBudget(0)} : budget' = [budget EXCEPT ![q] = b]

ResultStep(q) == Leaves(q) \/ Starts(q) \/ Retains(q) \/ Refuses(q) \/ Passes(q)

\* One more row, one more comma, but for the first.
LEMMA CommasGrow == \A n \in Nat : Commas(n) + (IF n > 0 THEN 1 ELSE 0) = Commas(n + 1)
  BY DEF Commas

\* A result with one more row, as its budget counts it.
LEMMA CountedIsEncoded ==
    ASSUME NEW o \in Result, NEW size \in Nat
    PROVE  Counted(BudgetOf(o), size) = EncodedSize(o.fixed, o.rows + 1, o.bytes + size)
<1> DEFINE d == Digits[o.rows + 1]
           comma == IF o.rows > 0 THEN 1 ELSE 0
<1>1. /\ o.fixed \in Nat /\ o.rows \in Nat /\ o.bytes \in Nat /\ d \in Nat
      /\ comma \in Nat /\ Commas(o.rows) \in Nat /\ Commas(o.rows + 1) \in Nat
  BY DigitsType DEF Result, Commas
<1>2. Commas(o.rows) + comma = Commas(o.rows + 1)
  BY <1>1, CommasGrow
<1>3. Counted(BudgetOf(o), size) =
        o.fixed + (2 + o.bytes + Commas(o.rows)) + comma + size + d + SizeOfFalse
  BY DEF Counted, BudgetOf
<1>4. EncodedSize(o.fixed, o.rows + 1, o.bytes + size) =
        o.fixed + 2 + (o.bytes + size) + Commas(o.rows + 1) + d + SizeOfFalse
  BY DEF EncodedSize, Commas
<1> HIDE DEF d, comma
<1>5. \A f, y, c, k, z \in Nat :
        f + (2 + y + c) + k + size + z + 5 = f + 2 + (y + size) + (c + k) + z + 5
  OBVIOUS
<1>6. QED
  BY <1>1, <1>2, <1>3, <1>4, <1>5 DEF SizeOfFalse

\* A result starts with its columns counted.
LEMMA NewResultIsRight ==
    ASSUME NEW size \in Nat
    PROVE  LET o == [NoResult EXCEPT !.fixed = size, !.state = "reading"] IN
           /\ o \in Result /\ SizeInv(o) /\ o.state = "reading" /\ o.refused = 0
           /\ NewBudget(size) \in Budget
           /\ NewBudget(size) = BudgetOf(o)
<1> DEFINE o == [NoResult EXCEPT !.fixed = size, !.state = "reading"]
<1>1. o = [fixed |-> size, rows |-> 0, bytes |-> 0, again |-> 0, state |-> "reading", refused |-> 0]
  <2>1. [NoResult EXCEPT !.fixed = size]
          = [fixed |-> size, rows |-> 0, bytes |-> 0, again |-> 0, state |-> "none", refused |-> 0]
    BY DEF NoResult
  <2>2. o = [[NoResult EXCEPT !.fixed = size] EXCEPT !.state = "reading"]
    BY DEF NoResult
  <2> HIDE DEF o
  <2>3. QED
    BY <2>1, <2>2
<1> HIDE DEF o
<1>2. o \in Result /\ SizeInv(o) /\ o.state = "reading" /\ o.refused = 0
  BY <1>1 DEF Result, SizeInv
<1>3. NewBudget(size) = BudgetOf(o)
  BY <1>1 DEF NewBudget, BudgetOf, Commas
<1>4. NewBudget(size) \in Budget
  BY DEF NewBudget, Budget
<1>5. QED
  BY <1>2, <1>3, <1>4 DEF o

\* Each kind of step keeps the invariant.
LEMMA ResultStepKeeps ==
    ASSUME ResultInv, ConnType, NEW q \in Queries, ResultStep(q)
    PROVE  ResultInv'
<1> USE DEF ConnType
<1>0. /\ budget[q] \in Budget /\ out[q] \in Result /\ SizeInv(out[q])
      /\ budget \in [Queries -> Budget] /\ out \in [Queries -> Result]
  BY DEF ResultInv
\* It is enough to look at the query that steps.
<1>1. ASSUME NEW next \in Loose \cup Held, pc' = [pc EXCEPT ![q] = next],
             NEW o \in Result, out' = [out EXCEPT ![q] = o],
             NEW b \in Budget, budget' = [budget EXCEPT ![q] = b],
             SizeInv(o),
             next = "rows" => o.state = "reading" /\ o.refused = 0 /\ b = BudgetOf(o)
      PROVE  ResultInv'
  <2>1. budget' \in [Queries -> Budget] /\ out' \in [Queries -> Result]
    BY <1>0, <1>1
  <2>2. ASSUME NEW p \in Queries
        PROVE  /\ SizeInv(out'[p])
               /\ pc'[p] = "rows" => /\ out'[p].state = "reading" /\ out'[p].refused = 0
                                     /\ budget'[p] = BudgetOf(out'[p])
    <3>1. CASE p = q
      <4>1. out'[p] = o /\ budget'[p] = b /\ pc'[p] = next
        BY <1>0, <1>1, <3>1
      <4>2. QED
        BY <1>1, <4>1
    <3>2. CASE p # q
      <4>1. out'[p] = out[p] /\ budget'[p] = budget[p] /\ pc'[p] = pc[p]
        BY <1>0, <1>1, <3>2
      <4>2. QED
        BY <4>1 DEF ResultInv
    <3>3. QED
      BY <3>1, <3>2
  <2>3. \A p \in Queries : SizeInv(out[p])'
    BY <2>2 DEF SizeInv, EncodedSize
  <2>4. QED
    BY <2>1, <2>2, <2>3 DEF ResultInv, BudgetOf
<1>2. CASE Leaves(q)
  BY <1>2 DEF Leaves, result, ResultInv, SizeInv, EncodedSize, BudgetOf
<1>3. CASE Starts(q)
  <2>1. PICK next \in Loose \cup Held : pc' = [pc EXCEPT ![q] = next]
    BY <1>3 DEF Starts
  <2>2. PICK size \in FixedSizes :
            /\ budget' = [budget EXCEPT ![q] = NewBudget(size)]
            /\ out' = [out EXCEPT ![q] = [NoResult EXCEPT !.fixed = size, !.state = "reading"]]
    BY <1>3 DEF Starts
  <2>3. size \in Nat
    BY RelationalQueryAssumption
  <2>4. QED
    BY <1>1, <2>1, <2>2, <2>3, NewResultIsRight
<1>4. CASE Retains(q)
  <2>1. PICK row \in RowKinds : Fit(budget[q], row) /\ Retain(q, row, SizesOf(row))
    BY <1>4 DEF Retains
  <2> DEFINE sizes == SizesOf(row)
             size == EncodedRow(sizes)
             b == RetainRow(budget[q], rowSize(sizes))
             o == [out[q] EXCEPT
                      !.rows = @ + 1, !.bytes = @ + EncodedRow(sizes),
                      !.again = @ + Total([i \in DOMAIN row |-> row[i].again])]
  <2>2. pc[q] = "rows" /\ pc' = pc /\ out' = [out EXCEPT ![q] = o] /\ budget' = [budget EXCEPT ![q] = b]
    <3>1. pc[q] = "rows" /\ pc' = pc
      BY <1>4 DEF Retains
    <3>2. budget' = [budget EXCEPT ![q] = b]
      BY <1>0, <2>1 DEF Retain
    <3>3. out' = [out EXCEPT ![q] = o]
      <4> DEFINE again == Total([i \in DOMAIN row |-> row[i].again])
                 y == EncodedRow(sizes)
      <4>1. out' = [out EXCEPT ![q].rows = @ + 1, ![q].bytes = @ + y, ![q].again = @ + again]
        BY <2>1 DEF Retain
      <4>2. o = [out[q] EXCEPT !.rows = @ + 1, !.bytes = @ + y, !.again = @ + again]
        OBVIOUS
      <4> HIDE DEF again, y, o
      <4>3. QED
        BY <1>0, <4>1, <4>2 DEF Result
    <3>4. QED
      BY <3>1, <3>2, <3>3
  <2>3. /\ budget[q] = BudgetOf(out[q]) /\ out[q].state = "reading" /\ out[q].refused = 0
    BY <2>2 DEF ResultInv
  <2>4. /\ sizes \in Seq(Nat) /\ size \in Nat /\ rowSize(sizes) = size
        /\ Counted(budget[q], size) <= ByteLimit
    BY <1>0, <2>1, FitIsExact, RowSizeIsExact
  <2>5. Total([i \in DOMAIN row |-> row[i].again]) \in Nat
    <3>1. row \in Seq(Cell) /\ \A i \in 1..Len(row) : row[i] \in Cell
      BY RelationalQueryAssumption, SizesType
    <3>2. \A i \in 1..Len(row) : row[i].again \in Nat
      BY <3>1 DEF Cell
    <3>3. DOMAIN row = 1..Len(row) /\ Len(row) \in Nat
      BY <3>1
    <3>4. [i \in 1..Len(row) |-> row[i].again] \in Seq(Nat)
      BY <3>2, <3>3
    <3>5. QED
      BY <3>3, <3>4, TotalBounds
  <2> HIDE DEF sizes, size
  <2>6. /\ o \in Result /\ o.fixed = out[q].fixed /\ o.rows = out[q].rows + 1
        /\ o.bytes = out[q].bytes + size /\ o.state = "reading" /\ o.refused = 0
    <3> DEFINE again == Total([i \in DOMAIN row |-> row[i].again])
    <3> HIDE DEF again
    <3>1. o = [out[q] EXCEPT !.rows = @ + 1, !.bytes = @ + size, !.again = @ + again]
      BY DEF again, size
    <3>2. again \in Nat
      BY <2>5 DEF again
    <3> HIDE DEF o
    <3>3. out[q].rows \in Nat /\ out[q].bytes \in Nat /\ out[q].again \in Nat
      BY <1>0 DEF Result
    <3>4. o = [fixed |-> out[q].fixed, rows |-> out[q].rows + 1, bytes |-> out[q].bytes + size,
               again |-> out[q].again + again, state |-> out[q].state, refused |-> out[q].refused]
      BY <1>0, <3>1 DEF Result
    <3>5. QED
      BY <1>0, <2>3, <2>4, <3>2, <3>3, <3>4 DEF Result
  <2>7. b = BudgetOf(o)
    <3>1. b = [fixedSize |-> out[q].fixed,
               rowsSize |-> (2 + out[q].bytes + Commas(out[q].rows)) + size
                              + (IF out[q].rows > 0 THEN 1 ELSE 0),
               retainedRows |-> out[q].rows + 1]
      <4>1. b = [BudgetOf(out[q]) EXCEPT !.rowsSize = @ + size + (IF out[q].rows > 0 THEN 1 ELSE 0),
                                         !.retainedRows = @ + 1]
        BY <2>3, <2>4 DEF RetainRow, BudgetOf
      <4> HIDE DEF b
      <4>2. QED
        BY <4>1 DEF BudgetOf
    <3> HIDE DEF o, b
    <3>2. out[q].rows \in Nat /\ out[q].bytes \in Nat
      BY <1>0 DEF Result
    <3>3. (2 + out[q].bytes + Commas(out[q].rows)) + size + (IF out[q].rows > 0 THEN 1 ELSE 0)
            = 2 + (out[q].bytes + size) + Commas(out[q].rows + 1)
      <4> DEFINE n == out[q].rows
                 y == out[q].bytes
                 k == IF n > 0 THEN 1 ELSE 0
      <4>1. n \in Nat /\ y \in Nat /\ k \in Nat /\ Commas(n) \in Nat /\ Commas(n) + k = Commas(n + 1)
        BY <3>2, CommasGrow DEF Commas
      <4> HIDE DEF n, y, k
      <4>2. (2 + y + Commas(n)) + size + k = 2 + (y + size) + (Commas(n) + k)
        BY <2>4, <4>1
      <4>3. QED
        BY <4>1, <4>2 DEF n, y, k
    <3>4. QED
      BY <2>6, <3>1, <3>3 DEF BudgetOf
  <2>8. SizeInv(o)
    <3>1. Counted(budget[q], size) = EncodedSize(o.fixed, o.rows, o.bytes)
      <4>1. Counted(BudgetOf(out[q]), size)
              = EncodedSize(out[q].fixed, out[q].rows + 1, out[q].bytes + size)
        BY <1>0, <2>4, CountedIsEncoded
      <4>2. QED
        BY <4>1, <2>3, <2>6
    <3> HIDE DEF o
    <3>2. QED
      BY <2>4, <2>6, <3>1 DEF SizeInv
  <2>9. b \in Budget
    <3> HIDE DEF o, b
    <3>1. o.fixed \in Nat /\ o.rows \in Nat /\ o.bytes \in Nat
      BY <2>6 DEF Result
    <3>2. QED
      BY <2>7, <3>1 DEF Budget, BudgetOf, Commas
  <2>10. pc' = [pc EXCEPT ![q] = "rows"] /\ "rows" \in Loose \cup Held
    BY <2>2 DEF Held
  <2> HIDE DEF o, b
  <2>11. QED
    BY <1>1, <2>2, <2>6, <2>7, <2>8, <2>9, <2>10
<1>5. CASE Refuses(q)
  <2>1. PICK row \in RowKinds : /\ ~Fit(budget[q], row)
                                /\ out' = [out EXCEPT ![q].refused = EncodedRow(SizesOf(row))]
    BY <1>5 DEF Refuses
  <2>2. PICK next \in (Loose \cup Held) \ {"rows"} : pc' = [pc EXCEPT ![q] = next]
    BY <1>5 DEF Refuses
  <2> DEFINE size == EncodedRow(SizesOf(row))
             o == [out[q] EXCEPT !.refused = size]
  <2>3. budget[q] = BudgetOf(out[q])
    BY <1>5 DEF Refuses, ResultInv
  <2>4. size \in Nat /\ ~(Counted(budget[q], size) <= ByteLimit)
    BY <1>0, <2>1, FitIsExact, RowSizeIsExact
  <2>5. out' = [out EXCEPT ![q] = o] /\ budget' = [budget EXCEPT ![q] = budget[q]]
    BY <1>0, <1>5, <2>1 DEF Refuses
  <2> HIDE DEF size
  <2>6. /\ o \in Result /\ o.fixed = out[q].fixed /\ o.rows = out[q].rows
        /\ o.bytes = out[q].bytes /\ o.refused = size
    BY <1>0, <2>4 DEF Result
  <2>7. SizeInv(o)
    <3>1. Counted(budget[q], size) = EncodedSize(o.fixed, o.rows + 1, o.bytes + size)
      <4>1. Counted(BudgetOf(out[q]), size)
              = EncodedSize(out[q].fixed, out[q].rows + 1, out[q].bytes + size)
        BY <1>0, <2>4, CountedIsEncoded
      <4>2. QED
        BY <4>1, <2>3, <2>6
    <3>2. Counted(budget[q], size) \in Nat
      BY <1>0, <2>1, FitIsExact, RowFitsIsExact DEF size
    <3> HIDE DEF o
    <3>3. QED
      BY <1>0, <2>4, <2>6, <3>1, <3>2, BudgetAssumption DEF SizeInv
  <2> HIDE DEF o
  <2>8. QED
    BY <1>0, <1>1, <2>2, <2>5, <2>6, <2>7
<1>6. CASE Passes(q)
  <2>1. PICK next \in (Loose \cup Held) \ {"rows"} : pc' = [pc EXCEPT ![q] = next]
    BY <1>6 DEF Passes
  <2>2. PICK o \in {out[q], NoResult, [out[q] EXCEPT !.state = "complete"],
                    [out[q] EXCEPT !.state = "truncated"]} :
            out' = [out EXCEPT ![q] = o]
    BY <1>6 DEF Passes
  <2>3. PICK b \in {budget[q], NewBudget(0)} : budget' = [budget EXCEPT ![q] = b]
    BY <1>6 DEF Passes
  <2>4. o \in Result /\ SizeInv(o)
    BY <1>0 DEF SizeInv, Result, NoResult
  <2>5. b \in Budget
    BY <1>0 DEF NewBudget, Budget
  <2>6. QED
    BY <1>1, <2>1, <2>2, <2>3, <2>4, <2>5
<1>7. QED
  BY <1>2, <1>3, <1>4, <1>5, <1>6 DEF ResultStep
---------------------------------------------------------------------------
(***************************************************************************)
(* What kind of step each action is.                                       *)
(***************************************************************************)
ResultType == budget \in [Queries -> Budget] /\ out \in [Queries -> Result]

\* Three ways to be past the reading.
LEMMA ResultKept ==
    ASSUME ResultType, NEW q \in Queries, NEW next \in (Loose \cup Held) \ {"rows"}, Go(q, next),
           UNCHANGED result
    PROVE  Passes(q)
<1>1. out' = [out EXCEPT ![q] = out[q]] /\ budget' = [budget EXCEPT ![q] = budget[q]]
  BY DEF result, ResultType
<1>2. QED
  BY <1>1 DEF Passes, Go

\* A step past the reading keeps or drops the result,
LEMMA ReadingOver ==
    ASSUME ResultType, NEW q \in Queries, NEW next \in (Loose \cup Held) \ {"rows"}, Go(q, next),
           EndReading(q)
    PROVE  Passes(q)
<1>1. \E o \in {out[q], NoResult} : out' = [out EXCEPT ![q] = o]
  BY DEF EndReading
<1>2. budget' = [budget EXCEPT ![q] = NewBudget(0)]
  BY DEF EndReading
<1>3. QED
  BY <1>1, <1>2 DEF Passes, Go

\* marks it as complete or cut,
LEMMA ResultMarked ==
    ASSUME ResultType, NEW q \in Queries, NEW next \in (Loose \cup Held) \ {"rows"}, Go(q, next),
           NEW state \in {"complete", "truncated"}, out' = [out EXCEPT ![q].state = state],
           budget' \in {budget, [budget EXCEPT ![q] = NewBudget(0)]}
    PROVE  Passes(q)
<1>1. out' = [out EXCEPT ![q] = [out[q] EXCEPT !.state = state]]
  BY DEF ResultType, Result
<1>2. \E b \in {budget[q], NewBudget(0)} : budget' = [budget EXCEPT ![q] = b]
  BY DEF ResultType
<1>3. QED
  BY <1>1, <1>2 DEF Passes, Go

\* or starts it.
LEMMA ResultStarted ==
    ASSUME NEW q \in Queries, NEW after \in Loose \cup Held, StartResult(q, after)
    PROVE  Starts(q)
  BY DEF StartResult, Starts, Go, Held

\* The loop over the rows is the same for every engine.
LEMMA RowRead ==
    ASSUME ResultType, NEW q \in Queries, NEW row \in RowKinds, NEW sizes, NEW fit,
           NEW after \in (Loose \cup Held) \ {"rows"}, ReadRow(q, row, sizes, fit, after),
           sizes = SizesOf(row), fit <=> Fit(budget[q], row)
    PROVE  ResultStep(q)
<1>0. pc[q] = "rows"
  BY DEF ReadRow
<1>1. CASE Go(q, after) /\ UNCHANGED result
  BY <1>1, ResultKept DEF ResultStep
<1>2. CASE Go(q, after) /\ out' = [out EXCEPT ![q].state = "truncated"] /\ UNCHANGED budget
  BY <1>2, ResultMarked DEF ResultStep
<1>3. CASE ~fit /\ Go(q, after) /\ UNCHANGED budget
           /\ out' = [out EXCEPT ![q].refused = EncodedRow(sizes)]
  BY <1>0, <1>3 DEF ResultStep, Refuses, Go
<1>4. CASE fit /\ Retain(q, row, sizes) /\ UNCHANGED pc
  BY <1>0, <1>4 DEF ResultStep, Retains
<1>5. QED
  BY <1>1, <1>2, <1>3, <1>4 DEF ReadRow

\* The tool, the service, discovery and the query's context.
LEMMA ToolResult ==
    ASSUME ResultType, ConnType, NEW q \in Queries,
           \/ RefuseRequest(q) \/ QueryRelationalDatabase(q) \/ Respond(q) \/ NextRequest(q)
           \/ CancelRequest(q) \/ QueryTimeout(q)
    PROVE  ResultStep(q)
<1>1. CASE RefuseRequest(q)
  BY <1>1, ResultKept DEF RefuseRequest, Loose, ResultStep
<1>2. CASE QueryRelationalDatabase(q)
  <2>1. UNCHANGED result /\ (Go(q, "respond") \/ Go(q, "open"))
    BY <1>2 DEF QueryRelationalDatabase
  <2>2. {"respond", "open"} \subseteq (Loose \cup Held) \ {"rows"}
    BY DEF Loose
  <2>3. QED
    BY <2>1, <2>2, ResultKept DEF ResultStep
<1>3. CASE Respond(q)
  BY <1>3, ResultKept DEF Respond, Loose, ResultStep
<1>4. CASE NextRequest(q)
  <2>1. budget' = [budget EXCEPT ![q] = budget[q]] /\ out' = [out EXCEPT ![q] = NoResult]
    BY <1>4 DEF NextRequest, ResultType
  <2>2. Go(q, "idle") /\ "idle" \in (Loose \cup Held) \ {"rows"}
    BY <1>4 DEF NextRequest, Loose
  <2>3. QED
    BY <2>1, <2>2 DEF ResultStep, Passes, Go
<1>5. CASE CancelRequest(q)
  BY <1>5 DEF CancelRequest, ResultStep, Leaves
<1>6. CASE QueryTimeout(q)
  BY <1>6 DEF QueryTimeout, ResultStep, Leaves
<1>7. QED
  BY <1>1, <1>2, <1>3, <1>4, <1>5, <1>6

\* Each step of PostgreSQL's executor does one of these to the result.
LEMMA PgResult ==
    ASSUME ResultType, NEW q \in Queries, PgNext(q)
    PROVE  ResultStep(q)
<1> USE DEF ResultStep
<1>0. engine = "postgres"
  BY DEF PgNext
<1>1. {"acquire", "begin", "query", "drain", "rollback", "deallocate", "discard", "release",
       "destroy", "respond"} \subseteq (Loose \cup Held) \ {"rows"}
  BY DEF Loose, Held
<1>2. CASE PgOpen(q) \/ PgAcquire(q) \/ PgBegin(q) \/ PgRelease(q) \/ PgDestroy(q)
  <2>1. UNCHANGED result
    BY <1>2 DEF PgOpen, PgAcquire, PgBegin, PgRelease, PgDestroy
  <2>2. \E next \in {"acquire", "begin", "query", "release", "respond"} : Go(q, next)
    BY <1>2 DEF PgOpen, PgAcquire, PgBegin, PgRelease, PgDestroy, PgFails
  <2>3. QED
    BY <1>1, <2>1, <2>2, ResultKept
<1>3. CASE PgQuery(q)
  <2>1. CASE StartResult(q, "drain")
    BY <1>1, <2>1, ResultStarted
  <2>2. CASE Go(q, "rollback") /\ UNCHANGED result
    BY <1>1, <2>2, ResultKept
  <2>3. QED
    BY <1>3, <2>1, <2>2 DEF PgQuery, PgFails
<1>4. CASE PgRow(q)
  <2>1. PICK row \in RowKinds :
            ReadRow(q, row, PgSizes(row), RowFits(budget[q], PgSizes(row)), "drain")
    BY <1>4 DEF PgRow
  <2>2. SizesOf(row) = PgSizes(row) /\ (Fit(budget[q], row) <=> RowFits(budget[q], PgSizes(row)))
    BY <1>0 DEF SizesOf, Fit
  <2>3. QED
    BY <1>1, <2>1, <2>2, RowRead
<1>5. CASE PgRowsEnd(q)
  <2>1. Go(q, "rollback")
    BY <1>5 DEF PgRowsEnd, PgFails
  <2>2. CASE EndReading(q)
    BY <1>1, <2>1, <2>2, ReadingOver
  <2>3. CASE /\ out' = [out EXCEPT ![q].state = "complete"]
             /\ budget' = [budget EXCEPT ![q] = NewBudget(0)]
    BY <1>1, <2>1, <2>3, ResultMarked
  <2>4. QED
    BY <1>5, <2>2, <2>3 DEF PgRowsEnd
<1>6. CASE PgDrain(q)
  BY <1>1, <1>6, ReadingOver DEF PgDrain, PgFails
<1>7. CASE PgRollback(q) \/ PgDeallocateAll(q) \/ PgDiscardAll(q)
  <2>1. EndReading(q) /\ \E next \in {"deallocate", "discard", "release", "destroy"} : Go(q, next)
    BY <1>7 DEF PgRollback, PgDeallocateAll, PgDiscardAll, PgCleanUpStep
  <2>2. QED
    BY <1>1, <2>1, ReadingOver
<1>8. QED
  BY <1>2, <1>3, <1>4, <1>5, <1>6, <1>7 DEF PgNext

\* Each step of MySQL's executor does.
LEMMA MyResult ==
    ASSUME ResultType, NEW q \in Queries, MyNext(q)
    PROVE  ResultStep(q)
<1> USE DEF ResultStep
<1>0. engine = "mysql"
  BY DEF MyNext
<1>1. {"acquire", "begin", "query", "drain", "rollback", "destroy", "respond"}
        \subseteq (Loose \cup Held) \ {"rows"}
  BY DEF Loose, Held
<1>2. CASE MyOpen(q) \/ MyAcquire(q) \/ MyBegin(q) \/ MyDestroy(q)
  <2>1. UNCHANGED result
    BY <1>2 DEF MyOpen, MyAcquire, MyBegin, MyDestroy
  <2>2. \E next \in {"acquire", "begin", "query", "destroy", "respond"} : Go(q, next)
    BY <1>2 DEF MyOpen, MyAcquire, MyBegin, MyDestroy, MyFails
  <2>3. QED
    BY <1>1, <2>1, <2>2, ResultKept
<1>3. CASE MyQuery(q)
  <2>1. CASE StartResult(q, "drain")
    BY <1>1, <2>1, ResultStarted
  <2>2. CASE (Go(q, "rollback") \/ Go(q, "drain")) /\ UNCHANGED result
    BY <1>1, <2>2, ResultKept
  <2>3. QED
    BY <1>3, <2>1, <2>2 DEF MyQuery, MyFails
<1>4. CASE MyRow(q)
  <2>1. ASSUME NEW row \in RowKinds,
               ReadRow(q, row, MySizes(row), MyRowFits(budget[q], row), "drain")
        PROVE  ResultStep(q)
    <3>1. SizesOf(row) = MySizes(row) /\ (Fit(budget[q], row) <=> MyRowFits(budget[q], row))
      BY <1>0 DEF SizesOf, Fit
    <3>2. QED
      BY <1>1, <2>1, <3>1, RowRead
  <2>2. CASE MyUnknownValue(q)
    <3>1. UNCHANGED result /\ Go(q, "drain")
      BY <2>2 DEF MyUnknownValue
    <3>2. QED
      BY <1>1, <3>1, ResultKept
  <2>3. QED
    BY <1>4, <2>1, <2>2 DEF MyRow
<1>5. CASE MyRowsEnd(q)
  <2>1. Go(q, "rollback")
    BY <1>5 DEF MyRowsEnd, MyFails
  <2>2. CASE EndReading(q)
    BY <1>1, <2>1, <2>2, ReadingOver
  <2>3. CASE /\ out' = [out EXCEPT ![q].state = "complete"]
             /\ budget' = [budget EXCEPT ![q] = NewBudget(0)]
    BY <1>1, <2>1, <2>3, ResultMarked
  <2>4. QED
    BY <1>5, <2>2, <2>3 DEF MyRowsEnd
<1>6. CASE MyDrain(q) \/ MyRollback(q)
  <2>1. EndReading(q) /\ (Go(q, "rollback") \/ Go(q, "destroy"))
    BY <1>6 DEF MyDrain, MyRollback, MyFails
  <2>2. QED
    BY <1>1, <2>1, ReadingOver
<1>7. QED
  BY <1>2, <1>3, <1>4, <1>5, <1>6 DEF MyNext

\* Each step of SQLite's executor does.
LEMMA LiteResult ==
    ASSUME ResultType, NEW q \in Queries, LiteNext(q)
    PROVE  ResultStep(q)
<1> USE DEF ResultStep
<1>0. engine \notin {"postgres", "mysql"}
  BY DEF LiteNext
<1>1. {"prepare", "ended", "close statement", "close client", "respond"}
        \subseteq (Loose \cup Held) \ {"rows"}
  BY DEF Loose, Held
<1>2. CASE LiteOpen(q)
  BY <1>1, <1>2, ResultKept DEF LiteOpen, LiteFails
<1>3. CASE LitePrepare(q)
  <2>1. CASE StartResult(q, "ended")
    BY <1>1, <2>1, ResultStarted
  <2>2. CASE (Go(q, "close client") \/ Go(q, "close statement")) /\ UNCHANGED result
    BY <1>1, <2>2, ResultKept
  <2>3. QED
    BY <1>3, <2>1, <2>2 DEF LitePrepare, LiteFails
<1>4. CASE LiteRow(q)
  <2>1. PICK row \in RowKinds :
            ReadRow(q, row, LiteSizes(row), LiteRowFits(budget[q], row), "ended")
    BY <1>4 DEF LiteRow
  <2> DEFINE fit == LiteRowFits(budget[q], row)
  <2>2. LiteSizes(row) = SizesOf(row) /\ (fit <=> Fit(budget[q], row))
    BY <1>0 DEF SizesOf, Fit
  <2>3. "ended" \in (Loose \cup Held) \ {"rows"}
    BY <1>1
  <2> HIDE DEF fit
  <2>4. QED
    BY <2>1, <2>2, <2>3, RowRead DEF fit
<1>5. CASE LiteStepEnds(q)
  <2>1. Go(q, "ended") /\ UNCHANGED budget
    BY <1>5 DEF LiteStepEnds
  <2>2. CASE UNCHANGED out
    BY <1>1, <2>1, <2>2, ResultKept DEF result
  <2>3. CASE out' = [out EXCEPT ![q].state = "complete"]
    BY <1>1, <2>1, <2>3, ResultMarked
  <2>4. QED
    BY <1>5, <2>2, <2>3 DEF LiteStepEnds
<1>6. CASE LiteReadEnds(q) \/ LiteCloseStatement(q) \/ LiteCloseClient(q)
  <2>1. EndReading(q) /\ \E next \in {"close statement", "close client", "respond"} : Go(q, next)
    BY <1>6 DEF LiteReadEnds, LiteCloseStatement, LiteCloseClient, LiteFails
  <2>2. QED
    BY <1>1, <2>1, ReadingOver
<1>7. QED
  BY <1>2, <1>3, <1>4, <1>5, <1>6 DEF LiteNext

\* What is counted of a result is what it is encoded in.
LEMMA ResultInvariant == Spec => []ResultInv
<1>1. Init => ResultInv
  BY DEF Init, ResultInv, Budget, NewBudget, NoResult, Result, SizeInv
<1>2. IInv /\ ResultInv /\ [Next]_vars => ResultInv'
  <2> SUFFICES ASSUME IInv, ResultInv, [Next]_vars
               PROVE  ResultInv'
    OBVIOUS
  <2>1. ConnType /\ ResultType
    BY DEF IInv, ResultInv, ResultType
  <2>2. ASSUME NEW q \in Queries,
               \/ RefuseRequest(q) \/ QueryRelationalDatabase(q) \/ Respond(q) \/ NextRequest(q)
               \/ CancelRequest(q) \/ QueryTimeout(q)
               \/ PgNext(q) \/ MyNext(q) \/ LiteNext(q)
        PROVE  ResultInv'
    BY <2>1, <2>2, ToolResult, PgResult, MyResult, LiteResult, ResultStepKeeps
  <2>3. ASSUME UNCHANGED <<pc, result>>
        PROVE  ResultInv'
    BY <2>3 DEF result, ResultInv, SizeInv, EncodedSize, BudgetOf
  <2>4. ASSUME NEW c \in Conns, BorrowConnection(c) \/ ReturnConnection(c)
        PROVE  UNCHANGED <<pc, result>>
    BY <2>4 DEF BorrowConnection, ReturnConnection
  <2>5. QED
    BY <2>2, <2>3, <2>4 DEF Next, vars
<1>3. QED
  BY <1>1, <1>2, InductiveInvariant, PTL DEF Spec

(* However many rows a database sends, and whatever their sizes, the bytes *)
(* counted for a result are those it is encoded in: what was retained fits *)
(* the limit with every comma and digit, and a row that was refused would  *)
(* have exceeded it (query_result.go of the engines).                      *)
THEOREM BudgetExact == Spec => []BudgetIsExact
<1>1. ResultInv => BudgetIsExact
  BY DEF ResultInv, BudgetIsExact, SizeInv, BudgetOf, Commas
<1>2. QED
  BY <1>1, ResultInvariant, PTL
-----------------------------------------------------------------------------
(***************************************************************************)
(* What a query is answered with.                                          *)
(***************************************************************************)
Tags ==
    {"ErrInvalidRequest", "ErrSourceNotFound", "ErrSourceKindMismatch", "ErrInvalidQuery",
     "ErrQueryTimeout", "context.DeadlineExceeded", "ErrCancelled", "context.Canceled",
     "ErrDatabaseUnavailable", "ErrResultTooLarge", "ErrInternal", "unavailable"}

Meanings ==
    {"database_permission_denied", "read_only_violation", "query_cancelled", "query_timeout",
     "database_authentication_failed", "database_conflict", "database_unavailable",
     "database_resource_exhausted", "invalid_query", "database_error"}

Categories == [category : Meanings, retryable : BOOLEAN]

Codes == DOMAIN PgCategory \cup DOMAIN MyCategory \cup LiteCodes

Error == [is : SUBSET Tags, driver : Codes \cup {None}, projected : Categories \cup {None}]

MayHelp == {"database_unavailable", "database_conflict"}

\* A sentinel or a category is only there if what it tells has happened (w), or if
\* the request (r) or the query's context (c) has ended.
TagTold(tag, r, c, w) ==
    CASE tag = "ErrInvalidRequest" -> "invalid_request" \in w
      [] tag = "ErrSourceNotFound" -> "source_not_found" \in w
      [] tag = "ErrSourceKindMismatch" -> "source_kind_mismatch" \in w
      [] tag = "ErrInvalidQuery" -> "invalid_query" \in w
      [] tag = "ErrResultTooLarge" -> "result_too_large" \in w
      [] tag \in {"ErrDatabaseUnavailable", "unavailable"} -> "database_unavailable" \in w
      [] tag \in {"ErrCancelled", "context.Canceled"} -> r = "cancelled" \/ "cancelled" \in w
      [] OTHER -> c = "deadline" \/ "query_timeout" \in w

CategoryTold(a, w) == a.category \in w /\ (a.retryable <=> a.category \in MayHelp)

Explained(e, r, c, w) ==
    /\ \A tag \in e.is \ {"ErrInternal"} : TagTold(tag, r, c, w)
    /\ "ErrInternal" \in e.is => "internal" \in w \/ e.is \ {"ErrInternal", "unavailable"} # {}
    /\ e.projected # None => CategoryTold(e.projected, w)

\* The client is told of it.
Speaks(e) == e.projected # None \/ e.is \ {"unavailable"} # {}

\* The category that tells a meaning.
Telling(meaning) == IF meaning \in MayHelp THEN Retryable(meaning) ELSE Category(meaning)

\* A meaning that happened is told by its category.
LEMMA TellingTells ==
    ASSUME NEW meaning \in Meanings, NEW w
    PROVE  /\ Telling(meaning) \in Categories
           /\ meaning \in w => CategoryTold(Telling(meaning), w)
<1>1. CASE meaning \in MayHelp
  BY <1>1 DEF Telling, Categories, CategoryTold, Retryable
<1>2. CASE meaning \notin MayHelp
  BY <1>2 DEF Telling, Categories, CategoryTold, Category
<1>3. QED
  BY <1>1, <1>2

\* PostgreSQL's codes have the categories that tell their meanings,
LEMMA PgCodes ==
    /\ DOMAIN PgMeaning = DOMAIN PgCategory
    /\ \A code \in DOMAIN PgCategory :
          /\ PgMeaning[code] \in Meanings
          /\ PgCategory[code] = Telling(PgMeaning[code])
<1>1. DOMAIN PgMeaning = DOMAIN PgCategory
  BY DEF PgMeaning, PgCategory
<1>2. ASSUME NEW code \in DOMAIN PgCategory
      PROVE  PgMeaning[code] \in Meanings
  BY DEF PgMeaning, PgCategory, Meanings
<1>3. ASSUME NEW code \in DOMAIN PgCategory
      PROVE  PgCategory[code] = Telling(PgMeaning[code])
  BY DEF PgMeaning, PgCategory, Telling, MayHelp
<1>4. QED
  BY <1>1, <1>2, <1>3

\* MySQL's have,
LEMMA MyCodes ==
    /\ DOMAIN MyMeaning = DOMAIN MyCategory
    /\ \A code \in DOMAIN MyCategory :
          /\ MyMeaning[code] \in Meanings
          /\ MyCategory[code] = Telling(MyMeaning[code])
<1>1. DOMAIN MyMeaning = DOMAIN MyCategory
  BY DEF MyMeaning, MyCategory
<1>2. ASSUME NEW code \in DOMAIN MyCategory
      PROVE  MyMeaning[code] \in Meanings
  BY DEF MyMeaning, MyCategory, Meanings
<1>3. ASSUME NEW code \in DOMAIN MyCategory
      PROVE  MyCategory[code] = Telling(MyMeaning[code])
  BY DEF MyMeaning, MyCategory, Telling, MayHelp
<1>4. QED
  BY <1>1, <1>2, <1>3

\* and SQLite's have, in every phase.
LEMMA LiteCodesAre ==
    \A phase \in Phases :
        /\ DOMAIN LiteMeaning(phase) = LiteCodes
        /\ \A code \in LiteCodes :
              /\ LiteMeaning(phase)[code] \in Meanings
              /\ sqliteErrorCategory(code, phase) = Telling(LiteMeaning(phase)[code])
<1> SUFFICES ASSUME NEW phase \in Phases, NEW code \in LiteCodes
             PROVE  /\ LiteMeaning(phase)[code] \in Meanings
                    /\ sqliteErrorCategory(code, phase) = Telling(LiteMeaning(phase)[code])
  BY DEF LiteMeaning
<1>1. code \in {"ERROR", "AUTH", "READONLY", "BUSY", "INTERRUPT", "IOERR", "TOOBIG", "CORRUPT"}
  BY DEF LiteCodes
<1>2. LiteMeaning(phase)[code] =
        CASE code = "ERROR" -> (IF phase = "prepare" THEN "invalid_query" ELSE "database_error")
          [] code = "AUTH" -> "database_permission_denied"
          [] code = "READONLY" -> "read_only_violation"
          [] code = "BUSY" -> "database_conflict"
          [] code = "INTERRUPT" -> "query_cancelled"
          [] code = "IOERR" -> "database_unavailable"
          [] code = "TOOBIG" -> "database_resource_exhausted"
          [] code = "CORRUPT" -> "database_error"
  BY <1>1 DEF LiteMeaning
<1>3. LiteMeaning(phase)[code] \in Meanings
  BY <1>1, <1>2 DEF Meanings
<1>4. sqliteErrorCategory(code, phase) = Telling(LiteMeaning(phase)[code])
  <2> USE DEF sqliteErrorCategory, InvalidQueryCodes, Telling, MayHelp
  <2>1. CASE code = "ERROR" BY <1>2, <2>1
  <2>2. CASE code = "AUTH" BY <1>2, <2>2
  <2>3. CASE code = "READONLY" BY <1>2, <2>3
  <2>4. CASE code = "BUSY" BY <1>2, <2>4
  <2>5. CASE code = "INTERRUPT" BY <1>2, <2>5
  <2>6. CASE code = "IOERR" BY <1>2, <2>6
  <2>7. CASE code = "TOOBIG" BY <1>2, <2>7
  <2>8. CASE code = "CORRUPT" BY <1>2, <2>8
  <2>9. QED BY <1>1, <2>1, <2>2, <2>3, <2>4, <2>5, <2>6, <2>7, <2>8
<1>5. QED
  BY <1>3, <1>4

\* The least of some numbers is one of them.
LEMMA MinIsOne ==
    ASSUME NEW S \in SUBSET Nat, S # {}
    PROVE  Min(S) \in S
<1> DEFINE R == OpToRel(<, Nat)
<1>0. \A x, y \in Nat : <<y, x>> \in R <=> y < x
  BY DEF OpToRel
<1>1. IsWellFoundedOn(R, Nat)
  BY NatLessThanWellFounded
<1> HIDE DEF R
<1>2. \E x \in S : \A y \in S : ~(<<y, x>> \in R)
  BY <1>1, WFMin
<1>3. PICK x \in S : \A y \in S : ~(<<y, x>> \in R)
  BY <1>2
<1>4. ASSUME NEW y \in S
      PROVE  x <= y
  <2>1. x \in Nat /\ y \in Nat /\ ~(<<y, x>> \in R)
    BY <1>3
  <2>2. ~(y < x)
    BY <1>0, <2>1
  <2>3. QED
    BY <2>1, <2>2
<1>5. QED
  BY <1>4 DEF Min
---------------------------------------------------------------------------
\* A code is one the database has, and what it means was blamed.
DriverTold(e, M, w) == e.driver # None => e.driver \in DOMAIN M /\ M[e.driver] \in w

\* An error of sentinels only.
LEMMA IsIs ==
    ASSUME NEW tags \in SUBSET Tags
    PROVE  Is(tags) = [is |-> tags, driver |-> None, projected |-> None] /\ Is(tags) \in Error
  BY DEF Is, NoError, Error

\* No error is one without sentinels.
LEMMA NoErrorIs == NoError = Is({}) /\ NoError \in Error
  BY DEF Is, NoError, Error

\* An error of the driver only.
LEMMA DriverErrorIs ==
    ASSUME NEW code \in Codes
    PROVE  /\ DriverError(code) = [is |-> {}, driver |-> code, projected |-> None]
           /\ DriverError(code) \in Error
           /\ code # None
  BY NoErrorAssumption DEF DriverError, NoError, Error, Codes

\* Joined errors are explained if both are.
LEMMA JoinIs ==
    ASSUME NEW e \in Error, NEW f \in Error
    PROVE  /\ Join(e, f) \in Error
           /\ \A r, c, w : Explained(e, r, c, w) /\ Explained(f, r, c, w)
                              => Explained(Join(e, f), r, c, w)
           /\ \A M, w : DriverTold(e, M, w) /\ DriverTold(f, M, w) => DriverTold(Join(e, f), M, w)
           /\ Speaks(e) \/ Speaks(f) => Speaks(Join(e, f))
           /\ Join(e, f) = NoError => f = NoError
<1> DEFINE j == Join(e, f)
<1>1. /\ j.is = e.is \cup f.is
      /\ j.driver = IF e.driver = None THEN f.driver ELSE e.driver
      /\ j.projected = IF e.projected = None THEN f.projected ELSE e.projected
      /\ j \in Error
  BY DEF Join, Error
<1>2. f = [is |-> f.is, driver |-> f.driver, projected |-> f.projected]
  BY DEF Error
<1> HIDE DEF j
<1>3. ASSUME NEW r, NEW c, NEW w, Explained(e, r, c, w), Explained(f, r, c, w)
      PROVE  Explained(j, r, c, w)
  BY <1>1, <1>3 DEF Explained
<1>4. ASSUME NEW M, NEW w, DriverTold(e, M, w), DriverTold(f, M, w)
      PROVE  DriverTold(j, M, w)
  BY <1>1, <1>4 DEF DriverTold
<1>5. Speaks(e) \/ Speaks(f) => Speaks(j)
  BY <1>1 DEF Speaks
<1>6. ASSUME j = NoError
      PROVE  f = NoError
  <2>1. j.is = {} /\ j.driver = None /\ j.projected = None
    BY <1>6 DEF NoError
  <2>2. f.is = {} /\ f.driver = None /\ f.projected = None
    BY <1>1, <2>1
  <2>3. QED
    BY <1>2, <2>2 DEF NoError
<1>7. QED
  BY <1>1, <1>3, <1>4, <1>5, <1>6 DEF j

\* What tells something is an error.
LEMMA SpeakingIsAnError == \A e : Speaks(e) => e # NoError
  BY DEF Speaks, NoError

\* What is told stays told.
LEMMA StaysTold ==
    ASSUME NEW e, NEW r, NEW c, NEW w, NEW s, NEW d, NEW v,
           r = "cancelled" => s = "cancelled", c = "deadline" => d = "deadline", w \subseteq v,
           Explained(e, r, c, w)
    PROVE  Explained(e, s, d, v)
<1>1. \A tag : TagTold(tag, r, c, w) => TagTold(tag, s, d, v)
  BY DEF TagTold
<1>2. \A a : CategoryTold(a, w) => CategoryTold(a, v)
  BY DEF CategoryTold
<1>3. QED
  BY <1>1, <1>2 DEF Explained

\* What the driver's code tells stays told.
LEMMA DriverStaysTold ==
    ASSUME NEW e, NEW M, NEW w, NEW v, w \subseteq v, DriverTold(e, M, w)
    PROVE  DriverTold(e, M, v)
  BY DEF DriverTold

\* A tag is told, or a code.
LEMMA TagIsTold ==
    ASSUME NEW tag \in Tags, NEW r, NEW c, NEW w,
           IF tag = "ErrInternal" THEN "internal" \in w ELSE TagTold(tag, r, c, w)
    PROVE  Is({tag}) \in Error /\ Explained(Is({tag}), r, c, w) /\ \A M : DriverTold(Is({tag}), M, w)
<1>1. Is({tag}) = [is |-> {tag}, driver |-> None, projected |-> None] /\ Is({tag}) \in Error
  BY IsIs
<1>2. QED
  BY <1>1 DEF Explained, DriverTold

\* A driver's error has no sentinel to explain.
LEMMA CodeIsTold ==
    ASSUME NEW code \in Codes, NEW r, NEW c, NEW w
    PROVE  Explained(DriverError(code), r, c, w)
  BY DriverErrorIs DEF Explained

\* A request that was cancelled is told so.
LEMMA CancelledIsTold ==
    ASSUME NEW c, NEW w
    PROVE  LET e == Is({"ErrCancelled", "context.Canceled"}) IN
           /\ e \in Error /\ Explained(e, "cancelled", c, w) /\ Speaks(e)
           /\ \A M : DriverTold(e, M, w)
<1>1. {"ErrCancelled", "context.Canceled"} \in SUBSET Tags
  BY DEF Tags
<1>2. QED
  BY <1>1, IsIs DEF Explained, TagTold, Speaks, DriverTold

\* So is a query whose time is up.
LEMMA TimeoutIsTold ==
    ASSUME NEW r, NEW w
    PROVE  LET e == Is({"ErrQueryTimeout"})
               f == Is({"ErrQueryTimeout", "context.DeadlineExceeded"})
           IN
           /\ e \in Error /\ Explained(e, r, "deadline", w) /\ Speaks(e) /\ \A M : DriverTold(e, M, w)
           /\ f \in Error /\ Explained(f, r, "deadline", w) /\ Speaks(f) /\ \A M : DriverTold(f, M, w)
<1>1. {"ErrQueryTimeout", "context.DeadlineExceeded"} \in SUBSET Tags
      /\ {"ErrQueryTimeout"} \in SUBSET Tags
  BY DEF Tags
<1>2. QED
  BY <1>1, IsIs DEF Explained, TagTold, Speaks, DriverTold
---------------------------------------------------------------------------
\* A failed call says what happened, and what it is blamed for is that.
Honest(q, f, M) ==
    /\ f.error \in Error
    /\ Explained(f.error, request[q], query[q], f.why)
    /\ DriverTold(f.error, M, f.why)
    /\ f.error = NoError => "internal" \in f.why

ContextsAgree(q) == query[q] = "canceled" => request[q] = "cancelled"

\* The error of a context that ended tells so.
LEMMA ContextErrorIsTold ==
    ASSUME NEW q \in Queries, ContextsAgree(q), Ended(q), NEW w
    PROVE  /\ ContextError(q) \in Error /\ Speaks(ContextError(q))
           /\ Explained(ContextError(q), request[q], query[q], w)
           /\ \A M : DriverTold(ContextError(q), M, w)
<1> DEFINE tag == IF query[q] = "deadline" THEN "context.DeadlineExceeded" ELSE "context.Canceled"
<1>1. tag \in Tags /\ tag # "ErrInternal" /\ tag # "unavailable"
  BY DEF Tags
<1>2. TagTold(tag, request[q], query[q], w)
  BY DEF TagTold, Ended, ContextsAgree
<1>3. ContextError(q) = Is({tag})
  BY DEF ContextError
<1> HIDE DEF tag
<1>4. Speaks(Is({tag}))
  BY <1>1, IsIs DEF Speaks
<1>5. QED
  BY <1>1, <1>2, <1>3, <1>4, TagIsTold

\* Failures of the connection and of the contexts are honest,
LEMMA FailuresAreHonest ==
    ASSUME NEW q \in Queries, ContextsAgree(q), NEW M
    PROVE  /\ \A f \in Interrupted(q) \cup Broken : Honest(q, f, M)
           /\ Honest(q, DialTimeout, M) /\ Honest(q, PoolClosed, M)
           /\ Honest(q, Failed(Is({"ErrInvalidQuery"}), {"invalid_query"}, TRUE), M)
<1>1. ASSUME NEW tag \in {"unavailable", "ErrInvalidQuery"}, NEW up
      PROVE  Honest(q, Failed(Is({tag}), IF tag = "unavailable" THEN {"database_unavailable"}
                                         ELSE {"invalid_query"}, up), M)
  <2> DEFINE w == IF tag = "unavailable" THEN {"database_unavailable"} ELSE {"invalid_query"}
  <2>1. tag \in Tags /\ tag # "ErrInternal" /\ TagTold(tag, request[q], query[q], w)
    BY DEF Tags, TagTold
  <2>2. Is({tag}) # NoError
    BY <2>1, IsIs DEF NoError
  <2> HIDE DEF w
  <2>3. Honest(q, Failed(Is({tag}), w, up), M)
    BY <2>1, <2>2, TagIsTold DEF Honest, Failed
  <2>4. QED
    BY <2>3 DEF w
<1>2. Honest(q, Failed(NoError, {"internal"}, FALSE), M)
  BY NoErrorIs DEF Honest, Failed, Explained, DriverTold, NoError
<1>3. ASSUME NEW f \in Interrupted(q)
      PROVE  Honest(q, f, M)
  <2>1. Ended(q) /\ f = Failed(ContextError(q), {}, FALSE)
    BY DEF Interrupted
  <2>2. QED
    BY <2>1, ContextErrorIsTold, SpeakingIsAnError DEF Honest, Failed
<1>4. Honest(q, DialTimeout, M)
  <2> DEFINE e == Is({"unavailable", "context.DeadlineExceeded"})
             w == {"query_timeout", "database_unavailable"}
  <2>1. e \in Error /\ e.is = {"unavailable", "context.DeadlineExceeded"}
        /\ e.driver = None /\ e.projected = None
    BY IsIs DEF Tags
  <2>2. Explained(e, request[q], query[q], w) /\ e # NoError
    BY <2>1 DEF Explained, TagTold, NoError
  <2>3. QED
    BY <2>1, <2>2 DEF DialTimeout, Honest, Failed, DriverTold
<1>5. Honest(q, PoolClosed, M)
  <2> DEFINE e == Is({"context.Canceled"})
  <2>1. e \in Error /\ e.is = {"context.Canceled"} /\ e.driver = None /\ e.projected = None
    BY IsIs DEF Tags
  <2>2. Explained(e, request[q], query[q], {"cancelled"}) /\ e # NoError
    BY <2>1 DEF Explained, TagTold, NoError
  <2>3. QED
    BY <2>1, <2>2 DEF PoolClosed, Honest, Failed, DriverTold
<1>6. QED
  BY <1>1, <1>2, <1>3, <1>4, <1>5 DEF Broken

\* and so are the refusals of the server.
LEMMA RefusalsAreHonest ==
    ASSUME NEW q \in Queries, NEW M, NEW N,
           DOMAIN N \subseteq DOMAIN M, \A code \in DOMAIN N : code \in Codes /\ N[code] = M[code],
           NEW f \in Refused(N)
    PROVE  Honest(q, f, M)
<1>1. PICK code \in DOMAIN N : f = Failed(DriverError(code), {N[code]}, TRUE)
  BY DEF Refused
<1>2. /\ DriverError(code) \in Error /\ DriverError(code).driver = code
      /\ Explained(DriverError(code), request[q], query[q], {N[code]})
      /\ code # None
  BY DriverErrorIs, CodeIsTold
<1>3. DriverError(code) # NoError
  BY <1>2 DEF NoError
<1>4. QED
  BY <1>1, <1>2, <1>3 DEF Honest, Failed, DriverTold
---------------------------------------------------------------------------
(***************************************************************************)
(* What the engines make of an error tells what the error told.            *)
(***************************************************************************)
Tells(e, q, w) == e \in Error /\ Explained(e, request[q], query[q], w) /\ Speaks(e)

\* Projecting an explained error of PostgreSQL's keeps it explained, and lets it speak.
LEMMA PgProjectTells ==
    ASSUME NEW e \in Error, NEW r, NEW c, NEW w,
           Explained(e, r, c, w), DriverTold(e, PgMeaning, w), e = NoError => "internal" \in w
    PROVE  LET p == PgProject(e) IN
           /\ p \in Error /\ Explained(p, r, c, w) /\ Speaks(p) /\ DriverTold(p, PgMeaning, w)
<1>1. CASE e.projected # None
  BY <1>1 DEF PgProject, Speaks
<1>2. CASE e.projected = None /\ e.driver # None
  <2>1. /\ e.driver \in DOMAIN PgCategory /\ PgMeaning[e.driver] \in w
        /\ PgMeaning[e.driver] \in Meanings
        /\ PgCategory[e.driver] = Telling(PgMeaning[e.driver])
        /\ PgCategory[e.driver] # None
    BY <1>2, PgCodes, NoErrorAssumption DEF DriverTold
  <2> DEFINE a == PgCategory[e.driver]
  <2>2. a \in Categories /\ CategoryTold(a, w) /\ a # None
    BY <2>1, TellingTells
  <2>3. PgProject(e) = [e EXCEPT !.projected = a]
    BY <1>2 DEF PgProject
  <2> HIDE DEF a
  <2>4. PgProject(e) = [is |-> e.is, driver |-> e.driver, projected |-> a]
    BY <2>3 DEF Error
  <2>5. QED
    BY <2>2, <2>4 DEF Error, Explained, Speaks, DriverTold
<1>3. CASE e.projected = None /\ e.driver = None
  <2> DEFINE tag == IF "context.Canceled" \in e.is THEN "ErrCancelled"
                    ELSE IF "context.DeadlineExceeded" \in e.is THEN "ErrQueryTimeout"
                    ELSE IF "unavailable" \in e.is THEN "ErrDatabaseUnavailable"
                    ELSE "ErrInternal"
             j == Join(e, Is({tag}))
  <2>1. PgProject(e) = j /\ tag \in Tags
    BY <1>3 DEF PgProject, Tags
  <2>2. /\ Is({tag}) = [is |-> {tag}, driver |-> None, projected |-> None] /\ Is({tag}) \in Error
    BY <2>1, IsIs
  <2>3. j \in Error /\ j.is = e.is \cup {tag} /\ j.driver = None /\ j.projected = None
    BY <1>3, <2>2, JoinIs DEF Join
  <2>4. tag # "ErrInternal" => TagTold(tag, r, c, w)
    BY DEF Explained, TagTold
  <2>5. tag = "ErrInternal" => "internal" \in w \/ j.is \ {"ErrInternal", "unavailable"} # {}
    <3>1. SUFFICES ASSUME tag = "ErrInternal", e.is \ {"ErrInternal"} = {}
                   PROVE  "internal" \in w
      BY <2>3
    <3>2. CASE "ErrInternal" \in e.is
      BY <3>1, <3>2 DEF Explained
    <3>3. CASE "ErrInternal" \notin e.is
      BY <1>3, <3>1, <3>3 DEF Error, NoError
    <3>4. QED
      BY <3>2, <3>3
  <2>6. tag # "unavailable"
    OBVIOUS
  <2> HIDE DEF tag, j
  <2>7. Explained(j, r, c, w)
    BY <2>3, <2>4, <2>5 DEF Explained
  <2>8. Speaks(j) /\ DriverTold(j, PgMeaning, w)
    BY <2>3, <2>6 DEF Speaks, DriverTold
  <2>9. QED
    BY <2>1, <2>3, <2>7, <2>8
<1>4. QED
  BY <1>1, <1>2, <1>3

\* What PostgreSQL's executor makes of an error tells what happened.
LEMMA PgErrorTells ==
    ASSUME NEW q \in Queries, NEW e \in Error, NEW w,
           Explained(e, request[q], query[q], w), DriverTold(e, PgMeaning, w),
           e = NoError => "internal" \in w
    PROVE  Tells(PgExecutionError(q, e), q, w) /\ DriverTold(PgExecutionError(q, e), PgMeaning, w)
<1>1. CASE request[q] = "cancelled"
  BY <1>1, CancelledIsTold DEF PgExecutionError, Tells
<1>2. CASE request[q] # "cancelled" /\ query[q] = "deadline"
  <2>1. PgExecutionError(q, e) = Join(Is({"ErrQueryTimeout"}), e)
    BY <1>2 DEF PgExecutionError
  <2>2. QED
    BY <1>2, <2>1, TimeoutIsTold, JoinIs DEF Tells
<1>3. CASE request[q] # "cancelled" /\ query[q] # "deadline"
  <2>1. CASE e.projected # None \/ e.is \cap PgKnown # {}
    <3>1. PgExecutionError(q, e) = e
      BY <1>3, <2>1 DEF PgExecutionError
    <3>2. Speaks(e)
      BY <2>1 DEF Speaks, PgKnown
    <3>3. QED
      BY <3>1, <3>2 DEF Tells
  <2>2. CASE ~(e.projected # None \/ e.is \cap PgKnown # {})
    <3>1. PgExecutionError(q, e) = PgProject(e)
      BY <1>3, <2>2 DEF PgExecutionError
    <3>2. QED
      BY <3>1, PgProjectTells DEF Tells
  <2>3. QED
    BY <2>1, <2>2
<1>4. QED
  BY <1>1, <1>2, <1>3

\* Projecting an explained error of MySQL's keeps it explained, and lets it speak.
LEMMA MyProjectTells ==
    ASSUME NEW e \in Error, NEW r, NEW c, NEW w,
           Explained(e, r, c, w), DriverTold(e, MyMeaning, w), e = NoError => "internal" \in w
    PROVE  LET p == MyProject(e) IN
           /\ p \in Error /\ Explained(p, r, c, w) /\ Speaks(p) /\ DriverTold(p, MyMeaning, w)
<1>1. CASE e.projected # None \/ e.is \cap MyKnown # {}
  BY <1>1 DEF MyProject, Speaks, MyKnown
<1>2. CASE ~(e.projected # None \/ e.is \cap MyKnown # {}) /\ e.driver # None
  <2>1. /\ e.driver \in DOMAIN MyCategory /\ MyMeaning[e.driver] \in w
        /\ MyMeaning[e.driver] \in Meanings
        /\ MyCategory[e.driver] = Telling(MyMeaning[e.driver])
        /\ MyCategory[e.driver] # None
    BY <1>2, MyCodes, NoErrorAssumption DEF DriverTold
  <2> DEFINE a == MyCategory[e.driver]
  <2>2. a \in Categories /\ CategoryTold(a, w) /\ a # None
    BY <2>1, TellingTells
  <2>3. MyProject(e) = [e EXCEPT !.projected = a]
    BY <1>2 DEF MyProject
  <2> HIDE DEF a
  <2>4. MyProject(e) = [is |-> e.is, driver |-> e.driver, projected |-> a]
    BY <2>3 DEF Error
  <2>5. QED
    BY <2>2, <2>4 DEF Error, Explained, Speaks, DriverTold
<1>3. CASE ~(e.projected # None \/ e.is \cap MyKnown # {}) /\ e.driver = None
  <2> DEFINE tag == IF "unavailable" \in e.is THEN "ErrDatabaseUnavailable"
                    ELSE IF "context.Canceled" \in e.is THEN "ErrCancelled"
                    ELSE IF "context.DeadlineExceeded" \in e.is THEN "ErrQueryTimeout"
                    ELSE "ErrInternal"
             j == Join(e, Is({tag}))
  <2>1. MyProject(e) = j /\ tag \in Tags
    BY <1>3 DEF MyProject, Tags
  <2>2. /\ Is({tag}) = [is |-> {tag}, driver |-> None, projected |-> None] /\ Is({tag}) \in Error
    BY <2>1, IsIs
  <2>3. j \in Error /\ j.is = e.is \cup {tag} /\ j.driver = None /\ j.projected = None
    BY <1>3, <2>2, JoinIs DEF Join
  <2>4. tag # "ErrInternal" => TagTold(tag, r, c, w)
    BY DEF Explained, TagTold
  <2>5. tag = "ErrInternal" => "internal" \in w \/ j.is \ {"ErrInternal", "unavailable"} # {}
    <3>1. SUFFICES ASSUME tag = "ErrInternal", e.is \ {"ErrInternal"} = {}
                   PROVE  "internal" \in w
      BY <2>3
    <3>2. "ErrInternal" \notin e.is
      BY <1>3 DEF MyKnown
    <3>3. QED
      BY <1>3, <3>1, <3>2 DEF Error, NoError
  <2>6. tag # "unavailable"
    OBVIOUS
  <2> HIDE DEF tag, j
  <2>7. Explained(j, r, c, w)
    BY <2>3, <2>4, <2>5 DEF Explained
  <2>8. Speaks(j) /\ DriverTold(j, MyMeaning, w)
    BY <2>3, <2>6 DEF Speaks, DriverTold
  <2>9. QED
    BY <2>1, <2>3, <2>7, <2>8
<1>4. QED
  BY <1>1, <1>2, <1>3

\* What MySQL's executor makes of an error tells what happened.
LEMMA MyErrorTells ==
    ASSUME NEW q \in Queries, NEW e \in Error, NEW w,
           Explained(e, request[q], query[q], w), DriverTold(e, MyMeaning, w),
           e = NoError => "internal" \in w
    PROVE  Tells(MyExecutionError(q, e), q, w) /\ DriverTold(MyExecutionError(q, e), MyMeaning, w)
<1>1. CASE request[q] = "cancelled"
  BY <1>1, CancelledIsTold DEF MyExecutionError, Tells
<1>2. CASE request[q] # "cancelled" /\ query[q] = "deadline"
  BY <1>2, TimeoutIsTold DEF MyExecutionError, Tells
<1>3. CASE request[q] # "cancelled" /\ query[q] # "deadline"
  <2>1. CASE e.is \cap MyKnown # {}
    <3>1. MyExecutionError(q, e) = e
      BY <1>3, <2>1 DEF MyExecutionError
    <3>2. Speaks(e)
      BY <2>1 DEF Speaks, MyKnown
    <3>3. QED
      BY <3>1, <3>2 DEF Tells
  <2>2. CASE e.is \cap MyKnown = {}
    <3>1. MyExecutionError(q, e) = MyProject(e)
      BY <1>3, <2>2 DEF MyExecutionError
    <3>2. QED
      BY <3>1, MyProjectTells DEF Tells
  <2>3. QED
    BY <2>1, <2>2
<1>4. QED
  BY <1>1, <1>2, <1>3

\* SQLite's errors are projected once, in the phase they came in.
Raw(e, phase, w) ==
    \/ e = NoError /\ "database_error" \in w
    \/ e = Is({"ErrResultTooLarge"}) /\ "result_too_large" \in w
    \/ e = Is({"unavailable"}) /\ "database_unavailable" \in w
    \/ \E code \in LiteCodes : e = DriverError(code) /\ LiteMeaning(phase)[code] \in w

\* What SQLite's executor makes of an error tells what happened.
LEMMA LiteErrorTells ==
    ASSUME NEW q \in Queries, NEW e \in Error, NEW phase \in Phases, NEW w, ContextsAgree(q),
           \/ Ended(q) /\ Explained(e, request[q], query[q], w)
           \/ Raw(e, phase, w)
    PROVE  Tells(LiteProject(q, e, phase), q, w)
<1>1. CASE request[q] = "cancelled"
  BY <1>1, CancelledIsTold DEF LiteProject, Tells
<1>2. Explained(e, request[q], query[q], w)
  <2>1. CASE e = NoError
    BY <2>1 DEF Explained, NoError
  <2>2. ASSUME NEW tag \in {"ErrResultTooLarge", "unavailable"}, e = Is({tag}),
               TagTold(tag, request[q], query[q], w)
        PROVE  Explained(e, request[q], query[q], w)
    BY <2>2, TagIsTold DEF Tags
  <2>3. ASSUME NEW code \in LiteCodes, e = DriverError(code)
        PROVE  Explained(e, request[q], query[q], w)
    BY <2>3, CodeIsTold DEF Codes
  <2>4. QED
    BY <2>1, <2>2, <2>3 DEF Raw, TagTold
<1>3. CASE request[q] # "cancelled" /\ query[q] = "deadline"
  <2>1. LiteProject(q, e, phase) = Join(Is({"ErrQueryTimeout"}), e)
    BY <1>3 DEF LiteProject
  <2>2. QED
    BY <1>2, <1>3, <2>1, TimeoutIsTold, JoinIs DEF Tells
<1>4. CASE request[q] # "cancelled" /\ query[q] # "deadline"
  <2>0. Raw(e, phase, w)
    BY <1>4 DEF Ended, ContextsAgree
  <2>1. CASE e = Is({"ErrResultTooLarge"})
    <3>1. e = [is |-> {"ErrResultTooLarge"}, driver |-> None, projected |-> None]
      BY <2>1, IsIs DEF Tags
    <3>2. LiteProject(q, e, phase) = e
      BY <1>4, <3>1 DEF LiteProject, LiteKnown
    <3>3. QED
      BY <1>2, <3>1, <3>2 DEF Tells, Speaks
  <2>2. CASE e = Is({"unavailable"}) /\ "database_unavailable" \in w
    <3>1. e = [is |-> {"unavailable"}, driver |-> None, projected |-> None]
      BY <2>2, IsIs DEF Tags
    <3>2. LiteProject(q, e, phase) = Is({"ErrDatabaseUnavailable"})
      BY <1>4, <3>1 DEF LiteProject, LiteKnown
    <3>3. {"ErrDatabaseUnavailable"} \in SUBSET Tags
      BY DEF Tags
    <3>4. QED
      BY <2>2, <3>2, <3>3, IsIs DEF Tells, Speaks, Explained, TagTold
  <2>3. ASSUME e.is = {}, e.projected = None, NEW a \in Categories, a # None, CategoryTold(a, w),
               a = IF e.driver = None THEN Category("database_error")
                   ELSE sqliteErrorCategory(e.driver, phase)
        PROVE  Tells(LiteProject(q, e, phase), q, w)
    <3>1. LiteProject(q, e, phase) = [NoError EXCEPT !.projected = a]
      BY <1>4, <2>3 DEF LiteProject
    <3>2. LiteProject(q, e, phase) = [is |-> {}, driver |-> None, projected |-> a]
      BY <3>1 DEF NoError
    <3>3. QED
      BY <2>3, <3>2 DEF Tells, Speaks, Explained, Error
  <2>4. CASE e = NoError /\ "database_error" \in w
    <3>1. e.is = {} /\ e.projected = None /\ e.driver = None
      BY <2>4 DEF NoError
    <3>2. /\ Category("database_error") = Telling("database_error") /\ "database_error" \in Meanings
          /\ Category("database_error") = sqliteErrorCategory("CORRUPT", phase)
          /\ "CORRUPT" \in LiteCodes
      BY DEF Telling, MayHelp, Meanings, sqliteErrorCategory, InvalidQueryCodes, LiteCodes
    <3>3. Category("database_error") # None
      BY <3>2, NoErrorAssumption
    <3>4. QED
      BY <2>3, <2>4, <3>1, <3>2, <3>3, TellingTells
  <2>5. ASSUME NEW code \in LiteCodes, e = DriverError(code), LiteMeaning(phase)[code] \in w
        PROVE  Tells(LiteProject(q, e, phase), q, w)
    <3>1. e.is = {} /\ e.projected = None /\ e.driver = code /\ code # None
      BY <2>5, DriverErrorIs DEF Codes
    <3>2. /\ LiteMeaning(phase)[code] \in Meanings
          /\ sqliteErrorCategory(code, phase) = Telling(LiteMeaning(phase)[code])
          /\ sqliteErrorCategory(code, phase) # None
      BY LiteCodesAre, NoErrorAssumption
    <3>3. QED
      BY <2>3, <2>5, <3>1, <3>2, TellingTells
  <2>6. QED
    BY <2>0, <2>1, <2>2, <2>4, <2>5 DEF Raw
<1>5. QED
  BY <1>1, <1>3, <1>4
---------------------------------------------------------------------------
(***************************************************************************)
(* The error of a query, and its answer.                                   *)
(***************************************************************************)
Before == {"idle", "open", "acquire", "begin", "query", "prepare", "rows"}

After ==
    {"drain", "ended", "rollback", "deallocate", "discard", "release", "destroy",
     "close statement", "close client", "respond"}

CodesOf == IF engine = "postgres" THEN PgMeaning ELSE MyMeaning

Whole(q) ==
    \/ out[q].state = "complete"
    \/ out[q].state = "truncated" /\ truncation /\ out[q].rows = RowLimit

Answered(q) ==
    LET a == answer[q] IN
    /\ a.category = "ok" => causes[q] = {} /\ Whole(q)
    /\ a.category # "ok" =>
          \/ a.category \in causes[q]
          \/ a.category = "cancelled" /\ request[q] = "cancelled"
          \/ a.category = "query_timeout" /\ query[q] = "deadline"
    /\ a.category # "ok" /\ request[q] = "cancelled" => a.category = "cancelled"
    /\ a.retryable <=> a.category \in MayHelp

AnswerInv(q) ==
    /\ ContextsAgree(q)
    /\ Explained(err[q], request[q], query[q], causes[q])
    /\ Pooled => DriverTold(err[q], CodesOf, causes[q])
    /\ pc[q] \in Before => err[q] = NoError
    /\ pc[q] # "ended" => err[q] = NoError \/ Speaks(err[q])
    /\ pc[q] = "ended" => err[q] = NoError \/ Ended(q) \/ Raw(err[q], "step", causes[q])
    /\ err[q] = NoError => /\ pc[q] # "done" => causes[q] = {}
                           /\ pc[q] \in After => Whole(q)
    /\ pc[q] = "done" => Answered(q)

AnswerType ==
    /\ err \in [Queries -> Error]
    /\ request \in [Queries -> {"live", "cancelled"}]
    /\ query \in [Queries -> {"none", "live", "canceled", "deadline"}]
    /\ causes = [q \in Queries |-> causes[q]]
    /\ answer = [q \in Queries |-> answer[q]]

AllAnswerInv == AnswerType /\ \A q \in Queries : AnswerInv(q)

\* A query fails with an error that tells why, is halted in the loop over the rows,
\* or goes on.
Stops(q, next, e, w) ==
    /\ pc' = [pc EXCEPT ![q] = next]
    /\ err' = [err EXCEPT ![q] = e]
    /\ causes' = [causes EXCEPT ![q] = @ \cup w]
    /\ UNCHANGED <<config, contexts, answer>>

Fails(q) ==
    \E next \in After \ {"ended"}, e \in Error : \E w :
        /\ Stops(q, next, e, w)
        /\ Tells(e, q, causes[q] \cup w)
        /\ Pooled => DriverTold(e, CodesOf, causes[q] \cup w)

Halts(q) ==
    /\ ~Pooled
    /\ \E e \in Error : \E w :
          /\ Stops(q, "ended", e, w)
          /\ \/ Ended(q) /\ Explained(e, request[q], query[q], causes[q] \cup w)
             \/ Raw(e, "step", causes[q] \cup w)
          /\ e # NoError

GoesOn(q) ==
    /\ \E next \in Before \cup After :
          /\ pc' = [pc EXCEPT ![q] = next]
          /\ next \in Before \cup {"ended"} => pc[q] \in Before
          /\ pc[q] = "ended" => err[q] = NoError
          /\ next \in After /\ err[q] = NoError => \/ pc[q] \in After /\ out'[q] = out[q]
                                                   \/ Whole(q)'
          /\ pc[q] # "done"
    /\ UNCHANGED <<config, contexts, err, causes, answer>>

AnswerStep(q) == Fails(q) \/ Halts(q) \/ GoesOn(q)

\* The other queries are left alone.
Alone(q) ==
    \A p \in Queries \ {q} :
        /\ pc'[p] = pc[p] /\ err'[p] = err[p] /\ causes'[p] = causes[p] /\ answer'[p] = answer[p]
        /\ out'[p] = out[p] /\ request'[p] = request[p] /\ query'[p] = query[p]

\* An error of SQLite's that is not projected yet has nothing unexplained.
LEMMA RawIsExplained ==
    ASSUME NEW e, NEW phase \in Phases, NEW r, NEW c, NEW w, Raw(e, phase, w)
    PROVE  Explained(e, r, c, w)
<1>1. CASE e = NoError
  BY <1>1 DEF Explained, NoError
<1>2. ASSUME NEW tag \in {"ErrResultTooLarge", "unavailable"}, e = Is({tag}), TagTold(tag, r, c, w)
      PROVE  Explained(e, r, c, w)
  BY <1>2, TagIsTold DEF Tags
<1>3. ASSUME NEW code \in LiteCodes, e = DriverError(code)
      PROVE  Explained(e, r, c, w)
  BY <1>3, CodeIsTold DEF Codes
<1>4. QED
  BY <1>1, <1>2, <1>3 DEF Raw, TagTold

\* It stays so, whatever else happens.
LEMMA RawStays ==
    ASSUME NEW e, NEW phase, NEW w, NEW v, w \subseteq v, Raw(e, phase, w)
    PROVE  Raw(e, phase, v)
  BY DEF Raw

\* A step of one query leaves the others' errors alone.
LEMMA OtherAnswers ==
    ASSUME AllAnswerInv, NEW q \in Queries, Alone(q), UNCHANGED config
    PROVE  \A p \in Queries \ {q} : AnswerInv(p)'
<1> SUFFICES ASSUME NEW p \in Queries \ {q} PROVE AnswerInv(p)'
  OBVIOUS
<1>1. /\ pc'[p] = pc[p] /\ err'[p] = err[p] /\ causes'[p] = causes[p] /\ answer'[p] = answer[p]
      /\ out'[p] = out[p] /\ request'[p] = request[p] /\ query'[p] = query[p]
      /\ engine' = engine /\ truncation' = truncation
  BY DEF Alone, config
<1>2. AnswerInv(p)
  BY DEF AllAnswerInv
<1>3. /\ (Whole(p)' <=> Whole(p)) /\ (Pooled' <=> Pooled) /\ CodesOf' = CodesOf
      /\ (Ended(p)' <=> Ended(p)) /\ (ContextsAgree(p)' <=> ContextsAgree(p))
  BY <1>1 DEF Whole, Pooled, CodesOf, Ended, ContextsAgree
<1>4. Answered(p)' <=> Answered(p)
  BY <1>1, <1>3 DEF Answered
<1>5. Explained(err[p], request[p], query[p], causes[p])'
  <2>1. Explained(err[p], request[p], query[p], causes[p])
    BY <1>2 DEF AnswerInv
  <2>2. QED
    BY <1>1, <2>1 DEF Explained, TagTold, CategoryTold
<1>6. (Pooled => DriverTold(err[p], CodesOf, causes[p]))'
  BY <1>1, <1>2, <1>3 DEF AnswerInv, DriverTold
<1>7. (pc[p] = "ended" => err[p] = NoError \/ Ended(p) \/ Raw(err[p], "step", causes[p]))'
  BY <1>1, <1>2, <1>3 DEF AnswerInv, Raw
<1>8. (pc[p] # "ended" => err[p] = NoError \/ Speaks(err[p]))'
  BY <1>1, <1>2 DEF AnswerInv, Speaks
<1>9. QED
  BY <1>1, <1>2, <1>3, <1>4, <1>5, <1>6, <1>7, <1>8 DEF AnswerInv

\* A query that steps keeps what is said of it.
LEMMA AnswerStepKeeps ==
    ASSUME AllAnswerInv, ConnType, NEW q \in Queries, AnswerStep(q)
    PROVE  AnswerInv(q)' /\ AnswerType'
<1> USE DEF ConnType
<1>0. AnswerType /\ AnswerInv(q)
  BY DEF AllAnswerInv
<1>1. CASE GoesOn(q)
  <2>1. PICK next \in Before \cup After :
            /\ pc' = [pc EXCEPT ![q] = next]
            /\ next \in Before \cup {"ended"} => pc[q] \in Before
            /\ pc[q] = "ended" => err[q] = NoError
            /\ next \in After /\ err[q] = NoError => \/ pc[q] \in After /\ out'[q] = out[q]
                                                     \/ Whole(q)'
            /\ pc[q] # "done"
    BY <1>1 DEF GoesOn
  <2>2. pc'[q] = next /\ next # "done" /\ UNCHANGED <<config, contexts, err, causes, answer>>
    BY <1>1, <2>1 DEF GoesOn, Before, After
  <2>3. /\ UNCHANGED <<engine, truncation, request, query>>
        /\ Pooled' = Pooled /\ CodesOf' = CodesOf /\ (ContextsAgree(q)' <=> ContextsAgree(q))
    BY <2>2 DEF config, contexts, Pooled, CodesOf, ContextsAgree
  <2>4. next \in After /\ err[q] = NoError => Whole(q)'
    BY <1>0, <2>1, <2>3 DEF AnswerInv, Whole
  <2>5. AnswerType'
    BY <1>0, <2>2, <2>3 DEF AnswerType
  <2>6. /\ Explained(err[q], request[q], query[q], causes[q])'
        /\ (Pooled => DriverTold(err[q], CodesOf, causes[q]))'
        /\ Speaks(err[q])' <=> Speaks(err[q])
    BY <1>0, <2>2, <2>3 DEF AnswerInv, Explained, TagTold, CategoryTold, DriverTold, Speaks
  <2>7. next = "ended" => err[q] = NoError
    BY <1>0, <2>1 DEF AnswerInv
  <2>8. AnswerInv(q)'
    BY <1>0, <2>1, <2>2, <2>3, <2>4, <2>6, <2>7 DEF AnswerInv
  <2>9. QED
    BY <2>5, <2>8
<1>2. ASSUME NEW next \in After, NEW e \in Error, NEW w, Stops(q, next, e, w),
             Explained(e, request[q], query[q], causes[q] \cup w),
             Pooled => DriverTold(e, CodesOf, causes[q] \cup w),
             next # "ended" => Speaks(e),
             next = "ended" => Ended(q) \/ Raw(e, "step", causes[q] \cup w),
             e # NoError
      PROVE  AnswerInv(q)' /\ AnswerType'
  <2>1. /\ pc'[q] = next /\ err'[q] = e /\ causes'[q] = causes[q] \cup w
        /\ next \notin Before /\ next # "done"
        /\ UNCHANGED <<engine, truncation, request, query, answer>>
    BY <1>0, <1>2 DEF Stops, config, contexts, AnswerType, Before, After
  <2>2. AnswerType'
    BY <1>0, <1>2, <2>1 DEF Stops, AnswerType
  <2>3. /\ Pooled' = Pooled /\ CodesOf' = CodesOf /\ (ContextsAgree(q)' <=> ContextsAgree(q))
        /\ Ended(q)' <=> Ended(q)
    BY <2>1 DEF Pooled, CodesOf, ContextsAgree, Ended
  <2>4. Explained(err[q], request[q], query[q], causes[q])'
    BY <1>2, <2>1 DEF Explained, TagTold, CategoryTold
  <2>5. (Pooled => DriverTold(err[q], CodesOf, causes[q]))'
    BY <1>2, <2>1, <2>3 DEF DriverTold
  <2>6. next # "ended" => Speaks(err[q])'
    BY <1>2, <2>1 DEF Speaks
  <2>7. next = "ended" => Ended(q)' \/ Raw(err[q], "step", causes[q])'
    BY <1>2, <2>1, <2>3 DEF Raw
  <2>8. AnswerInv(q)'
    BY <1>0, <1>2, <2>1, <2>3, <2>4, <2>5, <2>6, <2>7 DEF AnswerInv
  <2>9. QED
    BY <2>2, <2>8
<1>3. CASE Fails(q)
  BY <1>2, <1>3, SpeakingIsAnError DEF Fails, Tells
<1>4. CASE Halts(q)
  <2>1. "ended" \in After /\ "step" \in Phases
    BY DEF After, Phases
  <2>2. QED
    BY <1>2, <1>4, <2>1, RawIsExplained DEF Halts
<1>5. QED
  BY <1>1, <1>3, <1>4 DEF AnswerStep
---------------------------------------------------------------------------
\* The sentinels that are asked for, and what each is told as.
LEMMA SentinelsAre ==
    /\ DOMAIN SentinelOrder = 1..10
    /\ SentinelOrder[1] = <<"ErrInvalidRequest", Category("invalid_request")>>
    /\ SentinelOrder[2] = <<"ErrSourceNotFound", Category("source_not_found")>>
    /\ SentinelOrder[3] = <<"ErrSourceKindMismatch", Category("source_kind_mismatch")>>
    /\ SentinelOrder[4] = <<"ErrInvalidQuery", Category("invalid_query")>>
    /\ SentinelOrder[5] = <<"ErrQueryCancelled", Category("query_cancelled")>>
    /\ SentinelOrder[6] = <<"ErrQueryTimeout", Category("query_timeout")>>
    /\ SentinelOrder[7] = <<"context.DeadlineExceeded", Category("query_timeout")>>
    /\ SentinelOrder[8] = <<"ErrCancelled", Category("cancelled")>>
    /\ SentinelOrder[9] = <<"context.Canceled", Category("cancelled")>>
    /\ SentinelOrder[10] = <<"ErrDatabaseUnavailable", Retryable("database_unavailable")>>
  BY DEF SentinelOrder

Fits(a, r, c, w) ==
    /\ a.category # "ok"
    /\ \/ a.category \in w
       \/ a.category = "cancelled" /\ r = "cancelled"
       \/ a.category = "query_timeout" /\ c = "deadline"
    /\ r = "cancelled" => a.category = "cancelled"
    /\ a.retryable <=> a.category \in MayHelp

\* A query that failed is answered with what happened.
LEMMA ClassifyTells ==
    ASSUME NEW q \in Queries, NEW e \in Error, NEW w,
           Explained(e, request[q], query[q], w), Speaks(e)
    PROVE  Fits(ClassifyRelationalQuery(q, e), request[q], query[q], w)
<1> DEFINE a == ClassifyRelationalQuery(q, e)
           r == request[q]
           c == query[q]
<1>1. CASE r = "cancelled"
  BY <1>1 DEF ClassifyRelationalQuery, Fits, Category, MayHelp
<1>2. CASE r # "cancelled" /\ "ErrResultTooLarge" \in e.is
  <2>1. "result_too_large" \in w
    BY <1>2 DEF Explained, TagTold
  <2>2. QED
    BY <1>2, <2>1 DEF ClassifyRelationalQuery, Fits, Category, MayHelp
<1>3. CASE r # "cancelled" /\ "ErrResultTooLarge" \notin e.is /\ e.projected # None
  <2>1. a = e.projected /\ e.projected \in Categories /\ CategoryTold(e.projected, w)
    BY <1>3 DEF ClassifyRelationalQuery, Explained, Error
  <2>2. QED
    BY <1>3, <2>1 DEF Fits, CategoryTold, Categories, Meanings
<1>4. CASE r # "cancelled" /\ "ErrResultTooLarge" \notin e.is /\ e.projected = None
  <2> DEFINE found == {i \in DOMAIN SentinelOrder : SentinelOrder[i][1] \in e.is}
             Seen(i) == SentinelOrder[i][1] \in e.is /\ a = SentinelOrder[i][2]
  <2>0. a = IF found # {} THEN SentinelOrder[Min(found)][2] ELSE Category("internal")
    BY <1>4 DEF ClassifyRelationalQuery
  <2>1. CASE found # {}
    <3>1. PICK i \in 1..10 : Seen(i)
      <4>1. found \in SUBSET Nat
        BY SentinelsAre
      <4>2. Min(found) \in found
        BY <2>1, <4>1, MinIsOne
      <4>3. Min(found) \in DOMAIN SentinelOrder /\ SentinelOrder[Min(found)][1] \in e.is
        BY <4>2
      <4> HIDE DEF found, a
      <4>4. QED
        BY <2>0, <2>1, <4>3, SentinelsAre
    <3>2. ASSUME NEW tag, NEW told, SentinelOrder[i] = <<tag, told>>, tag # "ErrInternal"
          PROVE  tag \in Tags /\ TagTold(tag, r, c, w) /\ a = told
      BY <3>1, <3>2 DEF Explained, Error
    <3> SUFFICES Fits(a, r, c, w)
      OBVIOUS
    <3> HIDE DEF a
    <3>3. CASE i = 1
      <4>1. TagTold("ErrInvalidRequest", r, c, w) /\ a = Category("invalid_request")
        BY <3>2, <3>3, SentinelsAre
      <4>2. QED
        BY <1>4, <4>1 DEF Fits, Category, Retryable, MayHelp, TagTold
    <3>4. CASE i = 2
      <4>1. TagTold("ErrSourceNotFound", r, c, w) /\ a = Category("source_not_found")
        BY <3>2, <3>4, SentinelsAre
      <4>2. QED
        BY <1>4, <4>1 DEF Fits, Category, Retryable, MayHelp, TagTold
    <3>5. CASE i = 3
      <4>1. TagTold("ErrSourceKindMismatch", r, c, w) /\ a = Category("source_kind_mismatch")
        BY <3>2, <3>5, SentinelsAre
      <4>2. QED
        BY <1>4, <4>1 DEF Fits, Category, Retryable, MayHelp, TagTold
    <3>6. CASE i = 4
      <4>1. TagTold("ErrInvalidQuery", r, c, w) /\ a = Category("invalid_query")
        BY <3>2, <3>6, SentinelsAre
      <4>2. QED
        BY <1>4, <4>1 DEF Fits, Category, Retryable, MayHelp, TagTold
    <3>7. CASE i = 5 BY <3>2, <3>7, SentinelsAre DEF Tags
    <3>8. CASE i = 6
      <4>1. TagTold("ErrQueryTimeout", r, c, w) /\ a = Category("query_timeout")
        BY <3>2, <3>8, SentinelsAre
      <4>2. QED
        BY <1>4, <4>1 DEF Fits, Category, Retryable, MayHelp, TagTold
    <3>9. CASE i = 7
      <4>1. TagTold("context.DeadlineExceeded", r, c, w) /\ a = Category("query_timeout")
        BY <3>2, <3>9, SentinelsAre
      <4>2. QED
        BY <1>4, <4>1 DEF Fits, Category, Retryable, MayHelp, TagTold
    <3>10. CASE i = 8
      <4>1. TagTold("ErrCancelled", r, c, w) /\ a = Category("cancelled")
        BY <3>2, <3>10, SentinelsAre
      <4>2. QED
        BY <1>4, <4>1 DEF Fits, Category, Retryable, MayHelp, TagTold
    <3>11. CASE i = 9
      <4>1. TagTold("context.Canceled", r, c, w) /\ a = Category("cancelled")
        BY <3>2, <3>11, SentinelsAre
      <4>2. QED
        BY <1>4, <4>1 DEF Fits, Category, Retryable, MayHelp, TagTold
    <3>12. CASE i = 10
      <4>1. TagTold("ErrDatabaseUnavailable", r, c, w) /\ a = Retryable("database_unavailable")
        BY <3>2, <3>12, SentinelsAre
      <4>2. QED
        BY <1>4, <4>1 DEF Fits, Category, Retryable, MayHelp, TagTold
    <3>13. i \in {1, 2, 3, 4, 5, 6, 7, 8, 9, 10}
      OBVIOUS
    <3>14. QED
      BY <3>3, <3>4, <3>5, <3>6, <3>7, <3>8, <3>9, <3>10, <3>11, <3>12, <3>13
  <2>2. CASE found = {}
    <3>1. \A i \in 1..10 : SentinelOrder[i][1] \notin e.is
      BY <2>2, SentinelsAre
    <3>2. e.is \subseteq {"ErrResultTooLarge", "ErrInternal", "unavailable"}
      <4>1. /\ "ErrInvalidRequest" \notin e.is /\ "ErrSourceNotFound" \notin e.is
            /\ "ErrSourceKindMismatch" \notin e.is /\ "ErrInvalidQuery" \notin e.is
            /\ "ErrQueryTimeout" \notin e.is /\ "context.DeadlineExceeded" \notin e.is
            /\ "ErrCancelled" \notin e.is /\ "context.Canceled" \notin e.is
            /\ "ErrDatabaseUnavailable" \notin e.is
        BY <3>1, SentinelsAre
      <4>2. QED
        BY <4>1 DEF Error, Tags
    <3>3. "ErrInternal" \in e.is /\ e.is \ {"ErrInternal", "unavailable"} = {}
      BY <1>4, <3>2 DEF Speaks
    <3>4. "internal" \in w
      BY <3>3 DEF Explained
    <3>5. a = Category("internal")
      BY <2>0, <2>2
    <3> HIDE DEF a
    <3>6. Fits(a, r, c, w)
      BY <1>4, <3>4, <3>5 DEF Fits, Category, MayHelp
    <3>7. QED
      BY <3>6 DEF a
  <2>3. QED
    BY <2>1, <2>2
<1>5. QED
  BY <1>1, <1>2, <1>3, <1>4

\* What the client is told of a failure always fits the limit.
LEMMA FailureFits == \A n \in Nat : FailureWireSize(n) <= ByteLimit
<1> SUFFICES ASSUME NEW n \in Nat PROVE FailureWireSize(n) <= ByteLimit
  OBVIOUS
<1> DEFINE x == ByteLimit \div 16
           y == ByteLimit \div 8
<1>1. x \in Nat /\ y \in Nat /\ 16 * x <= ByteLimit /\ 8 * y <= ByteLimit
  BY BudgetAssumption
<1>2. BoundedDetail(n) \in Nat /\ BoundedDetail(n) <= x
  BY <1>1 DEF BoundedDetail
<1>3. WireFrame \in Nat /\ WireFrame <= y
  BY RelationalQueryAssumption
<1> HIDE DEF x, y
<1>4. QED
  BY <1>1, <1>2, <1>3, BudgetAssumption DEF FailureWireSize
---------------------------------------------------------------------------
(***************************************************************************)
(* What kind of step each action is.                                       *)
(***************************************************************************)
LEMMA ResultsApart ==
    ASSUME ResultType, NEW q \in Queries, ResultStep(q), NEW p \in Queries \ {q}
    PROVE  out'[p] = out[p]
  BY DEF ResultType, ResultStep, Leaves, Starts, Retains, Refuses, Passes, Retain, result

\* Nothing more went wrong.
LEMMA NoBlame ==
    ASSUME AnswerType, NEW q \in Queries, UNCHANGED causes
    PROVE  causes' = [causes EXCEPT ![q] = @ \cup {}]
  BY DEF AnswerType

\* A step that fails with a sentinel of its own.
LEMMA FailsWithTag ==
    ASSUME AllAnswerInv, NEW q \in Queries, NEW next \in After \ {"ended"}, Go(q, next),
           NEW tag \in Tags \ {"unavailable", "ErrInternal"}, SetErr(q, Is({tag})),
           NEW why, Blame(q, {why}), \A r, c, w : why \in w => TagTold(tag, r, c, w),
           UNCHANGED <<config, contexts, answer>>
    PROVE  Fails(q)
<1> DEFINE w == causes[q] \cup {why}
<1>1. /\ Is({tag}) \in Error /\ Explained(Is({tag}), request[q], query[q], w)
      /\ DriverTold(Is({tag}), CodesOf, w)
  BY TagIsTold
<1>2. Speaks(Is({tag}))
  BY IsIs DEF Speaks
<1>3. Stops(q, next, Is({tag}), {why})
  BY DEF Go, SetErr, Blame, Stops
<1>4. QED
  BY <1>1, <1>2, <1>3 DEF Fails, Tells

\* A step that fails for a reason no sentinel tells is told as such.
LEMMA FailsInternally ==
    ASSUME AllAnswerInv, NEW q \in Queries, NEW next \in After \ {"ended"}, Go(q, next),
           SetErr(q, Is({"ErrInternal"})), Blame(q, {"internal"}),
           UNCHANGED <<config, contexts, answer>>
    PROVE  Fails(q)
<1> DEFINE e == Is({"ErrInternal"})
           w == causes[q] \cup {"internal"}
<1>1. e \in Error /\ e.is = {"ErrInternal"} /\ e.driver = None /\ e.projected = None
  BY IsIs DEF Tags
<1>2. Explained(e, request[q], query[q], w) /\ DriverTold(e, CodesOf, w) /\ Speaks(e)
  BY <1>1 DEF Explained, DriverTold, Speaks
<1>3. Stops(q, next, e, {"internal"})
  BY DEF Go, SetErr, Blame, Stops
<1>4. QED
  BY <1>1, <1>2, <1>3 DEF Fails, Tells

\* A step that fails with the error of its context.
LEMMA FailsWithContext ==
    ASSUME AllAnswerInv, NEW q \in Queries, NEW next \in After \ {"ended"}, Go(q, next),
           Ended(q), SetErr(q, ContextError(q)), UNCHANGED <<config, contexts, answer, causes>>
    PROVE  Fails(q)
<1>1. ContextsAgree(q) /\ AnswerType
  BY DEF AllAnswerInv, AnswerInv
<1>2. Stops(q, next, ContextError(q), {})
  BY <1>1, NoBlame DEF Go, SetErr, Stops
<1>3. QED
  BY <1>1, <1>2, ContextErrorIsTold DEF Fails, Tells

\* A result that is too large is told so.
LEMMA TooLargeIsTold ==
    /\ "ErrResultTooLarge" \in Tags \ {"unavailable", "ErrInternal"}
    /\ \A r, c, w : "result_too_large" \in w => TagTold("ErrResultTooLarge", r, c, w)
  BY DEF Tags, TagTold

\* SQLite's loop ends with a result that is too large.
LEMMA HaltsTooLarge ==
    ASSUME AllAnswerInv, NEW q \in Queries, ~Pooled, Go(q, "ended"),
           SetErr(q, Is({"ErrResultTooLarge"})), Blame(q, {"result_too_large"}),
           UNCHANGED <<config, contexts, answer>>
    PROVE  Halts(q)
<1> DEFINE e == Is({"ErrResultTooLarge"})
<1>1. e \in Error /\ e # NoError
  BY IsIs DEF Tags, NoError
<1>2. Raw(e, "step", causes[q] \cup {"result_too_large"})
  BY DEF Raw
<1>3. Stops(q, "ended", e, {"result_too_large"})
  BY DEF Go, SetErr, Blame, Stops
<1>4. QED
  BY <1>1, <1>2, <1>3 DEF Halts

\* Where the loop over the rows leads to.
Rest == IF Pooled THEN "drain" ELSE "ended"

\* The first row, or none, comes.
LEMMA StartAnswer ==
    ASSUME AllAnswerInv, NEW q \in Queries, pc[q] \in Before, StartResult(q, Rest),
           UNCHANGED <<config, contexts, answer>>
    PROVE  AnswerStep(q)
<1>1. CASE Go(q, "rows") /\ UNCHANGED <<err, causes>>
  BY <1>1 DEF AnswerStep, GoesOn, Go, Before, After
<1>2. CASE /\ SetErr(q, Is({"ErrResultTooLarge"})) /\ Blame(q, {"result_too_large"})
           /\ Go(q, Rest)
  <2>1. CASE Pooled
    <3>1. Go(q, "drain") /\ "drain" \in After \ {"ended"}
      BY <1>2, <2>1 DEF Rest, After
    <3>2. QED
      BY <1>2, <3>1, TooLargeIsTold, FailsWithTag DEF AnswerStep
  <2>2. CASE ~Pooled
    <3>1. Go(q, "ended")
      BY <1>2, <2>2 DEF Rest
    <3>2. QED
      BY <1>2, <2>2, <3>1, HaltsTooLarge DEF AnswerStep
  <2>3. QED
    BY <2>1, <2>2
<1>3. QED
  BY <1>1, <1>2 DEF StartResult

\* A row is retained, refused, or ends the result.
LEMMA RowAnswer ==
    ASSUME AllAnswerInv, ResultType, ConnType, NEW q \in Queries, NEW row, NEW sizes, NEW fit,
           ReadRow(q, row, sizes, fit, Rest)
    PROVE  AnswerStep(q)
<1>1. pc[q] = "rows" /\ UNCHANGED <<config, contexts, answer>> /\ pc[q] \in Before
  BY DEF ReadRow, Before
<1>2. err[q] = NoError /\ AnswerType
  BY <1>1 DEF AllAnswerInv, AnswerInv
<1>3. CASE Ended(q) /\ SetErr(q, ContextError(q)) /\ Go(q, Rest) /\ UNCHANGED <<result, causes>>
  <2>1. CASE Pooled
    <3>1. Go(q, "drain") /\ "drain" \in After \ {"ended"}
      BY <1>3, <2>1 DEF Rest, After
    <3>2. QED
      BY <1>1, <1>3, <3>1, FailsWithContext DEF AnswerStep
  <2>2. CASE ~Pooled
    <3>1. Stops(q, "ended", ContextError(q), {})
      BY <1>1, <1>2, <1>3, <2>2, NoBlame DEF Rest, Go, SetErr, Stops
    <3>2. /\ ContextError(q) \in Error /\ ContextError(q) # NoError
          /\ Explained(ContextError(q), request[q], query[q], causes[q] \cup {})
      BY <1>3, ContextErrorIsTold, SpeakingIsAnError DEF AllAnswerInv, AnswerInv
    <3>3. QED
      BY <1>3, <2>2, <3>1, <3>2 DEF AnswerStep, Halts
  <2>3. QED
    BY <2>1, <2>2
<1>4. CASE /\ truncation /\ out[q].rows = RowLimit /\ out' = [out EXCEPT ![q].state = "truncated"]
           /\ Go(q, Rest) /\ UNCHANGED <<budget, err, causes>>
  <2>1. out'[q].state = "truncated" /\ out'[q].rows = RowLimit /\ truncation'
    BY <1>1, <1>4 DEF ResultType, Result, config
  <2>2. Whole(q)'
    BY <2>1 DEF Whole
  <2>3. Rest \in After
    BY DEF Rest, After
  <2>4. QED
    BY <1>1, <1>2, <1>4, <2>2, <2>3 DEF AnswerStep, GoesOn, Go
<1>5. CASE /\ SetErr(q, Is({"ErrResultTooLarge"})) /\ Blame(q, {"result_too_large"})
           /\ Go(q, Rest)
  <2>1. CASE Pooled
    <3>1. Go(q, "drain") /\ "drain" \in After \ {"ended"}
      BY <1>5, <2>1 DEF Rest, After
    <3>2. QED
      BY <1>1, <1>5, <3>1, TooLargeIsTold, FailsWithTag DEF AnswerStep
  <2>2. CASE ~Pooled
    <3>1. Go(q, "ended")
      BY <1>5, <2>2 DEF Rest
    <3>2. QED
      BY <1>1, <1>5, <2>2, <3>1, HaltsTooLarge DEF AnswerStep
  <2>3. QED
    BY <2>1, <2>2
<1>6. CASE UNCHANGED <<pc, err, causes>>
  <2>1. pc' = [pc EXCEPT ![q] = "rows"]
    BY <1>1, <1>6 DEF ConnType
  <2>2. QED
    BY <1>1, <1>6, <2>1 DEF AnswerStep, GoesOn, Before, After
<1>7. QED
  BY <1>3, <1>4, <1>5, <1>6 DEF ReadRow

\* A query that goes on where nothing can have failed yet.
LEMMA GoesAhead ==
    ASSUME NEW q \in Queries, pc[q] \in Before, NEW next \in Before, Go(q, next),
           UNCHANGED <<config, contexts, err, causes, answer>>
    PROVE  AnswerStep(q)
  BY DEF AnswerStep, GoesOn, Go, Before, After

\* A query that goes on with its clean-up.
LEMMA CleansUp ==
    ASSUME AllAnswerInv, NEW q \in Queries, pc[q] \in After, NEW next \in After \ {"ended"},
           Go(q, next), UNCHANGED <<config, contexts, err, causes, answer>>,
           pc[q] = "ended" => err[q] = NoError,
           err[q] = NoError => out'[q] = out[q]
    PROVE  AnswerStep(q)
  BY DEF AnswerStep, GoesOn, Go, Before, After

\* A result without an error is kept.
LEMMA ResultStays ==
    ASSUME ResultType, NEW q \in Queries, EndReading(q), err'[q] = NoError
    PROVE  out'[q] = out[q]
  BY DEF EndReading, ResultType
---------------------------------------------------------------------------
\* An error that tells is joined with what was told before.
LEMMA FailsAnyway ==
    ASSUME AllAnswerInv, NEW q \in Queries, NEW next \in After \ {"ended"}, Go(q, next),
           NEW e, NEW why, Tells(e, q, why), Pooled => DriverTold(e, CodesOf, why),
           SetErr(q, Join(err[q], e)), Blame(q, why), UNCHANGED <<config, contexts, answer>>
    PROVE  Fails(q)
<1> DEFINE w == causes[q] \cup why
           j == Join(err[q], e)
<1>1. err[q] \in Error /\ e \in Error /\ AnswerInv(q)
  BY DEF AllAnswerInv, AnswerType, Tells
<1>2. Explained(err[q], request[q], query[q], w) /\ Explained(e, request[q], query[q], w)
  BY <1>1, StaysTold DEF AnswerInv, Tells
<1>3. Pooled => DriverTold(err[q], CodesOf, w) /\ DriverTold(e, CodesOf, w)
  BY <1>1, DriverStaysTold DEF AnswerInv
<1>4. /\ j \in Error /\ Explained(j, request[q], query[q], w) /\ Speaks(j)
      /\ Pooled => DriverTold(j, CodesOf, w)
  BY <1>1, <1>2, <1>3, JoinIs DEF Tells
<1>5. Stops(q, next, j, why)
  BY DEF Stops, Go, SetErr, Blame
<1> HIDE DEF j
<1>6. QED
  BY <1>4, <1>5 DEF Fails, Tells

\* A failure of PostgreSQL's joined to the error there was is told.
LEMMA PgFailsIs ==
    ASSUME AllAnswerInv, engine = "postgres", NEW q \in Queries, NEW next \in After \ {"ended"},
           NEW f, Honest(q, f, PgMeaning), PgFails(q, f, next), UNCHANGED <<config, contexts, answer>>
    PROVE  Fails(q)
<1> DEFINE w == causes[q] \cup f.why
           j == Join(err[q], f.error)
           e == PgExecutionError(q, j)
<1>1. err[q] \in Error /\ f.error \in Error /\ AnswerInv(q) /\ Pooled /\ CodesOf = PgMeaning
  BY DEF AllAnswerInv, AnswerType, Honest, Pooled, CodesOf
<1>2. Explained(err[q], request[q], query[q], w) /\ Explained(f.error, request[q], query[q], w)
  BY <1>1, StaysTold DEF AnswerInv, Honest
<1>3. DriverTold(err[q], PgMeaning, w) /\ DriverTold(f.error, PgMeaning, w)
  BY <1>1, DriverStaysTold DEF AnswerInv, Honest
<1>4. /\ j \in Error /\ Explained(j, request[q], query[q], w) /\ DriverTold(j, PgMeaning, w)
      /\ j = NoError => "internal" \in w
  BY <1>1, <1>2, <1>3, JoinIs DEF Honest
<1>5. Stops(q, next, e, f.why)
  BY DEF PgFails, Stops, Go, SetErr, Blame
<1> HIDE DEF j
<1>6. Tells(e, q, w) /\ DriverTold(e, PgMeaning, w)
  BY <1>4, PgErrorTells
<1> HIDE DEF e
<1>7. QED
  BY <1>1, <1>5, <1>6 DEF Fails, Tells

\* A failure of MySQL's joined to the error there was is told.
LEMMA MyFailsIs ==
    ASSUME AllAnswerInv, engine = "mysql", NEW q \in Queries, NEW next \in After \ {"ended"},
           NEW f, Honest(q, f, MyMeaning), MyFails(q, f, next), UNCHANGED <<config, contexts, answer>>
    PROVE  Fails(q)
<1> DEFINE w == causes[q] \cup f.why
           j == Join(err[q], f.error)
           e == MyExecutionError(q, j)
<1>1. err[q] \in Error /\ f.error \in Error /\ AnswerInv(q) /\ Pooled /\ CodesOf = MyMeaning
  BY DEF AllAnswerInv, AnswerType, Honest, Pooled, CodesOf
<1>2. Explained(err[q], request[q], query[q], w) /\ Explained(f.error, request[q], query[q], w)
  BY <1>1, StaysTold DEF AnswerInv, Honest
<1>3. DriverTold(err[q], MyMeaning, w) /\ DriverTold(f.error, MyMeaning, w)
  BY <1>1, DriverStaysTold DEF AnswerInv, Honest
<1>4. /\ j \in Error /\ Explained(j, request[q], query[q], w) /\ DriverTold(j, MyMeaning, w)
      /\ j = NoError => "internal" \in w
  BY <1>1, <1>2, <1>3, JoinIs DEF Honest
<1>5. Stops(q, next, e, f.why)
  BY DEF MyFails, Stops, Go, SetErr, Blame
<1> HIDE DEF j
<1>6. Tells(e, q, w) /\ DriverTold(e, MyMeaning, w)
  BY <1>4, MyErrorTells
<1> HIDE DEF e
<1>7. QED
  BY <1>1, <1>5, <1>6 DEF Fails, Tells

\* A failure of SQLite's joined to the error there was is told.
LEMMA LiteFailsIs ==
    ASSUME AllAnswerInv, engine = "sqlite", NEW q \in Queries, NEW next \in After \ {"ended"},
           NEW phase \in Phases, NEW f, f.error \in Error,
           \/ Ended(q) /\ Explained(f.error, request[q], query[q], f.why)
           \/ Raw(f.error, phase, f.why),
           LiteFails(q, f, phase, next), UNCHANGED <<config, contexts, answer>>
    PROVE  Fails(q)
<1>1. ContextsAgree(q) /\ ~Pooled
  BY DEF AllAnswerInv, AnswerInv, Pooled
<1>2. Tells(LiteProject(q, f.error, phase), q, f.why)
  BY <1>1, LiteErrorTells
<1>3. QED
  BY <1>1, <1>2, FailsAnyway DEF LiteFails

\* PostgreSQL's refusals have codes that tell their meanings.
LEMMA PgRefusalsAreHonest ==
    ASSUME NEW q \in Queries,
           NEW f \in Refused(PgMeaning) \cup Refused(PgOpening) \cup Refused(PgCleanUp)
    PROVE  Honest(q, f, PgMeaning)
<1>1. DOMAIN PgMeaning \subseteq Codes
  BY PgCodes DEF Codes
<1>2. /\ DOMAIN PgOpening \subseteq DOMAIN PgMeaning
      /\ \A code \in DOMAIN PgOpening : PgOpening[code] = PgMeaning[code]
  BY DEF PgOpening, PgMeaning
<1>3. /\ DOMAIN PgCleanUp \subseteq DOMAIN PgMeaning
      /\ \A code \in DOMAIN PgCleanUp : PgCleanUp[code] = PgMeaning[code]
  BY DEF PgCleanUp, PgMeaning
<1>4. ASSUME NEW N, f \in Refused(N), DOMAIN N \subseteq DOMAIN PgMeaning,
             \A code \in DOMAIN N : N[code] = PgMeaning[code]
      PROVE  Honest(q, f, PgMeaning)
  BY <1>1, <1>4, RefusalsAreHonest
<1>5. QED
  BY <1>2, <1>3, <1>4

\* MySQL's refusals have codes that tell their meanings.
LEMMA MyRefusalsAreHonest ==
    ASSUME NEW q \in Queries,
           NEW f \in Refused(MyMeaning) \cup Refused(MyOpening) \cup Refused(MyCleanUp)
    PROVE  Honest(q, f, MyMeaning)
<1>1. DOMAIN MyMeaning \subseteq Codes
  BY MyCodes DEF Codes
<1>2. /\ DOMAIN MyOpening \subseteq DOMAIN MyMeaning
      /\ \A code \in DOMAIN MyOpening : MyOpening[code] = MyMeaning[code]
  BY DEF MyOpening, MyMeaning
<1>3. /\ DOMAIN MyCleanUp \subseteq DOMAIN MyMeaning
      /\ \A code \in DOMAIN MyCleanUp : MyCleanUp[code] = MyMeaning[code]
  BY DEF MyCleanUp, MyMeaning
<1>4. ASSUME NEW N, f \in Refused(N), DOMAIN N \subseteq DOMAIN MyMeaning,
             \A code \in DOMAIN N : N[code] = MyMeaning[code]
      PROVE  Honest(q, f, MyMeaning)
  BY <1>1, <1>4, RefusalsAreHonest
<1>5. QED
  BY <1>2, <1>3, <1>4

\* What SQLite refuses has the meaning of its phase.
LEMMA LiteRefusalsAreRaw ==
    /\ \A phase \in Phases : \A f \in Refused(LiteMeaning(phase)) :
          f.error \in Error /\ Raw(f.error, phase, f.why) /\ f.error # NoError
    /\ \A f \in Refused(LiteOpening) : f.error \in Error /\ Raw(f.error, "open", f.why)
    /\ \A f \in Refused(LiteClosing) : f.error \in Error /\ Raw(f.error, "close", f.why)
<1>1. ASSUME NEW phase \in Phases, NEW N, DOMAIN N \subseteq LiteCodes,
             \A code \in DOMAIN N : N[code] = LiteMeaning(phase)[code],
             NEW f \in Refused(N)
      PROVE  f.error \in Error /\ Raw(f.error, phase, f.why) /\ f.error # NoError
  <2>1. PICK code \in DOMAIN N : f = Failed(DriverError(code), {N[code]}, TRUE)
    BY DEF Refused
  <2>2. code \in LiteCodes /\ code \in Codes /\ N[code] = LiteMeaning(phase)[code]
    BY <1>1 DEF Codes
  <2>3. DriverError(code) \in Error /\ DriverError(code) # NoError
    BY <2>2, DriverErrorIs DEF NoError
  <2>4. QED
    BY <2>1, <2>2, <2>3 DEF Failed, Raw
<1>2. "open" \in Phases /\ "close" \in Phases
  BY DEF Phases
<1>3. \A phase \in Phases : DOMAIN LiteMeaning(phase) = LiteCodes
  BY LiteCodesAre
<1>4. /\ DOMAIN LiteOpening \subseteq LiteCodes
      /\ \A code \in DOMAIN LiteOpening : LiteOpening[code] = LiteMeaning("open")[code]
  BY DEF LiteOpening, LiteCodes
<1>5. /\ DOMAIN LiteClosing \subseteq LiteCodes
      /\ \A code \in DOMAIN LiteClosing : LiteClosing[code] = LiteMeaning("close")[code]
  BY DEF LiteClosing, LiteCodes
<1>6. ASSUME NEW phase \in Phases, NEW f \in Refused(LiteMeaning(phase))
      PROVE  f.error \in Error /\ Raw(f.error, phase, f.why) /\ f.error # NoError
  BY <1>1, <1>3
<1>7. ASSUME NEW f \in Refused(LiteOpening)
      PROVE  f.error \in Error /\ Raw(f.error, "open", f.why)
  BY <1>1, <1>2, <1>4
<1>8. ASSUME NEW f \in Refused(LiteClosing)
      PROVE  f.error \in Error /\ Raw(f.error, "close", f.why)
  BY <1>1, <1>2, <1>5
<1>9. QED
  BY <1>6, <1>7, <1>8
---------------------------------------------------------------------------
\* What fails in PostgreSQL's cleaning up is told.
LEMMA PgCleanUpTells ==
    ASSUME NEW q \in Queries, NEW f \in PgCleanUpFailures(q)
    PROVE  Tells(f.error, q, f.why) /\ DriverTold(f.error, PgMeaning, f.why)
<1>1. ASSUME NEW tags \in {{"ErrInternal"}, {"ErrInternal", "context.DeadlineExceeded"}}, NEW w,
             tags = {"ErrInternal"} => "internal" \in w,
             tags # {"ErrInternal"} => "query_timeout" \in w
      PROVE  Tells(Is(tags), q, w) /\ DriverTold(Is(tags), PgMeaning, w)
  <2>1. tags \in SUBSET Tags /\ tags \ {"unavailable"} # {}
    BY DEF Tags
  <2>2. Is(tags) = [is |-> tags, driver |-> None, projected |-> None] /\ Is(tags) \in Error
    BY <2>1, IsIs
  <2>3. Explained(Is(tags), request[q], query[q], w)
    BY <1>1, <2>2 DEF Explained, TagTold
  <2>4. QED
    BY <2>1, <2>2, <2>3 DEF Tells, Speaks, DriverTold
<1>2. ASSUME NEW g \in Refused(PgCleanUp), f = Failed(PgProject(g.error), g.why, FALSE)
      PROVE  Tells(f.error, q, f.why) /\ DriverTold(f.error, PgMeaning, f.why)
  <2>1. Honest(q, g, PgMeaning)
    BY PgRefusalsAreHonest
  <2>2. f.error = PgProject(g.error) /\ f.why = g.why
    BY <1>2 DEF Failed
  <2>3. QED
    BY <2>1, <2>2, PgProjectTells DEF Honest, Tells
<1>3. CASE f = Failed(Is({"ErrInternal"}), {"internal"}, FALSE)
  BY <1>1, <1>3 DEF Failed
<1>4. CASE f = Failed(Is({"ErrInternal", "context.DeadlineExceeded"}), {"query_timeout"}, FALSE)
  BY <1>1, <1>4 DEF Failed
<1>5. QED
  BY <1>2, <1>3, <1>4 DEF PgCleanUpFailures

\* A step of PostgreSQL's cleaning up joins it, or goes on.
LEMMA PgCleanUpAnswer ==
    ASSUME AllAnswerInv, ResultType, engine = "postgres", NEW q \in Queries, NEW clears,
           NEW at \in After \ {"ended"}, NEW next \in After \ {"ended"},
           PgCleanUpStep(q, at, clears, next)
    PROVE  AnswerStep(q)
<1>1. pc[q] = at /\ EndReading(q) /\ UNCHANGED <<config, contexts, answer>>
  BY DEF PgCleanUpStep
<1>2. CASE Go(q, next) /\ UNCHANGED <<err, causes>>
  <2>1. err[q] = NoError => out'[q] = out[q]
    BY <1>1, <1>2, ResultStays
  <2>2. QED
    BY <1>1, <1>2, <2>1, CleansUp
<1>3. ASSUME NEW f \in PgCleanUpFailures(q), SetErr(q, Join(err[q], f.error)), Blame(q, f.why),
             Go(q, "destroy")
      PROVE  AnswerStep(q)
  <2>1. "destroy" \in After \ {"ended"} /\ CodesOf = PgMeaning
    BY DEF After, CodesOf
  <2>2. QED
    BY <1>1, <1>3, <2>1, PgCleanUpTells, FailsAnyway DEF AnswerStep
<1>4. QED
  BY <1>2, <1>3 DEF PgCleanUpStep

\* An error is projected once more, when the rows are closed.
LEMMA PgDrainAnswer ==
    ASSUME AllAnswerInv, ResultType, engine = "postgres", NEW q \in Queries, PgDrain(q)
    PROVE  AnswerStep(q)
<1>1. pc[q] = "drain" /\ EndReading(q) /\ UNCHANGED <<config, contexts, answer>>
  BY DEF PgDrain
<1>2. {"drain", "rollback"} \subseteq After \ {"ended"}
  BY DEF After
<1>3. AnswerInv(q) /\ ContextsAgree(q) /\ err[q] \in Error /\ AnswerType /\ CodesOf = PgMeaning /\ Pooled
  BY DEF AllAnswerInv, AnswerInv, AnswerType, CodesOf, Pooled
<1>4. CASE err[q] = NoError /\ UNCHANGED <<err, causes>> /\ Go(q, "rollback")
  BY <1>1, <1>2, <1>4, ResultStays, CleansUp
<1>5. CASE /\ err[q] # NoError /\ SetErr(q, PgExecutionError(q, err[q])) /\ UNCHANGED causes
           /\ Go(q, "rollback")
  <2> DEFINE e == PgExecutionError(q, err[q])
  <2>1. Tells(e, q, causes[q]) /\ DriverTold(e, PgMeaning, causes[q])
    BY <1>3, <1>5, PgErrorTells DEF AnswerInv
  <2>2. Stops(q, "rollback", e, {})
    BY <1>1, <1>3, <1>5, NoBlame DEF Stops, Go, SetErr
  <2>3. causes[q] \cup {} = causes[q] /\ e \in Error
    BY <2>1 DEF Tells
  <2> HIDE DEF e
  <2>4. QED
    BY <1>2, <1>3, <2>1, <2>2, <2>3 DEF AnswerStep, Fails
<1>6. ASSUME NEW f \in Interrupted(q) \cup Broken \cup Refused(PgCleanUp), PgFails(q, f, "rollback")
      PROVE  AnswerStep(q)
  BY <1>1, <1>2, <1>3, <1>6, FailuresAreHonest, PgRefusalsAreHonest, PgFailsIs DEF AnswerStep
<1>7. QED
  BY <1>4, <1>5, <1>6 DEF PgDrain

\* The end of the rows.
LEMMA RowsEndAnswer ==
    ASSUME AllAnswerInv, ResultType, NEW q \in Queries, pc[q] = "rows", NEW next \in After,
           out' = [out EXCEPT ![q].state = "complete"], Go(q, next),
           UNCHANGED <<config, contexts, err, causes, answer>>
    PROVE  AnswerStep(q)
<1>1. out'[q].state = "complete"
  BY DEF ResultType, Result
<1>2. Whole(q)'
  BY <1>1 DEF Whole
<1>3. pc[q] \in Before /\ pc[q] # "ended" /\ pc[q] # "done"
  BY DEF Before
<1>4. QED
  BY <1>2, <1>3 DEF AnswerStep, GoesOn, Go

\* Each step of PostgreSQL's executor fails honestly, or goes on.
LEMMA PgAnswer ==
    ASSUME AllAnswerInv, ResultType, ConnType, NEW q \in Queries, PgNext(q)
    PROVE  AnswerStep(q)
<1>0. engine = "postgres" /\ Pooled /\ Rest = "drain" /\ ContextsAgree(q)
  BY DEF PgNext, Pooled, Rest, AllAnswerInv, AnswerInv
<1>1. {"respond", "release", "rollback", "destroy", "drain", "deallocate", "discard"}
          \subseteq After \ {"ended"}
  BY DEF After
<1>2. {"open", "acquire", "begin", "query", "rows"} \subseteq Before
  BY DEF Before
<1>3. ASSUME NEW f \in Interrupted(q) \cup Broken \cup Refused(PgMeaning) \cup Refused(PgOpening)
                           \cup Refused(PgCleanUp)
                           \cup {DialTimeout, PoolClosed,
                                 Failed(Is({"ErrInvalidQuery"}), {"invalid_query"}, TRUE)},
             NEW next \in After \ {"ended"}, PgFails(q, f, next), UNCHANGED <<config, contexts, answer>>
      PROVE  AnswerStep(q)
  <2>1. Honest(q, f, PgMeaning)
    BY <1>0, FailuresAreHonest, PgRefusalsAreHonest
  <2>2. QED
    BY <1>0, <1>3, <2>1, PgFailsIs DEF AnswerStep
<1>4. CASE PgOpen(q)
  <2>1. pc[q] = "open" /\ UNCHANGED <<config, contexts, answer>>
    BY <1>4 DEF PgOpen
  <2>2. CASE Go(q, "acquire") /\ UNCHANGED <<err, causes>>
    BY <1>2, <2>1, <2>2, GoesAhead
  <2>3. QED
    BY <1>1, <1>3, <1>4, <2>1, <2>2 DEF PgOpen
<1>5. CASE PgAcquire(q)
  <2>1. pc[q] = "acquire" /\ UNCHANGED <<config, contexts, answer>>
    BY <1>5 DEF PgAcquire
  <2>2. CASE Go(q, "begin") /\ UNCHANGED <<err, causes>>
    BY <1>2, <2>1, <2>2, GoesAhead
  <2>3. ASSUME NEW f \in Interrupted(q) \cup
                             (IF Conns \subseteq open THEN {}
                              ELSE Broken \cup {DialTimeout, PoolClosed} \cup Refused(PgOpening)),
               PgFails(q, f, "respond")
        PROVE  AnswerStep(q)
    <3>1. f \in Interrupted(q) \cup Broken \cup Refused(PgOpening) \cup {DialTimeout, PoolClosed}
      BY <2>3
    <3>2. QED
      BY <1>1, <1>3, <2>1, <2>3, <3>1
  <2>4. QED
    BY <1>5, <2>2, <2>3 DEF PgAcquire
<1>6. CASE PgBegin(q)
  <2>1. pc[q] = "begin" /\ UNCHANGED <<config, contexts, answer>>
    BY <1>6 DEF PgBegin
  <2>2. CASE Go(q, "query") /\ UNCHANGED <<err, causes>>
    BY <1>2, <2>1, <2>2, GoesAhead
  <2>3. QED
    BY <1>1, <1>3, <1>6, <2>1, <2>2 DEF PgBegin
<1>7. CASE PgQuery(q)
  <2>1. pc[q] = "query" /\ UNCHANGED <<config, contexts, answer>>
    BY <1>7 DEF PgQuery
  <2>2. CASE StartResult(q, "drain")
    BY <1>0, <1>2, <2>1, <2>2, StartAnswer
  <2>3. QED
    BY <1>1, <1>3, <1>7, <2>1, <2>2 DEF PgQuery
<1>8. CASE PgRow(q)
  BY <1>0, <1>8, RowAnswer DEF PgRow
<1>9. CASE PgRowsEnd(q)
  <2>1. pc[q] = "rows" /\ UNCHANGED <<config, contexts, answer>>
    BY <1>9 DEF PgRowsEnd
  <2>2. CASE /\ out' = [out EXCEPT ![q].state = "complete"] /\ Go(q, "rollback")
             /\ UNCHANGED <<err, causes>>
    BY <1>1, <2>1, <2>2, RowsEndAnswer
  <2>3. QED
    BY <1>1, <1>3, <1>9, <2>1, <2>2 DEF PgRowsEnd
<1>10. CASE PgDrain(q)
  BY <1>0, <1>10, PgDrainAnswer
<1>11. CASE PgRollback(q) \/ PgDeallocateAll(q) \/ PgDiscardAll(q)
  BY <1>0, <1>1, <1>11, PgCleanUpAnswer DEF PgRollback, PgDeallocateAll, PgDiscardAll
<1>12. CASE PgRelease(q) \/ PgDestroy(q)
  <2>1. /\ pc[q] \in {"release", "destroy"} /\ Go(q, "respond")
        /\ UNCHANGED <<config, contexts, result, err, answer, causes>>
    BY <1>12 DEF PgRelease, PgDestroy
  <2>2. out' = out
    BY <2>1 DEF result
  <2>3. QED
    BY <1>1, <2>1, <2>2, CleansUp
<1>13. QED
  BY <1>4, <1>5, <1>6, <1>7, <1>8, <1>9, <1>10, <1>11, <1>12 DEF PgNext
---------------------------------------------------------------------------
\* An invalid query is told so.
LEMMA InvalidQueryIsTold ==
    /\ "ErrInvalidQuery" \in Tags \ {"unavailable", "ErrInternal"}
    /\ \A r, c, w : "invalid_query" \in w => TagTold("ErrInvalidQuery", r, c, w)
  BY DEF Tags, TagTold

\* Draining the rows fails honestly, or goes on.
LEMMA MyDrainAnswer ==
    ASSUME AllAnswerInv, ResultType, engine = "mysql", NEW q \in Queries, MyDrain(q)
    PROVE  AnswerStep(q)
<1>1. pc[q] = "drain" /\ EndReading(q) /\ UNCHANGED <<config, contexts, answer>>
  BY DEF MyDrain
<1>2. {"drain", "rollback"} \subseteq After \ {"ended"}
  BY DEF After
<1>3. AnswerInv(q) /\ ContextsAgree(q) /\ err[q] \in Error /\ AnswerType /\ CodesOf = MyMeaning /\ Pooled
  BY DEF AllAnswerInv, AnswerInv, AnswerType, CodesOf, Pooled
<1>4. CASE err[q] = NoError /\ UNCHANGED <<err, causes>> /\ Go(q, "rollback")
  BY <1>1, <1>2, <1>4, ResultStays, CleansUp
<1>5. CASE /\ err[q] # NoError /\ SetErr(q, MyExecutionError(q, err[q])) /\ UNCHANGED causes
           /\ Go(q, "rollback")
  <2> DEFINE e == MyExecutionError(q, err[q])
  <2>1. Tells(e, q, causes[q]) /\ DriverTold(e, MyMeaning, causes[q])
    BY <1>3, <1>5, MyErrorTells DEF AnswerInv
  <2>2. Stops(q, "rollback", e, {})
    BY <1>1, <1>3, <1>5, NoBlame DEF Stops, Go, SetErr
  <2>3. causes[q] \cup {} = causes[q] /\ e \in Error
    BY <2>1 DEF Tells
  <2> HIDE DEF e
  <2>4. QED
    BY <1>2, <1>3, <2>1, <2>2, <2>3 DEF AnswerStep, Fails
<1>6. ASSUME NEW f \in Interrupted(q) \cup Broken \cup Refused(MyCleanUp), MyFails(q, f, "rollback")
      PROVE  AnswerStep(q)
  BY <1>1, <1>2, <1>3, <1>6, FailuresAreHonest, MyRefusalsAreHonest, MyFailsIs DEF AnswerStep
<1>7. QED
  BY <1>4, <1>5, <1>6 DEF MyDrain

\* So does the rollback.
LEMMA MyRollbackAnswer ==
    ASSUME AllAnswerInv, ResultType, engine = "mysql", NEW q \in Queries, MyRollback(q)
    PROVE  AnswerStep(q)
<1>1. pc[q] = "rollback" /\ EndReading(q) /\ UNCHANGED <<config, contexts, answer>>
  BY DEF MyRollback
<1>2. {"rollback", "destroy"} \subseteq After \ {"ended"}
  BY DEF After
<1>3. ContextsAgree(q) /\ CodesOf = MyMeaning
  BY DEF AllAnswerInv, AnswerInv, CodesOf
<1>4. CASE Go(q, "destroy") /\ UNCHANGED <<err, causes>>
  BY <1>1, <1>2, <1>4, ResultStays, CleansUp
<1>5. ASSUME NEW f \in Broken \cup (IF conn[q] \in open THEN Refused(MyCleanUp) ELSE {}),
             SetErr(q, Join(err[q], MyExecutionError(q, f.error))), Blame(q, f.why), Go(q, "destroy")
      PROVE  AnswerStep(q)
  <2> DEFINE e == MyExecutionError(q, f.error)
  <2>1. f \in Broken \cup Refused(MyCleanUp)
    BY <1>5
  <2>2. Honest(q, f, MyMeaning)
    BY <1>3, <2>1, FailuresAreHonest, MyRefusalsAreHonest
  <2>3. Tells(e, q, f.why) /\ DriverTold(e, MyMeaning, f.why)
    BY <2>2, MyErrorTells DEF Honest
  <2> HIDE DEF e
  <2>4. SetErr(q, Join(err[q], e))
    BY <1>5 DEF e
  <2>5. QED
    BY <1>1, <1>2, <1>3, <1>5, <2>3, <2>4, FailsAnyway DEF AnswerStep
<1>6. QED
  BY <1>4, <1>5 DEF MyRollback

\* Each step of MySQL's executor fails honestly, or goes on.
LEMMA MyAnswer ==
    ASSUME AllAnswerInv, ResultType, ConnType, NEW q \in Queries, MyNext(q)
    PROVE  AnswerStep(q)
<1>0. engine = "mysql" /\ Pooled /\ Rest = "drain" /\ ContextsAgree(q)
  BY DEF MyNext, Pooled, Rest, AllAnswerInv, AnswerInv
<1>1. {"respond", "rollback", "destroy", "drain"} \subseteq After \ {"ended"}
  BY DEF After
<1>2. {"open", "acquire", "begin", "query", "rows"} \subseteq Before
  BY DEF Before
<1>3. ASSUME NEW f \in Interrupted(q) \cup Broken \cup Refused(MyMeaning) \cup Refused(MyOpening)
                           \cup Refused(MyCleanUp)
                           \cup {DialTimeout, PoolClosed},
             NEW next \in After \ {"ended"}, MyFails(q, f, next), UNCHANGED <<config, contexts, answer>>
      PROVE  AnswerStep(q)
  <2>1. Honest(q, f, MyMeaning)
    BY <1>0, FailuresAreHonest, MyRefusalsAreHonest
  <2>2. QED
    BY <1>0, <1>3, <2>1, MyFailsIs DEF AnswerStep
<1>4. CASE MyOpen(q)
  <2>1. pc[q] = "open" /\ UNCHANGED <<config, contexts, answer>>
    BY <1>4 DEF MyOpen
  <2>2. CASE Go(q, "acquire") /\ UNCHANGED <<err, causes>>
    BY <1>2, <2>1, <2>2, GoesAhead
  <2>3. QED
    BY <1>1, <1>3, <1>4, <2>1, <2>2 DEF MyOpen
<1>5. CASE MyAcquire(q)
  <2>1. pc[q] = "acquire" /\ UNCHANGED <<config, contexts, answer>>
    BY <1>5 DEF MyAcquire
  <2>2. CASE Go(q, "begin") /\ UNCHANGED <<err, causes>>
    BY <1>2, <2>1, <2>2, GoesAhead
  <2>3. ASSUME NEW f \in Interrupted(q) \cup
                             (IF Conns \subseteq open THEN {}
                              ELSE Broken \cup {DialTimeout, PoolClosed} \cup Refused(MyOpening)),
               MyFails(q, f, "respond")
        PROVE  AnswerStep(q)
    <3>1. f \in Interrupted(q) \cup Broken \cup Refused(MyOpening) \cup {DialTimeout, PoolClosed}
      BY <2>3
    <3>2. QED
      BY <1>1, <1>3, <2>1, <2>3, <3>1
  <2>4. QED
    BY <1>5, <2>2, <2>3 DEF MyAcquire
<1>6. CASE MyBegin(q)
  <2>1. pc[q] = "begin" /\ UNCHANGED <<config, contexts, answer>>
    BY <1>6 DEF MyBegin
  <2>2. CASE Go(q, "query") /\ UNCHANGED <<err, causes>>
    BY <1>2, <2>1, <2>2, GoesAhead
  <2>3. QED
    BY <1>1, <1>3, <1>6, <2>1, <2>2 DEF MyBegin
<1>7. CASE MyQuery(q)
  <2>1. pc[q] = "query" /\ UNCHANGED <<config, contexts, answer>>
    BY <1>7 DEF MyQuery
  <2>2. CASE StartResult(q, "drain")
    BY <1>0, <1>2, <2>1, <2>2, StartAnswer
  <2>3. CASE SetErr(q, Is({"ErrInvalidQuery"})) /\ Blame(q, {"invalid_query"}) /\ Go(q, "drain")
    BY <1>1, <2>1, <2>3, InvalidQueryIsTold, FailsWithTag DEF AnswerStep
  <2>4. QED
    BY <1>1, <1>3, <1>7, <2>1, <2>2, <2>3 DEF MyQuery
<1>8. CASE MyRow(q)
  <2>1. CASE MyUnknownValue(q)
    <3>1. Go(q, "drain") /\ SetErr(q, Is({"ErrInternal"})) /\ Blame(q, {"internal"})
          /\ UNCHANGED <<config, contexts, answer>>
      BY <2>1 DEF MyUnknownValue
    <3>2. QED
      BY <1>1, <3>1, FailsInternally DEF AnswerStep
  <2>2. QED
    BY <1>0, <1>8, <2>1, RowAnswer DEF MyRow
<1>9. CASE MyRowsEnd(q)
  <2>1. pc[q] = "rows" /\ UNCHANGED <<config, contexts, answer>>
    BY <1>9 DEF MyRowsEnd
  <2>2. CASE /\ out' = [out EXCEPT ![q].state = "complete"] /\ Go(q, "rollback")
             /\ UNCHANGED <<err, causes>>
    BY <1>1, <2>1, <2>2, RowsEndAnswer
  <2>3. QED
    BY <1>1, <1>3, <1>9, <2>1, <2>2 DEF MyRowsEnd
<1>10. CASE MyDrain(q)
  BY <1>0, <1>10, MyDrainAnswer
<1>11. CASE MyRollback(q)
  BY <1>0, <1>11, MyRollbackAnswer
<1>12. CASE MyDestroy(q)
  <2>1. /\ pc[q] = "destroy" /\ Go(q, "respond")
        /\ UNCHANGED <<config, contexts, result, err, answer, causes>>
    BY <1>12 DEF MyDestroy
  <2>2. out' = out
    BY <2>1 DEF result
  <2>3. QED
    BY <1>1, <2>1, <2>2, CleansUp
<1>13. QED
  BY <1>4, <1>5, <1>6, <1>7, <1>8, <1>9, <1>10, <1>11, <1>12 DEF MyNext
---------------------------------------------------------------------------
\* The loop over SQLite's rows ends, with an error or without.
LEMMA LiteStepAnswer ==
    ASSUME AllAnswerInv, ResultType, engine = "sqlite", NEW q \in Queries, LiteStepEnds(q)
    PROVE  AnswerStep(q)
<1>1. pc[q] = "rows" /\ Go(q, "ended") /\ UNCHANGED <<config, contexts, answer>> /\ ~Pooled
  BY DEF LiteStepEnds, Pooled
<1>2. CASE out' = [out EXCEPT ![q].state = "complete"] /\ UNCHANGED <<err, causes>>
  BY <1>1, <1>2, RowsEndAnswer DEF After
<1>3. ASSUME NEW f \in Interrupted(q) \cup Refused(LiteMeaning("step")),
             SetErr(q, f.error), Blame(q, f.why)
      PROVE  AnswerStep(q)
  <2>1. f.error \in Error /\ f.error # NoError
        /\ \/ Ended(q) /\ Explained(f.error, request[q], query[q], causes[q] \cup f.why)
           \/ Raw(f.error, "step", causes[q] \cup f.why)
    <3>1. CASE f \in Interrupted(q)
      <4>1. Ended(q) /\ f = Failed(ContextError(q), {}, FALSE) /\ ContextsAgree(q)
        BY <3>1 DEF Interrupted, AllAnswerInv, AnswerInv
      <4>2. f.error = ContextError(q)
        BY <4>1 DEF Failed
      <4>3. QED
        BY <4>1, <4>2, ContextErrorIsTold, SpeakingIsAnError
    <3>2. CASE f \in Refused(LiteMeaning("step"))
      <4>1. "step" \in Phases
        BY DEF Phases
      <4>2. QED
        BY <3>2, <4>1, LiteRefusalsAreRaw, RawStays
    <3>3. QED
      BY <3>1, <3>2
  <2>2. Stops(q, "ended", f.error, f.why)
    BY <1>1, <1>3 DEF Stops, Go, SetErr, Blame
  <2>3. QED
    BY <1>1, <2>1, <2>2 DEF AnswerStep, Halts
<1>4. QED
  BY <1>2, <1>3 DEF LiteStepEnds

\* What it ended with is projected.
LEMMA LiteReadAnswer ==
    ASSUME AllAnswerInv, ResultType, engine = "sqlite", NEW q \in Queries, LiteReadEnds(q)
    PROVE  AnswerStep(q)
<1>1. /\ pc[q] = "ended" /\ Go(q, "close statement") /\ EndReading(q)
      /\ UNCHANGED <<config, contexts, answer, causes>>
  BY DEF LiteReadEnds
<1>2. {"close statement"} \subseteq After \ {"ended"} /\ pc[q] \in After /\ "step" \in Phases /\ ~Pooled
  BY <1>1 DEF After, Phases, Pooled
<1>3. AnswerInv(q) /\ ContextsAgree(q) /\ AnswerType /\ err[q] \in Error
  BY DEF AllAnswerInv, AnswerInv, AnswerType
<1>4. CASE err[q] = NoError /\ UNCHANGED err
  BY <1>1, <1>2, <1>4, ResultStays, CleansUp
<1>5. ASSUME NEW f \in Error,
             \/ Ended(q) /\ Explained(f, request[q], query[q], causes[q])
             \/ Raw(f, "step", causes[q]),
             SetErr(q, LiteProject(q, f, "step"))
      PROVE  AnswerStep(q)
  <2> DEFINE e == LiteProject(q, f, "step")
  <2>1. Tells(e, q, causes[q])
    BY <1>2, <1>3, <1>5, LiteErrorTells
  <2>2. Stops(q, "close statement", e, {})
    BY <1>1, <1>3, <1>5, NoBlame DEF Stops, Go, SetErr
  <2>3. causes[q] \cup {} = causes[q] /\ e \in Error
    BY <2>1 DEF Tells
  <2> HIDE DEF e
  <2>4. QED
    BY <1>2, <2>1, <2>2, <2>3 DEF AnswerStep, Fails
<1>6. CASE err[q] = NoError /\ Ended(q) /\ SetErr(q, LiteProject(q, ContextError(q), "step"))
  BY <1>3, <1>5, <1>6, ContextErrorIsTold
<1>7. CASE err[q] # NoError /\ SetErr(q, LiteProject(q, err[q], "step"))
  BY <1>1, <1>3, <1>5, <1>7 DEF AnswerInv
<1>8. QED
  BY <1>4, <1>6, <1>7 DEF LiteReadEnds

\* Each step of SQLite's executor fails honestly, halts, or goes on.
LEMMA LiteAnswer ==
    ASSUME AllAnswerInv, ResultType, ConnType, NEW q \in Queries, LiteNext(q)
    PROVE  AnswerStep(q)
<1>0. engine = "sqlite" /\ ~Pooled /\ Rest = "ended" /\ ContextsAgree(q)
  BY DEF LiteNext, Pooled, Rest, AllAnswerInv, AnswerInv
<1>1. {"respond", "close statement", "close client"} \subseteq After \ {"ended"}
  BY DEF After
<1>2. {"open", "prepare", "rows"} \subseteq Before /\ {"open", "prepare", "close"} \subseteq Phases
  BY DEF Before, Phases
<1>3. ASSUME NEW phase \in {"open", "prepare", "close"}, NEW f, NEW next \in After \ {"ended"},
             \/ f \in Interrupted(q)
             \/ phase = "open" /\ f \in Refused(LiteOpening) \cup Unknown \cup
                    {Failed(Is({"unavailable"}), {"database_unavailable"}, FALSE)}
             \/ phase = "prepare" /\ f \in Refused(LiteMeaning("prepare"))
             \/ phase = "close" /\ f \in Refused(LiteClosing),
             LiteFails(q, f, phase, next), UNCHANGED <<config, contexts, answer>>
      PROVE  AnswerStep(q)
  <2>1. /\ f.error \in Error
        /\ \/ Ended(q) /\ Explained(f.error, request[q], query[q], f.why)
           \/ Raw(f.error, phase, f.why)
    <3>1. CASE f \in Interrupted(q)
      <4>1. Ended(q) /\ f.error = ContextError(q)
        BY <3>1 DEF Interrupted, Failed
      <4>2. QED
        BY <1>0, <4>1, ContextErrorIsTold
    <3>2. CASE f \in Unknown
      BY <3>2, NoErrorIs DEF Unknown, Failed, Raw
    <3>3. CASE f = Failed(Is({"unavailable"}), {"database_unavailable"}, FALSE)
      <4>1. Is({"unavailable"}) \in Error
        BY IsIs DEF Tags
      <4>2. QED
        BY <3>3, <4>1 DEF Failed, Raw
    <3>4. QED
      BY <1>2, <1>3, <3>1, <3>2, <3>3, LiteRefusalsAreRaw
  <2>2. QED
    BY <1>0, <1>2, <1>3, <2>1, LiteFailsIs DEF AnswerStep
<1>4. CASE LiteOpen(q)
  <2>1. pc[q] = "open" /\ UNCHANGED <<config, contexts, answer>>
    BY <1>4 DEF LiteOpen
  <2>2. CASE Go(q, "prepare") /\ UNCHANGED <<err, causes>>
    BY <1>2, <2>1, <2>2, GoesAhead
  <2>3. QED
    BY <1>1, <1>3, <1>4, <2>1, <2>2 DEF LiteOpen
<1>5. CASE LitePrepare(q)
  <2>1. pc[q] = "prepare" /\ UNCHANGED <<config, contexts, answer>>
    BY <1>5 DEF LitePrepare
  <2>2. CASE StartResult(q, "ended")
    BY <1>0, <1>2, <2>1, <2>2, StartAnswer
  <2>3. CASE /\ SetErr(q, Is({"ErrInvalidQuery"})) /\ Blame(q, {"invalid_query"})
             /\ \E next \in {"close client", "close statement"} : Go(q, next)
    BY <1>1, <2>1, <2>3, InvalidQueryIsTold, FailsWithTag DEF AnswerStep
  <2>4. QED
    BY <1>1, <1>3, <1>5, <2>1, <2>2, <2>3 DEF LitePrepare
<1>6. CASE LiteRow(q)
  BY <1>0, <1>6, RowAnswer DEF LiteRow
<1>7. CASE LiteStepEnds(q)
  BY <1>0, <1>7, LiteStepAnswer
<1>8. CASE LiteReadEnds(q)
  BY <1>0, <1>8, LiteReadAnswer
<1>9. CASE LiteCloseStatement(q) \/ LiteCloseClient(q)
  <2>1. /\ pc[q] \in {"close statement", "close client"} /\ EndReading(q)
        /\ UNCHANGED <<config, contexts, answer>>
    BY <1>9 DEF LiteCloseStatement, LiteCloseClient
  <2>2. CASE UNCHANGED <<err, causes>> /\ \E next \in {"close client", "respond"} : Go(q, next)
    BY <1>1, <2>1, <2>2, ResultStays, CleansUp
  <2>3. QED
    BY <1>1, <1>3, <1>9, <2>1, <2>2 DEF LiteCloseStatement, LiteCloseClient
<1>10. QED
  BY <1>4, <1>5, <1>6, <1>7, <1>8, <1>9 DEF LiteNext
---------------------------------------------------------------------------
\* What the service refuses is told.
LEMMA RefusedAnswer ==
    ASSUME AllAnswerInv, NEW q \in Queries, RefuseRequest(q)
    PROVE  AnswerStep(q)
<1>1. /\ Go(q, "respond") /\ UNCHANGED <<config, contexts, answer>>
      /\ "respond" \in After \ {"ended"}
  BY DEF RefuseRequest, After
<1>2. PICK input \in DOMAIN ServiceErrors :
          /\ SetErr(q, Is({ServiceErrors[input]}))
          /\ Blame(q, {ServiceCategory[ServiceErrors[input]]})
  BY DEF RefuseRequest
<1>3. ASSUME NEW tag, NEW why, ServiceErrors[input] = tag, ServiceCategory[tag] = why,
             \/ tag = "ErrInvalidRequest" /\ why = "invalid_request"
             \/ tag = "ErrSourceNotFound" /\ why = "source_not_found"
             \/ tag = "ErrSourceKindMismatch" /\ why = "source_kind_mismatch"
      PROVE  AnswerStep(q)
  <2>1. tag \in Tags \ {"unavailable", "ErrInternal"}
    BY <1>3 DEF Tags
  <2>2. \A r, c, w : why \in w => TagTold(tag, r, c, w)
    BY <1>3 DEF TagTold
  <2>3. QED
    BY <1>1, <1>2, <1>3, <2>1, <2>2, FailsWithTag DEF AnswerStep
<1>4. /\ ServiceErrors[input] \in {"ErrInvalidRequest", "ErrSourceNotFound", "ErrSourceKindMismatch"}
      /\ ServiceCategory["ErrInvalidRequest"] = "invalid_request"
      /\ ServiceCategory["ErrSourceNotFound"] = "source_not_found"
      /\ ServiceCategory["ErrSourceKindMismatch"] = "source_kind_mismatch"
  BY DEF ServiceErrors, ServiceCategory
<1>5. QED
  BY <1>3, <1>4

\* A request that was given up is told as cancelled.
LEMMA GivenUpAnswer ==
    ASSUME AllAnswerInv, NEW q \in Queries, request[q] = "cancelled",
           SetErr(q, Is({"ErrCancelled", "context.Canceled"})), Go(q, "respond"),
           UNCHANGED <<config, contexts, answer, causes>>
    PROVE  Fails(q)
<1> DEFINE e == Is({"ErrCancelled", "context.Canceled"})
<1>1. AnswerType /\ "respond" \in After \ {"ended"}
  BY DEF AllAnswerInv, After
<1>2. Stops(q, "respond", e, {})
  BY <1>1, NoBlame DEF Stops, Go, SetErr
<1>3. Tells(e, q, causes[q] \cup {}) /\ DriverTold(e, CodesOf, causes[q] \cup {})
  BY CancelledIsTold DEF Tells
<1> HIDE DEF e
<1>4. QED
  BY <1>1, <1>2, <1>3 DEF Fails, Tells

\* Its contexts may end at any time; what was told of them stays true.
LEMMA ContextsMove ==
    ASSUME AllAnswerInv, ConnType, NEW q \in Queries, NEW next, pc' = [pc EXCEPT ![q] = next],
           NEW r \in {"live", "cancelled"}, NEW c \in {"none", "live", "canceled", "deadline"},
           request' = [request EXCEPT ![q] = r], query' = [query EXCEPT ![q] = c],
           c = "canceled" => r = "cancelled",
           \/ pc[q] \in Before /\ next \in Before
           \/ /\ pc[q] # "done" /\ next = pc[q]
              /\ request[q] = "cancelled" => r = "cancelled"
              /\ query[q] = "deadline" => c = "deadline"
              /\ Ended(q) => c \in {"canceled", "deadline"},
           UNCHANGED <<config, out, err, causes, answer>>
    PROVE  AnswerInv(q)' /\ AnswerType'
<1>1. AnswerInv(q) /\ AnswerType
  BY DEF AllAnswerInv
<1>2. /\ pc'[q] = next /\ request'[q] = r /\ query'[q] = c
      /\ engine' = engine /\ truncation' = truncation /\ out' = out /\ err' = err /\ causes' = causes
      /\ answer' = answer /\ next # "done"
  BY <1>1 DEF AnswerType, ConnType, config, Before
<1>3. AnswerType'
  BY <1>1, <1>2 DEF AnswerType
<1>4. /\ Pooled' = Pooled /\ CodesOf' = CodesOf /\ Whole(q)' = Whole(q)
      /\ ContextsAgree(q)'
  BY <1>2 DEF Pooled, CodesOf, Whole, ContextsAgree
<1>5. Explained(err[q], request[q], query[q], causes[q])'
  <2>1. Explained(err[q], r, c, causes[q])
    <3>1. CASE err[q] = NoError
      BY <3>1 DEF Explained, NoError
    <3>2. CASE err[q] # NoError
      <4>1. /\ request[q] = "cancelled" => r = "cancelled"
            /\ query[q] = "deadline" => c = "deadline"
        BY <1>1, <3>2 DEF AnswerInv
      <4>2. QED
        BY <1>1, <4>1, StaysTold DEF AnswerInv
    <3>3. QED
      BY <3>1, <3>2
  <2>2. QED
    BY <1>2, <2>1 DEF Explained, TagTold, CategoryTold
<1>6. (Pooled => DriverTold(err[q], CodesOf, causes[q]))'
  BY <1>1, <1>2, <1>4 DEF AnswerInv, DriverTold
<1>7. err[q] = NoError \/ (next = pc[q] /\ (Ended(q) => Ended(q)'))
  BY <1>1, <1>2 DEF AnswerInv, Ended
<1>8. (pc[q] = "ended" => err[q] = NoError \/ Ended(q) \/ Raw(err[q], "step", causes[q]))'
  BY <1>1, <1>2, <1>7 DEF AnswerInv, Raw
<1>9. (pc[q] # "ended" => err[q] = NoError \/ Speaks(err[q]))'
  BY <1>1, <1>2, <1>7 DEF AnswerInv, Speaks
<1>10. next \in Before => err[q] = NoError
  BY <1>1 DEF AnswerInv
<1>11. err[q] = NoError => causes[q] = {} /\ (next \in After => Whole(q))
  BY <1>1 DEF AnswerInv, Before, After
<1>12. QED
  BY <1>2, <1>3, <1>4, <1>5, <1>6, <1>8, <1>9, <1>10, <1>11 DEF AnswerInv

\* A new request starts without an error.
LEMMA NextRequestAnswer ==
    ASSUME AllAnswerInv, ConnType, NEW q \in Queries, NextRequest(q)
    PROVE  AnswerInv(q)' /\ AnswerType'
<1>1. /\ pc'[q] = "idle" /\ request'[q] = "live" /\ query'[q] = "none" /\ err'[q] = NoError
      /\ causes'[q] = {}
  BY DEF NextRequest, Go, SetErr, AllAnswerInv, AnswerType, ConnType
<1>2. AnswerType'
  <2>1. NoError \in Error
    BY NoErrorIs
  <2>2. QED
    BY <2>1 DEF NextRequest, SetErr, AllAnswerInv, AnswerType
<1>3. ContextsAgree(q)' /\ (Explained(err[q], request[q], query[q], causes[q]))'
  BY <1>1 DEF ContextsAgree, Explained, NoError
<1>4. (Pooled => DriverTold(err[q], CodesOf, causes[q]))'
  BY <1>1 DEF DriverTold, NoError
<1>5. QED
  BY <1>1, <1>2, <1>3, <1>4 DEF AnswerInv, After

\* The answer is what became of the query.
LEMMA RespondAnswer ==
    ASSUME AllAnswerInv, ConnType, NEW q \in Queries, Respond(q)
    PROVE  AnswerInv(q)' /\ AnswerType'
<1>0. AnswerInv(q) /\ AnswerType /\ err[q] \in Error
  BY DEF AllAnswerInv, AnswerType
<1>1. /\ pc[q] = "respond" /\ pc'[q] = "done"
      /\ UNCHANGED <<engine, truncation, request, query, out, err>>
  BY DEF Respond, Go, ConnType, config, contexts, result
<1>2. PICK detail \in DetailSizes :
          LET oversize == err[q] = NoError /\ WireSize(q) > ByteLimit
              told == IF oversize THEN Is({"ErrResultTooLarge"}) ELSE err[q]
              lengthy == told.projected # None /\ FailureWireSize(detail) > ByteLimit
          IN
          /\ answer' = [answer EXCEPT ![q] =
                 IF told = NoError THEN Category("ok")
                 ELSE ClassifyRelationalQuery(q, IF lengthy THEN Is({"ErrResultTooLarge"}) ELSE told)]
          /\ Blame(q, IF oversize THEN {"result_too_large"} ELSE {})
  BY DEF Respond
<1> DEFINE oversize == err[q] = NoError /\ WireSize(q) > ByteLimit
           told == IF oversize THEN Is({"ErrResultTooLarge"}) ELSE err[q]
           why == IF oversize THEN {"result_too_large"} ELSE {}
           w == causes[q] \cup why
<1>3. ~(FailureWireSize(detail) > ByteLimit)
  <2>1. detail \in Nat
    BY RelationalQueryAssumption
  <2>2. FailureWireSize(detail) <= ByteLimit
    BY <2>1, FailureFits
  <2>3. FailureWireSize(detail) \in Int /\ ByteLimit \in Int
    BY <2>1, BudgetAssumption, RelationalQueryAssumption DEF FailureWireSize, BoundedDetail
  <2>4. QED
    BY <2>2, <2>3
<1>4. /\ answer' = [answer EXCEPT ![q] = IF told = NoError THEN Category("ok")
                                         ELSE ClassifyRelationalQuery(q, told)]
      /\ causes' = [causes EXCEPT ![q] = @ \cup why]
  BY <1>2, <1>3 DEF Blame
<1>5. told \in Error /\ Explained(told, request[q], query[q], w) /\ (told = NoError \/ Speaks(told))
  <2>1. CASE oversize
    <3>1. TagTold("ErrResultTooLarge", request[q], query[q], w)
      BY <2>1 DEF TagTold
    <3>2. /\ Is({"ErrResultTooLarge"}) \in Error
          /\ Explained(Is({"ErrResultTooLarge"}), request[q], query[q], w)
      BY <3>1, TagIsTold DEF Tags
    <3>3. Speaks(Is({"ErrResultTooLarge"}))
      BY IsIs DEF Speaks, Tags
    <3>4. QED
      BY <2>1, <3>2, <3>3
  <2>2. CASE ~oversize
    <3>1. told = err[q] /\ w = causes[q]
      BY <2>2
    <3>2. QED
      BY <1>0, <1>1, <3>1 DEF AnswerInv
  <2>3. QED
    BY <2>1, <2>2
<1>6. told = NoError => err[q] = NoError /\ w = causes[q]
  <2>1. Is({"ErrResultTooLarge"}) # NoError
    BY IsIs DEF NoError, Tags
  <2>2. QED
    BY <2>1
<1>7. causes[q] \subseteq w
  OBVIOUS
<1> HIDE DEF oversize, told, why, w
<1>8. AnswerType' /\ causes'[q] = w
  BY <1>0, <1>1, <1>4 DEF AnswerType, w
<1>9. /\ Pooled' = Pooled /\ CodesOf' = CodesOf /\ (Whole(q)' <=> Whole(q))
      /\ (ContextsAgree(q)' <=> ContextsAgree(q))
  BY <1>1 DEF Pooled, CodesOf, Whole, ContextsAgree
<1>10. Explained(err[q], request[q], query[q], causes[q])'
  <2>1. Explained(err[q], request[q], query[q], w)
    BY <1>0, <1>7, StaysTold DEF AnswerInv
  <2>2. QED
    BY <1>1, <1>8, <2>1 DEF Explained, TagTold, CategoryTold
<1>11. (Pooled => DriverTold(err[q], CodesOf, causes[q]))'
  BY <1>0, <1>1, <1>7, <1>8, <1>9 DEF AnswerInv, DriverTold
<1>12. Answered(q)'
  <2>1. CASE told = NoError
    <3>1. answer'[q] = Category("ok")
      BY <1>0, <1>4, <2>1 DEF AnswerType
    <3>2. causes'[q] = {} /\ Whole(q)'
      BY <1>0, <1>1, <1>6, <1>8, <1>9, <2>1 DEF AnswerInv, After
    <3>3. QED
      BY <3>1, <3>2 DEF Answered, Category, MayHelp
  <2>2. CASE told # NoError
    <3> DEFINE a == ClassifyRelationalQuery(q, told)
    <3>1. answer'[q] = a
      BY <1>0, <1>4, <2>2 DEF AnswerType
    <3>2. Fits(a, request[q], query[q], w)
      BY <1>5, <2>2, ClassifyTells
    <3> HIDE DEF a
    <3>3. QED
      BY <1>1, <1>8, <3>1, <3>2 DEF Answered, Fits
  <2>3. QED
    BY <2>1, <2>2
<1>13. (err[q] = NoError \/ Speaks(err[q]))'
  BY <1>0, <1>1 DEF AnswerInv, Speaks
<1>14. pc'[q] \notin Before /\ pc'[q] \notin After /\ pc'[q] # "ended"
  BY <1>1 DEF Before, After
<1>15. QED
  BY <1>0, <1>1, <1>8, <1>9, <1>10, <1>11, <1>12, <1>13, <1>14 DEF AnswerInv
---------------------------------------------------------------------------
\* A step of a query leaves the other queries alone.
LEMMA StepIsAlone ==
    ASSUME AnswerType, ConnType, ResultType, NEW q \in Queries, AnswerStep(q), ResultStep(q)
    PROVE  Alone(q) /\ UNCHANGED config
<1>1. /\ UNCHANGED <<config, contexts, answer>> /\ \E next : pc' = [pc EXCEPT ![q] = next]
      /\ UNCHANGED <<err, causes>> \/ \E e : \E w : /\ err' = [err EXCEPT ![q] = e]
                                                   /\ causes' = [causes EXCEPT ![q] = @ \cup w]
  BY DEF AnswerStep, Fails, Halts, GoesOn, Stops
<1>2. ASSUME NEW p \in Queries \ {q}
      PROVE  out'[p] = out[p]
  BY ResultsApart
<1>3. ASSUME NEW p \in Queries \ {q}
      PROVE  /\ pc'[p] = pc[p] /\ err'[p] = err[p] /\ causes'[p] = causes[p] /\ answer'[p] = answer[p]
             /\ request'[p] = request[p] /\ query'[p] = query[p]
  BY <1>1 DEF AnswerType, ConnType, contexts
<1>4. QED
  BY <1>1, <1>2, <1>3 DEF Alone

\* The tool's own steps.
LEMMA ToolAnswer ==
    ASSUME AllAnswerInv, ConnType, ResultType, NEW q \in Queries,
           \/ RefuseRequest(q) \/ QueryRelationalDatabase(q) \/ Respond(q) \/ NextRequest(q)
           \/ CancelRequest(q) \/ QueryTimeout(q)
    PROVE  AnswerInv(q)' /\ AnswerType' /\ Alone(q) /\ UNCHANGED config
<1>0. AnswerInv(q) /\ AnswerType
  BY DEF AllAnswerInv
<1>1. CASE RefuseRequest(q)
  <2>1. AnswerStep(q) /\ ResultStep(q)
    BY <1>1, RefusedAnswer, ToolResult
  <2>2. QED
    BY <1>0, <2>1, AnswerStepKeeps, StepIsAlone
<1>2. CASE QueryRelationalDatabase(q)
  <2>1. ResultStep(q) /\ UNCHANGED <<config, request, result, answer, causes>> /\ pc[q] = "idle"
    BY <1>2, ToolResult DEF QueryRelationalDatabase
  <2>2. CASE /\ request[q] = "cancelled" /\ SetErr(q, Is({"ErrCancelled", "context.Canceled"}))
             /\ Go(q, "respond") /\ UNCHANGED query
    <3>1. AnswerStep(q)
      BY <2>1, <2>2, GivenUpAnswer DEF contexts, AnswerStep
    <3>2. QED
      BY <1>0, <2>1, <3>1, AnswerStepKeeps, StepIsAlone
  <2>3. CASE /\ query' = [query EXCEPT ![q] = "live"] /\ Go(q, "open") /\ UNCHANGED err
    <3>1. /\ request' = [request EXCEPT ![q] = request[q]] /\ request[q] \in {"live", "cancelled"}
          /\ "open" \in Before /\ "idle" \in Before /\ out' = out
      BY <1>0, <2>1 DEF AnswerType, Before, result
    <3>2. AnswerInv(q)' /\ AnswerType'
      BY <2>1, <2>3, <3>1, ContextsMove DEF Go
    <3>3. Alone(q)
      BY <1>0, <2>1, <2>3, <3>1 DEF Alone, Go, AnswerType, ConnType
    <3>4. QED
      BY <2>1, <3>2, <3>3
  <2>4. QED
    BY <1>2, <2>2, <2>3 DEF QueryRelationalDatabase
<1>3. CASE Respond(q)
  <2>1. AnswerInv(q)' /\ AnswerType' /\ UNCHANGED config
    BY <1>3, RespondAnswer DEF Respond
  <2>2. Alone(q)
    BY <1>0, <1>3 DEF Alone, Respond, Go, Blame, AnswerType, ConnType, contexts, result
  <2>3. QED
    BY <2>1, <2>2
<1>4. CASE NextRequest(q)
  <2>1. AnswerInv(q)' /\ AnswerType' /\ UNCHANGED config
    BY <1>4, NextRequestAnswer DEF NextRequest
  <2>2. Alone(q)
    BY <1>0, <1>4 DEF Alone, NextRequest, Go, SetErr, AnswerType, ConnType, ResultType
  <2>3. QED
    BY <2>1, <2>2
<1>5. CASE CancelRequest(q) \/ QueryTimeout(q)
  <2>1. /\ UNCHANGED <<config, pc, result, err, answer, causes>> /\ pc[q] # "done" /\ out' = out
        /\ pc' = [pc EXCEPT ![q] = pc[q]]
    BY <1>5 DEF CancelRequest, QueryTimeout, result, ConnType
  <2>2. PICK r \in {"live", "cancelled"}, c \in {"none", "live", "canceled", "deadline"} :
            /\ request' = [request EXCEPT ![q] = r] /\ query' = [query EXCEPT ![q] = c]
            /\ c = "canceled" => r = "cancelled"
            /\ request[q] = "cancelled" => r = "cancelled"
            /\ query[q] = "deadline" => c = "deadline"
            /\ Ended(q) => c \in {"canceled", "deadline"}
    <3>1. CASE CancelRequest(q)
      <4> DEFINE c == IF query[q] = "live" THEN "canceled" ELSE query[q]
      <4>1. /\ request' = [request EXCEPT ![q] = "cancelled"]
            /\ query' = [query EXCEPT ![q] = c] /\ c \in {"none", "live", "canceled", "deadline"}
        BY <1>0, <3>1 DEF CancelRequest, AnswerType
      <4>2. query[q] = "deadline" => c = "deadline"
        OBVIOUS
      <4>3. Ended(q) => c \in {"canceled", "deadline"}
        BY DEF Ended
      <4> HIDE DEF c
      <4>4. QED
        BY <4>1, <4>2, <4>3
    <3>2. CASE QueryTimeout(q)
      <4>1. /\ request' = [request EXCEPT ![q] = request[q]] /\ request[q] \in {"live", "cancelled"}
            /\ query' = [query EXCEPT ![q] = "deadline"]
        BY <1>0, <3>2 DEF QueryTimeout, AnswerType
      <4>2. QED
        BY <4>1
    <3>3. QED
      BY <1>5, <3>1, <3>2
  <2>3. AnswerInv(q)' /\ AnswerType'
    BY <2>1, <2>2, ContextsMove
  <2>4. Alone(q)
    BY <1>0, <2>1, <2>2 DEF Alone, AnswerType
  <2>5. QED
    BY <2>1, <2>3, <2>4
<1>6. QED
  BY <1>1, <1>2, <1>3, <1>4, <1>5

\* What a query's error tells has happened, at every step of every engine, and so has
\* what its answer says.
LEMMA AnswerInvariant == Spec => []AllAnswerInv
<1>1. Init => AllAnswerInv
  <2> SUFFICES ASSUME Init PROVE AllAnswerInv
    OBVIOUS
  <2>1. AnswerType
    BY NoErrorIs DEF Init, AnswerType
  <2>2. ASSUME NEW q \in Queries
        PROVE  AnswerInv(q)
    <3>1. pc[q] = "idle" /\ query[q] = "none" /\ err[q] = NoError /\ causes[q] = {}
      BY DEF Init
    <3>2. QED
      BY <3>1 DEF AnswerInv, ContextsAgree, Explained, DriverTold, NoError, After
  <2>3. QED
    BY <2>1, <2>2 DEF AllAnswerInv
<1>2. IInv /\ ResultInv /\ AllAnswerInv /\ [Next]_vars => AllAnswerInv'
  <2> SUFFICES ASSUME IInv, ResultInv, AllAnswerInv, [Next]_vars
               PROVE  AllAnswerInv'
    OBVIOUS
  <2>1. ConnType /\ ResultType /\ AnswerType
    BY DEF IInv, ResultInv, ResultType, AllAnswerInv
  <2>2. ASSUME NEW q \in Queries, AnswerInv(q)', AnswerType', Alone(q), UNCHANGED config
        PROVE  AllAnswerInv'
    <3>1. \A p \in Queries \ {q} : AnswerInv(p)'
      BY <2>2, OtherAnswers
    <3>2. QED
      BY <2>2, <3>1 DEF AllAnswerInv
  <2>3. ASSUME NEW q \in Queries, PgNext(q) \/ MyNext(q) \/ LiteNext(q)
        PROVE  AllAnswerInv'
    <3>1. AnswerStep(q) /\ ResultStep(q)
      BY <2>1, <2>3, PgAnswer, MyAnswer, LiteAnswer, PgResult, MyResult, LiteResult
    <3>2. QED
      BY <2>1, <2>2, <3>1, AnswerStepKeeps, StepIsAlone
  <2>4. ASSUME NEW q \in Queries,
               \/ RefuseRequest(q) \/ QueryRelationalDatabase(q) \/ Respond(q) \/ NextRequest(q)
               \/ CancelRequest(q) \/ QueryTimeout(q)
        PROVE  AllAnswerInv'
    BY <2>1, <2>2, <2>4, ToolAnswer
  <2>5. ASSUME UNCHANGED <<config, pc, contexts, out, err, answer, causes>>
        PROVE  AllAnswerInv'
    <3>1. AnswerType'
      BY <2>1, <2>5 DEF AnswerType, contexts
    <3>2. ASSUME NEW q \in Queries
          PROVE  AnswerInv(q)'
      <4>1. AnswerInv(q)
        BY DEF AllAnswerInv
      <4>2. QED
        BY <2>5, <4>1 DEF config, contexts, AnswerInv, ContextsAgree, Explained, TagTold, CategoryTold,
                          Pooled, DriverTold, CodesOf, Speaks, Ended, Raw, Whole, Answered
    <3>3. QED
      BY <3>1, <3>2 DEF AllAnswerInv
  <2>6. ASSUME NEW c \in Conns, BorrowConnection(c) \/ ReturnConnection(c)
        PROVE  UNCHANGED <<config, pc, contexts, out, err, answer, causes>>
    BY <2>6 DEF BorrowConnection, ReturnConnection, result
  <2>7. CASE UNCHANGED vars
    BY <2>5, <2>7 DEF vars, result
  <2>8. QED
    BY <2>3, <2>4, <2>5, <2>6, <2>7 DEF Next
<1>3. QED
  BY <1>1, <1>2, InductiveInvariant, ResultInvariant, PTL DEF Spec

(* Whatever fails on the way, and however many queries run at once, the    *)
(* answer tells what happened: a result is only handed out when nothing    *)
(* failed and it is whole or says that it was cut, a failure is told by    *)
(* the category of something that went wrong, and a retry is only          *)
(* suggested where it may help (ClassifyRelationalQuery over the errors    *)
(* the three executors project and join).                                  *)
THEOREM AnswersExplained == Spec => []AnswerIsExplained
<1>1. AllAnswerInv => AnswerIsExplained
  BY DEF AllAnswerInv, AnswerInv, Answered, AnswerIsExplained, Whole, MayHelp
<1>2. QED
  BY <1>1, AnswerInvariant, PTL
=============================================================================
