------------------------------ MODULE McpToken ------------------------------
(***************************************************************************)
(* The bearer token of the HTTP MCP endpoint: Service of                   *)
(* src/internal/mcptoken/service.go over the file store of                 *)
(* src/internal/mcptoken/local/store.go.                                   *)
(*                                                                         *)
(* Create, Rotate and Revoke hold mutationMu from their look at the state  *)
(* to their return: at most one is in flight, and it writes the file before *)
(* it commits to memory.  Verify reads the memory under runtimeMu and      *)
(* compares afterwards, at any moment.  The process may stop between any   *)
(* two steps and loads the file again.                                     *)
(*                                                                         *)
(* A token is a number, given out in order, and its verifier is the same   *)
(* number.  A time is what time.Now returns: a wall clock, which is written *)
(* to the file, and a monotonic reading, which comparisons prefer.         *)
(***************************************************************************)
EXTENDS Integers

CONSTANTS Verifiers,    \* requests to the MCP endpoint, one at a time each
          MaxTokens,    \* bound: tokens generated in one behaviour
          MaxWall,      \* bound: readings of the wall clock
          MaySetClock   \* the wall clock may be set back while the process runs

ASSUME TokenAssumption ==
    /\ MaxTokens \in Nat
    /\ MaxWall \in Nat
    /\ MaySetClock \in BOOLEAN

Token == 1..MaxTokens
None == 0
NoTime == [wall |-> -1, mono |-> 0]

VARIABLES
    state,      \* Service.state
    verifier,   \* Service.verifier
    created,    \* Service.metadata
    rotated,
    disk,       \* the token file
    op,         \* the mutation in flight
    minted,     \* number of tokens generated
    wall,       \* the wall clock
    mono,       \* the monotonic clock of this process
    request,    \* what each verifier is doing
    handed,     \* history: the token last returned by Create or Rotate, if it must work
    dead,       \* history: tokens whose rotation or revocation was reported
    unsure      \* history: a write was reported as failed that did happen

service == <<state, verifier, created, rotated>>
clocks  == <<wall, mono>>
history == <<handed, dead, unsure>>
vars == <<service, disk, op, minted, clocks, request, history>>

NoOp      == [kind |-> "none", at |-> "idle", token |-> None, created |-> NoTime, rotated |-> NoTime]
NoFile    == [status |-> "none", token |-> None, created |-> NoTime, rotated |-> NoTime]
Corrupt   == [NoFile EXCEPT !.status = "corrupt"]
NoRequest == [at |-> "idle", token |-> None, state |-> "none", verifier |-> None,
              dead |-> {}, valid |-> FALSE, reply |-> "none"]

Now == [wall |-> wall, mono |-> mono + 1]

\* time.Time.Before: monotonic readings are compared if both times have one.
Before(t, u) == IF t.mono > 0 /\ u.mono > 0 THEN t.mono < u.mono ELSE t.wall < u.wall

\* Formatting a time keeps the wall clock only.
Written(t) == [t EXCEPT !.mono = 0]

\* Mutant: encode does not compare the two times.
BugEncodes(o) == TRUE

\* encode and decode: what Save writes and what Load reads.
Encodes(o) == o.rotated # NoTime => ~Before(o.rotated, o.created)
Decodes(f) == f.rotated # NoTime => ~Before(f.rotated, f.created)
---------------------------------------------------------------------------
\* Mutant: a file that cannot be decoded is taken as it is.
BugLoad(file, fails) ==
    /\ verifier' = file.token
    /\ created' = file.created
    /\ rotated' = file.rotated
    /\ state' = IF file.status = "none" THEN "none" ELSE IF fails THEN "degraded" ELSE "active"

\* New: a file that cannot be read, or does not decode, leaves the service degraded.
Load(file, fails) ==
    LET ok == file.status = "valid" /\ Decodes(file) /\ ~fails IN
    /\ state' = IF file.status = "none" THEN "none" ELSE IF ok THEN "active" ELSE "degraded"
    /\ verifier' = IF ok THEN file.token ELSE None
    /\ created' = IF ok THEN file.created ELSE NoTime
    /\ rotated' = IF ok THEN file.rotated ELSE NoTime

\* The first start, with no file or with one somebody damaged.
Init ==
    /\ disk \in {NoFile, Corrupt}
    /\ state = IF disk = NoFile THEN "none" ELSE "degraded"
    /\ verifier = None
    /\ created = NoTime
    /\ rotated = NoTime
    /\ op = NoOp
    /\ minted = 0
    /\ wall = 0
    /\ mono = 0
    /\ request = [v \in Verifiers |-> NoRequest]
    /\ handed = None
    /\ dead = {}
    /\ unsure = FALSE

Generate(kind, createdAt, rotatedAt) ==
    /\ minted < MaxTokens
    /\ minted' = minted + 1
    /\ mono' = mono + 1
    /\ op' = [kind |-> kind, at |-> "save", token |-> minted', created |-> createdAt, rotated |-> rotatedAt]
    /\ UNCHANGED <<service, disk, wall, request, history>>

\* Create and Rotate lock mutationMu and look at the state; they refuse in any
\* other one, and a failure of the random source changes nothing.
Create == op = NoOp /\ state = "none" /\ Generate("create", Now, NoTime)
Rotate == op = NoOp /\ state = "active" /\ Generate("rotate", created, Now)

\* Revoke in state none answers at once.
Revoke ==
    /\ op = NoOp
    /\ state \in {"active", "degraded"}
    /\ op' = [NoOp EXCEPT !.kind = "revoke", !.at = "save"]
    /\ UNCHANGED <<service, disk, minted, clocks, request, history>>

Fail == op' = NoOp /\ UNCHANGED <<handed, dead>>

\* Mutant: the result of the write is not looked at.
BugSave ==
    /\ op.at = "save"
    /\ op.kind \in {"create", "rotate"}
    /\ op' = [op EXCEPT !.at = "commit"]
    /\ disk' \in {disk, [status |-> "valid", token |-> op.token,
                         created |-> Written(op.created), rotated |-> Written(op.rotated)]}
    /\ UNCHANGED <<service, minted, clocks, request, history>>

\* Store.Save: refused by encode or by a done context, or atomicfile.Replace
\* succeeds, fails and leaves the file, or fails after the rename.
Save ==
    LET file == [status |-> "valid", token |-> op.token,
                 created |-> Written(op.created), rotated |-> Written(op.rotated)] IN
    /\ op.at = "save"
    /\ op.kind \in {"create", "rotate"}
    /\ \/ /\ Encodes(op)
          /\ disk' = file
          /\ op' = [op EXCEPT !.at = "commit"]
          /\ UNCHANGED history
       \/ /\ Encodes(op)
          /\ disk' = file
          /\ unsure' = TRUE
          /\ Fail
       \/ /\ Fail
          /\ UNCHANGED <<disk, unsure>>
    /\ UNCHANGED <<service, minted, clocks, request>>

\* Store.Delete: the file is removed, or is not there, or stays with an error.
Delete ==
    /\ op.at = "save"
    /\ op.kind = "revoke"
    /\ \/ /\ disk' = NoFile
          /\ op' = [op EXCEPT !.at = "commit"]
          /\ UNCHANGED <<handed, dead>>
       \/ Fail /\ UNCHANGED disk
    /\ UNCHANGED <<service, minted, clocks, request, unsure>>

\* Mutant: a revoked token stays in memory.
BugCommit ==
    /\ op.at = "commit"
    /\ state' = IF op.kind = "revoke" THEN state ELSE "active"
    /\ verifier' = IF op.kind = "revoke" THEN verifier ELSE op.token
    /\ created' = op.created
    /\ rotated' = op.rotated
    /\ dead' = dead \cup ({verifier, handed} \ {None})
    /\ handed' = op.token
    /\ unsure' = FALSE
    /\ op' = NoOp
    /\ UNCHANGED <<disk, minted, clocks, request>>

\* commitActive and the end of Revoke, under runtimeMu; the mutation returns.
Commit ==
    /\ op.at = "commit"
    /\ state' = IF op.kind = "revoke" THEN "none" ELSE "active"
    /\ verifier' = op.token
    /\ created' = op.created
    /\ rotated' = op.rotated
    /\ dead' = dead \cup ({verifier, handed} \ {None})
    /\ handed' = op.token
    /\ unsure' = FALSE
    /\ op' = NoOp
    /\ UNCHANGED <<disk, minted, clocks, request>>
---------------------------------------------------------------------------
\* A request arrives with a token that was generated at some time.
Arrive(v, t) ==
    /\ request[v].at = "idle"
    /\ t <= minted
    /\ request' = [request EXCEPT ![v] =
                      [NoRequest EXCEPT !.at = "read", !.token = t, !.dead = dead, !.valid = (handed = t)]]
    /\ UNCHANGED <<service, disk, op, minted, clocks, history>>

\* Verify reads state and verifier in one critical section ...
Read(v) ==
    /\ request[v].at = "read"
    /\ request' = [request EXCEPT ![v].at = "compare", ![v].state = state, ![v].verifier = verifier]
    /\ UNCHANGED <<service, disk, op, minted, clocks, history>>

\* ... and answers from what it read.
Compare(v) ==
    LET r == request[v] IN
    /\ r.at = "compare"
    /\ request' = [request EXCEPT ![v].at = "idle", ![v].reply =
                      IF r.state = "degraded" THEN "unavailable"
                      ELSE IF r.state = "active" /\ r.verifier = r.token THEN "ok" ELSE "refused"]
    /\ UNCHANGED <<service, disk, op, minted, clocks, history>>

\* The process stops and is started again, after any time: a mutation that had
\* written the file has happened although nobody was told.  Load may fail.
Restart ==
    /\ \E fails \in BOOLEAN : Load(disk, fails)
    /\ op' = NoOp
    /\ mono' = 0
    /\ wall' \in 0..MaxWall
    /\ request' = [v \in Verifiers |-> NoRequest]
    /\ handed' = IF (op.at = "commit" \/ unsure) /\ disk.token # handed THEN None ELSE handed
    /\ unsure' = FALSE
    /\ UNCHANGED <<disk, minted, dead>>

\* Time passes, and somebody may set the wall clock.
ClockMoves ==
    /\ wall' \in {w \in 0..MaxWall : w > wall \/ (MaySetClock /\ w < wall)}
    /\ UNCHANGED <<service, disk, op, minted, mono, request, history>>
---------------------------------------------------------------------------
Next ==
    \/ Create \/ Rotate \/ Revoke \/ Save \/ Delete \/ Commit
    \/ \E v \in Verifiers : Read(v) \/ Compare(v) \/ \E t \in Token : Arrive(v, t)
    \/ Restart \/ ClockMoves

Spec == Init /\ [][Next]_vars
---------------------------------------------------------------------------
Time == [wall : -1..MaxWall, mono : 0..MaxTokens]

File == [status : {"none", "valid", "corrupt"}, token : Token \cup {None},
         created : Time, rotated : Time]

Mutation == [kind : {"none", "create", "rotate", "revoke"}, at : {"idle", "save", "commit"},
             token : Token \cup {None}, created : Time, rotated : Time]

Request == [at : {"idle", "read", "compare"}, token : Token \cup {None},
            state : {"none", "active", "degraded"}, verifier : Token \cup {None},
            dead : SUBSET Token, valid : BOOLEAN,
            reply : {"none", "ok", "refused", "unavailable"}]

TypeOK ==
    /\ state \in {"none", "active", "degraded"}
    /\ verifier \in Token \cup {None}
    /\ state = "active" <=> verifier # None
    /\ created \in Time /\ rotated \in Time
    /\ disk \in File
    /\ op \in Mutation
    /\ minted \in 0..MaxTokens
    /\ wall \in 0..MaxWall /\ mono \in 0..MaxTokens
    /\ request \in [Verifiers -> Request]
    /\ handed \in Token \cup {None}
    /\ dead \subseteq Token
    /\ unsure \in BOOLEAN

(* What Save wrote, Load accepts: no rotation leaves a file that the next  *)
(* start takes for a corrupt one.                                          *)
SavedStateLoads == disk.status = "valid" => Decodes(disk)

(* The token last handed out works, over failed mutations and restarts,    *)
(* unless the file could not be read; a mutation that fails changes        *)
(* nothing, except on a disk that reports a failure of a write it did.     *)
HandedTokenWorks ==
    handed # None /\ state # "degraded" => state = "active" /\ verifier = handed

(* A request that arrives after a token was rotated or revoked is never    *)
(* accepted with it, and one with the present token is not refused, however *)
(* its two halves fall between those of a mutation.                        *)
AnswersAreRight ==
    \A v \in Verifiers :
        LET r == request[v] IN
        /\ r.reply = "ok" => r.token \notin r.dead
        /\ r.reply = "refused" /\ r.valid => handed # r.token
=============================================================================
