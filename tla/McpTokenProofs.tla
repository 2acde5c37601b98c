--------------------------- MODULE McpTokenProofs ---------------------------
(***************************************************************************)
(* Proofs about McpToken, for every number of tokens and clock readings    *)
(* and every set of requests: the token handed out works, requests are     *)
(* answered by a token of their time, and, when the clock is not set back  *)
(* while the process runs, what was saved loads.                           *)
(***************************************************************************)
EXTENDS McpToken, TLAPS

\* Every token was minted, and one that is being minted is nobody's yet; one that
\* was reported dead is on no disk and in no memory.
TokenInv ==
    /\ mono <= minted
    /\ verifier <= minted /\ handed <= minted /\ disk.token <= minted /\ op.token <= minted
    /\ \A t \in dead : t <= minted
    /\ disk.token \notin dead /\ verifier \notin dead /\ handed \notin dead /\ op.token \notin dead
    /\ op.token # None => op.token # verifier /\ op.token # handed

\* What is on disk, given how far the mutation in flight is.
DiskInv ==
    /\ disk.status = "valid" <=> disk.token # None
    /\ disk.status = "none" => disk = NoFile
    /\ op.kind \in {"create", "rotate"} <=> op.token # None
    /\ op.kind = "none" <=> op.at = "idle"
    /\ op.at = "commit" => disk.token = op.token
    /\ handed # None /\ op.at # "commit" /\ ~unsure => disk.token = handed

\* What a request knows.
RequestInv(r) ==
    /\ r.token <= minted
    /\ r.at # "idle" => r.dead \subseteq dead /\ r.reply = "none"
    /\ r.at = "compare" => r.verifier \notin r.dead
    /\ r.valid => r.token # None /\ r.token # op.token
    /\ r.at = "compare" /\ r.valid /\ handed = r.token =>
          r.state = "degraded" \/ (r.state = "active" /\ r.verifier = r.token)
    /\ r.reply = "ok" => r.token \notin r.dead
    /\ r.reply = "refused" /\ r.valid => handed # r.token

RequestsInv == \A v \in Verifiers : RequestInv(request[v])

IInv == TypeOK /\ TokenInv /\ DiskInv /\ HandedTokenWorks /\ RequestsInv

\* A time of this process is not ahead of its wall clock, and a rotation in flight
\* follows the creation on the clock that reaches the file.
ClockInv ==
    /\ created.mono > 0 => created.wall <= wall
    /\ op.created.mono > 0 => op.created.wall <= wall
    /\ op.created.mono > 0 /\ op.rotated # NoTime => op.created.wall <= op.rotated.wall
    /\ op.rotated # NoTime => op.rotated.mono > 0
    /\ disk.created.mono = 0 /\ disk.rotated.mono = 0
    /\ SavedStateLoads
---------------------------------------------------------------------------
\* Times and files are what they should be.
LEMMA TimeTypes ==
    ASSUME TypeOK
    PROVE  /\ NoTime \in Time /\ NoOp \in Mutation /\ NoFile \in File /\ NoRequest \in Request
           /\ mono < MaxTokens => Now \in Time
           /\ \A t \in Time : Written(t) \in Time
  <1>1. NoTime \in Time BY TokenAssumption DEF NoTime, Time
  <1>2. NoOp \in Mutation /\ NoFile \in File /\ NoRequest \in Request
    BY <1>1 DEF NoOp, Mutation, NoFile, File, NoRequest, Request
  <1>3. ASSUME mono < MaxTokens PROVE Now \in Time
    <2>1. wall \in -1..MaxWall /\ mono + 1 \in 0..MaxTokens BY <1>3, TokenAssumption DEF TypeOK
    <2>2. QED BY <2>1 DEF Now, Time
  <1>4. ASSUME NEW t \in Time PROVE Written(t) \in Time
    BY TokenAssumption DEF Written, Time
  <1>5. QED BY <1>1, <1>2, <1>3, <1>4

\* Types are kept.
LEMMA TypesKept ==
    ASSUME IInv, Next
    PROVE  TypeOK'
  <1> USE DEF IInv, service, clocks, history
  <1>1. CASE Create
    <2>1. minted + 1 \in 0..MaxTokens /\ minted + 1 \in Token /\ mono + 1 \in 0..MaxTokens /\ mono < MaxTokens
      BY <1>1, TokenAssumption DEF TypeOK, TokenInv, Token, Create, Generate
    <2>2. op' \in Mutation BY <1>1, <2>1, TimeTypes DEF TypeOK, Mutation, Create, Generate
    <2>3. QED BY <1>1, <2>1, <2>2 DEF TypeOK, Create, Generate
  <1>2. CASE Rotate
    <2>1. minted + 1 \in 0..MaxTokens /\ minted + 1 \in Token /\ mono + 1 \in 0..MaxTokens /\ mono < MaxTokens
      BY <1>2, TokenAssumption DEF TypeOK, TokenInv, Token, Rotate, Generate
    <2>2. op' \in Mutation BY <1>2, <2>1, TimeTypes DEF TypeOK, Mutation, Rotate, Generate
    <2>3. QED BY <1>2, <2>1, <2>2 DEF TypeOK, Rotate, Generate
  <1>3. CASE Revoke
    <2>1. op' \in Mutation BY <1>3, TimeTypes DEF Mutation, Revoke
    <2>2. QED BY <1>3, <2>1 DEF TypeOK, Revoke
  <1>4. CASE Save
    <2> DEFINE file == [status |-> "valid", token |-> op.token,
                        created |-> Written(op.created), rotated |-> Written(op.rotated)]
    <2>1. file \in File
      <3>1. op.token \in Token \cup {None} /\ op.created \in Time /\ op.rotated \in Time
        BY DEF TypeOK, Mutation
      <3>2. QED BY <3>1, TimeTypes DEF File
    <2>2. op' \in Mutation BY <1>4, TimeTypes DEF TypeOK, Mutation, Save, Fail
    <2>3. disk' \in {disk, file} /\ unsure' \in {unsure, TRUE} BY <1>4 DEF Save
    <2>4. QED BY <1>4, <2>1, <2>2, <2>3 DEF TypeOK, Save, Fail
  <1>5. CASE Delete
    <2>1. op' \in Mutation BY <1>5, TimeTypes DEF TypeOK, Mutation, Delete, Fail
    <2>2. disk' \in File BY <1>5, TimeTypes DEF TypeOK, Delete
    <2>3. QED BY <1>5, <2>1, <2>2 DEF TypeOK, Delete, Fail
  <1>6. CASE Commit
    <2>1. op.token \in Token \cup {None} /\ op.created \in Time /\ op.rotated \in Time
      BY DEF TypeOK, Mutation
    <2>2. op.kind = "revoke" <=> op.token = None BY <1>6 DEF TypeOK, Mutation, DiskInv, Commit
    <2>3. QED BY <1>6, <2>1, <2>2, TimeTypes DEF TypeOK, Commit
  <1>7. ASSUME NEW v \in Verifiers, NEW t \in Token, Arrive(v, t) PROVE TypeOK'
    <2>1. [NoRequest EXCEPT !.at = "read", !.token = t, !.dead = dead,
        !.valid = (handed = t)] \in Request
      BY TimeTypes DEF TypeOK, Request
    <2>2. QED BY <1>7, <2>1 DEF TypeOK, Arrive
  <1>8. ASSUME NEW v \in Verifiers, Read(v) PROVE TypeOK'
    <2>1. [request[v] EXCEPT !.at = "compare", !.state = state, !.verifier = verifier] \in Request
      BY DEF TypeOK, Request
    <2>2. request' = [request EXCEPT ![v] = [request[v] EXCEPT !.at = "compare", !.state = state,
        !.verifier = verifier]]
      BY <1>8 DEF TypeOK, Read
    <2>3. QED BY <1>8, <2>1, <2>2 DEF TypeOK, Read
  <1>9. ASSUME NEW v \in Verifiers, Compare(v) PROVE TypeOK'
    <2>1. ASSUME NEW reply \in {"unavailable", "ok", "refused"}
          PROVE  [request[v] EXCEPT !.at = "idle", !.reply = reply] \in Request
      BY DEF TypeOK, Request
    <2>2. PICK reply \in {"unavailable", "ok", "refused"} :
              request' = [request EXCEPT ![v] = [request[v] EXCEPT !.at = "idle", !.reply = reply]]
      BY <1>9 DEF TypeOK, Compare
    <2>3. QED BY <1>9, <2>1, <2>2 DEF TypeOK, Compare
  <1>10. CASE Restart
    <2>1. disk.token \in Token \cup {None} /\ disk.created \in Time /\ disk.rotated \in Time
      BY DEF TypeOK, File
    <2>2. state' \in {"none", "active", "degraded"} /\ verifier' \in Token \cup {None}
          /\ created' \in Time /\ rotated' \in Time
      BY <1>10, <2>1, TimeTypes DEF Restart, Load
    <2>3. state' = "active" <=> verifier' # None
      BY <1>10 DEF Restart, Load, DiskInv
    <2>4. handed' \in {handed, None} BY <1>10 DEF Restart
    <2>5. request' \in [Verifiers -> Request] /\ op' \in Mutation BY <1>10, TimeTypes DEF Restart
    <2>6. mono' \in 0..MaxTokens /\ wall' \in 0..MaxWall
      BY <1>10, TokenAssumption DEF Restart
    <2>8. unsure' \in BOOLEAN BY <1>10 DEF Restart
    <2>7. QED BY <1>10, <2>2, <2>3, <2>4, <2>5, <2>6, <2>8 DEF TypeOK, Restart
  <1>11. CASE ClockMoves
    BY <1>11 DEF TypeOK, ClockMoves
  <1>12. QED BY <1>1, <1>2, <1>3, <1>4, <1>5, <1>6, <1>7, <1>8, <1>9, <1>10, <1>11 DEF Next

\* Tokens are minted once, and dead ones come back nowhere.
LEMMA TokensKept ==
    ASSUME IInv, Next
    PROVE  TokenInv'
  <1> USE DEF IInv, service, clocks, history
  <1>1. CASE Create
    BY <1>1 DEF TypeOK, Mutation, File, Request, TokenInv, DiskInv, Token, None, Create, Generate
  <1>2. CASE Rotate
    BY <1>2 DEF TypeOK, Mutation, File, Request, TokenInv, DiskInv, Token, None, Rotate, Generate
  <1>3. CASE Revoke
    BY <1>3 DEF TypeOK, Mutation, File, Request, TokenInv, DiskInv, Token, None, Revoke, NoOp
  <1>4. CASE Save
    BY <1>4 DEF TypeOK, Mutation, File, Request, TokenInv, DiskInv, Token, None, Save, Fail, NoOp
  <1>5. CASE Delete
    <2>1. disk'.token \in {disk.token, None} /\ op'.token = None
      BY <1>5 DEF TypeOK, Mutation, Delete, Fail, NoOp, NoFile, DiskInv
    <2>2. None \notin dead BY DEF TypeOK, Token, None
    <2>3. QED BY <1>5, <2>1, <2>2 DEF TypeOK, TokenInv, Delete, Fail, None
  <1>6. CASE Commit
    BY <1>6 DEF TypeOK, Mutation, File, Request, TokenInv, DiskInv, Token, None, Commit, NoOp
  <1>7. ASSUME NEW v \in Verifiers, NEW t \in Token, Arrive(v, t) PROVE TokenInv'
    BY <1>7 DEF TypeOK, Mutation, File, Request, TokenInv, DiskInv, Token, None, Arrive
  <1>8. ASSUME NEW v \in Verifiers, Read(v) PROVE TokenInv'
    BY <1>8 DEF TypeOK, Mutation, File, Request, TokenInv, DiskInv, Token, None, Read
  <1>9. ASSUME NEW v \in Verifiers, Compare(v) PROVE TokenInv'
    BY <1>9 DEF TypeOK, Mutation, File, Request, TokenInv, DiskInv, Token, None, Compare
  <1>10. CASE Restart
    BY <1>10 DEF TypeOK, Mutation, File, Request, TokenInv, DiskInv, Token, None, Restart, Load,
      NoOp
  <1>11. CASE ClockMoves
    BY <1>11 DEF TypeOK, Mutation, File, Request, TokenInv, DiskInv, Token, None, ClockMoves
  <1>12. QED BY <1>1, <1>2, <1>3, <1>4, <1>5, <1>6, <1>7, <1>8, <1>9, <1>10, <1>11 DEF Next

\* The file follows the mutation.
LEMMA DiskKept ==
    ASSUME IInv, Next
    PROVE  DiskInv'
  <1> USE DEF IInv, service, clocks, history
  <1>1. CASE Create
    <2>1. op.at = "idle" /\ op'.token = minted + 1 /\ op'.at = "save" /\ op'.kind = "create"
      BY <1>1 DEF Create, Generate, NoOp
    <2>2. minted + 1 # None BY DEF TypeOK, None
    <2>3. UNCHANGED <<disk, handed, unsure>> BY <1>1 DEF Create, Generate
    <2>4. QED BY <1>1, <2>1, <2>2, <2>3 DEF TypeOK, DiskInv
  <1>2. CASE Rotate
    <2>1. op.at = "idle" /\ op'.token = minted + 1 /\ op'.at = "save" /\ op'.kind = "rotate"
      BY <1>2 DEF Rotate, Generate, NoOp
    <2>2. minted + 1 # None BY DEF TypeOK, None
    <2>3. UNCHANGED <<disk, handed, unsure>> BY <1>2 DEF Rotate, Generate
    <2>4. QED BY <1>2, <2>1, <2>2, <2>3 DEF TypeOK, DiskInv
  <1>3. CASE Revoke
    BY <1>3 DEF TypeOK, Mutation, File, Request, DiskInv, NoFile, None, Token, Revoke, NoOp
  <1>4. CASE Save
    BY <1>4 DEF TypeOK, Mutation, File, Request, DiskInv, NoFile, None, Token, Save, Fail, NoOp
  <1>5. CASE Delete
    BY <1>5 DEF TypeOK, Mutation, File, Request, DiskInv, NoFile, None, Token, Delete, Fail, NoOp
  <1>6. CASE Commit
    BY <1>6 DEF TypeOK, Mutation, File, Request, DiskInv, NoFile, None, Token, Commit, NoOp
  <1>7. ASSUME NEW v \in Verifiers, NEW t \in Token, Arrive(v, t) PROVE DiskInv'
    BY <1>7 DEF TypeOK, Mutation, File, Request, DiskInv, NoFile, None, Token, Arrive
  <1>8. ASSUME NEW v \in Verifiers, Read(v) PROVE DiskInv'
    BY <1>8 DEF TypeOK, Mutation, File, Request, DiskInv, NoFile, None, Token, Read
  <1>9. ASSUME NEW v \in Verifiers, Compare(v) PROVE DiskInv'
    BY <1>9 DEF TypeOK, Mutation, File, Request, DiskInv, NoFile, None, Token, Compare
  <1>10. CASE Restart
    BY <1>10 DEF TypeOK, Mutation, File, Request, DiskInv, NoFile, None, Token, Restart, Load, NoOp
  <1>11. CASE ClockMoves
    BY <1>11 DEF TypeOK, Mutation, File, Request, DiskInv, NoFile, None, Token, ClockMoves
  <1>12. QED BY <1>1, <1>2, <1>3, <1>4, <1>5, <1>6, <1>7, <1>8, <1>9, <1>10, <1>11 DEF Next

\* The token handed out stays the one that works.
LEMMA HandedKept ==
    ASSUME IInv, Next
    PROVE  HandedTokenWorks'
  <1> USE DEF IInv, service, clocks, history
  <1>1. CASE Create
    BY <1>1 DEF TypeOK, Mutation, File, Request, DiskInv, TokenInv, HandedTokenWorks, None,
      Create, Generate
  <1>2. CASE Rotate
    BY <1>2 DEF TypeOK, Mutation, File, Request, DiskInv, TokenInv, HandedTokenWorks, None,
      Rotate, Generate
  <1>3. CASE Revoke
    BY <1>3 DEF TypeOK, Mutation, File, Request, DiskInv, TokenInv, HandedTokenWorks, None,
      Revoke, NoOp
  <1>4. CASE Save
    BY <1>4 DEF TypeOK, Mutation, File, Request, DiskInv, TokenInv, HandedTokenWorks, None, Save,
      Fail, NoOp
  <1>5. CASE Delete
    BY <1>5 DEF TypeOK, Mutation, File, Request, DiskInv, TokenInv, HandedTokenWorks, None,
      Delete, Fail, NoOp
  <1>6. CASE Commit
    BY <1>6 DEF TypeOK, Mutation, File, Request, DiskInv, TokenInv, HandedTokenWorks, None,
      Commit, NoOp
  <1>7. ASSUME NEW v \in Verifiers, NEW t \in Token, Arrive(v, t) PROVE HandedTokenWorks'
    BY <1>7 DEF TypeOK, Mutation, File, Request, DiskInv, TokenInv, HandedTokenWorks, None, Arrive
  <1>8. ASSUME NEW v \in Verifiers, Read(v) PROVE HandedTokenWorks'
    BY <1>8 DEF TypeOK, Mutation, File, Request, DiskInv, TokenInv, HandedTokenWorks, None, Read
  <1>9. ASSUME NEW v \in Verifiers, Compare(v) PROVE HandedTokenWorks'
    BY <1>9 DEF TypeOK, Mutation, File, Request, DiskInv, TokenInv, HandedTokenWorks, None, Compare
  <1>10. CASE Restart
    BY <1>10 DEF TypeOK, Mutation, File, Request, DiskInv, TokenInv, HandedTokenWorks, None,
      Restart, Load, NoOp
  <1>11. CASE ClockMoves
    BY <1>11 DEF TypeOK, Mutation, File, Request, DiskInv, TokenInv, HandedTokenWorks, None,
      ClockMoves
  <1>12. QED BY <1>1, <1>2, <1>3, <1>4, <1>5, <1>6, <1>7, <1>8, <1>9, <1>10, <1>11 DEF Next

\* What a request knows stays true.
LEMMA RequestsKept ==
    ASSUME IInv, Next
    PROVE  RequestsInv'
  <1> USE DEF IInv, service, clocks, history
  <1>1. CASE Create
    <2>1. op'.token = minted + 1 /\ minted' = minted + 1 /\ op.token = None /\ UNCHANGED <<request, handed, dead>>
      BY <1>1 DEF Create, Generate, NoOp
    <2>2. ASSUME NEW w \in Verifiers PROVE RequestInv(request[w])'
      <3>1. request[w].token <= minted /\ request[w].token \in Nat /\ minted \in Nat
        BY DEF RequestsInv, RequestInv, TypeOK, Request, Token, None
      <3>2. QED BY <2>1, <3>1 DEF RequestsInv, RequestInv
    <2>3. QED BY <2>2 DEF RequestsInv
  <1>2. CASE Rotate
    <2>1. op'.token = minted + 1 /\ minted' = minted + 1 /\ op.token = None /\ UNCHANGED <<request, handed, dead>>
      BY <1>2 DEF Rotate, Generate, NoOp
    <2>2. ASSUME NEW w \in Verifiers PROVE RequestInv(request[w])'
      <3>1. request[w].token <= minted /\ request[w].token \in Nat /\ minted \in Nat
        BY DEF RequestsInv, RequestInv, TypeOK, Request, Token, None
      <3>2. QED BY <2>1, <3>1 DEF RequestsInv, RequestInv
    <2>3. QED BY <2>2 DEF RequestsInv
  <1>3. CASE Revoke
    BY <1>3 DEF TypeOK, Mutation, File, Request, DiskInv, TokenInv, HandedTokenWorks, RequestsInv,
      RequestInv, NoRequest, None, Revoke, NoOp
  <1>4. CASE Save
    BY <1>4 DEF TypeOK, Mutation, File, Request, DiskInv, TokenInv, HandedTokenWorks, RequestsInv,
      RequestInv, NoRequest, None, Save, Fail, NoOp
  <1>5. CASE Delete
    BY <1>5 DEF TypeOK, Mutation, File, Request, DiskInv, TokenInv, HandedTokenWorks, RequestsInv,
      RequestInv, NoRequest, None, Delete, Fail, NoOp
  <1>6. CASE Commit
    BY <1>6 DEF TypeOK, Mutation, File, Request, DiskInv, TokenInv, HandedTokenWorks, RequestsInv,
      RequestInv, NoRequest, None, Commit, NoOp
  <1>7. ASSUME NEW v \in Verifiers, NEW t \in Token, Arrive(v, t) PROVE RequestsInv'
    <2> DEFINE new == [NoRequest EXCEPT !.at = "read", !.token = t, !.dead = dead,
        !.valid = (handed = t)]
    <2>1. request' = [request EXCEPT ![v] = new] /\ t <= minted /\ UNCHANGED <<minted, op, handed,
        dead>>
      BY <1>7 DEF Arrive
    <2>2. t # None BY DEF Token, None
    <2>3. /\ new.at = "read" /\ new.token = t /\ new.dead = dead /\ new.reply = "none"
          /\ new.valid => handed = t
      BY DEF NoRequest
    <2>4. handed = t => t # op.token BY <2>2 DEF TokenInv
    <2>5. RequestInv(new)' BY <2>1, <2>2, <2>3, <2>4 DEF RequestInv
    <2>6. QED BY <2>1, <2>5 DEF TypeOK, RequestsInv, RequestInv
  <1>8. ASSUME NEW v \in Verifiers, Read(v) PROVE RequestsInv'
    BY <1>8 DEF TypeOK, Mutation, File, Request, DiskInv, TokenInv, HandedTokenWorks, RequestsInv,
      RequestInv, NoRequest, None, Read
  <1>9. ASSUME NEW v \in Verifiers, Compare(v) PROVE RequestsInv'
    BY <1>9 DEF TypeOK, Mutation, File, Request, DiskInv, TokenInv, HandedTokenWorks, RequestsInv,
      RequestInv, NoRequest, None, Compare
  <1>10. CASE Restart
    BY <1>10 DEF TypeOK, Mutation, File, Request, DiskInv, TokenInv, HandedTokenWorks,
      RequestsInv, RequestInv, NoRequest, None, Restart, Load, NoOp
  <1>11. CASE ClockMoves
    BY <1>11 DEF TypeOK, Mutation, File, Request, DiskInv, TokenInv, HandedTokenWorks,
      RequestsInv, RequestInv, NoRequest, None, ClockMoves
  <1>12. QED BY <1>1, <1>2, <1>3, <1>4, <1>5, <1>6, <1>7, <1>8, <1>9, <1>10, <1>11 DEF Next

\* No time of this process is ahead of its clock.
LEMMA ClocksKept ==
    ASSUME IInv, Next, ClockInv, MaySetClock = FALSE
    PROVE  ClockInv'
  <1> USE DEF IInv, service, clocks, history
  <1>1. CASE Create
    BY <1>1 DEF TypeOK, Mutation, File, Request, DiskInv, ClockInv, SavedStateLoads, Before,
      Encodes, Decodes, Written, Now, NoTime, NoFile, Create, Generate
  <1>2. CASE Rotate
    BY <1>2 DEF TypeOK, Mutation, File, Request, DiskInv, ClockInv, SavedStateLoads, Before,
      Encodes, Decodes, Written, Now, NoTime, NoFile, Rotate, Generate
  <1>3. CASE Revoke
    BY <1>3 DEF TypeOK, Mutation, File, Request, DiskInv, ClockInv, SavedStateLoads, Before,
      Encodes, Decodes, Written, Now, NoTime, NoFile, Revoke, NoOp
  <1>4. CASE Save
    <2> DEFINE file == [status |-> "valid", token |-> op.token,
                        created |-> Written(op.created), rotated |-> Written(op.rotated)]
    <2>1. CASE Encodes(op) /\ disk' = file
      <3>1. op.created \in Time /\ op.rotated \in Time BY DEF TypeOK, Mutation
      <3>2. /\ file.created.mono = 0 /\ file.created.wall = op.created.wall
            /\ file.rotated.mono = 0 /\ file.rotated.wall = op.rotated.wall
        BY <3>1 DEF Written, Time
      <3>3. op.rotated = NoTime => file.rotated = NoTime BY DEF Written, NoTime
      <3>4. op.rotated # NoTime => ~(op.rotated.wall < op.created.wall)
        <4>1. op.rotated.wall \in Int /\ op.created.wall \in Int /\ op.created.mono \in Nat
          BY <3>1 DEF Time
        <4>2. QED BY <2>1, <4>1 DEF Encodes, Before, ClockInv
      <3>5. Decodes(file) BY <3>2, <3>3, <3>4 DEF Decodes, Before
      <3>6. SavedStateLoads' BY <2>1, <3>5 DEF SavedStateLoads
      <3>7. UNCHANGED <<created, wall>> /\ op'.created \in {op.created,
          NoTime} /\ op'.rotated \in {op.rotated, NoTime}
            /\ (op'.rotated # NoTime => op' = [op EXCEPT !.at = "commit"])
            /\ (op'.created # NoTime => op'.created = op.created)
        BY <1>4 DEF TypeOK, Mutation, Save, Fail, NoOp
      <3>8. QED BY <2>1, <3>2, <3>6, <3>7 DEF ClockInv, TypeOK, Mutation, NoTime
    <2>2. CASE op' = NoOp /\ UNCHANGED disk
      <3>1. UNCHANGED <<created, wall>> BY <1>4 DEF Save
      <3>2. QED BY <2>2, <3>1 DEF ClockInv, NoOp, NoTime, SavedStateLoads, Decodes, Before
    <2>3. QED BY <1>4, <2>1, <2>2 DEF Save, Fail
  <1>5. CASE Delete
    BY <1>5 DEF TypeOK, Mutation, File, Request, DiskInv, ClockInv, SavedStateLoads, Before,
      Encodes, Decodes, Written, Now, NoTime, NoFile, Delete, Fail, NoOp
  <1>6. CASE Commit
    BY <1>6 DEF TypeOK, Mutation, File, Request, DiskInv, ClockInv, SavedStateLoads, Before,
      Encodes, Decodes, Written, Now, NoTime, NoFile, Commit, NoOp
  <1>7. ASSUME NEW v \in Verifiers, NEW t \in Token, Arrive(v, t) PROVE ClockInv'
    BY <1>7 DEF TypeOK, Mutation, File, Request, DiskInv, ClockInv, SavedStateLoads, Before,
      Encodes, Decodes, Written, Now, NoTime, NoFile, Arrive
  <1>8. ASSUME NEW v \in Verifiers, Read(v) PROVE ClockInv'
    BY <1>8 DEF TypeOK, Mutation, File, Request, DiskInv, ClockInv, SavedStateLoads, Before,
      Encodes, Decodes, Written, Now, NoTime, NoFile, Read
  <1>9. ASSUME NEW v \in Verifiers, Compare(v) PROVE ClockInv'
    BY <1>9 DEF TypeOK, Mutation, File, Request, DiskInv, ClockInv, SavedStateLoads, Before,
      Encodes, Decodes, Written, Now, NoTime, NoFile, Compare
  <1>10. CASE Restart
    BY <1>10 DEF TypeOK, Mutation, File, Request, DiskInv, ClockInv, SavedStateLoads, Before,
      Encodes, Decodes, Written, Now, NoTime, NoFile, Restart, Load, NoOp
  <1>11. CASE ClockMoves
    <2>1. wall \in Int /\ wall' \in Int /\ wall <= wall' /\ UNCHANGED <<created, op, disk>>
      BY <1>11, TokenAssumption DEF TypeOK, ClockMoves
    <2>2. created.wall \in Int /\ op.created.wall \in Int BY DEF TypeOK, Mutation, Time
    <2>3. QED BY <2>1, <2>2 DEF ClockInv, SavedStateLoads
  <1>12. QED BY <1>1, <1>2, <1>3, <1>4, <1>5, <1>6, <1>7, <1>8, <1>9, <1>10, <1>11 DEF Next

---------------------------------------------------------------------------
\* The invariant the theorems rest on.
THEOREM InductiveInvariant == Spec => []IInv
  <1>1. ASSUME Init PROVE IInv
    <2>1. disk \in File /\ disk.token = None /\ disk.status # "valid" /\ (disk.status = "none" => disk = NoFile)
      <3>1. NoFile \in File /\ Corrupt \in File
        BY TokenAssumption DEF NoFile, Corrupt, File, NoTime, Time
      <3>2. QED BY <1>1, <3>1 DEF Init, NoFile, Corrupt
    <2>2. NoTime \in Time BY TokenAssumption DEF NoTime, Time
    <2>3. NoOp \in Mutation /\ NoRequest \in Request
      BY <2>2 DEF NoOp, Mutation, NoRequest, Request
    <2>4. TypeOK
      <3>1. verifier = None /\ state \in {"none", "degraded"} BY <1>1 DEF Init
      <3>2. minted \in 0..MaxTokens /\ wall \in 0..MaxWall /\ mono \in 0..MaxTokens
        BY <1>1, TokenAssumption DEF Init
      <3>5. unsure \in BOOLEAN BY <1>1 DEF Init
      <3>3. request \in [Verifiers -> Request] BY <1>1, <2>3 DEF Init
      <3>4. QED BY <1>1, <2>1, <2>2, <2>3, <3>1, <3>2, <3>3, <3>5 DEF Init, TypeOK
    <2>5. TokenInv BY <1>1, <2>1 DEF Init, TokenInv, NoOp, None
    <2>6. DiskInv BY <1>1, <2>1 DEF Init, DiskInv, NoOp, None
    <2>7. HandedTokenWorks BY <1>1 DEF Init, HandedTokenWorks
    <2>8. RequestsInv
      <3>1. RequestInv(NoRequest) BY <1>1 DEF Init, RequestInv, NoRequest, None
      <3>2. QED BY <1>1, <3>1 DEF Init, RequestsInv
    <2>9. QED BY <2>4, <2>5, <2>6, <2>7, <2>8 DEF IInv
  <1>2. ASSUME IInv, [Next]_vars PROVE IInv'
    <2>1. CASE UNCHANGED vars
      BY <1>2, <2>1 DEF IInv, TypeOK, TokenInv, DiskInv, HandedTokenWorks, RequestsInv,
        RequestInv, vars,
         service, clocks, history
    <2>2. CASE Next
      BY <1>2, <2>2, TypesKept, TokensKept, DiskKept, HandedKept, RequestsKept DEF IInv
    <2>3. QED BY <1>2, <2>1, <2>2
  <1>3. QED BY <1>1, <1>2, PTL DEF Spec

\* And the clocks.
THEOREM ClocksInvariant ==
    ASSUME MaySetClock = FALSE
    PROVE  Spec => []ClockInv
  <1>1. ASSUME Init PROVE ClockInv
    BY <1>1 DEF Init, ClockInv, SavedStateLoads, NoOp, NoFile, Corrupt, NoTime
  <1>2. ASSUME IInv, ClockInv, [Next]_vars PROVE ClockInv'
    <2>1. CASE UNCHANGED vars
      BY <1>2, <2>1 DEF ClockInv, SavedStateLoads, vars, service, clocks
    <2>2. CASE Next BY <1>2, <2>2, ClocksKept
    <2>3. QED BY <1>2, <2>1, <2>2
  <1>3. QED BY <1>1, <1>2, InductiveInvariant, PTL DEF Spec

(* Every variable keeps its type.                                          *)
THEOREM TypeCorrect == Spec => []TypeOK
  BY InductiveInvariant, PTL DEF IInv

(* Over any number of mutations, failed writes and restarts, the token     *)
(* last handed out works unless its file could not be read.                *)
THEOREM TokenWorks == Spec => []HandedTokenWorks
  BY InductiveInvariant, PTL DEF IInv

(* A request is never accepted with a token that was dead when it arrived, *)
(* nor refused with one that is valid throughout.                          *)
THEOREM RightAnswers == Spec => []AnswersAreRight
  <1>1. IInv => AnswersAreRight
    BY DEF IInv, RequestsInv, RequestInv, AnswersAreRight
  <1>2. QED BY <1>1, InductiveInvariant, PTL

(* As long as nobody sets the clock back while the process runs, the next  *)
(* start can load what was saved.                                          *)
THEOREM SavedLoads ==
    ASSUME MaySetClock = FALSE
    PROVE  Spec => []SavedStateLoads
  BY ClocksInvariant, PTL DEF ClockInv
=============================================================================
