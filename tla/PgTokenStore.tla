---------------------------- MODULE PgTokenStore ----------------------------
(***************************************************************************)
(* The token store on PostgreSQL, statement by statement at READ COMMITTED *)
(* isolation, as postgres.go issues them.  Every statement sees what was   *)
(* committed when it began; a row it locks or writes it sees as last       *)
(* committed, once the locks in its way are gone.  A transaction's writes  *)
(* show at its commit, and its row locks go with it.                       *)
(*                                                                         *)
(* tokens and users are the committed rows.  The row locks, their conflict *)
(* table, the order in which a statement meets its rows (any) and the      *)
(* deadlock detector are PostgreSQL's.                                     *)
(***************************************************************************)
EXTENDS TokenStore, FiniteSets

CONSTANTS Proc, Times, Expiry

\* Times are comparable, and the rows of the two tables are different rows.
ASSUME PgAssumption == /\ Times \subseteq Int
                       /\ Expiry \in Int
                       /\ Hash \cap User = {}
                       /\ NoHash \notin User

VARIABLES users, tokens, drawn,
          proc,      \* the call and the transaction of each connection
          locks      \* the row locks held: [row, mode, by]

vars == <<users, tokens, drawn, proc, locks>>

\* The call, as the service sees it.
Abstract(q) == [op |-> q.op, hash |-> q.hash, user |-> q.user, parent |-> q.parent, at |-> q.at,
                answer |-> q.answer, seen |-> q.seen]

Atomic == INSTANCE AtomicTokenStore WITH call <- [p \in Proc |-> Abstract(proc[p])]

\* A connection: the call c, its next step pc, and of the statement it is in the
\* row cur it is at, the rows rest it has still to visit, and the rows done it
\* has written in this transaction.
Connection(c, pc) == [op |-> c.op, hash |-> c.hash, user |-> c.user, parent |-> c.parent,
                      at |-> c.at, answer |-> c.answer, seen |-> c.seen,
                      pc |-> pc, cur |-> NoHash, rest |-> {}, done |-> {}]

Init == /\ users = User
        /\ tokens = [h \in Hash |-> NoToken]
        /\ drawn = {}
        /\ proc = [p \in Proc |-> Connection(Atomic!NoCall, "idle")]
        /\ locks = {}

-----------------------------------------------------------------------------
(* PostgreSQL *)

\* Which row-lock modes exclude each other.
Conflicts(mode) ==
  CASE mode = "KEY SHARE"     -> {"UPDATE"}
    [] mode = "SHARE"         -> {"NO KEY UPDATE", "UPDATE"}
    [] mode = "NO KEY UPDATE" -> {"SHARE", "NO KEY UPDATE", "UPDATE"}
    [] mode = "UPDATE"        -> {"KEY SHARE", "SHARE", "NO KEY UPDATE", "UPDATE"}

\* The connections that keep p from locking row.
Blockers(p, row, mode) ==
  {l.by : l \in {k \in locks : k.row = row /\ k.by # p /\ k.mode \in Conflicts(mode)}}

Free(p, row, mode) == Blockers(p, row, mode) = {}

Lock(p, row, mode) == locks' = locks \cup {[row |-> row, mode |-> mode, by |-> p]}

\* The transaction, or the single statement, is over: the call is answered, or
\* its answer is lost.
Answer(p, a, seen) ==
  /\ \E c \in {Atomic!Returned(a, seen), Atomic!Returned("error", NoToken)} :
       proc' = [proc EXCEPT ![p] = Connection(c, "idle")]
  /\ locks' = {l \in locks : l.by # p}

\* The statement of p goes on to another row of rest, or ends.
Visit(p, rest, done) ==
  \/ /\ rest # {}
     /\ \E h \in rest : proc' = [proc EXCEPT ![p] = [@ EXCEPT !.pc = "row", !.cur = h,
                                                             !.rest = rest \ {h}, !.done = done]]
  \/ /\ rest = {}
     /\ proc' = [proc EXCEPT ![p] = [@ EXCEPT !.pc = "commit", !.cur = NoHash,
                                             !.rest = {}, !.done = done]]

GoTo(p, pc) == proc' = [proc EXCEPT ![p].pc = pc]

-----------------------------------------------------------------------------
(* The calls *)

FirstStep(c) == CASE c.op = "Save"   -> IF c.parent = NoHash THEN "insert" ELSE "lockShare"
                  [] c.op = "Rotate" -> "update"
                  [] c.op = "Family" -> "query"
                  [] c.op = "Revoke" -> "lockUpdate"
                  [] c.op = "Delete" -> "delete"

Call(p, c) == /\ proc[p].answer # "none"
              /\ proc' = [proc EXCEPT ![p] = Connection(c, FirstStep(c))]
              /\ drawn' = IF c.op = "Save" THEN drawn \cup {c.hash} ELSE drawn
              /\ UNCHANGED <<users, tokens, locks>>

\* Mutant: the refusal leaves the transaction open, and its lock held.
SaveLockRootLeaking(p) ==
  LET f == proc[p].parent IN
  /\ proc[p].pc = "lockShare"
  /\ \/ /\ ~Stored(tokens, f)
        /\ Answer(p, "TokenRevoked", NoToken)
     \/ /\ Stored(tokens, f) /\ tokens[f].ended
        /\ Free(p, f, "SHARE")
        /\ Lock(p, f, "SHARE")
        /\ proc' = [proc EXCEPT ![p] = Connection(Atomic!Returned("TokenRevoked", NoToken), "idle")]
     \/ /\ Stored(tokens, f) /\ ~tokens[f].ended
        /\ Free(p, f, "SHARE")
        /\ Lock(p, f, "SHARE")
        /\ GoTo(p, "insert")
  /\ UNCHANGED <<users, tokens, drawn>>

\* SaveRefreshToken of a successor: SELECT ended_at ... FOR SHARE on the root.
SaveLockRoot(p) ==
  LET f == proc[p].parent IN
  /\ proc[p].pc = "lockShare"
  /\ \/ /\ ~Stored(tokens, f)
        /\ Answer(p, "TokenRevoked", NoToken)
     \/ /\ Stored(tokens, f) /\ tokens[f].ended
        /\ Free(p, f, "SHARE")
        /\ Answer(p, "TokenRevoked", NoToken)
     \/ /\ Stored(tokens, f) /\ ~tokens[f].ended
        /\ Free(p, f, "SHARE")
        /\ Lock(p, f, "SHARE")
        /\ GoTo(p, "insert")
  /\ UNCHANGED <<users, tokens, drawn>>

\* SaveRefreshToken: INSERT.  The foreign key locks the user row FOR KEY SHARE.
\* A root token is inserted in a transaction of its own.
SaveInsert(p) ==
  LET q == proc[p] IN
  /\ q.pc = "insert"
  /\ Free(p, q.user, "KEY SHARE")
  /\ \/ /\ q.user \notin users
        /\ Answer(p, "UserNotFound", NoToken)
        /\ UNCHANGED tokens
     \/ /\ q.user \in users /\ q.parent = NoHash
        /\ tokens' = SaveRefreshToken(tokens, q.hash, q.user, NoHash, Expiry)
        /\ Answer(p, "ok", NoToken)
     \/ /\ q.user \in users /\ q.parent # NoHash
        /\ Lock(p, q.user, "KEY SHARE")
        /\ GoTo(p, "commit")
        /\ UNCHANGED tokens
  /\ UNCHANGED <<users, drawn>>

SaveCommit(p) ==
  LET q == proc[p] IN
  /\ q.op = "Save" /\ q.pc = "commit"
  /\ tokens' = SaveRefreshToken(tokens, q.hash, q.user, q.parent, Expiry)
  /\ Answer(p, "ok", NoToken)
  /\ UNCHANGED <<users, drawn>>

\* RotateRefreshToken: UPDATE ... WHERE hash AND NOT revoked AND expires_at > now.
RotateUpdate(p) ==
  LET h == proc[p].hash  now == proc[p].at IN
  /\ proc[p].pc = "update"
  /\ \/ /\ CanRotate(tokens, h, now)
        /\ Free(p, h, "NO KEY UPDATE")
        /\ tokens' = RotateRefreshToken(tokens, h, now)
        /\ Answer(p, "ok", tokens'[h])
     \/ /\ ~CanRotate(tokens, h, now)
        /\ GoTo(p, "read")
        /\ UNCHANGED <<tokens, locks>>
  /\ UNCHANGED <<users, drawn>>

\* RotateRefreshToken: no row was updated, and GetRefreshToken is to say why.  A
\* row that is not revoked is taken for expired.
RotateRead(p) ==
  LET h == proc[p].hash IN
  /\ proc[p].pc = "read"
  /\ Answer(p, CASE ~Stored(tokens, h) -> "TokenNotFound"
                 [] IsRevoked(tokens, h) -> "TokenRevoked"
                 [] OTHER -> "TokenExpired", tokens[h])
  /\ UNCHANGED <<users, tokens, drawn>>

\* GetRefreshFamily: one SELECT.
FamilyQuery(p) ==
  LET f == proc[p].hash IN
  /\ proc[p].pc = "query"
  /\ Answer(p, "ok", [ended |-> SessionEnded(tokens, f), rotations |-> Rotations(tokens, f)])
  /\ UNCHANGED <<users, tokens, drawn>>

\* Mutant: the UPDATE alone, without the statement that locks the root first.
RevokeLockNothing(p) ==
  /\ proc[p].pc = "lockUpdate"
  /\ GoTo(p, "snapshot")
  /\ UNCHANGED <<users, tokens, drawn, locks>>

\* RevokeTokens: SELECT 1 ... FOR UPDATE on the root, if there is one.
RevokeLock(p) ==
  LET f == proc[p].hash IN
  /\ proc[p].pc = "lockUpdate"
  /\ \/ /\ Stored(tokens, f)
        /\ Free(p, f, "UPDATE")
        /\ Lock(p, f, "UPDATE")
     \/ /\ ~Stored(tokens, f)
        /\ UNCHANGED locks
  /\ GoTo(p, "snapshot")
  /\ UNCHANGED <<users, tokens, drawn>>

\* RevokeTokens: UPDATE ... WHERE hash = $1 OR parent = $1.
RevokeUpdate(p) ==
  /\ proc[p].op = "Revoke" /\ proc[p].pc = "snapshot"
  /\ Visit(p, {h \in Hash : Member(tokens, proc[p].hash, h)}, {})
  /\ UNCHANGED <<users, tokens, drawn, locks>>

RevokeCommit(p) ==
  /\ proc[p].op = "Revoke" /\ proc[p].pc = "commit"
  /\ tokens' = [h \in Hash |-> IF h \in proc[p].done
                                 THEN [tokens[h] EXCEPT !.revoked = TRUE, !.ended = TRUE]
                                 ELSE tokens[h]]
  /\ Answer(p, "ok", NoToken)
  /\ UNCHANGED <<users, drawn>>

\* Delete: DELETE FROM users.
DeleteUserRow(p) ==
  LET u == proc[p].user IN
  /\ proc[p].pc = "delete"
  /\ \/ /\ u \notin users
        /\ Answer(p, "UserNotFound", NoToken)
     \/ /\ u \in users
        /\ Free(p, u, "UPDATE")
        /\ Lock(p, u, "UPDATE")
        /\ GoTo(p, "snapshot")
  /\ UNCHANGED <<users, tokens, drawn>>

\* Delete: the cascade to refresh_tokens, a DELETE of its own.
DeleteCascade(p) ==
  /\ proc[p].op = "Delete" /\ proc[p].pc = "snapshot"
  /\ Visit(p, {h \in Hash : Stored(tokens, h) /\ tokens[h].user = proc[p].user}, {})
  /\ UNCHANGED <<users, tokens, drawn, locks>>

DeleteCommit(p) ==
  /\ proc[p].op = "Delete" /\ proc[p].pc = "commit"
  /\ users' = users \ {proc[p].user}
  /\ tokens' = [h \in Hash |-> IF h \in proc[p].done THEN NoToken ELSE tokens[h]]
  /\ Answer(p, "ok", NoToken)
  /\ UNCHANGED drawn

\* The mode in which a statement locks the rows it writes.
RowMode(q) == IF q.op = "Delete" THEN "UPDATE" ELSE "NO KEY UPDATE"

\* The statement reaches a row of its snapshot: it writes the row, or skips it
\* if it was deleted meanwhile.
WriteRow(p) ==
  LET q == proc[p] IN
  /\ q.pc = "row"
  /\ \/ /\ Stored(tokens, q.cur)
        /\ Free(p, q.cur, RowMode(q))
        /\ Lock(p, q.cur, RowMode(q))
        /\ Visit(p, q.rest, q.done \cup {q.cur})
     \/ /\ ~Stored(tokens, q.cur)
        /\ Visit(p, q.rest, q.done)
        /\ UNCHANGED locks
  /\ UNCHANGED <<users, tokens, drawn>>

-----------------------------------------------------------------------------

\* The row, and the lock on it, that the next step of p needs.
Wanted(q) ==
  CASE q.pc = "lockShare"  -> <<q.parent, "SHARE">>
    [] q.pc = "insert"     -> <<q.user, "KEY SHARE">>
    [] q.pc = "update"     -> <<q.hash, "NO KEY UPDATE">>
    [] q.pc = "lockUpdate" -> <<q.hash, "UPDATE">>
    [] q.pc = "delete"     -> <<q.user, "UPDATE">>
    [] q.pc = "row"        -> <<q.cur, RowMode(q)>>
    [] OTHER               -> <<NoHash, "SHARE">>

WaitsFor(p, q) == q \in Blockers(p, Wanted(proc[p])[1], Wanted(proc[p])[2])

\* Every member of S waits for another one of S.
WaitInCircle(S) == \A p \in S : \E q \in S : WaitsFor(p, q)

\* The deadlock detector aborts a transaction of a circle.
DeadlockAbort(p) ==
  /\ \E S \in SUBSET Proc : /\ p \in S
                            /\ WaitInCircle(S)
                            /\ \E q \in S : WaitsFor(q, p)
  /\ Answer(p, "error", NoToken)
  /\ UNCHANGED <<users, tokens, drawn>>

\* The statement times out, the caller's context is cancelled, or the
\* connection breaks: the transaction is rolled back.
Cancel(p) == /\ proc[p].answer = "none"
             /\ Answer(p, "error", NoToken)
             /\ UNCHANGED <<users, tokens, drawn>>

Step(p) == \/ SaveLockRoot(p) \/ SaveInsert(p) \/ SaveCommit(p)
           \/ RotateUpdate(p) \/ RotateRead(p) \/ FamilyQuery(p)
           \/ RevokeLock(p) \/ RevokeUpdate(p) \/ RevokeCommit(p)
           \/ DeleteUserRow(p) \/ DeleteCascade(p) \/ DeleteCommit(p)
           \/ WriteRow(p)

Next == \E p \in Proc : \/ \E c \in Atomic!Calls : Call(p, c)
                        \/ Step(p)
                        \/ DeadlockAbort(p)
                        \/ Cancel(p)

\* PostgreSQL runs every statement that can run, grants row locks in the order
\* they are asked for, so that a waiter's turn comes, and finds deadlocks.
\* Nothing makes a call time out.
Fairness == \A p \in Proc : SF_vars(Step(p)) /\ WF_vars(DeadlockAbort(p))

Spec == Init /\ [][Next]_vars
FairSpec == Spec /\ Fairness

-----------------------------------------------------------------------------

\* The statements and locks of postgres.go make every call atomic: a successor
\* is refused or seen by the revocation it races with ("the two serialise"),
\* the read after a failed rotation does not contradict the UPDATE, and a
\* user's deletion leaves no token of the user behind.
ImplementsAtomic == Atomic!Spec

\* Only the deletion of a user can deadlock.  Saves, rotations and revocations
\* lock a family's root first and then only forward, so a refresh or a logout
\* fails with a deadlock only if the user is being deleted.
DeadlocksNeedADelete ==
  \A S \in SUBSET {p \in Proc : proc[p].op # "Delete"} : WaitInCircle(S) => S = {}

\* Every call is answered: no call waits for ever on a lock, and no finished
\* call leaves a lock behind (pgx.BeginFunc commits or rolls back on every path).
EveryCallIsAnswered == \A p \in Proc : proc[p].answer = "none" ~> proc[p].answer # "none"
=============================================================================
