------------------------------- MODULE PgPATs -------------------------------
(***************************************************************************)
(* Personal access tokens on PostgreSQL: the handlers that create, list,   *)
(* revoke and verify them, call by call, and the transaction of            *)
(* SavePATLimited statement by statement at READ COMMITTED isolation.      *)
(*                                                                         *)
(* SavePATLimited is the only transaction of several statements here.  It  *)
(* holds the user's row FOR NO KEY UPDATE, which the deletion of the user  *)
(* and other creates wait for, and the rows it has pruned, which a touch   *)
(* or a revocation of those rows waits for.  The row locks are             *)
(* PostgreSQL's; every other call is one statement of PostgresStore.       *)
(***************************************************************************)
EXTENDS Stores, Responses, FiniteSets

CONSTANTS Request,         \* goroutines serving requests
          MaxPerUser,      \* PATConfig: the cap, 0 for none
          MaxTTL,          \* PATConfig: the longest life, 0 for unlimited
          TouchInterval,   \* PATConfig: how stale last_used_at may be; < 0 touches always
          MaxClock         \* bound on the clock

ASSUME PgPATsAssumption == /\ MaxPerUser \in Nat
                           /\ MaxTTL \in Nat
                           /\ TouchInterval \in Int
                           /\ MaxClock \in Nat
                           /\ Nil \notin Request \cup Pat

VARIABLES db,       \* the committed rows
          lock,     \* the transaction that holds a user's row, or Nil
          req,      \* the requests
          made,     \* tokens ever stored, with their owners
          gone,     \* tokens whose owner was told they are revoked, or is deleted
          clock

vars == <<db, lock, req, made, gone, clock>>

Pg == INSTANCE PostgresStore

\* A request: the caller's user (of the session's claims), the token it is about,
\* its row once read, and what its transaction has done so far.
Idle == [pc |-> "idle", user |-> Nil, pat |-> Nil, expires |-> Nil, now |-> 0,
         row |-> Nil, pruned |-> {}, fits |-> FALSE, late |-> FALSE, answer |-> "OK"]

Init == /\ db = [Pg!Tables EXCEPT !.users = {[id |-> u, email |-> NoEmail] : u \in User}]
        /\ lock = [u \in User |-> Nil]
        /\ req = [r \in Request |-> Idle]
        /\ made = {}
        /\ gone = {}
        /\ clock = 0

\* The rows a user holds, and those a create at now deletes first.
Held(u) == {t \in db.pats : t.user = u}
PrunedAt(u, now) == {t \in Held(u) : Expired(t, now)}

-----------------------------------------------------------------------------

At(r, pc) == req[r].pc = pc

GoTo(r, pc) == req' = [req EXCEPT ![r].pc = pc]

\* The request is answered, and its transaction over.
Answer(r, code) ==
  /\ req' = [req EXCEPT ![r] = [Idle EXCEPT !.late = req[r].late, !.answer = code]]
  /\ lock' = [u \in User |-> IF lock[u] = r THEN Nil ELSE lock[u]]

\* The answer to a call that writes may be lost on the way from the store.
Written(r, code) == \E c \in {code, internalError} : Answer(r, c)

\* A handler answers without a write.
Reply(r, code) == /\ At(r, "idle")
                  /\ req' = [req EXCEPT ![r] = [Idle EXCEPT !.answer = code]]
                  /\ UNCHANGED <<db, lock, made, gone, clock>>

Begin(r, q) == /\ At(r, "idle")
               /\ req' = [req EXCEPT ![r] = q]
               /\ UNCHANGED <<db, lock, made, gone, clock>>

\* authenticateSession: the credential a request presents, and the code it is
\* refused with.  Only an access token of a session may manage tokens.
Credentials == {"session", "pat", "invalid", "none"}

authenticateSession(cred) == CASE cred = "session" -> "OK"
                               [] cred = "pat"     -> "PermissionDenied"
                               [] cred = "invalid" -> verifyErrorToConnect({"InvalidCredentials"})
                               [] cred = "none"    -> "Unauthenticated"

Unauthenticated(r) == \E cred \in Credentials \ {"session"} : Reply(r, authenticateSession(cred))

-----------------------------------------------------------------------------
(* CreatePersonalAccessToken *)

\* CreatePAT: the checks of the name and of the expiry, against one reading of
\* the clock.
CreateErrors(name, expires) ==
  CASE name = "blank" -> {"PATNameRequired"}
    [] name = "long"  -> {"PATNameTooLong"}
    [] name = "good" /\ expires # Nil /\ (IF expires > clock
                                            THEN MaxTTL > 0 /\ expires - clock > MaxTTL
                                            ELSE TRUE) -> {"PATExpiryInvalid"}
    [] name = "good" /\ expires = Nil /\ MaxTTL > 0 -> {"PATExpiryInvalid"}
    [] OTHER -> {}

\* The token is drawn at random: it was never drawn before.
CreatePAT(r, u, name, expires) ==
  LET q == [Idle EXCEPT !.pc = IF MaxPerUser > 0 THEN "lock" ELSE "save",
                        !.user = u, !.expires = expires, !.now = clock]
      err == CreateErrors(name, expires)
      drawn == {t.pat : t \in made} \cup {req[x].pat : x \in Request} IN
  \/ err # {} /\ Reply(r, patErrorToConnect(err))
  \/ err = {} /\ \E p \in Pat \ drawn : Begin(r, [q EXCEPT !.pat = p])

Row(q) == [pat |-> q.pat, user |-> q.user, expires |-> q.expires, used |-> Nil, created |-> q.now]

\* SavePAT, where there is no cap.
SavePAT(r) ==
  LET q == req[r]  saved == Pg!SavePAT(db, Row(q)) IN
  /\ At(r, "save")
  /\ db' = saved.store
  /\ made' = IF saved.err = "nil" THEN made \cup {[pat |-> q.pat, user |-> q.user]} ELSE made
  /\ Written(r, IF saved.err = "nil" THEN "OK" ELSE patErrorToConnect({saved.err}))
  /\ UNCHANGED <<gone, clock>>

\* Mutant: the conditional INSERT alone, without the lock.
LockUserNot(r) ==
  /\ At(r, "lock")
  /\ \/ /\ ~Pg!Has(db.users, "id", req[r].user)
        /\ Answer(r, patErrorToConnect({"UserNotFound"}))
     \/ /\ Pg!Has(db.users, "id", req[r].user)
        /\ GoTo(r, "prune")
        /\ UNCHANGED lock
  /\ UNCHANGED <<db, made, gone, clock>>

\* lockUser: SELECT ... FOR NO KEY UPDATE.
LockUser(r) ==
  LET u == req[r].user IN
  /\ At(r, "lock")
  /\ \/ /\ ~Pg!Has(db.users, "id", u)
        /\ Answer(r, patErrorToConnect({"UserNotFound"}))
     \/ /\ Pg!Has(db.users, "id", u)
        /\ lock[u] = Nil
        /\ lock' = [lock EXCEPT ![u] = r]
        /\ GoTo(r, "prune")
  /\ UNCHANGED <<db, made, gone, clock>>

\* Mutant: expires_at <= now.
PruneEarly(r) ==
  /\ At(r, "prune")
  /\ req' = [req EXCEPT ![r] = [@ EXCEPT !.pc = "insert",
                                         !.pruned = {t \in Held(req[r].user) : t.expires # Nil /\ t.expires <= req[r].now}]]
  /\ UNCHANGED <<db, lock, made, gone, clock>>

\* DELETE ... WHERE user_id AND expires_at < now.
Prune(r) ==
  /\ At(r, "prune")
  /\ req' = [req EXCEPT ![r] = [@ EXCEPT !.pc = "insert",
                                         !.pruned = PrunedAt(req[r].user, req[r].now)]]
  /\ UNCHANGED <<db, lock, made, gone, clock>>

\* INSERT ... WHERE (SELECT count(*) ...) < limit.
Insert(r) ==
  /\ At(r, "insert")
  /\ req' = [req EXCEPT ![r] = [@ EXCEPT
       !.pc = "commit",
       !.fits = Cardinality(Held(req[r].user) \ req[r].pruned) < MaxPerUser]]
  /\ UNCHANGED <<db, lock, made, gone, clock>>

\* The commit, also of a refusal: "the prune is worth keeping".
Commit(r) ==
  LET q == req[r] IN
  /\ At(r, "commit")
  /\ db' = [db EXCEPT !.pats = (@ \ q.pruned) \cup (IF q.fits THEN {Row(q)} ELSE {})]
  /\ made' = IF q.fits THEN made \cup {[pat |-> q.pat, user |-> q.user]} ELSE made
  /\ Written(r, IF q.fits THEN "OK" ELSE patErrorToConnect({"PATLimitReached"}))
  /\ UNCHANGED <<gone, clock>>

-----------------------------------------------------------------------------
(* ListPersonalAccessTokens and RevokePersonalAccessToken *)

\* A row pruned by an open transaction is locked.
Unlocked(p) == \A x \in Request : \A t \in req[x].pruned : t.pat # p

\* ListPATs: one SELECT, whose answer changes nothing.
ListPATs(r, u) == Reply(r, IF Pg!ListPATs(db, u).err = "nil" THEN "OK" ELSE internalError)

\* RevokePAT: an id that is no UUID (Nil) is not found without asking the store.
RevokePAT(r, u, p) ==
  \/ p = Nil /\ Reply(r, patErrorToConnect({"PATNotFound"}))
  \/ p # Nil /\ Begin(r, [Idle EXCEPT !.pc = "revoke", !.user = u, !.pat = p])

DeletePAT(r) ==
  LET q == req[r]  deleted == Pg!DeletePAT(db, q.user, q.pat) IN
  /\ At(r, "revoke")
  /\ Unlocked(q.pat)
  /\ db' = deleted.store
  /\ Written(r, IF deleted.err = "nil" THEN "OK" ELSE patErrorToConnect({"PATNotFound"}))
  /\ gone' = IF req'[r].answer # internalError
               THEN gone \cup ({[pat |-> q.pat, user |-> q.user]} \cap made) ELSE gone
  /\ UNCHANGED <<made, clock>>

-----------------------------------------------------------------------------
(* Verify *)

\* A bearer of an access token, or of a personal one, which starts with its prefix.
Verify(r, cred) ==
  \/ /\ cred # "pat"
     /\ Reply(r, CASE cred = "session" -> "OK"
                   [] cred = "invalid" -> verifyErrorToConnect({"InvalidCredentials"})
                   [] cred = "none"    -> "Unauthenticated")
  \/ /\ cred = "pat"
     /\ \E t \in made : Begin(r, [Idle EXCEPT !.pc = "get", !.pat = t.pat, !.late = t \in gone])

\* verifyPAT: GetPAT and the check of its expiry.
GetPAT(r) ==
  LET got == Pg!GetPAT(db, req[r].pat) IN
  /\ At(r, "get")
  /\ \/ /\ IF got.err = "nil" THEN Expired(got.val, clock) ELSE TRUE
        /\ Answer(r, verifyErrorToConnect({"InvalidCredentials"}))
     \/ /\ got.err = "nil" /\ ~Expired(got.val, clock)
        /\ req' = [req EXCEPT ![r] = [@ EXCEPT !.pc = "user", !.row = got.val]]
        /\ UNCHANGED lock
  /\ UNCHANGED <<db, made, gone, clock>>

\* The row is touched unless it was, less than TouchInterval ago.
WantsTouch(row) == \/ TouchInterval < 0
                   \/ IF row.used = Nil THEN TRUE ELSE clock - row.used >= TouchInterval

GetUser(r) ==
  LET got == Pg!GetByID(db, req[r].row.user) IN
  /\ At(r, "user")
  /\ \/ /\ got.err # "nil"
        /\ Answer(r, verifyErrorToConnect({"InvalidCredentials"}))
     \/ /\ got.err = "nil" /\ ~WantsTouch(req[r].row)
        /\ Answer(r, "OK")
     \/ /\ got.err = "nil" /\ WantsTouch(req[r].row)
        /\ req' = [req EXCEPT ![r] = [@ EXCEPT !.pc = "touch", !.now = clock]]
        /\ UNCHANGED lock
  /\ UNCHANGED <<db, made, gone, clock>>

\* Mutant: the touch writes the row back instead of updating it.
TouchPATSaving(r) ==
  /\ At(r, "touch")
  /\ Unlocked(req[r].pat)
  /\ db' = [db EXCEPT !.pats = {t \in @ : t.pat # req[r].pat} \cup {[req[r].row EXCEPT !.used = req[r].now]}]
  /\ Answer(r, "OK")
  /\ UNCHANGED <<made, gone, clock>>

\* TouchPAT: an UPDATE, whose failure is ignored.
TouchPAT(r) ==
  /\ At(r, "touch")
  /\ Unlocked(req[r].pat)
  /\ db' \in {db, Pg!TouchPAT(db, req[r].pat, req[r].now).store}
  /\ Answer(r, "OK")
  /\ UNCHANGED <<made, gone, clock>>

-----------------------------------------------------------------------------

\* UserStore.Delete, called from elsewhere; it waits for the row.
DeleteUser(u) ==
  /\ lock[u] = Nil
  /\ Pg!Has(db.users, "id", u)
  /\ db' = Pg!Delete(db, u).store
  /\ gone' = gone \cup {t \in made : t.user = u}
  /\ UNCHANGED <<lock, req, made, clock>>

\* A call fails before it has an effect: a broken connection, a timeout, the
\* request's context.  The transaction is rolled back.
Cancel(r) == /\ req[r].pc \notin {"idle", "touch"}
             /\ Answer(r, internalError)
             /\ UNCHANGED <<db, made, gone, clock>>

Tick == /\ clock < MaxClock
        /\ clock' = clock + 1
        /\ UNCHANGED <<db, lock, req, made, gone>>

Handle(r) ==
  \/ Unauthenticated(r)
  \/ \E u \in User :
       \/ \E name \in {"good", "blank", "long"}, expires \in {Nil} \cup 0..(MaxClock + 1) :
            CreatePAT(r, u, name, expires)
       \/ ListPATs(r, u)
       \/ \E p \in {t.pat : t \in made} \cup {Nil} : RevokePAT(r, u, p)
  \/ \E cred \in Credentials : Verify(r, cred)

Step(r) == \/ SavePAT(r) \/ LockUser(r) \/ Prune(r) \/ Insert(r) \/ Commit(r)
           \/ DeletePAT(r) \/ GetPAT(r) \/ GetUser(r) \/ TouchPAT(r) \/ Cancel(r)

Next == \/ \E r \in Request : Handle(r) \/ Step(r)
        \/ \E u \in User : DeleteUser(u)
        \/ Tick

Spec == Init /\ [][Next]_vars

-----------------------------------------------------------------------------

\* The cap holds however creates overlap: "counting here first would let parallel
\* creates all pass at limit-1" (CreatePAT).
CapHolds == MaxPerUser > 0 => \A u \in User : Cardinality(Held(u)) <= MaxPerUser

\* A token whose owner was told that it is revoked, or whose owner is deleted, is
\* accepted by no verification that starts afterwards, whatever verification,
\* touch or create was under way.
RevokedStaysRejected ==
  \A r \in Request :
    req[r].late => \/ req[r].pc = "get"
                   \/ req[r].pc = "idle" /\ req[r].answer # "OK"

\* A token leaves the store only if verifyPAT would reject it for its expiry, or
\* by the owner's DeletePAT, or with its user: pruning never takes one in use.
PrunedWasExpired ==
  [][\A t \in db.pats : \/ t.pat \in {x.pat : x \in db'.pats}
                        \/ Expired(t, clock)
                        \/ ~Pg!Has(db'.users, "id", t.user)
                        \/ \E r \in Request : /\ At(r, "revoke")
                                              /\ req[r].user = t.user /\ req[r].pat = t.pat]_vars
=============================================================================
