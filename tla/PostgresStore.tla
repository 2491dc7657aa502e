--------------------------- MODULE PostgresStore ----------------------------
(***************************************************************************)
(* The PostgreSQL store, one statement or transaction per call, each taken *)
(* as atomic; what happens between the statements of a transaction is the  *)
(* business of PgTokenStore and PgPATs.  A table is a set of rows.  Unique *)
(* indexes are checked as a row goes in, foreign keys once it is in, so a  *)
(* row that violates both is reported as a duplicate.                      *)
(***************************************************************************)
EXTENDS Stores, FiniteSets

\* The tables of schema.hcl.
Tables == [users       |-> {},   \* id, email
           credentials |-> {},   \* user, hash
           pats        |-> {},   \* pat, user, expires, used, created
           oauth       |-> {},   \* account, user, created
           wallets     |-> {},   \* wallet, user, created
           challenges  |-> {}]   \* nonce, expires, what it is for

\* A row of tbl has v in column col.
Has(tbl, col, v) == \E r \in tbl : r[col] = v

\* isDuplicateKeyError: SQLSTATE 23505, a unique column holds the value already.
UniqueViolation(tbl, col, v) == Has(tbl, col, v)

\* insertError: SQLSTATE 23503, the row's user does not exist.
ForeignKeyViolation(s, u) == ~Has(s.users, "id", u)

\* SELECT ... WHERE col = v on a unique column, or pgx.ErrNoRows.
QueryRow(tbl, col, v) == CHOOSE r \in tbl : r[col] = v

\* SELECT ... WHERE user_id = u ORDER BY created_at DESC: per time, its rows.
QueryOwned(s, tbl, u, col) ==
  LET rows == {r \in tbl : r.user = u} IN
  Found(s, [t \in {r.created : r \in rows} |-> {r[col] : r \in {x \in rows : x.created = t}}])

-----------------------------------------------------------------------------
(* UserStore *)

\* An empty email is stored as NULL, which the partial unique index leaves out.
Create(s, u, e) ==
  IF \/ UniqueViolation(s.users, "id", u)
     \/ e # NoEmail /\ UniqueViolation(s.users, "email", e)
    THEN Fail(s, "UserExists")
    ELSE Done([s EXCEPT !.users = @ \cup {[id |-> u, email |-> e]}])

GetByID(s, u) ==
  IF Has(s.users, "id", u) THEN Found(s, QueryRow(s.users, "id", u).email)
                           ELSE Fail(s, "UserNotFound")

GetByEmail(s, e) ==
  IF e # NoEmail /\ Has(s.users, "email", e) THEN Found(s, QueryRow(s.users, "email", e).id)
                                             ELSE Fail(s, "UserNotFound")

\* ON DELETE CASCADE of every fk_user.
Cascade(tbl, u) == {r \in tbl : r.user # u}

Delete(s, u) ==
  IF ~Has(s.users, "id", u) THEN Fail(s, "UserNotFound")
  ELSE Done([s EXCEPT !.users = {r \in @ : r.id # u},
                      !.credentials = Cascade(@, u),
                      !.pats = Cascade(@, u),
                      !.oauth = Cascade(@, u),
                      !.wallets = Cascade(@, u)])

-----------------------------------------------------------------------------
(* CredentialStore *)

\* INSERT ... ON CONFLICT (user_id) DO UPDATE.
SavePasswordHash(s, u, hash) ==
  IF ForeignKeyViolation(s, u) THEN Fail(s, "UserNotFound")
  ELSE Done([s EXCEPT !.credentials = Cascade(@, u) \cup {[user |-> u, hash |-> hash]}])

GetPasswordHash(s, u) ==
  IF Has(s.credentials, "user", u) THEN Found(s, QueryRow(s.credentials, "user", u).hash)
                                   ELSE Fail(s, "CredentialNotFound")

-----------------------------------------------------------------------------
(* OAuthIdentityStore and WalletIdentityStore *)

SaveOAuthIdentity(s, a, u, now) ==
  IF UniqueViolation(s.oauth, "account", a) THEN Fail(s, "OAuthIdentityExists")
  ELSE IF ForeignKeyViolation(s, u) THEN Fail(s, "UserNotFound")
  ELSE Done([s EXCEPT !.oauth = @ \cup {[account |-> a, user |-> u, created |-> now]}])

GetOAuthIdentity(s, a) ==
  IF Has(s.oauth, "account", a) THEN Found(s, QueryRow(s.oauth, "account", a).user)
                                ELSE Fail(s, "OAuthIdentityNotFound")

ListOAuthIdentities(s, u) == QueryOwned(s, s.oauth, u, "account")

SaveWalletIdentity(s, w, u, now) ==
  IF UniqueViolation(s.wallets, "wallet", w) THEN Fail(s, "WalletIdentityExists")
  ELSE IF ForeignKeyViolation(s, u) THEN Fail(s, "UserNotFound")
  ELSE Done([s EXCEPT !.wallets = @ \cup {[wallet |-> w, user |-> u, created |-> now]}])

GetWalletIdentity(s, w) ==
  IF Has(s.wallets, "wallet", w) THEN Found(s, QueryRow(s.wallets, "wallet", w).user)
                                 ELSE Fail(s, "WalletIdentityNotFound")

ListWalletIdentities(s, u) == QueryOwned(s, s.wallets, u, "wallet")

-----------------------------------------------------------------------------
(* PATStore *)

\* patSaveError: the row goes in, or which constraint it violates.
InsertPAT(s, row) ==
  IF UniqueViolation(s.pats, "pat", row.pat) THEN Fail(s, "PATExists")
  ELSE IF ForeignKeyViolation(s, row.user) THEN Fail(s, "UserNotFound")
  ELSE Done([s EXCEPT !.pats = @ \cup {row}])

SavePAT(s, row) == InsertPAT(s, row)

\* In one transaction: lock the user, delete its expired tokens, insert if the
\* count is below limit.  A refusal commits, so the deletion stays; an error of
\* the insert rolls it back.
SavePATLimited(s, row, limit, now) ==
  LET pruned == [s EXCEPT !.pats = {r \in @ : ~(r.user = row.user /\ Expired(r, now))}]
      saved  == InsertPAT(pruned, row) IN
  IF ForeignKeyViolation(s, row.user) THEN Fail(s, "UserNotFound")
  ELSE IF Cardinality({r \in pruned.pats : r.user = row.user}) >= limit
         THEN Fail(pruned, "PATLimitReached")
  ELSE IF saved.err = "nil" THEN saved
  ELSE Fail(s, saved.err)

GetPAT(s, p) ==
  IF Has(s.pats, "pat", p) THEN Found(s, QueryRow(s.pats, "pat", p)) ELSE Fail(s, "TokenNotFound")

ListPATs(s, u) == QueryOwned(s, s.pats, u, "pat")

\* Mutant: the owner is not part of the WHERE clause.
DeletePATOfAnyone(s, u, p) ==
  IF ~Has(s.pats, "pat", p) THEN Fail(s, "TokenNotFound")
  ELSE Done([s EXCEPT !.pats = {r \in @ : r.pat # p}])

DeletePAT(s, u, p) ==
  LET doomed == {r \in s.pats : r.pat = p /\ r.user = u} IN
  IF doomed = {} THEN Fail(s, "TokenNotFound") ELSE Done([s EXCEPT !.pats = @ \ doomed])

TouchPAT(s, p, now) ==
  Done([s EXCEPT !.pats = {IF r.pat = p THEN [r EXCEPT !.used = now] ELSE r : r \in @}])

-----------------------------------------------------------------------------
(* ChallengeStore *)

\* The sweep and the insert are two statements of their own.
Sweep(s, now) == [s EXCEPT !.challenges = {r \in @ : ~Expired(r, now)}]

SaveChallenge(s, row, now) ==
  LET swept == Sweep(s, now) IN
  IF UniqueViolation(swept.challenges, "nonce", row.nonce) THEN Fail(swept, "error")
  ELSE Done([swept EXCEPT !.challenges = @ \cup {row}])

\* An expired challenge is reported and left to the sweep.
GetChallenge(s, n, now) ==
  IF ~Has(s.challenges, "nonce", n) THEN Fail(s, "ChallengeNotFound")
  ELSE IF Expired(QueryRow(s.challenges, "nonce", n), now) THEN Fail(s, "ChallengeExpired")
  ELSE Found(s, QueryRow(s.challenges, "nonce", n))

DeleteChallenge(s, n) ==
  IF ~Has(s.challenges, "nonce", n) THEN Fail(s, "ChallengeNotFound")
  ELSE Done([s EXCEPT !.challenges = {r \in @ : r.nonce # n}])
=============================================================================
