----------------------------- MODULE TokenStore -----------------------------
(***************************************************************************)
(* The refresh-token table and the operations of auth.TokenStore on it, as *)
(* the in-memory store performs them: each one runs under the store's      *)
(* mutex, so each one is a function of the table.  The Go map from hash to *)
(* *entity.RefreshToken is a total function here; NoToken is "no entry".   *)
(*                                                                         *)
(* Of a token only what the operations read is kept.  EndedAt is compared  *)
(* with nil and nothing else, so it is the boolean "ended"; RotatedAt is a *)
(* time or NoTime (nil); the parent of a family's root is NoHash ("").     *)
(***************************************************************************)
EXTENDS Integers

CONSTANTS User,      \* user IDs
          Hash,      \* refresh-token hashes
          NoUser,    \* the empty user ID
          NoHash,    \* the empty parent of a root token
          NoToken,   \* no entry in the table
          NoTime     \* a nil *time.Time

Token == [user      : User,
          parent    : Hash \cup {NoHash},
          expiresAt : Int,
          revoked   : BOOLEAN,
          rotatedAt : Int \cup {NoTime},
          ended     : BOOLEAN]

ASSUME StoreAssumption == /\ NoUser \notin User
                          /\ NoHash \notin Hash
                          /\ NoTime \notin Int
                          /\ NoToken \notin Token

Table == [Hash -> Token \cup {NoToken}]

-----------------------------------------------------------------------------

\* Is h a key of s.refreshTokens?
Stored(tbl, h) == tbl[h] # NoToken

\* The rows of every family query: hash = f OR parent = f.
Member(tbl, f, h) == Stored(tbl, h) /\ (h = f \/ tbl[h].parent = f)

\* Mutant: the parent as it stands, empty for a root.
familyRootUnset(h, t) == t.parent

\* The hash that every token of the family of t, stored under h, has as parent.
familyRoot(h, t) == IF t.parent = NoHash THEN h ELSE t.parent

\* Mutants: expiry is met a tick early, and a rotated token rotates again.
IsExpiredEarly(tbl, h, now) == Stored(tbl, h) /\ ~tbl[h].revoked /\ tbl[h].expiresAt <= now + 1
CanRotateTwice(tbl, h, now) == Stored(tbl, h) /\ tbl[h].expiresAt > now

\* RotateRefreshToken tells these three from "not found", in this order: a
\* revoked token is reported as revoked even if it has also expired.
IsRevoked(tbl, h)       == Stored(tbl, h) /\ tbl[h].revoked
IsExpired(tbl, h, now)  == Stored(tbl, h) /\ ~tbl[h].revoked /\ tbl[h].expiresAt <= now
CanRotate(tbl, h, now)  == Stored(tbl, h) /\ ~tbl[h].revoked /\ tbl[h].expiresAt > now

\* Mutant: the rotation is stamped but the token stays live.
RotateRefreshTokenLive(tbl, h, now) ==
  [tbl EXCEPT ![h] = [@ EXCEPT !.rotatedAt = now]]

RotateRefreshToken(tbl, h, now) ==
  [tbl EXCEPT ![h] = [@ EXCEPT !.revoked = TRUE, !.rotatedAt = now]]

\* GetRefreshFamily: has any member ended, and which rotation was the latest?
SessionEnded(tbl, f) == \E h \in Hash : Member(tbl, f, h) /\ tbl[h].ended

Rotations(tbl, f) ==
  {tbl[h].rotatedAt : h \in {g \in Hash : Member(tbl, f, g) /\ tbl[g].rotatedAt # NoTime}}

\* Mutant: the root is looked up, but its end is not looked at.
MayJoinEnded(tbl, parent) == parent # NoHash => Stored(tbl, parent)

\* The guard of SaveRefreshToken: a successor may not join a family whose
\* session has ended or whose root is gone.
MayJoin(tbl, parent) ==
  parent # NoHash => Stored(tbl, parent) /\ ~tbl[parent].ended

SaveRefreshToken(tbl, h, u, parent, expiresAt) ==
  [tbl EXCEPT ![h] = [user |-> u, parent |-> parent, expiresAt |-> expiresAt,
                      revoked |-> FALSE, rotatedAt |-> NoTime, ended |-> FALSE]]

\* Mutants: revocation of the one token, and revocation without the end.
RevokeTokenOnly(tbl, f) ==
  [h \in Hash |-> IF Stored(tbl, h) /\ h = f
                    THEN [tbl[h] EXCEPT !.revoked = TRUE, !.ended = TRUE]
                    ELSE tbl[h]]
RevokeTokensUnended(tbl, f) ==
  [h \in Hash |-> IF Member(tbl, f, h) THEN [tbl[h] EXCEPT !.revoked = TRUE] ELSE tbl[h]]

\* RevokeTokens ends the session: every member is revoked and marked ended.
RevokeTokens(tbl, f) ==
  [h \in Hash |-> IF Member(tbl, f, h)
                    THEN [tbl[h] EXCEPT !.revoked = TRUE, !.ended = TRUE]
                    ELSE tbl[h]]

\* Deleting a user removes the user's tokens with it.
DeleteTokensOf(tbl, u) ==
  [h \in Hash |-> IF Stored(tbl, h) /\ tbl[h].user = u THEN NoToken ELSE tbl[h]]

-----------------------------------------------------------------------------
(* What the operations keep true of the table. *)

\* Families are flat and whole: every token's user exists, and the parent of a
\* successor is a stored root token of the same user.
WholeFamilies(tbl, users) ==
  \A h \in Hash : Stored(tbl, h) =>
    /\ tbl[h].user \in users
    /\ tbl[h].parent # NoHash =>
         /\ Stored(tbl, tbl[h].parent)
         /\ tbl[tbl[h].parent].parent = NoHash
         /\ tbl[tbl[h].parent].user = tbl[h].user

\* A family ends as one, and no token of an ended family is left unrevoked.
EndsAsOne(tbl) ==
  \A h \in Hash : Stored(tbl, h) =>
    /\ tbl[h].ended => tbl[h].revoked
    /\ tbl[h].parent # NoHash => tbl[h].ended = tbl[tbl[h].parent].ended

\* f names a family, or one that is gone.
IsRoot(tbl, f) == Stored(tbl, f) => tbl[f].parent = NoHash
=============================================================================
