------------------------------ MODULE Sessions ------------------------------
(***************************************************************************)
(* Sessions: auth.Service's Login, Refresh and Logout over the token       *)
(* store.  A session is a family of refresh tokens: the root saved at      *)
(* sign-in and the successors minted by each refresh.                      *)
(*                                                                         *)
(* Every request is a goroutine that makes several store calls; a store    *)
(* call is atomic, and between two of them any other request, a deletion   *)
(* of the user, the passing of time, or the loss of the request can        *)
(* happen.  One action is one store call with the code up to the next one. *)
(* Replicas read their own clocks: a reading is within Skew of the clock.  *)
(***************************************************************************)
EXTENDS TokenStore

CONSTANTS Request,   \* goroutines serving requests
          Leeway,    \* refreshReuseLeeway, 0 = strict
          TTL,       \* token.RefreshTokenTTL
          Skew,      \* how far a replica's clock is from the true time
          MaxClock   \* bound on the clock, so that there are finitely many states

ASSUME SessionsAssumption == /\ Leeway \in Nat
                             /\ TTL \in Nat \ {0}
                             /\ Skew \in Nat
                             /\ MaxClock \in Nat

VARIABLES clock,     \* the true time
          users,     \* users in the user store
          tokens,    \* the refresh-token table
          issued,    \* hashes ever generated: random, so never drawn twice
          delivered, \* tokens that reached a client, which may present them
          req        \* the local variables of each request, and its answer

vars == <<clock, users, tokens, issued, delivered, req>>

\* Where a request stands, named for the store call it makes next.
PC == {"idle", "rotate", "family", "revoke", "getUser", "save", "lookup", "end", "done"}

\* "ok"        a token pair, or nil from Logout
\* "rejected"  ErrInvalidCredentials, answered as Unauthenticated
\* "survived"  a rejection whose RevokeTokens failed, which Refresh swallows
\* "internal"  any other error, no storage call having failed
\* "error"     a storage failure, or no answer at all
Answer == {"none", "ok", "rejected", "survived", "internal", "error"}

\* op is the call; hash is the token it was given, NoHash for a sign-in.  at is
\* Refresh's now; user, root and rotatedAt are what the request uses of the
\* token it read; dup marks a replay taken for a duplicate.  Variables that the
\* code does not read again are reset.
Local == [op : {"none", "Login", "Refresh", "Logout"}, pc : PC, answer : Answer,
          hash : Hash \cup {NoHash}, at : Int \cup {NoTime},
          user : User \cup {NoUser}, root : Hash \cup {NoHash},
          rotatedAt : Int \cup {NoTime}, dup : BOOLEAN]

Idle == [op |-> "none", pc |-> "idle", answer |-> "none", hash |-> NoHash, at |-> NoTime,
         user |-> NoUser, root |-> NoHash, rotatedAt |-> NoTime, dup |-> FALSE]

TypeOK == /\ clock \in 0..MaxClock
          /\ users \subseteq User
          /\ tokens \in Table
          /\ issued \subseteq Hash
          /\ delivered \subseteq issued
          /\ req \in [Request -> Local]

Init == /\ clock = 0
        /\ users = User
        /\ tokens = [h \in Hash |-> NoToken]
        /\ issued = {}
        /\ delivered = {}
        /\ req = [r \in Request |-> Idle]

-----------------------------------------------------------------------------

\* s.now() on some replica.
Reading == (clock - Skew)..(clock + Skew)

\* The request returns.
Return(r, answer) ==
  req' = [req EXCEPT ![r] = [Idle EXCEPT !.op = req[r].op, !.hash = req[r].hash,
                                         !.pc = "done", !.answer = answer]]

\* Mutant: the last tick of the leeway is not part of it.
NearRotationShort(t, now) ==
  /\ Leeway # 0
  /\ t.rotatedAt # NoTime
  /\ t.expiresAt > now
  /\ now - t.rotatedAt < Leeway
  /\ now - t.rotatedAt >= -Leeway

\* isDuplicateRefresh up to its store call: the token was revoked by a rotation
\* at most Leeway away, on either side, and has not expired.
NearRotation(t, now) ==
  /\ Leeway # 0
  /\ t.rotatedAt # NoTime
  /\ t.expiresAt > now
  /\ now - t.rotatedAt <= Leeway
  /\ now - t.rotatedAt >= -Leeway

\* isDuplicateRefresh from its store call on: the session goes on and no member
\* was rotated after the token.
IsLatestRotation(tbl, f, rotatedAt) ==
  /\ ~SessionEnded(tbl, f)
  /\ Rotations(tbl, f) # {}
  /\ \A t \in Rotations(tbl, f) : t <= rotatedAt

-----------------------------------------------------------------------------

\* Login, after provider.Authenticate has accepted the credentials of u.
Login(r, u) ==
  /\ req[r].pc = "idle"
  /\ u \in users
  /\ req' = [req EXCEPT ![r] = [Idle EXCEPT !.op = "Login", !.pc = "getUser", !.user = u]]
  /\ UNCHANGED <<clock, users, tokens, issued, delivered>>

\* Refresh begins: it reads the clock once, before the first store call.
Refresh(r, h) ==
  /\ req[r].pc = "idle"
  /\ h \in delivered
  /\ \E now \in Reading :
       req' = [req EXCEPT ![r] = [Idle EXCEPT !.op = "Refresh", !.pc = "rotate", !.hash = h, !.at = now]]
  /\ UNCHANGED <<clock, users, tokens, issued, delivered>>

\* RotateRefreshToken succeeds: this request is the one that rotated the token.
Rotate(r) ==
  LET h == req[r].hash IN
  /\ req[r].pc = "rotate"
  /\ CanRotate(tokens, h, req[r].at)
  /\ tokens' = RotateRefreshToken(tokens, h, req[r].at)
  /\ req' = [req EXCEPT ![r] = [@ EXCEPT !.pc = "getUser", !.at = NoTime,
                                  !.user = tokens[h].user,
                                  !.root = familyRoot(h, tokens[h]),
                                  !.rotatedAt = req[r].at]]
  /\ UNCHANGED <<clock, users, issued, delivered>>

\* RotateRefreshToken finds no token, or an expired one.
RotateRefused(r) ==
  LET h == req[r].hash IN
  /\ req[r].pc = "rotate"
  /\ ~Stored(tokens, h) \/ IsExpired(tokens, h, req[r].at)
  /\ Return(r, "rejected")
  /\ UNCHANGED <<clock, users, tokens, issued, delivered>>

\* RotateRefreshToken finds the token revoked: a duplicate, or reuse?
Replay(r) ==
  LET h == req[r].hash IN
  /\ req[r].pc = "rotate"
  /\ IsRevoked(tokens, h)
  /\ req' = [req EXCEPT ![r] =
               [@ EXCEPT !.pc = IF NearRotation(tokens[h], req[r].at) THEN "family" ELSE "revoke",
                         !.at = NoTime,
                         !.user = tokens[h].user,
                         !.root = familyRoot(h, tokens[h]),
                         !.rotatedAt = tokens[h].rotatedAt]]
  /\ UNCHANGED <<clock, users, tokens, issued, delivered>>

\* GetRefreshFamily, and the verdict of isDuplicateRefresh.
FamilyCheck(r) ==
  /\ req[r].pc = "family"
  /\ req' = [req EXCEPT ![r] =
               IF IsLatestRotation(tokens, req[r].root, req[r].rotatedAt)
                 THEN [@ EXCEPT !.pc = "getUser", !.dup = TRUE]
                 ELSE [@ EXCEPT !.pc = "revoke"]]
  /\ UNCHANGED <<clock, users, tokens, issued, delivered>>

\* revokeReusedFamily: the replay is refused, whether or not RevokeTokens fails.
RevokeReusedFamily(r) ==
  /\ req[r].pc = "revoke"
  /\ \/ /\ tokens' = RevokeTokens(tokens, req[r].root)
        /\ Return(r, "rejected")
     \/ /\ UNCHANGED tokens
        /\ Return(r, "survived")
  /\ UNCHANGED <<clock, users, issued, delivered>>

\* userStore.GetByID.  Refresh rejects the token of a user that is gone; Login
\* fails.
GetUser(r) ==
  /\ req[r].pc = "getUser"
  /\ IF req[r].user \in users
       THEN req' = [req EXCEPT ![r].pc = "save"]
       ELSE Return(r, IF req[r].op = "Refresh" THEN "rejected" ELSE "internal")
  /\ UNCHANGED <<clock, users, tokens, issued, delivered>>

\* issueTokens: SaveRefreshToken accepts the new token.  Its answer or the
\* response may be lost on the way to the client.
IssueTokens(r) ==
  /\ req[r].pc = "save"
  /\ MayJoin(tokens, req[r].root)
  /\ req[r].user \in users
  /\ \E h \in Hash \ issued, now \in Reading :
       /\ tokens' = SaveRefreshToken(tokens, h, req[r].user, req[r].root, now + TTL)
       /\ issued' = issued \cup {h}
       /\ \/ delivered' = delivered \cup {h} /\ Return(r, "ok")
          \/ delivered' = delivered /\ Return(r, "error")
  /\ UNCHANGED <<clock, users>>

\* issueTokens: the store refuses the successor, which Refresh reports as reuse.
IssueRefused(r) ==
  /\ req[r].pc = "save"
  /\ ~MayJoin(tokens, req[r].root)
  /\ Return(r, "rejected")
  /\ UNCHANGED <<clock, users, tokens, issued, delivered>>

\* issueTokens: the store misses the user.  Nobody translates this error.
IssueUserMissing(r) ==
  /\ req[r].pc = "save"
  /\ MayJoin(tokens, req[r].root)
  /\ req[r].user \notin users
  /\ Return(r, "internal")
  /\ UNCHANGED <<clock, users, tokens, issued, delivered>>

-----------------------------------------------------------------------------

\* Logout is called with a token.
Logout(r, h) ==
  /\ req[r].pc = "idle"
  /\ h \in delivered
  /\ req' = [req EXCEPT ![r] = [Idle EXCEPT !.op = "Logout", !.pc = "lookup", !.hash = h]]
  /\ UNCHANGED <<clock, users, tokens, issued, delivered>>

\* Logout: GetRefreshToken.  An unknown token is not an error.
LogoutLookup(r) ==
  LET h == req[r].hash IN
  /\ req[r].pc = "lookup"
  /\ \/ /\ Stored(tokens, h)
        /\ req' = [req EXCEPT ![r] = [@ EXCEPT !.pc = "end", !.user = tokens[h].user,
                                               !.root = familyRoot(h, tokens[h])]]
     \/ /\ ~Stored(tokens, h)
        /\ Return(r, "ok")
  /\ UNCHANGED <<clock, users, tokens, issued, delivered>>

\* Logout: RevokeTokens, whose answer may be lost after it took effect.
LogoutEnd(r) ==
  /\ req[r].pc = "end"
  /\ tokens' = RevokeTokens(tokens, req[r].root)
  /\ \/ Return(r, "ok")
     \/ Return(r, "error")
  /\ UNCHANGED <<clock, users, issued, delivered>>

-----------------------------------------------------------------------------

\* The request's store call fails and the error is returned, or the request is
\* lost: its context is cancelled, or the process stops.  A call that failed
\* after it took effect is the effect followed by this.
Fail(r) ==
  /\ req[r].pc \notin {"idle", "done"}
  /\ Return(r, "error")
  /\ UNCHANGED <<clock, users, tokens, issued, delivered>>

\* userStore.Delete, called by the rollbacks of the sign-in paths.
DeleteUser(u) ==
  /\ u \in users
  /\ users' = users \ {u}
  /\ tokens' = DeleteTokensOf(tokens, u)
  /\ UNCHANGED <<clock, issued, delivered, req>>

Tick == /\ clock < MaxClock
        /\ clock' = clock + 1
        /\ UNCHANGED <<users, tokens, issued, delivered, req>>

Step(r) == \/ Rotate(r) \/ RotateRefused(r) \/ Replay(r) \/ FamilyCheck(r)
           \/ RevokeReusedFamily(r) \/ GetUser(r)
           \/ IssueTokens(r) \/ IssueRefused(r) \/ IssueUserMissing(r)
           \/ LogoutLookup(r) \/ LogoutEnd(r)

Next == \/ \E r \in Request : \/ \E u \in User : Login(r, u)
                              \/ \E h \in Hash : Refresh(r, h) \/ Logout(r, h)
                              \/ Step(r)
                              \/ Fail(r)
        \/ \E u \in User : DeleteUser(u)
        \/ Tick

Spec == Init /\ [][Next]_vars

-----------------------------------------------------------------------------
(* Properties *)

\* Family(h, g): the stored tokens h and g belong to one session.
Family(h, g) == /\ Stored(tokens, h) /\ Stored(tokens, g)
                /\ familyRoot(h, tokens[h]) = familyRoot(g, tokens[g])

\* A token whose session is over for good, up to the skew of the clocks.
Dead(h) == \/ ~Stored(tokens, h)
           \/ tokens[h].ended
           \/ tokens[h].expiresAt <= clock + Skew

\* Families are flat and whole: the parent of a successor is a stored root of
\* the same user, and every token's user exists.  familyRoot, the family
\* queries and the cascade of a user's deletion rest on it, while refreshes of
\* a user that is being deleted race to save successors.
FamiliesWhole == WholeFamilies(tokens, users)

\* Once a session has ended (logout, or reuse detection), none of its tokens is
\* usable, the ones included that a refresh already past its rotation saves
\* later (service.go: "the store then refuses the successor").
EndedSessionIsDead ==
  \A h, g \in Hash : Family(h, g) /\ tokens[g].ended => tokens[h].revoked

\* When Logout has answered success for a token, every token of its session is
\* revoked, the siblings minted within the leeway included, and stays so
\* whatever was in flight (README: "Logout ends the whole session").
LogoutIsFinal ==
  \A r \in Request : req[r].op = "Logout" /\ req[r].answer = "ok" =>
    \A g \in Hash : Family(req[r].hash, g) => tokens[g].revoked

\* Refresh answers Unauthenticated only for a token that is over: gone, ended or
\* expired.  The client drops its session on that answer (handler.go: "Only a
\* rejected token ends the client's session").  A replay whose RevokeTokens
\* failed is the one exception.
RejectedIsDead ==
  \A r \in Request : req[r].answer = "rejected" => Dead(req[r].hash)

\* Refresh fails with an error other than ErrInvalidCredentials only when the
\* storage failed: the user vanishing in the middle is still a rejection
\* (service.go: "any other error is an infrastructure failure").
RejectionsAreCredentials ==
  \A r \in Request : req[r].op = "Refresh" => req[r].answer # "internal"

\* A request that is to save a successor of the family of f.
Succeeding(r, f) == req[r].pc \in {"getUser", "save"} /\ req[r].root = f

\* A refresh with a token of the family of f that failed.
FailedIn(r, f) ==
  req[r].op = "Refresh" /\ req[r].answer = "error" /\ Family(f, req[r].hash)

KeepsClient(f) == \/ \E h \in delivered : Member(tokens, f, h) /\ ~tokens[h].revoked
                  \/ \E r \in Request : Succeeding(r, f)
                  \/ \E r \in Request : FailedIn(r, f)

\* A session that goes on does not lose its client: the client holds an
\* unrevoked token, or a refresh is about to hand it one, or one of its
\* requests failed (a rotation whose successor was not saved or not received).
SessionKeepsClient ==
  \A f \in delivered :
    Stored(tokens, f) /\ tokens[f].parent = NoHash /\ ~tokens[f].ended => KeepsClient(f)

\* With a zero leeway rotation is strict: however the refreshes of a session
\* interleave, at most one of its tokens is unrevoked (README: "Set 0s for
\* strict detection").
StrictRotation ==
  Leeway = 0 =>
    \A h, g \in Hash : Family(h, g) /\ ~tokens[h].revoked /\ ~tokens[g].revoked => h = g

\* A replay within the leeway yields another pair only while the token is its
\* family's latest rotation and the session has not ended (README: "but only
\* while it is the family's latest rotation").
DuplicateIsLatest ==
  [][\A r \in Request : req[r].dup /\ issued' # issued /\ req'[r] # req[r] =>
       IsLatestRotation(tokens, req[r].root, req[r].rotatedAt)]_vars

\* A stored token only ever moves forward until its user is deleted: revoked
\* and ended are never undone, and a rotation is stamped once and by one request
\* (postgres.go: "revoked only ever goes false -> true").
MoveForward(h) ==
  Stored(tokens, h) /\ Stored(tokens', h) =>
    /\ tokens[h].revoked => tokens'[h].revoked /\ tokens'[h].rotatedAt = tokens[h].rotatedAt
    /\ tokens[h].ended => tokens'[h].ended
    /\ ~tokens[h].revoked /\ tokens'[h].revoked =>
         tokens'[h].ended \/ tokens'[h].rotatedAt # NoTime
    /\ tokens'[h].user = tokens[h].user
    /\ tokens'[h].parent = tokens[h].parent
    /\ tokens'[h].expiresAt = tokens[h].expiresAt

TokensMoveForward == [][\A h \in Hash : MoveForward(h)]_vars

\* A request never touches a session other than the one of the token it was
\* given: not another session of the same user, not another user's.
OwnSession(h) ==
  Stored(tokens, h) /\ tokens'[h] # tokens[h] =>
    \/ users' # users
    \/ \E r \in Request : req'[r] # req[r] /\ req[r].hash \in Hash /\ Family(h, req[r].hash)

OtherSessionsUntouched == [][\A h \in Hash : OwnSession(h)]_vars

-----------------------------------------------------------------------------
(* The inductive invariant *)

\* What a request in flight may rely on about the token it read, however long
\* ago: the token is stored while its user exists, and token and root, if they
\* are stored, are the ones it read.
ReadOK(q) ==
  /\ q.user \in User
  /\ q.root \in issued
  /\ q.user \in users => Stored(tokens, q.hash)
  /\ Stored(tokens, q.hash) => /\ tokens[q.hash].user = q.user
                               /\ familyRoot(q.hash, tokens[q.hash]) = q.root
  /\ Stored(tokens, q.root) => /\ tokens[q.root].user = q.user
                               /\ tokens[q.root].parent = NoHash

\* Where a request stands determines what it knows; what it answered was true
\* and stays true.
RequestOK(q) ==
  /\ q.op \in {"Refresh", "Logout"} => q.hash \in issued
  /\ q.pc = "rotate" => q.op = "Refresh" /\ q.at \in Int /\ q.at <= clock + Skew
  /\ q.pc \in {"family", "revoke"} => q.op = "Refresh" /\ ReadOK(q)
  /\ q.pc \in {"getUser", "save"} => \/ q.op = "Refresh" /\ ReadOK(q)
                                     \/ q.op = "Login" /\ q.user \in User /\ q.root = NoHash
  /\ q.pc = "lookup" => q.op = "Logout"
  /\ q.pc = "end" => q.op = "Logout" /\ ReadOK(q)
  /\ q.pc # "done" => q.answer = "none"
  /\ q.answer = "rejected" => q.op = "Refresh" /\ Dead(q.hash)
  /\ q.answer = "internal" => q.op = "Login"
  /\ q.op = "Logout" /\ q.answer = "ok" => ~Stored(tokens, q.hash) \/ tokens[q.hash].ended

\* The invariant that every step keeps (see SessionsProofs): families are whole
\* and end as one, a stored hash has been issued, and every request is right
\* about its token.
IInv ==
  /\ TypeOK
  /\ FamiliesWhole
  /\ EndsAsOne(tokens)
  /\ \A h \in Hash : Stored(tokens, h) => h \in issued
  /\ \A r \in Request : RequestOK(req[r])

\* With no leeway a refresh that has rotated is alone with its session: no
\* other one is to save a successor, and no token of the family is unrevoked.
Rotated(r) == req[r].op = "Refresh" /\ req[r].pc \in {"getUser", "save"}

StrictInv ==
  Leeway = 0 =>
    /\ StrictRotation
    /\ \A r \in Request : req[r].pc # "family"
    /\ \A r \in Request, h \in Hash :
         Rotated(r) /\ Member(tokens, req[r].root, h) => tokens[h].revoked
    /\ \A r, s \in Request :
         /\ Rotated(r) /\ Rotated(s)
         /\ req[r].root = req[s].root
         /\ Stored(tokens, req[r].root)
         => r = s
=============================================================================
