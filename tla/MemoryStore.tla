---------------------------- MODULE MemoryStore -----------------------------
(***************************************************************************)
(* The in-memory store.  It is one struct of Go maps under one mutex, so a *)
(* call is a function of the struct.  A map is a total function; Nil is    *)
(* "no entry".  usersByEmail is an index kept by hand beside users, and    *)
(* the cascade of a deletion is written out map by map.                    *)
(***************************************************************************)
EXTENDS Stores, FiniteSets

\* New: the maps, all empty.
New == [users        |-> [u \in User |-> Nil],       \* user -> its email
        usersByEmail |-> [e \in Email |-> Nil],      \* email -> user
        passwords    |-> [u \in User |-> Nil],
        pats         |-> [p \in Pat |-> Nil],
        oauth        |-> [a \in Account |-> Nil],
        wallets      |-> [w \in Wallet |-> Nil],
        challenges   |-> [n \in Nonce |-> Nil]]

-----------------------------------------------------------------------------
(* UserStore *)

Create(s, u, e) ==
  IF s.users[u] # Nil THEN Fail(s, "UserExists")
  ELSE IF e # NoEmail /\ s.usersByEmail[e] # Nil THEN Fail(s, "UserExists")
  ELSE Done([s EXCEPT !.users[u] = e,
                      !.usersByEmail = [x \in Email |-> IF x = e THEN u ELSE @[x]]])

GetByID(s, u) ==
  IF s.users[u] = Nil THEN Fail(s, "UserNotFound") ELSE Found(s, s.users[u])

\* Nothing is ever indexed under the empty address.
GetByEmail(s, e) ==
  IF e = NoEmail \/ s.usersByEmail[e] = Nil THEN Fail(s, "UserNotFound")
                                            ELSE Found(s, s.usersByEmail[e])

\* requireUser: a write for a missing user is refused.
requireUser(s, u) == s.users[u] # Nil

\* maps.DeleteFunc: the entries of m that belong to u are dropped.
DeleteOwned(m, u) == [k \in DOMAIN m |-> IF m[k] # Nil /\ m[k].user = u THEN Nil ELSE m[k]]

Delete(s, u) ==
  IF s.users[u] = Nil THEN Fail(s, "UserNotFound")
  ELSE Done([s EXCEPT !.usersByEmail = [x \in Email |-> IF x = s.users[u] THEN Nil ELSE @[x]],
                      !.users[u] = Nil,
                      !.passwords[u] = Nil,
                      !.pats = DeleteOwned(@, u),
                      !.oauth = DeleteOwned(@, u),
                      !.wallets = DeleteOwned(@, u)])

-----------------------------------------------------------------------------
(* CredentialStore *)

SavePasswordHash(s, u, hash) ==
  IF ~requireUser(s, u) THEN Fail(s, "UserNotFound")
                        ELSE Done([s EXCEPT !.passwords[u] = hash])

GetPasswordHash(s, u) ==
  IF s.passwords[u] = Nil THEN Fail(s, "CredentialNotFound") ELSE Found(s, s.passwords[u])

-----------------------------------------------------------------------------
(* OAuthIdentityStore and WalletIdentityStore *)

SaveOAuthIdentity(s, a, u, now) ==
  IF ~requireUser(s, u) THEN Fail(s, "UserNotFound")
  ELSE IF s.oauth[a] # Nil THEN Fail(s, "OAuthIdentityExists")
  ELSE Done([s EXCEPT !.oauth[a] = [user |-> u, created |-> now]])

GetOAuthIdentity(s, a) ==
  IF s.oauth[a] = Nil THEN Fail(s, "OAuthIdentityNotFound") ELSE Found(s, s.oauth[a].user)

\* A list sorted by creation, newest first: per time, the entries of that time.
NewestFirst(keys, m) == [t \in {m[k].created : k \in keys} |-> {k \in keys : m[k].created = t}]

ListOAuthIdentities(s, u) ==
  Found(s, NewestFirst({a \in Account : s.oauth[a] # Nil /\ s.oauth[a].user = u}, s.oauth))

SaveWalletIdentity(s, w, u, now) ==
  IF ~requireUser(s, u) THEN Fail(s, "UserNotFound")
  ELSE IF s.wallets[w] # Nil THEN Fail(s, "WalletIdentityExists")
  ELSE Done([s EXCEPT !.wallets[w] = [user |-> u, created |-> now]])

GetWalletIdentity(s, w) ==
  IF s.wallets[w] = Nil THEN Fail(s, "WalletIdentityNotFound") ELSE Found(s, s.wallets[w].user)

ListWalletIdentities(s, u) ==
  Found(s, NewestFirst({w \in Wallet : s.wallets[w] # Nil /\ s.wallets[w].user = u}, s.wallets))

-----------------------------------------------------------------------------
(* PATStore *)

savePATLocked(s, row) ==
  IF s.pats[row.pat] # Nil THEN Fail(s, "PATExists") ELSE Done([s EXCEPT !.pats[row.pat] = row])

SavePAT(s, row) ==
  IF ~requireUser(s, row.user) THEN Fail(s, "UserNotFound") ELSE savePATLocked(s, row)

\* The tokens of u, and the store without those of u that expired before now.
PatsOf(s, u) == {p \in Pat : s.pats[p] # Nil /\ s.pats[p].user = u}

Prune(s, u, now) ==
  [s EXCEPT !.pats = [p \in Pat |-> IF p \in PatsOf(s, u) /\ Expired(@[p], now) THEN Nil ELSE @[p]]]

\* Mutant: the limit is counted before the expired tokens are dropped.
SavePATLimitedUnpruned(s, row, limit, now) ==
  IF ~requireUser(s, row.user) THEN Fail(s, "UserNotFound")
  ELSE IF Cardinality(PatsOf(s, row.user)) >= limit
         THEN Fail(Prune(s, row.user, now), "PATLimitReached")
  ELSE savePATLocked(Prune(s, row.user, now), row)

SavePATLimited(s, row, limit, now) ==
  LET pruned == Prune(s, row.user, now) IN
  IF ~requireUser(s, row.user) THEN Fail(s, "UserNotFound")
  ELSE IF Cardinality(PatsOf(pruned, row.user)) >= limit THEN Fail(pruned, "PATLimitReached")
  ELSE savePATLocked(pruned, row)

GetPAT(s, p) == IF s.pats[p] = Nil THEN Fail(s, "TokenNotFound") ELSE Found(s, s.pats[p])

ListPATs(s, u) == Found(s, NewestFirst(PatsOf(s, u), s.pats))

DeletePAT(s, u, p) ==
  IF p \in PatsOf(s, u) THEN Done([s EXCEPT !.pats[p] = Nil]) ELSE Fail(s, "TokenNotFound")

TouchPAT(s, p, now) ==
  IF s.pats[p] = Nil THEN Done(s) ELSE Done([s EXCEPT !.pats[p] = [@ EXCEPT !.used = now]])

-----------------------------------------------------------------------------
(* ChallengeStore *)

\* Every save sweeps the challenges that expired before now.
SaveChallenge(s, row, now) ==
  Done([s EXCEPT !.challenges = [n \in Nonce |-> IF n = row.nonce THEN row
                                                 ELSE IF @[n] # Nil /\ Expired(@[n], now) THEN Nil
                                                 ELSE @[n]]])

\* An expired challenge is deleted by the read that finds it.
GetChallenge(s, n, now) ==
  IF s.challenges[n] = Nil THEN Fail(s, "ChallengeNotFound")
  ELSE IF Expired(s.challenges[n], now)
         THEN Fail([s EXCEPT !.challenges[n] = Nil], "ChallengeExpired")
  ELSE Found(s, s.challenges[n])

DeleteChallenge(s, n) ==
  IF s.challenges[n] = Nil THEN Fail(s, "ChallengeNotFound")
                           ELSE Done([s EXCEPT !.challenges[n] = Nil])
=============================================================================
