--------------------------- MODULE AccountsProofs ---------------------------
(***************************************************************************)
(* Accounts and sign-ins: for any number of requests, users, addresses,    *)
(* accounts and wallets, and any number of failing calls and of clients    *)
(* that go away.                                                           *)
(*                                                                         *)
(* The invariant is stated of a request q, tables d, the users dr drawn so *)
(* far and a number n of faults, so that the lemmas about a call are about *)
(* values only.                                                            *)
(***************************************************************************)
EXTENDS Accounts, TLAPS

\* The predicates of the properties, of given tables.
StoredIn(d, u) == \E x \in d.users : x.id = u
PasswordIn(d, u) == \E x \in d.credentials : x.user = u
ReachableIn(d, u) == \/ PasswordIn(d, u)
                     \/ \E x \in d.oauth \cup d.wallets : x.user = u
LinkedIn(d, a, u) == \E x \in d.oauth : x.account = a /\ x.user = u
OwnsIn(d, w, u) == [wallet |-> w, user |-> u, created |-> 0] \in d.wallets

\* Stored users have been drawn, and rows belong to stored users.
DbOK(d, dr) ==
  /\ DOMAIN d = {"users", "credentials", "pats", "oauth", "wallets", "challenges"}
  /\ \A x \in d.users : x.id \in dr
  /\ \A x \in d.credentials \cup d.oauth \cup d.wallets : StoredIn(d, x.user)
  /\ \A x \in d.wallets : x = [wallet |-> x.wallet, user |-> x.user, created |-> 0]

-----------------------------------------------------------------------------
(* What is known of a request *)

Fields == DOMAIN NoRequest

\* No call of it has failed, and it has not tried to create a user.
Fresh(q) == q.made = Nil /\ ~q.failed /\ q.cause = "nil"

\* What it made can be reached, or is gone.
Kept(q, d) == StoredIn(d, q.made) => ReachableIn(d, q.made)

\* One of its calls failed, and not only the one that was rolled back.
Excused(q, n) == q.failed /\ (q.cause = "error" => n >= 2)

\* It acts on the user that it made.
Mine(q, dr) == q.made = q.user /\ q.user \in dr

Settled(q, d, n) == Kept(q, d) \/ Excused(q, n)

\* The user it signs in is the one of its account or wallet.
SignsIn(q, d, dr) ==
  /\ q.kind = "oauth" => q.user \in dr /\ (StoredIn(d, q.user) => LinkedIn(d, q.account, q.user))
  /\ q.kind = "wallet" => q.user \in dr /\ (StoredIn(d, q.user) => OwnsIn(d, q.wallet, q.user))

\* What its error says.
ErrOK(q) ==
  /\ q.failed => q.err \in {{}, {"error"}}
  /\ q.kind = "login" => q.err \in {{}, {"error"}} \/ "InvalidCredentials" \in q.err

Common(q, d, dr, n) ==
  /\ DOMAIN q = Fields
  /\ q.failed \in BOOLEAN /\ q.cancelled \in BOOLEAN
  /\ q.made \in dr \cup {Nil}
  /\ \A u \in q.before : u \in dr /\ (StoredIn(d, u) => PasswordIn(d, u))
  /\ q.cancelled \/ q.cause = "error" => n >= 1
  /\ q.pc # "done" => q.err = {}

\* The places of a request, and what is known of it there.
AtIdle(q) == q.pc = "idle" /\ q.kind = "none" /\ Fresh(q)
AtRegister(q) == q.pc \in {"register.lookup", "register.create"} /\ q.kind = "register" /\ Fresh(q)
AtPassword(q, dr) == q.pc = "register.password" /\ q.kind = "register" /\ Mine(q, dr)
AtRollback(q, dr) == /\ q.pc = "register.rollback" /\ q.kind = "register"
                     /\ Mine(q, dr) /\ q.cause # "error"
AtLogin(q) == q.pc \in {"login.lookup", "login.password"} /\ q.kind = "login" /\ Fresh(q)
AtIdentity(q, d, n) == /\ q.pc = "oauth.identity" /\ q.kind = "oauth"
                       /\ Fresh(q) \/ (q.again /\ Settled(q, d, n))
AtFind(q) == q.pc \in {"oauth.find", "oauth.create"} /\ q.kind = "oauth" /\ Fresh(q)
AtFindAgain(q, d) == q.pc = "oauth.findAgain" /\ q.kind = "oauth" /\ Kept(q, d) /\ ~q.failed
AtAutolink(q, d, dr) == /\ q.pc = "oauth.autolink" /\ q.kind = "oauth"
                        /\ Kept(q, d) /\ ~q.failed /\ q.user \in dr
AtLink(q, d, dr) == /\ q.pc = "oauth.link" /\ q.kind = "oauth" /\ q.user \in dr
                    /\ Kept(q, d) \/ (q.created /\ q.made = q.user)
                    /\ q.user \in q.before => ~StoredIn(d, q.user)
AtLinks(q, d, dr) == /\ q.pc = "oauth.links" /\ q.kind = "oauth" /\ q.user \in dr
                     /\ Kept(q, d) \/ q.made = q.user
                     /\ \A x \in q.stood : x.user = q.user /\ (StoredIn(d, q.user) => x \in d.oauth)
AtDiscard(q, d, dr) == /\ q.pc = "oauth.discard" /\ q.kind = "oauth" /\ q.user \in dr
                       /\ Kept(q, d) \/ q.made = q.user
                       /\ StoredIn(d, q.user) => q.stood = {}
AtWallet(q, d, n) == /\ q.pc = "wallet.identity" /\ q.kind = "wallet"
                     /\ Fresh(q) \/ (q.again /\ Settled(q, d, n))
AtWalletCreate(q) == q.pc = "wallet.create" /\ q.kind = "wallet" /\ Fresh(q)
AtWalletLink(q, dr) == q.pc = "wallet.link" /\ q.kind = "wallet" /\ Mine(q, dr)
AtWalletDiscard(q, dr) == q.pc = "wallet.discard" /\ q.kind = "wallet" /\ Mine(q, dr) /\ q.again
AtGetUser(q, d, dr, n) == /\ q.pc = "getUser" /\ q.kind \in {"login", "oauth", "wallet"}
                          /\ Settled(q, d, n) /\ SignsIn(q, d, dr)
                          /\ q.kind = "oauth" => ~q.linked
AtIssue(q, d, dr, n) == /\ q.pc = "issue" /\ q.kind \in {"register", "login", "oauth", "wallet"}
                        /\ Settled(q, d, n) /\ SignsIn(q, d, dr)
                        /\ q.kind = "oauth" /\ q.linked => q.user \notin q.before
AtDone(q, d, n) == /\ q.pc = "done" /\ q.kind \in {"register", "login", "oauth", "wallet"}
                   /\ Settled(q, d, n) /\ ErrOK(q)

Place(q, d, dr, n) ==
  \/ AtIdle(q)
  \/ AtRegister(q) \/ AtPassword(q, dr) \/ AtRollback(q, dr)
  \/ AtLogin(q)
  \/ AtIdentity(q, d, n) \/ AtFind(q) \/ AtFindAgain(q, d) \/ AtAutolink(q, d, dr)
  \/ AtLink(q, d, dr) \/ AtLinks(q, d, dr) \/ AtDiscard(q, d, dr)
  \/ AtWallet(q, d, n) \/ AtWalletCreate(q) \/ AtWalletLink(q, dr) \/ AtWalletDiscard(q, dr)
  \/ AtGetUser(q, d, dr, n) \/ AtIssue(q, d, dr, n) \/ AtDone(q, d, n)

ReqOK(q, d, dr, n) == Common(q, d, dr, n) /\ Place(q, d, dr, n)

\* Every request is where it may be, and a user that was drawn was drawn by one
\* of them.
AccInv ==
  /\ DbOK(db, drawn)
  /\ drawn \in SUBSET User
  /\ faults \in Nat
  /\ DOMAIN req = Request
  /\ \A r \in Request : ReqOK(req[r], db, drawn, faults)
  /\ \A u \in drawn : \E r \in Request : req[r].made = u

-----------------------------------------------------------------------------
(* The calls *)

\* What no call does to the tables: a user does not come back, and what belongs
\* to a user stays as long as the user does.
Keeps(d, e, dr) ==
  /\ \A u \in dr : StoredIn(e, u) => StoredIn(d, u) /\ (PasswordIn(d, u) => PasswordIn(e, u))
  /\ \A x \in d.oauth : StoredIn(e, x.user) => x \in e.oauth
  /\ \A x \in d.wallets : StoredIn(e, x.user) => x \in e.wallets

LEMMA KeepsSame == ASSUME NEW d, NEW dr PROVE Keeps(d, d, dr)
BY Zenon DEF Keeps

\* The parts of an answer.
LEMMA Answers ==
  ASSUME NEW s, NEW e, NEW res
  PROVE  /\ res = Pg!Fail(s, e) => res.err = e /\ res.store = s
         /\ res = Pg!Done(s) => res.err = "nil" /\ res.store = s
         /\ res = Pg!Found(s, e) => res.err = "nil" /\ res.store = s /\ res.val = e
BY DEF Pg!Fail, Pg!Done, Pg!Found

\* The columns of changed tables.
LEMMA Columns ==
  ASSUME NEW d, NEW dr, DbOK(d, dr), NEW v
  PROVE  /\ [d EXCEPT !.users = v].users = v
         /\ [d EXCEPT !.users = v].credentials = d.credentials
         /\ [d EXCEPT !.users = v].oauth = d.oauth
         /\ [d EXCEPT !.users = v].wallets = d.wallets
         /\ DOMAIN [d EXCEPT !.users = v] = DOMAIN d
         /\ [d EXCEPT !.credentials = v].credentials = v
         /\ [d EXCEPT !.credentials = v].users = d.users
         /\ [d EXCEPT !.credentials = v].oauth = d.oauth
         /\ [d EXCEPT !.credentials = v].wallets = d.wallets
         /\ DOMAIN [d EXCEPT !.credentials = v] = DOMAIN d
         /\ [d EXCEPT !.oauth = v].oauth = v
         /\ [d EXCEPT !.oauth = v].users = d.users
         /\ [d EXCEPT !.oauth = v].credentials = d.credentials
         /\ [d EXCEPT !.oauth = v].wallets = d.wallets
         /\ DOMAIN [d EXCEPT !.oauth = v] = DOMAIN d
         /\ [d EXCEPT !.wallets = v].wallets = v
         /\ [d EXCEPT !.wallets = v].users = d.users
         /\ [d EXCEPT !.wallets = v].credentials = d.credentials
         /\ [d EXCEPT !.wallets = v].oauth = d.oauth
         /\ DOMAIN [d EXCEPT !.wallets = v] = DOMAIN d
<1>1. {"users", "credentials", "oauth", "wallets"} \subseteq DOMAIN d
  BY Zenon DEF DbOK
<1> QED
  BY <1>1

\* The answer of Create.
Creates(res, d, dr, u) ==
  /\ res.err \in {"nil", "UserExists"}
  /\ res.err = "UserExists" => res.store = d
  /\ ~StoredIn(d, u) /\ DbOK(res.store, dr \cup {u}) /\ Keeps(d, res.store, dr)
  /\ d.oauth \subseteq res.store.oauth

LEMMA CreateCall ==
  ASSUME NEW d, NEW dr, DbOK(d, dr), NEW u, u \notin dr, NEW e, NEW res,
         res = Pg!Create(d, u, e)
  PROVE  Creates(res, d, dr, u)
<1>1. ~StoredIn(d, u) /\ DbOK(d, dr \cup {u})
  BY Zenon DEF StoredIn, DbOK
<1>2. CASE res = Pg!Fail(d, "UserExists")
  <2>1. res.err = "UserExists" /\ res.store = d
    BY <1>2, Answers
  <2> QED
    BY <1>1, <2>1, KeepsSame, Zenon DEF Creates
<1>3. ASSUME NEW row, row = [id |-> u, email |-> e],
             NEW new, new = [d EXCEPT !.users = d.users \cup {row}],
             res = Pg!Done(new)
      PROVE  /\ res.err = "nil" /\ res.store = new
             /\ DbOK(new, dr \cup {u}) /\ Keeps(d, new, dr) /\ d.oauth \subseteq new.oauth
  <2>1. res.err = "nil" /\ res.store = new
    BY <1>3, Answers
  <2>2. /\ new.users = d.users \cup {row}
        /\ new.credentials = d.credentials /\ new.oauth = d.oauth /\ new.wallets = d.wallets
        /\ DOMAIN new = DOMAIN d
    BY <1>3, Columns
  <2>3. row.id = u
    BY <1>3, Zenon
  <2>4. \A v : StoredIn(new, v) <=> StoredIn(d, v) \/ v = u
    BY <2>2, <2>3, Zenon DEF StoredIn
  <2>5. DbOK(new, dr \cup {u})
    BY <2>2, <2>3, <2>4, Zenon DEF DbOK
  <2>6. Keeps(d, new, dr)
    BY <2>2, <2>4, Zenon DEF Keeps, PasswordIn
  <2> QED
    BY <2>1, <2>2, <2>5, <2>6, Zenon
<1>4. CASE res = Pg!Done([d EXCEPT !.users = @ \cup {[id |-> u, email |-> e]}])
  <2>1. PICK row, new : row = [id |-> u, email |-> e] /\ new = [d EXCEPT !.users = d.users \cup {row}]
    BY Zenon
  <2>2. res = Pg!Done(new)
    BY <1>4, <2>1, Zenon
  <2> QED
    BY <1>1, <1>3, <2>1, <2>2, Zenon DEF Creates
<1> QED
  BY <1>2, <1>4, Zenon DEF Pg!Create

LEMMA DeleteCall ==
  ASSUME NEW d, NEW dr, DbOK(d, dr), NEW u
  PROVE  /\ Pg!Delete(d, u).err \in {"nil", "UserNotFound"}
         /\ DbOK(Pg!Delete(d, u).store, dr)
         /\ Keeps(d, Pg!Delete(d, u).store, dr)
         /\ ~StoredIn(Pg!Delete(d, u).store, u)
         /\ ~StoredIn(d, u) => Pg!Delete(d, u).store = d
<1> DEFINE new == [d EXCEPT !.users = {x \in @ : x.id # u},
                            !.credentials = Pg!Cascade(@, u),
                            !.pats = Pg!Cascade(@, u),
                            !.oauth = Pg!Cascade(@, u),
                            !.wallets = Pg!Cascade(@, u)]
<1>1. Pg!Has(d.users, "id", u) <=> StoredIn(d, u)
  BY Zenon DEF Pg!Has, StoredIn
<1>2. CASE ~StoredIn(d, u)
  <2>1. Pg!Delete(d, u) = Pg!Fail(d, "UserNotFound")
    BY <1>1, <1>2, Zenon DEF Pg!Delete
  <2>2. Pg!Delete(d, u).err = "UserNotFound" /\ Pg!Delete(d, u).store = d
    BY <2>1, Answers
  <2> QED
    BY <1>2, <2>2, KeepsSame, Zenon
<1>3. CASE StoredIn(d, u)
  <2>1. Pg!Delete(d, u) = Pg!Done(new)
    BY <1>1, <1>3, Zenon DEF Pg!Delete
  <2>2. /\ new.users = {x \in d.users : x.id # u}
        /\ new.credentials = Pg!Cascade(d.credentials, u)
        /\ new.oauth = Pg!Cascade(d.oauth, u)
        /\ new.wallets = Pg!Cascade(d.wallets, u)
        /\ DOMAIN new = DOMAIN d
    BY DEF DbOK
  <2>3. Pg!Done(new).store = new /\ Pg!Done(new).err = "nil"
    BY Zenon DEF Pg!Done
  <2> HIDE DEF new
  <2>4. \A v : StoredIn(new, v) <=> StoredIn(d, v) /\ v # u
    BY <2>2, Zenon DEF StoredIn
  <2>5. /\ \A x : x \in new.users <=> x \in d.users /\ x.id # u
        /\ \A x : x \in new.credentials <=> x \in d.credentials /\ x.user # u
        /\ \A x : x \in new.oauth <=> x \in d.oauth /\ x.user # u
        /\ \A x : x \in new.wallets <=> x \in d.wallets /\ x.user # u
    BY <2>2, Zenon DEF Pg!Cascade
  <2>6. DbOK(new, dr)
    BY <2>2, <2>4, <2>5, Zenon DEF DbOK
  <2>7. Keeps(d, new, dr)
    BY <2>4, <2>5, Zenon DEF Keeps, PasswordIn
  <2> QED
    BY <1>3, <2>1, <2>3, <2>4, <2>6, <2>7, Zenon
<1> QED
  BY <1>2, <1>3, Zenon

LEMMA SavePasswordCall ==
  ASSUME NEW d, NEW dr, DbOK(d, dr), NEW u, NEW h
  PROVE  /\ Pg!SavePasswordHash(d, u, h).err \in {"nil", "UserNotFound"}
         /\ DbOK(Pg!SavePasswordHash(d, u, h).store, dr)
         /\ Keeps(d, Pg!SavePasswordHash(d, u, h).store, dr)
         /\ d.oauth \subseteq Pg!SavePasswordHash(d, u, h).store.oauth
         /\ Pg!SavePasswordHash(d, u, h).err = "nil" =>
              PasswordIn(Pg!SavePasswordHash(d, u, h).store, u)
<1>1. Pg!Has(d.users, "id", u) <=> StoredIn(d, u)
  BY Zenon DEF Pg!Has, StoredIn
<1>2. CASE ~StoredIn(d, u)
  <2>1. Pg!SavePasswordHash(d, u, h) = Pg!Fail(d, "UserNotFound")
    BY <1>1, <1>2, Zenon DEF Pg!SavePasswordHash, Pg!ForeignKeyViolation
  <2>2. Pg!SavePasswordHash(d, u, h).err = "UserNotFound" /\ Pg!SavePasswordHash(d, u, h).store = d
    BY <2>1, Answers
  <2> QED
    BY <2>2, KeepsSame, Zenon
<1>3. CASE StoredIn(d, u)
  <2>1. PICK row, new : /\ row = [user |-> u, hash |-> h]
                        /\ new = [d EXCEPT !.credentials = Pg!Cascade(d.credentials, u) \cup {row}]
    BY Zenon
  <2>2. Pg!SavePasswordHash(d, u, h) = Pg!Done(new)
    BY <1>1, <1>3, <2>1, Zenon DEF Pg!SavePasswordHash, Pg!ForeignKeyViolation
  <2>3. Pg!SavePasswordHash(d, u, h).err = "nil" /\ Pg!SavePasswordHash(d, u, h).store = new
    BY <2>2, Answers
  <2>4. /\ new.credentials = Pg!Cascade(d.credentials, u) \cup {row} /\ row.user = u
        /\ new.users = d.users /\ new.oauth = d.oauth /\ new.wallets = d.wallets
        /\ DOMAIN new = DOMAIN d
    BY <2>1, Columns
  <2>5. \A v : StoredIn(new, v) <=> StoredIn(d, v)
    BY <2>4, Zenon DEF StoredIn
  <2>6. \A x \in new.credentials : x \in d.credentials \/ x.user = u
    BY <2>4, Zenon DEF Pg!Cascade
  <2>7. PasswordIn(new, u)
    BY <2>4, Zenon DEF PasswordIn
  <2>8. \A v : PasswordIn(d, v) => PasswordIn(new, v)
    BY <2>4, <2>7, Zenon DEF PasswordIn, Pg!Cascade
  <2>9. DbOK(new, dr)
    BY <1>3, <2>4, <2>5, <2>6, Zenon DEF DbOK
  <2>10. Keeps(d, new, dr)
    BY <2>4, <2>5, <2>8, Zenon DEF Keeps
  <2> QED
    BY <2>3, <2>4, <2>7, <2>9, <2>10, Zenon
<1> QED
  BY <1>2, <1>3, Zenon

LEMMA SaveOAuthCall ==
  ASSUME NEW d, NEW dr, DbOK(d, dr), NEW u, NEW a
  PROVE  /\ Pg!SaveOAuthIdentity(d, a, u, 0).err \in {"nil", "OAuthIdentityExists", "UserNotFound"}
         /\ DbOK(Pg!SaveOAuthIdentity(d, a, u, 0).store, dr)
         /\ Keeps(d, Pg!SaveOAuthIdentity(d, a, u, 0).store, dr)
         /\ d.oauth \subseteq Pg!SaveOAuthIdentity(d, a, u, 0).store.oauth
         /\ Pg!SaveOAuthIdentity(d, a, u, 0).err = "nil" =>
              StoredIn(Pg!SaveOAuthIdentity(d, a, u, 0).store, u)
                /\ LinkedIn(Pg!SaveOAuthIdentity(d, a, u, 0).store, a, u)
<1>1. Pg!Has(d.users, "id", u) <=> StoredIn(d, u)
  BY Zenon DEF Pg!Has, StoredIn
<1>2. ASSUME NEW err \in {"OAuthIdentityExists", "UserNotFound"},
             Pg!SaveOAuthIdentity(d, a, u, 0) = Pg!Fail(d, err)
      PROVE  Pg!SaveOAuthIdentity(d, a, u, 0).err = err /\ Pg!SaveOAuthIdentity(d, a, u, 0).store = d
  BY <1>2, Answers
<1>3. CASE Pg!UniqueViolation(d.oauth, "account", a)
  <2>1. Pg!SaveOAuthIdentity(d, a, u, 0) = Pg!Fail(d, "OAuthIdentityExists")
    BY <1>3, Zenon DEF Pg!SaveOAuthIdentity
  <2> QED
    BY <1>2, <2>1, KeepsSame, Zenon
<1>4. CASE ~Pg!UniqueViolation(d.oauth, "account", a) /\ Pg!ForeignKeyViolation(d, u)
  <2>1. Pg!SaveOAuthIdentity(d, a, u, 0) = Pg!Fail(d, "UserNotFound")
    BY <1>4, Zenon DEF Pg!SaveOAuthIdentity
  <2> QED
    BY <1>2, <2>1, KeepsSame, Zenon
<1>5. CASE ~Pg!UniqueViolation(d.oauth, "account", a) /\ ~Pg!ForeignKeyViolation(d, u)
  <2>1. PICK row, new : /\ row = [account |-> a, user |-> u, created |-> 0]
                        /\ new = [d EXCEPT !.oauth = d.oauth \cup {row}]
    BY Zenon
  <2>2. Pg!SaveOAuthIdentity(d, a, u, 0) = Pg!Done(new)
    BY <1>5, <2>1, Zenon DEF Pg!SaveOAuthIdentity
  <2>3. Pg!SaveOAuthIdentity(d, a, u, 0).err = "nil" /\ Pg!SaveOAuthIdentity(d, a, u, 0).store = new
    BY <2>2, Answers
  <2>4. /\ new.oauth = d.oauth \cup {row} /\ row.user = u /\ row.account = a
        /\ new.users = d.users /\ new.credentials = d.credentials /\ new.wallets = d.wallets
        /\ DOMAIN new = DOMAIN d
    BY <2>1, Columns
  <2>5. StoredIn(d, u) /\ \A v : StoredIn(new, v) <=> StoredIn(d, v)
    BY <1>1, <1>5, <2>4, Zenon DEF StoredIn, Pg!ForeignKeyViolation
  <2>6. LinkedIn(new, a, u)
    BY <2>4, Zenon DEF LinkedIn
  <2>7. DbOK(new, dr)
    BY <2>4, <2>5, Zenon DEF DbOK
  <2>8. Keeps(d, new, dr)
    BY <2>4, <2>5, Zenon DEF Keeps, PasswordIn
  <2> QED
    BY <2>3, <2>4, <2>5, <2>6, <2>7, <2>8, Zenon
<1> QED
  BY <1>3, <1>4, <1>5, Zenon

LEMMA SaveWalletCall ==
  ASSUME NEW d, NEW dr, DbOK(d, dr), NEW u, NEW w
  PROVE  /\ Pg!SaveWalletIdentity(d, w, u, 0).err \in {"nil", "WalletIdentityExists", "UserNotFound"}
         /\ DbOK(Pg!SaveWalletIdentity(d, w, u, 0).store, dr)
         /\ Keeps(d, Pg!SaveWalletIdentity(d, w, u, 0).store, dr)
         /\ d.oauth \subseteq Pg!SaveWalletIdentity(d, w, u, 0).store.oauth
         /\ Pg!SaveWalletIdentity(d, w, u, 0).err = "nil" =>
              OwnsIn(Pg!SaveWalletIdentity(d, w, u, 0).store, w, u)
<1>1. Pg!Has(d.users, "id", u) <=> StoredIn(d, u)
  BY Zenon DEF Pg!Has, StoredIn
<1>2. ASSUME NEW err \in {"WalletIdentityExists", "UserNotFound"},
             Pg!SaveWalletIdentity(d, w, u, 0) = Pg!Fail(d, err)
      PROVE  /\ Pg!SaveWalletIdentity(d, w, u, 0).err = err
             /\ Pg!SaveWalletIdentity(d, w, u, 0).store = d
  BY <1>2, Answers
<1>3. CASE Pg!UniqueViolation(d.wallets, "wallet", w)
  <2>1. Pg!SaveWalletIdentity(d, w, u, 0) = Pg!Fail(d, "WalletIdentityExists")
    BY <1>3, Zenon DEF Pg!SaveWalletIdentity
  <2> QED
    BY <1>2, <2>1, KeepsSame, Zenon
<1>4. CASE ~Pg!UniqueViolation(d.wallets, "wallet", w) /\ Pg!ForeignKeyViolation(d, u)
  <2>1. Pg!SaveWalletIdentity(d, w, u, 0) = Pg!Fail(d, "UserNotFound")
    BY <1>4, Zenon DEF Pg!SaveWalletIdentity
  <2> QED
    BY <1>2, <2>1, KeepsSame, Zenon
<1>5. CASE ~Pg!UniqueViolation(d.wallets, "wallet", w) /\ ~Pg!ForeignKeyViolation(d, u)
  <2>1. PICK row, new : /\ row = [wallet |-> w, user |-> u, created |-> 0]
                        /\ new = [d EXCEPT !.wallets = d.wallets \cup {row}]
    BY Zenon
  <2>2. Pg!SaveWalletIdentity(d, w, u, 0) = Pg!Done(new)
    BY <1>5, <2>1, Zenon DEF Pg!SaveWalletIdentity
  <2>3. Pg!SaveWalletIdentity(d, w, u, 0).err = "nil" /\ Pg!SaveWalletIdentity(d, w, u, 0).store = new
    BY <2>2, Answers
  <2>4. /\ new.wallets = d.wallets \cup {row} /\ row.user = u /\ row.wallet = w
        /\ new.users = d.users /\ new.credentials = d.credentials /\ new.oauth = d.oauth
        /\ DOMAIN new = DOMAIN d
    BY <2>1, Columns
  <2>5. StoredIn(d, u) /\ \A v : StoredIn(new, v) <=> StoredIn(d, v)
    BY <1>1, <1>5, <2>4, Zenon DEF StoredIn, Pg!ForeignKeyViolation
  <2>6. OwnsIn(new, w, u)
    BY <2>1, <2>4, Zenon DEF OwnsIn
  <2>7. DbOK(new, dr)
    <3>1. \A x \in new.wallets : x = [wallet |-> x.wallet, user |-> x.user, created |-> 0]
      BY <2>1, <2>4, Zenon DEF DbOK
    <3> QED
      BY <2>4, <2>5, <3>1, Zenon DEF DbOK
  <2>8. Keeps(d, new, dr)
    BY <2>4, <2>5, Zenon DEF Keeps, PasswordIn
  <2> QED
    BY <2>3, <2>4, <2>6, <2>7, <2>8, Zenon
<1> QED
  BY <1>3, <1>4, <1>5, Zenon

\* The lookups.
LEMMA FoundRow ==
  ASSUME NEW tbl, NEW col, NEW v, Pg!Has(tbl, col, v)
  PROVE  Pg!QueryRow(tbl, col, v) \in tbl /\ Pg!QueryRow(tbl, col, v)[col] = v
BY Zenon DEF Pg!Has, Pg!QueryRow

LEMMA GetByEmailCall ==
  ASSUME NEW d, NEW dr, DbOK(d, dr), NEW e
  PROVE  /\ Pg!GetByEmail(d, e).err \in {"nil", "UserNotFound"}
         /\ Pg!GetByEmail(d, e).store = d
         /\ Pg!GetByEmail(d, e).err = "nil" => Pg!GetByEmail(d, e).val \in dr
<1>1. CASE e # NoEmail /\ Pg!Has(d.users, "email", e)
  <2>1. PICK x : x = Pg!QueryRow(d.users, "email", e)
    BY Zenon
  <2>2. Pg!GetByEmail(d, e) = Pg!Found(d, x.id)
    BY <1>1, <2>1, Zenon DEF Pg!GetByEmail
  <2>3. x.id \in dr
    BY <1>1, <2>1, FoundRow, Zenon DEF DbOK
  <2> QED
    BY <2>2, <2>3, Answers
<1>2. CASE ~(e # NoEmail /\ Pg!Has(d.users, "email", e))
  <2>1. Pg!GetByEmail(d, e) = Pg!Fail(d, "UserNotFound")
    BY <1>2, Zenon DEF Pg!GetByEmail
  <2> QED
    BY <2>1, Answers
<1> QED
  BY <1>1, <1>2, Zenon

LEMMA GetPasswordCall ==
  ASSUME NEW d, NEW u
  PROVE  /\ Pg!GetPasswordHash(d, u).err \in {"nil", "CredentialNotFound"}
         /\ Pg!GetPasswordHash(d, u).store = d
         /\ Pg!GetPasswordHash(d, u).err = "CredentialNotFound" => ~PasswordIn(d, u)
<1>1. Pg!Has(d.credentials, "user", u) <=> PasswordIn(d, u)
  BY Zenon DEF Pg!Has, PasswordIn
<1>2. CASE PasswordIn(d, u)
  <2>1. Pg!GetPasswordHash(d, u) = Pg!Found(d, Pg!QueryRow(d.credentials, "user", u).hash)
    BY <1>1, <1>2, Zenon DEF Pg!GetPasswordHash
  <2> QED
    BY <2>1, Answers
<1>3. CASE ~PasswordIn(d, u)
  <2>1. Pg!GetPasswordHash(d, u) = Pg!Fail(d, "CredentialNotFound")
    BY <1>1, <1>3, Zenon DEF Pg!GetPasswordHash
  <2> QED
    BY <1>3, <2>1, Answers
<1> QED
  BY <1>2, <1>3, Zenon

LEMMA GetOAuthCall ==
  ASSUME NEW d, NEW dr, DbOK(d, dr), NEW a
  PROVE  /\ Pg!GetOAuthIdentity(d, a).err \in {"nil", "OAuthIdentityNotFound"}
         /\ Pg!GetOAuthIdentity(d, a).store = d
         /\ Pg!GetOAuthIdentity(d, a).err = "nil" =>
              Pg!GetOAuthIdentity(d, a).val \in dr /\ LinkedIn(d, a, Pg!GetOAuthIdentity(d, a).val)
<1>1. CASE Pg!Has(d.oauth, "account", a)
  <2>1. PICK x : x = Pg!QueryRow(d.oauth, "account", a)
    BY Zenon
  <2>2. Pg!GetOAuthIdentity(d, a) = Pg!Found(d, x.user)
    BY <1>1, <2>1, Zenon DEF Pg!GetOAuthIdentity
  <2>3. x \in d.oauth /\ x.account = a
    BY <1>1, <2>1, FoundRow
  <2>4. x.user \in dr /\ LinkedIn(d, a, x.user)
    BY <2>3, Zenon DEF DbOK, StoredIn, LinkedIn
  <2> QED
    BY <2>2, <2>4, Answers
<1>2. CASE ~Pg!Has(d.oauth, "account", a)
  <2>1. Pg!GetOAuthIdentity(d, a) = Pg!Fail(d, "OAuthIdentityNotFound")
    BY <1>2, Zenon DEF Pg!GetOAuthIdentity
  <2> QED
    BY <2>1, Answers
<1> QED
  BY <1>1, <1>2, Zenon

LEMMA GetWalletCall ==
  ASSUME NEW d, NEW dr, DbOK(d, dr), NEW w
  PROVE  /\ Pg!GetWalletIdentity(d, w).err \in {"nil", "WalletIdentityNotFound"}
         /\ Pg!GetWalletIdentity(d, w).store = d
         /\ Pg!GetWalletIdentity(d, w).err = "nil" =>
              Pg!GetWalletIdentity(d, w).val \in dr /\ OwnsIn(d, w, Pg!GetWalletIdentity(d, w).val)
<1>1. CASE Pg!Has(d.wallets, "wallet", w)
  <2>1. PICK x : x = Pg!QueryRow(d.wallets, "wallet", w)
    BY Zenon
  <2>2. Pg!GetWalletIdentity(d, w) = Pg!Found(d, x.user)
    BY <1>1, <2>1, Zenon DEF Pg!GetWalletIdentity
  <2>3. x \in d.wallets /\ x.wallet = w
    BY <1>1, <2>1, FoundRow
  <2>4. x.user \in dr
    BY <2>3, Zenon DEF DbOK, StoredIn
  <2>5. OwnsIn(d, w, x.user)
    BY <2>3, Zenon DEF DbOK, OwnsIn
  <2> QED
    BY <2>2, <2>4, <2>5, Answers
<1>2. CASE ~Pg!Has(d.wallets, "wallet", w)
  <2>1. Pg!GetWalletIdentity(d, w) = Pg!Fail(d, "WalletIdentityNotFound")
    BY <1>2, Zenon DEF Pg!GetWalletIdentity
  <2> QED
    BY <2>1, Answers
<1> QED
  BY <1>1, <1>2, Zenon

LEMMA ListCall ==
  ASSUME NEW d, NEW u, NEW res, res = Pg!ListOAuthIdentities(d, u)
  PROVE  /\ res.err = "nil"
         /\ res.store = d
         /\ DOMAIN res.val = {} <=> \A x \in d.oauth : x.user # u
<1> DEFINE rows == {x \in d.oauth : x.user = u}
           times == {x.created : x \in rows}
           val == [t \in times |-> {x["account"] : x \in {y \in rows : y.created = t}}]
<1>1. res = Pg!Found(d, val)
  BY Zenon DEF Pg!ListOAuthIdentities, Pg!QueryOwned
<1>2. DOMAIN val = times
  BY Zenon
<1>3. times = {} <=> \A x \in d.oauth : x.user # u
  OBVIOUS
<1> HIDE DEF val, times
<1>4. /\ res.err = "nil" /\ res.store = d
      /\ res.val = val
  BY <1>1, Answers
<1> QED
  BY <1>2, <1>3, <1>4, Zenon

LEMMA GetByIDCall ==
  ASSUME NEW d, NEW u
  PROVE  Pg!GetByID(d, u).err \in {"nil", "UserNotFound"} /\ Pg!GetByID(d, u).store = d
<1>1. CASE Pg!Has(d.users, "id", u)
  <2>1. Pg!GetByID(d, u) = Pg!Found(d, Pg!QueryRow(d.users, "id", u).email)
    BY <1>1, Zenon DEF Pg!GetByID
  <2> QED
    BY <2>1, Answers
<1>2. CASE ~Pg!Has(d.users, "id", u)
  <2>1. Pg!GetByID(d, u) = Pg!Fail(d, "UserNotFound")
    BY <1>2, Zenon DEF Pg!GetByID
  <2> QED
    BY <2>1, Answers
<1> QED
  BY <1>1, <1>2, Zenon

-----------------------------------------------------------------------------
(* What a call of one request does to another *)

LEMMA NilIsNotStored ==
  ASSUME NEW d, NEW dr \in SUBSET User, DbOK(d, dr)
  PROVE  ~StoredIn(d, Nil)
BY StoresAssumption, Zenon DEF DbOK, StoredIn

LEMMA KeepsReachable ==
  ASSUME NEW d, NEW e, NEW dr, Keeps(d, e, dr), NEW u \in dr, StoredIn(e, u),
         StoredIn(d, u) => ReachableIn(d, u)
  PROVE  ReachableIn(e, u)
BY Zenon DEF Keeps, ReachableIn

LEMMA KeepsLinked ==
  ASSUME NEW d, NEW e, NEW dr, Keeps(d, e, dr), NEW u \in dr, StoredIn(e, u), NEW a,
         StoredIn(d, u) => LinkedIn(d, a, u)
  PROVE  LinkedIn(e, a, u)
BY Zenon DEF Keeps, LinkedIn

LEMMA KeepsOwned ==
  ASSUME NEW d, NEW e, NEW dr, Keeps(d, e, dr), NEW u \in dr, StoredIn(e, u), NEW w,
         StoredIn(d, u) => OwnsIn(d, w, u)
  PROVE  OwnsIn(e, w, u)
<1>1. PICK row : row = [wallet |-> w, user |-> u, created |-> 0]
  BY Zenon
<1>2. row.user = u
  BY <1>1, Zenon
<1>3. StoredIn(d, u) => row \in d.wallets
  BY <1>1, Zenon DEF OwnsIn
<1>4. row \in e.wallets
  BY <1>2, <1>3, Zenon DEF Keeps
<1> QED
  BY <1>1, <1>4, Zenon DEF OwnsIn

\* Whatever a call does, it does not disturb a request.
LEMMA Frame ==
  ASSUME NEW d, NEW e, NEW dr \in SUBSET User, NEW dr2 \in SUBSET User, NEW n \in Nat, NEW n2 \in Nat,
         NEW q, DbOK(d, dr), DbOK(e, dr2), Keeps(d, e, dr), dr \subseteq dr2, n <= n2,
         ReqOK(q, d, dr, n)
  PROVE  ReqOK(q, e, dr2, n2)
<1>1. Common(q, d, dr, n) /\ Place(q, d, dr, n)
  BY Zenon DEF ReqOK
<1>2. (n >= 1 => n2 >= 1) /\ (n >= 2 => n2 >= 2)
  OBVIOUS
<1>3. \A u \in dr : u \in dr2 /\ (StoredIn(e, u) => StoredIn(d, u))
  BY Zenon DEF Keeps
<1>4. Common(q, e, dr2, n2)
  <2>2. ASSUME NEW u \in q.before PROVE u \in dr2 /\ (StoredIn(e, u) => PasswordIn(e, u))
    BY <1>1, <1>3, Zenon DEF Common, Keeps
  <2> QED
    BY <1>1, <1>2, <2>2, Zenon DEF Common
<1>5. Kept(q, d) => Kept(q, e)
  <2>1. CASE q.made = Nil
    BY <2>1, NilIsNotStored, Zenon DEF Kept
  <2>2. CASE q.made \in dr
    BY <2>2, KeepsReachable, Zenon DEF Kept
  <2> QED
    BY <1>1, <2>1, <2>2, Zenon DEF Common
<1>6. Settled(q, d, n) => Settled(q, e, n2)
  BY <1>2, <1>5, Zenon DEF Settled, Excused
<1>7. SignsIn(q, d, dr) => SignsIn(q, e, dr2)
  <2>1. ASSUME q.user \in dr, StoredIn(d, q.user) => LinkedIn(d, q.account, q.user)
        PROVE  StoredIn(e, q.user) => LinkedIn(e, q.account, q.user)
    BY <2>1, KeepsLinked, Zenon
  <2>2. ASSUME q.user \in dr, StoredIn(d, q.user) => OwnsIn(d, q.wallet, q.user)
        PROVE  StoredIn(e, q.user) => OwnsIn(e, q.wallet, q.user)
    BY <2>2, KeepsOwned, Zenon
  <2> QED
    BY <2>1, <2>2, Zenon DEF SignsIn
<1>8. Mine(q, dr) => Mine(q, dr2)
  BY <1>3, Zenon DEF Mine
<1>9. ASSUME q.user \in dr,
             \A x \in q.stood : x.user = q.user /\ (StoredIn(d, q.user) => x \in d.oauth)
      PROVE  \A x \in q.stood : x.user = q.user /\ (StoredIn(e, q.user) => x \in e.oauth)
  BY <1>3, <1>9, Zenon DEF Keeps
<1>10. Place(q, e, dr2, n2)
  <2>1. AtPassword(q, dr) => AtPassword(q, dr2)
    BY <1>8, Zenon DEF AtPassword
  <2>2. AtRollback(q, dr) => AtRollback(q, dr2)
    BY <1>8, Zenon DEF AtRollback
  <2>3. AtIdentity(q, d, n) => AtIdentity(q, e, n2)
    BY <1>6, Zenon DEF AtIdentity
  <2>4. AtFindAgain(q, d) => AtFindAgain(q, e)
    BY <1>5, Zenon DEF AtFindAgain
  <2>5. AtAutolink(q, d, dr) => AtAutolink(q, e, dr2)
    BY <1>3, <1>5, Zenon DEF AtAutolink
  <2>6. AtLink(q, d, dr) => AtLink(q, e, dr2)
    BY <1>3, <1>5, Zenon DEF AtLink
  <2>7. AtLinks(q, d, dr) => AtLinks(q, e, dr2)
    BY <1>5, <1>9, Zenon DEF AtLinks
  <2>8. AtDiscard(q, d, dr) => AtDiscard(q, e, dr2)
    BY <1>3, <1>5, Zenon DEF AtDiscard
  <2>9. AtWallet(q, d, n) => AtWallet(q, e, n2)
    BY <1>6, Zenon DEF AtWallet
  <2>10. AtWalletLink(q, dr) => AtWalletLink(q, dr2)
    BY <1>8, Zenon DEF AtWalletLink
  <2>11. AtWalletDiscard(q, dr) => AtWalletDiscard(q, dr2)
    BY <1>8, Zenon DEF AtWalletDiscard
  <2>12. AtGetUser(q, d, dr, n) => AtGetUser(q, e, dr2, n2)
    BY <1>6, <1>7, Zenon DEF AtGetUser
  <2>13. AtIssue(q, d, dr, n) => AtIssue(q, e, dr2, n2)
    BY <1>6, <1>7, Zenon DEF AtIssue
  <2>14. AtDone(q, d, n) => AtDone(q, e, n2)
    BY <1>6, Zenon DEF AtDone
  <2> QED
    BY <1>1, <2>1, <2>2, <2>3, <2>4, <2>5, <2>6, <2>7, <2>8, <2>9, <2>10, <2>11, <2>12, <2>13,
       <2>14, Zenon DEF Place
<1> QED
  BY <1>4, <1>10, Zenon DEF ReqOK

\* What may come of a call with the result res on the tables d.
Outcome(out, res, q, d, detached) ==
  \/ /\ out.err = res.err /\ out.val = res.val /\ out.store = res.store /\ out.faults = 0
     /\ ~q.cancelled \/ detached
  \/ out.err = "error" /\ out.faults = 1 /\ out.store \in {d, res.store}
  \/ /\ out.err = "error" /\ out.faults = 0 /\ out.store = d
     /\ q.cancelled /\ ~detached

LEMMA OutcomeOf ==
  ASSUME NEW r, NEW res, NEW detached \in BOOLEAN, NEW out \in Outcomes(r, res, detached),
         req[r].cancelled \in BOOLEAN
  PROVE  Outcome(out, res, req[r], db, detached)
<1> DEFINE failure(s, n) == [store |-> s, err |-> "error", val |-> Nil, faults |-> n]
           normal == [store |-> res.store, err |-> res.err, val |-> res.val, faults |-> 0]
<1>1. CASE req[r].cancelled /\ ~detached
  <2>1. out = failure(db, 0)
    BY <1>1, Zenon DEF Outcomes
  <2> QED
    BY <1>1, <2>1, Zenon DEF Outcome
<1>2. CASE ~(req[r].cancelled /\ ~detached)
  <2>1. out \in {normal, failure(db, 1), failure(res.store, 1)}
    <3>1. CASE faults < MaxFaults
      BY <1>2, <3>1, Zenon DEF Outcomes
    <3>2. CASE ~(faults < MaxFaults)
      BY <1>2, <3>2, Zenon DEF Outcomes
    <3> QED
      BY <3>1, <3>2, Zenon
  <2>2. CASE out = normal
    BY <1>2, <2>2, Zenon DEF Outcome
  <2>3. CASE out = failure(db, 1)
    BY <2>3, Zenon DEF Outcome
  <2>4. CASE out = failure(res.store, 1)
    BY <2>4, Zenon DEF Outcome
  <2> QED
    BY <2>1, <2>2, <2>3, <2>4, Zenon
<1> QED
  BY <1>1, <1>2, Zenon

-----------------------------------------------------------------------------
(* How a request goes on *)

\* Request x with what came of its call noted.
Noted(x, out) == [x EXCEPT !.failed = @ \/ out.err = "error"]

\* What a request keeps from its beginning.
SameTask(p, q) == /\ DOMAIN p = Fields
                  /\ p.kind = q.kind /\ p.account = q.account /\ p.wallet = q.wallet
                  /\ p.cancelled = q.cancelled /\ p.before = q.before

\* Request y is at pc as p, with the error err, after a call that came out as out.
Becomes(p, y, pc, err, out) ==
  /\ SameTask(p, y)
  /\ p.user = y.user /\ p.created = y.created /\ p.linked = y.linked /\ p.again = y.again
  /\ p.cause = y.cause /\ p.made = y.made /\ p.stood = y.stood
  /\ p.pc = pc /\ p.err = err
  /\ p.failed = (y.failed \/ out.err = "error")

LEMMA FieldsAre ==
  Fields = {"pc", "kind", "email", "account", "wallet", "secret", "user", "created", "linked",
            "again", "cause", "err", "named", "cancelled", "made", "failed", "before", "stood"}
BY Zenon DEF Fields, NoRequest

LEMMA GoToBecomes ==
  ASSUME NEW y, DOMAIN y = Fields, NEW pc, NEW err, y.err = err, NEW out,
         NEW p, p = Noted(GoTo(y, pc), out)
  PROVE  Becomes(p, y, pc, err, out)
BY FieldsAre DEF Noted, GoTo, SameTask, Becomes

LEMMA FailsBecomes ==
  ASSUME NEW y, DOMAIN y = Fields, NEW err, NEW out,
         NEW p, p = Noted(Fails(y, err), out) \/ p = Noted(FailsNaming(y, err), out)
  PROVE  Becomes(p, y, "done", err, out)
BY FieldsAre, ZenonT(60) DEF Noted, Fails, FailsNaming, SameTask, Becomes

\* What is known of a request goes on with it.
Carried(p, y, d, dr, n, out) ==
  /\ Common(p, d, dr, n)
  /\ p.failed => y.failed \/ out.err = "error"
  /\ Kept(y, d) => Kept(p, d)
  /\ Mine(y, dr) => Mine(p, dr)
  /\ Settled(y, d, n) => Settled(p, d, n)
  /\ out.err = "error" /\ (y.cause = "error" => n >= 2) => Settled(p, d, n)
  /\ SignsIn(y, d, dr) => SignsIn(p, d, dr)
  /\ Fresh(y) /\ out.err # "error" => Fresh(p)

LEMMA Carries ==
  ASSUME NEW d, NEW dr, NEW n, NEW y, NEW p, NEW pc, NEW err, NEW out,
         Common(y, d, dr, n), Becomes(p, y, pc, err, out), pc = "done" \/ err = {}
  PROVE  Carried(p, y, d, dr, n, out)
<1>1. Common(p, d, dr, n)
  <2>1. /\ DOMAIN p = Fields /\ p.failed \in BOOLEAN /\ p.cancelled = y.cancelled /\ p.made = y.made
        /\ p.before = y.before /\ p.cause = y.cause /\ (p.pc # "done" => p.err = {})
    BY Zenon DEF Becomes, SameTask
  <2> QED
    BY <2>1, Zenon DEF Common
<1>2. p.failed <=> y.failed \/ out.err = "error"
  BY Zenon DEF Becomes
<1>3. Kept(y, d) <=> Kept(p, d)
  BY Zenon DEF Becomes, Kept
<1>4. Settled(y, d, n) => Settled(p, d, n)
  BY <1>2, <1>3, Zenon DEF Becomes, Settled, Excused
<1>5. out.err = "error" /\ (y.cause = "error" => n >= 2) => Settled(p, d, n)
  BY <1>2, Zenon DEF Becomes, Settled, Excused
<1>6. SignsIn(y, d, dr) => SignsIn(p, d, dr)
  BY Zenon DEF Becomes, SameTask, SignsIn
<1>7. Mine(y, dr) => Mine(p, dr)
  BY Zenon DEF Becomes, Mine
<1>8. Fresh(y) /\ out.err # "error" => Fresh(p)
  BY <1>2, Zenon DEF Becomes, Fresh
<1> QED
  BY <1>1, <1>2, <1>3, <1>4, <1>5, <1>6, <1>7, <1>8, Zenon DEF Carried

\* Nothing was made yet.
LEMMA FreshIsSettled ==
  ASSUME NEW d, NEW n, NEW q, Fresh(q), ~StoredIn(d, Nil)
  PROVE  Kept(q, d) /\ Settled(q, d, n)
BY Zenon DEF Fresh, Kept, Settled

\* Request y goes on to the place pc.
Goes(p, y, pc, d, dr, n, out) == Becomes(p, y, pc, {}, out) /\ Carried(p, y, d, dr, n, out)

LEMMA GoToGoes ==
  ASSUME NEW d, NEW dr, NEW n, NEW y, Common(y, d, dr, n), y.err = {}, NEW pc, NEW out,
         NEW p, p = Noted(GoTo(y, pc), out)
  PROVE  Goes(p, y, pc, d, dr, n, out)
<1>1. PICK err : err = {}
  BY Zenon
<1>2. Becomes(p, y, pc, err, out)
  BY <1>1, GoToBecomes, Zenon DEF Common
<1>3. Carried(p, y, d, dr, n, out)
  BY <1>1, <1>2, Carries, Zenon
<1> QED
  BY <1>1, <1>2, <1>3, Zenon DEF Goes

\* A request that ends.
LEMMA Ends ==
  ASSUME NEW d, NEW dr, NEW n, NEW y, NEW p, NEW err, NEW out,
         Common(y, d, dr, n), Becomes(p, y, "done", err, out),
         y.kind \in {"register", "login", "oauth", "wallet"},
         Settled(y, d, n) \/ (out.err = "error" /\ (y.cause = "error" => n >= 2)),
         err \in {{}, {"error"}} \/ (~y.failed /\ out.err # "error"),
         y.kind = "login" => err \in {{}, {"error"}} \/ "InvalidCredentials" \in err
  PROVE  ReqOK(p, d, dr, n)
<1>1. Carried(p, y, d, dr, n, out) /\ p.pc = "done" /\ p.err = err /\ p.kind = y.kind
  <2>1. PICK pc : pc = "done"
    BY Zenon
  <2>2. Carried(p, y, d, dr, n, out)
    BY <2>1, Carries, Zenon
  <2> QED
    BY <2>2, Zenon DEF Becomes, SameTask
<1>2. ErrOK(p)
  BY <1>1, Zenon DEF ErrOK, Carried
<1> QED
  BY <1>1, <1>2, Zenon DEF ReqOK, Place, AtDone, Carried

\* Request y ends, as p, with the error err, after a call that came out as out.
EndsAs(p, y, err, out) ==
  \/ p = Noted(Fails(y, err), out)
  \/ p = Noted(FailsNaming(y, err), out)
  \/ p = Noted(GoTo(y, "done"), out) /\ y.err = err

MayEnd(y, err, out, d, n) ==
  /\ y.kind \in {"register", "login", "oauth", "wallet"}
  /\ Settled(y, d, n) \/ (out.err = "error" /\ (y.cause = "error" => n >= 2))
  /\ err \in {{}, {"error"}} \/ (~y.failed /\ out.err # "error")
  /\ y.kind = "login" => err \in {{}, {"error"}} \/ "InvalidCredentials" \in err

Ended(p, y, d, dr, n) == ReqOK(p, d, dr, n) /\ p.made = y.made

LEMMA Finishes ==
  ASSUME NEW d, NEW dr, NEW n, NEW y, Common(y, d, dr, n), NEW err, NEW out, NEW p,
         EndsAs(p, y, err, out), MayEnd(y, err, out, d, n)
  PROVE  Ended(p, y, d, dr, n)
<1>1. DOMAIN y = Fields
  BY Zenon DEF Common
<1>2. Becomes(p, y, "done", err, out)
  <2>1. PICK pc : pc = "done"
    BY Zenon
  <2>2. CASE p = Noted(GoTo(y, pc), out) /\ y.err = err
    BY <1>1, <2>1, <2>2, GoToBecomes, Zenon
  <2>3. CASE p = Noted(Fails(y, err), out) \/ p = Noted(FailsNaming(y, err), out)
    BY <1>1, <2>3, FailsBecomes, Zenon
  <2> QED
    BY <2>1, <2>2, <2>3, Zenon DEF EndsAs
<1>3. ReqOK(p, d, dr, n)
  BY <1>2, Ends, Zenon DEF MayEnd
<1> QED
  BY <1>2, <1>3, Zenon DEF Becomes, Ended

\* Request y is q but for what the step itself assigns.
Alters(y, q) == SameTask(y, q) /\ y.pc = q.pc /\ y.err = q.err /\ y.failed = q.failed

LEMMA Altered ==
  ASSUME NEW d, NEW dr, NEW n, NEW y, NEW q, Common(q, d, dr, n), Alters(y, q),
         y.made \in dr \cup {Nil}, y.cause = "error" => n >= 1
  PROVE  Common(y, d, dr, n)
BY Zenon DEF Common, Alters, SameTask

\* A sign-in whose link failed.
LEMMA LosesLink ==
  ASSUME NEW d, NEW dr, NEW n, NEW y, Common(y, d, dr, n), y.err = {}, y.kind = "oauth",
         NEW out, NEW p, p = Noted(AfterLostLink(y), out),
         Settled(y, d, n) \/ (out.err = "error" /\ (y.cause = "error" => n >= 2))
  PROVE  Ended(p, y, d, dr, n)
<1>1. CASE y.cause = "OAuthIdentityExists"
  <2>1. PICK z, pc : z = [y EXCEPT !.again = TRUE] /\ pc = "oauth.identity"
    BY Zenon
  <2>2. /\ Alters(z, y) /\ z.again = TRUE /\ z.made = y.made /\ z.cause = y.cause
    BY <2>1, FieldsAre DEF Alters, SameTask, Common
  <2>3. Common(z, d, dr, n) /\ z.err = {} /\ z.kind = "oauth"
    BY <2>2, Altered, Zenon DEF Common, Alters, SameTask
  <2>4. Settled(y, d, n) => Settled(z, d, n)
    BY <2>2, Zenon DEF Settled, Kept, Excused, Alters
  <2>5. p = Noted(GoTo(z, pc), out)
    BY <1>1, <2>1, Zenon DEF AfterLostLink
  <2>6. Goes(p, z, pc, d, dr, n, out)
    BY <2>3, <2>5, GoToGoes, Zenon
  <2>7. Settled(p, d, n) /\ Common(p, d, dr, n)
    BY <2>2, <2>4, <2>6, Zenon DEF Goes, Carried
  <2>8. p.pc = "oauth.identity" /\ p.kind = "oauth" /\ p.again /\ p.made = y.made
    BY <2>1, <2>2, <2>3, <2>6, Zenon DEF Goes, Becomes, SameTask
  <2> QED
    BY <2>7, <2>8, Zenon DEF ReqOK, Place, AtIdentity, Ended
<1>2. CASE y.cause # "OAuthIdentityExists"
  <2>1. PICK z, err : z = [y EXCEPT !.created = FALSE] /\ err = {"error"}
    BY Zenon
  <2>2. /\ Alters(z, y) /\ z.made = y.made /\ z.cause = y.cause
    BY <2>1, FieldsAre DEF Alters, SameTask, Common
  <2>3. Common(z, d, dr, n) /\ z.kind = "oauth"
    BY <2>2, Altered, Zenon DEF Common, Alters, SameTask
  <2>4. Settled(y, d, n) => Settled(z, d, n)
    BY <2>2, Zenon DEF Settled, Kept, Excused, Alters
  <2>5. EndsAs(p, z, err, out)
    BY <1>2, <2>1, Zenon DEF AfterLostLink, EndsAs
  <2>6. MayEnd(z, err, out, d, n)
    BY <2>1, <2>2, <2>3, <2>4, Zenon DEF MayEnd
  <2>7. Ended(p, z, d, dr, n)
    BY <2>3, <2>5, <2>6, Finishes, Zenon
  <2> QED
    BY <2>2, <2>7, Zenon DEF Ended
<1> QED
  BY <1>1, <1>2, Zenon

\* The place of a request tells what is known of it.
LEMMA PlaceIs ==
  ASSUME NEW q, NEW d, NEW dr, NEW n, ReqOK(q, d, dr, n)
  PROVE  /\ Common(q, d, dr, n)
         /\ q.pc = "idle" => AtIdle(q)
         /\ q.pc \in {"register.lookup", "register.create"} => AtRegister(q)
         /\ q.pc = "register.password" => AtPassword(q, dr)
         /\ q.pc = "register.rollback" => AtRollback(q, dr)
         /\ q.pc \in {"login.lookup", "login.password"} => AtLogin(q)
         /\ q.pc = "oauth.identity" => AtIdentity(q, d, n)
         /\ q.pc \in {"oauth.find", "oauth.create"} => AtFind(q)
         /\ q.pc = "oauth.findAgain" => AtFindAgain(q, d)
         /\ q.pc = "oauth.autolink" => AtAutolink(q, d, dr)
         /\ q.pc = "oauth.link" => AtLink(q, d, dr)
         /\ q.pc = "oauth.links" => AtLinks(q, d, dr)
         /\ q.pc = "oauth.discard" => AtDiscard(q, d, dr)
         /\ q.pc = "wallet.identity" => AtWallet(q, d, n)
         /\ q.pc = "wallet.create" => AtWalletCreate(q)
         /\ q.pc = "wallet.link" => AtWalletLink(q, dr)
         /\ q.pc = "wallet.discard" => AtWalletDiscard(q, dr)
         /\ q.pc = "getUser" => AtGetUser(q, d, dr, n)
         /\ q.pc = "issue" => AtIssue(q, d, dr, n)
         /\ q.pc = "done" => AtDone(q, d, n)
<1>1. Common(q, d, dr, n) /\ Place(q, d, dr, n)
  BY Zenon DEF ReqOK
<1> USE DEF Place, AtIdle, AtRegister, AtPassword, AtRollback, AtLogin, AtIdentity, AtFind,
     AtFindAgain, AtAutolink, AtLink, AtLinks, AtDiscard, AtWallet, AtWalletCreate, AtWalletLink,
     AtWalletDiscard, AtGetUser, AtIssue, AtDone
<1>20. q.pc = "idle" => AtIdle(q)
  BY <1>1
<1>2. q.pc \in {"register.lookup", "register.create"} => AtRegister(q)
  BY <1>1
<1>3. q.pc = "register.password" => AtPassword(q, dr)
  BY <1>1
<1>4. q.pc = "register.rollback" => AtRollback(q, dr)
  BY <1>1
<1>5. q.pc \in {"login.lookup", "login.password"} => AtLogin(q)
  BY <1>1
<1>6. q.pc = "oauth.identity" => AtIdentity(q, d, n)
  BY <1>1
<1>7. q.pc \in {"oauth.find", "oauth.create"} => AtFind(q)
  BY <1>1
<1>8. q.pc = "oauth.findAgain" => AtFindAgain(q, d)
  BY <1>1
<1>9. q.pc = "oauth.autolink" => AtAutolink(q, d, dr)
  BY <1>1
<1>10. q.pc = "oauth.link" => AtLink(q, d, dr)
  BY <1>1
<1>11. q.pc = "oauth.links" => AtLinks(q, d, dr)
  BY <1>1
<1>12. q.pc = "oauth.discard" => AtDiscard(q, d, dr)
  BY <1>1
<1>13. q.pc = "wallet.identity" => AtWallet(q, d, n)
  BY <1>1
<1>14. q.pc = "wallet.create" => AtWalletCreate(q)
  BY <1>1
<1>15. q.pc = "wallet.link" => AtWalletLink(q, dr)
  BY <1>1
<1>16. q.pc = "wallet.discard" => AtWalletDiscard(q, dr)
  BY <1>1
<1>17. q.pc = "getUser" => AtGetUser(q, d, dr, n)
  BY <1>1
<1>18. q.pc = "issue" => AtIssue(q, d, dr, n)
  BY <1>1
<1>19. q.pc = "done" => AtDone(q, d, n)
  BY <1>1
<1> HIDE DEF Place, AtIdle, AtRegister, AtPassword, AtRollback, AtLogin, AtIdentity, AtFind,
     AtFindAgain, AtAutolink, AtLink, AtLinks, AtDiscard, AtWallet, AtWalletCreate, AtWalletLink,
     AtWalletDiscard, AtGetUser, AtIssue, AtDone
<1> QED
  BY <1>1, <1>2, <1>3, <1>4, <1>5, <1>6, <1>7, <1>8, <1>9, <1>10, <1>11, <1>12, <1>13, <1>14,
     <1>15, <1>16, <1>17, <1>18, <1>19, <1>20, Zenon

-----------------------------------------------------------------------------
(* The steps *)

\* A step of request r keeps the invariant and the other requests, and a link
\* that it takes away did not stand when the rollback of r began.
Sound(r) ==
  /\ AccInv'
  /\ \A s \in Request \ {r} : req'[s] = req[s]
  /\ \A x \in db.oauth \ db'.oauth : req[r].kind = "oauth" => x \notin req[r].stood

LEMMA Stepped ==
  ASSUME AccInv, NEW r \in Request, NEW p, req' = [req EXCEPT ![r] = p],
         faults' \in Nat, faults <= faults', drawn' \in SUBSET User,
         DbOK(db', drawn'), Keeps(db, db', drawn), ReqOK(p, db', drawn', faults'),
         \/ drawn' = drawn /\ p.made = req[r].made
         \/ req[r].made = Nil /\ drawn' = drawn \cup {p.made},
         \/ db.oauth \subseteq db'.oauth
         \/ req[r].kind # "oauth"
         \/ req[r].stood = {}
  PROVE  Sound(r)
<1>1. /\ DbOK(db, drawn) /\ drawn \in SUBSET User /\ faults \in Nat /\ DOMAIN req = Request
      /\ \A s \in Request : ReqOK(req[s], db, drawn, faults)
      /\ \A u \in drawn : \E s \in Request : req[s].made = u
  BY Zenon DEF AccInv
<1>3. /\ DOMAIN req' = Request /\ req'[r] = p
      /\ \A s \in Request \ {r} : req'[s] = req[s]
  BY <1>1
<1>4. \A s \in Request : ReqOK(req'[s], db', drawn', faults')
  <2>1. ASSUME NEW s \in Request \ {r} PROVE ReqOK(req[s], db', drawn', faults')
    <3> QED
      BY <1>1, Frame, Zenon
  <2> QED
    BY <1>3, <2>1, Zenon
<1>5. \A u \in drawn' : \E s \in Request : req'[s].made = u
  <2>1. Nil \notin drawn
    BY <1>1, StoresAssumption, Zenon
  <2>2. ASSUME NEW u \in drawn PROVE \E s \in Request : req'[s].made = u
    <3>1. PICK s \in Request : req[s].made = u
      BY <1>1, Zenon
    <3>2. CASE s = r
      BY <1>3, <2>1, <3>1, Zenon
    <3>3. CASE s # r
      BY <1>3, <3>1, <3>3, Zenon
    <3> QED
      BY <3>2, <3>3, Zenon
  <2> QED
    BY <1>3, <2>2, ZenonT(60)
<1>6. AccInv'
  BY <1>4, <1>5, Zenon DEF AccInv
<1> QED
  BY <1>3, <1>6, Zenon DEF Sound

\* Request r makes a call with the result res, which comes out as out, and goes
\* on as x.
Makes(r, res, detached, out, x) ==
  /\ out \in Outcomes(r, res, detached)
  /\ db' = out.store
  /\ faults' = faults + out.faults
  /\ req' = [req EXCEPT ![r] = Noted(x, out)]

\* What is known after the call.
Called(q, res, detached, out) ==
  /\ DbOK(db', drawn') /\ Keeps(db, db', drawn) /\ ~StoredIn(db', Nil)
  /\ faults' \in Nat /\ faults <= faults' /\ drawn' \in SUBSET User
  /\ ReqOK(q, db', drawn', faults')
  /\ db' \in {db, res.store}
  /\ out.err # "error" => out.err = res.err /\ out.val = res.val /\ db' = res.store
  /\ out.err = "error" => faults' >= 1 /\ (detached /\ q.cause = "error" => faults' >= 2)

LEMMA Calling ==
  ASSUME AccInv, NEW r \in Request, NEW res, NEW detached \in BOOLEAN, NEW out, NEW x,
         Makes(r, res, detached, out, x), res.err # "error",
         DbOK(res.store, drawn'), Keeps(db, res.store, drawn),
         drawn \subseteq drawn', drawn' \in SUBSET User
  PROVE  Called(req[r], res, detached, out)
<1>1. out \in Outcomes(r, res, detached) /\ db' = out.store /\ faults' = faults + out.faults
  BY Zenon DEF Makes
<1>2. /\ DbOK(db, drawn) /\ drawn \in SUBSET User /\ faults \in Nat
      /\ ReqOK(req[r], db, drawn, faults) /\ DbOK(db, drawn')
  BY Zenon DEF AccInv, DbOK
<1>3. /\ req[r].cancelled \in BOOLEAN
      /\ req[r].cancelled \/ req[r].cause = "error" => faults >= 1
  BY <1>2, Zenon DEF ReqOK, Common
<1>4. Outcome(out, res, req[r], db, detached)
  BY <1>1, <1>3, OutcomeOf, Zenon
<1>5. /\ db' \in {db, res.store} /\ out.faults \in {0, 1}
      /\ out.err # "error" => out.err = res.err /\ out.val = res.val /\ db' = res.store
      /\ out.err = "error" => out.faults = 1 \/ (out.faults = 0 /\ req[r].cancelled /\ ~detached)
  BY <1>1, <1>4 DEF Outcome
<1>6. faults' \in Nat /\ faults <= faults'
  BY <1>1, <1>2, <1>5
<1>7. out.err = "error" => faults' >= 1 /\ (detached /\ req[r].cause = "error" => faults' >= 2)
  BY <1>1, <1>2, <1>3, <1>5
<1>8. DbOK(db', drawn') /\ Keeps(db, db', drawn)
  BY <1>2, <1>5, KeepsSame, Zenon
<1>9. ReqOK(req[r], db', drawn', faults')
  BY <1>2, <1>6, <1>8, Frame, Zenon
<1>10. ~StoredIn(db', Nil)
  BY <1>8, NilIsNotStored, Zenon
<1> QED
  BY <1>5, <1>6, <1>7, <1>8, <1>9, <1>10, Zenon DEF Called


\* What the steps make of a request before it goes on: a new user, the user of a
\* link that was found, and a link that failed.
Drawing(q, u) == [q EXCEPT !.user = u, !.made = u]
FoundLink(q, u) == [q EXCEPT !.created = @ /\ u = q.user, !.linked = FALSE, !.user = u]
LostLink(q, out) ==
  [q EXCEPT !.cause = out.err, !.stood = {x \in out.store.oauth : x.user = q.user}]

-----------------------------------------------------------------------------
(* Requests begin, and clients go away *)

\* Request y as it begins: at its first call, or refused.
BeginsAs(y) ==
  /\ DOMAIN y = Fields
  /\ y.made = Nil /\ y.failed = FALSE /\ y.cause = "nil" /\ y.cancelled = FALSE
  /\ \/ /\ y.err = {}
        /\ \/ y.pc = "register.lookup" /\ y.kind = "register"
           \/ y.pc = "login.lookup" /\ y.kind = "login"
           \/ y.pc = "oauth.identity" /\ y.kind = "oauth"
           \/ y.pc = "wallet.identity" /\ y.kind = "wallet"
     \/ /\ y.pc = "done" /\ y.kind \in {"register", "login", "oauth", "wallet"}
        /\ y.kind = "login" => "InvalidCredentials" \in y.err

LEMMA BeginStep ==
  ASSUME AccInv, NEW r \in Request, NEW y, Begin(r, y), BeginsAs(y)
  PROVE  Sound(r)
<1>1. PICK b, p : b = {c.user : c \in db.credentials} /\ p = [y EXCEPT !.before = b]
  BY Zenon
<1>2. req' = [req EXCEPT ![r] = p] /\ db' = db /\ drawn' = drawn /\ faults' = faults
  BY <1>1, Zenon DEF Begin
<1>3. /\ DbOK(db, drawn) /\ drawn \in SUBSET User /\ faults \in Nat
      /\ ReqOK(req[r], db, drawn, faults) /\ ~StoredIn(db, Nil)
  BY NilIsNotStored, Zenon DEF AccInv
<1>4. req[r].made = Nil
  <2>1. req[r].pc = "idle"
    BY Zenon DEF Begin, At
  <2> QED
    BY <1>3, <2>1, PlaceIs, Zenon DEF AtIdle, Fresh
<1>5. /\ DOMAIN p = Fields /\ p.before = b
      /\ p.pc = y.pc /\ p.kind = y.kind /\ p.err = y.err /\ p.made = y.made /\ p.failed = y.failed
      /\ p.cause = y.cause /\ p.cancelled = y.cancelled
  BY <1>1, FieldsAre DEF BeginsAs
<1>6. Fresh(p) /\ Settled(p, db, faults)
  <2>1. Fresh(p)
    BY <1>5, Zenon DEF BeginsAs, Fresh
  <2> QED
    BY <1>3, <2>1, FreshIsSettled, Zenon
<1>7. Common(p, db, drawn, faults)
  <2>1. ASSUME NEW u \in b PROVE u \in drawn /\ PasswordIn(db, u)
    <3>1. PICK c \in db.credentials : c.user = u
      BY <1>1, Zenon
    <3> QED
      BY <1>3, <3>1, Zenon DEF DbOK, StoredIn, PasswordIn
  <2>2. p.pc # "done" => p.err = {}
    BY <1>5, Zenon DEF BeginsAs
  <2>3. /\ p.failed \in BOOLEAN /\ p.cancelled \in BOOLEAN /\ p.made = Nil
        /\ ~p.cancelled /\ p.cause # "error"
    BY <1>5, Zenon DEF BeginsAs
  <2> QED
    BY <1>5, <2>1, <2>2, <2>3, Zenon DEF Common
<1>8. Place(p, db, drawn, faults)
  <2>1. CASE p.pc = "done"
    <3>1. p.kind \in {"register", "login", "oauth", "wallet"} /\ ErrOK(p)
      BY <1>5, <2>1, Zenon DEF BeginsAs, ErrOK
    <3> QED
      BY <1>6, <2>1, <3>1, Zenon DEF Place, AtDone
  <2>2. CASE p.pc # "done"
    BY <1>5, <1>6, <2>2, Zenon DEF BeginsAs, Place, AtRegister, AtLogin, AtIdentity, AtWallet
  <2> QED
    BY <2>1, <2>2, Zenon
<1>9. ReqOK(p, db', drawn', faults') /\ p.made = req[r].made
  BY <1>2, <1>4, <1>5, <1>7, <1>8, Zenon DEF ReqOK, BeginsAs
<1>10. /\ faults' \in Nat /\ faults <= faults' /\ drawn' \in SUBSET User
       /\ DbOK(db', drawn') /\ Keeps(db, db', drawn) /\ db.oauth \subseteq db'.oauth
  BY <1>2, <1>3, KeepsSame
<1> QED
  BY <1>2, <1>9, <1>10, Stepped, Zenon

LEMMA RefuseStep ==
  ASSUME AccInv, NEW r \in Request, NEW kind \in {"register", "login", "oauth", "wallet"}, NEW errors,
         Refuse(r, kind, errors), kind = "login" => \A x \in errors : "InvalidCredentials" \in x
  PROVE  Sound(r)
<1>1. PICK x \in errors : Begin(r, Fails([NoRequest EXCEPT !.kind = kind], x))
  BY Zenon DEF Refuse
<1>2. PICK y : y = Fails([NoRequest EXCEPT !.kind = kind], x)
  BY Zenon
<1>3. /\ DOMAIN y = Fields /\ y.made = Nil /\ y.failed = FALSE /\ y.cause = "nil"
      /\ y.cancelled = FALSE /\ y.pc = "done" /\ y.kind = kind /\ y.err = x
  BY <1>2 DEF Fails, NoRequest, Fields
<1>4. BeginsAs(y)
  BY <1>3, Zenon DEF BeginsAs
<1> QED
  BY <1>1, <1>2, <1>4, BeginStep, Zenon

LEMMA RegisterStep ==
  ASSUME AccInv, NEW r \in Request, NEW e, NEW h, Register(r, e, h)
  PROVE  Sound(r)
<1>1. PICK y, kind, errors :
        /\ y = GoTo([NoRequest EXCEPT !.kind = "register", !.email = e, !.secret = h],
                    "register.lookup")
        /\ kind = "register"
        /\ errors = {{"InvalidEmail"}, {"PasswordTooShort"}, {"PasswordTooLong"}}
  BY Zenon
<1>2. Begin(r, y) \/ Refuse(r, kind, errors)
  BY <1>1, Zenon DEF Register
<1>3. BeginsAs(y)
  <2>1. /\ DOMAIN y = Fields /\ y.made = Nil /\ y.failed = FALSE /\ y.cause = "nil"
        /\ y.cancelled = FALSE /\ y.pc = "register.lookup" /\ y.kind = "register" /\ y.err = {}
    BY <1>1 DEF GoTo, NoRequest, Fields
  <2> QED
    BY <2>1, Zenon DEF BeginsAs
<1>4. kind \in {"register", "login", "oauth", "wallet"}
      /\ (kind = "login" => \A x \in errors : "InvalidCredentials" \in x)
  BY <1>1, Zenon
<1> QED
  BY <1>2, <1>3, <1>4, BeginStep, RefuseStep, Zenon

LEMMA LoginStep ==
  ASSUME AccInv, NEW r \in Request, NEW e, NEW h, Login(r, e, h)
  PROVE  Sound(r)
<1>1. PICK y, kind, errors :
        /\ y = GoTo([NoRequest EXCEPT !.kind = "login", !.email = e, !.secret = h], "login.lookup")
        /\ kind = "login"
        /\ errors = {{"InvalidCredentials", "malformed_credentials"}}
  BY Zenon
<1>2. Begin(r, y) \/ Refuse(r, kind, errors)
  BY <1>1, Zenon DEF Login
<1>3. BeginsAs(y)
  <2>1. /\ DOMAIN y = Fields /\ y.made = Nil /\ y.failed = FALSE /\ y.cause = "nil"
        /\ y.cancelled = FALSE /\ y.pc = "login.lookup" /\ y.kind = "login" /\ y.err = {}
    BY <1>1 DEF GoTo, NoRequest, Fields
  <2> QED
    BY <2>1, Zenon DEF BeginsAs
<1>4. kind \in {"register", "login", "oauth", "wallet"}
      /\ (kind = "login" => \A x \in errors : "InvalidCredentials" \in x)
  BY <1>1, Zenon
<1> QED
  BY <1>2, <1>3, <1>4, BeginStep, RefuseStep, Zenon

LEMMA OAuthCallbackStep ==
  ASSUME AccInv, NEW r \in Request, NEW a, NEW e, NEW verified, OAuthCallback(r, a, e, verified)
  PROVE  Sound(r)
<1>1. PICK y, kind, errors :
        /\ y = GoTo([NoRequest EXCEPT !.kind = "oauth", !.account = a, !.email = e,
               !.secret = IF verified THEN "verified" ELSE "unverified"], "oauth.identity")
        /\ kind = "oauth"
        /\ errors = {{"OAuthDisabled"}, {"OAuthProviderUnknown"}, {"OAuthStateInvalid"},
                     {"OAuthExchangeFailed"}, {"OAuthExchangeFailed", "RedirectURINotAllowed"}}
  BY Zenon
<1>2. Begin(r, y) \/ Refuse(r, kind, errors)
  BY <1>1, Zenon DEF OAuthCallback
<1>3. BeginsAs(y)
  <2>1. /\ DOMAIN y = Fields /\ y.made = Nil /\ y.failed = FALSE /\ y.cause = "nil"
        /\ y.cancelled = FALSE /\ y.pc = "oauth.identity" /\ y.kind = "oauth" /\ y.err = {}
    BY <1>1 DEF GoTo, NoRequest, Fields
  <2> QED
    BY <2>1, Zenon DEF BeginsAs
<1>4. kind \in {"register", "login", "oauth", "wallet"}
      /\ (kind = "login" => \A x \in errors : "InvalidCredentials" \in x)
  BY <1>1, Zenon
<1> QED
  BY <1>2, <1>3, <1>4, BeginStep, RefuseStep, Zenon

LEMMA AuthenticateWalletStep ==
  ASSUME AccInv, NEW r \in Request, NEW w, AuthenticateWallet(r, w)
  PROVE  Sound(r)
<1>1. PICK y, kind, errors :
        /\ y = GoTo([NoRequest EXCEPT !.kind = "wallet", !.wallet = w], "wallet.identity")
        /\ kind = "wallet"
        /\ errors = {{"WalletDisabled"}, {"WalletChainUnsupported"}, {"WalletAddressInvalid"},
                     {"WalletChallengeInvalid"}}
  BY Zenon
<1>2. Begin(r, y) \/ Refuse(r, kind, errors)
  BY <1>1, Zenon DEF AuthenticateWallet
<1>3. BeginsAs(y)
  <2>1. /\ DOMAIN y = Fields /\ y.made = Nil /\ y.failed = FALSE /\ y.cause = "nil"
        /\ y.cancelled = FALSE /\ y.pc = "wallet.identity" /\ y.kind = "wallet" /\ y.err = {}
    BY <1>1 DEF GoTo, NoRequest, Fields
  <2> QED
    BY <2>1, Zenon DEF BeginsAs
<1>4. kind \in {"register", "login", "oauth", "wallet"}
      /\ (kind = "login" => \A x \in errors : "InvalidCredentials" \in x)
  BY <1>1, Zenon
<1> QED
  BY <1>2, <1>3, <1>4, BeginStep, RefuseStep, Zenon

\* Only whether it is cancelled tells p from q.
SameBut(p, q) ==
  /\ DOMAIN p = Fields
  /\ p.pc = q.pc /\ p.kind = q.kind /\ p.account = q.account /\ p.wallet = q.wallet
  /\ p.user = q.user /\ p.created = q.created /\ p.linked = q.linked /\ p.again = q.again
  /\ p.cause = q.cause /\ p.err = q.err /\ p.made = q.made /\ p.failed = q.failed
  /\ p.before = q.before /\ p.stood = q.stood

LEMMA CancelStep ==
  ASSUME AccInv, NEW r \in Request, Cancel(r)
  PROVE  Sound(r)
<1>1. PICK q, p, n : q = req[r] /\ p = [q EXCEPT !.cancelled = TRUE] /\ n = faults + 1
  BY Zenon
<1>2. /\ req' = [req EXCEPT ![r] = p]
      /\ db' = db /\ drawn' = drawn /\ faults' = n
  BY <1>1, Zenon DEF Cancel
<1>3. /\ DbOK(db, drawn) /\ drawn \in SUBSET User /\ faults \in Nat
      /\ ReqOK(q, db, drawn, faults) /\ Keeps(db, db, drawn) /\ drawn \subseteq drawn
  BY <1>1, KeepsSame, Zenon DEF AccInv
<1>4. n \in Nat /\ faults <= n /\ n >= 1
  BY <1>1, <1>3
<1>5. Common(q, db, drawn, n) /\ Place(q, db, drawn, n)
  BY <1>3, <1>4, Frame, Zenon DEF ReqOK
<1>6. /\ SameBut(p, q) /\ p.cancelled = TRUE
  BY <1>1, <1>5, FieldsAre DEF Common, SameBut
<1>7. Common(p, db, drawn, n)
  BY <1>4, <1>5, <1>6, Zenon DEF Common, SameBut
<1>8. /\ Fresh(q) => Fresh(p)
      /\ Kept(q, db) => Kept(p, db)
      /\ Mine(q, drawn) => Mine(p, drawn)
      /\ ErrOK(q) => ErrOK(p)
  BY <1>6, Zenon DEF SameBut, Fresh, Kept, Mine, ErrOK
<1>9. /\ Settled(q, db, n) => Settled(p, db, n)
      /\ SignsIn(q, db, drawn) => SignsIn(p, db, drawn)
  BY <1>6, <1>8, Zenon DEF SameBut, Settled, Excused, SignsIn
<1>10. Place(p, db, drawn, n)
  <2>1. AtIdle(q) => AtIdle(p)
    BY <1>6, <1>8, Zenon DEF SameBut, AtIdle
  <2>2. AtRegister(q) => AtRegister(p)
    BY <1>6, <1>8, Zenon DEF SameBut, AtRegister
  <2>3. AtPassword(q, drawn) => AtPassword(p, drawn)
    BY <1>6, <1>8, Zenon DEF SameBut, AtPassword
  <2>4. AtRollback(q, drawn) => AtRollback(p, drawn)
    BY <1>6, <1>8, Zenon DEF SameBut, AtRollback
  <2>5. AtLogin(q) => AtLogin(p)
    BY <1>6, <1>8, Zenon DEF SameBut, AtLogin
  <2>6. AtIdentity(q, db, n) => AtIdentity(p, db, n)
    BY <1>6, <1>8, <1>9, Zenon DEF SameBut, AtIdentity
  <2>7. AtFind(q) => AtFind(p)
    BY <1>6, <1>8, Zenon DEF SameBut, AtFind
  <2>8. AtFindAgain(q, db) => AtFindAgain(p, db)
    BY <1>6, <1>8, Zenon DEF SameBut, AtFindAgain
  <2>9. AtAutolink(q, db, drawn) => AtAutolink(p, db, drawn)
    BY <1>6, <1>8, Zenon DEF SameBut, AtAutolink
  <2>10. AtLink(q, db, drawn) => AtLink(p, db, drawn)
    BY <1>6, <1>8, Zenon DEF SameBut, AtLink
  <2>11. AtLinks(q, db, drawn) => AtLinks(p, db, drawn)
    BY <1>6, <1>8, Zenon DEF SameBut, AtLinks
  <2>12. AtDiscard(q, db, drawn) => AtDiscard(p, db, drawn)
    BY <1>6, <1>8, Zenon DEF SameBut, AtDiscard
  <2>13. AtWallet(q, db, n) => AtWallet(p, db, n)
    BY <1>6, <1>8, <1>9, Zenon DEF SameBut, AtWallet
  <2>14. AtWalletCreate(q) => AtWalletCreate(p)
    BY <1>6, <1>8, Zenon DEF SameBut, AtWalletCreate
  <2>15. AtWalletLink(q, drawn) => AtWalletLink(p, drawn)
    BY <1>6, <1>8, Zenon DEF SameBut, AtWalletLink
  <2>16. AtWalletDiscard(q, drawn) => AtWalletDiscard(p, drawn)
    BY <1>6, <1>8, Zenon DEF SameBut, AtWalletDiscard
  <2>17. AtGetUser(q, db, drawn, n) => AtGetUser(p, db, drawn, n)
    BY <1>6, <1>9, Zenon DEF SameBut, AtGetUser
  <2>18. AtIssue(q, db, drawn, n) => AtIssue(p, db, drawn, n)
    BY <1>6, <1>9, Zenon DEF SameBut, AtIssue
  <2>19. AtDone(q, db, n) => AtDone(p, db, n)
    BY <1>6, <1>8, <1>9, Zenon DEF SameBut, AtDone
  <2> QED
    BY <1>5, <2>1, <2>2, <2>3, <2>4, <2>5, <2>6, <2>7, <2>8, <2>9, <2>10, <2>11,
       <2>12, <2>13, <2>14, <2>15, <2>16, <2>17, <2>18, <2>19, Zenon DEF Place
<1>11. ReqOK(p, db', drawn', faults') /\ p.made = req[r].made
  BY <1>1, <1>2, <1>6, <1>7, <1>10, Zenon DEF ReqOK, SameBut
<1>12. /\ faults' \in Nat /\ faults <= faults' /\ drawn' \in SUBSET User
       /\ DbOK(db', drawn') /\ Keeps(db, db', drawn) /\ db.oauth \subseteq db'.oauth
  BY <1>2, <1>3, <1>4, Zenon
<1> QED
  BY <1>2, <1>11, <1>12, Stepped, Zenon

LEMMA RegisterLookupStep ==
  ASSUME AccInv, NEW r \in Request, RegisterLookup(r)
  PROVE  Sound(r)
<1>0. PICK detached \in BOOLEAN : detached = FALSE
  BY Zenon
<1>1. PICK q, res : q = req[r] /\ res = Pg!GetByEmail(db, q.email)
  BY Zenon
<1>2. PICK out, x :
        /\ Makes(r, res, detached, out, x) /\ drawn' = drawn
        /\ \/ out.err = "nil" /\ x = Fails(q, {"UserExists"})
           \/ out.err = "UserNotFound" /\ x = GoTo(q, "register.create")
           \/ out.err \notin {"nil", "UserNotFound"} /\ x = Fails(q, {"error"})
  BY <1>0, <1>1, Zenon DEF RegisterLookup, Call, CallWith, Makes, Noted
<1>3. res.err \in {"nil", "UserNotFound"} /\ res.store = db /\ (res.err = "nil" => res.val \in drawn)
  BY <1>1, GetByEmailCall, Zenon DEF AccInv
<1>4. Called(q, res, detached, out)
  <2>1. drawn \subseteq drawn' /\ drawn' \in SUBSET User
    BY <1>2, Zenon DEF AccInv
  <2>2. res.err # "error"
    BY <1>3, Zenon
  <2>3. DbOK(res.store, drawn') /\ Keeps(db, res.store, drawn)
    BY <1>2, <1>3, KeepsSame, Zenon DEF AccInv
  <2> QED
    BY <1>1, <1>2, <2>1, <2>2, <2>3, Calling, Zenon
<1>5. /\ Common(q, db', drawn', faults') /\ AtRegister(q)
      /\ q.err = {} /\ ~StoredIn(db', Nil)
  <2>1. q.pc = "register.lookup"
    BY <1>1, Zenon DEF RegisterLookup, At
  <2>2. Common(q, db', drawn', faults') /\ AtRegister(q) /\ ~StoredIn(db', Nil)
    BY <1>4, <2>1, PlaceIs, Zenon DEF Called
  <2> QED
    BY <2>1, <2>2, Zenon DEF Common
<1>6. PICK p : p = Noted(x, out) /\ req' = [req EXCEPT ![r] = p]
  BY <1>2, Zenon DEF Makes
<1>7. Settled(q, db', faults') /\ Fresh(q) /\ ~q.failed /\ q.kind = "register"
  BY <1>5, FreshIsSettled, Zenon DEF AtRegister, Fresh
<1>9. ASSUME out.err = "nil", x = Fails(q, {"UserExists"})
       PROVE  ReqOK(p, db', drawn', faults') /\ p.made = q.made
  <2>1. PICK err : err = {"UserExists"}
    BY Zenon
  <2>2. EndsAs(p, q, err, out)
    BY <1>6, <1>9, <2>1, Zenon DEF EndsAs
  <2>3. MayEnd(q, err, out, db', faults')
    BY <1>7, <1>9, Zenon DEF MayEnd, Alters, SameTask
  <2>4. Ended(p, q, db', drawn', faults')
    BY <1>5, <2>2, <2>3, Finishes, Zenon
  <2> QED
    BY <2>4, Zenon DEF Ended
<1>10. ASSUME out.err = "UserNotFound", x = GoTo(q, "register.create")
       PROVE  ReqOK(p, db', drawn', faults') /\ p.made = q.made
  <2>1. PICK pc : pc = "register.create"
    BY Zenon
  <2>2. p = Noted(GoTo(q, pc), out)
    BY <1>6, <1>10, <2>1, Zenon
  <2>3. Goes(p, q, pc, db', drawn', faults', out)
    BY <1>5, <2>2, GoToGoes, Zenon
  <2>4. Common(p, db', drawn', faults') /\ Fresh(p)
    BY <1>7, <1>10, <2>3, Zenon DEF Goes, Carried
  <2>5. AtRegister(p) /\ p.made = q.made
    BY <1>7, <2>1, <2>3, <2>4, Zenon DEF AtRegister, Goes, Becomes, Alters, SameTask
  <2> QED
    BY <2>4, <2>5, Zenon DEF ReqOK, Place
<1>11. ASSUME out.err \notin {"nil", "UserNotFound"}, x = Fails(q, {"error"})
       PROVE  ReqOK(p, db', drawn', faults') /\ p.made = q.made
  <2>1. PICK err : err = {"error"}
    BY Zenon
  <2>2. EndsAs(p, q, err, out)
    BY <1>6, <1>11, <2>1, Zenon DEF EndsAs
  <2>3. MayEnd(q, err, out, db', faults')
    BY <1>7, <2>1, Zenon DEF MayEnd, Alters, SameTask
  <2>4. Ended(p, q, db', drawn', faults')
    BY <1>5, <2>2, <2>3, Finishes, Zenon
  <2> QED
    BY <2>4, Zenon DEF Ended
<1>12. ReqOK(p, db', drawn', faults') /\ p.made = q.made
  BY <1>2, <1>9, <1>10, <1>11, Zenon
<1>13. \/ db.oauth \subseteq db'.oauth
       \/ q.kind # "oauth"
       \/ q.stood = {}
  BY <1>7, Zenon DEF Called
<1> QED
  BY <1>1, <1>2, <1>4, <1>6, <1>12, <1>13, Stepped, Zenon DEF Called

LEMMA RegisterCreateStep ==
  ASSUME AccInv, NEW r \in Request, RegisterCreate(r)
  PROVE  Sound(r)
<1>0. PICK detached \in BOOLEAN : detached = FALSE
  BY Zenon
<1>d. PICK u \in User \ drawn :
        /\ drawn' = drawn \cup {u}
        /\ \E out \in Outcomes(r, Pg!Create(db, u, Drawing(req[r], u).email), FALSE) :
             /\ db' = out.store /\ faults' = faults + out.faults
             /\ req' = [req EXCEPT ![r] = Noted(
                  (CASE out.err = "nil" -> GoTo(Drawing(req[r], u), "register.password")
                     [] out.err = "UserExists" -> Fails(Drawing(req[r], u), {"UserExists"})
                     [] OTHER -> Fails(Drawing(req[r], u), {"error"})), out)]
  BY Zenon DEF RegisterCreate, CallWith, Noted, Drawing
<1>1. PICK q, y, res :
        q = req[r] /\ y = Drawing(q, u) /\ res = Pg!Create(db, u, y.email)
  BY Zenon
<1>2. PICK out, x :
        /\ Makes(r, res, detached, out, x)
        /\ \/ out.err = "nil" /\ x = GoTo(y, "register.password")
           \/ out.err = "UserExists" /\ x = Fails(y, {"UserExists"})
           \/ out.err \notin {"nil", "UserExists"} /\ x = Fails(y, {"error"})
  BY <1>0, <1>d, <1>1, Zenon DEF Makes
<1>3. /\ res.err \in {"nil", "UserExists"} /\ (res.err = "UserExists" => res.store = db)
      /\ ~StoredIn(db, u) /\ DbOK(res.store, drawn \cup {u}) /\ Keeps(db, res.store, drawn)
      /\ db.oauth \subseteq res.store.oauth
  <2>1. PICK e : e = y.email
    BY Zenon
  <2>2. DbOK(db, drawn) /\ u \notin drawn /\ res = Pg!Create(db, u, e)
    BY <1>1, <2>1, Zenon DEF AccInv
  <2>3. Creates(res, db, drawn, u)
    BY <2>2, CreateCall, Zenon
  <2> QED
    BY <2>3, Zenon DEF Creates
<1>4. Called(q, res, detached, out)
  <2>1. drawn \subseteq drawn' /\ drawn' \in SUBSET User
    BY <1>d, Zenon DEF AccInv
  <2>2. res.err # "error"
    BY <1>3, Zenon
  <2>3. DbOK(res.store, drawn') /\ Keeps(db, res.store, drawn)
    BY <1>3, <1>d, Zenon DEF AccInv
  <2> QED
    BY <1>1, <1>2, <2>1, <2>2, <2>3, Calling, Zenon
<1>5. /\ Common(q, db', drawn', faults') /\ AtRegister(q)
      /\ q.err = {} /\ ~StoredIn(db', Nil)
  <2>1. q.pc = "register.create"
    BY <1>1, Zenon DEF RegisterCreate, At
  <2>2. Common(q, db', drawn', faults') /\ AtRegister(q) /\ ~StoredIn(db', Nil)
    BY <1>4, <2>1, PlaceIs, Zenon DEF Called
  <2> QED
    BY <2>1, <2>2, Zenon DEF Common
<1>6. PICK p : p = Noted(x, out) /\ req' = [req EXCEPT ![r] = p]
  BY <1>2, Zenon DEF Makes
<1>7. /\ Settled(q, db', faults') /\ Fresh(q) /\ ~q.failed
      /\ q.kind = "register" /\ q.made = Nil /\ q.cause = "nil"
  BY <1>5, FreshIsSettled, Zenon DEF AtRegister, Fresh
<1>8. Common(y, db', drawn', faults') /\ Alters(y, q) /\ y.user = u /\ y.made = u /\ y.cause = q.cause
      /\ y.err = {} /\ u \in drawn'
  <2>1. Alters(y, q) /\ y.user = u /\ y.made = u /\ y.cause = q.cause
    BY <1>1, <1>5, FieldsAre DEF Alters, SameTask, Common, Drawing
  <2> QED
    BY <1>d, <1>5, <1>7, <2>1, Altered, Zenon DEF Fresh, Alters
<1>9. ASSUME out.err = "nil", x = GoTo(y, "register.password")
       PROVE  ReqOK(p, db', drawn', faults') /\ p.made = u
  <2>1. Mine(y, drawn')
    BY <1>8, Zenon DEF Mine
  <2>2. PICK pc : pc = "register.password"
    BY Zenon
  <2>3. p = Noted(GoTo(y, pc), out)
    BY <1>6, <1>9, <2>2, Zenon
  <2>4. Goes(p, y, pc, db', drawn', faults', out)
    BY <1>8, <2>3, GoToGoes, Zenon
  <2>5. Common(p, db', drawn', faults') /\ Mine(p, drawn')
    BY <2>1, <2>4, Zenon DEF Goes, Carried
  <2>6. AtPassword(p, drawn') /\ p.made = u
    BY <1>7, <1>8, <2>2, <2>4, <2>5, Zenon DEF AtPassword, Goes, Becomes, Alters, SameTask
  <2> QED
    BY <2>5, <2>6, Zenon DEF ReqOK, Place
<1>10. ASSUME out.err = "UserExists", x = Fails(y, {"UserExists"})
       PROVE  ReqOK(p, db', drawn', faults') /\ p.made = u
  <2>1. Settled(y, db', faults')
    BY <1>3, <1>4, <1>8, <1>10, Zenon DEF Settled, Kept, Called
  <2>2. PICK err : err = {"UserExists"}
    BY Zenon
  <2>3. EndsAs(p, y, err, out)
    BY <1>6, <1>10, <2>2, Zenon DEF EndsAs
  <2>4. MayEnd(y, err, out, db', faults')
    BY <1>7, <1>8, <1>10, <2>1, Zenon DEF MayEnd, Alters, SameTask
  <2>5. Ended(p, y, db', drawn', faults')
    BY <1>8, <2>3, <2>4, Finishes, Zenon
  <2> QED
    BY <2>5, <1>8, Zenon DEF Ended
<1>11. ASSUME out.err \notin {"nil", "UserExists"}, x = Fails(y, {"error"})
       PROVE  ReqOK(p, db', drawn', faults') /\ p.made = u
  <2>1. out.err = "error"
    BY <1>3, <1>4, <1>11, Zenon DEF Called
  <2>2. PICK err : err = {"error"}
    BY Zenon
  <2>3. EndsAs(p, y, err, out)
    BY <1>6, <1>11, <2>2, Zenon DEF EndsAs
  <2>4. MayEnd(y, err, out, db', faults')
    BY <1>7, <1>8, <2>2, <2>1, Zenon DEF MayEnd, Alters, SameTask
  <2>5. Ended(p, y, db', drawn', faults')
    BY <1>8, <2>3, <2>4, Finishes, Zenon
  <2> QED
    BY <2>5, <1>8, Zenon DEF Ended
<1>12. ReqOK(p, db', drawn', faults') /\ p.made = u
  BY <1>2, <1>9, <1>10, <1>11, Zenon
<1> QED
  BY <1>1, <1>d, <1>4, <1>6, <1>7, <1>12, Stepped, Zenon DEF Called, Fresh

LEMMA RegisterSavePasswordStep ==
  ASSUME AccInv, NEW r \in Request, RegisterSavePassword(r)
  PROVE  Sound(r)
<1>0. PICK detached \in BOOLEAN : detached = FALSE
  BY Zenon
<1>1. PICK q, res : q = req[r] /\ res = Pg!SavePasswordHash(db, q.user, q.secret)
  BY Zenon
<1>2. PICK out, x :
        /\ Makes(r, res, detached, out, x) /\ drawn' = drawn
        /\ \/ out.err = "nil" /\ x = GoTo([q EXCEPT !.created = TRUE], "issue")
           \/ out.err # "nil" /\ x = GoTo([q EXCEPT !.cause = "password"], "register.rollback")
  BY <1>0, <1>1, Zenon DEF RegisterSavePassword, Call, CallWith, Makes, Noted
<1>3. /\ res.err \in {"nil", "UserNotFound"} /\ DbOK(res.store, drawn) /\ Keeps(db, res.store, drawn)
      /\ db.oauth \subseteq res.store.oauth
      /\ res.err = "nil" => PasswordIn(res.store, q.user)
  BY <1>1, SavePasswordCall, Zenon DEF AccInv
<1>4. Called(q, res, detached, out)
  <2>1. drawn \subseteq drawn' /\ drawn' \in SUBSET User
    BY <1>2, Zenon DEF AccInv
  <2>2. res.err # "error"
    BY <1>3, Zenon
  <2>3. DbOK(res.store, drawn') /\ Keeps(db, res.store, drawn)
    BY <1>2, <1>3, Zenon DEF AccInv
  <2> QED
    BY <1>1, <1>2, <2>1, <2>2, <2>3, Calling, Zenon
<1>5. /\ Common(q, db', drawn', faults') /\ AtPassword(q, drawn')
      /\ q.err = {} /\ ~StoredIn(db', Nil)
  <2>1. q.pc = "register.password"
    BY <1>1, Zenon DEF RegisterSavePassword, At
  <2>2. Common(q, db', drawn', faults') /\ AtPassword(q, drawn') /\ ~StoredIn(db', Nil)
    BY <1>4, <2>1, PlaceIs, Zenon DEF Called
  <2> QED
    BY <2>1, <2>2, Zenon DEF Common
<1>6. PICK p : p = Noted(x, out) /\ req' = [req EXCEPT ![r] = p]
  BY <1>2, Zenon DEF Makes
<1>7. Mine(q, drawn') /\ q.made = q.user /\ q.kind = "register"
  BY <1>5, FreshIsSettled, Zenon DEF AtPassword, Mine
<1>9. ASSUME out.err = "nil", x = GoTo([q EXCEPT !.created = TRUE], "issue")
       PROVE  ReqOK(p, db', drawn', faults') /\ p.made = q.made
  <2>1. PICK z : z = [q EXCEPT !.created = TRUE]
    BY Zenon
  <2>2. /\ Alters(z, q)
        /\ z.user = q.user /\ z.made = q.made /\ z.created = TRUE /\ z.linked = q.linked /\ z.again
           = q.again /\ z.cause = q.cause /\ z.stood = q.stood
    BY <1>5, <2>1, FieldsAre DEF Alters, SameTask, Common
  <2>3. z.made \in drawn' \cup {Nil} /\ (z.cause = "error" => faults' >= 1) /\ z.err = {}
    BY <1>5, <2>2, Zenon DEF Common, Called, Alters
  <2>4. Common(z, db', drawn', faults')
    BY <1>5, <2>2, <2>3, Altered, Zenon
  <2>5. Settled(z, db', faults')
    BY <1>3, <1>4, <1>7, <1>9, <2>2, Zenon DEF Called, Settled, Kept, ReachableIn
  <2>6. SignsIn(z, db', drawn')
    BY <1>7, <2>2, Zenon DEF SignsIn, Alters, SameTask
  <2>7. PICK pc : pc = "issue"
    BY Zenon
  <2>8. p = Noted(GoTo(z, pc), out)
    BY <1>6, <1>9, <2>1, <2>7, Zenon
  <2>9. Goes(p, z, pc, db', drawn', faults', out)
    BY <2>3, <2>4, <2>8, GoToGoes, Zenon
  <2>10. Common(p, db', drawn', faults') /\ Settled(p, db', faults') /\ SignsIn(p, db', drawn')
    BY <2>5, <2>6, <2>9, Zenon DEF Goes, Carried
  <2>11. AtIssue(p, db', drawn', faults') /\ p.made = q.made
    BY <1>7, <2>7, <2>2, <2>9, <2>10, Zenon DEF AtIssue, Goes, Becomes, Alters, SameTask
  <2> QED
    BY <2>10, <2>11, Zenon DEF ReqOK, Place
<1>10. ASSUME out.err # "nil", x = GoTo([q EXCEPT !.cause = "password"], "register.rollback")
       PROVE  ReqOK(p, db', drawn', faults') /\ p.made = q.made
  <2>1. PICK z : z = [q EXCEPT !.cause = "password"]
    BY Zenon
  <2>2. /\ Alters(z, q)
        /\ z.user = q.user /\ z.made = q.made /\ z.created = q.created /\ z.linked = q.linked /\
           z.again = q.again /\ z.cause = "password" /\ z.stood = q.stood
    BY <1>5, <2>1, FieldsAre DEF Alters, SameTask, Common
  <2>3. z.made \in drawn' \cup {Nil} /\ (z.cause = "error" => faults' >= 1) /\ z.err = {}
    BY <1>5, <2>2, Zenon DEF Common, Called, Alters
  <2>4. Common(z, db', drawn', faults')
    BY <1>5, <2>2, <2>3, Altered, Zenon
  <2>5. Mine(z, drawn')
    BY <1>7, <2>2, Zenon DEF Mine
  <2>6. PICK pc : pc = "register.rollback"
    BY Zenon
  <2>7. p = Noted(GoTo(z, pc), out)
    BY <1>6, <1>10, <2>1, <2>6, Zenon
  <2>8. Goes(p, z, pc, db', drawn', faults', out)
    BY <2>3, <2>4, <2>7, GoToGoes, Zenon
  <2>9. Common(p, db', drawn', faults') /\ Mine(p, drawn')
    BY <2>5, <2>8, Zenon DEF Goes, Carried
  <2>10. AtRollback(p, drawn') /\ p.made = q.made
    BY <1>7, <2>6, <2>2, <2>8, <2>9, Zenon DEF AtRollback, Goes, Becomes, Alters, SameTask
  <2> QED
    BY <2>9, <2>10, Zenon DEF ReqOK, Place
<1>11. ReqOK(p, db', drawn', faults') /\ p.made = q.made
  BY <1>2, <1>9, <1>10, Zenon
<1>12. \/ db.oauth \subseteq db'.oauth
       \/ q.kind # "oauth"
       \/ q.stood = {}
  BY <1>7, Zenon DEF Called
<1> QED
  BY <1>1, <1>2, <1>4, <1>6, <1>11, <1>12, Stepped, Zenon DEF Called

LEMMA RegisterRollbackStep ==
  ASSUME AccInv, NEW r \in Request, RegisterRollback(r)
  PROVE  Sound(r)
<1>0. PICK detached \in BOOLEAN : detached = FALSE
  BY Zenon
<1>1. PICK q, res : q = req[r] /\ res = Pg!Delete(db, q.user)
  BY Zenon
<1>2. PICK out, x :
        /\ Makes(r, res, detached, out, x) /\ drawn' = drawn
        /\ x = Fails(q, {"error"})
  BY <1>0, <1>1, Zenon DEF RegisterRollback, Call, CallWith, Makes, Noted
<1>3. /\ res.err \in {"nil", "UserNotFound"} /\ ~StoredIn(res.store, q.user)
      /\ DbOK(res.store, drawn) /\ Keeps(db, res.store, drawn)
      /\ ~StoredIn(db, q.user) => res.store = db
  BY <1>1, DeleteCall, Zenon DEF AccInv
<1>4. Called(q, res, detached, out)
  <2>1. drawn \subseteq drawn' /\ drawn' \in SUBSET User
    BY <1>2, Zenon DEF AccInv
  <2>2. res.err # "error"
    BY <1>3, Zenon
  <2>3. DbOK(res.store, drawn') /\ Keeps(db, res.store, drawn)
    BY <1>2, <1>3, Zenon DEF AccInv
  <2> QED
    BY <1>1, <1>2, <2>1, <2>2, <2>3, Calling, Zenon
<1>5. /\ Common(q, db', drawn', faults') /\ AtRollback(q, drawn')
      /\ q.err = {} /\ ~StoredIn(db', Nil)
  <2>1. q.pc = "register.rollback"
    BY <1>1, Zenon DEF RegisterRollback, At
  <2>2. Common(q, db', drawn', faults') /\ AtRollback(q, drawn') /\ ~StoredIn(db', Nil)
    BY <1>4, <2>1, PlaceIs, Zenon DEF Called
  <2> QED
    BY <2>1, <2>2, Zenon DEF Common
<1>6. PICK p : p = Noted(x, out) /\ req' = [req EXCEPT ![r] = p]
  BY <1>2, Zenon DEF Makes
<1>7. q.made = q.user /\ q.kind = "register" /\ q.cause # "error"
  BY <1>5, FreshIsSettled, Zenon DEF AtRollback, Mine
<1>9. ASSUME x = Fails(q, {"error"})
       PROVE  ReqOK(p, db', drawn', faults') /\ p.made = q.made
  <2>1. Settled(q, db', faults') \/ out.err = "error"
    BY <1>3, <1>4, <1>7, Zenon DEF Called, Settled, Kept
  <2>2. PICK err : err = {"error"}
    BY Zenon
  <2>3. EndsAs(p, q, err, out)
    BY <1>6, <1>9, <2>2, Zenon DEF EndsAs
  <2>4. MayEnd(q, err, out, db', faults')
    BY <1>7, <2>2, <2>1, Zenon DEF MayEnd, Alters, SameTask
  <2>5. Ended(p, q, db', drawn', faults')
    BY <1>5, <2>3, <2>4, Finishes, Zenon
  <2> QED
    BY <2>5, Zenon DEF Ended
<1>10. ReqOK(p, db', drawn', faults') /\ p.made = q.made
  BY <1>2, <1>9, Zenon
<1>11. \/ db.oauth \subseteq db'.oauth
       \/ q.kind # "oauth"
       \/ q.stood = {}
  BY <1>7, Zenon DEF Called
<1> QED
  BY <1>1, <1>2, <1>4, <1>6, <1>10, <1>11, Stepped, Zenon DEF Called

LEMMA LoginLookupStep ==
  ASSUME AccInv, NEW r \in Request, LoginLookup(r)
  PROVE  Sound(r)
<1>0. PICK detached \in BOOLEAN : detached = FALSE
  BY Zenon
<1>1. PICK q, res : q = req[r] /\ res = Pg!GetByEmail(db, q.email)
  BY Zenon
<1>2. PICK out, x :
        /\ Makes(r, res, detached, out, x) /\ drawn' = drawn
        /\ \/ out.err = "nil" /\ x = GoTo([q EXCEPT !.user = out.val], "login.password")
           \/ out.err = "UserNotFound" /\ x = Fails(q, {"InvalidCredentials", "unknown_user"})
           \/ out.err \notin {"nil", "UserNotFound"} /\ x = Fails(q, {"error"})
  BY <1>0, <1>1, Zenon DEF LoginLookup, Call, CallWith, Makes, Noted
<1>3. res.err \in {"nil", "UserNotFound"} /\ res.store = db /\ (res.err = "nil" => res.val \in drawn)
  BY <1>1, GetByEmailCall, Zenon DEF AccInv
<1>4. Called(q, res, detached, out)
  <2>1. drawn \subseteq drawn' /\ drawn' \in SUBSET User
    BY <1>2, Zenon DEF AccInv
  <2>2. res.err # "error"
    BY <1>3, Zenon
  <2>3. DbOK(res.store, drawn') /\ Keeps(db, res.store, drawn)
    BY <1>2, <1>3, KeepsSame, Zenon DEF AccInv
  <2> QED
    BY <1>1, <1>2, <2>1, <2>2, <2>3, Calling, Zenon
<1>5. /\ Common(q, db', drawn', faults') /\ AtLogin(q)
      /\ q.err = {} /\ ~StoredIn(db', Nil)
  <2>1. q.pc = "login.lookup"
    BY <1>1, Zenon DEF LoginLookup, At
  <2>2. Common(q, db', drawn', faults') /\ AtLogin(q) /\ ~StoredIn(db', Nil)
    BY <1>4, <2>1, PlaceIs, Zenon DEF Called
  <2> QED
    BY <2>1, <2>2, Zenon DEF Common
<1>6. PICK p : p = Noted(x, out) /\ req' = [req EXCEPT ![r] = p]
  BY <1>2, Zenon DEF Makes
<1>7. Settled(q, db', faults') /\ Fresh(q) /\ ~q.failed /\ q.kind = "login"
  BY <1>5, FreshIsSettled, Zenon DEF AtLogin, Fresh
<1>9. ASSUME out.err = "nil", x = GoTo([q EXCEPT !.user = out.val], "login.password")
       PROVE  ReqOK(p, db', drawn', faults') /\ p.made = q.made
  <2>1. PICK z : z = [q EXCEPT !.user = out.val]
    BY Zenon
  <2>2. /\ Alters(z, q)
        /\ z.user = out.val /\ z.made = q.made /\ z.created = q.created /\ z.linked = q.linked /\
           z.again = q.again /\ z.cause = q.cause /\ z.stood = q.stood
    BY <1>5, <2>1, FieldsAre DEF Alters, SameTask, Common
  <2>3. z.made \in drawn' \cup {Nil} /\ (z.cause = "error" => faults' >= 1) /\ z.err = {}
    BY <1>5, <2>2, Zenon DEF Common, Called, Alters
  <2>4. Common(z, db', drawn', faults')
    BY <1>5, <2>2, <2>3, Altered, Zenon
  <2>5. Fresh(z)
    BY <1>7, <2>2, Zenon DEF Fresh, Alters
  <2>6. PICK pc : pc = "login.password"
    BY Zenon
  <2>7. p = Noted(GoTo(z, pc), out)
    BY <1>6, <1>9, <2>1, <2>6, Zenon
  <2>8. Goes(p, z, pc, db', drawn', faults', out)
    BY <2>3, <2>4, <2>7, GoToGoes, Zenon
  <2>9. Common(p, db', drawn', faults') /\ Fresh(p)
    BY <1>9, <2>5, <2>8, Zenon DEF Goes, Carried
  <2>10. AtLogin(p) /\ p.made = q.made
    BY <1>7, <2>6, <2>2, <2>8, <2>9, Zenon DEF AtLogin, Goes, Becomes, Alters, SameTask
  <2> QED
    BY <2>9, <2>10, Zenon DEF ReqOK, Place
<1>10. ASSUME out.err = "UserNotFound", x = Fails(q, {"InvalidCredentials", "unknown_user"})
       PROVE  ReqOK(p, db', drawn', faults') /\ p.made = q.made
  <2>1. PICK err : err = {"InvalidCredentials", "unknown_user"}
    BY Zenon
  <2>2. EndsAs(p, q, err, out)
    BY <1>6, <1>10, <2>1, Zenon DEF EndsAs
  <2>3. MayEnd(q, err, out, db', faults')
    BY <1>7, <1>10, <2>1, Zenon DEF MayEnd, Alters, SameTask
  <2>4. Ended(p, q, db', drawn', faults')
    BY <1>5, <2>2, <2>3, Finishes, Zenon
  <2> QED
    BY <2>4, Zenon DEF Ended
<1>11. ASSUME out.err \notin {"nil", "UserNotFound"}, x = Fails(q, {"error"})
       PROVE  ReqOK(p, db', drawn', faults') /\ p.made = q.made
  <2>1. PICK err : err = {"error"}
    BY Zenon
  <2>2. EndsAs(p, q, err, out)
    BY <1>6, <1>11, <2>1, Zenon DEF EndsAs
  <2>3. MayEnd(q, err, out, db', faults')
    BY <1>7, <2>1, Zenon DEF MayEnd, Alters, SameTask
  <2>4. Ended(p, q, db', drawn', faults')
    BY <1>5, <2>2, <2>3, Finishes, Zenon
  <2> QED
    BY <2>4, Zenon DEF Ended
<1>12. ReqOK(p, db', drawn', faults') /\ p.made = q.made
  BY <1>2, <1>9, <1>10, <1>11, Zenon
<1>13. \/ db.oauth \subseteq db'.oauth
       \/ q.kind # "oauth"
       \/ q.stood = {}
  BY <1>7, Zenon DEF Called
<1> QED
  BY <1>1, <1>2, <1>4, <1>6, <1>12, <1>13, Stepped, Zenon DEF Called

LEMMA LoginPasswordStep ==
  ASSUME AccInv, NEW r \in Request, LoginPassword(r)
  PROVE  Sound(r)
<1>0. PICK detached \in BOOLEAN : detached = FALSE
  BY Zenon
<1>1. PICK q, res : q = req[r] /\ res = Pg!GetPasswordHash(db, q.user)
  BY Zenon
<1>2. PICK out, x :
        /\ Makes(r, res, detached, out, x) /\ drawn' = drawn
        /\ \/ out.err = "nil" /\ x = GoTo(q, "getUser")
           \/ out.err = "nil" /\ x = FailsNaming(q, {"InvalidCredentials", "bad_password"})
           \/ /\ out.err = "CredentialNotFound"
              /\ x = FailsNaming(q, {"InvalidCredentials", "no_password"})
           \/ out.err \notin {"nil", "CredentialNotFound"} /\ x = Fails(q, {"error"})
  BY <1>0, <1>1, Zenon DEF LoginPassword, Call, CallWith, Makes, Noted
<1>3. /\ res.err \in {"nil", "CredentialNotFound"} /\ res.store = db
      /\ res.err = "CredentialNotFound" => ~PasswordIn(db, q.user)
  BY <1>1, GetPasswordCall, Zenon DEF AccInv
<1>4. Called(q, res, detached, out)
  <2>1. drawn \subseteq drawn' /\ drawn' \in SUBSET User
    BY <1>2, Zenon DEF AccInv
  <2>2. res.err # "error"
    BY <1>3, Zenon
  <2>3. DbOK(res.store, drawn') /\ Keeps(db, res.store, drawn)
    BY <1>2, <1>3, KeepsSame, Zenon DEF AccInv
  <2> QED
    BY <1>1, <1>2, <2>1, <2>2, <2>3, Calling, Zenon
<1>5. /\ Common(q, db', drawn', faults') /\ AtLogin(q)
      /\ q.err = {} /\ ~StoredIn(db', Nil)
  <2>1. q.pc = "login.password"
    BY <1>1, Zenon DEF LoginPassword, At
  <2>2. Common(q, db', drawn', faults') /\ AtLogin(q) /\ ~StoredIn(db', Nil)
    BY <1>4, <2>1, PlaceIs, Zenon DEF Called
  <2> QED
    BY <2>1, <2>2, Zenon DEF Common
<1>6. PICK p : p = Noted(x, out) /\ req' = [req EXCEPT ![r] = p]
  BY <1>2, Zenon DEF Makes
<1>7. Settled(q, db', faults') /\ Fresh(q) /\ ~q.failed /\ q.kind = "login"
  BY <1>5, FreshIsSettled, Zenon DEF AtLogin, Fresh
<1>9. ASSUME out.err = "nil", x = GoTo(q, "getUser")
       PROVE  ReqOK(p, db', drawn', faults') /\ p.made = q.made
  <2>1. SignsIn(q, db', drawn')
    BY <1>7, Zenon DEF SignsIn
  <2>2. PICK pc : pc = "getUser"
    BY Zenon
  <2>3. p = Noted(GoTo(q, pc), out)
    BY <1>6, <1>9, <2>2, Zenon
  <2>4. Goes(p, q, pc, db', drawn', faults', out)
    BY <1>5, <2>3, GoToGoes, Zenon
  <2>5. Common(p, db', drawn', faults') /\ Settled(p, db', faults') /\ SignsIn(p, db', drawn')
    BY <1>7, <2>1, <2>4, Zenon DEF Goes, Carried
  <2>6. AtGetUser(p, db', drawn', faults') /\ p.made = q.made
    BY <1>7, <2>2, <2>4, <2>5, Zenon DEF AtGetUser, Goes, Becomes, Alters, SameTask
  <2> QED
    BY <2>5, <2>6, Zenon DEF ReqOK, Place
<1>10. ASSUME out.err = "nil", x = FailsNaming(q, {"InvalidCredentials", "bad_password"})
       PROVE  ReqOK(p, db', drawn', faults') /\ p.made = q.made
  <2>1. PICK err : err = {"InvalidCredentials", "bad_password"}
    BY Zenon
  <2>2. EndsAs(p, q, err, out)
    BY <1>6, <1>10, <2>1, Zenon DEF EndsAs
  <2>3. MayEnd(q, err, out, db', faults')
    BY <1>7, <1>10, <2>1, Zenon DEF MayEnd, Alters, SameTask
  <2>4. Ended(p, q, db', drawn', faults')
    BY <1>5, <2>2, <2>3, Finishes, Zenon
  <2> QED
    BY <2>4, Zenon DEF Ended
<1>11. ASSUME out.err = "CredentialNotFound",
              x = FailsNaming(q, {"InvalidCredentials", "no_password"})
       PROVE  ReqOK(p, db', drawn', faults') /\ p.made = q.made
  <2>1. PICK err : err = {"InvalidCredentials", "no_password"}
    BY Zenon
  <2>2. EndsAs(p, q, err, out)
    BY <1>6, <1>11, <2>1, Zenon DEF EndsAs
  <2>3. MayEnd(q, err, out, db', faults')
    BY <1>7, <1>11, <2>1, Zenon DEF MayEnd, Alters, SameTask
  <2>4. Ended(p, q, db', drawn', faults')
    BY <1>5, <2>2, <2>3, Finishes, Zenon
  <2> QED
    BY <2>4, Zenon DEF Ended
<1>12. ASSUME out.err \notin {"nil", "CredentialNotFound"}, x = Fails(q, {"error"})
       PROVE  ReqOK(p, db', drawn', faults') /\ p.made = q.made
  <2>1. PICK err : err = {"error"}
    BY Zenon
  <2>2. EndsAs(p, q, err, out)
    BY <1>6, <1>12, <2>1, Zenon DEF EndsAs
  <2>3. MayEnd(q, err, out, db', faults')
    BY <1>7, <2>1, Zenon DEF MayEnd, Alters, SameTask
  <2>4. Ended(p, q, db', drawn', faults')
    BY <1>5, <2>2, <2>3, Finishes, Zenon
  <2> QED
    BY <2>4, Zenon DEF Ended
<1>13. ReqOK(p, db', drawn', faults') /\ p.made = q.made
  BY <1>2, <1>9, <1>10, <1>11, <1>12, Zenon
<1>14. \/ db.oauth \subseteq db'.oauth
       \/ q.kind # "oauth"
       \/ q.stood = {}
  BY <1>7, Zenon DEF Called
<1> QED
  BY <1>1, <1>2, <1>4, <1>6, <1>13, <1>14, Stepped, Zenon DEF Called

LEMMA OAuthIdentityStep ==
  ASSUME AccInv, NEW r \in Request, OAuthIdentity(r)
  PROVE  Sound(r)
<1>0. PICK detached \in BOOLEAN : detached = FALSE
  BY Zenon
<1>1. PICK q, res : q = req[r] /\ res = Pg!GetOAuthIdentity(db, q.account)
  BY Zenon
<1>2. PICK out, x :
        /\ Makes(r, res, detached, out, x) /\ drawn' = drawn
        /\ \/ out.err = "nil" /\ x = GoTo(FoundLink(q, out.val), "getUser")
           \/ /\ out.err = "OAuthIdentityNotFound" /\ ~q.again
              /\ x = Fails(q, {"OAuthEmailRequired"})
           \/ /\ out.err = "OAuthIdentityNotFound" /\ ~q.again
              /\ x = Fails(q, {"OAuthEmailUnverified"})
           \/ out.err = "OAuthIdentityNotFound" /\ ~q.again /\ x = GoTo(q, "oauth.find")
           \/ out.err # "nil" /\ x = Fails([q EXCEPT !.created = FALSE], {"error"})
  BY <1>0, <1>1, ZenonT(60) DEF OAuthIdentity, FoundLink, Call, CallWith, Makes, Noted
<1>3. /\ res.err \in {"nil", "OAuthIdentityNotFound"} /\ res.store = db
      /\ res.err = "nil" => res.val \in drawn /\ LinkedIn(db, q.account, res.val)
  BY <1>1, GetOAuthCall, Zenon DEF AccInv
<1>4. Called(q, res, detached, out)
  <2>1. drawn \subseteq drawn' /\ drawn' \in SUBSET User
    BY <1>2, Zenon DEF AccInv
  <2>2. res.err # "error"
    BY <1>3, Zenon
  <2>3. DbOK(res.store, drawn') /\ Keeps(db, res.store, drawn)
    BY <1>2, <1>3, KeepsSame, Zenon DEF AccInv
  <2> QED
    BY <1>1, <1>2, <2>1, <2>2, <2>3, Calling, Zenon
<1>5. /\ Common(q, db', drawn', faults') /\ AtIdentity(q, db', faults')
      /\ q.err = {} /\ ~StoredIn(db', Nil)
  <2>1. q.pc = "oauth.identity"
    BY <1>1, Zenon DEF OAuthIdentity, At
  <2>2. Common(q, db', drawn', faults') /\ AtIdentity(q, db', faults') /\ ~StoredIn(db', Nil)
    BY <1>4, <2>1, PlaceIs, Zenon DEF Called
  <2> QED
    BY <2>1, <2>2, Zenon DEF Common
<1>6. PICK p : p = Noted(x, out) /\ req' = [req EXCEPT ![r] = p]
  BY <1>2, Zenon DEF Makes
<1>7. Settled(q, db', faults') /\ q.kind = "oauth" /\ (~q.again => Fresh(q) /\ ~q.failed)
  BY <1>5, FreshIsSettled, Zenon DEF AtIdentity, Fresh
<1>9. ASSUME out.err = "nil", x = GoTo(FoundLink(q, out.val), "getUser")
       PROVE  ReqOK(p, db', drawn', faults') /\ p.made = q.made
  <2>1. PICK z : z = FoundLink(q, out.val)
    BY Zenon
  <2>2. /\ Alters(z, q)
        /\ z.user = out.val /\ z.made = q.made /\ z.linked = FALSE /\ z.again = q.again /\ z.cause =
           q.cause /\ z.stood = q.stood
    BY <1>5, <2>1, FieldsAre DEF Alters, SameTask, Common, FoundLink
  <2>3. z.made \in drawn' \cup {Nil} /\ (z.cause = "error" => faults' >= 1) /\ z.err = {}
    BY <1>5, <2>2, Zenon DEF Common, Called, Alters
  <2>4. Common(z, db', drawn', faults')
    BY <1>5, <2>2, <2>3, Altered, Zenon
  <2>5. Settled(z, db', faults')
    BY <1>7, <2>2, Zenon DEF Settled, Kept, Excused, Alters
  <2>6. z.user \in drawn' /\ LinkedIn(db', z.account, z.user)
    BY <1>3, <1>4, <1>9, <2>2, <1>2, Zenon DEF Called, Alters, SameTask
  <2>7. SignsIn(z, db', drawn')
    BY <1>7, <2>2, <2>6, Zenon DEF SignsIn, Alters, SameTask
  <2>8. PICK pc : pc = "getUser"
    BY Zenon
  <2>9. p = Noted(GoTo(z, pc), out)
    BY <1>6, <1>9, <2>1, <2>8, Zenon
  <2>10. Goes(p, z, pc, db', drawn', faults', out)
    BY <2>3, <2>4, <2>9, GoToGoes, Zenon
  <2>11. Common(p, db', drawn', faults') /\ Settled(p, db', faults') /\ SignsIn(p, db', drawn')
    BY <2>5, <2>7, <2>10, Zenon DEF Goes, Carried
  <2>12. AtGetUser(p, db', drawn', faults') /\ p.made = q.made
    BY <1>7, <2>8, <2>2, <2>10, <2>11, Zenon DEF AtGetUser, Goes, Becomes, Alters, SameTask
  <2> QED
    BY <2>11, <2>12, Zenon DEF ReqOK, Place
<1>10. ASSUME out.err = "OAuthIdentityNotFound" /\ ~q.again, x = Fails(q, {"OAuthEmailRequired"})
       PROVE  ReqOK(p, db', drawn', faults') /\ p.made = q.made
  <2>1. PICK err : err = {"OAuthEmailRequired"}
    BY Zenon
  <2>2. EndsAs(p, q, err, out)
    BY <1>6, <1>10, <2>1, Zenon DEF EndsAs
  <2>3. MayEnd(q, err, out, db', faults')
    BY <1>7, <1>10, Zenon DEF MayEnd, Alters, SameTask
  <2>4. Ended(p, q, db', drawn', faults')
    BY <1>5, <2>2, <2>3, Finishes, Zenon
  <2> QED
    BY <2>4, Zenon DEF Ended
<1>11. ASSUME out.err = "OAuthIdentityNotFound" /\ ~q.again,
              x = Fails(q, {"OAuthEmailUnverified"})
       PROVE  ReqOK(p, db', drawn', faults') /\ p.made = q.made
  <2>1. PICK err : err = {"OAuthEmailUnverified"}
    BY Zenon
  <2>2. EndsAs(p, q, err, out)
    BY <1>6, <1>11, <2>1, Zenon DEF EndsAs
  <2>3. MayEnd(q, err, out, db', faults')
    BY <1>7, <1>11, Zenon DEF MayEnd, Alters, SameTask
  <2>4. Ended(p, q, db', drawn', faults')
    BY <1>5, <2>2, <2>3, Finishes, Zenon
  <2> QED
    BY <2>4, Zenon DEF Ended
<1>12. ASSUME out.err = "OAuthIdentityNotFound" /\ ~q.again, x = GoTo(q, "oauth.find")
       PROVE  ReqOK(p, db', drawn', faults') /\ p.made = q.made
  <2>1. PICK pc : pc = "oauth.find"
    BY Zenon
  <2>2. p = Noted(GoTo(q, pc), out)
    BY <1>6, <1>12, <2>1, Zenon
  <2>3. Goes(p, q, pc, db', drawn', faults', out)
    BY <1>5, <2>2, GoToGoes, Zenon
  <2>4. Common(p, db', drawn', faults') /\ Fresh(p)
    BY <1>7, <1>12, <2>3, Zenon DEF Goes, Carried
  <2>5. AtFind(p) /\ p.made = q.made
    BY <1>7, <2>1, <2>3, <2>4, Zenon DEF AtFind, Goes, Becomes, Alters, SameTask
  <2> QED
    BY <2>4, <2>5, Zenon DEF ReqOK, Place
<1>13. ASSUME out.err # "nil", x = Fails([q EXCEPT !.created = FALSE], {"error"})
       PROVE  ReqOK(p, db', drawn', faults') /\ p.made = q.made
  <2>1. PICK z : z = [q EXCEPT !.created = FALSE]
    BY Zenon
  <2>2. /\ Alters(z, q)
        /\ z.user = q.user /\ z.made = q.made /\ z.created = FALSE /\ z.linked = q.linked /\ z.again
           = q.again /\ z.cause = q.cause /\ z.stood = q.stood
    BY <1>5, <2>1, FieldsAre DEF Alters, SameTask, Common
  <2>3. z.made \in drawn' \cup {Nil} /\ (z.cause = "error" => faults' >= 1) /\ z.err = {}
    BY <1>5, <2>2, Zenon DEF Common, Called, Alters
  <2>4. Common(z, db', drawn', faults')
    BY <1>5, <2>2, <2>3, Altered, Zenon
  <2>5. Settled(z, db', faults')
    BY <1>7, <2>2, Zenon DEF Settled, Kept, Excused, Alters
  <2>6. PICK err : err = {"error"}
    BY Zenon
  <2>7. EndsAs(p, z, err, out)
    BY <1>6, <1>13, <2>1, <2>6, Zenon DEF EndsAs
  <2>8. MayEnd(z, err, out, db', faults')
    BY <1>7, <2>6, <2>2, <2>5, Zenon DEF MayEnd, Alters, SameTask
  <2>9. Ended(p, z, db', drawn', faults')
    BY <2>4, <2>7, <2>8, Finishes, Zenon
  <2> QED
    BY <2>9, <2>2, Zenon DEF Ended
<1>14. ReqOK(p, db', drawn', faults') /\ p.made = q.made
  BY <1>2, <1>9, <1>10, <1>11, <1>12, <1>13, Zenon
<1>15. \/ db.oauth \subseteq db'.oauth
       \/ q.kind # "oauth"
       \/ q.stood = {}
  BY <1>3, <1>4, Zenon DEF Called
<1> QED
  BY <1>1, <1>2, <1>4, <1>6, <1>14, <1>15, Stepped, Zenon DEF Called

LEMMA FindUserStep ==
  ASSUME AccInv, NEW r \in Request, FindUser(r)
  PROVE  Sound(r)
<1>0. PICK detached \in BOOLEAN : detached = FALSE
  BY Zenon
<1>1. PICK q, res : q = req[r] /\ res = Pg!GetByEmail(db, q.email)
  BY Zenon
<1>2. PICK out, x :
        /\ Makes(r, res, detached, out, x) /\ drawn' = drawn
        /\ \/ /\ out.err = "nil"
              /\ x = FailsNaming([q EXCEPT !.user = out.val], {"OAuthLinkDisabled"})
           \/ out.err = "nil" /\ x = GoTo([q EXCEPT !.user = out.val], "oauth.autolink")
           \/ out.err = "UserNotFound" /\ q.pc = "oauth.find" /\ x = GoTo(q, "oauth.create")
           \/ out.err # "nil" /\ x = Fails(q, {"error"})
  BY <1>0, <1>1, ZenonT(60) DEF FindUser, Call, CallWith, Makes, Noted, FoundByEmail
<1>3. res.err \in {"nil", "UserNotFound"} /\ res.store = db /\ (res.err = "nil" => res.val \in drawn)
  BY <1>1, GetByEmailCall, Zenon DEF AccInv
<1>4. Called(q, res, detached, out)
  <2>1. drawn \subseteq drawn' /\ drawn' \in SUBSET User
    BY <1>2, Zenon DEF AccInv
  <2>2. res.err # "error"
    BY <1>3, Zenon
  <2>3. DbOK(res.store, drawn') /\ Keeps(db, res.store, drawn)
    BY <1>2, <1>3, KeepsSame, Zenon DEF AccInv
  <2> QED
    BY <1>1, <1>2, <2>1, <2>2, <2>3, Calling, Zenon
<1>5. /\ Common(q, db', drawn', faults') /\ (AtFind(q) \/ AtFindAgain(q, db'))
      /\ q.err = {} /\ ~StoredIn(db', Nil)
  <2>1. q.pc \in {"oauth.find", "oauth.findAgain"}
    BY <1>1, Zenon DEF FindUser, At
  <2>2. Common(q, db', drawn', faults') /\ (AtFind(q) \/ AtFindAgain(q, db')) /\ ~StoredIn(db', Nil)
    BY <1>4, <2>1, PlaceIs, Zenon DEF Called
  <2> QED
    BY <2>1, <2>2, Zenon DEF Common
<1>6. PICK p : p = Noted(x, out) /\ req' = [req EXCEPT ![r] = p]
  BY <1>2, Zenon DEF Makes
<1>7. /\ Settled(q, db', faults') /\ Kept(q, db') /\ ~q.failed /\ q.kind = "oauth"
      /\ q.pc = "oauth.find" => Fresh(q)
  BY <1>5, FreshIsSettled, Zenon DEF AtFind, AtFindAgain, Fresh, Settled
<1>9. ASSUME out.err = "nil", x = FailsNaming([q EXCEPT !.user = out.val], {"OAuthLinkDisabled"})
       PROVE  ReqOK(p, db', drawn', faults') /\ p.made = q.made
  <2>1. PICK z : z = [q EXCEPT !.user = out.val]
    BY Zenon
  <2>2. /\ Alters(z, q)
        /\ z.user = out.val /\ z.made = q.made /\ z.created = q.created /\ z.linked = q.linked /\
           z.again = q.again /\ z.cause = q.cause /\ z.stood = q.stood
    BY <1>5, <2>1, FieldsAre DEF Alters, SameTask, Common
  <2>3. z.made \in drawn' \cup {Nil} /\ (z.cause = "error" => faults' >= 1) /\ z.err = {}
    BY <1>5, <2>2, Zenon DEF Common, Called, Alters
  <2>4. Common(z, db', drawn', faults')
    BY <1>5, <2>2, <2>3, Altered, Zenon
  <2>5. Settled(z, db', faults')
    BY <1>7, <2>2, Zenon DEF Settled, Kept, Excused, Alters
  <2>6. PICK err : err = {"OAuthLinkDisabled"}
    BY Zenon
  <2>7. EndsAs(p, z, err, out)
    BY <1>6, <1>9, <2>1, <2>6, Zenon DEF EndsAs
  <2>8. MayEnd(z, err, out, db', faults')
    BY <1>7, <1>9, <2>2, <2>5, Zenon DEF MayEnd, Alters, SameTask
  <2>9. Ended(p, z, db', drawn', faults')
    BY <2>4, <2>7, <2>8, Finishes, Zenon
  <2> QED
    BY <2>9, <2>2, Zenon DEF Ended
<1>10. ASSUME out.err = "nil", x = GoTo([q EXCEPT !.user = out.val], "oauth.autolink")
       PROVE  ReqOK(p, db', drawn', faults') /\ p.made = q.made
  <2>1. PICK z : z = [q EXCEPT !.user = out.val]
    BY Zenon
  <2>2. /\ Alters(z, q)
        /\ z.user = out.val /\ z.made = q.made /\ z.created = q.created /\ z.linked = q.linked /\
           z.again = q.again /\ z.cause = q.cause /\ z.stood = q.stood
    BY <1>5, <2>1, FieldsAre DEF Alters, SameTask, Common
  <2>3. z.made \in drawn' \cup {Nil} /\ (z.cause = "error" => faults' >= 1) /\ z.err = {}
    BY <1>5, <2>2, Zenon DEF Common, Called, Alters
  <2>4. Common(z, db', drawn', faults')
    BY <1>5, <2>2, <2>3, Altered, Zenon
  <2>5. Kept(z, db') /\ z.user \in drawn'
    BY <1>3, <1>4, <1>7, <1>10, <2>2, <1>2, Zenon DEF Kept, Called
  <2>6. PICK pc : pc = "oauth.autolink"
    BY Zenon
  <2>7. p = Noted(GoTo(z, pc), out)
    BY <1>6, <1>10, <2>1, <2>6, Zenon
  <2>8. Goes(p, z, pc, db', drawn', faults', out)
    BY <2>3, <2>4, <2>7, GoToGoes, Zenon
  <2>9. Common(p, db', drawn', faults') /\ Kept(p, db') /\ ~p.failed
    BY <1>7, <1>10, <2>2, <2>5, <2>8, Zenon DEF Goes, Carried, Alters
  <2>10. AtAutolink(p, db', drawn') /\ p.made = q.made
    BY <1>7, <2>6, <2>2, <2>5, <2>8, <2>9, Zenon DEF AtAutolink, Goes, Becomes, Alters, SameTask
  <2> QED
    BY <2>9, <2>10, Zenon DEF ReqOK, Place
<1>11. ASSUME out.err = "UserNotFound" /\ q.pc = "oauth.find", x = GoTo(q, "oauth.create")
       PROVE  ReqOK(p, db', drawn', faults') /\ p.made = q.made
  <2>1. PICK pc : pc = "oauth.create"
    BY Zenon
  <2>2. p = Noted(GoTo(q, pc), out)
    BY <1>6, <1>11, <2>1, Zenon
  <2>3. Goes(p, q, pc, db', drawn', faults', out)
    BY <1>5, <2>2, GoToGoes, Zenon
  <2>4. Common(p, db', drawn', faults') /\ Fresh(p)
    BY <1>7, <1>11, <2>3, Zenon DEF Goes, Carried
  <2>5. AtFind(p) /\ p.made = q.made
    BY <1>7, <2>1, <2>3, <2>4, Zenon DEF AtFind, Goes, Becomes, Alters, SameTask
  <2> QED
    BY <2>4, <2>5, Zenon DEF ReqOK, Place
<1>12. ASSUME out.err # "nil", x = Fails(q, {"error"})
       PROVE  ReqOK(p, db', drawn', faults') /\ p.made = q.made
  <2>1. PICK err : err = {"error"}
    BY Zenon
  <2>2. EndsAs(p, q, err, out)
    BY <1>6, <1>12, <2>1, Zenon DEF EndsAs
  <2>3. MayEnd(q, err, out, db', faults')
    BY <1>7, <2>1, Zenon DEF MayEnd, Alters, SameTask
  <2>4. Ended(p, q, db', drawn', faults')
    BY <1>5, <2>2, <2>3, Finishes, Zenon
  <2> QED
    BY <2>4, Zenon DEF Ended
<1>13. ReqOK(p, db', drawn', faults') /\ p.made = q.made
  BY <1>2, <1>9, <1>10, <1>11, <1>12, Zenon
<1>14. \/ db.oauth \subseteq db'.oauth
       \/ q.kind # "oauth"
       \/ q.stood = {}
  BY <1>3, <1>4, Zenon DEF Called
<1> QED
  BY <1>1, <1>2, <1>4, <1>6, <1>13, <1>14, Stepped, Zenon DEF Called

LEMMA CreateUserStep ==
  ASSUME AccInv, NEW r \in Request, CreateUser(r)
  PROVE  Sound(r)
<1>0. PICK detached \in BOOLEAN : detached = FALSE
  BY Zenon
<1>d. PICK u \in User \ drawn :
        /\ drawn' = drawn \cup {u}
        /\ \E out \in Outcomes(r, Pg!Create(db, u, Drawing(req[r], u).email), FALSE) :
             /\ db' = out.store /\ faults' = faults + out.faults
             /\ req' = [req EXCEPT ![r] = Noted(
                  (CASE out.err = "nil" ->
                            GoTo([Drawing(req[r], u) EXCEPT !.created = TRUE], "oauth.link")
                     [] out.err = "UserExists" -> GoTo(Drawing(req[r], u), "oauth.findAgain")
                     [] OTHER -> Fails(Drawing(req[r], u), {"error"})), out)]
  BY ZenonT(60) DEF CreateUser, CallWith, Noted, Drawing
<1>1. PICK q, y, res :
        q = req[r] /\ y = Drawing(q, u) /\ res = Pg!Create(db, u, y.email)
  BY Zenon
<1>2. PICK out, x :
        /\ Makes(r, res, detached, out, x)
        /\ \/ out.err = "nil" /\ x = GoTo([y EXCEPT !.created = TRUE], "oauth.link")
           \/ out.err = "UserExists" /\ x = GoTo(y, "oauth.findAgain")
           \/ out.err \notin {"nil", "UserExists"} /\ x = Fails(y, {"error"})
  BY <1>0, <1>d, <1>1, Zenon DEF Makes
<1>3. /\ res.err \in {"nil", "UserExists"} /\ (res.err = "UserExists" => res.store = db)
      /\ ~StoredIn(db, u) /\ DbOK(res.store, drawn \cup {u}) /\ Keeps(db, res.store, drawn)
      /\ db.oauth \subseteq res.store.oauth
  <2>1. PICK e : e = y.email
    BY Zenon
  <2>2. DbOK(db, drawn) /\ u \notin drawn /\ res = Pg!Create(db, u, e)
    BY <1>1, <2>1, Zenon DEF AccInv
  <2>3. Creates(res, db, drawn, u)
    BY <2>2, CreateCall, Zenon
  <2> QED
    BY <2>3, Zenon DEF Creates
<1>4. Called(q, res, detached, out)
  <2>1. drawn \subseteq drawn' /\ drawn' \in SUBSET User
    BY <1>d, ZenonT(60) DEF AccInv
  <2>2. res.err # "error"
    BY <1>3, Zenon
  <2>3. DbOK(res.store, drawn') /\ Keeps(db, res.store, drawn)
    BY <1>3, <1>d, Zenon DEF AccInv
  <2> QED
    BY <1>1, <1>2, <2>1, <2>2, <2>3, Calling, Zenon
<1>5. /\ Common(q, db', drawn', faults') /\ AtFind(q)
      /\ q.err = {} /\ ~StoredIn(db', Nil)
  <2>1. q.pc = "oauth.create"
    BY <1>1, Zenon DEF CreateUser, At
  <2>2. Common(q, db', drawn', faults') /\ AtFind(q) /\ ~StoredIn(db', Nil)
    BY <1>4, <2>1, PlaceIs, Zenon DEF Called
  <2> QED
    BY <2>1, <2>2, Zenon DEF Common
<1>6. PICK p : p = Noted(x, out) /\ req' = [req EXCEPT ![r] = p]
  BY <1>2, Zenon DEF Makes
<1>7. /\ Settled(q, db', faults') /\ Fresh(q) /\ ~q.failed
      /\ q.kind = "oauth" /\ q.made = Nil /\ q.cause = "nil"
  BY <1>5, FreshIsSettled, Zenon DEF AtFind, Fresh
<1>8. Common(y, db', drawn', faults') /\ Alters(y, q) /\ y.user = u /\ y.made = u /\ y.cause = q.cause
      /\ y.err = {} /\ u \in drawn'
  <2>1. Alters(y, q) /\ y.user = u /\ y.made = u /\ y.cause = q.cause
    BY <1>1, <1>5, FieldsAre DEF Alters, SameTask, Common, Drawing
  <2> QED
    BY <1>d, <1>5, <1>7, <2>1, Altered, Zenon DEF Fresh, Alters
<1>9. u \notin q.before
  BY <1>1, <1>d, Zenon DEF AccInv, ReqOK, Common
<1>10. ASSUME out.err = "nil", x = GoTo([y EXCEPT !.created = TRUE], "oauth.link")
       PROVE  ReqOK(p, db', drawn', faults') /\ p.made = u
  <2>1. PICK z : z = [y EXCEPT !.created = TRUE]
    BY Zenon
  <2>2. /\ Alters(z, y)
        /\ z.user = y.user /\ z.made = y.made /\ z.created = TRUE /\ z.linked = y.linked /\ z.again
           = y.again /\ z.cause = y.cause /\ z.stood = y.stood
    BY <1>8, <2>1, FieldsAre DEF Alters, SameTask, Common
  <2>3. z.made \in drawn' \cup {Nil} /\ (z.cause = "error" => faults' >= 1) /\ z.err = {}
    BY <1>8, <2>2, Zenon DEF Common, Called, Alters
  <2>4. Common(z, db', drawn', faults')
    BY <1>8, <2>2, <2>3, Altered, Zenon
  <2>5. z.kind = "oauth" /\ z.user = u /\ z.made = u /\ z.created /\ u \in drawn' /\ u \notin z.before
    BY <1>7, <1>8, <1>9, <2>2, Zenon DEF Alters, SameTask
  <2>6. PICK pc : pc = "oauth.link"
    BY Zenon
  <2>7. p = Noted(GoTo(z, pc), out)
    BY <1>6, <1>10, <2>1, <2>6, Zenon
  <2>8. Goes(p, z, pc, db', drawn', faults', out)
    BY <2>3, <2>4, <2>7, GoToGoes, Zenon
  <2>9. Common(p, db', drawn', faults') /\ (Kept(z, db') => Kept(p, db'))
    BY <2>8, Zenon DEF Goes, Carried
  <2>10. AtLink(p, db', drawn') /\ p.made = u
    BY <2>6, <2>5, <2>8, Zenon DEF AtLink, Goes, Becomes, Alters, SameTask
  <2> QED
    BY <2>9, <2>10, Zenon DEF ReqOK, Place
<1>11. ASSUME out.err = "UserExists", x = GoTo(y, "oauth.findAgain")
       PROVE  ReqOK(p, db', drawn', faults') /\ p.made = u
  <2>1. Kept(y, db')
    BY <1>3, <1>4, <1>8, <1>11, Zenon DEF Kept, Called
  <2>2. PICK pc : pc = "oauth.findAgain"
    BY Zenon
  <2>3. p = Noted(GoTo(y, pc), out)
    BY <1>6, <1>11, <2>2, Zenon
  <2>4. Goes(p, y, pc, db', drawn', faults', out)
    BY <1>8, <2>3, GoToGoes, Zenon
  <2>5. Common(p, db', drawn', faults') /\ Kept(p, db') /\ ~p.failed
    BY <1>7, <1>8, <1>11, <2>1, <2>4, Zenon DEF Goes, Carried, Alters
  <2>6. AtFindAgain(p, db') /\ p.made = u
    BY <1>7, <1>8, <2>2, <2>4, <2>5, Zenon DEF AtFindAgain, Goes, Becomes, Alters, SameTask
  <2> QED
    BY <2>5, <2>6, Zenon DEF ReqOK, Place
<1>12. ASSUME out.err \notin {"nil", "UserExists"}, x = Fails(y, {"error"})
       PROVE  ReqOK(p, db', drawn', faults') /\ p.made = u
  <2>1. out.err = "error"
    BY <1>3, <1>4, <1>12, Zenon DEF Called
  <2>2. PICK err : err = {"error"}
    BY Zenon
  <2>3. EndsAs(p, y, err, out)
    BY <1>6, <1>12, <2>2, Zenon DEF EndsAs
  <2>4. MayEnd(y, err, out, db', faults')
    BY <1>7, <1>8, <2>2, <2>1, Zenon DEF MayEnd, Alters, SameTask
  <2>5. Ended(p, y, db', drawn', faults')
    BY <1>8, <2>3, <2>4, Finishes, Zenon
  <2> QED
    BY <2>5, <1>8, Zenon DEF Ended
<1>13. ReqOK(p, db', drawn', faults') /\ p.made = u
  BY <1>2, <1>10, <1>11, <1>12, Zenon
<1>14. \/ db.oauth \subseteq db'.oauth
       \/ q.kind # "oauth"
       \/ q.stood = {}
  BY <1>3, <1>4, Zenon DEF Called
<1> QED
  BY <1>1, <1>d, <1>4, <1>6, <1>7, <1>13, <1>14, Stepped, Zenon DEF Called, Fresh

LEMMA CheckAutoLinkStep ==
  ASSUME AccInv, NEW r \in Request, CheckAutoLink(r)
  PROVE  Sound(r)
<1>0. PICK detached \in BOOLEAN : detached = FALSE
  BY Zenon
<1>1. PICK q, res : q = req[r] /\ res = Pg!GetPasswordHash(db, q.user)
  BY Zenon
<1>2. PICK out, x :
        /\ Makes(r, res, detached, out, x) /\ drawn' = drawn
        /\ \/ out.err = "nil" /\ x = FailsNaming(q, {"OAuthAccountHasPassword"})
           \/ out.err = "CredentialNotFound" /\ x = GoTo([q EXCEPT !.linked = TRUE], "oauth.link")
           \/ out.err \notin {"nil", "CredentialNotFound"} /\ x = FailsNaming(q, {"error"})
  BY <1>0, <1>1, Zenon DEF CheckAutoLink, Call, CallWith, Makes, Noted
<1>3. /\ res.err \in {"nil", "CredentialNotFound"} /\ res.store = db
      /\ res.err = "CredentialNotFound" => ~PasswordIn(db, q.user)
  BY <1>1, GetPasswordCall, Zenon DEF AccInv
<1>4. Called(q, res, detached, out)
  <2>1. drawn \subseteq drawn' /\ drawn' \in SUBSET User
    BY <1>2, Zenon DEF AccInv
  <2>2. res.err # "error"
    BY <1>3, Zenon
  <2>3. DbOK(res.store, drawn') /\ Keeps(db, res.store, drawn)
    BY <1>2, <1>3, KeepsSame, Zenon DEF AccInv
  <2> QED
    BY <1>1, <1>2, <2>1, <2>2, <2>3, Calling, Zenon
<1>5. /\ Common(q, db', drawn', faults') /\ AtAutolink(q, db', drawn')
      /\ q.err = {} /\ ~StoredIn(db', Nil)
  <2>1. q.pc = "oauth.autolink"
    BY <1>1, Zenon DEF CheckAutoLink, At
  <2>2. Common(q, db', drawn', faults') /\ AtAutolink(q, db', drawn') /\ ~StoredIn(db', Nil)
    BY <1>4, <2>1, PlaceIs, Zenon DEF Called
  <2> QED
    BY <2>1, <2>2, Zenon DEF Common
<1>6. PICK p : p = Noted(x, out) /\ req' = [req EXCEPT ![r] = p]
  BY <1>2, Zenon DEF Makes
<1>7. Settled(q, db', faults') /\ Kept(q, db') /\ ~q.failed /\ q.kind = "oauth" /\ q.user \in drawn'
  BY <1>5, FreshIsSettled, Zenon DEF AtAutolink, Settled
<1>9. ASSUME out.err = "nil", x = FailsNaming(q, {"OAuthAccountHasPassword"})
       PROVE  ReqOK(p, db', drawn', faults') /\ p.made = q.made
  <2>1. PICK err : err = {"OAuthAccountHasPassword"}
    BY Zenon
  <2>2. EndsAs(p, q, err, out)
    BY <1>6, <1>9, <2>1, Zenon DEF EndsAs
  <2>3. MayEnd(q, err, out, db', faults')
    BY <1>7, <1>9, Zenon DEF MayEnd, Alters, SameTask
  <2>4. Ended(p, q, db', drawn', faults')
    BY <1>5, <2>2, <2>3, Finishes, Zenon
  <2> QED
    BY <2>4, Zenon DEF Ended
<1>10. ASSUME out.err = "CredentialNotFound", x = GoTo([q EXCEPT !.linked = TRUE], "oauth.link")
       PROVE  ReqOK(p, db', drawn', faults') /\ p.made = q.made
  <2>1. PICK z : z = [q EXCEPT !.linked = TRUE]
    BY Zenon
  <2>2. /\ Alters(z, q)
        /\ z.user = q.user /\ z.made = q.made /\ z.created = q.created /\ z.linked = TRUE /\ z.again
           = q.again /\ z.cause = q.cause /\ z.stood = q.stood
    BY <1>5, <2>1, FieldsAre DEF Alters, SameTask, Common
  <2>3. z.made \in drawn' \cup {Nil} /\ (z.cause = "error" => faults' >= 1) /\ z.err = {}
    BY <1>5, <2>2, Zenon DEF Common, Called, Alters
  <2>4. Common(z, db', drawn', faults')
    BY <1>5, <2>2, <2>3, Altered, Zenon
  <2>5. Kept(z, db')
    BY <1>7, <2>2, Zenon DEF Kept
  <2>6. z.user \in z.before => ~StoredIn(db', z.user)
    BY <1>3, <1>4, <1>10, <2>2, <2>4, Zenon DEF Common, Called
  <2>7. PICK pc : pc = "oauth.link"
    BY Zenon
  <2>8. p = Noted(GoTo(z, pc), out)
    BY <1>6, <1>10, <2>1, <2>7, Zenon
  <2>9. Goes(p, z, pc, db', drawn', faults', out)
    BY <2>3, <2>4, <2>8, GoToGoes, Zenon
  <2>10. Common(p, db', drawn', faults') /\ (Kept(z, db') => Kept(p, db'))
    BY <2>9, Zenon DEF Goes, Carried
  <2>11. AtLink(p, db', drawn') /\ p.made = q.made
    BY <1>7, <2>7, <2>2, <2>5, <2>6, <2>9, <2>10, Zenon DEF AtLink, Goes, Becomes, Alters, SameTask
  <2> QED
    BY <2>10, <2>11, Zenon DEF ReqOK, Place
<1>11. ASSUME out.err \notin {"nil", "CredentialNotFound"}, x = FailsNaming(q, {"error"})
       PROVE  ReqOK(p, db', drawn', faults') /\ p.made = q.made
  <2>1. PICK err : err = {"error"}
    BY Zenon
  <2>2. EndsAs(p, q, err, out)
    BY <1>6, <1>11, <2>1, Zenon DEF EndsAs
  <2>3. MayEnd(q, err, out, db', faults')
    BY <1>7, <2>1, Zenon DEF MayEnd, Alters, SameTask
  <2>4. Ended(p, q, db', drawn', faults')
    BY <1>5, <2>2, <2>3, Finishes, Zenon
  <2> QED
    BY <2>4, Zenon DEF Ended
<1>12. ReqOK(p, db', drawn', faults') /\ p.made = q.made
  BY <1>2, <1>9, <1>10, <1>11, Zenon
<1>13. \/ db.oauth \subseteq db'.oauth
       \/ q.kind # "oauth"
       \/ q.stood = {}
  BY <1>3, <1>4, Zenon DEF Called
<1> QED
  BY <1>1, <1>2, <1>4, <1>6, <1>12, <1>13, Stepped, Zenon DEF Called

LEMMA LinkAccountStep ==
  ASSUME AccInv, NEW r \in Request, LinkAccount(r)
  PROVE  Sound(r)
<1>0. PICK detached \in BOOLEAN : detached = FALSE
  BY Zenon
<1>1. PICK q, res : q = req[r] /\ res = Pg!SaveOAuthIdentity(db, q.account, q.user, 0)
  BY Zenon
<1>2. PICK out, x :
        /\ Makes(r, res, detached, out, x) /\ drawn' = drawn
        /\ \/ out.err = "nil" /\ x = GoTo(q, "issue")
           \/ out.err # "nil" /\ q.created /\ x = GoTo(LostLink(q, out), "oauth.links")
           \/ out.err # "nil" /\ ~q.created /\ x = AfterLostLink(LostLink(q, out))
  BY <1>0, <1>1, ZenonT(60) DEF LinkAccount, LostLink, Call, CallWith, Makes, Noted
<1>3. /\ res.err \in {"nil", "OAuthIdentityExists", "UserNotFound"}
      /\ DbOK(res.store, drawn) /\ Keeps(db, res.store, drawn) /\ db.oauth \subseteq res.store.oauth
      /\ res.err = "nil" => StoredIn(res.store, q.user) /\ LinkedIn(res.store, q.account, q.user)
  BY <1>1, SaveOAuthCall, Zenon DEF AccInv
<1>4. Called(q, res, detached, out)
  <2>1. drawn \subseteq drawn' /\ drawn' \in SUBSET User
    BY <1>2, Zenon DEF AccInv
  <2>2. res.err # "error"
    BY <1>3, Zenon
  <2>3. DbOK(res.store, drawn') /\ Keeps(db, res.store, drawn)
    BY <1>2, <1>3, Zenon DEF AccInv
  <2> QED
    BY <1>1, <1>2, <2>1, <2>2, <2>3, Calling, Zenon
<1>5. /\ Common(q, db', drawn', faults') /\ AtLink(q, db', drawn')
      /\ q.err = {} /\ ~StoredIn(db', Nil)
  <2>1. q.pc = "oauth.link"
    BY <1>1, Zenon DEF LinkAccount, At
  <2>2. Common(q, db', drawn', faults') /\ AtLink(q, db', drawn') /\ ~StoredIn(db', Nil)
    BY <1>4, <2>1, PlaceIs, Zenon DEF Called
  <2> QED
    BY <2>1, <2>2, Zenon DEF Common
<1>6. PICK p : p = Noted(x, out) /\ req' = [req EXCEPT ![r] = p]
  BY <1>2, Zenon DEF Makes
<1>7. /\ q.kind = "oauth" /\ q.user \in drawn' /\ (q.user \in q.before => ~StoredIn(db', q.user))
      /\ Kept(q, db') \/ (q.created /\ q.made = q.user)
  BY <1>5, FreshIsSettled, Zenon DEF AtLink
<1>9. ASSUME out.err = "nil", x = GoTo(q, "issue")
       PROVE  ReqOK(p, db', drawn', faults') /\ p.made = q.made
  <2>1. StoredIn(db', q.user) /\ LinkedIn(db', q.account, q.user)
    BY <1>3, <1>4, <1>9, Zenon DEF Called
  <2>2. Settled(q, db', faults')
    BY <1>7, <2>1, Zenon DEF Settled, Kept, ReachableIn, LinkedIn
  <2>3. SignsIn(q, db', drawn')
    BY <1>7, <2>1, Zenon DEF SignsIn
  <2>4. PICK pc : pc = "issue"
    BY Zenon
  <2>5. p = Noted(GoTo(q, pc), out)
    BY <1>6, <1>9, <2>4, Zenon
  <2>6. Goes(p, q, pc, db', drawn', faults', out)
    BY <1>5, <2>5, GoToGoes, Zenon
  <2>7. Common(p, db', drawn', faults') /\ Settled(p, db', faults') /\ SignsIn(p, db', drawn')
    BY <2>2, <2>3, <2>6, Zenon DEF Goes, Carried
  <2>8. AtIssue(p, db', drawn', faults') /\ p.made = q.made
    BY <1>7, <2>4, <2>1, <2>6, <2>7, Zenon DEF AtIssue, Goes, Becomes, Alters, SameTask
  <2> QED
    BY <2>7, <2>8, Zenon DEF ReqOK, Place
<1>10. ASSUME out.err # "nil" /\ q.created, x = GoTo(LostLink(q, out), "oauth.links")
       PROVE  ReqOK(p, db', drawn', faults') /\ p.made = q.made
  <2>1. PICK z : z = LostLink(q, out)
    BY Zenon
  <2>2. /\ Alters(z, q)
        /\ z.user = q.user /\ z.made = q.made /\ z.created = q.created /\ z.linked = q.linked /\
           z.again = q.again /\ z.cause = out.err /\ z.stood = {v \in out.store.oauth : v.user =
           q.user}
    BY <1>5, <2>1, FieldsAre DEF Alters, SameTask, Common, LostLink
  <2>3. z.made \in drawn' \cup {Nil} /\ (z.cause = "error" => faults' >= 1) /\ z.err = {}
    BY <1>4, <1>5, <2>2, Zenon DEF Common, Called, Alters
  <2>4. Common(z, db', drawn', faults')
    BY <1>5, <2>2, <2>3, Altered, Zenon
  <2>5. Kept(z, db') \/ z.made = z.user
    BY <1>7, <2>2, Zenon DEF Kept
  <2>6. \A v \in z.stood : v.user = z.user /\ v \in db'.oauth
    BY <2>2, <1>2, Zenon DEF Makes
  <2>7. PICK pc : pc = "oauth.links"
    BY Zenon
  <2>8. p = Noted(GoTo(z, pc), out)
    BY <1>6, <1>10, <2>1, <2>7, Zenon
  <2>9. Goes(p, z, pc, db', drawn', faults', out)
    BY <2>3, <2>4, <2>8, GoToGoes, Zenon
  <2>10. Common(p, db', drawn', faults') /\ (Kept(z, db') => Kept(p, db'))
    BY <2>9, Zenon DEF Goes, Carried
  <2>11. AtLinks(p, db', drawn') /\ p.made = q.made
    BY <1>5, <1>7, <2>7, <2>2, <2>5, <2>6, <2>9, <2>10, Zenon DEF AtLinks, Goes, Becomes, Alters,
       SameTask
  <2> QED
    BY <2>10, <2>11, Zenon DEF ReqOK, Place
<1>11. ASSUME out.err # "nil" /\ ~q.created, x = AfterLostLink(LostLink(q, out))
       PROVE  ReqOK(p, db', drawn', faults') /\ p.made = q.made
  <2>1. PICK z : z = LostLink(q, out)
    BY Zenon
  <2>2. /\ Alters(z, q)
        /\ z.user = q.user /\ z.made = q.made /\ z.created = q.created /\ z.linked = q.linked /\
           z.again = q.again /\ z.cause = out.err /\ z.stood = {v \in out.store.oauth : v.user =
           q.user}
    BY <1>5, <2>1, FieldsAre DEF Alters, SameTask, Common, LostLink
  <2>3. z.made \in drawn' \cup {Nil} /\ (z.cause = "error" => faults' >= 1) /\ z.err = {}
    BY <1>4, <1>5, <2>2, Zenon DEF Common, Called, Alters
  <2>4. Common(z, db', drawn', faults')
    BY <1>5, <2>2, <2>3, Altered, Zenon
  <2>5. Settled(z, db', faults')
    BY <1>7, <1>11, <2>2, Zenon DEF Settled, Kept
  <2>6. z.kind = "oauth" /\ p = Noted(AfterLostLink(z), out)
    BY <1>6, <1>7, <1>11, <2>1, <2>2, Zenon DEF Alters, SameTask
  <2>7. Ended(p, z, db', drawn', faults')
    BY <2>3, <2>4, <2>6, <2>5, LosesLink, Zenon
  <2> QED
    BY <2>7, <2>2, Zenon DEF Ended
<1>12. ReqOK(p, db', drawn', faults') /\ p.made = q.made
  BY <1>2, <1>9, <1>10, <1>11, Zenon
<1>13. \/ db.oauth \subseteq db'.oauth
       \/ q.kind # "oauth"
       \/ q.stood = {}
  BY <1>3, <1>4, Zenon DEF Called
<1> QED
  BY <1>1, <1>2, <1>4, <1>6, <1>12, <1>13, Stepped, Zenon DEF Called

LEMMA CheckLinksStep ==
  ASSUME AccInv, NEW r \in Request, CheckLinks(r)
  PROVE  Sound(r)
<1>0. PICK detached \in BOOLEAN : detached = TRUE
  BY Zenon
<1>1. PICK q, res : q = req[r] /\ res = Pg!ListOAuthIdentities(db, q.user)
  BY Zenon
<1>2. PICK out, x :
        /\ Makes(r, res, detached, out, x) /\ drawn' = drawn
        /\ \/ out.err = "nil" /\ DOMAIN out.val = {} /\ x = GoTo(q, "oauth.discard")
           \/ ~(out.err = "nil" /\ DOMAIN out.val = {}) /\ x = AfterLostLink(q)
  BY <1>0, <1>1, Zenon DEF CheckLinks, CallDetached, CallWith, Makes, Noted
<1>3. /\ res.err = "nil" /\ res.store = db
      /\ DOMAIN res.val = {} <=> \A v \in db.oauth : v.user # q.user
  BY <1>1, ListCall DEF AccInv
<1>4. Called(q, res, detached, out)
  <2>1. drawn \subseteq drawn' /\ drawn' \in SUBSET User
    BY <1>2, Zenon DEF AccInv
  <2>2. res.err # "error"
    BY <1>3, Zenon
  <2>3. DbOK(res.store, drawn') /\ Keeps(db, res.store, drawn)
    BY <1>2, <1>3, KeepsSame, Zenon DEF AccInv
  <2> QED
    BY <1>1, <1>2, <2>1, <2>2, <2>3, Calling, Zenon
<1>5. /\ Common(q, db', drawn', faults') /\ AtLinks(q, db', drawn')
      /\ q.err = {} /\ ~StoredIn(db', Nil)
  <2>1. q.pc = "oauth.links"
    BY <1>1, Zenon DEF CheckLinks, At
  <2>2. Common(q, db', drawn', faults') /\ AtLinks(q, db', drawn') /\ ~StoredIn(db', Nil)
    BY <1>4, <2>1, PlaceIs, Zenon DEF Called
  <2> QED
    BY <2>1, <2>2, Zenon DEF Common
<1>6. PICK p : p = Noted(x, out) /\ req' = [req EXCEPT ![r] = p]
  BY <1>2, Zenon DEF Makes
<1>7. /\ q.kind = "oauth" /\ q.user \in drawn' /\ (Kept(q, db') \/ q.made = q.user)
      /\ \A v \in q.stood : v.user = q.user /\ (StoredIn(db', q.user) => v \in db'.oauth)
  BY <1>5, FreshIsSettled, Zenon DEF AtLinks
<1>9. ASSUME out.err = "nil" /\ DOMAIN out.val = {}, x = GoTo(q, "oauth.discard")
       PROVE  ReqOK(p, db', drawn', faults') /\ p.made = q.made
  <2>1. \A v \in db'.oauth : v.user # q.user
    BY <1>3, <1>4, <1>9, Zenon DEF Called
  <2>2. StoredIn(db', q.user) => q.stood = {}
    BY <1>7, <2>1, Zenon
  <2>3. PICK pc : pc = "oauth.discard"
    BY Zenon
  <2>4. p = Noted(GoTo(q, pc), out)
    BY <1>6, <1>9, <2>3, Zenon
  <2>5. Goes(p, q, pc, db', drawn', faults', out)
    BY <1>5, <2>4, GoToGoes, Zenon
  <2>6. Common(p, db', drawn', faults') /\ (Kept(q, db') => Kept(p, db'))
    BY <2>5, Zenon DEF Goes, Carried
  <2>7. AtDiscard(p, db', drawn') /\ p.made = q.made
    BY <1>7, <2>3, <2>2, <2>5, <2>6, Zenon DEF AtDiscard, Goes, Becomes, Alters, SameTask
  <2> QED
    BY <2>6, <2>7, Zenon DEF ReqOK, Place
<1>10. ASSUME ~(out.err = "nil" /\ DOMAIN out.val = {}), x = AfterLostLink(q)
       PROVE  ReqOK(p, db', drawn', faults') /\ p.made = q.made
  <2>1. out.err # "error" => \E v \in db'.oauth : v.user = q.user
    BY <1>3, <1>4, <1>10, Zenon DEF Called
  <2>2. out.err # "error" => Settled(q, db', faults')
    BY <1>7, <2>1, Zenon DEF Settled, Kept, ReachableIn
  <2>3. Settled(q, db', faults') \/ (out.err = "error" /\ (q.cause = "error" => faults' >= 2))
    BY <1>4, <2>2, <1>0, Zenon DEF Called
  <2>4. q.kind = "oauth" /\ p = Noted(AfterLostLink(q), out)
    BY <1>6, <1>7, <1>10, Zenon DEF Alters, SameTask
  <2>5. Ended(p, q, db', drawn', faults')
    BY <1>5, <2>4, <2>3, LosesLink, Zenon
  <2> QED
    BY <2>5, Zenon DEF Ended
<1>11. ReqOK(p, db', drawn', faults') /\ p.made = q.made
  BY <1>2, <1>9, <1>10, Zenon
<1>12. \/ db.oauth \subseteq db'.oauth
       \/ q.kind # "oauth"
       \/ q.stood = {}
  BY <1>3, <1>4, Zenon DEF Called
<1> QED
  BY <1>1, <1>2, <1>4, <1>6, <1>11, <1>12, Stepped, Zenon DEF Called

LEMMA DiscardUserStep ==
  ASSUME AccInv, NEW r \in Request, DiscardUser(r)
  PROVE  Sound(r)
<1>0. PICK detached \in BOOLEAN : detached = TRUE
  BY Zenon
<1>1. PICK q, res : q = req[r] /\ res = Pg!Delete(db, q.user)
  BY Zenon
<1>2. PICK out, x :
        /\ Makes(r, res, detached, out, x) /\ drawn' = drawn
        /\ x = AfterLostLink(q)
  BY <1>0, <1>1, Zenon DEF DiscardUser, CallDetached, CallWith, Makes, Noted
<1>3. /\ res.err \in {"nil", "UserNotFound"} /\ ~StoredIn(res.store, q.user)
      /\ DbOK(res.store, drawn) /\ Keeps(db, res.store, drawn)
      /\ ~StoredIn(db, q.user) => res.store = db
  BY <1>1, DeleteCall, Zenon DEF AccInv
<1>4. Called(q, res, detached, out)
  <2>1. drawn \subseteq drawn' /\ drawn' \in SUBSET User
    BY <1>2, Zenon DEF AccInv
  <2>2. res.err # "error"
    BY <1>3, Zenon
  <2>3. DbOK(res.store, drawn') /\ Keeps(db, res.store, drawn)
    BY <1>2, <1>3, Zenon DEF AccInv
  <2> QED
    BY <1>1, <1>2, <2>1, <2>2, <2>3, Calling, Zenon
<1>5. /\ Common(q, db', drawn', faults') /\ AtDiscard(q, db', drawn')
      /\ q.err = {} /\ ~StoredIn(db', Nil)
  <2>1. q.pc = "oauth.discard"
    BY <1>1, Zenon DEF DiscardUser, At
  <2>2. Common(q, db', drawn', faults') /\ AtDiscard(q, db', drawn') /\ ~StoredIn(db', Nil)
    BY <1>4, <2>1, PlaceIs, Zenon DEF Called
  <2> QED
    BY <2>1, <2>2, Zenon DEF Common
<1>6. PICK p : p = Noted(x, out) /\ req' = [req EXCEPT ![r] = p]
  BY <1>2, Zenon DEF Makes
<1>7. q.kind = "oauth" /\ q.user \in drawn' /\ (Kept(q, db') \/ q.made = q.user)
  BY <1>5, FreshIsSettled, Zenon DEF AtDiscard
<1>9. StoredIn(db, q.user) => q.stood = {}
  <2>1. ReqOK(q, db, drawn, faults) /\ q.pc = "oauth.discard"
    BY <1>1, Zenon DEF AccInv, DiscardUser, At
  <2> QED
    BY <2>1, PlaceIs, Zenon DEF AtDiscard
<1>10. ASSUME x = AfterLostLink(q)
       PROVE  ReqOK(p, db', drawn', faults') /\ p.made = q.made
  <2>1. out.err # "error" => Settled(q, db', faults')
    BY <1>3, <1>4, <1>7, Zenon DEF Called, Settled, Kept
  <2>2. Settled(q, db', faults') \/ (out.err = "error" /\ (q.cause = "error" => faults' >= 2))
    BY <1>4, <2>1, <1>0, Zenon DEF Called
  <2>3. q.kind = "oauth" /\ p = Noted(AfterLostLink(q), out)
    BY <1>6, <1>7, <1>10, Zenon DEF Alters, SameTask
  <2>4. Ended(p, q, db', drawn', faults')
    BY <1>5, <2>3, <2>2, LosesLink, Zenon
  <2> QED
    BY <2>4, Zenon DEF Ended
<1>11. ReqOK(p, db', drawn', faults') /\ p.made = q.made
  BY <1>2, <1>10, Zenon
<1>12. \/ db.oauth \subseteq db'.oauth
       \/ q.kind # "oauth"
       \/ q.stood = {}
  BY <1>3, <1>4, <1>9, Zenon DEF Called
<1> QED
  BY <1>1, <1>2, <1>4, <1>6, <1>11, <1>12, Stepped, Zenon DEF Called

LEMMA WalletIdentityStep ==
  ASSUME AccInv, NEW r \in Request, WalletIdentity(r)
  PROVE  Sound(r)
<1>0. PICK detached \in BOOLEAN : detached = FALSE
  BY Zenon
<1>1. PICK q, res : q = req[r] /\ res = Pg!GetWalletIdentity(db, q.wallet)
  BY Zenon
<1>2. PICK out, x :
        /\ Makes(r, res, detached, out, x) /\ drawn' = drawn
        /\ \/ /\ out.err = "nil"
              /\ x = GoTo([q EXCEPT !.created = FALSE, !.user = out.val], "getUser")
           \/ out.err = "WalletIdentityNotFound" /\ ~q.again /\ x = GoTo(q, "wallet.create")
           \/ out.err # "nil" /\ x = Fails([q EXCEPT !.created = FALSE], {"error"})
  BY <1>0, <1>1, Zenon DEF WalletIdentity, Call, CallWith, Makes, Noted
<1>3. /\ res.err \in {"nil", "WalletIdentityNotFound"} /\ res.store = db
      /\ res.err = "nil" => res.val \in drawn /\ OwnsIn(db, q.wallet, res.val)
  BY <1>1, GetWalletCall, Zenon DEF AccInv
<1>4. Called(q, res, detached, out)
  <2>1. drawn \subseteq drawn' /\ drawn' \in SUBSET User
    BY <1>2, Zenon DEF AccInv
  <2>2. res.err # "error"
    BY <1>3, Zenon
  <2>3. DbOK(res.store, drawn') /\ Keeps(db, res.store, drawn)
    BY <1>2, <1>3, KeepsSame, Zenon DEF AccInv
  <2> QED
    BY <1>1, <1>2, <2>1, <2>2, <2>3, Calling, Zenon
<1>5. /\ Common(q, db', drawn', faults') /\ AtWallet(q, db', faults')
      /\ q.err = {} /\ ~StoredIn(db', Nil)
  <2>1. q.pc = "wallet.identity"
    BY <1>1, Zenon DEF WalletIdentity, At
  <2>2. Common(q, db', drawn', faults') /\ AtWallet(q, db', faults') /\ ~StoredIn(db', Nil)
    BY <1>4, <2>1, PlaceIs, Zenon DEF Called
  <2> QED
    BY <2>1, <2>2, Zenon DEF Common
<1>6. PICK p : p = Noted(x, out) /\ req' = [req EXCEPT ![r] = p]
  BY <1>2, Zenon DEF Makes
<1>7. Settled(q, db', faults') /\ q.kind = "wallet" /\ (~q.again => Fresh(q) /\ ~q.failed)
  BY <1>5, FreshIsSettled, Zenon DEF AtWallet, Fresh
<1>9. ASSUME out.err = "nil", x = GoTo([q EXCEPT !.created = FALSE, !.user = out.val], "getUser")
       PROVE  ReqOK(p, db', drawn', faults') /\ p.made = q.made
  <2>1. PICK z : z = [q EXCEPT !.created = FALSE, !.user = out.val]
    BY Zenon
  <2>2. /\ Alters(z, q)
        /\ z.user = out.val /\ z.made = q.made /\ z.created = FALSE /\ z.linked = q.linked /\
           z.again = q.again /\ z.cause = q.cause /\ z.stood = q.stood
    BY <1>5, <2>1, FieldsAre DEF Alters, SameTask, Common
  <2>3. z.made \in drawn' \cup {Nil} /\ (z.cause = "error" => faults' >= 1) /\ z.err = {}
    BY <1>5, <2>2, Zenon DEF Common, Called, Alters
  <2>4. Common(z, db', drawn', faults')
    BY <1>5, <2>2, <2>3, Altered, Zenon
  <2>5. Settled(z, db', faults')
    BY <1>7, <2>2, Zenon DEF Settled, Kept, Excused, Alters
  <2>6. z.user \in drawn' /\ OwnsIn(db', z.wallet, z.user)
    BY <1>3, <1>4, <1>9, <2>2, <1>2, Zenon DEF Called, Alters, SameTask
  <2>7. SignsIn(z, db', drawn')
    BY <1>7, <2>2, <2>6, Zenon DEF SignsIn, Alters, SameTask
  <2>8. PICK pc : pc = "getUser"
    BY Zenon
  <2>9. p = Noted(GoTo(z, pc), out)
    BY <1>6, <1>9, <2>1, <2>8, Zenon
  <2>10. Goes(p, z, pc, db', drawn', faults', out)
    BY <2>3, <2>4, <2>9, GoToGoes, Zenon
  <2>11. Common(p, db', drawn', faults') /\ Settled(p, db', faults') /\ SignsIn(p, db', drawn')
    BY <2>5, <2>7, <2>10, Zenon DEF Goes, Carried
  <2>12. AtGetUser(p, db', drawn', faults') /\ p.made = q.made
    BY <1>7, <2>8, <2>2, <2>10, <2>11, Zenon DEF AtGetUser, Goes, Becomes, Alters, SameTask
  <2> QED
    BY <2>11, <2>12, Zenon DEF ReqOK, Place
<1>10. ASSUME out.err = "WalletIdentityNotFound" /\ ~q.again, x = GoTo(q, "wallet.create")
       PROVE  ReqOK(p, db', drawn', faults') /\ p.made = q.made
  <2>1. PICK pc : pc = "wallet.create"
    BY Zenon
  <2>2. p = Noted(GoTo(q, pc), out)
    BY <1>6, <1>10, <2>1, Zenon
  <2>3. Goes(p, q, pc, db', drawn', faults', out)
    BY <1>5, <2>2, GoToGoes, Zenon
  <2>4. Common(p, db', drawn', faults') /\ Fresh(p)
    BY <1>7, <1>10, <2>3, Zenon DEF Goes, Carried
  <2>5. AtWalletCreate(p) /\ p.made = q.made
    BY <1>7, <2>1, <2>3, <2>4, Zenon DEF AtWalletCreate, Goes, Becomes, Alters, SameTask
  <2> QED
    BY <2>4, <2>5, Zenon DEF ReqOK, Place
<1>11. ASSUME out.err # "nil", x = Fails([q EXCEPT !.created = FALSE], {"error"})
       PROVE  ReqOK(p, db', drawn', faults') /\ p.made = q.made
  <2>1. PICK z : z = [q EXCEPT !.created = FALSE]
    BY Zenon
  <2>2. /\ Alters(z, q)
        /\ z.user = q.user /\ z.made = q.made /\ z.created = FALSE /\ z.linked = q.linked /\ z.again
           = q.again /\ z.cause = q.cause /\ z.stood = q.stood
    BY <1>5, <2>1, FieldsAre DEF Alters, SameTask, Common
  <2>3. z.made \in drawn' \cup {Nil} /\ (z.cause = "error" => faults' >= 1) /\ z.err = {}
    BY <1>5, <2>2, Zenon DEF Common, Called, Alters
  <2>4. Common(z, db', drawn', faults')
    BY <1>5, <2>2, <2>3, Altered, Zenon
  <2>5. Settled(z, db', faults')
    BY <1>7, <2>2, Zenon DEF Settled, Kept, Excused, Alters
  <2>6. PICK err : err = {"error"}
    BY Zenon
  <2>7. EndsAs(p, z, err, out)
    BY <1>6, <1>11, <2>1, <2>6, Zenon DEF EndsAs
  <2>8. MayEnd(z, err, out, db', faults')
    BY <1>7, <2>6, <2>2, <2>5, Zenon DEF MayEnd, Alters, SameTask
  <2>9. Ended(p, z, db', drawn', faults')
    BY <2>4, <2>7, <2>8, Finishes, Zenon
  <2> QED
    BY <2>9, <2>2, Zenon DEF Ended
<1>12. ReqOK(p, db', drawn', faults') /\ p.made = q.made
  BY <1>2, <1>9, <1>10, <1>11, Zenon
<1>13. \/ db.oauth \subseteq db'.oauth
       \/ q.kind # "oauth"
       \/ q.stood = {}
  BY <1>7, Zenon DEF Called
<1> QED
  BY <1>1, <1>2, <1>4, <1>6, <1>12, <1>13, Stepped, Zenon DEF Called

LEMMA CreateWalletUserStep ==
  ASSUME AccInv, NEW r \in Request, CreateWalletUser(r)
  PROVE  Sound(r)
<1>0. PICK detached \in BOOLEAN : detached = FALSE
  BY Zenon
<1>d. PICK u \in User \ drawn :
        /\ drawn' = drawn \cup {u}
        /\ \E out \in Outcomes(r, Pg!Create(db, u, NoEmail), FALSE) :
             /\ db' = out.store /\ faults' = faults + out.faults
             /\ req' = [req EXCEPT ![r] = Noted(
                  (IF out.err = "nil"
                   THEN GoTo([Drawing(req[r], u) EXCEPT !.created = TRUE], "wallet.link")
                   ELSE Fails(Drawing(req[r], u), {"error"})), out)]
  BY Zenon DEF CreateWalletUser, CallWith, Noted, Drawing
<1>1. PICK q, y, res :
        q = req[r] /\ y = Drawing(q, u) /\ res = Pg!Create(db, u, NoEmail)
  BY Zenon
<1>2. PICK out, x :
        /\ Makes(r, res, detached, out, x)
        /\ \/ out.err = "nil" /\ x = GoTo([y EXCEPT !.created = TRUE], "wallet.link")
           \/ out.err # "nil" /\ x = Fails(y, {"error"})
  BY <1>0, <1>d, <1>1, Zenon DEF Makes
<1>3. /\ res.err \in {"nil", "UserExists"} /\ (res.err = "UserExists" => res.store = db)
      /\ ~StoredIn(db, u) /\ DbOK(res.store, drawn \cup {u}) /\ Keeps(db, res.store, drawn)
      /\ db.oauth \subseteq res.store.oauth
  <2>1. PICK e : e = NoEmail
    BY Zenon
  <2>2. DbOK(db, drawn) /\ u \notin drawn /\ res = Pg!Create(db, u, e)
    BY <1>1, <2>1, Zenon DEF AccInv
  <2>3. Creates(res, db, drawn, u)
    BY <2>2, CreateCall, Zenon
  <2> QED
    BY <2>3, Zenon DEF Creates
<1>4. Called(q, res, detached, out)
  <2>1. drawn \subseteq drawn' /\ drawn' \in SUBSET User
    BY <1>d, Zenon DEF AccInv
  <2>2. res.err # "error"
    BY <1>3, Zenon
  <2>3. DbOK(res.store, drawn') /\ Keeps(db, res.store, drawn)
    BY <1>3, <1>d, Zenon DEF AccInv
  <2> QED
    BY <1>1, <1>2, <2>1, <2>2, <2>3, Calling, Zenon
<1>5. /\ Common(q, db', drawn', faults') /\ AtWalletCreate(q)
      /\ q.err = {} /\ ~StoredIn(db', Nil)
  <2>1. q.pc = "wallet.create"
    BY <1>1, Zenon DEF CreateWalletUser, At
  <2>2. Common(q, db', drawn', faults') /\ AtWalletCreate(q) /\ ~StoredIn(db', Nil)
    BY <1>4, <2>1, PlaceIs, Zenon DEF Called
  <2> QED
    BY <2>1, <2>2, Zenon DEF Common
<1>6. PICK p : p = Noted(x, out) /\ req' = [req EXCEPT ![r] = p]
  BY <1>2, Zenon DEF Makes
<1>7. /\ Settled(q, db', faults') /\ Fresh(q) /\ ~q.failed
      /\ q.kind = "wallet" /\ q.made = Nil /\ q.cause = "nil"
  BY <1>5, FreshIsSettled, Zenon DEF AtWalletCreate, Fresh
<1>8. Common(y, db', drawn', faults') /\ Alters(y, q) /\ y.user = u /\ y.made = u /\ y.cause = q.cause
      /\ y.err = {} /\ u \in drawn'
  <2>1. Alters(y, q) /\ y.user = u /\ y.made = u /\ y.cause = q.cause
    BY <1>1, <1>5, FieldsAre DEF Alters, SameTask, Common, Drawing
  <2> QED
    BY <1>d, <1>5, <1>7, <2>1, Altered, Zenon DEF Fresh, Alters
<1>9. ASSUME out.err = "nil", x = GoTo([y EXCEPT !.created = TRUE], "wallet.link")
       PROVE  ReqOK(p, db', drawn', faults') /\ p.made = u
  <2>1. PICK z : z = [y EXCEPT !.created = TRUE]
    BY Zenon
  <2>2. /\ Alters(z, y)
        /\ z.user = y.user /\ z.made = y.made /\ z.created = TRUE /\ z.linked = y.linked /\ z.again
           = y.again /\ z.cause = y.cause /\ z.stood = y.stood
    BY <1>8, <2>1, FieldsAre DEF Alters, SameTask, Common
  <2>3. z.made \in drawn' \cup {Nil} /\ (z.cause = "error" => faults' >= 1) /\ z.err = {}
    BY <1>8, <2>2, Zenon DEF Common, Called, Alters
  <2>4. Common(z, db', drawn', faults')
    BY <1>8, <2>2, <2>3, Altered, Zenon
  <2>5. Mine(z, drawn')
    BY <1>8, <2>2, Zenon DEF Mine
  <2>6. z.kind = "wallet" /\ z.made = u
    BY <1>7, <1>8, <2>2, Zenon DEF Alters, SameTask
  <2>7. PICK pc : pc = "wallet.link"
    BY Zenon
  <2>8. p = Noted(GoTo(z, pc), out)
    BY <1>6, <1>9, <2>1, <2>7, Zenon
  <2>9. Goes(p, z, pc, db', drawn', faults', out)
    BY <2>3, <2>4, <2>8, GoToGoes, Zenon
  <2>10. Common(p, db', drawn', faults') /\ Mine(p, drawn')
    BY <2>5, <2>9, Zenon DEF Goes, Carried
  <2>11. AtWalletLink(p, drawn') /\ p.made = u
    BY <2>7, <2>6, <2>9, <2>10, Zenon DEF AtWalletLink, Goes, Becomes, Alters, SameTask
  <2> QED
    BY <2>10, <2>11, Zenon DEF ReqOK, Place
<1>10. ASSUME out.err # "nil", x = Fails(y, {"error"})
       PROVE  ReqOK(p, db', drawn', faults') /\ p.made = u
  <2>1. Settled(y, db', faults') \/ out.err = "error"
    BY <1>3, <1>4, <1>8, <1>10, Zenon DEF Called, Settled, Kept
  <2>2. PICK err : err = {"error"}
    BY Zenon
  <2>3. EndsAs(p, y, err, out)
    BY <1>6, <1>10, <2>2, Zenon DEF EndsAs
  <2>4. MayEnd(y, err, out, db', faults')
    BY <1>7, <1>8, <2>2, <2>1, Zenon DEF MayEnd, Alters, SameTask
  <2>5. Ended(p, y, db', drawn', faults')
    BY <1>8, <2>3, <2>4, Finishes, Zenon
  <2> QED
    BY <2>5, <1>8, Zenon DEF Ended
<1>11. ReqOK(p, db', drawn', faults') /\ p.made = u
  BY <1>2, <1>9, <1>10, Zenon
<1> QED
  BY <1>1, <1>d, <1>4, <1>6, <1>7, <1>11, Stepped, Zenon DEF Called, Fresh

LEMMA LinkWalletStep ==
  ASSUME AccInv, NEW r \in Request, LinkWallet(r)
  PROVE  Sound(r)
<1>0. PICK detached \in BOOLEAN : detached = FALSE
  BY Zenon
<1>1. PICK q, res : q = req[r] /\ res = Pg!SaveWalletIdentity(db, q.wallet, q.user, 0)
  BY Zenon
<1>2. PICK out, x :
        /\ Makes(r, res, detached, out, x) /\ drawn' = drawn
        /\ \/ out.err = "nil" /\ x = GoTo(q, "issue")
           \/ /\ out.err # "nil"
              /\ x = GoTo([q EXCEPT !.cause = out.err, !.again = TRUE], "wallet.discard")
  BY <1>0, <1>1, Zenon DEF LinkWallet, Call, CallWith, Makes, Noted
<1>3. /\ res.err \in {"nil", "WalletIdentityExists", "UserNotFound"}
      /\ DbOK(res.store, drawn) /\ Keeps(db, res.store, drawn) /\ db.oauth \subseteq res.store.oauth
      /\ res.err = "nil" => OwnsIn(res.store, q.wallet, q.user)
  BY <1>1, SaveWalletCall, Zenon DEF AccInv
<1>4. Called(q, res, detached, out)
  <2>1. drawn \subseteq drawn' /\ drawn' \in SUBSET User
    BY <1>2, Zenon DEF AccInv
  <2>2. res.err # "error"
    BY <1>3, Zenon
  <2>3. DbOK(res.store, drawn') /\ Keeps(db, res.store, drawn)
    BY <1>2, <1>3, Zenon DEF AccInv
  <2> QED
    BY <1>1, <1>2, <2>1, <2>2, <2>3, Calling, Zenon
<1>5. /\ Common(q, db', drawn', faults') /\ AtWalletLink(q, drawn')
      /\ q.err = {} /\ ~StoredIn(db', Nil)
  <2>1. q.pc = "wallet.link"
    BY <1>1, Zenon DEF LinkWallet, At
  <2>2. Common(q, db', drawn', faults') /\ AtWalletLink(q, drawn') /\ ~StoredIn(db', Nil)
    BY <1>4, <2>1, PlaceIs, Zenon DEF Called
  <2> QED
    BY <2>1, <2>2, Zenon DEF Common
<1>6. PICK p : p = Noted(x, out) /\ req' = [req EXCEPT ![r] = p]
  BY <1>2, Zenon DEF Makes
<1>7. q.kind = "wallet" /\ Mine(q, drawn') /\ q.made = q.user /\ q.user \in drawn'
  BY <1>5, FreshIsSettled, Zenon DEF AtWalletLink, Mine
<1>9. ASSUME out.err = "nil", x = GoTo(q, "issue")
       PROVE  ReqOK(p, db', drawn', faults') /\ p.made = q.made
  <2>1. OwnsIn(db', q.wallet, q.user)
    BY <1>3, <1>4, <1>9, Zenon DEF Called
  <2>2. \E v \in db'.wallets : v.user = q.user
    BY <1>3, <1>4, <1>5, <1>7, <1>9, <2>1, SMT DEF OwnsIn
  <2>3. Settled(q, db', faults')
    BY <1>7, <2>2, Zenon DEF Settled, Kept, ReachableIn
  <2>4. SignsIn(q, db', drawn')
    BY <1>7, <2>1, Zenon DEF SignsIn
  <2>5. PICK pc : pc = "issue"
    BY Zenon
  <2>6. p = Noted(GoTo(q, pc), out)
    BY <1>6, <1>9, <2>5, Zenon
  <2>7. Goes(p, q, pc, db', drawn', faults', out)
    BY <1>5, <2>6, GoToGoes, Zenon
  <2>8. Common(p, db', drawn', faults') /\ Settled(p, db', faults') /\ SignsIn(p, db', drawn')
    BY <2>3, <2>4, <2>7, Zenon DEF Goes, Carried
  <2>9. AtIssue(p, db', drawn', faults') /\ p.made = q.made
    BY <1>7, <2>5, <2>7, <2>8, Zenon DEF AtIssue, Goes, Becomes, Alters, SameTask
  <2> QED
    BY <2>8, <2>9, Zenon DEF ReqOK, Place
<1>10. ASSUME out.err # "nil",
              x = GoTo([q EXCEPT !.cause = out.err, !.again = TRUE], "wallet.discard")
       PROVE  ReqOK(p, db', drawn', faults') /\ p.made = q.made
  <2>1. PICK z : z = [q EXCEPT !.cause = out.err, !.again = TRUE]
    BY Zenon
  <2>2. /\ Alters(z, q)
        /\ z.user = q.user /\ z.made = q.made /\ z.created = q.created /\ z.linked = q.linked /\
           z.again = TRUE /\ z.cause = out.err /\ z.stood = q.stood
    BY <1>5, <2>1, FieldsAre DEF Alters, SameTask, Common
  <2>3. z.made \in drawn' \cup {Nil} /\ (z.cause = "error" => faults' >= 1) /\ z.err = {}
    BY <1>4, <1>5, <2>2, Zenon DEF Common, Called, Alters
  <2>4. Common(z, db', drawn', faults')
    BY <1>5, <2>2, <2>3, Altered, Zenon
  <2>5. Mine(z, drawn')
    BY <1>7, <2>2, Zenon DEF Mine
  <2>6. PICK pc : pc = "wallet.discard"
    BY Zenon
  <2>7. p = Noted(GoTo(z, pc), out)
    BY <1>6, <1>10, <2>1, <2>6, Zenon
  <2>8. Goes(p, z, pc, db', drawn', faults', out)
    BY <2>3, <2>4, <2>7, GoToGoes, Zenon
  <2>9. Common(p, db', drawn', faults') /\ Mine(p, drawn')
    BY <2>5, <2>8, Zenon DEF Goes, Carried
  <2>10. AtWalletDiscard(p, drawn') /\ p.made = q.made
    BY <1>7, <2>6, <2>2, <2>8, <2>9, Zenon DEF AtWalletDiscard, Goes, Becomes, Alters, SameTask
  <2> QED
    BY <2>9, <2>10, Zenon DEF ReqOK, Place
<1>11. ReqOK(p, db', drawn', faults') /\ p.made = q.made
  BY <1>2, <1>9, <1>10, Zenon
<1>12. \/ db.oauth \subseteq db'.oauth
       \/ q.kind # "oauth"
       \/ q.stood = {}
  BY <1>7, Zenon DEF Called
<1> QED
  BY <1>1, <1>2, <1>4, <1>6, <1>11, <1>12, Stepped, Zenon DEF Called

LEMMA DiscardWalletUserStep ==
  ASSUME AccInv, NEW r \in Request, DiscardWalletUser(r)
  PROVE  Sound(r)
<1>0. PICK detached \in BOOLEAN : detached = TRUE
  BY Zenon
<1>1. PICK q, res : q = req[r] /\ res = Pg!Delete(db, q.user)
  BY Zenon
<1>2. PICK out, x :
        /\ Makes(r, res, detached, out, x) /\ drawn' = drawn
        /\ \/ q.cause = "WalletIdentityExists" /\ x = GoTo(q, "wallet.identity")
           \/ /\ q.cause # "WalletIdentityExists"
              /\ x = Fails([q EXCEPT !.created = FALSE], {"error"})
  BY <1>0, <1>1, Zenon DEF DiscardWalletUser, CallDetached, CallWith, Makes, Noted
<1>3. /\ res.err \in {"nil", "UserNotFound"} /\ ~StoredIn(res.store, q.user)
      /\ DbOK(res.store, drawn) /\ Keeps(db, res.store, drawn)
      /\ ~StoredIn(db, q.user) => res.store = db
  BY <1>1, DeleteCall, Zenon DEF AccInv
<1>4. Called(q, res, detached, out)
  <2>1. drawn \subseteq drawn' /\ drawn' \in SUBSET User
    BY <1>2, Zenon DEF AccInv
  <2>2. res.err # "error"
    BY <1>3, Zenon
  <2>3. DbOK(res.store, drawn') /\ Keeps(db, res.store, drawn)
    BY <1>2, <1>3, Zenon DEF AccInv
  <2> QED
    BY <1>1, <1>2, <2>1, <2>2, <2>3, Calling, Zenon
<1>5. /\ Common(q, db', drawn', faults') /\ AtWalletDiscard(q, drawn')
      /\ q.err = {} /\ ~StoredIn(db', Nil)
  <2>1. q.pc = "wallet.discard"
    BY <1>1, Zenon DEF DiscardWalletUser, At
  <2>2. Common(q, db', drawn', faults') /\ AtWalletDiscard(q, drawn') /\ ~StoredIn(db', Nil)
    BY <1>4, <2>1, PlaceIs, Zenon DEF Called
  <2> QED
    BY <2>1, <2>2, Zenon DEF Common
<1>6. PICK p : p = Noted(x, out) /\ req' = [req EXCEPT ![r] = p]
  BY <1>2, Zenon DEF Makes
<1>7. q.kind = "wallet" /\ q.made = q.user /\ q.again
  BY <1>5, FreshIsSettled, Zenon DEF AtWalletDiscard, Mine
<1>9. ASSUME q.cause = "WalletIdentityExists", x = GoTo(q, "wallet.identity")
       PROVE  ReqOK(p, db', drawn', faults') /\ p.made = q.made
  <2>1. out.err # "error" => Settled(q, db', faults')
    BY <1>3, <1>4, <1>7, Zenon DEF Called, Settled, Kept
  <2>2. PICK pc : pc = "wallet.identity"
    BY Zenon
  <2>3. p = Noted(GoTo(q, pc), out)
    BY <1>6, <1>9, <2>2, Zenon
  <2>4. Goes(p, q, pc, db', drawn', faults', out)
    BY <1>5, <2>3, GoToGoes, Zenon
  <2>5. Common(p, db', drawn', faults') /\ Settled(p, db', faults')
    BY <1>9, <2>1, <2>4, Zenon DEF Goes, Carried
  <2>6. AtWallet(p, db', faults') /\ p.made = q.made
    BY <1>7, <2>2, <2>4, <2>5, Zenon DEF AtWallet, Goes, Becomes, Alters, SameTask
  <2> QED
    BY <2>5, <2>6, Zenon DEF ReqOK, Place
<1>10. ASSUME q.cause # "WalletIdentityExists", x = Fails([q EXCEPT !.created = FALSE], {"error"})
       PROVE  ReqOK(p, db', drawn', faults') /\ p.made = q.made
  <2>1. PICK z : z = [q EXCEPT !.created = FALSE]
    BY Zenon
  <2>2. /\ Alters(z, q)
        /\ z.user = q.user /\ z.made = q.made /\ z.created = FALSE /\ z.linked = q.linked /\ z.again
           = q.again /\ z.cause = q.cause /\ z.stood = q.stood
    BY <1>5, <2>1, FieldsAre DEF Alters, SameTask, Common
  <2>3. z.made \in drawn' \cup {Nil} /\ (z.cause = "error" => faults' >= 1) /\ z.err = {}
    BY <1>5, <2>2, Zenon DEF Common, Called, Alters
  <2>4. Common(z, db', drawn', faults')
    BY <1>5, <2>2, <2>3, Altered, Zenon
  <2>5. out.err # "error" => Settled(z, db', faults')
    BY <1>3, <1>4, <1>7, <2>2, Zenon DEF Called, Settled, Kept
  <2>6. Settled(z, db', faults') \/ (out.err = "error" /\ (z.cause = "error" => faults' >= 2))
    BY <1>4, <2>2, <2>5, <1>0, Zenon DEF Called
  <2>7. PICK err : err = {"error"}
    BY Zenon
  <2>8. EndsAs(p, z, err, out)
    BY <1>6, <1>10, <2>1, <2>7, Zenon DEF EndsAs
  <2>9. MayEnd(z, err, out, db', faults')
    BY <1>7, <2>7, <2>2, <2>6, Zenon DEF MayEnd, Alters, SameTask
  <2>10. Ended(p, z, db', drawn', faults')
    BY <2>4, <2>8, <2>9, Finishes, Zenon
  <2> QED
    BY <2>10, <2>2, Zenon DEF Ended
<1>11. ReqOK(p, db', drawn', faults') /\ p.made = q.made
  BY <1>2, <1>9, <1>10, Zenon
<1>12. \/ db.oauth \subseteq db'.oauth
       \/ q.kind # "oauth"
       \/ q.stood = {}
  BY <1>7, Zenon DEF Called
<1> QED
  BY <1>1, <1>2, <1>4, <1>6, <1>11, <1>12, Stepped, Zenon DEF Called

LEMMA GetUserStep ==
  ASSUME AccInv, NEW r \in Request, GetUser(r)
  PROVE  Sound(r)
<1>0. PICK detached \in BOOLEAN : detached = FALSE
  BY Zenon
<1>1. PICK q, res : q = req[r] /\ res = Pg!GetByID(db, q.user)
  BY Zenon
<1>2. PICK out, x :
        /\ Makes(r, res, detached, out, x) /\ drawn' = drawn
        /\ \/ out.err = "nil" /\ x = GoTo(q, "issue")
           \/ out.err # "nil" /\ q.kind = "login" /\ x = FailsNaming(q, {"error"})
           \/ out.err # "nil" /\ x = Fails(q, {"error"})
  BY <1>0, <1>1, Zenon DEF GetUser, Call, CallWith, Makes, Noted
<1>3. res.err \in {"nil", "UserNotFound"} /\ res.store = db
  BY <1>1, GetByIDCall, Zenon DEF AccInv
<1>4. Called(q, res, detached, out)
  <2>1. drawn \subseteq drawn' /\ drawn' \in SUBSET User
    BY <1>2, Zenon DEF AccInv
  <2>2. res.err # "error"
    BY <1>3, Zenon
  <2>3. DbOK(res.store, drawn') /\ Keeps(db, res.store, drawn)
    BY <1>2, <1>3, KeepsSame, Zenon DEF AccInv
  <2> QED
    BY <1>1, <1>2, <2>1, <2>2, <2>3, Calling, Zenon
<1>5. /\ Common(q, db', drawn', faults') /\ AtGetUser(q, db', drawn', faults')
      /\ q.err = {} /\ ~StoredIn(db', Nil)
  <2>1. q.pc = "getUser"
    BY <1>1, Zenon DEF GetUser, At
  <2>2. Common(q, db', drawn', faults') /\ AtGetUser(q, db', drawn', faults') /\ ~StoredIn(db', Nil)
    BY <1>4, <2>1, PlaceIs, Zenon DEF Called
  <2> QED
    BY <2>1, <2>2, Zenon DEF Common
<1>6. PICK p : p = Noted(x, out) /\ req' = [req EXCEPT ![r] = p]
  BY <1>2, Zenon DEF Makes
<1>7. /\ Settled(q, db', faults') /\ SignsIn(q, db', drawn')
      /\ q.kind \in {"login", "oauth", "wallet"} /\ (q.kind = "oauth" => ~q.linked)
  BY <1>5, FreshIsSettled, Zenon DEF AtGetUser
<1>9. ASSUME out.err = "nil", x = GoTo(q, "issue")
       PROVE  ReqOK(p, db', drawn', faults') /\ p.made = q.made
  <2>1. PICK pc : pc = "issue"
    BY Zenon
  <2>2. p = Noted(GoTo(q, pc), out)
    BY <1>6, <1>9, <2>1, Zenon
  <2>3. Goes(p, q, pc, db', drawn', faults', out)
    BY <1>5, <2>2, GoToGoes, Zenon
  <2>4. Common(p, db', drawn', faults') /\ Settled(p, db', faults') /\ SignsIn(p, db', drawn')
    BY <1>7, <2>3, Zenon DEF Goes, Carried
  <2>5. AtIssue(p, db', drawn', faults') /\ p.made = q.made
    BY <1>7, <2>1, <2>3, <2>4, Zenon DEF AtIssue, Goes, Becomes, Alters, SameTask
  <2> QED
    BY <2>4, <2>5, Zenon DEF ReqOK, Place
<1>10. ASSUME out.err # "nil" /\ q.kind = "login", x = FailsNaming(q, {"error"})
       PROVE  ReqOK(p, db', drawn', faults') /\ p.made = q.made
  <2>1. PICK err : err = {"error"}
    BY Zenon
  <2>2. EndsAs(p, q, err, out)
    BY <1>6, <1>10, <2>1, Zenon DEF EndsAs
  <2>3. MayEnd(q, err, out, db', faults')
    BY <1>7, <2>1, Zenon DEF MayEnd, Alters, SameTask
  <2>4. Ended(p, q, db', drawn', faults')
    BY <1>5, <2>2, <2>3, Finishes, Zenon
  <2> QED
    BY <2>4, Zenon DEF Ended
<1>11. ASSUME out.err # "nil", x = Fails(q, {"error"})
       PROVE  ReqOK(p, db', drawn', faults') /\ p.made = q.made
  <2>1. PICK err : err = {"error"}
    BY Zenon
  <2>2. EndsAs(p, q, err, out)
    BY <1>6, <1>11, <2>1, Zenon DEF EndsAs
  <2>3. MayEnd(q, err, out, db', faults')
    BY <1>7, <2>1, Zenon DEF MayEnd, Alters, SameTask
  <2>4. Ended(p, q, db', drawn', faults')
    BY <1>5, <2>2, <2>3, Finishes, Zenon
  <2> QED
    BY <2>4, Zenon DEF Ended
<1>12. ReqOK(p, db', drawn', faults') /\ p.made = q.made
  BY <1>2, <1>9, <1>10, <1>11, Zenon
<1>13. \/ db.oauth \subseteq db'.oauth
       \/ q.kind # "oauth"
       \/ q.stood = {}
  BY <1>3, <1>4, Zenon DEF Called
<1> QED
  BY <1>1, <1>2, <1>4, <1>6, <1>12, <1>13, Stepped, Zenon DEF Called

LEMMA IssueTokensStep ==
  ASSUME AccInv, NEW r \in Request, IssueTokens(r)
  PROVE  Sound(r)
<1>0. PICK detached \in BOOLEAN : detached = FALSE
  BY Zenon
<1>1. PICK q, res :
        /\ q = req[r]
        /\ res = IF Pg!ForeignKeyViolation(db, q.user) THEN Fail(db, "UserNotFound") ELSE Done(db)
  BY Zenon
<1>2. PICK out, x :
        /\ Makes(r, res, detached, out, x) /\ drawn' = drawn
        /\ \/ out.err = "nil" /\ x = GoTo(q, "done")
           \/ out.err # "nil" /\ x = FailsNaming(q, {"error"})
  BY <1>0, <1>1, Zenon DEF IssueTokens, Call, CallWith, Makes, Noted
<1>3. res.err \in {"nil", "UserNotFound"} /\ res.store = db
  BY <1>1, Zenon DEF AccInv, Fail, Done
<1>4. Called(q, res, detached, out)
  <2>1. drawn \subseteq drawn' /\ drawn' \in SUBSET User
    BY <1>2, Zenon DEF AccInv
  <2>2. res.err # "error"
    BY <1>3, Zenon
  <2>3. DbOK(res.store, drawn') /\ Keeps(db, res.store, drawn)
    BY <1>2, <1>3, KeepsSame, Zenon DEF AccInv
  <2> QED
    BY <1>1, <1>2, <2>1, <2>2, <2>3, Calling, Zenon
<1>5. /\ Common(q, db', drawn', faults') /\ AtIssue(q, db', drawn', faults')
      /\ q.err = {} /\ ~StoredIn(db', Nil)
  <2>1. q.pc = "issue"
    BY <1>1, Zenon DEF IssueTokens, At
  <2>2. Common(q, db', drawn', faults') /\ AtIssue(q, db', drawn', faults') /\ ~StoredIn(db', Nil)
    BY <1>4, <2>1, PlaceIs, Zenon DEF Called
  <2> QED
    BY <2>1, <2>2, Zenon DEF Common
<1>6. PICK p : p = Noted(x, out) /\ req' = [req EXCEPT ![r] = p]
  BY <1>2, Zenon DEF Makes
<1>7. Settled(q, db', faults') /\ q.kind \in {"register", "login", "oauth", "wallet"}
  BY <1>5, FreshIsSettled, Zenon DEF AtIssue
<1>9. ASSUME out.err = "nil", x = GoTo(q, "done")
       PROVE  ReqOK(p, db', drawn', faults') /\ p.made = q.made
  <2>1. PICK err : err = {}
    BY Zenon
  <2>2. EndsAs(p, q, err, out)
    BY <1>5, <1>6, <1>9, <2>1, Zenon DEF EndsAs
  <2>3. MayEnd(q, err, out, db', faults')
    BY <1>7, <2>1, Zenon DEF MayEnd, Alters, SameTask
  <2>4. Ended(p, q, db', drawn', faults')
    BY <1>5, <2>2, <2>3, Finishes, Zenon
  <2> QED
    BY <2>4, Zenon DEF Ended
<1>10. ASSUME out.err # "nil", x = FailsNaming(q, {"error"})
       PROVE  ReqOK(p, db', drawn', faults') /\ p.made = q.made
  <2>1. PICK err : err = {"error"}
    BY Zenon
  <2>2. EndsAs(p, q, err, out)
    BY <1>6, <1>10, <2>1, Zenon DEF EndsAs
  <2>3. MayEnd(q, err, out, db', faults')
    BY <1>7, <2>1, Zenon DEF MayEnd, Alters, SameTask
  <2>4. Ended(p, q, db', drawn', faults')
    BY <1>5, <2>2, <2>3, Finishes, Zenon
  <2> QED
    BY <2>4, Zenon DEF Ended
<1>11. ReqOK(p, db', drawn', faults') /\ p.made = q.made
  BY <1>2, <1>9, <1>10, Zenon
<1>12. \/ db.oauth \subseteq db'.oauth
       \/ q.kind # "oauth"
       \/ q.stood = {}
  BY <1>3, <1>4, Zenon DEF Called
<1> QED
  BY <1>1, <1>2, <1>4, <1>6, <1>11, <1>12, Stepped, Zenon DEF Called

-----------------------------------------------------------------------------
(* The answers and the reasons *)

\* A set of positions in a short list has a first one: no switch of the code has
\* more than nine cases.
LEMMA HasLeast ==
  ASSUME NEW S \in SUBSET (1..9), S # {}
  PROVE  \E i \in S : \A j \in S : i <= j
<1>1. ASSUME NEW k \in 1..9, k \in S, \A j \in S : j >= k
      PROVE  \E i \in S : \A j \in S : i <= j
  <2>1. \A j \in S : k <= j
    BY <1>1
  <2> QED
    BY <1>1, <2>1, Zenon
<1>2. CASE \E k \in 1..4 : k \in S
  <2>1. \/ 1 \in S
        \/ 1 \notin S /\ 2 \in S
        \/ 1 \notin S /\ 2 \notin S /\ 3 \in S
        \/ 1 \notin S /\ 2 \notin S /\ 3 \notin S /\ 4 \in S
    BY <1>2
  <2>2. \E k \in 1..9 : k \in S /\ \A j \in S : j >= k
    BY <2>1
  <2> QED
    BY <1>1, <2>2
<1>3. CASE \A k \in 1..4 : k \notin S
  <2>1. \/ 5 \in S
        \/ 5 \notin S /\ 6 \in S
        \/ 5 \notin S /\ 6 \notin S /\ 7 \in S
        \/ 5 \notin S /\ 6 \notin S /\ 7 \notin S /\ 8 \in S
        \/ 5 \notin S /\ 6 \notin S /\ 7 \notin S /\ 8 \notin S /\ 9 \in S
    <3>1. PICK k \in 1..9 : k \in S
      BY Zenon
    <3>2. k \notin 1..4
      BY <1>3, <3>1, Zenon
    <3> QED
      BY <3>1, <3>2
  <2>2. \A j \in S : j >= 5
    BY <1>3
  <2>3. \E k \in 1..9 : k \in S /\ \A j \in S : j >= k
    BY <2>1, <2>2
  <2> QED
    BY <1>1, <2>3
<1> QED
  BY <1>2, <1>3

\* A switch whose cases never answer with the default answers with it exactly
\* when no case matches.
LEMMA DefaultMatch ==
  ASSUME NEW err, NEW rows, NEW default, Len(rows) \in 1..9,
         \A i \in 1..Len(rows) : rows[i][2] # default
  PROVE  FirstMatch(err, rows, default) = default <=>
           \A i \in 1..Len(rows) : rows[i][1] \cap err = {}
<1>1. PICK hits : hits = {i \in 1..Len(rows) : rows[i][1] \cap err # {}}
  BY Zenon
<1>2. CASE hits = {}
  BY <1>1, <1>2, Zenon DEF FirstMatch
<1>3. CASE hits # {}
  <2>1. hits \in SUBSET (1..9)
    BY <1>1
  <2>2. PICK k : k = CHOOSE i \in hits : \A j \in hits : i <= j
    BY Zenon
  <2>3. k \in hits
    <3>1. \E i \in hits : \A j \in hits : i <= j
      BY <1>3, <2>1, HasLeast, Zenon
    <3> QED
      BY <2>2, <3>1, Zenon
  <2>4. FirstMatch(err, rows, default) = rows[k][2]
    BY <1>1, <1>3, <2>2, Zenon DEF FirstMatch
  <2> QED
    BY <1>1, <2>3, <2>4, Zenon
<1> QED
  BY <1>2, <1>3, Zenon

\* The answer and the reason of each kind of request.
LEMMA RegisterAnswer ==
  ASSUME NEW err
  PROVE  /\ registerFailureReason(err) = "internal_error" <=> registerErrorToConnect(err) = "Internal"
         /\ err = {"error"} => registerErrorToConnect(err) = "Internal"
<1>0. PICK known :
        known = {"UserExists", "InvalidEmail", "PasswordTooShort", "PasswordTooLong"}
  BY Zenon
<1>1. known \cap err = {} <=>
        "UserExists" \notin err /\ "InvalidEmail" \notin err /\ "PasswordTooShort" \notin err /\
          "PasswordTooLong" \notin err
  BY <1>0, Zenon
<1>2. registerErrorToConnect(err) = "Internal" <=> known \cap err = {}
  <2>1. PICK rows :
          rows = << <<{"UserExists"}, "AlreadyExists">>,
                   <<{"InvalidEmail", "PasswordTooShort", "PasswordTooLong"}, "InvalidArgument">> >>
    BY Zenon
  <2>2. Len(rows) = 2 /\ 1..2 = {1, 2}
    BY <2>1
  <2>4. Len(rows) \in 1..9 /\ \A i \in 1..Len(rows) : rows[i][2] # "Internal"
    BY <2>1, <2>2
  <2>5. FirstMatch(err, rows, "Internal") = "Internal" <=>
          \A i \in 1..Len(rows) : rows[i][1] \cap err = {}
    BY <2>4, DefaultMatch
  <2>6. (\A i \in 1..Len(rows) : rows[i][1] \cap err = {}) <=>
          rows[1][1] \cap err = {} /\ rows[2][1] \cap err = {}
    BY <2>2, Zenon
  <2> QED
    BY <1>1, <2>1, <2>5, <2>6, Zenon DEF registerErrorToConnect, internalError
<1>3. registerFailureReason(err) = "internal_error" <=> known \cap err = {}
  <2>1. PICK rows :
          rows = << <<{"UserExists"}, "user_exists">>,
                   <<{"InvalidEmail"}, "invalid_email">>,
                   <<{"PasswordTooShort"}, "password_too_short">>,
                   <<{"PasswordTooLong"}, "password_too_long">> >>
    BY Zenon
  <2>2. Len(rows) = 4 /\ 1..4 = {1, 2, 3, 4}
    BY <2>1
  <2>4. Len(rows) \in 1..9 /\ \A i \in 1..Len(rows) : rows[i][2] # "internal_error"
    BY <2>1, <2>2
  <2>5. FirstMatch(err, rows, "internal_error") = "internal_error" <=>
          \A i \in 1..Len(rows) : rows[i][1] \cap err = {}
    BY <2>4, DefaultMatch
  <2>6. (\A i \in 1..Len(rows) : rows[i][1] \cap err = {}) <=>
          rows[1][1] \cap err = {} /\ rows[2][1] \cap err = {} /\ rows[3][1] \cap err = {} /\
            rows[4][1] \cap err = {}
    BY <2>2, Zenon
  <2> QED
    BY <1>1, <2>1, <2>5, <2>6, Zenon DEF registerFailureReason
<1>4. err = {"error"} => registerErrorToConnect(err) = "Internal"
  BY <1>1, <1>2, Zenon
<1> QED
  BY <1>2, <1>3, <1>4, Zenon

LEMMA OAuthAnswer ==
  ASSUME NEW err
  PROVE  /\ oauthFailureReason(err) = "internal_error" <=> oauthErrorToConnect(err) = "Internal"
         /\ err = {"error"} => oauthErrorToConnect(err) = "Internal"
<1>0. PICK known :
        known = {"OAuthDisabled", "OAuthProviderUnknown", "RedirectURINotAllowed",
                 "OAuthStateInvalid", "OAuthExchangeFailed", "OAuthEmailRequired",
                 "OAuthEmailUnverified", "OAuthLinkDisabled", "OAuthAccountHasPassword"}
  BY Zenon
<1>1. known \cap err = {} <=>
        "OAuthDisabled" \notin err /\ "OAuthProviderUnknown" \notin err /\ "RedirectURINotAllowed"
          \notin err /\ "OAuthStateInvalid" \notin err /\ "OAuthExchangeFailed" \notin err /\
          "OAuthEmailRequired" \notin err /\ "OAuthEmailUnverified" \notin err /\
          "OAuthLinkDisabled" \notin err /\ "OAuthAccountHasPassword" \notin err
  BY <1>0, Zenon
<1>2. oauthErrorToConnect(err) = "Internal" <=> known \cap err = {}
  <2>1. PICK rows :
          rows = << <<{"OAuthDisabled"}, "Unimplemented">>,
                   <<{"OAuthProviderUnknown"}, "InvalidArgument">>,
                   <<{"RedirectURINotAllowed"}, "PermissionDenied">>,
                   <<{"OAuthStateInvalid", "OAuthExchangeFailed"}, "Unauthenticated">>,
                   <<{"OAuthEmailRequired", "OAuthEmailUnverified", "OAuthLinkDisabled",
                      "OAuthAccountHasPassword"}, "FailedPrecondition">> >>
    BY Zenon
  <2>2. Len(rows) = 5 /\ 1..5 = {1, 2, 3, 4, 5}
    BY <2>1
  <2>4. Len(rows) \in 1..9 /\ \A i \in 1..Len(rows) : rows[i][2] # "Internal"
    BY <2>1, <2>2
  <2>5. FirstMatch(err, rows, "Internal") = "Internal" <=>
          \A i \in 1..Len(rows) : rows[i][1] \cap err = {}
    BY <2>4, DefaultMatch
  <2>6. (\A i \in 1..Len(rows) : rows[i][1] \cap err = {}) <=>
          rows[1][1] \cap err = {} /\ rows[2][1] \cap err = {} /\ rows[3][1] \cap err = {} /\
            rows[4][1] \cap err = {} /\ rows[5][1] \cap err = {}
    BY <2>2, Zenon
  <2> QED
    BY <1>1, <2>1, <2>5, <2>6, Zenon DEF oauthErrorToConnect, internalError
<1>3. oauthFailureReason(err) = "internal_error" <=> known \cap err = {}
  <2>1. PICK rows :
          rows = << <<{"OAuthDisabled"}, "oauth_disabled">>,
                   <<{"OAuthProviderUnknown"}, "unknown_provider">>,
                   <<{"RedirectURINotAllowed"}, "redirect_uri_not_allowed">>,
                   <<{"OAuthStateInvalid"}, "invalid_state">>,
                   <<{"OAuthExchangeFailed"}, "exchange_failed">>,
                   <<{"OAuthEmailRequired"}, "email_missing">>,
                   <<{"OAuthEmailUnverified"}, "email_unverified">>,
                   <<{"OAuthLinkDisabled"}, "link_disabled">>,
                   <<{"OAuthAccountHasPassword"}, "account_has_password">> >>
    BY Zenon
  <2>2. Len(rows) = 9 /\ 1..9 = {1, 2, 3, 4, 5, 6, 7, 8, 9}
    BY <2>1
  <2>3. /\ rows[1][1] = {"OAuthDisabled"}
        /\ rows[2][1] = {"OAuthProviderUnknown"}
        /\ rows[3][1] = {"RedirectURINotAllowed"}
        /\ rows[4][1] = {"OAuthStateInvalid"}
        /\ rows[5][1] = {"OAuthExchangeFailed"}
        /\ rows[6][1] = {"OAuthEmailRequired"}
        /\ rows[7][1] = {"OAuthEmailUnverified"}
        /\ rows[8][1] = {"OAuthLinkDisabled"}
        /\ rows[9][1] = {"OAuthAccountHasPassword"}
    BY <2>1
  <2>4. Len(rows) \in 1..9 /\ \A i \in 1..Len(rows) : rows[i][2] # "internal_error"
    BY <2>1, <2>2
  <2>5. FirstMatch(err, rows, "internal_error") = "internal_error" <=>
          \A i \in 1..Len(rows) : rows[i][1] \cap err = {}
    BY <2>4, DefaultMatch
  <2>6. (\A i \in 1..Len(rows) : rows[i][1] \cap err = {}) <=>
          rows[1][1] \cap err = {} /\ rows[2][1] \cap err = {} /\ rows[3][1] \cap err = {} /\
            rows[4][1] \cap err = {} /\ rows[5][1] \cap err = {} /\ rows[6][1] \cap err = {} /\
            rows[7][1] \cap err = {} /\ rows[8][1] \cap err = {} /\ rows[9][1] \cap err = {}
    BY <2>2, Zenon
  <2>7. /\ rows[1][1] \cap err = {} <=> "OAuthDisabled" \notin err
        /\ rows[2][1] \cap err = {} <=> "OAuthProviderUnknown" \notin err
        /\ rows[3][1] \cap err = {} <=> "RedirectURINotAllowed" \notin err
        /\ rows[4][1] \cap err = {} <=> "OAuthStateInvalid" \notin err
        /\ rows[5][1] \cap err = {} <=> "OAuthExchangeFailed" \notin err
        /\ rows[6][1] \cap err = {} <=> "OAuthEmailRequired" \notin err
        /\ rows[7][1] \cap err = {} <=> "OAuthEmailUnverified" \notin err
        /\ rows[8][1] \cap err = {} <=> "OAuthLinkDisabled" \notin err
        /\ rows[9][1] \cap err = {} <=> "OAuthAccountHasPassword" \notin err
    BY <2>3
  <2> QED
    BY <1>1, <2>1, <2>5, <2>6, <2>7, Zenon DEF oauthFailureReason
<1>4. err = {"error"} => oauthErrorToConnect(err) = "Internal"
  BY <1>1, <1>2, Zenon
<1> QED
  BY <1>2, <1>3, <1>4, Zenon

LEMMA WalletAnswer ==
  ASSUME NEW err
  PROVE  /\ walletFailureReason(err) = "internal_error" <=> walletErrorToConnect(err) = "Internal"
         /\ err = {"error"} => walletErrorToConnect(err) = "Internal"
<1>0. PICK known :
        known = {"WalletDisabled", "WalletChainUnsupported", "WalletAddressInvalid",
                 "WalletChallengeInvalid"}
  BY Zenon
<1>1. known \cap err = {} <=>
        "WalletDisabled" \notin err /\ "WalletChainUnsupported" \notin err /\
          "WalletAddressInvalid" \notin err /\ "WalletChallengeInvalid" \notin err
  BY <1>0, Zenon
<1>2. walletErrorToConnect(err) = "Internal" <=> known \cap err = {}
  <2>1. PICK rows :
          rows = << <<{"WalletDisabled"}, "Unimplemented">>,
                   <<{"WalletChainUnsupported", "WalletAddressInvalid"}, "InvalidArgument">>,
                   <<{"WalletChallengeInvalid"}, "Unauthenticated">> >>
    BY Zenon
  <2>2. Len(rows) = 3 /\ 1..3 = {1, 2, 3}
    BY <2>1
  <2>4. Len(rows) \in 1..9 /\ \A i \in 1..Len(rows) : rows[i][2] # "Internal"
    BY <2>1, <2>2
  <2>5. FirstMatch(err, rows, "Internal") = "Internal" <=>
          \A i \in 1..Len(rows) : rows[i][1] \cap err = {}
    BY <2>4, DefaultMatch
  <2>6. (\A i \in 1..Len(rows) : rows[i][1] \cap err = {}) <=>
          rows[1][1] \cap err = {} /\ rows[2][1] \cap err = {} /\ rows[3][1] \cap err = {}
    BY <2>2, Zenon
  <2> QED
    BY <1>1, <2>1, <2>5, <2>6, Zenon DEF walletErrorToConnect, internalError
<1>3. walletFailureReason(err) = "internal_error" <=> known \cap err = {}
  <2>1. PICK rows :
          rows = << <<{"WalletDisabled"}, "wallet_disabled">>,
                   <<{"WalletChainUnsupported"}, "unsupported_chain">>,
                   <<{"WalletAddressInvalid"}, "invalid_address">>,
                   <<{"WalletChallengeInvalid"}, "invalid_challenge">> >>
    BY Zenon
  <2>2. Len(rows) = 4 /\ 1..4 = {1, 2, 3, 4}
    BY <2>1
  <2>4. Len(rows) \in 1..9 /\ \A i \in 1..Len(rows) : rows[i][2] # "internal_error"
    BY <2>1, <2>2
  <2>5. FirstMatch(err, rows, "internal_error") = "internal_error" <=>
          \A i \in 1..Len(rows) : rows[i][1] \cap err = {}
    BY <2>4, DefaultMatch
  <2>6. (\A i \in 1..Len(rows) : rows[i][1] \cap err = {}) <=>
          rows[1][1] \cap err = {} /\ rows[2][1] \cap err = {} /\ rows[3][1] \cap err = {} /\
            rows[4][1] \cap err = {}
    BY <2>2, Zenon
  <2> QED
    BY <1>1, <2>1, <2>5, <2>6, Zenon DEF walletFailureReason
<1>4. err = {"error"} => walletErrorToConnect(err) = "Internal"
  BY <1>1, <1>2, Zenon
<1> QED
  BY <1>2, <1>3, <1>4, Zenon

LEMMA LoginAnswer ==
  ASSUME NEW err
  PROVE  /\ loginErrorToConnect(err) = "Internal" <=> "InvalidCredentials" \notin err
         /\ err = {"error"} => loginErrorToConnect(err) = "Internal"
<1>0. PICK known :
        known = {"InvalidCredentials"}
  BY Zenon
<1>1. known \cap err = {} <=>
        "InvalidCredentials" \notin err
  BY <1>0, Zenon
<1>2. loginErrorToConnect(err) = "Internal" <=> known \cap err = {}
  <2>1. PICK rows :
          rows = << <<{"InvalidCredentials"}, "Unauthenticated">> >>
    BY Zenon
  <2>2. Len(rows) = 1 /\ 1..1 = {1}
    BY <2>1
  <2>4. Len(rows) \in 1..9 /\ \A i \in 1..Len(rows) : rows[i][2] # "Internal"
    BY <2>1, <2>2
  <2>5. FirstMatch(err, rows, "Internal") = "Internal" <=>
          \A i \in 1..Len(rows) : rows[i][1] \cap err = {}
    BY <2>4, DefaultMatch
  <2>6. (\A i \in 1..Len(rows) : rows[i][1] \cap err = {}) <=>
          rows[1][1] \cap err = {}
    BY <2>2, Zenon
  <2> QED
    BY <1>1, <2>1, <2>5, <2>6, Zenon DEF loginErrorToConnect, internalError
<1>3. err = {"error"} => loginErrorToConnect(err) = "Internal"
  BY <1>1, <1>2, Zenon
<1> QED
  BY <1>1, <1>2, <1>3, Zenon

-----------------------------------------------------------------------------
(* The theorems *)

LEMMA StartStep ==
  ASSUME AccInv, NEW r \in Request, Start(r)
  PROVE  Sound(r)
<1>1. CASE \E e \in Email, h \in Secret : Register(r, e, h)
  BY <1>1, RegisterStep, Zenon
<1>2. CASE \E e \in Email, h \in Secret \cup {Nil} : Login(r, e, h)
  BY <1>2, LoginStep, Zenon
<1>3. CASE \E a \in Account, e \in Email \cup {NoEmail}, v \in BOOLEAN : OAuthCallback(r, a, e, v)
  BY <1>3, OAuthCallbackStep, Zenon
<1>4. CASE \E w \in Wallet : AuthenticateWallet(r, w)
  BY <1>4, AuthenticateWalletStep, Zenon
<1> QED
  BY <1>1, <1>2, <1>3, <1>4, Zenon DEF Start

LEMMA RequestStep ==
  ASSUME AccInv, NEW r \in Request, Start(r) \/ Step(r) \/ Cancel(r)
  PROVE  Sound(r)
<1>1. CASE Step(r)
  BY <1>1, RegisterLookupStep, RegisterCreateStep, RegisterSavePasswordStep, RegisterRollbackStep,
     LoginLookupStep, LoginPasswordStep, OAuthIdentityStep, FindUserStep, CreateUserStep,
     CheckAutoLinkStep, LinkAccountStep, CheckLinksStep, DiscardUserStep, WalletIdentityStep,
     CreateWalletUserStep, LinkWalletStep, DiscardWalletUserStep, GetUserStep, IssueTokensStep,
     Zenon DEF Step
<1> QED
  BY <1>1, StartStep, CancelStep, Zenon

LEMMA AccInit ==
  ASSUME Init
  PROVE  AccInv
<1>1. /\ db.users = {} /\ db.credentials = {} /\ db.oauth = {} /\ db.wallets = {}
      /\ DOMAIN db = {"users", "credentials", "pats", "oauth", "wallets", "challenges"}
  BY DEF Init, Pg!Tables
<1>2. DbOK(db, drawn)
  BY <1>1, Zenon DEF DbOK
<1>3. drawn = {} /\ faults = 0 /\ DOMAIN req = Request
  BY Zenon DEF Init
<1>4. ASSUME NEW r \in Request PROVE ReqOK(req[r], db, drawn, faults)
  <2>1. PICK q : q = req[r] /\ q = NoRequest
    BY Zenon DEF Init
  <2>2. /\ DOMAIN q = Fields /\ q.pc = "idle" /\ q.kind = "none" /\ q.made = Nil /\ q.failed = FALSE
        /\ q.cancelled = FALSE /\ q.cause = "nil" /\ q.err = {} /\ q.before = {}
    BY <2>1 DEF NoRequest, Fields
  <2>3. AtIdle(q)
    BY <2>2, Zenon DEF AtIdle, Fresh
  <2>4. Common(q, db, drawn, faults)
    BY <2>2, Zenon DEF Common
  <2> QED
    BY <2>1, <2>3, <2>4, Zenon DEF ReqOK, Place
<1> QED
  BY <1>2, <1>3, <1>4 DEF AccInv

LEMMA AccNext ==
  ASSUME AccInv, [Next]_vars
  PROVE  AccInv'
<1>1. CASE Next
  BY <1>1, RequestStep, Zenon DEF Next, Sound
<1>2. CASE UNCHANGED vars
  <2>1. db' = db /\ req' = req /\ drawn' = drawn /\ faults' = faults
    BY <1>2, Zenon DEF vars
  <2> QED
    BY <2>1, Zenon DEF AccInv
<1> QED
  BY <1>1, <1>2, Zenon

\* The invariant behind the other theorems: what every request knows about the
\* store at each of its store calls, and how a finished one has left it, whatever
\* the other requests do and whichever calls fail.
THEOREM AccInvariant == Spec => []AccInv
BY AccInit, AccNext, PTL DEF Spec

\* No sign-in or registration leaves an account behind that nobody can sign in
\* to, unless one of its own calls failed (oauth.go, wallet.go, local.go: the
\* hand-written rollbacks).
THEOREM NoAccountIsStranded == Spec => []NoStrandedAccounts
<1>1. ASSUME AccInv PROVE NoStrandedAccounts
  <2>1. SUFFICES ASSUME NEW u \in drawn, Stored(u), ~Reachable(u)
                 PROVE  \E r \in Request : req[r].made = u /\ (InProgress(r) \/ req[r].failed)
    BY Zenon DEF NoStrandedAccounts
  <2>2. PICK r \in Request : req[r].made = u
    BY <1>1, Zenon DEF AccInv
  <2>3. ReqOK(req[r], db, drawn, faults) /\ u # Nil
    BY <1>1, StoresAssumption, Zenon DEF AccInv
  <2>4. req[r].pc # "idle"
    BY <2>2, <2>3, PlaceIs, Zenon DEF AtIdle, Fresh
  <2>5. req[r].pc = "done" => req[r].failed
    <3>1. ~Kept(req[r], db)
      BY <2>1, <2>2, Zenon DEF Kept, Stored, StoredIn, Reachable, ReachableIn, HasPassword, PasswordIn
    <3>2. req[r].pc = "done" => Settled(req[r], db, faults)
      BY <2>3, PlaceIs, Zenon DEF AtDone
    <3> QED
      BY <3>1, <3>2, Zenon DEF Settled, Excused
  <2> QED
    BY <2>2, <2>4, <2>5, Zenon DEF InProgress
<1> QED
  BY <1>1, AccInvariant, PTL

\* One failed link is undone, whether or not the client is still there
\* (discardUnlinkedUser, discardWalletUser run detached).
THEOREM RollbacksCleanUp == Spec => []RollbackCleansUp
<1>1. ASSUME AccInv PROVE RollbackCleansUp
  <2>1. SUFFICES ASSUME NEW r \in Request, req[r].pc = "done", req[r].cause = "error", faults = 1,
                        Stored(req[r].made)
                 PROVE  Reachable(req[r].made)
    BY Zenon DEF RollbackCleansUp
  <2>2. ReqOK(req[r], db, drawn, faults)
    BY <1>1, Zenon DEF AccInv
  <2>3. Settled(req[r], db, faults)
    BY <2>1, <2>2, PlaceIs, Zenon DEF AtDone
  <2>4. ~(faults >= 2)
    BY <2>1
  <2>5. Kept(req[r], db)
    BY <2>1, <2>3, <2>4, Zenon DEF Settled, Excused
  <2> QED
    BY <2>1, <2>5, Zenon DEF Kept, Stored, StoredIn, Reachable, ReachableIn, HasPassword, PasswordIn
<1> QED
  BY <1>1, AccInvariant, PTL

\* A sign-in acts for the user that its account or wallet is linked to
\* (resolveOAuthUser, resolveWalletUser).
THEOREM SignInsAreLinked == Spec => []SignInIsLinked
<1>1. ASSUME AccInv PROVE SignInIsLinked
  <2>1. SUFFICES ASSUME NEW r \in Request, req[r].pc = "issue", Stored(req[r].user)
                 PROVE  /\ req[r].kind = "oauth" => LinkedTo(req[r].account, req[r].user)
                        /\ req[r].kind = "wallet" =>
                             [wallet |-> req[r].wallet, user |-> req[r].user, created |-> 0]
                               \in db.wallets
    BY Zenon DEF SignInIsLinked
  <2>2. ReqOK(req[r], db, drawn, faults)
    BY <1>1, Zenon DEF AccInv
  <2>3. SignsIn(req[r], db, drawn)
    BY <2>1, <2>2, PlaceIs, Zenon DEF AtIssue
  <2> QED
    BY <2>1, <2>3, Zenon DEF SignsIn, Stored, StoredIn, LinkedTo, LinkedIn, OwnsIn
<1> QED
  BY <1>1, AccInvariant, PTL

\* A provider account is never attached to an account that had a password when
\* the sign-in began (checkAutoLink).
THEOREM PasswordAccountsStayUnlinked == Spec => []PasswordAccountsAreNotLinked
<1>1. ASSUME AccInv PROVE PasswordAccountsAreNotLinked
  <2>1. SUFFICES ASSUME NEW r \in Request, req[r].kind = "oauth", req[r].linked, req[r].pc = "issue"
                 PROVE  req[r].user \notin req[r].before
    BY Zenon DEF PasswordAccountsAreNotLinked
  <2>2. ReqOK(req[r], db, drawn, faults)
    BY <1>1, Zenon DEF AccInv
  <2> QED
    BY <2>1, <2>2, PlaceIs, Zenon DEF AtIssue
<1> QED
  BY <1>1, AccInvariant, PTL

\* A storage failure is answered with an internal error, never as a rejection
\* (registerErrorToConnect and the other switches).
THEOREM OutagesAreNoRejections == Spec => []OutageIsNoRejection
<1>1. ASSUME AccInv PROVE OutageIsNoRejection
  <2>1. SUFFICES ASSUME NEW r \in Request, req[r].pc = "done", req[r].failed
                 PROVE  Code(req[r]) \in {"OK", "Internal"}
    BY Zenon DEF OutageIsNoRejection
  <2>2. PICK q : q = req[r]
    BY Zenon
  <2>3. ReqOK(q, db, drawn, faults)
    BY <1>1, <2>2, Zenon DEF AccInv
  <2>4. q.err \in {{}, {"error"}} /\ q.kind \in {"register", "login", "oauth", "wallet"}
    BY <2>1, <2>2, <2>3, PlaceIs, Zenon DEF AtDone, ErrOK
  <2>5. CASE q.err = {}
    BY <2>2, <2>5, Zenon DEF Code
  <2>6. CASE q.err = {"error"}
    <3>1. registerErrorToConnect(q.err) = "Internal"
      BY <2>6, RegisterAnswer, Zenon
    <3>2. loginErrorToConnect(q.err) = "Internal"
      BY <2>6, LoginAnswer, Zenon
    <3>3. oauthErrorToConnect(q.err) = "Internal"
      BY <2>6, OAuthAnswer, Zenon
    <3>4. walletErrorToConnect(q.err) = "Internal"
      BY <2>6, WalletAnswer, Zenon
    <3>5. q.err # {}
      BY <2>6, Zenon
    <3> QED
      BY <2>2, <2>4, <3>1, <3>2, <3>3, <3>4, <3>5, SMTT(60) DEF Code
  <2> QED
    BY <2>4, <2>5, <2>6, Zenon
<1> QED
  BY <1>1, AccInvariant, PTL

-----------------------------------------------------------------------------
(* The audit log *)

\* A step of request r that is not done writes the records of what becomes of it.
Logged(r) ==
  /\ req[r].pc # "done"
  /\ \E q : req' = [req EXCEPT ![r] = q] /\ audit' = audit \cup Records(r, q)

\* The records about a request are those of the state it is in.
LogOK(log, rs) ==
  \A r \in Request :
    /\ Records(r, rs[r]) \subseteq log
    /\ \A x \in log : x.by = r => x \in Records(r, rs[r])

AuditInv == DOMAIN req = Request /\ LogOK(audit, req)

\* A record is about its request, and tells of an internal error only as the
\* reason of a failure.
LEMMA RecordsAre ==
  ASSUME NEW r, NEW q
  PROVE  /\ q.pc # "done" => Records(r, q) = {}
         /\ \A x \in Records(r, q) : x.by = r
         /\ q.pc = "done" /\ q.err # {} =>
              ((\E x \in Records(r, q) : x.event = "internal_error")
                 <=> Reason(q) = "internal_error")
<1>1. \A x \in AccountChange(r, q) : x.by = r /\ x.event # "internal_error"
  BY DEF AccountChange
<1>2. CASE q.pc # "done"
  <2>1. Records(r, q) = {}
    BY <1>2 DEF Records
  <2> QED
    BY <1>2, <2>1, Zenon
<1>3. CASE q.pc = "done" /\ q.err = {}
  <2>1. PICK x : x = [by |-> r, event |-> Event(q), user |-> q.user]
    BY Zenon
  <2>2. Records(r, q) = AccountChange(r, q) \cup {x}
    BY <1>3, <2>1 DEF Records
  <2>3. x.by = r
    BY <2>1
  <2> QED
    BY <1>1, <1>3, <2>2, <2>3, Zenon
<1>4. CASE q.pc = "done" /\ q.err # {}
  <2>1. PICK x : x = [by |-> r, event |-> Reason(q), user |-> IF q.named THEN q.user ELSE Nil]
    BY Zenon
  <2>2. PICK c : c = IF q.named THEN AccountChange(r, q) ELSE {}
    BY Zenon
  <2>3. Records(r, q) = c \cup {x}
    BY <1>4, <2>1, <2>2 DEF Records
  <2>4. x.by = r /\ x.event = Reason(q)
    BY <2>1
  <2>5. \A y \in c : y.by = r /\ y.event # "internal_error"
    BY <1>1, <2>2, Zenon
  <2> QED
    BY <1>4, <2>3, <2>4, <2>5, Zenon
<1> QED
  BY <1>2, <1>3, <1>4, Zenon

LEMMA BeginLogs ==
  ASSUME NEW r \in Request, NEW y, Begin(r, y)
  PROVE  Logged(r)
BY Zenon DEF Begin, At, Logged

LEMMA StartLogs ==
  ASSUME NEW r \in Request, Start(r)
  PROVE  Logged(r)
<1>1. ASSUME NEW e, NEW h, Register(r, e, h) PROVE Logged(r)
  BY <1>1, BeginLogs, Zenon DEF Register, Refuse
<1>2. ASSUME NEW e, NEW h, Login(r, e, h) PROVE Logged(r)
  BY <1>2, BeginLogs, Zenon DEF Login, Refuse
<1>3. ASSUME NEW a, NEW e, NEW v, OAuthCallback(r, a, e, v) PROVE Logged(r)
  BY <1>3, BeginLogs, Zenon DEF OAuthCallback, Refuse
<1>4. ASSUME NEW w, AuthenticateWallet(r, w) PROVE Logged(r)
  BY <1>4, BeginLogs, Zenon DEF AuthenticateWallet, Refuse
<1> QED
  BY <1>1, <1>2, <1>3, <1>4, Zenon DEF Start

LEMMA StepLogs ==
  ASSUME NEW r \in Request, Step(r)
  PROVE  Logged(r)
<1>1. CASE RegisterLookup(r)
  BY <1>1, Zenon DEF RegisterLookup, Call, CallWith, At, Logged
<1>2. CASE RegisterCreate(r)
  BY <1>2, ZenonT(40) DEF RegisterCreate, CallWith, At, Logged
<1>3. CASE RegisterSavePassword(r)
  BY <1>3, Zenon DEF RegisterSavePassword, Call, CallWith, At, Logged
<1>4. CASE RegisterRollback(r)
  BY <1>4, Zenon DEF RegisterRollback, Call, CallWith, At, Logged
<1>5. CASE LoginLookup(r)
  BY <1>5, Zenon DEF LoginLookup, Call, CallWith, At, Logged
<1>6. CASE LoginPassword(r)
  BY <1>6, Zenon DEF LoginPassword, Call, CallWith, At, Logged
<1>7. CASE OAuthIdentity(r)
  BY <1>7, Zenon DEF OAuthIdentity, Call, CallWith, At, Logged
<1>8. CASE FindUser(r)
  BY <1>8, Zenon DEF FindUser, Call, CallWith, At, Logged
<1>9. CASE CreateUser(r)
  BY <1>9, ZenonT(40) DEF CreateUser, CallWith, At, Logged
<1>10. CASE CheckAutoLink(r)
  BY <1>10, Zenon DEF CheckAutoLink, Call, CallWith, At, Logged
<1>11. CASE LinkAccount(r)
  BY <1>11, Zenon DEF LinkAccount, Call, CallWith, At, Logged
<1>12. CASE CheckLinks(r)
  BY <1>12, Zenon DEF CheckLinks, CallDetached, CallWith, At, Logged
<1>13. CASE DiscardUser(r)
  BY <1>13, Zenon DEF DiscardUser, CallDetached, CallWith, At, Logged
<1>14. CASE WalletIdentity(r)
  BY <1>14, Zenon DEF WalletIdentity, Call, CallWith, At, Logged
<1>15. CASE CreateWalletUser(r)
  BY <1>15, Zenon DEF CreateWalletUser, CallWith, At, Logged
<1>16. CASE LinkWallet(r)
  BY <1>16, Zenon DEF LinkWallet, Call, CallWith, At, Logged
<1>17. CASE DiscardWalletUser(r)
  BY <1>17, Zenon DEF DiscardWalletUser, CallDetached, CallWith, At, Logged
<1>18. CASE GetUser(r)
  BY <1>18, Zenon DEF GetUser, Call, CallWith, At, Logged
<1>19. CASE IssueTokens(r)
  BY <1>19, Zenon DEF IssueTokens, Call, CallWith, At, Logged
<1> QED
  BY <1>1, <1>2, <1>3, <1>4, <1>5, <1>6, <1>7, <1>8, <1>9, <1>10, <1>11, <1>12, <1>13, <1>14,
     <1>15, <1>16, <1>17, <1>18, <1>19, ZenonT(40) DEF Step

\* One request moves, from a state that has no records.
LEMMA LogStep ==
  ASSUME AuditInv, NEW r \in Request, req[r].pc # "done", NEW q,
         req' = [req EXCEPT ![r] = q], audit' = audit \cup Records(r, q)
  PROVE  AuditInv'
<1>1. /\ DOMAIN req' = Request /\ req'[r] = q
      /\ \A s \in Request \ {r} : req'[s] = req[s]
  BY DEF AuditInv
<1>2. ASSUME NEW s \in Request
      PROVE  /\ Records(s, req'[s]) \subseteq audit'
             /\ \A x \in audit' : x.by = s => x \in Records(s, req'[s])
  <2>1. /\ Records(s, req[s]) \subseteq audit
        /\ \A x \in audit : x.by = s => x \in Records(s, req[s])
    BY Zenon DEF AuditInv, LogOK
  <2>2. CASE s = r
    <3>1. \A x \in audit : x.by # r
      BY <2>1, <2>2, RecordsAre, Zenon
    <3> QED
      BY <1>1, <2>2, <3>1, Zenon
  <2>3. CASE s # r
    <3>1. \A x \in Records(r, q) : x.by # s
      BY <2>3, RecordsAre, Zenon
    <3> QED
      BY <1>1, <2>1, <2>3, <3>1, Zenon
  <2> QED
    BY <2>2, <2>3, Zenon
<1>3. LogOK(audit', req')
  BY <1>2, Zenon DEF LogOK
<1> QED
  BY <1>1, <1>3, Zenon DEF AuditInv

LEMMA AuditInit ==
  ASSUME Init
  PROVE  AuditInv
<1>1. DOMAIN req = Request /\ audit = {} /\ \A r \in Request : req[r] = NoRequest
  BY DEF Init
<1>2. NoRequest.pc # "done"
  BY DEF NoRequest
<1>3. \A r \in Request : Records(r, req[r]) = {}
  BY <1>1, <1>2, RecordsAre, Zenon
<1> QED
  BY <1>1, <1>3, Zenon DEF AuditInv, LogOK

LEMMA AuditNext ==
  ASSUME AccInv, AuditInv, [Next]_vars
  PROVE  AuditInv'
<1>1. ASSUME NEW r \in Request, Start(r) \/ Step(r) PROVE AuditInv'
  <2>1. Logged(r)
    BY <1>1, StartLogs, StepLogs, Zenon
  <2> QED
    BY <2>1, LogStep, Zenon DEF Logged
<1>2. ASSUME NEW r \in Request, Cancel(r) PROVE AuditInv'
  <2>1. PICK q : q = [req[r] EXCEPT !.cancelled = TRUE]
    BY Zenon
  <2>2. req[r].pc # "done" /\ audit' = audit
    BY <1>2, Zenon DEF Cancel
  <2>3. req' = [req EXCEPT ![r] = q]
    BY <1>2, <2>1 DEF Cancel
  <2>4. DOMAIN req[r] = Fields
    BY Zenon DEF AccInv, ReqOK, Common
  <2>5. q.pc # "done"
    BY <2>1, <2>2, <2>4 DEF Fields, NoRequest
  <2>6. audit' = audit \cup Records(r, q)
    BY <2>2, <2>5, RecordsAre, Zenon
  <2> QED
    BY <2>2, <2>3, <2>6, LogStep, Zenon
<1>3. CASE UNCHANGED vars
  <2>1. req' = req /\ audit' = audit
    BY <1>3, Zenon DEF vars
  <2> QED
    BY <2>1, Zenon DEF AuditInv, LogOK
<1> QED
  BY <1>1, <1>2, <1>3, Zenon DEF Next

\* The audit log holds a record of internal_error about a failed request exactly
\* when its client is told Internal (the switches of errors.go and audit.go).
THEOREM AuditAgrees == Spec => []AuditAgreesWithAnswer
<1>1. ASSUME AccInv, AuditInv PROVE AuditAgreesWithAnswer
  <2>1. SUFFICES ASSUME NEW r \in Request, req[r].pc = "done", req[r].err # {}
                 PROVE  (\E x \in audit : x.by = r /\ x.event = "internal_error")
                          <=> Code(req[r]) = "Internal"
    BY Zenon DEF AuditAgreesWithAnswer
  <2>2. PICK q : q = req[r]
    BY Zenon
  <2>3. (\E x \in audit : x.by = r /\ x.event = "internal_error") <=> Reason(q) = "internal_error"
    <3>1. /\ Records(r, q) \subseteq audit
          /\ \A x \in audit : x.by = r => x \in Records(r, q)
      BY <1>1, <2>2, Zenon DEF AuditInv, LogOK
    <3> QED
      BY <2>1, <2>2, <3>1, RecordsAre, ZenonT(40)
  <2>4. SUFFICES Reason(q) = "internal_error" <=> Code(q) = "Internal"
    BY <2>2, <2>3, Zenon
  <2>5. ReqOK(q, db, drawn, faults)
    BY <1>1, <2>2, Zenon DEF AccInv
  <2>6. AtDone(q, db, faults)
    BY <2>1, <2>2, <2>5, PlaceIs, Zenon
  <2>7. CASE q.kind = "register"
    <3>1. registerFailureReason(q.err) = "internal_error" <=>
            registerErrorToConnect(q.err) = "Internal"
      BY RegisterAnswer, Zenon
    <3> QED
      BY <2>1, <2>2, <2>7, <3>1 DEF Reason, Code
  <2>8. CASE q.kind = "oauth"
    <3>1. oauthFailureReason(q.err) = "internal_error" <=> oauthErrorToConnect(q.err) = "Internal"
      BY OAuthAnswer, Zenon
    <3> QED
      BY <2>1, <2>2, <2>8, <3>1, SMTT(60) DEF Reason, Code
  <2>9. CASE q.kind = "wallet"
    <3>1. walletFailureReason(q.err) = "internal_error" <=> walletErrorToConnect(q.err) = "Internal"
      BY WalletAnswer, Zenon
    <3> QED
      BY <2>1, <2>2, <2>9, <3>1, SMTT(60) DEF Reason, Code
  <2>10. CASE q.kind = "login"
    <3>1. loginFailure(q.err) = "internal_error" <=> loginErrorToConnect(q.err) = "Internal"
      <4>1. q.err = {"error"} \/ "InvalidCredentials" \in q.err
        BY <2>1, <2>2, <2>6, <2>10, Zenon DEF AtDone, ErrOK
      <4>2. loginErrorToConnect(q.err) = "Internal" <=> "InvalidCredentials" \notin q.err
        BY LoginAnswer, Zenon
      <4>3. CASE q.err = {"error"}
        BY <4>2, <4>3 DEF loginFailure, CredentialsReasons
      <4>4. CASE "InvalidCredentials" \in q.err
        <5>1. ASSUME q.err \cap CredentialsReasons = {} PROVE loginFailure(q.err) # "internal_error"
          <6>1. loginFailure(q.err) = "invalid_credentials"
            BY <4>4, <5>1, Zenon DEF loginFailure
          <6> QED
            BY <6>1, Zenon
        <5>2. ASSUME q.err \cap CredentialsReasons # {} PROVE loginFailure(q.err) # "internal_error"
          <6>1. PICK s : s = q.err \cap CredentialsReasons
            BY Zenon
          <6>2. loginFailure(q.err) = CHOOSE x \in s : TRUE
            BY <5>2, <6>1 DEF loginFailure
          <6>3. (CHOOSE x \in s : TRUE) \in CredentialsReasons
            BY <5>2, <6>1, Zenon
          <6> QED
            BY <6>2, <6>3, Zenon DEF CredentialsReasons
        <5> QED
          BY <4>2, <4>4, <5>1, <5>2, Zenon
      <4> QED
        BY <4>1, <4>3, <4>4, Zenon
    <3> QED
      BY <2>1, <2>2, <2>10, <3>1 DEF Reason, Code
  <2> QED
    BY <2>6, <2>7, <2>8, <2>9, <2>10, Zenon DEF AtDone
<1>2. AccInv /\ AuditInv /\ [Next]_vars => AuditInv'
  BY AuditNext, Zenon
<1>3. Init => AuditInv
  BY AuditInit, Zenon
<1> QED
  BY <1>1, <1>2, <1>3, AccInvariant, PTL DEF Spec

\* The rollback of a sign-in takes no link with it that stood when it began
\* (discardUnlinkedUser looks before it deletes).
THEOREM LinksSurviveRollbacks == Spec => LinksOutliveRollbacks
<1> DEFINE Spared == \A x \in db.oauth \ db'.oauth, r \in Request :
                       req[r] # req'[r] /\ req[r].kind = "oauth" => x \notin req[r].stood
<1>1. ASSUME AccInv, Next PROVE Spared
  <2>1. PICK s \in Request : Sound(s)
    BY <1>1, RequestStep, Zenon DEF Next
  <2> QED
    BY <2>1, Zenon DEF Sound
<1>2. AccInv /\ [Next]_vars => [Spared]_vars
  BY <1>1, Zenon
<1> QED
  BY <1>2, AccInvariant, PTL DEF Spec, LinksOutliveRollbacks

=============================================================================
