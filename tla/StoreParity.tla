---------------------------- MODULE StoreParity -----------------------------
(***************************************************************************)
(* The two stores side by side: every call is made on both, with the same  *)
(* arguments and at the same time.  psina is written against the contract  *)
(* of auth/ports.go, and what is tested on the one store must hold on the  *)
(* other.                                                                  *)
(*                                                                         *)
(* IDs, hashes and nonces are fresh when they are first stored, as the     *)
(* service draws them; otherwise any call may come at any time.  Errors    *)
(* are compared as the service reads them: it does not tell an expired     *)
(* challenge from a missing one.                                           *)
(***************************************************************************)
EXTENDS Stores

CONSTANTS Limit,     \* patConfig.MaxPerUser
          MaxClock   \* bound on the clock

ASSUME ParityAssumption == Limit \in Nat \ {0} /\ MaxClock \in Nat

\* The entries of the in-memory maps: a link, a token, a challenge.
Link         == [user : User, created : Int]
PATRow       == [pat : Pat, user : User, expires : Int \cup {Nil}, used : Int \cup {Nil},
                 created : Int]
ChallengeRow == [nonce : Nonce, expires : Int]

\* Nil, which says that a map has no entry, is itself none.
ASSUME NilIsNoEntry == Nil \notin Link \cup PATRow \cup ChallengeRow

VARIABLES mem,       \* the in-memory store
          pg,        \* the PostgreSQL tables
          drawn,     \* IDs, hashes and nonces drawn so far
          clock,
          differ     \* the last call, if the two stores answered it differently, else Nil

vars == <<mem, pg, drawn, clock, differ>>

Mem == INSTANCE MemoryStore
Pg  == INSTANCE PostgresStore

Init == /\ mem = Mem!New
        /\ pg = Pg!Tables
        /\ drawn = {}
        /\ clock = 0
        /\ differ = Nil

\* How the service reads an error: a challenge is valid or it is not.
Read(err) == IF err \in {"ChallengeNotFound", "ChallengeExpired"} THEN "ChallengeInvalid" ELSE err

\* One call, made on both stores, with the answers m and p.
Call(call, m, p) ==
  /\ mem' = m.store
  /\ pg' = p.store
  /\ differ' = IF Read(m.err) = Read(p.err) /\ m.val = p.val THEN Nil ELSE call
  /\ clock' = clock

\* A call that stores something under a value drawn for it.
CallWith(x, call, m, p) == /\ x \notin drawn
                           /\ drawn' = drawn \cup {x}
                           /\ Call(call, m, p)

\* A call under values that are stored already, or never were.
CallOn(call, m, p) == Call(call, m, p) /\ drawn' = drawn

Expiries == {Nil} \cup clock..MaxClock
Row(p, u, x) == [pat |-> p, user |-> u, expires |-> x, used |-> Nil, created |-> clock]

-----------------------------------------------------------------------------

CreateUser(u, e) == CallWith(u, <<"Create", u, e>>, Mem!Create(mem, u, e), Pg!Create(pg, u, e))

DeleteUser(u) == CallOn(<<"Delete", u>>, Mem!Delete(mem, u), Pg!Delete(pg, u))

SavePassword(u, h) ==
  CallOn(<<"SavePasswordHash", u, h>>, Mem!SavePasswordHash(mem, u, h), Pg!SavePasswordHash(pg, u, h))

LookUpUser(u, e) ==
  \/ CallOn(<<"GetByID", u>>, Mem!GetByID(mem, u), Pg!GetByID(pg, u))
  \/ CallOn(<<"GetByEmail", e>>, Mem!GetByEmail(mem, e), Pg!GetByEmail(pg, e))
  \/ CallOn(<<"GetPasswordHash", u>>, Mem!GetPasswordHash(mem, u), Pg!GetPasswordHash(pg, u))

LinkAccount(a, u) ==
  CallOn(<<"SaveOAuthIdentity", a, u>>,
         Mem!SaveOAuthIdentity(mem, a, u, clock), Pg!SaveOAuthIdentity(pg, a, u, clock))

LinkWallet(w, u) ==
  CallOn(<<"SaveWalletIdentity", w, u>>,
         Mem!SaveWalletIdentity(mem, w, u, clock), Pg!SaveWalletIdentity(pg, w, u, clock))

LookUpLinks(a, w, u) ==
  \/ CallOn(<<"GetOAuthIdentity", a>>, Mem!GetOAuthIdentity(mem, a), Pg!GetOAuthIdentity(pg, a))
  \/ CallOn(<<"ListOAuthIdentities", u>>, Mem!ListOAuthIdentities(mem, u), Pg!ListOAuthIdentities(pg, u))
  \/ CallOn(<<"GetWalletIdentity", w>>, Mem!GetWalletIdentity(mem, w), Pg!GetWalletIdentity(pg, w))
  \/ CallOn(<<"ListWalletIdentities", u>>,
            Mem!ListWalletIdentities(mem, u), Pg!ListWalletIdentities(pg, u))

CreatePAT(p, u, x) ==
  \/ CallWith(p, <<"SavePAT", p, u>>, Mem!SavePAT(mem, Row(p, u, x)), Pg!SavePAT(pg, Row(p, u, x)))
  \/ CallWith(p, <<"SavePATLimited", p, u>>, Mem!SavePATLimited(mem, Row(p, u, x), Limit, clock),
                                             Pg!SavePATLimited(pg, Row(p, u, x), Limit, clock))

UsePAT(p, u) ==
  \/ CallOn(<<"GetPAT", p>>, Mem!GetPAT(mem, p), Pg!GetPAT(pg, p))
  \/ CallOn(<<"ListPATs", u>>, Mem!ListPATs(mem, u), Pg!ListPATs(pg, u))
  \/ CallOn(<<"DeletePAT", u, p>>, Mem!DeletePAT(mem, u, p), Pg!DeletePAT(pg, u, p))
  \/ CallOn(<<"TouchPAT", p>>, Mem!TouchPAT(mem, p, clock), Pg!TouchPAT(pg, p, clock))

IssueChallenge(n, x) ==
  LET row == [nonce |-> n, expires |-> x] IN
  CallWith(n, <<"SaveChallenge", n>>,
           Mem!SaveChallenge(mem, row, clock), Pg!SaveChallenge(pg, row, clock))

ReadChallenge(n) ==
  CallOn(<<"GetChallenge", n>>, Mem!GetChallenge(mem, n, clock), Pg!GetChallenge(pg, n, clock))

ConsumeChallenge(n) ==
  CallOn(<<"DeleteChallenge", n>>, Mem!DeleteChallenge(mem, n), Pg!DeleteChallenge(pg, n))

Tick == /\ clock < MaxClock
        /\ clock' = clock + 1
        /\ differ' = Nil
        /\ UNCHANGED <<mem, pg, drawn>>

Next == \/ \E u \in User, e \in Email \cup {NoEmail} : CreateUser(u, e) \/ LookUpUser(u, e)
        \/ \E u \in User : DeleteUser(u)
        \/ \E u \in User, h \in Secret : SavePassword(u, h)
        \/ \E a \in Account, u \in User : LinkAccount(a, u)
        \/ \E w \in Wallet, u \in User : LinkWallet(w, u)
        \/ \E a \in Account, w \in Wallet, u \in User : LookUpLinks(a, w, u)
        \/ \E p \in Pat, u \in User, x \in Expiries : CreatePAT(p, u, x)
        \/ \E p \in Pat, u \in User : UsePAT(p, u)
        \/ \E n \in Nonce, x \in Expiries \ {Nil} : IssueChallenge(n, x)
        \/ \E n \in Nonce : ReadChallenge(n) \/ ConsumeChallenge(n)
        \/ Tick

Spec == Init /\ [][Next]_vars

-----------------------------------------------------------------------------

\* The keys of a map that have an entry.
Entries(m) == {k \in DOMAIN m : m[k] # Nil}

\* The challenges of a set of rows that can still be used.
Valid(rows) == {r \in rows : ~Expired(r, clock)}

\* A link of an account or a wallet that is taken, for a user who is gone: in
\* memory requireUser speaks first, in PostgreSQL the unique index does.
LinksTakenForMissing(call) ==
  \E u \in User \ Entries(mem.users) :
    \/ \E a \in Entries(mem.oauth) : call = <<"SaveOAuthIdentity", a, u>>
    \/ \E w \in Entries(mem.wallets) : call = <<"SaveWalletIdentity", w, u>>

\* A delete of an expired challenge that memory has forgotten when it was read
\* and PostgreSQL keeps until the next one is saved.
DeletesExpired(call) ==
  \E r \in pg.challenges : /\ Expired(r, clock) /\ mem.challenges[r.nonce] = Nil
                           /\ call = <<"DeleteChallenge", r.nonce>>

\* The two stores answer every call alike, whatever was called before and
\* whenever: each finds what the other finds, and refuses for the same reason
\* (memory.go keeps by hand what unique indexes, foreign keys and cascades do in
\* schema.hcl).  The exceptions are exactly two: both refuse the link of what is
\* taken for a user who is gone, but for different reasons, and an expired
\* challenge can be deleted in PostgreSQL after memory has forgotten it.
StoresAgree ==
  [][differ' # Nil => LinksTakenForMissing(differ') \/ DeletesExpired(differ')]_vars

\* The maps hold exactly the rows of the tables; of the challenges, those that
\* can still be used (memory deletes an expired one when it is read, postgres
\* when the next one is saved).
SameContents ==
  /\ pg.users = {[id |-> u, email |-> mem.users[u]] : u \in Entries(mem.users)}
  /\ pg.credentials = {[user |-> u, hash |-> mem.passwords[u]] : u \in Entries(mem.passwords)}
  /\ pg.pats = {mem.pats[p] : p \in Entries(mem.pats)}
  /\ pg.oauth = {[account |-> a, user |-> mem.oauth[a].user, created |-> mem.oauth[a].created] :
                    a \in Entries(mem.oauth)}
  /\ pg.wallets = {[wallet |-> w, user |-> mem.wallets[w].user, created |-> mem.wallets[w].created] :
                      w \in Entries(mem.wallets)}
  /\ Valid(pg.challenges) = Valid({mem.challenges[n] : n \in Entries(mem.challenges)})

\* ports.go: "Password hashes, refresh tokens, PATs, OAuth and wallet identities
\* belong to a user: writing one for a missing user fails with
\* store.ErrUserNotFound."  Said of what the two stores would answer now, for an
\* ID that was drawn.
MissingUserIsNotFound ==
  \A u \in (User \cap drawn) \ Entries(mem.users) :
    /\ \A h \in Secret : {Mem!SavePasswordHash(mem, u, h).err, Pg!SavePasswordHash(pg, u, h).err}
                           = {"UserNotFound"}
    /\ \A p \in Pat \ drawn : {Mem!SavePAT(mem, Row(p, u, Nil)).err, Pg!SavePAT(pg, Row(p, u, Nil)).err}
                                = {"UserNotFound"}
    /\ \A a \in Account : {Mem!SaveOAuthIdentity(mem, a, u, clock).err,
                           Pg!SaveOAuthIdentity(pg, a, u, clock).err} = {"UserNotFound"}
    /\ \A w \in Wallet : {Mem!SaveWalletIdentity(mem, w, u, clock).err,
                          Pg!SaveWalletIdentity(pg, w, u, clock).err} = {"UserNotFound"}
=============================================================================
