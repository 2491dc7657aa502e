------------------------------ MODULE Accounts ------------------------------
(***************************************************************************)
(* How accounts come about and are found: Register and Login with the      *)
(* local provider, the sign-in of a provider account (resolveOAuthUser)    *)
(* and of a wallet (resolveWalletUser), each a sequence of store calls     *)
(* with nothing around them but hand-written rollbacks.                    *)
(*                                                                         *)
(* One step is one store call and the code up to the next one.  A call may *)
(* fail, with or without having taken effect, and a client may go away,    *)
(* which cancels its request's context.  Challenges, the provider's        *)
(* exchange and the wallet's signature come before these steps: a sign-in  *)
(* begins with what they have established, or with their error.            *)
(***************************************************************************)
EXTENDS Stores, Responses

CONSTANTS Request,               \* requests, each made once
          DisableAutoLinkEmail,  \* OAuthConfig: its values among the replicas, of a rollout
          MaxFaults              \* bound on failing calls and clients going away

ASSUME AccountsAssumption == DisableAutoLinkEmail \subseteq BOOLEAN /\ MaxFaults \in Nat

VARIABLES db,        \* the tables
          req,       \* the requests
          drawn,     \* user IDs drawn so far
          faults,
          audit      \* the audit records: [by, event, user]

vars == <<db, req, drawn, faults, audit>>

Pg == INSTANCE PostgresStore

\* A request: what it is given (kind, email, account, wallet, secret), the user
\* it acts on, whether it created the user, whether it looks an identity up for
\* the second time (again), the error of a failed link (cause) and of the
\* request (err), and whether the error names the user.  For the properties:
\* made is the user it tried to create, failed says that one of its calls did,
\* before is the users that had a password when it began, and stood the links of
\* its user when its rollback began.
NoRequest == [pc |-> "idle", kind |-> "none", email |-> NoEmail, account |-> Nil, wallet |-> Nil,
              secret |-> Nil, user |-> Nil, created |-> FALSE, linked |-> FALSE, again |-> FALSE,
              cause |-> "nil", err |-> {}, named |-> FALSE,
              cancelled |-> FALSE, made |-> Nil, failed |-> FALSE, before |-> {},
              stood |-> {}]

Init == /\ db = Pg!Tables
        /\ req = [r \in Request |-> NoRequest]
        /\ drawn = {}
        /\ faults = 0
        /\ audit = {}

-----------------------------------------------------------------------------
(* Requests and calls *)

GoTo(q, pc) == [q EXCEPT !.pc = pc]
Fails(q, err) == [q EXCEPT !.pc = "done", !.err = err]

\* accountError: the error names the account and what was done to it.
FailsNaming(q, err) == [q EXCEPT !.pc = "done", !.err = err, !.named = TRUE]

\* The code of the answer, and the reason of the audit record.
Code(q) == CASE q.err = {} -> "OK"
             [] q.err # {} /\ q.kind = "register" -> registerErrorToConnect(q.err)
             [] q.err # {} /\ q.kind = "login" -> loginErrorToConnect(q.err)
             [] q.err # {} /\ q.kind = "oauth" -> oauthErrorToConnect(q.err)
             [] q.err # {} /\ q.kind = "wallet" -> walletErrorToConnect(q.err)

Reason(q) == CASE q.kind = "register" -> registerFailureReason(q.err)
               [] q.kind = "login" -> loginFailure(q.err)
               [] q.kind = "oauth" -> oauthFailureReason(q.err)
               [] q.kind = "wallet" -> walletFailureReason(q.err)

Event(q) == CASE q.kind = "register" -> "register"
              [] q.kind = "login" -> "login"
              [] q.kind = "oauth" -> "oauth.sign_in"
              [] q.kind = "wallet" -> "wallet.sign_in"

\* auditAccountChange: what a sign-in did to the account, if the answer or the
\* error knows of it.  A record carries the request that it is about.
AccountChange(r, q) ==
  CASE q.kind \in {"oauth", "wallet"} /\ q.created ->
         {[by |-> r, event |-> "user.created", user |-> q.user]}
    [] q.kind = "oauth" /\ q.linked /\ ~q.created ->
         {[by |-> r, event |-> "oauth.link", user |-> q.user]}
    [] OTHER -> {}

\* auditSignIn, auditSignInFailure: the records of a request that is done.
Records(r, q) ==
  CASE q.pc # "done" -> {}
    [] q.pc = "done" /\ q.err = {} ->
         AccountChange(r, q) \cup {[by |-> r, event |-> Event(q), user |-> q.user]}
    [] q.pc = "done" /\ q.err # {} ->
         (IF q.named THEN AccountChange(r, q) ELSE {})
           \cup {[by |-> r, event |-> Reason(q), user |-> IF q.named THEN q.user ELSE Nil]}

\* What may come of a store call that would have the result res.
Outcomes(r, res, detached) ==
  LET failure(s, n) == [store |-> s, err |-> "error", val |-> Nil, faults |-> n]
      normal == [store |-> res.store, err |-> res.err, val |-> res.val, faults |-> 0] IN
  CASE req[r].cancelled /\ ~detached -> {failure(db, 0)}
    [] (detached \/ ~req[r].cancelled) /\ faults < MaxFaults ->
         {normal, failure(db, 1), failure(res.store, 1)}
    [] OTHER -> {normal}

\* Request r, at pc, makes a store call and goes on as after(outcome) says.
CallWith(r, res, detached, after(_)) ==
  \E out \in Outcomes(r, res, detached) :
    LET q == [after(out) EXCEPT !.failed = @ \/ out.err = "error"] IN
    /\ db' = out.store
    /\ req' = [req EXCEPT ![r] = q]
    /\ faults' = faults + out.faults
    /\ audit' = audit \cup Records(r, q)

Call(r, res, after(_)) == CallWith(r, res, FALSE, after) /\ UNCHANGED drawn
CallDetached(r, res, after(_)) == CallWith(r, res, TRUE, after) /\ UNCHANGED drawn

At(r, pc) == req[r].pc = pc

Begin(r, q) ==
  LET begun == [q EXCEPT !.before = {c.user : c \in db.credentials}] IN
  /\ At(r, "idle")
  /\ req' = [req EXCEPT ![r] = begun]
  /\ audit' = audit \cup Records(r, begun)
  /\ UNCHANGED <<db, drawn, faults>>

\* A request that fails before its first store call on an account; what it asked
\* for is not looked at again.
Refuse(r, kind, errors) == \E x \in errors : Begin(r, Fails([NoRequest EXCEPT !.kind = kind], x))

-----------------------------------------------------------------------------
(* Register and Login *)

\* Service.Register: the address and the password are checked first.
Register(r, e, h) ==
  LET q == [NoRequest EXCEPT !.kind = "register", !.email = e, !.secret = h] IN
  \/ Begin(r, GoTo(q, "register.lookup"))
  \/ Refuse(r, "register", {{"InvalidEmail"}, {"PasswordTooShort"}, {"PasswordTooLong"}})

RegisterLookup(r) ==
  LET q == req[r] IN
  /\ At(r, "register.lookup")
  /\ Call(r, Pg!GetByEmail(db, q.email), LAMBDA out :
       CASE out.err = "nil" -> Fails(q, {"UserExists"})
         [] out.err = "UserNotFound" -> GoTo(q, "register.create")
         [] OTHER -> Fails(q, {"error"}))

RegisterCreate(r) ==
  /\ At(r, "register.create")
  /\ \E u \in User \ drawn :
       LET q == [req[r] EXCEPT !.user = u, !.made = u] IN
       /\ drawn' = drawn \cup {u}
       /\ CallWith(r, Pg!Create(db, u, q.email), FALSE, LAMBDA out :
            CASE out.err = "nil" -> GoTo(q, "register.password")
              [] out.err = "UserExists" -> Fails(q, {"UserExists"})
              [] OTHER -> Fails(q, {"error"}))

RegisterSavePassword(r) ==
  LET q == req[r] IN
  /\ At(r, "register.password")
  /\ Call(r, Pg!SavePasswordHash(db, q.user, q.secret), LAMBDA out :
       IF out.err = "nil" THEN GoTo([q EXCEPT !.created = TRUE], "issue")
                          ELSE GoTo([q EXCEPT !.cause = "password"], "register.rollback"))

\* The rollback runs in the request's own context.
RegisterRollback(r) ==
  /\ At(r, "register.rollback")
  /\ Call(r, Pg!Delete(db, req[r].user), LAMBDA out : Fails(req[r], {"error"}))

\* Service.Login: a malformed address is answered like a wrong password.
Login(r, e, h) ==
  LET q == [NoRequest EXCEPT !.kind = "login", !.email = e, !.secret = h] IN
  \/ Begin(r, GoTo(q, "login.lookup"))
  \/ Refuse(r, "login", {{"InvalidCredentials", "malformed_credentials"}})

\* Mutant: any error of the lookup is an unknown user.
LoginLookupLumped(r) ==
  LET q == req[r] IN
  /\ At(r, "login.lookup")
  /\ Call(r, Pg!GetByEmail(db, q.email), LAMBDA out :
       IF out.err = "nil" THEN GoTo([q EXCEPT !.user = out.val], "login.password")
                          ELSE Fails(q, {"InvalidCredentials", "unknown_user"}))

LoginLookup(r) ==
  LET q == req[r] IN
  /\ At(r, "login.lookup")
  /\ Call(r, Pg!GetByEmail(db, q.email), LAMBDA out :
       CASE out.err = "nil" -> GoTo([q EXCEPT !.user = out.val], "login.password")
         [] out.err = "UserNotFound" -> Fails(q, {"InvalidCredentials", "unknown_user"})
         [] OTHER -> Fails(q, {"error"}))

LoginPassword(r) ==
  LET q == req[r] IN
  /\ At(r, "login.password")
  /\ Call(r, Pg!GetPasswordHash(db, q.user), LAMBDA out :
       CASE out.err = "nil" /\ out.val = q.secret -> GoTo(q, "getUser")
         [] out.err = "nil" /\ out.val # q.secret ->
              FailsNaming(q, {"InvalidCredentials", "bad_password"})
         [] out.err = "CredentialNotFound" -> FailsNaming(q, {"InvalidCredentials", "no_password"})
         [] OTHER -> Fails(q, {"error"}))

-----------------------------------------------------------------------------
(* Provider accounts *)

\* OAuthCallback up to resolveOAuthUser: the provider vouches for an account and
\* says which address it has, and whether it is verified; or there is an error.
OAuthCallback(r, a, e, verified) ==
  LET q == [NoRequest EXCEPT !.kind = "oauth", !.account = a, !.email = e,
                             !.secret = IF verified THEN "verified" ELSE "unverified"] IN
  \/ Begin(r, GoTo(q, "oauth.identity"))
  \/ Refuse(r, "oauth", {{"OAuthDisabled"}, {"OAuthProviderUnknown"}, {"OAuthStateInvalid"},
                          {"OAuthExchangeFailed"}, {"OAuthExchangeFailed", "RedirectURINotAllowed"}})

\* oauthIdentityUser, on entry and again after a lost race.
OAuthIdentity(r) ==
  LET q == req[r] IN
  /\ At(r, "oauth.identity")
  /\ Call(r, Pg!GetOAuthIdentity(db, q.account), LAMBDA out :
       CASE out.err = "nil" ->
              GoTo([q EXCEPT !.created = @ /\ out.val = q.user, !.linked = FALSE,
                             !.user = out.val], "getUser")
         [] out.err = "OAuthIdentityNotFound" /\ ~q.again ->
              (CASE q.email = NoEmail -> Fails(q, {"OAuthEmailRequired"})
                 [] q.email # NoEmail /\ q.secret = "unverified" -> Fails(q, {"OAuthEmailUnverified"})
                 [] OTHER -> GoTo(q, "oauth.find"))
         [] OTHER -> Fails([q EXCEPT !.created = FALSE], {"error"}))

\* checkAutoLink up to its store call.
FoundByEmail(q, u, disabled) == LET found == [q EXCEPT !.user = u] IN
                                IF disabled THEN FailsNaming(found, {"OAuthLinkDisabled"})
                                            ELSE GoTo(found, "oauth.autolink")

\* findOrCreateUser: GetByEmail, the second time after a lost race to create.
FindUser(r) ==
  LET q == req[r] IN
  /\ At(r, "oauth.find") \/ At(r, "oauth.findAgain")
  /\ \E disabled \in DisableAutoLinkEmail :
       Call(r, Pg!GetByEmail(db, q.email), LAMBDA out :
         CASE out.err = "nil" -> FoundByEmail(q, out.val, disabled)
           [] out.err = "UserNotFound" /\ q.pc = "oauth.find" -> GoTo(q, "oauth.create")
           [] OTHER -> Fails(q, {"error"}))

\* Mutant: the account of a user it created is not linked.
CreateUserUnlinked(r) ==
  /\ At(r, "oauth.create")
  /\ \E u \in User \ drawn :
       LET q == [req[r] EXCEPT !.user = u, !.made = u] IN
       /\ drawn' = drawn \cup {u}
       /\ CallWith(r, Pg!Create(db, u, q.email), FALSE, LAMBDA out :
            CASE out.err = "nil" -> GoTo([q EXCEPT !.created = TRUE], "issue")
              [] out.err = "UserExists" -> GoTo(q, "oauth.findAgain")
              [] OTHER -> Fails(q, {"error"}))

CreateUser(r) ==
  /\ At(r, "oauth.create")
  /\ \E u \in User \ drawn :
       LET q == [req[r] EXCEPT !.user = u, !.made = u] IN
       /\ drawn' = drawn \cup {u}
       /\ CallWith(r, Pg!Create(db, u, q.email), FALSE, LAMBDA out :
            CASE out.err = "nil" -> GoTo([q EXCEPT !.created = TRUE], "oauth.link")
              [] out.err = "UserExists" -> GoTo(q, "oauth.findAgain")
              [] OTHER -> Fails(q, {"error"}))

\* Mutant: accounts with a password are linked, too.
CheckAutoLinkAny(r) ==
  LET q == req[r] IN
  /\ At(r, "oauth.autolink")
  /\ Call(r, Pg!GetPasswordHash(db, q.user), LAMBDA out :
            IF out.err = "error" THEN FailsNaming(q, {"error"})
                                 ELSE GoTo([q EXCEPT !.linked = TRUE], "oauth.link"))

\* checkAutoLink: GetPasswordHash.
CheckAutoLink(r) ==
  LET q == req[r] IN
  /\ At(r, "oauth.autolink")
  /\ Call(r, Pg!GetPasswordHash(db, q.user), LAMBDA out :
       CASE out.err = "nil" -> FailsNaming(q, {"OAuthAccountHasPassword"})
         [] out.err = "CredentialNotFound" -> GoTo([q EXCEPT !.linked = TRUE], "oauth.link")
         [] OTHER -> FailsNaming(q, {"error"}))

\* After a failed link: a lost race ends with the winner's user.
AfterLostLink(q) ==
  IF q.cause = "OAuthIdentityExists" THEN GoTo([q EXCEPT !.again = TRUE], "oauth.identity")
                                     ELSE Fails([q EXCEPT !.created = FALSE], {"error"})

\* SaveOAuthIdentity.  A user created for a link that failed is discarded.
LinkAccount(r) ==
  LET q == req[r] IN
  /\ At(r, "oauth.link")
  /\ Call(r, Pg!SaveOAuthIdentity(db, q.account, q.user, 0), LAMBDA out :
       LET lost == [q EXCEPT !.cause = out.err, !.stood = {x \in out.store.oauth : x.user = q.user}] IN
       CASE out.err = "nil" -> GoTo(q, "issue")
         [] out.err # "nil" /\ q.created -> GoTo(lost, "oauth.links")
         [] OTHER -> AfterLostLink(lost))

\* Mutant: the links are not looked at before the user is deleted.
CheckLinksNot(r) ==
  /\ At(r, "oauth.links")
  /\ CallDetached(r, Done(db), LAMBDA out : GoTo(req[r], "oauth.discard"))

\* discardUnlinkedUser: ListOAuthIdentities.
CheckLinks(r) ==
  LET q == req[r] IN
  /\ At(r, "oauth.links")
  /\ CallDetached(r, Pg!ListOAuthIdentities(db, q.user), LAMBDA out :
       IF out.err = "nil" /\ DOMAIN out.val = {} THEN GoTo(q, "oauth.discard")
                                                 ELSE AfterLostLink(q))

\* discardUnlinkedUser: Delete.
DiscardUser(r) ==
  /\ At(r, "oauth.discard")
  /\ CallDetached(r, Pg!Delete(db, req[r].user), LAMBDA out : AfterLostLink(req[r]))

-----------------------------------------------------------------------------
(* Wallets *)

\* AuthenticateWallet up to resolveWalletUser.
AuthenticateWallet(r, w) ==
  LET q == [NoRequest EXCEPT !.kind = "wallet", !.wallet = w] IN
  \/ Begin(r, GoTo(q, "wallet.identity"))
  \/ Refuse(r, "wallet", {{"WalletDisabled"}, {"WalletChainUnsupported"}, {"WalletAddressInvalid"},
                           {"WalletChallengeInvalid"}})

\* walletIdentityUser, on entry and again after a lost race.
WalletIdentity(r) ==
  LET q == req[r] IN
  /\ At(r, "wallet.identity")
  /\ Call(r, Pg!GetWalletIdentity(db, q.wallet), LAMBDA out :
       CASE out.err = "nil" -> GoTo([q EXCEPT !.created = FALSE, !.user = out.val], "getUser")
         [] out.err = "WalletIdentityNotFound" /\ ~q.again -> GoTo(q, "wallet.create")
         [] OTHER -> Fails([q EXCEPT !.created = FALSE], {"error"}))

CreateWalletUser(r) ==
  /\ At(r, "wallet.create")
  /\ \E u \in User \ drawn :
       LET q == [req[r] EXCEPT !.user = u, !.made = u] IN
       /\ drawn' = drawn \cup {u}
       /\ CallWith(r, Pg!Create(db, u, NoEmail), FALSE, LAMBDA out :
            IF out.err = "nil" THEN GoTo([q EXCEPT !.created = TRUE], "wallet.link")
                               ELSE Fails(q, {"error"}))

\* Mutant: whatever the error is, the user it created is kept.
LinkWalletKeeping(r) ==
  /\ At(r, "wallet.link")
  /\ Call(r, Pg!SaveWalletIdentity(db, req[r].wallet, req[r].user, 0), LAMBDA out :
       GoTo(req[r], "issue"))

LinkWallet(r) ==
  LET q == req[r] IN
  /\ At(r, "wallet.link")
  /\ Call(r, Pg!SaveWalletIdentity(db, q.wallet, q.user, 0), LAMBDA out :
       IF out.err = "nil" THEN GoTo(q, "issue")
       ELSE GoTo([q EXCEPT !.cause = out.err, !.again = TRUE], "wallet.discard"))

\* Mutant: the rollback runs in the request's context.
DiscardWalletUserInRequest(r) ==
  LET q == req[r] IN
  /\ At(r, "wallet.discard")
  /\ Call(r, Pg!Delete(db, q.user), LAMBDA out :
       IF q.cause = "WalletIdentityExists" THEN GoTo(q, "wallet.identity")
                                           ELSE Fails([q EXCEPT !.created = FALSE], {"error"}))

\* discardWalletUser, and the winner of the race.
DiscardWalletUser(r) ==
  LET q == req[r] IN
  /\ At(r, "wallet.discard")
  /\ CallDetached(r, Pg!Delete(db, q.user), LAMBDA out :
       IF q.cause = "WalletIdentityExists" THEN GoTo(q, "wallet.identity")
                                           ELSE Fails([q EXCEPT !.created = FALSE], {"error"}))

-----------------------------------------------------------------------------
(* What the paths have in common *)

\* userStore.GetByID.
GetUser(r) ==
  LET q == req[r] IN
  /\ At(r, "getUser")
  /\ Call(r, Pg!GetByID(db, q.user), LAMBDA out :
       CASE out.err = "nil" -> GoTo(q, "issue")
         [] out.err # "nil" /\ q.kind = "login" -> FailsNaming(q, {"error"})
         [] OTHER -> Fails(q, {"error"}))

\* issueTokens: the session's root token is inserted for the user.
IssueTokens(r) ==
  LET q == req[r]
      saved == IF Pg!ForeignKeyViolation(db, q.user) THEN Fail(db, "UserNotFound") ELSE Done(db) IN
  /\ At(r, "issue")
  /\ Call(r, saved, LAMBDA out : IF out.err = "nil" THEN GoTo(q, "done") ELSE FailsNaming(q, {"error"}))

\* The client goes away.
Cancel(r) == /\ req[r].pc \notin {"idle", "done"}
             /\ ~req[r].cancelled
             /\ faults < MaxFaults
             /\ req' = [req EXCEPT ![r].cancelled = TRUE]
             /\ faults' = faults + 1
             /\ UNCHANGED <<db, drawn, audit>>

Step(r) == \/ RegisterLookup(r) \/ RegisterCreate(r) \/ RegisterSavePassword(r) \/ RegisterRollback(r)
           \/ LoginLookup(r) \/ LoginPassword(r)
           \/ OAuthIdentity(r) \/ FindUser(r) \/ CreateUser(r) \/ CheckAutoLink(r) \/ LinkAccount(r)
           \/ CheckLinks(r) \/ DiscardUser(r)
           \/ WalletIdentity(r) \/ CreateWalletUser(r) \/ LinkWallet(r) \/ DiscardWalletUser(r)
           \/ GetUser(r) \/ IssueTokens(r)

\* Nil is a password that no account has.
Start(r) == \/ \E e \in Email, h \in Secret : Register(r, e, h)
            \/ \E e \in Email, h \in Secret \cup {Nil} : Login(r, e, h)
            \/ \E a \in Account, e \in Email \cup {NoEmail}, v \in BOOLEAN : OAuthCallback(r, a, e, v)
            \/ \E w \in Wallet : AuthenticateWallet(r, w)

Next == \E r \in Request : Start(r) \/ Step(r) \/ Cancel(r)

Spec == Init /\ [][Next]_vars

-----------------------------------------------------------------------------

Stored(u) == \E x \in db.users : x.id = u
LinkedTo(a, u) == \E x \in db.oauth : x.account = a /\ x.user = u
HasPassword(u) == \E x \in db.credentials : x.user = u

\* Some credential leads to the account.
Reachable(u) == \/ HasPassword(u)
                \/ \E x \in db.oauth \cup db.wallets : x.user = u

InProgress(r) == req[r].pc \notin {"idle", "done"}

\* No sign-in or registration leaves an account behind that holds its address
\* and that nobody can sign in to (oauth.go: "left behind, the user would hold
\* the email with no way to sign in"): it is reachable, or the request that made
\* it is still at work, or one of that request's calls failed.
NoStrandedAccounts ==
  \A u \in drawn : Stored(u) =>
    \/ Reachable(u)
    \/ \E r \in Request : req[r].made = u /\ (InProgress(r) \/ req[r].failed)

\* One failing link does not strand the account either: the rollback undoes it,
\* also for a client that has gone away ("Runs detached from ctx so a cancelled
\* request still cleans up").  Left out are a failed Create that did create the
\* user, and a rollback that failed itself.
RollbackCleansUp ==
  \A r \in Request :
    /\ req[r].pc = "done" /\ req[r].kind \in {"oauth", "wallet"}
    /\ req[r].cause = "error" /\ faults = 1
    /\ Stored(req[r].made)
    => Reachable(req[r].made)

\* A sign-in acts for the user its account or wallet is linked to, whichever of
\* the concurrent sign-ins made the link and whatever was rolled back.
SignInIsLinked ==
  \A r \in Request : req[r].pc = "issue" /\ Stored(req[r].user) =>
    /\ req[r].kind = "oauth" => LinkedTo(req[r].account, req[r].user)
    /\ req[r].kind = "wallet" => [wallet |-> req[r].wallet, user |-> req[r].user, created |-> 0]
                                  \in db.wallets

\* A provider account is never attached to an account that had a password when
\* the sign-in began ("A password account is refused").  A password saved after
\* the check is the window the code documents.
PasswordAccountsAreNotLinked ==
  \A r \in Request : req[r].kind = "oauth" /\ req[r].linked /\ req[r].pc = "issue" =>
    req[r].user \notin req[r].before

\* A rollback of a sign-in never takes a link with it that stood when the
\* rollback began: only a link made between its check and its delete is lost ("A
\* user some concurrent flow has linked meanwhile is kept").  The rollback of a
\* registration does not look.
LinksOutliveRollbacks ==
  [][\A x \in db.oauth \ db'.oauth, r \in Request :
       req[r] # req'[r] /\ req[r].kind = "oauth" => x \notin req[r].stood]_vars

\* An outage is never answered as a rejection: a request one of whose store
\* calls failed succeeds or is answered with an internal error ("A storage
\* failure is not a wrong password").
OutageIsNoRejection ==
  \A r \in Request : req[r].pc = "done" /\ req[r].failed => Code(req[r]) \in {"OK", "Internal"}

\* The audit log holds a record of internal_error about a failed request exactly
\* when its client is told Internal: the two switches, of errors.go and of
\* audit.go, agree on every error that a request can end with.
AuditAgreesWithAnswer ==
  \A r \in Request : req[r].pc = "done" /\ req[r].err # {} =>
    ((\E x \in audit : x.by = r /\ x.event = "internal_error") <=> Code(req[r]) = "Internal")
=============================================================================
