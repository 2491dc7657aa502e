----------------------------- MODULE Challenges -----------------------------
(***************************************************************************)
(* The challenges of OAuth and wallet sign-in, from GetOAuthURL or         *)
(* GetChallenge to the moment consumeOAuthState or consumeWalletChallenge  *)
(* lets a sign-in pass.  Both flows keep their challenges in one table.    *)
(*                                                                         *)
(* A key is what a challenge is issued for: a provider with a redirect URI *)
(* (the challenge's Message), or a chain with an address.  Secrets are     *)
(* ideal: the binding of a flow is drawn with its state, so the nonce      *)
(* stands for both, and a signature says which wallet signed which nonce.  *)
(* Replicas read clocks that are off by up to Skew.                        *)
(***************************************************************************)
EXTENDS Stores

CONSTANTS Request,     \* callbacks and wallet sign-ins, each made once
          OAuthKey, WalletKey,
          TTL, Skew, MaxClock

\* A row of the table.
Challenge == [nonce : Nonce, expires : Int, message : OAuthKey \cup Nonce,
              wallet : WalletKey \cup {Nil}, binding : Nonce \cup {Nil}]

ASSUME ChallengesAssumption == /\ OAuthKey \cap WalletKey = {}
                               /\ Nil \notin OAuthKey \cup WalletKey \cup Nonce \cup Challenge
                               /\ TTL \in Nat /\ Skew \in Nat /\ MaxClock \in Nat

VARIABLES db,          \* the tables
          issued,      \* the challenges issued: a row or Nil, per nonce
          req,         \* the requests
          clock

vars == <<db, issued, req, clock>>

Pg == INSTANCE PostgresStore

NoRequest == [pc |-> "idle", flow |-> "none", nonce |-> Nil, key |-> Nil, secret |-> Nil,
              answer |-> "none"]

Init == /\ db = Pg!Tables
        /\ issued = [n \in Nonce |-> Nil]
        /\ req = [r \in Request |-> NoRequest]
        /\ clock = 0

\* Some replica's clock.
Reading == (clock - Skew)..(clock + Skew)

-----------------------------------------------------------------------------
(* Issuing *)

Issue(row, now) == /\ issued[row.nonce] = Nil
                   /\ issued' = [issued EXCEPT ![row.nonce] = row]
                   /\ db' = Pg!SaveChallenge(db, row, now).store
                   /\ UNCHANGED <<req, clock>>

\* GetOAuthURL, for a redirect URI of the whitelist: any other one fails before
\* the challenge is saved.
GetOAuthURL(n, k) ==
  \E now \in Reading :
    Issue([nonce |-> n, expires |-> now + TTL, message |-> k, wallet |-> Nil, binding |-> n], now)

\* GetChallenge, for a wallet.  Its message holds the nonce.
GetChallenge(n, k) ==
  \E now \in Reading :
    Issue([nonce |-> n, expires |-> now + TTL, message |-> n, wallet |-> k, binding |-> Nil], now)

-----------------------------------------------------------------------------
(* Consuming *)

\* The request ends.  One that did not pass forgets what it presented: nothing
\* reads it again.
Return(r, answer) ==
  req' = [req EXCEPT ![r] = IF answer = "passed" THEN [@ EXCEPT !.pc = "done", !.answer = answer]
                            ELSE [NoRequest EXCEPT !.pc = "done", !.nonce = req[r].nonce, !.answer = answer]]

\* OAuthCallback: a request presents a state, what it is for, and a binding.
OAuthCallback(r, n, k, b) ==
  /\ req[r].pc = "idle"
  /\ req' = [req EXCEPT ![r] = [NoRequest EXCEPT !.pc = "get", !.flow = "oauth", !.nonce = n,
                                                 !.key = k, !.secret = b]]
  /\ UNCHANGED <<db, issued, clock>>

\* AuthenticateWallet: a request presents a nonce, a wallet, and a signature by
\* that wallet or by another one, of that nonce or of another one.
AuthenticateWallet(r, n, k, sig) ==
  /\ req[r].pc = "idle"
  /\ req' = [req EXCEPT ![r] = [NoRequest EXCEPT !.pc = "get", !.flow = "wallet", !.nonce = n,
                                                 !.key = k, !.secret = sig]]
  /\ UNCHANGED <<db, issued, clock>>

\* Mutant: the redirect URI is not compared.
OAuthMatchesAny(ch, q) == ch.binding # Nil /\ ch.binding = q.secret

\* consumeOAuthState: the comparisons.
OAuthMatches(ch, q) == /\ ch.message = q.key
                       /\ ch.binding # Nil
                       /\ ch.binding = q.secret

\* VerifySignature: the wallet signed this message.
VerifySignature(k, message, sig) == sig = <<k, message>>

\* consumeWalletChallenge: the comparisons.
WalletMatches(ch, q) == /\ ch.wallet = q.key
                        /\ VerifySignature(q.key, ch.message, q.secret)

Matches(ch, q) == IF q.flow = "oauth" THEN OAuthMatches(ch, q) ELSE WalletMatches(ch, q)

\* Mutants: the delete comes before the comparisons, and its error is ignored.
CheckBurning(r) ==
  LET q == req[r] IN
  /\ q.pc = "get"
  /\ \E now \in Reading :
       LET got == Pg!GetChallenge(db, q.nonce, now) IN
       IF got.err = "nil" /\ now < got.val.expires
         THEN /\ db' = Pg!DeleteChallenge(got.store, q.nonce).store
              /\ Return(r, IF Matches(got.val, q) THEN "passed" ELSE "invalid")
         ELSE db' = got.store /\ Return(r, "invalid")
  /\ UNCHANGED <<issued, clock>>
DeleteIgnoringError(r) ==
  /\ req[r].pc = "delete"
  /\ db' = Pg!DeleteChallenge(db, req[r].nonce).store
  /\ Return(r, "passed")
  /\ UNCHANGED <<issued, clock>>

\* GetChallenge of the store, and every check on what it returned.
Check(r) ==
  LET q == req[r] IN
  /\ q.pc = "get"
  /\ \E now \in Reading :
       LET got == Pg!GetChallenge(db, q.nonce, now) IN
       /\ db' = got.store
       /\ IF got.err = "nil" /\ now < got.val.expires /\ Matches(got.val, q)
            THEN req' = [req EXCEPT ![r].pc = "delete"]
            ELSE Return(r, "invalid")
  /\ UNCHANGED <<issued, clock>>

\* DeleteChallenge: of concurrent requests only one gets past it.
Delete(r) ==
  LET gone == Pg!DeleteChallenge(db, req[r].nonce) IN
  /\ req[r].pc = "delete"
  /\ db' = gone.store
  /\ Return(r, IF gone.err = "nil" THEN "passed" ELSE "invalid")
  /\ UNCHANGED <<issued, clock>>

\* A store call fails, or its answer is lost after it took effect.
StoreFails(r) ==
  /\ req[r].pc \in {"get", "delete"}
  /\ \/ db' = db
     \/ req[r].pc = "delete" /\ db' = Pg!DeleteChallenge(db, req[r].nonce).store
  /\ Return(r, "error")
  /\ UNCHANGED <<issued, clock>>

Tick == /\ clock < MaxClock
        /\ clock' = clock + 1
        /\ UNCHANGED <<db, issued, req>>

Drawn == {n \in Nonce : issued[n] # Nil}

Next == \/ \E n \in Nonce : \/ \E k \in OAuthKey : GetOAuthURL(n, k)
                            \/ \E k \in WalletKey : GetChallenge(n, k)
        \/ \E r \in Request, n \in Drawn :
             \/ \E k \in OAuthKey, b \in Drawn \cup {Nil} : OAuthCallback(r, n, k, b)
             \/ \E k, signer \in WalletKey, m \in Drawn : AuthenticateWallet(r, n, k, <<signer, m>>)
        \/ \E r \in Request : Check(r) \/ Delete(r) \/ StoreFails(r)
        \/ Tick

Spec == Init /\ [][Next]_vars

\* A request in progress goes on: its goroutine runs.
FairSpec == Spec /\ \A r \in Request : WF_vars(Check(r) \/ Delete(r))

-----------------------------------------------------------------------------

Passed(r) == req[r].answer = "passed"

\* What the holder of a challenge would send.
Rightful(ch, q) == IF ch.wallet = Nil
                     THEN q.flow = "oauth" /\ q.key = ch.message /\ q.secret = ch.nonce
                     ELSE q.flow = "wallet" /\ q.key = ch.wallet /\ q.secret = <<ch.wallet, ch.nonce>>

Stored(n) == \E ch \in db.challenges : ch.nonce = n

Ticket(n) == CASE issued[n] = Nil -> "none"
               [] Stored(n) -> "open"
               [] ~Stored(n) /\ \E r \in Request : Passed(r) /\ req[r].nonce = n -> "taken"
               [] OTHER -> "lapsed"

Promise == INSTANCE OneShot WITH
             ticket <- [n \in Nonce |-> Ticket(n)],
             takers <- [n \in Nonce |-> {r \in Request : Passed(r) /\ req[r].nonce = n}]

\* A challenge is good for one sign-in: concurrent requests with the same state
\* or signature, retries and lost answers included, at most one gets past the
\* delete, and none does once the challenge has lapsed ("The delete itself is
\* the single-use gate").
SingleUse == Promise!Spec

\* Only the holder passes, and in the flow the challenge was issued for: a
\* wallet nonce is no OAuth state, nor the other way round ("The store is shared
\* with OAuth state").
OnlyTheHolderPasses ==
  \A r \in Request : req[r].pc = "delete" \/ Passed(r) => Rightful(issued[req[r].nonce], req[r])

\* Nobody but the holder burns a challenge before it expires: it leaves the
\* table only once some replica may see it expired, or for a request that has
\* passed every check ("a request that fails one cannot burn the victim's state").
NotBurnt ==
  [][\A ch \in db.challenges \ db'.challenges :
       \/ ch.expires < clock + Skew
       \/ \E r \in Request : /\ req[r].nonce = ch.nonce
                             /\ req'[r] # req[r]
                             /\ Rightful(ch, req[r])]_vars

\* The holder's request, about to look its challenge up.
HolderAsks(r) ==
  req[r].pc = "get" /\ Stored(req[r].nonce) /\ Rightful(issued[req[r].nonce], req[r])

\* The challenge is taken, has lapsed, or the store failed a request for it.
Settled(n) ==
  \/ Ticket(n) = "taken"
  \/ \E s \in Request : req[s].answer = "error" /\ req[s].nonce = n
  \/ issued[n] # Nil /\ clock + Skew >= issued[n].expires

\* The holder's request succeeds whatever others send meanwhile: while the
\* challenge is stored, a rightful request ends with the challenge taken by a
\* rightful request, unless it expires or the store fails.
HolderGetsThrough ==
  \A r \in Request : HolderAsks(r) ~> \E n \in Nonce : n = req[r].nonce /\ Settled(n)
=============================================================================
