-------------------------- MODULE ChallengesProofs --------------------------
(***************************************************************************)
(* A challenge is single-use and passes only for its holder: for any       *)
(* number of challenges, requests, providers and wallets, and for clocks   *)
(* that differ by any amount.                                              *)
(***************************************************************************)
EXTENDS Challenges, TLAPS

\* The table of challenges; the others stay empty here.
Db == [users : {{}}, credentials : {{}}, pats : {{}}, oauth : {{}}, wallets : {{}},
       challenges : SUBSET Challenge]

\* What a request may look like.
RequestRow == [pc : {"idle", "get", "delete", "done"}, flow : {"none", "oauth", "wallet"},
               nonce : Nonce \cup {Nil}, key : OAuthKey \cup WalletKey \cup {Nil},
               secret : Nonce \cup {Nil} \cup (WalletKey \X Nonce),
               answer : {"none", "passed", "invalid", "error"}]

TypeOK == /\ db \in Db
          /\ issued \in [Nonce -> Challenge \cup {Nil}]
          /\ req \in [Request -> RequestRow]
          /\ clock \in Int

\* The two shapes of a challenge.
Shape(n, ch) == /\ ch \in Challenge
                /\ ch.nonce = n
                /\ \/ ch.wallet = Nil /\ ch.binding = n
                   \/ ch.wallet \in WalletKey /\ ch.message = n /\ ch.binding = Nil

\* A request in progress, or one that passed, is about an issued challenge.
RequestOK(r) ==
  LET q == req[r] IN
  /\ q.pc # "idle" => q.nonce \in Nonce /\ issued[q.nonce] # Nil
  /\ q.pc \in {"get", "delete"} => \/ q.flow = "oauth" /\ q.key \in OAuthKey
                                   \/ q.flow = "wallet" /\ q.key \in WalletKey
  /\ q.pc # "done" => q.answer = "none"
  /\ Passed(r) => ~Stored(q.nonce)
  /\ q.pc = "delete" \/ Passed(r) => Rightful(issued[q.nonce], q)

CInv == /\ TypeOK
        /\ \A n \in Nonce : issued[n] # Nil => Shape(n, issued[n])
        /\ \A ch \in db.challenges : issued[ch.nonce] = ch
        /\ \A r \in Request : RequestOK(r)
        /\ \A r, s \in Request : Passed(r) /\ Passed(s) /\ req[r].nonce = req[s].nonce => r = s

-----------------------------------------------------------------------------
(* The calls of the store *)

\* Has, asked for a nonce.
LEMMA HasNonce == ASSUME NEW n, NEW S \in SUBSET Challenge
                  PROVE  Pg!Has(S, "nonce", n) <=> \E ch \in S : ch.nonce = n
BY Zenon DEF Pg!Has, Challenge

\* GetChallenge returns a row with the nonce, if it finds one, and changes nothing.
LEMMA GetIs == ASSUME NEW s \in Db, NEW n, NEW now
               PROVE  LET got == Pg!GetChallenge(s, n, now) IN
                      /\ got.store = s
                      /\ got.err = "nil" => got.val \in s.challenges /\ got.val.nonce = n
<1>1. CASE ~Pg!Has(s.challenges, "nonce", n)
  BY <1>1, Zenon DEF Pg!GetChallenge, Pg!Fail
<1>2. CASE Pg!Has(s.challenges, "nonce", n)
  <2> DEFINE row == Pg!QueryRow(s.challenges, "nonce", n)
  <2>1. row \in s.challenges /\ row["nonce"] = n
    BY <1>2, Zenon DEF Pg!QueryRow, Pg!Has
  <2>2. row \in s.challenges /\ row.nonce = n
    BY <2>1, Zenon DEF Db, Challenge
  <2> HIDE DEF row
  <2> QED
    BY <1>2, <2>2, Zenon DEF Pg!GetChallenge, Pg!Fail, Pg!Found, row
<1> QED
  BY <1>1, <1>2, Zenon

\* DeleteChallenge removes the row, and says so.
LEMMA DeleteIs == ASSUME NEW s \in Db, NEW n
                  PROVE  LET gone == Pg!DeleteChallenge(s, n) IN
                         /\ gone.store \in Db
                         /\ gone.store.challenges = {ch \in s.challenges : ch.nonce # n}
                         /\ gone.err = "nil" <=> \E ch \in s.challenges : ch.nonce = n
<1>1. s.challenges \in SUBSET Challenge
  BY Zenon DEF Db
<1>2. CASE ~Pg!Has(s.challenges, "nonce", n)
  BY <1>1, <1>2, HasNonce, Zenon DEF Pg!DeleteChallenge, Pg!Fail
<1>3. CASE Pg!Has(s.challenges, "nonce", n)
  BY <1>1, <1>3, HasNonce, Zenon DEF Pg!DeleteChallenge, Pg!Done, Db
<1> QED
  BY <1>2, <1>3, Zenon

\* SaveChallenge sweeps, and adds the row.
LEMMA SaveIs == ASSUME NEW s \in Db, NEW row \in Challenge, NEW now,
                       \A ch \in s.challenges : ch.nonce # row.nonce
                PROVE  LET saved == Pg!SaveChallenge(s, row, now).store IN
                       /\ saved \in Db
                       /\ row \in saved.challenges
                       /\ saved.challenges \subseteq s.challenges \cup {row}
                       /\ \A ch \in s.challenges : ch \in saved.challenges \/ Expired(ch, now)
<1> DEFINE swept == Pg!Sweep(s, now)
<1>1. /\ swept \in Db /\ swept.challenges \subseteq s.challenges
      /\ \A ch \in s.challenges : ch \in swept.challenges \/ Expired(ch, now)
  BY Zenon DEF Pg!Sweep, Pg!Expired, Expired, Db
<1>2. ~Pg!UniqueViolation(swept.challenges, "nonce", row.nonce)
  BY <1>1, HasNonce DEF Pg!UniqueViolation, Db
<1> HIDE DEF swept
<1>3. Pg!SaveChallenge(s, row, now).store = [swept EXCEPT !.challenges = @ \cup {row}]
  BY <1>2, Zenon DEF Pg!SaveChallenge, Pg!Done, swept
<1> QED
  BY <1>1, <1>3 DEF Db

-----------------------------------------------------------------------------
(* The invariant *)

LEMMA InitCInv == Init => CInv
<1> SUFFICES ASSUME Init PROVE CInv
  BY Zenon
<1>1. NoRequest \in RequestRow
  BY Zenon DEF NoRequest, RequestRow
<1>2. TypeOK
  BY <1>1 DEF Init, TypeOK, Pg!Tables, Db
<1>3. db.challenges = {} /\ \A r \in Request : req[r].pc = "idle" /\ req[r].answer = "none"
  BY Zenon DEF Init, Pg!Tables, NoRequest
<1> QED
  BY <1>2, <1>3, Zenon DEF Init, CInv, RequestOK, Passed

\* Issuing: the nonce is new, so no request is about it and no row has it.
LEMMA IssueCInv ==
  ASSUME CInv, NEW n \in Nonce, NEW row, NEW now, Shape(n, row), Issue(row, now)
  PROVE  CInv'
<1>1. /\ issued[n] = Nil
      /\ issued' = [issued EXCEPT ![n] = row]
      /\ req' = req /\ clock' = clock
      /\ row \in Challenge /\ row.nonce = n
      /\ row # Nil
  BY ChallengesAssumption, Zenon DEF Issue, Shape
<1>2. \A ch \in db.challenges : ch \in Challenge /\ ch.nonce # n /\ ch.nonce \in Nonce
  BY <1>1, ChallengesAssumption DEF CInv, TypeOK, Db, Challenge
<1>3. /\ db' \in Db
      /\ db'.challenges \subseteq db.challenges \cup {row}
  BY <1>1, <1>2, SaveIs, Zenon DEF Issue, CInv, TypeOK
<1>4. TypeOK'
  BY <1>1, <1>3, Zenon DEF CInv, TypeOK
<1>5. \A m \in Nonce : issued'[m] # Nil => Shape(m, issued'[m])
  BY <1>1, Zenon DEF CInv, TypeOK
<1>6. \A ch \in db'.challenges : issued'[ch.nonce] = ch
  BY <1>1, <1>2, <1>3, Zenon DEF CInv, TypeOK
<1>7. ASSUME NEW r \in Request PROVE RequestOK(r)'
  <2>1. RequestOK(r)
    BY Zenon DEF CInv
  <2>2. req[r].pc # "idle" => req[r].nonce # n /\ issued'[req[r].nonce] = issued[req[r].nonce]
    BY <1>1, <2>1, Zenon DEF CInv, TypeOK, RequestOK
  <2>3. Passed(r) => req[r].pc # "idle"
    BY <2>1, Zenon DEF RequestOK, Passed
  <2>4. req[r].nonce # n /\ ~Stored(req[r].nonce) => ~Stored(req[r].nonce)'
    BY <1>1, <1>3, Zenon DEF Stored
  <2>5. Passed(r)' = Passed(r)
    BY <1>1, Zenon DEF Passed
  <2> QED
    BY <1>1, <2>1, <2>2, <2>3, <2>4, <2>5, Zenon DEF RequestOK
<1>8. \A r, s \in Request : Passed(r)' /\ Passed(s)' /\ req'[r].nonce = req'[s].nonce => r = s
  BY <1>1, Zenon DEF CInv, Passed
<1> QED
  BY <1>4, <1>5, <1>6, <1>7, <1>8, Zenon DEF CInv

\* A request that starts.
LEMMA StartCInv ==
  ASSUME CInv, NEW r \in Request, NEW q \in RequestRow,
         req[r].pc = "idle", req' = [req EXCEPT ![r] = q],
         UNCHANGED <<db, issued, clock>>,
         q.pc = "get", q.answer = "none", q.nonce \in Nonce, issued[q.nonce] # Nil,
         \/ q.flow = "oauth" /\ q.key \in OAuthKey
         \/ q.flow = "wallet" /\ q.key \in WalletKey
  PROVE  CInv'
<1>1. /\ TypeOK'
      /\ req'[r] = q
      /\ \A s \in Request : s # r => req'[s] = req[s]
  BY Zenon DEF CInv, TypeOK
<1>2. ASSUME NEW s \in Request PROVE RequestOK(s)' /\ (Passed(s)' => s # r /\ Passed(s))
  <2>1. CASE s = r
    BY <1>1, <2>1, Zenon DEF RequestOK, Passed
  <2>2. CASE s # r
    BY <1>1, <2>2 DEF CInv, RequestOK, Passed, Stored
  <2> QED
    BY <2>1, <2>2, Zenon
<1>3. \A s, t \in Request : Passed(s)' /\ Passed(t)' /\ req'[s].nonce = req'[t].nonce => s = t
  BY <1>1, <1>2, Zenon DEF CInv
<1>4. \A n \in Nonce : issued'[n] # Nil => Shape(n, issued'[n])
  BY Zenon DEF CInv
<1> QED
  BY <1>1, <1>2, <1>3, <1>4, Zenon DEF CInv

\* What a request was sent with is kept as long as it matters.
SameInput(p, q) == /\ q.nonce = p.nonce
                   /\ q.pc = "delete" \/ q.answer = "passed" =>
                        q.flow = p.flow /\ q.key = p.key /\ q.secret = p.secret

\* A request that goes on: rows only leave the table, and it has not passed before.
LEMMA GoOnCInv ==
  ASSUME CInv, NEW r \in Request, NEW q \in RequestRow,
         req[r].pc \in {"get", "delete"}, req' = [req EXCEPT ![r] = q],
         UNCHANGED <<issued, clock>>, db' \in Db, db'.challenges \subseteq db.challenges,
         SameInput(req[r], q),
         q.pc \in {"delete", "done"}, q.pc = "delete" => q.answer = "none",
         q.answer = "passed" => /\ \A ch \in db'.challenges : ch.nonce # q.nonce
                                /\ Stored(q.nonce),
         q.pc = "delete" \/ q.answer = "passed" => Rightful(issued[q.nonce], q)
  PROVE  CInv'
<1>1. /\ TypeOK'
      /\ req'[r] = q
      /\ \A s \in Request : s # r => req'[s] = req[s]
  BY Zenon DEF CInv, TypeOK
<1>2. RequestOK(r)
  BY Zenon DEF CInv
<1>3. \A n : ~Stored(n) => ~Stored(n)'
  BY Zenon DEF Stored
<1>4. ASSUME NEW s \in Request PROVE RequestOK(s)'
  <2>1. CASE s = r
    <3>1. /\ q.nonce \in Nonce /\ issued'[q.nonce] # Nil
          /\ q.pc = "delete" => \/ q.flow = "oauth" /\ q.key \in OAuthKey
                                \/ q.flow = "wallet" /\ q.key \in WalletKey
      BY <1>2, Zenon DEF RequestOK, SameInput
    <3>2. q.pc # "done" => q.answer = "none"
      BY Zenon
    <3>3. q.answer = "passed" => ~Stored(q.nonce)'
      BY Zenon DEF Stored
    <3>4. q.pc = "delete" \/ q.answer = "passed" => Rightful(issued'[q.nonce], q)
      BY Zenon
    <3> QED
      BY <1>1, <2>1, <3>1, <3>2, <3>3, <3>4, Zenon DEF RequestOK, Passed
  <2>2. CASE s # r
    <3>1. RequestOK(s) /\ req'[s] = req[s]
      BY <1>1, <2>2, Zenon DEF CInv
    <3> QED
      BY <1>3, <3>1, Zenon DEF RequestOK, Passed
  <2> QED
    BY <2>1, <2>2, Zenon
<1>5. \A s, t \in Request : Passed(s)' /\ Passed(t)' /\ req'[s].nonce = req'[t].nonce => s = t
  <2> SUFFICES ASSUME NEW s \in Request, NEW t \in Request, s # t,
                      Passed(s)', Passed(t)', req'[s].nonce = req'[t].nonce
               PROVE  FALSE
    BY Zenon
  <2>1. CASE s # r /\ t # r
    BY <1>1, <2>1 DEF CInv, Passed
  <2>2. CASE s = r
    <3>1. Passed(t) /\ req[t].nonce = q.nonce /\ Stored(q.nonce)
      BY <1>1, <2>2, Zenon DEF Passed
    <3> QED
      BY <3>1, Zenon DEF CInv, RequestOK
  <2>3. CASE t = r
    <3>1. Passed(s) /\ req[s].nonce = q.nonce /\ Stored(q.nonce)
      BY <1>1, <2>3, Zenon DEF Passed
    <3> QED
      BY <3>1, Zenon DEF CInv, RequestOK
  <2> QED
    BY <2>1, <2>2, <2>3, Zenon
<1>6. \A n \in Nonce : issued'[n] # Nil => Shape(n, issued'[n])
  BY Zenon DEF CInv
<1>7. \A ch \in db'.challenges : issued'[ch.nonce] = ch
  BY Zenon DEF CInv
<1> QED
  BY <1>1, <1>4, <1>5, <1>6, <1>7, Zenon DEF CInv

-----------------------------------------------------------------------------
(* What each step does *)

\* A step of request r leaves q there, which is about the same challenge.
Goes(r, q) == /\ q \in RequestRow
              /\ req' = [req EXCEPT ![r] = q]
              /\ SameInput(req[r], q)
              /\ UNCHANGED <<issued, clock>>

\* What passes the comparisons is what the holder would send.
LEMMA MatchesIsRightful ==
  ASSUME CInv, NEW q, NEW ch \in db.challenges, ch.nonce = q.nonce, q.nonce \in Nonce,
         \/ q.flow = "oauth" /\ q.key \in OAuthKey
         \/ q.flow = "wallet" /\ q.key \in WalletKey,
         Matches(ch, q)
  PROVE  Rightful(issued[q.nonce], q)
<1>1. issued[q.nonce] = ch /\ ch \in Challenge /\ ch # Nil
  BY ChallengesAssumption, Zenon DEF CInv, TypeOK, Db
<1>2. Shape(q.nonce, ch)
  BY <1>1, Zenon DEF CInv
<1>3. CASE q.flow = "oauth"
  BY <1>1, <1>2, <1>3, ChallengesAssumption, Zenon DEF Matches, OAuthMatches, Shape, Rightful
<1>4. CASE q.flow = "wallet"
  BY <1>1, <1>2, <1>4, ChallengesAssumption, Zenon
     DEF Matches, WalletMatches, VerifySignature, Shape, Rightful
<1> QED
  BY <1>3, <1>4, Zenon

LEMMA ReturnIs == ASSUME TypeOK, NEW r \in Request, NEW a \in {"passed", "invalid", "error"},
                         Return(r, a), UNCHANGED <<issued, clock>>
                  PROVE  \E q : Goes(r, q) /\ q.pc = "done" /\ q.answer = a
<1> DEFINE q == IF a = "passed" THEN [req[r] EXCEPT !.pc = "done", !.answer = a]
                ELSE [NoRequest EXCEPT !.pc = "done", !.nonce = req[r].nonce, !.answer = a]
<1>1. req[r] \in RequestRow
  BY Zenon DEF TypeOK
<1>2. q \in RequestRow /\ q.pc = "done" /\ q.answer = a /\ SameInput(req[r], q)
  <2>1. CASE a = "passed"
    BY <1>1, <2>1, ZenonT(40) DEF RequestRow, SameInput
  <2>2. CASE a # "passed"
    BY <1>1, <2>2, ZenonT(40) DEF RequestRow, NoRequest, SameInput
  <2> QED
    BY <2>1, <2>2, Zenon
<1>3. req' = [req EXCEPT ![r] = q]
  BY <1>1, ZenonT(40) DEF Return, TypeOK
<1> HIDE DEF q
<1> QED
  BY <1>2, <1>3, ZenonT(40) DEF Goes

LEMMA CheckIs == ASSUME CInv, NEW r \in Request, Check(r)
                 PROVE  /\ db' = db /\ req[r].pc = "get"
                        /\ \E q : /\ Goes(r, q)
                                  /\ \/ q.pc = "done" /\ q.answer = "invalid"
                                     \/ /\ q.pc = "delete" /\ q.answer = "none"
                                        /\ Rightful(issued[q.nonce], q)
<1> DEFINE p == req[r]
<1>1. PICK now \in Reading :
        LET got == Pg!GetChallenge(db, p.nonce, now) IN
        /\ db' = got.store
        /\ IF got.err = "nil" /\ now < got.val.expires /\ Matches(got.val, p)
             THEN req' = [req EXCEPT ![r].pc = "delete"]
             ELSE Return(r, "invalid")
  BY Zenon DEF Check
<1> DEFINE got == Pg!GetChallenge(db, p.nonce, now)
<1>2. got.store = db /\ (got.err = "nil" => got.val \in db.challenges /\ got.val.nonce = p.nonce)
  BY GetIs DEF CInv, TypeOK
<1> HIDE DEF got
<1>3. UNCHANGED <<issued, clock>> /\ p.pc = "get" /\ db' = db
  BY <1>1, <1>2, Zenon DEF Check, got
<1>4. RequestOK(r) /\ p \in RequestRow
  BY Zenon DEF CInv, TypeOK
<1>5. CASE got.err = "nil" /\ Matches(got.val, p) /\ req' = [req EXCEPT ![r].pc = "delete"]
  <2> DEFINE q == [p EXCEPT !.pc = "delete"]
  <2>1. /\ q \in RequestRow /\ q.pc = "delete" /\ q.answer = "none"
        /\ q.nonce = p.nonce /\ q.flow = p.flow /\ q.key = p.key /\ q.secret = p.secret
    BY <1>3, <1>4, Zenon DEF RequestRow, RequestOK
  <2>2. Rightful(issued[p.nonce], p)
    BY <1>2, <1>3, <1>4, <1>5, MatchesIsRightful, Zenon DEF RequestOK
  <2>3. Rightful(issued[q.nonce], q)
    BY <2>1, <2>2, Zenon DEF Rightful
  <2>4. req' = [req EXCEPT ![r] = q]
    BY <1>4, <1>5, Zenon DEF CInv, TypeOK
  <2> QED
    BY <1>3, <2>1, <2>3, <2>4, ZenonT(40) DEF Goes, SameInput
<1>6. CASE Return(r, "invalid")
  BY <1>3, <1>6, ReturnIs, Zenon DEF CInv
<1> QED
  BY <1>1, <1>5, <1>6, Zenon DEF got

LEMMA DeleteStepIs ==
  ASSUME CInv, NEW r \in Request, Delete(r)
  PROVE  /\ req[r].pc = "delete" /\ db' \in Db
         /\ db'.challenges = {ch \in db.challenges : ch.nonce # req[r].nonce}
         /\ \E q : /\ Goes(r, q) /\ q.pc = "done"
                   /\ q.answer = IF Stored(q.nonce) THEN "passed" ELSE "invalid"
<1> DEFINE gone == Pg!DeleteChallenge(db, req[r].nonce)
<1>1. /\ gone.store \in Db
      /\ gone.store.challenges = {ch \in db.challenges : ch.nonce # req[r].nonce}
      /\ gone.err = "nil" <=> Stored(req[r].nonce)
  BY DeleteIs, Zenon DEF CInv, TypeOK, Stored
<1> HIDE DEF gone
<1>2. /\ req[r].pc = "delete" /\ db' = gone.store
      /\ Return(r, IF gone.err = "nil" THEN "passed" ELSE "invalid")
      /\ UNCHANGED <<issued, clock>>
  BY Zenon DEF Delete, gone
<1>3. \E q : /\ Goes(r, q) /\ q.pc = "done"
             /\ q.answer = IF gone.err = "nil" THEN "passed" ELSE "invalid"
  BY <1>2, ReturnIs, Zenon DEF CInv
<1> QED
  BY <1>1, <1>2, <1>3, ZenonT(40) DEF Goes, SameInput

LEMMA StoreFailsIs ==
  ASSUME CInv, NEW r \in Request, StoreFails(r)
  PROVE  /\ req[r].pc \in {"get", "delete"} /\ db' \in Db
         /\ \/ db' = db
            \/ req[r].pc = "delete" /\ db'.challenges = {ch \in db.challenges : ch.nonce # req[r].nonce}
         /\ \E q : Goes(r, q) /\ q.pc = "done" /\ q.answer = "error"
<1>1. req[r].pc \in {"get", "delete"} /\ Return(r, "error") /\ UNCHANGED <<issued, clock>>
  BY Zenon DEF StoreFails
<1>2. db' = db \/ (req[r].pc = "delete" /\ db' = Pg!DeleteChallenge(db, req[r].nonce).store)
  BY Zenon DEF StoreFails
<1>3. db \in Db
  BY Zenon DEF CInv, TypeOK
<1> QED
  BY <1>1, <1>2, <1>3, ReturnIs, DeleteIs DEF CInv

\* A request starts with no answer, about a challenge that was issued.
LEMMA CallbackIs ==
  ASSUME CInv, NEW r \in Request, NEW n \in Drawn, NEW k \in OAuthKey,
         NEW b \in Drawn \cup {Nil}, OAuthCallback(r, n, k, b)
  PROVE  CInv' /\ req'[r].answer = "none"
<1> DEFINE q == [NoRequest EXCEPT !.pc = "get", !.flow = "oauth", !.nonce = n,
                                  !.key = k, !.secret = b]
<1>1. n \in Nonce /\ issued[n] # Nil /\ b \in Nonce \cup {Nil}
  BY Zenon DEF Drawn
<1>2. /\ q \in RequestRow /\ q.pc = "get" /\ q.answer = "none" /\ q.nonce = n
      /\ q.flow = "oauth" /\ q.key = k
  BY <1>1, ZenonT(40) DEF NoRequest, RequestRow
<1>3. req[r].pc = "idle" /\ req' = [req EXCEPT ![r] = q] /\ UNCHANGED <<db, issued, clock>>
  BY Zenon DEF OAuthCallback
<1> HIDE DEF q
<1> QED
  BY <1>1, <1>2, <1>3, StartCInv, ZenonT(40) DEF CInv, TypeOK

LEMMA WalletIs ==
  ASSUME CInv, NEW r \in Request, NEW n \in Drawn, NEW k \in WalletKey, NEW signer \in WalletKey,
         NEW m \in Drawn, AuthenticateWallet(r, n, k, <<signer, m>>)
  PROVE  CInv' /\ req'[r].answer = "none"
<1> DEFINE q == [NoRequest EXCEPT !.pc = "get", !.flow = "wallet", !.nonce = n,
                                  !.key = k, !.secret = <<signer, m>>]
<1>1. n \in Nonce /\ issued[n] # Nil /\ m \in Nonce /\ <<signer, m>> \in WalletKey \X Nonce
  BY Zenon DEF Drawn
<1>2. /\ q \in RequestRow /\ q.pc = "get" /\ q.answer = "none" /\ q.nonce = n
      /\ q.flow = "wallet" /\ q.key = k
  BY <1>1, ZenonT(40) DEF NoRequest, RequestRow
<1>3. req[r].pc = "idle" /\ req' = [req EXCEPT ![r] = q] /\ UNCHANGED <<db, issued, clock>>
  BY Zenon DEF AuthenticateWallet
<1> HIDE DEF q
<1> QED
  BY <1>1, <1>2, <1>3, StartCInv, ZenonT(40) DEF CInv, TypeOK

\* Both kinds of challenge have their shape.
LEMMA IssuedIs ==
  ASSUME CInv, NEW n \in Nonce
  PROVE  /\ \A k \in OAuthKey : GetOAuthURL(n, k) => \E row : \E now \in Reading : Shape(n, row) /\ Issue(row, now)
         /\ \A k \in WalletKey : GetChallenge(n, k) => \E row : \E now \in Reading : Shape(n, row) /\ Issue(row, now)
<1>0. \A now \in Reading : now + TTL \in Int
  BY ChallengesAssumption DEF Reading, CInv, TypeOK
<1>1. ASSUME NEW k \in OAuthKey, GetOAuthURL(n, k)
      PROVE  \E row : \E now \in Reading : Shape(n, row) /\ Issue(row, now)
  <2>1. PICK now \in Reading :
          Issue([nonce |-> n, expires |-> now + TTL, message |-> k, wallet |-> Nil, binding |-> n], now)
    BY <1>1, Zenon DEF GetOAuthURL
  <2>2. Shape(n, [nonce |-> n, expires |-> now + TTL, message |-> k, wallet |-> Nil, binding |-> n])
    BY <1>0, Zenon DEF Shape, Challenge
  <2> QED
    BY <2>1, <2>2, Zenon
<1>2. ASSUME NEW k \in WalletKey, GetChallenge(n, k)
      PROVE  \E row : \E now \in Reading : Shape(n, row) /\ Issue(row, now)
  <2>1. PICK now \in Reading :
          Issue([nonce |-> n, expires |-> now + TTL, message |-> n, wallet |-> k, binding |-> Nil], now)
    BY <1>2, Zenon DEF GetChallenge
  <2>2. Shape(n, [nonce |-> n, expires |-> now + TTL, message |-> n, wallet |-> k, binding |-> Nil])
    BY <1>0, Zenon DEF Shape, Challenge
  <2> QED
    BY <2>1, <2>2, Zenon
<1> QED
  BY <1>1, <1>2, Zenon

LEMMA NextCInv == CInv /\ [Next]_vars => CInv'
<1> SUFFICES ASSUME CInv, [Next]_vars PROVE CInv'
  BY Zenon
<1>1. ASSUME NEW n \in Nonce, (\E k \in OAuthKey : GetOAuthURL(n, k)) \/ (\E k \in WalletKey : GetChallenge(n, k))
      PROVE  CInv'
  <2>1. PICK row, now : Shape(n, row) /\ Issue(row, now)
    BY <1>1, IssuedIs, Zenon
  <2> QED
    BY <2>1, IssueCInv, Zenon
<1>2. ASSUME NEW r \in Request, NEW n \in Drawn, NEW k \in OAuthKey, NEW b \in Drawn \cup {Nil},
             OAuthCallback(r, n, k, b)
      PROVE  CInv'
  BY <1>2, CallbackIs, Zenon
<1>3. ASSUME NEW r \in Request, NEW n \in Drawn, NEW k \in WalletKey, NEW signer \in WalletKey,
             NEW m \in Drawn, AuthenticateWallet(r, n, k, <<signer, m>>)
      PROVE  CInv'
  BY <1>3, WalletIs, Zenon
<1>4. ASSUME NEW r \in Request, Check(r) PROVE CInv'
  <2>1. PICK q : /\ Goes(r, q)
                 /\ \/ q.pc = "done" /\ q.answer = "invalid"
                    \/ /\ q.pc = "delete" /\ q.answer = "none"
                       /\ Rightful(issued[q.nonce], q)
    BY <1>4, CheckIs, Zenon
  <2>2. db' = db /\ db \in Db /\ req[r].pc = "get"
    BY <1>4, CheckIs, Zenon DEF CInv, TypeOK
  <2> QED
    BY <2>1, <2>2, GoOnCInv, ZenonT(40) DEF Goes
<1>5. ASSUME NEW r \in Request, Delete(r) PROVE CInv'
  <2>1. /\ req[r].pc = "delete" /\ db' \in Db
        /\ db'.challenges = {ch \in db.challenges : ch.nonce # req[r].nonce}
    BY <1>5, DeleteStepIs, Zenon
  <2>2. PICK q : /\ Goes(r, q) /\ q.pc = "done"
                 /\ q.answer = IF Stored(q.nonce) THEN "passed" ELSE "invalid"
    BY <1>5, DeleteStepIs, Zenon
  <2>3. q.answer = "passed" => Rightful(issued[q.nonce], q)
    BY <2>1, <2>2 DEF CInv, RequestOK, Goes, SameInput, Rightful
  <2>4. q.answer = "passed" => (\A ch \in db'.challenges : ch.nonce # q.nonce) /\ Stored(q.nonce)
    BY <2>1, <2>2, Zenon DEF Goes, SameInput
  <2> QED
    BY <2>1, <2>2, <2>3, <2>4, GoOnCInv, ZenonT(40) DEF Goes
<1>6. ASSUME NEW r \in Request, StoreFails(r) PROVE CInv'
  <2>1. req[r].pc \in {"get", "delete"} /\ db' \in Db /\ db'.challenges \subseteq db.challenges
    BY <1>6, StoreFailsIs, Zenon
  <2>2. PICK q : Goes(r, q) /\ q.pc = "done" /\ q.answer = "error"
    BY <1>6, StoreFailsIs, Zenon
  <2> QED
    BY <2>1, <2>2, GoOnCInv, ZenonT(40) DEF Goes
<1>7. CASE Tick \/ UNCHANGED vars
  <2>1. UNCHANGED <<db, issued, req>> /\ clock' \in Int
    BY <1>7 DEF Tick, vars, CInv, TypeOK
  <2> QED
    BY <2>1, Zenon DEF CInv, TypeOK, RequestOK, Passed, Stored
<1> QED
  BY <1>1, <1>2, <1>3, <1>4, <1>5, <1>6, <1>7, ZenonT(40) DEF Next

LEMMA Invariance == Spec => []CInv
BY InitCInv, NextCInv, PTL DEF Spec

\* A sign-in passes, or is about to, only with what the holder of the challenge
\* would send, and in the flow the challenge was issued for.
THEOREM HolderOnly == Spec => []OnlyTheHolderPasses
<1>1. CInv => OnlyTheHolderPasses
  BY Zenon DEF CInv, RequestOK, OnlyTheHolderPasses
<1> QED
  BY <1>1, Invariance, PTL

\* A challenge leaves the table expired, on the clock of some replica, or for a
\* request of its holder: no other request can burn it.
THEOREM OnlyTheHolderBurns == Spec => NotBurnt
<1> DEFINE Kept == \A ch \in db.challenges \ db'.challenges :
                     \/ ch.expires < clock + Skew
                     \/ \E r \in Request : /\ req[r].nonce = ch.nonce
                                           /\ req'[r] # req[r]
                                           /\ Rightful(ch, req[r])
<1>1. ASSUME CInv, [Next]_vars PROVE Kept
  <2>1. ASSUME NEW n \in Nonce, NEW row, NEW now \in Reading, Shape(n, row), Issue(row, now) PROVE Kept
    <3>1. row \in Challenge /\ row.nonce = n /\ issued[n] = Nil /\ row # Nil
      BY <2>1, ChallengesAssumption, Zenon DEF Issue, Shape
    <3>2. \A ch \in db.challenges : ch \in Challenge /\ ch.nonce # row.nonce
      BY <1>1, <3>1, ChallengesAssumption DEF CInv, TypeOK, Db, Challenge
    <3>3. \A ch \in db.challenges : ch \in db'.challenges \/ Expired(ch, now)
      BY <1>1, <2>1, <3>1, <3>2, SaveIs DEF Issue, CInv, TypeOK
    <3>4. now \in Int /\ now <= clock + Skew /\ clock + Skew \in Int
      BY <1>1, ChallengesAssumption DEF Reading, CInv, TypeOK
    <3>5. \A ch \in db.challenges : ch.expires \in Int
      BY <3>2, Zenon DEF Challenge
    <3> QED
      BY <3>3, <3>4, <3>5 DEF Expired
  <2>2. ASSUME NEW r \in Request, NEW q, Goes(r, q), q.pc = "done", req[r].pc = "delete",
               db'.challenges = {ch \in db.challenges : ch.nonce # req[r].nonce}
        PROVE  Kept
    <3>1. req'[r] # req[r]
      BY <1>1, <2>2, Zenon DEF Goes, CInv, TypeOK
    <3>2. Rightful(issued[req[r].nonce], req[r])
      BY <1>1, <2>2, Zenon DEF CInv, RequestOK
    <3>3. \A ch \in db.challenges \ db'.challenges : ch.nonce = req[r].nonce /\ issued[ch.nonce] = ch
      BY <1>1, <2>2, Zenon DEF CInv
    <3> QED
      BY <3>1, <3>2, <3>3, Zenon
  <2>3. CASE db' = db
    BY <2>3, Zenon
  <2>4. ASSUME NEW r \in Request, Delete(r) PROVE Kept
    BY <1>1, <2>2, <2>4, DeleteStepIs, Zenon
  <2>5. ASSUME NEW r \in Request, StoreFails(r) PROVE Kept
    BY <1>1, <2>2, <2>3, <2>5, StoreFailsIs, Zenon
  <2>6. ASSUME NEW n \in Nonce, (\E k \in OAuthKey : GetOAuthURL(n, k)) \/ (\E k \in WalletKey : GetChallenge(n, k))
        PROVE  Kept
    <3>1. PICK row : \E now \in Reading : Shape(n, row) /\ Issue(row, now)
      BY <1>1, <2>6, IssuedIs, Zenon
    <3> QED
      BY <2>1, <3>1, Zenon
  <2>7. ASSUME NEW r \in Request, Check(r) PROVE db' = db
    BY <1>1, <2>7, CheckIs, Zenon
  <2> QED
    BY <1>1, <2>3, <2>4, <2>5, <2>6, <2>7, ZenonT(40)
       DEF Next, OAuthCallback, AuthenticateWallet, Tick, vars
<1>2. CInv /\ [Next]_vars => [Kept]_vars
  BY <1>1, Zenon
<1> QED
  BY <1>2, Invariance, PTL DEF Spec, NotBurnt

-----------------------------------------------------------------------------
(* The refinement *)

\* The requests that took a challenge.
Takers(n) == {r \in Request : Passed(r) /\ req[r].nonce = n}

\* Where a challenge stands.
Standing == \A n \in Nonce :
  /\ issued[n] = Nil => Ticket(n) = "none"
  /\ Stored(n) => Ticket(n) = "open" /\ issued[n] # Nil /\ Takers(n) = {}
  /\ Takers(n) # {} => Ticket(n) = "taken"
  /\ issued[n] # Nil /\ ~Stored(n) /\ Takers(n) = {} => Ticket(n) = "lapsed"

LEMMA TicketIs == CInv => Standing
<1> SUFFICES ASSUME CInv, NEW n \in Nonce
             PROVE  /\ issued[n] = Nil => Ticket(n) = "none"
                    /\ Stored(n) => Ticket(n) = "open" /\ issued[n] # Nil /\ Takers(n) = {}
                    /\ Takers(n) # {} => Ticket(n) = "taken"
                    /\ issued[n] # Nil /\ ~Stored(n) /\ Takers(n) = {} => Ticket(n) = "lapsed"
  BY Zenon DEF Standing
<1>1. Stored(n) => issued[n] # Nil
  BY ChallengesAssumption, Zenon DEF Stored, CInv, TypeOK, Db
<1>2. \A r \in Request : Passed(r) /\ req[r].nonce = n => ~Stored(n) /\ issued[n] # Nil
  BY Zenon DEF CInv, RequestOK, Passed
<1> QED
  BY <1>1, <1>2, Zenon DEF Ticket, Takers

LEMMA TicketIsPrimed == CInv' => Standing'
BY TicketIs, PTL

\* A challenge whose row, issue and takers stay as they are stands where it stood.
LEMMA SameTicket == ASSUME CInv, CInv', NEW n \in Nonce, (issued[n] = Nil) = (issued'[n] = Nil),
                           Stored(n)' = Stored(n), Takers(n)' = Takers(n)
                    PROVE  Ticket(n)' = Ticket(n)
BY TicketIs, TicketIsPrimed DEF Standing

\* Issuing opens one challenge, and the sweep may lapse others.
LEMMA IssueRefines ==
  ASSUME CInv, CInv', NEW n \in Nonce, NEW row, NEW now, Shape(n, row), Issue(row, now)
  PROVE  Promise!Next
<1> DEFINE S == {m \in Nonce : Stored(m) /\ ~Stored(m)'}
<1>1. /\ issued[n] = Nil
      /\ issued' = [issued EXCEPT ![n] = row]
      /\ req' = req
      /\ row \in Challenge /\ row.nonce = n /\ row # Nil
  BY ChallengesAssumption, Zenon DEF Issue, Shape
<1>2. \A ch \in db.challenges : ch.nonce # n
  BY <1>1, ChallengesAssumption, SMTT(40) DEF CInv, TypeOK, Db, Challenge
<1>3. row \in db'.challenges /\ db'.challenges \subseteq db.challenges \cup {row}
  BY <1>1, <1>2, SaveIs DEF Issue, CInv, TypeOK
<1>4. \A m \in Nonce : Takers(m)' = Takers(m)
  BY <1>1, Zenon DEF Takers, Passed
<1>5. \A m \in Nonce : m # n => issued'[m] = issued[m] /\ (Stored(m)' => Stored(m))
  BY <1>1, <1>3, Zenon DEF Stored, CInv, TypeOK
<1>6. Ticket(n) = "none" /\ Ticket(n)' = "open" /\ n \notin S
  BY <1>1, <1>2, <1>3, TicketIs, TicketIsPrimed, Zenon DEF Standing, Stored
<1>7. \A m \in S : Ticket(m) = "open" /\ Ticket(m)' = "lapsed"
  <2> SUFFICES ASSUME NEW m \in S PROVE Ticket(m) = "open" /\ Ticket(m)' = "lapsed"
    BY Zenon
  <2>1. Ticket(m) = "open" /\ issued[m] # Nil /\ Takers(m) = {}
    BY TicketIs, Zenon DEF Standing
  <2>2. issued'[m] # Nil /\ ~Stored(m)' /\ Takers(m)' = {}
    BY <1>4, <1>5, <1>6, <2>1, Zenon
  <2> QED
    BY <2>1, <2>2, TicketIsPrimed, Zenon DEF Standing
<1>8. \A m \in Nonce : m # n /\ m \notin S => Ticket(m)' = Ticket(m)
  <2> SUFFICES ASSUME NEW m \in Nonce, m # n, m \notin S PROVE Ticket(m)' = Ticket(m)
    BY Zenon
  <2>1. Stored(m)' = Stored(m)
    BY <1>5, Zenon DEF Stored
  <2> QED
    BY <1>4, <1>5, <2>1, SameTicket, Zenon
<1> HIDE DEF S
<1>9. S \in SUBSET Nonce
  BY Zenon DEF S
<1>10. Promise!Open(n, S)
  BY <1>4, <1>6, <1>7, <1>8, <1>9, Zenon DEF Promise!Open, Takers
<1> QED
  BY <1>9, <1>10, Zenon DEF Promise!Next

\* A step that neither stores nor deletes a row, nor lets a request pass.
LEMMA StutterRefines ==
  ASSUME CInv, CInv', UNCHANGED issued, db'.challenges = db.challenges,
         \A r \in Request : \/ req'[r] = req[r]
                            \/ ~Passed(r) /\ ~Passed(r)'
  PROVE  UNCHANGED Promise!vars
<1>1. \A n \in Nonce : Takers(n)' = Takers(n)
  BY Zenon DEF Takers, Passed
<1>2. \A n \in Nonce : Stored(n)' = Stored(n)
  BY Zenon DEF Stored
<1>3. \A n \in Nonce : Ticket(n)' = Ticket(n)
  BY <1>1, <1>2, SameTicket, Zenon
<1> QED
  BY <1>1, <1>3, Zenon DEF Promise!vars, Takers

\* A row is deleted for request r: it takes the challenge, or the challenge lapses.
LEMMA DeleteRefines ==
  ASSUME CInv, CInv', NEW r \in Request, NEW q, Goes(r, q), q.pc = "done",
         req[r].pc \in {"get", "delete"}, Stored(q.nonce),
         db'.challenges = {ch \in db.challenges : ch.nonce # q.nonce}
  PROVE  Promise!Next
<1> DEFINE n == q.nonce
<1>1. n \in Nonce /\ ~Passed(r) /\ req[r].nonce = n /\ issued' = issued /\ issued[n] # Nil
  BY DEF CInv, RequestOK, Passed, Goes, SameInput
<1>2. req'[r] = q /\ \A s \in Request : s # r => req'[s] = req[s]
  BY Zenon DEF Goes, CInv, TypeOK
<1>3. ~Stored(n)' /\ \A m \in Nonce : m # n => Stored(m)' = Stored(m)
  BY Zenon DEF Stored
<1>4. Ticket(n) = "open" /\ Takers(n) = {}
  BY <1>1, TicketIs, Zenon DEF Standing
<1>5. \A m \in Nonce : m # n => Takers(m)' = Takers(m)
  BY <1>1, <1>2, Zenon DEF Takers, Passed
<1>6. \A m \in Nonce : m # n => Ticket(m)' = Ticket(m)
  BY <1>1, <1>3, <1>5, SameTicket, Zenon
<1>7. CASE q.answer = "passed"
  <2>1. Takers(n)' = {r}
    BY <1>2, <1>4, <1>7 DEF Takers, Passed
  <2>2. Ticket(n)' = "taken"
    BY <1>1, <2>1, TicketIsPrimed, Zenon DEF Standing
  <2>3. [m \in Nonce |-> Ticket(m)]' = [[m \in Nonce |-> Ticket(m)] EXCEPT ![n] = "taken"]
    BY <1>1, <1>6, <2>2, ZenonT(40)
  <2>4. [m \in Nonce |-> Takers(m)]' = [[m \in Nonce |-> Takers(m)] EXCEPT ![n] = {r}]
    BY <1>1, <1>5, <2>1, ZenonT(40)
  <2>5. Promise!Take(n, r)
    BY <1>1, <1>4, <2>3, <2>4, Zenon DEF Promise!Take, Takers
  <2> QED
    BY <1>1, <2>5, Zenon DEF Promise!Next
<1>8. CASE q.answer # "passed"
  <2>1. Takers(n)' = {}
    BY <1>2, <1>4, <1>8, Zenon DEF Takers, Passed
  <2>2. Ticket(n)' = "lapsed"
    BY <1>1, <1>3, <2>1, TicketIsPrimed, Zenon DEF Standing
  <2>3. Promise!Lapse({n})
    BY <1>1, <1>4, <1>5, <1>6, <2>1, <2>2 DEF Promise!Lapse, Takers
  <2> QED
    BY <1>1, <2>3, Zenon DEF Promise!Next
<1> QED
  BY <1>7, <1>8, Zenon

LEMMA NextRefines == CInv /\ CInv' /\ [Next]_vars => [Promise!Next]_(Promise!vars)
<1> SUFFICES ASSUME CInv, CInv', [Next]_vars PROVE Promise!Next \/ UNCHANGED Promise!vars
  BY Zenon
<1>1. ASSUME NEW n \in Nonce, (\E k \in OAuthKey : GetOAuthURL(n, k)) \/ (\E k \in WalletKey : GetChallenge(n, k))
      PROVE  Promise!Next
  <2>1. PICK row, now : Shape(n, row) /\ Issue(row, now)
    BY <1>1, IssuedIs, Zenon
  <2> QED
    BY <2>1, IssueRefines, Zenon
<1>2. ASSUME NEW r \in Request, NEW n \in Drawn, NEW k \in OAuthKey, NEW b \in Drawn \cup {Nil},
             OAuthCallback(r, n, k, b)
      PROVE  UNCHANGED Promise!vars
  <2>1. req'[r].answer = "none" /\ req[r].answer = "none"
    BY <1>2, CallbackIs, ZenonT(40) DEF OAuthCallback, CInv, RequestOK
  <2>2. UNCHANGED <<db, issued>> /\ \A s \in Request : s # r => req'[s] = req[s]
    BY <1>2, Zenon DEF OAuthCallback, CInv, TypeOK
  <2> QED
    BY <2>1, <2>2, StutterRefines, Zenon DEF Passed
<1>3. ASSUME NEW r \in Request, NEW n \in Drawn, NEW k \in WalletKey, NEW signer \in WalletKey,
             NEW m \in Drawn, AuthenticateWallet(r, n, k, <<signer, m>>)
      PROVE  UNCHANGED Promise!vars
  <2>1. req'[r].answer = "none" /\ req[r].answer = "none"
    BY <1>3, WalletIs, ZenonT(40) DEF AuthenticateWallet, CInv, RequestOK
  <2>2. UNCHANGED <<db, issued>> /\ \A s \in Request : s # r => req'[s] = req[s]
    BY <1>3, Zenon DEF AuthenticateWallet, CInv, TypeOK
  <2> QED
    BY <2>1, <2>2, StutterRefines, Zenon DEF Passed
<1>4. ASSUME NEW r \in Request, NEW q, Goes(r, q), q.answer # "passed", req[r].pc \in {"get", "delete"},
             db'.challenges = db.challenges
      PROVE  UNCHANGED Promise!vars
  <2>1. /\ UNCHANGED issued /\ req'[r] = q
        /\ \A s \in Request : s # r => req'[s] = req[s]
    BY <1>4, Zenon DEF Goes, CInv, TypeOK
  <2>2. ~Passed(r) /\ ~Passed(r)'
    BY <1>4, <2>1, Zenon DEF CInv, RequestOK, Passed
  <2> QED
    BY <1>4, <2>1, <2>2, StutterRefines, Zenon
<1>5. ASSUME NEW r \in Request, Check(r) PROVE UNCHANGED Promise!vars
  <2>1. PICK q : Goes(r, q) /\ q.answer # "passed"
    BY <1>5, CheckIs, Zenon
  <2>2. db' = db /\ req[r].pc = "get"
    BY <1>5, CheckIs, Zenon
  <2> QED
    BY <1>4, <2>1, <2>2, Zenon
<1>6. ASSUME NEW r \in Request, Delete(r) PROVE Promise!Next \/ UNCHANGED Promise!vars
  <2>1. /\ req[r].pc = "delete"
        /\ db'.challenges = {ch \in db.challenges : ch.nonce # req[r].nonce}
    BY <1>6, DeleteStepIs, Zenon
  <2>2. PICK q : /\ Goes(r, q) /\ q.pc = "done"
                 /\ q.answer = IF Stored(q.nonce) THEN "passed" ELSE "invalid"
    BY <1>6, DeleteStepIs, Zenon
  <2>3. CASE Stored(q.nonce)
    BY <2>1, <2>2, <2>3, DeleteRefines, ZenonT(40) DEF Goes, SameInput
  <2>4. CASE ~Stored(q.nonce)
    <3>1. db'.challenges = db.challenges /\ q.answer # "passed"
      BY <2>1, <2>2, <2>4, Zenon DEF Stored, Goes, SameInput
    <3> QED
      BY <1>4, <2>1, <2>2, <3>1, Zenon
  <2> QED
    BY <2>3, <2>4, Zenon
<1>7. ASSUME NEW r \in Request, StoreFails(r) PROVE Promise!Next \/ UNCHANGED Promise!vars
  <2>1. /\ req[r].pc \in {"get", "delete"}
        /\ \/ db' = db
           \/ db'.challenges = {ch \in db.challenges : ch.nonce # req[r].nonce}
    BY <1>7, StoreFailsIs, Zenon
  <2>2. PICK q : Goes(r, q) /\ q.pc = "done" /\ q.answer = "error"
    BY <1>7, StoreFailsIs, Zenon
  <2>3. CASE db'.challenges = db.challenges
    BY <1>4, <2>1, <2>2, <2>3, Zenon
  <2>4. CASE db'.challenges # db.challenges
    <3>1. db'.challenges = {ch \in db.challenges : ch.nonce # q.nonce} /\ Stored(q.nonce)
      BY <2>1, <2>2, <2>4, ZenonT(40) DEF Stored, Goes, SameInput
    <3> QED
      BY <2>1, <2>2, <3>1, DeleteRefines, Zenon
  <2> QED
    BY <2>3, <2>4, Zenon
<1>8. CASE Tick \/ UNCHANGED vars
  BY <1>8, StutterRefines, Zenon DEF Tick, vars
<1> QED
  BY <1>1, <1>2, <1>3, <1>5, <1>6, <1>7, <1>8, ZenonT(40) DEF Next

\* The challenges implement the one-shot ticket of OneShot: of all the requests
\* that present a state or a signed nonce, at most one gets past the delete.
THEOREM ChallengesAreOneShot == Spec => SingleUse
<1>1. Init => Promise!Init
  <2> SUFFICES ASSUME Init PROVE Promise!Init
    BY Zenon
  <2>1. CInv
    BY InitCInv, Zenon
  <2>2. \A n \in Nonce : issued[n] = Nil /\ Takers(n) = {}
    BY Zenon DEF Init, Takers, Passed, NoRequest
  <2>3. \A n \in Nonce : Ticket(n) = "none"
    BY <2>1, <2>2, TicketIs, Zenon DEF Standing
  <2> QED
    BY <2>2, <2>3, Zenon DEF Promise!Init, Takers
<1> QED
  BY <1>1, Invariance, NextRefines, PTL DEF Spec, SingleUse, Promise!Spec
=============================================================================
