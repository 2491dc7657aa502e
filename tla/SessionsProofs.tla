--------------------------- MODULE SessionsProofs ---------------------------
(***************************************************************************)
(* Proofs about Sessions, for every set of users, hashes and requests and  *)
(* every leeway, lifetime, skew and clock bound.  The argument: no step    *)
(* takes the table back (Onward), so what a request in flight read, and    *)
(* what a finished one answered, stays true (RequestKept); each step then  *)
(* only has to be right about the one request that takes it.  Then what a  *)
(* step may never do, strict rotation, and that a session that goes on     *)
(* keeps its client.                                                       *)
(***************************************************************************)
EXTENDS Sessions, TokenStoreProofs

\* What every step does to the state that requests rely on: hashes are never
\* forgotten, a token issued before keeps its identity and its end, and is
\* removed only with its user.
Onward ==
  /\ issued \subseteq issued'
  /\ clock <= clock'
  /\ users' \subseteq users
  /\ \A h \in issued : Stored(tokens', h) =>
       /\ Stored(tokens, h)
       /\ tokens'[h].user = tokens[h].user
       /\ tokens'[h].parent = tokens[h].parent
       /\ tokens'[h].expiresAt = tokens[h].expiresAt
       /\ tokens[h].ended => tokens'[h].ended
  /\ \A h \in issued : Stored(tokens, h) /\ tokens[h].user \in users' => Stored(tokens', h)

LEMMA FamilyRootSame ==
  ASSUME NEW h, NEW s, NEW t, s.parent = t.parent
  PROVE  familyRoot(h, s) = familyRoot(h, t)
BY Zenon DEF familyRoot

LEMMA ReadKept ==
  ASSUME TypeOK, TypeOK', Onward, NEW q, q.hash \in issued, ReadOK(q)
  PROVE  ReadOK(q)'
<1>1. q.user \in User /\ q.root \in issued /\ q.root \in issued'
  BY Zenon DEF ReadOK, Onward
<1>2. q.user \in users' => Stored(tokens', q.hash)
  BY Zenon DEF ReadOK, Onward
<1>3. Stored(tokens', q.hash) => /\ tokens'[q.hash].user = q.user
                                 /\ familyRoot(q.hash, tokens'[q.hash]) = q.root
  BY FamilyRootSame DEF ReadOK, Onward
<1>4. Stored(tokens', q.root) => /\ tokens'[q.root].user = q.user
                                 /\ tokens'[q.root].parent = NoHash
  BY <1>1, Zenon DEF ReadOK, Onward
<1> QED
  BY <1>1, <1>2, <1>3, <1>4, Zenon DEF ReadOK

LEMMA DeadKept ==
  ASSUME TypeOK, TypeOK', Onward, NEW h \in issued, Dead(h)
  PROVE  Dead(h)'
<1>1. clock \in Int /\ clock' \in Int /\ Skew \in Int
  BY SessionsAssumption DEF TypeOK
<1>2. CASE ~Stored(tokens', h)
  BY <1>2, Zenon DEF Dead
<1>3. CASE Stored(tokens', h)
  <2>1. /\ Stored(tokens, h)
        /\ tokens'[h].expiresAt = tokens[h].expiresAt
        /\ tokens[h].ended => tokens'[h].ended
        /\ clock <= clock'
    BY <1>3, Zenon DEF Onward
  <2>2. tokens[h].expiresAt \in Int
    BY <2>1, StoredType, Zenon DEF TypeOK, Token
  <2> QED
    BY <1>1, <2>1, <2>2 DEF Dead
<1> QED
  BY <1>2, <1>3, Zenon

LEMMA RequestKept ==
  ASSUME TypeOK, TypeOK', Onward, NEW q, RequestOK(q)
  PROVE  RequestOK(q)'
<1>1. q.op \in {"Refresh", "Logout"} => q.hash \in issued /\ q.hash \in issued'
  BY Zenon DEF RequestOK, Onward
<1>2. q.op \in {"Refresh", "Logout"} /\ ReadOK(q) => ReadOK(q)'
  BY <1>1, ReadKept, Zenon
<1>3. q.pc = "rotate" => q.op = "Refresh" /\ q.at \in Int /\ q.at <= clock' + Skew
  BY SessionsAssumption DEF RequestOK, Onward, TypeOK
<1>4. q.answer = "rejected" => q.op = "Refresh" /\ Dead(q.hash)'
  BY <1>1, DeadKept, Zenon DEF RequestOK
<1>5. q.op = "Logout" /\ q.answer = "ok" => ~Stored(tokens', q.hash) \/ tokens'[q.hash].ended
  BY <1>1, Zenon DEF RequestOK, Onward
<1> QED
  BY <1>1, <1>2, <1>3, <1>4, <1>5, Zenon DEF RequestOK

\* A step of one request: it is enough that the step moves onward, keeps the
\* table in order and leaves that request right about its token.
LEMMA RequestStep ==
  ASSUME IInv, Onward, clock' \in 0..MaxClock, users' \subseteq User,
         tokens' \in Table, issued' \subseteq Hash, delivered' \subseteq issued',
         WholeFamilies(tokens', users'), EndsAsOne(tokens'),
         \A h \in Hash : Stored(tokens', h) => h \in issued',
         NEW r \in Request, NEW q \in Local, req' = [req EXCEPT ![r] = q],
         TypeOK' => RequestOK(q)'
  PROVE  IInv'
<1>1. TypeOK'
  BY Zenon DEF IInv, TypeOK
<1>2. \A s \in Request : RequestOK(req[s])'
  <2>1. SUFFICES ASSUME NEW s \in Request PROVE RequestOK(req[s])'
    BY ZenonT(60)
  <2>2. CASE s = r
    <3>1. req'[s] = q
      BY <2>2, Zenon DEF IInv, TypeOK
    <3>2. RequestOK(q)'
      BY <1>1, Zenon
    <3> QED
      BY <3>1, <3>2, Zenon DEF RequestOK, ReadOK, Dead
  <2>3. CASE s # r
    <3>1. req'[s] = req[s] /\ RequestOK(req[s])
      BY <2>3, Zenon DEF IInv, TypeOK
    <3> DEFINE p == req[s]
    <3>2. ASSUME NEW x, x = p PROVE RequestOK(x)'
      BY <1>1, <3>1, <3>2, RequestKept, Zenon DEF IInv
    <3> QED
      BY <3>1, <3>2, Zenon DEF RequestOK, ReadOK, Dead
  <2> QED
    BY <2>2, <2>3, Zenon
<1> QED
  BY <1>1, <1>2, Zenon DEF IInv, FamiliesWhole

\* A step that changes nothing but the request.
LEMMA LocalStep ==
  ASSUME IInv, UNCHANGED <<clock, users, tokens, issued, delivered>>,
         NEW r \in Request, NEW q \in Local, req' = [req EXCEPT ![r] = q], RequestOK(q)
  PROVE  IInv'
<1>1. Onward
  BY DEF Onward, IInv, TypeOK
<1>2. TypeOK' => RequestOK(q)'
  BY <1>1, RequestKept, Zenon DEF IInv
<1> QED
  BY <1>1, <1>2, RequestStep, Zenon DEF IInv, TypeOK, FamiliesWhole

LEMMA ReturnLocal ==
  ASSUME TypeOK, NEW r \in Request, NEW a \in Answer, Return(r, a)
  PROVE  \E q \in Local : /\ req' = [req EXCEPT ![r] = q]
                          /\ q.op = req[r].op /\ q.hash = req[r].hash
                          /\ q.pc = "done" /\ q.answer = a
<1> DEFINE q == [Idle EXCEPT !.op = req[r].op, !.hash = req[r].hash, !.pc = "done", !.answer = a]
<1>1. req[r] \in Local
  BY Zenon DEF TypeOK
<1>2. /\ q \in Local
      /\ q.op = req[r].op /\ q.hash = req[r].hash /\ q.pc = "done" /\ q.answer = a
  BY <1>1, ZenonT(60) DEF Local, Idle, PC
<1> QED
  BY <1>2, Zenon DEF Return

\* A step that only answers: the answer has to be true.
LEMMA AnswerStep ==
  ASSUME IInv, UNCHANGED <<clock, users, tokens, issued, delivered>>,
         NEW r \in Request, NEW a \in Answer, Return(r, a),
         a = "rejected" => req[r].op = "Refresh" /\ Dead(req[r].hash),
         a = "internal" => req[r].op = "Login",
         a = "ok" => ~Stored(tokens, req[r].hash)
  PROVE  IInv'
<1>1. PICK q \in Local : /\ req' = [req EXCEPT ![r] = q]
                         /\ q.op = req[r].op /\ q.hash = req[r].hash
                         /\ q.pc = "done" /\ q.answer = a
  BY ReturnLocal, Zenon DEF IInv
<1>2. RequestOK(req[r])
  BY Zenon DEF IInv
<1>3. RequestOK(q)
  BY <1>1, <1>2, Zenon DEF RequestOK
<1> QED
  BY <1>1, <1>3, LocalStep, Zenon

\* A request that has just read its token is right about it.
LEMMA FreshRead ==
  ASSUME IInv, NEW q, q.hash \in issued, Stored(tokens, q.hash),
         q.user = tokens[q.hash].user, q.root = familyRoot(q.hash, tokens[q.hash])
  PROVE  ReadOK(q)
<1>1. q.hash \in Hash /\ tokens \in Table
  BY Zenon DEF IInv, TypeOK
<1>2. tokens[q.hash] \in Token
  BY <1>1, StoredType, Zenon
<1>3. CASE tokens[q.hash].parent = NoHash
  BY <1>1, <1>2, <1>3, Zenon DEF ReadOK, familyRoot, Token
<1>4. CASE tokens[q.hash].parent # NoHash
  <2>1. /\ q.root = tokens[q.hash].parent
        /\ q.root \in Hash
    BY <1>2, <1>4, Zenon DEF familyRoot, Token
  <2>2. /\ Stored(tokens, q.root)
        /\ tokens[q.root].parent = NoHash
        /\ tokens[q.root].user = q.user
    BY <1>1, <1>4, <2>1, Zenon DEF IInv, FamiliesWhole, WholeFamilies
  <2> QED
    BY <1>2, <2>1, <2>2, Zenon DEF ReadOK, IInv, Token
<1> QED
  BY <1>3, <1>4, Zenon

\* The sessions whose root is gone or ended have no token that goes on.
LEMMA RefusedIsDead ==
  ASSUME IInv, NEW q, q.hash \in issued, ReadOK(q),
         ~Stored(tokens, q.root) \/ tokens[q.root].ended
  PROVE  Dead(q.hash)
<1>1. SUFFICES ASSUME Stored(tokens, q.hash) PROVE tokens[q.hash].ended
  BY Zenon DEF Dead
<1>2. q.hash \in Hash /\ familyRoot(q.hash, tokens[q.hash]) = q.root
  BY <1>1, Zenon DEF IInv, TypeOK, ReadOK
<1>3. CASE tokens[q.hash].parent = NoHash
  BY <1>1, <1>2, <1>3, Zenon DEF familyRoot
<1>4. CASE tokens[q.hash].parent # NoHash
  BY <1>1, <1>2, <1>4, Zenon DEF familyRoot, IInv, FamiliesWhole, WholeFamilies, EndsAsOne
<1> QED
  BY <1>3, <1>4, Zenon

-----------------------------------------------------------------------------
(* One lemma per action *)

LEMMA LoginStep ==
  ASSUME IInv, NEW r \in Request, NEW u \in User, Login(r, u)
  PROVE  IInv'
<1>1. PICK q : q = [Idle EXCEPT !.op = "Login", !.pc = "getUser", !.user = u]
  BY Zenon
<1>2. q \in Local /\ q.op = "Login" /\ q.pc = "getUser" /\ q.user = u
      /\ q.root = NoHash /\ q.answer = "none"
  BY <1>1, Zenon DEF Local, Idle, PC, Answer
<1>3. RequestOK(q)
  BY <1>2, Zenon DEF RequestOK
<1> QED
  BY <1>1, <1>2, <1>3, LocalStep, Zenon DEF Login

LEMMA RefreshStep ==
  ASSUME IInv, NEW r \in Request, NEW h \in Hash, Refresh(r, h)
  PROVE  IInv'
<1>1. PICK now \in Reading :
        req' = [req EXCEPT ![r] = [Idle EXCEPT !.op = "Refresh", !.pc = "rotate",
                                               !.hash = h, !.at = now]]
  BY Zenon DEF Refresh
<1>2. PICK q : q = [Idle EXCEPT !.op = "Refresh", !.pc = "rotate", !.hash = h, !.at = now]
  BY Zenon
<1>3. now \in Int /\ now <= clock + Skew
  BY SessionsAssumption DEF Reading, IInv, TypeOK
<1>4. q \in Local /\ q.op = "Refresh" /\ q.pc = "rotate" /\ q.hash = h /\ q.at = now
      /\ q.answer = "none"
  BY <1>2, <1>3, Zenon DEF Local, Idle, PC, Answer
<1>5. h \in issued
  BY Zenon DEF Refresh, IInv, TypeOK
<1>6. RequestOK(q)
  BY <1>3, <1>4, <1>5, Zenon DEF RequestOK
<1> QED
  BY <1>1, <1>2, <1>4, <1>6, LocalStep, Zenon DEF Refresh

LEMMA LogoutStep ==
  ASSUME IInv, NEW r \in Request, NEW h \in Hash, Logout(r, h)
  PROVE  IInv'
<1>1. PICK q : q = [Idle EXCEPT !.op = "Logout", !.pc = "lookup", !.hash = h]
  BY Zenon
<1>2. q \in Local /\ q.op = "Logout" /\ q.pc = "lookup" /\ q.hash = h /\ q.answer = "none"
  BY <1>1, ZenonT(60) DEF Local, Idle, PC, Answer
<1>3. h \in issued
  BY Zenon DEF Logout, IInv, TypeOK
<1>4. RequestOK(q)
  BY <1>2, <1>3, Zenon DEF RequestOK
<1> QED
  BY <1>1, <1>2, <1>4, LocalStep, Zenon DEF Logout

LEMMA RotateRefusedStep ==
  ASSUME IInv, NEW r \in Request, RotateRefused(r)
  PROVE  IInv'
<1>1. /\ req[r].op = "Refresh" /\ req[r].hash \in issued
      /\ req[r].at \in Int /\ req[r].at <= clock + Skew
  BY Zenon DEF RotateRefused, IInv, RequestOK
<1>2. Dead(req[r].hash)
  <2>1. CASE ~Stored(tokens, req[r].hash)
    BY <2>1, Zenon DEF Dead
  <2>2. CASE IsExpired(tokens, req[r].hash, req[r].at)
    <3>1. tokens[req[r].hash] \in Token
      BY <1>1, <2>2, StoredType, Zenon DEF IsExpired, IInv, TypeOK
    <3>2. tokens[req[r].hash].expiresAt \in Int /\ clock \in Int /\ Skew \in Int
      BY <3>1, SessionsAssumption DEF Token, IInv, TypeOK
    <3> QED
      BY <1>1, <2>2, <3>2 DEF Dead, IsExpired
  <2> QED
    BY <2>1, <2>2, Zenon DEF RotateRefused
<1> QED
  BY <1>1, <1>2, AnswerStep, Zenon DEF RotateRefused, Answer

LEMMA ReplayStep ==
  ASSUME IInv, NEW r \in Request, Replay(r)
  PROVE  IInv'
<1> DEFINE h == req[r].hash
           pc == IF NearRotation(tokens[h], req[r].at) THEN "family" ELSE "revoke"
<1>1. /\ req[r] \in Local /\ RequestOK(req[r]) /\ req[r].answer = "none"
      /\ req[r].op = "Refresh" /\ h \in issued /\ h \in Hash
      /\ Stored(tokens, h) /\ tokens \in Table
  BY Zenon DEF Replay, IsRevoked, IInv, TypeOK, RequestOK
<1>2. tokens[h] \in Token
  BY <1>1, StoredType, Zenon
<1>3. tokens[h].user \in User /\ tokens[h].rotatedAt \in Int \cup {NoTime}
      /\ familyRoot(h, tokens[h]) \in Hash \cup {NoHash}
  BY <1>1, <1>2, Zenon DEF familyRoot, Token
<1>4. PICK q : q = [req[r] EXCEPT !.pc = pc, !.at = NoTime, !.user = tokens[h].user,
                                  !.root = familyRoot(h, tokens[h]),
                                  !.rotatedAt = tokens[h].rotatedAt]
  BY Zenon
<1>5. /\ q \in Local /\ q.op = req[r].op /\ q.hash = h /\ q.answer = "none"
      /\ q.pc \in {"family", "revoke"}
      /\ q.user = tokens[h].user /\ q.root = familyRoot(h, tokens[h])
  BY <1>1, <1>3, <1>4, ZenonT(60) DEF Local, PC
<1>6. ReadOK(q)
  BY <1>1, <1>5, FreshRead, Zenon
<1>7. RequestOK(q)
  BY <1>1, <1>5, <1>6, Zenon DEF RequestOK
<1>8. req' = [req EXCEPT ![r] = q]
  BY <1>4, Zenon DEF Replay, IInv, TypeOK
<1> QED
  BY <1>5, <1>7, <1>8, LocalStep, Zenon DEF Replay

LEMMA FamilyCheckStep ==
  ASSUME IInv, NEW r \in Request, FamilyCheck(r)
  PROVE  IInv'
<1> DEFINE latest == IsLatestRotation(tokens, req[r].root, req[r].rotatedAt)
<1>1. /\ req[r] \in Local /\ RequestOK(req[r]) /\ req[r].answer = "none"
      /\ req[r].op = "Refresh" /\ ReadOK(req[r])
  BY Zenon DEF FamilyCheck, IInv, TypeOK, RequestOK
<1>2. PICK q : q = IF latest THEN [req[r] EXCEPT !.pc = "getUser", !.dup = TRUE]
                             ELSE [req[r] EXCEPT !.pc = "revoke"]
  BY Zenon
<1>3. /\ q \in Local /\ q.op = req[r].op /\ q.hash = req[r].hash /\ q.answer = "none"
      /\ q.pc \in {"getUser", "revoke"}
      /\ q.user = req[r].user /\ q.root = req[r].root
  BY <1>1, <1>2, ZenonT(60) DEF Local, PC
<1>4. ReadOK(q)
  BY <1>1, <1>3, Zenon DEF ReadOK
<1>5. RequestOK(q)
  BY <1>1, <1>3, <1>4, Zenon DEF RequestOK
<1>6. req' = [req EXCEPT ![r] = q]
  BY <1>2, Zenon DEF FamilyCheck, IInv, TypeOK
<1> QED
  BY <1>3, <1>5, <1>6, LocalStep, Zenon DEF FamilyCheck

LEMMA GetUserStep ==
  ASSUME IInv, NEW r \in Request, GetUser(r)
  PROVE  IInv'
<1>1. /\ req[r] \in Local /\ RequestOK(req[r]) /\ req[r].answer = "none"
      /\ \/ req[r].op = "Refresh" /\ req[r].hash \in issued /\ ReadOK(req[r])
         \/ req[r].op = "Login" /\ req[r].user \in User /\ req[r].root = NoHash
  BY Zenon DEF GetUser, IInv, TypeOK, RequestOK
<1>2. CASE req[r].user \in users
  <2>1. PICK q : q = [req[r] EXCEPT !.pc = "save"]
    BY ZenonT(60)
  <2>2. /\ q \in Local /\ q.op = req[r].op /\ q.hash = req[r].hash /\ q.answer = "none"
        /\ q.pc = "save" /\ q.user = req[r].user /\ q.root = req[r].root
    BY <1>1, <2>1, Zenon DEF Local, PC
  <2>3. ReadOK(req[r]) => ReadOK(q)
    BY <2>2, ZenonT(60) DEF ReadOK
  <2>4. RequestOK(q)
    BY <1>1, <2>2, <2>3, Zenon DEF RequestOK
  <2>5. req' = [req EXCEPT ![r] = q]
    BY <1>2, <2>1, Zenon DEF GetUser, IInv, TypeOK
  <2> QED
    BY <2>2, <2>4, <2>5, LocalStep, Zenon DEF GetUser
<1>3. CASE req[r].user \notin users
  <2>1. req[r].op = "Refresh" => Dead(req[r].hash)
    BY <1>1, <1>3, Zenon DEF Dead, ReadOK, IInv, TypeOK, FamiliesWhole, WholeFamilies
  <2>2. CASE req[r].op = "Refresh"
    BY <1>3, <2>1, <2>2, AnswerStep, Zenon DEF GetUser, Answer
  <2>3. CASE req[r].op = "Login"
    BY <1>3, <2>3, AnswerStep, Zenon DEF GetUser, Answer
  <2> QED
    BY <1>1, <2>2, <2>3, ZenonT(60)
<1> QED
  BY <1>2, <1>3, Zenon

LEMMA IssueRefusedStep ==
  ASSUME IInv, NEW r \in Request, IssueRefused(r)
  PROVE  IInv'
<1>1. req[r].op = "Refresh" /\ req[r].hash \in issued /\ ReadOK(req[r])
  BY Zenon DEF IssueRefused, MayJoin, IInv, RequestOK
<1>2. Dead(req[r].hash)
  <2>1. ~Stored(tokens, req[r].root) \/ tokens[req[r].root].ended
    BY Zenon DEF IssueRefused, MayJoin
  <2> QED
    BY <1>1, <2>1, RefusedIsDead, Zenon
<1> QED
  BY <1>1, <1>2, AnswerStep, ZenonT(60) DEF IssueRefused, Answer

LEMMA IssueUserMissingStep ==
  ASSUME IInv, NEW r \in Request, IssueUserMissing(r)
  PROVE  IInv'
<1>1. ASSUME req[r].op = "Refresh" PROVE FALSE
  <2>1. ReadOK(req[r]) /\ req[r].root \in Hash /\ req[r].root # NoHash
    BY <1>1, StoreAssumption, ZenonT(60) DEF IssueUserMissing, IInv, TypeOK, RequestOK, ReadOK
  <2>2. Stored(tokens, req[r].root) /\ tokens[req[r].root].user = req[r].user
    BY <2>1, ZenonT(60) DEF IssueUserMissing, MayJoin, ReadOK
  <2> QED
    BY <2>1, <2>2, Zenon DEF IssueUserMissing, IInv, FamiliesWhole, WholeFamilies
<1>2. req[r].op = "Login"
  BY <1>1, Zenon DEF IssueUserMissing, IInv, RequestOK
<1> QED
  BY <1>2, AnswerStep, Zenon DEF IssueUserMissing, Answer

LEMMA LogoutLookupStep ==
  ASSUME IInv, NEW r \in Request, LogoutLookup(r)
  PROVE  IInv'
<1> DEFINE h == req[r].hash
<1>1. /\ req[r] \in Local /\ RequestOK(req[r]) /\ req[r].answer = "none"
      /\ req[r].op = "Logout" /\ h \in issued /\ h \in Hash /\ tokens \in Table
  BY Zenon DEF LogoutLookup, IInv, TypeOK, RequestOK
<1>2. CASE Stored(tokens, h)
  <2>1. tokens[h] \in Token
    BY <1>1, <1>2, StoredType, Zenon
  <2>2. tokens[h].user \in User /\ familyRoot(h, tokens[h]) \in Hash \cup {NoHash}
    BY <1>1, <2>1, Zenon DEF familyRoot, Token
  <2>3. PICK q : q = [req[r] EXCEPT !.pc = "end", !.user = tokens[h].user,
                                    !.root = familyRoot(h, tokens[h])]
    BY Zenon
  <2>4. /\ q \in Local /\ q.op = req[r].op /\ q.hash = h /\ q.answer = "none"
        /\ q.pc = "end" /\ q.user = tokens[h].user /\ q.root = familyRoot(h, tokens[h])
    BY <1>1, <2>2, <2>3, ZenonT(40) DEF Local, PC
  <2>5. ReadOK(q)
    BY <1>1, <1>2, <2>4, FreshRead, ZenonT(60)
  <2>6. RequestOK(q)
    BY <1>1, <2>4, <2>5, Zenon DEF RequestOK
  <2>7. req' = [req EXCEPT ![r] = q]
    BY <1>2, <2>3, Zenon DEF LogoutLookup, IInv, TypeOK
  <2> QED
    BY <2>4, <2>6, <2>7, LocalStep, Zenon DEF LogoutLookup
<1>3. CASE ~Stored(tokens, h)
  BY <1>3, AnswerStep, Zenon DEF LogoutLookup, Answer
<1> QED
  BY <1>2, <1>3, Zenon

LEMMA FailStep ==
  ASSUME IInv, NEW r \in Request, Fail(r)
  PROVE  IInv'
BY AnswerStep, Zenon DEF Fail, Answer

LEMMA RotateTable ==
  ASSUME IInv, NEW r \in Request, Rotate(r)
  PROVE  /\ req[r].op = "Refresh" /\ req[r].hash \in issued /\ req[r].hash \in Hash
         /\ Stored(tokens, req[r].hash) /\ ~tokens[req[r].hash].revoked
         /\ req[r].at \in Int
         /\ Rotation(tokens, req[r].hash, req[r].at, tokens')
<1>1. /\ req[r].op = "Refresh" /\ req[r].hash \in issued /\ req[r].hash \in Hash
      /\ Stored(tokens, req[r].hash) /\ ~tokens[req[r].hash].revoked
      /\ req[r].at \in Int /\ tokens \in Table
  BY Zenon DEF Rotate, CanRotate, IInv, TypeOK, RequestOK
<1> QED
  BY <1>1, RotateEffect, Zenon DEF Rotate

LEMMA RotateStep ==
  ASSUME IInv, NEW r \in Request, Rotate(r)
  PROVE  IInv'
<1> DEFINE h == req[r].hash
<1>1. /\ req[r] \in Local /\ RequestOK(req[r]) /\ req[r].answer = "none"
      /\ req[r].op = "Refresh" /\ h \in issued /\ h \in Hash
      /\ Stored(tokens, h) /\ tokens \in Table /\ req[r].at \in Int
  BY Zenon DEF Rotate, CanRotate, IInv, TypeOK, RequestOK
<1>2. Rotation(tokens, h, req[r].at, tokens')
  BY RotateTable, Zenon
<1>3. WholeFamilies(tokens', users) /\ EndsAsOne(tokens')
  BY <1>1, <1>2, RotateKeeps, ZenonT(60) DEF IInv, FamiliesWhole
<1>4. Onward
  BY <1>2 DEF Onward, Rotation, Rotate, IInv, TypeOK
<1>5. PICK q : q = [req[r] EXCEPT !.pc = "getUser", !.at = NoTime, !.user = tokens[h].user,
                                  !.root = familyRoot(h, tokens[h]), !.rotatedAt = req[r].at]
  BY Zenon
<1>6. /\ q \in Local /\ q.op = req[r].op /\ q.hash = h /\ q.answer = "none"
      /\ q.pc = "getUser" /\ q.user = tokens[h].user /\ q.root = familyRoot(h, tokens[h])
  <2>1. tokens[h] \in Token
    BY <1>1, StoredType, Zenon
  <2>2. tokens[h].user \in User /\ familyRoot(h, tokens[h]) \in Hash \cup {NoHash}
    BY <1>1, <2>1, Zenon DEF familyRoot, Token
  <2> QED
    BY <1>1, <1>5, <2>2, Zenon DEF Local, PC
<1>7. ReadOK(q)
  BY <1>1, <1>6, FreshRead, ZenonT(60)
<1>8. RequestOK(q)
  BY <1>1, <1>6, <1>7, Zenon DEF RequestOK
<1>9. TypeOK' => RequestOK(q)'
  BY <1>4, <1>8, RequestKept, Zenon DEF IInv
<1>10. req' = [req EXCEPT ![r] = q]
  BY <1>5, Zenon DEF Rotate, IInv, TypeOK
<1>11. tokens' \in Table /\ \A g \in Hash : Stored(tokens', g) => g \in issued'
  BY <1>2, Zenon DEF Rotation, Rotate, IInv
<1> QED
  BY <1>3, <1>4, <1>6, <1>9, <1>10, <1>11, RequestStep, ZenonT(60) DEF Rotate, IInv, TypeOK

LEMMA RevokeTable ==
  ASSUME IInv, NEW q, q.op \in {"Refresh", "Logout"}, RequestOK(q), ReadOK(q),
         tokens' = RevokeTokens(tokens, q.root)
  PROVE  /\ q.root \in Hash /\ IsRoot(tokens, q.root)
         /\ q.hash \in issued /\ q.hash \in Hash
         /\ Revocation(tokens, q.root, tokens')
<1>1. /\ tokens \in Table /\ q.root \in Hash /\ IsRoot(tokens, q.root)
      /\ q.hash \in issued /\ q.hash \in Hash
  BY Zenon DEF IInv, TypeOK, ReadOK, IsRoot, RequestOK
<1> QED
  BY <1>1, RevokeEffect, Zenon

\* RevokeTokens, by reuse detection or by a logout.
LEMMA RevocationStep ==
  ASSUME IInv, NEW r \in Request, NEW a \in {"ok", "rejected", "error"},
         req[r].op \in {"Refresh", "Logout"}, ReadOK(req[r]),
         a = "rejected" => req[r].op = "Refresh",
         tokens' = RevokeTokens(tokens, req[r].root), Return(r, a),
         UNCHANGED <<clock, users, issued, delivered>>
  PROVE  IInv'
<1> DEFINE f == req[r].root
<1>1. /\ tokens \in Table /\ f \in Hash /\ IsRoot(tokens, f)
      /\ RequestOK(req[r]) /\ req[r].hash \in issued /\ req[r].hash \in Hash
  BY ZenonT(60) DEF IInv, TypeOK, ReadOK, IsRoot, RequestOK
<1>2. Revocation(tokens, f, tokens')
  BY <1>1, RevokeEffect, Zenon
<1>3. WholeFamilies(tokens', users) /\ EndsAsOne(tokens')
  <2>1. WholeFamilies(tokens, users) /\ EndsAsOne(tokens)
    BY Zenon DEF IInv, FamiliesWhole
  <2> HIDE DEF f
  <2> QED
    BY <1>1, <1>2, <2>1, RevokeKeeps, ZenonT(60)
<1>4. Onward
  <2>1. \A g \in Hash : tokens[g].ended => tokens'[g].ended
    BY <1>2, Zenon DEF Revocation
  <2> QED
    BY <1>2, <2>1 DEF Onward, Revocation, IInv, TypeOK
<1>5. PICK q \in Local : /\ req' = [req EXCEPT ![r] = q]
                         /\ q.op = req[r].op /\ q.hash = req[r].hash
                         /\ q.pc = "done" /\ q.answer = a
  BY ReturnLocal DEF IInv, Answer
<1>6. Stored(tokens', q.hash) => tokens'[q.hash].ended
  <2>1. Stored(tokens, q.hash) => Member(tokens, f, q.hash)
    BY <1>1, <1>5, Zenon DEF ReadOK, familyRoot, Member
  <2> QED
    BY <1>1, <1>2, <1>5, <2>1, Zenon DEF Revocation
<1>7. RequestOK(q)'
  <2>1. q.answer = "rejected" => q.op = "Refresh" /\ Dead(q.hash)'
    BY <1>5, <1>6, Zenon DEF Dead
  <2> QED
    BY <1>1, <1>5, <1>6, <2>1, Zenon DEF RequestOK
<1>8. tokens' \in Table /\ \A g \in Hash : Stored(tokens', g) => g \in issued'
  BY <1>2, Zenon DEF Revocation, IInv
<1> QED
  BY <1>3, <1>4, <1>5, <1>7, <1>8, RequestStep, Zenon DEF IInv, TypeOK

LEMMA RevokeReusedFamilyStep ==
  ASSUME IInv, NEW r \in Request, RevokeReusedFamily(r)
  PROVE  IInv'
<1>1. req[r].op = "Refresh" /\ ReadOK(req[r])
  BY Zenon DEF RevokeReusedFamily, IInv, RequestOK
<1>2. CASE tokens' = RevokeTokens(tokens, req[r].root) /\ Return(r, "rejected")
  BY <1>1, <1>2, RevocationStep, Zenon DEF RevokeReusedFamily
<1>3. CASE UNCHANGED tokens /\ Return(r, "survived")
  BY <1>3, AnswerStep, Zenon DEF RevokeReusedFamily, Answer
<1> QED
  BY <1>2, <1>3, Zenon DEF RevokeReusedFamily

LEMMA LogoutEndStep ==
  ASSUME IInv, NEW r \in Request, LogoutEnd(r)
  PROVE  IInv'
<1>1. req[r].op = "Logout" /\ ReadOK(req[r])
  BY Zenon DEF LogoutEnd, IInv, RequestOK
<1>2. PICK a \in {"ok", "error"} : Return(r, a)
  BY Zenon DEF LogoutEnd
<1> QED
  BY <1>1, <1>2, RevocationStep, ZenonT(60) DEF LogoutEnd

\* The new token is no request's: its hash was never issued before.
LEMMA IssueTable ==
  ASSUME IInv, NEW r \in Request, IssueTokens(r)
  PROVE  \E h \in Hash \ issued, e \in Int :
           /\ Addition(tokens, h, req[r].user, req[r].root, e, tokens')
           /\ ~Stored(tokens, h)
           /\ issued' = issued \cup {h}
           /\ \/ delivered' = delivered \cup {h} /\ Return(r, "ok")
              \/ delivered' = delivered /\ Return(r, "error")
<1>1. PICK h \in Hash \ issued, now \in Reading :
        /\ tokens' = SaveRefreshToken(tokens, h, req[r].user, req[r].root, now + TTL)
        /\ issued' = issued \cup {h}
        /\ \/ delivered' = delivered \cup {h} /\ Return(r, "ok")
           \/ delivered' = delivered /\ Return(r, "error")
  BY Zenon DEF IssueTokens
<1>2. /\ tokens \in Table /\ now + TTL \in Int
      /\ req[r].user \in User /\ req[r].root \in Hash \cup {NoHash}
  <2>1. tokens \in Table /\ now + TTL \in Int
    BY SessionsAssumption DEF Reading, IInv, TypeOK
  <2>2. RequestOK(req[r]) /\ req[r].pc = "save" /\ issued \subseteq Hash
    BY Zenon DEF IssueTokens, IInv, TypeOK
  <2>3. req[r].user \in User /\ req[r].root \in Hash \cup {NoHash}
    BY <2>2, Zenon DEF RequestOK, ReadOK
  <2> QED
    BY <2>1, <2>3, Zenon
<1>3. Addition(tokens, h, req[r].user, req[r].root, now + TTL, tokens')
  BY <1>1, <1>2, SaveEffect, Zenon
<1> QED
  BY <1>1, <1>2, <1>3, Zenon DEF IInv

LEMMA IssueTokensStep ==
  ASSUME IInv, NEW r \in Request, IssueTokens(r)
  PROVE  IInv'
<1> DEFINE u == req[r].user
           f == req[r].root
<1>1. PICK h \in Hash \ issued, e \in Int :
        /\ Addition(tokens, h, u, f, e, tokens')
        /\ ~Stored(tokens, h)
        /\ issued' = issued \cup {h}
        /\ \/ delivered' = delivered \cup {h} /\ Return(r, "ok")
           \/ delivered' = delivered /\ Return(r, "error")
  BY IssueTable, ZenonT(60)
<1>2. /\ tokens \in Table /\ req[r] \in Local /\ RequestOK(req[r])
      /\ req[r].op \in {"Refresh", "Login"}
      /\ u \in User /\ u \in users /\ f \in Hash \cup {NoHash}
      /\ f # NoHash => Stored(tokens, f) /\ ~tokens[f].ended /\ ReadOK(req[r])
  BY Zenon DEF IssueTokens, MayJoin, IInv, TypeOK, RequestOK, Local
<1>3. WholeFamilies(tokens', users) /\ EndsAsOne(tokens')
  <2>1. f # NoHash => tokens[f].parent = NoHash /\ tokens[f].user = u
    BY <1>2, Zenon DEF ReadOK
  <2>2. MayJoin(tokens, f) /\ WholeFamilies(tokens, users) /\ EndsAsOne(tokens)
    BY ZenonT(40) DEF IssueTokens, IInv, FamiliesWhole
  <2> HIDE DEF u, f
  <2> QED
    BY <1>1, <1>2, <2>1, <2>2, SaveKeeps, ZenonT(60)
<1>4. Onward
  <2>1. \A g \in issued : tokens'[g] = tokens[g] /\ (Stored(tokens', g) <=> Stored(tokens, g))
    BY <1>1, Zenon DEF Addition, IInv, TypeOK
  <2> QED
    BY <1>1, <2>1, SMTT(30) DEF Onward, IssueTokens, IInv, TypeOK
<1>5. PICK a \in {"ok", "error"} : Return(r, a)
  BY <1>1, Zenon
<1>6. PICK q \in Local : /\ req' = [req EXCEPT ![r] = q]
                         /\ q.op = req[r].op /\ q.hash = req[r].hash
                         /\ q.pc = "done" /\ q.answer = a
  BY <1>5, ReturnLocal, SMTT(30) DEF IInv, Answer
<1>7. RequestOK(q)'
  BY <1>1, <1>2, <1>5, <1>6, ZenonT(60) DEF RequestOK
<1>8. tokens' \in Table /\ \A g \in Hash : Stored(tokens', g) => g \in issued'
  BY <1>1, Zenon DEF Addition, IInv
<1>9. issued' \subseteq Hash /\ delivered' \subseteq issued'
  BY <1>1, Zenon DEF IInv, TypeOK
<1> QED
  BY <1>3, <1>4, <1>6, <1>7, <1>8, <1>9, RequestStep, ZenonT(60) DEF IssueTokens, IInv, TypeOK

\* A step of no request keeps every request right about its token.
LEMMA OutsideStep ==
  ASSUME IInv, TypeOK', Onward, UNCHANGED <<issued, req>>,
         WholeFamilies(tokens', users'), EndsAsOne(tokens'),
         \A h \in Hash : Stored(tokens', h) => h \in issued
  PROVE  IInv'
<1>1. ASSUME NEW s \in Request PROVE RequestOK(req[s])'
  <2>1. PICK q : q = req[s]
    BY Zenon
  <2>2. RequestOK(q)'
    BY <2>1, RequestKept, Zenon DEF IInv
  <2> QED
    BY <2>1, <2>2, Zenon DEF RequestOK, ReadOK, Dead
<1> QED
  BY <1>1, Zenon DEF IInv, FamiliesWhole

LEMMA DeleteUserStep ==
  ASSUME IInv, NEW u \in User, DeleteUser(u)
  PROVE  IInv'
<1>1. tokens \in Table
  BY Zenon DEF IInv, TypeOK
<1>2. Deletion(tokens, u, tokens')
  BY <1>1, DeleteEffect, Zenon DEF DeleteUser
<1>3. WholeFamilies(tokens', users') /\ EndsAsOne(tokens')
  BY <1>1, <1>2, DeleteKeeps, Zenon DEF DeleteUser, IInv, FamiliesWhole
<1>4. TypeOK' /\ Onward /\ UNCHANGED <<issued, req>>
  BY <1>2 DEF Deletion, DeleteUser, Onward, IInv, TypeOK
<1>5. \A h \in Hash : Stored(tokens', h) => h \in issued
  BY <1>2, Zenon DEF Deletion, IInv
<1> QED
  BY <1>3, <1>4, <1>5, OutsideStep, Zenon

LEMMA TickStep == ASSUME IInv, Tick PROVE IInv'
<1>1. TypeOK' /\ Onward
  BY SessionsAssumption DEF Tick, Onward, IInv, TypeOK
<1> QED
  BY <1>1, OutsideStep, Zenon DEF Tick, IInv, FamiliesWhole

LEMMA StutterStep == ASSUME IInv, UNCHANGED vars PROVE IInv'
<1>1. TypeOK' /\ Onward
  BY SMTT(30) DEF vars, Onward, IInv, TypeOK
<1> QED
  BY <1>1, OutsideStep, Zenon DEF vars, IInv, FamiliesWhole

-----------------------------------------------------------------------------
(* The invariant *)

LEMMA InitInv == Init => IInv
<1>1. SUFFICES ASSUME Init PROVE IInv
  BY Zenon
<1>2. TypeOK
  BY <1>1, SessionsAssumption DEF Init, TypeOK, Table, Local, Idle, PC, Answer
<1>3. \A h \in Hash : ~Stored(tokens, h)
  BY <1>1, Zenon DEF Init, Stored
<1>4. \A r \in Request : RequestOK(req[r])
  BY <1>1, Zenon DEF Init, Idle, RequestOK
<1> QED
  BY <1>2, <1>3, <1>4, Zenon DEF IInv, FamiliesWhole, WholeFamilies, EndsAsOne

LEMMA NextInv == IInv /\ [Next]_vars => IInv'
<1>1. SUFFICES ASSUME IInv, [Next]_vars PROVE IInv'
  BY Zenon
<1>2. ASSUME NEW r \in Request, NEW u \in User, Login(r, u) PROVE IInv'
  BY <1>1, <1>2, LoginStep, Zenon
<1>3. ASSUME NEW r \in Request, NEW h \in Hash, Refresh(r, h) \/ Logout(r, h) PROVE IInv'
  BY <1>1, <1>3, RefreshStep, LogoutStep, Zenon
<1>4. ASSUME NEW r \in Request, Step(r) PROVE IInv'
  BY <1>1, <1>4, RotateStep, RotateRefusedStep, ReplayStep, FamilyCheckStep,
     RevokeReusedFamilyStep, GetUserStep, IssueTokensStep, IssueRefusedStep,
     IssueUserMissingStep, LogoutLookupStep, LogoutEndStep, Zenon DEF Step
<1>5. ASSUME NEW r \in Request, Fail(r) PROVE IInv'
  BY <1>1, <1>5, FailStep, Zenon
<1>6. ASSUME NEW u \in User, DeleteUser(u) PROVE IInv'
  BY <1>1, <1>6, DeleteUserStep, Zenon
<1>7. CASE Tick
  BY <1>1, <1>7, TickStep, Zenon
<1>8. CASE UNCHANGED vars
  BY <1>1, <1>8, StutterStep, Zenon
<1> QED
  BY <1>1, <1>2, <1>3, <1>4, <1>5, <1>6, <1>7, <1>8, Zenon DEF Next

\* IInv is an invariant of the sessions: it is the inductive argument behind
\* the theorems below.
THEOREM Invariance == Spec => []IInv
BY InitInv, NextInv, PTL DEF Spec

-----------------------------------------------------------------------------
(* What follows from the invariant *)

\* A token ends with the root of its family.
LEMMA EndsWithRoot ==
  ASSUME IInv, NEW h \in Hash, Stored(tokens, h), NEW f, f = familyRoot(h, tokens[h])
  PROVE  f \in Hash /\ Stored(tokens, f) /\ tokens[h].ended = tokens[f].ended
<1>1. tokens[h] \in Token
  BY StoredType, ZenonT(60) DEF IInv, TypeOK
<1> QED
  BY <1>1, Zenon DEF familyRoot, Token, IInv, FamiliesWhole, WholeFamilies, EndsAsOne

\* If one token of a session has ended, every token of it is revoked.
LEMMA EndedFamilyRevoked ==
  ASSUME IInv, NEW h \in Hash, NEW g \in Hash, Family(h, g), tokens[g].ended
  PROVE  tokens[h].revoked
<1>1. PICK f : f = familyRoot(h, tokens[h]) /\ f = familyRoot(g, tokens[g])
  BY Zenon DEF Family
<1>2. tokens[h].ended = tokens[f].ended /\ tokens[g].ended = tokens[f].ended
  BY <1>1, EndsWithRoot, ZenonT(60) DEF Family
<1> QED
  BY <1>2, Zenon DEF Family, IInv, EndsAsOne

\* The variables keep their types: the table holds whole tokens of known users
\* through every rotation, save, revocation and cascade.
THEOREM TypeCorrect == Spec => []TypeOK
<1>1. IInv => TypeOK
  BY Zenon DEF IInv
<1> QED
  BY <1>1, Invariance, PTL

\* The parent of a stored successor is a stored root of the same user, and the
\* user exists, although refreshes race with the deletion of the user.
THEOREM FamiliesStayWhole == Spec => []FamiliesWhole
<1>1. IInv => FamiliesWhole
  BY Zenon DEF IInv
<1> QED
  BY <1>1, Invariance, PTL

\* No token of an ended session is usable, whatever refresh was in flight.
THEOREM EndIsFinal == Spec => []EndedSessionIsDead
<1>1. IInv => EndedSessionIsDead
  BY EndedFamilyRevoked, Zenon DEF EndedSessionIsDead
<1> QED
  BY <1>1, Invariance, PTL

\* After a successful Logout every token of the session is revoked, for good.
THEOREM LogoutFinal == Spec => []LogoutIsFinal
<1>1. ASSUME IInv, NEW r \in Request, req[r].op = "Logout", req[r].answer = "ok",
             NEW g \in Hash, Family(req[r].hash, g)
      PROVE  tokens[g].revoked
  <2>1. req[r].hash \in Hash /\ tokens[req[r].hash].ended
    BY <1>1, ZenonT(60) DEF IInv, TypeOK, RequestOK, Family
  <2>2. Family(g, req[r].hash)
    BY <1>1, Zenon DEF Family
  <2> QED
    BY <1>1, <2>1, <2>2, EndedFamilyRevoked, Zenon
<1>2. IInv => LogoutIsFinal
  BY <1>1, Zenon DEF LogoutIsFinal
<1> QED
  BY <1>2, Invariance, PTL

\* Refresh rejects only a token that is gone, ended or expired.
THEOREM RejectionsAreFinal == Spec => []RejectedIsDead
<1>1. IInv => RejectedIsDead
  BY ZenonT(60) DEF IInv, RequestOK, RejectedIsDead
<1> QED
  BY <1>1, Invariance, PTL

\* An error of Refresh that is no rejection means that the storage failed.
THEOREM OtherErrorsAreFailures == Spec => []RejectionsAreCredentials
<1>1. IInv => RejectionsAreCredentials
  BY Zenon DEF IInv, RequestOK, RejectionsAreCredentials
<1> QED
  BY <1>1, Invariance, PTL

-----------------------------------------------------------------------------
(* What a step may never do *)

\* A revocation by r: reuse detection, or a logout.
Revokes(r) ==
  /\ tokens' = RevokeTokens(tokens, req[r].root)
  /\ req[r].pc \in {"revoke", "end"} /\ req'[r].pc = "done"
  /\ users' = users

LEMMA RevokesByAction ==
  ASSUME IInv, NEW r \in Request,
         LogoutEnd(r) \/ RevokeReusedFamily(r), tokens' # tokens
  PROVE  Revokes(r)
<1>1. PICK a \in {"rejected", "ok", "error"} : Return(r, a)
  BY Zenon DEF LogoutEnd, RevokeReusedFamily
<1>2. req'[r].pc = "done"
  BY <1>1, ReturnLocal DEF IInv, Answer, TypeOK
<1> QED
  BY <1>2, Zenon DEF LogoutEnd, RevokeReusedFamily, Revokes

\* The five ways in which a step treats the table.
LEMMA TableSteps ==
  ASSUME IInv, [Next]_vars
  PROVE  \/ UNCHANGED tokens
         \/ \E r \in Request : Rotate(r) \/ Revokes(r) \/ IssueTokens(r)
         \/ \E u \in User : DeleteUser(u)
<1>1. SUFFICES ASSUME tokens' # tokens
               PROVE  \/ \E r \in Request : Rotate(r) \/ Revokes(r) \/ IssueTokens(r)
                      \/ \E u \in User : DeleteUser(u)
  BY Zenon
<1>2. \/ \E r \in Request : Rotate(r) \/ IssueTokens(r) \/ LogoutEnd(r) \/ RevokeReusedFamily(r)
      \/ \E u \in User : DeleteUser(u)
  BY <1>1, ZenonT(60) DEF Next, Step, vars, Login, Refresh, Logout, Fail, Tick, RotateRefused, Replay,
     FamilyCheck, GetUser, IssueRefused, IssueUserMissing, LogoutLookup
<1> QED
  BY <1>1, <1>2, RevokesByAction, Zenon

\* What a revocation by r is to the table.
LEMMA RevokesTable ==
  ASSUME IInv, NEW r \in Request, Revokes(r)
  PROVE  /\ req[r].root \in Hash /\ IsRoot(tokens, req[r].root)
         /\ req[r].hash \in issued /\ req[r].hash \in Hash
         /\ ReadOK(req[r])
         /\ Revocation(tokens, req[r].root, tokens')
<1>1. RequestOK(req[r]) /\ ReadOK(req[r]) /\ req[r].op \in {"Refresh", "Logout"}
  BY Zenon DEF Revokes, IInv, RequestOK
<1>2. tokens' = RevokeTokens(tokens, req[r].root)
  BY Zenon DEF Revokes
<1> QED
  BY <1>1, <1>2, RevokeTable

-----------------------------------------------------------------------------
(* Tokens move forward *)

LEMMA ForwardStep ==
  ASSUME IInv, [Next]_vars, NEW h \in Hash
  PROVE  MoveForward(h)
<1>0. SUFFICES ASSUME Stored(tokens, h), Stored(tokens', h) PROVE MoveForward(h)
  BY Zenon DEF MoveForward
<1>1. CASE tokens'[h] = tokens[h]
  BY <1>1, Zenon DEF MoveForward
<1>2. ASSUME NEW r \in Request, Rotate(r) PROVE MoveForward(h)
  <2>1. /\ Rotation(tokens, req[r].hash, req[r].at, tokens')
        /\ ~tokens[req[r].hash].revoked /\ req[r].at \in Int
    BY <1>2, RotateTable, Zenon
  <2>2. CASE h # req[r].hash
    BY <1>1, <2>1, <2>2, Zenon DEF Rotation
  <2>3. CASE h = req[r].hash
    BY <2>1, <2>3, StoreAssumption DEF Rotation, MoveForward
  <2> QED
    BY <2>2, <2>3, Zenon
<1>3. ASSUME NEW r \in Request, Revokes(r) PROVE MoveForward(h)
  <2>1. Revocation(tokens, req[r].root, tokens')
    BY <1>3, RevokesTable, Zenon
  <2>2. CASE ~Member(tokens, req[r].root, h)
    BY <1>1, <2>1, <2>2, Zenon DEF Revocation
  <2>3. CASE Member(tokens, req[r].root, h)
    BY <2>1, <2>3, Zenon DEF Revocation, MoveForward
  <2> QED
    BY <2>2, <2>3, Zenon
<1>4. ASSUME NEW r \in Request, IssueTokens(r) PROVE MoveForward(h)
  <2>1. PICK g \in Hash \ issued, e \in Int :
          Addition(tokens, g, req[r].user, req[r].root, e, tokens') /\ ~Stored(tokens, g)
    BY <1>4, IssueTable, Zenon
  <2> QED
    BY <1>0, <1>1, <2>1, Zenon DEF Addition
<1>5. ASSUME NEW u \in User, DeleteUser(u) PROVE MoveForward(h)
  <2>1. Deletion(tokens, u, tokens')
    BY <1>5, DeleteEffect, Zenon DEF DeleteUser, IInv, TypeOK
  <2> QED
    BY <1>0, <1>1, <2>1, Zenon DEF Deletion
<1> QED
  BY <1>1, <1>2, <1>3, <1>4, <1>5, TableSteps, Zenon

\* A revocation or an end is never undone and a rotation is stamped once, until
\* the token's user is deleted.
THEOREM TokensOnlyMoveForward == Spec => TokensMoveForward
<1>1. IInv /\ [Next]_vars => [\A h \in Hash : MoveForward(h)]_vars
  BY ForwardStep, Zenon
<1> QED
  BY <1>1, Invariance, PTL DEF Spec, TokensMoveForward

-----------------------------------------------------------------------------
(* A request touches its own session only *)

\* The members of the family that a request knows are in its token's session.
LEMMA MembersAreFamily ==
  ASSUME IInv, NEW q, q.hash \in Hash, q.root \in Hash, ReadOK(q),
         NEW h \in Hash, Member(tokens, q.root, h)
  PROVE  Family(h, q.hash) /\ familyRoot(h, tokens[h]) = q.root
<1>1. Stored(tokens, q.root) /\ familyRoot(h, tokens[h]) = q.root
  <2>1. CASE h = q.root
    BY <2>1, Zenon DEF Member, ReadOK, familyRoot
  <2>2. CASE tokens[h].parent = q.root
    BY <2>2, StoreAssumption, Zenon DEF Member, familyRoot, IInv, FamiliesWhole, WholeFamilies
  <2> QED
    BY <2>1, <2>2, Zenon DEF Member
<1>2. Stored(tokens, q.hash)
  BY <1>1, Zenon DEF ReadOK, IInv, FamiliesWhole, WholeFamilies
<1> QED
  BY <1>1, <1>2, Zenon DEF Family, Member, ReadOK

LEMMA OwnStep ==
  ASSUME IInv, [Next]_vars, NEW h \in Hash
  PROVE  OwnSession(h)
<1>1. SUFFICES ASSUME Stored(tokens, h), tokens'[h] # tokens[h] PROVE OwnSession(h)
  BY Zenon DEF OwnSession
<1>2. ASSUME NEW r \in Request, Rotate(r) PROVE OwnSession(h)
  <2>1. h = req[r].hash
    BY <1>1, <1>2, RotateTable, Zenon DEF Rotation
  <2>2. req'[r].pc # req[r].pc
    BY <1>2 DEF Rotate, IInv, TypeOK, Local
  <2> QED
    BY <1>1, <2>1, <2>2, Zenon DEF OwnSession, Family
<1>3. ASSUME NEW r \in Request, Revokes(r) PROVE OwnSession(h)
  <2>1. Member(tokens, req[r].root, h)
    BY <1>1, <1>3, RevokesTable, ZenonT(60) DEF Revocation
  <2>2. Family(h, req[r].hash) /\ req[r].hash \in Hash
    BY <1>3, <2>1, RevokesTable, MembersAreFamily, Zenon
  <2> QED
    BY <1>3, <2>2, Zenon DEF OwnSession, Revokes
<1>4. ASSUME NEW r \in Request, IssueTokens(r) PROVE OwnSession(h)
  <2>1. PICK g \in Hash \ issued, e \in Int :
          Addition(tokens, g, req[r].user, req[r].root, e, tokens') /\ ~Stored(tokens, g)
    BY <1>4, IssueTable, Zenon
  <2> QED
    BY <1>1, <2>1, Zenon DEF Addition
<1>5. ASSUME NEW u \in User, DeleteUser(u) PROVE OwnSession(h)
  BY <1>5, ZenonT(60) DEF DeleteUser, OwnSession
<1> QED
  BY <1>1, <1>2, <1>3, <1>4, <1>5, TableSteps, Zenon

\* A request changes stored tokens only of the session of the token it was
\* given; what deletes a user's tokens is the deletion of the user.
THEOREM SessionsAreSeparate == Spec => OtherSessionsUntouched
<1>1. IInv /\ [Next]_vars => [\A h \in Hash : OwnSession(h)]_vars
  BY OwnStep, Zenon
<1> QED
  BY <1>1, Invariance, PTL DEF Spec, OtherSessionsUntouched

-----------------------------------------------------------------------------
(* Strict rotation *)

\* No request starts to succeed, and none asks for the family.
Quiet ==
  \A s \in Request : /\ req'[s].pc # "family"
                     /\ Rotated(s)' => Rotated(s) /\ req'[s].root = req[s].root

\* The table only shrinks or is revoked.
Shrinks ==
  \A h \in Hash : Stored(tokens', h) => /\ Stored(tokens, h)
                                        /\ tokens'[h].parent = tokens[h].parent
                                        /\ tokens[h].revoked => tokens'[h].revoked

LEMMA RotatedRead ==
  ASSUME IInv, NEW r \in Request, Rotated(r)
  PROVE  /\ req[r].hash \in issued /\ req[r].hash \in Hash
         /\ req[r].root \in issued /\ req[r].root \in Hash
         /\ ReadOK(req[r])
BY Zenon DEF Rotated, IInv, TypeOK, RequestOK, ReadOK

LEMMA QuietKeepsStrict ==
  ASSUME IInv, StrictInv, Leeway = 0, Quiet, Shrinks
  PROVE  StrictInv'
<1>1. StrictRotation'
  BY FamilyRootSame DEF StrictInv, StrictRotation, Shrinks, Family
<1>2. \A r \in Request, h \in Hash :
        Rotated(r)' /\ Member(tokens', req'[r].root, h) => tokens'[h].revoked
  BY Zenon DEF StrictInv, Quiet, Shrinks, Member
<1>3. \A r, s \in Request :
        /\ Rotated(r)' /\ Rotated(s)'
        /\ req'[r].root = req'[s].root
        /\ Stored(tokens', req'[r].root)
        => r = s
  <2>1. SUFFICES ASSUME NEW r \in Request, NEW s \in Request, Rotated(r)', Rotated(s)',
                        req'[r].root = req'[s].root, Stored(tokens', req'[r].root)
                 PROVE  r = s
    BY Zenon
  <2>2. Rotated(r) /\ Rotated(s) /\ req'[r].root = req[r].root /\ req[r].root = req[s].root
    BY <2>1, Zenon DEF Quiet
  <2>3. Stored(tokens, req[r].root)
    BY <2>1, <2>2, RotatedRead, Zenon DEF Shrinks
  <2> QED
    BY <2>2, <2>3, Zenon DEF StrictInv
<1> QED
  BY <1>1, <1>2, <1>3, Zenon DEF StrictInv, Quiet

\* A step of one request that does not rotate leaves the rest quiet.
LEMMA QuietStep ==
  ASSUME IInv, StrictInv, Leeway = 0, NEW r \in Request, NEW q, req' = [req EXCEPT ![r] = q],
         q.pc # "family",
         q.op = "Refresh" /\ q.pc \in {"getUser", "save"} => Rotated(r) /\ q.root = req[r].root
  PROVE  Quiet
BY Zenon DEF Quiet, StrictInv, Rotated, IInv, TypeOK

LEMMA ReturnIsQuiet ==
  ASSUME IInv, StrictInv, Leeway = 0, NEW r \in Request, NEW a \in Answer, Return(r, a)
  PROVE  Quiet
<1>1. PICK q \in Local : req' = [req EXCEPT ![r] = q] /\ q.pc = "done"
  BY ReturnLocal, Zenon DEF IInv
<1> QED
  BY <1>1, QuietStep, ZenonT(60)

LEMMA RotateKeepsStrict ==
  ASSUME IInv, StrictInv, Leeway = 0, NEW r \in Request, Rotate(r)
  PROVE  StrictInv'
<1> DEFINE h == req[r].hash
           f == familyRoot(h, tokens[h])
<1>1. /\ h \in issued /\ h \in Hash /\ Stored(tokens, h) /\ ~tokens[h].revoked
      /\ Rotation(tokens, h, req[r].at, tokens')
  BY RotateTable, Zenon
<1>2. /\ Shrinks
      /\ \A g \in Hash : Stored(tokens', g) /\ ~tokens'[g].revoked =>
           g # h /\ Stored(tokens, g) /\ ~tokens[g].revoked
  BY <1>1, Zenon DEF Shrinks, Rotation
<1>3. StrictRotation'
  BY <1>2, FamilyRootSame DEF StrictInv, StrictRotation, Shrinks, Family
<1>4. /\ req[r] \in Local
      /\ req' = [req EXCEPT ![r] = [req[r] EXCEPT !.pc = "getUser", !.at = NoTime,
                   !.user = tokens[h].user, !.root = f, !.rotatedAt = req[r].at]]
  BY Zenon DEF Rotate, IInv, TypeOK
<1>5. /\ req'[r].root = f /\ req'[r].pc = "getUser"
      /\ \A s \in Request : s # r => req'[s] = req[s]
  BY <1>4, ZenonT(60) DEF Local, IInv, TypeOK
<1>6. Member(tokens, f, h) /\ \A g \in Hash : Member(tokens, f, g) => Family(g, h)
  <2>1. PICK q : q = [req[r] EXCEPT !.user = tokens[h].user, !.root = f]
    BY Zenon
  <2>2. q.hash = h /\ q.user = tokens[h].user /\ q.root = f
    BY <1>4, <2>1, ZenonT(60) DEF Local
  <2>3. ReadOK(q) /\ q.root \in Hash
    BY <1>1, <2>2, FreshRead, Zenon DEF ReadOK, IInv, TypeOK
  <2>4. \A g \in Hash : Member(tokens, f, g) => Family(g, h)
    BY <1>1, <2>2, <2>3, MembersAreFamily, Zenon
  <2> QED
    BY <1>1, <2>4, Zenon DEF Member, familyRoot
<1>7. \A s \in Request : s # r /\ Rotated(s) => req[s].root # f
  BY <1>1, <1>6, Zenon DEF StrictInv
<1>8. \A g \in Hash : Member(tokens', f, g) => tokens'[g].revoked
  <2>1. SUFFICES ASSUME NEW g \in Hash, Member(tokens', f, g), ~tokens'[g].revoked
                 PROVE  FALSE
    BY Zenon
  <2>2. g # h /\ ~tokens[g].revoked /\ Member(tokens, f, g)
    BY <1>2, <2>1, Zenon DEF Member, Shrinks
  <2> QED
    BY <1>1, <1>6, <2>2, Zenon DEF StrictInv, StrictRotation
<1>9. \A s \in Request, g \in Hash :
        Rotated(s)' /\ Member(tokens', req'[s].root, g) => tokens'[g].revoked
  BY <1>2, <1>5, <1>8 DEF StrictInv, Shrinks, Member, Rotated
<1>10. \A s, t \in Request :
         /\ Rotated(s)' /\ Rotated(t)'
         /\ req'[s].root = req'[t].root
         /\ Stored(tokens', req'[s].root)
         => s = t
  <2>1. SUFFICES ASSUME NEW s \in Request, NEW t \in Request, Rotated(s)', Rotated(t)',
                        req'[s].root = req'[t].root, Stored(tokens', req'[s].root)
                 PROVE  s = t
    BY Zenon
  <2>2. CASE s # r /\ t # r
    <3>1. Rotated(s) /\ Rotated(t) /\ req'[s].root = req[s].root /\ req[s].root = req[t].root
      BY <1>5, <2>1, <2>2, Zenon DEF Rotated
    <3>2. Stored(tokens, req[s].root)
      BY <1>2, <2>1, <3>1, RotatedRead, Zenon DEF Shrinks
    <3> QED
      BY <3>1, <3>2, Zenon DEF StrictInv
  <2>3. CASE s = r \/ t = r
    BY <1>5, <1>7, <2>1, <2>3 DEF Rotated
  <2> QED
    BY <2>2, <2>3, Zenon
<1>11. \A s \in Request : req'[s].pc # "family"
  BY <1>5, Zenon DEF StrictInv
<1> QED
  BY <1>3, <1>9, <1>10, <1>11, Zenon DEF StrictInv

LEMMA IssueKeepsStrict ==
  ASSUME IInv, StrictInv, Leeway = 0, NEW r \in Request, IssueTokens(r)
  PROVE  StrictInv'
<1> DEFINE f == req[r].root
<1>1. PICK h \in Hash \ issued, e \in Int :
        /\ Addition(tokens, h, req[r].user, f, e, tokens')
        /\ ~Stored(tokens, h)
        /\ Return(r, "ok") \/ Return(r, "error")
  BY IssueTable, Zenon
<1>2. Quiet /\ ~Rotated(r)'
  <2>1. PICK a \in Answer : Return(r, a)
    BY <1>1, Zenon DEF Answer
  <2>2. req'[r].pc = "done"
    BY <2>1, ReturnLocal, SMTT(30) DEF IInv, TypeOK
  <2> QED
    BY <2>1, <2>2, ReturnIsQuiet, Zenon DEF Rotated
<1>3. f # NoHash => Rotated(r) /\ Stored(tokens, f)
  BY Zenon DEF IssueTokens, MayJoin, IInv, RequestOK, Rotated
<1>4. /\ \A g \in Hash : g # h => tokens'[g] = tokens[g] /\ (Stored(tokens', g) <=> Stored(tokens, g))
      /\ tokens'[h].parent = f
  BY <1>1 DEF Addition
<1>5. ASSUME NEW g \in Hash, g # h, Stored(tokens, g),
             familyRoot(g, tokens[g]) = familyRoot(h, tokens'[h])
      PROVE  tokens[g].revoked
  <2>1. familyRoot(g, tokens[g]) # h
    BY <1>1, <1>5, Zenon DEF familyRoot, IInv, FamiliesWhole, WholeFamilies
  <2>2. f # NoHash /\ familyRoot(g, tokens[g]) = f
    BY <1>4, <1>5, <2>1, Zenon DEF familyRoot
  <2>3. Member(tokens, f, g)
    BY <1>5, <2>2, Zenon DEF Member, familyRoot
  <2> QED
    BY <1>3, <2>2, <2>3, Zenon DEF StrictInv
<1>6. StrictRotation'
  <2>1. SUFFICES ASSUME NEW x \in Hash, NEW y \in Hash, Family(x, y)',
                        ~tokens'[x].revoked, ~tokens'[y].revoked
                 PROVE  x = y
    BY Zenon DEF StrictRotation
  <2>2. CASE x # h /\ y # h
    BY <1>4, <2>1, <2>2, Zenon DEF Family, StrictInv, StrictRotation
  <2>3. CASE x = h /\ y # h
    BY <1>4, <1>5, <2>1, <2>3, Zenon DEF Family
  <2>4. CASE y = h /\ x # h
    BY <1>4, <1>5, <2>1, <2>4, Zenon DEF Family
  <2> QED
    BY <2>2, <2>3, <2>4, Zenon
<1>7. ASSUME NEW s \in Request, Rotated(s)'
      PROVE  /\ s # r /\ Rotated(s) /\ req'[s].root = req[s].root
             /\ req[s].root \in Hash /\ req[s].root # h
  BY <1>1, <1>2, <1>7, RotatedRead, Zenon DEF Quiet
<1>8. ASSUME NEW s \in Request, NEW g \in Hash, Rotated(s)', Member(tokens', req'[s].root, g)
      PROVE  tokens'[g].revoked
  <2>1. CASE g # h
    BY <1>4, <1>7, <1>8, <2>1, Zenon DEF Member, StrictInv
  <2>2. CASE g = h
    <3>1. req[s].root = f
      BY <1>4, <1>7, <1>8, <2>2, ZenonT(60) DEF Member
    <3> QED
      BY <1>3, <1>7, <1>8, <3>1, StoreAssumption, Zenon DEF StrictInv
  <2> QED
    BY <2>1, <2>2, Zenon
<1>9. ASSUME NEW s \in Request, NEW t \in Request, Rotated(s)', Rotated(t)',
             req'[s].root = req'[t].root, Stored(tokens', req'[s].root)
      PROVE  s = t
  BY <1>4, <1>7, <1>9, ZenonT(60) DEF StrictInv
<1> QED
  BY <1>2, <1>6, <1>8, <1>9, Zenon DEF StrictInv, Quiet

LEMMA InitStrict == Init => StrictInv
<1>1. SUFFICES ASSUME Init PROVE StrictInv
  BY Zenon
<1>2. \A h \in Hash : ~Stored(tokens, h)
  BY <1>1, Zenon DEF Init, Stored
<1>3. \A r \in Request : req[r].pc = "idle"
  BY <1>1, Zenon DEF Init, Idle
<1> QED
  BY <1>2, <1>3, Zenon DEF StrictInv, StrictRotation, Family, Rotated, Member

\* Every step but a rotation and a save is quiet and does not add tokens.
LEMMA OtherStepsQuiet ==
  ASSUME IInv, StrictInv, Leeway = 0, [Next]_vars,
         \A r \in Request : ~Rotate(r) /\ ~IssueTokens(r)
  PROVE  Quiet /\ Shrinks
<1>1. Shrinks
  <2>1. CASE UNCHANGED tokens
    BY <2>1, Zenon DEF Shrinks
  <2>2. ASSUME NEW r \in Request, Revokes(r) PROVE Shrinks
    <3>1. Revocation(tokens, req[r].root, tokens')
      BY <2>2, RevokesTable, Zenon
    <3>2. \A h \in Hash : tokens[h].revoked => tokens'[h].revoked
      BY <3>1, Zenon DEF Revocation
    <3> QED
      BY <3>1, <3>2, Zenon DEF Revocation, Shrinks
  <2>3. ASSUME NEW u \in User, DeleteUser(u) PROVE Shrinks
    BY <2>3, DeleteEffect DEF DeleteUser, Deletion, Shrinks, IInv, TypeOK
  <2> QED
    BY <2>1, <2>2, <2>3, TableSteps, Zenon
<1>2. Quiet
  <2>1. CASE UNCHANGED req
    BY <2>1, Zenon DEF Quiet, StrictInv, Rotated
  <2>2. ASSUME NEW r \in Request, NEW a \in Answer, Return(r, a) PROVE Quiet
    BY <2>2, ReturnIsQuiet, Zenon
  <2>3. ASSUME NEW r \in Request, NEW u \in User, Login(r, u) PROVE Quiet
    <3>1. PICK q : q = [Idle EXCEPT !.op = "Login", !.pc = "getUser", !.user = u]
      BY Zenon
    <3>2. q.op = "Login" /\ q.pc = "getUser"
      BY <3>1, Zenon DEF Idle
    <3>3. req' = [req EXCEPT ![r] = q]
      BY <2>3, <3>1, Zenon DEF Login
    <3> QED
      BY <3>2, <3>3, QuietStep, Zenon
  <2>4. ASSUME NEW r \in Request, NEW h \in Hash, Refresh(r, h) \/ Logout(r, h) PROVE Quiet
    <3>1. CASE Refresh(r, h)
      <4>1. PICK now \in Reading :
              req' = [req EXCEPT ![r] = [Idle EXCEPT !.op = "Refresh", !.pc = "rotate",
                                                     !.hash = h, !.at = now]]
        BY <3>1, Zenon DEF Refresh
      <4>2. PICK q : q = [Idle EXCEPT !.op = "Refresh", !.pc = "rotate", !.hash = h, !.at = now]
        BY Zenon
      <4>3. q.pc = "rotate"
        BY <4>2, Zenon DEF Idle
      <4> QED
        BY <4>1, <4>2, <4>3, QuietStep, Zenon
    <3>2. CASE Logout(r, h)
      <4>1. PICK q : q = [Idle EXCEPT !.op = "Logout", !.pc = "lookup", !.hash = h]
        BY Zenon
      <4>2. q.pc = "lookup"
        BY <4>1, Zenon DEF Idle
      <4>3. req' = [req EXCEPT ![r] = q]
        BY <3>2, <4>1, Zenon DEF Logout
      <4> QED
        BY <4>2, <4>3, QuietStep, Zenon
    <3> QED
      BY <2>4, <3>1, <3>2, Zenon
  <2>5. ASSUME NEW r \in Request, Replay(r) PROVE Quiet
    <3>1. req[r] \in Local /\ ~NearRotation(tokens[req[r].hash], req[r].at)
      BY Zenon DEF NearRotation, IInv, TypeOK
    <3>2. PICK q : q = [req[r] EXCEPT !.pc = "revoke", !.at = NoTime,
                          !.user = tokens[req[r].hash].user,
                          !.root = familyRoot(req[r].hash, tokens[req[r].hash]),
                          !.rotatedAt = tokens[req[r].hash].rotatedAt]
      BY Zenon
    <3>3. q.pc = "revoke"
      BY <3>1, <3>2, Zenon DEF Local
    <3>4. req' = [req EXCEPT ![r] = q]
      BY <2>5, <3>1, <3>2, Zenon DEF Replay
    <3> QED
      BY <3>3, <3>4, QuietStep, Zenon
  <2>6. ASSUME NEW r \in Request, GetUser(r) PROVE Quiet
    <3>1. CASE req[r].user \in users
      <4>1. PICK q : q = [req[r] EXCEPT !.pc = "save"]
        BY Zenon
      <4>2. q.pc = "save" /\ q.op = req[r].op /\ q.root = req[r].root
        BY <4>1, Zenon DEF IInv, TypeOK, Local
      <4>3. req' = [req EXCEPT ![r] = q] /\ req[r].pc = "getUser"
        BY <2>6, <3>1, <4>1, Zenon DEF GetUser
      <4> QED
        BY <4>2, <4>3, QuietStep, Zenon DEF Rotated
    <3>2. CASE req[r].user \notin users
      BY <2>2, <2>6, <3>2, Zenon DEF GetUser, Answer
    <3> QED
      BY <3>1, <3>2, Zenon
  <2>7. ASSUME NEW r \in Request, LogoutLookup(r) PROVE Quiet
    <3>1. CASE Stored(tokens, req[r].hash)
      <4>1. req[r] \in Local
        BY Zenon DEF IInv, TypeOK
      <4>2. PICK q : q = [req[r] EXCEPT !.pc = "end", !.user = tokens[req[r].hash].user,
                            !.root = familyRoot(req[r].hash, tokens[req[r].hash])]
        BY Zenon
      <4>3. q.pc = "end"
        BY <4>1, <4>2, Zenon DEF Local
      <4>4. req' = [req EXCEPT ![r] = q]
        BY <2>7, <3>1, <4>2, Zenon DEF LogoutLookup
      <4> QED
        BY <4>3, <4>4, QuietStep, Zenon
    <3>2. CASE ~Stored(tokens, req[r].hash)
      BY <2>2, <2>7, <3>2, Zenon DEF LogoutLookup, Answer
    <3> QED
      BY <3>1, <3>2, Zenon
  <2>8. ASSUME NEW r \in Request,
               \/ RotateRefused(r) \/ RevokeReusedFamily(r) \/ IssueRefused(r)
               \/ IssueUserMissing(r) \/ LogoutEnd(r) \/ Fail(r)
        PROVE  Quiet
    <3>1. \E a \in {"ok", "rejected", "survived", "internal", "error"} : Return(r, a)
      BY <2>8, Zenon DEF RotateRefused, RevokeReusedFamily, IssueRefused, IssueUserMissing, LogoutEnd, Fail
    <3> QED
      BY <2>2, <3>1, ZenonT(60) DEF Answer
  <2>9. \A r \in Request : ~FamilyCheck(r)
    BY Zenon DEF StrictInv, FamilyCheck
  <2> QED
    BY <2>1, <2>3, <2>4, <2>5, <2>6, <2>7, <2>8, <2>9, ZenonT(60) DEF Next, Step, vars, DeleteUser, Tick
<1> QED
  BY <1>1, <1>2, Zenon

LEMMA NextStrict == IInv /\ StrictInv /\ [Next]_vars => StrictInv'
<1>1. SUFFICES ASSUME IInv, StrictInv, Leeway = 0, [Next]_vars PROVE StrictInv'
  BY Zenon DEF StrictInv
<1> QED
  BY <1>1, RotateKeepsStrict, IssueKeepsStrict, OtherStepsQuiet, QuietKeepsStrict, ZenonT(60)

\* With a zero leeway a refresh that has rotated is alone with its session: no
\* other one is to save a successor, and no token of the family is unrevoked.
THEOREM StrictInvariance == Spec => []StrictInv
BY Invariance, InitStrict, NextStrict, PTL DEF Spec

\* With a zero leeway a session has at most one unrevoked token, however the
\* refreshes with its tokens interleave.
THEOREM RotationIsStrict == Spec => []StrictRotation
<1>1. StrictInv => StrictRotation
  BY ZenonT(60) DEF StrictInv, StrictRotation
<1> QED
  BY <1>1, StrictInvariance, PTL

-----------------------------------------------------------------------------
(* A session that goes on keeps its client *)

\* The step of one request leaves the others alone.
LEMMA OneMoves ==
  ASSUME IInv, NEW s \in Request, NEW r \in Request, r # s,
         \/ \E u \in User : Login(s, u)
         \/ \E h \in Hash : Refresh(s, h) \/ Logout(s, h)
         \/ Step(s)
         \/ Fail(s)
  PROVE  req'[r] = req[r]
<1>1. req \in [Request -> Local]
  BY Zenon DEF IInv, TypeOK
<1>2. ASSUME NEW a, Return(s, a) PROVE req'[r] = req[r]
  BY <1>1, <1>2, Zenon DEF Return
<1>3. CASE \E u \in User : Login(s, u)
  BY <1>1, <1>3, ZenonT(60) DEF Login
<1>4. CASE \E h \in Hash : Refresh(s, h) \/ Logout(s, h)
  BY <1>1, <1>4, Zenon DEF Refresh, Logout
<1>5. CASE Rotate(s) \/ Replay(s) \/ FamilyCheck(s)
  BY <1>1, <1>5, Zenon DEF Rotate, Replay, FamilyCheck
<1>6. CASE GetUser(s) \/ LogoutLookup(s)
  BY <1>1, <1>2, <1>6, Zenon DEF GetUser, LogoutLookup
<1>7. CASE \/ RotateRefused(s) \/ RevokeReusedFamily(s) \/ IssueTokens(s) \/ IssueRefused(s)
           \/ IssueUserMissing(s) \/ LogoutEnd(s) \/ Fail(s)
  BY <1>2, <1>7, ZenonT(60) DEF RotateRefused, RevokeReusedFamily, IssueTokens, IssueRefused,
     IssueUserMissing, LogoutEnd, Fail
<1> QED
  BY <1>3, <1>4, <1>5, <1>6, <1>7, Zenon DEF Step

\* Who can move a request that is done, or one that is to save a successor.
LEMMA WhoMoves ==
  ASSUME IInv, [Next]_vars, NEW r \in Request, req'[r] # req[r]
  PROVE  /\ req[r].pc # "done"
         /\ req[r].pc \in {"getUser", "save"} =>
              GetUser(r) \/ IssueTokens(r) \/ IssueRefused(r) \/ IssueUserMissing(r) \/ Fail(r)
<1>1. \/ \E u \in User : Login(r, u)
      \/ \E h \in Hash : Refresh(r, h) \/ Logout(r, h)
      \/ Step(r)
      \/ Fail(r)
  BY OneMoves, Zenon DEF Next, vars, DeleteUser, Tick
<1>2. CASE \/ \E u \in User : Login(r, u)
           \/ \E h \in Hash : Refresh(r, h) \/ Logout(r, h)
  BY <1>2, Zenon DEF Login, Refresh, Logout
<1>3. CASE \/ Rotate(r) \/ RotateRefused(r) \/ Replay(r) \/ FamilyCheck(r)
           \/ RevokeReusedFamily(r) \/ LogoutLookup(r) \/ LogoutEnd(r)
  BY <1>3, Zenon DEF Rotate, RotateRefused, Replay, FamilyCheck, RevokeReusedFamily,
     LogoutLookup, LogoutEnd
<1>4. CASE GetUser(r) \/ IssueTokens(r) \/ IssueRefused(r) \/ IssueUserMissing(r) \/ Fail(r)
  BY <1>4, ZenonT(60) DEF GetUser, IssueTokens, IssueRefused, IssueUserMissing, Fail
<1> QED
  BY <1>1, <1>2, <1>3, <1>4, Zenon DEF Step

\* Tokens of one family have one user.
LEMMA FamilyUser ==
  ASSUME IInv, NEW h \in Hash, NEW g \in Hash, Family(h, g)
  PROVE  tokens[h].user = tokens[g].user
<1>1. tokens[h] \in Token /\ tokens[g] \in Token
  BY StoredType, Zenon DEF Family, IInv, TypeOK
<1> QED
  BY <1>1, Zenon DEF Family, familyRoot, Token, IInv, FamiliesWhole, WholeFamilies

\* A family is removed as a whole, and a removed token does not return.
LEMMA FamilyStays ==
  ASSUME IInv, [Next]_vars, NEW f \in issued, f \in Hash, Stored(tokens', f)
  PROVE  /\ Stored(tokens, f)
         /\ \A h \in Hash : Family(f, h) => Stored(tokens', h) /\ Family(f, h)'
<1>1. /\ Stored(tokens, f)
      /\ \A h \in Hash : Family(f, h) => Stored(tokens', h)
  <2>1. CASE UNCHANGED tokens
    BY <2>1, Zenon DEF Family
  <2>2. ASSUME NEW r \in Request, Rotate(r)
        PROVE  \A h \in Hash : Stored(tokens', h) <=> Stored(tokens, h)
    BY <2>2, RotateTable, Zenon DEF Rotation
  <2>3. ASSUME NEW r \in Request, Revokes(r)
        PROVE  \A h \in Hash : Stored(tokens', h) <=> Stored(tokens, h)
    BY <2>3, RevokesTable, ZenonT(40) DEF Revocation
  <2>4. ASSUME NEW r \in Request, IssueTokens(r)
        PROVE  /\ Stored(tokens, f)
               /\ \A h \in Hash : Stored(tokens, h) => Stored(tokens', h)
    <3>1. PICK g \in Hash \ issued, e \in Int :
            Addition(tokens, g, req[r].user, req[r].root, e, tokens') /\ ~Stored(tokens, g)
      BY <2>4, IssueTable, Zenon
    <3> QED
      BY <3>1, Zenon DEF Addition
  <2>5. ASSUME NEW u \in User, DeleteUser(u)
        PROVE  /\ Stored(tokens, f)
               /\ \A h \in Hash : Family(f, h) => Stored(tokens', h)
    <3>1. Deletion(tokens, u, tokens')
      BY <2>5, DeleteEffect, ZenonT(60) DEF DeleteUser, IInv, TypeOK
    <3> QED
      BY <3>1, FamilyUser, Zenon DEF Deletion, Family
  <2> QED
    BY <2>1, <2>2, <2>3, <2>4, <2>5, TableSteps, Zenon DEF Family
<1>2. \A h \in Hash : Family(f, h) => tokens'[h].parent = tokens[h].parent
  BY <1>1, ForwardStep, Zenon DEF MoveForward, Family
<1>3. tokens'[f].parent = tokens[f].parent
  BY <1>1, ForwardStep, Zenon DEF MoveForward
<1> QED
  BY <1>1, <1>2, <1>3, FamilyRootSame, ZenonT(60) DEF Family

\* A member of a root's family and the root are of one family.
LEMMA MemberOfRoot ==
  ASSUME NEW tbl, NEW f \in Hash, Stored(tbl, f), tbl[f].parent = NoHash,
         NEW h \in Hash, Stored(tbl, h)
  PROVE  Member(tbl, f, h) <=> familyRoot(h, tbl[h]) = familyRoot(f, tbl[f])
BY StoreAssumption, Zenon DEF Member, familyRoot

\* The client holds an unrevoked token; the step may rotate it.
LEMMA HolderStep ==
  ASSUME IInv, [Next]_vars, NEW f \in Hash, f \in issued, Stored(tokens', f),
         tokens[f].parent = NoHash, tokens'[f].parent = NoHash, ~tokens'[f].ended,
         delivered \subseteq delivered',
         NEW h \in delivered, Member(tokens, f, h), ~tokens[h].revoked
  PROVE  KeepsClient(f)'
<1>1. h \in Hash /\ Stored(tokens, h) /\ Stored(tokens, f)
  BY FamilyStays, Zenon DEF Member, IInv, TypeOK
<1>2. Family(f, h)
  BY <1>1, MemberOfRoot, Zenon DEF Family
<1>3. Stored(tokens', h) /\ Family(f, h)'
  BY <1>1, <1>2, FamilyStays, Zenon
<1>4. Member(tokens', f, h)
  BY <1>1, <1>3, MemberOfRoot, Zenon DEF Family
<1>5. CASE ~tokens'[h].revoked
  BY <1>4, <1>5, Zenon DEF KeepsClient
<1>6. CASE tokens'[h].revoked
  <2>1. ASSUME NEW r \in Request, Rotate(r) PROVE KeepsClient(f)'
    <3>1. h = req[r].hash
      BY <1>1, <1>6, <2>1, RotateTable, ZenonT(60) DEF Rotation
    <3>2. /\ req[r] \in Local
          /\ req' = [req EXCEPT ![r] = [req[r] EXCEPT !.pc = "getUser", !.at = NoTime,
                       !.user = tokens[h].user, !.root = familyRoot(h, tokens[h]),
                       !.rotatedAt = req[r].at]]
      BY <2>1, <3>1, Zenon DEF Rotate, IInv, TypeOK
    <3>3. req'[r].pc = "getUser" /\ req'[r].root = familyRoot(h, tokens[h])
      BY <3>2, Zenon DEF Local, IInv, TypeOK
    <3>4. familyRoot(h, tokens[h]) = f
      BY <1>2, Zenon DEF Family, familyRoot
    <3>5. Succeeding(r, f)'
      BY <3>3, <3>4, Zenon DEF Succeeding
    <3> QED
      BY <3>5, Zenon DEF KeepsClient
  <2>2. ASSUME NEW r \in Request, Revokes(r) PROVE FALSE
    <3>1. Revocation(tokens, req[r].root, tokens') /\ Member(tokens, req[r].root, h)
      BY <1>1, <1>6, <2>2, RevokesTable, Zenon DEF Revocation
    <3>2. familyRoot(h, tokens[h]) = req[r].root
      BY <1>1, <2>2, <3>1, RevokesTable, MembersAreFamily, Zenon
    <3>3. req[r].root = f /\ Member(tokens, f, f)
      BY <1>1, <1>2, <3>2, ZenonT(60) DEF Family, familyRoot, Member
    <3> QED
      BY <3>1, <3>3, Zenon DEF Revocation
  <2>3. ASSUME NEW r \in Request, IssueTokens(r) PROVE FALSE
    <3>1. PICK g \in Hash \ issued, e \in Int :
            Addition(tokens, g, req[r].user, req[r].root, e, tokens') /\ ~Stored(tokens, g)
      BY <2>3, IssueTable, Zenon
    <3> QED
      BY <1>1, <1>6, <3>1, Zenon DEF Addition
  <2>4. ASSUME NEW u \in User, DeleteUser(u) PROVE FALSE
    <3>1. Deletion(tokens, u, tokens')
      BY <2>4, DeleteEffect, Zenon DEF DeleteUser, IInv, TypeOK
    <3> QED
      BY <1>1, <1>3, <1>6, <3>1, ZenonT(60) DEF Deletion
  <2> QED
    BY <1>6, <2>1, <2>2, <2>3, <2>4, TableSteps, Zenon
<1> QED
  BY <1>5, <1>6, ZenonT(60)

\* A refresh is about to save a successor; the step may be its.
LEMMA SucceedingStep ==
  ASSUME IInv, IInv', [Next]_vars, NEW f \in Hash, f \in issued, Stored(tokens', f),
         tokens[f].parent = NoHash, tokens'[f].parent = NoHash, ~tokens[f].ended,
         NEW r \in Request, Succeeding(r, f)
  PROVE  KeepsClient(f)'
<1>1. /\ Rotated(r) /\ ReadOK(req[r]) /\ req[r].root = f /\ req[r] \in Local
      /\ req[r].hash \in issued /\ req[r].hash \in Hash /\ Stored(tokens, f)
      /\ req[r].user \in users
  <2>1. Stored(tokens, f) /\ tokens[f].user \in users
    <3>1. Stored(tokens, f)
      BY FamilyStays, Zenon
    <3> QED
      BY <3>1, Zenon DEF IInv, FamiliesWhole, WholeFamilies
  <2>2. Rotated(r) /\ req[r].root = f /\ req[r] \in Local
    BY StoreAssumption, ZenonT(60) DEF Succeeding, Rotated, IInv, TypeOK, RequestOK
  <2> QED
    BY <2>1, <2>2, RotatedRead, Zenon DEF ReadOK
<1>2. Family(f, req[r].hash)
  BY <1>1, Zenon DEF ReadOK, Family, familyRoot
<1>3. PICK g : g = req[r].hash
  BY Zenon
<1>4. Family(f, g)'
  BY <1>1, <1>2, <1>3, FamilyStays, ZenonT(60)
<1>5. CASE req'[r] = req[r]
  BY <1>1, <1>5, Zenon DEF Succeeding, KeepsClient
<1>6. CASE req'[r] # req[r]
  <2>1. ASSUME Return(r, "error") PROVE KeepsClient(f)'
    <3>1. req'[r].op = "Refresh" /\ req'[r].hash = g /\ req'[r].answer = "error"
      BY <1>1, <1>3, <2>1, ReturnLocal, SMTT(30) DEF Rotated, IInv, TypeOK, Answer
    <3>2. FailedIn(r, f)'
      BY <1>4, <3>1, Zenon DEF FailedIn, Family
    <3> QED
      BY <3>2, Zenon DEF KeepsClient
  <2>2. CASE GetUser(r)
    <3>1. req' = [req EXCEPT ![r].pc = "save"]
      BY <1>1, <2>2, Zenon DEF GetUser
    <3>2. req'[r].pc = "save" /\ req'[r].root = f
      BY <1>1, <3>1, Zenon DEF Local, IInv, TypeOK
    <3>3. Succeeding(r, f)'
      BY <3>2, Zenon DEF Succeeding
    <3> QED
      BY <3>3, Zenon DEF KeepsClient
  <2>3. CASE IssueTokens(r)
    <3>1. PICK h \in Hash \ issued, e \in Int :
            /\ Addition(tokens, h, req[r].user, req[r].root, e, tokens')
            /\ \/ delivered' = delivered \cup {h} /\ Return(r, "ok")
               \/ delivered' = delivered /\ Return(r, "error")
      BY <2>3, IssueTable, Zenon
    <3>2. Member(tokens', f, h) /\ ~tokens'[h].revoked
      BY <1>1, <3>1, SMTT(30) DEF Addition, Member
    <3> QED
      BY <2>1, <3>1, <3>2, Zenon DEF KeepsClient
  <2>4. CASE IssueRefused(r)
    BY <1>1, <2>4, Zenon DEF IssueRefused, MayJoin
  <2>5. CASE IssueUserMissing(r)
    BY <1>1, <2>5, Zenon DEF IssueUserMissing
  <2>6. CASE Fail(r)
    BY <2>1, <2>6, Zenon DEF Fail
  <2> QED
    BY <1>1, <1>6, <2>2, <2>3, <2>4, <2>5, <2>6, WhoMoves, Zenon DEF Rotated
<1> QED
  BY <1>5, <1>6, Zenon

\* A token reaches a client only when it is saved.
LEMMA DeliveredStep ==
  ASSUME IInv, [Next]_vars
  PROVE  /\ delivered \subseteq delivered'
         /\ \A h \in delivered' \ delivered : Stored(tokens', h) /\ ~tokens'[h].revoked
<1>1. CASE UNCHANGED delivered
  BY <1>1, Zenon
<1>2. ASSUME NEW r \in Request, IssueTokens(r)
      PROVE  /\ delivered \subseteq delivered'
             /\ \A h \in delivered' \ delivered : Stored(tokens', h) /\ ~tokens'[h].revoked
  <2>1. PICK h \in Hash \ issued, e \in Int :
          /\ Addition(tokens, h, req[r].user, req[r].root, e, tokens')
          /\ delivered' = delivered \cup {h} \/ delivered' = delivered
    BY <1>2, IssueTable, Zenon
  <2> QED
    BY <2>1 DEF Addition
<1>3. UNCHANGED delivered \/ \E r \in Request : IssueTokens(r)
  BY ZenonT(60) DEF Next, Step, vars, Login, Refresh, Logout, Fail, Tick, DeleteUser, Rotate,
     RotateRefused, Replay, FamilyCheck, RevokeReusedFamily, GetUser, IssueRefused,
     IssueUserMissing, LogoutLookup, LogoutEnd
<1> QED
  BY <1>1, <1>2, <1>3, Zenon

LEMMA NextKeepsClient == IInv /\ IInv' /\ SessionKeepsClient /\ [Next]_vars => SessionKeepsClient'
<1>1. SUFFICES ASSUME IInv, IInv', SessionKeepsClient, [Next]_vars,
                      NEW f \in delivered', Stored(tokens', f),
                      tokens'[f].parent = NoHash, ~tokens'[f].ended
               PROVE  KeepsClient(f)'
  BY Zenon DEF SessionKeepsClient, KeepsClient, Member, Succeeding, FailedIn, Family
<1>2. CASE f \notin delivered
  BY <1>1, <1>2, DeliveredStep, Zenon DEF KeepsClient, Member
<1>3. CASE f \in delivered
  <2>1. f \in issued /\ f \in Hash /\ Stored(tokens, f)
    BY <1>1, <1>3, FamilyStays, Zenon DEF IInv, TypeOK
  <2>2. tokens[f].parent = NoHash /\ ~tokens[f].ended
    BY <1>1, <2>1, ForwardStep, Zenon DEF MoveForward
  <2>3. KeepsClient(f)
    BY <1>1, <1>3, <2>1, <2>2, Zenon DEF SessionKeepsClient
  <2>4. ASSUME NEW h \in delivered, Member(tokens, f, h), ~tokens[h].revoked
        PROVE  KeepsClient(f)'
    BY <1>1, <2>1, <2>2, <2>4, DeliveredStep, HolderStep, Zenon
  <2>5. ASSUME NEW r \in Request, Succeeding(r, f) PROVE KeepsClient(f)'
    BY <1>1, <2>1, <2>2, <2>5, SucceedingStep, Zenon
  <2>6. ASSUME NEW r \in Request, FailedIn(r, f) PROVE KeepsClient(f)'
    <3>1. req'[r] = req[r]
      BY <1>1, <2>6, WhoMoves, ZenonT(60) DEF FailedIn, IInv, RequestOK
    <3>2. PICK g : g = req[r].hash
      BY ZenonT(60)
    <3>3. g \in Hash /\ Family(f, g)
      BY <1>1, <2>6, <3>2, ZenonT(60) DEF FailedIn, IInv, TypeOK, RequestOK
    <3>4. Family(f, g)'
      BY <1>1, <2>1, <3>3, FamilyStays, ZenonT(60)
    <3>5. FailedIn(r, f)'
      BY <2>6, <3>1, <3>2, <3>4, Zenon DEF FailedIn, Family
    <3> QED
      BY <3>5, ZenonT(60) DEF KeepsClient
  <2> QED
    BY <2>3, <2>4, <2>5, <2>6, Zenon DEF KeepsClient
<1> QED
  BY <1>2, <1>3, Zenon

\* While a session goes on its client holds an unrevoked token, or a refresh is
\* about to hand it one, unless one of its refreshes failed.
THEOREM ClientKeepsSession == Spec => []SessionKeepsClient
<1>1. Init => SessionKeepsClient
  BY Zenon DEF Init, SessionKeepsClient
<1> QED
  BY <1>1, Invariance, NextKeepsClient, PTL DEF Spec
=============================================================================
