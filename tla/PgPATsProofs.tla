---------------------------- MODULE PgPATsProofs ----------------------------
(***************************************************************************)
(* Personal access tokens on PostgreSQL: the cap holds, what is revoked    *)
(* stays rejected, and a create prunes nothing in use.  For any number of  *)
(* users, tokens and requests, any cap, lifetime and touch interval.       *)
(***************************************************************************)
EXTENDS PgPATs, FiniteSetTheorems, TLAPS

PatRow == [pat : Pat, user : User, expires : Int \cup {Nil}, used : Int \cup {Nil}, created : Int]

Owned == [pat : Pat, user : User]

Db == [users : SUBSET [id : User, email : {NoEmail}], credentials : {{}}, pats : SUBSET PatRow,
       oauth : {{}}, wallets : {{}}, challenges : {{}}]

\* The errors of the service and the store.
Sentinels == {"PATNameRequired", "PATNameTooLong", "PATExpiryInvalid", "PATNotFound",
              "PATLimitReached", "PATExists", "UserNotFound"}

\* The answers of the handlers.
Answers == {"OK", "PermissionDenied", "Unauthenticated", internalError,
            verifyErrorToConnect({"InvalidCredentials"})}
           \cup {patErrorToConnect(e) : e \in SUBSET Sentinels}

RequestRow == [pc : {"idle", "lock", "save", "prune", "insert", "commit", "revoke", "get", "user", "touch"},
               user : User \cup {Nil}, pat : Pat \cup {Nil}, expires : Int \cup {Nil}, now : Int,
               row : PatRow \cup {Nil}, pruned : SUBSET PatRow, fits : BOOLEAN, late : BOOLEAN,
               answer : Answers]

TypeOK == /\ db \in Db
          /\ lock \in [User -> Request \cup {Nil}]
          /\ req \in [Request -> RequestRow]
          /\ made \subseteq Owned
          /\ gone \subseteq made
          /\ clock \in Int

Creating(q) == q.pc \in {"lock", "save", "prune", "insert", "commit"}

\* A create is about a token never stored; its transaction holds the user's row,
\* has pruned only expired rows of that user, and fits only below the cap.  A
\* verification that started after the revocation has yet to read, or has failed.
RequestOK(r, q) ==
  /\ Creating(q) => /\ q.user \in User /\ q.pat \in Pat /\ q.now <= clock
                    /\ \A t \in made : t.pat # q.pat
  /\ q.pc \in {"prune", "insert", "commit"} => lock[q.user] = r
  /\ q.pc = "save" => MaxPerUser = 0
  /\ q.pc = "revoke" => q.user \in User /\ q.pat \in Pat
  /\ q.pc \notin {"insert", "commit"} => q.pruned = {}
  /\ \A t \in q.pruned : t.user = q.user /\ Expired(t, q.now)
  /\ \A u \in User : q.pc = "commit" /\ q.fits /\ q.user = u =>
                      Cardinality(Held(u) \ q.pruned) < MaxPerUser
  /\ q.late => \/ q.pc = "get" /\ \E t \in gone : t.pat = q.pat
               \/ q.pc = "idle" /\ q.answer # "OK"

\* The rows are tokens that were made, and not yet revoked.
RowsOK == /\ \A t \in db.pats : [pat |-> t.pat, user |-> t.user] \in made
          /\ \A t \in gone : \A x \in db.pats : x.pat # t.pat
          /\ \A u \in User : /\ IsFiniteSet(Held(u))
                             /\ MaxPerUser > 0 => Cardinality(Held(u)) <= MaxPerUser

PInv == /\ TypeOK
        /\ RowsOK
        /\ \A t, x \in made : t.pat = x.pat => t = x
        /\ \A r \in Request : RequestOK(r, req[r])
        /\ \A r, s \in Request : Creating(req[r]) /\ Creating(req[s]) /\ req[r].pat = req[s].pat => r = s

-----------------------------------------------------------------------------
(* Facts about the helpers *)

\* A token that is not good is rejected.
LEMMA RejectedIsNotOK == verifyErrorToConnect({"InvalidCredentials"}) # "OK" /\ internalError # "OK"
<1> DEFINE rows == << <<{"InvalidCredentials"}, "Unauthenticated">> >>
           hits == {i \in 1..Len(rows) : rows[i][1] \cap {"InvalidCredentials"} # {}}
<1>1. Len(rows) = 1 /\ rows[1] = <<{"InvalidCredentials"}, "Unauthenticated">>
  BY Zenon
<1>2. hits = {1}
  BY <1>1
<1>3. (CHOOSE i \in hits : \A j \in hits : i <= j) = 1
  BY <1>2
<1> HIDE DEF hits
<1> QED
  BY <1>1, <1>2, <1>3 DEF verifyErrorToConnect, FirstMatch, internalError, hits

LEMMA IdleIs == /\ Idle \in RequestRow /\ Idle.pc = "idle" /\ Idle.pruned = {} /\ Idle.late = FALSE
BY DEF Idle, RequestRow, Answers

\* A touch changes no token's owner, and not how many rows there are.
Touched(S, p, now) == {IF t.pat = p THEN [t EXCEPT !.used = now] ELSE t : t \in S}

LEMMA TouchedIs == ASSUME NEW S \in SUBSET PatRow, NEW p, NEW now, IsFiniteSet(S)
                   PROVE  /\ IsFiniteSet(Touched(S, p, now))
                          /\ Cardinality(Touched(S, p, now)) <= Cardinality(S)
<1> DEFINE T == Touched(S, p, now)
           f == [t \in S |-> IF t.pat = p THEN [t EXCEPT !.used = now] ELSE t]
<1>1. f \in [S -> T] /\ \A y \in T : \E t \in S : f[t] = y
  BY Zenon DEF Touched
<1>2. f \in Surjection(S, T)
  BY <1>1, ZenonT(40) DEF Surjection
<1> HIDE DEF f, T
<1>3. IsFiniteSet(T) /\ Cardinality(T) <= Cardinality(S)
  BY <1>2, FS_Surjection, Zenon
<1> QED
  BY <1>3, Zenon DEF T

\* What Answer leaves of a request.
Answered(r) == /\ req' = [req EXCEPT ![r] = req'[r]]
               /\ req'[r] \in RequestRow
               /\ req'[r].pc = "idle" /\ req'[r].pruned = {} /\ req'[r].late = req[r].late
               /\ lock' = [u \in User |-> IF lock[u] = r THEN Nil ELSE lock[u]]

LEMMA AnswerIs == ASSUME TypeOK, NEW r \in Request, NEW code \in Answers, Answer(r, code)
                  PROVE  Answered(r) /\ req'[r].answer = code
<1> DEFINE q == [Idle EXCEPT !.late = req[r].late, !.answer = code]
<1>1. req[r].late \in BOOLEAN
  BY Zenon DEF TypeOK, RequestRow
<1>2. /\ q \in RequestRow /\ q.pc = "idle" /\ q.pruned = {} /\ q.late = req[r].late /\ q.answer = code
  <2>1. q \in RequestRow /\ q.late = req[r].late /\ q.answer = code
    BY <1>1, IdleIs, ZenonT(40) DEF RequestRow
  <2>2. q.pc = Idle.pc /\ q.pruned = Idle.pruned
    BY IdleIs, Zenon DEF RequestRow
  <2> QED
    BY <2>1, <2>2, IdleIs, Zenon
<1>3. req' = [req EXCEPT ![r] = q] /\ lock' = [u \in User |-> IF lock[u] = r THEN Nil ELSE lock[u]]
  BY Zenon DEF Answer
<1> HIDE DEF q
<1>4. req'[r] = q
  BY <1>3, Zenon DEF TypeOK
<1> QED
  BY <1>2, <1>3, <1>4, ZenonT(40) DEF Answered

LEMMA WrittenIs == ASSUME TypeOK, NEW r \in Request, NEW code \in Answers, Written(r, code)
                   PROVE  Answered(r) /\ req'[r].answer \in {code, internalError}
<1>1. PICK c \in {code, internalError} : Answer(r, c)
  BY Zenon DEF Written
<1>2. c \in Answers
  BY <1>1, Zenon DEF Answers
<1> QED
  BY <1>1, <1>2, AnswerIs, Zenon

-----------------------------------------------------------------------------
(* Steps that write no row *)

LEMMA InitPInv == Init => PInv
<1> SUFFICES ASSUME Init PROVE PInv
  BY Zenon
<1> DEFINE everyone == {[id |-> u, email |-> NoEmail] : u \in User}
<1>1. everyone \in SUBSET [id : User, email : {NoEmail}]
  OBVIOUS
<1>2. db = [Pg!Tables EXCEPT !.users = everyone]
  BY Zenon DEF Init
<1> HIDE DEF everyone
<1>3. db \in Db
  BY <1>1, <1>2, Zenon DEF Pg!Tables, Db
<1>4. lock \in [User -> Request \cup {Nil}] /\ req \in [Request -> RequestRow]
  BY IdleIs, Zenon DEF Init
<1>5. made = {} /\ gone = {} /\ clock = 0 /\ \A r \in Request : req[r] = Idle
  BY Zenon DEF Init
<1>6. TypeOK
  BY <1>3, <1>4, <1>5 DEF TypeOK
<1>7. db.pats = {}
  BY <1>2, Zenon DEF Pg!Tables
<1>8. \A u \in User : Held(u) = {}
  BY <1>7, Zenon DEF Held
<1>9. RowsOK
  BY <1>5, <1>7, <1>8, FS_EmptySet, PgPATsAssumption, SMTT(40) DEF RowsOK
<1>10. \A r \in Request : RequestOK(r, req[r]) /\ ~Creating(req[r])
  BY <1>5, IdleIs, Zenon DEF RequestOK, Creating
<1> QED
  BY <1>5, <1>6, <1>9, <1>10, Zenon DEF PInv

\* Request r becomes q; no other request loses its lock.
LEMMA QuietPInv ==
  ASSUME PInv, NEW r \in Request, NEW q \in RequestRow, req' = [req EXCEPT ![r] = q],
         UNCHANGED <<db, made, gone>>, clock' = clock,
         lock' \in [User -> Request \cup {Nil}],
         \A u \in User : lock[u] \in Request /\ lock[u] # r => lock'[u] = lock[u],
         RequestOK(r, q)',
         Creating(q) => \/ Creating(req[r]) /\ q.pat = req[r].pat
                        \/ \A s \in Request : q.pat # req[s].pat
  PROVE  PInv'
<1>1. req'[r] = q /\ (\A s \in Request : s # r => req'[s] = req[s]) /\ TypeOK'
  BY Zenon DEF PInv, TypeOK
<1>2. RowsOK'
  BY Zenon DEF PInv, RowsOK, Held
<1>3. ASSUME NEW s \in Request PROVE RequestOK(s, req[s]) /\ (s # r => RequestOK(s, req[s])')
  <2>1. RequestOK(s, req[s]) /\ req[s] \in RequestRow
    BY Zenon DEF PInv, TypeOK
  <2>2. s # r /\ req[s].pc \in {"prune", "insert", "commit"} => lock'[req[s].user] = s
    BY <2>1, Zenon DEF RequestOK, Creating
  <2>3. ASSUME s # r PROVE RequestOK(s, req[s])'
    <3>1. req'[s] = req[s]
      BY <1>1, <2>3, Zenon
    <3>2. req[s].pc \in {"prune", "insert", "commit"} => lock'[req[s].user] = s
      BY <2>2, <2>3, Zenon
    <3>3. \A u \in User : Held(u)' = Held(u)
      BY Zenon DEF Held
    <3> QED
      BY <2>1, <3>1, <3>2, <3>3, SMTT(40) DEF RequestOK
  <2> QED
    BY <2>1, <2>3, Zenon
<1>4. \A s, t \in Request : Creating(req'[s]) /\ Creating(req'[t]) /\ req'[s].pat = req'[t].pat => s = t
  BY <1>1 DEF PInv
<1> QED
  BY <1>1, <1>2, <1>3, <1>4, Zenon DEF PInv

\* A request is answered, with "OK" only if it is not late.
LEMMA AnsweredPInv ==
  ASSUME PInv, NEW r \in Request, Answered(r), UNCHANGED <<db, made, gone>>, clock' = clock,
         req[r].late => req'[r].answer # "OK"
  PROVE  PInv'
<1>1. PICK q : q = req'[r]
  BY Zenon
<1>2. /\ q \in RequestRow /\ q.pc = "idle" /\ q.pruned = {} /\ (q.late => q.answer # "OK")
      /\ req' = [req EXCEPT ![r] = q]
  BY <1>1, Zenon DEF Answered
<1>3. lock' \in [User -> Request \cup {Nil}]
  BY Zenon DEF Answered, PInv, TypeOK
<1>4. \A u \in User : lock[u] \in Request /\ lock[u] # r => lock'[u] = lock[u]
  BY Zenon DEF Answered
<1>5. RequestOK(r, q)' /\ ~Creating(q)
  BY <1>2, Zenon DEF RequestOK, Creating
<1> QED
  BY <1>2, <1>3, <1>4, <1>5, QuietPInv, ZenonT(40)

\* A handler answers at once.
LEMMA ReplyPInv == ASSUME PInv, NEW r \in Request, NEW code \in Answers, Reply(r, code) PROVE PInv'
<1> DEFINE q == [Idle EXCEPT !.answer = code]
<1>1. q \in RequestRow /\ q.pc = Idle.pc /\ q.pruned = Idle.pruned /\ q.late = Idle.late
  BY IdleIs, Zenon DEF RequestRow
<1>2. req' = [req EXCEPT ![r] = q] /\ UNCHANGED <<db, lock, made, gone, clock>>
  BY Zenon DEF Reply
<1> HIDE DEF q
<1>3. RequestOK(r, q)' /\ ~Creating(q)
  BY <1>1, IdleIs, Zenon DEF RequestOK, Creating
<1> QED
  BY <1>1, <1>2, <1>3, QuietPInv, ZenonT(40) DEF PInv, TypeOK

\* A request starts, with nothing pruned.
LEMMA BeginPInv ==
  ASSUME PInv, NEW r \in Request, NEW q \in RequestRow, Begin(r, q), q.pruned = {},
         \/ /\ q.pc \in {"lock", "save"} /\ q.late = FALSE
            /\ q.pc = "save" => MaxPerUser = 0
            /\ q.user \in User /\ q.pat \in Pat /\ q.now <= clock
            /\ \A t \in made : t.pat # q.pat
            /\ \A s \in Request : q.pat # req[s].pat
         \/ /\ q.pc = "revoke" /\ q.user \in User /\ q.pat \in Pat /\ q.late = FALSE
         \/ /\ q.pc = "get"
            /\ q.late => \E t \in gone : t.pat = q.pat
  PROVE  PInv'
<1>1. req' = [req EXCEPT ![r] = q] /\ UNCHANGED <<db, lock, made, gone, clock>>
  BY Zenon DEF Begin
<1>2. RequestOK(r, q)'
  BY <1>1, Zenon DEF RequestOK, Creating
<1>3. Creating(q) => \A s \in Request : q.pat # req[s].pat
  BY Zenon DEF Creating
<1> QED
  BY <1>1, <1>2, <1>3, QuietPInv, ZenonT(40) DEF PInv, TypeOK

LEMMA CreateErrorsType ==
  ASSUME TypeOK, NEW name \in {"good", "blank", "long"}, NEW expires \in {Nil} \cup Int
  PROVE  CreateErrors(name, expires) \in SUBSET Sentinels
BY Zenon DEF CreateErrors, Sentinels

LEMMA CreatePInv ==
  ASSUME PInv, NEW r \in Request, NEW u \in User, NEW name \in {"good", "blank", "long"},
         NEW expires \in {Nil} \cup 0..(MaxClock + 1), CreatePAT(r, u, name, expires)
  PROVE  PInv'
<1> DEFINE q == [Idle EXCEPT !.pc = IF MaxPerUser > 0 THEN "lock" ELSE "save",
                             !.user = u, !.expires = expires, !.now = clock]
           err == CreateErrors(name, expires)
           drawn == {t.pat : t \in made} \cup {req[x].pat : x \in Request}
<1>1. expires \in {Nil} \cup Int /\ clock \in Int /\ MaxPerUser \in Nat
  BY PgPATsAssumption DEF PInv, TypeOK
<1>2. err \in SUBSET Sentinels
  BY <1>1, CreateErrorsType, Zenon DEF PInv
<1> HIDE DEF err
<1>3. CASE Reply(r, patErrorToConnect(err))
  BY <1>2, <1>3, ReplyPInv, ZenonT(40) DEF Answers
<1>4. ASSUME NEW p \in Pat \ drawn, Begin(r, [q EXCEPT !.pat = p]) PROVE PInv'
  <2> DEFINE new == [q EXCEPT !.pat = p]
  <2>1. /\ q \in RequestRow /\ q.pc = (IF MaxPerUser > 0 THEN "lock" ELSE "save")
        /\ q.user = u /\ q.now = clock /\ q.pruned = Idle.pruned /\ q.late = Idle.late
    BY <1>1, IdleIs, ZenonT(40) DEF RequestRow
  <2> HIDE DEF q
  <2>2. /\ new \in RequestRow /\ new.pc = q.pc /\ new.user = q.user /\ new.now = q.now
        /\ new.pruned = q.pruned /\ new.late = q.late /\ new.pat = p
    BY <2>1, Zenon DEF RequestRow
  <2>3. (\A t \in made : t.pat # p) /\ (\A s \in Request : p # req[s].pat)
    BY Zenon
  <2> HIDE DEF new, drawn
  <2>4. new.pc \in {"lock", "save"} /\ (new.pc = "save" => MaxPerUser = 0)
    BY <1>1, <2>1, <2>2
  <2>5. Begin(r, new)
    BY <1>4, Zenon DEF new
  <2>6. new.user \in User /\ new.now <= clock /\ new.pruned = {} /\ new.late = FALSE
    BY <1>1, <2>1, <2>2, IdleIs
  <2> QED
    BY <2>2, <2>3, <2>4, <2>5, <2>6, BeginPInv, ZenonT(40)
<1> QED
  BY <1>3, <1>4, ZenonT(40) DEF CreatePAT, err

LEMMA VerifyPInv == ASSUME PInv, NEW r \in Request, NEW cred \in Credentials, Verify(r, cred)
                    PROVE  PInv'
<1>1. CASE cred # "pat"
  <2> DEFINE code == CASE cred = "session" -> "OK"
                       [] cred = "invalid" -> verifyErrorToConnect({"InvalidCredentials"})
                       [] cred = "none"    -> "Unauthenticated"
  <2>1. code \in Answers
    BY <1>1, Zenon DEF Credentials, Answers
  <2>2. Reply(r, code)
    BY <1>1, ZenonT(40) DEF Verify
  <2> HIDE DEF code
  <2> QED
    BY <2>1, <2>2, ReplyPInv, Zenon
<1>2. CASE cred = "pat"
  <2>1. PICK t \in made : Begin(r, [Idle EXCEPT !.pc = "get", !.pat = t.pat, !.late = t \in gone])
    BY <1>2, ZenonT(40) DEF Verify
  <2>2. t.pat \in Pat
    BY Zenon DEF PInv, TypeOK, Owned
  <2>3. ASSUME NEW late \in BOOLEAN, late => t \in gone,
               Begin(r, [Idle EXCEPT !.pc = "get", !.pat = t.pat, !.late = late])
        PROVE  PInv'
    <3> DEFINE q == [Idle EXCEPT !.pc = "get", !.pat = t.pat, !.late = late]
    <3>1. q \in RequestRow /\ q.pc = "get" /\ q.pat = t.pat /\ q.late = late /\ q.pruned = Idle.pruned
      BY <2>2, IdleIs, ZenonT(40) DEF RequestRow
    <3> HIDE DEF q
    <3>2. Begin(r, q)
      BY <2>3, Zenon DEF q
    <3> QED
      BY <2>3, <3>1, <3>2, IdleIs, BeginPInv, ZenonT(40)
  <2>4. CASE t \in gone
    <3>1. (t \in gone) = TRUE
      BY <2>4, Zenon
    <3> QED
      BY <2>1, <2>3, <2>4, <3>1, Zenon
  <2>5. CASE t \notin gone
    <3>1. (t \in gone) = FALSE
      BY <2>5
    <3> QED
      BY <2>1, <2>3, <3>1, Zenon
  <2> QED
    BY <2>4, <2>5, Zenon
<1> QED
  BY <1>1, <1>2, Zenon

LEMMA RevokePInv ==
  ASSUME PInv, NEW r \in Request, NEW u \in User, NEW p \in {t.pat : t \in made} \cup {Nil},
         RevokePAT(r, u, p)
  PROVE  PInv'
<1>1. CASE p = Nil /\ Reply(r, patErrorToConnect({"PATNotFound"}))
  BY <1>1, ReplyPInv, ZenonT(40) DEF Answers, Sentinels
<1>2. CASE p # Nil /\ Begin(r, [Idle EXCEPT !.pc = "revoke", !.user = u, !.pat = p])
  <2> DEFINE q == [Idle EXCEPT !.pc = "revoke", !.user = u, !.pat = p]
  <2>1. p \in Pat
    BY <1>2, Zenon DEF PInv, TypeOK, Owned
  <2>2. /\ q \in RequestRow /\ q.pc = "revoke" /\ q.user = u /\ q.pat = p
        /\ q.pruned = Idle.pruned /\ q.late = Idle.late
    BY <2>1, IdleIs, ZenonT(40) DEF RequestRow
  <2> HIDE DEF q
  <2>3. Begin(r, q)
    BY <1>2, Zenon DEF q
  <2> QED
    BY <2>1, <2>2, <2>3, IdleIs, BeginPInv, ZenonT(40)
<1> QED
  BY <1>1, <1>2, Zenon DEF RevokePAT

LEMMA HandlePInv == ASSUME PInv, NEW r \in Request, Handle(r) PROVE PInv'
<1>1. CASE Unauthenticated(r)
  <2>1. PICK cred \in Credentials \ {"session"} : Reply(r, authenticateSession(cred))
    BY <1>1, Zenon DEF Unauthenticated
  <2>2. authenticateSession(cred) \in Answers
    BY Zenon DEF authenticateSession, Credentials, Answers
  <2> QED
    BY <2>1, <2>2, ReplyPInv, Zenon
<1>2. ASSUME NEW u \in User, ListPATs(r, u) PROVE PInv'
  <2>1. (IF Pg!ListPATs(db, u).err = "nil" THEN "OK" ELSE internalError) \in Answers
    BY Zenon DEF Answers
  <2> QED
    BY <1>2, <2>1, ReplyPInv, Zenon DEF ListPATs
<1> QED
  BY <1>1, <1>2, CreatePInv, RevokePInv, VerifyPInv, Zenon DEF Handle

\* GetPAT returns a row with the token.
LEMMA GetPATIs == ASSUME NEW s \in Db, NEW p
                  PROVE  Pg!GetPAT(s, p).err = "nil" =>
                           Pg!GetPAT(s, p).val \in s.pats /\ Pg!GetPAT(s, p).val.pat = p
<1>1. CASE ~Pg!Has(s.pats, "pat", p)
  BY <1>1, Zenon DEF Pg!GetPAT, Pg!Fail
<1>2. CASE Pg!Has(s.pats, "pat", p)
  <2> DEFINE row == Pg!QueryRow(s.pats, "pat", p)
  <2>1. row \in s.pats /\ row["pat"] = p
    BY <1>2, Zenon DEF Pg!QueryRow, Pg!Has
  <2>2. row.pat = p
    BY <2>1, Zenon DEF Db, PatRow
  <2> HIDE DEF row
  <2> QED
    BY <1>2, <2>1, <2>2, Zenon DEF Pg!GetPAT, Pg!Found, row
<1> QED
  BY <1>1, <1>2, Zenon

LEMMA GetPATPInv == ASSUME PInv, NEW r \in Request, GetPAT(r) PROVE PInv'
<1> DEFINE got == Pg!GetPAT(db, req[r].pat)
           code == verifyErrorToConnect({"InvalidCredentials"})
<1>1. got.err = "nil" => got.val \in db.pats /\ got.val.pat = req[r].pat
  BY GetPATIs, Zenon DEF PInv, TypeOK
<1> HIDE DEF got
<1>2. req[r].pc = "get" /\ UNCHANGED <<db, made, gone, clock>>
  BY Zenon DEF GetPAT, At
<1>3. CASE Answer(r, code)
  <2>1. code \in Answers
    BY Zenon DEF Answers
  <2> HIDE DEF code
  <2>2. Answered(r) /\ req'[r].answer = code
    BY <1>3, <2>1, AnswerIs, Zenon DEF PInv
  <2> QED
    BY <1>2, <2>2, RejectedIsNotOK, AnsweredPInv, Zenon DEF code
<1>4. CASE /\ got.err = "nil" /\ UNCHANGED lock
            /\ req' = [req EXCEPT ![r] = [req[r] EXCEPT !.pc = "user", !.row = got.val]]
  <2>1. req[r] \in RequestRow /\ got.val \in PatRow
    BY <1>1, <1>4, Zenon DEF PInv, TypeOK, Db
  <2> PICK q : q = [req[r] EXCEPT !.pc = "user", !.row = got.val]
    BY Zenon
  <2>2. /\ q \in RequestRow /\ q.pc = "user" /\ q.pruned = req[r].pruned /\ q.late = req[r].late
        /\ req' = [req EXCEPT ![r] = q]
    BY <1>4, <2>1, ZenonT(40) DEF RequestRow
  <2>3. RequestOK(r, req[r])
    BY Zenon DEF PInv
  <2>4. ~req[r].late
    BY <1>1, <1>2, <1>4, <2>3 DEF PInv, RowsOK, RequestOK
  <2>5. req[r].pruned = {}
    BY <1>2, <2>3, Zenon DEF RequestOK
  <2>6. RequestOK(r, q)' /\ ~Creating(q)
    BY <2>2, <2>4, <2>5, Zenon DEF RequestOK, Creating
  <2> QED
    BY <1>2, <1>4, <2>2, <2>6, QuietPInv, ZenonT(40) DEF PInv, TypeOK
<1> QED
  BY <1>3, <1>4, Zenon DEF GetPAT, got

\* A verification gets this far only if it is not late.
LEMMA NotLate == ASSUME PInv, NEW r \in Request, req[r].pc \notin {"get", "idle"}
                 PROVE  req[r].late = FALSE
<1>1. req[r].late \in BOOLEAN /\ RequestOK(r, req[r])
  BY Zenon DEF PInv, TypeOK, RequestRow
<1> QED
  BY <1>1, Zenon DEF RequestOK

LEMMA GetUserPInv == ASSUME PInv, NEW r \in Request, GetUser(r) PROVE PInv'
<1>1. req[r].pc = "user" /\ UNCHANGED <<db, made, gone, clock>>
  BY Zenon DEF GetUser, At
<1>2. req[r].late = FALSE
  BY <1>1, NotLate, ZenonT(40)
<1>3. ASSUME NEW code \in Answers, Answer(r, code) PROVE PInv'
  BY <1>1, <1>2, <1>3, AnswerIs, AnsweredPInv, Zenon DEF PInv
<1>4. CASE req' = [req EXCEPT ![r] = [req[r] EXCEPT !.pc = "touch", !.now = clock]] /\ UNCHANGED lock
  <2>1. req[r] \in RequestRow /\ clock \in Int
    BY Zenon DEF PInv, TypeOK
  <2> PICK q : q = [req[r] EXCEPT !.pc = "touch", !.now = clock]
    BY Zenon
  <2>2. /\ q \in RequestRow /\ q.pc = "touch" /\ q.pruned = req[r].pruned /\ q.late = req[r].late
        /\ req' = [req EXCEPT ![r] = q]
    BY <1>4, <2>1, ZenonT(40) DEF RequestRow
  <2>3. req[r].pruned = {}
    BY <1>1, Zenon DEF PInv, RequestOK
  <2>4. RequestOK(r, q)' /\ ~Creating(q)
    BY <1>2, <2>2, <2>3, Zenon DEF RequestOK, Creating
  <2> QED
    BY <1>1, <1>4, <2>2, <2>4, QuietPInv, ZenonT(40) DEF PInv, TypeOK
<1> QED
  BY <1>3, <1>4, Zenon DEF GetUser, Answers

LEMMA CancelPInv == ASSUME PInv, NEW r \in Request, Cancel(r) PROVE PInv'
<1>1. Answered(r) /\ req'[r].answer = internalError
  BY AnswerIs, ZenonT(40) DEF Cancel, PInv, Answers
<1> QED
  BY <1>1, AnsweredPInv, RejectedIsNotOK, Zenon DEF Cancel

LEMMA LockUserPInv == ASSUME PInv, NEW r \in Request, LockUser(r) PROVE PInv'
<1> DEFINE u == req[r].user
<1>1. req[r].pc = "lock" /\ UNCHANGED <<db, made, gone, clock>>
  BY Zenon DEF LockUser, At
<1>2. req[r].late = FALSE /\ RequestOK(r, req[r]) /\ req[r] \in RequestRow
  BY <1>1, NotLate, ZenonT(40) DEF PInv, TypeOK
<1>3. CASE Answer(r, patErrorToConnect({"UserNotFound"}))
  <2>1. patErrorToConnect({"UserNotFound"}) \in Answers
    BY Zenon DEF Answers, Sentinels
  <2> QED
    BY <1>1, <1>2, <1>3, <2>1, AnswerIs, AnsweredPInv, Zenon DEF PInv
<1>4. CASE lock[u] = Nil /\ lock' = [lock EXCEPT ![u] = r] /\ GoTo(r, "prune")
  <2> PICK q : q = [req[r] EXCEPT !.pc = "prune"]
    BY ZenonT(40)
  <2>1. /\ q \in RequestRow /\ q.pc = "prune" /\ q.user = u /\ q.pat = req[r].pat /\ q.now = req[r].now
        /\ q.pruned = req[r].pruned /\ q.late = req[r].late
    BY <1>2, Zenon DEF RequestRow
  <2>2. req' = [req EXCEPT ![r] = q]
    BY <1>2, <1>4, Zenon DEF GoTo, PInv, TypeOK
  <2>3. u \in User /\ Creating(req[r])
    BY <1>1, <1>2, Zenon DEF RequestOK, Creating
  <2>4. lock' \in [User -> Request \cup {Nil}] /\ lock'[u] = r
    BY <1>4, <2>3, Zenon DEF PInv, TypeOK
  <2>5. \A v \in User : lock[v] \in Request /\ lock[v] # r => lock'[v] = lock[v]
    BY <1>4, <2>3, PgPATsAssumption, Zenon DEF PInv, TypeOK
  <2>6. RequestOK(r, q)'
    BY <1>1, <1>2, <2>1, <2>3, <2>4, Zenon DEF RequestOK, Creating
  <2> QED
    BY <1>1, <2>1, <2>2, <2>3, <2>4, <2>5, <2>6, QuietPInv, ZenonT(40)
<1> QED
  BY <1>3, <1>4, Zenon DEF LockUser

LEMMA PrunePInv == ASSUME PInv, NEW r \in Request, Prune(r) PROVE PInv'
<1> PICK old : old = PrunedAt(req[r].user, req[r].now)
  BY Zenon
<1> PICK q : q = [req[r] EXCEPT !.pc = "insert", !.pruned = old]
  BY Zenon
<1>1. req[r].pc = "prune" /\ req' = [req EXCEPT ![r] = q] /\ UNCHANGED <<db, lock, made, gone, clock>>
  BY Zenon DEF Prune, At
<1>2. req[r].late = FALSE /\ RequestOK(r, req[r]) /\ req[r] \in RequestRow /\ Creating(req[r])
  BY <1>1, NotLate, ZenonT(40) DEF PInv, TypeOK, Creating
<1>3. old \in SUBSET PatRow /\ \A t \in old : t.user = req[r].user /\ Expired(t, req[r].now)
  BY Zenon DEF PrunedAt, Held, PInv, TypeOK, Db
<1>4. /\ q \in RequestRow /\ q.pc = "insert" /\ q.user = req[r].user /\ q.pat = req[r].pat
      /\ q.now = req[r].now /\ q.pruned = old /\ q.late = req[r].late
  BY <1>2, <1>3, ZenonT(40) DEF RequestRow
<1>5. RequestOK(r, q)'
  BY <1>1, <1>2, <1>3, <1>4, Zenon DEF RequestOK, Creating
<1> QED
  BY <1>1, <1>2, <1>4, <1>5, QuietPInv, ZenonT(40) DEF PInv, TypeOK

LEMMA InsertPInv == ASSUME PInv, NEW r \in Request, Insert(r) PROVE PInv'
<1> DEFINE below == Cardinality(Held(req[r].user) \ req[r].pruned) < MaxPerUser
<1>1. \E b \in BOOLEAN : b = below
  <2>1. CASE below
    BY <2>1, Zenon
  <2>2. CASE ~below
    <3>1. FALSE = below
      BY <2>2
    <3> QED
      BY <3>1, Zenon
  <2> QED
    BY <2>1, <2>2, Zenon
<1> PICK fits \in BOOLEAN : fits = below
  BY <1>1, ZenonT(40)
<1> PICK q : q = [req[r] EXCEPT !.pc = "commit", !.fits = fits]
  BY Zenon
<1>2. req[r].pc = "insert" /\ req' = [req EXCEPT ![r] = q] /\ UNCHANGED <<db, lock, made, gone, clock>>
  BY Zenon DEF Insert, At
<1>3. req[r].late = FALSE /\ RequestOK(r, req[r]) /\ req[r] \in RequestRow /\ Creating(req[r])
  BY <1>2, NotLate, ZenonT(40) DEF PInv, TypeOK, Creating
<1>4. \A u \in User : fits /\ req[r].user = u => Cardinality(Held(u) \ req[r].pruned) < MaxPerUser
  BY ZenonT(40)
<1>5. /\ q \in RequestRow /\ q.pc = "commit" /\ q.user = req[r].user /\ q.pat = req[r].pat
      /\ q.now = req[r].now /\ q.pruned = req[r].pruned /\ q.late = req[r].late /\ q.fits = fits
  BY <1>3, ZenonT(40) DEF RequestRow
<1>6. \A u \in User : Held(u)' = Held(u)
  BY <1>2, Zenon DEF Held
<1>7. RequestOK(r, q)'
  BY <1>2, <1>3, <1>4, <1>5, <1>6, ZenonT(40) DEF RequestOK, Creating
<1> QED
  BY <1>2, <1>3, <1>5, <1>7, QuietPInv, ZenonT(40) DEF PInv, TypeOK

-----------------------------------------------------------------------------
(* Steps that write rows *)

\* Those who are about to commit still fit, after the rows have changed.
StillFit == \A s \in Request, u \in User :
              req[s].pc = "commit" /\ req[s].fits /\ req[s].user = u /\ req'[s] = req[s] =>
                Cardinality(Held(u)' \ req[s].pruned) < MaxPerUser

\* A request writes rows and is answered.
LEMMA WritePInv ==
  ASSUME PInv, NEW r \in Request, Answered(r), req[r].late = FALSE, clock' = clock, db' \in Db,
         gone \subseteq gone', gone' \subseteq made', RowsOK', StillFit,
         \/ made' = made
         \/ Creating(req[r]) /\ made' = made \cup {[pat |-> req[r].pat, user |-> req[r].user]}
  PROVE  PInv'
<1>1. /\ \A s \in Request : s # r => req'[s] = req[s]
      /\ req'[r] \in RequestRow /\ req'[r].pc = "idle" /\ req'[r].pruned = {} /\ req'[r].late = FALSE
  BY Zenon DEF Answered, PInv, TypeOK
<1>2. \A s \in Request : RequestOK(s, req[s])
  BY Zenon DEF PInv
<1>3. Creating(req[r]) => [pat |-> req[r].pat, user |-> req[r].user] \in Owned
  BY <1>2, Zenon DEF RequestOK, Owned
<1>4. TypeOK'
  BY <1>1, <1>3, Zenon DEF Answered, PInv, TypeOK
<1>5. \A t, x \in made' : t.pat = x.pat => t = x
  BY <1>2, SMTT(40) DEF PInv, RequestOK
<1>6. ~Creating(req'[r]) /\ RequestOK(r, req[r])'
  BY <1>1, Zenon DEF RequestOK, Creating
<1>7. ASSUME NEW s \in Request, s # r PROVE RequestOK(s, req[s])'
  <2>1. req'[s] = req[s] /\ RequestOK(s, req[s])
    BY <1>1, <1>2, <1>7, Zenon
  <2>2. Creating(req[s]) => \A t \in made' : t.pat # req[s].pat
    BY <1>7, <2>1, SMTT(40) DEF PInv, RequestOK
  <2>3. req[s].pc \in {"prune", "insert", "commit"} => lock'[req[s].user] = s
    BY <1>7, <2>1, Zenon DEF Answered, RequestOK, Creating
  <2>4. \A u \in User : req[s].pc = "commit" /\ req[s].fits /\ req[s].user = u =>
                          Cardinality(Held(u)' \ req[s].pruned) < MaxPerUser
    BY <2>1, ZenonT(40) DEF StillFit
  <2> QED
    BY <2>1, <2>2, <2>3, <2>4, ZenonT(40) DEF RequestOK
<1>8. \A s, t \in Request : Creating(req'[s]) /\ Creating(req'[t]) /\ req'[s].pat = req'[t].pat => s = t
  BY <1>1, <1>6, Zenon DEF PInv
<1> QED
  BY <1>4, <1>5, <1>6, <1>7, <1>8, Zenon DEF PInv

\* Rows go: the cap is no concern.
LEMMA FewerRows ==
  ASSUME PInv, db'.pats \subseteq db.pats, made' = made,
         \A t \in gone' : \A x \in db'.pats : x.pat # t.pat
  PROVE  RowsOK' /\ StillFit
<1>1. ASSUME NEW u \in User, NEW S
      PROVE  /\ IsFiniteSet(Held(u)' \ S) /\ IsFiniteSet(Held(u) \ S)
             /\ Cardinality(Held(u)' \ S) <= Cardinality(Held(u) \ S)
             /\ Cardinality(Held(u)' \ S) \in Nat /\ Cardinality(Held(u) \ S) \in Nat
  <2>1. Held(u)' \ S \in SUBSET (Held(u) \ S) /\ Held(u) \ S \in SUBSET Held(u)
    BY Zenon DEF Held
  <2>2. IsFiniteSet(Held(u))
    BY Zenon DEF PInv, RowsOK
  <2>3. IsFiniteSet(Held(u) \ S)
    BY <2>1, <2>2, FS_Subset, Zenon
  <2> QED
    BY <2>1, <2>3, FS_Subset, FS_CardinalityType, Zenon
<1>2. \A u \in User : IsFiniteSet(Held(u)') /\ (MaxPerUser > 0 => Cardinality(Held(u)') <= MaxPerUser)
  <2> SUFFICES ASSUME NEW u \in User
               PROVE  IsFiniteSet(Held(u)') /\ (MaxPerUser > 0 => Cardinality(Held(u)') <= MaxPerUser)
    BY Zenon
  <2>1. Held(u)' \ {} = Held(u)' /\ Held(u) \ {} = Held(u)
    BY Zenon
  <2>2. /\ IsFiniteSet(Held(u)' \ {})
        /\ Cardinality(Held(u)' \ {}) <= Cardinality(Held(u) \ {})
        /\ Cardinality(Held(u)' \ {}) \in Nat /\ Cardinality(Held(u) \ {}) \in Nat
    BY <1>1, ZenonT(40)
  <2>3. MaxPerUser > 0 => Cardinality(Held(u)) <= MaxPerUser
    BY Zenon DEF PInv, RowsOK
  <2> QED
    BY <2>1, <2>2, <2>3, PgPATsAssumption, SMTT(40)
<1>3. RowsOK'
  BY <1>2, Zenon DEF PInv, RowsOK
<1>4. StillFit
  <2> SUFFICES ASSUME NEW s \in Request, NEW u \in User,
                      req[s].pc = "commit", req[s].fits, req[s].user = u
               PROVE  Cardinality(Held(u)' \ req[s].pruned) < MaxPerUser
    BY Zenon DEF StillFit
  <2>1. Cardinality(Held(u) \ req[s].pruned) < MaxPerUser
    BY Zenon DEF PInv, RequestOK
  <2>2. /\ Cardinality(Held(u)' \ req[s].pruned) <= Cardinality(Held(u) \ req[s].pruned)
        /\ Cardinality(Held(u)' \ req[s].pruned) \in Nat /\ Cardinality(Held(u) \ req[s].pruned) \in Nat
    BY <1>1, ZenonT(40)
  <2> QED
    BY <2>1, <2>2, PgPATsAssumption
<1> QED
  BY <1>3, <1>4, Zenon

LEMMA SavePATPInv == ASSUME PInv, NEW r \in Request, SavePAT(r) PROVE PInv'
<1> PICK row : row = Row(req[r])
  BY Zenon
<1> DEFINE saved == Pg!SavePAT(db, row)
           code == IF saved.err = "nil" THEN "OK" ELSE patErrorToConnect({saved.err})
<1>1. /\ req[r].pc = "save" /\ db' = saved.store /\ Written(r, code) /\ UNCHANGED <<gone, clock>>
      /\ made' = IF saved.err = "nil" THEN made \cup {[pat |-> req[r].pat, user |-> req[r].user]} ELSE made
  BY Zenon DEF SavePAT, At
<1>2. /\ req[r].late = FALSE /\ RequestOK(r, req[r]) /\ req[r] \in RequestRow /\ Creating(req[r])
      /\ db \in Db
  BY <1>1, NotLate, ZenonT(40) DEF PInv, TypeOK, Creating
<1>3. MaxPerUser = 0 /\ req[r].user \in User /\ req[r].pat \in Pat /\ \A t \in made : t.pat # req[r].pat
  BY <1>1, <1>2, Zenon DEF RequestOK
<1>4. row \in PatRow /\ row.pat = req[r].pat /\ row.user = req[r].user
  BY <1>2, <1>3, ZenonT(40) DEF Row, PatRow, RequestRow
<1>5. \/ saved.store = db /\ saved.err \in {"PATExists", "UserNotFound"}
      \/ saved.err = "nil" /\ saved.store = [db EXCEPT !.pats = @ \cup {row}]
  BY Zenon DEF Pg!SavePAT, Pg!InsertPAT, Pg!Fail, Pg!Done
<1> HIDE DEF saved
<1>6. code \in Answers
  BY <1>5, Zenon DEF Answers, Sentinels
<1> HIDE DEF code
<1>7. Answered(r)
  BY <1>1, <1>6, WrittenIs, ZenonT(40) DEF PInv
<1>8. /\ db' \in Db
      /\ \/ db'.pats = db.pats /\ made' = made
         \/ /\ db'.pats = db.pats \cup {row}
            /\ made' = made \cup {[pat |-> req[r].pat, user |-> req[r].user]}
  BY <1>1, <1>2, <1>4, <1>5 DEF Db
<1>9. \A u \in User : IsFiniteSet(Held(u)')
  <2> SUFFICES ASSUME NEW u \in User PROVE IsFiniteSet(Held(u)')
    BY Zenon
  <2>1. IsFiniteSet(Held(u)) /\ IsFiniteSet(Held(u) \cup {row})
    BY FS_AddElement, Zenon DEF PInv, RowsOK
  <2>2. Held(u)' \in SUBSET (Held(u) \cup {row})
    BY <1>8, Zenon DEF Held
  <2> QED
    BY <2>1, <2>2, FS_Subset, Zenon
<1>10. RowsOK'
  <2>1. \A t \in db'.pats : [pat |-> t.pat, user |-> t.user] \in made'
    BY <1>4, <1>8, ZenonT(40) DEF PInv, RowsOK
  <2>2. \A t \in gone' : \A x \in db'.pats : x.pat # t.pat
    BY <1>1, <1>3, <1>4, <1>8, ZenonT(40) DEF PInv, RowsOK, TypeOK
  <2> QED
    BY <1>3, <1>9, <2>1, <2>2, SMTT(40) DEF RowsOK
<1>11. StillFit
  <2> SUFFICES ASSUME NEW s \in Request, NEW u \in User,
                      req[s].pc = "commit", req[s].fits, req[s].user = u
               PROVE  FALSE
    BY Zenon DEF StillFit
  <2>1. Cardinality(Held(u) \ req[s].pruned) < 0
    BY <1>3, Zenon DEF PInv, RequestOK
  <2>2. Held(u) \ req[s].pruned \in SUBSET Held(u) /\ IsFiniteSet(Held(u))
    BY Zenon DEF PInv, RowsOK
  <2>3. Cardinality(Held(u) \ req[s].pruned) \in Nat
    BY <2>2, FS_Subset, FS_CardinalityType, Zenon
  <2> QED
    BY <2>1, <2>3
<1>12. gone \subseteq gone' /\ gone' \subseteq made' /\ clock' = clock
  BY <1>1, <1>8, Zenon DEF PInv, TypeOK
<1> QED
  BY <1>2, <1>7, <1>8, <1>10, <1>11, <1>12, WritePInv, ZenonT(40)

\* The transaction that commits holds the user's row, so it is alone in counting.
LEMMA CommitPInv == ASSUME PInv, NEW r \in Request, Commit(r) PROVE PInv'
<1> DEFINE code == IF req[r].fits THEN "OK" ELSE patErrorToConnect({"PATLimitReached"})
<1>1. req[r].pc = "commit" /\ UNCHANGED <<gone, clock>>
  BY Zenon DEF Commit, At
<1>2. /\ req[r].late = FALSE /\ RequestOK(r, req[r]) /\ req[r] \in RequestRow /\ Creating(req[r])
      /\ db \in Db
  BY <1>1, NotLate, ZenonT(40) DEF PInv, TypeOK, Creating
<1>3. /\ req[r].user \in User /\ req[r].pat \in Pat /\ lock[req[r].user] = r
      /\ \A t \in made : t.pat # req[r].pat
      /\ \A t \in req[r].pruned : t.user = req[r].user
  BY <1>1, <1>2, Zenon DEF RequestOK
<1>4. code \in Answers
  BY Zenon DEF Answers, Sentinels
<1>5. Answered(r)
  <2>1. Written(r, code)
    BY Zenon DEF Commit
  <2> QED
    BY <1>4, <2>1, WrittenIs, Zenon DEF PInv
<1> HIDE DEF code
<1>6. CASE ~req[r].fits
  <2>1. db' = [db EXCEPT !.pats = (@ \ req[r].pruned) \cup {}] /\ made' = made
    BY <1>6, Zenon DEF Commit
  <2>2. db' \in Db /\ db'.pats \subseteq db.pats
    BY <1>2, <2>1, Zenon DEF Db
  <2>3. \A t \in gone' : \A x \in db'.pats : x.pat # t.pat
    BY <1>1, <2>2, Zenon DEF PInv, RowsOK
  <2> QED
    BY <1>1, <1>2, <1>5, <2>1, <2>2, <2>3, FewerRows, WritePInv, ZenonT(40) DEF PInv, TypeOK
<1>7. CASE req[r].fits
  <2> PICK row : row = Row(req[r])
    BY Zenon
  <2>1. /\ db' = [db EXCEPT !.pats = (@ \ req[r].pruned) \cup {row}]
        /\ made' = made \cup {[pat |-> req[r].pat, user |-> req[r].user]}
    BY <1>7, Zenon DEF Commit
  <2>2. row \in PatRow /\ row.pat = req[r].pat /\ row.user = req[r].user
    BY <1>2, <1>3, Zenon DEF Row, PatRow, RequestRow
  <2>3. db' \in Db /\ db'.pats = (db.pats \ req[r].pruned) \cup {row}
    BY <1>2, <2>1, <2>2, Zenon DEF Db
  <2>4. \A u \in User : IsFiniteSet(Held(u)) /\ (MaxPerUser > 0 => Cardinality(Held(u)) <= MaxPerUser)
    BY ZenonT(40) DEF PInv, RowsOK
  <2>5. ASSUME NEW u \in User, u = req[r].user
        PROVE  IsFiniteSet(Held(u)') /\ Cardinality(Held(u)') <= MaxPerUser
    <3> PICK rest : rest = Held(u) \ req[r].pruned
      BY ZenonT(40)
    <3>1. Held(u)' = rest \cup {row}
      BY <2>2, <2>3, <2>5, Zenon DEF Held
    <3>2. rest \in SUBSET Held(u) /\ IsFiniteSet(Held(u))
      BY <2>4, Zenon
    <3>3. IsFiniteSet(rest) /\ Cardinality(rest) \in Nat
      BY <3>2, FS_Subset, FS_CardinalityType, Zenon
    <3>4. Cardinality(rest) < MaxPerUser
      BY <1>1, <1>2, <1>7, <2>5, Zenon DEF RequestOK
    <3>5. /\ IsFiniteSet(rest \cup {row})
          /\ Cardinality(rest \cup {row}) = IF row \in rest THEN Cardinality(rest) ELSE Cardinality(rest) + 1
      BY <3>3, FS_AddElement, ZenonT(40)
    <3> QED
      BY <3>1, <3>3, <3>4, <3>5, PgPATsAssumption, SMTT(40)
  <2>6. ASSUME NEW u \in User, u # req[r].user PROVE Held(u)' = Held(u)
    BY <1>3, <2>2, <2>3, <2>6, Zenon DEF Held
  <2>7. \A u \in User : IsFiniteSet(Held(u)') /\ (MaxPerUser > 0 => Cardinality(Held(u)') <= MaxPerUser)
    <3> SUFFICES ASSUME NEW u \in User
                 PROVE  IsFiniteSet(Held(u)') /\ (MaxPerUser > 0 => Cardinality(Held(u)') <= MaxPerUser)
      BY Zenon
    <3>1. CASE u = req[r].user
      BY <2>5, <3>1, Zenon
    <3>2. CASE u # req[r].user
      <4>1. Held(u)' = Held(u)
        BY <2>6, <3>2, Zenon
      <4> QED
        BY <2>4, <4>1, Zenon
    <3> QED
      BY <3>1, <3>2, Zenon
  <2>8. \A t \in db'.pats : [pat |-> t.pat, user |-> t.user] \in made'
    BY <2>1, <2>2, <2>3, ZenonT(40) DEF PInv, RowsOK
  <2>9. \A t \in gone' : \A x \in db'.pats : x.pat # t.pat
    BY <1>1, <1>3, <2>2, <2>3, Zenon DEF PInv, RowsOK, TypeOK
  <2>10. RowsOK'
    BY <2>7, <2>8, <2>9, Zenon DEF RowsOK
  <2>11. StillFit
    <3> SUFFICES ASSUME NEW s \in Request, NEW u \in User,
                        req[s].pc = "commit", req[s].fits, req[s].user = u, req'[s] = req[s]
                 PROVE  Cardinality(Held(u)' \ req[s].pruned) < MaxPerUser
      BY Zenon DEF StillFit
    <3>1. s # r
      BY <1>1, <1>5, Zenon DEF Answered
    <3>2. lock[u] = s /\ Cardinality(Held(u) \ req[s].pruned) < MaxPerUser
      BY Zenon DEF PInv, RequestOK
    <3>3. Held(u)' = Held(u)
      BY <1>3, <2>6, <3>1, <3>2, Zenon
    <3> QED
      BY <3>2, <3>3, Zenon
  <2>12. gone \subseteq gone' /\ gone' \subseteq made' /\ clock' = clock
    BY <1>1, <2>1, Zenon DEF PInv, TypeOK
  <2> QED
    BY <1>2, <1>5, <2>1, <2>3, <2>10, <2>11, <2>12, WritePInv, ZenonT(40)
<1> QED
  BY <1>6, <1>7, Zenon

\* A revocation leaves no row of the token: a token has one owner.
LEMMA DeletePATPInv == ASSUME PInv, NEW r \in Request, DeletePAT(r) PROVE PInv'
<1> PICK doomed : doomed = {t \in db.pats : t.pat = req[r].pat /\ t.user = req[r].user}
  BY ZenonT(40)
<1> DEFINE deleted == Pg!DeletePAT(db, req[r].user, req[r].pat)
           code == IF deleted.err = "nil" THEN "OK" ELSE patErrorToConnect({"PATNotFound"})
<1>1. /\ req[r].pc = "revoke" /\ db' = deleted.store /\ Written(r, code) /\ UNCHANGED <<made, clock>>
      /\ gone' = IF req'[r].answer # internalError
                   THEN gone \cup ({[pat |-> req[r].pat, user |-> req[r].user]} \cap made) ELSE gone
  BY Zenon DEF DeletePAT, At
<1>2. req[r].late = FALSE /\ db \in Db
  BY <1>1, NotLate, ZenonT(40) DEF PInv, TypeOK
<1>3. \/ doomed = {} /\ deleted.store = db
      \/ deleted.store = [db EXCEPT !.pats = @ \ doomed]
  BY Zenon DEF Pg!DeletePAT, Pg!Fail, Pg!Done
<1>4. code \in Answers
  BY Zenon DEF Answers, Sentinels
<1> HIDE DEF deleted, code
<1>5. Answered(r)
  BY <1>1, <1>4, WrittenIs, ZenonT(40) DEF PInv
<1>6. db' \in Db /\ db'.pats = db.pats \ doomed
  BY <1>1, <1>2, <1>3, SMTT(40) DEF Db
<1>6a. \/ gone' = gone
      \/ gone' = gone \cup ({[pat |-> req[r].pat, user |-> req[r].user]} \cap made)
  BY <1>1, Zenon
<1>7. gone \subseteq gone' /\ gone' \subseteq made' /\ clock' = clock /\ made' = made
  <2>1. gone \subseteq made
    BY Zenon DEF PInv, TypeOK
  <2>2. clock' = clock /\ made' = made
    BY <1>1, Zenon
  <2> QED
    BY <1>6a, <2>1, <2>2, Zenon
<1>8. ASSUME NEW t \in gone', NEW x \in db'.pats, x.pat = t.pat PROVE FALSE
  <2>1. CASE t \in gone
    BY <1>6, <1>8, <2>1, Zenon DEF PInv, RowsOK
  <2>2. CASE t = [pat |-> req[r].pat, user |-> req[r].user] /\ t \in made
    <3>0. x \in db.pats /\ x \notin doomed
      BY <1>6, ZenonT(40)
    <3>1. x \in db.pats /\ x \notin doomed /\ [pat |-> x.pat, user |-> x.user] \in made
      BY <3>0, ZenonT(40) DEF PInv, RowsOK
    <3>2. [pat |-> x.pat, user |-> x.user] = t
      BY <1>8, <2>2, <3>1, Zenon DEF PInv
    <3> QED
      BY <2>2, <3>1, <3>2, SMTT(40)
  <2> QED
    BY <1>6a, <2>1, <2>2, ZenonT(40)
<1>9. RowsOK' /\ StillFit
  BY <1>6, <1>7, <1>8, FewerRows, Zenon
<1> QED
  BY <1>2, <1>5, <1>6, <1>7, <1>9, WritePInv, ZenonT(40)

\* A touch leaves every token where it was, and waits for rows that are pruned.
LEMMA TouchPATPInv == ASSUME PInv, NEW r \in Request, TouchPAT(r) PROVE PInv'
<1> PICK p, now : p = req[r].pat /\ now = req[r].now
  BY Zenon
<1>1. /\ req[r].pc = "touch" /\ UNCHANGED <<made, gone, clock>> /\ Unlocked(p)
      /\ Answer(r, "OK")
      /\ \/ db' = db
         \/ db' = Pg!TouchPAT(db, p, now).store
  BY Zenon DEF TouchPAT, At
<1>2. req[r].late = FALSE /\ db \in Db /\ now \in Int
  BY <1>1, NotLate, ZenonT(40) DEF PInv, TypeOK, RequestRow
<1>3. Answered(r)
  BY <1>1, AnswerIs, ZenonT(40) DEF PInv, Answers
<1>4. gone \subseteq gone' /\ gone' \subseteq made' /\ clock' = clock /\ made' = made
  BY <1>1, Zenon DEF PInv, TypeOK
<1>5. CASE db' = db
  <2>1. RowsOK' /\ StillFit
    BY <1>1, <1>5, FewerRows, Zenon DEF PInv, RowsOK
  <2> QED
    BY <1>2, <1>3, <1>4, <1>5, <2>1, WritePInv, ZenonT(40)
<1>6. CASE db' = Pg!TouchPAT(db, p, now).store
  <2>1. db' = [db EXCEPT !.pats = Touched(@, p, now)]
    BY <1>6, Zenon DEF Pg!TouchPAT, Pg!Done, Touched
  <2>2. Touched(db.pats, p, now) \in SUBSET PatRow
    BY <1>2 DEF Touched, Db, PatRow
  <2>3. db' \in Db /\ db'.pats = Touched(db.pats, p, now)
    BY <1>2, <2>1, <2>2, Zenon DEF Db
  <2>4. \A x \in db'.pats : \E t \in db.pats : /\ t.pat = x.pat /\ t.user = x.user
                                               /\ t = x \/ t.pat = p
    BY <1>2, <2>3, Zenon DEF Touched, Db, PatRow
  <2>5. ASSUME NEW u \in User
        PROVE  Held(u)' = Touched(Held(u), p, now)
    BY <1>2, <2>3 DEF Touched, Held, Db, PatRow
  <2>6. ASSUME NEW u \in User, NEW S, \A t \in S : t.pat # p
        PROVE  /\ IsFiniteSet(Held(u)' \ S) /\ Cardinality(Held(u)' \ S) \in Nat
               /\ Cardinality(Held(u) \ S) \in Nat
               /\ Cardinality(Held(u)' \ S) <= Cardinality(Held(u) \ S)
    <3>1. Held(u) \ S \in SUBSET PatRow /\ Held(u) \ S \in SUBSET Held(u) /\ IsFiniteSet(Held(u))
      BY <1>2, ZenonT(40) DEF Held, Db, PInv, RowsOK
    <3>2. IsFiniteSet(Held(u) \ S) /\ Cardinality(Held(u) \ S) \in Nat
      BY <3>1, FS_Subset, FS_CardinalityType, Zenon
    <3> PICK T : T = Touched(Held(u) \ S, p, now)
      BY Zenon
    <3>3. IsFiniteSet(T) /\ Cardinality(T) <= Cardinality(Held(u) \ S) /\ Cardinality(T) \in Nat
      BY <3>1, <3>2, TouchedIs, FS_CardinalityType, Zenon
    <3>4. Held(u)' \ S \in SUBSET T
      BY <2>5, <2>6 DEF Touched
    <3>5. IsFiniteSet(Held(u)' \ S) /\ Cardinality(Held(u)' \ S) <= Cardinality(T)
      BY <3>3, <3>4, FS_Subset, ZenonT(40)
    <3>6. Cardinality(Held(u)' \ S) \in Nat
      BY <3>5, FS_CardinalityType, Zenon
    <3> QED
      BY <3>2, <3>3, <3>5, <3>6, SMTT(40)
  <2>7. \A u \in User : IsFiniteSet(Held(u)') /\ (MaxPerUser > 0 => Cardinality(Held(u)') <= MaxPerUser)
    <3> SUFFICES ASSUME NEW u \in User
                 PROVE  IsFiniteSet(Held(u)') /\ (MaxPerUser > 0 => Cardinality(Held(u)') <= MaxPerUser)
      BY Zenon
    <3>1. Held(u)' \ {} = Held(u)' /\ Held(u) \ {} = Held(u)
      BY Zenon
    <3>2. /\ IsFiniteSet(Held(u)' \ {}) /\ Cardinality(Held(u)' \ {}) \in Nat
          /\ Cardinality(Held(u) \ {}) \in Nat
          /\ Cardinality(Held(u)' \ {}) <= Cardinality(Held(u) \ {})
      BY <2>6, ZenonT(40)
    <3>3. MaxPerUser > 0 => Cardinality(Held(u)) <= MaxPerUser
      BY Zenon DEF PInv, RowsOK
    <3> QED
      BY <3>1, <3>2, <3>3, PgPATsAssumption
  <2>8. RowsOK'
    <3>1. \A t \in db'.pats : [pat |-> t.pat, user |-> t.user] \in made'
      BY <1>4, <2>4, ZenonT(40) DEF PInv, RowsOK
    <3>2. \A t \in gone' : \A x \in db'.pats : x.pat # t.pat
      BY <1>1, <2>4, SMTT(40) DEF PInv, RowsOK
    <3> QED
      BY <2>7, <3>1, <3>2, Zenon DEF RowsOK
  <2>9. StillFit
    <3> SUFFICES ASSUME NEW s \in Request, NEW u \in User,
                        req[s].pc = "commit", req[s].fits, req[s].user = u
                 PROVE  Cardinality(Held(u)' \ req[s].pruned) < MaxPerUser
      BY Zenon DEF StillFit
    <3>1. \A t \in req[s].pruned : t.pat # p
      BY <1>1, Zenon DEF Unlocked
    <3>2. Cardinality(Held(u) \ req[s].pruned) < MaxPerUser
      BY ZenonT(40) DEF PInv, RequestOK
    <3>3. /\ Cardinality(Held(u)' \ req[s].pruned) \in Nat
          /\ Cardinality(Held(u) \ req[s].pruned) \in Nat
          /\ Cardinality(Held(u)' \ req[s].pruned) <= Cardinality(Held(u) \ req[s].pruned)
      BY <2>6, <3>1, ZenonT(40)
    <3> QED
      BY <3>2, <3>3, PgPATsAssumption, SMTT(40)
  <2> QED
    BY <1>2, <1>3, <1>4, <2>3, <2>8, <2>9, WritePInv, ZenonT(40)
<1> QED
  BY <1>1, <1>5, <1>6, Zenon

\* The deletion of a user, as the store sees it.
LEMMA DeleteUserIs ==
  ASSUME PInv, NEW u \in User, DeleteUser(u)
  PROVE  /\ db' \in Db
         /\ db'.pats = {t \in db.pats : t.user # u}
         /\ db'.users = {x \in db.users : x.id # u}
<1>1. Pg!Has(db.users, "id", u) /\ db' = Pg!Delete(db, u).store /\ db \in Db
  BY Zenon DEF DeleteUser, PInv, TypeOK
<1>2. db' = [db EXCEPT !.users = {x \in @ : x.id # u},
                       !.credentials = Pg!Cascade(@, u), !.pats = Pg!Cascade(@, u),
                       !.oauth = Pg!Cascade(@, u), !.wallets = Pg!Cascade(@, u)]
  BY <1>1, Zenon DEF Pg!Delete, Pg!Done
<1> QED
  BY <1>1, <1>2, ZenonT(40) DEF Pg!Cascade, Db

LEMMA DeleteUserPInv == ASSUME PInv, NEW u \in User, DeleteUser(u) PROVE PInv'
<1>1. /\ UNCHANGED <<lock, req, made, clock>> /\ gone' = gone \cup {t \in made : t.user = u}
      /\ db' \in Db /\ db'.pats = {t \in db.pats : t.user # u}
  BY DeleteUserIs, Zenon DEF DeleteUser
<1>2. TypeOK'
  BY <1>1, Zenon DEF PInv, TypeOK
<1>3. ASSUME NEW t \in gone', NEW x \in db'.pats, x.pat = t.pat PROVE FALSE
  <2>1. CASE t \in gone
    BY <1>1, <1>3, <2>1, Zenon DEF PInv, RowsOK
  <2>2. CASE t \in made /\ t.user = u
    <3>1. x.user # u /\ [pat |-> x.pat, user |-> x.user] \in made
      BY <1>1, Zenon DEF PInv, RowsOK
    <3>2. [pat |-> x.pat, user |-> x.user] = t
      BY <1>3, <2>2, <3>1, Zenon DEF PInv
    <3> QED
      BY <2>2, <3>1, <3>2, Zenon
  <2> QED
    BY <1>1, <2>1, <2>2, Zenon
<1>4. RowsOK' /\ StillFit
  BY <1>1, <1>3, FewerRows, Zenon
<1>5. ASSUME NEW s \in Request PROVE RequestOK(s, req[s])'
  <2>1. req'[s] = req[s] /\ RequestOK(s, req[s]) /\ gone \subseteq gone'
    BY <1>1, ZenonT(40) DEF PInv
  <2>2. \A v \in User : req[s].pc = "commit" /\ req[s].fits /\ req[s].user = v =>
                          Cardinality(Held(v)' \ req[s].pruned) < MaxPerUser
    BY <1>4, <2>1, ZenonT(40) DEF StillFit
  <2> QED
    BY <1>1, <2>1, <2>2, ZenonT(40) DEF RequestOK
<1> QED
  BY <1>1, <1>2, <1>4, <1>5, Zenon DEF PInv

LEMMA TickPInv == ASSUME PInv, Tick PROVE PInv'
<1>1. UNCHANGED <<db, lock, req, made, gone>> /\ clock' = clock + 1 /\ clock \in Int
  BY Zenon DEF Tick, PInv, TypeOK
<1>2. TypeOK' /\ RowsOK'
  BY <1>1, SMTT(40) DEF PInv, TypeOK, RowsOK, Held
<1>3. ASSUME NEW s \in Request PROVE RequestOK(s, req[s])'
  <2>1. req'[s] = req[s] /\ RequestOK(s, req[s]) /\ req[s].now \in Int
    BY <1>1, Zenon DEF PInv, TypeOK, RequestRow
  <2>2. \A u \in User : Held(u)' = Held(u)
    BY <1>1, Zenon DEF Held
  <2>3. req[s].now <= clock => req[s].now <= clock'
    BY <1>1, <2>1
  <2> QED
    BY <1>1, <2>1, <2>2, <2>3, ZenonT(40) DEF RequestOK
<1> QED
  BY <1>1, <1>2, <1>3, Zenon DEF PInv

LEMMA NextPInv == PInv /\ [Next]_vars => PInv'
<1> SUFFICES ASSUME PInv, [Next]_vars PROVE PInv'
  BY Zenon
<1>1. ASSUME NEW r \in Request, Handle(r) PROVE PInv'
  BY <1>1, HandlePInv, Zenon
<1>2. ASSUME NEW r \in Request, Step(r) PROVE PInv'
  BY <1>2, SavePATPInv, LockUserPInv, PrunePInv, InsertPInv, CommitPInv, DeletePATPInv,
     GetPATPInv, GetUserPInv, TouchPATPInv, CancelPInv, Zenon DEF Step
<1>3. ASSUME NEW u \in User, DeleteUser(u) PROVE PInv'
  BY <1>3, DeleteUserPInv, Zenon
<1>4. CASE Tick
  BY <1>4, TickPInv, Zenon
<1>5. CASE UNCHANGED vars
  <2>1. UNCHANGED <<db, lock, req, made, gone, clock>>
    BY <1>5, Zenon DEF vars
  <2>2. \A u \in User : Held(u)' = Held(u)
    BY <2>1, Zenon DEF Held
  <2>3. TypeOK' /\ RowsOK'
    BY <2>1, Zenon DEF PInv, TypeOK, RowsOK, Held
  <2>4. \A s \in Request : RequestOK(s, req[s])'
    BY <2>1, <2>2, ZenonT(40) DEF PInv, RequestOK
  <2> QED
    BY <2>1, <2>3, <2>4, Zenon DEF PInv
<1> QED
  BY <1>1, <1>2, <1>3, <1>4, <1>5, Zenon DEF Next

LEMMA Invariance == Spec => []PInv
BY InitPInv, NextPInv, PTL DEF Spec

-----------------------------------------------------------------------------

\* A user never holds more tokens than the cap, however creates overlap.
THEOREM CapIsKept == Spec => []CapHolds
<1>1. PInv => CapHolds
  BY ZenonT(40) DEF PInv, RowsOK, CapHolds
<1> QED
  BY <1>1, Invariance, PTL

\* No verification that starts after the owner was told of the revocation, or
\* after the owner's deletion, accepts the token.
THEOREM RevocationIsFinal == Spec => []RevokedStaysRejected
<1>1. PInv => RevokedStaysRejected
  BY Zenon DEF PInv, RequestOK, RevokedStaysRejected
<1> QED
  BY <1>1, Invariance, PTL

\* A token leaves the table only if it has expired, its owner revoked it, or its
\* owner is gone.
THEOREM OnlyExpiredIsPruned == Spec => PrunedWasExpired
<1> DEFINE Kept == \A t \in db.pats :
                     \/ t.pat \in {x.pat : x \in db'.pats}
                     \/ Expired(t, clock)
                     \/ ~Pg!Has(db'.users, "id", t.user)
                     \/ \E r \in Request : /\ At(r, "revoke")
                                           /\ req[r].user = t.user /\ req[r].pat = t.pat
<1>1. PInv /\ [Next]_vars => [Kept]_vars
  <2> SUFFICES ASSUME PInv, Next PROVE Kept
    BY Zenon
  <2>0. CASE db.pats \subseteq db'.pats
    BY <2>0, ZenonT(40)
  <2>1. ASSUME NEW r \in Request, Handle(r) PROVE db' = db
    BY <2>1, ZenonT(40) DEF Handle, Unauthenticated, CreatePAT, ListPATs, RevokePAT, Verify, Reply, Begin
  <2>2. ASSUME NEW r \in Request, LockUser(r) \/ Prune(r) \/ Insert(r) \/ GetPAT(r) \/ GetUser(r) \/ Cancel(r)
        PROVE  db' = db
    BY <2>2, Zenon DEF LockUser, Prune, Insert, GetPAT, GetUser, Cancel
  <2>3. ASSUME NEW r \in Request, SavePAT(r) PROVE db.pats \subseteq db'.pats
    <3> PICK row : row = Row(req[r])
      BY Zenon
    <3>1. db' = Pg!SavePAT(db, row).store /\ db \in Db
      BY <2>3, Zenon DEF SavePAT, PInv, TypeOK
    <3>2. db' = db \/ db' = [db EXCEPT !.pats = @ \cup {row}]
      BY <3>1, Zenon DEF Pg!SavePAT, Pg!InsertPAT, Pg!Fail, Pg!Done
    <3> QED
      BY <3>1, <3>2, Zenon DEF Db
  <2>4. ASSUME NEW r \in Request, Commit(r) PROVE Kept
    <3>1. /\ req[r].pc = "commit"
          /\ db' = [db EXCEPT !.pats = (@ \ req[r].pruned) \cup (IF req[r].fits THEN {Row(req[r])} ELSE {})]
      BY <2>4, Zenon DEF Commit, At
    <3>2. db.pats \ req[r].pruned \subseteq db'.pats
      BY <3>1, Zenon DEF PInv, TypeOK, Db
    <3>3. /\ req[r].now \in Int /\ clock \in Int /\ req[r].now <= clock
          /\ \A t \in req[r].pruned : Expired(t, req[r].now) /\ t \in PatRow
      BY <3>1, Zenon DEF PInv, TypeOK, RequestRow, RequestOK, Creating
    <3>4. \A t \in req[r].pruned : Expired(t, clock)
      BY <3>3, SMTT(40) DEF Expired, PatRow
    <3> QED
      BY <3>2, <3>4, ZenonT(40)
  <2>5. ASSUME NEW r \in Request, DeletePAT(r) PROVE Kept
    <3> PICK doomed : doomed = {t \in db.pats : t.pat = req[r].pat /\ t.user = req[r].user}
      BY ZenonT(40)
    <3>1. At(r, "revoke") /\ db' = Pg!DeletePAT(db, req[r].user, req[r].pat).store /\ db \in Db
      BY <2>5, ZenonT(40) DEF DeletePAT, PInv, TypeOK
    <3>2. db' = db \/ db' = [db EXCEPT !.pats = @ \ doomed]
      BY <3>1, Zenon DEF Pg!DeletePAT, Pg!Fail, Pg!Done
    <3>3. db.pats \ doomed \subseteq db'.pats
      BY <3>1, <3>2, Zenon DEF Db
    <3> QED
      BY <3>1, <3>3, Zenon
  <2>6. ASSUME NEW r \in Request, TouchPAT(r) PROVE Kept
    <3> PICK p, now : p = req[r].pat /\ now = req[r].now
      BY Zenon
    <3>1. db \in Db /\ (db' = db \/ db' = Pg!TouchPAT(db, p, now).store)
      BY <2>6, Zenon DEF TouchPAT, PInv, TypeOK
    <3>2. CASE db' = Pg!TouchPAT(db, p, now).store
      <4>1. db' = [db EXCEPT !.pats = Touched(@, p, now)]
        BY <3>2, Zenon DEF Pg!TouchPAT, Pg!Done, Touched
      <4>2. db'.pats = Touched(db.pats, p, now)
        BY <3>1, <4>1, Zenon DEF Db
      <4>3. ASSUME NEW t \in db.pats PROVE \E x \in db'.pats : x.pat = t.pat
        <5> DEFINE x == IF t.pat = p THEN [t EXCEPT !.used = now] ELSE t
        <5>1. x \in db'.pats
          BY <4>2, Zenon DEF Touched
        <5>2. x.pat = t.pat
          BY <3>1, Zenon DEF Db, PatRow
        <5> QED
          BY <5>1, <5>2, ZenonT(40)
      <4> QED
        BY <4>3, Zenon
    <3> QED
      BY <2>0, <3>1, <3>2, ZenonT(40)
  <2>7. ASSUME NEW u \in User, DeleteUser(u) PROVE Kept
    <3>1. /\ db'.pats = {t \in db.pats : t.user # u}
          /\ db'.users = {x \in db.users : x.id # u}
          /\ db' \in Db
      BY <2>7, DeleteUserIs, Zenon
    <3>2. ~Pg!Has(db'.users, "id", u)
      BY <3>1, Zenon DEF Pg!Has, Db
    <3> QED
      BY <3>1, <3>2, Zenon
  <2>8. CASE Tick
    BY <2>0, <2>8, Zenon DEF Tick
  <2> QED
    BY <2>0, <2>1, <2>2, <2>3, <2>4, <2>5, <2>6, <2>7, <2>8, ZenonT(40) DEF Next, Step
<1> QED
  BY <1>1, Invariance, PTL DEF Spec, PrunedWasExpired
=============================================================================
