------------------------- MODULE PgTokenStoreProofs -------------------------
(***************************************************************************)
(* The statements and row locks of postgres.go make every call atomic, and *)
(* only the deletion of a user can deadlock: for every number of           *)
(* connections, users and tokens.                                          *)
(***************************************************************************)
EXTENDS PgTokenStore, TokenStoreProofs, TLAPS

-----------------------------------------------------------------------------
(* The inductive invariant *)

Ops == {"none", "Save", "Rotate", "Family", "Revoke", "Delete"}
Modes == {"KEY SHARE", "SHARE", "NO KEY UPDATE", "UPDATE"}
Summary == [ended : BOOLEAN, rotations : SUBSET Int]
Results == {"none", "ok", "error", "TokenNotFound", "TokenRevoked", "TokenExpired", "UserNotFound"}
Steps == {"idle", "lockShare", "insert", "update", "read", "query", "lockUpdate", "delete",
          "snapshot", "row", "commit"}

ConnectionType ==
  [op : Ops, hash : Hash \cup {NoHash}, user : User \cup {NoUser},
   parent : Hash \cup {NoHash}, at : Times \cup {NoTime}, answer : Results,
   seen : Token \cup {NoToken} \cup Summary,
   pc : Steps, cur : Hash \cup {NoHash}, rest : SUBSET Hash, done : SUBSET Hash]

LockType == [row : Hash \cup User, mode : Modes, by : Proc]

TypeOK == /\ users \subseteq User
          /\ tokens \in Table
          /\ drawn \subseteq Hash
          /\ proc \in [Proc -> ConnectionType]
          /\ locks \subseteq LockType

\* h was drawn, and no call is about to store it: it is stored now, was stored
\* once, or never will be.
Known(h) == h \in drawn /\ \A p \in Proc : proc[p].op = "Save" => proc[p].hash # h

\* No two calls save the same hash, and a hash in the table is being saved by none.
HashesAreFresh ==
  /\ \A p, r \in Proc : p # r /\ proc[p].op = "Save" /\ proc[r].op = "Save"
                          => proc[p].hash # proc[r].hash
  /\ \A h \in Hash : Stored(tokens, h) => Known(h)

Has(p, row, mode) == [row |-> row, mode |-> mode, by |-> p] \in locks

\* No two connections hold conflicting locks on a row.
LocksExclude ==
  \A l, k \in locks : l.row = k.row /\ l.by # k.by => k.mode \notin Conflicts(l.mode)

\* The rows of the statement q is in, those it has written and those to come.
Visited(q) == IF q.pc = "row" THEN q.done \cup {q.cur} \cup q.rest ELSE q.done

\* A call is pending exactly while its connection is not idle.
PendingOK(p) ==
  LET q == proc[p] IN
  /\ q.op = "none" <=> q.pc = "idle"
  /\ q.answer = "none" <=> q.pc # "idle"

\* A successor being saved keeps the root it joins from ending, and then the
\* user from being deleted.
SaveOK(p) ==
  LET q == proc[p] IN
  q.op = "Save" =>
    /\ q.hash \in drawn
    /\ q.user \in User
    /\ q.pc \in {"lockShare", "insert", "commit"}
    /\ q.pc # "insert" => q.parent # NoHash
    /\ q.parent # NoHash =>
         /\ Known(q.parent)
         /\ Stored(tokens, q.parent) => /\ tokens[q.parent].parent = NoHash
                                        /\ tokens[q.parent].user = q.user
         /\ q.pc # "lockShare" => /\ Stored(tokens, q.parent)
                                  /\ ~tokens[q.parent].ended
                                  /\ Has(p, q.parent, "SHARE")
    /\ q.pc = "commit" => q.user \in users /\ Has(p, q.user, "KEY SHARE")

\* What made the UPDATE of a rotation find no row is still so when the row is read.
RotateOK(p) ==
  LET q == proc[p] IN
  q.op = "Rotate" =>
    /\ Known(q.hash)
    /\ q.at \in Times
    /\ q.pc \in {"update", "read"}
    /\ q.pc = "read" => ~CanRotate(tokens, q.hash, q.at)

FamilyOK(p) == proc[p].op = "Family" => proc[p].pc = "query"

\* The root's lock keeps the members the snapshot saw, and only those, in the family.
RevokeOK(p) ==
  LET q == proc[p] IN
  q.op = "Revoke" =>
    /\ Known(q.hash)
    /\ IsRoot(tokens, q.hash)
    /\ q.pc \in {"lockUpdate", "snapshot", "row", "commit"}
    /\ q.pc # "lockUpdate" /\ Stored(tokens, q.hash) => Has(p, q.hash, "UPDATE")
    /\ q.pc \in {"row", "commit"} =>
         /\ Visited(q) = {h \in Hash : Member(tokens, q.hash, h)}
         /\ \A h \in q.done : Has(p, h, "NO KEY UPDATE")

\* The user row's lock keeps new tokens of the user out.
DeleteOK(p) ==
  LET q == proc[p] IN
  q.op = "Delete" =>
    /\ q.user \in User
    /\ q.pc \in {"delete", "snapshot", "row", "commit"}
    /\ q.pc # "delete" => q.user \in users /\ Has(p, q.user, "UPDATE")
    /\ q.pc \in {"row", "commit"} =>
         /\ Visited(q) = {h \in Hash : Stored(tokens, h) /\ tokens[h].user = q.user}
         /\ \A h \in q.done : Has(p, h, "UPDATE")

\* The locks a connection may hold.
May(q, row, mode) ==
  \/ /\ q.op = "Save" /\ q.pc \in {"insert", "commit"}
     /\ row = q.parent /\ mode = "SHARE"
  \/ /\ q.op = "Save" /\ q.pc = "commit"
     /\ row = q.user /\ mode = "KEY SHARE"
  \/ /\ q.op = "Revoke" /\ q.pc \in {"snapshot", "row", "commit"}
     /\ row = q.hash
  \/ /\ q.op = "Revoke" /\ q.pc \in {"row", "commit"}
     /\ row \in q.done
  \/ /\ q.op = "Delete" /\ q.pc \in {"snapshot", "row", "commit"}

HoldsOnly(p) == \A l \in locks : l.by = p => May(proc[p], l.row, l.mode)

ProcOK(p) == /\ PendingOK(p) /\ SaveOK(p) /\ RotateOK(p) /\ FamilyOK(p)
             /\ RevokeOK(p) /\ DeleteOK(p) /\ HoldsOnly(p)

PInv == /\ TypeOK
        /\ WholeFamilies(tokens, users)
        /\ EndsAsOne(tokens)
        /\ HashesAreFresh
        /\ LocksExclude
        /\ \A p \in Proc : ProcOK(p)
-----------------------------------------------------------------------------
(* Locks *)

LEMMA ConflictsAre ==
  /\ Conflicts("KEY SHARE") = {"UPDATE"}
  /\ Conflicts("SHARE") = {"NO KEY UPDATE", "UPDATE"}
  /\ Conflicts("NO KEY UPDATE") = {"SHARE", "NO KEY UPDATE", "UPDATE"}
  /\ Conflicts("UPDATE") = {"KEY SHARE", "SHARE", "NO KEY UPDATE", "UPDATE"}
BY Zenon DEF Conflicts

LEMMA ConflictsSymmetric ==
  ASSUME NEW m \in Modes, NEW n \in Modes, m \in Conflicts(n)
  PROVE  n \in Conflicts(m)
BY ConflictsAre, Zenon DEF Modes

\* A lock of another connection that conflicts keeps p from locking the row, and
\* p cannot hold one that conflicts with it.
LEMMA FreeMeans ==
  ASSUME NEW p \in Proc, NEW row, NEW mode \in Modes, Free(p, row, mode), locks \subseteq LockType
  PROVE  \A l \in locks : l.row = row /\ l.by # p => l.mode \notin Conflicts(mode)
BY Zenon DEF Free, Blockers

LEMMA HasExcludes ==
  ASSUME LocksExclude, NEW p, NEW r, p # r, NEW row, NEW m, NEW n,
         Has(p, row, m), Has(r, row, n)
  PROVE  n \notin Conflicts(m)
<1>1. /\ [row |-> row, mode |-> m, by |-> p] \in locks
      /\ [row |-> row, mode |-> n, by |-> r] \in locks
  BY Zenon DEF Has
<1> QED
  BY <1>1, Zenon DEF LocksExclude

LEMMA LockKeepsExclusion ==
  ASSUME LocksExclude, locks \subseteq LockType, NEW p \in Proc, NEW row \in Hash \cup User,
         NEW mode \in Modes, Free(p, row, mode), Lock(p, row, mode)
  PROVE  /\ locks' \subseteq LockType
         /\ LocksExclude'
         /\ \A l \in LockType : l.by # p => (l \in locks' <=> l \in locks)
         /\ Has(p, row, mode)'
         /\ \A r, x, m : Has(r, x, m) => Has(r, x, m)'
<1> DEFINE k == [row |-> row, mode |-> mode, by |-> p]
<1>1. /\ k \in LockType
      /\ k.row = row /\ k.mode = mode /\ k.by = p
  BY Zenon DEF LockType
<1>2. locks' = locks \cup {k}
  BY Zenon DEF Lock
<1>3. \A l \in locks : l.row = row /\ l.by # p => l.mode \notin Conflicts(mode)
  BY FreeMeans, Zenon
<1>4. \A l \in locks : l.row = row /\ l.by # p => mode \notin Conflicts(l.mode)
  BY <1>3, ConflictsSymmetric, Zenon DEF LockType
<1> HIDE DEF k
<1>5. LocksExclude'
  BY <1>1, <1>2, <1>3, <1>4, Zenon DEF LocksExclude
<1>6. Has(p, row, mode)'
  BY <1>2, Zenon DEF Has, k
<1>7. \A r, x, m : Has(r, x, m) => Has(r, x, m)'
  BY <1>2, Zenon DEF Has
<1> QED
  BY <1>1, <1>2, <1>5, <1>6, <1>7, Zenon

-----------------------------------------------------------------------------
(* A step of p, as the other connections see it *)

\* p moves on, leaves the others as they are, and saves only a new hash or the
\* one it was saving.
Moved(p) ==
  /\ proc' \in [Proc -> ConnectionType]
  /\ \A r \in Proc : r # p => proc'[r] = proc[r]
  /\ proc'[p].op = "Save" => \/ proc'[p].hash \notin drawn
                             \/ proc[p].op = "Save" /\ proc'[p].hash = proc[p].hash
  /\ drawn \subseteq drawn'
  /\ \A l \in LockType : l.by # p => (l \in locks' <=> l \in locks)

\* What a step of p leaves as it is in the tables.  The rows another connection
\* has locked keep what its lock protects; a hash that was stored once is not
\* stored again, and a token that cannot rotate never can.
TablesKept(p) ==
  /\ \A r \in Proc, h \in Hash :
       r # p /\ Has(r, h, "SHARE") /\ Stored(tokens, h)
         => Stored(tokens', h) /\ tokens'[h].ended = tokens[h].ended
  /\ \A r \in Proc, u \in User :
       r # p /\ u \in users /\ (Has(r, u, "KEY SHARE") \/ Has(r, u, "UPDATE")) => u \in users'
  /\ \A h \in Hash : Known(h) /\ Stored(tokens', h) => /\ Stored(tokens, h)
                                                       /\ tokens'[h].parent = tokens[h].parent
                                                       /\ tokens'[h].user = tokens[h].user
  /\ \A h \in Hash, now \in Times :
       Known(h) /\ CanRotate(tokens', h, now) => CanRotate(tokens, h, now)
  /\ \A r \in Proc, f \in Hash :
       r # p /\ Known(f) /\ IsRoot(tokens, f) /\ (Stored(tokens, f) => Has(r, f, "UPDATE"))
         => \A h \in Hash : Member(tokens', f, h) <=> Member(tokens, f, h)
  /\ \A r \in Proc, u \in User :
       r # p /\ Has(r, u, "UPDATE")
         => \A h \in Hash : (Stored(tokens', h) /\ tokens'[h].user = u)
                              <=> (Stored(tokens, h) /\ tokens[h].user = u)

LEMMA SameTables ==
  ASSUME NEW p, UNCHANGED <<users, tokens>>
  PROVE  TablesKept(p)
BY Zenon DEF TablesKept

LEMMA KnownKept ==
  ASSUME TypeOK, NEW p \in Proc, Moved(p), NEW h, Known(h)
  PROVE  Known(h)'
BY Zenon DEF Known, Moved, TypeOK

LEMMA HasKept ==
  ASSUME TypeOK, NEW p \in Proc, Moved(p), NEW r \in Proc, r # p, NEW row, NEW mode,
         Has(r, row, mode)
  PROVE  Has(r, row, mode)'
<1>1. [row |-> row, mode |-> mode, by |-> r] \in LockType
  BY Zenon DEF Has, TypeOK
<1>2. [row |-> row, mode |-> mode, by |-> r].by # p
  BY Zenon
<1> QED
  BY <1>1, <1>2, Zenon DEF Has, Moved

LEMMA OthersKept ==
  ASSUME PInv, NEW p \in Proc, Moved(p), TablesKept(p), locks' \subseteq LockType,
         NEW r \in Proc, r # p
  PROVE  ProcOK(r)'
<1>0. PICK q \in ConnectionType : /\ proc[r] = q
                                  /\ proc'[r] = q
                                  /\ ProcOK(r)
                                  /\ TypeOK
  BY Zenon DEF Moved, PInv, TypeOK
<1>k. \A h : Known(h) => Known(h)'
  BY <1>0, KnownKept, Zenon
<1>h. \A row, mode : Has(r, row, mode) => Has(r, row, mode)'
  BY <1>0, HasKept, Zenon
<1>1. PendingOK(r)'
  BY <1>0, Zenon DEF ProcOK, PendingOK
<1>2. SaveOK(r)'
  <2> SUFFICES ASSUME q.op = "Save"
               PROVE  SaveOK(r)'
    BY <1>0, Zenon DEF SaveOK
  <2>1. /\ q.hash \in drawn'
        /\ q.user \in User
        /\ q.pc \in {"lockShare", "insert", "commit"}
        /\ q.pc # "insert" => q.parent # NoHash
    BY <1>0, Zenon DEF ProcOK, SaveOK, Moved
  <2>2. ASSUME q.parent # NoHash
        PROVE  /\ Known(q.parent)'
               /\ Stored(tokens', q.parent) => /\ tokens'[q.parent].parent = NoHash
                                               /\ tokens'[q.parent].user = q.user
    <3>1. /\ q.parent \in Hash
          /\ Known(q.parent)
          /\ Stored(tokens, q.parent) => /\ tokens[q.parent].parent = NoHash
                                         /\ tokens[q.parent].user = q.user
      BY <1>0, <2>2, Zenon DEF ProcOK, SaveOK, ConnectionType
    <3>2. Stored(tokens', q.parent) => /\ Stored(tokens, q.parent)
                                       /\ tokens'[q.parent].parent = tokens[q.parent].parent
                                       /\ tokens'[q.parent].user = tokens[q.parent].user
      BY <3>1, Zenon DEF TablesKept
    <3>3. Known(q.parent)'
      BY <1>k, <3>1, Zenon
    <3> QED
      BY <3>1, <3>2, <3>3, Zenon
  <2>3. ASSUME q.parent # NoHash, q.pc # "lockShare"
        PROVE  /\ Stored(tokens', q.parent)
               /\ ~tokens'[q.parent].ended
               /\ Has(r, q.parent, "SHARE")'
    <3>1. /\ q.parent \in Hash
          /\ Stored(tokens, q.parent)
          /\ ~tokens[q.parent].ended
          /\ Has(r, q.parent, "SHARE")
      BY <1>0, <2>3, Zenon DEF ProcOK, SaveOK, ConnectionType
    <3>2. Stored(tokens', q.parent) /\ tokens'[q.parent].ended = tokens[q.parent].ended
      BY <3>1, ZenonT(30) DEF TablesKept
    <3> QED
      BY <1>h, <3>1, <3>2, Zenon
  <2>4. ASSUME q.pc = "commit"
        PROVE  q.user \in users' /\ Has(r, q.user, "KEY SHARE")'
    <3>1. q.user \in User /\ q.user \in users /\ Has(r, q.user, "KEY SHARE")
      BY <1>0, <2>4, Zenon DEF ProcOK, SaveOK
    <3>2. q.user \in users'
      BY <3>1, Zenon DEF TablesKept
    <3> QED
      BY <1>h, <3>1, <3>2, Zenon
  <2> QED
    BY <1>0, <2>1, <2>2, <2>3, <2>4, Zenon DEF SaveOK
<1>3. RotateOK(r)'
  <2> SUFFICES ASSUME q.op = "Rotate"
               PROVE  RotateOK(r)'
    BY <1>0, Zenon DEF RotateOK
  <2>1. /\ Known(q.hash)
        /\ q.hash \in Hash
        /\ q.at \in Times
        /\ q.pc \in {"update", "read"}
        /\ q.pc = "read" => ~CanRotate(tokens, q.hash, q.at)
    BY <1>0, Zenon DEF ProcOK, RotateOK, Known, TypeOK
  <2>2. q.pc = "read" => ~CanRotate(tokens', q.hash, q.at)
    BY <2>1, Zenon DEF TablesKept
  <2> QED
    BY <1>0, <1>k, <2>1, <2>2, Zenon DEF RotateOK
<1>4. FamilyOK(r)'
  BY <1>0, Zenon DEF ProcOK, FamilyOK
<1>5. RevokeOK(r)'
  <2> SUFFICES ASSUME q.op = "Revoke"
               PROVE  RevokeOK(r)'
    BY <1>0, Zenon DEF RevokeOK
  <2>1. /\ Known(q.hash)
        /\ q.hash \in Hash
        /\ IsRoot(tokens, q.hash)
        /\ q.pc \in {"lockUpdate", "snapshot", "row", "commit"}
        /\ q.pc # "lockUpdate" /\ Stored(tokens, q.hash) => Has(r, q.hash, "UPDATE")
        /\ q.pc \in {"row", "commit"} =>
             /\ Visited(q) = {h \in Hash : Member(tokens, q.hash, h)}
             /\ \A h \in q.done : Has(r, h, "NO KEY UPDATE")
    BY <1>0, Zenon DEF ProcOK, RevokeOK, Known, TypeOK
  <2>2. IsRoot(tokens', q.hash) /\ (Stored(tokens', q.hash) => Stored(tokens, q.hash))
    BY <2>1, Zenon DEF TablesKept, IsRoot
  <2>3. q.pc # "lockUpdate" =>
          \A h \in Hash : Member(tokens', q.hash, h) <=> Member(tokens, q.hash, h)
    BY <2>1, Zenon DEF TablesKept
  <2>4. q.pc \in {"row", "commit"} => Visited(q) = {h \in Hash : Member(tokens', q.hash, h)}
    BY <2>1, <2>3, Zenon
  <2> QED
    BY <1>0, <1>k, <1>h, <2>1, <2>2, <2>4, Zenon DEF RevokeOK
<1>6. DeleteOK(r)'
  <2> SUFFICES ASSUME q.op = "Delete"
               PROVE  DeleteOK(r)'
    BY <1>0, Zenon DEF DeleteOK
  <2>1. /\ q.user \in User
        /\ q.pc \in {"delete", "snapshot", "row", "commit"}
        /\ q.pc # "delete" => q.user \in users /\ Has(r, q.user, "UPDATE")
        /\ q.pc \in {"row", "commit"} =>
             /\ Visited(q) = {h \in Hash : Stored(tokens, h) /\ tokens[h].user = q.user}
             /\ \A h \in q.done : Has(r, h, "UPDATE")
    BY <1>0, Zenon DEF ProcOK, DeleteOK
  <2>2. q.pc # "delete" => q.user \in users'
    BY <2>1, Zenon DEF TablesKept
  <2>3. q.pc # "delete" =>
          \A h \in Hash : (Stored(tokens', h) /\ tokens'[h].user = q.user)
                            <=> (Stored(tokens, h) /\ tokens[h].user = q.user)
    BY <2>1, Zenon DEF TablesKept
  <2>4. q.pc \in {"row", "commit"} =>
          Visited(q) = {h \in Hash : Stored(tokens', h) /\ tokens'[h].user = q.user}
    BY <2>1, <2>3, Zenon
  <2> QED
    BY <1>0, <1>h, <2>1, <2>2, <2>4, Zenon DEF DeleteOK
<1>7. HoldsOnly(r)'
  BY <1>0, Zenon DEF ProcOK, HoldsOnly, Moved
<1> QED
  BY <1>1, <1>2, <1>3, <1>4, <1>5, <1>6, <1>7, Zenon DEF ProcOK

-----------------------------------------------------------------------------
(* The four ways a step changes the tables *)

LEMMA AdditionKept ==
  ASSUME PInv, NEW p \in Proc, NEW h \in Hash, NEW u \in User, NEW f \in Hash \cup {NoHash},
         Addition(tokens, h, u, f, Expiry, tokens'), users' = users,
         proc[p].op = "Save", proc[p].hash = h,
         \A r \in Proc : r # p => ~Has(r, u, "UPDATE"),
         f # NoHash => /\ Stored(tokens, f)
                       /\ \A r \in Proc : r # p => ~Has(r, f, "UPDATE")
  PROVE  TablesKept(p)
<1>1. ~Known(h) /\ ~Stored(tokens, h)
  BY Zenon DEF PInv, HashesAreFresh, Known
<1>2. /\ \A g \in Hash : g # h => tokens'[g] = tokens[g]
      /\ \A g \in Hash : g # h => (Stored(tokens', g) <=> Stored(tokens, g))
      /\ tokens'[h].parent = f
      /\ tokens'[h].user = u
      /\ Stored(tokens', h)
  BY DEF Addition
<1>3. \A g \in Hash : Known(g) => g # h
  BY <1>1, Zenon
<1>4. ASSUME NEW r \in Proc, r # p, NEW g \in Hash, Known(g),
             Stored(tokens, g) => Has(r, g, "UPDATE"), NEW k \in Hash
      PROVE  Member(tokens', g, k) <=> Member(tokens, g, k)
  <2>1. f # g
    BY <1>4, StoreAssumption, Zenon
  <2>2. CASE k = h
    BY <1>1, <1>2, <1>3, <1>4, <2>1, <2>2, Zenon DEF Member
  <2>3. CASE k # h
    BY <1>2, <2>3, Zenon DEF Member
  <2> QED
    BY <2>2, <2>3, Zenon
<1>5. ASSUME NEW r \in Proc, r # p, NEW v \in User, Has(r, v, "UPDATE"), NEW k \in Hash
      PROVE  (Stored(tokens', k) /\ tokens'[k].user = v) <=> (Stored(tokens, k) /\ tokens[k].user = v)
  BY <1>1, <1>2, <1>5, Zenon
<1>6. \A g \in Hash, now \in Times : Known(g) /\ CanRotate(tokens', g, now) => CanRotate(tokens, g, now)
  BY <1>2, <1>3, Zenon DEF CanRotate
<1>7. \A r \in Proc, g \in Hash :
        r # p /\ Has(r, g, "SHARE") /\ Stored(tokens, g)
          => Stored(tokens', g) /\ tokens'[g].ended = tokens[g].ended
  BY <1>1, <1>2, Zenon
<1>8. \A g \in Hash : Known(g) /\ Stored(tokens', g) => /\ Stored(tokens, g)
                                                        /\ tokens'[g].parent = tokens[g].parent
                                                        /\ tokens'[g].user = tokens[g].user
  BY <1>2, <1>3, Zenon
<1> QED
  BY <1>4, <1>5, <1>6, <1>7, <1>8, Zenon DEF TablesKept

LEMMA RotationKept ==
  ASSUME PInv, NEW p \in Proc, NEW h \in Hash, NEW now,
         Rotation(tokens, h, now, tokens'), users' = users
  PROVE  TablesKept(p)
<1>1. /\ \A g \in Hash : g # h => tokens'[g] = tokens[g]
      /\ \A g \in Hash : /\ Stored(tokens', g) <=> Stored(tokens, g)
                         /\ tokens'[g].user = tokens[g].user
                         /\ tokens'[g].parent = tokens[g].parent
                         /\ tokens'[g].ended = tokens[g].ended
      /\ tokens'[h].revoked = TRUE
  BY Zenon DEF Rotation
<1>2. \A g \in Hash, t \in Times : CanRotate(tokens', g, t) => CanRotate(tokens, g, t)
  BY <1>1, Zenon DEF CanRotate
<1>3. \A f, g \in Hash : Member(tokens', f, g) <=> Member(tokens, f, g)
  BY <1>1, Zenon DEF Member
<1> QED
  BY <1>1, <1>2, <1>3, Zenon DEF TablesKept

LEMMA RevocationKept ==
  ASSUME PInv, NEW p \in Proc, NEW f \in Hash, users' = users,
         Revocation(tokens, f, tokens'),
         \A h \in Hash : Member(tokens, f, h) => Has(p, h, "NO KEY UPDATE")
  PROVE  TablesKept(p)
<1>1. /\ \A g \in Hash : ~Member(tokens, f, g) => tokens'[g] = tokens[g]
      /\ \A g \in Hash : Member(tokens, f, g) => tokens'[g].revoked = TRUE
      /\ \A g \in Hash : /\ Stored(tokens', g) <=> Stored(tokens, g)
                         /\ tokens'[g].user = tokens[g].user
                         /\ tokens'[g].parent = tokens[g].parent
  BY Zenon DEF Revocation
<1>2. \A g \in Hash, t \in Times : CanRotate(tokens', g, t) => CanRotate(tokens, g, t)
  BY <1>1, Zenon DEF CanRotate
<1>3. \A g, k \in Hash : Member(tokens', g, k) <=> Member(tokens, g, k)
  BY <1>1, Zenon DEF Member
<1>4. ASSUME NEW r \in Proc, NEW h \in Hash, r # p, Has(r, h, "SHARE"), Stored(tokens, h)
      PROVE  Stored(tokens', h) /\ tokens'[h].ended = tokens[h].ended
  <2>1. ~Has(p, h, "NO KEY UPDATE")
    BY <1>4, HasExcludes, ConflictsAre, Zenon DEF PInv
  <2> QED
    BY <1>1, <1>4, <2>1, Zenon
<1> QED
  BY <1>1, <1>2, <1>3, <1>4, Zenon DEF TablesKept

LEMMA DeletionKept ==
  ASSUME PInv, NEW p \in Proc, NEW u \in User, users' = users \ {u},
         Deletion(tokens, u, tokens'), Has(p, u, "UPDATE"),
         \A h \in Hash : Stored(tokens, h) /\ tokens[h].user = u => Has(p, h, "UPDATE")
  PROVE  TablesKept(p)
<1>1. /\ \A g \in Hash : Stored(tokens', g) <=> Stored(tokens, g) /\ tokens[g].user # u
      /\ \A g \in Hash : Stored(tokens', g) => tokens'[g] = tokens[g]
  BY Zenon DEF Deletion
<1>2. ASSUME NEW r \in Proc, r # p, NEW row, NEW m \in Modes, Has(r, row, m)
      PROVE  ~Has(p, row, "UPDATE")
  BY <1>2, HasExcludes, ConflictsAre, Zenon DEF PInv, Modes
<1>3. \A g \in Hash, t \in Times : CanRotate(tokens', g, t) => CanRotate(tokens, g, t)
  BY <1>1, Zenon DEF CanRotate
<1>4. ASSUME NEW r \in Proc, NEW h \in Hash, r # p, Has(r, h, "SHARE"), Stored(tokens, h)
      PROVE  Stored(tokens', h) /\ tokens'[h].ended = tokens[h].ended
  <2>1. ~Has(p, h, "UPDATE")
    BY <1>2, <1>4, Zenon DEF Modes
  <2> QED
    BY <1>1, <1>4, <2>1, Zenon
<1>5. ASSUME NEW r \in Proc, NEW v \in User, r # p, Has(r, v, "UPDATE") \/ Has(r, v, "KEY SHARE")
      PROVE  v # u
  BY <1>2, <1>5, Zenon DEF Modes
<1>6. ASSUME NEW r \in Proc, r # p, NEW f \in Hash,
             Stored(tokens, f) => Has(r, f, "UPDATE"), NEW k \in Hash
      PROVE  Member(tokens', f, k) <=> Member(tokens, f, k)
  <2>1. Member(tokens', f, k) => Member(tokens, f, k)
    BY <1>1, Zenon DEF Member
  <2>2. ASSUME Member(tokens, f, k)
        PROVE  Member(tokens', f, k)
    <3>1. Stored(tokens, f) /\ tokens[f].user = tokens[k].user
      BY <2>2, StoreAssumption, Zenon DEF Member, PInv, WholeFamilies
    <3>2. ~Has(p, f, "UPDATE")
      BY <1>2, <1>6, <3>1, Zenon DEF Modes
    <3>3. tokens[k].user # u
      BY <3>1, <3>2, Zenon
    <3> QED
      BY <1>1, <2>2, <3>3, Zenon DEF Member
  <2> QED
    BY <2>1, <2>2, Zenon
<1>7. ASSUME NEW r \in Proc, r # p, NEW v \in User, Has(r, v, "UPDATE"), NEW k \in Hash
      PROVE  (Stored(tokens', k) /\ tokens'[k].user = v) <=> (Stored(tokens, k) /\ tokens[k].user = v)
  BY <1>1, <1>5, <1>7, Zenon
<1>8. \A g \in Hash : Stored(tokens', g) => /\ Stored(tokens, g)
                                            /\ tokens'[g].parent = tokens[g].parent
                                            /\ tokens'[g].user = tokens[g].user
  BY <1>1, Zenon
<1>9. \A r \in Proc, v \in User :
        r # p /\ v \in users /\ (Has(r, v, "KEY SHARE") \/ Has(r, v, "UPDATE")) => v \in users'
  BY <1>5, Zenon
<1> QED
  BY <1>3, <1>4, <1>6, <1>7, <1>8, <1>9, Zenon DEF TablesKept

-----------------------------------------------------------------------------
(* The end of a call *)

Answers == Results \ {"none"}
Seen == Token \cup {NoToken} \cup Summary

LEMMA IdleConnection ==
  ASSUME NEW a \in Answers, NEW seen \in Seen
  PROVE  LET c == Connection(Atomic!Returned(a, seen), "idle") IN
         /\ c \in ConnectionType
         /\ c.op = "none" /\ c.pc = "idle" /\ c.answer = a
BY Zenon DEF Connection, Atomic!Returned, Atomic!NoCall, ConnectionType, Answers, Results, Seen, Ops, Steps

\* An answered call holds no lock, and its connection is idle.
LEMMA Answered ==
  ASSUME TypeOK, NEW p \in Proc, NEW a \in Answers, NEW seen \in Seen, Answer(p, a, seen)
  PROVE  /\ proc' \in [Proc -> ConnectionType]
         /\ \A r \in Proc : r # p => proc'[r] = proc[r]
         /\ proc'[p].op = "none" /\ proc'[p].pc = "idle" /\ proc'[p].answer # "none"
         /\ locks' = {l \in locks : l.by # p}
<1>1. PICK c \in {Atomic!Returned(a, seen), Atomic!Returned("error", NoToken)} :
        proc' = [proc EXCEPT ![p] = Connection(c, "idle")]
  BY Zenon DEF Answer
<1>2. "error" \in Answers /\ NoToken \in Seen
  BY Zenon DEF Answers, Results, Seen
<1>3. /\ Connection(c, "idle") \in ConnectionType
      /\ Connection(c, "idle").op = "none"
      /\ Connection(c, "idle").pc = "idle"
      /\ Connection(c, "idle").answer # "none"
  <2>1. CASE c = Atomic!Returned(a, seen)
    BY <2>1, IdleConnection, Zenon DEF Answers
  <2>2. CASE c = Atomic!Returned("error", NoToken)
    BY <1>2, <2>2, IdleConnection
  <2> QED
    BY <1>1, <2>1, <2>2, Zenon
<1>4. locks' = {l \in locks : l.by # p}
  BY Zenon DEF Answer
<1> QED
  BY <1>1, <1>3, <1>4, Zenon DEF TypeOK

\* What an answered call leaves of the invariant to show: the tables.
LEMMA AnsweredKeeps ==
  ASSUME PInv, NEW p \in Proc, NEW a \in Answers, NEW seen \in Seen, Answer(p, a, seen),
         TablesKept(p), drawn' = drawn,
         users' \subseteq User, tokens' \in Table,
         WholeFamilies(tokens', users'), EndsAsOne(tokens'),
         \A h \in Hash : Stored(tokens', h) =>
           Stored(tokens, h) \/ (proc[p].op = "Save" /\ proc[p].hash = h)
  PROVE  PInv'
<1>1. /\ proc' \in [Proc -> ConnectionType]
      /\ \A r \in Proc : r # p => proc'[r] = proc[r]
      /\ proc'[p].op = "none" /\ proc'[p].pc = "idle" /\ proc'[p].answer # "none"
      /\ locks' = {l \in locks : l.by # p}
  BY Answered, Zenon DEF PInv
<1>2. TypeOK /\ locks' \subseteq LockType
  BY <1>1, Zenon DEF PInv, TypeOK
<1>3. Moved(p)
  BY <1>1, Zenon DEF Moved
<1>4. TypeOK'
  BY <1>1, <1>2, Zenon DEF TypeOK
<1>5. LocksExclude'
  BY <1>1, Zenon DEF LocksExclude, PInv
<1>6. HashesAreFresh'
  <2>1. \A r, t \in Proc : r # t /\ proc'[r].op = "Save" /\ proc'[t].op = "Save"
                             => proc'[r].hash # proc'[t].hash
    BY <1>1 DEF PInv, HashesAreFresh
  <2>2. ASSUME NEW h \in Hash, Stored(tokens', h)
        PROVE  Known(h)'
    <3>1. CASE Stored(tokens, h)
      BY <1>2, <1>3, <3>1, KnownKept, Zenon DEF PInv, HashesAreFresh
    <3>2. CASE proc[p].op = "Save" /\ proc[p].hash = h
      <4>1. h \in drawn
        BY <3>2, Zenon DEF PInv, ProcOK, SaveOK
      <4>2. \A r \in Proc : r # p /\ proc[r].op = "Save" => proc[r].hash # h
        BY <3>2, Zenon DEF PInv, HashesAreFresh
      <4> QED
        BY <1>1, <4>1, <4>2, Zenon DEF Known
    <3> QED
      BY <2>2, <3>1, <3>2, Zenon
  <2> QED
    BY <2>1, <2>2, Zenon DEF HashesAreFresh
<1>7. ASSUME NEW r \in Proc
      PROVE  ProcOK(r)'
  <2>1. CASE r # p
    BY <1>2, <1>3, <2>1, OthersKept, Zenon
  <2>2. CASE r = p
    BY <1>1, <2>2, Zenon DEF ProcOK, PendingOK, SaveOK, RotateOK, FamilyOK, RevokeOK, DeleteOK, HoldsOnly
  <2> QED
    BY <2>1, <2>2, Zenon
<1> QED
  BY <1>4, <1>5, <1>6, <1>7, Zenon DEF PInv

\* The same where the tables stay as they are.
LEMMA AnsweredOnly ==
  ASSUME PInv, NEW p \in Proc, NEW a \in Answers, NEW seen \in Seen, Answer(p, a, seen),
         UNCHANGED <<users, tokens, drawn>>
  PROVE  PInv'
<1>1. /\ users' = users /\ tokens' = tokens /\ drawn' = drawn
      /\ users \subseteq User /\ tokens \in Table
      /\ WholeFamilies(tokens, users) /\ EndsAsOne(tokens)
  BY Zenon DEF PInv, TypeOK
<1>2. TablesKept(p)
  BY SameTables, Zenon
<1>3. /\ users' \subseteq User /\ tokens' \in Table
      /\ WholeFamilies(tokens', users') /\ EndsAsOne(tokens')
  BY <1>1, Zenon
<1>4. \A h \in Hash : Stored(tokens', h) =>
           Stored(tokens, h) \/ (proc[p].op = "Save" /\ proc[p].hash = h)
  BY <1>1, Zenon
<1> QED
  BY <1>1, <1>2, <1>3, <1>4, AnsweredKeeps, Zenon

\* A step within a call: what it leaves to show is the state of p.
LEMMA MovedKeeps ==
  ASSUME PInv, NEW p \in Proc, Moved(p), UNCHANGED <<users, tokens, drawn>>,
         locks' \subseteq LockType, LocksExclude', ProcOK(p)',
         proc'[p].op = proc[p].op, proc'[p].hash = proc[p].hash
  PROVE  PInv'
<1>1. /\ TypeOK /\ TypeOK'
      /\ TablesKept(p)
  BY SameTables, Zenon DEF PInv, TypeOK, Moved
<1>2. HashesAreFresh'
  <2>1. \A r, t \in Proc : r # t /\ proc'[r].op = "Save" /\ proc'[t].op = "Save"
                             => proc'[r].hash # proc'[t].hash
    BY DEF PInv, HashesAreFresh, Moved
  <2>2. \A h \in Hash : Stored(tokens', h) => Known(h)'
    BY <1>1, KnownKept, Zenon DEF PInv, HashesAreFresh
  <2> QED
    BY <2>1, <2>2, Zenon DEF HashesAreFresh
<1>3. \A r \in Proc : ProcOK(r)'
  BY <1>1, OthersKept, Zenon
<1>4. WholeFamilies(tokens, users)' /\ EndsAsOne(tokens)'
  BY Zenon DEF PInv, WholeFamilies, EndsAsOne
<1> QED
  BY <1>1, <1>2, <1>3, <1>4, Zenon DEF PInv

-----------------------------------------------------------------------------
(* A step within a call *)

\* The call p has made stays the call; only the place in it changes.
SameCall(q, c) == /\ q.op = c.op /\ q.hash = c.hash /\ q.user = c.user /\ q.parent = c.parent
                  /\ q.at = c.at /\ q.answer = c.answer /\ q.seen = c.seen

LEMMA Going ==
  ASSUME TypeOK, NEW p \in Proc, NEW pc \in Steps, GoTo(p, pc)
  PROVE  \E q \in ConnectionType : /\ proc' = [proc EXCEPT ![p] = q]
                                   /\ SameCall(q, proc[p])
                                   /\ q.pc = pc
<1> DEFINE q == [proc[p] EXCEPT !.pc = pc]
<1>1. proc[p] \in ConnectionType
  BY Zenon DEF TypeOK
<1>2. q \in ConnectionType /\ SameCall(q, proc[p]) /\ q.pc = pc
  BY <1>1, Zenon DEF ConnectionType, SameCall
<1>3. proc' = [proc EXCEPT ![p] = q]
  BY Zenon DEF GoTo, TypeOK
<1> QED
  BY <1>2, <1>3, Zenon

LEMMA Visiting ==
  ASSUME TypeOK, NEW p \in Proc, NEW rest \in SUBSET Hash, NEW done \in SUBSET Hash,
         Visit(p, rest, done)
  PROVE  \E q \in ConnectionType : /\ proc' = [proc EXCEPT ![p] = q]
                                   /\ SameCall(q, proc[p])
                                   /\ q.pc \in {"row", "commit"}
                                   /\ q.done = done
                                   /\ Visited(q) = done \cup rest
<1>0. proc[p] \in ConnectionType
  BY Zenon DEF TypeOK
<1>1. CASE rest # {}
  <2>1. PICK h \in rest : proc' = [proc EXCEPT ![p] = [@ EXCEPT !.pc = "row", !.cur = h,
                                                             !.rest = rest \ {h}, !.done = done]]
    BY <1>1, Zenon DEF Visit
  <2> DEFINE q == [proc[p] EXCEPT !.pc = "row", !.cur = h, !.rest = rest \ {h}, !.done = done]
  <2>2. /\ q \in ConnectionType /\ SameCall(q, proc[p])
        /\ q.pc = "row" /\ q.done = done /\ q.cur = h /\ q.rest = rest \ {h}
    BY <1>0, ZenonT(30) DEF ConnectionType, SameCall, Steps
  <2>3. proc' = [proc EXCEPT ![p] = q]
    BY <2>1, Zenon DEF TypeOK
  <2> HIDE DEF q
  <2>4. Visited(q) = done \cup rest
    BY <2>2, Zenon DEF Visited
  <2> QED
    BY <2>2, <2>3, <2>4, Zenon
<1>2. CASE rest = {}
  <2> DEFINE q == [proc[p] EXCEPT !.pc = "commit", !.cur = NoHash, !.rest = {}, !.done = done]
  <2>1. proc' = [proc EXCEPT ![p] = q]
    BY <1>2, Zenon DEF Visit, TypeOK
  <2>2. /\ q \in ConnectionType /\ SameCall(q, proc[p])
        /\ q.pc = "commit" /\ q.done = done /\ q.rest = {}
    BY <1>0, ZenonT(30) DEF ConnectionType, SameCall, Steps
  <2> HIDE DEF q
  <2>3. Visited(q) = done \cup rest
    BY <1>2, <2>2, Zenon DEF Visited
  <2> QED
    BY <1>2, <2>1, <2>2, <2>3, Zenon
<1> QED
  BY <1>1, <1>2, Zenon

LEMMA Moving ==
  ASSUME TypeOK, NEW p \in Proc, NEW q \in ConnectionType, proc' = [proc EXCEPT ![p] = q],
         SameCall(q, proc[p]), drawn' = drawn,
         \A l \in LockType : l.by # p => (l \in locks' <=> l \in locks)
  PROVE  /\ Moved(p)
         /\ proc'[p] = q
BY Zenon DEF TypeOK, Moved, SameCall

\* The operations are told apart by their steps.
LEMMA StepsOfOps ==
  ASSUME PInv, NEW p \in Proc
  PROVE  /\ proc[p].op \in Ops
         /\ proc[p].pc = "idle" <=> proc[p].op = "none"
         /\ proc[p].pc # "idle" => proc[p].answer = "none"
         /\ proc[p].pc \in {"lockShare", "insert"} => proc[p].op = "Save"
         /\ proc[p].pc \in {"update", "read"} => proc[p].op = "Rotate"
         /\ proc[p].pc = "query" => proc[p].op = "Family"
         /\ proc[p].pc = "lockUpdate" => proc[p].op = "Revoke"
         /\ proc[p].pc = "delete" => proc[p].op = "Delete"
         /\ proc[p].pc = "row" => proc[p].op \in {"Revoke", "Delete"}
<1>1. PICK q \in ConnectionType : q = proc[p]
  BY Zenon DEF PInv, TypeOK
<1>2. q.op \in Ops
  BY Zenon DEF ConnectionType
<1> QED
  BY <1>1, <1>2, Zenon DEF PInv, ProcOK, PendingOK, SaveOK, RotateOK, FamilyOK, RevokeOK, DeleteOK, Ops

\* A connection whose transaction has not begun holds no lock.
LEMMA NothingHeld ==
  ASSUME PInv, NEW p \in Proc,
         proc[p].pc \in {"idle", "lockShare", "update", "read", "query", "lockUpdate", "delete"}
  PROVE  \A l \in locks : l.by # p
<1>1. HoldsOnly(p)
  BY Zenon DEF PInv, ProcOK
<1>2. \A row, mode : ~May(proc[p], row, mode)
  BY Zenon DEF May
<1> QED
  BY <1>1, <1>2, Zenon DEF HoldsOnly

-----------------------------------------------------------------------------
(* The calls *)

LEMMA CallsAre ==
  ASSUME NEW c \in Atomic!Calls
  PROVE  \/ \E h \in Hash \ drawn, u \in users : c = Atomic!Asked("Save", h, u, NoHash, NoTime)
         \/ \E h \in Hash \ drawn, f \in Atomic!Roots :
              c = Atomic!Asked("Save", h, tokens[f].user, f, NoTime)
         \/ \E h \in Hash, now \in Times : /\ Stored(tokens, h)
                                           /\ c = Atomic!Asked("Rotate", h, NoUser, NoHash, now)
         \/ \E op \in {"Revoke", "Family"}, f \in Atomic!Roots :
              c = Atomic!Asked(op, f, NoUser, NoHash, NoTime)
         \/ \E u \in users : c = Atomic!Asked("Delete", NoHash, u, NoHash, NoTime)
<1>1. \A h : Atomic!Stored(tokens, h) <=> Stored(tokens, h)
  BY Zenon DEF Atomic!Stored, Stored
<1> QED
  BY <1>1 DEF Atomic!Calls

LEMMA FirstSteps ==
  ASSUME NEW c
  PROVE  /\ c.op = "Save" => FirstStep(c) = IF c.parent = NoHash THEN "insert" ELSE "lockShare"
         /\ c.op = "Rotate" => FirstStep(c) = "update"
         /\ c.op = "Family" => FirstStep(c) = "query"
         /\ c.op = "Revoke" => FirstStep(c) = "lockUpdate"
         /\ c.op = "Delete" => FirstStep(c) = "delete"
BY Zenon DEF FirstStep

\* A call begins: what is left to show is the state of p.
LEMMA Begins ==
  ASSUME PInv, NEW p \in Proc, NEW c, Call(p, c), NEW q \in ConnectionType,
         q = Connection(c, FirstStep(c)), q.op = c.op, q.hash = c.hash, c.op # "none",
         q.op = "Save" => q.hash \in Hash \ drawn,
         q.answer = "none", q.pc \in Steps \ {"idle"},
         (\A h \in Hash : Stored(tokens, h) => Known(h)')
           => SaveOK(p)' /\ RotateOK(p)' /\ FamilyOK(p)' /\ RevokeOK(p)' /\ DeleteOK(p)'
  PROVE  PInv'
<1>1. /\ TypeOK
      /\ proc' = [proc EXCEPT ![p] = q]
      /\ drawn' = IF q.op = "Save" THEN drawn \cup {q.hash} ELSE drawn
      /\ users' = users /\ tokens' = tokens /\ locks' = locks
      /\ proc[p].answer # "none"
  BY Zenon DEF Call, PInv
<1>2. proc'[p] = q /\ \A r \in Proc : r # p => proc'[r] = proc[r]
  BY <1>1, Zenon DEF TypeOK
<1>3. Moved(p)
  BY <1>1, <1>2, Zenon DEF Moved, TypeOK
<1>4. TablesKept(p)
  BY <1>1, SameTables, Zenon
<1>5. proc[p].pc = "idle" /\ proc[p].op = "none"
  BY <1>1, Zenon DEF PInv, ProcOK, PendingOK
<1>6. \A l \in locks' : l.by # p
  BY <1>1, <1>5, NothingHeld, Zenon
<1>7. \A h \in Hash : Stored(tokens, h) => Known(h)'
  BY <1>1, <1>3, KnownKept, Zenon DEF PInv, HashesAreFresh
<1>8. HashesAreFresh'
  <2>1. \A r \in Proc : proc[r].op = "Save" => proc[r].hash \in drawn
    BY ZenonT(30) DEF PInv, ProcOK, SaveOK
  <2>2. \A r, t \in Proc : r # t /\ proc'[r].op = "Save" /\ proc'[t].op = "Save"
                             => proc'[r].hash # proc'[t].hash
    BY <1>2, <2>1 DEF PInv, HashesAreFresh
  <2> QED
    BY <1>1, <1>7, <2>2, Zenon DEF HashesAreFresh
<1>9. TypeOK'
  BY <1>1, <1>3, Zenon DEF TypeOK, Moved
<1>10. ProcOK(p)'
  <2>1. PendingOK(p)'
    BY <1>2, Zenon DEF PendingOK, Call
  <2>2. HoldsOnly(p)'
    BY <1>6, Zenon DEF HoldsOnly
  <2> QED
    BY <1>7, <2>1, <2>2, Zenon DEF ProcOK
<1>11. \A r \in Proc : ProcOK(r)'
  BY <1>1, <1>3, <1>4, <1>10, OthersKept, Zenon DEF TypeOK
<1>12. LocksExclude' /\ WholeFamilies(tokens, users)' /\ EndsAsOne(tokens)'
  BY <1>1, Zenon DEF PInv, LocksExclude, WholeFamilies, EndsAsOne
<1> QED
  BY <1>8, <1>9, <1>11, <1>12, Zenon DEF PInv

LEMMA CallInv ==
  ASSUME PInv, NEW p \in Proc, NEW c \in Atomic!Calls, Call(p, c)
  PROVE  PInv'
<1> DEFINE q == Connection(c, FirstStep(c))
<1>0. /\ TypeOK
      /\ proc' = [proc EXCEPT ![p] = q]
      /\ users' = users /\ tokens' = tokens
      /\ proc'[p] = q
      /\ drawn' = IF c.op = "Save" THEN drawn \cup {c.hash} ELSE drawn
  BY Zenon DEF Call, PInv, TypeOK
<1>00. /\ {"Save", "Rotate", "Revoke", "Family", "Delete"} \subseteq Ops \ {"none"}
       /\ {"insert", "lockShare", "update", "lockUpdate", "query", "delete"} \subseteq Steps
       /\ Hash \subseteq Hash \cup {NoHash} /\ NoHash \in Hash \cup {NoHash}
       /\ users \subseteq User \cup {NoUser} /\ NoUser \in User \cup {NoUser}
       /\ Times \subseteq Times \cup {NoTime} /\ NoTime \in Times \cup {NoTime}
  BY <1>0, Zenon DEF TypeOK, Ops, Steps
<1>1. CASE \E h \in Hash \ drawn, u \in users : c = Atomic!Asked("Save", h, u, NoHash, NoTime)
  <2>1. PICK h \in Hash \ drawn, u \in users : c = Atomic!Asked("Save", h, u, NoHash, NoTime)
    BY <1>1, Zenon
  <2>2. c.op = "Save" /\ c.hash = h /\ c.parent = NoHash
    BY <2>1, Zenon DEF Atomic!Asked
  <2>3. FirstStep(c) = "insert"
    BY <2>2, FirstSteps, Zenon
  <2>4. /\ q \in ConnectionType
        /\ q.op = "Save" /\ q.hash = h /\ q.user = u /\ q.parent = NoHash
        /\ q.answer = "none" /\ q.pc = "insert"
    <3>1. /\ "Save" \in Ops \ {"none"} /\ "insert" \in Steps
          /\ h \in Hash \cup {NoHash} /\ u \in User \cup {NoUser}
          /\ NoHash \in Hash \cup {NoHash} /\ NoTime \in Times \cup {NoTime}
      BY <1>00, <2>1, Zenon
    <3>2. q = Connection(Atomic!Asked("Save", h, u, NoHash, NoTime), "insert")
      BY <2>1, <2>3, Zenon
    <3> QED
      BY <3>1, <3>2, ZenonT(30) DEF Connection, Atomic!Asked, ConnectionType, Results, Ops
  <2>5. /\ SaveOK(p)' /\ RotateOK(p)' /\ FamilyOK(p)' /\ RevokeOK(p)' /\ DeleteOK(p)'
    <3> HIDE DEF q
    <3> QED
      BY <1>0, <2>2, <2>4, Zenon DEF SaveOK, RotateOK, FamilyOK, RevokeOK, DeleteOK, TypeOK
  <2> QED
    BY <2>2, <2>4, <2>5, Begins, Zenon DEF Steps
<1>2. CASE \E h \in Hash \ drawn, f \in Atomic!Roots :
             c = Atomic!Asked("Save", h, tokens[f].user, f, NoTime)
  <2>1. PICK h \in Hash \ drawn, f \in Atomic!Roots :
               c = Atomic!Asked("Save", h, tokens[f].user, f, NoTime)
    BY <1>2, Zenon
  <2>2. f \in Hash /\ Stored(tokens, f) /\ tokens[f].parent = NoHash /\ f # NoHash
    BY StoreAssumption, Zenon DEF Atomic!Roots, Atomic!Stored, Stored
  <2>3. c.op = "Save" /\ c.hash = h /\ c.parent = f
    BY <2>1, Zenon DEF Atomic!Asked
  <2>4. FirstStep(c) = "lockShare"
    BY <2>2, <2>3, FirstSteps, Zenon
  <2>5. tokens[f].user \in User
    BY <1>0, <2>2, StoredType, Zenon DEF TypeOK, Token
  <2>6. /\ q \in ConnectionType
        /\ q.op = "Save" /\ q.hash = h /\ q.user = tokens[f].user /\ q.parent = f
        /\ q.answer = "none" /\ q.pc = "lockShare"
    <3>1. /\ "Save" \in Ops \ {"none"} /\ "lockShare" \in Steps
          /\ h \in Hash \cup {NoHash} /\ tokens[f].user \in User \cup {NoUser}
          /\ f \in Hash \cup {NoHash} /\ NoTime \in Times \cup {NoTime}
      BY <1>00, <2>2, <2>5, Zenon
    <3>2. q = Connection(Atomic!Asked("Save", h, tokens[f].user, f, NoTime), "lockShare")
      BY <2>1, <2>4, Zenon
    <3> QED
      BY <3>1, <3>2, ZenonT(30) DEF Connection, Atomic!Asked, ConnectionType, Results, Ops
  <2>7. ASSUME \A k \in Hash : Stored(tokens, k) => Known(k)'
        PROVE  SaveOK(p)' /\ RotateOK(p)' /\ FamilyOK(p)' /\ RevokeOK(p)' /\ DeleteOK(p)'
    <3>1. Known(f)'
      BY <2>2, <2>7, Zenon
    <3> HIDE DEF q
    <3> QED
      BY <1>0, <2>2, <2>3, <2>5, <2>6, <3>1, Zenon
         DEF SaveOK, RotateOK, FamilyOK, RevokeOK, DeleteOK, TypeOK
  <2> QED
    BY <2>3, <2>6, <2>7, Begins, Zenon DEF Steps
<1>3. CASE \E h \in Hash, now \in Times : /\ Stored(tokens, h)
                                          /\ c = Atomic!Asked("Rotate", h, NoUser, NoHash, now)
  <2>1. PICK h \in Hash, now \in Times : /\ Stored(tokens, h)
                                         /\ c = Atomic!Asked("Rotate", h, NoUser, NoHash, now)
    BY <1>3, Zenon
  <2>2. c.op = "Rotate" /\ c.hash = h
    BY <2>1, Zenon DEF Atomic!Asked
  <2>3. FirstStep(c) = "update"
    BY <2>2, FirstSteps, Zenon
  <2>4. /\ q \in ConnectionType
        /\ q.op = "Rotate" /\ q.hash = h /\ q.at = now /\ q.answer = "none" /\ q.pc = "update"
    <3>1. /\ "Rotate" \in Ops \ {"none"} /\ "update" \in Steps
          /\ h \in Hash \cup {NoHash} /\ NoUser \in User \cup {NoUser}
          /\ NoHash \in Hash \cup {NoHash} /\ now \in Times \cup {NoTime}
      BY <1>00, <2>1, Zenon
    <3>2. q = Connection(Atomic!Asked("Rotate", h, NoUser, NoHash, now), "update")
      BY <2>1, <2>3, Zenon
    <3> QED
      BY <3>1, <3>2, ZenonT(30) DEF Connection, Atomic!Asked, ConnectionType, Results, Ops
  <2>5. ASSUME \A k \in Hash : Stored(tokens, k) => Known(k)'
        PROVE  SaveOK(p)' /\ RotateOK(p)' /\ FamilyOK(p)' /\ RevokeOK(p)' /\ DeleteOK(p)'
    <3>1. Known(h)'
      BY <2>1, <2>5, Zenon
    <3> HIDE DEF q
    <3> QED
      BY <1>0, <2>4, <3>1, Zenon DEF SaveOK, RotateOK, FamilyOK, RevokeOK, DeleteOK
  <2> QED
    BY <2>2, <2>4, <2>5, Begins, Zenon DEF Steps
<1>4. CASE \E op \in {"Revoke", "Family"}, f \in Atomic!Roots :
             c = Atomic!Asked(op, f, NoUser, NoHash, NoTime)
  <2>1. PICK op \in {"Revoke", "Family"}, f \in Atomic!Roots :
               c = Atomic!Asked(op, f, NoUser, NoHash, NoTime)
    BY <1>4, Zenon
  <2>2. f \in Hash /\ Stored(tokens, f) /\ tokens[f].parent = NoHash
    BY Zenon DEF Atomic!Roots, Atomic!Stored, Stored
  <2>3. c.op = op /\ c.hash = f
    BY <2>1, Zenon DEF Atomic!Asked
  <2>4. FirstStep(c) = IF op = "Revoke" THEN "lockUpdate" ELSE "query"
    BY <2>3, FirstSteps, Zenon
  <2>5. /\ q \in ConnectionType
        /\ q.op = op /\ q.hash = f /\ q.answer = "none"
        /\ q.pc = IF op = "Revoke" THEN "lockUpdate" ELSE "query"
    <3>1. /\ op \in Ops \ {"none"} /\ (IF op = "Revoke" THEN "lockUpdate" ELSE "query") \in Steps
          /\ f \in Hash \cup {NoHash} /\ NoUser \in User \cup {NoUser}
          /\ NoHash \in Hash \cup {NoHash} /\ NoTime \in Times \cup {NoTime}
      BY <1>00, <2>1, <2>2, Zenon
    <3>2. q = Connection(Atomic!Asked(op, f, NoUser, NoHash, NoTime), IF op = "Revoke" THEN "lockUpdate" ELSE "query")
      BY <2>1, <2>4, Zenon
    <3> QED
      BY <3>1, <3>2, ZenonT(30) DEF Connection, Atomic!Asked, ConnectionType, Results, Ops
  <2>6. ASSUME \A k \in Hash : Stored(tokens, k) => Known(k)'
        PROVE  SaveOK(p)' /\ RotateOK(p)' /\ FamilyOK(p)' /\ RevokeOK(p)' /\ DeleteOK(p)'
    <3>1. Known(f)'
      BY <2>2, <2>6, Zenon
    <3> HIDE DEF q
    <3> QED
      BY <1>0, <2>2, <2>5, <3>1, Zenon DEF SaveOK, RotateOK, FamilyOK, RevokeOK, DeleteOK, IsRoot
  <2> QED
    BY <2>3, <2>5, <2>6, Begins, Zenon DEF Steps
<1>5. CASE \E u \in users : c = Atomic!Asked("Delete", NoHash, u, NoHash, NoTime)
  <2>1. PICK u \in users : c = Atomic!Asked("Delete", NoHash, u, NoHash, NoTime)
    BY <1>5, Zenon
  <2>2. c.op = "Delete" /\ c.hash = NoHash
    BY <2>1, Zenon DEF Atomic!Asked
  <2>3. FirstStep(c) = "delete"
    BY <2>2, FirstSteps, Zenon
  <2>4. /\ q \in ConnectionType
        /\ q.op = "Delete" /\ q.hash = NoHash /\ q.user = u /\ q.answer = "none" /\ q.pc = "delete"
    <3>1. /\ "Delete" \in Ops \ {"none"} /\ "delete" \in Steps
          /\ NoHash \in Hash \cup {NoHash} /\ u \in User \cup {NoUser}
          /\ NoHash \in Hash \cup {NoHash} /\ NoTime \in Times \cup {NoTime}
      BY <1>00, <2>1, Zenon
    <3>2. q = Connection(Atomic!Asked("Delete", NoHash, u, NoHash, NoTime), "delete")
      BY <2>1, <2>3, Zenon
    <3> QED
      BY <3>1, <3>2, ZenonT(30) DEF Connection, Atomic!Asked, ConnectionType, Results, Ops
  <2>5. SaveOK(p)' /\ RotateOK(p)' /\ FamilyOK(p)' /\ RevokeOK(p)' /\ DeleteOK(p)'
    <3> HIDE DEF q
    <3> QED
      BY <1>0, <2>4, Zenon DEF SaveOK, RotateOK, FamilyOK, RevokeOK, DeleteOK, TypeOK
  <2> QED
    BY <2>2, <2>4, <2>5, Begins, Zenon DEF Steps
<1> QED
  BY <1>1, <1>2, <1>3, <1>4, <1>5, CallsAre, Zenon

-----------------------------------------------------------------------------
(* SaveRefreshToken *)

LEMMA SaveLockRootInv ==
  ASSUME PInv, NEW p \in Proc, SaveLockRoot(p)
  PROVE  PInv'
<1>1. PICK c \in ConnectionType : proc[p] = c
  BY Zenon DEF PInv, TypeOK
<1>2. /\ c.op = "Save" /\ c.pc = "lockShare" /\ c.parent # NoHash
      /\ c.hash \in drawn /\ c.user \in User
      /\ c.parent \in Hash
      /\ Known(c.parent)
      /\ Stored(tokens, c.parent) => /\ tokens[c.parent].parent = NoHash
                                     /\ tokens[c.parent].user = c.user
      /\ c.answer = "none"
  BY <1>1, StepsOfOps, Zenon DEF SaveLockRoot, PInv, ProcOK, SaveOK, ConnectionType
<1>3. /\ users' = users /\ tokens' = tokens /\ drawn' = drawn
      /\ TypeOK
  BY Zenon DEF SaveLockRoot, PInv
<1>4. CASE Answer(p, "TokenRevoked", NoToken)
  BY <1>3, <1>4, AnsweredOnly, Zenon DEF Answers, Results, Seen
<1>5. CASE /\ Stored(tokens, c.parent) /\ ~tokens[c.parent].ended
           /\ Free(p, c.parent, "SHARE")
           /\ Lock(p, c.parent, "SHARE")
           /\ GoTo(p, "insert")
  <2>1. /\ locks' \subseteq LockType
        /\ LocksExclude'
        /\ \A l \in LockType : l.by # p => (l \in locks' <=> l \in locks)
        /\ Has(p, c.parent, "SHARE")'
    BY <1>2, <1>5, LockKeepsExclusion, ZenonT(30) DEF PInv, TypeOK, Modes
  <2>2. PICK q \in ConnectionType : /\ proc' = [proc EXCEPT ![p] = q]
                                    /\ SameCall(q, c)
                                    /\ q.pc = "insert"
    BY <1>1, <1>3, <1>5, Going DEF Steps
  <2>3. Moved(p) /\ proc'[p] = q
    BY <1>1, <1>3, <2>1, <2>2, Moving, Zenon
  <2>4. Known(c.parent)'
    BY <1>2, <1>3, <2>3, KnownKept, Zenon
  <2>5. SaveOK(p)'
    <3>1. /\ proc'[p].op = "Save" /\ proc'[p].pc = "insert" /\ proc'[p].hash = c.hash
          /\ proc'[p].user = c.user /\ proc'[p].parent = c.parent
      BY <1>2, <2>2, <2>3, Zenon DEF SameCall
    <3> QED
      BY <1>2, <1>3, <1>5, <2>1, <2>4, <3>1, Zenon DEF SaveOK
  <2>6. HoldsOnly(p)'
    <3>1. \A l \in locks : l.by # p
      BY <1>1, <1>2, NothingHeld, Zenon
    <3>2. \A l \in locks' : l.by = p => l.row = c.parent /\ l.mode = "SHARE"
      BY <1>5, <3>1 DEF Lock
    <3> QED
      BY <1>2, <2>2, <2>3, <3>2, Zenon DEF HoldsOnly, May, SameCall
  <2>7. ProcOK(p)'
    BY <1>2, <2>2, <2>3, <2>5, <2>6, Zenon
       DEF ProcOK, PendingOK, RotateOK, FamilyOK, RevokeOK, DeleteOK, SameCall
  <2> QED
    BY <1>1, <1>3, <2>1, <2>2, <2>3, <2>7, MovedKeeps, Zenon DEF SameCall
<1> QED
  BY <1>1, <1>4, <1>5, Zenon DEF SaveLockRoot

\* What a save needs to add its row: nobody is revoking the family or deleting
\* the user.
LEMMA SaveAdds ==
  ASSUME PInv, NEW p \in Proc, NEW c \in ConnectionType, proc[p] = c,
         c.op = "Save", c.pc \in {"insert", "commit"}, c.user \in users,
         \A r \in Proc : r # p => ~Has(r, c.user, "UPDATE"),
         tokens' = SaveRefreshToken(tokens, c.hash, c.user, c.parent, Expiry),
         Answer(p, "ok", NoToken), UNCHANGED <<users, drawn>>
  PROVE  PInv'
<1>1. /\ c.hash \in Hash /\ c.user \in User
      /\ c.parent \in Hash \cup {NoHash}
      /\ ~Stored(tokens, c.hash)
      /\ c.parent # NoHash => /\ Stored(tokens, c.parent)
                              /\ ~tokens[c.parent].ended
                              /\ tokens[c.parent].parent = NoHash
                              /\ tokens[c.parent].user = c.user
                              /\ Has(p, c.parent, "SHARE")
  BY Zenon DEF PInv, TypeOK, ProcOK, SaveOK, HashesAreFresh, Known, ConnectionType
<1>2. users' = users /\ drawn' = drawn /\ tokens \in Table /\ users \subseteq User /\ Expiry \in Int
  BY PgAssumption, Zenon DEF PInv, TypeOK
<1>3. Addition(tokens, c.hash, c.user, c.parent, Expiry, tokens')
  BY <1>1, <1>2, SaveEffect, Zenon
<1>4. \A r \in Proc : c.parent # NoHash /\ r # p => ~Has(r, c.parent, "UPDATE")
  BY <1>1, HasExcludes, ConflictsAre, ZenonT(30) DEF PInv
<1>5. TablesKept(p)
  BY <1>1, <1>2, <1>3, <1>4, AdditionKept, Zenon
<1>6. WholeFamilies(tokens', users) /\ EndsAsOne(tokens')
  <2>1. MayJoin(tokens, c.parent)
    BY <1>1, Zenon DEF MayJoin
  <2> QED
    BY <1>1, <1>2, <1>3, <2>1, SaveKeeps, SMTT(30) DEF PInv
<1>7. /\ tokens' \in Table
      /\ \A h \in Hash : Stored(tokens', h) =>
           Stored(tokens, h) \/ (proc[p].op = "Save" /\ proc[p].hash = h)
  BY <1>3, Zenon DEF Addition
<1>8. "ok" \in Answers /\ NoToken \in Seen
  BY Zenon DEF Answers, Results, Seen
<1> QED
  BY <1>2, <1>5, <1>6, <1>7, <1>8, AnsweredKeeps, Zenon

LEMMA SaveInsertInv ==
  ASSUME PInv, NEW p \in Proc, SaveInsert(p)
  PROVE  PInv'
<1>1. PICK c \in ConnectionType : proc[p] = c
  BY Zenon DEF PInv, TypeOK
<1>2. /\ c.op = "Save" /\ c.pc = "insert"
      /\ c.hash \in drawn /\ c.user \in User
      /\ c.answer = "none"
      /\ Free(p, c.user, "KEY SHARE")
      /\ users' = users /\ drawn' = drawn
      /\ TypeOK
  BY <1>1, StepsOfOps, Zenon DEF SaveInsert, PInv, ProcOK, SaveOK
<1>3. CASE Answer(p, "UserNotFound", NoToken) /\ tokens' = tokens
  BY <1>2, <1>3, AnsweredOnly, Zenon DEF Answers, Results, Seen
<1>4. CASE /\ c.user \in users /\ c.parent = NoHash
           /\ tokens' = SaveRefreshToken(tokens, c.hash, c.user, NoHash, Expiry)
           /\ Answer(p, "ok", NoToken)
  <2>1. ASSUME NEW r \in Proc, r # p, Has(r, c.user, "UPDATE")
        PROVE  FALSE
    <3> DEFINE l == [row |-> c.user, mode |-> "UPDATE", by |-> r]
    <3>1. l \in locks /\ l.row = c.user /\ l.mode = "UPDATE" /\ l.by = r
      BY <2>1, Zenon DEF Has
    <3>2. \A k \in locks : k.row = c.user /\ k.by # p => k.mode \notin Conflicts("KEY SHARE")
      BY <1>2, FreeMeans, Zenon DEF Modes, TypeOK
    <3> HIDE DEF l
    <3> QED
      BY <2>1, <3>1, <3>2, ConflictsAre, Zenon
  <2> QED
    BY <1>1, <1>2, <1>4, <2>1, SaveAdds, Zenon
<1>5. CASE /\ c.user \in users /\ c.parent # NoHash
           /\ Lock(p, c.user, "KEY SHARE")
           /\ GoTo(p, "commit")
           /\ tokens' = tokens
  <2>0. /\ c.parent \in Hash
        /\ Known(c.parent)
        /\ Stored(tokens, c.parent)
        /\ tokens[c.parent].parent = NoHash
        /\ tokens[c.parent].user = c.user
        /\ ~tokens[c.parent].ended
        /\ Has(p, c.parent, "SHARE")
    BY <1>1, <1>2, <1>5, Zenon DEF PInv, ProcOK, SaveOK, ConnectionType
  <2>1. /\ locks' \subseteq LockType
        /\ LocksExclude'
        /\ \A l \in LockType : l.by # p => (l \in locks' <=> l \in locks)
        /\ Has(p, c.user, "KEY SHARE")'
        /\ Has(p, c.parent, "SHARE")'
    <3>1. LocksExclude /\ locks \subseteq LockType /\ c.user \in Hash \cup User /\ "KEY SHARE" \in Modes
      BY <1>2, Zenon DEF PInv, TypeOK, Modes
    <3>2. Free(p, c.user, "KEY SHARE") /\ Lock(p, c.user, "KEY SHARE")
      BY <1>2, <1>5, Zenon
    <3>3. /\ locks' \subseteq LockType
          /\ LocksExclude'
          /\ \A l \in LockType : l.by # p => (l \in locks' <=> l \in locks)
          /\ Has(p, c.user, "KEY SHARE")'
          /\ \A t, x, m : Has(t, x, m) => Has(t, x, m)'
      BY <3>1, <3>2, LockKeepsExclusion, ZenonT(30)
    <3> QED
      BY <2>0, <3>3, Zenon
  <2>2. PICK q \in ConnectionType : /\ proc' = [proc EXCEPT ![p] = q]
                                    /\ SameCall(q, c)
                                    /\ q.pc = "commit"
    BY <1>1, <1>2, <1>5, Going, ZenonT(60) DEF Steps
  <2>3. Moved(p) /\ proc'[p] = q
    BY <1>1, <1>2, <2>1, <2>2, Moving, Zenon
  <2>4. Known(c.parent)'
    BY <1>2, <2>0, <2>3, KnownKept, Zenon
  <2>5. SaveOK(p)'
    <3>1. /\ proc'[p].op = "Save" /\ proc'[p].pc = "commit" /\ proc'[p].hash = c.hash
          /\ proc'[p].user = c.user /\ proc'[p].parent = c.parent
      BY <1>2, <2>2, <2>3, Zenon DEF SameCall
    <3> QED
      BY <1>2, <1>5, <2>0, <2>1, <2>4, <3>1, Zenon DEF SaveOK
  <2>6. HoldsOnly(p)'
    <3>1. \A l \in locks : l.by = p => l.row = c.parent /\ l.mode = "SHARE"
      BY <1>1, <1>2, Zenon DEF PInv, ProcOK, HoldsOnly, May
    <3>2. ASSUME NEW l \in locks', l.by = p
          PROVE  (l.row = c.parent /\ l.mode = "SHARE") \/ (l.row = c.user /\ l.mode = "KEY SHARE")
      <4>1. CASE l \in locks
        BY <3>1, <3>2, <4>1, Zenon
      <4>2. CASE l = [row |-> c.user, mode |-> "KEY SHARE", by |-> p]
        BY <4>2, Zenon
      <4> QED
        BY <1>5, <4>1, <4>2, Zenon DEF Lock
    <3> QED
      BY <1>2, <2>2, <2>3, <3>2, Zenon DEF HoldsOnly, May, SameCall
  <2>7. ProcOK(p)'
    BY <1>2, <2>2, <2>3, <2>5, <2>6, Zenon
       DEF ProcOK, PendingOK, RotateOK, FamilyOK, RevokeOK, DeleteOK, SameCall
  <2> QED
    BY <1>1, <1>2, <1>5, <2>1, <2>2, <2>3, <2>7, MovedKeeps, Zenon DEF SameCall
<1> QED
  BY <1>1, <1>3, <1>4, <1>5, Zenon DEF SaveInsert

LEMMA SaveCommitInv ==
  ASSUME PInv, NEW p \in Proc, SaveCommit(p)
  PROVE  PInv'
<1>1. PICK c \in ConnectionType : proc[p] = c
  BY Zenon DEF PInv, TypeOK
<1>2. /\ c.op = "Save" /\ c.pc = "commit"
      /\ c.user \in users
      /\ Has(p, c.user, "KEY SHARE")
  BY <1>1, Zenon DEF SaveCommit, PInv, ProcOK, SaveOK
<1>3. \A r \in Proc : r # p => ~Has(r, c.user, "UPDATE")
  BY <1>2, HasExcludes, ConflictsAre, Zenon DEF PInv
<1> QED
  BY <1>1, <1>2, <1>3, SaveAdds, Zenon DEF SaveCommit

-----------------------------------------------------------------------------
(* RotateRefreshToken and GetRefreshFamily *)

LEMMA RotateUpdateInv ==
  ASSUME PInv, NEW p \in Proc, RotateUpdate(p)
  PROVE  PInv'
<1>1. PICK c \in ConnectionType : proc[p] = c
  BY Zenon DEF PInv, TypeOK
<1>2. /\ c.op = "Rotate" /\ c.pc = "update" /\ c.answer = "none"
      /\ Known(c.hash) /\ c.hash \in Hash /\ c.at \in Times /\ c.at \in Int
      /\ users' = users /\ drawn' = drawn
      /\ TypeOK
  BY <1>1, StepsOfOps, PgAssumption, Zenon DEF RotateUpdate, PInv, ProcOK, RotateOK, Known, TypeOK
<1>3. CASE /\ CanRotate(tokens, c.hash, c.at)
           /\ tokens' = RotateRefreshToken(tokens, c.hash, c.at)
           /\ Answer(p, "ok", tokens'[c.hash])
  <2>1. Stored(tokens, c.hash) /\ tokens \in Table
    BY <1>2, <1>3, Zenon DEF CanRotate, TypeOK
  <2>2. Rotation(tokens, c.hash, c.at, tokens')
    BY <1>2, <1>3, <2>1, RotateEffect, Zenon
  <2>3. TablesKept(p)
    BY <1>2, <2>2, RotationKept, Zenon
  <2>4. /\ tokens' \in Table
        /\ \A h \in Hash : Stored(tokens', h) => Stored(tokens, h)
    BY <2>2, Zenon DEF Rotation
  <2>5. WholeFamilies(tokens', users) /\ EndsAsOne(tokens')
    BY <1>2, <2>1, <2>2, RotateKeeps, Zenon DEF PInv
  <2>6. "ok" \in Answers /\ tokens'[c.hash] \in Seen
    BY <1>2, <2>4, Zenon DEF Answers, Results, Seen, Table
  <2> QED
    BY <1>2, <1>3, <2>3, <2>4, <2>5, <2>6, AnsweredKeeps, Zenon DEF TypeOK
<1>4. CASE /\ ~CanRotate(tokens, c.hash, c.at)
           /\ GoTo(p, "read")
           /\ tokens' = tokens /\ locks' = locks
  <2>1. PICK q \in ConnectionType : /\ proc' = [proc EXCEPT ![p] = q]
                                    /\ SameCall(q, c)
                                    /\ q.pc = "read"
    BY <1>1, <1>2, <1>4, Going DEF Steps
  <2>2. Moved(p) /\ proc'[p] = q
    BY <1>1, <1>2, <1>4, <2>1, Moving, Zenon
  <2>3. Known(c.hash)'
    BY <1>2, <2>2, KnownKept, Zenon
  <2>4. /\ proc'[p].op = "Rotate" /\ proc'[p].pc = "read" /\ proc'[p].hash = c.hash
        /\ proc'[p].at = c.at /\ proc'[p].answer = "none"
    BY <1>2, <2>1, <2>2, Zenon DEF SameCall
  <2>5. RotateOK(p)'
    BY <1>2, <1>4, <2>3, <2>4, Zenon DEF RotateOK
  <2>6. HoldsOnly(p)'
    BY <1>1, <1>2, <1>4, NothingHeld, Zenon DEF HoldsOnly
  <2>7. ProcOK(p)'
    BY <2>4, <2>5, <2>6, Zenon DEF ProcOK, PendingOK, SaveOK, FamilyOK, RevokeOK, DeleteOK
  <2>8. LocksExclude' /\ locks' \subseteq LockType
    BY <1>2, <1>4, Zenon DEF PInv, LocksExclude, TypeOK
  <2> QED
    BY <1>1, <1>2, <1>4, <2>2, <2>4, <2>7, <2>8, MovedKeeps, Zenon
<1> QED
  BY <1>1, <1>3, <1>4, Zenon DEF RotateUpdate

LEMMA RotateReadInv ==
  ASSUME PInv, NEW p \in Proc, RotateRead(p)
  PROVE  PInv'
<1>1. proc[p].hash \in Hash
  BY StepsOfOps, Zenon DEF RotateRead, PInv, ProcOK, RotateOK, Known, TypeOK
<1> DEFINE a == CASE ~Stored(tokens, proc[p].hash) -> "TokenNotFound"
                  [] IsRevoked(tokens, proc[p].hash) -> "TokenRevoked"
                  [] OTHER -> "TokenExpired"
<1>2. a \in {"TokenNotFound", "TokenRevoked", "TokenExpired"}
  BY Zenon DEF IsRevoked
<1>3. a \in Answers /\ tokens[proc[p].hash] \in Seen
  <2> HIDE DEF a
  <2> QED
    BY <1>1, <1>2, Zenon DEF Answers, Results, Seen, PInv, TypeOK, Table
<1>4. Answer(p, a, tokens[proc[p].hash]) /\ UNCHANGED <<users, tokens, drawn>>
  BY ZenonT(30) DEF RotateRead
<1> HIDE DEF a
<1> QED
  BY <1>3, <1>4, AnsweredOnly, Zenon

LEMMA FamilyQueryInv ==
  ASSUME PInv, NEW p \in Proc, FamilyQuery(p)
  PROVE  PInv'
<1> DEFINE s == [ended |-> SessionEnded(tokens, proc[p].hash),
                 rotations |-> Rotations(tokens, proc[p].hash)]
<1>1. Rotations(tokens, proc[p].hash) \subseteq Int
  BY Zenon DEF Rotations, Member, Stored, PInv, TypeOK, Table, Token
<1>2. SessionEnded(tokens, proc[p].hash) \in BOOLEAN
  BY Zenon DEF SessionEnded
<1>3. s \in Seen
  BY <1>1, <1>2, Zenon DEF Seen, Summary
<1>4. "ok" \in Answers
  BY Zenon DEF Answers, Results
<1> QED
  BY <1>3, <1>4, AnsweredOnly, Zenon DEF FamilyQuery

-----------------------------------------------------------------------------
(* RevokeTokens *)

LEMMA RevokeLockInv ==
  ASSUME PInv, NEW p \in Proc, RevokeLock(p)
  PROVE  PInv'
<1>1. PICK c \in ConnectionType : proc[p] = c
  BY Zenon DEF PInv, TypeOK
<1>2. /\ c.op = "Revoke" /\ c.pc = "lockUpdate" /\ c.answer = "none"
      /\ Known(c.hash) /\ c.hash \in Hash /\ IsRoot(tokens, c.hash)
      /\ users' = users /\ tokens' = tokens /\ drawn' = drawn
      /\ TypeOK /\ GoTo(p, "snapshot")
  BY <1>1, StepsOfOps, Zenon DEF RevokeLock, PInv, ProcOK, RevokeOK, Known, TypeOK
<1>3. /\ locks' \subseteq LockType
      /\ LocksExclude'
      /\ \A l \in LockType : l.by # p => (l \in locks' <=> l \in locks)
      /\ Stored(tokens, c.hash) => Has(p, c.hash, "UPDATE")'
      /\ \A l \in locks' : l.by = p => l.row = c.hash
  <2>0. \A l \in locks : l.by # p
    BY <1>1, <1>2, NothingHeld, Zenon
  <2>1. CASE Stored(tokens, c.hash) /\ Free(p, c.hash, "UPDATE") /\ Lock(p, c.hash, "UPDATE")
    <3>1. \A l \in locks' : l.by = p => l.row = c.hash
      BY <2>0, <2>1 DEF Lock
    <3> QED
      BY <1>2, <2>1, <3>1, LockKeepsExclusion, Zenon DEF PInv, TypeOK, Modes
  <2>2. CASE ~Stored(tokens, c.hash) /\ locks' = locks
    <3>1. LocksExclude'
      BY <2>2, Zenon DEF PInv, LocksExclude
    <3> QED
      BY <1>2, <2>0, <2>2, <3>1, Zenon DEF TypeOK
  <2> QED
    BY <1>1, <2>1, <2>2, Zenon DEF RevokeLock
<1>4. PICK q \in ConnectionType : /\ proc' = [proc EXCEPT ![p] = q]
                                  /\ SameCall(q, c)
                                  /\ q.pc = "snapshot"
  BY <1>1, <1>2, Going DEF Steps
<1>5. Moved(p) /\ proc'[p] = q
  BY <1>1, <1>2, <1>3, <1>4, Moving, Zenon
<1>6. Known(c.hash)'
  BY <1>2, <1>5, KnownKept, Zenon
<1>7. /\ proc'[p].op = "Revoke" /\ proc'[p].pc = "snapshot" /\ proc'[p].hash = c.hash
      /\ proc'[p].answer = "none"
  BY <1>2, <1>4, <1>5, Zenon DEF SameCall
<1>8. RevokeOK(p)'
  BY <1>2, <1>3, <1>6, <1>7, Zenon DEF RevokeOK, IsRoot
<1>9. HoldsOnly(p)'
  BY <1>3, <1>7, Zenon DEF HoldsOnly, May
<1>10. ProcOK(p)'
  BY <1>7, <1>8, <1>9, Zenon DEF ProcOK, PendingOK, SaveOK, RotateOK, FamilyOK, DeleteOK
<1> QED
  BY <1>1, <1>2, <1>3, <1>5, <1>7, <1>10, MovedKeeps, Zenon

LEMMA RevokeUpdateInv ==
  ASSUME PInv, NEW p \in Proc, RevokeUpdate(p)
  PROVE  PInv'
<1>1. PICK c \in ConnectionType : proc[p] = c
  BY Zenon DEF PInv, TypeOK
<1>2. /\ c.op = "Revoke" /\ c.pc = "snapshot" /\ c.answer = "none"
      /\ Known(c.hash) /\ c.hash \in Hash /\ IsRoot(tokens, c.hash)
      /\ Stored(tokens, c.hash) => Has(p, c.hash, "UPDATE")
      /\ users' = users /\ tokens' = tokens /\ drawn' = drawn /\ locks' = locks
      /\ TypeOK /\ Visit(p, {h \in Hash : Member(tokens, c.hash, h)}, {})
  BY <1>1, StepsOfOps, Zenon DEF RevokeUpdate, PInv, ProcOK, RevokeOK, Known, TypeOK
<1>3. PICK q \in ConnectionType : /\ proc' = [proc EXCEPT ![p] = q]
                                  /\ SameCall(q, c)
                                  /\ q.pc \in {"row", "commit"}
                                  /\ q.done = {}
                                  /\ Visited(q) = {h \in Hash : Member(tokens, c.hash, h)}
  <2> DEFINE rows == {h \in Hash : Member(tokens, c.hash, h)}
  <2>1. rows \in SUBSET Hash /\ {} \in SUBSET Hash /\ {} \cup rows = rows
    BY Zenon
  <2> HIDE DEF rows
  <2>2. Visit(p, rows, {})
    BY <1>2, Zenon DEF rows
  <2>3. PICK q \in ConnectionType : /\ proc' = [proc EXCEPT ![p] = q]
                                    /\ SameCall(q, c)
                                    /\ q.pc \in {"row", "commit"}
                                    /\ q.done = {}
                                    /\ Visited(q) = rows
    BY <1>1, <1>2, <2>1, <2>2, Visiting
  <2> QED
    BY <2>3, Zenon DEF rows
<1>4. Moved(p) /\ proc'[p] = q
  BY <1>1, <1>2, <1>3, Moving, Zenon
<1>5. Known(c.hash)'
  BY <1>2, <1>4, KnownKept, ZenonT(30)
<1>6. q.op = "Revoke" /\ q.hash = c.hash /\ q.answer = "none"
  BY <1>2, <1>3, Zenon DEF SameCall
<1>7. Stored(tokens, c.hash) => Has(p, c.hash, "UPDATE")'
  BY <1>2, Zenon DEF Has
<1>8. RevokeOK(p)'
  BY <1>2, <1>3, <1>4, <1>5, <1>6, <1>7, Zenon DEF RevokeOK
<1>9. HoldsOnly(p)'
  <2>1. \A l \in locks : l.by = p => l.row = c.hash
    BY <1>1, <1>2, Zenon DEF PInv, ProcOK, HoldsOnly, May
  <2> QED
    BY <1>2, <1>3, <1>4, <1>6, <2>1, Zenon DEF HoldsOnly, May
<1>10. ProcOK(p)'
  BY <1>3, <1>4, <1>6, <1>8, <1>9, Zenon DEF ProcOK, PendingOK, SaveOK, RotateOK, FamilyOK, DeleteOK
<1>11. LocksExclude' /\ locks' \subseteq LockType
  BY <1>2, Zenon DEF PInv, LocksExclude, TypeOK
<1> QED
  BY <1>1, <1>2, <1>4, <1>6, <1>10, <1>11, MovedKeeps, Zenon

LEMMA RevokeCommitTables ==
  ASSUME PInv, NEW p \in Proc, RevokeCommit(p)
  PROVE  /\ proc[p].hash \in Hash
         /\ tokens' = RevokeTokens(tokens, proc[p].hash)
         /\ \A h \in Hash : Member(tokens, proc[p].hash, h) => Has(p, h, "NO KEY UPDATE")
<1>1. PICK c \in ConnectionType : proc[p] = c
  BY Zenon DEF PInv, TypeOK
<1>2. /\ c.op = "Revoke" /\ c.pc = "commit"
      /\ c.hash \in Hash
      /\ Visited(c) = {h \in Hash : Member(tokens, c.hash, h)}
      /\ \A h \in c.done : Has(p, h, "NO KEY UPDATE")
  BY <1>1, Zenon DEF RevokeCommit, PInv, ProcOK, RevokeOK, Known, TypeOK
<1>3. c.done = {h \in Hash : Member(tokens, c.hash, h)}
  BY <1>2, ZenonT(30) DEF Visited
<1> QED
  BY <1>1, <1>2, <1>3, Zenon DEF RevokeCommit, RevokeTokens

LEMMA RevokeCommitInv ==
  ASSUME PInv, NEW p \in Proc, RevokeCommit(p)
  PROVE  PInv'
<1> DEFINE f == proc[p].hash
<1>1. /\ f \in Hash
      /\ tokens' = RevokeTokens(tokens, f)
      /\ \A h \in Hash : Member(tokens, f, h) => Has(p, h, "NO KEY UPDATE")
  BY RevokeCommitTables, Zenon
<1>2. /\ users' = users /\ drawn' = drawn /\ Answer(p, "ok", NoToken)
      /\ tokens \in Table /\ users \subseteq User /\ IsRoot(tokens, f)
  BY Zenon DEF RevokeCommit, PInv, TypeOK, ProcOK, RevokeOK
<1> HIDE DEF f
<1>3. Revocation(tokens, f, tokens')
  BY <1>1, <1>2, RevokeEffect, Zenon
<1>4. TablesKept(p)
  BY <1>1, <1>2, <1>3, RevocationKept, Zenon
<1>5. WholeFamilies(tokens', users) /\ EndsAsOne(tokens')
  BY <1>1, <1>2, <1>3, RevokeKeeps, Zenon DEF PInv
<1>6. /\ tokens' \in Table
      /\ \A h \in Hash : Stored(tokens', h) => Stored(tokens, h)
  BY <1>3, Zenon DEF Revocation
<1>7. "ok" \in Answers /\ NoToken \in Seen
  BY Zenon DEF Answers, Results, Seen
<1> QED
  BY <1>2, <1>4, <1>5, <1>6, <1>7, AnsweredKeeps, Zenon

-----------------------------------------------------------------------------
(* Delete *)

LEMMA DeleteUserRowInv ==
  ASSUME PInv, NEW p \in Proc, DeleteUserRow(p)
  PROVE  PInv'
<1>1. PICK c \in ConnectionType : proc[p] = c
  BY Zenon DEF PInv, TypeOK
<1>2. /\ c.op = "Delete" /\ c.pc = "delete" /\ c.answer = "none"
      /\ c.user \in User
      /\ users' = users /\ tokens' = tokens /\ drawn' = drawn
      /\ TypeOK
  BY <1>1, StepsOfOps, Zenon DEF DeleteUserRow, PInv, ProcOK, DeleteOK
<1>3. CASE Answer(p, "UserNotFound", NoToken)
  BY <1>2, <1>3, AnsweredOnly, Zenon DEF Answers, Results, Seen
<1>4. CASE /\ c.user \in users
           /\ Free(p, c.user, "UPDATE")
           /\ Lock(p, c.user, "UPDATE")
           /\ GoTo(p, "snapshot")
  <2>1. /\ locks' \subseteq LockType
        /\ LocksExclude'
        /\ \A l \in LockType : l.by # p => (l \in locks' <=> l \in locks)
        /\ Has(p, c.user, "UPDATE")'
    BY <1>2, <1>4, LockKeepsExclusion, Zenon DEF PInv, TypeOK, Modes
  <2>2. PICK q \in ConnectionType : /\ proc' = [proc EXCEPT ![p] = q]
                                    /\ SameCall(q, c)
                                    /\ q.pc = "snapshot"
    BY <1>1, <1>2, <1>4, Going DEF Steps
  <2>3. Moved(p) /\ proc'[p] = q
    BY <1>1, <1>2, <2>1, <2>2, Moving, Zenon
  <2>4. /\ proc'[p].op = "Delete" /\ proc'[p].pc = "snapshot" /\ proc'[p].user = c.user
        /\ proc'[p].answer = "none" /\ proc'[p].hash = c.hash
    BY <1>2, <2>2, <2>3, Zenon DEF SameCall
  <2>5. DeleteOK(p)' /\ HoldsOnly(p)'
    BY <1>2, <1>4, <2>1, <2>4, Zenon DEF DeleteOK, HoldsOnly, May
  <2>6. ProcOK(p)'
    BY <2>4, <2>5, ZenonT(30) DEF ProcOK, PendingOK, SaveOK, RotateOK, FamilyOK, RevokeOK
  <2> QED
    BY <1>1, <1>2, <2>1, <2>3, <2>4, <2>6, MovedKeeps, Zenon
<1> QED
  BY <1>1, <1>3, <1>4, Zenon DEF DeleteUserRow

LEMMA DeleteCascadeInv ==
  ASSUME PInv, NEW p \in Proc, DeleteCascade(p)
  PROVE  PInv'
<1>1. PICK c \in ConnectionType : proc[p] = c
  BY Zenon DEF PInv, TypeOK
<1> DEFINE rows == {h \in Hash : Stored(tokens, h) /\ tokens[h].user = c.user}
<1>2. /\ c.op = "Delete" /\ c.pc = "snapshot" /\ c.answer = "none"
      /\ c.user \in User /\ c.user \in users /\ Has(p, c.user, "UPDATE")
      /\ users' = users /\ tokens' = tokens /\ drawn' = drawn /\ locks' = locks
      /\ TypeOK /\ Visit(p, rows, {})
  BY <1>1, StepsOfOps, Zenon DEF DeleteCascade, PInv, ProcOK, DeleteOK
<1>3. PICK q \in ConnectionType : /\ proc' = [proc EXCEPT ![p] = q]
                                  /\ SameCall(q, c)
                                  /\ q.pc \in {"row", "commit"}
                                  /\ q.done = {}
                                  /\ Visited(q) = rows
  <2>1. rows \in SUBSET Hash /\ {} \in SUBSET Hash /\ {} \cup rows = rows
    BY Zenon
  <2> HIDE DEF rows
  <2>2. TypeOK /\ Visit(p, rows, {})
    BY <1>2, Zenon
  <2>3. PICK q \in ConnectionType : /\ proc' = [proc EXCEPT ![p] = q]
                                    /\ SameCall(q, proc[p])
                                    /\ q.pc \in {"row", "commit"}
                                    /\ q.done = {}
                                    /\ Visited(q) = {} \cup rows
    BY <2>1, <2>2, Visiting, ZenonT(30)
  <2> QED
    BY <1>1, <2>1, <2>3, Zenon
<1>4. Moved(p) /\ proc'[p] = q
  BY <1>1, <1>2, <1>3, Moving, Zenon
<1>5. q.op = "Delete" /\ q.user = c.user /\ q.hash = c.hash /\ q.answer = "none"
  BY <1>2, <1>3, Zenon DEF SameCall
<1>6. Has(p, c.user, "UPDATE")'
  BY <1>2, Zenon DEF Has
<1>7. DeleteOK(p)'
  <2>1. (Visited(proc[p]) = {h \in Hash : Stored(tokens, h) /\ tokens[h].user = proc[p].user})'
    BY <1>2, <1>3, <1>4, <1>5, Zenon
  <2>2. \A h \in proc'[p].done : Has(p, h, "UPDATE")'
    BY <1>3, <1>4, Zenon
  <2>3. /\ proc'[p].user \in User /\ proc'[p].user \in users' /\ Has(p, proc[p].user, "UPDATE")'
        /\ proc'[p].pc \in {"row", "commit"}
    BY <1>2, <1>3, <1>4, <1>5, <1>6
  <2> QED
    BY <2>1, <2>2, <2>3, ZenonT(30) DEF DeleteOK
<1>8. HoldsOnly(p)'
  BY <1>3, <1>4, <1>5, Zenon DEF HoldsOnly, May
<1>9. ProcOK(p)'
  BY <1>3, <1>4, <1>5, <1>7, <1>8, Zenon DEF ProcOK, PendingOK, SaveOK, RotateOK, FamilyOK, RevokeOK
<1>10. LocksExclude' /\ locks' \subseteq LockType
  BY <1>2, ZenonT(30) DEF PInv, LocksExclude, TypeOK
<1> QED
  BY <1>1, <1>2, <1>4, <1>5, <1>9, <1>10, MovedKeeps, Zenon

LEMMA DeleteCommitTables ==
  ASSUME PInv, NEW p \in Proc, DeleteCommit(p)
  PROVE  LET u == proc[p].user IN
         /\ u \in User /\ u \in users
         /\ Has(p, u, "UPDATE")
         /\ tokens' = DeleteTokensOf(tokens, u)
         /\ \A h \in Hash : Stored(tokens, h) /\ tokens[h].user = u => Has(p, h, "UPDATE")
<1>1. PICK c \in ConnectionType : proc[p] = c
  BY Zenon DEF PInv, TypeOK
<1>2. /\ c.op = "Delete" /\ c.pc = "commit"
      /\ c.user \in User /\ c.user \in users
      /\ Has(p, c.user, "UPDATE")
      /\ Visited(c) = {h \in Hash : Stored(tokens, h) /\ tokens[h].user = c.user}
      /\ \A h \in c.done : Has(p, h, "UPDATE")
  BY <1>1, Zenon DEF DeleteCommit, PInv, ProcOK, DeleteOK
<1>3. c.done = {h \in Hash : Stored(tokens, h) /\ tokens[h].user = c.user}
  BY <1>2, Zenon DEF Visited
<1> QED
  BY <1>1, <1>2, <1>3, Zenon DEF DeleteCommit, DeleteTokensOf

LEMMA DeleteCommitInv ==
  ASSUME PInv, NEW p \in Proc, DeleteCommit(p)
  PROVE  PInv'
<1> DEFINE u == proc[p].user
<1>1. /\ u \in User
      /\ Has(p, u, "UPDATE")
      /\ tokens' = DeleteTokensOf(tokens, u)
      /\ \A h \in Hash : Stored(tokens, h) /\ tokens[h].user = u => Has(p, h, "UPDATE")
  BY DeleteCommitTables, Zenon
<1>2. /\ users' = users \ {u} /\ drawn' = drawn /\ Answer(p, "ok", NoToken)
      /\ tokens \in Table /\ users \subseteq User
  BY Zenon DEF DeleteCommit, PInv, TypeOK
<1> HIDE DEF u
<1>3. Deletion(tokens, u, tokens')
  BY <1>1, <1>2, DeleteEffect, Zenon
<1>4. TablesKept(p)
  BY <1>1, <1>2, <1>3, DeletionKept, Zenon
<1>5. WholeFamilies(tokens', users') /\ EndsAsOne(tokens')
  BY <1>2, <1>3, DeleteKeeps, Zenon DEF PInv
<1>6. /\ tokens' \in Table /\ users' \subseteq User
      /\ \A h \in Hash : Stored(tokens', h) => Stored(tokens, h)
  BY <1>2, <1>3, Zenon DEF Deletion
<1>7. "ok" \in Answers /\ NoToken \in Seen
  BY Zenon DEF Answers, Results, Seen
<1> QED
  BY <1>2, <1>4, <1>5, <1>6, <1>7, AnsweredKeeps, ZenonT(30)

-----------------------------------------------------------------------------
(* The rows of a statement *)

\* A row of the statement is still stored when the statement comes to it: the
\* lock on the root, or on the user, kept the others away.
LEMMA RowIsStored ==
  ASSUME PInv, NEW p \in Proc, proc[p].pc = "row"
  PROVE  proc[p].cur \in Hash /\ Stored(tokens, proc[p].cur)
<1>1. PICK c \in ConnectionType : proc[p] = c
  BY Zenon DEF PInv, TypeOK
<1>2. c.cur \in Visited(c)
  BY <1>1, Zenon DEF Visited
<1>3. CASE c.op = "Revoke"
  BY <1>1, <1>2, <1>3, Zenon DEF PInv, ProcOK, RevokeOK, Member
<1>4. CASE c.op = "Delete"
  BY <1>1, <1>2, <1>4, Zenon DEF PInv, ProcOK, DeleteOK
<1> QED
  BY <1>1, <1>3, <1>4, StepsOfOps, Zenon

LEMMA WriteRowInv ==
  ASSUME PInv, NEW p \in Proc, WriteRow(p)
  PROVE  PInv'
<1>1. PICK c \in ConnectionType : proc[p] = c
  BY Zenon DEF PInv, TypeOK
<1> DEFINE mode == RowMode(c)
<1>2. /\ c.pc = "row" /\ c.op \in {"Revoke", "Delete"} /\ c.answer = "none"
      /\ c.rest \in SUBSET Hash /\ c.done \in SUBSET Hash
      /\ c.cur \in Hash /\ Stored(tokens, c.cur)
      /\ users' = users /\ tokens' = tokens /\ drawn' = drawn
      /\ TypeOK
  BY <1>1, StepsOfOps, RowIsStored, Zenon DEF WriteRow, PInv, ConnectionType
<1>3. mode = IF c.op = "Delete" THEN "UPDATE" ELSE "NO KEY UPDATE"
  BY Zenon DEF RowMode
<1>4. /\ Free(p, c.cur, mode)
      /\ Lock(p, c.cur, mode)
      /\ Visit(p, c.rest, c.done \cup {c.cur})
  BY <1>1, <1>2, Zenon DEF WriteRow
<1> HIDE DEF mode
<1>5. mode \in Modes
  BY <1>3, Zenon DEF Modes
<1>6. /\ locks' \subseteq LockType
      /\ LocksExclude'
      /\ \A l \in LockType : l.by # p => (l \in locks' <=> l \in locks)
      /\ Has(p, c.cur, mode)'
      /\ \A r, x, m : Has(r, x, m) => Has(r, x, m)'
  BY <1>2, <1>4, <1>5, LockKeepsExclusion, Zenon DEF PInv, TypeOK
<1>7. PICK q \in ConnectionType : /\ proc' = [proc EXCEPT ![p] = q]
                                  /\ SameCall(q, c)
                                  /\ q.pc \in {"row", "commit"}
                                  /\ q.done = c.done \cup {c.cur}
                                  /\ Visited(q) = c.done \cup {c.cur} \cup c.rest
  <2> DEFINE done == c.done \cup {c.cur}
             rest == c.rest
  <2>1. TypeOK /\ rest \in SUBSET Hash /\ done \in SUBSET Hash
    BY <1>2, Zenon
  <2>2. Visit(p, rest, done)
    BY <1>4, Zenon
  <2> HIDE DEF done, rest
  <2>3. PICK q \in ConnectionType : /\ proc' = [proc EXCEPT ![p] = q]
                                    /\ SameCall(q, proc[p])
                                    /\ q.pc \in {"row", "commit"}
                                    /\ q.done = done
                                    /\ Visited(q) = done \cup rest
    BY <2>1, <2>2, Visiting, Zenon
  <2> QED
    BY <1>1, <2>3, Zenon DEF done, rest
<1>8. Moved(p) /\ proc'[p] = q
  BY <1>1, <1>2, <1>6, <1>7, Moving, ZenonT(30)
<1>9. /\ q.op = c.op /\ q.hash = c.hash /\ q.user = c.user /\ q.answer = "none"
      /\ Visited(q) = Visited(c)
  BY <1>2, <1>7, Zenon DEF SameCall, Visited
<1>10. \A l \in locks' : l.by = p => l \in locks \/ l.row = c.cur
  BY <1>4 DEF Lock
<1>11. CASE c.op = "Revoke"
  <2>1. /\ Known(c.hash) /\ IsRoot(tokens, c.hash)
        /\ Stored(tokens, c.hash) => Has(p, c.hash, "UPDATE")
        /\ Visited(c) = {h \in Hash : Member(tokens, c.hash, h)}
        /\ \A h \in c.done : Has(p, h, "NO KEY UPDATE")
        /\ \A l \in locks : l.by = p => l.row = c.hash \/ l.row \in c.done
    BY <1>1, <1>2, <1>11, Zenon DEF PInv, ProcOK, RevokeOK, HoldsOnly, May
  <2>2. Known(c.hash)'
    BY <1>2, <1>8, <2>1, KnownKept, Zenon
  <2>3. \A h \in q.done : Has(p, h, "NO KEY UPDATE")'
    BY <1>3, <1>6, <1>7, <1>11, <2>1, Zenon
  <2>4. Stored(tokens, c.hash) => Has(p, c.hash, "UPDATE")'
    BY <1>6, <2>1, Zenon
  <2>5. RevokeOK(p)'
    BY <1>2, <1>7, <1>8, <1>9, <1>11, <2>1, <2>2, <2>3, <2>4, Zenon DEF RevokeOK
  <2>6. HoldsOnly(p)'
    BY <1>7, <1>8, <1>9, <1>10, <1>11, <2>1, Zenon DEF HoldsOnly, May
  <2>7. ProcOK(p)'
    BY <1>7, <1>8, <1>9, <1>11, <2>5, <2>6, ZenonT(30)
       DEF ProcOK, PendingOK, SaveOK, RotateOK, FamilyOK, DeleteOK
  <2> QED
    BY <1>1, <1>2, <1>6, <1>8, <1>9, <2>7, MovedKeeps, Zenon
<1>12. CASE c.op = "Delete"
  <2>1. /\ c.user \in User /\ c.user \in users /\ Has(p, c.user, "UPDATE")
        /\ Visited(c) = {h \in Hash : Stored(tokens, h) /\ tokens[h].user = c.user}
        /\ \A h \in c.done : Has(p, h, "UPDATE")
    BY <1>1, <1>2, <1>12, Zenon DEF PInv, ProcOK, DeleteOK
  <2>2. \A h \in q.done : Has(p, h, "UPDATE")'
    BY <1>3, <1>6, <1>7, <1>12, <2>1, ZenonT(30)
  <2>3. Has(p, c.user, "UPDATE")'
    BY <1>6, <2>1, Zenon
  <2>4. DeleteOK(p)'
    <3>1. (Visited(proc[p]) = {h \in Hash : Stored(tokens, h) /\ tokens[h].user = proc[p].user})'
      BY <1>2, <1>8, <1>9, <2>1, Zenon
    <3>2. /\ proc'[p].user \in User /\ proc'[p].user \in users' /\ Has(p, proc[p].user, "UPDATE")'
          /\ proc'[p].pc \in {"row", "commit"}
      BY <1>2, <1>7, <1>8, <1>9, <2>1, <2>3
    <3>3. \A h \in proc'[p].done : Has(p, h, "UPDATE")'
      BY <1>8, <2>2, Zenon
    <3> QED
      BY <3>1, <3>2, <3>3, Zenon DEF DeleteOK
  <2>5. HoldsOnly(p)'
    BY <1>7, <1>8, <1>9, <1>12, Zenon DEF HoldsOnly, May
  <2>6. ProcOK(p)'
    BY <1>7, <1>8, <1>9, <1>12, <2>4, <2>5, Zenon
       DEF ProcOK, PendingOK, SaveOK, RotateOK, FamilyOK, RevokeOK
  <2> QED
    BY <1>1, <1>2, <1>6, <1>8, <1>9, <2>6, MovedKeeps, Zenon
<1> QED
  BY <1>2, <1>11, <1>12, Zenon

-----------------------------------------------------------------------------
(* The invariant holds *)

LEMMA AbortInv ==
  ASSUME PInv, NEW p \in Proc, DeadlockAbort(p) \/ Cancel(p)
  PROVE  PInv'
<1>1. Answer(p, "error", NoToken) /\ UNCHANGED <<users, tokens, drawn>>
  BY Zenon DEF DeadlockAbort, Cancel
<1>2. "error" \in Answers /\ NoToken \in Seen
  BY Zenon DEF Answers, Results, Seen
<1> QED
  BY <1>1, <1>2, AnsweredOnly, Zenon

LEMMA InitInv ==
  ASSUME Init
  PROVE  PInv
<1> DEFINE q == Connection(Atomic!NoCall, "idle")
<1>1. /\ q \in ConnectionType
      /\ q.op = "none" /\ q.pc = "idle" /\ q.answer = "ok"
  BY Zenon DEF Connection, Atomic!NoCall, ConnectionType, Results, Ops, Steps
<1>2. proc \in [Proc -> ConnectionType] /\ \A p \in Proc : proc[p] = q
  BY <1>1, Zenon DEF Init
<1> HIDE DEF q
<1>3. TypeOK
  BY <1>2, Zenon DEF Init, TypeOK, Table
<1>4. \A h \in Hash : ~Stored(tokens, h)
  BY Zenon DEF Init, Stored
<1>5. WholeFamilies(tokens, users) /\ EndsAsOne(tokens)
  BY <1>4, Zenon DEF WholeFamilies, EndsAsOne
<1>6. HashesAreFresh /\ LocksExclude
  BY <1>1, <1>2, <1>4, Zenon DEF HashesAreFresh, LocksExclude, Init
<1>7. \A p \in Proc : ProcOK(p)
  BY <1>1, <1>2, Zenon DEF ProcOK, PendingOK, SaveOK, RotateOK, FamilyOK, RevokeOK, DeleteOK, HoldsOnly, Init
<1> QED
  BY <1>3, <1>5, <1>6, <1>7, Zenon DEF PInv

LEMMA StepInv ==
  ASSUME PInv, NEW p \in Proc, Step(p)
  PROVE  PInv'
BY SaveLockRootInv, SaveInsertInv, SaveCommitInv, RotateUpdateInv, RotateReadInv, FamilyQueryInv,
   RevokeLockInv, RevokeUpdateInv, RevokeCommitInv, DeleteUserRowInv, DeleteCascadeInv,
   DeleteCommitInv, WriteRowInv, Zenon DEF Step

LEMMA NextInv ==
  ASSUME PInv, [Next]_vars
  PROVE  PInv'
<1>1. CASE UNCHANGED vars
  <2>1. /\ users' = users /\ tokens' = tokens /\ drawn' = drawn /\ proc' = proc /\ locks' = locks
    BY <1>1, Zenon DEF vars
  <2>2. TypeOK' /\ LocksExclude'
    BY <2>1, Zenon DEF PInv, TypeOK, LocksExclude
  <2>3. WholeFamilies(tokens, users)' /\ EndsAsOne(tokens)'
    BY <2>1, Zenon DEF PInv, WholeFamilies, EndsAsOne
  <2>4. HashesAreFresh'
    BY <2>1, Zenon DEF PInv, HashesAreFresh, Known
  <2>5. ASSUME NEW p \in Proc
        PROVE  ProcOK(p)'
    <3>1. PendingOK(p)' /\ FamilyOK(p)' /\ HoldsOnly(p)'
      BY <2>1, Zenon DEF PInv, ProcOK, PendingOK, FamilyOK, HoldsOnly
    <3>2. SaveOK(p)' /\ RotateOK(p)'
      BY <2>1, Zenon DEF PInv, ProcOK, SaveOK, RotateOK, Known, Has
    <3>3. RevokeOK(p)' /\ DeleteOK(p)'
      BY <2>1, Zenon DEF PInv, ProcOK, RevokeOK, DeleteOK, Known, Has
    <3> QED
      BY <3>1, <3>2, <3>3, Zenon DEF ProcOK
  <2> QED
    BY <2>2, <2>3, <2>4, <2>5, Zenon DEF PInv
<1>2. CASE Next
  BY <1>2, CallInv, StepInv, AbortInv, Zenon DEF Next
<1> QED
  BY <1>1, <1>2, Zenon

\* The invariant of the row locks: whoever holds a lock, at whichever statement,
\* keeps in the tables what the rest of its transaction relies on.
LEMMA PgInvariance == Spec => []PInv
<1>1. Init => PInv
  BY InitInv, Zenon
<1>2. PInv /\ [Next]_vars => PInv'
  BY NextInv, Zenon
<1> QED
  BY <1>1, <1>2, PTL DEF Spec

-----------------------------------------------------------------------------
(* Deadlocks *)

\* What a waiting connection wants is a row somebody else has locked.
LEMMA WaitingMeans ==
  ASSUME PInv, NEW p \in Proc, NEW r \in Proc, WaitsFor(p, r)
  PROVE  /\ p # r
         /\ \E l \in locks : /\ l.by = r
                             /\ l.row = Wanted(proc[p])[1]
                             /\ l.mode \in Conflicts(Wanted(proc[p])[2])
BY Zenon DEF WaitsFor, Blockers

LEMMA WantedIs ==
  ASSUME NEW q
  PROVE  /\ q.pc = "insert" => Wanted(q)[1] = q.user /\ Wanted(q)[2] = "KEY SHARE"
         /\ q.pc = "row" => Wanted(q) = <<q.cur, RowMode(q)>>
         /\ q.pc \notin {"lockShare", "insert", "update", "lockUpdate", "delete", "row"}
              => Wanted(q) = <<NoHash, "SHARE">>
<1>1. ASSUME q.pc = "insert"
      PROVE  Wanted(q)[1] = q.user /\ Wanted(q)[2] = "KEY SHARE"
  <2>1. \E m : m = "KEY SHARE" /\ Wanted(q) = <<q.user, m>>
    BY <1>1, Zenon DEF Wanted
  <2>2. PICK m : m = "KEY SHARE" /\ Wanted(q) = <<q.user, m>>
    BY <2>1, Zenon
  <2>3. Wanted(q)[1] = q.user /\ Wanted(q)[2] = m
    <3>1. Wanted(q) = <<q.user, m>>
      BY <2>2, Zenon
    <3> QED
      BY <3>1
  <2> QED
    BY <2>2, <2>3, Zenon
<1>2. q.pc = "row" => Wanted(q) = <<q.cur, RowMode(q)>>
  BY Zenon DEF Wanted
<1>3. q.pc \notin {"lockShare", "insert", "update", "lockUpdate", "delete", "row"}
        => Wanted(q) = <<NoHash, "SHARE">>
  BY Zenon DEF Wanted
<1> QED
  BY <1>1, <1>2, <1>3, Zenon

\* A connection other than a deletion that waits while it holds a lock is a
\* revocation on its way through the family.
LEMMA HoldAndWait ==
  ASSUME PInv, NEW p \in Proc, NEW r \in Proc, WaitsFor(p, r),
         proc[p].op # "Delete", proc[r].op # "Delete",
         NEW k \in locks, k.by = p
  PROVE  proc[p].op = "Revoke" /\ proc[p].pc = "row"
<1>1. PICK c \in ConnectionType : proc[p] = c
  BY Zenon DEF PInv, TypeOK
<1>2. PICK l \in locks : /\ l.by = r
                         /\ l.row = Wanted(c)[1]
                         /\ l.mode \in Conflicts(Wanted(c)[2])
  BY <1>1, WaitingMeans, ZenonT(60)
<1>3. l.row \in Hash \cup User /\ NoHash \notin Hash \cup User
  BY StoreAssumption, PgAssumption, Zenon DEF PInv, TypeOK, LockType
<1>4. c.pc \in {"lockShare", "insert", "update", "lockUpdate", "delete", "row"}
  <2>1. Wanted(c) # <<NoHash, "SHARE">>
    BY <1>2, <1>3, SMTT(30)
  <2> QED
    BY <2>1, WantedIs, Zenon
<1>5. May(c, k.row, k.mode) /\ May(proc[r], l.row, l.mode)
  BY <1>1, <1>2, Zenon DEF PInv, ProcOK, HoldsOnly
<1>6. (c.op = "Save" /\ c.pc = "insert") \/ (c.op = "Revoke" /\ c.pc = "row")
  BY <1>1, <1>4, <1>5, ZenonT(30) DEF May
<1>7. CASE c.op = "Save" /\ c.pc = "insert"
  <2>1. c.user \in User
    BY <1>1, <1>7, Zenon DEF PInv, ProcOK, SaveOK
  <2>2. l.row = c.user /\ l.mode = "UPDATE"
    <3>1. Wanted(c)[1] = c.user /\ Wanted(c)[2] = "KEY SHARE"
      BY <1>7, WantedIs, Zenon
    <3>2. l.mode \in {"UPDATE"}
      BY <1>2, <3>1, ConflictsAre, Zenon
    <3> QED
      BY <1>2, <3>1, <3>2, Zenon
  <2>3. PICK d \in ConnectionType : proc[r] = d
    BY Zenon DEF PInv, TypeOK
  <2>4. /\ d.op # "Delete"
        /\ d.parent \in Hash \cup {NoHash}
        /\ d.op = "Revoke" => d.hash \in Hash
        /\ d.done \subseteq Hash
    BY <2>3, ZenonT(30) DEF PInv, ProcOK, RevokeOK, Known, TypeOK, ConnectionType
  <2>5. May(d, c.user, "UPDATE")
    BY <1>5, <2>2, <2>3, Zenon
  <2> QED
    BY <2>1, <2>4, <2>5, PgAssumption, StoreAssumption, Zenon DEF May
<1> QED
  BY <1>1, <1>6, <1>7, Zenon

\* A revocation on its way has its root locked, and is at a member of the family.
LEMMA Revoking ==
  ASSUME PInv, NEW p \in Proc, proc[p].op = "Revoke", proc[p].pc = "row"
  PROVE  LET f == proc[p].hash IN
         /\ f \in Hash /\ Stored(tokens, f) /\ tokens[f].parent = NoHash
         /\ Has(p, f, "UPDATE")
         /\ Member(tokens, f, proc[p].cur) /\ proc[p].cur \in Hash
         /\ \A l \in locks : l.by = p => l.row \in Hash /\ Member(tokens, f, l.row)
<1>1. PICK c \in ConnectionType : proc[p] = c
  BY Zenon DEF PInv, TypeOK
<1>2. /\ c.hash \in Hash /\ IsRoot(tokens, c.hash)
      /\ Stored(tokens, c.hash) => Has(p, c.hash, "UPDATE")
      /\ Visited(c) = {h \in Hash : Member(tokens, c.hash, h)}
      /\ \A l \in locks : l.by = p => l.row = c.hash \/ l.row \in c.done
  BY <1>1, ZenonT(30) DEF PInv, TypeOK, ProcOK, RevokeOK, Known, HoldsOnly, May
<1>3. c.cur \in Visited(c) /\ c.done \subseteq Visited(c)
  BY <1>1, Zenon DEF Visited
<1>4. c.cur \in Hash /\ Member(tokens, c.hash, c.cur)
  BY <1>2, <1>3, Zenon
<1>5. Stored(tokens, c.hash)
  BY <1>2, <1>4, StoreAssumption, Zenon DEF Member, PInv, WholeFamilies
<1>6. Member(tokens, c.hash, c.hash)
  BY <1>5, Zenon DEF Member
<1>7. \A l \in locks : l.by = p => l.row \in Hash /\ Member(tokens, c.hash, l.row)
  BY <1>2, <1>3, <1>6, Zenon
<1> QED
  BY <1>1, <1>2, <1>4, <1>5, <1>7, ZenonT(30) DEF IsRoot

LEMMA NoCircle ==
  ASSUME PInv
  PROVE  DeadlocksNeedADelete
<1> SUFFICES ASSUME NEW S \in SUBSET {p \in Proc : proc[p].op # "Delete"}, WaitInCircle(S),
                    NEW x \in S
             PROVE  FALSE
  BY Zenon DEF DeadlocksNeedADelete
<1>1. \A p \in S : p \in Proc /\ proc[p].op # "Delete"
  BY Zenon
<1>2. PICK p \in S : WaitsFor(x, p)
  BY Zenon DEF WaitInCircle
<1>3. PICK r \in S : WaitsFor(p, r)
  BY Zenon DEF WaitInCircle
<1>4. PICK t \in S : WaitsFor(r, t)
  BY Zenon DEF WaitInCircle
<1>5. PICK k \in locks : k.by = p
  BY <1>1, <1>2, WaitingMeans, Zenon
<1>6. /\ p # r
      /\ \E l \in locks : l.by = r /\ l.row = Wanted(proc[p])[1]
  BY <1>1, <1>3, WaitingMeans
<1>7. PICK l \in locks : l.by = r /\ l.row = Wanted(proc[p])[1]
  BY <1>6, Zenon
<1>8. proc[p].op = "Revoke" /\ proc[p].pc = "row"
  BY <1>1, <1>3, <1>5, HoldAndWait, Zenon
<1>9. proc[r].op = "Revoke" /\ proc[r].pc = "row"
  BY <1>1, <1>4, <1>7, HoldAndWait, Zenon
<1>10. l.row = proc[p].cur
  <2>1. Wanted(proc[p]) = <<proc[p].cur, RowMode(proc[p])>>
    BY <1>8, WantedIs, ZenonT(30)
  <2> QED
    BY <1>7, <2>1
<1> DEFINE f == proc[p].hash
           g == proc[r].hash
           h == proc[p].cur
<1>11. /\ f \in Hash /\ Stored(tokens, f) /\ tokens[f].parent = NoHash /\ Has(p, f, "UPDATE")
       /\ Member(tokens, f, h) /\ h \in Hash
  BY <1>1, <1>8, Revoking, Zenon
<1>12. /\ g \in Hash /\ Stored(tokens, g) /\ tokens[g].parent = NoHash /\ Has(r, g, "UPDATE")
       /\ Member(tokens, g, h)
  BY <1>1, <1>7, <1>9, <1>10, Revoking, Zenon
<1> HIDE DEF f, g, h
<1>13. f = g
  BY <1>11, <1>12, StoreAssumption DEF Member
<1> QED
  BY <1>6, <1>11, <1>12, <1>13, HasExcludes, ConflictsAre, Zenon DEF PInv

\* Only the deletion of a user can deadlock: of saves, rotations and revocations,
\* however many and on however many families, no set waits in a circle, because a
\* family's root is locked before anything else of the family (postgres.go,
\* RevokeTokens and SaveRefreshToken).
THEOREM OnlyDeletesDeadlock == Spec => []DeadlocksNeedADelete
<1>1. PInv => DeadlocksNeedADelete
  BY NoCircle, Zenon
<1> QED
  BY <1>1, PgInvariance, PTL

-----------------------------------------------------------------------------
(* Every call is atomic *)

LEMMA SameOperators ==
  ASSUME NEW h, NEW u, NEW f, NEW t
  PROVE  /\ Atomic!Stored(tokens, h) <=> Stored(tokens, h)
         /\ Atomic!MayJoin(tokens, f) <=> MayJoin(tokens, f)
         /\ Atomic!CanRotate(tokens, h, t) <=> CanRotate(tokens, h, t)
         /\ Atomic!IsRevoked(tokens, h) <=> IsRevoked(tokens, h)
         /\ Atomic!IsExpired(tokens, h, t) <=> IsExpired(tokens, h, t)
         /\ Atomic!SaveRefreshToken(tokens, h, u, f, t) = SaveRefreshToken(tokens, h, u, f, t)
         /\ Atomic!RotateRefreshToken(tokens, h, t) = RotateRefreshToken(tokens, h, t)
         /\ Atomic!RevokeTokens(tokens, f) = RevokeTokens(tokens, f)
         /\ Atomic!DeleteTokensOf(tokens, u) = DeleteTokensOf(tokens, u)
         /\ Atomic!SessionEnded(tokens, f) <=> SessionEnded(tokens, f)
         /\ Atomic!Rotations(tokens, f) = Rotations(tokens, f)
<1>1. /\ Atomic!Stored(tokens, h) <=> Stored(tokens, h)
      /\ Atomic!MayJoin(tokens, f) <=> MayJoin(tokens, f)
      /\ Atomic!CanRotate(tokens, h, t) <=> CanRotate(tokens, h, t)
      /\ Atomic!IsRevoked(tokens, h) <=> IsRevoked(tokens, h)
      /\ Atomic!IsExpired(tokens, h, t) <=> IsExpired(tokens, h, t)
  BY Zenon DEF Atomic!Stored, Stored, Atomic!MayJoin, MayJoin, Atomic!CanRotate, CanRotate,
            Atomic!IsRevoked, IsRevoked, Atomic!IsExpired, IsExpired
<1>2. /\ Atomic!SaveRefreshToken(tokens, h, u, f, t) = SaveRefreshToken(tokens, h, u, f, t)
      /\ Atomic!RotateRefreshToken(tokens, h, t) = RotateRefreshToken(tokens, h, t)
  BY Zenon DEF Atomic!SaveRefreshToken, SaveRefreshToken, Atomic!RotateRefreshToken, RotateRefreshToken
<1>3. /\ Atomic!RevokeTokens(tokens, f) = RevokeTokens(tokens, f)
      /\ Atomic!DeleteTokensOf(tokens, u) = DeleteTokensOf(tokens, u)
  BY Zenon DEF Atomic!RevokeTokens, RevokeTokens, Atomic!DeleteTokensOf, DeleteTokensOf,
            Atomic!Member, Member, Atomic!Stored, Stored
<1>4. Atomic!SessionEnded(tokens, f) <=> SessionEnded(tokens, f)
  BY Zenon DEF Atomic!SessionEnded, SessionEnded, Atomic!Member, Member, Atomic!Stored, Stored
<1>5. Atomic!Rotations(tokens, f) = Rotations(tokens, f)
  BY Zenon DEF Atomic!Rotations, Rotations, Atomic!Member, Member, Atomic!Stored, Stored
<1> QED
  BY <1>1, <1>2, <1>3, <1>4, <1>5, Zenon

call == [p \in Proc |-> Abstract(proc[p])]

\* A connection's call is what it was made of.
LEMMA AbstractReturned ==
  ASSUME NEW a, NEW seen
  PROVE  Abstract(Connection(Atomic!Returned(a, seen), "idle")) = Atomic!Returned(a, seen)
<1> DEFINE c == Atomic!Returned(a, seen)
           Like == [op : {"none"}, hash : {NoHash}, user : {NoUser}, parent : {NoHash},
                    at : {NoTime}, answer : {a}, seen : {seen}]
<1>1. c \in Like
  BY ZenonT(30) DEF Atomic!Returned, Atomic!NoCall
<1>2. Abstract(Connection(c, "idle")) \in Like
  <2> HIDE DEF c
  <2> QED
    BY <1>1, Zenon DEF Abstract, Connection
<1>3. \A x, y \in Like : x = y
  OBVIOUS
<1> HIDE DEF c, Like
<1> QED
  BY <1>1, <1>2, <1>3, Zenon DEF c

LEMMA AbstractAsked ==
  ASSUME NEW op, NEW h, NEW u, NEW f, NEW t, NEW pc
  PROVE  Abstract(Connection(Atomic!Asked(op, h, u, f, t), pc)) = Atomic!Asked(op, h, u, f, t)
BY Zenon DEF Abstract, Connection, Atomic!Asked

LEMMA AbstractNoCall == Abstract(Connection(Atomic!NoCall, "idle")) = Atomic!NoCall
BY Zenon DEF Abstract, Connection, Atomic!NoCall

LEMMA AbstractSame ==
  ASSUME NEW q, NEW c, SameCall(q, c)
  PROVE  Abstract(q) = Abstract(c)
BY Zenon DEF SameCall, Abstract

LEMMA AbstractUpdate ==
  ASSUME TypeOK, NEW p \in Proc, NEW q, NEW c, proc' = [proc EXCEPT ![p] = q], Abstract(q) = c
  PROVE  call' = [call EXCEPT ![p] = c]
BY Zenon DEF call, TypeOK

LEMMA AnswerRefines ==
  ASSUME TypeOK, NEW p \in Proc, NEW a, NEW seen, Answer(p, a, seen)
  PROVE  Atomic!Answer(p, a, seen)
<1>1. PICK c \in {Atomic!Returned(a, seen), Atomic!Returned("error", NoToken)} :
        proc' = [proc EXCEPT ![p] = Connection(c, "idle")]
  BY Zenon DEF Answer
<1>2. Abstract(Connection(c, "idle")) = c
  BY <1>1, AbstractReturned, Zenon
<1>3. call' = [call EXCEPT ![p] = c]
  BY <1>1, <1>2, AbstractUpdate, ZenonT(30)
<1> QED
  BY <1>1, <1>3, Zenon DEF Atomic!Answer, call

LEMMA CallFields ==
  ASSUME NEW p \in Proc
  PROVE  /\ call[p].op = proc[p].op /\ call[p].hash = proc[p].hash
         /\ call[p].user = proc[p].user /\ call[p].parent = proc[p].parent
         /\ call[p].at = proc[p].at /\ call[p].answer = proc[p].answer
BY Zenon DEF call, Abstract

LEMMA DoingIs ==
  ASSUME NEW p \in Proc, NEW op, proc[p].answer = "none", proc[p].op = op, drawn' = drawn
  PROVE  Atomic!Doing(p, op)
BY CallFields, Zenon DEF Atomic!Doing, call

\* The three outcomes of a save.
LEMMA SaveRefines ==
  ASSUME TypeOK, NEW p \in Proc, NEW c, c = proc[p], c.answer = "none", c.op = "Save",
         users' = users, drawn' = drawn,
         \/ ~MayJoin(tokens, c.parent) /\ Answer(p, "TokenRevoked", NoToken) /\ tokens' = tokens
         \/ /\ MayJoin(tokens, c.parent) /\ c.user \notin users
            /\ Answer(p, "UserNotFound", NoToken) /\ tokens' = tokens
         \/ /\ MayJoin(tokens, c.parent) /\ c.user \in users
            /\ tokens' = SaveRefreshToken(tokens, c.hash, c.user, c.parent, Expiry)
            /\ Answer(p, "ok", NoToken)
  PROVE  Atomic!Save(p)
<1>1. Atomic!Doing(p, "Save")
  BY DoingIs, Zenon
<1>2. call[p].parent = c.parent /\ call[p].user = c.user /\ call[p].hash = c.hash
  BY CallFields, Zenon
<1>3. \A a : Answer(p, a, NoToken) => Atomic!Answer(p, a, NoToken)
  BY AnswerRefines, Zenon
<1>4. Atomic!MayJoin(tokens, c.parent) <=> MayJoin(tokens, c.parent)
  BY SameOperators, ZenonT(30)
<1>5. Atomic!SaveRefreshToken(tokens, c.hash, c.user, c.parent, Expiry)
        = SaveRefreshToken(tokens, c.hash, c.user, c.parent, Expiry)
  BY Zenon DEF Atomic!SaveRefreshToken, SaveRefreshToken
<1> QED
  BY <1>1, <1>2, <1>3, <1>4, <1>5, ZenonT(30) DEF Atomic!Save, call

\* What a step of the connection p is to the service: a step of the atomic store,
\* or nothing.
Atomically(p) == \/ Atomic!Save(p) \/ Atomic!Rotate(p) \/ Atomic!Family(p) \/ Atomic!Revoke(p)
                 \/ Atomic!Delete(p) \/ Atomic!Error(p)
                 \/ UNCHANGED <<users, tokens, drawn, call>>

LEMMA Unseen ==
  ASSUME TypeOK, NEW p \in Proc, UNCHANGED <<users, tokens, drawn>>, NEW q \in ConnectionType,
         proc' = [proc EXCEPT ![p] = q], SameCall(q, proc[p])
  PROVE  Atomically(p)
<1>1. call' = [call EXCEPT ![p] = Abstract(proc[p])]
  BY AbstractSame, AbstractUpdate, Zenon
<1>2. call' = call
  BY <1>1, Zenon DEF call
<1> QED
  BY <1>2, Zenon DEF Atomically

LEMMA GoingUnseen ==
  ASSUME TypeOK, NEW p \in Proc, UNCHANGED <<users, tokens, drawn>>, NEW pc \in Steps, GoTo(p, pc)
  PROVE  Atomically(p)
BY Going, Unseen, Zenon

LEMMA VisitingUnseen ==
  ASSUME TypeOK, NEW p \in Proc, UNCHANGED <<users, tokens, drawn>>,
         NEW rest \in SUBSET Hash, NEW done \in SUBSET Hash, Visit(p, rest, done)
  PROVE  Atomically(p)
BY Visiting, Unseen, Zenon

LEMMA SaveStepsRefine ==
  ASSUME PInv, NEW p \in Proc, SaveLockRoot(p) \/ SaveInsert(p) \/ SaveCommit(p)
  PROVE  Atomically(p)
<1>1. PICK c \in ConnectionType : proc[p] = c
  BY Zenon DEF PInv, TypeOK
<1>2. TypeOK /\ SaveOK(p)
  BY Zenon DEF PInv, ProcOK
<1>3. c.op = "Save" /\ c.answer = "none"
  BY <1>1, StepsOfOps, Zenon DEF SaveLockRoot, SaveInsert, SaveCommit
<1>4. CASE SaveLockRoot(p)
  <2>1. c.parent # NoHash
    BY <1>1, <1>2, <1>3, <1>4, Zenon DEF SaveLockRoot, SaveOK
  <2>2. users' = users /\ tokens' = tokens /\ drawn' = drawn
    BY <1>4, Zenon DEF SaveLockRoot
  <2>3. \/ ~MayJoin(tokens, c.parent) /\ Answer(p, "TokenRevoked", NoToken)
        \/ GoTo(p, "insert")
    BY <1>1, <1>4, <2>1, Zenon DEF SaveLockRoot, MayJoin
  <2>4. CASE ~MayJoin(tokens, c.parent) /\ Answer(p, "TokenRevoked", NoToken)
    BY <1>1, <1>2, <1>3, <2>2, <2>4, SaveRefines, ZenonT(30) DEF Atomically
  <2>5. CASE GoTo(p, "insert")
    BY <1>2, <2>2, <2>5, GoingUnseen, Zenon DEF Steps
  <2> QED
    BY <2>3, <2>4, <2>5, Zenon
<1>5. CASE SaveInsert(p)
  <2>1. MayJoin(tokens, c.parent)
    BY <1>1, <1>2, <1>3, <1>5, Zenon DEF SaveInsert, SaveOK, MayJoin
  <2>2. users' = users /\ drawn' = drawn
    BY <1>5, Zenon DEF SaveInsert
  <2>3. CASE c.user \notin users /\ Answer(p, "UserNotFound", NoToken) /\ tokens' = tokens
    BY <1>1, <1>2, <1>3, <2>1, <2>2, <2>3, SaveRefines, Zenon DEF Atomically
  <2>4. CASE /\ c.user \in users /\ c.parent = NoHash
             /\ tokens' = SaveRefreshToken(tokens, c.hash, c.user, NoHash, Expiry)
             /\ Answer(p, "ok", NoToken)
    BY <1>1, <1>2, <1>3, <2>1, <2>2, <2>4, SaveRefines, ZenonT(30) DEF Atomically
  <2>5. CASE GoTo(p, "commit") /\ tokens' = tokens
    BY <1>2, <2>2, <2>5, GoingUnseen, Zenon DEF Steps
  <2> QED
    BY <1>1, <1>5, <2>3, <2>4, <2>5, Zenon DEF SaveInsert
<1>6. CASE SaveCommit(p)
  <2>1. MayJoin(tokens, c.parent) /\ c.user \in users
    BY <1>1, <1>2, <1>3, <1>6, Zenon DEF SaveCommit, SaveOK, MayJoin
  <2> QED
    BY <1>1, <1>2, <1>3, <1>6, <2>1, SaveRefines, Zenon DEF Atomically, SaveCommit
<1> QED
  BY <1>4, <1>5, <1>6, Zenon

LEMMA RotateUpdateRefines ==
  ASSUME PInv, NEW p \in Proc, RotateUpdate(p)
  PROVE  Atomically(p)
<1>1. PICK c \in ConnectionType : proc[p] = c
  BY Zenon DEF PInv, TypeOK
<1>2. TypeOK /\ users' = users /\ drawn' = drawn
  BY Zenon DEF PInv, RotateUpdate
<1>3. c.op = "Rotate" /\ c.answer = "none"
  BY <1>1, StepsOfOps, Zenon DEF RotateUpdate
<1>4. CASE /\ CanRotate(tokens, c.hash, c.at)
           /\ tokens' = RotateRefreshToken(tokens, c.hash, c.at)
           /\ Answer(p, "ok", tokens'[c.hash])
  <2>1. Atomic!Doing(p, "Rotate")
    BY <1>1, <1>2, <1>3, DoingIs, Zenon
  <2>2. call[p].hash = c.hash /\ call[p].at = c.at
    BY <1>1, CallFields, Zenon
  <2>3. /\ Atomic!CanRotate(tokens, c.hash, c.at)
        /\ tokens' = Atomic!RotateRefreshToken(tokens, c.hash, c.at)
    BY <1>4, SameOperators, ZenonT(30)
  <2>4. PICK seen : seen = tokens'[c.hash]
    BY Zenon
  <2>5. Atomic!Answer(p, "ok", seen)
    BY <1>2, <1>4, <2>4, AnswerRefines, ZenonT(30)
  <2>6. Atomic!Answer(p, "ok", tokens'[c.hash])
    BY <2>4, <2>5, Zenon
  <2>7. Atomic!Rotate(p)
    BY <1>2, <2>1, <2>2, <2>3, <2>6, Zenon DEF Atomic!Rotate, call
  <2> QED
    BY <2>7, Zenon DEF Atomically
<1>5. CASE GoTo(p, "read") /\ tokens' = tokens
  BY <1>2, <1>5, GoingUnseen, Zenon DEF Steps
<1> QED
  BY <1>1, <1>4, <1>5, Zenon DEF RotateUpdate

\* The read names the reason for which the UPDATE found no row.
LEMMA RotateReadRefines ==
  ASSUME PInv, NEW p \in Proc, RotateRead(p)
  PROVE  Atomically(p)
<1>1. PICK c \in ConnectionType : proc[p] = c
  BY Zenon DEF PInv, TypeOK
<1>2. TypeOK /\ users' = users /\ tokens' = tokens /\ drawn' = drawn
  BY Zenon DEF PInv, RotateRead
<1>3. c.op = "Rotate" /\ c.answer = "none" /\ c.pc = "read"
  BY <1>1, StepsOfOps, Zenon DEF RotateRead
<1>4. /\ c.hash \in Hash /\ c.at \in Int
      /\ ~CanRotate(tokens, c.hash, c.at)
  BY <1>1, <1>3, PgAssumption, Zenon DEF PInv, TypeOK, ProcOK, RotateOK, Known
<1>5. Atomic!Doing(p, "Rotate")
  BY <1>1, <1>2, <1>3, DoingIs, Zenon
<1>6. call[p].hash = c.hash /\ call[p].at = c.at
  BY <1>1, CallFields, Zenon
<1>7. PICK a : /\ a = CASE ~Stored(tokens, c.hash) -> "TokenNotFound"
                        [] IsRevoked(tokens, c.hash) -> "TokenRevoked"
                        [] OTHER -> "TokenExpired"
               /\ Answer(p, a, tokens[c.hash])
  BY <1>1, Zenon DEF RotateRead
<1>8. Atomic!Answer(p, a, tokens[c.hash])
  <2>1. PICK seen : seen = tokens[c.hash]
    BY Zenon
  <2>2. Atomic!Answer(p, a, seen)
    BY <1>2, <1>7, <2>1, AnswerRefines, Zenon
  <2> QED
    BY <2>1, <2>2, Zenon
<1>9. \/ /\ ~Atomic!Stored(tokens, c.hash)
         /\ Atomic!Answer(p, "TokenNotFound", NoToken)
      \/ /\ Atomic!IsRevoked(tokens, c.hash)
         /\ Atomic!Answer(p, "TokenRevoked", tokens[c.hash])
      \/ /\ Atomic!IsExpired(tokens, c.hash, c.at)
         /\ Atomic!Answer(p, "TokenExpired", tokens[c.hash])
  <2>1. CASE ~Stored(tokens, c.hash)
    <3>1. a = "TokenNotFound"
      BY <1>7, <2>1, Zenon DEF IsRevoked
    <3>2. tokens[c.hash] = NoToken
      BY <2>1, Zenon DEF Stored
    <3> QED
      BY <1>8, <2>1, <3>1, <3>2, SameOperators, Zenon
  <2>2. CASE IsRevoked(tokens, c.hash)
    <3>1. a = "TokenRevoked"
      BY <1>7, <2>2, Zenon DEF IsRevoked
    <3> QED
      BY <1>8, <2>2, <3>1, SameOperators, Zenon
  <2>3. CASE Stored(tokens, c.hash) /\ ~IsRevoked(tokens, c.hash)
    <3>1. a = "TokenExpired"
      BY <1>7, <2>3, Zenon
    <3>2. tokens[c.hash] \in Token
      BY <1>2, <1>4, <2>3, StoredType, Zenon DEF TypeOK
    <3>3. tokens[c.hash].expiresAt \in Int
      BY <3>2, Zenon DEF Token
    <3>4. IsExpired(tokens, c.hash, c.at)
      BY <1>4, <2>3, <3>3 DEF IsExpired, IsRevoked, CanRotate
    <3> QED
      BY <1>8, <3>1, <3>4, SameOperators, Zenon
  <2> QED
    BY <2>1, <2>2, <2>3, Zenon
<1>10. Atomic!Rotate(p)
  BY <1>2, <1>5, <1>6, <1>9, ZenonT(30) DEF Atomic!Rotate, call
<1> QED
  BY <1>10, Zenon DEF Atomically

LEMMA FamilyQueryRefines ==
  ASSUME PInv, NEW p \in Proc, FamilyQuery(p)
  PROVE  Atomically(p)
<1>1. PICK c \in ConnectionType : proc[p] = c
  BY Zenon DEF PInv, TypeOK
<1>2. TypeOK /\ users' = users /\ tokens' = tokens /\ drawn' = drawn
  BY Zenon DEF PInv, FamilyQuery
<1>3. c.op = "Family" /\ c.answer = "none"
  BY <1>1, StepsOfOps, Zenon DEF FamilyQuery
<1>4. Atomic!Doing(p, "Family")
  BY <1>1, <1>2, <1>3, DoingIs, Zenon
<1>5. call[p].hash = c.hash
  BY <1>1, CallFields, Zenon
<1>6. PICK s : /\ s = [ended |-> SessionEnded(tokens, c.hash), rotations |-> Rotations(tokens, c.hash)]
               /\ Answer(p, "ok", s)
  BY <1>1, Zenon DEF FamilyQuery
<1>7. Atomic!Answer(p, "ok", s)
  BY <1>2, <1>6, AnswerRefines, Zenon
<1>8. s = [ended |-> Atomic!SessionEnded(tokens, c.hash),
           rotations |-> Atomic!Rotations(tokens, c.hash)]
  <2>1. Atomic!SessionEnded(tokens, c.hash) = SessionEnded(tokens, c.hash)
    BY Zenon DEF Atomic!SessionEnded, SessionEnded, Atomic!Member, Member, Atomic!Stored, Stored
  <2>2. Atomic!Rotations(tokens, c.hash) = Rotations(tokens, c.hash)
    BY SameOperators, Zenon
  <2> QED
    BY <1>6, <2>1, <2>2, Zenon
<1>9. Atomic!Family(p)
  BY <1>2, <1>4, <1>5, <1>7, <1>8, Zenon DEF Atomic!Family, call
<1> QED
  BY <1>9, Zenon DEF Atomically

LEMMA RevokeStepsRefine ==
  ASSUME PInv, NEW p \in Proc, RevokeLock(p) \/ RevokeUpdate(p) \/ RevokeCommit(p)
  PROVE  Atomically(p)
<1>1. TypeOK
  BY Zenon DEF PInv
<1>2. CASE RevokeLock(p)
  BY <1>1, <1>2, GoingUnseen, Zenon DEF RevokeLock, Steps
<1>3. CASE RevokeUpdate(p)
  <2> DEFINE rows == {h \in Hash : Member(tokens, proc[p].hash, h)}
  <2>1. rows \in SUBSET Hash /\ {} \in SUBSET Hash
    BY Zenon
  <2>2. Visit(p, rows, {}) /\ UNCHANGED <<users, tokens, drawn>>
    BY <1>3, Zenon DEF RevokeUpdate
  <2> HIDE DEF rows
  <2> QED
    BY <1>1, <2>1, <2>2, VisitingUnseen, Zenon
<1>4. CASE RevokeCommit(p)
  <2>1. proc[p].op = "Revoke" /\ proc[p].answer = "none"
    BY <1>4, StepsOfOps, Zenon DEF RevokeCommit
  <2>2. tokens' = RevokeTokens(tokens, proc[p].hash)
    BY <1>4, RevokeCommitTables, Zenon
  <2>3. users' = users /\ drawn' = drawn /\ Answer(p, "ok", NoToken)
    BY <1>4, ZenonT(30) DEF RevokeCommit
  <2>4. Atomic!Doing(p, "Revoke") /\ Atomic!Answer(p, "ok", NoToken)
    BY <1>1, <2>1, <2>3, DoingIs, AnswerRefines, Zenon
  <2>5. tokens' = Atomic!RevokeTokens(tokens, call[p].hash)
    BY <2>2, CallFields, SameOperators, Zenon
  <2>6. Atomic!Revoke(p)
    BY <2>3, <2>4, <2>5, Zenon DEF Atomic!Revoke, call
  <2> QED
    BY <2>6, Zenon DEF Atomically
<1> QED
  BY <1>2, <1>3, <1>4, Zenon

LEMMA DeleteStepsRefine ==
  ASSUME PInv, NEW p \in Proc, DeleteUserRow(p) \/ DeleteCascade(p) \/ DeleteCommit(p)
  PROVE  Atomically(p)
<1>1. TypeOK
  BY Zenon DEF PInv
<1>2. proc[p].op = "Delete" /\ proc[p].answer = "none"
  BY StepsOfOps, ZenonT(30) DEF DeleteUserRow, DeleteCascade, DeleteCommit
<1>3. call[p].user = proc[p].user
  BY CallFields, Zenon
<1>4. CASE DeleteUserRow(p)
  <2>1. users' = users /\ tokens' = tokens /\ drawn' = drawn
    BY <1>4, Zenon DEF DeleteUserRow
  <2>2. CASE proc[p].user \notin users /\ Answer(p, "UserNotFound", NoToken)
    <3>1. Atomic!Doing(p, "Delete") /\ Atomic!Answer(p, "UserNotFound", NoToken)
      BY <1>1, <1>2, <2>1, <2>2, DoingIs, AnswerRefines, Zenon
    <3>2. Atomic!Delete(p)
      BY <1>3, <2>1, <2>2, <3>1, Zenon DEF Atomic!Delete, call
    <3> QED
      BY <3>2, Zenon DEF Atomically
  <2>3. CASE GoTo(p, "snapshot")
    BY <1>1, <2>1, <2>3, GoingUnseen, Zenon DEF Steps
  <2> QED
    BY <1>4, <2>2, <2>3, Zenon DEF DeleteUserRow
<1>5. CASE DeleteCascade(p)
  <2> DEFINE rows == {h \in Hash : Stored(tokens, h) /\ tokens[h].user = proc[p].user}
  <2>1. rows \in SUBSET Hash /\ {} \in SUBSET Hash
    BY Zenon
  <2>2. Visit(p, rows, {}) /\ UNCHANGED <<users, tokens, drawn>>
    BY <1>5, ZenonT(30) DEF DeleteCascade
  <2> HIDE DEF rows
  <2> QED
    BY <1>1, <2>1, <2>2, VisitingUnseen, Zenon
<1>6. CASE DeleteCommit(p)
  <2>1. proc[p].user \in users /\ tokens' = DeleteTokensOf(tokens, proc[p].user)
    BY <1>6, DeleteCommitTables, ZenonT(30)
  <2>2. users' = users \ {proc[p].user} /\ drawn' = drawn /\ Answer(p, "ok", NoToken)
    BY <1>6, Zenon DEF DeleteCommit
  <2>3. Atomic!Doing(p, "Delete") /\ Atomic!Answer(p, "ok", NoToken)
    BY <1>1, <1>2, <2>2, DoingIs, AnswerRefines, Zenon
  <2>4. tokens' = Atomic!DeleteTokensOf(tokens, call[p].user)
    BY <1>3, <2>1, SameOperators, Zenon
  <2>5. Atomic!Delete(p)
    BY <1>3, <2>1, <2>2, <2>3, <2>4, ZenonT(30) DEF Atomic!Delete, call
  <2> QED
    BY <2>5, Zenon DEF Atomically
<1> QED
  BY <1>4, <1>5, <1>6, Zenon

LEMMA WriteRowRefines ==
  ASSUME PInv, NEW p \in Proc, WriteRow(p)
  PROVE  Atomically(p)
<1>1. PICK c \in ConnectionType : proc[p] = c
  BY Zenon DEF PInv, TypeOK
<1>2. /\ TypeOK /\ UNCHANGED <<users, tokens, drawn>>
      /\ c.cur \in Hash /\ Stored(tokens, c.cur)
      /\ c.rest \in SUBSET Hash /\ c.done \in SUBSET Hash
  BY <1>1, RowIsStored, Zenon DEF PInv, WriteRow, ConnectionType
<1> DEFINE rest == c.rest
           done == c.done \cup {c.cur}
<1>3. rest \in SUBSET Hash /\ done \in SUBSET Hash /\ Visit(p, rest, done)
  BY <1>1, <1>2, ZenonT(30) DEF WriteRow
<1> HIDE DEF rest, done
<1> QED
  BY <1>2, <1>3, VisitingUnseen, Zenon

\* A connection that is waiting for a lock has a call to answer.
LEMMA WaitersAreCalls ==
  ASSUME PInv, NEW p \in Proc, NEW r \in Proc, WaitsFor(p, r)
  PROVE  proc[p].answer = "none"
<1>1. PICK l \in locks : l.row = Wanted(proc[p])[1]
  BY WaitingMeans, Zenon
<1>2. l.row \in Hash \cup User /\ NoHash \notin Hash \cup User
  BY StoreAssumption, PgAssumption, Zenon DEF PInv, TypeOK, LockType
<1>3. Wanted(proc[p]) # <<NoHash, "SHARE">>
  BY <1>1, <1>2
<1>4. proc[p].pc # "idle"
  BY <1>3, WantedIs, Zenon
<1> QED
  BY <1>4, StepsOfOps, Zenon

LEMMA AbortRefines ==
  ASSUME PInv, NEW p \in Proc, DeadlockAbort(p) \/ Cancel(p)
  PROVE  Atomically(p)
<1>1. TypeOK /\ Answer(p, "error", NoToken) /\ UNCHANGED <<users, tokens, drawn>>
  BY Zenon DEF PInv, DeadlockAbort, Cancel
<1>2. proc[p].answer = "none"
  <2>1. CASE Cancel(p)
    BY <2>1, Zenon DEF Cancel
  <2>2. CASE DeadlockAbort(p)
    <3>1. PICK S \in SUBSET Proc : p \in S /\ WaitInCircle(S)
      BY <2>2, Zenon DEF DeadlockAbort
    <3>2. PICK r \in S : WaitsFor(p, r)
      BY <3>1, Zenon DEF WaitInCircle
    <3> QED
      BY <3>2, WaitersAreCalls, Zenon
  <2> QED
    BY <2>1, <2>2, Zenon
<1>3. call[p].answer = "none"
  BY <1>2, CallFields, Zenon
<1>4. call' = [call EXCEPT ![p] = Atomic!Returned("error", NoToken)]
  <2>1. proc' = [proc EXCEPT ![p] = Connection(Atomic!Returned("error", NoToken), "idle")]
    BY <1>1, Zenon DEF Answer
  <2> QED
    BY <1>1, <2>1, AbstractReturned, AbstractUpdate, Zenon
<1>5. Atomic!Error(p)
  BY <1>1, <1>3, <1>4, Zenon DEF Atomic!Error, call
<1> QED
  BY <1>5, Zenon DEF Atomically

LEMMA CallRefines ==
  ASSUME PInv, NEW p \in Proc, NEW c \in Atomic!Calls, Call(p, c)
  PROVE  Atomic!Call(p, c)
<1>1. \E op, h, u, f, t : c = Atomic!Asked(op, h, u, f, t)
  BY CallsAre
<1>2. Abstract(Connection(c, FirstStep(c))) = c
  BY <1>1, AbstractAsked, Zenon
<1>3. call' = [call EXCEPT ![p] = c]
  BY <1>2, AbstractUpdate, Zenon DEF Call, PInv
<1>4. call[p].answer # "none"
  BY CallFields, Zenon DEF Call
<1> QED
  BY <1>3, <1>4, ZenonT(30) DEF Atomic!Call, Call, call

LEMMA NextRefines ==
  ASSUME PInv, [Next]_vars
  PROVE  [Atomic!Next]_(Atomic!vars)
<1>1. CASE UNCHANGED vars
  <2>1. UNCHANGED <<users, tokens, drawn, call>>
    BY <1>1, Zenon DEF vars, call
  <2> QED
    BY <2>1, Zenon DEF Atomic!vars, call
<1>2. ASSUME NEW p \in Proc, Atomically(p)
      PROVE  [Atomic!Next]_(Atomic!vars)
  BY <1>2, Zenon DEF Atomically, Atomic!Next, Atomic!vars, call
<1>3. ASSUME NEW p \in Proc, NEW c \in Atomic!Calls, Call(p, c)
      PROVE  Atomic!Next
  BY <1>3, CallRefines, Zenon DEF Atomic!Next
<1>4. ASSUME NEW p \in Proc, Step(p) \/ DeadlockAbort(p) \/ Cancel(p)
      PROVE  Atomically(p)
  BY <1>4, SaveStepsRefine, RotateUpdateRefines, RotateReadRefines, FamilyQueryRefines,
     RevokeStepsRefine, DeleteStepsRefine, WriteRowRefines, AbortRefines, ZenonT(30) DEF Step
<1> QED
  BY <1>1, <1>2, <1>3, <1>4, Zenon DEF Next

\* Every call of the token store on PostgreSQL takes effect in one step, or not at
\* all: the statements and row locks of postgres.go implement the atomic store that
\* the sessions are built on, for every number of connections, users and tokens.
THEOREM CallsAreAtomic == Spec => ImplementsAtomic
<1>1. Init => Atomic!Init
  <2> SUFFICES ASSUME Init
               PROVE  Atomic!Init
    BY Zenon
  <2>1. call = [p \in Proc |-> Atomic!NoCall]
    BY AbstractNoCall, Zenon DEF Init, call
  <2> QED
    BY <2>1, Zenon DEF Init, Atomic!Init, call
<1>2. PInv /\ [Next]_vars => [Atomic!Next]_(Atomic!vars)
  BY NextRefines, Zenon
<1> QED
  BY <1>1, <1>2, PgInvariance, PTL DEF Spec, ImplementsAtomic, Atomic!Spec
=============================================================================
