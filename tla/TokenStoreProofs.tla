-------------------------- MODULE TokenStoreProofs --------------------------
(***************************************************************************)
(* Every operation on the token table keeps families whole and ends them   *)
(* as one.  These are facts about tables, used wherever a specification    *)
(* applies the operations.                                                 *)
(***************************************************************************)
EXTENDS TokenStore, TLAPS

LEMMA StoredType ==
  ASSUME NEW tbl \in Table, NEW h \in Hash, Stored(tbl, h)
  PROVE  tbl[h] \in Token
BY Zenon DEF Table, Stored

-----------------------------------------------------------------------------
(* RotateRefreshToken *)

\* A rotation changes two fields of the one token.
Rotation(tbl, h, now, new) ==
  /\ new \in Table
  /\ \A g \in Hash : g # h => new[g] = tbl[g]
  /\ new[h].revoked = TRUE
  /\ new[h].rotatedAt = now
  /\ \A g \in Hash : /\ Stored(new, g) <=> Stored(tbl, g)
                     /\ new[g].user = tbl[g].user
                     /\ new[g].parent = tbl[g].parent
                     /\ new[g].expiresAt = tbl[g].expiresAt
                     /\ new[g].ended = tbl[g].ended

LEMMA RotateEffect ==
  ASSUME NEW tbl \in Table, NEW h \in Hash, NEW now \in Int, Stored(tbl, h)
  PROVE  Rotation(tbl, h, now, RotateRefreshToken(tbl, h, now))
<1> DEFINE new == RotateRefreshToken(tbl, h, now)
<1>1. tbl[h] \in Token
  BY StoredType, Zenon
<1>2. new[h] = [tbl[h] EXCEPT !.revoked = TRUE, !.rotatedAt = now]
  BY Zenon DEF RotateRefreshToken, Table
<1>3. new[h] \in Token
  BY <1>1, <1>2, Zenon DEF Token
<1>4. \A g \in Hash : g # h => new[g] = tbl[g]
  BY Zenon DEF RotateRefreshToken, Table
<1>5. \A g \in Hash : Stored(new, g) <=> Stored(tbl, g)
  BY <1>3, <1>4, StoreAssumption, Zenon DEF Stored
<1>6. /\ new[h].user = tbl[h].user
      /\ new[h].parent = tbl[h].parent
      /\ new[h].expiresAt = tbl[h].expiresAt
      /\ new[h].ended = tbl[h].ended
      /\ new[h].revoked = TRUE
      /\ new[h].rotatedAt = now
  BY <1>1, <1>2, Zenon DEF Token
<1>7. new \in Table
  BY <1>1, <1>3, Zenon DEF RotateRefreshToken, Table
<1> QED
  BY <1>4, <1>5, <1>6, <1>7, Zenon DEF Rotation

LEMMA RotateKeeps ==
  ASSUME NEW tbl \in Table, NEW users, NEW h \in Hash, NEW now \in Int,
         NEW new, Rotation(tbl, h, now, new),
         WholeFamilies(tbl, users), EndsAsOne(tbl)
  PROVE  WholeFamilies(new, users) /\ EndsAsOne(new)
<1>1. \A g \in Hash : /\ Stored(new, g) <=> Stored(tbl, g)
                      /\ new[g].user = tbl[g].user
                      /\ new[g].parent = tbl[g].parent
                      /\ new[g].ended = tbl[g].ended
  BY Zenon DEF Rotation
<1>5. \A g \in Hash : tbl[g].revoked => new[g].revoked
  BY Zenon DEF Rotation
<1>2. \A g \in Hash : Stored(tbl, g) => tbl[g].parent \in Hash \cup {NoHash}
  BY StoredType, Zenon DEF Token
<1>3. WholeFamilies(new, users)
  BY <1>1, <1>2 DEF WholeFamilies
<1>4. EndsAsOne(new)
  BY <1>1, <1>5, <1>2 DEF EndsAsOne
<1> QED
  BY <1>3, <1>4, Zenon

-----------------------------------------------------------------------------
(* SaveRefreshToken, of a token whose hash is in neither column of the table *)

\* A save adds one unrevoked, unrotated token that has not ended.
Addition(tbl, h, u, parent, expiresAt, new) ==
  /\ new \in Table
  /\ \A g \in Hash : g # h => new[g] = tbl[g]
  /\ \A g \in Hash : g # h => (Stored(new, g) <=> Stored(tbl, g))
  /\ Stored(new, h)
  /\ new[h] = [user |-> u, parent |-> parent, expiresAt |-> expiresAt,
               revoked |-> FALSE, rotatedAt |-> NoTime, ended |-> FALSE]

LEMMA SaveEffect ==
  ASSUME NEW tbl \in Table, NEW h \in Hash, NEW u \in User,
         NEW parent \in Hash \cup {NoHash}, NEW expiresAt \in Int
  PROVE  Addition(tbl, h, u, parent, expiresAt,
                  SaveRefreshToken(tbl, h, u, parent, expiresAt))
<1> DEFINE new == SaveRefreshToken(tbl, h, u, parent, expiresAt)
<1> DEFINE t == [user |-> u, parent |-> parent, expiresAt |-> expiresAt,
                 revoked |-> FALSE, rotatedAt |-> NoTime, ended |-> FALSE]
<1>1. t \in Token
  BY Zenon DEF Token
<1>2. new[h] = t /\ \A g \in Hash : g # h => new[g] = tbl[g]
  BY Zenon DEF SaveRefreshToken, Table
<1>3. new \in Table
  BY <1>1, Zenon DEF SaveRefreshToken, Table
<1>4. Stored(new, h) /\ \A g \in Hash : g # h => (Stored(new, g) <=> Stored(tbl, g))
  BY <1>1, <1>2, StoreAssumption, Zenon DEF Stored
<1> QED
  BY <1>2, <1>3, <1>4, Zenon DEF Addition

LEMMA SaveKeeps ==
  ASSUME NEW tbl \in Table, NEW users, NEW h \in Hash, NEW u \in User,
         NEW parent \in Hash \cup {NoHash}, NEW expiresAt \in Int,
         NEW new, Addition(tbl, h, u, parent, expiresAt, new),
         WholeFamilies(tbl, users), EndsAsOne(tbl),
         ~Stored(tbl, h), u \in users, MayJoin(tbl, parent),
         parent # NoHash => tbl[parent].parent = NoHash /\ tbl[parent].user = u
  PROVE  WholeFamilies(new, users) /\ EndsAsOne(new)
<1>1. /\ \A g \in Hash : g # h => new[g] = tbl[g]
      /\ Stored(new, h)
      /\ new[h].user = u
      /\ new[h].parent = parent
      /\ new[h].revoked = FALSE
      /\ new[h].ended = FALSE
  BY DEF Addition
<1>2. \A g \in Hash : g # h => (Stored(new, g) <=> Stored(tbl, g))
  BY Zenon DEF Addition
<1>3. \A g \in Hash : Stored(tbl, g) => g # h /\ tbl[g].parent \in (Hash \ {h}) \cup {NoHash}
  BY StoredType, Zenon DEF Token, WholeFamilies
<1>4. parent # NoHash => parent \in Hash \ {h} /\ Stored(tbl, parent) /\ ~tbl[parent].ended
  BY Zenon DEF MayJoin
<1>5. WholeFamilies(new, users)
  <2>1. SUFFICES ASSUME NEW g \in Hash, Stored(new, g)
                 PROVE  /\ new[g].user \in users
                        /\ new[g].parent # NoHash =>
                             /\ Stored(new, new[g].parent)
                             /\ new[new[g].parent].parent = NoHash
                             /\ new[new[g].parent].user = new[g].user
    BY Zenon DEF WholeFamilies
  <2>2. CASE g = h
    BY <1>1, <1>2, <1>4, <2>2, Zenon
  <2>3. CASE g # h
    BY <1>1, <1>2, <1>3, <2>1, <2>3 DEF WholeFamilies
  <2> QED
    BY <2>2, <2>3, Zenon
<1>6. EndsAsOne(new)
  <2>1. SUFFICES ASSUME NEW g \in Hash, Stored(new, g)
                 PROVE  /\ new[g].ended => new[g].revoked
                        /\ new[g].parent # NoHash => new[g].ended = new[new[g].parent].ended
    BY Zenon DEF EndsAsOne
  <2>2. CASE g = h
    <3>1. parent # NoHash => new[parent] = tbl[parent] /\ tbl[parent].ended = FALSE
      BY <1>1, <1>4, StoredType, Zenon DEF Token
    <3> QED BY <1>1, <2>2, <3>1, Zenon
  <2>3. CASE g # h
    BY <1>1, <1>2, <1>3, <2>1, <2>3 DEF EndsAsOne
  <2> QED
    BY <2>2, <2>3, Zenon
<1> QED
  BY <1>5, <1>6, Zenon

-----------------------------------------------------------------------------
(* RevokeTokens *)

\* A revocation marks the members of the family and nothing else.
Revocation(tbl, f, new) ==
  /\ new \in Table
  /\ \A g \in Hash : ~Member(tbl, f, g) => new[g] = tbl[g]
  /\ \A g \in Hash : Member(tbl, f, g) => new[g].revoked = TRUE /\ new[g].ended = TRUE
  /\ \A g \in Hash : /\ Stored(new, g) <=> Stored(tbl, g)
                     /\ new[g].user = tbl[g].user
                     /\ new[g].parent = tbl[g].parent
                     /\ new[g].expiresAt = tbl[g].expiresAt
                     /\ new[g].rotatedAt = tbl[g].rotatedAt

LEMMA RevokeEffect ==
  ASSUME NEW tbl \in Table, NEW f
  PROVE  Revocation(tbl, f, RevokeTokens(tbl, f))
<1> DEFINE new == RevokeTokens(tbl, f)
<1>1. \A g \in Hash : ~Member(tbl, f, g) => new[g] = tbl[g]
  BY Zenon DEF RevokeTokens
<1>2. ASSUME NEW g \in Hash, Member(tbl, f, g)
      PROVE  /\ new[g] \in Token
             /\ new[g].revoked = TRUE /\ new[g].ended = TRUE
             /\ new[g].rotatedAt = tbl[g].rotatedAt
             /\ new[g].user = tbl[g].user
             /\ new[g].parent = tbl[g].parent
             /\ new[g].expiresAt = tbl[g].expiresAt
  <2>1. tbl[g] \in Token
    BY <1>2, StoredType, Zenon DEF Member
  <2>2. new[g] = [tbl[g] EXCEPT !.revoked = TRUE, !.ended = TRUE]
    BY <1>2, Zenon DEF RevokeTokens
  <2> QED
    BY <2>1, <2>2, Zenon DEF Token
<1>3. \A g \in Hash : Stored(new, g) <=> Stored(tbl, g)
  BY <1>1, <1>2, StoreAssumption, Zenon DEF Stored, Member
<1>4. new \in Table
  <2>1. \A g \in Hash : new[g] \in Token \cup {NoToken}
    BY <1>1, <1>2, Zenon DEF Table
  <2> QED
    BY <2>1, Zenon DEF Table, RevokeTokens
<1> QED
  BY <1>1, <1>2, <1>3, <1>4, Zenon DEF Revocation

LEMMA RevokeKeeps ==
  ASSUME NEW tbl \in Table, NEW users, NEW f \in Hash, IsRoot(tbl, f),
         NEW new, Revocation(tbl, f, new),
         WholeFamilies(tbl, users), EndsAsOne(tbl)
  PROVE  WholeFamilies(new, users) /\ EndsAsOne(new)
<1>1. \A g \in Hash : /\ Stored(new, g) <=> Stored(tbl, g)
                      /\ new[g].user = tbl[g].user
                      /\ new[g].parent = tbl[g].parent
  BY Zenon DEF Revocation
<1>2. \A g \in Hash : Stored(tbl, g) => tbl[g].parent \in Hash \cup {NoHash}
  BY StoredType, Zenon DEF Token
<1>3. WholeFamilies(new, users)
  BY <1>1, <1>2 DEF WholeFamilies
<1>4. EndsAsOne(new)
  <2>1. SUFFICES ASSUME NEW g \in Hash, Stored(new, g)
                 PROVE  /\ new[g].ended => new[g].revoked
                        /\ new[g].parent # NoHash => new[g].ended = new[new[g].parent].ended
    BY Zenon DEF EndsAsOne
  <2>2. tbl[g].parent # NoHash =>
          /\ tbl[g].parent \in Hash
          /\ Member(tbl, f, g) <=> Member(tbl, f, tbl[g].parent)
    BY <1>1, <1>2, <2>1, StoreAssumption, Zenon DEF Member, WholeFamilies, IsRoot
  <2>3. /\ \A p \in Hash : ~Member(tbl, f, p) => new[p] = tbl[p]
        /\ \A p \in Hash : Member(tbl, f, p) =>
             new[p].revoked = TRUE /\ new[p].ended = TRUE
    BY Zenon DEF Revocation
  <2>4. CASE Member(tbl, f, g)
    BY <1>1, <2>2, <2>3, <2>4, Zenon
  <2>5. CASE ~Member(tbl, f, g)
    <3>1. new[g] = tbl[g] /\ Stored(tbl, g)
      BY <1>1, <2>1, <2>3, <2>5, Zenon
    <3> QED
      BY <2>2, <2>3, <2>5, <3>1 DEF EndsAsOne
  <2> QED
    BY <2>4, <2>5, Zenon
<1> QED
  BY <1>3, <1>4, Zenon

-----------------------------------------------------------------------------
(* The deletion of a user *)

\* A deletion removes the user's tokens and leaves the others as they are.
Deletion(tbl, u, new) ==
  /\ new \in Table
  /\ \A g \in Hash : Stored(new, g) <=> Stored(tbl, g) /\ tbl[g].user # u
  /\ \A g \in Hash : Stored(new, g) => new[g] = tbl[g]

LEMMA DeleteEffect ==
  ASSUME NEW tbl \in Table, NEW u
  PROVE  Deletion(tbl, u, DeleteTokensOf(tbl, u))
BY Zenon DEF Deletion, DeleteTokensOf, Stored, Table

LEMMA DeleteKeeps ==
  ASSUME NEW tbl \in Table, NEW users, NEW u, NEW new, Deletion(tbl, u, new),
         WholeFamilies(tbl, users), EndsAsOne(tbl)
  PROVE  WholeFamilies(new, users \ {u}) /\ EndsAsOne(new)
<1>1. /\ \A g \in Hash : Stored(new, g) <=> Stored(tbl, g) /\ tbl[g].user # u
      /\ \A g \in Hash : Stored(new, g) => new[g] = tbl[g]
  BY Zenon DEF Deletion
<1>2. \A g \in Hash : Stored(tbl, g) => tbl[g].parent \in Hash \cup {NoHash}
  BY StoredType, Zenon DEF Token
<1>3. WholeFamilies(new, users \ {u})
  BY <1>1, <1>2 DEF WholeFamilies
<1>4. EndsAsOne(new)
  BY <1>1, <1>2 DEF EndsAsOne, WholeFamilies
<1> QED
  BY <1>3, <1>4, Zenon
=============================================================================
