---------------------------- MODULE ParityProofs ----------------------------
(***************************************************************************)
(* The in-memory store and the PostgreSQL store answer the same calls      *)
(* alike, but for two exceptions, and hold the same, for any number of     *)
(* users, tokens, links and challenges.                                    *)
(*                                                                         *)
(* The invariant says, map by map, that the entries of the map are the     *)
(* rows of the table (Mirror).  Each call is then answered alike by stores *)
(* that hold the same, and leaves them so (Alike); the exceptions at least *)
(* leave them so.                                                          *)
(***************************************************************************)
EXTENDS StoreParity, Sequences, FiniteSets, TLAPS

-----------------------------------------------------------------------------
(* Finite sets *)

LEMMA FiniteEmpty == IsFiniteSet({})
<1>1. << >> \in Seq({})
  OBVIOUS
<1> QED
  BY <1>1, Zenon DEF IsFiniteSet

LEMMA FiniteSubset ==
  ASSUME NEW S, IsFiniteSet(S), NEW T, T \subseteq S
  PROVE  IsFiniteSet(T)
<1>1. PICK q \in Seq(S) : \A s \in S : \E n \in 1..Len(q) : q[n] = s
  BY Zenon DEF IsFiniteSet
<1>2. CASE T = {}
  BY <1>2, FiniteEmpty, Zenon
<1>3. ASSUME NEW x \in T PROVE IsFiniteSet(T)
  <2>1. PICK r : r = [n \in 1..Len(q) |-> IF q[n] \in T THEN q[n] ELSE x]
    BY Zenon
  <2>2. r \in Seq(T) /\ Len(r) = Len(q)
    BY <1>1, <2>1
  <2>3. \A s \in T : \E n \in 1..Len(r) : r[n] = s
    BY <1>1, <2>1, <2>2, Zenon
  <2> QED
    BY <2>2, <2>3, Zenon DEF IsFiniteSet
<1> QED
  BY <1>2, <1>3, Zenon

LEMMA FiniteAdd ==
  ASSUME NEW S, IsFiniteSet(S), NEW x
  PROVE  IsFiniteSet(S \cup {x})
<1>1. PICK q \in Seq(S) : \A s \in S : \E n \in 1..Len(q) : q[n] = s
  BY Zenon DEF IsFiniteSet
<1>2. PICK r : r = Append(q, x)
  BY Zenon
<1>3. r \in Seq(S \cup {x})
  BY <1>1, <1>2
<1>4. \A s \in S \cup {x} : \E n \in 1..Len(r) : r[n] = s
  BY <1>1, <1>2, SMTT(60)
<1> QED
  BY <1>3, <1>4, Zenon DEF IsFiniteSet

-----------------------------------------------------------------------------
(* Maps and tables *)

\* Table t, with the unique column key, has just the rows g[k] of the keys in D.
Mirror(D, g, t, key) == /\ \A k \in D : g[k] \in t /\ g[k][key] = k
                        /\ \A r \in t : r[key] \in D /\ g[r[key]] = r

LEMMA MirrorHas ==
  ASSUME NEW D, NEW g, NEW t, NEW key, Mirror(D, g, t, key), NEW k
  PROVE  Pg!Has(t, key, k) <=> k \in D
BY Zenon DEF Mirror, Pg!Has

LEMMA MirrorRow ==
  ASSUME NEW D, NEW g, NEW t, NEW key, Mirror(D, g, t, key), NEW k \in D
  PROVE  Pg!QueryRow(t, key, k) = g[k]
<1>1. \E r \in t : r[key] = k
  BY Zenon DEF Mirror
<1>2. PICK q : q = Pg!QueryRow(t, key, k)
  BY Zenon
<1>3. q \in t /\ q[key] = k
  BY <1>1, <1>2, Zenon DEF Pg!QueryRow
<1> QED
  BY <1>2, <1>3, Zenon DEF Mirror

LEMMA MirrorAdd ==
  ASSUME NEW D, NEW g, NEW t, NEW key, Mirror(D, g, t, key), NEW k, k \notin D,
         NEW E, E = D \cup {k}, NEW h, \A j \in D : h[j] = g[j], h[k][key] = k,
         NEW w, w = t \cup {h[k]}
  PROVE  Mirror(E, h, w, key)
BY Zenon DEF Mirror

LEMMA MirrorDrop ==
  ASSUME NEW D, NEW g, NEW t, NEW key, Mirror(D, g, t, key),
         NEW E, E \subseteq D, NEW h, \A j \in E : h[j] = g[j],
         NEW w, w \subseteq t, \A k \in D : k \in E <=> g[k] \in w
  PROVE  Mirror(E, h, w, key)
BY Zenon DEF Mirror

LEMMA MirrorImage ==
  ASSUME NEW D, NEW g, NEW t, NEW key, Mirror(D, g, t, key)
  PROVE  t = {g[k] : k \in D}
<1>1. \A r : r \in t <=> \E k \in D : r = g[k]
  BY Zenon DEF Mirror
<1> QED
  BY <1>1, Zenon

\* The lists of what a user owns, newest first.
LEMMA ListsAlike ==
  ASSUME NEW rows, NEW keys, NEW g, NEW f, NEW key,
         \A k \in keys : g[k] \in rows /\ g[k].created = f[k].created /\ g[k][key] = k,
         \A r \in rows : r[key] \in keys /\ r.created = f[r[key]].created
  PROVE  [c \in {r.created : r \in rows} |-> {r[key] : r \in {x \in rows : x.created = c}}]
           = [c \in {f[k].created : k \in keys} |-> {k \in keys : f[k].created = c}]
<1> DEFINE times == {r.created : r \in rows}
           row(c) == {r[key] : r \in {x \in rows : x.created = c}}
           col(c) == {k \in keys : f[k].created = c}
<1>1. times = {f[k].created : k \in keys}
  <2>1. \A c : c \in times <=> \E r \in rows : c = r.created
    BY Zenon
  <2> HIDE DEF times
  <2>2. \A c : c \in times <=> \E k \in keys : c = f[k].created
    <3>1. ASSUME NEW c \in times PROVE \E k \in keys : c = f[k].created
      <4>1. PICK r \in rows : c = r.created
        BY <2>1, <3>1, Zenon
      <4>2. r[key] \in keys /\ r.created = f[r[key]].created
        BY <4>1, Zenon
      <4> QED
        BY <4>1, <4>2, Zenon
    <3>2. ASSUME NEW k \in keys PROVE f[k].created \in times
      <4>1. g[k] \in rows /\ g[k].created = f[k].created
        BY <3>2, Zenon
      <4> QED
        BY <2>1, <4>1, Zenon
    <3> QED
      BY <3>1, <3>2, Zenon
  <2> QED
    BY <2>2, Zenon
<1>2. ASSUME NEW c PROVE row(c) = col(c)
  <2>1. \A k : k \in row(c) <=> \E r \in rows : r.created = c /\ k = r[key]
    BY Zenon
  <2> HIDE DEF row
  <2>2. ASSUME NEW k \in row(c) PROVE k \in keys /\ f[k].created = c
    <3>1. PICK r \in rows : r.created = c /\ k = r[key]
      BY <2>1, <2>2, Zenon
    <3>2. r[key] \in keys /\ r.created = f[r[key]].created
      BY <3>1, Zenon
    <3> QED
      BY <3>1, <3>2, Zenon
  <2>3. ASSUME NEW k \in keys, f[k].created = c PROVE k \in row(c)
    <3>1. g[k] \in rows /\ g[k].created = c /\ k = g[k][key]
      BY <2>3, Zenon
    <3> QED
      BY <2>1, <3>1, Zenon
  <2> QED
    BY <2>2, <2>3, Zenon
<1> HIDE DEF row, col, times
<1>3. [c \in times |-> row(c)] = [c \in {f[k].created : k \in keys} |-> col(c)]
  BY <1>1, <1>2, Zenon
<1> QED
  BY <1>3, Zenon DEF row, col, times

LEMMA MirrorList ==
  ASSUME NEW D, NEW g, NEW t, NEW key, Mirror(D, g, t, key), NEW u, NEW f,
         \A k \in D : g[k].user = f[k].user /\ g[k].created = f[k].created,
         NEW keys, keys = {k \in D : f[k].user = u}, NEW s, NEW m
  PROVE  Pg!QueryOwned(s, t, u, key).val = Mem!Found(m, Mem!NewestFirst(keys, f)).val
<1>1. PICK rows : rows = {r \in t : r.user = u}
  BY Zenon
<1>2. \A k \in keys : g[k] \in rows /\ g[k].created = f[k].created /\ g[k][key] = k
  BY <1>1, Zenon DEF Mirror
<1>3. \A r \in rows : r[key] \in keys /\ r.created = f[r[key]].created
  BY <1>1, Zenon DEF Mirror
<1>4. [c \in {r.created : r \in rows} |-> {r[key] : r \in {x \in rows : x.created = c}}]
        = [c \in {f[k].created : k \in keys} |-> {k \in keys : f[k].created = c}]
  BY <1>2, <1>3, ListsAlike
<1>5. Pg!QueryOwned(s, t, u, key).val
        = [c \in {r.created : r \in rows} |-> {r[key] : r \in {x \in rows : x.created = c}}]
  BY <1>1, Zenon DEF Pg!QueryOwned, Pg!Found
<1>6. Mem!Found(m, Mem!NewestFirst(keys, f)).val
        = [c \in {f[k].created : k \in keys} |-> {k \in keys : f[k].created = c}]
  BY Zenon DEF Mem!Found, Mem!NewestFirst
<1> QED
  BY <1>4, <1>5, <1>6, Zenon

-----------------------------------------------------------------------------
(* The two stores hold the same *)

UserRows(us) == [u \in User |-> [id |-> u, email |-> us[u]]]
CredRows(pw) == [u \in User |-> [user |-> u, hash |-> pw[u]]]
OAuthRows(f) == [a \in Account |-> [account |-> a, user |-> f[a].user, created |-> f[a].created]]
WalletRows(f) == [w \in Wallet |-> [wallet |-> w, user |-> f[w].user, created |-> f[w].created]]

\* The users, with the index of their addresses that the maps keep.
SameUsers(us, ix, t) ==
  /\ us \in [User -> Email \cup {NoEmail, Nil}]
  /\ ix \in [Email -> User \cup {Nil}]
  /\ \A u \in User, e \in Email : ix[e] = u <=> us[u] = e
  /\ Mirror(Entries(us), UserRows(us), t, "id")

SameCreds(pw, t) == /\ pw \in [User -> Secret \cup {Nil}]
                    /\ Mirror(Entries(pw), CredRows(pw), t, "user")

SamePATs(f, t) == /\ f \in [Pat -> PATRow \cup {Nil}]
                  /\ IsFiniteSet(Entries(f))
                  /\ Mirror(Entries(f), f, t, "pat")

SameOAuth(f, t) == /\ f \in [Account -> Link \cup {Nil}]
                   /\ Mirror(Entries(f), OAuthRows(f), t, "account")

SameWallets(f, t) == /\ f \in [Wallet -> Link \cup {Nil}]
                     /\ Mirror(Entries(f), WalletRows(f), t, "wallet")

\* The challenges: each nonce once, those of the map are in the table, and what
\* can still be used is in both.
SameChallenges(f, t, now) ==
  /\ f \in [Nonce -> ChallengeRow \cup {Nil}]
  /\ \A n \in Entries(f) : f[n].nonce = n /\ f[n] \in t
  /\ \A r \in t : r \in ChallengeRow
  /\ \A r, s \in t : r.nonce = s.nonce => r = s
  /\ \A r \in ChallengeRow : ~Expired(r, now) => (r \in t <=> f[r.nonce] = r)

\* The maps m and the tables p hold the same at the time now, under values of dr.
Twins(m, p, now, dr) ==
  /\ DOMAIN m = {"users", "usersByEmail", "passwords", "pats", "oauth", "wallets", "challenges"}
  /\ DOMAIN p = {"users", "credentials", "pats", "oauth", "wallets", "challenges"}
  /\ SameUsers(m.users, m.usersByEmail, p.users)
  /\ SameCreds(m.passwords, p.credentials)
  /\ SamePATs(m.pats, p.pats)
  /\ SameOAuth(m.oauth, p.oauth)
  /\ SameWallets(m.wallets, p.wallets)
  /\ SameChallenges(m.challenges, p.challenges, now)
  /\ Entries(m.users) \cup Entries(m.pats) \cup Entries(m.challenges) \subseteq dr
  /\ \A r \in p.challenges : r.nonce \in dr

PInv == clock \in Int /\ Twins(mem, pg, clock, drawn)

\* The answers a of the maps and b of the tables, and the stores they leave.
Alike(a, b, now, dr) == /\ Twins(a.store, b.store, now, dr)
                        /\ Read(a.err) = Read(b.err)
                        /\ a.val = b.val

-----------------------------------------------------------------------------
(* Users *)

LEMMA UserEntries ==
  ASSUME NEW us, NEW ix, NEW t, SameUsers(us, ix, t)
  PROVE  /\ DOMAIN us = User /\ DOMAIN ix = Email
         /\ \A u : u \in Entries(us) <=> u \in User /\ us[u] # Nil
         /\ \A u \in User : UserRows(us)[u].id = u /\ UserRows(us)[u].email = us[u]
BY DEF SameUsers, Entries, UserRows

LEMMA UserHas ==
  ASSUME NEW us, NEW ix, NEW t, SameUsers(us, ix, t), NEW u \in User
  PROVE  /\ Pg!Has(t, "id", u) <=> us[u] # Nil
         /\ us[u] # Nil => Pg!QueryRow(t, "id", u).email = us[u]
<1>1. PICK key, D, g : key = "id" /\ D = Entries(us) /\ g = UserRows(us)
  BY Zenon
<1>2. Mirror(D, g, t, key)
  BY <1>1, Zenon DEF SameUsers
<1>3. /\ u \in D <=> us[u] # Nil
      /\ g[u].email = us[u]
  BY <1>1, UserEntries, Zenon
<1>4. Pg!Has(t, key, u) <=> u \in D
  BY <1>2, MirrorHas, Zenon
<1>5. u \in D => Pg!QueryRow(t, key, u) = g[u]
  BY <1>2, MirrorRow
<1> QED
  BY <1>1, <1>3, <1>4, <1>5, Zenon

LEMMA EmailHas ==
  ASSUME NEW us, NEW ix, NEW t, SameUsers(us, ix, t), NEW e \in Email
  PROVE  /\ Pg!Has(t, "email", e) <=> ix[e] # Nil
         /\ ix[e] # Nil => Pg!QueryRow(t, "email", e).id = ix[e]
<1>1. /\ \A u \in User : ix[e] = u <=> us[u] = e
      /\ ix[e] \in User \cup {Nil} /\ Nil \notin User /\ e # Nil
      /\ \A u : u \in Entries(us) <=> u \in User /\ us[u] # Nil
  BY UserEntries, StoresAssumption DEF SameUsers
<1>2. /\ \A k \in Entries(us) : \E r \in t : r.id = k /\ r.email = us[k]
      /\ \A r \in t : r.id \in Entries(us) /\ r.email = us[r.id]
  <2>1. /\ \A k \in Entries(us) : UserRows(us)[k] \in t
        /\ \A r \in t : r.id \in Entries(us) /\ UserRows(us)[r.id] = r
    BY Zenon DEF SameUsers, Mirror
  <2> QED
    BY <1>1, <2>1, UserEntries
<1>3. (\E r \in t : r.email = e) <=> ix[e] # Nil
  BY <1>1, <1>2
<1>4. \A r \in t : r.email = e => r.id = ix[e]
  BY <1>1, <1>2, Zenon
<1>5. Pg!Has(t, "email", e) <=> ix[e] # Nil
  BY <1>3, Zenon DEF Pg!Has
<1>6. PICK q : q = Pg!QueryRow(t, "email", e)
  BY Zenon
<1>7. ix[e] # Nil => q \in t /\ q.email = e
  BY <1>3, <1>6, Zenon DEF Pg!QueryRow
<1> QED
  BY <1>4, <1>5, <1>6, <1>7, Zenon

\* The index with v under the address e, and the rows but that of u.
Indexed(ix, e, v) == [x \in Email |-> IF x = e THEN v ELSE ix[x]]
ButUser(t, u) == {r \in t : r.id # u}

\* The address e is not taken; the empty one never is.
Free(ix, e) == e = NoEmail \/ ix[e] = Nil

LEMMA UserAdd ==
  ASSUME NEW us, NEW ix, NEW t, SameUsers(us, ix, t), NEW u \in User, us[u] = Nil,
         NEW e \in Email \cup {NoEmail}, Free(ix, e),
         NEW us2, us2 = [us EXCEPT ![u] = e],
         NEW ix2, ix2 = Indexed(ix, e, u),
         NEW t2, t2 = t \cup {[id |-> u, email |-> e]}
  PROVE  SameUsers(us2, ix2, t2)
<1>1. /\ us \in [User -> Email \cup {NoEmail, Nil}] /\ ix \in [Email -> User \cup {Nil}]
      /\ \A v \in User, x \in Email : ix[x] = v <=> us[v] = x
      /\ NoEmail \notin Email /\ e # Nil /\ Nil \notin User /\ Nil \notin Email
      /\ e = NoEmail \/ ix[e] = Nil
  BY StoresAssumption, Zenon DEF SameUsers, Free
<1>2. us2 \in [User -> Email \cup {NoEmail, Nil}] /\ ix2 \in [Email -> User \cup {Nil}]
  BY <1>1 DEF Indexed
<1>3. us2[u] = e /\ \A v \in User \ {u} : us2[v] = us[v]
  BY <1>1
<1>4. \A v \in User, x \in Email : ix2[x] = v <=> us2[v] = x
  <2>1. \A x \in Email : ix2[x] = IF x = e THEN u ELSE ix[x]
    BY Zenon DEF Indexed
  <2> QED
    BY <1>1, <1>3, <2>1
<1>5. PICK key, D, g, h, E :
        key = "id" /\ D = Entries(us) /\ g = UserRows(us) /\ h = UserRows(us2) /\ E = Entries(us2)
  BY Zenon
<1>6. u \notin D /\ E = D \cup {u}
  BY <1>1, <1>2, <1>3, <1>5 DEF Entries
<1>7. /\ \A j \in D : h[j] = g[j]
      /\ h[u] = [id |-> u, email |-> e] /\ h[u][key] = u
  BY <1>1, <1>3, <1>5 DEF Entries, UserRows
<1>8. Mirror(D, g, t, key) /\ t2 = t \cup {h[u]}
  BY <1>5, <1>7, Zenon DEF SameUsers
<1>9. Mirror(E, h, t2, key)
  BY <1>6, <1>7, <1>8, MirrorAdd
<1> QED
  BY <1>2, <1>4, <1>5, <1>6, <1>9, Zenon DEF SameUsers

LEMMA UserDrop ==
  ASSUME NEW us, NEW ix, NEW t, SameUsers(us, ix, t), NEW u \in User, us[u] # Nil,
         NEW us2, us2 = [us EXCEPT ![u] = Nil],
         NEW ix2, ix2 = Indexed(ix, us[u], Nil),
         NEW t2, t2 = ButUser(t, u)
  PROVE  SameUsers(us2, ix2, t2)
<1>1. /\ us \in [User -> Email \cup {NoEmail, Nil}] /\ ix \in [Email -> User \cup {Nil}]
      /\ \A v \in User, x \in Email : ix[x] = v <=> us[v] = x
      /\ Nil \notin User /\ Nil \notin Email
  BY StoresAssumption, Zenon DEF SameUsers
<1>2. us2 \in [User -> Email \cup {NoEmail, Nil}] /\ ix2 \in [Email -> User \cup {Nil}]
  BY <1>1 DEF Indexed
<1>3. us2[u] = Nil /\ \A v \in User \ {u} : us2[v] = us[v]
  BY <1>1
<1>4. \A v \in User, x \in Email : ix2[x] = v <=> us2[v] = x
  <2>1. \A x \in Email : ix2[x] = IF x = us[u] THEN Nil ELSE ix[x]
    BY Zenon DEF Indexed
  <2> QED
    BY <1>1, <1>3, <2>1
<1>5. PICK key, D, g, h, E :
        key = "id" /\ D = Entries(us) /\ g = UserRows(us) /\ h = UserRows(us2) /\ E = Entries(us2)
  BY Zenon
<1>6. E = D \ {u}
  BY <1>1, <1>2, <1>3, <1>5 DEF Entries
<1>7. /\ \A j \in E : h[j] = g[j]
      /\ \A j \in D : g[j].id = j
  BY <1>1, <1>3, <1>5, <1>6 DEF Entries, UserRows
<1>8. Mirror(D, g, t, key)
  BY <1>5, Zenon DEF SameUsers
<1>9. t2 \subseteq t /\ \A k \in D : k \in E <=> g[k] \in t2
  BY <1>6, <1>7, <1>8, Zenon DEF Mirror, ButUser
<1>10. Mirror(E, h, t2, key)
  BY <1>6, <1>7, <1>8, <1>9, MirrorDrop, Zenon
<1> QED
  BY <1>2, <1>4, <1>5, <1>6, <1>10, ZenonT(60) DEF SameUsers

-----------------------------------------------------------------------------
(* What users own *)

\* The cascade of a deletion.
LEMMA OwnedDrop ==
  ASSUME NEW f, NEW g, NEW t, NEW key, Mirror(Entries(f), g, t, key),
         \A k \in Entries(f) : g[k].user = f[k].user,
         NEW u, NEW f2, f2 = Mem!DeleteOwned(f, u), NEW h, \A k \in Entries(f2) : h[k] = g[k],
         NEW t2, t2 = Pg!Cascade(t, u)
  PROVE  Mirror(Entries(f2), h, t2, key)
<1>1. PICK D, E : D = Entries(f) /\ E = Entries(f2)
  BY Zenon
<1>2. \A k : k \in E <=> k \in D /\ f[k].user # u
  BY <1>1 DEF Entries, Mem!DeleteOwned
<1>3. \A r : r \in t2 <=> r \in t /\ r.user # u
  BY Zenon DEF Pg!Cascade
<1>4. E \subseteq D /\ t2 \subseteq t
  BY <1>2, <1>3, Zenon
<1>5. \A k \in D : k \in E <=> g[k] \in t2
  BY <1>1, <1>2, <1>3 DEF Mirror
<1> QED
  BY <1>1, <1>4, <1>5, MirrorDrop, Zenon

\* What a deletion leaves of a map.
LEMMA OwnedLeft ==
  ASSUME NEW f, NEW u, NEW f2, f2 = Mem!DeleteOwned(f, u)
  PROVE  /\ DOMAIN f2 = DOMAIN f /\ Entries(f2) \subseteq Entries(f)
         /\ \A k \in Entries(f2) : f2[k] = f[k]
         /\ \A k \in DOMAIN f : f2[k] \in {f[k], Nil}
         /\ f2 = [k \in DOMAIN f |-> f2[k]]
BY DEF Entries, Mem!DeleteOwned

LEMMA CredHas ==
  ASSUME NEW pw, NEW t, SameCreds(pw, t), NEW u \in User
  PROVE  /\ Pg!Has(t, "user", u) <=> pw[u] # Nil
         /\ pw[u] # Nil => Pg!QueryRow(t, "user", u).hash = pw[u]
<1>1. PICK key, D, g : key = "user" /\ D = Entries(pw) /\ g = CredRows(pw)
  BY Zenon
<1>2. Mirror(D, g, t, key)
  BY <1>1, Zenon DEF SameCreds
<1>3. /\ u \in D <=> pw[u] # Nil
      /\ g[u].hash = pw[u]
  BY <1>1 DEF SameCreds, Entries, CredRows
<1>4. Pg!Has(t, key, u) <=> u \in D
  BY <1>2, MirrorHas, Zenon
<1>5. u \in D => Pg!QueryRow(t, key, u) = g[u]
  BY <1>2, MirrorRow
<1> QED
  BY <1>1, <1>3, <1>4, <1>5, Zenon

LEMMA CredDrop ==
  ASSUME NEW pw, NEW t, SameCreds(pw, t), NEW u \in User,
         NEW pw2, pw2 = [pw EXCEPT ![u] = Nil], NEW t2, t2 = Pg!Cascade(t, u)
  PROVE  SameCreds(pw2, t2)
<1>1. PICK key, D, E, g, h :
        /\ key = "user" /\ D = Entries(pw) /\ E = Entries(pw2)
        /\ g = CredRows(pw) /\ h = CredRows(pw2)
  BY Zenon
<1>2. pw2 \in [User -> Secret \cup {Nil}] /\ Mirror(D, g, t, key)
  BY <1>1 DEF SameCreds
<1>3. /\ E = D \ {u} /\ \A k \in E : h[k] = g[k]
      /\ \A k \in D : g[k].user = k
  BY <1>1, <1>2 DEF SameCreds, Entries, CredRows
<1>4. t2 \subseteq t /\ \A k \in D : k \in E <=> g[k] \in t2
  BY <1>2, <1>3, Zenon DEF Pg!Cascade, Mirror
<1>5. Mirror(E, h, t2, key)
  BY <1>2, <1>3, <1>4, MirrorDrop
<1> QED
  BY <1>1, <1>2, <1>5, Zenon DEF SameCreds

LEMMA CredPut ==
  ASSUME NEW pw, NEW t, SameCreds(pw, t), NEW u \in User, NEW hash \in Secret,
         NEW pw2, pw2 = [pw EXCEPT ![u] = hash],
         NEW t2, t2 = Pg!Cascade(t, u) \cup {[user |-> u, hash |-> hash]}
  PROVE  SameCreds(pw2, t2)
<1>1. PICK pw1, t1 : pw1 = [pw EXCEPT ![u] = Nil] /\ t1 = Pg!Cascade(t, u)
  BY Zenon
<1>2. SameCreds(pw1, t1)
  BY <1>1, CredDrop, Zenon
<1>3. PICK key, D, E, g, h :
        /\ key = "user" /\ D = Entries(pw1) /\ E = Entries(pw2)
        /\ g = CredRows(pw1) /\ h = CredRows(pw2)
  BY Zenon
<1>4. hash # Nil /\ pw \in [User -> Secret \cup {Nil}]
  BY StoresAssumption, Zenon DEF SameCreds
<1>5. pw2 \in [User -> Secret \cup {Nil}] /\ Mirror(D, g, t1, key)
  BY <1>2, <1>3, <1>4 DEF SameCreds
<1>6. /\ u \notin D /\ E = D \cup {u}
      /\ \A k \in D : h[k] = g[k]
  BY <1>1, <1>3, <1>4 DEF Entries, CredRows
<1>7. h[u] = [user |-> u, hash |-> hash] /\ h[u][key] = u
  BY <1>3, <1>4 DEF CredRows
<1>8. t2 = t1 \cup {h[u]}
  BY <1>1, <1>7, Zenon
<1>9. Mirror(E, h, t2, key)
  BY <1>5, <1>6, <1>7, <1>8, MirrorAdd
<1> QED
  BY <1>3, <1>5, <1>9, Zenon DEF SameCreds

-----------------------------------------------------------------------------
(* Links *)

LEMMA OAuthRow ==
  ASSUME NEW f, NEW t, SameOAuth(f, t)
  PROVE  /\ \A a : a \in Entries(f) <=> a \in Account /\ f[a] # Nil
         /\ \A a \in Account : /\ OAuthRows(f)[a].user = f[a].user
                               /\ OAuthRows(f)[a].created = f[a].created
BY DEF SameOAuth, Entries, OAuthRows

LEMMA OAuthHas ==
  ASSUME NEW f, NEW t, SameOAuth(f, t), NEW a \in Account
  PROVE  /\ Pg!Has(t, "account", a) <=> f[a] # Nil
         /\ f[a] # Nil => Pg!QueryRow(t, "account", a).user = f[a].user
<1>1. PICK key, D, g : key = "account" /\ D = Entries(f) /\ g = OAuthRows(f)
  BY Zenon
<1>2. Mirror(D, g, t, key)
  BY <1>1, Zenon DEF SameOAuth
<1>3. /\ a \in D <=> f[a] # Nil
      /\ g[a].user = f[a].user
  BY <1>1, OAuthRow, Zenon
<1>4. Pg!Has(t, key, a) <=> a \in D
  BY <1>2, MirrorHas, Zenon
<1>5. a \in D => Pg!QueryRow(t, key, a) = g[a]
  BY <1>2, MirrorRow
<1> QED
  BY <1>1, <1>3, <1>4, <1>5, Zenon

LEMMA OAuthAdd ==
  ASSUME NEW f, NEW t, SameOAuth(f, t), NEW a \in Account, f[a] = Nil, NEW u \in User,
         NEW now \in Int, NEW f2, f2 = [f EXCEPT ![a] = [user |-> u, created |-> now]],
         NEW t2, t2 = t \cup {[account |-> a, user |-> u, created |-> now]}
  PROVE  SameOAuth(f2, t2)
<1>1. PICK key, D, E, g, h, link :
        /\ key = "account" /\ D = Entries(f) /\ E = Entries(f2)
        /\ g = OAuthRows(f) /\ h = OAuthRows(f2) /\ link = [user |-> u, created |-> now]
  BY Zenon
<1>2. link \in Link /\ link # Nil /\ link.user = u /\ link.created = now
  BY <1>1, NilIsNoEntry DEF Link
<1>3. Mirror(D, g, t, key) /\ f \in [Account -> Link \cup {Nil}] /\ f2 = [f EXCEPT ![a] = link]
  BY <1>1, Zenon DEF SameOAuth
<1>4. f2 \in [Account -> Link \cup {Nil}] /\ f2[a] = link /\ \A b \in Account \ {a} : f2[b] = f[b]
  BY <1>2, <1>3
<1>5. a \notin D /\ E = D \cup {a}
  BY <1>1, <1>2, <1>3, <1>4 DEF Entries
<1>6. /\ \A b \in D : h[b] = g[b]
      /\ h[a] = [account |-> a, user |-> u, created |-> now] /\ h[a][key] = a
  BY <1>1, <1>2, <1>3, <1>4 DEF Entries, OAuthRows
<1>7. t2 = t \cup {h[a]}
  BY <1>6, Zenon
<1>8. Mirror(E, h, t2, key)
  BY <1>3, <1>5, <1>6, <1>7, MirrorAdd
<1> QED
  BY <1>1, <1>4, <1>8, Zenon DEF SameOAuth

LEMMA OAuthDrop ==
  ASSUME NEW f, NEW t, SameOAuth(f, t), NEW u,
         NEW f2, f2 = Mem!DeleteOwned(f, u), NEW t2, t2 = Pg!Cascade(t, u)
  PROVE  SameOAuth(f2, t2)
<1>1. PICK key, g, h : key = "account" /\ g = OAuthRows(f) /\ h = OAuthRows(f2)
  BY Zenon
<1>2. f \in [Account -> Link \cup {Nil}] /\ Mirror(Entries(f), g, t, key)
  BY <1>1, Zenon DEF SameOAuth
<1>3. /\ f2 \in [Account -> Link \cup {Nil}] /\ Entries(f2) \subseteq Entries(f)
      /\ \A k \in Entries(f2) : f2[k] = f[k]
  <2>1. /\ DOMAIN f2 = DOMAIN f /\ Entries(f2) \subseteq Entries(f)
        /\ \A k \in Entries(f2) : f2[k] = f[k]
        /\ \A k \in DOMAIN f : f2[k] \in {f[k], Nil}
        /\ f2 = [k \in DOMAIN f |-> f2[k]]
    BY OwnedLeft
  <2> QED
    BY <1>2, <2>1
<1>4. /\ \A k \in Entries(f) : g[k].user = f[k].user
      /\ \A k \in Entries(f2) : h[k] = g[k]
  BY <1>1, <1>2, <1>3 DEF Entries, OAuthRows
<1>5. Mirror(Entries(f2), h, t2, key)
  BY <1>2, <1>4, OwnedDrop
<1> QED
  BY <1>1, <1>3, <1>5, Zenon DEF SameOAuth

LEMMA WalletRow ==
  ASSUME NEW f, NEW t, SameWallets(f, t)
  PROVE  /\ \A w : w \in Entries(f) <=> w \in Wallet /\ f[w] # Nil
         /\ \A w \in Wallet : /\ WalletRows(f)[w].user = f[w].user
                               /\ WalletRows(f)[w].created = f[w].created
BY DEF SameWallets, Entries, WalletRows

LEMMA WalletHas ==
  ASSUME NEW f, NEW t, SameWallets(f, t), NEW w \in Wallet
  PROVE  /\ Pg!Has(t, "wallet", w) <=> f[w] # Nil
         /\ f[w] # Nil => Pg!QueryRow(t, "wallet", w).user = f[w].user
<1>1. PICK key, D, g : key = "wallet" /\ D = Entries(f) /\ g = WalletRows(f)
  BY Zenon
<1>2. Mirror(D, g, t, key)
  BY <1>1, Zenon DEF SameWallets
<1>3. /\ w \in D <=> f[w] # Nil
      /\ g[w].user = f[w].user
  BY <1>1, WalletRow, Zenon
<1>4. Pg!Has(t, key, w) <=> w \in D
  BY <1>2, MirrorHas, Zenon
<1>5. w \in D => Pg!QueryRow(t, key, w) = g[w]
  BY <1>2, MirrorRow
<1> QED
  BY <1>1, <1>3, <1>4, <1>5, Zenon

LEMMA WalletAdd ==
  ASSUME NEW f, NEW t, SameWallets(f, t), NEW w \in Wallet, f[w] = Nil, NEW u \in User,
         NEW now \in Int, NEW f2, f2 = [f EXCEPT ![w] = [user |-> u, created |-> now]],
         NEW t2, t2 = t \cup {[wallet |-> w, user |-> u, created |-> now]}
  PROVE  SameWallets(f2, t2)
<1>1. PICK key, D, E, g, h, link :
        /\ key = "wallet" /\ D = Entries(f) /\ E = Entries(f2)
        /\ g = WalletRows(f) /\ h = WalletRows(f2) /\ link = [user |-> u, created |-> now]
  BY Zenon
<1>2. link \in Link /\ link # Nil /\ link.user = u /\ link.created = now
  BY <1>1, NilIsNoEntry DEF Link
<1>3. Mirror(D, g, t, key) /\ f \in [Wallet -> Link \cup {Nil}] /\ f2 = [f EXCEPT ![w] = link]
  BY <1>1, Zenon DEF SameWallets
<1>4. f2 \in [Wallet -> Link \cup {Nil}] /\ f2[w] = link /\ \A b \in Wallet \ {w} : f2[b] = f[b]
  BY <1>2, <1>3
<1>5. w \notin D /\ E = D \cup {w}
  BY <1>1, <1>2, <1>3, <1>4 DEF Entries
<1>6. /\ \A b \in D : h[b] = g[b]
      /\ h[w] = [wallet |-> w, user |-> u, created |-> now] /\ h[w][key] = w
  BY <1>1, <1>2, <1>3, <1>4 DEF Entries, WalletRows
<1>7. t2 = t \cup {h[w]}
  BY <1>6, Zenon
<1>8. Mirror(E, h, t2, key)
  BY <1>3, <1>5, <1>6, <1>7, MirrorAdd
<1> QED
  BY <1>1, <1>4, <1>8, Zenon DEF SameWallets

LEMMA WalletDrop ==
  ASSUME NEW f, NEW t, SameWallets(f, t), NEW u,
         NEW f2, f2 = Mem!DeleteOwned(f, u), NEW t2, t2 = Pg!Cascade(t, u)
  PROVE  SameWallets(f2, t2)
<1>1. PICK key, g, h : key = "wallet" /\ g = WalletRows(f) /\ h = WalletRows(f2)
  BY Zenon
<1>2. f \in [Wallet -> Link \cup {Nil}] /\ Mirror(Entries(f), g, t, key)
  BY <1>1, Zenon DEF SameWallets
<1>3. /\ f2 \in [Wallet -> Link \cup {Nil}] /\ Entries(f2) \subseteq Entries(f)
      /\ \A k \in Entries(f2) : f2[k] = f[k]
  <2>1. /\ DOMAIN f2 = DOMAIN f /\ Entries(f2) \subseteq Entries(f)
        /\ \A k \in Entries(f2) : f2[k] = f[k]
        /\ \A k \in DOMAIN f : f2[k] \in {f[k], Nil}
        /\ f2 = [k \in DOMAIN f |-> f2[k]]
    BY OwnedLeft
  <2> QED
    BY <1>2, <2>1
<1>4. /\ \A k \in Entries(f) : g[k].user = f[k].user
      /\ \A k \in Entries(f2) : h[k] = g[k]
  BY <1>1, <1>2, <1>3 DEF Entries, WalletRows
<1>5. Mirror(Entries(f2), h, t2, key)
  BY <1>2, <1>4, OwnedDrop
<1> QED
  BY <1>1, <1>3, <1>5, Zenon DEF SameWallets

-----------------------------------------------------------------------------
(* Personal access tokens *)

LEMMA PATEntries ==
  ASSUME NEW f, NEW t, SamePATs(f, t)
  PROVE  /\ DOMAIN f = Pat
         /\ \A p : p \in Entries(f) <=> p \in Pat /\ f[p] # Nil
         /\ \A p \in Entries(f) : f[p] \in PATRow /\ f[p] \in t /\ f[p].pat = p
         /\ \A r \in t : r.pat \in Entries(f) /\ f[r.pat] = r
<1>1. f \in [Pat -> PATRow \cup {Nil}] /\ Mirror(Entries(f), f, t, "pat")
  BY Zenon DEF SamePATs
<1>2. \A p : p \in Entries(f) <=> p \in Pat /\ f[p] # Nil
  BY <1>1 DEF Entries
<1>3. /\ \A p \in Entries(f) : f[p] \in t /\ f[p].pat = p
      /\ \A r \in t : r.pat \in Entries(f) /\ f[r.pat] = r
  BY <1>1, Zenon DEF Mirror
<1> QED
  BY <1>1, <1>2, <1>3

LEMMA PATHas ==
  ASSUME NEW f, NEW t, SamePATs(f, t), NEW p \in Pat
  PROVE  /\ Pg!Has(t, "pat", p) <=> f[p] # Nil
         /\ f[p] # Nil => Pg!QueryRow(t, "pat", p) = f[p]
<1>1. PICK key, D : key = "pat" /\ D = Entries(f)
  BY Zenon
<1>2. Mirror(D, f, t, key)
  BY <1>1, Zenon DEF SamePATs
<1>3. p \in D <=> f[p] # Nil
  BY <1>1, PATEntries
<1>4. Pg!Has(t, key, p) <=> p \in D
  BY <1>2, MirrorHas, Zenon
<1>5. p \in D => Pg!QueryRow(t, key, p) = f[p]
  BY <1>2, MirrorRow
<1> QED
  BY <1>1, <1>3, <1>4, <1>5, Zenon

LEMMA PATAdd ==
  ASSUME NEW f, NEW t, SamePATs(f, t), NEW row \in PATRow, f[row.pat] = Nil,
         NEW f2, f2 = [f EXCEPT ![row.pat] = row], NEW t2, t2 = t \cup {row}
  PROVE  SamePATs(f2, t2)
<1>1. PICK key, D, E, p : key = "pat" /\ D = Entries(f) /\ E = Entries(f2) /\ p = row.pat
  BY Zenon
<1>2. p \in Pat /\ row # Nil
  BY <1>1, NilIsNoEntry DEF PATRow
<1>3. f \in [Pat -> PATRow \cup {Nil}] /\ Mirror(D, f, t, key) /\ IsFiniteSet(D)
  BY <1>1, Zenon DEF SamePATs
<1>4. f2 \in [Pat -> PATRow \cup {Nil}] /\ f2[p] = row /\ \A q \in Pat \ {p} : f2[q] = f[q]
  BY <1>1, <1>2, <1>3
<1>5. p \notin D /\ E = D \cup {p} /\ \A q \in D : f2[q] = f[q]
  BY <1>1, <1>2, <1>3, <1>4 DEF Entries
<1>6. row[key] = p
  BY <1>1, Zenon
<1>7. /\ \A k \in D : f[k] \in t /\ f[k][key] = k
      /\ \A r \in t : r[key] \in D /\ f[r[key]] = r
  BY <1>3, Zenon DEF Mirror
<1>8. Mirror(E, f2, t2, key)
  BY <1>4, <1>5, <1>6, <1>7 DEF Mirror
<1>9. IsFiniteSet(E)
  BY <1>3, <1>5, FiniteAdd, Zenon
<1> QED
  BY <1>1, <1>4, <1>5, <1>8, <1>9, Zenon DEF SamePATs

\* The map without the tokens of the set S.
Forgets(f, S) == [p \in Pat |-> IF p \in S THEN Nil ELSE f[p]]

\* The tokens of the set S are dropped, and the rows of just these.
LEMMA PATDrop ==
  ASSUME NEW f, NEW t, SamePATs(f, t), NEW S,
         NEW f2, f2 = Forgets(f, S),
         NEW t2, t2 \subseteq t, \A r \in t : r \in t2 <=> r.pat \notin S
  PROVE  SamePATs(f2, t2)
<1>1. PICK key, D, E : key = "pat" /\ D = Entries(f) /\ E = Entries(f2)
  BY Zenon
<1>2. f \in [Pat -> PATRow \cup {Nil}] /\ Mirror(D, f, t, key) /\ IsFiniteSet(D)
  BY <1>1, Zenon DEF SamePATs
<1>3. f2 \in [Pat -> PATRow \cup {Nil}] /\ E \subseteq D /\ \A p \in E : f2[p] = f[p]
  BY <1>1, <1>2 DEF Entries, Forgets
<1>4. \A p \in D : p \in E <=> p \notin S
  BY <1>1, <1>2 DEF Entries, Forgets
<1>5. \A p \in D : f[p] \in t /\ f[p].pat = p
  BY <1>1, <1>2, Zenon DEF Mirror
<1>6. \A p \in D : p \in E <=> f[p] \in t2
  BY <1>4, <1>5, Zenon
<1>7. Mirror(E, f2, t2, key)
  BY <1>2, <1>3, <1>6, MirrorDrop
<1>8. IsFiniteSet(E)
  BY <1>2, <1>3, FiniteSubset, Zenon
<1> QED
  BY <1>1, <1>3, <1>7, <1>8, Zenon DEF SamePATs

LEMMA PATCascade ==
  ASSUME NEW f, NEW t, SamePATs(f, t), NEW u,
         NEW f2, f2 = Mem!DeleteOwned(f, u), NEW t2, t2 = Pg!Cascade(t, u)
  PROVE  SamePATs(f2, t2)
<1>1. PICK S : S = {p \in Pat : f[p] # Nil /\ f[p].user = u}
  BY Zenon
<1>2. f2 = Forgets(f, S)
  BY <1>1, PATEntries DEF Forgets, Mem!DeleteOwned
<1>3. t2 \subseteq t /\ \A r \in t : r \in t2 <=> r.pat \notin S
  BY <1>1, PATEntries DEF Pg!Cascade
<1> QED
  BY <1>2, <1>3, PATDrop, Zenon

\* The rows with the token p touched at now.
Touched(t, p, now) == {IF r.pat = p THEN [r EXCEPT !.used = now] ELSE r : r \in t}

LEMMA PATTouch ==
  ASSUME NEW f, NEW t, SamePATs(f, t), NEW p \in Pat, f[p] # Nil, NEW now \in Int,
         NEW f2, f2 = [f EXCEPT ![p] = [f[p] EXCEPT !.used = now]],
         NEW t2, t2 = Touched(t, p, now)
  PROVE  SamePATs(f2, t2)
<1>1. /\ f \in [Pat -> PATRow \cup {Nil}] /\ f[p] \in PATRow /\ f[p].pat = p
      /\ f[p] \in t /\ p \in Entries(f)
  BY PATEntries DEF SamePATs
<1>2. PICK row : row = [f[p] EXCEPT !.used = now]
  BY Zenon
<1>3. row \in PATRow /\ row # Nil /\ row.pat = p
  BY <1>1, <1>2, NilIsNoEntry DEF PATRow
<1>4. f2 \in [Pat -> PATRow \cup {Nil}] /\ f2[p] = row /\ \A q \in Pat \ {p} : f2[q] = f[q]
  BY <1>1, <1>2, <1>3
<1>5. Entries(f2) = Entries(f)
  BY <1>1, <1>3, <1>4 DEF Entries
<1>6. /\ \A q \in Entries(f) : q \in Pat /\ f[q] \in t /\ f[q].pat = q
      /\ \A r \in t : r.pat \in Entries(f) /\ f[r.pat] = r
  BY PATEntries
<1>7. \A x : x \in t2 <=> x = row \/ (x \in t /\ x.pat # p)
  <2>1. \A r \in t : r.pat = p => r = f[p]
    BY <1>6, Zenon
  <2> QED
    BY <1>1, <1>2, <2>1 DEF Touched
<1>8. /\ \A q \in Entries(f) : f2[q] \in t2 /\ f2[q].pat = q
      /\ \A r \in t2 : r.pat \in Entries(f) /\ f2[r.pat] = r
  BY <1>1, <1>3, <1>4, <1>6, <1>7
<1>9. Mirror(Entries(f2), f2, t2, "pat")
  BY <1>5, <1>8, Zenon DEF Mirror
<1> QED
  BY <1>4, <1>5, <1>9, Zenon DEF SamePATs

\* The tokens of a user, in the map and in the table.
TokensOf(f, u) == {p \in Pat : f[p] # Nil /\ f[p].user = u}
RowsOf(t, u) == {r \in t : r.user = u}

-----------------------------------------------------------------------------
(* Challenges *)

LEMMA ChallengeFacts ==
  ASSUME NEW f, NEW t, NEW now, SameChallenges(f, t, now)
  PROVE  /\ f \in [Nonce -> ChallengeRow \cup {Nil}] /\ Nil \notin ChallengeRow
         /\ \A n \in Nonce : f[n] # Nil => f[n] \in ChallengeRow /\ f[n].nonce = n
         /\ \A r \in t : r \in ChallengeRow /\ r.nonce \in Nonce
         /\ \A r \in ChallengeRow : r.nonce \in Nonce /\ r.expires \in Int /\ r.expires # Nil
<1>1. f \in [Nonce -> ChallengeRow \cup {Nil}] /\ Nil \notin ChallengeRow
  BY NilIsNoEntry, Zenon DEF SameChallenges
<1>2. \A n \in Nonce : f[n] # Nil => f[n] \in ChallengeRow /\ f[n].nonce = n
  BY <1>1 DEF SameChallenges, Entries
<1>3. \A r \in ChallengeRow : r.nonce \in Nonce /\ r.expires \in Int /\ r.expires # Nil
  BY StoresAssumption DEF ChallengeRow
<1>4. \A r \in t : r \in ChallengeRow
  BY Zenon DEF SameChallenges
<1> QED
  BY <1>1, <1>2, <1>3, <1>4, Zenon

\* As time passes, fewer challenges can be used.
LEMMA ChallengeAge ==
  ASSUME NEW f, NEW t, NEW now \in Int, NEW later \in Int, now <= later,
         SameChallenges(f, t, now)
  PROVE  SameChallenges(f, t, later)
<1>1. \A r \in ChallengeRow : ~Expired(r, later) => ~Expired(r, now)
  BY ChallengeFacts DEF Expired
<1> QED
  BY <1>1, Zenon DEF SameChallenges

\* What a read finds: a challenge that can be used, in both or in none.
LEMMA ChallengeHas ==
  ASSUME NEW f, NEW t, NEW now, SameChallenges(f, t, now), NEW n \in Nonce,
         NEW q, q = Pg!QueryRow(t, "nonce", n)
  PROVE  /\ f[n] # Nil /\ ~Expired(f[n], now) => Pg!Has(t, "nonce", n) /\ q = f[n]
         /\ Pg!Has(t, "nonce", n) /\ ~Expired(q, now) => f[n] = q /\ f[n] # Nil
<1>1. Pg!Has(t, "nonce", n) => q \in t /\ q.nonce = n
  BY Zenon DEF Pg!Has, Pg!QueryRow
<1>2. ASSUME f[n] # Nil, ~Expired(f[n], now) PROVE Pg!Has(t, "nonce", n) /\ q = f[n]
  <2>1. f[n] \in ChallengeRow /\ f[n].nonce = n
    BY <1>2, ChallengeFacts
  <2>2. f[n] \in t
    BY <1>2, <2>1, Zenon DEF SameChallenges
  <2>3. Pg!Has(t, "nonce", n)
    BY <2>1, <2>2, Zenon DEF Pg!Has
  <2> QED
    BY <1>1, <2>1, <2>2, <2>3, Zenon DEF SameChallenges
<1>3. ASSUME Pg!Has(t, "nonce", n), ~Expired(q, now) PROVE f[n] = q /\ f[n] # Nil
  <2>1. q \in t /\ q.nonce = n /\ q \in ChallengeRow
    BY <1>1, <1>3, Zenon DEF SameChallenges
  <2>2. f[n] = q
    BY <1>3, <2>1, Zenon DEF SameChallenges
  <2> QED
    BY <2>1, <2>2, ChallengeFacts, Zenon
<1> QED
  BY <1>2, <1>3, Zenon

\* An expired entry goes, whatever the table does.
LEMMA ChallengeForget ==
  ASSUME NEW f, NEW t, NEW now, SameChallenges(f, t, now), NEW n \in Nonce,
         Expired(f[n], now), NEW f2, f2 = [f EXCEPT ![n] = Nil]
  PROVE  SameChallenges(f2, t, now) /\ Entries(f2) \subseteq Entries(f)
<1>1. /\ f2 \in [Nonce -> ChallengeRow \cup {Nil}] /\ f2[n] = Nil
      /\ \A k \in Nonce \ {n} : f2[k] = f[k]
  BY ChallengeFacts
<1>2. \A k \in Entries(f2) : k \in Entries(f) /\ f2[k] = f[k]
  BY <1>1, ChallengeFacts DEF Entries
<1>3. \A r \in ChallengeRow : ~Expired(r, now) => (r \in t <=> f2[r.nonce] = r)
  <2>1. ASSUME NEW r \in ChallengeRow, ~Expired(r, now) PROVE r \in t <=> f2[r.nonce] = r
    <3>1. r.nonce \in Nonce /\ r # Nil
      BY ChallengeFacts
    <3>2. r \in t <=> f[r.nonce] = r
      BY <2>1, Zenon DEF SameChallenges
    <3>3. CASE r.nonce = n
      BY <1>1, <2>1, <3>1, <3>2, <3>3, Zenon
    <3>4. CASE r.nonce # n
      BY <1>1, <3>1, <3>2, <3>4, Zenon
    <3> QED
      BY <3>3, <3>4, Zenon
  <2> QED
    BY <2>1, Zenon
<1>4. \A k \in Entries(f2) : f2[k].nonce = k /\ f2[k] \in t
  BY <1>2, Zenon DEF SameChallenges
<1>5. /\ \A r \in t : r \in ChallengeRow
      /\ \A r, s \in t : r.nonce = s.nonce => r = s
  BY Zenon DEF SameChallenges
<1>6. SameChallenges(f2, t, now)
  BY <1>1, <1>3, <1>4, <1>5, Zenon DEF SameChallenges
<1> QED
  BY <1>2, <1>6, Zenon

\* The map and the table with the challenge row and without what has expired.
Swept(f, row, now) == [n \in Nonce |-> IF n = row.nonce THEN row
                                       ELSE IF f[n] # Nil /\ Expired(f[n], now) THEN Nil
                                       ELSE f[n]]
SweptRows(t, now) == {r \in t : ~Expired(r, now)}
ButNonce(t, n) == {r \in t : r.nonce # n}

LEMMA ChallengeAdd ==
  ASSUME NEW f, NEW t, NEW now, SameChallenges(f, t, now), NEW row \in ChallengeRow,
         f[row.nonce] = Nil, \A r \in t : r.nonce # row.nonce,
         NEW f2, f2 = Swept(f, row, now), NEW t2, t2 = SweptRows(t, now) \cup {row}
  PROVE  SameChallenges(f2, t2, now) /\ Entries(f2) \subseteq Entries(f) \cup {row.nonce}
<1>1. PICK m : m = row.nonce
  BY Zenon
<1>2. m \in Nonce /\ row # Nil
  BY <1>1, ChallengeFacts
<1>3. /\ f2 \in [Nonce -> ChallengeRow \cup {Nil}] /\ f2[m] = row
      /\ \A n \in Nonce \ {m} : f2[n] = IF f[n] # Nil /\ Expired(f[n], now) THEN Nil ELSE f[n]
  BY <1>1, <1>2, ChallengeFacts DEF Swept
<1>4. \A n \in Entries(f2) : n = m \/ (n \in Entries(f) /\ f2[n] = f[n])
  BY <1>3, ChallengeFacts DEF Entries
<1>5. \A r : r \in t2 <=> r = row \/ (r \in t /\ ~Expired(r, now))
  BY Zenon DEF SweptRows
<1>6. \A n \in Entries(f2) : f2[n].nonce = n /\ f2[n] \in t2
  <2>1. \A n \in Entries(f) : f[n].nonce = n /\ f[n] \in t
    BY Zenon DEF SameChallenges
  <2>2. \A n \in Entries(f2) \ {m} : ~Expired(f[n], now)
    BY <1>3 DEF Entries
  <2> QED
    BY <1>1, <1>3, <1>4, <1>5, <2>1, <2>2
<1>7. /\ \A r \in t2 : r \in ChallengeRow
      /\ \A r, s \in t2 : r.nonce = s.nonce => r = s
  BY <1>5, Zenon DEF SameChallenges
<1>8. \A r \in ChallengeRow : ~Expired(r, now) => (r \in t2 <=> f2[r.nonce] = r)
  <2>1. ASSUME NEW r \in ChallengeRow, ~Expired(r, now) PROVE r \in t2 <=> f2[r.nonce] = r
    <3>1. r.nonce \in Nonce /\ r # Nil
      BY ChallengeFacts
    <3>2. r \in t <=> f[r.nonce] = r
      BY <2>1, Zenon DEF SameChallenges
    <3>3. CASE r.nonce = m
      BY <1>1, <1>3, <1>5, <3>3, Zenon
    <3>4. CASE r.nonce # m
      BY <1>1, <1>3, <1>5, <2>1, <3>1, <3>2, <3>4, Zenon
    <3> QED
      BY <3>3, <3>4, Zenon
  <2> QED
    BY <2>1, Zenon
<1>9. Entries(f2) \subseteq Entries(f) \cup {row.nonce}
  BY <1>1, <1>4, Zenon
<1> QED
  BY <1>3, <1>6, <1>7, <1>8, <1>9, Zenon DEF SameChallenges

LEMMA ChallengeDrop ==
  ASSUME NEW f, NEW t, NEW now, SameChallenges(f, t, now), NEW n \in Nonce,
         NEW f2, f2 = [f EXCEPT ![n] = Nil], NEW t2, t2 = ButNonce(t, n)
  PROVE  SameChallenges(f2, t2, now) /\ Entries(f2) \subseteq Entries(f)
<1>1. /\ f2 \in [Nonce -> ChallengeRow \cup {Nil}] /\ f2[n] = Nil
      /\ \A k \in Nonce \ {n} : f2[k] = f[k]
  BY ChallengeFacts
<1>2. \A k \in Entries(f2) : k \in Entries(f) /\ f2[k] = f[k]
  BY <1>1, ChallengeFacts DEF Entries
<1>3. \A r : r \in t2 <=> r \in t /\ r.nonce # n
  BY Zenon DEF ButNonce
<1>4. \A r \in ChallengeRow : ~Expired(r, now) => (r \in t2 <=> f2[r.nonce] = r)
  <2>1. ASSUME NEW r \in ChallengeRow, ~Expired(r, now) PROVE r \in t2 <=> f2[r.nonce] = r
    <3>1. r.nonce \in Nonce /\ r # Nil
      BY ChallengeFacts
    <3>2. r \in t <=> f[r.nonce] = r
      BY <2>1, Zenon DEF SameChallenges
    <3>3. CASE r.nonce = n
      BY <1>1, <1>3, <3>1, <3>3, Zenon
    <3>4. CASE r.nonce # n
      BY <1>1, <1>3, <3>1, <3>2, <3>4, Zenon
    <3> QED
      BY <3>3, <3>4, Zenon
  <2> QED
    BY <2>1, Zenon
<1>5. \A k \in Entries(f2) : f2[k].nonce = k /\ f2[k] \in t2
  <2>1. \A k \in Entries(f2) : f[k].nonce = k /\ f[k] \in t /\ k # n
    BY <1>1, <1>2, Zenon DEF SameChallenges, Entries
  <2> QED
    BY <1>2, <1>3, <2>1, Zenon
<1>6. /\ \A r \in t2 : r \in ChallengeRow
      /\ \A r, s \in t2 : r.nonce = s.nonce => r = s
  BY <1>3, Zenon DEF SameChallenges
<1> QED
  BY <1>1, <1>2, <1>4, <1>5, <1>6, Zenon DEF SameChallenges

-----------------------------------------------------------------------------
(* The calls *)

LEMMA FailAlike ==
  ASSUME NEW m, NEW p, NEW now, NEW dr, Twins(m, p, now, dr), NEW e, NEW a, a = Mem!Fail(m, e),
         NEW b, b = Pg!Fail(p, e)
  PROVE  Alike(a, b, now, dr)
<1>1. a.store = m /\ a.err = e /\ a.val = Nil /\ b.store = p /\ b.err = e /\ b.val = Nil
  BY DEF Mem!Fail, Pg!Fail
<1> QED
  BY <1>1, Zenon DEF Alike

LEMMA DoneAlike ==
  ASSUME NEW m, NEW p, NEW now, NEW dr, Twins(m, p, now, dr), NEW a, a = Mem!Done(m),
         NEW b, b = Pg!Done(p)
  PROVE  Alike(a, b, now, dr)
<1>1. a.store = m /\ a.err = "nil" /\ a.val = Nil /\ b.store = p /\ b.err = "nil" /\ b.val = Nil
  BY DEF Mem!Done, Pg!Done
<1> QED
  BY <1>1, Zenon DEF Alike

LEMMA FoundAlike ==
  ASSUME NEW m, NEW p, NEW now, NEW dr, Twins(m, p, now, dr), NEW v, NEW a, a = Mem!Found(m, v),
         NEW b, b = Pg!Found(p, v)
  PROVE  Alike(a, b, now, dr)
<1>1. a.store = m /\ a.err = "nil" /\ a.val = v /\ b.store = p /\ b.err = "nil" /\ b.val = v
  BY DEF Mem!Found, Pg!Found
<1> QED
  BY <1>1, Zenon DEF Alike

\* What of the entries f of D is owned by u; the rows g agree on the owner and
\* on the time.
OwnedBy(D, f, u) == {k \in D : f[k].user = u}
OwnersAgree(D, g, f) == \A k \in D : g[k].user = f[k].user /\ g[k].created = f[k].created

LEMMA OwnedAlike ==
  ASSUME NEW m, NEW p, NEW now, NEW dr, Twins(m, p, now, dr),
         NEW D, NEW g, NEW t, NEW key, Mirror(D, g, t, key), NEW u, NEW f,
         OwnersAgree(D, g, f), NEW keys, keys = OwnedBy(D, f, u),
         NEW a, a = Mem!Found(m, Mem!NewestFirst(keys, f)),
         NEW b, b = Pg!QueryOwned(p, t, u, key)
  PROVE  Alike(a, b, now, dr)
<1>1. b.val = a.val
  BY MirrorList DEF OwnersAgree, OwnedBy
<1>2. a.store = m /\ a.err = "nil"
  BY DEF Mem!Found
<1>3. b.store = p /\ b.err = "nil"
  BY DEF Pg!QueryOwned, Pg!Found
<1> QED
  BY <1>1, <1>2, <1>3, Zenon DEF Alike

\* More may be drawn than is stored.
LEMMA TwinsDrawn ==
  ASSUME NEW m, NEW p, NEW now, NEW dr, Twins(m, p, now, dr), NEW more, dr \subseteq more
  PROVE  Twins(m, p, now, more)
BY Zenon DEF Twins

LEMMA CreateAlike ==
  ASSUME NEW m, NEW p, NEW now, NEW dr, Twins(m, p, now, dr), NEW u \in User, u \notin dr,
         NEW e \in Email \cup {NoEmail},
         NEW a, a = Mem!Create(m, u, e), NEW b, b = Pg!Create(p, u, e)
  PROVE  Alike(a, b, now, dr \cup {u})
<1>1. PICK us, ix, t, more :
        us = m.users /\ ix = m.usersByEmail /\ t = p.users /\ more = dr \cup {u}
  BY Zenon
<1>2. SameUsers(us, ix, t) /\ Entries(us) \subseteq dr
  BY <1>1, Zenon DEF Twins
<1>3. us[u] = Nil /\ ~Pg!Has(t, "id", u)
  BY <1>2, UserHas, UserEntries
<1>4. e # NoEmail => (Pg!Has(t, "email", e) <=> ix[e] # Nil)
  BY <1>2, EmailHas
<1>5. CASE e # NoEmail /\ ix[e] # Nil
  <2>1. a = Mem!Fail(m, "UserExists") /\ b = Pg!Fail(p, "UserExists")
    BY <1>1, <1>3, <1>4, <1>5, Zenon DEF Mem!Create, Pg!Create, Pg!UniqueViolation
  <2> QED
    BY <1>1, <2>1, FailAlike, TwinsDrawn, Zenon
<1>6. CASE e = NoEmail \/ ix[e] = Nil
  <2>1. PICK us2, ix2, t2, m2, p2 :
          /\ us2 = [us EXCEPT ![u] = e]
          /\ ix2 = Indexed(ix, e, u)
          /\ t2 = t \cup {[id |-> u, email |-> e]}
          /\ m2 = [m EXCEPT !.users = us2, !.usersByEmail = ix2]
          /\ p2 = [p EXCEPT !.users = t2]
    BY Zenon
  <2>2. a = Mem!Done(m2)
    BY <1>1, <1>3, <1>6, <2>1 DEF Mem!Create, Indexed
  <2>3. b = Pg!Done(p2)
    BY <1>1, <1>3, <1>4, <1>6, <2>1, Zenon DEF Pg!Create, Pg!UniqueViolation
  <2>7. Free(ix, e)
    BY <1>6, Zenon DEF Free
  <2>4. SameUsers(us2, ix2, t2) /\ Entries(us2) \subseteq Entries(us) \cup {u}
    <3>1. SameUsers(us2, ix2, t2)
      BY <1>2, <1>3, <2>1, <2>7, UserAdd, Zenon
    <3>2. Entries(us2) \subseteq Entries(us) \cup {u}
      BY <2>1 DEF Entries
    <3> QED
      BY <3>1, <3>2, Zenon
  <2>5. /\ DOMAIN m2 = DOMAIN m /\ DOMAIN p2 = DOMAIN p
        /\ m2.users = us2 /\ m2.usersByEmail = ix2 /\ p2.users = t2
        /\ m2.passwords = m.passwords /\ m2.pats = m.pats /\ m2.oauth = m.oauth
        /\ m2.wallets = m.wallets /\ m2.challenges = m.challenges
        /\ p2.credentials = p.credentials /\ p2.pats = p.pats /\ p2.oauth = p.oauth
        /\ p2.wallets = p.wallets /\ p2.challenges = p.challenges
    BY <2>1 DEF Twins
  <2>6. Twins(m2, p2, now, more)
    BY <1>1, <1>2, <2>4, <2>5, Zenon DEF Twins
  <2> QED
    BY <1>1, <2>2, <2>3, <2>6, DoneAlike, Zenon
<1> QED
  BY <1>5, <1>6, Zenon

LEMMA GetByIDAlike ==
  ASSUME NEW m, NEW p, NEW now, NEW dr, Twins(m, p, now, dr), NEW u \in User,
         NEW a, a = Mem!GetByID(m, u), NEW b, b = Pg!GetByID(p, u)
  PROVE  Alike(a, b, now, dr)
<1>1. /\ Pg!Has(p.users, "id", u) <=> m.users[u] # Nil
      /\ m.users[u] # Nil => Pg!QueryRow(p.users, "id", u).email = m.users[u]
  BY UserHas DEF Twins
<1>2. \/ a = Mem!Fail(m, "UserNotFound") /\ b = Pg!Fail(p, "UserNotFound")
      \/ a = Mem!Found(m, m.users[u]) /\ b = Pg!Found(p, m.users[u])
  BY <1>1, Zenon DEF Mem!GetByID, Pg!GetByID
<1> QED
  BY <1>2, FailAlike, FoundAlike, Zenon

LEMMA GetByEmailAlike ==
  ASSUME NEW m, NEW p, NEW now, NEW dr, Twins(m, p, now, dr), NEW e \in Email \cup {NoEmail},
         NEW a, a = Mem!GetByEmail(m, e), NEW b, b = Pg!GetByEmail(p, e)
  PROVE  Alike(a, b, now, dr)
<1>1. e # NoEmail =>
        /\ Pg!Has(p.users, "email", e) <=> m.usersByEmail[e] # Nil
        /\ m.usersByEmail[e] # Nil => Pg!QueryRow(p.users, "email", e).id = m.usersByEmail[e]
  BY EmailHas DEF Twins
<1>2. \/ a = Mem!Fail(m, "UserNotFound") /\ b = Pg!Fail(p, "UserNotFound")
      \/ a = Mem!Found(m, m.usersByEmail[e]) /\ b = Pg!Found(p, m.usersByEmail[e])
  BY <1>1, Zenon DEF Mem!GetByEmail, Pg!GetByEmail
<1> QED
  BY <1>2, FailAlike, FoundAlike, Zenon

LEMMA GetPasswordAlike ==
  ASSUME NEW m, NEW p, NEW now, NEW dr, Twins(m, p, now, dr), NEW u \in User,
         NEW a, a = Mem!GetPasswordHash(m, u), NEW b, b = Pg!GetPasswordHash(p, u)
  PROVE  Alike(a, b, now, dr)
<1>1. /\ Pg!Has(p.credentials, "user", u) <=> m.passwords[u] # Nil
      /\ m.passwords[u] # Nil => Pg!QueryRow(p.credentials, "user", u).hash = m.passwords[u]
  BY CredHas DEF Twins
<1>2. \/ a = Mem!Fail(m, "CredentialNotFound") /\ b = Pg!Fail(p, "CredentialNotFound")
      \/ a = Mem!Found(m, m.passwords[u]) /\ b = Pg!Found(p, m.passwords[u])
  BY <1>1, Zenon DEF Mem!GetPasswordHash, Pg!GetPasswordHash
<1> QED
  BY <1>2, FailAlike, FoundAlike, Zenon

LEMMA SavePasswordAlike ==
  ASSUME NEW m, NEW p, NEW now, NEW dr, Twins(m, p, now, dr), NEW u \in User, NEW h \in Secret,
         NEW a, a = Mem!SavePasswordHash(m, u, h), NEW b, b = Pg!SavePasswordHash(p, u, h)
  PROVE  Alike(a, b, now, dr)
<1>1. Pg!Has(p.users, "id", u) <=> m.users[u] # Nil
  BY UserHas DEF Twins
<1>2. CASE m.users[u] = Nil
  <2>1. a = Mem!Fail(m, "UserNotFound") /\ b = Pg!Fail(p, "UserNotFound")
    BY <1>1, <1>2, Zenon DEF Mem!SavePasswordHash, Mem!requireUser, Pg!SavePasswordHash,
       Pg!ForeignKeyViolation
  <2> QED
    BY <2>1, FailAlike, Zenon
<1>3. CASE m.users[u] # Nil
  <2>1. PICK pw, t, m2, p2 :
          /\ pw = [m.passwords EXCEPT ![u] = h]
          /\ t = Pg!Cascade(p.credentials, u) \cup {[user |-> u, hash |-> h]}
          /\ m2 = [m EXCEPT !.passwords = pw]
          /\ p2 = [p EXCEPT !.credentials = t]
    BY Zenon
  <2>2. a = Mem!Done(m2)
    BY <1>3, <2>1 DEF Mem!SavePasswordHash, Mem!requireUser
  <2>3. b = Pg!Done(p2)
    BY <1>1, <1>3, <2>1, Zenon DEF Pg!SavePasswordHash, Pg!ForeignKeyViolation
  <2>4. SameCreds(pw, t)
    BY <2>1, CredPut DEF Twins
  <2>5. /\ DOMAIN m2 = DOMAIN m /\ DOMAIN p2 = DOMAIN p
        /\ m2.passwords = pw /\ p2.credentials = t
        /\ m2.users = m.users /\ m2.usersByEmail = m.usersByEmail /\ m2.pats = m.pats
        /\ m2.oauth = m.oauth /\ m2.wallets = m.wallets /\ m2.challenges = m.challenges
        /\ p2.users = p.users /\ p2.pats = p.pats /\ p2.oauth = p.oauth
        /\ p2.wallets = p.wallets /\ p2.challenges = p.challenges
    BY <2>1 DEF Twins
  <2>6. Twins(m2, p2, now, dr)
    BY <2>4, <2>5, Zenon DEF Twins
  <2> QED
    BY <2>2, <2>3, <2>6, DoneAlike, Zenon
<1> QED
  BY <1>2, <1>3, Zenon

LEMMA DeleteAlike ==
  ASSUME NEW m, NEW p, NEW now, NEW dr, Twins(m, p, now, dr), NEW u \in User,
         NEW a, a = Mem!Delete(m, u), NEW b, b = Pg!Delete(p, u)
  PROVE  Alike(a, b, now, dr)
<1>1. Pg!Has(p.users, "id", u) <=> m.users[u] # Nil
  BY UserHas DEF Twins
<1>2. CASE m.users[u] = Nil
  <2>1. a = Mem!Fail(m, "UserNotFound") /\ b = Pg!Fail(p, "UserNotFound")
    BY <1>1, <1>2, Zenon DEF Mem!Delete, Pg!Delete
  <2> QED
    BY <2>1, FailAlike, Zenon
<1>3. CASE m.users[u] # Nil
  <2>1. PICK us, ix, pw, pats, oauth, wallets, m2 :
          /\ us = [m.users EXCEPT ![u] = Nil]
          /\ ix = Indexed(m.usersByEmail, m.users[u], Nil)
          /\ pw = [m.passwords EXCEPT ![u] = Nil]
          /\ pats = Mem!DeleteOwned(m.pats, u)
          /\ oauth = Mem!DeleteOwned(m.oauth, u)
          /\ wallets = Mem!DeleteOwned(m.wallets, u)
          /\ m2 = [m EXCEPT !.usersByEmail = ix, !.users = us, !.passwords = pw, !.pats = pats,
                            !.oauth = oauth, !.wallets = wallets]
    BY Zenon
  <2>2. PICK users, creds, tokens, accounts, keys, p2 :
          /\ users = ButUser(p.users, u)
          /\ creds = Pg!Cascade(p.credentials, u)
          /\ tokens = Pg!Cascade(p.pats, u)
          /\ accounts = Pg!Cascade(p.oauth, u)
          /\ keys = Pg!Cascade(p.wallets, u)
          /\ p2 = [p EXCEPT !.users = users, !.credentials = creds, !.pats = tokens,
                            !.oauth = accounts, !.wallets = keys]
    BY Zenon
  <2>3. a = Mem!Done(m2)
    BY <1>3, <2>1 DEF Mem!Delete, Indexed
  <2>4. b = Pg!Done(p2)
    BY <1>1, <1>3, <2>2, Zenon DEF Pg!Delete, ButUser
  <2>5. /\ SameUsers(m.users, m.usersByEmail, p.users) /\ SameCreds(m.passwords, p.credentials)
        /\ SamePATs(m.pats, p.pats) /\ SameOAuth(m.oauth, p.oauth)
        /\ SameWallets(m.wallets, p.wallets)
    BY Zenon DEF Twins
  <2>6. SameUsers(us, ix, users) /\ Entries(us) \subseteq Entries(m.users)
    <3>1. SameUsers(us, ix, users)
      BY <1>3, <2>1, <2>2, <2>5, UserDrop, Zenon
    <3>2. Entries(us) \subseteq Entries(m.users)
      BY <2>1 DEF Entries
    <3> QED
      BY <3>1, <3>2, Zenon
  <2>7. SameCreds(pw, creds)
    BY <2>1, <2>2, <2>5, CredDrop, Zenon
  <2>8. SamePATs(pats, tokens) /\ Entries(pats) \subseteq Entries(m.pats)
    <3>1. SamePATs(pats, tokens)
      BY <2>1, <2>2, <2>5, PATCascade, Zenon
    <3>2. Entries(pats) \subseteq Entries(m.pats)
      BY <2>1, OwnedLeft
    <3> QED
      BY <3>1, <3>2, Zenon
  <2>9. SameOAuth(oauth, accounts)
    BY <2>1, <2>2, <2>5, OAuthDrop, Zenon
  <2>10. SameWallets(wallets, keys)
    BY <2>1, <2>2, <2>5, WalletDrop, Zenon
  <2>11. /\ DOMAIN m2 = DOMAIN m /\ DOMAIN p2 = DOMAIN p
         /\ m2.users = us /\ m2.usersByEmail = ix /\ m2.passwords = pw /\ m2.pats = pats
         /\ m2.oauth = oauth /\ m2.wallets = wallets /\ m2.challenges = m.challenges
         /\ p2.users = users /\ p2.credentials = creds /\ p2.pats = tokens
         /\ p2.oauth = accounts /\ p2.wallets = keys /\ p2.challenges = p.challenges
    BY <2>1, <2>2 DEF Twins
  <2>12. Twins(m2, p2, now, dr)
    BY <2>6, <2>7, <2>8, <2>9, <2>10, <2>11, Zenon DEF Twins
  <2> QED
    BY <2>3, <2>4, <2>12, DoneAlike, Zenon
<1> QED
  BY <1>2, <1>3, Zenon

\* A link is saved for a user that exists, or for an account that is not taken.
LEMMA SaveOAuthAlike ==
  ASSUME NEW m, NEW p, NEW now \in Int, NEW dr, Twins(m, p, now, dr), NEW c \in Account,
         NEW u \in User, m.users[u] # Nil \/ m.oauth[c] = Nil,
         NEW a, a = Mem!SaveOAuthIdentity(m, c, u, now),
         NEW b, b = Pg!SaveOAuthIdentity(p, c, u, now)
  PROVE  Alike(a, b, now, dr)
<1>1. /\ Pg!Has(p.users, "id", u) <=> m.users[u] # Nil
      /\ Pg!Has(p.oauth, "account", c) <=> m.oauth[c] # Nil
  BY UserHas, OAuthHas DEF Twins
<1> USE DEF Mem!requireUser, Pg!ForeignKeyViolation, Pg!UniqueViolation
<1>2. CASE m.users[u] = Nil
  <2>1. a = Mem!Fail(m, "UserNotFound") /\ b = Pg!Fail(p, "UserNotFound")
    BY <1>1, <1>2, Zenon DEF Mem!SaveOAuthIdentity, Pg!SaveOAuthIdentity
  <2> QED
    BY <2>1, FailAlike, Zenon
<1>3. CASE m.users[u] # Nil /\ m.oauth[c] # Nil
  <2>1. a = Mem!Fail(m, "OAuthIdentityExists") /\ b = Pg!Fail(p, "OAuthIdentityExists")
    BY <1>1, <1>3, Zenon DEF Mem!SaveOAuthIdentity, Pg!SaveOAuthIdentity
  <2> QED
    BY <2>1, FailAlike, Zenon
<1>4. CASE m.users[u] # Nil /\ m.oauth[c] = Nil
  <2>1. PICK f, t, m2, p2 :
          /\ f = [m.oauth EXCEPT ![c] = [user |-> u, created |-> now]]
          /\ t = p.oauth \cup {[account |-> c, user |-> u, created |-> now]}
          /\ m2 = [m EXCEPT !.oauth = f]
          /\ p2 = [p EXCEPT !.oauth = t]
    BY Zenon
  <2>2. a = Mem!Done(m2)
    BY <1>4, <2>1 DEF Mem!SaveOAuthIdentity
  <2>3. b = Pg!Done(p2)
    BY <1>1, <1>4, <2>1, Zenon DEF Pg!SaveOAuthIdentity
  <2>4. SameOAuth(f, t)
    BY <1>4, <2>1, OAuthAdd, SMTT(60) DEF Twins
  <2>5. /\ DOMAIN m2 = DOMAIN m /\ DOMAIN p2 = DOMAIN p
        /\ m2.oauth = f /\ p2.oauth = t
        /\ m2.users = m.users /\ m2.usersByEmail = m.usersByEmail /\ m2.pats = m.pats
        /\ m2.passwords = m.passwords /\ m2.wallets = m.wallets /\ m2.challenges = m.challenges
        /\ p2.users = p.users /\ p2.credentials = p.credentials /\ p2.pats = p.pats
        /\ p2.wallets = p.wallets /\ p2.challenges = p.challenges
    BY <2>1 DEF Twins
  <2>6. Twins(m2, p2, now, dr)
    BY <2>4, <2>5, Zenon DEF Twins
  <2> QED
    BY <2>2, <2>3, <2>6, DoneAlike, Zenon
<1> QED
  BY <1>2, <1>3, <1>4, Zenon

\* A link of an account that is taken, for a user who is missing, changes neither store.
LEMMA SaveOAuthTaken ==
  ASSUME NEW m, NEW p, NEW now, NEW dr, Twins(m, p, now, dr), NEW c \in Account,
         NEW u \in User, m.users[u] = Nil, m.oauth[c] # Nil,
         NEW a, a = Mem!SaveOAuthIdentity(m, c, u, now),
         NEW b, b = Pg!SaveOAuthIdentity(p, c, u, now)
  PROVE  a.store = m /\ b.store = p
<1>1. Pg!Has(p.oauth, "account", c)
  BY OAuthHas DEF Twins
<1>2. a = Mem!Fail(m, "UserNotFound")
  BY Zenon DEF Mem!SaveOAuthIdentity, Mem!requireUser
<1>3. b = Pg!Fail(p, "OAuthIdentityExists")
  BY <1>1, Zenon DEF Pg!SaveOAuthIdentity, Pg!UniqueViolation
<1> QED
  BY <1>2, <1>3 DEF Mem!Fail, Pg!Fail

LEMMA GetOAuthAlike ==
  ASSUME NEW m, NEW p, NEW now, NEW dr, Twins(m, p, now, dr), NEW c \in Account,
         NEW a, a = Mem!GetOAuthIdentity(m, c), NEW b, b = Pg!GetOAuthIdentity(p, c)
  PROVE  Alike(a, b, now, dr)
<1>1. /\ Pg!Has(p.oauth, "account", c) <=> m.oauth[c] # Nil
      /\ m.oauth[c] # Nil => Pg!QueryRow(p.oauth, "account", c).user = m.oauth[c].user
  BY OAuthHas DEF Twins
<1>2. \/ a = Mem!Fail(m, "OAuthIdentityNotFound") /\ b = Pg!Fail(p, "OAuthIdentityNotFound")
      \/ a = Mem!Found(m, m.oauth[c].user) /\ b = Pg!Found(p, m.oauth[c].user)
  BY <1>1, Zenon DEF Mem!GetOAuthIdentity, Pg!GetOAuthIdentity
<1> QED
  BY <1>2, FailAlike, FoundAlike, Zenon

LEMMA ListOAuthAlike ==
  ASSUME NEW m, NEW p, NEW now, NEW dr, Twins(m, p, now, dr), NEW u \in User,
         NEW a, a = Mem!ListOAuthIdentities(m, u), NEW b, b = Pg!ListOAuthIdentities(p, u)
  PROVE  Alike(a, b, now, dr)
<1>1. PICK key, D, g, f, t, keys :
        /\ key = "account" /\ D = Entries(m.oauth) /\ g = OAuthRows(m.oauth) /\ f = m.oauth
        /\ t = p.oauth /\ keys = {k \in Account : f[k] # Nil /\ f[k].user = u}
  BY Zenon
<1>2. SameOAuth(f, t)
  BY <1>1, Zenon DEF Twins
<1>3. /\ Mirror(D, g, t, key)
      /\ OwnersAgree(D, g, f) /\ keys = OwnedBy(D, f, u)
  <2>1. Mirror(D, g, t, key)
    BY <1>1, <1>2, Zenon DEF SameOAuth
  <2> QED
    BY <1>1, <1>2, <2>1, OAuthRow DEF OwnersAgree, OwnedBy
<1>4. a = Mem!Found(m, Mem!NewestFirst(keys, f)) /\ b = Pg!QueryOwned(p, t, u, key)
  BY <1>1, Zenon DEF Mem!ListOAuthIdentities, Pg!ListOAuthIdentities
<1> QED
  BY <1>3, <1>4, OwnedAlike, Zenon

\* A link is saved for a user that exists, or for a wallet that is not taken.
LEMMA SaveWalletAlike ==
  ASSUME NEW m, NEW p, NEW now \in Int, NEW dr, Twins(m, p, now, dr), NEW c \in Wallet,
         NEW u \in User, m.users[u] # Nil \/ m.wallets[c] = Nil,
         NEW a, a = Mem!SaveWalletIdentity(m, c, u, now),
         NEW b, b = Pg!SaveWalletIdentity(p, c, u, now)
  PROVE  Alike(a, b, now, dr)
<1>1. /\ Pg!Has(p.users, "id", u) <=> m.users[u] # Nil
      /\ Pg!Has(p.wallets, "wallet", c) <=> m.wallets[c] # Nil
  BY UserHas, WalletHas DEF Twins
<1> USE DEF Mem!requireUser, Pg!ForeignKeyViolation, Pg!UniqueViolation
<1>2. CASE m.users[u] = Nil
  <2>1. a = Mem!Fail(m, "UserNotFound") /\ b = Pg!Fail(p, "UserNotFound")
    BY <1>1, <1>2, Zenon DEF Mem!SaveWalletIdentity, Pg!SaveWalletIdentity
  <2> QED
    BY <2>1, FailAlike, Zenon
<1>3. CASE m.users[u] # Nil /\ m.wallets[c] # Nil
  <2>1. a = Mem!Fail(m, "WalletIdentityExists") /\ b = Pg!Fail(p, "WalletIdentityExists")
    BY <1>1, <1>3, Zenon DEF Mem!SaveWalletIdentity, Pg!SaveWalletIdentity
  <2> QED
    BY <2>1, FailAlike, Zenon
<1>4. CASE m.users[u] # Nil /\ m.wallets[c] = Nil
  <2>1. PICK f, t, m2, p2 :
          /\ f = [m.wallets EXCEPT ![c] = [user |-> u, created |-> now]]
          /\ t = p.wallets \cup {[wallet |-> c, user |-> u, created |-> now]}
          /\ m2 = [m EXCEPT !.wallets = f]
          /\ p2 = [p EXCEPT !.wallets = t]
    BY Zenon
  <2>2. a = Mem!Done(m2)
    BY <1>4, <2>1 DEF Mem!SaveWalletIdentity
  <2>3. b = Pg!Done(p2)
    BY <1>1, <1>4, <2>1, Zenon DEF Pg!SaveWalletIdentity
  <2>4. SameWallets(f, t)
    BY <1>4, <2>1, WalletAdd DEF Twins
  <2>5. /\ DOMAIN m2 = DOMAIN m /\ DOMAIN p2 = DOMAIN p
        /\ m2.wallets = f /\ p2.wallets = t
        /\ m2.users = m.users /\ m2.usersByEmail = m.usersByEmail /\ m2.pats = m.pats
        /\ m2.passwords = m.passwords /\ m2.oauth = m.oauth /\ m2.challenges = m.challenges
        /\ p2.users = p.users /\ p2.credentials = p.credentials /\ p2.pats = p.pats
        /\ p2.oauth = p.oauth /\ p2.challenges = p.challenges
    BY <2>1 DEF Twins
  <2>6. Twins(m2, p2, now, dr)
    BY <2>4, <2>5, Zenon DEF Twins
  <2> QED
    BY <2>2, <2>3, <2>6, DoneAlike, Zenon
<1> QED
  BY <1>2, <1>3, <1>4, Zenon

\* A link of a wallet that is taken, for a user who is missing, changes neither store.
LEMMA SaveWalletTaken ==
  ASSUME NEW m, NEW p, NEW now, NEW dr, Twins(m, p, now, dr), NEW c \in Wallet,
         NEW u \in User, m.users[u] = Nil, m.wallets[c] # Nil,
         NEW a, a = Mem!SaveWalletIdentity(m, c, u, now),
         NEW b, b = Pg!SaveWalletIdentity(p, c, u, now)
  PROVE  a.store = m /\ b.store = p
<1>1. Pg!Has(p.wallets, "wallet", c)
  BY WalletHas DEF Twins
<1>2. a = Mem!Fail(m, "UserNotFound")
  BY Zenon DEF Mem!SaveWalletIdentity, Mem!requireUser
<1>3. b = Pg!Fail(p, "WalletIdentityExists")
  BY <1>1, Zenon DEF Pg!SaveWalletIdentity, Pg!UniqueViolation
<1> QED
  BY <1>2, <1>3 DEF Mem!Fail, Pg!Fail

LEMMA GetWalletAlike ==
  ASSUME NEW m, NEW p, NEW now, NEW dr, Twins(m, p, now, dr), NEW c \in Wallet,
         NEW a, a = Mem!GetWalletIdentity(m, c), NEW b, b = Pg!GetWalletIdentity(p, c)
  PROVE  Alike(a, b, now, dr)
<1>1. /\ Pg!Has(p.wallets, "wallet", c) <=> m.wallets[c] # Nil
      /\ m.wallets[c] # Nil => Pg!QueryRow(p.wallets, "wallet", c).user = m.wallets[c].user
  BY WalletHas DEF Twins
<1>2. \/ a = Mem!Fail(m, "WalletIdentityNotFound") /\ b = Pg!Fail(p, "WalletIdentityNotFound")
      \/ a = Mem!Found(m, m.wallets[c].user) /\ b = Pg!Found(p, m.wallets[c].user)
  BY <1>1, Zenon DEF Mem!GetWalletIdentity, Pg!GetWalletIdentity
<1> QED
  BY <1>2, FailAlike, FoundAlike, Zenon

LEMMA ListWalletAlike ==
  ASSUME NEW m, NEW p, NEW now, NEW dr, Twins(m, p, now, dr), NEW u \in User,
         NEW a, a = Mem!ListWalletIdentities(m, u), NEW b, b = Pg!ListWalletIdentities(p, u)
  PROVE  Alike(a, b, now, dr)
<1>1. PICK key, D, g, f, t, keys :
        /\ key = "wallet" /\ D = Entries(m.wallets) /\ g = WalletRows(m.wallets) /\ f = m.wallets
        /\ t = p.wallets /\ keys = {k \in Wallet : f[k] # Nil /\ f[k].user = u}
  BY Zenon
<1>2. SameWallets(f, t)
  BY <1>1, Zenon DEF Twins
<1>3. /\ Mirror(D, g, t, key)
      /\ OwnersAgree(D, g, f) /\ keys = OwnedBy(D, f, u)
  <2>1. Mirror(D, g, t, key)
    BY <1>1, <1>2, Zenon DEF SameWallets
  <2> QED
    BY <1>1, <1>2, <2>1, WalletRow DEF OwnersAgree, OwnedBy
<1>4. a = Mem!Found(m, Mem!NewestFirst(keys, f)) /\ b = Pg!QueryOwned(p, t, u, key)
  BY <1>1, Zenon DEF Mem!ListWalletIdentities, Pg!ListWalletIdentities
<1> QED
  BY <1>3, <1>4, OwnedAlike, Zenon

LEMMA GetPATAlike ==
  ASSUME NEW m, NEW p, NEW now, NEW dr, Twins(m, p, now, dr), NEW k \in Pat,
         NEW a, a = Mem!GetPAT(m, k), NEW b, b = Pg!GetPAT(p, k)
  PROVE  Alike(a, b, now, dr)
<1>1. /\ Pg!Has(p.pats, "pat", k) <=> m.pats[k] # Nil
      /\ m.pats[k] # Nil => Pg!QueryRow(p.pats, "pat", k) = m.pats[k]
  BY PATHas DEF Twins
<1>2. \/ a = Mem!Fail(m, "TokenNotFound") /\ b = Pg!Fail(p, "TokenNotFound")
      \/ a = Mem!Found(m, m.pats[k]) /\ b = Pg!Found(p, m.pats[k])
  BY <1>1, Zenon DEF Mem!GetPAT, Pg!GetPAT
<1> QED
  BY <1>2, FailAlike, FoundAlike, Zenon

LEMMA ListPATsAlike ==
  ASSUME NEW m, NEW p, NEW now, NEW dr, Twins(m, p, now, dr), NEW u \in User,
         NEW a, a = Mem!ListPATs(m, u), NEW b, b = Pg!ListPATs(p, u)
  PROVE  Alike(a, b, now, dr)
<1>1. PICK key, D, f, t, keys :
        /\ key = "pat" /\ D = Entries(m.pats) /\ f = m.pats
        /\ t = p.pats /\ keys = TokensOf(f, u)
  BY Zenon
<1>2. SamePATs(f, t)
  BY <1>1, Zenon DEF Twins
<1>3. Mirror(D, f, t, key) /\ OwnersAgree(D, f, f) /\ keys = OwnedBy(D, f, u)
  <2>1. Mirror(D, f, t, key)
    BY <1>1, <1>2, Zenon DEF SamePATs
  <2> QED
    BY <1>1, <1>2, <2>1, PATEntries DEF OwnersAgree, OwnedBy, TokensOf
<1>4. a = Mem!Found(m, Mem!NewestFirst(keys, f)) /\ b = Pg!QueryOwned(p, t, u, key)
  BY <1>1, Zenon DEF Mem!ListPATs, Pg!ListPATs, Mem!PatsOf, TokensOf
<1> QED
  BY <1>3, <1>4, OwnedAlike, Zenon

\* The stores after a call that changes the tokens only.
LEMMA PATsAlike ==
  ASSUME NEW m, NEW p, NEW now, NEW dr, Twins(m, p, now, dr),
         NEW f, NEW t, SamePATs(f, t), NEW more, dr \subseteq more, Entries(f) \subseteq more,
         NEW m2, m2 = [m EXCEPT !.pats = f], NEW p2, p2 = [p EXCEPT !.pats = t]
  PROVE  Twins(m2, p2, now, more)
<1>1. /\ DOMAIN m2 = DOMAIN m /\ DOMAIN p2 = DOMAIN p /\ m2.pats = f /\ p2.pats = t
      /\ m2.users = m.users /\ m2.usersByEmail = m.usersByEmail /\ m2.passwords = m.passwords
      /\ m2.oauth = m.oauth /\ m2.wallets = m.wallets /\ m2.challenges = m.challenges
      /\ p2.users = p.users /\ p2.credentials = p.credentials
      /\ p2.oauth = p.oauth /\ p2.wallets = p.wallets /\ p2.challenges = p.challenges
  BY DEF Twins
<1> QED
  BY <1>1, Zenon DEF Twins

LEMMA DeletePATAlike ==
  ASSUME NEW m, NEW p, NEW now, NEW dr, Twins(m, p, now, dr), NEW u \in User, NEW k \in Pat,
         NEW a, a = Mem!DeletePAT(m, u, k), NEW b, b = Pg!DeletePAT(p, u, k)
  PROVE  Alike(a, b, now, dr)
<1>1. PICK f, t, doomed : /\ f = m.pats /\ t = p.pats
                          /\ doomed = {r \in t : r.pat = k /\ r.user = u}
  BY Zenon
<1>2. SamePATs(f, t) /\ Entries(f) \subseteq dr
  BY <1>1, Zenon DEF Twins
<1>3. /\ \A q \in Entries(f) : f[q] \in t /\ f[q].pat = q
      /\ \A r \in t : r.pat \in Entries(f) /\ f[r.pat] = r
      /\ k \in Entries(f) <=> f[k] # Nil
  BY <1>2, PATEntries
<1>4. doomed # {} <=> f[k] # Nil /\ f[k].user = u
  BY <1>1, <1>3
<1>5. CASE ~(f[k] # Nil /\ f[k].user = u)
  <2>1. a = Mem!Fail(m, "TokenNotFound") /\ b = Pg!Fail(p, "TokenNotFound")
    BY <1>1, <1>4, <1>5, Zenon DEF Mem!DeletePAT, Mem!PatsOf, Pg!DeletePAT
  <2> QED
    BY <2>1, FailAlike, Zenon
<1>6. CASE f[k] # Nil /\ f[k].user = u
  <2>1. PICK S, f2, t2, m2, p2 :
          /\ S = {k} /\ f2 = [f EXCEPT ![k] = Nil] /\ t2 = t \ doomed
          /\ m2 = [m EXCEPT !.pats = f2] /\ p2 = [p EXCEPT !.pats = t2]
    BY Zenon
  <2>2. f2 = Forgets(f, S) /\ Entries(f2) \subseteq Entries(f)
    BY <1>2, <2>1, PATEntries, Zenon DEF Forgets, Entries, SamePATs
  <2>3. t2 \subseteq t /\ \A r \in t : r \in t2 <=> r.pat \notin S
    BY <1>1, <1>3, <1>6, <2>1
  <2>4. SamePATs(f2, t2)
    BY <1>2, <2>2, <2>3, PATDrop
  <2>5. a = Mem!Done(m2)
    BY <1>1, <1>6, <2>1 DEF Mem!DeletePAT, Mem!PatsOf
  <2>6. b = Pg!Done(p2)
    BY <1>1, <1>4, <1>6, <2>1, Zenon DEF Pg!DeletePAT
  <2>7. Twins(m2, p2, now, dr)
    BY <1>2, <2>1, <2>2, <2>4, PATsAlike, Zenon
  <2> QED
    BY <2>5, <2>6, <2>7, DoneAlike, Zenon
<1> QED
  BY <1>5, <1>6, Zenon

LEMMA TouchPATAlike ==
  ASSUME NEW m, NEW p, NEW now \in Int, NEW dr, Twins(m, p, now, dr), NEW k \in Pat,
         NEW a, a = Mem!TouchPAT(m, k, now), NEW b, b = Pg!TouchPAT(p, k, now)
  PROVE  Alike(a, b, now, dr)
<1>1. PICK f, t, t2, p2 : /\ f = m.pats /\ t = p.pats
                          /\ t2 = Touched(t, k, now) /\ p2 = [p EXCEPT !.pats = t2]
  BY Zenon
<1>2. SamePATs(f, t) /\ Entries(f) \subseteq dr
  BY <1>1, Zenon DEF Twins
<1>3. b = Pg!Done(p2)
  BY <1>1, Zenon DEF Pg!TouchPAT, Touched
<1>4. CASE f[k] = Nil
  <2>1. \A r \in t : r.pat # k
    BY <1>2, <1>4, PATEntries
  <2>2. t2 = t
    BY <1>1, <2>1 DEF Touched
  <2>3. /\ DOMAIN p2 = DOMAIN p /\ p2.pats = t /\ p2.users = p.users
        /\ p2.credentials = p.credentials /\ p2.oauth = p.oauth /\ p2.wallets = p.wallets
        /\ p2.challenges = p.challenges
    BY <1>1, <2>2 DEF Twins
  <2>4. a = Mem!Done(m)
    BY <1>1, <1>4, Zenon DEF Mem!TouchPAT
  <2>5. Twins(m, p2, now, dr)
    BY <1>1, <2>3, Zenon DEF Twins
  <2> QED
    BY <1>3, <2>4, <2>5, DoneAlike, Zenon
<1>5. CASE f[k] # Nil
  <2>1. PICK f2, m2 : /\ f2 = [f EXCEPT ![k] = [f[k] EXCEPT !.used = now]]
                      /\ m2 = [m EXCEPT !.pats = f2]
    BY Zenon
  <2>2. SamePATs(f2, t2)
    BY <1>1, <1>2, <1>5, <2>1, PATTouch, Zenon
  <2>3. Entries(f2) \subseteq Entries(f)
    BY <1>5, <2>1 DEF Entries
  <2>4. a = Mem!Done(m2)
    BY <1>1, <1>5, <2>1 DEF Mem!TouchPAT
  <2>5. Twins(m2, p2, now, dr)
    BY <1>1, <1>2, <2>1, <2>2, <2>3, PATsAlike, Zenon
  <2> QED
    BY <1>3, <2>4, <2>5, DoneAlike, Zenon
<1> QED
  BY <1>4, <1>5, Zenon

\* The answers are alike, and the tables took the row.
AlikeDone(a, b, now, dr) == Alike(a, b, now, dr) /\ b.err = "nil"

\* A token under a fresh hash, put into maps and tables that hold the same.
LEMMA InsertAlike ==
  ASSUME NEW m, NEW p, NEW now, NEW dr, Twins(m, p, now, dr), NEW row \in PATRow, row.pat \notin dr,
         m.users[row.user] # Nil, NEW more, more = dr \cup {row.pat},
         NEW a, a = Mem!savePATLocked(m, row), NEW b, b = Pg!InsertPAT(p, row)
  PROVE  AlikeDone(a, b, now, more)
<1>1. PICK k, u, f, t, f2, t2, m2, p2 :
        /\ k = row.pat /\ u = row.user /\ f = m.pats /\ t = p.pats
        /\ f2 = [f EXCEPT ![k] = row] /\ t2 = t \cup {row}
        /\ m2 = [m EXCEPT !.pats = f2] /\ p2 = [p EXCEPT !.pats = t2]
  BY Zenon
<1>2. k \in Pat /\ u \in User /\ SamePATs(f, t) /\ Entries(f) \subseteq dr
  BY <1>1 DEF Twins, PATRow
<1>3. f[k] = Nil
  BY <1>1, <1>2, PATEntries, SMTT(60)
<1>4. Pg!Has(p.users, "id", u) /\ ~Pg!Has(t, "pat", k)
  <2>1. Pg!Has(p.users, "id", u)
    BY <1>1, <1>2, UserHas DEF Twins
  <2> QED
    BY <1>2, <1>3, <2>1, PATHas
<1>5. SamePATs(f2, t2)
  BY <1>1, <1>2, <1>3, PATAdd
<1>6. Entries(f2) \subseteq more /\ dr \subseteq more
  BY <1>1, <1>2 DEF Entries
<1>7. Twins(m2, p2, now, more)
  BY <1>1, <1>5, <1>6, PATsAlike, Zenon
<1>8. a = Mem!Done(m2)
  BY <1>1, <1>3 DEF Mem!savePATLocked
<1>9. b = Pg!Done(p2)
  BY <1>1, <1>4, Zenon DEF Pg!InsertPAT, Pg!UniqueViolation, Pg!ForeignKeyViolation
<1>10. Alike(a, b, now, more)
  BY <1>7, <1>8, <1>9, DoneAlike, Zenon
<1> QED
  BY <1>9, <1>10 DEF Pg!Done, AlikeDone

LEMMA SavePATAlike ==
  ASSUME NEW m, NEW p, NEW now, NEW dr, Twins(m, p, now, dr), NEW row \in PATRow, row.pat \notin dr,
         NEW a, a = Mem!SavePAT(m, row), NEW b, b = Pg!SavePAT(p, row)
  PROVE  Alike(a, b, now, dr \cup {row.pat})
<1>1. PICK k, u, more : k = row.pat /\ u = row.user /\ more = dr \cup {k}
  BY Zenon
<1>2. k \in Pat /\ u \in User
  BY <1>1, SMTT(60) DEF PATRow
<1>3. /\ Pg!Has(p.users, "id", u) <=> m.users[u] # Nil
      /\ Pg!Has(p.pats, "pat", k) <=> m.pats[k] # Nil
      /\ m.pats[k] = Nil
  <2>1. SamePATs(m.pats, p.pats) /\ Entries(m.pats) \subseteq dr
    BY Zenon DEF Twins
  <2>2. m.pats[k] = Nil
    BY <1>1, <1>2, <2>1, PATEntries
  <2> QED
    BY <1>2, <2>1, <2>2, UserHas, PATHas DEF Twins
<1>4. CASE m.users[u] = Nil
  <2>1. a = Mem!Fail(m, "UserNotFound") /\ b = Pg!Fail(p, "UserNotFound")
    BY <1>1, <1>3, <1>4, Zenon DEF Mem!SavePAT, Mem!requireUser, Pg!SavePAT, Pg!InsertPAT,
       Pg!UniqueViolation, Pg!ForeignKeyViolation
  <2> QED
    BY <1>1, <2>1, FailAlike, TwinsDrawn, Zenon
<1>5. CASE m.users[u] # Nil
  <2>1. a = Mem!savePATLocked(m, row) /\ b = Pg!InsertPAT(p, row)
    BY <1>1, <1>5, Zenon DEF Mem!SavePAT, Mem!requireUser, Pg!SavePAT
  <2> QED
    <3>1. m.users[row.user] # Nil
      BY <1>1, <1>5, Zenon
    <3>2. more = dr \cup {row.pat}
      BY <1>1, Zenon
    <3>3. AlikeDone(a, b, now, more)
      BY <2>1, <3>1, <3>2, InsertAlike, Zenon
    <3> QED
      BY <3>2, <3>3, Zenon DEF AlikeDone
<1> QED
  BY <1>4, <1>5, Zenon

\* The stores after a call that changes the challenges only.
LEMMA ChallengesAlike ==
  ASSUME NEW m, NEW p, NEW now, NEW dr, Twins(m, p, now, dr),
         NEW f, NEW t, SameChallenges(f, t, now), NEW more, dr \subseteq more,
         Entries(f) \subseteq more, \A r \in t : r.nonce \in more,
         NEW m2, m2 = [m EXCEPT !.challenges = f], NEW p2, p2 = [p EXCEPT !.challenges = t]
  PROVE  Twins(m2, p2, now, more)
<1>1. /\ DOMAIN m2 = DOMAIN m /\ DOMAIN p2 = DOMAIN p /\ m2.challenges = f /\ p2.challenges = t
      /\ m2.users = m.users /\ m2.usersByEmail = m.usersByEmail /\ m2.passwords = m.passwords
      /\ m2.oauth = m.oauth /\ m2.wallets = m.wallets /\ m2.pats = m.pats
      /\ p2.users = p.users /\ p2.credentials = p.credentials
      /\ p2.oauth = p.oauth /\ p2.wallets = p.wallets /\ p2.pats = p.pats
  BY DEF Twins
<1> QED
  BY <1>1, Zenon DEF Twins

LEMMA SaveChallengeAlike ==
  ASSUME NEW m, NEW p, NEW now, NEW dr, Twins(m, p, now, dr), NEW row \in ChallengeRow,
         row.nonce \notin dr,
         NEW a, a = Mem!SaveChallenge(m, row, now), NEW b, b = Pg!SaveChallenge(p, row, now)
  PROVE  Alike(a, b, now, dr \cup {row.nonce})
<1>1. PICK n, f, t, f2, t2, m2, p2, more :
        /\ n = row.nonce /\ f = m.challenges /\ t = p.challenges
        /\ f2 = Swept(f, row, now) /\ t2 = SweptRows(t, now) \cup {row}
        /\ m2 = [m EXCEPT !.challenges = f2] /\ p2 = [p EXCEPT !.challenges = t2]
        /\ more = dr \cup {n}
  BY Zenon
<1>2. /\ n \in Nonce /\ SameChallenges(f, t, now) /\ Entries(f) \subseteq dr
      /\ \A r \in t : r.nonce \in dr
  BY <1>1 DEF Twins, ChallengeRow
<1>3. f[n] = Nil /\ \A r \in t : r.nonce # n
  BY <1>1, <1>2, ChallengeFacts DEF Entries
<1>4. SameChallenges(f2, t2, now) /\ Entries(f2) \subseteq Entries(f) \cup {n}
  BY <1>1, <1>2, <1>3, ChallengeAdd
<1>5. /\ dr \subseteq more /\ Entries(f2) \subseteq more
      /\ \A r \in t2 : r.nonce \in more
  BY <1>1, <1>2, <1>4 DEF SweptRows
<1>6. Twins(m2, p2, now, more)
  BY <1>1, <1>4, <1>5, ChallengesAlike, SMTT(60)
<1>7. a = Mem!Done(m2)
  BY <1>1 DEF Mem!SaveChallenge, Swept, Mem!Expired, Expired
<1>8. PICK s2, swept : swept = SweptRows(t, now) /\ s2 = [p EXCEPT !.challenges = swept]
  BY Zenon
<1>9. Pg!Sweep(p, now) = s2 /\ s2.challenges = swept /\ [s2 EXCEPT !.challenges = t2] = p2
  <2>1. Pg!Sweep(p, now) = s2
    BY <1>1, <1>8 DEF Pg!Sweep, SweptRows, Pg!Expired, Expired
  <2> QED
    BY <1>1, <1>8, <2>1, Zenon DEF Twins
<1>10. ~Pg!Has(swept, "nonce", n)
  BY <1>3, <1>8, Zenon DEF Pg!Has, SweptRows
<1>11. b = Pg!Done(p2)
  BY <1>1, <1>8, <1>9, <1>10, Zenon DEF Pg!SaveChallenge, Pg!UniqueViolation
<1> QED
  BY <1>1, <1>6, <1>7, <1>11, DoneAlike, Zenon

\* Reading finds the challenge in both stores or refuses in both, for a reason
\* the service does not tell from the other.
LEMMA GetChallengeAlike ==
  ASSUME NEW m, NEW p, NEW now, NEW dr, Twins(m, p, now, dr), NEW n \in Nonce,
         NEW a, a = Mem!GetChallenge(m, n, now), NEW b, b = Pg!GetChallenge(p, n, now)
  PROVE  Alike(a, b, now, dr)
<1>1. PICK f, t, q : /\ f = m.challenges /\ t = p.challenges
                     /\ q = Pg!QueryRow(t, "nonce", n)
  BY Zenon
<1>2. /\ SameChallenges(f, t, now) /\ Entries(f) \subseteq dr
      /\ \A r \in t : r.nonce \in dr
  BY <1>1, Zenon DEF Twins
<1>3. /\ f[n] # Nil /\ ~Expired(f[n], now) => Pg!Has(t, "nonce", n) /\ q = f[n]
      /\ Pg!Has(t, "nonce", n) /\ ~Expired(q, now) => f[n] = q /\ f[n] # Nil
  BY <1>1, <1>2, ChallengeHas
<1>4. \A r : (Mem!Expired(r, now) <=> Expired(r, now)) /\ (Pg!Expired(r, now) <=> Expired(r, now))
  BY Zenon DEF Mem!Expired, Pg!Expired, Expired
<1>5. CASE f[n] # Nil /\ ~Expired(f[n], now)
  <2>1. a = Mem!Found(m, f[n]) /\ b = Pg!Found(p, f[n])
    BY <1>1, <1>3, <1>4, <1>5, Zenon DEF Mem!GetChallenge, Pg!GetChallenge
  <2> QED
    BY <2>1, FoundAlike, Zenon
<1>6. CASE ~(f[n] # Nil /\ ~Expired(f[n], now))
  <2>1. PICK f2, m2 : f2 = [f EXCEPT ![n] = Nil] /\ m2 = [m EXCEPT !.challenges = f2]
    BY Zenon
  <2>2. \/ a = Mem!Fail(m, "ChallengeNotFound")
        \/ a = Mem!Fail(m2, "ChallengeExpired") /\ Expired(f[n], now)
    BY <1>1, <1>4, <1>6, <2>1 DEF Mem!GetChallenge
  <2>3. \/ b = Pg!Fail(p, "ChallengeNotFound")
        \/ b = Pg!Fail(p, "ChallengeExpired")
    BY <1>1, <1>3, <1>4, <1>6, Zenon DEF Pg!GetChallenge
  <2>4. b.store = p /\ b.val = Nil /\ Read(b.err) = "ChallengeInvalid"
    BY <2>3 DEF Pg!Fail, Read
  <2>5. a.val = Nil /\ Read(a.err) = "ChallengeInvalid" /\ a.store \in {m, m2}
    BY <2>2 DEF Mem!Fail, Read
  <2>6. a.store = m \/ (a.store = m2 /\ Expired(f[n], now))
    BY <2>2 DEF Mem!Fail
  <2>7. ASSUME Expired(f[n], now) PROVE Twins(m2, p, now, dr)
    <3>1. SameChallenges(f2, t, now) /\ Entries(f2) \subseteq dr
      BY <1>2, <2>1, <2>7, ChallengeForget, Zenon
    <3>2. /\ DOMAIN m2 = DOMAIN m /\ m2.challenges = f2
          /\ m2.users = m.users /\ m2.usersByEmail = m.usersByEmail /\ m2.passwords = m.passwords
          /\ m2.oauth = m.oauth /\ m2.wallets = m.wallets /\ m2.pats = m.pats
      BY <2>1 DEF Twins
    <3> QED
      BY <1>1, <3>1, <3>2, Zenon DEF Twins
  <2> QED
    BY <2>4, <2>5, <2>6, <2>7, Zenon DEF Alike
<1> QED
  BY <1>5, <1>6, Zenon

\* A delete of a challenge that memory has, or that neither store has.
LEMMA DeleteChallengeAlike ==
  ASSUME NEW m, NEW p, NEW now, NEW dr, Twins(m, p, now, dr), NEW n \in Nonce,
         m.challenges[n] # Nil \/ ~Pg!Has(p.challenges, "nonce", n),
         NEW a, a = Mem!DeleteChallenge(m, n), NEW b, b = Pg!DeleteChallenge(p, n)
  PROVE  Alike(a, b, now, dr)
<1>1. PICK f, t : f = m.challenges /\ t = p.challenges
  BY Zenon
<1>2. /\ SameChallenges(f, t, now) /\ Entries(f) \subseteq dr
      /\ \A r \in t : r.nonce \in dr
  BY <1>1, Zenon DEF Twins
<1>3. f[n] # Nil => Pg!Has(t, "nonce", n)
  <2>1. f[n] # Nil => n \in Entries(f)
    BY <1>2, ChallengeFacts DEF Entries
  <2> QED
    BY <1>2, <2>1, Zenon DEF SameChallenges, Pg!Has
<1>4. CASE f[n] = Nil
  <2>1. a = Mem!Fail(m, "ChallengeNotFound") /\ b = Pg!Fail(p, "ChallengeNotFound")
    BY <1>1, <1>4, Zenon DEF Mem!DeleteChallenge, Pg!DeleteChallenge
  <2> QED
    BY <2>1, FailAlike, Zenon
<1>5. CASE f[n] # Nil
  <2>1. PICK f2, t2, m2, p2 :
          /\ f2 = [f EXCEPT ![n] = Nil] /\ t2 = ButNonce(t, n)
          /\ m2 = [m EXCEPT !.challenges = f2] /\ p2 = [p EXCEPT !.challenges = t2]
    BY Zenon
  <2>2. SameChallenges(f2, t2, now) /\ Entries(f2) \subseteq Entries(f)
    BY <1>2, <2>1, ChallengeDrop, Zenon
  <2>3. Entries(f2) \subseteq dr /\ \A r \in t2 : r.nonce \in dr
    BY <1>2, <2>1, <2>2, Zenon DEF ButNonce
  <2>4. Twins(m2, p2, now, dr)
    BY <2>1, <2>2, <2>3, ChallengesAlike, Zenon
  <2>5. a = Mem!Done(m2)
    BY <1>1, <1>5, <2>1 DEF Mem!DeleteChallenge
  <2>6. b = Pg!Done(p2)
    BY <1>1, <1>3, <1>5, <2>1, Zenon DEF Pg!DeleteChallenge, ButNonce
  <2> QED
    BY <2>4, <2>5, <2>6, DoneAlike, Zenon
<1> QED
  BY <1>4, <1>5, Zenon

\* A delete of a challenge that only the table has: it has expired, and the stores
\* hold the same afterwards.
LEMMA DeleteForgotten ==
  ASSUME NEW m, NEW p, NEW now, NEW dr, Twins(m, p, now, dr), NEW n \in Nonce,
         m.challenges[n] = Nil, Pg!Has(p.challenges, "nonce", n),
         NEW a, a = Mem!DeleteChallenge(m, n), NEW b, b = Pg!DeleteChallenge(p, n)
  PROVE  /\ Twins(a.store, b.store, now, dr)
         /\ \E r \in p.challenges : r.nonce = n /\ Expired(r, now)
<1>1. PICK f, t, t2, p2 : /\ f = m.challenges /\ t = p.challenges /\ t2 = ButNonce(t, n)
                          /\ p2 = [p EXCEPT !.challenges = t2]
  BY Zenon
<1>2. /\ SameChallenges(f, t, now) /\ Entries(f) \subseteq dr
      /\ \A r \in t : r.nonce \in dr
  BY <1>1, Zenon DEF Twins
<1>3. f = [f EXCEPT ![n] = Nil]
  BY <1>1, <1>2, ChallengeFacts
<1>4. SameChallenges(f, t2, now)
  BY <1>1, <1>2, <1>3, ChallengeDrop, Zenon
<1>5. /\ DOMAIN p2 = DOMAIN p /\ p2.challenges = t2 /\ p2.users = p.users /\ p2.oauth = p.oauth
      /\ p2.credentials = p.credentials /\ p2.wallets = p.wallets /\ p2.pats = p.pats
  BY <1>1 DEF Twins
<1>6. \A r \in t2 : r.nonce \in dr
  BY <1>1, <1>2, Zenon DEF ButNonce
<1>7. Twins(m, p2, now, dr)
  BY <1>1, <1>4, <1>5, <1>6, Zenon DEF Twins
<1>8. a = Mem!Fail(m, "ChallengeNotFound") /\ b = Pg!Done(p2)
  BY <1>1, Zenon DEF Mem!DeleteChallenge, Pg!DeleteChallenge, ButNonce
<1>9. a.store = m /\ b.store = p2
  BY <1>8 DEF Mem!Fail, Pg!Done
<1>10. PICK r \in t : r.nonce = n
  BY <1>1, Zenon DEF Pg!Has
<1>11. r \in ChallengeRow /\ r # Nil
  BY <1>2, <1>10, ChallengeFacts
<1>12. Expired(r, now)
  BY <1>1, <1>2, <1>10, <1>11, Zenon DEF SameChallenges
<1> QED
  BY <1>1, <1>7, <1>9, <1>10, <1>12, Zenon

-----------------------------------------------------------------------------
(* The invariant *)

\* What StoresAgree says of a step.
Excused == differ' # Nil => LinksTakenForMissing(differ') \/ DeletesExpired(differ')

LEMMA CallOnKeeps ==
  ASSUME PInv, NEW call, NEW a, NEW b, Alike(a, b, clock, drawn), CallOn(call, a, b)
  PROVE  PInv' /\ differ' = Nil
<1>1. mem' = a.store /\ pg' = b.store /\ clock' = clock /\ drawn' = drawn /\ differ' = Nil
  BY Zenon DEF CallOn, Call, Alike
<1> QED
  BY <1>1, Zenon DEF PInv, Alike

LEMMA CallWithKeeps ==
  ASSUME PInv, NEW x, NEW call, NEW a, NEW b, Alike(a, b, clock, drawn \cup {x}),
         CallWith(x, call, a, b)
  PROVE  PInv' /\ differ' = Nil
<1>1. /\ mem' = a.store /\ pg' = b.store /\ clock' = clock /\ drawn' = drawn \cup {x}
      /\ differ' = Nil
  BY Zenon DEF CallWith, Call, Alike
<1> QED
  BY <1>1, Zenon DEF PInv, Alike

\* A call that leaves the stores the same, however it was answered.
LEMMA CallOnTwins ==
  ASSUME PInv, NEW call, NEW a, NEW b, Twins(a.store, b.store, clock, drawn), CallOn(call, a, b)
  PROVE  PInv' /\ differ' \in {Nil, call}
<1>1. /\ mem' = a.store /\ pg' = b.store /\ clock' = clock /\ drawn' = drawn
      /\ differ' \in {Nil, call}
  BY Zenon DEF CallOn, Call
<1> QED
  BY <1>1, Zenon DEF PInv

LEMMA ParityUserStep ==
  ASSUME PInv, NEW u \in User, NEW e \in Email \cup {NoEmail},
         CreateUser(u, e) \/ LookUpUser(u, e)
  PROVE  PInv' /\ differ' = Nil
<1>1. Twins(mem, pg, clock, drawn)
  BY Zenon DEF PInv
<1>2. CASE CreateUser(u, e)
  <2>1. u \notin drawn
    BY <1>2, Zenon DEF CreateUser, CallWith
  <2>2. Alike(Mem!Create(mem, u, e), Pg!Create(pg, u, e), clock, drawn \cup {u})
    BY <1>1, <2>1, CreateAlike
  <2> QED
    BY <1>2, <2>2, CallWithKeeps, Zenon DEF CreateUser
<1>3. CASE LookUpUser(u, e)
  <2>1. Alike(Mem!GetByID(mem, u), Pg!GetByID(pg, u), clock, drawn)
    BY <1>1, GetByIDAlike
  <2>2. Alike(Mem!GetByEmail(mem, e), Pg!GetByEmail(pg, e), clock, drawn)
    BY <1>1, GetByEmailAlike, SMTT(60)
  <2>3. Alike(Mem!GetPasswordHash(mem, u), Pg!GetPasswordHash(pg, u), clock, drawn)
    BY <1>1, GetPasswordAlike
  <2> QED
    BY <1>3, <2>1, <2>2, <2>3, CallOnKeeps, Zenon DEF LookUpUser
<1> QED
  BY <1>2, <1>3, Zenon

LEMMA ParityAccountStep ==
  ASSUME PInv, NEW a \in Account, NEW u \in User, LinkAccount(a, u)
  PROVE  PInv' /\ Excused
<1>1. PICK m, p, call : /\ m = Mem!SaveOAuthIdentity(mem, a, u, clock)
                        /\ p = Pg!SaveOAuthIdentity(pg, a, u, clock)
                        /\ call = <<"SaveOAuthIdentity", a, u>>
  BY Zenon
<1>2. CallOn(call, m, p)
  BY <1>1, Zenon DEF LinkAccount
<1>3. Twins(mem, pg, clock, drawn) /\ clock \in Int
  BY Zenon DEF PInv
<1>4. CASE mem.users[u] # Nil \/ mem.oauth[a] = Nil
  <2>1. Alike(m, p, clock, drawn)
    BY <1>1, <1>3, <1>4, SaveOAuthAlike, SMTT(60)
  <2> QED
    BY <1>2, <2>1, CallOnKeeps, Zenon DEF Excused
<1>5. CASE mem.users[u] = Nil /\ mem.oauth[a] # Nil
  <2>1. m.store = mem /\ p.store = pg
    BY <1>1, <1>3, <1>5, SaveOAuthTaken, SMTT(60)
  <2>2. PInv' /\ differ' \in {Nil, call}
    BY <1>2, <1>3, <2>1, CallOnTwins, Zenon
  <2>3. u \notin Entries(mem.users) /\ a \in Entries(mem.oauth)
    BY <1>3, <1>5 DEF Entries, Twins, SameOAuth
  <2>4. LinksTakenForMissing(call)
    BY <1>1, <2>3, Zenon DEF LinksTakenForMissing
  <2> QED
    BY <2>2, <2>4, Zenon DEF Excused
<1> QED
  BY <1>4, <1>5, Zenon

LEMMA ParityWalletStep ==
  ASSUME PInv, NEW w \in Wallet, NEW u \in User, LinkWallet(w, u)
  PROVE  PInv' /\ Excused
<1>1. PICK m, p, call : /\ m = Mem!SaveWalletIdentity(mem, w, u, clock)
                        /\ p = Pg!SaveWalletIdentity(pg, w, u, clock)
                        /\ call = <<"SaveWalletIdentity", w, u>>
  BY Zenon
<1>2. CallOn(call, m, p)
  BY <1>1, Zenon DEF LinkWallet
<1>3. Twins(mem, pg, clock, drawn) /\ clock \in Int
  BY Zenon DEF PInv
<1>4. CASE mem.users[u] # Nil \/ mem.wallets[w] = Nil
  <2>1. Alike(m, p, clock, drawn)
    BY <1>1, <1>3, <1>4, SaveWalletAlike, SMTT(60)
  <2> QED
    BY <1>2, <2>1, CallOnKeeps, Zenon DEF Excused
<1>5. CASE mem.users[u] = Nil /\ mem.wallets[w] # Nil
  <2>1. m.store = mem /\ p.store = pg
    BY <1>1, <1>3, <1>5, SaveWalletTaken, SMTT(60)
  <2>2. PInv' /\ differ' \in {Nil, call}
    BY <1>2, <1>3, <2>1, CallOnTwins, Zenon
  <2>3. u \notin Entries(mem.users) /\ w \in Entries(mem.wallets)
    BY <1>3, <1>5 DEF Entries, Twins, SameWallets
  <2>4. LinksTakenForMissing(call)
    BY <1>1, <2>3, Zenon DEF LinksTakenForMissing
  <2> QED
    BY <2>2, <2>4, Zenon DEF Excused
<1> QED
  BY <1>4, <1>5, Zenon

LEMMA ParityLookUpStep ==
  ASSUME PInv, NEW a \in Account, NEW w \in Wallet, NEW u \in User, LookUpLinks(a, w, u)
  PROVE  PInv' /\ differ' = Nil
<1>1. Twins(mem, pg, clock, drawn)
  BY Zenon DEF PInv
<1>2. Alike(Mem!GetOAuthIdentity(mem, a), Pg!GetOAuthIdentity(pg, a), clock, drawn)
  BY <1>1, GetOAuthAlike
<1>3. Alike(Mem!ListOAuthIdentities(mem, u), Pg!ListOAuthIdentities(pg, u), clock, drawn)
  BY <1>1, ListOAuthAlike
<1>4. Alike(Mem!GetWalletIdentity(mem, w), Pg!GetWalletIdentity(pg, w), clock, drawn)
  BY <1>1, GetWalletAlike
<1>5. Alike(Mem!ListWalletIdentities(mem, u), Pg!ListWalletIdentities(pg, u), clock, drawn)
  BY <1>1, ListWalletAlike
<1> QED
  BY <1>2, <1>3, <1>4, <1>5, CallOnKeeps, Zenon DEF LookUpLinks

LEMMA ParityUsePATStep ==
  ASSUME PInv, NEW p \in Pat, NEW u \in User, UsePAT(p, u)
  PROVE  PInv' /\ differ' = Nil
<1>1. Twins(mem, pg, clock, drawn) /\ clock \in Int
  BY Zenon DEF PInv
<1>2. Alike(Mem!GetPAT(mem, p), Pg!GetPAT(pg, p), clock, drawn)
  BY <1>1, GetPATAlike
<1>3. Alike(Mem!ListPATs(mem, u), Pg!ListPATs(pg, u), clock, drawn)
  BY <1>1, ListPATsAlike
<1>4. Alike(Mem!DeletePAT(mem, u, p), Pg!DeletePAT(pg, u, p), clock, drawn)
  BY <1>1, DeletePATAlike
<1>5. Alike(Mem!TouchPAT(mem, p, clock), Pg!TouchPAT(pg, p, clock), clock, drawn)
  BY <1>1, TouchPATAlike
<1> QED
  BY <1>2, <1>3, <1>4, <1>5, CallOnKeeps, Zenon DEF UsePAT

LEMMA ParityIssueStep ==
  ASSUME PInv, NEW n \in Nonce, NEW x \in Expiries \ {Nil}, IssueChallenge(n, x)
  PROVE  PInv' /\ differ' = Nil
<1>1. Twins(mem, pg, clock, drawn) /\ clock \in Int
  BY Zenon DEF PInv
<1>2. PICK row : row = [nonce |-> n, expires |-> x]
  BY Zenon
<1>3. row \in ChallengeRow /\ row.nonce = n
  BY <1>1, <1>2, ParityAssumption DEF ChallengeRow, Expiries
<1>4. n \notin drawn
  BY Zenon DEF IssueChallenge, CallWith
<1>5. Alike(Mem!SaveChallenge(mem, row, clock), Pg!SaveChallenge(pg, row, clock),
            clock, drawn \cup {n})
  BY <1>1, <1>3, <1>4, SaveChallengeAlike
<1> QED
  BY <1>2, <1>5, CallWithKeeps, Zenon DEF IssueChallenge

LEMMA ParityChallengeStep ==
  ASSUME PInv, NEW n \in Nonce, ReadChallenge(n) \/ ConsumeChallenge(n)
  PROVE  PInv' /\ Excused
<1>1. Twins(mem, pg, clock, drawn)
  BY Zenon DEF PInv
<1>2. CASE ReadChallenge(n)
  <2>1. Alike(Mem!GetChallenge(mem, n, clock), Pg!GetChallenge(pg, n, clock), clock, drawn)
    BY <1>1, GetChallengeAlike
  <2> QED
    BY <1>2, <2>1, CallOnKeeps, Zenon DEF ReadChallenge, Excused
<1>3. CASE ConsumeChallenge(n)
  <2>1. PICK m, p, call : /\ m = Mem!DeleteChallenge(mem, n) /\ p = Pg!DeleteChallenge(pg, n)
                          /\ call = <<"DeleteChallenge", n>>
    BY Zenon
  <2>2. CallOn(call, m, p)
    BY <1>3, <2>1, Zenon DEF ConsumeChallenge
  <2>3. CASE mem.challenges[n] # Nil \/ ~Pg!Has(pg.challenges, "nonce", n)
    <3>1. Alike(m, p, clock, drawn)
      BY <1>1, <2>1, <2>3, DeleteChallengeAlike, Zenon
    <3> QED
      BY <2>2, <3>1, CallOnKeeps, Zenon DEF Excused
  <2>4. CASE mem.challenges[n] = Nil /\ Pg!Has(pg.challenges, "nonce", n)
    <3>1. /\ Twins(m.store, p.store, clock, drawn)
          /\ \E r \in pg.challenges : r.nonce = n /\ Expired(r, clock)
      BY <1>1, <2>1, <2>4, DeleteForgotten
    <3>2. PInv' /\ differ' \in {Nil, call}
      BY <2>2, <3>1, CallOnTwins, Zenon
    <3>3. DeletesExpired(call)
      BY <2>1, <2>4, <3>1, Zenon DEF DeletesExpired
    <3> QED
      BY <3>2, <3>3, Zenon DEF Excused
  <2> QED
    BY <2>3, <2>4, Zenon
<1> QED
  BY <1>2, <1>3, Zenon

LEMMA ParityTickStep ==
  ASSUME PInv, Tick
  PROVE  PInv' /\ differ' = Nil
<1>1. /\ clock' \in Int /\ clock <= clock' /\ clock \in Int /\ differ' = Nil
      /\ mem' = mem /\ pg' = pg /\ drawn' = drawn
  BY DEF Tick, PInv
<1>2. SameChallenges(mem.challenges, pg.challenges, clock)
  BY Zenon DEF PInv, Twins
<1>3. SameChallenges(mem.challenges, pg.challenges, clock')
  BY <1>1, <1>2, ChallengeAge
<1>4. Twins(mem, pg, clock', drawn)
  BY <1>3, Zenon DEF PInv, Twins
<1> QED
  BY <1>1, <1>4, Zenon DEF PInv

LEMMA ParityStart == Init => PInv
<1> SUFFICES ASSUME Init PROVE PInv
  OBVIOUS
<1>1. /\ mem = Mem!New /\ pg = Pg!Tables /\ clock \in Int
  BY DEF Init
<1>2. /\ Entries(mem.users) = {} /\ Entries(mem.passwords) = {} /\ Entries(mem.pats) = {}
      /\ Entries(mem.oauth) = {} /\ Entries(mem.wallets) = {} /\ Entries(mem.challenges) = {}
      /\ \A u \in User : mem.users[u] = Nil
      /\ \A e \in Email : mem.usersByEmail[e] = Nil
      /\ \A n \in Nonce : mem.challenges[n] = Nil
  BY <1>1 DEF Mem!New, Entries
<1>3. /\ mem.users \in [User -> Email \cup {NoEmail, Nil}]
      /\ mem.usersByEmail \in [Email -> User \cup {Nil}]
      /\ mem.passwords \in [User -> Secret \cup {Nil}]
      /\ mem.pats \in [Pat -> PATRow \cup {Nil}]
      /\ mem.oauth \in [Account -> Link \cup {Nil}]
      /\ mem.wallets \in [Wallet -> Link \cup {Nil}]
      /\ mem.challenges \in [Nonce -> ChallengeRow \cup {Nil}]
  BY <1>1, SMTT(60) DEF Mem!New
<1>4. /\ pg.users = {} /\ pg.credentials = {} /\ pg.pats = {} /\ pg.oauth = {}
      /\ pg.wallets = {} /\ pg.challenges = {}
      /\ DOMAIN pg = {"users", "credentials", "pats", "oauth", "wallets", "challenges"}
      /\ DOMAIN mem = {"users", "usersByEmail", "passwords", "pats", "oauth", "wallets",
                       "challenges"}
  BY <1>1 DEF Pg!Tables, Mem!New
<1>5. \A D, g, t, key : D = {} /\ t = {} => Mirror(D, g, t, key)
  BY Zenon DEF Mirror
<1>6. SameUsers(mem.users, mem.usersByEmail, pg.users)
  <2>1. \A u \in User, e \in Email : mem.usersByEmail[e] = u <=> mem.users[u] = e
    BY <1>2, StoresAssumption
  <2> QED
    BY <1>2, <1>3, <1>4, <1>5, <2>1, Zenon DEF SameUsers
<1>7. SamePATs(mem.pats, pg.pats)
  BY <1>2, <1>3, <1>4, <1>5, FiniteEmpty, Zenon DEF SamePATs
<1>8. SameChallenges(mem.challenges, pg.challenges, clock)
  <2>1. \A r \in ChallengeRow : r.nonce \in Nonce /\ r # Nil
    BY NilIsNoEntry DEF ChallengeRow
  <2> QED
    BY <1>2, <1>3, <1>4, <2>1, Zenon DEF SameChallenges
<1>9. /\ SameCreds(mem.passwords, pg.credentials) /\ SameOAuth(mem.oauth, pg.oauth)
      /\ SameWallets(mem.wallets, pg.wallets)
  BY <1>2, <1>3, <1>4, <1>5, Zenon DEF SameCreds, SameOAuth, SameWallets
<1>10. Twins(mem, pg, clock, drawn)
  BY <1>2, <1>4, <1>6, <1>7, <1>8, <1>9, Zenon DEF Twins
<1> QED
  BY <1>1, <1>10, Zenon DEF PInv

-----------------------------------------------------------------------------
(* Counting the tokens of a user *)

LEMMA TokensListed ==
  ASSUME NEW f, NEW t, SamePATs(f, t), NEW u, NEW S, S = TokensOf(f, u)
  PROVE  \E q \in Seq(S) : \A s \in S : \E n \in 1..Len(q) : q[n] = s
<1>1. S \subseteq Entries(f)
  BY PATEntries DEF TokensOf
<1>2. IsFiniteSet(S)
  BY <1>1, FiniteSubset, Zenon DEF SamePATs
<1> QED
  BY <1>2, Zenon DEF IsFiniteSet

LOCAL INSTANCE FiniteSetTheorems

LEMMA PATCount ==
  ASSUME NEW f, NEW t, SamePATs(f, t), NEW u,
         NEW S, S = TokensOf(f, u), NEW T, T = RowsOf(t, u)
  PROVE  Mem!Cardinality(S) = Pg!Cardinality(T)
<1>1. IsFiniteSet(S)
  BY TokensListed DEF IsFiniteSet
<1>2. PICK g : g = [p \in S |-> f[p]]
  BY Zenon
<1>3. /\ \A p \in S : f[p] \in T /\ f[p].pat = p
      /\ \A r \in T : r.pat \in S /\ f[r.pat] = r
  BY PATEntries DEF TokensOf, RowsOf
<1>4. g \in Bijection(S, T)
  <2>1. g \in [S -> T]
    BY <1>2, <1>3, SMTT(60)
  <2>2. \A p, q \in S : g[p] = g[q] => p = q
    BY <1>2, <1>3, SMTT(60)
  <2>3. \A r \in T : \E p \in S : g[p] = r
    BY <1>2, <1>3, SMTT(60)
  <2> QED
    BY <2>1, <2>2, <2>3, Zenon DEF Bijection, Injection, Surjection, IsInjective
<1>5. Cardinality(S) = Cardinality(T)
  BY <1>1, <1>4, FS_Bijection, Zenon DEF ExistsBijection
<1>6. Mem!Cardinality(S) = Cardinality(S)
  BY DEF Mem!Cardinality, Cardinality
<1>7. Pg!Cardinality(T) = Cardinality(T)
  BY DEF Pg!Cardinality, Cardinality
<1> QED
  BY <1>5, <1>6, <1>7, Zenon

\* The rows of the tables without the expired tokens of u.
PrunedRows(t, u, now) == {r \in t : ~(r.user = u /\ Expired(r, now))}

LEMMA SavePATLimitedAlike ==
  ASSUME NEW m, NEW p, NEW now, NEW dr, Twins(m, p, now, dr), NEW row \in PATRow, row.pat \notin dr,
         NEW a, a = Mem!SavePATLimited(m, row, Limit, now),
         NEW b, b = Pg!SavePATLimited(p, row, Limit, now)
  PROVE  Alike(a, b, now, dr \cup {row.pat})
<1>1. PICK k, u, more, f, t, S : /\ k = row.pat /\ u = row.user /\ more = dr \cup {k}
                                 /\ f = m.pats /\ t = p.pats
                                 /\ S = {q \in TokensOf(f, u) : Expired(f[q], now)}
  BY Zenon
<1>2. k \in Pat /\ u \in User
  BY <1>1 DEF PATRow
<1>3. SamePATs(f, t) /\ Entries(f) \subseteq dr
  BY <1>1, ZenonT(60) DEF Twins
<1>4. Pg!Has(p.users, "id", u) <=> m.users[u] # Nil
  BY <1>2, UserHas, ZenonT(60) DEF Twins
<1>5. PICK f2, t2, m2, p2, s2 :
        /\ f2 = Forgets(f, S) /\ t2 = PrunedRows(t, u, now)
        /\ m2 = [m EXCEPT !.pats = f2] /\ p2 = [p EXCEPT !.pats = t2]
        /\ s2 = Pg!InsertPAT(p2, row)
  BY Zenon
<1>6. m2 = Mem!Prune(m, u, now)
  BY <1>1, <1>5, SMTT(60) DEF Mem!Prune, Mem!PatsOf, Mem!Expired, Expired, Forgets, TokensOf
<1>7. SamePATs(f2, t2)
  <2>1. t2 \subseteq t /\ \A r \in t : r \in t2 <=> r.pat \notin S
    BY <1>1, <1>3, <1>5, PATEntries, SMTT(60) DEF PrunedRows, TokensOf
  <2> QED
    BY <1>3, <1>5, <2>1, PATDrop, SMTT(60)
<1>8. Entries(f2) \subseteq dr
  BY <1>3, <1>5, PATEntries, SMTT(60) DEF Entries, Forgets
<1>9. Twins(m2, p2, now, dr)
  BY <1>5, <1>7, <1>8, PATsAlike, SMTT(60)
<1>10. m2.pats = f2 /\ m2.users = m.users /\ p2.pats = t2
  BY <1>5 DEF Twins
<1>11. PICK A, B : A = TokensOf(f2, u) /\ B = RowsOf(t2, u)
  BY ZenonT(60)
<1>12. Mem!Cardinality(A) = Pg!Cardinality(B)
  BY <1>7, <1>11, PATCount, SMTT(60)
<1>13. A = Mem!PatsOf(m2, u) /\ B = {r \in p2.pats : r.user = u}
  BY <1>10, <1>11, Zenon DEF Mem!PatsOf, TokensOf, RowsOf
<1>14. p2 = [p EXCEPT !.pats = {r \in p.pats : ~(r.user = row.user /\ Pg!Expired(r, now))}]
  BY <1>1, <1>5, SMTT(60) DEF PrunedRows, Pg!Expired, Expired
<1>15. CASE m.users[u] = Nil
  <2>1. a = Mem!Fail(m, "UserNotFound")
    BY <1>1, <1>15, Zenon DEF Mem!SavePATLimited, Mem!requireUser
  <2>2. b = Pg!Fail(p, "UserNotFound")
    BY <1>1, <1>4, <1>15, Zenon DEF Pg!SavePATLimited, Pg!ForeignKeyViolation
  <2> QED
    BY <1>1, <2>1, <2>2, FailAlike, TwinsDrawn, Zenon
<1>16. CASE m.users[u] # Nil /\ Mem!Cardinality(A) >= Limit
  <2>1. a = Mem!Fail(m2, "PATLimitReached")
    BY <1>1, <1>6, <1>13, <1>16, Zenon DEF Mem!SavePATLimited, Mem!requireUser
  <2>2. b = Pg!Fail(p2, "PATLimitReached")
    BY <1>1, <1>4, <1>12, <1>13, <1>14, <1>16, Zenon
       DEF Pg!SavePATLimited, Pg!ForeignKeyViolation
  <2> QED
    BY <1>1, <1>9, <2>1, <2>2, FailAlike, TwinsDrawn, Zenon
<1>17. CASE m.users[u] # Nil /\ ~(Mem!Cardinality(A) >= Limit)
  <2>1. a = Mem!savePATLocked(m2, row)
    BY <1>1, <1>6, <1>13, <1>17, Zenon DEF Mem!SavePATLimited, Mem!requireUser
  <2>2. m2.users[row.user] # Nil
    BY <1>1, <1>10, <1>17, Zenon
  <2>3. AlikeDone(a, s2, now, more)
    BY <1>1, <1>5, <1>9, <2>1, <2>2, InsertAlike, Zenon
  <2>4. ~(Pg!Cardinality({r \in p2.pats : r.user = row.user}) >= Limit)
    BY <1>1, <1>12, <1>13, <1>17, Zenon
  <2>5. ~Pg!ForeignKeyViolation(p, row.user)
    BY <1>1, <1>4, <1>17, Zenon DEF Pg!ForeignKeyViolation
  <2>6. b = s2
    BY <1>5, <1>14, <2>3, <2>4, <2>5, Zenon DEF Pg!SavePATLimited, AlikeDone
  <2> QED
    BY <1>1, <2>3, <2>6, Zenon DEF AlikeDone
<1> QED
  BY <1>15, <1>16, <1>17, Zenon

LEMMA ParityCreatePATStep ==
  ASSUME PInv, NEW p \in Pat, NEW u \in User, NEW x \in Expiries, CreatePAT(p, u, x)
  PROVE  PInv' /\ differ' = Nil
<1>1. Twins(mem, pg, clock, drawn) /\ clock \in Int
  BY Zenon DEF PInv
<1>2. PICK row : row = Row(p, u, x)
  BY Zenon
<1>3. row \in PATRow /\ row.pat = p
  BY <1>1, <1>2, ParityAssumption, SMTT(60) DEF Row, PATRow, Expiries
<1>4. p \notin drawn
  BY Zenon DEF CreatePAT, CallWith
<1>5. Alike(Mem!SavePAT(mem, row), Pg!SavePAT(pg, row), clock, drawn \cup {p})
  BY <1>1, <1>3, <1>4, SavePATAlike, SMTT(60)
<1>6. Alike(Mem!SavePATLimited(mem, row, Limit, clock), Pg!SavePATLimited(pg, row, Limit, clock),
            clock, drawn \cup {p})
  BY <1>1, <1>3, <1>4, SavePATLimitedAlike, SMTT(60)
<1> QED
  BY <1>2, <1>5, <1>6, CallWithKeeps, Zenon DEF CreatePAT

-----------------------------------------------------------------------------
(* The theorems *)

LEMMA ParityStep == PInv /\ [Next]_vars => PInv' /\ (Excused \/ UNCHANGED vars)
<1> SUFFICES ASSUME PInv, [Next]_vars PROVE PInv' /\ (Excused \/ UNCHANGED vars)
  OBVIOUS
<1>1. CASE UNCHANGED vars
  <2>1. mem' = mem /\ pg' = pg /\ drawn' = drawn /\ clock' = clock
    BY <1>1, Zenon DEF vars
  <2> QED
    BY <1>1, <2>1, Zenon DEF PInv
<1>2. ASSUME NEW u \in User, NEW e \in Email \cup {NoEmail}, CreateUser(u, e) \/ LookUpUser(u, e)
      PROVE  PInv' /\ Excused
  BY <1>2, ParityUserStep, Zenon DEF Excused
<1>3. ASSUME NEW u \in User, DeleteUser(u) PROVE PInv' /\ Excused
  <2>1. Alike(Mem!Delete(mem, u), Pg!Delete(pg, u), clock, drawn)
    BY DeleteAlike DEF PInv
  <2> QED
    BY <1>3, <2>1, CallOnKeeps, Zenon DEF DeleteUser, Excused
<1>4. ASSUME NEW u \in User, NEW h \in Secret, SavePassword(u, h) PROVE PInv' /\ Excused
  <2>1. Alike(Mem!SavePasswordHash(mem, u, h), Pg!SavePasswordHash(pg, u, h), clock, drawn)
    BY SavePasswordAlike DEF PInv
  <2> QED
    BY <1>4, <2>1, CallOnKeeps, Zenon DEF SavePassword, Excused
<1>5. ASSUME NEW a \in Account, NEW w \in Wallet, NEW u \in User, LookUpLinks(a, w, u)
      PROVE  PInv' /\ Excused
  BY <1>5, ParityLookUpStep, Zenon DEF Excused
<1>6. ASSUME NEW p \in Pat, NEW u \in User, NEW x \in Expiries, CreatePAT(p, u, x)
      PROVE  PInv' /\ Excused
  BY <1>6, ParityCreatePATStep, Zenon DEF Excused
<1>7. ASSUME NEW p \in Pat, NEW u \in User, UsePAT(p, u) PROVE PInv' /\ Excused
  BY <1>7, ParityUsePATStep, Zenon DEF Excused
<1>8. ASSUME NEW n \in Nonce, NEW x \in Expiries \ {Nil}, IssueChallenge(n, x)
      PROVE  PInv' /\ Excused
  BY <1>8, ParityIssueStep, Zenon DEF Excused
<1>9. ASSUME Tick PROVE PInv' /\ Excused
  BY <1>9, ParityTickStep, Zenon DEF Excused
<1> QED
  BY <1>1, <1>2, <1>3, <1>4, <1>5, <1>6, <1>7, <1>8, <1>9, ParityAccountStep, ParityWalletStep,
     ParityChallengeStep, Zenon DEF Next

\* The invariant behind the next two theorems: after every call memory.go's maps and
\* the tables of the PostgreSQL store are twins.
THEOREM ParityInvariant == Spec => []PInv
<1> QED
  BY ParityStart, ParityStep, PTL DEF Spec

\* The two stores answer alike, whatever calls are made and however many users,
\* tokens, links and challenges there are: where memory.go looks up its maps and
\* cascades by hand, the indexes and foreign keys of schema.hcl do the same.  They
\* differ on two calls only: the link of an account or a wallet that is taken,
\* for a user who is gone, which both refuse, and the delete of an expired
\* challenge that memory forgot when it was read.
THEOREM StoresAlwaysAgree == Spec => StoresAgree
<1>1. PInv /\ [Next]_vars
        => [differ' # Nil => LinksTakenForMissing(differ') \/ DeletesExpired(differ')]_vars
  BY ParityStep, Zenon DEF Excused
<1> QED
  BY <1>1, ParityInvariant, PTL DEF Spec, StoresAgree

\* The maps of memory.go and the tables of the PostgreSQL store hold the same
\* users, passwords, tokens and links at all times, and the same challenges that
\* can still be used.
THEOREM StoresHoldTheSame == Spec => []SameContents
<1>1. PInv => SameContents
  <2> SUFFICES ASSUME PInv PROVE SameContents
    OBVIOUS
  <2>1. Twins(mem, pg, clock, drawn)
    BY Zenon DEF PInv
  <2>2. pg.users = {[id |-> u, email |-> mem.users[u]] : u \in Entries(mem.users)}
    <3>1. pg.users = {UserRows(mem.users)[u] : u \in Entries(mem.users)}
      BY <2>1, MirrorImage DEF Twins, SameUsers
    <3>2. \A u \in Entries(mem.users) : UserRows(mem.users)[u] = [id |-> u, email |-> mem.users[u]]
      BY <2>1, UserEntries, SMTT(60) DEF Twins, UserRows
    <3> QED
      BY <3>1, <3>2, ZenonT(60)
  <2>3. pg.credentials = {[user |-> u, hash |-> mem.passwords[u]] : u \in Entries(mem.passwords)}
    <3>1. pg.credentials = {CredRows(mem.passwords)[u] : u \in Entries(mem.passwords)}
      BY <2>1, MirrorImage DEF Twins, SameCreds
    <3>2. \A u \in Entries(mem.passwords) :
            CredRows(mem.passwords)[u] = [user |-> u, hash |-> mem.passwords[u]]
      BY <2>1, SMTT(60) DEF Twins, SameCreds, CredRows, Entries
    <3> QED
      BY <3>1, <3>2, ZenonT(60)
  <2>4. pg.pats = {mem.pats[p] : p \in Entries(mem.pats)}
    BY <2>1, MirrorImage, SMTT(60) DEF Twins, SamePATs
  <2>5. pg.oauth = {[account |-> a, user |-> mem.oauth[a].user, created |-> mem.oauth[a].created] :
                       a \in Entries(mem.oauth)}
    <3>1. pg.oauth = {OAuthRows(mem.oauth)[a] : a \in Entries(mem.oauth)}
      BY <2>1, MirrorImage, ZenonT(60) DEF Twins, SameOAuth
    <3>2. \A a \in Entries(mem.oauth) : OAuthRows(mem.oauth)[a]
            = [account |-> a, user |-> mem.oauth[a].user, created |-> mem.oauth[a].created]
      BY <2>1, SMTT(60) DEF Twins, SameOAuth, OAuthRows, Entries
    <3> QED
      BY <3>1, <3>2, ZenonT(60)
  <2>6. pg.wallets = {[wallet |-> w, user |-> mem.wallets[w].user,
                       created |-> mem.wallets[w].created] : w \in Entries(mem.wallets)}
    <3>1. pg.wallets = {WalletRows(mem.wallets)[w] : w \in Entries(mem.wallets)}
      BY <2>1, MirrorImage, ZenonT(60) DEF Twins, SameWallets
    <3>2. \A w \in Entries(mem.wallets) : WalletRows(mem.wallets)[w]
            = [wallet |-> w, user |-> mem.wallets[w].user, created |-> mem.wallets[w].created]
      BY <2>1, SMTT(60) DEF Twins, SameWallets, WalletRows, Entries
    <3> QED
      BY <3>1, <3>2, ZenonT(60)
  <2>7. Valid(pg.challenges) = Valid({mem.challenges[n] : n \in Entries(mem.challenges)})
    <3>1. PICK f, t, now : f = mem.challenges /\ t = pg.challenges /\ now = clock
      BY Zenon
    <3>2. SameChallenges(f, t, now)
      BY <2>1, <3>1, Zenon DEF Twins
    <3>3. \A r \in ChallengeRow : r.nonce \in Nonce /\ r # Nil
      BY <3>2, ChallengeFacts, SMTT(60)
    <3>4. \A n \in Entries(f) : f[n] \in ChallengeRow /\ f[n].nonce = n
      BY <3>2, ChallengeFacts, SMTT(60) DEF Entries
    <3>5. \A n \in Nonce : f[n] # Nil => n \in Entries(f)
      BY <3>2, ChallengeFacts, SMTT(60) DEF Entries
    <3>6. \A r : r \in t /\ ~Expired(r, now) <=> r \in {f[n] : n \in Entries(f)} /\ ~Expired(r, now)
      <4>1. ASSUME NEW r \in t, ~Expired(r, now) PROVE r \in {f[n] : n \in Entries(f)}
        <5>1. r \in ChallengeRow /\ f[r.nonce] = r
          BY <3>2, <4>1, Zenon DEF SameChallenges
        <5> QED
          BY <3>3, <3>5, <5>1, Zenon
      <4>2. ASSUME NEW n \in Entries(f), ~Expired(f[n], now) PROVE f[n] \in t
        <5>1. f[n] \in ChallengeRow /\ f[f[n].nonce] = f[n]
          BY <3>4, Zenon
        <5> QED
          BY <3>2, <4>2, <5>1, Zenon DEF SameChallenges
      <4> QED
        BY <4>1, <4>2, Zenon
    <3> QED
      BY <3>1, <3>6, SMTT(60) DEF Valid
  <2> QED
    BY <2>2, <2>3, <2>4, <2>5, <2>6, <2>7, Zenon DEF SameContents
<1> QED
  BY <1>1, ParityInvariant, PTL
=============================================================================
