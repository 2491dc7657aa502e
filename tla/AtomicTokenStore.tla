-------------------------- MODULE AtomicTokenStore --------------------------
(***************************************************************************)
(* What the sessions take a token store to be: a call is made, takes       *)
(* effect in one step somewhere between its call and its answer, by the    *)
(* operators of TokenStore, and is answered.  A call may also fail, and    *)
(* then the caller cannot know whether it took effect.                     *)
(***************************************************************************)
EXTENDS TokenStore

CONSTANTS Proc,      \* connections, each with one call at a time
          Times,     \* readings of the service's clock
          Expiry     \* expiry given to every new token

VARIABLES users,     \* stored user IDs
          tokens,    \* the refresh-token table
          drawn,     \* hashes drawn so far
          call       \* the last call of each connection

vars == <<users, tokens, drawn, call>>

NoCall == [op |-> "none", hash |-> NoHash, user |-> NoUser, parent |-> NoHash, at |-> NoTime,
           answer |-> "ok", seen |-> NoToken]

\* A call that is not answered yet.
Asked(op, hash, user, parent, at) ==
  [op |-> op, hash |-> hash, user |-> user, parent |-> parent, at |-> at,
   answer |-> "none", seen |-> NoToken]

Init == /\ users = User
        /\ tokens = [h \in Hash |-> NoToken]
        /\ drawn = {}
        /\ call = [p \in Proc |-> NoCall]

\* The calls the service may make: a new hash for a new session or for a member
\* of a stored family, any token for a rotation, a root for the family calls.
Roots == {f \in Hash : Stored(tokens, f) /\ tokens[f].parent = NoHash}

Calls ==
  {Asked("Save", h, u, NoHash, NoTime) : h \in Hash \ drawn, u \in users}
  \cup {Asked("Save", h, tokens[f].user, f, NoTime) : h \in Hash \ drawn, f \in Roots}
  \cup {Asked("Rotate", h, NoUser, NoHash, now) :
          h \in {g \in Hash : Stored(tokens, g)}, now \in Times}
  \cup {Asked(op, f, NoUser, NoHash, NoTime) : op \in {"Revoke", "Family"}, f \in Roots}
  \cup {Asked("Delete", NoHash, u, NoHash, NoTime) : u \in users}

Call(p, c) == /\ call[p].answer # "none"
              /\ call' = [call EXCEPT ![p] = c]
              /\ drawn' = IF c.op = "Save" THEN drawn \cup {c.hash} ELSE drawn
              /\ UNCHANGED <<users, tokens>>

\* The call returns a, and the row or summary it read, or the answer is lost.
Returned(a, seen) == [NoCall EXCEPT !.answer = a, !.seen = seen]

Answer(p, a, seen) ==
  \E c \in {Returned(a, seen), Returned("error", NoToken)} : call' = [call EXCEPT ![p] = c]

Doing(p, op) == /\ call[p].answer = "none"
                /\ call[p].op = op
                /\ UNCHANGED drawn

Save(p) ==
  LET c == call[p] IN
  /\ Doing(p, "Save")
  /\ UNCHANGED users
  /\ \/ /\ ~MayJoin(tokens, c.parent)
        /\ Answer(p, "TokenRevoked", NoToken)
        /\ UNCHANGED tokens
     \/ /\ MayJoin(tokens, c.parent)
        /\ c.user \notin users
        /\ Answer(p, "UserNotFound", NoToken)
        /\ UNCHANGED tokens
     \/ /\ MayJoin(tokens, c.parent)
        /\ c.user \in users
        /\ tokens' = SaveRefreshToken(tokens, c.hash, c.user, c.parent, Expiry)
        /\ Answer(p, "ok", NoToken)

Rotate(p) ==
  LET h == call[p].hash  now == call[p].at IN
  /\ Doing(p, "Rotate")
  /\ UNCHANGED users
  /\ \/ /\ CanRotate(tokens, h, now)
        /\ tokens' = RotateRefreshToken(tokens, h, now)
        /\ Answer(p, "ok", tokens'[h])
     \/ /\ ~Stored(tokens, h)
        /\ Answer(p, "TokenNotFound", NoToken)
        /\ UNCHANGED tokens
     \/ /\ IsRevoked(tokens, h)
        /\ Answer(p, "TokenRevoked", tokens[h])
        /\ UNCHANGED tokens
     \/ /\ IsExpired(tokens, h, now)
        /\ Answer(p, "TokenExpired", tokens[h])
        /\ UNCHANGED tokens

Family(p) ==
  LET f == call[p].hash IN
  /\ Doing(p, "Family")
  /\ Answer(p, "ok", [ended |-> SessionEnded(tokens, f), rotations |-> Rotations(tokens, f)])
  /\ UNCHANGED <<users, tokens>>

Revoke(p) ==
  /\ Doing(p, "Revoke")
  /\ tokens' = RevokeTokens(tokens, call[p].hash)
  /\ Answer(p, "ok", NoToken)
  /\ UNCHANGED users

Delete(p) ==
  LET u == call[p].user IN
  /\ Doing(p, "Delete")
  /\ \/ /\ u \in users
        /\ users' = users \ {u}
        /\ tokens' = DeleteTokensOf(tokens, u)
        /\ Answer(p, "ok", NoToken)
     \/ /\ u \notin users
        /\ Answer(p, "UserNotFound", NoToken)
        /\ UNCHANGED <<users, tokens>>

\* The call fails before it takes effect.
Error(p) == /\ call[p].answer = "none"
            /\ call' = [call EXCEPT ![p] = Returned("error", NoToken)]
            /\ UNCHANGED <<users, tokens, drawn>>

Next == \E p \in Proc : \/ \E c \in Calls : Call(p, c)
                        \/ Save(p) \/ Rotate(p) \/ Family(p) \/ Revoke(p) \/ Delete(p)
                        \/ Error(p)

Spec == Init /\ [][Next]_vars
=============================================================================
