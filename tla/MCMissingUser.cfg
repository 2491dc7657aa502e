\* What the stores answer for a user who is gone.  Without addresses no Create is
\* refused, so a missing user was there and has been deleted.
CONSTANTS
  User = {u1, u2}
  Email = {}
  NoEmail = NoEmail
  Secret = {h1}
  Account = {a1}
  Wallet = {w1}
  Pat = {p1, p2}
  Nonce = {n1}
  Nil = Nil
  Limit = 1
  MaxClock = 1
SPECIFICATION Spec
SYMMETRY Symmetry
CONSTRAINT Few
INVARIANT
  MissingUserIsNotFound
CHECK_DEADLOCK FALSE
