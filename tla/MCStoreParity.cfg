\* Everything a user owns, over time.
CONSTANTS
  User = {u1, u2}
  Email = {e1}
  NoEmail = NoEmail
  Secret = {h1}
  Account = {a1}
  Wallet = {w1}
  Pat = {p1, p2}
  Nonce = {n1}
  Nil = Nil
  Limit = 1
  MaxClock = 1
SPECIFICATION Spec
SYMMETRY Symmetry
CONSTRAINT Few
INVARIANT
  SameContents
PROPERTY
  StoresAgree
CHECK_DEADLOCK FALSE
