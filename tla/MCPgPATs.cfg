CONSTANTS
  u1 = u1  u2 = u2  p1 = p1  p2 = p2  p3 = p3  r1 = r1  r2 = r2
  NoEmail = NoEmail  Nil = Nil
  Email = {}  Secret = {}  Account = {}  Wallet = {}  Nonce = {}
  User = {u1, u2}  Pat = {p1, p2}  Request = {r1, r2}
  MaxPerUser = 1  MaxTTL = 1  TouchInterval <- Always  MaxClock = 2
SPECIFICATION MCSpec
SYMMETRY Symm
INVARIANTS CapHolds RevokedStaysRejected
PROPERTY PrunedWasExpired
