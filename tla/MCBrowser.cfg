CONSTANTS
  u1 = u1  r1 = r1  r2 = r2  h0 = h0  h1 = h1  h2 = h2  h3 = h3
  NoUser = NoUser  NoHash = NoHash  NoToken = NoToken  NoTime = NoTime
  User = {u1}  Request = {r1, r2}  Stale = h0
  TTL = 9  Skew = 0
  Hash = {h0, h1, h2, h3}  Leeway = 1  MaxClock = 1
  Labels = 4  Legacy = {0, 2}  Moves <- Narrowed  MaxFaults = 1
SPECIFICATION BSpec
SYMMETRY Symm
INVARIANT StaysSignedIn
PROPERTIES FreshCookiesOnly LogoutLeavesNothing
CHECK_DEADLOCK FALSE
