\* Two requests over two challenges of either flow, and two redirect URIs.
CONSTANTS
  User = {}
  Email = {}
  NoEmail = NoEmail
  Secret = {}
  Account = {}
  Wallet = {}
  Pat = {}
  Nonce = {n1, n2}
  Nil = Nil
  Request = {r1, r2}
  OAuthKey = {o1, o2}
  WalletKey = {w1}
  TTL = 1
  Skew = 0
  MaxClock = 2
SPECIFICATION FairSpec
INVARIANT OnlyTheHolderPasses
PROPERTIES
  SingleUse
  NotBurnt
  HolderGetsThrough
CHECK_DEADLOCK FALSE
