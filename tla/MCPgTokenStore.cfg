\* Two connections that make calls for ever, and two tokens.
CONSTANTS
  User = {u1}
  Hash = {h1, h2}
  Proc = {p1, p2}
  Times = {0, 1}
  Expiry = 1
  NoUser = NoUser
  NoHash = NoHash
  NoToken = NoToken
  NoTime = NoTime
SPECIFICATION FairSpec
INVARIANT DeadlocksNeedADelete
PROPERTIES ImplementsAtomic EveryCallIsAnswered
CHECK_DEADLOCK FALSE
