\* Replicas whose clocks are one tick off either way.
CONSTANTS
  User = {u1}
  Hash = {h1, h2, h3}
  Request = {r1, r2, r3, r4}
  NoUser = NoUser
  NoHash = NoHash
  NoToken = NoToken
  NoTime = NoTime
  Leeway = 1
  TTL = 2
  Skew = 1
  MaxClock = 1
SPECIFICATION Spec
SYMMETRY Symmetry
CHECK_DEADLOCK FALSE
INVARIANTS
  IInv
  EndedSessionIsDead
  LogoutIsFinal
  RejectedIsDead
  SessionKeepsClient
PROPERTIES
  TokensMoveForward
