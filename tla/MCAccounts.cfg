\* Three requests of any kind, one failing call or lost answer, or a client that goes away.
CONSTANTS
  User = {u1, u2, u3}
  Email = {e1, e2}
  NoEmail = NoEmail
  Secret = {h1}
  Account = {a1}
  Wallet = {w1}
  Pat = {}
  Nonce = {}
  Nil = Nil
  Request = {r1, r2, r3}
  DisableAutoLinkEmail = {TRUE, FALSE}
  MaxFaults = 1
SPECIFICATION Spec
SYMMETRY Symmetry
INVARIANTS
  NoStrandedAccounts
  RollbackCleansUp
  SignInIsLinked
  PasswordAccountsAreNotLinked
  OutageIsNoRejection
  AuditAgreesWithAnswer
PROPERTY LinksOutliveRollbacks
CHECK_DEADLOCK FALSE
