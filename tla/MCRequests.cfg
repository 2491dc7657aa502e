\* Small address widths; two replicas whose clocks are up to two ticks apart.
CONSTANTS
  V4 = 2  V6 = 4  Marker = 1
  Proxies = {2, 3}
  Garbage = Garbage  Empty = Empty
  MaxHops = 2  MaxClaims = 2
  Replica = {r1, r2}
  TTL = 4  Tolerance = 2  Leeway = 3  Skew = 1  Second = 2
  Configured = TRUE
  MaxClock = 9  MaxRestarts = 1  MaxTokens = 2
SPECIFICATION Spec
SYMMETRY Symmetry
INVARIANTS
  FindsTheClient
  AcceptedForItsLife
  AnswersAgree
CHECK_DEADLOCK FALSE
