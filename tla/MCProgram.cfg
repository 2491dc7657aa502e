CONSTANTS
  Path <- Paths
  Spelling = {1, 2}
  Default <- Defaults
  Null = Null
  MaxLeaves = 3
  Malformed = Malformed
  ChainLists <- Lists
  c1 = c1  c2 = c2  c3 = c3
  Conn = {c1, c2, c3}
  UsePostgres = TRUE
  MaxSignals = 2
SPECIFICATION Spec
INVARIANTS
  OrderDoesNotMatter
  DefaultsSurvive
  AcceptedStarts
  WhatIsSetIsOn
  TornOnlyIfForced
  SuccessMeansDrained
PROPERTY SignalStops
CHECK_DEADLOCK FALSE
