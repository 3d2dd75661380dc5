CONSTANTS
  Clients = {c1, c2}
  Passwords = {p1, p2}
  Values = {v1}
  None = None
  Empty = Empty
  Keep = Keep
  HashConcurrency = 1
  MaxAttempts = 2
  MaxRequests = 4
  MaxFaults = 1
SPECIFICATION FairSpec
INVARIANTS
  ConfigIsValid
  LimitsHold
PROPERTIES
  SetOnce
  ModeFollowsRole
