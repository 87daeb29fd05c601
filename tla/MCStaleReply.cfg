CONSTANTS
  r0 = r0  r1 = r1  r2 = r2  r3 = r3
  a = a
  NoOr = NoOr
  Replica = {r0, r1, r2, r3}
  Pubkeys <- MCPubkeys
  max_failures = 1
  Request <- MCRequest
  MaxTries = 2
  Live = {r0, r1, r2}
  Stoppable = {}
  Tries <- MCTries
SPECIFICATION Spec
INVARIANT ClientGetsOwnResult
CHECK_DEADLOCK FALSE
