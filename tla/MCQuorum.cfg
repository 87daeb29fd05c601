CONSTANTS
  r0 = r0  r1 = r1  r2 = r2
  a = a  b = b
  NoOr = NoOr
  Replica = {r0, r1, r2}
  Pubkeys <- MCPubkeys
  max_failures = 0
  Request <- MCRequest
  MaxTries = 2
  Live = {r0, r1, r2}
  Stoppable = {}
  Tries <- MCTries
SPECIFICATION Spec
INVARIANT Agreement
CHECK_DEADLOCK FALSE
