CONSTANTS
  r0 = r0  r1 = r1  r2 = r2
  b = b  c = c
  NoOr = NoOr
  Replica = {r0, r1, r2}
  Pubkeys <- MCPubkeys
  max_failures = 0
  Request <- MCRequest
  MaxTries = 3
  Live = {r1, r2}
  Stoppable = {r2}
  Tries <- MCTries
SPECIFICATION Spec
INVARIANTS ExactlyOnce NoLostWakeup NoPanic OneOrderPerView AtMostOneViewChange
CHECK_DEADLOCK FALSE
