CONSTANTS
  r0 = r0  r1 = r1  r2 = r2
  a = a  c = c
  NoOr = NoOr
  Replica = {r0, r1, r2}
  Pubkeys <- MCPubkeys
  max_failures = 0
  Request <- MCRequest
  MaxTries = 3
  Live = {r0, r1, r2}
  Stoppable = {}
  Tries <- MCTries
SPECIFICATION MCSpec
INVARIANT QueuedRequestRuns
CHECK_DEADLOCK FALSE
