CONSTANTS
  r0 = r0  r1 = r1  r2 = r2  r3 = r3
  a = a  b = b
  NoOr = NoOr
  Replica = {r0, r1, r2, r3}
  Pubkeys <- MCPubkeys
  max_failures = 1
  Request <- MCRequest
  MaxTries = 3
  Live = {r0, r1, r2}
  Stoppable = {}
  Tries <- MCTries
SPECIFICATION MCSpec
INVARIANTS TypeOK StrongReplyQuorum NoStrandedCommit Agreement
PROPERTY ImplementsStrongLog
\* The clients send a bounded number of requests: then the system is idle.
CHECK_DEADLOCK FALSE
