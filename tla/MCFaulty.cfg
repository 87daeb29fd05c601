CONSTANTS
  r0 = r0  r1 = r1  r2 = r2  r3 = r3
  a = a  b = b
  NoOr = NoOr
  Replica = {r0, r1, r2, r3}
  Pubkeys <- MCPubkeys
  max_failures = 1
  Request <- MCRequest
  MaxTries = 2
  Live = {r0, r1, r2, r3}
  Stoppable = {}
  Tries <- MCTries
  Faulty = {r1}
SPECIFICATION FaultySpec
ACTION_CONSTRAINT Scenario
INVARIANTS
  
  StrongReplyQuorum
  
CHECK_DEADLOCK FALSE
