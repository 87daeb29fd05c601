CONSTANTS
    r0 = r0
    r1 = r1
    r2 = r2
    r3 = r3
    Peer = {r0, r1, r2, r3}
    Order <- MCOrder
    Listening = {r0, r1, r2}
    Late = {r2}
    Job <- MCJob
    Slot = {1, 2, 3}
    Capacity = 1
    Receives = TRUE
    MaxBreaks = 1
    Nothing = Nothing
    max_failures = 1
    MaxRequests = 1
    Strong = {0}
    Faulty = {}
    Silent = {}
SPECIFICATION FairSpec
INVARIANT ConnectionsTypeOK
 
PROPERTY ReplacesOnlyDead
