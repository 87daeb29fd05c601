CONSTANTS
    r0 = r0
    r1 = r1
    r2 = r2
    r3 = r3
    Peer = {r0, r1, r2, r3}
    Order <- MCOrder
    Listening = {r0, r1, r2, r3}
    Late = {}
    Job <- MCJob
    Slot = {1, 2}
    Capacity = 1
    Receives = TRUE
    MaxBreaks = 0
    Nothing = Nothing
    max_failures = 1
    MaxRequests = 2
    Strong = {1}
    Faulty = {r3}
    Silent = {}
SPECIFICATION Spec
 
INVARIANT OwnResponse
