CONSTANTS
    r0 = r0
    r1 = r1
    Peer = {r0, r1}
    Order <- MCOrder
    Listening = {r0, r1}
    Late = {r0}
    Job <- MCJob
    Slot = {1, 2, 3}
    Capacity = 2
    Receives = FALSE
    MaxBreaks = 1
    Nothing = Nothing
    Targets <- MCTargets
    Stuck = {r1}
SPECIFICATION FairSpec
INVARIANT OrderKept
PROPERTY EveryMessageIsTaken
