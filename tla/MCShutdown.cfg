CONSTANTS
    c1 = c1
    c2 = c2
    c3 = c3
    Conn = {c1, c2, c3}
    Dummy = Dummy
SPECIFICATION FairSpec
INVARIANT TypeOK
PROPERTY HaltReturnsIfListening
PROPERTY NoCallAfterHalt
CHECK_DEADLOCK FALSE
