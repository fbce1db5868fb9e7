\* Trunks of at most two bytes, reads of one to three, a raw_buf that grows from one byte.
CONSTANTS
    TrunkMax = 2
    RawSize = 0
    MaxSend = 3
    MaxPiece = 3
SPECIFICATION FairSpec
CHECK_DEADLOCK FALSE
INVARIANTS TypeOK InOrder EofMeansAll
PROPERTIES EventuallyRead
