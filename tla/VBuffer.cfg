\* Three threads that may call any function in any order.
CONSTANTS
    Threads = {t1, t2, t3}
    NoThread = none
    InitSize = 0
    MaxBytes = 3
    MaxPiece = 2
SPECIFICATION FairSpec
CHECK_DEADLOCK FALSE
INVARIANTS TypeOK Fifo NoLostData NoLostDrain
PROPERTY CloseReleases
