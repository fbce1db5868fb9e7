\* Every client against the server, up to two bytes of padding, clocks up to two ticks apart.
CONSTANTS
    Wide = 2
    AskedTargets <- AllTargets
    Resolved <- Address
    Offers <- SomeOffers
    PMax = 1
    Delta = 1
    MaxClock = 2
    MaxData = 1
SPECIFICATION FairSpec
CHECK_DEADLOCK FALSE
INVARIANTS TypeOK TargetKept InStep
PROPERTIES NoSpuriousReject EventuallySettled
