\* An IPv6 target, which SOCKS 4 has no room for, with the SOCKS 4 client.
CONSTANTS
    Wide = 2
    AskedTargets <- OnlyV6
    Resolved <- Address
    Offers <- SomeOffers
    PMax = 0
    Delta = 0
    MaxClock = 0
    MaxData = 0
SPECIFICATION Spec
CHECK_DEADLOCK FALSE
INVARIANT TargetKept
