\* The padding vmecs itself may choose: up to VMESS_P_MAX bytes.
CONSTANTS
    Wide = 2
    AskedTargets <- OneTarget
    Resolved <- Address
    Offers <- SomeOffers
    PMax = 16
    Delta = 0
    MaxClock = 0
    MaxData = 0
SPECIFICATION Spec
CHECK_DEADLOCK FALSE
PROPERTY NoSpuriousReject
