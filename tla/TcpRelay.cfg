\* One connection, every combination of inbound and outbound protocol.
CONSTANTS
    InProtos = {"native", "socks", "vmess"}
    OutProtos = {"native", "vmess"}
    MaxRetry = 2
    MaxSend = 2
    RecvCap = 1
    WindowCap = 1
SPECIFICATION FairSpec
CHECK_DEADLOCK FALSE
INVARIANTS TypeOK NoUseAfterFree FinMeansAll NoLeak
PROPERTIES RelaySpec EventuallyFreed
