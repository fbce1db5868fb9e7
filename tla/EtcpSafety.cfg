\* One connection, every mixture of plain, SOCKS and VMess sockets that can be configured.
CONSTANTS
    Conns = {c1}
    InProtos = {"native", "socks", "vmess"}
    OutProtos = {"native", "vmess"}
    MaxSend <- Send22
    RecvCap = 2
    WindowCap = 1
SPECIFICATION Spec
CHECK_DEADLOCK FALSE
INVARIANTS TypeOK NoUseAfterFree NoLeak Quiescent
PROPERTIES OnlyHandshakesStrand RelaySpec
