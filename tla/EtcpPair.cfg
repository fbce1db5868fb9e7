\* Two connections that share the worker; a SOCKS inbound.
CONSTANTS
    Conns = {c1, c2}
    InProtos = {"socks"}
    OutProtos = {"native"}
    MaxSend <- Send00
    RecvCap = 1
    WindowCap = 1
SPECIFICATION FairSpec
CHECK_DEADLOCK FALSE
PROPERTY EventuallyAccepted
