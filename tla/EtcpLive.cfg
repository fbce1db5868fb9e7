\* One connection whose streams end; nothing must get stuck.
CONSTANTS
    Conns = {c1}
    InProtos = {"native", "socks", "vmess"}
    OutProtos = {"native", "vmess"}
    MaxSend <- Send11
    RecvCap = 1
    WindowCap = 1
SPECIFICATION FairSpec
CHECK_DEADLOCK FALSE
PROPERTIES EventuallyRemoved EventuallyDelivered
