\* Both directions of the notification comment, with plain sockets.
CONSTANTS
    Conns = {c1}
    InProtos = {"native"}
    OutProtos = {"native"}
    MaxSend <- Send22
    RecvCap = 2
    WindowCap = 1
SPECIFICATION Spec
CHECK_DEADLOCK FALSE
INVARIANT GracefulClose
