\* Two threads that connect twice, to a host and to the proxy itself.
CONSTANTS
    Threads = {t1, t2}
    Hosts = {h1, p}
    Proxy = p
    MaxCalls = 2
SPECIFICATION FairSpec
CHECK_DEADLOCK FALSE
INVARIANTS TypeOK ReachesHost
PROPERTIES BypassOnlyInRace EventuallyReturns
