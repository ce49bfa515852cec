SPECIFICATION FairSpec
CONSTANTS
    Conn = {c1, c2}
    NoConn = NoConn
    Dc = {dc1}
    W = 1
    HelloSeq = 0
    MaxRetries = 1
    MaxFlaps = 2
    MaxSent = 2
    Senders = {"ctl", "cycle"}
    Overlap = FALSE
    Relogin = FALSE
    BadHello = FALSE
CHECK_DEADLOCK FALSE
PROPERTY ReconnectEnds
