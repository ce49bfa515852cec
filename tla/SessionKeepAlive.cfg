SPECIFICATION FairSpec
CONSTANTS
    Conn = {c1, c2}
    NoConn = NoConn
    Dc = {dc1}
    W = 4
    HelloSeq = 3
    MaxRetries = 1
    MaxFlaps = 4
    MaxSent = 4
    Senders = {"net", "cycle"}
    Overlap = FALSE
    Relogin = FALSE
    BadHello = FALSE
CHECK_DEADLOCK FALSE
PROPERTIES EofNoticed
