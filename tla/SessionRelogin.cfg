SPECIFICATION Spec
CONSTANTS
    Conn = {c1, c2, c3}
    NoConn = NoConn
    Dc = {dc1}
    W = 4
    HelloSeq = 3
    MaxRetries = 1
    MaxFlaps = 4
    MaxSent = 4
    Senders = {"net"}
    Overlap = FALSE
    Relogin = TRUE
    BadHello = FALSE
CHECK_DEADLOCK FALSE
PROPERTIES CookieFollowed
