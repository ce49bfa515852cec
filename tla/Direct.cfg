SPECIFICATION FairSpec
CONSTANTS
    s1 = s1
    s2 = s2
    Slave <- MCSlave
    NoSlave = NoSlave
    Faults = {}
    MaxFd = 4
    MaxConns = 2
    Callers <- MCCallers
    MaxDrops = 1
    MaxSent = 1
    Texts = {215}
CHECK_DEADLOCK FALSE
INVARIANTS PeerFollows PeerReads NoneForgotten OwnClosed
PROPERTY GoneNoticed
