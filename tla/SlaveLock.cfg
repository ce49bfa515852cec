SPECIFICATION FairSpec
CONSTANTS
    Slave = {s1, s2}
    ListHead = ListHead
    Nil = Nil
    Dc = {dc1}
    Nobody = Nobody
    Protected = {s1}
    Clones = TRUE
    WwpPagers = TRUE
    Rosters = FALSE
CHECK_DEADLOCK FALSE
INVARIANTS UsedIsListed NoneLost
PROPERTIES KeptByThree Released
