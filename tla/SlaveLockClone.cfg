SPECIFICATION FairSpec
CONSTANTS
    Slave = {s1}
    ListHead = ListHead
    Nil = Nil
    Dc = {dc1}
    Nobody = Nobody
    Protected = {}
    Clones = TRUE
    WwpPagers = FALSE
    Rosters = FALSE
CHECK_DEADLOCK FALSE
PROPERTIES AlwaysReleased
