SPECIFICATION Spec
CONSTANTS
    Slave = {s1, s2, s3}
    ListHead = ListHead
    Nil = Nil
    Dc = {dc1}
    Nobody = Nobody
    Protected = {}
    Clones = FALSE
    WwpPagers = FALSE
    Rosters = TRUE
CHECK_DEADLOCK FALSE
SYMMETRY Symmetry
INVARIANTS NoneLost
