SPECIFICATION Spec
CONSTANTS
    s1 = s1
    s2 = s2
    Order <- TwoContacts
    W = 256
    MaxSave = 2
    Stored <- NoneStored
    Hasty = FALSE
    Sessions = 2
    MaxChanges = 6
    MaxPending = 2
    MaxScans = 1
CHECK_DEADLOCK FALSE
INVARIANT AnswerMatches
