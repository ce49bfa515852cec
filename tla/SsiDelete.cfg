SPECIFICATION Spec
CONSTANTS
    s1 = s1
    s2 = s2
    Order <- TwoContacts
    W = 256
    MaxSave = 2
    Stored <- OneStored
    Hasty = FALSE
    Sessions = 1
    MaxChanges = 6
    MaxPending = 2
    MaxScans = 1
CHECK_DEADLOCK FALSE
PROPERTY DeletionTakesEffect
