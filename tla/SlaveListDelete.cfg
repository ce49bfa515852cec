SPECIFICATION Spec
CONSTANTS
    Node = {n1, n2, n3}
    NULL = NULL
    Uin = {9999, 10001, 10002, 10003}
    Names = {"bob", "Bob", "amy"}
    UinNick <- MCUinNick
    Fold <- MCFold
CHECK_DEADLOCK FALSE
INVARIANT DeleteSafe
