SPECIFICATION Spec
CONSTANTS
  Contacts = {"c1"}
  Messages = {"m1"}
  SenderOf <- MCSender
  ChatMode = TRUE
  MaxSessions = 1
  MaxChanges = 0
  MaxCommands = 1
  MaxQueue = 2
CHECK_DEADLOCK FALSE
INVARIANT MessageKept
