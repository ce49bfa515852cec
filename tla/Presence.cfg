SPECIFICATION Spec
CONSTANTS
  Contacts = {"c1"}
  Messages = {"m1"}
  SenderOf <- MCSender
  ChatMode = TRUE
  MaxSessions = 2
  MaxChanges = 1
  MaxCommands = 2
  MaxQueue = 2
CHECK_DEADLOCK FALSE
INVARIANT OwnAgrees
INVARIANT ContactsAgree
INVARIANT StoredNotLost
