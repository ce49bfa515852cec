SPECIFICATION MsgSpec
CONSTANTS
  BS_INIT_LEN = 256
  MAX_MSGDATA_LEN = 40
  Texts <- MCTexts
  Letters <- MCLetters
  Garbled <- MCGarbled
  Junk = {0, 1, 200}
CHECK_DEADLOCK FALSE
INVARIANTS BodyNests TextRead NeverClear ReadsWithin
