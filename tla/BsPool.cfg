SPECIFICATION PoolSpec
CONSTANTS
  Threads = {"net", "prompt"}
  Depth = 2
  MAX_BSD_NUM = 4
  Races = FALSE
  MaxPackets = 5
  MaxShort = 1
CHECK_DEADLOCK FALSE
INVARIANT PoolSound
INVARIANT GivenBack
INVARIANT WholePackets
PROPERTY PacketsEnd
