SPECIFICATION Spec
CONSTANTS
  Chats <- TwoChats
  MaxTokens = 2
  MaxFaults = 2
  LogRoom = 3
  DaemonEnabled = TRUE
  c1 = c1
  c2 = c2
INVARIANT DaemonAsSingle
CHECK_DEADLOCK FALSE
