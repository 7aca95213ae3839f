\* Two data sockets, one of which may break; two messages each way.
CONSTANTS
  Sockets = 2
  Messages = 2
  Replies = 2
  Buffer = 2
  Flight = 2
  Faults = 1
SPECIFICATION FairSpec
PROPERTIES NoGap OneStream NotLeftBehind
CHECK_DEADLOCK FALSE
