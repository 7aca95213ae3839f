\* Two clients, two control sockets and two data sockets of a client at a time, one fault; one
\* place at the daemon, so that the second client may be skipped.
CONSTANTS
  Ids = {i1, i2}
  Controls = 2
  Tries = 2
  Capacity = 1
  Faults = 1
SPECIFICATION FairSpec
INVARIANTS OneDataSocket
PROPERTIES SocketsFollowClients ControlHeals
CHECK_DEADLOCK FALSE
