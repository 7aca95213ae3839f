\* A drop, connect() before the retry, and the retry's timer over the connection.
CONSTANTS
  Requests = {r1}
  Ping = Ping
  Patient = {r1}
  Threshold = 2
  Faults = 1
  Toggles = 0
SPECIFICATION ClientSpec
INVARIANTS InFlightRejected
CHECK_DEADLOCK FALSE
