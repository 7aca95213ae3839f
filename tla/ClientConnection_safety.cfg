\* Three requests, one without a time-out; four faults of the network, reconnecting switched off and on.
CONSTANTS
  Requests = {r1, r2, r3}
  Ping = Ping
  Patient = {r1}
  Threshold = 2
  Faults = 4
  Toggles = 2
SPECIFICATION ClientFairSpec
INVARIANTS ClosedIsFinal NobodyStranded
PROPERTIES NotSentAfterFailure Heals
CHECK_DEADLOCK FALSE
