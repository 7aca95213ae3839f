\* Two clients with three sockets, two sessions, four requests in one lane.
CONSTANTS
  Clients = {c1, c2}
  Sockets = {w1, w2, w3}
  Messages = {m1, m2, m3, m4}
  Keys = {k1}
  Sessions = {s1, s2}
  None = None
  Inflight = 3
  Depth = 2
SPECIFICATION Spec
SYMMETRY Symmetry
INVARIANTS OneSessionPerClient GraceExact InflightExact
PROPERTIES ImplementsKeyedQueue
CHECK_DEADLOCK FALSE
