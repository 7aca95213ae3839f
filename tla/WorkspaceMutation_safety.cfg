SPECIFICATION Spec
CONSTANTS
  Mutations = {m1, m2, m3}
  Writers = {w1, w2}
  Terminals = {w2}
  Paths = {root, below}
  Inside = {root, below}
  None = None
INVARIANTS OneMutation NothingUnderRemoval NoStaleBlock DrainNoticed TurnComes
CHECK_DEADLOCK FALSE
