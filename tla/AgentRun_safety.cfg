\* Three runs (replacements of replacements) against a provider that may stay
\* silent, be late or start turns by itself.
CONSTANTS
  Runs = {r1, r2, r3}
  Users = {}
  None = None
  FinalizedCap = 2
  QueueCap = 2
  EventBudget = 1
  ReusesActiveTurn = FALSE
SPECIFICATION Spec
SYMMETRY Symmetry
INVARIANTS LifecycleTrue ReplacementHolds CancelClearsTurn NoTurnRevived
PROPERTIES ImplementsRunSlot
CHECK_DEADLOCK FALSE
