\* Two runs and a user cancel against a provider that answers a prompt with its
\* live turn (Pi), under the fairness of the event loop.
CONSTANTS
  Runs = {r1, r2}
  Users = {u1}
  None = None
  FinalizedCap = 2
  QueueCap = 2
  EventBudget = 0
  ReusesActiveTurn = TRUE
SPECIFICATION FairSpec
INVARIANTS TurnHasListener
PROPERTIES StallBounded CallsReturn
CHECK_DEADLOCK FALSE
