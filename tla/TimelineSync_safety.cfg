\* Three logs of three rows, so that an answer can be of neither the log shown nor the
\* one before; pages of one; a fault.
SPECIFICATION FairSpec
CONSTANTS
  None = None
  Page = 1
  DefaultLimit = 2
  Epochs = 3
  Rows = 3
  Faults = 1
  Flight = 1
INVARIANTS ShownInOrder CaughtUp InitIsAnswered
PROPERTIES NeverBack EventuallyShown
CHECK_DEADLOCK FALSE
