SPECIFICATION Spec
CONSTANTS
  Calls = {c1, c2, c3}
  None = None
  Kinds = {"snapshot", "title", "generated", "archive", "archiveStored", "unarchive", "rename", "delete"}
  Crashes = 1
SYMMETRY CallSymmetry
INVARIANTS RecordsAgree DeletedStaysDeleted WaitersHaveWrites
CHECK_DEADLOCK FALSE
