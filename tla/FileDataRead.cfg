SPECIFICATION Spec
CONSTANTS
  Files = {f1, f2}
  NumBlocks = 4
  NUM_DIRECT_BLOCKS = 1
  NUM_INDIRECT_BLOCKS = 1
  Absent = Absent
INVARIANTS LogsInsideOperation
CHECK_DEADLOCK FALSE
