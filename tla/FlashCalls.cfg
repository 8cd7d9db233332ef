CONSTANTS
  B = 3
  N = 5
  Objs = {f}
  U = 2
  HdrLen = 1
  IxLen = 2
  Blank = Blank
  Deleted = Deleted
  Garbled = Garbled
  Absent = Absent
  Unreadable = Unreadable
  Calls = {"create", "append", "modify", "truncate", "remove", "gc"}
  MaxSize = 7
  MaxWrite = 4
  Reserve = 6
  MaxCalls = 5
SPECIFICATION Spec
INVARIANTS FlashIInv ReadsBack NothingLost AlwaysThere
PROPERTIES CallReturns
CHECK_DEADLOCK FALSE
