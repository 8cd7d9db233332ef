CONSTANTS
  B = 3
  N = 5
  Objs = {f}
  U = 2
  HdrLen = 1
  IxLen = 1
  Blank = Blank
  Deleted = Deleted
  Garbled = Garbled
  Absent = Absent
  Unreadable = Unreadable
  Calls = {"create", "append", "modify"}
  MaxSize = 4
  MaxWrite = 3
  Reserve = 5
  MaxCalls = 3
  MaxLosses = 1
SPECIFICATION PowerSpec
INVARIANT OneLossIsMended
CHECK_DEADLOCK FALSE
