CONSTANTS
  B = 3
  N = 5
  Objs = {f, g}
  U = 2
  HdrLen = 1
  IxLen = 1
  Blank = Blank
  Deleted = Deleted
  Garbled = Garbled
  Absent = Absent
  Unreadable = Unreadable
  Calls = {"create", "append", "modify", "truncate", "remove", "gc"}
  MaxSize = 4
  MaxWrite = 3
  Reserve = 5
  MaxCalls = 4
  MaxLosses = 1
SPECIFICATION PowerSpec
INVARIANTS PowerTypeOK NamesAgree Undisturbed SavedByCheck Consistent
PROPERTY CheckEnds
CHECK_DEADLOCK FALSE
