\* Calls that are refused half-way: the caller catches the exception and
\* finishes its event.
CONSTANTS
  Full = 2
  Escape = 2
  PhyMax = 3
  Register = {1, 2}
  Operation = {0}
  MemoryWrite <- MCMemoryWrite
  ActionId = {0, 3}
  Description = {2}
  MaxEvents = 1
  MaxFields = 5
SPECIFICATION Spec
INVARIANT ClosedDiffsCount
CHECK_DEADLOCK FALSE
