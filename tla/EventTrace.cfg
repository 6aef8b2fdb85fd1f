\* Two events, up to three blocks each; register 1 has a short id, register 2
\* an escaped one; 3 is the action id that a byte cannot hold.  The run may
\* stop: a recorder that was refused and a reader at the end.
CONSTANTS
  Full = 2
  Escape = 2
  PhyMax = 3
  Register = {1, 2}
  Operation = {0}
  MemoryWrite <- MCMemoryWrite
  ActionId = {0, 3}
  Description = {2, 3}
  MaxEvents = 2
  MaxFields = 8
SPECIFICATION Spec
INVARIANTS
  TypeOK
  FramingTruthful
  NeverBothFull
  NeverMisread
  CallbacksInOrder
  StandsBetweenEvents
PROPERTIES
  ReadReturns
  ImplementsLog
CHECK_DEADLOCK FALSE
