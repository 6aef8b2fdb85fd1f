\* The same machine with addresses up to the last of their width: the end of
\* the last page is 0 in 64 bits, which is below the end of every region.
CONSTANTS
  Register = {1, 2}
  OtherId = 7
  Region <- MCRegion
  PageSize = 2
  Address = {0, 2, 14}
  AddressMod = 16
  CountMod = 4
  ContextId = {1}
  TracePos = {5}
  MaxFields = 3
SPECIFICATION Spec
INVARIANT PagesInRegions
CHECK_DEADLOCK FALSE
