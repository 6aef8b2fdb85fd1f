\* Three cache points; counts wrap at 4, so that writing two registers three
\* times over wraps to the count the reader expects.  Addresses are well below
\* the width of an address.  The run may stop when the file is complete.
CONSTANTS
  Register = {1, 2}
  OtherId = 7
  Region <- MCRegion
  PageSize = 2
  Address = {0, 1, 4, 6, 8}
  AddressMod = 16
  CountMod = 4
  ContextId = {1, 2, 3}
  TracePos = {5}
  MaxFields = 6
SPECIFICATION Spec
INVARIANTS
  TypeOK
  DumpsComprehensive
  CompletePointsRead
  PagesWhereIndexed
  PagesInRegions
PROPERTY FinishedPointsStay
CHECK_DEADLOCK FALSE
