\* Up to three events and a cache point behind any of them.  Positions, counts
\* and the length of the section are not bounded further.  The run may stop
\* before the first request, as a trace without events cannot be asked for one.
CONSTANTS
  Register = {101, 102}
  OtherId = 7
  Region <- MCRegion
  PageSize = 2
  Address = {0, 2}
  AddressMod = 16
  CountMod = 4
  ContextId = {1, 2, 3}
  TracePos = {1, 2, 3}
  MaxFields = 20
  Touch <- MCTouch
  MaxEvents = 3
SPECIFICATION SpecAccess
INVARIANTS
  ReplayExact
  ReplaysFromClosest
PROPERTY RequestReached
CHECK_DEADLOCK FALSE
