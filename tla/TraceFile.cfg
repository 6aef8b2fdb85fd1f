\* Up to three registers are written to machines with at most two, so that
\* some are written twice and some not at all.  The run stops when the trace
\* is finished.
CONSTANTS
  Machine <- MCMachine
  MaxEvents = 2
  MaxRegisters = 3
SPECIFICATION Spec
INVARIANTS
  TypeOK
  NoHalfTraceOpens
  FinishedTraceOpens
  OpenedTraceInitialized
CHECK_DEADLOCK FALSE
