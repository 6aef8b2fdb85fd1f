\* Recorders that leave registers out: no call refuses, the trace is finished.
CONSTANTS
  Machine <- MCMachine
  MaxEvents = 1
  MaxRegisters = 2
SPECIFICATION Spec
INVARIANT AllRegistersInitialized
CHECK_DEADLOCK FALSE
