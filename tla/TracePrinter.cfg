\* Bytes of two bits; a buffer of two bytes, a write of five.  Traces of up to
\* two events of up to two effects each.  The program stops when it has read
\* the trace.
CONSTANTS
  BitsPerByte = 2
  Register <- MCRegister
  Operation <- MCOperation
  InitialValue <- MCInitialValue
  Event <- MCEvent
  BufferSize = 2
  AddressMod = 8
  MaxEvents = 2
SPECIFICATION Spec
INVARIANTS
  TypeOK
  RegistersAsNumbers
  LinesTellRegisters
  LinesTellMemory
PROPERTY ReadingEnds
CHECK_DEADLOCK FALSE
