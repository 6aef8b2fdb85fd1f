\* A buffer of two bytes: reads of up to four bytes need up to three refills.
\* The object stops being used when its constructor throws.
CONSTANTS
  File <- MCFile
  HdrSize = 2
  BufSize = 2
  MaxRead = 4
  SeekPastEnd = TRUE
SPECIFICATION Spec
INVARIANTS
  TypeOK
  BufferWindow
  StaysInSection
  ReadDelivers
  TruncationExact
PROPERTY CallReturns
CHECK_DEADLOCK FALSE
