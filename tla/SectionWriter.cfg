\* The buffer is smaller than a section and than the largest chunk; the file
\* holds up to two sections.  The run may stop: an object that has thrown is
\* not used again.
CONSTANTS
  z = z
  a = a
  Byte <- MCByte
  Zero = z
  HdrSize = 2
  BufSize = 2
  Chunk <- MCChunk
  MaxBytes = 5
  MaxBefore = 4
SPECIFICATION Spec
INVARIANTS
  TypeOK
  Positioned
  EarlierBytesIntact
  UnsizedUntilFinalize
  SealedFrame
PROPERTY ImplementsSection
CHECK_DEADLOCK FALSE
