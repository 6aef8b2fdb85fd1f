\* The same reader over an in-memory stream (std::stringstream): a seekg past
\* the end of a file that was cut short leaves the position where it was.
CONSTANTS
  File <- MCFile
  HdrSize = 2
  BufSize = 2
  MaxRead = 4
  SeekPastEnd = FALSE
SPECIFICATION Spec
INVARIANT ReadsWhereSeeked
CHECK_DEADLOCK FALSE
