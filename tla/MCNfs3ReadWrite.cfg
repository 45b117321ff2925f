\* An appending writer and a reader reading to eof.
CONSTANTS
  Width = 5
  PageSize = 2
  MaxPayload = 4
  ReadCount = 5
  Writes <- MCWrites
SPECIFICATION Spec
\* Both clients stop: the writer after its last call, the reader at eof.
CHECK_DEADLOCK FALSE
INVARIANT TypeOK
INVARIANT WrittenBytesReceived
INVARIANT ReaderSeesPriorWrites
