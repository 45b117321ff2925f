\* A WRITE whose length wraps XDR_QUADLEN.
CONSTANTS
  Width = 5
  PageSize = 2
  MaxPayload = 4
  ReadCount = 5
  Writes <- MCWritesWrap
SPECIFICATION Spec
\* Both clients stop: the writer after its last call, the reader at eof.
CHECK_DEADLOCK FALSE
INVARIANT WrittenBytesReceived
