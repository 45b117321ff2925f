CONSTANTS
  PageWords <- MCPageWords
  RespPages <- MCRespPages
  MaxBlockSize <- MCMaxBlockSize
  NumEntries <- MCNumEntries
  NameLens <- MCNameLens
  Counts <- MCCounts
  FhSize <- MCFhSize
  NULL = NULL
SPECIFICATION Spec
INVARIANT NoStrayWrite
