\* Exclusive and unchecked creates over a lossy, duplicating network.
CONSTANTS
  c1 = c1
  c2 = c2
  n1 = n1
  NULL = NULL
  Clients <- MCClients
  Names <- MCNames
  Script <- MCScriptCreate
  MaxSends <- MCMaxSends
SPECIFICATION Spec
\* The system stops when both clients have finished their calls.
CHECK_DEADLOCK FALSE
INVARIANT TypeOK
INVARIANT ExclusiveCreateUnique
INVARIANT RepliesReportFirstExecution
PROPERTY AllCallsAnswered
