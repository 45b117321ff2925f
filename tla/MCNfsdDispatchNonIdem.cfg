\* GUARDED create, remove, mkdir and rmdir retransmitted with no reply cache.
CONSTANTS
  c1 = c1
  c2 = c2
  n1 = n1
  NULL = NULL
  Clients <- MCClients
  Names <- MCNames
  Script <- MCScriptNonIdem
  MaxSends <- MCMaxSends
SPECIFICATION Spec
\* The system stops when both clients have finished their calls.
CHECK_DEADLOCK FALSE
INVARIANT RepliesReportFirstExecution
