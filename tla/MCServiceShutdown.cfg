SPECIFICATION Spec
CONSTANTS
  None = None
  a1 = a1
  a2 = a2
  g1 = g1
  Requests <- TwoRequests
  Readers <- OneReader
  MaxConcurrent = 2
PROPERTY GracefulShutdown
