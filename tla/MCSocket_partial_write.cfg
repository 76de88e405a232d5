SPECIFICATION Spec
CONSTANTS
  SOCKET_BUFFER_SIZE = 4
  IntSize = 1
  SizeModulus = 65536
  Requests <- Streams
  StartupResponse <- Startup
  ResponseLengths <- Answers
  MaxRefusals = 1
  MaxConnections = 1
INVARIANTS
  ResponsesIntact
CHECK_DEADLOCK FALSE
