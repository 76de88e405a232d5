SPECIFICATION FairSpec
CONSTANTS
  SOCKET_BUFFER_SIZE = 4
  IntSize = 1
  SizeModulus = 65536
  Requests <- Streams
  StartupResponse <- Startup
  ResponseLengths <- Answers
  MaxRefusals = 1
  MaxConnections = 2
INVARIANTS
  TypeOK
  PacketsExact
  StreamIntact
  NothingLost
PROPERTIES
  RequestsServed
CHECK_DEADLOCK FALSE
