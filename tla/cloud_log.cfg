SPECIFICATION Spec
CONSTANTS
  LOGBUFFER_MAXSIZE = 3
  LOGBUFFER_INTERVAL = 1
  AUTHHEADER_TTL = 1
  TOKEN_LIFETIME = 3
  StartTime = 2
  MaxTime = 6
  MaxLines = 4
  MaxRotations = 1
  MaxExits = 1
INVARIANTS
  TypeOK
  StoredOnce
  BufferIsDrained
  RefusalsEnd
  TokenAsked
PROPERTIES
  ImplementsChannel
CHECK_DEADLOCK FALSE
