SPECIFICATION Spec
CONSTANTS
  c1 = c1
  c2 = c2
  good = good
  bad = bad
  mixed = mixed
  empty = empty
  NoName = NoName
  Conns = {c1, c2}
  Domains = {good, bad, mixed, empty}
  EmptyName = empty
  Access <- MCAccess
  Key <- OwnPorts
  Sni <- SniBadGood
  RecLen <- RecLen85
  NameEnd <- NameEnd4
  RECORD_HEADER = 1
  MIN_PAYLOAD = 3
  MAX_FLOW_CACHE_COUNT = 2
  MAX_PACKET_COUNT = 2
  FLOW_PAYLOAD_SIZE = 9
  FLOW_TTL = 1
  GC_INTERVAL = 1
  QUEUE_MAXLEN = 3
  KeyPads = {0, 1}
  Lengths = {2, 3, 4}
  Queries <- NoQueries
  Spurious = {c2}
  StartTime = 3
  MaxTime = 5
  MaxPackets = 5
  MaxExits = 0
INVARIANTS
  TypeOK
  NoStrayVerdict
  FlowsWaitForMore
  OneFlowPerConn
  BufferIsPrefix
  DeniedNameBlocked
PROPERTIES
  AllowedNotDropped
  ForgetsOnlyOnOverflow
CHECK_DEADLOCK FALSE
