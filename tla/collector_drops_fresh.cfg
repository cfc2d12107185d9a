SPECIFICATION Spec
CONSTANTS
  c1 = c1
  c2 = c2
  good = good
  bad = bad
  mixed = mixed
  empty = empty
  NoName = NoName
  Conns = {c1, c2}
  Domains = {good, bad, mixed, empty}
  EmptyName = empty
  Access <- MCAccess
  Key <- OwnPorts
  Sni <- SniBadGood
  RecLen <- RecLen5
  NameEnd <- NameEnd4
  RECORD_HEADER = 1
  MIN_PAYLOAD = 3
  MAX_FLOW_CACHE_COUNT = 1
  MAX_PACKET_COUNT = 2
  FLOW_PAYLOAD_SIZE = 6
  FLOW_TTL = 1
  GC_INTERVAL = 1
  QUEUE_MAXLEN = 3
  KeyPads = {0}
  Lengths = {2, 4, 6}
  Queries <- NoQueries
  Spurious = {}
  StartTime = 3
  MaxTime = 5
  MaxPackets = 5
  MaxExits = 0
PROPERTIES
  FreshFlowsKept
CHECK_DEADLOCK FALSE
