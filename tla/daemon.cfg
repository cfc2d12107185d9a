SPECIFICATION FairSpec
CONSTANTS
  c1 = c1
  c2 = c2
  c3 = c3
  Clients = {c1, c2, c3}
  QUEUE_MAXLEN = 4
INVARIANTS
  TypeOK
  FilteredIsUnreachable
PROPERTIES
  OnlyCollectorStops
