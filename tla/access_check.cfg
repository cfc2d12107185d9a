SPECIFICATION FairCheckSpec
CONSTANTS
  site = site
  www = www
  NULL = NULL
  Domains = {site, www}
  Walk <- MCWalk
  Classes <- MCClasses
  UNKNOWN <- Unknown
  DOMAIN_INFO_ARENA_SIZE = 2
  GCINTERVAL = 1
  DEFAULT_TTL = 2
  CURL_TIMEOUT = 1
  Entries <- MCEntries
  ConfigFiles <- MCFiles
  StartTime = 2
  MaxTime = 4
  MaxUpdates = 1
INVARIANTS
  TypeOK
  ArenaPartition
  ListsDecide
  BlockedOnEvidence
PROPERTIES
  AnswersAreYoung
  CollectorIsThorough
  LookupReturns
