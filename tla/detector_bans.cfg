SPECIFICATION Spec
CONSTANTS
  a1 = a1 a4 = a4 h1 = h1 h2 = h2 k0 = k0 k1 = k1 p1 = p1 p2 = p2
  Ip = {a1, a2}
  Hash = {h1}
  Key = {k1}
  Peer = {p1}
  Worker = {w1, w2}
  TrivialKey = {}
  SHARDS = 1
  ShardOf <- OneShard
  BucketOf <- NoBuckets
  RING = 2
  EVICT_SAMPLE = 2
  U32_MAX = 100
  config <- Bans
  Hostile <- Mismatches
  honest <- OneHonest
  HonestGap = 3
  ClockLag = 1
  HandlerLag = 1
  MaxWall = 4
  MaxOffences = 3
SYMMETRY Symmetry
CHECK_DEADLOCK FALSE
INVARIANTS OverThresholdBanned OffencesRemembered HonestUnflagged
PROPERTIES BansApart NeverLenient
