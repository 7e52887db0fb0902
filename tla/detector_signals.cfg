SPECIFICATION Spec
CONSTANTS
  a1 = a1 a4 = a4 h1 = h1 h2 = h2 k0 = k0 k1 = k1 p1 = p1 p2 = p2
  Ip = {a1}
  Hash = {h1, h2}
  Key = {k0, k1}
  Peer = {p1, p2}
  Worker = {w1, w2}
  TrivialKey = {k0}
  SHARDS = 1
  ShardOf <- OneShard
  BucketOf <- TwoBuckets
  RING = 2
  EVICT_SAMPLE = 2
  U32_MAX = 11
  config <- Small
  Hostile <- Anything
  honest <- NoHonest
  HonestGap = 5
  ClockLag = 1
  HandlerLag = 1
  MaxWall = 3
  MaxOffences = 1
SYMMETRY Symmetry
CHECK_DEADLOCK FALSE
INVARIANTS TypeOK
PROPERTIES DecayUnhurried
