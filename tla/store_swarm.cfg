SPECIFICATION Spec
CONSTANTS
  Hash = {h1}
  Key = {k1, k2}
  U32_MAX = 1
  Worker = {w1}
  Listening = {"v6"}
  SHARD_COUNT = 1
  ShardOf <- LastShard
  PEER_TIMEOUT_MINUTES = 2
  TORRENT_TIMEOUT_MINUTES = 2
  GC_INTERVAL_SECS = 1
  SecsPerMinute = 1
  ClockLag = 1
  HandlerLag = 1
  GcLag = 1
  MaxWall = 2
  MaxDownloaded = 2
  MaxNumwant = 1
SYMMETRY Symmetry
INVARIANTS SeedersExact CompletedCounted
PROPERTY ImplementsSwarm
