SPECIFICATION Spec
CONSTANTS
  Hash = {h1}
  Key = {k1}
  U32_MAX = 1
  Worker = {w1, w2}
  Listening = {"v4"}
  SHARD_COUNT = 2
  ShardOf <- LastShard
  PEER_TIMEOUT_MINUTES = 3
  TORRENT_TIMEOUT_MINUTES = 4
  GC_INTERVAL_SECS = 2
  SecsPerMinute = 2
  ClockLag = 1
  HandlerLag = 2
  GcLag = 1
  MaxWall = 15
  MaxDownloaded = 1
  MaxNumwant = 0
SYMMETRY Symmetry
INVARIANTS TypeOK StalePeerGone EmptyTorrentGone
PROPERTIES FreshPeerKept DownloadsKept
