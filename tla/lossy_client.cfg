SPECIFICATION Loses
CONSTANTS
  h = h
  k = k
  p = p
  client = a
  announce <- Sharing
  MaxLost = 1
  MaxRestarts = 2
  Intervals = {1620}
  Ip = {a}
  Hash = {h}
  Key = {k}
  Peer = {p}
  Worker = {w}
  TrivialKey = {}
  SHARDS = 16
  ShardOf <- FirstOf
  BucketOf <- Bucket
  RING = 8
  EVICT_SAMPLE = 8
  U32_MAX = 1000000
  config <- Default
  Hostile <- Requests
  honest <- NoHonest
  HonestGap = 61
  ClockLag = 0
  HandlerLag = 0
  MaxWall = 10500
  MaxOffences = 1
CHECK_DEADLOCK FALSE
INVARIANTS LossyClientUnbanned
