SPECIFICATION FairSpec
CONSTANTS
  Host4 = {h4}
  Host6 = {h6}
  Thread = {t1, t2}
  nft_enable = TRUE
  nft_table <- InetOnly
  nft_set4 <- Two4
  nft_set6 <- One6
  FirewallTable <- Filter
  Timeout <- Short
  ban_tiers = 4
  reban_cooldown = 1
  U32_MAX = 2
  MaxRestarts = 1
INVARIANT TypeOK
INVARIANT PromiseKept
PROPERTY EverLockedOut
