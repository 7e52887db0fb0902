SPECIFICATION Spec
CONSTANTS
  a4 = a4
  a6 = a6
  h1 = h1
  Ip4 = {a4}
  Ip6 = {a6}
  Hash = {h1}
  Port <- MCPort
  Key <- MCKey
  U32_MAX = 1
  AnnounceQueries <- Queries
  ScrapeQueries <- Scrapes
  NUMWANT_DEFAULT = 1
  NUMWANT_MAX = 1
  MAX_SCRAPE_HASHES = 2
  MaxDownloaded = 1
CONSTRAINT Beside
INVARIANTS TypeOK OrderFree FamiliesApart RowsOfThisScrape
PROPERTIES NoFalseSeeder
