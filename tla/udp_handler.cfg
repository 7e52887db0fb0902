SPECIFICATION Spec
CONSTANTS
  Datagrams <- MCDatagrams
  Swarms <- MCSwarms
  U32_MAX = 310
  l7_enable = TRUE
  MaxServed = 2
CHECK_DEADLOCK FALSE
INVARIANTS TypeOK NoAmplification ReplyFits FreshCounts CountedOnce
