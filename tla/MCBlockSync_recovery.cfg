SPECIFICATION Spec
CONSTANTS
  MaxBlock = 3
  Txs = {}
  BlockOf <- NoTxs
  Listened = {1}
  InlineThreshold = 1
  ChunkSize = 1
  LowBlock = 1
  Slots = {"own"}
  MaxFailures = 0
  Time <- Uneven
  RecoveryDelay = 1
  Operations = {"stop", "lowTier"}
  t1 = t1
  t2 = t2
CHECK_DEADLOCK FALSE
INVARIANTS NothingPastHead
PROPERTIES ScanAsksForHoles WantedIsKept
