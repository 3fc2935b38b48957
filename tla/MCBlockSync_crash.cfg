SPECIFICATION FairSpec
CONSTANTS
  MaxBlock = 1
  Txs = {t1}
  BlockOf <- TxInOne
  Listened = {1}
  InlineThreshold = 1
  ChunkSize = 2
  LowBlock = 1
  Slots = {"own"}
  MaxFailures = 1
  Time <- Uneven
  RecoveryDelay = 1
  Operations = {"crashBeforeHook"}
  t1 = t1
  t2 = t2
CHECK_DEADLOCK FALSE
PROPERTIES PartialBlocksResolve
