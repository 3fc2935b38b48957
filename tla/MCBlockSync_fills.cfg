SPECIFICATION FairSpec
CONSTANTS
  MaxBlock = 2
  Txs = {t1}
  BlockOf <- TxInOne
  Listened = {2}
  InlineThreshold = 1
  ChunkSize = 2
  LowBlock = 4
  Slots = {"own"}
  MaxFailures = 0
  Time <- Uneven
  RecoveryDelay = 1
  Operations = {"otherJobs"}
  t1 = t1
  t2 = t2
CHECK_DEADLOCK FALSE
PROPERTIES ChainFilled
