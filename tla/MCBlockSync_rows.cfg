SPECIFICATION Spec
CONSTANTS
  MaxBlock = 1
  Txs = {t1}
  BlockOf <- TxInOne
  Listened = {0, 1}
  InlineThreshold = 1
  ChunkSize = 2
  LowBlock = 1
  Slots = {"own"}
  MaxFailures = 1
  Time <- Uneven
  RecoveryDelay = 1
  Operations = {"delete", "rpc"}
  t1 = t1
  t2 = t2
CHECK_DEADLOCK FALSE
INVARIANTS TypeOK BlockWatched
PROPERTIES StoreSpec
