SPECIFICATION ServicesSpec
CONSTANTS
  Enqueuers = {e1, e2}
  Jobs = {j1, j2}
  Named = {j1, j2}
  Cap = 1
  Operations <- Everything
  MaxMishaps = 1
  e1 = e1
  e2 = e2
  s1 = s1
  s2 = s2
  r1 = r1
  r2 = r2
  g1 = g1
  g2 = g2
  g3 = g3
  b1 = b1
  b2 = b2
  b3 = b3
CHECK_DEADLOCK FALSE
INVARIANTS
  TypeOK
  OvershootBounded
  LifecycleTypeOK
  RetentionTypeOK
  OpTypeOK
  OrbitTypeOK
  BatchesLeaveNoGap
  OutputsNumbered
  ExecutedMeansRelayed
  LivingKeepsWorkspace
  PassedBlocksAreAsked
PROPERTIES
  SweepRestoresCap
  PayingIsNotCapped
  LiveIsActive
  EndingIsPending
  EndedIsRemovedByWebhook
  AbandonedDemoGoes
  OnlyOldGo
  BlocksOfWindowGo
  OutputsFinalize
  RelayedStays
