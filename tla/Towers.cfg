CONSTANTS
  Policy <- TowerPolicy
  Window = 1
  TRxd = 3
  TBtc = 2
  Sources = {"a", "b"}
  Quorum = 2
  MaxLag = 1
  FirstLock = 10
  LastBlock = 13
  MaxFunding = 2
  FeePool <- MCFeePool
  Cap = 4
  Wirings <- MCWirings
  MaxCrashes = 1
  Policies <- MCPolicies
  Values <- MCValues
  TRxds = {6, 9}
  MaxAge = 10
  MaxConfs = 4
  EthPolicy <- EthTowerPolicy
  EthWindow = 5
  EthTRxd = 6
  Patience = 2
  MaxNormalLag = 2
  Epoch = 2
  Replicas = FALSE
  MaxEth = 4
  LockedAt = 1
  MaxRxd = 2
  MaxForks = 1
  EthMaxCrashes = 1
SPECIFICATION MCSpec
CHECK_DEADLOCK FALSE
INVARIANTS
  WaitPaysOff BurialIsWorthIt EthPagesAreTrue AutoClaimHadRoom FeesAreContained
PROPERTY NoWaitAfterSqueezed
