CONSTANTS
  Policy <- MCPolicy
  TRxd = 4
  MaxHeight = 6
  MaxCrashes = 2
  Kinds = {"dust", "eth", "nft", "ft", "grief"}
  RunPolicy <- MCPolicy
  RunTRxd = 6
  Observed <- MCObserved
  TailPercentile = 95
  EthTimeout = 9
  DeadlineArgs <- MCDeadlineArgs
  FloorS = 600
  CommitPhotons = 7
  FeePhotons = 2
  Carrier = 3
  MaxDepth = 2
  RunMaxHeight = 10
  RunMaxCrashes = 2
  Procs = {1, 2}
  MaxFanouts = 2
  MaxKeys = 3
  Sats = {1, 6}
  Tbtcs = {1, 2, 3}
  Trxds = {1}
  Fees = {1, 5}
  DustLimit = 4
  Ceiling = 6
  MaxSetups = 2
  MaxFundings = 2
SPECIFICATION MCSpec
  
PROPERTY WaitEnds
CHECK_DEADLOCK FALSE
