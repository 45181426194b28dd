CONSTANTS
  IntMax = 127
  Radix = 4
  EpochMaxSafe = 8
  Miners = {"x", "y"}
  Deploys <- MCDeploys
  Given <- MCGiven
  Times = {0, 3, 8, 9}
  TimeMax = 8
  Coins <- MCCoins
  FeeAllowance = 3
  TxFee = 2
  DustLimit = 1
  MaxRerolls = 2
  Keys = {"a", "b"}
  Treasuries = {"a"}
  Recipients = {"z"}
  Procs = {1, 2}
  Metas <- MCMetas
  Supplies = {13}
  Amounts = {4}
  Contracts = {1}
  Genesis <- MCGenesis
  CommitValue = 6
  CommitFee = 1
  RevealFeeEstimate = 3
  TransferFee = 1
  NeededForNft = 2
  Dust = 2
  RefSeed = 1
  MaxTxs = 4
  Offers = {1, 2}
  Requests <- MCRequests
  Artifacts <- MCArtifacts
  Nbits <- MCNbits
  FloorBits = 0
  Watched = {1}
  Payments <- MCPayments
  Price = 2
  Depths = {1}
  MerkleDepth = 1
  Slots = 2
  RetargetAt = 3
  Confs = 1
  Deadline = 1
  MinDelta = 1
  MaxTime = 1
  Funding = 10
  Offered = 6
  FeeRxd = 1
  FeeClaim = 1
  FeeFinalize = 2
  MaxPolls = 1
  MaxBlocks = 3
  MaxReorgs = 1
  MaxCrashes = 1
SPECIFICATION MCSpec
INVARIANTS
  
  NftsSurvive
  
  
CHECK_DEADLOCK FALSE
