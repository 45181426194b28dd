CONSTANTS
  Callers = {"a", "b"}
  Method <- MCMethod
  MaxIds = 3
  MaxSockets = 3
  Workers = {0, 1}
  NonceMax = 9
  SolutionSets = {{}, {0}, {3}, {2, 6}, {8}}
  AttemptCaps = {3, 9, 11}
  CheckInterval = 2
  MaxDeaths = 1
  Rest = {"m", "b"}
  Core = {"c"}
  Liar = "b"
  Quorum = 2
  DustCap = 1
  MinConfs = 2
  TrueAmount = 3
  LiarAmounts = {1, 3, 4}
  MaxTip = 4
  MaxReorgs = 2
  Timeouts <- MCTimeouts
  Granularity = 2
  MaxUnits = 3
  Utxo = 10
  Sats = 6
  FeeSats = 1
  DustLimit = 2
  FundMinConfs = 1
  MaxPolls = 1
  Intervals = {1, 3}
  BtcMaxBlocks = 5
  BtcMaxReorgs = 1
  MaxTries = 3
  Timeout = 3
  EthMaxBlocks = 3
  MaxFound = 5
  MaxNonce = 1
  Daemons = {"A", "B"}
  Threshold = 1
  Amounts <- MCAgentAmounts
  InTotals = {2, 4}
  MaxSignals = 2
  Gap = 2
  PayValues = {20}
  SendAmounts = {3, 10}
  InBytes = 6
  OutBytes = 2
  Overhead = 1
  SendDust = 2
  MaxPayments = 2
  Keys = {"k1", "k2"}
  UnlockAt = {1, 2}
  MaxBlock = 2
  MaxTime = 2
  MaxProofs = 2
  SatsArgs = {0, 1, 2}
  Values = {0, 1, 2}
  Deadlines <- MCDeadlines
  TBtcs <- MCTBtcs
  TRxds <- MCTRxds
  LocatorAmounts = {1, 2}
  MaxRestarts = 2
  CoinValues = {40}
  Kinds = {"p2pkh", "rpuzzle"}
  Flags <- MCFlags
  Payments = {22}
  Rate = 1
  MaxIns = 2
  MaxOuts = 2
SPECIFICATION MCSpec
INVARIANT RecordsRoundTrip
CHECK_DEADLOCK FALSE
