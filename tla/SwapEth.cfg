CONSTANTS
  CounterChain = "eth"
  TBtc = 3840
  TRxd = 5
  ClockStep = 384
  Policy <- EthPolicy
  CrossClockMargin = 384
  ConfirmWait = 384
  StallWindow = 1
  Runbook <- DustRunbook
  DurableSeen = TRUE
  SecretOnDisk = TRUE
  MakerCsvRefund = FALSE
  Evictions = FALSE
  Cancellations = FALSE
  MaxCrashes = 1
SPECIFICATION Spec
PROPERTY ImplementsAtomicSwap
