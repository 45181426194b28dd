CONSTANTS
  CounterChain = "btc"
  TBtc = 6
  TRxd = 5
  ClockStep = 1
  Policy <- BtcPolicy
  CrossClockMargin = 0
  ConfirmWait = 0
  StallWindow = 1
  Runbook <- FullRunbook
  DurableSeen = FALSE
  SecretOnDisk = TRUE
  MakerCsvRefund = TRUE
  Evictions = TRUE
  Cancellations = TRUE
  MaxCrashes = 0
SPECIFICATION Spec
INVARIANTS SafeClaimRestsOnFinalClaim SafeClaimHadRoom
