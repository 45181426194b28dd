CONSTANTS
  CounterChain = "btc"
  TBtc = 5
  TRxd = 4
  ClockStep = 1
  Policy <- BtcPolicy
  CrossClockMargin = 0
  ConfirmWait = 0
  StallWindow = 1
  Runbook <- DustRunbook
  DurableSeen = FALSE
  SecretOnDisk = TRUE
  MakerCsvRefund = FALSE
  Evictions = FALSE
  Cancellations = FALSE
  MaxCrashes = 0
SPECIFICATION FairSpec
PROPERTY RevealedSecretRecovers
