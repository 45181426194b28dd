CONSTANTS
  CounterChain = "btc"
  TBtc = 6
  TRxd = 5
  ClockStep = 1
  Policy <- BtcPolicy
  CrossClockMargin = 0
  ConfirmWait = 0
  StallWindow = 1
  Runbook <- DustRunbook
  DurableSeen = FALSE
  SecretOnDisk = TRUE
  MakerCsvRefund = FALSE
  Evictions = FALSE
  Cancellations = FALSE
  MaxCrashes = 1
SPECIFICATION FairSpec
INVARIANTS OneLock SecretOnlyAfterBothLocked NoSplit RecordIsTrue TerminalRecordIsTrue
PROPERTIES DurableNeverRegresses ImplementsAtomicSwap ValueComesOut
