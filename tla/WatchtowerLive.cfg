CONSTANTS
  s1 = s1
  s2 = s2
  store = store
  Store = store
  Swaps = {s1, s2}
  Situations = {"WATCH", "PAGE_SQUEEZED", "PAGE_REFUND"}
  RepageEvery = 2
  MaxSilence = 1
  Tolerance = 0
  MaxSkew = 0
  Skews = {0}
  AckIds = {}
  MaxCrashes = 0
SPECIFICATION FairSpec
PROPERTIES UnackedCriticalIsRepaged RefundPageIsDelivered
