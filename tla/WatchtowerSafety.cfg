CONSTANTS
  s1 = s1
  s2 = s2
  store = store
  Store = store
  Swaps = {s1}
  Situations = {"WATCH", "PAGE_CLAIM", "ERROR"}
  RepageEvery = 1
  MaxSilence = 1
  Tolerance = 0
  MaxSkew = 2
  Skews = {0, 2}
  AckIds = {s1}
  MaxCrashes = 1
SPECIFICATION Spec
INVARIANT SilenceIsPaged
 
