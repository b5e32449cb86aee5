SPECIFICATION MCSpec
CONSTANTS
  r1 = r1
  r2 = r2
  r3 = r3
  r4 = r4
  k1 = k1
  Requests = {r1, r2, r3, r4}
  Keys = {k1, k2}
  CacheCap = 1
  LoadMayFail = FALSE
  DeviceMayBeRefused = FALSE
INVARIANTS
  NoUseAfterTeardown
