CONSTANTS
  Interval = 15
  Fresh = 45
  Backoff = 2
  MaxBackoff = 30
  MaxDial = 45
  MaxDelay = 1
  MaxMissed = 2
  MaxLosses = 0
SPECIFICATION Spec
INVARIANT CoupleTolerated
