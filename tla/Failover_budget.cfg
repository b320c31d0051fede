CONSTANTS
  Interval = 15
  Fresh = 45
  Backoff = 2
  MaxBackoff = 30
  MaxDial = 45
  MaxDelay = 1
  MaxMissed = 2
  MaxLosses = 4
SPECIFICATION LiveSpec
INVARIANT TypeOK
INVARIANT StaysPrimary
PROPERTY Returns
