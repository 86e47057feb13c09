\* three concurrent requests, three attempts each, waits of 2 to 4 seconds
CONSTANTS
  Requests = {r1, r2, r3}
  Attempts = 3
  Headers <- MCHeaders
  Fallback = 3
  MinSeconds = 2
  MaxSeconds = 4
SPECIFICATION Spec
INVARIANT TypeOK
PROPERTIES
  OwnRetryAfterHonoured
  EveryRequestEnds
