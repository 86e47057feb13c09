\* as FreshdeskRequests.cfg, for the window the requests share
CONSTANTS
  Requests = {r1, r2}
  Attempts = 3
  Headers <- MCHeaders
  Fallback = 3
  MinSeconds = 2
  MaxSeconds = 4
SPECIFICATION Spec
PROPERTIES
  NoSendInWindow
