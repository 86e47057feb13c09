\* Bounds: three documents in batches of one show it.
CONSTANTS
  Docs = {1, 2, 3}
  PageSize = 1
  BatchLimit = 1
  Batches = 2
  BatchRetries = 2
  MaxWrites = 2
  MaxStores = 1
SPECIFICATION ReuploadSpec
INVARIANTS BatchesContinue
CHECK_DEADLOCK FALSE
