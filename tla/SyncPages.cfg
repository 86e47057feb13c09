\* one sync at a time, over several pages and batches
CONSTANTS
  Tenants = {t1}
  Tasks = {k1}
  Options <- MCOptions
  NPages = 3
  NBatches = 3
  Seconds = {0}
  None = None
SPECIFICATION Spec
INVARIANT CompletedSyncIsWhole
PROPERTIES
  CompletedIsQuiet
  EverySyncEnds
