\* one sync, cancelled while it runs
CONSTANTS
  Tenants = {t1}
  Tasks = {k1}
  Options <- FullOptions
  NPages = 1
  NBatches = 1
  Seconds = {0}
  None = None
SPECIFICATION Spec
PROPERTY CancelIsFinal
