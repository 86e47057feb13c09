\* two syncs of one tenant, triggered in the same or in different seconds
CONSTANTS
  Tenants = {t1}
  Tasks = {k1, k2}
  Options <- OneKindOptions
  NPages = 1
  NBatches = 1
  Seconds = {0, 1}
  None = None
SYMMETRY TaskSymmetry
SPECIFICATION Spec
INVARIANTS
  TypeOK
  MetadataNotAheadOfUpload
  StatusTellsOutcome
