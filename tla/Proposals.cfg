\* two analyses, one client that asks for both, Redis until it fails
CONSTANTS
  Calls = {c1, c2}
  Clients = {q1}
  Nobody = Nobody
  RedisUrl = TRUE
SPECIFICATION FairSpec
INVARIANTS
  TypeOK
  AnnouncedIsFound
  ProcessingIsInProgress
PROPERTIES
  OutcomeIsFinal
  EveryAnalysisEnds
