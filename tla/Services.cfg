\* Bounds: three sessions of two names, one a pattern of the other, three streams, three learners, two runs, two callers, three jobs,
\* two documents and two writes of them, three products of three documents, three editors of one article.
CONSTANTS
  Names <- TypedNames
  Person <- People
  Ilike <- Patterns
  Unissued = Unissued
  Scenarios = {c1}
  Modules = {m1}
  MaxSessions = 3
  MaxTries = 1
  Streams = {s1, s2, s3}
  HistoryMax = 2
  Recent = 1
  Learners = {p1, p2, p3}
  Runs = {r1, r2}
  MaxEdits = 2
  Limit = 1
  Confidences = {75}
  Thresholds = {70}
  Callers = {k1, k2}
  Ttl = 2
  MaxClock = 3
  MaxChanges = 1
  Calls = {c2}
  MaxAttempts = 3
  Tenants = {t1, t2}
  Jobs = {j1, j2, j3}
  Domains = {d1}
  NoDomain = NoDomain
  NoJob = NoJob
  Askers = {a1, a2}
  Ids = {i1}
  MaxItems = 1
  Docs = {1, 2}
  PageSize = 1
  BatchLimit = 1
  Batches = 2
  BatchRetries = 2
  MaxWrites = 2
  MaxStores = 1
  Products = {1, 2, 3}
  RangeSize = 2
  MaxRows = 3
  Labels <- FieldLabels
  Odd = "odd"
  Editors = {e1, e2, e3}
  Articles = {n1}
SPECIFICATION Spec
INVARIANTS
  TypeOK TriesBacked LatestTurnsInOrder FullMarks RowsTellTheOutcome ExportedOnce
  CachedListIsRecent KeptListHasOwnChanges FailoverEarned DuplicatesAreLostAnswers
  RefusedOnlyWhileRunning KnownIsLabelled
  StoredBehindCursor SteadyAreListed ChosenOptionIsUsed NotFoundIsGone
PROPERTIES ProgressSurvives AnswersKeepContext
\* Requests come to an end, and the bounds are reached.
CHECK_DEADLOCK FALSE
