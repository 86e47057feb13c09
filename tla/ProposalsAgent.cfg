\* one analysis of the default mode is enough
CONSTANTS
  Calls = {c1}
  Clients = {q1}
  Nobody = Nobody
  RedisUrl = TRUE
SPECIFICATION Spec
INVARIANT CompletedIsFound
