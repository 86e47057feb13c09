\* two requests on Redis
CONSTANTS
  Requests = {r1, r2}
  MaxTurns = 2
  RedisUrl = TRUE
SPECIFICATION Spec
PROPERTY RedisConversation
