\* three requests, a history of two turns, Redis that may be away at a start
CONSTANTS
  Requests = {r1, r2, r3}
  MaxTurns = 2
  RedisUrl = TRUE
SYMMETRY Symmetry
SPECIFICATION Spec
INVARIANTS
  TypeOK
  HistoryInOrder
  AnsweredOnce
PROPERTY MemoryConversation
