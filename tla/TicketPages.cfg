\* two groups of two pages, the last page short, two workers per page
CONSTANTS
  NPages = 3
  PerPage = 3
  LastSize = 2
  PageConc = 2
  Workers = 2
SPECIFICATION Spec
INVARIANTS
  TypeOK
  MissingPagesFailed
  TicketsClaimedOnce
PROPERTY StreamSpec
