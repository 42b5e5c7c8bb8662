CONSTANTS
  a = a
  b = b
  c = c
  d = d
  All = All
  Apps = {a, b}
  Categories = {c, d}
  Count = 3
  Queries = {{a}}
  FeaturedLimit = 1
  Indexes <- MCIndexes
SPECIFICATION FairSpec
CHECK_DEADLOCK FALSE
INVARIANTS
  TypeOK
  NoTornRead
  OpenFinds
  ShowsWhatWasAsked
PROPERTY EveryRepositoryIsAsked
