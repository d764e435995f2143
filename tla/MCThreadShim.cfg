SPECIFICATION FairSpec
CONSTANTS
  Platforms = {TRUE, FALSE}
  Values = {0, 1, 2, 7}
  MaxThreads = 3
INVARIANTS
  TypeOK
  JoinsAThread
  OneTestAtATime
  ParamsAreFreed
PROPERTIES
  DecidesOnTheValue
  GetsThrough
