SPECIFICATION Spec
CONSTANTS
  Platforms = {TRUE}
  Values = {0, 1, 2, 7}
  MaxThreads = 3
INVARIANT
  CreatedAsReported
