SPECIFICATION FairSpec
CONSTANTS
  Tester = Tester
  Helpers = {h1, h2}
  Strays = {}
  MaxLibs = 2
  MaxTests = 2
  MaxArm = 0
INVARIANTS
  TypeOK
  ReportAccountedFor
  FailureShows
  RunnerMallocsUnarmed
  RunLogKept
PROPERTIES
  ImplementsTestRun
  AbortIsFinal
  Terminates
