SPECIFICATION FairSpec
CONSTANTS
  Tester = Tester
  Helpers = {h1}
  MaxLibs = 2
  MaxSuites = 2
  MaxTests = 1
  MaxExcused = 1
INVARIANTS
  TypeOK
  ReportAccountedFor
  LogOffBetweenTests
  EndsInOrder
  NoStaleSuites
PROPERTIES
  ImplementsTestRun
  Terminates
