SPECIFICATION Spec
CONSTANTS
  Tester = Tester
  Helpers = {h1, h2}
  Strays = {}
  MaxLibs = 1
  MaxTests = 1
  MaxArm = 0
INVARIANT
  FailedRunFails
