SPECIFICATION Spec
CONSTANTS
  Tester = Tester
  Helpers = {h1}
  Strays = {}
  MaxLibs = 1
  MaxTests = 2
  MaxArm = 0
INVARIANT
  LogOffBetweenTests
