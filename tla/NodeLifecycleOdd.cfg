SPECIFICATION Spec
CONSTANTS
  Service <- MCService
  Networking = TRUE
  Situation <- MCFaults
  MaxStarts = 2
  s1 = s1
  s2 = s2
INVARIANTS NothingActive NeverTwiceActive NetworkRuns StateAlwaysTruthful
