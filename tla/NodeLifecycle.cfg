SPECIFICATION Spec
CONSTANTS
  Service <- MCService
  Networking = TRUE
  Situation <- MCSituations
  MaxStarts = 2
  s1 = s1
  s2 = s2
INVARIANTS TypeOK StateTruthful   StartsAndStopsOnce
 
