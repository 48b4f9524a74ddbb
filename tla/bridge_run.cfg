SPECIFICATION Spec
CONSTANTS
  Services = {s1, s2}
  Lines <- SomeLines
  TracebackCap = 2
  MaxStored = 1
  MaxRedisFailures = 1
SYMMETRY ServiceSymmetry
INVARIANTS TypeOK DetectionsAreWhole OnlyEverEnabled StoreIsBounded
