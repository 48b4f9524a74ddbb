SPECIFICATION Spec
CONSTANTS
  Incidents = {1}
  Workers = {w1, w2}
  Reviewers = {c1}
  Unrunnable = {}
  BatchSize = 5
  MaxRecs = 2
  MaxUndone = 1
  MaxCrashes = 1
  MaxDecisions = 2
CHECK_DEADLOCK FALSE
SYMMETRY FleetSymmetry
INVARIANT BugsBoundedByFleet
