SPECIFICATION Spec
CONSTANTS
  Reviewers = {c1}
  MaxRecs = 1
  MaxFailures = 0
  MaxDrops = 0
  MaxEvents = 1
CHECK_DEADLOCK FALSE
INVARIANT PullCarriesFix
