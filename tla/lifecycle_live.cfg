SPECIFICATION FairSpec
CONSTANTS
  Incidents = {1, 2, 3}
  Workers = {w1}
  Reviewers = {c1}
  Unrunnable = {1}
  BatchSize = 2
  MaxRecs = 1
  MaxUndone = 0
  MaxCrashes = 0
  MaxDecisions = 1
CHECK_DEADLOCK FALSE
PROPERTIES NewIncidentSettles ApprovalIsActedOn
