SPECIFICATION Spec
CONSTANTS
  Incidents = {1}
  Workers = {w1}
  Reviewers = {c1}
  Unrunnable = {}
  BatchSize = 5
  MaxRecs = 2
  MaxUndone = 1
  MaxCrashes = 1
  MaxDecisions = 3
CHECK_DEADLOCK FALSE
INVARIANTS TypeOK PersistedTogether NoPrWithoutApproval EffectsRepeatOnlyAfterRollback RankStillValid ApprovalIsLastDecision
PROPERTIES StatusOnlyAdvances ImplementsPolicy
