SPECIFICATION Spec
CONSTANTS
  Reviewers = {c1, c2}
  MaxRecs = 1
  MaxFailures = 2
  MaxDrops = 1
  MaxEvents = 4
CHECK_DEADLOCK FALSE
SYMMETRY ReviewerSymmetry
INVARIANTS TypeOK AuditCoversTrace FailureIsAudited EveryAgentReports ClosedIsValidated
PROPERTIES ImplementsOutcome
