SPECIFICATION Spec
CONSTANTS
  Runbooks = {"retry", "keda"}
  Texts <- MCTexts
  Samples <- MCSamples
  Gone = Gone
  MaxChars = 9
  OverlapChars = 2
  MinChars = 5
  BatchSize = 2
  MaxRetries = 2
  MaxRuns = 2
  MaxEdits = 1
INVARIANTS ChunksKeepText IndexHoldsChunks CompletedRunIsIndexed
CHECK_DEADLOCK FALSE
