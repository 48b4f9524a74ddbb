SPECIFICATION Spec
CONSTANTS
  Fingerprints = {f1, f2}
  Refused = {}
  Schedulers = {s1, s2}
  Clients = {c1}
  MaxRows = 3
  MaxCrashes = 1
SYMMETRY ReplicaSymmetry
INVARIANTS TypeOK OneRowPerFingerprint AnswerMeansStored
PROPERTIES CycleIsAtomic
