SPECIFICATION FairSpec
CONSTANTS
  Fingerprints = {f1, f2, bad}
  Refused = {bad}
  Schedulers = {s1}
  Clients = {c1}
  MaxRows = 3
  MaxCrashes = 0
PROPERTY EventuallyStored
