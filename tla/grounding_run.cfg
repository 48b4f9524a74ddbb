SPECIFICATION Spec
CONSTANTS
  f1 = f1
  f2 = f2
  Files = {f1, f2}
  Preferred = {f2}
  Foreign = foreign
  NoFile = none
  Length <- MCLength
  Numbers = {1, 4}
  MaxLines = 3
  MaxFrames = 2
  FallbackFrames = 1
  ContextLines = 1
INVARIANTS SnippetsMatchTrace TriageNeverDowngrades
CHECK_DEADLOCK FALSE
