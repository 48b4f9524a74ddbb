SPECIFICATION Spec
CONSTANTS
  Files = {f1, f2}
  LongFiles = {f2}
  Edits = {e1}
  Runs = {r1, r2}
  NoFile = none
  None = None
SYMMETRY RunSymmetry
INVARIANTS TypeOK OnePatch PullIsTheFix OutcomeIsTold
CHECK_DEADLOCK FALSE
