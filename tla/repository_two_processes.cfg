SPECIFICATION Spec
CONSTANTS
  p1 = p1
  p2 = p2
  base = base
  patched = patched
  other = other
  Procs = {p1, p2}
  Trees = {base, patched, other}
  Base = base
  Patches = {patched}
  Repos <- ExpectedOnly
  Meddling = {}
  MaxMeddling = 0
CHECK_DEADLOCK FALSE
SYMMETRY MCSymmetry
INVARIANTS TypeOK PathOnce
