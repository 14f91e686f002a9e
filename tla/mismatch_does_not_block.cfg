SPECIFICATION Spec
CONSTANTS
  p1 = p1
  p2 = p2
  base = base
  patched = patched
  other = other
  Procs = {p1}
  Trees = {base, patched, other}
  Base = base
  Patches = {patched}
  Repos <- ExpectedOnly
  Meddling = {"litter"}
  MaxMeddling = 1
CHECK_DEADLOCK FALSE
PROPERTIES MismatchBlocks
