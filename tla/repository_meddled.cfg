SPECIFICATION Spec
CONSTANTS
  p1 = p1
  p2 = p2
  base = base
  patched = patched
  other = other
  Procs = {p1}
  Trees = {base, patched, other}
  Base = base
  Patches = {patched}
  Repos <- MCRepos
  Meddling = {"edit", "litter", "commit", "switch"}
  MaxMeddling = 1
CHECK_DEADLOCK FALSE
INVARIANTS PublishedIsTested RefusedIsUnpublished
