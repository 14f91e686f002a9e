SPECIFICATION FairSpec
CONSTANTS
  p1 = p1
  p2 = p2
  base = base
  patched = patched
  other = other
  Procs = {p1}
  Trees = {base, patched, other}
  Base = base
  Patches = {patched}
  Repos <- MCRepos
  Meddling = {"edit"}
  MaxMeddling = 1
CHECK_DEADLOCK FALSE
INVARIANTS DraftIsReviewed
PROPERTIES RunSettles Settles ImplementsGuardedDelivery
