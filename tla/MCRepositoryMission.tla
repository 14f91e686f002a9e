------------------------- MODULE MCRepositoryMission -------------------------
(* Instances of RepositoryMission: the trees and the repositories found.   *)
EXTENDS RepositoryMission, TLC

CONSTANTS p1, p2, base, patched, other

Main(tree) == [tree |-> tree, ours |-> FALSE]

\* On main at the expected base, clean, without the mission's branch.
Expected == [branch |-> "main", main |-> Main(base), ref |-> NoCommit,
             index |-> base, wt |-> base, out |-> FALSE]

\* And the repositories that _inspect_base and _ensure_mission_branch refuse: a
\* stale base, an edited work tree, a stray file, a mission branch that exists.
MCRepos ==
  { Expected,
    [Expected EXCEPT !.main = Main(other), !.index = other, !.wt = other],
    [Expected EXCEPT !.wt = other],
    [Expected EXCEPT !.out = TRUE],
    [Expected EXCEPT !.ref = Main(base)] }

ExpectedOnly == {Expected}
MCSymmetry == Permutations({p1, p2})
=============================================================================
