--------------------------- MODULE MCMissionEngine ---------------------------
(* Instances of MissionEngine: the contracts and the commands of each process. *)
EXTENDS MissionEngine, TLC

CONSTANTS p1, p2

\* Two steps; no side effects, no gates, room for both steps.
Plain == [effects |-> {}, irreversible |-> {}, expanded |-> {}, outside |-> {},
          rollback |-> [s \in Steps |-> "none"], budget |-> 2, evidence |-> TRUE]

\* A contract that exercises every branch at least once, one concern each.
MCContracts ==
  { Plain,
    [Plain EXCEPT !.budget = 1],
    [Plain EXCEPT !.evidence = FALSE, !.outside = {2}],
    [Plain EXCEPT !.evidence = FALSE, !.irreversible = {1}],
    [Plain EXCEPT !.effects = {1, 2}, !.rollback = [s \in Steps |-> "effect"]],
    [Plain EXCEPT !.effects = {1}, !.budget = 1,
                  !.rollback = [s \in Steps |-> IF s = 1 THEN "effect" ELSE "pure"]],
    [Plain EXCEPT !.effects = {1, 2}, !.irreversible = {1}, !.expanded = {1},
                  !.rollback = [s \in Steps |-> IF s = 1 THEN "none" ELSE "outside"]] }

MCProcs == {p1, p2}
MCSymmetry == Permutations(MCProcs)

\* Two runners with a side effect at risk; an effect behind both human gates.
RacingContracts ==
  { [Plain EXCEPT !.effects = {1}],
    [Plain EXCEPT !.effects = {1}, !.irreversible = {1}, !.expanded = {1}] }

AllCommands == [p \in Procs |-> CommandNames]

\* cancel adds a second way into a terminal state, which rollback covers.
RacingCommands == [p \in Procs |-> CommandNames \ {"cancel"}]

\* One contract each for the claims that fail.
SmallBudget == {[Plain EXCEPT !.budget = 1]}
IrreversibleStep == {[Plain EXCEPT !.irreversible = {1}]}
EffectfulStep == {[Plain EXCEPT !.effects = {1}, !.rollback = [s \in Steps |-> "effect"]]}
PureSteps == {Plain}
=============================================================================
