------------------------ MODULE MCSleepConsolidation ------------------------
(* Instances of SleepConsolidation: the events that may be appended.       *)
EXTENDS SleepConsolidation, TLC

CONSTANTS s1, s2, a, blank

Raw(kind, content) == [kind |-> kind, typed |-> FALSE, type |-> "none", content |-> content]
Typed(kind, type, content) ==
  [kind |-> kind, typed |-> TRUE, type |-> type, content |-> content]

\* One event for each outcome of _classify that the properties tell apart, its
\* exception included, all of one content.
MCInputs ==
  { Raw("correction", a), Raw("protomentat_input", a),
    Typed("tool_output", "proposition_change", a),
    Typed("erasmus_output", "proposition_change", a),
    Typed("tool_output", "behavioral_lesson", a),
    Typed("tool_output", "unhashable", a) }

\* A lesson of a reviewer, one of a tool and a blank one, for the interleavings of
\* two sleepers.
Lessons ==
  {Raw("correction", a), Raw("correction", blank), Typed("tool_output", "behavioral_lesson", a)}
MCSymmetry == Permutations({s1, s2})
=============================================================================
