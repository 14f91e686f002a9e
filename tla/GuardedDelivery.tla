---------------------------- MODULE GuardedDelivery ----------------------------
(***************************************************************************)
(* What a guarded repository mission promises, without processes, evidence *)
(* rows or Git commands: it follows one path of states or is refused, only *)
(* a tree that passed the tests is published, and only the published tree  *)
(* is put before a human.                                                  *)
(***************************************************************************)
CONSTANTS
  Path,      \* the next state of each state that has one
  Refusals,  \* the states of a mission that was refused
  Trees,     \* what may be delivered
  None       \* no tree

VARIABLES
  state,      \* where the mission is
  passed,     \* the trees that passed the tests
  published,  \* the tree in the origin
  draft       \* the tree put before a human

vars == <<state, passed, published, draft>>

Init ==
  /\ state = "absent"
  /\ passed = {} /\ published = None /\ draft = None

Propose ==
  /\ state = "absent"
  /\ state' = "created"
  /\ UNCHANGED <<passed, published, draft>>

\* The draft is recorded with the state that says so.
Advance ==
  /\ state \in DOMAIN Path \ {"reviewed"}
  /\ state' = Path[state]
  /\ state = "changed" => passed # {}
  /\ state = "tested" => published # None
  /\ UNCHANGED <<passed, published, draft>>

Refuse ==
  /\ state \in DOMAIN Path
  /\ state' \in Refusals
  /\ UNCHANGED <<passed, published, draft>>

Pass(t) ==
  /\ state = "changed"
  /\ passed' = passed \cup {t}
  /\ UNCHANGED <<state, published, draft>>

\* Nothing else is published later.
Publish(t) ==
  /\ state = "tested"
  /\ t \in passed /\ published = None
  /\ published' = t
  /\ UNCHANGED <<state, passed, draft>>

Submit ==
  /\ state = "reviewed"
  /\ state' = Path[state]
  /\ draft' = published
  /\ UNCHANGED <<passed, published>>

Next == Propose \/ Advance \/ Refuse \/ Submit \/ \E t \in Trees : Pass(t) \/ Publish(t)

Spec == Init /\ [][Next]_vars
=============================================================================
