---------------------------- MODULE BoundedMission ----------------------------
(***************************************************************************)
(* What missions/CONTRACT.md and MissionEngine promise of one mission,     *)
(* without processes, recovery or a database: it moves along the declared  *)
(* lifecycle, runs its steps in order and only while it is running, never  *)
(* repeats an effect, needs a human's consent at every gate, and completes *)
(* only with a committed success of every step and the evidence required.  *)
(***************************************************************************)
EXTENDS Naturals

CONSTANTS
  NumSteps,   \* steps of the contract
  Lifecycle,  \* the declared pairs of states
  Opening     \* the gate that authorizes the mission itself

VARIABLES
  contract,  \* the immutable contract
  state,     \* where the mission is in its lifecycle
  runs,      \* how often each step ran, two standing for more than one
  outcome,   \* the committed outcome of each step
  consent    \* the gates that a human opened

vars == <<contract, state, runs, outcome, consent>>

Steps == 1 .. NumSteps

Init ==
  /\ state = "absent"
  /\ runs = [s \in Steps |-> 0]
  /\ outcome = [s \in Steps |-> "none"]
  /\ consent = {}

Propose ==
  /\ state = "absent"
  /\ state' = "proposed"
  /\ UNCHANGED <<contract, runs, outcome, consent>>

Proven == contract.evidence /\ \A s \in Steps : outcome[s] = "success"

Move ==
  /\ \E to \in {pair[2] : pair \in Lifecycle} : state' = to
  /\ <<state, state'>> \in Lifecycle
  /\ state' = "completed" => Proven
  /\ UNCHANGED <<contract, runs, outcome, consent>>

\* A gate opens once, and moves the mission.
Consent(gate) ==
  /\ gate \notin consent
  /\ consent' = consent \cup {gate}
  /\ IF gate = Opening THEN state = "proposed" /\ state' = "authorized"
                       ELSE state = "awaiting_approval" /\ state' = "running"
  /\ UNCHANGED <<contract, runs, outcome>>

Permitted(s) ==
  /\ s \notin contract.outside
  /\ Opening \in consent
  /\ s \in contract.irreversible => <<"irreversible", s>> \in consent
  /\ s \in contract.expanded => <<"authority", s>> \in consent

Apply(s) ==
  /\ state = "running"
  /\ Permitted(s)
  /\ outcome[s] = "none"
  /\ \A t \in 1 .. s - 1 : outcome[t] # "none"
  /\ s \in contract.effects => runs[s] = 0
  /\ runs' = [runs EXCEPT ![s] = IF @ = 0 THEN 1 ELSE 2]
  /\ UNCHANGED <<contract, state, outcome, consent>>

Settle(s) ==
  /\ outcome[s] = "none"
  /\ \/ runs[s] > 0 /\ outcome' = [outcome EXCEPT ![s] = "success"]
     \/ outcome' = [outcome EXCEPT ![s] = "failure"]
  /\ UNCHANGED <<contract, state, runs, consent>>

Next ==
  \/ Propose
  \/ Move
  \/ \E gate \in {Opening} \cup ({"authority", "irreversible"} \X Steps) : Consent(gate)
  \/ \E s \in Steps : Apply(s) \/ Settle(s)

Spec == Init /\ [][Next]_vars
=============================================================================
