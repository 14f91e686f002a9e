-------------------------- MODULE CapabilityLifecycle --------------------------
(***************************************************************************)
(* The lifecycle of one capability and its invocations                     *)
(* (src/erasmus/capability_runtime.py).                                    *)
(*                                                                         *)
(* The row of capability_runtime_state is shared; the handler that runs is  *)
(* in the memory of each process.  Reading the row opens no transaction,    *)
(* neither in transition nor in configure nor before a handler runs.        *)
(***************************************************************************)
EXTENDS StoreClients, Sequences

CONSTANTS
  Implementations,  \* what the contract allows
  MaxInvocations    \* bound on the recorded invocations

VARIABLES
  lifecycle,    \* the state of the row, unconfigured if there is none
  binding,      \* the implementation in the row
  handlers,     \* the implementation that each process has configured
  invocations,  \* capability_invocations, without those refused before a handler:
                \* [implementation, ok]
  visited       \* history: the states that the row has been in

capabilityVars == <<lifecycle, binding, handlers, invocations, visited>>

Unbound == "none"
Lifecycles == {"proposed", "implemented", "isolated_test", "adversarial_review", "approved",
               "active", "suspended", "retired"}
Transitions ==
  [proposed |-> {"implemented"}, implemented |-> {"isolated_test"},
   isolated_test |-> {"adversarial_review"}, adversarial_review |-> {"approved"},
   approved |-> {"active"}, active |-> {"suspended", "retired"},
   suspended |-> {"active", "retired"}, retired |-> {}]

ASSUME CapabilityAssumption == Unbound \notin Implementations /\ MaxInvocations \in Nat

\* A new database, or one in which the capability went through to active.
CapabilityInit ==
  /\ \/ lifecycle = "unconfigured" /\ binding = Unbound /\ visited = {}
     \/ /\ lifecycle = "active" /\ binding \in Implementations
        /\ visited = Lifecycles \ {"suspended", "retired"}
  /\ handlers = [c \in Clients |-> Unbound]
  /\ invocations = <<>>

\* configure: an existing row must have the same implementation.
Compatible(implementation) == binding \in {Unbound, implementation}

CheckConfigure(c) ==
  /\ \E i \in Implementations :
       Compatible(i) /\ Begin(c, [op |-> "configure", implementation |-> i])
  /\ UNCHANGED capabilityVars

\* INSERT OR IGNORE, and then the handler of this process.
Configure(c) ==
  /\ Processing(c, "configure")
  /\ LET i == req[c].implementation IN
       /\ IF binding = Unbound
          THEN lifecycle' = "proposed" /\ binding' = i /\ visited' = visited \cup {"proposed"}
          ELSE UNCHANGED <<lifecycle, binding, visited>>
       /\ handlers' = [handlers EXCEPT ![c] = i]
       /\ Commit(c, ~Compatible(i))
  /\ UNCHANGED invocations

Allowed_anything(current, target) == TRUE
Allowed(current, target) == target \in Transitions[current]

\* transition: its check and its UPDATE.
CheckLifecycle(c) ==
  /\ lifecycle # "unconfigured"
  /\ \E target \in Lifecycles :
       /\ Allowed(lifecycle, target)
       /\ Begin(c, [op |-> "lifecycle", from |-> lifecycle, to |-> target])
  /\ UNCHANGED capabilityVars

SetCapability(c) ==
  /\ Processing(c, "lifecycle")
  /\ lifecycle' = req[c].to
  /\ visited' = visited \cup {req[c].to}
  /\ Commit(c, lifecycle # req[c].from)
  /\ UNCHANGED <<binding, handlers, invocations>>

\* invoke: the checks before the handler; a refusal only records a failure.
Invocable(c) == handlers[c] # Unbound /\ lifecycle = "active"

StartInvocation(c) ==
  /\ Invocable(c)
  /\ Begin(c, [op |-> "invoke", implementation |-> handlers[c]])
  /\ UNCHANGED capabilityVars

\* The handler's outputs satisfy the contract or it fails: _record.
RecordInvocation(c, ok) ==
  /\ Len(invocations) < MaxInvocations
  /\ invocations' = Append(invocations, [implementation |-> req[c].implementation, ok |-> ok])
  /\ UNCHANGED <<lifecycle, binding, handlers, visited>>

EndInvocation(c) ==
  /\ Processing(c, "invoke")
  /\ \E ok \in BOOLEAN : RecordInvocation(c, ok)
  /\ Commit(c, lifecycle # "active")

\* A process that ends, or has died, starts again without its handlers.
Restart(c) ==
  /\ handlers[c] # Unbound
  /\ handlers' = [handlers EXCEPT ![c] = Unbound]
  /\ Atomically(c)
  /\ UNCHANGED <<lifecycle, binding, invocations, visited>>

CapabilityNext ==
  \E c \in Clients :
    \/ CheckConfigure(c) \/ Configure(c)
    \/ CheckLifecycle(c) \/ SetCapability(c)
    \/ StartInvocation(c) \/ EndInvocation(c)
    \/ Restart(c)
    \/ Drop(c) /\ UNCHANGED capabilityVars

CapabilityTypeOK ==
  /\ lifecycle \in Lifecycles \cup {"unconfigured"}
  /\ binding \in Implementations \cup {Unbound}
  /\ handlers \in [Clients -> Implementations \cup {Unbound}]
  /\ invocations \in Seq([implementation : Implementations, ok : BOOLEAN])
  /\ Len(invocations) =< MaxInvocations
  /\ visited \subseteq Lifecycles

\* Whatever the clients do at once, a capability that ran was once reviewed and
\* approved; and as long as no two operations raced, it ran as the implementation
\* that its row is bound to.
InvokedAsReviewed ==
  /\ invocations # <<>> => {"isolated_test", "adversarial_review", "approved"} \subseteq visited
  /\ raced \/ \A n \in DOMAIN invocations : invocations[n].implementation = binding

\* As long as no two operations raced, a retired capability stays retired and is
\* not invoked any more.
RetiredCapabilityRests ==
  [][ raced' \/ (lifecycle = "retired" =>
        lifecycle' = "retired" /\ invocations' = invocations)
    ]_<<capabilityVars, req, raced>>

\* The capability: it runs as reviewed, and once retired it rests.
CapabilityIsGoverned == []InvokedAsReviewed /\ RetiredCapabilityRests
=============================================================================
