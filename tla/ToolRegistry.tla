----------------------------- MODULE ToolRegistry -----------------------------
(***************************************************************************)
(* The registry of signed tools and its artifact cache                     *)
(* (src/erasmus/tool_registry.py), for one target.                         *)
(*                                                                         *)
(* The rows are in SQLite and the artifacts in files named by their digest, *)
(* which tools with the same digest share; copying is not atomic, and no    *)
(* transaction covers a row and its file.  What a signature, a digest or a  *)
(* provenance check says of an artifact is data: it holds or it does not.   *)
(***************************************************************************)
EXTENDS StoreClients

CONSTANTS
  Tools,      \* tool id and version, the key of tool_manifests
  Digests,
  Manifests,  \* what may be registered: [digest, capabilities]
  Withdrawals \* the ways in which tools are withdrawn

VARIABLES
  publisher,  \* tool_publishers has the key the manifests are signed with
  tools,      \* tool_manifests
  cache       \* the cached artifact of each digest: absent, partial or intact

toolVars == <<publisher, tools, cache>>

Withdrawn == {"quarantined", "deprecated", "revoked"}

ASSUME ToolAssumption == Withdrawals \subseteq Withdrawn

LIFECYCLES == {"candidate", "verified", "active"} \cup Withdrawn
Unregistered == [lifecycle |-> "none"]
ToolRow(m, lifecycle) == [lifecycle |-> lifecycle, manifest |-> m, cached |-> FALSE]

ToolInit ==
  /\ publisher = FALSE
  /\ tools = [t \in Tools |-> Unregistered]
  /\ cache = [d \in Digests |-> "absent"]

Registered == {t \in Tools : tools[t] # Unregistered}
Digest(t) == tools[t].manifest.digest
Capabilities(t) == tools[t].manifest.capabilities
Lifecycle(t) == tools[t].lifecycle

\* What a check of t may have looked at, and whether it has changed since.
State(t) == <<Lifecycle(t), tools[t].cached, cache[Digest(t)]>>
Stale(c) == req[c].seen # State(req[c].t)

Ask(c, op, t) == Begin(c, [op |-> op, t |-> t, step |-> 1, seen |-> State(t)])
Step(c, op, n) == Processing(c, op) /\ req[c].step = n

\* The next step of a request that has touched the file.
Continue(c) ==
  /\ req' = [req EXCEPT ![c].step = @ + 1]
  /\ raced' = (raced \/ Stale(c))

SetFile(t, content) == cache' = [cache EXCEPT ![Digest(t)] = content]
SetLifecycleOf(t, lifecycle) == tools' = [tools EXCEPT ![t].lifecycle = lifecycle]

TrustPublisher(c) ==
  /\ publisher' = TRUE
  /\ Atomically(c)
  /\ UNCHANGED <<tools, cache>>

\* register: one row for each key, after the checks of the manifest.
Register(c) ==
  /\ publisher
  /\ \E t \in Tools \ Registered, m \in Manifests,
        lifecycle \in {"candidate"} \cup (Withdrawals \cap {"deprecated", "revoked"}) :
       tools' = [tools EXCEPT ![t] = ToolRow(m, lifecycle)]
  /\ Atomically(c)
  /\ UNCHANGED <<publisher, cache>>

\* verify, of any tool that is not withdrawn.
Verifiable_always(t) == TRUE
Verifiable(t) == Lifecycle(t) \notin Withdrawn

CheckVerify(c) ==
  /\ \E t \in Registered : Verifiable(t) /\ Ask(c, "verify", t)
  /\ UNCHANGED toolVars

Verify(c) ==
  /\ Processing(c, "verify")
  /\ SetLifecycleOf(req[c].t, "verified")
  /\ Commit(c, Lifecycle(req[c].t) # req[c].seen[1])
  /\ UNCHANGED <<publisher, cache>>

\* install: copy over whatever is there, keep it if its digest is right.
CheckInstall(c) ==
  /\ \E t \in Registered : Lifecycle(t) = "verified" /\ Ask(c, "install", t)
  /\ UNCHANGED toolVars

StartCopy(c) ==
  /\ Step(c, "install", 1)
  /\ SetFile(req[c].t, "partial")
  /\ Continue(c)
  /\ UNCHANGED <<publisher, tools>>

EndCopy(c) ==
  /\ Step(c, "install", 2)
  /\ \/ SetFile(req[c].t, "intact") /\ req' = [req EXCEPT ![c].step = 3]
     \/ SetFile(req[c].t, "absent") /\ req' = [req EXCEPT ![c] = Idle]
  /\ raced' = (raced \/ Lifecycle(req[c].t) # "verified")
  /\ UNCHANGED <<publisher, tools>>

Install(c) ==
  /\ Step(c, "install", 3)
  /\ tools' = [tools EXCEPT ![req[c].t].cached = TRUE]
  /\ Commit(c, Lifecycle(req[c].t) # "verified" \/ cache[Digest(req[c].t)] # "intact")
  /\ UNCHANGED <<publisher, cache>>

\* activate: its check, and then every other active tool of one of its
\* capabilities becomes verified again.
CheckActivate(c) ==
  /\ \E t \in Registered :
       /\ State(t) = <<"verified", TRUE, "intact">>
       /\ Ask(c, "activate", t)
  /\ UNCHANGED toolVars

Rivals(t) ==
  {u \in Registered \ {t} : Lifecycle(u) = "active" /\ Capabilities(u) \cap Capabilities(t) # {}}

Activate(c) ==
  /\ Processing(c, "activate")
  /\ LET t == req[c].t IN
       tools' = [u \in Tools |->
         IF u = t THEN [tools[u] EXCEPT !.lifecycle = "active"]
         ELSE IF u \in Rivals(t) THEN [tools[u] EXCEPT !.lifecycle = "verified"]
         ELSE tools[u]]
  /\ Commit(c, Stale(c))
  /\ UNCHANGED <<publisher, cache>>

\* set_lifecycle: from any state.
SetLifecycle(c) ==
  /\ \E t \in Registered, lifecycle \in Withdrawals : SetLifecycleOf(t, lifecycle)
  /\ Atomically(c)
  /\ UNCHANGED <<publisher, cache>>

CheckDeactivate(c) ==
  /\ \E t \in Registered : Lifecycle(t) = "active" /\ Ask(c, "deactivate", t)
  /\ UNCHANGED toolVars

Deactivate(c) ==
  /\ Processing(c, "deactivate")
  /\ SetLifecycleOf(req[c].t, "verified")
  /\ Commit(c, Lifecycle(req[c].t) # "active")
  /\ UNCHANGED <<publisher, cache>>

\* uninstall: the file, if the row named one, and then the row.
Removable(t) == Lifecycle(t) # "active"

CheckUninstall(c) ==
  /\ \E t \in Registered : Removable(t) /\ Ask(c, "uninstall", t)
  /\ UNCHANGED toolVars

Unlink(c) ==
  /\ Step(c, "uninstall", 1)
  /\ IF req[c].seen[2] THEN SetFile(req[c].t, "absent") ELSE UNCHANGED cache
  /\ Continue(c)
  /\ UNCHANGED <<publisher, tools>>

Uninstall(c) ==
  /\ Step(c, "uninstall", 2)
  /\ tools' = [tools EXCEPT ![req[c].t].cached = FALSE]
  /\ Commit(c, Lifecycle(req[c].t) = "active")
  /\ UNCHANGED <<publisher, cache>>

ToolNext ==
  \E c \in Clients :
    \/ TrustPublisher(c) \/ Register(c) \/ SetLifecycle(c)
    \/ CheckVerify(c) \/ Verify(c)
    \/ CheckInstall(c) \/ StartCopy(c) \/ EndCopy(c) \/ Install(c)
    \/ CheckActivate(c) \/ Activate(c)
    \/ CheckDeactivate(c) \/ Deactivate(c)
    \/ CheckUninstall(c) \/ Unlink(c) \/ Uninstall(c)
    \/ Drop(c) /\ UNCHANGED toolVars

ToolTypeOK ==
  /\ publisher \in BOOLEAN
  /\ \A t \in Registered : tools[t] \in
       [lifecycle : LIFECYCLES, manifest : Manifests, cached : BOOLEAN]
  /\ cache \in [Digests -> {"absent", "partial", "intact"}]

ActiveTools == {t \in Registered : Lifecycle(t) = "active"}

\* Whatever the clients do at once, resolve never finds two active tools for a
\* capability; and as long as no two operations raced, an active tool has its
\* artifact, whole, unless another tool with the same digest shares the file.
ActiveToolsServe ==
  /\ \A t, u \in ActiveTools : t # u => Capabilities(t) \cap Capabilities(u) = {}
  /\ raced \/ \A t \in ActiveTools :
       \/ \E u \in Registered \ {t} : Digest(u) = Digest(t)
       \/ tools[t].cached /\ cache[Digest(t)] = "intact"

\* As long as no two operations raced, a tool that was quarantined, deprecated
\* or revoked is never verified or active again.
WithdrawnStaysWithdrawn ==
  [][ raced' \/ \A t \in Registered :
        Lifecycle(t) \in Withdrawn => tools'[t].lifecycle \in Withdrawn
    ]_<<toolVars, req, raced>>

\* The registry: at most one tool serves a capability, and without races it is
\* there to serve and nothing withdrawn comes back.
RegistryServes == []ActiveToolsServe /\ WithdrawnStaysWithdrawn
=============================================================================
