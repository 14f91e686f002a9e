--------------------------- MODULE BundlePublication ---------------------------
(***************************************************************************)
(* How the knowledge foundry publishes a candidate bundle                  *)
(* (src/erasmus/knowledge_foundry.py): several builders with one output     *)
(* directory, which share no lock and may die at any step.                 *)
(*                                                                         *)
(* A bundle is built and validated in a staging directory of its own.  The *)
(* one that is replaced waits in a backup; renaming a directory onto one    *)
(* that exists fails.                                                      *)
(***************************************************************************)
EXTENDS StoreClients

CONSTANT MaxBundles  \* bound on the bundles that are built

VARIABLES
  built,    \* how many bundles were built, which number them; 0 was there before
  output,   \* the bundle in the output directory
  backups,  \* the bundles in backup directories
  died      \* history: a builder died, or could not put its backup back

bundleVars == <<built, output, backups, died>>

Nothing == MaxBundles + 1
Bundles == 0..MaxBundles

ASSUME BundleAssumption == MaxBundles \in Nat

BundleInit ==
  /\ built = 0
  /\ output \in {0, Nothing}
  /\ backups = {}
  /\ died = FALSE

Publishing(c, step) == Processing(c, "publish") /\ req[c].step = step
GoOn(c, step) == req' = [req EXCEPT ![c].step = step] /\ UNCHANGED raced

\* build_candidate_bundle up to the valid bundle in its staging directory.
Build(c) ==
  /\ built < MaxBundles /\ built' = built + 1
  /\ \E overwrite \in BOOLEAN :
       /\ output = Nothing \/ overwrite
       /\ Begin(c, [op |-> "publish", step |-> "look", overwrite |-> overwrite,
                    bundle |-> built + 1, backup |-> Nothing])
  /\ UNCHANGED <<output, backups, died>>

\* _publish_staging: without overwrite, an output that exists is an error.
LookAtOutput(c) ==
  /\ Publishing(c, "look")
  /\ \/ output = Nothing /\ GoOn(c, "rename")
     \/ output # Nothing /\ req[c].overwrite /\ GoOn(c, "aside")
     \/ output # Nothing /\ ~req[c].overwrite /\ Commit(c, FALSE)
  /\ UNCHANGED bundleVars

\* It fails if the output is gone by now.
MoveAside(c) ==
  /\ Publishing(c, "aside")
  /\ IF output = Nothing
     THEN Commit(c, FALSE) /\ UNCHANGED <<output, backups>>
     ELSE /\ output' = Nothing
          /\ backups' = backups \cup {output}
          /\ req' = [req EXCEPT ![c].step = "rename", ![c].backup = output]
          /\ UNCHANGED raced
  /\ UNCHANGED <<built, died>>

Rename(c) ==
  /\ Publishing(c, "rename") /\ output = Nothing
  /\ output' = req[c].bundle
  /\ GoOn(c, "clean")
  /\ UNCHANGED <<built, backups, died>>

\* The rename fails: the backup, if there is one, goes back unless there is an
\* output again.  Its look and its rename are one step here, for the rename also
\* fails when an output appears in between; it may fail without one, too, as the
\* rename before it did, and then the bundle stays in its backup.
Restore(c) ==
  /\ Publishing(c, "rename")
  /\ \/ /\ output = Nothing /\ req[c].backup # Nothing
        /\ output' = req[c].backup /\ backups' = backups \ {req[c].backup}
        /\ UNCHANGED died
     \/ /\ output # Nothing \/ req[c].backup = Nothing
        /\ UNCHANGED <<output, backups, died>>
     \/ /\ output = Nothing /\ req[c].backup # Nothing
        /\ died' = TRUE /\ UNCHANGED <<output, backups>>
  /\ Commit(c, FALSE)
  /\ UNCHANGED built

RemoveBackup_early(c) ==
  /\ Publishing(c, "rename") /\ req[c].backup \in backups
  /\ backups' = backups \ {req[c].backup}
  /\ UNCHANGED <<req, raced, built, output, died>>

RemoveBackup(c) ==
  /\ Publishing(c, "clean")
  /\ backups' = backups \ {req[c].backup}
  /\ Commit(c, FALSE)
  /\ UNCHANGED <<built, output, died>>

DieBuilding(c) ==
  /\ Drop(c)
  /\ died' = TRUE
  /\ UNCHANGED <<built, output, backups>>

BundleNext ==
  \E c \in Clients :
    \/ Build(c) \/ LookAtOutput(c) \/ MoveAside(c) \/ Rename(c) \/ Restore(c) \/ RemoveBackup(c)
    \/ DieBuilding(c)

BundleTypeOK ==
  /\ built \in 0..MaxBundles
  /\ output \in Bundles \cup {Nothing} /\ backups \subseteq Bundles
  /\ died \in BOOLEAN

\* Once there is a bundle there is one for good, in the output or in a backup,
\* wherever the builders die; and a bundle only leaves the output when a builder
\* that may overwrite takes it aside.
BundlesSurvive ==
  [][ /\ output # Nothing \/ backups # {} => output' # Nothing \/ backups' # {}
      /\ output # Nothing /\ output' # output =>
           /\ output' = Nothing /\ output \in backups'
           /\ \E c \in Clients : Publishing(c, "aside") /\ req[c].overwrite
    ]_<<bundleVars, req, raced>>

\* As long as no builder died and none failed to put its backup back, no bundle is
\* left behind in a backup alone: there is an output again whenever nobody is at
\* work.
OutputReturns ==
  died \/ (\E c \in Clients : req[c] # Idle) \/ output # Nothing \/ backups = {}

\* Publication: bundles survive the builders and their failures, and the output
\* comes back.
PublicationIsSafe == BundlesSurvive /\ []OutputReturns
=============================================================================
