----------------------------- MODULE OrderedBuild ------------------------------
(* What a dependency-aware build of a collection promises, whatever batches,   *)
(* pools and workers it uses: a project begins only when everything it needs   *)
(* is built, what it needs at run time is extracted - of a split project that  *)
(* is its last sub-package alone - and nothing has failed; and the build ends  *)
(* quiescent.                                                                  *)
EXTENDS Manifest

VARIABLES
    manifest,    \* the collection being built
    status,      \* per project: pending, building, built or failed
    installed,   \* artifacts extracted to the root filesystem
    outcome      \* what the build returned

abstractVars == <<manifest, status, installed, outcome>>

AbstractInit ==
    /\ manifest \in Manifests
    /\ status = [p \in Project |-> "pending"]
    /\ installed = {}
    /\ outcome = "none"

Ready(p) ==
    /\ \A d \in Needs(manifest, p) \cap InRange(manifest) : status[d] = "built"
    /\ ~manifest.noBuild =>
          manifest.depends[p] \cap InRange(manifest) \subseteq OnRoot(manifest, installed)

Begin(p) ==
    /\ outcome = "none"
    /\ p \in InRange(manifest) /\ status[p] = "pending" /\ Ready(p)
    /\ \A q \in Project : status[q] # "failed"
    /\ status' = [status EXCEPT ![p] = "building"]
    /\ UNCHANGED <<manifest, installed, outcome>>

Finish(p) ==
    /\ status[p] = "building"
    /\ status' = [status EXCEPT ![p] = "built"]
    /\ installed' \in {installed, installed \cup {Extracted(manifest, p)}}
    /\ UNCHANGED <<manifest, outcome>>

Break(p) ==
    /\ status[p] = "building"
    /\ status' = [status EXCEPT ![p] = "failed"]
    /\ UNCHANGED <<manifest, installed, outcome>>

Install(p) ==
    /\ outcome = "none" /\ status[p] = "built"
    /\ installed' = installed \cup {Extracted(manifest, p)}
    /\ UNCHANGED <<manifest, status, outcome>>

\* The build ends when nothing is being built; well, only when all is built.
Conclude ==
    /\ outcome = "none"
    /\ \A p \in Project : status[p] # "building"
    /\ outcome' \in {"ok", "error", "bad range", "circular dependency"}
    /\ outcome' = "ok" => \A p \in InRange(manifest) : status[p] = "built"
    /\ UNCHANGED <<manifest, status, installed>>

AbstractNext ==
    \/ \E p \in Project : Begin(p) \/ Finish(p) \/ Break(p) \/ Install(p)
    \/ Conclude

AbstractSpec == AbstractInit /\ [][AbstractNext]_abstractVars
================================================================================
