----------------------------- MODULE Environments -----------------------------
(****************************************************************************)
(* Development environments, and the machines of the workspace made from    *)
(* them.  A stable builder is committed to an image by a snapshot           *)
(* operation; machines and scope settings then refer to the environment; a  *)
(* deletion removes the image before the row.  The same transactions admit  *)
(* machines against the quota of the workspace policy.                      *)
(****************************************************************************)
EXTENDS MachineRow

CONSTANTS Fleet,             \* the other machines ever created in the workspace
          SnapshotManagers,  \* machine-manager processes
          SnapshotAttempts,  \* max_attempts of a snapshot operation
          MaxLapses,         \* bound on lost leases, crashes and failing calls
          Quota              \* max_concurrent_machines of the policy

ASSUME EnvironmentsAssumption ==
  /\ IsFiniteSet(Fleet) /\ SnapshotManagers # {}
  /\ SnapshotAttempts \in Nat \ {0} /\ MaxLapses \in Nat /\ Quota \in Nat

VARIABLES
  environment,  \* the dev_machine_environments row; "gone" once deleted
  image,        \* Docker holds its image
  snapshotOp,   \* its snapshot operation
  snapshotter,  \* the snapshot handler of each manager
  setting,      \* a scope setting names the environment
  fleet,        \* the other machines of the workspace
  admission,    \* machines whose creation has passed the checks of the service
  workspace,    \* "closing" while a deletion waits for its environments
  lapses,
  lapsed        \* a snapshot handler went on without its lease

environments == <<environment, image, snapshotOp, snapshotter, setting, fleet, admission, workspace, lapses, lapsed>>

SnapshotPcs == {"idle", "read", "build", "commit", "record", "done", "refuse", "abandon", "fail"}

EnvironmentsTypeOK ==
  /\ environment \in {"none", "pending", "building", "ready", "failed", "delete_requested", "gone"}
  /\ image \in BOOLEAN /\ setting \in BOOLEAN /\ lapsed \in BOOLEAN
  /\ snapshotOp \in [status : {"none", "pending", "leased", "expired", "completed", "failed", "cancelled"},
                     owner : SnapshotManagers, attempts : 0 .. SnapshotAttempts + MaxLapses,
                     generation : 0 .. MaxGeneration]
  /\ snapshotter \in [SnapshotManagers -> SnapshotPcs]
  /\ fleet \in [Fleet -> [status : {"none", "queued", "running", "paused", "stopped", "failed", "destroyed"},
                          desired : Desires, linked : BOOLEAN]]
  /\ admission \subseteq Fleet
  /\ workspace \in {"live", "closing", "deleted"}
  /\ lapses \in 0 .. MaxLapses

EnvironmentsInit ==
  /\ environment = "none" /\ image = FALSE /\ setting = FALSE /\ lapsed = FALSE /\ lapses = 0
  /\ snapshotOp \in [status : {"none"}, owner : {CHOOSE m \in SnapshotManagers : TRUE},
                     attempts : {0}, generation : {0}]
  /\ snapshotter = [m \in SnapshotManagers |-> "idle"]
  /\ fleet = [u \in Fleet |-> [status |-> "none", desired |-> "running", linked |-> FALSE]]
  /\ admission = {} /\ workspace = "live"

Lapse == lapses < MaxLapses /\ "failures" \in work /\ lapses' = lapses + 1

\* A snapshot that is queued or leased keeps users and passes from moving the
\* machine; only a permanent deletion goes on.
SnapshotActive == snapshotOp.status \in {"pending", "leased", "expired"}
SnapshotRefuses == IF SnapshotActive THEN Desires \ {"destroyed"} ELSE {}

-----------------------------------------------------------------------------
(* Snapshots *)

\* SnapshotEnvironment and CreateEnvironment: both check that the builder is
\* stable, the transaction under the row lock.
CreateEnvironment ==
  /\ "snapshots" \in work
  /\ environment = "none" /\ IsStable
  /\ environment' = "pending"
  /\ snapshotOp' = [snapshotOp EXCEPT !.status = "pending", !.generation = machine.generation]
  /\ UNCHANGED <<machine, image, snapshotter, setting, fleet, admission, workspace, lapses, lapsed>>

SnapshotterMoves(m, pc) == snapshotter' = [snapshotter EXCEPT ![m] = pc]

LeaseSnapshot(m) ==
  /\ snapshotter[m] = "idle" /\ snapshotOp.status \in {"pending", "expired"}
  /\ snapshotOp' = [snapshotOp EXCEPT !.status = "leased", !.owner = m, !.attempts = @ + 1]
  /\ SnapshotterMoves(m, "read")
  /\ UNCHANGED <<machine, environment, image, setting, fleet, admission, workspace, lapses, lapsed>>

\* A newer generation or a machine that moved refuses the snapshot for good.
ReadEnvironment(m) ==
  /\ snapshotter[m] = "read"
  /\ SnapshotterMoves(m,
       IF environment \in {"ready", "delete_requested", "gone"} THEN "done"
       ELSE IF snapshotOp.generation # machine.generation \/ ~IsStable THEN "refuse" ELSE "build")
  /\ UNCHANGED <<machine, environment, image, snapshotOp, setting, fleet, admission, workspace, lapses, lapsed>>

\* UpdateEnvironmentState: no row when the deletion was requested first.
Updatable == environment \notin {"delete_requested", "gone"}
UpdateEnvironmentState(status) ==
  environment' = IF Updatable THEN status ELSE environment

MarkBuilding(m) ==
  /\ snapshotter[m] = "build"
  /\ UpdateEnvironmentState("building")
  /\ SnapshotterMoves(m, IF Updatable THEN "commit" ELSE "fail")
  /\ UNCHANGED <<machine, image, snapshotOp, setting, fleet, admission, workspace, lapses, lapsed>>

\* DockerRuntime.SnapshotEnvironment, which wakes the builder and puts it back.
CommitImage(m) ==
  /\ snapshotter[m] = "commit" /\ machine.status # "destroyed"
  /\ image' = TRUE
  /\ SnapshotterMoves(m, "record")
  /\ UNCHANGED <<machine, environment, snapshotOp, setting, fleet, admission, workspace, lapses, lapsed>>

RecordImage(m) ==
  /\ snapshotter[m] = "record"
  /\ UpdateEnvironmentState("ready")
  /\ SnapshotterMoves(m, IF Updatable THEN "done" ELSE "fail")
  /\ UNCHANGED <<machine, image, snapshotOp, setting, fleet, admission, workspace, lapses, lapsed>>

\* The commit fails: the environment is failed, and another attempt may come.
CommitFails(m) ==
  /\ snapshotter[m] = "commit"
  /\ IF machine.status = "destroyed" THEN UNCHANGED lapses ELSE Lapse
  /\ UpdateEnvironmentState("failed")
  /\ SnapshotterMoves(m, "fail")
  /\ UNCHANGED <<machine, image, snapshotOp, setting, fleet, admission, workspace, lapsed>>

\* failSnapshotOperation
FailSnapshot(m) ==
  /\ snapshotter[m] = "refuse"
  /\ environment' = IF environment \in {"pending", "building"} THEN "failed" ELSE environment
  /\ SnapshotterMoves(m, IF environment \in {"ready", "delete_requested"} THEN "done" ELSE "abandon")
  /\ UNCHANGED <<machine, image, snapshotOp, setting, fleet, admission, workspace, lapses, lapsed>>

\* CompleteOperation and FailOperation, for the owner only.
Owns(m) == snapshotOp.owner = m /\ snapshotOp.status \in {"leased", "expired"}

EndSnapshotOp(m) ==
  /\ snapshotter[m] \in {"done", "abandon", "fail"}
  /\ LET retry == snapshotter[m] = "fail" /\ snapshotOp.attempts < SnapshotAttempts IN
     snapshotOp' = IF ~Owns(m) THEN snapshotOp
                   ELSE [snapshotOp EXCEPT !.status = IF snapshotter[m] = "done" THEN "completed"
                                                      ELSE IF retry THEN "pending" ELSE "failed"]
  /\ SnapshotterMoves(m, "idle")
  /\ UNCHANGED <<machine, environment, image, setting, fleet, admission, workspace, lapses, lapsed>>

\* The lease expires under a handler that is stalled ...
LeaseLapses ==
  /\ snapshotOp.status = "leased" /\ Lapse
  /\ snapshotOp' = [snapshotOp EXCEPT !.status = "expired"]
  /\ lapsed' = (lapsed \/ snapshotter[snapshotOp.owner] # "idle")
  /\ UNCHANGED <<machine, environment, image, snapshotter, setting, fleet, admission, workspace>>

\* ... or whose manager died, with a lease or without one.
SnapshotManagerDies(m) ==
  /\ snapshotter[m] # "idle" /\ Lapse
  /\ SnapshotterMoves(m, "idle")
  /\ snapshotOp' = [snapshotOp EXCEPT !.status = IF @ = "leased" /\ snapshotOp.owner = m THEN "expired" ELSE @]
  /\ UNCHANGED <<machine, environment, image, setting, fleet, admission, workspace, lapsed>>

\* Mutant: only a snapshot that never started is looked at.
OrphanPending == environment = "pending"

Orphanable == environment \in {"pending", "building"}

ReconcileOrphanedEnvironments ==
  /\ Orphanable
  /\ snapshotOp.status # "leased"
  /\ ~(snapshotOp.status = "pending" /\ snapshotOp.generation = machine.generation /\ IsStable)
  /\ environment' = "failed"
  /\ snapshotOp' = [snapshotOp EXCEPT !.status = IF @ \in {"pending", "expired"} THEN "cancelled" ELSE @]
  /\ UNCHANGED <<machine, image, snapshotter, setting, fleet, admission, workspace, lapses, lapsed>>

-----------------------------------------------------------------------------
(* Admission: every transaction below holds the advisory lock of the workspace *)

Counts(u) ==
  /\ fleet[u].status # "none"
  /\ fleet[u].status \notin {"destroyed", "failed", "stopped"} \/ fleet[u].desired = "running"
CountActiveMachines == Cardinality({u \in Fleet : Counts(u)})

\* validateReadyEnvironment
EnvironmentReady == environment = "ready"

\* DevMachineService.Create has checked the quota and the environment, if the
\* machine is made from one (bound: with snapshots it is) ...
CreateMachine(u) ==
  /\ "fleet" \in work
  /\ u \notin admission /\ fleet[u].status = "none" /\ workspace # "deleted"
  \* bound: with snapshots, one machine at a time
  /\ "snapshots" \in work => admission = {} /\ \A v \in Fleet : fleet[v].status = "none"
  /\ CountActiveMachines < Quota
  /\ "snapshots" \in work => EnvironmentReady
  /\ admission' = admission \cup {u}
  /\ UNCHANGED <<machine, environment, image, snapshotOp, snapshotter, setting, fleet, workspace, lapses, lapsed>>

\* Mutant: the transaction relies on the checks of the service.
Admits(linked) == TRUE

\* ... and CreateBundle checks both again.
Admissible(linked) ==
  CountActiveMachines < Quota /\ (linked => EnvironmentReady) /\ workspace # "deleted"

CreateBundle(u, linked) ==
  /\ u \in admission
  /\ admission' = admission \ {u}
  /\ fleet' = IF Admissible(linked)
              THEN [fleet EXCEPT ![u] = [status |-> "queued", desired |-> "running", linked |-> linked]]
              ELSE fleet
  /\ UNCHANGED <<machine, environment, image, snapshotOp, snapshotter, setting, workspace, lapses, lapsed>>

\* SetDesiredAndEnqueue: the quota is checked for a stopped or failed machine.
SetDesired(u, d) ==
  /\ fleet[u].desired # "destroyed" /\ fleet[u].status \in Serves[d]
  /\ d = "running" =>
       /\ fleet[u].linked => EnvironmentReady
       /\ fleet[u].status \in {"stopped", "failed"} => CountActiveMachines < Quota
  /\ fleet' = [fleet EXCEPT ![u].desired = d]
  /\ UNCHANGED <<machine, environment, image, snapshotOp, snapshotter, setting, admission, workspace, lapses, lapsed>>

\* Its handler, or a pass that repairs it, gets there or gives up.
FleetSettles(u) ==
  /\ fleet[u].status \notin {"none", fleet[u].desired}
  /\ \E s \in {fleet[u].desired} \cup (IF fleet[u].status = "failed" THEN {} ELSE {"failed"}) :
       fleet' = [fleet EXCEPT ![u].status = s]
  /\ UNCHANGED <<machine, environment, image, snapshotOp, snapshotter, setting, admission, workspace, lapses, lapsed>>

\* UpsertScopeSetting checks what UpdateScopeSetting has checked, in the
\* transaction.
UpsertScopeSetting == setting' = TRUE

UpdateScopeSetting ==
  /\ EnvironmentReady /\ ~setting
  /\ UpsertScopeSetting
  /\ UNCHANGED <<machine, environment, image, snapshotOp, snapshotter, fleet, admission, workspace, lapses, lapsed>>

DeleteScopeSetting ==
  /\ setting
  /\ setting' = FALSE
  /\ UNCHANGED <<machine, environment, image, snapshotOp, snapshotter, fleet, admission, workspace, lapses, lapsed>>

-----------------------------------------------------------------------------
(* Deletion *)

InUse ==
  \/ setting
  \/ \E u \in Fleet : fleet[u].linked /\ (fleet[u].status # "destroyed" \/ fleet[u].desired = "running")

RequestEnvironmentDeletion ==
  /\ environment \in {"pending", "building", "ready", "failed"}
  /\ ~InUse /\ snapshotOp.status # "leased"
  /\ environment' = "delete_requested"
  /\ snapshotOp' = [snapshotOp EXCEPT !.status = IF @ \in {"pending", "expired"} THEN "cancelled" ELSE @]
  /\ UNCHANGED <<machine, image, snapshotter, setting, fleet, admission, workspace, lapses, lapsed>>

\* The pass: DeleteEnvironmentImage ...
DeleteEnvironmentImage ==
  /\ environment = "delete_requested" /\ image
  /\ image' = FALSE
  /\ UNCHANGED <<machine, environment, snapshotOp, snapshotter, setting, fleet, admission, workspace, lapses, lapsed>>

\* Mutant: the row does not wait for the image.
DeleteAtOnce ==
  /\ environment = "delete_requested"
  /\ environment' = "gone" /\ setting' = FALSE
  /\ UNCHANGED <<machine, image, snapshotOp, snapshotter, fleet, admission, workspace, lapses, lapsed>>

\* ... then DeleteEnvironment; settings that name it lose it (SET NULL).
DeleteEnvironment ==
  /\ environment = "delete_requested" /\ ~image
  /\ environment' = "gone" /\ setting' = FALSE
  /\ UNCHANGED <<machine, image, snapshotOp, snapshotter, fleet, admission, workspace, lapses, lapsed>>

\* Mutant: the environments go with the rows of the workspace.
NoEnvironments == FALSE

WorkspaceHasEnvironments == environment \notin {"none", "gone"}

\* WorkspaceRepository.Delete waits for the machines; with an environment left it
\* only asks for its deletion, in use or not, and is refused.
DeleteWorkspace ==
  /\ work \cap {"snapshots", "fleet"} # {} /\ workspace # "deleted"
  /\ machine.status = "destroyed" /\ \A u \in Fleet : fleet[u].status \in {"none", "destroyed"}
  /\ IF WorkspaceHasEnvironments
     THEN /\ workspace' = "closing" /\ UNCHANGED setting
          /\ environment' = IF snapshotOp.status = "leased" THEN environment ELSE "delete_requested"
          /\ snapshotOp' = [snapshotOp EXCEPT !.status = IF @ \in {"pending", "expired"} THEN "cancelled" ELSE @]
     ELSE /\ workspace' = "deleted" /\ setting' = FALSE
          /\ UNCHANGED <<environment, snapshotOp>>
  /\ UNCHANGED <<machine, image, snapshotter, fleet, admission, lapses, lapsed>>

EnvironmentsFollow == UNCHANGED environments

SnapshotStep(m) ==
  \/ ReadEnvironment(m) \/ MarkBuilding(m) \/ CommitImage(m) \/ RecordImage(m)
  \/ FailSnapshot(m) \/ EndSnapshotOp(m)

EnvironmentsNext ==
  \/ CreateEnvironment
  \/ \E m \in SnapshotManagers : LeaseSnapshot(m) \/ SnapshotStep(m) \/ CommitFails(m) \/ SnapshotManagerDies(m)
  \/ LeaseLapses
  \/ ReconcileOrphanedEnvironments
  \/ \E u \in Fleet :
       \/ CreateMachine(u) \/ FleetSettles(u)
       \/ \E linked \in {"snapshots" \in work} : CreateBundle(u, linked)
       \/ \E d \in Desires : SetDesired(u, d)
  \/ UpdateScopeSetting \/ DeleteScopeSetting
  \/ RequestEnvironmentDeletion \/ DeleteEnvironmentImage \/ DeleteEnvironment
  \/ DeleteWorkspace

EnvironmentsFairness ==
  /\ \A m \in SnapshotManagers : WF_environments(SnapshotStep(m) \/ CommitFails(m))
  /\ WF_environments(\E m \in SnapshotManagers : LeaseSnapshot(m))
  /\ WF_environments(ReconcileOrphanedEnvironments)
  /\ WF_environments(DeleteEnvironmentImage \/ DeleteEnvironment)

-----------------------------------------------------------------------------
(* Properties *)

\* What a machine or a setting is made from stays available: creations, starts
\* and settings race with deletions and with a second snapshot attempt.  Only
\* the deletion of the whole workspace takes it away.
UsedEnvironmentIsReady == InUse /\ ~lapsed /\ workspace = "live" => environment = "ready" /\ image

\* A deleted environment leaves no image, unless a handler without a lease
\* commits one after the pass.
DeletedLeavesNoImage == environment = "gone" /\ ~lapsed => ~image

\* Nothing of a deleted workspace is left in Docker: the rows that the passes of
\* the manager work from are gone for good.
DeletedWorkspaceLeavesNothing ==
  workspace = "deleted" /\ ~lapsed =>
    ~image /\ machine.status = "destroyed" /\ \A u \in Fleet : fleet[u].status \in {"none", "destroyed"}

\* A snapshot somebody asked for ends, whatever became of its operation.
SnapshotSettles ==
  environment \in {"pending", "building"} ~> environment \notin {"pending", "building"}

\* No request takes the workspace above its quota, two creations at once
\* included; only a pass that pauses a failed machine again does.
QuotaIsKept ==
  [][CountActiveMachines' > CountActiveMachines /\ CountActiveMachines' > Quota =>
       \E u \in Fleet : fleet[u].status = "failed" /\ fleet'[u].status = "paused"]_environments
=============================================================================
