----------------------------- MODULE Reconciler -----------------------------
(****************************************************************************)
(* machine/manager.go, reconcile: every 30 seconds each manager walks the   *)
(* rows that an operation no longer drives.  Each phase lists rows and then *)
(* acts on what it read, so what it writes may be old by then; the phases   *)
(* run in the order of the function, and an error skips to the next row.    *)
(* A pc names the phase, or the call the phase makes next.                  *)
(****************************************************************************)
EXTENDS OperationWorker

Phases == {"deletes", "idle", "expired", "pages"}
RepairPcs == {"idle_pause", "expire", "expire_teardown", "destroy_revoke",
              "destroy_teardown", "destroy_record", "stop", "stop_record", "pause_revoke",
              "pause", "pause_record", "inspect", "create", "launch", "bind", "record",
              "record_ready", "sample"}

\* What the pass has read of the row and the services, and what its Spawn made.
Off == [pc |-> "off", gen |-> 0, status |-> "queued", ids |-> FALSE, made |-> FALSE]

ReconcilerInit == reconciler = [m \in Managers |-> Off]

In(m, pc) == reconciler[m].pc = pc
View(m)   == reconciler[m]
Move(m, pc) == reconciler' = [reconciler EXCEPT ![m] = IF pc = "off" THEN Off ELSE [@ EXCEPT !.pc = pc]]
MoveKnown(m, pc) ==
  /\ reconciler' = [Known(reconciler) EXCEPT ![m] = IF pc = "off" THEN Off ELSE [@ EXCEPT !.pc = pc]]
  /\ handlers' = Known(handlers)
Read(m, pc) ==
  reconciler' = [reconciler EXCEPT ![m] =
    [Off EXCEPT !.pc = pc, !.gen = machine.generation, !.status = machine.status,
                !.ids = bound]]

Unchanged(m) == Matches(View(m).gen, FALSE)   \* the row is still of the generation read

NotMine == <<handlers, requests, faults>>

Tick(m) ==
  /\ In(m, "off")
  /\ Move(m, "deletes")
  /\ UNCHANGED <<database, docker, NotMine>>

\* Mutant: a pass queues teardowns for delete requests and purges nothing itself.
DeletesWithoutPurge(m) ==
  /\ In(m, "deletes")
  /\ Move(m, "idle")
  /\ IF machine.present /\ machine.deleteRequested
     THEN RequestPermanentDelete
     ELSE UNCHANGED <<machine, operations>>
  /\ UNCHANGED <<access, activeRun, expired, docker, NotMine>>

\* Permanent delete requests: purge what is safe, queue the teardown of the rest.
Deletes(m) ==
  /\ In(m, "deletes")
  /\ Move(m, "idle")
  /\ IF machine.present /\ machine.deleteRequested
     THEN IF SafelyPurgeable /\ ~AnyActive
          THEN Purge
          ELSE RequestPermanentDelete /\ UNCHANGED <<access, activeRun>>
     ELSE UNCHANGED <<machine, operations, access, activeRun>>
  /\ UNCHANGED <<expired, docker, NotMine>>

-----------------------------------------------------------------------------
(* Idle pause and hard expiry *)

IsIdle ==
  /\ "idle" \in Events
  /\ machine.present
  /\ machine.status = "running" /\ machine.desired = "running"
  /\ ~activeRun /\ ~AnyActive

ListIdle(m) ==
  /\ In(m, "idle")
  /\ \/ IsIdle /\ Read(m, "idle_pause")
     \/ Move(m, "expired")
  /\ UNCHANGED <<database, docker, NotMine>>

\* SetDesiredAndEnqueue for the generation after the one read; a refusal is logged.
EnqueueAfter(m, action) ==
  IF CanEnqueue(action, View(m).gen + 1)
  THEN Enqueue(action, FALSE)
  ELSE UNCHANGED <<machine, operations>>

IdlePause(m) ==
  /\ In(m, "idle_pause")
  /\ EnqueueAfter(m, "pause")
  /\ Move(m, "expired")
  /\ UNCHANGED <<access, activeRun, expired, docker, NotMine>>

\* Mutant: only machines that are running are looked at for expiry.
IsExpiredRunning ==
  machine.present /\ expired /\ machine.status = "running" /\ ~ActiveTeardown

IsExpired ==
  /\ machine.present /\ expired
  /\ machine.status \notin {"tearing_down", "destroyed"}
  /\ ~ActiveTeardown

ListExpired(m) ==
  /\ In(m, "expired")
  /\ IF IsExpired THEN Read(m, "expire") ELSE Move(m, "pages")
  /\ UNCHANGED <<database, docker, NotMine>>

\* SetMachineState has no condition on the row it was read from.
Expire(m) ==
  /\ In(m, "expire")
  /\ IF machine.present THEN SetStatus("expired") ELSE UNCHANGED machine
  /\ Move(m, "expire_teardown")
  /\ UNCHANGED <<OtherRows, access, docker, NotMine>>

ExpireTeardown(m) ==
  /\ In(m, "expire_teardown")
  /\ EnqueueAfter(m, "teardown")
  /\ Move(m, "pages")
  /\ UNCHANGED <<access, activeRun, expired, docker, NotMine>>

-----------------------------------------------------------------------------
(* Runtime pages *)

\* Mutant: the runtime pages leave out the machines that failed.
IsListedUnlessFailed ==
  /\ machine.present
  /\ machine.status \notin {"failed", "queued", "stopped", "destroyed", "expired"}
  /\ ~AnyActive

IsListed ==
  /\ machine.present
  /\ \/ machine.status \in {"spawning", "running", "paused", "stopping", "tearing_down", "failed"}
     \/ machine.desired = "running" /\ machine.status \notin {"destroyed", "tearing_down", "expired"}
  /\ ~AnyActive

Repair == IF machine.status # machine.desired /\ machine.desired # "running"
          THEN CASE machine.desired = "destroyed" -> "destroy_revoke"
                 [] machine.desired = "stopped"   -> "stop"
                 [] machine.desired = "paused"    -> "pause_revoke"
          ELSE IF machine.desired = "running" THEN "inspect" ELSE "off"

ListRuntime(m) ==
  /\ In(m, "pages")
  /\ IF IsListed /\ Repair # "off" THEN Read(m, Repair) ELSE Move(m, "off")
  /\ UNCHANGED <<database, docker, NotMine>>

\* desired destroyed: as the handler, but the pass decides by what it read.
DestroyRevoke(m) ==
  /\ In(m, "destroy_revoke")
  /\ \/ access' = FALSE /\ UNCHANGED faults
     \/ Fault("error") /\ UNCHANGED access
  /\ activeRun' \in {FALSE, activeRun}
  /\ Move(m, "destroy_teardown")
  /\ UNCHANGED <<machine, operations, expired, docker, handlers, requests>>

DestroyTeardown(m) ==
  /\ In(m, "destroy_teardown")
  /\ Teardown
  /\ MoveKnown(m, "destroy_record")
  /\ UNCHANGED <<database, requests, faults>>

\* desired stopped: the containers are stopped, access is not revoked.
RepairStop(m) ==
  /\ In(m, "stop")
  /\ Stop(View(m))
  /\ Move(m, "stop_record")
  /\ UNCHANGED <<bound, database, NotMine>>

\* desired paused: an error of the revocation leaves the machine as it is.
PauseRevoke(m) ==
  /\ In(m, "pause_revoke")
  /\ access' = FALSE
  /\ Move(m, "pause")
  /\ UNCHANGED <<machine, OtherRows, docker, NotMine>>

RepairPause(m) ==
  /\ In(m, "pause")
  /\ Pause(View(m))
  /\ Move(m, "pause_record")
  /\ UNCHANGED <<bound, database, NotMine>>

RepairResult == [destroy_record |-> "destroyed", stop_record |-> "stopped",
                 pause_record |-> "paused"]

RecordRepair(m) ==
  LET pc == View(m).pc IN
  /\ pc \in DOMAIN RepairResult
  /\ IF Matches(View(m).gen, pc = "destroy_record")
     THEN SetStatus(RepairResult[pc]) ELSE UNCHANGED machine
  /\ Move(m, "off")
  /\ UNCHANGED <<OtherRows, access, docker, NotMine>>

\* desired running: a machine that is ready is only recorded, one that is not
\* is spawned again, with no compensation when its generation has gone.
Inspect(m) ==
  /\ In(m, "inspect")
  /\ IF runtime = "running"
     THEN /\ bound' = TRUE
          /\ Move(m, IF View(m).status = "running" THEN "sample" ELSE "record_ready")
     ELSE UNCHANGED bound /\ Move(m, "create")
  /\ UNCHANGED <<runtime, database, NotMine>>

RepairCreate(m) ==
  /\ In(m, "create")
  /\ SpawnCreate
  /\ reconciler' = [reconciler EXCEPT ![m] =
                      [@ EXCEPT !.pc = "launch", !.made = (runtime = "absent")]]
  /\ UNCHANGED <<bound, database, NotMine>>

RepairLaunch(m) ==
  /\ In(m, "launch")
  /\ SpawnReady
  /\ reconciler' = [reconciler EXCEPT ![m] = [@ EXCEPT !.pc = "bind", !.ids = TRUE]]
  /\ UNCHANGED <<bound, database, NotMine>>

RepairLaunchFails(m) ==
  /\ In(m, "launch")
  /\ IF runtime = "absent" THEN UNCHANGED faults ELSE Fault("error")
  /\ SpawnCleanup(View(m).made)
  /\ MoveKnown(m, "off")
  /\ UNCHANGED <<database, requests>>

\* Here an error of UpdateServiceRuntime is ignored.
RepairBind(m) ==
  /\ In(m, "bind")
  /\ \/ bound' = View(m).ids /\ UNCHANGED faults
     \/ Fault("error") /\ UNCHANGED bound
  /\ Move(m, "record")
  /\ UNCHANGED <<runtime, database, handlers, requests>>

RecordRecovered(m) ==
  /\ View(m).pc \in {"record", "record_ready"}
  /\ IF Unchanged(m) THEN SetStatusNamed("running") ELSE UNCHANGED machine
  /\ Move(m, IF In(m, "record_ready") /\ Unchanged(m) THEN "sample" ELSE "off")
  /\ UNCHANGED <<OtherRows, access, docker, NotMine>>

\* The disk quota stops a running machine; the refusal of that is ignored.
Sample(m) ==
  /\ In(m, "sample")
  /\ \/ "quota" \in Events /\ EnqueueAfter(m, "stop")
     \/ UNCHANGED <<machine, operations>>
  /\ Move(m, "off")
  /\ UNCHANGED <<access, activeRun, expired, docker, NotMine>>

\* Any call returns an error: a query ends the pass, the rest skips the row.
NextPhase(pc) ==
  CASE pc = "deletes"    -> {"idle", "off"}
    [] pc = "idle_pause" -> {"expired"}
    [] pc \in {"expire", "expire_teardown"} -> {"pages"}
    [] OTHER             -> {"off"}

PassFails(m) ==
  /\ View(m).pc \in (Phases \cup RepairPcs) \ {"launch", "bind", "destroy_revoke"}
  /\ Fault("error")
  /\ Interrupted(View(m).pc \in {"destroy_teardown", "stop", "pause"})
  /\ \E pc \in NextPhase(View(m).pc) : Move(m, pc)
  /\ UNCHANGED <<bound, database, handlers, requests>>

ReconcilerStep(m) ==
  \/ Tick(m) \/ Deletes(m) \/ ListIdle(m) \/ IdlePause(m) \/ ListExpired(m) \/ Expire(m)
  \/ ExpireTeardown(m) \/ ListRuntime(m) \/ DestroyRevoke(m) \/ DestroyTeardown(m)
  \/ RepairStop(m) \/ PauseRevoke(m) \/ RepairPause(m) \/ RecordRepair(m) \/ Inspect(m)
  \/ RepairCreate(m) \/ RepairLaunch(m) \/ RepairLaunchFails(m) \/ RepairBind(m)
  \/ RecordRecovered(m) \/ Sample(m) \/ PassFails(m)
=============================================================================
