-------------------------- MODULE DevMachineRuntime --------------------------
(****************************************************************************)
(* machine/docker.go: what each runtime call does to the containers, the    *)
(* network and the workspace volume of the machine.  They exist unless      *)
(* runtime is "absent"; "partial" means that some are missing or not ready. *)
(* The processes decide when a call is made and what follows an error.      *)
(****************************************************************************)
EXTENDS DevMachineStore

RuntimeStates == {"absent", "partial", "running", "paused", "stopped"}

RuntimeInit == runtime = "absent" /\ bound = FALSE

\* The container IDs a process has read name no container once they are removed.
Known(p) ==
  IF runtime' = "absent" THEN [x \in DOMAIN p |-> [p[x] EXCEPT !.ids = FALSE]] ELSE p

\* Spawn, first half: ensureNetwork, ensureVolume and the containers created so
\* far.  It is this call that made them when nothing was there.
SpawnCreate == runtime' = IF runtime = "absent" THEN "partial" ELSE runtime

\* Spawn, second half: every service is running and healthy; a teardown in
\* between leaves nothing to start.
SpawnReady == runtime # "absent" /\ runtime' = "running"

\* The deferred cleanup of a failed Spawn removes what this call created, its
\* own errors ignored; containers it reused keep the state they got to.
SpawnCleanup(made) ==
  /\ runtime' \in IF runtime = "absent" THEN {"absent"}
                  ELSE IF made THEN {"absent", "partial"}
                  ELSE {runtime, "partial"}
  /\ bound' = (bound /\ runtime' # "absent")

\* Start needs the recorded volume and the recorded containers.
CanStart(p) == p.named /\ p.ids /\ runtime # "absent"
Start == runtime' = "running"

\* Pause and Stop act on the recorded containers only, and a container that is
\* missing or in another state is not an error.
Pause(p) == runtime' = IF p.ids /\ runtime = "running" THEN "paused" ELSE runtime
Stop(p)  == runtime' = IF p.ids /\ runtime \in {"running", "paused"} THEN "stopped" ELSE runtime

\* Teardown finds containers by ID and by label, and removes the volume too.
Teardown == runtime' = "absent" /\ bound' = FALSE

\* A call that returns an error may have done part of its work.
Interrupted(touching) ==
  runtime' \in {runtime} \cup IF touching /\ runtime # "absent" THEN {"partial"} ELSE {}

\* Containers exit or become unhealthy on their own.
ContainersFail ==
  /\ runtime = "running"
  /\ Fault("container")
  /\ runtime' = "partial"
  /\ UNCHANGED <<bound, database, processes>>
=============================================================================
