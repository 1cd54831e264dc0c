--------------------------- MODULE OperationWorker ---------------------------
(****************************************************************************)
(* machine/manager.go, the operation half: processBatch leases operations,  *)
(* and a goroutine in each slot runs one to its end, statement by           *)
(* statement, while other slots, other managers, the reconciler and the API *)
(* change the same rows and the same containers.                            *)
(*                                                                          *)
(* A handler's pc names the call it makes next.  An error of any call leads *)
(* to "fail"; the final statements of processLeasedOperation are "complete",*)
(* "purge", "fail" and "markfailed".                                        *)
(****************************************************************************)
EXTENDS DevMachineRuntime

Workers == Managers \X Slots
Owner(w) == w[1]

FinalPcs == {"complete", "purge", "fail", "markfailed"}
DockerPcs == {"launch", "start", "pause", "stop", "teardown"}
CallPcs == DockerPcs \cup
  {"begin", "spawning", "create", "bind", "running", "compensate", "revoke", "revoke_only",
   "started", "paused", "stopping", "stopped", "tearing_down", "destroyed", "event"}

Idle == [pc |-> "idle", gen |-> 0, action |-> "spawn",
         named |-> FALSE, ids |-> FALSE, made |-> FALSE]

WorkerInit == handlers = [w \in Workers |-> Idle]

At(w, pc)   == handlers[w].pc = pc
Goto(w, pc) == handlers' = [handlers EXCEPT ![w].pc = pc]
GotoKnown(w, pc) ==
  /\ handlers' = [Known(handlers) EXCEPT ![w].pc = pc]
  /\ reconciler' = Known(reconciler)
Done(w)     == handlers' = [handlers EXCEPT ![w] = Idle]

Current(w)  == Matches(handlers[w].gen, FALSE)
Holds(w)    == HeldBy(handlers[w].gen, Owner(w))

\* Everything a step of a handler may leave alone.
OtherRows    == <<operations, activeRun, expired>>
OtherActors  == <<reconciler, requests, faults>>

-----------------------------------------------------------------------------
(* processBatch *)

\* The poll and the reconcile pass are cases of one select loop.
Lease(w, g) ==
  /\ At(w, "idle")
  /\ reconciler[Owner(w)].pc = "off"
  /\ LeaseCandidate(g)
  /\ LeaseTo(g, Owner(w))
  /\ handlers' = [handlers EXCEPT ![w] =
                    [Idle EXCEPT !.pc = "begin", !.gen = g, !.action = operations[g].action]]
  /\ UNCHANGED <<machine, access, activeRun, expired, docker, OtherActors>>

Running(g) == \E w \in Workers : handlers[w].pc \in CallPcs \cup {"complete", "fail"}
                                 /\ handlers[w].gen = g /\ Holds(w)

\* The two minutes pass with no renewal once the handler is gone ...
LeaseExpires(g) ==
  /\ Leased(g) /\ ~Running(g)
  /\ operations' = [operations EXCEPT ![g].live = FALSE]
  /\ UNCHANGED <<machine, access, activeRun, expired, docker, processes, faults>>

\* ... or while it is held up and its renewal goroutine with it.
Stall(g) ==
  /\ Leased(g) /\ Running(g)
  /\ Fault("stall")
  /\ operations' = [operations EXCEPT ![g].live = FALSE]
  /\ UNCHANGED <<machine, access, activeRun, expired, docker, processes>>

\* RenewOperationLease asks for the owner, not for the expiry.
Renew(w) ==
  /\ handlers[w].pc \in CallPcs
  /\ Holds(w) /\ ~operations[handlers[w].gen].live
  /\ operations' = [operations EXCEPT ![handlers[w].gen].live = TRUE]
  /\ UNCHANGED <<machine, access, activeRun, expired, docker, processes, faults>>

-----------------------------------------------------------------------------
(* processOperation: the row is read, stale work is dropped, the action starts *)

FirstCall(action) ==
  CASE action = "spawn" -> "spawning"
    [] action = "start" ->
         IF machine.status \in {"failed", "spawning", "queued"} THEN "spawning"
         ELSE IF machine.status = "paused" THEN "revoke"
         ELSE IF machine.status = "stopped" THEN "start"
         ELSE "complete"
    [] action = "pause" -> IF machine.status = "paused" THEN "revoke_only" ELSE "revoke"
    [] action = "stop" -> IF machine.status = "stopped" THEN "complete" ELSE "stopping"
    [] action = "teardown" ->
         IF machine.status = "destroyed" THEN "complete" ELSE "tearing_down"

Begin(w) ==
  LET action == handlers[w].action
      next == IF ~machine.present THEN "fail"
              ELSE IF handlers[w].gen < machine.generation /\ action # "teardown"
                   THEN "complete"
              ELSE FirstCall(action)
  IN /\ At(w, "begin")
     /\ handlers' = [handlers EXCEPT ![w] =
          [@ EXCEPT !.pc = next, !.named = machine.named, !.ids = bound]]
     /\ UNCHANGED <<database, docker, OtherActors>>

\* SetMachineStateForOperation, before the runtime call.
Announcement == [spawning |-> "create", stopping |-> "stop", tearing_down |-> "revoke"]

Announce(w) ==
  LET pc == handlers[w].pc IN
  /\ pc \in DOMAIN Announcement
  /\ IF Matches(handlers[w].gen, pc = "tearing_down")
     THEN SetStatus(pc) /\ Goto(w, Announcement[pc])
     ELSE Goto(w, "complete") /\ UNCHANGED machine
  /\ UNCHANGED <<OtherRows, access, docker, OtherActors>>

-----------------------------------------------------------------------------
(* spawn *)

CreateResources(w) ==
  /\ At(w, "create")
  /\ SpawnCreate
  /\ handlers' = [handlers EXCEPT ![w] =
                    [@ EXCEPT !.pc = "launch", !.made = (runtime = "absent")]]
  /\ UNCHANGED <<bound, database, OtherActors>>

\* The map of container IDs Spawn returns names the containers now running.
Launch(w) ==
  /\ At(w, "launch")
  /\ SpawnReady
  /\ handlers' = [handlers EXCEPT ![w] = [@ EXCEPT !.pc = "bind", !.ids = TRUE]]
  /\ UNCHANGED <<bound, database, OtherActors>>

LaunchFails(w) ==
  /\ At(w, "launch")
  /\ IF runtime = "absent" \/ ~Holds(w) THEN UNCHANGED faults ELSE Fault("error")
  /\ SpawnCleanup(handlers[w].made)
  /\ GotoKnown(w, "fail")
  /\ UNCHANGED <<database, requests>>

\* Mutant: the spawn ends without writing the container IDs to the service rows.
BindForgotten(w) ==
  /\ At(w, "bind")
  /\ Goto(w, "running")
  /\ UNCHANGED <<docker, database, OtherActors>>

Bind(w) ==
  /\ At(w, "bind")
  /\ bound' = handlers[w].ids
  /\ Goto(w, "running")
  /\ UNCHANGED <<runtime, database, OtherActors>>

RecordRunning(w) ==
  /\ At(w, "running")
  /\ IF Current(w)
     THEN SetStatusNamed("running") /\ Goto(w, "event")
     ELSE Goto(w, "compensate") /\ UNCHANGED machine
  /\ UNCHANGED <<OtherRows, access, docker, OtherActors>>

\* Mutant: a stale spawn is dropped, and what it created stays.
NoCompensation(w) ==
  /\ At(w, "compensate")
  /\ Goto(w, "complete")
  /\ UNCHANGED <<database, docker, OtherActors>>

\* A spawn that lost its generation tears down, and ignores the error of that.
Compensate(w) ==
  /\ At(w, "compensate")
  /\ \/ Teardown /\ UNCHANGED faults
     \/ Fault("error") /\ Interrupted(TRUE) /\ UNCHANGED bound
  /\ GotoKnown(w, "complete")
  /\ UNCHANGED <<database, requests>>

-----------------------------------------------------------------------------
(* start, pause, stop and teardown *)

AfterRevoke(action) ==
  CASE action = "start"    -> "start"
    [] action = "pause"    -> "pause"
    [] action = "stop"     -> "stopped"
    [] action = "teardown" -> "teardown"
    [] OTHER               -> "complete"

\* RevokeMachineAccess.  Teardown first completes the agent runs this manager
\* has registered; stop and teardown ignore the error of the revocation.
Revoke(w) ==
  LET action == handlers[w].action IN
  /\ handlers[w].pc \in {"revoke", "revoke_only"}
  /\ \/ access' = FALSE /\ UNCHANGED faults
     \/ action \in {"stop", "teardown"} /\ Fault("error") /\ UNCHANGED access
  /\ activeRun' \in IF action = "teardown" THEN {FALSE, activeRun} ELSE {activeRun}
  /\ Goto(w, IF At(w, "revoke_only") THEN "complete" ELSE AfterRevoke(action))
  /\ UNCHANGED <<machine, operations, expired, docker, reconciler, requests>>

StartContainers(w) ==
  /\ At(w, "start")
  /\ \/ CanStart(handlers[w]) /\ Start /\ Goto(w, "started")
     \/ (~CanStart(handlers[w]) \/ runtime = "partial") /\ Goto(w, "fail") /\ UNCHANGED runtime
  /\ UNCHANGED <<bound, database, OtherActors>>

PauseContainers(w) ==
  /\ At(w, "pause")
  /\ Pause(handlers[w])
  /\ Goto(w, "paused")
  /\ UNCHANGED <<bound, database, OtherActors>>

StopContainers(w) ==
  /\ At(w, "stop")
  /\ Stop(handlers[w])
  /\ Goto(w, "revoke")
  /\ UNCHANGED <<bound, database, OtherActors>>

TeardownContainers(w) ==
  /\ At(w, "teardown")
  /\ Teardown
  /\ GotoKnown(w, "destroyed")
  /\ UNCHANGED <<database, requests, faults>>

\* setStateAndEventForOperation: only a teardown may write a stale result.
ResultOf == [started |-> "running", paused |-> "paused",
             stopped |-> "stopped", destroyed |-> "destroyed"]

RecordResult(w) ==
  LET pc == handlers[w].pc IN
  /\ pc \in DOMAIN ResultOf
  /\ IF Matches(handlers[w].gen, pc = "destroyed")
     THEN SetStatus(ResultOf[pc]) /\ Goto(w, "event")
     ELSE Goto(w, "complete") /\ UNCHANGED machine
  /\ UNCHANGED <<OtherRows, access, docker, OtherActors>>

CreateEvent(w) ==
  /\ At(w, "event")
  /\ Goto(w, "complete")
  /\ UNCHANGED <<database, docker, OtherActors>>

-----------------------------------------------------------------------------
(* The end of processLeasedOperation *)

\* CompleteOperation refuses a row that is no longer leased to this manager.
CompleteOperation(w) ==
  /\ At(w, "complete")
  /\ IF Holds(w)
     THEN /\ Complete(handlers[w].gen)
          /\ IF handlers[w].action = "teardown" THEN Goto(w, "purge") ELSE Done(w)
     ELSE Done(w) /\ UNCHANGED operations
  /\ UNCHANGED <<machine, access, activeRun, expired, docker, OtherActors>>

PurgeAfterTeardown(w) ==
  /\ At(w, "purge")
  /\ Done(w)
  /\ IF machine.present /\ machine.deleteRequested /\ SafelyPurgeable /\ ~AnyActive
     THEN Purge
     ELSE UNCHANGED <<machine, operations, access, activeRun>>
  /\ UNCHANGED <<expired, docker, OtherActors>>

FailOperation(w) ==
  /\ At(w, "fail")
  /\ IF Holds(w)
     THEN /\ Fail(handlers[w].gen)
          /\ IF WillRetry(handlers[w].gen) THEN Done(w) ELSE Goto(w, "markfailed")
     ELSE Done(w) /\ UNCHANGED operations
  /\ UNCHANGED <<machine, access, activeRun, expired, docker, OtherActors>>

MarkFailed(w) ==
  /\ At(w, "markfailed")
  /\ Done(w)
  /\ IF Current(w) THEN SetStatus("failed") ELSE UNCHANGED machine
  /\ UNCHANGED <<OtherRows, access, docker, OtherActors>>

-----------------------------------------------------------------------------
(* Errors and crashes *)

\* A call returns an error.
CallFails(w) ==
  /\ handlers[w].pc \in CallPcs \ {"launch", "compensate"}
  /\ ~(At(w, "revoke") /\ handlers[w].action \in {"stop", "teardown"})
  /\ Fault("error")
  /\ Interrupted(handlers[w].pc \in DockerPcs)
  /\ Goto(w, "fail")
  /\ UNCHANGED <<bound, database, reconciler, requests>>

\* A final statement returns an error: it is logged and the goroutine ends.
FinalStatementFails(w) ==
  /\ handlers[w].pc \in FinalPcs
  /\ Fault("error")
  /\ Done(w)
  /\ UNCHANGED <<database, docker, reconciler, requests>>

\* The handler finds that its lease went to another owner, and stops.
LeaseLost(w) ==
  /\ handlers[w].pc \in CallPcs \ {"launch", "compensate"}
  /\ ~Holds(w)
  /\ Goto(w, "fail")
  /\ UNCHANGED <<database, docker, OtherActors>>

HandlerStep(w) ==
  \/ Begin(w) \/ Announce(w)
  \/ CreateResources(w) \/ Launch(w) \/ LaunchFails(w) \/ Bind(w) \/ RecordRunning(w)
  \/ Compensate(w)
  \/ Revoke(w) \/ StartContainers(w) \/ PauseContainers(w) \/ StopContainers(w)
  \/ TeardownContainers(w) \/ RecordResult(w) \/ CreateEvent(w)
  \/ CompleteOperation(w) \/ PurgeAfterTeardown(w) \/ FailOperation(w) \/ MarkFailed(w)
  \/ CallFails(w) \/ FinalStatementFails(w) \/ LeaseLost(w)
=============================================================================
