-------------------------- MODULE LifecycleService --------------------------
(****************************************************************************)
(* service/dev_machine.go: the requests users make.  Lifecycle checks a row *)
(* it has read and enqueues in a later transaction, so each client keeps    *)
(* the action and the generation it computed in between.  The rest of this  *)
(* module is what happens to the machine by itself: agent runs, tickets and *)
(* sessions, and the end of its maximum lifetime.                           *)
(****************************************************************************)
EXTENDS Reconciler

NoRequest == [action |-> "none", gen |-> 0]

ServiceInit == requests = [c \in Clients |-> NoRequest]

\* domain.ValidOperationForStatus, for the actions of the lifecycle endpoint
ValidOperationForStatus(action, status) ==
  CASE action = "start"    -> status \in {"stopped", "paused", "failed"}
    [] action = "stop"     -> status \in {"running", "paused"}
    [] action = "pause"    -> status = "running"
    [] action = "teardown" -> status \notin {"destroyed", "tearing_down"}

Validate(c, action) ==
  /\ requests[c] = NoRequest
  /\ machine.present /\ machine.generation < MaxRequests
  /\ action = "start" => ~expired
  /\ ValidOperationForStatus(action, machine.status)
  /\ action \in {"pause", "stop", "teardown"} => ~activeRun
  /\ machine.desired = "destroyed" => action = "teardown"
  /\ requests' = [requests EXCEPT ![c] = [action |-> action, gen |-> machine.generation + 1]]
  /\ UNCHANGED <<database, docker, handlers, reconciler, faults>>

Commit(c) ==
  /\ requests[c] # NoRequest
  /\ CanEnqueue(requests[c].action, requests[c].gen)
  /\ Enqueue(requests[c].action, FALSE)
  /\ requests' = [requests EXCEPT ![c] = NoRequest]
  /\ UNCHANGED <<access, activeRun, expired, docker, handlers, reconciler, faults>>

\* A conflict, an active run, a quota or an environment that is not ready.
Refuse(c) ==
  /\ requests[c] # NoRequest
  /\ requests' = [requests EXCEPT ![c] = NoRequest]
  /\ UNCHANGED <<database, docker, handlers, reconciler, faults>>

\* Delete and BulkDelete
Delete ==
  /\ "delete" \in Events
  /\ machine.present /\ ~machine.deleteRequested
  /\ machine.generation < MaxRequests
  /\ RequestPermanentDelete
  /\ UNCHANGED <<access, activeRun, expired, docker, processes, faults>>

\* BulkPermanentDelete: an administrator purges old rows.
BulkPurge ==
  /\ "purge" \in Events
  /\ machine.present /\ ~AnyActive
  /\ SafelyPurgeable
  /\ Purge
  /\ UNCHANGED <<expired, docker, processes, faults>>

-----------------------------------------------------------------------------
Usable == machine.present /\ machine.status = "running" /\ machine.desired = "running"

StartRun ==
  /\ "run" \in Events
  /\ Usable /\ ~activeRun
  /\ activeRun' = TRUE
  /\ UNCHANGED <<machine, operations, access, expired, docker, processes, faults>>

EndRun ==
  /\ activeRun
  /\ activeRun' = FALSE
  /\ UNCHANGED <<machine, operations, access, expired, docker, processes, faults>>

\* CreateAccessTicket, and CreateAccessSession for the gateway
GrantAccess ==
  /\ "access" \in Events
  /\ Usable /\ ~expired /\ ~access
  /\ access' = TRUE
  /\ UNCHANGED <<machine, OtherRows, docker, processes, faults>>

LifetimeEnds ==
  /\ "lifetime" \in Events
  /\ ~expired
  /\ expired' = TRUE
  /\ UNCHANGED <<machine, operations, access, activeRun, docker, processes, faults>>
=============================================================================
