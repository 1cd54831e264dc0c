--------------------------- MODULE DevMachineStore ---------------------------
(****************************************************************************)
(* The rows PostgreSQL keeps for one Dev Machine, and the statements of     *)
(* repository/dev_machine.go that change them.  Every operator below is one *)
(* statement or one transaction of the repository; the processes that issue *)
(* them are in OperationWorker, Reconciler and LifecycleService.            *)
(****************************************************************************)
EXTENDS Integers, FiniteSets

CONSTANTS
  Managers,        \* machine-manager processes; the name is the lease owner
  Slots,           \* entries of operationSlots, the handlers one manager runs at once
  Clients,         \* concurrent API requests
  Nobody,          \* the NULL lease_owner
  MaxAttempts,     \* max_attempts of an operation
  MaxGeneration,   \* bound: enqueues are refused once the generation is here
  MaxRequests,     \* bound: API requests are made only below this generation
  MaxFaults,       \* bound: how many faults one behaviour may contain
  FaultKinds,      \* which kinds of fault a behaviour may contain
  Events           \* bound: what users and time may do besides lifecycle requests

AllFaultKinds == {"error", "crash", "stall", "container"}
AllEvents     == {"run", "access", "lifetime", "idle", "quota", "delete", "purge"}

ASSUME BoundsAssumption ==
  /\ MaxAttempts \in Nat \ {0}
  /\ MaxGeneration \in Nat \ {0}
  /\ MaxRequests \in Nat
  /\ MaxFaults \in Nat
  /\ FaultKinds \subseteq AllFaultKinds
  /\ Events \subseteq AllEvents

ASSUME NobodyAssumption == Nobody \notin Managers

VARIABLES
  machine,      \* the dev_machines row
  operations,   \* dev_machine_operations: one row per generation of the machine
  access,       \* an unrevoked access ticket or session exists
  activeRun,    \* an agent run is queued, starting, running or waiting
  expired,      \* expires_at has passed
  runtime,      \* what Docker holds for the machine
  bound,        \* the service rows hold the IDs of the containers Docker holds
  handlers,     \* the goroutine in each slot of each manager
  reconciler,   \* the reconcile pass of each manager
  requests,     \* API requests between their reads and their transaction
  faults        \* how many faults have happened

database  == <<machine, operations, access, activeRun, expired>>
docker    == <<runtime, bound>>
processes == <<handlers, reconciler, requests>>
vars      == <<database, docker, processes, faults>>

Generations == 1..MaxGeneration
Actions     == {"spawn", "start", "pause", "stop", "teardown"}
Statuses    == {"queued", "spawning", "running", "paused", "stopping", "stopped",
                "tearing_down", "destroyed", "failed", "expired"}
Desired     == {"running", "paused", "stopped", "destroyed"}

\* The desired status each action asks for.
Target(action) ==
  CASE action \in {"spawn", "start"} -> "running"
    [] action = "pause"              -> "paused"
    [] action = "stop"               -> "stopped"
    [] action = "teardown"           -> "destroyed"

NoOperation == [action |-> "spawn", status |-> "none", owner |-> Nobody,
                live |-> FALSE, attempts |-> 0]
Pending(action) == [NoOperation EXCEPT !.action = action, !.status = "pending"]

\* CreateBundle: the row, and the spawn operation of generation 1.
StoreInit ==
  /\ machine = [present |-> TRUE, status |-> "queued", desired |-> "running",
                generation |-> 1, named |-> FALSE, deleteRequested |-> FALSE]
  /\ operations = [g \in Generations |-> IF g = 1 THEN Pending("spawn") ELSE NoOperation]
  /\ access = FALSE
  /\ activeRun = FALSE
  /\ expired = FALSE

-----------------------------------------------------------------------------
(* Queries *)

Active(g)  == operations[g].status \in {"pending", "leased"}
AnyActive  == \E g \in Generations : Active(g)
Leased(g)  == operations[g].status = "leased" /\ operations[g].live
HeldBy(g, m) == operations[g].status = "leased" /\ operations[g].owner = m

ActiveTeardown == \E g \in Generations : Active(g) /\ operations[g].action = "teardown"

\* Mutant: a failed machine is purged although its network and volume have names.
PurgeableWithNames == machine.status \in {"destroyed", "failed", "expired"}

\* domain.DevMachineSafelyPurgeable
SafelyPurgeable ==
  \/ machine.status = "destroyed"
  \/ machine.status \in {"failed", "expired"} /\ ~machine.named

\* Mutant: a write reaches the row whatever its generation is.
MatchesAny(generation, allowStale) == machine.present

\* The row SetMachineStateForOperation updates: the one of this generation, or
\* any when the write is allowed to be stale.
Matches(generation, allowStale) ==
  machine.present /\ (allowStale \/ machine.generation = generation)

-----------------------------------------------------------------------------
(* Statements.  Each one says what it changes; the caller says the rest. *)

SetStatus(status) == machine' = [machine EXCEPT !.status = status]

\* A write that also records the network and volume names (COALESCE).
SetStatusNamed(status) == machine' = [machine EXCEPT !.status = status, !.named = TRUE]

\* Mutant: the row counts one generation more than the operation it is given.
EnqueueSkewed(action, deleting) ==
  /\ machine' = [machine EXCEPT !.desired = Target(action),
                                !.generation = machine.generation + 2,
                                !.deleteRequested = @ \/ deleting]
  /\ operations' = [operations EXCEPT ![machine.generation + 1] = Pending(action)]

\* The common end of SetDesiredAndEnqueue and RequestPermanentDelete: the
\* desired status, the next generation and its operation commit together.
Enqueue(action, deleting) ==
  /\ machine' = [machine EXCEPT !.desired = Target(action),
                                !.generation = machine.generation + 1,
                                !.deleteRequested = @ \/ deleting]
  /\ operations' = [operations EXCEPT ![machine.generation + 1] = Pending(action)]

\* The guards of SetDesiredAndEnqueue for an operation of this generation.
CanEnqueue(action, generation) ==
  /\ machine.present
  /\ machine.generation < generation
  /\ action \in {"pause", "stop", "teardown"} => ~activeRun
  /\ machine.generation < MaxGeneration

\* RequestPermanentDelete on the locked row.
RequestPermanentDelete ==
  IF ActiveTeardown
  THEN /\ machine' = [machine EXCEPT !.deleteRequested = TRUE, !.desired = "destroyed"]
       /\ UNCHANGED operations
  ELSE IF (SafelyPurgeable /\ ~AnyActive) \/ machine.generation >= MaxGeneration
  THEN /\ machine' = [machine EXCEPT !.deleteRequested = TRUE]
       /\ UNCHANGED operations
  ELSE Enqueue("teardown", TRUE)

\* DELETE FROM dev_machines: operations, tickets, sessions and runs cascade.
Purge ==
  /\ machine' = [machine EXCEPT !.present = FALSE]
  /\ operations' = [g \in Generations |-> NoOperation]
  /\ access' = FALSE
  /\ activeRun' = FALSE

\* Mutant: the query no longer asks whether another operation holds a live lease.
LeasableAlongside(g) == Active(g) /\ ~Leased(g)

\* LeaseOperations ranks a teardown first and then the newest generation; an
\* operation that failed before may still be waiting for its available_at.
Leasable(g) ==
  /\ Active(g) /\ ~Leased(g)
  /\ \/ operations[g].action = "teardown"
     \/ \A h \in Generations \ {g} : ~Leased(h)

Outranks(h, g) ==
  IF operations[h].action = "teardown" /\ operations[g].action # "teardown" THEN TRUE
  ELSE IF operations[g].action = "teardown" /\ operations[h].action # "teardown" THEN FALSE
  ELSE h > g

MayBackOff(g) == operations[g].status = "pending" /\ operations[g].attempts > 0

LeaseCandidate(g) ==
  /\ Leasable(g)
  /\ \A h \in Generations : Leasable(h) /\ Outranks(h, g) => MayBackOff(h)

LeaseTo(g, m) ==
  operations' = [operations EXCEPT ![g] =
    [@ EXCEPT !.status = "leased", !.owner = m, !.live = TRUE,
              !.attempts = operations[g].attempts + 1]]

\* CompleteOperation
Complete(g) ==
  operations' = [operations EXCEPT ![g] =
    [@ EXCEPT !.status = "completed", !.owner = Nobody, !.live = FALSE]]

\* FailOperation: back to pending while attempts remain.
WillRetry(g) == operations[g].attempts < MaxAttempts

Fail(g) ==
  operations' = [operations EXCEPT ![g] =
    [@ EXCEPT !.status = IF WillRetry(g) THEN "pending" ELSE "failed",
              !.owner = Nobody, !.live = FALSE]]

\* A fault of this kind may happen, and is counted.
Fault(kind) ==
  /\ kind \in FaultKinds
  /\ faults < MaxFaults
  /\ faults' = faults + 1
=============================================================================
