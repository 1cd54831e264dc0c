----------------------------- MODULE DevMachine -----------------------------
(****************************************************************************)
(* The control plane of one Dev Machine: API requests, the operation queue, *)
(* the workers and reconcilers of the managers, Docker, and their faults.   *)
(****************************************************************************)
EXTENDS LifecycleService

Init ==
  /\ StoreInit
  /\ RuntimeInit
  /\ WorkerInit
  /\ ReconcilerInit
  /\ ServiceInit
  /\ faults = 0

\* A manager process dies: its goroutines are gone, its leases and what Docker
\* was doing stay.  It is restarted under the same name.
Crash(m) ==
  /\ Fault("crash")
  /\ handlers' = [w \in Workers |-> IF Owner(w) = m THEN Idle ELSE handlers[w]]
  /\ reconciler' = [reconciler EXCEPT ![m] = Off]
  /\ UNCHANGED <<database, docker, requests>>

Next ==
  \/ \E w \in Workers, g \in Generations : Lease(w, g)
  \/ \E g \in Generations : LeaseExpires(g) \/ Stall(g)
  \/ \E w \in Workers : Renew(w) \/ HandlerStep(w)
  \/ \E m \in Managers : ReconcilerStep(m) \/ Crash(m)
  \/ \E c \in Clients, action \in Actions \ {"spawn"} : Validate(c, action)
  \/ \E c \in Clients : Commit(c) \/ Refuse(c)
  \/ Delete \/ BulkPurge \/ StartRun \/ EndRun \/ GrantAccess \/ LifetimeEnds
  \/ ContainersFail

Spec == Init /\ [][Next]_vars

\* The manager polls and reconciles for ever (its select chooses among the
\* tickers at random), handlers run on, leases and lifetimes run out, and a run
\* ends at its own deadline.  Nobody has to make a request, and nothing has to
\* fail.
Fairness ==
  /\ \A w \in Workers : WF_vars(HandlerStep(w))
  /\ \A g \in Generations : WF_vars(LeaseExpires(g))
  /\ SF_vars(\E w \in Workers, g \in Generations : Lease(w, g))
  /\ \A m \in Managers : WF_vars(ReconcilerStep(m))
  /\ WF_vars(EndRun)
  /\ WF_vars(LifetimeEnds)

FairSpec == Spec /\ Fairness

-----------------------------------------------------------------------------
MachineRows == [present: BOOLEAN, status: Statuses, desired: Desired,
                generation: Generations, named: BOOLEAN, deleteRequested: BOOLEAN]

OperationRows == [action: Actions, status: {"none", "pending", "leased", "completed", "failed"},
                  owner: Managers \cup {Nobody}, live: BOOLEAN, attempts: Nat]

HandlerStates == [pc: CallPcs \cup FinalPcs \cup {"idle"}, gen: Generations \cup {0},
                  action: Actions, named: BOOLEAN, ids: BOOLEAN, made: BOOLEAN]

PassStates == [pc: Phases \cup RepairPcs \cup {"off"}, gen: Generations \cup {0},
               status: Statuses, ids: BOOLEAN, made: BOOLEAN]

RequestStates == [action: Actions \ {"spawn"}, gen: Nat] \cup {NoRequest}

\* Every variable holds what the code can put there; the generation stays
\* within those that have an operation.
TypeOK ==
  /\ machine \in MachineRows
  /\ operations \in [Generations -> OperationRows]
  /\ access \in BOOLEAN /\ activeRun \in BOOLEAN /\ expired \in BOOLEAN
  /\ runtime \in RuntimeStates /\ bound \in BOOLEAN
  /\ handlers \in [Workers -> HandlerStates]
  /\ reconciler \in [Managers -> PassStates]
  /\ requests \in [Clients -> RequestStates]
  /\ faults \in Nat

\* The row as its users see it keeps the lifecycle contract.  (The generation
\* check of SetMachineStateForOperation, the locked transactions that enqueue,
\* and the revocation that comes before a pause, together.)
Contract == INSTANCE LifecycleContract WITH
  present    <- machine.present,
  status     <- machine.status,
  desired    <- machine.desired,
  generation <- machine.generation,
  access     <- access

ContractHolds == Contract!Spec

\* Nothing drives the machine: no operation, handler, pass or request is under way.
Quiescent ==
  /\ ~AnyActive
  /\ \A w \in Workers : At(w, "idle")
  /\ \A m \in Managers : In(m, "off")

\* What the row says of the containers once nothing drives the machine.
Evidence == [running |-> {"running"}, paused |-> {"paused", "stopped"}, stopped |-> {"stopped"},
             destroyed |-> {"absent"}]

\* With nothing under way, a settled status is what Docker holds.
StatusIsTruthful ==
  Quiescent /\ machine.present /\ machine.status \in DOMAIN Evidence
    => runtime \in Evidence[machine.status]

\* At most one handler is inside an ordinary operation of the machine: the
\* lease query, the expiry and the renewal together.
OneOrdinaryHandler ==
  \A v, w \in Workers :
    (/\ v # w
     /\ handlers[v].pc \in CallPcs /\ handlers[v].action # "teardown"
     /\ handlers[w].pc \in CallPcs /\ handlers[w].action # "teardown")
    => FALSE

\* A row is only deleted when Docker holds nothing for it any more.
PurgeLeavesNothing ==
  [][machine.present /\ ~machine'.present => runtime = "absent"]_vars

\* Nothing is left in Docker of a machine that is destroyed or purged.
NothingOutlivesTeardown ==
  Quiescent /\ (machine.status = "destroyed" \/ ~machine.present) => runtime = "absent"

\* A machine whose teardown was asked for gets there.
TeardownHappens ==
  (machine.desired = "destroyed") ~> (~machine.present \/ machine.status = "destroyed")

\* A machine at the end of its lifetime is torn down, whatever it was doing.
ExpiredIsTornDown == expired ~> (~machine.present \/ machine.status = "destroyed")

\* A machine whose permanent delete was requested disappears.  (Each pass queues
\* one more teardown while an operation of the machine is still active, so the
\* bound on generations is excused.)
DeletionHappens ==
  machine.deleteRequested ~> (~machine.present \/ machine.generation = MaxGeneration)

\* TECHNICAL.md:279 and 292: the workspace volume of a machine that is not
\* being destroyed survives every operation.
VolumeIsKept ==
  [][machine.named /\ machine.desired # "destroyed" /\ runtime # "absent"
       => runtime' # "absent"]_vars

\* TECHNICAL.md:158: a stopped machine has no ticket or session left.
StoppedHasNoAccess == machine.present /\ machine.status = "stopped" => ~access

\* TECHNICAL.md:277: an expired machine has its teardown queued.
ExpiredHasTeardownQueued ==
  (machine.present /\ machine.status = "expired" /\ \A m \in Managers : ~In(m, "expire_teardown"))
    => machine.desired = "destroyed"
=============================================================================
