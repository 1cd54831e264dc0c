------------------------ MODULE DevMachineTypeProofs ------------------------
(****************************************************************************)
(* TypeOK is inductive: first the statements of the store and the moves of  *)
(* the processes, then the handlers, the reconcile pass and the rest of     *)
(* Next, action by action.                                                  *)
(****************************************************************************)
EXTENDS DevMachine, TLAPS

LEMMA InitTypeOK == Init => TypeOK
<1> SUFFICES ASSUME Init PROVE TypeOK
  OBVIOUS
<1> USE DEF Init
<1>1. machine \in MachineRows
  BY BoundsAssumption DEF StoreInit, MachineRows, Generations, Statuses, Desired
<1>2. operations \in [Generations -> OperationRows]
  <2>1. NoOperation \in OperationRows /\ Pending("spawn") \in OperationRows
    BY DEF NoOperation, Pending, OperationRows, Actions
  <2> QED
    BY <2>1 DEF StoreInit
<1>3. handlers \in [Workers -> HandlerStates]
  BY DEF WorkerInit, Idle, HandlerStates, CallPcs, DockerPcs, FinalPcs, Actions
<1>4. reconciler \in [Managers -> PassStates]
  BY DEF ReconcilerInit, Off, PassStates, Phases, RepairPcs, Statuses
<1>5. requests \in [Clients -> RequestStates]
  BY DEF ServiceInit, NoRequest, RequestStates
<1> QED
  BY <1>1, <1>2, <1>3, <1>4, <1>5 DEF TypeOK, StoreInit, RuntimeInit, RuntimeStates

-----------------------------------------------------------------------------
(* Statements and moves *)

LEMMA EnqueueTyped ==
  ASSUME TypeOK, NEW action \in Actions, NEW deleting \in BOOLEAN,
         machine.generation < MaxGeneration, Enqueue(action, deleting)
  PROVE  machine' \in MachineRows /\ operations' \in [Generations -> OperationRows]
<1>1. Target(action) \in Desired
  BY DEF Target, Actions, Desired
<1>2. machine.generation + 1 \in Generations
  BY BoundsAssumption DEF TypeOK, MachineRows, Generations
<1>3. Pending(action) \in OperationRows
  BY DEF NoOperation, Pending, OperationRows, Actions
<1>4. machine' \in MachineRows
  BY <1>1, <1>2 DEF Enqueue, TypeOK, MachineRows
<1> QED
  BY <1>2, <1>3, <1>4 DEF Enqueue, TypeOK

LEMMA RequestDeleteTyped ==
  ASSUME TypeOK, RequestPermanentDelete
  PROVE  machine' \in MachineRows /\ operations' \in [Generations -> OperationRows]
<1>1. CASE Enqueue("teardown", TRUE) /\ ~(machine.generation >= MaxGeneration)
  <2>1. machine.generation < MaxGeneration
    BY <1>1, BoundsAssumption DEF TypeOK, MachineRows, Generations
  <2> QED
    BY <1>1, <2>1, EnqueueTyped DEF Actions
<1>2. CASE UNCHANGED operations /\ machine' = [machine EXCEPT !.deleteRequested = TRUE]
  BY <1>2 DEF TypeOK, MachineRows
<1>3. CASE UNCHANGED operations /\
           machine' = [machine EXCEPT !.deleteRequested = TRUE, !.desired = "destroyed"]
  BY <1>3 DEF TypeOK, MachineRows, Desired
<1> QED
  BY <1>1, <1>2, <1>3 DEF RequestPermanentDelete

LEMMA PurgeTyped ==
  ASSUME TypeOK, Purge
  PROVE  /\ machine' \in MachineRows /\ operations' \in [Generations -> OperationRows]
         /\ access' \in BOOLEAN /\ activeRun' \in BOOLEAN
<1>1. NoOperation \in OperationRows
  BY DEF NoOperation, OperationRows, Actions
<1> QED
  BY <1>1 DEF Purge, TypeOK, MachineRows

LEMMA StatusTyped ==
  ASSUME TypeOK, NEW status \in Statuses, SetStatus(status) \/ SetStatusNamed(status)
  PROVE  machine' \in MachineRows
BY DEF TypeOK, SetStatus, SetStatusNamed, MachineRows

LEMMA ResultTyped ==
  ASSUME TypeOK, NEW g, Complete(g) \/ Fail(g)
  PROVE  operations' \in [Generations -> OperationRows]
<1>1. CASE g \in Generations
  <2>1. operations[g] \in OperationRows
    BY <1>1 DEF TypeOK
  <2>2. \A s \in {"completed", "pending", "failed"} :
          [operations[g] EXCEPT !.status = s, !.owner = Nobody, !.live = FALSE] \in OperationRows
    BY <2>1 DEF OperationRows
  <2> QED
    BY <1>1, <2>2 DEF TypeOK, Complete, Fail
<1>2. CASE g \notin Generations
  BY <1>2 DEF TypeOK, Complete, Fail
<1> QED
  BY <1>1, <1>2

LEMMA KnownTyped ==
  ASSUME TypeOK
  PROVE  /\ Known(handlers) \in [Workers -> HandlerStates]
         /\ Known(reconciler) \in [Managers -> PassStates]
<1>1. \A h \in HandlerStates : [h EXCEPT !.ids = FALSE] \in HandlerStates
  BY DEF HandlerStates
<1>2. \A p \in PassStates : [p EXCEPT !.ids = FALSE] \in PassStates
  BY DEF PassStates
<1>3. Known(handlers) \in [Workers -> HandlerStates]
  BY <1>1 DEF TypeOK, Known
<1>4. Known(reconciler) \in [Managers -> PassStates]
  BY <1>2 DEF TypeOK, Known
<1> QED
  BY <1>3, <1>4

LEMMA GotoTyped ==
  ASSUME TypeOK, NEW w \in Workers, NEW pc \in CallPcs \cup FinalPcs \cup {"idle"}
  PROVE  /\ Goto(w, pc) => handlers' \in [Workers -> HandlerStates]
         /\ GotoKnown(w, pc) => /\ handlers' \in [Workers -> HandlerStates]
                                /\ reconciler' \in [Managers -> PassStates]
         /\ Done(w) => handlers' \in [Workers -> HandlerStates]
<1>1. Idle \in HandlerStates
  BY DEF Idle, HandlerStates, Actions
<1>2. Done(w) => handlers' \in [Workers -> HandlerStates]
  BY <1>1 DEF Done, TypeOK
<1>3. Goto(w, pc) => handlers' \in [Workers -> HandlerStates]
  BY DEF Goto, TypeOK, HandlerStates
<1>4. GotoKnown(w, pc) => handlers' \in [Workers -> HandlerStates]
  BY KnownTyped DEF GotoKnown, HandlerStates
<1> QED
  BY <1>2, <1>3, <1>4, KnownTyped DEF GotoKnown

LEMMA MoveTyped ==
  ASSUME TypeOK, NEW m \in Managers, NEW pc \in Phases \cup RepairPcs \cup {"off"}
  PROVE  /\ Move(m, pc) => reconciler' \in [Managers -> PassStates]
         /\ MoveKnown(m, pc) => /\ reconciler' \in [Managers -> PassStates]
                                /\ handlers' \in [Workers -> HandlerStates]
         /\ Read(m, pc) => reconciler' \in [Managers -> PassStates]
<1>1. Off \in PassStates
  BY DEF Off, PassStates, Statuses
<1>2. Move(m, pc) => reconciler' \in [Managers -> PassStates]
  BY <1>1 DEF Move, TypeOK, PassStates
<1>3. MoveKnown(m, pc) => reconciler' \in [Managers -> PassStates]
  BY <1>1, KnownTyped DEF MoveKnown, PassStates
<1>4. Read(m, pc) => reconciler' \in [Managers -> PassStates]
  <2>1. [Off EXCEPT !.pc = pc, !.gen = machine.generation, !.status = machine.status,
                    !.ids = bound] \in PassStates
    BY <1>1 DEF PassStates, TypeOK, MachineRows
  <2> QED
    BY <2>1 DEF Read, TypeOK
<1> QED
  BY <1>2, <1>3, <1>4, KnownTyped DEF MoveKnown

-----------------------------------------------------------------------------
(* A handler's step *)

LEMMA BeginTyped ==
  ASSUME TypeOK, NEW w \in Workers, Begin(w)
  PROVE  TypeOK'
<1> DEFINE next == IF ~machine.present THEN "fail"
                   ELSE IF handlers[w].gen < machine.generation
                           /\ handlers[w].action # "teardown"
                        THEN "complete"
                   ELSE FirstCall(handlers[w].action)
<1>1. handlers[w].action \in Actions
  BY DEF TypeOK, HandlerStates
<1>2. FirstCall(handlers[w].action) \in CallPcs \cup FinalPcs
  BY <1>1 DEF FirstCall, Actions, CallPcs, FinalPcs, DockerPcs
<1>3. next \in CallPcs \cup FinalPcs
  BY <1>2 DEF FinalPcs
<1>4. handlers' = [handlers EXCEPT ![w] =
                     [@ EXCEPT !.pc = next, !.named = machine.named, !.ids = bound]]
  BY DEF Begin
<1> HIDE DEF next
<1>5. handlers' \in [Workers -> HandlerStates]
  <2>1. machine.named \in BOOLEAN /\ bound \in BOOLEAN /\ handlers[w] \in HandlerStates
    BY DEF TypeOK, MachineRows
  <2>2. [handlers[w] EXCEPT !.pc = next, !.named = machine.named, !.ids = bound]
          \in HandlerStates
    BY <1>3, <2>1 DEF HandlerStates
  <2> QED
    BY <1>4, <2>2 DEF TypeOK
<1> QED
  BY <1>5 DEF TypeOK, Begin, database, docker, OtherActors

LEMMA HandlerStepTyped ==
  ASSUME TypeOK, NEW w \in Workers, HandlerStep(w)
  PROVE  TypeOK'
<1> USE DEF TypeOK, database, docker, OtherRows, OtherActors
<1>1. CASE Begin(w)
  BY <1>1, BeginTyped
<1>2. CASE Announce(w)
  <2>1. machine' \in MachineRows
    BY <1>2, StatusTyped DEF Announce, Announcement, Statuses
  <2>2. handlers' \in [Workers -> HandlerStates]
    BY <1>2, GotoTyped DEF Announce, Announcement, CallPcs, DockerPcs, FinalPcs
  <2> QED
    BY <1>2, <2>1, <2>2 DEF Announce
<1>3. CASE CreateResources(w)
  <2>1. handlers' \in [Workers -> HandlerStates]
    <3> DEFINE b == (runtime = "absent")
    <3>1. b \in BOOLEAN /\ handlers' = [handlers EXCEPT ![w] =
                                         [@ EXCEPT !.pc = "launch", !.made = b]]
      BY <1>3 DEF CreateResources
    <3> HIDE DEF b
    <3>2. [handlers[w] EXCEPT !.pc = "launch", !.made = b] \in HandlerStates
      BY <3>1 DEF HandlerStates, CallPcs, DockerPcs
    <3> QED
      BY <3>1, <3>2
  <2> QED
    BY <1>3, <2>1 DEF CreateResources, SpawnCreate, RuntimeStates
<1>4. CASE Launch(w)
  <2>1. [handlers[w] EXCEPT !.pc = "bind", !.ids = TRUE] \in HandlerStates
    BY DEF HandlerStates, CallPcs
  <2>2. handlers' \in [Workers -> HandlerStates]
    BY <1>4, <2>1 DEF Launch
  <2> QED
    BY <1>4, <2>2 DEF Launch, SpawnReady, RuntimeStates
<1>5. CASE LaunchFails(w)
  BY <1>5, GotoTyped DEF LaunchFails, SpawnCleanup, RuntimeStates, FinalPcs, Fault
<1>6. CASE Bind(w)
  BY <1>6, GotoTyped DEF Bind, CallPcs, HandlerStates
<1>7. CASE RecordRunning(w)
  BY <1>7, GotoTyped, StatusTyped DEF RecordRunning, CallPcs, Statuses
<1>8. CASE Compensate(w)
  <2>1. handlers' \in [Workers -> HandlerStates] /\ reconciler' \in [Managers -> PassStates]
    BY <1>8, GotoTyped DEF Compensate, FinalPcs
  <2>2. runtime' \in RuntimeStates
    BY <1>8 DEF Compensate, Teardown, Interrupted, RuntimeStates
  <2>3. bound' \in BOOLEAN
    BY <1>8 DEF Compensate, Teardown
  <2>4. faults' \in Nat
    BY <1>8 DEF Compensate, Interrupted, Fault
  <2> QED
    BY <1>8, <2>1, <2>2, <2>3, <2>4 DEF Compensate
<1>9. CASE Revoke(w)
  <2>1. AfterRevoke(handlers[w].action) \in CallPcs \cup FinalPcs
    BY DEF AfterRevoke, CallPcs, DockerPcs, FinalPcs
  <2>2. handlers' \in [Workers -> HandlerStates]
    BY <1>9, <2>1, GotoTyped DEF Revoke, FinalPcs
  <2>3. access' \in BOOLEAN
    BY <1>9 DEF Revoke
  <2>4. activeRun' \in BOOLEAN
    BY <1>9 DEF Revoke
  <2>5. faults' \in Nat
    BY <1>9 DEF Revoke, Fault
  <2> QED
    BY <1>9, <2>2, <2>3, <2>4, <2>5 DEF Revoke
<1>10. CASE StartContainers(w)
  BY <1>10, GotoTyped DEF StartContainers, Start, RuntimeStates, CallPcs, FinalPcs
<1>11. CASE PauseContainers(w)
  BY <1>11, GotoTyped DEF PauseContainers, Pause, RuntimeStates, CallPcs
<1>12. CASE StopContainers(w)
  BY <1>12, GotoTyped DEF StopContainers, Stop, RuntimeStates, CallPcs
<1>13. CASE TeardownContainers(w)
  BY <1>13, GotoTyped DEF TeardownContainers, Teardown, RuntimeStates, CallPcs
<1>14. CASE RecordResult(w)
  <2>1. machine' \in MachineRows
    BY <1>14, StatusTyped DEF RecordResult, ResultOf, Statuses
  <2>2. handlers' \in [Workers -> HandlerStates]
    BY <1>14, GotoTyped DEF RecordResult, CallPcs, FinalPcs
  <2> QED
    BY <1>14, <2>1, <2>2 DEF RecordResult
<1>15. CASE CreateEvent(w)
  BY <1>15, GotoTyped DEF CreateEvent, FinalPcs
<1>16. CASE CompleteOperation(w)
  <2>1. handlers' \in [Workers -> HandlerStates]
    BY <1>16, GotoTyped DEF CompleteOperation, FinalPcs
  <2>2. operations' \in [Generations -> OperationRows]
    BY <1>16, ResultTyped DEF CompleteOperation
  <2> QED
    BY <1>16, <2>1, <2>2 DEF CompleteOperation
<1>17. CASE PurgeAfterTeardown(w)
  BY <1>17, GotoTyped, PurgeTyped DEF PurgeAfterTeardown
<1>18. CASE FailOperation(w)
  <2>1. handlers' \in [Workers -> HandlerStates]
    BY <1>18, GotoTyped DEF FailOperation, FinalPcs
  <2>2. operations' \in [Generations -> OperationRows]
    BY <1>18, ResultTyped DEF FailOperation
  <2> QED
    BY <1>18, <2>1, <2>2 DEF FailOperation
<1>19. CASE MarkFailed(w)
  BY <1>19, GotoTyped, StatusTyped DEF MarkFailed, Statuses
<1>20. CASE CallFails(w)
  BY <1>20, GotoTyped DEF CallFails, Fault, Interrupted, RuntimeStates, FinalPcs
<1>21. CASE FinalStatementFails(w)
  BY <1>21, GotoTyped DEF FinalStatementFails, Fault
<1>22. CASE LeaseLost(w)
  BY <1>22, GotoTyped DEF LeaseLost, FinalPcs
<1> QED
  BY <1>1, <1>2, <1>3, <1>4, <1>5, <1>6, <1>7, <1>8, <1>9, <1>10, <1>11, <1>12, <1>13,
     <1>14, <1>15, <1>16, <1>17, <1>18, <1>19, <1>20, <1>21, <1>22 DEF HandlerStep

-----------------------------------------------------------------------------
(* A step of a reconcile pass *)

LEMMA EnqueueAfterTyped ==
  ASSUME TypeOK, NEW m \in Managers, NEW action \in Actions, EnqueueAfter(m, action)
  PROVE  machine' \in MachineRows /\ operations' \in [Generations -> OperationRows]
<1>1. CASE CanEnqueue(action, View(m).gen + 1) /\ Enqueue(action, FALSE)
  BY <1>1, EnqueueTyped DEF CanEnqueue
<1>2. CASE UNCHANGED <<machine, operations>>
  BY <1>2 DEF TypeOK
<1> QED
  BY <1>1, <1>2 DEF EnqueueAfter

LEMMA ListingTyped ==
  ASSUME TypeOK, NEW m \in Managers,
         Tick(m) \/ ListIdle(m) \/ ListExpired(m) \/ ListRuntime(m)
  PROVE  TypeOK'
<1>1. reconciler' \in [Managers -> PassStates]
  <2>1. CASE Tick(m)
    BY <2>1, MoveTyped DEF Tick, Phases
  <2>2. CASE ListIdle(m)
    BY <2>2, MoveTyped DEF ListIdle, Phases, RepairPcs
  <2>3. CASE ListExpired(m)
    BY <2>3, MoveTyped DEF ListExpired, Phases, RepairPcs
  <2>4. CASE ListRuntime(m)
    <3>1. machine.desired \in Desired
      BY DEF TypeOK, MachineRows
    <3>2. Repair \in RepairPcs \cup {"off"}
      BY <3>1 DEF Repair, RepairPcs, Desired
    <3> QED
      BY <2>4, <3>2, MoveTyped DEF ListRuntime
  <2> QED
    BY <2>1, <2>2, <2>3, <2>4
<1> QED
  BY <1>1 DEF TypeOK, Tick, ListIdle, ListExpired, ListRuntime, NotMine, database, docker

LEMMA PassFailsTyped ==
  ASSUME TypeOK, NEW m \in Managers, PassFails(m)
  PROVE  TypeOK'
<1>1. PICK pc \in NextPhase(View(m).pc) : Move(m, pc)
  BY DEF PassFails
<1>2. pc \in Phases \cup {"off"}
  BY DEF NextPhase, Phases
<1>3. reconciler' \in [Managers -> PassStates]
  BY <1>1, <1>2, MoveTyped
<1>4. runtime' \in RuntimeStates
  BY DEF PassFails, Interrupted, TypeOK, RuntimeStates
<1>5. faults' \in Nat
  BY DEF PassFails, Interrupted, Fault, TypeOK
<1> QED
  BY <1>3, <1>4, <1>5 DEF TypeOK, PassFails, database

LEMMA ReconcilerStepTyped ==
  ASSUME TypeOK, NEW m \in Managers, ReconcilerStep(m)
  PROVE  TypeOK'
<1> USE DEF TypeOK, database, docker, OtherRows, NotMine
<1>1. CASE Tick(m) \/ ListIdle(m) \/ ListExpired(m) \/ ListRuntime(m)
  BY <1>1, ListingTyped
<1>2. CASE Deletes(m)
  <2>1. reconciler' \in [Managers -> PassStates]
    BY <1>2, MoveTyped DEF Deletes, Phases
  <2> QED
    BY <1>2, <2>1, PurgeTyped, RequestDeleteTyped DEF Deletes
<1>3. CASE IdlePause(m)
  <2>1. reconciler' \in [Managers -> PassStates]
    BY <1>3, MoveTyped DEF IdlePause, Phases
  <2> QED
    BY <1>3, <2>1, EnqueueAfterTyped DEF IdlePause, Actions
<1>4. CASE Expire(m)
  BY <1>4, MoveTyped, StatusTyped DEF Expire, RepairPcs, Statuses
<1>5. CASE ExpireTeardown(m)
  <2>1. reconciler' \in [Managers -> PassStates]
    BY <1>5, MoveTyped DEF ExpireTeardown, Phases
  <2> QED
    BY <1>5, <2>1, EnqueueAfterTyped DEF ExpireTeardown, Actions
<1>6. CASE DestroyRevoke(m)
  <2>1. reconciler' \in [Managers -> PassStates]
    BY <1>6, MoveTyped DEF DestroyRevoke, RepairPcs
  <2>2. access' \in BOOLEAN /\ activeRun' \in BOOLEAN
    BY <1>6 DEF DestroyRevoke
  <2>3. faults' \in Nat
    BY <1>6 DEF DestroyRevoke, Fault
  <2> QED
    BY <1>6, <2>1, <2>2, <2>3 DEF DestroyRevoke
<1>7. CASE DestroyTeardown(m)
  BY <1>7, MoveTyped DEF DestroyTeardown, Teardown, RuntimeStates, RepairPcs
<1>8. CASE RepairStop(m)
  BY <1>8, MoveTyped DEF RepairStop, Stop, RuntimeStates, RepairPcs
<1>9. CASE PauseRevoke(m)
  BY <1>9, MoveTyped DEF PauseRevoke, RepairPcs
<1>10. CASE RepairPause(m)
  BY <1>10, MoveTyped DEF RepairPause, Pause, RuntimeStates, RepairPcs
<1>11. CASE RecordRepair(m)
  <2>1. machine' \in MachineRows
    BY <1>11, StatusTyped DEF RecordRepair, RepairResult, Statuses
  <2> QED
    BY <1>11, <2>1, MoveTyped DEF RecordRepair
<1>12. CASE Inspect(m)
  BY <1>12, MoveTyped DEF Inspect, RepairPcs
<1>13. CASE RepairCreate(m)
  <2> DEFINE b == (runtime = "absent")
  <2>1. b \in BOOLEAN /\ reconciler' = [reconciler EXCEPT ![m] =
                                          [@ EXCEPT !.pc = "launch", !.made = b]]
    BY <1>13 DEF RepairCreate
  <2> HIDE DEF b
  <2>2. [reconciler[m] EXCEPT !.pc = "launch", !.made = b] \in PassStates
    BY <2>1 DEF PassStates, RepairPcs
  <2>3. reconciler' \in [Managers -> PassStates]
    BY <2>1, <2>2
  <2> QED
    BY <1>13, <2>3 DEF RepairCreate, SpawnCreate, RuntimeStates
<1>14. CASE RepairLaunch(m)
  <2>1. [reconciler[m] EXCEPT !.pc = "bind", !.ids = TRUE] \in PassStates
    BY DEF PassStates, RepairPcs
  <2>2. reconciler' \in [Managers -> PassStates]
    BY <1>14, <2>1 DEF RepairLaunch
  <2> QED
    BY <1>14, <2>2 DEF RepairLaunch, SpawnReady, RuntimeStates
<1>15. CASE RepairLaunchFails(m)
  BY <1>15, MoveTyped DEF RepairLaunchFails, SpawnCleanup, RuntimeStates, Fault
<1>16. CASE RepairBind(m)
  <2>1. bound' \in BOOLEAN
    BY <1>16 DEF RepairBind, View, PassStates
  <2>2. faults' \in Nat
    BY <1>16 DEF RepairBind, Fault
  <2> QED
    BY <1>16, <2>1, <2>2, MoveTyped DEF RepairBind, RepairPcs
<1>17. CASE RecordRecovered(m)
  <2>1. machine' \in MachineRows
    BY <1>17, StatusTyped DEF RecordRecovered, Statuses
  <2>2. reconciler' \in [Managers -> PassStates]
    BY <1>17, MoveTyped DEF RecordRecovered, RepairPcs
  <2> QED
    BY <1>17, <2>1, <2>2 DEF RecordRecovered
<1>18. CASE Sample(m)
  <2>1. machine' \in MachineRows /\ operations' \in [Generations -> OperationRows]
    BY <1>18, EnqueueAfterTyped DEF Sample, Actions
  <2> QED
    BY <1>18, <2>1, MoveTyped DEF Sample
<1>19. CASE PassFails(m)
  BY <1>19, PassFailsTyped
<1> QED
  BY <1>1, <1>2, <1>3, <1>4, <1>5, <1>6, <1>7, <1>8, <1>9, <1>10, <1>11, <1>12, <1>13,
     <1>14, <1>15, <1>16, <1>17, <1>18, <1>19 DEF ReconcilerStep

-----------------------------------------------------------------------------
(* Leases, faults, requests and what happens by itself *)

LEMMA LeaseTyped ==
  ASSUME TypeOK, NEW w \in Workers, NEW g \in Generations, Lease(w, g)
  PROVE  TypeOK'
<1>1. operations[g] \in OperationRows /\ Owner(w) \in Managers
  BY DEF TypeOK, Workers, Owner
<1>2. operations' \in [Generations -> OperationRows]
  <2>1. operations[g].attempts + 1 \in Nat
    BY <1>1 DEF OperationRows
  <2> DEFINE row == [operations[g] EXCEPT !.status = "leased", !.owner = Owner(w),
                                          !.live = TRUE, !.attempts = operations[g].attempts + 1]
  <2>2. row \in OperationRows
    BY <1>1, <2>1 DEF OperationRows
  <2>3. operations' = [operations EXCEPT ![g] = row]
    BY DEF Lease, LeaseTo
  <2> HIDE DEF row
  <2> QED
    BY <2>2, <2>3 DEF TypeOK
<1>3. handlers' \in [Workers -> HandlerStates]
  <2>1. [Idle EXCEPT !.pc = "begin", !.gen = g, !.action = operations[g].action]
          \in HandlerStates
    BY <1>1 DEF Idle, HandlerStates, OperationRows, CallPcs
  <2> QED
    BY <2>1 DEF Lease, TypeOK
<1> QED
  BY <1>2, <1>3 DEF Lease, TypeOK, docker, OtherActors

LEMMA LiveTyped ==
  ASSUME TypeOK, NEW g, NEW live \in BOOLEAN,
         operations' = [operations EXCEPT ![g].live = live]
  PROVE  operations' \in [Generations -> OperationRows]
<1>1. CASE g \in Generations
  <2>1. [operations[g] EXCEPT !.live = live] \in OperationRows
    BY <1>1 DEF TypeOK, OperationRows
  <2> QED
    BY <1>1, <2>1 DEF TypeOK
<1>2. CASE g \notin Generations
  BY <1>2 DEF TypeOK
<1> QED
  BY <1>1, <1>2

LEMMA LeaseTimeTyped ==
  ASSUME TypeOK, (\E g \in Generations : LeaseExpires(g) \/ Stall(g)) \/ \E w \in Workers : Renew(w)
  PROVE  TypeOK'
<1> USE DEF TypeOK, docker, processes
<1>1. ASSUME NEW g \in Generations, LeaseExpires(g) PROVE TypeOK'
  BY <1>1, LiveTyped DEF LeaseExpires
<1>2. ASSUME NEW g \in Generations, Stall(g) PROVE TypeOK'
  <2>1. operations' \in [Generations -> OperationRows]
    BY <1>2, LiveTyped DEF Stall
  <2> QED
    BY <1>2, <2>1 DEF Stall, Fault
<1>3. ASSUME NEW w \in Workers, Renew(w) PROVE TypeOK'
  BY <1>3, LiveTyped DEF Renew
<1> QED
  BY <1>1, <1>2, <1>3

LEMMA RequestTyped ==
  ASSUME TypeOK, NEW c \in Clients,
         Commit(c) \/ Refuse(c) \/ \E action \in Actions \ {"spawn"} : Validate(c, action)
  PROVE  TypeOK'
<1> USE DEF TypeOK, database, docker, NoRequest
<1>1. CASE Commit(c)
  <2>1. requests[c].action \in Actions
    BY <1>1 DEF RequestStates, Commit
  <2>2. machine' \in MachineRows /\ operations' \in [Generations -> OperationRows]
    BY <1>1, <2>1, EnqueueTyped DEF Commit, CanEnqueue
  <2>3. requests' \in [Clients -> RequestStates]
    BY <1>1 DEF Commit, RequestStates
  <2> QED
    BY <1>1, <2>2, <2>3 DEF Commit
<1>2. CASE Refuse(c)
  <2>1. requests' \in [Clients -> RequestStates]
    BY <1>2 DEF Refuse, RequestStates
  <2> QED
    BY <1>2, <2>1 DEF Refuse
<1>3. ASSUME NEW action \in Actions \ {"spawn"}, Validate(c, action) PROVE TypeOK'
  <2>1. machine.generation + 1 \in Nat
    BY BoundsAssumption DEF MachineRows, Generations
  <2>2. requests' \in [Clients -> RequestStates]
    BY <1>3, <2>1 DEF Validate, RequestStates
  <2> QED
    BY <1>3, <2>2 DEF Validate
<1> QED
  BY <1>1, <1>2, <1>3

LEMMA NextTypeOK == TypeOK /\ [Next]_vars => TypeOK'
<1> SUFFICES ASSUME TypeOK, [Next]_vars PROVE TypeOK'
  OBVIOUS
<1>1. CASE \E w \in Workers, g \in Generations : Lease(w, g)
  BY <1>1, LeaseTyped
<1>2. CASE \E g \in Generations : LeaseExpires(g) \/ Stall(g)
  BY <1>2, LeaseTimeTyped
<1>3. CASE \E w \in Workers : Renew(w) \/ HandlerStep(w)
  BY <1>3, LeaseTimeTyped, HandlerStepTyped
<1>4. CASE \E m \in Managers : ReconcilerStep(m)
  BY <1>4, ReconcilerStepTyped
<1>5. ASSUME NEW m \in Managers, Crash(m) PROVE TypeOK'
  <2>1. Idle \in HandlerStates /\ Off \in PassStates
    BY DEF Idle, Off, HandlerStates, PassStates, Actions, Statuses
  <2>2. handlers' \in [Workers -> HandlerStates] /\ reconciler' \in [Managers -> PassStates]
    BY <1>5, <2>1 DEF Crash, TypeOK
  <2> QED
    BY <1>5, <2>2 DEF Crash, Fault, TypeOK, database, docker
<1>6. CASE \E c \in Clients : \/ Commit(c) \/ Refuse(c)
                              \/ \E action \in Actions \ {"spawn"} : Validate(c, action)
  BY <1>6, RequestTyped
<1>7. CASE Delete
  BY <1>7, RequestDeleteTyped DEF Delete, TypeOK, docker, processes
<1>8. CASE BulkPurge
  BY <1>8, PurgeTyped DEF BulkPurge, TypeOK, docker, processes
<1>9. CASE StartRun \/ EndRun \/ GrantAccess \/ LifetimeEnds
  BY <1>9 DEF StartRun, EndRun, GrantAccess, LifetimeEnds, TypeOK, OtherRows, docker, processes
<1>10. CASE ContainersFail
  BY <1>10 DEF ContainersFail, Fault, TypeOK, RuntimeStates, database, processes
<1>11. CASE UNCHANGED vars
  BY <1>11 DEF vars, database, docker, processes, TypeOK
<1> QED
  BY <1>1, <1>2, <1>3, <1>4, <1>5, <1>6, <1>7, <1>8, <1>9, <1>10, <1>11 DEF Next

\* In every behaviour, with any number of managers, slots and clients, every
\* generation the row reaches has its one operation, and no handler, pass or
\* request holds anything the code could not have put there.
THEOREM TypeInvariant == Spec => []TypeOK
  BY InitTypeOK, NextTypeOK, PTL DEF Spec
=============================================================================
