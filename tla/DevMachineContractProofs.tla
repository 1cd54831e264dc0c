---------------------- MODULE DevMachineContractProofs ----------------------
(****************************************************************************)
(* The control plane implements LifecycleContract.  A process writes the    *)
(* row long after it read it, so the proof is about what a process that     *)
(* holds a generation may still assume of the row.                          *)
(****************************************************************************)
EXTENDS DevMachineTypeProofs

\* A process that works for generation g believes that status d is wanted: so
\* it is while g is the machine's generation, and for ever if d is destroyed.
Sought(row, g, d) ==
  /\ g \in 1..row.generation
  /\ g = row.generation => row.desired = d
  /\ d = "destroyed" => row.desired = "destroyed"

\* Every operation there is was asked for, and none lies ahead of the row.
OperationsSought ==
  \A g \in Generations :
    operations[g].status # "none" => Sought(machine, g, Target(operations[g].action))

HandlersSought ==
  \A w \in Workers : ~At(w, "idle") => Sought(machine, handlers[w].gen, Target(handlers[w].action))

\* The actions that reach the calls whose statements write a status.
Serving ==
  [spawning |-> {"spawn", "start"}, create |-> {"spawn", "start"},
   launch |-> {"spawn", "start"}, bind |-> {"spawn", "start"}, running |-> {"spawn", "start"},
   start |-> {"start"}, started |-> {"start"}, pause |-> {"pause"}, paused |-> {"pause"},
   stopping |-> {"stop"}, stop |-> {"stop"}, stopped |-> {"stop"},
   tearing_down |-> {"teardown"}, teardown |-> {"teardown"}, destroyed |-> {"teardown"}]

HandlersOnTrack ==
  \A w \in Workers :
    handlers[w].pc \in DOMAIN Serving => handlers[w].action \in Serving[handlers[w].pc]

\* What the reconcile pass wants at each of its calls.
Wanting ==
  [idle_pause |-> "running", inspect |-> "running", create |-> "running",
   launch |-> "running", bind |-> "running", record |-> "running",
   record_ready |-> "running", sample |-> "running",
   stop |-> "stopped", stop_record |-> "stopped",
   pause_revoke |-> "paused", pause |-> "paused", pause_record |-> "paused",
   destroy_revoke |-> "destroyed", destroy_teardown |-> "destroyed",
   destroy_record |-> "destroyed"]

PassesSought ==
  \A m \in Managers :
    View(m).pc \in DOMAIN Wanting => Sought(machine, View(m).gen, Wanting[View(m).pc])

\* A validated request that would still be accepted is not for a machine whose
\* destruction was asked for in the meantime.
RequestsSought ==
  \A c \in Clients :
    /\ requests[c].gen <= machine.generation + 1
    /\ requests[c].gen = machine.generation + 1 /\ machine.desired = "destroyed"
         => requests[c].action = "teardown"

\* Access is gone before a pause is made, and cannot come back until its record.
PauseUnreachable ==
  /\ machine.present /\ machine.status = "paused" => ~access
  /\ \A w \in Workers :
       handlers[w].pc \in {"pause", "paused"} /\ handlers[w].gen = machine.generation => ~access
  /\ \A m \in Managers :
       View(m).pc \in {"pause", "pause_record"} /\ View(m).gen = machine.generation => ~access

IInv ==
  /\ TypeOK
  /\ OperationsSought
  /\ HandlersSought
  /\ HandlersOnTrack
  /\ PassesSought
  /\ RequestsSought
  /\ PauseUnreachable

-----------------------------------------------------------------------------
(* What a step does to the row, the queue and the access: every action of the *)
(* system is one of these.                                                    *)

Quiet == UNCHANGED <<machine, operations, access>>

\* The queue hands out or settles operations.
Works ==
  /\ UNCHANGED <<machine, access>>
  /\ \A g \in Generations :
       /\ operations'[g].action = operations[g].action
       /\ operations'[g].status # "none" => operations[g].status # "none"

Writes ==
  /\ machine.present
  /\ UNCHANGED <<operations, access>>
  /\ \E status \in Statuses \ {"queued"} :
       /\ SetStatus(status) \/ SetStatusNamed(status)
       /\ status \in DOMAIN Contract!Serves => Contract!Serves[status] = machine.desired
       /\ status = "paused" => ~access

Asks ==
  /\ machine.present /\ machine.generation < MaxGeneration
  /\ UNCHANGED access
  /\ \E action \in Actions, deleting \in BOOLEAN :
       /\ machine.desired = "destroyed" => action = "teardown"
       /\ Enqueue(action, deleting)

Marks ==
  /\ machine' = [machine EXCEPT !.deleteRequested = TRUE]
  /\ UNCHANGED <<operations, access>>

Purges == machine.present /\ SafelyPurgeable /\ ~AnyActive /\ Purge

Revokes == access' = FALSE /\ UNCHANGED <<machine, operations>>

Grants == Usable /\ access' = TRUE /\ UNCHANGED <<machine, operations>>

Statement == Quiet \/ Works \/ Writes \/ Asks \/ Marks \/ Purges \/ Revokes \/ Grants

LEMMA RequestDeleteStatement ==
  ASSUME TypeOK, OperationsSought, machine.present, RequestPermanentDelete, UNCHANGED access
  PROVE  Marks \/ Asks
<1>1. CASE ActiveTeardown
  <2>1. PICK g \in Generations : Active(g) /\ operations[g].action = "teardown"
    BY <1>1 DEF ActiveTeardown
  <2>2. machine.desired = "destroyed"
    BY <2>1 DEF OperationsSought, Sought, Active, Target
  <2>3. machine' = [machine EXCEPT !.deleteRequested = TRUE]
    BY <1>1, <2>2 DEF RequestPermanentDelete, TypeOK, MachineRows
  <2> QED
    BY <1>1, <2>3 DEF RequestPermanentDelete, Marks
<1>2. CASE ~ActiveTeardown
  <2>1. CASE (SafelyPurgeable /\ ~AnyActive) \/ machine.generation >= MaxGeneration
    BY <1>2, <2>1 DEF RequestPermanentDelete, Marks
  <2>2. CASE ~((SafelyPurgeable /\ ~AnyActive) \/ machine.generation >= MaxGeneration)
    <3>1. machine.generation < MaxGeneration
      BY <2>2, BoundsAssumption DEF TypeOK, MachineRows, Generations
    <3>2. Enqueue("teardown", TRUE)
      BY <1>2, <2>2 DEF RequestPermanentDelete
    <3> QED
      BY <3>1, <3>2 DEF Asks, Actions
  <2> QED
    BY <2>1, <2>2
<1> QED
  BY <1>1, <1>2

LEMMA ResultStatement ==
  ASSUME TypeOK, NEW g \in Generations \cup {0}, UNCHANGED <<machine, access>>,
         \/ Complete(g) /\ operations[g].status # "none"
         \/ Fail(g) /\ operations[g].status # "none"
         \/ \E live \in BOOLEAN : operations' = [operations EXCEPT ![g].live = live]
         \/ \E m \in Managers : LeaseTo(g, m) /\ operations[g].status # "none"
  PROVE  Works
<1> SUFFICES ASSUME NEW h \in Generations
             PROVE  /\ operations'[h].action = operations[h].action
                    /\ operations'[h].status # "none" => operations[h].status # "none"
  BY DEF Works
<1>1. operations \in [Generations -> OperationRows]
  BY DEF TypeOK
<1>2. CASE Complete(g) /\ operations[g].status # "none"
  BY <1>1, <1>2 DEF Complete, OperationRows
<1>3. CASE Fail(g) /\ operations[g].status # "none"
  BY <1>1, <1>3 DEF Fail, OperationRows
<1>4. ASSUME NEW live \in BOOLEAN, operations' = [operations EXCEPT ![g].live = live]
      PROVE  /\ operations'[h].action = operations[h].action
             /\ operations'[h].status = operations[h].status
  BY <1>1, <1>4 DEF OperationRows
<1>5. ASSUME NEW m \in Managers, LeaseTo(g, m), operations[g].status # "none"
      PROVE  /\ operations'[h].action = operations[h].action
             /\ operations'[h].status # "none" => operations[h].status # "none"
  <2> DEFINE row == [operations[g] EXCEPT !.status = "leased", !.owner = m, !.live = TRUE,
                                          !.attempts = operations[g].attempts + 1]
  <2>1. CASE h = g
    <3>1. row.action = operations[g].action
      BY <1>1, <2>1 DEF OperationRows
    <3>2. operations' = [operations EXCEPT ![g] = row]
      BY <1>5 DEF LeaseTo
    <3> HIDE DEF row
    <3> QED
      BY <1>1, <1>5, <2>1, <3>1, <3>2
  <2>2. CASE h # g
    BY <1>1, <1>5, <2>2 DEF LeaseTo
  <2> QED
    BY <2>1, <2>2
<1> QED
  BY <1>2, <1>3, <1>4, <1>5

\* What a handler inside a call may write, from its generation and its action.
LEMMA HandlerBelieves ==
  ASSUME IInv, NEW w \in Workers, ~At(w, "idle")
  PROVE  /\ handlers[w] \in HandlerStates
         /\ Sought(machine, handlers[w].gen, Target(handlers[w].action))
         /\ handlers[w].pc \in DOMAIN Serving => handlers[w].action \in Serving[handlers[w].pc]
BY DEF IInv, TypeOK, HandlersSought, HandlersOnTrack

LEMMA HandlerStatement ==
  ASSUME IInv, NEW w \in Workers, HandlerStep(w)
  PROVE  Statement
<1> USE DEF IInv, OtherRows, OtherActors, database
<1>1. CASE Begin(w) \/ CreateResources(w) \/ Launch(w) \/ LaunchFails(w) \/ Bind(w)
           \/ Compensate(w)
  BY <1>1 DEF Begin, CreateResources, Launch, LaunchFails, Bind, Compensate, Statement, Quiet
<1>2. CASE StartContainers(w) \/ PauseContainers(w) \/ StopContainers(w)
           \/ TeardownContainers(w) \/ CreateEvent(w)
  BY <1>2 DEF StartContainers, PauseContainers, StopContainers, TeardownContainers,
     CreateEvent, Statement, Quiet
<1>3. CASE CallFails(w) \/ FinalStatementFails(w) \/ LeaseLost(w)
  BY <1>3 DEF CallFails, FinalStatementFails, LeaseLost, Statement, Quiet
<1>4. CASE Announce(w)
  <2>1. Sought(machine, handlers[w].gen, Target(handlers[w].action))
        /\ handlers[w].action \in Serving[handlers[w].pc]
    BY <1>4, HandlerBelieves DEF Announce, Announcement, At, Serving
  <2>2. CASE UNCHANGED machine
    BY <1>4, <2>2 DEF Announce, Statement, Quiet
  <2>3. CASE /\ Matches(handlers[w].gen, handlers[w].pc = "tearing_down")
             /\ SetStatus(handlers[w].pc)
    BY <1>4, <2>1, <2>3 DEF Announce, Announcement, Serving, Sought, Target, Matches,
       Statement, Writes, Statuses, Contract!Serves
  <2> QED
    BY <1>4, <2>2, <2>3 DEF Announce
<1>5. CASE RecordRunning(w)
  <2>1. Sought(machine, handlers[w].gen, "running")
    BY <1>5, HandlerBelieves DEF RecordRunning, At, Serving, Target
  <2>2. CASE Current(w) /\ SetStatusNamed("running")
    BY <1>5, <2>1, <2>2 DEF RecordRunning, Current, Sought, Matches,
       Statement, Writes, Statuses, Contract!Serves
  <2> QED
    BY <1>5, <2>2 DEF RecordRunning, Statement, Quiet
<1>6. CASE Revoke(w)
  BY <1>6 DEF Revoke, Statement, Quiet, Revokes
<1>7. CASE RecordResult(w)
  <2>1. Sought(machine, handlers[w].gen, Target(handlers[w].action))
        /\ handlers[w].action \in Serving[handlers[w].pc]
    BY <1>7, HandlerBelieves DEF RecordResult, ResultOf, At, Serving
  <2>2. CASE UNCHANGED machine
    BY <1>7, <2>2 DEF RecordResult, Statement, Quiet
  <2>3. CASE /\ Matches(handlers[w].gen, handlers[w].pc = "destroyed")
             /\ SetStatus(ResultOf[handlers[w].pc])
    <3>1. machine.desired = ResultOf[handlers[w].pc]
      BY <1>7, <2>1, <2>3 DEF RecordResult, ResultOf, Serving, Sought, Target, Matches
    <3>2. handlers[w].pc = "paused" => ~access
      BY <1>7, <2>3 DEF PauseUnreachable, Matches
    <3> QED
      BY <1>7, <2>3, <3>1, <3>2 DEF RecordResult, ResultOf, Matches, Statement, Writes,
         Statuses, Contract!Serves
  <2> QED
    BY <1>7, <2>2, <2>3 DEF RecordResult
<1>8. CASE CompleteOperation(w)
  <2>1. handlers[w].gen \in Generations \cup {0}
    BY DEF TypeOK, HandlerStates
  <2> QED
    BY <1>8, <2>1, ResultStatement DEF CompleteOperation, Holds, HeldBy, Statement, Quiet
<1>9. CASE PurgeAfterTeardown(w)
  BY <1>9 DEF PurgeAfterTeardown, Statement, Quiet, Purges
<1>10. CASE FailOperation(w)
  <2>1. handlers[w].gen \in Generations \cup {0}
    BY DEF TypeOK, HandlerStates
  <2> QED
    BY <1>10, <2>1, ResultStatement DEF FailOperation, Holds, HeldBy, Statement, Quiet
<1>11. CASE MarkFailed(w)
  BY <1>11 DEF MarkFailed, Current, Matches, Statement, Quiet, Writes, Statuses,
     Contract!Serves
<1> QED
  BY <1>1, <1>2, <1>3, <1>4, <1>5, <1>6, <1>7, <1>8, <1>9, <1>10, <1>11 DEF HandlerStep

\* What a pass inside a repair may write.
LEMMA PassBelieves ==
  ASSUME IInv, NEW m \in Managers, View(m).pc \in DOMAIN Wanting
  PROVE  View(m) \in PassStates /\ Sought(machine, View(m).gen, Wanting[View(m).pc])
BY DEF IInv, TypeOK, PassesSought, View

LEMMA EnqueueAfterStatement ==
  ASSUME IInv, NEW m \in Managers, NEW action \in Actions, EnqueueAfter(m, action),
         action # "teardown" => Sought(machine, View(m).gen, "running"), UNCHANGED access
  PROVE  Quiet \/ Asks
<1>1. CASE CanEnqueue(action, View(m).gen + 1) /\ Enqueue(action, FALSE)
  <2>1. machine.generation \in Nat /\ View(m).gen \in Nat
    BY BoundsAssumption DEF IInv, TypeOK, MachineRows, Generations, View, PassStates
  <2>2. machine.desired = "destroyed" => action = "teardown"
    BY <1>1, <2>1 DEF CanEnqueue, Sought
  <2> QED
    BY <1>1, <2>2 DEF CanEnqueue, Asks
<1> QED
  BY <1>1 DEF EnqueueAfter, Quiet

LEMMA PassStatement ==
  ASSUME IInv, NEW m \in Managers, ReconcilerStep(m)
  PROVE  Statement
<1> USE DEF IInv, OtherRows, NotMine, database
<1>1. CASE Tick(m) \/ ListIdle(m) \/ ListExpired(m) \/ ListRuntime(m) \/ Inspect(m)
           \/ RepairCreate(m) \/ RepairLaunch(m) \/ RepairLaunchFails(m) \/ RepairBind(m)
  BY <1>1 DEF Tick, ListIdle, ListExpired, ListRuntime, Inspect, RepairCreate, RepairLaunch,
     RepairLaunchFails, RepairBind, Statement, Quiet
<1>2. CASE DestroyTeardown(m) \/ RepairStop(m) \/ RepairPause(m) \/ PassFails(m)
  BY <1>2 DEF DestroyTeardown, RepairStop, RepairPause, PassFails, Statement, Quiet
<1>3. CASE Deletes(m)
  BY <1>3, RequestDeleteStatement DEF Deletes, Statement, Quiet, Purges
<1>4. CASE IdlePause(m)
  <2>1. Sought(machine, View(m).gen, "running")
    BY <1>4, PassBelieves DEF IdlePause, In, View, Wanting
  <2> QED
    BY <1>4, <2>1, EnqueueAfterStatement DEF IdlePause, Statement, Actions
<1>5. CASE Expire(m)
  BY <1>5 DEF Expire, Statement, Quiet, Writes, Statuses, Contract!Serves
<1>6. CASE ExpireTeardown(m)
  BY <1>6, EnqueueAfterStatement DEF ExpireTeardown, Statement, Actions
<1>7. CASE DestroyRevoke(m) \/ PauseRevoke(m)
  BY <1>7 DEF DestroyRevoke, PauseRevoke, Statement, Quiet, Revokes
<1>8. CASE RecordRepair(m)
  <2>1. Sought(machine, View(m).gen, RepairResult[View(m).pc])
    BY <1>8, PassBelieves DEF RecordRepair, RepairResult, Wanting
  <2>2. CASE /\ Matches(View(m).gen, View(m).pc = "destroy_record")
             /\ SetStatus(RepairResult[View(m).pc])
    <3>1. machine.desired = RepairResult[View(m).pc]
      BY <1>8, <2>1, <2>2 DEF RecordRepair, RepairResult, Sought, Matches
    <3>2. View(m).pc = "pause_record" => ~access
      BY <1>8, <2>2 DEF PauseUnreachable, Matches
    <3> QED
      BY <1>8, <2>2, <3>1, <3>2 DEF RecordRepair, RepairResult, Matches, Statement, Writes,
         Statuses, Contract!Serves
  <2> QED
    BY <1>8, <2>2 DEF RecordRepair, Statement, Quiet
<1>9. CASE RecordRecovered(m)
  <2>1. Sought(machine, View(m).gen, "running")
    BY <1>9, PassBelieves DEF RecordRecovered, Wanting
  <2>2. CASE Unchanged(m) /\ SetStatusNamed("running")
    BY <1>9, <2>1, <2>2 DEF RecordRecovered, Unchanged, Sought, Matches,
       Statement, Writes, Statuses, Contract!Serves
  <2> QED
    BY <1>9, <2>2 DEF RecordRecovered, Statement, Quiet
<1>10. CASE Sample(m)
  <2>1. Sought(machine, View(m).gen, "running")
    BY <1>10, PassBelieves DEF Sample, In, View, Wanting
  <2> QED
    BY <1>10, <2>1, EnqueueAfterStatement DEF Sample, Statement, Quiet, Actions
<1> QED
  BY <1>1, <1>2, <1>3, <1>4, <1>5, <1>6, <1>7, <1>8, <1>9, <1>10 DEF ReconcilerStep

LEMMA NextStatement == IInv /\ [Next]_vars => Statement
<1> SUFFICES ASSUME IInv, [Next]_vars PROVE Statement
  OBVIOUS
<1>1. ASSUME NEW w \in Workers, NEW g \in Generations, Lease(w, g) PROVE Statement
  <2>1. Owner(w) \in Managers
    BY DEF Workers, Owner
  <2>2. operations[g].status # "none"
    BY <1>1 DEF Lease, LeaseCandidate, Leasable, Active
  <2> QED
    BY <1>1, <2>1, <2>2, ResultStatement DEF IInv, Lease, Statement
<1>2. ASSUME NEW g \in Generations, LeaseExpires(g) \/ Stall(g) PROVE Statement
  <2>1. UNCHANGED <<machine, access>>
    BY <1>2 DEF LeaseExpires, Stall
  <2>2. operations' = [operations EXCEPT ![g].live = FALSE]
    BY <1>2 DEF LeaseExpires, Stall
  <2> QED
    BY <2>1, <2>2, ResultStatement DEF IInv, Statement
<1>3. ASSUME NEW w \in Workers, Renew(w) PROVE Statement
  <2>1. handlers[w].gen \in Generations \cup {0}
    BY DEF IInv, TypeOK, HandlerStates
  <2>2. UNCHANGED <<machine, access>>
    BY <1>3 DEF Renew
  <2>3. operations' = [operations EXCEPT ![handlers[w].gen].live = TRUE]
    BY <1>3 DEF Renew
  <2> QED
    BY <2>1, <2>2, <2>3, ResultStatement DEF IInv, Statement
<1>4. CASE \E w \in Workers : HandlerStep(w)
  BY <1>4, HandlerStatement
<1>5. CASE \E m \in Managers : ReconcilerStep(m)
  BY <1>5, PassStatement
<1>6. ASSUME NEW m \in Managers, Crash(m) PROVE Statement
  BY <1>6 DEF Crash, database, Statement, Quiet
<1>7. CASE \E c \in Clients : \/ Refuse(c)
                              \/ \E action \in Actions \ {"spawn"} : Validate(c, action)
  BY <1>7 DEF Validate, Refuse, database, Statement, Quiet
<1>8. ASSUME NEW c \in Clients, Commit(c) PROVE Statement
  <2>1. requests[c].action \in Actions /\ requests[c].gen \in Nat
    BY <1>8 DEF IInv, Commit, TypeOK, RequestStates
  <2>2. machine.generation \in Nat
    BY BoundsAssumption DEF IInv, TypeOK, MachineRows, Generations
  <2>3. requests[c].gen = machine.generation + 1
    BY <1>8, <2>1, <2>2 DEF IInv, Commit, CanEnqueue, RequestsSought
  <2>4. machine.desired = "destroyed" => requests[c].action = "teardown"
    BY <2>3 DEF IInv, RequestsSought
  <2> QED
    BY <1>8, <2>1, <2>4 DEF Commit, CanEnqueue, Asks, Statement
<1>9. CASE Delete
  BY <1>9, RequestDeleteStatement DEF IInv, Delete, Statement
<1>10. CASE BulkPurge
  BY <1>10 DEF BulkPurge, Purges, Statement
<1>11. CASE StartRun \/ EndRun \/ LifetimeEnds \/ ContainersFail
  BY <1>11 DEF StartRun, EndRun, LifetimeEnds, ContainersFail, database, Statement, Quiet
<1>12. CASE GrantAccess
  BY <1>12 DEF GrantAccess, OtherRows, Grants, Statement
<1>13. CASE UNCHANGED vars
  BY <1>13 DEF vars, database, Statement, Quiet
<1> QED
  BY <1>1, <1>2, <1>3, <1>4, <1>5, <1>6, <1>7, <1>8, <1>9, <1>10, <1>11, <1>12, <1>13 DEF Next

-----------------------------------------------------------------------------
(* What the statements keep *)

\* The generation only grows, the desired status changes only with it, and
\* destroyed is the last one.
Moves ==
  /\ machine'.generation >= machine.generation
  /\ machine'.generation = machine.generation => machine'.desired = machine.desired
  /\ machine.desired = "destroyed" => machine'.desired = "destroyed"

LEMMA StatementMoves == IInv /\ Statement => Moves
<1> SUFFICES ASSUME IInv, Statement PROVE Moves
  OBVIOUS
<1>1. machine.generation \in Nat /\ machine \in MachineRows
  BY BoundsAssumption DEF IInv, TypeOK, MachineRows, Generations
<1>2. CASE Quiet \/ Works \/ Revokes \/ Grants
  BY <1>1, <1>2 DEF Quiet, Works, Revokes, Grants, Moves
<1>3. CASE Writes
  <2>1. /\ machine'.generation = machine.generation
        /\ machine'.desired = machine.desired
    BY <1>1, <1>3 DEF Writes, SetStatus, SetStatusNamed, MachineRows
  <2> QED
    BY <1>1, <2>1 DEF Moves
<1>5. CASE Marks \/ Purges
  BY <1>1, <1>5 DEF Marks, Purges, Purge, MachineRows, Moves
<1>4. CASE Asks
  BY <1>1, <1>4 DEF Asks, Enqueue, Target, MachineRows, Moves
<1> QED
  BY <1>2, <1>3, <1>4, <1>5 DEF Statement

LEMMA SoughtStays ==
  ASSUME IInv, TypeOK', Moves, NEW g, NEW d \in Desired, Sought(machine, g, d)
  PROVE  Sought(machine', g, d)
<1>1. machine.generation \in Nat /\ machine'.generation \in Nat
  BY BoundsAssumption DEF IInv, TypeOK, MachineRows, Generations
<1> QED
  BY <1>1 DEF Sought, Moves

LEMMA TargetDesired == \A action \in Actions : Target(action) \in Desired
BY DEF Target, Actions, Desired

LEMMA OperationsStep ==
  ASSUME IInv, TypeOK', Statement, NEW g \in Generations, operations'[g].status # "none"
  PROVE  Sought(machine', g, Target(operations'[g].action))
<1>1. machine.generation \in Nat /\ machine'.generation \in Nat
  BY BoundsAssumption DEF IInv, TypeOK, MachineRows, Generations
<1>2. operations[g].action \in Actions /\ operations'[g].action \in Actions
  BY DEF IInv, TypeOK, OperationRows
<1>3. CASE operations[g].status # "none" /\ operations'[g].action = operations[g].action
  BY <1>2, <1>3, StatementMoves, SoughtStays, TargetDesired DEF IInv, OperationsSought
<1>4. CASE Quiet \/ Works \/ Writes \/ Marks \/ Revokes \/ Grants
  BY <1>3, <1>4 DEF Quiet, Works, Writes, Marks, Revokes, Grants
<1>5. CASE Purges
  BY <1>5 DEF Purges, Purge, NoOperation
<1>6. CASE Asks
  <2>1. PICK action \in Actions : /\ machine.desired = "destroyed" => action = "teardown"
                                  /\ \E deleting \in BOOLEAN : Enqueue(action, deleting)
    BY <1>6 DEF Asks
  <2>2. CASE g = machine.generation + 1
    <3>1. operations'[g].action = action
      BY <2>1, <2>2 DEF Enqueue, Pending, NoOperation, IInv, TypeOK
    <3>2. machine'.generation = g /\ machine'.desired = Target(action)
      BY <2>1, <2>2 DEF Enqueue, IInv, TypeOK, MachineRows
    <3> QED
      BY <1>1, <3>1, <3>2 DEF Sought, Generations
  <2>3. CASE g # machine.generation + 1
    <3>1. operations'[g] = operations[g]
      BY <2>1, <2>3 DEF Enqueue, IInv, TypeOK
    <3> QED
      BY <1>3, <3>1
  <2> QED
    BY <2>2, <2>3
<1> QED
  BY <1>4, <1>5, <1>6 DEF Statement

-----------------------------------------------------------------------------
(* How the processes move *)

\* A handler ends, goes on with the same operation, or has just leased one.
Follows(v) ==
  \/ handlers'[v].pc = "idle"
  \/ /\ handlers[v].pc # "idle"
     /\ handlers'[v].gen = handlers[v].gen /\ handlers'[v].action = handlers[v].action
     /\ handlers'[v].pc \in DOMAIN Serving => handlers[v].action \in Serving[handlers'[v].pc]
     /\ handlers'[v].pc \in {"pause", "paused"} =>
          access' = FALSE \/ handlers[v].pc \in {"pause", "paused"}
  \/ /\ handlers'[v].pc = "begin"
     /\ handlers'[v].gen \in Generations /\ Active(handlers'[v].gen)
     /\ handlers'[v].action = operations[handlers'[v].gen].action
     /\ UNCHANGED machine

LEMMA StaysFollows ==
  ASSUME IInv, NEW v \in Workers, handlers'[v].pc = handlers[v].pc,
         handlers'[v].gen = handlers[v].gen, handlers'[v].action = handlers[v].action
  PROVE  Follows(v)
BY HandlerBelieves DEF Follows, At

LEMMA UnchangedFollows ==
  ASSUME IInv, handlers' = handlers \/ handlers' = Known(handlers)
  PROVE  \A v \in Workers : Follows(v)
<1> SUFFICES ASSUME NEW v \in Workers PROVE Follows(v)
  OBVIOUS
<1>1. /\ handlers'[v].pc = handlers[v].pc /\ handlers'[v].gen = handlers[v].gen
      /\ handlers'[v].action = handlers[v].action
  BY DEF IInv, TypeOK, Known, HandlerStates
<1> QED
  BY <1>1, StaysFollows

\* Handler w goes to pc, where its action belongs.
LEMMA GotoFollows ==
  ASSUME IInv, NEW w \in Workers, ~At(w, "idle"), NEW pc, Goto(w, pc) \/ GotoKnown(w, pc),
         pc \in DOMAIN Serving => handlers[w].action \in Serving[pc],
         pc \in {"pause", "paused"} => access' = FALSE \/ handlers[w].pc \in {"pause", "paused"}
  PROVE  \A v \in Workers : Follows(v)
<1> SUFFICES ASSUME NEW v \in Workers PROVE Follows(v)
  OBVIOUS
<1>1. handlers \in [Workers -> HandlerStates] /\ Known(handlers) \in [Workers -> HandlerStates]
  BY KnownTyped DEF IInv, TypeOK
<1>2. /\ Known(handlers)[v].pc = handlers[v].pc /\ Known(handlers)[v].gen = handlers[v].gen
      /\ Known(handlers)[v].action = handlers[v].action
  BY DEF IInv, TypeOK, Known, HandlerStates
<1>3. handlers'[v].gen = handlers[v].gen /\ handlers'[v].action = handlers[v].action
  BY <1>1, <1>2 DEF Goto, GotoKnown, HandlerStates
<1>4. CASE v = w
  <2>1. handlers'[v].pc = pc
    BY <1>1, <1>4 DEF Goto, GotoKnown, HandlerStates
  <2> QED
    BY <1>3, <1>4, <2>1 DEF Follows, At
<1>5. CASE v # w
  <2>1. handlers'[v].pc = handlers[v].pc
    BY <1>1, <1>2, <1>5 DEF Goto, GotoKnown
  <2> QED
    BY <1>3, <2>1, StaysFollows
<1> QED
  BY <1>4, <1>5

LEMMA DoneFollows ==
  ASSUME IInv, NEW w \in Workers, Done(w)
  PROVE  \A v \in Workers : Follows(v)
<1> SUFFICES ASSUME NEW v \in Workers PROVE Follows(v)
  OBVIOUS
<1>1. CASE v = w
  BY <1>1 DEF Done, Idle, Follows, IInv, TypeOK
<1>2. CASE v # w
  BY <1>2, StaysFollows DEF Done, IInv, TypeOK
<1> QED
  BY <1>1, <1>2

LEMMA BeginFollows ==
  ASSUME IInv, NEW w \in Workers, Begin(w)
  PROVE  \A v \in Workers : Follows(v)
<1> DEFINE next == IF ~machine.present THEN "fail"
                   ELSE IF handlers[w].gen < machine.generation
                           /\ handlers[w].action # "teardown"
                        THEN "complete"
                   ELSE FirstCall(handlers[w].action)
<1>1. handlers[w].action \in Actions /\ handlers \in [Workers -> HandlerStates]
  BY DEF IInv, TypeOK, HandlerStates
<1>2. next \in DOMAIN Serving => handlers[w].action \in Serving[next]
  BY <1>1 DEF FirstCall, Actions, Serving
<1>3. next \notin {"pause", "paused"}
  BY <1>1 DEF FirstCall, Actions
<1>4. handlers' = [handlers EXCEPT ![w] =
                     [@ EXCEPT !.pc = next, !.named = machine.named, !.ids = bound]]
  BY DEF Begin
<1> HIDE DEF next
<1>5. /\ handlers'[w].pc = next /\ handlers'[w].gen = handlers[w].gen
      /\ handlers'[w].action = handlers[w].action
  BY <1>1, <1>4 DEF HandlerStates
<1>6. \A v \in Workers : v # w => handlers'[v] = handlers[v]
  BY <1>1, <1>4
<1>7. Follows(w)
  BY <1>2, <1>3, <1>5 DEF Follows, Begin, At
<1> QED
  BY <1>6, <1>7, StaysFollows

LEMMA HandlerFollows ==
  ASSUME IInv, NEW w \in Workers, HandlerStep(w)
  PROVE  \A v \in Workers : Follows(v)
<1>1. CASE Begin(w)
  BY <1>1, BeginFollows
<1>2. CASE Announce(w)
  <2>1. handlers[w].pc \in {"spawning", "stopping", "tearing_down"}
    BY <1>2 DEF Announce, Announcement
  <2>2. handlers[w].action \in Serving[handlers[w].pc]
    BY <2>1, HandlerBelieves DEF At, Serving
  <2>3. \/ Goto(w, "complete")
        \/ Goto(w, "create") /\ handlers[w].pc = "spawning"
        \/ Goto(w, "stop") /\ handlers[w].pc = "stopping"
        \/ Goto(w, "revoke")
    BY <1>2, <2>1 DEF Announce, Announcement
  <2>4. /\ handlers[w].pc = "spawning" => handlers[w].action \in {"spawn", "start"}
        /\ handlers[w].pc = "stopping" => handlers[w].action \in {"stop"}
    BY <2>2 DEF Serving
  <2>5. ~At(w, "idle")
    BY <2>1 DEF At
  <2>6. CASE Goto(w, "complete") \/ Goto(w, "revoke")
    BY <2>5, <2>6, GotoFollows DEF Serving
  <2>7. CASE Goto(w, "create") /\ handlers[w].pc = "spawning"
    BY <2>4, <2>5, <2>7, GotoFollows DEF Serving
  <2>8. CASE Goto(w, "stop") /\ handlers[w].pc = "stopping"
    BY <2>4, <2>5, <2>8, GotoFollows DEF Serving
  <2> QED
    BY <2>3, <2>6, <2>7, <2>8
<1>3. CASE CreateResources(w) \/ Launch(w)
  <2>1. handlers[w].pc \in {"create", "launch"}
    BY <1>3 DEF CreateResources, Launch, At
  <2>2. handlers[w].action \in {"spawn", "start"}
    BY <2>1, HandlerBelieves DEF At, Serving
  <2>3. handlers \in [Workers -> HandlerStates]
    BY DEF IInv, TypeOK
  <2>4. /\ handlers'[w].gen = handlers[w].gen /\ handlers'[w].action = handlers[w].action
        /\ handlers'[w].pc \in {"launch", "bind"}
    <3>1. CASE CreateResources(w)
      <4> DEFINE b == (runtime = "absent")
      <4>1. handlers' = [handlers EXCEPT ![w] = [@ EXCEPT !.pc = "launch", !.made = b]]
        BY <3>1 DEF CreateResources
      <4> HIDE DEF b
      <4> QED
        BY <2>3, <4>1 DEF HandlerStates
    <3>2. CASE Launch(w)
      BY <2>3, <3>2 DEF Launch, HandlerStates
    <3> QED
      BY <1>3, <3>1, <3>2
  <2>5. \A v \in Workers : v # w => handlers'[v] = handlers[v]
    BY <1>3, <2>3 DEF CreateResources, Launch
  <2>6. Follows(w)
    BY <2>1, <2>2, <2>4 DEF Follows, Serving
  <2> QED
    BY <2>5, <2>6, StaysFollows
<1>4. CASE Bind(w) \/ RecordRunning(w) \/ Compensate(w) \/ LaunchFails(w)
  <2>1. handlers[w].pc \in {"bind", "running", "compensate", "launch"}
    BY <1>4 DEF Bind, RecordRunning, Compensate, LaunchFails, At
  <2>2. handlers[w].pc = "bind" => handlers[w].action \in {"spawn", "start"}
    BY HandlerBelieves DEF At, Serving
  <2>3. \/ Goto(w, "running") /\ handlers[w].pc = "bind"
        \/ \E pc \in {"event", "compensate", "complete", "fail"} : Goto(w, pc) \/ GotoKnown(w, pc)
    BY <1>4 DEF Bind, RecordRunning, Compensate, LaunchFails, At
  <2> QED
    BY <2>1, <2>2, <2>3, GotoFollows DEF At, Serving
<1>5. CASE Revoke(w)
  <2>1. handlers[w].action \in Actions
    BY DEF IInv, TypeOK, HandlerStates
  <2> DEFINE pc == IF At(w, "revoke_only") THEN "complete" ELSE AfterRevoke(handlers[w].action)
  <2>2. ~At(w, "idle") /\ Goto(w, pc)
    BY <1>5 DEF Revoke, At
  <2>3. pc \in DOMAIN Serving => handlers[w].action \in Serving[pc]
    BY <2>1 DEF AfterRevoke, Actions, Serving
  <2>4. pc \in {"pause", "paused"} => handlers[w].action = "pause"
    BY <2>1 DEF AfterRevoke, Actions
  <2>5. handlers[w].action = "pause" => access' = FALSE
    BY <1>5 DEF Revoke
  <2> HIDE DEF pc
  <2> QED
    BY <2>2, <2>3, <2>4, <2>5, GotoFollows
<1>6. CASE StartContainers(w) \/ PauseContainers(w) \/ StopContainers(w) \/ TeardownContainers(w)
  <2>1. handlers[w].pc \in {"start", "pause", "stop", "teardown"}
    BY <1>6 DEF StartContainers, PauseContainers, StopContainers, TeardownContainers, At
  <2>2. handlers[w].action \in Serving[handlers[w].pc]
    BY <2>1, HandlerBelieves DEF At, Serving
  <2>3. \/ Goto(w, "started") /\ handlers[w].pc = "start"
        \/ Goto(w, "fail")
        \/ Goto(w, "paused") /\ handlers[w].pc = "pause"
        \/ Goto(w, "revoke")
        \/ GotoKnown(w, "destroyed") /\ handlers[w].pc = "teardown"
    BY <1>6 DEF StartContainers, PauseContainers, StopContainers, TeardownContainers, At
  <2>4. /\ handlers[w].pc = "start" => handlers[w].action \in {"start"}
        /\ handlers[w].pc = "pause" => handlers[w].action \in {"pause"}
        /\ handlers[w].pc = "teardown" => handlers[w].action \in {"teardown"}
    BY <2>2 DEF Serving
  <2>5. ~At(w, "idle")
    BY <2>1 DEF At
  <2>6. CASE Goto(w, "fail") \/ Goto(w, "revoke")
    BY <2>5, <2>6, GotoFollows DEF Serving
  <2>7. CASE Goto(w, "started") /\ handlers[w].pc = "start"
    BY <2>4, <2>5, <2>7, GotoFollows DEF Serving
  <2>8. CASE Goto(w, "paused") /\ handlers[w].pc = "pause"
    BY <2>4, <2>5, <2>8, GotoFollows DEF Serving
  <2>9. CASE GotoKnown(w, "destroyed") /\ handlers[w].pc = "teardown"
    BY <2>4, <2>5, <2>9, GotoFollows DEF Serving
  <2> QED
    BY <2>3, <2>6, <2>7, <2>8, <2>9
<1>7. CASE RecordResult(w) \/ CreateEvent(w) \/ CallFails(w) \/ LeaseLost(w)
  <2>1. ~At(w, "idle") /\ \E pc \in {"event", "complete", "fail"} : Goto(w, pc)
    BY <1>7 DEF RecordResult, ResultOf, CreateEvent, CallFails, LeaseLost, CallPcs, DockerPcs, At
  <2> QED
    BY <2>1, GotoFollows DEF Serving
<1>8. CASE CompleteOperation(w) \/ FailOperation(w)
  <2>1. ~At(w, "idle") /\ (Done(w) \/ \E pc \in {"purge", "markfailed"} : Goto(w, pc))
    BY <1>8 DEF CompleteOperation, FailOperation, At
  <2> QED
    BY <2>1, GotoFollows, DoneFollows DEF Serving
<1>9. CASE PurgeAfterTeardown(w) \/ MarkFailed(w) \/ FinalStatementFails(w)
  BY <1>9, DoneFollows DEF PurgeAfterTeardown, MarkFailed, FinalStatementFails
<1> QED
  BY <1>1, <1>2, <1>3, <1>4, <1>5, <1>6, <1>7, <1>8, <1>9 DEF HandlerStep

\* A pass leaves the repairs, goes on with the same row, or has just read it.
Continues(n) ==
  \/ reconciler'[n].pc \notin DOMAIN Wanting
  \/ /\ reconciler[n].pc \in DOMAIN Wanting
     /\ reconciler'[n].gen = reconciler[n].gen
     /\ Wanting[reconciler'[n].pc] = Wanting[reconciler[n].pc]
     /\ reconciler'[n].pc \in {"pause", "pause_record"} =>
          access' = FALSE \/ reconciler[n].pc \in {"pause", "pause_record"}
  \/ /\ reconciler'[n].gen = machine.generation
     /\ machine.desired = Wanting[reconciler'[n].pc]
     /\ reconciler'[n].pc \notin {"pause", "pause_record"}
     /\ UNCHANGED machine

LEMMA UnchangedContinues ==
  ASSUME IInv, reconciler' = reconciler \/ reconciler' = Known(reconciler)
  PROVE  \A n \in Managers : Continues(n)
<1> SUFFICES ASSUME NEW n \in Managers PROVE Continues(n)
  OBVIOUS
<1>1. reconciler'[n].pc = reconciler[n].pc /\ reconciler'[n].gen = reconciler[n].gen
  BY DEF IInv, TypeOK, Known, PassStates
<1> QED
  BY <1>1 DEF Continues

\* Going from one call to another, a pass that still wants anything wants the same.
WantsAlike(from, to) ==
  to \in DOMAIN Wanting => from \in DOMAIN Wanting /\ Wanting[to] = Wanting[from]

LEMMA WantsAlikeFacts ==
  /\ \A p : \A q \in Phases \cup {"expire", "expire_teardown", "off"} : WantsAlike(p, q)
  /\ WantsAlike("destroy_revoke", "destroy_teardown")
  /\ WantsAlike("destroy_teardown", "destroy_record")
  /\ WantsAlike("stop", "stop_record")
  /\ WantsAlike("pause_revoke", "pause") /\ WantsAlike("pause", "pause_record")
  /\ \A p \in {"inspect", "create", "launch", "bind", "record", "record_ready"} :
       \A q \in {"create", "launch", "bind", "record", "record_ready", "sample"} :
         WantsAlike(p, q)
BY DEF WantsAlike, Wanting, Phases

\* Pass m goes to pc, where what it wants is the same.
LEMMA MoveContinues ==
  ASSUME IInv, NEW m \in Managers, NEW pc, Move(m, pc) \/ MoveKnown(m, pc), pc # "off",
         WantsAlike(reconciler[m].pc, pc),
         pc \in {"pause", "pause_record"} =>
           access' = FALSE \/ reconciler[m].pc \in {"pause", "pause_record"}
  PROVE  \A n \in Managers : Continues(n)
<1> SUFFICES ASSUME NEW n \in Managers PROVE Continues(n)
  OBVIOUS
<1>1. reconciler \in [Managers -> PassStates] /\ Known(reconciler) \in [Managers -> PassStates]
  BY KnownTyped DEF IInv, TypeOK
<1>2. Known(reconciler)[n].pc = reconciler[n].pc /\ Known(reconciler)[n].gen = reconciler[n].gen
  BY DEF IInv, TypeOK, Known, PassStates
<1>3. reconciler'[n].gen = reconciler[n].gen
  <2>1. CASE Move(m, pc)
    <3>1. CASE n = m
      BY <1>1, <2>1, <3>1 DEF Move, PassStates
    <3>2. CASE n # m
      BY <1>1, <2>1, <3>2 DEF Move
    <3> QED
      BY <3>1, <3>2
  <2>2. CASE MoveKnown(m, pc)
    <3>1. CASE n = m
      BY <1>1, <1>2, <2>2, <3>1 DEF MoveKnown, PassStates
    <3>2. CASE n # m
      BY <1>1, <1>2, <2>2, <3>2 DEF MoveKnown
    <3> QED
      BY <3>1, <3>2
  <2> QED
    BY <2>1, <2>2
<1>4. CASE n = m
  <2>1. reconciler'[n].pc = pc
    BY <1>1, <1>4 DEF Move, MoveKnown, PassStates
  <2> QED
    BY <1>3, <1>4, <2>1 DEF Continues, WantsAlike
<1>5. CASE n # m
  <2>1. reconciler'[n].pc = reconciler[n].pc
    BY <1>1, <1>2, <1>5 DEF Move, MoveKnown
  <2> QED
    BY <1>3, <2>1 DEF Continues
<1> QED
  BY <1>4, <1>5

LEMMA OffContinues ==
  ASSUME IInv, NEW m \in Managers, Move(m, "off") \/ MoveKnown(m, "off")
  PROVE  \A n \in Managers : Continues(n)
<1> SUFFICES ASSUME NEW n \in Managers PROVE Continues(n)
  OBVIOUS
<1>1. reconciler \in [Managers -> PassStates] /\ Known(reconciler) \in [Managers -> PassStates]
  BY KnownTyped DEF IInv, TypeOK
<1>2. Known(reconciler)[n].pc = reconciler[n].pc /\ Known(reconciler)[n].gen = reconciler[n].gen
  BY DEF IInv, TypeOK, Known, PassStates
<1>3. CASE n = m
  BY <1>1, <1>3 DEF Move, MoveKnown, Off, Continues, Wanting
<1>4. CASE n # m
  BY <1>1, <1>2, <1>4 DEF Move, MoveKnown, Continues
<1> QED
  BY <1>3, <1>4

LEMMA ReadContinues ==
  ASSUME IInv, NEW m \in Managers, NEW pc, Read(m, pc), UNCHANGED machine,
         pc \in DOMAIN Wanting => Wanting[pc] = machine.desired,
         pc \notin {"pause", "pause_record"}
  PROVE  \A n \in Managers : Continues(n)
<1> SUFFICES ASSUME NEW n \in Managers PROVE Continues(n)
  OBVIOUS
<1>1. reconciler \in [Managers -> PassStates]
  BY DEF IInv, TypeOK
<1>2. CASE n = m
  <2> DEFINE view == [Off EXCEPT !.pc = pc, !.gen = machine.generation,
                                 !.status = machine.status, !.ids = bound]
  <2>1. view.pc = pc /\ view.gen = machine.generation
    BY DEF Off
  <2>2. reconciler' = [reconciler EXCEPT ![m] = view]
    BY DEF Read
  <2> HIDE DEF view
  <2> QED
    BY <1>1, <1>2, <2>1, <2>2 DEF Continues
<1>3. CASE n # m
  BY <1>1, <1>3 DEF Read, Continues
<1> QED
  BY <1>2, <1>3

LEMMA PassContinues ==
  ASSUME IInv, NEW m \in Managers, ReconcilerStep(m)
  PROVE  \A n \in Managers : Continues(n)
<1> USE DEF In, View
<1>1. CASE Tick(m) \/ Deletes(m) \/ IdlePause(m) \/ ExpireTeardown(m) \/ Expire(m)
  <2>1. \E pc \in {"deletes", "idle", "expired", "pages", "expire_teardown"} : Move(m, pc)
    BY <1>1 DEF Tick, Deletes, IdlePause, ExpireTeardown, Expire
  <2> QED
    BY <2>1, MoveContinues, WantsAlikeFacts DEF Phases
<1>2. CASE ListIdle(m)
  BY <1>2, MoveContinues, WantsAlikeFacts, ReadContinues
     DEF ListIdle, IsIdle, database, Wanting, Phases
<1>3. CASE ListExpired(m)
  BY <1>3, MoveContinues, WantsAlikeFacts, ReadContinues
     DEF ListExpired, database, Wanting, Phases
<1>4. CASE ListRuntime(m)
  <2>1. machine.desired \in Desired
    BY DEF IInv, TypeOK, MachineRows
  <2>2. /\ Repair \in DOMAIN Wanting => Wanting[Repair] = machine.desired
        /\ Repair \notin {"pause", "pause_record"}
    BY <2>1 DEF Repair, Desired, Wanting
  <2> QED
    BY <1>4, <2>2, OffContinues, ReadContinues DEF ListRuntime, database
<1>5. CASE DestroyRevoke(m) \/ DestroyTeardown(m) \/ RepairStop(m)
  <2>1. \/ reconciler[m].pc = "destroy_revoke" /\ Move(m, "destroy_teardown")
        \/ reconciler[m].pc = "destroy_teardown" /\ MoveKnown(m, "destroy_record")
        \/ reconciler[m].pc = "stop" /\ Move(m, "stop_record")
    BY <1>5 DEF DestroyRevoke, DestroyTeardown, RepairStop
  <2> QED
    BY <2>1, MoveContinues, WantsAlikeFacts
<1>6. CASE PauseRevoke(m)
  <2>1. reconciler[m].pc = "pause_revoke" /\ Move(m, "pause") /\ access' = FALSE
    BY <1>6 DEF PauseRevoke
  <2> QED
    BY <2>1, MoveContinues, WantsAlikeFacts
<1>7. CASE RepairPause(m)
  <2>1. reconciler[m].pc = "pause" /\ Move(m, "pause_record")
    BY <1>7 DEF RepairPause
  <2> QED
    BY <2>1, MoveContinues, WantsAlikeFacts
<1>8. CASE RecordRepair(m) \/ RepairLaunchFails(m) \/ Sample(m)
  BY <1>8, OffContinues DEF RecordRepair, RepairLaunchFails, Sample
<1>9. CASE Inspect(m)
  <2>1. reconciler[m].pc = "inspect" /\ \E pc \in {"sample", "record_ready", "create"} : Move(m, pc)
    BY <1>9 DEF Inspect
  <2> QED
    BY <2>1, MoveContinues, WantsAlikeFacts
<1>10. CASE RepairCreate(m) \/ RepairLaunch(m)
  <2>1. reconciler \in [Managers -> PassStates] /\ reconciler[m].pc \in {"create", "launch"}
    BY <1>10 DEF RepairCreate, RepairLaunch, IInv, TypeOK
  <2>2. reconciler'[m].gen = reconciler[m].gen /\ reconciler'[m].pc \in {"launch", "bind"}
    <3>1. CASE RepairCreate(m)
      <4> DEFINE b == (runtime = "absent")
      <4>1. reconciler' = [reconciler EXCEPT ![m] = [@ EXCEPT !.pc = "launch", !.made = b]]
        BY <3>1 DEF RepairCreate
      <4> HIDE DEF b
      <4> QED
        BY <2>1, <4>1 DEF PassStates
    <3>2. CASE RepairLaunch(m)
      BY <2>1, <3>2 DEF RepairLaunch, PassStates
    <3> QED
      BY <1>10, <3>1, <3>2
  <2>3. \A n \in Managers : n # m => reconciler'[n] = reconciler[n]
    BY <1>10, <2>1 DEF RepairCreate, RepairLaunch
  <2> QED
    BY <2>1, <2>2, <2>3 DEF Continues, Wanting
<1>11. CASE RepairBind(m)
  <2>1. reconciler[m].pc = "bind" /\ Move(m, "record")
    BY <1>11 DEF RepairBind
  <2> QED
    BY <2>1, MoveContinues, WantsAlikeFacts
<1>12. CASE RecordRecovered(m)
  <2>1. \/ Move(m, "off")
        \/ Move(m, "sample") /\ reconciler[m].pc = "record_ready"
    BY <1>12 DEF RecordRecovered
  <2> QED
    BY <2>1, OffContinues, MoveContinues, WantsAlikeFacts
<1>13. CASE PassFails(m)
  <2>1. \E pc \in {"idle", "expired", "pages", "off"} : Move(m, pc)
    BY <1>13 DEF PassFails, NextPhase
  <2> QED
    BY <2>1, OffContinues, MoveContinues, WantsAlikeFacts DEF Phases
<1> QED
  BY <1>1, <1>2, <1>3, <1>4, <1>5, <1>6, <1>7, <1>8, <1>9, <1>10, <1>11, <1>12, <1>13
     DEF ReconcilerStep

LEMMA NextFollows == IInv /\ [Next]_vars => \A v \in Workers : Follows(v)
<1> SUFFICES ASSUME IInv, [Next]_vars PROVE \A v \in Workers : Follows(v)
  OBVIOUS
<1>1. ASSUME NEW w \in Workers, NEW g \in Generations, Lease(w, g)
      PROVE  \A v \in Workers : Follows(v)
  <2> DEFINE fresh == [Idle EXCEPT !.pc = "begin", !.gen = g, !.action = operations[g].action]
  <2>1. fresh.pc = "begin" /\ fresh.gen = g /\ fresh.action = operations[g].action
    BY DEF Idle
  <2>2. handlers' = [handlers EXCEPT ![w] = fresh] /\ handlers \in [Workers -> HandlerStates]
    BY <1>1 DEF Lease, IInv, TypeOK
  <2>3. Active(g) /\ UNCHANGED machine
    BY <1>1 DEF Lease, LeaseCandidate, Leasable
  <2> HIDE DEF fresh
  <2>4. Follows(w)
    BY <2>1, <2>2, <2>3 DEF Follows
  <2>5. \A v \in Workers : v # w => handlers'[v] = handlers[v]
    BY <2>2
  <2> QED
    BY <2>4, <2>5, StaysFollows
<1>2. CASE \E w \in Workers : HandlerStep(w)
  BY <1>2, HandlerFollows
<1>3. ASSUME NEW m \in Managers, ReconcilerStep(m) PROVE \A v \in Workers : Follows(v)
  <2>1. handlers' = handlers \/ handlers' = Known(handlers)
    BY <1>3 DEF ReconcilerStep, Tick, Deletes, ListIdle, IdlePause, ListExpired, Expire,
       ExpireTeardown, ListRuntime, DestroyRevoke, DestroyTeardown, RepairStop, PauseRevoke,
       RepairPause, RecordRepair, Inspect, RepairCreate, RepairLaunch, RepairLaunchFails,
       RepairBind, RecordRecovered, Sample, PassFails, NotMine, MoveKnown
  <2> QED
    BY <2>1, UnchangedFollows
<1>4. ASSUME NEW m \in Managers, Crash(m), NEW v \in Workers PROVE Follows(v)
  <2>1. handlers'[v] = IF Owner(v) = m THEN Idle ELSE handlers[v]
    BY <1>4 DEF Crash
  <2>2. CASE Owner(v) = m
    BY <2>1, <2>2 DEF Idle, Follows
  <2>3. CASE Owner(v) # m
    BY <2>1, <2>3, StaysFollows
  <2> QED
    BY <2>2, <2>3
<1>5. CASE UNCHANGED handlers
  BY <1>5, UnchangedFollows
<1>6. CASE \/ \E g \in Generations : LeaseExpires(g) \/ Stall(g)
           \/ \E w \in Workers : Renew(w)
           \/ \E c \in Clients : \/ Commit(c) \/ Refuse(c)
                                 \/ \E action \in Actions \ {"spawn"} : Validate(c, action)
           \/ Delete \/ BulkPurge \/ StartRun \/ EndRun \/ GrantAccess \/ LifetimeEnds
           \/ ContainersFail \/ UNCHANGED vars
  BY <1>5, <1>6 DEF LeaseExpires, Stall, Renew, Commit, Refuse, Validate, Delete, BulkPurge,
     StartRun, EndRun, GrantAccess, LifetimeEnds, ContainersFail, vars, processes
<1> QED
  BY <1>1, <1>2, <1>3, <1>4, <1>6 DEF Next

LEMMA NextContinues == IInv /\ [Next]_vars => \A n \in Managers : Continues(n)
<1> SUFFICES ASSUME IInv, [Next]_vars PROVE \A n \in Managers : Continues(n)
  OBVIOUS
<1>1. CASE UNCHANGED reconciler
  BY <1>1, UnchangedContinues
<1>2. ASSUME NEW w \in Workers, HandlerStep(w) PROVE \A n \in Managers : Continues(n)
  <2>1. reconciler' = reconciler \/ reconciler' = Known(reconciler)
    BY <1>2 DEF HandlerStep, Begin, Announce, CreateResources, Launch, LaunchFails, Bind,
       RecordRunning, Compensate, Revoke, StartContainers, PauseContainers, StopContainers,
       TeardownContainers, RecordResult, CreateEvent, CompleteOperation, PurgeAfterTeardown,
       FailOperation, MarkFailed, CallFails, FinalStatementFails, LeaseLost, OtherActors,
       GotoKnown
  <2> QED
    BY <2>1, UnchangedContinues
<1>3. CASE \E m \in Managers : ReconcilerStep(m)
  BY <1>3, PassContinues
<1>4. ASSUME NEW m \in Managers, Crash(m), NEW n \in Managers PROVE Continues(n)
  <2>1. reconciler' = [reconciler EXCEPT ![m] = Off] /\ reconciler \in [Managers -> PassStates]
    BY <1>4 DEF Crash, IInv, TypeOK
  <2>2. CASE n = m
    BY <2>1, <2>2 DEF Off, Continues, Wanting
  <2>3. CASE n # m
    BY <2>1, <2>3 DEF Continues
  <2> QED
    BY <2>2, <2>3
<1>5. CASE \/ \E w \in Workers, g \in Generations : Lease(w, g)
           \/ \E g \in Generations : LeaseExpires(g) \/ Stall(g)
           \/ \E w \in Workers : Renew(w)
           \/ \E c \in Clients : \/ Commit(c) \/ Refuse(c)
                                 \/ \E action \in Actions \ {"spawn"} : Validate(c, action)
           \/ Delete \/ BulkPurge \/ StartRun \/ EndRun \/ GrantAccess \/ LifetimeEnds
           \/ ContainersFail \/ UNCHANGED vars
  BY <1>1, <1>5 DEF Lease, LeaseExpires, Stall, Renew, Commit, Refuse, Validate, Delete,
     BulkPurge, StartRun, EndRun, GrantAccess, LifetimeEnds, ContainersFail, vars, processes,
     OtherActors
<1> QED
  BY <1>2, <1>3, <1>4, <1>5 DEF Next

\* A request is dropped, kept, or has just been validated.
Requested(c) ==
  \/ requests'[c] = requests[c] \/ requests'[c] = NoRequest
  \/ /\ UNCHANGED machine
     /\ requests'[c].gen = machine.generation + 1
     /\ machine.desired = "destroyed" => requests'[c].action = "teardown"

LEMMA NextRequested == IInv /\ [Next]_vars => \A c \in Clients : Requested(c)
<1> SUFFICES ASSUME IInv, [Next]_vars, NEW c \in Clients PROVE Requested(c)
  OBVIOUS
<1>1. requests \in [Clients -> RequestStates]
  BY DEF IInv, TypeOK
<1>2. ASSUME NEW d \in Clients, Commit(d) \/ Refuse(d) PROVE Requested(c)
  BY <1>1, <1>2 DEF Commit, Refuse, Requested
<1>3. ASSUME NEW d \in Clients, NEW action \in Actions \ {"spawn"}, Validate(d, action)
      PROVE  Requested(c)
  BY <1>1, <1>3 DEF Validate, Requested, database
<1>4. CASE UNCHANGED requests
  BY <1>4 DEF Requested
<1>5. ASSUME NEW w \in Workers, HandlerStep(w) PROVE Requested(c)
  BY <1>4, <1>5 DEF HandlerStep, Begin, Announce, CreateResources, Launch, LaunchFails, Bind,
     RecordRunning, Compensate, Revoke, StartContainers, PauseContainers, StopContainers,
     TeardownContainers, RecordResult, CreateEvent, CompleteOperation, PurgeAfterTeardown,
     FailOperation, MarkFailed, CallFails, FinalStatementFails, LeaseLost, OtherActors
<1>6. ASSUME NEW m \in Managers, ReconcilerStep(m) PROVE Requested(c)
  BY <1>4, <1>6 DEF ReconcilerStep, Tick, Deletes, ListIdle, IdlePause, ListExpired, Expire,
     ExpireTeardown, ListRuntime, DestroyRevoke, DestroyTeardown, RepairStop, PauseRevoke,
     RepairPause, RecordRepair, Inspect, RepairCreate, RepairLaunch, RepairLaunchFails,
     RepairBind, RecordRecovered, Sample, PassFails, NotMine
<1>7. CASE \/ \E w \in Workers, g \in Generations : Lease(w, g)
           \/ \E g \in Generations : LeaseExpires(g) \/ Stall(g)
           \/ \E w \in Workers : Renew(w)
           \/ \E m \in Managers : Crash(m)
           \/ Delete \/ BulkPurge \/ StartRun \/ EndRun \/ GrantAccess \/ LifetimeEnds
           \/ ContainersFail \/ UNCHANGED vars
  BY <1>4, <1>7 DEF Lease, LeaseExpires, Stall, Renew, Crash, Delete, BulkPurge, StartRun,
     EndRun, GrantAccess, LifetimeEnds, ContainersFail, vars, processes, OtherActors
<1> QED
  BY <1>2, <1>3, <1>5, <1>6, <1>7 DEF Next

-----------------------------------------------------------------------------
(* The invariant is inductive *)

LEMMA InitIInv == Init => IInv
<1> SUFFICES ASSUME Init PROVE IInv
  OBVIOUS
<1>1. TypeOK
  BY InitTypeOK
<1>2. OperationsSought
  BY BoundsAssumption DEF Init, StoreInit, OperationsSought, Sought, Pending, NoOperation,
     Target, Generations
<1>3. HandlersSought /\ HandlersOnTrack
  BY DEF Init, WorkerInit, HandlersSought, HandlersOnTrack, At, Idle, Serving
<1>4. PassesSought
  BY DEF Init, ReconcilerInit, PassesSought, View, Off, Wanting
<1>5. RequestsSought
  BY DEF Init, StoreInit, ServiceInit, RequestsSought, NoRequest
<1>6. PauseUnreachable
  BY DEF Init, StoreInit, PauseUnreachable
<1> QED
  BY <1>1, <1>2, <1>3, <1>4, <1>5, <1>6 DEF IInv

LEMMA HandlersSoughtStep ==
  ASSUME IInv, TypeOK', Moves, \A v \in Workers : Follows(v)
  PROVE  HandlersSought' /\ HandlersOnTrack'
<1>1. ASSUME NEW v \in Workers, handlers'[v].pc # "idle"
      PROVE  Sought(machine', handlers'[v].gen, Target(handlers'[v].action))
  <2>1. handlers[v].action \in Actions /\ handlers'[v].action \in Actions
    BY DEF IInv, TypeOK, HandlerStates
  <2>2. CASE handlers[v].pc # "idle" /\ handlers'[v].gen = handlers[v].gen
             /\ handlers'[v].action = handlers[v].action
    <3>1. Sought(machine, handlers[v].gen, Target(handlers[v].action))
      BY <2>2 DEF IInv, HandlersSought, At
    <3> QED
      BY <2>1, <2>2, <3>1, TargetDesired, SoughtStays
  <2>3. CASE /\ handlers'[v].gen \in Generations /\ Active(handlers'[v].gen)
             /\ handlers'[v].action = operations[handlers'[v].gen].action
             /\ UNCHANGED machine
    BY <2>3 DEF IInv, OperationsSought, Active
  <2> QED
    BY <1>1, <2>2, <2>3 DEF Follows
<1>2. ASSUME NEW v \in Workers, handlers'[v].pc \in DOMAIN Serving
      PROVE  handlers'[v].action \in Serving[handlers'[v].pc]
  <2>1. handlers'[v].pc # "idle" /\ handlers'[v].pc # "begin"
    BY <1>2 DEF Serving
  <2> QED
    BY <1>2, <2>1 DEF Follows
<1> QED
  BY <1>1, <1>2 DEF HandlersSought, HandlersOnTrack, At

LEMMA PassesSoughtStep ==
  ASSUME IInv, TypeOK', Moves, \A n \in Managers : Continues(n)
  PROVE  PassesSought'
<1> SUFFICES ASSUME NEW n \in Managers, reconciler'[n].pc \in DOMAIN Wanting
             PROVE  Sought(machine', reconciler'[n].gen, Wanting[reconciler'[n].pc])
  BY DEF PassesSought, View
<1>1. \A pc \in DOMAIN Wanting : Wanting[pc] \in Desired
  BY DEF Wanting, Desired
<1>2. CASE /\ reconciler[n].pc \in DOMAIN Wanting
           /\ reconciler'[n].gen = reconciler[n].gen
           /\ Wanting[reconciler'[n].pc] = Wanting[reconciler[n].pc]
  <2>1. Sought(machine, reconciler[n].gen, Wanting[reconciler[n].pc])
    BY <1>2 DEF IInv, PassesSought, View
  <2> QED
    BY <1>1, <1>2, <2>1, SoughtStays
<1>3. CASE /\ reconciler'[n].gen = machine.generation
           /\ machine.desired = Wanting[reconciler'[n].pc]
           /\ UNCHANGED machine
  <2>1. machine.generation \in Nat \ {0}
    BY BoundsAssumption DEF IInv, TypeOK, MachineRows, Generations
  <2> QED
    BY <1>3, <2>1 DEF Sought
<1> QED
  BY <1>2, <1>3 DEF Continues

LEMMA RequestsSoughtStep ==
  ASSUME IInv, TypeOK', Moves, \A c \in Clients : Requested(c)
  PROVE  RequestsSought'
<1> SUFFICES ASSUME NEW c \in Clients
             PROVE  /\ requests'[c].gen <= machine'.generation + 1
                    /\ requests'[c].gen = machine'.generation + 1 /\ machine'.desired = "destroyed"
                         => requests'[c].action = "teardown"
  BY DEF RequestsSought
<1>1. machine.generation \in Nat /\ machine'.generation \in Nat
  BY BoundsAssumption DEF IInv, TypeOK, MachineRows, Generations
<1>2. requests[c] \in RequestStates
  BY DEF IInv, TypeOK
<1>3. CASE requests'[c] = NoRequest
  BY <1>1, <1>3 DEF NoRequest
<1>4. CASE requests'[c] = requests[c]
  <2>1. requests[c].gen \in Nat
    BY <1>2 DEF RequestStates, NoRequest
  <2> QED
    BY <1>1, <1>4, <2>1 DEF IInv, RequestsSought, Moves
<1>5. CASE /\ UNCHANGED machine
           /\ requests'[c].gen = machine.generation + 1
           /\ machine.desired = "destroyed" => requests'[c].action = "teardown"
  BY <1>1, <1>5
<1> QED
  BY <1>3, <1>4, <1>5 DEF Requested

\* Access comes back only to a machine that is running and wanted so.
LEMMA AccessStep ==
  ASSUME IInv, TypeOK', Statement, access' # FALSE
  PROVE  access # FALSE \/ Grants
BY DEF Statement, Quiet, Works, Writes, Asks, Marks, Purges, Purge, Revokes

LEMMA PauseUnreachableStep ==
  ASSUME IInv, TypeOK', Statement, Moves, \A v \in Workers : Follows(v),
         \A n \in Managers : Continues(n)
  PROVE  PauseUnreachable'
<1>1. machine.generation \in Nat /\ machine'.generation \in Nat
      /\ machine \in MachineRows /\ access \in BOOLEAN /\ access' \in BOOLEAN
  BY BoundsAssumption DEF IInv, TypeOK, MachineRows, Generations
<1>2. machine'.present /\ machine'.status = "paused" => ~access'
  <2>1. CASE Writes
    <3>1. PICK status \in Statuses : /\ SetStatus(status) \/ SetStatusNamed(status)
                                     /\ status = "paused" => ~access
      BY <2>1 DEF Writes
    <3>2. machine'.status = status
      BY <1>1, <3>1 DEF SetStatus, SetStatusNamed, MachineRows
    <3> QED
      BY <2>1, <3>1, <3>2 DEF Writes
  <2>2. CASE Asks
    BY <1>1, <2>2 DEF Asks, Enqueue, MachineRows, IInv, PauseUnreachable
  <2>3. CASE Marks \/ Purges
    BY <1>1, <2>3 DEF Marks, Purges, Purge, MachineRows, IInv, PauseUnreachable
  <2>4. CASE Quiet \/ Works \/ Revokes \/ Grants
    BY <2>4 DEF Quiet, Works, Revokes, Grants, Usable, IInv, PauseUnreachable
  <2> QED
    BY <2>1, <2>2, <2>3, <2>4 DEF Statement
<1>3. ASSUME NEW v \in Workers, handlers'[v].pc \in {"pause", "paused"},
             handlers'[v].gen = machine'.generation, access'
      PROVE  FALSE
  <2>1. handlers[v].pc \in {"pause", "paused"} /\ handlers'[v].gen = handlers[v].gen
    BY <1>3 DEF Follows
  <2>2. Sought(machine, handlers[v].gen, "paused")
    BY <2>1, HandlerBelieves DEF At, Serving, Target
  <2>3. handlers[v].gen = machine.generation /\ machine.desired = "paused"
    BY <1>1, <1>3, <2>1, <2>2 DEF Sought, Moves
  <2>4. ~access
    BY <2>1, <2>3 DEF IInv, PauseUnreachable
  <2> QED
    BY <1>1, <1>3, <2>3, <2>4, AccessStep DEF Grants, Usable
<1>4. ASSUME NEW n \in Managers, reconciler'[n].pc \in {"pause", "pause_record"},
             reconciler'[n].gen = machine'.generation, access'
      PROVE  FALSE
  <2>1. reconciler[n].pc \in {"pause", "pause_record"} /\ reconciler'[n].gen = reconciler[n].gen
    BY <1>4 DEF Continues, Wanting
  <2>2. Sought(machine, reconciler[n].gen, "paused")
    BY <2>1, PassBelieves DEF View, Wanting
  <2>3. reconciler[n].gen = machine.generation /\ machine.desired = "paused"
    BY <1>1, <1>4, <2>1, <2>2 DEF Sought, Moves
  <2>4. ~access
    BY <2>1, <2>3 DEF IInv, PauseUnreachable, View
  <2> QED
    BY <1>1, <1>4, <2>3, <2>4, AccessStep DEF Grants, Usable
<1> QED
  BY <1>2, <1>3, <1>4 DEF PauseUnreachable, View

LEMMA NextIInv == IInv /\ [Next]_vars => IInv'
<1> SUFFICES ASSUME IInv, [Next]_vars PROVE IInv'
  OBVIOUS
<1>1. TypeOK'
  BY NextTypeOK DEF IInv
<1>2. Statement /\ Moves
  BY NextStatement, StatementMoves
<1>3. OperationsSought'
  BY <1>1, <1>2, OperationsStep DEF OperationsSought
<1>4. HandlersSought' /\ HandlersOnTrack'
  BY <1>1, <1>2, NextFollows, HandlersSoughtStep
<1>5. PassesSought'
  BY <1>1, <1>2, NextContinues, PassesSoughtStep
<1>6. RequestsSought'
  BY <1>1, <1>2, NextRequested, RequestsSoughtStep
<1>7. PauseUnreachable'
  BY <1>1, <1>2, NextFollows, NextContinues, PauseUnreachableStep
<1> QED
  BY <1>1, <1>3, <1>4, <1>5, <1>6, <1>7 DEF IInv

THEOREM InductiveInvariant == Spec => []IInv
  BY InitIInv, NextIInv, PTL DEF Spec

-----------------------------------------------------------------------------
(* Refinement *)

LEMMA StatementKeepsContract ==
  ASSUME IInv, Statement
  PROVE  [Contract!Next]_Contract!contract
<1>1. machine \in MachineRows /\ access \in BOOLEAN
  BY DEF IInv, TypeOK
<1> USE DEF Contract!contract
<1>2. CASE Quiet \/ Works
  BY <1>2 DEF Quiet, Works
<1>3. CASE Writes
  <2>1. PICK status \in Statuses \ {"queued"} :
           /\ SetStatus(status) \/ SetStatusNamed(status)
           /\ status \in DOMAIN Contract!Serves => Contract!Serves[status] = machine.desired
           /\ status = "paused" => ~access
    BY <1>3 DEF Writes
  <2>2. status \in DOMAIN Contract!Serves \cup {"failed", "expired"}
    BY DEF Contract!Serves, Statuses
  <2>3. /\ machine'.status = status /\ machine'.present = machine.present
        /\ machine'.desired = machine.desired /\ machine'.generation = machine.generation
    BY <1>1, <2>1 DEF SetStatus, SetStatusNamed, MachineRows
  <2>4. Contract!Record(status)
    BY <1>3, <2>1, <2>3 DEF Writes, Contract!Record
  <2> QED
    BY <2>2, <2>4 DEF Contract!Next
<1>4. CASE Asks
  <2>1. PICK action \in Actions : /\ machine.desired = "destroyed" => action = "teardown"
                                  /\ \E deleting \in BOOLEAN : Enqueue(action, deleting)
    BY <1>4 DEF Asks
  <2>2. /\ machine'.status = machine.status /\ machine'.present = machine.present
        /\ machine'.desired = Target(action) /\ machine'.generation = machine.generation + 1
    BY <1>1, <2>1 DEF Enqueue, MachineRows
  <2>3. Target(action) \in Contract!Desires
    BY DEF Target, Actions, Contract!Desires
  <2>4. Contract!Ask(Target(action))
    BY <1>4, <2>1, <2>2 DEF Asks, Contract!Ask, Target
  <2> QED
    BY <2>3, <2>4 DEF Contract!Next
<1>5. CASE Marks
  BY <1>1, <1>5 DEF Marks, MachineRows
<1>6. CASE Purges
  <2>1. /\ machine'.status = machine.status /\ machine'.present = FALSE /\ access' = FALSE
        /\ machine'.desired = machine.desired /\ machine'.generation = machine.generation
    BY <1>1, <1>6 DEF Purges, Purge, MachineRows
  <2>2. Contract!Remove
    BY <1>6, <2>1 DEF Purges, SafelyPurgeable, Contract!Remove
  <2> QED
    BY <2>2 DEF Contract!Next
<1>7. CASE Revokes
  BY <1>7 DEF Revokes, Contract!Revoke, Contract!Next
<1>8. CASE Grants
  BY <1>8 DEF Grants, Usable, Contract!Grant, Contract!Next
<1> QED
  BY <1>2, <1>3, <1>4, <1>5, <1>6, <1>7, <1>8 DEF Statement

\* The control plane implements the lifecycle contract, with any number of
\* managers and clients and any number of faults: no stale handler, pass or
\* request writes a status, revives a machine that is being destroyed or lets
\* anyone reach a paused one.
THEOREM ImplementsContract == Spec => ContractHolds
<1>1. Init => Contract!Init
  BY DEF Init, StoreInit, Contract!Init
<1>2. IInv /\ [Next]_vars => [Contract!Next]_Contract!contract
  BY NextStatement, StatementKeepsContract
<1> QED
  BY <1>1, <1>2, InductiveInvariant, PTL DEF Spec, ContractHolds, Contract!Spec
=============================================================================
