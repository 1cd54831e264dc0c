------------------------ MODULE DevMachineLeaseProofs ------------------------
(****************************************************************************)
(* One ordinary handler at a time, as long as no handler is held up past    *)
(* its lease.  The lease query looks at leases and not at handlers, so the  *)
(* invariant ties the two: a handler inside a call holds a live lease.      *)
(*                                                                          *)
(* The second half builds on it: with one manager and no faults, a settled  *)
(* status is what Docker holds, and a teardown leaves nothing behind.       *)
(****************************************************************************)
EXTENDS DevMachineContractProofs

InCall == CallPcs \cup {"complete", "fail"}

Serves(w, handler, operation) ==
  /\ operation.status = "leased" /\ operation.live
  /\ operation.owner = Owner(w)
  /\ operation.action = handler.action

\* The handlers inside a call hold live leases, of operations of their own, and
\* of two leases that are live one is a teardown.
LeaseInv ==
  /\ \A w \in Workers : handlers[w].pc \in InCall =>
       handlers[w].gen \in Generations
       /\ Serves(w, handlers[w], operations[handlers[w].gen])
  /\ \A v, w \in Workers :
       v # w /\ handlers[v].pc \in InCall /\ handlers[w].pc \in InCall
         => handlers[v].gen # handlers[w].gen
  /\ \A g, h \in Generations :
       g # h /\ Leased(g) /\ Leased(h)
         => operations[g].action = "teardown" \/ operations[h].action = "teardown"

LEMMA InitLeaseInv == Init => LeaseInv
BY DEF Init, StoreInit, WorkerInit, LeaseInv, Idle, InCall, CallPcs, DockerPcs, Leased,
   Pending, NoOperation

LEMMA LeaseInvExcludes == LeaseInv => OneOrdinaryHandler
<1> SUFFICES ASSUME LeaseInv, NEW v \in Workers, NEW w \in Workers, v # w,
                    handlers[v].pc \in CallPcs, handlers[v].action # "teardown",
                    handlers[w].pc \in CallPcs, handlers[w].action # "teardown"
             PROVE  FALSE
  BY DEF OneOrdinaryHandler
<1>1. handlers[v].pc \in InCall /\ handlers[w].pc \in InCall
  BY DEF InCall
<1>2. /\ Leased(handlers[v].gen) /\ operations[handlers[v].gen].action # "teardown"
      /\ Leased(handlers[w].gen) /\ operations[handlers[w].gen].action # "teardown"
  BY <1>1 DEF LeaseInv, Serves, Leased
<1> QED
  BY <1>1, <1>2 DEF LeaseInv

-----------------------------------------------------------------------------
(* Handlers *)

\* Who is inside a call after the step was inside one before, of the same operation.
Keeps(v) ==
  handlers'[v].pc \in InCall =>
    /\ handlers[v].pc \in InCall
    /\ handlers'[v].gen = handlers[v].gen /\ handlers'[v].action = handlers[v].action

LEMMA UnchangedKeeps ==
  ASSUME TypeOK, handlers' = handlers \/ handlers' = Known(handlers)
  PROVE  \A v \in Workers : Keeps(v)
BY DEF TypeOK, Known, HandlerStates, Keeps

LEMMA GotoKeeps ==
  ASSUME TypeOK, NEW w \in Workers, NEW pc, Goto(w, pc) \/ GotoKnown(w, pc),
         handlers[w].pc \in InCall
  PROVE  \A v \in Workers : Keeps(v)
<1>1. handlers \in [Workers -> HandlerStates] /\ Known(handlers) \in [Workers -> HandlerStates]
  BY KnownTyped DEF TypeOK
<1>2. \A v \in Workers : /\ Known(handlers)[v].pc = handlers[v].pc
                         /\ Known(handlers)[v].gen = handlers[v].gen
                         /\ Known(handlers)[v].action = handlers[v].action
  BY DEF TypeOK, Known, HandlerStates
<1> QED
  BY <1>1, <1>2 DEF Goto, GotoKnown, HandlerStates, Keeps

LEMMA DoneKeeps ==
  ASSUME TypeOK, NEW w \in Workers, Done(w)
  PROVE  (\A v \in Workers : Keeps(v)) /\ handlers'[w].pc \notin InCall
BY DEF TypeOK, Done, Idle, Keeps, InCall, CallPcs, DockerPcs

LEMMA UpdateKeeps ==
  ASSUME TypeOK, NEW w \in Workers, Begin(w) \/ CreateResources(w) \/ Launch(w)
  PROVE  \A v \in Workers : Keeps(v)
<1>1. handlers \in [Workers -> HandlerStates] /\ handlers[w].pc \in InCall
  BY DEF TypeOK, Begin, CreateResources, Launch, At, InCall, CallPcs, DockerPcs
<1>2. \A v \in Workers : v # w => handlers'[v] = handlers[v]
  BY <1>1 DEF Begin, CreateResources, Launch
<1>3. handlers'[w].gen = handlers[w].gen /\ handlers'[w].action = handlers[w].action
  <2>1. CASE Begin(w)
    <3> DEFINE next == IF ~machine.present THEN "fail"
                       ELSE IF handlers[w].gen < machine.generation
                               /\ handlers[w].action # "teardown"
                            THEN "complete"
                       ELSE FirstCall(handlers[w].action)
    <3>1. handlers' = [handlers EXCEPT ![w] =
                         [@ EXCEPT !.pc = next, !.named = machine.named, !.ids = bound]]
      BY <2>1 DEF Begin
    <3> HIDE DEF next
    <3> QED
      BY <1>1, <3>1 DEF HandlerStates
  <2>2. CASE CreateResources(w)
    <3> DEFINE b == (runtime = "absent")
    <3>1. handlers' = [handlers EXCEPT ![w] = [@ EXCEPT !.pc = "launch", !.made = b]]
      BY <2>2 DEF CreateResources
    <3> HIDE DEF b
    <3> QED
      BY <1>1, <3>1 DEF HandlerStates
  <2>3. CASE Launch(w)
    BY <1>1, <2>3 DEF Launch, HandlerStates
  <2> QED
    BY <2>1, <2>2, <2>3
<1> QED
  BY <1>1, <1>2, <1>3 DEF Keeps

LEMMA HandlerKeeps ==
  ASSUME TypeOK, NEW w \in Workers, HandlerStep(w)
  PROVE  \A v \in Workers : Keeps(v)
<1> USE DEF At, InCall, CallPcs, DockerPcs
<1>1. CASE Begin(w) \/ CreateResources(w) \/ Launch(w)
  BY <1>1, UpdateKeeps
<1>2. CASE Announce(w)
  BY <1>2, GotoKeeps DEF Announce, Announcement
<1>3. CASE LaunchFails(w) \/ Bind(w) \/ RecordRunning(w) \/ Compensate(w)
  BY <1>3, GotoKeeps DEF LaunchFails, Bind, RecordRunning, Compensate
<1>4. CASE Revoke(w)
  BY <1>4, GotoKeeps DEF Revoke
<1>5. CASE StartContainers(w) \/ PauseContainers(w) \/ StopContainers(w) \/ TeardownContainers(w)
  BY <1>5, GotoKeeps DEF StartContainers, PauseContainers, StopContainers, TeardownContainers
<1>6. CASE RecordResult(w)
  BY <1>6, GotoKeeps DEF RecordResult, ResultOf
<1>7. CASE CreateEvent(w) \/ CallFails(w) \/ LeaseLost(w)
  BY <1>7, GotoKeeps DEF CreateEvent, CallFails, LeaseLost
<1>8. CASE CompleteOperation(w) \/ FailOperation(w)
  BY <1>8, GotoKeeps, DoneKeeps DEF CompleteOperation, FailOperation
<1>9. CASE PurgeAfterTeardown(w) \/ MarkFailed(w) \/ FinalStatementFails(w)
  BY <1>9, DoneKeeps DEF PurgeAfterTeardown, MarkFailed, FinalStatementFails
<1> QED
  BY <1>1, <1>2, <1>3, <1>4, <1>5, <1>6, <1>7, <1>8, <1>9 DEF HandlerStep

-----------------------------------------------------------------------------
(* Steps that lease nothing *)

NoNewLease ==
  \A g \in Generations :
    Leased(g)' => Leased(g) /\ operations'[g].action = operations[g].action

HeldRowsStay ==
  \A v \in Workers :
    handlers'[v].pc \in InCall => operations'[handlers[v].gen] = operations[handlers[v].gen]

LEMMA HeldStep ==
  ASSUME LeaseInv, NoNewLease, HeldRowsStay, \A v \in Workers : Keeps(v)
  PROVE  LeaseInv'
<1>1. \A w \in Workers : handlers'[w].pc \in InCall =>
        handlers'[w].gen \in Generations
        /\ Serves(w, handlers'[w], operations'[handlers'[w].gen])
  BY DEF LeaseInv, HeldRowsStay, Keeps, Serves
<1>2. \A v, w \in Workers :
        v # w /\ handlers'[v].pc \in InCall /\ handlers'[w].pc \in InCall
          => handlers'[v].gen # handlers'[w].gen
  BY DEF LeaseInv, Keeps
<1>3. \A g, h \in Generations :
        g # h /\ Leased(g)' /\ Leased(h)'
          => operations'[g].action = "teardown" \/ operations'[h].action = "teardown"
  BY DEF LeaseInv, NoNewLease
<1> QED
  BY <1>1, <1>2, <1>3 DEF LeaseInv

\* The rows the handlers hold are left alone by an enqueue and by a purge.
LEMMA EnqueueHeld ==
  ASSUME IInv, LeaseInv, \A v \in Workers : Keeps(v), NEW action \in Actions,
         NEW deleting \in BOOLEAN, Enqueue(action, deleting)
  PROVE  NoNewLease /\ HeldRowsStay
<1>1. operations \in [Generations -> OperationRows] /\ machine.generation \in Nat
  BY BoundsAssumption DEF IInv, TypeOK, MachineRows, Generations
<1>2. \A g \in Generations : operations[g].status # "none" => g # machine.generation + 1
  BY <1>1 DEF IInv, OperationsSought, Sought
<1>3. \A g \in Generations :
        operations'[g] = IF g = machine.generation + 1 THEN Pending(action) ELSE operations[g]
  BY <1>1 DEF Enqueue
<1>4. NoNewLease
  <2>1. Pending(action).status # "leased"
    BY DEF Pending, NoOperation
  <2> QED
    BY <1>3, <2>1 DEF NoNewLease, Leased
<1>5. HeldRowsStay
  BY <1>2, <1>3 DEF HeldRowsStay, LeaseInv, Serves, Keeps
<1> QED
  BY <1>4, <1>5

LEMMA PurgeHeld ==
  ASSUME LeaseInv, \A v \in Workers : Keeps(v), Purge, ~AnyActive
  PROVE  NoNewLease /\ HeldRowsStay
<1>1. \A v \in Workers : handlers[v].pc \notin InCall
  BY DEF LeaseInv, Serves, AnyActive, Active
<1> QED
  BY <1>1 DEF Purge, NoNewLease, HeldRowsStay, Leased, NoOperation, Keeps

LEMMA UnchangedHeld == UNCHANGED operations => NoNewLease /\ HeldRowsStay
BY DEF NoNewLease, HeldRowsStay, Leased

-----------------------------------------------------------------------------
(* The steps of Next *)

\* Completing or failing an operation is the last thing its handler does with it.
LEMMA ResultHeld ==
  ASSUME IInv, LeaseInv, NEW w \in Workers, CompleteOperation(w) \/ FailOperation(w)
  PROVE  NoNewLease /\ HeldRowsStay
<1>1. operations \in [Generations -> OperationRows] /\ TypeOK
      /\ handlers[w].pc \in InCall /\ handlers \in [Workers -> HandlerStates]
  BY DEF IInv, TypeOK, CompleteOperation, FailOperation, At, InCall
<1>2. handlers[w].gen \in Generations /\ Holds(w)
  BY <1>1 DEF LeaseInv, Serves, Holds, HeldBy
<1>3. Complete(handlers[w].gen) \/ Fail(handlers[w].gen)
  BY <1>2 DEF CompleteOperation, FailOperation
<1>4. /\ \A g \in Generations : g # handlers[w].gen => operations'[g] = operations[g]
      /\ operations'[handlers[w].gen].live = FALSE
  <2>1. CASE Complete(handlers[w].gen)
    BY <1>1, <1>2, <2>1 DEF Complete, OperationRows
  <2>2. CASE Fail(handlers[w].gen)
    <3> DEFINE s == IF WillRetry(handlers[w].gen) THEN "pending" ELSE "failed"
    <3>1. operations' = [operations EXCEPT ![handlers[w].gen] =
                           [@ EXCEPT !.status = s, !.owner = Nobody, !.live = FALSE]]
      BY <2>2 DEF Fail
    <3> HIDE DEF s
    <3> QED
      BY <1>1, <1>2, <3>1 DEF OperationRows
  <2> QED
    BY <1>3, <2>1, <2>2
<1>5. NoNewLease
  BY <1>2, <1>4 DEF NoNewLease, Leased
<1>6. handlers'[w].pc \notin InCall
  <2>1. Done(w) \/ Goto(w, "purge") \/ Goto(w, "markfailed")
    BY <1>2 DEF CompleteOperation, FailOperation
  <2> QED
    BY <1>1, <2>1, DoneKeeps DEF Goto, HandlerStates, InCall, CallPcs, DockerPcs
<1>7. \A v \in Workers : Keeps(v)
  BY <1>1, HandlerKeeps DEF HandlerStep
<1>8. HeldRowsStay
  BY <1>1, <1>2, <1>4, <1>6, <1>7 DEF HeldRowsStay, Keeps, LeaseInv
<1> QED
  BY <1>5, <1>8

LEMMA HandlerHeld ==
  ASSUME IInv, LeaseInv, NEW w \in Workers, HandlerStep(w)
  PROVE  LeaseInv'
<1>1. TypeOK /\ \A v \in Workers : Keeps(v)
  BY HandlerKeeps DEF IInv
<1>2. CASE CompleteOperation(w) \/ FailOperation(w)
  BY <1>1, <1>2, ResultHeld, HeldStep
<1>3. CASE PurgeAfterTeardown(w)
  <2>1. UNCHANGED operations \/ (Purge /\ ~AnyActive)
    BY <1>3 DEF PurgeAfterTeardown
  <2> QED
    BY <1>1, <2>1, PurgeHeld, UnchangedHeld, HeldStep
<1>4. CASE ~(CompleteOperation(w) \/ FailOperation(w) \/ PurgeAfterTeardown(w))
  <2>1. UNCHANGED operations
    BY <1>4 DEF HandlerStep, Begin, Announce, CreateResources, Launch, LaunchFails, Bind,
       RecordRunning, Compensate, Revoke, StartContainers, PauseContainers, StopContainers,
       TeardownContainers, RecordResult, CreateEvent, MarkFailed, CallFails,
       FinalStatementFails, LeaseLost, OtherRows, database
  <2> QED
    BY <1>1, <2>1, UnchangedHeld, HeldStep
<1> QED
  BY <1>2, <1>3, <1>4

\* Everyone else enqueues, purges or leaves the queue alone.
LEMMA OtherHeld ==
  ASSUME IInv, LeaseInv, handlers' = handlers \/ handlers' = Known(handlers),
         \/ UNCHANGED operations
         \/ \E action \in Actions, deleting \in BOOLEAN : Enqueue(action, deleting)
         \/ Purge /\ ~AnyActive
  PROVE  LeaseInv'
<1>1. \A v \in Workers : Keeps(v)
  BY UnchangedKeeps DEF IInv
<1> QED
  BY <1>1, EnqueueHeld, PurgeHeld, UnchangedHeld, HeldStep

LEMMA PassHeld ==
  ASSUME IInv, LeaseInv, NEW m \in Managers, ReconcilerStep(m)
  PROVE  LeaseInv'
<1>1. handlers' = handlers \/ handlers' = Known(handlers)
  BY DEF ReconcilerStep, Tick, Deletes, ListIdle, IdlePause, ListExpired, Expire,
     ExpireTeardown, ListRuntime, DestroyRevoke, DestroyTeardown, RepairStop, PauseRevoke,
     RepairPause, RecordRepair, Inspect, RepairCreate, RepairLaunch, RepairLaunchFails,
     RepairBind, RecordRecovered, Sample, PassFails, NotMine, MoveKnown
<1>2. CASE Deletes(m)
  <2>1. UNCHANGED operations \/ Enqueue("teardown", TRUE) \/ (Purge /\ ~AnyActive)
    BY <1>2 DEF Deletes, RequestPermanentDelete
  <2> QED
    BY <1>1, <2>1, OtherHeld DEF Actions
<1>3. CASE IdlePause(m) \/ ExpireTeardown(m) \/ Sample(m)
  <2>1. UNCHANGED operations \/ \E action \in {"pause", "teardown", "stop"} : Enqueue(action, FALSE)
    BY <1>3 DEF IdlePause, ExpireTeardown, Sample, EnqueueAfter
  <2> QED
    BY <1>1, <2>1, OtherHeld DEF Actions
<1>4. CASE ~(Deletes(m) \/ IdlePause(m) \/ ExpireTeardown(m) \/ Sample(m))
  <2>1. UNCHANGED operations
    BY <1>4 DEF ReconcilerStep, Tick, ListIdle, ListExpired, Expire, ListRuntime,
       DestroyRevoke, DestroyTeardown, RepairStop, PauseRevoke, RepairPause, RecordRepair,
       Inspect, RepairCreate, RepairLaunch, RepairLaunchFails, RepairBind, RecordRecovered,
       PassFails, OtherRows, database
  <2> QED
    BY <1>1, <2>1, OtherHeld
<1> QED
  BY <1>2, <1>3, <1>4

\* A lease is given only when no live one stands against it.
LEMMA LeaseHeld ==
  ASSUME IInv, LeaseInv, NEW w \in Workers, NEW g \in Generations, Lease(w, g)
  PROVE  LeaseInv'
<1>1. /\ operations \in [Generations -> OperationRows] /\ handlers \in [Workers -> HandlerStates]
  BY DEF IInv, TypeOK
<1> DEFINE row == [operations[g] EXCEPT !.status = "leased", !.owner = Owner(w), !.live = TRUE,
                                        !.attempts = operations[g].attempts + 1]
           fresh == [Idle EXCEPT !.pc = "begin", !.gen = g, !.action = operations[g].action]
<1>2. /\ row.status = "leased" /\ row.owner = Owner(w) /\ row.live = TRUE
      /\ row.action = operations[g].action
  BY <1>1 DEF OperationRows
<1>3. fresh.pc = "begin" /\ fresh.gen = g /\ fresh.action = operations[g].action
  BY DEF Idle
<1>4. operations' = [operations EXCEPT ![g] = row] /\ handlers' = [handlers EXCEPT ![w] = fresh]
  BY DEF Lease, LeaseTo
<1>5. /\ ~Leased(g)
      /\ operations[g].action # "teardown" => \A h \in Generations \ {g} : ~Leased(h)
  BY DEF Lease, LeaseCandidate, Leasable
<1> HIDE DEF row, fresh
<1>6. /\ operations'[g] = row /\ handlers'[w] = fresh
      /\ \A h \in Generations : h # g => operations'[h] = operations[h]
      /\ \A v \in Workers : v # w => handlers'[v] = handlers[v]
  BY <1>1, <1>4
<1>7. \A v \in Workers : v # w /\ handlers[v].pc \in InCall => handlers[v].gen # g
  BY <1>5 DEF LeaseInv, Serves, Leased
<1>8. \A v \in Workers : handlers'[v].pc \in InCall =>
        handlers'[v].gen \in Generations /\ Serves(v, handlers'[v], operations'[handlers'[v].gen])
  BY <1>2, <1>3, <1>6, <1>7 DEF LeaseInv, Serves
<1>9. \A u, v \in Workers :
        u # v /\ handlers'[u].pc \in InCall /\ handlers'[v].pc \in InCall
          => handlers'[u].gen # handlers'[v].gen
  BY <1>3, <1>6, <1>7 DEF LeaseInv
<1>10. \A h, k \in Generations :
         h # k /\ Leased(h)' /\ Leased(k)'
           => operations'[h].action = "teardown" \/ operations'[k].action = "teardown"
  <2>1. \A h \in Generations : h # g /\ Leased(h)' => Leased(h)
    BY <1>6 DEF Leased
  <2> QED
    BY <1>2, <1>5, <1>6, <2>1 DEF LeaseInv
<1> QED
  BY <1>8, <1>9, <1>10 DEF LeaseInv

\* A lease runs out only when no handler of its owner is inside a call for it.
LEMMA ExpiryHeld ==
  ASSUME IInv, LeaseInv, NEW g \in Generations, LeaseExpires(g)
  PROVE  LeaseInv'
<1>1. operations \in [Generations -> OperationRows] /\ TypeOK
  BY DEF IInv, TypeOK
<1>2. /\ handlers' = handlers
      /\ \A h \in Generations : h # g => operations'[h] = operations[h]
      /\ operations'[g].live = FALSE
  BY <1>1 DEF LeaseExpires, processes, OperationRows
<1>3. \A v \in Workers : handlers[v].pc \in InCall => handlers[v].gen # g
  BY DEF LeaseExpires, Running, InCall, LeaseInv, Serves, Holds, HeldBy
<1>4. NoNewLease
  BY <1>2 DEF NoNewLease, Leased
<1>5. HeldRowsStay
  BY <1>2, <1>3 DEF HeldRowsStay, LeaseInv
<1> QED
  BY <1>1, <1>2, <1>4, <1>5, UnchangedKeeps, HeldStep

LEMMA CrashHeld ==
  ASSUME IInv, LeaseInv, NEW m \in Managers, Crash(m)
  PROVE  LeaseInv'
<1>1. \A v \in Workers : handlers'[v] = IF Owner(v) = m THEN Idle ELSE handlers[v]
  BY DEF Crash
<1>2. \A v \in Workers : Keeps(v)
  BY <1>1 DEF Keeps, Idle, InCall, CallPcs, DockerPcs
<1>3. UNCHANGED operations
  BY DEF Crash, database
<1> QED
  BY <1>2, <1>3, UnchangedHeld, HeldStep

LEMMA NextLeaseInv ==
  ASSUME "stall" \notin FaultKinds
  PROVE  IInv /\ LeaseInv /\ [Next]_vars => LeaseInv'
<1> SUFFICES ASSUME IInv, LeaseInv, [Next]_vars PROVE LeaseInv'
  OBVIOUS
<1>1. CASE \E w \in Workers, g \in Generations : Lease(w, g)
  BY <1>1, LeaseHeld
<1>2. CASE \E g \in Generations : LeaseExpires(g)
  BY <1>2, ExpiryHeld
<1>3. CASE \E g \in Generations : Stall(g)
  BY <1>3 DEF Stall, Fault
<1>4. ASSUME NEW w \in Workers, Renew(w) PROVE LeaseInv'
  <2>1. handlers[w].pc \in InCall /\ ~operations[handlers[w].gen].live
    BY <1>4 DEF Renew, InCall
  <2> QED
    BY <2>1 DEF LeaseInv, Serves
<1>5. CASE \E w \in Workers : HandlerStep(w)
  BY <1>5, HandlerHeld
<1>6. CASE \E m \in Managers : ReconcilerStep(m)
  BY <1>6, PassHeld
<1>7. CASE \E m \in Managers : Crash(m)
  BY <1>7, CrashHeld
<1>8. ASSUME NEW c \in Clients, Commit(c) PROVE LeaseInv'
  <2>1. requests[c].action \in Actions
    BY <1>8 DEF Commit, IInv, TypeOK, RequestStates
  <2> QED
    BY <1>8, <2>1, OtherHeld DEF Commit
<1>9. CASE Delete
  <2>1. UNCHANGED operations \/ Enqueue("teardown", TRUE)
    BY <1>9 DEF Delete, RequestPermanentDelete
  <2> QED
    BY <1>9, <2>1, OtherHeld DEF Delete, processes, Actions
<1>10. CASE BulkPurge
  BY <1>10, OtherHeld DEF BulkPurge, processes
<1>11. CASE \/ \E c \in Clients : \/ Refuse(c)
                                  \/ \E action \in Actions \ {"spawn"} : Validate(c, action)
            \/ StartRun \/ EndRun \/ GrantAccess \/ LifetimeEnds
            \/ ContainersFail \/ UNCHANGED vars
  <2>1. UNCHANGED <<operations, handlers>>
    BY <1>11 DEF Refuse, Validate, StartRun, EndRun, GrantAccess, LifetimeEnds,
       ContainersFail, vars, processes, database, OtherRows
  <2> QED
    BY <2>1, OtherHeld
<1> QED
  BY <1>1, <1>2, <1>3, <1>4, <1>5, <1>6, <1>7, <1>8, <1>9, <1>10, <1>11 DEF Next

\* Without a handler that is held up past its lease, two handlers are never
\* inside ordinary operations of the machine at once, whatever crashes and fails.
THEOREM OrdinaryHandlersExclude ==
  ASSUME "stall" \notin FaultKinds
  PROVE  Spec => []OneOrdinaryHandler
<1>1. Init => LeaseInv
  BY InitLeaseInv
<1>2. IInv /\ LeaseInv /\ [Next]_vars => LeaseInv'
  BY NextLeaseInv
<1> QED
  BY <1>1, <1>2, InductiveInvariant, LeaseInvExcludes, PTL DEF Spec

-----------------------------------------------------------------------------
(* What a status says of the containers *)

\* The machine is not on its way out.
Alive == machine.present /\ machine.desired # "destroyed"

\* The calls of a spawn up to its record, and after its generation has gone.
SpawnPcs == {"spawning", "create", "launch", "bind", "running", "compensate"}

\* The calls of a handler that has begun and found work.
WorkPcs == InCall \ {"begin", "complete", "fail"}

\* A pass with a machine that no operation drove when it was listed.
Fixing == {"inspect", "create", "launch", "bind", "record", "record_ready", "sample"}

\* The calls of a pass that the operations leave no work for.
Unused == {"destroy_revoke", "destroy_teardown", "destroy_record", "stop", "stop_record",
           "pause_revoke", "pause", "pause_record"}

Whole == {"running", "paused", "stopped"}

\* An expired machine waits for its teardown, and one that was caught stopping
\* when it was started again waits for the reconciler.
Lagging ==
  \/ machine.status = "expired"
  \/ machine.status = "stopping" /\ machine.desired = "running"

StatusSought ==
  /\ machine.status # "failed"
  /\ machine.status \in {"tearing_down", "destroyed"} => machine.desired = "destroyed"

\* Until its first start is recorded a machine knows one operation and its end.
FirstStart ==
  ~machine.named =>
    /\ machine.status \in {"queued", "spawning", "expired", "tearing_down", "destroyed"}
    /\ Alive => machine.generation = 1 /\ Active(1)
    /\ \A g \in Generations :
         operations[g].status # "none" => operations[g].action \in {"spawn", "teardown"}
    /\ \A c \in Clients : requests[c] # NoRequest => requests[c].action = "teardown"
    /\ \A m \in Managers : ~In(m, "idle_pause")

\* From then on Docker holds all of it, unless it is torn down.
Started ==
  machine.named =>
    /\ machine.status \notin {"queued", "spawning"}
    /\ Alive => bound /\ runtime \in Whole

SpawnsOnce ==
  \A g \in Generations : operations[g].status # "none" /\ operations[g].action = "spawn" =>
    g = 1 /\ (operations[g].status = "pending" => ~machine.named)

\* Nothing is leased to a handler that is gone.
Held ==
  \A g \in Generations : operations[g].status = "leased" =>
    \E w \in Workers : handlers[w].pc \in InCall /\ handlers[w].gen = g

\* A settled status is backed by Docker or by an operation that will change it.
Backed ==
  Alive =>
    /\ machine.status = machine.desired => runtime \in Evidence[machine.status]
    /\ machine.status # machine.desired => Lagging \/ Active(machine.generation)

\* A teardown is still to come, whose handler is not at one of these calls.
TeardownDue(pcs) ==
  \E g \in Generations :
    /\ Active(g) /\ operations[g].action = "teardown"
    /\ \A w \in Workers : handlers[w].pc \in pcs => handlers[w].gen # g

Dying ==
  machine.present /\ machine.desired = "destroyed" =>
    /\ machine.status # "destroyed" => TeardownDue({"event", "complete"})
    /\ (\E m \in Managers : In(m, "expire")) => TeardownDue(InCall)

\* What is torn down comes back only with a spawn that has lost its generation.
LatePcs == {"launch", "bind", "running", "compensate"}

TornDown ==
  \/ machine.status = "destroyed"
  \/ ~machine.present
  \/ \E w \in Workers : At(w, "destroyed")

Removed == TornDown => runtime = "absent" \/ \E w \in Workers : handlers[w].pc \in LatePcs

Gone == ~machine.present => ~AnyActive /\ runtime = "absent"

\* Nobody asks for what the status already says, unless it was asked for before.
Asking ==
  /\ \A c \in Clients :
       /\ requests[c] # NoRequest /\ requests[c].gen = machine.generation + 1
       /\ machine.status = Target(requests[c].action)
       => machine.desired = machine.status
  /\ \A m \in Managers :
       In(m, "idle_pause") /\ View(m).gen = machine.generation /\ machine.status = "paused"
       => machine.desired = "paused"

\* The handlers of start, pause and stop that have begun: who wants something
\* else now has not got it yet.
Changing(w) ==
  /\ machine.named /\ handlers[w].named /\ handlers[w].ids
  /\ machine.status = machine.desired => machine.desired = Target(handlers[w].action)
  /\ At(w, "started") => runtime = "running"
  /\ At(w, "paused") => runtime \in {"paused", "stopped"}
  /\ At(w, "stopped") \/ (At(w, "revoke") /\ handlers[w].action = "stop") => runtime = "stopped"

HandlerAlive(w) ==
  /\ At(w, "launch") => runtime # "absent"
  /\ At(w, "bind") => handlers[w].ids /\ runtime = "running"
  /\ At(w, "running") => bound /\ runtime = "running"
  /\ handlers[w].pc \in WorkPcs /\ handlers[w].action \in {"start", "pause", "stop"} => Changing(w)
  /\ /\ handlers[w].pc \in {"revoke_only", "event", "complete"}
     /\ handlers[w].gen = machine.generation
     => machine.status = machine.desired \/ Lagging

HandlerTruth(w) ==
  /\ handlers[w].pc \in SpawnPcs => handlers[w].action = "spawn"
  /\ handlers[w].pc \in InCall /\ handlers[w].action = "spawn" =>
       IF handlers[w].pc \in {"event", "complete"}
       THEN machine.named \/ machine.desired = "destroyed"
       ELSE handlers[w].pc \in SpawnPcs \cup {"begin", "fail"} /\ ~machine.named
  /\ At(w, "revoke_only") => handlers[w].action = "pause"
  /\ handlers[w].pc \in {"fail", "markfailed"} => handlers[w].action # "teardown"
  /\ handlers[w].pc \in {"fail", "markfailed", "compensate"} => machine.desired = "destroyed"
  /\ Alive => HandlerAlive(w)

PassTruth(m) ==
  /\ View(m).pc \notin Unused
  /\ View(m).pc \in Fixing =>
       /\ machine.present /\ machine.named /\ bound /\ runtime \in Whole
       /\ \A w \in Workers : handlers[w].pc \notin InCall
       /\ machine.status = IF In(m, "inspect") THEN View(m).status
                           ELSE IF In(m, "sample") THEN "running" ELSE "stopping"
       /\ machine.status \in {"running", "stopping"}
       /\ machine.status = "running" => runtime = "running"
       /\ In(m, "bind") => View(m).ids
       /\ View(m).pc \in {"bind", "record", "record_ready"} => runtime = "running"

RowTruth ==
  /\ StatusSought
  /\ FirstStart
  /\ Started
  /\ SpawnsOnce
  /\ Held
  /\ Backed
  /\ Dying
  /\ Removed
  /\ Gone
  /\ Asking

TruthInv ==
  /\ RowTruth
  /\ \A w \in Workers : HandlerTruth(w)
  /\ \A m \in Managers : PassTruth(m)

-----------------------------------------------------------------------------
(* How the processes move, with what they know *)

\* A process that does not step itself loses at most its container IDs.
Waits(v) ==
  /\ handlers'[v].pc = handlers[v].pc
  /\ handlers'[v].gen = handlers[v].gen
  /\ handlers'[v].action = handlers[v].action
  /\ handlers'[v].named = handlers[v].named
  /\ runtime' # "absent" => handlers'[v].ids = handlers[v].ids

PassWaits(n) ==
  /\ reconciler'[n].pc = reconciler[n].pc
  /\ reconciler'[n].gen = reconciler[n].gen
  /\ reconciler'[n].status = reconciler[n].status
  /\ runtime' # "absent" => reconciler'[n].ids = reconciler[n].ids

OthersWait(w) == \A v \in Workers \ {w} : Waits(v)

LEMMA KnownFacts ==
  ASSUME TypeOK
  PROVE  /\ \A v \in Workers :
              /\ Known(handlers)[v].pc = handlers[v].pc
              /\ Known(handlers)[v].gen = handlers[v].gen
              /\ Known(handlers)[v].action = handlers[v].action
              /\ Known(handlers)[v].named = handlers[v].named
              /\ runtime' # "absent" => Known(handlers)[v].ids = handlers[v].ids
         /\ \A n \in Managers :
              /\ Known(reconciler)[n].pc = reconciler[n].pc
              /\ Known(reconciler)[n].gen = reconciler[n].gen
              /\ Known(reconciler)[n].status = reconciler[n].status
              /\ runtime' # "absent" => Known(reconciler)[n].ids = reconciler[n].ids
<1>1. handlers \in [Workers -> HandlerStates] /\ reconciler \in [Managers -> PassStates]
  BY DEF TypeOK
<1>2. \A h \in HandlerStates :
        LET k == [h EXCEPT !.ids = FALSE] IN
        k.pc = h.pc /\ k.gen = h.gen /\ k.action = h.action /\ k.named = h.named
  BY DEF HandlerStates
<1>3. \A p \in PassStates :
        LET k == [p EXCEPT !.ids = FALSE] IN k.pc = p.pc /\ k.gen = p.gen /\ k.status = p.status
  BY DEF PassStates
<1>4. \A v \in Workers : Known(handlers)[v] =
        IF runtime' = "absent" THEN [handlers[v] EXCEPT !.ids = FALSE] ELSE handlers[v]
  BY <1>1 DEF Known
<1>5. \A n \in Managers : Known(reconciler)[n] =
        IF runtime' = "absent" THEN [reconciler[n] EXCEPT !.ids = FALSE] ELSE reconciler[n]
  BY <1>1 DEF Known
<1> QED
  BY <1>1, <1>2, <1>3, <1>4, <1>5

LEMMA AllWait ==
  ASSUME TypeOK
  PROVE  /\ handlers' = handlers \/ handlers' = Known(handlers) => \A v \in Workers : Waits(v)
         /\ reconciler' = reconciler \/ reconciler' = Known(reconciler)
              => \A n \in Managers : PassWaits(n)
BY KnownFacts DEF Waits, PassWaits

\* Handler w goes on to pc.
Goes(w, pc) ==
  /\ handlers'[w].pc = pc
  /\ handlers'[w].gen = handlers[w].gen
  /\ handlers'[w].action = handlers[w].action
  /\ handlers'[w].named = handlers[w].named
  /\ runtime' # "absent" => handlers'[w].ids = handlers[w].ids
  /\ OthersWait(w)

LEMMA GotoGoes ==
  ASSUME TypeOK, NEW w \in Workers, NEW pc, Goto(w, pc) \/ GotoKnown(w, pc)
  PROVE  Goes(w, pc)
<1>1. handlers \in [Workers -> HandlerStates] /\ Known(handlers) \in [Workers -> HandlerStates]
  BY KnownTyped DEF TypeOK
<1>2. PICK h \in {handlers, Known(handlers)} : handlers' = [h EXCEPT ![w].pc = pc]
  BY DEF Goto, GotoKnown
<1>3. h \in [Workers -> HandlerStates]
  BY <1>1
<1>4. /\ handlers'[w].pc = pc /\ handlers'[w].gen = h[w].gen /\ handlers'[w].action = h[w].action
      /\ handlers'[w].named = h[w].named /\ handlers'[w].ids = h[w].ids
      /\ \A v \in Workers \ {w} : handlers'[v] = h[v]
  BY <1>2, <1>3 DEF HandlerStates
<1> QED
  BY <1>2, <1>4, KnownFacts DEF Goes, OthersWait, Waits

LEMMA DoneWaits ==
  ASSUME TypeOK, NEW w \in Workers, Done(w)
  PROVE  handlers'[w] = Idle /\ OthersWait(w)
BY DEF TypeOK, Done, OthersWait, Waits

\* The row after each kind of statement.
LEMMA StatusFacts ==
  ASSUME TypeOK, NEW status, SetStatus(status) \/ SetStatusNamed(status)
  PROVE  /\ machine'.status = status
         /\ machine'.present = machine.present /\ machine'.desired = machine.desired
         /\ machine'.generation = machine.generation
         /\ SetStatus(status) => machine'.named = machine.named
         /\ SetStatusNamed(status) => machine'.named = TRUE
BY DEF TypeOK, SetStatus, SetStatusNamed, MachineRows

-----------------------------------------------------------------------------
(* What the invariant says of a handler inside a call *)

LEMMA RowFacts ==
  ASSUME TypeOK
  PROVE  /\ machine \in MachineRows /\ machine.generation \in Generations
         /\ machine.generation \in Nat /\ machine.status \in Statuses /\ machine.desired \in Desired
         /\ machine.present \in BOOLEAN /\ machine.named \in BOOLEAN
         /\ operations \in [Generations -> OperationRows]
         /\ handlers \in [Workers -> HandlerStates]
BY BoundsAssumption DEF TypeOK, MachineRows, Generations

\* It has a leased operation, of a machine that is there and that may want
\* something else by now.
LEMMA CallFacts ==
  ASSUME IInv, LeaseInv, TruthInv, NEW w \in Workers, handlers[w].pc \in InCall
  PROVE  /\ machine.present /\ Holds(w)
         /\ handlers[w].gen \in Generations /\ Active(handlers[w].gen)
         /\ operations[handlers[w].gen].action = handlers[w].action
         /\ handlers[w].gen <= machine.generation
         /\ handlers[w].gen = machine.generation => machine.desired = Target(handlers[w].action)
         /\ handlers[w].action = "teardown" => machine.desired = "destroyed"
<1>1. handlers[w].gen \in Generations /\ Serves(w, handlers[w], operations[handlers[w].gen])
  BY DEF LeaseInv
<1>2. Holds(w) /\ Active(handlers[w].gen)
      /\ operations[handlers[w].gen].action = handlers[w].action
  BY <1>1 DEF Serves, Holds, HeldBy, Active
<1>3. machine.present
  BY <1>1, <1>2, RowFacts DEF TruthInv, RowTruth, Gone, AnyActive, IInv
<1>4. Sought(machine, handlers[w].gen, Target(handlers[w].action))
  BY HandlerBelieves DEF At, InCall, CallPcs, DockerPcs
<1>5. handlers[w].gen <= machine.generation
  BY <1>1, <1>4, RowFacts DEF Sought, IInv
<1> QED
  BY <1>1, <1>2, <1>3, <1>4, <1>5 DEF Sought, Target

\* While nobody asked for a teardown it is alone.
LEMMA Alone ==
  ASSUME IInv, LeaseInv, TruthInv, NEW v \in Workers, NEW w \in Workers, v # w,
         handlers[v].pc \in InCall, handlers[w].pc \in InCall
  PROVE  ~Alive
<1>1. handlers[v].gen # handlers[w].gen
  BY DEF LeaseInv
<1>2. /\ handlers[v].gen \in Generations /\ Leased(handlers[v].gen)
      /\ handlers[w].gen \in Generations /\ Leased(handlers[w].gen)
      /\ operations[handlers[v].gen].action = handlers[v].action
      /\ operations[handlers[w].gen].action = handlers[w].action
  BY DEF LeaseInv, Serves, Leased
<1>3. handlers[v].action = "teardown" \/ handlers[w].action = "teardown"
  BY <1>1, <1>2 DEF LeaseInv
<1> QED
  BY <1>3, CallFacts DEF Alive

\* A teardown is asked for once and for all.
LEMMA TeardownSought ==
  ASSUME IInv, NEW g \in Generations, Active(g), operations[g].action = "teardown"
  PROVE  machine.desired = "destroyed"
BY DEF IInv, OperationsSought, Sought, Active, Target

\* The passes do not look at a machine that a handler is with.
LEMMA NoPassFixing ==
  ASSUME TruthInv, NEW w \in Workers, handlers[w].pc \in InCall
  PROVE  \A m \in Managers : View(m).pc \notin Fixing
BY DEF TruthInv, PassTruth

-----------------------------------------------------------------------------
(* What a step of handler w does to the others *)

\* The row may get another status, and its names while nobody wants it gone.
RowKept ==
  /\ machine'.present = machine.present /\ machine'.desired = machine.desired
  /\ machine'.generation = machine.generation
  /\ machine'.named = machine.named \/ (Alive /\ machine'.named)

LEMMA OthersTruth ==
  ASSUME IInv, LeaseInv, TruthInv, NEW w \in Workers, handlers[w].pc \in InCall,
         RowKept, OthersWait(w), NEW v \in Workers \ {w}
  PROVE  HandlerTruth(v)'
<1>1. HandlerTruth(v) /\ Waits(v)
  BY DEF TruthInv, OthersWait
<1>2. CASE handlers[v].pc \in InCall
  <2>1. ~Alive
    BY <1>2, Alone
  <2> QED
    BY <1>1, <2>1 DEF HandlerTruth, Waits, RowKept, Alive, At
<1>3. CASE handlers[v].pc \notin InCall
  <2>1. handlers'[v].pc \notin InCall
    BY <1>1, <1>3 DEF Waits
  <2>2. /\ handlers'[v].pc \notin SpawnPcs
        /\ handlers'[v].pc \notin {"launch", "bind", "running", "revoke_only", "event", "complete"}
        /\ handlers'[v].pc \notin WorkPcs
    BY <2>1 DEF SpawnPcs, WorkPcs, InCall, CallPcs, DockerPcs
  <2> QED
    BY <1>1, <2>1, <2>2 DEF HandlerTruth, HandlerAlive, At, Waits, RowKept
<1> QED
  BY <1>2, <1>3

LEMMA PassesUntouched ==
  ASSUME TruthInv, NEW w \in Workers, handlers[w].pc \in InCall,
         \A n \in Managers : PassWaits(n)
  PROVE  \A m \in Managers : PassTruth(m)'
BY NoPassFixing DEF TruthInv, PassTruth, PassWaits, View, In

-----------------------------------------------------------------------------
(* Steps of a handler that leave the row and the queue alone *)

\* A handler that goes on leaves the teardowns due that were due, but for its own.
LEMMA DueKept ==
  ASSUME IInv, LeaseInv, TruthInv, NEW w \in Workers, handlers[w].pc \in InCall,
         UNCHANGED operations, OthersWait(w), handlers'[w].gen = handlers[w].gen,
         handlers'[w].action = handlers[w].action
  PROVE  /\ TeardownDue(InCall) => TeardownDue(InCall)'
         /\ /\ TeardownDue({"event", "complete"})
            /\ \/ handlers'[w].pc \notin {"event", "complete"}
               \/ handlers[w].pc \in {"event", "complete"}
               \/ handlers[w].action # "teardown"
            => TeardownDue({"event", "complete"})'
<1>1. ASSUME NEW g \in Generations, Active(g), operations[g].action = "teardown",
             \A v \in Workers : handlers[v].pc \in InCall => handlers[v].gen # g
      PROVE  TeardownDue(InCall)'
  <2>1. \A v \in Workers : handlers'[v].pc \in InCall => handlers'[v].gen # g
    BY <1>1 DEF OthersWait, Waits
  <2> QED
    BY <1>1, <2>1 DEF TeardownDue, Active
<1>2. ASSUME NEW g \in Generations, Active(g), operations[g].action = "teardown",
             \A v \in Workers : handlers[v].pc \in {"event", "complete"} => handlers[v].gen # g,
             \/ handlers'[w].pc \notin {"event", "complete"}
             \/ handlers[w].pc \in {"event", "complete"}
             \/ handlers[w].action # "teardown"
      PROVE  TeardownDue({"event", "complete"})'
  <2>1. operations[handlers[w].gen].action = handlers[w].action
    BY CallFacts
  <2>2. \A v \in Workers : handlers'[v].pc \in {"event", "complete"} => handlers'[v].gen # g
    BY <1>2, <2>1 DEF OthersWait, Waits
  <2> QED
    BY <1>2, <2>2 DEF TeardownDue, Active
<1> QED
  BY <1>1, <1>2 DEF TeardownDue

LEMMA QuietRow ==
  ASSUME IInv, LeaseInv, TruthInv, NEW w \in Workers, handlers[w].pc \in InCall,
         UNCHANGED <<machine, operations, requests>>,
         OthersWait(w), \A n \in Managers : PassWaits(n),
         handlers'[w].gen = handlers[w].gen, handlers'[w].action = handlers[w].action,
         handlers'[w].pc \in InCall,
         Alive /\ machine.named => bound' /\ runtime' \in Whole,
         Alive /\ machine.status = machine.desired => runtime' \in Evidence[machine.status],
         \/ handlers'[w].pc \notin {"event", "complete"}
         \/ handlers[w].pc \in {"event", "complete"}
         \/ handlers[w].action # "teardown"
         \/ machine.status = "destroyed",
         Removed'
  PROVE  RowTruth'
<1> USE DEF TruthInv, RowTruth
<1>1. machine.present
  BY CallFacts
<1>2. StatusSought' /\ SpawnsOnce' /\ Gone'
  BY <1>1 DEF StatusSought, SpawnsOnce, Gone
<1>3. FirstStart' /\ Asking'
  <2>1. \A m \in Managers : /\ In(m, "idle_pause")' = In(m, "idle_pause")
                            /\ View(m)'.gen = View(m).gen
    BY DEF PassWaits, In, View
  <2>2. FirstStart'
    BY <2>1 DEF FirstStart, Alive, Active
  <2>3. Asking'
    BY <2>1 DEF Asking
  <2> QED
    BY <2>2, <2>3
<1>4. Started' /\ Backed'
  BY DEF Started, Backed, Alive, Active, Lagging
<1>5. Dying'
  <2>1. \A m \in Managers : In(m, "expire")' = In(m, "expire")
    BY DEF PassWaits, In
  <2> QED
    BY <2>1, DueKept DEF Dying
<1>6. Held'
  BY DEF Held, OthersWait, Waits
<1> QED
  BY <1>2, <1>3, <1>4, <1>5, <1>6

\* The step of w that changes neither row nor queue, nor the containers.
LEMMA QuietStep ==
  ASSUME IInv, LeaseInv, TruthInv, NEW w \in Workers, handlers[w].pc \in InCall,
         UNCHANGED <<machine, operations, requests, docker>>,
         OthersWait(w), \A n \in Managers : PassWaits(n),
         handlers'[w].gen = handlers[w].gen, handlers'[w].action = handlers[w].action,
         \/ handlers'[w].pc \notin {"event", "complete"}
         \/ handlers[w].pc \in {"event", "complete"}
         \/ handlers[w].action # "teardown"
         \/ machine.status = "destroyed",
         handlers'[w].pc # "destroyed", handlers'[w].pc \in InCall,
         handlers[w].pc \in LatePcs => handlers'[w].pc \in LatePcs,
         HandlerTruth(w)'
  PROVE  TruthInv'
<1>1. Removed'
  <2>1. TornDown' => TornDown
    BY DEF TornDown, At, OthersWait, Waits
  <2>2. \A v \in Workers : handlers[v].pc \in LatePcs => handlers'[v].pc \in LatePcs
    BY DEF OthersWait, Waits
  <2> QED
    BY <2>1, <2>2 DEF TruthInv, RowTruth, Removed, docker
<1>2. RowTruth'
  BY <1>1, QuietRow DEF TruthInv, RowTruth, Started, Backed, docker
<1>3. RowKept
  BY DEF RowKept
<1> QED
  BY <1>2, <1>3, OthersTruth, PassesUntouched DEF TruthInv

\* Only the spawn and the teardown are there before the machine has its names.
LEMMA NamedFacts ==
  ASSUME IInv, LeaseInv, TruthInv, NEW w \in Workers, handlers[w].pc \in InCall,
         handlers[w].action \in {"start", "pause", "stop"}
  PROVE  /\ machine.named /\ machine.status \notin {"queued", "spawning", "failed"}
         /\ Alive => bound /\ runtime \in Whole
<1>1. machine.named
  BY CallFacts DEF TruthInv, RowTruth, FirstStart, Active
<1> QED
  BY <1>1 DEF TruthInv, RowTruth, Started, StatusSought

LEMMA BeginTruth ==
  ASSUME IInv, LeaseInv, TruthInv, NEW w \in Workers, Begin(w)
  PROVE  TruthInv'
<1> DEFINE next == IF ~machine.present THEN "fail"
                   ELSE IF handlers[w].gen < machine.generation
                           /\ handlers[w].action # "teardown"
                        THEN "complete"
                   ELSE FirstCall(handlers[w].action)
<1>1. TypeOK /\ handlers \in [Workers -> HandlerStates] /\ handlers[w].pc = "begin"
      /\ handlers[w].pc \in InCall /\ HandlerTruth(w)
  BY DEF Begin, At, IInv, TypeOK, InCall, CallPcs, TruthInv
<1>2. PICK pc : pc = next
  OBVIOUS
<1>3. /\ handlers'[w].pc = pc /\ handlers'[w].named = machine.named /\ handlers'[w].ids = bound
      /\ handlers'[w].gen = handlers[w].gen /\ handlers'[w].action = handlers[w].action
      /\ OthersWait(w)
  <2>1. handlers' = [handlers EXCEPT ![w] =
                       [@ EXCEPT !.pc = next, !.named = machine.named, !.ids = bound]]
    BY DEF Begin
  <2>2. handlers' = [handlers EXCEPT ![w] =
                       [handlers[w] EXCEPT !.pc = pc, !.named = machine.named, !.ids = bound]]
    BY <1>1, <1>2, <2>1
  <2> HIDE DEF next
  <2> QED
    BY <1>1, <2>2 DEF HandlerStates, OthersWait, Waits
<1>4. /\ machine.present /\ handlers[w].gen \in Generations
      /\ handlers[w].gen \in Nat /\ machine.generation \in Nat
      /\ handlers[w].gen <= machine.generation
      /\ handlers[w].gen = machine.generation => machine.desired = Target(handlers[w].action)
  BY <1>1, CallFacts, RowFacts DEF Generations
<1>5. UNCHANGED <<machine, operations, requests, docker>> /\ \A n \in Managers : PassWaits(n)
  BY <1>1, AllWait DEF Begin, OtherActors, database, docker
<1>6. /\ handlers[w].action = "teardown" => machine.desired = "destroyed"
      /\ handlers[w].action \in Actions
  BY <1>1, CallFacts DEF HandlerStates
<1>7. CASE handlers[w].gen < machine.generation /\ handlers[w].action # "teardown"
  <2>1. pc = "complete" /\ handlers[w].gen # machine.generation
    BY <1>2, <1>4, <1>7
  <2>2. handlers[w].action = "spawn" => machine.desired = "destroyed"
    BY <1>1, <1>4, <1>7 DEF HandlerTruth, InCall, CallPcs, TruthInv, RowTruth, FirstStart, Alive,
       Generations
  <2>3. HandlerTruth(w)'
    BY <1>3, <1>5, <2>1, <2>2 DEF HandlerTruth, HandlerAlive, At, SpawnPcs, WorkPcs
  <2> QED
    BY <1>1, <1>3, <1>5, <1>7, <2>1, <2>3, QuietStep DEF LatePcs, InCall, CallPcs, DockerPcs
<1>8. CASE ~(handlers[w].gen < machine.generation /\ handlers[w].action # "teardown")
  <2>1. pc = FirstCall(handlers[w].action)
    BY <1>2, <1>4, <1>8
  <2>2. handlers[w].action # "teardown" => machine.desired = Target(handlers[w].action)
    BY <1>4, <1>8
  <2>3. CASE handlers[w].action = "spawn"
    <3>1. pc = "spawning" /\ ~machine.named
      BY <1>1, <2>1, <2>3 DEF FirstCall, HandlerTruth, InCall, CallPcs
    <3>2. HandlerTruth(w)'
      BY <1>3, <1>5, <2>3, <3>1 DEF HandlerTruth, HandlerAlive, At, SpawnPcs, WorkPcs
    <3> QED
      BY <1>1, <1>3, <1>5, <3>1, <3>2, QuietStep DEF LatePcs, InCall, CallPcs, DockerPcs
  <2>4. CASE handlers[w].action = "teardown"
    <3>1. pc = IF machine.status = "destroyed" THEN "complete" ELSE "tearing_down"
      BY <2>1, <2>4 DEF FirstCall
    <3>2. HandlerTruth(w)'
      BY <1>3, <1>5, <1>6, <2>4, <3>1 DEF HandlerTruth, At, SpawnPcs, Alive
    <3> QED
      BY <1>1, <1>3, <1>5, <3>1, <3>2, QuietStep DEF LatePcs, InCall, CallPcs, DockerPcs
  <2>5. CASE handlers[w].action \in {"start", "pause", "stop"}
    <3>1. /\ machine.named /\ machine.status \notin {"queued", "spawning", "failed"}
          /\ Alive => bound
          /\ machine.status \in {"tearing_down", "destroyed"} => machine.desired = "destroyed"
      BY <1>1, <2>5, NamedFacts DEF TruthInv, RowTruth, StatusSought
    <3>2. machine.status \in Statuses
      BY <1>1, RowFacts
    <3>3. /\ pc \in {"revoke", "start", "revoke_only", "stopping", "complete"}
          /\ pc = "revoke" => handlers[w].action # "stop"
          /\ pc = "revoke_only" => handlers[w].action = "pause"
          /\ pc \in {"revoke_only", "complete"} /\ Alive => machine.status = machine.desired \/ Lagging
      BY <2>1, <2>2, <2>5, <3>1, <3>2 DEF FirstCall, Target, Lagging, Statuses, Alive
    <3>4. HandlerTruth(w)'
      <4>1. Changing(w)' \/ ~Alive
        BY <1>3, <1>5, <2>2, <2>5, <3>1, <3>3 DEF Changing, At
      <4>2. HandlerAlive(w)' \/ ~Alive
        BY <1>3, <1>5, <3>3, <4>1 DEF HandlerAlive, At, Lagging
      <4> QED
        BY <1>3, <1>5, <2>5, <3>3, <4>2 DEF HandlerTruth, SpawnPcs, Alive, At
    <3> QED
      BY <1>1, <1>3, <1>5, <2>5, <3>3, <3>4, QuietStep DEF LatePcs, InCall, CallPcs, DockerPcs
  <2> QED
    BY <1>6, <2>3, <2>4, <2>5 DEF Actions
<1> QED
  BY <1>7, <1>8

\* A call of the handler whose write finds another generation, and others that
\* only move on.
LEMMA OnTrack ==
  ASSUME IInv, NEW w \in Workers
  PROVE  handlers[w].pc \in DOMAIN Serving => handlers[w].action \in Serving[handlers[w].pc]
BY DEF IInv, HandlersOnTrack

LEMMA MissedTruth ==
  ASSUME IInv, LeaseInv, TruthInv, NEW w \in Workers,
         handlers[w].pc \in {"spawning", "stopping", "tearing_down", "started", "paused",
                             "stopped", "destroyed", "running"},
         ~Matches(handlers[w].gen, handlers[w].pc \in {"tearing_down", "destroyed"}),
         Goto(w, IF At(w, "running") THEN "compensate" ELSE "complete"),
         UNCHANGED <<machine, operations, requests, docker, reconciler>>
  PROVE  TruthInv'
<1>1. handlers[w].pc \in InCall /\ TypeOK /\ HandlerTruth(w)
  BY DEF InCall, CallPcs, TruthInv, IInv
<1>2. /\ machine.present /\ handlers[w].gen # machine.generation
      /\ handlers[w].gen \in Generations
      /\ handlers[w].gen \in Nat /\ machine.generation \in Nat
      /\ handlers[w].gen <= machine.generation
      /\ handlers[w].pc \notin {"tearing_down", "destroyed"}
  BY <1>1, CallFacts, RowFacts DEF Matches, Generations
<1>3. handlers[w].pc \in {"spawning", "running"} =>
        handlers[w].action = "spawn" /\ ~machine.named /\ machine.desired = "destroyed"
  <2>1. handlers[w].pc \in {"spawning", "running"} => handlers[w].action = "spawn" /\ ~machine.named
    BY <1>1 DEF HandlerTruth, SpawnPcs
  <2> QED
    BY <1>2, <2>1 DEF TruthInv, RowTruth, FirstStart, Alive, Generations
<1>4. handlers[w].action = "spawn" => handlers[w].pc \in {"spawning", "running"}
  BY <1>1, <1>2 DEF HandlerTruth, SpawnPcs
<1>5. handlers[w].pc \in DOMAIN Serving /\ handlers[w].action # "teardown"
  BY <1>2, OnTrack DEF Serving
<1>6. PICK pc : pc = IF At(w, "running") THEN "compensate" ELSE "complete"
  OBVIOUS
<1>7. Goes(w, pc) /\ \A n \in Managers : PassWaits(n)
  BY <1>1, <1>6, GotoGoes, AllWait
<1>8. HandlerTruth(w)'
  BY <1>2, <1>3, <1>4, <1>6, <1>7 DEF HandlerTruth, HandlerAlive, Goes, At, SpawnPcs, WorkPcs, Alive
<1> QED
  BY <1>1, <1>3, <1>5, <1>6, <1>7, <1>8, QuietStep DEF InCall, CallPcs, DockerPcs, Goes, LatePcs, At

LEMMA RevokeTruth ==
  ASSUME IInv, LeaseInv, TruthInv, NEW w \in Workers, Revoke(w)
  PROVE  TruthInv'
<1>1. handlers[w].pc \in InCall /\ TypeOK /\ HandlerTruth(w) /\ handlers[w].action \in Actions
      /\ handlers[w].pc \in {"revoke", "revoke_only"}
  BY DEF InCall, CallPcs, TruthInv, IInv, Revoke, TypeOK, HandlerStates
<1>2. PICK pc : pc = IF At(w, "revoke_only") THEN "complete" ELSE AfterRevoke(handlers[w].action)
  OBVIOUS
<1>3. Goes(w, pc) /\ \A n \in Managers : PassWaits(n)
  BY <1>1, <1>2, GotoGoes, AllWait DEF Revoke
<1>4. UNCHANGED <<machine, operations, requests, docker>>
  BY DEF Revoke
<1>5. handlers[w].action # "spawn"
  BY <1>1 DEF HandlerTruth, SpawnPcs
<1>6. handlers[w].action = "teardown" => machine.desired = "destroyed"
  BY <1>1, CallFacts
<1>7. CASE At(w, "revoke_only")
  <2>1. HandlerTruth(w)'
    BY <1>1, <1>2, <1>3, <1>4, <1>5, <1>7 DEF HandlerTruth, HandlerAlive, Goes, At, SpawnPcs,
       WorkPcs, Alive, Lagging
  <2>2. handlers[w].action # "teardown" \/ machine.status = "destroyed"
    BY <1>1, <1>7 DEF HandlerTruth
  <2> QED
    BY <1>1, <1>2, <1>3, <1>4, <1>7, <2>1, <2>2, QuietStep DEF InCall, CallPcs, DockerPcs, Goes, LatePcs, At
<1>8. CASE At(w, "revoke")
  <2>1. /\ pc \in {"start", "pause", "stopped", "teardown"}
        /\ pc = "stopped" => handlers[w].action = "stop"
    BY <1>1, <1>2, <1>5, <1>8 DEF AfterRevoke, At, Actions
  <2>2. HandlerTruth(w)'
    <3>1. Alive => (Changing(w) => Changing(w)')
      BY <1>3, <1>4, <1>8, <2>1 DEF Changing, Goes, At, docker, TruthInv, RowTruth, Started, Whole
    <3>2. Alive => HandlerAlive(w)'
      BY <1>1, <1>3, <1>4, <1>5, <1>6, <1>8, <2>1, <3>1 DEF HandlerTruth, HandlerAlive, Goes, At,
         WorkPcs, InCall, CallPcs, Alive
    <3> QED
      BY <1>3, <1>4, <1>5, <2>1, <3>2 DEF HandlerTruth, Goes, SpawnPcs, Alive, At
  <2> QED
    BY <1>1, <1>3, <1>4, <1>8, <2>1, <2>2, QuietStep DEF InCall, CallPcs, DockerPcs, Goes, LatePcs, At
<1> QED
  BY <1>1, <1>7, <1>8 DEF At

LEMMA CreateEventTruth ==
  ASSUME IInv, LeaseInv, TruthInv, NEW w \in Workers, CreateEvent(w)
  PROVE  TruthInv'
<1>1. handlers[w].pc \in InCall /\ TypeOK /\ HandlerTruth(w) /\ handlers[w].pc = "event"
  BY DEF InCall, CallPcs, TruthInv, IInv, CreateEvent, At
<1>2. Goes(w, "complete") /\ \A n \in Managers : PassWaits(n)
  BY <1>1, GotoGoes, AllWait DEF CreateEvent, OtherActors
<1>3. UNCHANGED <<machine, operations, requests, docker>>
  BY DEF CreateEvent, OtherActors, database
<1>4. HandlerTruth(w)'
  BY <1>1, <1>2, <1>3 DEF HandlerTruth, HandlerAlive, Goes, At, SpawnPcs, WorkPcs, InCall,
     CallPcs, Alive, Lagging
<1> QED
  BY <1>1, <1>2, <1>3, <1>4, QuietStep DEF InCall, Goes, LatePcs

-----------------------------------------------------------------------------
(* Steps of a handler that change what Docker holds *)

LEMMA RuntimeStep ==
  ASSUME IInv, LeaseInv, TruthInv, NEW w \in Workers, handlers[w].pc \in InCall,
         UNCHANGED <<machine, operations, requests>>, NEW pc, Goes(w, pc),
         \A n \in Managers : PassWaits(n),
         pc \notin {"event", "complete"} \/ handlers[w].action # "teardown",
         pc \in InCall,
         Alive /\ machine.named => bound' /\ runtime' \in Whole,
         Alive /\ machine.status = machine.desired => runtime' \in Evidence[machine.status],
         \/ runtime' = "absent"
         \/ pc \in LatePcs
         \/ handlers[w].pc \notin LatePcs /\ pc # "destroyed" /\ runtime # "absent",
         HandlerTruth(w)'
  PROVE  TruthInv'
<1>1. CASE handlers[w].pc \notin LatePcs /\ pc # "destroyed" /\ runtime # "absent"
  <2>1. TornDown' => TornDown
    BY <1>1 DEF TornDown, At, Goes, OthersWait, Waits
  <2>2. \A v \in Workers : handlers[v].pc \in LatePcs => handlers'[v].pc \in LatePcs
    BY <1>1 DEF Goes, OthersWait, Waits
  <2> QED
    BY <1>1, <2>1, <2>2, QuietRow, OthersTruth, PassesUntouched
    DEF TruthInv, RowTruth, Removed, Goes, RowKept
<1>2. CASE runtime' = "absent" \/ pc \in LatePcs
  <2>1. Removed'
    BY <1>2 DEF Removed, Goes
  <2> QED
    BY <2>1, QuietRow, OthersTruth, PassesUntouched DEF TruthInv, Goes, RowKept
<1> QED
  BY <1>1, <1>2

\* The handler of a spawn that is not recorded yet; nothing is settled.
LEMMA SpawnFacts ==
  ASSUME IInv, LeaseInv, TruthInv, NEW w \in Workers, handlers[w].pc \in SpawnPcs
  PROVE  /\ handlers[w].pc \in InCall /\ handlers[w].action = "spawn" /\ ~machine.named
         /\ Alive => machine.status # machine.desired
         /\ handlers[w].gen # machine.generation => machine.desired = "destroyed"
<1>1. handlers[w].pc \in InCall /\ TypeOK
  BY DEF SpawnPcs, InCall, CallPcs, DockerPcs, IInv
<1>2. handlers[w].action = "spawn" /\ ~machine.named
  BY <1>1 DEF TruthInv, HandlerTruth, SpawnPcs
<1>3. Alive => machine.status # machine.desired
  BY <1>1, <1>2, RowFacts DEF TruthInv, RowTruth, FirstStart, Alive, Desired
<1>4. handlers[w].gen # machine.generation => machine.desired = "destroyed"
  <2>1. /\ handlers[w].gen \in Generations /\ Active(handlers[w].gen) /\ machine.present
        /\ operations[handlers[w].gen].action = "spawn"
    BY <1>1, <1>2, CallFacts
  <2>2. handlers[w].gen = 1
    BY <2>1 DEF TruthInv, RowTruth, SpawnsOnce, Active
  <2> QED
    BY <1>2, <2>1, <2>2 DEF TruthInv, RowTruth, FirstStart, Alive
<1> QED
  BY <1>1, <1>2, <1>3, <1>4

LEMMA CreateTruth ==
  ASSUME IInv, LeaseInv, TruthInv, NEW w \in Workers, CreateResources(w)
  PROVE  TruthInv'
<1>1. /\ TypeOK /\ handlers \in [Workers -> HandlerStates] /\ handlers[w].pc = "create"
      /\ handlers[w].pc \in InCall /\ handlers[w].action = "spawn" /\ ~machine.named
      /\ Alive => machine.status # machine.desired
  BY SpawnFacts DEF IInv, TypeOK, CreateResources, At, SpawnPcs
<1>2. PICK b : b = (runtime = "absent")
  OBVIOUS
<1>3. Goes(w, "launch")
  <2>1. handlers' = [handlers EXCEPT ![w] = [handlers[w] EXCEPT !.pc = "launch", !.made = b]]
    BY <1>1, <1>2 DEF CreateResources
  <2> QED
    BY <1>1, <2>1 DEF HandlerStates, Goes, OthersWait, Waits
<1>4. /\ UNCHANGED <<machine, operations, requests, reconciler>> /\ runtime' # "absent"
      /\ \A n \in Managers : PassWaits(n)
  BY <1>1, AllWait DEF CreateResources, OtherActors, database, SpawnCreate
<1>5. HandlerTruth(w)'
  BY <1>1, <1>3, <1>4 DEF HandlerTruth, HandlerAlive, Goes, At, SpawnPcs, WorkPcs, Alive
<1> QED
  BY <1>1, <1>3, <1>4, <1>5, RuntimeStep DEF LatePcs, InCall, CallPcs, DockerPcs

LEMMA LaunchTruth ==
  ASSUME IInv, LeaseInv, TruthInv, NEW w \in Workers, Launch(w)
  PROVE  TruthInv'
<1>1. /\ TypeOK /\ handlers \in [Workers -> HandlerStates] /\ handlers[w].pc = "launch"
      /\ handlers[w].pc \in InCall /\ handlers[w].action = "spawn" /\ ~machine.named
      /\ Alive => machine.status # machine.desired
  BY SpawnFacts DEF IInv, TypeOK, Launch, At, SpawnPcs
<1>2. /\ handlers'[w].pc = "bind" /\ handlers'[w].ids /\ OthersWait(w)
      /\ handlers'[w].gen = handlers[w].gen /\ handlers'[w].action = "spawn"
  BY <1>1 DEF Launch, HandlerStates, OthersWait, Waits
<1>3. /\ UNCHANGED <<machine, operations, requests, reconciler>> /\ runtime' = "running"
      /\ \A n \in Managers : PassWaits(n)
  BY <1>1, AllWait DEF Launch, OtherActors, database, SpawnReady
<1>4. HandlerTruth(w)'
  BY <1>1, <1>2, <1>3 DEF HandlerTruth, HandlerAlive, At, SpawnPcs, WorkPcs, Alive
<1>5. Removed'
  BY <1>2 DEF Removed, LatePcs
<1> QED
  BY <1>1, <1>2, <1>3, <1>4, <1>5, QuietRow, OthersTruth, PassesUntouched
  DEF TruthInv, RowKept, InCall, CallPcs

LEMMA LaunchFailsTruth ==
  ASSUME FaultKinds = {}, IInv, LeaseInv, TruthInv, NEW w \in Workers, LaunchFails(w)
  PROVE  TruthInv'
<1>1. /\ TypeOK /\ handlers[w].pc = "launch" /\ handlers[w].pc \in InCall
      /\ handlers[w].action = "spawn" /\ ~machine.named
      /\ Alive => machine.status # machine.desired
  BY SpawnFacts DEF IInv, LaunchFails, At, SpawnPcs
<1>2. runtime = "absent" /\ machine.present
  BY <1>1, CallFacts DEF LaunchFails, Fault
<1>3. machine.desired = "destroyed"
  BY <1>1, <1>2 DEF TruthInv, HandlerTruth, HandlerAlive, At, Alive
<1>4. /\ UNCHANGED <<machine, operations, requests>> /\ runtime' = "absent"
      /\ Goes(w, "fail") /\ \A n \in Managers : PassWaits(n)
  BY <1>1, <1>2, AllWait, GotoGoes DEF LaunchFails, GotoKnown, database, SpawnCleanup
<1>5. HandlerTruth(w)'
  BY <1>1, <1>3, <1>4 DEF HandlerTruth, Goes, At, SpawnPcs, Alive
<1> QED
  BY <1>1, <1>3, <1>4, <1>5, RuntimeStep DEF Alive, InCall, CallPcs

LEMMA BindTruth ==
  ASSUME IInv, LeaseInv, TruthInv, NEW w \in Workers, Bind(w)
  PROVE  TruthInv'
<1>1. /\ TypeOK /\ handlers[w].pc = "bind" /\ handlers[w].pc \in InCall
      /\ handlers[w].action = "spawn" /\ ~machine.named
      /\ Alive => machine.status # machine.desired
  BY SpawnFacts DEF IInv, Bind, At, SpawnPcs
<1>2. /\ UNCHANGED <<machine, operations, requests, runtime>> /\ bound' = handlers[w].ids
      /\ Goes(w, "running") /\ \A n \in Managers : PassWaits(n)
  BY <1>1, AllWait, GotoGoes DEF Bind, OtherActors, database
<1>3. HandlerTruth(w)'
  BY <1>1, <1>2 DEF TruthInv, HandlerTruth, HandlerAlive, Goes, At, SpawnPcs, WorkPcs, Alive
<1> QED
  BY <1>1, <1>2, <1>3, RuntimeStep DEF LatePcs, InCall, CallPcs, DockerPcs

LEMMA CompensateTruth ==
  ASSUME FaultKinds = {}, IInv, LeaseInv, TruthInv, NEW w \in Workers, Compensate(w)
  PROVE  TruthInv'
<1>1. /\ TypeOK /\ handlers[w].pc = "compensate" /\ handlers[w].pc \in InCall
      /\ handlers[w].action = "spawn" /\ machine.desired = "destroyed"
  BY SpawnFacts DEF IInv, Compensate, At, SpawnPcs, TruthInv, HandlerTruth
<1>2. /\ UNCHANGED <<machine, operations, requests>> /\ runtime' = "absent"
      /\ Goes(w, "complete") /\ \A n \in Managers : PassWaits(n)
  BY <1>1, AllWait, GotoGoes DEF Compensate, GotoKnown, database, Teardown, Fault
<1>3. HandlerTruth(w)'
  BY <1>1, <1>2 DEF HandlerTruth, Goes, At, SpawnPcs, Alive
<1> QED
  BY <1>1, <1>2, <1>3, RuntimeStep DEF Alive, InCall, CallPcs

LEMMA TeardownTruth ==
  ASSUME IInv, LeaseInv, TruthInv, NEW w \in Workers, TeardownContainers(w)
  PROVE  TruthInv'
<1>1. /\ TypeOK /\ handlers[w].pc = "teardown" /\ handlers[w].pc \in InCall
      /\ handlers[w].action = "teardown"
  BY OnTrack DEF IInv, TeardownContainers, At, InCall, CallPcs, DockerPcs, Serving
<1>2. machine.desired = "destroyed"
  BY <1>1, CallFacts
<1>3. /\ UNCHANGED <<machine, operations, requests>> /\ runtime' = "absent"
      /\ Goes(w, "destroyed") /\ \A n \in Managers : PassWaits(n)
  BY <1>1, AllWait, GotoGoes DEF TeardownContainers, GotoKnown, database, Teardown
<1>4. HandlerTruth(w)'
  BY <1>1, <1>2, <1>3 DEF HandlerTruth, Goes, At, SpawnPcs, Alive
<1> QED
  BY <1>1, <1>2, <1>3, <1>4, RuntimeStep DEF Alive, InCall, CallPcs

\* The handlers of start, pause and stop change what Docker holds of a machine
\* that is alive only towards what they were asked for.
LEMMA ContainersTruth ==
  ASSUME IInv, LeaseInv, TruthInv, NEW w \in Workers,
         StartContainers(w) \/ PauseContainers(w) \/ StopContainers(w)
  PROVE  TruthInv'
<1>1. /\ TypeOK /\ handlers[w].pc \in {"start", "pause", "stop"} /\ handlers[w].pc \in InCall
      /\ handlers[w].pc \in WorkPcs /\ handlers[w].action = handlers[w].pc
      /\ HandlerTruth(w)
  BY OnTrack DEF IInv, StartContainers, PauseContainers, StopContainers, At, InCall, WorkPcs,
     CallPcs, DockerPcs, Serving, TruthInv
<1>2. machine.present
  BY <1>1, CallFacts
<1>3. Alive => /\ Changing(w) /\ machine.named /\ handlers[w].named /\ handlers[w].ids
               /\ bound /\ runtime \in Whole
               /\ machine.status = machine.desired => machine.desired = Target(handlers[w].action)
  BY <1>1, NamedFacts DEF HandlerTruth, HandlerAlive, Changing
<1>4. /\ UNCHANGED <<machine, operations, requests, bound, reconciler>>
      /\ \A n \in Managers : PassWaits(n)
  BY <1>1, AllWait DEF StartContainers, PauseContainers, StopContainers, OtherActors, database
<1>5. PICK pc \in {"started", "paused", "revoke", "fail"} :
        /\ Goes(w, pc)
        /\ pc = "started" => handlers[w].action = "start" /\ runtime # "absent" /\ runtime' = "running"
        /\ pc = "paused" => handlers[w].action = "pause" /\ Pause(handlers[w])
        /\ pc = "revoke" => handlers[w].action = "stop" /\ Stop(handlers[w])
        /\ pc = "fail" => /\ handlers[w].action = "start" /\ runtime' = runtime
                          /\ ~CanStart(handlers[w]) \/ runtime = "partial"
  BY <1>1, GotoGoes DEF StartContainers, PauseContainers, StopContainers, At, CanStart, Start
<1>6. pc = "fail" => machine.desired = "destroyed"
  BY <1>2, <1>3, <1>5 DEF CanStart, Whole, Alive
<1>7. runtime = "absent" => runtime' = "absent"
  BY <1>5 DEF Pause, Stop
<1>8. Alive => /\ runtime' \in Whole
               /\ pc = "started" => runtime' = "running"
               /\ pc = "paused" => runtime' \in {"paused", "stopped"}
               /\ pc = "revoke" => runtime' = "stopped"
  BY <1>3, <1>5, <1>6 DEF Pause, Stop, Whole, Alive
<1>9. Alive /\ machine.status = machine.desired => runtime' \in Evidence[machine.status]
  BY <1>3, <1>5, <1>6, <1>8 DEF Target, Evidence, Alive
<1>10. HandlerTruth(w)'
  <2>1. Alive /\ pc # "fail" => Changing(w)'
    BY <1>3, <1>4, <1>5, <1>8 DEF Changing, Goes, At, Whole
  <2>2. Alive => HandlerAlive(w)'
    BY <1>5, <1>6, <2>1 DEF HandlerAlive, Goes, At, Alive
  <2> QED
    BY <1>1, <1>4, <1>5, <1>6, <2>2 DEF HandlerTruth, Goes, At, SpawnPcs, Alive
<1> QED
  BY <1>1, <1>3, <1>4, <1>5, <1>7, <1>8, <1>9, <1>10, RuntimeStep DEF LatePcs, InCall, CallPcs, DockerPcs

-----------------------------------------------------------------------------
(* Handlers that write a status *)

\* The handler of the machine's own generation, while nobody wants it gone.
LEMMA CurrentWrite ==
  ASSUME IInv, LeaseInv, TruthInv, NEW w \in Workers, handlers[w].pc \in InCall,
         handlers[w].gen = machine.generation, handlers[w].action # "teardown",
         NEW s \in {"spawning", "stopping", "running", "paused", "stopped"},
         SetStatus(s) \/ (SetStatusNamed(s) /\ s = "running"),
         UNCHANGED <<operations, requests, docker>>,
         NEW pc \in InCall, pc # "destroyed", Goes(w, pc), \A n \in Managers : PassWaits(n),
         s = "spawning" \/ s = "stopping" \/ s = Target(handlers[w].action),
         s = Target(handlers[w].action) => runtime \in Evidence[s],
         s = "spawning" => ~machine.named,
         s # "spawning" => machine'.named /\ bound /\ runtime \in Whole,
         HandlerTruth(w)'
  PROVE  TruthInv'
<1>1. /\ machine.present /\ Active(machine.generation) /\ Holds(w)
      /\ machine.desired = Target(handlers[w].action)
      /\ operations[handlers[w].gen].action = handlers[w].action
  BY CallFacts
<1>2. TypeOK /\ handlers[w].action \in Actions
  BY DEF IInv, TypeOK, HandlerStates
<1>3. Alive /\ machine.desired \in {"running", "paused", "stopped"}
  BY <1>1, <1>2 DEF Alive, Target, Actions
<1>4. /\ machine'.status = s
      /\ machine'.present = machine.present /\ machine'.desired = machine.desired
      /\ machine'.generation = machine.generation
      /\ machine'.named = machine.named \/ (machine'.named /\ s = "running")
  BY <1>2, StatusFacts
<1>5. \A m \in Managers : /\ In(m, "idle_pause")' = In(m, "idle_pause")
                          /\ View(m)'.gen = View(m).gen
  BY DEF PassWaits, In, View
<1> USE DEF TruthInv, RowTruth
<1>6. StatusSought' /\ Gone'
  BY <1>1, <1>4 DEF StatusSought, Gone
<1>7. FirstStart'
  BY <1>1, <1>3, <1>4, <1>5 DEF FirstStart, Alive, Active
<1>8. Started'
  BY <1>4 DEF Started, docker
<1>9. SpawnsOnce'
  <2>1. ASSUME NEW g \in Generations, operations[g].status = "pending",
               operations[g].action = "spawn"
        PROVE  ~machine'.named
    <3>1. g = 1 /\ ~machine.named
      BY <2>1 DEF SpawnsOnce
    <3>2. machine.generation = 1
      BY <1>3, <3>1 DEF FirstStart
    <3>3. FALSE
      BY <1>1, <2>1, <3>1, <3>2 DEF Holds, HeldBy
    <3> QED
      BY <3>3
  <2> QED
    BY <2>1 DEF SpawnsOnce
<1>10. Backed'
  BY <1>1, <1>3, <1>4 DEF Backed, Alive, Active, docker, Lagging
<1>11. Dying' /\ ~(machine'.status = "destroyed") /\ machine'.present
  BY <1>1, <1>3, <1>4 DEF Dying
<1>12. Removed'
  <2>1. ASSUME NEW v \in Workers, At(v, "destroyed")'
        PROVE  FALSE
    <3>1. handlers[v].pc = "destroyed"
      BY <2>1 DEF At, Goes, OthersWait, Waits
    <3>2. handlers[v].action = "teardown" /\ handlers[v].pc \in InCall
      BY <3>1, OnTrack DEF Serving, InCall, CallPcs
    <3> QED
      BY <1>3, <3>2, CallFacts
  <2> QED
    BY <1>11, <2>1 DEF Removed, TornDown
<1>13. Asking'
  <2>1. \A c \in Clients : requests[c] # NoRequest => Target(requests[c].action) \in Desired
    BY <1>2, TargetDesired DEF TypeOK, RequestStates
  <2> QED
    BY <1>1, <1>3, <1>4, <1>5, <2>1 DEF Asking, Desired
<1>14. RowKept
  BY <1>3, <1>4 DEF RowKept
<1>15. Held'
  BY DEF Held, Goes, OthersWait, Waits
<1> QED
  BY <1>15, <1>6, <1>7, <1>8, <1>9, <1>10, <1>11, <1>12, <1>13, <1>14, OthersTruth, PassesUntouched
  DEF Goes

\* The handler of a teardown, whatever the generation.
LEMMA TeardownWrite ==
  ASSUME IInv, LeaseInv, TruthInv, NEW w \in Workers,
         NEW s \in {"tearing_down", "destroyed"}, handlers[w].pc = s, SetStatus(s),
         UNCHANGED <<operations, requests, docker>>,
         Goes(w, IF s = "destroyed" THEN "event" ELSE "revoke"),
         \A n \in Managers : PassWaits(n)
  PROVE  TruthInv'
<1>1. handlers[w].pc \in InCall /\ handlers[w].action = "teardown" /\ TypeOK
  BY OnTrack DEF Serving, InCall, CallPcs, IInv
<1>2. /\ machine.present /\ machine.desired = "destroyed"
      /\ handlers[w].gen \in Generations /\ Active(handlers[w].gen)
      /\ operations[handlers[w].gen].action = "teardown"
  BY <1>1, CallFacts
<1>3. /\ machine'.status = s
      /\ machine'.present = machine.present /\ machine'.desired = machine.desired
      /\ machine'.generation = machine.generation /\ machine'.named = machine.named
  BY <1>1, StatusFacts
<1>4. \A m \in Managers : /\ In(m, "idle_pause")' = In(m, "idle_pause")
                          /\ In(m, "expire")' = In(m, "expire")
                          /\ View(m)'.gen = View(m).gen
  BY DEF PassWaits, In, View
<1>5. /\ handlers'[w].gen = handlers[w].gen /\ handlers'[w].action = "teardown"
      /\ handlers'[w].pc = IF s = "destroyed" THEN "event" ELSE "revoke"
      /\ OthersWait(w)
  BY <1>1 DEF Goes
<1> USE DEF TruthInv, RowTruth
<1>6. StatusSought' /\ Gone' /\ SpawnsOnce' /\ Started' /\ Backed'
  BY <1>2, <1>3 DEF StatusSought, Gone, SpawnsOnce, Started, Backed, Alive
<1>7. FirstStart'
  BY <1>2, <1>3, <1>4 DEF FirstStart, Alive
<1>8. Dying'
  <2>1. TeardownDue(InCall) => TeardownDue(InCall)'
    BY <1>1, <1>5, DueKept
  <2>2. s = "tearing_down" => TeardownDue({"event", "complete"})'
    <3>1. \A v \in Workers \ {w} : handlers[v].pc \in InCall => handlers[v].gen # handlers[w].gen
      BY <1>1 DEF LeaseInv
    <3>2. s = "tearing_down" =>
            \A v \in Workers : handlers'[v].pc \in {"event", "complete"}
                                 => handlers'[v].gen # handlers[w].gen
      BY <1>5, <3>1 DEF OthersWait, Waits, InCall, CallPcs
    <3> QED
      BY <1>2, <3>2 DEF TeardownDue, Active
  <2> QED
    BY <1>2, <1>3, <1>4, <2>1, <2>2 DEF Dying
<1>9. Removed'
  <2>1. TornDown' => TornDown
    BY <1>2, <1>3, <1>5 DEF TornDown, At, OthersWait, Waits
  <2>2. \A v \in Workers : handlers[v].pc \in LatePcs => handlers'[v].pc \in LatePcs
    BY <1>1, <1>5 DEF LatePcs, OthersWait, Waits
  <2> QED
    BY <2>1, <2>2 DEF Removed, docker
<1>10. Asking'
  <2>1. \A c \in Clients : requests[c] # NoRequest => Target(requests[c].action) \in Desired
    BY <1>1, TargetDesired DEF TypeOK, RequestStates
  <2> QED
    BY <1>2, <1>3, <1>4, <2>1 DEF Asking, Desired
<1>11. HandlerTruth(w)'
  BY <1>2, <1>3, <1>5 DEF HandlerTruth, At, SpawnPcs, Alive
<1>12. RowKept
  BY <1>3 DEF RowKept
<1>13. Held'
  BY <1>5 DEF Held, OthersWait, Waits, InCall, CallPcs
<1> QED
  BY <1>13, <1>1, <1>5, <1>6, <1>7, <1>8, <1>9, <1>10, <1>11, <1>12, OthersTruth, PassesUntouched

LEMMA AnnounceTruth ==
  ASSUME IInv, LeaseInv, TruthInv, NEW w \in Workers, Announce(w)
  PROVE  TruthInv'
<1>1. /\ TypeOK /\ HandlerTruth(w)
      /\ handlers[w].pc \in {"spawning", "stopping", "tearing_down"}
      /\ handlers[w].pc \in InCall
      /\ UNCHANGED <<operations, requests, docker, reconciler>>
      /\ \A n \in Managers : PassWaits(n)
  BY AllWait DEF Announce, Announcement, IInv, OtherRows, OtherActors, InCall, CallPcs, TruthInv
<1>2. PICK b \in BOOLEAN : b = (handlers[w].pc = "tearing_down")
  OBVIOUS
<1>3. CASE ~Matches(handlers[w].gen, handlers[w].pc = "tearing_down")
  <2>1. Goto(w, "complete") /\ UNCHANGED machine
    BY <1>3 DEF Announce
  <2>2. ~Matches(handlers[w].gen, handlers[w].pc \in {"tearing_down", "destroyed"})
    BY <1>1, <1>3 DEF Matches
  <2> QED
    BY <1>1, <2>1, <2>2, MissedTruth DEF At
<1>4. CASE Matches(handlers[w].gen, handlers[w].pc = "tearing_down")
  <2>1. SetStatus(handlers[w].pc) /\ Goes(w, Announcement[handlers[w].pc])
    BY <1>1, <1>4, GotoGoes DEF Announce
  <2>2. CASE handlers[w].pc = "tearing_down"
    BY <1>1, <2>1, <2>2, TeardownWrite DEF Announcement
  <2>3. CASE handlers[w].pc \in {"spawning", "stopping"}
    <3>1. /\ handlers[w].gen = machine.generation
          /\ handlers[w].pc = "spawning" => handlers[w].action = "spawn" /\ ~machine.named
          /\ handlers[w].pc = "stopping" => handlers[w].action = "stop"
      BY <1>1, <1>4, <2>3, SpawnFacts, OnTrack DEF Matches, Serving, SpawnPcs
    <3>2. handlers[w].pc = "stopping" =>
            /\ machine.named /\ machine.present /\ machine.desired = "stopped"
            /\ bound /\ runtime \in Whole
      BY <1>1, <3>1, NamedFacts, CallFacts DEF Target, Alive
    <3>3. /\ machine'.status = handlers[w].pc
          /\ machine'.present = machine.present /\ machine'.desired = machine.desired
          /\ machine'.generation = machine.generation /\ machine'.named = machine.named
      BY <1>1, <2>1, StatusFacts
    <3>4. HandlerTruth(w)'
      <4>1. CASE handlers[w].pc = "spawning"
        BY <1>1, <2>1, <3>1, <3>3, <4>1 DEF Announcement, HandlerTruth, HandlerAlive, Goes, At,
           SpawnPcs, WorkPcs
      <4>2. CASE handlers[w].pc = "stopping"
        <5>1. handlers'[w].pc = "stop" /\ handlers'[w].action = "stop"
          BY <2>1, <3>1, <4>2 DEF Announcement, Goes
        <5>2. Changing(w)
          BY <1>1, <3>1, <3>2, <4>2 DEF HandlerTruth, HandlerAlive, Alive, WorkPcs, InCall, CallPcs
        <5>3. Changing(w)'
          BY <1>1, <2>1, <3>2, <3>3, <4>2, <5>1, <5>2 DEF Changing, Goes, At, docker, Whole
        <5> QED
          BY <5>1, <5>3 DEF HandlerTruth, HandlerAlive, At, SpawnPcs
      <4> QED
        BY <2>3, <4>1, <4>2
    <3>5. /\ Announcement[handlers[w].pc] \in InCall
          /\ Announcement[handlers[w].pc] # "destroyed"
      BY <2>3 DEF Announcement, InCall, CallPcs, DockerPcs
    <3> QED
      BY <1>1, <2>1, <2>3, <3>1, <3>2, <3>3, <3>4, <3>5, CurrentWrite DEF Target
  <2> QED
    BY <1>1, <2>2, <2>3
<1> QED
  BY <1>3, <1>4

LEMMA RecordRunningTruth ==
  ASSUME IInv, LeaseInv, TruthInv, NEW w \in Workers, RecordRunning(w)
  PROVE  TruthInv'
<1>1. /\ TypeOK /\ HandlerTruth(w) /\ handlers[w].pc = "running" /\ handlers[w].pc \in InCall
      /\ handlers[w].action = "spawn"
      /\ UNCHANGED <<operations, requests, docker, reconciler>>
      /\ \A n \in Managers : PassWaits(n)
  BY AllWait, SpawnFacts DEF RecordRunning, IInv, OtherRows, OtherActors, SpawnPcs, At, TruthInv
<1>2. CASE ~Current(w)
  <2>1. Goto(w, "compensate") /\ UNCHANGED machine
    BY <1>2 DEF RecordRunning
  <2>2. ~Matches(handlers[w].gen, handlers[w].pc \in {"tearing_down", "destroyed"})
    BY <1>1, <1>2 DEF Current, Matches
  <2> QED
    BY <1>1, <2>1, <2>2, MissedTruth DEF At
<1>3. CASE Current(w)
  <2>1. SetStatusNamed("running") /\ Goes(w, "event")
    BY <1>1, <1>3, GotoGoes DEF RecordRunning
  <2>2. handlers[w].gen = machine.generation /\ machine.desired = "running" /\ machine.present
    BY <1>1, <1>3, CallFacts DEF Current, Matches, Target
  <2>3. bound /\ runtime = "running"
    BY <1>1, <2>2 DEF HandlerTruth, HandlerAlive, Alive, At
  <2>4. /\ machine'.status = "running" /\ machine'.named
        /\ machine'.present = machine.present /\ machine'.desired = machine.desired
        /\ machine'.generation = machine.generation
    BY <1>1, <2>1, StatusFacts
  <2>5. HandlerTruth(w)'
    BY <1>1, <2>1, <2>2, <2>4 DEF HandlerTruth, HandlerAlive, Goes, At, SpawnPcs
  <2> QED
    BY <1>1, <2>1, <2>2, <2>3, <2>4, <2>5, CurrentWrite
    DEF Evidence, Target, Whole, InCall, CallPcs
<1> QED
  BY <1>2, <1>3

LEMMA RecordResultTruth ==
  ASSUME IInv, LeaseInv, TruthInv, NEW w \in Workers, RecordResult(w)
  PROVE  TruthInv'
<1>1. /\ TypeOK /\ HandlerTruth(w)
      /\ handlers[w].pc \in {"started", "paused", "stopped", "destroyed"}
      /\ handlers[w].pc \in InCall /\ handlers[w].pc \in WorkPcs
      /\ UNCHANGED <<operations, requests, docker, reconciler>>
      /\ \A n \in Managers : PassWaits(n)
  BY AllWait DEF RecordResult, ResultOf, IInv, OtherRows, OtherActors, InCall, WorkPcs, CallPcs,
     TruthInv
<1>2. CASE ~Matches(handlers[w].gen, handlers[w].pc = "destroyed")
  <2>1. Goto(w, "complete") /\ UNCHANGED machine
    BY <1>2 DEF RecordResult
  <2>2. ~Matches(handlers[w].gen, handlers[w].pc \in {"tearing_down", "destroyed"})
    BY <1>1, <1>2 DEF Matches
  <2> QED
    BY <1>1, <2>1, <2>2, MissedTruth DEF At
<1>3. CASE Matches(handlers[w].gen, handlers[w].pc = "destroyed")
  <2>1. SetStatus(ResultOf[handlers[w].pc]) /\ Goes(w, "event")
    BY <1>1, <1>3, GotoGoes DEF RecordResult
  <2>2. CASE handlers[w].pc = "destroyed"
    BY <1>1, <2>1, <2>2, TeardownWrite DEF ResultOf
  <2>3. CASE handlers[w].pc \in {"started", "paused", "stopped"}
    <3>1. PICK s \in {"running", "paused", "stopped"} : s = ResultOf[handlers[w].pc]
      BY <2>3 DEF ResultOf
    <3>2. /\ handlers[w].gen = machine.generation /\ handlers[w].action \in {"start", "pause", "stop"}
          /\ s = Target(handlers[w].action)
      BY <1>1, <1>3, <2>3, <3>1, OnTrack DEF Matches, Serving, ResultOf, Target
    <3>3. machine.present /\ machine.desired = s
      BY <1>1, <3>2, CallFacts
    <3>4. /\ machine.named /\ bound /\ runtime \in Whole /\ Changing(w)
      BY <1>1, <3>1, <3>2, <3>3, NamedFacts DEF HandlerTruth, HandlerAlive, Alive
    <3>5. runtime \in Evidence[s]
      BY <2>3, <3>1, <3>4 DEF Changing, At, Evidence, ResultOf
    <3>6. /\ machine'.status = s
          /\ machine'.present = machine.present /\ machine'.desired = machine.desired
          /\ machine'.generation = machine.generation /\ machine'.named = machine.named
      BY <1>1, <2>1, <3>1, StatusFacts
    <3>7. Changing(w)'
      BY <2>1, <3>2, <3>3, <3>4, <3>6, <1>1 DEF Changing, Goes, At, docker, Whole
    <3>8. HandlerTruth(w)'
      BY <2>1, <3>2, <3>3, <3>6, <3>7 DEF HandlerTruth, HandlerAlive, Goes, At, SpawnPcs
    <3> QED
      BY <1>1, <2>1, <3>1, <3>2, <3>4, <3>5, <3>6, <3>8, CurrentWrite DEF InCall, CallPcs
  <2> QED
    BY <1>1, <2>2, <2>3
<1> QED
  BY <1>2, <1>3

-----------------------------------------------------------------------------
(* The end of a handler *)

\* Its operation is settled, or waits for another attempt.
LEMMA EndTruth ==
  ASSUME IInv, LeaseInv, TruthInv, NEW w \in Workers, handlers[w].pc \in {"complete", "fail"},
         UNCHANGED <<machine, requests, docker, reconciler>>,
         OthersWait(w), handlers'[w].pc \in {"idle", "purge", "markfailed"},
         handlers'[w].pc = "markfailed" =>
           handlers[w].pc = "fail" /\ handlers'[w].action = handlers[w].action,
         NEW g, g = handlers[w].gen,
         \A h \in Generations : h # g => operations'[h] = operations[h],
         operations'[g].action = operations[g].action,
         operations'[g].status = "completed"
           \/ (handlers[w].pc = "fail" /\ operations'[g].status \in {"pending", "failed"})
  PROVE  TruthInv'
<1>1. /\ TypeOK /\ HandlerTruth(w) /\ handlers[w].pc \in InCall
      /\ \A n \in Managers : PassWaits(n)
  BY AllWait DEF IInv, InCall, TruthInv
<1>2. /\ machine.present /\ Holds(w) /\ g \in Generations /\ Active(g)
      /\ operations[g].action = handlers[w].action
  BY <1>1, CallFacts
<1>3. \A h \in Generations : /\ operations'[h].action = operations[h].action
                             /\ operations'[h].status # "none" => operations[h].status # "none"
                             /\ h # g => operations'[h] = operations[h]
  BY <1>2 DEF Active
<1>4. handlers[w].pc = "fail" => machine.desired = "destroyed" /\ handlers[w].action # "teardown"
  BY <1>1 DEF HandlerTruth
<1> USE DEF TruthInv, RowTruth
<1>5. StatusSought' /\ Started' /\ Asking'
  BY DEF StatusSought, Started, Alive, docker, Asking, In, View
<1>6. FirstStart'
  <2>1. ASSUME ~machine.named, Alive PROVE Active(1)' /\ 1 \in Generations
    <3>1. Active(1) /\ machine.generation = 1
      BY <2>1 DEF FirstStart
    <3>2. 1 \in Generations
      BY <1>1, <3>1, RowFacts
    <3>3. g # 1
      BY <1>1, <1>2, <1>4, <2>1, CallFacts DEF HandlerTruth, FirstStart, Alive, Active
    <3> QED
      BY <1>3, <3>1, <3>2, <3>3 DEF Active
  <2> QED
    BY <1>3, <2>1 DEF FirstStart, Alive, In
<1>7. SpawnsOnce'
  <2>1. ASSUME handlers[w].action = "spawn", handlers[w].pc = "fail" PROVE ~machine.named
    BY <1>1, <2>1 DEF HandlerTruth
  <2> QED
    BY <1>2, <1>3, <2>1 DEF SpawnsOnce, Active
<1>8. Backed'
  <2>1. ASSUME Alive, g = machine.generation
        PROVE  machine.status = machine.desired \/ Lagging
    BY <1>1, <1>4, <2>1 DEF HandlerTruth, HandlerAlive, Alive
  <2>2. machine.generation \in Generations
    BY <1>1, RowFacts
  <2> QED
    BY <1>3, <2>1, <2>2 DEF Backed, Alive, Active, docker, Lagging
<1>9. Dying'
  <2>1. ASSUME NEW pcs \in {{"event", "complete"}, InCall}, TeardownDue(pcs)
        PROVE  TeardownDue(pcs)'
    <3>1. PICK h \in Generations :
            /\ Active(h) /\ operations[h].action = "teardown"
            /\ \A v \in Workers : handlers[v].pc \in pcs => handlers[v].gen # h
      BY <2>1 DEF TeardownDue
    <3>2. h # g
      BY <1>1, <1>2, <1>4, <3>1
    <3>3. "idle" \notin pcs /\ "purge" \notin pcs /\ "markfailed" \notin pcs
      BY <2>1 DEF InCall, CallPcs, DockerPcs
    <3>4. \A v \in Workers : handlers'[v].pc \in pcs => handlers'[v].gen # h
      BY <3>1, <3>3 DEF OthersWait, Waits
    <3> QED
      BY <1>3, <3>1, <3>2, <3>4 DEF TeardownDue, Active
  <2> QED
    BY <2>1 DEF Dying, In
<1>10. Removed'
  <2>1. TornDown' => TornDown
    BY DEF TornDown, At, OthersWait, Waits
  <2>2. \A v \in Workers : handlers[v].pc \in LatePcs => handlers'[v].pc \in LatePcs
    BY DEF LatePcs, OthersWait, Waits
  <2> QED
    BY <2>1, <2>2 DEF Removed, docker
<1>11. Gone'
  BY <1>2 DEF Gone
<1>12. HandlerTruth(w)'
  BY <1>4 DEF HandlerTruth, HandlerAlive, At, SpawnPcs, WorkPcs, InCall, CallPcs, DockerPcs
<1>13. RowKept
  BY DEF RowKept
<1>14. Held'
  <2>1. operations'[g].status # "leased"
    OBVIOUS
  <2> QED
    BY <1>3, <2>1 DEF Held, OthersWait, Waits
<1> QED
  BY <1>14, <1>1, <1>5, <1>6, <1>7, <1>8, <1>9, <1>10, <1>11, <1>12, <1>13, OthersTruth, PassesUntouched

LEMMA CompleteTruth ==
  ASSUME IInv, LeaseInv, TruthInv, NEW w \in Workers, CompleteOperation(w)
  PROVE  TruthInv'
<1>1. /\ TypeOK /\ operations \in [Generations -> OperationRows] /\ handlers[w].pc = "complete"
      /\ handlers[w].pc \in InCall
  BY DEF CompleteOperation, At, InCall, IInv, TypeOK
<1>2. Holds(w) /\ handlers[w].gen \in Generations
  BY <1>1, CallFacts
<1>3. Complete(handlers[w].gen) /\ (Done(w) \/ Goto(w, "purge"))
  BY <1>2 DEF CompleteOperation
<1>4. OthersWait(w) /\ handlers'[w].pc \in {"idle", "purge"}
  BY <1>1, <1>3, GotoGoes, DoneWaits DEF Goes, Idle
<1>5. /\ \A h \in Generations : h # handlers[w].gen => operations'[h] = operations[h]
      /\ operations'[handlers[w].gen].action = operations[handlers[w].gen].action
      /\ operations'[handlers[w].gen].status = "completed"
  BY <1>1, <1>2, <1>3 DEF Complete, OperationRows
<1> QED
  BY <1>1, <1>4, <1>5, EndTruth DEF CompleteOperation, OtherActors

LEMMA FailTruth ==
  ASSUME IInv, LeaseInv, TruthInv, NEW w \in Workers, FailOperation(w)
  PROVE  TruthInv'
<1>1. /\ TypeOK /\ operations \in [Generations -> OperationRows] /\ handlers[w].pc = "fail"
      /\ handlers[w].pc \in InCall
  BY DEF FailOperation, At, InCall, IInv, TypeOK
<1>2. Holds(w) /\ handlers[w].gen \in Generations
  BY <1>1, CallFacts
<1>3. Fail(handlers[w].gen) /\ (Done(w) \/ Goto(w, "markfailed"))
  BY <1>2 DEF FailOperation
<1>4. /\ OthersWait(w) /\ handlers'[w].pc \in {"idle", "markfailed"}
      /\ handlers'[w].pc = "markfailed" => handlers'[w].action = handlers[w].action
  BY <1>1, <1>3, GotoGoes, DoneWaits DEF Goes, Idle
<1>5. PICK s \in {"pending", "failed"} : operations' = [operations EXCEPT ![handlers[w].gen] =
        [operations[handlers[w].gen] EXCEPT !.status = s, !.owner = Nobody, !.live = FALSE]]
  <2>1. PICK s \in {"pending", "failed"} :
          s = IF WillRetry(handlers[w].gen) THEN "pending" ELSE "failed"
    OBVIOUS
  <2> QED
    BY <1>1, <1>2, <1>3, <2>1 DEF Fail
<1>6. /\ \A h \in Generations : h # handlers[w].gen => operations'[h] = operations[h]
      /\ operations'[handlers[w].gen].action = operations[handlers[w].gen].action
      /\ operations'[handlers[w].gen].status \in {"pending", "failed"}
  BY <1>1, <1>2, <1>5 DEF OperationRows
<1> QED
  BY <1>1, <1>4, <1>6, EndTruth DEF FailOperation, OtherActors

-----------------------------------------------------------------------------
(* Requests, purges and what leaves the machine alone *)

NeutralPcs == Phases \cup {"off", "expire_teardown"}

RowSame ==
  /\ machine'.present = machine.present /\ machine'.status = machine.status
  /\ machine'.desired = machine.desired /\ machine'.generation = machine.generation
  /\ machine'.named = machine.named

\* Handlers wait, or end after their operation was settled.
HandlersRest ==
  \A v \in Workers :
    Waits(v) \/ (handlers[v].pc \notin InCall /\ handlers'[v].pc = "idle")

LEMMA RestTruth ==
  ASSUME TruthInv, HandlersRest, RowSame, UNCHANGED docker
  PROVE  \A v \in Workers : HandlerTruth(v)'
<1> SUFFICES ASSUME NEW v \in Workers PROVE HandlerTruth(v)'
  OBVIOUS
<1>1. CASE handlers'[v].pc = "idle"
  BY <1>1 DEF HandlerTruth, HandlerAlive, At, SpawnPcs, WorkPcs, InCall, CallPcs, DockerPcs
<1>2. CASE Waits(v)
  <2>1. CASE runtime = "absent"
    <3>1. Alive => ~machine.named
      BY <2>1 DEF TruthInv, RowTruth, Started, Whole
    <3> QED
      BY <1>2, <2>1, <3>1 DEF TruthInv, HandlerTruth, HandlerAlive, Changing, Waits, RowSame, At,
         Alive, Lagging, docker
  <2>2. CASE runtime # "absent"
    BY <1>2, <2>2 DEF TruthInv, HandlerTruth, HandlerAlive, Changing, Waits, RowSame, At,
       Alive, Lagging, docker
  <2> QED
    BY <2>1, <2>2
<1> QED
  BY <1>1, <1>2 DEF HandlersRest

\* A request as Validate makes it, and a pass that has just listed the machine.
RequestFair(c) ==
  \/ requests'[c] = requests[c]
  \/ requests'[c] = NoRequest
  \/ /\ machine.named \/ requests'[c].action = "teardown"
     /\ machine.status # Target(requests'[c].action)

PassFair(n) ==
  \/ PassWaits(n)
  \/ reconciler'[n].pc \in NeutralPcs
  \/ reconciler'[n].pc = "idle_pause" /\ machine.named /\ machine.status = "running"
  \/ reconciler'[n].pc = "expire" /\ (machine.present => machine.desired # "destroyed")
  \/ reconciler'[n].pc = "inspect" /\ PassTruth(n)'

LEMMA CalmTruth ==
  ASSUME TruthInv, HandlersRest, RowSame, UNCHANGED docker,
         \A g \in Generations : /\ operations'[g].action = operations[g].action
                                /\ operations'[g].status = operations[g].status,
         TypeOK,
         \A c \in Clients : RequestFair(c),
         \A n \in Managers : PassFair(n)
  PROVE  TruthInv'
<1>1. \A v \in Workers : handlers'[v].pc \in InCall => Waits(v) /\ handlers[v].pc \in InCall
  BY DEF HandlersRest, Waits, InCall, CallPcs, DockerPcs
<1>2. \A g \in Generations : Active(g)' = Active(g)
  BY DEF Active
<1>3. machine.generation \in Generations /\ (machine.generation = 1 => 1 \in Generations)
  BY RowFacts
<1>4. \A n \in Managers : /\ In(n, "idle_pause")' => (In(n, "idle_pause") /\ PassWaits(n))
                                                    \/ (machine.named /\ machine.status = "running")
                          /\ In(n, "expire")' => In(n, "expire")
                                                 \/ (machine.present => machine.desired # "destroyed")
  BY DEF PassFair, PassWaits, In, NeutralPcs, Phases
<1> USE DEF TruthInv, RowTruth
<1>5. StatusSought' /\ Started' /\ SpawnsOnce'
  BY DEF StatusSought, Started, SpawnsOnce, RowSame, Alive, docker
<1>6. FirstStart'
  <2>1. \A c \in Clients : requests'[c] # NoRequest => machine.named \/ requests'[c].action = "teardown"
    BY DEF RequestFair, FirstStart
  <2> QED
    BY <1>2, <1>3, <1>4, <2>1 DEF FirstStart, RowSame, Alive
<1>7. Backed'
  BY <1>2, <1>3 DEF Backed, RowSame, Alive, docker, Lagging
<1>8. Dying'
  <2>1. TeardownDue(InCall) => TeardownDue(InCall)'
    BY <1>1, <1>2 DEF TeardownDue, Waits
  <2>2. \A v \in Workers : handlers'[v].pc \in {"event", "complete"} =>
           handlers[v].pc \in {"event", "complete"} /\ handlers'[v].gen = handlers[v].gen
    BY DEF HandlersRest, Waits
  <2>3. TeardownDue({"event", "complete"}) => TeardownDue({"event", "complete"})'
    BY <1>2, <2>2 DEF TeardownDue
  <2> QED
    BY <1>4, <2>1, <2>3 DEF Dying, RowSame
<1>9. Removed'
  <2>1. TornDown' => TornDown
    BY DEF TornDown, At, HandlersRest, Waits, RowSame
  <2>2. CASE runtime = "absent"
    BY <2>1, <2>2 DEF Removed, docker
  <2>3. CASE \E v \in Workers : handlers[v].pc \in LatePcs
    <3>1. \E v \in Workers : handlers'[v].pc \in LatePcs
      BY <2>3 DEF HandlersRest, Waits, LatePcs, InCall, CallPcs, DockerPcs
    <3> QED
      BY <2>1, <3>1 DEF Removed
  <2> QED
    BY <2>1, <2>2, <2>3 DEF Removed
<1>10. Gone'
  BY <1>2 DEF Gone, RowSame, AnyActive, docker
<1>11. Asking'
  <2>1. \A c \in Clients : RequestFair(c)
    OBVIOUS
  <2> QED
    BY <1>4, <2>1 DEF Asking, RequestFair, RowSame, PassWaits, View, In
<1>12. \A n \in Managers : PassTruth(n)'
  <2> SUFFICES ASSUME NEW n \in Managers PROVE PassTruth(n)'
    OBVIOUS
  <2>1. CASE PassWaits(n)
    BY <1>1, <2>1 DEF PassTruth, PassWaits, View, In, RowSame, docker, Whole
  <2>2. CASE reconciler'[n].pc \in NeutralPcs \cup {"idle_pause", "expire"}
    BY <2>2 DEF PassTruth, View, NeutralPcs, Phases, Unused, Fixing
  <2> QED
    BY <2>1, <2>2 DEF PassFair
<1>13. Held'
  BY <1>2 DEF Held, HandlersRest, Waits
<1> QED
  BY <1>5, <1>6, <1>7, <1>8, <1>9, <1>10, <1>11, <1>12, <1>13, RestTruth

\* The machine as it is asked for something new.
LEMMA AskedTruth ==
  ASSUME IInv, LeaseInv, TruthInv, machine.present, machine.generation < MaxGeneration,
         NEW action \in Actions \ {"spawn"}, NEW deleting \in BOOLEAN, Enqueue(action, deleting),
         machine.desired = "destroyed" => action = "teardown",
         machine.named \/ action = "teardown",
         machine.status = Target(action) => machine.desired = Target(action),
         UNCHANGED <<docker, handlers>>,
         \A c \in Clients : requests'[c] = requests[c] \/ requests'[c] = NoRequest,
         \A n \in Managers : PassWaits(n) \/ reconciler'[n].pc \in NeutralPcs
  PROVE  TruthInv'
<1>1. TypeOK /\ machine.generation \in Nat /\ machine.generation + 1 \in Generations
      /\ 1 \in Generations
  BY RowFacts, BoundsAssumption DEF IInv, Generations
<1>2. PICK d : d = Target(action)
  OBVIOUS
<1>3. /\ machine'.desired = d /\ machine'.generation = machine.generation + 1
      /\ machine'.present /\ machine'.status = machine.status /\ machine'.named = machine.named
  BY <1>1, <1>2, RowFacts DEF Enqueue, MachineRows
<1>4. /\ operations'[machine.generation + 1].status = "pending"
      /\ operations'[machine.generation + 1].action = action
      /\ \A g \in Generations : g # machine.generation + 1 => operations'[g] = operations[g]
  BY <1>1, RowFacts DEF Enqueue, Pending, NoOperation
<1>5. /\ machine.desired = "destroyed" => d = "destroyed"
      /\ action = "teardown" <=> d = "destroyed"
  BY <1>2 DEF Target, Actions
<1>6. \A v \in Workers : handlers[v].pc \in InCall =>
        handlers[v].gen # machine.generation + 1 /\ handlers[v].gen \in Nat
  BY <1>1, CallFacts DEF Generations
<1>7. Alive' => Alive /\ machine.named
  BY <1>3, <1>5 DEF Alive
<1> USE DEF TruthInv, RowTruth
<1>8. StatusSought' /\ Started' /\ Gone'
  BY <1>3, <1>5, <1>7 DEF StatusSought, Started, docker, Gone
<1>9. FirstStart'
  <2>1. \A m \in Managers : In(m, "idle_pause")' => In(m, "idle_pause")
    BY DEF In, PassWaits, NeutralPcs, Phases
  <2> QED
    BY <1>3, <1>4, <1>5, <1>7, <2>1 DEF FirstStart, Alive
<1>10. SpawnsOnce'
  BY <1>3, <1>4 DEF SpawnsOnce
<1>11. Backed'
  <2>1. Active(machine.generation)'
    BY <1>3, <1>4 DEF Active
  <2> QED
    BY <1>2, <1>3, <1>7, <2>1 DEF Backed, docker, Lagging, Active
<1>12. Dying'
  <2>1. ASSUME NEW pcs \in {{"event", "complete"}, InCall}, action = "teardown"
        PROVE  TeardownDue(pcs)'
    <3>1. \A v \in Workers : handlers'[v].pc \in pcs => handlers'[v].gen # machine.generation + 1
      BY <1>6 DEF InCall, CallPcs
    <3> QED
      BY <1>1, <1>4, <2>1, <3>1 DEF TeardownDue, Active
  <2> QED
    BY <1>3, <1>5, <2>1 DEF Dying
<1>13. Removed'
  BY <1>3 DEF Removed, TornDown, At, docker
<1>14. Asking'
  <2>1. \A c \in Clients : requests'[c] # NoRequest => requests'[c].gen # machine.generation + 2
    <3>1. \A c \in Clients : requests[c].gen \in Nat /\ requests[c].gen <= machine.generation + 1
      BY DEF IInv, TypeOK, RequestStates, NoRequest, RequestsSought
    <3> QED
      BY <1>1, <3>1
  <2>2. \A m \in Managers : In(m, "idle_pause")' => View(m)'.gen # machine.generation + 1
    <3>1. \A m \in Managers : In(m, "idle_pause")' => In(m, "idle_pause") /\ View(m)'.gen = View(m).gen
      BY DEF In, View, PassWaits, NeutralPcs, Phases
    <3>2. \A m \in Managers : In(m, "idle_pause") => View(m).gen \in 1..machine.generation
      BY DEF IInv, PassesSought, In, View, Wanting, Sought
    <3> QED
      BY <1>1, <3>1, <3>2
  <2> QED
    BY <1>1, <1>3, <2>1, <2>2 DEF Asking
<1>15. ASSUME NEW v \in Workers PROVE HandlerTruth(v)'
  <2>1. HandlerTruth(v)
    OBVIOUS
  <2>2. Alive' => (Changing(v) => Changing(v)')
    BY <1>2, <1>3, <1>7 DEF Changing, At, docker
  <2>3. Alive' => HandlerAlive(v)'
    <3>1. handlers[v].pc \in {"revoke_only", "event", "complete"} =>
            handlers[v].gen # machine.generation + 1
      BY <1>6 DEF InCall, CallPcs
    <3>2. Alive' => HandlerAlive(v)
      BY <1>7, <2>1 DEF HandlerTruth
    <3>3. UNCHANGED <<runtime, bound, handlers>>
      BY DEF docker
    <3> QED
      BY <1>3, <2>2, <3>1, <3>2, <3>3 DEF HandlerAlive, At
  <2> QED
    BY <1>3, <1>5, <2>1, <2>3 DEF HandlerTruth, At
<1>16. ASSUME NEW n \in Managers PROVE PassTruth(n)'
  <2>1. CASE PassWaits(n)
    BY <1>3, <2>1 DEF PassTruth, PassWaits, View, In, docker, Whole
  <2>2. CASE reconciler'[n].pc \in NeutralPcs
    BY <2>2 DEF PassTruth, View, NeutralPcs, Phases, Unused, Fixing
  <2> QED
    BY <2>1, <2>2
<1>17. Held'
  BY <1>4 DEF Held
<1> QED
  BY <1>8, <1>9, <1>10, <1>11, <1>12, <1>13, <1>14, <1>15, <1>16, <1>17

\* What may be purged is not in Docker any more.
LEMMA PurgedAbsent ==
  ASSUME IInv, LeaseInv, TruthInv, machine.present, SafelyPurgeable, ~AnyActive
  PROVE  runtime = "absent" /\ \A v \in Workers : handlers[v].pc \notin InCall
<1>1. \A v \in Workers : handlers[v].pc \notin InCall
  BY CallFacts DEF AnyActive
<1>2. machine.status = "destroyed"
  <2>1. ASSUME machine.status = "expired", ~machine.named PROVE FALSE
    <3>1. ~Alive
      BY <2>1, RowFacts DEF TruthInv, RowTruth, FirstStart, AnyActive, IInv
    <3>2. machine.desired = "destroyed"
      BY <3>1 DEF Alive
    <3> QED
      BY <2>1, <3>2 DEF TruthInv, RowTruth, Dying, TeardownDue, AnyActive
  <2> QED
    BY <2>1 DEF SafelyPurgeable, TruthInv, RowTruth, StatusSought
<1>3. \A v \in Workers : handlers[v].pc \notin LatePcs
  BY <1>1 DEF InCall, CallPcs, DockerPcs, LatePcs
<1> QED
  BY <1>1, <1>2, <1>3 DEF TruthInv, RowTruth, Removed, TornDown

LEMMA PurgedTruth ==
  ASSUME IInv, LeaseInv, TruthInv, machine.present, SafelyPurgeable, ~AnyActive, Purge,
         UNCHANGED <<docker, requests>>, HandlersRest,
         \A n \in Managers : PassWaits(n) \/ reconciler'[n].pc \in NeutralPcs
  PROVE  TruthInv'
<1>1. TypeOK /\ runtime = "absent" /\ \A v \in Workers : handlers[v].pc \notin InCall
  BY PurgedAbsent DEF IInv
<1>2. /\ ~machine'.present /\ machine'.status = machine.status
      /\ machine'.desired = machine.desired /\ machine'.generation = machine.generation
      /\ machine'.named = machine.named
  BY <1>1, RowFacts DEF Purge, MachineRows
<1>3. \A g \in Generations : operations'[g].status = "none"
  BY DEF Purge, NoOperation
<1>4. \A m \in Managers : In(m, "idle_pause")' => /\ In(m, "idle_pause")
                                                  /\ View(m)'.gen = View(m).gen
  BY DEF In, View, PassWaits, NeutralPcs, Phases
<1>5. machine.status \in {"destroyed", "expired"}
  BY DEF SafelyPurgeable, TruthInv, RowTruth, StatusSought
<1>6. RowTruth'
  BY <1>1, <1>2, <1>3, <1>4 DEF TruthInv, RowTruth, StatusSought, FirstStart, Started, SpawnsOnce,
     Held, Backed, Dying, Removed, Gone, Asking, Alive, docker, AnyActive, Active
<1>7. \A v \in Workers : HandlerTruth(v)'
  <2>1. \A v \in Workers : handlers'[v].pc \notin InCall
    BY <1>1 DEF HandlersRest, Waits, InCall, CallPcs, DockerPcs
  <2>2. \A v \in Workers : handlers'[v].pc \notin SpawnPcs /\ handlers'[v].pc # "revoke_only"
    BY <2>1 DEF InCall, CallPcs, DockerPcs, SpawnPcs
  <2> QED
    BY <1>2, <2>1, <2>2 DEF TruthInv, HandlerTruth, HandlersRest, Waits, Alive, At
<1>8. \A n \in Managers : PassTruth(n)'
  <2>1. \A n \in Managers : View(n).pc \notin Fixing /\ View(n).pc \notin Unused
    BY <1>5 DEF TruthInv, PassTruth
  <2>2. \A n \in Managers : reconciler'[n].pc \notin Fixing /\ reconciler'[n].pc \notin Unused
    BY <2>1 DEF View, PassWaits, NeutralPcs, Phases, Fixing, Unused
  <2> QED
    BY <2>2 DEF PassTruth, View
<1> QED
  BY <1>6, <1>7, <1>8 DEF TruthInv

-----------------------------------------------------------------------------
(* The reconcile pass *)

\* Pass m goes to pc.
PassGoes(m, pc) ==
  /\ reconciler'[m].pc = pc
  /\ pc # "off" => /\ reconciler'[m].gen = reconciler[m].gen
                   /\ reconciler'[m].status = reconciler[m].status
                   /\ runtime' # "absent" => reconciler'[m].ids = reconciler[m].ids
  /\ \A n \in Managers \ {m} : PassWaits(n)

LEMMA MoveGoes ==
  ASSUME TypeOK, NEW m \in Managers, NEW pc, Move(m, pc)
  PROVE  PassGoes(m, pc)
<1>1. reconciler \in [Managers -> PassStates]
  BY DEF TypeOK
<1>2. \A n \in Managers \ {m} : PassWaits(n)
  BY <1>1 DEF Move, PassWaits
<1>3. CASE pc = "off"
  BY <1>1, <1>2, <1>3 DEF Move, PassGoes, Off
<1>4. CASE pc # "off"
  BY <1>1, <1>2, <1>4 DEF Move, PassGoes, PassStates
<1> QED
  BY <1>3, <1>4

\* It goes on with a machine that it has listed, or leaves it: nothing but the
\* containers changes, and it is alone with them.
LEMMA FixingStep ==
  ASSUME \A n, k \in Managers : n = k,
         IInv, LeaseInv, TruthInv, NEW m \in Managers, View(m).pc \in Fixing,
         NEW pc \in Fixing \cup {"off"}, reconciler'[m].pc = pc,
         UNCHANGED <<machine, operations, requests, handlers>>,
         bound', runtime' \in Whole,
         machine.status = "running" => runtime' = "running",
         pc \in Fixing => PassTruth(m)'
  PROVE  TruthInv'
<1>1. /\ machine.present /\ machine.named /\ machine.status \in {"running", "stopping"}
      /\ \A w \in Workers : handlers[w].pc \notin InCall
  BY DEF TruthInv, PassTruth
<1>2. \A n \in Managers : reconciler'[n].pc \in Fixing \cup {"off"}
  OBVIOUS
<1> USE DEF TruthInv, RowTruth
<1>3. StatusSought' /\ FirstStart' /\ Started' /\ SpawnsOnce' /\ Held' /\ Gone'
  BY <1>1 DEF StatusSought, FirstStart, Started, SpawnsOnce, Held, Gone
<1>4. Backed'
  <2>1. machine.desired \in Desired
    BY RowFacts DEF IInv
  <2>2. machine.status = machine.desired => machine.status = "running"
    BY <1>1, <2>1 DEF Desired
  <2> QED
    BY <2>2 DEF Backed, Alive, Active, Lagging, Evidence
<1>5. Dying' /\ Asking'
  <2>1. \A n \in Managers : ~In(n, "expire")' /\ ~In(n, "idle_pause")'
    BY <1>2 DEF In, Fixing
  <2> QED
    BY <2>1 DEF Dying, TeardownDue, Active, Asking
<1>6. Removed'
  BY <1>1 DEF Removed, TornDown, At, InCall, CallPcs
<1>7. ASSUME NEW w \in Workers PROVE HandlerTruth(w)'
  <2>1. /\ handlers[w].pc \notin InCall
        /\ handlers[w].pc \notin SpawnPcs /\ handlers[w].pc \notin WorkPcs
        /\ handlers[w].pc \notin {"launch", "bind", "running", "revoke_only", "event", "complete"}
    BY <1>1 DEF InCall, CallPcs, DockerPcs, SpawnPcs, WorkPcs
  <2> QED
    BY <2>1 DEF HandlerTruth, HandlerAlive, At
<1>8. \A n \in Managers : PassTruth(n)'
  <2>1. pc = "off" => PassTruth(m)'
    BY DEF PassTruth, View, Fixing, Unused
  <2> QED
    BY <2>1
<1> QED
  BY <1>3, <1>4, <1>5, <1>6, <1>7, <1>8

LEMMA FixingFacts ==
  ASSUME TruthInv, NEW m \in Managers, View(m).pc \in Fixing
  PROVE  /\ PassTruth(m) /\ bound /\ runtime \in Whole /\ runtime # "absent"
         /\ machine.status = "running" => runtime = "running"
BY DEF TruthInv, PassTruth, Whole

LEMMA InspectTruth ==
  ASSUME \A n, k \in Managers : n = k, IInv, LeaseInv, TruthInv, NEW m \in Managers, Inspect(m)
  PROVE  TruthInv'
<1>1. /\ TypeOK /\ View(m).pc = "inspect" /\ View(m).pc \in Fixing
      /\ UNCHANGED <<machine, operations, requests, handlers, runtime>>
  BY DEF IInv, Inspect, In, View, Fixing, database, NotMine
<1>2. bound' /\ UNCHANGED bound
  BY <1>1, FixingFacts DEF Inspect, IInv, TypeOK
<1>3. PICK pc \in {"sample", "record_ready", "create"} :
        /\ PassGoes(m, pc)
        /\ pc = IF runtime = "running"
                THEN IF View(m).status = "running" THEN "sample" ELSE "record_ready"
                ELSE "create"
  BY <1>1, MoveGoes DEF Inspect
<1>4. PassTruth(m)'
  BY <1>1, <1>2, <1>3, FixingFacts DEF PassTruth, PassGoes, View, In, Fixing, Unused, Whole
<1> QED
  BY <1>1, <1>2, <1>3, <1>4, FixingFacts, FixingStep DEF Fixing, PassGoes

LEMMA RepairTruth ==
  ASSUME \A n, k \in Managers : n = k, FaultKinds = {},
         IInv, LeaseInv, TruthInv, NEW m \in Managers,
         RepairCreate(m) \/ RepairLaunch(m) \/ RepairLaunchFails(m) \/ RepairBind(m)
  PROVE  TruthInv'
<1>1. /\ TypeOK /\ reconciler \in [Managers -> PassStates] /\ View(m).pc \in Fixing
      /\ View(m).pc \in {"create", "launch", "bind"} /\ machine.status = "stopping"
  BY FixingFacts DEF IInv, TypeOK, RepairCreate, RepairLaunch, RepairLaunchFails, RepairBind, In,
     View, Fixing, PassTruth
<1>2. CASE RepairCreate(m)
  <2>1. PICK b : b = (runtime = "absent")
    OBVIOUS
  <2>2. reconciler' = [reconciler EXCEPT ![m] = [reconciler[m] EXCEPT !.pc = "launch", !.made = b]]
    BY <1>1, <1>2, <2>1 DEF RepairCreate
  <2>3. PassGoes(m, "launch")
    BY <1>1, <2>2 DEF PassStates, PassGoes, PassWaits
  <2>4. UNCHANGED <<machine, operations, requests, handlers, bound, runtime>>
    BY <1>1, <1>2, FixingFacts DEF RepairCreate, SpawnCreate, database, NotMine
  <2>5. PassTruth(m)'
    BY <1>1, <2>3, <2>4, FixingFacts DEF PassTruth, PassGoes, View, In, Unused, Fixing
  <2> QED
    BY <1>1, <2>3, <2>4, <2>5, FixingFacts, FixingStep DEF Fixing, PassGoes
<1>3. CASE RepairLaunch(m)
  <2>1. /\ reconciler'[m].pc = "bind" /\ reconciler'[m].ids
        /\ reconciler'[m].gen = reconciler[m].gen /\ reconciler'[m].status = reconciler[m].status
        /\ UNCHANGED <<machine, operations, requests, handlers, bound>> /\ runtime' = "running"
    BY <1>1, <1>3 DEF RepairLaunch, PassStates, SpawnReady, database, NotMine
  <2>2. PassTruth(m)'
    BY <1>1, <2>1, FixingFacts DEF PassTruth, View, In, Unused, Fixing, Whole
  <2> QED
    BY <1>1, <2>1, <2>2, FixingFacts, FixingStep DEF Fixing, Whole
<1>4. CASE RepairLaunchFails(m)
  BY <1>1, <1>4, FixingFacts DEF RepairLaunchFails, Fault
<1>5. CASE RepairBind(m)
  <2>1. /\ PassGoes(m, "record")
        /\ UNCHANGED <<machine, operations, requests, handlers, runtime>> /\ bound' = View(m).ids
    BY <1>1, <1>5, MoveGoes DEF RepairBind, Fault, database
  <2>2. View(m).ids /\ runtime = "running"
    BY <1>1, <1>5, FixingFacts DEF PassTruth, RepairBind, In, View
  <2>3. PassTruth(m)'
    BY <1>1, <2>1, <2>2, FixingFacts DEF PassTruth, PassGoes, View, In, Unused, Fixing, Whole
  <2> QED
    BY <1>1, <2>1, <2>2, <2>3, FixingFacts, FixingStep DEF Fixing, PassGoes
<1> QED
  BY <1>2, <1>3, <1>4, <1>5

\* Listing alone, and leaving a machine alone, changes nothing.
LEMMA PassCalm ==
  ASSUME IInv, TruthInv, UNCHANGED <<machine, operations, docker, handlers, requests>>,
         \A n \in Managers : PassFair(n)
  PROVE  TruthInv'
<1>1. HandlersRest
  BY DEF HandlersRest, Waits
<1>2. \A c \in Clients : RequestFair(c)
  BY DEF RequestFair
<1> QED
  BY <1>1, <1>2, CalmTruth DEF IInv, RowSame

LEMMA RecordRecoveredTruth ==
  ASSUME \A n, k \in Managers : n = k,
         IInv, LeaseInv, TruthInv, NEW m \in Managers, RecordRecovered(m)
  PROVE  TruthInv'
<1>1. /\ TypeOK /\ View(m).pc \in {"record", "record_ready"} /\ View(m).pc \in Fixing
      /\ UNCHANGED <<operations, requests, handlers, docker>>
  BY DEF IInv, RecordRecovered, Fixing, NotMine, OtherRows
<1>2. /\ machine.present /\ machine.named /\ bound /\ runtime = "running"
      /\ \A w \in Workers : handlers[w].pc \notin InCall
  BY <1>1 DEF TruthInv, PassTruth
<1>3. CASE Unchanged(m)
  <2>1. PICK pc \in {"sample", "off"} : PassGoes(m, pc)
    BY <1>1, <1>3, MoveGoes DEF RecordRecovered
  <2>2. /\ machine'.status = "running" /\ machine'.named /\ machine'.present
        /\ machine'.desired = machine.desired /\ machine'.generation = machine.generation
    BY <1>1, <1>2, <1>3, StatusFacts DEF RecordRecovered
  <2>3. machine.desired = "running"
    BY <1>1, <1>3 DEF IInv, PassesSought, Wanting, Sought, Unchanged, Matches
  <2> USE DEF TruthInv, RowTruth
  <2>4. StatusSought' /\ FirstStart' /\ Started' /\ SpawnsOnce' /\ Held' /\ Gone' /\ Backed' /\ Dying'
    BY <1>1, <1>2, <2>2, <2>3 DEF StatusSought, FirstStart, Started, SpawnsOnce, Held, Gone, Backed,
       Dying, Evidence, Whole, docker
  <2>5. Removed'
    BY <1>1, <1>2, <2>2 DEF Removed, TornDown, At, InCall, CallPcs
  <2>6. Asking'
    BY <2>2, <2>3 DEF Asking
  <2>7. ASSUME NEW w \in Workers PROVE HandlerTruth(w)'
    <3>1. /\ handlers[w].pc \notin InCall
          /\ handlers[w].pc \notin SpawnPcs /\ handlers[w].pc \notin WorkPcs
          /\ handlers[w].pc \notin {"launch", "bind", "running", "revoke_only", "event", "complete"}
      BY <1>2 DEF InCall, CallPcs, DockerPcs, SpawnPcs, WorkPcs
    <3> QED
      BY <1>1, <2>2, <3>1 DEF HandlerTruth, HandlerAlive, At
  <2>8. ASSUME NEW n \in Managers PROVE PassTruth(n)'
    BY <1>1, <1>2, <2>1, <2>2 DEF PassTruth, PassGoes, View, In, Fixing, Unused, docker, Whole
  <2> QED
    BY <2>4, <2>5, <2>6, <2>7, <2>8
<1>4. CASE ~Unchanged(m)
  <2>1. PassGoes(m, "off") /\ UNCHANGED machine
    BY <1>1, <1>4, MoveGoes DEF RecordRecovered
  <2> QED
    BY <1>1, <1>2, <2>1, FixingStep DEF PassGoes, docker, Whole, Fixing
<1> QED
  BY <1>3, <1>4

LEMMA SampleTruth ==
  ASSUME \A n, k \in Managers : n = k,
         IInv, LeaseInv, TruthInv, NEW m \in Managers, Sample(m)
  PROVE  TruthInv'
<1>1. /\ TypeOK /\ In(m, "sample") /\ View(m).pc \in Fixing /\ PassGoes(m, "off")
      /\ UNCHANGED <<requests, handlers, docker>>
  BY MoveGoes DEF IInv, Sample, Fixing, NotMine, In, View
<1>2. \A n \in Managers : reconciler'[n].pc \in NeutralPcs
  BY <1>1 DEF PassGoes, NeutralPcs
<1>3. CASE UNCHANGED <<machine, operations>>
  BY <1>1, <1>2, <1>3, PassCalm DEF PassFair
<1>4. CASE Enqueue("stop", FALSE) /\ CanEnqueue("stop", View(m).gen + 1)
  <2>1. machine.named /\ machine.status = "running"
    BY <1>1 DEF TruthInv, PassTruth, In, View
  <2>2. Sought(machine, View(m).gen, "running")
    BY <1>1 DEF IInv, PassesSought, Wanting, In, View
  <2>3. machine.desired = "running"
    BY <1>1, <1>4, <2>2, RowFacts DEF Sought, CanEnqueue
  <2> QED
    BY <1>1, <1>2, <1>4, <2>1, <2>3, AskedTruth DEF CanEnqueue, Target, Actions
<1> QED
  BY <1>3, <1>4 DEF Sample, EnqueueAfter

LEMMA IdlePauseTruth ==
  ASSUME IInv, LeaseInv, TruthInv, NEW m \in Managers, IdlePause(m)
  PROVE  TruthInv'
<1>1. /\ TypeOK /\ In(m, "idle_pause") /\ PassGoes(m, "expired")
      /\ UNCHANGED <<requests, handlers, docker>>
  BY MoveGoes DEF IInv, IdlePause, NotMine
<1>2. \A n \in Managers : PassWaits(n) \/ reconciler'[n].pc \in NeutralPcs
  BY <1>1 DEF PassGoes, NeutralPcs, Phases
<1>3. CASE UNCHANGED <<machine, operations>>
  BY <1>1, <1>2, <1>3, PassCalm DEF PassFair
<1>4. CASE Enqueue("pause", FALSE) /\ CanEnqueue("pause", View(m).gen + 1)
  <2>1. machine.named
    BY <1>1 DEF TruthInv, RowTruth, FirstStart
  <2>2. Sought(machine, View(m).gen, "running")
    BY <1>1 DEF IInv, PassesSought, Wanting, In, View
  <2>3. View(m).gen = machine.generation /\ machine.desired = "running"
    BY <1>1, <1>4, <2>2, RowFacts DEF Sought, CanEnqueue
  <2>4. machine.status # "paused"
    BY <1>1, <2>3 DEF TruthInv, RowTruth, Asking
  <2> QED
    BY <1>1, <1>2, <1>4, <2>1, <2>3, <2>4, AskedTruth DEF CanEnqueue, Target, Actions
<1> QED
  BY <1>3, <1>4 DEF IdlePause, EnqueueAfter

LEMMA ExpireTeardownTruth ==
  ASSUME IInv, LeaseInv, TruthInv, NEW m \in Managers, ExpireTeardown(m)
  PROVE  TruthInv'
<1>1. /\ TypeOK /\ PassGoes(m, "pages") /\ UNCHANGED <<requests, handlers, docker>>
  BY MoveGoes DEF IInv, ExpireTeardown, NotMine
<1>2. \A n \in Managers : PassWaits(n) \/ reconciler'[n].pc \in NeutralPcs
  BY <1>1 DEF PassGoes, NeutralPcs, Phases
<1>3. CASE UNCHANGED <<machine, operations>>
  BY <1>1, <1>2, <1>3, PassCalm DEF PassFair
<1>4. CASE Enqueue("teardown", FALSE) /\ CanEnqueue("teardown", View(m).gen + 1)
  <2>1. machine.status = "destroyed" => machine.desired = "destroyed"
    BY DEF TruthInv, RowTruth, StatusSought
  <2> QED
    BY <1>1, <1>2, <1>4, <2>1, AskedTruth DEF CanEnqueue, Target, Actions
<1> QED
  BY <1>3, <1>4 DEF ExpireTeardown, EnqueueAfter

\* A pass reads the machine: what it will do with it is still right.
LEMMA ReadFacts ==
  ASSUME TypeOK, NEW m \in Managers, NEW pc, Read(m, pc)
  PROVE  /\ reconciler'[m].pc = pc /\ reconciler'[m].gen = machine.generation
         /\ reconciler'[m].status = machine.status /\ reconciler'[m].ids = bound
         /\ \A n \in Managers \ {m} : PassWaits(n)
BY DEF TypeOK, Read, Off, PassStates, PassWaits

LEMMA ListingTruth ==
  ASSUME IInv, LeaseInv, TruthInv, NEW m \in Managers, Tick(m) \/ ListIdle(m) \/ ListExpired(m)
  PROVE  TruthInv'
<1>1. TypeOK /\ UNCHANGED <<machine, operations, docker, handlers, requests>>
  BY DEF IInv, Tick, ListIdle, ListExpired, database, NotMine
<1>2. CASE \E pc \in NeutralPcs : Move(m, pc)
  BY <1>1, <1>2, MoveGoes, PassCalm DEF PassGoes, PassFair
<1>3. CASE IsIdle /\ Read(m, "idle_pause")
  <2>1. machine.named
    BY <1>3 DEF TruthInv, RowTruth, FirstStart, IsIdle
  <2> QED
    BY <1>1, <1>3, <2>1, ReadFacts, PassCalm DEF PassFair, IsIdle
<1>4. CASE IsExpired /\ Read(m, "expire")
  <2>1. machine.desired # "destroyed"
    BY <1>4 DEF TruthInv, RowTruth, Dying, TeardownDue, IsExpired, ActiveTeardown
  <2> QED
    BY <1>1, <1>4, <2>1, ReadFacts, PassCalm DEF PassFair
<1>5. Tick(m) => Move(m, "deletes")
  BY DEF Tick
<1>6. ListIdle(m) => Move(m, "expired") \/ (IsIdle /\ Read(m, "idle_pause"))
  BY DEF ListIdle
<1>7. ListExpired(m) => Move(m, "pages") \/ (IsExpired /\ Read(m, "expire"))
  BY DEF ListExpired
<1>8. {"deletes", "expired", "pages"} \subseteq NeutralPcs
  BY DEF NeutralPcs, Phases
<1> QED
  BY <1>2, <1>3, <1>4, <1>5, <1>6, <1>7, <1>8

LEMMA ExpireTruth ==
  ASSUME \A n, k \in Managers : n = k,
         IInv, LeaseInv, TruthInv, NEW m \in Managers, Expire(m)
  PROVE  TruthInv'
<1>1. /\ TypeOK /\ In(m, "expire") /\ PassGoes(m, "expire_teardown")
      /\ UNCHANGED <<operations, requests, handlers, docker>>
  BY MoveGoes DEF IInv, Expire, NotMine, OtherRows
<1>2. CASE ~machine.present
  BY <1>1, <1>2, PassCalm DEF PassGoes, PassFair, NeutralPcs, Expire
<1>3. CASE machine.present
  <2>1. /\ machine'.status = "expired" /\ machine'.present /\ machine'.named = machine.named
        /\ machine'.desired = machine.desired /\ machine'.generation = machine.generation
        /\ machine.desired \in Desired
    BY <1>1, <1>3, StatusFacts, RowFacts DEF Expire
  <2>2. machine'.status # machine'.desired
    BY <2>1 DEF Desired
  <2>3. \A n \in Managers : reconciler'[n].pc = "expire_teardown"
    BY <1>1 DEF PassGoes
  <2> USE DEF TruthInv, RowTruth
  <2>4. StatusSought' /\ Started' /\ SpawnsOnce' /\ Held' /\ Gone' /\ Backed'
    BY <1>1, <1>3, <2>1, <2>2 DEF StatusSought, Started, SpawnsOnce, Held, Gone, Backed, Alive, Active,
       Lagging, docker
  <2>5. FirstStart'
    BY <1>1, <1>3, <2>1, <2>3 DEF FirstStart, Alive, Active, In
  <2>6. Dying'
    <3>1. TeardownDue(InCall) => TeardownDue({"event", "complete"})'
      BY <1>1 DEF TeardownDue, Active, InCall, CallPcs
    <3> QED
      BY <1>1, <1>3, <2>1, <2>3, <3>1 DEF Dying, In
  <2>7. Removed'
    BY <1>1, <2>1 DEF Removed, TornDown, At, docker
  <2>8. Asking'
    <3>1. \A action : Target(action) # "expired" \/ action \notin Actions
      BY TargetDesired DEF Desired
    <3>2. \A c \in Clients : requests[c] # NoRequest => requests[c].action \in Actions
      BY <1>1 DEF TypeOK, RequestStates
    <3> QED
      BY <1>1, <2>1, <3>1, <3>2 DEF Asking
  <2>9. ASSUME NEW w \in Workers PROVE HandlerTruth(w)'
    <3>1. HandlerTruth(w)
      OBVIOUS
    <3>2. Alive => (Changing(w) => Changing(w)')
      BY <1>1, <2>1, <2>2 DEF Changing, At, docker
    <3>3. Alive => HandlerAlive(w)'
      BY <1>1, <2>1, <3>1, <3>2 DEF HandlerTruth, HandlerAlive, At, docker, Lagging
    <3> QED
      BY <1>1, <1>3, <2>1, <3>1, <3>3 DEF HandlerTruth, Alive, At
  <2>10. \A n \in Managers : PassTruth(n)'
    BY <2>3 DEF PassTruth, View, Fixing, Unused
  <2> QED
    BY <2>4, <2>5, <2>6, <2>7, <2>8, <2>9, <2>10
<1> QED
  BY <1>2, <1>3

\* A machine that is listed with no operation under way wants to run, and either
\* does or was caught stopping.
LEMMA ListRuntimeTruth ==
  ASSUME IInv, LeaseInv, TruthInv, NEW m \in Managers, ListRuntime(m)
  PROVE  TruthInv'
<1>1. TypeOK /\ UNCHANGED <<machine, operations, docker, handlers, requests>>
  BY DEF IInv, ListRuntime, database, NotMine
<1>2. CASE Move(m, "off")
  BY <1>1, <1>2, MoveGoes, PassCalm DEF PassGoes, PassFair, NeutralPcs
<1>3. CASE IsListed /\ Repair # "off" /\ Read(m, Repair)
  <2>1. \A g \in Generations : ~Active(g)
    BY <1>3 DEF IsListed, AnyActive
  <2>2. machine.present /\ machine.status # "expired" /\ machine.generation \in Generations
    BY <1>1, <1>3, RowFacts DEF IsListed
  <2>3. machine.desired = "destroyed" => machine.status = "destroyed"
    BY <2>1, <2>2 DEF TruthInv, RowTruth, Dying, TeardownDue
  <2>4. machine.desired # "running" => machine.status = machine.desired
    BY <2>1, <2>2, <2>3 DEF TruthInv, RowTruth, Backed, Alive, Lagging
  <2>5. Repair = "inspect" /\ machine.desired = "running"
    BY <1>3, <2>4 DEF Repair
  <2>6. Alive /\ machine.named
    BY <2>1, <2>2, <2>5 DEF Alive, TruthInv, RowTruth, FirstStart
  <2>7. /\ machine.status \in {"running", "stopping"}
        /\ machine.status = "running" => runtime = "running"
        /\ bound /\ runtime \in Whole
    BY <2>1, <2>2, <2>5, <2>6 DEF TruthInv, RowTruth, Backed, Started, Lagging, Evidence
  <2>8. \A w \in Workers : handlers[w].pc \notin InCall
    BY <2>1, CallFacts
  <2>9. /\ reconciler'[m].pc = "inspect" /\ reconciler'[m].status = machine.status
        /\ \A n \in Managers \ {m} : PassWaits(n)
    BY <1>1, <1>3, <2>5, ReadFacts
  <2>10. PassTruth(m)'
    BY <1>1, <2>2, <2>6, <2>7, <2>8, <2>9 DEF PassTruth, View, In, Fixing, Unused, docker
  <2> QED
    BY <1>1, <2>9, <2>10, PassCalm DEF PassFair
<1> QED
  BY <1>2, <1>3 DEF ListRuntime

-----------------------------------------------------------------------------
(* Deletes *)

LEMMA RequestDeleteCases ==
  ASSUME IInv, machine.present, RequestPermanentDelete
  PROVE  \/ RowSame /\ UNCHANGED operations
         \/ machine.generation < MaxGeneration /\ Enqueue("teardown", TRUE)
<1>1. TypeOK /\ machine \in MachineRows /\ machine.generation \in Nat /\ MaxGeneration \in Nat
  BY RowFacts, BoundsAssumption DEF IInv
<1>2. CASE ActiveTeardown
  <2>1. machine.desired = "destroyed"
    BY <1>2, TeardownSought DEF ActiveTeardown
  <2> QED
    BY <1>1, <1>2, <2>1 DEF RequestPermanentDelete, RowSame, MachineRows
<1>3. CASE ~ActiveTeardown /\ ((SafelyPurgeable /\ ~AnyActive) \/ machine.generation >= MaxGeneration)
  BY <1>1, <1>3 DEF RequestPermanentDelete, RowSame, MachineRows
<1>4. CASE /\ ~ActiveTeardown /\ ~(SafelyPurgeable /\ ~AnyActive)
           /\ ~(machine.generation >= MaxGeneration)
  <2>1. Enqueue("teardown", TRUE)
    BY <1>4 DEF RequestPermanentDelete
  <2>2. machine.generation < MaxGeneration
    BY <1>1, <1>4
  <2> QED
    BY <2>1, <2>2
<1> QED
  BY <1>2, <1>3, <1>4

LEMMA RequestDeleteTruth ==
  ASSUME IInv, LeaseInv, TruthInv, machine.present, RequestPermanentDelete,
         UNCHANGED <<docker, handlers, requests>>,
         \A n \in Managers : PassWaits(n) \/ reconciler'[n].pc \in NeutralPcs
  PROVE  TruthInv'
<1>1. TypeOK /\ HandlersRest /\ \A c \in Clients : RequestFair(c)
  BY DEF IInv, HandlersRest, Waits, RequestFair
<1>2. CASE RowSame /\ UNCHANGED operations
  BY <1>1, <1>2, CalmTruth DEF PassFair
<1>3. CASE machine.generation < MaxGeneration /\ Enqueue("teardown", TRUE)
  <2>1. machine.status = "destroyed" => machine.desired = "destroyed"
    BY DEF TruthInv, RowTruth, StatusSought
  <2> QED
    BY <1>3, <2>1, AskedTruth DEF Target, Actions
<1> QED
  BY <1>2, <1>3, RequestDeleteCases

LEMMA DeletesTruth ==
  ASSUME IInv, LeaseInv, TruthInv, NEW m \in Managers, Deletes(m)
  PROVE  TruthInv'
<1>1. /\ TypeOK /\ PassGoes(m, "idle") /\ UNCHANGED <<docker, handlers, requests>>
      /\ HandlersRest
  BY MoveGoes DEF IInv, Deletes, NotMine, HandlersRest, Waits
<1>2. \A n \in Managers : PassWaits(n) \/ reconciler'[n].pc \in NeutralPcs
  BY <1>1 DEF PassGoes, NeutralPcs, Phases
<1>3. CASE machine.present /\ SafelyPurgeable /\ ~AnyActive /\ Purge
  BY <1>1, <1>2, <1>3, PurgedTruth
<1>4. CASE machine.present /\ RequestPermanentDelete
  BY <1>1, <1>2, <1>4, RequestDeleteTruth
<1>5. CASE UNCHANGED <<machine, operations>>
  BY <1>1, <1>2, <1>5, PassCalm DEF PassFair
<1> QED
  BY <1>3, <1>4, <1>5 DEF Deletes

LEMMA PassStepTruth ==
  ASSUME \A n, k \in Managers : n = k, FaultKinds = {},
         IInv, LeaseInv, TruthInv, NEW m \in Managers, ReconcilerStep(m)
  PROVE  TruthInv'
<1>1. View(m).pc \notin Unused
  BY DEF TruthInv, PassTruth
<1>2. CASE DestroyRevoke(m) \/ DestroyTeardown(m) \/ RepairStop(m) \/ PauseRevoke(m)
           \/ RepairPause(m) \/ RecordRepair(m)
  BY <1>1, <1>2 DEF DestroyRevoke, DestroyTeardown, RepairStop, PauseRevoke, RepairPause,
     RecordRepair, RepairResult, In, View, Unused
<1>3. CASE Tick(m) \/ ListIdle(m) \/ ListExpired(m)
  BY <1>3, ListingTruth
<1>4. CASE Deletes(m) \/ IdlePause(m) \/ ExpireTeardown(m)
  BY <1>4, DeletesTruth, IdlePauseTruth, ExpireTeardownTruth
<1>5. CASE Expire(m) \/ ListRuntime(m) \/ Inspect(m)
  BY <1>5, ExpireTruth, ListRuntimeTruth, InspectTruth
<1>6. CASE RepairCreate(m) \/ RepairLaunch(m) \/ RepairLaunchFails(m) \/ RepairBind(m)
  BY <1>6, RepairTruth
<1>7. CASE RecordRecovered(m) \/ Sample(m)
  BY <1>7, RecordRecoveredTruth, SampleTruth
<1>8. ~PassFails(m)
  BY DEF PassFails, Fault
<1> QED
  BY <1>2, <1>3, <1>4, <1>5, <1>6, <1>7, <1>8 DEF ReconcilerStep

-----------------------------------------------------------------------------
(* The handlers, the lease query and the requests *)

LEMMA LastStepTruth ==
  ASSUME IInv, LeaseInv, TruthInv, NEW w \in Workers, PurgeAfterTeardown(w) \/ MarkFailed(w)
  PROVE  TruthInv'
<1>1. /\ TypeOK /\ handlers[w].pc \in {"purge", "markfailed"} /\ Done(w)
      /\ UNCHANGED <<docker, reconciler, requests>>
  BY DEF IInv, PurgeAfterTeardown, MarkFailed, At, OtherActors
<1>2. HandlersRest
  BY <1>1, DoneWaits DEF HandlersRest, OthersWait, Idle, InCall, CallPcs, DockerPcs
<1>3. \A n \in Managers : PassWaits(n)
  BY <1>1 DEF PassWaits
<1>4. CASE UNCHANGED <<machine, operations>>
  BY <1>1, <1>2, <1>3, <1>4, CalmTruth DEF RowSame, RequestFair, PassFair
<1>5. CASE machine.present /\ SafelyPurgeable /\ ~AnyActive /\ Purge
  BY <1>1, <1>2, <1>3, <1>5, PurgedTruth
<1>6. CASE MarkFailed(w)
  <2>1. ~Current(w)
    <3>1. /\ handlers[w].action \in Actions \ {"teardown"} /\ machine.desired = "destroyed"
          /\ Sought(machine, handlers[w].gen, Target(handlers[w].action))
      BY <1>1, <1>6 DEF TruthInv, HandlerTruth, MarkFailed, At, IInv, HandlersSought, TypeOK,
         HandlerStates
    <3> QED
      BY <3>1 DEF Sought, Target, Actions, Current, Matches
  <2> QED
    BY <1>4, <1>6, <2>1 DEF MarkFailed, OtherRows
<1> QED
  BY <1>4, <1>5, <1>6 DEF PurgeAfterTeardown

LEMMA HandlerStepTruth ==
  ASSUME FaultKinds = {}, IInv, LeaseInv, TruthInv, NEW w \in Workers, HandlerStep(w)
  PROVE  TruthInv'
<1>1. CASE Begin(w) \/ Announce(w) \/ CreateResources(w) \/ Launch(w) \/ LaunchFails(w)
  BY <1>1, BeginTruth, AnnounceTruth, CreateTruth, LaunchTruth, LaunchFailsTruth
<1>2. CASE Bind(w) \/ RecordRunning(w) \/ Compensate(w) \/ Revoke(w)
  BY <1>2, BindTruth, RecordRunningTruth, CompensateTruth, RevokeTruth
<1>3. CASE \/ StartContainers(w) \/ PauseContainers(w) \/ StopContainers(w)
           \/ TeardownContainers(w) \/ RecordResult(w) \/ CreateEvent(w)
  BY <1>3, ContainersTruth, TeardownTruth, RecordResultTruth, CreateEventTruth
<1>4. CASE CompleteOperation(w) \/ PurgeAfterTeardown(w) \/ FailOperation(w) \/ MarkFailed(w)
  BY <1>4, CompleteTruth, FailTruth, LastStepTruth
<1>5. ~CallFails(w) /\ ~FinalStatementFails(w)
  BY DEF CallFails, FinalStatementFails, Fault
<1>6. ~LeaseLost(w)
  BY CallFacts DEF LeaseLost, InCall
<1> QED
  BY <1>1, <1>2, <1>3, <1>4, <1>5, <1>6 DEF HandlerStep

LEMMA LeaseTruth ==
  ASSUME \A n, k \in Managers : n = k,
         IInv, LeaseInv, TruthInv, NEW w \in Workers, NEW g \in Generations, Lease(w, g)
  PROVE  TruthInv'
<1>1. /\ TypeOK /\ handlers[w].pc = "idle" /\ Active(g) /\ ~Leased(g)
      /\ UNCHANGED <<machine, docker, reconciler, requests>>
  BY DEF IInv, Lease, At, LeaseCandidate, Leasable, OtherActors
<1>2. operations[g].status = "pending"
  <2>1. ASSUME operations[g].status = "leased" PROVE FALSE
    <3>1. PICK v \in Workers : handlers[v].pc \in InCall /\ handlers[v].gen = g
      BY <2>1 DEF TruthInv, RowTruth, Held
    <3> QED
      BY <1>1, <2>1, <3>1 DEF LeaseInv, Serves, Leased
  <2> QED
    BY <1>1, <2>1 DEF Active
<1>3. /\ operations'[g].status = "leased" /\ operations'[g].action = operations[g].action
      /\ \A h \in Generations \ {g} : operations'[h] = operations[h]
  <2>1. PICK n : n = operations[g].attempts + 1
    OBVIOUS
  <2>2. operations' = [operations EXCEPT ![g] =
          [operations[g] EXCEPT !.status = "leased", !.owner = Owner(w), !.live = TRUE,
                                !.attempts = n]]
    BY <1>1, <2>1, RowFacts DEF Lease, LeaseTo
  <2> QED
    BY <1>1, <2>2, RowFacts DEF OperationRows
<1>4. /\ handlers'[w].pc = "begin" /\ handlers'[w].gen = g
      /\ handlers'[w].action = operations[g].action
      /\ \A v \in Workers \ {w} : handlers'[v] = handlers[v]
  BY <1>1, RowFacts DEF Lease, Idle
<1>5. \A h \in Generations : Active(h)' = Active(h)
  BY <1>1, <1>3 DEF Active
<1>6. \A n \in Managers : reconciler[n].pc = "off"
  BY DEF Lease, Owner, Workers
<1> USE DEF TruthInv, RowTruth
<1>7. StatusSought' /\ Started'
  BY <1>1 DEF StatusSought, Started, Alive, docker
<1>8. SpawnsOnce' /\ FirstStart' /\ Asking'
  <2>1. ASSUME NEW h \in Generations
        PROVE  /\ operations'[h].action = operations[h].action
               /\ operations'[h].status # "none" => operations[h].status # "none"
               /\ operations'[h].status = "pending" => operations[h].status = "pending"
    <3>1. CASE h = g
      BY <1>2, <1>3, <3>1
    <3>2. CASE h # g
      BY <1>3, <3>2
    <3> QED
      BY <3>1, <3>2
  <2>2. SpawnsOnce'
    BY <1>1, <2>1 DEF SpawnsOnce
  <2>3. FirstStart'
    <3>1. machine.generation = 1 => 1 \in Generations
      BY <1>1, RowFacts
    <3>2. machine.generation = 1 => Active(1)' = Active(1)
      BY <1>5, <3>1
    <3> QED
      BY <1>1, <2>1, <3>2 DEF FirstStart, Alive, In
  <2>4. Asking'
    BY <1>1 DEF Asking, In, View
  <2> QED
    BY <2>2, <2>3, <2>4
<1>9. Backed' /\ Gone'
  BY <1>1, <1>5, RowFacts DEF Backed, Alive, Lagging, Gone, AnyActive, docker
<1>10. Held'
  <2>1. ASSUME NEW h \in Generations, operations'[h].status = "leased"
        PROVE  \E v \in Workers : handlers'[v].pc \in InCall /\ handlers'[v].gen = h
    <3>1. CASE h = g
      BY <1>4, <3>1 DEF InCall, CallPcs
    <3>2. CASE h # g
      <4>1. PICK v \in Workers : handlers[v].pc \in InCall /\ handlers[v].gen = h
        BY <1>3, <2>1, <3>2 DEF Held
      <4>2. v # w
        BY <1>1, <4>1 DEF InCall, CallPcs, DockerPcs
      <4> QED
        BY <1>4, <4>1, <4>2
    <3> QED
      BY <3>1, <3>2
  <2> QED
    BY <2>1 DEF Held
<1>11. Dying'
  <2>1. TeardownDue({"event", "complete"}) => TeardownDue({"event", "complete"})'
    <3>1. \A h \in Generations : operations'[h].action = operations[h].action
      BY <1>3
    <3> QED
      BY <1>4, <1>5, <3>1 DEF TeardownDue
  <2> QED
    BY <1>1, <1>6, <2>1 DEF Dying, In
<1>12. Removed'
  <2>1. TornDown' => TornDown
    BY <1>1, <1>4 DEF TornDown, At
  <2>2. \A v \in Workers : handlers[v].pc \in LatePcs => handlers'[v].pc \in LatePcs
    BY <1>1, <1>4 DEF LatePcs
  <2> QED
    BY <1>1, <2>1, <2>2 DEF Removed, docker
<1>13. HandlerTruth(w)'
  <2>1. operations[g].action = "spawn" => ~machine.named
    BY <1>2 DEF SpawnsOnce
  <2> QED
    BY <1>1, <1>4, <2>1 DEF HandlerTruth, HandlerAlive, At, SpawnPcs, WorkPcs
<1>14. \A v \in Workers \ {w} : HandlerTruth(v)'
  BY <1>1, <1>4 DEF HandlerTruth, HandlerAlive, Changing, At, Alive, Lagging, docker
<1>15. \A n \in Managers : PassTruth(n)'
  BY <1>1, <1>6 DEF PassTruth, View, Fixing, Unused
<1> QED
  BY <1>7, <1>8, <1>9, <1>10, <1>11, <1>12, <1>13, <1>14, <1>15

LEMMA ValidateTruth ==
  ASSUME IInv, TruthInv, NEW c \in Clients, NEW action \in Actions \ {"spawn"}, Validate(c, action)
  PROVE  TruthInv'
<1>1. /\ TypeOK /\ HandlersRest /\ RowSame /\ UNCHANGED <<docker, operations>>
      /\ \A n \in Managers : PassFair(n)
  BY DEF IInv, Validate, database, HandlersRest, Waits, RowSame, PassFair, PassWaits
<1>2. /\ requests'[c].action = action /\ \A d \in Clients \ {c} : requests'[d] = requests[d]
  BY <1>1 DEF Validate, TypeOK
<1>3. ValidOperationForStatus(action, machine.status)
  BY DEF Validate
<1>4. machine.status # Target(action)
  BY <1>3 DEF ValidOperationForStatus, Target, Actions
<1>5. machine.named \/ action = "teardown"
  BY <1>3 DEF TruthInv, RowTruth, FirstStart, ValidOperationForStatus, Actions
<1>6. \A d \in Clients : RequestFair(d)
  BY <1>2, <1>4, <1>5 DEF RequestFair
<1> QED
  BY <1>1, <1>6, CalmTruth

LEMMA CommitTruth ==
  ASSUME IInv, LeaseInv, TruthInv, NEW c \in Clients, Commit(c)
  PROVE  TruthInv'
<1>1. /\ TypeOK /\ requests[c] # NoRequest /\ UNCHANGED <<docker, handlers, reconciler>>
      /\ CanEnqueue(requests[c].action, requests[c].gen)
      /\ Enqueue(requests[c].action, FALSE)
      /\ requests[c].action \in Actions \ {"spawn"} /\ requests[c].gen \in Nat
  BY DEF IInv, Commit, TypeOK, RequestStates
<1>2. requests[c].gen = machine.generation + 1
  BY <1>1, RowFacts DEF CanEnqueue, IInv, RequestsSought
<1>3. machine.desired = "destroyed" => requests[c].action = "teardown"
  BY <1>2 DEF IInv, RequestsSought
<1>4. machine.named \/ requests[c].action = "teardown"
  BY <1>1 DEF TruthInv, RowTruth, FirstStart
<1>5. machine.status = Target(requests[c].action) => machine.desired = Target(requests[c].action)
  BY <1>1, <1>2 DEF TruthInv, RowTruth, Asking
<1>6. /\ \A d \in Clients : requests'[d] = requests[d] \/ requests'[d] = NoRequest
      /\ \A n \in Managers : PassWaits(n)
  BY <1>1 DEF Commit, TypeOK, PassWaits
<1> QED
  BY <1>1, <1>3, <1>4, <1>5, <1>6, AskedTruth DEF CanEnqueue

LEMMA NextTruth ==
  ASSUME \A n, k \in Managers : n = k, FaultKinds = {}
  PROVE  IInv /\ LeaseInv /\ TruthInv /\ [Next]_vars => TruthInv'
<1> SUFFICES ASSUME IInv, LeaseInv, TruthInv, [Next]_vars PROVE TruthInv'
  OBVIOUS
<1>1. CASE \E w \in Workers, g \in Generations : Lease(w, g)
  BY <1>1, LeaseTruth
<1>2. ASSUME NEW g \in Generations, LeaseExpires(g) PROVE FALSE
  <2>1. PICK w \in Workers : handlers[w].pc \in InCall /\ handlers[w].gen = g
    BY <1>2 DEF TruthInv, RowTruth, Held, LeaseExpires, Leased
  <2> QED
    BY <1>2, <2>1, CallFacts DEF LeaseExpires, Running, InCall
<1>3. ASSUME NEW w \in Workers, Renew(w) PROVE FALSE
  BY <1>3 DEF Renew, InCall, LeaseInv, Serves
<1>4. CASE (\E g \in Generations : Stall(g)) \/ (\E m \in Managers : Crash(m)) \/ ContainersFail
  BY <1>4 DEF Stall, Crash, ContainersFail, Fault
<1>5. CASE \E w \in Workers : HandlerStep(w)
  BY <1>5, HandlerStepTruth
<1>6. CASE \E m \in Managers : ReconcilerStep(m)
  BY <1>6, PassStepTruth
<1>7. CASE \E c \in Clients, action \in Actions \ {"spawn"} : Validate(c, action)
  BY <1>7, ValidateTruth
<1>8. CASE \E c \in Clients : Commit(c)
  BY <1>8, CommitTruth
<1>9. ASSUME NEW c \in Clients, Refuse(c) PROVE TruthInv'
  <2>1. \A d \in Clients : RequestFair(d)
    BY <1>9 DEF Refuse, RequestFair, IInv, TypeOK
  <2>2. /\ TypeOK /\ HandlersRest /\ RowSame /\ UNCHANGED <<docker, operations>>
        /\ \A n \in Managers : PassFair(n)
    BY <1>9 DEF IInv, Refuse, database, HandlersRest, Waits, RowSame, PassFair, PassWaits
  <2> QED
    BY <2>1, <2>2, CalmTruth
<1>10. CASE Delete
  BY <1>10, RequestDeleteTruth DEF Delete, processes, PassWaits
<1>11. CASE BulkPurge
  <2>1. UNCHANGED <<docker, requests>> /\ HandlersRest /\ \A n \in Managers : PassWaits(n)
    BY <1>11 DEF BulkPurge, processes, HandlersRest, Waits, PassWaits
  <2> QED
    BY <1>11, <2>1, PurgedTruth DEF BulkPurge
<1>12. CASE StartRun \/ EndRun \/ GrantAccess \/ LifetimeEnds \/ UNCHANGED vars
  <2>1. UNCHANGED <<machine, operations, docker, handlers, reconciler, requests>>
    BY <1>12 DEF StartRun, EndRun, GrantAccess, LifetimeEnds, vars, database, processes, OtherRows
  <2> QED
    BY <2>1, PassCalm DEF PassFair, PassWaits
<1> QED
  BY <1>1, <1>2, <1>3, <1>4, <1>5, <1>6, <1>7, <1>8, <1>9, <1>10, <1>11, <1>12 DEF Next

LEMMA InitTruth == Init => TruthInv
<1> SUFFICES ASSUME Init PROVE TruthInv
  OBVIOUS
<1>1. 1 \in Generations
  BY BoundsAssumption DEF Generations
<1>2. /\ machine = [present |-> TRUE, status |-> "queued", desired |-> "running",
                    generation |-> 1, named |-> FALSE, deleteRequested |-> FALSE]
      /\ operations[1].status = "pending" /\ operations[1].action = "spawn"
      /\ \A g \in Generations : g # 1 => operations[g].status = "none"
      /\ runtime = "absent"
      /\ \A w \in Workers : handlers[w].pc = "idle"
      /\ \A m \in Managers : View(m).pc = "off"
      /\ \A c \in Clients : requests[c] = NoRequest
  BY <1>1 DEF Init, StoreInit, RuntimeInit, WorkerInit, ReconcilerInit, ServiceInit, Idle, Off,
     Pending, NoOperation, View
<1>3. RowTruth
  BY <1>1, <1>2 DEF RowTruth, StatusSought, FirstStart, Started, SpawnsOnce, Held, Backed, Dying,
     Removed, Gone, Asking, Alive, Active, In, View, NoRequest
<1>4. \A w \in Workers : HandlerTruth(w)
  BY <1>2 DEF HandlerTruth, HandlerAlive, At, SpawnPcs, WorkPcs, InCall, CallPcs, DockerPcs
<1>5. \A m \in Managers : PassTruth(m)
  BY <1>2 DEF PassTruth, Fixing, Unused
<1> QED
  BY <1>3, <1>4, <1>5 DEF TruthInv

-----------------------------------------------------------------------------

LEMMA TruthfulStatus == TypeOK /\ TruthInv => StatusIsTruthful
<1> SUFFICES ASSUME TypeOK, TruthInv, Quiescent, machine.present, machine.status \in DOMAIN Evidence
             PROVE  runtime \in Evidence[machine.status]
  BY DEF StatusIsTruthful
<1>1. CASE machine.desired = "destroyed"
  <2>1. machine.status = "destroyed"
    BY <1>1 DEF TruthInv, RowTruth, Dying, TeardownDue, Quiescent, AnyActive
  <2> QED
    BY <2>1 DEF TruthInv, RowTruth, Removed, TornDown, Quiescent, At, LatePcs, Evidence
<1>2. CASE machine.desired # "destroyed"
  <2>1. machine.status = machine.desired
    <3>1. ~Active(machine.generation)
      BY RowFacts DEF Quiescent, AnyActive
    <3>2. ~Lagging
      BY DEF Lagging, Evidence
    <3> QED
      BY <1>2, <3>1, <3>2 DEF TruthInv, RowTruth, Backed, Alive
  <2> QED
    BY <1>2, <2>1 DEF TruthInv, RowTruth, Backed, Alive
<1> QED
  BY <1>1, <1>2

LEMMA NothingLeft == TypeOK /\ TruthInv => NothingOutlivesTeardown
BY DEF TruthInv, RowTruth, Removed, TornDown, Quiescent, At, LatePcs, NothingOutlivesTeardown

\* Every step that deletes the row has found it safe to purge.
LEMMA PurgeSafe ==
  ASSUME IInv, [Next]_vars, machine.present, ~machine'.present
  PROVE  SafelyPurgeable /\ ~AnyActive
<1>1. machine \in MachineRows /\ Statement
  BY NextStatement DEF IInv, TypeOK
<1>2. ~Purges => machine'.present = machine.present
  <2>1. CASE Quiet \/ Works \/ Marks \/ Revokes \/ Grants
    BY <1>1, <2>1 DEF Quiet, Works, Marks, Revokes, Grants, MachineRows
  <2>2. CASE Writes
    BY <2>2, StatusFacts DEF Writes, IInv
  <2>3. CASE Asks
    BY <1>1, <2>3 DEF Asks, Enqueue, MachineRows
  <2> QED
    BY <1>1, <2>1, <2>2, <2>3 DEF Statement
<1> QED
  BY <1>1, <1>2 DEF Purges

\* With a single manager and no faults, a settled status is what Docker holds:
\* a running machine runs, a paused or stopped one does not, a destroyed one has
\* nothing left, however requests, passes, expiries and deletes interleave.
\* (With faults or two managers it does not hold: the runs show how.)
THEOREM TruthfulWithoutFaults ==
  ASSUME \A n, k \in Managers : n = k, FaultKinds = {}
  PROVE  Spec => []StatusIsTruthful
<1>1. Init => LeaseInv /\ TruthInv
  BY InitLeaseInv, InitTruth
<1>2. IInv /\ LeaseInv /\ TruthInv /\ [Next]_vars => LeaseInv' /\ TruthInv'
  BY NextLeaseInv, NextTruth
<1>3. IInv /\ TruthInv => StatusIsTruthful
  BY TruthfulStatus DEF IInv
<1> QED
  BY <1>1, <1>2, <1>3, InductiveInvariant, PTL DEF Spec

\* Nor is anything left in Docker of a machine that is destroyed or purged: what
\* a spawn had in its hands when the teardown came is torn down again.
THEOREM TeardownLeavesNothing ==
  ASSUME \A n, k \in Managers : n = k, FaultKinds = {}
  PROVE  Spec => []NothingOutlivesTeardown
<1>1. Init => LeaseInv /\ TruthInv
  BY InitLeaseInv, InitTruth
<1>2. IInv /\ LeaseInv /\ TruthInv /\ [Next]_vars => LeaseInv' /\ TruthInv'
  BY NextLeaseInv, NextTruth
<1>3. IInv /\ TruthInv => NothingOutlivesTeardown
  BY NothingLeft DEF IInv
<1> QED
  BY <1>1, <1>2, <1>3, InductiveInvariant, PTL DEF Spec

\* And no row is deleted while Docker still holds something for it.
THEOREM PurgeAfterDocker ==
  ASSUME \A n, k \in Managers : n = k, FaultKinds = {}
  PROVE  Spec => PurgeLeavesNothing
<1>1. Init => LeaseInv /\ TruthInv
  BY InitLeaseInv, InitTruth
<1>2. IInv /\ LeaseInv /\ TruthInv /\ [Next]_vars => LeaseInv' /\ TruthInv'
  BY NextLeaseInv, NextTruth
<1>3. IInv /\ LeaseInv /\ TruthInv /\ [Next]_vars
        => [machine.present /\ ~machine'.present => runtime = "absent"]_vars
  BY PurgeSafe, PurgedAbsent
<1> QED
  BY <1>1, <1>2, <1>3, InductiveInvariant, PTL DEF Spec, PurgeLeavesNothing
=============================================================================
