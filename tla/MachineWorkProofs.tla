-------------------------- MODULE MachineWorkProofs --------------------------
(****************************************************************************)
(* What holds around a machine whoever races for it: a run starts one       *)
(* container and keeps the status that ended it, a ticket opens one thing,  *)
(* sessions and terminals end with what they were opened on, environments   *)
(* in use are ready and deleted ones leave nothing, quotas are kept,        *)
(* prepared checkouts stay ready, an ended run leaves no container as long  *)
(* as no call fails, and everything keeps its type, operations their        *)
(* attempts included.                                                       *)
(****************************************************************************)
EXTENDS MachineWork, FiniteSetTheorems, TLAPS

RunStatuses == Ended \cup {"none", "queued", "running"}
AgentStates == [pc : Pcs, run : Runs, open : BOOLEAN,
                outcome : {"", "ok", "error", "timeout", "succeeded", "failed", "cancelled"}]

RunsTyped ==
  /\ run \in [Runs -> RunStatuses]
  /\ launches \in [Runs -> Nat]
  /\ agent \in AgentStates
  /\ pass \in Runs \cup {NoRun}

\* Only a run that has left the queue was launched, and the handler launches
\* one it has started itself.
RunsInv ==
  /\ RunsTyped
  /\ \A r \in Runs : launches[r] <= 1 /\ (run[r] \in {"none", "queued"} => launches[r] = 0)
  /\ AgentAt("launch") => launches[agent.run] = 0 /\ run[agent.run] \notin {"none", "queued"}
  /\ AgentAt("write") => agent.outcome \in Ended

LEMMA RunsInitInv == RunsInit => RunsInv
<1> SUFFICES ASSUME RunsInit PROVE RunsInv
  OBVIOUS
<1>1. (CHOOSE r \in Runs : TRUE) \in Runs
  BY RunsAssumption
<1>2. agent \in AgentStates /\ agent.pc = "idle"
  BY <1>1 DEF RunsInit, AgentStates, Pcs
<1>3. /\ run = [r \in Runs |-> "none"] /\ launches = [r \in Runs |-> 0] /\ pass = NoRun
  BY DEF RunsInit
<1> QED
  BY <1>2, <1>3 DEF RunsInv, RunsTyped, RunStatuses, AgentAt

\* How the row of a run may change in a step.
RunMoves ==
  /\ run' \in [Runs -> RunStatuses]
  /\ \A r \in Runs :
       /\ run[r] \in Ended => run'[r] = run[r]
       /\ run'[r] \in {"none", "queued"} => run[r] \in {"none", "queued"}

LEMMA RunStays == ASSUME RunsTyped, UNCHANGED run PROVE RunMoves
  BY DEF RunsTyped, RunMoves

LEMMA Completes ==
  ASSUME RunsTyped, NEW r \in Runs, NEW status \in Ended, CompleteAgentRun(r, status)
  PROVE  RunMoves
  BY DEF RunsTyped, RunMoves, CompleteAgentRun, RunStatuses, Ended

\* A step that launches nothing and leaves nobody about to.
LEMMA Quiet ==
  ASSUME RunsInv, RunMoves, UNCHANGED <<launches, pass>> \/ (UNCHANGED launches /\ pass' \in Runs \cup {NoRun}),
         agent' \in AgentStates,
         agent'.pc = "launch" => agent.pc = "launch" /\ agent'.run = agent.run,
         agent'.pc = "write" => agent'.outcome \in Ended
  PROVE  RunsInv'
<1>1. RunsTyped'
  BY DEF RunsInv, RunsTyped, RunMoves
<1>2. \A r \in Runs : run'[r] \in {"none", "queued"} => launches'[r] = 0
  BY DEF RunsInv, RunsTyped, RunMoves
<1>3. agent'.pc = "launch" => launches'[agent'.run] = 0 /\ run'[agent'.run] \notin {"none", "queued"}
  BY DEF RunsInv, RunsTyped, RunMoves, AgentAt, AgentStates
<1> QED
  BY <1>1, <1>2, <1>3 DEF RunsInv, RunsTyped, AgentAt

\* The steps of the handler up to the launch.
LEMMA HandlerBegins ==
  ASSUME RunsInv, \/ \E r \in Runs : LeaseRun(r)
                  \/ ReadRun \/ StartRun \/ RunAgent
  PROVE  RunsInv' /\ RunMoves
<1>0. RunsTyped /\ agent \in AgentStates /\ agent.run \in Runs
  BY DEF RunsInv, RunsTyped, AgentStates
<1>1. CASE \E r \in Runs : LeaseRun(r)
  <2>1. RunMoves /\ UNCHANGED <<launches, pass>>
    BY <1>0, <1>1, RunStays DEF LeaseRun
  <2>2. agent' \in AgentStates /\ agent'.pc = "read"
    <3>1. PICK r \in Runs : agent' = [pc |-> "read", run |-> r, open |-> TRUE, outcome |-> ""]
      BY <1>1 DEF LeaseRun
    <3> QED
      BY <3>1 DEF AgentStates, Pcs
  <2> QED
    BY <2>1, <2>2, Quiet
<1>2. CASE ReadRun
  <2>1. RunMoves /\ UNCHANGED <<launches, pass>>
    BY <1>0, <1>2, RunStays, Completes DEF ReadRun, Ended
  <2>2. agent' \in AgentStates /\ agent'.pc \in {"done", "start"}
    BY <1>0, <1>2 DEF ReadRun, AgentMoves, AgentStates, Pcs
  <2> QED
    BY <2>1, <2>2, Quiet
<1>3. CASE StartRun
  <2>1. CASE Startable(agent.run)
    <3>1. run' = [run EXCEPT ![agent.run] = "running"] /\ run[agent.run] = "queued"
          /\ agent' = [agent EXCEPT !.pc = "launch"] /\ UNCHANGED <<launches, pass>>
      BY <1>3, <2>1 DEF StartRun, Startable, AgentMoves
    <3>2. RunMoves
      BY <1>0, <3>1 DEF RunsTyped, RunMoves, RunStatuses, Ended
    <3>3. agent' \in AgentStates /\ agent'.run = agent.run /\ agent'.pc = "launch"
      BY <1>0, <3>1 DEF AgentStates, Pcs
    <3>4. run'[agent.run] = "running" /\ launches[agent.run] = 0
      BY <1>0, <3>1 DEF RunsInv, RunsTyped
    <3>5. RunsTyped'
      BY <1>0, <3>1, <3>2, <3>3 DEF RunsTyped, RunMoves
    <3>6. \A r \in Runs : launches'[r] <= 1 /\ (run'[r] \in {"none", "queued"} => launches'[r] = 0)
      BY <3>1, <3>2 DEF RunsInv, RunMoves
    <3> QED
      BY <3>1, <3>2, <3>3, <3>4, <3>5, <3>6 DEF RunsInv, AgentAt
  <2>2. CASE ~Startable(agent.run)
    <3>1. RunMoves /\ UNCHANGED <<launches, pass>>
      BY <1>0, <1>3, <2>2, RunStays DEF StartRun
    <3>2. agent' \in AgentStates /\ agent'.pc \in {"done", "fail"}
      BY <1>0, <1>3, <2>2 DEF StartRun, AgentMoves, AgentStates, Pcs
    <3> QED
      BY <3>1, <3>2, Quiet
  <2> QED
    BY <2>1, <2>2
<1>4. CASE RunAgent
  <2>1. RunMoves /\ UNCHANGED <<run, pass>>
    BY <1>0, <1>4, RunStays DEF RunAgent
  <2>2. agent' \in AgentStates /\ agent'.pc \in {"done", "wait"}
    BY <1>0, <1>4 DEF RunAgent, AgentMoves, AgentStates, Pcs
  <2>3. launches' = [launches EXCEPT ![agent.run] = 1] /\ run[agent.run] \notin {"none", "queued"}
    <3>1. AgentAt("launch") /\ launches' = [launches EXCEPT ![agent.run] = launches[agent.run] + 1]
      BY <1>4 DEF RunAgent
    <3>2. run[agent.run] \notin {"none", "queued"} /\ launches[agent.run] = 0
      BY <3>1 DEF RunsInv, AgentAt
    <3>3. launches[agent.run] + 1 = 1
      BY <3>2
    <3> QED
      BY <3>1, <3>2, <3>3
  <2>4. RunsTyped'
    BY <1>0, <2>1, <2>2, <2>3 DEF RunsTyped
  <2>5. \A r \in Runs : launches'[r] <= 1 /\ (run'[r] \in {"none", "queued"} => launches'[r] = 0)
    BY <1>0, <2>1, <2>3 DEF RunsInv, RunsTyped
  <2> QED
    BY <2>1, <2>2, <2>4, <2>5 DEF RunsInv, AgentAt
<1> QED
  BY <1>1, <1>2, <1>3, <1>4

\* Its steps from the launch on, and what befalls it.
LEMMA HandlerEnds ==
  ASSUME RunsInv, \/ RunAgentFails \/ (\E o \in {"ok", "error"} : WaitEnds(o)) \/ WaitFails
                  \/ DeadlinePasses \/ ContextEnds \/ AgentCallFails
                  \/ CompleteRunOp \/ FailRunOp \/ ManagerCrashes \/ JudgeRun
  PROVE  RunsInv' /\ RunMoves
<1>0. RunsTyped /\ agent \in AgentStates
  BY DEF RunsInv, RunsTyped
<1>1. RunMoves /\ UNCHANGED <<launches, pass>>
  <2>1. UNCHANGED <<run, launches, pass>>
    BY DEF RunAgentFails, WaitEnds, WaitFails, DeadlinePasses, ContextEnds, AgentCallFails,
           CompleteRunOp, FailRunOp, ManagerCrashes, JudgeRun
  <2> QED
    BY <1>0, <2>1, RunStays
<1>2. agent' \in AgentStates /\ agent'.pc # "launch" /\ (agent'.pc = "write" => agent'.outcome \in Ended)
  <2> USE <1>0 DEF AgentMoves, AgentStates, Pcs, Ended
  <2>1. CASE RunAgentFails \/ (\E o \in {"ok", "error"} : WaitEnds(o)) \/ WaitFails \/ DeadlinePasses
    BY <2>1 DEF RunAgentFails, WaitEnds, WaitFails, DeadlinePasses
  <2>2. CASE ContextEnds \/ AgentCallFails \/ CompleteRunOp \/ ManagerCrashes
    BY <2>2 DEF ContextEnds, AgentCallFails, CompleteRunOp, ManagerCrashes
  <2>3. CASE FailRunOp
    BY <2>3 DEF FailRunOp
  <2>4. CASE JudgeRun
    BY <2>4 DEF JudgeRun
  <2> QED
    BY <2>1, <2>2, <2>3, <2>4
<1> QED
  BY <1>1, <1>2, Quiet

\* The statements that end a run.
LEMMA RunIsEnded ==
  ASSUME RunsInv, WriteRun \/ FailAgentRun \/ TimeoutRecords \/ TeardownSignals
  PROVE  RunsInv' /\ RunMoves
<1>0. RunsTyped /\ agent \in AgentStates /\ agent.run \in Runs
  BY DEF RunsInv, RunsTyped, AgentStates
<1>1. RunMoves
  <2>1. CASE WriteRun
    BY <1>0, <2>1, Completes DEF WriteRun, RunsInv
  <2>2. CASE FailAgentRun \/ TeardownSignals
    BY <1>0, <2>2, Completes DEF FailAgentRun, TeardownSignals, Ended
  <2>3. CASE TimeoutRecords
    BY <1>0, <2>3, Completes DEF TimeoutRecords, RunsTyped, Ended
  <2> QED
    BY <2>1, <2>2, <2>3
<1>2. UNCHANGED launches /\ pass' \in Runs \cup {NoRun}
  BY <1>0 DEF RunsTyped, WriteRun, FailAgentRun, TimeoutRecords, TeardownSignals
<1>3. /\ agent' \in AgentStates /\ agent'.run = agent.run /\ agent'.outcome = agent.outcome
      /\ agent'.pc \in {agent.pc, "done", "idle"}
  BY <1>0 DEF AgentMoves, AgentStates, Pcs, WriteRun, FailAgentRun, TimeoutRecords, TeardownSignals
<1> QED
  BY <1>1, <1>2, <1>3, Quiet DEF RunsInv, AgentAt

\* Users, the cancel_agent handler, the timeout pass and time.
LEMMA OthersMove ==
  ASSUME RunsInv, NEW r \in Runs,
         \/ CreateAgentRun(r) \/ CancelAgentRun(r)
         \/ (\E same \in SameProcess : LeaseCancel(r, same))
         \/ RemoveCancelled(r) \/ CompleteCancel(r) \/ CancelFails(r)
         \/ TimeoutRemoves(r) \/ RuntimePasses(r) \/ AgentExits(r)
  PROVE  RunsInv' /\ RunMoves
<1>0. RunsTyped /\ agent \in AgentStates
  BY DEF RunsInv, RunsTyped
<1>1. RunMoves
  <2>1. CASE CreateAgentRun(r)
    BY <1>0, <2>1 DEF CreateAgentRun, RunsTyped, RunMoves, RunStatuses, Ended
  <2>2. CASE CancelAgentRun(r)
    BY <1>0, <2>2 DEF CancelAgentRun, RunsTyped, RunMoves, RunStatuses, Ended
  <2>3. CASE UNCHANGED run
    BY <1>0, <2>3, RunStays
  <2> QED
    BY <2>1, <2>2, <2>3 DEF LeaseCancel, RemoveCancelled, CompleteCancel, CancelFails, TimeoutRemoves,
                            RuntimePasses, AgentExits
<1>2. UNCHANGED launches /\ pass' \in Runs \cup {NoRun}
  BY <1>0 DEF RunsTyped, CreateAgentRun, CancelAgentRun, LeaseCancel, RemoveCancelled, CompleteCancel, CancelFails,
              TimeoutRemoves, RuntimePasses, AgentExits
<1>3. agent' \in {agent, [agent EXCEPT !.open = FALSE]}
  BY DEF CreateAgentRun, CancelAgentRun, LeaseCancel, SignalRun, RemoveCancelled, CompleteCancel, CancelFails,
         TimeoutRemoves, RuntimePasses, AgentExits
<1>4. agent' \in AgentStates /\ agent'.run = agent.run /\ agent'.outcome = agent.outcome /\ agent'.pc = agent.pc
  BY <1>0, <1>3 DEF AgentStates
<1> QED
  BY <1>1, <1>2, <1>4, Quiet DEF RunsInv, AgentAt

LEMMA RunsStep == RunsInv /\ RunsNext => RunsInv' /\ RunMoves
  BY HandlerBegins, HandlerEnds, RunIsEnded, OthersMove DEF RunsNext, RunHandlerStep

\* Where the rest of the machine moves, containers may go and nothing else does.
LEMMA WorkStep == RunsInv /\ [WorkNext]_workVars => RunsInv' /\ RunMoves
<1> SUFFICES ASSUME RunsInv, [WorkNext]_workVars PROVE RunsInv' /\ RunMoves
  OBVIOUS
<1>1. CASE RunsNext
  BY <1>1, RunsStep
<1>2. CASE UNCHANGED <<run, launches, agent, pass>>
  BY <1>2, RunStays DEF RunsInv, RunsTyped, AgentAt
<1>3. RunsNext \/ UNCHANGED <<run, launches, agent, pass>>
  BY DEF WorkNext, MachineMoves, RunsFollow, runs, workVars
<1> QED
  BY <1>1, <1>2, <1>3

LEMMA RunsInvariant == WorkSpec => []RunsInv
<1>1. WorkInit => RunsInv
  BY RunsInitInv DEF WorkInit
<1>2. RunsInv /\ [WorkNext]_workVars => RunsInv'
  BY WorkStep
<1> QED
  BY <1>1, <1>2, PTL DEF WorkSpec

\* A run starts at most one container, however often its operation is retried
\* or taken over after a crash (UpdateAgentRunStarted, CreateAgentRun).
THEOREM RunStartsOnce == WorkSpec => []StartsOnce
<1>1. RunsInv => StartsOnce
  BY DEF RunsInv, StartsOnce
<1> QED
  BY <1>1, RunsInvariant, PTL

\* What ended a run first stays its status, whoever writes next: a user, the
\* handler, the timeout pass or a teardown (CompleteAgentRun, CancelAgentRun).
THEOREM EndedRunKept == WorkSpec => EndedRunKeepsItsStatus
<1>1. RunsInv /\ [WorkNext]_workVars => [\A r \in Runs : run[r] \in Ended => run'[r] = run[r]]_runs
  BY WorkStep DEF RunMoves
<1> QED
  BY <1>1, RunsInvariant, PTL DEF WorkSpec, EndedRunKeepsItsStatus

-----------------------------------------------------------------------------
(* Tickets *)

GatewayPcs == {"idle", "issue", "consumed", "insert", "connect"}

TicketsTyped ==
  /\ ticket \in [Tickets -> [status : {"none", "active", "used", "revoked"}, epoch : Nat]]
  /\ session \in [Tickets -> [status : {"none", "active", "revoked"}, epoch : Nat]]
  /\ gateway \in [Gateways -> [pc : GatewayPcs, ticket : Tickets, epoch : Nat]]
  /\ epoch \in Nat

\* A request that has consumed a ticket and not yet opened what it is for.
Opening(g) == gateway[g].pc \in {"consumed", "insert", "connect"}
Unspent(t) == ticket[t].status \in {"none", "active"}

\* A ticket is issued once, before it can be consumed; it stays spent once it
\* was, and there is one request at most that holds what it was spent for.
TicketsInv ==
  /\ TicketsTyped
  /\ \A g \in Gateways : Opening(g) => ~Unspent(gateway[g].ticket) /\ session[gateway[g].ticket].status = "none"
  /\ \A t \in Tickets : session[t].status # "none" => ~Unspent(t)
  /\ \A g \in Gateways : gateway[g].pc = "issue" => ticket[gateway[g].ticket].status = "none"
  /\ \A g, h \in Gateways : gateway[g].ticket = gateway[h].ticket =>
       \/ g = h
       \/ /\ ~(Opening(g) /\ Opening(h))
          /\ ~(gateway[g].pc = "issue" /\ gateway[h].pc = "issue")

LEMMA TicketsInitInv == AccessInit => TicketsInv
<1> SUFFICES ASSUME AccessInit PROVE TicketsInv
  OBVIOUS
<1>1. (CHOOSE t \in Tickets : TRUE) \in Tickets
  BY AccessAssumption
<1>2. gateway \in [Gateways -> [pc : {"idle"}, ticket : Tickets, epoch : {0}]]
  BY <1>1 DEF AccessInit
<1>3. ticket = [t \in Tickets |-> Row("none")] /\ session = [t \in Tickets |-> Row("none")] /\ epoch = 0
  BY DEF AccessInit
<1>4. TicketsTyped
  BY <1>2, <1>3 DEF TicketsTyped, GatewayPcs, Row
<1>5. \A g \in Gateways : gateway[g].pc = "idle"
  BY <1>2
<1>6. \A t \in Tickets : session[t].status = "none"
  BY <1>3 DEF Row
<1> QED
  BY <1>4, <1>5, <1>6 DEF TicketsInv, Opening

\* Revocations, closes and the machine only take tickets away.
LEMMA TicketsGo ==
  ASSUME TicketsInv, TicketsTyped', UNCHANGED gateway,
         \A t \in Tickets : ticket'[t].status # ticket[t].status => ticket[t].status # "none" /\ ticket'[t].status = "revoked",
         \A t \in Tickets : session'[t].status = "none" <=> session[t].status = "none"
  PROVE  TicketsInv'
<1>1. \A g \in Gateways : gateway[g].ticket \in Tickets
  BY DEF TicketsInv, TicketsTyped
<1>2. \A t \in Tickets : ~Unspent(t) => ~Unspent(t)'
  BY DEF Unspent
<1> QED
  BY <1>1, <1>2 DEF TicketsInv, Opening

\* A request that ends holds nothing any more.
LEMMA GatewayReturns ==
  ASSUME TicketsInv, NEW g \in Gateways, Return(g), UNCHANGED <<ticket, session, epoch>>
  PROVE  TicketsInv'
<1>1. /\ TicketsTyped' /\ gateway'[g].pc = "idle" /\ gateway'[g].ticket = gateway[g].ticket
      /\ \A h \in Gateways \ {g} : gateway'[h] = gateway[h]
  BY DEF TicketsInv, TicketsTyped, Return, GatewayPcs
<1> QED
  BY <1>1 DEF TicketsInv, Opening, Unspent

LEMMA TicketsRevoke ==
  ASSUME TicketsInv, NEW S, NEW from \in {{"active"}, {"active", "used"}}, RevokeTickets(S, from)
  PROVE  /\ ticket' \in [Tickets -> [status : {"none", "active", "used", "revoked"}, epoch : Nat]]
         /\ \A t \in Tickets : ticket'[t].status # ticket[t].status => ticket[t].status # "none" /\ ticket'[t].status = "revoked"
<1>1. ticket \in [Tickets -> [status : {"none", "active", "used", "revoked"}, epoch : Nat]]
  BY DEF TicketsInv, TicketsTyped
<1>2. "none" \notin from
  OBVIOUS
<1> QED
  BY <1>1, <1>2 DEF RevokeTickets

LEMMA TicketsStep ==
  ASSUME TicketsInv, AccessNext
  PROVE  TicketsInv'
<1>0. TicketsTyped
  BY DEF TicketsInv
<1>1. ASSUME NEW g \in Gateways, NEW t \in Tickets, IssueTicket(g, t)
      PROVE  TicketsInv'
  <2>1. ticket[t].status = "none" /\ UNCHANGED <<ticket, session, epoch>>
    BY <1>1 DEF IssueTicket
  <2>2. gateway' = [gateway EXCEPT ![g] = [pc |-> "issue", ticket |-> t, epoch |-> epoch]]
    BY <1>1 DEF IssueTicket, Become
  <2>3. \A h \in Gateways : gateway[h].pc = "issue" => gateway[h].ticket # t
    BY <1>1 DEF IssueTicket, At
  <2>4. /\ gateway'[g] = [pc |-> "issue", ticket |-> t, epoch |-> epoch]
        /\ \A h \in Gateways \ {g} : gateway'[h] = gateway[h]
    BY <1>0, <2>2 DEF TicketsTyped
  <2>5. TicketsTyped'
    BY <1>0, <2>1, <2>2 DEF TicketsTyped, GatewayPcs
  <2> QED
    BY <2>1, <2>3, <2>4, <2>5 DEF TicketsInv, Opening, Unspent
<1>2. ASSUME NEW g \in Gateways, NEW t \in Tickets, Consume(g, t)
      PROVE  TicketsInv'
  <2>1. ticket[t].status = "active" /\ UNCHANGED <<session, epoch>>
    BY <1>2 DEF Consume, Consumable
  <2>2. PICK pc \in {"connect", "consumed"} : gateway' = [gateway EXCEPT ![g] = [pc |-> pc, ticket |-> t, epoch |-> epoch]]
    BY <1>2 DEF Consume, Become
  <2>3. ticket' = [ticket EXCEPT ![t].status = "used"]
    BY <1>2 DEF Consume
  <2>4. /\ gateway'[g] = [pc |-> pc, ticket |-> t, epoch |-> epoch]
        /\ \A h \in Gateways \ {g} : gateway'[h] = gateway[h]
    BY <1>0, <2>2 DEF TicketsTyped
  <2>5. /\ ticket' \in [Tickets -> [status : {"none", "active", "used", "revoked"}, epoch : Nat]]
        /\ ticket'[t].status = "used" /\ \A u \in Tickets \ {t} : ticket'[u] = ticket[u]
    BY <1>0, <2>3 DEF TicketsTyped
  <2>6. TicketsTyped'
    BY <1>0, <2>1, <2>2, <2>5 DEF TicketsTyped, GatewayPcs
  <2>7. \A h \in Gateways : gateway[h].ticket \in Tickets
    BY <1>0 DEF TicketsTyped
  <2>8. session[t].status = "none" /\ \A h \in Gateways : gateway[h].ticket = t => ~Opening(h) /\ gateway[h].pc # "issue"
    BY <2>1, <2>7 DEF TicketsInv, Unspent
  <2> QED
    BY <2>1, <2>4, <2>5, <2>6, <2>7, <2>8 DEF TicketsInv, Opening, Unspent
<1>3. ASSUME NEW g \in Gateways, TicketCommits(g)
      PROVE  TicketsInv'
  <2> DEFINE t == gateway[g].ticket
  <2>1. gateway[g].pc = "issue" /\ UNCHANGED <<session, epoch>>
    BY <1>3 DEF TicketCommits, At
  <2>2. gateway' = [gateway EXCEPT ![g].pc = "idle"]
    BY <1>3 DEF TicketCommits, Return
  <2>3. ticket' = [ticket EXCEPT ![t] = [status |-> "active", epoch |-> gateway[g].epoch]]
    BY <1>3 DEF TicketCommits
  <2>4. /\ gateway' \in [Gateways -> [pc : GatewayPcs, ticket : Tickets, epoch : Nat]]
        /\ gateway'[g].pc = "idle" /\ \A h \in Gateways \ {g} : gateway'[h] = gateway[h]
    BY <1>0, <2>2 DEF TicketsTyped, GatewayPcs
  <2>5. /\ ticket' \in [Tickets -> [status : {"none", "active", "used", "revoked"}, epoch : Nat]]
        /\ \A u \in Tickets \ {t} : ticket'[u] = ticket[u]
    BY <1>0, <2>3 DEF TicketsTyped
  <2>6. TicketsTyped'
    BY <1>0, <2>1, <2>4, <2>5 DEF TicketsTyped
  <2>7. t \in Tickets /\ \A h \in Gateways : gateway[h].ticket \in Tickets
    BY <1>0 DEF TicketsTyped
  <2>8. ticket[t].status = "none"
    BY <2>1 DEF TicketsInv
  <2>9. /\ session[t].status = "none"
        /\ \A h \in Gateways \ {g} : gateway[h].ticket = t => ~Opening(h) /\ gateway[h].pc # "issue"
    BY <2>1, <2>7, <2>8 DEF TicketsInv, Unspent
  <2>10. \A h \in Gateways : Opening(h)' => h # g /\ Opening(h) /\ gateway[h].ticket # t
    BY <2>4, <2>9 DEF Opening
  <2>11. \A u \in Tickets : u # t => (Unspent(u)' <=> Unspent(u))
    BY <2>5 DEF Unspent
  <2>12. \A h \in Gateways : Opening(h)' => (~Unspent(gateway[h].ticket) /\ session[gateway[h].ticket].status = "none")'
    <3> SUFFICES ASSUME NEW h \in Gateways, Opening(h)'
                 PROVE  (~Unspent(gateway[h].ticket) /\ session[gateway[h].ticket].status = "none")'
      OBVIOUS
    <3>1. gateway'[h] = gateway[h] /\ Opening(h) /\ gateway[h].ticket \in Tickets \ {t}
      BY <2>4, <2>7, <2>10
    <3> QED
      BY <2>1, <2>11, <3>1 DEF TicketsInv, Unspent
  <2>13. \A u \in Tickets : session'[u].status # "none" => ~Unspent(u)'
    BY <2>1, <2>9, <2>11 DEF TicketsInv
  <2>14. \A h \in Gateways : gateway'[h].pc = "issue" => ticket'[gateway'[h].ticket].status = "none"
    BY <2>4, <2>5, <2>7, <2>9 DEF TicketsInv
  <2>15. \A h \in Gateways : Opening(h)' => Opening(h)
    BY <2>10
  <2>16. \A h, k \in Gateways : gateway'[h].ticket = gateway'[k].ticket =>
           \/ h = k
           \/ ~(Opening(h)' /\ Opening(k)') /\ ~(gateway'[h].pc = "issue" /\ gateway'[k].pc = "issue")
    <3> TAKE h, k \in Gateways
    <3>1. CASE h = g \/ k = g
      BY <2>4, <2>10, <3>1
    <3>2. CASE h # g /\ k # g
      BY <2>4, <2>15, <3>2 DEF TicketsInv
    <3> QED
      BY <3>1, <3>2
  <2> HIDE DEF t
  <2> QED
    BY <2>6, <2>12, <2>13, <2>14, <2>16 DEF TicketsInv
<1>4. ASSUME NEW g \in Gateways, SelectSession(g)
      PROVE  TicketsInv'
  <2>1. gateway[g].pc = "consumed" /\ UNCHANGED <<ticket, session, epoch>>
    BY <1>4 DEF SelectSession, At
  <2>2. CASE Return(g)
    BY <2>1, <2>2, GatewayReturns
  <2>3. CASE Become(g, "insert", gateway[g].ticket)
    <3>1. /\ TicketsTyped' /\ gateway'[g].pc = "insert" /\ gateway'[g].ticket = gateway[g].ticket
          /\ \A h \in Gateways \ {g} : gateway'[h] = gateway[h]
      BY <1>0, <2>1, <2>3 DEF TicketsTyped, Become, GatewayPcs
    <3> QED
      BY <2>1, <3>1 DEF TicketsInv, Opening, Unspent
  <2> QED
    BY <1>4, <2>2, <2>3 DEF SelectSession
<1>5. ASSUME NEW g \in Gateways, SessionCommits(g)
      PROVE  TicketsInv'
  <2> DEFINE t == gateway[g].ticket
  <2>1. gateway[g].pc = "insert" /\ UNCHANGED <<ticket, epoch>>
    BY <1>5 DEF SessionCommits, At
  <2>2. gateway' = [gateway EXCEPT ![g].pc = "idle"]
    BY <1>5 DEF SessionCommits, Return
  <2>3. session' = [session EXCEPT ![t] = [status |-> "active", epoch |-> gateway[g].epoch]]
    BY <1>5 DEF SessionCommits
  <2>4. /\ gateway' \in [Gateways -> [pc : GatewayPcs, ticket : Tickets, epoch : Nat]]
        /\ gateway'[g].pc = "idle" /\ \A h \in Gateways \ {g} : gateway'[h] = gateway[h]
    BY <1>0, <2>2 DEF TicketsTyped, GatewayPcs
  <2>5. /\ session' \in [Tickets -> [status : {"none", "active", "revoked"}, epoch : Nat]]
        /\ \A u \in Tickets \ {t} : session'[u] = session[u]
    BY <1>0, <2>3 DEF TicketsTyped
  <2>6. TicketsTyped'
    BY <1>0, <2>1, <2>4, <2>5 DEF TicketsTyped
  <2>7. t \in Tickets /\ \A h \in Gateways : gateway[h].ticket \in Tickets
    BY <1>0 DEF TicketsTyped
  <2>8. ~Unspent(t) /\ \A h \in Gateways \ {g} : gateway[h].ticket = t => ~Opening(h)
    BY <2>1, <2>7 DEF TicketsInv, Opening
  <2>9. \A h \in Gateways : Opening(h)' => h # g /\ Opening(h) /\ gateway[h].ticket # t
    BY <2>4, <2>8 DEF Opening
  <2>10. \A u \in Tickets : Unspent(u)' <=> Unspent(u)
    BY <2>1 DEF Unspent
  <2>11. \A h \in Gateways : Opening(h)' => (~Unspent(gateway[h].ticket) /\ session[gateway[h].ticket].status = "none")'
    <3> SUFFICES ASSUME NEW h \in Gateways, Opening(h)'
                 PROVE  (~Unspent(gateway[h].ticket) /\ session[gateway[h].ticket].status = "none")'
      OBVIOUS
    <3>1. gateway'[h] = gateway[h] /\ Opening(h) /\ gateway[h].ticket \in Tickets \ {t}
      BY <2>4, <2>7, <2>9
    <3> QED
      BY <2>5, <2>10, <3>1 DEF TicketsInv, Unspent
  <2>12. \A u \in Tickets : session'[u].status # "none" => ~Unspent(u)'
    BY <2>5, <2>8, <2>10 DEF TicketsInv
  <2>13. \A h \in Gateways : gateway'[h].pc = "issue" => ticket'[gateway'[h].ticket].status = "none"
    BY <2>1, <2>4 DEF TicketsInv
  <2>14. \A h \in Gateways : Opening(h)' => Opening(h)
    BY <2>9
  <2>15. \A h, k \in Gateways : gateway'[h].ticket = gateway'[k].ticket =>
           \/ h = k
           \/ ~(Opening(h)' /\ Opening(k)') /\ ~(gateway'[h].pc = "issue" /\ gateway'[k].pc = "issue")
    <3> TAKE h, k \in Gateways
    <3>1. CASE h = g \/ k = g
      BY <2>4, <2>9, <3>1
    <3>2. CASE h # g /\ k # g
      BY <2>4, <2>14, <3>2 DEF TicketsInv
    <3> QED
      BY <3>1, <3>2
  <2> HIDE DEF t
  <2> QED
    BY <2>6, <2>11, <2>12, <2>13, <2>15 DEF TicketsInv
<1>6. ASSUME NEW g \in Gateways, Abandon(g) \/ Connect(g)
      PROVE  TicketsInv'
  BY <1>6, GatewayReturns DEF Abandon, Connect
<1>7. CASE Revoke
  <2>1. RevokeTickets(Tickets, {"active"}) /\ RevokeSessions /\ UNCHANGED <<gateway, epoch>>
    BY <1>7 DEF Revoke, RevokeMachineAccess
  <2>2. /\ session' \in [Tickets -> [status : {"none", "active", "revoked"}, epoch : Nat]]
        /\ \A t \in Tickets : session'[t].status = "none" <=> session[t].status = "none"
    BY <1>0, <2>1 DEF TicketsTyped, RevokeSessions
  <2> QED
    BY <1>0, <2>1, <2>2, TicketsRevoke, TicketsGo DEF TicketsTyped
<1>8. CASE RequestTerminalSessionClose \/ CompleteTerminalSessionClose
  <2>1. RevokeTickets(TerminalTickets, {"active", "used"}) /\ UNCHANGED <<session, gateway, epoch>>
    BY <1>8 DEF RequestTerminalSessionClose, CompleteTerminalSessionClose
  <2> QED
    BY <1>0, <2>1, TicketsRevoke, TicketsGo DEF TicketsTyped
<1>9. CASE OpenTerminal \/ LeaseClose \/ TerminateTerminal \/ TerminateFails \/ FailTerminalSessionClose \/ MemberLeaves
  <2>1. UNCHANGED <<ticket, session, gateway, epoch>>
    BY <1>9 DEF OpenTerminal, LeaseClose, TerminateTerminal, TerminateFails, FailTerminalSessionClose, MemberLeaves, access
  <2> QED
    BY <1>0, <2>1, TicketsGo DEF TicketsTyped
<1> QED
  BY <1>1, <1>2, <1>3, <1>4, <1>5, <1>6, <1>7, <1>8, <1>9 DEF AccessNext

LEMMA TicketsInvariant == WorkSpec => []TicketsInv
<1>1. WorkInit => TicketsInv
  BY TicketsInitInv DEF WorkInit
<1>2. TicketsInv /\ [WorkNext]_workVars => TicketsInv'
  <2> SUFFICES ASSUME TicketsInv, [WorkNext]_workVars PROVE TicketsInv'
    OBVIOUS
  <2>1. CASE AccessNext
    BY <2>1, TicketsStep
  <2>2. CASE UNCHANGED <<ticket, session, gateway>> /\ epoch' \in {epoch, epoch + 1}
    <3>1. TicketsTyped'
      BY <2>2 DEF TicketsInv, TicketsTyped
    <3> QED
      BY <2>2, <3>1, TicketsGo
  <2>3. CASE MachineMoves
    BY <2>2, <2>3 DEF MachineMoves, AccessFollows
  <2>4. CASE UNCHANGED access
    BY <2>2, <2>4 DEF access
  <2> QED
    BY <2>1, <2>3, <2>4 DEF WorkNext, workVars
<1> QED
  BY <1>1, <1>2, PTL DEF WorkSpec

\* Whatever requests race for a ticket and whoever revokes meanwhile, it opens
\* one session or one terminal at most (ConsumeAccessTicket, exchangeTicket).
THEOREM OneOpening == WorkSpec => []TicketOpensOnce
<1>1. TicketsInv => TicketOpensOnce
  <2> SUFFICES ASSUME TicketsInv, NEW t \in Tickets
               PROVE  Cardinality({g \in Gateways : gateway[g].ticket = t /\ gateway[g].pc \in {"consumed", "insert", "connect"}})
                        + (IF session[t].status = "none" THEN 0 ELSE 1) <= 1
    BY DEF TicketOpensOnce
  <2> DEFINE S == {g \in Gateways : gateway[g].ticket = t /\ gateway[g].pc \in {"consumed", "insert", "connect"}}
  <2> SUFFICES Cardinality(S) + (IF session[t].status = "none" THEN 0 ELSE 1) <= 1
    OBVIOUS
  <2>2. ASSUME NEW g \in S
        PROVE  S = {g} /\ session[t].status = "none"
    BY <2>2 DEF TicketsInv, Opening
  <2> HIDE DEF S
  <2>1. CASE S = {}
    BY <2>1, FS_EmptySet
  <2>3. ASSUME NEW g \in S
        PROVE  Cardinality(S) = 1 /\ session[t].status = "none"
    BY <2>2, <2>3, FS_Singleton
  <2> QED
    BY <2>1, <2>3
<1> QED
  BY <1>1, TicketsInvariant, PTL

-----------------------------------------------------------------------------
(* Sessions and pauses *)

\* Agent runs, checkouts and snapshots leave the machine row alone.
LEMMA RunsKeepMachine == RunsNext => machine' = machine
<1>1. \A r \in Runs : CreateAgentRun(r) \/ CancelAgentRun(r) \/ LeaseRun(r) \/ RemoveCancelled(r) \/ CompleteCancel(r)
                      \/ CancelFails(r) \/ TimeoutRemoves(r) \/ RuntimePasses(r) \/ AgentExits(r) => machine' = machine
  BY DEF CreateAgentRun, CancelAgentRun, LeaseRun, RemoveCancelled, CompleteCancel, CancelFails, TimeoutRemoves,
         RuntimePasses, AgentExits
<1>2. \A r \in Runs, same \in SameProcess : LeaseCancel(r, same) => machine' = machine
  BY DEF LeaseCancel
<1>3. RunHandlerStep => machine' = machine
  BY DEF RunHandlerStep, ReadRun, StartRun, RunAgent, RunAgentFails, WaitEnds, DeadlinePasses, ContextEnds, JudgeRun,
         WriteRun, CompleteRunOp, FailRunOp, FailAgentRun
<1>4. AgentCallFails \/ WaitFails \/ TimeoutRecords \/ ManagerCrashes \/ TeardownSignals => machine' = machine
  BY DEF AgentCallFails, WaitFails, TimeoutRecords, ManagerCrashes, TeardownSignals
<1> QED
  BY <1>1, <1>2, <1>3, <1>4 DEF RunsNext

LEMMA CheckoutsKeepMachine == CheckoutsNext => machine' = machine
<1>1. \A q \in Requests : CheckoutIssue(q) \/ CreateCheckout(q) => machine' = machine
  BY DEF CheckoutIssue, CreateCheckout
<1>2. \A k \in Keys : LeaseCheckout(k) => machine' = machine
  BY DEF LeaseCheckout
<1>3. PreparerStep => machine' = machine
  BY DEF PreparerStep, ReadCheckout, FailStale, MarkPreparing, PrepareCheckout, MarkReady, PrepareFails,
         CompleteCheckoutOp, FailCheckoutOp, FailCheckout
<1>4. CheckoutCallFails \/ PreparerCrashes \/ ReconcileOrphanedCheckouts => machine' = machine
  BY DEF CheckoutCallFails, PreparerCrashes, ReconcileOrphanedCheckouts, FailOrphaned
<1> QED
  BY <1>1, <1>2, <1>3, <1>4 DEF CheckoutsNext

LEMMA EnvironmentsKeepMachine == EnvironmentsNext => machine' = machine
<1>1. \A m \in SnapshotManagers : LeaseSnapshot(m) \/ CommitFails(m) \/ SnapshotManagerDies(m) => machine' = machine
  BY DEF LeaseSnapshot, CommitFails, SnapshotManagerDies
<1>2. \A m \in SnapshotManagers : SnapshotStep(m) => machine' = machine
  BY DEF SnapshotStep, ReadEnvironment, MarkBuilding, CommitImage, RecordImage, FailSnapshot, EndSnapshotOp
<1>3. \A u \in Fleet : CreateMachine(u) \/ FleetSettles(u) => machine' = machine
  BY DEF CreateMachine, FleetSettles
<1>4. \A u \in Fleet : (\A linked : CreateBundle(u, linked) => machine' = machine) /\ (\A d : SetDesired(u, d) => machine' = machine)
  BY DEF CreateBundle, SetDesired
<1>5. CreateEnvironment \/ LeaseLapses \/ ReconcileOrphanedEnvironments \/ UpdateScopeSetting \/ DeleteScopeSetting
        => machine' = machine
  BY DEF CreateEnvironment, LeaseLapses, ReconcileOrphanedEnvironments, UpdateScopeSetting, DeleteScopeSetting
<1>6. RequestEnvironmentDeletion \/ DeleteEnvironmentImage \/ DeleteEnvironment \/ DeleteWorkspace => machine' = machine
  BY DEF RequestEnvironmentDeletion, DeleteEnvironmentImage, DeleteEnvironment, DeleteWorkspace
<1> QED
  BY <1>1, <1>2, <1>3, <1>4, <1>5, <1>6 DEF EnvironmentsNext

MachineTyped == machine \in [status : Desires \cup {"failed"}, desired : Desires, generation : Nat, revoked : BOOLEAN]

\* A session that nothing has ended or overtaken.
Lasts(t) == session[t].status = "active" /\ t \notin slow

\* Such a session is of this epoch; there is none once access was revoked for
\* what is under way, nor while the machine is down.
SessionsInv ==
  /\ TicketsInv /\ MachineTyped
  /\ \A t \in Tickets : Lasts(t) => session[t].epoch = epoch
  /\ machine.revoked /\ machine.status # machine.desired => \A t \in Tickets : ~Lasts(t)
  /\ machine.status \in {"paused", "stopped", "destroyed"} => \A t \in Tickets : ~Lasts(t)

\* Steps that open nothing.
LEMMA SessionsGo ==
  ASSUME SessionsInv, TicketsInv', UNCHANGED <<machine, epoch>>,
         \A t \in Tickets : Lasts(t)' => Lasts(t) /\ session'[t].epoch = session[t].epoch
  PROVE  SessionsInv'
<1>1. \A t \in Tickets : Lasts(t)' => session'[t].epoch = epoch'
  BY DEF SessionsInv
<1> QED
  BY <1>1 DEF SessionsInv, MachineTyped

LEMMA SessionCommitsKeeps ==
  ASSUME SessionsInv, TicketsInv', NEW g \in Gateways, SessionCommits(g)
  PROVE  SessionsInv'
<1>0. PICK t \in Tickets : t = gateway[g].ticket
  BY DEF SessionsInv, TicketsInv, TicketsTyped
<1>1. /\ machine' = machine /\ epoch' = epoch
      /\ session' = [session EXCEPT ![t] = [status |-> "active", epoch |-> gateway[g].epoch]]
      /\ slow' = IF Usable /\ gateway[g].epoch = epoch THEN slow ELSE slow \cup {t}
  BY <1>0 DEF SessionCommits
<1>2. session'[t].epoch = gateway[g].epoch /\ \A u \in Tickets \ {t} : session'[u] = session[u]
  BY <1>1 DEF SessionsInv, TicketsInv, TicketsTyped
<1>3. Lasts(t)' => Usable /\ gateway[g].epoch = epoch
  BY <1>1 DEF Lasts
<1>4. \A u \in Tickets \ {t} : Lasts(u)' => Lasts(u) /\ session'[u].epoch = session[u].epoch
  BY <1>1, <1>2 DEF Lasts
<1>5. \A u \in Tickets : Lasts(u)' => session'[u].epoch = epoch'
  BY <1>1, <1>2, <1>3, <1>4 DEF SessionsInv
<1>6. machine.revoked /\ machine.status # machine.desired => \A u \in Tickets : ~Lasts(u)'
  BY <1>3, <1>4 DEF SessionsInv, Usable
<1>7. machine.status \in {"paused", "stopped", "destroyed"} => \A u \in Tickets : ~Lasts(u)'
  BY <1>3, <1>4 DEF SessionsInv, Usable
<1> QED
  BY <1>1, <1>5, <1>6, <1>7 DEF SessionsInv, MachineTyped

LEMMA RevokeKeeps ==
  ASSUME SessionsInv, TicketsInv', Revoke
  PROVE  SessionsInv'
<1>1. /\ machine' = [machine EXCEPT !.revoked = TRUE] /\ epoch' = epoch /\ RevokeSessions
  BY DEF Revoke, MarkRevoked, RevokeMachineAccess
<1>2. \A t \in Tickets : ~Lasts(t)'
  BY <1>1 DEF RevokeSessions, Lasts, SessionsInv, TicketsInv, TicketsTyped
<1>3. MachineTyped'
  BY <1>1 DEF SessionsInv, MachineTyped
<1> QED
  BY <1>2, <1>3 DEF SessionsInv

\* The machine comes back only from where no session lasts.
LEMMA MachineMovesKeeps ==
  ASSUME SessionsInv, TicketsInv', MachineMoves
  PROVE  SessionsInv'
<1>1. /\ AccessFollows /\ MachineStep(RunsRefuse \cup SnapshotRefuses)
      /\ session' = session /\ slow \subseteq slow'
      /\ MachineTyped
  BY DEF MachineMoves, AccessFollows, SessionsInv
<1>2. \A t \in Tickets : Lasts(t)' => Lasts(t)
  BY <1>1 DEF Lasts
<1>3. CASE \E d \in Desires \ (RunsRefuse \cup SnapshotRefuses) : Request(d)
  <2>1. PICK d \in Desires : Request(d)
    BY <1>3
  <2>4. machine' = [machine EXCEPT !.desired = d, !.generation = machine.generation + 1, !.revoked = FALSE]
    BY <2>1 DEF Request
  <2>5. machine'.status = machine.status /\ machine'.revoked = FALSE
    BY <1>1, <2>4 DEF MachineTyped
  <2>6. MachineTyped'
    <3>1. machine' = [status |-> machine.status, desired |-> d, generation |-> machine.generation + 1, revoked |-> FALSE]
      BY <1>1, <2>4 DEF MachineTyped
    <3>2. machine.status \in Desires \cup {"failed"} /\ machine.generation + 1 \in Nat
      BY <1>1 DEF MachineTyped
    <3> QED
      BY <2>1, <3>1, <3>2 DEF MachineTyped
  <2>2. machine'.status = machine.status /\ ~machine'.revoked /\ MachineTyped'
    BY <2>5, <2>6
  <2>3. epoch' = epoch
    BY <1>1, <2>2 DEF AccessFollows
  <2> QED
    BY <1>1, <1>2, <2>2, <2>3 DEF SessionsInv
<1>4. CASE Settle
  <2>1. /\ machine'.status = machine.desired /\ machine'.desired = machine.desired /\ machine'.revoked = machine.revoked
        /\ machine.status # machine.desired /\ MachineTyped'
    BY <1>1, <1>4 DEF Settle, MachineTyped
  <2>2. CASE machine.desired = "running"
    <3>1. CASE machine.status \in {"paused", "stopped"}
      <4>1. \A t \in Tickets : ~Lasts(t)'
        BY <1>2, <3>1 DEF SessionsInv
      <4> QED
        BY <2>1, <4>1 DEF SessionsInv
    <3>2. CASE machine.status \notin {"paused", "stopped"}
      <4>1. epoch' = epoch
        BY <1>1, <3>2 DEF AccessFollows
      <4> QED
        BY <1>1, <1>2, <2>1, <2>2, <4>1 DEF SessionsInv
    <3> QED
      BY <3>1, <3>2
  <2>3. CASE machine.desired # "running"
    <3>1. CASE machine.revoked
      <4>1. \A t \in Tickets : ~Lasts(t)'
        BY <1>2, <2>1, <3>1 DEF SessionsInv
      <4> QED
        BY <2>1, <4>1 DEF SessionsInv
    <3>2. CASE ~machine.revoked
      <4>1. slow' = slow \cup {t \in Tickets : "active" \in {ticket[t].status, session[t].status}}
        BY <1>1, <2>1, <2>3, <3>2 DEF AccessFollows
      <4>2. \A t \in Tickets : ~Lasts(t)'
        BY <1>1, <4>1 DEF Lasts
      <4> QED
        BY <2>1, <4>2 DEF SessionsInv
    <3> QED
      BY <3>1, <3>2
  <2> QED
    BY <2>2, <2>3
<1>5. CASE SettleFails
  <2>1. /\ machine'.status = "failed" /\ machine'.desired = machine.desired /\ machine'.revoked = machine.revoked
        /\ machine.status # machine.desired /\ MachineTyped'
    BY <1>1, <1>5 DEF SettleFails, MachineTyped
  <2>2. epoch' = epoch
    BY <1>1, <2>1 DEF AccessFollows
  <2> QED
    BY <1>1, <1>2, <2>1, <2>2 DEF SessionsInv
<1> QED
  BY <1>1, <1>3, <1>4, <1>5 DEF MachineStep

LEMMA AccessKeepsSessions ==
  ASSUME SessionsInv, TicketsInv', AccessNext
  PROVE  SessionsInv'
<1>1. ASSUME NEW g \in Gateways, NEW t \in Tickets, IssueTicket(g, t) \/ Consume(g, t)
      PROVE  SessionsInv'
  <2>1. UNCHANGED <<machine, epoch, session, slow>>
    BY <1>1 DEF IssueTicket, Consume
  <2> QED
    BY <2>1, SessionsGo DEF Lasts
<1>2. ASSUME NEW g \in Gateways, TicketCommits(g)
      PROVE  SessionsInv'
  <2>1. UNCHANGED <<machine, epoch, session>> /\ slow \subseteq slow'
    BY <1>2 DEF TicketCommits
  <2> QED
    BY <2>1, SessionsGo DEF Lasts
<1>3. ASSUME NEW g \in Gateways, SelectSession(g) \/ Connect(g) \/ Abandon(g)
      PROVE  SessionsInv'
  <2>1. UNCHANGED <<machine, epoch, session>> /\ slow \subseteq slow'
    BY <1>3 DEF SelectSession, Connect, Abandon
  <2> QED
    BY <2>1, SessionsGo DEF Lasts
<1>4. CASE OpenTerminal \/ RequestTerminalSessionClose \/ LeaseClose \/ TerminateTerminal \/ CompleteTerminalSessionClose
           \/ TerminateFails \/ FailTerminalSessionClose \/ MemberLeaves
  <2>1. UNCHANGED <<machine, epoch, session, slow>>
    BY <1>4 DEF OpenTerminal, RequestTerminalSessionClose, LeaseClose, TerminateTerminal, CompleteTerminalSessionClose,
                TerminateFails, FailTerminalSessionClose, MemberLeaves, access
  <2> QED
    BY <2>1, SessionsGo DEF Lasts
<1> QED
  BY <1>1, <1>2, <1>3, <1>4, SessionCommitsKeeps, RevokeKeeps DEF AccessNext

LEMMA SessionsInvariant == WorkSpec => []SessionsInv
<1>1. WorkInit => SessionsInv
  <2> SUFFICES ASSUME WorkInit PROVE SessionsInv
    OBVIOUS
  <2>1. TicketsInv
    BY TicketsInitInv DEF WorkInit
  <2>2. session = [t \in Tickets |-> Row("none")] /\ MachineInit
    BY DEF WorkInit, AccessInit
  <2>3. MachineTyped
    BY <2>2 DEF MachineInit, MachineTyped, Desires
  <2>4. \A t \in Tickets : ~Lasts(t)
    BY <2>2 DEF Lasts, Row
  <2> QED
    BY <2>1, <2>3, <2>4 DEF SessionsInv
<1>2. SessionsInv /\ TicketsInv' /\ [WorkNext]_workVars => SessionsInv'
  <2> SUFFICES ASSUME SessionsInv, TicketsInv', [WorkNext]_workVars PROVE SessionsInv'
    OBVIOUS
  <2>1. CASE MachineMoves
    BY <2>1, MachineMovesKeeps
  <2>2. CASE AccessNext
    BY <2>2, AccessKeepsSessions
  <2>3. CASE UNCHANGED <<machine, access>>
    <3>1. UNCHANGED <<machine, epoch, session, slow>>
      BY <2>3 DEF access
    <3> QED
      BY <3>1, SessionsGo DEF Lasts
  <2>4. CASE (RunsNext \/ CheckoutsNext \/ EnvironmentsNext) /\ UNCHANGED access
    BY <2>3, <2>4, RunsKeepMachine, CheckoutsKeepMachine, EnvironmentsKeepMachine
  <2>5. CASE UNCHANGED workVars
    BY <2>3, <2>5 DEF workVars
  <2> QED
    BY <2>1, <2>2, <2>4, <2>5 DEF WorkNext
<1> QED
  BY <1>1, <1>2, TicketsInvariant, PTL DEF WorkSpec

\* What was opened before a pause or a stop does not work after it, however the
\* inserts of the gateway meet the revocations of the handlers (revokeAccess,
\* GetAccessSession); the property names the two exceptions.
THEOREM SessionsAreOfTheirEpoch == WorkSpec => []SessionsEndWithTheirEpoch
<1>1. SessionsInv => SessionsEndWithTheirEpoch
  <2> SUFFICES ASSUME SessionsInv, NEW t \in Tickets, Authorized(t), session[t].epoch < epoch, t \notin slow
               PROVE  FALSE
    BY DEF SessionsEndWithTheirEpoch
  <2>1. Lasts(t)
    BY DEF Lasts, Authorized
  <2>2. session[t].epoch = epoch /\ epoch \in Nat
    BY <2>1 DEF SessionsInv, TicketsInv, TicketsTyped
  <2> QED
    BY <2>2
<1> QED
  BY <1>1, SessionsInvariant, PTL

-----------------------------------------------------------------------------
(* Terminals *)

Overtaken == slow \cap TerminalTickets # {}

\* From the kill on, a shell is one that a late connection started.
TerminalInv ==
  /\ terminal \in {"none", "active", "closing", "closed", "close_failed"}
  /\ closeOp = [status |-> closeOp.status, attempts |-> closeOp.attempts]
  /\ closeOp.status # "none" => terminal \notin {"none", "active"}
  /\ closeOp.status = "killed" /\ shell => Overtaken
  /\ terminal = "closed" /\ shell => Overtaken
  /\ \A g \in Gateways : gateway[g].pc = "connect" => gateway[g].ticket \in TerminalTickets

\* Steps that leave the terminal and its operation alone and start no shell.
LEMMA TerminalRests ==
  ASSUME TerminalInv, UNCHANGED <<terminal, closeOp>>, shell' => shell, slow \subseteq slow',
         \A g \in Gateways : gateway'[g].pc = "connect" => gateway'[g].ticket \in TerminalTickets
  PROVE  TerminalInv'
<1>1. Overtaken => Overtaken'
  BY DEF Overtaken
<1> QED
  BY <1>1 DEF TerminalInv

\* Steps of the close leave the gateway alone.
LEMMA CloseKeeps ==
  ASSUME TerminalInv, \/ RequestTerminalSessionClose \/ LeaseClose \/ TerminateTerminal \/ CompleteTerminalSessionClose
                      \/ TerminateFails \/ FailTerminalSessionClose \/ OpenTerminal
  PROVE  TerminalInv'
<1>1. gateway' = gateway /\ slow' = slow
  BY DEF RequestTerminalSessionClose, LeaseClose, TerminateTerminal, CompleteTerminalSessionClose, TerminateFails,
         FailTerminalSessionClose, OpenTerminal, access
<1>2. CASE OpenTerminal \/ FailTerminalSessionClose
  BY <1>1, <1>2 DEF OpenTerminal, FailTerminalSessionClose, TerminalInv, Overtaken
<1>3. CASE RequestTerminalSessionClose
  BY <1>1, <1>3 DEF RequestTerminalSessionClose, TerminalInv, Overtaken
<1>4. CASE LeaseClose \/ TerminateFails
  BY <1>1, <1>4 DEF LeaseClose, TerminateFails, CloseMoves, TerminalInv, Overtaken
<1>5. CASE TerminateTerminal
  <2>1. /\ closeOp' = [closeOp EXCEPT !.status = "killed"] /\ closeOp.status = "leased" /\ terminal' = terminal
        /\ shell' => shell /\ terminal = "closed"
    BY <1>5 DEF TerminateTerminal, CloseMoves
  <2> QED
    BY <1>1, <2>1 DEF TerminalInv, Overtaken
<1>6. CASE CompleteTerminalSessionClose
  <2>1. /\ closeOp' = [closeOp EXCEPT !.status = "completed"] /\ closeOp.status = "killed" /\ terminal' = "closed"
        /\ shell' = shell
    BY <1>6 DEF CompleteTerminalSessionClose, CloseMoves
  <2> QED
    BY <1>1, <2>1 DEF TerminalInv, Overtaken
<1> QED
  BY <1>2, <1>3, <1>4, <1>5, <1>6

LEMMA GatewayKeepsTerminal ==
  ASSUME TerminalInv, TicketsInv, NEW g \in Gateways,
         \/ \E t \in Tickets : IssueTicket(g, t) \/ Consume(g, t)
         \/ TicketCommits(g) \/ SelectSession(g) \/ SessionCommits(g) \/ Connect(g) \/ Abandon(g)
  PROVE  TerminalInv'
<1>1. gateway \in [Gateways -> [pc : GatewayPcs, ticket : Tickets, epoch : Nat]]
  BY DEF TicketsInv, TicketsTyped
<1>2. \A h \in Gateways : gateway'[h].pc = "connect" => gateway'[h].ticket \in TerminalTickets
  <2>1. CASE Return(g)
    BY <1>1, <2>1 DEF Return, TerminalInv, GatewayPcs
  <2>2. CASE \E t \in Tickets, pc \in {"issue", "insert"} : Become(g, pc, t)
    BY <1>1, <2>2 DEF Become, TerminalInv
  <2>3. CASE \E t \in Tickets : Become(g, IF t \in TerminalTickets THEN "connect" ELSE "consumed", t)
    BY <1>1, <2>3 DEF Become, TerminalInv
  <2>4. gateway[g].ticket \in Tickets
    BY <1>1
  <2>5. CASE \E t \in Tickets : IssueTicket(g, t) \/ Consume(g, t)
    BY <2>2, <2>3, <2>5 DEF IssueTicket, Consume
  <2>6. CASE SelectSession(g)
    BY <2>1, <2>2, <2>4, <2>6 DEF SelectSession
  <2>7. CASE TicketCommits(g) \/ SessionCommits(g) \/ Connect(g) \/ Abandon(g)
    BY <2>1, <2>7 DEF TicketCommits, SessionCommits, Connect, Abandon
  <2> QED
    BY <2>5, <2>6, <2>7
<1>3. terminal' = terminal /\ closeOp' = closeOp /\ slow \subseteq slow'
  BY DEF IssueTicket, Consume, TicketCommits, SelectSession, SessionCommits, Connect, Abandon, terminals
<1>4. CASE shell' = shell
  BY <1>2, <1>3, <1>4, TerminalRests
<1>5. CASE Connect(g)
  <2>1. gateway[g].ticket \in TerminalTickets
    BY <1>5 DEF Connect, At, TerminalInv
  <2>2. terminal # "active" => Overtaken'
    BY <1>5, <2>1 DEF Connect, Overtaken
  <2> QED
    BY <1>2, <1>3, <2>2 DEF TerminalInv
<1> QED
  BY <1>4, <1>5 DEF IssueTicket, Consume, TicketCommits, SelectSession, SessionCommits, Abandon, terminals

\* A closed terminal has no shell but one that a connection which already held
\* its ticket started after the kill (TerminateTerminal,
\* CompleteTerminalSessionClose, proxyTerminalTicket).
THEOREM ClosedTerminalsAreSilent == WorkSpec => []ClosedTerminalIsSilent
<1>1. WorkInit => TerminalInv
  <2> SUFFICES ASSUME WorkInit PROVE TerminalInv
    OBVIOUS
  <2>1. AccessInit /\ \A g \in Gateways : gateway[g].pc = "idle"
    BY DEF WorkInit, AccessInit
  <2> QED
    BY <2>1 DEF AccessInit, TerminalInv
<1>2. TerminalInv /\ TicketsInv /\ [WorkNext]_workVars => TerminalInv'
  <2> SUFFICES ASSUME TerminalInv, TicketsInv, [WorkNext]_workVars PROVE TerminalInv'
    OBVIOUS
  <2>1. CASE MachineMoves
    <3>1. UNCHANGED <<terminal, closeOp, gateway>> /\ (shell' => shell) /\ slow \subseteq slow'
      BY <2>1 DEF MachineMoves, AccessFollows
    <3> QED
      BY <3>1, TerminalRests DEF TerminalInv
  <2>2. CASE \E g \in Gateways : \/ \E t \in Tickets : IssueTicket(g, t) \/ Consume(g, t)
                                 \/ TicketCommits(g) \/ SelectSession(g) \/ SessionCommits(g) \/ Connect(g) \/ Abandon(g)
    BY <2>2, GatewayKeepsTerminal
  <2>3. CASE MemberLeaves \/ Revoke \/ UNCHANGED <<access, terminals>>
    <3>1. UNCHANGED <<terminal, closeOp, gateway, shell, slow>>
      BY <2>3 DEF MemberLeaves, Revoke, access, terminals
    <3> QED
      BY <3>1, TerminalRests DEF TerminalInv
  <2>4. CASE \/ RequestTerminalSessionClose \/ LeaseClose \/ TerminateTerminal \/ CompleteTerminalSessionClose
             \/ TerminateFails \/ FailTerminalSessionClose \/ OpenTerminal
    BY <2>4, CloseKeeps
  <2>5. CASE AccessNext
    BY <2>2, <2>3, <2>4, <2>5 DEF AccessNext
  <2> QED
    BY <2>1, <2>3, <2>5 DEF WorkNext, workVars
<1>3. TerminalInv => ClosedTerminalIsSilent
  BY DEF TerminalInv, ClosedTerminalIsSilent, Overtaken
<1> QED
  BY <1>1, <1>2, <1>3, TicketsInvariant, PTL DEF WorkSpec
-----------------------------------------------------------------------------
(* Environments and quotas *)

\* No request undoes a teardown, and none pauses a stopped machine.
FleetInv ==
  /\ fleet \in [Fleet -> [status : {"none", "queued", "running", "paused", "stopped", "failed", "destroyed"},
                          desired : Desires, linked : BOOLEAN]]
  /\ \A u \in Fleet : /\ fleet[u].status = "destroyed" => fleet[u].desired = "destroyed"
                      /\ fleet[u].status = "stopped" => fleet[u].desired # "paused"

Snapshotting(m) == snapshotter[m] # "idle"
Deleting == environment \in {"delete_requested", "gone"}

\* A snapshot has a row to write to until its deletion was asked for; with its
\* lease its handler is the only one, and has committed what it is about to
\* record.
SnapshotsInv ==
  /\ environment \in {"none", "pending", "building", "ready", "failed", "delete_requested", "gone"}
  /\ snapshotOp = [status |-> snapshotOp.status, owner |-> snapshotOp.owner, attempts |-> snapshotOp.attempts,
                   generation |-> snapshotOp.generation]
  /\ snapshotter \in [SnapshotManagers -> SnapshotPcs]
  /\ environment = "none" => /\ snapshotOp.status = "none" /\ ~image
                             /\ \A m \in SnapshotManagers : ~Snapshotting(m)
  /\ SnapshotActive => environment # "none" /\ ~Deleting
  /\ ~lapsed =>
       /\ environment = "ready" => image
       /\ environment = "gone" => ~image
       /\ \A m \in SnapshotManagers :
            /\ Snapshotting(m) => snapshotOp.status = "leased" /\ snapshotOp.owner = m
            /\ snapshotter[m] = "record" => image
            /\ snapshotter[m] \in {"build", "commit", "record"} => environment # "ready"

UseInv == InUse /\ ~lapsed /\ workspace = "live" => environment = "ready"

\* What a deleted workspace had cannot come back.
GoneInv ==
  workspace = "deleted" =>
    /\ environment \in {"none", "gone"}
    /\ machine.status = "destroyed" /\ machine.desired = "destroyed"
    /\ \A u \in Fleet : fleet[u].status \in {"none", "destroyed"}


LEMMA LinkedIsBoolean ==
  ASSUME NEW linked \in {"snapshots" \in work} PROVE linked \in BOOLEAN
<1>1. linked = TRUE \/ linked = FALSE
  OBVIOUS
<1> QED
  BY <1>1

LEMMA FleetMoves ==
  ASSUME FleetInv, EnvironmentsNext
  PROVE  FleetInv'
<1>1. CASE UNCHANGED fleet
  BY <1>1 DEF FleetInv
<1>2. ASSUME NEW u \in Fleet, NEW linked \in BOOLEAN, CreateBundle(u, linked)
      PROVE  FleetInv'
  <2>1. fleet' = fleet \/ fleet' = [fleet EXCEPT ![u] = [status |-> "queued", desired |-> "running", linked |-> linked]]
    BY <1>2 DEF CreateBundle
  <2> QED
    BY <1>2, <2>1 DEF FleetInv, Desires
<1>3. ASSUME NEW u \in Fleet, NEW d \in Desires, SetDesired(u, d)
      PROVE  FleetInv'
  <2>0. fleet' = [fleet EXCEPT ![u].desired = d]
    BY <1>3 DEF SetDesired
  <2>1. fleet' = [fleet EXCEPT ![u] = [status |-> fleet[u].status, desired |-> d, linked |-> fleet[u].linked]]
    <3>1. fleet[u] = [status |-> fleet[u].status, desired |-> fleet[u].desired, linked |-> fleet[u].linked]
      BY DEF FleetInv
    <3>2. [fleet[u] EXCEPT !.desired = d] = [status |-> fleet[u].status, desired |-> d, linked |-> fleet[u].linked]
      BY <3>1
    <3> QED
      BY <2>0, <3>2
  <2>2. fleet[u].status \in Serves[d]
    BY <1>3 DEF SetDesired
  <2>3. fleet[u].status # "destroyed" /\ (fleet[u].status = "stopped" => d # "paused")
    BY <2>2 DEF Serves, Desires
  <2>4. fleet[u].status \in {"none", "queued", "running", "paused", "stopped", "failed", "destroyed"} /\ fleet[u].linked \in BOOLEAN
    BY DEF FleetInv
  <2>5. \A v \in Fleet \ {u} : fleet'[v] = fleet[v]
    BY <2>1
  <2>6. fleet'[u] = [status |-> fleet[u].status, desired |-> d, linked |-> fleet[u].linked]
    BY <2>1 DEF FleetInv
  <2>7. fleet' \in [Fleet -> [status : {"none", "queued", "running", "paused", "stopped", "failed", "destroyed"},
                              desired : Desires, linked : BOOLEAN]]
    BY <2>1, <2>4 DEF FleetInv
  <2> QED
    BY <2>3, <2>5, <2>6, <2>7 DEF FleetInv
<1>4. ASSUME NEW u \in Fleet, FleetSettles(u)
      PROVE  FleetInv'
  <2>1. PICK s \in {fleet[u].desired, "failed"} :
          fleet' = [fleet EXCEPT ![u] = [status |-> s, desired |-> fleet[u].desired, linked |-> fleet[u].linked]]
    BY <1>4 DEF FleetSettles, FleetInv
  <2>2. /\ fleet' \in [Fleet -> [status : {"none", "queued", "running", "paused", "stopped", "failed", "destroyed"},
                                 desired : Desires, linked : BOOLEAN]]
        /\ fleet'[u] = [status |-> s, desired |-> fleet[u].desired, linked |-> fleet[u].linked]
    BY <2>1 DEF FleetInv, Desires
  <2>3. \A v \in Fleet \ {u} : fleet'[v] = fleet[v]
    BY <2>1
  <2> QED
    BY <2>1, <2>2, <2>3 DEF FleetInv
<1>5. CASE \/ CreateEnvironment \/ LeaseLapses \/ ReconcileOrphanedEnvironments \/ UpdateScopeSetting \/ DeleteScopeSetting
           \/ RequestEnvironmentDeletion \/ DeleteEnvironmentImage \/ DeleteEnvironment \/ DeleteWorkspace
  BY <1>1, <1>5 DEF CreateEnvironment, LeaseLapses, ReconcileOrphanedEnvironments, UpdateScopeSetting, DeleteScopeSetting,
     RequestEnvironmentDeletion, DeleteEnvironmentImage, DeleteEnvironment, DeleteWorkspace
<1>6. ASSUME NEW m \in SnapshotManagers, LeaseSnapshot(m) \/ SnapshotStep(m) \/ CommitFails(m) \/ SnapshotManagerDies(m)
      PROVE  FleetInv'
  BY <1>1, <1>6 DEF LeaseSnapshot, SnapshotStep, CommitFails, SnapshotManagerDies, ReadEnvironment, MarkBuilding, CommitImage,
     RecordImage, FailSnapshot, EndSnapshotOp
<1>7. ASSUME NEW u \in Fleet, CreateMachine(u)
      PROVE  FleetInv'
  BY <1>1, <1>7 DEF CreateMachine
<1>8. ASSUME NEW u \in Fleet, NEW linked \in {"snapshots" \in work}, CreateBundle(u, linked)
      PROVE  FleetInv'
  BY <1>2, <1>8, LinkedIsBoolean
<1> QED
  BY <1>3, <1>4, <1>5, <1>6, <1>7, <1>8, Zenon DEF EnvironmentsNext

\* What a step of one snapshot handler leaves alone.
LEMMA OneSnapshotterMoves ==
  ASSUME SnapshotsInv, NEW m \in SnapshotManagers, NEW pc \in SnapshotPcs, SnapshotterMoves(m, pc)
  PROVE  /\ snapshotter' \in [SnapshotManagers -> SnapshotPcs] /\ snapshotter'[m] = pc
         /\ \A n \in SnapshotManagers \ {m} : snapshotter'[n] = snapshotter[n]
  BY DEF SnapshotsInv, SnapshotterMoves

\* Steps of a handler that is the only one while its lease lasts.
LEMMA HandlerKeeps ==
  ASSUME SnapshotsInv, NEW m \in SnapshotManagers, NEW pc \in SnapshotPcs \ {"idle"}, SnapshotterMoves(m, pc),
         snapshotter[m] # "idle", UNCHANGED <<snapshotOp, lapsed>>,
         environment' \in {"pending", "building", "ready", "failed", "delete_requested", "gone"},
         Deleting' = Deleting,
         ~lapsed => /\ environment' = "ready" => image'
                    /\ environment' = "gone" => ~image'
                    /\ pc = "record" => image'
                    /\ pc \in {"build", "commit", "record"} => environment' # "ready"
  PROVE  SnapshotsInv'
<1>1. /\ snapshotter' \in [SnapshotManagers -> SnapshotPcs] /\ snapshotter'[m] = pc
      /\ \A n \in SnapshotManagers \ {m} : snapshotter'[n] = snapshotter[n]
  BY OneSnapshotterMoves
<1>2. ASSUME ~lapsed
      PROVE  /\ snapshotOp.status = "leased" /\ snapshotOp.owner = m
             /\ \A n \in SnapshotManagers \ {m} : snapshotter[n] = "idle"
  BY <1>2 DEF SnapshotsInv, Snapshotting
<1>3. SnapshotActive' => environment' # "none" /\ ~Deleting'
  BY DEF SnapshotsInv, SnapshotActive
<1>4. environment' # "none"
  OBVIOUS
<1>5. snapshotOp' = [status |-> snapshotOp'.status, owner |-> snapshotOp'.owner, attempts |-> snapshotOp'.attempts,
                     generation |-> snapshotOp'.generation]
  BY DEF SnapshotsInv
<1>6. ~lapsed' => \A n \in SnapshotManagers :
            /\ Snapshotting(n)' => snapshotOp'.status = "leased" /\ snapshotOp'.owner = n
            /\ snapshotter'[n] = "record" => image'
            /\ snapshotter'[n] \in {"build", "commit", "record"} => environment' # "ready"
  BY <1>1, <1>2 DEF Snapshotting
<1> QED
  BY <1>1, <1>3, <1>4, <1>5, <1>6 DEF SnapshotsInv

LEMMA SnapshotStepKeeps ==
  ASSUME SnapshotsInv, NEW m \in SnapshotManagers, SnapshotStep(m) \/ CommitFails(m)
  PROVE  SnapshotsInv'
<1>0. /\ environment \in {"none", "pending", "building", "ready", "failed", "delete_requested", "gone"}
      /\ snapshotter[m] # "idle" => environment # "none"
      /\ ~lapsed /\ snapshotter[m] # "idle" => ~Deleting
  BY DEF SnapshotsInv, Snapshotting, SnapshotActive
<1>1. CASE ReadEnvironment(m)
  <2>1. PICK pc \in {"done", "refuse", "build"} :
          SnapshotterMoves(m, pc) /\ (pc = "build" => environment # "ready")
    BY <1>1 DEF ReadEnvironment
  <2>2. UNCHANGED <<snapshotOp, lapsed, environment, image>> /\ snapshotter[m] # "idle"
    BY <1>1 DEF ReadEnvironment
  <2>3. pc \in SnapshotPcs \ {"idle"}
    BY <2>1 DEF SnapshotPcs
  <2>4. Deleting' = Deleting
    BY <2>2 DEF Deleting
  <2> QED
    BY <1>0, <2>1, <2>2, <2>3, <2>4, HandlerKeeps DEF SnapshotsInv
<1>2. CASE MarkBuilding(m)
  <2>1. PICK pc \in {"commit", "fail"} :
          /\ SnapshotterMoves(m, pc)
          /\ IF Deleting THEN environment' = environment /\ pc = "fail" ELSE environment' = "building"
    BY <1>2 DEF MarkBuilding, UpdateEnvironmentState, Updatable, Deleting
  <2>2. UNCHANGED <<snapshotOp, lapsed, image>> /\ snapshotter[m] # "idle"
    BY <1>2 DEF MarkBuilding
  <2>3. pc \in SnapshotPcs \ {"idle"}
    BY <2>1 DEF SnapshotPcs
  <2>4. Deleting' = Deleting
    BY <2>1 DEF Deleting
  <2> QED
    BY <1>0, <2>1, <2>2, <2>3, <2>4, HandlerKeeps DEF SnapshotsInv
<1>3. CASE CommitImage(m)
  <2>1. /\ SnapshotterMoves(m, "record") /\ image' = TRUE /\ UNCHANGED <<snapshotOp, lapsed, environment>>
        /\ snapshotter[m] = "commit"
    BY <1>3 DEF CommitImage
  <2>2. "record" \in SnapshotPcs \ {"idle"}
    BY DEF SnapshotPcs
  <2>3. Deleting' = Deleting
    BY <2>1 DEF Deleting
  <2>4. ~lapsed => environment # "gone" /\ environment # "ready"
    BY <1>0, <2>1 DEF Deleting, SnapshotsInv
  <2> QED
    BY <1>0, <2>1, <2>2, <2>3, <2>4, HandlerKeeps
<1>4. CASE RecordImage(m)
  <2>1. PICK pc \in {"done", "fail"} :
          /\ SnapshotterMoves(m, pc)
          /\ IF Deleting THEN environment' = environment ELSE environment' = "ready"
    BY <1>4 DEF RecordImage, UpdateEnvironmentState, Updatable, Deleting
  <2>2. UNCHANGED <<snapshotOp, lapsed, image>> /\ snapshotter[m] = "record"
    BY <1>4 DEF RecordImage
  <2>3. pc \in SnapshotPcs \ {"idle"}
    BY <2>1 DEF SnapshotPcs
  <2>4. Deleting' = Deleting
    BY <2>1 DEF Deleting
  <2>5. ~lapsed => image
    BY <2>2 DEF SnapshotsInv
  <2> QED
    BY <1>0, <2>1, <2>2, <2>3, <2>4, <2>5, HandlerKeeps DEF SnapshotsInv
<1>5. CASE CommitFails(m)
  <2>1. SnapshotterMoves(m, "fail") /\ environment' = IF Deleting THEN environment ELSE "failed"
    BY <1>5 DEF CommitFails, UpdateEnvironmentState, Updatable, Deleting
  <2>2. UNCHANGED <<snapshotOp, lapsed, image>> /\ snapshotter[m] # "idle"
    BY <1>5 DEF CommitFails
  <2>3. "fail" \in SnapshotPcs \ {"idle"}
    BY DEF SnapshotPcs
  <2>4. Deleting' = Deleting
    BY <2>1 DEF Deleting
  <2> QED
    BY <1>0, <2>1, <2>2, <2>3, <2>4, HandlerKeeps DEF SnapshotsInv
<1>6. CASE FailSnapshot(m)
  <2>1. PICK pc \in {"done", "abandon"} : SnapshotterMoves(m, pc)
    BY <1>6 DEF FailSnapshot
  <2>2. /\ environment' = IF environment \in {"pending", "building"} THEN "failed" ELSE environment
        /\ UNCHANGED <<snapshotOp, lapsed, image>> /\ snapshotter[m] # "idle"
    BY <1>6 DEF FailSnapshot
  <2>3. pc \in SnapshotPcs \ {"idle"}
    BY <2>1 DEF SnapshotPcs
  <2>4. Deleting' = Deleting
    BY <2>2 DEF Deleting
  <2> QED
    BY <1>0, <2>1, <2>2, <2>3, <2>4, HandlerKeeps DEF SnapshotsInv
<1>7. CASE EndSnapshotOp(m)
  <2>1. /\ SnapshotterMoves(m, "idle") /\ snapshotter[m] # "idle" /\ UNCHANGED <<environment, image, lapsed>>
        /\ \/ snapshotOp' = snapshotOp
           \/ /\ snapshotOp.status \in {"leased", "expired"}
              /\ \E s \in {"completed", "pending", "failed"} : snapshotOp' = [snapshotOp EXCEPT !.status = s]
    BY <1>7 DEF EndSnapshotOp, Owns
  <2>2. /\ snapshotter' \in [SnapshotManagers -> SnapshotPcs] /\ snapshotter'[m] = "idle"
        /\ \A n \in SnapshotManagers \ {m} : snapshotter'[n] = snapshotter[n]
    BY <2>1, OneSnapshotterMoves DEF SnapshotPcs
  <2>3. /\ snapshotOp' = [status |-> snapshotOp'.status, owner |-> snapshotOp'.owner, attempts |-> snapshotOp'.attempts,
                          generation |-> snapshotOp'.generation]
        /\ SnapshotActive' => SnapshotActive
    BY <2>1 DEF SnapshotsInv, SnapshotActive
  <2>4. SnapshotActive' => environment' # "none" /\ ~Deleting'
    BY <2>1, <2>3 DEF SnapshotsInv, Deleting
  <2>5. ~lapsed => \A n \in SnapshotManagers \ {m} : snapshotter[n] = "idle"
    BY <2>1 DEF SnapshotsInv, Snapshotting
  <2>6. environment # "none"
    BY <1>0, <2>1
  <2> QED
    BY <2>1, <2>2, <2>3, <2>4, <2>5, <2>6 DEF SnapshotsInv, Snapshotting
<1> QED
  BY <1>1, <1>2, <1>3, <1>4, <1>5, <1>6, <1>7 DEF SnapshotStep

\* Leases, and what others do to the row and its operation.
LEMMA SnapshotsMove ==
  ASSUME SnapshotsInv, UseInv, EnvironmentsNext
  PROVE  SnapshotsInv'
<1>0. ASSUME UNCHANGED <<environment, image, snapshotOp, snapshotter, lapsed>>
      PROVE  SnapshotsInv'
  BY <1>0 DEF SnapshotsInv, SnapshotActive, Snapshotting, Deleting
<1>1. CASE CreateEnvironment
  <2>1. /\ environment = "none" /\ environment' = "pending" /\ UNCHANGED <<image, snapshotter, lapsed>>
        /\ snapshotOp' = [snapshotOp EXCEPT !.status = "pending", !.generation = machine.generation]
    BY <1>1 DEF CreateEnvironment
  <2> QED
    BY <2>1 DEF SnapshotsInv, SnapshotActive, Snapshotting, Deleting
<1>2. ASSUME NEW m \in SnapshotManagers, LeaseSnapshot(m)
      PROVE  SnapshotsInv'
  <2>1. /\ snapshotOp.status \in {"pending", "expired"} /\ UNCHANGED <<environment, image, lapsed>>
        /\ snapshotOp' = [snapshotOp EXCEPT !.status = "leased", !.owner = m, !.attempts = snapshotOp.attempts + 1]
        /\ SnapshotterMoves(m, "read")
    BY <1>2 DEF LeaseSnapshot
  <2>2. /\ snapshotter' \in [SnapshotManagers -> SnapshotPcs] /\ snapshotter'[m] = "read"
        /\ \A n \in SnapshotManagers \ {m} : snapshotter'[n] = snapshotter[n]
    BY <2>1, OneSnapshotterMoves DEF SnapshotPcs
  <2>3. ~lapsed => \A n \in SnapshotManagers : snapshotter[n] = "idle"
    BY <2>1 DEF SnapshotsInv, Snapshotting
  <2>4. /\ snapshotOp' = [status |-> snapshotOp'.status, owner |-> snapshotOp'.owner, attempts |-> snapshotOp'.attempts,
                          generation |-> snapshotOp'.generation]
        /\ snapshotOp'.status = "leased" /\ snapshotOp'.owner = m
    <3>1. snapshotOp' = [status |-> "leased", owner |-> m, attempts |-> snapshotOp.attempts + 1,
                         generation |-> snapshotOp.generation]
      BY <2>1 DEF SnapshotsInv
    <3> QED
      BY <3>1
  <2>5. environment # "none" /\ ~Deleting /\ Deleting' = Deleting
    BY <2>1 DEF SnapshotsInv, SnapshotActive, Deleting
  <2> QED
    BY <2>1, <2>2, <2>3, <2>4, <2>5 DEF SnapshotsInv, Snapshotting
<1>3. ASSUME NEW m \in SnapshotManagers, SnapshotManagerDies(m)
      PROVE  SnapshotsInv'
  <2>1. /\ SnapshotterMoves(m, "idle") /\ snapshotter[m] # "idle" /\ UNCHANGED <<environment, image, lapsed>>
        /\ snapshotOp' = snapshotOp
           \/ (snapshotOp.status = "leased" /\ snapshotOp' = [snapshotOp EXCEPT !.status = "expired"])
    <3>1. snapshotOp' = [snapshotOp EXCEPT !.status = IF snapshotOp.status = "leased" /\ snapshotOp.owner = m THEN "expired"
                                                      ELSE snapshotOp.status]
      BY <1>3 DEF SnapshotManagerDies
    <3>2. snapshotOp' = snapshotOp
          \/ (snapshotOp.status = "leased" /\ snapshotOp' = [snapshotOp EXCEPT !.status = "expired"])
      BY <3>1 DEF SnapshotsInv
    <3> QED
      BY <1>3, <3>2 DEF SnapshotManagerDies
  <2>2. /\ snapshotter' \in [SnapshotManagers -> SnapshotPcs] /\ snapshotter'[m] = "idle"
        /\ \A n \in SnapshotManagers \ {m} : snapshotter'[n] = snapshotter[n]
    BY <2>1, OneSnapshotterMoves DEF SnapshotPcs
  <2>3. ~lapsed => \A n \in SnapshotManagers \ {m} : snapshotter[n] = "idle"
    BY <2>1 DEF SnapshotsInv, Snapshotting
  <2>4. /\ snapshotOp' = [status |-> snapshotOp'.status, owner |-> snapshotOp'.owner, attempts |-> snapshotOp'.attempts,
                          generation |-> snapshotOp'.generation]
        /\ SnapshotActive' => SnapshotActive
    BY <2>1 DEF SnapshotsInv, SnapshotActive
  <2>5. environment # "none" /\ Deleting' = Deleting
    BY <2>1 DEF SnapshotsInv, Snapshotting, Deleting
  <2> QED
    BY <2>1, <2>2, <2>3, <2>4, <2>5 DEF SnapshotsInv, Snapshotting
<1>4. CASE LeaseLapses
  <2>1. /\ snapshotOp.status = "leased" /\ snapshotOp' = [snapshotOp EXCEPT !.status = "expired"]
        /\ lapsed' = (lapsed \/ snapshotter[snapshotOp.owner] # "idle")
        /\ UNCHANGED <<environment, image, snapshotter>>
    BY <1>4 DEF LeaseLapses
  <2>2. ~lapsed' => ~lapsed /\ \A m \in SnapshotManagers : snapshotter[m] = "idle"
    BY <2>1 DEF SnapshotsInv, Snapshotting
  <2>3. /\ snapshotOp' = [status |-> snapshotOp'.status, owner |-> snapshotOp'.owner, attempts |-> snapshotOp'.attempts,
                          generation |-> snapshotOp'.generation]
        /\ SnapshotActive
    BY <2>1 DEF SnapshotsInv, SnapshotActive
  <2>4. Deleting' = Deleting
    BY <2>1 DEF Deleting
  <2> QED
    BY <2>1, <2>2, <2>3, <2>4 DEF SnapshotsInv, Snapshotting
<1>5. ASSUME snapshotOp.status # "leased", UNCHANGED <<image, snapshotter, lapsed>>, environment # "none",
             snapshotOp' = [snapshotOp EXCEPT !.status = IF snapshotOp.status \in {"pending", "expired"} THEN "cancelled"
                                                         ELSE snapshotOp.status],
             environment' \in {"failed", "delete_requested"}
      PROVE  SnapshotsInv'
  <2>1. /\ snapshotOp' = [status |-> snapshotOp'.status, owner |-> snapshotOp'.owner, attempts |-> snapshotOp'.attempts,
                          generation |-> snapshotOp'.generation]
        /\ ~SnapshotActive'
    BY <1>5 DEF SnapshotsInv, SnapshotActive
  <2>2. ~lapsed => \A m \in SnapshotManagers : snapshotter[m] = "idle"
    BY <1>5 DEF SnapshotsInv, Snapshotting
  <2> QED
    BY <1>5, <2>1, <2>2 DEF SnapshotsInv, Snapshotting
<1>6. CASE ReconcileOrphanedEnvironments
  BY <1>5, <1>6 DEF ReconcileOrphanedEnvironments, Orphanable
<1>7. CASE RequestEnvironmentDeletion
  BY <1>5, <1>7 DEF RequestEnvironmentDeletion
<1>8. CASE DeleteEnvironmentImage \/ DeleteEnvironment
  <2>1. /\ environment = "delete_requested" /\ UNCHANGED <<snapshotOp, snapshotter, lapsed>>
        /\ \/ image' = FALSE /\ environment' = environment
           \/ ~image /\ image' = image /\ environment' = "gone"
    BY <1>8 DEF DeleteEnvironmentImage, DeleteEnvironment
  <2>2. ~SnapshotActive /\ snapshotOp.status # "leased" /\ ~SnapshotActive'
    BY <2>1 DEF SnapshotsInv, Deleting, SnapshotActive
  <2>3. ~lapsed => \A m \in SnapshotManagers : snapshotter[m] = "idle"
    BY <2>2 DEF SnapshotsInv, Snapshotting
  <2> QED
    BY <2>1, <2>2, <2>3 DEF SnapshotsInv, Snapshotting
<1>9. CASE DeleteWorkspace
  <2>1. CASE ~WorkspaceHasEnvironments \/ snapshotOp.status = "leased"
    <3>1. snapshotOp' = snapshotOp
      <4>1. snapshotOp' = snapshotOp
            \/ (snapshotOp.status = "leased" /\ snapshotOp' = [snapshotOp EXCEPT !.status = snapshotOp.status])
        BY <1>9, <2>1 DEF DeleteWorkspace
      <4> QED
        BY <4>1 DEF SnapshotsInv
    <3> QED
      BY <1>0, <1>9, <2>1, <3>1 DEF DeleteWorkspace
  <2>2. CASE WorkspaceHasEnvironments /\ snapshotOp.status # "leased"
    BY <1>5, <1>9, <2>2 DEF DeleteWorkspace, WorkspaceHasEnvironments
  <2> QED
    BY <2>1, <2>2
<1>10. ASSUME NEW u \in Fleet,
              \/ CreateMachine(u) \/ FleetSettles(u)
              \/ \E linked \in {"snapshots" \in work} : CreateBundle(u, linked)
              \/ \E d \in Desires : SetDesired(u, d)
       PROVE  SnapshotsInv'
  BY <1>0, <1>10 DEF CreateMachine, FleetSettles, CreateBundle, SetDesired
<1>11. CASE UpdateScopeSetting \/ DeleteScopeSetting
  BY <1>0, <1>11 DEF UpdateScopeSetting, DeleteScopeSetting
<1> QED
  BY <1>1, <1>2, <1>3, <1>4, <1>6, <1>7, <1>8, <1>9, <1>10, <1>11, SnapshotStepKeeps, Zenon DEF EnvironmentsNext

\* A step that takes nothing into use and keeps a ready environment.
LEMMA UseRests ==
  ASSUME UseInv, InUse' => InUse, ~lapsed' => ~lapsed, workspace' = "live" => workspace = "live",
         ~lapsed /\ environment = "ready" => environment' = "ready"
  PROVE  UseInv'
  BY DEF UseInv

LEMMA UseMoves ==
  ASSUME FleetInv, SnapshotsInv, UseInv, EnvironmentsNext
  PROVE  UseInv'
<1>0. ASSUME UNCHANGED <<fleet, setting>> PROVE InUse' => InUse
  BY <1>0 DEF InUse
<1>1. CASE CreateEnvironment \/ ReconcileOrphanedEnvironments \/ DeleteEnvironmentImage
  <2>1. UNCHANGED <<fleet, setting, lapsed, workspace>> /\ (environment = "ready" => environment' = "ready")
    BY <1>1 DEF CreateEnvironment, ReconcileOrphanedEnvironments, Orphanable, DeleteEnvironmentImage
  <2> QED
    BY <1>0, <2>1, UseRests
<1>2. ASSUME NEW m \in SnapshotManagers, LeaseSnapshot(m) \/ SnapshotManagerDies(m)
      PROVE  UseInv'
  <2>1. UNCHANGED <<fleet, setting, lapsed, workspace, environment>>
    BY <1>2 DEF LeaseSnapshot, SnapshotManagerDies
  <2> QED
    BY <1>0, <2>1, UseRests
<1>3. ASSUME NEW m \in SnapshotManagers, SnapshotStep(m) \/ CommitFails(m)
      PROVE  UseInv'
  <2>1. UNCHANGED <<fleet, setting, lapsed, workspace>>
    BY <1>3 DEF SnapshotStep, CommitFails, ReadEnvironment, MarkBuilding, CommitImage, RecordImage, FailSnapshot, EndSnapshotOp
  <2>2. \/ environment' = environment \/ environment' = "ready"
        \/ environment \in {"pending", "building"}
        \/ snapshotter[m] \in {"build", "commit"}
    BY <1>3 DEF SnapshotStep, CommitFails, ReadEnvironment, MarkBuilding, CommitImage, RecordImage, FailSnapshot, EndSnapshotOp,
                UpdateEnvironmentState
  <2>3. ~lapsed /\ environment = "ready" => environment' = "ready"
    BY <2>2 DEF SnapshotsInv
  <2> QED
    BY <1>0, <2>1, <2>3, UseRests
<1>4. CASE LeaseLapses
  <2>1. UNCHANGED <<fleet, setting, workspace, environment>> /\ (~lapsed' => ~lapsed)
    BY <1>4 DEF LeaseLapses
  <2> QED
    BY <1>0, <2>1, UseRests
<1>5. ASSUME NEW u \in Fleet, CreateMachine(u)
      PROVE  UseInv'
  <2>1. UNCHANGED <<fleet, setting, lapsed, workspace, environment>>
    BY <1>5 DEF CreateMachine
  <2> QED
    BY <1>0, <2>1, UseRests
<1>6. ASSUME NEW u \in Fleet, FleetSettles(u)
      PROVE  UseInv'
  <2>1. /\ UNCHANGED <<setting, lapsed, workspace, environment>>
        /\ fleet[u].status \notin {"none", fleet[u].desired}
        /\ \E s \in {fleet[u].desired, "failed"} : fleet' = [fleet EXCEPT ![u].status = s]
    BY <1>6 DEF FleetSettles
  <2>2. fleet[u].status # "destroyed"
    BY <2>1 DEF FleetInv
  <2>3. fleet'[u].linked = fleet[u].linked /\ \A v \in Fleet \ {u} : fleet'[v] = fleet[v]
    BY <2>1 DEF FleetInv
  <2>4. InUse' => InUse
    BY <2>1, <2>2, <2>3 DEF InUse
  <2> QED
    BY <2>1, <2>4, UseRests
<1>7. ASSUME NEW u \in Fleet, NEW linked \in {"snapshots" \in work}, CreateBundle(u, linked)
      PROVE  UseInv'
  <2>1. UNCHANGED <<setting, lapsed, workspace, environment>>
    BY <1>7 DEF CreateBundle
  <2>2. CASE linked /\ Admissible(linked)
    BY <2>1, <2>2 DEF UseInv, Admissible, EnvironmentReady
  <2>3. CASE ~linked \/ ~Admissible(linked)
    <3>1. \/ fleet' = fleet
          \/ ~linked /\ fleet' = [fleet EXCEPT ![u] = [status |-> "queued", desired |-> "running", linked |-> linked]]
      BY <1>7, <2>3 DEF CreateBundle
    <3>2. \A v \in Fleet : fleet'[v] = fleet[v] \/ ~fleet'[v].linked
      BY <3>1 DEF FleetInv
    <3>3. InUse' => InUse
      BY <2>1, <3>2 DEF InUse
    <3> QED
      BY <2>1, <3>3, UseRests
  <2> QED
    BY <2>2, <2>3
<1>8. ASSUME NEW u \in Fleet, NEW d \in Desires, SetDesired(u, d)
      PROVE  UseInv'
  <2>1. /\ UNCHANGED <<setting, lapsed, workspace, environment>>
        /\ fleet[u].status \in Serves[d]
        /\ fleet' = [fleet EXCEPT ![u].desired = d]
    BY <1>8 DEF SetDesired
  <2>2. fleet[u].status # "destroyed"
    BY <2>1 DEF Serves, Desires
  <2>3. fleet'[u].linked = fleet[u].linked /\ \A v \in Fleet \ {u} : fleet'[v] = fleet[v]
    BY <2>1 DEF FleetInv
  <2>4. InUse' => InUse
    BY <2>1, <2>2, <2>3 DEF InUse
  <2> QED
    BY <2>1, <2>4, UseRests
<1>9. CASE UpdateScopeSetting
  BY <1>9 DEF UpdateScopeSetting, EnvironmentReady, UseInv
<1>10. CASE DeleteScopeSetting \/ DeleteEnvironment
  <2>1. /\ UNCHANGED <<fleet, lapsed, workspace>> /\ setting' = FALSE
        /\ environment = "ready" => environment' = "ready"
    BY <1>10 DEF DeleteScopeSetting, DeleteEnvironment
  <2>2. InUse' => InUse
    BY <2>1 DEF InUse
  <2> QED
    BY <2>1, <2>2, UseRests
<1>11. CASE RequestEnvironmentDeletion
  <2>1. UNCHANGED <<fleet, setting>> /\ ~InUse
    BY <1>11 DEF RequestEnvironmentDeletion
  <2> QED
    BY <1>0, <2>1 DEF UseInv
<1>12. CASE DeleteWorkspace
  BY <1>12 DEF DeleteWorkspace, UseInv
<1> QED
  BY <1>1, <1>2, <1>3, <1>4, <1>5, <1>6, <1>7, <1>8, <1>9, <1>10, <1>11, <1>12, Zenon DEF EnvironmentsNext

LEMMA GoneRests ==
  ASSUME GoneInv, UNCHANGED <<machine, workspace, fleet>>,
         workspace = "deleted" => environment' = environment
  PROVE  GoneInv'
  BY DEF GoneInv

LEMMA GoneMoves ==
  ASSUME FleetInv, SnapshotsInv, GoneInv, machine.status = "destroyed" => machine.desired = "destroyed", EnvironmentsNext
  PROVE  GoneInv'
<1>0. machine' = machine
  BY EnvironmentsKeepMachine
<1>1. CASE \/ CreateEnvironment \/ LeaseLapses \/ ReconcileOrphanedEnvironments \/ RequestEnvironmentDeletion
           \/ DeleteEnvironmentImage \/ DeleteEnvironment \/ UpdateScopeSetting \/ DeleteScopeSetting
  <2>1. UNCHANGED <<workspace, fleet>>
    BY <1>1 DEF CreateEnvironment, LeaseLapses, ReconcileOrphanedEnvironments, RequestEnvironmentDeletion,
                DeleteEnvironmentImage, DeleteEnvironment, UpdateScopeSetting, DeleteScopeSetting
  <2>2. workspace = "deleted" => environment' = environment
    BY <1>1 DEF GoneInv, CreateEnvironment, IsStable, LeaseLapses, ReconcileOrphanedEnvironments, Orphanable,
                RequestEnvironmentDeletion, DeleteEnvironmentImage, DeleteEnvironment, UpdateScopeSetting, DeleteScopeSetting
  <2> QED
    BY <1>0, <2>1, <2>2, GoneRests
<1>2. ASSUME NEW m \in SnapshotManagers, LeaseSnapshot(m) \/ SnapshotManagerDies(m)
      PROVE  GoneInv'
  BY <1>0, <1>2, GoneRests DEF LeaseSnapshot, SnapshotManagerDies
<1>3. ASSUME NEW m \in SnapshotManagers, SnapshotStep(m) \/ CommitFails(m)
      PROVE  GoneInv'
  <2>1. UNCHANGED <<workspace, fleet>> /\ snapshotter[m] # "idle"
    BY <1>3 DEF SnapshotStep, CommitFails, ReadEnvironment, MarkBuilding, CommitImage, RecordImage, FailSnapshot, EndSnapshotOp
  <2>2. environment # "none"
    BY <2>1 DEF SnapshotsInv, Snapshotting
  <2>3. environment = "gone" => environment' = environment
    BY <1>3 DEF SnapshotStep, CommitFails, ReadEnvironment, MarkBuilding, CommitImage, RecordImage, FailSnapshot, EndSnapshotOp,
                UpdateEnvironmentState, Updatable
  <2> QED
    BY <1>0, <2>1, <2>2, <2>3, GoneRests DEF GoneInv
<1>4. ASSUME NEW u \in Fleet, CreateMachine(u)
      PROVE  GoneInv'
  BY <1>0, <1>4, GoneRests DEF CreateMachine
<1>5. ASSUME NEW u \in Fleet, NEW linked \in {"snapshots" \in work}, CreateBundle(u, linked)
      PROVE  GoneInv'
  <2>1. UNCHANGED <<workspace, environment>> /\ (workspace = "deleted" => fleet' = fleet)
    BY <1>5 DEF CreateBundle, Admissible
  <2> QED
    BY <1>0, <2>1 DEF GoneInv
<1>6. ASSUME NEW u \in Fleet, FleetSettles(u) \/ \E d \in Desires : SetDesired(u, d)
      PROVE  GoneInv'
  <2>1. UNCHANGED <<workspace, environment>>
    BY <1>6 DEF FleetSettles, SetDesired
  <2>2. fleet[u].status # "none" /\ fleet[u].status # "destroyed"
    <3>1. CASE FleetSettles(u)
      BY <3>1 DEF FleetSettles, FleetInv
    <3>2. CASE \E d \in Desires : SetDesired(u, d)
      BY <3>2 DEF SetDesired, Serves, Desires
    <3> QED
      BY <1>6, <3>1, <3>2
  <2> QED
    BY <2>1, <2>2 DEF GoneInv
<1>7. CASE DeleteWorkspace
  <2>1. CASE WorkspaceHasEnvironments
    BY <1>7, <2>1 DEF DeleteWorkspace, GoneInv
  <2>2. CASE ~WorkspaceHasEnvironments
    BY <1>0, <1>7, <2>2 DEF DeleteWorkspace, WorkspaceHasEnvironments, GoneInv
  <2> QED
    BY <2>1, <2>2
<1> QED
  BY <1>1, <1>2, <1>3, <1>4, <1>5, <1>6, <1>7, Zenon DEF EnvironmentsNext

-----------------------------------------------------------------------------
(* The quota *)

Counted == {u \in Fleet : Counts(u)}

LEMMA CountsOneMore ==
  ASSUME NEW u \in Fleet, \A v \in Fleet \ {u} : fleet'[v] = fleet[v]
  PROVE  /\ CountActiveMachines \in Nat /\ CountActiveMachines' \in Nat
         /\ CountActiveMachines' <= CountActiveMachines + 1
         /\ (Counts(u)' => Counts(u)) => CountActiveMachines' <= CountActiveMachines
<1>1. CountActiveMachines = Cardinality(Counted) /\ CountActiveMachines' = Cardinality(Counted')
  BY DEF CountActiveMachines, Counted
<1>2. Counted' \subseteq Counted \cup {u} /\ ((Counts(u)' => Counts(u)) => Counted' \subseteq Counted)
  BY DEF Counted, Counts
<1>3. IsFiniteSet(Counted) /\ IsFiniteSet(Counted')
  BY EnvironmentsAssumption, FS_Subset DEF Counted
<1>4. IsFiniteSet(Counted \cup {u}) /\ Cardinality(Counted \cup {u}) <= Cardinality(Counted) + 1
  BY <1>3, FS_AddElement, FS_CardinalityType
<1> QED
  BY <1>1, <1>2, <1>3, <1>4, FS_Subset, FS_CardinalityType

\* A step that takes the workspace further above its quota is a pass that pauses
\* a failed machine again.
Overdraws ==
  CountActiveMachines' > CountActiveMachines /\ CountActiveMachines' > Quota =>
    \E u \in Fleet : fleet[u].status = "failed" /\ fleet'[u].status = "paused"

LEMMA FleetStays == ASSUME fleet' = fleet PROVE Overdraws
<1>1. CountActiveMachines' = CountActiveMachines
  BY DEF CountActiveMachines, Counts
<1>2. CountActiveMachines \in Nat
  BY EnvironmentsAssumption, FS_Subset, FS_CardinalityType DEF CountActiveMachines
<1> QED
  BY <1>1, <1>2 DEF Overdraws

LEMMA QuotaStep ==
  ASSUME FleetInv, EnvironmentsNext
  PROVE  Overdraws
<1>0. Quota \in Nat
  BY EnvironmentsAssumption
<1>1. ASSUME NEW u \in Fleet, \A v \in Fleet \ {u} : fleet'[v] = fleet[v],
             CountActiveMachines < Quota \/ (Counts(u)' => Counts(u))
      PROVE  Overdraws
  BY <1>0, <1>1, CountsOneMore DEF Overdraws
<1>2. ASSUME NEW u \in Fleet, NEW linked \in {"snapshots" \in work}, CreateBundle(u, linked)
      PROVE  Overdraws
  <2>1. CASE Admissible(linked)
    <3>1. CountActiveMachines < Quota /\ \A v \in Fleet \ {u} : fleet'[v] = fleet[v]
      BY <1>2, <2>1 DEF CreateBundle, Admissible
    <3> QED
      BY <1>1, <3>1
  <2>2. CASE ~Admissible(linked)
    BY <1>2, <2>2, FleetStays DEF CreateBundle
  <2> QED
    BY <2>1, <2>2
<1>3. ASSUME NEW u \in Fleet, NEW d \in Desires, SetDesired(u, d)
      PROVE  Overdraws
  <2>1. /\ fleet' = [fleet EXCEPT ![u].desired = d] /\ fleet[u].status \in Serves[d]
        /\ d = "running" /\ fleet[u].status \in {"stopped", "failed"} => CountActiveMachines < Quota
    BY <1>3 DEF SetDesired
  <2>2. /\ fleet'[u].status = fleet[u].status /\ fleet'[u].desired = d
        /\ \A v \in Fleet \ {u} : fleet'[v] = fleet[v]
    BY <2>1 DEF FleetInv
  <2>3. CountActiveMachines < Quota \/ (Counts(u)' => Counts(u))
    <3>1. CASE d = "running"
      <4>1. fleet[u].status \in {"paused", "stopped", "failed"}
        BY <2>1, <3>1 DEF Serves
      <4> QED
        BY <2>1, <3>1, <4>1 DEF Counts
    <3>2. CASE d # "running"
      BY <2>2, <3>2 DEF Counts
    <3> QED
      BY <3>1, <3>2
  <2> QED
    BY <1>1, <2>2, <2>3
<1>4. ASSUME NEW u \in Fleet, FleetSettles(u)
      PROVE  Overdraws
  <2>1. PICK s \in {fleet[u].desired, "failed"} : fleet' = [fleet EXCEPT ![u].status = s]
    BY <1>4 DEF FleetSettles
  <2>2. /\ fleet'[u].status = s /\ fleet'[u].desired = fleet[u].desired
        /\ \A v \in Fleet \ {u} : fleet'[v] = fleet[v]
    BY <2>1 DEF FleetInv
  <2>3. fleet[u].status \notin {"none", fleet[u].desired}
    BY <1>4 DEF FleetSettles
  <2>4. CASE fleet[u].status = "failed" /\ s = "paused"
    BY <2>2, <2>4 DEF Overdraws
  <2>5. CASE ~(fleet[u].status = "failed" /\ s = "paused")
    <3>1. ASSUME Counts(u)' PROVE Counts(u)
      <4>1. s \notin {"destroyed", "failed", "stopped"} \/ fleet[u].desired = "running"
        BY <2>2, <3>1 DEF Counts
      <4>2. CASE fleet[u].desired = "running"
        BY <2>3, <4>2 DEF Counts
      <4>3. CASE fleet[u].desired = "paused" /\ s = "paused"
        BY <2>3, <2>5, <4>3 DEF Counts, FleetInv
      <4>4. fleet[u].desired \in {"running", "paused", "stopped", "destroyed"}
        BY DEF FleetInv, Desires
      <4> QED
        BY <4>1, <4>2, <4>3, <4>4
    <3> QED
      BY <1>1, <2>2, <3>1
  <2> QED
    BY <2>4, <2>5
<1>5. CASE \/ CreateEnvironment \/ LeaseLapses \/ ReconcileOrphanedEnvironments \/ UpdateScopeSetting \/ DeleteScopeSetting
           \/ RequestEnvironmentDeletion \/ DeleteEnvironmentImage \/ DeleteEnvironment \/ DeleteWorkspace
  <2>1. fleet' = fleet
    BY <1>5 DEF CreateEnvironment, LeaseLapses, ReconcileOrphanedEnvironments, UpdateScopeSetting, DeleteScopeSetting,
       RequestEnvironmentDeletion, DeleteEnvironmentImage, DeleteEnvironment, DeleteWorkspace
  <2> QED
    BY <2>1, FleetStays
<1>6. ASSUME NEW m \in SnapshotManagers, LeaseSnapshot(m) \/ SnapshotStep(m) \/ CommitFails(m) \/ SnapshotManagerDies(m)
      PROVE  Overdraws
  <2>1. fleet' = fleet
    BY <1>6 DEF LeaseSnapshot, SnapshotStep, CommitFails, SnapshotManagerDies, ReadEnvironment, MarkBuilding, CommitImage,
       RecordImage, FailSnapshot, EndSnapshotOp
  <2> QED
    BY <2>1, FleetStays
<1>7. ASSUME NEW u \in Fleet, CreateMachine(u)
      PROVE  Overdraws
  BY <1>7, FleetStays DEF CreateMachine
<1> QED
  BY <1>2, <1>3, <1>4, <1>5, <1>6, <1>7, Zenon DEF EnvironmentsNext

-----------------------------------------------------------------------------
(* Theorems about environments *)

TornDown == machine.status = "destroyed" => machine.desired = "destroyed"

EnvironmentsInv == FleetInv /\ SnapshotsInv /\ UseInv /\ GoneInv /\ TornDown

\* Users and handlers move no machine that was torn down.
LEMMA TeardownStays ==
  ASSUME MachineTyped, TornDown, MachineMoves \/ Revoke
  PROVE  /\ TornDown'
         /\ machine.status = "destroyed" => machine'.status = "destroyed" /\ machine'.desired = "destroyed"
<1>1. CASE Revoke
  BY <1>1 DEF Revoke, MarkRevoked, TornDown, MachineTyped
<1>2. CASE \E d \in Desires \ (RunsRefuse \cup SnapshotRefuses) : Request(d)
  <2>1. PICK d \in Desires : Request(d)
    BY <1>2
  <2>2. machine.status # "destroyed" /\ machine'.status = machine.status
    BY <2>1 DEF Request, Serves, Desires, MachineTyped
  <2> QED
    BY <2>2 DEF TornDown
<1>3. CASE Settle
  <2>1. machine'.status = machine.desired /\ machine'.desired = machine.desired /\ machine.status # machine.desired
    BY <1>3 DEF Settle, MachineTyped
  <2> QED
    BY <2>1 DEF TornDown
<1>4. CASE SettleFails
  <2>1. machine'.status = "failed" /\ machine'.desired = machine.desired /\ machine.status # machine.desired
    BY <1>4 DEF SettleFails, MachineTyped
  <2> QED
    BY <2>1 DEF TornDown
<1>5. MachineMoves => MachineStep(RunsRefuse \cup SnapshotRefuses)
  BY DEF MachineMoves
<1> QED
  BY <1>1, <1>2, <1>3, <1>4, <1>5 DEF MachineStep

\* The machine row is all that the environments share with the rest.
LEMMA EnvironmentsRest ==
  ASSUME EnvironmentsInv, UNCHANGED environments, TornDown',
         machine.status = "destroyed" => machine'.status = "destroyed" /\ machine'.desired = "destroyed"
  PROVE  EnvironmentsInv'
<1>1. UNCHANGED <<environment, image, snapshotOp, snapshotter, setting, fleet, workspace, lapsed>>
  BY DEF environments
<1>2. FleetInv'
  BY <1>1 DEF EnvironmentsInv, FleetInv
<1>3. SnapshotsInv'
  BY <1>1 DEF EnvironmentsInv, SnapshotsInv, SnapshotActive, Snapshotting, Deleting
<1>4. UseInv'
  BY <1>1 DEF EnvironmentsInv, UseInv, InUse
<1>5. GoneInv'
  BY <1>1 DEF EnvironmentsInv, GoneInv
<1> QED
  BY <1>2, <1>3, <1>4, <1>5 DEF EnvironmentsInv

LEMMA AccessKeepsMachine == AccessNext => Revoke \/ machine' = machine
<1>1. \A g \in Gateways, t \in Tickets : IssueTicket(g, t) \/ Consume(g, t) => machine' = machine
  BY DEF IssueTicket, Consume
<1>2. \A g \in Gateways : TicketCommits(g) \/ SelectSession(g) \/ SessionCommits(g) \/ Connect(g) \/ Abandon(g)
                            => machine' = machine
  BY DEF TicketCommits, SelectSession, SessionCommits, Connect, Abandon
<1>3. OpenTerminal \/ RequestTerminalSessionClose \/ LeaseClose \/ TerminateTerminal \/ CompleteTerminalSessionClose
      \/ TerminateFails \/ FailTerminalSessionClose \/ MemberLeaves => machine' = machine
  BY DEF OpenTerminal, RequestTerminalSessionClose, LeaseClose, TerminateTerminal, CompleteTerminalSessionClose,
         TerminateFails, FailTerminalSessionClose, MemberLeaves
<1> QED
  BY <1>1, <1>2, <1>3 DEF AccessNext

LEMMA EnvironmentsInvariant == WorkSpec => []EnvironmentsInv
<1>1. WorkInit => EnvironmentsInv
  <2> SUFFICES ASSUME WorkInit PROVE EnvironmentsInv
    OBVIOUS
  <2>1. /\ environment = "none" /\ image = FALSE /\ setting = FALSE /\ lapsed = FALSE /\ workspace = "live"
        /\ snapshotter = [m \in SnapshotManagers |-> "idle"]
        /\ fleet = [u \in Fleet |-> [status |-> "none", desired |-> "running", linked |-> FALSE]]
        /\ snapshotOp \in [status : {"none"}, owner : {CHOOSE m \in SnapshotManagers : TRUE}, attempts : {0}, generation : {0}]
    BY DEF WorkInit, EnvironmentsInit
  <2>2. machine.status = "running"
    BY DEF WorkInit, MachineInit
  <2>3. FleetInv
    BY <2>1 DEF FleetInv, Desires
  <2>4. SnapshotsInv
    BY <2>1 DEF SnapshotsInv, SnapshotPcs, Snapshotting, SnapshotActive
  <2>5. UseInv
    BY <2>1 DEF UseInv, InUse
  <2> QED
    BY <2>1, <2>2, <2>3, <2>4, <2>5 DEF EnvironmentsInv, GoneInv, TornDown
<1>2. EnvironmentsInv /\ SessionsInv /\ [WorkNext]_workVars => EnvironmentsInv'
  <2> SUFFICES ASSUME EnvironmentsInv, MachineTyped, [WorkNext]_workVars PROVE EnvironmentsInv'
    BY DEF SessionsInv
  <2>1. ASSUME UNCHANGED <<machine, environments>> PROVE EnvironmentsInv'
    <3>1. TornDown' /\ (machine.status = "destroyed" => machine'.status = "destroyed" /\ machine'.desired = "destroyed")
      BY <2>1 DEF EnvironmentsInv, TornDown
    <3> QED
      BY <2>1, <3>1, EnvironmentsRest
  <2>2. ASSUME MachineMoves \/ Revoke, UNCHANGED environments PROVE EnvironmentsInv'
    BY <2>2, TeardownStays, EnvironmentsRest DEF EnvironmentsInv
  <2>3. CASE MachineMoves
    BY <2>2, <2>3 DEF MachineMoves, EnvironmentsFollow
  <2>4. CASE AccessNext /\ UNCHANGED environments
    BY <2>1, <2>2, <2>4, AccessKeepsMachine
  <2>5. CASE (RunsNext \/ CheckoutsNext) /\ UNCHANGED environments
    BY <2>1, <2>5, RunsKeepMachine, CheckoutsKeepMachine
  <2>6. CASE EnvironmentsNext
    <3>1. machine' = machine
      BY <2>6, EnvironmentsKeepMachine
    <3> QED
      BY <2>6, <3>1, FleetMoves, SnapshotsMove, UseMoves, GoneMoves DEF EnvironmentsInv, TornDown
  <2>7. CASE UNCHANGED workVars
    BY <2>1, <2>7 DEF workVars
  <2> QED
    BY <2>3, <2>4, <2>5, <2>6, <2>7 DEF WorkNext
<1> QED
  BY <1>1, <1>2, SessionsInvariant, PTL DEF WorkSpec

\* What a machine or a scope setting is made from is ready and has its image,
\* however creations, starts and settings race with deletions and with a second
\* attempt at the snapshot (CreateBundle, RequestEnvironmentDeletion).
THEOREM UsedEnvironmentsAreReady == WorkSpec => []UsedEnvironmentIsReady
<1>1. EnvironmentsInv => UsedEnvironmentIsReady
  BY DEF EnvironmentsInv, UseInv, SnapshotsInv, UsedEnvironmentIsReady
<1> QED
  BY <1>1, EnvironmentsInvariant, PTL

\* A deleted environment has no image, unless a handler outlived its lease
\* (DeleteEnvironmentImage, DeleteEnvironment).
THEOREM DeletedEnvironmentsLeaveNoImage == WorkSpec => []DeletedLeavesNoImage
<1>1. EnvironmentsInv => DeletedLeavesNoImage
  BY DEF EnvironmentsInv, SnapshotsInv, DeletedLeavesNoImage
<1> QED
  BY <1>1, EnvironmentsInvariant, PTL

\* Nothing in Docker survives the rows of a workspace
\* (WorkspaceRepository.Delete).
THEOREM DeletedWorkspacesLeaveNothing == WorkSpec => []DeletedWorkspaceLeavesNothing
<1>1. EnvironmentsInv => DeletedWorkspaceLeavesNothing
  BY DEF EnvironmentsInv, SnapshotsInv, GoneInv, DeletedWorkspaceLeavesNothing
<1> QED
  BY <1>1, EnvironmentsInvariant, PTL

\* No request takes a workspace above its quota, whatever was admitted between
\* its check and its transaction (CreateBundle, SetDesiredAndEnqueue).
THEOREM QuotasAreKept == WorkSpec => QuotaIsKept
<1>1. EnvironmentsInv /\ [WorkNext]_workVars =>
        [Overdraws]_environments
  <2> SUFFICES ASSUME EnvironmentsInv, [WorkNext]_workVars, ~UNCHANGED environments
               PROVE  Overdraws
    OBVIOUS
  <2>1. EnvironmentsNext
    BY DEF WorkNext, workVars, MachineMoves, EnvironmentsFollow
  <2> QED
    BY <2>1, QuotaStep DEF EnvironmentsInv
<1> QED
  BY <1>1, EnvironmentsInvariant, PTL DEF WorkSpec, QuotaIsKept, Overdraws

-----------------------------------------------------------------------------
(* Checkouts *)

CheckoutsTyped ==
  /\ checkout \in {"none", "queued", "preparing", "ready", "failed"}
  /\ asking \in [Requests -> {"idle", "none", "failed", "done"}]
  /\ checkoutOp \in [Keys -> [status : {"none", "pending", "leased", "expired", "completed", "failed", "cancelled"},
                              attempts : Nat, generation : Nat]]
  /\ preparer \in [pc : {"idle", "read", "stale", "preparing", "prepare", "ready", "done", "fail", "failCheckout"},
                   key : Keys]
  /\ overtaken \in BOOLEAN
  /\ checkoutFaults \in Nat

\* No request committed late, no call failed and no manager died.
Tidy == ~overtaken /\ checkoutFaults = 0

Waiting(k) == checkoutOp[k].status = "pending"
Tries(k) == checkoutOp[k].attempts + (IF Waiting(k) THEN 1 ELSE 0)
Working == preparer.pc \in {"read", "stale", "preparing", "prepare", "ready", "fail"}

\* The queue of the checkout: the handler has the one lease.
OneServes ==
  /\ \A k \in Keys : /\ checkoutOp[k].status # "expired"
                     /\ checkoutOp[k].status = "leased" <=> preparer.pc # "idle" /\ preparer.key = k
  /\ preparer.pc # "failCheckout"

\* An operation is queued or served only for a checkout that waits for it.
ServesWaiting ==
  /\ \A j, k \in Keys : Waiting(j) /\ Waiting(k) => j = k
  /\ checkout \in {"none", "ready", "failed"} => \A k \in Keys : ~Waiting(k)
  /\ Working => checkout \in {"queued", "preparing"} /\ \A k \in Keys : ~Waiting(k)

\* An operation of the current generation finds the machine running, so it is
\* tried once.
TriedOnce ==
  /\ \A k \in Keys : checkoutOp[k].status \in {"pending", "leased"} =>
       /\ checkoutOp[k].generation <= machine.generation
       /\ checkoutOp[k].generation = machine.generation => Usable /\ Tries(k) <= 1
  /\ preparer.pc \in {"preparing", "prepare", "ready", "fail"} => Tries(preparer.key) <= 1
  /\ preparer.pc = "fail" => checkoutOp[preparer.key].generation < machine.generation

CheckoutsInv == CheckoutsTyped /\ (Tidy => OneServes /\ ServesWaiting /\ TriedOnce)

\* Steps of the handler that leave the queue alone.
LEMMA PreparerGoes ==
  ASSUME CheckoutsInv, UNCHANGED <<machine, asking, checkoutOp, overtaken, checkoutFaults>>,
         NEW pc \in {"read", "stale", "preparing", "prepare", "ready", "done", "fail"}, PreparerMoves(pc),
         preparer.pc # "idle",
         checkout' \in {"none", "queued", "preparing", "ready", "failed"},
         Tidy => /\ pc # "done" => Working /\ checkout' \in {"queued", "preparing"}
                 /\ checkout' = checkout \/ Working
                 /\ pc \in {"preparing", "prepare", "ready", "fail"} => Tries(preparer.key) <= 1
                 /\ pc = "fail" => checkoutOp[preparer.key].generation < machine.generation
  PROVE  CheckoutsInv'
<1>1. /\ preparer'.pc = pc /\ preparer'.key = preparer.key
      /\ preparer' \in [pc : {"idle", "read", "stale", "preparing", "prepare", "ready", "done", "fail", "failCheckout"}, key : Keys]
  BY DEF PreparerMoves, CheckoutsInv, CheckoutsTyped
<1>2. CheckoutsTyped'
  BY <1>1 DEF CheckoutsInv, CheckoutsTyped
<1>3. Tidy' => Tidy
  BY DEF Tidy
<1>4. \A k \in Keys : Waiting(k)' = Waiting(k) /\ Tries(k)' = Tries(k)
  BY DEF Waiting, Tries
<1>5. Tidy => OneServes'
  BY <1>1 DEF CheckoutsInv, OneServes
<1>6. Tidy => ServesWaiting'
  <2>1. Working' => pc # "done"
    BY <1>1 DEF Working
  <2> QED
    BY <1>1, <1>4, <2>1 DEF CheckoutsInv, ServesWaiting
<1>7. Tidy => TriedOnce'
  <2>1. Tries(preparer.key)' = Tries(preparer.key) /\ preparer.key \in Keys
    BY <1>1, <1>4 DEF CheckoutsInv, CheckoutsTyped
  <2> QED
    BY <1>1, <1>4, <2>1 DEF CheckoutsInv, TriedOnce, Usable
<1> QED
  BY <1>2, <1>3, <1>5, <1>6, <1>7 DEF CheckoutsInv

LEMMA PreparerStepKeeps ==
  ASSUME CheckoutsInv, MachineTyped,
         ReadCheckout \/ FailStale \/ MarkPreparing \/ PrepareCheckout \/ MarkReady \/ PrepareFails
  PROVE  CheckoutsInv'
<1> DEFINE k == preparer.key
<1>0. /\ k \in Keys /\ checkoutOp[k].generation \in Nat /\ machine.generation \in Nat
      /\ checkout \in {"none", "queued", "preparing", "ready", "failed"}
  BY DEF CheckoutsInv, CheckoutsTyped, MachineTyped
<1>1. Tidy /\ preparer.pc # "idle" =>
        /\ checkoutOp[k].status = "leased"
        /\ Working => checkout \in {"queued", "preparing"}
        /\ checkoutOp[k].generation <= machine.generation
        /\ checkoutOp[k].generation = machine.generation => Usable /\ Tries(k) <= 1
        /\ preparer.pc \in {"preparing", "prepare", "ready", "fail"} => Tries(k) <= 1
  BY <1>0 DEF CheckoutsInv, OneServes, ServesWaiting, TriedOnce
<1>2. CASE ReadCheckout
  <2>1. /\ preparer.pc = "read" /\ UNCHANGED <<machine, checkout, asking, checkoutOp, overtaken, checkoutFaults>>
        /\ PreparerMoves(IF checkoutOp[k].generation < machine.generation THEN "stale"
                         ELSE IF checkout = "ready" THEN "done" ELSE "preparing")
    BY <1>2 DEF ReadCheckout, PreparerAt
  <2>2. PICK pc \in {"stale", "done", "preparing"} :
          PreparerMoves(pc) /\ (pc = "preparing" => ~(checkoutOp[k].generation < machine.generation))
    BY <2>1
  <2>3. Tidy /\ pc = "preparing" => Tries(k) <= 1
    BY <1>0, <1>1, <2>1, <2>2
  <2> QED
    BY <1>0, <1>1, <2>1, <2>2, <2>3, PreparerGoes DEF Working
<1>3. CASE FailStale \/ MarkReady
  <2>1. /\ preparer.pc \in {"stale", "ready"} /\ UNCHANGED <<machine, asking, checkoutOp, overtaken, checkoutFaults>>
        /\ PreparerMoves("done") /\ checkout' \in {"failed", "ready"}
    BY <1>3 DEF FailStale, MarkReady, PreparerAt, UpdateCheckoutState
  <2> QED
    BY <2>1, PreparerGoes DEF Working
<1>4. CASE MarkPreparing
  <2>1. /\ preparer.pc = "preparing" /\ UNCHANGED <<machine, asking, checkoutOp, overtaken, checkoutFaults>>
        /\ PreparerMoves("prepare") /\ checkout' = "preparing"
    BY <1>4 DEF MarkPreparing, PreparerAt, UpdateCheckoutState
  <2> QED
    BY <1>1, <2>1, PreparerGoes DEF Working
<1>5. CASE PrepareCheckout
  <2>1. /\ preparer.pc = "prepare" /\ UNCHANGED <<machine, checkout, asking, checkoutOp, overtaken, checkoutFaults>>
        /\ PreparerMoves("ready")
    BY <1>5 DEF PrepareCheckout, PreparerAt
  <2> QED
    BY <1>0, <1>1, <2>1, PreparerGoes DEF Working
<1>6. CASE PrepareFails
  <2>1. /\ preparer.pc = "prepare" /\ UNCHANGED <<machine, checkout, asking, checkoutOp, overtaken, checkoutFaults>>
        /\ PreparerMoves("fail") /\ machine.status # "running"
    BY <1>6 DEF PrepareFails, PreparerAt
  <2>2. Tidy => checkoutOp[k].generation < machine.generation
    BY <1>0, <1>1, <2>1 DEF Usable
  <2> QED
    BY <1>0, <1>1, <2>1, <2>2, PreparerGoes DEF Working
<1> QED
  BY <1>2, <1>3, <1>4, <1>5, <1>6

\* The end of an attempt.
LEMMA AttemptEnds ==
  ASSUME CheckoutsInv, MachineTyped, NEW status \in {"completed", "failed", "pending"},
         preparer.pc \in {"done", "fail"},
         checkoutOp' = [checkoutOp EXCEPT ![preparer.key].status = status],
         UNCHANGED <<machine, checkout, asking, overtaken, checkoutFaults>>,
         preparer' = [preparer EXCEPT !.pc = IF status = "failed" THEN "failCheckout" ELSE "idle"],
         status = "completed" \/ preparer.pc = "fail",
         status = "failed" => checkoutOp[preparer.key].attempts > 1
  PROVE  CheckoutsInv'
<1>0. PICK k \in Keys : k = preparer.key
  BY DEF CheckoutsInv, CheckoutsTyped
<1>1. checkoutOp[k] = [status |-> checkoutOp[k].status, attempts |-> checkoutOp[k].attempts, generation |-> checkoutOp[k].generation]
      /\ checkoutOp[k].attempts \in Nat /\ checkoutOp[k].generation \in Nat
  BY DEF CheckoutsInv, CheckoutsTyped
<1>2. /\ checkoutOp'[k] = [status |-> status, attempts |-> checkoutOp[k].attempts, generation |-> checkoutOp[k].generation]
      /\ \A j \in Keys \ {k} : checkoutOp'[j] = checkoutOp[j]
      /\ checkoutOp' \in [Keys -> [status : {"none", "pending", "leased", "expired", "completed", "failed", "cancelled"},
                              attempts : Nat, generation : Nat]]
  <2>1. checkoutOp' = [checkoutOp EXCEPT ![k] = [status |-> status, attempts |-> checkoutOp[k].attempts, generation |-> checkoutOp[k].generation]]
    <3>1. [checkoutOp[k] EXCEPT !.status = status]
            = [status |-> status, attempts |-> checkoutOp[k].attempts, generation |-> checkoutOp[k].generation]
      BY <1>1
    <3> QED
      BY <1>0, <3>1
  <2> QED
    BY <1>1, <2>1 DEF CheckoutsInv, CheckoutsTyped
<1>3. /\ preparer'.key = k /\ preparer'.pc = IF status = "failed" THEN "failCheckout" ELSE "idle"
      /\ preparer' \in [pc : {"idle", "read", "stale", "preparing", "prepare", "ready", "done", "fail", "failCheckout"}, key : Keys]
  BY <1>0 DEF CheckoutsInv, CheckoutsTyped
<1>4. CheckoutsTyped'
  BY <1>2, <1>3 DEF CheckoutsInv, CheckoutsTyped
<1>5. SUFFICES ASSUME Tidy PROVE OneServes' /\ ServesWaiting' /\ TriedOnce'
  BY <1>4 DEF CheckoutsInv, Tidy
<1>6. OneServes /\ ServesWaiting /\ TriedOnce
  BY <1>5 DEF CheckoutsInv
<1>7. checkoutOp[k].status = "leased" /\ \A j \in Keys \ {k} : checkoutOp[j].status # "leased"
  BY <1>0, <1>6 DEF OneServes
<1>8. preparer.pc = "fail" => /\ checkoutOp[k].attempts <= 1 /\ checkoutOp[k].generation < machine.generation
                              /\ checkout \in {"queued", "preparing"} /\ \A j \in Keys : ~Waiting(j)
  BY <1>0, <1>1, <1>6, <1>7 DEF TriedOnce, ServesWaiting, Working, Tries, Waiting
<1>9. status # "failed"
  BY <1>0, <1>1, <1>8
<1>10. OneServes'
  BY <1>2, <1>3, <1>6, <1>7, <1>9 DEF OneServes
<1>11. \A j \in Keys \ {k} : Waiting(j)' = Waiting(j) /\ Tries(j)' = Tries(j)
  BY <1>2 DEF Waiting, Tries
<1>12. ServesWaiting'
  <2>1. CASE status = "completed"
    BY <1>2, <1>3, <1>6, <1>11, <2>1 DEF ServesWaiting, Waiting, Working
  <2>2. CASE status = "pending"
    BY <1>2, <1>3, <1>8, <1>11, <2>2 DEF ServesWaiting, Working, Waiting
  <2> QED
    BY <1>9, <2>1, <2>2
<1>13. TriedOnce'
  <2>1. CASE status = "completed"
    BY <1>1, <1>2, <1>3, <1>6, <1>11, <2>1 DEF TriedOnce, Usable
  <2>2. CASE status = "pending"
    BY <1>1, <1>2, <1>3, <1>6, <1>8, <1>11, <2>2 DEF TriedOnce, Usable, MachineTyped
  <2> QED
    BY <1>9, <2>1, <2>2
<1> QED
  BY <1>10, <1>12, <1>13

\* Once a call has failed or a request was overtaken there is nothing to show.
LEMMA UntidyKeeps == ASSUME CheckoutsTyped', ~Tidy' PROVE CheckoutsInv'
  BY DEF CheckoutsInv

LEMMA LeaseCheckoutKeeps ==
  ASSUME CheckoutsInv, MachineTyped, NEW k \in Keys, LeaseCheckout(k)
  PROVE  CheckoutsInv'
<1>1. /\ preparer.pc = "idle" /\ checkoutOp[k].status \in {"pending", "expired"} /\ preparer' = [pc |-> "read", key |-> k]
      /\ UNCHANGED <<machine, checkout, asking, overtaken, checkoutFaults>>
  BY DEF LeaseCheckout, PreparerAt
<1>2. checkoutOp' = [checkoutOp EXCEPT ![k] = [status |-> "leased", attempts |-> checkoutOp[k].attempts + 1,
                                                generation |-> checkoutOp[k].generation]]
  BY DEF LeaseCheckout
<1>3. /\ checkoutOp'[k] = [status |-> "leased", attempts |-> checkoutOp[k].attempts + 1, generation |-> checkoutOp[k].generation]
      /\ \A j \in Keys \ {k} : checkoutOp'[j] = checkoutOp[j]
      /\ checkoutOp[k].attempts \in Nat /\ checkoutOp[k].generation \in Nat
  BY <1>2 DEF CheckoutsInv, CheckoutsTyped
<1>4. CheckoutsTyped'
  BY <1>1, <1>2, <1>3 DEF CheckoutsInv, CheckoutsTyped
<1>5. SUFFICES ASSUME Tidy PROVE OneServes' /\ ServesWaiting' /\ TriedOnce'
  BY <1>1, <1>4 DEF CheckoutsInv, Tidy
<1>6. OneServes /\ ServesWaiting /\ TriedOnce
  BY <1>5 DEF CheckoutsInv
<1>7. Waiting(k) /\ \A j \in Keys \ {k} : ~Waiting(j) /\ checkoutOp[j].status # "leased"
  BY <1>1, <1>6 DEF OneServes, ServesWaiting, Waiting
<1>8. checkout \in {"queued", "preparing"}
  BY <1>6, <1>7 DEF ServesWaiting, CheckoutsInv, CheckoutsTyped
<1>9. \A j \in Keys : ~Waiting(j)'
  BY <1>3, <1>7 DEF Waiting
<1>10. OneServes'
  BY <1>1, <1>3, <1>6, <1>7 DEF OneServes
<1>11. ServesWaiting'
  BY <1>1, <1>8, <1>9 DEF ServesWaiting
<1>12. TriedOnce'
  <2>1. Tries(k)' = Tries(k) /\ \A j \in Keys \ {k} : checkoutOp'[j].status \notin {"pending", "leased"}
    BY <1>3, <1>7 DEF Tries, Waiting
  <2> QED
    BY <1>1, <1>3, <1>6, <1>7, <2>1 DEF TriedOnce, Waiting, Usable
<1> QED
  BY <1>10, <1>11, <1>12

LEMMA CreateCheckoutKeeps ==
  ASSUME CheckoutsInv, MachineTyped, NEW q \in Requests, CreateCheckout(q)
  PROVE  CheckoutsInv'
<1>1. /\ UNCHANGED <<machine, preparer, checkoutFaults>> /\ asking' = [asking EXCEPT ![q] = "done"]
      /\ asking[q] \in {"none", "failed"}
  BY DEF CreateCheckout
<1>2. CASE ~Usable
  <2>1. UNCHANGED <<checkout, overtaken, checkoutOp>>
    BY <1>2 DEF CreateCheckout
  <2>2. CheckoutsTyped'
    BY <1>1, <2>1 DEF CheckoutsInv, CheckoutsTyped
  <2> QED
    BY <1>1, <2>1, <2>2 DEF CheckoutsInv, Tidy, OneServes, ServesWaiting, TriedOnce, Usable, Waiting, Tries, Working
<1>3. CASE Usable
  <2>0. PICK k \in Keys : k = IF asking[q] = "none" THEN First ELSE q
    BY DEF Keys
  <2>1. /\ checkout' = "queued" /\ overtaken' = (overtaken \/ checkout # asking[q])
        /\ checkoutOp' = IF checkoutOp[k].status = "none"
                         THEN [checkoutOp EXCEPT ![k] = [status |-> "pending", attempts |-> 0, generation |-> machine.generation]]
                         ELSE checkoutOp
    BY <1>3, <2>0 DEF CreateCheckout
  <2>2. machine.generation \in Nat
    BY DEF MachineTyped
  <2>3. CheckoutsTyped'
    BY <1>1, <2>1, <2>2 DEF CheckoutsInv, CheckoutsTyped
  <2>4. SUFFICES ASSUME Tidy, checkout = asking[q] PROVE OneServes' /\ ServesWaiting' /\ TriedOnce'
    BY <1>1, <2>1, <2>3 DEF CheckoutsInv, Tidy
  <2>5. OneServes /\ ServesWaiting /\ TriedOnce
    BY <2>4 DEF CheckoutsInv
  <2>6. ~Working /\ \A j \in Keys : ~Waiting(j)
    BY <1>1, <2>4, <2>5 DEF ServesWaiting
  <2>7. CASE checkoutOp[k].status # "none"
    <3>1. checkoutOp' = checkoutOp
      BY <2>1, <2>7
    <3> QED
      BY <1>1, <2>1, <2>5, <2>6, <3>1 DEF OneServes, ServesWaiting, TriedOnce, Usable, Waiting, Tries, Working
  <2>8. CASE checkoutOp[k].status = "none"
    <3>1. /\ checkoutOp'[k] = [status |-> "pending", attempts |-> 0, generation |-> machine.generation]
          /\ \A j \in Keys \ {k} : checkoutOp'[j] = checkoutOp[j]
      BY <2>1, <2>8 DEF CheckoutsInv, CheckoutsTyped
    <3>2. Tries(k)' = 1 /\ \A j \in Keys \ {k} : ~Waiting(j)' /\ Tries(j)' = Tries(j)
      BY <2>6, <3>1 DEF Waiting, Tries
    <3>3. OneServes'
      BY <1>1, <2>5, <2>8, <3>1 DEF OneServes
    <3>4. ServesWaiting'
      BY <1>1, <2>1, <2>6, <3>2 DEF ServesWaiting, Working
    <3>5. TriedOnce'
      <4>1. preparer.pc \notin {"preparing", "prepare", "ready", "fail"}
        BY <2>6 DEF Working
      <4> QED
        BY <1>1, <1>3, <2>2, <2>5, <3>1, <3>2, <4>1 DEF TriedOnce, Usable
    <3> QED
      BY <3>3, <3>4, <3>5
  <2> QED
    BY <2>7, <2>8
<1> QED
  BY <1>2, <1>3

LEMMA CheckoutsMove ==
  ASSUME CheckoutsInv, MachineTyped, CheckoutsNext
  PROVE  CheckoutsInv'
<1>1. ASSUME NEW q \in Requests, CheckoutIssue(q)
      PROVE  CheckoutsInv'
  <2>1. UNCHANGED <<machine, checkout, checkoutOp, preparer, overtaken, checkoutFaults>>
    BY <1>1 DEF CheckoutIssue
  <2>2. asking' \in [Requests -> {"idle", "none", "failed", "done"}]
    BY <1>1 DEF CheckoutIssue, CheckoutsInv, CheckoutsTyped
  <2>3. CheckoutsTyped'
    BY <2>1, <2>2 DEF CheckoutsInv, CheckoutsTyped
  <2> QED
    BY <2>1, <2>3 DEF CheckoutsInv, Tidy, OneServes, ServesWaiting, TriedOnce, Usable, Waiting, Tries, Working
<1>2. CASE CompleteCheckoutOp
  <2>1. /\ preparer.pc = "done" /\ checkoutOp' = [checkoutOp EXCEPT ![preparer.key].status = "completed"]
        /\ preparer' = [preparer EXCEPT !.pc = "idle"]
        /\ UNCHANGED <<machine, checkout, asking, overtaken, checkoutFaults>>
    BY <1>2, CheckoutsKeepMachine DEF CompleteCheckoutOp, PreparerAt, PreparerMoves
  <2> QED
    BY <2>1, AttemptEnds
<1>3. CASE FailCheckoutOp
  <2>1. PICK status \in {"failed", "pending"} :
          /\ checkoutOp' = [checkoutOp EXCEPT ![preparer.key].status = status]
          /\ PreparerMoves(IF status = "failed" THEN "failCheckout" ELSE "idle")
          /\ status = "failed" => ~(checkoutOp[preparer.key].attempts < CheckoutAttempts)
    BY <1>3 DEF FailCheckoutOp
  <2>2. preparer.pc = "fail" /\ UNCHANGED <<machine, checkout, asking, overtaken, checkoutFaults>>
    BY <1>3 DEF FailCheckoutOp, PreparerAt
  <2>3. status = "failed" => checkoutOp[preparer.key].attempts > 1
    <3>1. checkoutOp[preparer.key].attempts \in Nat
      BY DEF CheckoutsInv, CheckoutsTyped
    <3> QED
      BY <2>1, <3>1, CheckoutsAssumption
  <2> QED
    BY <2>1, <2>2, <2>3, AttemptEnds DEF PreparerMoves
<1>4. CASE FailCheckout
  <2>1. /\ preparer.pc = "failCheckout" /\ checkout' = "failed" /\ preparer' = [preparer EXCEPT !.pc = "idle"]
        /\ UNCHANGED <<machine, asking, checkoutOp, overtaken, checkoutFaults>>
    BY <1>4 DEF FailCheckout, PreparerAt, PreparerMoves, UpdateCheckoutState
  <2>2. CheckoutsTyped' /\ ~Tidy
    BY <2>1 DEF CheckoutsInv, CheckoutsTyped, OneServes
  <2> QED
    BY <2>1, <2>2, UntidyKeeps DEF Tidy
<1>5. CASE CheckoutCallFails
  <2>1. /\ checkoutFaults' = checkoutFaults + 1 /\ preparer' = [preparer EXCEPT !.pc = "fail"]
        /\ UNCHANGED <<machine, checkout, asking, checkoutOp, overtaken>>
    BY <1>5 DEF CheckoutCallFails, CheckoutFault, PreparerMoves
  <2>2. CheckoutsTyped' /\ ~Tidy'
    BY <2>1 DEF CheckoutsInv, CheckoutsTyped, Tidy
  <2> QED
    BY <2>2, UntidyKeeps
<1>6. CASE PreparerCrashes
  <2>1. /\ checkoutFaults' = checkoutFaults + 1 /\ preparer' = [preparer EXCEPT !.pc = "idle"]
        /\ checkoutOp' = checkoutOp \/ checkoutOp' = [checkoutOp EXCEPT ![preparer.key].status = "expired"]
        /\ UNCHANGED <<machine, checkout, asking, overtaken>>
    BY <1>6 DEF PreparerCrashes, CheckoutFault, PreparerMoves
  <2>2. checkoutOp' \in [Keys -> [status : {"none", "pending", "leased", "expired", "completed", "failed", "cancelled"},
                                  attempts : Nat, generation : Nat]]
    <3>1. PICK k \in Keys : k = preparer.key
      BY DEF CheckoutsInv, CheckoutsTyped
    <3>2. checkoutOp[k] \in [status : {"none", "pending", "leased", "expired", "completed", "failed", "cancelled"},
                             attempts : Nat, generation : Nat]
      BY DEF CheckoutsInv, CheckoutsTyped
    <3>3. [checkoutOp[k] EXCEPT !.status = "expired"]
            \in [status : {"none", "pending", "leased", "expired", "completed", "failed", "cancelled"}, attempts : Nat, generation : Nat]
      BY <3>2
    <3>4. checkoutOp' = checkoutOp \/ checkoutOp' = [checkoutOp EXCEPT ![k] = [checkoutOp[k] EXCEPT !.status = "expired"]]
      BY <2>1, <3>1
    <3> QED
      BY <3>3, <3>4 DEF CheckoutsInv, CheckoutsTyped
  <2>3. CheckoutsTyped' /\ ~Tidy'
    BY <2>1, <2>2 DEF CheckoutsInv, CheckoutsTyped, Tidy
  <2> QED
    BY <2>3, UntidyKeeps
<1>7. CASE ReconcileOrphanedCheckouts
  <2>1. /\ checkout' = "failed" /\ UNCHANGED <<machine, asking, preparer, overtaken, checkoutFaults>>
        /\ \A k \in Keys : checkoutOp[k].status # "leased"
        /\ checkoutOp' = [k \in Keys |-> IF checkoutOp[k].status \in {"pending", "expired"}
                                         THEN [checkoutOp[k] EXCEPT !.status = "cancelled"] ELSE checkoutOp[k]]
    BY <1>7 DEF ReconcileOrphanedCheckouts, FailOrphaned, Viable
  <2>2. \A k \in Keys :
          /\ checkoutOp'[k] \in [status : {"none", "pending", "leased", "expired", "completed", "failed", "cancelled"},
                                 attempts : Nat, generation : Nat]
          /\ checkoutOp'[k].status \notin {"pending", "expired", "leased"}
    <3> SUFFICES ASSUME NEW k \in Keys
                 PROVE  /\ checkoutOp'[k] \in [status : {"none", "pending", "leased", "expired", "completed", "failed", "cancelled"},
                                               attempts : Nat, generation : Nat]
                        /\ checkoutOp'[k].status \notin {"pending", "expired", "leased"}
      OBVIOUS
    <3>1. checkoutOp[k] \in [status : {"none", "pending", "leased", "expired", "completed", "failed", "cancelled"},
                             attempts : Nat, generation : Nat]
      BY DEF CheckoutsInv, CheckoutsTyped
    <3>2. CASE checkoutOp[k].status \in {"pending", "expired"}
      <4>1. checkoutOp'[k] = [checkoutOp[k] EXCEPT !.status = "cancelled"]
        BY <2>1, <3>2
      <4> QED
        BY <3>1, <4>1
    <3>3. CASE checkoutOp[k].status \notin {"pending", "expired"}
      <4>1. checkoutOp'[k] = checkoutOp[k]
        BY <2>1, <3>3
      <4> QED
        BY <2>1, <3>1, <3>3, <4>1
    <3> QED
      BY <3>2, <3>3
  <2>3. CheckoutsTyped'
    <3>1. checkoutOp' \in [Keys -> [status : {"none", "pending", "leased", "expired", "completed", "failed", "cancelled"},
                                    attempts : Nat, generation : Nat]]
      BY <2>1, <2>2
    <3> QED
      BY <2>1, <3>1 DEF CheckoutsInv, CheckoutsTyped
  <2>4. SUFFICES ASSUME Tidy PROVE OneServes' /\ ServesWaiting' /\ TriedOnce'
    BY <2>1, <2>3 DEF CheckoutsInv, Tidy
  <2>5. preparer.pc = "idle"
    BY <2>1, <2>4 DEF CheckoutsInv, CheckoutsTyped, OneServes
  <2> QED
    BY <2>1, <2>2, <2>5 DEF OneServes, ServesWaiting, TriedOnce, Waiting, Working
<1> QED
  BY <1>1, <1>2, <1>3, <1>4, <1>5, <1>6, <1>7, PreparerStepKeeps, LeaseCheckoutKeeps, CreateCheckoutKeeps
  DEF CheckoutsNext, PreparerStep

\* Requests make every operation that is queued stale; nothing else moves a
\* machine that runs.
LEMMA CheckoutsRest ==
  ASSUME CheckoutsInv, MachineTyped, MachineTyped', UNCHANGED checkouts,
         \/ machine'.generation > machine.generation
         \/ machine'.generation = machine.generation /\ (Usable => Usable')
  PROVE  CheckoutsInv'
<1>1. UNCHANGED <<checkout, asking, checkoutOp, preparer, overtaken, checkoutFaults>>
  BY DEF checkouts
<1>2. machine.generation \in Nat /\ machine'.generation \in Nat /\ \A k \in Keys : checkoutOp[k].generation \in Nat
  BY DEF MachineTyped, CheckoutsInv, CheckoutsTyped
<1>3. CheckoutsTyped'
  BY <1>1 DEF CheckoutsInv, CheckoutsTyped
<1>4. Tidy => OneServes' /\ ServesWaiting'
  BY <1>1 DEF CheckoutsInv, OneServes, ServesWaiting, Waiting, Working
<1>5. \A k \in Keys : Tries(k)' = Tries(k)
  BY <1>1 DEF Tries, Waiting
<1>6. Tidy => TriedOnce'
  <2> SUFFICES ASSUME Tidy PROVE TriedOnce'
    OBVIOUS
  <2>1. TriedOnce /\ preparer.key \in Keys
    BY DEF CheckoutsInv, CheckoutsTyped
  <2>2. CASE machine'.generation > machine.generation
    BY <1>1, <1>2, <1>5, <2>1, <2>2 DEF TriedOnce
  <2>3. CASE machine'.generation = machine.generation /\ (Usable => Usable')
    BY <1>1, <1>2, <1>5, <2>1, <2>3 DEF TriedOnce
  <2> QED
    BY <2>2, <2>3
<1> QED
  BY <1>1, <1>3, <1>4, <1>6 DEF CheckoutsInv, Tidy

LEMMA MachineGoesOn ==
  ASSUME MachineTyped, MachineMoves \/ Revoke
  PROVE  \/ machine'.generation > machine.generation
         \/ machine'.generation = machine.generation /\ (Usable => Usable')
<1>1. CASE Revoke
  BY <1>1 DEF Revoke, MarkRevoked, MachineTyped, Usable
<1>2. CASE \E d \in Desires \ (RunsRefuse \cup SnapshotRefuses) : Request(d)
  <2>1. PICK d \in Desires : Request(d)
    BY <1>2
  <2>2. machine'.generation = machine.generation + 1 /\ machine.generation \in Nat
    BY <2>1 DEF Request, MachineTyped
  <2> QED
    BY <2>2
<1>3. CASE Settle \/ SettleFails
  BY <1>3 DEF Settle, SettleFails, MachineTyped, Usable
<1>4. MachineMoves => MachineStep(RunsRefuse \cup SnapshotRefuses)
  BY DEF MachineMoves
<1> QED
  BY <1>1, <1>2, <1>3, <1>4 DEF MachineStep

LEMMA CheckoutsInvariant == WorkSpec => []CheckoutsInv
<1>1. WorkInit => CheckoutsInv
  <2> SUFFICES ASSUME WorkInit PROVE CheckoutsInv
    OBVIOUS
  <2>1. /\ checkout = "none" /\ overtaken = FALSE /\ checkoutFaults = 0
        /\ asking = [q \in Requests |-> "idle"] /\ preparer = [pc |-> "idle", key |-> First]
        /\ checkoutOp = [k \in Keys |-> [status |-> "none", attempts |-> 0, generation |-> 0]]
    BY DEF WorkInit, CheckoutsInit
  <2>2. CheckoutsTyped
    BY <2>1 DEF CheckoutsTyped, Keys
  <2> QED
    BY <2>1, <2>2 DEF CheckoutsInv, OneServes, ServesWaiting, TriedOnce, Waiting, Working
<1>2. CheckoutsInv /\ SessionsInv /\ SessionsInv' /\ [WorkNext]_workVars => CheckoutsInv'
  <2> SUFFICES ASSUME CheckoutsInv, MachineTyped, MachineTyped', [WorkNext]_workVars PROVE CheckoutsInv'
    BY DEF SessionsInv
  <2>1. ASSUME UNCHANGED <<machine, checkouts>> PROVE CheckoutsInv'
    <3>1. machine'.generation = machine.generation /\ (Usable => Usable')
      BY <2>1 DEF Usable
    <3> QED
      BY <2>1, <3>1, CheckoutsRest
  <2>2. ASSUME MachineMoves \/ Revoke, UNCHANGED checkouts PROVE CheckoutsInv'
    BY <2>2, MachineGoesOn, CheckoutsRest
  <2>3. CASE MachineMoves
    BY <2>2, <2>3 DEF MachineMoves, CheckoutsFollow
  <2>4. CASE AccessNext /\ UNCHANGED checkouts
    BY <2>1, <2>2, <2>4, AccessKeepsMachine
  <2>5. CASE (RunsNext \/ EnvironmentsNext) /\ UNCHANGED checkouts
    BY <2>1, <2>5, RunsKeepMachine, EnvironmentsKeepMachine
  <2>6. CASE CheckoutsNext
    BY <2>6, CheckoutsMove
  <2>7. CASE UNCHANGED workVars
    BY <2>1, <2>7 DEF workVars
  <2> QED
    BY <2>3, <2>4, <2>5, <2>6, <2>7 DEF WorkNext
<1> QED
  BY <1>1, <1>2, SessionsInvariant, PTL DEF WorkSpec

\* A prepared checkout stays ready while no call fails, no manager dies and no
\* request commits over a row it has not read (CreateCheckout,
\* UpdateCheckoutState), however often the machine comes and goes.
THEOREM ReadyCheckoutsStayReady == WorkSpec => ReadyStaysReady
<1>1. CheckoutsInv /\ [WorkNext]_workVars =>
        [checkout = "ready" /\ checkout' # "ready" => overtaken' \/ checkoutFaults > 0]_checkouts
  <2> SUFFICES ASSUME CheckoutsInv, [WorkNext]_workVars, checkout = "ready", checkout' # "ready",
                      ~overtaken', ~(checkoutFaults > 0)
               PROVE  FALSE
    OBVIOUS
  <2>1. CheckoutsNext
    BY DEF WorkNext, workVars, MachineMoves, CheckoutsFollow, checkouts
  <2>2. ASSUME NEW q \in Requests, CheckoutIssue(q) \/ CreateCheckout(q)
        PROVE  FALSE
    BY <2>2 DEF CheckoutIssue, CreateCheckout
  <2>3. ASSUME NEW k \in Keys, LeaseCheckout(k)
        PROVE  FALSE
    BY <2>3 DEF LeaseCheckout
  <2>4. CASE PreparerStep
    <3>1. overtaken' = overtaken
      BY <2>4 DEF PreparerStep, ReadCheckout, FailStale, MarkPreparing, PrepareCheckout, MarkReady, PrepareFails,
                  CompleteCheckoutOp, FailCheckoutOp, FailCheckout
    <3>2. Tidy
      BY <3>1 DEF Tidy, CheckoutsInv, CheckoutsTyped
    <3>3. preparer.pc # "failCheckout" /\ ~Working
      BY <3>2 DEF CheckoutsInv, OneServes, ServesWaiting
    <3> QED
      BY <2>4, <3>3 DEF PreparerStep, ReadCheckout, FailStale, MarkPreparing, PrepareCheckout, MarkReady, PrepareFails,
                        CompleteCheckoutOp, FailCheckoutOp, FailCheckout, PreparerAt, Working
  <2>5. CASE CheckoutCallFails \/ PreparerCrashes \/ ReconcileOrphanedCheckouts
    BY <2>5 DEF CheckoutCallFails, PreparerCrashes, ReconcileOrphanedCheckouts, FailOrphaned
  <2> QED
    BY <2>1, <2>2, <2>3, <2>4, <2>5 DEF CheckoutsNext
<1> QED
  BY <1>1, CheckoutsInvariant, PTL DEF WorkSpec, ReadyStaysReady
-----------------------------------------------------------------------------
(* What an ended run leaves *)

OpShaped(op) == op = [status |-> op.status, attempts |-> op.attempts, generation |-> op.generation]

LeftTyped ==
  /\ container \in [Runs -> {"none", "running", "exited"}]
  /\ runOp = [r \in Runs |-> runOp[r]] /\ \A r \in Runs : OpShaped(runOp[r])
  /\ cancelOp = [r \in Runs |-> cancelOp[r]] /\ \A r \in Runs : OpShaped(cancelOp[r])
  /\ runFaults \in Nat

\* The rows of operations beside the rows of runs, and the handler beside both.
OpsAgree ==
  /\ \A r \in Runs : runOp[r].status # "none" => run[r] # "none"
  /\ \A r \in Runs : cancelOp[r].status # "none" => run[r] \in Ended
  /\ ~AgentAt("idle") => run[agent.run] # "none"
  /\ agent.pc \notin {"idle", "failRun"} => runOp[agent.run].status = "leased"
  /\ ~AgentAt("idle") /\ ~agent.open => run[agent.run] \in Ended

\* Containers come with launches; one that a pass has removed is not seen again.
ContainersKnown ==
  /\ \A r \in Runs : launches[r] = 0 => container[r] = "none"
  /\ pass \in Runs => pass \in late \/ container[pass] # "running"

\* As long as nothing fails, a running run has its handler or is interactive,
\* and whoever ends a run removes its container or has somebody remove it.
CalmInv ==
  /\ agent.pc \in {"read", "start", "fail", "failRun"} => run[agent.run] # "running"
  /\ \A r \in Runs : runOp[r].status = "pending" => run[r] # "running"
  /\ agent.pc \in {"finish", "write"} => container[agent.run] # "running"
  /\ \A r \in Runs \ late : run[r] \in Ended /\ container[r] = "running" =>
       cancelOp[r].status \in {"pending", "signalled"} \/ machine.desired = "destroyed"

LeftInv == LeftTyped /\ OpsAgree /\ ContainersKnown /\ (runFaults = 0 => CalmInv)

LEMMA AgentMoved ==
  ASSUME RunsInv, NEW pc, AgentMoves(pc)
  PROVE  agent'.pc = pc /\ agent'.run = agent.run /\ (agent'.open <=> agent.open)
  BY DEF RunsInv, RunsTyped, AgentStates, AgentMoves

LEMMA Completed ==
  ASSUME RunsInv, NEW r \in Runs, NEW status, CompleteAgentRun(r, status)
  PROVE  \A q \in Runs : run'[q] = IF q = r /\ run[r] \notin Ended THEN status ELSE run[q]
  BY DEF RunsInv, RunsTyped, CompleteAgentRun

LEMMA RunOpMoved ==
  ASSUME LeftTyped, NEW r \in Runs, NEW status, runOp' = [runOp EXCEPT ![r].status = status]
  PROVE  /\ runOp' = [q \in Runs |-> runOp'[q]] /\ \A q \in Runs : OpShaped(runOp'[q])
         /\ \A q \in Runs : runOp'[q].status = IF q = r THEN status ELSE runOp[q].status
<1>1. PICK op : op = [runOp[r] EXCEPT !.status = status]
  OBVIOUS
<1>2. OpShaped(op) /\ op.status = status
  BY <1>1 DEF LeftTyped, OpShaped
<1>3. runOp' = [runOp EXCEPT ![r] = op]
  BY <1>1
<1> QED
  BY <1>2, <1>3 DEF LeftTyped

LEMMA CancelOpMoved ==
  ASSUME LeftTyped, NEW r \in Runs, NEW status, CancelMoves(r, status)
  PROVE  /\ cancelOp' = [q \in Runs |-> cancelOp'[q]] /\ \A q \in Runs : OpShaped(cancelOp'[q])
         /\ \A q \in Runs : cancelOp'[q].status = IF q = r THEN status ELSE cancelOp[q].status
<1>1. PICK op : op = [cancelOp[r] EXCEPT !.status = status]
  OBVIOUS
<1>2. OpShaped(op) /\ op.status = status
  BY <1>1 DEF LeftTyped, OpShaped
<1>3. cancelOp' = [cancelOp EXCEPT ![r] = op]
  BY <1>1 DEF CancelMoves
<1> QED
  BY <1>2, <1>3 DEF LeftTyped

LEMMA LeftStart == RunsInit => LeftInv
<1> SUFFICES ASSUME RunsInit PROVE LeftInv
  OBVIOUS
<1>1. /\ run = [r \in Runs |-> "none"] /\ container = [r \in Runs |-> "none"] /\ launches = [r \in Runs |-> 0]
      /\ pass = NoRun /\ runFaults = 0 /\ agent.pc = "idle" /\ late = {}
  BY DEF RunsInit
<1>2. runOp = [r \in Runs |-> NoOp] /\ cancelOp = [r \in Runs |-> NoOp]
  BY DEF RunsInit
<1>3. OpShaped(NoOp) /\ NoOp.status = "none"
  BY DEF NoOp, OpShaped
<1>4. LeftTyped
  BY <1>1, <1>2, <1>3 DEF LeftTyped
<1>5. OpsAgree /\ ContainersKnown /\ CalmInv
  BY <1>1, <1>2, <1>3, RunsAssumption DEF OpsAgree, ContainersKnown, CalmInv, AgentAt
<1> QED
  BY <1>4, <1>5 DEF LeftInv

-----------------------------------------------------------------------------
(* The handler *)

LEMMA LeaseRunLeaves ==
  ASSUME RunsInv, LeftInv, NEW r \in Runs, LeaseRun(r)
  PROVE  LeftInv'
<1>1. PICK op : op = [runOp[r] EXCEPT !.status = "leased", !.attempts = @ + 1]
  OBVIOUS
<1>2. runOp' = [runOp EXCEPT ![r] = op]
  <2>1. runOp' = [runOp EXCEPT ![r] = [runOp[r] EXCEPT !.status = "leased", !.attempts = runOp[r].attempts + 1]]
    BY DEF LeaseRun
  <2> QED
    BY <1>1, <2>1 DEF LeaseRun
<1>3. OpShaped(op) /\ op.status = "leased"
  <2>1. PICK n, g : n = runOp[r].attempts /\ g = runOp[r].generation
    OBVIOUS
  <2>2. runOp[r] = [status |-> runOp[r].status, attempts |-> n, generation |-> g]
    BY <2>1 DEF LeftInv, LeftTyped, OpShaped
  <2>3. op = [status |-> "leased", attempts |-> n + 1, generation |-> g]
    BY <1>1, <2>1, <2>2
  <2> QED
    BY <2>3 DEF OpShaped
<1>4. agent'.pc = "read" /\ agent'.run = r /\ agent'.open
  BY DEF LeaseRun
<1>5. /\ runOp' = [q \in Runs |-> runOp'[q]] /\ \A q \in Runs : OpShaped(runOp'[q])
      /\ \A q \in Runs : runOp'[q].status = IF q = r THEN "leased" ELSE runOp[q].status
  BY <1>2, <1>3 DEF LeftInv, LeftTyped
<1>6. runOp[r].status = "pending"
  BY DEF LeaseRun
<1>7. UNCHANGED <<machine, run, cancelOp, container, launches, late, pass, runFaults>>
  BY DEF LeaseRun
<1>8. LeftTyped'
  BY <1>5, <1>7 DEF LeftInv, LeftTyped, OpShaped
<1>9. OpsAgree'
  BY <1>4, <1>5, <1>6, <1>7 DEF LeftInv, OpsAgree, AgentAt
<1>10. ContainersKnown'
  BY <1>7 DEF LeftInv, ContainersKnown
<1>11. CalmInv => CalmInv'
  BY <1>4, <1>5, <1>6, <1>7 DEF CalmInv
<1> QED
  BY <1>7, <1>8, <1>9, <1>10, <1>11 DEF LeftInv

\* A step of the handler that writes no operation: it may end its run, if the
\* run has no container that runs, and go on.
LEMMA HandlerLeaves ==
  ASSUME RunsInv, LeftInv, ~AgentAt("idle"), NEW pc, NEW status \in Ended,
         agent'.pc = pc, agent'.run = agent.run, agent'.open <=> agent.open,
         UNCHANGED run \/ CompleteAgentRun(agent.run, status),
         UNCHANGED <<machine, runOp, cancelOp, launches, late, pass>>,
         UNCHANGED runFaults \/ runFaults' = runFaults + 1,
         container' \in [Runs -> {"none", "running", "exited"}],
         \A r \in Runs : container'[r] = "running" => container[r] = "running",
         \A r \in Runs : container[r] = "none" => container'[r] = "none",
         AgentAt("failRun") => pc = "idle",
         runFaults' = 0 /\ CalmInv =>
           /\ pc \in {"read", "start", "fail", "failRun"} => run'[agent.run] # "running"
           /\ pc \in {"finish", "write"} => container'[agent.run] # "running"
           /\ UNCHANGED run \/ container[agent.run] # "running"
  PROVE  LeftInv'
<1>0. agent.run \in Runs /\ run \in [Runs -> RunStatuses]
  BY DEF RunsInv, RunsTyped, AgentStates
<1>1. \A q \in Runs : \/ run'[q] = run[q]
                      \/ q = agent.run /\ run[q] \notin Ended /\ run'[q] = status
  <2>1. CASE CompleteAgentRun(agent.run, status)
    BY <1>0, <2>1, Completed
  <2> QED
    BY <2>1
<1>2. \A q \in Runs : /\ run[q] \in Ended => run'[q] \in Ended
                      /\ run[q] # "none" => run'[q] # "none"
                      /\ run[q] # "running" => run'[q] # "running"
  BY <1>1 DEF Ended
<1>3. LeftTyped'
  BY DEF LeftInv, LeftTyped, OpShaped
<1>4. OpsAgree'
  BY <1>0, <1>2 DEF LeftInv, OpsAgree, AgentAt
<1>5. ContainersKnown'
  BY DEF LeftInv, ContainersKnown
<1>6. runFaults' = 0 => runFaults = 0
  BY DEF LeftInv, LeftTyped
<1>7. ASSUME runFaults' = 0, CalmInv PROVE CalmInv'
  <2>1. \A r \in Runs : runOp'[r].status = "pending" => run'[r] # "running"
    BY <1>2, <1>7 DEF CalmInv
  <2>2. \A r \in Runs \ late' : run'[r] \in Ended /\ container'[r] = "running" =>
          cancelOp'[r].status \in {"pending", "signalled"} \/ machine'.desired = "destroyed"
    <3> SUFFICES ASSUME NEW r \in Runs \ late, run'[r] \in Ended, container'[r] = "running"
                 PROVE  cancelOp[r].status \in {"pending", "signalled"} \/ machine.desired = "destroyed"
      OBVIOUS
    <3>1. run[r] \in Ended
      BY <1>1, <1>7
    <3> QED
      BY <1>7, <3>1 DEF CalmInv
  <2> QED
    BY <1>7, <2>1, <2>2 DEF CalmInv
<1> QED
  BY <1>3, <1>4, <1>5, <1>6, <1>7 DEF LeftInv

LEMMA ReadRunLeaves ==
  ASSUME RunsInv, LeftInv, ReadRun
  PROVE  LeftInv'
<1>1. PICK pc \in {"done", "start"} : AgentMoves(pc)
  BY DEF ReadRun
<1>2. AgentAt("read") /\ agent.run \in Runs /\ (UNCHANGED run \/ CompleteAgentRun(agent.run, "cancelled"))
  BY DEF ReadRun, RunsInv, RunsTyped, AgentStates
<1>3. UNCHANGED <<machine, runOp, cancelOp, container, launches, late, pass, runFaults>>
  BY DEF ReadRun
<1>4. container \in [Runs -> {"none", "running", "exited"}]
  BY DEF LeftInv, LeftTyped
<1>5. CASE UNCHANGED run
  <2>1. CalmInv => run'[agent.run] # "running"
    BY <1>2, <1>5 DEF CalmInv, AgentAt
  <2> QED
    BY <1>1, <1>2, <1>3, <1>4, <1>5, <2>1, AgentMoved, HandlerLeaves DEF AgentAt, Ended
<1>6. CASE CompleteAgentRun(agent.run, "cancelled")
  <2>1. CalmInv => run[agent.run] \in Ended \/ container[agent.run] # "running"
    BY <1>2 DEF CalmInv, AgentAt, LeftInv, OpsAgree, ContainersKnown, RunsInv, RunsTyped, RunStatuses
  <2>2. run'[agent.run] # "running"
    BY <1>2, <1>6, Completed DEF Ended
  <2>3. run[agent.run] \in Ended => UNCHANGED run
    BY <1>6 DEF CompleteAgentRun
  <2> QED
    BY <1>1, <1>2, <1>3, <1>4, <1>6, <2>1, <2>2, <2>3, AgentMoved, HandlerLeaves DEF AgentAt, Ended
<1> QED
  BY <1>2, <1>5, <1>6

\* StartRun makes a queued run running.
LEMMA StartRunLeaves ==
  ASSUME RunsInv, LeftInv, StartRun
  PROVE  LeftInv'
<1>0. agent.run \in Runs /\ run \in [Runs -> RunStatuses] /\ AgentAt("start") /\ runOp[agent.run].status = "leased"
  BY DEF RunsInv, RunsTyped, AgentStates, StartRun, LeftInv, OpsAgree, AgentAt
<1>1. UNCHANGED <<machine, runOp, cancelOp, container, launches, late, pass, runFaults>>
  BY DEF StartRun
<1>2. CASE Startable(agent.run)
  <2>1. run' = [run EXCEPT ![agent.run] = "running"] /\ AgentMoves("launch") /\ run[agent.run] = "queued"
    BY <1>2 DEF StartRun, Startable
  <2>2. \A q \in Runs : run'[q] = IF q = agent.run THEN "running" ELSE run[q]
    BY <1>0, <2>1
  <2>3. agent'.pc = "launch" /\ agent'.run = agent.run /\ (agent'.open <=> agent.open)
    BY <2>1, AgentMoved
  <2>4. LeftTyped' /\ ContainersKnown'
    BY <1>1 DEF LeftInv, LeftTyped, OpShaped, ContainersKnown
  <2>5. OpsAgree'
    BY <1>0, <1>1, <2>1, <2>2, <2>3 DEF LeftInv, OpsAgree, AgentAt, Ended
  <2>6. CalmInv => CalmInv'
    BY <1>0, <1>1, <2>2, <2>3 DEF CalmInv, Ended
  <2> QED
    BY <1>1, <2>4, <2>5, <2>6 DEF LeftInv
<1>3. CASE ~Startable(agent.run)
  <2>1. PICK pc \in {"done", "fail"} : AgentMoves(pc)
    BY <1>3 DEF StartRun
  <2>2. UNCHANGED run /\ container \in [Runs -> {"none", "running", "exited"}]
    BY <1>3 DEF StartRun, LeftInv, LeftTyped
  <2>3. CalmInv => run'[agent.run] # "running"
    BY <1>0, <2>2 DEF CalmInv, AgentAt
  <2> QED
    BY <1>0, <1>1, <2>1, <2>2, <2>3, AgentMoved, HandlerLeaves DEF AgentAt, Ended
<1> QED
  BY <1>2, <1>3

\* A container that is created for an ended run is known to be late.
LEMMA RunAgentLeaves ==
  ASSUME RunsInv, LeftInv, RunAgent
  PROVE  LeftInv'
<1>0. agent.run \in Runs /\ launches \in [Runs -> Nat] /\ AgentAt("launch") /\ container \in [Runs -> {"none", "running", "exited"}]
  BY DEF RunsInv, RunsTyped, AgentStates, RunAgent, LeftInv, LeftTyped
<1>1. /\ container' = [container EXCEPT ![agent.run] = "running"] /\ launches' = [launches EXCEPT ![agent.run] = launches[agent.run] + 1]
      /\ late' = IF run[agent.run] \in Ended \/ pass = agent.run THEN late \cup {agent.run} ELSE late
      /\ UNCHANGED <<machine, run, runOp, cancelOp, pass, runFaults>>
  BY DEF RunAgent
<1>2. PICK pc \in {"done", "wait"} : AgentMoves(pc)
  BY DEF RunAgent
<1>3. agent'.pc = pc /\ agent'.run = agent.run /\ (agent'.open <=> agent.open)
  BY <1>2, AgentMoved
<1>4. \A q \in Runs : /\ container'[q] = IF q = agent.run THEN "running" ELSE container[q]
                      /\ launches'[q] = IF q = agent.run THEN launches[q] + 1 ELSE launches[q]
  BY <1>0, <1>1
<1>5. LeftTyped'
  BY <1>0, <1>1 DEF LeftInv, LeftTyped, OpShaped
<1>6. OpsAgree'
  BY <1>0, <1>1, <1>2, <1>3 DEF LeftInv, OpsAgree, AgentAt
<1>7. ContainersKnown'
  <2>1. \A q \in Runs : launches'[q] = 0 => container'[q] = "none"
    BY <1>0, <1>4 DEF LeftInv, ContainersKnown
  <2>2. pass' \in Runs => pass' \in late' \/ container'[pass'] # "running"
    BY <1>1, <1>4 DEF LeftInv, ContainersKnown
  <2> QED
    BY <2>1, <2>2 DEF ContainersKnown
<1>8. CalmInv => CalmInv'
  BY <1>0, <1>1, <1>2, <1>3, <1>4 DEF CalmInv
<1> QED
  BY <1>1, <1>5, <1>6, <1>7, <1>8 DEF LeftInv

LEMMA FinishLeaves ==
  ASSUME RunsInv, LeftInv, \/ RunAgentFails \/ (\E o \in {"ok", "error"} : WaitEnds(o)) \/ WaitFails \/ DeadlinePasses \/ JudgeRun
                           \/ AgentCallFails \/ ContextEnds \/ WriteRun
  PROVE  LeftInv'
<1>0. /\ agent.run \in Runs /\ container \in [Runs -> {"none", "running", "exited"}] /\ agent \in AgentStates
      /\ runFaults \in Nat
  BY DEF RunsInv, RunsTyped, AgentStates, LeftInv, LeftTyped
<1>1. CASE RunAgentFails
  <2>1. container[agent.run] = "none"
    BY <1>0, <1>1 DEF RunAgentFails, RunsInv, LeftInv, ContainersKnown
  <2>2. /\ agent'.pc = "finish" /\ agent'.run = agent.run /\ (agent'.open <=> agent.open) /\ AgentAt("launch")
        /\ UNCHANGED <<machine, run, runOp, cancelOp, container, launches, late, pass, runFaults>>
    BY <1>0, <1>1 DEF RunAgentFails, AgentStates
  <2> QED
    BY <1>0, <2>1, <2>2, HandlerLeaves DEF AgentAt, Ended
<1>2. CASE \E o \in {"ok", "error"} : WaitEnds(o)
  <2>1. PICK o \in {"ok", "error"} : WaitEnds(o)
    BY <1>2
  <2>2. /\ agent'.pc = "finish" /\ agent'.run = agent.run /\ (agent'.open <=> agent.open) /\ AgentAt("wait")
        /\ container[agent.run] # "running"
        /\ UNCHANGED <<machine, run, runOp, cancelOp, container, launches, late, pass, runFaults>>
    BY <1>0, <2>1 DEF WaitEnds, AgentStates
  <2> QED
    BY <1>0, <2>2, HandlerLeaves DEF AgentAt, Ended
<1>3. CASE WaitFails
  <2>1. /\ agent'.pc = "finish" /\ agent'.run = agent.run /\ (agent'.open <=> agent.open) /\ AgentAt("wait")
        /\ runFaults' = runFaults + 1
        /\ UNCHANGED <<machine, run, runOp, cancelOp, container, launches, late, pass>>
    BY <1>0, <1>3 DEF WaitFails, AgentStates, RunFault
  <2> QED
    BY <1>0, <2>1, HandlerLeaves DEF AgentAt, Ended
<1>4. CASE DeadlinePasses
  <2>1. /\ agent'.pc = "finish" /\ agent'.run = agent.run /\ (agent'.open <=> agent.open) /\ agent.pc \in {"launch", "wait"}
        /\ container' = [container EXCEPT ![agent.run] = "none"]
        /\ UNCHANGED <<machine, run, runOp, cancelOp, launches, late, pass, runFaults>>
    BY <1>0, <1>4 DEF DeadlinePasses, AgentStates
  <2>2. /\ container' \in [Runs -> {"none", "running", "exited"}] /\ container'[agent.run] = "none"
        /\ \A r \in Runs \ {agent.run} : container'[r] = container[r]
    BY <1>0, <2>1
  <2> QED
    BY <1>0, <2>1, <2>2, HandlerLeaves DEF AgentAt, Ended
<1>5. CASE JudgeRun
  <2>1. /\ agent'.pc = "write" /\ agent'.run = agent.run /\ (agent'.open <=> agent.open) /\ AgentAt("finish")
        /\ UNCHANGED <<machine, run, runOp, cancelOp, container, launches, late, pass, runFaults>>
    BY <1>0, <1>5 DEF JudgeRun, AgentStates
  <2>2. CalmInv => container[agent.run] # "running"
    BY <2>1 DEF CalmInv, AgentAt
  <2> QED
    BY <1>0, <2>1, <2>2, HandlerLeaves DEF AgentAt, Ended
<1>6. CASE AgentCallFails
  <2>1. /\ AgentMoves("fail") /\ agent.pc \notin {"idle", "failRun"} /\ runFaults' = runFaults + 1
        /\ UNCHANGED <<machine, run, runOp, cancelOp, container, launches, late, pass>>
    BY <1>6 DEF AgentCallFails, RunFault
  <2> QED
    BY <1>0, <2>1, AgentMoved, HandlerLeaves DEF AgentAt, Ended
<1>7. CASE ContextEnds
  <2>1. /\ AgentMoves("fail") /\ agent.pc \notin {"idle", "failRun"} /\ ~agent.open
        /\ UNCHANGED <<machine, run, runOp, cancelOp, launches, late, pass, runFaults>>
    BY <1>7 DEF ContextEnds
  <2>2. /\ container' \in [Runs -> {"none", "running", "exited"}]
        /\ \A r \in Runs : container'[r] = container[r] \/ (container[r] = "running" /\ container'[r] = "exited")
    BY <1>0, <1>7 DEF ContextEnds
  <2>3. run'[agent.run] \in Ended
    BY <2>1 DEF LeftInv, OpsAgree, AgentAt
  <2> QED
    BY <1>0, <2>1, <2>2, <2>3, AgentMoved, HandlerLeaves DEF AgentAt, Ended
<1>8. CASE WriteRun
  <2>1. /\ AgentMoves("done") /\ AgentAt("write") /\ CompleteAgentRun(agent.run, agent.outcome)
        /\ UNCHANGED <<machine, runOp, cancelOp, container, launches, late, pass, runFaults>>
    BY <1>8 DEF WriteRun
  <2>2. agent.outcome \in Ended /\ (CalmInv => container[agent.run] # "running")
    BY <2>1 DEF RunsInv, CalmInv, AgentAt
  <2> QED
    BY <1>0, <2>1, <2>2, AgentMoved, HandlerLeaves DEF AgentAt
<1> QED
  BY <1>1, <1>2, <1>3, <1>4, <1>5, <1>6, <1>7, <1>8

LEMMA FailAgentRunLeaves ==
  ASSUME RunsInv, LeftInv, FailAgentRun
  PROVE  LeftInv'
<1>1. /\ AgentMoves("idle") /\ AgentAt("failRun") /\ CompleteAgentRun(agent.run, "failed") /\ agent.run \in Runs
      /\ UNCHANGED <<machine, runOp, cancelOp, container, launches, late, pass, runFaults>>
  BY DEF FailAgentRun, RunsInv, RunsTyped, AgentStates
<1>2. CalmInv => run[agent.run] \in Ended \/ container[agent.run] # "running"
  BY <1>1 DEF CalmInv, AgentAt, LeftInv, OpsAgree, ContainersKnown, RunsInv, RunsTyped, RunStatuses
<1>3. run[agent.run] \in Ended => UNCHANGED run
  BY <1>1 DEF CompleteAgentRun
<1>4. container \in [Runs -> {"none", "running", "exited"}]
  BY DEF LeftInv, LeftTyped
<1> QED
  BY <1>1, <1>2, <1>3, <1>4, AgentMoved, HandlerLeaves DEF AgentAt, Ended

\* The operation of the handler ends, is queued again, or is left by a crash.
LEMMA RunOpEnds ==
  ASSUME RunsInv, LeftInv, CompleteRunOp \/ FailRunOp \/ ManagerCrashes
  PROVE  LeftInv'
<1>0. agent.run \in Runs /\ UNCHANGED <<machine, run, cancelOp, container, launches, late, pass>>
  BY DEF RunsInv, RunsTyped, AgentStates, CompleteRunOp, FailRunOp, ManagerCrashes
<1>1. PICK pc \in {"idle", "failRun"} : AgentMoves(pc)
  BY DEF CompleteRunOp, FailRunOp, ManagerCrashes
<1>2. agent'.pc = pc /\ agent'.run = agent.run /\ (agent'.open <=> agent.open) /\ ~AgentAt("idle")
  BY <1>1, AgentMoved DEF CompleteRunOp, FailRunOp, ManagerCrashes, AgentAt
<1>3. \/ UNCHANGED runOp
      \/ \E s \in {"completed", "pending", "failed"} : runOp' = [runOp EXCEPT ![agent.run].status = s]
  BY DEF CompleteRunOp, FailRunOp, ManagerCrashes
<1>4. /\ runOp' = [q \in Runs |-> runOp'[q]] /\ \A q \in Runs : OpShaped(runOp'[q])
      /\ \A q \in Runs : runOp'[q].status = runOp[q].status \/ q = agent.run
  BY <1>0, <1>3, RunOpMoved DEF LeftInv, LeftTyped
<1>5. runFaults' \in Nat /\ (runFaults' = 0 => runFaults = 0)
  BY DEF CompleteRunOp, FailRunOp, ManagerCrashes, RunFault, LeftInv, LeftTyped
<1>6. LeftTyped'
  BY <1>0, <1>4, <1>5 DEF LeftInv, LeftTyped, OpShaped
<1>7. OpsAgree'
  BY <1>0, <1>1, <1>2, <1>4 DEF LeftInv, OpsAgree, AgentAt
<1>8. ContainersKnown'
  BY <1>0 DEF LeftInv, ContainersKnown
<1>9. ASSUME CalmInv, runFaults' = 0 PROVE CalmInv'
  <2>1. ~ManagerCrashes
    BY <1>9 DEF ManagerCrashes, RunFault, LeftInv, LeftTyped
  <2>2. CASE CompleteRunOp
    <3>1. runOp' = [runOp EXCEPT ![agent.run].status = "completed"] /\ AgentMoves("idle")
      BY <2>2 DEF CompleteRunOp
    <3>2. runOp'[agent.run].status = "completed" /\ agent'.pc = "idle"
      <4>1. LeftTyped
        BY DEF LeftInv
      <4>2. \A q \in Runs : runOp'[q].status = IF q = agent.run THEN "completed" ELSE runOp[q].status
        BY <1>0, <3>1, <4>1, RunOpMoved
      <4>3. agent'.pc = "idle"
        BY <3>1, AgentMoved
      <4> QED
        BY <1>0, <4>2, <4>3
    <3>3. \A q \in Runs : runOp'[q].status = "pending" => runOp[q].status = "pending"
      BY <1>0, <1>4, <3>2
    <3>4. \A q \in Runs : runOp'[q].status = "pending" => run'[q] # "running"
      BY <1>0, <1>9, <3>3 DEF CalmInv
    <3>5. \A q \in Runs \ late' : run'[q] \in Ended /\ container'[q] = "running" =>
            cancelOp'[q].status \in {"pending", "signalled"} \/ machine'.desired = "destroyed"
      <4>1. container' = container
        BY <2>2 DEF CompleteRunOp
      <4> QED
        BY <1>0, <1>9, <4>1 DEF CalmInv
    <3> QED
      BY <3>2, <3>4, <3>5 DEF CalmInv
  <2>3. CASE FailRunOp
    <3>1. run[agent.run] # "running"
      BY <1>9, <2>3 DEF FailRunOp, CalmInv, AgentAt
    <3> QED
      BY <1>0, <1>1, <1>2, <1>4, <1>9, <3>1 DEF CalmInv
  <2> QED
    BY <2>1, <2>2, <2>3
<1> QED
  BY <1>5, <1>6, <1>7, <1>8, <1>9 DEF LeftInv

-----------------------------------------------------------------------------
(* Users, cancellations, the timeout pass and the machine *)

LEMMA CreateAgentRunLeaves ==
  ASSUME RunsInv, LeftInv, NEW r \in Runs, CreateAgentRun(r)
  PROVE  LeftInv'
<1>1. /\ run[r] = "none" /\ run' = [run EXCEPT ![r] = "queued"] /\ runOp' = [runOp EXCEPT ![r] = NewOp]
      /\ UNCHANGED <<machine, cancelOp, container, launches, late, agent, pass, runFaults>>
  BY DEF CreateAgentRun
<1>2. OpShaped(NewOp) /\ NewOp.status = "pending"
  BY DEF NewOp, OpShaped
<1>3. \A q \in Runs : run'[q] = IF q = r THEN "queued" ELSE run[q]
  BY <1>1 DEF RunsInv, RunsTyped
<1>4. /\ runOp' = [q \in Runs |-> runOp'[q]] /\ \A q \in Runs : OpShaped(runOp'[q])
      /\ \A q \in Runs : runOp'[q].status = IF q = r THEN "pending" ELSE runOp[q].status
  BY <1>1, <1>2 DEF LeftInv, LeftTyped
<1>5. ~AgentAt("idle") => agent.run # r /\ agent.run \in Runs
  BY <1>1 DEF LeftInv, OpsAgree, RunsInv, RunsTyped, AgentStates
<1>6. LeftTyped'
  BY <1>1, <1>4 DEF LeftInv, LeftTyped, OpShaped
<1>7. OpsAgree'
  BY <1>1, <1>3, <1>4, <1>5 DEF LeftInv, OpsAgree, AgentAt, Ended
<1>8. ContainersKnown'
  BY <1>1 DEF LeftInv, ContainersKnown
<1>9. CalmInv => CalmInv'
  BY <1>1, <1>3, <1>4, <1>5 DEF CalmInv, AgentAt, Ended
<1> QED
  BY <1>1, <1>6, <1>7, <1>8, <1>9 DEF LeftInv

LEMMA CancelAgentRunLeaves ==
  ASSUME RunsInv, LeftInv, NEW r \in Runs, CancelAgentRun(r)
  PROVE  LeftInv'
<1>1. /\ run' = [run EXCEPT ![r] = "cancelled"] /\ cancelOp' = [cancelOp EXCEPT ![r] = NewOp]
      /\ UNCHANGED <<machine, runOp, container, launches, late, agent, pass, runFaults>>
  BY DEF CancelAgentRun
<1>2. OpShaped(NewOp) /\ NewOp.status = "pending"
  BY DEF NewOp, OpShaped
<1>3. \A q \in Runs : run'[q] = IF q = r THEN "cancelled" ELSE run[q]
  BY <1>1 DEF RunsInv, RunsTyped
<1>4. /\ cancelOp' = [q \in Runs |-> cancelOp'[q]] /\ \A q \in Runs : OpShaped(cancelOp'[q])
      /\ \A q \in Runs : cancelOp'[q].status = IF q = r THEN "pending" ELSE cancelOp[q].status
  BY <1>1, <1>2 DEF LeftInv, LeftTyped
<1>5. agent.run \in Runs
  BY DEF RunsInv, RunsTyped, AgentStates
<1>6. LeftTyped'
  BY <1>1, <1>4 DEF LeftInv, LeftTyped, OpShaped
<1>7. OpsAgree'
  BY <1>1, <1>3, <1>4, <1>5 DEF LeftInv, OpsAgree, AgentAt, Ended
<1>8. ContainersKnown'
  BY <1>1 DEF LeftInv, ContainersKnown
<1>9. CalmInv => CalmInv'
  BY <1>1, <1>3, <1>4, <1>5 DEF CalmInv, Ended
<1> QED
  BY <1>1, <1>6, <1>7, <1>8, <1>9 DEF LeftInv

LEMMA LeaseCancelLeaves ==
  ASSUME RunsInv, LeftInv, NEW r \in Runs, NEW same \in BOOLEAN, LeaseCancel(r, same)
  PROVE  LeftInv'
<1>1. PICK op : op = [cancelOp[r] EXCEPT !.status = "signalled", !.attempts = @ + 1]
  OBVIOUS
<1>2. cancelOp' = [cancelOp EXCEPT ![r] = op] /\ cancelOp[r].status = "pending"
  <2>1. cancelOp' = [cancelOp EXCEPT ![r] = [cancelOp[r] EXCEPT !.status = "signalled", !.attempts = cancelOp[r].attempts + 1]]
    BY DEF LeaseCancel
  <2> QED
    BY <1>1, <2>1 DEF LeaseCancel
<1>3. OpShaped(op) /\ op.status = "signalled"
  <2>1. PICK n, g : n = cancelOp[r].attempts /\ g = cancelOp[r].generation
    OBVIOUS
  <2>2. cancelOp[r] = [status |-> cancelOp[r].status, attempts |-> n, generation |-> g]
    BY <2>1 DEF LeftInv, LeftTyped, OpShaped
  <2>3. op = [status |-> "signalled", attempts |-> n + 1, generation |-> g]
    BY <1>1, <2>1, <2>2
  <2> QED
    BY <2>3 DEF OpShaped
<1>4. /\ cancelOp' = [q \in Runs |-> cancelOp'[q]] /\ \A q \in Runs : OpShaped(cancelOp'[q])
      /\ \A q \in Runs : cancelOp'[q].status = IF q = r THEN "signalled" ELSE cancelOp[q].status
  BY <1>2, <1>3 DEF LeftInv, LeftTyped
<1>5. UNCHANGED <<machine, run, runOp, container, launches, late, pass, runFaults>>
  BY DEF LeaseCancel
<1>6. /\ agent'.pc = agent.pc /\ agent'.run = agent.run
      /\ (agent'.open <=> agent.open) \/ (agent.run = r /\ ~agent'.open)
  <2>1. \/ agent' = agent
        \/ agent' = [agent EXCEPT !.open = FALSE] /\ agent.run = r
    BY DEF LeaseCancel, SignalRun
  <2> QED
    BY <2>1 DEF RunsInv, RunsTyped, AgentStates
<1>7. run[r] \in Ended
  BY <1>2 DEF LeftInv, OpsAgree
<1>8. LeftTyped'
  BY <1>4, <1>5 DEF LeftInv, LeftTyped, OpShaped
<1>9. OpsAgree'
  BY <1>2, <1>4, <1>5, <1>6, <1>7 DEF LeftInv, OpsAgree, AgentAt
<1>10. ContainersKnown'
  BY <1>5 DEF LeftInv, ContainersKnown
<1>11. CalmInv => CalmInv'
  BY <1>2, <1>4, <1>5, <1>6 DEF CalmInv
<1> QED
  BY <1>5, <1>8, <1>9, <1>10, <1>11 DEF LeftInv

\* The other steps of a cancellation, and what happens to containers by
\* themselves or with their machine.
LEMMA ContainersGo ==
  ASSUME RunsInv, LeftInv, UNCHANGED <<run, runOp, agent, launches, late>>,
         pass' = pass \/ pass' = NoRun \/ (pass' \in Runs /\ container'[pass'] = "none"),
         UNCHANGED runFaults \/ runFaults' = runFaults + 1,
         container' \in [Runs -> {"none", "running", "exited"}],
         \A r \in Runs : container'[r] = "running" => container[r] = "running",
         \A r \in Runs : container[r] = "none" => container'[r] = "none",
         cancelOp' = [q \in Runs |-> cancelOp'[q]], \A q \in Runs : OpShaped(cancelOp'[q]),
         \A q \in Runs : \/ cancelOp'[q].status = cancelOp[q].status
                         \/ /\ cancelOp[q].status # "none"
                            /\ \/ container'[q] # "running" \/ cancelOp[q].status = "removed" \/ runFaults' # 0,
         machine.desired = "destroyed" => machine'.desired = "destroyed"
  PROVE  LeftInv'
<1>1. LeftTyped'
  BY DEF LeftInv, LeftTyped, OpShaped
<1>2. OpsAgree'
  BY DEF LeftInv, OpsAgree, AgentAt
<1>3. ContainersKnown'
  BY RunsAssumption DEF LeftInv, ContainersKnown
<1>4. runFaults' = 0 => runFaults = 0
  BY DEF LeftInv, LeftTyped
<1>5. ASSUME runFaults' = 0, CalmInv PROVE CalmInv'
  <2>1. agent.run \in Runs
    BY DEF RunsInv, RunsTyped, AgentStates
  <2>2. \A r \in Runs \ late' : run'[r] \in Ended /\ container'[r] = "running" =>
          cancelOp'[r].status \in {"pending", "signalled"} \/ machine'.desired = "destroyed"
    BY <1>5 DEF CalmInv
  <2> QED
    BY <1>5, <2>1, <2>2 DEF CalmInv
<1> QED
  BY <1>1, <1>2, <1>3, <1>4, <1>5 DEF LeftInv

LEMMA CancellationLeaves ==
  ASSUME RunsInv, LeftInv, NEW r \in Runs, RemoveCancelled(r) \/ CompleteCancel(r) \/ CancelFails(r)
  PROVE  LeftInv'
<1>0. container \in [Runs -> {"none", "running", "exited"}] /\ runFaults \in Nat /\ LeftTyped
  BY DEF LeftInv, LeftTyped
<1>1. /\ UNCHANGED <<machine, run, runOp, agent, launches, late, pass>>
      /\ UNCHANGED runFaults \/ runFaults' = runFaults + 1
      /\ cancelOp[r].status \in {"signalled", "removed"}
      /\ \E s \in {"removed", "completed", "pending", "failed"} : CancelMoves(r, s)
  BY DEF RemoveCancelled, CompleteCancel, CancelFails, RunFault
<1>2. /\ cancelOp' = [q \in Runs |-> cancelOp'[q]] /\ \A q \in Runs : OpShaped(cancelOp'[q])
      /\ \A q \in Runs \ {r} : cancelOp'[q].status = cancelOp[q].status
  BY <1>0, <1>1, CancelOpMoved
<1>3. /\ container' \in [Runs -> {"none", "running", "exited"}]
      /\ \A q \in Runs : container'[q] = container[q] \/ container'[q] = "none"
  BY <1>0 DEF RemoveCancelled, CompleteCancel, CancelFails, CancelAgent
<1>4. container'[r] # "running" \/ cancelOp[r].status = "removed" \/ runFaults' # 0
  BY <1>0 DEF RemoveCancelled, CompleteCancel, CancelFails, CancelAgent, RunFault
<1> QED
  BY <1>1, <1>2, <1>3, <1>4, ContainersGo

LEMMA TimeLeaves ==
  ASSUME RunsInv, LeftInv, NEW r \in Runs, TimeoutRemoves(r) \/ RuntimePasses(r) \/ AgentExits(r)
  PROVE  LeftInv'
<1>0. container \in [Runs -> {"none", "running", "exited"}]
  BY DEF LeftInv, LeftTyped
<1>1. UNCHANGED <<machine, run, runOp, cancelOp, agent, launches, late, runFaults>>
  BY DEF TimeoutRemoves, RuntimePasses, AgentExits
<1>2. /\ container' \in [Runs -> {"none", "running", "exited"}]
      /\ \A q \in Runs : container'[q] = "running" => container[q] = "running"
      /\ \A q \in Runs : container[q] = "none" => container'[q] = "none"
  BY <1>0 DEF TimeoutRemoves, RuntimePasses, AgentExits, CancelAgent
<1>3. pass' = pass \/ (pass' \in Runs /\ container'[pass'] = "none")
  BY <1>0 DEF TimeoutRemoves, RuntimePasses, AgentExits, CancelAgent
<1>4. cancelOp' = [q \in Runs |-> cancelOp'[q]] /\ \A q \in Runs : OpShaped(cancelOp'[q])
  BY <1>1 DEF LeftInv, LeftTyped
<1> QED
  BY <1>1, <1>2, <1>3, <1>4, ContainersGo

LEMMA TimeoutRecordsLeaves ==
  ASSUME RunsInv, LeftInv, TimeoutRecords
  PROVE  LeftInv'
<1>1. pass \in Runs /\ CompleteAgentRun(pass, "timeout") /\ pass' = NoRun /\ agent.run \in Runs
  BY DEF TimeoutRecords, RunsInv, RunsTyped, AgentStates
<1>2. UNCHANGED <<machine, runOp, cancelOp, container, launches, late, agent, runFaults>>
  BY DEF TimeoutRecords
<1>3. \A q \in Runs : run'[q] = IF q = pass /\ run[pass] \notin Ended THEN "timeout" ELSE run[q]
  BY <1>1, Completed
<1>4. LeftTyped'
  BY <1>2 DEF LeftInv, LeftTyped, OpShaped
<1>5. OpsAgree'
  BY <1>1, <1>2, <1>3 DEF LeftInv, OpsAgree, AgentAt, Ended
<1>6. ContainersKnown'
  BY <1>1, <1>2, RunsAssumption DEF LeftInv, ContainersKnown
<1>7. CalmInv => CalmInv'
  <2>1. pass \in late \/ container[pass] # "running"
    BY <1>1 DEF LeftInv, ContainersKnown
  <2> QED
    BY <1>1, <1>2, <1>3, <2>1 DEF CalmInv, Ended
<1> QED
  BY <1>2, <1>4, <1>5, <1>6, <1>7 DEF LeftInv

LEMMA TeardownSignalsLeaves ==
  ASSUME RunsInv, LeftInv, TeardownSignals
  PROVE  LeftInv'
<1>1. /\ machine.desired = "destroyed" /\ agent.run \in Runs /\ CompleteAgentRun(agent.run, "cancelled")
      /\ agent' = [agent EXCEPT !.open = FALSE]
      /\ UNCHANGED <<machine, runOp, cancelOp, container, launches, late, pass, runFaults>>
  BY DEF TeardownSignals, RunsInv, RunsTyped, AgentStates
<1>2. agent'.pc = agent.pc /\ agent'.run = agent.run
  BY <1>1 DEF RunsInv, RunsTyped, AgentStates
<1>3. \A q \in Runs : run'[q] = IF q = agent.run /\ run[agent.run] \notin Ended THEN "cancelled" ELSE run[q]
  BY <1>1, Completed
<1>4. LeftTyped'
  BY <1>1 DEF LeftInv, LeftTyped, OpShaped
<1>5. OpsAgree'
  BY <1>1, <1>2, <1>3 DEF LeftInv, OpsAgree, AgentAt, Ended
<1>6. ContainersKnown'
  BY <1>1 DEF LeftInv, ContainersKnown
<1>7. CalmInv => CalmInv'
  BY <1>1, <1>2, <1>3 DEF CalmInv, Ended
<1> QED
  BY <1>1, <1>4, <1>5, <1>6, <1>7 DEF LeftInv

LEMMA LeftStep ==
  ASSUME RunsInv, LeftInv, RunsNext
  PROVE  LeftInv'
<1>1. CASE \E r \in Runs : \/ CreateAgentRun(r) \/ CancelAgentRun(r) \/ LeaseRun(r)
                           \/ (\E same \in SameProcess : LeaseCancel(r, same))
                           \/ RemoveCancelled(r) \/ CompleteCancel(r) \/ CancelFails(r)
                           \/ TimeoutRemoves(r) \/ RuntimePasses(r) \/ AgentExits(r)
  BY <1>1, CreateAgentRunLeaves, CancelAgentRunLeaves, LeaseRunLeaves, LeaseCancelLeaves, CancellationLeaves, TimeLeaves,
     RunsAssumption
<1>2. CASE RunHandlerStep \/ AgentCallFails \/ WaitFails \/ ManagerCrashes
  BY <1>2, ReadRunLeaves, StartRunLeaves, RunAgentLeaves, FinishLeaves, FailAgentRunLeaves, RunOpEnds DEF RunHandlerStep
<1>3. CASE TimeoutRecords \/ TeardownSignals
  BY <1>3, TimeoutRecordsLeaves, TeardownSignalsLeaves
<1> QED
  BY <1>1, <1>2, <1>3 DEF RunsNext

\* A machine that is to be destroyed stays so.
LEMMA DestructionStays ==
  ASSUME MachineTyped, MachineMoves \/ Revoke, machine.desired = "destroyed"
  PROVE  machine'.desired = "destroyed"
  BY DEF MachineMoves, MachineStep, Request, Settle, SettleFails, Revoke, MarkRevoked, MachineTyped

LEMMA LeftInvariant == WorkSpec => []LeftInv
<1>1. WorkInit => LeftInv
  BY LeftStart DEF WorkInit
<1>2. RunsInv /\ LeftInv /\ SessionsInv /\ [WorkNext]_workVars => LeftInv'
  <2> SUFFICES ASSUME RunsInv, LeftInv, MachineTyped, [WorkNext]_workVars PROVE LeftInv'
    BY DEF SessionsInv
  <2>0. LeftTyped /\ container \in [Runs -> {"none", "running", "exited"}]
    BY DEF LeftInv, LeftTyped
  <2>1. CASE RunsNext
    BY <2>1, LeftStep
  <2>2. ASSUME UNCHANGED runs, machine.desired = "destroyed" => machine'.desired = "destroyed" PROVE LeftInv'
    BY <2>0, <2>2, ContainersGo DEF runs, LeftTyped
  <2>3. CASE MachineMoves
    <3>1. machine.desired = "destroyed" => machine'.desired = "destroyed"
      BY <2>3, DestructionStays
    <3>2. UNCHANGED <<run, runOp, cancelOp, agent, launches, late, pass, runFaults>>
      BY <2>3 DEF MachineMoves, RunsFollow
    <3>3. container' \in [Runs -> {"none", "running", "exited"}] /\ \A r \in Runs : container'[r] \in {container[r], "none"}
      BY <2>0, <2>3 DEF MachineMoves, RunsFollow
    <3> QED
      BY <2>0, <3>1, <3>2, <3>3, ContainersGo DEF LeftTyped
  <2>4. CASE AccessNext /\ UNCHANGED runs
    BY <2>2, <2>4, AccessKeepsMachine, DestructionStays
  <2>5. CASE (CheckoutsNext \/ EnvironmentsNext) /\ UNCHANGED runs
    BY <2>2, <2>5, CheckoutsKeepMachine, EnvironmentsKeepMachine
  <2>6. CASE UNCHANGED workVars
    BY <2>2, <2>6 DEF workVars
  <2> QED
    BY <2>1, <2>3, <2>4, <2>5, <2>6 DEF WorkNext, runs
<1> QED
  BY <1>1, <1>2, RunsInvariant, SessionsInvariant, PTL DEF WorkSpec

\* Without a failing call or a crash the container of an ended run is not left
\* running: the handler, the cancellation, the timeout pass or the teardown
\* removes it, whichever of them ended the run, unless it was created too late
\* for that one to see it (runAgent, CancelAgent, ListTimedOutAgentRuns).
THEOREM EndedRunsLeaveNothing == WorkSpec => []EndedRunLeavesNothing
<1>1. LeftInv => EndedRunLeavesNothing
  BY DEF LeftInv, CalmInv, EndedRunLeavesNothing, InHand
<1> QED
  BY <1>1, LeftInvariant, PTL

-----------------------------------------------------------------------------
(* Types and attempts *)

\* However often an operation is taken over, it is tried at most once more for
\* each fault than its attempts allow; one that waits has an attempt left.
Bounded(op, limit, waits) ==
  op.attempts <= limit /\ (op.status \in waits => op.attempts < limit)

AccessTypes == AccessTypeOK /\ Bounded(closeOp, CloseAttempts, {"pending"})

RunsTypes ==
  /\ RunsTypeOK
  /\ \A r \in Runs : Bounded(runOp[r], RunAttempts + runFaults, {"pending"})
                     /\ Bounded(cancelOp[r], RunAttempts + runFaults, {"pending"})

CloseOps == [status : {"none", "pending", "leased", "killed", "completed", "failed"}, attempts : 0 .. CloseAttempts]
TicketRows == [status : {"none", "active", "used", "revoked"}, epoch : 0 .. MaxEpoch]
SessionRows == [status : {"none", "active", "revoked"}, epoch : 0 .. MaxEpoch]
GatewayRows == [pc : {"idle", "issue", "consumed", "insert", "connect"}, ticket : Tickets, epoch : 0 .. MaxEpoch]

LEMMA AccessRest ==
  ASSUME AccessTypes, UNCHANGED <<access, terminals>>, machine' \in MachineRows
  PROVE  AccessTypes'
  BY DEF AccessTypes, AccessTypeOK, Bounded, access, terminals

LEMMA TicketsTypedStep ==
  ASSUME AccessTypes, NEW g \in Gateways, NEW t \in Tickets,
         IssueTicket(g, t) \/ Consume(g, t) \/ TicketCommits(g) \/ SelectSession(g) \/ SessionCommits(g)
           \/ Connect(g) \/ Abandon(g)
  PROVE  AccessTypes'
<1>0. /\ ticket \in [Tickets -> TicketRows] /\ session \in [Tickets -> SessionRows]
      /\ gateway \in [Gateways -> GatewayRows] /\ epoch \in 0 .. MaxEpoch /\ slow \subseteq Tickets
      /\ gateway[g].ticket \in Tickets /\ gateway[g].epoch \in 0 .. MaxEpoch /\ shell \in BOOLEAN
  BY DEF AccessTypes, AccessTypeOK, TicketRows, SessionRows, GatewayRows
<1>1. UNCHANGED <<machine, member, epoch, terminal, closeOp, failing>>
  BY DEF IssueTicket, Consume, TicketCommits, SelectSession, SessionCommits, Connect, Abandon, terminals
<1>2. gateway' \in [Gateways -> GatewayRows]
  <2>1. \/ \E pc \in {"idle", "issue", "consumed", "insert", "connect"}, s \in Tickets : Become(g, pc, s)
        \/ Return(g)
    BY <1>0 DEF IssueTicket, Consume, TicketCommits, SelectSession, SessionCommits, Connect, Abandon
  <2>2. ASSUME NEW pc \in {"idle", "issue", "consumed", "insert", "connect"}, NEW s \in Tickets, Become(g, pc, s)
        PROVE  gateway' \in [Gateways -> GatewayRows]
    <3>1. [pc |-> pc, ticket |-> s, epoch |-> epoch] \in GatewayRows
      BY <1>0 DEF GatewayRows
    <3> QED
      BY <1>0, <2>2, <3>1 DEF Become
  <2>3. CASE Return(g)
    <3>1. PICK row : row = [gateway[g] EXCEPT !.pc = "idle"]
      OBVIOUS
    <3>2. row \in GatewayRows /\ gateway' = [gateway EXCEPT ![g] = row]
      BY <1>0, <2>3, <3>1 DEF Return, GatewayRows
    <3> QED
      BY <1>0, <3>2
  <2> QED
    BY <2>1, <2>2, <2>3
<1>3. ticket' \in [Tickets -> TicketRows]
  <2>1. \/ ticket' = ticket
        \/ ticket' = [ticket EXCEPT ![gateway[g].ticket] = [status |-> "active", epoch |-> gateway[g].epoch]]
        \/ ticket' = [ticket EXCEPT ![t].status = "used"]
    BY DEF IssueTicket, Consume, TicketCommits, SelectSession, SessionCommits, Connect, Abandon
  <2>2. [status |-> "active", epoch |-> gateway[g].epoch] \in TicketRows
    BY <1>0 DEF TicketRows
  <2>3. CASE ticket' = [ticket EXCEPT ![t].status = "used"]
    <3>1. PICK row : row = [ticket[t] EXCEPT !.status = "used"]
      OBVIOUS
    <3>2. row \in TicketRows /\ ticket' = [ticket EXCEPT ![t] = row]
      BY <1>0, <2>3, <3>1 DEF TicketRows
    <3> QED
      BY <1>0, <3>2
  <2> QED
    BY <1>0, <2>1, <2>2, <2>3
<1>4. session' \in [Tickets -> SessionRows]
  <2>1. \/ session' = session
        \/ session' = [session EXCEPT ![gateway[g].ticket] = [status |-> "active", epoch |-> gateway[g].epoch]]
    BY DEF IssueTicket, Consume, TicketCommits, SelectSession, SessionCommits, Connect, Abandon
  <2>2. [status |-> "active", epoch |-> gateway[g].epoch] \in SessionRows
    BY <1>0 DEF SessionRows
  <2> QED
    BY <1>0, <2>1, <2>2
<1>5. slow' \subseteq Tickets
  BY <1>0 DEF IssueTicket, Consume, TicketCommits, SelectSession, SessionCommits, Connect, Abandon
<1>6. shell' \in BOOLEAN
  <2>1. CASE shell' = shell
    BY <1>0, <2>1
  <2>2. CASE Connect(g)
    BY <2>2, Zenon DEF Connect
  <2> QED
    BY <2>1, <2>2 DEF IssueTicket, Consume, TicketCommits, SelectSession, SessionCommits, Abandon, terminals
<1> QED
  BY <1>1, <1>2, <1>3, <1>4, <1>5, <1>6 DEF AccessTypes, AccessTypeOK, Bounded, TicketRows, SessionRows, GatewayRows

\* Closing, revoking, leaving.
LEMMA RevokedTyped ==
  ASSUME AccessTypes, NEW S, NEW from, RevokeTickets(S, from)
  PROVE  ticket' \in [Tickets -> TicketRows]
<1>1. \A u \in Tickets : ticket[u] \in TicketRows /\ [ticket[u] EXCEPT !.status = "revoked"] \in TicketRows
  BY DEF AccessTypes, AccessTypeOK, TicketRows
<1> QED
  BY <1>1 DEF RevokeTickets

LEMMA CloseOpTyped ==
  ASSUME AccessTypes, NEW s, CloseMoves(s)
  PROVE  closeOp' = [status |-> s, attempts |-> closeOp.attempts]
  BY DEF AccessTypes, AccessTypeOK, CloseMoves

LEMMA CloseTypedStep ==
  ASSUME AccessTypes,
         OpenTerminal \/ RequestTerminalSessionClose \/ LeaseClose \/ TerminateTerminal \/ CompleteTerminalSessionClose
           \/ TerminateFails \/ FailTerminalSessionClose
  PROVE  AccessTypes'
<1>0. /\ closeOp \in CloseOps /\ closeOp.attempts \in Nat /\ CloseAttempts \in Nat \ {0}
      /\ Bounded(closeOp, CloseAttempts, {"pending"})
      /\ terminal \in {"none", "active", "closing", "closed", "close_failed"}
      /\ shell \in BOOLEAN /\ failing \in BOOLEAN /\ ticket \in [Tickets -> TicketRows]
  BY AccessAssumption DEF AccessTypes, AccessTypeOK, CloseOps, TicketRows
<1>1. UNCHANGED <<machine, member, session, gateway, epoch, slow>>
  BY DEF OpenTerminal, RequestTerminalSessionClose, LeaseClose, TerminateTerminal, CompleteTerminalSessionClose,
         TerminateFails, FailTerminalSessionClose, access
<1>2. ticket' \in [Tickets -> TicketRows]
  <2>1. ticket' = ticket \/ RevokeTickets(TerminalTickets, {"active", "used"})
    BY DEF OpenTerminal, RequestTerminalSessionClose, LeaseClose, TerminateTerminal, CompleteTerminalSessionClose,
           TerminateFails, FailTerminalSessionClose, access
  <2> QED
    BY <1>0, <2>1, RevokedTyped
<1>3. closeOp' \in CloseOps /\ Bounded(closeOp', CloseAttempts, {"pending"})
  <2>1. CASE closeOp' = closeOp
    BY <1>0, <2>1
  <2>2. CASE closeOp' = [status |-> "pending", attempts |-> 0]
    BY <1>0, <2>2 DEF CloseOps, Bounded
  <2>3. CASE LeaseClose
    BY <1>0, <2>3 DEF LeaseClose, CloseOps, Bounded
  <2>4. CASE CloseMoves("killed") \/ CloseMoves("completed")
    BY <1>0, <2>4, CloseOpTyped DEF CloseOps, Bounded
  <2>5. CASE TerminateFails
    BY <1>0, <2>5, CloseOpTyped DEF TerminateFails, LastAttempt, CloseOps, Bounded
  <2> QED
    BY <2>1, <2>2, <2>3, <2>4, <2>5 DEF OpenTerminal, RequestTerminalSessionClose, TerminateTerminal,
       CompleteTerminalSessionClose, FailTerminalSessionClose
<1>4. terminal' \in {"none", "active", "closing", "closed", "close_failed"}
  BY <1>0 DEF OpenTerminal, RequestTerminalSessionClose, LeaseClose, TerminateTerminal, CompleteTerminalSessionClose,
              TerminateFails, FailTerminalSessionClose
<1>5. shell' \in BOOLEAN
  <2>1. CASE shell' = shell
    BY <1>0, <2>1
  <2>2. CASE TerminateTerminal
    BY <2>2, Zenon DEF TerminateTerminal
  <2> QED
    BY <2>1, <2>2 DEF OpenTerminal, RequestTerminalSessionClose, LeaseClose, CompleteTerminalSessionClose,
                      TerminateFails, FailTerminalSessionClose
<1>6. failing' \in BOOLEAN
  <2>1. CASE failing' = failing \/ failing' = FALSE
    BY <1>0, <2>1
  <2>2. CASE TerminateFails
    BY <2>2, Zenon DEF TerminateFails
  <2> QED
    BY <2>1, <2>2 DEF OpenTerminal, RequestTerminalSessionClose, LeaseClose, TerminateTerminal,
                      CompleteTerminalSessionClose, FailTerminalSessionClose
<1> QED
  BY <1>1, <1>2, <1>3, <1>4, <1>5, <1>6 DEF AccessTypes, AccessTypeOK, TicketRows, CloseOps

LEMMA RevokeTyped ==
  ASSUME AccessTypes, MemberLeaves \/ Revoke
  PROVE  AccessTypes'
<1>1. CASE MemberLeaves
  BY <1>1 DEF MemberLeaves, AccessTypes, AccessTypeOK, Bounded, terminals
<1>2. CASE Revoke
  <2>1. ticket' \in [Tickets -> TicketRows]
    BY <1>2, RevokedTyped DEF Revoke, RevokeMachineAccess
  <2>2. session' \in [Tickets -> SessionRows]
    <3>1. \A u \in Tickets : session[u] \in SessionRows /\ [session[u] EXCEPT !.status = "revoked"] \in SessionRows
      BY DEF AccessTypes, AccessTypeOK, SessionRows
    <3> QED
      BY <1>2, <3>1 DEF Revoke, RevokeMachineAccess, RevokeSessions
  <2>3. machine' \in MachineRows
    BY <1>2 DEF Revoke, MarkRevoked, AccessTypes, AccessTypeOK, MachineRows
  <2>4. UNCHANGED <<member, gateway, epoch, slow, terminals>>
    BY <1>2 DEF Revoke
  <2> QED
    BY <2>1, <2>2, <2>3, <2>4 DEF AccessTypes, AccessTypeOK, Bounded, TicketRows, SessionRows, terminals
<1> QED
  BY <1>1, <1>2

-----------------------------------------------------------------------------
(* Types of runs *)

RunOps == [status : {"none", "pending", "leased", "signalled", "removed", "completed", "failed"},
           attempts : Nat, generation : 0 .. MaxGeneration]

\* An operation of a run, with what its attempts may come to.
Tried(op, faults) == op \in RunOps /\ Bounded(op, RunAttempts + faults, {"pending"})

RunOpsTyped ==
  /\ runOp \in [Runs -> RunOps] /\ cancelOp \in [Runs -> RunOps]
  /\ \A r \in Runs : Tried(runOp[r], runFaults) /\ Tried(cancelOp[r], runFaults)
  /\ due \subseteq Runs /\ late \subseteq Runs
  /\ container \in [Runs -> {"none", "running", "exited"}]
  /\ runFaults \in 0 .. MaxRunFaults

LEMMA RunsTypesAre == RunsInv /\ RunOpsTyped => RunsTypes
<1> SUFFICES ASSUME RunsInv, RunOpsTyped PROVE RunsTypes
  OBVIOUS
<1>1. RunAttempts \in Nat /\ MaxRunFaults \in Nat /\ runFaults \in 0 .. MaxRunFaults
  BY RunsAssumption DEF RunOpsTyped
<1>2. \A r \in Runs : runOp[r] \in OpRows /\ cancelOp[r] \in OpRows
  BY <1>1 DEF RunOpsTyped, RunOps, OpRows, Tried, Bounded
<1>3. runOp \in [Runs -> OpRows] /\ cancelOp \in [Runs -> OpRows]
  BY <1>2 DEF RunOpsTyped
<1>4. launches \in [Runs -> 0 .. 2]
  BY DEF RunsInv, RunsTyped
<1> QED
  BY <1>1, <1>3, <1>4 DEF RunsInv, RunsTyped, RunOpsTyped, RunsTypes, RunsTypeOK, RunStatuses, AgentStates, Tried

\* A fault may cost one more attempt.
LEMMA TriedStill ==
  ASSUME NEW op, NEW faults \in Nat, Tried(op, faults)
  PROVE  Tried(op, faults + 1)
<1>1. RunAttempts \in Nat
  BY RunsAssumption
<1>2. op.attempts \in Nat
  BY DEF Tried, RunOps
<1> QED
  BY <1>1, <1>2 DEF Tried, Bounded

LEMMA TriedMoves ==
  ASSUME NEW op, NEW faults \in Nat, NEW now \in {faults, faults + 1}, Tried(op, faults),
         NEW s \in {"pending", "removed", "completed", "failed"},
         s = "pending" => now = faults + 1 \/ op.attempts < RunAttempts,
         NEW next, next = [op EXCEPT !.status = s]
  PROVE  Tried(next, now)
<1>1. RunAttempts \in Nat
  BY RunsAssumption
<1>2. PICK s0, a, g : op = [status |-> s0, attempts |-> a, generation |-> g] /\ a \in Nat /\ g \in 0 .. MaxGeneration
  BY DEF Tried, RunOps
<1>3. next = [status |-> s, attempts |-> a, generation |-> g]
  BY <1>2
<1>4. next \in RunOps
  BY <1>2, <1>3 DEF RunOps
<1> QED
  BY <1>1, <1>2, <1>3, <1>4 DEF Tried, Bounded

LEMMA TriedAgain ==
  ASSUME NEW op, NEW faults \in Nat, Tried(op, faults), op.status = "pending", NEW s \in {"leased", "signalled"},
         NEW next, next = [op EXCEPT !.status = s, !.attempts = op.attempts + 1]
  PROVE  Tried(next, faults)
<1>1. RunAttempts \in Nat
  BY RunsAssumption
<1>2. PICK s0, a, g : op = [status |-> s0, attempts |-> a, generation |-> g] /\ a \in Nat /\ g \in 0 .. MaxGeneration
  BY DEF Tried, RunOps
<1>3. next = [status |-> s, attempts |-> a + 1, generation |-> g]
  BY <1>2
<1>4. next \in RunOps
  BY <1>2, <1>3 DEF RunOps
<1> QED
  BY <1>1, <1>2, <1>3, <1>4 DEF Tried, Bounded

LEMMA OpsMove ==
  ASSUME RunOpsTyped, NEW r \in Runs, NEW op, NEW faults \in 0 .. MaxRunFaults, Tried(op, faults),
         faults = runFaults \/ faults = runFaults + 1
  PROVE  /\ [runOp EXCEPT ![r] = op] \in [Runs -> RunOps] /\ [cancelOp EXCEPT ![r] = op] \in [Runs -> RunOps]
         /\ \A q \in Runs : /\ Tried(runOp[q], faults) /\ Tried(cancelOp[q], faults)
                            /\ Tried([runOp EXCEPT ![r] = op][q], faults)
                            /\ Tried([cancelOp EXCEPT ![r] = op][q], faults)
<1>1. \A q \in Runs : Tried(runOp[q], faults) /\ Tried(cancelOp[q], faults)
  <2>1. runFaults \in Nat
    BY RunsAssumption DEF RunOpsTyped
  <2> QED
    BY <2>1, TriedStill DEF RunOpsTyped
<1>2. op \in RunOps
  BY DEF Tried
<1> QED
  BY <1>1, <1>2 DEF RunOpsTyped

\* The operations change in one place, a fault is counted, or neither happens.
OpChanges(r, op, faults) ==
  /\ faults \in {runFaults, runFaults + 1} /\ Tried(op, faults)
  /\ \/ runOp' = [runOp EXCEPT ![r] = op] /\ cancelOp' = cancelOp
     \/ cancelOp' = [cancelOp EXCEPT ![r] = op] /\ runOp' = runOp
  /\ runFaults' = faults

LEMMA OpsTyped ==
  ASSUME RunOpsTyped, NEW r \in Runs, NEW op, runFaults' \in 0 .. MaxRunFaults, OpChanges(r, op, runFaults'),
         due' \subseteq Runs, late' \subseteq Runs, container' \in [Runs -> {"none", "running", "exited"}]
  PROVE  RunOpsTyped'
<1>1. /\ [runOp EXCEPT ![r] = op] \in [Runs -> RunOps] /\ [cancelOp EXCEPT ![r] = op] \in [Runs -> RunOps]
      /\ \A q \in Runs : /\ Tried(runOp[q], runFaults') /\ Tried(cancelOp[q], runFaults')
                         /\ Tried([runOp EXCEPT ![r] = op][q], runFaults')
                         /\ Tried([cancelOp EXCEPT ![r] = op][q], runFaults')
  BY OpsMove DEF OpChanges
<1>2. runOp \in [Runs -> RunOps] /\ cancelOp \in [Runs -> RunOps]
  BY DEF RunOpsTyped
<1> QED
  BY <1>1, <1>2 DEF OpChanges, RunOpsTyped

LEMMA OpsRest ==
  ASSUME RunOpsTyped, UNCHANGED <<runOp, cancelOp>>, runFaults' = runFaults \/ RunFault,
         due' \subseteq Runs, late' \subseteq Runs, container' \in [Runs -> {"none", "running", "exited"}]
  PROVE  RunOpsTyped'
<1>1. runFaults' \in 0 .. MaxRunFaults /\ runFaults \in Nat /\ (runFaults' = runFaults \/ runFaults' = runFaults + 1)
  BY RunsAssumption DEF RunOpsTyped, RunFault
<1>2. \A q \in Runs : Tried(runOp[q], runFaults') /\ Tried(cancelOp[q], runFaults')
  BY <1>1, TriedStill DEF RunOpsTyped
<1> QED
  BY <1>1, <1>2 DEF RunOpsTyped

LEMMA RunsTypedStep ==
  ASSUME RunsInv, RunOpsTyped, machine \in MachineRows, RunsNext
  PROVE  RunOpsTyped'
<1>0. /\ runOp \in [Runs -> RunOps] /\ cancelOp \in [Runs -> RunOps] /\ runFaults \in 0 .. MaxRunFaults
      /\ \A r \in Runs : Tried(runOp[r], runFaults) /\ Tried(cancelOp[r], runFaults)
      /\ due \subseteq Runs /\ late \subseteq Runs /\ container \in [Runs -> {"none", "running", "exited"}]
      /\ agent.run \in Runs /\ runFaults \in Nat /\ MaxRunFaults \in Nat
  <2>1. MaxRunFaults \in Nat
    BY RunsAssumption
  <2>2. agent.run \in Runs
    BY DEF RunsInv, RunsTyped, AgentStates
  <2> QED
    BY <2>1, <2>2 DEF RunOpsTyped
<1>1. NewOp \in RunOps /\ Tried(NewOp, runFaults)
  <2>1. machine.generation \in 0 .. MaxGeneration
    BY GenerationAssumption DEF MachineRows
  <2>2. NewOp \in RunOps
    BY <2>1 DEF NewOp, RunOps
  <2>3. RunAttempts + runFaults \in Nat \ {0}
    BY <1>0, RunsAssumption
  <2> QED
    BY <2>2, <2>3 DEF NewOp, Tried, Bounded
<1>2. ASSUME NEW r \in Runs, CreateAgentRun(r) \/ CancelAgentRun(r) PROVE RunOpsTyped'
  <2>1. OpChanges(r, NewOp, runFaults') /\ UNCHANGED <<due, late, container, runFaults>>
    BY <1>0, <1>1, <1>2 DEF CreateAgentRun, CancelAgentRun, OpChanges
  <2> QED
    BY <1>0, <2>1, OpsTyped
<1>3. ASSUME NEW r \in Runs, LeaseRun(r) PROVE RunOpsTyped'
  <2>1. PICK op : op = [runOp[r] EXCEPT !.status = "leased", !.attempts = runOp[r].attempts + 1]
    OBVIOUS
  <2>2. Tried(runOp[r], runFaults) /\ runOp[r].status = "pending"
    BY <1>0, <1>3 DEF LeaseRun
  <2>3. Tried(op, runFaults)
    BY <1>0, <2>1, <2>2, TriedAgain
  <2>4. OpChanges(r, op, runFaults') /\ UNCHANGED <<due, late, container, runFaults>>
    BY <1>0, <1>3, <2>1, <2>3 DEF LeaseRun, OpChanges
  <2> QED
    BY <1>0, <2>4, OpsTyped
<1>4. ASSUME NEW r \in Runs, NEW same \in SameProcess, LeaseCancel(r, same) PROVE RunOpsTyped'
  <2>1. PICK op : op = [cancelOp[r] EXCEPT !.status = "signalled", !.attempts = cancelOp[r].attempts + 1]
    OBVIOUS
  <2>2. Tried(cancelOp[r], runFaults) /\ cancelOp[r].status = "pending"
    BY <1>0, <1>4 DEF LeaseCancel
  <2>3. Tried(op, runFaults)
    BY <1>0, <2>1, <2>2, TriedAgain
  <2>4. OpChanges(r, op, runFaults') /\ UNCHANGED <<due, late, container, runFaults>>
    BY <1>0, <1>4, <2>1, <2>3 DEF LeaseCancel, OpChanges
  <2> QED
    BY <1>0, <2>4, OpsTyped
<1>5. ASSUME NEW r \in Runs, RemoveCancelled(r) \/ CompleteCancel(r) PROVE RunOpsTyped'
  <2>1. PICK s \in {"removed", "completed"} : CancelMoves(r, s)
    BY <1>5 DEF RemoveCancelled, CompleteCancel
  <2>2. PICK op : op = [cancelOp[r] EXCEPT !.status = s]
    OBVIOUS
  <2>3. Tried(op, runFaults)
    BY <1>0, <2>2, TriedMoves
  <2>4. UNCHANGED <<due, late, runFaults, runOp>> /\ container' \in [Runs -> {"none", "running", "exited"}]
    BY <1>0, <1>5 DEF RemoveCancelled, CompleteCancel, CancelAgent
  <2>5. OpChanges(r, op, runFaults')
    BY <2>1, <2>2, <2>3, <2>4 DEF CancelMoves, OpChanges
  <2> QED
    BY <1>0, <2>4, <2>5, OpsTyped
<1>6. ASSUME NEW r \in Runs, CancelFails(r) PROVE RunOpsTyped'
  <2>1. PICK s \in {"pending", "failed"} : CancelMoves(r, s) /\ (s = "pending" => cancelOp[r].attempts < RunAttempts)
    BY <1>6 DEF CancelFails
  <2>2. PICK op : op = [cancelOp[r] EXCEPT !.status = s]
    OBVIOUS
  <2>3. runFaults' = runFaults + 1 /\ runFaults' \in 0 .. MaxRunFaults
    BY <1>0, <1>6 DEF CancelFails, RunFault
  <2>4. Tried(op, runFaults')
    <3>1. Tried(op, runFaults)
      BY <1>0, <2>1, <2>2, TriedMoves
    <3> QED
      BY <1>0, <2>3, <3>1, TriedStill
  <2>5. OpChanges(r, op, runFaults') /\ UNCHANGED <<due, late, container>>
    BY <1>6, <2>1, <2>2, <2>3, <2>4 DEF CancelFails, CancelMoves, OpChanges
  <2> QED
    BY <1>0, <2>3, <2>5, OpsTyped
<1>7. CASE CompleteRunOp \/ FailRunOp
  <2>1. PICK s \in {"completed", "pending", "failed"} :
          /\ runOp' = [runOp EXCEPT ![agent.run].status = s]
          /\ s = "pending" => runOp[agent.run].attempts < RunAttempts
    BY <1>7 DEF CompleteRunOp, FailRunOp
  <2>2. PICK op : op = [runOp[agent.run] EXCEPT !.status = s]
    OBVIOUS
  <2>3. Tried(op, runFaults)
    BY <1>0, <2>1, <2>2, TriedMoves
  <2>4. OpChanges(agent.run, op, runFaults') /\ UNCHANGED <<due, late, container, runFaults>>
    BY <1>7, <2>1, <2>2, <2>3 DEF CompleteRunOp, FailRunOp, OpChanges
  <2> QED
    BY <1>0, <2>4, OpsTyped
<1>8. CASE ManagerCrashes
  <2>1. runFaults' = runFaults + 1 /\ runFaults' \in 0 .. MaxRunFaults /\ UNCHANGED <<due, late, container, cancelOp>>
    BY <1>0, <1>8 DEF ManagerCrashes, RunFault
  <2>2. CASE runOp' = runOp
    BY <1>0, <1>8, <2>1, <2>2, OpsRest DEF ManagerCrashes
  <2>3. CASE runOp' = [runOp EXCEPT ![agent.run].status = "pending"]
    <3>1. PICK op : op = [runOp[agent.run] EXCEPT !.status = "pending"]
      OBVIOUS
    <3>2. Tried(op, runFaults')
      BY <1>0, <2>1, <3>1, TriedMoves
    <3>3. OpChanges(agent.run, op, runFaults')
      BY <2>1, <2>3, <3>1, <3>2 DEF OpChanges
    <3> QED
      BY <1>0, <2>1, <3>3, OpsTyped
  <2> QED
    BY <1>8, <2>2, <2>3 DEF ManagerCrashes
<1>9. ASSUME NEW r \in Runs, TimeoutRemoves(r) \/ RuntimePasses(r) \/ AgentExits(r) PROVE RunOpsTyped'
  BY <1>0, <1>9, OpsRest DEF TimeoutRemoves, RuntimePasses, AgentExits, CancelAgent
<1>10. CASE ReadRun \/ StartRun \/ RunAgent \/ RunAgentFails \/ (\E o \in {"ok", "error"} : WaitEnds(o))
            \/ DeadlinePasses \/ ContextEnds
  BY <1>0, <1>10, OpsRest DEF ReadRun, StartRun, RunAgent, RunAgentFails, WaitEnds, DeadlinePasses, ContextEnds
<1>11. CASE JudgeRun \/ WriteRun \/ FailAgentRun \/ AgentCallFails \/ WaitFails \/ TimeoutRecords \/ TeardownSignals
  BY <1>0, <1>11, OpsRest DEF JudgeRun, WriteRun, FailAgentRun, AgentCallFails, WaitFails, TimeoutRecords, TeardownSignals
<1> QED
  BY <1>2, <1>3, <1>4, <1>5, <1>6, <1>7, <1>8, <1>9, <1>10, <1>11 DEF RunsNext, RunHandlerStep

-----------------------------------------------------------------------------
(* Types of checkouts *)

CheckoutOps == [status : {"none", "pending", "leased", "expired", "completed", "failed", "cancelled"},
                attempts : Nat, generation : 0 .. MaxGeneration]

CheckoutTried(op, faults) == op \in CheckoutOps /\ Bounded(op, CheckoutAttempts + faults, {"pending", "expired"})

CheckoutOpsTyped ==
  /\ checkoutOp \in [Keys -> CheckoutOps]
  /\ \A k \in Keys : CheckoutTried(checkoutOp[k], checkoutFaults)
  /\ checkoutFaults \in 0 .. MaxCheckoutFaults

LEMMA CheckoutsTypesAre == CheckoutsTyped /\ CheckoutOpsTyped => CheckoutsTypeOK
<1> SUFFICES ASSUME CheckoutsTyped, CheckoutOpsTyped PROVE CheckoutsTypeOK
  OBVIOUS
<1>1. CheckoutAttempts \in Nat /\ MaxCheckoutFaults \in Nat /\ checkoutFaults \in 0 .. MaxCheckoutFaults
  BY CheckoutsAssumption DEF CheckoutOpsTyped
<1>2. \A k \in Keys : checkoutOp[k] \in
        [status : {"none", "pending", "leased", "expired", "completed", "failed", "cancelled"},
         attempts : 0 .. CheckoutAttempts + MaxCheckoutFaults, generation : 0 .. MaxGeneration]
  BY <1>1 DEF CheckoutOpsTyped, CheckoutOps, CheckoutTried, Bounded
<1> QED
  BY <1>1, <1>2 DEF CheckoutsTyped, CheckoutOpsTyped, CheckoutsTypeOK

LEMMA CheckoutTriedMoves ==
  ASSUME NEW op, NEW faults \in Nat, NEW now \in {faults, faults + 1}, CheckoutTried(op, faults),
         NEW s \in {"pending", "expired", "completed", "failed", "cancelled"},
         s \in {"pending", "expired"} => now = faults + 1 \/ op.attempts < CheckoutAttempts,
         NEW next, next = [op EXCEPT !.status = s]
  PROVE  CheckoutTried(next, now)
<1>1. CheckoutAttempts \in Nat
  BY CheckoutsAssumption
<1>2. PICK s0, a, g : op = [status |-> s0, attempts |-> a, generation |-> g] /\ a \in Nat /\ g \in 0 .. MaxGeneration
  BY DEF CheckoutTried, CheckoutOps
<1>3. next = [status |-> s, attempts |-> a, generation |-> g]
  BY <1>2
<1>4. next \in CheckoutOps
  BY <1>2, <1>3 DEF CheckoutOps
<1> QED
  BY <1>1, <1>2, <1>3, <1>4 DEF CheckoutTried, Bounded

\* One operation changes, or none, and a fault is counted, or none.
LEMMA CheckoutOpMoves ==
  ASSUME CheckoutOpsTyped, NEW k \in Keys, NEW op, checkoutFaults' = checkoutFaults \/ CheckoutFault,
         \/ checkoutOp' = checkoutOp
         \/ checkoutOp' = [checkoutOp EXCEPT ![k] = op] /\ CheckoutTried(op, checkoutFaults')
  PROVE  CheckoutOpsTyped'
<1>1. /\ checkoutFaults \in Nat /\ checkoutFaults' \in 0 .. MaxCheckoutFaults
      /\ checkoutFaults' \in {checkoutFaults, checkoutFaults + 1} /\ CheckoutAttempts \in Nat
  BY CheckoutsAssumption DEF CheckoutOpsTyped, CheckoutFault
<1>2. \A q \in Keys : CheckoutTried(checkoutOp[q], checkoutFaults')
  <2> TAKE q \in Keys
  <2>1. CheckoutTried(checkoutOp[q], checkoutFaults) /\ checkoutOp[q].attempts \in Nat
    BY DEF CheckoutOpsTyped, CheckoutTried, CheckoutOps
  <2> QED
    BY <1>1, <2>1 DEF CheckoutTried, Bounded
<1>3. CASE checkoutOp' = checkoutOp
  BY <1>1, <1>2, <1>3 DEF CheckoutOpsTyped
<1>4. CASE checkoutOp' = [checkoutOp EXCEPT ![k] = op] /\ CheckoutTried(op, checkoutFaults')
  <2>1. op \in CheckoutOps /\ checkoutOp \in [Keys -> CheckoutOps]
    BY <1>4 DEF CheckoutTried, CheckoutOpsTyped
  <2> QED
    BY <1>1, <1>2, <1>4, <2>1 DEF CheckoutOpsTyped
<1> QED
  BY <1>3, <1>4

LEMMA CheckoutOpsStep ==
  ASSUME CheckoutsTyped, CheckoutOpsTyped, machine \in MachineRows, CheckoutsNext
  PROVE  CheckoutOpsTyped'
<1>0. /\ preparer.key \in Keys /\ checkoutFaults \in Nat
      /\ \A k \in Keys : CheckoutTried(checkoutOp[k], checkoutFaults)
      /\ machine.generation \in 0 .. MaxGeneration /\ CheckoutAttempts \in Nat \ {0}
  <2>1. machine.generation \in 0 .. MaxGeneration
    BY GenerationAssumption DEF MachineRows
  <2> QED
    BY <2>1, CheckoutsAssumption DEF CheckoutsTyped, CheckoutOpsTyped
<1>1. ASSUME NEW q \in Requests, CheckoutIssue(q) \/ CreateCheckout(q) PROVE CheckoutOpsTyped'
  <2>1. PICK op : op = [status |-> "pending", attempts |-> 0, generation |-> machine.generation]
    OBVIOUS
  <2>2. CheckoutTried(op, checkoutFaults)
    BY <1>0, <2>1 DEF CheckoutTried, CheckoutOps, Bounded
  <2>3. checkoutFaults' = checkoutFaults /\
        \E k \in Keys : checkoutOp' = checkoutOp \/ checkoutOp' = [checkoutOp EXCEPT ![k] = op]
    BY <1>1, <2>1 DEF CheckoutIssue, CreateCheckout, Keys
  <2> QED
    BY <2>2, <2>3, CheckoutOpMoves
<1>2. ASSUME NEW k \in Keys, LeaseCheckout(k) PROVE CheckoutOpsTyped'
  <2>1. PICK a, g : a = checkoutOp[k].attempts /\ g = checkoutOp[k].generation
    OBVIOUS
  <2>2. PICK op : op = [status |-> "leased", attempts |-> a + 1, generation |-> g]
    OBVIOUS
  <2>3. checkoutOp' = [checkoutOp EXCEPT ![k] = op] /\ checkoutFaults' = checkoutFaults
    BY <1>2, <2>1, <2>2 DEF LeaseCheckout
  <2>4. a \in Nat /\ g \in 0 .. MaxGeneration /\ a < CheckoutAttempts + checkoutFaults
    BY <1>0, <1>2, <2>1 DEF LeaseCheckout, CheckoutTried, CheckoutOps, Bounded
  <2>5. CheckoutTried(op, checkoutFaults)
    BY <1>0, <2>2, <2>4 DEF CheckoutTried, CheckoutOps, Bounded
  <2> QED
    BY <2>3, <2>5, CheckoutOpMoves
<1>3. CASE CompleteCheckoutOp \/ FailCheckoutOp
  <2>1. PICK s \in {"completed", "pending", "failed"} :
          /\ checkoutOp' = [checkoutOp EXCEPT ![preparer.key].status = s]
          /\ s = "pending" => checkoutOp[preparer.key].attempts < CheckoutAttempts
    BY <1>3 DEF CompleteCheckoutOp, FailCheckoutOp
  <2>2. PICK op : op = [checkoutOp[preparer.key] EXCEPT !.status = s]
    OBVIOUS
  <2>3. CheckoutTried(op, checkoutFaults)
    BY <1>0, <2>1, <2>2, CheckoutTriedMoves
  <2>4. checkoutOp' = [checkoutOp EXCEPT ![preparer.key] = op] /\ checkoutFaults' = checkoutFaults
    BY <1>3, <2>1, <2>2 DEF CompleteCheckoutOp, FailCheckoutOp
  <2> QED
    BY <1>0, <2>3, <2>4, CheckoutOpMoves
<1>4. CASE PreparerCrashes
  <2>1. CheckoutFault /\ checkoutFaults' = checkoutFaults + 1
    BY <1>4 DEF PreparerCrashes, CheckoutFault
  <2>2. PICK op : op = [checkoutOp[preparer.key] EXCEPT !.status = "expired"]
    OBVIOUS
  <2>3. CheckoutTried(op, checkoutFaults')
    BY <1>0, <2>1, <2>2, CheckoutTriedMoves
  <2>4. checkoutOp' = checkoutOp \/ checkoutOp' = [checkoutOp EXCEPT ![preparer.key] = op]
    BY <1>4, <2>2 DEF PreparerCrashes
  <2> QED
    BY <1>0, <2>1, <2>3, <2>4, CheckoutOpMoves
<1>5. CASE ReconcileOrphanedCheckouts
  <2>1. checkoutFaults' = checkoutFaults
        /\ checkoutOp' = [k \in Keys |-> IF checkoutOp[k].status \in {"pending", "expired"}
                                         THEN [checkoutOp[k] EXCEPT !.status = "cancelled"] ELSE checkoutOp[k]]
    BY <1>5 DEF ReconcileOrphanedCheckouts, FailOrphaned
  <2>2. \A k \in Keys : CheckoutTried(checkoutOp'[k], checkoutFaults)
    <3> TAKE k \in Keys
    <3>1. PICK op : op = [checkoutOp[k] EXCEPT !.status = "cancelled"]
      OBVIOUS
    <3>2. CheckoutTried(op, checkoutFaults)
      BY <1>0, <3>1, CheckoutTriedMoves
    <3>3. checkoutOp'[k] = op \/ checkoutOp'[k] = checkoutOp[k]
      BY <2>1, <3>1
    <3> QED
      BY <1>0, <3>2, <3>3
  <2>3. \A k \in Keys : checkoutOp'[k] \in CheckoutOps
    BY <2>2 DEF CheckoutTried
  <2>4. checkoutOp' \in [Keys -> CheckoutOps]
    <3>1. checkoutOp' = [k \in Keys |-> checkoutOp'[k]]
      BY <2>1
    <3> QED
      BY <2>3, <3>1
  <2> QED
    BY <2>1, <2>2, <2>4 DEF CheckoutOpsTyped
<1>6. CASE CheckoutCallFails
  BY <1>0, <1>6, CheckoutOpMoves DEF CheckoutCallFails
<1>7. CASE ReadCheckout \/ FailStale \/ MarkPreparing \/ PrepareCheckout \/ MarkReady \/ PrepareFails \/ FailCheckout
  BY <1>0, <1>7, CheckoutOpMoves DEF ReadCheckout, FailStale, MarkPreparing, PrepareCheckout, MarkReady,
     PrepareFails, FailCheckout
<1> QED
  BY <1>1, <1>2, <1>3, <1>4, <1>5, <1>6, <1>7 DEF CheckoutsNext, PreparerStep

-----------------------------------------------------------------------------
(* Types of environments *)

SnapshotOps == [status : {"none", "pending", "leased", "expired", "completed", "failed", "cancelled"},
                owner : SnapshotManagers, attempts : Nat, generation : 0 .. MaxGeneration]

EnvironmentsTyped ==
  /\ snapshotOp \in SnapshotOps
  /\ Bounded(snapshotOp, SnapshotAttempts + lapses, {"none", "pending", "expired"})
  /\ image \in BOOLEAN /\ setting \in BOOLEAN /\ lapsed \in BOOLEAN
  /\ admission \subseteq Fleet /\ workspace \in {"live", "closing", "deleted"}
  /\ lapses \in 0 .. MaxLapses

LEMMA EnvironmentsTypesAre == EnvironmentsInv /\ EnvironmentsTyped => EnvironmentsTypeOK
<1> SUFFICES ASSUME EnvironmentsInv, EnvironmentsTyped PROVE EnvironmentsTypeOK
  OBVIOUS
<1>1. SnapshotAttempts \in Nat /\ MaxLapses \in Nat /\ lapses \in 0 .. MaxLapses
  BY EnvironmentsAssumption DEF EnvironmentsTyped
<1>2. snapshotOp.attempts \in 0 .. SnapshotAttempts + MaxLapses
  BY <1>1 DEF EnvironmentsTyped, SnapshotOps, Bounded
<1>3. snapshotOp \in [status : {"none", "pending", "leased", "expired", "completed", "failed", "cancelled"},
                      owner : SnapshotManagers, attempts : 0 .. SnapshotAttempts + MaxLapses,
                      generation : 0 .. MaxGeneration]
  BY <1>2 DEF EnvironmentsTyped, SnapshotOps
<1> QED
  BY <1>1, <1>3 DEF EnvironmentsInv, FleetInv, SnapshotsInv, EnvironmentsTyped, EnvironmentsTypeOK

\* The operation, by what a step does to it.
LEMMA SnapshotOpMoves ==
  ASSUME EnvironmentsTyped, lapses' \in {lapses, lapses + 1}, lapses' \in 0 .. MaxLapses,
         NEW s \in {"pending", "leased", "expired", "completed", "failed", "cancelled"},
         NEW owner \in SnapshotManagers, NEW generation \in 0 .. MaxGeneration, NEW attempts \in Nat,
         snapshotOp' = [status |-> s, owner |-> owner, attempts |-> attempts, generation |-> generation],
         attempts <= SnapshotAttempts + lapses',
         s \in {"pending", "expired"} => attempts < SnapshotAttempts + lapses'
  PROVE  snapshotOp' \in SnapshotOps /\ Bounded(snapshotOp, SnapshotAttempts + lapses, {"none", "pending", "expired"})'
  BY DEF SnapshotOps, Bounded

LEMMA EnvironmentsTypedStep ==
  ASSUME EnvironmentsInv, EnvironmentsTyped, machine \in MachineRows, EnvironmentsNext
  PROVE  EnvironmentsTyped'
<1>0. /\ machine.generation \in 0 .. MaxGeneration /\ SnapshotAttempts \in Nat \ {0} /\ MaxLapses \in Nat
      /\ lapses \in Nat /\ lapses \in 0 .. MaxLapses
  <2>1. machine.generation \in 0 .. MaxGeneration
    BY GenerationAssumption DEF MachineRows
  <2> QED
    BY <2>1, EnvironmentsAssumption DEF EnvironmentsTyped
<1>1. PICK s, o, a, g : /\ snapshotOp = [status |-> s, owner |-> o, attempts |-> a, generation |-> g]
                        /\ s \in {"none", "pending", "leased", "expired", "completed", "failed", "cancelled"}
                        /\ o \in SnapshotManagers /\ a \in Nat /\ g \in 0 .. MaxGeneration
                        /\ a <= SnapshotAttempts + lapses
                        /\ s \in {"none", "pending", "expired"} => a < SnapshotAttempts + lapses
  <2>1. PICK s, o, a, g : /\ snapshotOp = [status |-> s, owner |-> o, attempts |-> a, generation |-> g]
                          /\ s \in {"none", "pending", "leased", "expired", "completed", "failed", "cancelled"}
                          /\ o \in SnapshotManagers /\ a \in Nat /\ g \in 0 .. MaxGeneration
    BY DEF EnvironmentsTyped, SnapshotOps
  <2> QED
    BY <2>1 DEF EnvironmentsTyped, Bounded
<1>2. lapses' = lapses \/ Lapse => lapses' \in {lapses, lapses + 1} /\ lapses' \in 0 .. MaxLapses
  BY <1>0 DEF Lapse
\* What a step leaves of the operation.
<1>3. ASSUME snapshotOp' = snapshotOp, lapses' = lapses \/ Lapse
      PROVE  snapshotOp' \in SnapshotOps /\ Bounded(snapshotOp, SnapshotAttempts + lapses, {"none", "pending", "expired"})'
  BY <1>0, <1>1, <1>2, <1>3 DEF SnapshotOps, Bounded
<1>4. ASSUME NEW now \in {"pending", "leased", "expired", "completed", "failed", "cancelled"},
             snapshotOp' = [snapshotOp EXCEPT !.status = now], lapses' = lapses \/ Lapse,
             now \in {"pending", "expired"} =>
               s = now \/ lapses' = lapses + 1 \/ a < SnapshotAttempts
      PROVE  snapshotOp' \in SnapshotOps /\ Bounded(snapshotOp, SnapshotAttempts + lapses, {"none", "pending", "expired"})'
  <2>1. snapshotOp' = [status |-> now, owner |-> o, attempts |-> a, generation |-> g]
    BY <1>1, <1>4
  <2>2. a <= SnapshotAttempts + lapses' /\ (now \in {"pending", "expired"} => a < SnapshotAttempts + lapses')
    BY <1>0, <1>1, <1>2, <1>4
  <2> QED
    BY <1>1, <1>2, <1>4, <2>1, <2>2, SnapshotOpMoves
<1>5. CASE CreateEnvironment
  <2>1. s = "none"
    BY <1>1, <1>5 DEF CreateEnvironment, EnvironmentsInv, SnapshotsInv
  <2>2. snapshotOp' = [status |-> "pending", owner |-> o, attempts |-> a, generation |-> machine.generation]
    BY <1>1, <1>5 DEF CreateEnvironment
  <2>3. UNCHANGED <<image, setting, admission, workspace, lapses, lapsed>>
    BY <1>5 DEF CreateEnvironment
  <2>4. snapshotOp' \in SnapshotOps /\ Bounded(snapshotOp, SnapshotAttempts + lapses, {"none", "pending", "expired"})'
    BY <1>0, <1>1, <2>1, <2>2, <2>3, SnapshotOpMoves
  <2> QED
    BY <2>3, <2>4 DEF EnvironmentsTyped
<1>6. ASSUME NEW m \in SnapshotManagers, LeaseSnapshot(m) PROVE EnvironmentsTyped'
  <2>1. s \in {"pending", "expired"}
    BY <1>1, <1>6 DEF LeaseSnapshot
  <2>2. snapshotOp' = [status |-> "leased", owner |-> m, attempts |-> a + 1, generation |-> g]
    BY <1>1, <1>6 DEF LeaseSnapshot
  <2>3. UNCHANGED <<image, setting, admission, workspace, lapses, lapsed>>
    BY <1>6 DEF LeaseSnapshot
  <2>4. snapshotOp' \in SnapshotOps /\ Bounded(snapshotOp, SnapshotAttempts + lapses, {"none", "pending", "expired"})'
    BY <1>0, <1>1, <2>1, <2>2, <2>3, SnapshotOpMoves
  <2> QED
    BY <2>3, <2>4 DEF EnvironmentsTyped
<1>7. ASSUME NEW m \in SnapshotManagers,
             ReadEnvironment(m) \/ MarkBuilding(m) \/ CommitImage(m) \/ RecordImage(m) \/ FailSnapshot(m) \/ CommitFails(m)
      PROVE  EnvironmentsTyped'
  <2>1. /\ snapshotOp' = snapshotOp /\ (lapses' = lapses \/ Lapse)
        /\ UNCHANGED <<setting, admission, workspace, lapsed>> /\ (image' = image \/ image' = TRUE)
    BY <1>7 DEF ReadEnvironment, MarkBuilding, CommitImage, RecordImage, FailSnapshot, CommitFails
  <2> QED
    BY <1>2, <1>3, <2>1 DEF EnvironmentsTyped
<1>8. ASSUME NEW m \in SnapshotManagers, EndSnapshotOp(m) PROVE EnvironmentsTyped'
  <2>1. UNCHANGED <<image, setting, admission, workspace, lapses, lapsed>>
    BY <1>8 DEF EndSnapshotOp
  <2>2. \/ snapshotOp' = snapshotOp
        \/ \E now \in {"completed", "pending", "failed"} :
             snapshotOp' = [snapshotOp EXCEPT !.status = now] /\ (now = "pending" => a < SnapshotAttempts)
    BY <1>1, <1>8 DEF EndSnapshotOp
  <2>3. snapshotOp' \in SnapshotOps /\ Bounded(snapshotOp, SnapshotAttempts + lapses, {"none", "pending", "expired"})'
    BY <1>3, <1>4, <2>1, <2>2
  <2> QED
    BY <2>1, <2>3 DEF EnvironmentsTyped
<1>9. ASSUME LeaseLapses \/ \E m \in SnapshotManagers : SnapshotManagerDies(m) PROVE EnvironmentsTyped'
  <2>1. Lapse /\ lapses' = lapses + 1 /\ UNCHANGED <<image, setting, admission, workspace>>
    BY <1>9 DEF LeaseLapses, SnapshotManagerDies, Lapse
  <2>2. snapshotOp' = snapshotOp \/ snapshotOp' = [snapshotOp EXCEPT !.status = "expired"]
    BY <1>1, <1>9 DEF LeaseLapses, SnapshotManagerDies
  <2>3. snapshotOp' \in SnapshotOps /\ Bounded(snapshotOp, SnapshotAttempts + lapses, {"none", "pending", "expired"})'
    BY <1>3, <1>4, <2>1, <2>2
  <2>4. lapsed' \in BOOLEAN
    <3>1. CASE lapsed' = lapsed
      BY <3>1 DEF EnvironmentsTyped
    <3>2. CASE LeaseLapses
      BY <3>2, Zenon DEF LeaseLapses
    <3> QED
      BY <1>9, <3>1, <3>2 DEF SnapshotManagerDies
  <2> QED
    BY <1>2, <2>1, <2>3, <2>4 DEF EnvironmentsTyped
<1>10. CASE ReconcileOrphanedEnvironments \/ RequestEnvironmentDeletion \/ DeleteWorkspace
  <2>1. /\ UNCHANGED <<image, admission, lapses, lapsed>> /\ (setting' = setting \/ setting' = FALSE)
        /\ workspace' \in {workspace, "closing", "deleted"}
    BY <1>10 DEF ReconcileOrphanedEnvironments, RequestEnvironmentDeletion, DeleteWorkspace
  <2>2. snapshotOp' = snapshotOp \/ snapshotOp' = [snapshotOp EXCEPT !.status = "cancelled"]
    BY <1>1, <1>10 DEF ReconcileOrphanedEnvironments, RequestEnvironmentDeletion, DeleteWorkspace
  <2>3. snapshotOp' \in SnapshotOps /\ Bounded(snapshotOp, SnapshotAttempts + lapses, {"none", "pending", "expired"})'
    BY <1>3, <1>4, <2>1, <2>2
  <2> QED
    BY <2>1, <2>3 DEF EnvironmentsTyped
<1>11. ASSUME NEW u \in Fleet,
              \/ CreateMachine(u) \/ FleetSettles(u) \/ (\E linked \in {"snapshots" \in work} : CreateBundle(u, linked))
              \/ \E d \in Desires : SetDesired(u, d)
       PROVE  EnvironmentsTyped'
  <2>1. /\ UNCHANGED <<snapshotOp, image, setting, workspace, lapses, lapsed>>
        /\ admission' \in {admission, admission \cup {u}, admission \ {u}}
    BY <1>11 DEF CreateMachine, FleetSettles, CreateBundle, SetDesired
  <2> QED
    BY <1>3, <2>1 DEF EnvironmentsTyped
<1>12. CASE UpdateScopeSetting \/ DeleteScopeSetting \/ DeleteEnvironmentImage \/ DeleteEnvironment
  <2>1. /\ UNCHANGED <<snapshotOp, admission, workspace, lapses, lapsed>>
        /\ (setting' = setting \/ setting' = TRUE \/ setting' = FALSE) /\ (image' = image \/ image' = FALSE)
    BY <1>12 DEF UpdateScopeSetting, UpsertScopeSetting, DeleteScopeSetting, DeleteEnvironmentImage, DeleteEnvironment
  <2> QED
    BY <1>3, <2>1 DEF EnvironmentsTyped
<1> QED
  BY <1>5, <1>6, <1>7, <1>8, <1>9, <1>10, <1>11, <1>12 DEF EnvironmentsNext, SnapshotStep

-----------------------------------------------------------------------------
(* Types of the whole *)

TypesInv == AccessTypes /\ RunOpsTyped /\ CheckoutOpsTyped /\ EnvironmentsTyped /\ work \in Workloads

LEMMA AccessTypesInit == MachineInit /\ AccessInit => AccessTypes
<1> SUFFICES ASSUME MachineInit, AccessInit PROVE AccessTypes
  OBVIOUS
<1>1. machine \in MachineRows
  BY GenerationAssumption DEF MachineInit, MachineRows, Desires
<1>2. (CHOOSE t \in Tickets : TRUE) \in Tickets /\ MaxEpoch \in Nat /\ CloseAttempts \in Nat \ {0}
  BY AccessAssumption
<1>3. /\ ticket \in [Tickets -> TicketRows] /\ session \in [Tickets -> SessionRows]
      /\ gateway \in [Gateways -> GatewayRows]
  <2>1. Row("none") \in TicketRows /\ Row("none") \in SessionRows
    BY <1>2 DEF AccessInit, Row, TicketRows, SessionRows
  <2>2. [pc |-> "idle", ticket |-> CHOOSE t \in Tickets : TRUE, epoch |-> 0] \in GatewayRows
    BY <1>2 DEF GatewayRows
  <2> QED
    BY <2>1, <2>2 DEF AccessInit
<1>4. closeOp \in CloseOps /\ Bounded(closeOp, CloseAttempts, {"pending"})
  BY <1>2 DEF AccessInit, CloseOps, Bounded
<1>5. epoch \in 0 .. MaxEpoch /\ slow \subseteq Tickets /\ terminal \in {"none", "active", "closing", "closed", "close_failed"}
  BY <1>2 DEF AccessInit
<1>6. member \in BOOLEAN /\ shell \in BOOLEAN /\ failing \in BOOLEAN
  BY Zenon DEF AccessInit
<1> QED
  BY <1>1, <1>3, <1>4, <1>5, <1>6 DEF AccessTypes, AccessTypeOK, TicketRows, SessionRows, GatewayRows, CloseOps

LEMMA TypesInit == WorkInit => TypesInv
<1> SUFFICES ASSUME WorkInit PROVE TypesInv
  OBVIOUS
<1>1. AccessTypes
  BY AccessTypesInit DEF WorkInit
<1>2. RunOpsTyped
  <2>1. NoOp \in RunOps /\ Tried(NoOp, 0) /\ RunAttempts \in Nat /\ MaxRunFaults \in Nat
    BY RunsAssumption, GenerationAssumption DEF NoOp, RunOps, Tried, Bounded
  <2>2. /\ runOp = [r \in Runs |-> NoOp] /\ cancelOp = [r \in Runs |-> NoOp] /\ runFaults = 0
        /\ due = {} /\ late = {} /\ container = [r \in Runs |-> "none"]
    BY DEF WorkInit, RunsInit
  <2>3. /\ runOp \in [Runs -> RunOps] /\ cancelOp \in [Runs -> RunOps]
        /\ \A r \in Runs : Tried(runOp[r], runFaults) /\ Tried(cancelOp[r], runFaults)
    BY <2>1, <2>2
  <2> QED
    BY <2>1, <2>2, <2>3 DEF RunOpsTyped
<1>3. CheckoutOpsTyped
  <2>1. PICK op : op = [status |-> "none", attempts |-> 0, generation |-> 0]
    OBVIOUS
  <2>2. CheckoutTried(op, 0) /\ op \in CheckoutOps
    BY <2>1, CheckoutsAssumption, GenerationAssumption DEF CheckoutOps, CheckoutTried, Bounded
  <2> QED
    BY <2>1, <2>2, CheckoutsAssumption DEF WorkInit, CheckoutsInit, CheckoutOpsTyped
<1>4. EnvironmentsTyped
  <2>1. (CHOOSE m \in SnapshotManagers : TRUE) \in SnapshotManagers
        /\ SnapshotAttempts \in Nat \ {0} /\ MaxLapses \in Nat /\ MaxGeneration \in Nat
    BY EnvironmentsAssumption, GenerationAssumption
  <2>2. snapshotOp \in SnapshotOps /\ snapshotOp.attempts = 0
    BY <2>1 DEF WorkInit, EnvironmentsInit, SnapshotOps
  <2>3. lapses = 0 /\ image = FALSE /\ setting = FALSE /\ lapsed = FALSE /\ admission = {} /\ workspace = "live"
    BY DEF WorkInit, EnvironmentsInit
  <2>4. image \in BOOLEAN /\ setting \in BOOLEAN /\ lapsed \in BOOLEAN
    BY <2>3, Zenon
  <2>5. lapses \in 0 .. MaxLapses /\ Bounded(snapshotOp, SnapshotAttempts + lapses, {"none", "pending", "expired"})
    BY <2>1, <2>2, <2>3 DEF Bounded
  <2> QED
    BY <2>2, <2>3, <2>4, <2>5 DEF EnvironmentsTyped
<1> QED
  BY <1>1, <1>2, <1>3, <1>4 DEF TypesInv, WorkInit

LEMMA AccessTypesFollow ==
  ASSUME AccessTypes, AccessFollows, machine' \in MachineRows
  PROVE  AccessTypes'
<1>1. epoch' \in 0 .. MaxEpoch
  BY AccessAssumption DEF AccessTypes, AccessTypeOK, AccessFollows
<1>2. slow' \subseteq Tickets
  BY DEF AccessTypes, AccessTypeOK, AccessFollows
<1>3. shell' \in BOOLEAN
  BY Zenon DEF AccessFollows
<1>4. UNCHANGED <<member, ticket, session, gateway, terminal, closeOp, failing>>
  BY DEF AccessFollows
<1> QED
  BY <1>1, <1>2, <1>3, <1>4 DEF AccessTypes, AccessTypeOK, Bounded

\* The parts a step of another part leaves alone.
LEMMA OpsKept ==
  /\ RunOpsTyped /\ UNCHANGED runs => RunOpsTyped'
  /\ CheckoutOpsTyped /\ UNCHANGED checkouts => CheckoutOpsTyped'
  /\ EnvironmentsTyped /\ UNCHANGED environments => EnvironmentsTyped'
<1>1. RunOpsTyped /\ UNCHANGED runs => RunOpsTyped'
  BY DEF runs, RunOpsTyped
<1>2. CheckoutOpsTyped /\ UNCHANGED checkouts => CheckoutOpsTyped'
  BY DEF checkouts, CheckoutOpsTyped
<1>3. EnvironmentsTyped /\ UNCHANGED environments => EnvironmentsTyped'
  BY DEF environments, EnvironmentsTyped, Bounded
<1> QED
  BY <1>1, <1>2, <1>3

\* A request has a generation of its own, within the bound.
LEMMA MachineStaysTyped == machine \in MachineRows /\ MachineMoves => machine' \in MachineRows
<1> SUFFICES ASSUME machine \in MachineRows, MachineMoves PROVE machine' \in MachineRows
  OBVIOUS
<1>1. PICK s, d, g, b : /\ machine = [status |-> s, desired |-> d, generation |-> g, revoked |-> b]
                        /\ s \in Desires \cup {"failed"} /\ d \in Desires
                        /\ g \in 1 .. MaxGeneration /\ b \in BOOLEAN
  BY DEF MachineRows
<1>2. ASSUME NEW e \in Desires, Request(e) PROVE machine' \in MachineRows
  <2>1. machine' = [status |-> s, desired |-> e, generation |-> g + 1, revoked |-> FALSE] /\ g < MaxGeneration
    BY <1>1, <1>2 DEF Request
  <2>2. g + 1 \in 1 .. MaxGeneration
    BY <1>1, <2>1, GenerationAssumption
  <2> QED
    BY <1>1, <2>1, <2>2 DEF MachineRows
<1>3. CASE Settle
  BY <1>1, <1>3 DEF Settle, MachineRows
<1>4. CASE SettleFails
  BY <1>1, <1>4 DEF SettleFails, MachineRows
<1> QED
  BY <1>2, <1>3, <1>4 DEF MachineMoves, MachineStep

LEMMA TypesStep ==
  ASSUME TypesInv, RunsInv, CheckoutsInv, EnvironmentsInv, [WorkNext]_workVars
  PROVE  TypesInv'
<1>0. /\ AccessTypes /\ RunOpsTyped /\ CheckoutOpsTyped /\ EnvironmentsTyped /\ CheckoutsTyped
      /\ (work' = work => work' \in Workloads) /\ machine \in MachineRows
  BY DEF TypesInv, CheckoutsInv, AccessTypes, AccessTypeOK
<1>1. CASE MachineMoves /\ UNCHANGED work
  <2>1. AccessTypes'
    BY <1>0, <1>1, AccessTypesFollow, MachineStaysTyped DEF MachineMoves
  <2>2. RunOpsTyped'
    BY <1>0, <1>1, OpsRest DEF MachineMoves, RunsFollow, RunOpsTyped
  <2>3. CheckoutOpsTyped' /\ EnvironmentsTyped'
    BY <1>0, <1>1, OpsKept DEF MachineMoves, CheckoutsFollow, EnvironmentsFollow
  <2> QED
    BY <1>0, <1>1, <2>1, <2>2, <2>3 DEF TypesInv
<1>2. CASE AccessNext /\ UNCHANGED <<work, runs, checkouts, environments>>
  <2>1. AccessTypes'
    <3>1. ASSUME NEW g \in Gateways, NEW t \in Tickets,
                 \/ IssueTicket(g, t) \/ Consume(g, t)
                 \/ TicketCommits(g) \/ SelectSession(g) \/ SessionCommits(g) \/ Connect(g) \/ Abandon(g)
          PROVE  AccessTypes'
      BY <1>0, <3>1, TicketsTypedStep
    <3>2. CASE MemberLeaves \/ Revoke
      BY <1>0, <3>2, RevokeTyped
    <3>3. CASE OpenTerminal \/ RequestTerminalSessionClose \/ LeaseClose \/ TerminateTerminal
               \/ CompleteTerminalSessionClose \/ TerminateFails \/ FailTerminalSessionClose
      BY <1>0, <3>3, CloseTypedStep
    <3> QED
      BY <1>2, <3>1, <3>2, <3>3, AccessAssumption DEF AccessNext
  <2> QED
    BY <1>0, <1>2, <2>1, OpsKept DEF TypesInv
<1>3. CASE RunsNext /\ UNCHANGED <<work, access, terminals, checkouts, environments>>
  BY <1>0, <1>3, RunsTypedStep, RunsKeepMachine, AccessRest, OpsKept DEF TypesInv
<1>4. CASE CheckoutsNext /\ UNCHANGED <<work, access, terminals, runs, environments>>
  BY <1>0, <1>4, CheckoutOpsStep, CheckoutsKeepMachine, AccessRest, OpsKept DEF TypesInv
<1>5. CASE EnvironmentsNext /\ UNCHANGED <<work, access, terminals, runs, checkouts>>
  BY <1>0, <1>5, EnvironmentsTypedStep, EnvironmentsKeepMachine, AccessRest, OpsKept DEF TypesInv
<1>6. CASE UNCHANGED workVars
  BY <1>0, <1>6, AccessRest, OpsKept DEF TypesInv, workVars
<1> QED
  BY <1>1, <1>2, <1>3, <1>4, <1>5, <1>6 DEF WorkNext

LEMMA TypesInvariant == WorkSpec => [](TypesInv /\ RunsInv /\ CheckoutsInv /\ EnvironmentsInv)
<1>1. WorkInit => TypesInv
  BY TypesInit
<1>2. TypesInv /\ RunsInv /\ CheckoutsInv /\ EnvironmentsInv /\ [WorkNext]_workVars => TypesInv'
  BY TypesStep
<1> QED
  BY <1>1, <1>2, RunsInvariant, CheckoutsInvariant, EnvironmentsInvariant, PTL DEF WorkSpec

\* Every row and handler on a machine keeps its type: an operation is leased at
\* most as often as its attempts and the faults of the behaviour allow, a row is
\* in a state its handlers know, and a generation is one the machine has had.
THEOREM WorkTypes == WorkSpec => []WorkTypeOK
<1>1. TypesInv /\ RunsInv /\ CheckoutsInv /\ EnvironmentsInv => WorkTypeOK
  BY RunsTypesAre, CheckoutsTypesAre, EnvironmentsTypesAre
     DEF TypesInv, AccessTypes, RunsTypes, CheckoutsInv, WorkTypeOK
<1> QED
  BY <1>1, TypesInvariant, PTL
=============================================================================
