------------------------------ MODULE AgentRuns ------------------------------
(****************************************************************************)
(* Agent runs: a user queues one, a manager leases its operation and drives *)
(* a container through it, and users, the timeout pass, a newer generation  *)
(* and teardown end it from outside.  The run row, the operation, the       *)
(* container and the handler agree only through conditional updates.        *)
(* At most one run_agent handler lives on a machine: leases exclude each    *)
(* other and are lost only in a crash here (DevMachine has lease stalls).   *)
(****************************************************************************)
EXTENDS MachineRow

CONSTANTS Runs,          \* runs ever requested
          Interactive,   \* those of mode "interactive"
          SameProcess,   \* whether a cancellation may be leased by the manager of
                         \* the handler: {TRUE} is one manager, BOOLEAN several
          NoRun,         \* nothing
          RunAttempts,   \* max_attempts of run_agent and cancel_agent operations
          MaxRunFaults   \* bound on crashes and failing calls

ASSUME RunsAssumption ==
  /\ Runs # {} /\ Interactive \subseteq Runs /\ NoRun \notin Runs /\ SameProcess \subseteq BOOLEAN
  /\ RunAttempts \in Nat \ {0} /\ MaxRunFaults \in Nat

VARIABLES
  run,        \* dev_machine_agent_runs: status
  due,        \* runs whose max_runtime_seconds have passed
  runOp,      \* their run_agent operations
  cancelOp,   \* their cancel_agent operations
  container,  \* the container labelled with the run
  launches,   \* how often a container was created for the run
  late,       \* runs whose container was created when they had ended, or a pass had looked for it
  agent,      \* the run_agent handler
  pass,       \* the run a reconcile pass is timing out
  runFaults

runs == <<run, due, runOp, cancelOp, container, launches, late, agent, pass, runFaults>>

Ended == {"succeeded", "failed", "cancelled", "timeout"}   \* terminalAgentStatus
Pcs == {"idle", "read", "start", "launch", "wait", "finish", "write", "done", "fail", "failRun"}

OpRows == [status : {"none", "pending", "leased", "signalled", "removed", "completed", "failed"},
           attempts : 0 .. RunAttempts + MaxRunFaults, generation : 0 .. MaxGeneration]

RunsTypeOK ==
  /\ run \in [Runs -> Ended \cup {"none", "queued", "running"}]
  /\ due \subseteq Runs
  /\ runOp \in [Runs -> OpRows] /\ cancelOp \in [Runs -> OpRows]
  /\ container \in [Runs -> {"none", "running", "exited"}]
  /\ launches \in [Runs -> 0 .. 2] /\ late \subseteq Runs
  /\ agent \in [pc : Pcs, run : Runs, open : BOOLEAN,
                outcome : {"", "ok", "error", "timeout", "succeeded", "failed", "cancelled"}]
  /\ pass \in Runs \cup {NoRun}
  /\ runFaults \in 0 .. MaxRunFaults

NoOp == [status |-> "none", attempts |-> 0, generation |-> 0]
NewOp == [status |-> "pending", attempts |-> 0, generation |-> machine.generation]

RunsInit ==
  /\ run = [r \in Runs |-> "none"] /\ due = {}
  /\ runOp = [r \in Runs |-> NoOp] /\ cancelOp = [r \in Runs |-> NoOp]
  /\ container = [r \in Runs |-> "none"] /\ launches = [r \in Runs |-> 0] /\ late = {}
  /\ agent \in [pc : {"idle"}, run : {CHOOSE r \in Runs : TRUE},
                open : {TRUE}, outcome : {""}]
  /\ pass = NoRun /\ runFaults = 0

-----------------------------------------------------------------------------
(* Statements *)

ActiveRun == \E r \in Runs : run[r] \in {"queued", "running"}

RunFault == runFaults < MaxRunFaults /\ work \cap {"failures", "crashes"} # {} /\ runFaults' = runFaults + 1

\* Mutant: the row is written whatever it holds.
CompleteAnyRun(r, status) == run' = [run EXCEPT ![r] = status]

\* CompleteAgentRun: an ended run keeps its status.
CompleteAgentRun(r, status) ==
  run' = IF run[r] \in Ended THEN run ELSE [run EXCEPT ![r] = status]

AgentAt(pc) == agent.pc = pc
AgentMoves(pc) == agent' = [agent EXCEPT !.pc = pc]

-----------------------------------------------------------------------------
(* The API *)

\* DevMachineService.CreateAgentRun, with the transaction that repeats its checks
CreateAgentRun(r) ==
  /\ (IF r \in Interactive THEN "interactive" ELSE "autonomous") \in work
  /\ run[r] = "none" /\ Usable /\ ~ActiveRun
  /\ run' = [run EXCEPT ![r] = "queued"]
  /\ runOp' = [runOp EXCEPT ![r] = NewOp]
  /\ UNCHANGED <<machine, due, cancelOp, container, launches, late, agent, pass, runFaults>>

\* The run is cancelled and its cancel_agent queued in one transaction.
CancelAgentRun(r) ==
  /\ run[r] \in {"queued", "running"}
  /\ run' = [run EXCEPT ![r] = "cancelled"]
  /\ cancelOp' = [cancelOp EXCEPT ![r] = NewOp]
  /\ UNCHANGED <<machine, due, runOp, container, launches, late, agent, pass, runFaults>>

-----------------------------------------------------------------------------
(* The run_agent handler *)

LeaseRun(r) ==
  /\ AgentAt("idle") /\ runOp[r].status = "pending"
  /\ runOp' = [runOp EXCEPT ![r] = [@ EXCEPT !.status = "leased", !.attempts = runOp[r].attempts + 1]]
  /\ agent' = [pc |-> "read", run |-> r, open |-> TRUE, outcome |-> ""]
  /\ UNCHANGED <<machine, run, due, cancelOp, container, launches, late, pass, runFaults>>

\* What the handler reads before it writes: a stale operation cancels its run
\* (cancelStaleAgentRun), an ended run is left alone.
ReadRun ==
  /\ AgentAt("read")
  /\ LET r == agent.run
         stale == runOp[r].generation # machine.generation \/ machine.desired # "running" IN
     /\ IF stale THEN CompleteAgentRun(r, "cancelled") ELSE UNCHANGED run
     /\ AgentMoves(IF stale \/ run[r] \in Ended THEN "done" ELSE "start")
  /\ UNCHANGED <<machine, due, runOp, cancelOp, container, launches, late, pass, runFaults>>

\* Mutant: a second attempt starts the run again.
StartAlways(r) == run[r] \in {"queued", "running"}

\* UpdateAgentRunStarted: only a queued run starts, so a second attempt at a
\* run that already started fails, again and again.
Startable(r) == run[r] = "queued"

StartRun ==
  /\ AgentAt("start") /\ agent.open
  /\ LET r == agent.run IN
     IF Startable(r)
     THEN run' = [run EXCEPT ![r] = "running"] /\ AgentMoves("launch")
     ELSE UNCHANGED run /\ AgentMoves(IF run[r] \in Ended THEN "done" ELSE "fail")
  /\ UNCHANGED <<machine, due, runOp, cancelOp, container, launches, late, pass, runFaults>>

\* DockerRuntime.RunAgent: the container is created, started, and given its
\* secrets.  An interactive run is left to its user.
RunAgent ==
  /\ AgentAt("launch") /\ agent.open /\ machine.status # "destroyed"
  /\ LET r == agent.run IN
     /\ container' = [container EXCEPT ![r] = "running"]
     /\ launches' = [launches EXCEPT ![r] = @ + 1]
     /\ late' = IF run[r] \in Ended \/ pass = r THEN late \cup {r} ELSE late
     /\ AgentMoves(IF r \in Interactive THEN "done" ELSE "wait")
  /\ UNCHANGED <<machine, run, due, runOp, cancelOp, pass, runFaults>>

\* There is no network any more.
RunAgentFails ==
  /\ AgentAt("launch") /\ agent.open /\ machine.status = "destroyed"
  /\ agent' = [agent EXCEPT !.pc = "finish", !.outcome = "error"]
  /\ UNCHANGED <<machine, run, due, runOp, cancelOp, container, launches, late, pass, runFaults>>

\* resumeAgent stops waiting: the container is over, or gone.
WaitEnds(outcome) ==
  /\ AgentAt("wait") /\ container[agent.run] # "running"
  /\ outcome \in IF container[agent.run] = "none" THEN {"error"} ELSE {"ok", "error"}
  /\ agent' = [agent EXCEPT !.pc = "finish", !.outcome = outcome]
  /\ UNCHANGED <<machine, run, due, runOp, cancelOp, container, launches, late, pass, runFaults>>

\* ContainerWait fails: the run is judged while its container may go on.
WaitFails ==
  /\ AgentAt("wait") /\ agent.open /\ RunFault
  /\ agent' = [agent EXCEPT !.pc = "finish", !.outcome = "error"]
  /\ UNCHANGED <<machine, run, due, runOp, cancelOp, container, launches, late, pass>>

\* The deadline of the run: the container is stopped, then removed.
DeadlinePasses ==
  /\ agent.pc \in {"launch", "wait"} /\ agent.open /\ agent.run \in due
  /\ container' = [container EXCEPT ![agent.run] = "none"]
  /\ agent' = [agent EXCEPT !.pc = "finish", !.outcome = "timeout"]
  /\ UNCHANGED <<machine, run, due, runOp, cancelOp, launches, late, pass, runFaults>>

\* Its context is cancelled: it stops a container it waits for and fails on
\* the next statement.
ContextEnds ==
  /\ ~agent.open /\ agent.pc \in {"start", "launch", "wait", "finish", "write"}
  /\ container' = IF AgentAt("wait") /\ container[agent.run] = "running"
                  THEN [container EXCEPT ![agent.run] = "exited"] ELSE container
  /\ AgentMoves("fail")
  /\ UNCHANGED <<machine, run, due, runOp, cancelOp, launches, late, pass, runFaults>>

\* A secret, a token, Docker, the clean-up after the deadline or a statement fails.
AgentCallFails ==
  /\ agent.pc \in {"read", "start", "launch", "wait", "write"}
  /\ RunFault
  /\ AgentMoves("fail")
  /\ UNCHANGED <<machine, run, due, runOp, cancelOp, container, launches, late, pass>>

\* The verdict, from the row as it is now ...
JudgeRun ==
  /\ AgentAt("finish") /\ agent.open
  /\ agent' = [agent EXCEPT !.pc = "write",
        !.outcome = CASE run[agent.run] = "cancelled" -> "cancelled"
                      [] agent.outcome = "timeout"    -> "timeout"
                      [] agent.outcome = "error"      -> "failed"
                      [] OTHER                        -> "succeeded"]
  /\ UNCHANGED <<machine, run, due, runOp, cancelOp, container, launches, late, pass, runFaults>>

\* ... is written after GitHub and Git were asked.
WriteRun ==
  /\ AgentAt("write") /\ agent.open
  /\ CompleteAgentRun(agent.run, agent.outcome)
  /\ AgentMoves("done")
  /\ UNCHANGED <<machine, due, runOp, cancelOp, container, launches, late, pass, runFaults>>

\* CompleteOperation
CompleteRunOp ==
  /\ AgentAt("done")
  /\ runOp' = [runOp EXCEPT ![agent.run].status = "completed"]
  /\ AgentMoves("idle")
  /\ UNCHANGED <<machine, run, due, cancelOp, container, launches, late, pass, runFaults>>

\* FailOperation
FailRunOp ==
  /\ AgentAt("fail")
  /\ LET r == agent.run
         retry == runOp[r].attempts < RunAttempts IN
     /\ runOp' = [runOp EXCEPT ![r].status = IF retry THEN "pending" ELSE "failed"]
     /\ AgentMoves(IF retry THEN "idle" ELSE "failRun")
  /\ UNCHANGED <<machine, run, due, cancelOp, container, launches, late, pass, runFaults>>

\* failAgentRun, after the last attempt
FailAgentRun ==
  /\ AgentAt("failRun")
  /\ CompleteAgentRun(agent.run, "failed")
  /\ AgentMoves("idle")
  /\ UNCHANGED <<machine, due, runOp, cancelOp, container, launches, late, pass, runFaults>>

-----------------------------------------------------------------------------
(* The cancel_agent handler, which preempts run_agent *)

CancelMoves(r, status) == cancelOp' = [cancelOp EXCEPT ![r].status = status]

\* cancelActiveRuns reaches only the handlers of its own process.
SignalRun(r) ==
  agent' = IF agent.run = r /\ ~AgentAt("idle") THEN [agent EXCEPT !.open = FALSE] ELSE agent

LeaseCancel(r, same) ==
  /\ cancelOp[r].status = "pending"
  /\ cancelOp' = [cancelOp EXCEPT ![r] = [@ EXCEPT !.status = "signalled",
                                                 !.attempts = cancelOp[r].attempts + 1]]
  /\ IF same THEN SignalRun(r) ELSE UNCHANGED agent
  /\ UNCHANGED <<machine, run, due, runOp, container, launches, late, pass, runFaults>>

\* Mutant: a removal that is not forced leaves a running container.
CancelOnlyExited(r) == container' = [container EXCEPT ![r] = IF @ = "exited" THEN "none" ELSE @]

\* DockerRuntime.CancelAgent: the container with the label of the run is removed.
CancelAgent(r) == container' = [container EXCEPT ![r] = "none"]

RemoveCancelled(r) ==
  /\ cancelOp[r].status = "signalled"
  /\ CancelAgent(r)
  /\ CancelMoves(r, "removed")
  /\ UNCHANGED <<machine, run, due, runOp, launches, late, agent, pass, runFaults>>

CompleteCancel(r) ==
  /\ cancelOp[r].status = "removed"
  /\ CancelMoves(r, "completed")
  /\ UNCHANGED <<machine, run, due, runOp, container, launches, late, agent, pass, runFaults>>

CancelFails(r) ==
  /\ cancelOp[r].status = "signalled"
  /\ RunFault
  /\ CancelMoves(r, IF cancelOp[r].attempts < RunAttempts THEN "pending" ELSE "failed")
  /\ UNCHANGED <<machine, run, due, runOp, container, launches, late, agent, pass>>

-----------------------------------------------------------------------------
(* The timeout pass of reconcile *)

\* Mutant: only a run whose container is still there is listed.
ListedWithContainer(r) == run[r] = "running" /\ r \in due /\ container[r] = "running"

\* ListTimedOutAgentRuns
ListedTimedOut(r) == run[r] = "running" /\ r \in due

\* CancelAgent has removed the container of a listed run ...
TimeoutRemoves(r) ==
  /\ pass = NoRun /\ ListedTimedOut(r)
  /\ CancelAgent(r)
  /\ pass' = r
  /\ UNCHANGED <<machine, run, due, runOp, cancelOp, launches, late, agent, runFaults>>

\* ... and it is recorded, whatever happened to the run in between.
TimeoutRecords ==
  /\ pass # NoRun
  /\ CompleteAgentRun(pass, "timeout")
  /\ pass' = NoRun
  /\ UNCHANGED <<machine, due, runOp, cancelOp, container, launches, late, agent, runFaults>>

-----------------------------------------------------------------------------
(* Time, containers, crashes, and the machine *)

RuntimePasses(r) ==
  /\ launches[r] = 1 \/ run[r] = "running"
  /\ r \notin due
  /\ due' = due \cup {r}
  /\ UNCHANGED <<machine, run, runOp, cancelOp, container, launches, late, agent, pass, runFaults>>

AgentExits(r) ==
  /\ container[r] = "running"
  /\ container' = [container EXCEPT ![r] = "exited"]
  /\ UNCHANGED <<machine, run, due, runOp, cancelOp, launches, late, agent, pass, runFaults>>

\* A manager dies: its handler is gone and its leases expire.
ManagerCrashes ==
  /\ "crashes" \in work
  /\ ~AgentAt("idle") /\ RunFault
  /\ runOp' = IF agent.pc = "failRun" THEN runOp ELSE [runOp EXCEPT ![agent.run].status = "pending"]
  /\ AgentMoves("idle")
  /\ UNCHANGED <<machine, run, due, cancelOp, container, launches, late, pass>>

\* Teardown cancels the runs of its own process and removes every container.
TeardownSignals ==
  /\ machine.desired = "destroyed" /\ machine.status # "destroyed"
  /\ ~AgentAt("idle") /\ agent.open
  /\ CompleteAgentRun(agent.run, "cancelled")
  /\ agent' = [agent EXCEPT !.open = FALSE]
  /\ UNCHANGED <<machine, due, runOp, cancelOp, container, launches, late, pass, runFaults>>

RunsFollow ==
  /\ container' = IF machine'.status = "destroyed" THEN [r \in Runs |-> "none"] ELSE container
  /\ UNCHANGED <<run, due, runOp, cancelOp, launches, late, agent, pass, runFaults>>

\* An active run keeps users and the idle pass from taking the machine down.
RunsRefuse == IF ActiveRun THEN {"paused", "stopped"} ELSE {}

RunHandlerStep ==
  \/ ReadRun \/ StartRun \/ RunAgent \/ RunAgentFails \/ (\E o \in {"ok", "error"} : WaitEnds(o))
  \/ DeadlinePasses \/ ContextEnds
  \/ JudgeRun \/ WriteRun \/ CompleteRunOp \/ FailRunOp \/ FailAgentRun

RunsNext ==
  \/ \E r \in Runs :
       \/ CreateAgentRun(r) \/ CancelAgentRun(r)
       \/ LeaseRun(r) \/ (\E same \in SameProcess : LeaseCancel(r, same))
       \/ RemoveCancelled(r) \/ CompleteCancel(r) \/ CancelFails(r)
       \/ TimeoutRemoves(r) \/ RuntimePasses(r) \/ AgentExits(r)
  \/ RunHandlerStep \/ AgentCallFails \/ WaitFails
  \/ TimeoutRecords
  \/ ManagerCrashes
  \/ TeardownSignals

RunsFairness ==
  /\ WF_runs(\E r \in Runs : LeaseRun(r))
  /\ WF_runs(RunHandlerStep)
  /\ WF_runs(TimeoutRecords)
  /\ \A r \in Runs :
       /\ WF_runs(TimeoutRemoves(r)) /\ WF_runs(RuntimePasses(r))
       /\ WF_runs(\E same \in SameProcess : LeaseCancel(r, same))
       /\ WF_runs(RemoveCancelled(r)) /\ WF_runs(CompleteCancel(r))

-----------------------------------------------------------------------------
(* Properties *)

\* What ended a run first keeps it, whoever else is about to write: users,
\* handlers, the timeout pass and teardown all race for the row
\* (CompleteAgentRun, CancelAgentRun).
EndedRunKeepsItsStatus ==
  [][\A r \in Runs : run[r] \in Ended => run'[r] = run[r]]_runs

\* However often its operation is retried or taken over, a run starts at most
\* one container (UpdateAgentRunStarted).
StartsOnce == \A r \in Runs : launches[r] <= 1

\* Someone still has to deal with the container of this run.
InHand(r) ==
  \/ agent.run = r /\ ~AgentAt("idle")
  \/ cancelOp[r].status \in {"pending", "signalled"}
  \/ machine.desired = "destroyed"

\* Without a failing call or a crash the container of an ended run is not left
\* running, unless it was created too late for whoever ended the run to see it.
EndedRunLeavesNothing ==
  runFaults = 0 =>
    \A r \in Runs \ late : run[r] \in Ended /\ container[r] = "running" => InHand(r)

\* A run comes to an end; a queued one whose last attempt failed needs a
\* manager that lives long enough to record it.
RunsEnd ==
  \A r \in Runs :
    (run[r] = "running" \/ (run[r] = "queued" /\ "crashes" \notin work)) ~> run[r] \in Ended
=============================================================================
