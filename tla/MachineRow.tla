----------------------------- MODULE MachineRow -----------------------------
(****************************************************************************)
(* The machine row as the workloads on a machine see it: what users and     *)
(* passes ask of it and what its handlers record, one step per committed    *)
(* statement.  DevMachine shows how the control plane gets there; here only *)
(* the order of the commits matters.                                        *)
(****************************************************************************)
EXTENDS Naturals, FiniteSets

CONSTANT MaxGeneration   \* bound on the number of requests

ASSUME GenerationAssumption == MaxGeneration \in Nat \ {0}

VARIABLES machine,  \* revoked: RevokeMachineAccess has committed for this request
          work      \* what the users of this behaviour do: a bound on what is
                    \* interleaved, chosen once and for all

Desires == {"running", "paused", "stopped", "destroyed"}

Features == {"browsers", "terminals", "autonomous", "interactive", "checkouts", "snapshots",
             "fleet", "lifecycle", "failures", "crashes"}

MachineRows == [status : Desires \cup {"failed"}, desired : Desires,
                generation : 1 .. MaxGeneration, revoked : BOOLEAN]

MachineInit ==
  machine = [status |-> "running", desired |-> "running", generation |-> 1, revoked |-> FALSE]

Usable == machine.status = "running" /\ machine.desired = "running"
IsStable == machine.status = machine.desired /\ machine.status \in {"paused", "stopped"}

\* domain.ValidOperationForStatus
Serves == [running |-> {"paused", "stopped", "failed"}, paused |-> {"running"},
           stopped |-> {"running", "paused"},
           destroyed |-> {"running", "paused", "stopped", "failed"}]

\* SetDesiredAndEnqueue and EnqueueInternalOperation: a new generation.
Request(d) ==
  /\ machine.desired # "destroyed"
  /\ machine.status \in Serves[d]
  /\ machine.generation < MaxGeneration
  /\ machine' = [machine EXCEPT !.desired = d, !.generation = @ + 1, !.revoked = FALSE]

\* A handler revokes access on its way down, and before it starts a paused
\* machine again; stop and teardown go on when the statement fails.
MarkRevoked ==
  /\ machine.status # machine.desired /\ ~machine.revoked
  /\ machine' = [machine EXCEPT !.revoked = TRUE]

\* The last statement of the handler that serves the request.
Settle ==
  /\ machine.status # machine.desired
  /\ machine.desired = "paused" \/ (machine.desired = "running" /\ machine.status = "paused")
       => machine.revoked
  /\ machine' = [machine EXCEPT !.status = machine.desired]

\* The last attempt failed.
SettleFails ==
  /\ machine.status # machine.desired
  /\ machine' = [machine EXCEPT !.status = "failed"]

MachineStep(refused) ==
  /\ "lifecycle" \in work
  /\ \/ \E d \in Desires \ refused : Request(d)
     \/ Settle
     \/ SettleFails
=============================================================================
