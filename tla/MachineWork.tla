----------------------------- MODULE MachineWork -----------------------------
(****************************************************************************)
(* Everything that happens on and around one running machine: access, agent *)
(* runs, checkouts and snapshots, composed over the machine row they share. *)
(* A behaviour interleaves the features of one workload; together the       *)
(* workloads exercise every pair of features that meet in the code.         *)
(****************************************************************************)
EXTENDS GatewayAccess, AgentRuns, Checkouts, Environments

CONSTANT Workloads   \* the sets of features explored

ASSUME WorkloadsAssumption == Workloads \subseteq SUBSET Features

workVars == <<machine, work, access, terminals, runs, checkouts, environments>>

WorkTypeOK ==
  /\ AccessTypeOK /\ RunsTypeOK /\ CheckoutsTypeOK /\ EnvironmentsTypeOK
  /\ work \in Workloads

WorkInit ==
  /\ MachineInit /\ work \in Workloads
  /\ AccessInit /\ RunsInit /\ CheckoutsInit /\ EnvironmentsInit

\* A request, or the end of one: each part follows.
MachineMoves ==
  /\ MachineStep(RunsRefuse \cup SnapshotRefuses)
  /\ AccessFollows /\ RunsFollow /\ CheckoutsFollow /\ EnvironmentsFollow

WorkNext ==
  /\ UNCHANGED work
  /\ \/ MachineMoves
     \/ AccessNext /\ UNCHANGED <<runs, checkouts, environments>>
     \/ RunsNext /\ UNCHANGED <<access, terminals, checkouts, environments>>
     \/ CheckoutsNext /\ UNCHANGED <<access, terminals, runs, environments>>
     \/ EnvironmentsNext /\ UNCHANGED <<access, terminals, runs, checkouts>>

WorkSpec ==
  /\ WorkInit /\ [][WorkNext]_workVars
  /\ AccessFairness /\ RunsFairness /\ CheckoutsFairness /\ EnvironmentsFairness
=============================================================================
