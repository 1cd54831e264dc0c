-------------------------- MODULE LifecycleContract --------------------------
(****************************************************************************)
(* What the control plane promises about one machine row, whatever          *)
(* processes write it and in whatever order: each request is a new          *)
(* generation, teardown is the last thing anyone can ask for, a settled or  *)
(* transitional status is only recorded while it is the one asked for, a    *)
(* paused machine can be reached by nobody, and a row disappears only from  *)
(* an end state.                                                            *)
(****************************************************************************)
EXTENDS Naturals

CONSTANT MaxGeneration

VARIABLES present, status, desired, generation, access

contract == <<present, status, desired, generation, access>>

Desires == {"running", "paused", "stopped", "destroyed"}

\* The desired status under which each status may be recorded; any other
\* status reports a failure or the end of the lifetime and may always be.
Serves == [running |-> "running", spawning |-> "running", paused |-> "paused",
           stopped |-> "stopped", stopping |-> "stopped",
           destroyed |-> "destroyed", tearing_down |-> "destroyed"]

Init ==
  /\ present = TRUE /\ status = "queued" /\ desired = "running"
  /\ generation = 1 /\ access = FALSE

Ask(d) ==
  /\ present
  /\ desired = "destroyed" => d = "destroyed"
  /\ generation < MaxGeneration
  /\ generation' = generation + 1
  /\ desired' = d
  /\ UNCHANGED <<present, status, access>>

Record(s) ==
  /\ present
  /\ s \in DOMAIN Serves => Serves[s] = desired
  /\ s = "paused" => ~access
  /\ status' = s
  /\ UNCHANGED <<present, desired, generation, access>>

Grant ==
  /\ present /\ status = "running" /\ desired = "running"
  /\ access' = TRUE
  /\ UNCHANGED <<present, status, desired, generation>>

Revoke ==
  /\ access' = FALSE
  /\ UNCHANGED <<present, status, desired, generation>>

Remove ==
  /\ present /\ status \in {"destroyed", "failed", "expired"}
  /\ present' = FALSE /\ access' = FALSE
  /\ UNCHANGED <<status, desired, generation>>

Next ==
  \/ \E d \in Desires : Ask(d)
  \/ \E s \in DOMAIN Serves \cup {"failed", "expired"} : Record(s)
  \/ Grant \/ Revoke \/ Remove

Spec == Init /\ [][Next]_contract
=============================================================================
