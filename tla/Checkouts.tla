------------------------------ MODULE Checkouts ------------------------------
(****************************************************************************)
(* The checkout of one issue on the machine.  Requests read the rows before *)
(* their transaction; the first request and every retry queue an operation  *)
(* of their own; a reconcile pass fails a checkout no operation will serve. *)
(* UpdateCheckoutState has no condition, so whoever writes last wins.       *)
(****************************************************************************)
EXTENDS MachineRow

CONSTANTS Requests,          \* concurrent CheckoutIssue requests
          First,             \* the operation key of a first request
          CheckoutAttempts,  \* max_attempts of a checkout_issue operation
          MaxCheckoutFaults  \* bound on failing calls and crashes

ASSUME CheckoutsAssumption ==
  /\ First \notin Requests
  /\ CheckoutAttempts \in Nat \ {0, 1} /\ MaxCheckoutFaults \in Nat

VARIABLES
  checkout,     \* the dev_machine_checkouts row
  asking,       \* what a request has read: "none" or "failed" rows queue work
  checkoutOp,   \* operations, keyed by "first" or by the request of the retry
  preparer,     \* the checkout_issue handler
  overtaken,    \* a request committed over a row other than the one it had read
  checkoutFaults

checkouts == <<checkout, asking, checkoutOp, preparer, overtaken, checkoutFaults>>

Keys == Requests \cup {First}

CheckoutsTypeOK ==
  /\ checkout \in {"none", "queued", "preparing", "ready", "failed"}
  /\ asking \in [Requests -> {"idle", "none", "failed", "done"}]
  /\ checkoutOp \in [Keys -> [status : {"none", "pending", "leased", "expired", "completed", "failed", "cancelled"},
                              attempts : 0 .. CheckoutAttempts + MaxCheckoutFaults,
                              generation : 0 .. MaxGeneration]]
  /\ preparer \in [pc : {"idle", "read", "stale", "preparing", "prepare", "ready", "done", "fail", "failCheckout"},
                   key : Keys]
  /\ overtaken \in BOOLEAN
  /\ checkoutFaults \in 0 .. MaxCheckoutFaults

CheckoutsInit ==
  /\ checkout = "none" /\ overtaken = FALSE /\ checkoutFaults = 0
  /\ asking = [q \in Requests |-> "idle"]
  /\ checkoutOp = [k \in Keys |-> [status |-> "none", attempts |-> 0, generation |-> 0]]
  /\ preparer = [pc |-> "idle", key |-> First]

CheckoutFault ==
  /\ checkoutFaults < MaxCheckoutFaults /\ work \cap {"failures", "crashes"} # {}
  /\ checkoutFaults' = checkoutFaults + 1

-----------------------------------------------------------------------------
(* DevMachineService.CheckoutIssue *)

\* It lists the checkouts: an issue that has one, and not a failed one, is done.
CheckoutIssue(q) ==
  /\ "checkouts" \in work
  /\ asking[q] = "idle" /\ Usable
  /\ asking' = [asking EXCEPT ![q] = IF checkout \in {"none", "failed"} THEN checkout ELSE "done"]
  /\ UNCHANGED <<machine, checkout, checkoutOp, preparer, overtaken, checkoutFaults>>

\* CreateCheckout: the machine is checked again, the row is inserted or queued
\* again, and the operation is queued unless its key is already taken.
CreateCheckout(q) ==
  /\ asking[q] \in {"none", "failed"}
  /\ asking' = [asking EXCEPT ![q] = "done"]
  /\ IF Usable
     THEN LET key == IF asking[q] = "none" THEN First ELSE q IN
          /\ checkout' = "queued"
          /\ overtaken' = (overtaken \/ checkout # asking[q])
          /\ checkoutOp' = IF checkoutOp[key].status = "none"
                           THEN [checkoutOp EXCEPT ![key] = [status |-> "pending", attempts |-> 0,
                                                             generation |-> machine.generation]]
                           ELSE checkoutOp
     ELSE UNCHANGED <<checkout, overtaken, checkoutOp>>
  /\ UNCHANGED <<machine, preparer, checkoutFaults>>

-----------------------------------------------------------------------------
(* The checkout_issue handler *)

PreparerAt(pc) == preparer.pc = pc
PreparerMoves(pc) == preparer' = [preparer EXCEPT !.pc = pc]

\* UpdateCheckoutState
UpdateCheckoutState(status) == checkout' = status

LeaseCheckout(k) ==
  /\ PreparerAt("idle") /\ checkoutOp[k].status \in {"pending", "expired"}
  /\ checkoutOp' = [checkoutOp EXCEPT ![k] = [status |-> "leased", attempts |-> @.attempts + 1, generation |-> @.generation]]
  /\ preparer' = [pc |-> "read", key |-> k]
  /\ UNCHANGED <<machine, checkout, asking, overtaken, checkoutFaults>>

\* processOperation reads the machine, then the checkout.
ReadCheckout ==
  /\ PreparerAt("read")
  /\ PreparerMoves(IF checkoutOp[preparer.key].generation < machine.generation THEN "stale"
                   ELSE IF checkout = "ready" THEN "done" ELSE "preparing")
  /\ UNCHANGED <<machine, checkout, asking, checkoutOp, overtaken, checkoutFaults>>

\* A newer generation: the checkout fails, even a ready one.
FailStale ==
  /\ PreparerAt("stale")
  /\ UpdateCheckoutState("failed")
  /\ PreparerMoves("done")
  /\ UNCHANGED <<machine, asking, checkoutOp, overtaken, checkoutFaults>>

MarkPreparing ==
  /\ PreparerAt("preparing")
  /\ UpdateCheckoutState("preparing")
  /\ PreparerMoves("prepare")
  /\ UNCHANGED <<machine, asking, checkoutOp, overtaken, checkoutFaults>>

\* DockerRuntime.PrepareCheckout, in the container of the IDE or the terminal
PrepareCheckout ==
  /\ PreparerAt("prepare") /\ machine.status = "running"
  /\ PreparerMoves("ready")
  /\ UNCHANGED <<machine, checkout, asking, checkoutOp, overtaken, checkoutFaults>>

MarkReady ==
  /\ PreparerAt("ready")
  /\ UpdateCheckoutState("ready")
  /\ PreparerMoves("done")
  /\ UNCHANGED <<machine, asking, checkoutOp, overtaken, checkoutFaults>>

CheckoutCallFails ==
  /\ preparer.pc \in {"stale", "preparing", "prepare", "ready", "done"}
  /\ CheckoutFault
  /\ PreparerMoves("fail")
  /\ UNCHANGED <<machine, checkout, asking, checkoutOp, overtaken>>

\* The container is not there to run the command.
PrepareFails ==
  /\ PreparerAt("prepare") /\ machine.status # "running"
  /\ PreparerMoves("fail")
  /\ UNCHANGED <<machine, checkout, asking, checkoutOp, overtaken, checkoutFaults>>

CompleteCheckoutOp ==
  /\ PreparerAt("done")
  /\ checkoutOp' = [checkoutOp EXCEPT ![preparer.key].status = "completed"]
  /\ PreparerMoves("idle")
  /\ UNCHANGED <<machine, checkout, asking, overtaken, checkoutFaults>>

FailCheckoutOp ==
  /\ PreparerAt("fail")
  /\ LET retry == checkoutOp[preparer.key].attempts < CheckoutAttempts IN
     /\ checkoutOp' = [checkoutOp EXCEPT ![preparer.key].status = IF retry THEN "pending" ELSE "failed"]
     /\ PreparerMoves(IF retry THEN "idle" ELSE "failCheckout")
  /\ UNCHANGED <<machine, checkout, asking, overtaken, checkoutFaults>>

FailCheckout ==
  /\ PreparerAt("failCheckout")
  /\ UpdateCheckoutState("failed")
  /\ PreparerMoves("idle")
  /\ UNCHANGED <<machine, asking, checkoutOp, overtaken, checkoutFaults>>

\* A manager dies: its handler is gone, and its lease expires.
PreparerCrashes ==
  /\ "crashes" \in work
  /\ ~PreparerAt("idle") /\ CheckoutFault
  /\ checkoutOp' = IF PreparerAt("failCheckout") THEN checkoutOp
                   ELSE [checkoutOp EXCEPT ![preparer.key].status = "expired"]
  /\ PreparerMoves("idle")
  /\ UNCHANGED <<machine, checkout, asking, overtaken>>

-----------------------------------------------------------------------------
(* The reconcile pass *)

\* An operation that holds a lease, or will be served as the machine stands
Viable(k) ==
  \/ checkoutOp[k].status = "leased"
  \/ checkoutOp[k].status = "pending" /\ checkoutOp[k].generation = machine.generation /\ Usable

FailOrphaned(statuses) ==
  /\ checkout \in statuses
  /\ ~\E k \in Keys : Viable(k)
  /\ checkout' = "failed"
  /\ checkoutOp' = [k \in Keys |-> IF checkoutOp[k].status \in {"pending", "expired"}
                                   THEN [checkoutOp[k] EXCEPT !.status = "cancelled"] ELSE checkoutOp[k]]
  /\ UNCHANGED <<machine, asking, preparer, overtaken, checkoutFaults>>

\* Mutant: a queued checkout is left to its operation.
ReconcileOnlyPreparing == FailOrphaned({"preparing"})
\* Mutant: a checkout without operations is failed, ready or not.
ReconcileReadyToo == FailOrphaned({"queued", "preparing", "ready"})

ReconcileOrphanedCheckouts == FailOrphaned({"queued", "preparing"})

CheckoutsFollow == UNCHANGED checkouts

PreparerStep ==
  \/ ReadCheckout \/ FailStale \/ MarkPreparing \/ PrepareCheckout \/ MarkReady
  \/ PrepareFails \/ CompleteCheckoutOp \/ FailCheckoutOp \/ FailCheckout

CheckoutsNext ==
  \/ \E q \in Requests : CheckoutIssue(q) \/ CreateCheckout(q)
  \/ \E k \in Keys : LeaseCheckout(k)
  \/ PreparerStep \/ CheckoutCallFails \/ PreparerCrashes
  \/ ReconcileOrphanedCheckouts

CheckoutsFairness ==
  /\ WF_checkouts(\E k \in Keys : LeaseCheckout(k))
  /\ WF_checkouts(PreparerStep)
  /\ WF_checkouts(ReconcileOrphanedCheckouts)

-----------------------------------------------------------------------------
(* Properties *)

\* A checkout somebody waits for is prepared or fails, whatever became of its
\* operation: a key already taken, a newer generation, a dead manager.
CheckoutSettles ==
  checkout \in {"queued", "preparing"} ~> checkout \in {"ready", "failed"}

\* A prepared checkout stays ready: only a request that had read an older row,
\* or the second attempt at an operation that had written it, takes it back.
ReadyStaysReady ==
  [][checkout = "ready" /\ checkout' # "ready" =>
       overtaken' \/ checkoutFaults > 0]_checkouts
=============================================================================
