---------------------------- MODULE GatewayAccess ----------------------------
(****************************************************************************)
(* How people reach a machine: the API issues one-time tickets, the gateway *)
(* consumes a ticket and creates a session, every request rechecks its      *)
(* session, and handlers revoke both.  CreateAccessTicket and               *)
(* CreateAccessSession are INSERT ... SELECT statements at READ COMMITTED:  *)
(* what they select and what they insert are two steps here.  Tickets of    *)
(* terminals belong to a terminal session, whose close is an operation.     *)
(****************************************************************************)
EXTENDS MachineRow

CONSTANTS Tickets,          \* tickets ever issued (and the sessions made of them)
          TerminalTickets,  \* those that open the terminal
          Gateways,         \* concurrent gateway requests
          MaxEpoch,         \* bound on how often the machine is resumed
          CloseAttempts     \* max_attempts of a terminate_terminal operation

ASSUME AccessAssumption ==
  /\ Tickets # {} /\ TerminalTickets \subseteq Tickets
  /\ MaxEpoch \in Nat \ {0} /\ CloseAttempts \in Nat \ {0}

VARIABLES
  member,    \* the user still has a role that may use machines
  ticket,    \* rows of dev_machine_access_tickets
  session,   \* rows of dev_machine_access_sessions, one per browser ticket
  gateway,   \* what each gateway request is doing, and for which ticket
  epoch,     \* how often the machine came back from a pause or a stop
  slow,      \* tickets overtaken by what should have ended them: inserted after
             \* it, connected after it, or left by a revocation that failed
  terminal,  \* the terminal session row
  shell,     \* a shell runs in the container under its name
  closeOp,   \* its terminate_terminal operation
  failing    \* a handler has failed that operation and not yet the session

access == <<member, ticket, session, gateway, epoch, slow>>
terminals == <<terminal, shell, closeOp, failing>>

AccessTypeOK ==
  /\ machine \in MachineRows
  /\ member \in BOOLEAN
  /\ ticket \in [Tickets -> [status : {"none", "active", "used", "revoked"}, epoch : 0 .. MaxEpoch]]
  /\ session \in [Tickets -> [status : {"none", "active", "revoked"}, epoch : 0 .. MaxEpoch]]
  /\ gateway \in [Gateways -> [pc : {"idle", "issue", "consumed", "insert", "connect"},
                               ticket : Tickets, epoch : 0 .. MaxEpoch]]
  /\ epoch \in 0 .. MaxEpoch
  /\ slow \subseteq Tickets
  /\ terminal \in {"none", "active", "closing", "closed", "close_failed"}
  /\ shell \in BOOLEAN
  /\ closeOp \in [status : {"none", "pending", "leased", "killed", "completed", "failed"},
                 attempts : 0 .. CloseAttempts]
  /\ failing \in BOOLEAN

Row(s) == [status |-> s, epoch |-> 0]

AccessInit ==
  /\ member = TRUE /\ epoch = 0 /\ slow = {}
  /\ ticket = [t \in Tickets |-> Row("none")]
  /\ session = [t \in Tickets |-> Row("none")]
  /\ gateway \in [Gateways -> {[pc |-> "idle", ticket |-> CHOOSE t \in Tickets : TRUE, epoch |-> 0]}]
  /\ terminal = "none" /\ shell = FALSE /\ failing = FALSE
  /\ closeOp = [status |-> "none", attempts |-> 0]

-----------------------------------------------------------------------------
(* The statements *)

\* The join every statement of the gateway repeats: machine running and
\* desired running, member role; a terminal ticket also needs its session.
Exercised(t) == IF t \in TerminalTickets THEN "terminals" \in work ELSE "browsers" \in work

Entitled(t) == Usable /\ member /\ (t \in TerminalTickets => terminal = "active")

At(g, pc) == gateway[g].pc = pc
Become(g, pc, t) == gateway' = [gateway EXCEPT ![g] = [pc |-> pc, ticket |-> t, epoch |-> epoch]]
Return(g) == gateway' = [gateway EXCEPT ![g].pc = "idle"]

RevokeTickets(S, from) ==
  ticket' = [t \in Tickets |-> IF t \in S /\ ticket[t].status \in from
                               THEN [ticket[t] EXCEPT !.status = "revoked"] ELSE ticket[t]]

RevokeSessions ==
  session' = [t \in Tickets |-> IF session[t].status = "active"
                                THEN [session[t] EXCEPT !.status = "revoked"] ELSE session[t]]

\* Mutant: sessions survive.
RevokeTicketsOnly ==
  /\ RevokeTickets(Tickets, {"active"})
  /\ UNCHANGED session

\* Both updates in one transaction.
RevokeMachineAccess ==
  /\ RevokeTickets(Tickets, {"active"})
  /\ RevokeSessions

-----------------------------------------------------------------------------
(* The API: LaunchService, CreateTerminalSession *)

\* CreateTerminalSession inserts the session before its ticket.
OpenTerminal ==
  /\ "terminals" \in work
  /\ Usable /\ member /\ terminal = "none"
  /\ terminal' = "active"
  /\ UNCHANGED <<machine, access, shell, closeOp, failing>>

\* CreateAccessTicket has selected its machine ...
IssueTicket(g, t) ==
  /\ At(g, "idle") /\ ticket[t].status = "none" /\ Exercised(t)
  /\ Entitled(t)
  /\ \A h \in Gateways : At(h, "issue") => gateway[h].ticket # t
  /\ Become(g, "issue", t)
  /\ UNCHANGED <<machine, member, ticket, session, epoch, slow, terminals>>

\* ... and commits.
TicketCommits(g) ==
  /\ At(g, "issue")
  /\ LET t == gateway[g].ticket IN
     /\ ticket' = [ticket EXCEPT ![t] = [status |-> "active", epoch |-> gateway[g].epoch]]
     /\ slow' = IF Entitled(t) /\ gateway[g].epoch = epoch THEN slow ELSE slow \cup {t}
  /\ Return(g)
  /\ UNCHANGED <<machine, member, session, epoch, terminals>>

-----------------------------------------------------------------------------
(* The gateway: exchangeTicket, proxyTerminalTicket, authorize *)

\* Mutant: a used ticket is accepted.
ConsumableAgain(t) == ticket[t].status \in {"active", "used"} /\ Entitled(t)

\* ConsumeAccessTicket is one UPDATE ... RETURNING: rechecked under the row lock.
Consumable(t) == ticket[t].status = "active" /\ Entitled(t)

Consume(g, t) ==
  /\ At(g, "idle") /\ Consumable(t)
  /\ ticket' = [ticket EXCEPT ![t].status = "used"]
  /\ Become(g, IF t \in TerminalTickets THEN "connect" ELSE "consumed", t)
  /\ UNCHANGED <<machine, member, session, epoch, slow, terminals>>

\* CreateAccessSession selects the machine; without a row the launch is lost.
SelectSession(g) ==
  /\ At(g, "consumed")
  /\ IF Entitled(gateway[g].ticket) THEN Become(g, "insert", gateway[g].ticket) ELSE Return(g)
  /\ UNCHANGED <<machine, member, ticket, session, epoch, slow, terminals>>

SessionCommits(g) ==
  /\ At(g, "insert")
  /\ LET t == gateway[g].ticket IN
     /\ session' = [session EXCEPT ![t] = [status |-> "active", epoch |-> gateway[g].epoch]]
     /\ slow' = IF Usable /\ gateway[g].epoch = epoch THEN slow ELSE slow \cup {t}
  /\ Return(g)
  /\ UNCHANGED <<machine, member, ticket, epoch, terminals>>

\* The client goes away or the gateway dies between two statements.
Abandon(g) ==
  /\ ~At(g, "idle")
  /\ Return(g)
  /\ UNCHANGED <<machine, member, ticket, session, epoch, slow, terminals>>

\* The proxy reaches ttyd, which attaches to the named shell or starts it.
Connect(g) ==
  /\ At(g, "connect")
  /\ Return(g)
  /\ shell' = (shell \/ machine.status \in {"running", "paused"})
  /\ slow' = IF terminal # "active" THEN slow \cup {gateway[g].ticket} ELSE slow
  /\ UNCHANGED <<machine, member, ticket, session, epoch, terminal, closeOp, failing>>

\* authorize succeeds: GetAccessSession rechecks the whole join.
Authorized(t) == session[t].status = "active" /\ Usable /\ member

-----------------------------------------------------------------------------
(* Closing a terminal *)

\* Mutant: the operation of an earlier close is taken for this one's.
QueuesFirst == closeOp.status = "none"

\* A finished operation is queued again, a live one serves both requests.
QueuesClose == closeOp.status \in {"none", "completed", "failed"}

RequestTerminalSessionClose ==
  /\ terminal \in {"active", "closing", "close_failed"}
  /\ terminal' = "closing"
  /\ RevokeTickets(TerminalTickets, {"active", "used"})
  /\ closeOp' = IF QueuesClose
                THEN [status |-> "pending", attempts |-> 0] ELSE closeOp
  /\ UNCHANGED <<machine, member, session, gateway, epoch, slow, shell, failing>>

CloseMoves(s) == closeOp' = [closeOp EXCEPT !.status = s]

LeaseClose ==
  /\ closeOp.status = "pending"
  /\ closeOp' = [status |-> "leased", attempts |-> closeOp.attempts + 1]
  /\ UNCHANGED <<machine, access, terminal, shell, failing>>

\* Mutant: a shell in a paused container is left alone.
TerminateUnlessPaused ==
  /\ closeOp.status = "leased"
  /\ CloseMoves("killed")
  /\ shell' = (shell /\ (terminal = "closed" \/ machine.status = "paused"))
  /\ UNCHANGED <<machine, access, terminal, failing>>

\* TerminateTerminal kills the shell, in a paused container too; a closed
\* session is not terminated again.
TerminateTerminal ==
  /\ closeOp.status = "leased"
  /\ CloseMoves("killed")
  /\ shell' = (shell /\ terminal = "closed")
  /\ UNCHANGED <<machine, access, terminal, failing>>

\* CompleteTerminalSessionClose and CompleteOperation
CompleteTerminalSessionClose ==
  /\ closeOp.status = "killed"
  /\ CloseMoves("completed")
  /\ terminal' = "closed"
  /\ RevokeTickets(TerminalTickets, {"active", "used"})
  /\ UNCHANGED <<machine, member, session, gateway, epoch, slow, shell, failing>>

\* Mutant: one attempt too many.
BeyondLastAttempt == closeOp.attempts > CloseAttempts

LastAttempt == closeOp.attempts >= CloseAttempts

\* FailOperation: another attempt, or the end of it.
TerminateFails ==
  /\ closeOp.status \in {"leased", "killed"}
  /\ CloseMoves(IF LastAttempt THEN "failed" ELSE "pending")
  /\ failing' = (failing \/ LastAttempt)
  /\ UNCHANGED <<machine, access, terminal, shell>>

\* It only fails a session that is still closing, which may be a newer close.
FailTerminalSessionClose ==
  /\ failing
  /\ failing' = FALSE
  /\ terminal' = IF terminal = "closing" THEN "close_failed" ELSE terminal
  /\ UNCHANGED <<machine, access, shell, closeOp>>

-----------------------------------------------------------------------------
(* The machine and the workspace *)

MemberLeaves ==
  /\ member /\ "browsers" \in work
  /\ member' = FALSE
  /\ UNCHANGED <<machine, ticket, session, gateway, epoch, slow, terminals>>

Revoke ==
  /\ MarkRevoked
  /\ RevokeMachineAccess
  /\ UNCHANGED <<member, gateway, epoch, slow, terminals>>

AccessFollows ==
  /\ epoch' = IF machine.status \in {"paused", "stopped"} /\ machine'.status = "running" THEN epoch + 1 ELSE epoch
  /\ epoch' <= MaxEpoch
  \* a stop or a teardown settles although its revocation failed
  /\ slow' = IF machine'.status = machine'.desired /\ machine'.status # "running" /\ ~machine.revoked
             THEN slow \cup {t \in Tickets : "active" \in {ticket[t].status, session[t].status}}
             ELSE slow
  /\ shell' = (shell /\ machine'.status \in {"running", "paused", "failed"})
  /\ UNCHANGED <<member, ticket, session, gateway, terminal, closeOp, failing>>

AccessNext ==
  \/ OpenTerminal
  \/ \E g \in Gateways :
       \/ \E t \in Tickets : IssueTicket(g, t) \/ Consume(g, t)
       \/ TicketCommits(g) \/ SelectSession(g) \/ SessionCommits(g) \/ Connect(g) \/ Abandon(g)
  \/ RequestTerminalSessionClose \/ LeaseClose
  \/ TerminateTerminal \/ CompleteTerminalSessionClose \/ TerminateFails
  \/ FailTerminalSessionClose
  \/ MemberLeaves \/ Revoke

AccessFairness ==
  /\ WF_terminals(LeaseClose) /\ WF_terminals(TerminateTerminal)
  /\ WF_terminals(CompleteTerminalSessionClose \/ TerminateFails)
  /\ WF_terminals(FailTerminalSessionClose)

-----------------------------------------------------------------------------
(* Properties *)

\* A ticket opens one thing at most, whatever requests race for it
\* (ConsumeAccessTicket, TECHNICAL.md: one-time tickets).
TicketOpensOnce ==
  \A t \in Tickets :
    Cardinality({g \in Gateways : gateway[g].ticket = t
                                  /\ gateway[g].pc \in {"consumed", "insert", "connect"}})
      + (IF session[t].status = "none" THEN 0 ELSE 1) <= 1

\* What was opened before a pause or a stop does not work after it: only an
\* insert that was overtaken by the revocation, or a revocation that failed
\* under a stop, leaves a session behind.
SessionsEndWithTheirEpoch ==
  \A t \in Tickets :
    Authorized(t) /\ session[t].epoch < epoch => t \in slow

\* A closed terminal has no shell, except one that a connection which already
\* held its ticket started after the kill.
ClosedTerminalIsSilent ==
  terminal = "closed" /\ shell => slow \cap TerminalTickets # {}

\* A close that was asked for ends, one way or the other.
CloseSettles == terminal = "closing" ~> terminal \in {"closed", "close_failed"}
=============================================================================
