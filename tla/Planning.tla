------------------------------ MODULE Planning ------------------------------
(****************************************************************************)
(* Cycles of a team.  A request checks the dates of a whole row against the *)
(* other cycles and writes it in a later statement; completing a cycle      *)
(* first carries its open issues over to the next upcoming one.             *)
(****************************************************************************)
EXTENDS Issues

CONSTANT Planners   \* requests on cycles

ASSUME PlanningAssumption == Planners \cap Writers = {}

VARIABLES
  planner,   \* what each request does, with the copy of the row it works on
  rushed     \* a row was written after another one changed what it was checked against

planning == <<planner, rushed>>

NoPlan == [pc |-> "idle", id |-> NoCycle, row |-> [status |-> "none", from |-> 0, to |-> 0, number |-> 0],
           next |-> NoCycle, stale |-> FALSE, disturbed |-> FALSE]

PlanningTypeOK ==
  /\ planner \in [Planners ->
       [pc : {"idle", "check", "number", "insert", "next", "carry", "write", "done"}, id : Cycles \cup {NoCycle},
        row : CycleRows, next : Cycles \cup {NoCycle}, stale : BOOLEAN, disturbed : BOOLEAN]]
  /\ rushed \in BOOLEAN

Spans == {d \in Days \X Days : d[1] < d[2]}

\* Mutant: two cycles overlap when one starts inside the other.
StartsInside(c, row) ==
  \E k \in Cycles \ {c} : cycle[k].status \in {"upcoming", "active"} /\ cycle[k].from < row.from /\ row.from < cycle[k].to

\* HasOverlap ignores completed cycles, and the one that is changed.
HasOverlap(c, row) ==
  \E k \in Cycles \ {c} : cycle[k].status \in {"upcoming", "active"} /\ cycle[k].from < row.to /\ row.from < cycle[k].to

Plans(p, plan) == planner' = [planner EXCEPT ![p] = plan]
PlanGoes(p, pc) == planner' = [planner EXCEPT ![p].pc = pc]
Fails(p) == Plans(p, [NoPlan EXCEPT !.pc = "done"])
TablesStay == UNCHANGED <<issues, rushed>>

\* The cycles table is written: what others have checked may no longer hold.
Writes(p, c, row) ==
  /\ cycle' = [cycle EXCEPT ![c] = row]
  /\ rushed' = (rushed \/ (planner[p].stale /\ row.status # "completed"))
  /\ planner' = [q \in Planners |-> IF q = p THEN [NoPlan EXCEPT !.pc = "done"]
                                    ELSE [planner[q] EXCEPT !.stale = planner[q].pc \notin {"idle", "done"}]]

CreateCycle(p, c, span) ==
  LET row == [status |-> "upcoming", from |-> span[1], to |-> span[2], number |-> 0] IN
  /\ planner[p].pc = "idle" /\ cycle[c].status = "none"
  /\ \A q \in Planners : planner[q].id # c   \* a fresh id
  /\ IF HasOverlap(c, row) THEN Fails(p) ELSE Plans(p, [NoPlan EXCEPT !.pc = "number", !.id = c, !.row = row])
  /\ TablesStay

NextNumber(p) ==
  /\ planner[p].pc = "number"
  /\ \E n \in {0} \cup {cycle[c].number : c \in Cycles} :
       /\ \A c \in Cycles : cycle[c].number <= n
       /\ Plans(p, [planner[p] EXCEPT !.pc = "insert", !.row.number = n + 1])
  /\ TablesStay

\* UNIQUE (team_id, number) refuses the second of two that took the same number.
InsertCycle(p) ==
  /\ planner[p].pc = "insert"
  /\ LET row == planner[p].row IN
     IF \E c \in Cycles : cycle[c].number = row.number THEN Fails(p) /\ TablesStay
     ELSE Writes(p, planner[p].id, row) /\ UNCHANGED <<issue, writer, team, crossed>>

\* CycleService.Update with one field changed: a text, the status or the dates.
UpdateCycle(p, c) ==
  /\ planner[p].pc = "idle" /\ cycle[c].status # "none"
  /\ \E row \in {cycle[c]} \cup {[cycle[c] EXCEPT !.status = s] : s \in {"upcoming", "active", "completed"}}
                \cup {[cycle[c] EXCEPT !.from = d[1], !.to = d[2]] : d \in Spans} :
       Plans(p, [NoPlan EXCEPT !.pc = "check", !.id = c, !.row = row])
  /\ TablesStay

CheckDates(p) ==
  /\ planner[p].pc = "check"
  /\ IF HasOverlap(planner[p].id, planner[p].row) THEN Fails(p)
     ELSE Plans(p, [planner[p] EXCEPT !.pc = "write", !.stale = FALSE])
  /\ TablesStay

\* The write of the whole row; a deleted cycle has none.
WriteCycle(p) ==
  /\ planner[p].pc = "write"
  /\ LET c == planner[p].id IN
     IF cycle[c].status = "none" THEN Fails(p) /\ TablesStay
     ELSE Writes(p, c, planner[p].row) /\ UNCHANGED <<issue, writer, team, crossed>>

CompleteCycle(p, c, carryOver) ==
  /\ planner[p].pc = "idle" /\ cycle[c].status \in {"upcoming", "active"}
  /\ Plans(p, [NoPlan EXCEPT !.pc = IF carryOver THEN "next" ELSE "write", !.id = c,
                             !.row = [cycle[c] EXCEPT !.status = "completed"]])
  /\ TablesStay

\* GetNextUpcoming takes the earliest, the cycle itself if it is one.
GetNextUpcoming(p) ==
  /\ planner[p].pc = "next"
  /\ LET upcoming == {c \in Cycles : cycle[c].status = "upcoming"} IN
     IF upcoming = {} THEN PlanGoes(p, "write")
     ELSE \E c \in upcoming :
       /\ \A k \in upcoming : cycle[c].from <= cycle[k].from
       /\ Plans(p, [planner[p] EXCEPT !.pc = "carry", !.next = c])
  /\ TablesStay

\* An issue is written while q is completing a cycle.
Disturbed(q) == [planner[q] EXCEPT !.disturbed = @ \/ (issue' # issue /\ planner[q].pc = "write")]

\* Mutant: only what nobody started is carried over.
Untouched(i) == issue[i].status = "backlog"

Unfinished(i) == issue[i].status \notin Terminal

CarryOverIssues(p) ==
  /\ planner[p].pc = "carry"
  /\ ~Locked({i \in Issues : issue[i].cycle = planner[p].id})
  /\ LET from == planner[p].id
         to == planner[p].next
         moved == {i \in Issues : issue[i].live /\ issue[i].cycle = from /\ Unfinished(i)} IN
     IF moved # {} /\ cycle[to].status = "none" THEN Fails(p) /\ TablesStay
     ELSE /\ Commits(p, [i \in Issues |-> IF i \in moved THEN [issue[i] EXCEPT !.cycle = to] ELSE issue[i]], NoPlan)
          /\ planner' = [q \in Planners |-> IF q = p THEN [planner[p] EXCEPT !.pc = "write", !.disturbed = FALSE]
                                            ELSE Disturbed(q)]
          /\ UNCHANGED <<cycle, team, crossed, rushed>>

\* Delete: its issues lose their cycle.
DeleteCycle(p, c) ==
  /\ planner[p].pc = "idle" /\ cycle[c].status # "none"
  /\ ~Locked({i \in Issues : issue[i].cycle = c})
  /\ Commits(p, [i \in Issues |-> IF issue[i].cycle = c THEN [issue[i] EXCEPT !.cycle = NoCycle] ELSE issue[i]], NoPlan)
  /\ Writes(p, c, NoPlan.row)
  /\ UNCHANGED <<team, crossed>>

\* CreateSubIssue takes the cycle of the parent while that is active.
CreateSubIssue(w, i) ==
  /\ issue[i].live
  /\ CreateIssue(w, i, "backlog", IF issue[i].cycle # NoCycle /\ cycle[issue[i].cycle].status = "active"
                                  THEN issue[i].cycle ELSE NoCycle)
  /\ UNCHANGED planning

\* A request on issues, beside those on cycles.
IssueMoves(step) ==
  /\ step
  /\ planner' = [p \in Planners |-> Disturbed(p)]
  /\ UNCHANGED rushed

PlanStep(p) ==
  \/ NextNumber(p) \/ InsertCycle(p) \/ CheckDates(p) \/ WriteCycle(p) \/ GetNextUpcoming(p) \/ CarryOverIssues(p)

PlanRequest(p) ==
  \E c \in Cycles : \/ UpdateCycle(p, c) \/ DeleteCycle(p, c)
                    \/ \E b \in BOOLEAN : CompleteCycle(p, c, b)
                    \/ \E d \in Spans : CreateCycle(p, c, d)

-----------------------------------------------------------------------------
(* Properties *)

\* Two cycles that are not completed share no day, unless two requests passed
\* their checks before either wrote.
CyclesDoNotOverlap ==
  ~rushed => \A c \in Cycles : cycle[c].status \in {"upcoming", "active"} => ~HasOverlap(c, cycle[c])

\* Completing a cycle with a successor leaves no unfinished issue in it,
\* whatever its issues went through before, unless issues are written meanwhile.
CompletedCycleIsSettled ==
  [][\A p \in Planners : LET plan == planner[p] IN
       plan.pc = "write" /\ plan.next \notin {NoCycle, plan.id} /\ ~plan.disturbed /\ planner'[p].pc = "done" =>
         \A i \in Issues : issue[i].live /\ issue[i].cycle = plan.id => issue[i].status \in Terminal]_<<issues, planning>>

\* Finished work stays in its cycle, where the velocity counts it: the issues a
\* completed cycle hands over are those whose status is not a final one.
FinishedWorkStays ==
  [][\A p \in Planners : planner[p].pc = "carry" /\ planner'[p].pc = "write" =>
       \A i \in Issues : issue'[i].cycle # issue[i].cycle => ~Ended(i)]_<<issues, planning>>
=============================================================================
