------------------------------- MODULE Issues -------------------------------
(****************************************************************************)
(* Issues, their parents and what closing one does to its family.  A        *)
(* request reads whole rows, works on the copies and writes whole rows      *)
(* back, one statement at a time; status automation goes up and down the    *)
(* family from there.  Nothing but the parent trigger of the database       *)
(* looks at an issue again before a copy is written over it.                *)
(****************************************************************************)
EXTENDS Naturals, FiniteSets, Sequences, SequencesExt

CONSTANTS Issues, Writers, Cycles,
          Given,      \* the statuses that requests name
          Days,       \* the days a cycle may start or end on
          NoIssue, NoCycle

ASSUME IssuesAssumption == IsFiniteSet(Issues) /\ NoIssue \notin Issues /\ NoCycle \notin Cycles /\ Days \subseteq Nat

VARIABLES
  issue,      \* the issues table
  cycle,      \* the cycles table
  writer,     \* the requests that write it, one of each writer
  team,       \* the switches of the team
  crossed     \* two parent changes were in flight at once

issues == <<issue, cycle, writer, team, crossed>>

Statuses == {"backlog", "in_progress", "in_review", "done", "cancelled"}
Terminal == {"done", "cancelled"}
ASSUME GivenAssumption == Given \subseteq Statuses

\* status is the old text column, state the status of the team (status_id) that
\* replaced it and gives the category.
IssueRows == [live : BOOLEAN, parent : Issues \cup {NoIssue}, status : Statuses, state : Statuses,
              cycle : Cycles \cup {NoCycle}, triaged : BOOLEAN]
NoRow == [live |-> FALSE, parent |-> NoIssue, status |-> "backlog", state |-> "backlog", cycle |-> NoCycle, triaged |-> TRUE]
InState(row, s) == [row EXCEPT !.status = s, !.state = s]
Ended(i) == issue[i].state \in Terminal

CycleRows == [status : {"none", "upcoming", "active", "completed"}, from : Days \cup {0}, to : Days \cup {0},
              number : Nat]

\* What a request still has to do, on the copy of an issue it holds.
Tasks == [do : {"fetch", "validate", "update", "status", "close", "apply", "parent", "count", "reload", "insert", "copies"},
          id : Issues \cup {NoIssue}, row : IssueRows]
Task(do, i, row) == [do |-> do, id |-> i, row |-> row]

Idle == [pc |-> "idle", todo |-> <<>>, visited |-> {}, roots |-> {}, stale |-> FALSE, disturbed |-> FALSE]

IssuesTypeOK ==
  /\ issue \in [Issues -> IssueRows]
  /\ cycle \in [Cycles -> CycleRows]
  /\ \A w \in Writers :
       /\ writer[w] \in [pc : {"idle", "run", "write", "done"}, todo : Seq(Tasks), visited : SUBSET Issues,
                         roots : SUBSET Issues, stale : BOOLEAN, disturbed : BOOLEAN]
       /\ writer[w].pc = "write" => writer[w].todo # <<>>
  /\ team \in [closeParent : BOOLEAN, closeSubs : BOOLEAN, triage : BOOLEAN]
  /\ crossed \in BOOLEAN

-----------------------------------------------------------------------------
(* The table *)

Children(i) == {j \in Issues : issue[j].live /\ issue[j].parent = i}

\* The ancestors that a recursive query finds above an issue: the least set that
\* has its parent and theirs.
Above(i) ==
  {j \in Issues : \A S \in SUBSET Issues : (\A k \in S \cup {i} : issue[k].parent \in S \cup {NoIssue}) => j \in S}

\* It repeats rows it has seen (UNION ALL) and never ends above a loop.
Ends(i) == \A j \in Above(i) \cup {i} : j \notin Above(j)

WouldCreateCycle(i, p) == i = p \/ i \in Above(p)

\* Mutant: the trigger looks at the new parent only.
ParentIsChild(i, p) == p # NoIssue /\ (i = p \/ issue[p].parent = i)

\* prevent_issue_parent_cycle
ParentCycle(i, p) == p # NoIssue /\ WouldCreateCycle(i, p)

\* The foreign keys of a row that is written.
Refers(row) ==
  /\ row.parent # NoIssue => issue[row.parent].live
  /\ row.cycle # NoCycle => cycle[row.cycle].status # "none"

\* A statement waits for the row locks of the statements in flight.
Locked(I) == \E w \in Writers : writer[w].pc = "write" /\ Head(writer[w].todo).id \in I

\* Writer w commits new rows: the others may now hold stale copies.
Commits(w, rows, self) ==
  /\ issue' = rows
  /\ LET moved == \E i \in Issues : rows[i].parent \notin {issue[i].parent, NoIssue} IN
     writer' = [v \in Writers |->
       IF v = w THEN self
       ELSE [writer[v] EXCEPT !.stale = @ \/ (moved /\ writer[v].pc = "write"),
                              !.disturbed = @ \/ writer[v].pc \in {"run", "write"}]]

-----------------------------------------------------------------------------
(* Requests: each reads what it needs and starts its work *)

Starts(w, todo, roots) ==
  /\ writer[w].pc = "idle"
  /\ writer' = [writer EXCEPT ![w] = [Idle EXCEPT !.pc = "run", !.todo = todo, !.roots = roots]]
  /\ UNCHANGED <<issue, cycle, team, crossed>>

\* IssueService.Update, with one field changed.
EditIssue(w, i) ==
  LET row == issue[i] IN
  /\ row.live
  /\ \/ Starts(w, <<Task("update", i, row)>>, {})
     \/ \E s \in Given : InState(row, s) # row /\ Starts(w, <<Task("status", i, InState(row, s))>>, {i})
     \/ \E c \in (Cycles \cup {NoCycle}) \ {row.cycle} :
          Starts(w, <<Task("update", i, [row EXCEPT !.cycle = c])>>, {})
     \/ row.parent # NoIssue /\ Starts(w, <<Task("update", i, [row EXCEPT !.parent = NoIssue])>>, {})
     \/ \E p \in Issues \ {row.parent} : Starts(w, <<Task("validate", i, [row EXCEPT !.parent = p])>>, {})

Triage(w, i, accept) ==
  /\ issue[i].live /\ ~issue[i].triaged
  /\ IF accept THEN Starts(w, <<Task("update", i, [issue[i] EXCEPT !.triaged = TRUE])>>, {})
     ELSE Starts(w, <<Task("status", i, InState([issue[i] EXCEPT !.triaged = TRUE], "cancelled"))>>, {i})

Created(row, s) == InState([row EXCEPT !.live = TRUE, !.triaged = ~team.triage], s)

\* Create, for a sub-issue after CreateSubIssue has read the parent.
CreateIssue(w, p, s, c) ==
  /\ p # NoIssue => issue[p].live
  /\ Starts(w, <<Task("insert", NoIssue, Created([NoRow EXCEPT !.parent = p, !.cycle = c], s))>>, {})

DuplicateIssue(w, i, withSubs) ==
  /\ issue[i].live
  /\ Starts(w, <<Task("insert", IF withSubs THEN i ELSE NoIssue, Created([issue[i] EXCEPT !.parent = NoIssue], issue[i].state))>>, {})

\* The issue and its sub-issues leave their family for the new project.
ConvertToProject(w, i) ==
  /\ issue[i].live
  /\ Starts(w, <<Task("update", i, [issue[i] EXCEPT !.parent = NoIssue])>>
               \o [k \in 1 .. Cardinality(Children(i)) |->
                     LET j == SetToSeq(Children(i))[k] IN Task("update", j, [issue[j] EXCEPT !.parent = NoIssue])], {})

\* Mutant: the statement keeps the two columns together.
BothColumns(row, s, byId) == InState(row, s)

\* The statement of BulkUpdate sets the column the request names.
NamedColumn(row, s, byId) == IF byId THEN [row EXCEPT !.state = s] ELSE [row EXCEPT !.status = s]

\* BulkUpdate: one statement, and then the automation of each issue.
BulkUpdate(w, ids, s, byId) ==
  /\ writer[w].pc = "idle" /\ ~Locked(ToSet(ids))
  /\ Commits(w, [i \in Issues |-> IF i \in ToSet(ids) /\ issue[i].live THEN NamedColumn(issue[i], s, byId) ELSE issue[i]],
             [Idle EXCEPT !.pc = "run", !.roots = ToSet(ids),
                          !.todo = [k \in 1 .. Len(ids) |-> Task("reload", ids[k], NoRow)]])
  /\ UNCHANGED <<cycle, team, crossed>>

\* bulkUpdateParent checks all issues first, and then writes them.
BulkUpdateParent(w, ids, p) ==
  /\ p # NoIssue => issue[p].live
  /\ Starts(w, [k \in 1 .. Len(ids) |-> Task("fetch", ids[k], [NoRow EXCEPT !.parent = p])], {})

\* Delete and BulkDelete: the sub-issues lose their parent, and that is all.
DeleteIssues(w, I) ==
  /\ writer[w].pc = "idle"
  /\ \A i \in I : issue[i].live
  /\ ~Locked(I \cup UNION {Children(i) : i \in I})
  /\ Commits(w, [i \in Issues |-> IF i \in I THEN NoRow
                                  ELSE IF issue[i].parent \in I THEN [issue[i] EXCEPT !.parent = NoIssue]
                                  ELSE issue[i]],
             [Idle EXCEPT !.pc = "done"])
  /\ UNCHANGED <<cycle, team, crossed>>

-----------------------------------------------------------------------------
(* The work of a request, one statement at a time *)

Doing(w, do) == writer[w].pc = "run" /\ writer[w].todo # <<>> /\ Head(writer[w].todo).do = do
Job(w) == Head(writer[w].todo)

Goes(w, todo) ==
  /\ writer' = [writer EXCEPT ![w].todo = todo]
  /\ UNCHANGED <<issue, cycle, team, crossed>>
Continues(w, tasks) == Goes(w, tasks \o Tail(writer[w].todo))
Refused(w) == Goes(w, <<>>)

\* One issue of bulkUpdateParent is read ...
FetchIssue(w) ==
  /\ Doing(w, "fetch")
  /\ LET t == Job(w) IN
     IF ~issue[t.id].live THEN Refused(w)
     ELSE LET row == [issue[t.id] EXCEPT !.parent = t.row.parent] IN
          IF t.row.parent = NoIssue THEN Goes(w, Append(Tail(writer[w].todo), Task("update", t.id, row)))
          ELSE Continues(w, <<Task("validate", t.id, row)>>)

\* ... and validated, as validateParentID does for Update.
ValidateParent(w) ==
  /\ Doing(w, "validate")
  /\ LET t == Job(w) IN
     /\ Ends(t.row.parent)
     /\ IF ~issue[t.row.parent].live \/ WouldCreateCycle(t.id, t.row.parent) THEN Refused(w)
        ELSE Goes(w, Append(Tail(writer[w].todo), Task("update", t.id, t.row)))

\* IssueRepository.Update: the trigger runs under the lock of the row ...
UpdateBegins(w) ==
  /\ \E do \in {"update", "status", "close"} : Doing(w, do)
  /\ LET t == Job(w) IN
     /\ ~Locked({t.id}) /\ (t.row.parent # NoIssue => Ends(t.row.parent))
     /\ IF issue[t.id].live /\ ~ParentCycle(t.id, t.row.parent)
        THEN writer' = [writer EXCEPT ![w].pc = "write", ![w].stale = FALSE] /\ UNCHANGED <<issue, cycle, team, crossed>>
        ELSE IF t.do = "close" THEN Continues(w, <<>>) ELSE Refused(w)

\* ... and the whole row is replaced, if what it refers to is still there.
UpdateCommits(w) ==
  /\ writer[w].pc = "write"
  /\ LET t == Job(w)
         back(todo) == [writer[w] EXCEPT !.pc = "run", !.stale = FALSE, !.todo = todo]
         next == IF t.do = "update" THEN <<>> ELSE <<Task("apply", t.id, t.row)>> IN
     IF Refers(t.row)
     THEN /\ Commits(w, [issue EXCEPT ![t.id] = t.row], back(next \o Tail(writer[w].todo)))
          /\ crossed' = (crossed \/ (writer[w].stale /\ t.row.parent # NoIssue))
     ELSE /\ writer' = [writer EXCEPT ![w] = back(IF t.do = "close" THEN Tail(@.todo) ELSE <<>>)]
          /\ UNCHANGED <<issue, crossed>>
  /\ UNCHANGED <<cycle, team>>

\* The row is inserted with the number that NextNumber reserved.
InsertIssue(w) ==
  /\ Doing(w, "insert")
  /\ LET t == Job(w) IN
     IF ~Refers(t.row) THEN Refused(w)
     ELSE \E i \in Issues :
       /\ ~issue[i].live
       /\ Commits(w, [issue EXCEPT ![i] = t.row],
            [writer[w] EXCEPT !.todo = (IF t.id = NoIssue THEN <<>> ELSE <<Task("copies", t.id, [NoRow EXCEPT !.parent = i])>>)
                                       \o Tail(@)])
       /\ UNCHANGED <<cycle, team, crossed>>

\* Duplicate goes on with the sub-issues of the original.
DuplicateSubs(w) ==
  /\ Doing(w, "copies")
  /\ LET subs == SetToSeq(Children(Job(w).id)) IN
     Continues(w, [k \in 1 .. Len(subs) |->
       Task("insert", NoIssue, Created([issue[subs[k]] EXCEPT !.parent = Job(w).row.parent], issue[subs[k]].state))])

ReloadIssue(w) ==
  /\ Doing(w, "reload")
  /\ LET t == Job(w) IN
     writer' = [writer EXCEPT ![w].visited = {}, ![w].todo =
                  (IF issue[t.id].live THEN <<Task("apply", t.id, issue[t.id])>> ELSE <<>>) \o Tail(@)]
  /\ UNCHANGED <<issue, cycle, team, crossed>>

\* applyStatusAutomation, with autoCloseSubIssues: down first, and then up.
ApplyStatusAutomation(w) ==
  /\ Doing(w, "apply")
  /\ LET t == Job(w)
         open == SetToSeq({j \in Children(t.id) : ~Ended(j)})
         down == [k \in 1 .. Len(open) |-> Task("close", open[k], InState(issue[open[k]], "done"))]
         up == <<Task("parent", t.row.parent, NoRow)>> IN
     IF t.id \in writer[w].visited THEN Continues(w, <<>>)
     ELSE /\ writer' = [writer EXCEPT ![w].visited = @ \cup {t.id}, ![w].todo =
                          (IF t.row.state = "done" /\ team.closeSubs THEN down ELSE <<>>)
                          \o (IF t.row.parent # NoIssue THEN up ELSE <<>>) \o Tail(@)]
          /\ UNCHANGED <<issue, cycle, team, crossed>>

\* maybeAutoCloseParent reads the parent ...
ReadParent(w) ==
  /\ Doing(w, "parent")
  /\ LET p == Job(w).id IN
     IF issue[p].live /\ p \notin writer[w].visited /\ team.closeParent
     THEN Continues(w, <<Task("count", p, issue[p])>>) ELSE Continues(w, <<>>)

\* Mutant: only completed sub-issues count as done.
CompletedSubIssues(p) == Children(p) # {} /\ \A j \in Children(p) : issue[j].state = "done"

CountSubIssues(p) == Children(p) # {} /\ \A j \in Children(p) : Ended(j)

\* ... then counts its sub-issues, and closes the copy it read before.
CountThenClose(w) ==
  /\ Doing(w, "count")
  /\ LET t == Job(w) IN
     IF CountSubIssues(t.id) /\ t.row.state \notin Terminal
     THEN Continues(w, <<Task("close", t.id, InState(t.row, "done"))>>) ELSE Continues(w, <<>>)

Answers(w) ==
  /\ writer[w].pc = "run" /\ writer[w].todo = <<>>
  /\ writer' = [writer EXCEPT ![w] = [Idle EXCEPT !.pc = "done"]]
  /\ UNCHANGED <<issue, cycle, team, crossed>>

WriterStep(w) ==
  \/ FetchIssue(w) \/ ValidateParent(w) \/ UpdateBegins(w) \/ UpdateCommits(w)
  \/ InsertIssue(w) \/ DuplicateSubs(w) \/ ReloadIssue(w)
  \/ ApplyStatusAutomation(w) \/ ReadParent(w) \/ CountThenClose(w) \/ Answers(w)

\* Bound: bulk requests name two issues.
Lists == {<<i, j>> : i, j \in Issues} \ {<<i, i>> : i \in Issues}

\* The requests of each kind.
IssueRequest(w, kinds) ==
  \/ "edit" \in kinds /\ \E i \in Issues : EditIssue(w, i)
  \/ "edit" \in kinds /\ \E i \in Issues, b \in BOOLEAN : Triage(w, i, b)
  \/ "create" \in kinds /\ \E p \in Issues \cup {NoIssue}, s \in Given : CreateIssue(w, p, s, NoCycle)
  \/ "create" \in kinds /\ \E i \in Issues, b \in BOOLEAN : DuplicateIssue(w, i, b)
  \/ "bulk" \in kinds /\ \E ids \in Lists, s \in Given, b \in BOOLEAN : BulkUpdate(w, ids, s, b)
  \/ "move" \in kinds /\ \E ids \in Lists, p \in Issues \cup {NoIssue} : BulkUpdateParent(w, ids, p)
  \/ "move" \in kinds /\ \E i \in Issues : ConvertToProject(w, i)
  \/ "delete" \in kinds /\ \E I \in {ToSet(ids) : ids \in Lists} \cup {{i} : i \in Issues} : DeleteIssues(w, I)

-----------------------------------------------------------------------------
(* Properties *)

\* No issue is its own ancestor, whatever copies are written back, unless two
\* statements that move issues were in flight at the same time.
NoParentLoop == ~crossed => \A i \in Issues : i \notin Above(i)

\* A request that changes a status leaves no family half closed behind it: an
\* issue it completed has no open sub-issue, and a parent whose sub-issues have
\* all ended has ended, unless another request wrote meanwhile.
FamilyCloses ==
  [][\A w \in Writers : \A i \in writer[w].roots :
       writer[w].pc = "run" /\ writer'[w].pc = "done" /\ ~writer[w].disturbed /\ issue[i].live =>
         /\ issue[i].state = "done" /\ team.closeSubs => \A j \in Children(i) : Ended(j)
         /\ LET p == issue[i].parent IN
            p # NoIssue /\ team.closeParent /\ (\A j \in Children(p) : Ended(j)) => Ended(p)]_issues
=============================================================================
