----------------------------- MODULE Relations -----------------------------
(****************************************************************************)
(* Relations between issues.  A directed relation is stored as two rows, one *)
(* from each end, that are written and removed in separate statements; both *)
(* ends list whatever either row says.                                      *)
(****************************************************************************)
EXTENDS Issues

CONSTANT MaxRelations   \* bound on the rows ever inserted

ASSUME RelationsAssumption == MaxRelations \in Nat

VARIABLES
  relation,   \* the issue_relations table
  minted,     \* ids given to rows so far
  linker      \* what each request on relations does

relations == <<relation, minted, linker>>

RelationTypes == {"blocking", "blocked_by", "related", "duplicate"}
RelationRows == [id : 1 .. MaxRelations, from : Issues, to : Issues, type : RelationTypes]

NoLink == [pc |-> "idle", row |-> <<>>, excused |-> FALSE]

RelationsTypeOK ==
  /\ relation \subseteq RelationRows /\ minted \in 0 .. MaxRelations
  /\ linker \in [Writers -> [pc : {"idle", "inverse", "unlink", "drop"}, row : RelationRows \cup {<<>>}, excused : BOOLEAN]]

\* IssueRelationType.Inverse
InverseType == [blocking |-> "blocked_by", blocked_by |-> "blocking", related |-> "related", duplicate |-> "duplicate"]
Directed(row) == InverseType[row.type] # row.type

\* UNIQUE (issue_id, related_issue_id, type), and the foreign keys.
Insertable(i, j, type) ==
  /\ issue[i].live /\ issue[j].live /\ minted < MaxRelations
  /\ ~\E r \in relation : r.from = i /\ r.to = j /\ r.type = type

Row(i, j, type) == [id |-> minted + 1, from |-> i, to |-> j, type |-> type]

Inserts(row) == relation' = relation \cup {row} /\ minted' = minted + 1

\* A relation that is written or removed while others are at work on relations.
LinkerGoes(w, pc, row) ==
  linker' = [v \in Writers |->
    IF v = w THEN [pc |-> pc, row |-> row, excused |-> linker[w].excused \/ \E u \in Writers \ {w} : linker[u].pc = "inverse"]
    ELSE [linker[v] EXCEPT !.excused = @ \/ (pc = "inverse" /\ linker[v].pc # "idle")]]
LinkerEnds(w) == linker' = [linker EXCEPT ![w] = NoLink]

\* IssueRelationService.Create: the row that was asked for ...
CreateRelation(w, i, j, type) ==
  /\ linker[w].pc = "idle" /\ i # j /\ Insertable(i, j, type)
  /\ LET row == Row(i, j, type) IN
     /\ Inserts(row)
     /\ IF Directed(row) THEN LinkerGoes(w, "inverse", row) ELSE LinkerEnds(w)
  /\ UNCHANGED issues

\* ... and its inverse, on a best-effort basis.
CreateInverse(w) ==
  /\ linker[w].pc = "inverse"
  /\ LET row == linker[w].row
         type == InverseType[row.type] IN
     \/ Insertable(row.to, row.from, type) /\ Inserts(Row(row.to, row.from, type))
     \/ UNCHANGED <<relation, minted>>
  /\ LinkerEnds(w)
  /\ UNCHANGED issues

\* IssueRelationService.Delete: the row is read ...
DeleteRelation(w, row) ==
  /\ linker[w].pc = "idle" /\ row \in relation
  /\ LinkerGoes(w, IF Directed(row) THEN "unlink" ELSE "drop", row)
  /\ UNCHANGED <<issues, relation, minted>>

\* Mutant: only the row itself is removed.
NoInverse(row) == {}

DeleteByIssues(row) ==
  {r \in relation : r.from = row.to /\ r.to = row.from /\ r.type = InverseType[row.type]}

\* ... then its inverse goes, unless the statement fails, which is ignored ...
DropInverse(w) ==
  /\ linker[w].pc = "unlink"
  /\ \/ relation' = relation \ DeleteByIssues(linker[w].row) /\ LinkerGoes(w, "drop", linker[w].row)
     \/ linker' = [linker EXCEPT ![w].pc = "drop", ![w].excused = TRUE] /\ UNCHANGED relation
  /\ UNCHANGED <<issues, minted>>

\* ... and then the row.
DropRow(w) ==
  /\ linker[w].pc = "drop"
  /\ relation' = {r \in relation : r.id # linker[w].row.id}
  /\ LinkerEnds(w)
  /\ UNCHANGED <<issues, minted>>

\* An issue is deleted, and its relations with it.
LinkedIssuesGo(step) ==
  /\ step
  /\ relation' = {r \in relation : issue'[r.from].live /\ issue'[r.to].live}
  /\ UNCHANGED <<minted, linker>>

RelationsNext ==
  \E w \in Writers :
    \/ \E i, j \in Issues, type \in RelationTypes : CreateRelation(w, i, j, type)
    \/ \E row \in relation : DeleteRelation(w, row)
    \/ CreateInverse(w) \/ DropInverse(w) \/ DropRow(w)

-----------------------------------------------------------------------------
(* Properties *)

\* ListByIssue: rows from this end as they are, rows from the other end inverted.
Listed(rows, i) ==
  {[to |-> r.to, type |-> r.type] : r \in {s \in rows : s.from = i}}
  \cup {[to |-> r.from, type |-> InverseType[r.type]] : r \in {s \in rows : s.to = i}}

\* A blocking relation that was deleted, from either end and with whichever of
\* its rows survived until then, is listed at neither end afterwards, unless a
\* statement failed or somebody created relations meanwhile.
DeletedRelationIsGone ==
  [][\A w \in Writers : LET row == linker[w].row IN
       linker[w].pc = "drop" /\ linker'[w].pc = "idle" /\ Directed(row) /\ ~linker[w].excused =>
         /\ [to |-> row.to, type |-> row.type] \notin Listed(relation', row.from)
         /\ [to |-> row.from, type |-> InverseType[row.type]] \notin Listed(relation', row.to)]_<<issue, relations>>
=============================================================================
