--------------------------- MODULE TrackerProofs ---------------------------
(****************************************************************************)
(* Tables that are written from several sides: the pull requests, branches  *)
(* and commits that refer to an issue, the relations between issues, the    *)
(* cycles of a team, and the parents of issues.  What is deleted of a       *)
(* relation stays deleted only because pairs of rows are unique, cycles     *)
(* stay apart only as long as a check is not stale when its row is written, *)
(* and no issue becomes its own ancestor only while whoever moves issues    *)
(* moves them alone; the invariants relate the row a request holds to the   *)
(* rows that are there by the time it acts.  With what the other modules    *)
(* say of theirs, all variables of the application have their types.        *)
(****************************************************************************)
EXTENDS AccountsProofs, CollaborationProofs, TransferProofs

-----------------------------------------------------------------------------
(* References to an issue *)

RefsTyped ==
  /\ refs = [k \in Kinds |-> refs[k]]
  /\ \A k \in Kinds : /\ refs[k] = [there |-> refs[k].there, state |-> refs[k].state, issue |-> refs[k].issue]
                      /\ refs[k].issue \in {Referenced, NoIssue}

\* What a step may do to the references while the repository is linked: each
\* keeps the issue it has, or loses it with the issue.
RefsMove ==
  /\ RefsTyped'
  /\ linked' => \A k \in Kinds : refs[k].issue # NoIssue /\ issue'[Referenced].live => refs'[k].issue = refs[k].issue

LEMMA RefsRest ==
  ASSUME RefsTyped, UNCHANGED refs
  PROVE  RefsMove
  BY DEF RefsTyped, RefsMove

LEMMA NoRefsTyped == ASSUME refs' = NoRefs PROVE RefsTyped'
  BY DEF NoRefs, RefsTyped

LEMMA UpsertMoves ==
  ASSUME RefsTyped, NEW w \in Writers, Upsert(w)
  PROVE  RefsMove
<1> DEFINE d == delivery[w]
           e == sent[d.event]
           row == [there |-> TRUE, state |-> PrState(e), issue |-> KeptLink(e.kind, d.found)]
<1>1. CASE d.found /\ ~issue[Referenced].live
  BY <1>1, RefsRest DEF Upsert
<1>2. CASE ~(d.found /\ ~issue[Referenced].live)
  <2>1. refs' = [refs EXCEPT ![e.kind] = row]
    BY <1>2 DEF Upsert
  <2>2. \A k \in Kinds : refs'[k] = IF k = e.kind THEN row ELSE refs[k]
    BY <2>1 DEF RefsTyped
  <2>3. refs' = [k \in Kinds |-> refs'[k]]
    BY <2>1 DEF RefsTyped
  <2>4. /\ row = [there |-> row.there, state |-> row.state, issue |-> row.issue]
        /\ row.issue = IF d.found THEN Referenced ELSE refs[e.kind].issue
    BY DEF KeptLink
  <2> HIDE DEF row
  <2>5. RefsTyped'
    BY <2>2, <2>3, <2>4 DEF RefsTyped
  <2> QED
    BY <2>2, <2>4, <2>5 DEF RefsMove, RefsTyped
<1> QED
  BY <1>1, <1>2

LEMMA UserMovesMoves ==
  ASSUME RefsTyped, NEW w \in Writers, UserMoves(EditIssue(w, Referenced) \/ DeleteIssues(w, {Referenced}))
  PROVE  RefsMove
<1>1. refs' = [k \in Kinds |-> [refs[k] EXCEPT !.issue =
                 IF refs[k].issue # NoIssue /\ ~issue'[refs[k].issue].live THEN NoIssue ELSE refs[k].issue]]
  BY DEF UserMoves
<1>2. ASSUME NEW k \in Kinds
      PROVE  /\ refs'[k] = [there |-> refs'[k].there, state |-> refs'[k].state, issue |-> refs'[k].issue]
             /\ refs'[k].issue = IF refs[k].issue # NoIssue /\ ~issue'[refs[k].issue].live THEN NoIssue ELSE refs[k].issue
  <2>1. refs[k] = [there |-> refs[k].there, state |-> refs[k].state, issue |-> refs[k].issue]
    BY DEF RefsTyped
  <2> QED
    BY <1>1, <2>1
<1>3. RefsTyped'
  BY <1>1, <1>2 DEF RefsTyped
<1> QED
  BY <1>2, <1>3 DEF RefsMove, RefsTyped

LEMMA GitHubMoves ==
  ASSUME RefsTyped, GitHubArea
  PROVE  RefsMove
<1>1. CASE ChangeApp \/ Connect \/ LinkRepos \/ \E event \in RuleEvents : UpdateAutoTransitions(event)
  BY <1>1, RefsRest DEF ChangeApp, Connect, LinkRepos, UpdateAutoTransitions
<1>2. CASE \E b \in BOOLEAN : Unlink(b)
  <2>1. refs' = NoRefs /\ linked' = FALSE
    BY <1>2 DEF Unlink
  <2> QED
    BY <2>1, NoRefsTyped DEF RefsMove
<1>3. CASE \E w \in Deliverers : \E k \in 1 .. Len(sent) : Delivers(w, k)
  BY <1>3, RefsRest DEF Delivers
<1>4. CASE \E w \in Writers : LookUp(w) \/ ResolveIssue(w) \/ Transition(w)
  BY <1>4, RefsRest DEF LookUp, ResolveIssue, Transition
<1>5. CASE \E w \in Writers : Upsert(w)
  BY <1>5, UpsertMoves
<1>6. CASE \E w \in Writers : WriterStep(w) /\ UNCHANGED github
  BY <1>6, RefsRest DEF github
<1>7. CASE \E w \in Writers : UserMoves(EditIssue(w, Referenced) \/ DeleteIssues(w, {Referenced}))
  BY <1>7, UserMovesMoves
<1> QED
  BY <1>1, <1>2, <1>3, <1>4, <1>5, <1>6, <1>7 DEF GitHubArea, GitHubNext, DeliveryStep

LEMMA RefsNext ==
  ASSUME RefsTyped, [AppNext]_app
  PROVE  RefsMove
<1>1. CASE GitHubArea
  BY <1>1, GitHubMoves
<1>2. CASE UNCHANGED github
  BY <1>2, RefsRest DEF github
<1>3. IssuesArea \/ CyclesArea \/ RelationsArea => UNCHANGED github
  BY DEF IssuesArea, CyclesArea, RelationsArea
<1> QED
  BY <1>1, <1>2, <1>3 DEF AppNext, app

\* A pull request, branch or commit keeps the issue it was linked to when later
\* events do not name it: UpsertPullRequest, UpsertBranch and UpsertCommit, for
\* any history of events, in any order and with any number of deliveries.
THEOREM LinksSurvive == AppSpec => LinkSurvives
<1>1. AppInit => RefsTyped
  <2>1. AppInit => refs = NoRefs
    BY DEF AppInit, GitHubInit
  <2> QED
    BY <2>1 DEF NoRefs, RefsTyped
<1>2. RefsTyped /\ [AppNext]_app => RefsTyped'
  BY RefsNext DEF RefsMove
<1>3. RefsTyped /\ [AppNext]_app =>
        [\A k \in Kinds : refs[k].issue # NoIssue /\ linked' /\ issue'[Referenced].live =>
           refs'[k].issue = refs[k].issue]_<<issues, github>>
  BY RefsNext DEF RefsMove
<1> QED
  BY <1>1, <1>2, <1>3, PTL DEF AppSpec, LinkSurvives

-----------------------------------------------------------------------------
(* Relations between issues *)

Linkers == [pc : {"idle", "inverse", "unlink", "drop"}, row : RelationRows \cup {<<>>}, excused : BOOLEAN]

RowsTyped ==
  /\ relation \subseteq RelationRows /\ minted \in 0 .. MaxRelations
  /\ linker \in [Writers -> Linkers]
  /\ \A w \in Writers : linker[w].pc # "idle" => linker[w].row \in RelationRows

Same(r, s) == r.from = s.from /\ r.to = s.to /\ r.type = s.type
Opposite(r, s) == r.from = s.to /\ r.to = s.from /\ r.type = InverseType[s.type]

UniquePairs == \A r, s \in relation : Same(r, s) => r.id = s.id

Deleting(w) == linker[w].pc \in {"unlink", "drop"} /\ Directed(linker[w].row) /\ ~linker[w].excused

\* The row that is deleted is the only one of its pair, nobody is about to add
\* its inverse, and its inverse has gone before it goes.
RowAccounted(w) ==
  Deleting(w) =>
    /\ \A u \in Writers \ {w} : linker[u].pc # "inverse"
    /\ \A r \in relation : Same(r, linker[w].row) => r.id = linker[w].row.id
    /\ linker[w].pc = "drop" => \A r \in relation : ~Opposite(r, linker[w].row)

RowsInv == RowsTyped /\ UniquePairs /\ \A w \in Writers : RowAccounted(w)

LEMMA Inverses ==
  \A t \in RelationTypes :
    /\ InverseType[t] \in RelationTypes /\ InverseType[InverseType[t]] = t
    /\ InverseType[t] # t <=> t \in {"blocking", "blocked_by"}
  BY DEF RelationTypes, InverseType

\* What the request of w does to itself; the others keep what they do.
OthersKeep(w) ==
  \A v \in Writers \ {w} :
    linker'[v].pc = linker[v].pc /\ linker'[v].row = linker[v].row /\ (linker'[v].excused <=> linker[v].excused)

\* Rows that go disturb nobody.
LEMMA RowsGo ==
  ASSUME RowsInv, NEW w \in Writers, relation' \subseteq relation, minted' = minted,
         linker' \in [Writers -> Linkers], linker'[w].pc # "idle" => linker'[w].row \in RelationRows,
         linker'[w].pc # "inverse", OthersKeep(w), RowAccounted(w)'
  PROVE  RowsInv'
<1>1. RowsTyped'
  BY DEF RowsInv, RowsTyped, OthersKeep
<1>2. UniquePairs'
  BY DEF RowsInv, UniquePairs
<1>3. ASSUME NEW v \in Writers \ {w} PROVE RowAccounted(v)'
  <2>1. RowAccounted(v) /\ linker'[v].pc = linker[v].pc /\ linker'[v].row = linker[v].row
        /\ (linker'[v].excused <=> linker[v].excused)
    BY <1>3 DEF RowsInv, OthersKeep
  <2>2. \A u \in Writers \ {v} : linker[u].pc # "inverse" => linker'[u].pc # "inverse"
    BY <1>3 DEF OthersKeep
  <2> QED
    BY <2>1, <2>2 DEF RowAccounted, Deleting
<1> QED
  BY <1>1, <1>2, <1>3 DEF RowsInv

\* What LinkerGoes and LinkerEnds do to each request.
LEMMA LinkerWent ==
  ASSUME RowsTyped, NEW w \in Writers, NEW pc \in {"inverse", "unlink", "drop"}, NEW row \in RelationRows, LinkerGoes(w, pc, row)
  PROVE  /\ linker' \in [Writers -> Linkers] /\ linker'[w].pc = pc /\ linker'[w].row = row
         /\ linker'[w].excused <=> linker[w].excused \/ \E u \in Writers \ {w} : linker[u].pc = "inverse"
         /\ \A v \in Writers \ {w} :
              /\ linker'[v].pc = linker[v].pc /\ linker'[v].row = linker[v].row
              /\ linker'[v].excused <=> linker[v].excused \/ (pc = "inverse" /\ linker[v].pc # "idle")
<1>1. linker' = [v \in Writers |->
    IF v = w THEN [pc |-> pc, row |-> row, excused |-> (linker[w].excused \/ \E u \in Writers \ {w} : linker[u].pc = "inverse")]
    ELSE [linker[v] EXCEPT !.excused = (linker[v].excused \/ (pc = "inverse" /\ linker[v].pc # "idle"))]]
  BY DEF LinkerGoes
<1>2. \A v \in Writers : linker[v] \in Linkers
  BY DEF RowsTyped
<1>3. /\ linker'[w].pc = pc /\ linker'[w].row = row
      /\ linker'[w].excused <=> linker[w].excused \/ \E u \in Writers \ {w} : linker[u].pc = "inverse"
      /\ linker'[w] \in Linkers
  BY <1>1, <1>2 DEF Linkers
<1>4. ASSUME NEW v \in Writers \ {w}
      PROVE  /\ linker'[v].pc = linker[v].pc /\ linker'[v].row = linker[v].row
             /\ linker'[v].excused <=> linker[v].excused \/ (pc = "inverse" /\ linker[v].pc # "idle")
             /\ linker'[v] \in Linkers
  BY <1>1, <1>2 DEF Linkers
<1>5. linker' \in [Writers -> Linkers]
  BY <1>1, <1>3, <1>4
<1> QED
  BY <1>3, <1>4, <1>5

LEMMA LinkerEnded ==
  ASSUME RowsTyped, NEW w \in Writers, LinkerEnds(w)
  PROVE  /\ linker' \in [Writers -> Linkers] /\ linker'[w].pc = "idle" /\ OthersKeep(w)
  BY DEF RowsTyped, LinkerEnds, Linkers, NoLink, OthersKeep

LEMMA RowMade ==
  ASSUME RowsTyped, NEW i \in Issues, NEW j \in Issues, NEW type \in RelationTypes, minted < MaxRelations
  PROVE  /\ Row(i, j, type) \in RelationRows /\ Row(i, j, type).from = i /\ Row(i, j, type).to = j
         /\ Row(i, j, type).type = type /\ minted + 1 \in 0 .. MaxRelations
<1>1. minted + 1 \in 1 .. MaxRelations
  BY RelationsAssumption DEF RowsTyped
<1> QED
  BY <1>1, RelationsAssumption DEF Row, RelationRows

LEMMA CreateRelationKeeps ==
  ASSUME RowsInv, NEW w \in Writers, NEW i \in Issues, NEW j \in Issues, NEW type \in RelationTypes,
         CreateRelation(w, i, j, type)
  PROVE  RowsInv'
<1> DEFINE row == Row(i, j, type)
<1>1. /\ row \in RelationRows /\ row.from = i /\ row.to = j /\ row.type = type
      /\ relation' = relation \cup {row} /\ minted' \in 0 .. MaxRelations
  <2>1. minted < MaxRelations /\ Inserts(row)
    BY DEF CreateRelation, Insertable
  <2> QED
    BY <2>1, RowMade DEF RowsInv, Inserts
<1>2. \A r \in relation : ~Same(r, row)
  BY <1>1 DEF CreateRelation, Insertable, Same
<1>3. UniquePairs'
  BY <1>1, <1>2 DEF RowsInv, UniquePairs, Same
<1>4. IF Directed(row) THEN LinkerGoes(w, "inverse", row) ELSE LinkerEnds(w)
  BY DEF CreateRelation
<1> HIDE DEF row
<1>5. CASE Directed(row)
  <2>1. /\ linker' \in [Writers -> Linkers] /\ linker'[w].pc = "inverse" /\ linker'[w].row = row
        /\ \A v \in Writers \ {w} :
              /\ linker'[v].pc = linker[v].pc /\ linker'[v].row = linker[v].row
              /\ linker'[v].excused <=> linker[v].excused \/ linker[v].pc # "idle"
    BY <1>1, <1>4, <1>5, LinkerWent DEF RowsInv
  <2>2. RowsTyped'
    BY <1>1, <2>1 DEF RowsInv, RowsTyped
  <2>3. \A v \in Writers : RowAccounted(v)'
    BY <2>1 DEF RowAccounted, Deleting
  <2> QED
    BY <1>3, <2>2, <2>3 DEF RowsInv
<1>6. CASE ~Directed(row)
  <2>1. linker' \in [Writers -> Linkers] /\ linker'[w].pc = "idle" /\ OthersKeep(w)
    BY <1>4, <1>6, LinkerEnded DEF RowsInv
  <2>2. RowsTyped'
    BY <1>1, <2>1 DEF RowsInv, RowsTyped, OthersKeep
  <2>3. row.type \notin {"blocking", "blocked_by"}
    BY <1>1, <1>6, Inverses DEF Directed
  <2>4. ASSUME NEW v \in Writers, Deleting(v)' PROVE RowAccounted(v)'
    <3>1. v # w /\ linker'[v].pc = linker[v].pc /\ linker'[v].row = linker[v].row /\ Deleting(v)
      BY <2>1, <2>4 DEF OthersKeep, Deleting
    <3>2. RowAccounted(v) /\ linker[v].row \in RelationRows
      BY <3>1 DEF RowsInv, RowsTyped, Deleting
    <3>3. ~Same(row, linker[v].row) /\ ~Opposite(row, linker[v].row)
      <4>1. linker[v].row.type \in {"blocking", "blocked_by"} /\ InverseType[linker[v].row.type] \in {"blocking", "blocked_by"}
        BY <3>1, <3>2, Inverses DEF Deleting, Directed, RelationRows
      <4> QED
        BY <2>3, <4>1 DEF Same, Opposite
    <3>4. \A u \in Writers \ {v} : linker'[u].pc # "inverse"
      BY <2>1, <3>1, <3>2 DEF RowAccounted, OthersKeep
    <3> QED
      BY <1>1, <3>1, <3>2, <3>3, <3>4 DEF RowAccounted
  <2>5. \A v \in Writers : RowAccounted(v)'
    BY <2>4 DEF RowAccounted
  <2> QED
    BY <1>3, <2>2, <2>5 DEF RowsInv
<1> QED
  BY <1>5, <1>6

LEMMA CreateInverseKeeps ==
  ASSUME RowsInv, NEW w \in Writers, CreateInverse(w)
  PROVE  RowsInv'
<1> DEFINE held == linker[w].row
           row == Row(held.to, held.from, InverseType[held.type])
<1>1. linker' \in [Writers -> Linkers] /\ linker'[w].pc = "idle" /\ OthersKeep(w)
  BY LinkerEnded DEF RowsInv, CreateInverse
<1>2. linker[w].pc = "inverse" /\ held \in RelationRows
  BY DEF CreateInverse, RowsInv, RowsTyped
<1>3. RowsTyped' /\ UniquePairs'
  <2>1. CASE UNCHANGED <<relation, minted>>
    BY <1>1, <2>1 DEF RowsInv, RowsTyped, UniquePairs, OthersKeep
  <2>2. CASE Insertable(held.to, held.from, InverseType[held.type]) /\ Inserts(row)
    <3>1. /\ row \in RelationRows /\ row.from = held.to /\ row.to = held.from /\ row.type = InverseType[held.type]
          /\ relation' = relation \cup {row} /\ minted' \in 0 .. MaxRelations
      <4>1. held.to \in Issues /\ held.from \in Issues /\ InverseType[held.type] \in RelationTypes
        BY <1>2, Inverses DEF RelationRows
      <4>2. minted < MaxRelations
        BY <2>2 DEF Insertable
      <4> QED
        BY <2>2, <4>1, <4>2, RowMade DEF RowsInv, Inserts
    <3>2. \A r \in relation : ~Same(r, row)
      BY <2>2, <3>1 DEF Insertable, Same
    <3> HIDE DEF row, held
    <3>3. UniquePairs'
      BY <3>1, <3>2 DEF RowsInv, UniquePairs, Same
    <3>4. RowsTyped'
      BY <1>1, <3>1 DEF RowsInv, RowsTyped, OthersKeep
    <3> QED
      BY <3>3, <3>4
  <2> QED
    BY <2>1, <2>2 DEF CreateInverse
<1>4. \A v \in Writers : ~Deleting(v)'
  <2>1. ASSUME NEW v \in Writers \ {w}, Deleting(v)' PROVE FALSE
    <3>1. Deleting(v) /\ RowAccounted(v)
      BY <1>1, <2>1 DEF OthersKeep, Deleting, RowsInv
    <3> QED
      BY <1>2, <2>1, <3>1 DEF RowAccounted
  <2> QED
    BY <1>1, <2>1 DEF Deleting
<1> QED
  BY <1>3, <1>4 DEF RowsInv, RowAccounted

LEMMA DeleteRelationKeeps ==
  ASSUME RowsInv, NEW w \in Writers, NEW row \in relation, DeleteRelation(w, row)
  PROVE  RowsInv'
<1> DEFINE pc == IF Directed(row) THEN "unlink" ELSE "drop"
<1>1. row \in RelationRows /\ LinkerGoes(w, pc, row) /\ relation' = relation /\ minted' = minted
  BY DEF DeleteRelation, RowsInv, RowsTyped
<1>2. pc \in {"unlink", "drop"} /\ (pc = "drop" => ~Directed(row))
  OBVIOUS
<1> HIDE DEF pc
<1>3. /\ linker' \in [Writers -> Linkers] /\ linker'[w].pc = pc /\ linker'[w].row = row
      /\ linker'[w].excused <=> linker[w].excused \/ \E u \in Writers \ {w} : linker[u].pc = "inverse"
      /\ OthersKeep(w)
  BY <1>1, <1>2, LinkerWent DEF RowsInv, OthersKeep
<1>4. RowAccounted(w)'
  <2>1. SUFFICES ASSUME Deleting(w)'
                 PROVE  RowAccounted(w)'
    BY DEF RowAccounted
  <2>2. \A u \in Writers \ {w} : linker'[u].pc # "inverse"
    BY <1>3, <2>1 DEF Deleting, OthersKeep
  <2>3. \A r \in relation' : Same(r, row) => r.id = row.id
    BY <1>1 DEF RowsInv, UniquePairs
  <2>4. linker'[w].pc # "drop"
    BY <1>2, <1>3, <2>1 DEF Deleting
  <2> QED
    BY <1>3, <2>2, <2>3, <2>4 DEF RowAccounted
<1> QED
  BY <1>1, <1>2, <1>3, <1>4, RowsGo

LEMMA DropInverseKeeps ==
  ASSUME RowsInv, NEW w \in Writers, DropInverse(w)
  PROVE  RowsInv'
<1>1. linker[w].pc = "unlink" /\ linker[w].row \in RelationRows /\ minted' = minted /\ RowAccounted(w)
  BY DEF DropInverse, RowsInv, RowsTyped
<1>2. CASE relation' = relation \ DeleteByIssues(linker[w].row) /\ LinkerGoes(w, "drop", linker[w].row)
  <2>1. /\ linker' \in [Writers -> Linkers] /\ linker'[w].pc = "drop" /\ linker'[w].row = linker[w].row
        /\ linker'[w].excused <=> linker[w].excused \/ \E u \in Writers \ {w} : linker[u].pc = "inverse"
        /\ OthersKeep(w)
    BY <1>1, <1>2, LinkerWent DEF RowsInv, OthersKeep
  <2>2. \A r \in relation' : r \in relation /\ ~Opposite(r, linker[w].row)
    BY <1>2 DEF DeleteByIssues, Opposite
  <2>3. RowAccounted(w)'
    BY <1>1, <2>1, <2>2 DEF RowAccounted, Deleting, OthersKeep
  <2> QED
    BY <1>1, <1>2, <2>1, <2>3, RowsGo
<1>3. CASE linker' = [linker EXCEPT ![w].pc = "drop", ![w].excused = TRUE] /\ UNCHANGED relation
  <2>1. /\ linker' \in [Writers -> Linkers] /\ linker'[w].pc = "drop" /\ linker'[w].row = linker[w].row
        /\ linker'[w].excused /\ OthersKeep(w)
    BY <1>3 DEF RowsInv, RowsTyped, Linkers, OthersKeep
  <2>2. RowAccounted(w)'
    BY <2>1 DEF RowAccounted, Deleting
  <2> QED
    BY <1>1, <1>3, <2>1, <2>2, RowsGo
<1> QED
  BY <1>2, <1>3 DEF DropInverse

LEMMA DropRowKeeps ==
  ASSUME RowsInv, NEW w \in Writers, DropRow(w)
  PROVE  RowsInv'
<1>1. relation' \subseteq relation /\ minted' = minted
  BY DEF DropRow
<1>2. linker' \in [Writers -> Linkers] /\ linker'[w].pc = "idle" /\ OthersKeep(w)
  BY LinkerEnded DEF RowsInv, DropRow
<1>3. RowAccounted(w)'
  BY <1>2 DEF RowAccounted, Deleting
<1> QED
  BY <1>1, <1>2, <1>3, RowsGo

\* Deleted issues take their rows with them.
LEMMA LinkedIssuesGoKeeps ==
  ASSUME RowsInv, relation' \subseteq relation, minted' = minted, linker' = linker
  PROVE  RowsInv'
<1>1. RowsTyped' /\ UniquePairs'
  BY DEF RowsInv, RowsTyped, UniquePairs
<1>2. \A w \in Writers : RowAccounted(w)'
  BY DEF RowsInv, RowAccounted, Deleting
<1> QED
  BY <1>1, <1>2 DEF RowsInv

LEMMA RowsNext ==
  ASSUME RowsInv, [AppNext]_app
  PROVE  RowsInv'
<1>1. CASE UNCHANGED relations
  BY <1>1, LinkedIssuesGoKeeps DEF relations
<1>2. CASE RelationsArea
  <2>1. CASE RelationsNext
    BY <2>1, CreateRelationKeeps, CreateInverseKeeps, DeleteRelationKeeps, DropInverseKeeps, DropRowKeeps DEF RelationsNext
  <2>2. CASE \E i \in Issues : LinkedIssuesGo(DeleteIssues(FirstWriter, {i}))
    BY <2>2, LinkedIssuesGoKeeps DEF LinkedIssuesGo
  <2> QED
    BY <1>2, <2>1, <2>2 DEF RelationsArea
<1>3. IssuesArea \/ CyclesArea \/ GitHubArea => UNCHANGED relations
  BY DEF IssuesArea, CyclesArea, GitHubArea
<1> QED
  BY <1>1, <1>2, <1>3 DEF AppNext, app

DeletedIsGone ==
  \A w \in Writers : LET row == linker[w].row IN
    linker[w].pc = "drop" /\ linker'[w].pc = "idle" /\ Directed(row) /\ ~linker[w].excused =>
      /\ [to |-> row.to, type |-> row.type] \notin Listed(relation', row.from)
      /\ [to |-> row.from, type |-> InverseType[row.type]] \notin Listed(relation', row.to)

\* A row that either end lists is the one that was deleted or its inverse.
LEMMA ListedRows ==
  ASSUME NEW rows \in SUBSET RelationRows, NEW row \in RelationRows, \A r \in rows : ~Same(r, row) /\ ~Opposite(r, row)
  PROVE  /\ [to |-> row.to, type |-> row.type] \notin Listed(rows, row.from)
         /\ [to |-> row.from, type |-> InverseType[row.type]] \notin Listed(rows, row.to)
<1>1. \A r \in rows : r.type \in RelationTypes /\ row.type \in RelationTypes
  BY DEF RelationRows
<1>2. ASSUME [to |-> row.to, type |-> row.type] \in Listed(rows, row.from) PROVE FALSE
  <2>1. PICK r \in rows : \/ r.from = row.from /\ r.to = row.to /\ r.type = row.type
                          \/ r.to = row.from /\ r.from = row.to /\ InverseType[r.type] = row.type
    BY <1>2 DEF Listed
  <2>2. r.type = row.type \/ r.type = InverseType[row.type]
    BY <1>1, <2>1, Inverses
  <2> QED
    BY <1>1, <2>1, <2>2, Inverses DEF Same, Opposite
<1>3. ASSUME [to |-> row.from, type |-> InverseType[row.type]] \in Listed(rows, row.to) PROVE FALSE
  <2>1. PICK r \in rows : \/ r.from = row.to /\ r.to = row.from /\ r.type = InverseType[row.type]
                          \/ r.to = row.to /\ r.from = row.from /\ InverseType[r.type] = InverseType[row.type]
    BY <1>3 DEF Listed
  <2>2. CASE r.from = row.to /\ r.to = row.from /\ r.type = InverseType[row.type]
    BY <2>2 DEF Opposite
  <2>3. CASE r.to = row.to /\ r.from = row.from /\ InverseType[r.type] = InverseType[row.type]
    <3>1. r.type = row.type
      BY <1>1, <2>3, Inverses
    <3> QED
      BY <2>3, <3>1 DEF Same
  <2> QED
    BY <2>1, <2>2, <2>3
<1> QED
  BY <1>2, <1>3

\* Only its last statement ends a request that has removed the inverse row.
LEMMA DropEnds ==
  ASSUME RowsInv, [AppNext]_app, NEW w \in Writers, linker[w].pc = "drop", linker'[w].pc = "idle"
  PROVE  DropRow(w)
<1>1. linker' # linker
  OBVIOUS
<1>2. RelationsNext
  BY <1>1 DEF AppNext, app, IssuesArea, CyclesArea, GitHubArea, RelationsArea, relations, LinkedIssuesGo
<1>3. PICK v \in Writers : \/ \E i, j \in Issues, type \in RelationTypes : CreateRelation(v, i, j, type)
                           \/ \E row \in relation : DeleteRelation(v, row)
                           \/ CreateInverse(v) \/ DropInverse(v) \/ DropRow(v)
  BY <1>2 DEF RelationsNext
<1>4. CASE v = w
  <2>1. ~DropInverse(w) /\ ~CreateInverse(w)
    BY DEF DropInverse, CreateInverse
  <2>2. \A i, j \in Issues, type \in RelationTypes : ~CreateRelation(w, i, j, type)
    BY DEF CreateRelation
  <2>3. \A row \in relation : ~DeleteRelation(w, row)
    BY DEF DeleteRelation
  <2> QED
    BY <1>3, <1>4, <2>1, <2>2, <2>3
<1>5. CASE v # w
  <2>1. linker'[w].pc = linker[w].pc
    <3>1. linker[w] \in Linkers /\ linker \in [Writers -> Linkers]
      BY DEF RowsInv, RowsTyped
    <3>2. ASSUME NEW pc, NEW row, LinkerGoes(v, pc, row) PROVE linker'[w].pc = linker[w].pc
      BY <1>5, <3>1, <3>2 DEF LinkerGoes, Linkers
    <3>3. LinkerEnds(v) => linker'[w].pc = linker[w].pc
      BY <1>5, <3>1 DEF LinkerEnds
    <3>4. CASE \E i, j \in Issues, type \in RelationTypes : CreateRelation(v, i, j, type)
      BY <3>2, <3>3, <3>4 DEF CreateRelation
    <3>5. CASE \E row \in relation : DeleteRelation(v, row)
      BY <3>2, <3>5 DEF DeleteRelation
    <3>6. CASE CreateInverse(v) \/ DropRow(v)
      BY <3>3, <3>6 DEF CreateInverse, DropRow
    <3>7. CASE DropInverse(v)
      <4>1. CASE LinkerGoes(v, "drop", linker[v].row)
        BY <3>2, <4>1
      <4>2. CASE linker' = [linker EXCEPT ![v].pc = "drop", ![v].excused = TRUE]
        BY <1>5, <3>1, <4>2
      <4> QED
        BY <3>7, <4>1, <4>2 DEF DropInverse
    <3> QED
      BY <1>3, <3>4, <3>5, <3>6, <3>7
  <2> QED
    BY <2>1
<1> QED
  BY <1>4, <1>5

LEMMA DropLeavesNone ==
  ASSUME RowsInv, [AppNext]_app
  PROVE  DeletedIsGone
<1> SUFFICES ASSUME NEW w \in Writers, linker[w].pc = "drop", linker'[w].pc = "idle",
                    Directed(linker[w].row), ~linker[w].excused
             PROVE  /\ [to |-> linker[w].row.to, type |-> linker[w].row.type] \notin Listed(relation', linker[w].row.from)
                    /\ [to |-> linker[w].row.from, type |-> InverseType[linker[w].row.type]]
                         \notin Listed(relation', linker[w].row.to)
  BY DEF DeletedIsGone
<1>1. DropRow(w)
  BY DropEnds
<1>2. relation' = {r \in relation : r.id # linker[w].row.id}
  BY <1>1 DEF DropRow
<1>3. linker[w].row \in RelationRows /\ relation \subseteq RelationRows
  BY DEF RowsInv, RowsTyped
<1>4. RowAccounted(w) /\ Deleting(w)
  BY DEF RowsInv, Deleting
<1>5. \A r \in relation' : ~Same(r, linker[w].row) /\ ~Opposite(r, linker[w].row)
  BY <1>2, <1>4 DEF RowAccounted
<1>6. relation' \in SUBSET RelationRows
  BY <1>2, <1>3
<1> QED
  BY <1>3, <1>5, <1>6, ListedRows

LEMMA RowsStart == AppInit => RowsInv
<1> SUFFICES ASSUME AppInit PROVE RowsInv
  OBVIOUS
<1>1. relation = {} /\ minted = 0 /\ linker = [w \in Writers |-> NoLink]
  BY DEF AppInit
<1>2. \A w \in Writers : linker[w].pc = "idle"
  BY <1>1 DEF NoLink
<1>3. RowsTyped
  BY <1>1, <1>2, RelationsAssumption DEF RowsTyped, NoLink, Linkers
<1> QED
  BY <1>1, <1>2, <1>3 DEF RowsInv, UniquePairs, RowAccounted, Deleting

\* A blocking relation that was deleted is listed at neither end afterwards,
\* unless a statement failed or relations were created meanwhile: Create and
\* Delete of the relation service, for any number of requests, issues and rows.
THEOREM DeletedStaysDeleted == AppSpec => DeletedRelationIsGone
<1>1. RowsInv /\ [AppNext]_app => RowsInv'
  BY RowsNext
<1>2. RowsInv /\ [AppNext]_app =>
        [\A w \in Writers : LET row == linker[w].row IN
           linker[w].pc = "drop" /\ linker'[w].pc = "idle" /\ Directed(row) /\ ~linker[w].excused =>
             /\ [to |-> row.to, type |-> row.type] \notin Listed(relation', row.from)
             /\ [to |-> row.from, type |-> InverseType[row.type]] \notin Listed(relation', row.to)]_<<issue, relations>>
  BY DropLeavesNone DEF DeletedIsGone
<1> QED
  BY RowsStart, <1>1, <1>2, PTL DEF AppSpec, DeletedRelationIsGone
-----------------------------------------------------------------------------
(* Cycles of a team *)

Spanning == {"upcoming", "active"}
Planned == {"check", "number", "insert", "next", "carry", "write"}

RowShaped(row) == row = [status |-> row.status, from |-> row.from, to |-> row.to, number |-> row.number]
PlanShaped(plan) ==
  plan = [pc |-> plan.pc, id |-> plan.id, row |-> plan.row, next |-> plan.next, stale |-> plan.stale, disturbed |-> plan.disturbed]

\* The row a request holds after its check overlaps nothing, unless another one
\* has written since; what completes a cycle holds a row that spans no days.
PlanFits(plan) ==
  /\ PlanShaped(plan) /\ RowShaped(plan.row)
  /\ plan.pc \in Planned => plan.id \in Cycles
  /\ plan.pc \in {"next", "carry"} => plan.row.status = "completed"
  /\ plan.pc \in {"number", "insert", "write"} /\ ~plan.stale /\ plan.row.status \in Spanning => ~HasOverlap(plan.id, plan.row)

PlansTyped ==
  /\ cycle = [c \in Cycles |-> cycle[c]] /\ \A c \in Cycles : RowShaped(cycle[c])
  /\ planner = [p \in Planners |-> planner[p]]

CyclesInv == PlansTyped /\ (\A p \in Planners : PlanFits(planner[p])) /\ CyclesDoNotOverlap

LEMMA NothingPlanned ==
  /\ PlanFits(NoPlan) /\ PlanFits([NoPlan EXCEPT !.pc = "done"]) /\ RowShaped(NoPlan.row)
  /\ NoPlan.row.status = "none"
<1>1. /\ PlanShaped(NoPlan) /\ NoPlan.pc = "idle" /\ RowShaped(NoPlan.row) /\ NoPlan.row.status = "none"
  BY DEF PlanShaped, RowShaped, NoPlan
<1>2. PICK plan : plan = [NoPlan EXCEPT !.pc = "done"]
  OBVIOUS
<1>3. PlanShaped(plan) /\ plan.pc = "done" /\ plan.row = NoPlan.row
  BY <1>1, <1>2 DEF PlanShaped
<1> QED
  BY <1>1, <1>2, <1>3 DEF PlanFits, Planned

\* A step that leaves the table alone.
LEMMA PlansMove ==
  ASSUME CyclesInv, NEW p \in Planners, NEW plan, PlanFits(plan), Plans(p, plan), cycle' = cycle, rushed' = rushed
  PROVE  CyclesInv'
<1>1. planner' = [planner EXCEPT ![p] = plan] /\ planner = [q \in Planners |-> planner[q]]
  BY DEF Plans, CyclesInv, PlansTyped
<1>2. \A q \in Planners : planner'[q] = IF q = p THEN plan ELSE planner[q]
  BY <1>1
<1>3. PlansTyped'
  BY <1>1 DEF CyclesInv, PlansTyped
<1>4. ASSUME NEW q \in Planners PROVE PlanFits(planner[q])'
  BY <1>2 DEF CyclesInv, PlanFits, HasOverlap
<1>5. CyclesDoNotOverlap'
  BY DEF CyclesInv, CyclesDoNotOverlap, HasOverlap
<1> QED
  BY <1>3, <1>4, <1>5 DEF CyclesInv

LEMMA CyclesRest ==
  ASSUME CyclesInv, cycle' = cycle, rushed' = rushed, planner' = planner
  PROVE  CyclesInv'
  BY DEF CyclesInv, PlansTyped, PlanFits, HasOverlap, CyclesDoNotOverlap

\* A row is written: what others hold is stale now, and the row fits in unless
\* it was stale itself.
LEMMA WritesKeep ==
  ASSUME CyclesInv, NEW p \in Planners, NEW c \in Cycles, NEW row, RowShaped(row), Writes(p, c, row),
         ~planner[p].stale /\ row.status \in Spanning => ~HasOverlap(c, row)
  PROVE  CyclesInv'
<1>1. cycle' = [cycle EXCEPT ![c] = row] /\ cycle = [k \in Cycles |-> cycle[k]] /\ \A k \in Cycles : RowShaped(cycle[k])
  BY DEF Writes, CyclesInv, PlansTyped
<1>2. \A k \in Cycles : cycle'[k] = IF k = c THEN row ELSE cycle[k]
  BY <1>1
<1>3. planner' = [q \in Planners |-> IF q = p THEN [NoPlan EXCEPT !.pc = "done"]
                                     ELSE [planner[q] EXCEPT !.stale = (planner[q].pc \notin {"idle", "done"})]]
  BY DEF Writes
<1>4. PlansTyped'
  <2>1. planner' = [q \in Planners |-> planner'[q]]
    BY <1>3
  <2>2. cycle' = [k \in Cycles |-> cycle'[k]] /\ \A k \in Cycles : RowShaped(cycle'[k])
    BY <1>1, <1>2
  <2> QED
    BY <2>1, <2>2 DEF PlansTyped, RowShaped
<1>5. PlanFits(planner[p])'
  <2>1. planner'[p] = [NoPlan EXCEPT !.pc = "done"] /\ planner'[p].pc = "done"
    BY <1>3 DEF NoPlan
  <2>2. PlanShaped(planner'[p]) /\ RowShaped(planner'[p].row)
    BY <2>1, NothingPlanned DEF PlanFits
  <2> QED
    BY <2>1, <2>2 DEF PlanFits, PlanShaped, RowShaped, Planned
<1>6. ASSUME NEW q \in Planners, q # p PROVE PlanFits(planner[q])'
  <2>1. planner'[q] = [planner[q] EXCEPT !.stale = (planner[q].pc \notin {"idle", "done"})] /\ PlanFits(planner[q])
    BY <1>3, <1>6 DEF CyclesInv
  <2>2. /\ PlanShaped(planner'[q]) /\ planner'[q].pc = planner[q].pc /\ planner'[q].id = planner[q].id
        /\ planner'[q].row = planner[q].row
    BY <2>1 DEF PlanFits, PlanShaped
  <2>3. planner'[q].stale = (planner[q].pc \notin {"idle", "done"})
    BY <2>1 DEF PlanFits, PlanShaped
  <2>4. planner[q].pc \in {"number", "insert", "write"} => planner'[q].stale
    BY <2>3
  <2> QED
    BY <2>1, <2>2, <2>4 DEF PlanFits, PlanShaped, RowShaped
<1>7. CyclesDoNotOverlap'
  <2>1. SUFFICES ASSUME ~rushed', NEW k \in Cycles, NEW l \in Cycles \ {k},
                        cycle'[k].status \in Spanning, cycle'[l].status \in Spanning,
                        cycle'[l].from < cycle'[k].to, cycle'[k].from < cycle'[l].to
                 PROVE  FALSE
    BY DEF CyclesDoNotOverlap, HasOverlap, Spanning
  <2>2. ~rushed /\ ~(planner[p].stale /\ row.status # "completed")
    BY <2>1 DEF Writes
  <2>3. \A a \in Cycles : \A b \in Cycles \ {a} :
          cycle[a].status \in Spanning /\ cycle[b].status \in Spanning => ~(cycle[b].from < cycle[a].to /\ cycle[a].from < cycle[b].to)
    BY <2>2 DEF CyclesInv, CyclesDoNotOverlap, HasOverlap, Spanning
  <2>4. row.status \in Spanning =>
          \A b \in Cycles \ {c} : cycle[b].status \in Spanning => ~(cycle[b].from < row.to /\ row.from < cycle[b].to)
    BY <2>2 DEF HasOverlap, Spanning
  <2> QED
    BY <1>2, <2>1, <2>3, <2>4
<1> QED
  BY <1>4, <1>5, <1>6, <1>7 DEF CyclesInv

LEMMA FailsKeep ==
  ASSUME CyclesInv, NEW p \in Planners, Fails(p), TablesStay
  PROVE  CyclesInv'
  BY NothingPlanned, PlansMove DEF Fails, TablesStay, issues

LEMMA CreateCycleKeeps ==
  ASSUME CyclesInv, NEW p \in Planners, NEW c \in Cycles, NEW span, CreateCycle(p, c, span)
  PROVE  CyclesInv'
<1>1. PICK row : row = [status |-> "upcoming", from |-> span[1], to |-> span[2], number |-> 0]
  OBVIOUS
<1>2. PICK plan : plan = [NoPlan EXCEPT !.pc = "number", !.id = c, !.row = row]
  OBVIOUS
<1>3. TablesStay /\ IF HasOverlap(c, row) THEN Fails(p) ELSE Plans(p, plan)
  BY <1>1, <1>2 DEF CreateCycle
<1>4. RowShaped(row)
  BY <1>1 DEF RowShaped
<1>5. PlanShaped(plan) /\ plan.pc = "number" /\ plan.id = c /\ plan.row = row
  BY <1>2 DEF NoPlan, PlanShaped
<1>6. ~HasOverlap(c, row) => PlanFits(plan)
  BY <1>4, <1>5 DEF PlanFits
<1> QED
  BY <1>3, <1>6, FailsKeep, PlansMove DEF TablesStay, issues

LEMMA NextNumberKeeps ==
  ASSUME CyclesInv, NEW p \in Planners, NextNumber(p)
  PROVE  CyclesInv'
<1>1. PICK n : Plans(p, [planner[p] EXCEPT !.pc = "insert", !.row.number = n + 1])
  BY DEF NextNumber
<1>2. PlanFits(planner[p]) /\ planner[p].pc = "number" /\ TablesStay
  BY DEF NextNumber, CyclesInv
<1>3. PICK row : row = [planner[p].row EXCEPT !.number = n + 1]
  OBVIOUS
<1>4. RowShaped(row) /\ row.status = planner[p].row.status /\ row.from = planner[p].row.from /\ row.to = planner[p].row.to
  BY <1>2, <1>3 DEF PlanFits, RowShaped
<1>5. PICK plan : plan = [planner[p] EXCEPT !.pc = "insert", !.row = row]
  OBVIOUS
<1>6. /\ PlanShaped(plan) /\ plan.pc = "insert" /\ plan.row = row
      /\ plan.id = planner[p].id /\ plan.stale = planner[p].stale
  BY <1>2, <1>5 DEF PlanFits, PlanShaped
<1>7. PlanFits(plan)
  BY <1>2, <1>4, <1>6 DEF PlanFits, HasOverlap, Planned
<1>8. plan = [planner[p] EXCEPT !.pc = "insert", !.row.number = n + 1]
  BY <1>2, <1>3, <1>5 DEF PlanFits, PlanShaped
<1> QED
  BY <1>1, <1>2, <1>7, <1>8, PlansMove DEF TablesStay, issues

LEMMA InsertCycleKeeps ==
  ASSUME CyclesInv, NEW p \in Planners, InsertCycle(p)
  PROVE  CyclesInv'
<1>1. PlanFits(planner[p]) /\ planner[p].pc = "insert"
  BY DEF InsertCycle, CyclesInv
<1>2. \/ Fails(p) /\ TablesStay
      \/ Writes(p, planner[p].id, planner[p].row)
  BY DEF InsertCycle
<1>3. planner[p].id \in Cycles /\ RowShaped(planner[p].row)
  BY <1>1 DEF PlanFits, Planned
<1>4. ~planner[p].stale /\ planner[p].row.status \in Spanning => ~HasOverlap(planner[p].id, planner[p].row)
  BY <1>1 DEF PlanFits
<1> QED
  BY <1>2, <1>3, <1>4, FailsKeep, WritesKeep

LEMMA WriteCycleKeeps ==
  ASSUME CyclesInv, NEW p \in Planners, WriteCycle(p)
  PROVE  CyclesInv'
<1>1. PlanFits(planner[p]) /\ planner[p].pc = "write"
  BY DEF WriteCycle, CyclesInv
<1>2. \/ Fails(p) /\ TablesStay
      \/ Writes(p, planner[p].id, planner[p].row)
  BY DEF WriteCycle
<1>3. planner[p].id \in Cycles /\ RowShaped(planner[p].row)
  BY <1>1 DEF PlanFits, Planned
<1>4. ~planner[p].stale /\ planner[p].row.status \in Spanning => ~HasOverlap(planner[p].id, planner[p].row)
  BY <1>1 DEF PlanFits
<1> QED
  BY <1>2, <1>3, <1>4, FailsKeep, WritesKeep

LEMMA UpdateCycleKeeps ==
  ASSUME CyclesInv, NEW p \in Planners, NEW c \in Cycles, UpdateCycle(p, c)
  PROVE  CyclesInv'
<1>1. PICK row \in {cycle[c]} \cup {[cycle[c] EXCEPT !.status = s] : s \in {"upcoming", "active", "completed"}}
                   \cup {[cycle[c] EXCEPT !.from = d[1], !.to = d[2]] : d \in Spans} :
        Plans(p, [NoPlan EXCEPT !.pc = "check", !.id = c, !.row = row])
  BY DEF UpdateCycle
<1>2. RowShaped(cycle[c])
  BY DEF CyclesInv, PlansTyped
<1>3. RowShaped(row)
  <2>1. CASE row = cycle[c]
    BY <1>2, <2>1
  <2>2. CASE \E s \in {"upcoming", "active", "completed"} : row = [cycle[c] EXCEPT !.status = s]
    BY <1>2, <2>2 DEF RowShaped
  <2>3. CASE \E d \in Spans : row = [cycle[c] EXCEPT !.from = d[1], !.to = d[2]]
    BY <1>2, <2>3 DEF RowShaped
  <2> QED
    BY <1>1, <2>1, <2>2, <2>3
<1>4. PICK plan : plan = [NoPlan EXCEPT !.pc = "check", !.id = c, !.row = row]
  OBVIOUS
<1>5. PlanShaped(plan) /\ plan.pc = "check" /\ plan.id = c /\ plan.row = row
  BY <1>4 DEF NoPlan, PlanShaped
<1>6. PlanFits(plan)
  BY <1>3, <1>5 DEF PlanFits
<1> QED
  BY <1>1, <1>4, <1>6, PlansMove DEF UpdateCycle, TablesStay, issues

LEMMA CheckDatesKeeps ==
  ASSUME CyclesInv, NEW p \in Planners, CheckDates(p)
  PROVE  CyclesInv'
<1>1. PlanFits(planner[p]) /\ planner[p].pc = "check" /\ TablesStay
  BY DEF CheckDates, CyclesInv
<1>2. CASE HasOverlap(planner[p].id, planner[p].row)
  BY <1>1, <1>2, FailsKeep DEF CheckDates
<1>3. CASE ~HasOverlap(planner[p].id, planner[p].row)
  <2>1. PICK plan : plan = [planner[p] EXCEPT !.pc = "write", !.stale = FALSE]
    OBVIOUS
  <2>2. PlanShaped(plan) /\ plan.pc = "write" /\ plan.id = planner[p].id /\ plan.row = planner[p].row
    BY <1>1, <2>1 DEF PlanFits, PlanShaped
  <2>3. PlanFits(plan)
    BY <1>1, <1>3, <2>2 DEF PlanFits, Planned
  <2> QED
    BY <1>1, <1>3, <2>1, <2>3, PlansMove DEF CheckDates, TablesStay, issues
<1> QED
  BY <1>2, <1>3

LEMMA CompleteCycleKeeps ==
  ASSUME CyclesInv, NEW p \in Planners, NEW c \in Cycles, NEW carryOver \in BOOLEAN, CompleteCycle(p, c, carryOver)
  PROVE  CyclesInv'
<1>1. PICK pc : pc = IF carryOver THEN "next" ELSE "write"
  OBVIOUS
<1>2. PICK row : row = [cycle[c] EXCEPT !.status = "completed"]
  OBVIOUS
<1>3. RowShaped(row) /\ row.status = "completed"
  <2>1. RowShaped(cycle[c])
    BY DEF CyclesInv, PlansTyped
  <2> QED
    BY <1>2, <2>1 DEF RowShaped
<1>4. PICK plan : plan = [NoPlan EXCEPT !.pc = pc, !.id = c, !.row = row]
  OBVIOUS
<1>5. PlanShaped(plan) /\ plan.pc = pc /\ plan.id = c /\ plan.row = row
  BY <1>4 DEF NoPlan, PlanShaped
<1>6. PlanFits(plan)
  BY <1>1, <1>3, <1>5 DEF PlanFits, Spanning
<1>7. Plans(p, plan) /\ TablesStay
  BY <1>1, <1>2, <1>4 DEF CompleteCycle
<1> QED
  BY <1>6, <1>7, PlansMove DEF TablesStay, issues

\* The steps of a completion before it writes; its row stays as it is.
LEMMA DisturbedPlan ==
  ASSUME NEW q \in Planners, PlanShaped(planner[q])
  PROVE  /\ PlanShaped(Disturbed(q)) /\ Disturbed(q).pc = planner[q].pc /\ Disturbed(q).id = planner[q].id
         /\ Disturbed(q).row = planner[q].row /\ Disturbed(q).next = planner[q].next /\ Disturbed(q).stale = planner[q].stale
<1>1. PICK b : b = (planner[q].disturbed \/ (issue' # issue /\ planner[q].pc = "write"))
  OBVIOUS
<1>2. Disturbed(q) = [planner[q] EXCEPT !.disturbed = b]
  BY <1>1 DEF Disturbed
<1>3. PICK plan : plan = [planner[q] EXCEPT !.disturbed = b]
  OBVIOUS
<1>4. PlanShaped(plan) /\ plan.pc = planner[q].pc /\ plan.id = planner[q].id /\ plan.row = planner[q].row
      /\ plan.next = planner[q].next /\ plan.stale = planner[q].stale
  BY <1>3 DEF PlanShaped
<1> QED
  BY <1>2, <1>3, <1>4

\* Others are disturbed, and p may go on.
LEMMA DisturbedKeep ==
  ASSUME CyclesInv, NEW p, NEW plan, p \in Planners => PlanFits(plan), cycle' = cycle, rushed' = rushed,
         planner' = [q \in Planners |-> IF q = p THEN plan ELSE Disturbed(q)]
  PROVE  CyclesInv'
<1>1. ASSUME NEW q \in Planners PROVE PlanFits(planner[q])'
  <2>1. planner'[q] = IF q = p THEN plan ELSE Disturbed(q)
    OBVIOUS
  <2>2. CASE q = p
    BY <2>1, <2>2 DEF PlanFits, PlanShaped, RowShaped, HasOverlap
  <2>3. CASE q # p
    <3>1. PlanFits(planner[q])
      BY DEF CyclesInv
    <3>2. PICK d : d = Disturbed(q)
      OBVIOUS
    <3>3. PlanShaped(d) /\ d.pc = planner[q].pc /\ d.id = planner[q].id /\ d.row = planner[q].row /\ d.stale = planner[q].stale
      BY <3>1, <3>2, DisturbedPlan DEF PlanFits
    <3>4. planner'[q] = d
      BY <2>1, <2>3, <3>2
    <3> QED
      BY <3>1, <3>3, <3>4 DEF PlanFits, PlanShaped, RowShaped, HasOverlap
  <2> QED
    BY <2>2, <2>3
<1>2. planner' = [q \in Planners |-> planner'[q]]
  OBVIOUS
<1>3. PlansTyped'
  BY <1>2 DEF CyclesInv, PlansTyped
<1>4. CyclesDoNotOverlap'
  BY DEF CyclesInv, CyclesDoNotOverlap, HasOverlap
<1> QED
  BY <1>1, <1>3, <1>4 DEF CyclesInv

LEMMA CarryingKeeps ==
  ASSUME CyclesInv, NEW p \in Planners, GetNextUpcoming(p) \/ CarryOverIssues(p)
  PROVE  CyclesInv'
<1>1. PlanFits(planner[p]) /\ planner[p].pc \in {"next", "carry"} /\ planner[p].row.status = "completed"
  <2>1. PlanFits(planner[p]) /\ planner[p].pc \in {"next", "carry"}
    BY DEF GetNextUpcoming, CarryOverIssues, CyclesInv
  <2> QED
    BY <2>1 DEF PlanFits
<1>2. cycle' = cycle /\ rushed' = rushed
  BY DEF GetNextUpcoming, CarryOverIssues, TablesStay, issues
<1>3. CASE Fails(p)
  BY <1>2, <1>3, NothingPlanned, PlansMove DEF Fails
<1>4. ASSUME NEW plan, PlanShaped(plan), plan.pc \in {"carry", "write"}, plan.id = planner[p].id, plan.row = planner[p].row
      PROVE  PlanFits(plan)
  BY <1>1, <1>4 DEF PlanFits, Planned, Spanning
<1>5. CASE PlanGoes(p, "write")
  <2>1. PICK plan : plan = [planner[p] EXCEPT !.pc = "write"]
    OBVIOUS
  <2>2. PlanShaped(plan) /\ plan.pc = "write" /\ plan.id = planner[p].id /\ plan.row = planner[p].row
    BY <1>1, <2>1 DEF PlanFits, PlanShaped
  <2>3. Plans(p, plan)
    BY <1>5, <2>1 DEF PlanGoes, Plans
  <2> QED
    BY <1>2, <1>4, <2>2, <2>3, PlansMove
<1>6. CASE \E c \in Cycles : Plans(p, [planner[p] EXCEPT !.pc = "carry", !.next = c])
  <2>1. PICK c \in Cycles : Plans(p, [planner[p] EXCEPT !.pc = "carry", !.next = c])
    BY <1>6
  <2>2. PICK plan : plan = [planner[p] EXCEPT !.pc = "carry", !.next = c]
    OBVIOUS
  <2>3. PlanShaped(plan) /\ plan.pc = "carry" /\ plan.id = planner[p].id /\ plan.row = planner[p].row
    BY <1>1, <2>2 DEF PlanFits, PlanShaped
  <2> QED
    BY <1>2, <1>4, <2>1, <2>2, <2>3, PlansMove
<1>7. CASE planner' = [q \in Planners |-> IF q = p THEN [planner[p] EXCEPT !.pc = "write", !.disturbed = FALSE] ELSE Disturbed(q)]
  <2>1. PICK plan : plan = [planner[p] EXCEPT !.pc = "write", !.disturbed = FALSE]
    OBVIOUS
  <2>2. PlanShaped(plan) /\ plan.pc = "write" /\ plan.id = planner[p].id /\ plan.row = planner[p].row
    BY <1>1, <2>1 DEF PlanFits, PlanShaped
  <2>3. planner' = [q \in Planners |-> IF q = p THEN plan ELSE Disturbed(q)]
    BY <1>7, <2>1
  <2> QED
    BY <1>2, <1>4, <2>2, <2>3, DisturbedKeep
<1> QED
  BY <1>3, <1>5, <1>6, <1>7 DEF GetNextUpcoming, CarryOverIssues

LEMMA DeleteCycleKeeps ==
  ASSUME CyclesInv, NEW p \in Planners, NEW c \in Cycles, DeleteCycle(p, c)
  PROVE  CyclesInv'
<1>1. Writes(p, c, NoPlan.row)
  BY DEF DeleteCycle
<1>2. NoPlan.row.status \notin Spanning
  BY NothingPlanned DEF Spanning
<1> QED
  BY <1>1, <1>2, NothingPlanned, WritesKeep

\* Requests on issues read the table of cycles and never write it.
LEMMA IssuesKeepCycles ==
  ASSUME NEW w, NEW kinds, IssueRequest(w, kinds) \/ WriterStep(w)
  PROVE  cycle' = cycle
<1>1. CASE WriterStep(w)
  BY <1>1 DEF WriterStep, FetchIssue, ValidateParent, UpdateBegins, UpdateCommits, InsertIssue, DuplicateSubs, ReloadIssue,
              ApplyStatusAutomation, ReadParent, CountThenClose, Answers, Goes, Continues, Refused
<1>2. CASE IssueRequest(w, kinds)
  BY <1>2 DEF IssueRequest, EditIssue, Triage, CreateIssue, DuplicateIssue, BulkUpdate, BulkUpdateParent, ConvertToProject,
              DeleteIssues, Starts
<1> QED
  BY <1>1, <1>2

LEMMA IssueMovesKeeps ==
  ASSUME CyclesInv, NEW step, IssueMoves(step), cycle' = cycle
  PROVE  CyclesInv'
<1>1. PICK nobody : nobody \notin Planners
  BY NoSetContainsEverything
<1>2. planner' = [q \in Planners |-> IF q = nobody THEN NoPlan ELSE Disturbed(q)] /\ rushed' = rushed
  BY <1>1 DEF IssueMoves
<1> QED
  BY <1>1, <1>2, DisturbedKeep

LEMMA CyclesAreaKeeps ==
  ASSUME CyclesInv, CyclesArea
  PROVE  CyclesInv'
<1>1. CASE \E p \in Planners : PlanRequest(p) \/ PlanStep(p)
  BY <1>1, CreateCycleKeeps, NextNumberKeeps, InsertCycleKeeps, WriteCycleKeeps, UpdateCycleKeeps, CheckDatesKeeps,
     CompleteCycleKeeps, CarryingKeeps, DeleteCycleKeeps DEF PlanRequest, PlanStep
<1>2. CASE IssueMoves(IssueRequest(FirstWriter, {area[2]}))
  <2>1. cycle' = cycle
    BY <1>2, IssuesKeepCycles DEF IssueMoves
  <2> QED
    BY <1>2, <2>1, IssueMovesKeeps
<1>3. CASE IssueMoves(WriterStep(FirstWriter))
  <2>1. cycle' = cycle
    BY <1>3, IssuesKeepCycles DEF IssueMoves
  <2> QED
    BY <1>3, <2>1, IssueMovesKeeps
<1>4. CASE CreateSubIssue(FirstWriter, FirstIssue)
  BY <1>4, CyclesRest DEF CreateSubIssue, CreateIssue, Starts, planning
<1> QED
  BY <1>1, <1>2, <1>3, <1>4 DEF CyclesArea

\* The other areas leave the table and the requests on it alone.
LEMMA OtherAreasKeep ==
  ASSUME IssuesArea \/ GitHubArea \/ RelationsArea
  PROVE  cycle' = cycle /\ UNCHANGED planning
<1>1. CASE IssuesArea
  BY <1>1, IssuesKeepCycles DEF IssuesArea
<1>2. CASE GitHubArea
  <2>1. CASE ChangeApp \/ Connect \/ LinkRepos \/ (\E event \in RuleEvents : UpdateAutoTransitions(event))
             \/ \E b \in BOOLEAN : Unlink(b)
    BY <1>2, <2>1 DEF GitHubArea, ChangeApp, Connect, LinkRepos, UpdateAutoTransitions, Unlink, issues
  <2>2. CASE \E w \in Deliverers : \E k \in 1 .. Len(sent) : Delivers(w, k)
    BY <1>2, <2>2 DEF GitHubArea, Delivers, issues
  <2>3. CASE \E w \in Writers : DeliveryStep(w)
    BY <1>2, <2>3 DEF GitHubArea, DeliveryStep, LookUp, ResolveIssue, Upsert, Transition, DeliveryGoes, issues
  <2>4. CASE \E w \in Writers : WriterStep(w)
    BY <1>2, <2>4, IssuesKeepCycles DEF GitHubArea
  <2>5. CASE \E w \in Writers \ {FirstWriter} : UserMoves(EditIssue(w, Referenced) \/ DeleteIssues(w, {Referenced}))
    BY <1>2, <2>5 DEF GitHubArea, UserMoves, EditIssue, DeleteIssues, Starts
  <2> QED
    BY <1>2, <2>1, <2>2, <2>3, <2>4, <2>5 DEF GitHubArea, GitHubNext
<1>3. CASE RelationsArea
  <2>1. CASE RelationsNext
    BY <1>3, <2>1 DEF RelationsArea, RelationsNext, CreateRelation, DeleteRelation, CreateInverse, DropInverse, DropRow, issues
  <2>2. CASE \E i \in Issues : LinkedIssuesGo(DeleteIssues(FirstWriter, {i}))
    BY <1>3, <2>2 DEF RelationsArea, LinkedIssuesGo, DeleteIssues
  <2> QED
    BY <1>3, <2>1, <2>2 DEF RelationsArea
<1> QED
  BY <1>1, <1>2, <1>3

LEMMA CyclesNext ==
  ASSUME CyclesInv, [AppNext]_app
  PROVE  CyclesInv'
<1>1. CASE CyclesArea
  BY <1>1, CyclesAreaKeeps
<1>2. CASE IssuesArea \/ GitHubArea \/ RelationsArea
  BY <1>2, OtherAreasKeep, CyclesRest DEF planning
<1>3. CASE UNCHANGED <<issues, planning>>
  BY <1>3, CyclesRest DEF issues, planning
<1> QED
  BY <1>1, <1>2, <1>3 DEF AppNext, app

LEMMA CyclesStart ==
  ASSUME AppInit
  PROVE  CyclesInv
<1>1. planner = [p \in Planners |-> NoPlan] /\ rushed = FALSE
  BY DEF AppInit, IssueInit
<1>2. cycle = [c \in Cycles |->
       IF On("cycle") /\ c = FirstCycle THEN [status |-> "active", from |-> 1, to |-> 2, number |-> 1]
       ELSE IF On("cycle") /\ c = SecondCycle THEN [status |-> "upcoming", from |-> 2, to |-> 3, number |-> 2]
       ELSE NoPlan.row]
  BY DEF AppInit, IssueInit
<1>3. \A c \in Cycles : \/ cycle[c] = [status |-> "active", from |-> 1, to |-> 2, number |-> 1] /\ c = FirstCycle
                        \/ cycle[c] = [status |-> "upcoming", from |-> 2, to |-> 3, number |-> 2] /\ c = SecondCycle
                        \/ cycle[c] = [status |-> "none", from |-> 0, to |-> 0, number |-> 0]
  BY <1>2 DEF NoPlan
<1>4. CyclesDoNotOverlap
  <2>1. \A c \in Cycles : cycle[c].status \in Spanning =>
           \/ c = FirstCycle /\ cycle[c].from = 1 /\ cycle[c].to = 2
           \/ c = SecondCycle /\ cycle[c].from = 2 /\ cycle[c].to = 3
    BY <1>3 DEF Spanning
  <2> QED
    BY <2>1 DEF CyclesDoNotOverlap, HasOverlap, Spanning
<1>5. PlansTyped
  <2>1. cycle = [c \in Cycles |-> cycle[c]] /\ planner = [p \in Planners |-> planner[p]]
    BY <1>1, <1>2
  <2> QED
    BY <1>3, <2>1 DEF PlansTyped, RowShaped
<1> QED
  BY <1>1, <1>4, <1>5, NothingPlanned DEF CyclesInv

\* Two cycles of a team that are not completed share no day, unless two requests
\* passed their checks before either wrote: Create, Update, Complete and Delete
\* of the cycle service, which check in one statement and write in another, for
\* any number of cycles, requests and days.
THEOREM CyclesStayApart == AppSpec => []CyclesDoNotOverlap
<1>1. AppInit => CyclesInv
  BY CyclesStart
<1>2. CyclesInv /\ [AppNext]_app => CyclesInv'
  BY CyclesNext
<1>3. CyclesInv => CyclesDoNotOverlap
  BY DEF CyclesInv
<1> QED
  BY <1>1, <1>2, <1>3, PTL DEF AppSpec

-----------------------------------------------------------------------------
(* The ancestors of an issue, in any table of issues *)

IssueTables == [Issues -> IssueRows]
Ancestors(f, i) ==
  {j \in Issues : \A S \in SUBSET Issues : (\A k \in S \cup {i} : f[k].parent \in S \cup {NoIssue}) => j \in S}
Loopless(f) == \A i \in Issues : i \notin Ancestors(f, i)

LEMMA AncestorsClosed ==
  ASSUME NEW f \in IssueTables, NEW i \in Issues
  PROVE  \A k \in Ancestors(f, i) \cup {i} : f[k].parent \in Ancestors(f, i) \cup {NoIssue}
<1> SUFFICES ASSUME NEW k \in Ancestors(f, i) \cup {i}, f[k].parent # NoIssue
             PROVE  f[k].parent \in Ancestors(f, i)
  OBVIOUS
<1>1. f[k].parent \in Issues
  BY DEF IssueTables, IssueRows, Ancestors
<1>2. ASSUME NEW S \in SUBSET Issues, \A l \in S \cup {i} : f[l].parent \in S \cup {NoIssue}
      PROVE  f[k].parent \in S
  BY <1>2 DEF Ancestors
<1> QED
  BY <1>1, <1>2 DEF Ancestors

LEMMA AncestorsLeast ==
  ASSUME NEW f, NEW i, NEW S \in SUBSET Issues, \A k \in S \cup {i} : f[k].parent \in S \cup {NoIssue}
  PROVE  Ancestors(f, i) \subseteq S
  BY DEF Ancestors

\* An issue that loses its parent gains no ancestor, and neither does any other.
LEMMA FewerAncestors ==
  ASSUME NEW f \in IssueTables, NEW g \in IssueTables, \A k \in Issues : g[k].parent \in {f[k].parent, NoIssue}, NEW i \in Issues
  PROVE  Ancestors(g, i) \subseteq Ancestors(f, i)
<1>1. Ancestors(f, i) \in SUBSET Issues
  BY DEF Ancestors
<1>2. \A k \in Ancestors(f, i) \cup {i} : g[k].parent \in Ancestors(f, i) \cup {NoIssue}
  BY <1>1, AncestorsClosed
<1> QED
  BY <1>1, <1>2, AncestorsLeast

\* A parent that is neither the issue nor below it closes no loop.
LEMMA NewParent ==
  ASSUME NEW f \in IssueTables, NEW g \in IssueTables, NEW x \in Issues, NEW p \in Issues,
         \A k \in Issues \ {x} : g[k].parent \in {f[k].parent, NoIssue}, g[x].parent = p, x # p, x \notin Ancestors(f, p), Loopless(f)
  PROVE  Loopless(g)
<1> DEFINE A == Ancestors(f, p) \cup {p}
<1>1. A \in SUBSET Issues /\ x \notin A
  BY DEF Ancestors
<1>2. \A k \in A : f[k].parent \in A \cup {NoIssue} /\ g[k].parent \in A \cup {NoIssue}
  BY <1>1, AncestorsClosed
<1>3. x \notin Ancestors(g, x)
  <2>1. \A k \in A \cup {x} : g[k].parent \in A \cup {NoIssue}
    BY <1>2
  <2> HIDE DEF A
  <2> QED
    BY <1>1, <2>1, AncestorsLeast
<1>4. ASSUME NEW i \in Issues \ {x} PROVE i \notin Ancestors(g, i)
  <2> DEFINE B == Ancestors(f, i)
  <2>1. B \in SUBSET Issues /\ i \notin B
    BY DEF Ancestors, Loopless
  <2>2. \A k \in B \cup {i} : f[k].parent \in B \cup {NoIssue}
    BY AncestorsClosed
  <2>3. CASE x \notin B
    <3>1. \A k \in B \cup {i} : g[k].parent \in B \cup {NoIssue}
      BY <1>4, <2>1, <2>2, <2>3
    <3> HIDE DEF A, B
    <3> QED
      BY <2>1, <3>1, AncestorsLeast
  <2>4. CASE x \in B
    <3>1. i \notin A
      <4> SUFFICES ASSUME i \in A PROVE FALSE
        OBVIOUS
      <4>1. \A k \in A \cup {i} : f[k].parent \in A \cup {NoIssue}
        BY <1>2
      <4> HIDE DEF A
      <4>2. B \subseteq A
        BY <1>1, <4>1, AncestorsLeast
      <4> QED
        BY <1>1, <2>4, <4>2
    <3>2. \A k \in A \cup B \cup {i} : g[k].parent \in A \cup B \cup {NoIssue}
      <4>1. p \in A
        OBVIOUS
      <4> HIDE DEF A, B
      <4> QED
        BY <1>1, <1>2, <2>1, <2>2, <4>1
    <3>3. Ancestors(g, i) \subseteq A \cup B
      <4> HIDE DEF A, B
      <4>1. A \cup B \in SUBSET Issues
        BY <1>1, <2>1
      <4> QED
        BY <3>2, <4>1, AncestorsLeast
    <3> QED
      BY <2>1, <3>1, <3>3
  <2> QED
    BY <2>3, <2>4
<1> QED
  BY <1>3, <1>4 DEF Loopless

\* Nor does any parent of an issue that is nobody's.
LEMMA ChildlessIsNoAncestor ==
  ASSUME NEW f \in IssueTables, NEW x \in Issues, \A k \in Issues : f[k].parent # x, NEW p \in Issues
  PROVE  x \notin Ancestors(f, p)
<1> DEFINE S == Issues \ {x}
<1>1. S \in SUBSET Issues /\ \A k \in S \cup {p} : f[k].parent \in S \cup {NoIssue}
  BY DEF IssueTables, IssueRows
<1>2. Ancestors(f, p) \subseteq S
  <2> HIDE DEF S
  <2> QED
    BY <1>1, AncestorsLeast
<1> QED
  BY <1>2

\* The sequence of the members of a finite set.
LEMMA MembersInOrder ==
  ASSUME NEW S, IsFiniteSet(S)
  PROVE  SetToSeq(S) \in [1 .. Cardinality(S) -> S] /\ Cardinality(S) \in Nat /\ SetToSeq(S) \in Seq(S)
         /\ Len(SetToSeq(S)) = Cardinality(S)
<1>1. Cardinality(S) \in Nat /\ ExistsBijection(1 .. Cardinality(S), S)
  BY FS_CardinalityType
<1>2. \E f \in [1 .. Cardinality(S) -> S] : IsInjective(f)
  BY <1>1 DEF ExistsBijection, Bijection, Injection
<1>3. SetToSeq(S) \in [1 .. Cardinality(S) -> S]
  BY <1>2 DEF SetToSeq
<1> QED
  BY <1>1, <1>3

-----------------------------------------------------------------------------
(* The tables, and what requests hold of them *)

\* A task names an issue, unless it inserts one, and the rows it may write are
\* those of issues.
TaskFits(t) ==
  /\ t.do # "insert" => t.id \in Issues
  /\ t.do \in {"update", "status", "close", "validate", "count", "apply", "insert"} => t.row.live
  /\ t.do = "validate" => t.row.parent \in Issues
FitTasks == {t \in Tasks : TaskFits(t)}

WriterRows == [pc : {"idle", "run", "write", "done"}, todo : Seq(FitTasks), visited : SUBSET Issues,
               roots : SUBSET Issues, stale : BOOLEAN, disturbed : BOOLEAN]

TablesTyped ==
  /\ issue \in [Issues -> IssueRows] /\ cycle \in [Cycles -> CycleRows]
  /\ team \in [closeParent : BOOLEAN, closeSubs : BOOLEAN, triage : BOOLEAN] /\ crossed \in BOOLEAN

\* parent_id refers to an issue that is there.
ParentsThere == \A i \in Issues : issue[i].parent # NoIssue => issue[issue[i].parent].live

\* What the trigger made sure of holds until the row is written, unless
\* another statement moved an issue meanwhile.
WriteFits(r) ==
  r.pc = "write" =>
    /\ r.todo # <<>> /\ Head(r.todo).do \in {"update", "status", "close"}
    /\ ~r.stale => ~ParentCycle(Head(r.todo).id, Head(r.todo).row.parent)

FamilyInv ==
  /\ TablesTyped /\ ParentsThere /\ NoParentLoop
  /\ writer \in [Writers -> WriterRows] /\ \A w \in Writers : WriteFits(writer[w])

PlanRows == [pc : {"idle", "check", "number", "insert", "next", "carry", "write", "done"}, id : Cycles \cup {NoCycle},
             row : CycleRows, next : Cycles \cup {NoCycle}, stale : BOOLEAN, disturbed : BOOLEAN]
PlanKnows(plan) ==
  /\ plan.pc \notin {"idle", "done"} => plan.id \in Cycles
  /\ plan.pc = "carry" => plan.next \in Cycles
PlanningInv == planner \in [Planners -> PlanRows] /\ rushed \in BOOLEAN /\ \A p \in Planners : PlanKnows(planner[p])

\* A delivery that found the issue holds a copy of it.
DeliveryRows == [pc : {"off", "lookup", "resolve", "store", "move"}, event : 0 .. MaxEvents, found : BOOLEAN, row : IssueRows]
DeliveryKnows(d) ==
  /\ d.pc # "off" => d.event \in 1 .. Len(sent)
  /\ d.found => d.row.live
  /\ d.pc = "move" => d.found
DeliveriesInv ==
  /\ GitHubTypeOK
  /\ \A w \in Writers : DeliveryKnows(delivery[w])

TrackerInv == FamilyInv /\ PlanningInv /\ DeliveriesInv

LEMMA RowEdits ==
  /\ NoRow \in IssueRows
  /\ \A row \in IssueRows, s \in Statuses :
       /\ InState(row, s) \in IssueRows /\ (InState(row, s).live <=> row.live) /\ InState(row, s).parent = row.parent
       /\ [row EXCEPT !.state = s] \in IssueRows /\ ([row EXCEPT !.state = s].live <=> row.live)
       /\ [row EXCEPT !.state = s].parent = row.parent
       /\ [row EXCEPT !.status = s] \in IssueRows /\ ([row EXCEPT !.status = s].live <=> row.live)
       /\ [row EXCEPT !.status = s].parent = row.parent
  /\ \A row \in IssueRows, p \in Issues \cup {NoIssue} :
       /\ [row EXCEPT !.parent = p] \in IssueRows /\ ([row EXCEPT !.parent = p].live <=> row.live)
       /\ [row EXCEPT !.parent = p].parent = p
  /\ \A row \in IssueRows, c \in Cycles \cup {NoCycle} :
       /\ [row EXCEPT !.cycle = c] \in IssueRows /\ ([row EXCEPT !.cycle = c].live <=> row.live)
       /\ [row EXCEPT !.cycle = c].parent = row.parent
  /\ \A row \in IssueRows :
       /\ [row EXCEPT !.triaged = TRUE] \in IssueRows /\ ([row EXCEPT !.triaged = TRUE].live <=> row.live)
       /\ [row EXCEPT !.triaged = TRUE].parent = row.parent
<1>1. NoRow \in IssueRows
  BY DEF NoRow, IssueRows, Statuses
<1>2. ASSUME NEW row \in IssueRows, NEW s \in Statuses
      PROVE  /\ InState(row, s) \in IssueRows /\ (InState(row, s).live <=> row.live) /\ InState(row, s).parent = row.parent
             /\ [row EXCEPT !.state = s] \in IssueRows /\ ([row EXCEPT !.state = s].live <=> row.live)
             /\ [row EXCEPT !.state = s].parent = row.parent
             /\ [row EXCEPT !.status = s] \in IssueRows /\ ([row EXCEPT !.status = s].live <=> row.live)
             /\ [row EXCEPT !.status = s].parent = row.parent
  BY DEF InState, IssueRows
<1>3. ASSUME NEW row \in IssueRows, NEW p \in Issues \cup {NoIssue}
      PROVE  /\ [row EXCEPT !.parent = p] \in IssueRows /\ ([row EXCEPT !.parent = p].live <=> row.live)
             /\ [row EXCEPT !.parent = p].parent = p
  BY DEF IssueRows
<1>4. ASSUME NEW row \in IssueRows, NEW c \in Cycles \cup {NoCycle}
      PROVE  /\ [row EXCEPT !.cycle = c] \in IssueRows /\ ([row EXCEPT !.cycle = c].live <=> row.live)
             /\ [row EXCEPT !.cycle = c].parent = row.parent
  BY DEF IssueRows
<1>5. ASSUME NEW row \in IssueRows
      PROVE  /\ [row EXCEPT !.triaged = TRUE] \in IssueRows /\ ([row EXCEPT !.triaged = TRUE].live <=> row.live)
             /\ [row EXCEPT !.triaged = TRUE].parent = row.parent
  BY DEF IssueRows
<1> QED
  BY <1>1, <1>2, <1>3, <1>4, <1>5

LEMMA LiveRow ==
  ASSUME NEW row \in IssueRows, NEW t \in BOOLEAN
  PROVE  /\ [row EXCEPT !.live = TRUE, !.triaged = t] \in IssueRows
         /\ [row EXCEPT !.live = TRUE, !.triaged = t].live /\ [row EXCEPT !.live = TRUE, !.triaged = t].parent = row.parent
  BY DEF IssueRows

LEMMA CreatedRow ==
  ASSUME NEW row \in IssueRows, NEW s \in Statuses
  PROVE  Created(row, s) \in IssueRows /\ Created(row, s).live /\ Created(row, s).parent = row.parent
<1>1. (~team.triage) \in BOOLEAN
  OBVIOUS
<1>2. PICK r : r = [row EXCEPT !.live = TRUE, !.triaged = ~team.triage]
  OBVIOUS
<1>3. r \in IssueRows /\ r.live /\ r.parent = row.parent
  <2>1. /\ [row EXCEPT !.live = TRUE, !.triaged = ~team.triage] \in IssueRows
        /\ [row EXCEPT !.live = TRUE, !.triaged = ~team.triage].live
        /\ [row EXCEPT !.live = TRUE, !.triaged = ~team.triage].parent = row.parent
    BY <1>1, LiveRow
  <2> QED
    BY <1>2, <2>1, Zenon
<1>4. Created(row, s) = InState(r, s)
  BY <1>2, Zenon DEF Created
<1>5. InState(r, s) \in IssueRows /\ InState(r, s).live /\ InState(r, s).parent = row.parent
  BY <1>3, RowEdits
<1> QED
  BY <1>4, <1>5, Zenon

LEMMA TaskFitsIn ==
  ASSUME NEW do \in {"fetch", "validate", "update", "status", "close", "apply", "parent", "count", "reload", "insert", "copies"},
         NEW i \in Issues \cup {NoIssue}, NEW row \in IssueRows, do # "insert" => i \in Issues,
         do \in {"update", "status", "close", "validate", "count", "apply", "insert"} => row.live,
         do = "validate" => row.parent \in Issues
  PROVE  Task(do, i, row) \in FitTasks
<1>1. PICK t : t = Task(do, i, row)
  OBVIOUS
<1>2. t \in Tasks /\ t.do = do /\ t.id = i /\ t.row = row
  BY <1>1 DEF Task, Tasks
<1> QED
  BY <1>1, <1>2 DEF FitTasks, TaskFits

LEMMA OneTask ==
  ASSUME NEW t \in FitTasks
  PROVE  <<t>> \in Seq(FitTasks)
  OBVIOUS

LEMMA NoTasks == <<>> \in Seq(FitTasks)
  BY EmptySeq, Zenon

LEMMA JobFits ==
  ASSUME FamilyInv, NEW w \in Writers, writer[w].todo # <<>>
  PROVE  /\ Job(w) \in FitTasks /\ Tail(writer[w].todo) \in Seq(FitTasks)
         /\ Job(w) \in Tasks /\ TaskFits(Job(w)) /\ Job(w).row \in IssueRows /\ Job(w).id \in Issues \cup {NoIssue}
<1>1. writer[w].todo \in Seq(FitTasks)
  BY DEF FamilyInv, WriterRows
<1>2. Job(w) \in FitTasks /\ Tail(writer[w].todo) \in Seq(FitTasks)
  BY <1>1, HeadTailProperties DEF Job
<1>3. Job(w) \in Tasks /\ TaskFits(Job(w))
  BY <1>2 DEF FitTasks
<1> QED
  BY <1>2, <1>3 DEF Tasks

-----------------------------------------------------------------------------
(* What requests do to themselves *)

LEMMA WriterMoves ==
  ASSUME FamilyInv, NEW w \in Writers, NEW self \in WriterRows, WriteFits(self), writer' = [writer EXCEPT ![w] = self],
         issue' = issue, cycle' = cycle, team' = team, crossed' = crossed
  PROVE  FamilyInv'
<1>1. TablesTyped' /\ ParentsThere'
  BY DEF FamilyInv, TablesTyped, ParentsThere
<1>2. \A i \in Issues : Above(i)' = Above(i)
  BY DEF Above
<1>3. NoParentLoop'
  BY <1>2 DEF FamilyInv, NoParentLoop
<1>4. writer' \in [Writers -> WriterRows]
  BY DEF FamilyInv
<1>5. \A r \in WriterRows : WriteFits(r) => WriteFits(r)'
  BY DEF WriteFits, ParentCycle, WouldCreateCycle, Above
<1>6. \A v \in Writers : writer'[v] = (IF v = w THEN self ELSE writer[v]) /\ writer[v] \in WriterRows
  BY DEF FamilyInv
<1>7. ASSUME NEW v \in Writers PROVE WriteFits(writer[v])'
  <2>1. PICK r \in WriterRows : r = writer'[v] /\ WriteFits(r)
    BY <1>6 DEF FamilyInv
  <2>2. WriteFits(r)'
    BY <1>5, <2>1
  <2> QED
    BY <2>1, <2>2 DEF WriteFits
<1> QED
  BY <1>1, <1>3, <1>4, <1>7 DEF FamilyInv

LEMMA FamilyRests ==
  ASSUME FamilyInv, UNCHANGED issues
  PROVE  FamilyInv'
  BY DEF FamilyInv, issues, TablesTyped, ParentsThere, NoParentLoop, Above, WriteFits, ParentCycle, WouldCreateCycle

LEMMA StartsKeeps ==
  ASSUME FamilyInv, NEW w \in Writers, NEW todo \in Seq(FitTasks), NEW roots \in SUBSET Issues, Starts(w, todo, roots)
  PROVE  FamilyInv'
<1>1. PICK self : self = [Idle EXCEPT !.pc = "run", !.todo = todo, !.roots = roots]
  OBVIOUS
<1>2. self \in WriterRows /\ self.pc = "run"
  BY <1>1 DEF Idle, WriterRows
<1>3. WriteFits(self)
  BY <1>2 DEF WriteFits
<1> QED
  BY <1>1, <1>2, <1>3, WriterMoves DEF Starts

LEMMA TodoEdit ==
  ASSUME NEW r \in WriterRows, NEW todo \in Seq(FitTasks)
  PROVE  [r EXCEPT !.todo = todo] \in WriterRows /\ [r EXCEPT !.todo = todo].pc = r.pc
  BY DEF WriterRows

LEMMA GoesKeeps ==
  ASSUME FamilyInv, NEW w \in Writers, writer[w].pc = "run", NEW todo \in Seq(FitTasks), Goes(w, todo)
  PROVE  FamilyInv'
<1>1. PICK self : self = [writer[w] EXCEPT !.todo = todo]
  OBVIOUS
<1>2. self \in WriterRows /\ self.pc = "run"
  BY <1>1, TodoEdit DEF FamilyInv
<1>3. WriteFits(self)
  BY <1>2 DEF WriteFits
<1>4. writer' = [writer EXCEPT ![w] = self]
  BY <1>1 DEF Goes
<1> QED
  BY <1>2, <1>3, <1>4, WriterMoves DEF Goes

LEMMA RefusedKeeps ==
  ASSUME FamilyInv, NEW w \in Writers, writer[w].pc = "run", Refused(w)
  PROVE  FamilyInv'
  BY GoesKeeps, NoTasks DEF Refused

LEMMA ContinuesKeeps ==
  ASSUME FamilyInv, NEW w \in Writers, writer[w].pc = "run", writer[w].todo # <<>>, NEW tasks \in Seq(FitTasks), Continues(w, tasks)
  PROVE  FamilyInv'
<1>1. tasks \o Tail(writer[w].todo) \in Seq(FitTasks)
  BY JobFits, ConcatProperties
<1> QED
  BY <1>1, GoesKeeps DEF Continues

-----------------------------------------------------------------------------
(* What requests write *)

LEMMA AboveAncestors ==
  ASSUME NEW i \in Issues
  PROVE  Above(i) = Ancestors(issue, i) /\ Above(i)' = Ancestors(issue', i)
  BY DEF Above, Ancestors

FamilyThere(rows) == \A i \in Issues : rows[i].parent # NoIssue => rows[rows[i].parent].live
NobodyMoved(rows) == \A i \in Issues : rows[i].parent \in {issue[i].parent, NoIssue}

LEMMA Committed ==
  ASSUME FamilyInv, NEW w, NEW self, w \in Writers => self \in WriterRows /\ self.pc # "write",
         NEW rows \in IssueTables, Commits(w, rows, self), FamilyThere(rows), cycle' \in [Cycles -> CycleRows], team' = team,
         crossed' \in BOOLEAN, ~crossed' => Loopless(rows)
  PROVE  FamilyInv'
<1>1. issue' = rows
  BY DEF Commits
<1>2. PICK moved : /\ moved = \E i \in Issues : rows[i].parent \notin {issue[i].parent, NoIssue}
                   /\ writer' = [v \in Writers |-> IF v = w THEN self
                        ELSE [writer[v] EXCEPT !.stale = (@ \/ (moved /\ writer[v].pc = "write")),
                                               !.disturbed = (@ \/ writer[v].pc \in {"run", "write"})]]
  BY DEF Commits
<1>3. ASSUME NEW v \in Writers, v # w
      PROVE  /\ writer'[v] \in WriterRows /\ writer'[v].pc = writer[v].pc /\ writer'[v].todo = writer[v].todo
             /\ ~writer'[v].stale => ~writer[v].stale /\ (writer[v].pc = "write" => ~moved)
  <2>1. writer'[v] = [writer[v] EXCEPT !.stale = (@ \/ (moved /\ writer[v].pc = "write")),
                                       !.disturbed = (@ \/ writer[v].pc \in {"run", "write"})]
    BY <1>2, <1>3
  <2>2. writer[v] \in WriterRows
    BY DEF FamilyInv
  <2> QED
    BY <2>1, <2>2 DEF WriterRows
<1>4. writer' \in [Writers -> WriterRows]
  BY <1>2, <1>3
<1>5. TablesTyped' /\ ParentsThere'
  BY <1>1 DEF FamilyInv, TablesTyped, ParentsThere, FamilyThere, IssueTables
<1>6. NoParentLoop'
  BY <1>1, AboveAncestors DEF NoParentLoop, Loopless
<1>7. ASSUME NEW v \in Writers PROVE WriteFits(writer[v])'
  <2>1. SUFFICES ASSUME writer'[v].pc = "write"
                 PROVE  /\ writer'[v].todo # <<>> /\ Head(writer'[v].todo).do \in {"update", "status", "close"}
                        /\ ~writer'[v].stale => ~ParentCycle(Head(writer[v].todo).id, Head(writer[v].todo).row.parent)'
    BY DEF WriteFits
  <2>2. v # w /\ writer[v].pc = "write" /\ WriteFits(writer[v]) /\ writer'[v].todo = writer[v].todo
    <3>1. v # w
      BY <1>2, <2>1
    <3> QED
      BY <1>3, <2>1, <3>1 DEF FamilyInv
  <2>3. ASSUME ~writer'[v].stale
        PROVE  ~ParentCycle(Head(writer[v].todo).id, Head(writer[v].todo).row.parent)'
    <3>1. ~ParentCycle(Job(v).id, Job(v).row.parent) /\ ~moved
      BY <1>3, <2>2, <2>3 DEF WriteFits, Job
    <3>2. NobodyMoved(rows)
      BY <1>2, <3>1 DEF NobodyMoved
    <3>3. /\ Job(v).id \in Issues
          /\ Job(v).row.parent \in Issues \cup {NoIssue}
      BY <2>2, JobFits DEF WriteFits, TaskFits, Job, IssueRows
    <3>4. PICK id \in Issues, p \in Issues \cup {NoIssue} : id = Job(v).id /\ p = Job(v).row.parent
      BY <3>3
    <3>5. p # NoIssue => id # p /\ id \notin Above(p)'
      <4> SUFFICES ASSUME p # NoIssue PROVE id # p /\ id \notin Above(p)'
        OBVIOUS
      <4>1. issue \in IssueTables
        BY DEF FamilyInv, TablesTyped, IssueTables
      <4>2. Ancestors(rows, p) \subseteq Ancestors(issue, p)
        BY <3>2, <4>1, FewerAncestors DEF NobodyMoved
      <4>3. id # p /\ id \notin Above(p)
        BY <3>1, <3>4 DEF ParentCycle, WouldCreateCycle
      <4> QED
        BY <1>1, <4>2, <4>3, AboveAncestors
    <3> QED
      BY <2>2, <3>4, <3>5 DEF ParentCycle, WouldCreateCycle, Job
  <2> QED
    BY <2>2, <2>3 DEF WriteFits, Job
<1> QED
  BY <1>4, <1>5, <1>6, <1>7 DEF FamilyInv

\* A statement that gives no issue a new parent.
LEMMA CommittedInPlace ==
  ASSUME FamilyInv, NEW w, NEW self, w \in Writers => self \in WriterRows /\ self.pc # "write",
         NEW rows \in IssueTables, Commits(w, rows, self), FamilyThere(rows), NobodyMoved(rows),
         cycle' \in [Cycles -> CycleRows], team' = team, crossed' = crossed
  PROVE  FamilyInv'
<1>1. ~crossed => Loopless(issue)
  BY AboveAncestors DEF FamilyInv, NoParentLoop, Loopless
<1>2. issue \in IssueTables
  BY DEF FamilyInv, TablesTyped, IssueTables
<1>3. ~crossed => Loopless(rows)
  BY <1>1, <1>2, FewerAncestors DEF NobodyMoved, Loopless
<1>4. crossed' \in BOOLEAN
  BY DEF FamilyInv, TablesTyped
<1> QED
  BY <1>3, <1>4, Committed

-----------------------------------------------------------------------------
(* Requests on issues *)

LEMMA ListNames ==
  ASSUME NEW ids \in Lists
  PROVE  ids \in Seq(Issues) /\ Len(ids) = 2 /\ ToSet(ids) \in SUBSET Issues /\ \A k \in 1 .. Len(ids) : ids[k] \in Issues
<1>1. PICK i \in Issues, j \in Issues : ids = <<i, j>>
  BY DEF Lists
<1>2. ids \in Seq(Issues) /\ Len(ids) = 2 /\ ids[1] = i /\ ids[2] = j /\ DOMAIN ids = 1 .. 2
  BY <1>1
<1>3. ToSet(ids) \in SUBSET Issues
  BY <1>2 DEF ToSet
<1> QED
  BY <1>2, <1>3

LEMMA RowsOf ==
  ASSUME FamilyInv, NEW i \in Issues
  PROVE  issue[i] \in IssueRows /\ issue[i].parent \in Issues \cup {NoIssue} /\ issue[i].cycle \in Cycles \cup {NoCycle}
         /\ issue[i].state \in Statuses
  BY DEF FamilyInv, TablesTyped, IssueRows

LEMMA GivenStatuses == Given \subseteq Statuses
  BY GivenAssumption

\* A request with one task.
LEMMA StartsOne ==
  ASSUME FamilyInv, NEW w \in Writers, NEW do \in {"update", "status", "validate", "insert"}, NEW i \in Issues \cup {NoIssue},
         NEW row \in IssueRows, row.live, do # "insert" => i \in Issues, do = "validate" => row.parent \in Issues,
         NEW roots \in SUBSET Issues, Starts(w, <<Task(do, i, row)>>, roots)
  PROVE  FamilyInv'
<1>1. Task(do, i, row) \in FitTasks
  BY TaskFitsIn
<1>2. <<Task(do, i, row)>> \in Seq(FitTasks)
  BY <1>1, OneTask
<1> QED
  BY <1>2, StartsKeeps

LEMMA EditIssueKeeps ==
  ASSUME FamilyInv, NEW w \in Writers, NEW i \in Issues, EditIssue(w, i)
  PROVE  FamilyInv'
<1>1. issue[i] \in IssueRows /\ issue[i].live
  BY RowsOf DEF EditIssue
<1>2. CASE Starts(w, <<Task("update", i, issue[i])>>, {})
  BY <1>1, <1>2, StartsOne
<1>3. ASSUME NEW s \in Given, Starts(w, <<Task("status", i, InState(issue[i], s))>>, {i}) PROVE FamilyInv'
  <2>1. InState(issue[i], s) \in IssueRows /\ InState(issue[i], s).live
    BY <1>1, <1>3, GivenStatuses, RowEdits
  <2> QED
    BY <1>3, <2>1, StartsOne
<1>4. ASSUME NEW c \in Cycles \cup {NoCycle}, Starts(w, <<Task("update", i, [issue[i] EXCEPT !.cycle = c])>>, {}) PROVE FamilyInv'
  <2>1. PICK row : row = [issue[i] EXCEPT !.cycle = c]
    OBVIOUS
  <2>2. row \in IssueRows /\ row.live
    BY <1>1, <2>1, RowEdits
  <2>3. Starts(w, <<Task("update", i, row)>>, {})
    BY <1>4, <2>1
  <2> QED
    BY <2>2, <2>3, StartsOne
<1>5. CASE Starts(w, <<Task("update", i, [issue[i] EXCEPT !.parent = NoIssue])>>, {})
  <2>1. PICK row : row = [issue[i] EXCEPT !.parent = NoIssue]
    OBVIOUS
  <2>2. row \in IssueRows /\ row.live
    BY <1>1, <2>1, RowEdits
  <2>3. Starts(w, <<Task("update", i, row)>>, {})
    BY <1>5, <2>1
  <2> QED
    BY <2>2, <2>3, StartsOne
<1>6. ASSUME NEW p \in Issues, Starts(w, <<Task("validate", i, [issue[i] EXCEPT !.parent = p])>>, {}) PROVE FamilyInv'
  <2>1. PICK row : row = [issue[i] EXCEPT !.parent = p]
    OBVIOUS
  <2>2. row \in IssueRows /\ row.live /\ row.parent \in Issues
    BY <1>1, <2>1, RowEdits
  <2>3. Starts(w, <<Task("validate", i, row)>>, {})
    BY <1>6, <2>1
  <2> QED
    BY <2>2, <2>3, StartsOne
<1> QED
  BY <1>2, <1>3, <1>4, <1>5, <1>6 DEF EditIssue

LEMMA TriageKeeps ==
  ASSUME FamilyInv, NEW w \in Writers, NEW i \in Issues, NEW accept \in BOOLEAN, Triage(w, i, accept)
  PROVE  FamilyInv'
<1>1. issue[i] \in IssueRows /\ issue[i].live
  BY RowsOf DEF Triage
<1>2. PICK row : row = [issue[i] EXCEPT !.triaged = TRUE]
  OBVIOUS
<1>3. row \in IssueRows /\ row.live
  BY <1>1, <1>2, RowEdits
<1>4. CASE Starts(w, <<Task("update", i, row)>>, {})
  BY <1>3, <1>4, StartsOne
<1>5. CASE Starts(w, <<Task("status", i, InState(row, "cancelled"))>>, {i})
  <2>1. InState(row, "cancelled") \in IssueRows /\ InState(row, "cancelled").live
    BY <1>3, RowEdits DEF Statuses
  <2> QED
    BY <1>5, <2>1, StartsOne
<1> QED
  BY <1>2, <1>4, <1>5 DEF Triage

LEMMA CreateIssueKeeps ==
  ASSUME FamilyInv, NEW w \in Writers, NEW p \in Issues \cup {NoIssue}, NEW s \in Statuses, NEW c \in Cycles \cup {NoCycle},
         CreateIssue(w, p, s, c)
  PROVE  FamilyInv'
<1>1. PICK half \in IssueRows : half = [NoRow EXCEPT !.parent = p]
  BY RowEdits
<1>2. PICK row \in IssueRows : row = [half EXCEPT !.cycle = c]
  BY <1>1, RowEdits
<1>3. row = [NoRow EXCEPT !.parent = p, !.cycle = c]
  BY <1>1, <1>2, RowEdits DEF IssueRows
<1>4. Created(row, s) \in IssueRows /\ Created(row, s).live
  BY CreatedRow
<1> QED
  BY <1>3, <1>4, StartsOne DEF CreateIssue

LEMMA DuplicateIssueKeeps ==
  ASSUME FamilyInv, NEW w \in Writers, NEW i \in Issues, NEW withSubs \in BOOLEAN, DuplicateIssue(w, i, withSubs)
  PROVE  FamilyInv'
<1>1. issue[i] \in IssueRows /\ issue[i].state \in Statuses
  BY RowsOf
<1>2. PICK row \in IssueRows : row = [issue[i] EXCEPT !.parent = NoIssue]
  BY <1>1, RowEdits
<1>3. Created(row, issue[i].state) \in IssueRows /\ Created(row, issue[i].state).live
  BY <1>1, CreatedRow
<1>4. PICK j \in Issues \cup {NoIssue} : j = IF withSubs THEN i ELSE NoIssue
  OBVIOUS
<1> QED
  BY <1>2, <1>3, <1>4, StartsOne DEF DuplicateIssue

LEMMA SubIssues ==
  ASSUME NEW i
  PROVE  /\ IsFiniteSet(Children(i)) /\ Children(i) \subseteq Issues /\ Cardinality(Children(i)) \in Nat
         /\ SetToSeq(Children(i)) \in [1 .. Cardinality(Children(i)) -> Children(i)]
<1>1. Children(i) \subseteq Issues
  BY DEF Children
<1>2. IsFiniteSet(Children(i))
  BY <1>1, IssuesAssumption, FS_Subset
<1> QED
  BY <1>1, <1>2, MembersInOrder

LEMMA ConvertToProjectKeeps ==
  ASSUME FamilyInv, NEW w \in Writers, NEW i \in Issues, ConvertToProject(w, i)
  PROVE  FamilyInv'
<1> DEFINE move(j) == Task("update", j, [issue[j] EXCEPT !.parent = NoIssue])
           subs == [k \in 1 .. Cardinality(Children(i)) |-> move(SetToSeq(Children(i))[k])]
<1>1. ASSUME NEW j \in Issues, issue[j].live PROVE move(j) \in FitTasks
  <2>1. [issue[j] EXCEPT !.parent = NoIssue] \in IssueRows /\ [issue[j] EXCEPT !.parent = NoIssue].live
    BY <1>1, RowsOf, RowEdits
  <2> QED
    BY <2>1, TaskFitsIn
<1>2. issue[i].live /\ Starts(w, <<move(i)>> \o subs, {})
  BY DEF ConvertToProject
<1>3. \A j \in Children(i) : j \in Issues /\ issue[j].live
  BY DEF Children
<1> HIDE DEF move
<1>4. \A k \in 1 .. Cardinality(Children(i)) : move(SetToSeq(Children(i))[k]) \in FitTasks
  BY <1>1, <1>3, SubIssues
<1>5. subs \in Seq(FitTasks)
  BY <1>4, SubIssues
<1>6. <<move(i)>> \in Seq(FitTasks)
  BY <1>1, <1>2, OneTask
<1> HIDE DEF subs
<1>7. <<move(i)>> \o subs \in Seq(FitTasks)
  BY <1>5, <1>6, ConcatProperties
<1>8. {} \in SUBSET Issues
  OBVIOUS
<1> QED
  BY <1>2, <1>7, <1>8, StartsKeeps

LEMMA BulkUpdateKeeps ==
  ASSUME FamilyInv, NEW w \in Writers, NEW ids \in Lists, NEW s \in Statuses, NEW byId \in BOOLEAN, BulkUpdate(w, ids, s, byId)
  PROVE  FamilyInv'
<1> DEFINE rows == [i \in Issues |-> IF i \in ToSet(ids) /\ issue[i].live THEN NamedColumn(issue[i], s, byId) ELSE issue[i]]
           todo == [k \in 1 .. Len(ids) |-> Task("reload", ids[k], NoRow)]
           self == [Idle EXCEPT !.pc = "run", !.roots = ToSet(ids), !.todo = todo]
<1>1. Commits(w, rows, self) /\ cycle' = cycle /\ team' = team /\ crossed' = crossed
  BY DEF BulkUpdate
<1>2. ASSUME NEW i \in Issues
      PROVE  /\ NamedColumn(issue[i], s, byId) \in IssueRows /\ (NamedColumn(issue[i], s, byId).live <=> issue[i].live)
             /\ NamedColumn(issue[i], s, byId).parent = issue[i].parent
  BY RowsOf, RowEdits DEF NamedColumn
<1>3. rows \in IssueTables /\ \A i \in Issues : (rows[i].live <=> issue[i].live) /\ rows[i].parent = issue[i].parent
  <2>1. ASSUME NEW i \in Issues
        PROVE  rows[i] \in IssueRows /\ (rows[i].live <=> issue[i].live) /\ rows[i].parent = issue[i].parent
    BY <1>2, RowsOf
  <2> QED
    BY <2>1 DEF IssueTables
<1>4. FamilyThere(rows) /\ NobodyMoved(rows)
  <2> HIDE DEF rows
  <2> QED
    BY <1>3, RowsOf DEF FamilyInv, ParentsThere, FamilyThere, NobodyMoved
<1>5. self \in WriterRows /\ self.pc # "write"
  <2>1. \A k \in 1 .. Len(ids) : Task("reload", ids[k], NoRow) \in FitTasks
    BY ListNames, RowEdits, TaskFitsIn
  <2>2. todo \in Seq(FitTasks)
    BY <2>1, ListNames
  <2> HIDE DEF todo
  <2> QED
    BY <2>2, ListNames DEF Idle, WriterRows
<1>6. cycle' \in [Cycles -> CycleRows]
  BY <1>1 DEF FamilyInv, TablesTyped
<1> HIDE DEF rows, self
<1> QED
  BY <1>1, <1>3, <1>4, <1>5, <1>6, CommittedInPlace

LEMMA BulkUpdateParentKeeps ==
  ASSUME FamilyInv, NEW w \in Writers, NEW ids \in Lists, NEW p \in Issues \cup {NoIssue}, BulkUpdateParent(w, ids, p)
  PROVE  FamilyInv'
<1>1. PICK row : row = [NoRow EXCEPT !.parent = p]
  OBVIOUS
<1>2. row \in IssueRows
  BY <1>1, RowEdits
<1> DEFINE todo == [k \in 1 .. Len(ids) |-> Task("fetch", ids[k], row)]
<1>3. \A k \in 1 .. Len(ids) : Task("fetch", ids[k], row) \in FitTasks
  BY <1>2, ListNames, TaskFitsIn
<1>4. todo \in Seq(FitTasks)
  BY <1>3, ListNames
<1>5. Starts(w, todo, {})
  BY <1>1 DEF BulkUpdateParent
<1> HIDE DEF todo
<1>6. {} \in SUBSET Issues
  OBVIOUS
<1> QED
  BY <1>4, <1>5, <1>6, StartsKeeps

LEMMA DeleteIssuesKeeps ==
  ASSUME FamilyInv, NEW w, NEW I \in SUBSET Issues, DeleteIssues(w, I)
  PROVE  FamilyInv'
<1> DEFINE rows == [i \in Issues |-> IF i \in I THEN NoRow
                                     ELSE IF issue[i].parent \in I THEN [issue[i] EXCEPT !.parent = NoIssue]
                                     ELSE issue[i]]
           self == [Idle EXCEPT !.pc = "done"]
<1>1. Commits(w, rows, self) /\ cycle' = cycle /\ team' = team /\ crossed' = crossed
  BY DEF DeleteIssues
<1>2. ASSUME NEW i \in Issues
      PROVE  /\ [issue[i] EXCEPT !.parent = NoIssue] \in IssueRows
             /\ [issue[i] EXCEPT !.parent = NoIssue].live <=> issue[i].live
             /\ [issue[i] EXCEPT !.parent = NoIssue].parent = NoIssue
  BY RowsOf, RowEdits
<1>3. NoRow \in IssueRows /\ NoRow.parent = NoIssue
  BY RowEdits DEF NoRow
<1>4. ASSUME NEW i \in Issues
      PROVE  /\ rows[i] \in IssueRows /\ rows[i].parent \in {issue[i].parent, NoIssue}
             /\ i \notin I => (rows[i].live <=> issue[i].live)
             /\ rows[i].parent # NoIssue => rows[i].parent = issue[i].parent /\ rows[i].parent \notin I
  <2> HIDE DEF NoRow
  <2> QED
    BY <1>2, <1>3, RowsOf
<1>5. rows \in IssueTables
  BY <1>4 DEF IssueTables
<1> HIDE DEF rows
<1>6. FamilyThere(rows) /\ NobodyMoved(rows)
  BY <1>4, RowsOf DEF FamilyInv, ParentsThere, FamilyThere, NobodyMoved
<1>7. self \in WriterRows /\ self.pc # "write"
  BY NoTasks DEF Idle, WriterRows
<1>8. cycle' \in [Cycles -> CycleRows]
  BY <1>1 DEF FamilyInv, TablesTyped
<1> HIDE DEF self
<1> QED
  BY <1>1, <1>5, <1>6, <1>7, <1>8, CommittedInPlace

LEMMA IssueRequestKeeps ==
  ASSUME FamilyInv, NEW w \in Writers, NEW kinds, IssueRequest(w, kinds)
  PROVE  FamilyInv'
<1>1. CASE \E i \in Issues : EditIssue(w, i) \/ \E b \in BOOLEAN : Triage(w, i, b) \/ DuplicateIssue(w, i, b)
  BY <1>1, EditIssueKeeps, TriageKeeps, DuplicateIssueKeeps
<1>2. CASE \E p \in Issues \cup {NoIssue}, s \in Given : CreateIssue(w, p, s, NoCycle)
  BY <1>2, CreateIssueKeeps, GivenStatuses
<1>3. CASE \E ids \in Lists, s \in Given, b \in BOOLEAN : BulkUpdate(w, ids, s, b)
  BY <1>3, BulkUpdateKeeps, GivenStatuses
<1>4. CASE \E ids \in Lists, p \in Issues \cup {NoIssue} : BulkUpdateParent(w, ids, p)
  BY <1>4, BulkUpdateParentKeeps
<1>5. CASE \E i \in Issues : ConvertToProject(w, i)
  BY <1>5, ConvertToProjectKeeps
<1>6. CASE \E I \in {ToSet(ids) : ids \in Lists} \cup {{i} : i \in Issues} : DeleteIssues(w, I)
  <2>1. {ToSet(ids) : ids \in Lists} \cup {{i} : i \in Issues} \subseteq SUBSET Issues
    BY ListNames
  <2> QED
    BY <1>6, <2>1, DeleteIssuesKeeps
<1> QED
  BY <1>1, <1>2, <1>3, <1>4, <1>5, <1>6 DEF IssueRequest

-----------------------------------------------------------------------------
(* The work of a request *)

LEMMA DoingJob ==
  ASSUME FamilyInv, NEW w \in Writers, NEW do, Doing(w, do)
  PROVE  /\ writer[w].pc = "run" /\ writer[w].todo # <<>> /\ Job(w).do = do /\ writer[w] \in WriterRows
         /\ Job(w) \in FitTasks /\ Tail(writer[w].todo) \in Seq(FitTasks) /\ TaskFits(Job(w)) /\ Job(w).row \in IssueRows
         /\ Job(w).row.parent \in Issues \cup {NoIssue} /\ Job(w).id \in Issues \cup {NoIssue}
         /\ do # "insert" => Job(w).id \in Issues
<1>1. writer[w].pc = "run" /\ writer[w].todo # <<>> /\ Job(w).do = do /\ writer[w] \in WriterRows
  BY DEF Doing, Job, FamilyInv
<1>2. /\ Job(w) \in FitTasks /\ Tail(writer[w].todo) \in Seq(FitTasks) /\ TaskFits(Job(w)) /\ Job(w).row \in IssueRows
      /\ Job(w).id \in Issues \cup {NoIssue}
  BY <1>1, JobFits
<1>3. Job(w).row.parent \in Issues \cup {NoIssue}
  BY <1>2 DEF IssueRows
<1>4. do # "insert" => Job(w).id \in Issues
  BY <1>1, <1>2 DEF TaskFits
<1> QED
  BY <1>1, <1>2, <1>3, <1>4

LEMMA FetchIssueKeeps ==
  ASSUME FamilyInv, NEW w \in Writers, FetchIssue(w)
  PROVE  FamilyInv'
<1>1. Doing(w, "fetch")
  BY DEF FetchIssue
<1>2. /\ writer[w].pc = "run" /\ writer[w].todo # <<>> /\ Job(w).id \in Issues /\ Job(w).row.parent \in Issues \cup {NoIssue}
      /\ Tail(writer[w].todo) \in Seq(FitTasks)
  BY <1>1, DoingJob
<1>3. PICK row : row = [issue[Job(w).id] EXCEPT !.parent = Job(w).row.parent]
  OBVIOUS
<1>4. row \in IssueRows /\ row.parent = Job(w).row.parent /\ (row.live <=> issue[Job(w).id].live)
  BY <1>2, <1>3, RowsOf, RowEdits
<1>5. CASE Refused(w)
  BY <1>2, <1>5, RefusedKeeps
<1>6. CASE issue[Job(w).id].live /\ Goes(w, Append(Tail(writer[w].todo), Task("update", Job(w).id, row)))
  <2>1. Task("update", Job(w).id, row) \in FitTasks
    BY <1>2, <1>4, <1>6, TaskFitsIn
  <2>2. Append(Tail(writer[w].todo), Task("update", Job(w).id, row)) \in Seq(FitTasks)
    BY <1>2, <2>1, AppendProperties
  <2> QED
    BY <1>2, <1>6, <2>2, GoesKeeps
<1>7. CASE issue[Job(w).id].live /\ Job(w).row.parent # NoIssue /\ Continues(w, <<Task("validate", Job(w).id, row)>>)
  <2>1. Task("validate", Job(w).id, row) \in FitTasks
    BY <1>2, <1>4, <1>7, TaskFitsIn
  <2>2. <<Task("validate", Job(w).id, row)>> \in Seq(FitTasks)
    BY <2>1, OneTask
  <2> QED
    BY <1>2, <1>7, <2>2, ContinuesKeeps
<1> QED
  BY <1>3, <1>5, <1>6, <1>7 DEF FetchIssue

LEMMA ValidateParentKeeps ==
  ASSUME FamilyInv, NEW w \in Writers, ValidateParent(w)
  PROVE  FamilyInv'
<1>1. Doing(w, "validate")
  BY DEF ValidateParent
<1>2. /\ writer[w].pc = "run" /\ Job(w).id \in Issues /\ Job(w).row \in IssueRows /\ Job(w).row.live
      /\ Tail(writer[w].todo) \in Seq(FitTasks)
  BY <1>1, DoingJob DEF TaskFits
<1>3. CASE Refused(w)
  BY <1>2, <1>3, RefusedKeeps
<1>4. CASE Goes(w, Append(Tail(writer[w].todo), Task("update", Job(w).id, Job(w).row)))
  <2>1. Task("update", Job(w).id, Job(w).row) \in FitTasks
    BY <1>2, TaskFitsIn
  <2>2. Append(Tail(writer[w].todo), Task("update", Job(w).id, Job(w).row)) \in Seq(FitTasks)
    BY <1>2, <2>1, AppendProperties
  <2> QED
    BY <1>2, <1>4, <2>2, GoesKeeps
<1> QED
  BY <1>3, <1>4 DEF ValidateParent

LEMMA UpdateBeginsKeeps ==
  ASSUME FamilyInv, NEW w \in Writers, UpdateBegins(w)
  PROVE  FamilyInv'
<1>1. PICK do \in {"update", "status", "close"} : Doing(w, do)
  BY DEF UpdateBegins
<1>2. writer[w].pc = "run" /\ writer[w].todo # <<>> /\ Job(w).do = do /\ writer[w] \in WriterRows
  BY <1>1, DoingJob
<1>3. CASE /\ ~ParentCycle(Job(w).id, Job(w).row.parent)
           /\ writer' = [writer EXCEPT ![w].pc = "write", ![w].stale = FALSE] /\ UNCHANGED <<issue, cycle, team, crossed>>
  <2>1. PICK self : self = [writer[w] EXCEPT !.pc = "write", !.stale = FALSE]
    OBVIOUS
  <2>2. self \in WriterRows /\ self.pc = "write" /\ self.todo = writer[w].todo
    BY <1>2, <2>1 DEF WriterRows
  <2>3. WriteFits(self)
    BY <1>1, <1>2, <1>3, <2>2 DEF WriteFits, Job
  <2>4. writer' = [writer EXCEPT ![w] = self]
    BY <1>3, <2>1
  <2> QED
    BY <1>3, <2>2, <2>3, <2>4, WriterMoves
<1>4. CASE Continues(w, <<>>)
  BY <1>2, <1>4, ContinuesKeeps, NoTasks
<1>5. CASE Refused(w)
  BY <1>2, <1>5, RefusedKeeps
<1> QED
  BY <1>3, <1>4, <1>5 DEF UpdateBegins

LEMMA RunsOn ==
  ASSUME NEW r \in WriterRows, NEW todo \in Seq(FitTasks)
  PROVE  /\ [r EXCEPT !.pc = "run", !.stale = FALSE, !.todo = todo] \in WriterRows
         /\ [r EXCEPT !.pc = "run", !.stale = FALSE, !.todo = todo].pc = "run"
  BY DEF WriterRows

LEMMA UpdateCommitsKeeps ==
  ASSUME FamilyInv, NEW w \in Writers, UpdateCommits(w)
  PROVE  FamilyInv'
<1> DEFINE t == Job(w)
           back(todo) == [writer[w] EXCEPT !.pc = "run", !.stale = FALSE, !.todo = todo]
           next == IF t.do = "update" THEN <<>> ELSE <<Task("apply", t.id, t.row)>>
           rows == [issue EXCEPT ![t.id] = t.row]
<1>1. WriteFits(writer[w]) /\ writer[w].pc = "write" /\ writer[w] \in WriterRows
  BY DEF UpdateCommits, FamilyInv
<1>2. /\ writer[w].todo # <<>> /\ t.do \in {"update", "status", "close"}
      /\ ~writer[w].stale => ~ParentCycle(t.id, t.row.parent)
  BY <1>1 DEF WriteFits, Job
<1>3. /\ TaskFits(t) /\ t.row \in IssueRows /\ Tail(writer[w].todo) \in Seq(FitTasks)
  BY <1>2, JobFits
<1>4. t.id \in Issues /\ t.row.live /\ t.row.parent \in Issues \cup {NoIssue}
  BY <1>2, <1>3 DEF TaskFits, IssueRows
<1>5. CASE /\ Refers(t.row) /\ Commits(w, rows, back(next \o Tail(writer[w].todo))) /\ cycle' = cycle /\ team' = team
           /\ crossed' = (crossed \/ (writer[w].stale /\ t.row.parent # NoIssue))
  <2>1. back(next \o Tail(writer[w].todo)) \in WriterRows /\ back(next \o Tail(writer[w].todo)).pc = "run"
    <3>1. Task("apply", t.id, t.row) \in FitTasks
      BY <1>3, <1>4, TaskFitsIn
    <3>2. next \in Seq(FitTasks)
      BY <3>1, OneTask, NoTasks
    <3> HIDE DEF next, t
    <3>3. next \o Tail(writer[w].todo) \in Seq(FitTasks)
      BY <1>3, <3>2, ConcatProperties
    <3> QED
      BY <1>1, <3>3, RunsOn
  <2>2. rows \in IssueTables /\ \A i \in Issues : rows[i] = IF i = t.id THEN t.row ELSE issue[i]
    <3> HIDE DEF t
    <3> QED
      BY <1>3, <1>4 DEF FamilyInv, TablesTyped, IssueTables
  <2>3. t.row.parent # NoIssue => issue[t.row.parent].live
    BY <1>5 DEF Refers
  <2>4. PICK id \in Issues, row \in IssueRows, p \in Issues \cup {NoIssue} : id = t.id /\ row = t.row /\ p = t.row.parent
    BY <1>3, <1>4
  <2> HIDE DEF rows, back, next, t
  <2>5. FamilyThere(rows)
    <3>1. \A i \in Issues : i # id => rows[i] = issue[i]
      BY <2>2, <2>4
    <3>2. rows[id].parent = p /\ rows[id].live /\ (p # NoIssue => issue[p].live)
      BY <1>4, <2>2, <2>3, <2>4
    <3> QED
      BY <3>1, <3>2, RowsOf DEF FamilyThere, FamilyInv, ParentsThere
  <2>6. crossed' \in BOOLEAN
    BY <1>5
  <2>7. ASSUME ~crossed' PROVE Loopless(rows)
    <3>1. ~crossed /\ (p # NoIssue => ~writer[w].stale)
      BY <1>5, <2>4, <2>7
    <3>2. Loopless(issue) /\ issue \in IssueTables
      BY <3>1, AboveAncestors DEF FamilyInv, NoParentLoop, Loopless, TablesTyped, IssueTables
    <3>3. CASE p = NoIssue
      <4>1. \A k \in Issues : rows[k].parent \in {issue[k].parent, NoIssue}
        BY <2>2, <2>4, <3>3
      <4> QED
        BY <2>2, <3>2, <4>1, FewerAncestors DEF Loopless
    <3>4. CASE p # NoIssue
      <4>1. id # p /\ id \notin Ancestors(issue, p)
        BY <1>2, <2>4, <3>1, <3>4, AboveAncestors DEF ParentCycle, WouldCreateCycle
      <4>2. rows[id].parent = p /\ \A k \in Issues \ {id} : rows[k].parent \in {issue[k].parent, NoIssue}
        BY <2>2, <2>4
      <4> QED
        BY <2>2, <3>2, <3>4, <4>1, <4>2, NewParent
    <3> QED
      BY <3>3, <3>4
  <2>8. cycle' \in [Cycles -> CycleRows]
    BY <1>5 DEF FamilyInv, TablesTyped
  <2>9. back(next \o Tail(writer[w].todo)).pc # "write"
    BY <2>1
  <2> QED
    BY <1>5, <2>1, <2>2, <2>5, <2>6, <2>7, <2>8, <2>9, Committed
<1>6. CASE /\ writer' = [writer EXCEPT ![w] = back(IF t.do = "close" THEN Tail(@.todo) ELSE <<>>)]
           /\ UNCHANGED <<issue, cycle, team, crossed>>
  <2> DEFINE todo == IF t.do = "close" THEN Tail(writer[w].todo) ELSE <<>>
  <2>1. todo \in Seq(FitTasks)
    BY <1>3, NoTasks
  <2>2. writer' = [writer EXCEPT ![w] = back(todo)]
    BY <1>6 DEF FamilyInv
  <2> HIDE DEF todo
  <2>3. back(todo) \in WriterRows /\ back(todo).pc = "run"
    BY <1>1, <2>1, RunsOn
  <2> HIDE DEF back
  <2>4. WriteFits(back(todo))
    BY <2>3 DEF WriteFits
  <2> QED
    BY <1>6, <2>2, <2>3, <2>4, WriterMoves
<1> QED
  BY <1>5, <1>6 DEF UpdateCommits, Job

LEMMA InsertIssueKeeps ==
  ASSUME FamilyInv, NEW w \in Writers, InsertIssue(w)
  PROVE  FamilyInv'
<1> DEFINE t == Job(w)
<1>1. Doing(w, "insert")
  BY DEF InsertIssue
<1>2. /\ writer[w].pc = "run" /\ writer[w] \in WriterRows /\ t.row \in IssueRows /\ t.id \in Issues \cup {NoIssue}
      /\ t.row.live /\ t.row.parent \in Issues \cup {NoIssue} /\ Tail(writer[w].todo) \in Seq(FitTasks)
  BY <1>1, DoingJob DEF TaskFits
<1>3. CASE Refused(w)
  BY <1>2, <1>3, RefusedKeeps
<1>4. ASSUME Refers(t.row), NEW i \in Issues, ~issue[i].live, cycle' = cycle, team' = team, crossed' = crossed,
             Commits(w, [issue EXCEPT ![i] = t.row],
               [writer[w] EXCEPT !.todo = (IF t.id = NoIssue THEN <<>> ELSE <<Task("copies", t.id, [NoRow EXCEPT !.parent = i])>>)
                                          \o Tail(@)])
      PROVE  FamilyInv'
  <2> DEFINE first == IF t.id = NoIssue THEN <<>> ELSE <<Task("copies", t.id, [NoRow EXCEPT !.parent = i])>>
             todo == first \o Tail(writer[w].todo)
             self == [writer[w] EXCEPT !.todo = todo]
             rows == [issue EXCEPT ![i] = t.row]
  <2>1. first \in Seq(FitTasks)
    <3>1. CASE t.id = NoIssue
      BY <3>1, NoTasks
    <3>2. CASE t.id # NoIssue
      <4>1. PICK row : row = [NoRow EXCEPT !.parent = i]
        OBVIOUS
      <4>2. row \in IssueRows
        BY <4>1, RowEdits
      <4>3. Task("copies", t.id, row) \in FitTasks
        BY <1>2, <3>2, <4>2, TaskFitsIn
      <4>4. <<Task("copies", t.id, row)>> \in Seq(FitTasks)
        BY <4>3, OneTask
      <4> QED
        BY <3>2, <4>1, <4>4
    <3> QED
      BY <3>1, <3>2
  <2>2. Commits(w, rows, self)
    BY <1>4, <1>2 DEF WriterRows
  <2> HIDE DEF first
  <2>3. todo \in Seq(FitTasks)
    BY <1>2, <2>1, ConcatProperties
  <2> HIDE DEF todo
  <2>4. self \in WriterRows /\ self.pc # "write"
    BY <1>2, <2>3, TodoEdit
  <2>5. PICK row \in IssueRows, p \in Issues \cup {NoIssue} : row = t.row /\ p = t.row.parent
    BY <1>2
  <2>6. p # NoIssue => issue[p].live
    BY <1>4, <2>5 DEF Refers
  <2> HIDE DEF self, t
  <2>7. rows \in IssueTables /\ \A k \in Issues : rows[k] = IF k = i THEN row ELSE issue[k]
    BY <2>5 DEF FamilyInv, TablesTyped, IssueTables
  <2>8. row.live /\ row.parent = p
    BY <1>2, <2>5
  <2> HIDE DEF rows
  <2>9. \A k \in Issues : issue[k].parent # i
    BY <1>4, RowsOf, IssuesAssumption DEF FamilyInv, ParentsThere
  <2>10. FamilyThere(rows)
    <3>1. rows[i].parent = p /\ \A k \in Issues \ {i} : rows[k] = issue[k]
      BY <2>7, <2>8
    <3>2. p # NoIssue => p # i /\ rows[p].live
      BY <1>4, <2>6, <3>1
    <3> QED
      BY <2>9, <3>1, <3>2, RowsOf DEF FamilyThere, FamilyInv, ParentsThere
  <2>11. ASSUME ~crossed' PROVE Loopless(rows)
    <3>1. Loopless(issue) /\ issue \in IssueTables
      BY <1>4, <2>11, AboveAncestors DEF FamilyInv, NoParentLoop, Loopless, TablesTyped, IssueTables
    <3>2. rows[i].parent = p /\ \A k \in Issues \ {i} : rows[k].parent \in {issue[k].parent, NoIssue}
      BY <2>7, <2>8
    <3>3. CASE p = NoIssue
      <4>1. \A k \in Issues : rows[k].parent \in {issue[k].parent, NoIssue}
        BY <3>2, <3>3
      <4> QED
        BY <2>7, <3>1, <4>1, FewerAncestors DEF Loopless
    <3>4. CASE p # NoIssue
      <4>1. i # p /\ i \notin Ancestors(issue, p)
        BY <1>4, <2>6, <2>9, <3>1, <3>4, ChildlessIsNoAncestor
      <4> QED
        BY <2>7, <3>1, <3>2, <3>4, <4>1, NewParent
    <3> QED
      BY <3>3, <3>4
  <2>12. cycle' \in [Cycles -> CycleRows] /\ crossed' \in BOOLEAN
    BY <1>4 DEF FamilyInv, TablesTyped
  <2> QED
    BY <1>4, <2>2, <2>4, <2>7, <2>10, <2>11, <2>12, Committed
<1> QED
  BY <1>3, <1>4 DEF InsertIssue, Job

LEMMA DuplicateSubsKeeps ==
  ASSUME FamilyInv, NEW w \in Writers, DuplicateSubs(w)
  PROVE  FamilyInv'
<1> DEFINE copy(j) == Task("insert", NoIssue, Created([issue[j] EXCEPT !.parent = Job(w).row.parent], issue[j].state))
           subs == SetToSeq(Children(Job(w).id))
           tasks == [k \in 1 .. Len(subs) |-> copy(subs[k])]
<1>1. Doing(w, "copies") /\ Continues(w, tasks)
  BY DEF DuplicateSubs
<1>2. writer[w].pc = "run" /\ writer[w].todo # <<>> /\ Job(w).row.parent \in Issues \cup {NoIssue}
  BY <1>1, DoingJob
<1>3. ASSUME NEW j \in Issues PROVE copy(j) \in FitTasks
  <2>1. PICK row : row = [issue[j] EXCEPT !.parent = Job(w).row.parent]
    OBVIOUS
  <2>2. row \in IssueRows /\ issue[j].state \in Statuses
    BY <1>2, <2>1, RowsOf, RowEdits
  <2>3. Created(row, issue[j].state) \in IssueRows /\ Created(row, issue[j].state).live
    BY <2>2, CreatedRow
  <2>4. Task("insert", NoIssue, Created(row, issue[j].state)) \in FitTasks
    BY <2>3, TaskFitsIn
  <2> QED
    BY <2>1, <2>4
<1>4. Children(Job(w).id) \subseteq Issues /\ subs \in [1 .. Cardinality(Children(Job(w).id)) -> Children(Job(w).id)]
      /\ Cardinality(Children(Job(w).id)) \in Nat
  BY SubIssues
<1> HIDE DEF copy, subs
<1>5. Len(subs) \in Nat /\ \A k \in 1 .. Len(subs) : copy(subs[k]) \in FitTasks
  BY <1>3, <1>4
<1>6. tasks \in Seq(FitTasks)
  BY <1>5
<1> HIDE DEF tasks
<1> QED
  BY <1>1, <1>2, <1>6, ContinuesKeeps

LEMMA VisitedEdit ==
  ASSUME NEW r \in WriterRows, NEW todo \in Seq(FitTasks), NEW visited \in SUBSET Issues
  PROVE  /\ [r EXCEPT !.visited = visited, !.todo = todo] \in WriterRows
         /\ [r EXCEPT !.visited = visited, !.todo = todo].pc = r.pc
  BY DEF WriterRows

\* A step of the automation: where it has been, and what is left.
LEMMA VisitsKeep ==
  ASSUME FamilyInv, NEW w \in Writers, writer[w].pc = "run", NEW todo \in Seq(FitTasks), NEW visited \in SUBSET Issues,
         writer' = [writer EXCEPT ![w] = [writer[w] EXCEPT !.visited = visited, !.todo = todo]],
         UNCHANGED <<issue, cycle, team, crossed>>
  PROVE  FamilyInv'
<1>1. PICK self : self = [writer[w] EXCEPT !.visited = visited, !.todo = todo]
  OBVIOUS
<1>2. self \in WriterRows /\ self.pc = "run"
  BY <1>1, VisitedEdit DEF FamilyInv
<1>3. WriteFits(self)
  BY <1>2 DEF WriteFits
<1> QED
  BY <1>1, <1>2, <1>3, WriterMoves

LEMMA ReloadIssueKeeps ==
  ASSUME FamilyInv, NEW w \in Writers, ReloadIssue(w)
  PROVE  FamilyInv'
<1> DEFINE t == Job(w)
           first == IF issue[t.id].live THEN <<Task("apply", t.id, issue[t.id])>> ELSE <<>>
           todo == first \o Tail(writer[w].todo)
<1>1. Doing(w, "reload") /\ UNCHANGED <<issue, cycle, team, crossed>>
  BY DEF ReloadIssue
<1>2. writer[w].pc = "run" /\ t.id \in Issues /\ Tail(writer[w].todo) \in Seq(FitTasks)
  BY <1>1, DoingJob
<1>3. first \in Seq(FitTasks)
  <2>1. issue[t.id].live => Task("apply", t.id, issue[t.id]) \in FitTasks
    BY <1>2, RowsOf, TaskFitsIn
  <2> QED
    BY <2>1, OneTask, NoTasks
<1>4. writer' = [writer EXCEPT ![w] = [writer[w] EXCEPT !.visited = {}, !.todo = todo]]
  BY DEF ReloadIssue
<1> HIDE DEF first
<1>5. todo \in Seq(FitTasks) /\ {} \in SUBSET Issues
  BY <1>2, <1>3, ConcatProperties
<1> HIDE DEF todo
<1> QED
  BY <1>1, <1>2, <1>4, <1>5, VisitsKeep

LEMMA ApplyStatusAutomationKeeps ==
  ASSUME FamilyInv, NEW w \in Writers, ApplyStatusAutomation(w)
  PROVE  FamilyInv'
<1> DEFINE t == Job(w)
           among == {j \in Children(t.id) : ~Ended(j)}
           open == SetToSeq(among)
           close(j) == Task("close", j, InState(issue[j], "done"))
           down == [k \in 1 .. Len(open) |-> close(open[k])]
           up == <<Task("parent", t.row.parent, NoRow)>>
           first == IF t.row.state = "done" /\ team.closeSubs THEN down ELSE <<>>
           second == IF t.row.parent # NoIssue THEN up ELSE <<>>
           todo == first \o second \o Tail(writer[w].todo)
<1>1. Doing(w, "apply")
  BY DEF ApplyStatusAutomation
<1>2. /\ writer[w].pc = "run" /\ writer[w].todo # <<>> /\ writer[w] \in WriterRows /\ t.id \in Issues
      /\ t.row.parent \in Issues \cup {NoIssue} /\ Tail(writer[w].todo) \in Seq(FitTasks)
  BY <1>1, DoingJob
<1>3. CASE Continues(w, <<>>)
  BY <1>2, <1>3, ContinuesKeeps, NoTasks
<1>4. CASE /\ writer' = [writer EXCEPT ![w].visited = @ \cup {t.id}, ![w].todo = first \o second \o Tail(@)]
           /\ UNCHANGED <<issue, cycle, team, crossed>>
  <2>1. writer' = [writer EXCEPT ![w] = [writer[w] EXCEPT !.visited = writer[w].visited \cup {t.id}, !.todo = todo]]
    BY <1>4
  <2>2. second \in Seq(FitTasks)
    <3>1. t.row.parent # NoIssue => Task("parent", t.row.parent, NoRow) \in FitTasks
      BY <1>2, RowEdits, TaskFitsIn
    <3> QED
      BY <3>1, OneTask, NoTasks
  <2>3. down \in Seq(FitTasks)
    <3>1. ASSUME NEW j \in Children(t.id) PROVE close(j) \in FitTasks
      <4>1. j \in Issues /\ issue[j] \in IssueRows /\ issue[j].live
        BY RowsOf DEF Children
      <4>2. InState(issue[j], "done") \in IssueRows /\ InState(issue[j], "done").live
        BY <4>1, RowEdits DEF Statuses
      <4> QED
        BY <4>1, <4>2, TaskFitsIn
    <3>2. among \subseteq Children(t.id) /\ IsFiniteSet(among)
      BY SubIssues, FS_Subset
    <3>3. open \in [1 .. Cardinality(among) -> among] /\ Cardinality(among) \in Nat
      BY <3>2, MembersInOrder
    <3> HIDE DEF open, close, among
    <3>4. Len(open) \in Nat /\ \A k \in 1 .. Len(open) : close(open[k]) \in FitTasks
      BY <3>1, <3>2, <3>3
    <3> QED
      BY <3>4
  <2> HIDE DEF down
  <2>4. first \in Seq(FitTasks)
    BY <2>3, NoTasks
  <2> HIDE DEF first, second
  <2>5. first \o second \in Seq(FitTasks)
    BY <2>2, <2>4, ConcatProperties
  <2>6. todo \in Seq(FitTasks)
    BY <1>2, <2>5, ConcatProperties
  <2>7. writer[w].visited \cup {t.id} \in SUBSET Issues
    BY <1>2 DEF WriterRows
  <2> HIDE DEF todo
  <2>8. PICK visited \in SUBSET Issues : visited = writer[w].visited \cup {t.id}
    BY <2>7
  <2> QED
    BY <1>2, <1>4, <2>1, <2>6, <2>8, VisitsKeep
<1> QED
  BY <1>3, <1>4 DEF ApplyStatusAutomation

LEMMA ReadParentKeeps ==
  ASSUME FamilyInv, NEW w \in Writers, ReadParent(w)
  PROVE  FamilyInv'
<1>1. Doing(w, "parent")
  BY DEF ReadParent
<1>2. writer[w].pc = "run" /\ writer[w].todo # <<>> /\ Job(w).id \in Issues
  BY <1>1, DoingJob
<1>3. CASE Continues(w, <<>>)
  BY <1>2, <1>3, ContinuesKeeps, NoTasks
<1>4. CASE issue[Job(w).id].live /\ Continues(w, <<Task("count", Job(w).id, issue[Job(w).id])>>)
  <2>1. Task("count", Job(w).id, issue[Job(w).id]) \in FitTasks
    BY <1>2, <1>4, RowsOf, TaskFitsIn
  <2>2. <<Task("count", Job(w).id, issue[Job(w).id])>> \in Seq(FitTasks)
    BY <2>1, OneTask
  <2> QED
    BY <1>2, <1>4, <2>2, ContinuesKeeps
<1> QED
  BY <1>3, <1>4 DEF ReadParent

LEMMA CountThenCloseKeeps ==
  ASSUME FamilyInv, NEW w \in Writers, CountThenClose(w)
  PROVE  FamilyInv'
<1>1. Doing(w, "count")
  BY DEF CountThenClose
<1>2. /\ writer[w].pc = "run" /\ writer[w].todo # <<>> /\ Job(w).id \in Issues /\ Job(w).row \in IssueRows /\ Job(w).row.live
  BY <1>1, DoingJob DEF TaskFits
<1>3. CASE Continues(w, <<>>)
  BY <1>2, <1>3, ContinuesKeeps, NoTasks
<1>4. CASE Continues(w, <<Task("close", Job(w).id, InState(Job(w).row, "done"))>>)
  <2>1. InState(Job(w).row, "done") \in IssueRows /\ InState(Job(w).row, "done").live
    BY <1>2, RowEdits DEF Statuses
  <2>2. Task("close", Job(w).id, InState(Job(w).row, "done")) \in FitTasks
    BY <1>2, <2>1, TaskFitsIn
  <2>3. <<Task("close", Job(w).id, InState(Job(w).row, "done"))>> \in Seq(FitTasks)
    BY <2>2, OneTask
  <2> QED
    BY <1>2, <1>4, <2>3, ContinuesKeeps
<1> QED
  BY <1>3, <1>4 DEF CountThenClose

LEMMA AnswersKeeps ==
  ASSUME FamilyInv, NEW w \in Writers, Answers(w)
  PROVE  FamilyInv'
<1>1. PICK self : self = [Idle EXCEPT !.pc = "done"]
  OBVIOUS
<1>2. self \in WriterRows /\ self.pc = "done"
  BY <1>1, NoTasks DEF Idle, WriterRows
<1>3. WriteFits(self)
  BY <1>2 DEF WriteFits
<1> QED
  BY <1>1, <1>2, <1>3, WriterMoves DEF Answers

LEMMA WriterStepKeeps ==
  ASSUME FamilyInv, NEW w \in Writers, WriterStep(w)
  PROVE  FamilyInv'
  BY FetchIssueKeeps, ValidateParentKeeps, UpdateBeginsKeeps, UpdateCommitsKeeps, InsertIssueKeeps, DuplicateSubsKeeps,
     ReloadIssueKeeps, ApplyStatusAutomationKeeps, ReadParentKeeps, CountThenCloseKeeps, AnswersKeeps DEF WriterStep

-----------------------------------------------------------------------------
(* Requests on cycles, and what they do to issues *)

LEMMA CyclesWritten ==
  ASSUME FamilyInv, UNCHANGED <<issue, writer, team, crossed>>, cycle' \in [Cycles -> CycleRows]
  PROVE  FamilyInv'
  BY DEF FamilyInv, TablesTyped, ParentsThere, NoParentLoop, Above, WriteFits, ParentCycle, WouldCreateCycle

LEMMA EmptyPlans ==
  /\ NoPlan \in PlanRows /\ NoPlan.pc = "idle" /\ NoPlan.row \in CycleRows
  /\ [NoPlan EXCEPT !.pc = "done"] \in PlanRows /\ [NoPlan EXCEPT !.pc = "done"].pc = "done"
<1>1. NoPlan.row \in CycleRows /\ NoPlan.row = [status |-> "none", from |-> 0, to |-> 0, number |-> 0]
  BY DEF NoPlan, CycleRows
<1>2. NoPlan \in PlanRows /\ NoPlan.pc = "idle"
  BY <1>1 DEF NoPlan, PlanRows
<1> QED
  BY <1>1, <1>2 DEF PlanRows

LEMMA PlanMade ==
  ASSUME NEW pc \in {"check", "number", "next", "write"}, NEW c \in Cycles, NEW row \in CycleRows
  PROVE  [NoPlan EXCEPT !.pc = pc, !.id = c, !.row = row] \in PlanRows
         /\ PlanKnows([NoPlan EXCEPT !.pc = pc, !.id = c, !.row = row])
<1>1. PICK plan : plan = [NoPlan EXCEPT !.pc = pc, !.id = c, !.row = row]
  OBVIOUS
<1>2. plan \in PlanRows /\ plan.pc = pc /\ plan.id = c
  BY <1>1, EmptyPlans DEF PlanRows
<1> QED
  BY <1>1, <1>2 DEF PlanKnows

LEMMA PlanMoves ==
  ASSUME PlanningInv, NEW p \in Planners, NEW plan \in PlanRows, PlanKnows(plan), Plans(p, plan), rushed' = rushed
  PROVE  PlanningInv'
<1>1. \A q \in Planners : planner'[q] = IF q = p THEN plan ELSE planner[q]
  BY DEF PlanningInv, Plans
<1>2. planner' \in [Planners -> PlanRows]
  BY DEF PlanningInv, Plans
<1> QED
  BY <1>1, <1>2 DEF PlanningInv

LEMMA PlanFails ==
  ASSUME PlanningInv, NEW p \in Planners, Fails(p), rushed' = rushed
  PROVE  PlanningInv'
  BY EmptyPlans, PlanMoves DEF Fails, PlanKnows

LEMMA CycleRow ==
  ASSUME FamilyInv, NEW c \in Cycles
  PROVE  cycle[c] \in CycleRows
  BY DEF FamilyInv, TablesTyped

LEMMA PlanOf ==
  ASSUME PlanningInv, NEW p \in Planners
  PROVE  /\ planner[p] \in PlanRows /\ PlanKnows(planner[p]) /\ planner[p].row \in CycleRows
         /\ planner[p].id \in Cycles \cup {NoCycle} /\ planner[p].next \in Cycles \cup {NoCycle}
  BY DEF PlanningInv, PlanRows

LEMMA CycleRowEdits ==
  ASSUME NEW row \in CycleRows
  PROVE  /\ \A s \in {"upcoming", "active", "completed"} : [row EXCEPT !.status = s] \in CycleRows
         /\ \A from, to \in Days : [row EXCEPT !.from = from, !.to = to] \in CycleRows
         /\ \A n \in Nat : [row EXCEPT !.number = n] \in CycleRows
  BY DEF CycleRows

LEMMA PlanEdits ==
  ASSUME NEW plan \in PlanRows
  PROVE  /\ \A pc \in {"write", "done"} : [plan EXCEPT !.pc = pc] \in PlanRows /\ [plan EXCEPT !.pc = pc].pc = pc
                                          /\ [plan EXCEPT !.pc = pc].id = plan.id
         /\ [plan EXCEPT !.pc = "write", !.stale = FALSE] \in PlanRows /\ [plan EXCEPT !.pc = "write", !.stale = FALSE].pc = "write"
         /\ [plan EXCEPT !.pc = "write", !.stale = FALSE].id = plan.id
         /\ [plan EXCEPT !.pc = "write", !.disturbed = FALSE] \in PlanRows
         /\ [plan EXCEPT !.pc = "write", !.disturbed = FALSE].pc = "write"
         /\ [plan EXCEPT !.pc = "write", !.disturbed = FALSE].id = plan.id
<1>1. \A pc \in {"write", "done"} : [plan EXCEPT !.pc = pc] \in PlanRows /\ [plan EXCEPT !.pc = pc].pc = pc
                                    /\ [plan EXCEPT !.pc = pc].id = plan.id
  BY DEF PlanRows
<1>2. /\ [plan EXCEPT !.pc = "write", !.stale = FALSE] \in PlanRows /\ [plan EXCEPT !.pc = "write", !.stale = FALSE].pc = "write"
      /\ [plan EXCEPT !.pc = "write", !.stale = FALSE].id = plan.id
  BY DEF PlanRows
<1>3. /\ [plan EXCEPT !.pc = "write", !.disturbed = FALSE] \in PlanRows
      /\ [plan EXCEPT !.pc = "write", !.disturbed = FALSE].pc = "write"
      /\ [plan EXCEPT !.pc = "write", !.disturbed = FALSE].id = plan.id
  BY DEF PlanRows
<1> QED
  BY <1>1, <1>2, <1>3

LEMMA PlanCarries ==
  ASSUME NEW old \in PlanRows, NEW c \in Cycles
  PROVE  \E plan \in PlanRows :
           plan = [old EXCEPT !.pc = "carry", !.next = c] /\ plan.pc = "carry" /\ plan.id = old.id /\ plan.next = c
<1>1. PICK plan : plan = [old EXCEPT !.pc = "carry", !.next = c]
  OBVIOUS
<1>2. plan \in PlanRows /\ plan.pc = "carry" /\ plan.id = old.id /\ plan.next = c
  BY <1>1 DEF PlanRows
<1> QED
  BY <1>1, <1>2

LEMMA PlanNumbered ==
  ASSUME NEW old \in PlanRows, NEW row \in CycleRows, NEW plan, plan = [old EXCEPT !.pc = "insert", !.row = row]
  PROVE  plan \in PlanRows /\ plan.pc = "insert" /\ plan.id = old.id
  BY DEF PlanRows

LEMMA RowWritten ==
  ASSUME FamilyInv, PlanningInv, NEW p \in Planners, NEW c \in Cycles, NEW row \in CycleRows, Writes(p, c, row)
  PROVE  cycle' \in [Cycles -> CycleRows] /\ PlanningInv'
<1>1. cycle' \in [Cycles -> CycleRows]
  BY DEF Writes, FamilyInv, TablesTyped
<1>2. rushed' \in BOOLEAN
  BY DEF Writes
<1>3. ASSUME NEW q \in Planners PROVE planner'[q] \in PlanRows /\ PlanKnows(planner'[q])
  <2>1. CASE q = p
    <3>1. planner'[q] = [NoPlan EXCEPT !.pc = "done"]
      BY <2>1 DEF Writes
    <3> QED
      BY <3>1, EmptyPlans DEF PlanKnows
  <2>2. CASE q # p
    <3>1. planner'[q] = [planner[q] EXCEPT !.stale = (planner[q].pc \notin {"idle", "done"})]
      BY <2>2 DEF Writes
    <3>2. planner[q] \in PlanRows /\ PlanKnows(planner[q])
      BY PlanOf
    <3>3. /\ planner'[q] \in PlanRows /\ planner'[q].pc = planner[q].pc /\ planner'[q].id = planner[q].id
          /\ planner'[q].next = planner[q].next
      BY <3>1, <3>2 DEF PlanRows
    <3> QED
      BY <3>2, <3>3 DEF PlanKnows
  <2> QED
    BY <2>1, <2>2
<1>4. planner' \in [Planners -> PlanRows]
  BY <1>3 DEF Writes
<1> QED
  BY <1>1, <1>2, <1>3, <1>4 DEF PlanningInv

LEMMA TablesStayed ==
  ASSUME FamilyInv, TablesStay
  PROVE  FamilyInv' /\ rushed' = rushed
  BY FamilyRests DEF TablesStay

TablesInv == FamilyInv /\ PlanningInv

LEMMA CreateCyclePlans ==
  ASSUME TablesInv, NEW p \in Planners, NEW c \in Cycles, NEW span \in Spans, CreateCycle(p, c, span)
  PROVE  TablesInv'
<1>1. PICK row : row = [status |-> "upcoming", from |-> span[1], to |-> span[2], number |-> 0]
  OBVIOUS
<1>2. row \in CycleRows
  BY <1>1 DEF CycleRows, Spans
<1>3. TablesStay /\ (Fails(p) \/ Plans(p, [NoPlan EXCEPT !.pc = "number", !.id = c, !.row = row]))
  BY <1>1 DEF CreateCycle
<1>4. FamilyInv' /\ rushed' = rushed
  BY <1>3, TablesStayed DEF TablesInv
<1>5. PICK plan : plan = [NoPlan EXCEPT !.pc = "number", !.id = c, !.row = row]
  OBVIOUS
<1>6. plan \in PlanRows /\ PlanKnows(plan)
  BY <1>2, <1>5, PlanMade
<1>7. PlanningInv'
  BY <1>3, <1>4, <1>5, <1>6, PlanFails, PlanMoves DEF TablesInv
<1> QED
  BY <1>4, <1>7 DEF TablesInv

LEMMA NextNumberPlans ==
  ASSUME TablesInv, NEW p \in Planners, NextNumber(p)
  PROVE  TablesInv'
<1>1. PICK n \in {0} \cup {cycle[c].number : c \in Cycles} : Plans(p, [planner[p] EXCEPT !.pc = "insert", !.row.number = n + 1])
  BY DEF NextNumber
<1>2. n + 1 \in Nat
  BY CycleRow DEF TablesInv, CycleRows
<1>3. PICK row : row = [planner[p].row EXCEPT !.number = n + 1]
  OBVIOUS
<1>4. planner[p] \in PlanRows /\ PlanKnows(planner[p]) /\ planner[p].row \in CycleRows
  BY PlanOf DEF TablesInv
<1>5. row \in CycleRows
  BY <1>2, <1>3, <1>4, CycleRowEdits
<1>6. PICK plan : plan = [planner[p] EXCEPT !.pc = "insert", !.row = row]
  OBVIOUS
<1>7. plan \in PlanRows /\ plan.pc = "insert" /\ plan.id = planner[p].id
  BY <1>4, <1>5, <1>6, PlanNumbered
<1>8. plan = [planner[p] EXCEPT !.pc = "insert", !.row.number = n + 1]
  BY <1>3, <1>4, <1>6 DEF PlanRows, CycleRows
<1>9. FamilyInv' /\ rushed' = rushed
  BY TablesStayed DEF TablesInv, NextNumber
<1>10. PlanKnows(plan)
  BY <1>4, <1>7 DEF PlanKnows, NextNumber
<1> QED
  BY <1>1, <1>7, <1>8, <1>9, <1>10, PlanMoves DEF TablesInv

LEMMA RowGoes ==
  ASSUME TablesInv, NEW p \in Planners, planner[p].pc \notin {"idle", "done"},
         \/ Fails(p) /\ TablesStay
         \/ Writes(p, planner[p].id, planner[p].row) /\ UNCHANGED <<issue, writer, team, crossed>>
  PROVE  TablesInv'
<1>1. CASE Fails(p) /\ TablesStay
  BY <1>1, TablesStayed, PlanFails DEF TablesInv
<1>2. CASE Writes(p, planner[p].id, planner[p].row) /\ UNCHANGED <<issue, writer, team, crossed>>
  <2>1. planner[p].id \in Cycles /\ planner[p].row \in CycleRows
    BY PlanOf DEF TablesInv, PlanKnows
  <2>2. cycle' \in [Cycles -> CycleRows] /\ PlanningInv'
    BY <1>2, <2>1, RowWritten DEF TablesInv
  <2> QED
    BY <1>2, <2>2, CyclesWritten DEF TablesInv
<1> QED
  BY <1>1, <1>2

LEMMA InsertCyclePlans ==
  ASSUME TablesInv, NEW p \in Planners, InsertCycle(p)
  PROVE  TablesInv'
  BY RowGoes DEF InsertCycle

LEMMA WriteCyclePlans ==
  ASSUME TablesInv, NEW p \in Planners, WriteCycle(p)
  PROVE  TablesInv'
  BY RowGoes DEF WriteCycle

LEMMA UpdateCyclePlans ==
  ASSUME TablesInv, NEW p \in Planners, NEW c \in Cycles, UpdateCycle(p, c)
  PROVE  TablesInv'
<1>1. PICK row \in {cycle[c]} \cup {[cycle[c] EXCEPT !.status = s] : s \in {"upcoming", "active", "completed"}}
                   \cup {[cycle[c] EXCEPT !.from = d[1], !.to = d[2]] : d \in Spans} :
        Plans(p, [NoPlan EXCEPT !.pc = "check", !.id = c, !.row = row])
  BY DEF UpdateCycle
<1>2. cycle[c] \in CycleRows
  BY CycleRow DEF TablesInv
<1>3. row \in CycleRows
  <2>1. CASE row = cycle[c]
    BY <1>2, <2>1
  <2>2. CASE \E s \in {"upcoming", "active", "completed"} : row = [cycle[c] EXCEPT !.status = s]
    BY <1>2, <2>2, CycleRowEdits
  <2>3. CASE \E d \in Spans : row = [cycle[c] EXCEPT !.from = d[1], !.to = d[2]]
    <3>1. PICK d \in Spans : row = [cycle[c] EXCEPT !.from = d[1], !.to = d[2]]
      BY <2>3
    <3>2. PICK from \in Days, to \in Days : from = d[1] /\ to = d[2]
      BY DEF Spans
    <3> QED
      BY <1>2, <3>1, <3>2, CycleRowEdits
  <2> QED
    BY <1>1, <2>1, <2>2, <2>3
<1>4. PICK plan : plan = [NoPlan EXCEPT !.pc = "check", !.id = c, !.row = row]
  OBVIOUS
<1>5. plan \in PlanRows /\ PlanKnows(plan)
  BY <1>3, <1>4, PlanMade
<1>6. FamilyInv' /\ rushed' = rushed
  BY TablesStayed DEF TablesInv, UpdateCycle
<1> QED
  BY <1>1, <1>4, <1>5, <1>6, PlanMoves DEF TablesInv

LEMMA CheckDatesPlans ==
  ASSUME TablesInv, NEW p \in Planners, CheckDates(p)
  PROVE  TablesInv'
<1>1. FamilyInv' /\ rushed' = rushed
  BY TablesStayed DEF TablesInv, CheckDates
<1>2. CASE Fails(p)
  BY <1>1, <1>2, PlanFails DEF TablesInv
<1>3. CASE Plans(p, [planner[p] EXCEPT !.pc = "write", !.stale = FALSE])
  <2>1. PICK plan : plan = [planner[p] EXCEPT !.pc = "write", !.stale = FALSE]
    OBVIOUS
  <2>2. planner[p] \in PlanRows /\ PlanKnows(planner[p]) /\ planner[p].pc = "check"
    BY PlanOf DEF TablesInv, CheckDates
  <2>3. plan \in PlanRows /\ plan.pc = "write" /\ plan.id = planner[p].id
    BY <2>1, <2>2, PlanEdits
  <2>4. PlanKnows(plan)
    BY <2>2, <2>3 DEF PlanKnows
  <2> QED
    BY <1>1, <1>3, <2>1, <2>3, <2>4, PlanMoves DEF TablesInv
<1> QED
  BY <1>2, <1>3 DEF CheckDates

LEMMA CompleteCyclePlans ==
  ASSUME TablesInv, NEW p \in Planners, NEW c \in Cycles, NEW carryOver \in BOOLEAN, CompleteCycle(p, c, carryOver)
  PROVE  TablesInv'
<1>1. PICK pc \in {"next", "write"} : pc = IF carryOver THEN "next" ELSE "write"
  OBVIOUS
<1>2. PICK row : row = [cycle[c] EXCEPT !.status = "completed"]
  OBVIOUS
<1>3. row \in CycleRows
  BY <1>2, CycleRow, CycleRowEdits DEF TablesInv
<1>4. PICK plan : plan = [NoPlan EXCEPT !.pc = pc, !.id = c, !.row = row]
  OBVIOUS
<1>5. plan \in PlanRows /\ PlanKnows(plan)
  BY <1>3, <1>4, PlanMade
<1>6. FamilyInv' /\ rushed' = rushed
  BY TablesStayed DEF TablesInv, CompleteCycle
<1>7. Plans(p, plan)
  BY <1>1, <1>2, <1>4 DEF CompleteCycle
<1> QED
  BY <1>5, <1>6, <1>7, PlanMoves DEF TablesInv

LEMMA GetNextUpcomingPlans ==
  ASSUME TablesInv, NEW p \in Planners, GetNextUpcoming(p)
  PROVE  TablesInv'
<1>1. FamilyInv' /\ rushed' = rushed
  BY TablesStayed DEF TablesInv, GetNextUpcoming
<1>2. planner[p] \in PlanRows /\ PlanKnows(planner[p]) /\ planner[p].pc = "next"
  BY PlanOf DEF TablesInv, GetNextUpcoming
<1>3. CASE PlanGoes(p, "write")
  <2>1. PICK plan : plan = [planner[p] EXCEPT !.pc = "write"]
    OBVIOUS
  <2>2. plan \in PlanRows /\ plan.pc = "write" /\ plan.id = planner[p].id
    BY <1>2, <2>1, PlanEdits
  <2>3. PlanKnows(plan)
    BY <1>2, <2>2 DEF PlanKnows
  <2>4. Plans(p, plan)
    BY <1>3, <2>1 DEF PlanGoes, Plans
  <2> QED
    BY <1>1, <2>2, <2>3, <2>4, PlanMoves DEF TablesInv
<1>4. CASE \E c \in Cycles : Plans(p, [planner[p] EXCEPT !.pc = "carry", !.next = c])
  <2>1. PICK c \in Cycles : Plans(p, [planner[p] EXCEPT !.pc = "carry", !.next = c])
    BY <1>4
  <2>2. PICK old \in PlanRows : old = planner[p]
    BY <1>2
  <2>3. PICK plan \in PlanRows :
          plan = [old EXCEPT !.pc = "carry", !.next = c] /\ plan.pc = "carry" /\ plan.id = old.id /\ plan.next = c
    BY PlanCarries
  <2>4. PlanKnows(plan)
    BY <1>2, <2>2, <2>3 DEF PlanKnows
  <2>5. Plans(p, plan)
    BY <2>1, <2>2, <2>3
  <2> QED
    BY <1>1, <2>4, <2>5, PlanMoves DEF TablesInv
<1> QED
  BY <1>3, <1>4 DEF GetNextUpcoming

LEMMA PlannersAreNoWriters == ASSUME NEW p \in Planners PROVE p \notin Writers
  BY PlanningAssumption

\* The cycles of some issues change, and nothing else about them.
LEMMA CyclesOfIssues ==
  ASSUME FamilyInv, NEW p \in Planners, NEW moved, NEW c \in Cycles \cup {NoCycle},
         Commits(p, [i \in Issues |-> IF i \in moved THEN [issue[i] EXCEPT !.cycle = c] ELSE issue[i]], NoPlan),
         cycle' \in [Cycles -> CycleRows], team' = team, crossed' = crossed
  PROVE  FamilyInv'
<1> DEFINE rows == [i \in Issues |-> IF i \in moved THEN [issue[i] EXCEPT !.cycle = c] ELSE issue[i]]
<1>1. ASSUME NEW i \in Issues
      PROVE  rows[i] \in IssueRows /\ (rows[i].live <=> issue[i].live) /\ rows[i].parent = issue[i].parent
  <2>1. /\ [issue[i] EXCEPT !.cycle = c] \in IssueRows /\ ([issue[i] EXCEPT !.cycle = c].live <=> issue[i].live)
        /\ [issue[i] EXCEPT !.cycle = c].parent = issue[i].parent
    BY RowsOf, RowEdits
  <2> QED
    BY <2>1, RowsOf
<1>2. rows \in IssueTables
  BY <1>1 DEF IssueTables
<1>3. Commits(p, rows, NoPlan)
  OBVIOUS
<1> HIDE DEF rows
<1>4. FamilyThere(rows) /\ NobodyMoved(rows)
  BY <1>1, RowsOf DEF FamilyInv, ParentsThere, FamilyThere, NobodyMoved
<1> QED
  BY <1>2, <1>3, <1>4, PlannersAreNoWriters, CommittedInPlace

LEMMA DisturbedRow ==
  ASSUME PlanningInv, NEW q \in Planners
  PROVE  /\ Disturbed(q) \in PlanRows /\ PlanKnows(Disturbed(q)) /\ Disturbed(q).pc = planner[q].pc
         /\ Disturbed(q).id = planner[q].id /\ Disturbed(q).next = planner[q].next
         /\ ~Disturbed(q).disturbed => ~planner[q].disturbed /\ (planner[q].pc = "write" => issue' = issue)
<1>1. PICK b \in BOOLEAN : b = (planner[q].disturbed \/ (issue' # issue /\ planner[q].pc = "write"))
  OBVIOUS
<1>2. Disturbed(q) = [planner[q] EXCEPT !.disturbed = b]
  BY <1>1 DEF Disturbed
<1>3. planner[q] \in PlanRows /\ PlanKnows(planner[q])
  BY PlanOf
<1>4. PICK plan : plan = [planner[q] EXCEPT !.disturbed = b]
  OBVIOUS
<1>5. /\ plan \in PlanRows /\ plan.pc = planner[q].pc /\ plan.id = planner[q].id /\ plan.next = planner[q].next
      /\ plan.disturbed = b
  BY <1>3, <1>4 DEF PlanRows
<1>6. PlanKnows(plan)
  BY <1>3, <1>5 DEF PlanKnows
<1> QED
  BY <1>1, <1>2, <1>4, <1>5, <1>6

LEMMA CarryOverIssuesPlans ==
  ASSUME TablesInv, NEW p \in Planners, CarryOverIssues(p)
  PROVE  TablesInv'
<1>1. planner[p] \in PlanRows /\ PlanKnows(planner[p]) /\ planner[p].pc = "carry"
  BY PlanOf DEF TablesInv, CarryOverIssues
<1>2. planner[p].id \in Cycles /\ planner[p].next \in Cycles
  BY <1>1 DEF PlanKnows
<1>3. CASE Fails(p) /\ TablesStay
  BY <1>3, TablesStayed, PlanFails DEF TablesInv
<1> DEFINE moved == {i \in Issues : issue[i].live /\ issue[i].cycle = planner[p].id /\ Unfinished(i)}
<1>4. CASE /\ Commits(p, [i \in Issues |-> IF i \in moved THEN [issue[i] EXCEPT !.cycle = planner[p].next] ELSE issue[i]], NoPlan)
           /\ planner' = [q \in Planners |-> IF q = p THEN [planner[p] EXCEPT !.pc = "write", !.disturbed = FALSE]
                                             ELSE Disturbed(q)]
           /\ UNCHANGED <<cycle, team, crossed, rushed>>
  <2>1. cycle' \in [Cycles -> CycleRows]
    BY <1>4 DEF TablesInv, FamilyInv, TablesTyped
  <2>2. PICK c \in Cycles : c = planner[p].next
    BY <1>2
  <2> HIDE DEF moved
  <2>3. Commits(p, [i \in Issues |-> IF i \in moved THEN [issue[i] EXCEPT !.cycle = c] ELSE issue[i]], NoPlan)
    BY <1>4, <2>2
  <2>4. FamilyInv'
    BY <1>4, <2>1, <2>3, CyclesOfIssues DEF TablesInv
  <2>5. PICK plan : plan = [planner[p] EXCEPT !.pc = "write", !.disturbed = FALSE]
    OBVIOUS
  <2>6. plan \in PlanRows /\ plan.pc = "write" /\ plan.id = planner[p].id
    BY <1>1, <2>5, PlanEdits
  <2>7. PlanKnows(plan)
    BY <1>2, <2>6 DEF PlanKnows
  <2>8. \A q \in Planners : planner'[q] = IF q = p THEN plan ELSE Disturbed(q)
    BY <1>4, <2>5
  <2>9. \A q \in Planners : planner'[q] \in PlanRows /\ PlanKnows(planner'[q])
    BY <2>6, <2>7, <2>8, DisturbedRow DEF TablesInv
  <2>10. planner' \in [Planners -> PlanRows] /\ rushed' = rushed
    BY <1>4, <2>9
  <2> QED
    BY <2>4, <2>9, <2>10 DEF TablesInv, PlanningInv
<1> QED
  BY <1>3, <1>4 DEF CarryOverIssues

LEMMA DeleteCyclePlans ==
  ASSUME TablesInv, NEW p \in Planners, NEW c \in Cycles, DeleteCycle(p, c)
  PROVE  TablesInv'
<1>1. Writes(p, c, NoPlan.row) /\ team' = team /\ crossed' = crossed
  BY DEF DeleteCycle
<1>2. cycle' \in [Cycles -> CycleRows] /\ PlanningInv'
  BY <1>1, EmptyPlans, RowWritten DEF TablesInv
<1> DEFINE moved == {i \in Issues : issue[i].cycle = c}
<1>3. Commits(p, [i \in Issues |-> IF i \in moved THEN [issue[i] EXCEPT !.cycle = NoCycle] ELSE issue[i]], NoPlan)
  BY DEF DeleteCycle
<1> HIDE DEF moved
<1> QED
  BY <1>1, <1>2, <1>3, CyclesOfIssues DEF TablesInv

LEMMA IssueMovesPlans ==
  ASSUME TablesInv, NEW step, IssueMoves(step), FamilyInv'
  PROVE  TablesInv'
<1>1. ASSUME NEW p \in Planners PROVE planner'[p] \in PlanRows /\ PlanKnows(planner'[p])
  BY DisturbedRow DEF IssueMoves, TablesInv
<1>2. planner' \in [Planners -> PlanRows] /\ rushed' = rushed
  BY <1>1 DEF IssueMoves
<1> QED
  BY <1>1, <1>2 DEF TablesInv, PlanningInv

LEMMA Firsts == FirstWriter \in Writers /\ FirstIssue \in Issues /\ FirstCycle \in Cycles
<1>1. \A S : S # {} => First(S) \in S
  BY DEF First
<1> QED
  BY <1>1, AreasAssumption DEF FirstWriter, FirstIssue, FirstCycle

LEMMA CreateSubIssuePlans ==
  ASSUME TablesInv, NEW w \in Writers, NEW i \in Issues, CreateSubIssue(w, i)
  PROVE  TablesInv'
<1>1. PICK c \in Cycles \cup {NoCycle} : CreateIssue(w, i, "backlog", c)
  BY RowsOf DEF CreateSubIssue, TablesInv
<1>2. FamilyInv'
  BY <1>1, CreateIssueKeeps DEF TablesInv, Statuses
<1> QED
  BY <1>2 DEF CreateSubIssue, planning, TablesInv, PlanningInv

LEMMA CyclesAreaPlans ==
  ASSUME TablesInv, CyclesArea
  PROVE  TablesInv'
<1>1. CASE \E p \in Planners : PlanRequest(p) \/ PlanStep(p)
  BY <1>1, CreateCyclePlans, NextNumberPlans, InsertCyclePlans, WriteCyclePlans, UpdateCyclePlans, CheckDatesPlans,
     CompleteCyclePlans, GetNextUpcomingPlans, CarryOverIssuesPlans, DeleteCyclePlans DEF PlanRequest, PlanStep
<1>2. CASE IssueMoves(IssueRequest(FirstWriter, {area[2]}))
  <2>1. FamilyInv'
    BY <1>2, Firsts, IssueRequestKeeps DEF IssueMoves, TablesInv
  <2> QED
    BY <1>2, <2>1, IssueMovesPlans
<1>3. CASE IssueMoves(WriterStep(FirstWriter))
  <2>1. FamilyInv'
    BY <1>3, Firsts, WriterStepKeeps DEF IssueMoves, TablesInv
  <2> QED
    BY <1>3, <2>1, IssueMovesPlans
<1>4. CASE CreateSubIssue(FirstWriter, FirstIssue)
  BY <1>4, Firsts, CreateSubIssuePlans
<1> QED
  BY <1>1, <1>2, <1>3, <1>4 DEF CyclesArea

-----------------------------------------------------------------------------
(* Deliveries *)

LEMMA EventsShaped ==
  ASSUME NEW e \in Events
  PROVE  e.kind \in Kinds /\ PrState(e) \in PrStates /\ RuleEvent(e) \in RuleEvents \cup {"none"}
<1>1. e.kind \in Kinds /\ e.state \in PrStates
  BY DEF Events, Kinds, PrStates
<1> QED
  BY <1>1 DEF PrState, PrStates, RuleEvent, RuleEvents

LEMMA SentShaped ==
  ASSUME DeliveriesInv
  PROVE  Len(sent) \in 1 .. MaxEvents /\ \A k \in 1 .. Len(sent) : sent[k] \in Events
<1>1. PICK n \in 1 .. MaxEvents : sent \in [1 .. n -> Events]
  BY DEF DeliveriesInv, GitHubTypeOK, Histories
<1>2. n \in Nat /\ Len(sent) = n
  BY <1>1, GitHubAssumption
<1> QED
  BY <1>1, <1>2

LEMMA DeliveryOf ==
  ASSUME DeliveriesInv, NEW w \in Writers
  PROVE  delivery[w] \in DeliveryRows /\ DeliveryKnows(delivery[w]) /\ delivery[w].row \in IssueRows
  BY DEF DeliveriesInv, GitHubTypeOK, DeliveryRows

LEMMA NoDeliveryKnown == NoDelivery \in DeliveryRows /\ DeliveryKnows(NoDelivery) /\ NoDelivery.pc = "off" /\ ~NoDelivery.found
<1>1. 0 \in 0 .. MaxEvents
  BY GitHubAssumption
<1>2. NoDelivery \in DeliveryRows /\ NoDelivery.pc = "off" /\ NoDelivery.found = FALSE
  BY <1>1, RowEdits DEF NoDelivery, DeliveryRows
<1> QED
  BY <1>2 DEF DeliveryKnows

\* The rest of the types follows each variable.
LEMMA DeliveriesRest ==
  ASSUME DeliveriesInv, UNCHANGED github
  PROVE  DeliveriesInv'
  BY DEF DeliveriesInv, GitHubTypeOK, github, DeliveryKnows

LEMMA DeliveryMoves ==
  ASSUME DeliveriesInv, NEW w \in Writers, NEW d \in DeliveryRows, DeliveryKnows(d), delivery' = [delivery EXCEPT ![w] = d],
         UNCHANGED <<connected, linked, rules, sent, changes>>,
         refs' \in [Kinds -> [there : BOOLEAN, state : PrStates, issue : {Referenced, NoIssue}]],
         received' \in 0 .. MaxDeliveries, applied' \in 0 .. MaxEvents, disordered' \in BOOLEAN
  PROVE  DeliveriesInv'
<1>1. GitHubTypeOK'
  BY DEF DeliveriesInv, GitHubTypeOK, DeliveryRows
<1>2. \A v \in Writers : delivery'[v] = IF v = w THEN d ELSE delivery[v]
  BY DEF DeliveriesInv, GitHubTypeOK
<1>3. \A v \in Writers : DeliveryKnows(delivery[v])'
  BY <1>2 DEF DeliveriesInv, DeliveryKnows
<1> QED
  BY <1>1, <1>3 DEF DeliveriesInv

LEMMA InstallationChanges ==
  ASSUME DeliveriesInv, \/ ChangeApp \/ Connect \/ LinkRepos \/ \E event \in RuleEvents : UpdateAutoTransitions(event)
  PROVE  DeliveriesInv' /\ UNCHANGED issues
<1>1. changes' \in 0 .. MaxChanges /\ UNCHANGED <<issues, sent, delivery, received, refs, applied>>
  BY GitHubAssumption DEF ChangeApp, Connect, LinkRepos, UpdateAutoTransitions, Changes, DeliveriesInv, GitHubTypeOK
<1>2. connected' \in [app : BOOLEAN, installation : {"none", "imported", "installed"}]
  BY DEF ChangeApp, Connect, LinkRepos, UpdateAutoTransitions, DeliveriesInv, GitHubTypeOK
<1>3. linked' \in BOOLEAN /\ disordered' \in BOOLEAN
  BY DEF ChangeApp, Connect, LinkRepos, UpdateAutoTransitions, DeliveriesInv, GitHubTypeOK
<1>4. rules' \subseteq RuleEvents
  BY DEF ChangeApp, Connect, LinkRepos, UpdateAutoTransitions, DeliveriesInv, GitHubTypeOK
<1> QED
  BY <1>1, <1>2, <1>3, <1>4 DEF DeliveriesInv, GitHubTypeOK, DeliveryKnows

LEMMA UnlinkDelivers ==
  ASSUME DeliveriesInv, NEW b \in BOOLEAN, Unlink(b)
  PROVE  DeliveriesInv' /\ UNCHANGED issues
<1>1. changes' \in 0 .. MaxChanges /\ UNCHANGED <<issues, rules, sent, received, disordered>>
  BY GitHubAssumption DEF Unlink, Changes, DeliveriesInv, GitHubTypeOK
<1>2. connected' \in [app : BOOLEAN, installation : {"none", "imported", "installed"}]
  <2>1. connected \in [app : BOOLEAN, installation : {"none", "imported", "installed"}]
    BY DEF DeliveriesInv, GitHubTypeOK
  <2>2. \/ connected' = connected
        \/ \E a \in {FALSE, connected.app} : connected' = [app |-> a, installation |-> "none"]
    BY Zenon DEF Unlink
  <2>3. ASSUME NEW a \in BOOLEAN, connected' = [app |-> a, installation |-> "none"]
        PROVE  connected' \in [app : BOOLEAN, installation : {"none", "imported", "installed"}]
    BY <2>3
  <2>4. {FALSE, connected.app} \subseteq BOOLEAN
    BY <2>1
  <2> QED
    BY <2>1, <2>2, <2>3, <2>4
<1>3. linked' \in BOOLEAN /\ applied' \in 0 .. MaxEvents
  <2>1. linked' = FALSE /\ applied' = 0
    BY Zenon DEF Unlink
  <2>2. linked' \in BOOLEAN
    BY <2>1, Zenon
  <2>3. applied' \in 0 .. MaxEvents
    BY <2>1, GitHubAssumption
  <2> QED
    BY <2>2, <2>3
<1>4. refs' \in [Kinds -> [there : BOOLEAN, state : PrStates, issue : {Referenced, NoIssue}]]
  BY DEF Unlink, NoRefs, PrStates
<1>5. \A w \in Writers : delivery'[w] \in {delivery[w], NoDelivery}
  BY DEF Unlink
<1>6. \A w \in Writers : delivery'[w] \in DeliveryRows /\ DeliveryKnows(delivery'[w])
  BY <1>5, DeliveryOf, NoDeliveryKnown
<1>7. delivery' \in [Writers -> DeliveryRows]
  BY <1>6 DEF Unlink
<1> QED
  BY <1>1, <1>2, <1>3, <1>4, <1>6, <1>7 DEF DeliveriesInv, GitHubTypeOK, DeliveryRows, DeliveryKnows

LEMMA DeliversDelivers ==
  ASSUME DeliveriesInv, NEW w \in Writers, NEW k \in 1 .. Len(sent), Delivers(w, k)
  PROVE  DeliveriesInv' /\ UNCHANGED issues
<1>1. PICK d : d = [NoDelivery EXCEPT !.pc = "lookup", !.event = k]
  OBVIOUS
<1>2. k \in 0 .. MaxEvents
  BY SentShaped, GitHubAssumption
<1>3. d \in DeliveryRows /\ d.pc = "lookup" /\ d.event = k /\ d.found = NoDelivery.found
  BY <1>1, <1>2, NoDeliveryKnown DEF DeliveryRows
<1>4. DeliveryKnows(d)
  BY <1>3, NoDeliveryKnown DEF DeliveryKnows
<1>5. PICK e \in DeliveryRows : DeliveryKnows(e) /\ delivery' = [delivery EXCEPT ![w] = e]
  BY <1>1, <1>3, <1>4, NoDeliveryKnown DEF Delivers
<1>6. /\ received' \in 0 .. MaxDeliveries /\ disordered' \in BOOLEAN
      /\ UNCHANGED <<issues, connected, linked, rules, refs, sent, changes, applied>>
  BY GitHubAssumption DEF Delivers, DeliveriesInv, GitHubTypeOK
<1>7. refs' \in [Kinds -> [there : BOOLEAN, state : PrStates, issue : {Referenced, NoIssue}]] /\ applied' \in 0 .. MaxEvents
  BY <1>6 DEF DeliveriesInv, GitHubTypeOK
<1> QED
  BY <1>5, <1>6, <1>7, DeliveryMoves

\* A step of a delivery that stores nothing.
LEMMA DeliveryGoesOn ==
  ASSUME DeliveriesInv, NEW w \in Writers, NEW d \in DeliveryRows, DeliveryKnows(d), DeliveryGoes(w, d),
         UNCHANGED <<refs, applied, disordered>>
  PROVE  DeliveriesInv' /\ UNCHANGED issues
<1>1. /\ refs' \in [Kinds -> [there : BOOLEAN, state : PrStates, issue : {Referenced, NoIssue}]]
      /\ received' \in 0 .. MaxDeliveries /\ applied' \in 0 .. MaxEvents /\ disordered' \in BOOLEAN
  BY DEF DeliveriesInv, GitHubTypeOK, DeliveryGoes
<1> QED
  BY <1>1, DeliveryMoves DEF DeliveryGoes

LEMMA DeliveryAdvances ==
  ASSUME NEW old \in DeliveryRows, NEW pc \in {"resolve", "move"}
  PROVE  \E d \in DeliveryRows : /\ d = [old EXCEPT !.pc = pc] /\ d.pc = pc /\ d.event = old.event /\ d.found = old.found
                                 /\ d.row = old.row
<1>1. PICK d : d = [old EXCEPT !.pc = pc]
  OBVIOUS
<1>2. d \in DeliveryRows /\ d.pc = pc /\ d.event = old.event /\ d.found = old.found /\ d.row = old.row
  BY <1>1 DEF DeliveryRows
<1> QED
  BY <1>1, <1>2

LEMMA DeliveryResolved ==
  ASSUME NEW old \in DeliveryRows, NEW found \in BOOLEAN, NEW row \in IssueRows, found => row.live,
         old.pc = "resolve", DeliveryKnows(old),
         NEW d, d = [old EXCEPT !.pc = "store", !.found = found, !.row = row]
  PROVE  d \in DeliveryRows /\ DeliveryKnows(d)
<1>1. d \in DeliveryRows /\ d.pc = "store" /\ d.event = old.event /\ d.found = found /\ d.row = row
  BY DEF DeliveryRows
<1> QED
  BY <1>1 DEF DeliveryKnows

LEMMA LookUpDelivers ==
  ASSUME DeliveriesInv, NEW w \in Writers, LookUp(w)
  PROVE  DeliveriesInv' /\ UNCHANGED issues
<1>1. PICK old \in DeliveryRows : old = delivery[w] /\ DeliveryKnows(old) /\ old.pc = "lookup"
  BY DeliveryOf DEF LookUp
<1>2. PICK d \in DeliveryRows : d = [old EXCEPT !.pc = "resolve"] /\ d.pc = "resolve" /\ d.event = old.event
                                /\ d.found = old.found /\ d.row = old.row
  BY DeliveryAdvances
<1>3. DeliveryKnows(d)
  BY <1>1, <1>2 DEF DeliveryKnows
<1>4. DeliveryGoes(w, d) \/ DeliveryGoes(w, NoDelivery)
  BY <1>1, <1>2 DEF LookUp
<1> QED
  BY <1>3, <1>4, NoDeliveryKnown, DeliveryGoesOn DEF LookUp

LEMMA ResolveIssueDelivers ==
  ASSUME DeliveriesInv, FamilyInv, NEW w \in Writers, ResolveIssue(w)
  PROVE  DeliveriesInv' /\ UNCHANGED issues
<1>1. PICK old \in DeliveryRows : old = delivery[w] /\ DeliveryKnows(old) /\ old.pc = "resolve"
  BY DeliveryOf DEF ResolveIssue
<1>2. PICK found \in BOOLEAN : found = (sent[delivery[w].event].ref /\ issue[Referenced].live)
  OBVIOUS
<1>3. PICK row \in IssueRows : row = (IF found THEN issue[Referenced] ELSE NoRow)
  BY RowsOf, RowEdits, GitHubAssumption
<1>4. found => row.live
  BY <1>2, <1>3
<1>5. PICK d : d = [old EXCEPT !.pc = "store", !.found = found, !.row = row]
  OBVIOUS
<1>6. d \in DeliveryRows /\ DeliveryKnows(d)
  BY <1>1, <1>4, <1>5, DeliveryResolved
<1>7. DeliveryGoes(w, d)
  BY <1>1, <1>2, <1>3, <1>5 DEF ResolveIssue
<1> QED
  BY <1>6, <1>7, DeliveryGoesOn DEF ResolveIssue

LEMMA UpsertDelivers ==
  ASSUME DeliveriesInv, NEW w \in Writers, Upsert(w)
  PROVE  DeliveriesInv' /\ UNCHANGED issues
<1>1. PICK old \in DeliveryRows : old = delivery[w] /\ DeliveryKnows(old) /\ old.pc = "store"
  BY DeliveryOf DEF Upsert
<1>2. PICK e \in Events : e = sent[old.event]
  BY <1>1, SentShaped DEF DeliveryKnows
<1>3. old.event \in 0 .. MaxEvents /\ old.found \in BOOLEAN
  BY <1>1 DEF DeliveryRows
<1>4. refs \in [Kinds -> [there : BOOLEAN, state : PrStates, issue : {Referenced, NoIssue}]] /\ received \in 0 .. MaxDeliveries
  BY DEF DeliveriesInv, GitHubTypeOK
<1>5. applied \in 0 .. MaxEvents /\ disordered \in BOOLEAN
  BY DEF DeliveriesInv, GitHubTypeOK
<1>6. PICK d \in DeliveryRows : d = [old EXCEPT !.pc = "move"] /\ d.pc = "move" /\ d.event = old.event
                                /\ d.found = old.found /\ d.row = old.row
  BY DeliveryAdvances
<1>7. old.found => DeliveryKnows(d)
  BY <1>1, <1>6 DEF DeliveryKnows
<1>8. CASE old.found /\ ~issue[Referenced].live
  <2>1. DeliveryGoes(w, NoDelivery) /\ UNCHANGED <<refs, applied, disordered>>
    BY <1>1, <1>8 DEF Upsert
  <2> QED
    BY <2>1, NoDeliveryKnown, DeliveryGoesOn
<1>9. CASE ~(old.found /\ ~issue[Referenced].live)
  <2>1. PICK next \in DeliveryRows : DeliveryKnows(next) /\ DeliveryGoes(w, next)
    BY <1>1, <1>2, <1>6, <1>7, <1>9, NoDeliveryKnown DEF Upsert
  <2>2. PICK row : /\ row = [there |-> TRUE, state |-> PrState(e), issue |-> KeptLink(e.kind, old.found)]
                   /\ refs' = [refs EXCEPT ![e.kind] = row]
    BY <1>1, <1>2, <1>9 DEF Upsert
  <2>3. row \in [there : BOOLEAN, state : PrStates, issue : {Referenced, NoIssue}]
    BY <1>4, <2>2, EventsShaped DEF KeptLink
  <2>4. refs' \in [Kinds -> [there : BOOLEAN, state : PrStates, issue : {Referenced, NoIssue}]]
    BY <1>4, <2>2, <2>3
  <2>5. applied' \in {old.event, applied}
    BY <1>1, <1>2, <1>9 DEF Upsert
  <2>6. \E b \in BOOLEAN : disordered' = b
    <3>1. CASE e.kind = "pr"
      BY <1>1, <1>2, <1>9, <3>1 DEF Upsert
    <3>2. CASE e.kind # "pr"
      BY <1>1, <1>2, <1>9, <3>2 DEF Upsert
    <3> QED
      BY <3>1, <3>2
  <2>7. disordered' \in BOOLEAN
    BY <2>6, Zenon
  <2>8. applied' \in 0 .. MaxEvents
    BY <1>3, <1>5, <2>5
  <2>9. /\ delivery' = [delivery EXCEPT ![w] = next] /\ received' \in 0 .. MaxDeliveries
        /\ UNCHANGED <<issues, connected, linked, rules, sent, received, changes>>
    BY <1>4, <2>1 DEF DeliveryGoes
  <2>10. UNCHANGED <<connected, linked, rules, sent, changes>>
    BY <2>9
  <2>11. DeliveriesInv'
    BY <2>1, <2>4, <2>7, <2>8, <2>9, <2>10, DeliveryMoves
  <2> QED
    BY <2>9, <2>11
<1> QED
  BY <1>8, <1>9

LEMMA TransitionDelivers ==
  ASSUME DeliveriesInv, FamilyInv, NEW w \in Writers, Transition(w)
  PROVE  DeliveriesInv' /\ FamilyInv'
<1>1. PICK old \in DeliveryRows : old = delivery[w] /\ DeliveryKnows(old) /\ old.pc = "move"
  BY DeliveryOf DEF Transition
<1>2. old.row \in IssueRows /\ old.row.live
  BY <1>1 DEF DeliveryRows, DeliveryKnows
<1>3. PICK event : event = RuleEvent(sent[old.event])
  OBVIOUS
<1>4. rules \subseteq RuleEvents
  BY DEF DeliveriesInv, GitHubTypeOK
<1>5. ASSUME event \in rules, old.row.status # Target[event]
      PROVE  FamilyInv'
  <2>1. Target[event] \in Statuses
    BY <1>4, <1>5 DEF Target, RuleEvents, Statuses
  <2>2. InState(old.row, Target[event]) \in IssueRows /\ InState(old.row, Target[event]).live
    BY <1>2, <2>1, RowEdits
  <2>3. Task("status", Referenced, InState(old.row, Target[event])) \in FitTasks
    BY <2>2, GitHubAssumption, TaskFitsIn
  <2>4. PICK todo \in Seq(FitTasks) : todo = <<Task("status", Referenced, InState(old.row, Target[event]))>>
    BY <2>3, OneTask
  <2>5. {Referenced} \in SUBSET Issues
    BY GitHubAssumption
  <2>6. PICK self : self = [Idle EXCEPT !.pc = "run", !.roots = {Referenced}, !.todo = todo]
    OBVIOUS
  <2>7. self \in WriterRows /\ self.pc = "run"
    BY <2>4, <2>5, <2>6 DEF Idle, WriterRows
  <2>8. WriteFits(self)
    BY <2>7 DEF WriteFits
  <2>9. writer' = [writer EXCEPT ![w] = self] /\ UNCHANGED <<issue, cycle, team, crossed>>
    BY <1>1, <1>3, <1>5, <2>4, <2>6 DEF Transition
  <2> QED
    BY <2>7, <2>8, <2>9, WriterMoves
<1>6. ASSUME ~(event \in rules /\ old.row.status # Target[event])
      PROVE  FamilyInv'
  <2>1. UNCHANGED issues
    BY <1>1, <1>3, <1>6 DEF Transition
  <2> QED
    BY <2>1, FamilyRests
<1>7. DeliveriesInv'
  <2>1. /\ refs' \in [Kinds -> [there : BOOLEAN, state : PrStates, issue : {Referenced, NoIssue}]]
        /\ received' \in 0 .. MaxDeliveries /\ applied' \in 0 .. MaxEvents /\ disordered' \in BOOLEAN
        /\ delivery' = [delivery EXCEPT ![w] = NoDelivery]
        /\ UNCHANGED <<connected, linked, rules, sent, changes>>
    BY DEF Transition, DeliveriesInv, GitHubTypeOK
  <2> QED
    BY <2>1, NoDeliveryKnown, DeliveryMoves
<1> QED
  BY <1>5, <1>6, <1>7

LEMMA UserMovesDelivers ==
  ASSUME DeliveriesInv, FamilyInv, NEW w \in Writers, UserMoves(EditIssue(w, Referenced) \/ DeleteIssues(w, {Referenced}))
  PROVE  DeliveriesInv' /\ FamilyInv'
<1>1. FamilyInv'
  <2>1. Referenced \in Issues /\ {Referenced} \in SUBSET Issues
    BY GitHubAssumption
  <2> QED
    BY <2>1, EditIssueKeeps, DeleteIssuesKeeps DEF UserMoves
<1>2. /\ changes' \in 0 .. MaxChanges /\ UNCHANGED <<connected, linked, rules, sent, delivery, received, applied>>
      /\ disordered' = TRUE
  BY GitHubAssumption DEF UserMoves, Changes, DeliveriesInv, GitHubTypeOK
<1>3. disordered' \in BOOLEAN
  BY <1>2, Zenon
<1>4. refs' \in [Kinds -> [there : BOOLEAN, state : PrStates, issue : {Referenced, NoIssue}]]
  <2>1. refs \in [Kinds -> [there : BOOLEAN, state : PrStates, issue : {Referenced, NoIssue}]]
    BY DEF DeliveriesInv, GitHubTypeOK
  <2>2. ASSUME NEW k \in Kinds
        PROVE  \E i \in {Referenced, NoIssue} : refs'[k] = [refs[k] EXCEPT !.issue = i]
    BY <2>1 DEF UserMoves
  <2>3. ASSUME NEW k \in Kinds
        PROVE  refs'[k] \in [there : BOOLEAN, state : PrStates, issue : {Referenced, NoIssue}]
    <3>1. PICK i \in {Referenced, NoIssue} : refs'[k] = [refs[k] EXCEPT !.issue = i]
      BY <2>2
    <3> QED
      BY <2>1, <3>1
  <2>4. refs' = [k \in Kinds |-> refs'[k]]
    BY DEF UserMoves
  <2> QED
    BY <2>3, <2>4
<1>5. DeliveriesInv'
  BY <1>2, <1>3, <1>4 DEF DeliveriesInv, GitHubTypeOK, DeliveryKnows
<1> QED
  BY <1>1, <1>5

-----------------------------------------------------------------------------
(* The tracker, and its initial states *)

LEMMA FirstOf == \A S : S # {} => First(S) \in S
  BY DEF First

LEMMA PlansRest ==
  ASSUME PlanningInv, UNCHANGED planning
  PROVE  PlanningInv'
  BY DEF PlanningInv, planning, PlanKnows

LEMMA GitHubAreaTracks ==
  ASSUME TrackerInv, area \in Areas, GitHubArea
  PROVE  TrackerInv'
<1>1. PlanningInv'
  BY PlansRest DEF GitHubArea, TrackerInv
<1>2. Deliverers \subseteq Writers
  <2>1. area[2] \in {"none", "change", "delivery"}
    BY DEF GitHubArea, On, Areas
  <2> QED
    BY <2>1, Firsts DEF Deliverers
<1>3. ASSUME DeliveriesInv', UNCHANGED issues
      PROVE  TrackerInv'
  BY <1>1, <1>3, FamilyRests DEF TrackerInv
<1>4. CASE ChangeApp \/ Connect \/ LinkRepos \/ \E event \in RuleEvents : UpdateAutoTransitions(event)
  BY <1>3, <1>4, InstallationChanges DEF TrackerInv
<1>5. CASE \E b \in BOOLEAN : Unlink(b)
  BY <1>3, <1>5, UnlinkDelivers DEF TrackerInv
<1>6. CASE \E w \in Deliverers : \E k \in 1 .. Len(sent) : Delivers(w, k)
  BY <1>2, <1>3, <1>6, DeliversDelivers DEF TrackerInv
<1>7. CASE \E w \in Writers : LookUp(w) \/ ResolveIssue(w) \/ Upsert(w)
  BY <1>3, <1>7, LookUpDelivers, ResolveIssueDelivers, UpsertDelivers DEF TrackerInv
<1>8. CASE \E w \in Writers : Transition(w)
  BY <1>1, <1>8, TransitionDelivers DEF TrackerInv
<1>9. CASE \E w \in Writers : WriterStep(w) /\ UNCHANGED github
  BY <1>1, <1>9, WriterStepKeeps, DeliveriesRest DEF TrackerInv
<1>10. CASE \E w \in Writers : UserMoves(EditIssue(w, Referenced) \/ DeleteIssues(w, {Referenced}))
  BY <1>1, <1>10, UserMovesDelivers DEF TrackerInv
<1> QED
  BY <1>4, <1>5, <1>6, <1>7, <1>8, <1>9, <1>10 DEF GitHubArea, GitHubNext, DeliveryStep

LEMMA IssuesAreaTracks ==
  ASSUME TrackerInv, IssuesArea
  PROVE  TrackerInv'
<1>1. FamilyInv'
  BY IssueRequestKeeps, WriterStepKeeps DEF IssuesArea, TrackerInv
<1> QED
  BY <1>1, PlansRest, DeliveriesRest DEF IssuesArea, TrackerInv

LEMMA CyclesAreaTracks ==
  ASSUME TrackerInv, CyclesArea
  PROVE  TrackerInv'
<1>1. TablesInv'
  BY CyclesAreaPlans DEF TablesInv, TrackerInv
<1> QED
  BY <1>1, DeliveriesRest DEF CyclesArea, TrackerInv, TablesInv

LEMMA RelationsAreaTracks ==
  ASSUME TrackerInv, RelationsArea
  PROVE  TrackerInv'
<1>1. CASE RelationsNext
  <2>1. UNCHANGED issues
    BY <1>1 DEF RelationsNext, CreateRelation, DeleteRelation, CreateInverse, DropInverse, DropRow
  <2> QED
    BY <2>1, FamilyRests, PlansRest, DeliveriesRest DEF RelationsArea, TrackerInv
<1>2. CASE \E i \in Issues : LinkedIssuesGo(DeleteIssues(FirstWriter, {i}))
  <2>1. PICK i \in Issues : DeleteIssues(FirstWriter, {i})
    BY <1>2 DEF LinkedIssuesGo
  <2>2. {i} \in SUBSET Issues
    OBVIOUS
  <2>3. FamilyInv'
    BY <2>1, <2>2, DeleteIssuesKeeps DEF TrackerInv
  <2> QED
    BY <2>3, PlansRest, DeliveriesRest DEF RelationsArea, TrackerInv
<1> QED
  BY <1>1, <1>2 DEF RelationsArea

LEMMA TrackerRests ==
  ASSUME TrackerInv, UNCHANGED <<issues, planning, github>>
  PROVE  TrackerInv'
  BY FamilyRests, PlansRest, DeliveriesRest DEF TrackerInv

LEMMA TrackerMoves ==
  ASSUME TrackerInv, area \in Areas, [AppNext]_app
  PROVE  TrackerInv'
<1>1. CASE IssuesArea \/ CyclesArea \/ GitHubArea \/ RelationsArea
  BY <1>1, IssuesAreaTracks, CyclesAreaTracks, GitHubAreaTracks, RelationsAreaTracks
<1>2. CASE UNCHANGED <<issues, planning, github>>
  BY <1>2, TrackerRests
<1> QED
  BY <1>1, <1>2 DEF AppNext, app

LEMMA TwoIssues == FirstIssue \in Issues /\ SecondIssue \in Issues /\ SecondIssue # FirstIssue
<1>1. Issues \ {FirstIssue} # {}
  BY AreasAssumption
<1> QED
  BY <1>1, FirstOf, Firsts DEF SecondIssue

\* In the first families nobody is above the first issue, only it above the
\* second, and only the two above the others.
LEMMA FirstFamilies ==
  ASSUME NEW f \in IssueTables, f[FirstIssue].parent = NoIssue, f[SecondIssue].parent \in {FirstIssue, NoIssue},
         \A i \in Issues : f[i].parent \in {FirstIssue, SecondIssue, NoIssue}
  PROVE  Loopless(f)
<1>1. ASSUME NEW i \in Issues, NEW S \in SUBSET Issues, i \notin S, \A k \in S \cup {i} : f[k].parent \in S \cup {NoIssue}
      PROVE  i \notin Ancestors(f, i)
  BY <1>1, AncestorsLeast
<1>2. FirstIssue \notin Ancestors(f, FirstIssue)
  <2>1. {} \in SUBSET Issues
    OBVIOUS
  <2> QED
    BY <1>1, <2>1, TwoIssues
<1>3. SecondIssue \notin Ancestors(f, SecondIssue)
  <2>1. {FirstIssue} \in SUBSET Issues /\ SecondIssue \notin {FirstIssue}
    BY TwoIssues
  <2>2. \A k \in {FirstIssue} \cup {SecondIssue} : f[k].parent \in {FirstIssue} \cup {NoIssue}
    OBVIOUS
  <2> QED
    BY <1>1, <2>1, <2>2, TwoIssues
<1>4. ASSUME NEW i \in Issues, i \notin {FirstIssue, SecondIssue}
      PROVE  i \notin Ancestors(f, i)
  <2>1. {FirstIssue, SecondIssue} \in SUBSET Issues
    BY TwoIssues
  <2>2. \A k \in {FirstIssue, SecondIssue} \cup {i} : f[k].parent \in {FirstIssue, SecondIssue} \cup {NoIssue}
    BY <1>4, TwoIssues
  <2> QED
    BY <1>1, <1>4, <2>1, <2>2
<1> QED
  BY <1>2, <1>3, <1>4 DEF Loopless

LEMMA FamilyBegins ==
  ASSUME NEW parents \in [Issues -> {FirstIssue, SecondIssue, NoIssue}], parents[FirstIssue] = NoIssue,
         parents[SecondIssue] \in {FirstIssue, NoIssue}
  PROVE  Family(parents) \in IssueTables /\ FamilyThere(Family(parents)) /\ Loopless(Family(parents))
<1>1. ASSUME NEW i \in Issues
      PROVE  Family(parents)[i] \in IssueRows /\ Family(parents)[i].live /\ Family(parents)[i].parent = parents[i]
  <2>1. PICK b \in BOOLEAN : b = (i # SecondIssue)
    OBVIOUS
  <2>2. PICK p \in Issues \cup {NoIssue} : p = parents[i]
    BY TwoIssues
  <2>3. Family(parents)[i] = [NoRow EXCEPT !.live = TRUE, !.parent = p, !.triaged = b]
    BY <2>1, <2>2 DEF Family
  <2>4. NoRow \in IssueRows
    BY RowEdits
  <2>5. PICK row : row = [NoRow EXCEPT !.live = TRUE, !.parent = p, !.triaged = b]
    OBVIOUS
  <2>6. row \in IssueRows /\ row.live /\ row.parent = p
    BY <2>4, <2>5 DEF IssueRows
  <2> QED
    BY <2>2, <2>3, <2>5, <2>6
<1>2. Family(parents) \in IssueTables
  BY <1>1 DEF Family, IssueTables
<1>3. FamilyThere(Family(parents))
  BY <1>1, TwoIssues DEF FamilyThere
<1> QED
  BY <1>1, <1>2, <1>3, FirstFamilies, TwoIssues

LEMMA FamiliesBegin ==
  ASSUME NEW f \in Families
  PROVE  f \in IssueTables /\ FamilyThere(f) /\ Loopless(f)
<1>1. CASE f = Family([i \in Issues |-> NoIssue])
  BY <1>1, FamilyBegins, TwoIssues
<1>2. CASE f = Family([i \in Issues |-> IF i = SecondIssue THEN FirstIssue ELSE NoIssue])
  BY <1>2, FamilyBegins, TwoIssues
<1>3. CASE f = Family([i \in Issues |-> IF i = FirstIssue THEN NoIssue ELSE IF i = SecondIssue THEN FirstIssue ELSE SecondIssue])
  BY <1>3, FamilyBegins, TwoIssues
<1>4. CASE f = Family([i \in Issues |-> IF i = FirstIssue THEN NoIssue ELSE FirstIssue])
  BY <1>4, FamilyBegins, TwoIssues
<1> QED
  BY <1>1, <1>2, <1>3, <1>4 DEF Families

LEMMA PairBegins ==
  ASSUME NEW first \in IssueRows, NEW second \in IssueRows, first.live, first.parent = NoIssue,
         second.parent \in {FirstIssue, NoIssue}
  PROVE  Pair(first, second) \in IssueTables /\ FamilyThere(Pair(first, second)) /\ Loopless(Pair(first, second))
<1> DEFINE f == Pair(first, second)
<1>1. f \in IssueTables
  BY RowEdits DEF Pair, IssueTables
<1>2. /\ f[FirstIssue] = first /\ f[SecondIssue] = second
      /\ \A i \in Issues \ {FirstIssue, SecondIssue} : f[i] = NoRow
  BY TwoIssues DEF Pair
<1>3. NoRow.parent = NoIssue
  BY DEF NoRow
<1> HIDE DEF f
<1>4. \A i \in Issues : f[i].parent \in {FirstIssue, NoIssue}
  BY <1>2, <1>3
<1>5. FamilyThere(f)
  BY <1>2, <1>4 DEF FamilyThere
<1>6. Loopless(f)
  BY <1>1, <1>2, <1>4, FirstFamilies
<1> QED
  BY <1>1, <1>5, <1>6 DEF f

\* The rows that the areas begin with.
LEMMA FirstRows ==
  /\ Live \in IssueRows /\ Live.live /\ Live.parent = NoIssue
  /\ Sub \in IssueRows /\ Sub.parent = FirstIssue
  /\ InState([Live EXCEPT !.cycle = FirstCycle], "in_progress") \in IssueRows
  /\ InState([Live EXCEPT !.cycle = FirstCycle], "in_progress").live
  /\ InState([Live EXCEPT !.cycle = FirstCycle], "in_progress").parent = NoIssue
  /\ InState(Live, "done") \in IssueRows /\ InState(Live, "done").parent = NoIssue
<1>1. Live \in IssueRows /\ Live.live /\ Live.parent = NoIssue
  BY RowEdits DEF Live, NoRow, IssueRows
<1>2. Sub \in IssueRows /\ Sub.parent = FirstIssue
  BY <1>1, RowEdits, Firsts DEF Sub
<1>3. PICK row \in IssueRows : row = [Live EXCEPT !.cycle = FirstCycle] /\ row.live /\ row.parent = NoIssue
  BY <1>1, RowEdits, Firsts
<1>4. /\ InState(row, "in_progress") \in IssueRows /\ InState(row, "in_progress").live
      /\ InState(row, "in_progress").parent = NoIssue
  BY <1>3, RowEdits DEF Statuses
<1>5. InState(Live, "done") \in IssueRows /\ InState(Live, "done").parent = NoIssue
  BY <1>1, RowEdits DEF Statuses
<1> QED
  BY <1>1, <1>2, <1>3, <1>4, <1>5

LEMMA IssuesBegin ==
  ASSUME IssueInit
  PROVE  issue \in IssueTables /\ FamilyThere(issue) /\ Loopless(issue)
<1>1. \/ issue = Pair(InState([Live EXCEPT !.cycle = FirstCycle], "in_progress"), InState(Live, "done"))
      \/ issue = Pair(Live, Sub)
      \/ issue = Pair(Live, Live)
      \/ issue \in Families
  BY DEF IssueInit
<1> QED
  BY <1>1, FirstRows, PairBegins, FamiliesBegin

LEMMA FamilyBeginsSafe ==
  ASSUME IssueInit
  PROVE  FamilyInv
<1>1. issue \in IssueTables /\ FamilyThere(issue) /\ Loopless(issue)
  BY IssuesBegin
<1>2. ParentsThere /\ NoParentLoop
  BY <1>1, AboveAncestors DEF FamilyThere, ParentsThere, Loopless, NoParentLoop
<1>3. cycle \in [Cycles -> CycleRows]
  <2>1. [status |-> "active", from |-> 1, to |-> 2, number |-> 1] \in CycleRows
    BY AreasAssumption DEF CycleRows
  <2>2. [status |-> "upcoming", from |-> 2, to |-> 3, number |-> 2] \in CycleRows
    BY AreasAssumption DEF CycleRows
  <2>3. NoPlan.row \in CycleRows
    BY EmptyPlans
  <2>4. \A c \in Cycles : cycle[c] \in CycleRows
    BY <2>1, <2>2, <2>3 DEF IssueInit
  <2>5. cycle = [c \in Cycles |-> cycle[c]]
    BY DEF IssueInit
  <2> QED
    BY <2>4, <2>5
<1>4. team \in [closeParent : BOOLEAN, closeSubs : BOOLEAN, triage : BOOLEAN]
  BY DEF IssueInit
<1>5. crossed \in BOOLEAN
  BY DEF IssueInit
<1>6. Idle \in WriterRows /\ Idle.pc = "idle"
  BY NoTasks DEF Idle, WriterRows
<1>7. writer = [w \in Writers |-> Idle]
  BY DEF IssueInit
<1>8. writer \in [Writers -> WriterRows] /\ \A w \in Writers : WriteFits(writer[w])
  BY <1>6, <1>7 DEF WriteFits
<1> QED
  BY <1>1, <1>2, <1>3, <1>4, <1>5, <1>8 DEF FamilyInv, TablesTyped, IssueTables

LEMMA PlanningBegins ==
  ASSUME IssueInit
  PROVE  PlanningInv
<1>1. planner = [p \in Planners |-> NoPlan] /\ rushed = FALSE
  BY DEF IssueInit
<1>2. rushed \in BOOLEAN
  BY <1>1, Zenon
<1> QED
  BY <1>1, <1>2, EmptyPlans DEF PlanningInv, PlanKnows

LEMMA ShortHistory == \E h \in Histories : Len(h) = 1
<1>1. PICK e : e = [kind |-> "branch", action |-> "opened", state |-> "open", draft |-> FALSE, merged |-> FALSE, ref |-> FALSE]
  OBVIOUS
<1>2. e \in Events /\ e.kind # "pr"
  BY <1>1 DEF Events, Kinds
<1>3. <<e>> \in [1 .. 1 -> Events] /\ Len(<<e>>) = 1
  BY <1>2
<1>4. 1 \in 1 .. MaxEvents
  BY GitHubAssumption
<1>5. <<e>> \in UNION {[1 .. n -> Events] : n \in 1 .. MaxEvents}
  BY <1>3, <1>4
<1>6. \A j, k \in DOMAIN <<e>> : ~(j < k)
  OBVIOUS
<1> QED
  BY <1>3, <1>5, <1>6 DEF Histories

LEMMA DeliveriesBegin ==
  ASSUME GitHubInit
  PROVE  DeliveriesInv
<1>1. sent \in Histories
  <2>1. First({h \in Histories : Len(h) = 1}) \in Histories
    BY ShortHistory, FirstOf
  <2>2. Emitted \subseteq Histories
    BY <2>1 DEF Emitted
  <2> QED
    BY <2>2 DEF GitHubInit
<1>2. connected \in [app : BOOLEAN, installation : {"none", "imported", "installed"}]
  <2>1. \/ connected = [app |-> TRUE, installation |-> "installed"]
        \/ connected = [app |-> FALSE, installation |-> "imported"]
    BY DEF GitHubInit
  <2>2. /\ [app |-> TRUE, installation |-> "installed"] \in [app : BOOLEAN, installation : {"none", "imported", "installed"}]
        /\ [app |-> FALSE, installation |-> "imported"] \in [app : BOOLEAN, installation : {"none", "imported", "installed"}]
    OBVIOUS
  <2> QED
    BY <2>1, <2>2
<1>3. linked \in BOOLEAN /\ disordered \in BOOLEAN
  <2>1. linked = TRUE /\ disordered = FALSE
    BY DEF GitHubInit
  <2> QED
    BY <2>1, Zenon
<1>4. rules \subseteq RuleEvents
  BY DEF GitHubInit
<1>5. refs \in [Kinds -> [there : BOOLEAN, state : PrStates, issue : {Referenced, NoIssue}]]
  BY DEF GitHubInit, NoRefs, PrStates
<1>6. received \in 0 .. MaxDeliveries /\ changes \in 0 .. MaxChanges /\ applied \in 0 .. MaxEvents
  BY GitHubAssumption DEF GitHubInit
<1>7. delivery \in [Writers -> DeliveryRows] /\ \A w \in Writers : DeliveryKnows(delivery[w])
  BY NoDeliveryKnown DEF GitHubInit
<1> QED
  BY <1>1, <1>2, <1>3, <1>4, <1>5, <1>6, <1>7 DEF DeliveriesInv, GitHubTypeOK, DeliveryRows

LEMMA TrackerHolds == AppSpec => [](TrackerInv /\ area \in Areas)
<1>1. AppInit => TrackerInv /\ area \in Areas
  BY FamilyBeginsSafe, PlanningBegins, DeliveriesBegin, ExploredAssumption DEF AppInit, TrackerInv
<1>2. TrackerInv /\ area \in Areas /\ [AppNext]_app => (TrackerInv /\ area \in Areas)'
  BY TrackerMoves DEF AppNext, app
<1> QED
  BY <1>1, <1>2, PTL DEF AppSpec

\* No issue is its own ancestor, whatever copies the requests, the automation
\* and the deliveries write back, unless two statements that move issues were in
\* flight at once (validateParentID, prevent_issue_parent_cycle, Update, Delete).
THEOREM NoIssueIsItsAncestor == AppSpec => []NoParentLoop
<1>1. TrackerInv => NoParentLoop
  BY DEF TrackerInv, FamilyInv
<1> QED
  BY <1>1, TrackerHolds, PTL

\* The tables of issues and cycles, the requests and the plans at work on them,
\* and the deliveries have their types in every area of the tracker.
THEOREM TrackerIsTyped == AppSpec => [](IssuesTypeOK /\ PlanningTypeOK /\ GitHubTypeOK)
<1>1. ASSUME TrackerInv PROVE IssuesTypeOK /\ PlanningTypeOK /\ GitHubTypeOK
  <2>1. \A s \in Seq(FitTasks) : s \in Seq(Tasks)
    BY DEF FitTasks
  <2>2. ASSUME NEW w \in Writers
        PROVE  /\ writer[w] \in [pc : {"idle", "run", "write", "done"}, todo : Seq(Tasks), visited : SUBSET Issues,
                                 roots : SUBSET Issues, stale : BOOLEAN, disturbed : BOOLEAN]
               /\ writer[w].pc = "write" => writer[w].todo # <<>>
    BY <1>1, <2>1 DEF TrackerInv, FamilyInv, WriterRows, WriteFits
  <2>3. IssuesTypeOK
    BY <1>1, <2>2 DEF IssuesTypeOK, TrackerInv, FamilyInv, TablesTyped
  <2>4. PlanningTypeOK
    BY <1>1 DEF PlanningTypeOK, TrackerInv, PlanningInv, PlanRows
  <2> QED
    BY <1>1, <2>3, <2>4 DEF TrackerInv, DeliveriesInv
<1> QED
  BY <1>1, TrackerHolds, PTL

LEMMA RelationsAreTyped == AppSpec => []RelationsTypeOK
<1>1. RowsInv /\ [AppNext]_app => RowsInv'
  BY RowsNext
<1>2. RowsInv => RelationsTypeOK
  BY DEF RowsInv, RowsTyped, Linkers, RelationsTypeOK
<1> QED
  BY RowsStart, <1>1, <1>2, PTL DEF AppSpec

LEMMA AreaIsExplored == AppSpec => [](area \in Explored)
<1>1. AppInit => area \in Explored
  BY DEF AppInit
<1>2. area \in Explored /\ [AppNext]_app => (area \in Explored)'
  BY DEF AppNext, app
<1> QED
  BY <1>1, <1>2, PTL DEF AppSpec

\* Every variable of the application has its type, in every area and for any
\* number of issues, requests, rows, sockets, sessions and notices: what
\* the services and the hub hold between two statements is always well formed.
THEOREM ApplicationIsTyped == AppSpec => []AppTypeOK
<1>1. /\ IssuesTypeOK /\ PlanningTypeOK /\ GitHubTypeOK
      /\ RelationsTypeOK /\ AccountsTypeOK /\ PresenceTypeOK /\ TransferTypeOK /\ NotificationsTypeOK
      /\ area \in Explored
      => AppTypeOK
  BY DEF AppTypeOK
<1> QED
  BY <1>1, TrackerIsTyped, RelationsAreTyped, AccountsAreTyped, PresenceIsTyped, TransferIsTyped,
     NotificationsAreTyped, AreaIsExplored, PTL

-----------------------------------------------------------------------------
(* A merge that is handled alone *)

\* The automation changes the status of an issue and nothing else.
AllButStatus(row, old) == (row.live <=> old.live) /\ row.parent = old.parent /\ row.cycle = old.cycle

\* What a delivery makes a writer do: the move of the issue it names, and the
\* closing of others, with copies that are not stale but for their status.
Chores(rows, merged) ==
  {t \in FitTasks :
     /\ t.do \in {"status", "close", "apply", "parent", "count"}
     /\ t.do # "parent" => AllButStatus(t.row, rows[t.id])
     /\ t.do = "status" => t.id = Referenced /\ t.row.status = t.row.state /\ (merged => t.row.state = "done")
     /\ t.do = "close" => t.row.status = "done" /\ t.row.state = "done"}

Working(w) == writer[w].pc \in {"run", "write"}
OneBusy ==
  /\ \A v, w \in Writers : Busy(v) /\ Busy(w) => v = w
  /\ \A w \in Writers : delivery[w].pc # "off" => ~Working(w)

FamilyStands ==
  /\ \A i \in Issues : i \notin Above(i) /\ Refers(issue[i])
  /\ issue[Referenced].status = issue[Referenced].state

Merged == applied # 0 /\ sent[applied].merged /\ sent[applied].ref

\* Nothing has written the issue since a delivery read it.
Found(d) ==
  d.pc \in {"store", "move"} =>
    /\ d.found <=> sent[d.event].ref /\ issue[Referenced].live
    /\ d.found => d.row = issue[Referenced]
CopiesFit ==
  /\ \A w \in Writers : Working(w) => writer[w].todo \in Seq(Chores(issue, Merged))
  /\ \A w \in Writers : Found(delivery[w])

\* The rules are there before the first delivery that is not turned away.
RulesThere ==
  rules # RuleEvents => connected.installation # "installed" /\ applied = 0 /\ \A w \in Writers : delivery[w].pc = "off"

MovesReferenced(todo) == todo # <<>> /\ Head(todo).do = "status"
Pending(w) == delivery[w].pc = "move" \/ (Working(w) /\ MovesReferenced(writer[w].todo))
MergeStands ==
  Merged =>
    /\ \A w \in Writers : delivery[w].pc = "move" => delivery[w].event = applied
    /\ issue[Referenced].live => issue[Referenced].state = "done" \/ \E w \in Writers : Pending(w)

InOrder == OneBusy /\ FamilyStands /\ CopiesFit /\ RulesThere /\ MergeStands
MergeInv == IF On("delivery") THEN disordered \/ InOrder ELSE applied = 0

LEMMA ChoresStay ==
  ASSUME NEW rows \in IssueTables, NEW new \in IssueTables, \A i \in Issues : AllButStatus(new[i], rows[i]),
         NEW m \in BOOLEAN, NEW n \in BOOLEAN, n => m
  PROVE  Chores(rows, m) \subseteq Chores(new, n) /\ \A todo \in Seq(Chores(rows, m)) : todo \in Seq(Chores(new, n))
<1>1. ASSUME NEW t \in Chores(rows, m)
      PROVE  t \in Chores(new, n)
  <2>1. t.do # "parent" => t.id \in Issues
    BY DEF Chores, FitTasks, TaskFits
  <2> QED
    BY <2>1 DEF Chores, AllButStatus
<1>2. Chores(rows, m) \subseteq Chores(new, n)
  BY <1>1
<1> QED
  BY <1>2

LEMMA FamilyStays ==
  ASSUME TrackerInv, FamilyStands, issue' \in IssueTables, cycle' = cycle,
         \A i \in Issues : AllButStatus(issue'[i], issue[i]), issue'[Referenced].status = issue'[Referenced].state
  PROVE  FamilyStands'
<1>1. issue \in IssueTables
  BY DEF TrackerInv, FamilyInv, TablesTyped, IssueTables
<1>2. ASSUME NEW i \in Issues
      PROVE  (i \notin Above(i))'
  <2>1. \A k \in Issues : issue'[k].parent \in {issue[k].parent, NoIssue}
    BY DEF AllButStatus
  <2>2. Ancestors(issue', i) \subseteq Ancestors(issue, i)
    BY <1>1, <2>1, FewerAncestors
  <2> QED
    BY <2>2, AboveAncestors DEF FamilyStands
<1>3. ASSUME NEW i \in Issues
      PROVE  Refers(issue[i])'
  <2>1. issue[i].parent \in Issues \cup {NoIssue}
    BY <1>1 DEF IssueTables, IssueRows
  <2>2. Refers(issue[i])
    BY DEF FamilyStands
  <2> QED
    BY <2>1, <2>2 DEF Refers, AllButStatus
<1> QED
  BY <1>2, <1>3 DEF FamilyStands

\* No loop is closed by writing the parent that an issue has.
LEMMA OwnParent ==
  ASSUME TrackerInv, FamilyStands, NEW i \in Issues
  PROVE  ~ParentCycle(i, issue[i].parent)
<1> SUFFICES ASSUME issue[i].parent # NoIssue PROVE ~WouldCreateCycle(i, issue[i].parent)
  BY DEF ParentCycle
<1>1. issue \in IssueTables
  BY DEF TrackerInv, FamilyInv, TablesTyped, IssueTables
<1>2. PICK p \in Issues : p = issue[i].parent
  BY <1>1 DEF IssueTables, IssueRows
<1>3. \A k \in Ancestors(issue, i) \cup {i} : issue[k].parent \in Ancestors(issue, i) \cup {NoIssue}
  BY <1>1, AncestorsClosed
<1>4. p \in Ancestors(issue, i)
  BY <1>2, <1>3
<1>5. Ancestors(issue, p) \subseteq Ancestors(issue, i)
  <2>1. Ancestors(issue, i) \in SUBSET Issues
    BY DEF Ancestors
  <2> QED
    BY <1>3, <1>4, <2>1, AncestorsLeast
<1>6. i \notin Ancestors(issue, i)
  BY AboveAncestors DEF FamilyStands
<1> QED
  BY <1>2, <1>4, <1>5, <1>6, AboveAncestors DEF WouldCreateCycle

LEMMA OthersRest ==
  ASSUME OneBusy, NEW w \in Writers, Busy(w)
  PROVE  \A v \in Writers \ {w} : ~Busy(v) /\ ~Working(v) /\ delivery[v].pc = "off"
  BY DEF OneBusy, Busy, Working

LEMMA SettledMerge ==
  ASSUME MergeStands, \A v \in Writers : ~Pending(v)
  PROVE  Merged /\ issue[Referenced].live => issue[Referenced].state = "done"
  BY DEF MergeStands

-----------------------------------------------------------------------------
(* The steps of deliveries *)

LEMMA IssuesAsTheyAre ==
  ASSUME TrackerInv, UNCHANGED issues
  PROVE  /\ issue' = issue /\ writer' = writer /\ cycle' = cycle /\ issue \in IssueTables
         /\ \A i \in Issues : AllButStatus(issue'[i], issue[i])
  BY DEF issues, AllButStatus, TrackerInv, FamilyInv, TablesTyped, IssueTables

\* A step of the delivery that w handles, while nobody else is at work.
LEMMA DeliveryKeepsOrder ==
  ASSUME TrackerInv, InOrder, UNCHANGED <<issues, sent, rules, connected>>, NEW w \in Writers, ~Working(w),
         \A v \in Writers \ {w} : ~Busy(v),
         NEW d \in DeliveryRows, delivery' = [delivery EXCEPT ![w] = d],
         d.pc # "off" \/ applied' # applied => rules = RuleEvents,
         Found(d), Merged' /\ d.pc = "move" => d.event = applied',
         Merged' /\ issue[Referenced].live => issue[Referenced].state = "done" \/ d.pc = "move"
  PROVE  InOrder'
<1>1. issue' = issue /\ writer' = writer /\ cycle' = cycle
  BY IssuesAsTheyAre DEF issues
<1>2. \A v \in Writers : delivery'[v] = IF v = w THEN d ELSE delivery[v]
  BY DEF TrackerInv, DeliveriesInv, GitHubTypeOK
<1>3. \A v \in Writers : ~Working(v) /\ (Working(v)' <=> Working(v))
  BY <1>1 DEF Working, Busy
<1>4. \A v \in Writers \ {w} : delivery[v].pc = "off" /\ delivery'[v].pc = "off" /\ ~Busy(v)'
  BY <1>1, <1>2 DEF Busy
<1>5. OneBusy'
  BY <1>3, <1>4 DEF OneBusy
<1>6. FamilyStands'
  BY IssuesAsTheyAre, FamilyStays, GitHubAssumption DEF InOrder, FamilyStands
<1>7. CopiesFit'
  <2>1. ASSUME NEW v \in Writers PROVE Found(delivery[v])'
    BY <1>1, <1>2, <1>4 DEF Found
  <2> QED
    BY <1>3, <2>1 DEF CopiesFit
<1>8. RulesThere'
  <2>1. CASE rules = RuleEvents
    BY <2>1 DEF RulesThere
  <2>2. CASE rules # RuleEvents
    BY <1>2, <2>2 DEF RulesThere, InOrder
  <2> QED
    BY <2>1, <2>2
<1>9. MergeStands'
  <2>1. ASSUME Merged', NEW v \in Writers, delivery'[v].pc = "move" PROVE delivery'[v].event = applied'
    BY <1>2, <1>4, <2>1
  <2>2. ASSUME Merged', issue'[Referenced].live, issue'[Referenced].state # "done"
        PROVE  Pending(w)'
    BY <1>1, <1>2, <2>2 DEF Pending
  <2> QED
    BY <2>1, <2>2 DEF MergeStands
<1> QED
  BY <1>5, <1>6, <1>7, <1>8, <1>9 DEF InOrder

LEMMA InstallationOrder ==
  ASSUME TrackerInv, InOrder, ChangeApp \/ Connect \/ LinkRepos
  PROVE  InOrder'
<1>1. UNCHANGED <<issues, sent, delivery, applied>>
  BY DEF ChangeApp, Connect, LinkRepos
<1>2. issue' = issue /\ writer' = writer /\ cycle' = cycle
  BY <1>1 DEF issues
<1>3. Merged' <=> Merged
  BY <1>1 DEF Merged
<1>4. OneBusy' /\ MergeStands'
  BY <1>1, <1>2, <1>3 DEF OneBusy, MergeStands, Busy, Working, Pending, InOrder
<1>5. FamilyStands'
  BY <1>1, IssuesAsTheyAre, FamilyStays, GitHubAssumption DEF InOrder, FamilyStands
<1>6. CopiesFit'
  <2>1. Chores(issue', Merged') = Chores(issue, Merged)
    BY <1>2, <1>3 DEF Chores
  <2> QED
    BY <1>1, <1>2, <2>1 DEF CopiesFit, InOrder, Working, Found
<1>7. RulesThere'
  <2>1. connected \in [app : BOOLEAN, installation : {"none", "imported", "installed"}]
    BY DEF TrackerInv, DeliveriesInv, GitHubTypeOK
  <2>2. rules' = RuleEvents \/ (rules' = rules /\ connected'.installation = connected.installation)
    BY <2>1 DEF ChangeApp, Connect, LinkRepos
  <2> QED
    BY <1>1, <2>2 DEF RulesThere, InOrder
<1> QED
  BY <1>4, <1>5, <1>6, <1>7 DEF InOrder

LEMMA UnlinkOrder ==
  ASSUME TrackerInv, InOrder, NEW b \in BOOLEAN, Unlink(b)
  PROVE  InOrder'
<1>1. UNCHANGED <<issues, rules, sent>> /\ applied' = 0
  BY DEF Unlink
<1>2. issue' = issue /\ writer' = writer /\ cycle' = cycle
  BY <1>1 DEF issues
<1>3. \A v \in Writers : delivery'[v] \in {delivery[v], NoDelivery}
  BY DEF Unlink
<1>4. \A v \in Writers : Busy(v)' => Busy(v)
  BY <1>2, <1>3, NoDeliveryKnown DEF Busy
<1>5. ~Merged' /\ Merged \in BOOLEAN
  BY <1>1 DEF Merged
<1>6. OneBusy'
  BY <1>2, <1>3, <1>4, NoDeliveryKnown DEF OneBusy, Working, InOrder
<1>7. FamilyStands'
  BY <1>1, IssuesAsTheyAre, FamilyStays, GitHubAssumption DEF InOrder, FamilyStands
<1>8. CopiesFit'
  <2>1. PICK m \in BOOLEAN, n \in BOOLEAN : m = Merged /\ n = Merged' /\ ~n
    BY <1>5, Zenon DEF Merged
  <2>2. \A todo \in Seq(Chores(issue, m)) : todo \in Seq(Chores(issue', n))
    BY <1>1, <2>1, IssuesAsTheyAre, ChoresStay
  <2>3. ASSUME NEW v \in Writers PROVE Found(delivery[v])'
    BY <1>1, <1>2, <1>3, NoDeliveryKnown DEF Found, CopiesFit, InOrder
  <2> QED
    BY <1>2, <2>1, <2>2, <2>3 DEF CopiesFit, InOrder, Working
<1>9. RulesThere'
  <2>1. connected'.installation \in {connected.installation, "none"}
    BY DEF Unlink
  <2> QED
    BY <1>1, <1>3, <2>1, NoDeliveryKnown DEF RulesThere, InOrder
<1>10. MergeStands'
  BY <1>5 DEF MergeStands
<1> QED
  BY <1>6, <1>7, <1>8, <1>9, <1>10 DEF InOrder

LEMMA DeliversInOrder ==
  ASSUME TrackerInv, InOrder, NEW w \in Writers, NEW k \in 1 .. Len(sent), Delivers(w, k), ~disordered'
  PROVE  InOrder'
<1>1. PICK d : d = [NoDelivery EXCEPT !.pc = "lookup", !.event = k]
  OBVIOUS
<1>2. k \in 0 .. MaxEvents
  BY SentShaped, GitHubAssumption DEF TrackerInv
<1>3. d \in DeliveryRows /\ d.pc = "lookup"
  BY <1>1, <1>2, NoDeliveryKnown DEF DeliveryRows
<1>4. \A v \in Writers : ~Busy(v) /\ ~Working(v) /\ ~Pending(v)
  BY DEF Delivers, Busy, Working, Pending
<1>5. UNCHANGED <<issues, sent, rules, connected>> /\ applied' = applied
  BY DEF Delivers
<1>6. Merged' <=> Merged
  BY <1>5 DEF Merged
<1>7. Verified => rules = RuleEvents
  BY DEF Verified, RulesThere, InOrder
<1>8. Merged' /\ issue[Referenced].live => issue[Referenced].state = "done"
  BY <1>4, <1>6, SettledMerge DEF InOrder
<1>9. PICK e \in DeliveryRows : delivery' = [delivery EXCEPT ![w] = e] /\ e.pc \in {"lookup", "off"} /\ (e.pc # "off" => Verified)
  BY <1>1, <1>3, NoDeliveryKnown DEF Delivers
<1>10. Found(e)
  BY <1>9 DEF Found
<1> QED
  BY <1>4, <1>5, <1>7, <1>8, <1>9, <1>10, DeliveryKeepsOrder

LEMMA LookUpInOrder ==
  ASSUME TrackerInv, InOrder, NEW w \in Writers, LookUp(w)
  PROVE  InOrder'
<1>1. PICK old \in DeliveryRows : old = delivery[w] /\ old.pc = "lookup"
  BY DeliveryOf DEF LookUp, TrackerInv
<1>2. PICK d \in DeliveryRows : d = [old EXCEPT !.pc = "resolve"] /\ d.pc = "resolve"
  BY DeliveryAdvances
<1>3. PICK e \in DeliveryRows : DeliveryGoes(w, e) /\ e.pc \in {"resolve", "off"}
  BY <1>1, <1>2, NoDeliveryKnown DEF LookUp
<1>4. Busy(w) /\ ~Working(w) /\ \A v \in Writers \ {w} : ~Busy(v) /\ ~Pending(v)
  BY <1>1, OthersRest DEF Busy, OneBusy, InOrder, Pending
<1>5. UNCHANGED <<issues, sent, rules, connected>> /\ applied' = applied /\ delivery' = [delivery EXCEPT ![w] = e]
  BY <1>3 DEF LookUp, DeliveryGoes
<1>6. rules = RuleEvents
  BY <1>1 DEF RulesThere, InOrder
<1>7. Merged' /\ issue[Referenced].live => issue[Referenced].state = "done"
  <2>1. ~Pending(w) /\ (Merged' <=> Merged)
    BY <1>1, <1>4, <1>5 DEF Pending, Merged
  <2> QED
    BY <1>4, <2>1, SettledMerge DEF InOrder
<1>8. Found(e)
  BY <1>3 DEF Found
<1> QED
  BY <1>3, <1>4, <1>5, <1>6, <1>7, <1>8, DeliveryKeepsOrder

LEMMA ResolveInOrder ==
  ASSUME TrackerInv, InOrder, NEW w \in Writers, ResolveIssue(w)
  PROVE  InOrder'
<1>1. PICK old \in DeliveryRows : old = delivery[w] /\ DeliveryKnows(old) /\ old.pc = "resolve"
  BY DeliveryOf DEF ResolveIssue, TrackerInv
<1>2. PICK found \in BOOLEAN : found = (sent[delivery[w].event].ref /\ issue[Referenced].live)
  OBVIOUS
<1>3. PICK row \in IssueRows : row = (IF found THEN issue[Referenced] ELSE NoRow)
  BY RowsOf, RowEdits, GitHubAssumption DEF TrackerInv
<1>4. found => row.live
  BY <1>2, <1>3
<1>5. PICK d : d = [old EXCEPT !.pc = "store", !.found = found, !.row = row]
  OBVIOUS
<1>6. d \in DeliveryRows /\ d.pc = "store" /\ d.found = found /\ d.row = row /\ d.event = old.event
  BY <1>5 DEF DeliveryRows
<1>7. DeliveryGoes(w, d)
  BY <1>1, <1>2, <1>3, <1>5 DEF ResolveIssue
<1>8. Busy(w) /\ ~Working(w) /\ \A v \in Writers \ {w} : ~Busy(v) /\ ~Pending(v)
  BY <1>1, OthersRest DEF Busy, OneBusy, InOrder, Pending
<1>9. UNCHANGED <<issues, sent, rules, connected>> /\ applied' = applied /\ delivery' = [delivery EXCEPT ![w] = d]
  BY <1>7 DEF ResolveIssue, DeliveryGoes
<1>10. rules = RuleEvents
  BY <1>1 DEF RulesThere, InOrder
<1>11. Merged' /\ issue[Referenced].live => issue[Referenced].state = "done"
  <2>1. ~Pending(w) /\ (Merged' <=> Merged)
    BY <1>1, <1>8, <1>9 DEF Pending, Merged
  <2> QED
    BY <1>8, <2>1, SettledMerge DEF InOrder
<1>12. Found(d)
  BY <1>1, <1>2, <1>3, <1>6 DEF Found
<1> QED
  BY <1>6, <1>8, <1>9, <1>10, <1>11, <1>12, DeliveryKeepsOrder

LEMMA UpsertInOrder ==
  ASSUME TrackerInv, InOrder, NEW w \in Writers, Upsert(w), ~disordered'
  PROVE  InOrder'
<1>1. PICK old \in DeliveryRows : old = delivery[w] /\ DeliveryKnows(old) /\ old.pc = "store"
  BY DeliveryOf DEF Upsert, TrackerInv
<1>2. PICK e \in Events : e = sent[old.event]
  BY <1>1, SentShaped DEF DeliveryKnows, TrackerInv
<1>3. PICK d \in DeliveryRows : d = [old EXCEPT !.pc = "move"] /\ d.pc = "move" /\ d.event = old.event
                                /\ d.found = old.found /\ d.row = old.row
  BY DeliveryAdvances
<1>4. Busy(w) /\ ~Working(w) /\ \A v \in Writers \ {w} : ~Busy(v) /\ ~Pending(v)
  BY <1>1, OthersRest DEF Busy, OneBusy, InOrder, Pending
<1>5. rules = RuleEvents
  BY <1>1 DEF RulesThere, InOrder
<1>6. /\ old.found <=> e.ref /\ issue[Referenced].live
      /\ old.found => old.row = issue[Referenced]
  BY <1>1, <1>2 DEF Found, CopiesFit, InOrder
<1>7. PICK f \in DeliveryRows : f = (IF old.found /\ ~OnlyStores(e) THEN d ELSE NoDelivery)
  BY NoDeliveryKnown
<1>8. DeliveryGoes(w, f)
  BY <1>1, <1>2, <1>3, <1>6, <1>7 DEF Upsert
<1>9. UNCHANGED <<issues, sent, rules, connected>> /\ delivery' = [delivery EXCEPT ![w] = f]
  BY <1>8 DEF DeliveryGoes
<1>10. Found(f) /\ (f.pc = "move" <=> old.found /\ ~OnlyStores(e)) /\ (f.pc = "move" => f.event = old.event)
  BY <1>2, <1>3, <1>6, <1>7, NoDeliveryKnown DEF Found
<1>11. Merged /\ issue[Referenced].live => issue[Referenced].state = "done"
  <2>1. ~Pending(w)
    BY <1>1, <1>4 DEF Pending
  <2> QED
    BY <1>4, <2>1, SettledMerge DEF InOrder
<1>12. CASE e.kind = "pr"
  <2>1. applied' = old.event
    BY <1>1, <1>2, <1>6, <1>12 DEF Upsert
  <2>2. Merged' => e.ref /\ e.merged
    BY <1>2, <1>9, <2>1 DEF Merged
  <2>3. ~OnlyStores(e)
    BY <1>12 DEF OnlyStores
  <2>4. Merged' /\ issue[Referenced].live => f.pc = "move"
    BY <1>6, <1>10, <2>2, <2>3
  <2> QED
    BY <1>4, <1>5, <1>7, <1>9, <1>10, <2>1, <2>4, DeliveryKeepsOrder
<1>13. CASE e.kind # "pr"
  <2>1. applied' = applied /\ disordered' = (disordered \/ (OfBranch(e) /\ old.found /\ applied # 0))
    BY <1>1, <1>2, <1>6, <1>13 DEF Upsert
  <2>2. Merged' <=> Merged
    BY <1>9, <2>1 DEF Merged
  <2>3. Merged => f.pc # "move"
    <3>1. ~(OfBranch(e) /\ old.found /\ applied # 0)
      BY <2>1
    <3>2. OnlyStores(e) \/ OfBranch(e)
      BY <1>13 DEF OnlyStores, OfBranch, Events, Kinds
    <3> QED
      BY <1>10, <3>1, <3>2 DEF Merged
  <2> QED
    BY <1>4, <1>5, <1>7, <1>9, <1>10, <1>11, <2>1, <2>2, <2>3, DeliveryKeepsOrder
<1> QED
  BY <1>12, <1>13

\* A merge looks for the rule of merges.
LEMMA MergeEvent ==
  ASSUME NEW e \in Events, e.merged
  PROVE  RuleEvent(e) = "pr_merged" /\ Target["pr_merged"] = "done" /\ "pr_merged" \in RuleEvents
<1>1. e.kind = "pr" /\ e.action = "closed"
  BY DEF Events
<1> QED
  BY <1>1 DEF RuleEvent, OfBranch, Target, RuleEvents

\* A copy whose status is changed differs in nothing else.
LEMMA MovedRow ==
  ASSUME NEW row \in IssueRows, NEW s \in Statuses
  PROVE  AllButStatus(InState(row, s), row) /\ InState(row, s).status = s /\ InState(row, s).state = s
  BY DEF InState, AllButStatus, IssueRows

LEMMA TransitionInOrder ==
  ASSUME TrackerInv, InOrder, NEW w \in Writers, Transition(w)
  PROVE  InOrder'
<1>1. PICK old \in DeliveryRows : old = delivery[w] /\ DeliveryKnows(old) /\ old.pc = "move"
  BY DeliveryOf DEF Transition, TrackerInv
<1>2. PICK e \in Events : e = sent[old.event]
  BY <1>1, SentShaped DEF DeliveryKnows, TrackerInv
<1>3. Busy(w) /\ ~Working(w) /\ \A v \in Writers \ {w} : ~Busy(v) /\ ~Pending(v) /\ ~Working(v) /\ delivery[v].pc = "off"
  BY <1>1, OthersRest DEF Busy, OneBusy, InOrder, Pending
<1>4. rules = RuleEvents
  BY <1>1 DEF RulesThere, InOrder
<1>5. old.found /\ old.row = issue[Referenced] /\ issue[Referenced].live
  BY <1>1 DEF DeliveryKnows, Found, CopiesFit, InOrder
<1>6. UNCHANGED <<sent, rules, connected, applied>> /\ delivery' = [delivery EXCEPT ![w] = NoDelivery]
  BY DEF Transition
<1>7. Merged' <=> Merged
  BY <1>6 DEF Merged
<1>8. Merged => old.event = applied /\ e.merged /\ RuleEvent(e) = "pr_merged"
  BY <1>1, <1>2, MergeEvent DEF MergeStands, InOrder, Merged
<1> DEFINE event == RuleEvent(e)
           row == issue[Referenced]
<1>9. row \in IssueRows
  BY RowsOf, GitHubAssumption DEF TrackerInv
<1>10. CASE ~(event \in rules /\ row.status # Target[event])
  <2>1. UNCHANGED issues
    BY <1>1, <1>2, <1>5, <1>10 DEF Transition
  <2>2. Merged' => row.state = "done"
    BY <1>2, <1>4, <1>7, <1>8, <1>10, MergeEvent DEF FamilyStands, InOrder
  <2>3. Found(NoDelivery)
    BY NoDeliveryKnown DEF Found
  <2> QED
    BY <1>3, <1>4, <1>6, <2>1, <2>2, <2>3, NoDeliveryKnown, DeliveryKeepsOrder
<1>11. CASE event \in rules /\ row.status # Target[event]
  <2>1. PICK s \in Statuses : s = Target[event]
    BY <1>4, <1>11 DEF Target, RuleEvents, Statuses
  <2>2. PICK new \in IssueRows : new = InState(row, s) /\ new.live
    <3>1. PICK r \in IssueRows : r = row /\ r.live
      BY <1>5, <1>9
    <3>2. InState(r, s) \in IssueRows /\ (InState(r, s).live <=> r.live)
      BY <3>1, RowEdits
    <3> QED
      BY <3>1, <3>2
  <2>3. AllButStatus(new, row) /\ new.status = s /\ new.state = s
    BY <1>9, <2>2, MovedRow
  <2>4. PICK t \in FitTasks : t = Task("status", Referenced, new) /\ t.do = "status" /\ t.id = Referenced /\ t.row = new
    <3>1. Task("status", Referenced, new) \in FitTasks
      BY <2>2, TaskFitsIn, GitHubAssumption
    <3>2. PICK t : t = Task("status", Referenced, new)
      OBVIOUS
    <3>3. t.do = "status" /\ t.id = Referenced /\ t.row = new
      BY <3>2 DEF Task
    <3> QED
      BY <3>1, <3>2, <3>3
  <2>5. Merged => s = "done"
    BY <1>8, <2>1 DEF Target
  <2>6. t \in Chores(issue, Merged)
    BY <2>3, <2>4, <2>5 DEF Chores
  <2>7. PICK self : self = [Idle EXCEPT !.pc = "run", !.roots = {Referenced}, !.todo = <<t>>]
    OBVIOUS
  <2>8. self.pc = "run" /\ self.todo = <<t>>
    BY <2>7 DEF Idle
  <2>9. writer' = [writer EXCEPT ![w] = self] /\ issue' = issue /\ cycle' = cycle
    BY <1>1, <1>2, <1>5, <1>11, <2>1, <2>2, <2>4, <2>7 DEF Transition
  <2>10. \A v \in Writers : writer'[v] = (IF v = w THEN self ELSE writer[v])
                            /\ delivery'[v] = (IF v = w THEN NoDelivery ELSE delivery[v])
    BY <1>6, <2>9 DEF TrackerInv, FamilyInv, DeliveriesInv, GitHubTypeOK
  <2>11. OneBusy'
    BY <1>3, <2>10, NoDeliveryKnown DEF OneBusy, Busy, Working
  <2>12. FamilyStands'
    <3>1. issue' \in IssueTables /\ \A i \in Issues : AllButStatus(issue'[i], issue[i])
      BY <2>9 DEF AllButStatus, TrackerInv, FamilyInv, TablesTyped, IssueTables
    <3> QED
      BY <2>9, <3>1, FamilyStays DEF InOrder, FamilyStands
  <2>13. CopiesFit'
    <3>1. <<t>> \in Seq(Chores(issue, Merged))
      BY <2>6
    <3>2. Chores(issue', Merged') = Chores(issue, Merged)
      BY <1>7, <2>9 DEF Chores
    <3>3. \A v \in Writers : Working(v)' => v = w
      BY <1>3, <2>10 DEF Working
    <3>4. writer'[w].todo \in Seq(Chores(issue', Merged'))
      BY <2>8, <2>10, <3>1, <3>2
    <3>5. ASSUME NEW v \in Writers PROVE Found(delivery[v])'
      BY <1>3, <2>10, NoDeliveryKnown DEF Found
    <3> QED
      BY <3>3, <3>4, <3>5 DEF CopiesFit
  <2>14. RulesThere'
    BY <1>4, <1>6 DEF RulesThere
  <2>15. MergeStands'
    <3>1. \A v \in Writers : delivery'[v].pc # "move"
      BY <1>3, <2>10, NoDeliveryKnown
    <3>2. Pending(w)'
      <4>1. MovesReferenced(<<t>>)
        BY <2>4 DEF MovesReferenced
      <4>2. writer'[w].pc = "run" /\ MovesReferenced(writer'[w].todo)
        BY <2>8, <2>10, <4>1
      <4> QED
        BY <4>2 DEF Pending, Working
    <3> QED
      BY <3>1, <3>2 DEF MergeStands
  <2> QED
    BY <2>11, <2>12, <2>13, <2>14, <2>15 DEF InOrder
<1> QED
  BY <1>10, <1>11

-----------------------------------------------------------------------------
(* The steps of the automation *)

\* The chore that w is at, while nobody else is at work.
LEMMA AtWork ==
  ASSUME TrackerInv, InOrder, NEW w \in Writers, Working(w)
  PROVE  /\ \A v \in Writers \ {w} : ~Busy(v) /\ ~Working(v) /\ delivery[v].pc = "off" /\ ~Pending(v)
         /\ delivery[w].pc = "off" /\ writer[w].todo \in Seq(Chores(issue, Merged)) /\ writer[w].todo \in Seq(FitTasks)
         /\ Merged /\ issue[Referenced].live => issue[Referenced].state = "done" \/ MovesReferenced(writer[w].todo)
         /\ writer[w].todo # <<>> => /\ Job(w) \in Chores(issue, Merged) /\ Tail(writer[w].todo) \in Seq(Chores(issue, Merged))
                                     /\ Job(w).row \in IssueRows /\ Job(w).id \in Issues
<1>1. Busy(w) /\ delivery[w].pc = "off"
  BY DEF Working, Busy, OneBusy, InOrder
<1>2. \A v \in Writers \ {w} : ~Busy(v) /\ ~Working(v) /\ delivery[v].pc = "off" /\ ~Pending(v)
  BY <1>1, OthersRest DEF InOrder, Pending
<1>3. writer[w].todo \in Seq(Chores(issue, Merged))
  BY DEF CopiesFit, InOrder
<1>4. writer[w].todo \in Seq(FitTasks)
  BY DEF TrackerInv, FamilyInv, WriterRows
<1>5. ASSUME Merged, issue[Referenced].live, ~MovesReferenced(writer[w].todo)
      PROVE  issue[Referenced].state = "done"
  <2>1. \A v \in Writers : ~Pending(v)
    BY <1>1, <1>2, <1>5 DEF Pending
  <2> QED
    BY <1>5, <2>1, SettledMerge DEF InOrder
<1>6. ASSUME writer[w].todo # <<>>
      PROVE  /\ Job(w) \in Chores(issue, Merged) /\ Tail(writer[w].todo) \in Seq(Chores(issue, Merged))
             /\ Job(w).row \in IssueRows /\ Job(w).id \in Issues
  <2>1. Job(w) \in Chores(issue, Merged) /\ Tail(writer[w].todo) \in Seq(Chores(issue, Merged))
    BY <1>3, <1>6, HeadTailProperties DEF Job
  <2>2. Job(w) \in FitTasks /\ Job(w).do # "insert"
    BY <2>1 DEF Chores
  <2> QED
    BY <2>1, <2>2 DEF FitTasks, Tasks, TaskFits
<1> QED
  BY <1>1, <1>2, <1>3, <1>4, <1>5, <1>6

LEMMA WriterKeepsOrder ==
  ASSUME TrackerInv, InOrder, NEW w \in Writers, Working(w), UNCHANGED github,
         issue' \in IssueTables, cycle' = cycle, \A i \in Issues : AllButStatus(issue'[i], issue[i]),
         issue'[Referenced].status = issue'[Referenced].state,
         \A v \in Writers \ {w} : writer'[v].pc = writer[v].pc,
         Working(w)' => writer'[w].todo \in Seq(Chores(issue, Merged)),
         Merged /\ issue'[Referenced].live =>
           issue'[Referenced].state = "done" \/ (Working(w)' /\ MovesReferenced(writer'[w].todo))
  PROVE  InOrder'
<1>1. UNCHANGED <<sent, delivery, applied, rules, connected>>
  BY DEF github
<1>2. /\ \A v \in Writers \ {w} : ~Busy(v) /\ ~Working(v) /\ delivery[v].pc = "off"
      /\ delivery[w].pc = "off"
  BY AtWork
<1>3. \A v \in Writers : delivery'[v].pc = "off" /\ (Busy(v)' => v = w) /\ (Working(v)' => v = w)
  BY <1>1, <1>2 DEF Busy, Working
<1>4. Merged' <=> Merged
  BY <1>1 DEF Merged
<1>5. OneBusy'
  BY <1>3 DEF OneBusy
<1>6. FamilyStands'
  BY FamilyStays DEF InOrder
<1>7. CopiesFit'
  <2>1. issue \in IssueTables
    BY DEF TrackerInv, FamilyInv, TablesTyped, IssueTables
  <2>2. PICK m \in BOOLEAN : m = Merged /\ m = Merged'
    BY <1>1, <1>4, Zenon DEF Merged
  <2>3. \A todo \in Seq(Chores(issue, m)) : todo \in Seq(Chores(issue', m))
    BY <2>1, ChoresStay
  <2>4. ASSUME Working(w)' PROVE writer'[w].todo \in Seq(Chores(issue', Merged'))
    BY <2>2, <2>3, <2>4
  <2> QED
    BY <1>3, <2>4 DEF CopiesFit, Found
<1>8. RulesThere'
  BY <1>1 DEF RulesThere, InOrder
<1>9. MergeStands'
  BY <1>3, <1>4 DEF MergeStands, Pending
<1> QED
  BY <1>5, <1>6, <1>7, <1>8, <1>9 DEF InOrder

\* A step that writes no issue.
LEMMA WorkInOrder ==
  ASSUME TrackerInv, InOrder, NEW w \in Writers, Working(w), UNCHANGED github, UNCHANGED <<issue, cycle>>,
         NEW self, writer' = [writer EXCEPT ![w] = self],
         self.pc \in {"run", "write"} => self.todo \in Seq(Chores(issue, Merged)),
         MovesReferenced(writer[w].todo) => self.pc \in {"run", "write"} /\ self.todo = writer[w].todo
  PROVE  InOrder'
<1>1. \A v \in Writers : writer'[v] = IF v = w THEN self ELSE writer[v]
  BY DEF TrackerInv, FamilyInv
<1>2. issue' \in IssueTables /\ \A i \in Issues : AllButStatus(issue'[i], issue[i])
  BY DEF AllButStatus, TrackerInv, FamilyInv, TablesTyped, IssueTables
<1>3. issue'[Referenced].status = issue'[Referenced].state
  BY DEF InOrder, FamilyStands
<1>4. Working(w)' => writer'[w].todo \in Seq(Chores(issue, Merged))
  BY <1>1 DEF Working
<1>5. Merged /\ issue'[Referenced].live =>
        issue'[Referenced].state = "done" \/ (Working(w)' /\ MovesReferenced(writer'[w].todo))
  BY <1>1, AtWork DEF Working
<1> QED
  BY <1>1, <1>2, <1>3, <1>4, <1>5, WriterKeepsOrder

LEMMA GoesInOrder ==
  ASSUME TrackerInv, InOrder, NEW w \in Writers, writer[w].pc = "run", UNCHANGED github, ~MovesReferenced(writer[w].todo),
         NEW todo \in Seq(Chores(issue, Merged)), Goes(w, todo)
  PROVE  InOrder'
<1>1. PICK self : self = [writer[w] EXCEPT !.todo = todo]
  OBVIOUS
<1>2. self.todo = todo /\ self.pc = "run"
  BY <1>1 DEF TrackerInv, FamilyInv, WriterRows
<1>3. writer' = [writer EXCEPT ![w] = self] /\ UNCHANGED <<issue, cycle>>
  BY <1>1 DEF Goes
<1> QED
  BY <1>2, <1>3, WorkInOrder DEF Working

LEMMA ContinuesInOrder ==
  ASSUME TrackerInv, InOrder, NEW w \in Writers, writer[w].pc = "run", writer[w].todo # <<>>, UNCHANGED github,
         Job(w).do # "status", NEW tasks \in Seq(Chores(issue, Merged)), Continues(w, tasks)
  PROVE  InOrder'
<1>1. Tail(writer[w].todo) \in Seq(Chores(issue, Merged))
  BY AtWork DEF Working
<1>2. tasks \o Tail(writer[w].todo) \in Seq(Chores(issue, Merged))
  BY <1>1, ConcatProperties
<1>3. ~MovesReferenced(writer[w].todo)
  BY DEF MovesReferenced, Job
<1> QED
  BY <1>2, <1>3, GoesInOrder DEF Continues

LEMMA OneChore ==
  ASSUME NEW t \in Chores(issue, Merged)
  PROVE  <<t>> \in Seq(Chores(issue, Merged))
  OBVIOUS

LEMMA NoChores == <<>> \in Seq(Chores(issue, Merged))
  BY EmptySeq, Zenon

\* A task that the automation adds.
LEMMA ChoreFitsIn ==
  ASSUME NEW do \in {"close", "apply", "parent", "count"}, NEW i \in Issues, NEW row \in IssueRows,
         do # "parent" => row.live /\ AllButStatus(row, issue[i]), do = "close" => row.status = "done" /\ row.state = "done"
  PROVE  Task(do, i, row) \in Chores(issue, Merged)
<1>1. Task(do, i, row) \in FitTasks
  BY TaskFitsIn
<1>2. PICK t : t = Task(do, i, row)
  OBVIOUS
<1>3. t.do = do /\ t.id = i /\ t.row = row
  BY <1>2 DEF Task
<1> QED
  BY <1>1, <1>2, <1>3 DEF Chores

LEMMA UpdateBeginsInOrder ==
  ASSUME TrackerInv, InOrder, NEW w \in Writers, UpdateBegins(w), UNCHANGED github
  PROVE  InOrder'
<1>1. PICK do \in {"update", "status", "close"} : Doing(w, do)
  BY DEF UpdateBegins
<1>2. writer[w].pc = "run" /\ writer[w].todo # <<>> /\ Job(w).do = do /\ writer[w] \in WriterRows /\ TaskFits(Job(w))
  BY <1>1, DoingJob DEF TrackerInv
<1>3. Job(w) \in Chores(issue, Merged) /\ Job(w).id \in Issues /\ writer[w].todo \in Seq(Chores(issue, Merged))
  BY <1>2, AtWork DEF Working
<1>4. issue[Job(w).id].live /\ Job(w).row.parent = issue[Job(w).id].parent
  BY <1>2, <1>3 DEF TaskFits, Chores, AllButStatus
<1>5. ~ParentCycle(Job(w).id, issue[Job(w).id].parent)
  BY <1>3, OwnParent DEF InOrder
<1>6. writer' = [writer EXCEPT ![w].pc = "write", ![w].stale = FALSE] /\ UNCHANGED <<issue, cycle, team, crossed>>
  BY <1>4, <1>5 DEF UpdateBegins
<1>7. PICK self : self = [writer[w] EXCEPT !.pc = "write", !.stale = FALSE]
  OBVIOUS
<1>8. self.pc = "write" /\ self.todo = writer[w].todo
  BY <1>2, <1>7 DEF WriterRows
<1>9. writer' = [writer EXCEPT ![w] = self]
  BY <1>6, <1>7
<1> QED
  BY <1>2, <1>3, <1>6, <1>8, <1>9, WorkInOrder DEF Working

LEMMA UpdateCommitsInOrder ==
  ASSUME TrackerInv, InOrder, NEW w \in Writers, UpdateCommits(w), UNCHANGED github
  PROVE  InOrder'
<1> DEFINE t == Job(w)
           back(todo) == [writer[w] EXCEPT !.pc = "run", !.stale = FALSE, !.todo = todo]
           todo == <<Task("apply", t.id, t.row)>> \o Tail(writer[w].todo)
           self == back(todo)
           rows == [issue EXCEPT ![t.id] = t.row]
<1>1. /\ writer[w].pc = "write" /\ writer[w].todo # <<>> /\ writer[w] \in WriterRows
      /\ t.do \in {"update", "status", "close"} /\ TaskFits(t)
  BY JobFits DEF UpdateCommits, TrackerInv, FamilyInv, WriteFits, Job
<1>2. Working(w)
  BY <1>1 DEF Working
<1>3. /\ t \in Chores(issue, Merged) /\ t.id \in Issues /\ t.row \in IssueRows /\ t.row.live
      /\ Tail(writer[w].todo) \in Seq(Chores(issue, Merged))
  BY <1>1, <1>2, AtWork DEF TaskFits
<1>4. AllButStatus(t.row, issue[t.id]) /\ t.do \in {"status", "close"} /\ t.row.status = t.row.state
  BY <1>1, <1>3 DEF Chores
<1>5. Refers(t.row)
  BY <1>3, <1>4 DEF Refers, FamilyStands, InOrder, AllButStatus
<1>6. Commits(w, rows, self) /\ cycle' = cycle
  BY <1>1, <1>4, <1>5 DEF UpdateCommits
<1>7. Task("apply", t.id, t.row) \in Chores(issue, Merged)
  BY <1>3, <1>4, ChoreFitsIn
<1>8. todo \in Seq(Chores(issue, Merged))
  BY <1>3, <1>7, OneChore, ConcatProperties
<1>9. self.pc = "run" /\ self.todo = todo
  BY <1>1 DEF WriterRows
<1>10. issue' = rows /\ \A v \in Writers : writer'[v].pc = (IF v = w THEN self ELSE writer[v]).pc
                                          /\ (v = w => writer'[v] = self)
  <2> HIDE DEF rows, self
  <2>1. PICK moved : writer' = [v \in Writers |-> IF v = w THEN self
                        ELSE [writer[v] EXCEPT !.stale = (@ \/ (moved /\ writer[v].pc = "write")),
                                               !.disturbed = (@ \/ writer[v].pc \in {"run", "write"})]]
    BY <1>6 DEF Commits
  <2>2. \A v \in Writers : writer[v] \in WriterRows
    BY DEF TrackerInv, FamilyInv
  <2>3. ASSUME NEW v \in Writers, v # w PROVE writer'[v].pc = writer[v].pc
    BY <2>1, <2>2, <2>3 DEF WriterRows
  <2> QED
    BY <1>6, <2>1, <2>3 DEF Commits
<1>11. rows \in IssueTables /\ \A i \in Issues : rows[i] = IF i = t.id THEN t.row ELSE issue[i]
  <2> HIDE DEF t
  <2> QED
    BY <1>3 DEF TrackerInv, FamilyInv, TablesTyped, IssueTables
<1>12. \A i \in Issues : AllButStatus(rows[i], issue[i])
  <2> HIDE DEF t, rows
  <2> QED
    BY <1>4, <1>11 DEF AllButStatus
<1>13. rows[Referenced].status = rows[Referenced].state
  <2> HIDE DEF t, rows
  <2> QED
    BY <1>4, <1>11, GitHubAssumption DEF InOrder, FamilyStands
<1>14. Merged /\ rows[Referenced].live => rows[Referenced].state = "done"
  <2> SUFFICES ASSUME Merged, rows[Referenced].live PROVE rows[Referenced].state = "done"
    OBVIOUS
  <2>1. CASE t.id = Referenced
    <3>1. t.row.state = "done"
      BY <1>3, <1>4 DEF Chores
    <3> HIDE DEF t, rows
    <3> QED
      BY <1>11, <2>1, <3>1, GitHubAssumption
  <2>2. CASE t.id # Referenced
    <3>1. t.do # "status"
      BY <1>3, <2>2 DEF Chores
    <3>2. ~MovesReferenced(writer[w].todo)
      BY <3>1 DEF MovesReferenced, Job
    <3> HIDE DEF t, rows
    <3>3. rows[Referenced] = issue[Referenced]
      BY <1>11, <2>2, GitHubAssumption
    <3>4. Merged /\ issue[Referenced].live => issue[Referenced].state = "done"
      BY <1>2, <3>2, AtWork
    <3> QED
      BY <3>3, <3>4
  <2> QED
    BY <2>1, <2>2
<1> HIDE DEF rows, self, todo
<1>15. Working(w)' => writer'[w].todo \in Seq(Chores(issue, Merged))
  BY <1>8, <1>9, <1>10
<1> QED
  BY <1>2, <1>6, <1>10, <1>11, <1>12, <1>13, <1>14, <1>15, WriterKeepsOrder

LEMMA ApplyInOrder ==
  ASSUME TrackerInv, InOrder, NEW w \in Writers, ApplyStatusAutomation(w), UNCHANGED github
  PROVE  InOrder'
<1> DEFINE t == Job(w)
           among == {j \in Children(t.id) : ~Ended(j)}
           open == SetToSeq(among)
           close(j) == Task("close", j, InState(issue[j], "done"))
           down == [k \in 1 .. Len(open) |-> close(open[k])]
           up == <<Task("parent", t.row.parent, NoRow)>>
           first == IF t.row.state = "done" /\ team.closeSubs THEN down ELSE <<>>
           second == IF t.row.parent # NoIssue THEN up ELSE <<>>
           todo == first \o second \o Tail(writer[w].todo)
<1>1. Doing(w, "apply")
  BY DEF ApplyStatusAutomation
<1>2. /\ writer[w].pc = "run" /\ writer[w].todo # <<>> /\ t.do = "apply" /\ t.row.parent \in Issues \cup {NoIssue}
      /\ writer[w] \in WriterRows
  BY <1>1, DoingJob DEF TrackerInv
<1>3. Tail(writer[w].todo) \in Seq(Chores(issue, Merged)) /\ Working(w)
  BY <1>2, AtWork DEF Working
<1>4. CASE Continues(w, <<>>)
  BY <1>2, <1>4, ContinuesInOrder, NoChores
<1>5. CASE /\ writer' = [writer EXCEPT ![w].visited = @ \cup {t.id}, ![w].todo = first \o second \o Tail(@)]
           /\ UNCHANGED <<issue, cycle, team, crossed>>
  <2>1. writer' = [writer EXCEPT ![w] = [writer[w] EXCEPT !.visited = writer[w].visited \cup {t.id}, !.todo = todo]]
    BY <1>5
  <2>2. second \in Seq(Chores(issue, Merged))
    <3>1. t.row.parent # NoIssue => Task("parent", t.row.parent, NoRow) \in Chores(issue, Merged)
      BY <1>2, RowEdits, ChoreFitsIn
    <3> QED
      BY <3>1, OneChore, NoChores
  <2>3. down \in Seq(Chores(issue, Merged))
    <3>1. ASSUME NEW j \in Children(t.id) PROVE close(j) \in Chores(issue, Merged)
      <4>1. j \in Issues /\ issue[j] \in IssueRows /\ issue[j].live
        BY RowsOf DEF Children, TrackerInv
      <4>2. PICK row \in IssueRows : row = InState(issue[j], "done") /\ row.live
        <5>1. PICK old \in IssueRows : old = issue[j] /\ old.live
          BY <4>1
        <5>2. InState(old, "done") \in IssueRows /\ (InState(old, "done").live <=> old.live)
          BY <5>1, RowEdits DEF Statuses
        <5> QED
          BY <5>1, <5>2
      <4>3. AllButStatus(row, issue[j]) /\ row.status = "done" /\ row.state = "done"
        BY <4>1, <4>2, MovedRow DEF Statuses
      <4>4. Task("close", j, row) \in Chores(issue, Merged)
        BY <4>1, <4>2, <4>3, ChoreFitsIn
      <4> QED
        BY <4>2, <4>4
    <3>2. among \subseteq Children(t.id) /\ IsFiniteSet(among)
      BY SubIssues, FS_Subset
    <3>3. open \in [1 .. Cardinality(among) -> among] /\ Cardinality(among) \in Nat
      BY <3>2, MembersInOrder
    <3> HIDE DEF open, close, among
    <3>4. Len(open) \in Nat /\ \A k \in 1 .. Len(open) : close(open[k]) \in Chores(issue, Merged)
      BY <3>1, <3>2, <3>3
    <3> QED
      BY <3>4
  <2> HIDE DEF down
  <2>4. first \in Seq(Chores(issue, Merged))
    BY <2>3, NoChores
  <2>5. ~MovesReferenced(writer[w].todo)
    BY <1>2 DEF MovesReferenced, Job
  <2> HIDE DEF first, second
  <2>6. first \o second \in Seq(Chores(issue, Merged))
    BY <2>2, <2>4, ConcatProperties
  <2>7. todo \in Seq(Chores(issue, Merged))
    BY <1>3, <2>6, ConcatProperties
  <2> HIDE DEF todo
  <2>8. PICK visited : visited = writer[w].visited \cup {t.id}
    OBVIOUS
  <2>9. PICK self : self = [writer[w] EXCEPT !.visited = visited, !.todo = todo]
    OBVIOUS
  <2>10. self.pc = "run" /\ self.todo = todo
    BY <1>2, <2>9 DEF WriterRows
  <2>11. writer' = [writer EXCEPT ![w] = self]
    BY <2>1, <2>8, <2>9
  <2> QED
    BY <1>3, <1>5, <2>5, <2>7, <2>10, <2>11, WorkInOrder
<1> QED
  BY <1>4, <1>5 DEF ApplyStatusAutomation

LEMMA ReadParentInOrder ==
  ASSUME TrackerInv, InOrder, NEW w \in Writers, ReadParent(w), UNCHANGED github
  PROVE  InOrder'
<1>1. Doing(w, "parent")
  BY DEF ReadParent
<1>2. writer[w].pc = "run" /\ writer[w].todo # <<>> /\ Job(w).do = "parent" /\ Job(w).id \in Issues
  BY <1>1, DoingJob DEF TrackerInv
<1>3. CASE Continues(w, <<>>)
  BY <1>2, <1>3, ContinuesInOrder, NoChores
<1>4. CASE issue[Job(w).id].live /\ Continues(w, <<Task("count", Job(w).id, issue[Job(w).id])>>)
  <2>1. PICK i \in Issues, row \in IssueRows : i = Job(w).id /\ row = issue[i]
    BY <1>2, RowsOf DEF TrackerInv
  <2>2. Task("count", i, row) \in Chores(issue, Merged)
    BY <1>4, <2>1, ChoreFitsIn DEF AllButStatus
  <2> QED
    BY <1>2, <1>4, <2>1, <2>2, OneChore, ContinuesInOrder
<1> QED
  BY <1>3, <1>4 DEF ReadParent

LEMMA CountInOrder ==
  ASSUME TrackerInv, InOrder, NEW w \in Writers, CountThenClose(w), UNCHANGED github
  PROVE  InOrder'
<1>1. Doing(w, "count")
  BY DEF CountThenClose
<1>2. /\ writer[w].pc = "run" /\ writer[w].todo # <<>> /\ Job(w).do = "count" /\ Job(w).id \in Issues
      /\ Job(w).row \in IssueRows /\ Job(w).row.live
  BY <1>1, DoingJob DEF TaskFits, TrackerInv
<1>3. AllButStatus(Job(w).row, issue[Job(w).id])
  BY <1>2, AtWork DEF Working, Chores
<1>4. CASE Continues(w, <<>>)
  BY <1>2, <1>4, ContinuesInOrder, NoChores
<1>5. CASE Continues(w, <<Task("close", Job(w).id, InState(Job(w).row, "done"))>>)
  <2>1. PICK i \in Issues, old \in IssueRows : i = Job(w).id /\ old = Job(w).row
    BY <1>2
  <2>2. PICK row \in IssueRows : row = InState(old, "done") /\ (row.live <=> old.live)
    BY <2>1, RowEdits DEF Statuses
  <2>3. AllButStatus(row, old) /\ row.status = "done" /\ row.state = "done"
    BY <2>2, MovedRow DEF Statuses
  <2>4. AllButStatus(row, issue[i]) /\ row.live
    BY <1>2, <1>3, <2>1, <2>2, <2>3 DEF AllButStatus
  <2>5. Task("close", i, row) \in Chores(issue, Merged)
    BY <2>3, <2>4, ChoreFitsIn
  <2> QED
    BY <1>2, <1>5, <2>1, <2>2, <2>5, OneChore, ContinuesInOrder
<1> QED
  BY <1>4, <1>5 DEF CountThenClose

LEMMA AnswersInOrder ==
  ASSUME TrackerInv, InOrder, NEW w \in Writers, Answers(w), UNCHANGED github
  PROVE  InOrder'
<1>1. PICK self : self = [Idle EXCEPT !.pc = "done"]
  OBVIOUS
<1>2. self.pc = "done"
  BY <1>1 DEF Idle
<1>3. ~MovesReferenced(writer[w].todo)
  BY DEF Answers, MovesReferenced
<1> QED
  BY <1>1, <1>2, <1>3, WorkInOrder DEF Answers, Working

\* A delivery never makes a writer do anything else.
LEMMA OnlyChores ==
  ASSUME TrackerInv, InOrder, NEW w \in Writers
  PROVE  ~(FetchIssue(w) \/ ValidateParent(w) \/ InsertIssue(w) \/ DuplicateSubs(w) \/ ReloadIssue(w))
<1>1. ASSUME NEW do \in {"fetch", "validate", "insert", "copies", "reload"}, Doing(w, do)
      PROVE  FALSE
  <2>1. writer[w].todo # <<>> /\ Job(w).do = do /\ Working(w)
    BY <1>1 DEF Doing, Job, Working
  <2>2. Job(w) \in Chores(issue, Merged)
    BY <2>1, AtWork
  <2> QED
    BY <2>1, <2>2 DEF Chores
<1> QED
  BY <1>1 DEF FetchIssue, ValidateParent, InsertIssue, DuplicateSubs, ReloadIssue

LEMMA WriterStepInOrder ==
  ASSUME TrackerInv, InOrder, NEW w \in Writers, WriterStep(w), UNCHANGED github
  PROVE  InOrder'
  BY OnlyChores, UpdateBeginsInOrder, UpdateCommitsInOrder, ApplyInOrder, ReadParentInOrder, CountInOrder, AnswersInOrder
     DEF WriterStep

-----------------------------------------------------------------------------
(* Merges complete what they name *)

LEMMA OrderRests ==
  ASSUME InOrder, UNCHANGED <<issues, github>>
  PROVE  InOrder'
<1>1. UNCHANGED <<issue, cycle, writer, sent, delivery, applied, rules, connected>>
  BY DEF issues, github
<1>2. OneBusy' /\ RulesThere'
  BY <1>1 DEF InOrder, OneBusy, RulesThere, Busy, Working
<1>3. FamilyStands'
  BY <1>1 DEF InOrder, FamilyStands, Above, Refers
<1>4. CopiesFit'
  BY <1>1 DEF InOrder, CopiesFit, Working, Found, Chores, Merged
<1>5. MergeStands'
  BY <1>1 DEF InOrder, MergeStands, Merged, Pending, Working
<1> QED
  BY <1>2, <1>3, <1>4, <1>5 DEF InOrder

\* What was stored late stays noted.
LEMMA DisorderStays ==
  ASSUME TrackerInv, GitHubArea, disordered
  PROVE  disordered'
<1>1. CASE ChangeApp \/ Connect \/ LinkRepos \/ \E b \in BOOLEAN : Unlink(b)
  BY <1>1 DEF ChangeApp, Connect, LinkRepos, Unlink
<1>2. CASE \E event \in RuleEvents : UpdateAutoTransitions(event)
  BY <1>2 DEF UpdateAutoTransitions
<1>3. CASE \E w \in Deliverers : \E k \in 1 .. Len(sent) : Delivers(w, k)
  BY <1>3 DEF Delivers
<1>4. CASE \E w \in Writers : DeliveryStep(w)
  BY <1>4 DEF DeliveryStep, LookUp, ResolveIssue, Upsert, Transition
<1>5. CASE \E w \in Writers : WriterStep(w) /\ UNCHANGED github
  BY <1>5 DEF github
<1>6. CASE \E w \in Writers : UserMoves(EditIssue(w, Referenced) \/ DeleteIssues(w, {Referenced}))
  BY <1>6 DEF UserMoves
<1> QED
  BY <1>1, <1>2, <1>3, <1>4, <1>5, <1>6 DEF GitHubArea, GitHubNext

LEMMA GitHubAreaInOrder ==
  ASSUME TrackerInv, area \in Areas, GitHubArea, InOrder, ~disordered'
  PROVE  InOrder'
<1>1. Deliverers \subseteq Writers
  <2>1. area[2] \in {"none", "change", "delivery"}
    BY DEF GitHubArea, On, Areas
  <2> QED
    BY <2>1, Firsts DEF Deliverers
<1>2. CASE ChangeApp \/ Connect \/ LinkRepos
  BY <1>2, InstallationOrder
<1>3. CASE \E b \in BOOLEAN : Unlink(b)
  BY <1>3, UnlinkOrder
<1>4. ~\E event \in RuleEvents : UpdateAutoTransitions(event)
  BY DEF UpdateAutoTransitions
<1>5. CASE \E w \in Deliverers : \E k \in 1 .. Len(sent) : Delivers(w, k)
  BY <1>1, <1>5, DeliversInOrder
<1>6. CASE \E w \in Writers : DeliveryStep(w)
  BY <1>6, LookUpInOrder, ResolveInOrder, UpsertInOrder, TransitionInOrder DEF DeliveryStep
<1>7. CASE \E w \in Writers : WriterStep(w) /\ UNCHANGED github
  BY <1>7, WriterStepInOrder
<1>8. ~\E w \in Writers : UserMoves(EditIssue(w, Referenced) \/ DeleteIssues(w, {Referenced}))
  BY DEF UserMoves
<1> QED
  BY <1>2, <1>3, <1>4, <1>5, <1>6, <1>7, <1>8 DEF GitHubArea, GitHubNext

LEMMA MergeNext ==
  ASSUME TrackerInv, area \in Areas, MergeInv, [AppNext]_app
  PROVE  MergeInv'
<1>1. area' = area
  BY DEF AppNext, app
<1>2. CASE On("delivery")
  <2>1. GitHubArea \/ UNCHANGED <<issues, github>>
    BY <1>2 DEF AppNext, app, On, IssuesArea, CyclesArea, RelationsArea
  <2>2. CASE GitHubArea
    BY <1>1, <1>2, <2>2, DisorderStays, GitHubAreaInOrder DEF MergeInv, On
  <2>3. CASE UNCHANGED <<issues, github>>
    <3>1. disordered' = disordered
      BY <2>3 DEF github
    <3> QED
      BY <1>1, <1>2, <2>3, <3>1, OrderRests DEF MergeInv, On
  <2> QED
    BY <2>1, <2>2, <2>3
<1>3. CASE ~On("delivery")
  <2>1. UNCHANGED github
    BY <1>3 DEF AppNext, app, GitHubArea, IssuesArea, CyclesArea, RelationsArea
  <2> QED
    BY <1>1, <1>3, <2>1 DEF MergeInv, On, github
<1> QED
  BY <1>2, <1>3

LEMMA MergeBegins ==
  ASSUME AppInit
  PROVE  MergeInv
<1>1. applied = 0 /\ delivery = [w \in Writers |-> NoDelivery] /\ writer = [w \in Writers |-> Idle] /\ IssueInit /\ GitHubInit
  BY DEF AppInit, IssueInit, GitHubInit
<1>2. SUFFICES ASSUME On("delivery") PROVE InOrder
  BY <1>1 DEF MergeInv
<1>3. \A w \in Writers : delivery[w].pc = "off" /\ writer[w].pc = "idle"
  BY <1>1, NoDeliveryKnown DEF Idle
<1>4. OneBusy
  BY <1>3 DEF OneBusy, Busy, Working
<1>5. FamilyStands
  <2>1. issue \in IssueTables /\ FamilyThere(issue) /\ Loopless(issue)
    BY <1>1, IssuesBegin
  <2>2. issue = Pair(Live, Sub)
    BY <1>1, <1>2 DEF IssueInit, On
  <2>3. \A row \in {NoRow, Live, Sub} : row.status = row.state /\ row.cycle = NoCycle
    <3>1. NoRow.status = NoRow.state /\ NoRow.cycle = NoCycle
      BY DEF NoRow
    <3>2. Live.status = Live.state /\ Live.cycle = NoCycle
      BY FirstRows DEF Live, NoRow, IssueRows
    <3>3. Sub.status = Live.status /\ Sub.state = Live.state /\ Sub.cycle = Live.cycle
      BY FirstRows DEF Sub, IssueRows
    <3> QED
      BY <3>1, <3>2, <3>3
  <2>4. \A i \in Issues : issue[i] \in {NoRow, Live, Sub}
    BY <2>2 DEF Pair
  <2>5. \A i \in Issues : i \notin Above(i)
    BY <2>1, AboveAncestors DEF Loopless
  <2>6. \A i \in Issues : Refers(issue[i])
    <3>1. \A i \in Issues : issue[i].cycle = NoCycle /\ (issue[i].parent # NoIssue => issue[issue[i].parent].live)
      BY <2>1, <2>3, <2>4 DEF FamilyThere
    <3> QED
      BY <3>1 DEF Refers
  <2> QED
    BY <2>3, <2>4, <2>5, <2>6, GitHubAssumption DEF FamilyStands
<1>6. CopiesFit
  BY <1>3 DEF CopiesFit, Working, Found
<1>7. RulesThere
  <2>1. rules # RuleEvents => connected.installation # "installed"
    BY <1>1 DEF GitHubInit
  <2> QED
    BY <1>1, <1>3, <2>1 DEF RulesThere
<1>8. MergeStands
  BY <1>1 DEF MergeStands, Merged
<1> QED
  BY <1>4, <1>5, <1>6, <1>7, <1>8 DEF InOrder

LEMMA MergeHolds == AppSpec => []MergeInv
<1>1. TrackerInv /\ area \in Areas /\ MergeInv /\ [AppNext]_app => MergeInv'
  BY MergeNext
<1> QED
  BY <1>1, MergeBegins, TrackerHolds, PTL DEF AppSpec

\* A merge that is delivered after what it merges, and alone, leaves the issue it
\* names completed once its delivery and the automation after it are done, for
\* any history of the pull request and any number of writers
\* (HandleWebhookEvent, applyAutoTransition, IssueService.Update).
THEOREM MergesComplete == AppSpec => []MergeCompletesIssue
<1>1. ASSUME MergeInv PROVE MergeCompletesIssue
  <2> SUFFICES ASSUME ~disordered, applied # 0, \A w \in Writers : ~Busy(w), sent[applied].merged, sent[applied].ref,
                      issue[Referenced].live
               PROVE  issue[Referenced].state = "done"
    BY DEF MergeCompletesIssue
  <2>1. InOrder /\ Merged
    BY <1>1 DEF MergeInv, Merged
  <2>2. \A w \in Writers : ~Pending(w)
    BY DEF Pending, Busy, Working
  <2> QED
    BY <2>1, <2>2, SettledMerge DEF InOrder
<1> QED
  BY <1>1, MergeHolds, PTL

-----------------------------------------------------------------------------
(* Completed cycles *)

Settled(c) == \A i \in Issues : issue[i].live /\ issue[i].cycle = c => ~Unfinished(i)

\* Only a request that carried issues over knows a successor, and from then on it
\* has the cycle to itself unless it is disturbed.
PlanSettled(plan) ==
  /\ plan.pc \in {"check", "number", "insert", "next"} => plan.next = NoCycle
  /\ plan.pc = "write" /\ plan.next \notin {NoCycle, plan.id} /\ ~plan.disturbed => Settled(plan.id)
SettledInv ==
  /\ ~On("cycle") => \A p \in Planners : planner[p].pc = "idle"
  /\ \A p \in Planners : PlanSettled(planner[p])

LEMMA SettledMoves ==
  ASSUME TrackerInv, SettledInv, On("cycle"), area' = area, issue' = issue, NEW p \in Planners, NEW plan, Plans(p, plan),
         PlanSettled(plan)
  PROVE  SettledInv'
<1>1. \A q \in Planners : planner'[q] = IF q = p THEN plan ELSE planner[q]
  BY DEF Plans, TrackerInv, PlanningInv
<1>2. \A q \in Planners : PlanSettled(planner[q])'
  BY <1>1 DEF SettledInv, PlanSettled, Settled, Unfinished
<1> QED
  BY <1>2 DEF SettledInv, On

LEMMA SettledFails ==
  ASSUME TrackerInv, SettledInv, On("cycle"), area' = area, issue' = issue, NEW p \in Planners, Fails(p)
  PROVE  SettledInv'
<1>1. PlanSettled([NoPlan EXCEPT !.pc = "done"])
  BY EmptyPlans DEF PlanSettled
<1> QED
  BY <1>1, SettledMoves DEF Fails

\* A row of a cycle is written, and issues at most leave a cycle.
LEMMA SettledWrites ==
  ASSUME TrackerInv, SettledInv, On("cycle"), area' = area, NEW p \in Planners, NEW c, NEW row, Writes(p, c, row),
         \A i \in Issues : issue'[i] = issue[i] \/ issue'[i].cycle = NoCycle
  PROVE  SettledInv'
<1>1. \A k \in Cycles : Settled(k) => Settled(k)'
  BY IssuesAssumption DEF Settled, Unfinished
<1>2. ASSUME NEW q \in Planners PROVE PlanSettled(planner[q])'
  <2>1. CASE q = p
    <3>1. planner'[q] = [NoPlan EXCEPT !.pc = "done"]
      BY <2>1 DEF Writes
    <3>2. planner'[q].pc = "done"
      BY <3>1, EmptyPlans
    <3> QED
      BY <3>2 DEF PlanSettled
  <2>2. CASE q # p
    <3>1. planner[q] \in PlanRows /\ PlanKnows(planner[q]) /\ PlanSettled(planner[q])
      BY PlanOf DEF TrackerInv, SettledInv
    <3>2. planner'[q] = [planner[q] EXCEPT !.stale = (planner[q].pc \notin {"idle", "done"})]
      BY <2>2 DEF Writes
    <3>3. /\ planner'[q].pc = planner[q].pc /\ planner'[q].id = planner[q].id /\ planner'[q].next = planner[q].next
          /\ planner'[q].disturbed = planner[q].disturbed
      BY <3>1, <3>2 DEF PlanRows
    <3>4. PICK k : k = planner[q].id
      OBVIOUS
    <3>5. planner[q].pc = "write" => k \in Cycles
      BY <3>1, <3>4 DEF PlanKnows
    <3>6. planner[q].pc = "write" /\ Settled(k) => Settled(k)'
      BY <1>1, <3>5
    <3> QED
      BY <3>1, <3>3, <3>4, <3>6 DEF PlanSettled, Settled
  <2> QED
    BY <2>1, <2>2
<1> QED
  BY <1>2 DEF SettledInv, On

\* Issues are written: whoever is completing a cycle is disturbed.
LEMMA SettledDisturbed ==
  ASSUME TrackerInv, SettledInv, On("cycle"), area' = area, NEW q \in Planners, planner'[q] = Disturbed(q)
  PROVE  PlanSettled(planner[q])'
<1>1. PlanSettled(planner[q])
  BY DEF SettledInv
<1>2. /\ planner'[q].pc = planner[q].pc /\ planner'[q].id = planner[q].id /\ planner'[q].next = planner[q].next
      /\ ~planner'[q].disturbed => ~planner[q].disturbed /\ (planner[q].pc = "write" => issue' = issue)
  BY DisturbedRow DEF TrackerInv
<1> QED
  BY <1>1, <1>2 DEF PlanSettled, Settled, Unfinished

LEMMA SettledCarry ==
  ASSUME TrackerInv, SettledInv, On("cycle"), area' = area, NEW p \in Planners, CarryOverIssues(p)
  PROVE  SettledInv'
<1>1. PICK old \in PlanRows : old = planner[p] /\ old.pc = "carry" /\ old.id \in Cycles /\ old.next \in Cycles
  BY PlanOf DEF TrackerInv, CarryOverIssues, PlanKnows
<1> DEFINE moved == {i \in Issues : issue[i].live /\ issue[i].cycle = old.id /\ Unfinished(i)}
<1>2. CASE Fails(p) /\ TablesStay
  BY <1>2, SettledFails DEF TablesStay, issues
<1>3. CASE /\ Commits(p, [i \in Issues |-> IF i \in moved THEN [issue[i] EXCEPT !.cycle = old.next] ELSE issue[i]], NoPlan)
           /\ planner' = [q \in Planners |-> IF q = p THEN [planner[p] EXCEPT !.pc = "write", !.disturbed = FALSE]
                                             ELSE Disturbed(q)]
  <2>1. PICK plan : plan = [old EXCEPT !.pc = "write", !.disturbed = FALSE]
    OBVIOUS
  <2>2. plan.pc = "write" /\ plan.id = old.id /\ plan.next = old.next
    BY <2>1 DEF PlanRows
  <2>3. planner'[p] = plan
    BY <1>1, <1>3, <2>1
  <2>4. \A i \in Issues : issue'[i] = IF i \in moved THEN [issue[i] EXCEPT !.cycle = old.next] ELSE issue[i]
    BY <1>3 DEF Commits
  <2>5. ASSUME old.next # old.id PROVE Settled(old.id)'
    <3>1. ASSUME NEW i \in Issues, issue'[i].cycle = old.id
          PROVE  i \notin moved /\ issue'[i] = issue[i]
      <4>1. [issue[i] EXCEPT !.cycle = old.next].cycle = old.next
        BY RowsOf DEF TrackerInv, IssueRows
      <4> QED
        BY <2>4, <2>5, <3>1, <4>1
    <3> QED
      BY <3>1 DEF Settled, Unfinished
  <2>6. PlanSettled(planner[p])'
    BY <1>1, <2>2, <2>3, <2>5 DEF PlanSettled, Settled
  <2>7. \A q \in Planners \ {p} : planner'[q] = Disturbed(q)
    BY <1>3
  <2> QED
    BY <2>6, <2>7, SettledDisturbed DEF SettledInv, On
<1> QED
  BY <1>1, <1>2, <1>3 DEF CarryOverIssues

LEMMA SettledPlans ==
  ASSUME TrackerInv, SettledInv, On("cycle"), area' = area, NEW p \in Planners, PlanRequest(p) \/ PlanStep(p)
  PROVE  SettledInv'
<1>1. PICK old \in PlanRows : old = planner[p] /\ PlanSettled(old)
  BY PlanOf DEF TrackerInv, SettledInv
<1>2. NoPlan.next = NoCycle /\ NoPlan \in PlanRows
  BY EmptyPlans DEF NoPlan
<1>3. ASSUME NEW c \in Cycles, NEW row, NEW pc \in {"check", "number", "next", "write"}, issue' = issue,
             Plans(p, [NoPlan EXCEPT !.pc = pc, !.id = c, !.row = row])
      PROVE  SettledInv'
  <2>1. PICK plan : plan = [NoPlan EXCEPT !.pc = pc, !.id = c, !.row = row]
    OBVIOUS
  <2>2. plan.next = NoCycle
    BY <1>2, <2>1 DEF PlanRows
  <2>3. PlanSettled(plan)
    BY <2>2 DEF PlanSettled
  <2> QED
    BY <1>3, <2>1, <2>3, SettledMoves
<1>4. ASSUME NEW c \in Cycles, NEW d \in Spans, CreateCycle(p, c, d) PROVE SettledInv'
  BY <1>3, <1>4, SettledFails DEF CreateCycle, TablesStay, issues
<1>5. ASSUME NEW c \in Cycles, UpdateCycle(p, c) PROVE SettledInv'
  BY <1>3, <1>5 DEF UpdateCycle, TablesStay, issues
<1>6. ASSUME NEW c \in Cycles, NEW b \in BOOLEAN, CompleteCycle(p, c, b) PROVE SettledInv'
  <2>1. PICK pc \in {"next", "write"} : Plans(p, [NoPlan EXCEPT !.pc = pc, !.id = c, !.row = [cycle[c] EXCEPT !.status = "completed"]])
    BY <1>6 DEF CompleteCycle
  <2> QED
    BY <1>3, <1>6, <2>1 DEF CompleteCycle, TablesStay, issues
<1>7. ASSUME NEW c \in Cycles, DeleteCycle(p, c) PROVE SettledInv'
  <2>1. ASSUME NEW i \in Issues PROVE issue'[i] = issue[i] \/ issue'[i].cycle = NoCycle
    <3>1. [issue[i] EXCEPT !.cycle = NoCycle].cycle = NoCycle
      BY RowsOf DEF TrackerInv, IssueRows
    <3> QED
      BY <1>7, <3>1 DEF DeleteCycle, Commits
  <2> QED
    BY <1>7, <2>1, SettledWrites DEF DeleteCycle
<1>8. ASSUME NextNumber(p) PROVE SettledInv'
  <2>1. PICK n : Plans(p, [old EXCEPT !.pc = "insert", !.row.number = n + 1]) /\ issue' = issue /\ old.pc = "number"
    BY <1>1, <1>8 DEF NextNumber, TablesStay, issues
  <2>2. PICK plan : plan = [old EXCEPT !.pc = "insert", !.row.number = n + 1]
    OBVIOUS
  <2>3. plan.pc = "insert" /\ plan.next = NoCycle
    BY <1>1, <2>1, <2>2 DEF PlanRows, PlanSettled
  <2>4. PlanSettled(plan)
    BY <2>3 DEF PlanSettled
  <2> QED
    BY <2>1, <2>2, <2>4, SettledMoves
<1>9. ASSUME InsertCycle(p) \/ WriteCycle(p) PROVE SettledInv'
  BY <1>9, SettledFails, SettledWrites DEF InsertCycle, WriteCycle, TablesStay, issues
<1>10. ASSUME CheckDates(p) PROVE SettledInv'
  <2>1. PICK plan : plan = [old EXCEPT !.pc = "write", !.stale = FALSE]
    OBVIOUS
  <2>2. issue' = issue /\ old.pc = "check" /\ (Fails(p) \/ Plans(p, plan))
    BY <1>1, <1>10, <2>1 DEF CheckDates, TablesStay, issues
  <2>3. plan.next = NoCycle /\ plan.pc = "write"
    BY <1>1, <2>1, <2>2 DEF PlanRows, PlanSettled
  <2>4. PlanSettled(plan)
    BY <2>3 DEF PlanSettled
  <2> QED
    BY <2>2, <2>4, SettledFails, SettledMoves
<1>11. ASSUME GetNextUpcoming(p) PROVE SettledInv'
  <2>1. PICK plan : plan = [old EXCEPT !.pc = "write"]
    OBVIOUS
  <2>2. /\ issue' = issue /\ old.pc = "next"
        /\ Plans(p, plan) \/ \E c \in Cycles : Plans(p, [old EXCEPT !.pc = "carry", !.next = c])
    BY <1>1, <1>11, <2>1 DEF GetNextUpcoming, TablesStay, issues, PlanGoes, Plans
  <2>3. plan.next = NoCycle /\ plan.pc = "write"
    BY <1>1, <2>1, <2>2 DEF PlanRows, PlanSettled
  <2>4. PlanSettled(plan)
    BY <2>3 DEF PlanSettled
  <2>5. ASSUME NEW c \in Cycles, Plans(p, [old EXCEPT !.pc = "carry", !.next = c])
        PROVE  SettledInv'
    <3>1. PICK carry : carry = [old EXCEPT !.pc = "carry", !.next = c]
      OBVIOUS
    <3>2. carry.pc = "carry"
      BY <3>1 DEF PlanRows
    <3>3. PlanSettled(carry)
      BY <3>2 DEF PlanSettled
    <3> QED
      BY <2>2, <2>5, <3>1, <3>3, SettledMoves
  <2> QED
    BY <2>2, <2>4, <2>5, SettledMoves
<1> QED
  BY <1>4, <1>5, <1>6, <1>7, <1>8, <1>9, <1>10, <1>11, SettledCarry DEF PlanRequest, PlanStep

LEMMA SettledRests ==
  ASSUME SettledInv, area' = area, planner' = planner, On("cycle") => issue' = issue
  PROVE  SettledInv'
<1>1. CASE On("cycle")
  BY <1>1 DEF SettledInv, PlanSettled, Settled, Unfinished, On
<1>2. CASE ~On("cycle")
  BY <1>2 DEF SettledInv, PlanSettled, On
<1> QED
  BY <1>1, <1>2

LEMMA SettledNext ==
  ASSUME TrackerInv, SettledInv, [AppNext]_app
  PROVE  SettledInv'
<1>1. area' = area
  BY DEF AppNext, app
<1>2. CASE CyclesArea
  <2>1. On("cycle")
    BY <1>2 DEF CyclesArea
  <2>2. ASSUME NEW step, IssueMoves(step) PROVE SettledInv'
    <3>1. \A q \in Planners : planner'[q] = Disturbed(q)
      BY <2>2 DEF IssueMoves
    <3> QED
      BY <1>1, <2>1, <3>1, SettledDisturbed DEF SettledInv, On
  <2>3. ASSUME CreateSubIssue(FirstWriter, FirstIssue) PROVE SettledInv'
    BY <1>1, <2>3, SettledRests DEF CreateSubIssue, CreateIssue, Starts, planning
  <2> QED
    BY <1>1, <1>2, <2>1, <2>2, <2>3, SettledPlans DEF CyclesArea
<1>3. CASE IssuesArea \/ GitHubArea \/ RelationsArea
  <2>1. UNCHANGED planning /\ ~On("cycle")
    BY <1>3, OtherAreasKeep DEF IssuesArea, GitHubArea, RelationsArea, On
  <2> QED
    BY <1>1, <2>1, SettledRests DEF planning
<1>4. CASE UNCHANGED <<issues, planning>>
  BY <1>1, <1>4, SettledRests DEF issues, planning
<1> QED
  BY <1>2, <1>3, <1>4 DEF AppNext, app

LEMMA SettledHolds == AppSpec => [](TrackerInv /\ SettledInv)
<1>1. AppInit => SettledInv
  <2> SUFFICES ASSUME AppInit PROVE SettledInv
    OBVIOUS
  <2>1. \A p \in Planners : planner[p].pc = "idle"
    BY EmptyPlans DEF AppInit, IssueInit
  <2> QED
    BY <2>1 DEF SettledInv, PlanSettled
<1>2. TrackerInv /\ SettledInv /\ [AppNext]_app => SettledInv'
  BY SettledNext
<1> QED
  BY <1>1, <1>2, TrackerHolds, PTL DEF AppSpec

\* A cycle that is completed with a successor is left without unfinished issues,
\* for any number of cycles, issues and requests, unless issues were written between
\* the carry-over and the completion (CycleService.Complete, CarryOverIssues).
THEOREM CompletedCyclesAreSettled == AppSpec => CompletedCycleIsSettled
<1> DEFINE Stepped ==
      \A p \in Planners : LET plan == planner[p] IN
        plan.pc = "write" /\ plan.next \notin {NoCycle, plan.id} /\ ~plan.disturbed /\ planner'[p].pc = "done" =>
          \A i \in Issues : issue[i].live /\ issue[i].cycle = plan.id => issue[i].status \in Terminal
<1>1. TrackerInv /\ SettledInv => [Stepped]_<<issues, planning>>
  BY DEF SettledInv, PlanSettled, Settled, Unfinished
<1> QED
  BY <1>1, SettledHolds, PTL DEF CompletedCycleIsSettled
=============================================================================
