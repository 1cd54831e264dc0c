---------------------------- MODULE Application ----------------------------
(****************************************************************************)
(* The parts of the tracker around the Dev Machines, in one specification.  *)
(* A behaviour is about one area: the requests that two actors make there,  *)
(* while the parts that they do not touch rest.                             *)
(****************************************************************************)
EXTENDS Planning, GitHubEvents, Relations, Accounts, Presence, Transfer, Notifications

VARIABLE area   \* what the first actor does and what the second does

app == <<issues, planning, github, relations, accounts, presence, transfer, notifications, area>>

Areas ==
  {<<"edit", "edit">>, <<"edit", "move">>, <<"bulk", "edit">>, <<"move", "move">>, <<"create", "edit">>,
   <<"move", "delete">>,
   <<"cycle", "edit">>, <<"cycle", "bulk">>, <<"cycle", "sub-issue">>, <<"cycle", "cycle">>,
   <<"delivery", "none">>, <<"delivery", "change">>, <<"delivery", "delivery">>,
   <<"relation", "relation">>,
   <<"session", "session">>, <<"guess", "guess">>,
   <<"page", "page">>, <<"news", "news">>,
   <<"export", "edit">>, <<"import", "import">>}

\* Bulk edits beside requests on cycles.
BulkPlanning == {<<"cycle", "bulk">>}

CONSTANT Explored   \* the areas explored

ASSUME ExploredAssumption == Explored \subseteq Areas

\* What the initial states need: a second issue, a writer, a cycle and three days.
ASSUME AreasAssumption == (\E i, j \in Issues : i # j) /\ Writers # {} /\ Cycles # {} /\ 1 .. 3 \subseteq Days

On(kind) == area[1] = kind

AppTypeOK ==
  /\ IssuesTypeOK /\ PlanningTypeOK /\ GitHubTypeOK /\ RelationsTypeOK
  /\ AccountsTypeOK /\ PresenceTypeOK /\ TransferTypeOK /\ NotificationsTypeOK
  /\ area \in Explored

-----------------------------------------------------------------------------
(* Initial states: what an area needs is there, the rest is as small as it can be *)

First(S) == CHOOSE x \in S : TRUE
FirstIssue == First(Issues)
SecondIssue == First(Issues \ {FirstIssue})
FirstWriter == First(Writers)
FirstCycle == First(Cycles)
SecondCycle == First(Cycles \ {FirstCycle})
FirstPlanner == First(Planners)

Family(parents) == [i \in Issues |-> [NoRow EXCEPT !.live = TRUE, !.parent = parents[i], !.triaged = i # SecondIssue]]

\* No family, a pair, a chain, and two sub-issues of one issue.
Families ==
  {Family([i \in Issues |-> NoIssue]),
   Family([i \in Issues |-> IF i = SecondIssue THEN FirstIssue ELSE NoIssue]),
   Family([i \in Issues |-> IF i = FirstIssue THEN NoIssue ELSE IF i = SecondIssue THEN FirstIssue ELSE SecondIssue]),
   Family([i \in Issues |-> IF i = FirstIssue THEN NoIssue ELSE FirstIssue])}

Pair(first, second) ==
  [i \in Issues |-> IF i = FirstIssue THEN first ELSE IF i = SecondIssue THEN second ELSE NoRow]
Live == [NoRow EXCEPT !.live = TRUE]
Sub == [Live EXCEPT !.parent = FirstIssue]

IssueInit ==
  /\ CASE On("cycle") -> issue = Pair(InState([Live EXCEPT !.cycle = FirstCycle], "in_progress"), InState(Live, "done"))
       [] On("delivery") -> issue = Pair(Live, Sub)
       [] On("create") -> issue \in {Pair(Live, Sub), Pair(Live, Live)}
       [] area[1] \in {"edit", "bulk", "move"} -> issue \in Families
       [] OTHER -> issue = Pair(Live, Live)
  /\ writer = [w \in Writers |-> Idle] /\ crossed = FALSE
  /\ cycle = [c \in Cycles |->
       IF On("cycle") /\ c = FirstCycle THEN [status |-> "active", from |-> 1, to |-> 2, number |-> 1]
       ELSE IF On("cycle") /\ c = SecondCycle THEN [status |-> "upcoming", from |-> 2, to |-> 3, number |-> 2]
       ELSE NoPlan.row]
  /\ team = [closeParent |-> TRUE, closeSubs |-> TRUE, triage |-> ~On("cycle") /\ ~On("delivery")]
  /\ planner = [p \in Planners |-> NoPlan] /\ rushed = FALSE

\* Bounds: a branch or a commit beside one event of a pull request, and, where
\* other things change, two events of which the first opens it.
Emitted ==
  CASE area = <<"delivery", "none">> -> {h \in Histories : Cardinality({k \in DOMAIN h : h[k].kind = "pr"}) \in {1, Len(h)}}
    [] area = <<"delivery", "change">> -> {h \in Histories : Len(h) = 2 /\ h[1].kind = "pr" /\ h[1].ref /\ ~h[1].draft}
    [] area = <<"delivery", "delivery">> -> {h \in Histories : Len(h) < MaxEvents}
    [] OTHER -> {First({h \in Histories : Len(h) = 1})}

GitHubInit ==
  /\ connected \in {[app |-> TRUE, installation |-> "installed"]}
       \cup (IF area = <<"delivery", "change">> THEN {[app |-> FALSE, installation |-> "imported"]} ELSE {})
  /\ rules = IF connected.app THEN RuleEvents ELSE {}
  /\ linked = TRUE /\ refs = NoRefs /\ sent \in Emitted
  /\ delivery = [w \in Writers |-> NoDelivery] /\ received = 0
  /\ changes = 0 /\ applied = 0 /\ disordered = FALSE

AppInit ==
  /\ area \in Explored
  /\ IssueInit /\ GitHubInit
  /\ relation = {} /\ minted = 0 /\ linker = [w \in Writers |-> NoLink]
  /\ AccountsInit /\ PresenceInit /\ NotificationsInit
  /\ On("news") \/ subscribed = {}
  /\ IF On("import") THEN ImportInit /\ TransferInit(BOOLEAN)
     ELSE IF On("export") THEN ExportInit /\ TransferInit({FALSE}) ELSE ImportInit /\ TransferInit({FALSE})

-----------------------------------------------------------------------------
(* Steps *)

\* The second writer asks once the first is at work.
Asking(kind, w) ==
  \/ w = FirstWriter /\ kind = area[1]
  \/ w # FirstWriter /\ kind = area[2] /\ writer[FirstWriter].pc # "idle"

IssuesArea ==
  /\ area[1] \in {"edit", "bulk", "move", "create"}
  /\ \E w \in Writers :
       \/ \E kind \in {"edit", "bulk", "move", "create", "delete"} : Asking(kind, w) /\ IssueRequest(w, {kind})
       \/ WriterStep(w)
  /\ UNCHANGED <<planning, github, relations>>

CyclesArea ==
  /\ On("cycle")
  /\ \/ area[2] \in {"edit", "bulk"} /\ IssueMoves(IssueRequest(FirstWriter, {area[2]}))
     \/ area[2] = "sub-issue" /\ CreateSubIssue(FirstWriter, FirstIssue)
     \/ IssueMoves(WriterStep(FirstWriter))
     \/ \E p \in Planners : (p = FirstPlanner \/ area[2] = "cycle") /\ PlanRequest(p)
     \/ \E p \in Planners : PlanStep(p)
  /\ UNCHANGED <<github, relations>>

\* Bounds: a second delivery begins while the first is handled; with changes
\* about, there are as many deliveries as events.
Deliverers ==
  CASE area[2] = "none" -> {FirstWriter}
    [] area[2] = "change" -> IF received < Len(sent) THEN {FirstWriter} ELSE {}
    [] area[2] = "delivery" -> IF Busy(FirstWriter) THEN Writers ELSE {FirstWriter}

GitHubArea ==
  /\ On("delivery")
  /\ \/ GitHubNext(Deliverers, area[2] = "change")
     \/ /\ area[2] = "change"
        /\ \E w \in Writers \ {FirstWriter} : UserMoves(EditIssue(w, Referenced) \/ DeleteIssues(w, {Referenced}))
  /\ UNCHANGED <<planning, relations>>

RelationsArea ==
  /\ On("relation")
  /\ RelationsNext \/ \E i \in Issues : LinkedIssuesGo(DeleteIssues(FirstWriter, {i}))
  /\ UNCHANGED <<planning, github>>

AppNext ==
  /\ UNCHANGED area
  /\ \/ /\ IssuesArea \/ CyclesArea \/ GitHubArea \/ RelationsArea
        /\ UNCHANGED <<accounts, presence, transfer, notifications>>
     \/ /\ area[1] \in {"session", "guess"} /\ AccountsNext({area[1]})
        /\ UNCHANGED <<issues, planning, github, relations, presence, transfer, notifications>>
     \/ /\ On("page") /\ PresenceNext
        /\ UNCHANGED <<issues, planning, github, relations, accounts, transfer, notifications>>
     \/ /\ (On("export") /\ ExportNext) \/ (On("import") /\ ImportNext)
        /\ UNCHANGED <<issues, planning, github, relations, accounts, presence, notifications>>
     \/ /\ On("news") /\ NotificationsNext
        /\ UNCHANGED <<issues, planning, github, relations, accounts, presence, transfer>>

AppSpec == AppInit /\ [][AppNext]_app
=============================================================================
