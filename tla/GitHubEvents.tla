---------------------------- MODULE GitHubEvents ----------------------------
(****************************************************************************)
(* What the webhook of the GitHub app does to a linked issue.  GitHub emits *)
(* the events of a pull request, of its branch and of its commits in order; *)
(* they are delivered at any time, in any order, again, or never.  Each     *)
(* delivery finds the installation and the issue, stores what it was told   *)
(* and may move the issue, with the automation that follows.                *)
(****************************************************************************)
EXTENDS Issues

CONSTANTS Referenced,      \* the issue that titles, branches and messages name
          MaxEvents,       \* bound on the events GitHub emits
          MaxDeliveries,   \* bound on the deliveries
          MaxChanges       \* bound on what else happens

ASSUME GitHubAssumption == Referenced \in Issues /\ MaxEvents \in Nat \ {0} /\ MaxDeliveries \in Nat /\ MaxChanges \in Nat

VARIABLES
  connected,   \* the app of the workspace, and its installation ("imported": not known to GitHub)
  linked,      \* the repository is linked
  rules,       \* the events whose transition rule is active
  refs,        \* rows for the pull request, the branch and a commit
  sent,        \* the events GitHub emits, all of them before the first is delivered
  delivery,    \* what each delivery does
  received,    \* deliveries so far
  changes,     \* changes of the connection, of the rules or of the issue so far
  applied,     \* the last event of the pull request that was stored
  disordered   \* an event was stored late, or while something else moved the issue

github == <<connected, linked, rules, refs, sent, delivery, received, changes, applied, disordered>>

Kinds == {"pr", "branch", "commit"}
PrStates == {"open", "draft", "closed", "merged"}
RuleEvents == {"branch_created", "pr_opened", "pr_merged"}
Target == [branch_created |-> "in_progress", pr_opened |-> "in_review", pr_merged |-> "done"]

\* A reference may come and go with the title of a pull request.
Events ==
  [kind : {"pr"}, action : {"opened", "edited", "ready_for_review"}, state : {"open"}, draft : BOOLEAN, merged : {FALSE}, ref : BOOLEAN]
  \cup [kind : {"pr"}, action : {"closed"}, state : {"closed"}, draft : BOOLEAN, merged : {FALSE}, ref : BOOLEAN]
  \cup [kind : {"pr"}, action : {"closed"}, state : {"closed"}, draft : {FALSE}, merged : {TRUE}, ref : BOOLEAN]
  \cup [kind : Kinds \ {"pr"}, action : {"opened"}, state : {"open"}, draft : {FALSE}, merged : {FALSE}, ref : BOOLEAN]

\* A pull request is opened, edited, and closed or merged in the end.
Histories ==
  {h \in UNION {[1 .. n -> Events] : n \in 1 .. MaxEvents} :
     \A j, k \in DOMAIN h : j < k /\ h[k].kind = "pr" =>
       h[j].kind = "pr" /\ h[j].action # "closed" /\ h[k].action # "opened" /\ h[1].action = "opened"}

NoDelivery == [pc |-> "off", event |-> 0, found |-> FALSE, row |-> NoRow]
NoRefs == [k \in Kinds |-> [there |-> FALSE, state |-> "open", issue |-> NoIssue]]

GitHubTypeOK ==
  /\ connected \in [app : BOOLEAN, installation : {"none", "imported", "installed"}] /\ linked \in BOOLEAN
  /\ rules \subseteq RuleEvents
  /\ refs \in [Kinds -> [there : BOOLEAN, state : PrStates, issue : {Referenced, NoIssue}]]
  /\ sent \in Histories
  /\ delivery \in [Writers -> [pc : {"off", "lookup", "resolve", "store", "move"}, event : 0 .. MaxEvents,
                               found : BOOLEAN, row : IssueRows]]
  /\ received \in 0 .. MaxDeliveries /\ changes \in 0 .. MaxChanges /\ applied \in 0 .. MaxEvents /\ disordered \in BOOLEAN

-----------------------------------------------------------------------------
(* The installation *)

\* Bound: MaxChanges times something else happens than deliveries.
Changes == changes < MaxChanges /\ changes' = changes + 1

\* HandleManifestCallback; DeleteApp may take the app away again and fail to
\* take the installation, whose events then have no secret to be checked with.
ChangeApp ==
  /\ Changes
  /\ connected' = [connected EXCEPT !.app = ~@]
  /\ UNCHANGED <<issues, linked, rules, refs, sent, delivery, received, applied, disordered>>

\* getClient: what is asked of GitHub takes the key of the app.
HasClient == connected.app

\* HandleInstallationCallback, which also seeds the rules.
Connect ==
  /\ Changes /\ connected.installation # "installed" /\ HasClient
  /\ connected' = [connected EXCEPT !.installation = "installed"] /\ rules' = RuleEvents
  /\ UNCHANGED <<issues, linked, refs, sent, delivery, received, applied, disordered>>

LinkRepos ==
  /\ Changes /\ connected.installation = "installed" /\ HasClient /\ ~linked
  /\ linked' = TRUE
  /\ UNCHANGED <<issues, connected, rules, refs, sent, delivery, received, applied, disordered>>

\* UnlinkRepo; Disconnect, DeleteApp and an installation event that says
\* deleted or suspend.  The rows go with the repository, and a delivery that has
\* found it fails on its foreign key.
Unlink(disconnects) ==
  /\ Changes
  /\ IF disconnects
     THEN \E app \in {FALSE, connected.app} :
            /\ connected' = [app |-> app, installation |-> "none"]
            /\ connected' # connected
     ELSE linked /\ UNCHANGED connected
  /\ linked' = FALSE /\ refs' = NoRefs /\ applied' = 0
  /\ delivery' = [w \in Writers |-> IF delivery[w].pc \in {"resolve", "store"} THEN NoDelivery ELSE delivery[w]]
  /\ UNCHANGED <<issues, rules, sent, received, disordered>>

UpdateAutoTransitions(event) ==
  /\ Changes
  /\ rules' = IF event \in rules THEN rules \ {event} ELSE rules \cup {event}
  /\ disordered' = TRUE
  /\ UNCHANGED <<issues, connected, linked, refs, sent, delivery, received, applied>>

-----------------------------------------------------------------------------
(* Deliveries *)

Busy(w) == delivery[w].pc # "off" \/ writer[w].pc \in {"run", "write"}

\* VerifyWebhookSignature: the secret is that of the app of the installation.
Verified == connected = [app |-> TRUE, installation |-> "installed"]

\* HandleWebhookEvent, of a delivery that is not turned away.
Delivers(w, k) ==
  /\ received < MaxDeliveries /\ ~Busy(w)
  /\ received' = received + 1
  /\ delivery' = [delivery EXCEPT ![w] = IF Verified THEN [NoDelivery EXCEPT !.pc = "lookup", !.event = k] ELSE NoDelivery]
  /\ disordered' = (disordered \/ \E v \in Writers : Busy(v))
  /\ UNCHANGED <<issues, connected, linked, rules, refs, sent, changes, applied>>

DeliveryGoes(w, d) ==
  /\ delivery' = [delivery EXCEPT ![w] = d]
  /\ UNCHANGED <<issues, connected, linked, rules, sent, received, changes>>

\* GetInstallationByGitHubID and GetRepoByGitHubID
LookUp(w) ==
  /\ delivery[w].pc = "lookup"
  /\ DeliveryGoes(w, IF connected.installation = "installed" /\ linked THEN [delivery[w] EXCEPT !.pc = "resolve"] ELSE NoDelivery)
  /\ UNCHANGED <<refs, applied, disordered>>

\* resolveIssueFromRef
ResolveIssue(w) ==
  /\ delivery[w].pc = "resolve"
  /\ LET found == sent[delivery[w].event].ref /\ issue[Referenced].live IN
     DeliveryGoes(w, [delivery[w] EXCEPT !.pc = "store", !.found = found,
                                         !.row = IF found THEN issue[Referenced] ELSE NoRow])
  /\ UNCHANGED <<refs, applied, disordered>>

\* Mutant: an event without a reference takes the link away.
LastLink(kind, found) == IF found THEN Referenced ELSE NoIssue

\* COALESCE (EXCLUDED.issue_id, issue_id)
KeptLink(kind, found) == IF found THEN Referenced ELSE refs[kind].issue

\* processPushEvent stores commits and moves no issue.
OnlyStores(e) == e.kind = "commit"

\* processCreateEvent
OfBranch(e) == e.kind = "branch"

PrState(e) == IF e.merged THEN "merged" ELSE IF e.draft THEN "draft" ELSE e.state

\* UpsertPullRequest, UpsertBranch and UpsertCommit: the issue must still be there.
Upsert(w) ==
  /\ delivery[w].pc = "store"
  /\ LET d == delivery[w]
         e == sent[d.event] IN
     IF d.found /\ ~issue[Referenced].live
     THEN DeliveryGoes(w, NoDelivery) /\ UNCHANGED <<refs, applied, disordered>>
     ELSE /\ DeliveryGoes(w, IF d.found /\ ~OnlyStores(e) THEN [d EXCEPT !.pc = "move"] ELSE NoDelivery)
          /\ refs' = [refs EXCEPT ![e.kind] = [there |-> TRUE, state |-> PrState(e), issue |-> KeptLink(e.kind, d.found)]]
          /\ IF e.kind = "pr" THEN /\ applied' = d.event
                                   /\ disordered' = (disordered \/ d.event < applied)
             ELSE /\ disordered' = (disordered \/ (OfBranch(e) /\ d.found /\ applied # 0))
                  /\ UNCHANGED applied

\* Mutant: the merge is looked for where the opening is.
MergedWhenOpened(e) == IF e.action \notin {"opened", "ready_for_review"} THEN "none" ELSE IF e.merged THEN "pr_merged" ELSE "pr_opened"

RuleEvent(e) == IF OfBranch(e) THEN "branch_created"
                ELSE IF e.action \in {"opened", "ready_for_review"} THEN "pr_opened" ELSE IF e.merged THEN "pr_merged" ELSE "none"

\* applyAutoTransition, on the copy of the issue that was resolved.
Transition(w) ==
  /\ delivery[w].pc = "move"
  /\ LET row == delivery[w].row
         event == RuleEvent(sent[delivery[w].event]) IN
     IF event \in rules /\ row.status # Target[event]
     THEN /\ writer' = [writer EXCEPT ![w] = [Idle EXCEPT !.pc = "run", !.roots = {Referenced},
                          !.todo = <<Task("status", Referenced, InState(row, Target[event]))>>]]
          /\ UNCHANGED <<issue, cycle, team, crossed>>
     ELSE UNCHANGED issues
  /\ delivery' = [delivery EXCEPT ![w] = NoDelivery]
  /\ UNCHANGED <<connected, linked, rules, refs, sent, received, changes, applied, disordered>>

\* Somebody edits the issue, or it is deleted and its links with it.
UserMoves(step) ==
  /\ step
  /\ Changes
  /\ refs' = [k \in Kinds |-> [refs[k] EXCEPT !.issue = IF @ # NoIssue /\ ~issue'[@].live THEN NoIssue ELSE @]]
  /\ disordered' = TRUE
  /\ UNCHANGED <<connected, linked, rules, sent, delivery, received, applied>>

DeliveryStep(w) == LookUp(w) \/ ResolveIssue(w) \/ Upsert(w) \/ Transition(w)

\* Deliverers take deliveries; other things happen only if changing.
GitHubNext(Deliverers, changing) ==
  \/ changing /\ (ChangeApp \/ Connect \/ LinkRepos)
  \/ changing /\ \E b \in BOOLEAN : Unlink(b)
  \/ changing /\ \E event \in RuleEvents : UpdateAutoTransitions(event)
  \/ \E w \in Deliverers : \E k \in 1 .. Len(sent) : Delivers(w, k)
  \/ \E w \in Writers : DeliveryStep(w) \/ (WriterStep(w) /\ UNCHANGED github)

-----------------------------------------------------------------------------
(* Properties *)

\* A pull request, branch or commit keeps the issue it was linked to when later
\* events do not name it, as long as the issue and the repository exist.
LinkSurvives ==
  [][\A k \in Kinds : refs[k].issue # NoIssue /\ linked' /\ issue'[Referenced].live =>
       refs'[k].issue = refs[k].issue]_<<issues, github>>

\* A merge that arrives after what it merges, and alone, leaves the issue it
\* names completed, whatever opened, draft or edited events came before.
MergeCompletesIssue ==
  ~disordered /\ applied # 0 /\ (\A w \in Writers : ~Busy(w)) =>
    (sent[applied].merged /\ sent[applied].ref /\ issue[Referenced].live => issue[Referenced].state = "done")
=============================================================================
