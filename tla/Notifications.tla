--------------------------- MODULE Notifications ---------------------------
(****************************************************************************)
(* Notifications of the changes of one issue.  A request that changed it    *)
(* reads who is concerned and tells them one by one; news of the same kind  *)
(* within five minutes go into the row that is there.  Meanwhile the users  *)
(* tidy up: a request of theirs reads a row and writes it back later.       *)
(****************************************************************************)
EXTENDS Naturals, FiniteSets

CONSTANTS People, Creator,   \* users of the workspace, and who created the issue
          MaxNotices,        \* bound on the rows ever inserted
          MaxNews,           \* bound on the changes
          MaxActs            \* bound on what users do with notifications

ASSUME NotificationsAssumption ==
  Creator \in People /\ MaxNotices \in Nat \ {0} /\ MaxNews \in Nat /\ MaxActs \in Nat

VARIABLES
  notice,                  \* the notifications table
  assigned, subscribed,    \* assignees and subscribers of the issue
  teller,                  \* what the request of each user still has to tell
  reader,                  \* the row each user works on, as it was read
  newsGiven, acts

notifications == <<notice, assigned, subscribed, teller, reader, newsGiven, acts>>

NoticeTypes == {"issue_updated", "assigned", "mentioned", "commented", "cycle_changed"}

\* recent: within the window.  news: it tells something its user has not acted
\* on.  overtaken: a statement on it began before another one and ended after.
NoticeRows == [for : People, type : NoticeTypes, recent : BOOLEAN, read : BOOLEAN, archived : BOOLEAN,
               news : BOOLEAN, overtaken : BOOLEAN]
NoticeIds == 1 .. MaxNotices
NoNotice == [for |-> Creator, type |-> "none"]
There(n) == notice[n] # NoNotice

Silent == [pc |-> "idle", todo |-> {}, one |-> <<>>, id |-> 0]
NoAct == [id |-> 0, read |-> FALSE, archived |-> FALSE]

NotificationsTypeOK ==
  /\ notice \in [NoticeIds -> NoticeRows \cup {NoNotice}]
  /\ assigned \subseteq People /\ subscribed \subseteq People
  /\ teller \in [People -> [pc : {"idle", "tell", "refresh", "insert"}, todo : SUBSET (People \X NoticeTypes),
                            one : (People \X NoticeTypes) \cup {<<>>}, id : NoticeIds \cup {0}]]
  /\ reader \in [People -> [id : NoticeIds \cup {0}, read : BOOLEAN, archived : BOOLEAN]]
  /\ newsGiven \in 0 .. MaxNews /\ acts \in 0 .. MaxActs

NotificationsInit ==
  /\ notice = [n \in NoticeIds |-> NoNotice]
  /\ assigned = {} /\ subscribed \in {{}, {Creator}}
  /\ teller = [u \in People |-> Silent] /\ reader = [u \in People |-> NoAct]
  /\ newsGiven = 0 /\ acts = 0

-----------------------------------------------------------------------------
(* What is told to whom *)

\* issueNotificationRecipients: subscribers hear of their own changes too.
Recipients(a, assignees) == (({Creator} \cup assignees) \ {a}) \cup subscribed

\* The change has been committed, and the recipients have been read.
Announces(a, todo) ==
  /\ teller[a].pc = "idle" /\ newsGiven < MaxNews
  /\ newsGiven' = newsGiven + 1
  /\ teller' = [teller EXCEPT ![a] = IF todo = {} THEN Silent ELSE [Silent EXCEPT !.pc = "tell", !.todo = todo]]
  /\ UNCHANGED <<notice, subscribed, reader, acts>>

\* sendUpdateNotifications: a field changed, the description mentions somebody,
\* or the issue has a new assignee.
UpdateIssue(a, mentioned) ==
  /\ Announces(a, (Recipients(a, assigned) \X {"issue_updated"}) \cup ((mentioned \ {a}) \X {"mentioned"}))
  /\ UNCHANGED assigned

AssignIssue(a, u) ==
  /\ u \notin assigned /\ assigned' = {u}
  /\ Announces(a, (Recipients(a, assigned') \X {"issue_updated"}) \cup (({u} \ {a}) \X {"assigned"}))

\* CommentService.Create: who is mentioned and a recipient anyway hears of it once.
CommentOnIssue(a, mentioned) ==
  LET recipients == Recipients(a, assigned) IN
  /\ Announces(a, (recipients \X {"commented"}) \cup ((mentioned \ (recipients \cup {a})) \X {"mentioned"}))
  /\ UNCHANGED assigned

\* broadcastAndNotifyTeam
ChangeCycle(a) == Announces(a, People \X {"cycle_changed"}) /\ UNCHANGED assigned

TellerGoes(a, t) ==
  /\ teller' = [teller EXCEPT ![a] = t]
  /\ UNCHANGED <<assigned, subscribed, reader, newsGiven, acts>>

Done(a, one) ==
  LET rest == teller[a].todo \ {one} IN
  IF rest = {} THEN Silent ELSE [Silent EXCEPT !.pc = "tell", !.todo = rest]

\* Mutant: a row that was put away is found as well.
RefreshableAny(u) == {n \in NoticeIds : There(n) /\ notice[n].for = u /\ notice[n].type = "issue_updated" /\ notice[n].recent}

Refreshable(u) ==
  {n \in NoticeIds : /\ There(n) /\ notice[n].for = u /\ notice[n].type = "issue_updated"
                     /\ notice[n].recent /\ ~notice[n].archived}

\* notifyIssue: CreateOrRefresh for an update.  Its UPDATE first selects a row
\* (rows of the same age: any of them) ...  Bound: one order, for what a request
\* tells goes into different rows.
TellOne(a) ==
  /\ teller[a].pc = "tell"
  /\ LET one == CHOOSE x \in teller[a].todo : TRUE
         at(pc, n) == [teller[a] EXCEPT !.pc = pc, !.one = one, !.id = n] IN
     IF one[2] = "issue_updated" /\ Refreshable(one[1]) # {}
     THEN \E n \in Refreshable(one[1]) : TellerGoes(a, at("refresh", n))
     ELSE TellerGoes(a, at("insert", 0))
  /\ UNCHANGED notice

\* ... and then writes it, whatever has become of it.
RefreshNotice(a) ==
  /\ teller[a].pc = "refresh"
  /\ LET n == teller[a].id IN
     notice' = [notice EXCEPT ![n].read = FALSE, ![n].recent = TRUE, ![n].news = TRUE]
  /\ TellerGoes(a, Done(a, teller[a].one))

\* Create.  Bound: rows that are still free.
CreateNotice(a) ==
  /\ teller[a].pc = "insert"
  /\ \E n \in NoticeIds :
       /\ ~There(n) /\ \A m \in 1 .. n - 1 : There(m)
       /\ notice' = [notice EXCEPT ![n] =
            [for |-> teller[a].one[1], type |-> teller[a].one[2], recent |-> TRUE, read |-> FALSE, archived |-> FALSE,
             news |-> TRUE, overtaken |-> FALSE]]
  /\ TellerGoes(a, Done(a, teller[a].one))

-----------------------------------------------------------------------------
(* What users do *)

Acts == acts < MaxActs /\ acts' = acts + 1

\* Subscribe and Unsubscribe
ToggleSubscription(u) ==
  /\ Acts
  /\ subscribed' = IF u \in subscribed THEN subscribed \ {u} ELSE subscribed \cup {u}
  /\ UNCHANGED <<notice, assigned, teller, reader, newsGiven>>

\* Update, which writes what the request says; MarkRead, MarkUnread, Archive and
\* Unarchive keep the rest of the row as they have read it.  (Snoozing hides a
\* row until a time and changes nothing that is here.)
ActOn(u, n) ==
  /\ Acts /\ reader[u] = NoAct /\ There(n) /\ notice[n].for = u
  /\ \E read, archived \in BOOLEAN :
       reader' = [reader EXCEPT ![u] = [id |-> n, read |-> read, archived |-> archived]]
  /\ notice' = [notice EXCEPT ![n].news = FALSE]
  /\ UNCHANGED <<assigned, subscribed, teller, newsGiven>>

\* NotificationRepository.Update: every column is written.
Written(n, row) == [notice[n] EXCEPT !.read = row.read, !.archived = row.archived]

\* ... and the copy is written over it.
WriteNotice(u) ==
  /\ reader[u] # NoAct
  /\ LET n == reader[u].id
         late == notice[n].news \/ \E a \in People : teller[a].pc = "refresh" /\ teller[a].id = n IN
     notice' = [notice EXCEPT ![n] = [Written(n, reader[u]) EXCEPT !.overtaken = @ \/ late]]
  /\ reader' = [reader EXCEPT ![u] = NoAct]
  /\ UNCHANGED <<assigned, subscribed, teller, newsGiven, acts>>

\* MarkAllRead is one statement, about whatever is there.
MarkAllRead(u) ==
  /\ Acts
  /\ notice' = [n \in NoticeIds |-> IF There(n) /\ notice[n].for = u
                                    THEN [notice[n] EXCEPT !.read = TRUE, !.news = FALSE] ELSE notice[n]]
  /\ UNCHANGED <<assigned, subscribed, teller, reader, newsGiven>>

\* Five minutes pass (bound: for all rows at once).
WindowPasses ==
  /\ \E n \in NoticeIds : There(n) /\ notice[n].recent
  /\ notice' = [n \in NoticeIds |-> IF There(n) THEN [notice[n] EXCEPT !.recent = FALSE] ELSE NoNotice]
  /\ UNCHANGED <<assigned, subscribed, teller, reader, newsGiven, acts>>

\* Bound: nobody is mentioned or everybody is.
NotificationsNext ==
  \/ \E a \in People :
       \/ \E mentioned \in {{}, People} : UpdateIssue(a, mentioned) \/ CommentOnIssue(a, mentioned)
       \/ \E u \in People : AssignIssue(a, u)
       \/ ChangeCycle(a)
       \/ TellOne(a) \/ RefreshNotice(a) \/ CreateNotice(a)
  \/ \E u \in People : \/ ToggleSubscription(u) \/ WriteNotice(u) \/ MarkAllRead(u)
                       \/ \E n \in NoticeIds : ActOn(u, n)
  \/ WindowPasses

-----------------------------------------------------------------------------
(* Properties *)

\* Whatever somebody was told and has not acted on is unread and not archived,
\* however it was merged into an earlier row and whatever became of that one;
\* the exceptions are a row that was archived between the two halves of a
\* refresh, and a stale copy that was written over one.
NewsIsUnread ==
  \A n \in NoticeIds : There(n) /\ notice[n].news /\ ~notice[n].overtaken =>
    ~notice[n].read /\ ~notice[n].archived
=============================================================================
