------------------------ MODULE CollaborationProofs ------------------------
(****************************************************************************)
(* What people learn of each other: notifications, and who looks at what.   *)
(*                                                                          *)
(* What somebody was told stays unread until they act on it.  A refresh is  *)
(* made of two halves, so the invariant says what the row it has selected   *)
(* may have become: it is there, and if it was archived the row says so.    *)
(*                                                                          *)
(* Whoever a page shows looks at its issue once everything is handled.  The *)
(* invariant follows each user through the events on their way: whoever is  *)
(* shown, or will be by an event in the channel of the client, looks at the *)
(* issue, is about to say otherwise, or is taken off by a later event.      *)
(****************************************************************************)
EXTENDS Application, SequenceTheorems, TLAPS

-----------------------------------------------------------------------------
(* Notifications *)

Tidings == People \X NoticeTypes

TellersTyped ==
  teller \in [People -> [pc : {"idle", "tell", "refresh", "insert"}, todo : SUBSET Tidings,
                         one : Tidings \cup {<<>>}, id : NoticeIds \cup {0}]]

\* A request that tells has somebody to tell, and has chosen whom.
TellersKnow ==
  \A a \in People : /\ teller[a].pc # "idle" => teller[a].todo # {}
                    /\ teller[a].pc = "insert" => teller[a].one \in Tidings

NoticesTyped == notice \in [NoticeIds -> NoticeRows \cup {NoNotice}]

ReadersTyped == reader \in [People -> [id : NoticeIds \cup {0}, read : BOOLEAN, archived : BOOLEAN]]

\* The row that a refresh is about to write.
RefreshesThere ==
  \A a \in People : teller[a].pc = "refresh" =>
    /\ teller[a].id \in NoticeIds /\ There(teller[a].id)
    /\ notice[teller[a].id].archived => notice[teller[a].id].overtaken

ReadersThere == \A u \in People : reader[u] # NoAct => reader[u].id \in NoticeIds /\ There(reader[u].id)

NewsInv ==
  /\ NoticesTyped /\ TellersTyped /\ TellersKnow /\ ReadersTyped
  /\ RefreshesThere /\ ReadersThere /\ NewsIsUnread

\* A row is there when it has the shape of one.
LEMMA ThereIsRow == \A x \in NoticeRows \cup {NoNotice} : x # NoNotice <=> x \in NoticeRows
<1>1. NoNotice.type = "none" /\ "none" \notin NoticeTypes
  BY DEF NoNotice, NoticeTypes
<1> QED
  BY <1>1 DEF NoticeRows

\* How a row may change: it stays, it stays archived only if it was or says so.
RowsMove ==
  /\ NoticesTyped'
  /\ \A n \in NoticeIds : There(n) => There(n)'
  /\ NewsIsUnread'

LEMMA NewsInit == NotificationsInit => NewsInv
<1> SUFFICES ASSUME NotificationsInit PROVE NewsInv
  OBVIOUS
<1>1. \A n \in NoticeIds : ~There(n)
  BY DEF NotificationsInit, There
<1>2. NoticesTyped /\ TellersTyped /\ ReadersTyped
  BY DEF NotificationsInit, NoticesTyped, TellersTyped, ReadersTyped, Silent, NoAct, Tidings
<1>3. \A a \in People : teller[a].pc = "idle" /\ reader[a] = NoAct
  BY DEF NotificationsInit, Silent
<1> QED
  BY <1>1, <1>2, <1>3 DEF NewsInv, TellersKnow, RefreshesThere, ReadersThere, NewsIsUnread

\* A request that has told one goes on to the rest.
LEMMA DoneTyped ==
  ASSUME TellersTyped, NEW a \in People, NEW one
  PROVE  /\ Done(a, one) \in [pc : {"idle", "tell"}, todo : SUBSET Tidings, one : {<<>>}, id : {0}]
         /\ Done(a, one).pc # "idle" => Done(a, one).todo # {}
<1>1. teller[a].todo \ {one} \in SUBSET Tidings
  BY DEF TellersTyped
<1> QED
  BY <1>1 DEF Done, Silent

\* What a request that takes no row in hand does to the invariant.
LEMMA TellerIdles ==
  ASSUME NewsInv, RowsMove, NEW a \in People,
         NEW t \in [pc : {"idle", "tell"}, todo : SUBSET Tidings, one : {<<>>}, id : {0}],
         t.pc # "idle" => t.todo # {},
         teller' = [teller EXCEPT ![a] = t], UNCHANGED reader,
         \A n \in NoticeIds : There(n) => notice'[n].archived = notice[n].archived /\ notice'[n].overtaken = notice[n].overtaken
  PROVE  NewsInv'
<1>1. /\ TellersTyped' /\ teller'[a] = t /\ \A b \in People \ {a} : teller'[b] = teller[b]
  BY DEF NewsInv, TellersTyped
<1>2. TellersKnow'
  BY <1>1 DEF NewsInv, TellersKnow
<1>3. RefreshesThere'
  BY <1>1 DEF NewsInv, RefreshesThere, RowsMove
<1>4. ReadersTyped' /\ ReadersThere'
  BY DEF NewsInv, ReadersTyped, ReadersThere, RowsMove
<1> QED
  BY <1>1, <1>2, <1>3, <1>4 DEF NewsInv, RowsMove

LEMMA RowsStay == ASSUME NewsInv, UNCHANGED notice PROVE RowsMove
  BY DEF NewsInv, RowsMove, NoticesTyped, NewsIsUnread, There

LEMMA Announced ==
  ASSUME NewsInv, NEW a \in People, NEW todo \in SUBSET Tidings, Announces(a, todo)
  PROVE  NewsInv'
<1> DEFINE t == IF todo = {} THEN Silent ELSE [Silent EXCEPT !.pc = "tell", !.todo = todo]
<1>1. t \in [pc : {"idle", "tell"}, todo : SUBSET Tidings, one : {<<>>}, id : {0}] /\ (t.pc # "idle" => t.todo # {})
  BY DEF Silent
<1>2. teller' = [teller EXCEPT ![a] = t] /\ UNCHANGED <<notice, reader>>
  BY DEF Announces
<1> HIDE DEF t
<1> QED
  BY <1>1, <1>2, RowsStay, TellerIdles

\* Everybody who is told of a change is a user.
LEMMA AnnouncementsKeep ==
  ASSUME NewsInv, assigned \subseteq People, subscribed \subseteq People, NEW a \in People,
         NEW mentioned \in {{}, People}, NEW u \in People,
         UpdateIssue(a, mentioned) \/ CommentOnIssue(a, mentioned) \/ AssignIssue(a, u) \/ ChangeCycle(a)
  PROVE  NewsInv' /\ assigned' \subseteq People /\ subscribed' \subseteq People
<1>1. /\ Recipients(a, assigned) \subseteq People /\ Recipients(a, {u}) \subseteq People
  BY NotificationsAssumption DEF Recipients
<1>2. "issue_updated" \in NoticeTypes /\ "assigned" \in NoticeTypes /\ "mentioned" \in NoticeTypes
      /\ "commented" \in NoticeTypes /\ "cycle_changed" \in NoticeTypes
  BY DEF NoticeTypes
<1>3. CASE UpdateIssue(a, mentioned)
  <2>1. (Recipients(a, assigned) \X {"issue_updated"}) \cup ((mentioned \ {a}) \X {"mentioned"}) \in SUBSET Tidings
    BY <1>1, <1>2 DEF Tidings
  <2> QED
    BY <1>3, <2>1, Announced DEF UpdateIssue, Announces
<1>4. CASE CommentOnIssue(a, mentioned)
  <2> DEFINE recipients == Recipients(a, assigned)
  <2>1. (recipients \X {"commented"}) \cup ((mentioned \ (recipients \cup {a})) \X {"mentioned"}) \in SUBSET Tidings
    BY <1>1, <1>2 DEF Tidings
  <2> QED
    BY <1>4, <2>1, Announced DEF CommentOnIssue, Announces
<1>5. CASE AssignIssue(a, u)
  <2>1. assigned' = {u}
    BY <1>5 DEF AssignIssue
  <2>2. (Recipients(a, {u}) \X {"issue_updated"}) \cup (({u} \ {a}) \X {"assigned"}) \in SUBSET Tidings
    BY <1>1, <1>2 DEF Tidings
  <2>3. Announces(a, (Recipients(a, {u}) \X {"issue_updated"}) \cup (({u} \ {a}) \X {"assigned"}))
    BY <1>5, <2>1 DEF AssignIssue
  <2> QED
    BY <2>1, <2>2, <2>3, Announced DEF Announces
<1>6. CASE ChangeCycle(a)
  <2>1. People \X {"cycle_changed"} \in SUBSET Tidings
    BY <1>2 DEF Tidings
  <2> QED
    BY <1>6, <2>1, Announced DEF ChangeCycle, Announces
<1> QED
  BY <1>3, <1>4, <1>5, <1>6

\* A request chooses whom to tell, and a row that is not put away.
LEMMA TellOneKeeps ==
  ASSUME NewsInv, NEW a \in People, TellOne(a)
  PROVE  NewsInv' /\ UNCHANGED <<assigned, subscribed>>
<1> DEFINE one == CHOOSE x \in teller[a].todo : TRUE
           at(pc, n) == [teller[a] EXCEPT !.pc = pc, !.one = one, !.id = n]
<1>1. teller[a].pc = "tell" /\ UNCHANGED <<notice, reader, assigned, subscribed>>
  BY DEF TellOne, TellerGoes
<1>2. one \in Tidings
  <2>1. teller[a].todo # {} /\ teller[a].todo \subseteq Tidings
    BY <1>1 DEF NewsInv, TellersKnow, TellersTyped
  <2>2. one \in teller[a].todo
    BY <2>1
  <2> QED
    BY <2>1, <2>2
<1>3. \/ \E n \in Refreshable(one[1]) : teller' = [teller EXCEPT ![a] = at("refresh", n)]
      \/ teller' = [teller EXCEPT ![a] = at("insert", 0)]
  BY DEF TellOne, TellerGoes
<1>4. PICK pc \in {"refresh", "insert"}, n \in NoticeIds \cup {0} :
        /\ teller' = [teller EXCEPT ![a] = [teller[a] EXCEPT !.pc = pc, !.one = one, !.id = n]]
        /\ pc = "refresh" => n \in NoticeIds /\ There(n) /\ ~notice[n].archived
  BY <1>3 DEF Refreshable
<1> HIDE DEF one
<1>5. teller[a] \in [pc : {"idle", "tell", "refresh", "insert"}, todo : SUBSET Tidings, one : Tidings \cup {<<>>}, id : NoticeIds \cup {0}]
  BY DEF NewsInv, TellersTyped
<1> DEFINE t == [teller[a] EXCEPT !.pc = pc, !.one = one, !.id = n]
<1>6. /\ t \in [pc : {"idle", "tell", "refresh", "insert"}, todo : SUBSET Tidings, one : Tidings \cup {<<>>}, id : NoticeIds \cup {0}]
      /\ t.pc = pc /\ t.one = one /\ t.id = n /\ t.todo = teller[a].todo
  BY <1>2, <1>4, <1>5
<1> HIDE DEF t
<1>7. /\ TellersTyped' /\ teller'[a] = t /\ \A b \in People \ {a} : teller'[b] = teller[b]
  BY <1>4, <1>6 DEF NewsInv, TellersTyped, t
<1>8. TellersKnow'
  BY <1>1, <1>2, <1>6, <1>7 DEF NewsInv, TellersKnow
<1>9. RefreshesThere'
  BY <1>1, <1>4, <1>6, <1>7 DEF NewsInv, RefreshesThere, There
<1> QED
  BY <1>1, <1>7, <1>8, <1>9 DEF NewsInv, NoticesTyped, ReadersTyped, ReadersThere, NewsIsUnread, There

\* The refreshed row is unread; it is archived only if it says why.
LEMMA RefreshKeeps ==
  ASSUME NewsInv, NEW a \in People, RefreshNotice(a)
  PROVE  NewsInv' /\ UNCHANGED <<assigned, subscribed>>
<1> DEFINE n == teller[a].id
           row == [[[notice[n] EXCEPT !.read = FALSE] EXCEPT !.recent = TRUE] EXCEPT !.news = TRUE]
<1>1. teller[a].pc = "refresh" /\ UNCHANGED <<reader, assigned, subscribed>>
      /\ teller' = [teller EXCEPT ![a] = Done(a, teller[a].one)]
  BY DEF RefreshNotice, TellerGoes
<1>2. n \in NoticeIds /\ notice[n] \in NoticeRows /\ (notice[n].archived => notice[n].overtaken)
  BY <1>1, ThereIsRow DEF NewsInv, RefreshesThere, NoticesTyped, There
<1>3. notice' = [notice EXCEPT ![n] = row]
  <2>1. notice' = [notice EXCEPT ![n].read = FALSE, ![n].recent = TRUE, ![n].news = TRUE]
    BY DEF RefreshNotice
  <2>2. notice \in [NoticeIds -> NoticeRows \cup {NoNotice}]
    BY DEF NewsInv, NoticesTyped
  <2> QED
    BY <1>2, <2>1, <2>2
<1>4. /\ row \in NoticeRows /\ row.read = FALSE /\ row.archived = notice[n].archived /\ row.overtaken = notice[n].overtaken
  BY <1>2 DEF NoticeRows
<1> HIDE DEF n, row
<1>5. /\ notice' \in [NoticeIds -> NoticeRows \cup {NoNotice}]
      /\ notice'[n] = row /\ \A m \in NoticeIds \ {n} : notice'[m] = notice[m]
  BY <1>2, <1>3, <1>4 DEF NewsInv, NoticesTyped
<1>6. \A m \in NoticeIds : There(m) => There(m)'
  BY <1>4, <1>5, ThereIsRow DEF There
<1>7. NewsIsUnread'
  <2> SUFFICES ASSUME NEW m \in NoticeIds, (There(m) /\ notice[m].news /\ ~notice[m].overtaken)'
               PROVE  (~notice[m].read /\ ~notice[m].archived)'
    BY DEF NewsIsUnread
  <2>1. CASE m = n
    BY <1>2, <1>4, <1>5, <2>1
  <2>2. CASE m # n
    BY <1>5, <2>2 DEF NewsInv, NewsIsUnread, There
  <2> QED
    BY <2>1, <2>2
<1>8. RowsMove
  BY <1>5, <1>6, <1>7 DEF RowsMove, NoticesTyped
<1>9. \A m \in NoticeIds : There(m) => notice'[m].archived = notice[m].archived /\ notice'[m].overtaken = notice[m].overtaken
  BY <1>4, <1>5
<1> DEFINE t == Done(a, teller[a].one)
<1>10. t \in [pc : {"idle", "tell"}, todo : SUBSET Tidings, one : {<<>>}, id : {0}] /\ (t.pc # "idle" => t.todo # {})
  BY DoneTyped DEF NewsInv
<1> HIDE DEF t
<1>11. teller' = [teller EXCEPT ![a] = t]
  BY <1>1 DEF t
<1> QED
  BY <1>1, <1>8, <1>9, <1>10, <1>11, TellerIdles

\* A new row is unread.
LEMMA CreateKeeps ==
  ASSUME NewsInv, NEW a \in People, CreateNotice(a)
  PROVE  NewsInv' /\ UNCHANGED <<assigned, subscribed>>
<1> DEFINE row == [for |-> teller[a].one[1], type |-> teller[a].one[2], recent |-> TRUE, read |-> FALSE,
                   archived |-> FALSE, news |-> TRUE, overtaken |-> FALSE]
<1>1. teller[a].pc = "insert" /\ UNCHANGED <<reader, assigned, subscribed>>
      /\ teller' = [teller EXCEPT ![a] = Done(a, teller[a].one)]
  BY DEF CreateNotice, TellerGoes
<1>2. PICK n \in NoticeIds : ~There(n) /\ notice' = [notice EXCEPT ![n] = row]
  BY DEF CreateNotice
<1>3. teller[a].one[1] \in People /\ teller[a].one[2] \in NoticeTypes
  BY <1>1 DEF NewsInv, TellersKnow, Tidings
<1>4. row \in NoticeRows /\ ~row.read /\ ~row.archived
  BY <1>3 DEF NoticeRows
<1> HIDE DEF row
<1>5. /\ notice' \in [NoticeIds -> NoticeRows \cup {NoNotice}]
      /\ notice'[n] = row /\ \A m \in NoticeIds \ {n} : notice'[m] = notice[m]
  BY <1>2, <1>4 DEF NewsInv, NoticesTyped
<1>6. \A m \in NoticeIds : There(m) => There(m)' /\ notice'[m] = notice[m]
  BY <1>2, <1>5 DEF There
<1>7. NewsIsUnread'
  BY <1>4, <1>5 DEF NewsInv, NewsIsUnread, There
<1>8. RowsMove
  BY <1>5, <1>6, <1>7 DEF RowsMove, NoticesTyped
<1> DEFINE t == Done(a, teller[a].one)
<1>9. t \in [pc : {"idle", "tell"}, todo : SUBSET Tidings, one : {<<>>}, id : {0}] /\ (t.pc # "idle" => t.todo # {})
  BY DoneTyped DEF NewsInv
<1> HIDE DEF t
<1>10. teller' = [teller EXCEPT ![a] = t]
  BY <1>1 DEF t
<1>11. \A m \in NoticeIds : There(m) => notice'[m].archived = notice[m].archived /\ notice'[m].overtaken = notice[m].overtaken
  BY <1>6
<1> QED
  BY <1>1, <1>8, <1>9, <1>10, <1>11, TellerIdles

\* What readers do leaves the tellers alone.
LEMMA ReaderKeeps ==
  ASSUME NewsInv, RowsMove, UNCHANGED teller, ReadersTyped',
         \A u \in People : reader'[u] # NoAct => reader'[u].id \in NoticeIds /\ There(reader'[u].id),
         \A a \in People :
           teller[a].pc = "refresh" /\ notice'[teller[a].id].archived => notice'[teller[a].id].overtaken
  PROVE  NewsInv'
<1>1. TellersTyped' /\ TellersKnow'
  BY DEF NewsInv, TellersTyped, TellersKnow
<1>2. RefreshesThere'
  <2> SUFFICES ASSUME NEW a \in People, teller[a].pc = "refresh"
               PROVE  /\ teller[a].id \in NoticeIds /\ There(teller[a].id)'
                      /\ notice'[teller[a].id].archived => notice'[teller[a].id].overtaken
    BY DEF RefreshesThere, There
  <2>1. teller[a].id \in NoticeIds /\ There(teller[a].id)
    BY DEF NewsInv, RefreshesThere
  <2>2. notice'[teller[a].id] # NoNotice
    BY <2>1 DEF RowsMove, There
  <2> QED
    BY <2>1, <2>2 DEF There
<1>3. ReadersThere'
  BY DEF RowsMove, ReadersThere
<1> QED
  BY <1>1, <1>2, <1>3 DEF NewsInv, RowsMove

LEMMA ActKeeps ==
  ASSUME NewsInv, NEW u \in People, NEW n \in NoticeIds, ActOn(u, n)
  PROVE  NewsInv' /\ UNCHANGED <<assigned, subscribed>>
<1>1. /\ There(n) /\ notice' = [notice EXCEPT ![n].news = FALSE] /\ UNCHANGED <<teller, assigned, subscribed>>
  BY DEF ActOn
<1>2. PICK read \in BOOLEAN, archived \in BOOLEAN : reader' = [reader EXCEPT ![u] = [id |-> n, read |-> read, archived |-> archived]]
  BY DEF ActOn
<1>3. notice[n] \in NoticeRows
  BY <1>1, ThereIsRow DEF NewsInv, NoticesTyped, There
<1> DEFINE row == [notice[n] EXCEPT !.news = FALSE]
<1>4. row \in NoticeRows /\ row.archived = notice[n].archived /\ row.overtaken = notice[n].overtaken /\ row.news = FALSE
  BY <1>3 DEF NoticeRows
<1> HIDE DEF row
<1>5. /\ notice' \in [NoticeIds -> NoticeRows \cup {NoNotice}]
      /\ notice'[n] = row /\ \A m \in NoticeIds \ {n} : notice'[m] = notice[m]
  BY <1>1, <1>4 DEF NewsInv, NoticesTyped, row
<1>6. RowsMove
  <2>1. \A m \in NoticeIds : There(m) => There(m)'
    BY <1>4, <1>5, ThereIsRow DEF There
  <2>2. NewsIsUnread'
    BY <1>4, <1>5 DEF NewsInv, NewsIsUnread, There
  <2> QED
    BY <1>5, <2>1, <2>2 DEF RowsMove, NoticesTyped
<1>7. /\ ReadersTyped' /\ reader'[u].id = n /\ \A v \in People \ {u} : reader'[v] = reader[v]
  BY <1>2 DEF NewsInv, ReadersTyped
<1>8. \A v \in People : reader'[v] # NoAct => reader'[v].id \in NoticeIds /\ There(reader'[v].id)
  BY <1>1, <1>7 DEF NewsInv, ReadersThere
<1>9. \A a \in People : teller[a].pc = "refresh" =>
        notice'[teller[a].id].archived = notice[teller[a].id].archived /\ notice'[teller[a].id].overtaken = notice[teller[a].id].overtaken
  BY <1>4, <1>5 DEF NewsInv, RefreshesThere
<1>10. \A a \in People : teller[a].pc = "refresh" => (notice[teller[a].id].archived => notice[teller[a].id].overtaken)
  BY DEF NewsInv, RefreshesThere
<1> QED
  BY <1>1, <1>6, <1>7, <1>8, <1>9, <1>10, ReaderKeeps

\* The copy is written over the row; if that was told something meanwhile, it
\* says that it was overtaken.
LEMMA WriteKeeps ==
  ASSUME NewsInv, NEW u \in People, WriteNotice(u)
  PROVE  NewsInv' /\ UNCHANGED <<assigned, subscribed>>
<1> DEFINE n == reader[u].id
           late == notice[n].news \/ \E a \in People : teller[a].pc = "refresh" /\ teller[a].id = n
           kept == [[notice[n] EXCEPT !.read = reader[u].read] EXCEPT !.archived = reader[u].archived]
           row == [kept EXCEPT !.overtaken = kept.overtaken \/ late]
<1>1. /\ reader[u] # NoAct /\ reader' = [reader EXCEPT ![u] = NoAct]
      /\ notice' = [notice EXCEPT ![n] = [Written(n, reader[u]) EXCEPT !.overtaken = @ \/ late]]
      /\ UNCHANGED <<teller, assigned, subscribed>>
  BY DEF WriteNotice
<1>2. n \in NoticeIds /\ There(n) /\ notice[n] \in NoticeRows
  BY <1>1, ThereIsRow DEF NewsInv, NoticesTyped, ReadersThere, There
<1>3. reader[u].read \in BOOLEAN /\ reader[u].archived \in BOOLEAN
  BY DEF NewsInv, ReadersTyped
<1>4. notice[n].news \in BOOLEAN /\ notice[n].overtaken \in BOOLEAN /\ late \in BOOLEAN
  BY <1>2 DEF NoticeRows
<1> HIDE DEF late
<1>5. kept \in NoticeRows /\ kept.news = notice[n].news /\ kept.overtaken = notice[n].overtaken
  BY <1>2, <1>3 DEF NoticeRows
<1>6. Written(n, reader[u]) = kept
  BY <1>2 DEF Written, NoticeRows
<1> HIDE DEF kept
<1>7. row \in NoticeRows /\ row.news = notice[n].news /\ row.overtaken = (notice[n].overtaken \/ late)
  <2>1. (kept.overtaken \/ late) \in BOOLEAN
    OBVIOUS
  <2>2. row.overtaken = (kept.overtaken \/ late) /\ row.news = kept.news
    BY <1>5 DEF NoticeRows
  <2>3. row \in NoticeRows
    BY <1>5, <2>1 DEF NoticeRows
  <2> QED
    BY <1>5, <2>2, <2>3
<1>8. notice' = [notice EXCEPT ![n] = row]
  BY <1>1, <1>6
<1> HIDE DEF row
<1>9. /\ notice' \in [NoticeIds -> NoticeRows \cup {NoNotice}]
      /\ notice'[n] = row /\ \A m \in NoticeIds \ {n} : notice'[m] = notice[m]
  BY <1>2, <1>7, <1>8 DEF NewsInv, NoticesTyped
<1>10. RowsMove
  <2>1. \A m \in NoticeIds : There(m) => There(m)'
    BY <1>7, <1>9, ThereIsRow DEF There
  <2>2. row.news => row.overtaken
    BY <1>4, <1>7 DEF late
  <2>3. NewsIsUnread'
    BY <1>9, <2>2 DEF NewsInv, NewsIsUnread, There
  <2> QED
    BY <1>9, <2>1, <2>3 DEF RowsMove, NoticesTyped
<1>11. \A a \in People : teller[a].pc = "refresh" => (notice'[teller[a].id].archived => notice'[teller[a].id].overtaken)
  <2> SUFFICES ASSUME NEW a \in People, teller[a].pc = "refresh", notice'[teller[a].id].archived
               PROVE  notice'[teller[a].id].overtaken
    OBVIOUS
  <2>1. CASE teller[a].id = n
    <3>1. late
      BY <2>1 DEF late
    <3> QED
      BY <1>7, <1>9, <2>1, <3>1
  <2>2. CASE teller[a].id # n
    BY <1>9, <2>2 DEF NewsInv, RefreshesThere
  <2> QED
    BY <2>1, <2>2
<1>12. /\ ReadersTyped' /\ reader'[u] = NoAct /\ \A v \in People \ {u} : reader'[v] = reader[v]
  BY <1>1 DEF NewsInv, ReadersTyped, NoAct
<1>13. \A v \in People : reader'[v] # NoAct => reader'[v].id \in NoticeIds /\ There(reader'[v].id)
  BY <1>12 DEF NewsInv, ReadersThere
<1> QED
  BY <1>1, <1>10, <1>11, <1>12, <1>13, ReaderKeeps

\* Statements about many rows, and time.
LEMMA RestKeeps ==
  ASSUME NewsInv, NEW u \in People, MarkAllRead(u) \/ WindowPasses \/ ToggleSubscription(u)
  PROVE  NewsInv' /\ assigned' = assigned /\ subscribed' \in {subscribed, subscribed \cup {u}, subscribed \ {u}}
<1>1. UNCHANGED <<teller, reader, assigned>> /\ subscribed' \in {subscribed, subscribed \cup {u}, subscribed \ {u}}
  BY DEF MarkAllRead, WindowPasses, ToggleSubscription
<1>2. \A n \in NoticeIds : There(n) => notice[n] \in NoticeRows
  BY ThereIsRow DEF NewsInv, NoticesTyped, There
<1>3. /\ NoticesTyped'
      /\ \A n \in NoticeIds :
           \/ notice'[n] = notice[n]
           \/ /\ There(n) /\ notice'[n] \in NoticeRows
              /\ notice'[n].archived = notice[n].archived /\ notice'[n].overtaken = notice[n].overtaken
              /\ notice'[n].news => notice[n].news /\ notice'[n].read = notice[n].read
  <2>1. CASE MarkAllRead(u)
    <3> DEFINE row(n) == [[notice[n] EXCEPT !.read = TRUE] EXCEPT !.news = FALSE]
    <3>1. \A n \in NoticeIds : There(n) =>
            /\ row(n) \in NoticeRows /\ ~row(n).news
            /\ row(n).archived = notice[n].archived /\ row(n).overtaken = notice[n].overtaken
      BY <1>2 DEF NoticeRows
    <3>2. notice' = [n \in NoticeIds |-> IF There(n) /\ notice[n].for = u THEN row(n) ELSE notice[n]]
      <4>1. notice' = [n \in NoticeIds |-> IF There(n) /\ notice[n].for = u
                                           THEN [notice[n] EXCEPT !.read = TRUE, !.news = FALSE] ELSE notice[n]]
        BY <2>1 DEF MarkAllRead
      <4> QED
        BY <4>1
    <3> HIDE DEF row
    <3>3. \A n \in NoticeIds : notice[n] \in NoticeRows \cup {NoNotice}
      BY DEF NewsInv, NoticesTyped
    <3> QED
      BY <3>1, <3>2, <3>3 DEF NoticesTyped
  <2>2. CASE WindowPasses
    <3> DEFINE row(n) == [notice[n] EXCEPT !.recent = FALSE]
    <3>1. \A n \in NoticeIds : There(n) =>
            /\ row(n) \in NoticeRows /\ row(n).news = notice[n].news /\ row(n).read = notice[n].read
            /\ row(n).archived = notice[n].archived /\ row(n).overtaken = notice[n].overtaken
      BY <1>2 DEF NoticeRows
    <3>2. notice' = [n \in NoticeIds |-> IF There(n) THEN row(n) ELSE NoNotice]
      BY <2>2 DEF WindowPasses
    <3> HIDE DEF row
    <3>3. \A n \in NoticeIds : ~There(n) => notice[n] = NoNotice
      BY DEF There
    <3> QED
      BY <3>1, <3>2, <3>3 DEF NoticesTyped
  <2>3. CASE ToggleSubscription(u)
    BY <2>3 DEF ToggleSubscription, NewsInv, NoticesTyped
  <2> QED
    BY <2>1, <2>2, <2>3
<1>4. RowsMove
  <2>1. \A n \in NoticeIds : There(n) => There(n)'
    BY <1>3, ThereIsRow DEF There
  <2>2. NewsIsUnread'
    BY <1>3 DEF NewsInv, NewsIsUnread, There
  <2> QED
    BY <1>3, <2>1, <2>2 DEF RowsMove
<1>5. \A a \in People : teller[a].pc = "refresh" => (notice'[teller[a].id].archived => notice'[teller[a].id].overtaken)
  BY <1>3 DEF NewsInv, RefreshesThere
<1>6. ReadersTyped' /\ \A v \in People : reader'[v] # NoAct => reader'[v].id \in NoticeIds /\ There(reader'[v].id)
  BY <1>1 DEF NewsInv, ReadersTyped, ReadersThere
<1> QED
  BY <1>1, <1>4, <1>5, <1>6, ReaderKeeps

\* Those who are told are users.
Concerned == assigned \subseteq People /\ subscribed \subseteq People

LEMMA NewsStep == NewsInv /\ Concerned /\ NotificationsNext => NewsInv' /\ Concerned'
<1> SUFFICES ASSUME NewsInv, Concerned, NotificationsNext PROVE NewsInv' /\ Concerned'
  OBVIOUS
<1>1. ASSUME NEW a \in People, NEW mentioned \in {{}, People}, NEW u \in People,
             UpdateIssue(a, mentioned) \/ CommentOnIssue(a, mentioned) \/ AssignIssue(a, u) \/ ChangeCycle(a)
      PROVE  NewsInv' /\ Concerned'
  BY <1>1, AnnouncementsKeep DEF Concerned
<1>2. ASSUME NEW a \in People, TellOne(a) \/ RefreshNotice(a) \/ CreateNotice(a)
      PROVE  NewsInv' /\ Concerned'
  BY <1>2, TellOneKeeps, RefreshKeeps, CreateKeeps DEF Concerned
<1>3. ASSUME NEW u \in People, WriteNotice(u) \/ \E n \in NoticeIds : ActOn(u, n)
      PROVE  NewsInv' /\ Concerned'
  BY <1>3, WriteKeeps, ActKeeps DEF Concerned
<1>4. ASSUME NEW u \in People, MarkAllRead(u) \/ WindowPasses \/ ToggleSubscription(u)
      PROVE  NewsInv' /\ Concerned'
  <2>1. NewsInv' /\ assigned' = assigned /\ subscribed' \in {subscribed, subscribed \cup {u}, subscribed \ {u}}
    BY <1>4, RestKeeps
  <2> QED
    BY <2>1 DEF Concerned
<1> QED
  BY <1>1, <1>2, <1>3, <1>4, NotificationsAssumption DEF NotificationsNext

LEMMA NewsInvariant == AppSpec => [](NewsInv /\ Concerned)
<1>1. AppInit => NewsInv /\ Concerned
  BY NewsInit, NotificationsAssumption DEF AppInit, NotificationsInit, Concerned
<1>2. NewsInv /\ Concerned /\ [AppNext]_app => NewsInv' /\ Concerned'
  <2> SUFFICES ASSUME NewsInv, Concerned, [AppNext]_app PROVE NewsInv' /\ Concerned'
    OBVIOUS
  <2>1. CASE NotificationsNext
    BY <2>1, NewsStep
  <2>2. CASE UNCHANGED notifications
    BY <2>2 DEF notifications, NewsInv, Concerned, NoticesTyped, TellersTyped, TellersKnow, ReadersTyped,
                RefreshesThere, ReadersThere, NewsIsUnread, There
  <2> QED
    BY <2>1, <2>2 DEF AppNext, app
<1> QED
  BY <1>1, <1>2, PTL DEF AppSpec

\* Whatever is told and whatever readers do at the same time, what they have
\* not acted on is unread and in their list (CreateOrRefresh, and the read,
\* archive and update requests on notifications).
THEOREM ToldIsUnread == AppSpec => []NewsIsUnread
<1>1. NewsInv => NewsIsUnread
  BY DEF NewsInv
<1> QED
  BY <1>1, NewsInvariant, PTL

-----------------------------------------------------------------------------
(* Presence *)

PageRows == [topic : Topics \cup {NoTopic}, socket : Clients \cup {NoClient}, viewers : SUBSET Pages]

ClientRows ==
  [state : {"unused", "open", "closed", "gone"}, of : Pages, viewing : Topics \cup {NoTopic},
   send : Seq(HubEvents), pc : {"read", "send", "list", "sync"}, event : HubEvents \cup {<<>>},
   todo : Topics \cup {NoTopic}, raced : BOOLEAN]

PresenceTyped ==
  /\ page \in [Pages -> PageRows] /\ client \in [Clients -> ClientRows]
  /\ inbox \in [Clients -> Seq(Messages)] /\ excused \in BOOLEAN

\* A page and its socket know each other; a page that looks at nothing shows nobody.
SocketsPaired ==
  /\ \A c \in Clients : client[c].state = "open" => page[client[c].of].socket = c
  /\ \A p \in Pages : /\ page[p].socket # NoClient => client[page[p].socket].of = p /\ client[page[p].socket].state = "open"
                      /\ page[p].topic = NoTopic => page[p].viewers = {}

\* What the read pump has in hand at each of its steps.
PumpsKnow ==
  \A c \in Clients :
    /\ client[c].pc # "read" => client[c].state \in {"open", "closed"}
    /\ client[c].pc # "send" => client[c].todo = NoTopic
    /\ client[c].pc \in {"list", "sync"} => client[c].viewing \in Topics
    /\ client[c].pc = "sync" =>
         client[c].event \in HubEvents /\ client[c].event.type = "sync" /\ client[c].event.topic = client[c].viewing
    /\ client[c].pc = "send" =>
         /\ client[c].event \in HubEvents /\ client[c].event.type \in {"join", "leave"}
         /\ client[c].event.users = {client[c].of}
         /\ client[c].viewing = IF client[c].event.type = "join" THEN client[c].event.topic ELSE NoTopic
         /\ client[c].event.type = "join" => client[c].todo = NoTopic

\* Where the messages on their way to the pump will lead it.
Heading(c) ==
  IF inbox[c] # <<>> THEN inbox[c][Len(inbox[c])].topic
  ELSE IF client[c].todo # NoTopic THEN client[c].todo
  ELSE client[c].viewing

PagesFollowed == \A c \in Clients : client[c].state = "open" => Heading(c) = page[client[c].of].topic

\* A client of q looks at t, or is about to say that it has left.
LooksAt(d, t) ==
  /\ client[d].state \in {"open", "closed"}
  /\ \/ client[d].viewing = t
     \/ client[d].pc = "send" /\ client[d].event.type = "leave" /\ client[d].event.topic = t

Looks(q, t) == \E d \in Clients : client[d].of = q /\ LooksAt(d, t)

Adds(e, q) == e.type \in {"join", "sync"} /\ q \in e.users
Removes(e, q, t) == e.topic = t /\ (IF e.type = "sync" THEN q \notin e.users ELSE e.type = "leave" /\ q \in e.users)

\* An event behind position k of the channel takes q off the list.
TakenOff(c, k, q, t) == \E j \in k + 1 .. Len(client[c].send) : Removes(client[c].send[j], q, t)

ShownFairly(c, q) ==
  /\ q \in page[client[c].of].viewers =>
       Looks(q, page[client[c].of].topic) \/ TakenOff(c, 0, q, page[client[c].of].topic)
  /\ \A k \in 1 .. Len(client[c].send) : Adds(client[c].send[k], q) =>
       Looks(q, client[c].send[k].topic) \/ TakenOff(c, k, q, client[c].send[k].topic)
  /\ client[c].pc = "sync" /\ q \in client[c].event.users => Looks(q, client[c].event.topic)

AllShownFairly ==
  ~excused => \A c \in Clients, q \in Pages : client[c].state = "open" /\ q # client[c].of => ShownFairly(c, q)

PresenceInv == PresenceTyped /\ SocketsPaired /\ PumpsKnow /\ PagesFollowed /\ AllShownFairly

-----------------------------------------------------------------------------
(* Sequences and rows *)

LEMMA AfterTheFirst ==
  ASSUME NEW S, NEW s \in Seq(S), s # <<>>
  PROVE  /\ Head(s) \in S /\ Head(s) = s[1] /\ Tail(s) \in Seq(S)
         /\ Len(s) \in Nat \ {0} /\ Len(Tail(s)) = Len(s) - 1
         /\ \A k \in 1 .. Len(s) - 1 : Tail(s)[k] = s[k + 1]
         /\ Tail(s) = <<>> <=> Len(s) = 1
<1>1. Head(s) \in S /\ Head(s) = s[1] /\ Tail(s) \in Seq(S)
  OBVIOUS
<1>2. Len(s) \in Nat \ {0} /\ Len(Tail(s)) = Len(s) - 1
  OBVIOUS
<1>3. \A k \in 1 .. Len(s) - 1 : Tail(s)[k] = s[k + 1]
  OBVIOUS
<1>4. Tail(s) = <<>> <=> Len(s) = 1
  <2>1. \A r \in Seq(S) : r # <<>> => Len(r) \in Nat \ {0}
    BY EmptySeq, Zenon
  <2>2. Len(<<>>) = 0
    OBVIOUS
  <2>3. Tail(s) # <<>> => Len(Tail(s)) \in Nat \ {0}
    BY <1>1, <2>1
  <2>4. Tail(s) = <<>> => Len(Tail(s)) = 0
    BY <2>2, Zenon
  <2>5. Len(s) = 1 <=> Len(Tail(s)) = 0
    BY <1>2
  <2>6. Len(Tail(s)) = 0 <=> Len(Tail(s)) \notin Nat \ {0}
    BY <1>2
  <2> QED
    BY <2>3, <2>4, <2>5, <2>6, Zenon
<1> QED
  BY <1>1, <1>2, <1>3, <1>4

LEMMA OneMore ==
  ASSUME NEW S, NEW s \in Seq(S), NEW x \in S
  PROVE  /\ Append(s, x) \in Seq(S) /\ Append(s, x) # <<>>
         /\ Len(s) \in Nat /\ Len(Append(s, x)) = Len(s) + 1
         /\ \A k \in 1 .. Len(s) : Append(s, x)[k] = s[k]
         /\ Append(s, x)[Len(s) + 1] = x
<1>1. Append(s, x) \in Seq(S) /\ Len(s) \in Nat /\ Len(Append(s, x)) = Len(s) + 1
  OBVIOUS
<1>2. Append(s, x) # <<>>
  BY <1>1
<1>3. /\ \A k \in 1 .. Len(s) : Append(s, x)[k] = s[k]
      /\ Append(s, x)[Len(s) + 1] = x
  OBVIOUS
<1> QED
  BY <1>1, <1>2, <1>3

LEMMA NewRow ==
  /\ NewClient \in ClientRows /\ NewClient.state = "unused" /\ NewClient.viewing = NoTopic
  /\ NewClient.send = <<>> /\ NewClient.event = <<>> /\ NewClient.pc = "read" /\ NewClient.todo = NoTopic
<1>1. (CHOOSE p \in Pages : TRUE) \in Pages
  BY PresenceAssumption
<1> QED
  BY <1>1 DEF NewClient, ClientRows

LEMMA EventShape ==
  \A e \in HubEvents : e.type \in {"join", "leave", "sync"} /\ e.topic \in Topics /\ e.users \in SUBSET Pages
  BY DEF HubEvents

LEMMA MessageShape ==
  \A m \in Messages : /\ m.type = "join" /\ m.topic \in Topics
                      \/ /\ m.type = "leave" /\ m.topic = NoTopic
  BY DEF Messages

\* What the type of a client says of its fields.
LEMMA ClientShape ==
  ASSUME PresenceTyped, NEW c \in Clients
  PROVE  /\ client[c].state \in {"unused", "open", "closed", "gone"} /\ client[c].of \in Pages
         /\ client[c].viewing \in Topics \cup {NoTopic} /\ client[c].send \in Seq(HubEvents)
         /\ client[c].pc \in {"read", "send", "list", "sync"} /\ client[c].event \in HubEvents \cup {<<>>}
         /\ client[c].todo \in Topics \cup {NoTopic} /\ client[c].raced \in BOOLEAN
         /\ inbox[c] \in Seq(Messages)
         /\ page[client[c].of] \in PageRows
<1>1. client[c] \in ClientRows /\ inbox[c] \in Seq(Messages)
  BY DEF PresenceTyped
<1>2. client[c].of \in Pages
  BY <1>1 DEF ClientRows
<1>3. page[client[c].of] \in PageRows
  BY <1>2 DEF PresenceTyped
<1> QED
  BY <1>1, <1>2, <1>3 DEF ClientRows

LEMMA PageShape ==
  ASSUME PresenceTyped, NEW p \in Pages
  PROVE  /\ page[p].topic \in Topics \cup {NoTopic} /\ page[p].socket \in Clients \cup {NoClient}
         /\ page[p].viewers \in SUBSET Pages
<1>1. page[p] \in PageRows
  BY DEF PresenceTyped
<1> QED
  BY <1>1 DEF PageRows

-----------------------------------------------------------------------------
(* Who is shown *)

\* How the step of one actor leaves a client: nothing is added to what it is
\* shown, or it is a new one that is shown nothing.
SameShown(c) ==
  /\ client[c].state = "open" /\ client'[c].of = client[c].of /\ client'[c].send = client[c].send
  /\ LET p == client[c].of IN /\ page'[p].viewers \subseteq page[p].viewers
                              /\ page'[p].topic = page[p].topic \/ page'[p].viewers = {}
  /\ client'[c].pc = "sync" => \/ client[c].pc = "sync" /\ client'[c].event = client[c].event
                               \/ \A q \in client'[c].event.users, t \in Topics :
                                     t = client'[c].event.topic => Looks(q, t)'

NothingShown(c) == client'[c].send = <<>> /\ client'[c].pc # "sync" /\ page'[client'[c].of].viewers = {}

\* What is shown to a client stays fair to q when q keeps looking at what it looks at.
LEMMA ShownKept ==
  ASSUME PresenceInv, ~excused, PumpsKnow', NEW c \in Clients, NEW q \in Pages, q # client'[c].of,
         \A t \in Topics : Looks(q, t) => Looks(q, t)', SameShown(c)
  PROVE  ShownFairly(c, q)'
<1>1. client[c].state = "open" /\ q # client[c].of /\ ShownFairly(c, q)
  BY DEF SameShown, PresenceInv, AllShownFairly
<1>2. client[c].send \in Seq(HubEvents) /\ client'[c].send = client[c].send /\ client[c].of \in Pages
  BY ClientShape DEF PresenceInv, SameShown
<1>3. \A k \in 0 .. Len(client[c].send), t \in Topics \cup {NoTopic} : TakenOff(c, k, q, t) => TakenOff(c, k, q, t)'
  BY <1>2 DEF TakenOff, Removes
<1>4. ASSUME q \in page'[client'[c].of].viewers
      PROVE  Looks(q, page[client[c].of].topic)' \/ TakenOff(c, 0, q, page[client[c].of].topic)'
  <2> PICK t : t = page[client[c].of].topic
    OBVIOUS
  <2>1. q \in page[client[c].of].viewers /\ page'[client'[c].of].topic = t
    BY <1>4 DEF SameShown
  <2>2. Looks(q, t) \/ TakenOff(c, 0, q, t)
    BY <1>1, <2>1 DEF ShownFairly
  <2>3. t \in Topics /\ 0 \in 0 .. Len(client[c].send)
    <3>1. t \in Topics \cup {NoTopic} /\ t # NoTopic
      BY <1>2, <2>1, PageShape DEF PresenceInv, SocketsPaired
    <3> QED
      BY <1>2, <3>1
  <2>4. Looks(q, t)' \/ TakenOff(c, 0, q, t)'
    BY <1>3, <2>2, <2>3
  <2>5. CASE Looks(q, t)'
    BY <2>1, <2>5 DEF Looks, LooksAt
  <2>6. CASE TakenOff(c, 0, q, t)'
    BY <2>1, <2>6 DEF TakenOff
  <2> QED
    BY <2>4, <2>5, <2>6
<1>5. ASSUME NEW k \in 1 .. Len(client'[c].send), Adds(client'[c].send[k], q)
      PROVE  Looks(q, client[c].send[k].topic)' \/ TakenOff(c, k, q, client[c].send[k].topic)'
  <2> PICK t : t = client[c].send[k].topic
    OBVIOUS
  <2>1. Looks(q, t) \/ TakenOff(c, k, q, t)
    BY <1>1, <1>2, <1>5 DEF ShownFairly
  <2>2. client[c].send[k] \in HubEvents /\ k \in 0 .. Len(client[c].send) /\ client'[c].send[k] = client[c].send[k]
    BY <1>2
  <2>3. t \in Topics
    BY <2>2, EventShape
  <2>4. Looks(q, t)' \/ TakenOff(c, k, q, t)'
    BY <1>3, <2>1, <2>2, <2>3
  <2>5. CASE Looks(q, t)'
    BY <2>2, <2>5 DEF Looks, LooksAt
  <2>6. CASE TakenOff(c, k, q, t)'
    BY <2>2, <2>6 DEF TakenOff
  <2> QED
    BY <2>4, <2>5, <2>6
<1>6. ASSUME client'[c].pc = "sync", q \in client'[c].event.users, client'[c].event.topic \in Topics
      PROVE  Looks(q, client[c].event.topic)'
  <2> PICK t : t = client'[c].event.topic
    OBVIOUS
  <2>1. CASE client[c].pc = "sync" /\ client'[c].event = client[c].event
    <3>1. Looks(q, t)
      BY <1>1, <1>6, <2>1 DEF ShownFairly
    <3> QED
      BY <1>6, <3>1 DEF Looks, LooksAt
  <2>2. CASE \A r \in client'[c].event.users, i \in Topics : i = client'[c].event.topic => Looks(r, i)'
    BY <1>6, <2>2 DEF Looks, LooksAt
  <2> QED
    BY <1>6, <2>1, <2>2 DEF SameShown
<1>7. client'[c].pc = "sync" => client'[c].event.topic \in Topics
  BY DEF PumpsKnow
<1>8. client'[c].pc = "sync" /\ q \in client'[c].event.users => Looks(q, client[c].event.topic)'
  BY <1>6, <1>7
<1>9. \A k \in 1 .. Len(client'[c].send) : Adds(client'[c].send[k], q) =>
        Looks(q, client[c].send[k].topic)' \/ TakenOff(c, k, q, client[c].send[k].topic)'
  BY <1>5
<1> QED
  BY <1>4, <1>8, <1>9 DEF ShownFairly, Adds

LEMMA FairlyKept ==
  ASSUME PresenceInv, excused' = excused,
         \A q \in Pages, t \in Topics : Looks(q, t) => Looks(q, t)',
         \A c \in Clients : client'[c].state = "open" => SameShown(c) \/ NothingShown(c),
         PumpsKnow'
  PROVE  AllShownFairly'
<1> SUFFICES ASSUME ~excused, NEW c \in Clients, NEW q \in Pages, client'[c].state = "open", q # client'[c].of
             PROVE  ShownFairly(c, q)'
  BY DEF AllShownFairly
<1>1. CASE NothingShown(c)
  BY <1>1 DEF NothingShown, ShownFairly
<1>2. CASE SameShown(c)
  BY <1>2, ShownKept
<1> QED
  BY <1>1, <1>2

\* One event more: q keeps looking at what it looks at, or the event takes it off.
LEMMA ShownWithOneMore ==
  ASSUME PresenceInv, ~excused, NEW c \in Clients, NEW q \in Pages, client[c].state = "open", q # client[c].of,
         NEW e \in HubEvents, client'[c].of = client[c].of, client'[c].send = Append(client[c].send, e), page' = page,
         \A t \in Topics : Looks(q, t) => Looks(q, t)' \/ Removes(e, q, t),
         Adds(e, q) => \A t \in Topics : t = e.topic => Looks(q, t)',
         client'[c].pc = "sync" => /\ client[c].pc = "sync" /\ client'[c].event = client[c].event
                                   /\ \A t \in Topics : Looks(q, t) => Looks(q, t)'
  PROVE  ShownFairly(c, q)'
<1>1. PresenceTyped /\ SocketsPaired /\ PumpsKnow /\ ShownFairly(c, q)
  BY DEF PresenceInv, AllShownFairly
<1>2. client[c].send \in Seq(HubEvents) /\ client[c].of \in Pages /\ page[client[c].of].topic \in Topics \cup {NoTopic}
  BY <1>1, ClientShape, PageShape
<1> PICK n \in Nat : n = Len(client[c].send)
  BY <1>2
<1>3. /\ Len(client'[c].send) = n + 1 /\ client'[c].send[n + 1] = e
      /\ \A k \in 1 .. n : client'[c].send[k] = client[c].send[k]
  BY <1>2, OneMore
\* What was said of q before the event.
<1>4. ASSUME NEW k \in 0 .. n, NEW t \in Topics, Looks(q, t) \/ TakenOff(c, k, q, t)
      PROVE  Looks(q, t)' \/ TakenOff(c, k, q, t)'
  <2>1. CASE TakenOff(c, k, q, t)
    <3> PICK j \in k + 1 .. n : Removes(client[c].send[j], q, t)
      BY <2>1 DEF TakenOff
    <3>1. j \in 1 .. n /\ j \in k + 1 .. n + 1
      OBVIOUS
    <3>2. Removes(client'[c].send[j], q, t)
      BY <1>3, <3>1 DEF Removes
    <3> QED
      BY <1>3, <3>1, <3>2 DEF TakenOff, Removes
  <2>2. CASE Looks(q, t) /\ ~Looks(q, t)'
    <3>1. Removes(client'[c].send[n + 1], q, t) /\ n + 1 \in k + 1 .. n + 1
      BY <1>3, <2>2 DEF Removes
    <3> QED
      BY <1>3, <3>1 DEF TakenOff, Removes
  <2> QED
    BY <1>4, <2>1, <2>2
<1>5. ASSUME q \in page[client[c].of].viewers
      PROVE  Looks(q, page[client[c].of].topic)' \/ TakenOff(c, 0, q, page[client[c].of].topic)'
  <2> PICK t : t = page[client[c].of].topic
    OBVIOUS
  <2>1. t \in Topics /\ 0 \in 0 .. n
    BY <1>1, <1>2, <1>5 DEF SocketsPaired
  <2>2. Looks(q, t)' \/ TakenOff(c, 0, q, t)'
    BY <1>1, <1>4, <1>5, <2>1 DEF ShownFairly
  <2>3. CASE Looks(q, t)'
    BY <2>3 DEF Looks, LooksAt
  <2>4. CASE TakenOff(c, 0, q, t)'
    BY <2>4 DEF TakenOff
  <2> QED
    BY <2>2, <2>3, <2>4
<1>6. ASSUME NEW k \in 1 .. n + 1, Adds(client'[c].send[k], q)
      PROVE  Looks(q, client[c].send[k].topic)' \/ TakenOff(c, k, q, client[c].send[k].topic)'
  <2> PICK t : t = client'[c].send[k].topic
    OBVIOUS
  <2>1. CASE k = n + 1
    <3>1. t \in Topics /\ t = e.topic /\ Adds(e, q)
      BY <1>3, <1>6, <2>1, EventShape DEF Adds
    <3>2. Looks(q, t)'
      BY <3>1
    <3> QED
      BY <3>2 DEF Looks, LooksAt
  <2>2. CASE k # n + 1
    <3>1. k \in 1 .. n /\ k \in 0 .. n /\ client'[c].send[k] = client[c].send[k] /\ client[c].send[k] \in HubEvents
      BY <1>2, <1>3, <2>2
    <3>2. t \in Topics /\ t = client[c].send[k].topic /\ Adds(client[c].send[k], q)
      BY <1>6, <3>1, EventShape DEF Adds
    <3>3. Looks(q, t)' \/ TakenOff(c, k, q, t)'
      BY <1>1, <1>4, <3>1, <3>2 DEF ShownFairly
    <3>4. CASE Looks(q, t)'
      BY <3>4 DEF Looks, LooksAt
    <3>5. CASE TakenOff(c, k, q, t)'
      BY <3>5 DEF TakenOff
    <3> QED
      BY <3>3, <3>4, <3>5
  <2> QED
    BY <2>1, <2>2
<1>7. ASSUME client'[c].pc = "sync", q \in client'[c].event.users
      PROVE  Looks(q, client[c].event.topic)'
  <2> PICK t : t = client[c].event.topic
    OBVIOUS
  <2>1. t \in Topics /\ Looks(q, t) /\ client'[c].event = client[c].event
    BY <1>1, <1>7 DEF PumpsKnow, ShownFairly
  <2>2. Looks(q, t)'
    BY <1>7, <2>1
  <2> QED
    BY <2>1, <2>2 DEF Looks, LooksAt
<1>8. \A k \in 1 .. Len(client'[c].send) : Adds(client'[c].send[k], q) =>
        Looks(q, client[c].send[k].topic)' \/ TakenOff(c, k, q, client[c].send[k].topic)'
  BY <1>3, <1>6
<1> QED
  BY <1>5, <1>7, <1>8 DEF ShownFairly, Adds

-----------------------------------------------------------------------------
(* What pages do *)

\* A row of pages that changes for one of them.
LEMMA PageUpdate ==
  ASSUME PresenceTyped, NEW p \in Pages, NEW row \in PageRows, page' = [page EXCEPT ![p] = row]
  PROVE  page' \in [Pages -> PageRows] /\ page'[p] = row /\ \A q \in Pages : q # p => page'[q] = page[q]
  BY DEF PresenceTyped

\* Nothing happens to the clients.
LEMMA SameLooks ==
  ASSUME client' = client
  PROVE  \A q \in Pages, t \in Topics : Looks(q, t) => Looks(q, t)'
  BY DEF Looks, LooksAt

\* Two fields of one row.
LEMMA TopicOfRow ==
  ASSUME NEW r \in PageRows, NEW i
  PROVE  [r EXCEPT !.topic = i] = [topic |-> i, socket |-> r.socket, viewers |-> r.viewers]
<1>1. r = [topic |-> r.topic, socket |-> r.socket, viewers |-> r.viewers]
  BY DEF PageRows
<1> QED
  BY <1>1

LEMMA ViewersOfRow ==
  ASSUME NEW r \in PageRows, NEW V
  PROVE  [r EXCEPT !.viewers = V] = [topic |-> r.topic, socket |-> r.socket, viewers |-> V]
<1>1. r = [topic |-> r.topic, socket |-> r.socket, viewers |-> r.viewers]
  BY DEF PageRows
<1> QED
  BY <1>1

LEMMA TurnedPage ==
  ASSUME NEW f \in [Pages -> PageRows], NEW p \in Pages, NEW i \in Topics \cup {NoTopic}
  PROVE  [f EXCEPT ![p].topic = i, ![p].viewers = {}] = [f EXCEPT ![p] = [topic |-> i, socket |-> f[p].socket, viewers |-> {}]]
<1> PICK half : half = [f[p] EXCEPT !.topic = i]
  OBVIOUS
<1>1. half = [topic |-> i, socket |-> f[p].socket, viewers |-> f[p].viewers]
  BY TopicOfRow
<1>2. half \in PageRows
  BY <1>1 DEF PageRows
<1>3. [half EXCEPT !.viewers = {}] = [topic |-> half.topic, socket |-> half.socket, viewers |-> {}]
  BY <1>2, ViewersOfRow
<1>4. half.topic = i /\ half.socket = f[p].socket
  BY <1>1
<1>5. [f EXCEPT ![p].topic = i, ![p].viewers = {}] = [f EXCEPT ![p] = [half EXCEPT !.viewers = {}]]
  OBVIOUS
<1> QED
  BY <1>3, <1>4, <1>5

\* A page opens or leaves an issue, and tells the hub through its socket.
LEMMA PageTurns ==
  ASSUME PresenceInv, NEW p \in Pages, NEW i \in Topics \cup {NoTopic}, NEW m \in Messages, m.topic = i,
         page' = [page EXCEPT ![p].topic = i, ![p].viewers = {}],
         inbox' = [c \in Clients |-> IF c = page[p].socket THEN Append(inbox[c], m) ELSE inbox[c]],
         client' = client, excused' = excused
  PROVE  PresenceInv'
<1>1. PresenceTyped /\ SocketsPaired /\ PumpsKnow /\ PagesFollowed
  BY DEF PresenceInv
<1> PICK row : row = [topic |-> i, socket |-> page[p].socket, viewers |-> {}]
  OBVIOUS
<1>2. page[p] \in PageRows /\ page \in [Pages -> PageRows]
  BY <1>1 DEF PresenceTyped
<1>3. row \in PageRows /\ row.topic = i /\ row.socket = page[p].socket /\ row.viewers = {}
  BY <1>2 DEF PageRows
<1>4. page' = [page EXCEPT ![p] = row]
  BY <1>2, TurnedPage
<1>5. page' \in [Pages -> PageRows] /\ page'[p] = row /\ \A q \in Pages : q # p => page'[q] = page[q]
  BY <1>1, <1>3, <1>4, PageUpdate
<1>6. inbox' \in [Clients -> Seq(Messages)]
  <2>1. ASSUME NEW c \in Clients
        PROVE  inbox[c] \in Seq(Messages) /\ Append(inbox[c], m) \in Seq(Messages)
    BY <1>1 DEF PresenceTyped
  <2> QED
    BY <2>1
<1>7. PresenceTyped'
  BY <1>1, <1>5, <1>6 DEF PresenceTyped
<1>8. SocketsPaired'
  BY <1>1, <1>3, <1>5, ClientShape DEF SocketsPaired
<1>9. PumpsKnow'
  BY <1>1 DEF PumpsKnow
<1>10. PagesFollowed'
  <2> SUFFICES ASSUME NEW c \in Clients, client[c].state = "open"
               PROVE  Heading(c)' = page'[client[c].of].topic
    BY DEF PagesFollowed
  <2>1. Heading(c) = page[client[c].of].topic /\ page[client[c].of].socket = c /\ client[c].of \in Pages
    BY <1>1, ClientShape DEF PagesFollowed, SocketsPaired
  <2>2. CASE client[c].of = p
    <3>1. inbox[c] \in Seq(Messages) /\ inbox'[c] = Append(inbox[c], m)
      BY <1>1, <2>1, <2>2 DEF PresenceTyped
    <3>2. inbox'[c] # <<>> /\ inbox'[c][Len(inbox'[c])] = m
      BY <3>1, OneMore
    <3> QED
      BY <1>3, <1>5, <2>2, <3>2 DEF Heading
  <2>3. CASE client[c].of # p
    <3>1. page[p].socket # c
      BY <1>1, <2>1, <2>3, PresenceAssumption DEF SocketsPaired
    <3>2. inbox'[c] = inbox[c]
      BY <3>1
    <3> QED
      BY <1>5, <2>1, <2>3, <3>2 DEF Heading
  <2> QED
    BY <2>2, <2>3
<1>11. \A c \in Clients : client'[c].state = "open" => SameShown(c) \/ NothingShown(c)
  BY <1>1, <1>3, <1>5, ClientShape DEF SameShown
<1>12. AllShownFairly'
  BY <1>9, <1>11, SameLooks, FairlyKept
<1> QED
  BY <1>7, <1>8, <1>9, <1>10, <1>12 DEF PresenceInv

LEMMA OpenTopicKeeps ==
  ASSUME PresenceInv, NEW p \in Pages, NEW i \in Topics, OpenTopic(p, i)
  PROVE  PresenceInv'
<1>1. [type |-> "join", topic |-> i] \in Messages /\ [type |-> "join", topic |-> i].topic = i
  BY DEF Messages
<1> QED
  BY <1>1, PageTurns DEF OpenTopic, Tells

LEMMA LeaveTopicKeeps ==
  ASSUME PresenceInv, NEW p \in Pages, LeaveTopic(p)
  PROVE  PresenceInv'
<1>1. [type |-> "leave", topic |-> NoTopic] \in Messages /\ [type |-> "leave", topic |-> NoTopic].topic = NoTopic
  BY DEF Messages
<1> QED
  BY <1>1, PageTurns DEF LeaveTopic, Tells

\* What stays when only the page of one user changes, and not its issue or its socket.
LEMMA OnlyViewers ==
  ASSUME PresenceTyped, SocketsPaired, NEW p \in Pages, NEW V \in SUBSET Pages,
         page[p].topic = NoTopic => V = {},
         page' = [page EXCEPT ![p].viewers = V]
  PROVE  /\ page' \in [Pages -> PageRows] /\ page'[p].viewers = V
         /\ \A q \in Pages : page'[q].topic = page[q].topic /\ page'[q].socket = page[q].socket
         /\ \A q \in Pages : q # p => page'[q].viewers = page[q].viewers
         /\ \A q \in Pages : page'[q].topic = NoTopic => page'[q].viewers = {}
<1> PICK row : row = [topic |-> page[p].topic, socket |-> page[p].socket, viewers |-> V]
  OBVIOUS
<1>1. page[p] \in PageRows /\ page \in [Pages -> PageRows]
  BY DEF PresenceTyped
<1>2. row \in PageRows /\ row.topic = page[p].topic /\ row.socket = page[p].socket /\ row.viewers = V
  BY <1>1 DEF PageRows
<1>3. page' = [page EXCEPT ![p] = row]
  <2>1. page[p] = [topic |-> page[p].topic, socket |-> page[p].socket, viewers |-> page[p].viewers]
    BY <1>1 DEF PageRows
  <2>2. [page[p] EXCEPT !.viewers = V] = row
    BY <2>1
  <2> QED
    BY <1>1, <2>2
<1>4. page' \in [Pages -> PageRows] /\ page'[p] = row /\ \A q \in Pages : q # p => page'[q] = page[q]
  BY <1>2, <1>3, PageUpdate
<1> QED
  BY <1>2, <1>4 DEF SocketsPaired

LEMMA PageForgets ==
  ASSUME PresenceInv, NEW p \in Pages, NEW V \in SUBSET page[p].viewers,
         page' = [page EXCEPT ![p].viewers = V], client' = client, inbox' = inbox, excused' = excused
  PROVE  PresenceInv'
<1>1. PresenceTyped /\ SocketsPaired /\ PumpsKnow /\ PagesFollowed
  BY DEF PresenceInv
<1>2. V \in SUBSET Pages /\ V \subseteq page[p].viewers /\ (page[p].topic = NoTopic => V = {})
  BY <1>1, PageShape DEF SocketsPaired
<1>4. /\ page' \in [Pages -> PageRows] /\ page'[p].viewers = V
      /\ \A r \in Pages : page'[r].topic = page[r].topic /\ page'[r].socket = page[r].socket
      /\ \A r \in Pages : r # p => page'[r].viewers = page[r].viewers
      /\ \A r \in Pages : page'[r].topic = NoTopic => page'[r].viewers = {}
  BY <1>1, <1>2, OnlyViewers
<1>5. PresenceTyped' /\ PumpsKnow'
  BY <1>1, <1>4 DEF PresenceTyped, PumpsKnow
<1>6. SocketsPaired' /\ PagesFollowed'
  BY <1>1, <1>4, ClientShape DEF SocketsPaired, PagesFollowed, Heading
<1>7. \A c \in Clients : client'[c].state = "open" => SameShown(c) \/ NothingShown(c)
  BY <1>1, <1>2, <1>4, ClientShape DEF SameShown
<1>8. AllShownFairly'
  BY <1>5, <1>7, SameLooks, FairlyKept
<1> QED
  BY <1>5, <1>6, <1>8 DEF PresenceInv

LEMMA RemoveStaleKeeps ==
  ASSUME PresenceInv, NEW p \in Pages, RemoveStale(p)
  PROVE  PresenceInv'
<1>1. PICK q \in page[p].viewers : page' = [page EXCEPT ![p].viewers = page[p].viewers \ {q}]
  BY DEF RemoveStale
<1>2. page[p].viewers \ {q} \in SUBSET page[p].viewers /\ client' = client /\ inbox' = inbox /\ excused' = excused
  BY DEF RemoveStale
<1> QED
  BY <1>1, <1>2, PageForgets

-----------------------------------------------------------------------------
(* Sockets *)

LEMMA ClientUpdate ==
  ASSUME PresenceTyped, NEW c \in Clients, NEW row \in ClientRows, client' = [client EXCEPT ![c] = row]
  PROVE  client' \in [Clients -> ClientRows] /\ client'[c] = row /\ \A d \in Clients : d # c => client'[d] = client[d]
  BY DEF PresenceTyped

LEMMA ClosedRow ==
  ASSUME NEW r \in ClientRows, NEW n, n = [r EXCEPT !.state = "closed", !.send = <<>>]
  PROVE  /\ n \in ClientRows /\ n.state = "closed" /\ n.of = r.of /\ n.viewing = r.viewing /\ n.send = <<>>
         /\ n.pc = r.pc /\ n.event = r.event /\ n.todo = r.todo
<1>1. <<>> \in Seq(HubEvents)
  OBVIOUS
<1>2. n \in ClientRows
  BY <1>1 DEF ClientRows
<1>3. n.state = "closed" /\ n.of = r.of /\ n.viewing = r.viewing /\ n.send = <<>>
  BY DEF ClientRows
<1>4. n.pc = r.pc /\ n.event = r.event /\ n.todo = r.todo
  BY DEF ClientRows
<1> QED
  BY <1>2, <1>3, <1>4

\* Where a client looks, a step that leaves its pump alone does not change.
LEMMA LooksKept ==
  ASSUME \A d \in Clients : client[d].state \in {"open", "closed"} =>
           /\ client'[d].state \in {"open", "closed"} /\ client'[d].of = client[d].of
           /\ client'[d].viewing = client[d].viewing /\ client'[d].pc = client[d].pc
           /\ client'[d].event = client[d].event
  PROVE  \A q \in Pages, t \in Topics : Looks(q, t) => Looks(q, t)'
<1> SUFFICES ASSUME NEW d \in Clients, NEW t \in Topics, LooksAt(d, t)
             PROVE  LooksAt(d, t)' /\ client'[d].of = client[d].of
  BY DEF Looks
<1> QED
  BY DEF LooksAt

\* The socket of a page closes.
LEMMA CloseSocketKeeps ==
  ASSUME PresenceInv, NEW p \in Pages, CloseSocket(p)
  PROVE  PresenceInv'
<1>1. PresenceTyped /\ SocketsPaired /\ PumpsKnow /\ PagesFollowed
  BY DEF PresenceInv
<1> PICK s : s = page[p].socket
  OBVIOUS
<1>2. s \in Clients /\ client[s].of = p /\ client[s].state = "open" /\ s # NoClient
  BY <1>1, PageShape DEF CloseSocket, SocketsPaired
<1> PICK closed : closed = [client[s] EXCEPT !.state = "closed", !.send = <<>>]
  OBVIOUS
<1>3. client \in [Clients -> ClientRows] /\ client[s] \in ClientRows /\ page \in [Pages -> PageRows] /\ page[p] \in PageRows
  BY <1>1, <1>2 DEF PresenceTyped
<1>4. /\ closed \in ClientRows /\ closed.state = "closed" /\ closed.of = p /\ closed.viewing = client[s].viewing
      /\ closed.pc = client[s].pc /\ closed.event = client[s].event /\ closed.todo = client[s].todo
  <2>1. /\ closed \in ClientRows /\ closed.state = "closed" /\ closed.of = client[s].of /\ closed.viewing = client[s].viewing
        /\ closed.send = <<>> /\ closed.pc = client[s].pc /\ closed.event = client[s].event /\ closed.todo = client[s].todo
    BY <1>3, ClosedRow, Zenon
  <2> QED
    BY <1>2, <2>1
<1>5. client' = [client EXCEPT ![s] = closed]
  <2>1. client' = [client EXCEPT ![s].state = "closed", ![s].send = <<>>]
    BY DEF CloseSocket
  <2> QED
    BY <1>2, <1>3, <2>1
<1>6. client' \in [Clients -> ClientRows] /\ client'[s] = closed /\ \A d \in Clients : d # s => client'[d] = client[d]
  BY <1>1, <1>2, <1>4, <1>5, ClientUpdate
<1> PICK row : row = [topic |-> page[p].topic, socket |-> NoClient, viewers |-> page[p].viewers]
  OBVIOUS
<1>7. row \in PageRows /\ row.topic = page[p].topic /\ row.socket = NoClient /\ row.viewers = page[p].viewers
  BY <1>3 DEF PageRows
<1>8. page' = [page EXCEPT ![p] = row]
  <2>1. page[p] = [topic |-> page[p].topic, socket |-> page[p].socket, viewers |-> page[p].viewers]
    BY <1>3 DEF PageRows
  <2>2. [page[p] EXCEPT !.socket = NoClient] = row
    BY <2>1
  <2> QED
    BY <1>3, <2>2 DEF CloseSocket
<1>9. page' \in [Pages -> PageRows] /\ page'[p] = row /\ \A q \in Pages : q # p => page'[q] = page[q]
  BY <1>1, <1>7, <1>8, PageUpdate
<1>10. inbox' \in [Clients -> Seq(Messages)] /\ \A d \in Clients : d # s => inbox'[d] = inbox[d]
  <2>1. inbox \in [Clients -> Seq(Messages)] /\ inbox[s] \in Seq(Messages) /\ <<>> \in Seq(Messages)
    BY <1>1, <1>2 DEF PresenceTyped
  <2>2. PICK kept \in {<<>>, inbox[s]} : inbox' = [inbox EXCEPT ![s] = kept]
    BY DEF CloseSocket
  <2>3. kept \in Seq(Messages)
    BY <2>1
  <2> QED
    BY <2>1, <2>2, <2>3
<1>11. excused' = excused
  BY DEF CloseSocket
<1>12. PresenceTyped'
  BY <1>1, <1>6, <1>9, <1>10, <1>11 DEF PresenceTyped
<1>13. SocketsPaired'
  <2>1. ASSUME NEW c \in Clients, client'[c].state = "open"
        PROVE  page'[client'[c].of].socket = c
    <3>1. c # s /\ client'[c] = client[c] /\ client[c].of \in Pages
      BY <1>1, <1>4, <1>6, <2>1, ClientShape
    <3>2. page[client[c].of].socket = c
      BY <1>1, <2>1, <3>1 DEF SocketsPaired
    <3> QED
      BY <1>9, <3>1, <3>2
  <2>2. ASSUME NEW q \in Pages
        PROVE  /\ page'[q].socket # NoClient =>
                     client'[page'[q].socket].of = q /\ client'[page'[q].socket].state = "open"
               /\ page'[q].topic = NoTopic => page'[q].viewers = {}
    <3>1. page[q].socket \in Clients \cup {NoClient} /\ (page[q].topic = NoTopic => page[q].viewers = {})
      BY <1>1, PageShape DEF SocketsPaired
    <3>2. CASE q = p
      BY <1>7, <1>9, <3>1, <3>2
    <3>3. CASE q # p
      <4>1. page[q].socket # s
        BY <1>1, <1>2, <3>3 DEF SocketsPaired
      <4> QED
        BY <1>1, <1>6, <1>9, <3>1, <3>3, <4>1 DEF SocketsPaired
    <3> QED
      BY <3>2, <3>3
  <2> QED
    BY <2>1, <2>2 DEF SocketsPaired
<1>14. PumpsKnow'
  <2> SUFFICES ASSUME NEW c \in Clients
               PROVE  /\ client'[c].of = client[c].of /\ client'[c].viewing = client[c].viewing
                      /\ client'[c].pc = client[c].pc /\ client'[c].event = client[c].event /\ client'[c].todo = client[c].todo
                      /\ client'[c].state = client[c].state \/ client'[c].state = "closed"
    BY <1>1 DEF PumpsKnow
  <2>1. CASE c = s
    BY <1>2, <1>4, <1>6, <2>1
  <2>2. CASE c # s
    BY <1>6, <2>2
  <2> QED
    BY <2>1, <2>2
<1>15. PagesFollowed'
  <2> SUFFICES ASSUME NEW c \in Clients, client'[c].state = "open"
               PROVE  Heading(c)' = page'[client'[c].of].topic
    BY DEF PagesFollowed
  <2>1. c # s /\ client'[c] = client[c] /\ inbox'[c] = inbox[c] /\ client[c].of \in Pages
    BY <1>1, <1>4, <1>6, <1>10, ClientShape
  <2>2. page'[client[c].of].topic = page[client[c].of].topic
    BY <1>7, <1>9, <2>1
  <2> QED
    BY <1>1, <2>1, <2>2 DEF PagesFollowed, Heading
<1>16. \A q \in Pages, t \in Topics : Looks(q, t) => Looks(q, t)'
  <2>1. client'[s].state = "closed" /\ client'[s].of = client[s].of /\ client'[s].viewing = client[s].viewing
    BY <1>2, <1>4, <1>6
  <2>2. client'[s].pc = client[s].pc /\ client'[s].event = client[s].event
    BY <1>4, <1>6
  <2> QED
    BY <1>6, <2>1, <2>2, LooksKept
<1>17. \A c \in Clients : client'[c].state = "open" => SameShown(c) \/ NothingShown(c)
  <2> SUFFICES ASSUME NEW c \in Clients, client'[c].state = "open"
               PROVE  SameShown(c)
    OBVIOUS
  <2>1. c # s /\ client'[c] = client[c] /\ client[c].of \in Pages
    BY <1>1, <1>4, <1>6, ClientShape
  <2>2. page'[client[c].of].viewers = page[client[c].of].viewers /\ page'[client[c].of].topic = page[client[c].of].topic
    BY <1>7, <1>9, <2>1
  <2> QED
    BY <2>1, <2>2 DEF SameShown
<1>18. AllShownFairly'
  BY <1>11, <1>14, <1>16, <1>17, FairlyKept
<1> QED
  BY <1>12, <1>13, <1>14, <1>15, <1>18 DEF PresenceInv

LEMMA RacedRow ==
  ASSUME NEW r \in ClientRows, NEW b \in BOOLEAN, NEW n, n = [r EXCEPT !.raced = b]
  PROVE  /\ n \in ClientRows /\ n.state = r.state /\ n.of = r.of /\ n.viewing = r.viewing /\ n.send = r.send
         /\ n.pc = r.pc /\ n.event = r.event /\ n.todo = r.todo
  BY DEF ClientRows

\* A change of the map leaves the other clients as they are, but for a note that it happened.
LEMMA RacesFrame ==
  ASSUME PresenceTyped, NEW c \in Clients, NEW row \in ClientRows, Races(c, row)
  PROVE  /\ client' \in [Clients -> ClientRows] /\ client'[c] = row
         /\ \A d \in Clients : d # c =>
              /\ client'[d].state = client[d].state /\ client'[d].of = client[d].of
              /\ client'[d].viewing = client[d].viewing /\ client'[d].send = client[d].send
              /\ client'[d].pc = client[d].pc /\ client'[d].event = client[d].event
              /\ client'[d].todo = client[d].todo
<1>1. \A d \in Clients : d # c => \E b \in BOOLEAN : client'[d] = [client[d] EXCEPT !.raced = b]
  <2> SUFFICES ASSUME NEW d \in Clients, d # c
               PROVE  \E b \in BOOLEAN : client'[d] = [client[d] EXCEPT !.raced = b]
    OBVIOUS
  <2>1. client'[d] = [client[d] EXCEPT !.raced = client[d].raced \/ client[d].pc = "send"]
    BY DEF Races
  <2>2. (client[d].raced \/ client[d].pc = "send") \in BOOLEAN
    OBVIOUS
  <2> QED
    BY <2>1, <2>2, Zenon
<1>2. client'[c] = row /\ DOMAIN client' = Clients /\ client' = [d \in Clients |-> client'[d]]
  BY DEF Races
<1>3. ASSUME NEW d \in Clients, d # c
      PROVE  /\ client'[d] \in ClientRows
             /\ client'[d].state = client[d].state /\ client'[d].of = client[d].of
             /\ client'[d].viewing = client[d].viewing /\ client'[d].send = client[d].send
             /\ client'[d].pc = client[d].pc /\ client'[d].event = client[d].event
             /\ client'[d].todo = client[d].todo
  <2>1. client[d] \in ClientRows
    BY DEF PresenceTyped
  <2>2. PICK b \in BOOLEAN : client'[d] = [client[d] EXCEPT !.raced = b]
    BY <1>1, <1>3
  <2> PICK r \in ClientRows : r = client[d]
    BY <2>1
  <2> PICK n : n = [r EXCEPT !.raced = b]
    OBVIOUS
  <2>3. /\ n \in ClientRows /\ n.state = r.state /\ n.of = r.of /\ n.viewing = r.viewing /\ n.send = r.send
        /\ n.pc = r.pc /\ n.event = r.event /\ n.todo = r.todo
    BY RacedRow
  <2> QED
    BY <2>2, <2>3
<1>4. \A d \in Clients : client'[d] \in ClientRows
  BY <1>2, <1>3
<1> QED
  BY <1>2, <1>3, <1>4

\* The socket of a page opens: a client that was never used becomes its own.
LEMMA OpenSocketKeeps ==
  ASSUME PresenceInv, NEW p \in Pages, NEW s \in Clients, OpenSocket(p, s)
  PROVE  PresenceInv'
<1>1. PresenceTyped /\ SocketsPaired /\ PumpsKnow /\ PagesFollowed
  BY DEF PresenceInv
<1>2. page[p].socket = NoClient /\ client[s].state = "unused" /\ s # NoClient /\ excused' = excused
  BY PresenceAssumption DEF OpenSocket
<1>3. PICK opened \in ClientRows :
        /\ opened.state = "open" /\ opened.of = p /\ opened.viewing = NoTopic
        /\ opened.send = <<>> /\ opened.pc = "read" /\ opened.todo = NoTopic
        /\ Races(s, opened)
  <2> PICK opened : opened = [NewClient EXCEPT !.state = "open", !.of = p]
    OBVIOUS
  <2>1. opened \in ClientRows
    BY NewRow DEF ClientRows
  <2>2. /\ opened.state = "open" /\ opened.of = p /\ opened.viewing = NoTopic
        /\ opened.send = <<>> /\ opened.pc = "read" /\ opened.todo = NoTopic
    BY NewRow DEF ClientRows
  <2>3. Races(s, opened)
    BY DEF OpenSocket
  <2> QED
    BY <2>1, <2>2, <2>3, Zenon
<1>5. /\ client' \in [Clients -> ClientRows] /\ client'[s] = opened
      /\ \A d \in Clients : d # s =>
           /\ client'[d].state = client[d].state /\ client'[d].of = client[d].of
           /\ client'[d].viewing = client[d].viewing /\ client'[d].send = client[d].send
           /\ client'[d].pc = client[d].pc /\ client'[d].event = client[d].event
           /\ client'[d].todo = client[d].todo
  BY <1>1, <1>3, RacesFrame
<1>4. /\ client'[s].state = "open" /\ client'[s].of = p /\ client'[s].viewing = NoTopic
      /\ client'[s].send = <<>> /\ client'[s].pc = "read" /\ client'[s].todo = NoTopic
  BY <1>3, <1>5
<1>6. page \in [Pages -> PageRows] /\ page[p] \in PageRows /\ page[p].viewers \in SUBSET Pages /\ page[p].topic \in Topics \cup {NoTopic}
  BY <1>1, PageShape DEF PresenceTyped
<1>7. PICK row \in PageRows : row.topic = page[p].topic /\ row.socket = s /\ row.viewers = {} /\ page' = [page EXCEPT ![p] = row]
  <2> PICK row : row = [topic |-> page[p].topic, socket |-> s, viewers |-> {}]
    OBVIOUS
  <2>8. row \in PageRows /\ row.topic = page[p].topic /\ row.socket = s /\ row.viewers = {}
    BY <1>6 DEF PageRows
  <2> PICK half : half = [page[p] EXCEPT !.socket = s]
    OBVIOUS
  <2>1. page[p] = [topic |-> page[p].topic, socket |-> page[p].socket, viewers |-> page[p].viewers]
    BY <1>6 DEF PageRows
  <2>2. half = [topic |-> page[p].topic, socket |-> s, viewers |-> page[p].viewers]
    BY <2>1
  <2>3. half \in PageRows
    BY <1>6, <2>2 DEF PageRows
  <2>4. [half EXCEPT !.viewers = {}] = [topic |-> half.topic, socket |-> half.socket, viewers |-> {}]
    BY <2>3, ViewersOfRow
  <2>5. half.topic = page[p].topic /\ half.socket = s /\ half.viewers = page[p].viewers
    BY <2>2
  <2>6. page' = [page EXCEPT ![p].socket = s, ![p].viewers = {}]
    <3>1. page' = [page EXCEPT ![p].socket = s, ![p].viewers = IF page[p].topic = NoTopic THEN @ ELSE {}]
      BY DEF OpenSocket
    <3>2. page[p].topic = NoTopic => page[p].viewers = {}
      BY <1>1 DEF SocketsPaired
    <3>3. [page EXCEPT ![p].socket = s][p].viewers = page[p].viewers
      BY <1>6, <2>5
    <3> QED
      BY <3>1, <3>2, <3>3
  <2>7. page' = [page EXCEPT ![p] = [half EXCEPT !.viewers = {}]]
    BY <1>6, <2>6
  <2>9. page' = [page EXCEPT ![p] = row]
    BY <2>4, <2>5, <2>7
  <2> QED
    BY <2>8, <2>9
<1>8. page' \in [Pages -> PageRows] /\ page'[p] = row /\ \A q \in Pages : q # p => page'[q] = page[q]
  BY <1>1, <1>7, PageUpdate
<1>9. /\ page' \in [Pages -> PageRows] /\ \A q \in Pages : q # p => page'[q] = page[q]
      /\ page'[p].topic = page[p].topic /\ page'[p].socket = s /\ page'[p].viewers = {}
  BY <1>7, <1>8
<1>10. /\ inbox' \in [Clients -> Seq(Messages)] /\ \A d \in Clients : d # s => inbox'[d] = inbox[d]
       /\ inbox'[s] # <<>> => inbox'[s][Len(inbox'[s])].topic = page[p].topic
       /\ inbox'[s] = <<>> => page[p].topic = NoTopic
  <2>1. inbox \in [Clients -> Seq(Messages)] /\ <<>> \in Seq(Messages)
    BY <1>1 DEF PresenceTyped
  <2>2. CASE page[p].topic = NoTopic
    <3>1. inbox' = [inbox EXCEPT ![s] = <<>>]
      BY <2>2 DEF OpenSocket
    <3> QED
      BY <2>1, <2>2, <3>1
  <2>3. CASE page[p].topic # NoTopic
    <3> PICK m : m = [type |-> "join", topic |-> page[p].topic]
      OBVIOUS
    <3>1. m \in Messages /\ m.topic = page[p].topic
      BY <1>6, <2>3 DEF Messages
    <3>2. inbox' = [inbox EXCEPT ![s] = <<m>>]
      BY <2>3 DEF OpenSocket
    <3>3. <<m>> \in Seq(Messages) /\ <<m>> # <<>> /\ <<m>>[Len(<<m>>)] = m
      BY <3>1
    <3> QED
      BY <2>1, <3>1, <3>2, <3>3
  <2> QED
    BY <2>2, <2>3
<1>11. PresenceTyped'
  BY <1>1, <1>2, <1>5, <1>9, <1>10 DEF PresenceTyped
<1>12. SocketsPaired'
  <2>1. ASSUME NEW c \in Clients, client'[c].state = "open"
        PROVE  page'[client'[c].of].socket = c
    <3>1. CASE c = s
      BY <1>4, <1>5, <1>9, <3>1
    <3>2. CASE c # s
      <4>1. client[c].state = "open" /\ client'[c].of = client[c].of /\ client[c].of \in Pages
        BY <1>1, <1>5, <2>1, <3>2, ClientShape
      <4>2. page[client[c].of].socket = c /\ c # NoClient
        BY <1>1, <4>1, PresenceAssumption DEF SocketsPaired
      <4> QED
        BY <1>2, <1>9, <4>1, <4>2
    <3> QED
      BY <3>1, <3>2
  <2>2. ASSUME NEW q \in Pages
        PROVE  /\ page'[q].socket # NoClient =>
                     client'[page'[q].socket].of = q /\ client'[page'[q].socket].state = "open"
               /\ page'[q].topic = NoTopic => page'[q].viewers = {}
    <3>1. page[q].socket \in Clients \cup {NoClient} /\ (page[q].topic = NoTopic => page[q].viewers = {})
      BY <1>1, PageShape DEF SocketsPaired
    <3>2. CASE q = p
      BY <1>4, <1>5, <1>9, <3>1, <3>2
    <3>3. CASE q # p
      <4>1. page[q].socket # s
        BY <1>1, <1>2, <3>3 DEF SocketsPaired
      <4> QED
        BY <1>1, <1>5, <1>9, <3>1, <3>3, <4>1 DEF SocketsPaired
    <3> QED
      BY <3>2, <3>3
  <2> QED
    BY <2>1, <2>2 DEF SocketsPaired
<1>13. PumpsKnow'
  BY <1>1, <1>4, <1>5 DEF PumpsKnow
<1>14. PagesFollowed'
  <2> SUFFICES ASSUME NEW c \in Clients, client'[c].state = "open"
               PROVE  Heading(c)' = page'[client'[c].of].topic
    BY DEF PagesFollowed
  <2>1. CASE c = s
    BY <1>4, <1>5, <1>9, <1>10, <2>1 DEF Heading
  <2>2. CASE c # s
    <3>1. client[c].state = "open" /\ client'[c].of = client[c].of /\ client[c].of \in Pages
      BY <1>1, <1>5, <2>2, ClientShape
    <3>2. page'[client[c].of].topic = page[client[c].of].topic
      BY <1>9, <3>1
    <3> QED
      BY <1>1, <1>5, <1>10, <2>2, <3>1, <3>2 DEF PagesFollowed, Heading
  <2> QED
    BY <2>1, <2>2
<1>15. \A q \in Pages, t \in Topics : Looks(q, t) => Looks(q, t)'
  <2>1. \A d \in Clients : client[d].state \in {"open", "closed"} => d # s
    BY <1>2
  <2> QED
    BY <1>5, <2>1, LooksKept
<1>16. \A c \in Clients : client'[c].state = "open" => SameShown(c) \/ NothingShown(c)
  <2> SUFFICES ASSUME NEW c \in Clients, client'[c].state = "open"
               PROVE  SameShown(c) \/ NothingShown(c)
    OBVIOUS
  <2>1. CASE c = s
    BY <1>4, <1>5, <1>9, <2>1 DEF NothingShown
  <2>2. CASE c # s
    <3>1. client[c].state = "open" /\ client[c].of \in Pages /\ page[client[c].of].socket = c /\ c # NoClient
      BY <1>1, <1>5, <2>2, ClientShape, PresenceAssumption DEF SocketsPaired
    <3>2. page'[client[c].of] = page[client[c].of]
      BY <1>2, <1>9, <3>1
    <3> QED
      BY <1>5, <2>2, <3>1, <3>2 DEF SameShown
  <2> QED
    BY <2>1, <2>2
<1>17. AllShownFairly'
  BY <1>2, <1>13, <1>15, <1>16, FairlyKept
<1> QED
  BY <1>11, <1>12, <1>13, <1>14, <1>17 DEF PresenceInv

-----------------------------------------------------------------------------
(* The read pump *)

\* The read pump has found something to broadcast.
LEMMA SendsFrame ==
  ASSUME PresenceTyped, NEW c \in Clients, NEW type \in {"join", "leave"}, NEW topic \in Topics,
         NEW viewing \in Topics \cup {NoTopic}, NEW todo \in Topics \cup {NoTopic},
         Sends(c, type, topic, viewing, todo)
  PROVE  /\ client' \in [Clients -> ClientRows] /\ \A d \in Clients : d # c => client'[d] = client[d]
         /\ client'[c].state = client[c].state /\ client'[c].of = client[c].of /\ client'[c].send = client[c].send
         /\ client'[c].pc = "send" /\ client'[c].viewing = viewing /\ client'[c].todo = todo
         /\ client'[c].event \in HubEvents /\ client'[c].event.type = type /\ client'[c].event.topic = topic
         /\ client'[c].event.users = {client[c].of}
<1>1. client \in [Clients -> ClientRows] /\ client[c] \in ClientRows /\ client[c].of \in Pages
  BY ClientShape DEF PresenceTyped
<1>2. PICK e \in HubEvents : e.type = type /\ e.topic = topic /\ e.users = {client[c].of} /\ EventOf(c, type, topic) = e
  <2>1. EventOf(c, type, topic) \in HubEvents
    BY <1>1 DEF EventOf, HubEvents
  <2>2. EventOf(c, type, topic).type = type /\ EventOf(c, type, topic).topic = topic
        /\ EventOf(c, type, topic).users = {client[c].of}
    BY DEF EventOf
  <2> QED
    BY <2>1, <2>2
<1>3. PICK row \in ClientRows :
        /\ row.state = client[c].state /\ row.of = client[c].of /\ row.send = client[c].send
        /\ row.pc = "send" /\ row.viewing = viewing /\ row.todo = todo /\ row.event = e
        /\ client' = [client EXCEPT ![c] = row]
  <2> PICK old \in ClientRows : old = client[c]
    BY <1>1
  <2> PICK row : row = [old EXCEPT !.pc = "send", !.event = e, !.raced = FALSE, !.viewing = viewing, !.todo = todo]
    OBVIOUS
  <2>1. row \in ClientRows
    BY DEF ClientRows
  <2>2. /\ row.state = old.state /\ row.of = old.of /\ row.send = old.send
        /\ row.pc = "send" /\ row.viewing = viewing /\ row.todo = todo /\ row.event = e
    BY DEF ClientRows
  <2>3. client' = [client EXCEPT ![c] = row]
    <3>1. client' = [client EXCEPT ![c].pc = "send", ![c].event = e, ![c].raced = FALSE, ![c].viewing = viewing, ![c].todo = todo]
      BY <1>2 DEF Sends
    <3> QED
      BY <1>1, <3>1
  <2> QED
    BY <2>1, <2>2, <2>3
<1>4. client' \in [Clients -> ClientRows] /\ client'[c] = row /\ \A d \in Clients : d # c => client'[d] = client[d]
  BY <1>3, ClientUpdate
<1> QED
  BY <1>2, <1>3, <1>4

\* It joins, or it leaves the issue where it was; whoever it was shown as, it
\* still is until everybody has been told.
LEMMA SendsKeeps ==
  ASSUME PresenceInv, NEW c \in Clients, client[c].state \in {"open", "closed"}, client[c].pc = "read",
         NEW type \in {"join", "leave"}, NEW topic \in Topics, NEW todo \in Topics \cup {NoTopic},
         IF type = "join" THEN client[c].viewing \in {NoTopic, topic} /\ todo = NoTopic ELSE client[c].viewing = topic,
         Sends(c, type, topic, IF type = "join" THEN topic ELSE NoTopic, todo),
         page' = page, excused' = excused
  PROVE  PumpsKnow' /\ SocketsPaired' /\ AllShownFairly'
<1>1. PresenceTyped /\ SocketsPaired /\ PumpsKnow
  BY DEF PresenceInv
<1>2. PICK viewing \in Topics \cup {NoTopic} : viewing = IF type = "join" THEN topic ELSE NoTopic
  OBVIOUS
<1>3. /\ client' \in [Clients -> ClientRows] /\ \A d \in Clients : d # c => client'[d] = client[d]
      /\ client'[c].state = client[c].state /\ client'[c].of = client[c].of /\ client'[c].send = client[c].send
      /\ client'[c].pc = "send" /\ client'[c].viewing = viewing /\ client'[c].todo = todo
      /\ client'[c].event \in HubEvents /\ client'[c].event.type = type /\ client'[c].event.topic = topic
      /\ client'[c].event.users = {client[c].of}
  BY <1>1, <1>2, SendsFrame
<1>4. PumpsKnow'
  <2> SUFFICES ASSUME NEW d \in Clients
               PROVE  /\ client'[d].pc # "read" => client'[d].state \in {"open", "closed"}
                      /\ client'[d].pc # "send" => client'[d].todo = NoTopic
                      /\ client'[d].pc \in {"list", "sync"} => client'[d].viewing \in Topics
                      /\ client'[d].pc = "sync" =>
                           /\ client'[d].event \in HubEvents /\ client'[d].event.type = "sync"
                           /\ client'[d].event.topic = client'[d].viewing
                      /\ client'[d].pc = "send" =>
                           /\ client'[d].event \in HubEvents /\ client'[d].event.type \in {"join", "leave"}
                           /\ client'[d].event.users = {client'[d].of}
                           /\ client'[d].viewing = IF client'[d].event.type = "join" THEN client'[d].event.topic ELSE NoTopic
                           /\ client'[d].event.type = "join" => client'[d].todo = NoTopic
    BY DEF PumpsKnow
  <2>1. CASE d = c
    BY <1>2, <1>3, <2>1
  <2>2. CASE d # c
    BY <1>1, <1>3, <2>2 DEF PumpsKnow
  <2> QED
    BY <2>1, <2>2
<1>5. SocketsPaired'
  BY <1>1, <1>3, PageShape DEF SocketsPaired
<1>6. \A q \in Pages, t \in Topics : Looks(q, t) => Looks(q, t)'
  <2> SUFFICES ASSUME NEW d \in Clients, NEW t \in Topics, LooksAt(d, t)
               PROVE  LooksAt(d, t)' /\ client'[d].of = client[d].of
    BY DEF Looks
  <2>1. CASE d = c
    <3>1. client[c].viewing = t /\ t # NoTopic
      BY <2>1, PresenceAssumption DEF LooksAt
    <3>2. CASE type = "join"
      BY <1>2, <1>3, <2>1, <3>1, <3>2 DEF LooksAt
    <3>3. CASE type = "leave"
      BY <1>3, <2>1, <3>1, <3>3 DEF LooksAt
    <3> QED
      BY <3>2, <3>3
  <2>2. CASE d # c
    BY <1>3, <2>2 DEF LooksAt
  <2> QED
    BY <2>1, <2>2
<1>7. \A d \in Clients : client'[d].state = "open" => SameShown(d) \/ NothingShown(d)
  BY <1>3 DEF SameShown
<1>8. AllShownFairly'
  BY <1>4, <1>6, <1>7, FairlyKept
<1> QED
  BY <1>4, <1>5, <1>8

\* The messages of the other clients wait.
LEMMA OthersWait ==
  ASSUME PresenceInv, NEW c \in Clients, page' = page,
         \A d \in Clients : d # c => client'[d] = client[d] /\ inbox'[d] = inbox[d],
         client'[c].state = client[c].state, client'[c].of = client[c].of,
         client[c].state = "open" => Heading(c)' = Heading(c)
  PROVE  PagesFollowed'
<1> SUFFICES ASSUME NEW d \in Clients, client'[d].state = "open"
             PROVE  Heading(d)' = page[client'[d].of].topic
  BY DEF PagesFollowed
<1>1. CASE d = c
  BY <1>1 DEF PresenceInv, PagesFollowed
<1>2. CASE d # c
  BY <1>2 DEF PresenceInv, PagesFollowed, Heading
<1> QED
  BY <1>1, <1>2

LEMMA ReadPumpKeeps ==
  ASSUME PresenceInv, NEW c \in Clients, ReadPump(c)
  PROVE  PresenceInv'
<1>1. PresenceTyped /\ SocketsPaired /\ PumpsKnow /\ PagesFollowed /\ AllShownFairly
  BY DEF PresenceInv
<1>2. /\ client[c].pc = "read" /\ client[c].state \in {"open", "closed"} /\ inbox[c] # <<>>
      /\ inbox' = [inbox EXCEPT ![c] = Tail(inbox[c])] /\ page' = page /\ excused' = excused
  BY DEF ReadPump
<1>3. inbox \in [Clients -> Seq(Messages)] /\ inbox[c] \in Seq(Messages) /\ client[c].viewing \in Topics \cup {NoTopic}
  BY <1>1, ClientShape DEF PresenceTyped
<1> PICK m \in Messages : m = Head(inbox[c])
  BY <1>2, <1>3, AfterTheFirst
<1>4. /\ inbox' \in [Clients -> Seq(Messages)] /\ inbox'[c] = Tail(inbox[c])
      /\ \A d \in Clients : d # c => inbox'[d] = inbox[d]
  <2>1. Tail(inbox[c]) \in Seq(Messages)
    BY <1>2, <1>3, AfterTheFirst
  <2> QED
    BY <1>2, <1>3, <2>1
\* What is last stays last, or the message in hand was the last.
<1>5. /\ Heading(c) = inbox[c][Len(inbox[c])].topic
      /\ inbox'[c] # <<>> => Heading(c)' = Heading(c)
      /\ inbox'[c] = <<>> => Heading(c) = m.topic
  <2>1. Heading(c) = inbox[c][Len(inbox[c])].topic
    BY <1>2 DEF Heading
  <2>2. /\ m = inbox[c][1] /\ Len(inbox[c]) \in Nat \ {0} /\ Len(inbox'[c]) = Len(inbox[c]) - 1
        /\ \A k \in 1 .. Len(inbox[c]) - 1 : inbox'[c][k] = inbox[c][k + 1]
        /\ inbox'[c] = <<>> <=> Len(inbox[c]) = 1
    BY <1>2, <1>3, <1>4, AfterTheFirst
  <2>3. ASSUME inbox'[c] # <<>>
        PROVE  Heading(c)' = Heading(c)
    <3>1. Len(inbox[c]) - 1 \in 1 .. Len(inbox[c]) - 1
      BY <2>2, <2>3
    <3>2. inbox'[c][Len(inbox'[c])] = inbox[c][Len(inbox[c])]
      BY <2>2, <3>1
    <3> QED
      BY <2>1, <2>3, <3>2 DEF Heading
  <2>4. inbox'[c] = <<>> => Heading(c) = m.topic
    BY <2>1, <2>2
  <2> QED
    BY <2>1, <2>3, <2>4
<1>6. (m.type = "join" /\ m.topic \in Topics) \/ (m.type = "leave" /\ m.topic = NoTopic)
  BY MessageShape
<1>7. /\ inbox'[c] = <<>> /\ client'[c].todo # NoTopic => Heading(c)' = client'[c].todo
      /\ inbox'[c] = <<>> /\ client'[c].todo = NoTopic => Heading(c)' = client'[c].viewing
  BY DEF Heading
<1>8. CASE m.type = "join" /\ LeavesFirst(c, m.topic)
  <2>1. Sends(c, "leave", client[c].viewing, NoTopic, m.topic) /\ client[c].viewing \in Topics
    BY <1>3, <1>8 DEF ReadPump, LeavesFirst
  <2>2. PumpsKnow' /\ SocketsPaired' /\ AllShownFairly'
    BY <1>2, <1>6, <1>8, <2>1, SendsKeeps
  <2>3. /\ client' \in [Clients -> ClientRows] /\ \A d \in Clients : d # c => client'[d] = client[d]
        /\ client'[c].state = client[c].state /\ client'[c].of = client[c].of /\ client'[c].todo = m.topic
    BY <1>1, <1>6, <1>8, <2>1, SendsFrame
  <2>4. Heading(c)' = Heading(c)
    BY <1>5, <1>6, <1>7, <1>8, <2>3, PresenceAssumption
  <2>5. PagesFollowed'
    BY <1>2, <1>4, <2>3, <2>4, OthersWait
  <2> QED
    BY <1>1, <1>2, <1>4, <2>2, <2>3, <2>5 DEF PresenceInv, PresenceTyped
<1>9. CASE m.type = "join" /\ ~LeavesFirst(c, m.topic)
  <2>1. Sends(c, "join", m.topic, m.topic, NoTopic) /\ client[c].viewing \in {NoTopic, m.topic}
    BY <1>9 DEF ReadPump, LeavesFirst
  <2>2. PumpsKnow' /\ SocketsPaired' /\ AllShownFairly'
    BY <1>2, <1>6, <1>9, <2>1, SendsKeeps
  <2>3. /\ client' \in [Clients -> ClientRows] /\ \A d \in Clients : d # c => client'[d] = client[d]
        /\ client'[c].state = client[c].state /\ client'[c].of = client[c].of
        /\ client'[c].todo = NoTopic /\ client'[c].viewing = m.topic
    BY <1>1, <1>6, <1>9, <2>1, SendsFrame
  <2>4. Heading(c)' = Heading(c)
    BY <1>5, <1>7, <2>3
  <2>5. PagesFollowed'
    BY <1>2, <1>4, <2>3, <2>4, OthersWait
  <2> QED
    BY <1>1, <1>2, <1>4, <2>2, <2>3, <2>5 DEF PresenceInv, PresenceTyped
<1>10. CASE m.type # "join" /\ client[c].viewing # NoTopic
  <2>1. Sends(c, "leave", client[c].viewing, NoTopic, NoTopic) /\ client[c].viewing \in Topics
    BY <1>3, <1>10 DEF ReadPump
  <2>2. PumpsKnow' /\ SocketsPaired' /\ AllShownFairly'
    BY <1>2, <2>1, SendsKeeps
  <2>3. /\ client' \in [Clients -> ClientRows] /\ \A d \in Clients : d # c => client'[d] = client[d]
        /\ client'[c].state = client[c].state /\ client'[c].of = client[c].of
        /\ client'[c].todo = NoTopic /\ client'[c].viewing = NoTopic
    <3> PICK t \in Topics, none \in Topics \cup {NoTopic} : t = client[c].viewing /\ none = NoTopic
      BY <2>1
    <3>1. Sends(c, "leave", t, none, none)
      BY <2>1
    <3> QED
      BY <1>1, <3>1, SendsFrame
  <2>4. Heading(c)' = Heading(c)
    BY <1>5, <1>6, <1>7, <1>10, <2>3
  <2>5. PagesFollowed'
    BY <1>2, <1>4, <2>3, <2>4, OthersWait
  <2> QED
    BY <1>1, <1>2, <1>4, <2>2, <2>3, <2>5 DEF PresenceInv, PresenceTyped
<1>11. CASE m.type # "join" /\ client[c].viewing = NoTopic
  <2>1. client' = client
    BY <1>11 DEF ReadPump
  <2>2. PresenceTyped' /\ PumpsKnow' /\ SocketsPaired'
    BY <1>1, <1>2, <1>4, <2>1 DEF PresenceTyped, PumpsKnow, SocketsPaired
  <2>3. client[c].todo = NoTopic
    BY <1>1, <1>2 DEF PumpsKnow
  <2>4. Heading(c)' = Heading(c)
    BY <1>5, <1>6, <1>7, <1>11, <2>1, <2>3
  <2>5. PagesFollowed'
    BY <1>2, <1>4, <2>1, <2>4, OthersWait
  <2>6. \A d \in Clients : client'[d].state = "open" => SameShown(d) \/ NothingShown(d)
    BY <1>2, <2>1 DEF SameShown
  <2>7. AllShownFairly'
    BY <1>2, <2>1, <2>2, <2>6, SameLooks, FairlyKept
  <2> QED
    BY <2>2, <2>5, <2>7 DEF PresenceInv
<1> QED
  BY <1>8, <1>9, <1>10, <1>11

LEMMA GoneRow ==
  ASSUME NEW n, n = [NewClient EXCEPT !.state = "gone"]
  PROVE  n \in ClientRows /\ n.state = "gone" /\ n.pc = "read" /\ n.todo = NoTopic /\ n.viewing = NoTopic
<1>1. n \in ClientRows
  BY NewRow DEF ClientRows
<1> QED
  BY <1>1, NewRow DEF ClientRows

\* The page has gone; its client leaves, and is taken off the map once it has left.
LEMMA PumpEndsKeeps ==
  ASSUME PresenceInv, NEW c \in Clients, PumpEnds(c)
  PROVE  PresenceInv'
<1>1. PresenceTyped /\ SocketsPaired /\ PumpsKnow /\ PagesFollowed /\ AllShownFairly
  BY DEF PresenceInv
<1>2. /\ client[c].pc = "read" /\ client[c].state = "closed" /\ inbox[c] = <<>>
      /\ page' = page /\ inbox' = inbox /\ excused' = excused
  BY DEF PumpEnds
<1>3. client[c].viewing \in Topics \cup {NoTopic}
  BY <1>1, ClientShape
<1>4. CASE client[c].viewing # NoTopic
  <2> PICK t \in Topics, none \in Topics \cup {NoTopic} : t = client[c].viewing /\ none = NoTopic
    BY <1>3, <1>4
  <2>1. Sends(c, "leave", t, none, none)
    BY <1>4 DEF PumpEnds
  <2>2. PumpsKnow' /\ SocketsPaired' /\ AllShownFairly'
    BY <1>2, <2>1, SendsKeeps
  <2>3. /\ client' \in [Clients -> ClientRows] /\ \A d \in Clients : d # c => client'[d] = client[d]
        /\ client'[c].state = client[c].state /\ client'[c].of = client[c].of
    BY <1>1, <2>1, SendsFrame
  <2>4. PagesFollowed'
    BY <1>2, <2>3, OthersWait
  <2> QED
    BY <1>1, <1>2, <2>2, <2>3, <2>4 DEF PresenceInv, PresenceTyped
<1>5. CASE client[c].viewing = NoTopic
  <2>1. PICK gone \in ClientRows :
          /\ gone.state = "gone" /\ gone.pc = "read" /\ gone.todo = NoTopic /\ gone.viewing = NoTopic
          /\ Races(c, gone)
    <3> PICK gone : gone = [NewClient EXCEPT !.state = "gone"]
      OBVIOUS
    <3>1. Races(c, gone)
      BY <1>5 DEF PumpEnds
    <3> QED
      BY <3>1, GoneRow
  <2>2. /\ client' \in [Clients -> ClientRows] /\ client'[c] = gone
        /\ \A d \in Clients : d # c =>
             /\ client'[d].state = client[d].state /\ client'[d].of = client[d].of
             /\ client'[d].viewing = client[d].viewing /\ client'[d].send = client[d].send
             /\ client'[d].pc = client[d].pc /\ client'[d].event = client[d].event
             /\ client'[d].todo = client[d].todo
    BY <1>1, <2>1, RacesFrame
  <2>3. client'[c].state = "gone" /\ client'[c].pc = "read" /\ client'[c].todo = NoTopic
    BY <2>1, <2>2
  <2>4. PresenceTyped'
    BY <1>1, <1>2, <2>2 DEF PresenceTyped
  <2>5. PumpsKnow'
    BY <1>1, <2>2, <2>3 DEF PumpsKnow
  <2>6. SocketsPaired'
    <3>1. \A p \in Pages : page[p].socket # c
      BY <1>1, <1>2, PresenceAssumption DEF SocketsPaired
    <3> QED
      BY <1>1, <1>2, <2>2, <2>3, <3>1, PageShape DEF SocketsPaired
  <2>7. PagesFollowed'
    BY <1>1, <1>2, <2>2, <2>3 DEF PagesFollowed, Heading
  <2>8. \A q \in Pages, t \in Topics : Looks(q, t) => Looks(q, t)'
    <3> SUFFICES ASSUME NEW d \in Clients, NEW t \in Topics, LooksAt(d, t)
                 PROVE  LooksAt(d, t)' /\ client'[d].of = client[d].of
      BY DEF Looks
    <3>1. d # c
      BY <1>2, <1>5, PresenceAssumption DEF LooksAt
    <3> QED
      BY <2>2, <3>1 DEF LooksAt
  <2>9. \A d \in Clients : client'[d].state = "open" => SameShown(d) \/ NothingShown(d)
    BY <1>2, <2>2, <2>3 DEF SameShown
  <2>10. AllShownFairly'
    BY <1>2, <2>5, <2>8, <2>9, FairlyKept
  <2> QED
    BY <2>4, <2>5, <2>6, <2>7, <2>10 DEF PresenceInv
<1> QED
  BY <1>4, <1>5

\* The hub dies with all its clients.
LEMMA HubDiesKeeps ==
  ASSUME PresenceInv, HubDies
  PROVE  PresenceInv'
<1>1. PresenceTyped /\ SocketsPaired /\ PumpsKnow
  BY DEF PresenceInv
<1>2. /\ client' = [c \in Clients |-> IF client[c].state = "unused" THEN client[c] ELSE [NewClient EXCEPT !.state = "gone"]]
      /\ inbox' = [c \in Clients |-> <<>>] /\ excused' = excused
      /\ page' = [p \in Pages |-> [page[p] EXCEPT !.socket = NoClient]]
  BY DEF HubDies
<1>3. ASSUME NEW c \in Clients
      PROVE  client'[c] \in ClientRows /\ client'[c].state \in {"unused", "gone"} /\ client'[c].pc = "read" /\ client'[c].todo = NoTopic
  <2>1. CASE client[c].state = "unused"
    BY <1>1, <1>2, <2>1 DEF PumpsKnow, PresenceTyped
  <2>2. CASE client[c].state # "unused"
    <3>1. client'[c] = [NewClient EXCEPT !.state = "gone"]
      BY <1>2, <2>2
    <3> QED
      BY <3>1, GoneRow
  <2> QED
    BY <2>1, <2>2
<1>4. ASSUME NEW p \in Pages
      PROVE  /\ page'[p] \in PageRows /\ page'[p].socket = NoClient /\ page'[p].topic = page[p].topic
             /\ page'[p].viewers = page[p].viewers
  <2>1. page[p] \in PageRows /\ page'[p] = [page[p] EXCEPT !.socket = NoClient]
    BY <1>1, <1>2 DEF PresenceTyped
  <2> QED
    BY <2>1 DEF PageRows
<1>5. client' \in [Clients -> ClientRows] /\ page' \in [Pages -> PageRows] /\ inbox' \in [Clients -> Seq(Messages)]
  <2>1. <<>> \in Seq(Messages)
    OBVIOUS
  <2>2. client' = [c \in Clients |-> client'[c]] /\ page' = [p \in Pages |-> page'[p]]
    BY <1>2
  <2> QED
    BY <1>2, <1>3, <1>4, <2>1, <2>2
<1>6. PresenceTyped'
  BY <1>1, <1>2, <1>5 DEF PresenceTyped
<1>7. PumpsKnow' /\ PagesFollowed' /\ AllShownFairly'
  BY <1>3 DEF PumpsKnow, PagesFollowed, AllShownFairly
<1>8. SocketsPaired'
  BY <1>1, <1>3, <1>4 DEF SocketsPaired
<1> QED
  BY <1>6, <1>7, <1>8 DEF PresenceInv

\* The list of viewers names those who look at the issue.
LEMMA GetIssueViewersKeeps ==
  ASSUME PresenceInv, NEW c \in Clients, GetIssueViewers(c)
  PROVE  PresenceInv'
<1>1. PresenceTyped /\ SocketsPaired /\ PumpsKnow /\ PagesFollowed
  BY DEF PresenceInv
<1>2. client[c].pc = "list" /\ page' = page /\ inbox' = inbox /\ excused' = excused
  BY DEF GetIssueViewers
<1>3. client[c].viewing \in Topics /\ client[c].todo = NoTopic /\ client[c].state \in {"open", "closed"} /\ client[c] \in ClientRows
  BY <1>1, <1>2 DEF PumpsKnow, PresenceTyped
<1>4. PICK users \in SUBSET Pages :
        /\ users = {client[d].of : d \in {d \in Registered \ {c} : client[d].viewing = client[c].viewing}}
        /\ \A q \in users : Looks(q, client[c].viewing)
  <2> PICK users : users = {client[d].of : d \in {d \in Registered \ {c} : client[d].viewing = client[c].viewing}}
    OBVIOUS
  <2>1. ASSUME NEW q \in users
        PROVE  q \in Pages /\ Looks(q, client[c].viewing)
    <3> PICK d \in Registered : q = client[d].of /\ client[d].viewing = client[c].viewing
      OBVIOUS
    <3>1. d \in Clients /\ client[d].state \in {"open", "closed"}
      BY DEF Registered
    <3>2. client[d].of \in Pages
      BY <1>1, <3>1, ClientShape
    <3> QED
      BY <3>1, <3>2 DEF Looks, LooksAt
  <2> QED
    BY <2>1
<1>5. PICK e \in HubEvents :
        e.type = "sync" /\ e.topic = client[c].viewing /\ e.users = users
        /\ client' = [client EXCEPT ![c].pc = "sync", ![c].event = e]
  <2> PICK e : e = [type |-> "sync", topic |-> client[c].viewing, users |-> users]
    OBVIOUS
  <2>1. e \in HubEvents
    BY <1>3 DEF HubEvents
  <2>2. client' = [client EXCEPT ![c].pc = "sync", ![c].event = e]
    BY <1>4 DEF GetIssueViewers
  <2> QED
    BY <2>1, <2>2
<1>6. PICK row \in ClientRows :
        /\ row.state = client[c].state /\ row.of = client[c].of /\ row.send = client[c].send
        /\ row.pc = "sync" /\ row.viewing = client[c].viewing /\ row.todo = client[c].todo /\ row.event = e
        /\ client' = [client EXCEPT ![c] = row]
  <2> PICK old \in ClientRows : old = client[c]
    BY <1>3
  <2> PICK row : row = [old EXCEPT !.pc = "sync", !.event = e]
    OBVIOUS
  <2>1. row \in ClientRows
    BY DEF ClientRows
  <2>2. /\ row.state = old.state /\ row.of = old.of /\ row.send = old.send
        /\ row.pc = "sync" /\ row.viewing = old.viewing /\ row.todo = old.todo /\ row.event = e
    BY DEF ClientRows
  <2>3. client' = [client EXCEPT ![c] = row]
    <3>1. client \in [Clients -> ClientRows]
      BY <1>1 DEF PresenceTyped
    <3> QED
      BY <1>5, <3>1
  <2> QED
    BY <2>1, <2>2, <2>3
<1>7. client' \in [Clients -> ClientRows] /\ client'[c] = row /\ \A d \in Clients : d # c => client'[d] = client[d]
  BY <1>1, <1>6, ClientUpdate
<1>8. /\ client'[c].state = client[c].state /\ client'[c].of = client[c].of /\ client'[c].send = client[c].send
      /\ client'[c].pc = "sync" /\ client'[c].viewing = client[c].viewing /\ client'[c].todo = NoTopic
      /\ client'[c].event = e
  BY <1>3, <1>6, <1>7
<1>9. PresenceTyped'
  BY <1>1, <1>2, <1>7 DEF PresenceTyped
<1>10. PumpsKnow'
  <2> SUFFICES ASSUME NEW d \in Clients
               PROVE  /\ client'[d].pc # "read" => client'[d].state \in {"open", "closed"}
                      /\ client'[d].pc # "send" => client'[d].todo = NoTopic
                      /\ client'[d].pc \in {"list", "sync"} => client'[d].viewing \in Topics
                      /\ client'[d].pc = "sync" =>
                           /\ client'[d].event \in HubEvents /\ client'[d].event.type = "sync"
                           /\ client'[d].event.topic = client'[d].viewing
                      /\ client'[d].pc = "send" =>
                           /\ client'[d].event \in HubEvents /\ client'[d].event.type \in {"join", "leave"}
                           /\ client'[d].event.users = {client'[d].of}
                           /\ client'[d].viewing = IF client'[d].event.type = "join" THEN client'[d].event.topic ELSE NoTopic
                           /\ client'[d].event.type = "join" => client'[d].todo = NoTopic
    BY DEF PumpsKnow
  <2>1. CASE d = c
    BY <1>3, <1>5, <1>8, <2>1
  <2>2. CASE d # c
    BY <1>1, <1>7, <2>2 DEF PumpsKnow
  <2> QED
    BY <2>1, <2>2
<1>11. SocketsPaired'
  BY <1>1, <1>2, <1>7, <1>8, PageShape DEF SocketsPaired
<1>12. PagesFollowed'
  <2>1. Heading(c)' = Heading(c)
    BY <1>2, <1>3, <1>8 DEF Heading
  <2> QED
    BY <1>2, <1>7, <1>8, <2>1, OthersWait
<1>13. \A q \in Pages, t \in Topics : Looks(q, t) => Looks(q, t)'
  <2> SUFFICES ASSUME NEW d \in Clients, NEW t \in Topics, LooksAt(d, t)
               PROVE  LooksAt(d, t)' /\ client'[d].of = client[d].of
    BY DEF Looks
  <2>1. CASE d = c
    BY <1>2, <1>8, <2>1 DEF LooksAt
  <2>2. CASE d # c
    BY <1>7, <2>2 DEF LooksAt
  <2> QED
    BY <2>1, <2>2
<1>14. \A d \in Clients : client'[d].state = "open" => SameShown(d) \/ NothingShown(d)
  <2> SUFFICES ASSUME NEW d \in Clients, client'[d].state = "open"
               PROVE  SameShown(d)
    OBVIOUS
  <2>1. CASE d = c
    <3>1. \A q \in e.users, t \in Topics : t = e.topic => Looks(q, t)'
      BY <1>4, <1>5, <1>13
    <3> QED
      BY <1>2, <1>8, <2>1, <3>1 DEF SameShown
  <2>2. CASE d # c
    BY <1>2, <1>7, <2>2 DEF SameShown
  <2> QED
    BY <2>1, <2>2
<1>15. AllShownFairly'
  BY <1>2, <1>10, <1>13, <1>14, FairlyKept
<1> QED
  BY <1>9, <1>10, <1>11, <1>12, <1>15 DEF PresenceInv

LEMMA SentRow ==
  ASSUME NEW r \in ClientRows, NEW s \in Seq(HubEvents)
  PROVE  \E n \in ClientRows : /\ n.state = r.state /\ n.of = r.of /\ n.viewing = r.viewing /\ n.send = s
                              /\ n.pc = r.pc /\ n.event = r.event /\ n.todo = r.todo /\ n = [r EXCEPT !.send = s]
<1> PICK n : n = [r EXCEPT !.send = s]
  OBVIOUS
<1>1. n \in ClientRows
  BY DEF ClientRows
<1>2. /\ n.state = r.state /\ n.of = r.of /\ n.viewing = r.viewing /\ n.send = s
      /\ n.pc = r.pc /\ n.event = r.event /\ n.todo = r.todo
  BY DEF ClientRows
<1> QED
  BY <1>1, <1>2

LEMMA SendUpdate ==
  ASSUME PresenceTyped, NEW c \in Clients, NEW s \in Seq(HubEvents), client' = [client EXCEPT ![c].send = s]
  PROVE  /\ client' \in [Clients -> ClientRows] /\ \A d \in Clients : d # c => client'[d] = client[d]
         /\ client'[c].state = client[c].state /\ client'[c].of = client[c].of /\ client'[c].viewing = client[c].viewing
         /\ client'[c].pc = client[c].pc /\ client'[c].event = client[c].event /\ client'[c].todo = client[c].todo
         /\ client'[c].send = s
<1>1. client \in [Clients -> ClientRows] /\ client[c] \in ClientRows
  BY DEF PresenceTyped
<1>2. PICK n \in ClientRows :
        /\ n.state = client[c].state /\ n.of = client[c].of /\ n.viewing = client[c].viewing /\ n.send = s
        /\ n.pc = client[c].pc /\ n.event = client[c].event /\ n.todo = client[c].todo
        /\ n = [client[c] EXCEPT !.send = s]
  BY <1>1, SentRow
<1>3. client' = [client EXCEPT ![c] = n]
  BY <1>1, <1>2
<1>4. client' \in [Clients -> ClientRows] /\ client'[c] = n /\ \A d \in Clients : d # c => client'[d] = client[d]
  BY <1>3, ClientUpdate
<1> QED
  BY <1>2, <1>4

LEMMA SendToClientKeeps ==
  ASSUME PresenceInv, NEW c \in Clients, SendToClient(c)
  PROVE  PresenceInv'
<1>1. PresenceTyped /\ SocketsPaired /\ PumpsKnow /\ PagesFollowed
  BY DEF PresenceInv
<1>2. client[c].pc = "sync" /\ page' = page /\ inbox' = inbox /\ excused' = (excused \/ Full(c))
  BY DEF SendToClient
<1>3. /\ client[c].viewing \in Topics /\ client[c].todo = NoTopic /\ client[c].state \in {"open", "closed"}
      /\ client[c].event \in HubEvents /\ client[c].event.topic = client[c].viewing /\ client[c].event.type = "sync"
      /\ client[c] \in ClientRows /\ client[c].send \in Seq(HubEvents)
  BY <1>1, <1>2, ClientShape DEF PumpsKnow, PresenceTyped
<1>4. PICK channel \in Seq(HubEvents) :
        /\ channel = IF Full(c) \/ client[c].state # "open" THEN client[c].send ELSE Append(client[c].send, client[c].event)
        /\ client' = [client EXCEPT ![c].pc = "read", ![c].event = <<>>, ![c].send = channel]
  <2> PICK channel : channel = IF Full(c) \/ ~(client[c].state = "open") THEN client[c].send ELSE Append(client[c].send, client[c].event)
    OBVIOUS
  <2>1. channel \in Seq(HubEvents)
    BY <1>3
  <2>2. client' = [client EXCEPT ![c].pc = "read", ![c].event = <<>>,
                                 ![c].send = IF Full(c) \/ ~(client[c].state = "open") THEN @ ELSE Append(@, client[c].event)]
    BY DEF SendToClient
  <2>3. [client EXCEPT ![c].pc = "read", ![c].event = <<>>][c].send = client[c].send
    BY <1>1 DEF PresenceTyped, ClientRows
  <2>4. client' = [client EXCEPT ![c].pc = "read", ![c].event = <<>>, ![c].send = channel]
    BY <2>2, <2>3
  <2> QED
    BY <2>1, <2>4
<1>5. PICK row \in ClientRows :
        /\ row.state = client[c].state /\ row.of = client[c].of /\ row.send = channel
        /\ row.pc = "read" /\ row.viewing = client[c].viewing /\ row.todo = client[c].todo
        /\ client' = [client EXCEPT ![c] = row]
  <2> PICK old \in ClientRows : old = client[c]
    BY <1>3
  <2> PICK row : row = [old EXCEPT !.pc = "read", !.event = <<>>, !.send = channel]
    OBVIOUS
  <2>1. row \in ClientRows
    BY DEF ClientRows
  <2>2. /\ row.state = old.state /\ row.of = old.of /\ row.send = channel
        /\ row.pc = "read" /\ row.viewing = old.viewing /\ row.todo = old.todo
    BY DEF ClientRows
  <2>3. client' = [client EXCEPT ![c] = row]
    <3>1. client \in [Clients -> ClientRows]
      BY <1>1 DEF PresenceTyped
    <3> QED
      BY <1>4, <3>1
  <2> QED
    BY <2>1, <2>2, <2>3
<1>6. client' \in [Clients -> ClientRows] /\ client'[c] = row /\ \A d \in Clients : d # c => client'[d] = client[d]
  BY <1>1, <1>5, ClientUpdate
<1>7. /\ client'[c].state = client[c].state /\ client'[c].of = client[c].of /\ client'[c].send = channel
      /\ client'[c].pc = "read" /\ client'[c].viewing = client[c].viewing /\ client'[c].todo = NoTopic
  BY <1>3, <1>5, <1>6
<1>8. PresenceTyped'
  <2>1. (excused \/ Full(c)) \in BOOLEAN
    OBVIOUS
  <2>2. excused' \in BOOLEAN
    BY <1>2, <2>1, Zenon
  <2> QED
    BY <1>1, <1>2, <1>6, <2>2 DEF PresenceTyped
<1>9. PumpsKnow'
  BY <1>1, <1>6, <1>7 DEF PumpsKnow
<1>10. SocketsPaired'
  BY <1>1, <1>2, <1>6, <1>7, PageShape DEF SocketsPaired
<1>11. PagesFollowed'
  <2>1. Heading(c)' = Heading(c)
    BY <1>2, <1>3, <1>7 DEF Heading
  <2> QED
    BY <1>2, <1>6, <1>7, <2>1, OthersWait
<1>12. \A q \in Pages, t \in Topics : Looks(q, t) => Looks(q, t)'
  <2> SUFFICES ASSUME NEW d \in Clients, NEW t \in Topics, LooksAt(d, t)
               PROVE  LooksAt(d, t)' /\ client'[d].of = client[d].of
    BY DEF Looks
  <2>1. CASE d = c
    BY <1>2, <1>7, <2>1 DEF LooksAt
  <2>2. CASE d # c
    BY <1>6, <2>2 DEF LooksAt
  <2> QED
    BY <2>1, <2>2
<1>13. AllShownFairly'
  <2> SUFFICES ASSUME ~excused, ~Full(c), NEW d \in Clients, NEW q \in Pages, client'[d].state = "open", q # client'[d].of
               PROVE  ShownFairly(d, q)'
    BY <1>2 DEF AllShownFairly
  <2>1. CASE d = c
    <3>1. client[c].state = "open" /\ q # client[c].of
      BY <1>7, <2>1
    <3>2. client'[c].send = Append(client[c].send, client[c].event)
      BY <1>4, <1>7, <3>1
    <3>3. Adds(client[c].event, q) => \A t \in Topics : t = client[c].event.topic => Looks(q, t)'
      <4>1. ShownFairly(c, q)
        BY <3>1 DEF PresenceInv, AllShownFairly
      <4> QED
        BY <1>2, <1>12, <4>1 DEF ShownFairly, Adds
    <3> PICK e \in HubEvents : e = client[c].event
      BY <1>3
    <3> QED
      BY <1>2, <1>7, <1>12, <2>1, <3>1, <3>2, <3>3, ShownWithOneMore
  <2>2. CASE d # c
    <3>1. SameShown(d)
      BY <1>2, <1>6, <2>2 DEF SameShown
    <3> QED
      BY <1>9, <1>12, <3>1, ShownKept
  <2> QED
    BY <2>1, <2>2
<1> QED
  BY <1>8, <1>9, <1>10, <1>11, <1>13 DEF PresenceInv

\* What a page makes of an event.
LEMMA ShownOf ==
  ASSUME NEW p \in Pages, NEW e \in HubEvents, NEW q \in Shown(p, e)
  PROVE  \/ q \in page[p].viewers /\ ~Removes(e, q, page[p].topic)
         \/ Adds(e, q) /\ e.topic = page[p].topic
<1>1. e.type \in {"join", "leave", "sync"}
  BY EventShape
<1>2. CASE e.topic # page[p].topic
  BY <1>2 DEF Shown, Removes
<1>3. CASE e.topic = page[p].topic /\ e.type = "join"
  BY <1>3 DEF Shown, Removes, Adds
<1>4. CASE e.topic = page[p].topic /\ e.type = "leave"
  BY <1>4 DEF Shown, Removes, Adds
<1>5. CASE e.topic = page[p].topic /\ e.type = "sync"
  BY <1>5 DEF Shown, Removes, Adds
<1> QED
  BY <1>1, <1>2, <1>3, <1>4, <1>5

LEMMA WritePumpKeeps ==
  ASSUME PresenceInv, NEW c \in Clients, WritePump(c)
  PROVE  PresenceInv'
<1>1. PresenceTyped /\ SocketsPaired /\ PumpsKnow /\ PagesFollowed
  BY DEF PresenceInv
<1> PICK s : s = client[c].send
  OBVIOUS
<1>2. PICK p \in Pages : p = client[c].of
  BY <1>1, ClientShape
<1>3. /\ client[c].state = "open" /\ s # <<>> /\ s \in Seq(HubEvents) /\ client[c] \in ClientRows
      /\ inbox' = inbox /\ excused' = excused
  BY <1>1, ClientShape DEF WritePump, PresenceTyped
<1>4. PICK e \in HubEvents : e = Head(s)
  BY <1>3, AfterTheFirst
<1>5. /\ e = s[1] /\ Tail(s) \in Seq(HubEvents) /\ Len(s) \in Nat \ {0} /\ Len(Tail(s)) = Len(s) - 1
      /\ \A k \in 1 .. Len(s) - 1 : Tail(s)[k] = s[k + 1]
  BY <1>3, <1>4, AfterTheFirst
<1>6. PICK V \in SUBSET Pages : V = Shown(p, e) /\ page' = [page EXCEPT ![p].viewers = V]
  <2>1. Shown(p, e) \in SUBSET Pages
    <3>1. page[p].viewers \in SUBSET Pages /\ e.users \in SUBSET Pages /\ e.type \in {"join", "leave", "sync"}
      BY <1>1, EventShape, PageShape
    <3>2. CASE e.type = "join"
      BY <3>1, <3>2 DEF Shown
    <3>3. CASE e.type = "leave"
      BY <3>1, <3>3 DEF Shown
    <3>4. CASE e.type = "sync"
      BY <3>1, <3>4 DEF Shown
    <3> QED
      BY <3>1, <3>2, <3>3, <3>4
  <2>2. page' = [page EXCEPT ![p].viewers = Shown(p, e)]
    BY <1>2, <1>4 DEF WritePump
  <2> QED
    BY <2>1, <2>2
<1>7. page[p].topic = NoTopic => V = {}
  <2>1. e.topic # NoTopic
    BY EventShape, PresenceAssumption
  <2> QED
    BY <1>1, <1>6, <2>1 DEF Shown, SocketsPaired
<1>8. /\ page' \in [Pages -> PageRows] /\ page'[p].viewers = V
      /\ \A r \in Pages : page'[r].topic = page[r].topic /\ page'[r].socket = page[r].socket
      /\ \A r \in Pages : r # p => page'[r].viewers = page[r].viewers
      /\ \A r \in Pages : page'[r].topic = NoTopic => page'[r].viewers = {}
  BY <1>1, <1>6, <1>7, OnlyViewers
<1>9. PICK rest \in Seq(HubEvents) : rest = Tail(s)
  BY <1>5
<1>10. /\ client' \in [Clients -> ClientRows] /\ \A d \in Clients : d # c => client'[d] = client[d]
       /\ client'[c].state = client[c].state /\ client'[c].of = client[c].of /\ client'[c].viewing = client[c].viewing
       /\ client'[c].pc = client[c].pc /\ client'[c].event = client[c].event /\ client'[c].todo = client[c].todo
       /\ client'[c].send = rest
  <2>1. client' = [client EXCEPT ![c].send = rest]
    BY <1>9 DEF WritePump
  <2> QED
    BY <1>1, <2>1, SendUpdate
<1>11. \A d \in Clients :
         /\ client'[d].state = client[d].state /\ client'[d].of = client[d].of /\ client'[d].viewing = client[d].viewing
         /\ client'[d].pc = client[d].pc /\ client'[d].event = client[d].event /\ client'[d].todo = client[d].todo
  BY <1>10
<1>12. PresenceTyped'
  BY <1>1, <1>3, <1>8, <1>10 DEF PresenceTyped
<1>13. PumpsKnow'
  BY <1>1, <1>11 DEF PumpsKnow
<1>14. SocketsPaired'
  BY <1>1, <1>8, <1>11, ClientShape, PageShape DEF SocketsPaired
<1>15. PagesFollowed'
  BY <1>1, <1>3, <1>8, <1>11, ClientShape DEF PagesFollowed, Heading
<1>16. \A q \in Pages, t \in Topics : Looks(q, t) => Looks(q, t)'
  BY <1>11, LooksKept
<1>17. AllShownFairly'
  <2> SUFFICES ASSUME ~excused, NEW d \in Clients, NEW q \in Pages, client'[d].state = "open", q # client'[d].of
               PROVE  ShownFairly(d, q)'
    BY <1>3 DEF AllShownFairly
  <2>1. CASE d = c
    <3>1. ShownFairly(c, q) /\ q # p /\ client'[c].of = p /\ client'[c].send = Tail(s)
      BY <1>2, <1>3, <1>9, <1>10, <2>1 DEF PresenceInv, AllShownFairly
    \* Every event has moved one place ahead, and the first one has been shown.
    <3>2. ASSUME NEW k \in 0 .. Len(s) - 1, NEW t \in Topics, Looks(q, t) \/ TakenOff(c, k + 1, q, t)
          PROVE  Looks(q, t)' \/ TakenOff(c, k, q, t)'
      <4>1. CASE Looks(q, t)
        BY <1>16, <4>1
      <4>2. CASE TakenOff(c, k + 1, q, t)
        <5> PICK j \in k + 2 .. Len(s) : Removes(s[j], q, t)
          BY <1>5, <4>2 DEF TakenOff
        <5> PICK i : i = j - 1
          OBVIOUS
        <5>1. i \in k + 1 .. Len(s) - 1 /\ i \in 1 .. Len(s) - 1 /\ i + 1 = j
          BY <1>5
        <5>2. client'[c].send[i] = s[j] /\ Len(client'[c].send) = Len(s) - 1
          BY <1>5, <3>1, <5>1
        <5> QED
          BY <5>1, <5>2 DEF TakenOff, Removes
      <4> QED
        BY <3>2, <4>1, <4>2
    <3>3. ASSUME q \in page'[p].viewers
          PROVE  Looks(q, page[client[c].of].topic)' \/ TakenOff(c, 0, q, page[client[c].of].topic)'
      <4> PICK t : t = page[p].topic
        OBVIOUS
      <4>1. t \in Topics /\ page'[client'[c].of].topic = t
        BY <1>1, <1>6, <1>7, <1>8, <3>1, <3>3, PageShape
      <4>2. Looks(q, t) \/ TakenOff(c, 1, q, t)
        <5>1. CASE q \in page[p].viewers /\ ~Removes(e, q, t)
          <6>1. Looks(q, t) \/ TakenOff(c, 0, q, t)
            BY <1>2, <3>1, <5>1 DEF ShownFairly
          <6>2. ASSUME NEW j \in 1 .. Len(s), Removes(s[j], q, t)
                PROVE  j \in 2 .. Len(s)
            BY <1>5, <5>1, <6>2
          <6> QED
            BY <6>1, <6>2 DEF TakenOff
        <5>2. CASE Adds(e, q) /\ e.topic = t
          <6>1. 1 \in 1 .. Len(s) /\ s[1] = e
            BY <1>5
          <6> QED
            BY <3>1, <5>2, <6>1 DEF ShownFairly
        <5> QED
          BY <1>6, <1>8, <3>3, <5>1, <5>2, ShownOf
      <4>3. Looks(q, t)' \/ TakenOff(c, 0, q, t)'
        BY <1>5, <3>2, <4>1, <4>2
      <4>4. CASE Looks(q, t)'
        BY <4>1, <4>4 DEF Looks, LooksAt
      <4>5. CASE TakenOff(c, 0, q, t)'
        BY <4>1, <4>5 DEF TakenOff
      <4> QED
        BY <4>3, <4>4, <4>5
    <3>4. ASSUME NEW k \in 1 .. Len(s) - 1, Adds(client'[c].send[k], q)
          PROVE  Looks(q, client[c].send[k].topic)' \/ TakenOff(c, k, q, client[c].send[k].topic)'
      <4> PICK t : t = client'[c].send[k].topic
        OBVIOUS
      <4> PICK i : i = k + 1
        OBVIOUS
      <4>1. i \in 1 .. Len(s) /\ k \in 0 .. Len(s) - 1 /\ s[i] \in HubEvents /\ client'[c].send[k] = s[i]
        BY <1>3, <1>5, <3>1
      <4>2. t \in Topics /\ t = s[i].topic /\ Adds(s[i], q)
        BY <3>4, <4>1, EventShape DEF Adds
      <4>3. Looks(q, t) \/ TakenOff(c, k + 1, q, t)
        BY <3>1, <4>1, <4>2 DEF ShownFairly
      <4>4. Looks(q, t)' \/ TakenOff(c, k, q, t)'
        BY <3>2, <4>1, <4>2, <4>3
      <4>5. CASE Looks(q, t)'
        BY <4>5 DEF Looks, LooksAt
      <4>6. CASE TakenOff(c, k, q, t)'
        BY <4>6 DEF TakenOff
      <4> QED
        BY <4>4, <4>5, <4>6
    <3>5. ASSUME client'[c].pc = "sync", q \in client'[c].event.users
          PROVE  Looks(q, client[c].event.topic)'
      <4> PICK t : t = client[c].event.topic
        OBVIOUS
      <4>1. t \in Topics /\ Looks(q, t) /\ client'[c].event.topic = t
        BY <1>1, <1>11, <3>1, <3>5 DEF PumpsKnow, ShownFairly
      <4>2. Looks(q, t)'
        BY <1>16, <4>1
      <4> QED
        BY <4>1, <4>2 DEF Looks, LooksAt
    <3>6. \A k \in 1 .. Len(client'[c].send) : Adds(client'[c].send[k], q) =>
            Looks(q, client[c].send[k].topic)' \/ TakenOff(c, k, q, client[c].send[k].topic)'
      BY <1>5, <3>1, <3>4
    <3> QED
      BY <2>1, <3>1, <3>3, <3>5, <3>6 DEF ShownFairly, Adds
  <2>2. CASE d # c
    <3>1. client[d].state = "open" /\ client[d].of \in Pages /\ client'[d] = client[d]
      BY <1>1, <1>10, <2>2, ClientShape
    <3>2. client[d].of # p
      BY <1>1, <1>2, <1>3, <2>2, <3>1 DEF SocketsPaired
    <3>3. SameShown(d)
      BY <1>8, <3>1, <3>2 DEF SameShown
    <3> QED
      BY <1>13, <1>16, <3>3, ShownKept
  <2> QED
    BY <2>1, <2>2
<1> QED
  BY <1>12, <1>13, <1>14, <1>15, <1>17 DEF PresenceInv

LEMMA AppendedRow ==
  ASSUME NEW r \in ClientRows, NEW e \in HubEvents
  PROVE  \E n \in ClientRows :
           /\ n.state = r.state /\ n.of = r.of /\ n.viewing = r.viewing /\ n.send = Append(r.send, e)
           /\ n.pc = r.pc /\ n.event = r.event /\ n.todo = r.todo /\ n = [r EXCEPT !.send = Append(r.send, e)]
<1>1. r.send \in Seq(HubEvents)
  BY DEF ClientRows
<1>2. Append(r.send, e) \in Seq(HubEvents)
  BY <1>1, OneMore
<1> QED
  BY <1>2, SentRow

\* The row of the client that has told the others, and where it goes from there.
LEMMA ToldRow ==
  ASSUME PresenceInv, NEW c \in Clients, client[c].pc = "send"
  PROVE  LET next == IF client[c].event.type = "join" THEN "list" ELSE "read"
             told == IF client[c].todo = NoTopic THEN [client[c] EXCEPT !.pc = next, !.event = <<>>]
                     ELSE [client[c] EXCEPT !.event = EventOf(c, "join", client[c].todo), !.raced = FALSE,
                                            !.viewing = client[c].todo, !.todo = NoTopic]
         IN /\ told \in ClientRows /\ told.state = client[c].state /\ told.of = client[c].of /\ told.send = client[c].send
            /\ told.todo = NoTopic
            /\ told.viewing = IF client[c].todo = NoTopic THEN client[c].viewing ELSE client[c].todo
            /\ client[c].todo = NoTopic => told.pc = next
            /\ client[c].todo # NoTopic =>
                 /\ told.pc = "send" /\ told.event \in HubEvents /\ told.event.type = "join"
                 /\ told.event.topic = told.viewing /\ told.event.users = {told.of}
<1> PICK next \in {"list", "read"} : next = IF client[c].event.type = "join" THEN "list" ELSE "read"
  OBVIOUS
<1>1. /\ client[c] \in ClientRows /\ client[c].of \in Pages /\ client[c].todo \in Topics \cup {NoTopic}
  BY ClientShape DEF PresenceInv, PresenceTyped
<1> PICK old \in ClientRows : old = client[c]
  BY <1>1
<1>2. CASE client[c].todo = NoTopic
  <2> PICK told : told = [old EXCEPT !.pc = next, !.event = <<>>]
    OBVIOUS
  <2>1. told \in ClientRows
    BY DEF ClientRows
  <2>2. /\ told.state = old.state /\ told.of = old.of /\ told.send = old.send /\ told.todo = old.todo
        /\ told.viewing = old.viewing /\ told.pc = next
    BY DEF ClientRows
  <2> QED
    BY <1>2, <2>1, <2>2
<1>3. CASE client[c].todo # NoTopic
  <2> PICK e : e = EventOf(c, "join", client[c].todo)
    OBVIOUS
  <2>1. e \in HubEvents /\ e.type = "join" /\ e.topic = client[c].todo /\ e.users = {client[c].of}
    BY <1>1, <1>3 DEF EventOf, HubEvents
  <2> PICK told : told = [old EXCEPT !.event = e, !.raced = FALSE, !.viewing = old.todo, !.todo = NoTopic]
    OBVIOUS
  <2>2. told \in ClientRows
    BY <2>1 DEF ClientRows
  <2>3. /\ told.state = old.state /\ told.of = old.of /\ told.send = old.send /\ told.todo = NoTopic
        /\ told.viewing = old.todo /\ told.pc = old.pc /\ told.event = e
    BY DEF ClientRows
  <2> QED
    BY <1>3, <2>1, <2>2, <2>3
<1> QED
  BY <1>2, <1>3

\* A client tells the others that it has joined or left.
LEMMA BroadcastKeeps ==
  ASSUME PresenceInv, NEW c \in Clients, BroadcastExcluding(c)
  PROVE  PresenceInv'
<1>1. PresenceTyped /\ SocketsPaired /\ PumpsKnow /\ PagesFollowed
  BY DEF PresenceInv
<1>2. client[c].pc = "send" /\ page' = page /\ inbox' = inbox
  BY DEF BroadcastExcluding
<1>3. PICK e \in HubEvents :
        /\ e = client[c].event /\ e.type \in {"join", "leave"} /\ e.users = {client[c].of}
        /\ client[c].viewing = IF e.type = "join" THEN e.topic ELSE NoTopic
        /\ e.type = "join" => client[c].todo = NoTopic
        /\ client[c].state \in {"open", "closed"}
  BY <1>1, <1>2 DEF PumpsKnow
<1>4. PICK told \in ClientRows :
        /\ told.state = client[c].state /\ told.of = client[c].of /\ told.send = client[c].send /\ told.todo = NoTopic
        /\ told.viewing = IF client[c].todo = NoTopic THEN client[c].viewing ELSE client[c].todo
        /\ client[c].todo = NoTopic => told.pc = IF e.type = "join" THEN "list" ELSE "read"
        /\ client[c].todo # NoTopic =>
             /\ told.pc = "send" /\ told.event \in HubEvents /\ told.event.type = "join"
             /\ told.event.topic = told.viewing /\ told.event.users = {told.of}
        /\ told = IF client[c].todo = NoTopic
                  THEN [client[c] EXCEPT !.pc = IF client[c].event.type = "join" THEN "list" ELSE "read", !.event = <<>>]
                  ELSE [client[c] EXCEPT !.event = EventOf(c, "join", client[c].todo), !.raced = FALSE,
                                         !.viewing = client[c].todo, !.todo = NoTopic]
  BY <1>2, <1>3, ToldRow
<1> DEFINE others == {d \in Clients \ {c} : client[d].state = "open"}
           full == {d \in others : Full(d)}
<1>5. PICK reached \in SUBSET others :
        /\ excused' = (excused \/ reached # others \/ reached \cap full # {}
                       \/ \E d \in others : client[d].pc = "sync" /\ e.type = "leave")
        /\ client' = [d \in Clients |-> client'[d]] /\ client'[c] = told
        /\ \A d \in Clients : d # c => client'[d] =
             IF d \in reached \ full THEN [client[d] EXCEPT !.send = Append(client[d].send, e)] ELSE client[d]
  <2>1. PICK reached \in IF client[c].raced THEN SUBSET others ELSE {others} :
          /\ excused' = (excused \/ reached # others \/ reached \cap full # {}
                         \/ \E d \in others : client[d].pc = "sync" /\ client[c].event.type = "leave")
          /\ client' = [d \in Clients |->
               IF d = c
               THEN IF client[c].todo = NoTopic
                    THEN [client[c] EXCEPT !.pc = IF client[c].event.type = "join" THEN "list" ELSE "read", !.event = <<>>]
                    ELSE [client[c] EXCEPT !.event = EventOf(c, "join", client[c].todo), !.raced = FALSE,
                                           !.viewing = client[c].todo, !.todo = NoTopic]
               ELSE IF d \in reached \ full THEN [client[d] EXCEPT !.send = Append(client[d].send, client[c].event)]
               ELSE client[d]]
    BY DEF BroadcastExcluding
  <2>2. client'[c] = told
    BY <1>4, <2>1
  <2> HIDE DEF others, full
  <2>3. reached \in SUBSET others
    BY <2>1
  <2>4. \A d \in Clients : d # c => client'[d] =
          IF d \in reached \ full THEN [client[d] EXCEPT !.send = Append(client[d].send, e)] ELSE client[d]
    BY <1>3, <2>1
  <2>5. excused' = (excused \/ reached # others \/ reached \cap full # {}
                    \/ \E d \in others : client[d].pc = "sync" /\ e.type = "leave")
    BY <1>3, <2>1
  <2>6. client' = [d \in Clients |-> client'[d]]
    BY <2>1
  <2> QED
    BY <2>2, <2>3, <2>4, <2>5, <2>6
<1>6. ASSUME NEW d \in Clients, d # c
      PROVE  /\ client'[d] \in ClientRows
             /\ client'[d].state = client[d].state /\ client'[d].of = client[d].of /\ client'[d].viewing = client[d].viewing
             /\ client'[d].pc = client[d].pc /\ client'[d].event = client[d].event /\ client'[d].todo = client[d].todo
             /\ client'[d].send = IF d \in reached \ full THEN Append(client[d].send, e) ELSE client[d].send
  <2>1. client[d] \in ClientRows /\ client[d].send \in Seq(HubEvents)
    BY <1>1, ClientShape DEF PresenceTyped
  <2>2. CASE d \in reached \ full
    <3>1. client'[d] = [client[d] EXCEPT !.send = Append(client[d].send, e)]
      BY <1>5, <1>6, <2>2
    <3>2. PICK n \in ClientRows :
            /\ n.state = client[d].state /\ n.of = client[d].of /\ n.viewing = client[d].viewing
            /\ n.send = Append(client[d].send, e)
            /\ n.pc = client[d].pc /\ n.event = client[d].event /\ n.todo = client[d].todo
            /\ n = [client[d] EXCEPT !.send = Append(client[d].send, e)]
      BY <2>1, AppendedRow
    <3> QED
      BY <2>2, <3>1, <3>2
  <2>3. CASE d \notin reached \ full
    BY <1>5, <1>6, <2>1, <2>3
  <2> QED
    BY <2>2, <2>3
<1>7. client'[c] = told
  BY <1>5
<1>8. client' \in [Clients -> ClientRows]
  <2>1. client' = [d \in Clients |-> client'[d]]
    BY <1>5
  <2>2. \A d \in Clients : client'[d] \in ClientRows
    BY <1>4, <1>6, <1>7
  <2> QED
    BY <2>1, <2>2
<1>9. PresenceTyped'
  <2>1. (excused \/ reached # others \/ reached \cap full # {}
         \/ \E d \in others : client[d].pc = "sync" /\ e.type = "leave") \in BOOLEAN
    OBVIOUS
  <2>2. excused' \in BOOLEAN
    BY <1>5, <2>1, Zenon
  <2> QED
    BY <1>1, <1>2, <1>8, <2>2 DEF PresenceTyped
<1>10. /\ client'[c].state = client[c].state /\ client'[c].of = client[c].of /\ client'[c].send = client[c].send
       /\ client'[c].todo = NoTopic /\ client'[c].pc # "sync"
       /\ client'[c].viewing = IF client[c].todo = NoTopic THEN client[c].viewing ELSE client[c].todo
  BY <1>4, <1>7
<1>11. PumpsKnow'
  <2> SUFFICES ASSUME NEW d \in Clients
               PROVE  /\ client'[d].pc # "read" => client'[d].state \in {"open", "closed"}
                      /\ client'[d].pc # "send" => client'[d].todo = NoTopic
                      /\ client'[d].pc \in {"list", "sync"} => client'[d].viewing \in Topics
                      /\ client'[d].pc = "sync" =>
                           /\ client'[d].event \in HubEvents /\ client'[d].event.type = "sync"
                           /\ client'[d].event.topic = client'[d].viewing
                      /\ client'[d].pc = "send" =>
                           /\ client'[d].event \in HubEvents /\ client'[d].event.type \in {"join", "leave"}
                           /\ client'[d].event.users = {client'[d].of}
                           /\ client'[d].viewing = IF client'[d].event.type = "join" THEN client'[d].event.topic ELSE NoTopic
                           /\ client'[d].event.type = "join" => client'[d].todo = NoTopic
    BY DEF PumpsKnow
  <2>1. CASE d = c
    <3>1. e.topic \in Topics
      BY EventShape
    <3>2. CASE client[c].todo = NoTopic
      BY <1>3, <1>4, <1>7, <2>1, <3>1, <3>2
    <3>3. CASE client[c].todo # NoTopic
      BY <1>3, <1>4, <1>7, <2>1, <3>3
    <3> QED
      BY <3>2, <3>3
  <2>2. CASE d # c
    <3>1. /\ client'[d].state = client[d].state /\ client'[d].of = client[d].of /\ client'[d].viewing = client[d].viewing
          /\ client'[d].pc = client[d].pc /\ client'[d].event = client[d].event /\ client'[d].todo = client[d].todo
      BY <1>6, <2>2
    <3> QED
      BY <1>1, <3>1 DEF PumpsKnow
  <2> QED
    BY <2>1, <2>2
<1>12. \A d \in Clients : client'[d].state = client[d].state /\ client'[d].of = client[d].of
  BY <1>6, <1>10
<1>13. SocketsPaired'
  BY <1>1, <1>2, <1>12, PageShape DEF SocketsPaired
<1>14. PagesFollowed'
  <2> SUFFICES ASSUME NEW d \in Clients, client[d].state = "open"
               PROVE  Heading(d)' = Heading(d)
    BY <1>1, <1>2, <1>12 DEF PagesFollowed
  <2>1. CASE d = c
    BY <1>2, <1>10, <2>1 DEF Heading
  <2>2. CASE d # c
    BY <1>2, <1>6, <2>2 DEF Heading
  <2> QED
    BY <2>1, <2>2
\* Only who has left is not looking any more, and the event says so.
<1>15. \A q \in Pages, t \in Topics : Looks(q, t) => Looks(q, t)' \/ Removes(e, q, t)
  <2> SUFFICES ASSUME NEW d \in Clients, NEW t \in Topics, LooksAt(d, t), ~Removes(e, client[d].of, t)
               PROVE  LooksAt(d, t)' /\ client'[d].of = client[d].of
    BY DEF Looks
  <2>1. CASE d = c
    <3>1. t # NoTopic /\ e.type = "join"
      BY <1>2, <1>3, <2>1, PresenceAssumption DEF LooksAt, Removes
    <3>2. client[c].viewing = t /\ client[c].todo = NoTopic
      BY <1>2, <1>3, <2>1, <3>1 DEF LooksAt
    <3> QED
      BY <1>3, <1>10, <2>1, <3>2 DEF LooksAt
  <2>2. CASE d # c
    BY <1>6, <2>2 DEF LooksAt
  <2> QED
    BY <2>1, <2>2
<1>16. \A q \in Pages, t \in Topics : q # client[c].of \/ e.type = "join" => (Looks(q, t) => Looks(q, t)')
  BY <1>3, <1>15 DEF Removes
<1>17. e.type = "join" => \A q \in Pages, t \in Topics : q = client[c].of /\ t = e.topic => Looks(q, t)'
  BY <1>3, <1>10 DEF Looks, LooksAt
<1>18. AllShownFairly'
  <2> SUFFICES ASSUME ~excused', NEW d \in Clients, NEW q \in Pages, client'[d].state = "open", q # client'[d].of
               PROVE  ShownFairly(d, q)'
    BY DEF AllShownFairly
  <2>1. ~excused /\ reached = others /\ reached \cap full = {} /\ ~\E x \in others : client[x].pc = "sync" /\ e.type = "leave"
    BY <1>5
  <2>2. client[d].state = "open" /\ q # client[d].of
    BY <1>12
  <2>3. CASE d = c
    <3>1. SameShown(c)
      BY <1>2, <1>10, <2>2, <2>3 DEF SameShown
    <3> QED
      BY <1>11, <1>16, <2>1, <2>2, <2>3, <3>1, ShownKept
  <2>4. CASE d # c
    <3>1. d \in others /\ d \in reached \ full
      BY <2>1, <2>2, <2>4
    <3>2. /\ client'[d].of = client[d].of /\ client'[d].send = Append(client[d].send, e)
          /\ client'[d].pc = client[d].pc /\ client'[d].event = client[d].event
      BY <1>6, <2>4, <3>1
    <3>3. Adds(e, q) => \A t \in Topics : t = e.topic => Looks(q, t)'
      BY <1>3, <1>17 DEF Adds
    <3>4. client'[d].pc = "sync" => \A t \in Topics : Looks(q, t) => Looks(q, t)'
      BY <1>3, <1>16, <2>1, <3>1, <3>2
    <3> QED
      BY <1>2, <1>15, <2>1, <2>2, <3>2, <3>3, <3>4, ShownWithOneMore
  <2> QED
    BY <2>3, <2>4
<1> QED
  BY <1>9, <1>11, <1>13, <1>14, <1>18 DEF PresenceInv

-----------------------------------------------------------------------------
(* The invariant *)

FirstRow(p, t) == [NewClient EXCEPT !.state = "open", !.of = p, !.viewing = t]

LEMMA FirstRowShape ==
  ASSUME NEW p \in Pages, NEW t \in Topics \cup {NoTopic}
  PROVE  /\ FirstRow(p, t) \in ClientRows
         /\ FirstRow(p, t).state = "open" /\ FirstRow(p, t).of = p /\ FirstRow(p, t).viewing = t
         /\ FirstRow(p, t).send = <<>> /\ FirstRow(p, t).pc = "read" /\ FirstRow(p, t).todo = NoTopic
<1> PICK n : n = FirstRow(p, t)
  OBVIOUS
<1>1. n \in ClientRows
  BY NewRow DEF ClientRows, FirstRow
<1>2. n.state = "open" /\ n.of = p /\ n.viewing = t /\ n.send = <<>> /\ n.pc = "read" /\ n.todo = NoTopic
  BY NewRow DEF ClientRows, FirstRow
<1> QED
  BY <1>1, <1>2

LEMMA PresenceStarts == PresenceInit => PresenceInv /\ \A c \in Clients : client[c].send = <<>>
<1> SUFFICES ASSUME PresenceInit PROVE PresenceInv /\ \A c \in Clients : client[c].send = <<>>
  OBVIOUS
<1>1. Wanderer \in Pages /\ SomeTopic \in Topics
  BY PresenceAssumption DEF Wanderer, SomeTopic
<1> DEFINE first == CHOOSE f \in [Pages -> Clients] : \A p, q \in Pages : f[p] = f[q] => p = q
           topic == [p \in Pages |-> IF p = Wanderer THEN NoTopic ELSE SomeTopic]
<1>2. first \in [Pages -> Clients] /\ \A p, q \in Pages : first[p] = first[q] => p = q
  BY PresenceAssumption
<1>3. topic \in [Pages -> Topics \cup {NoTopic}] /\ \A p \in Pages : topic[p] = IF p = Wanderer THEN NoTopic ELSE SomeTopic
  BY <1>1
<1>5. /\ page = [p \in Pages |-> [topic |-> topic[p], socket |-> first[p], viewers |-> IF p = Wanderer THEN {} ELSE Pages \ {p, Wanderer}]]
      /\ client = [c \in Clients |->
           IF \E p \in Pages : first[p] = c
           THEN LET p == CHOOSE p \in Pages : first[p] = c IN [NewClient EXCEPT !.state = "open", !.of = p, !.viewing = topic[p]]
           ELSE NewClient]
      /\ inbox = [c \in Clients |-> <<>>] /\ excused = FALSE
  BY DEF PresenceInit
<1> HIDE DEF first, topic
<1>6. ASSUME NEW p \in Pages
      PROVE  /\ page[p] \in PageRows /\ page[p].topic = topic[p] /\ page[p].socket = first[p]
             /\ p = Wanderer => page[p].viewers = {}
             /\ \A q \in page[p].viewers : q # Wanderer /\ p # Wanderer
  <2> PICK V \in SUBSET Pages : V = IF p = Wanderer THEN {} ELSE Pages \ {p, Wanderer}
    OBVIOUS
  <2>1. page[p] = [topic |-> topic[p], socket |-> first[p], viewers |-> V]
    BY <1>5
  <2>2. topic[p] \in Topics \cup {NoTopic} /\ first[p] \in Clients
    BY <1>2, <1>3
  <2>3. page[p] \in PageRows /\ page[p].topic = topic[p] /\ page[p].socket = first[p] /\ page[p].viewers = V
    BY <2>1, <2>2 DEF PageRows
  <2> QED
    BY <2>3
<1>7. ASSUME NEW c \in Clients
      PROVE  /\ client[c] \in ClientRows /\ client[c].send = <<>> /\ client[c].pc = "read" /\ client[c].todo = NoTopic
             /\ client[c].state \in {"unused", "open"}
             /\ client[c].state = "open" => first[client[c].of] = c /\ client[c].viewing = topic[client[c].of]
             /\ \A p \in Pages : first[p] = c => client[c].state = "open" /\ client[c].of = p
  <2>1. CASE \E p \in Pages : first[p] = c
    <3>1. PICK p \in Pages : first[p] = c /\ p = CHOOSE q \in Pages : first[q] = c
      BY <2>1
    <3>2. topic[p] \in Topics \cup {NoTopic}
      BY <1>3
    <3>3. /\ FirstRow(p, topic[p]) \in ClientRows
          /\ FirstRow(p, topic[p]).state = "open" /\ FirstRow(p, topic[p]).of = p /\ FirstRow(p, topic[p]).viewing = topic[p]
          /\ FirstRow(p, topic[p]).send = <<>> /\ FirstRow(p, topic[p]).pc = "read" /\ FirstRow(p, topic[p]).todo = NoTopic
      BY <3>2, FirstRowShape
    <3>4. client[c] = FirstRow(p, topic[p])
      BY <1>5, <2>1, <3>1 DEF FirstRow
    <3>5. \A q \in Pages : first[q] = c => q = p
      BY <1>2, <3>1
    <3> QED
      BY <3>1, <3>3, <3>4, <3>5
  <2>2. CASE ~\E p \in Pages : first[p] = c
    <3>1. client[c] = NewClient
      BY <1>5, <2>2
    <3> QED
      BY <2>2, <3>1, NewRow
  <2> QED
    BY <2>1, <2>2
<1>8. PresenceTyped
  <2>1. page = [p \in Pages |-> page[p]] /\ client = [c \in Clients |-> client[c]]
    BY <1>5
  <2>2. page \in [Pages -> PageRows] /\ client \in [Clients -> ClientRows]
    BY <1>6, <1>7, <2>1
  <2>3. <<>> \in Seq(Messages)
    OBVIOUS
  <2> QED
    BY <1>5, <2>2, <2>3 DEF PresenceTyped
<1>9. \A c \in Clients : client[c].of \in Pages
  BY <1>8, ClientShape
<1>10. SocketsPaired
  <2>1. ASSUME NEW c \in Clients, client[c].state = "open"
        PROVE  page[client[c].of].socket = c
    <3>1. first[client[c].of] = c /\ client[c].of \in Pages
      BY <1>7, <1>9, <2>1
    <3> QED
      BY <1>6, <3>1
  <2>2. ASSUME NEW p \in Pages
        PROVE  /\ page[p].socket # NoClient => client[page[p].socket].of = p /\ client[page[p].socket].state = "open"
               /\ page[p].topic = NoTopic => page[p].viewers = {}
    <3>1. first[p] \in Clients
      BY <1>2
    <3>2. topic[p] = NoTopic => p = Wanderer
      BY <1>1, <1>3, PresenceAssumption
    <3>3. client[first[p]].of = p /\ client[first[p]].state = "open"
      BY <1>7, <3>1
    <3>4. page[p].topic = topic[p] /\ page[p].socket = first[p] /\ (p = Wanderer => page[p].viewers = {})
      BY <1>6
    <3> QED
      BY <3>2, <3>3, <3>4
  <2> QED
    BY <2>1, <2>2 DEF SocketsPaired
<1>11. PumpsKnow /\ PagesFollowed
  <2>1. PumpsKnow
    BY <1>7 DEF PumpsKnow
  <2>2. ASSUME NEW c \in Clients, client[c].state = "open"
        PROVE  Heading(c) = page[client[c].of].topic
    <3>1. Heading(c) = client[c].viewing
      BY <1>5, <1>7 DEF Heading
    <3>2. client[c].viewing = topic[client[c].of] /\ client[c].of \in Pages
      BY <1>7, <1>9, <2>2
    <3>3. page[client[c].of].topic = topic[client[c].of]
      BY <1>6, <3>2
    <3> QED
      BY <3>1, <3>2, <3>3
  <2> QED
    BY <2>1, <2>2 DEF PagesFollowed
<1>12. AllShownFairly
  <2> SUFFICES ASSUME NEW c \in Clients, NEW q \in Pages, client[c].state = "open", q # client[c].of
               PROVE  ShownFairly(c, q)
    BY DEF AllShownFairly
  <2>1. ASSUME q \in page[client[c].of].viewers
        PROVE  Looks(q, page[client[c].of].topic)
    <3> PICK p \in Pages : p = client[c].of
      BY <1>9
    <3>1. p # Wanderer /\ q # Wanderer /\ page[p].topic = topic[p]
      BY <1>6, <2>1
    <3>2. topic[p] = SomeTopic /\ topic[q] = SomeTopic
      BY <1>3, <3>1
    <3> PICK d \in Clients : d = first[q]
      BY <1>2
    <3>3. client[d].state = "open" /\ client[d].of = q /\ client[d].viewing = topic[q]
      BY <1>7
    <3> QED
      BY <3>1, <3>2, <3>3 DEF Looks, LooksAt
  <2> QED
    BY <1>7, <2>1 DEF ShownFairly
<1> QED
  BY <1>7, <1>8, <1>10, <1>11, <1>12 DEF PresenceInv

LEMMA PresenceStep == PresenceInv /\ PresenceNext => PresenceInv'
<1> SUFFICES ASSUME PresenceInv, PresenceNext PROVE PresenceInv'
  OBVIOUS
<1>1. ASSUME NEW p \in Pages, \/ \E i \in Topics : OpenTopic(p, i)
                              \/ LeaveTopic(p) \/ CloseSocket(p) \/ RemoveStale(p)
                              \/ \E c \in Clients : OpenSocket(p, c)
      PROVE  PresenceInv'
  BY <1>1, OpenTopicKeeps, LeaveTopicKeeps, CloseSocketKeeps, RemoveStaleKeeps, OpenSocketKeeps
<1>2. ASSUME NEW c \in Clients, \/ ReadPump(c) \/ PumpEnds(c) \/ BroadcastExcluding(c)
                                \/ GetIssueViewers(c) \/ SendToClient(c) \/ WritePump(c)
      PROVE  PresenceInv'
  BY <1>2, ReadPumpKeeps, PumpEndsKeeps, BroadcastKeeps, GetIssueViewersKeeps, SendToClientKeeps, WritePumpKeeps
<1> QED
  BY <1>1, <1>2, HubDiesKeeps DEF PresenceNext

\* Once everything is handled, whoever is shown looks at the issue.
LEMMA FairIsNoGhost == PresenceInv => NoGhostViewers
<1> SUFFICES ASSUME PresenceInv, Quiet, ~excused, NEW p \in Pages, page[p].socket # NoClient, NEW q \in page[p].viewers
             PROVE  page[q].topic = page[p].topic
  BY DEF NoGhostViewers
<1>1. PresenceTyped /\ SocketsPaired /\ PumpsKnow /\ PagesFollowed /\ AllShownFairly
  BY DEF PresenceInv
<1>2. PICK c \in Clients : c = page[p].socket /\ client[c].of = p /\ client[c].state = "open"
  BY <1>1, PageShape DEF SocketsPaired
<1>3. q \in Pages
  BY <1>1, PageShape
<1>4. CASE q = p
  BY <1>4
<1>5. CASE q # p
  <2>1. ShownFairly(c, q) /\ client[c].send = <<>>
    BY <1>1, <1>2, <1>3, <1>5 DEF AllShownFairly, Quiet, Registered
  <2>2. Looks(q, page[p].topic)
    BY <1>2, <2>1 DEF ShownFairly, TakenOff
  <2>3. PICK d \in Clients : client[d].of = q /\ LooksAt(d, page[p].topic)
    BY <2>2 DEF Looks
  <2>4. /\ client[d].state = "open" /\ client[d].pc = "read" /\ inbox[d] = <<>>
        /\ client[d].viewing = page[p].topic
    BY <2>3 DEF LooksAt, Quiet, Registered
  <2>5. Heading(d) = page[q].topic
    BY <1>1, <2>3, <2>4 DEF PagesFollowed
  <2>6. client[d].todo = NoTopic
    BY <1>1, <2>4 DEF PumpsKnow
  <2> QED
    BY <2>4, <2>5, <2>6 DEF Heading
<1> QED
  BY <1>4, <1>5

LEMMA PresenceInvariant == AppSpec => []PresenceInv
<1>1. AppInit => PresenceInv
  BY PresenceStarts DEF AppInit
<1>2. PresenceInv /\ [AppNext]_app => PresenceInv'
  <2> SUFFICES ASSUME PresenceInv, [AppNext]_app PROVE PresenceInv'
    OBVIOUS
  <2>1. CASE PresenceNext
    BY <2>1, PresenceStep
  <2>2. CASE UNCHANGED presence
    BY <2>2 DEF presence, PresenceInv, PresenceTyped, SocketsPaired, PumpsKnow, PagesFollowed, Heading, AllShownFairly,
                ShownFairly, TakenOff, Looks, LooksAt
  <2> QED
    BY <2>1, <2>2 DEF AppNext, app
<1> QED
  BY <1>1, <1>2, PTL DEF AppSpec

\* However often users go from issue to issue, lose their socket or overtake
\* each other, once the hub has handled everything no page shows somebody who
\* looks at something else (handlePresenceJoin and handlePresenceLeave, the
\* broadcasts of the hub and what the pages make of them); the exceptions that
\* the property names are in it.
THEOREM NobodyHaunts == AppSpec => []NoGhostViewers
BY PresenceInvariant, FairIsNoGhost, PTL

-----------------------------------------------------------------------------
(* Types: what the two invariants do not say of the variables *)

\* No channel holds more than its capacity.
PresenceBounds ==
  /\ \A c \in Clients : Len(client[c].send) <= Buffer
  /\ moves \in [Pages -> 0 .. MaxMoves]

\* What a step may do to the channel of a client.
ChannelMoves(c) ==
  \/ client'[c].send \in {client[c].send, <<>>}
  \/ client[c].send # <<>> /\ client'[c].send = Tail(client[c].send)
  \/ ~Full(c) /\ \E e \in HubEvents : client'[c].send = Append(client[c].send, e)

LEMMA ChannelsHold ==
  ASSUME PresenceInv, \A c \in Clients : Len(client[c].send) <= Buffer, \A c \in Clients : ChannelMoves(c)
  PROVE  \A c \in Clients : Len(client'[c].send) <= Buffer
<1> SUFFICES ASSUME NEW c \in Clients PROVE Len(client'[c].send) <= Buffer
  OBVIOUS
<1>1. client[c].send \in Seq(HubEvents) /\ Len(client[c].send) \in Nat /\ Len(client[c].send) <= Buffer /\ Buffer \in Nat
  BY ClientShape, PresenceAssumption DEF PresenceInv
<1>2. CASE client'[c].send = <<>>
  <2>1. Len(client'[c].send) = 0
    BY <1>2, EmptySeq
  <2> QED
    BY <1>1, <2>1
<1>3. CASE client[c].send # <<>> /\ client'[c].send = Tail(client[c].send)
  <2>1. Len(client'[c].send) = Len(client[c].send) - 1
    BY <1>1, <1>3, AfterTheFirst
  <2> QED
    BY <1>1, <2>1
<1>4. CASE ~Full(c) /\ \E e \in HubEvents : client'[c].send = Append(client[c].send, e)
  <2>1. Len(client'[c].send) = Len(client[c].send) + 1
    BY <1>1, <1>4, OneMore
  <2> QED
    BY <1>1, <1>4, <2>1 DEF Full
<1> QED
  BY <1>1, <1>2, <1>3, <1>4 DEF ChannelMoves

LEMMA PagesBounded ==
  ASSUME PresenceInv, PresenceBounds, NEW p \in Pages,
         \/ \E i \in Topics : OpenTopic(p, i)
         \/ LeaveTopic(p) \/ CloseSocket(p) \/ RemoveStale(p)
         \/ \E c \in Clients : OpenSocket(p, c)
  PROVE  PresenceBounds'
<1>1. client \in [Clients -> ClientRows]
  BY DEF PresenceInv, PresenceTyped
<1>2. \A c \in Clients : ChannelMoves(c)
  <2>1. CASE UNCHANGED client
    BY <2>1 DEF ChannelMoves
  <2>2. CASE CloseSocket(p)
    <3>1. PICK s \in Clients : s = page[p].socket
      BY <2>2, PageShape DEF CloseSocket, PresenceInv
    <3>2. PICK row : row = [client[s] EXCEPT !.state = "closed", !.send = <<>>]
      OBVIOUS
    <3>3. client' = [client EXCEPT ![s] = row]
      BY <1>1, <2>2, <3>1, <3>2 DEF CloseSocket
    <3>4. row.send = <<>>
      BY <1>1, <3>2, ClosedRow
    <3> QED
      BY <1>1, <3>3, <3>4 DEF ChannelMoves
  <2>3. CASE \E c \in Clients : OpenSocket(p, c)
    <3>1. PICK s \in Clients : OpenSocket(p, s)
      BY <2>3
    <3>2. PICK row : row = [NewClient EXCEPT !.state = "open", !.of = p]
      OBVIOUS
    <3>3. row \in ClientRows /\ row.send = <<>>
      BY <3>2, NewRow DEF ClientRows
    <3>4. Races(s, row)
      BY <3>1, <3>2 DEF OpenSocket
    <3>5. \A d \in Clients : client'[d].send \in {client[d].send, <<>>}
      BY <3>3, <3>4, RacesFrame DEF PresenceInv
    <3> QED
      BY <3>5 DEF ChannelMoves
  <2> QED
    BY <2>1, <2>2, <2>3 DEF OpenTopic, LeaveTopic, RemoveStale
<1>3. moves' = moves \/ \E n \in {1, 2} : PageMoves(p, n)
  BY DEF OpenTopic, LeaveTopic, CloseSocket, RemoveStale, OpenSocket
<1>4. moves' \in [Pages -> 0 .. MaxMoves]
  <2>1. CASE moves' = moves
    BY <2>1 DEF PresenceBounds
  <2>2. ASSUME NEW n \in {1, 2}, PageMoves(p, n)
        PROVE  moves' \in [Pages -> 0 .. MaxMoves]
    <3>1. moves[p] + n \in 0 .. MaxMoves
      BY <2>2, PresenceAssumption DEF PageMoves, PresenceBounds
    <3> QED
      BY <2>2, <3>1 DEF PageMoves, PresenceBounds
  <2> QED
    BY <1>3, <2>1, <2>2
<1> QED
  BY <1>2, <1>4, ChannelsHold DEF PresenceBounds

LEMMA ReadPumpBounded ==
  ASSUME PresenceInv, NEW c \in Clients, ReadPump(c) \/ PumpEnds(c)
  PROVE  \A d \in Clients : ChannelMoves(d)
<1>1. client[c].viewing \in Topics \cup {NoTopic}
  BY ClientShape DEF PresenceInv
<1>2. CASE \E type \in {"join", "leave"}, topic \in Topics, viewing, todo \in Topics \cup {NoTopic} :
             Sends(c, type, topic, viewing, todo)
  <2>1. \A d \in Clients : client'[d].send = client[d].send
    BY <1>2, SendsFrame DEF PresenceInv
  <2> QED
    BY <2>1 DEF ChannelMoves
<1>3. CASE UNCHANGED client
  BY <1>3 DEF ChannelMoves
<1>4. CASE Races(c, [NewClient EXCEPT !.state = "gone"])
  <2>1. PICK row : row = [NewClient EXCEPT !.state = "gone"]
    OBVIOUS
  <2>2. row \in ClientRows /\ row.send = <<>>
    BY <2>1, NewRow DEF ClientRows
  <2>3. \A d \in Clients : client'[d].send \in {client[d].send, <<>>}
    BY <1>4, <2>1, <2>2, RacesFrame DEF PresenceInv
  <2> QED
    BY <2>3 DEF ChannelMoves
<1>5. ASSUME ReadPump(c), ~UNCHANGED client
      PROVE  \E type \in {"join", "leave"}, topic \in Topics, viewing, todo \in Topics \cup {NoTopic} :
               Sends(c, type, topic, viewing, todo)
  <2>1. Head(inbox[c]) \in Messages
    BY <1>5, AfterTheFirst DEF ReadPump, PresenceInv, PresenceTyped
  <2> PICK m \in Messages : m = Head(inbox[c])
    BY <2>1
  <2>2. CASE m.type = "join"
    <3>1. m.topic \in Topics
      BY <2>2, MessageShape
    <3>2. \/ client[c].viewing \in Topics /\ Sends(c, "leave", client[c].viewing, NoTopic, m.topic)
          \/ Sends(c, "join", m.topic, m.topic, NoTopic)
      BY <1>1, <1>5, <2>2 DEF ReadPump, LeavesFirst
    <3> QED
      BY <3>1, <3>2
  <2>3. CASE m.type # "join"
    <3>1. client[c].viewing \in Topics /\ Sends(c, "leave", client[c].viewing, NoTopic, NoTopic)
      BY <1>1, <1>5, <2>3 DEF ReadPump
    <3> QED
      BY <3>1
  <2> QED
    BY <2>2, <2>3
<1>6. ASSUME PumpEnds(c), ~Races(c, [NewClient EXCEPT !.state = "gone"])
      PROVE  \E type \in {"join", "leave"}, topic \in Topics, viewing, todo \in Topics \cup {NoTopic} :
               Sends(c, type, topic, viewing, todo)
  <2>1. client[c].viewing \in Topics /\ Sends(c, "leave", client[c].viewing, NoTopic, NoTopic)
    BY <1>1, <1>6 DEF PumpEnds
  <2> QED
    BY <2>1
<1> QED
  BY <1>2, <1>3, <1>4, <1>5, <1>6

LEMMA BroadcastBounded ==
  ASSUME PresenceInv, NEW c \in Clients, BroadcastExcluding(c)
  PROVE  \A d \in Clients : ChannelMoves(d)
<1>1. client[c].pc = "send" /\ client[c].event \in HubEvents
  BY DEF BroadcastExcluding, PresenceInv, PumpsKnow
<1> PICK e \in HubEvents : e = client[c].event
  BY <1>1
<1>2. client'[c].send = client[c].send
  <2>1. client'[c] = IF client[c].todo = NoTopic
                     THEN [client[c] EXCEPT !.pc = IF client[c].event.type = "join" THEN "list" ELSE "read", !.event = <<>>]
                     ELSE [client[c] EXCEPT !.event = EventOf(c, "join", client[c].todo), !.raced = FALSE,
                                            !.viewing = client[c].todo, !.todo = NoTopic]
    BY DEF BroadcastExcluding
  <2> QED
    BY <1>1, <2>1, ToldRow
<1>3. ASSUME NEW d \in Clients, d # c
      PROVE  ChannelMoves(d)
  <2> PICK old \in ClientRows : old = client[d]
    BY DEF PresenceInv, PresenceTyped
  <2> PICK queue : queue = Append(old.send, e)
    OBVIOUS
  <2> PICK row : row = [old EXCEPT !.send = queue]
    OBVIOUS
  <2>1. row.send = queue
    BY DEF ClientRows
  <2>2. client'[d] = client[d] \/ (client'[d] = row /\ client[d].state = "open" /\ ~Full(d))
    BY <1>3 DEF BroadcastExcluding
  <2> QED
    BY <2>1, <2>2 DEF ChannelMoves
<1> QED
  BY <1>2, <1>3 DEF ChannelMoves

LEMMA OtherPumpsBounded ==
  ASSUME PresenceInv, NEW c \in Clients, GetIssueViewers(c) \/ SendToClient(c) \/ WritePump(c)
  PROVE  \A d \in Clients : ChannelMoves(d)
<1>1. client \in [Clients -> ClientRows]
  BY DEF PresenceInv, PresenceTyped
<1> PICK old \in ClientRows : old = client[c]
  BY <1>1
<1>2. ASSUME NEW row, client' = [client EXCEPT ![c] = row], row.send = old.send
      PROVE  \A d \in Clients : ChannelMoves(d)
  BY <1>1, <1>2 DEF ChannelMoves
<1>3. CASE GetIssueViewers(c)
  <2> PICK e : e = [type |-> "sync", topic |-> client[c].viewing,
                    users |-> {client[d].of : d \in {d \in Registered \ {c} : client[d].viewing = client[c].viewing}}]
    OBVIOUS
  <2> PICK row : row = [old EXCEPT !.pc = "sync", !.event = e]
    OBVIOUS
  <2>1. row.send = old.send
    BY DEF ClientRows
  <2>2. client' = [client EXCEPT ![c] = row]
    BY <1>1, <1>3 DEF GetIssueViewers
  <2> QED
    BY <1>2, <2>1, <2>2
<1>4. CASE SendToClient(c)
  <2>1. client[c].event \in HubEvents
    BY <1>4 DEF SendToClient, PresenceInv, PumpsKnow
  <2> PICK e \in HubEvents : e = client[c].event
    BY <2>1
  <2> PICK s : s = IF Full(c) \/ client[c].state # "open" THEN old.send ELSE Append(old.send, e)
    OBVIOUS
  <2> PICK row : row = [old EXCEPT !.pc = "read", !.event = <<>>, !.send = s]
    OBVIOUS
  <2>2. row.send = s
    BY DEF ClientRows
  <2>3. client' = [client EXCEPT ![c] = row]
    BY <1>1, <1>4 DEF SendToClient
  <2>4. s = old.send \/ (~Full(c) /\ s = Append(old.send, e))
    OBVIOUS
  <2> QED
    BY <1>1, <2>2, <2>3, <2>4 DEF ChannelMoves
<1>5. CASE WritePump(c)
  <2> PICK s : s = Tail(old.send)
    OBVIOUS
  <2> PICK row : row = [old EXCEPT !.send = s]
    OBVIOUS
  <2>1. row.send = s
    BY DEF ClientRows
  <2>2. client' = [client EXCEPT ![c] = row] /\ client[c].send # <<>>
    BY <1>1, <1>5 DEF WritePump
  <2> QED
    BY <1>1, <2>1, <2>2 DEF ChannelMoves
<1> QED
  BY <1>3, <1>4, <1>5

LEMMA PresenceBounded ==
  ASSUME PresenceInv, PresenceBounds, PresenceNext
  PROVE  PresenceBounds'
<1>1. CASE \E c \in Clients : ReadPump(c) \/ PumpEnds(c) \/ BroadcastExcluding(c) \/ GetIssueViewers(c)
                              \/ SendToClient(c) \/ WritePump(c)
  <2>1. \A d \in Clients : ChannelMoves(d)
    BY <1>1, ReadPumpBounded, BroadcastBounded, OtherPumpsBounded
  <2>2. moves' = moves
    BY <1>1 DEF ReadPump, PumpEnds, BroadcastExcluding, GetIssueViewers, SendToClient, WritePump
  <2> QED
    BY <2>1, <2>2, ChannelsHold DEF PresenceBounds
<1>2. CASE HubDies
  <2> PICK row : row = [NewClient EXCEPT !.state = "gone"]
    OBVIOUS
  <2>1. row.send = <<>>
    BY NewRow DEF ClientRows
  <2>2. \A d \in Clients : client'[d] \in {client[d], row}
    BY <1>2 DEF HubDies
  <2>3. \A d \in Clients : ChannelMoves(d)
    BY <2>1, <2>2 DEF ChannelMoves
  <2>4. moves' = moves
    BY <1>2 DEF HubDies
  <2> QED
    BY <2>3, <2>4, ChannelsHold DEF PresenceBounds
<1> QED
  BY <1>1, <1>2, PagesBounded DEF PresenceNext

LEMMA PresenceBoundsStart == PresenceInit => PresenceBounds
<1> SUFFICES ASSUME PresenceInit PROVE PresenceBounds
  OBVIOUS
<1>1. \A c \in Clients : Len(client[c].send) <= Buffer
  <2>1. \A s : s = <<>> => Len(s) = 0
    BY EmptySeq
  <2> QED
    BY <2>1, PresenceStarts, PresenceAssumption
<1>2. moves = [p \in Pages |-> 0]
  BY Zenon DEF PresenceInit
<1>3. moves \in [Pages -> 0 .. MaxMoves]
  BY <1>2, PresenceAssumption
<1> QED
  BY <1>1, <1>3 DEF PresenceBounds

LEMMA PresenceIsTyped == AppSpec => []PresenceTypeOK
<1>1. PresenceInv /\ PresenceBounds /\ [AppNext]_app => PresenceBounds'
  <2> SUFFICES ASSUME PresenceInv, PresenceBounds, [AppNext]_app PROVE PresenceBounds'
    OBVIOUS
  <2>1. CASE UNCHANGED presence
    BY <2>1 DEF presence, PresenceBounds
  <2> QED
    BY <2>1, PresenceBounded DEF AppNext, app
<1>2. PresenceInv /\ PresenceBounds => PresenceTypeOK
  <2> SUFFICES ASSUME PresenceInv, PresenceBounds PROVE PresenceTypeOK
    OBVIOUS
  <2>1. ASSUME NEW c \in Clients
        PROVE  /\ client[c].state \in {"unused", "open", "closed", "gone"} /\ client[c].of \in Pages
               /\ client[c].viewing \in Topics \cup {NoTopic} /\ client[c].todo \in Topics \cup {NoTopic}
               /\ client[c].pc \in {"read", "send", "list", "sync"} /\ client[c].raced \in BOOLEAN
               /\ client[c].send \in Seq(HubEvents) /\ client[c].event \in HubEvents \cup {<<>>}
               /\ inbox[c] \in Seq(Messages)
    BY DEF PresenceInv, PresenceTyped, ClientRows
  <2> QED
    BY <2>1 DEF PresenceTypeOK, PresenceInv, PresenceTyped, PageRows, PresenceBounds
<1>3. AppInit => PresenceBounds
  BY PresenceBoundsStart DEF AppInit
<1> QED
  BY <1>1, <1>2, <1>3, PresenceInvariant, PTL DEF AppSpec

NewsBounds == newsGiven \in 0 .. MaxNews /\ acts \in 0 .. MaxActs

LEMMA NewsBounded ==
  ASSUME NewsBounds, NotificationsNext
  PROVE  NewsBounds'
<1>1. /\ newsGiven' = newsGiven \/ (newsGiven < MaxNews /\ newsGiven' = newsGiven + 1)
      /\ acts' = acts \/ (acts < MaxActs /\ acts' = acts + 1)
  <2>1. CASE \E a \in People : \/ \E mentioned \in {{}, People} : UpdateIssue(a, mentioned) \/ CommentOnIssue(a, mentioned)
                               \/ \E u \in People : AssignIssue(a, u)
                               \/ ChangeCycle(a)
    BY <2>1 DEF UpdateIssue, CommentOnIssue, AssignIssue, ChangeCycle, Announces
  <2>2. CASE \E a \in People : TellOne(a) \/ RefreshNotice(a) \/ CreateNotice(a)
    BY <2>2 DEF TellOne, RefreshNotice, CreateNotice, TellerGoes
  <2>3. CASE WindowPasses \/ \E u \in People : \/ ToggleSubscription(u) \/ WriteNotice(u) \/ MarkAllRead(u)
                                              \/ \E n \in NoticeIds : ActOn(u, n)
    BY <2>3 DEF WindowPasses, ToggleSubscription, WriteNotice, MarkAllRead, ActOn, Acts
  <2> QED
    BY <2>1, <2>2, <2>3 DEF NotificationsNext
<1> QED
  BY <1>1, NotificationsAssumption DEF NewsBounds

LEMMA NotificationsAreTyped == AppSpec => []NotificationsTypeOK
<1>1. AppInit => NewsBounds
  BY NotificationsAssumption DEF AppInit, NotificationsInit, NewsBounds
<1>2. NewsBounds /\ [AppNext]_app => NewsBounds'
  <2> SUFFICES ASSUME NewsBounds, [AppNext]_app PROVE NewsBounds'
    OBVIOUS
  <2>1. CASE UNCHANGED notifications
    BY <2>1 DEF notifications, NewsBounds
  <2> QED
    BY <2>1, NewsBounded DEF AppNext, app
<1>3. NewsInv /\ Concerned /\ NewsBounds => NotificationsTypeOK
  BY DEF NewsInv, NoticesTyped, TellersTyped, ReadersTyped, Concerned, NewsBounds, NotificationsTypeOK, Tidings
<1> QED
  BY <1>1, <1>2, <1>3, NewsInvariant, PTL DEF AppSpec
=============================================================================
