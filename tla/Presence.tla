------------------------------ MODULE Presence ------------------------------
(****************************************************************************)
(* Who is looking at an issue.  Each page of the web interface has a socket *)
(* to the hub, whose read pump handles the messages of the page one by one  *)
(* and sends events to the buffers of the others.  The hub iterates over    *)
(* its map of clients after it has released the lock.                       *)
(****************************************************************************)
EXTENDS Naturals, FiniteSets, Sequences

CONSTANTS Pages,      \* one page of each of these users
          Topics,     \* issues they look at
          Clients,    \* bound: connections ever made
          NoTopic, NoClient,
          Buffer,     \* capacity of the send channel of a client
          MaxMoves    \* bound on what users and their networks do

ASSUME PresenceAssumption ==
  /\ NoTopic \notin Topics /\ NoClient \notin Clients
  /\ Pages # {} /\ Topics # {}
  /\ \E f \in [Pages -> Clients] : \A p, q \in Pages : f[p] = f[q] => p = q
  /\ Buffer \in Nat \ {0} /\ MaxMoves \in Nat \ {0}

VARIABLES
  page,       \* the presence state of each page, and its socket
  client,     \* Client: whether it is in the map, its issue, its channel and its read pump
  inbox,      \* messages on their way from the page of a client
  moves,      \* what users and their networks did so far
  excused     \* an event was dropped, or what a pump does met another change

presence == <<page, client, inbox, moves, excused>>

Messages == [type : {"join"}, topic : Topics] \cup [type : {"leave"}, topic : {NoTopic}]
HubEvents == [type : {"join", "leave"}, topic : Topics, users : SUBSET Pages]
          \cup [type : {"sync"}, topic : Topics, users : SUBSET Pages]

\* todo: the topic that is joined once the one before has been left.
NewClient == [state |-> "unused", of |-> CHOOSE p \in Pages : TRUE, viewing |-> NoTopic, send |-> <<>>,
              pc |-> "read", event |-> <<>>, todo |-> NoTopic, raced |-> FALSE]

PresenceTypeOK ==
  /\ page \in [Pages -> [topic : Topics \cup {NoTopic}, socket : Clients \cup {NoClient}, viewers : SUBSET Pages]]
  /\ \A c \in Clients :
       /\ client[c].state \in {"unused", "open", "closed", "gone"} /\ client[c].of \in Pages
       /\ client[c].viewing \in Topics \cup {NoTopic} /\ client[c].todo \in Topics \cup {NoTopic}
       /\ client[c].pc \in {"read", "send", "list", "sync"} /\ client[c].raced \in BOOLEAN
       /\ client[c].send \in Seq(HubEvents) /\ Len(client[c].send) <= Buffer
       /\ client[c].event \in HubEvents \cup {<<>>}
       /\ inbox[c] \in Seq(Messages)
  /\ moves \in [Pages -> 0 .. MaxMoves] /\ excused \in BOOLEAN

Wanderer == CHOOSE p \in Pages : TRUE
SomeTopic == CHOOSE i \in Topics : TRUE

\* Every page has its first socket, and one page is looking for an issue while
\* the others look at the same one.
PresenceInit ==
  LET first == CHOOSE f \in [Pages -> Clients] : \A p, q \in Pages : f[p] = f[q] => p = q
      topic == [p \in Pages |-> IF p = Wanderer THEN NoTopic ELSE SomeTopic] IN
  /\ page = [p \in Pages |-> [topic |-> topic[p], socket |-> first[p], viewers |-> IF p = Wanderer THEN {} ELSE Pages \ {p, Wanderer}]]
  /\ client = [c \in Clients |->
       IF \E p \in Pages : first[p] = c
       THEN LET p == CHOOSE p \in Pages : first[p] = c IN [NewClient EXCEPT !.state = "open", !.of = p, !.viewing = topic[p]]
       ELSE NewClient]
  /\ inbox = [c \in Clients |-> <<>>]
  /\ moves = [p \in Pages |-> 0] /\ excused = FALSE

Registered == {c \in Clients : client[c].state \in {"open", "closed"}}

-----------------------------------------------------------------------------
(* Pages *)

Tells(p, type, topic) ==
  inbox' = [c \in Clients |-> IF c = page[p].socket THEN Append(inbox[c], [type |-> type, topic |-> topic]) ELSE inbox[c]]

\* Bound: one page moves about and loses its socket, which counts as two moves,
\* the others move once; and nobody moves after an exception.
PageMoves(p, n) ==
  /\ ~excused
  /\ moves[p] + n <= IF p = Wanderer THEN MaxMoves ELSE 1
  /\ moves' = [moves EXCEPT ![p] = @ + n]

\* PresenceState.join and leave; nothing is sent without an open socket.
OpenTopic(p, i) ==
  /\ PageMoves(p, 1) /\ page[p].topic # i
  /\ page' = [page EXCEPT ![p].topic = i, ![p].viewers = {}]
  /\ Tells(p, "join", i)
  /\ UNCHANGED <<client, excused>>

LeaveTopic(p) ==
  /\ PageMoves(p, 1) /\ page[p].topic # NoTopic
  /\ page' = [page EXCEPT ![p].topic = NoTopic, ![p].viewers = {}]
  /\ Tells(p, "leave", NoTopic)
  /\ UNCHANGED <<client, excused>>

\* A change of the map under a pump that iterates over it.
Races(c, row) == client' = [d \in Clients |-> IF d = c THEN row ELSE [client[d] EXCEPT !.raced = @ \/ client[d].pc = "send"]]

\* The socket opens, Register runs, and an issue that is open is joined again.
OpenSocket(p, c) ==
  /\ page[p].socket = NoClient /\ client[c].state = "unused"
  /\ Races(c, [NewClient EXCEPT !.state = "open", !.of = p])
  /\ page' = [page EXCEPT ![p].socket = c, ![p].viewers = IF page[p].topic = NoTopic THEN @ ELSE {}]
  /\ inbox' = [inbox EXCEPT ![c] = IF page[p].topic = NoTopic THEN <<>> ELSE <<[type |-> "join", topic |-> page[p].topic]>>]
  /\ UNCHANGED <<moves, excused>>

\* It closes, and nothing reads its channel any more; what is on its way to the
\* hub may be lost.
CloseSocket(p) ==
  /\ page[p].socket # NoClient /\ p = Wanderer
  /\ client' = [client EXCEPT ![page[p].socket].state = "closed", ![page[p].socket].send = <<>>]
  /\ page' = [page EXCEPT ![p].socket = NoClient]
  /\ \E kept \in {<<>>, inbox[page[p].socket]} : inbox' = [inbox EXCEPT ![page[p].socket] = kept]
  /\ PageMoves(p, 2) /\ UNCHANGED excused

\* handleJoin, handleLeave and handleSync, of the issue that is open.
Shown(p, e) ==
  IF e.topic # page[p].topic THEN page[p].viewers
  ELSE CASE e.type = "join" -> page[p].viewers \cup e.users
         [] e.type = "leave" -> page[p].viewers \ e.users
         [] e.type = "sync" -> e.users

WritePump(c) ==
  /\ client[c].state = "open" /\ client[c].send # <<>>
  /\ LET p == client[c].of IN page' = [page EXCEPT ![p].viewers = Shown(p, Head(client[c].send))]
  /\ client' = [client EXCEPT ![c].send = Tail(@)]
  /\ UNCHANGED <<inbox, moves, excused>>

\* removeStale: nobody is shown for longer than 15 seconds without a focus event.
RemoveStale(p) ==
  /\ PageMoves(p, 1)
  /\ \E q \in page[p].viewers : page' = [page EXCEPT ![p].viewers = @ \ {q}]
  /\ UNCHANGED <<client, inbox, excused>>

-----------------------------------------------------------------------------
(* The read pump of a client *)

EventOf(c, type, topic) == [type |-> type, topic |-> topic, users |-> {client[c].of}]

Sends(c, type, topic, viewing, todo) ==
  client' = [client EXCEPT ![c].pc = "send", ![c].event = EventOf(c, type, topic), ![c].raced = FALSE,
                           ![c].viewing = viewing, ![c].todo = todo]

\* Mutant: the issue before is not left.
StaysIn(c, i) == FALSE

LeavesFirst(c, i) == client[c].viewing \notin {NoTopic, i}

\* handlePresenceJoin and handlePresenceLeave, up to the broadcast.
ReadPump(c) ==
  /\ client[c].pc = "read" /\ client[c].state \in {"open", "closed"} /\ inbox[c] # <<>>
  /\ inbox' = [inbox EXCEPT ![c] = Tail(@)]
  /\ LET m == Head(inbox[c]) IN
     IF m.type = "join"
     THEN IF LeavesFirst(c, m.topic) THEN Sends(c, "leave", client[c].viewing, NoTopic, m.topic)
          ELSE Sends(c, "join", m.topic, m.topic, NoTopic)
     ELSE IF client[c].viewing # NoTopic THEN Sends(c, "leave", client[c].viewing, NoTopic, NoTopic)
          ELSE UNCHANGED client
  /\ UNCHANGED <<page, moves, excused>>

\* The page is gone: the deferred handlePresenceLeave, and then Unregister.
PumpEnds(c) ==
  /\ client[c].pc = "read" /\ client[c].state = "closed" /\ inbox[c] = <<>>
  /\ IF client[c].viewing # NoTopic
     THEN Sends(c, "leave", client[c].viewing, NoTopic, NoTopic)
     ELSE Races(c, [NewClient EXCEPT !.state = "gone"])
  /\ UNCHANGED <<page, inbox, moves, excused>>

\* Mutant: one event more than the channel holds.
PastFull(d) == Len(client[d].send) > Buffer

Full(d) == Len(client[d].send) = Buffer

\* BroadcastExcluding: a full buffer drops the event; a map that has changed
\* yields any of its clients.
BroadcastExcluding(c) ==
  /\ client[c].pc = "send"
  /\ LET e == client[c].event
         others == {d \in Clients \ {c} : client[d].state = "open"}
         full == {d \in others : Full(d)}
         next == IF e.type = "join" THEN "list" ELSE "read" IN
     /\ \E reached \in IF client[c].raced THEN SUBSET others ELSE {others} :
          /\ excused' = (excused \/ reached # others \/ reached \cap full # {}
                         \/ \E d \in others : client[d].pc = "sync" /\ e.type = "leave")
          /\ client' = [d \in Clients |->
               IF d = c THEN IF client[c].todo = NoTopic THEN [client[c] EXCEPT !.pc = next, !.event = <<>>]
                             ELSE [client[c] EXCEPT !.event = EventOf(c, "join", client[c].todo), !.raced = FALSE,
                                                    !.viewing = client[c].todo, !.todo = NoTopic]
               ELSE IF d \in reached \ full THEN [client[d] EXCEPT !.send = Append(@, e)] ELSE client[d]]
  /\ UNCHANGED <<page, inbox, moves>>

\* Writing to a map under iteration is fatal: the server dies and starts again.
HubDies ==
  /\ \E c \in Clients : client[c].pc = "send" /\ client[c].raced
  /\ client' = [c \in Clients |-> IF client[c].state = "unused" THEN client[c] ELSE [NewClient EXCEPT !.state = "gone"]]
  /\ inbox' = [c \in Clients |-> <<>>]
  /\ page' = [p \in Pages |-> [page[p] EXCEPT !.socket = NoClient]]
  /\ UNCHANGED <<moves, excused>>

\* GetIssueViewers, and the sync that is sent in a later step.
GetIssueViewers(c) ==
  /\ client[c].pc = "list"
  /\ client' = [client EXCEPT ![c].pc = "sync", ![c].event =
       [type |-> "sync", topic |-> client[c].viewing,
        users |-> {client[d].of : d \in {d \in Registered \ {c} : client[d].viewing = client[c].viewing}}]]
  /\ UNCHANGED <<page, inbox, moves, excused>>

SendToClient(c) ==
  /\ client[c].pc = "sync"
  /\ LET open == client[c].state = "open"
         full == Full(c) IN
     /\ excused' = (excused \/ full)
     /\ client' = [client EXCEPT ![c].pc = "read", ![c].event = <<>>,
                                 ![c].send = IF full \/ ~open THEN @ ELSE Append(@, client[c].event)]
  /\ UNCHANGED <<page, inbox, moves>>

PresenceNext ==
  \/ \E p \in Pages : \/ \E i \in Topics : OpenTopic(p, i)
                      \/ LeaveTopic(p) \/ CloseSocket(p) \/ RemoveStale(p)
                      \/ \E c \in Clients : OpenSocket(p, c)
  \/ \E c \in Clients : ReadPump(c) \/ PumpEnds(c) \/ BroadcastExcluding(c) \/ GetIssueViewers(c)
                        \/ SendToClient(c) \/ WritePump(c)
  \/ HubDies

-----------------------------------------------------------------------------
(* Properties *)

Quiet == \A c \in Registered : client[c].state = "open" /\ client[c].pc = "read" /\ client[c].send = <<>> /\ inbox[c] = <<>>

\* Once everything has been handled, no page that is connected shows a viewer
\* who looks at something else, however often users went from issue to issue,
\* lost their socket or overtook each other; the exceptions are a full buffer,
\* a change of the map under iteration, and a leave between the list of
\* viewers and the sync that carries it.
NoGhostViewers ==
  Quiet /\ ~excused => \A p \in Pages : page[p].socket # NoClient =>
    \A q \in page[p].viewers : page[q].topic = page[p].topic
=============================================================================
