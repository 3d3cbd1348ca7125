---------------------------- MODULE Reconnection ----------------------------
(***************************************************************************)
(* A client that (re)connects: it opens a stream of NotificationHub, waits *)
(* for its greeting and then asks GET /notifications?unread_only=true for  *)
(* what it may have missed, while the consumer goroutine stores            *)
(* notifications and, in a step of its own, broadcasts each of them.       *)
(*                                                                         *)
(* The list is one SELECT: the newest ListLimit rows of the user (limit is *)
(* 20 unless the client says otherwise, 100 at most, and offset is 0).     *)
(* created_at is the service's clock when the consumer goroutine, the only *)
(* one to insert, handles the event: rows are taken to be created in the   *)
(* order of their INSERTs.                                                 *)
(***************************************************************************)
EXTENDS NotificationHub

CONSTANT ListLimit  \* limit of GET /notifications

ASSUME ListAssumption == ListLimit \in Nat \ {0}

VARIABLES rows,     \* table notifications, in the order of the INSERTs
          read,     \* the rows with is_read = true
          pending,  \* the consumer has inserted the last row and not broadcast it
          asked,    \* the open streams whose clients have a list
          listed    \* listed[s]: the rows on the list of the client of stream s

inboxVars == <<rows, read, pending, asked, listed>>

InboxInit ==
    /\ Init
    /\ rows = <<>>
    /\ read = {}
    /\ pending = FALSE
    /\ asked = {}
    /\ listed = [s \in Streams |-> {}]

\* The INSERT of CreateFromEvent, when the broadcast before it is over.
Insert(u) ==
    /\ ~pending /\ targets = {}
    /\ Len(rows) < MaxNotes
    /\ rows' = Append(rows, [user |-> u, note |-> 0])
    /\ pending' = TRUE
    /\ UNCHANGED <<vars, read, asked, listed>>

BroadcastInserted ==
    /\ pending
    /\ Broadcast(rows[Len(rows)].user)
    /\ rows' = [rows EXCEPT ![Len(rows)].note = Len(noteUser')]
    /\ pending' = FALSE
    /\ UNCHANGED <<read, asked, listed>>

\* WHERE user_id = u AND is_read = false.
Unread(u) == {i \in 1 .. Len(rows) \ read : rows[i].user = u}

\* The user, in this client or another, marks a notification as read, or all.
MarkAsRead(u) ==
    /\ \E marked \in {{i} : i \in Unread(u)} \cup {Unread(u)} : read' = read \cup marked
    /\ UNCHANGED <<vars, rows, pending, asked, listed>>

\* ORDER BY created_at DESC LIMIT: all unread rows of u, or the newest ListLimit.
Pages(u) ==
    {page \in SUBSET Unread(u) :
        /\ \/ Cardinality(page) = ListLimit
           \/ Cardinality(page) < ListLimit /\ page = Unread(u)
        /\ \A i \in Unread(u) \ page, j \in page : i < j}

\* Defect: the greeting is written before Subscribe.
ConnectedEarly(s) == pc[s] \in {"subscribe", "greet", "open", "write"}

\* The client has received "event: connected", and its stream is open.
Connected(s) == pc[s] \in {"open", "write"}

\* ListByUserID for a client that is connected, at any time and again.
List(s) ==
    /\ Connected(s)
    /\ asked' = asked \cup {s}
    /\ \E page \in Pages(user[s]) : listed' = [listed EXCEPT ![s] = page]
    /\ UNCHANGED <<vars, rows, read, pending>>

\* The steps of tokens and streams; the list of a stream that ends matters no more.
ServeStreams ==
    /\ Serve
    /\ asked' = {s \in asked : pc'[s] # "leave"}
    /\ listed' = [s \in Streams |-> IF s \in asked' THEN listed[s] ELSE {}]
    /\ UNCHANGED <<rows, read, pending>>

\* The process ends: the row of an unfinished event stays, and is not broadcast.
EndProcess ==
    /\ Restart
    /\ pending' = FALSE
    /\ asked' = {}
    /\ listed' = [s \in Streams |-> {}]
    /\ UNCHANGED <<rows, read>>

InboxNext ==
    \/ \E u \in Users : Insert(u) \/ MarkAsRead(u)
    \/ BroadcastInserted
    \/ \E s \in Streams : List(s)
    \/ ServeStreams
    \/ EndProcess

InboxSpec == InboxInit /\ [][InboxNext]_<<vars, inboxVars>>

(***************************************************************************)
(* Property.                                                               *)
(***************************************************************************)
\* Notification n has reached the stream: written, on its way, or refused by its
\* full channel.
Reached(n, s) ==
    \/ n \in Shown(s) \cup InChannel(s) \cup {writing[s]} \cup dropped[s]
    \/ n = Len(noteUser) /\ s \in targets

\* Row i of the user is older than everything on the list, which has no room for it.
BehindFullPage(i, s) ==
    /\ Cardinality(listed[s]) = ListLimit
    /\ \A j \in listed[s] : i < j

\* TASK_EXTENDED.md:191: a client that reconnects finds what it missed in the
\* list.  Between the list and the stream there is no gap: every unread row of
\* the user is on the list, has reached the stream, or is about to be broadcast,
\* also the row a crash left without a broadcast.  What the list leaves out
\* otherwise is what its limit leaves out: older rows, behind a full page.
NothingMissed ==
    \A s \in asked : pc[s] \in {"open", "write"} =>
        \A i \in Unread(user[s]) \ listed[s] :
            \/ rows[i].note # 0 /\ Reached(rows[i].note, s)
            \/ pending /\ i = Len(rows)
            \/ BehindFullPage(i, s)
=============================================================================
