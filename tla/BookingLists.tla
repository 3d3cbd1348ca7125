---------------------------- MODULE BookingLists ----------------------------
(***************************************************************************)
(* The two lists of bookings over the write path of BookingService: the    *)
(* administrator's, cut into pages by LIMIT and OFFSET, and a user's own.  *)
(* Each is one SELECT, that is one reading of the committed rows; a client *)
(* that walks through the pages makes one request after the other while    *)
(* bookings are made and cancelled.                                        *)
(*                                                                         *)
(* created_at is the time of the BEGIN of the transaction that inserts the *)
(* row, to the microsecond, in which no two are equal: here its number     *)
(* among them.  The rows of Archive are older than every request.          *)
(***************************************************************************)
EXTENDS BookingService, Integers

CONSTANTS ArchivedAt,  \* ArchivedAt[b]: created_at of the older booking b
          PageSizes,   \* sizes the administrator may ask for, up to maxPageSize
          MaxPage      \* maxPage

Archive == DOMAIN ArchivedAt

ASSUME PageAssumption == /\ PageSizes \subseteq Nat \ {0}
                         /\ MaxPage \in Nat \ {0}

ASSUME ArchiveAssumption ==
    /\ IsFiniteSet(Archive) /\ Archive \cap Requests = {}
    /\ \A b \in Archive : ArchivedAt[b] \in Int /\ ArchivedAt[b] < 0
    /\ \A a, b \in Archive : ArchivedAt[a] = ArchivedAt[b] => a = b

VARIABLES begins,     \* how many transactions of creations have begun
          createdAt,  \* createdAt[r]: which of them was r's, 0 before it
          walk        \* the administrator's walk through the pages

stamps == <<begins, createdAt>>
listVars == <<vars, stamps, walk>>

AllRows == {b \in Requests : Exists(b)} \cup Archive

(***************************************************************************)
(* ListBookings.                                                           *)
(***************************************************************************)
CreatedAt(b) == IF b \in Archive THEN ArchivedAt[b] ELSE createdAt[b]

\* ORDER BY created_at DESC: the place of row b, from 1.
Place(b) == Cardinality({c \in AllRows : CreatedAt(c) >= CreatedAt(b)})

\* Defect: OFFSET page * pageSize, pages counted from 0.
OffsetOfZeroBased(page, size) == page * size

Offset(page, size) == (page - 1) * size

\* LIMIT and OFFSET.
Page(page, size) ==
    {b \in AllRows : Place(b) \in Offset(page, size) + 1 .. Offset(page, size) + size}

\* COUNT(*) OVER() comes with the rows: of a page past the end there is none.
Total(page, size) == IF Page(page, size) = {} THEN 0 ELSE Cardinality(AllRows)

(***************************************************************************)
(* ListUserBookings.                                                       *)
(***************************************************************************)

\* Defect: the status is not compared.
MineWhateverStatus(u, b) == Exists(b) /\ bookings[b].user = u

Mine(u, b) == IsActive(b) /\ bookings[b].user = u

\* A booking on the list of its user: start_at >= NOW().
UserList(u) == {b \in Requests : Mine(u, b) /\ StartAt[bookings[b].slot] >= now}

(***************************************************************************)
(* The walk: pages 1, 2, ... until page * size reaches the last total.     *)
(***************************************************************************)
\* A client that has not begun.
Idle == [page |-> 0, size |-> 1, seen |-> {}, due |-> {}]

StartWalk ==
    /\ walk = Idle
    /\ \E size \in PageSizes : walk' = [Idle EXCEPT !.page = 1, !.size = size, !.due = AllRows]
    /\ UNCHANGED <<vars, stamps>>

\* The next page, unless parsePagination refuses it: the walk ends without
\* having ended well.
NextPage ==
    /\ walk.page \in 1 .. MaxPage
    /\ FreeConn
    /\ walk' = [walk EXCEPT
          !.seen = @ \cup Page(walk.page, walk.size),
          !.page = IF @ * walk.size < Total(@, walk.size) THEN @ + 1 ELSE MaxPage + 2]
    /\ UNCHANGED <<vars, stamps>>

WalkEnded == walk.page = MaxPage + 2

(***************************************************************************)
(* The write path under the lists.                                         *)
(***************************************************************************)
ListInit == /\ Init
            /\ begins = 0 /\ createdAt = [r \in Requests |-> 0]
            /\ walk = Idle

\* The transaction of a creation begins.
BeginsCreation(r) == pc[r] = "begin" /\ pc'[r] = "insert"

Write ==
    /\ Next
    /\ \/ /\ ~ \E r \in Requests : BeginsCreation(r)
          /\ UNCHANGED stamps
       \/ \E r \in Requests :
             /\ BeginsCreation(r)
             /\ begins' = begins + 1
             /\ createdAt' = [createdAt EXCEPT ![r] = begins']
    /\ UNCHANGED walk

ListNext == Write \/ StartWalk \/ NextPage

ListSpec ==
    /\ ListInit
    /\ [][ListNext]_listVars
    /\ \A r \in Requests : WF_vars(Step(r) \/ Resolve(r))

(***************************************************************************)
(* Properties.                                                             *)
(***************************************************************************)

\* Who walks through the pages until the last total is reached has seen every
\* booking there was when the walk began, however many are made and cancelled
\* between two pages and in whatever order they commit: rows never leave the
\* list, so a new one only pushes others to later pages, and the total of the
\* same statement tells that there is one page more.  Whatever the client
\* was shown is committed, and stays so.
WalkSeesAll ==
    /\ walk.seen \subseteq AllRows
    /\ WalkEnded => walk.due \subseteq walk.seen

\* A booking is on the list of its user, and on nobody else's, from the 201
\* until its slot begins, unless somebody has asked to cancel it; what was
\* answered as cancelled is on no list any more.
ListsMatchAnswers ==
    \A r \in Requests, u \in Users : pc[r] = "done" =>
        /\ /\ reply[r].code = 201
           /\ StartAt[req[r].slot] >= now
           /\ \A q \in Requests : req[q] = None \/ req[q].booking # r
           => (r \in UserList(u) <=> u = req[r].user)
        /\ reply[r].code = 200 => req[r].booking \notin UserList(u)
=============================================================================
