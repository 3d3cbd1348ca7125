------------------------- MODULE BookingListsProofs -------------------------
(***************************************************************************)
(* Proofs about BookingLists for any requests, older bookings, page sizes  *)
(* and number of pages.                                                    *)
(*                                                                         *)
(* Rows never leave the list and keep their created_at, so that the place  *)
(* of a row only grows: a row a walk has yet to see is never on a page     *)
(* behind it.  That the last total ends the walk in time needs that places *)
(* are contiguous: a page is empty only when it is past the last row.      *)
(*                                                                         *)
(* That the lists of the users agree with the answers follows from what is *)
(* proved of the write path, and from the fact that only a request that    *)
(* asks for it cancels a booking.                                          *)
(***************************************************************************)
EXTENDS BookingLists, BookingServiceProofs, FiniteSetTheorems

\* Types of the stamps and of the walk.
ListTypes ==
    /\ begins \in Nat
    /\ createdAt \in [Requests -> Nat]
    /\ walk \in [page : Nat, size : Nat \ {0}, seen : SUBSET AllRows, due : SUBSET AllRows]
    /\ IsFiniteSet(AllRows)

\* Is r past the BEGIN of its creation?
Stamped(r) == pc[r] = "insert" \/ Inserting(r) \/ Exists(r)

\* Each creation has a BEGIN of its own, before it has a row.
Stamps ==
    /\ \A r \in Requests : createdAt[r] <= begins
    /\ \A r, q \in Requests : createdAt[r] # 0 /\ createdAt[r] = createdAt[q] => r = q
    /\ \A r \in Requests : Stamped(r) => createdAt[r] # 0

\* What a walk has yet to see is on the pages before it.
Ahead == walk.page \in 1 .. MaxPage + 1 =>
    \A b \in walk.due \ walk.seen : Place(b) > Offset(walk.page, walk.size)

ListInv == ListTypes /\ Stamps /\ Ahead /\ WalkSeesAll

-----------------------------------------------------------------------------
(***************************************************************************)
(* The order of the rows.                                                  *)
(***************************************************************************)

\* The rows from the latest one to row b.
Before(b) == {c \in AllRows : CreatedAt(c) >= CreatedAt(b)}

\* The rows of a table have times, and no two the same.
Ordered ==
    /\ \A b \in AllRows : CreatedAt(b) \in Int
    /\ \A a, b \in AllRows : CreatedAt(a) = CreatedAt(b) => a = b

\* Stamps order the rows.
LEMMA RowsAreOrdered ==
    ASSUME ListTypes, Stamps
    PROVE  Ordered
<1>1. ASSUME NEW b \in Archive
      PROVE  CreatedAt(b) \in Int /\ CreatedAt(b) < 0
  BY <1>1, ArchiveAssumption DEF CreatedAt
<1>2. ASSUME NEW b \in Requests, Exists(b)
      PROVE  CreatedAt(b) = createdAt[b] /\ createdAt[b] \in Nat /\ createdAt[b] # 0
  BY <1>2, ArchiveAssumption DEF CreatedAt, ListTypes, Stamps, Stamped
<1>3. \A b \in AllRows : CreatedAt(b) \in Int
  BY <1>1, <1>2 DEF AllRows
<1>4. ASSUME NEW a \in AllRows, NEW b \in AllRows, CreatedAt(a) = CreatedAt(b)
      PROVE  a = b
  <2>1. CASE a \in Archive /\ b \in Archive
    BY <1>4, <2>1, ArchiveAssumption DEF CreatedAt
  <2>2. CASE a \in Requests /\ Exists(a) /\ b \in Requests /\ Exists(b)
    BY <1>2, <1>4, <2>2 DEF Stamps
  <2>3. CASE a \in Archive /\ b \in Requests /\ Exists(b)
    BY <1>1, <1>2, <1>4, <2>3
  <2>4. CASE a \in Requests /\ Exists(a) /\ b \in Archive
    BY <1>1, <1>2, <1>4, <2>4
  <2> QED BY <2>1, <2>2, <2>3, <2>4 DEF AllRows
<1> QED BY <1>3, <1>4 DEF Ordered

\* A place is a number up to that of the rows.
LEMMA PlaceIsNumber ==
    ASSUME IsFiniteSet(AllRows), Ordered, NEW b \in AllRows
    PROVE  /\ IsFiniteSet(Before(b)) /\ b \in Before(b)
           /\ Cardinality(AllRows) \in Nat
           /\ Place(b) \in 1 .. Cardinality(AllRows)
<1>1. Before(b) \subseteq AllRows /\ b \in Before(b)
  BY DEF Before, Ordered
<1>2. IsFiniteSet(Before(b)) /\ Cardinality(Before(b)) <= Cardinality(AllRows)
  BY <1>1, FS_Subset
<1>3. Cardinality(Before(b)) \in Nat /\ Cardinality(AllRows) \in Nat
  BY <1>2, FS_CardinalityType
<1>4. Cardinality(Before(b)) # 0
  BY <1>1, <1>2, FS_EmptySet
<1>5. Place(b) = Cardinality(Before(b))
  BY DEF Place, Before
<1> QED BY <1>1, <1>2, <1>3, <1>4, <1>5

\* No two rows have one place.
LEMMA PlacesDiffer ==
    ASSUME IsFiniteSet(AllRows), Ordered,
           NEW a \in AllRows, NEW b \in AllRows, Place(a) = Place(b)
    PROVE  a = b
<1>1. ASSUME NEW x \in AllRows, NEW y \in AllRows, Place(x) = Place(y),
             CreatedAt(x) <= CreatedAt(y)
      PROVE  x = y
  <2>1. CreatedAt(x) \in Int /\ CreatedAt(y) \in Int
    BY DEF Ordered
  <2>2. ASSUME NEW c \in Before(y)
        PROVE  c \in Before(x)
    <3>1. CreatedAt(c) \in Int /\ c \in AllRows /\ CreatedAt(c) >= CreatedAt(y)
      BY DEF Before, Ordered
    <3> QED BY <1>1, <2>1, <3>1 DEF Before
  <2>3. Cardinality(Before(x)) = Cardinality(Before(y))
    BY <1>1 DEF Place, Before
  <2>4. Before(x) = Before(y)
    BY <2>2, <2>3, PlaceIsNumber, FS_Subset
  <2>5. CreatedAt(x) >= CreatedAt(y)
    BY <2>4, PlaceIsNumber DEF Before
  <2> QED BY <1>1, <2>1, <2>5 DEF Ordered
<1>2. CreatedAt(a) \in Int /\ CreatedAt(b) \in Int
  BY DEF Ordered
<1>3. CreatedAt(a) <= CreatedAt(b) \/ CreatedAt(b) <= CreatedAt(a)
  BY <1>2
<1> QED BY <1>1, <1>3

\* Every place up to the number of rows is that of a row.
LEMMA PlacesAreContiguous ==
    ASSUME IsFiniteSet(AllRows), Ordered, NEW k \in 1 .. Cardinality(AllRows)
    PROVE  \E b \in AllRows : Place(b) = k
<1> DEFINE N == Cardinality(AllRows)
           place == [b \in AllRows |-> Place(b)]
<1>1. N \in Nat
  BY FS_CardinalityType
<1>2. place \in [AllRows -> 1 .. N]
  BY PlaceIsNumber
<1>3. ASSUME NEW a \in AllRows, NEW b \in AllRows, place[a] = place[b]
      PROVE  a = b
  BY <1>3, PlacesDiffer
<1>4. place \in Injection(AllRows, 1 .. N)
  <2> HIDE DEF place
  <2> QED BY <1>2, <1>3 DEF Injection, IsInjective
<1>5. IsFiniteSet(1 .. N) /\ Cardinality(1 .. N) = N
  <2> HIDE DEF N
  <2> QED BY <1>1, FS_Interval
<1>6. place \in Surjection(AllRows, 1 .. N)
  <2> HIDE DEF place
  <2> QED BY <1>4, <1>5, FS_Injection
<1>7. PICK b \in AllRows : place[b] = k
  <2> HIDE DEF place
  <2> QED BY <1>6 DEF Surjection
<1> QED BY <1>7

\* When rows are only added and keep their times, places only grow.
LEMMA PlacesGrow ==
    ASSUME IsFiniteSet(AllRows), IsFiniteSet(AllRows'), Ordered,
           AllRows \subseteq AllRows',
           \A c \in AllRows : CreatedAt(c)' = CreatedAt(c),
           NEW b \in AllRows
    PROVE  /\ Place(b)' >= Place(b)
           /\ Place(b)' \in Int
           /\ Place(b) \in Int
<1>1. Before(b) \subseteq Before(b)'
  BY DEF Before
<1>2. Before(b)' \subseteq AllRows'
  BY DEF Before
<1>3. IsFiniteSet(Before(b)')
  BY <1>2, FS_Subset
<1>4. Cardinality(Before(b)) <= Cardinality(Before(b)')
  BY <1>1, <1>3, FS_Subset
<1>5. Cardinality(Before(b)) \in Nat /\ Cardinality(Before(b)') \in Nat
  BY <1>1, <1>3, FS_Subset, FS_CardinalityType
<1>6. Place(b) = Cardinality(Before(b)) /\ Place(b)' = Cardinality(Before(b)')
  BY DEF Place, Before
<1> QED BY <1>4, <1>5, <1>6

\* The page after a page begins where it ends.
LEMMA NextOffset ==
    ASSUME NEW page \in Nat, NEW size \in Nat
    PROVE  /\ Offset(page, size) + size = Offset(page + 1, size)
           /\ Offset(page + 1, size) = page * size
           /\ Offset(page, size) \in Int /\ page * size \in Nat
BY DEF Offset

-----------------------------------------------------------------------------
(***************************************************************************)
(* Steps of the write path.                                                *)
(***************************************************************************)

\* At most one transaction begins in a step, that of a request without a row.
LEMMA OneBegins ==
    ASSUME Inv, [Next]_vars, NEW r \in Requests, BeginsCreation(r)
    PROVE  /\ ~Exists(r)
           /\ \A q \in Requests : BeginsCreation(q) => q = r
<1>. USE DEF Goto, Answer, Refuse
<1>0. TypeOK /\ RowOf(r)
  BY DEF Inv, Rows
<1>1. ~Exists(r)
  BY <1>0 DEF RowOf, BeginsCreation, Exists
<1>2. ASSUME NEW p \in Requests, NEW step, pc' = [pc EXCEPT ![p] = step],
             NEW q \in Requests, BeginsCreation(q)
      PROVE  q = p
  BY <1>0, <1>2 DEF TypeOK, BeginsCreation
<1>3. \A p \in Requests : (\E step : pc' = [pc EXCEPT ![p] = step]) =>
          \A q \in Requests : BeginsCreation(q) => q = r
  BY <1>2
<1>4. ASSUME NEW p \in Requests,
             \/ Arrive(p) \/ Malformed(p) \/ GetSlot(p) \/ Begin(p) \/ Insert(p)
             \/ Update(p) \/ InsertOutbox(p)
      PROVE  \E step : pc' = [pc EXCEPT ![p] = step]
  BY <1>4 DEF Arrive, Malformed, GetSlot, Begin, Insert, Update, InsertOutbox
<1>5. ASSUME NEW p \in Requests,
             \/ Commit(p) \/ CommitUnacknowledged(p) \/ Resolve(p) \/ Diagnose(p)
             \/ RequestLink(p) \/ UpdateLink(p) \/ LinkFails(p) \/ Fail(p)
      PROVE  \E step : pc' = [pc EXCEPT ![p] = step]
  BY <1>5 DEF Commit, CommitUnacknowledged, Resolve, LateCommit, LateAbort, Diagnose,
     RequestLink, UpdateLink, LinkFails, Fail
<1>6. CASE Crash
  BY <1>6 DEF Crash, InFlight, BeginsCreation
<1>7. CASE Tick \/ Finished \/ UNCHANGED vars
  BY <1>7 DEF Tick, Finished, vars, BeginsCreation
<1>. QED BY <1>1, <1>3, <1>4, <1>5, <1>6, <1>7 DEF Next, Serve, Step

\* Nothing but the BEGIN leads there.
LEMMA StampedByBegin ==
    ASSUME Inv, [Next]_vars, NEW r \in Requests, Stamped(r)'
    PROVE  Stamped(r) \/ BeginsCreation(r)
<1>. USE DEF Goto, Answer, Refuse
<1>0. TypeOK
  BY DEF Inv
<1>1. CASE Exists(r)'
  BY <1>1, NewRow DEF Stamped, Exists
<1>2. ASSUME NEW q \in Requests,
             \/ Arrive(q) \/ Malformed(q) \/ GetSlot(q) \/ Diagnose(q) \/ RequestLink(q)
             \/ CommitUnacknowledged(q)
      PROVE  tx' = tx /\ \E step : step # "insert" /\ pc' = [pc EXCEPT ![q] = step]
  BY <1>2 DEF Arrive, Malformed, GetSlot, Diagnose, RequestLink, CommitUnacknowledged
<1>3. ASSUME NEW q \in Requests,
             \/ Update(q) \/ Commit(q) \/ Resolve(q)
             \/ UpdateLink(q) \/ LinkFails(q) \/ Fail(q)
      PROVE  /\ tx' = [tx EXCEPT ![q] = {}] \/ tx' = [tx EXCEPT ![q] = {"cancel"}]
             /\ \E step : step # "insert" /\ pc' = [pc EXCEPT ![q] = step]
  BY <1>3 DEF Update, Commit, Resolve, LateCommit, LateAbort, UpdateLink, LinkFails, Fail,
     Apply, Close
<1>4. ASSUME NEW q \in Requests,
             tx' = tx \/ tx' = [tx EXCEPT ![q] = {}] \/ tx' = [tx EXCEPT ![q] = {"cancel"}],
             \E step : step # "insert" /\ pc' = [pc EXCEPT ![q] = step],
             ~Exists(r)'
      PROVE  Stamped(r)
  <2>1. pc'[r] = "insert" => pc[r] = "insert"
    BY <1>0, <1>4 DEF TypeOK
  <2>2. Inserting(r)' => Inserting(r)
    BY <1>0, <1>4 DEF TypeOK, Inserting
  <2>. QED BY <1>4, <2>1, <2>2 DEF Stamped
<1>5. ASSUME NEW q \in Requests, Begin(q), ~Exists(r)'
      PROVE  Stamped(r) \/ BeginsCreation(r)
  <2>1. tx' = tx /\ pc[q] = "begin" /\ \E step : pc' = [pc EXCEPT ![q] = step]
    BY <1>5 DEF Begin
  <2>2. pc'[r] = "insert" => pc[r] = "insert" \/ BeginsCreation(r)
    BY <1>0, <2>1 DEF TypeOK, BeginsCreation
  <2>. QED BY <1>5, <2>1, <2>2 DEF Stamped, Inserting
<1>6. ASSUME NEW q \in Requests, Insert(q) \/ InsertOutbox(q), ~Exists(r)'
      PROVE  Stamped(r)
  <2>1. /\ \E step : step # "insert" /\ pc' = [pc EXCEPT ![q] = step]
        /\ \/ pc[q] = "insert"
           \/ tx' = [tx EXCEPT ![q] = @ \cup {"event"}]
        /\ \E t : tx' = [tx EXCEPT ![q] = t]
    BY <1>6 DEF Insert, InsertOutbox, Close
  <2>2. pc'[r] = "insert" => pc[r] = "insert"
    BY <1>0, <2>1 DEF TypeOK
  <2>3. Inserting(r)' => Inserting(r) \/ pc[r] = "insert"
    BY <1>0, <2>1 DEF TypeOK, Inserting
  <2>. QED BY <1>6, <2>2, <2>3 DEF Stamped
<1>7. CASE Crash /\ ~Exists(r)'
  BY <1>7 DEF Crash, InFlight, Stamped, Inserting
<1>8. CASE (Tick \/ Finished \/ UNCHANGED vars) /\ ~Exists(r)'
  BY <1>8 DEF Tick, Finished, vars, Stamped, Inserting
<1>. QED BY <1>1, <1>2, <1>3, <1>4, <1>5, <1>6, <1>7, <1>8 DEF Next, Serve, Step

\* Rows stay on the list, and a step adds at most one.
LEMMA RowsGrow ==
    ASSUME Inv, [Next]_vars, IsFiniteSet(AllRows)
    PROVE  AllRows \subseteq AllRows' /\ IsFiniteSet(AllRows')
<1>1. AllRows \subseteq AllRows'
  BY RowStep DEF AllRows, Exists
<1>2. ASSUME NEW a \in AllRows', a \notin AllRows, NEW b \in AllRows', b \notin AllRows
      PROVE  a = b
  <2>1. /\ a \in Requests /\ bookings[a] = None /\ bookings'[a] # None
        /\ b \in Requests /\ bookings[b] = None /\ bookings'[b] # None
    BY <1>2 DEF AllRows, Exists
  <2>2. (Commit(a) \/ LateCommit(a)) /\ (Commit(b) \/ LateCommit(b))
    BY <2>1, NewRow
  <2>3. pc[b] \in {"commit", "sent"} /\ pc'[b] \notin {"commit", "sent"}
    BY <2>1, <2>2, CommitEffect
  <2>4. a # b => pc'[b] = pc[b]
    BY <2>1, <2>2, CommitEffect
  <2>. QED BY <2>3, <2>4
<1>3. CASE AllRows' = AllRows
  BY <1>3
<1>4. ASSUME NEW b \in AllRows', b \notin AllRows
      PROVE  IsFiniteSet(AllRows')
  <2>1. AllRows' = AllRows \cup {b}
    BY <1>1, <1>2, <1>4
  <2>. QED BY <2>1, FS_AddElement
<1>. QED BY <1>1, <1>3, <1>4

\* Stamps stay, and stay different.
LEMMA StampsKept ==
    ASSUME Inv, ListTypes, Stamps, Write
    PROVE  /\ begins' \in Nat /\ createdAt' \in [Requests -> Nat]
           /\ Stamps'
           /\ \A b \in AllRows : CreatedAt(b)' = CreatedAt(b)
<1>. USE DEF ListTypes
<1>0. Next
  BY DEF Write
<1>1. CASE UNCHANGED stamps /\ ~ \E r \in Requests : BeginsCreation(r)
  <2>1. begins' = begins /\ createdAt' = createdAt
    BY <1>1 DEF stamps
  <2>2. \A r \in Requests : Stamped(r)' => createdAt'[r] # 0
    BY <1>0, <1>1, <2>1, StampedByBegin DEF Stamps
  <2>. QED BY <2>1, <2>2 DEF Stamps, CreatedAt
<1>2. ASSUME NEW r \in Requests, BeginsCreation(r),
             begins' = begins + 1, createdAt' = [createdAt EXCEPT ![r] = begins']
      PROVE  /\ begins' \in Nat /\ createdAt' \in [Requests -> Nat]
             /\ Stamps'
             /\ \A b \in AllRows : CreatedAt(b)' = CreatedAt(b)
  <2>1. /\ begins' \in Nat /\ createdAt' \in [Requests -> Nat]
        /\ createdAt'[r] = begins'
        /\ \A q \in Requests : q # r => createdAt'[q] = createdAt[q]
    BY <1>2
  <2>2. \A q \in Requests : createdAt[q] \in Nat /\ createdAt[q] < begins'
    BY <1>2 DEF Stamps
  <2>3. \A q \in Requests : createdAt'[q] <= begins'
    BY <2>1, <2>2
  <2>4. ASSUME NEW p \in Requests, NEW q \in Requests,
               createdAt'[p] # 0, createdAt'[p] = createdAt'[q]
        PROVE  p = q
    BY <2>1, <2>2, <2>4 DEF Stamps
  <2>5. ASSUME NEW q \in Requests, Stamped(q)'
        PROVE  createdAt'[q] # 0
    <3>1. CASE q = r
      BY <1>2, <2>1, <3>1
    <3>2. CASE q # r
      BY <1>0, <1>2, <2>1, <2>5, <3>2, StampedByBegin, OneBegins DEF Stamps
    <3>. QED BY <3>1, <3>2
  <2>6. r \notin AllRows
    BY <1>0, <1>2, OneBegins, ArchiveAssumption DEF AllRows
  <2>7. \A b \in AllRows : CreatedAt(b)' = CreatedAt(b)
    BY <2>1, <2>6 DEF AllRows, CreatedAt
  <2>. QED BY <2>1, <2>3, <2>4, <2>5, <2>7 DEF Stamps
<1>. QED BY <1>1, <1>2 DEF Write

\* Bookings are made and cancelled under a walk.
LEMMA WriteKeeps ==
    ASSUME Inv, ListInv, Write
    PROVE  ListInv'
<1>1. ListTypes /\ Stamps /\ Ahead /\ WalkSeesAll /\ Ordered
  BY RowsAreOrdered DEF ListInv
<1>2. AllRows \subseteq AllRows' /\ IsFiniteSet(AllRows) /\ IsFiniteSet(AllRows')
  BY <1>1, RowsGrow DEF Write, ListTypes
<1>3. /\ begins' \in Nat /\ createdAt' \in [Requests -> Nat] /\ Stamps'
      /\ \A b \in AllRows : CreatedAt(b)' = CreatedAt(b)
  BY <1>1, StampsKept
<1>4. walk' = walk
  BY DEF Write
<1>5. ListTypes'
  BY <1>1, <1>2, <1>3, <1>4 DEF ListTypes
<1>6. Ahead'
  <2>. SUFFICES ASSUME walk.page \in 1 .. MaxPage + 1, NEW b \in walk.due, b \notin walk.seen
                PROVE  Place(b)' > Offset(walk.page, walk.size)
    BY <1>4 DEF Ahead, Offset
  <2>1. b \in AllRows /\ walk.page \in Nat /\ walk.size \in Nat
    BY <1>1 DEF ListTypes
  <2>2. Place(b) > Offset(walk.page, walk.size)
    BY <1>1 DEF Ahead
  <2>3. Place(b)' >= Place(b) /\ Place(b)' \in Int /\ Place(b) \in Int
    BY <1>1, <1>2, <1>3, <2>1, PlacesGrow
  <2>4. Offset(walk.page, walk.size) \in Int
    BY <2>1, NextOffset
  <2>. QED BY <2>2, <2>3, <2>4
<1>7. WalkSeesAll'
  BY <1>1, <1>2, <1>4 DEF WalkSeesAll, WalkEnded
<1>. QED BY <1>3, <1>5, <1>6, <1>7 DEF ListInv

-----------------------------------------------------------------------------
(***************************************************************************)
(* Steps of the walk.                                                      *)
(***************************************************************************)

\* A step of the walk leaves rows and places alone.
LEMMA OnlyReading ==
    ASSUME UNCHANGED <<vars, stamps>>
    PROVE  /\ AllRows' = AllRows /\ begins' = begins /\ createdAt' = createdAt
           /\ Stamps' <=> Stamps
           /\ \A b : Place(b)' = Place(b)
<1>1. bookings' = bookings /\ pc' = pc /\ tx' = tx /\ begins' = begins /\ createdAt' = createdAt
  BY DEF vars, stamps, tables
<1>. QED BY <1>1 DEF AllRows, Exists, Stamps, Stamped, Inserting, Place, CreatedAt

\* A walk begins: every row is ahead of it.
LEMMA StartWalkKeeps ==
    ASSUME ListInv, StartWalk
    PROVE  ListInv'
<1>0. MaxPage \in Nat
  BY PageAssumption
<1>1. ListTypes /\ Stamps /\ Ordered
  BY RowsAreOrdered DEF ListInv
<1>2. PICK size \in PageSizes :
          walk' = [Idle EXCEPT !.page = 1, !.size = size, !.due = AllRows]
  BY DEF StartWalk
<1>3. walk' = [page |-> 1, size |-> size, seen |-> {}, due |-> AllRows]
  BY <1>2 DEF Idle
<1>4. size \in Nat \ {0}
  BY PageAssumption
<1>5. /\ AllRows' = AllRows /\ begins' = begins /\ createdAt' = createdAt
      /\ Stamps' /\ \A b : Place(b)' = Place(b)
  BY <1>1, OnlyReading DEF StartWalk
<1>6. ListTypes'
  BY <1>1, <1>3, <1>4, <1>5 DEF ListTypes
<1>7. Ahead'
  <2>1. Offset(1, size) = 0
    BY <1>4 DEF Offset
  <2>2. \A b \in AllRows : Place(b) > 0
    BY <1>1, PlaceIsNumber, FS_CardinalityType DEF ListTypes
  <2>. QED BY <1>3, <1>5, <2>1, <2>2 DEF Ahead, Offset
<1>8. WalkSeesAll'
  BY <1>0, <1>3 DEF WalkSeesAll, WalkEnded
<1>. QED BY <1>5, <1>6, <1>7, <1>8 DEF ListInv

\* The last total ends a walk only when no row is left: a page that has rows
\* tells how many there are, and a page without is past the last of them.
LEMMA NothingPastTheTotal ==
    ASSUME ListTypes, Ordered, NEW page \in Nat \ {0}, NEW size \in Nat \ {0},
           page * size >= Total(page, size), NEW b \in AllRows
    PROVE  Place(b) <= page * size
<1>. DEFINE N == Cardinality(AllRows)
<1>1. N \in Nat /\ Place(b) \in Nat /\ Place(b) <= N /\ Place(b) > 0
  BY PlaceIsNumber DEF ListTypes
<1>2. /\ Offset(page, size) \in Nat /\ page * size \in Nat
      /\ Offset(page, size) + size = page * size
  BY DEF Offset
<1>3. CASE Page(page, size) # {}
  BY <1>1, <1>2, <1>3 DEF Total
<1>4. CASE Page(page, size) = {}
  <2>. SUFFICES ASSUME Place(b) > page * size PROVE FALSE
    BY <1>1, <1>2
  <2>1. PICK k \in Int : k = Offset(page, size) + 1
    BY <1>2
  <2>2. k \in 1 .. N
    BY <1>1, <1>2, <2>1
  <2>3. PICK c \in AllRows : Place(c) = k
    BY <2>2, PlacesAreContiguous DEF ListTypes
  <2>4. c \in Page(page, size)
    BY <1>2, <2>1, <2>3 DEF Page
  <2>. QED BY <1>4, <2>4
<1>. QED BY <1>3, <1>4

\* The next page is shown: what it passes by, the client has seen.
LEMMA NextPageKeeps ==
    ASSUME ListInv, NextPage
    PROVE  ListInv'
<1>1. ListTypes /\ Stamps /\ Ahead /\ WalkSeesAll /\ Ordered
  BY RowsAreOrdered DEF ListInv
<1>2. PICK page \in Nat \ {0}, size \in Nat \ {0} : walk.page = page /\ walk.size = size
  BY <1>1 DEF ListTypes, NextPage
<1>3. MaxPage \in Nat /\ page <= MaxPage
  BY <1>2, PageAssumption DEF NextPage
<1>. DEFINE more == page * size < Total(page, size)
            next == IF more THEN page + 1 ELSE MaxPage + 2
<1>4. walk' = [page |-> next, size |-> size,
               seen |-> walk.seen \cup Page(page, size), due |-> walk.due]
  BY <1>1, <1>2 DEF NextPage, ListTypes
<1>5. /\ AllRows' = AllRows /\ begins' = begins /\ createdAt' = createdAt
      /\ Stamps' /\ \A b : Place(b)' = Place(b)
  BY <1>1, OnlyReading DEF NextPage
<1>6. Page(page, size) \subseteq AllRows
  BY DEF Page
<1>7. next \in Nat
  BY <1>3
<1>8. ListTypes'
  <2>. HIDE DEF next
  <2>. QED BY <1>1, <1>4, <1>5, <1>6, <1>7 DEF ListTypes
<1>9. ASSUME NEW b \in walk.due, b \notin walk.seen, b \notin Page(page, size)
      PROVE  b \in AllRows /\ Place(b) \in Int /\ Place(b) > page * size
  <2>1. b \in AllRows
    BY <1>1 DEF ListTypes
  <2>2. Place(b) \in Int
    BY <1>1, <2>1, PlaceIsNumber DEF ListTypes
  <2>3. Place(b) > Offset(page, size)
    BY <1>1, <1>2, <1>3, <1>9 DEF Ahead
  <2>4. Offset(page, size) \in Int /\ Offset(page, size) + size = page * size
    BY DEF Offset
  <2>5. ~(Place(b) <= Offset(page, size) + size)
    BY <1>9, <2>1, <2>2, <2>3, <2>4 DEF Page
  <2>. QED BY <2>1, <2>2, <2>4, <2>5
<1>10. Ahead'
  <2>. SUFFICES ASSUME next \in 1 .. MaxPage + 1,
                       NEW b \in walk.due, b \notin walk.seen, b \notin Page(page, size)
                PROVE  Place(b) > Offset(next, size)
    <3>. HIDE DEF next
    <3>. QED BY <1>4, <1>5 DEF Ahead, Offset
  <2>1. next = page + 1
    BY <1>3
  <2>2. Offset(page + 1, size) = page * size
    BY NextOffset
  <2>. QED BY <1>9, <2>1, <2>2
<1>11. WalkSeesAll'
  <2>1. walk'.seen \subseteq AllRows'
    BY <1>1, <1>4, <1>5, <1>6 DEF WalkSeesAll
  <2>2. ASSUME next = MaxPage + 2, NEW b \in walk.due
        PROVE  b \in walk.seen \cup Page(page, size)
    <3>. SUFFICES ASSUME b \notin walk.seen, b \notin Page(page, size) PROVE FALSE
      OBVIOUS
    <3>1. ~more
      BY <1>3, <2>2
    <3>2. b \in AllRows /\ Place(b) \in Int /\ Place(b) > page * size
      BY <1>9
    <3>3. Total(page, size) \in Nat /\ page * size \in Nat
      BY <1>1, FS_CardinalityType DEF Total, ListTypes
    <3>4. page * size >= Total(page, size)
      BY <3>1, <3>3
    <3>5. Place(b) <= page * size
      BY <1>1, <3>2, <3>4, NothingPastTheTotal
    <3>. QED BY <3>2, <3>3, <3>5
  <2>3. WalkEnded' => walk'.due \subseteq walk'.seen
    <3>. HIDE DEF next
    <3>. QED BY <1>4, <2>2 DEF WalkEnded
  <2>. QED BY <2>1, <2>3 DEF WalkSeesAll
<1>. QED BY <1>5, <1>8, <1>10, <1>11 DEF ListInv

-----------------------------------------------------------------------------
\* The invariant holds before the first request and the first page.
LEMMA ListInitially == ListInit => ListInv
<1>. SUFFICES ASSUME ListInit PROVE ListInv
  OBVIOUS
<1>1. AllRows = Archive
  BY DEF ListInit, Init, AllRows, Exists
<1>2. ListTypes
  BY <1>1, ArchiveAssumption DEF ListInit, ListTypes, Idle
<1>3. Stamps
  BY DEF ListInit, Init, Stamps, Stamped, Inserting, Exists
<1>4. Ahead /\ WalkSeesAll
  BY PageAssumption DEF ListInit, Idle, Ahead, WalkSeesAll, WalkEnded
<1>. QED BY <1>2, <1>3, <1>4 DEF ListInv

\* Every step, of the write path or of the walk, keeps it.
LEMMA ListInductive ==
    ASSUME Inv, ListInv, [ListNext]_listVars
    PROVE  ListInv'
<1>1. CASE UNCHANGED listVars
  <2>1. UNCHANGED <<vars, stamps>> /\ walk' = walk
    BY <1>1 DEF listVars
  <2>. QED BY <2>1, OnlyReading DEF ListInv, ListTypes, Ahead, WalkSeesAll, WalkEnded, Offset
<1>. QED BY <1>1, WriteKeeps, StartWalkKeeps, NextPageKeeps DEF ListNext

\* The write path under the lists is that of BookingService.
THEOREM ListsOverWritePath == ListSpec => Spec
<1>1. ListInit => Init
  BY DEF ListInit
<1>2. [ListNext]_listVars => [Next]_vars
  BY DEF ListNext, Write, StartWalk, NextPage, listVars
<1>. QED BY <1>1, <1>2, PTL DEF ListSpec, Spec

\* The inductive invariant of the lists.
THEOREM ListInvariance == ListSpec => [](Inv /\ ListInv)
BY ListInitially, ListInductive, ListsOverWritePath, Invariance, PTL DEF ListSpec

\* A walk through the pages that its last total ends has seen every booking
\* there was when it began, whatever is booked and cancelled meanwhile.
THEOREM WalkMissesNothing == ListSpec => []WalkSeesAll
<1>1. ListInv => WalkSeesAll
  BY DEF ListInv
<1>. QED BY <1>1, ListInvariance, PTL

-----------------------------------------------------------------------------
(***************************************************************************)
(* The lists of the users.                                                 *)
(***************************************************************************)

\* Answered as malformed.
Refused(r) == pc[r] = "done" /\ reply[r].code = 400

\* A request is unknown only until it is refused as malformed.
Heard == \A r \in Requests :
    req[r] = None => pc[r] = "new" \/ Refused(r)

\* A cancellation is announced for a request that asks for it.
AskedFor == \A e \in outbox :
    e.type = "cancelled" => req[e.by] # None /\ req[e.by].booking = e.booking

Sources == Heard /\ AskedFor

\* A request that is known stays what it is.
LEMMA RequestStays ==
    ASSUME Inv, [Next]_vars, NEW r \in Requests
    PROVE  /\ pc[r] # "new" => req'[r] = req[r]
           /\ pc[r] = "new" /\ req'[r] = None =>
                 pc'[r] = "new" \/ Refused(r)'
           /\ req[r] # None => req'[r] # None
<1>. USE DEF Goto, Refused
<1>0. TypeOK
  BY DEF Inv
<1>1. ASSUME NEW q \in Requests, Arrive(q)
      PROVE  /\ pc[q] = "new" /\ req'[q] # None
             /\ r # q => pc'[r] = pc[r] /\ req'[r] = req[r]
  BY <1>0, <1>1, RequestAssumption DEF Arrive, TypeOK
<1>2. ASSUME NEW q \in Requests, Malformed(q)
      PROVE  /\ req' = req
             /\ r # q => pc'[r] = pc[r]
             /\ pc'[q] = "done" /\ reply'[q].code = 400
  BY <1>0, <1>2 DEF Malformed, Refuse, Answer, TypeOK
<1>3. ASSUME NEW q \in Requests,
             \/ GetSlot(q) \/ Begin(q) \/ Insert(q) \/ Update(q) \/ InsertOutbox(q)
      PROVE  req' = req /\ pc[q] # "new" /\ \E step : pc' = [pc EXCEPT ![q] = step]
  BY <1>3 DEF GetSlot, Begin, Insert, Update, InsertOutbox, Refuse, Answer
<1>4. ASSUME NEW q \in Requests,
             \/ Commit(q) \/ CommitUnacknowledged(q) \/ Resolve(q) \/ Diagnose(q)
             \/ RequestLink(q) \/ UpdateLink(q) \/ LinkFails(q) \/ Fail(q)
      PROVE  req' = req /\ pc[q] # "new" /\ \E step : pc' = [pc EXCEPT ![q] = step]
  BY <1>4 DEF Commit, CommitUnacknowledged, Resolve, LateCommit, LateAbort, Diagnose,
     RequestLink, UpdateLink, LinkFails, Fail, BoundByContext, Refuse, Answer
<1>5. ASSUME NEW q \in Requests, req' = req, pc[q] # "new",
             \E step : pc' = [pc EXCEPT ![q] = step]
      PROVE  req' = req /\ (pc[r] = "new" => pc'[r] = "new")
  BY <1>0, <1>5 DEF TypeOK
<1>6. CASE Crash \/ Tick \/ Finished \/ UNCHANGED vars
  BY <1>6 DEF Crash, InFlight, Tick, Finished, vars
<1>. QED BY <1>1, <1>2, <1>3, <1>4, <1>5, <1>6 DEF Next, Serve, Step

\* Sources is inductive beside Inv.
LEMMA SourcesKept ==
    ASSUME Inv, Sources, [Next]_vars
    PROVE  Sources'
<1>1. ASSUME NEW r \in Requests, req'[r] = None
      PROVE  pc'[r] = "new" \/ Refused(r)'
  <2>1. req[r] = None
    BY <1>1, RequestStays
  <2>2. CASE pc[r] = "new"
    BY <1>1, <2>2, RequestStays
  <2>3. CASE Refused(r)
    BY <2>3, EndedStays DEF Refused
  <2>. QED BY <2>1, <2>2, <2>3 DEF Sources, Heard
<1>2. ASSUME NEW e \in outbox', e.type = "cancelled", e \in outbox
      PROVE  req'[e.by] # None /\ req'[e.by].booking = e.booking
  <2>1. e.by \in Requests /\ pc[e.by] # "new"
    BY <1>2 DEF Inv, TypeOK, Event, EventsHaveRequests
  <2>2. req'[e.by] = req[e.by]
    BY <2>1, RequestStays
  <2>. QED BY <1>2, <2>2 DEF Sources, AskedFor
<1>3. ASSUME NEW e \in outbox', e.type = "cancelled", e \notin outbox
      PROVE  req'[e.by] # None /\ req'[e.by].booking = e.booking
  <2>1. PICK r \in Requests : r = e.by /\ (Commit(r) \/ LateCommit(r))
    BY <1>3, NewEvent
  <2>2. /\ pc[r] \in {"commit", "sent"} /\ req' = req
        /\ outbox' = outbox \cup {[type |-> EventType(r), booking |-> Target(r), by |-> r]}
    BY <2>1, CommitEffect
  <2>3. e = [type |-> EventType(r), booking |-> Target(r), by |-> r]
    BY <1>3, <2>2
  <2>4. EventType(r) = "cancelled" /\ e.booking = Target(r)
    BY <1>3, <2>3
  <2>5. Target(r) = req[r].booking
    BY <2>4 DEF EventType, Target
  <2>6. req[r] # None
    BY <2>2, RequestAssumption DEF Inv, Control, ControlOf
  <2>. QED BY <2>1, <2>2, <2>4, <2>5, <2>6
<1>. QED BY <1>1, <1>2, <1>3 DEF Sources, Heard, AskedFor

\* A booking that nobody has asked to cancel is active.
LEMMA UnaskedIsActive ==
    ASSUME Inv, Sources, NEW b \in Requests, Exists(b),
           \A q \in Requests : req[q] = None \/ req[q].booking # b
    PROVE  IsActive(b)
<1>. SUFFICES ASSUME bookings[b].status = "cancelled" PROVE FALSE
  BY RowFacts DEF Inv, TypeOK, Exists, IsActive
<1>1. PICK e \in outbox : e.booking = b /\ e.type = "cancelled"
  BY DEF Inv, OutboxMirrorsBookings
<1>2. e.by \in Requests
  BY DEF Inv, TypeOK, Event
<1>. QED BY <1>1, <1>2 DEF Sources, AskedFor

\* A user's list has what the user was told is booked until the slot begins,
\* nobody else's has it, and none has what was answered as cancelled.
THEOREM ListsKeepTheirWord == ListSpec => []ListsMatchAnswers
<1>1. Init => Sources
  BY DEF Init, Sources, Heard, AskedFor
<1>2. Inv /\ Sources /\ [Next]_vars => Sources'
  BY SourcesKept
<1>3. Inv /\ Sources /\ AnswersMatchTables => ListsMatchAnswers
  <2>. SUFFICES ASSUME Inv, Sources, AnswersMatchTables,
                       NEW r \in Requests, NEW u \in Users, pc[r] = "done"
                PROVE  /\ /\ reply[r].code = 201
                          /\ StartAt[req[r].slot] >= now
                          /\ \A q \in Requests : req[q] = None \/ req[q].booking # r
                          => (r \in UserList(u) <=> u = req[r].user)
                       /\ reply[r].code = 200 => req[r].booking \notin UserList(u)
    BY DEF ListsMatchAnswers
  <2>1. reply[r].code \in {200, 201} => req[r] # None
    BY DEF Sources, Heard, Refused
  <2>2. ASSUME reply[r].code = 201, StartAt[req[r].slot] >= now,
               \A q \in Requests : req[q] = None \/ req[q].booking # r
        PROVE  r \in UserList(u) <=> u = req[r].user
    <3>1. Exists(r) /\ bookings[r].slot = req[r].slot
      BY <2>1, <2>2 DEF AnswersMatchTables
    <3>2. bookings[r].user = req[r].user
      BY <3>1 DEF Inv, Rows, RowOf, Exists
    <3>3. IsActive(r)
      BY <2>2, <3>1, UnaskedIsActive
    <3>. QED BY <2>2, <3>1, <3>2, <3>3 DEF UserList, Mine
  <2>3. ASSUME reply[r].code = 200
        PROVE  req[r].booking \notin UserList(u)
    <3>1. bookings[req[r].booking].status = "cancelled"
      BY <2>1, <2>3 DEF AnswersMatchTables
    <3>. QED BY <3>1 DEF UserList, Mine, IsActive
  <2>. QED BY <2>2, <2>3
<1>. QED BY <1>1, <1>2, <1>3, ListsOverWritePath, Invariance, AnswersStayTrue, PTL DEF Spec
=============================================================================
