------------------------- MODULE NotificationReads -------------------------
(***************************************************************************)
(* GET /notifications.  A client walks through the list page by page while *)
(* other requests insert and update rows, and statements may fail.  A page *)
(* takes two statements, a count and a select, and the position            *)
(* between two pages is kept by the client: a page number or the cursor of *)
(* the last response.  A row is an id (a UUIDv7, ordered as it was drawn), *)
(* its created_at, updated_at and status; the other filters of the list    *)
(* never change for a row, so rows they exclude are left out.              *)
(***************************************************************************)
EXTENDS Integers, FiniteSets

CONSTANTS
    Ids,              \* the ids that may be drawn, as numbers in their order
    MaxTime,          \* bound on the database clock
    Queries,          \* the walks to consider: how the client goes on and what it asks
    DefaultPageSize,  \* what page_size is when it is missing or not positive
    MaxPageSize       \* the largest page

Modes == {"keyset", "cursor", "offset"}

(***************************************************************************)
(* mode    "keyset"  every request carries a cursor, the first one the     *)
(*                   largest UUID                                          *)
(*         "cursor"  the first request carries none, the others the        *)
(*                   next_cursor of the last response                      *)
(*         "offset"  the requests carry page = 1, 2, ...                   *)
(* status  the status filter, "" for none                                  *)
(* asked   page_size, 0 when missing or not a number                       *)
(***************************************************************************)
QueryType ==
    [mode : Modes, sort : {"created_at", "updated_at"}, order : {"asc", "desc"},
     status : {"", "pending", "delivered"}, asked : Int]

ASSUME ReadsAssumption ==
    /\ Ids \subseteq Nat \ {0}
    /\ IsFiniteSet(Ids)
    /\ MaxTime \in Nat
    /\ Queries \subseteq QueryType
    /\ DefaultPageSize \in Nat \ {0}
    /\ MaxPageSize \in Nat \ {0}

VARIABLES
    now,       \* the database clock
    at,        \* at[n]: created_at, 0 without a row
    upd,       \* upd[n]: updated_at
    status,    \* status[n]: the status column
    query,     \* what this client asks
    pc,        \* the statement the next page needs
    page,      \* the number of the page the client asks for
    cursor,    \* the cursor it sends, 0 for none
    total,     \* what the count of this page returned
    more,      \* whether the last response had a next_cursor
    seen,      \* history: the ids the client was shown
    repeated,  \* history: those it was shown more than once
    steady,    \* history: what matched the filter ever since the walk began
    quiet      \* history: no row was written since then

tableVars == <<now, at, upd, status>>
walkVars == <<query, pc, page, cursor, total, more, seen, repeated>>
historyVars == <<steady, quiet>>
vars == <<tableVars, walkVars, historyVars>>

TypeOK ==
    /\ now \in 1 .. MaxTime + 1
    /\ at \in [Ids -> 0 .. MaxTime + 1]
    /\ upd \in [Ids -> 0 .. MaxTime + 1]
    /\ status \in [Ids -> {"pending", "delivered"}]
    /\ query \in QueryType
    /\ pc \in {"start", "count", "select", "done"}
    /\ page \in Nat \ {0}
    /\ cursor \in Ids \union {0}
    /\ total \in Nat
    /\ more \in BOOLEAN
    /\ seen \subseteq Ids
    /\ repeated \subseteq seen
    /\ steady \subseteq Ids
    /\ quiet \in BOOLEAN

-----------------------------------------------------------------------------
intParam(v, def) == IF v > 0 THEN v ELSE def

pageSize ==
    LET v == intParam(query.asked, DefaultPageSize)
    IN  IF v > MaxPageSize THEN MaxPageSize ELSE v

Stored == {n \in Ids : at[n] # 0}

\* The rows the filters let through, in a table with the status column st.
applyFilters(rows, st) ==
    {n \in rows : query.status # "" => st[n] = query.status}

Matching == applyFilters(Stored, status)

\* Whether the select continues from a cursor.
Keyset == query.mode = "keyset" \/ cursor # 0

\* Mutant of BelowCursor: the cursor's own row is selected again.
BelowCursorInclusive == {n \in Matching : cursor = 0 \/ n <= cursor}

\* The rows the WHERE clause selects: no cursor is above every id.
BelowCursor == {n \in Matching : cursor = 0 \/ n < cursor}

\* Mutant of Before: the order parameter is not read.
BeforeAscending(a, b) ==
    LET key == IF query.sort = "updated_at" THEN upd ELSE at
    IN  IF Keyset THEN a > b ELSE key[a] < key[b]

\* ORDER BY puts a before b.  Rows with the same key come in any order.
Before(a, b) ==
    LET key == IF query.sort = "updated_at" THEN upd ELSE at
    IN  IF Keyset THEN a > b
        ELSE IF query.order = "asc" THEN key[a] < key[b] ELSE key[a] > key[b]

\* Mutant of Offset: pages are counted from 0.
OffsetFromZero == IF Keyset THEN 0 ELSE page * pageSize

Offset == IF Keyset THEN 0 ELSE (page - 1) * pageSize

Smaller(a, b) == IF a < b THEN a ELSE b

\* S comes before every other row of the result R, as far as ORDER BY says.
Leads(S, R) == \A s \in S, r \in R \ S : ~Before(r, s)

Init ==
    /\ now = 1
    /\ at = [n \in Ids |-> 0]
    /\ upd = [n \in Ids |-> 0]
    /\ status = [n \in Ids |-> "pending"]
    /\ query \in Queries
    /\ pc = "start"
    /\ page = 1
    /\ cursor = 0
    /\ total = 0
    /\ more = FALSE
    /\ seen = {}
    /\ repeated = {}
    /\ steady = {}
    /\ quiet = TRUE

-----------------------------------------------------------------------------
\* Time passes in the database.
Tick ==
    /\ now <= MaxTime
    /\ now' = now + 1
    /\ UNCHANGED <<at, upd, status, walkVars, historyVars>>

\* INSERT of one notification or of a batch.  Their ids were drawn earlier, in
\* any order with the ids of other requests; created_at is one value for the
\* statement, the time its transaction started.
Insert(S, t) ==
    /\ S # {} /\ S \intersect Stored = {}
    /\ t \in {now, now - 1} \ {0}
    /\ at' = [n \in Ids |-> IF n \in S THEN t ELSE at[n]]
    /\ upd' = [n \in Ids |-> IF n \in S THEN t ELSE upd[n]]
    /\ quiet' = FALSE
    /\ UNCHANGED <<now, status, walkVars, steady>>

\* UPDATE of a status: a trigger sets updated_at.
UpdateStatus(n) ==
    /\ n \in Stored
    /\ status' = [status EXCEPT ![n] = "delivered"]
    /\ upd' = [upd EXCEPT ![n] = now]
    /\ quiet' = FALSE
    /\ steady' = applyFilters(steady, status')
    /\ UNCHANGED <<now, at, walkVars>>

\* The client begins to walk.
Start ==
    /\ pc = "start"
    /\ pc' = "count"
    /\ steady' = Matching
    /\ quiet' = TRUE
    /\ UNCHANGED <<tableVars, query, page, cursor, total, more, seen, repeated>>

\* The first statement of a page: all rows that match, whatever the cursor.
Count ==
    /\ pc = "count"
    /\ total' = Cardinality(Matching)
    /\ pc' = "select"
    /\ UNCHANGED <<tableVars, query, page, cursor, more, seen, repeated, historyVars>>

\* The cursor is the last row of the page P.
Cursor(P, last, R) == last

\* The rows OFFSET may pass over.
Skippable ==
    {O \in SUBSET BelowCursor :
        Cardinality(O) = Smaller(Offset, Cardinality(BelowCursor)) /\ Leads(O, BelowCursor)}

\* The second statement passes over O and returns the page P and, when there is
\* one, a row more, which only says that there is a next page.
Select(O, P, last) ==
    LET R == BelowCursor
    IN  /\ pc = "select"
        /\ P \subseteq R \ O
        /\ Cardinality(P) = Smaller(pageSize, Cardinality(R \ O))
        /\ Leads(P, R \ O)
        /\ more' = (Cardinality(R \ O) > pageSize)
        /\ IF more'
           THEN /\ last \in P /\ \A p \in P : ~Before(last, p)
                /\ IF query.mode = "offset"
                   THEN page' = page + 1 /\ UNCHANGED cursor
                   ELSE cursor' = Cursor(P, last, R \ O) /\ UNCHANGED page
                /\ pc' = "count"
           ELSE pc' = "done" /\ UNCHANGED <<cursor, page>>
        /\ seen' = seen \union P
        /\ repeated' = repeated \union (seen \intersect P)
        /\ UNCHANGED <<tableVars, query, total, historyVars>>

\* A statement fails: 500, and the client asks for the same page again.
ListFails ==
    /\ pc \in {"count", "select"}
    /\ pc' = "count"
    /\ UNCHANGED <<tableVars, query, page, cursor, total, more, seen, repeated, historyVars>>

SelectPage ==
    /\ pc = "select"
    /\ \E O \in Skippable :
          \E P \in SUBSET (BelowCursor \ O) : \E last \in Ids : Select(O, P, last)

Next ==
    \/ Tick
    \/ \E S \in SUBSET Ids : \E t \in {now, now - 1} : Insert(S, t)
    \/ \E n \in Ids : UpdateStatus(n)
    \/ Start
    \/ Count
    \/ SelectPage
    \/ ListFails

Spec == Init /\ [][Next]_vars

-----------------------------------------------------------------------------
\* Mutant of totalPages: rounded down.
totalPagesDown == total \div pageSize

totalPages == (total + pageSize - 1) \div pageSize

\* The order of the ids is the order of created_at, without ties.
IdsInOrder == \A m, n \in Stored : m < n => at[m] < at[n]

(***************************************************************************)
(* A client that sends a cursor with every request is shown no             *)
(* notification twice, however many are inserted and updated meanwhile     *)
(* (List: id < cursor ORDER BY id DESC), and when its walk ends it was     *)
(* shown every one that matched the filters all along: the cursor is the   *)
(* last row shown, not the row read ahead, so no page boundary hides one.  *)
(***************************************************************************)
KeysetShowsEachOnce ==
    query.mode = "keyset" => repeated = {} /\ (pc = "done" => steady \subseteq seen)

(***************************************************************************)
(* A client that starts without a cursor and follows next_cursor changes   *)
(* from the created_at order to the id order after the first page.  In the *)
(* default order it still meets every notification exactly once, provided  *)
(* the ids are in the order of created_at and no two rows share one.       *)
(***************************************************************************)
DefaultOrderShowsAll ==
    query.mode = "cursor" /\ query.sort = "created_at" /\ query.order = "desc"
        /\ IdsInOrder
    => repeated = {} /\ (pc = "done" => steady \subseteq seen)

(***************************************************************************)
(* A walk by page number over the created_at order without a status filter *)
(* skips nothing while rows are inserted: an INSERT moves the rows that    *)
(* are not yet shown further down, never up (it may repeat some).          *)
(***************************************************************************)
OffsetShowsAll ==
    query.mode = "offset" /\ query.sort = "created_at" /\ query.status = ""
        /\ pc = "done" /\ (\A m, n \in Stored : m # n => at[m] # at[n])
    => steady \subseteq seen

(***************************************************************************)
(* The two statements of a page agree: as long as no row is written, the   *)
(* select finds a row beyond the page exactly when the count says that     *)
(* there are further pages (listNotifications' total_pages).               *)
(***************************************************************************)
CountAgreesWithSelect ==
    query.mode = "offset" /\ quiet
    => /\ pc = "done" => page >= totalPages
       /\ pc = "count" /\ page > 1 => page <= totalPages
=============================================================================
