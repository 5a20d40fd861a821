---------------------- MODULE NotificationReadsProofs ----------------------
(***************************************************************************)
(* Proofs about NotificationReads, for any number of rows, any page size   *)
(* and any writes in between.  A walk by cursor shows every notification   *)
(* at most once, and when it ends it has shown all that matched the        *)
(* filters from its beginning; in the default order so does the walk that  *)
(* starts without a cursor.  A walk by page number skips none, and the     *)
(* count of its pages is right.                                            *)
(***************************************************************************)
EXTENDS NotificationReads, FiniteSetTheorems, TLAPS

\* The walks that show the rows from the largest id downwards: those that send
\* a cursor with every request, and those in the default order while the order
\* of the ids is that of created_at.
Downwards ==
    \/ query.mode = "keyset"
    \/ /\ query.mode = "cursor" /\ query.sort = "created_at" /\ query.order = "desc"
       /\ IdsInOrder

\* Where such a walk stands: what was shown lies at or above the cursor, what is
\* still to be shown lies below it.
Position ==
    /\ page = 1
    /\ repeated = {}
    /\ cursor = 0 /\ pc # "done" => seen = {}
    /\ cursor # 0 /\ pc # "done" => \A n \in seen : n >= cursor
    /\ pc = "start" => cursor = 0
    /\ pc \in {"count", "select"} => \A n \in steady : n \in seen \/ cursor = 0 \/ n < cursor
    /\ pc = "done" => steady \subseteq seen

CursorInv == TypeOK /\ steady \subseteq Matching /\ (Downwards => Position)

\* The size of a page is positive: intParam and the cap see to that.
LEMMA PageSizePositive ==
    ASSUME TypeOK PROVE pageSize \in Nat \ {0}
<1>1. query.asked \in Int
  BY DEF TypeOK, QueryType
<1>2. intParam(query.asked, DefaultPageSize) \in Nat \ {0}
  BY <1>1, ReadsAssumption DEF intParam
<1> QED
  BY <1>2, ReadsAssumption DEF pageSize

\* The result of the select is a finite set of rows that match.
LEMMA ResultIsFinite ==
    /\ Matching \subseteq Ids
    /\ IsFiniteSet(Matching)
    /\ BelowCursor \subseteq Matching
    /\ IsFiniteSet(BelowCursor)
<1>1. Matching \subseteq Ids /\ BelowCursor \subseteq Matching
  BY DEF Matching, BelowCursor, Stored, applyFilters
<1>2. IsFiniteSet(Matching)
  BY <1>1, ReadsAssumption, FS_Subset
<1> QED
  BY <1>1, <1>2, FS_Subset

\* ORDER BY puts the larger ids first.
LEMMA LargerFirst ==
    ASSUME TypeOK, Downwards, NEW a \in Matching, NEW b \in Matching, a # b
    PROVE  Before(a, b) <=> a > b
<1>1. CASE Keyset
  BY <1>1 DEF Before
<1>2. CASE ~Keyset
  <2>1. a \in Stored /\ b \in Stored /\ a \in Nat /\ b \in Nat
    BY ReadsAssumption DEF Matching, applyFilters, Stored
  <2>2. at[a] \in Nat /\ at[b] \in Nat
    BY <2>1, ReadsAssumption DEF TypeOK, Stored
  <2>3. Before(a, b) <=> at[a] > at[b]
    BY <1>2 DEF Before, Downwards, Keyset
  <2> QED
    BY <1>2, <2>1, <2>2, <2>3 DEF Downwards, Keyset, IdsInOrder
<1> QED
  BY <1>1, <1>2

\* What a page of such a walk holds: it lies below the cursor, no row that is
\* left lies at or above its last row, and the last page leaves none.
LEMMA CursorPage ==
    ASSUME TypeOK, Downwards, page = 1,
           NEW O \in Skippable, NEW P \in SUBSET (BelowCursor \ O),
           NEW last \in Ids, Select(O, P, last)
    PROVE  /\ more' => /\ cursor' \in P
                       /\ \A p \in P : p >= cursor'
                       /\ \A n \in BelowCursor : n \in P \/ n < cursor'
           /\ ~more' => P = BelowCursor
<1>1. O = {}
  <2>1. Cardinality(BelowCursor) \in Nat /\ IsFiniteSet(O)
    BY ResultIsFinite, FS_CardinalityType, FS_Subset DEF Skippable
  <2>2. Cardinality(O) = 0
    <3>1. Offset = 0
      BY PageSizePositive DEF Offset
    <3> QED
      BY <2>1, <3>1 DEF Skippable, Smaller
  <2> QED
    BY <2>1, <2>2, FS_EmptySet
<1>2. BelowCursor \ O = BelowCursor
  BY <1>1
<1>3. more' => /\ cursor' \in P
               /\ \A p \in P : p >= cursor'
               /\ \A n \in BelowCursor : n \in P \/ n < cursor'
  <2>1. SUFFICES ASSUME more'
                 PROVE  /\ last \in P
                        /\ \A p \in P : p >= last
                        /\ \A n \in BelowCursor : n \in P \/ n < last
    BY DEF Select, Cursor, Downwards
  <2>2. last \in P /\ \A p \in P : ~Before(last, p)
    BY <2>1 DEF Select
  <2>3. \A p \in P, n \in BelowCursor \ P : ~Before(n, p)
    BY <1>2 DEF Select, Leads
  <2>4. BelowCursor \subseteq Nat /\ BelowCursor \subseteq Matching /\ P \subseteq BelowCursor
    BY <1>2, ResultIsFinite, ReadsAssumption
  <2>5. \A p \in P : p >= last
    BY <2>2, <2>4, LargerFirst
  <2>6. \A n \in BelowCursor \ P : n < last
    BY <2>2, <2>3, <2>4, LargerFirst
  <2> QED
    BY <2>2, <2>5, <2>6
<1>4. ~more' => P = BelowCursor
  <2>1. SUFFICES ASSUME ~more' PROVE P = BelowCursor
    OBVIOUS
  <2>2. Cardinality(BelowCursor) \in Nat /\ pageSize \in Nat
    BY ResultIsFinite, FS_CardinalityType, PageSizePositive
  <2>3. Cardinality(BelowCursor) <= pageSize
    <3>1. ~(Cardinality(BelowCursor) > pageSize)
      BY <1>2, <2>1, Zenon DEF Select
    <3> QED
      BY <3>1, <2>2
  <2>4. Cardinality(P) = Cardinality(BelowCursor)
    BY <1>2, <2>2, <2>3 DEF Select, Smaller
  <2> QED
    BY <2>4, ResultIsFinite, FS_Subset
<1> QED
  BY <1>3, <1>4

\* The walk begins in order.
LEMMA InitCursor == Init => CursorInv
<1> SUFFICES ASSUME Init PROVE CursorInv
  OBVIOUS
<1>1. query \in QueryType
  BY ReadsAssumption DEF Init
<1>2. now \in 1 .. MaxTime + 1 /\ at \in [Ids -> 0 .. MaxTime + 1] /\ upd \in [Ids -> 0 .. MaxTime + 1]
  BY ReadsAssumption DEF Init
<1>3. status \in [Ids -> {"pending", "delivered"}]
  BY DEF Init
<1>5. /\ page \in Nat \ {0} /\ total \in Nat /\ cursor = 0
  BY DEF Init
<1>7. more \in BOOLEAN /\ quiet \in BOOLEAN
  BY Zenon DEF Init
<1>6. TypeOK
  BY <1>1, <1>2, <1>3, <1>5, <1>7, Zenon DEF Init, TypeOK
<1> QED
  BY <1>6 DEF Init, CursorInv, Position

\* Every step keeps the types.
LEMMA TypeStep == TypeOK /\ [Next]_vars => TypeOK'
<1> SUFFICES ASSUME TypeOK, [Next]_vars PROVE TypeOK'
  OBVIOUS
<1> USE DEF TypeOK
<1>1. CASE Tick
  BY <1>1, ReadsAssumption DEF Tick, walkVars, historyVars
<1>2. ASSUME NEW S \in SUBSET Ids, NEW t \in {now, now - 1}, Insert(S, t) PROVE TypeOK'
  <2>1. t \in 0 .. MaxTime + 1
    BY <1>2, ReadsAssumption
  <2>2. at' \in [Ids -> 0 .. MaxTime + 1] /\ upd' \in [Ids -> 0 .. MaxTime + 1]
    BY <1>2, <2>1 DEF Insert
  <2>3. /\ quiet' \in BOOLEAN
        /\ now' = now /\ status' = status /\ steady' = steady
        /\ query' = query /\ pc' = pc /\ page' = page /\ cursor' = cursor
        /\ total' = total /\ more' = more /\ seen' = seen /\ repeated' = repeated
    BY <1>2 DEF Insert, walkVars
  <2> QED
    BY <2>2, <2>3
<1>3. ASSUME NEW n \in Ids, UpdateStatus(n) PROVE TypeOK'
  <2>1. now \in 0 .. MaxTime + 1
    BY ReadsAssumption
  <2>2. /\ upd' \in [Ids -> 0 .. MaxTime + 1]
        /\ status' \in [Ids -> {"pending", "delivered"}]
    BY <1>3, <2>1 DEF UpdateStatus
  <2>3. steady' \subseteq Ids
    BY <1>3 DEF UpdateStatus, applyFilters
  <2>4. /\ quiet' \in BOOLEAN
        /\ now' = now /\ at' = at
        /\ query' = query /\ pc' = pc /\ page' = page /\ cursor' = cursor
        /\ total' = total /\ more' = more /\ seen' = seen /\ repeated' = repeated
    BY <1>3 DEF UpdateStatus, walkVars
  <2> QED
    BY <2>2, <2>3, <2>4
<1>4. CASE Start
  BY <1>4, ResultIsFinite DEF Start, tableVars
<1>5. CASE Count
  BY <1>5, ResultIsFinite, FS_CardinalityType DEF Count, tableVars, historyVars
<1>6. CASE SelectPage
  <2> PICK O \in Skippable : \E P \in SUBSET (BelowCursor \ O) :
              \E last \in Ids : Select(O, P, last)
    BY <1>6 DEF SelectPage
  <2> PICK P \in SUBSET (BelowCursor \ O) : \E last \in Ids : Select(O, P, last)
    OBVIOUS
  <2> PICK last \in Ids : Select(O, P, last)
    OBVIOUS
  <2>1. P \subseteq Ids
    BY ResultIsFinite
  <2>2. cursor' \in Ids \union {0} /\ page' \in Nat \ {0} /\ pc' \in {"count", "done"}
    BY DEF Select, Cursor
  <2>3. more' \in BOOLEAN
    BY DEF Select
  <2> QED
    BY <2>1, <2>2, <2>3 DEF Select, tableVars, historyVars
<1>7. CASE ListFails
  BY <1>7 DEF ListFails, tableVars, historyVars
<1>9. CASE UNCHANGED vars
  BY <1>9 DEF vars, tableVars, walkVars, historyVars
<1> QED
  BY <1>1, <1>2, <1>3, <1>4, <1>5, <1>6, <1>7, <1>9 DEF Next

\* What matched all along matches now.
LEMMA SteadyStep ==
    ASSUME TypeOK, steady \subseteq Matching, [Next]_vars
    PROVE  (steady \subseteq Matching)'
<1> USE DEF Matching, Stored, applyFilters
<1>1. CASE Tick \/ ListFails \/ Count
  BY <1>1 DEF Tick, ListFails, Count, tableVars, walkVars, historyVars
<1>7. CASE Start
  BY <1>7 DEF Start, tableVars
<1>2. ASSUME NEW S \in SUBSET Ids, NEW t \in {now, now - 1}, Insert(S, t)
      PROVE  (steady \subseteq Matching)'
  <2>1. query' = query /\ status' = status /\ steady' = steady
    BY <1>2 DEF Insert, walkVars
  <2>2. \A n \in Stored : n \notin S /\ at'[n] = at[n]
    BY <1>2 DEF Insert
  <2> QED
    BY <2>1, <2>2
<1>3. ASSUME NEW n \in Ids, UpdateStatus(n) PROVE (steady \subseteq Matching)'
  <2>1. query' = query /\ at' = at /\ steady' = applyFilters(steady, status')
    BY <1>3 DEF UpdateStatus, walkVars
  <2> QED
    BY <2>1
<1>4. CASE SelectPage
  BY <1>4 DEF SelectPage, Select, tableVars, historyVars
<1>6. CASE UNCHANGED vars
  BY <1>6 DEF vars, tableVars, walkVars, historyVars
<1> QED
  BY <1>1, <1>2, <1>3, <1>4, <1>6, <1>7 DEF Next

\* A row stays, with its created_at.
LEMMA StoredStays ==
    ASSUME TypeOK, [Next]_vars
    PROVE  \A n \in Stored : n \in Stored' /\ at'[n] = at[n]
<1>1. ASSUME NEW S \in SUBSET Ids, NEW t \in {now, now - 1}, Insert(S, t)
      PROVE  \A n \in Stored : n \in Stored' /\ at'[n] = at[n]
  BY <1>1 DEF Insert, Stored
<1>2. CASE at' = at
  BY <1>2 DEF Stored
<1> QED
  BY <1>1, <1>2 DEF Next, Tick, UpdateStatus, Start, Count, SelectPage, Select,
     ListFails, vars, tableVars

\* A walk of another kind does not become one of these: ids that are out of
\* order stay so.
LEMMA DownwardsStays ==
    ASSUME TypeOK, [Next]_vars, Downwards'
    PROVE  query' = query /\ Downwards
<1>1. query' = query
  BY DEF Next, Tick, Insert, UpdateStatus, Start, Count, SelectPage, Select,
         ListFails, vars, walkVars
<1>2. \A n \in Stored : n \in Stored' /\ at'[n] = at[n]
  BY StoredStays
<1>3. IdsInOrder' => IdsInOrder
  BY <1>2 DEF IdsInOrder
<1> QED
  BY <1>1, <1>3 DEF Downwards

\* No step loses the position of the walk.
LEMMA PositionStep ==
    ASSUME TypeOK, steady \subseteq Matching, Downwards, Position, [Next]_vars, query' = query
    PROVE  Position'
<1> USE DEF Position
<1>q. query' = query
  OBVIOUS
<1>1. CASE Tick
  BY <1>1 DEF Tick, walkVars, historyVars
<1>2. ASSUME NEW S \in SUBSET Ids, NEW t \in {now, now - 1}, Insert(S, t) PROVE Position'
  BY <1>2 DEF Insert, walkVars
<1>3. ASSUME NEW n \in Ids, UpdateStatus(n) PROVE Position'
  BY <1>3 DEF UpdateStatus, walkVars, applyFilters
<1>4. CASE Start
  <2>1. cursor = 0 /\ cursor' = 0
    BY <1>4, <1>q DEF Start
  <2> QED
    BY <1>4, <2>1, <1>q DEF Start
<1>5. CASE Count
  BY <1>5 DEF Count, historyVars
<1>6. CASE SelectPage
  <2> PICK O \in Skippable : \E P \in SUBSET (BelowCursor \ O) :
              \E last \in Ids : Select(O, P, last)
    BY <1>6 DEF SelectPage
  <2> PICK P \in SUBSET (BelowCursor \ O) : \E last \in Ids : Select(O, P, last)
    OBVIOUS
  <2> PICK last \in Ids : Select(O, P, last)
    OBVIOUS
  <2>s. /\ pc = "select" /\ seen' = seen \union P /\ steady' = steady
        /\ repeated' = repeated \union (seen \intersect P)
        /\ more' => pc' = "count"
        /\ ~more' => pc' = "done"
    BY DEF Select, historyVars
  <2>p. page' = 1
    BY DEF Select, Downwards
  <2>n. Ids \subseteq Nat \ {0} /\ seen \subseteq Ids /\ P \subseteq Ids /\ steady \subseteq Ids
        /\ cursor \in Nat
    BY ReadsAssumption, ResultIsFinite DEF TypeOK
  <2>1. repeated' = {}
    <3>1. \A n \in seen : n \notin BelowCursor
      BY <1>q, <2>s, <2>n DEF BelowCursor
    <3> QED
      BY <1>q, <2>s, <3>1
  <2>2. \A n \in steady : n \in seen \/ n \in BelowCursor
    BY <1>q, <2>s DEF BelowCursor
  <2>3. CASE more'
    <3>1. /\ cursor' \in P
          /\ \A p \in P : p >= cursor'
          /\ \A n \in BelowCursor : n \in P \/ n < cursor'
      BY <2>3, <1>q, CursorPage
    <3>2. \A n \in seen' : n >= cursor'
      <4>1. cursor # 0 => cursor' < cursor
        BY <3>1, <2>n DEF BelowCursor
      <4> QED
        BY <4>1, <3>1, <2>s, <2>n, <1>q
    <3> QED
      BY <2>1, <2>2, <2>3, <3>1, <3>2, <2>s, <2>n, <2>p
  <2>4. CASE ~more'
    <3>1. P = BelowCursor
      BY <2>4, <1>q, CursorPage
    <3>2. cursor' = cursor
      BY <2>4 DEF Select
    <3> QED
      BY <2>1, <2>2, <2>4, <3>1, <3>2, <2>s, <2>p
  <2> QED
    BY <2>3, <2>4
<1>7. CASE ListFails
  BY <1>7 DEF ListFails, historyVars
<1>9. CASE UNCHANGED vars
  BY <1>9 DEF vars, walkVars, historyVars
<1> QED
  BY <1>1, <1>2, <1>3, <1>4, <1>5, <1>6, <1>7, <1>9 DEF Next

\* The invariant of these walks.
LEMMA CursorStep == CursorInv /\ [Next]_vars => CursorInv'
<1> SUFFICES ASSUME CursorInv, [Next]_vars PROVE CursorInv'
  OBVIOUS
<1>1. TypeOK' /\ (steady \subseteq Matching)'
  BY TypeStep, SteadyStep DEF CursorInv
<1>2. Downwards' => Position'
  BY DownwardsStays, PositionStep DEF CursorInv
<1> QED
  BY <1>1, <1>2 DEF CursorInv

LEMMA CursorInvariant == Spec => []CursorInv
  BY InitCursor, CursorStep, PTL DEF Spec

(***************************************************************************)
(* The state of the table, the walk and its history keep their types.      *)
(***************************************************************************)
THEOREM ReadsTypeCorrect == Spec => []TypeOK
<1>1. CursorInv => TypeOK
  BY DEF CursorInv
<1> QED
  BY <1>1, CursorInvariant, PTL

(***************************************************************************)
(* For any rows, page size and writes, List shows a client that sends a    *)
(* cursor with every request no notification twice, and when the walk ends *)
(* it has shown all that matched the filters since its beginning.          *)
(***************************************************************************)
THEOREM KeysetTheorem == Spec => []KeysetShowsEachOnce
<1>1. CursorInv => KeysetShowsEachOnce
  BY DEF CursorInv, Downwards, Position, KeysetShowsEachOnce
<1> QED
  BY <1>1, CursorInvariant, PTL
(***************************************************************************)
(* The same holds in the default order for a client that sends no cursor   *)
(* with its first request, provided the order of the ids is that of        *)
(* created_at: the change from one order to the other hides nothing.       *)
(***************************************************************************)
THEOREM DefaultOrderTheorem == Spec => []DefaultOrderShowsAll
<1>1. CursorInv => DefaultOrderShowsAll
  BY DEF CursorInv, Downwards, Position, DefaultOrderShowsAll
<1> QED
  BY <1>1, CursorInvariant, PTL

-----------------------------------------------------------------------------
(***************************************************************************)
(* The walk by page number.                                                *)
(***************************************************************************)

\* The order of created_at has no ties.
TimesDiffer == \A m, n \in Stored : m # n => at[m] # at[n]

\* The walks by page number that nothing moves a row up in.
ByCreation ==
    query.sort = "created_at" /\ query.status = "" /\ TimesDiffer

\* The rows the list shows before n.
Ahead(n) == {r \in Stored : Before(r, n)}

\* No row that is still to be shown lies in a page that was.
PagesShown ==
    /\ pc \in {"count", "select"} =>
          \A n \in steady \ seen : Cardinality(Ahead(n)) >= (page - 1) * pageSize
    /\ pc = "done" => steady \subseteq seen

\* What the last count says of the rows that match.
PagesCounted ==
    /\ pc = "select" => total = Cardinality(Matching)
    /\ pc \in {"count", "select"} /\ page > 1 =>
          total = Cardinality(Matching) /\ (page - 1) * pageSize < total
    /\ pc = "done" => total <= page * pageSize

OffsetInv ==
    query.mode = "offset" =>
        /\ cursor = 0
        /\ pc = "start" => page = 1
        /\ ByCreation => PagesShown
        /\ quiet => PagesCounted

\* ORDER BY is a strict order of the rows.
LEMMA StrictOrder ==
    ASSUME TypeOK, query.mode = "offset", cursor = 0, ByCreation,
           NEW a \in Stored, NEW b \in Stored
    PROVE  /\ ~Before(a, a)
           /\ a # b => (Before(a, b) <=> ~Before(b, a))
<1>1. at[a] \in Nat /\ at[b] \in Nat
  BY ReadsAssumption DEF TypeOK, Stored
<1>2. ~Keyset /\ (a # b => at[a] # at[b])
  BY DEF Keyset, ByCreation, TimesDiffer
<1>3. ASSUME NEW c, NEW d
      PROVE  Before(c, d) <=> IF query.order = "asc" THEN at[c] < at[d] ELSE at[c] > at[d]
  BY <1>2 DEF Before, ByCreation
<1>4. (Before(a, b) <=> IF query.order = "asc" THEN at[a] < at[b] ELSE at[a] > at[b])
      /\ (Before(b, a) <=> IF query.order = "asc" THEN at[b] < at[a] ELSE at[b] > at[a])
      /\ (Before(a, a) <=> IF query.order = "asc" THEN at[a] < at[a] ELSE at[a] > at[a])
  BY <1>3
<1> QED
  BY <1>1, <1>2, <1>4

\* Without a cursor and a filter the select starts from every row.
LEMMA AllRows ==
    ASSUME TypeOK, query.mode = "offset", cursor = 0
    PROVE  /\ BelowCursor = Matching
           /\ query.status = "" => Matching = Stored
           /\ Offset = (page - 1) * pageSize
<1>1. ~Keyset
  BY DEF Keyset
<1> QED
  BY <1>1 DEF BelowCursor, Matching, applyFilters, Offset

\* The products of the paging.
LEMMA Products ==
    ASSUME NEW p \in Nat \ {0}, NEW s \in Nat \ {0}
    PROVE  /\ (p - 1) * s \in Nat /\ p * s \in Nat
           /\ p * s = (p - 1) * s + s
           /\ (p + 1 - 1) * s = p * s
           /\ p = 1 => (p - 1) * s = 0
<1>1. \A a, b \in Nat : a * b \in Nat
  OBVIOUS
<1>2. p * s = (p - 1) * s + s
  BY SMTT(30)
<1> QED
  BY <1>1, <1>2

\* The size of a subset, of a set without one of its parts, and of two parts
\* that have nothing in common.
LEMMA Sizes ==
    ASSUME NEW S, IsFiniteSet(S), NEW T \in SUBSET S
    PROVE  /\ IsFiniteSet(T) /\ Cardinality(T) \in Nat /\ Cardinality(S) \in Nat
           /\ Cardinality(T) <= Cardinality(S)
           /\ IsFiniteSet(S \ T)
           /\ Cardinality(S \ T) = Cardinality(S) - Cardinality(T)
           /\ Cardinality(T) = Cardinality(S) => T = S
<1>1. IsFiniteSet(T) /\ Cardinality(T) <= Cardinality(S)
  BY FS_Subset
<1>2. IsFiniteSet(S \ T) /\ Cardinality(S \ T) = Cardinality(S) - Cardinality(S \cap T)
  BY FS_Difference
<1>3. S \cap T = T
  OBVIOUS
<1>4. Cardinality(T) = Cardinality(S) => T = S
  BY FS_Subset
<1> QED
  BY <1>1, <1>2, <1>3, <1>4, FS_CardinalityType

\* What a page of the walk holds, in numbers: a full one when there are more
\* rows, else all that is left.
LEMMA PageSizes ==
    ASSUME TypeOK, query.mode = "offset", cursor = 0,
           NEW O \in Skippable, NEW P \in SUBSET (BelowCursor \ O),
           NEW last \in Ids, Select(O, P, last)
    PROVE  /\ Cardinality(O) = Smaller((page - 1) * pageSize, Cardinality(Matching))
           /\ Cardinality(Matching) \in Nat /\ Cardinality(O) <= Cardinality(Matching)
           /\ more' = (Cardinality(Matching) - Cardinality(O) > pageSize)
           /\ more' => /\ Cardinality(P) = pageSize
                       /\ Cardinality(O) = (page - 1) * pageSize
           /\ ~more' => P = Matching \ O
<1> DEFINE R == Matching \ O
<1>1. BelowCursor = Matching /\ Offset = (page - 1) * pageSize
  BY AllRows
<1>2. IsFiniteSet(Matching) /\ O \in SUBSET Matching /\ P \in SUBSET R
  BY <1>1, ResultIsFinite DEF Skippable
<1>3. /\ IsFiniteSet(R) /\ Cardinality(R) \in Nat
      /\ Cardinality(R) = Cardinality(Matching) - Cardinality(O)
      /\ Cardinality(Matching) \in Nat /\ Cardinality(O) \in Nat
      /\ Cardinality(O) <= Cardinality(Matching)
  BY <1>2, Sizes, FS_CardinalityType
<1>4. Cardinality(O) = Smaller((page - 1) * pageSize, Cardinality(Matching))
  BY <1>1 DEF Skippable
<1>5. /\ more' = (Cardinality(R) > pageSize)
      /\ Cardinality(P) = Smaller(pageSize, Cardinality(R))
  BY <1>1 DEF Select
<1>6. pageSize \in Nat \ {0} /\ (page - 1) * pageSize \in Nat
  BY PageSizePositive, Products DEF TypeOK
<1>7. ~more' => Cardinality(P) = Cardinality(R)
  BY <1>3, <1>5, <1>6 DEF Smaller
<1>8. ~more' => P = R
  BY <1>2, <1>3, <1>7, Sizes
<1>9. more' => Cardinality(P) = pageSize
  BY <1>3, <1>5, <1>6 DEF Smaller
<1>10. more' => Cardinality(O) = (page - 1) * pageSize
  <2> DEFINE x == (page - 1) * pageSize
             m == Cardinality(Matching)
             o == Cardinality(O)
  <2>1. x \in Nat /\ m \in Nat /\ o \in Nat /\ (more' => m - o > pageSize)
    BY <1>3, <1>5, <1>6
  <2>2. o = IF x < m THEN x ELSE m
    BY <1>4 DEF Smaller
  <2> HIDE DEF x, m, o
  <2>3. more' => o = x
    BY <1>6, <2>1, <2>2
  <2> QED
    BY <2>3 DEF x, o
<1> HIDE DEF R
<1>11. more' = (Cardinality(Matching) - Cardinality(O) > pageSize)
  BY <1>3, <1>5
<1> QED
  BY <1>3, <1>4, <1>8, <1>9, <1>10, <1>11 DEF R

\* The page of a walk in the order of created_at: a row with every row before
\* it shown or passed over is shown now, or lies beyond this page too.
LEMMA OffsetPage ==
    ASSUME TypeOK, query.mode = "offset", cursor = 0, ByCreation,
           NEW O \in Skippable, NEW P \in SUBSET (BelowCursor \ O),
           NEW last \in Ids, Select(O, P, last),
           NEW n \in Matching, Cardinality(Ahead(n)) >= (page - 1) * pageSize
    PROVE  /\ more' /\ n \notin P => Cardinality(Ahead(n)) >= (page - 1) * pageSize + pageSize
           /\ ~more' => n \in P
<1> DEFINE x == (page - 1) * pageSize
<1>1. /\ BelowCursor = Stored /\ Matching = Stored /\ IsFiniteSet(Stored)
      /\ O \in SUBSET Stored /\ Leads(O, Stored) /\ Leads(P, Stored \ O)
      /\ P \in SUBSET (Stored \ O)
  BY AllRows, ResultIsFinite DEF ByCreation, Skippable, Select
<1>2. Ahead(n) \in SUBSET Stored /\ n \notin Ahead(n) /\ n \in Stored
  BY <1>1, StrictOrder DEF Ahead
<1>3. /\ IsFiniteSet(O) /\ IsFiniteSet(P) /\ IsFiniteSet(Ahead(n))
      /\ Cardinality(O) \in Nat /\ Cardinality(P) \in Nat /\ Cardinality(Ahead(n)) \in Nat
  BY <1>1, <1>2, FS_Subset, FS_CardinalityType
<1>4. pageSize \in Nat \ {0} /\ x \in Nat
  BY PageSizePositive, Products DEF TypeOK
<1>5. n \notin O
  <2>1. SUFFICES ASSUME n \in O PROVE FALSE
    OBVIOUS
  <2>2. Ahead(n) \subseteq O
    BY <1>1, <2>1 DEF Ahead, Leads
  <2>3. Ahead(n) \in SUBSET (O \ {n})
    BY <1>2, <2>2
  <2>4. IsFiniteSet(O \ {n}) /\ Cardinality(O \ {n}) = Cardinality(O) - 1
    BY <1>3, <2>1, FS_RemoveElement
  <2>5. Cardinality(Ahead(n)) <= Cardinality(O \ {n})
    BY <2>3, <2>4, FS_Subset
  <2>6. Cardinality(O) <= x
    <3>1. Cardinality(O) = Smaller(x, Cardinality(Matching)) /\ Cardinality(Matching) \in Nat
      BY PageSizes
    <3> HIDE DEF x
    <3> QED
      BY <1>4, <3>1 DEF Smaller
  <2> HIDE DEF x
  <2> QED
    BY <1>3, <1>4, <2>4, <2>5, <2>6 DEF x
<1>6. ~more' => n \in P
  BY <1>1, <1>2, <1>5, PageSizes
<1>7. ASSUME more', n \notin P
      PROVE  Cardinality(Ahead(n)) >= x + pageSize
  <2>1. \A p \in P : Before(p, n)
    <3>1. \A p \in P : ~Before(n, p) /\ p # n
      BY <1>1, <1>2, <1>5, <1>7 DEF Leads
    <3> QED
      BY <1>1, <1>2, <3>1, StrictOrder
  <2>2. \A o \in O : Before(o, n)
    <3>1. \A o \in O : ~Before(n, o) /\ o # n
      BY <1>1, <1>2, <1>5 DEF Leads
    <3> QED
      BY <1>1, <1>2, <3>1, StrictOrder
  <2>3. O \union P \in SUBSET Ahead(n) /\ O \cap P = {}
    BY <1>1, <2>1, <2>2 DEF Ahead
  <2>4. Cardinality(O \union P) <= Cardinality(Ahead(n))
    BY <1>3, <2>3, FS_Subset
  <2>5. Cardinality(O \union P) = Cardinality(O) + Cardinality(P) - Cardinality(O \cap P)
    BY <1>3, FS_Union
  <2>6. Cardinality(O \cap P) = 0
    BY <2>3, FS_EmptySet
  <2>7. Cardinality(O) = x /\ Cardinality(P) = pageSize
    BY <1>7, PageSizes
  <2> HIDE DEF x
  <2> QED
    BY <1>3, <1>4, <2>4, <2>5, <2>6, <2>7
<1> QED
  BY <1>6, <1>7 DEF x

\* An INSERT or an UPDATE moves no row up in the order of created_at.
LEMMA AheadGrows ==
    ASSUME TypeOK, TypeOK', ByCreation, query.mode = "offset", cursor = 0,
           query' = query, cursor' = cursor,
           \A k \in Stored : k \in Stored' /\ at'[k] = at[k],
           NEW n \in Stored
    PROVE  Cardinality(Ahead(n)) <= Cardinality(Ahead(n)')
<1>1. \A k \in Stored : Before(k, n)' <=> Before(k, n)
  BY DEF Before, ByCreation, Keyset
<1>2. Ahead(n) \in SUBSET Ahead(n)'
  BY <1>1 DEF Ahead
<1>3. IsFiniteSet(Ahead(n)')
  BY ReadsAssumption, FS_Subset DEF Ahead, Stored
<1> QED
  BY <1>2, <1>3, FS_Subset
\* The walk goes on from where it stands, page by page.
LEMMA OffsetSelect ==
    ASSUME TypeOK, steady \subseteq Matching, OffsetInv, query.mode = "offset", SelectPage
    PROVE  /\ cursor' = 0
           /\ ByCreation => PagesShown'
           /\ quiet => PagesCounted'
<1> PICK O \in Skippable : \E P \in SUBSET (BelowCursor \ O) :
            \E last \in Ids : Select(O, P, last)
  BY DEF SelectPage
<1> PICK P \in SUBSET (BelowCursor \ O) : \E last \in Ids : Select(O, P, last)
  OBVIOUS
<1> PICK last \in Ids : Select(O, P, last)
  OBVIOUS
<1>1. /\ cursor = 0 /\ cursor' = 0 /\ pc = "select"
      /\ seen' = seen \union P /\ steady' = steady /\ query' = query /\ total' = total
      /\ at' = at /\ upd' = upd /\ status' = status
      /\ more' => page' = page + 1 /\ pc' = "count"
      /\ ~more' => page' = page /\ pc' = "done"
  BY DEF Select, OffsetInv, tableVars, historyVars
<1>2. page \in Nat \ {0} /\ pageSize \in Nat \ {0} /\ pageSize' = pageSize
  BY <1>1, PageSizePositive DEF TypeOK, pageSize
<1>3. /\ (page - 1) * pageSize \in Nat /\ page * pageSize \in Nat
      /\ page * pageSize = (page - 1) * pageSize + pageSize
      /\ (page + 1 - 1) * pageSize = page * pageSize
  BY <1>2, Products
<1>4. ASSUME ByCreation PROVE PagesShown'
  <2>1. \A n \in steady \ seen :
           /\ more' /\ n \notin P => Cardinality(Ahead(n)) >= page * pageSize
           /\ ~more' => n \in P
    BY <1>1, <1>3, <1>4, OffsetPage DEF OffsetInv, PagesShown
  <2>2. \A n : Ahead(n)' = Ahead(n)
    BY <1>1 DEF Ahead, Stored, Before, Keyset
  <2>3. CASE more'
    <3>1. (page' - 1) * pageSize' = page * pageSize
      BY <1>1, <1>2, <1>3, <2>3
    <3>2. \A n \in steady' \ seen' : Cardinality(Ahead(n)') >= page * pageSize
      BY <1>1, <2>1, <2>2, <2>3
    <3> QED
      BY <1>1, <2>3, <3>1, <3>2 DEF PagesShown
  <2>4. CASE ~more'
    BY <1>1, <2>1, <2>4 DEF PagesShown
  <2> QED
    BY <2>3, <2>4
<1>5. ASSUME quiet PROVE PagesCounted'
  <2> DEFINE m == Cardinality(Matching)
             x == (page - 1) * pageSize
             y == page * pageSize
             o == Cardinality(O)
  <2>1. Matching' = Matching
    BY <1>1 DEF Matching, Stored, applyFilters
  <2>2. total = m /\ total' = m /\ Cardinality(Matching)' = m
    BY <1>1, <1>5, <2>1 DEF OffsetInv, PagesCounted
  <2>3. /\ m \in Nat /\ o = (IF x < m THEN x ELSE m)
        /\ more' => m - o > pageSize /\ o = x
        /\ ~more' => ~(m - o > pageSize)
    <3>1. m \in Nat /\ o = Smaller(x, m) /\ (more' => o = x)
      BY <1>1, PageSizes
    <3>2. o = (IF x < m THEN x ELSE m)
      BY <3>1 DEF Smaller
    <3>3. more' = (m - o > pageSize)
      BY <1>1, PageSizes
    <3> HIDE DEF x, m, o
    <3>4. (more' => m - o > pageSize) /\ (~more' => ~(m - o > pageSize))
      BY <3>3, Zenon
    <3> QED
      BY <3>1, <3>2, <3>4
  <2>4. CASE more'
    <3>1. (page' - 1) * pageSize' = y
      BY <1>1, <1>2, <1>3, <2>4
    <3>2. y < m
      <4>1. x \in Nat /\ y = x + pageSize
        BY <1>3
      <4> HIDE DEF x, y, m, o
      <4> QED
        BY <1>2, <2>3, <2>4, <4>1
    <3> QED
      BY <1>1, <2>2, <2>4, <3>1, <3>2 DEF PagesCounted
  <2>5. CASE ~more'
    <3>1. page' * pageSize' = y
      BY <1>1, <1>2, <2>5
    <3>2. m <= y
      <4>1. x \in Nat /\ y = x + pageSize
        BY <1>3
      <4> HIDE DEF x, y, m, o
      <4> QED
        BY <1>2, <2>3, <2>5, <4>1
    <3> QED
      BY <1>1, <2>2, <2>5, <3>1, <3>2 DEF PagesCounted
  <2> QED
    BY <2>4, <2>5
<1> QED
  BY <1>1, <1>4, <1>5

\* No other step moves a row up, or changes what a page number counts.
LEMMA OffsetStep ==
    ASSUME TypeOK, TypeOK', steady \subseteq Matching, OffsetInv, [Next]_vars
    PROVE  OffsetInv'
<1>1. query' = query
  BY DEF Next, Tick, Insert, UpdateStatus, Start, Count, SelectPage, Select,
         ListFails, vars, walkVars
<1> SUFFICES ASSUME query.mode = "offset" PROVE OffsetInv'
  BY <1>1 DEF OffsetInv
<1>2. /\ cursor = 0 /\ (pc = "start" => page = 1)
      /\ ByCreation => PagesShown
      /\ quiet => PagesCounted
  BY DEF OffsetInv
<1>3. pageSize' = pageSize /\ pageSize \in Nat \ {0} /\ page \in Nat \ {0} /\ query' = query
  BY <1>1, PageSizePositive DEF pageSize, TypeOK
<1>4. ByCreation' => ByCreation
  <2>1. \A n \in Stored : n \in Stored' /\ at'[n] = at[n]
    BY StoredStays
  <2> QED
    BY <1>1, <2>1 DEF ByCreation, TimesDiffer
<1>5. CASE SelectPage
  <2>1. cursor' = 0 /\ pc' # "start" /\ quiet' = quiet
    BY <1>2, <1>5, OffsetSelect DEF SelectPage, Select, historyVars
  <2> QED
    BY <1>4, <1>5, <2>1, OffsetSelect DEF OffsetInv
<1>6. CASE Start
  <2>1. /\ cursor' = cursor /\ page' = page /\ pc' = "count" /\ pc = "start"
    BY <1>6 DEF Start
  <2>2. (page' - 1) * pageSize' = 0
    BY <1>2, <1>3, <2>1, Products
  <2>3. \A n \in steady' : Cardinality(Ahead(n)') >= 0
    <3>1. \A n : IsFiniteSet(Ahead(n)')
      BY ReadsAssumption, FS_Subset DEF Ahead, Stored
    <3>2. \A n : Cardinality(Ahead(n)') \in Nat
      BY <3>1, FS_CardinalityType
    <3> QED
      BY <3>2
  <2>4. PagesShown'
    BY <2>1, <2>2, <2>3 DEF PagesShown
  <2>5. PagesCounted'
    BY <1>2, <2>1 DEF PagesCounted
  <2> QED
    BY <1>2, <2>1, <2>4, <2>5 DEF OffsetInv
<1>7. CASE Count \/ ListFails \/ Tick \/ UNCHANGED vars
  <2>1. /\ cursor' = cursor /\ page' = page /\ seen' = seen /\ steady' = steady /\ quiet' = quiet
        /\ at' = at /\ upd' = upd /\ status' = status
        /\ pc' = pc \/ (pc \in {"count", "select"} /\ pc' \in {"count", "select"})
        /\ \/ total' = total /\ (pc' = pc \/ pc' = "count")
           \/ total' = Cardinality(Matching) /\ pc' = "select" /\ pc = "count"
    BY <1>7 DEF Count, ListFails, Tick, vars, tableVars, walkVars, historyVars
  <2>2. Ahead(0) = Ahead(0) /\ \A n : Ahead(n)' = Ahead(n)
    BY <1>1, <2>1 DEF Ahead, Stored, Before, Keyset
  <2>3. Matching' = Matching /\ Cardinality(Matching)' = Cardinality(Matching)
    BY <1>1, <2>1 DEF Matching, Stored, applyFilters
  <2>4. (page' - 1) * pageSize' = (page - 1) * pageSize /\ page' * pageSize' = page * pageSize
    BY <1>3, <2>1
  <2>5. PagesShown => PagesShown'
    BY <2>1, <2>2, <2>4 DEF PagesShown
  <2>6. PagesCounted => PagesCounted'
    BY <2>1, <2>3, <2>4 DEF PagesCounted
  <2> QED
    BY <1>2, <1>4, <2>1, <2>5, <2>6 DEF OffsetInv
<1>8. CASE \/ \E S \in SUBSET Ids : \E t \in {now, now - 1} : Insert(S, t)
           \/ \E n \in Ids : UpdateStatus(n)
  <2>1. /\ cursor' = cursor /\ page' = page /\ seen' = seen /\ pc' = pc /\ ~quiet'
        /\ query.status = "" => steady' = steady
    BY <1>1, <1>8 DEF Insert, UpdateStatus, walkVars, applyFilters
  <2>2. ASSUME ByCreation PROVE PagesShown'
    <3>1. steady' = steady /\ steady \subseteq Stored
      BY <2>1, <2>2, AllRows, <1>2 DEF ByCreation
    <3>2. \A n \in steady : Cardinality(Ahead(n)) <= Cardinality(Ahead(n)')
      BY <1>1, <1>2, <2>1, <2>2, <3>1, AheadGrows, StoredStays
    <3>3. (page' - 1) * pageSize' = (page - 1) * pageSize /\ (page - 1) * pageSize \in Nat
      BY <1>3, <2>1, Products
    <3>4. \A n : Cardinality(Ahead(n)) \in Nat /\ Cardinality(Ahead(n)') \in Nat
      <4>1. \A n : IsFiniteSet(Ahead(n)) /\ IsFiniteSet(Ahead(n)')
        BY ReadsAssumption, FS_Subset DEF Ahead, Stored
      <4> QED
        BY <4>1, FS_CardinalityType
    <3> DEFINE x == (page - 1) * pageSize
    <3>5. pc \in {"count", "select"} => \A n \in steady \ seen : Cardinality(Ahead(n)') >= x
      <4>1. pc \in {"count", "select"} => \A n \in steady \ seen : Cardinality(Ahead(n)) >= x
        BY <1>2, <2>2 DEF PagesShown
      <4>2. x \in Nat
        BY <3>3
      <4> HIDE DEF x
      <4> QED
        BY <3>2, <3>4, <4>1, <4>2
    <3>6. pc = "done" => steady \subseteq seen
      BY <1>2, <2>2 DEF PagesShown
    <3> QED
      BY <2>1, <3>1, <3>3, <3>5, <3>6 DEF PagesShown
  <2> QED
    BY <1>2, <1>4, <2>1, <2>2 DEF OffsetInv
<1> QED
  BY <1>5, <1>6, <1>7, <1>8 DEF Next
LEMMA OffsetInvariant == Spec => [](CursorInv /\ OffsetInv)
<1>1. Init => CursorInv /\ OffsetInv
  <2>1. Init => OffsetInv
    BY DEF Init, OffsetInv, PagesShown, PagesCounted
  <2> QED
    BY <2>1, InitCursor
<1>2. CursorInv /\ OffsetInv /\ [Next]_vars => (CursorInv /\ OffsetInv)'
  <2> SUFFICES ASSUME CursorInv, OffsetInv, [Next]_vars PROVE (CursorInv /\ OffsetInv)'
    OBVIOUS
  <2>1. TypeOK /\ steady \subseteq Matching
    BY DEF CursorInv
  <2>2. CursorInv'
    BY CursorStep
  <2>3. OffsetInv'
    BY <2>1, <2>2, OffsetStep DEF CursorInv
  <2> QED
    BY <2>2, <2>3
<1> QED
  BY <1>1, <1>2, PTL DEF Spec

(***************************************************************************)
(* For any page size and any inserts, a walk by page number through List   *)
(* over created_at without a status filter skips nothing that was there    *)
(* from its beginning, provided no two rows share a created_at.            *)
(***************************************************************************)
THEOREM OffsetTheorem == Spec => []OffsetShowsAll
<1>1. CursorInv /\ OffsetInv => OffsetShowsAll
  BY DEF OffsetInv, ByCreation, TimesDiffer, PagesShown, OffsetShowsAll
<1> QED
  BY <1>1, OffsetInvariant, PTL

\* What rounding up gives: the least number of pages that hold t rows.
LEMMA RoundedUp ==
    ASSUME NEW t \in Nat, NEW s \in Nat \ {0}, NEW p \in Nat \ {0}
    PROVE  /\ t <= p * s => p >= (t + s - 1) \div s
           /\ (p - 1) * s < t => p <= (t + s - 1) \div s
<1> DEFINE q == (t + s - 1) \div s
<1>1. q \in Nat /\ q * s <= t + s - 1 /\ t + s - 1 < q * s + s
  BY SMTT(30)
<1>2. \A a, b \in Nat : a >= b => a * s >= b * s
  BY SMTT(30)
<1>3. (p + 1) * s = p * s + s /\ p * s = (p - 1) * s + s /\ p * s \in Nat /\ (p - 1) * s \in Nat
  BY Products, SMTT(30)
<1> HIDE DEF q
<1>4. ASSUME t <= p * s PROVE p >= q
  <2>1. q >= p + 1 => q * s >= p * s + s
    BY <1>1, <1>2, <1>3
  <2>2. q * s \in Nat
    BY <1>1, SMTT(30)
  <2> QED
    BY <1>1, <1>3, <1>4, <2>1, <2>2
<1>5. ASSUME (p - 1) * s < t PROVE p <= q
  <2>1. p - 1 >= q => (p - 1) * s >= q * s
    BY <1>1, <1>2
  <2>2. q * s \in Nat
    BY <1>1, SMTT(30)
  <2> QED
    BY <1>1, <1>3, <1>5, <2>1, <2>2
<1> QED
  BY <1>4, <1>5 DEF q

(***************************************************************************)
(* As long as no row is written, total_pages of listNotifications is right *)
(* for any page size: the select finds a row beyond the page exactly when  *)
(* the count says that there are further pages.                            *)
(***************************************************************************)
THEOREM CountTheorem == Spec => []CountAgreesWithSelect
<1>1. CursorInv /\ OffsetInv => CountAgreesWithSelect
  <2> SUFFICES ASSUME TypeOK, OffsetInv, query.mode = "offset", quiet
               PROVE  /\ pc = "done" => page >= totalPages
                      /\ pc = "count" /\ page > 1 => page <= totalPages
    BY DEF CursorInv, CountAgreesWithSelect
  <2>1. PagesCounted
    BY DEF OffsetInv
  <2>2. total \in Nat /\ pageSize \in Nat \ {0} /\ page \in Nat \ {0}
    BY PageSizePositive DEF TypeOK
  <2>3. /\ total <= page * pageSize => page >= totalPages
        /\ (page - 1) * pageSize < total => page <= totalPages
    BY <2>2, RoundedUp DEF totalPages
  <2> QED
    BY <2>1, <2>3 DEF PagesCounted
<1> QED
  BY <1>1, OffsetInvariant, PTL
=============================================================================
