----------------------------- MODULE Pagination -----------------------------
(***************************************************************************)
(* Page by page reads of a collection that others write to: the offset and *)
(* cursor finders of infrastructure/mongodb/model (FindByOffset,           *)
(* FindByCursor, FindWithCursor) and of infrastructure/clickhouse/model    *)
(* (FindByOffset, FindWithFilters, FindByCursor), with the query builder.  *)
(*                                                                         *)
(* A document is its _id, a number; Stamp gives the timestamp a ClickHouse *)
(* row is sorted by, which several rows may share.  One find reads the     *)
(* store at one moment (its rows come in one batch).                       *)
(***************************************************************************)
EXTENDS Integers, Sequences, FiniteSets, SequencesExt

CONSTANTS
    MaxId,           \* bound: the largest _id that may ever be stored
    Stamp,           \* Stamp[d]: the timestamp column of row d
    TimeField,       \* the row type has that column, as a time.Time
    DefaultPerPage,  \* the 25 of constants.go (20 in ClickHouse's FindByCursor)
    MaxPerPage,      \* the 300 of constants.go
    MaxOffsetSkip,   \* the 500 of mongodb/model/constants.go
    MaxOffset,       \* the 10000 of clickhouse/model/constants.go
    DefaultOrder,    \* TableConfig.DefaultOrder
    PerPages,        \* the perPage values a caller asks for
    Filters,         \* the filters a caller asks for, sequences of conditions
    MaxWrites,       \* bound: writes during one walk
    MaxFaults        \* bound: failed reads during one walk

Ids == 1 .. MaxId

ASSUME PaginationAssumption ==
    /\ MaxId \in Nat /\ Stamp \in [Ids -> Nat \ {0}] /\ TimeField \in BOOLEAN
    /\ DefaultPerPage \in Nat \ {0} /\ MaxPerPage \in Nat \ {0}
    /\ MaxOffsetSkip \in Nat /\ MaxOffset \in Nat
    /\ DefaultOrder \in {"ASC", "DESC"}
    /\ PerPages \subseteq Nat /\ MaxWrites \in Nat /\ MaxFaults \in Nat

CursorFinders == {"FindByCursor", "FindWithCursor", "Table.FindByCursor"}
OffsetFinders == {"FindByOffset", "Table.FindByOffset", "Table.FindWithFilters"}
Tables        == {"Table.FindByCursor", "Table.FindByOffset", "Table.FindWithFilters"}

Nil == -1            \* no cursor

VARIABLES
    store,      \* the documents of the collection
    session,    \* how the caller pages: finder, direction, perPage and filter
    pc,         \* idle, ready, half (between an offset finder's two reads), ended, back
    half,       \* what the first read of an offset finder returned
    page,       \* the page the caller was given last
    prior,      \* the items of the page before it
    seen,       \* every item returned in this walk, in the order it was read
    steady,     \* documents present since the walk began
    quiet,      \* nothing was written since the walk began
    cut,        \* a read of this walk was cut short without an error
    writes,     \* writes since the walk began
    faults      \* failed reads since the walk began

vars == <<store, session, pc, half, page, prior, seen, steady, quiet, cut, writes, faults>>

-----------------------------------------------------------------------------
(* query_builder.go: a condition contributes placeholders to the text of   *)
(* the query and arguments to its argument list.                           *)

(* key is "_id" or another field, which has the document's number too. *)
Cond(key, op, value, end) == [key |-> key, op |-> op, value |-> value, end |-> end]

Where(c) == [marks |-> IF c.op = "BETWEEN" THEN 2 ELSE 1, args |-> <<c.value>>]

WhereFilter_OneArg(c) == Where(c)

WhereFilter(c) == IF c.op = "BETWEEN" THEN [marks |-> 2, args |-> <<c.value, c.end>>]
                  ELSE Where(c)

(* The server refuses a query whose arguments do not fill its placeholders. *)
WhereFilters(filters) ==
    \A i \in DOMAIN filters :
        WhereFilter(filters[i]).marks = Len(WhereFilter(filters[i]).args)

(* A Map filter of ClickHouse is a set of equalities. *)
WhereMap(filters) == \A i \in DOMAIN filters : filters[i].op = "="

Holds(d, c) ==
    CASE c.op = "="       -> d = c.value
      [] c.op = "!="      -> d # c.value
      [] c.op = "IN"      -> d \in c.value
      [] c.op = "NOT IN"  -> d \notin c.value
      [] c.op = "BETWEEN" -> c.value <= d /\ d <= c.end

Matching(S) == {d \in S : \A i \in DOMAIN session.filter : Holds(d, session.filter[i])}

(* A Mongo filter is a map with one entry per field, and a cursor becomes   *)
(* its entry for _id: what the caller asked of _id itself is overwritten.   *)
Uncursored(S) == {d \in S : \A i \in DOMAIN session.filter :
                     session.filter[i].key = "_id" \/ Holds(d, session.filter[i])}

OwnId(filter) == \E i \in DOMAIN filter : filter[i].key = "_id"

(* A sort that is missing or malformed is the table's default. *)
ParseSort(sort) == IF sort \in {"ASC", "DESC"} THEN sort ELSE DefaultOrder

-----------------------------------------------------------------------------
(* Rows as the servers sort them: the i-th has i - 1 others before it.      *)
(* Rows with equal timestamps come in an order that may differ from one     *)
(* query to the next: flip chooses it.                                      *)

Sorted(S, before) ==
    [i \in 1 .. Cardinality(S) |->
        CHOOSE d \in S : Cardinality({e \in S : <<e, d>> \in before}) = i - 1]

IdOrder(asc) == {p \in Ids \X Ids : IF asc THEN p[1] < p[2] ELSE p[2] < p[1]}

TimeOrder(asc, flip) ==
    {p \in Ids \X Ids :
        \/ IF asc THEN Stamp[p[1]] < Stamp[p[2]] ELSE Stamp[p[2]] < Stamp[p[1]]
        \/ Stamp[p[1]] = Stamp[p[2]] /\ IF flip THEN p[1] < p[2] ELSE p[2] < p[1]}

(* As functions of the rows, so that TLC sorts each set once. *)
IdsSorted   == [asc \in BOOLEAN |-> [S \in SUBSET Ids |-> Sorted(S, IdOrder(asc))]]
TimesSorted == [asc \in BOOLEAN |-> [flip \in BOOLEAN |-> [S \in SUBSET Ids |->
                   Sorted(S, TimeOrder(asc, flip))]]]

ById(S, asc)         == IdsSorted[asc][S]
ByTime(S, asc, flip) == TimesSorted[asc][flip][S]

Take(s, n) == SubSeq(s, 1, IF n < Len(s) THEN n ELSE Len(s))
Drop(s, n) == SubSeq(s, n + 1, Len(s))

(* The rows of a SELECT, with the LIMIT and OFFSET that are not zero. *)
BuildSelect(rows, limit, offset) ==
    LET rest == IF offset > 0 THEN Drop(rows, offset) ELSE rows
    IN  IF limit > 0 THEN Take(rest, limit) ELSE rest

BuildCount == Cardinality(Matching(store))

(* The zero time for a row type without such a field. *)
getTimestampFromItem(d) == IF TimeField THEN Stamp[d] ELSE 0

(* What a cursor finder returns. *)
Page(items, hasNext, hasPrev, next, prev) ==
    [items |-> items, hasNext |-> hasNext, hasPrev |-> hasPrev, next |-> next, prev |-> prev]

NoPage == Page(<<>>, FALSE, FALSE, Nil, Nil)

(* The limit both FindByCursor methods use when the caller's is out of range. *)
LimitOf(perPage) == IF perPage <= 0 \/ perPage > MaxPerPage THEN DefaultPerPage ELSE perPage

(* Mongo FindByCursor, direction 1 or -1.  It reads limit + 1 documents if  *)
(* there are that many, and never asks the driver whether the iteration    *)
(* failed: it may stop after the first n.  Its callers take the cursor from *)
(* the items: the last one going forward and the first one going back.     *)
(* The cursor is written into the caller's own map: a later walk that       *)
(* reuses the map is a session whose filter has a condition on _id.         *)
CursorDocs(cursor, dir, n) ==
    LET found == IF cursor = Nil THEN Matching(store)
                 ELSE {d \in Uncursored(store) : IF dir = 1 THEN d > cursor ELSE d < cursor}
    IN  Take(ById(found, dir = 1), n)

CursorPage(items, cursor, dir, more) ==
    Page(items,
         IF dir = 1 THEN more ELSE cursor # Nil,
         IF dir = -1 THEN more ELSE cursor # Nil,
         IF items = <<>> THEN Nil ELSE items[Len(items)],
         IF items = <<>> THEN Nil ELSE items[1])

FindByCursor_Unreversed(cursor, dir, n) ==
    LET docs == CursorDocs(cursor, dir, n)
    IN  CursorPage(Take(docs, LimitOf(session.perPage)), cursor, dir,
                   Len(docs) > LimitOf(session.perPage))

FindByCursor(cursor, dir, n) ==
    LET docs  == CursorDocs(cursor, dir, n)
        items == Take(docs, LimitOf(session.perPage))
    IN  CursorPage(IF dir = 1 THEN items ELSE Reverse(items), cursor, dir,
                   Len(docs) > LimitOf(session.perPage))

(* buildCursorFilter: the four combinations of direction and sort order, in *)
(* a copy of the caller's map.  Callers pass the cursors they were given, so *)
(* the one that does not parse, and is ignored, is not asked for.            *)
buildCursorFilter(cursor, next) ==
    IF cursor = Nil THEN Matching(store)
    ELSE {d \in Uncursored(store) : IF next = session.asc THEN d > cursor ELSE d < cursor}

(* Mongo FindWithCursor.  The sort order is SortAsc in both directions, and *)
(* going back reverses what was read.                                       *)
FindWithCursor_ExtraLast(cursor, next) ==
    LET limit == IF session.perPage <= 0 THEN MaxPerPage ELSE session.perPage
        rows  == Take(ById(buildCursorFilter(cursor, next), session.asc), limit + 1)
        items == Take(rows, limit)
    IN  IF items = <<>> THEN NoPage
        ELSE Page(items, Len(rows) > limit, cursor # Nil, rows[Len(rows)], rows[1])

FindWithCursor(cursor, next) ==
    LET limit == IF session.perPage <= 0 THEN MaxPerPage ELSE session.perPage
        rows  == Take(ById(buildCursorFilter(cursor, next), session.asc), limit + 1)
        more  == Len(rows) > limit
        items == Take(rows, limit)
        first == rows[1]
        last  == IF more THEN rows[Len(rows) - 1] ELSE rows[Len(rows)]
    IN  IF items = <<>> THEN NoPage
        ELSE IF next THEN Page(items, more, cursor # Nil, IF more THEN last ELSE Nil,
                               IF cursor # Nil THEN first ELSE Nil)
        ELSE Page(Reverse(items), cursor # Nil, more, IF cursor # Nil THEN first ELSE Nil,
                  IF more THEN last ELSE Nil)

(* ClickHouse FindByCursor: the cursor is a timestamp, compared strictly;   *)
(* the sort order is SortAsc in both directions and nothing is reversed.    *)
TableFindByCursor_Swapped(cursor, next, flip) ==
    LET rows  == ByTime({d \in Matching(store) :
                            \/ cursor = Nil
                            \/ IF next # session.asc THEN Stamp[d] > cursor ELSE Stamp[d] < cursor},
                        session.asc, flip)
        items == Take(rows, LimitOf(session.perPage))
    IN  IF items = <<>> THEN NoPage
        ELSE Page(items, Len(rows) > Len(items), cursor # Nil,
                  Stamp[items[Len(items)]], Stamp[items[1]])

TableFindByCursor(cursor, next, flip) ==
    LET limit == LimitOf(session.perPage)
        rows  == BuildSelect(ByTime({d \in Matching(store) :
                                       \/ cursor = Nil
                                       \/ IF next = session.asc THEN Stamp[d] > cursor
                                          ELSE Stamp[d] < cursor},
                                    session.asc, flip), limit + 1, 0)
        more  == Len(rows) > limit
        items == Take(rows, limit)
    IN  IF items = <<>> THEN NoPage
        ELSE Page(items, IF next THEN more ELSE cursor # Nil, IF next THEN cursor # Nil ELSE more,
                  getTimestampFromItem(items[Len(items)]), getTimestampFromItem(items[1]))

-----------------------------------------------------------------------------
(* The walk: the caller opens a session and asks for one page after the    *)
(* other, following the cursors and flags it was given.                    *)

Init ==
    /\ store \in SUBSET Ids
    /\ session = [finder |-> "none", asc |-> TRUE, perPage |-> 0, filter |-> <<>>]
    /\ pc = "idle" /\ half = <<>> /\ page = NoPage /\ prior = <<>> /\ seen = <<>>
    /\ steady = {} /\ quiet = TRUE /\ cut = FALSE /\ writes = 0 /\ faults = 0

(* Only the offset finders of ClickHouse take their order as text. *)
Open(finder, sort, perPage, filter) ==
    /\ pc = "idle"
    /\ finder = "Table.FindByOffset" => WhereMap(filter)
    /\ session' = [finder |-> finder, perPage |-> perPage, filter |-> filter,
                    asc |-> IF finder \in OffsetFinders \cap Tables THEN ParseSort(sort) = "ASC"
                            ELSE sort = "ASC"]
    /\ pc' = "ready"
    /\ steady' = store
    /\ page' = IF finder \in OffsetFinders THEN [number |-> 0, total |-> 0] ELSE NoPage
    /\ UNCHANGED <<store, half, prior, seen, quiet, cut, writes, faults>>

sessionVars == <<store, session, steady, quiet, writes>>

(* The page came back: the walk goes on while the finder says there is more. *)
Got(p, more, read) ==
    /\ page' = p
    /\ prior' = page.items
    /\ seen' = seen \o read
    /\ pc' = IF more THEN "ready" ELSE "ended"

(* A cursor is known from the second page on. *)
Cursor(cursor) == IF seen = <<>> /\ page = NoPage THEN Nil ELSE cursor

NextByCursor ==
    /\ pc = "ready" /\ session.finder = "FindByCursor"
    /\ \E n \in 0 .. LimitOf(session.perPage) + 1 :
         LET dir    == IF session.asc THEN 1 ELSE -1
             cursor == Cursor(IF session.asc THEN page.next ELSE page.prev)
             p      == FindByCursor(cursor, dir, n)
             short  == p # FindByCursor(cursor, dir, LimitOf(session.perPage) + 1)
         IN  /\ short => faults < MaxFaults
             /\ Got(p, IF session.asc THEN p.hasNext ELSE p.hasPrev,
                    IF session.asc THEN p.items ELSE Reverse(p.items))
             /\ cut' = (cut \/ short)
             /\ faults' = IF short THEN faults + 1 ELSE faults
    /\ UNCHANGED <<sessionVars, half>>

NextWithCursor ==
    /\ pc = "ready" /\ session.finder = "FindWithCursor"
    /\ LET p == FindWithCursor(Cursor(page.next), TRUE) IN Got(p, p.hasNext, p.items)
    /\ UNCHANGED <<sessionVars, half, cut, faults>>

NextByTime ==
    /\ pc = "ready" /\ session.finder = "Table.FindByCursor"
    /\ WhereFilters(session.filter)
    /\ \E flip \in BOOLEAN :
         LET p == TableFindByCursor(Cursor(page.next), TRUE, flip) IN Got(p, p.hasNext, p.items)
    /\ UNCHANGED <<sessionVars, half, cut, faults>>

(* Every other failure of a read is reported, and the caller asks again. *)
ReadFails ==
    /\ pc \in {"ready", "half"} /\ faults < MaxFaults
    /\ faults' = faults + 1
    /\ pc' = "ready" /\ half' = <<>>
    /\ UNCHANGED <<sessionVars, page, prior, seen, cut>>

-----------------------------------------------------------------------------
(* The offset finders make two reads, a page and a count, in the one order *)
(* (Mongo) or the other (ClickHouse).                                      *)

PerPageOf(perPage) == IF perPage > 0 /\ perPage <= MaxPerPage THEN perPage ELSE DefaultPerPage

SkipOf_PageTimes(number) == number * PerPageOf(session.perPage)

(* Beyond the cap Mongo starts again at the first document. *)
SkipOf(number) ==
    LET skip == (number - 1) * PerPageOf(session.perPage)
    IN  IF skip > MaxOffsetSkip THEN 0 ELSE skip

(* Beyond the cap ClickHouse stays at the cap. *)
OffsetOf(number) ==
    LET offset == (number - 1) * PerPageOf(session.perPage)
    IN  IF offset > MaxOffset THEN MaxOffset ELSE offset

TotalPages(total) == (total + PerPageOf(session.perPage) - 1) \div PerPageOf(session.perPage)

GotOffset(items, total) ==
    /\ page' = [number |-> page.number + 1, total |-> TotalPages(total)]
    /\ seen' = seen \o items
    /\ pc' = IF page.number + 1 < TotalPages(total) THEN "ready" ELSE "ended"
    /\ half' = <<>>
    /\ UNCHANGED <<sessionVars, prior, cut, faults>>

(* Mongo FindByOffset sorts as the caller's CommonOpts ask, here by _id. *)
FindByOffset ==
    /\ pc = "ready" /\ session.finder = "FindByOffset"
    /\ half' = Take(Drop(ById(Matching(store), session.asc), SkipOf(page.number + 1)),
                    PerPageOf(session.perPage))
    /\ pc' = "half"
    /\ UNCHANGED <<sessionVars, page, prior, seen, cut, faults>>

CountDocuments ==
    /\ pc = "half" /\ session.finder = "FindByOffset"
    /\ GotOffset(half, Cardinality(Matching(store)))

Count ==
    /\ pc = "ready" /\ session.finder \in OffsetFinders \cap Tables
    /\ WhereFilters(session.filter)
    /\ half' = <<BuildCount>>
    /\ pc' = "half"
    /\ UNCHANGED <<sessionVars, page, prior, seen, cut, faults>>

TableQuery(finder) ==
    /\ pc = "half" /\ session.finder = finder
    /\ \E flip \in BOOLEAN :
         GotOffset(BuildSelect(ByTime(Matching(store), session.asc, flip),
                               PerPageOf(session.perPage), OffsetOf(page.number + 1)), half[1])

TableFindByOffset == TableQuery("Table.FindByOffset")
FindWithFilters   == TableQuery("Table.FindWithFilters")

-----------------------------------------------------------------------------
(* Going back one page, on the cursor the last page gave. *)

Back(p) == page' = p /\ pc' = "back" /\ UNCHANGED <<sessionVars, half, prior, seen, cut, faults>>

CanGoBack == pc \in {"ready", "ended"} /\ page # NoPage /\ prior # <<>>

BackByCursor ==
    /\ session.finder = "FindByCursor" /\ CanGoBack /\ page.items # <<>>
    /\ LET n == LimitOf(session.perPage) + 1
       IN  IF session.asc THEN page.hasPrev /\ Back(FindByCursor(page.prev, -1, n))
           ELSE page.hasNext /\ Back(FindByCursor(page.next, 1, n))

BackWithCursor ==
    /\ session.finder = "FindWithCursor" /\ CanGoBack /\ page.hasPrev
    /\ Back(FindWithCursor(page.prev, FALSE))

BackByTime ==
    /\ session.finder = "Table.FindByCursor" /\ CanGoBack /\ page.hasPrev
    /\ \E flip \in BOOLEAN : Back(TableFindByCursor(page.prev, FALSE, flip))

-----------------------------------------------------------------------------
(* Writers, while a walk is under way.  ClickHouse's InsertBatch sends all  *)
(* rows or, when one cannot be appended, none; Mongo documents come one by  *)
(* one and may be deleted.                                                  *)

Write(S) ==
    /\ pc \in {"ready", "half"} /\ writes < MaxWrites
    /\ store' = S /\ S # store
    /\ writes' = writes + 1
    /\ quiet' = FALSE
    /\ UNCHANGED <<session, pc, half, page, prior, seen, cut, faults>>

CreateOne(d) == d \notin store /\ Write(store \cup {d}) /\ UNCHANGED steady

DeleteByID(d) ==
    /\ d \in store /\ session.finder \notin Tables
    /\ Write(store \ {d}) /\ steady' = steady \ {d}

InsertBatch(batch) == session.finder \in Tables /\ Write(store \cup batch) /\ UNCHANGED steady

Walk == NextByCursor \/ NextWithCursor \/ NextByTime \/ FindByOffset \/ CountDocuments
        \/ Count \/ TableFindByOffset \/ FindWithFilters

Next ==
    \/ \E f \in CursorFinders \cup OffsetFinders, sort \in {"ASC", "DESC", "other"},
          n \in PerPages, flt \in Filters : Open(f, sort, n, flt)
    \/ Walk
    \/ ReadFails
    \/ BackByCursor \/ BackWithCursor \/ BackByTime
    \/ \E d \in Ids : CreateOne(d) \/ DeleteByID(d)
    \/ \E a, b \in Ids : a < b /\ InsertBatch({a, b})

(* A caller that has a page with more behind it asks for the next. *)
Spec == Init /\ [][Next]_vars /\ WF_vars(Walk)

-----------------------------------------------------------------------------
(* The cursor finders whose cursor tells where the page ended: a ClickHouse *)
(* row type without the timestamp as a time.Time gets the zero time, which  *)
(* is before every row.                                                     *)
Keyed == IF TimeField THEN CursorFinders ELSE CursorFinders \ Tables

(* A cursor walk returns its documents in the order of the sort and none of *)
(* them twice, whatever is written between two pages                        *)
(* (mongodb/model/methods.go:171, clickhouse/model/methods.go:436).         *)
WalkOrdered ==
    session.finder \in Keyed =>
        \A i, j \in DOMAIN seen : i < j =>
            /\ seen[i] # seen[j]
            /\ LET a == IF session.finder \in Tables THEN Stamp[seen[i]] ELSE seen[i]
                   b == IF session.finder \in Tables THEN Stamp[seen[j]] ELSE seen[j]
               IN  a = b \/ (a < b) = session.asc

(* When a cursor walk ends, every matching document that was in the         *)
(* collection all along was returned, although others came and went and     *)
(* reads failed and were repeated.  Two exceptions, of the code: a          *)
(* FindByCursor whose iteration broke off (it never looks at cursor.Err),   *)
(* and ClickHouse rows with the timestamp of a row that ended a page.       *)
WalkComplete ==
    pc = "ended" /\ session.finder \in Keyed /\ ~cut =>
        \A d \in Matching(steady) :
            \/ d \in ToSet(seen)
            \/ session.finder \in Tables /\ \E e \in ToSet(seen) : e # d /\ Stamp[e] = Stamp[d]

(* Pages 1 to TotalPages of an offset walk over a collection nobody writes  *)
(* to are the sorted collection cut into pieces, as long as the last page   *)
(* is within the cap on the offset and the sort key tells rows apart.       *)
OffsetPages ==
    LET S == Matching(store)
        Table == session.finder \in Tables
    IN  pc = "ended" /\ session.finder \in OffsetFinders /\ quiet
        /\ (page.number - 1) * PerPageOf(session.perPage)
                <= (IF Table THEN MaxOffset ELSE MaxOffsetSkip)
        /\ (Table => \A d, e \in S : d # e => Stamp[d] # Stamp[e])
            => seen = IF Table THEN ByTime(S, session.asc, TRUE) ELSE ById(S, session.asc)

(* Mongo FindByCursor: in a quiet collection, going back from a page        *)
(* returns the page the caller came from, in the same order, unless the     *)
(* filter has a condition on _id, which the cursor overwrites               *)
(* (mongodb/model/methods.go:225).                                          *)
BackReturns ==
    pc = "back" /\ quiet /\ session.finder = "FindByCursor" /\ ~OwnId(session.filter)
        => page.items = prior

(* Mongo FindWithCursor: the previous page, which PrevCursor is "to fetch"  *)
(* (mongodb/model/types.go:211), is the page the caller came from.          *)
PreviousPage ==
    pc = "back" /\ quiet /\ session.finder = "FindWithCursor" => page.items = prior

(* A caller that follows HasNext and the cursors, or the page numbers up to *)
(* TotalPages, comes to the end, also where the finders cap the limit and   *)
(* the offset (mongodb/model/methods.go FindByOffset, clickhouse/model).    *)
WalkEnds ==
    pc \in {"ready", "half"} /\ session.finder \in Keyed \cup OffsetFinders
        ~> pc \in {"ended", "back"}
=============================================================================
