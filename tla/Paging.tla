-------------------------------- MODULE Paging --------------------------------
(* A client reads the observations, or the audit log, page by page, newest    *)
(* first, with the cursor each page hands out, while rows are written.        *)
(*                                                                            *)
(* Abstracted: a row is its id and the time it sorts by; a row that the query *)
(* stops matching is deleted.  The store is PostgreSQL, whose now() is when   *)
(* the transaction began, so a row can become visible with an older time.     *)
EXTENDS Naturals, FiniteSets, FiniteSetsExt

CONSTANTS MaxRow,          \* bound: rows are 1 .. MaxRow
          LastTime,        \* bound: the clock
          maxPage,         \* 500
          fallback,        \* 100: the limit of a request that names none
          NoRow            \* no row, no transaction, no listing, no cursor

RowIds == 1 .. MaxRow

ASSUME PagingAssumption ==
    /\ {MaxRow, LastTime, maxPage, fallback} \subseteq Nat \ {0}
    /\ NoRow \notin Nat \cup (Nat \X Nat)

VARIABLES list,            \* which list is read: "observations" or "audit"
          sortTime,        \* row -> last_seen, or ts
          writing,         \* row -> the time of the transaction that writes it
          pgNow,           \* the database's clock
          listing          \* the client's requests so far
pagingVars == <<list, sortTime, writing, pgNow, listing>>

PagingInit ==
    /\ list \in {"observations", "audit"}
    /\ sortTime = [i \in RowIds |-> NoRow]
    /\ writing = [i \in RowIds |-> NoRow]
    /\ pgNow = 1
    /\ listing = NoRow

Tick ==
    /\ pgNow < LastTime
    /\ pgNow' = pgNow + 1
    /\ UNCHANGED <<list, sortTime, writing, listing>>

\* A transaction upserts an observation, or appends an event, which is not there yet.
BeginWrite(i) ==
    /\ writing[i] = NoRow
    /\ list = "audit" => sortTime[i] = NoRow
    /\ writing' = [writing EXCEPT ![i] = pgNow]
    /\ UNCHANGED <<list, sortTime, pgNow, listing>>

Touched(i) == IF listing = NoRow THEN NoRow ELSE [listing EXCEPT !.steady = @ \ {i}]

CommitWrite(i) ==
    /\ writing[i] # NoRow
    /\ sortTime' = [sortTime EXCEPT ![i] = writing[i]]
    /\ writing' = [writing EXCEPT ![i] = NoRow]
    /\ listing' = Touched(i)
    /\ UNCHANGED <<list, pgNow>>

\* The retention deletes a row, or an observation's status leaves the filter.
RowLeaves(i) ==
    /\ sortTime[i] # NoRow
    /\ sortTime' = [sortTime EXCEPT ![i] = NoRow]
    /\ listing' = Touched(i)
    /\ UNCHANGED <<list, writing, pgNow>>

-----------------------------------------------------------------------------
(* The listing                                                                *)

\* Zero is a limit that was not given.
pageLimit(n) == IF n = 0 THEN fallback ELSE IF n > maxPage THEN maxPage ELSE n

\* (a) sorts after (b): it comes on a later page.
Before(t, i, u, j) == t < u \/ (t = u /\ i < j)

\* Mutant of AfterCursor: the time alone is compared.
AfterCursorTime(i, cursor) == cursor # NoRow => sortTime[i] < cursor[1]

AfterCursor(i, cursor) == cursor # NoRow => Before(sortTime[i], i, cursor[1], cursor[2])

\* The audit log's query has a limit of its own.
StoreLimit(n) == IF list = "audit" /\ n > maxPage THEN maxPage ELSE n

\* The first rows after the cursor, at most n of them.
ListRows(cursor, n) ==
    LET after == {i \in RowIds : sortTime[i] # NoRow /\ AfterCursor(i, cursor)}
        Newer(i) == {j \in after : Before(sortTime[i], i, sortTime[j], j)} IN
    {i \in after : Cardinality(Newer(i)) < StoreLimit(n)}

Last(page) ==
    CHOOSE i \in page : \A j \in page \ {i} : Before(sortTime[i], i, sortTime[j], j)

\* One row more than the limit is asked for: when it comes, it is dropped and the last
\* row kept is the cursor of the next page.
ListPage(limit, cursor, listed, steady) ==
    LET rows == ListRows(cursor, limit + 1)
        page == IF Cardinality(rows) > limit THEN rows \ {Last(rows)} ELSE rows IN
    listing' = [limit |-> limit,
                cursor |-> IF page = rows THEN NoRow ELSE <<sortTime[Last(page)], Last(page)>>,
                listed |-> [i \in RowIds |-> listed[i] + IF i \in page THEN 1 ELSE 0],
                steady |-> steady]

FirstPage ==
    /\ listing = NoRow
    /\ \E n \in 0 .. maxPage + 1 :
         ListPage(pageLimit(n), NoRow, [i \in RowIds |-> 0], {i \in RowIds : sortTime[i] # NoRow})
    /\ UNCHANGED <<list, sortTime, writing, pgNow>>

NextPage ==
    /\ listing # NoRow /\ listing.cursor # NoRow
    /\ ListPage(listing.limit, listing.cursor, listing.listed, listing.steady)
    /\ UNCHANGED <<list, sortTime, writing, pgNow>>

\* The client has what it wanted, or all there is.
StopListing ==
    /\ listing # NoRow
    /\ listing' = NoRow
    /\ UNCHANGED <<list, sortTime, writing, pgNow>>

PagingNext ==
    \/ Tick \/ FirstPage \/ NextPage \/ StopListing
    \/ \E i \in RowIds : BeginWrite(i) \/ CommitWrite(i) \/ RowLeaves(i)

PagingSpec == PagingInit /\ [][PagingNext]_pagingVars

-----------------------------------------------------------------------------
(* Properties.                                                                *)

LastPageRead == listing # NoRow /\ listing.cursor = NoRow

\* Every observation that was there when the client began and was not written since is
\* on exactly one page, however many rows moved, came and went in between.
SteadyRowsListedOnce ==
    list = "observations" =>
      /\ listing # NoRow => \A i \in listing.steady : listing.listed[i] <= 1
      /\ LastPageRead => \A i \in listing.steady : listing.listed[i] = 1

\* The same of the audit log, whose pages have a cursor too and at most 500 entries.  At
\* 500 the handler asks the store for 501 and the store gives 500 at most, so the page
\* is taken for the last one.
AuditIsListed ==
    list = "audit" /\ LastPageRead => \A i \in listing.steady : listing.listed[i] = 1
=============================================================================
