-------------------------------- MODULE Listings --------------------------------
(***************************************************************************)
(* The listings the services serve a page at a time.  Every request reads  *)
(* the whole listing, newest row first, finds the row that the cursor      *)
(* names and answers the rows after it; rows are inserted, change status   *)
(* and move in between.  One reader follows next_cursor to the end.        *)
(***************************************************************************)
EXTENDS Integers, Sequences, FiniteSets, SequencesExt, FiniteSetsExt

CONSTANTS
    Kinds,       \* the listings that may be read
    FirstRows,   \* the rows there are at the start, as listed
    LaterRows,   \* bound: the rows that may be inserted
    PageLimit,   \* the limit parameter
    NoListing

ASSUME ListingAssumption ==
    /\ Kinds \subseteq {"assets", "orders", "trades", "transactions", "users", "courses"}
    /\ PageLimit \in Nat \ {0} /\ NoListing \notin Kinds
    /\ FirstRows \in Seq(ToSet(FirstRows)) /\ IsInjective(FirstRows)   \* ids are unique
    /\ {"start", "end", "invalid"} \cap (ToSet(FirstRows) \cup LaterRows) = {}

VARIABLES
    kind,      \* the listing of this behaviour, chosen once
    rows,      \* its rows in the order of their sort keys
    passing,   \* those that pass the reader's filter
    settled,   \* trades with a settled_at
    cursor,    \* the next_cursor of the last page; "start", "end" and "invalid" besides
    shown,     \* what the reader was shown
    steady,    \* history: rows listed since the first page that have not changed or moved
    reshuffled \* history: a row that was shown has moved

listingVars == <<kind, rows, passing, settled, cursor, shown, steady, reshuffled>>

\* The rows of s that are in the set, in their order.
Filtered(s, set) ==
    LET kept[i \in 0..Len(s)] ==
            IF i = 0 THEN <<>>
            ELSE IF s[i] \in set THEN Append(kept[i-1], s[i]) ELSE kept[i-1]
    IN kept[Len(s)]

ListingInit ==
    /\ rows = FirstRows /\ passing \in {ToSet(FirstRows), ToSet(FirstRows) \ {FirstRows[2]}}
    /\ settled = {} /\ cursor = "start" /\ shown = <<>> /\ steady = {} /\ reshuffled = FALSE

-----------------------------------------------------------------------------
(* What happens to a listing between two pages                             *)

\* created_at is taken before the commit: a row may turn up behind others.
RowInserted ==
    \E r \in LaterRows \ ToSet(rows), i \in 1..Len(rows) + 1 :
        /\ kind # NoListing
        /\ rows' = InsertAt(rows, i, r) /\ passing' = passing \cup {r}
        /\ UNCHANGED <<kind, settled, cursor, shown, steady, reshuffled>>

Leaves(r) == r \in passing /\ passing' = passing \ {r}
Joins(r) == r \in ToSet(rows) \ passing /\ passing' = passing \cup {r}

RowChanges(r) ==
    /\ steady' = steady \ {r}
    /\ UNCHANGED <<kind, rows, settled, cursor, shown, reshuffled>>

\* Assets and orders change their status, users their role, and courses get published; the
\* reader filters by it.
AssetChanges(r) == kind = "assets" /\ (Leaves(r) \/ Joins(r)) /\ RowChanges(r)
OrderChanges(r) == kind = "orders" /\ (Leaves(r) \/ Joins(r)) /\ RowChanges(r)
UserChanges(r) == kind = "users" /\ (Leaves(r) \/ Joins(r)) /\ RowChanges(r)
CourseIsPublished(r) == kind = "courses" /\ Joins(r) /\ RowChanges(r)

\* Trades are sorted by coalesce(settled_at, created_at): settling moves one to the front.
TradeSettles(r) ==
    /\ kind = "trades" /\ r \in ToSet(rows) \ settled
    /\ rows' = <<r>> \o Filtered(rows, ToSet(rows) \ {r})
    /\ settled' = settled \cup {r}
    /\ steady' = steady \ {r}
    /\ reshuffled' = (reshuffled \/ r \in ToSet(shown))
    /\ UNCHANGED <<kind, passing, cursor, shown>>

-----------------------------------------------------------------------------
(* The page builders                                                       *)

Listing == Filtered(rows, passing)

\* The SELECTs: each orders by creation time and id, but for the trades.
ListAssets == Listing
ListUsers == Listing
ListCourses == Listing
ListOrders == Listing
ListTrades == Listing
ListWalletTransactions == Listing

Position(list, r) == CHOOSE i \in DOMAIN list : list[i] = r

\* start_index
StartAfter(list) == IF cursor = "start" THEN 0 ELSE Position(list, cursor)

PageFrom(list, start) == SubSeq(list, start + 1, Min({start + PageLimit, Len(list)}))

NextCursor(page, more) == IF more /\ page # <<>> THEN page[Len(page)] ELSE "end"

\* Mutant: the last row is taken for the end.
MoreThanOne(list, start) == start + PageLimit < Len(list) - 1

\* start_index + limit < len(rows)
MoreByLimit(list, start) == start + PageLimit < Len(list)

\* start_index + len(page) < len(rows)
MoreByPage(list, start) == start + Len(PageFrom(list, start)) < Len(list)

\* 400 or 422 invalid_cursor: the row is not in this result set any more.
CursorIsGone(list) == cursor # "start" /\ cursor \notin ToSet(list)

Answer(list, more) ==
    LET start == StartAfter(list)
        page == PageFrom(list, start)
    IN
    /\ cursor \notin {"end", "invalid"}
    /\ \/ /\ CursorIsGone(list)
          /\ cursor' = "invalid" /\ UNCHANGED <<shown, steady>>
       \/ /\ ~CursorIsGone(list)
          /\ shown' = shown \o page
          /\ cursor' = NextCursor(page, more)
          /\ steady' = IF cursor = "start" THEN ToSet(list) ELSE steady
    /\ UNCHANGED <<kind, rows, passing, settled, reshuffled>>

\* _build_page of the marketplace, and its copies in the other services
BuildPage(list) == Answer(list, MoreByPage(list, StartAfter(list)))
BuildAssetPage(list) == Answer(list, MoreByLimit(list, StartAfter(list)))
BuildUserPage(list) == Answer(list, MoreByLimit(list, StartAfter(list)))
BuildCoursePage(list) == Answer(list, MoreByLimit(list, StartAfter(list)))
BuildTransactionPage(list) == Answer(list, MoreByLimit(list, StartAfter(list)))

\* All but the transactions are filtered by the SELECT, these by _build_transaction_page.
GetAssets == kind = "assets" /\ BuildAssetPage(ListAssets)
GetUsers == kind = "users" /\ BuildUserPage(ListUsers)
GetCourses == kind = "courses" /\ BuildCoursePage(ListCourses)
GetTransactionHistory == kind = "transactions" /\ BuildTransactionPage(ListWalletTransactions)
GetOrders == kind = "orders" /\ BuildPage(ListOrders)
GetTradeHistory == kind = "trades" /\ BuildPage(ListTrades)

ListingNext ==
    \/ RowInserted
    \/ \E r \in ToSet(rows) :
          \/ AssetChanges(r) \/ OrderChanges(r) \/ UserChanges(r)
          \/ CourseIsPublished(r) \/ TradeSettles(r)
    \/ GetAssets \/ GetUsers \/ GetCourses
    \/ GetTransactionHistory \/ GetOrders \/ GetTradeHistory
=============================================================================
