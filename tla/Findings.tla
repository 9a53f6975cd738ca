------------------------------ MODULE Findings ------------------------------
(***************************************************************************)
(* src/dashboard/main.py: an analyst pages through the findings (or the    *)
(* crawled pages) while db_writer adds to them and analysts review them.   *)
(* A page is two queries, each with a snapshot of its own.  The handlers   *)
(* are coroutines that await nothing between their queries, so only        *)
(* another process comes in between.                                       *)
(***************************************************************************)
EXTENDS Naturals, Sequences, FiniteSets

CONSTANTS
    Finding,
    PageSize,           \* the values of per_page: Query(50, ge=1, le=200)
    DefaultPerPage      \* its default

ASSUME PerPageAssumption == PageSize \subseteq Nat \ {0} /\ DefaultPerPage \in PageSize

VARIABLES
    table,              \* intelligence_findings, by created_at: Seq(Finding)
    reviewed,           \* those reviewed
    filter,             \* filter_reviewed of the walk: "none", "open" or "reviewed"
    page,               \* the page asked for
    perPage,            \* per_page of the request
    phase,              \* of the request: "idle", "rows", "total", "shown"
    pages,              \* total_pages of the last page shown
    shown,              \* the findings shown so far
    \* history, in no line of the code
    opened,             \* per_page of the walk's first request
    atStart,            \* the findings the filter let through when the walk began
    gone                \* how many findings have left the filter since

findingsVars ==
    <<table, reviewed, filter, page, perPage, phase, pages, shown, opened, atStart, gone>>
walkVars == <<filter, page, perPage, phase, pages, shown, opened, atStart>>

Listed(f) ==
    CASE filter = "none"     -> TRUE
      [] filter = "open"     -> f \notin reviewed
      [] filter = "reviewed" -> f \in reviewed

Elements(s) == {s[i] : i \in DOMAIN s}

Total == Cardinality({i \in DOMAIN table : Listed(table[i])})

(* The place of row i in ORDER BY created_at DESC, among the rows listed.  *)
Rank(i) == Cardinality({k \in i..Len(table) : Listed(table[k])})

FindingsTypeOK ==
    /\ table \in Seq(Finding)
    /\ reviewed \in SUBSET Finding
    /\ filter \in {"none", "open", "reviewed"}
    /\ page \in Nat \ {0}
    /\ perPage \in PageSize /\ opened \in PageSize
    /\ phase \in {"idle", "rows", "total", "shown"}
    /\ pages \in Nat
    /\ shown \in SUBSET Finding
    /\ atStart \in SUBSET Finding
    /\ gone \in Nat

FindingsInit ==
    /\ table = <<>> /\ reviewed = {}
    /\ filter \in {"none", "open", "reviewed"}
    /\ perPage = DefaultPerPage /\ opened = DefaultPerPage
    /\ page = 1 /\ pages = 0 /\ phase = "idle" /\ shown = {}
    /\ atStart = {} /\ gone = 0

(* db_writer's transaction: created_at is its start, and db_writer is one  *)
(* process.                                                                *)
WriterAdds(f) ==
    /\ f \notin Elements(table)
    /\ table' = Append(table, f)
    /\ UNCHANGED <<reviewed, gone, walkVars>>

(* review_finding, at any time but within another request.                 *)
ReviewFinding(f) ==
    /\ phase # "total"
    /\ f \in Elements(table)
    /\ reviewed' = reviewed \cup {f}
    /\ gone' = IF phase # "idle" /\ filter = "open" /\ f \notin reviewed
                THEN gone + 1 ELSE gone
    /\ UNCHANGED <<table, walkVars>>

(* The list is opened with any page size.                                  *)
OpenList ==
    /\ phase = "idle"
    /\ phase' = "rows"
    /\ perPage' \in PageSize
    /\ opened' = perPage'
    /\ atStart' = {f \in Elements(table) : Listed(f)}
    /\ UNCHANGED <<table, reviewed, filter, page, pages, shown, gone>>

(* LIMIT per_page OFFSET (page - 1) * per_page                             *)
Rows ==
    {table[i] : i \in {k \in DOMAIN table :
        /\ Listed(table[k])
        /\ Rank(k) > (page - 1) * perPage
        /\ Rank(k) <= page * perPage}}

(* A mistake to catch: a last page that is not full is not counted.        *)
TotalOfFullPages(total) == total \div perPage

TotalPages(total) == (total + perPage - 1) \div perPage

(* The page's rows.                                                        *)
SelectRows ==
    /\ phase = "rows"
    /\ shown' = shown \cup Rows
    /\ phase' = "total"
    /\ UNCHANGED <<table, reviewed, filter, page, perPage, pages, opened, atStart, gone>>

(* SELECT COUNT( * ), with the same filter                                 *)
SelectCount ==
    /\ phase = "total"
    /\ pages' = TotalPages(Total)
    /\ phase' = "shown"
    /\ UNCHANGED <<table, reviewed, filter, page, perPage, shown, opened, atStart, gone>>

(* The link "Next", while there is a page left.  It carries the filters    *)
(* and drops per_page.                                                     *)
NextPage ==
    /\ phase = "shown"
    /\ page < pages
    /\ page' = page + 1
    /\ perPage' = DefaultPerPage
    /\ phase' = "rows"
    /\ UNCHANGED <<table, reviewed, filter, pages, shown, opened, atStart, gone>>

FindingsNext ==
    \/ \E f \in Finding : WriterAdds(f) \/ ReviewFinding(f)
    \/ OpenList
    \/ SelectRows
    \/ SelectCount
    \/ NextPage

FindingsSpec == FindingsInit /\ [][FindingsNext]_findingsVars

(***************************************************************************)
(* Properties                                                              *)
(***************************************************************************)
(* The rows between a first page shorter than the default and the page of  *)
(* default size that "Next" asks for are on neither.                       *)
Skipped ==
    IF page > 1 /\ opened < DefaultPerPage THEN DefaultPerPage - opened ELSE 0

(* Who follows "Next" to the end has seen every finding that was there at  *)
(* the start, whatever was added while walking, and between the two        *)
(* queries of a page, but for those a short first page skips; under the    *)
(* filter for open findings a review moves the rest up, so as many more    *)
(* may be missed as were reviewed.                                         *)
WalkComplete ==
    (phase = "shown" /\ page >= pages) => Cardinality(atStart \ shown) <= gone + Skipped
=============================================================================
