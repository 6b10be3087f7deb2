------------------------------- MODULE Reports -------------------------------
(***************************************************************************)
(* What a member of staff sees of many cases at once: the numbers of       *)
(* stats/stats.module.ts, read by several queries at a time, the page      *)
(* packages/ui/src/pages/AnalyticsPage.tsx that filters them, and the      *)
(* first page (Dashboard.tsx) with the table of components/DataTable.tsx.  *)
(* Meanwhile others move, pause and archive the cases.                     *)
(*                                                                         *)
(* An instant is 2d (the midnight day d begins with) or 2d + 1 (during     *)
(* that day); a month has DaysPerMonth days.  Facts are the columns of a   *)
(* case that nothing here changes, a name the number of its place in the   *)
(* order of names.  MaxMoves bounds what others do, MaxChoices how often   *)
(* the viewer changes the filters or the page.                             *)
(***************************************************************************)
EXTENDS Integers, SequencesExt, Workflow

CONSTANTS
  Cases, Facts,          \* Facts[c] : [owner, branch, amount, product, created, name]
  Start,                 \* the rows at first
  Viewers,               \* who may look: [role, id, branches]
  Branches, RegionOf,
  Terms,                 \* what may be typed to search
  Today, DaysPerMonth, DaysPerWeek, Months,
  PageSize, MaxMoves, MaxChoices, Null

VARIABLES
  viewer,     \* who looks
  rows,       \* [Cases -> [status, archived, paused, late]]
  order,      \* the cases, last updated first
  moves,      \* what others have done so far
  filters,    \* the analytics page: [range, from, to, branch, region]
  choices,    \* how often they were changed, or the page left
  request,    \* the request for numbers the page waits for, or Null
  numbers,    \* the answer on the page, or Null; one kept from an earlier visit is left out
  place,      \* "analytics", "active" or "archived" (the tabs of the first page)
  lists,      \* the last lists fetched for the two tabs: sequences of cases
  fetching,   \* tabs whose list is being fetched
  table       \* the table on screen: [q, at, sort]

db == <<rows, order, moves>>
client == <<filters, choices, place, lists, fetching, table>>
vars == <<viewer, db, client, request, numbers>>

ReportsAssumption ==
  /\ PageSize \in Nat \ {0} /\ Months \in Nat \ {0} /\ {Today, MaxMoves, MaxChoices} \subseteq Nat
  /\ DaysPerMonth \in Nat \ {0} /\ DaysPerWeek \in Nat

-----------------------------------------------------------------------------
(***************************************************************************)
(* The server: whose cases are counted and listed.                         *)
(***************************************************************************)
NoFilter == [range |-> "all", from |-> Null, to |-> Null, branch |-> Null, region |-> Null]

MonthOf(day) == day \div DaysPerMonth

FirstOfMonth(m) == m * DaysPerMonth

\* computeRange: the instants asked for; "during today" is the present.
ComputeRange(f) ==
  CASE f.range = "week" -> [from |-> 2 * (Today - DaysPerWeek) + 1, to |-> Null]
    [] f.range = "month" -> [from |-> 2 * FirstOfMonth(MonthOf(Today)), to |-> Null]
    [] f.range = "prev" -> [from |-> 2 * FirstOfMonth(MonthOf(Today) - 1),
                            to |-> 2 * FirstOfMonth(MonthOf(Today)) - 1]
    [] f.range = "custom" -> [from |-> f.from, to |-> f.to]
    [] OTHER -> [from |-> Null, to |-> Null]

\* Mutant of CanDrill: the branch asked for is looked into for everybody.
CanDrillAll == TRUE

CanDrill == viewer.role \in {"ADMIN", "DIRECTOR"}

\* A branch asked for takes the place of the branches of the scope (where.branchId).
Drilled(c, f) ==
  /\ viewer.role = "OPERATOR" => Facts[c].owner = viewer.id
  /\ IF CanDrill /\ f.branch # Null THEN Facts[c].branch = f.branch
     ELSE /\ viewer.role = "MODERATOR" => Facts[c].branch \in viewer.branches
          /\ CanDrill /\ f.region # Null => RegionOf[Facts[c].branch] = f.region

\* The where clause of all queries of one request.
Counted(f) ==
  LET range == ComputeRange(f) IN
  { c \in Cases : /\ ~rows[c].archived
                  /\ Drilled(c, f)
                  /\ range.from # Null => Facts[c].created >= range.from
                  /\ range.to # Null => Facts[c].created <= range.to }

PipelineStatuses == {"MODERATION", "DIRECTOR_REVIEW", "ADMIN_FINALIZE", "FINALIZED", "CANCELLED"}

Listed(c) ==
  /\ ~rows[c].archived
  /\ viewer.role = "OPERATOR" => Facts[c].owner = viewer.id
  /\ viewer.role = "MODERATOR" => Facts[c].branch \in viewer.branches
  /\ viewer.role \in {"MODERATOR", "DIRECTOR"} => rows[c].status \in PipelineStatuses

\* listArchived, behind its guard: operators and administrators only.  (Its order, by the
\* moment a case was archived, is that of the last update: an archived case is not touched.)
Archived(c) ==
  /\ rows[c].archived
  /\ viewer.role \in {"OPERATOR", "ADMIN"}
  /\ viewer.role = "OPERATOR" => Facts[c].owner = viewer.id

-----------------------------------------------------------------------------
(***************************************************************************)
(* One request: five queries at a time, then the last cases, then the      *)
(* answer.  Each query sees the rows of its own moment.                    *)
(***************************************************************************)
Queries == {"byStatus", "all", "paused", "overdue"}

Asked(f) == [filters |-> f, left |-> Queries, found |-> [q \in Queries |-> {}]]

\* The page asks; the answer to what it asked before is no longer waited for.
Ask(f) ==
  /\ request' = Asked(f)
  /\ numbers' = Null

Result(q, f) ==
  LET counted == Counted(f) IN
  CASE q = "byStatus" -> { [id |-> c, status |-> rows[c].status] : c \in counted }
    [] q = "all" -> counted
    [] q = "paused" -> { c \in counted : rows[c].paused }
    [] q = "overdue" -> { c \in counted : HasDeadline(rows[c].status) /\ ~rows[c].paused /\ rows[c].late }

Read(q) ==
  /\ request # Null
  /\ q \in request.left
  /\ request' = [request EXCEPT !.left = @ \ {q}, !.found[q] = Result(q, request.filters)]
  /\ UNCHANGED <<viewer, db, client, numbers>>

Amount(c) == IF Facts[c].amount = Null THEN 0 ELSE Facts[c].amount

Total(set) == FoldSet(LAMBDA c, sum : sum + Amount(c), 0, set)

\* Count and amount of the last months, oldest first, empty ones too.
ByMonth(all) ==
  [ i \in 1..Months |->
      LET of == { c \in all : MonthOf(Facts[c].created \div 2) = MonthOf(Today) - (Months - i) }
      IN  [count |-> Cardinality(of), amount |-> Total(of)] ]

Summary(found) ==
  LET Of(status) == Cardinality({ r \in found["byStatus"] : r.status = status })
      all == found["all"]
  IN  [byStatus |-> [s \in Statuses |-> Of(s)],
       byBranch |-> [b \in Branches |-> Cardinality({ c \in all : Facts[c].branch = b })],
       byProduct |-> [p \in {"REAL_ESTATE", "AUTO"} |-> Cardinality({ c \in all : Facts[c].product = p })],
       byMonth |-> ByMonth(all),
       totalCases |-> Cardinality(all), totalAmount |-> Total(all),
       finalized |-> Of("FINALIZED"),
       active |-> Cardinality(all) - Of("FINALIZED") - Of("REJECTED"),
       paused |-> Cardinality(found["paused"]), overdue |-> Cardinality(found["overdue"])]

\* momDelta, in whole percents rounded half up.
MomDelta(previous, current) ==
  IF previous = 0 THEN IF current > 0 THEN 100 ELSE Null
  ELSE (200 * (current - previous) + previous) \div (2 * previous)

\* Math.round(100 * part / whole).
Percent(part, whole) == IF whole = 0 THEN 0 ELSE (200 * part + whole) \div (2 * whole)

\* What the cards of the page say of an answer.
Cards(summary) ==
  LET Delta(column) == IF Months < 2 THEN Null
                       ELSE MomDelta(summary.byMonth[Months - 1][column], summary.byMonth[Months][column])
  IN  [total |-> summary.totalCases, totalDelta |-> Delta("count"),
       amount |-> summary.totalAmount, amountDelta |-> Delta("amount"),
       finalized |-> summary.finalized, active |-> summary.active,
       approved |-> Percent(summary.finalized, summary.totalCases),
       overdue |-> summary.overdue, paused |-> summary.paused,
       shares |-> [s \in { t \in Statuses : summary.byStatus[t] > 0 } |->
                     Percent(summary.byStatus[s], summary.totalCases)],
       products |-> [p \in DOMAIN summary.byProduct |-> Percent(summary.byProduct[p], summary.totalCases)],
       topBranches |-> { b \in Branches : summary.byBranch[b] > 0 }]

\* The last cases are read when the other queries are done.
Answer ==
  /\ request # Null
  /\ request.left = {}
  /\ numbers' =
       [cards |-> Cards(Summary(request.found)),
        recent |-> LET counted == SelectSeq(order, LAMBDA c : c \in Counted(request.filters))
                   IN  SubSeq(counted, 1, IF Len(counted) < 5 THEN Len(counted) ELSE 5)]
  /\ request' = Null
  /\ UNCHANGED <<viewer, db, client>>

-----------------------------------------------------------------------------
(***************************************************************************)
(* The analytics page.                                                     *)
(***************************************************************************)
CanFilterBranch == viewer.role \in {"ADMIN", "DIRECTOR"}

Choose == choices < MaxChoices /\ choices' = choices + 1

ChosenFilters ==
  { [filters EXCEPT !.range = r] : r \in {"all", "week", "month", "prev", "custom"} }
  \union
  (IF filters.range # "custom" THEN {}
   ELSE { [filters EXCEPT !.from = 2 * d] : d \in 0..Today } \union { [filters EXCEPT !.to = 2 * d] : d \in 0..Today })
  \union
  (IF ~CanFilterBranch THEN {}
   ELSE { [filters EXCEPT !.region = g, !.branch = Null] : g \in Range(RegionOf) \union {Null} }
        \union { [filters EXCEPT !.branch = b] :
                    b \in {Null} \union { b \in Branches : filters.region \in {Null, RegionOf[b]} } })

\* Another filter is another query: until its answer is there the page shows none.
ChooseFilters(f) ==
  /\ place = "analytics"
  /\ Choose
  /\ f # filters
  /\ filters' = f
  /\ Ask(f)
  /\ UNCHANGED <<viewer, db, place, lists, fetching, table>>

-----------------------------------------------------------------------------
(***************************************************************************)
(* The first page and its table.                                           *)
(***************************************************************************)
FreshTable == [q |-> Null, at |-> 0, sort |-> Null]

OpenAnalytics ==
  /\ place # "analytics"
  /\ place' = "analytics"
  /\ filters' = NoFilter /\ table' = FreshTable
  /\ Choose
  /\ Ask(NoFilter)
  /\ UNCHANGED <<viewer, db, lists, fetching>>

\* The first page fetches its list; the one it had is shown meanwhile.  (Its cards show the
\* numbers without a filter, those the analytics page begins with; they are left out here.)
OpenFirstPage ==
  /\ place = "analytics"
  /\ place' = "active"
  /\ filters' = NoFilter
  /\ fetching' = fetching \union {"active"}
  /\ Choose
  /\ request' = Null /\ numbers' = Null
  /\ UNCHANGED <<viewer, db, lists, table>>

\* The other tab has a table of its own; only the archive is fetched when it is opened.
ChooseTab(tab) ==
  /\ place \in {"active", "archived"} \ {tab}
  /\ place' = tab
  /\ table' = FreshTable
  /\ fetching' = IF tab = "archived" THEN fetching \union {tab} ELSE fetching
  /\ UNCHANGED <<viewer, db, request, numbers, filters, choices, lists>>

FetchList(tab) ==
  /\ tab \in fetching
  /\ fetching' = fetching \ {tab}
  /\ lists' = [lists EXCEPT ![tab] =
       SelectSeq(order, LAMBDA c : IF tab = "active" THEN Listed(c) ELSE Archived(c))]
  /\ UNCHANGED <<viewer, db, request, numbers, filters, choices, place, table>>

\* The search field: borrower and branch, in the archive borrower and creator; a term stands
\* for the rows it matches.
Matches(c, q) ==
  q \in {Null, Facts[c].name, IF place = "active" THEN Facts[c].branch ELSE Facts[c].owner}

Filtered == SelectSeq(lists[place], LAMBDA c : Matches(c, table.q))

SortValue(c, key) ==
  CASE key = "amount" -> Amount(c)
    [] key = "borrowerName" -> Facts[c].name

\* A stable sort; a row without a value comes last in either direction.
Sorted ==
  LET found == Filtered IN
  IF table.sort = Null THEN found
  ELSE LET Value(i) == SortValue(found[i], table.sort.key)
           Precedes(i, j) ==
             CASE Value(i) = Null \/ Value(j) = Null -> Value(j) = Null /\ (Value(i) # Null \/ i < j)
               [] Value(i) = Value(j) -> i < j
               [] OTHER -> (Value(i) < Value(j)) <=> (table.sort.dir = "asc")
           index == SetToSortSeq(DOMAIN found, Precedes)
       IN  [k \in DOMAIN index |-> found[index[k]]]

PageCount == IF Filtered = <<>> THEN 1 ELSE (Len(Filtered) + PageSize - 1) \div PageSize

\* Mutant of SafePage: the page last chosen, however many pages there are now.
SafePageChosen == table.at

SafePage == IF table.at < PageCount THEN table.at ELSE PageCount - 1

Slice(page) ==
  LET sorted == Sorted IN
  SubSeq(sorted, page * PageSize + 1,
         IF (page + 1) * PageSize < Len(sorted) THEN (page + 1) * PageSize ELSE Len(sorted))

Type(q) ==
  /\ place # "analytics"
  /\ table.q # q
  /\ table' = [table EXCEPT !.q = q, !.at = 0]
  /\ UNCHANGED <<viewer, db, request, numbers, filters, choices, place, lists, fetching>>

\* Ascending, descending, none.
ToggleSort(key) ==
  /\ place # "analytics"
  /\ table' = [table EXCEPT !.at = 0, !.sort =
       IF @ = Null \/ @.key # key THEN [key |-> key, dir |-> "asc"]
       ELSE IF @.dir = "asc" THEN [key |-> key, dir |-> "desc"] ELSE Null]
  /\ UNCHANGED <<viewer, db, request, numbers, filters, choices, place, lists, fetching>>

Turn(step) ==
  /\ place # "analytics"
  /\ SafePage + step \in 0..(PageCount - 1)
  /\ table' = [table EXCEPT !.at = SafePage + step]
  /\ UNCHANGED <<viewer, db, request, numbers, filters, choices, place, lists, fetching>>

\* restoreCase, from a row of the archive: both lists are fetched again, the numbers are not.
Restore(c) ==
  /\ place = "archived"
  /\ c \in Range(Slice(SafePage))
  /\ rows[c].archived
  /\ rows' = [rows EXCEPT ![c].archived = FALSE]
  /\ order' = <<c>> \o Remove(order, c)
  /\ fetching' = {"active", "archived"}
  /\ UNCHANGED <<viewer, moves, request, numbers, filters, choices, place, lists, table>>

-----------------------------------------------------------------------------
(***************************************************************************)
(* Others at work on the cases.                                            *)
(***************************************************************************)
Changed(c, row) ==
  /\ moves < MaxMoves
  /\ moves' = moves + 1
  /\ rows' = [rows EXCEPT ![c] = row]
  /\ order' = <<c>> \o Remove(order, c)
  /\ UNCHANGED <<viewer, client, request, numbers>>

Move(c) ==
  \E t \in Transitions :
    /\ t.from = rows[c].status /\ ~rows[c].archived
    /\ Changed(c, [rows[c] EXCEPT !.status = t.to, !.paused = FALSE, !.late = FALSE])

Archive(c) ==
  /\ rows[c].status = "DRAFT" /\ ~rows[c].archived
  /\ Changed(c, [rows[c] EXCEPT !.archived = TRUE])

Pause(c) ==
  /\ HasDeadline(rows[c].status) /\ ~rows[c].paused
  /\ Changed(c, [rows[c] EXCEPT !.paused = TRUE])

\* Time passes the deadline of a step; nothing is written.
FallLate(c) ==
  /\ HasDeadline(rows[c].status) /\ ~rows[c].late
  /\ moves < MaxMoves
  /\ moves' = moves + 1
  /\ rows' = [rows EXCEPT ![c].late = TRUE]
  /\ UNCHANGED <<viewer, order, client, request, numbers>>

-----------------------------------------------------------------------------
Init ==
  /\ viewer \in Viewers
  /\ rows = Start
  /\ order = SetToSortSeq(Cases, LAMBDA c, d : Facts[c].created > Facts[d].created)
  /\ moves = 0 /\ choices = 0
  /\ filters = NoFilter /\ numbers = Null
  /\ place \in {"active", "analytics"} /\ fetching = {place} \ {"analytics"}
  /\ request = IF place = "analytics" THEN Asked(NoFilter) ELSE Null
  /\ lists = [tab \in {"active", "archived"} |-> <<>>]
  /\ table = FreshTable

Next ==
  \/ \E q \in Queries : Read(q)
  \/ Answer
  \/ OpenAnalytics \/ OpenFirstPage
  \/ \E f \in ChosenFilters : ChooseFilters(f)
  \/ \E tab \in {"active", "archived"} : ChooseTab(tab) \/ FetchList(tab)
  \/ \E q \in Terms \union {Null} : Type(q)
  \/ \E key \in {"amount", "borrowerName"} : ToggleSort(key)
  \/ \E by \in {-1, 1} : Turn(by)
  \/ \E c \in Cases : Restore(c) \/ Move(c) \/ Archive(c) \/ Pause(c) \/ FallLate(c)

(***************************************************************************)
(* The numbers of a member of staff are those of the cases they may see:   *)
(* whatever branch or region is in the request, it only takes cases away,  *)
(* and a case in the list is one the numbers count (scopeFor, list).       *)
(***************************************************************************)
NumbersOfOwnScope ==
  LET own == Counted(NoFilter) IN
  /\ { c \in Cases : Listed(c) } \subseteq own
  /\ \A b \in Branches \union {Null}, g \in Range(RegionOf) \union {Null} :
       Counted([NoFilter EXCEPT !.branch = b, !.region = g]) \subseteq own

(***************************************************************************)
(* Turning the pages of the table shows every row the search matches, each *)
(* once, also after rows went away under it: a page is empty only when no  *)
(* row matches (safePage).                                                 *)
(***************************************************************************)
PagesShowAll ==
  place # "analytics" =>
    /\ Slice(SafePage) = <<>> => Filtered = <<>>
    /\ LET sorted == Sorted IN
       /\ FlattenSeq([k \in 1..PageCount |-> Slice(k - 1)]) = sorted
       /\ ToSet(sorted) = ToSet(Filtered) /\ Len(sorted) = Len(Filtered)
=============================================================================
