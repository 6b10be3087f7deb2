------------------------------- MODULE MCOffice -------------------------------
(***************************************************************************)
(* Parts of the system that share no state, each on a small instance.  One *)
(* run checks them one at a time: part is chosen in Init and the variables *)
(* of the other parts keep their first values.                             *)
(***************************************************************************)
EXTENDS Session, Documents, Sequences, TLC

CONSTANTS
  CaseThreads, Peers, OwnThread, Addressees, MaxWords, MaxSent,         \* ChatDesk
  Newcomers, StaffBranches, Given, MaxForms, MaxRivals,                 \* StaffDesk
  Cases, Facts, FirstRows, Viewers, Branches, RegionOf, Terms, Today,   \* Reports
  DaysPerMonth, DaysPerWeek, Months, PageSize, MaxShifts, MaxChoices,
  Windows, Steps, Rates, Start, Typed, MaxSaves, MaxEntered,            \* SettingsDesk
  t1, t2,                       \* browser tabs, requests, chats of cases
  a, b,                         \* accounts
  hq, br,                       \* branches
  c1, c2, c3,                   \* cases
  north, south,                 \* regions
  NoAccount, NoBranch, NoThread, Null, New

VARIABLES
  part,
  list, param, active, box, feed, messages, read, sending, typed, sent, lost,
  viewer, rows, order, moves, filters, choices, request, numbers, place, lists, listing, table,
  staff, hands, known, stale, modal, saving, dialog, toggling, forms, rivals,
  card, rowsKept, log, page, gReq, saves, entered

nVars == <<viewer, rows, order, moves, filters, choices, request, numbers, place, lists,
           listing, table>>
hVars == <<list, param, active, box, feed, messages, read, sending, typed, sent, lost>>
pVars == <<staff, hands, known, stale, modal, saving, dialog, toggling, forms, rivals>>
gVars == <<card, rowsKept, log, page, gReq, saves, entered>>
uVars == vars
dVars == documentsVars
officeVars == <<part, dVars, nVars, hVars, uVars, pVars, gVars>>

Fact(owner, branch, sum, product, created, name) ==
  [owner |-> owner, branch |-> branch, amount |-> sum, product |-> product,
   created |-> created, name |-> name]

Row(at, archived) ==
  [status |-> at, archived |-> archived, paused |-> FALSE, late |-> FALSE]

\* The case archived at first lacks no value, so that restoring it mixes it with one that does.
MCFacts == c1 :> Fact(a, hq, 2, "AUTO", 1, 2) @@ c2 :> Fact(b, hq, Null, "REAL_ESTATE", 4, Null)
           @@ c3 :> Fact(a, br, 1, "AUTO", 7, 1)

MCRows == c1 :> Row("DRAFT", TRUE) @@ c2 :> Row("DIRECTOR_REVIEW", FALSE) @@ c3 :> Row("DRAFT", FALSE)

MCViewers == [role : {"OPERATOR", "MODERATOR", "DIRECTOR", "ADMIN"}, id : {a}, branches : {{hq}}]

MCRegionOf == hq :> north @@ br :> south

N == INSTANCE Reports WITH fetching <- listing, Start <- FirstRows, MaxMoves <- MaxShifts

H == INSTANCE ChatDesk WITH
  Saved <- OwnThread, MaxTyped <- MaxWords, MaxCalls <- MaxSent, calls <- sending

\* Session: two changes and two requests where one tab is used, one request where both are.
MCMaxChanges == [one \in BOOLEAN |-> IF one THEN 2 ELSE 0]
MCMaxCalls == [one \in BOOLEAN |-> IF one THEN 2 ELSE 1]

P == INSTANCE StaffDesk WITH
  Branches <- StaffBranches, Nothing <- Null, MaxMoves <- MaxRivals,
  account <- staff, list <- known, moves <- rivals

G == INSTANCE SettingsDesk WITH
  Nothing <- Null, MaxTyped <- MaxEntered, stored <- rowsKept, req <- gReq, typed <- entered

MCSteps == <<"MODERATION", "DIRECTOR_REVIEW">>

MCStart == [config |-> [maxPauseDays |-> 5, minRate |-> 550, maxRate |-> 600],
            days |-> [s \in {MCSteps[1], MCSteps[2]} |-> [days |-> 2, enabled |-> TRUE]]]

MCTyped == [maxPauseDays |-> {61}, minRate |-> {552, 608}, maxRate |-> {5010}, days |-> {0, 3}]

MCMaxEntered == [one \in BOOLEAN |-> IF one THEN 3 ELSE 1]

ASSUME OfficeAssumption ==
  /\ DocumentsAssumption /\ SessionAssumption
  /\ N!ReportsAssumption /\ H!ChatAssumption
  /\ P!StaffAssumption /\ G!SettingsAssumption

-----------------------------------------------------------------------------
OfficeInit ==
  /\ part \in {"documents", "lists", "chats", "session", "staff", "settings"}
  /\ Init /\ DocumentsInit /\ N!Init /\ H!Init /\ P!Init /\ G!Init
  /\ part # "chats" => param = NoThread
  /\ part # "lists" => viewer.role = "ADMIN" /\ place = "active"
  /\ part \notin {"session", "settings"} => calm
  /\ part # "settings" => card = "days"

OfficeNext ==
  \/ part = "session" /\ Next /\ UNCHANGED <<part, dVars, nVars, hVars, pVars, gVars>>
  \/ part = "documents" /\ DocumentsNext /\ UNCHANGED <<part, nVars, hVars, uVars, pVars, gVars>>
  \/ part = "lists" /\ N!Next /\ UNCHANGED <<part, dVars, hVars, uVars, pVars, gVars>>
  \/ part = "chats" /\ H!Next /\ UNCHANGED <<part, dVars, nVars, uVars, pVars, gVars>>
  \/ part = "staff" /\ P!Next /\ UNCHANGED <<part, dVars, nVars, hVars, uVars, gVars>>
  \/ part = "settings" /\ G!Next /\ UNCHANGED <<part, dVars, nVars, hVars, uVars, pVars>>

OfficeSpec == OfficeInit /\ [][OfficeNext]_officeVars

\* Requests, tabs and chats of cases are interchangeable.
Symmetry == Permutations({t1, t2})

\* Numbers and lists: everybody counts the cases they may see and no others, and the
\* pages of a table hold all its rows (scopeFor, list; safePage).
ListsAreComplete == part = "lists" => N!NumbersOfOwnScope /\ N!PagesShowAll

\* Chats: a text stays in the conversation it was written in (the keys of the threads).
WordsStayInPlace == part = "chats" => H!WordsStayInPlace

\* Administrator: forms, their saves and pictures are not mixed up and an operator has a
\* branch; no setting is stored that nobody typed, each change is recorded, and the page
\* shows what is stored (UsersPage, SettingsPage, updateConfig).
AdminPagesSound ==
  /\ part = "staff" => P!FormsStayApart /\ P!OperatorsHaveBranch
  /\ part = "settings" => G!RatesAreTyped /\ G!RecordsLeadHere /\ G!ShownIsStored
=============================================================================
