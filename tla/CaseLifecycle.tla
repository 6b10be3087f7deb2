---------------------------- MODULE CaseLifecycle ----------------------------
(***************************************************************************)
(* The life of credit cases in CreditCasesService (apps/backend/src/       *)
(* credit-cases/credit-cases.service.ts): creation, edits of a draft, the  *)
(* archive, the submit gate, contract numbers and workflow transitions.    *)
(*                                                                         *)
(* Every handler is an async function that reads the row, checks what it   *)
(* read, and writes later; nothing locks the row in between and the write  *)
(* does not repeat the check.  So a request is a process: one action reads *)
(* and keeps what the handler keeps in its local variables, one action per *)
(* later database call or $transaction writes, and between them any other  *)
(* request may run.  A request that is refused (403, 400) changes nothing  *)
(* and is not a step; a refusal in a later step ends the request.          *)
(*                                                                         *)
(* Timer fields written by a transition are in Deadlines.tla, the signed   *)
(* approval is in Signing.tla.                                             *)
(***************************************************************************)
EXTENDS Workflow, Naturals, Sequences, FiniteSets

CONSTANTS
  Cases,      \* ids a case row may get
  Users,      \* accounts that send requests
  RoleOf,     \* RoleOf[u]: the role in u's account
  BranchOf,   \* BranchOf[u]: the branch symbol of u's branch ('GEN' for none)
  Branches,   \* branch symbols
  Requests,   \* requests the server may be handling at the same time
  NoRow,      \* a case that does not exist
  NoCase,     \* a null case reference
  NoMfl,      \* a null MFL identifier
  NoNumber,   \* a null contract number
  Years,      \* calendar years
  MaxEvents   \* bound: workflow events of all cases, those in flight included

\* contractYearlyNo and contractBranchSym; the year whose counter gave the
\* number is not part of it, in the row or in the printed number.
MflIds == [no : Nat \ {0}, branch : Branches]

Numbers == [global : Nat \ {0}, mfl : MflIds]

\* A fresh MFL identifier as a yearly counter gave it to a client.
Issues == [year : Years, mfl : MflIds, client : Cases]

\* The application number, the triple `${symbol}-${year}-${count + 1}` prints.
RegNos == [branch : Branches, year : Years, no : Nat \ {0}]

(***************************************************************************)
(* client is the person whose identity the row carries: createReMfl copies *)
(* it from the source case, and a case made by createCase starts one of    *)
(* its own, named by the case.  filled says that caseSubmitErrors finds    *)
(* nothing missing.                                                        *)
(***************************************************************************)
Rows == [status : Statuses, owner : Users, branch : Branches, client : Cases,
         source : Cases \union {NoCase}, regNo : RegNos,
         number : Numbers \union {NoNumber}, deleted : BOOLEAN, filled : BOOLEAN]

ASSUME LifecycleAssumption ==
  /\ IsFiniteSet(Cases)
  /\ RoleOf \in [Users -> Roles]
  /\ BranchOf \in [Users -> Branches]
  /\ NoRow \notin Rows
  /\ NoCase \notin Cases
  /\ NoMfl \notin MflIds
  /\ NoNumber \notin Numbers
  /\ Years \subseteq Nat
  /\ MaxEvents \in Nat

VARIABLES
  row,        \* row[c]: the columns of case c that this module tells apart
  log,        \* log[c]: the workflowEvent rows of c, in order of insertion
  globalNo,   \* contract_counters row 'global' (0: no row yet)
  yearlyNo,   \* yearlyNo[y]: contract_counters row of year y
  today,      \* the calendar year
  req,        \* req[r]: what request r keeps between two awaits
  issued      \* history, for properties only: the fresh identifiers given so far

vars == <<row, log, globalNo, yearlyNo, today, req, issued>>

-----------------------------------------------------------------------------
(***************************************************************************)
(* What a handler keeps in its local variables, by the step it is at.      *)
(***************************************************************************)
Idle == [step |-> "idle"]

TransitionRequests ==
  [step : {"gate", "number", "commit"}, case : Cases, rule : RuleSet,
   numbered : BOOLEAN, reuse : MflIds \union {NoMfl}]

UpdateRequests == [step : {"update"}, case : Cases, filled : BOOLEAN]

ArchiveRequests == [step : {"archive", "restore"}, case : Cases]

CreateRequests == [step : {"create"}, user : Users, source : Cases \union {NoCase},
                   filled : BOOLEAN, regNo : RegNos]

RequestStates == {Idle} \union TransitionRequests \union UpdateRequests
                 \union ArchiveRequests \union CreateRequests

Created == {c \in Cases : row[c] # NoRow}

Numbered(c) == c \in Created /\ row[c].number # NoNumber

Begin(r, state) == req[r] = Idle /\ req' = [req EXCEPT ![r] = state]

Goto(r, step) == req' = [req EXCEPT ![r].step = step]

End(r) == req' = [req EXCEPT ![r] = Idle]

\* An operator acts on the cases it created, an administrator on any.
MayEdit(u, c) ==
  \/ RoleOf[u] = "ADMIN"
  \/ RoleOf[u] = "OPERATOR" /\ row[c].owner = u

Init ==
  /\ row = [c \in Cases |-> NoRow]
  /\ log = [c \in Cases |-> << >>]
  /\ globalNo = 0
  /\ yearlyNo = [y \in Years |-> 0]
  /\ today \in Years
  /\ req = [r \in Requests |-> Idle]
  /\ issued = {}

-----------------------------------------------------------------------------
(***************************************************************************)
(* createCase and createReMfl.  nextNumber counts the rows that carry the  *)
(* prefix and takes the next number; the insert comes later.               *)
(***************************************************************************)

\* Mutant of NextRegNo: the count forgets the year of the prefix.
NextRegNoEveryYear(b) ==
  [branch |-> b, year |-> today,
   no |-> 1 + Cardinality({c \in Created : row[c].regNo.branch = b})]

NextRegNo(b) ==
  [branch |-> b, year |-> today,
   no |-> 1 + Cardinality({c \in Created : /\ row[c].regNo.branch = b
                                           /\ row[c].regNo.year = today})]

CountForCreate(r, u, source, filled) ==
  /\ Created # Cases
  /\ RoleOf[u] \in {"OPERATOR", "ADMIN"}
  /\ source # NoCase => source \in Created /\ ~filled
  /\ Begin(r, [step |-> "create", user |-> u, source |-> source, filled |-> filled,
               regNo |-> NextRegNo(BranchOf[u])])
  /\ UNCHANGED <<row, log, globalNo, yearlyNo, today, issued>>

NewRow(c, s) ==
  [status |-> "DRAFT", owner |-> s.user, branch |-> BranchOf[s.user],
   client |-> IF s.source = NoCase THEN c ELSE row[s.source].client,
   source |-> s.source, regNo |-> s.regNo, number |-> NoNumber,
   deleted |-> FALSE, filled |-> s.filled]

\* credit_cases.number is unique in the schema.
RegNoTaken(n) == \E c \in Created : row[c].regNo = n

\* The insert; it fails on the unique number when another request took it.
InsertCase(r) ==
  /\ req[r].step = "create"
  /\ IF RegNoTaken(req[r].regNo)
     THEN row' = row
     ELSE \E c \in Cases \ Created : row' = [row EXCEPT ![c] = NewRow(c, req[r])]
  /\ End(r)
  /\ UNCHANGED <<log, globalNo, yearlyNo, today, issued>>

-----------------------------------------------------------------------------
(***************************************************************************)
(* applyUpdate (updateCase and saveSection): the draft check, then one     *)
(* transaction over the case and its sections.                             *)
(***************************************************************************)
CheckUpdate(r, u, c, filled) ==
  /\ c \in Created
  /\ row[c].status = "DRAFT"
  /\ MayEdit(u, c)
  /\ Begin(r, [step |-> "update", case |-> c, filled |-> filled])
  /\ UNCHANGED <<row, log, globalNo, yearlyNo, today, issued>>

WriteUpdate(r) ==
  /\ req[r].step = "update"
  /\ row' = [row EXCEPT ![req[r].case].filled = req[r].filled]
  /\ End(r)
  /\ UNCHANGED <<log, globalNo, yearlyNo, today, issued>>

(***************************************************************************)
(* deleteCase (soft delete: the row moves to the archive) and restoreCase. *)
(***************************************************************************)
CheckArchive(r, u, c) ==
  /\ c \in Created
  /\ ~row[c].deleted
  /\ row[c].status = "DRAFT"
  /\ MayEdit(u, c)
  /\ Begin(r, [step |-> "archive", case |-> c])
  /\ UNCHANGED <<row, log, globalNo, yearlyNo, today, issued>>

CheckRestore(r, u, c) ==
  /\ c \in Created
  /\ row[c].deleted
  /\ MayEdit(u, c)
  /\ Begin(r, [step |-> "restore", case |-> c])
  /\ UNCHANGED <<row, log, globalNo, yearlyNo, today, issued>>

WriteArchive(r) ==
  /\ req[r].step \in {"archive", "restore"}
  /\ row' = [row EXCEPT ![req[r].case].deleted = (req[r].step = "archive")]
  /\ End(r)
  /\ UNCHANGED <<log, globalNo, yearlyNo, today, issued>>

-----------------------------------------------------------------------------
(***************************************************************************)
(* transition.  The first read keeps the status (in the rule it matched),  *)
(* whether the case has a contract number, and the source's identifier.    *)
(* It checks neither deletedAt nor the branch of the user.                 *)
(***************************************************************************)

\* Mutant of SourceMfl: the repeat client gets an identifier of its own.
SourceMflIgnored(c) == NoMfl

SourceMfl(c) ==
  IF row[c].source # NoCase /\ Numbered(row[c].source)
  THEN row[row[c].source].number.mfl
  ELSE NoMfl

\* The bound on history: events written and events that may still be.
Events == {e \in Cases \X (1..MaxEvents) : e[2] <= Len(log[e[1]])}

InFlight == {r \in Requests : req[r].step \in {"gate", "number", "commit"}}

ReadForTransition(r, u, c, decision) ==
  /\ c \in Created
  /\ Cardinality(Events) + Cardinality(InFlight) < MaxEvents
  /\ \E rule \in FindTransition(row[c].status, RoleOf[u], decision) :
       Begin(r, [step |-> IF rule.from = "DRAFT" /\ rule.to = "MODERATION"
                          THEN "gate" ELSE "commit",
                 case |-> c, rule |-> rule, numbered |-> Numbered(c),
                 reuse |-> SourceMfl(c)])
  /\ UNCHANGED <<row, log, globalNo, yearlyNo, today, issued>>

\* Mutant of AfterGate: the submit goes straight to the status write.
AfterGateSkipsNumber(s) == "commit"

AfterGate(s) == IF s.numbered THEN "commit" ELSE "number"

\* Mutant of PassSubmitGate: the server trusts the wizard's own validation.
PassSubmitGateUnchecked(r) ==
  /\ req[r].step = "gate"
  /\ Goto(r, AfterGate(req[r]))
  /\ UNCHANGED <<row, log, globalNo, yearlyNo, today, issued>>

\* The second read (getOne) and caseSubmitErrors over it.
PassSubmitGate(r) ==
  /\ req[r].step = "gate"
  /\ row[req[r].case].filled
  /\ Goto(r, AfterGate(req[r]))
  /\ UNCHANGED <<row, log, globalNo, yearlyNo, today, issued>>

FailSubmitGate(r) ==
  /\ req[r].step = "gate"
  /\ ~row[req[r].case].filled
  /\ End(r)
  /\ UNCHANGED <<row, log, globalNo, yearlyNo, today, issued>>

\* Mutant of NextCounter: the update branch of the upsert does not increment.
NextCounterStuck(n) == 1

\* nextCounter on a counter row that holds n; 0 stands for no row yet.
NextCounter(n) == n + 1

\* Mutant of YearlyAfter: the year's next number is used but not stored.
YearlyAfterUnstored(reuse) == yearlyNo

\* The yearly counters after a number is assigned; a repeat takes none.
YearlyAfter(reuse) ==
  IF reuse # NoMfl THEN yearlyNo ELSE [yearlyNo EXCEPT ![today] = NextCounter(@)]

\* One transaction: both counters and the number columns of the case.
AssignNumber(r) ==
  /\ req[r].step = "number"
  /\ LET c     == req[r].case
         fresh == [no |-> NextCounter(yearlyNo[today]), branch |-> row[c].branch]
     IN  /\ globalNo' = NextCounter(globalNo)
         /\ yearlyNo' = YearlyAfter(req[r].reuse)
         /\ issued' = IF req[r].reuse # NoMfl THEN issued
                      ELSE issued \union
                        {[year |-> today, mfl |-> fresh, client |-> row[c].client]}
         /\ row' = [row EXCEPT ![c].number =
                      [global |-> globalNo',
                       mfl |-> IF req[r].reuse # NoMfl THEN req[r].reuse ELSE fresh]]
  /\ Goto(r, "commit")
  /\ UNCHANGED <<log, today>>

\* One transaction: the status, whatever it is by now, and the event.
CommitTransition(r) ==
  /\ req[r].step = "commit"
  /\ LET c == req[r].case
     IN  /\ row' = [row EXCEPT ![c].status = req[r].rule.to]
         /\ log' = [log EXCEPT ![c] = Append(@, req[r].rule)]
  /\ End(r)
  /\ UNCHANGED <<globalNo, yearlyNo, today, issued>>

\* The process dies or the database refuses: what was written stays.
AbortRequest(r) ==
  /\ req[r] # Idle
  /\ End(r)
  /\ UNCHANGED <<row, log, globalNo, yearlyNo, today, issued>>

NewYear ==
  /\ today + 1 \in Years
  /\ today' = today + 1
  /\ UNCHANGED <<row, log, globalNo, yearlyNo, req, issued>>

-----------------------------------------------------------------------------
Receive(r) ==
  \E u \in Users :
    \/ \E source \in Cases \union {NoCase}, filled \in BOOLEAN :
         CountForCreate(r, u, source, filled)
    \/ \E c \in Cases :
         \/ \E filled \in BOOLEAN : CheckUpdate(r, u, c, filled)
         \/ CheckArchive(r, u, c)
         \/ CheckRestore(r, u, c)
         \/ \E decision \in Decisions : ReadForTransition(r, u, c, decision)

Advance(r) ==
  \/ InsertCase(r)
  \/ WriteUpdate(r)
  \/ WriteArchive(r)
  \/ PassSubmitGate(r)
  \/ FailSubmitGate(r)
  \/ AssignNumber(r)
  \/ CommitTransition(r)
  \/ AbortRequest(r)

Next == NewYear \/ \E r \in Requests : Receive(r) \/ Advance(r)

Spec == Init /\ [][Next]_vars

-----------------------------------------------------------------------------
(***************************************************************************)
(* Properties that hold whatever the interleaving.                         *)
(***************************************************************************)

\* Every variable keeps its type.
TypeOK ==
  /\ row \in [Cases -> Rows \union {NoRow}]
  /\ log \in [Cases -> Seq(RuleSet)]
  /\ globalNo \in Nat
  /\ yearlyNo \in [Years -> Nat]
  /\ today \in Years
  /\ req \in [Requests -> RequestStates]
  /\ issued \subseteq Issues

\* No two cases carry the same company-wide contract number, however their
\* submits interleave, repeat or die half-way (nextCounter in a transaction).
GlobalNoUnique ==
  \A c, d \in Cases :
    Numbered(c) /\ Numbered(d) /\ row[c].number.global = row[d].number.global => c = d

\* Within a year an MFL identifier is given to one client, and a case carries one
\* only if it was given to the case's own client: two clients share "913 PS" only
\* where the counters of different years gave it, which the numbering accepts.
MflIdOneClientAYear ==
  /\ \A p, q \in issued : p.year = q.year /\ p.mfl = q.mfl => p.client = q.client
  /\ \A c \in Cases : Numbered(c) =>
       \E p \in issued : p.mfl = row[c].number.mfl /\ p.client = row[c].client

\* What the numbers identify stays apart, however submits, repeats of repeats and
\* crashes mix: a contract number names one case, an MFL identifier one client of
\* those numbered in the same year.
IdentifiersUnique == GlobalNoUnique /\ MflIdOneClientAYear

\* A case past the draft has its contract number: no order of reads, writes and
\* failures lets a case into the workflow without one.
NumberedOutsideDraft ==
  \A c \in Created : row[c].status # "DRAFT" => Numbered(c)

\* The audit trail tells where a case is: its status is the target of its last
\* workflow event, because the two are written in one transaction.
StatusIsLastEvent ==
  \A c \in Created :
    row[c].status = IF log[c] = << >> THEN "DRAFT" ELSE log[c][Len(log[c])].to

HasApproval(events) ==
  \E i \in DOMAIN events : events[i].role = "MODERATOR" /\ events[i].decision = "APPROVE"

\* Four eyes: a case is with the director, or finalised, only if a moderator
\* approved it before, even when stale decisions overwrite newer ones.
ModeratorApprovedFirst ==
  \A c \in Created :
    row[c].status \in {"DIRECTOR_REVIEW", "FINALIZED"} => HasApproval(log[c])

\* The application numbers of a branch and year are 1, 2, 3... with no gap and
\* no repeat, although counting and inserting are two steps (nextNumber).
RegNosGapless ==
  \A b \in Branches, y \in Years :
    LET mine == {c \in Created : row[c].regNo.branch = b /\ row[c].regNo.year = y}
    IN  {row[c].regNo.no : c \in mine} = 1..Cardinality(mine)

(***************************************************************************)
(* The inductive invariant behind them: what a request may rely on however *)
(* stale its reads have become.                                            *)
(***************************************************************************)

\* Case rows are never removed: what a request or a row refers to exists.
ReferencesExist ==
  /\ \A r \in Requests :
       /\ req[r].step \in {"gate", "number", "commit", "update", "archive", "restore"}
            => req[r].case \in Created
       /\ req[r].step = "create" /\ req[r].source # NoCase => req[r].source \in Created
  /\ \A c \in Created : row[c].source # NoCase =>
       row[c].source \in Created /\ row[row[c].source].client = row[c].client

\* Only a case with a row has events.
LogOfCreated == \A c \in Cases \ Created : log[c] = << >>

\* Counters are ahead of every number given.
NumbersIssued ==
  \A c \in Created : Numbered(c) => row[c].number.global <= globalNo

\* Who holds, or is about to hold, which MFL identifier.
MflClaims ==
  {[mfl |-> row[c].number.mfl, client |-> row[c].client] : c \in {d \in Created : Numbered(d)}}
  \union
  {[mfl |-> req[r].reuse, client |-> row[req[r].case].client] :
     r \in {q \in InFlight : req[q].reuse # NoMfl}}

\* A counter is ahead of the identifiers it gave, and gave each number once.
IssuedOnce ==
  \A p, q \in issued :
    /\ p.mfl.no <= yearlyNo[p.year]
    /\ p.year = q.year /\ p.mfl.no = q.mfl.no => p = q

\* An identifier is held, or about to be, only by the client it was given to.
MflClaimsIssued ==
  \A p \in MflClaims : \E i \in issued : i.mfl = p.mfl /\ i.client = p.client

\* A request about to write a status has a numbered case under it.
CommitKnowsNumber ==
  \A r \in Requests :
    /\ req[r].step = "commit" => Numbered(req[r].case)
    /\ req[r].step \in {"gate", "number"} =>
         (req[r].numbered => Numbered(req[r].case))

\* A request holds a rule of the table; if it starts at the director's step, a
\* moderator has approved the case, whatever happened since it was read.
RulesHeld ==
  \A r \in Requests : req[r].step \in {"gate", "number", "commit"} =>
    /\ req[r].rule \in Transitions
    /\ req[r].rule.from = "DIRECTOR_REVIEW" => HasApproval(log[req[r].case])

LifecycleInv ==
  /\ TypeOK /\ ReferencesExist /\ LogOfCreated /\ NumbersIssued /\ GlobalNoUnique
  /\ IssuedOnce /\ MflClaimsIssued
  /\ CommitKnowsNumber /\ NumberedOutsideDraft /\ RulesHeld
  /\ StatusIsLastEvent /\ ModeratorApprovedFirst

(***************************************************************************)
(* The handlers one at a time: what they promise when no two requests are  *)
(* in flight together.                                                     *)
(***************************************************************************)
OneAtATime == \A r, q \in Requests : req[r] # Idle /\ req[q] # Idle => r = q

SerialSpec == Init /\ [][Next /\ OneAtATime']_vars

\* The ledger's status, contract number and completeness, read off the rows.
LedgerStatus == [c \in Cases |-> IF c \in Created THEN row[c].status ELSE "NONE"]

LedgerContract == [c \in Cases |-> IF Numbered(c) THEN row[c].number.global ELSE 0]

LedgerFilled == [c \in Cases |-> c \in Created /\ row[c].filled]

\* No more numbers are used up than there are cases.
Ledger == INSTANCE CaseLedger WITH
  Most <- Cardinality(Cases),
  status <- LedgerStatus, contract <- LedgerContract, filled <- LedgerFilled

\* A repeat client keeps its identifier: a Qayta MFL case numbered after its
\* source carries the source's yearly number and branch.
RepeatKeepsMfl ==
  \A c \in Created :
    LET s == row[c].source
    IN  /\ Numbered(c) /\ s # NoCase /\ Numbered(s)
        /\ row[s].number.global < row[c].number.global
        => row[c].number.mfl = row[s].number.mfl

\* A closed case stays closed (TERMINAL_STATUSES: "the case is closed").
ClosedStaysClosed ==
  [][\A c \in Created :
       row[c].status \in TerminalStatuses => row'[c].status = row[c].status]_vars
=============================================================================
