------------------------------- MODULE MCForms -------------------------------
(***************************************************************************)
(* The wizard of an application, the rules it applies, its sections on the *)
(* server, and the page of the case it becomes, in parts that share no     *)
(* state, each on a small instance.  One run checks them one at a time:    *)
(* part is chosen in Init and the variables of the other parts keep their  *)
(* first values.  Rules without a state of their own are checked on an     *)
(* input that is typed field by field.                                     *)
(***************************************************************************)
EXTENDS CaseSections, Scoring, TLC

CONSTANTS
  MaxEdits, MaxSaves,                                                     \* Wizard
  Pages, MaxPledges, MaxScans,                                            \* Pledges
  Today, LastDay, Dates, Sums, Terms, LowestRate, MaxTyped, MaxLineSaves, \* LineSteps
  Cases, Traits, Starts, Tried, MaxMoves, MaxPressed, NoCase,             \* CaseView
  c1, c2,         \* the cases of CaseView
  t1, t2          \* requests the server works on

VARIABLES
  part,
  page, step, form, known, cases, media, task, reload, edits, saves, acked,
  pPage, pKnown, open, cols, activeCol, delIdx, scans, busy, stored, upload, pReload, files,
  added, chosen, gone,
  lPage, lStep, lLine, day, minRate, saved, lReload, changes, lSaves,
  input, typed,
  role, traits, row, cache, shown, fetching, panel, comment, sends, remarks, pressed, moved

wVars == <<page, step, form, known, cases, media, task, reload, edits, saves, acked>>
pVars == <<pPage, pKnown, open, cols, activeCol, delIdx, scans, busy, stored, upload, pReload,
           files, added, chosen, gone>>
lVars == <<lPage, lStep, lLine, day, minRate, saved, lReload, changes, lSaves>>
iVars == <<input, typed>>
vVars == <<role, traits, row, cache, shown, fetching, panel, comment, sends, remarks, pressed,
           moved>>
sVars == vars
formsVars == <<part, sVars, wVars, pVars, lVars, iVars, vVars>>

W == INSTANCE Wizard

P == INSTANCE Pledges WITH page <- pPage, known <- pKnown, reload <- pReload, media <- files

L == INSTANCE LineSteps WITH
  MaxSaves <- MaxLineSaves,
  page <- lPage, step <- lStep, line <- lLine, reload <- lReload, typed <- changes, saves <- lSaves

V == INSTANCE CaseView

R == INSTANCE Schedule

(***************************************************************************)
(* What the pages save: two lines (one with a fixed insured sum), a form   *)
(* without a line, and a copy; what an administrator and a director set.   *)
(***************************************************************************)
SentLine(auto, polis, payment, override) ==
  [auto |-> auto, polis |-> polis, total |-> auto + polis, payment |-> payment,
   override |-> override, insurance |-> [insured |-> TRUE, loan |-> 9, months |-> 50]]

Named == [fullName |-> 1]

MCPayloads ==
  {[section |-> "create", data |-> [borrower |-> Named, collaterals |-> 1, creditHistory |-> 1,
                                    creditLine |-> SentLine(3, 0, 1, Null)]],
   [section |-> "copy", data |-> [borrower |-> Named]],
   [section |-> "creditLine",
    data |-> [borrower |-> [tenure |-> 2], employment |-> 1, collaterals |-> 1,
              creditLine |-> SentLine(2, 4, 2, Null)]],
   [section |-> "all",
    data |-> [borrower |-> Named, creditHistory |-> 2, collaterals |-> 1,
              creditLine |-> SentLine(2, 4, 2, 5), affordability |-> [income |-> 1, payment |-> Null]]]}

MCConfigs == {[min |-> 55, max |-> 60], [min |-> 57, max |-> 60]}

MCSplits == {[auto |-> 0, polis |-> 6], [auto |-> 0, polis |-> 0]}

MCDates == {[month |-> 0, day |-> 31]}

\* Where the two cases may be at first, and what they are to the user.
MCStarts == c1 :> {"DRAFT", "DIRECTOR_REVIEW"} @@ c2 :> {"MODERATION"}

MCTraits == {[own |-> TRUE, inBranch |-> TRUE, line |-> TRUE, pledged |-> TRUE]}

ASSUME FormsAssumption ==
  /\ SectionsAssumption /\ OriginationAssumption
  /\ W!WizardAssumption /\ P!PledgesAssumption /\ L!LinesAssumption /\ V!ViewAssumption

-----------------------------------------------------------------------------
(***************************************************************************)
(* Application forms: a complete one with up to three fields typed over.   *)
(***************************************************************************)
Pledge(type, blank, owners) ==
  [type |-> type, filled |-> RequiredOf(type) \ blank, owners |-> owners]

CompleteForm ==
  [identity |-> Identity, contacts |-> 2, amount |-> Null,
   line |-> [total |-> 5, term |-> 60,
             tranche |-> [method |-> "ANNUITY", term |-> 30, principal |-> 1]],
   collaterals |-> {Pledge("AUTO", {}, {})}, katm |-> TRUE, employer |-> FALSE, income |-> FALSE]

FormValues == <<
  <<"identity", {Identity, {}} \union {Identity \ {x} : x \in Identity}>>,
  <<"contacts", {1, 3}>>,
  <<"amount", {0, 5, 6}>>,
  <<"line",
    {Null} \union
    {[total |-> x, term |-> y, tranche |-> [method |-> z, term |-> u, principal |-> v]] :
       x \in {Null, 0, 5, 6}, y \in {Null, 60, 61}, z \in {Null, "ANNUITY", "DIFFERENTIATED"},
       u \in {Null, 0, 30, 31, 48, 49}, v \in {Null, 1}} \union
    {[total |-> 6, term |-> 1, tranche |-> Null]}>>,
  <<"collaterals",
    {{}, {Pledge("AUTO", {}, {"named"}), Pledge("HOUSE", {}, {"blank"})},
     {Pledge("AUTO", {"model"}, {}), Pledge("HOUSE", {}, {"named", "blank"})},
     {Pledge("HOUSE", {"cadastreNo"}, {"blank"})}}>>,
  <<"katm", {FALSE}>>, <<"employer", {TRUE}>>, <<"income", {TRUE}>> >>

(***************************************************************************)
(* Cases to score: the best and the empty one with up to two answers typed *)
(* over; ages count days.                                                  *)
(***************************************************************************)
Secured(auto, owners) == [auto |-> auto, owners |-> owners]

BestCase ==
  [gender |-> "FEMALE", age |-> 50 * Year, education |-> "several", marital |-> "married",
   family |-> 0, residence |-> "other", sector |-> 1, position |-> "head", experience |-> "3-5",
   housing |-> "own", deposit |-> 3000, active |-> 0, overdue |-> 0, other |-> 0,
   over5 |-> "absent", mfi |-> "absent", pledges |-> <<Secured(FALSE, {})>>,
   newLoanPayment |-> 2, tranchePayment |-> 2, burden |-> 0, katmPayment |-> 0,
   income |-> 8, expenses |-> 2]

EmptyCase ==
  [x \in DOMAIN BestCase |->
     CASE x \in {"income", "expenses"} -> 0 [] x = "pledges" -> <<>> [] OTHER -> Null]

CaseValues == <<
  <<"gender", {"MALE", Null}>>,
  <<"age", {17 * Year, 20 * Year, 30 * Year, 68 * Year, 68 * Year + 1, Null}>>,
  <<"education", {"higher", "special", "none", Null}>>,
  <<"marital", {"divorced", "single", "widowed", Null}>>,
  <<"pledges", {<<>>, <<Secured(TRUE, {"borrower"}), Secured(FALSE, {})>>,
                <<Secured(FALSE, {"other"})>>, <<Secured(TRUE, {"other", "borrower"})>>}>>,
  <<"family", {1, 3, Null}>>, <<"residence", {"1-5", "less", Null}>>,
  <<"sector", {10, 17, Null}>>, <<"position", {"manager", "specialist", Null}>>,
  <<"experience", {"5-9", "10+", Null}>>, <<"housing", {"employer", "rent", Null}>>,
  <<"deposit", {0, 500, 1000, Null}>>, <<"active", {1, 2, 3, Null}>>,
  <<"overdue", {1, Null}>>, <<"other", {1, Null}>>, <<"over5", {"present", Null}>>,
  <<"mfi", {"present", Null}>>, <<"newLoanPayment", {0, 3, 4, Null}>>,
  <<"tranchePayment", {5, Null}>>, <<"burden", {1, 3, Null}>>, <<"katmPayment", {3, Null}>>,
  <<"income", {0, 2, 4}>>, <<"expenses", {0, 5}>> >>

\* The next field of the list, or a later one, gets another value.
Type(values, most) ==
  /\ Len(typed) < most
  /\ \E i \in 1 .. Len(values) :
       /\ \A k \in 1 .. Len(typed) : i > typed[k]
       /\ typed' = Append(typed, i)
       /\ \E v \in values[i][2] : input' = [input EXCEPT ![values[i][1]] = v]

(***************************************************************************)
(* Loans to repay, with up to three fields typed over; Loan is one whose   *)
(* parts are whole in every instance that is typed.                        *)
(***************************************************************************)
At(month, dayOfMonth) == [month |-> month, day |-> dayOfMonth]

Loan == 64 * 3 * 5 * 7 * 13 * 19

PlainLoan ==
  [principal |-> Loan, lineTotal |-> Null, amount |-> Null, term |-> 3, lineTerm |-> 2,
   termMonths |-> Null, rate |-> [p |-> 1, q |-> 2], method |-> Null, contractDate |-> Null,
   applicationDate |-> At(0, 31), lineDate |-> At(1, 10), createdAt |-> At(0, 1),
   paymentDay |-> Null, slip |-> 0]

LoanValues == <<
  <<"slip", {-1, 1}>>, <<"method", {"ANNUITY", "DIFFERENTIATED"}>>,
  <<"principal", {Null, 0}>>, <<"lineTotal", {Loan}>>, <<"amount", {Loan, 0}>>,
  <<"term", {Null, 0, 1, 4}>>, <<"lineTerm", {Null}>>, <<"termMonths", {2}>>,
  <<"rate", {Null, [p |-> 0, q |-> 1], [p |-> 1, q |-> 1]}>>,
  <<"contractDate", {At(11, 31), At(1, 28)}>>, <<"applicationDate", {Null, At(3, 1)}>>,
  <<"lineDate", {Null}>>, <<"paymentDay", {1, 15, 31}>> >>

\* What the theorems about every form and every case ask of one.
ASSUME IsForm(CompleteForm) /\ \A c \in {BestCase, EmptyCase} : IsCase(c)

-----------------------------------------------------------------------------
FormsInit ==
  /\ part \in {"sections", "wizard", "pledges", "lines", "forms", "scores", "schedules", "case"}
  /\ Init /\ W!Init /\ P!Init /\ L!Init /\ V!Init
  /\ part # "sections" => config.min = 55
  /\ part # "wizard" => page = "new"
  /\ part # "pledges" => pPage = "new"
  /\ part # "lines" => lPage = "new"
  /\ row[c1].status = "DIRECTOR_REVIEW" <=> role = "DIRECTOR"
  /\ part # "case" => role = "ADMIN" /\ row[c1] = [row[c1] EXCEPT !.status = "DRAFT", !.archived = FALSE]
  /\ input \in CASE part = "forms"     -> {CompleteForm}
                 [] part = "scores"    -> {BestCase, EmptyCase}
                 [] part = "schedules" -> {PlainLoan}
                 [] OTHER -> {Null}
  /\ typed = <<>>

FormsNext ==
  \/ part = "sections" /\ Next /\ UNCHANGED <<part, wVars, pVars, lVars, iVars, vVars>>
  \/ part = "wizard" /\ W!Next /\ UNCHANGED <<part, sVars, pVars, lVars, iVars, vVars>>
  \/ part = "pledges" /\ P!Next /\ UNCHANGED <<part, sVars, wVars, lVars, iVars, vVars>>
  \/ part = "lines" /\ L!Next /\ UNCHANGED <<part, sVars, wVars, pVars, iVars, vVars>>
  \/ /\ \/ part = "forms" /\ Type(FormValues, 3)
        \/ part = "scores" /\ Type(CaseValues, 2)
        \/ part = "schedules" /\ Type(LoanValues, 3)
     /\ UNCHANGED <<part, sVars, wVars, pVars, lVars, vVars>>
  \/ part = "case" /\ V!Next /\ UNCHANGED <<part, sVars, wVars, pVars, lVars, iVars>>

FormsSpec == FormsInit /\ [][FormsNext]_formsVars

\* Requests are interchangeable.
Symmetry == Permutations({t1, t2})

\* Wizard: what a step saved stays in the draft (saveSection, goTo, next).
SavedStepsStay == part = "wizard" => W!SavedStepsStay

\* Pledges: a scan fills the pledge it was taken for (TexScan, saveCollateralMedia).
ScansOwnPledge == part = "pledges" => P!ScansOwnPledge

\* Lines: what follows in a line follows from what it says (setLine, the effects).
LineAgrees == part = "lines" => L!LineAgrees

\* Forms: the wizard and the server call the same forms complete (caseSubmitErrors).
GateMirrorsWizard == part = "forms" => GateMirrors(input)

\* Scores: what was not answered earns nothing (add in scoreCase).
BlankScoresNothing == part = "scores" => BlankEarnsNothing(input)

\* Schedules: a printed schedule repays the loan (scheduleForCase, computeLoan).
ScheduleSound == part = "schedules" => R!ScheduleSound(input)

\* Page of a case: a decision is taken at the step it was offered for (findTransition).
ShownStepDecided == V!ShownStepDecided

\* Page of a case: who has to decide finds the case (list, search, the inbox).
WorkIsFound == part = "case" => V!WorkIsFound

\* Page of a case: what is saved about a case was entered for it (the page is keyed by its path).
OwnWords == part = "case" => V!OwnWords
=============================================================================
