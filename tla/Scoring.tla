-------------------------------- MODULE Scoring --------------------------------
(***************************************************************************)
(* The score of an application: twenty factors, a total and a verdict      *)
(* (packages/shared/src/scoring.ts), as the wizard shows it, persistScoring *)
(* stores it and the report prints it.  An answer is the band its picker   *)
(* offers; Null is a field not filled in.                                  *)
(***************************************************************************)
EXTENDS Origination, Sequences

ScoreMin == 60
ScoreApprove == 70
ScoreMax == 100

Year == 365
AgeMin == 18 * Year
AgeMax == 68 * Year

(***************************************************************************)
(* A scoring input i (ScoreInput); age counts days, pledge is Null or      *)
(* [auto, own], family, active, overdue and other are numbers.             *)
(***************************************************************************)
Answers == {"gender", "age", "education", "marital", "pledge", "family", "residence", "sector",
            "position", "experience", "housing", "deposit", "active", "overdue", "other",
            "over5", "mfi"}

\* Half the income is taken as living costs, beside what is declared; twice each, to stay whole.
TwiceSurplus(i) == i.income - 2 * i.expenses

\* The answer a factor needs is not there.
Missing(i, f) ==
  CASE f = "maritalStatus" -> i.marital = Null
    [] f \in {"collateral", "pledgor"} -> i.pledge = Null
    [] f = "familySize" -> i.family = Null
    [] f = "deposits" -> i.deposit = Null
    [] f = "loanCount" -> i.active = Null
    [] f = "otherObligations" -> i.other = Null
    [] f = "currentObligations" -> i.overdue = Null \/ i.active = Null
    [] f = "loansOver5M" -> i.over5 = Null
    [] f = "priorMfi" -> i.mfi = Null
    [] f \in {"trancheToIncome", "surplusToTranche"} -> i.income <= 0 \/ i.tranche <= 0
    [] OTHER -> i[f] = Null

Ladder(x, steps, otherwise) ==
  IF \E k \in DOMAIN steps : x >= steps[k][1]
  THEN steps[CHOOSE k \in DOMAIN steps :
               x >= steps[k][1] /\ \A j \in DOMAIN steps : j < k => x < steps[j][1]][2]
  ELSE otherwise

\* The points of a factor whose answer is there.
Answered(i, f) ==
  CASE f = "gender"     -> IF i.gender = "FEMALE" THEN 2 ELSE 1
    [] f = "age"        -> IF i.age > AgeMax THEN 0
                           ELSE Ladder(i.age, <<<<50 * Year, 5>>, <<30 * Year, 4>>, <<20 * Year, 2>>>>, 0)
    [] f = "education"  -> CASE i.education = "several" -> 3 [] i.education = "higher" -> 2
                             [] i.education = "special" -> 1 [] OTHER -> 0
    [] f = "maritalStatus" -> CASE i.marital = "married" -> 3 [] i.marital = "single" -> 0
                                [] OTHER -> 2
    [] f = "collateral" -> IF i.pledge.auto THEN 2 ELSE 4
    [] f = "familySize" -> Ladder(i.family, <<<<3, 1>>, <<1, 2>>>>, 3)
    [] f = "pledgor"    -> IF i.pledge.own THEN 3 ELSE 1
    [] f = "residence"  -> CASE i.residence = "other" -> 3 [] i.residence = "1-5" -> 2 [] OTHER -> 1
    [] f = "sector"     -> Ladder(i.sector, <<<<19, 4>>, <<10, 5>>>>, 6)
    [] f = "position"   -> CASE i.position = "head" -> 5 [] i.position = "manager" -> 4 [] OTHER -> 2
    [] f = "experience" -> CASE i.experience = "3-5" -> 5 [] i.experience = "5-9" -> 3 [] OTHER -> 1
    [] f = "housing"    -> CASE i.housing = "employer" -> 1 [] i.housing = "own" -> 2 [] OTHER -> 0
    [] f = "deposits"   -> Ladder(i.deposit, <<<<3000, 3>>, <<1000, 2>>, <<500, 1>>>>, 0)
    [] f = "loanCount"  -> Ladder(i.active, <<<<3, 3>>, <<2, 2>>>>, 1)
    [] f = "otherObligations" -> IF i.other = 0 THEN 2 ELSE 0
    [] f = "currentObligations" ->
         IF i.overdue = 1 THEN 0
         ELSE CASE i.active = 0 -> 5 [] i.active = 1 -> 4 [] i.active = 2 -> 2 [] OTHER -> 0
    [] f = "loansOver5M" -> IF i.over5 = "present" THEN -5 ELSE 0
    [] f = "priorMfi"    -> IF i.mfi = "present" THEN -5 ELSE 0
    [] f = "trancheToIncome" -> IF 2 * i.tranche <= i.income THEN 22 ELSE 0
    [] OTHER -> IF TwiceSurplus(i) >= 2 * i.tranche THEN 21 ELSE 16

MaxPoints(f) ==
  CASE f \in {"gender", "housing", "otherObligations"} -> 2
    [] f \in {"education", "maritalStatus", "familySize", "pledgor", "residence", "deposits", "loanCount"} -> 3
    [] f = "collateral" -> 4
    [] f \in {"age", "position", "experience", "currentObligations"} -> 5
    [] f = "sector" -> 6
    [] f = "trancheToIncome" -> 22
    [] f = "surplusToTranche" -> 21
    [] OTHER -> 0

\* Mutant of Points: a missing answer falls through to the last branch, as in the sheet.
PointsOfBlank(i, f) ==
  IF ~Missing(i, f) THEN Answered(i, f)
  ELSE IF f \in {"familySize", "residence", "surplusToTranche"} THEN MaxPoints(f) ELSE 0

\* add: a missing answer scores nothing.
Points(i, f) == IF Missing(i, f) THEN 0 ELSE Answered(i, f)

SumOver(v(_)) ==
  v("gender") + v("age") + v("education") + v("maritalStatus") + v("collateral") + v("familySize")
  + v("pledgor") + v("residence") + v("sector") + v("position") + v("experience") + v("housing")
  + v("deposits") + v("loanCount") + v("otherObligations") + v("currentObligations")
  + v("loansOver5M") + v("priorMfi") + v("trancheToIncome") + v("surplusToTranche")

Total(i) == SumOver(LAMBDA f : Points(i, f))

\* verdictFor: of the sheet's middle branches none can fire, as in the sheet.
VerdictFor(total, age) ==
  IF total < ScoreMin THEN "BELOW_MIN"
  ELSE IF age # Null /\ (age > AgeMax \/ age < AgeMin) THEN "REFER_COMMITTEE"
  ELSE IF total >= ScoreApprove THEN "APPROVED"
  ELSE "REFER_COMMITTEE"

Verdict(i) == VerdictFor(Total(i), i.age)

(***************************************************************************)
(* scoringInputFromCase.  A case c has the answers, beside them its pledges *)
(* [auto, owners] with the owners entered ("borrower" is a row with his     *)
(* name), the payments of the income section, of the line and of the        *)
(* bureau, the sum of the incomes and that of the other expenses.           *)
(***************************************************************************)
\* Both pledge factors read the first pledge; without owners the borrower stands in.
FirstPledge(c) ==
  IF c.pledges = <<>> THEN Null
  ELSE [auto |-> Head(c.pledges).auto,
        own |-> Head(c.pledges).owners = {} \/ "borrower" \in Head(c.pledges).owners]

NewPayment(c) == IF c.newLoanPayment # Null THEN c.newLoanPayment ELSE Or0(c.tranchePayment)

Existing(c) == IF c.burden # Null THEN c.burden ELSE Or0(c.katmPayment)

\* What is paid on other loans counts twice: in the expenses and in the monthly load.
ScoringInput(c) ==
  [x \in Answers \union {"income", "tranche", "expenses"} |->
     CASE x = "pledge"   -> FirstPledge(c)
       [] x = "tranche"  -> NewPayment(c) + Existing(c)
       [] x = "expenses" -> c.expenses + Existing(c)
       [] OTHER -> c[x]]

\* A case: numbers where they are added and compared, any answer where it is passed on.
IsCase(c) ==
  /\ \A x \in {"age", "family", "sector", "deposit", "active",
               "newLoanPayment", "tranchePayment", "burden", "katmPayment"} : c[x] \in Int \union {Null}
  /\ c.income \in Int /\ c.expenses \in Int

-----------------------------------------------------------------------------
(***************************************************************************)
(* "Missing inputs score 0", and a half-entered case must not look         *)
(* creditworthy: the points of what is missing are out of reach, whatever  *)
(* else was answered; without income or payment (43 points) the case is    *)
(* refused; and an answer taken back never raises the score, except one    *)
(* that costs points.                                                      *)
(***************************************************************************)
BlankEarnsNothing(c) ==
  LET i == ScoringInput(c)
  IN  /\ Total(i) <= ScoreMax - SumOver(LAMBDA f : IF Missing(i, f) THEN MaxPoints(f) ELSE 0)
      /\ (i.income <= 0 \/ i.tranche <= 0) => Verdict(i) = "BELOW_MIN"
      /\ \A x \in Answers \ {"over5", "mfi"} : Total([i EXCEPT ![x] = Null]) <= Total(i)
=============================================================================
