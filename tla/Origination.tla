----------------------------- MODULE Origination -----------------------------
(***************************************************************************)
(* The rules of an application as operators (packages/shared/src/          *)
(* origination.ts and collateral-owner.ts), shared by the wizard and the   *)
(* server.  Sums of money are whole and in a unit of the instance's        *)
(* choice; texts are what the rules can tell of them: empty, or not.       *)
(***************************************************************************)
EXTENDS Integers, FiniteSets

CONSTANTS
  Null,            \* a column or field without a value
  MicroThreshold   \* above this amount a loan is a microcredit

Methods == {"ANNUITY", "DIFFERENTIATED"}

\* What a form says of a tranche and of a line.
FormTranches ==
  [method : Methods \union {Null}, term : Int \union {Null}, principal : Int \union {Null}]

FormLines ==
  [total : Int \union {Null}, term : Int \union {Null}, tranche : FormTranches \union {Null}]

\* A column without a value is told from one with a value.
OriginationAssumption ==
  /\ MicroThreshold \in Nat
  /\ Null \notin Int /\ Null \notin Methods
  /\ Null \notin FormTranches /\ Null \notin FormLines

InsuranceMaxMonths == 48
LineTermCap == 60

TermCapFor(method) == IF method = "DIFFERENTIATED" THEN 48 ELSE 30

Or0(x) == IF x = Null THEN 0 ELSE x

\* x / y rounded up, for y > 0.
CeilDiv(x, y) == -((-x) \div y)

LoanTypeFor(amount) == IF Or0(amount) > MicroThreshold THEN "MICROCREDIT" ELSE "MICROLOAN"

\* The flat premium in percent, by the bracket of the policy's term.
InsurancePremiumRate(months) ==
  CASE Or0(months) <= 0  -> 0
    [] Or0(months) \in 1 .. 24 -> 2
    [] OTHER -> 4

\* insuredSum and premium of originationCalc; override is requiredInsuredAmount.
InsuredSum(loanUnderPolicy, override) ==
  IF override # Null THEN override ELSE CeilDiv(13 * Or0(loanUnderPolicy), 10)

Premium(insured, months) == CeilDiv(insured * InsurancePremiumRate(months), 100)

IsTermValid(method, term) == Or0(term) \in 1 .. TermCapFor(method)

(***************************************************************************)
(* loanRuleViolations: what assertRules of the case service refuses.       *)
(***************************************************************************)
LoanRulesBroken(method, trancheTerm, lineTerm) ==
  \/ method # Null /\ trancheTerm # Null /\ ~IsTermValid(method, trancheTerm)
  \/ lineTerm # Null /\ lineTerm \notin 1 .. LineTermCap

(***************************************************************************)
(* Collaterals.  c.filled is the set of fields that are not blank; owners  *)
(* is the set of owner rows, each "named" or "blank".                      *)
(***************************************************************************)
RequiredOf(type) ==
  IF type = "AUTO" THEN {"agreedValue", "model", "stateNumber", "techPassportNo"}
  ELSE {"agreedValue", "address", "cadastreNo"}

CollateralMissing(c) == RequiredOf(c.type) \ c.filled

CollateralComplete(c) == CollateralMissing(c) = {}

\* The owners to print: those entered with a name, else the borrower, if named.
ResolveOwners(owners, borrowerNamed) ==
  IF "named" \in owners THEN {"entered"}
  ELSE IF borrowerNamed THEN {"borrower"} ELSE {}

\* The owner shown is the borrower standing in (ownerIsImplied).
OwnerIsImplied(owners, borrowerNamed) == "named" \notin owners /\ borrowerNamed

-----------------------------------------------------------------------------
(***************************************************************************)
(* A form f: identity is the set of valid identity fields; contacts the    *)
(* number of contacts with name and phone; line is Null or                 *)
(* [total, term, tranche], tranche Null or [method, term, principal];      *)
(* collaterals a set; katm whether every question is answered; employer    *)
(* and income whether they are filled; amount the column of the case.      *)
(***************************************************************************)
FormFields ==
  {"identity", "contacts", "amount", "line", "collaterals", "katm", "employer", "income"}

IsForm(f) ==
  /\ f = [x \in FormFields |-> f[x]]
  /\ f.contacts \in Nat /\ f.amount \in Int \union {Null}
  /\ {f.katm, f.employer, f.income} \subseteq BOOLEAN
  /\ f.line \in FormLines \union {Null}
  /\ \A c \in f.collaterals : c.owners \subseteq {"named", "blank"}

Identity == {"fullName", "pinfl", "passportSeries", "passportNumber", "phone"}

Tranche(f) == IF f.line = Null THEN Null ELSE f.line.tranche

AmountTotal(f) == IF f.line # Null /\ f.line.total # Null THEN f.line.total ELSE f.amount

LineTerm(f) == IF f.line = Null THEN 0 ELSE Or0(f.line.term)

Employed(f) == f.employer /\ f.income

(***************************************************************************)
(* useOriginationForm.errors: the tests an application must pass before    *)
(* the wizard finishes it.                                                 *)
(***************************************************************************)
WizardTests(f) ==
  LET tr == Tranche(f)
      method == IF tr = Null THEN Null ELSE tr.method
  IN  [fullName       |-> "fullName" \in f.identity,
       contacts       |-> f.contacts >= 2,
       pinfl          |-> "pinfl" \in f.identity,
       passportSeries |-> "passportSeries" \in f.identity,
       passportNumber |-> "passportNumber" \in f.identity,
       phone          |-> "phone" \in f.identity,
       employment     |-> Or0(AmountTotal(f)) > MicroThreshold => Employed(f),
       amountTotal    |-> Or0(AmountTotal(f)) > 0,
       lineTerm       |-> LineTerm(f) > 0 /\ LineTerm(f) <= LineTermCap,
       collateral     |-> f.collaterals # {} /\ \A c \in f.collaterals : CollateralComplete(c),
       scheduleType   |-> method # Null,
       trancheTerm    |-> method # Null /\ IsTermValid(method, tr.term),
       principal      |-> tr # Null /\ Or0(tr.principal) > 0,
       katm           |-> f.katm]

WizardErrors(f) == {t \in DOMAIN WizardTests(f) : ~WizardTests(f)[t]}

\* Mutant of TrancheErrors: without a method there is nothing to test.
TrancheErrorsLoose(tr) ==
  IF tr = Null \/ tr.method = Null THEN {}
  ELSE {e \in {"trancheTerm"} : ~IsTermValid(tr.method, tr.term)}
       \union {e \in {"principal"} : Or0(tr.principal) <= 0}

\* Without a method the cap of an annuity applies (termCapFor falls back to it).
TrancheErrors(tr) ==
  {e \in {"scheduleType"} : tr = Null \/ tr.method = Null}
  \union {e \in {"trancheTerm"} : tr = Null \/ ~IsTermValid(tr.method, tr.term)}
  \union {e \in {"principal"} : tr = Null \/ Or0(tr.principal) <= 0}

\* caseSubmitErrors: the server's gate from DRAFT to MODERATION.
CaseSubmitErrors(f) ==
  LET named == "fullName" \in f.identity
      tests ==
        [contacts    |-> f.contacts >= 2,
         amountTotal |-> Or0(AmountTotal(f)) > 0,
         lineTerm    |-> LineTerm(f) \in 1 .. LineTermCap,
         collateral  |-> f.collaterals # {} /\ \A c \in f.collaterals : CollateralComplete(c),
         owner       |-> \A c \in f.collaterals : ResolveOwners(c.owners, named) # {},
         katm        |-> f.katm,
         employment  |-> Or0(AmountTotal(f)) > MicroThreshold => Employed(f)]
  IN  (Identity \ f.identity) \union {t \in DOMAIN tests : ~tests[t]} \union TrancheErrors(Tranche(f))

-----------------------------------------------------------------------------
(***************************************************************************)
(* Sections of an application, as the pages send them.                     *)
(***************************************************************************)
Sections == {"borrower", "collaterals", "employment", "affordability", "creditLine", "creditHistory"}

\* Mutant of Carries: the step of the line forgets the pledges.
CarriesLineOnly(section) ==
  CASE section \in {"borrower", "creditLine"} -> {"borrower", section}
    [] section \in {"employment", "creditHistory"} -> {"borrower", section}
    [] OTHER -> Sections

\* saveSection: the sections one step of the wizard carries.
Carries(section) ==
  CASE section = "borrower"      -> {"borrower"}
    [] section = "creditLine"    -> {"borrower", "collaterals", "creditLine"}
    [] section = "employment"    -> {"borrower", "employment"}
    [] section = "creditHistory" -> {"borrower", "creditHistory"}
    [] OTHER -> Sections

\* What a save leaves in the columns: the amount mirrors the line.
SavedForm(f) == IF f.line = Null THEN f ELSE [f EXCEPT !.amount = f.line.total]

-----------------------------------------------------------------------------
(***************************************************************************)
(* The server submits what the wizard calls complete, and nothing else:    *)
(* the two lists are kept by hand in two packages, the server adds owners, *)
(* and the amount it reads is the one the save left.  What is submitted    *)
(* keeps the caps assertRules tests on every save.  (An amount the wizard  *)
(* still shows after the line's was cleared is left out: README.)          *)
(***************************************************************************)
GateMirrors(f) ==
  /\ CaseSubmitErrors(SavedForm(f)) = {} =>
       /\ WizardErrors(f) = {}
       /\ ~LoanRulesBroken(Tranche(f).method, Tranche(f).term, f.line.term)
  /\ WizardErrors(f) = {} /\ (f.line # Null => f.amount \in {Null, f.line.total}) =>
       CaseSubmitErrors(SavedForm(f)) = {}
=============================================================================
