----------------------------- MODULE CaseSections -----------------------------
(***************************************************************************)
(* The sections of one application, its rate and split, and the score      *)
(* stored beside them (apps/backend/src/credit-cases/                      *)
(* credit-cases.service.ts).                                               *)
(*                                                                         *)
(* A save reads the status, the lowest rate and the rate of the line,      *)
(* replaces what it carries in one transaction, reads the case again and   *)
(* stores the score in another transaction.  Each of these is a step;      *)
(* requests interleave between them and may die there.  The status moves   *)
(* by the table of Workflow; how is in CaseLifecycle.                      *)
(***************************************************************************)
EXTENDS Workflow, Origination

CONSTANTS
  Requests,   \* requests the server may be working on
  Limit,      \* how many requests are made in all
  Payloads,   \* what the pages send: [section or "all" or "create", data]
  Rates,      \* yearly rates a moderator may type
  Configs,    \* [min, max] an administrator may set
  Splits      \* [auto, polis] a director may set

Money == Nat \union {Null}

\* A line as a page sends it, a policy and a line as they are stored.
LineForms ==
  [auto : Money, polis : Money, total : Money, payment : Money, override : Money,
   insurance : [insured : BOOLEAN, loan : Money, months : Money] \union {Null}]

Policies == [insured : BOOLEAN, loan : Money, months : Money, sum : Nat, premium : Nat]

LineRates == Rates \union {c.min : c \in Configs}

Lines ==
  [auto : Money, polis : Money, total : Money, loanType : {"MICROCREDIT", "MICROLOAN"},
   rate : LineRates, payment : Money, override : Money, insurance : Policies \union {Null}]

\* The total a page sends is the sum of its two parts (LineSteps has the page).
Summed(line) == line \in LineForms /\ Or0(line.total) = Or0(line.auto) + Or0(line.polis)

SectionsAssumption ==
  /\ Limit \in Nat /\ MicroThreshold \in Nat
  /\ \A c \in Configs : c.min <= c.max
  /\ Null \notin Nat /\ Null \notin Policies /\ Null \notin Lines
  /\ \A p \in Payloads : "creditLine" \in DOMAIN p.data => Summed(p.data["creditLine"])
  /\ Splits \subseteq [auto : Nat, polis : Nat]

VARIABLES
  status,    \* CreditCase.status; "none" before createCase
  amount,    \* CreditCase.amount
  columns,   \* the sections' rows, by section; Null where there is none
  score,     \* ScoringResult: the facts it was computed from, or Null
  config,    \* AppConfig.minRate, maxRate
  req,       \* req[t]: what the request t keeps between two awaits
  apart,     \* no two requests have overlapped since the server was last at rest
  used,      \* requests made so far
  agreed     \* what a request that met no other one brought into agreement

vars == <<status, amount, columns, score, config, req, apart, used, agreed>>

BorrowerFields == {"fullName", "tenure"}

Idle == [step |-> "idle"]

Quiet == \A t \in Requests : req[t] = Idle

-----------------------------------------------------------------------------
(***************************************************************************)
(* What a payload writes.                                                  *)
(***************************************************************************)
Masked(p) == [s \in Carries(p.section) \intersect DOMAIN p.data |-> p.data[s]]

\* fillDerived: the payment of the new loan is the tranche's, unless typed.
FillDerived(data) ==
  IF {"affordability", "creditLine"} \subseteq DOMAIN data /\ data["affordability"].payment = Null
  THEN [data EXCEPT !["affordability"].payment = data["creditLine"].payment]
  ELSE data

SplitTotal(auto, polis) == IF auto + polis = 0 THEN Null ELSE auto + polis

\* The insurance row beside a split; override is requiredInsuredAmount.
Insured(insured, loan, months, override) ==
  LET sum == InsuredSum(loan, override)
  IN  [insured |-> insured, loan |-> loan, months |-> months, sum |-> sum,
       premium |-> Premium(sum, months)]

Capped(months) == IF months = Null \/ months <= InsuranceMaxMonths THEN months ELSE InsuranceMaxMonths

CreditLineNested(l, rate) ==
  [auto |-> l.auto, polis |-> l.polis, total |-> l.total, loanType |-> LoanTypeFor(l.total),
   rate |-> rate, payment |-> l.payment, override |-> l.override,
   insurance |-> IF l.insurance = Null THEN Null
                 ELSE Insured(l.insurance.insured,
                              IF l.insurance.insured THEN l.polis ELSE l.insurance.loan,
                              Capped(l.insurance.months), l.override)]

BorrowerData(b) == [f \in BorrowerFields |-> IF f \in DOMAIN b THEN b[f] ELSE Null]

\* borrowerUpdate: only the fields that were sent.
BorrowerUpdate(old, b) == [f \in BorrowerFields |-> IF f \in DOMAIN b THEN b[f] ELSE old[f]]

Applied(old, data, rate) ==
  [s \in Sections |->
     IF s \notin DOMAIN data THEN old[s]
     ELSE IF s = "creditLine" THEN CreditLineNested(data[s], rate)
     ELSE IF s = "borrower"
          THEN IF old[s] = Null THEN BorrowerData(data[s]) ELSE BorrowerUpdate(old[s], data[s])
     ELSE data[s]]

NoColumns == [s \in Sections |-> Null]

(***************************************************************************)
(* scoringInputFromCase: all that the score reads of the case.             *)
(***************************************************************************)
Facts(c) ==
  LET typed == IF c["affordability"] = Null THEN Null ELSE c["affordability"].payment
      ofTranche == IF c["creditLine"] = Null THEN Null ELSE c["creditLine"].payment
  IN  [borrower |-> c["borrower"], pledge |-> c["collaterals"], employment |-> c["employment"],
       history |-> c["creditHistory"],
       income |-> IF c["affordability"] = Null THEN Null ELSE c["affordability"].income,
       payment |-> IF typed # Null THEN typed ELSE Or0(ofTranche)]

-----------------------------------------------------------------------------
Init ==
  /\ status = "none"
  /\ amount = Null
  /\ columns = NoColumns
  /\ score = Null
  /\ config \in Configs
  /\ req = [t \in Requests |-> Idle]
  /\ apart = TRUE
  /\ used = 0
  /\ agreed = {}

\* A request comes in: it is apart until another one overlaps it.
Begin(t, state) ==
  /\ req[t] = Idle
  /\ used < Limit
  /\ used' = used + 1
  /\ req' = [req EXCEPT ![t] = state]
  /\ apart' = Quiet
  /\ UNCHANGED <<status, amount, columns, score, config, agreed>>

\* The request goes on; what it changes out of turn agrees with nothing.
Goto(t, state) ==
  /\ req' = [req EXCEPT ![t] = state]
  /\ agreed' = IF apart THEN agreed ELSE {}
  /\ UNCHANGED apart

\* The answer is out; with the last one the server is at rest.
Leave(t) ==
  /\ req' = [req EXCEPT ![t] = Idle]
  /\ apart' = (apart \/ \A s \in Requests \ {t} : req[s] = Idle)

End(t, done) ==
  /\ Leave(t)
  /\ agreed' = IF apart THEN agreed \union done ELSE {}

\* The process dies, or a statement throws, between two steps.
Abort(t) ==
  /\ req[t] # Idle
  /\ Leave(t)
  /\ agreed' = {}
  /\ UNCHANGED <<status, amount, columns, score, config, used>>

-----------------------------------------------------------------------------
(***************************************************************************)
(* POST cases (createCase) and POST cases/re-mfl (createReMfl, which       *)
(* copies the borrower and stores no score).                               *)
(***************************************************************************)
ReceiveCreate(t, p) ==
  /\ status = "none" /\ Quiet
  /\ p.section \in {"create", "copy"}
  /\ Begin(t, [step |-> "insert", section |-> p.section, data |-> FillDerived(Masked(p))])

InsertCase(t) ==
  /\ req[t].step = "insert"
  /\ LET data == req[t].data
     IN  /\ columns' = Applied(NoColumns, data, config.min)
         /\ amount' = IF "creditLine" \in DOMAIN data THEN data["creditLine"].total ELSE Null
  /\ status' = "DRAFT"
  /\ IF req[t].section = "copy" THEN End(t, {"money"})
     ELSE Goto(t, [step |-> "score", money |-> {"money"}])
  /\ UNCHANGED <<score, config, used>>

(***************************************************************************)
(* PUT cases/:id (updateCase) and PUT cases/:id/section (saveSection).     *)
(***************************************************************************)
ReceiveUpdate(t, p) ==
  /\ status # "none"
  /\ p.section \notin {"create", "copy"}
  /\ Begin(t, [step |-> "check", data |-> FillDerived(Masked(p))])

\* Only a draft is edited.
CheckUpdate(t) ==
  /\ req[t].step = "check"
  /\ IF status = "DRAFT" THEN Goto(t, [step |-> "rates", data |-> req[t].data])
     ELSE End(t, {})
  /\ UNCHANGED <<status, amount, columns, score, config, used>>

ReadRates(t) ==
  /\ req[t].step = "rates"
  /\ Goto(t, [step |-> "line", data |-> req[t].data, rate |-> config.min])
  /\ UNCHANGED <<status, amount, columns, score, config, used>>

\* Mutant of LineRate: a draft goes back to the lowest rate whenever it is saved.
LineRateLowest(min) == min

\* lineRate: the rate the line has, the lowest one without a line.
LineRate(min) == IF columns["creditLine"] = Null THEN min ELSE columns["creditLine"].rate

ReadLine(t) ==
  /\ req[t].step = "line"
  /\ Goto(t, [step |-> "write", data |-> req[t].data, rate |-> LineRate(req[t].rate)])
  /\ UNCHANGED <<status, amount, columns, score, config, used>>

\* The amount mirrors the line where the line is sent.
AmountAfter(data) ==
  IF "creditLine" \in DOMAIN data THEN data["creditLine"].total ELSE amount

WriteUpdate(t) ==
  /\ req[t].step = "write"
  /\ columns' = Applied(columns, req[t].data, req[t].rate)
  /\ amount' = AmountAfter(req[t].data)
  /\ Goto(t, [step |-> "score",
              money |-> IF "creditLine" \in DOMAIN req[t].data THEN {"money"} ELSE {}])
  /\ UNCHANGED <<status, score, config, used>>

\* persistScoring: read the case, then replace the stored result.
ReadForScore(t) ==
  /\ req[t].step = "score"
  /\ Goto(t, [step |-> "store", money |-> req[t].money, facts |-> Facts(columns)])
  /\ UNCHANGED <<status, amount, columns, score, config, used>>

\* Mutant of StoreScore: a result that is there already is not replaced.
StoreScoreOnce(t) ==
  /\ req[t].step = "store"
  /\ score' = IF score = Null THEN req[t].facts ELSE score
  /\ End(t, {"score"})
  /\ UNCHANGED <<status, amount, columns, config, used>>

StoreScore(t) ==
  /\ req[t].step = "store"
  /\ score' = req[t].facts
  /\ End(t, {"score"} \union req[t].money)
  /\ UNCHANGED <<status, amount, columns, config, used>>

\* A result that cannot be written is only logged; the edit stands.
LoseScore(t) ==
  /\ req[t].step \in {"score", "store"}
  /\ Leave(t)
  /\ agreed' = (IF apart THEN agreed ELSE {}) \ {"score"}
  /\ UNCHANGED <<status, amount, columns, score, config, used>>

-----------------------------------------------------------------------------
(***************************************************************************)
(* PUT cases/:id/rate: the case, the bounds, the line.                     *)
(***************************************************************************)
ReceiveRate(t, rate) == status # "none" /\ Begin(t, [step |-> "rate case", rate |-> rate])

CheckRate(t) ==
  /\ req[t].step = "rate case"
  /\ IF status = "MODERATION" /\ columns["creditLine"] # Null
     THEN Goto(t, [step |-> "rate bounds", rate |-> req[t].rate])
     ELSE End(t, {})
  /\ UNCHANGED <<status, amount, columns, score, config, used>>

IsRateInBounds(rate, min, max) == rate >= min /\ rate <= max

CheckBounds(t) ==
  /\ req[t].step = "rate bounds"
  /\ IF IsRateInBounds(req[t].rate, config.min, config.max)
     THEN Goto(t, [step |-> "rate write", rate |-> req[t].rate])
     ELSE End(t, {})
  /\ UNCHANGED <<status, amount, columns, score, config, used>>

WriteRate(t) ==
  /\ req[t].step = "rate write"
  /\ columns' = [columns EXCEPT !["creditLine"].rate = req[t].rate]
  /\ End(t, {})
  /\ UNCHANGED <<status, amount, score, config, used>>

(***************************************************************************)
(* PUT cases/:id/split: the line with its insurance, then the amount.      *)
(***************************************************************************)
ReceiveSplit(t, split) == status # "none" /\ Begin(t, [step |-> "split case", split |-> split])

\* Mutant of SplitLine: the policy keeps the loan it had before the split.
SplitLineUninsured(line, split) ==
  LET total == SplitTotal(split.auto, split.polis)
  IN  [line EXCEPT !.auto = split.auto, !.polis = split.polis, !.total = total,
                   !.loanType = LoanTypeFor(total)]

\* The line as setSplit leaves it; the insured loan is the policy's part.
SplitLine(line, split) ==
  LET ins == line.insurance
      total == SplitTotal(split.auto, split.polis)
  IN  [line EXCEPT
         !.auto = split.auto, !.polis = split.polis, !.total = total,
         !.loanType = LoanTypeFor(total),
         !.insurance =
           IF ins = Null THEN Null
           ELSE Insured(ins.insured, IF ins.insured THEN split.polis ELSE ins.loan,
                        Capped(ins.months), line.override)]

CheckSplit(t) ==
  /\ req[t].step = "split case"
  /\ IF status = "DIRECTOR_REVIEW" /\ columns["creditLine"] # Null
     THEN Goto(t, [step |-> "split line",
                   line |-> SplitLine(columns["creditLine"], req[t].split)])
     ELSE End(t, {})
  /\ UNCHANGED <<status, amount, columns, score, config, used>>

\* Only the columns of the split are written: the rate stays what it is.
WriteSplit(t) ==
  /\ req[t].step = "split line"
  /\ columns' = [columns EXCEPT !["creditLine"] =
                   [req[t].line EXCEPT !.rate = columns["creditLine"].rate,
                                       !.payment = columns["creditLine"].payment,
                                       !.override = columns["creditLine"].override]]
  /\ Goto(t, [step |-> "split amount", total |-> req[t].line.total])
  /\ UNCHANGED <<status, amount, score, config, used>>

WriteAmount(t) ==
  /\ req[t].step = "split amount"
  /\ amount' = req[t].total
  /\ End(t, {"money"})
  /\ UNCHANGED <<status, columns, score, config, used>>

-----------------------------------------------------------------------------
\* PUT settings/config: the bounds of the rate.
UpdateConfig(new) ==
  /\ used < Limit
  /\ config' = new
  /\ used' = used + 1
  /\ UNCHANGED <<status, amount, columns, score, req, apart, agreed>>

\* A transition; a draft is submitted with its line and pledge filled in.
Move ==
  /\ \E rule \in Transitions :
       /\ rule.from = status
       /\ status = "DRAFT" /\ rule.to = "MODERATION" =>
            \A s \in {"creditLine", "collaterals", "creditHistory"} : columns[s] # Null
       /\ status' = rule.to
  /\ UNCHANGED <<amount, columns, score, config, req, apart, used, agreed>>

Step(t) ==
  \/ InsertCase(t)
  \/ CheckUpdate(t) \/ ReadRates(t) \/ ReadLine(t) \/ WriteUpdate(t)
  \/ ReadForScore(t) \/ StoreScore(t) \/ LoseScore(t)
  \/ CheckRate(t) \/ CheckBounds(t) \/ WriteRate(t)
  \/ CheckSplit(t) \/ WriteSplit(t) \/ WriteAmount(t)
  \/ Abort(t)

Next ==
  \/ Move
  \/ \E new \in Configs : UpdateConfig(new)
  \/ \E t \in Requests :
       \/ Step(t)
       \/ \E p \in Payloads : ReceiveCreate(t, p) \/ ReceiveUpdate(t, p)
       \/ \E rate \in Rates : ReceiveRate(t, rate)
       \/ \E split \in Splits : ReceiveSplit(t, split)

Spec == Init /\ [][Next]_vars

-----------------------------------------------------------------------------
\* Types: a case has a borrower, an idle request nothing else, and the ghost
\* speaks of the score and the money only.
TypeOK ==
  /\ status \in Statuses \union {"none"}
  /\ DOMAIN columns = Sections
  /\ status # "none" => columns["borrower"] # Null /\ DOMAIN columns["borrower"] = BorrowerFields
  /\ score # Null => DOMAIN score = DOMAIN Facts(NoColumns)
  /\ config \in Configs
  /\ used \in 0 .. Limit
  /\ agreed \subseteq {"score", "money"}
  /\ \A t \in Requests : req[t].step = "idle" => req[t] = Idle

(***************************************************************************)
(* "[If the score] cannot be written the edit still stands, and the next   *)
(* edit writes it" (persistScoring): whatever raced or died before, after  *)
(* a save that met no other request the stored score is that of the case   *)
(* as it stands, until requests overlap again - also over rates, splits    *)
(* and transitions, none of which compute it anew.                         *)
(***************************************************************************)
ScoreDescribesCase == Quiet /\ "score" \in agreed => score = Facts(columns)

(***************************************************************************)
(* applyUpdate and setSplit keep one total in two tables: after a save of  *)
(* the line or a split that met no other request, the case, its line, its  *)
(* kind of loan and its policy speak of the same money.                    *)
(***************************************************************************)
MoneyAgrees ==
  Quiet /\ "money" \in agreed /\ columns["creditLine"] # Null =>
    LET line == columns["creditLine"]
        ins == line.insurance
    IN  /\ amount = line.total
        /\ Or0(amount) = Or0(line.auto) + Or0(line.polis)
        /\ line.loanType = "MICROCREDIT" <=> Or0(amount) > MicroThreshold
        /\ ins # Null /\ ins.insured =>
             /\ ins.loan = line.polis
             /\ line.override = Null =>
                  10 * ins.sum \in (13 * Or0(line.polis)) .. (13 * Or0(line.polis) + 9)
             /\ 100 * ins.premium >= ins.sum * InsurancePremiumRate(ins.months)

(***************************************************************************)
(* "Preserve a moderator-raised rate across a later DRAFT re-save": the    *)
(* rate of a line is changed by setRate alone, or by a save that another   *)
(* request overlapped and that writes back the rate it had read.           *)
(***************************************************************************)
RaisedRateKept ==
  [][columns["creditLine"] # Null /\ columns'["creditLine"].rate # columns["creditLine"].rate =>
       \E t \in Requests :
          \/ req[t].step = "rate write"
          \/ req[t].step = "write" /\ ~apart]_vars
=============================================================================
