--------------------------- MODULE ApplicationProofs ---------------------------
(***************************************************************************)
(* Proofs about an application's data: the sections of a case, for any      *)
(* requests, payloads, rates, bounds and splits (CaseSections); the gate    *)
(* it is submitted through, for any form (Origination); and its score, for  *)
(* any answers (Scoring).                                                  *)
(***************************************************************************)
EXTENDS MCForms, TLAPS

-----------------------------------------------------------------------------
(***************************************************************************)
(* The inductive invariant.  What an apart request read is still so; what  *)
(* it has yet to write is known from its step.                             *)
(***************************************************************************)

\* What MoneyAgrees says of a total and a line.
Agree(total, line) ==
  line # Null =>
    /\ total = line.total
    /\ Or0(total) = Or0(line.auto) + Or0(line.polis)
    /\ line.loanType = "MICROCREDIT" <=> Or0(total) > MicroThreshold
    /\ line.insurance # Null /\ line.insurance.insured =>
         /\ line.insurance.loan = line.polis
         /\ line.override = Null =>
              10 * line.insurance.sum \in (13 * Or0(line.polis)) .. (13 * Or0(line.polis) + 9)
         /\ 100 * line.insurance.premium
              >= line.insurance.sum * InsurancePremiumRate(line.insurance.months)

GoodData(data) == "creditLine" \in DOMAIN data => Summed(data["creditLine"])

\* What the record of a request holds, by its step.
Kept(s, at, line) ==
  /\ at = "none" => s.step \in {"idle", "insert"}
  /\ s.step = "insert" => at = "none"
  /\ s.step \in {"insert", "check", "rates", "line", "write"} => GoodData(s.data)
  /\ s.step \in {"line", "write"} => s.rate \in LineRates
  /\ s.step \in {"rate case", "rate bounds", "rate write"} => s.rate \in Rates
  /\ s.step \in {"rate bounds", "rate write", "split line"} => line # Null
  /\ s.step = "split case" => s.split \in Splits
  /\ s.step = "split line" => s.line \in Lines

\* What an apart request read is still what is there.
Fresh(s, total, held) ==
  /\ s.step = "write" /\ held["creditLine"] # Null => s.rate = held["creditLine"].rate
  /\ s.step = "split line" => \E split \in Splits : s.line = SplitLine(held["creditLine"], split)
  /\ s.step = "store" => s.facts = Facts(held)
  /\ s.step = "split amount" => Agree(s.total, held["creditLine"])
  /\ s.step \in {"score", "store"} /\ "money" \in s.money => Agree(total, held["creditLine"])

ColumnsTyped ==
  /\ columns = [s \in Sections |-> columns[s]]
  /\ columns["creditLine"] \in Lines \union {Null}

ScorePending ==
  "score" \in agreed =>
    score = Facts(columns) \/ \E t \in Requests : req[t].step \in {"score", "store"}

MoneyPending ==
  "money" \in agreed =>
    Agree(amount, columns["creditLine"]) \/ \E t \in Requests : req[t].step = "split amount"

SectionsInv ==
  /\ req = [t \in Requests |-> req[t]]
  /\ config \in Configs
  /\ ColumnsTyped
  /\ \A t \in Requests : Kept(req[t], status, columns["creditLine"])
  /\ apart => \A s, t \in Requests : req[s] # Idle /\ req[t] # Idle => s = t
  /\ apart => \A t \in Requests : Fresh(req[t], amount, columns)
  /\ status = "none" => apart /\ agreed = {} /\ columns = NoColumns
  /\ ScorePending
  /\ MoneyPending

-----------------------------------------------------------------------------
(***************************************************************************)
(* What the operators compute.                                             *)
(***************************************************************************)

\* Rounding up loses less than the divisor.
LEMMA RoundedUp ==
  ASSUME NEW x \in Nat
  PROVE  /\ CeilDiv(x, 10) \in Nat /\ 10 * CeilDiv(x, 10) \in x .. (x + 9)
         /\ CeilDiv(x, 100) \in Nat /\ 100 * CeilDiv(x, 100) >= x
BY DEF CeilDiv

LEMMA MoneyIsNat ==
  ASSUME SectionsAssumption, NEW m \in Money
  PROVE  Or0(m) \in Nat /\ (m # Null => Or0(m) = m)
BY DEF SectionsAssumption, Money, Or0

\* The policy of a loan: its sum covers the loan with a third more or what was
\* fixed, its premium covers the rate.
LEMMA PolicyOf ==
  ASSUME SectionsAssumption, NEW insured \in BOOLEAN, NEW loan \in Money, NEW months \in Money,
         NEW override \in Money
  PROVE  LET i == Insured(insured, loan, months, override)
         IN  /\ i \in Policies /\ i # Null
             /\ i.insured = insured /\ i.loan = loan /\ i.months = months
             /\ override = Null => 10 * i.sum \in (13 * Or0(loan)) .. (13 * Or0(loan) + 9)
             /\ 100 * i.premium >= i.sum * InsurancePremiumRate(i.months)
<1> DEFINE sum == InsuredSum(loan, override)
           rate == InsurancePremiumRate(months)
           premium == Premium(sum, months)
<1>1. sum \in Nat /\ (override = Null => 10 * sum \in (13 * Or0(loan)) .. (13 * Or0(loan) + 9))
  <2>1. Or0(loan) \in Nat
    BY MoneyIsNat
  <2>2. 13 * Or0(loan) \in Nat
    BY <2>1
  <2>3. CASE override = Null
    BY <2>2, <2>3, RoundedUp DEF InsuredSum
  <2>4. CASE override # Null
    BY <2>4 DEF InsuredSum, Money
  <2> QED BY <2>3, <2>4
<1>2. rate \in {0, 2, 4}
  BY DEF InsurancePremiumRate
<1> HIDE DEF sum
<1>3. sum * rate \in Nat
  BY <1>1, <1>2
<1>4. premium \in Nat /\ 100 * premium >= sum * rate
  BY <1>3, RoundedUp DEF Premium
<1> HIDE DEF rate, premium
<1>5. Insured(insured, loan, months, override)
        = [insured |-> insured, loan |-> loan, months |-> months, sum |-> sum, premium |-> premium]
  BY DEF Insured, sum, premium
<1>6. /\ Insured(insured, loan, months, override) \in Policies
      /\ Insured(insured, loan, months, override) # Null
  BY <1>1, <1>4, <1>5 DEF Policies, SectionsAssumption
<1> QED BY <1>1, <1>4, <1>5, <1>6 DEF rate

LEMMA CapKeeps ==
  ASSUME SectionsAssumption, NEW months \in Money
  PROVE  Capped(months) \in Money
BY DEF Capped, Money, InsuranceMaxMonths, SectionsAssumption

\* A line with the kind of its total and the policy of its part agrees.
LEMMA BuiltAgrees ==
  ASSUME SectionsAssumption, NEW line \in Lines, NEW loan \in Money, NEW months \in Money,
         NEW insured \in BOOLEAN,
         Or0(line.total) = Or0(line.auto) + Or0(line.polis),
         line.loanType = LoanTypeFor(line.total),
         line.insurance # Null =>
           /\ line.insurance = Insured(insured, loan, months, line.override)
           /\ insured => loan = line.polis
  PROVE  Agree(line.total, line)
<1>1. line.override \in Money /\ line.total \in Money
  BY DEF Lines
<1>2. line.loanType = "MICROCREDIT" <=> Or0(line.total) > MicroThreshold
  BY DEF LoanTypeFor
<1>3. ASSUME line.insurance # Null /\ line.insurance.insured
      PROVE  /\ line.insurance.loan = line.polis
             /\ line.override = Null =>
                  10 * line.insurance.sum \in (13 * Or0(line.polis)) .. (13 * Or0(line.polis) + 9)
             /\ 100 * line.insurance.premium
                  >= line.insurance.sum * InsurancePremiumRate(line.insurance.months)
  <2>1. line.insurance = Insured(insured, loan, months, line.override) /\ insured /\ loan = line.polis
    BY <1>1, <1>3, PolicyOf
  <2> DEFINE i == Insured(insured, loan, months, line.override)
  <2>2. /\ i.loan = loan
        /\ line.override = Null => 10 * i.sum \in (13 * Or0(loan)) .. (13 * Or0(loan) + 9)
        /\ 100 * i.premium >= i.sum * InsurancePremiumRate(i.months)
    BY <1>1, PolicyOf
  <2> HIDE DEF i
  <2>3. line.insurance = i
    BY <2>1 DEF i
  <2> QED BY <2>1, <2>2, <2>3
<1> QED BY <1>2, <1>3 DEF Agree

\* A line that a page sends is stored with its kind and policy.
LEMMA NestedAgrees ==
  ASSUME SectionsAssumption, NEW l, Summed(l), NEW rate \in LineRates
  PROVE  LET line == CreditLineNested(l, rate)
         IN  line \in Lines /\ line # Null /\ line.rate = rate /\ Agree(l.total, line)
<1> DEFINE line == CreditLineNested(l, rate)
           insured == IF l.insurance = Null THEN FALSE ELSE l.insurance.insured
           loan == IF l.insurance = Null THEN Null
                   ELSE IF l.insurance.insured THEN l.polis ELSE l.insurance.loan
           months == IF l.insurance = Null THEN Null ELSE Capped(l.insurance.months)
           policy == IF l.insurance = Null THEN Null
                     ELSE Insured(insured, loan, months, l.override)
<1>1. l \in LineForms
  BY DEF Summed
<1>2. insured \in BOOLEAN /\ loan \in Money /\ months \in Money
  BY <1>1, CapKeeps DEF LineForms, Money
<1>3. policy \in Policies \union {Null}
  <2>1. l.override \in Money
    BY <1>1 DEF LineForms
  <2> HIDE DEF insured, loan, months
  <2>2. Insured(insured, loan, months, l.override) \in Policies
    BY <1>2, <2>1, PolicyOf
  <2> QED BY <2>2
<1>4. line = [auto |-> l.auto, polis |-> l.polis, total |-> l.total,
              loanType |-> LoanTypeFor(l.total), rate |-> rate, payment |-> l.payment,
              override |-> l.override, insurance |-> policy]
  BY DEF CreditLineNested
<1> HIDE DEF line, policy
<1>5. line \in Lines
  BY <1>1, <1>3, <1>4 DEF Lines, LineForms, LoanTypeFor
<1>6. Agree(line.total, line)
  <2>1. line.insurance # Null =>
          line.insurance = Insured(insured, loan, months, line.override) /\ (insured => loan = line.polis)
    BY <1>4 DEF policy
  <2> QED BY <1>2, <1>4, <1>5, <2>1, BuiltAgrees DEF Summed
<1> QED BY <1>4, <1>5, <1>6 DEF line, SectionsAssumption

\* A split line has the kind and policy of its new parts; the rest stays.
LEMMA SplitAgrees ==
  ASSUME SectionsAssumption, NEW l \in Lines, NEW split \in Splits
  PROVE  LET line == SplitLine(l, split)
         IN  /\ line \in Lines /\ Agree(line.total, line)
             /\ line.rate = l.rate /\ line.payment = l.payment /\ line.override = l.override
<1> DEFINE line == SplitLine(l, split)
           total == SplitTotal(split.auto, split.polis)
           insured == IF l.insurance = Null THEN FALSE ELSE l.insurance.insured
           loan == IF l.insurance = Null THEN Null
                   ELSE IF l.insurance.insured THEN split.polis ELSE l.insurance.loan
           months == IF l.insurance = Null THEN Null ELSE Capped(l.insurance.months)
           policy == IF l.insurance = Null THEN Null
                     ELSE Insured(insured, loan, months, l.override)
<1>1. split.auto \in Nat /\ split.polis \in Nat
  BY DEF SectionsAssumption
<1>2. total \in Money /\ Or0(total) = Or0(split.auto) + Or0(split.polis)
  BY <1>1 DEF SplitTotal, Or0, Money, SectionsAssumption
<1>3. insured \in BOOLEAN /\ loan \in Money /\ months \in Money
  BY <1>1, CapKeeps DEF Lines, Policies, Money
<1>4. policy \in Policies \union {Null}
  <2>1. l.override \in Money
    BY DEF Lines
  <2> HIDE DEF insured, loan, months
  <2>2. Insured(insured, loan, months, l.override) \in Policies
    BY <1>3, <2>1, PolicyOf
  <2> QED BY <2>2
<1>5. line = [l EXCEPT !.auto = split.auto, !.polis = split.polis, !.total = total,
                       !.loanType = LoanTypeFor(total), !.insurance = policy]
  BY DEF SplitLine
<1> HIDE DEF line, policy, total
<1>6. line \in Lines
  BY <1>1, <1>2, <1>4, <1>5 DEF Lines, Money, LoanTypeFor
<1>7. /\ line.auto = split.auto /\ line.polis = split.polis /\ line.total = total
      /\ line.loanType = LoanTypeFor(total) /\ line.insurance = policy
      /\ line.rate = l.rate /\ line.payment = l.payment /\ line.override = l.override
  BY <1>5 DEF Lines
<1>8. Agree(line.total, line)
  <2>1. line.insurance # Null =>
          line.insurance = Insured(insured, loan, months, line.override) /\ (insured => loan = line.polis)
    BY <1>7 DEF policy
  <2> QED BY <1>2, <1>3, <1>6, <1>7, <2>1, BuiltAgrees
<1> QED BY <1>6, <1>7, <1>8 DEF line
-----------------------------------------------------------------------------
(***************************************************************************)
(* The three kinds of step of a request: it comes in, goes on, leaves.     *)
(***************************************************************************)

\* A request at rest holds and has read nothing.
LEMMA IdleHolds ==
  ASSUME NEW at, NEW line, NEW total, NEW held
  PROVE  Kept(Idle, at, line) /\ Fresh(Idle, total, held) /\ Idle.step = "idle"
BY DEF Kept, Fresh, Idle

\* What the others hold stays good while the status and the line stay there.
LEMMA OthersHold ==
  ASSUME SectionsInv, NEW t \in Requests, req[t] # Idle, NEW q \in Requests \ {t},
         status' = status \/ (status = "none" /\ status' = "DRAFT"),
         columns["creditLine"] # Null => columns'["creditLine"] # Null
  PROVE  Kept(req[q], status', columns'["creditLine"])
<1>1. CASE status' = status
  BY <1>1 DEF SectionsInv, Kept
<1>2. CASE status = "none"
  <2>1. req[q] = Idle
    BY <1>2 DEF SectionsInv
  <2> QED BY <2>1, IdleHolds
<1> QED BY <1>1, <1>2

LEMMA Begins ==
  ASSUME SectionsInv, NEW t \in Requests, NEW x, Begin(t, x),
         Kept(x, status, columns["creditLine"]), status = "none" => Quiet,
         x.step \in {"insert", "check", "rate case", "split case"}
  PROVE  SectionsInv'
<1>1. /\ req[t] = Idle /\ req' = [req EXCEPT ![t] = x] /\ apart' = Quiet
      /\ UNCHANGED <<status, amount, columns, score, config, agreed>>
  BY DEF Begin
<1>2. /\ req'[t] = x /\ \A q \in Requests \ {t} : req'[q] = req[q]
      /\ req' = [q \in Requests |-> req'[q]]
  BY <1>1 DEF SectionsInv
<1>3. \A q \in Requests : Kept(req'[q], status', columns'["creditLine"])
  BY <1>1, <1>2 DEF SectionsInv
<1>4. ASSUME apart'
      PROVE  /\ \A p, q \in Requests : req'[p] # Idle /\ req'[q] # Idle => p = q
             /\ \A q \in Requests : Fresh(req'[q], amount', columns')
  <2>1. \A q \in Requests \ {t} : req'[q] = Idle
    BY <1>1, <1>2, <1>4 DEF Quiet
  <2>2. Fresh(x, amount', columns')
    BY DEF Fresh
  <2> QED BY <1>2, <2>1, <2>2, IdleHolds
<1>5. ScorePending' /\ MoneyPending'
  <2>1. \A q \in Requests : req[q].step \in {"score", "store", "split amount"} => req'[q] = req[q]
    <3>1. req[t] = Idle
      BY <1>1
    <3>2. req[t].step = "idle"
      BY <3>1, IdleHolds
    <3> QED BY <1>2, <3>2
  <2> QED BY <1>1, <2>1 DEF SectionsInv, ScorePending, MoneyPending
<1> QED BY <1>1, <1>2, <1>3, <1>4, <1>5 DEF SectionsInv, ColumnsTyped

LEMMA Goes ==
  ASSUME SectionsInv, NEW t \in Requests, req[t] # Idle, NEW x, Goto(t, x),
         ColumnsTyped', config' = config, status' # "none",
         status' = status \/ (status = "none" /\ status' = "DRAFT"),
         columns["creditLine"] # Null => columns'["creditLine"] # Null,
         Kept(x, status', columns'["creditLine"]),
         apart => Fresh(x, amount', columns'),
         apart /\ "score" \in agreed => score' = Facts(columns') \/ x.step \in {"score", "store"},
         apart /\ "money" \in agreed =>
           Agree(amount', columns'["creditLine"]) \/ x.step = "split amount"
  PROVE  SectionsInv'
<1>1. /\ req' = [req EXCEPT ![t] = x] /\ apart' = apart
      /\ agreed' = IF apart THEN agreed ELSE {}
  BY DEF Goto
<1>2. /\ req'[t] = x /\ \A q \in Requests \ {t} : req'[q] = req[q]
      /\ req' = [q \in Requests |-> req'[q]]
  BY <1>1 DEF SectionsInv
<1>3. \A q \in Requests : Kept(req'[q], status', columns'["creditLine"])
  BY <1>2, OthersHold
<1>4. ASSUME apart'
      PROVE  /\ \A p, q \in Requests : req'[p] # Idle /\ req'[q] # Idle => p = q
             /\ \A q \in Requests : Fresh(req'[q], amount', columns')
  <2>1. \A q \in Requests \ {t} : req'[q] = Idle
    BY <1>1, <1>2, <1>4 DEF SectionsInv
  <2> QED BY <1>1, <1>2, <1>4, <2>1, IdleHolds
<1>5. ScorePending' /\ MoneyPending'
  BY <1>1, <1>2 DEF ScorePending, MoneyPending
<1> QED BY <1>1, <1>2, <1>3, <1>4, <1>5 DEF SectionsInv

LEMMA Leaves ==
  ASSUME SectionsInv, NEW t \in Requests, req[t] # Idle, Leave(t),
         ColumnsTyped', config' = config,
         status' = status \/ (status = "none" /\ status' = "DRAFT"),
         columns["creditLine"] # Null => columns'["creditLine"] # Null,
         status' = "none" => agreed' = {} /\ columns' = NoColumns,
         ~apart => agreed' = {},
         apart /\ "score" \in agreed' => score' = Facts(columns'),
         apart /\ "money" \in agreed' => Agree(amount', columns'["creditLine"])
  PROVE  SectionsInv'
<1>1. /\ req' = [req EXCEPT ![t] = Idle]
      /\ apart' = (apart \/ \A s \in Requests \ {t} : req[s] = Idle)
  BY DEF Leave
<1>2. /\ req'[t] = Idle /\ \A q \in Requests \ {t} : req'[q] = req[q]
      /\ req' = [q \in Requests |-> req'[q]]
  BY <1>1 DEF SectionsInv
<1>3. \A q \in Requests : Kept(req'[q], status', columns'["creditLine"])
  BY <1>2, OthersHold, IdleHolds
<1>4. apart' => \A q \in Requests : req'[q] = Idle
  BY <1>1, <1>2 DEF SectionsInv
<1>5. ScorePending' /\ MoneyPending'
  BY DEF ScorePending, MoneyPending
<1>6. status' = "none" => apart'
  BY <1>1 DEF SectionsInv
<1> QED BY <1>1, <1>2, <1>3, <1>4, <1>5, <1>6, IdleHolds DEF SectionsInv
-----------------------------------------------------------------------------
(***************************************************************************)
(* The operations, step by step.                                           *)
(***************************************************************************)

\* A request under way is known by its step.
LEMMA Busy ==
  ASSUME SectionsInv, NEW t \in Requests, req[t].step # "idle"
  PROVE  /\ req[t] # Idle /\ Kept(req[t], status, columns["creditLine"])
         /\ req[t].step # "insert" => status # "none"
         /\ apart => Fresh(req[t], amount, columns)
         /\ apart => \A q \in Requests \ {t} : req[q] = Idle
<1>1. req[t] # Idle
  BY IdleHolds
<1>2. Kept(req[t], status, columns["creditLine"])
  BY DEF SectionsInv
<1>3. req[t].step # "insert" => status # "none"
  BY <1>2 DEF Kept
<1> QED BY <1>1, <1>2, <1>3 DEF SectionsInv

\* Alone at a step that owes nothing, what was brought into agreement agrees.
LEMMA Settled ==
  ASSUME SectionsInv, NEW t \in Requests, apart, req[t] # Idle
  PROVE  /\ "score" \in agreed /\ req[t].step \notin {"score", "store"} => score = Facts(columns)
         /\ "money" \in agreed /\ req[t].step # "split amount" => Agree(amount, columns["creditLine"])
<1>1. \A q \in Requests : req[q].step \notin {"idle"} => q = t
  BY DEF SectionsInv, Idle
<1> QED BY <1>1 DEF SectionsInv, ScorePending, MoneyPending

\* A payload that arrives carries a line only as its page sends it.
LEMMA PayloadsGood ==
  ASSUME SectionsAssumption, NEW p \in Payloads
  PROVE  GoodData(FillDerived(Masked(p)))
<1>1. GoodData(Masked(p))
  BY DEF GoodData, Masked, SectionsAssumption
<1> HIDE DEF Masked
<1> DEFINE d == Masked(p)
<1>2. \A x : "creditLine" \in DOMAIN [d EXCEPT !["affordability"].payment = x] =>
        "creditLine" \in DOMAIN d
        /\ [d EXCEPT !["affordability"].payment = x]["creditLine"] = d["creditLine"]
  OBVIOUS
<1> QED BY <1>1, <1>2 DEF GoodData, FillDerived

\* What a save leaves in the columns: the line it carries, in agreement, or the one there was.
LEMMA AppliedColumns ==
  ASSUME SectionsAssumption, NEW old, NEW data, GoodData(data), NEW rate \in LineRates,
         old["creditLine"] \in Lines \union {Null}
  PROVE  LET new == Applied(old, data, rate)
         IN  /\ new = [s \in Sections |-> new[s]]
             /\ new["creditLine"] \in Lines \union {Null}
             /\ "creditLine" \notin DOMAIN data => new["creditLine"] = old["creditLine"]
             /\ "creditLine" \in DOMAIN data =>
                  /\ new["creditLine"] # Null /\ new["creditLine"].rate = rate
                  /\ Agree(data["creditLine"].total, new["creditLine"])
<1> DEFINE new == Applied(old, data, rate)
<1>1. "creditLine" \in Sections
  BY DEF Sections
<1>2. new = [s \in Sections |-> new[s]]
  BY DEF Applied
<1>3. new["creditLine"] = IF "creditLine" \in DOMAIN data
                          THEN CreditLineNested(data["creditLine"], rate) ELSE old["creditLine"]
  BY <1>1 DEF Applied
<1> HIDE DEF new
<1>4. CASE "creditLine" \in DOMAIN data
  BY <1>2, <1>3, <1>4, NestedAgrees DEF GoodData, new
<1>5. CASE "creditLine" \notin DOMAIN data
  BY <1>2, <1>3, <1>5 DEF new
<1> QED BY <1>4, <1>5

\* The score does not read the rate or the split of a line.
LEMMA FactsSame ==
  ASSUME NEW old, NEW new,
         \A s \in Sections \ {"creditLine"} : new[s] = old[s],
         old["creditLine"] # Null, new["creditLine"] # Null,
         new["creditLine"].payment = old["creditLine"].payment
  PROVE  Facts(new) = Facts(old)
BY DEF Facts, Sections

\* The agreement does not speak of the rate.
LEMMA AgreeSame ==
  ASSUME NEW total, NEW l, NEW k, l # Null,
         k.total = l.total, k.auto = l.auto, k.polis = l.polis, k.loanType = l.loanType,
         k.override = l.override, k.insurance = l.insurance, Agree(total, l)
  PROVE  Agree(total, k)
BY DEF Agree

LEMMA RatesThere ==
  ASSUME SectionsInv
  PROVE  config.min \in LineRates
BY DEF SectionsInv, LineRates

\* Creation: the line and the amount are written at once.
LEMMA CreateSteps ==
  ASSUME SectionsAssumption, SectionsInv, NEW t \in Requests,
         (\E p \in Payloads : ReceiveCreate(t, p)) \/ InsertCase(t)
  PROVE  SectionsInv'
<1>1. ASSUME NEW p \in Payloads, ReceiveCreate(t, p) PROVE SectionsInv'
  <2> DEFINE x == [step |-> "insert", section |-> p.section, data |-> FillDerived(Masked(p))]
  <2>1. Begin(t, x) /\ status = "none" /\ Quiet
    BY <1>1 DEF ReceiveCreate
  <2>2. x.step = "insert" /\ GoodData(x.data)
    BY PayloadsGood
  <2> HIDE DEF x
  <2>3. Kept(x, status, columns["creditLine"])
    BY <2>1, <2>2 DEF Kept
  <2> QED BY <2>1, <2>2, <2>3, Begins
<1>2. CASE InsertCase(t)
  <2> DEFINE data == req[t].data
  <2>1. req[t] # Idle /\ GoodData(data) /\ status = "none" /\ status' = "DRAFT"
    BY <1>2, Busy DEF InsertCase, Kept
  <2>2. apart /\ agreed = {} /\ columns = NoColumns /\ config' = config
    BY <1>2, <2>1 DEF SectionsInv, InsertCase
  <2>3. NoColumns["creditLine"] = Null /\ columns["creditLine"] = Null
    BY <2>2 DEF NoColumns, Sections
  <2>4. /\ columns' = Applied(NoColumns, data, config.min)
        /\ amount' = IF "creditLine" \in DOMAIN data THEN data["creditLine"].total ELSE Null
    BY <1>2 DEF InsertCase
  <2> HIDE DEF data
  <2>5. ColumnsTyped' /\ Agree(amount', columns'["creditLine"])
    <3>1. CASE "creditLine" \in DOMAIN data
      BY <2>1, <2>3, <2>4, <3>1, AppliedColumns, RatesThere DEF ColumnsTyped
    <3>2. CASE "creditLine" \notin DOMAIN data
      BY <2>1, <2>3, <2>4, <3>2, AppliedColumns, RatesThere DEF ColumnsTyped, Agree
    <3> QED BY <3>1, <3>2
  <2>6. CASE End(t, {"money"})
    BY <2>1, <2>2, <2>3, <2>5, <2>6, Leaves DEF End
  <2>7. CASE Goto(t, [step |-> "score", money |-> {"money"}])
    <3> DEFINE x == [step |-> "score", money |-> {"money"}]
    <3>1. Goto(t, x) /\ x.step = "score"
      BY <2>7
    <3> HIDE DEF x
    <3>2. Kept(x, status', columns'["creditLine"]) /\ Fresh(x, amount', columns')
      BY <2>1, <2>5, <3>1 DEF Kept, Fresh
    <3> QED BY <2>1, <2>2, <2>3, <2>5, <3>1, <3>2, Goes
  <2> QED BY <1>2, <2>6, <2>7 DEF InsertCase
<1> QED BY <1>1, <1>2
\* A request that only reads, before it owes anything.
LEMMA ReadsOn ==
  ASSUME SectionsInv, NEW t \in Requests, NEW x, Goto(t, x),
         UNCHANGED <<status, amount, columns, score, config>>,
         req[t].step \notin {"idle", "insert", "score", "store", "split amount"},
         Kept(x, status, columns["creditLine"]),
         apart => Fresh(x, amount, columns)
  PROVE  SectionsInv'
<1>1. req[t] # Idle /\ status # "none"
  BY Busy
<1>2. ColumnsTyped'
  BY DEF SectionsInv, ColumnsTyped
<1>3. apart =>
        /\ "score" \in agreed => score = Facts(columns)
        /\ "money" \in agreed => Agree(amount, columns["creditLine"])
  BY <1>1, Settled
<1>4. /\ amount' = amount /\ columns' = columns /\ score' = score
      /\ status' = status /\ config' = config
  OBVIOUS
<1> QED BY <1>1, <1>2, <1>3, <1>4, Goes

\* A refused request leaves everything as it was.
LEMMA Refused ==
  ASSUME SectionsInv, NEW t \in Requests, End(t, {}),
         UNCHANGED <<status, amount, columns, score, config>>,
         req[t].step \notin {"idle", "score", "store", "split amount"}
  PROVE  SectionsInv'
<1>1. req[t] # Idle
  BY Busy
<1>2. ColumnsTyped'
  BY DEF SectionsInv, ColumnsTyped
<1>3. apart =>
        /\ "score" \in agreed => score = Facts(columns)
        /\ "money" \in agreed => Agree(amount, columns["creditLine"])
  BY <1>1, Settled
<1>4. /\ amount' = amount /\ columns' = columns /\ score' = score
      /\ status' = status /\ config' = config
  OBVIOUS
<1>5. Leave(t) /\ agreed' = IF apart THEN agreed ELSE {}
  BY DEF End
<1>6. status' = "none" => agreed' = {} /\ columns' = NoColumns
  BY <1>4, <1>5 DEF SectionsInv
<1> QED BY <1>1, <1>2, <1>3, <1>4, <1>5, <1>6, Leaves

\* Saves: alone, the rate written back is the one the line has.
LEMMA UpdateSteps ==
  ASSUME SectionsAssumption, SectionsInv, NEW t \in Requests,
         \/ \E p \in Payloads : ReceiveUpdate(t, p)
         \/ CheckUpdate(t) \/ ReadRates(t) \/ ReadLine(t) \/ WriteUpdate(t)
  PROVE  SectionsInv'
<1> DEFINE data == req[t].data
           line == columns["creditLine"]
<1>1. ASSUME NEW p \in Payloads, ReceiveUpdate(t, p) PROVE SectionsInv'
  <2> DEFINE x == [step |-> "check", data |-> FillDerived(Masked(p))]
  <2>1. Begin(t, x) /\ status # "none"
    BY <1>1 DEF ReceiveUpdate
  <2>2. x.step = "check" /\ GoodData(x.data)
    BY PayloadsGood
  <2> HIDE DEF x
  <2>3. Kept(x, status, columns["creditLine"])
    BY <2>1, <2>2 DEF Kept
  <2> QED BY <2>1, <2>2, <2>3, Begins
<1>2. CASE CheckUpdate(t)
  <2>1. GoodData(data) /\ status # "none"
    BY <1>2, Busy DEF CheckUpdate, Kept
  <2>2. CASE End(t, {})
    BY <1>2, <2>2, Refused DEF CheckUpdate
  <2>3. CASE Goto(t, [step |-> "rates", data |-> data])
    <3> DEFINE x == [step |-> "rates", data |-> data]
    <3>1. Goto(t, x) /\ x.step = "rates" /\ x.data = data
      BY <2>3
    <3> HIDE DEF x, data
    <3>2. Kept(x, status, line) /\ Fresh(x, amount, columns)
      BY <2>1, <3>1 DEF Kept, Fresh
    <3> QED BY <1>2, <3>1, <3>2, ReadsOn DEF CheckUpdate
  <2> QED BY <1>2, <2>2, <2>3 DEF CheckUpdate
<1>3. CASE ReadRates(t)
  <2> DEFINE x == [step |-> "line", data |-> data, rate |-> config.min]
  <2>1. GoodData(data) /\ status # "none"
    BY <1>3, Busy DEF ReadRates, Kept
  <2>2. Goto(t, x) /\ x.step = "line" /\ x.data = data /\ x.rate = config.min
    BY <1>3 DEF ReadRates
  <2> HIDE DEF x, data
  <2>3. Kept(x, status, line) /\ Fresh(x, amount, columns)
    BY <2>1, <2>2, RatesThere DEF Kept, Fresh
  <2> QED BY <1>3, <2>2, <2>3, ReadsOn DEF ReadRates
<1>4. CASE ReadLine(t)
  <2> DEFINE x == [step |-> "write", data |-> data, rate |-> LineRate(req[t].rate)]
  <2>1. GoodData(data) /\ status # "none" /\ req[t].rate \in LineRates
    BY <1>4, Busy DEF ReadLine, Kept
  <2>2. Goto(t, x) /\ x.step = "write" /\ x.data = data /\ x.rate = LineRate(req[t].rate)
    BY <1>4 DEF ReadLine
  <2>3. x.rate \in LineRates /\ (line # Null => x.rate = line.rate)
    BY <2>1, <2>2 DEF LineRate, SectionsInv, ColumnsTyped, Lines
  <2> HIDE DEF x, data
  <2>4. Kept(x, status, line) /\ Fresh(x, amount, columns)
    BY <2>1, <2>2, <2>3 DEF Kept, Fresh
  <2> QED BY <1>4, <2>2, <2>4, ReadsOn DEF ReadLine
<1>5. CASE WriteUpdate(t)
  <2> DEFINE money == IF "creditLine" \in DOMAIN data THEN {"money"} ELSE {}
             x == [step |-> "score", money |-> money]
  <2>1. GoodData(data) /\ status # "none" /\ req[t].rate \in LineRates /\ req[t] # Idle
    BY <1>5, Busy DEF WriteUpdate, Kept
  <2>2. Goto(t, x) /\ x.step = "score" /\ x.money = money
    BY <1>5 DEF WriteUpdate
  <2>3. /\ columns' = Applied(columns, data, req[t].rate) /\ amount' = AmountAfter(data)
        /\ status' = status /\ config' = config
    BY <1>5 DEF WriteUpdate
  <2>4. apart /\ "money" \in agreed => Agree(amount, line)
    BY <1>5, <2>1, Settled DEF WriteUpdate
  <2>5. line \in Lines \union {Null}
    BY DEF SectionsInv, ColumnsTyped
  <2> HIDE DEF x, data
  <2>6. /\ ColumnsTyped'
        /\ "creditLine" \in DOMAIN data => Agree(amount', columns'["creditLine"])
        /\ "creditLine" \notin DOMAIN data => amount' = amount /\ columns'["creditLine"] = line
        /\ line # Null => columns'["creditLine"] # Null
    BY <2>1, <2>3, <2>5, AppliedColumns DEF ColumnsTyped, AmountAfter
  <2>7. Kept(x, status', columns'["creditLine"]) /\ Fresh(x, amount', columns')
    BY <2>1, <2>2, <2>3, <2>6 DEF Kept, Fresh
  <2>8. apart /\ "money" \in agreed => Agree(amount', columns'["creditLine"])
    BY <2>4, <2>6
  <2> QED BY <2>1, <2>2, <2>3, <2>6, <2>7, <2>8, Goes
<1> QED BY <1>1, <1>2, <1>3, <1>4, <1>5

\* The score: alone, what is stored was computed from the case as it stands.
LEMMA ScoreSteps ==
  ASSUME SectionsInv, NEW t \in Requests, ReadForScore(t) \/ StoreScore(t) \/ LoseScore(t)
  PROVE  SectionsInv'
<1>1. /\ req[t] # Idle /\ status # "none"
      /\ apart => Fresh(req[t], amount, columns)
      /\ apart /\ "money" \in agreed => Agree(amount, columns["creditLine"])
      /\ req[t].step \in {"score", "store"}
  BY Busy, Settled DEF ReadForScore, StoreScore, LoseScore
<1>2. amount' = amount /\ columns' = columns /\ status' = status /\ config' = config
  BY DEF ReadForScore, StoreScore, LoseScore
<1>3. ColumnsTyped'
  BY <1>2 DEF SectionsInv, ColumnsTyped
<1>4. CASE ReadForScore(t)
  <2> DEFINE x == [step |-> "store", money |-> req[t].money, facts |-> Facts(columns)]
  <2>1. Goto(t, x) /\ x.step = "store" /\ x.money = req[t].money /\ x.facts = Facts(columns)
    BY <1>4 DEF ReadForScore
  <2> HIDE DEF x
  <2>2. Kept(x, status, columns["creditLine"]) /\ (apart => Fresh(x, amount, columns))
    BY <1>1, <2>1 DEF Kept, Fresh
  <2> QED BY <1>1, <1>2, <1>3, <2>1, <2>2, Goes
<1>5. CASE StoreScore(t)
  <2>1. /\ Leave(t) /\ score' = req[t].facts
        /\ agreed' = IF apart THEN agreed \union ({"score"} \union req[t].money) ELSE {}
    BY <1>5 DEF StoreScore, End
  <2>2. apart => /\ req[t].facts = Facts(columns)
                 /\ "money" \in req[t].money => Agree(amount, columns["creditLine"])
    BY <1>1, <1>5 DEF StoreScore, Fresh
  <2> QED BY <1>1, <1>2, <1>3, <2>1, <2>2, Leaves
<1>6. CASE LoseScore(t)
  <2>1. Leave(t) /\ agreed' = (IF apart THEN agreed ELSE {}) \ {"score"}
    BY <1>6 DEF LoseScore
  <2> QED BY <1>1, <1>2, <1>3, <2>1, Leaves
<1> QED BY <1>4, <1>5, <1>6
\* A rate is written on a line that stays what it is otherwise.
LEMMA RateSteps ==
  ASSUME SectionsAssumption, SectionsInv, NEW t \in Requests,
         \/ \E rate \in Rates : ReceiveRate(t, rate)
         \/ CheckRate(t) \/ CheckBounds(t) \/ WriteRate(t)
  PROVE  SectionsInv'
<1> DEFINE line == columns["creditLine"]
<1>1. ASSUME NEW rate \in Rates, ReceiveRate(t, rate) PROVE SectionsInv'
  <2> DEFINE x == [step |-> "rate case", rate |-> rate]
  <2>1. Begin(t, x) /\ status # "none" /\ x.step = "rate case" /\ x.rate = rate
    BY <1>1 DEF ReceiveRate
  <2> HIDE DEF x
  <2>2. Kept(x, status, line)
    BY <2>1 DEF Kept
  <2> QED BY <2>1, <2>2, Begins
<1>2. CASE CheckRate(t)
  <2>1. req[t].rate \in Rates /\ status # "none"
    BY <1>2, Busy DEF CheckRate, Kept
  <2>2. CASE End(t, {})
    BY <1>2, <2>2, Refused DEF CheckRate
  <2>3. CASE line # Null /\ Goto(t, [step |-> "rate bounds", rate |-> req[t].rate])
    <3> DEFINE x == [step |-> "rate bounds", rate |-> req[t].rate]
    <3>1. Goto(t, x) /\ x.step = "rate bounds" /\ x.rate = req[t].rate
      BY <2>3
    <3> HIDE DEF x
    <3>2. Kept(x, status, line) /\ Fresh(x, amount, columns)
      BY <2>1, <2>3, <3>1 DEF Kept, Fresh
    <3> QED BY <1>2, <3>1, <3>2, ReadsOn DEF CheckRate
  <2> QED BY <1>2, <2>2, <2>3 DEF CheckRate
<1>3. CASE CheckBounds(t)
  <2>1. req[t].rate \in Rates /\ status # "none" /\ line # Null
    BY <1>3, Busy DEF CheckBounds, Kept
  <2>2. CASE End(t, {})
    BY <1>3, <2>2, Refused DEF CheckBounds
  <2>3. CASE Goto(t, [step |-> "rate write", rate |-> req[t].rate])
    <3> DEFINE x == [step |-> "rate write", rate |-> req[t].rate]
    <3>1. Goto(t, x) /\ x.step = "rate write" /\ x.rate = req[t].rate
      BY <2>3
    <3> HIDE DEF x
    <3>2. Kept(x, status, line) /\ Fresh(x, amount, columns)
      BY <2>1, <3>1 DEF Kept, Fresh
    <3> QED BY <1>3, <3>1, <3>2, ReadsOn DEF CheckBounds
  <2> QED BY <1>3, <2>2, <2>3 DEF CheckBounds
<1>4. CASE WriteRate(t)
  <2> DEFINE new == [line EXCEPT !.rate = req[t].rate]
  <2>1. req[t] # Idle /\ req[t].rate \in LineRates /\ status # "none" /\ line # Null
    BY <1>4, Busy DEF WriteRate, Kept, LineRates
  <2>2. line \in Lines
    BY <2>1 DEF SectionsInv, ColumnsTyped
  <2>3. /\ new \in Lines /\ new # Null
        /\ new.total = line.total /\ new.auto = line.auto /\ new.polis = line.polis
        /\ new.loanType = line.loanType /\ new.override = line.override
        /\ new.insurance = line.insurance /\ new.payment = line.payment
    BY <2>1, <2>2 DEF Lines, SectionsAssumption
  <2>4. /\ columns' = [columns EXCEPT !["creditLine"] = new]
        /\ amount' = amount /\ score' = score /\ status' = status /\ config' = config
        /\ Leave(t) /\ agreed' = IF apart THEN agreed ELSE {}
    BY <1>4 DEF WriteRate, End
  <2> HIDE DEF new
  <2>5. /\ columns'["creditLine"] = new
        /\ \A s \in Sections \ {"creditLine"} : columns'[s] = columns[s]
        /\ columns' = [s \in Sections |-> columns'[s]]
    BY <2>4 DEF SectionsInv, ColumnsTyped, Sections
  <2>6. Facts(columns') = Facts(columns)
    BY <2>1, <2>3, <2>5, FactsSame
  <2>7. apart => /\ "score" \in agreed => score = Facts(columns)
                 /\ "money" \in agreed => Agree(amount, line)
    BY <1>4, <2>1, Settled DEF WriteRate
  <2>8. Agree(amount, line) => Agree(amount, new)
    BY <2>1, <2>3, AgreeSame
  <2>9. ColumnsTyped'
    BY <2>3, <2>5 DEF ColumnsTyped
  <2> QED BY <2>1, <2>3, <2>4, <2>5, <2>6, <2>7, <2>8, <2>9, Leaves
<1> QED BY <1>1, <1>2, <1>3, <1>4

\* A split: alone, the line it computed is written over the line it was computed
\* from, and the amount follows.
LEMMA SplitSteps ==
  ASSUME SectionsAssumption, SectionsInv, NEW t \in Requests,
         \/ \E split \in Splits : ReceiveSplit(t, split)
         \/ CheckSplit(t) \/ WriteSplit(t) \/ WriteAmount(t)
  PROVE  SectionsInv'
<1> DEFINE line == columns["creditLine"]
<1>1. ASSUME NEW split \in Splits, ReceiveSplit(t, split) PROVE SectionsInv'
  <2> DEFINE x == [step |-> "split case", split |-> split]
  <2>1. Begin(t, x) /\ status # "none" /\ x.step = "split case" /\ x.split = split
    BY <1>1 DEF ReceiveSplit
  <2> HIDE DEF x
  <2>2. Kept(x, status, line)
    BY <2>1 DEF Kept
  <2> QED BY <2>1, <2>2, Begins
<1>2. CASE CheckSplit(t)
  <2>1. req[t].split \in Splits /\ status # "none"
    BY <1>2, Busy DEF CheckSplit, Kept
  <2>2. CASE End(t, {})
    BY <1>2, <2>2, Refused DEF CheckSplit
  <2>3. CASE line # Null /\ Goto(t, [step |-> "split line", line |-> SplitLine(line, req[t].split)])
    <3> DEFINE x == [step |-> "split line", line |-> SplitLine(line, req[t].split)]
    <3>1. Goto(t, x) /\ x.step = "split line" /\ x.line = SplitLine(line, req[t].split)
      BY <2>3
    <3>2. line \in Lines
      BY <2>3 DEF SectionsInv, ColumnsTyped
    <3>3. x.line \in Lines
      BY <2>1, <3>1, <3>2, SplitAgrees
    <3> HIDE DEF x
    <3>4. Kept(x, status, line) /\ Fresh(x, amount, columns)
      BY <2>1, <2>3, <3>1, <3>3 DEF Kept, Fresh
    <3> QED BY <1>2, <3>1, <3>4, ReadsOn DEF CheckSplit
  <2> QED BY <1>2, <2>2, <2>3 DEF CheckSplit
<1>3. CASE WriteSplit(t)
  <2> DEFINE new == [req[t].line EXCEPT !.rate = line.rate, !.payment = line.payment,
                                        !.override = line.override]
             x == [step |-> "split amount", total |-> req[t].line.total]
  <2>1. req[t] # Idle /\ req[t].line \in Lines /\ status # "none" /\ line # Null
    BY <1>3, Busy DEF WriteSplit, Kept
  <2>2. line \in Lines
    BY <2>1 DEF SectionsInv, ColumnsTyped
  <2>3. new \in Lines /\ new # Null /\ new.payment = line.payment /\ new.total = req[t].line.total
    BY <2>1, <2>2 DEF Lines, SectionsAssumption
  <2>4. /\ columns' = [columns EXCEPT !["creditLine"] = new]
        /\ score' = score /\ status' = status /\ config' = config
        /\ Goto(t, x) /\ x.step = "split amount" /\ x.total = req[t].line.total
    BY <1>3 DEF WriteSplit
  <2>5. ASSUME apart PROVE Agree(x.total, new)
    <3>1. PICK split \in Splits : req[t].line = SplitLine(line, split)
      BY <1>3, <2>5, Busy DEF WriteSplit, Fresh
    <3>2. /\ req[t].line.rate = line.rate /\ req[t].line.payment = line.payment
          /\ req[t].line.override = line.override
          /\ Agree(req[t].line.total, req[t].line)
      BY <2>2, <3>1, SplitAgrees
    <3>3. new = req[t].line
      BY <2>1, <3>2 DEF Lines
    <3> QED BY <2>4, <3>2, <3>3
  <2> HIDE DEF new, x
  <2>6. /\ columns'["creditLine"] = new
        /\ \A s \in Sections \ {"creditLine"} : columns'[s] = columns[s]
        /\ columns' = [s \in Sections |-> columns'[s]]
    BY <2>4 DEF SectionsInv, ColumnsTyped, Sections
  <2>7. Facts(columns') = Facts(columns)
    BY <2>1, <2>3, <2>6, FactsSame
  <2>8. apart /\ "score" \in agreed => score = Facts(columns)
    BY <1>3, <2>1, Settled DEF WriteSplit
  <2>9. ColumnsTyped'
    BY <2>3, <2>6 DEF ColumnsTyped
  <2>10. Kept(x, status', columns'["creditLine"]) /\ (apart => Fresh(x, amount', columns'))
    BY <2>1, <2>4, <2>5, <2>6 DEF Kept, Fresh
  <2> QED BY <2>1, <2>3, <2>4, <2>6, <2>7, <2>8, <2>9, <2>10, Goes
<1>4. CASE WriteAmount(t)
  <2>1. req[t] # Idle /\ status # "none"
    BY <1>4, Busy DEF WriteAmount
  <2>2. /\ columns' = columns /\ amount' = req[t].total
        /\ score' = score /\ status' = status /\ config' = config
        /\ Leave(t) /\ agreed' = IF apart THEN agreed \union {"money"} ELSE {}
    BY <1>4 DEF WriteAmount, End
  <2>3. ColumnsTyped'
    BY <2>2 DEF SectionsInv, ColumnsTyped
  <2>4. apart => /\ "score" \in agreed => score = Facts(columns)
                 /\ Agree(req[t].total, line)
    BY <1>4, <2>1, Settled, Busy DEF WriteAmount, Fresh
  <2> QED BY <2>1, <2>2, <2>3, <2>4, Leaves
<1> QED BY <1>1, <1>2, <1>3, <1>4

\* No rule of the table starts before there is a case.
LEMMA NoRuleFromNone ==
  \A rule \in Transitions : rule.from # "none" /\ rule.to # "none"
BY DEF Transitions, Rule

\* Settings, transitions and crashes.
LEMMA OtherSteps ==
  ASSUME SectionsInv, \/ Move \/ \E new \in Configs : UpdateConfig(new)
                      \/ \E t \in Requests : Abort(t)
                      \/ UNCHANGED vars
  PROVE  SectionsInv'
<1>1. CASE Move
  <2>1. status # "none" /\ status' # "none"
    BY <1>1, NoRuleFromNone DEF Move
  <2>2. UNCHANGED <<amount, columns, score, config, req, apart, agreed>>
    BY <1>1 DEF Move
  <2>3. \A t \in Requests : Kept(req[t], status', columns["creditLine"])
    BY <2>1 DEF SectionsInv, Kept
  <2> QED BY <2>1, <2>2, <2>3 DEF SectionsInv, ColumnsTyped, ScorePending, MoneyPending
<1>2. ASSUME NEW new \in Configs, UpdateConfig(new) PROVE SectionsInv'
  BY <1>2 DEF UpdateConfig, SectionsInv, ColumnsTyped, ScorePending, MoneyPending
<1>3. ASSUME NEW t \in Requests, Abort(t) PROVE SectionsInv'
  <2>1. /\ req[t] # Idle /\ Leave(t) /\ agreed' = {}
        /\ columns' = columns /\ status' = status /\ config' = config
    BY <1>3 DEF Abort
  <2>2. ColumnsTyped' /\ (status' = "none" => columns' = NoColumns)
    BY <2>1 DEF SectionsInv, ColumnsTyped
  <2> QED BY <2>1, <2>2, Leaves
<1>4. CASE UNCHANGED vars
  BY <1>4 DEF vars, SectionsInv, ColumnsTyped, ScorePending, MoneyPending
<1> QED BY <1>1, <1>2, <1>3, <1>4

-----------------------------------------------------------------------------
\* Whatever requests overlap or die: what an apart request read is still so, and
\* what was brought into agreement agrees, or its step says what is to be written.
THEOREM SectionsInductive ==
  ASSUME SectionsAssumption
  PROVE  Spec => []SectionsInv
<1>1. Init => SectionsInv
  <2> SUFFICES ASSUME Init PROVE SectionsInv
    OBVIOUS
  <2>1. ColumnsTyped
    BY DEF Init, ColumnsTyped, NoColumns, Sections
  <2>2. \A t \in Requests : req[t] = Idle
    BY DEF Init
  <2>3. req = [t \in Requests |-> req[t]]
    BY DEF Init
  <2> QED BY <2>1, <2>2, <2>3, IdleHolds DEF Init, SectionsInv, ScorePending, MoneyPending
<1>2. SectionsInv /\ [Next]_vars => SectionsInv'
  BY CreateSteps, UpdateSteps, ScoreSteps, RateSteps, SplitSteps, OtherSteps DEF Next, Step
<1> QED BY <1>1, <1>2, PTL DEF Spec

\* After a save that met no other request the stored score is that of the case
\* as it stands, whatever raced or died before (persistScoring).
THEOREM ScoreIsCurrent ==
  ASSUME SectionsAssumption
  PROVE  Spec => []ScoreDescribesCase
<1>1. SectionsInv => ScoreDescribesCase
  BY IdleHolds DEF SectionsInv, ScorePending, ScoreDescribesCase, Quiet
<1> QED BY <1>1, SectionsInductive, PTL

\* After a save of the line or a split that met no other request, the case, its
\* line, its kind of loan and its policy speak of the same money.
THEOREM MoneyStaysTogether ==
  ASSUME SectionsAssumption
  PROVE  Spec => []MoneyAgrees
<1>1. SectionsInv => MoneyAgrees
  BY IdleHolds DEF SectionsInv, MoneyPending, MoneyAgrees, Agree, Quiet
<1> QED BY <1>1, SectionsInductive, PTL

\* A rate a moderator raised is changed by setRate alone, or by a save that
\* another request overlapped.
THEOREM RaisedRateStays ==
  ASSUME SectionsAssumption
  PROVE  Spec => RaisedRateKept
<1>1. SectionsInv /\ [Next]_vars =>
        [columns["creditLine"] # Null /\ columns'["creditLine"].rate # columns["creditLine"].rate =>
           \E t \in Requests :
             \/ req[t].step = "rate write"
             \/ req[t].step = "write" /\ ~apart]_vars
  <2> SUFFICES ASSUME SectionsInv, Next, columns["creditLine"] # Null,
                      columns'["creditLine"].rate # columns["creditLine"].rate
               PROVE  \E t \in Requests :
                        \/ req[t].step = "rate write"
                        \/ req[t].step = "write" /\ ~apart
    OBVIOUS
  <2>1. PICK t \in Requests : InsertCase(t) \/ WriteUpdate(t) \/ WriteRate(t) \/ WriteSplit(t)
    BY DEF Next, Step, Move, UpdateConfig, Abort, ReceiveCreate, ReceiveUpdate, ReceiveRate,
       ReceiveSplit, Begin, CheckUpdate, ReadRates, ReadLine, ReadForScore, StoreScore, LoseScore,
       CheckRate, CheckBounds, CheckSplit, WriteAmount
  <2>2. ~InsertCase(t)
    BY Busy DEF InsertCase, Kept, SectionsInv, NoColumns, Sections
  <2>3. ASSUME WriteSplit(t) PROVE FALSE
    <3>1. req[t].line \in Lines
      BY <2>3, Busy DEF WriteSplit, Kept
    <3> QED BY <2>3, <3>1 DEF WriteSplit, SectionsInv, ColumnsTyped, Lines, Sections
  <2>4. ASSUME WriteUpdate(t), apart PROVE FALSE
    <3> DEFINE data == req[t].data
    <3>1. /\ GoodData(data) /\ req[t].rate \in LineRates
          /\ req[t].rate = columns["creditLine"].rate
      BY <2>4, Busy DEF WriteUpdate, Kept, Fresh
    <3>2. columns' = Applied(columns, data, req[t].rate)
      BY <2>4 DEF WriteUpdate
    <3> HIDE DEF data
    <3>3. columns'["creditLine"].rate = columns["creditLine"].rate
      BY <3>1, <3>2, AppliedColumns DEF SectionsInv, ColumnsTyped
    <3> QED BY <3>3
  <2> QED BY <2>1, <2>2, <2>3, <2>4 DEF WriteRate, WriteUpdate
<1> QED BY <1>1, SectionsInductive, PTL DEF Spec, RaisedRateKept

-----------------------------------------------------------------------------
(***************************************************************************)
(* The gate of a submit.                                                   *)
(***************************************************************************)

\* With the borrower's name every pledge has an owner.
LEMMA SomeOwner ==
  \A owners : ResolveOwners(owners, TRUE) # {}
BY DEF ResolveOwners

\* What the server's gate asks, test by test.
LEMMA GateTests ==
  ASSUME NEW f
  PROVE  CaseSubmitErrors(f) = {} <=>
           /\ Identity \subseteq f.identity
           /\ f.contacts >= 2
           /\ Or0(AmountTotal(f)) > 0
           /\ LineTerm(f) \in 1 .. LineTermCap
           /\ f.collaterals # {} /\ \A c \in f.collaterals : CollateralComplete(c)
           /\ \A c \in f.collaterals : ResolveOwners(c.owners, "fullName" \in f.identity) # {}
           /\ f.katm
           /\ Or0(AmountTotal(f)) > MicroThreshold => Employed(f)
           /\ TrancheErrors(Tranche(f)) = {}
<1> DEFINE named == "fullName" \in f.identity
           tests ==
             [contacts    |-> f.contacts >= 2,
              amountTotal |-> Or0(AmountTotal(f)) > 0,
              lineTerm    |-> LineTerm(f) \in 1 .. LineTermCap,
              collateral  |-> f.collaterals # {} /\ \A c \in f.collaterals : CollateralComplete(c),
              owner       |-> \A c \in f.collaterals : ResolveOwners(c.owners, named) # {},
              katm        |-> f.katm,
              employment  |-> Or0(AmountTotal(f)) > MicroThreshold => Employed(f)]
<1>1. CaseSubmitErrors(f) =
        (Identity \ f.identity) \union {t \in DOMAIN tests : ~tests[t]} \union TrancheErrors(Tranche(f))
  BY DEF CaseSubmitErrors
<1>2. {t \in DOMAIN tests : ~tests[t]} = {} <=>
        /\ tests.contacts /\ tests.amountTotal /\ tests.lineTerm /\ tests.collateral
        /\ tests.owner /\ tests.katm /\ tests.employment
  OBVIOUS
<1> QED BY <1>1, <1>2

\* What the wizard asks, test by test.
LEMMA WizardAsks ==
  ASSUME NEW f
  PROVE  WizardErrors(f) = {} <=>
           LET tr == Tranche(f)
               method == IF tr = Null THEN Null ELSE tr.method
           IN  /\ Identity \subseteq f.identity
               /\ f.contacts >= 2
               /\ Or0(AmountTotal(f)) > MicroThreshold => Employed(f)
               /\ Or0(AmountTotal(f)) > 0
               /\ LineTerm(f) > 0 /\ LineTerm(f) <= LineTermCap
               /\ f.collaterals # {} /\ \A c \in f.collaterals : CollateralComplete(c)
               /\ method # Null
               /\ method # Null /\ IsTermValid(method, tr.term)
               /\ tr # Null /\ Or0(tr.principal) > 0
               /\ f.katm
<1> DEFINE t == WizardTests(f)
<1>1. WizardErrors(f) = {} <=>
        /\ t.fullName /\ t.contacts /\ t.pinfl /\ t.passportSeries /\ t.passportNumber /\ t.phone
        /\ t.employment /\ t.amountTotal /\ t.lineTerm /\ t.collateral /\ t.scheduleType
        /\ t.trancheTerm /\ t.principal /\ t.katm
  BY DEF WizardErrors, WizardTests
<1>2. Identity \subseteq f.identity <=>
        /\ t.fullName /\ t.pinfl /\ t.passportSeries /\ t.passportNumber /\ t.phone
  BY DEF WizardTests, Identity
<1> QED BY <1>1, <1>2 DEF WizardTests

\* The rules of a tranche: without its errors it has a method, a term and a principal.
LEMMA TrancheAsks ==
  ASSUME NEW tr
  PROVE  TrancheErrors(tr) = {} <=>
           /\ tr # Null /\ tr.method # Null
           /\ IsTermValid(tr.method, tr.term)
           /\ ~(Or0(tr.principal) <= 0)
<1>1. /\ "scheduleType" \in TrancheErrors(tr) <=> tr = Null \/ tr.method = Null
      /\ "trancheTerm" \in TrancheErrors(tr) <=> tr = Null \/ ~IsTermValid(tr.method, tr.term)
      /\ "principal" \in TrancheErrors(tr) <=> tr = Null \/ Or0(tr.principal) <= 0
  BY DEF TrancheErrors
<1>2. TrancheErrors(tr) \subseteq {"scheduleType", "trancheTerm", "principal"}
  BY DEF TrancheErrors
<1> QED BY <1>1, <1>2

\* The save before the submit keeps what the gate reads, where the line has a total.
LEMMA SavedFormSame ==
  ASSUME OriginationAssumption, NEW f, IsForm(f)
  PROVE  LET g == SavedForm(f)
         IN  /\ g.identity = f.identity /\ g.contacts = f.contacts /\ g.line = f.line
             /\ g.collaterals = f.collaterals /\ g.katm = f.katm
             /\ g.employer = f.employer /\ g.income = f.income
             /\ f.line # Null => g.amount = f.line.total
             /\ f.line = Null => g = f
BY DEF SavedForm, IsForm, FormFields

\* For every form: the wizard calls complete what the server takes in, and the
\* other way round where the amount shown is the line's.
LEMMA GateOfAny ==
  ASSUME OriginationAssumption, NEW f, IsForm(f)
  PROVE  GateMirrors(f)
<1> DEFINE g == SavedForm(f)
           tr == Tranche(f)
<1>1. /\ g.identity = f.identity /\ g.contacts = f.contacts /\ g.line = f.line
      /\ g.collaterals = f.collaterals /\ g.katm = f.katm
      /\ g.employer = f.employer /\ g.income = f.income
      /\ f.line # Null => g.amount = f.line.total
      /\ f.line = Null => g = f
  BY SavedFormSame
<1> HIDE DEF g
<1>2. /\ Tranche(g) = tr /\ LineTerm(g) = LineTerm(f) /\ Employed(g) = Employed(f)
      /\ f.line = Null => tr = Null
  BY <1>1 DEF Tranche, LineTerm, Employed
<1>3. f.line # Null => f.line \in FormLines /\ tr = f.line.tranche
  BY DEF IsForm, Tranche
<1>4. tr # Null => /\ f.line # Null /\ tr \in FormTranches
                   /\ tr.principal \in Int \union {Null} /\ Or0(tr.principal) \in Int
  BY <1>2, <1>3 DEF FormLines, FormTranches, Or0
<1>5. LineTerm(f) \in Int
  BY <1>3 DEF LineTerm, Or0, FormLines
<1>6. f.line # Null /\ (Or0(AmountTotal(g)) > 0 \/ f.amount \in {Null, f.line.total}) =>
        Or0(AmountTotal(f)) = Or0(AmountTotal(g))
  BY <1>1 DEF AmountTotal, Or0
<1>7. Identity \subseteq f.identity => "fullName" \in f.identity
  BY DEF Identity
<1>8. ASSUME CaseSubmitErrors(g) = {}
      PROVE  WizardErrors(f) = {} /\ ~LoanRulesBroken(tr.method, tr.term, f.line.term)
  <2>1. /\ tr # Null /\ tr.method # Null /\ IsTermValid(tr.method, tr.term)
        /\ ~(Or0(tr.principal) <= 0)
    BY <1>2, <1>8, GateTests, TrancheAsks
  <2>2. Or0(tr.principal) > 0 /\ f.line # Null
    BY <1>4, <2>1
  <2>3. Or0(AmountTotal(f)) = Or0(AmountTotal(g))
    BY <1>6, <1>8, <2>2, GateTests
  <2>4. LineTerm(f) \in 1 .. LineTermCap
    BY <1>2, <1>8, GateTests
  <2>5. WizardErrors(f) = {}
    BY <1>1, <1>2, <1>5, <1>8, <2>1, <2>2, <2>3, <2>4, GateTests, WizardAsks DEF LineTermCap
  <2>6. f.line.term \in 1 .. LineTermCap
    BY <1>3, <2>2, <2>4 DEF LineTerm, Or0, FormLines, LineTermCap
  <2> QED BY <2>1, <2>5, <2>6 DEF LoanRulesBroken
<1>9. ASSUME WizardErrors(f) = {}, f.line # Null => f.amount \in {Null, f.line.total}
      PROVE  CaseSubmitErrors(g) = {}
  <2>1. /\ tr # Null /\ tr.method # Null /\ IsTermValid(tr.method, tr.term)
        /\ Or0(tr.principal) > 0 /\ Identity \subseteq f.identity
        /\ LineTerm(f) > 0 /\ LineTerm(f) <= LineTermCap
    BY <1>9, WizardAsks
  <2>2. TrancheErrors(tr) = {}
    BY <1>4, <2>1, TrancheAsks
  <2>3. Or0(AmountTotal(f)) = Or0(AmountTotal(g))
    BY <1>4, <1>6, <1>9, <2>1
  <2>4. LineTerm(f) \in 1 .. LineTermCap
    BY <1>5, <2>1 DEF LineTermCap
  <2>5. \A c \in f.collaterals : ResolveOwners(c.owners, "fullName" \in f.identity) # {}
    BY <1>7, <2>1, SomeOwner
  <2> QED BY <1>1, <1>2, <1>9, <2>1, <2>2, <2>3, <2>4, <2>5, GateTests, WizardAsks
<1> QED BY <1>8, <1>9 DEF GateMirrors, g, tr

-----------------------------------------------------------------------------
(***************************************************************************)
(* The score.                                                              *)
(***************************************************************************)

\* The factors that earn points, and the two that cost them.
Factors ==
  {"gender", "age", "education", "maritalStatus", "collateral", "familySize", "pledgor",
   "residence", "sector", "position", "experience", "housing", "deposits", "loanCount",
   "otherObligations", "currentObligations", "trancheToIncome", "surplusToTranche"}

Penalties == {"loansOver5M", "priorMfi"}

\* The answers that are compared.
Numbers == {"age", "family", "sector", "deposit", "active"}

\* An input to score (what ScoringInput makes of a case: InputOfCase).
IsInput(i) ==
  /\ i = [x \in Answers \union {"income", "tranche", "expenses"} |-> i[x]]
  /\ \A x \in Numbers : i[x] \in Int \union {Null}
  /\ i.income \in Int /\ i.tranche \in Int /\ i.expenses \in Int

\* A ladder returns one of its steps or what is below them.
LEMMA LadderOf3 ==
  ASSUME NEW x \in Int, NEW a \in Int, NEW b \in Int, NEW c \in Int, NEW p, NEW q, NEW r, NEW o
  PROVE  Ladder(x, <<<<a, p>>, <<b, q>>, <<c, r>>>>, o) \in {p, q, r, o}
<1> DEFINE steps == <<<<a, p>>, <<b, q>>, <<c, r>>>>
           Fits(k) == x >= steps[k][1] /\ \A j \in DOMAIN steps : j < k => x < steps[j][1]
<1>1. DOMAIN steps = 1 .. 3 /\ steps[1] = <<a, p>> /\ steps[2] = <<b, q>> /\ steps[3] = <<c, r>>
  OBVIOUS
<1>2. ASSUME \E k \in DOMAIN steps : x >= steps[k][1]
      PROVE  \E k \in DOMAIN steps : Fits(k)
  <2>1. CASE x >= a
    <3>1. Fits(1)
      BY <1>1, <2>1
    <3> QED BY <1>1, <3>1
  <2>2. CASE ~(x >= a) /\ x >= b
    <3>1. Fits(2)
      BY <1>1, <2>2
    <3> QED BY <1>1, <3>1
  <2>3. CASE ~(x >= a) /\ ~(x >= b)
    <3>1. x >= c
      BY <1>1, <1>2, <2>3
    <3>2. Fits(3)
      BY <1>1, <2>3, <3>1
    <3> QED BY <1>1, <3>2
  <2> QED BY <2>1, <2>2, <2>3
<1>3. ASSUME \E k \in DOMAIN steps : x >= steps[k][1]
      PROVE  (CHOOSE k \in DOMAIN steps : Fits(k)) \in 1 .. 3
  BY <1>1, <1>2, <1>3
<1>4. \A k \in 1 .. 3 : steps[k][2] \in {p, q, r}
  BY <1>1
<1> HIDE DEF steps
<1> QED BY <1>3, <1>4 DEF Ladder

LEMMA LadderOf2 ==
  ASSUME NEW x \in Int, NEW a \in Int, NEW b \in Int, NEW p, NEW q, NEW o
  PROVE  Ladder(x, <<<<a, p>>, <<b, q>>>>, o) \in {p, q, o}
<1> DEFINE steps == <<<<a, p>>, <<b, q>>>>
           Fits(k) == x >= steps[k][1] /\ \A j \in DOMAIN steps : j < k => x < steps[j][1]
<1>1. DOMAIN steps = 1 .. 2 /\ steps[1] = <<a, p>> /\ steps[2] = <<b, q>>
  OBVIOUS
<1>2. ASSUME \E k \in DOMAIN steps : x >= steps[k][1]
      PROVE  \E k \in DOMAIN steps : Fits(k)
  <2>1. CASE x >= a
    <3>1. Fits(1)
      BY <1>1, <2>1
    <3> QED BY <1>1, <3>1
  <2>2. CASE ~(x >= a)
    <3>1. x >= b
      BY <1>1, <1>2, <2>2
    <3>2. Fits(2)
      BY <1>1, <2>2, <3>1
    <3> QED BY <1>1, <3>2
  <2> QED BY <2>1, <2>2
<1>3. ASSUME \E k \in DOMAIN steps : x >= steps[k][1]
      PROVE  (CHOOSE k \in DOMAIN steps : Fits(k)) \in 1 .. 2
  BY <1>1, <1>2, <1>3
<1>4. \A k \in 1 .. 2 : steps[k][2] \in {p, q}
  BY <1>1
<1> HIDE DEF steps
<1> QED BY <1>3, <1>4 DEF Ladder

\* The points of a factor lie between nothing and its best, penalties below nothing.
LEMMA PointsBetween ==
  ASSUME OriginationAssumption, NEW i, IsInput(i)
  PROVE  /\ \A f \in Factors : Points(i, f) \in 0 .. (IF Missing(i, f) THEN 0 ELSE MaxPoints(f))
         /\ \A f \in Penalties : Points(i, f) \in -5 .. 0
<1> DEFINE Good(f) == Points(i, f) \in 0 .. (IF Missing(i, f) THEN 0 ELSE MaxPoints(f))
<1>1. \A f \in Factors : Missing(i, f) => Points(i, f) = 0
  BY DEF Points
<1>2. /\ i.age \in Int => Ladder(i.age, <<<<50 * Year, 5>>, <<30 * Year, 4>>, <<20 * Year, 2>>>>, 0) \in {5, 4, 2, 0}
      /\ i.family \in Int => Ladder(i.family, <<<<3, 1>>, <<1, 2>>>>, 3) \in {1, 2, 3}
      /\ i.sector \in Int => Ladder(i.sector, <<<<19, 4>>, <<10, 5>>>>, 6) \in {4, 5, 6}
      /\ i.deposit \in Int => Ladder(i.deposit, <<<<3000, 3>>, <<1000, 2>>, <<500, 1>>>>, 0) \in {3, 2, 1, 0}
      /\ i.active \in Int => Ladder(i.active, <<<<3, 3>>, <<2, 2>>>>, 1) \in {1, 2, 3}
  <2>1. 50 * Year \in Int /\ 30 * Year \in Int /\ 20 * Year \in Int
    BY DEF Year
  <2> HIDE DEF Year
  <2>2. i.age \in Int => Ladder(i.age, <<<<50 * Year, 5>>, <<30 * Year, 4>>, <<20 * Year, 2>>>>, 0) \in {5, 4, 2, 0}
    BY <2>1, LadderOf3
  <2>3. i.family \in Int => Ladder(i.family, <<<<3, 1>>, <<1, 2>>>>, 3) \in {1, 2, 3}
    BY LadderOf2
  <2>4. i.sector \in Int => Ladder(i.sector, <<<<19, 4>>, <<10, 5>>>>, 6) \in {4, 5, 6}
    BY LadderOf2
  <2>5. i.deposit \in Int => Ladder(i.deposit, <<<<3000, 3>>, <<1000, 2>>, <<500, 1>>>>, 0) \in {3, 2, 1, 0}
    BY LadderOf3
  <2>6. i.active \in Int => Ladder(i.active, <<<<3, 3>>, <<2, 2>>>>, 1) \in {1, 2, 3}
    BY LadderOf2
  <2> QED BY <2>2, <2>3, <2>4, <2>5, <2>6
<1>3. /\ ~Missing(i, "age") => i.age \in Int
      /\ ~Missing(i, "familySize") => i.family \in Int
      /\ ~Missing(i, "sector") => i.sector \in Int
      /\ ~Missing(i, "deposits") => i.deposit \in Int
      /\ ~Missing(i, "loanCount") => i.active \in Int
  BY DEF Missing, IsInput, Numbers
<1>4. ~Missing(i, "age") => Good("age")
  BY <1>2, <1>3 DEF Points, Answered, MaxPoints
<1>5. ~Missing(i, "familySize") => Good("familySize")
  BY <1>2, <1>3 DEF Points, Answered, MaxPoints
<1>6. ~Missing(i, "sector") => Good("sector")
  BY <1>2, <1>3 DEF Points, Answered, MaxPoints
<1>7. ~Missing(i, "deposits") => Good("deposits")
  BY <1>2, <1>3 DEF Points, Answered, MaxPoints
<1>8. ~Missing(i, "loanCount") => Good("loanCount")
  BY <1>2, <1>3 DEF Points, Answered, MaxPoints
<1>9. /\ ~Missing(i, "gender") => Good("gender")
      /\ ~Missing(i, "education") => Good("education")
      /\ ~Missing(i, "maritalStatus") => Good("maritalStatus")
      /\ ~Missing(i, "collateral") => Good("collateral")
      /\ ~Missing(i, "pledgor") => Good("pledgor")
      /\ ~Missing(i, "residence") => Good("residence")
      /\ ~Missing(i, "position") => Good("position")
      /\ ~Missing(i, "experience") => Good("experience")
  <2>1. ~Missing(i, "gender") => Good("gender")
    BY DEF Points, Answered, MaxPoints
  <2>2. ~Missing(i, "education") => Good("education")
    BY DEF Points, Answered, MaxPoints
  <2>3. ~Missing(i, "maritalStatus") => Good("maritalStatus")
    BY DEF Points, Answered, MaxPoints
  <2>4. ~Missing(i, "collateral") => Good("collateral")
    BY DEF Points, Answered, MaxPoints
  <2>5. ~Missing(i, "pledgor") => Good("pledgor")
    BY DEF Points, Answered, MaxPoints
  <2>6. ~Missing(i, "residence") => Good("residence")
    BY DEF Points, Answered, MaxPoints
  <2>7. ~Missing(i, "position") => Good("position")
    BY DEF Points, Answered, MaxPoints
  <2>8. ~Missing(i, "experience") => Good("experience")
    BY DEF Points, Answered, MaxPoints
  <2> QED BY <2>1, <2>2, <2>3, <2>4, <2>5, <2>6, <2>7, <2>8
<1>10. /\ ~Missing(i, "housing") => Good("housing")
       /\ ~Missing(i, "otherObligations") => Good("otherObligations")
       /\ ~Missing(i, "currentObligations") => Good("currentObligations")
       /\ ~Missing(i, "trancheToIncome") => Good("trancheToIncome")
       /\ ~Missing(i, "surplusToTranche") => Good("surplusToTranche")
  <2>1. ~Missing(i, "housing") => Good("housing")
    BY DEF Points, Answered, MaxPoints
  <2>2. ~Missing(i, "otherObligations") => Good("otherObligations")
    BY DEF Points, Answered, MaxPoints
  <2>3. ~Missing(i, "currentObligations") => Good("currentObligations")
    BY DEF Points, Answered, MaxPoints
  <2>4. ~Missing(i, "trancheToIncome") => Good("trancheToIncome")
    BY DEF Points, Answered, MaxPoints
  <2>5. ~Missing(i, "surplusToTranche") => Good("surplusToTranche")
    BY DEF Points, Answered, MaxPoints
  <2> QED BY <2>1, <2>2, <2>3, <2>4, <2>5
<1>11. \A f \in Factors : Good(f)
  <2>1. \A f \in Factors : Missing(i, f) => Good(f)
    BY <1>1
  <2> HIDE DEF Good
  <2>2. SUFFICES ASSUME NEW f \in Factors, ~Missing(i, f)
                 PROVE  Good(f)
    BY <2>1
  <2>3. CASE f \in {"age", "familySize", "sector", "deposits", "loanCount"}
    BY <2>2, <2>3, <1>4, <1>5, <1>6, <1>7, <1>8
  <2>4. CASE f \in {"gender", "education", "maritalStatus", "collateral", "pledgor", "residence",
                     "position", "experience"}
    BY <2>2, <2>4, <1>9
  <2>5. CASE f \in {"housing", "otherObligations", "currentObligations"}
    BY <2>2, <2>5, <1>10
  <2>6. CASE f \in {"trancheToIncome", "surplusToTranche"}
    BY <2>2, <2>6, <1>10
  <2> QED BY <2>2, <2>3, <2>4, <2>5, <2>6 DEF Factors
<1>12. \A f \in Penalties : Points(i, f) \in -5 .. 0
  BY DEF Points, Missing, Answered, Penalties
<1> QED BY <1>11, <1>12

\* An answer taken back costs its factors their points, and no other.
LEMMA TakenBack ==
  ASSUME NEW i, IsInput(i), NEW x \in Answers \ {"over5", "mfi"}
  PROVE  LET j == [i EXCEPT ![x] = Null]
         IN  \A f \in Factors \union Penalties :
               \/ Points(j, f) = Points(i, f)
               \/ f \in Factors /\ Points(j, f) = 0
<1> DEFINE j == [i EXCEPT ![x] = Null]
<1>1. j[x] = Null /\ \A y \in (Answers \union {"income", "tranche", "expenses"}) \ {x} : j[y] = i[y]
  BY DEF IsInput
<1> HIDE DEF j
<1> QED BY <1>1 DEF Points, Missing, Answered, Factors, Penalties, TwiceSurplus, Answers

\* The points of what is missing.
BlankPoints(i) == SumOver(LAMBDA f : IF Missing(i, f) THEN MaxPoints(f) ELSE 0)

\* A whole score: what was not reached and what is missing are apart from the hundred.
LEMMA TotalReached ==
  ASSUME OriginationAssumption, NEW i, IsInput(i)
  PROVE  /\ Total(i) \in Int
         /\ Total(i) <= ScoreMax - BlankPoints(i)
         /\ i.income <= 0 \/ i.tranche <= 0 => Total(i) < ScoreMin
<1> DEFINE Out(f) == IF Missing(i, f) THEN MaxPoints(f) ELSE 0
           Earn(f) == Points(i, f)
<1>1. /\ MaxPoints("gender") = 2 /\ MaxPoints("age") = 5 /\ MaxPoints("education") = 3
      /\ MaxPoints("maritalStatus") = 3 /\ MaxPoints("collateral") = 4 /\ MaxPoints("familySize") = 3
      /\ MaxPoints("pledgor") = 3 /\ MaxPoints("residence") = 3 /\ MaxPoints("sector") = 6
      /\ MaxPoints("position") = 5 /\ MaxPoints("experience") = 5 /\ MaxPoints("housing") = 2
      /\ MaxPoints("deposits") = 3 /\ MaxPoints("loanCount") = 3 /\ MaxPoints("otherObligations") = 2
      /\ MaxPoints("currentObligations") = 5 /\ MaxPoints("trancheToIncome") = 22
      /\ MaxPoints("surplusToTranche") = 21 /\ MaxPoints("loansOver5M") = 0 /\ MaxPoints("priorMfi") = 0
  BY DEF MaxPoints
<1>2. \A f \in Factors : /\ Earn(f) \in Int /\ Out(f) \in Int
                         /\ Earn(f) <= MaxPoints(f) - Out(f)
  <2>1. \A f \in Factors : MaxPoints(f) \in Nat
    BY <1>1 DEF Factors
  <2> QED BY <2>1, PointsBetween
<1>3. \A f \in Penalties : Earn(f) \in Int /\ Earn(f) <= 0 /\ Out(f) = 0
  BY <1>1, PointsBetween DEF Penalties
<1>4. Total(i) = SumOver(Earn)
  BY DEF Total, SumOver
<1>5. i.income <= 0 \/ i.tranche <= 0 => Earn("trancheToIncome") = 0 /\ Earn("surplusToTranche") = 0
  BY DEF Points, Missing
<1>6. /\ SumOver(Earn) \in Int
      /\ SumOver(Earn) <= ScoreMax - SumOver(Out)
      /\ Earn("trancheToIncome") = 0 /\ Earn("surplusToTranche") = 0 => SumOver(Earn) <= ScoreMax - 43
  <2>1. \A f \in Factors : Out(f) >= 0
    BY <1>1 DEF Factors
  <2> DEFINE Within(f, n) == /\ Earn(f) \in Int /\ Out(f) \in Int
                            /\ Out(f) >= 0 /\ Earn(f) <= n - Out(f)
  <2>2. \A f \in Factors : Within(f, MaxPoints(f))
    BY <1>2, <2>1
  <2>3. /\ Within("gender", 2) /\ Within("age", 5) /\ Within("education", 3)
        /\ Within("maritalStatus", 3) /\ Within("collateral", 4) /\ Within("familySize", 3)
        /\ Within("pledgor", 3) /\ Within("residence", 3) /\ Within("sector", 6)
        /\ Within("position", 5) /\ Within("experience", 5) /\ Within("housing", 2)
        /\ Within("deposits", 3) /\ Within("loanCount", 3) /\ Within("otherObligations", 2)
        /\ Within("currentObligations", 5) /\ Within("trancheToIncome", 22) /\ Within("surplusToTranche", 21)
    <3> HIDE DEF Within
    <3> QED BY <1>1, <2>2 DEF Factors
  <2>4. /\ Earn("loansOver5M") \in Int /\ Earn("loansOver5M") <= 0 /\ Out("loansOver5M") = 0
        /\ Earn("priorMfi") \in Int /\ Earn("priorMfi") <= 0 /\ Out("priorMfi") = 0
    BY <1>3 DEF Penalties
  <2> HIDE DEF Earn, Out
  <2> DEFINE P1 == Earn("gender") + Earn("age") + Earn("education") + Earn("maritalStatus")
             O1 == Out("gender") + Out("age") + Out("education") + Out("maritalStatus")
             P2 == P1 + Earn("collateral") + Earn("familySize") + Earn("pledgor") + Earn("residence")
             O2 == O1 + Out("collateral") + Out("familySize") + Out("pledgor") + Out("residence")
             P3 == P2 + Earn("sector") + Earn("position") + Earn("experience") + Earn("housing")
             O3 == O2 + Out("sector") + Out("position") + Out("experience") + Out("housing")
             P4 == P3 + Earn("deposits") + Earn("loanCount") + Earn("otherObligations") + Earn("currentObligations")
             O4 == O3 + Out("deposits") + Out("loanCount") + Out("otherObligations") + Out("currentObligations")
             P5 == P4 + Earn("loansOver5M") + Earn("priorMfi")
             O5 == O4 + Out("loansOver5M") + Out("priorMfi")
  <2>5. P1 \in Int /\ O1 \in Int /\ O1 >= 0 /\ P1 <= 13 - O1
    BY <2>3
  <2>6. P2 \in Int /\ O2 \in Int /\ O2 >= 0 /\ P2 <= 26 - O2
    <3> HIDE DEF P1, O1
    <3> QED BY <2>3, <2>5
  <2>7. P3 \in Int /\ O3 \in Int /\ O3 >= 0 /\ P3 <= 44 - O3
    <3> HIDE DEF P2, O2
    <3> QED BY <2>3, <2>6
  <2>8. P4 \in Int /\ O4 \in Int /\ O4 >= 0 /\ P4 <= 57 - O4
    <3> HIDE DEF P3, O3
    <3> QED BY <2>3, <2>7
  <2>9. P5 \in Int /\ O5 \in Int /\ O5 >= 0 /\ P5 <= 57 - O5
    <3> HIDE DEF P4, O4
    <3> QED BY <2>4, <2>8
  <2>10. /\ SumOver(Earn) = P5 + Earn("trancheToIncome") + Earn("surplusToTranche")
         /\ SumOver(Out) = O5 + Out("trancheToIncome") + Out("surplusToTranche")
    BY DEF SumOver
  <2> HIDE DEF P5, O5
  <2> QED BY <2>3, <2>9, <2>10 DEF ScoreMax
<1>7. SumOver(Out) = BlankPoints(i)
  BY DEF SumOver, BlankPoints
<1>8. i.income <= 0 \/ i.tranche <= 0 => Total(i) < ScoreMin
  <2> HIDE DEF Earn, Out
  <2>1. i.income <= 0 \/ i.tranche <= 0 => SumOver(Earn) <= ScoreMax - 43
    BY <1>5, <1>6
  <2> QED BY <2>1, <1>4, <1>6 DEF ScoreMax, ScoreMin
<1> QED BY <1>4, <1>6, <1>7, <1>8

\* An input no factor of which scores more has no higher total.
LEMMA TotalFollows ==
  ASSUME NEW i, NEW j,
         \A f \in Factors \union Penalties :
           Points(i, f) \in Int /\ Points(j, f) \in Int /\ Points(j, f) <= Points(i, f)
  PROVE  Total(j) <= Total(i)
<1> DEFINE Earn(f) == Points(i, f)
           Q(f) == Points(j, f)
           Below(f) == Earn(f) \in Int /\ Q(f) \in Int /\ Q(f) <= Earn(f)
<1>1. \A f \in Factors \union Penalties : Below(f)
  OBVIOUS
<1>2. /\ Below("gender") /\ Below("age") /\ Below("education") /\ Below("maritalStatus")
      /\ Below("collateral") /\ Below("familySize") /\ Below("pledgor") /\ Below("residence")
      /\ Below("sector") /\ Below("position") /\ Below("experience") /\ Below("housing")
      /\ Below("deposits") /\ Below("loanCount") /\ Below("otherObligations") /\ Below("currentObligations")
      /\ Below("loansOver5M") /\ Below("priorMfi") /\ Below("trancheToIncome") /\ Below("surplusToTranche")
  <2> HIDE DEF Below
  <2> QED BY <1>1 DEF Factors, Penalties
<1> DEFINE P1 == Earn("gender") + Earn("age") + Earn("education") + Earn("maritalStatus")
           Q1 == Q("gender") + Q("age") + Q("education") + Q("maritalStatus")
           P2 == P1 + Earn("collateral") + Earn("familySize") + Earn("pledgor") + Earn("residence")
           Q2 == Q1 + Q("collateral") + Q("familySize") + Q("pledgor") + Q("residence")
           P3 == P2 + Earn("sector") + Earn("position") + Earn("experience") + Earn("housing")
           Q3 == Q2 + Q("sector") + Q("position") + Q("experience") + Q("housing")
           P4 == P3 + Earn("deposits") + Earn("loanCount") + Earn("otherObligations") + Earn("currentObligations")
           Q4 == Q3 + Q("deposits") + Q("loanCount") + Q("otherObligations") + Q("currentObligations")
           P5 == P4 + Earn("loansOver5M") + Earn("priorMfi") + Earn("trancheToIncome") + Earn("surplusToTranche")
           Q5 == Q4 + Q("loansOver5M") + Q("priorMfi") + Q("trancheToIncome") + Q("surplusToTranche")
<1> HIDE DEF Earn, Q
<1>3. P1 \in Int /\ Q1 \in Int /\ Q1 <= P1
  BY <1>2
<1>4. P2 \in Int /\ Q2 \in Int /\ Q2 <= P2
  <2> HIDE DEF P1, Q1
  <2> QED BY <1>2, <1>3
<1>5. P3 \in Int /\ Q3 \in Int /\ Q3 <= P3
  <2> HIDE DEF P2, Q2
  <2> QED BY <1>2, <1>4
<1>6. P4 \in Int /\ Q4 \in Int /\ Q4 <= P4
  <2> HIDE DEF P3, Q3
  <2> QED BY <1>2, <1>5
<1>7. P5 \in Int /\ Q5 \in Int /\ Q5 <= P5
  <2> HIDE DEF P4, Q4
  <2> QED BY <1>2, <1>6
<1>8. Total(i) = P5 /\ Total(j) = Q5
  BY DEF Total, SumOver, Earn, Q
<1> HIDE DEF P5, Q5
<1> QED BY <1>7, <1>8

\* What is made of a case is an input.
LEMMA InputOfCase ==
  ASSUME OriginationAssumption, NEW c, IsCase(c)
  PROVE  IsInput(ScoringInput(c))
<1> DEFINE i == ScoringInput(c)
<1>1. i = [x \in Answers \union {"income", "tranche", "expenses"} |-> i[x]]
  BY DEF ScoringInput
<1>2. \A x \in Numbers : i[x] = c[x]
  BY DEF ScoringInput, Numbers, Answers
<1>3. i.income = c.income /\ i.tranche = NewPayment(c) + Existing(c) /\ i.expenses = c.expenses + Existing(c)
  BY DEF ScoringInput
<1>4. NewPayment(c) \in Int /\ Existing(c) \in Int
  BY DEF IsCase, NewPayment, Existing, Or0
<1>5. i.income \in Int /\ i.tranche \in Int /\ i.expenses \in Int
  BY <1>3, <1>4 DEF IsCase
<1>6. \A x \in Numbers : i[x] \in Int \union {Null}
  BY <1>2 DEF IsCase, Numbers
<1> HIDE DEF i
<1>7. IsInput(i)
  BY <1>1, <1>5, <1>6 DEF IsInput
<1> QED BY <1>7 DEF i

(***************************************************************************)
(* For every case: the points of what is missing are out of reach, without *)
(* income or payment it is refused, and no answer but the two that cost     *)
(* points raises the score by being taken back.                            *)
(***************************************************************************)
LEMMA BlankOfAny ==
  ASSUME OriginationAssumption, NEW c, IsCase(c)
  PROVE  BlankEarnsNothing(c)
<1> DEFINE i == ScoringInput(c)
<1>1. IsInput(i)
  BY InputOfCase
<1> HIDE DEF i
<1>2. /\ Total(i) <= ScoreMax - BlankPoints(i)
      /\ i.income <= 0 \/ i.tranche <= 0 => Total(i) < ScoreMin
  BY <1>1, TotalReached
<1>3. (i.income <= 0 \/ i.tranche <= 0) => Verdict(i) = "BELOW_MIN"
  BY <1>2 DEF Verdict, VerdictFor
<1>4. ASSUME NEW x \in Answers \ {"over5", "mfi"}
      PROVE  Total([i EXCEPT ![x] = Null]) <= Total(i)
  <2> DEFINE j == [i EXCEPT ![x] = Null]
  <2>1. \A f \in Factors : Points(i, f) \in Int /\ Points(i, f) >= 0
    <3>1. \A f \in Factors : MaxPoints(f) \in Int
      BY DEF Factors, MaxPoints
    <3> QED BY <1>1, <3>1, PointsBetween
  <2>2. \A f \in Penalties : Points(i, f) \in Int
    BY <1>1, PointsBetween
  <2>3. \A f \in Factors \union Penalties :
          Points(j, f) = Points(i, f) \/ (f \in Factors /\ Points(j, f) = 0)
    BY <1>1, TakenBack
  <2> HIDE DEF j
  <2>4. \A f \in Factors \union Penalties :
          Points(i, f) \in Int /\ Points(j, f) \in Int /\ Points(j, f) <= Points(i, f)
    BY <2>1, <2>2, <2>3
  <2>5. Total(j) <= Total(i)
    BY <2>4, TotalFollows
  <2> QED BY <2>5 DEF j
<1> QED BY <1>2, <1>3, <1>4 DEF BlankEarnsNothing, BlankPoints, SumOver, i

-----------------------------------------------------------------------------
(***************************************************************************)
(* The gate and the score of what is typed.                                *)
(***************************************************************************)

\* Whatever form was typed: the wizard calls complete what the server's gate takes in, and
\* the other way round (errors of useOriginationForm, caseSubmitErrors).
THEOREM GateIsWizard ==
  ASSUME OriginationAssumption, IsForm(input)
  PROVE  GateMirrorsWizard
BY GateOfAny DEF GateMirrorsWizard

\* Whatever answers were typed: what is missing earns nothing (add in scoreCase).
THEOREM BlankScores ==
  ASSUME OriginationAssumption, IsCase(input)
  PROVE  BlankScoresNothing
BY BlankOfAny DEF BlankScoresNothing
================================================================================
