------------------------------ MODULE Schedule ------------------------------
(***************************************************************************)
(* The repayment of a loan.  It is computed at four places: the schedule   *)
(* that is printed (apps/backend/src/output/documents/schedule.ts), the    *)
(* loan shown with a case (packages/shared/src/loan.ts), the calculator    *)
(* (CreditCalculator.tsx) and the monthly payment an operator sees while   *)
(* typing (monthlyPaymentFor).                                             *)
(*                                                                         *)
(* A rate is a monthly fraction p / q.  The instance chooses loans whose   *)
(* parts are whole, so that the arithmetic is exact; what the program's    *)
(* doubles lose is slip, which the level payment is wrong by.  A date is a *)
(* day of a month, and months are counted from a January on.               *)
(***************************************************************************)
EXTENDS Origination

LOCAL INSTANCE FiniteSetsExt

PaymentDayCap == 15

\* Of a year that is not a leap year.
MonthLength(month) ==
  CASE month % 12 = 1 -> 28
    [] month % 12 \in {3, 5, 8, 10} -> 30
    [] OTHER -> 31

Least(x, y) == IF x <= y THEN x ELSE y
Most(x, y) == IF x <= y THEN y ELSE x

\* addMonthsClamped: 31 January and a month is the last of February.
AddMonths(base, months, day) ==
  [month |-> base.month + months, day |-> Least(day, MonthLength(base.month + months))]

\* daysBetween of two dates, the later one first.
DaysBetween(late, early) ==
  MapThenSumSet(MonthLength, early.month .. late.month - 1) + late.day - early.day

\* The day of the formalization, the 15th at the latest.
PaymentDayFor(date) == IF date = Null THEN Null ELSE Least(date.day, PaymentDayCap)

-----------------------------------------------------------------------------
Fraction(x, rate) == (x * rate.p) \div rate.q

Pmt(rate, months, loan) ==
  LET growth == (rate.q + rate.p) ^ months
  IN  IF rate.p = 0 THEN loan \div months
      ELSE (loan * rate.p * growth) \div (rate.q * (growth - rate.q ^ months))

Positive(x) == x # Null /\ x > 0

MonthlyPaymentFor(method, loan, months, rate) ==
  IF method = Null \/ ~Positive(loan) \/ ~Positive(months) THEN Null
  ELSE IF method = "DIFFERENTIATED" THEN loan \div months + Fraction(loan, rate)
  ELSE Pmt(rate, months, loan)

\* The rows of a repayment, each with what is left of the loan after it;
\* Part(month, opening, interest) is what the month repays.
Rows(loan, months, rate, Part(_, _, _)) ==
  LET row[m \in 0 .. months] ==
        IF m = 0 THEN [balance |-> loan]
        ELSE LET opening  == row[m - 1].balance
                 interest == Fraction(opening, rate)
                 part     == Part(m, opening, interest)
             IN  [opening |-> opening, interest |-> interest, principal |-> part,
                  total |-> part + interest, balance |-> Most(0, opening - part)]
  IN  row

\* Mutant of LastPays: the last month repays what the others do.
LastPaysAlike(m, months, opening, part) == part

\* The last month repays what is left.
LastPays(m, months, opening, part) == IF m = months THEN opening ELSE part

\* scheduleForCase
Installments(method, loan, months, rate, slip) ==
  LET Part(m, opening, interest) ==
        LET part == IF method = "DIFFERENTIATED" THEN loan \div months + slip
                    ELSE Pmt(rate, months, loan) + slip - interest
        IN  Least(Most(LastPays(m, months, opening, part), 0), opening)
  IN  Rows(loan, months, rate, Part)

\* computeLoan
LoanRows(loan, months, rate, slip) ==
  LET Part(m, opening, interest) ==
        LastPays(m, months, opening, Pmt(rate, months, loan) + slip - interest)
  IN  Rows(loan, months, rate, Part)

\* annuity and differentiated of the calculator: no month is the last one.
CalculatorRows(method, loan, months, rate) ==
  LET Part(m, opening, interest) ==
        IF method = "DIFFERENTIATED" THEN loan \div months
        ELSE Least(Pmt(rate, months, loan) - interest, opening)
  IN  Rows(loan, months, rate, Part)

-----------------------------------------------------------------------------
(***************************************************************************)
(* A case c, as its documents are rendered: what the tranche does not say, *)
(* the line does, then the case.  (Nothing writes installments, so that    *)
(* the stored schedule the code would honour is left out.)                 *)
(***************************************************************************)
First(values) ==
  IF \A i \in DOMAIN values : values[i] = Null THEN Null
  ELSE values[CHOOSE i \in DOMAIN values :
                values[i] # Null /\ \A j \in DOMAIN values : j < i => values[j] = Null]

ScheduleForCase(c) ==
  LET loan   == First(<<c.principal, c.lineTotal, c.amount>>)
      months == First(<<c.term, c.lineTerm, c.termMonths>>)
      from   == First(<<c.contractDate, c.applicationDate, c.lineDate, c.createdAt>>)
      payDay == First(<<c.paymentDay, from.day>>)
      method == IF c.method = "DIFFERENTIATED" THEN c.method ELSE "ANNUITY"
      due    == [m \in 1 .. months |-> AddMonths(from, m, payDay)]
  IN  IF ~Positive(loan) \/ ~Positive(months) \/ c.rate = Null THEN Null
      ELSE [loan |-> loan, months |-> months, from |-> from, payDay |-> payDay, method |-> method,
            rows |-> Installments(method, loan, months, c.rate, c.slip), due |-> due,
            days |-> [m \in 1 .. months |-> DaysBetween(due[m], IF m = 1 THEN from ELSE due[m - 1])]]

\* The line ИТОГО of the printed schedule.
Total(s, column) ==
  LET Of(m) == s.rows[m][column] IN MapThenSumSet(Of, 1 .. s.months)

(***************************************************************************)
(* A printed schedule repays the loan, whatever the doubles lose: no part  *)
(* is negative, nothing is left, the totals add up, and a payment falls    *)
(* due every month, on the agreed day or the last one of a shorter month.  *)
(* The loan shown with the case is the same, and so are the calculator and *)
(* the payment promised while typing, but for what the doubles lose.       *)
(***************************************************************************)
ScheduleSound(c) ==
  LET s == ScheduleForCase(c)
      Agree(rows) == \A m \in 1 .. s.months : rows[m] = s.rows[m]
  IN  s # Null =>
        /\ \A m \in 1 .. s.months : s.rows[m].principal >= 0
        /\ s.rows[s.months].balance = 0
        /\ Total(s, "principal") = s.loan
        /\ Total(s, "total") = s.loan + Total(s, "interest")
        /\ \A m \in 1 .. s.months :
             /\ s.due[m].month = s.from.month + m
             /\ s.due[m].day \in {s.payDay, MonthLength(s.due[m].month)}
             /\ s.days[m] > 0
        /\ s.method = "ANNUITY" => Agree(LoanRows(s.loan, s.months, c.rate, c.slip))
        /\ c.slip = 0 =>
             /\ Agree(CalculatorRows(s.method, s.loan, s.months, c.rate))
             /\ MonthlyPaymentFor(s.method, s.loan, s.months, c.rate) = s.rows[1].total
=============================================================================
