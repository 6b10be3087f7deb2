------------------------------ MODULE LineSteps ------------------------------
(***************************************************************************)
(* The steps of the wizard that fill the credit line (steps.tsx: Step3,    *)
(* StepSugurta, Step4).  Much of the line is not typed but follows: some   *)
(* columns are set as others are typed, effects of the steps set the rest  *)
(* once a step has been shown or what they depend on has changed.          *)
(* The effects of one render all patch the line of that render.            *)
(*                                                                         *)
(* Dates are those of Schedule; what a payment was derived from stands for *)
(* the payment.  A day passes only between two visits of a step; MaxTyped, *)
(* MaxSaves and LastDay bound an instance.                                 *)
(***************************************************************************)
EXTENDS Schedule

CONSTANTS Today, LastDay, Dates, Sums, Terms, LowestRate, MaxTyped, MaxSaves

LinesAssumption ==
  /\ Today \in Nat \ {0} /\ LastDay \in Today .. 31
  /\ Sums \subseteq Nat /\ Terms \subseteq Nat
  /\ Null \notin Dates \union {[month |-> 0, day |-> d] : d \in Today .. LastDay}
  /\ MaxTyped \in Nat /\ MaxSaves \in Nat

VARIABLES
  page,     \* "new", or "draft": opened with the id of a case in its URL
  step,     \* "line", "insurance", "tranche", or "other"
  line,     \* creditLine of the form
  day,      \* of the first month
  minRate,  \* the lowest rate of the settings, Null before they are fetched
  saved,    \* creditLine on the server
  reload,   \* the case is being fetched into the form again
  typed, saves

vars == <<page, step, line, day, minRate, saved, reload, typed, saves>>

NoTranche == [principal |-> Null, method |-> Null, term |-> Null, monthly |-> Null,
              no |-> Null, applied |-> Null, payDay |-> Null]

NoLine == [auto |-> Null, polis |-> Null, total |-> Null, type |-> "MICROLOAN",
           date |-> Null, term |-> Null, maturity |-> Null, rate |-> Null,
           insured |-> FALSE, loanUnderPolicy |-> Null, tranche |-> NoTranche]

Now == [month |-> 0, day |-> day]

Maturity(l) == AddMonths(l.date, l.term, l.date.day)

OrNull(x) == IF x = 0 THEN Null ELSE x

-----------------------------------------------------------------------------
(***************************************************************************)
(* Step3.                                                                  *)
(***************************************************************************)
\* setLine after a field of the split was typed.
Split(l) ==
  LET total == OrNull(Or0(l.auto) + Or0(l.polis))
  IN  [l EXCEPT !.total = total, !.type = LoanTypeFor(total)]

\* Mutant of Matured: the first term typed wins the date.
MaturedOnce(l) ==
  IF Or0(l.term) = 0 \/ l.maturity # Null THEN l ELSE [l EXCEPT !.maturity = Maturity(l)]

Matured(l) == IF Or0(l.term) = 0 THEN l ELSE [l EXCEPT !.maturity = Maturity(l)]

\* The effect of the step: today for a date, and the maturity that follows.
LineEffect(l) == Matured(IF l.date = Null THEN [l EXCEPT !.date = Now] ELSE l)

\* The lines one field typed in the step leads to.
TypedLines ==
  {Split([line EXCEPT !.auto = x]) : x \in Sums \union {Null}}
  \union {Split([line EXCEPT !.polis = x, !.loanUnderPolicy = x]) : x \in Sums \union {Null}}
  \union {LineEffect([line EXCEPT !.term = x]) : x \in Terms \union {Null}}
  \union {LineEffect([line EXCEPT !.date = x]) : x \in Dates \union {Null}}

(***************************************************************************)
(* StepSugurta: the toggle takes the sum of the policy from the line.      *)
(***************************************************************************)
ToggledLine ==
  IF line.insured THEN [line EXCEPT !.insured = FALSE]
  ELSE [line EXCEPT !.insured = TRUE,
                    !.loanUnderPolicy = First(<<line.polis, line.loanUnderPolicy>>)]

(***************************************************************************)
(* Step4.                                                                  *)
(***************************************************************************)
Rate(l, lowest) == First(<<l.rate, lowest, 55>>)

\* monthlyPaymentFor, up to what it depends on.
Monthly(l, lowest) ==
  LET t == l.tranche
  IN  IF t.method = Null \/ Or0(t.principal) = 0 \/ Or0(t.term) = 0 THEN Null
      ELSE <<t.method, t.principal, t.term, Rate(l, lowest)>>

PayDay(l) == PaymentDayFor(First(<<l.tranche.applied, Now>>))

\* The effects of one render, in their order, each with the line of that render: the one that
\* is run and patches last wins.  run names those whose dependencies have changed.
TrancheEffects(l, lowest, run) ==
  LET t == l.tranche
      WithPayment  == [t EXCEPT !.monthly = Monthly(l, lowest)]
      WithDefaults == [t EXCEPT !.no = First(<<t.no, 1>>), !.applied = First(<<t.applied, Now>>)]
      WithPayDay   == [t EXCEPT !.payDay = PayDay(l)]
      patches == <<<<"payment", WithPayment>>, <<"defaults", WithDefaults>>, <<"payDay", WithPayDay>>>>
      Wins(i) == patches[i][1] \in run /\ patches[i][2] # t
  IN  [l EXCEPT !.tranche =
         IF \A i \in 1 .. 3 : ~Wins(i) THEN t
         ELSE patches[CHOOSE i \in 1 .. 3 : Wins(i) /\ \A j \in i + 1 .. 3 : ~Wins(j)][2]]

\* Mounted, all effects run; later those of values that are others than in the last render.
Mounted == {"payment", "defaults", "payDay"}

Changed(l, lowest) ==
  {e \in {"payment"} : Monthly(l, lowest) # Monthly(line, minRate)}
  \union {e \in {"payDay"} : PayDay(l) # PayDay(line)}

TypedTranches ==
  LET next == {[line EXCEPT !.tranche.principal = x] : x \in Sums \union {Null}}
              \union {[line EXCEPT !.tranche.method = x] : x \in Methods}
              \union {[line EXCEPT !.tranche.term = x] : x \in Terms \union {Null}}
  IN  {TrancheEffects(l, minRate, Changed(l, minRate)) : l \in next}

-----------------------------------------------------------------------------
Type ==
  /\ typed < MaxTyped
  /\ typed' = typed + 1
  /\ \/ step = "line" /\ line' \in TypedLines
     \/ step = "insurance" /\ line' = ToggledLine
     \/ step = "tranche" /\ line' \in TypedTranches
  /\ UNCHANGED <<page, step, day, minRate, saved, reload, saves>>

\* Another step is shown.
Open(i) ==
  /\ i # step
  /\ step' = i
  /\ line' = CASE i = "line"    -> LineEffect(line)
               [] i = "tranche" -> TrancheEffects(line, minRate, Mounted)
               [] OTHER -> line
  /\ UNCHANGED <<page, day, minRate, saved, reload, typed, saves>>

\* The settings are fetched by the steps that show a rate.
ConfigFetched ==
  /\ minRate = Null /\ step \in {"line", "tranche"}
  /\ minRate' = LowestRate
  /\ line' = IF step = "line" THEN line ELSE TrancheEffects(line, LowestRate, Changed(line, LowestRate))
  /\ UNCHANGED <<page, step, day, saved, reload, typed, saves>>

\* What createCase and applyUpdate store of a line.
Stored(l) ==
  LET t == l.tranche
  IN  [l EXCEPT !.rate = First(<<l.rate, LowestRate>>),
                !.tranche = IF t = NoTranche THEN t
                            ELSE [t EXCEPT !.no = First(<<t.no, 1>>),
                                           !.payDay = PaymentDayFor(t.applied)]]

\* A save that carries the line is received; a broken cap is refused.
Save ==
  /\ saves < MaxSaves
  /\ line # NoLine
  /\ ~LoanRulesBroken(line.tranche.method, line.tranche.term, line.term)
  /\ saves' = saves + 1
  /\ saved' = Stored(line)
  /\ reload' = (page = "draft")
  /\ UNCHANGED <<page, step, line, day, minRate, typed>>

\* The query of the page answers: the form is what the server has.
Loaded ==
  /\ reload
  /\ reload' = FALSE
  /\ line' = CASE step = "line" /\ <<saved.date, saved.term>> # <<line.date, line.term>> -> LineEffect(saved)
               [] step = "tranche" -> TrancheEffects(saved, minRate, Changed(saved, minRate))
               [] OTHER -> saved
  /\ UNCHANGED <<page, step, day, minRate, saved, typed, saves>>

NextDay ==
  /\ step # "tranche" /\ day < LastDay
  /\ day' = day + 1
  /\ UNCHANGED <<page, step, line, minRate, saved, reload, typed, saves>>

Init ==
  /\ page \in {"new", "draft"}
  /\ step = "other"
  /\ line = NoLine /\ saved = NoLine
  /\ day = Today
  /\ minRate = Null
  /\ reload = (page = "draft")
  /\ typed = 0 /\ saves = 0

Next ==
  \/ Type \/ ConfigFetched \/ Save \/ Loaded \/ NextDay
  \/ \E i \in {"line", "insurance", "tranche", "other"} : Open(i)

Spec == Init /\ [][Next]_vars

-----------------------------------------------------------------------------
(***************************************************************************)
(* What follows in a line follows from what it says now, in the form and   *)
(* on the server, however steps are visited, left and loaded again:        *)
(*   - the line ends its term after its date ("a contract stating a term   *)
(*     and an end date that contradict each other", steps.tsx);            *)
(*   - its total and kind are those of the split, and what is insured is   *)
(*     the part of the policy ("keep them in lockstep");                   *)
(*   - a tranche with a date is paid on that day of the month, or the 15th.*)
(***************************************************************************)
LineAgrees ==
  \A l \in {line, saved} :
    /\ Or0(l.term) # 0 => l.date # Null /\ l.maturity = Maturity(l)
    /\ l.total = OrNull(Or0(l.auto) + Or0(l.polis))
    /\ l.type = LoanTypeFor(l.total)
    /\ l.loanUnderPolicy = l.polis
    /\ l.tranche.applied # Null => l.tranche.payDay = PaymentDayFor(l.tranche.applied)

(***************************************************************************)
(* "Hidden fields default automatically: tranche No = 1, application date  *)
(* = today (drives the payment day)" (steps.tsx): a tranche that is filled  *)
(* and stored has its payment day.                                         *)
(***************************************************************************)
PaymentDayStored ==
  LET t == saved.tranche
  IN  t.principal # Null /\ t.method # Null /\ t.term # Null => t.payDay # Null
=============================================================================
