----------------------------- MODULE SettingsDesk -----------------------------
(***************************************************************************)
(* The administrator's settings (packages/ui/src/pages/SettingsPage.tsx)   *)
(* and the requests they make (apps/backend/src/settings/), with the       *)
(* record that is kept of a change (apps/backend/src/audit/).              *)
(*                                                                         *)
(* The page has two cards: the days of the steps, and the pause limit with *)
(* the rates.  A card copies what is stored into a form whenever the cached *)
(* answer changes, and sends the whole form.  Rates are whole percents on  *)
(* the page and are stored as they were typed: here both in tenths of a    *)
(* percent.  What the days mean for the cases is in Deadlines.             *)
(***************************************************************************)
EXTENDS Integers, Sequences, FiniteSets

CONSTANTS
  Windows,   \* administrators with the page open
  Steps,     \* DEADLINE_STEPS, in their order
  Rates,     \* the rates of the configuration
  Start,     \* Start[card]: what is stored at first
  Typed,     \* Typed[field]: what is typed there
  Nothing,   \* no answer yet
  MaxSaves,  \* bound on the saves
  MaxTyped   \* bound on the fields typed: MaxTyped[calm]

Cards == {"days", "config"}

Min == "minRate"
Max == "maxRate"

StepSet == {Steps[i] : i \in 1..Len(Steps)}

Fields == {"maxPauseDays"} \union Rates

\* A row of the configuration, in tenths of a percent and in days, and of the steps.
ConfigRow == [Fields -> Int]
DayRow == [StepSet -> [days : 1..60, enabled : BOOLEAN]]

\* No half percent is typed: whether 28.5 is shown as 28 or 29 is up to its binary fraction.
SettingsAssumption ==
  /\ {Min, Max} \subseteq Rates /\ "maxPauseDays" \notin Rates
  /\ Steps \in Seq(StepSet) /\ Steps # << >>
  /\ MaxSaves \in Nat /\ MaxTyped \in [BOOLEAN -> Nat]
  /\ Nothing \notin ConfigRow \union DayRow
  /\ Start["config"] \in ConfigRow /\ Start["days"] \in DayRow
  /\ Start["config"][Min] <= Start["config"][Max]
  /\ \A f \in Fields \union {"days"} : Typed[f] \subseteq Int
  /\ \A f \in Rates : \A v \in Typed[f] \union {Start["config"][f]} : v % 10 # 5

VARIABLES
  calm,    \* requests run one at a time and no record of a change fails
  card,    \* the card that is used
  stored,  \* the rows of appConfig or stepSetting; no row reads as the default
  log,     \* the recorded changes of the configuration
  page,    \* page[w]: [data, form, dirty, fetch]
  req,     \* req[w]: the save under way
  saves, typed  \* saves and typed fields so far

vars == <<calm, card, stored, log, page, req, saves, typed>>

Idle == [step |-> "idle"]

Between(low, v, high) == IF v < low THEN low ELSE IF v > high THEN high ELSE v

\* Mutant of Shown: every fraction of a percent is rounded up.
ShownAbove(row) ==
  [f \in Fields |-> IF f \in Rates THEN 10 * ((row[f] + 9) \div 10) ELSE row[f]]

\* setConf: rates rounded to whole percents.
Shown(row) ==
  [f \in Fields |-> IF f \in Rates THEN 10 * ((row[f] + 5) \div 10) ELSE row[f]]

Display(row) == IF card = "config" THEN Shown(row) ELSE row

\* The body of the request: days and the pause limit are brought into their range.
Sent(form) ==
  IF card = "config"
  THEN [form EXCEPT !["maxPauseDays"] = Between(0, @, 60)]
  ELSE [s \in StepSet |-> [form[s] EXCEPT !.days = Between(1, @, 60)]]

\* ConfigDto and DeadlineItemDto; 5000 is 500 %.
Accepted(sent) ==
  IF card = "config"
  THEN /\ sent["maxPauseDays"] \in 0..60
       /\ \A f \in Rates : sent[f] \in 0..5000
       /\ sent[Min] <= sent[Max]
  ELSE \A s \in StepSet : sent[s].days \in 1..60

Init ==
  /\ calm \in BOOLEAN
  /\ card \in Cards
  /\ stored = Start[card]
  /\ log = << >>
  /\ page = [w \in Windows |-> [data |-> Nothing, form |-> Nothing, dirty |-> FALSE,
                                fetch |-> Nothing]]
  /\ req = [w \in Windows |-> Idle]
  /\ saves = 0 /\ typed = 0

\* A request may start: always, or only when no other one runs.
MayRun ==
  calm => \A w \in Windows : req[w] = Idle /\ page[w].fetch = Nothing

\* The effect of a card: a new answer is copied into the form, an equal one is not.
Receive(w, answer) ==
  IF answer = page[w].data THEN page[w]
  ELSE [page[w] EXCEPT !.data = answer, !.form = Display(answer), !.dirty = FALSE]

Goto(w, state) == req' = [req EXCEPT ![w] = state]

-----------------------------------------------------------------------------
\* The page is opened, for the first time or again: a form is filled from the cached
\* answer, and useQuery asks for a new one unless it waits for one.
Open(w) ==
  /\ MayRun
  /\ LET p == page[w]
     IN  page' = [page EXCEPT ![w] =
           [data  |-> p.data,
            form  |-> IF p.data = Nothing THEN Nothing ELSE Display(p.data),
            dirty |-> FALSE,
            fetch |-> IF p.fetch = Nothing THEN stored ELSE p.fetch]]
  /\ UNCHANGED <<calm, card, stored, log, req, saves, typed>>

Fetched(w) ==
  /\ page[w].fetch # Nothing
  /\ page' = [page EXCEPT ![w] = [Receive(w, page[w].fetch) EXCEPT !.fetch = Nothing]]
  /\ UNCHANGED <<calm, card, stored, log, req, saves, typed>>

\* Any field, also while a save runs; DayStepper keeps the days in their range, and the days
\* of a step whose timer is off are not changed.
Type(w) ==
  /\ page[w].form # Nothing
  /\ typed < MaxTyped[calm]
  /\ typed' = typed + 1
  /\ \E form \in
         IF card = "config"
         THEN UNION { { [page[w].form EXCEPT ![f] = v] : v \in Typed[f] } : f \in Fields }
         ELSE UNION { { [page[w].form EXCEPT ![s].days = Between(1, v, 60)] :
                          v \in IF page[w].form[s].enabled THEN Typed["days"] ELSE {} }
                        \union { [page[w].form EXCEPT ![s].enabled = ~@] } : s \in StepSet } :
       page' = [page EXCEPT ![w].form = form, ![w].dirty = TRUE]
  /\ UNCHANGED <<calm, card, stored, log, req, saves>>

\* Saqlash: disabled while a save runs, without a form, and for a minimum above the maximum.
Save(w) ==
  /\ MayRun
  /\ req[w] = Idle
  /\ page[w].form # Nothing
  /\ card = "config" => page[w].form[Min] <= page[w].form[Max]
  /\ saves < MaxSaves
  /\ saves' = saves + 1
  /\ Goto(w, [step |-> "check", sent |-> Sent(page[w].form), old |-> Nothing, new |-> Nothing,
              left |-> << >>])
  /\ page' = [page EXCEPT ![w].dirty = FALSE]
  /\ UNCHANGED <<calm, card, stored, log, typed>>

-----------------------------------------------------------------------------
\* The request is accepted; updateConfig reads the row it is about to write.
Accept(w) ==
  /\ req[w].step = "check"
  /\ Accepted(req[w].sent)
  /\ Goto(w, IF card = "config" THEN [req[w] EXCEPT !.step = "upsert", !.old = stored]
             ELSE [req[w] EXCEPT !.step = "items", !.left = Steps])
  /\ UNCHANGED <<calm, card, stored, log, page, saves, typed>>

UpsertConfig(w) ==
  /\ req[w].step = "upsert"
  /\ stored' = req[w].sent
  /\ Goto(w, [req[w] EXCEPT !.step = "read"])
  /\ UNCHANGED <<calm, card, log, page, saves, typed>>

\* updateDeadlines: a row at a time, in no transaction.
UpsertStep(w) ==
  /\ req[w].step = "items"
  /\ LET s == Head(req[w].left)
         left == Tail(req[w].left)
     IN  /\ stored' = [stored EXCEPT ![s] = req[w].sent[s]]
         /\ Goto(w, [req[w] EXCEPT !.left = left,
                                   !.step = IF left = << >> THEN "read" ELSE "items"])
  /\ UNCHANGED <<calm, card, log, page, saves, typed>>

\* What is answered is read again; a change of the configuration is recorded before.
ReadBack(w) ==
  /\ req[w].step = "read"
  /\ Goto(w, [req[w] EXCEPT !.step = IF card = "config" THEN "audit" ELSE "answer",
                            !.new = stored])
  /\ UNCHANGED <<calm, card, stored, log, page, saves, typed>>

\* Mutant of Entry: the two values are swapped.
EntrySwapped(r) == [oldValue |-> r.new, newValue |-> r.old]

\* configChange.
Entry(r) == [oldValue |-> r.old, newValue |-> r.new]

\* A record that cannot be written does not fail the request.
Record(w) ==
  /\ req[w].step = "audit"
  /\ \/ log' = Append(log, Entry(req[w]))
     \/ ~calm /\ log' = log
  /\ Goto(w, [req[w] EXCEPT !.step = "answer"])
  /\ UNCHANGED <<calm, card, stored, page, saves, typed>>

\* onSuccess: the answer is the new cached data, whatever was typed meanwhile.
Saved(w) ==
  /\ req[w].step = "answer"
  /\ page' = [page EXCEPT ![w] = Receive(w, req[w].new)]
  /\ Goto(w, Idle)
  /\ UNCHANGED <<calm, card, stored, log, saves, typed>>

\* onError: refused, stopped by the database before a step, or the answer is lost.
Failed(w) ==
  /\ req[w] # Idle
  /\ calm => req[w].step \notin {"read", "audit"}
  /\ page' = [page EXCEPT ![w].dirty = TRUE]
  /\ Goto(w, Idle)
  /\ UNCHANGED <<calm, card, stored, log, saves, typed>>

Next ==
  \E w \in Windows :
    \/ Open(w) \/ Fetched(w) \/ Type(w) \/ Save(w)
    \/ Accept(w) \/ UpsertConfig(w) \/ UpsertStep(w) \/ ReadBack(w) \/ Record(w)
    \/ Saved(w) \/ Failed(w)

Spec == Init /\ [][Next]_vars

-----------------------------------------------------------------------------
\* A rate that is stored was typed, or is a typed one rounded once: opening and saving the
\* page again and again, with several administrators, moves no rate any further; and the
\* lower limit stays at or below the upper one ("Min foiz Max dan katta bo'lmasligi kerak").
RatesAreTyped ==
  card = "config" =>
    /\ \A f \in Rates :
         \E v \in Typed[f] \union {Start["config"][f]} : stored[f] \in {v, 10 * ((v + 5) \div 10)}
    /\ stored[Min] <= stored[Max]

\* The records lead from the configuration of the start to the one that is stored, each
\* from where the last one ended, while requests run one at a time.
RecordsLeadHere ==
  card = "config" /\ calm /\ (\A w \in Windows : req[w] = Idle) =>
    /\ \A i \in 2..Len(log) : log[i].oldValue = log[i - 1].newValue
    /\ log # << >> => log[1].oldValue = Start["config"] /\ log[Len(log)].newValue = stored

\* A card that one administrator uses shows what is stored, when nothing was typed since the
\* last answer and no save or fetch is under way; a pause limit beyond its range aside.
ShownIsStored ==
  calm /\ (\A w \in Windows : req[w] = Idle /\ page[w].fetch = Nothing) =>
    \A w \in Windows :
      ~page[w].dirty /\ page[w].form # Nothing
        /\ (\A v \in Windows \ {w} : page[v].form = Nothing)
      => \/ card = "days" /\ page[w].form = stored
         \/ card = "config" /\ \A f \in Rates : Shown(page[w].form)[f] = Shown(stored)[f]
=============================================================================
