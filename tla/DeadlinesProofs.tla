---------------------------- MODULE DeadlinesProofs ----------------------------
(***************************************************************************)
(* Proofs about Deadlines for any days, settings, pause limit and number   *)
(* of requests in flight.                                                  *)
(***************************************************************************)
EXTENDS Deadlines, FiniteSetTheorems, FunctionTheorems, TLAPS

-----------------------------------------------------------------------------
(***************************************************************************)
(* The calendar.  Nth(k) is the k-th  *)
(* one counted from Monday, day 0, and Upto(d) how many there are up to d. *)
(***************************************************************************)
Nth(k) == 7 * ((k - 1) \div 5) + ((k - 1) % 5)

Upto(day) == 5 * (day \div 7) + (IF day % 7 < 5 THEN (day % 7) + 1 ELSE 5)

\* Nth and Upto are inverse on working days, both grow, and five working days
\* fit into seven.
LEMMA Calendar ==
  /\ \A k \in Int : Nth(k) \in Int /\ ~Weekend(Nth(k)) /\ Upto(Nth(k)) = k
  /\ \A d \in Int : Upto(d) \in Int
  /\ \A d \in Int : ~Weekend(d) => Nth(Upto(d)) = d
  /\ \A d, e \in Int : d <= e => Upto(d) <= Upto(e)
  /\ \A d, k \in Int : d < Nth(k) <=> Upto(d) < k
  /\ \A d \in Int, n \in Nat \ {0} : Nth(Upto(d) + n) <= d + 3 * n
<1>1. \A k \in Int : Nth(k) \in Int /\ ~Weekend(Nth(k)) /\ Upto(Nth(k)) = k
  BY Z3 DEF Nth, Upto, Weekend
<1>2. \A d \in Int : Upto(d) \in Int
  BY Z3 DEF Upto
<1>3. \A d \in Int : ~Weekend(d) => Nth(Upto(d)) = d
  BY Z3 DEF Nth, Upto, Weekend
<1>4. \A d, e \in Int : d <= e => Upto(d) <= Upto(e)
  BY Z3 DEF Upto
<1>5. \A d, k \in Int : d < Nth(k) <=> Upto(d) < k
  BY Z3 DEF Nth, Upto
<1>6. \A d \in Int, n \in Nat \ {0} : Nth(Upto(d) + n) <= d + 3 * n
  BY Z3 DEF Nth, Upto
<1> QED BY <1>1, <1>2, <1>3, <1>4, <1>5, <1>6

\* addBusinessDays finds a day, never on a weekend and never before the one it
\* started from: n working days always lie within 3 * n days.
LEMMA BusinessDays ==
  ASSUME NEW from \in Int, NEW n \in Nat
  PROVE  /\ AddBusinessDays(from, n) \in Int
         /\ AddBusinessDays(from, n) >= from
         /\ n # 0 => ~Weekend(AddBusinessDays(from, n))
<1>1. CASE n = 0
  BY <1>1 DEF AddBusinessDays
<1>2. CASE n # 0
  <2> DEFINE last == Nth(Upto(from) + n)
             worked == {d \in (from + 1)..last : ~Weekend(d)}
             nth == [i \in 1..n |-> Nth(Upto(from) + i)]
  <2>1. Upto(from) \in Int /\ last \in Int /\ ~Weekend(last)
    BY Calendar
  <2>2. last \in from..(from + 3 * n)
    <3>1. from < last
      BY <1>2, <2>1, Calendar
    <3>2. last <= from + 3 * n
      BY <1>2, Calendar
    <3> QED BY <2>1, <3>1, <3>2
  <2>3. nth \in Bijection(1..n, worked)
    <3>1. ASSUME NEW i \in 1..n
          PROVE  nth[i] \in worked /\ Upto(nth[i]) = Upto(from) + i
      <4>1. Upto(from) + i \in Int
        BY <2>1
      <4>2. nth[i] \in Int /\ ~Weekend(nth[i]) /\ Upto(nth[i]) = Upto(from) + i
        BY <4>1, Calendar
      <4>3. from < nth[i]
        BY <2>1, <4>1, Calendar
      <4>4. ~(last < nth[i])
        BY <2>1, <4>1, Calendar
      <4> QED BY <2>1, <4>2, <4>3, <4>4
    <3>2. \A i, j \in 1..n : nth[i] = nth[j] => i = j
      <4> SUFFICES ASSUME NEW i \in 1..n, NEW j \in 1..n, nth[i] = nth[j]
                   PROVE  i = j
        OBVIOUS
      <4>1. Upto(from) + i = Upto(from) + j
        BY <3>1
      <4> QED BY <2>1, <4>1
    <3>3. ASSUME NEW d \in worked
          PROVE  \E i \in 1..n : nth[i] = d
      <4>1. d \in Int /\ ~Weekend(d) /\ from < d /\ ~(last < d)
        BY <2>1
      <4>2. Upto(d) \in Int /\ Nth(Upto(d)) = d
        BY <4>1, Calendar
      <4>3. Upto(from) < Upto(d)
        BY <2>1, <4>1, <4>2, Calendar
      <4>4. Upto(d) <= Upto(from) + n
        BY <2>1, <4>1, <4>2, Calendar
      <4>5. Upto(d) - Upto(from) \in 1..n
        BY <2>1, <4>2, <4>3, <4>4
      <4>6. nth[Upto(d) - Upto(from)] = d
        BY <2>1, <4>2, <4>5
      <4> QED BY <4>5, <4>6
    <3>4. nth \in [1..n -> worked]
      BY <3>1
    <3> QED BY <3>2, <3>3, <3>4, Fun_IsBij
  <2>4. Cardinality(worked) = n
    BY <2>3, FS_CountingElements DEF ExistsBijection
  <2> HIDE DEF last, nth
  <2>5. \E day \in from..(from + 3 * n) :
          ~Weekend(day) /\ Cardinality({d \in (from + 1)..day : ~Weekend(d)}) = n
    BY <2>1, <2>2, <2>4
  <2>6. /\ AddBusinessDays(from, n) \in from..(from + 3 * n)
        /\ ~Weekend(AddBusinessDays(from, n))
    BY <1>2, <2>5 DEF AddBusinessDays
  <2> QED BY <2>6
<1> QED BY <1>1, <1>2

-----------------------------------------------------------------------------
(***************************************************************************)
(* Types.                                                                  *)
(***************************************************************************)

\* What a request or the cron run keeps is told by its step.
LEMMA RequestKinds ==
  ASSUME TypeOK, NEW r \in Requests
  PROVE  /\ req[r].step \in {"timer", "move"} => req[r].to \in Statuses
         /\ req[r].step = "move" => req[r].timer \in Timers
         /\ req[r].step = "pause" => req[r].days \in Nat
         /\ req[r].step = "resume" =>
              req[r].deadline \in Dates /\ req[r].paused \in Int /\ req[r].until \in Dates
         /\ req[r].step \in {"clear", "pending"} => req[r].of \in DeadlineSteps
         /\ req[r].step = "pending" => req[r].days \in Nat
         /\ req[r].step = "fill" => req[r].started \in Int /\ req[r].days \in Nat
BY DEF TypeOK, RequestStates, Idle

LEMMA CronKinds ==
  ASSUME TypeOK
  PROVE  /\ cron.step \in {"resume", "find"} => cron.now \in Int
         /\ cron.step = "resume" =>
              cron.deadline \in Dates /\ cron.paused \in Int /\ cron.until \in Dates
         /\ cron.step = "notify" => cron.status \in DeadlineSteps
BY DEF TypeOK, CronStates, Idle

\* The lengths a pause is given are days to count.
LEMMA Windows ==
  /\ \A days \in Int : PauseWindow(days) \in Nat \ {0}
  /\ \A s : s.until \in Dates /\ s.paused \in Int => PauseSpan(s) \in Int
  /\ \A deadline \in Dates, by \in Int : Shift(deadline, by) \in Dates
BY DeadlinesAssumption DEF PauseWindow, MinOf, MaxOf, PauseSpan, Shift, Dates

\* The rules lead from a status to another one.
LEMMA RulesLead ==
  \A rule \in Transitions : /\ rule.from \in Statuses /\ rule.to \in Statuses
                            /\ rule.from # rule.to
BY DEF Transitions, Rule, Statuses

LEMMA StepsAreStatuses == DeadlineSteps \subseteq Statuses
BY DEF DeadlineSteps, Statuses

THEOREM InitTypes == Init => TypeOK
<1> SUFFICES ASSUME Init PROVE TypeOK
  OBVIOUS
<1> USE DeadlinesAssumption
<1>1. PICK n : n = (CHOOSE m \in DaysChoices[alone] : TRUE)
  OBVIOUS
<1>2. n \in Nat \ {0}
  BY <1>1 DEF Init
<1>3. setting = [s \in DeadlineSteps |-> [enabled |-> TRUE, days |-> n]]
  BY <1>1 DEF Init
<1>4. setting \in [DeadlineSteps -> Settings]
  BY <1>2, <1>3 DEF Settings
<1>5. status = "MODERATION" /\ status \in DeadlineSteps /\ status \in Statuses /\ now \in Int
  BY DEF Init, DeadlineSteps, Statuses
<1>6. setting[status].days = n
  BY <1>3, <1>5
<1>7. AddBusinessDays(now, setting[status].days) \in Int
  BY <1>2, <1>5, <1>6, BusinessDays
<1>8. timer \in Timers
  BY <1>5, <1>7 DEF Init, Timers, Dates
<1>9. cron \in CronStates /\ req \in [Requests -> RequestStates]
  BY DEF Init, CronStates, RequestStates
<1>10. now \in FirstDay..LastDay[alone]
  <2>1. alone \in BOOLEAN /\ now = FirstDay
    BY DEF Init
  <2>2. FirstDay \in Nat /\ LastDay[alone] \in Nat /\ FirstDay <= LastDay[alone]
    BY <2>1
  <2> QED BY <2>1, <2>2
<1>11. alone \in BOOLEAN /\ told \in BOOLEAN
  BY Zenon DEF Init
<1> QED BY <1>4, <1>5, <1>8, <1>9, <1>10, <1>11, Zenon DEF TypeOK

\* Types are kept by what a request begins with.
LEMMA ReceiveTypes ==
  ASSUME TypeOK, NEW r \in Requests, Receive(r)
  PROVE  TypeOK'
<1> USE DeadlinesAssumption
<1> SUFFICES ASSUME NEW s \in RequestStates, Begin(r, s), setting' \in [DeadlineSteps -> Settings],
                    UNCHANGED <<alone, now, status, timer, told, cron>>
             PROVE  TypeOK'
  <2>1. CASE ReadForTransition(r)
    <3>1. PICK rule \in Transitions : Begin(r, [step |-> "timer", to |-> rule.to])
      BY <2>1 DEF ReadForTransition
    <3>2. [step |-> "timer", to |-> rule.to] \in RequestStates
      BY RulesLead DEF RequestStates
    <3> QED BY <2>1, <3>1, <3>2 DEF ReadForTransition, TypeOK
  <2>2. CASE ReadForSign(r)
    <3>1. [step |-> "sign"] \in RequestStates
      BY DEF RequestStates
    <3> QED BY <2>2, <3>1 DEF ReadForSign, TypeOK
  <2>3. CASE \E days \in PauseChoices[alone] : ReadForPause(r, days)
    <3>1. PICK days \in PauseChoices[alone] : ReadForPause(r, days)
      BY <2>3
    <3>2. days \in Int
      BY DEF TypeOK
    <3>3. [step |-> "pause", days |-> PauseWindow(days)] \in RequestStates
      BY <3>2, Windows DEF RequestStates
    <3> QED BY <3>1, <3>3 DEF ReadForPause, TypeOK
  <2>4. CASE ReadForResume(r)
    <3>1. [step |-> "resume", deadline |-> timer.deadline, paused |-> timer.paused,
           until |-> timer.until] \in RequestStates
      BY <2>4 DEF ReadForResume, RequestStates, TypeOK, Timers, Dates
    <3> QED BY <2>4, <3>1 DEF ReadForResume, TypeOK
  <2>5. CASE \E step \in SettingSteps, enabled \in BOOLEAN, days \in DaysChoices[alone] :
               WriteSetting(r, step, enabled, days)
    <3>1. PICK step \in SettingSteps, enabled \in BOOLEAN, days \in DaysChoices[alone] :
                 WriteSetting(r, step, enabled, days)
      BY <2>5
    <3>2. step \in DeadlineSteps /\ days \in Nat \ {0}
      BY DEF TypeOK
    <3>3. /\ [step |-> "pending", of |-> step, days |-> days] \in RequestStates
          /\ [step |-> "clear", of |-> step] \in RequestStates
      BY <3>2 DEF RequestStates
    <3>4. setting' \in [DeadlineSteps -> Settings]
      BY <3>1, <3>2 DEF WriteSetting, TypeOK, Settings
    <3> QED BY <3>1, <3>3, <3>4 DEF WriteSetting
  <2> QED BY <2>1, <2>2, <2>3, <2>4, <2>5 DEF Receive
<1> QED BY DEF Begin, TypeOK

\* Writing one column of the timer leaves a timer.
LEMMA TimersWritten ==
  ASSUME NEW t \in Timers, NEW d \in Dates, NEW e \in Dates, NEW b \in BOOLEAN
  PROVE  /\ [t EXCEPT !.started = d, !.deadline = e, !.notified = FALSE, !.paused = NoDay] \in Timers
         /\ [t EXCEPT !.started = NoDay, !.deadline = NoDay] \in Timers
         /\ [t EXCEPT !.until = d] \in Timers
         /\ [t EXCEPT !.paused = d, !.until = e] \in Timers
         /\ [t EXCEPT !.paused = NoDay, !.until = NoDay, !.deadline = d, !.notified = FALSE] \in Timers
         /\ [t EXCEPT !.deadline = d, !.notified = FALSE] \in Timers
         /\ [t EXCEPT !.notified = TRUE] \in Timers
BY DEF Timers, Dates

\* The timer stepTimerData works out is one.
LEMMA StepTimerType ==
  ASSUME TypeOK, NEW to \in Statuses
  PROVE  StepTimer(to) \in Timers
<1>1. now \in Int /\ timer \in Timers
  BY DeadlinesAssumption DEF TypeOK
<1>2. (IF HasDeadline(to) /\ setting[to].enabled
       THEN AddBusinessDays(now, setting[to].days) ELSE NoDay) \in Dates
  <2>1. CASE HasDeadline(to)
    <3>1. setting[to].days \in Nat
      BY <2>1 DEF HasDeadline, TypeOK, Settings
    <3>2. AddBusinessDays(now, setting[to].days) \in Int
      BY <1>1, <3>1, BusinessDays
    <3> QED BY <3>2 DEF Dates
  <2> QED BY <2>1 DEF Dates
<1>3. now \in Dates
  BY <1>1 DEF Dates
<1> QED BY <1>1, <1>2, <1>3, TimersWritten DEF StepTimer

\* Types are kept by the later steps of a request.
LEMMA AdvanceTypes ==
  ASSUME TypeOK, NEW r \in Requests, Advance(r) \/ AbortRequest(r)
  PROVE  TypeOK'
<1> USE DeadlinesAssumption
<1>a. now \in Int /\ timer \in Timers /\ timer.until \in Dates /\ timer.started \in Dates
  BY DEF TypeOK, Timers
<1>b. Idle \in RequestStates
  BY DEF RequestStates
<1>1. CASE StepTimerData(r)
  <2>1. req[r].to \in Statuses
    BY <1>1, RequestKinds DEF StepTimerData
  <2>2. [step |-> "move", to |-> req[r].to, timer |-> StepTimer(req[r].to)] \in RequestStates
    BY <2>1, StepTimerType DEF RequestStates
  <2> QED BY <1>1, <2>2 DEF StepTimerData, Goto, TypeOK
<1>2. CASE CommitTransition(r)
  <2>1. req[r].to \in Statuses /\ req[r].timer \in Timers
    BY <1>2, RequestKinds DEF CommitTransition
  <2>2. timer' \in Timers
    BY <1>2, <1>a, <2>1, TimersWritten DEF CommitTransition
  <2> QED BY <1>2, <1>b, <2>1, <2>2 DEF CommitTransition, End, TypeOK
<1>3. CASE Sign(r)
  <2>1. timer' \in Timers /\ status' \in Statuses
    BY <1>3, <1>a, TimersWritten DEF Sign, Statuses, Dates
  <2> QED BY <1>3, <1>b, <2>1 DEF Sign, End, TypeOK
<1>4. CASE WritePause(r)
  <2>1. AddBusinessDays(now, req[r].days) \in Dates /\ now \in Dates
    BY <1>4, <1>a, RequestKinds, BusinessDays DEF WritePause, Dates
  <2>2. timer' \in Timers
    BY <1>4, <1>a, <2>1, TimersWritten DEF WritePause
  <2> QED BY <1>4, <1>b, <2>2 DEF WritePause, End, TypeOK
<1>5. CASE WriteResume(r)
  <2>1. req[r].deadline \in Dates /\ req[r].paused \in Int /\ req[r].until \in Dates
    BY <1>5, RequestKinds DEF WriteResume
  <2>2. ResumeShift(req[r]) \in Int
    BY <1>a, <2>1, Windows, SMTT(20) DEF ResumeShift, MinOf
  <2>3. timer' \in Timers
    BY <1>5, <1>a, <2>1, <2>2, Windows, TimersWritten DEF WriteResume, Resumed
  <2> QED BY <1>5, <1>b, <2>3 DEF WriteResume, End, TypeOK
<1>6. CASE ClearDeadlines(r)
  <2>1. timer' \in Timers
    BY <1>6, <1>a, TimersWritten DEF ClearDeadlines, Dates
  <2> QED BY <1>6, <1>b, <2>1 DEF ClearDeadlines, End, TypeOK
<1>7. CASE FindPending(r)
  <2>1. req[r].days \in Nat
    BY <1>7, RequestKinds DEF FindPending
  <2>2. Pending(req[r].of) =>
          [step |-> "fill", started |-> timer.started, days |-> req[r].days] \in RequestStates
    BY <1>a, <2>1 DEF Pending, RequestStates, Dates
  <2> QED BY <1>7, <1>b, <2>2 DEF FindPending, Goto, End, TypeOK
<1>8. CASE FillDeadline(r)
  <2>1. AddBusinessDays(req[r].started, req[r].days) \in Dates
    BY <1>8, RequestKinds, BusinessDays DEF FillDeadline, Dates
  <2>2. timer' \in Timers
    BY <1>8, <1>a, <2>1, TimersWritten DEF FillDeadline
  <2> QED BY <1>8, <1>b, <2>2 DEF FillDeadline, End, TypeOK
<1>9. CASE AbortRequest(r)
  BY <1>9, <1>b DEF AbortRequest, End, TypeOK
<1> QED BY <1>1, <1>2, <1>3, <1>4, <1>5, <1>6, <1>7, <1>8, <1>9 DEF Advance

\* Types are kept by the cron run.
LEMMA CronTypes ==
  ASSUME TypeOK, Cron \/ AbortCron
  PROVE  TypeOK'
<1> USE DeadlinesAssumption
<1>a. now \in Int /\ timer \in Timers /\ timer.until \in Dates /\ timer.deadline \in Dates
  BY DEF TypeOK, Timers
<1>1. CASE CronStart
  <2>1. Elapsed => [step |-> "resume", now |-> now, deadline |-> timer.deadline,
                    paused |-> timer.paused, until |-> timer.until] \in CronStates
    BY <1>a DEF Elapsed, CronStates, TypeOK, Timers, Dates
  <2>2. [step |-> "find", now |-> now] \in CronStates
    BY <1>a DEF CronStates
  <2> QED BY <1>1, <2>1, <2>2 DEF CronStart, TypeOK
<1>2. CASE CronResume
  <2>1. /\ cron.deadline \in Dates /\ cron.paused \in Int /\ cron.until \in Dates
        /\ cron.now \in Int
    BY <1>2, CronKinds DEF CronResume
  <2>2. timer' \in Timers
    BY <1>2, <1>a, <2>1, Windows, TimersWritten DEF CronResume, Resumed
  <2>3. cron' \in CronStates
    BY <1>2, <2>1 DEF CronResume, CronStates
  <2> QED BY <1>2, <2>2, <2>3 DEF CronResume, TypeOK
<1>3. CASE CronFind
  <2>1. Overdue(cron.now) => status \in DeadlineSteps
    BY DEF Overdue, LateAt, HasDeadline
  <2>2. cron' \in CronStates
    BY <1>3, <2>1 DEF CronFind, CronStates
  <2> QED BY <1>3, <2>2 DEF CronFind, TypeOK
<1>4. CASE CronNotify
  <2>1. timer' \in Timers
    BY <1>4, <1>a, TimersWritten DEF CronNotify, Dates
  <2>2. told' \in BOOLEAN
    BY <1>4, Zenon DEF CronNotify, TypeOK
  <2> QED BY <1>4, <2>1, <2>2 DEF CronNotify, CronStates, TypeOK
<1>5. CASE AbortCron
  BY <1>5 DEF AbortCron, CronStates, TypeOK
<1> QED BY <1>1, <1>2, <1>3, <1>4, <1>5 DEF Cron

LEMMA NextTypes == TypeOK /\ [Next]_vars => TypeOK'
<1> SUFFICES ASSUME TypeOK, [Next]_vars PROVE TypeOK'
  OBVIOUS
<1>1. CASE Tick
  BY <1>1, DeadlinesAssumption DEF Tick, TypeOK
<1>2. CASE UNCHANGED vars
  BY <1>2 DEF vars, TypeOK
<1> QED BY <1>1, <1>2, ReceiveTypes, AdvanceTypes, CronTypes DEF Next

\* Every variable keeps its type.
THEOREM DeadlinesTypes == Spec => []TypeOK
<1> QED BY InitTypes, NextTypes, PTL DEF Spec

-----------------------------------------------------------------------------
(***************************************************************************)
(* The inductive invariant.  Started and PausesInOrder hold however the    *)
(* handlers interleave; Serial says what is known between two awaits of    *)
(* the one handler that runs when they do not.                             *)
(***************************************************************************)

\* A case in a step knows when it came there, and so does a transition that will
\* write it.
Started ==
  /\ HasDeadline(status) => timer.started # NoDay
  /\ \A r \in Requests : req[r].step = "move" => req[r].timer.started # NoDay

InOrder(paused, until) ==
  paused # NoDay => paused <= now /\ (until # NoDay => paused <= until)

\* A pause began by now and does not end before it began, as it is stored and as
\* those who will end it have read it.
PausesInOrder ==
  /\ InOrder(timer.paused, timer.until)
  /\ \A r \in Requests :
       /\ req[r].step = "resume" => InOrder(req[r].paused, req[r].until)
       /\ req[r].step = "move" => req[r].timer.paused = NoDay
  /\ cron.step = "resume" => InOrder(cron.paused, cron.until)

OneAtATime ==
  /\ \A r \in Requests : req[r] # Idle => cron = Idle
  /\ \A r, q \in Requests : req[r] # Idle /\ req[q] # Idle => r = q

TimerOn == HasDeadline(status) /\ setting[status].enabled

Follows == timer.deadline # NoDay <=> TimerOn

\* The settings request has changed the setting of the step the case is in, and
\* has not dealt with the case yet.
Repairing(s) ==
  \/ s.step \in {"clear", "pending"} /\ s.of = status
  \/ s.step = "fill"

\* What a request has read is still so.
Current(s) ==
  /\ s.step \in {"timer", "move"} =>
       \E rule \in Transitions : rule.from = status /\ rule.to = s.to
  /\ s.step = "move" =>
       (s.timer.deadline # NoDay <=> HasDeadline(s.to) /\ setting[s.to].enabled)
  /\ s.step = "resume" => s.deadline = timer.deadline
  /\ s.step = "clear" => ~setting[s.of].enabled
  /\ s.step = "pending" => setting[s.of].enabled
  /\ s.step = "fill" => TimerOn /\ timer.deadline = NoDay

Serial ==
  /\ OneAtATime
  /\ Follows \/ \E r \in Requests : Repairing(req[r])
  /\ \A r \in Requests : Current(req[r])
  /\ cron.step = "resume" => cron.deadline = timer.deadline

DeadlinesInv == TypeOK /\ Started /\ PausesInOrder /\ (alone => Serial)

-----------------------------------------------------------------------------
(***************************************************************************)
(* Started and PausesInOrder are kept.                                     *)
(***************************************************************************)
LEMMA InitGeneral == Init => Started /\ PausesInOrder
<1> SUFFICES ASSUME Init PROVE Started /\ PausesInOrder
  OBVIOUS
<1>1. now \in Int /\ NoDay \notin Int
  BY DeadlinesAssumption DEF Init
<1> QED BY <1>1 DEF Init, Started, PausesInOrder, InOrder, Idle

\* What a request begins with: never a write it has ready; a resume that is asked
\* for keeps the pause as it is stored.
LEMMA Beginnings ==
  ASSUME NEW r \in Requests, Receive(r)
  PROVE  \E s : /\ req' = [req EXCEPT ![r] = s]
                /\ s.step # "move"
                /\ s.step = "resume" => s.paused = timer.paused /\ s.until = timer.until
                /\ UNCHANGED <<now, status, timer, cron>>
<1>1. CASE ReadForTransition(r)
  <2>1. PICK rule \in Transitions : Begin(r, [step |-> "timer", to |-> rule.to])
    BY <1>1 DEF ReadForTransition
  <2>2. WITNESS [step |-> "timer", to |-> rule.to]
  <2> QED BY <1>1, <2>1 DEF ReadForTransition, Begin
<1>2. CASE ReadForSign(r)
  <2>1. WITNESS [step |-> "sign"]
  <2> QED BY <1>2 DEF ReadForSign, Begin
<1>3. CASE \E days \in PauseChoices[alone] : ReadForPause(r, days)
  <2>1. PICK days \in PauseChoices[alone] : ReadForPause(r, days)
    BY <1>3
  <2>2. WITNESS [step |-> "pause", days |-> PauseWindow(days)]
  <2> QED BY <2>1 DEF ReadForPause, Begin
<1>4. CASE ReadForResume(r)
  <2>1. WITNESS [step |-> "resume", deadline |-> timer.deadline, paused |-> timer.paused,
                 until |-> timer.until]
  <2> QED BY <1>4 DEF ReadForResume, Begin
<1>5. CASE \E step \in SettingSteps, enabled \in BOOLEAN, days \in DaysChoices[alone] :
             WriteSetting(r, step, enabled, days)
  <2>1. PICK step \in SettingSteps, enabled \in BOOLEAN, days \in DaysChoices[alone] :
               WriteSetting(r, step, enabled, days)
    BY <1>5
  <2>2. WITNESS IF enabled THEN [step |-> "pending", of |-> step, days |-> days]
                           ELSE [step |-> "clear", of |-> step]
  <2> QED BY <2>1 DEF WriteSetting, Begin
<1> QED BY <1>1, <1>2, <1>3, <1>4, <1>5 DEF Receive

LEMMA StartedKept ==
  ASSUME TypeOK, Started, [Next]_vars
  PROVE  Started'
<1>a. now \in Int /\ NoDay \notin Int
  BY DeadlinesAssumption DEF TypeOK
<1> USE DEF Started
<1>1. ASSUME NEW r \in Requests, Receive(r) PROVE Started'
  <2>1. PICK s : req' = [req EXCEPT ![r] = s] /\ s.step # "move" /\ UNCHANGED <<status, timer>>
    BY <1>1, Beginnings
  <2> QED BY <2>1 DEF TypeOK
<1>2. ASSUME NEW r \in Requests, StepTimerData(r) PROVE Started'
  <2>1. StepTimer(req[r].to).started # NoDay
    BY <1>a DEF StepTimer, TypeOK, Timers
  <2> QED BY <1>2, <2>1 DEF StepTimerData, Goto, TypeOK
<1>3. ASSUME NEW r \in Requests, CommitTransition(r) PROVE Started'
  <2>1. timer'.started = req[r].timer.started /\ req[r].timer.started # NoDay
    BY <1>3, RequestKinds DEF CommitTransition, Timers
  <2> QED BY <1>3, <2>1 DEF CommitTransition, End, Idle, TypeOK
<1>4. ASSUME NEW r \in Requests, Sign(r) PROVE Started'
  BY <1>4 DEF Sign, End, Idle, TypeOK, HasDeadline, DeadlineSteps
<1>5. ASSUME NEW r \in Requests, FindPending(r) PROVE Started'
  BY <1>5 DEF FindPending, Goto, End, Idle, TypeOK
<1>6. ASSUME NEW r \in Requests,
             WritePause(r) \/ WriteResume(r) \/ ClearDeadlines(r) \/ FillDeadline(r)
               \/ AbortRequest(r)
      PROVE  Started'
  <2>1. timer'.started = timer.started /\ status' = status
    BY <1>6 DEF WritePause, WriteResume, Resumed, ClearDeadlines, FillDeadline, AbortRequest,
                TypeOK, Timers
  <2>2. req' = [req EXCEPT ![r] = Idle]
    BY <1>6 DEF WritePause, WriteResume, ClearDeadlines, FillDeadline, AbortRequest, End
  <2> QED BY <2>1, <2>2 DEF Idle, TypeOK
<1>7. CASE Tick \/ Cron \/ AbortCron \/ UNCHANGED vars
  <2>1. timer'.started = timer.started /\ status' = status /\ req' = req
    BY <1>7 DEF Tick, Cron, CronStart, CronResume, Resumed, CronFind, CronNotify, AbortCron,
                vars, TypeOK, Timers
  <2> QED BY <2>1
<1> QED BY <1>1, <1>2, <1>3, <1>4, <1>5, <1>6, <1>7 DEF Next, Advance

LEMMA PausesKept ==
  ASSUME TypeOK, PausesInOrder, [Next]_vars
  PROVE  PausesInOrder'
<1>a. now \in Int /\ NoDay \notin Int /\ timer.paused \in Dates /\ timer.until \in Dates
  BY DeadlinesAssumption DEF TypeOK, Timers
<1>b. \A paused, until : InOrder(paused, until) /\ paused \in Dates /\ now' = now + 1
                           => InOrder(paused, until)'
  BY <1>a DEF InOrder, Dates
<1>1. ASSUME NEW r \in Requests, Receive(r) PROVE PausesInOrder'
  <2>1. PICK s : /\ req' = [req EXCEPT ![r] = s] /\ s.step # "move"
                 /\ s.step = "resume" => s.paused = timer.paused /\ s.until = timer.until
                 /\ UNCHANGED <<now, status, timer, cron>>
    BY <1>1, Beginnings
  <2> QED BY <2>1 DEF TypeOK, PausesInOrder, InOrder
<1>2. ASSUME NEW r \in Requests, StepTimerData(r) PROVE PausesInOrder'
  <2>1. StepTimer(req[r].to).paused = NoDay
    BY <1>a DEF StepTimer, TypeOK, Timers
  <2> QED BY <1>2, <2>1 DEF StepTimerData, Goto, TypeOK, PausesInOrder, InOrder
<1>3. ASSUME NEW r \in Requests, FindPending(r) PROVE PausesInOrder'
  BY <1>3 DEF FindPending, Goto, End, Idle, TypeOK, PausesInOrder, InOrder
<1>4. ASSUME NEW r \in Requests, Advance(r) \/ AbortRequest(r), ~StepTimerData(r), ~FindPending(r)
      PROVE  PausesInOrder'
  <2>1. req' = [req EXCEPT ![r] = Idle] /\ UNCHANGED <<now, cron>>
    BY <1>4 DEF Advance, CommitTransition, Sign, WritePause, WriteResume, ClearDeadlines,
                FillDeadline, AbortRequest, End
  <2>2. InOrder(timer.paused, timer.until)'
    <3>1. CASE WritePause(r)
      <4>1. AddBusinessDays(now, req[r].days) >= now /\ AddBusinessDays(now, req[r].days) \in Int
        BY <1>a, <3>1, RequestKinds, BusinessDays DEF WritePause
      <4>2. timer'.paused = now /\ timer'.until = AddBusinessDays(now, req[r].days)
        BY <3>1 DEF WritePause, TypeOK, Timers
      <4> QED BY <1>a, <2>1, <4>1, <4>2 DEF InOrder
    <3>2. CASE CommitTransition(r)
      <4>1. timer'.paused = NoDay
        BY <3>2, RequestKinds DEF CommitTransition, PausesInOrder, Timers
      <4> QED BY <4>1 DEF InOrder
    <3>3. CASE WriteResume(r)
      <4>1. timer'.paused = NoDay
        BY <3>3 DEF WriteResume, Resumed, TypeOK, Timers
      <4> QED BY <4>1 DEF InOrder
    <3>4. CASE Sign(r) \/ ClearDeadlines(r) \/ FillDeadline(r) \/ AbortRequest(r)
      <4>1. timer'.paused = timer.paused /\ timer'.until = timer.until
        BY <3>4 DEF Sign, ClearDeadlines, FillDeadline, AbortRequest, TypeOK, Timers
      <4> QED BY <2>1, <4>1 DEF InOrder, PausesInOrder
    <3> QED BY <1>4, <3>1, <3>2, <3>3, <3>4 DEF Advance
  <2> QED BY <2>1, <2>2 DEF TypeOK, Idle, PausesInOrder, InOrder
<1>5. CASE Cron \/ AbortCron
  <2>1. UNCHANGED <<now, req>>
    BY <1>5 DEF Cron, CronStart, CronResume, CronFind, CronNotify, AbortCron
  <2>2. InOrder(timer.paused, timer.until)'
    <3>1. CASE CronResume
      <4>1. timer'.paused = NoDay
        BY <3>1 DEF CronResume, Resumed, TypeOK, Timers
      <4> QED BY <4>1 DEF InOrder
    <3>2. CASE CronStart \/ CronFind \/ CronNotify \/ AbortCron
      <4>1. timer'.paused = timer.paused /\ timer'.until = timer.until
        BY <3>2 DEF CronStart, CronFind, CronNotify, AbortCron, TypeOK, Timers
      <4> QED BY <2>1, <4>1 DEF InOrder, PausesInOrder
    <3> QED BY <1>5, <3>1, <3>2 DEF Cron
  <2>3. cron'.step = "resume" => cron'.paused = timer.paused /\ cron'.until = timer.until
    BY <1>5 DEF Cron, CronStart, CronResume, CronFind, CronNotify, AbortCron, Idle
  <2> QED BY <2>1, <2>2, <2>3 DEF PausesInOrder, InOrder
<1>6. CASE Tick
  <2>1. InOrder(timer.paused, timer.until)'
    BY <1>a, <1>b, <1>6 DEF Tick, PausesInOrder, InOrder
  <2>2. ASSUME NEW r \in Requests, req[r].step = "resume"
        PROVE  InOrder(req[r].paused, req[r].until)'
    <3>1. req[r].paused \in Dates
      BY <2>2, RequestKinds DEF Dates
    <3> QED BY <1>a, <1>6, <2>2, <3>1 DEF Tick, PausesInOrder, InOrder, Dates
  <2>3. cron.step = "resume" => InOrder(cron.paused, cron.until)'
    BY <1>a, <1>6, CronKinds DEF Tick, PausesInOrder, InOrder
  <2> QED BY <1>6, <2>1, <2>2, <2>3 DEF Tick, PausesInOrder, InOrder
<1>7. CASE UNCHANGED vars
  BY <1>7 DEF vars, PausesInOrder, InOrder
<1> QED BY <1>1, <1>2, <1>3, <1>4, <1>5, <1>6, <1>7 DEF Next

-----------------------------------------------------------------------------
(***************************************************************************)
(* Serial is kept as long as handlers run one at a time.                   *)
(***************************************************************************)

\* A request in flight is the only one, and the cron run is not under way.
LEMMA OnlyOne ==
  ASSUME OneAtATime, NEW r \in Requests, req[r] # Idle
  PROVE  cron = Idle /\ \A q \in Requests : q # r => req[q] = Idle
BY DEF OneAtATime

\* Nothing is known of an idle request, and it repairs nothing.
LEMMA IdleCurrent == Current(Idle) /\ ~Repairing(Idle) /\ Current(Idle)' /\ ~Repairing(Idle)'
BY DEF Current, Repairing, Idle

\* A request that is alone goes on: it is enough to look at its own record.
LEMMA GoesOn ==
  ASSUME TypeOK, Serial, NEW r \in Requests, req[r] # Idle, NEW s,
         req' = [req EXCEPT ![r] = s], cron' = cron,
         Current(s)', Follows' \/ Repairing(s)'
  PROVE  Serial'
<1>1. cron = Idle /\ \A q \in Requests : q # r => req[q] = Idle
  BY OnlyOne DEF Serial
<1>2. req'[r] = s /\ \A q \in Requests : q # r => req'[q] = Idle
  BY <1>1 DEF TypeOK
<1>3. OneAtATime'
  BY <1>1, <1>2 DEF OneAtATime
<1>4. ASSUME NEW q \in Requests PROVE Current(req[q])'
  BY <1>2, IdleCurrent DEF Current, Idle
<1>5. Follows' \/ \E q \in Requests : Repairing(req[q])'
  BY <1>2 DEF Repairing
<1>6. ~(cron'.step = "resume")
  BY <1>1 DEF Idle
<1> QED BY <1>3, <1>4, <1>5, <1>6 DEF Serial

\* So does one that begins when the server is quiet.
LEMMA Begins ==
  ASSUME TypeOK, Serial, alone, NEW r \in Requests, NEW s, Begin(r, s), cron' = cron,
         Current(s)', Follows' \/ Repairing(s)'
  PROVE  Serial'
<1>1. cron = Idle /\ \A q \in Requests : req[q] = Idle
  BY DEF Begin, Quiet
<1>2. req'[r] = s /\ \A q \in Requests : q # r => req'[q] = Idle
  BY <1>1 DEF TypeOK, Begin
<1>3. OneAtATime'
  BY <1>1, <1>2 DEF OneAtATime
<1>4. ASSUME NEW q \in Requests PROVE Current(req[q])'
  BY <1>2, IdleCurrent DEF Current, Idle
<1>5. Follows' \/ \E q \in Requests : Repairing(req[q])'
  BY <1>2 DEF Repairing
<1>6. ~(cron'.step = "resume")
  BY <1>1 DEF Idle
<1> QED BY <1>3, <1>4, <1>5, <1>6 DEF Serial

\* With nobody repairing, the deadline follows the setting.
LEMMA FollowsUnlessRepaired ==
  ASSUME Serial, NEW r \in Requests, req[r] # Idle, ~Repairing(req[r])
  PROVE  Follows
<1>1. \A q \in Requests : ~Repairing(req[q])
  BY OnlyOne, IdleCurrent DEF Serial
<1> QED BY <1>1 DEF Serial

LEMMA QuietFollows ==
  ASSUME Serial, Quiet
  PROVE  Follows
BY IdleCurrent DEF Serial, Quiet

LEMMA InitSerial == Init => Serial
<1> SUFFICES ASSUME Init PROVE Serial
  OBVIOUS
<1>1. cron = Idle /\ \A r \in Requests : req[r] = Idle
  BY DEF Init
<1>2. now \in Int /\ NoDay \notin Int
  BY DeadlinesAssumption DEF Init
<1>3. status = "MODERATION" /\ status \in DeadlineSteps
  BY DEF Init, DeadlineSteps
<1>4. TypeOK
  BY InitTypes
<1>5. setting[status].days \in Nat
  BY <1>3, <1>4 DEF TypeOK, Settings
<1>6. timer.deadline # NoDay
  BY <1>2, <1>5, BusinessDays DEF Init
<1>7. Follows
  BY <1>3, <1>6 DEF Init, Follows, TimerOn, HasDeadline
<1>8. OneAtATime
  BY <1>1 DEF OneAtATime
<1>9. \A r \in Requests : Current(req[r])
  BY <1>1, IdleCurrent
<1> QED BY <1>1, <1>7, <1>8, <1>9 DEF Serial, Idle

\* What the requests and the settings desk begin with is so when they begin.
LEMMA ReceiveSerial ==
  ASSUME TypeOK, Serial, alone, NEW r \in Requests, Receive(r)
  PROVE  Serial'
<1>a. Quiet
  BY DEF Receive, ReadForTransition, ReadForSign, ReadForPause, ReadForResume, WriteSetting, Begin
<1>b. Follows
  BY <1>a, QuietFollows
<1>1. CASE ReadForTransition(r)
  <2>1. PICK rule \in Transitions :
          rule.from = status /\ Begin(r, [step |-> "timer", to |-> rule.to])
    BY <1>1 DEF ReadForTransition
  <2>2. Current([step |-> "timer", to |-> rule.to])' /\ Follows' /\ cron' = cron
    BY <1>1, <1>b, <2>1 DEF ReadForTransition, Current, Follows, TimerOn
  <2> QED BY <2>1, <2>2, Begins
<1>2. CASE ReadForSign(r)
  <2>1. Current([step |-> "sign"])' /\ Follows' /\ cron' = cron
    BY <1>2, <1>b DEF ReadForSign, Current, Follows, TimerOn
  <2> QED BY <1>2, <2>1, Begins DEF ReadForSign
<1>3. CASE \E days \in PauseChoices[alone] : ReadForPause(r, days)
  <2>1. PICK days \in PauseChoices[alone] : ReadForPause(r, days)
    BY <1>3
  <2>2. /\ Current([step |-> "pause", days |-> PauseWindow(days)])' /\ Follows' /\ cron' = cron
    BY <2>1, <1>b DEF ReadForPause, Current, Follows, TimerOn
  <2> QED BY <2>1, <2>2, Begins DEF ReadForPause
<1>4. CASE ReadForResume(r)
  <2>0. PICK s : s = [step |-> "resume", deadline |-> timer.deadline, paused |-> timer.paused,
                      until |-> timer.until]
    OBVIOUS
  <2>1. Current(s)' /\ Follows' /\ cron' = cron
    BY <1>4, <1>b, <2>0 DEF ReadForResume, Current, Follows, TimerOn
  <2> QED BY <1>4, <2>0, <2>1, Begins DEF ReadForResume
<1>5. CASE \E step \in SettingSteps, enabled \in BOOLEAN, days \in DaysChoices[alone] :
             WriteSetting(r, step, enabled, days)
  <2>1. PICK step \in SettingSteps, enabled \in BOOLEAN, days \in DaysChoices[alone] :
               WriteSetting(r, step, enabled, days)
    BY <1>5
  <2> DEFINE s == IF enabled THEN [step |-> "pending", of |-> step, days |-> days]
                             ELSE [step |-> "clear", of |-> step]
  <2>2. step \in DeadlineSteps
    BY DeadlinesAssumption
  <2>3. setting'[step].enabled = enabled
    BY <2>1, <2>2 DEF WriteSetting, TypeOK
  <2>4. Current(s)'
    BY <2>3 DEF Current
  <2>5. Follows' \/ Repairing(s)'
    <3>1. CASE step = status
      BY <2>1, <3>1 DEF WriteSetting, Repairing
    <3>2. CASE step # status
      BY <2>1, <3>2, <1>b DEF WriteSetting, Follows, TimerOn, TypeOK, HasDeadline
    <3> QED BY <3>1, <3>2
  <2> QED BY <2>1, <2>4, <2>5, Begins DEF WriteSetting
<1> QED BY <1>1, <1>2, <1>3, <1>4, <1>5 DEF Receive

\* The columns that decide Follows, after a write of each kind.
LEMMA DeadlineKept ==
  ASSUME Follows, timer'.deadline = timer.deadline, UNCHANGED <<status, setting>>
  PROVE  Follows'
BY DEF Follows, TimerOn

LEMMA AdvanceSerial ==
  ASSUME TypeOK, Started, Serial, alone, NEW r \in Requests, Advance(r) \/ AbortRequest(r)
  PROVE  Serial'
<1>a. now \in Int /\ NoDay \notin Int /\ timer \in Timers /\ Current(req[r])
  BY DeadlinesAssumption DEF TypeOK, Serial
<1>b. req[r] # Idle
  <2>1. Advance(r) => req[r].step \in {"timer", "move", "sign", "pause", "resume", "clear",
                                      "pending", "fill"}
    BY DEF Advance, StepTimerData, CommitTransition, Sign, WritePause, WriteResume,
           ClearDeadlines, FindPending, FillDeadline
  <2>2. AbortRequest(r) => req[r] # Idle
    BY DEF AbortRequest
  <2> QED BY <2>1, <2>2 DEF Idle
<1>c. ASSUME End(r), cron' = cron, Follows' PROVE Serial'
  BY <1>b, <1>c, IdleCurrent, GoesOn DEF End
<1>d. ~Repairing(req[r]) => Follows
  BY <1>b, FollowsUnlessRepaired
<1>1. CASE StepTimerData(r)
  <2>0. PICK to, s : to = req[r].to /\ s = [step |-> "move", to |-> to, timer |-> StepTimer(to)]
    OBVIOUS
  <2>1. Follows /\ to \in Statuses
    BY <1>1, <1>d, <2>0, RequestKinds DEF StepTimerData, Repairing
  <2>2. StepTimer(to).deadline # NoDay <=> HasDeadline(to) /\ setting[to].enabled
    <3>1. StepTimer(to).deadline = IF HasDeadline(to) /\ setting[to].enabled
                                   THEN AddBusinessDays(now, setting[to].days) ELSE NoDay
      BY <1>a DEF StepTimer, Timers
    <3>2. HasDeadline(to) => AddBusinessDays(now, setting[to].days) \in Int
      BY <1>a, BusinessDays DEF HasDeadline, TypeOK, Settings
    <3> QED BY <1>a, <3>1, <3>2
  <2>3. Current(s)'
    <3>1. s.step = "move" /\ s.to = to /\ s.timer = StepTimer(to)
      BY <2>0
    <3>2. \E rule \in Transitions : rule.from = status /\ rule.to = to
      BY <1>1, <1>a, <2>0 DEF StepTimerData, Current
    <3>3. UNCHANGED <<status, setting>>
      BY <1>1 DEF StepTimerData
    <3> QED BY <2>2, <3>1, <3>2, <3>3 DEF Current
  <2>4. Follows' /\ cron' = cron
    BY <1>1, <2>1, DeadlineKept DEF StepTimerData
  <2>5. req' = [req EXCEPT ![r] = s]
    BY <1>1, <2>0 DEF StepTimerData, Goto
  <2> QED BY <1>b, <2>3, <2>4, <2>5, GoesOn
<1>2. CASE CommitTransition(r)
  <2>1. timer'.deadline = req[r].timer.deadline
    BY <1>2, RequestKinds DEF CommitTransition, Timers
  <2>2. Follows'
    BY <1>2, <1>a, <2>1 DEF CommitTransition, Follows, TimerOn, Current
  <2> QED BY <1>2, <1>c, <2>2 DEF CommitTransition
<1>3. CASE Sign(r)
  <2>1. Follows'
    BY <1>3, <1>a DEF Sign, Follows, TimerOn, Timers, HasDeadline, DeadlineSteps
  <2> QED BY <1>3, <1>c, <2>1 DEF Sign
<1>4. CASE WritePause(r)
  <2>1. Follows
    BY <1>4, <1>d DEF WritePause, Repairing
  <2>2. Follows'
    BY <1>4, <1>a, <2>1, DeadlineKept DEF WritePause, Timers
  <2> QED BY <1>4, <1>c, <2>2 DEF WritePause
<1>5. CASE WriteResume(r)
  <2>1. Follows
    BY <1>5, <1>d DEF WriteResume, Repairing
  <2>2. req[r].deadline \in Dates /\ ResumeShift(req[r]) \in Int
    BY <1>5, <1>a, RequestKinds, Windows DEF WriteResume, ResumeShift, MinOf
  <2>3. req[r].deadline = timer.deadline
    BY <1>5, <1>a DEF WriteResume, Current
  <2>4. timer'.deadline # NoDay <=> timer.deadline # NoDay
    BY <1>5, <1>a, <2>2, <2>3 DEF WriteResume, Resumed, Shift, Timers, Dates
  <2>5. Follows'
    BY <1>5, <2>1, <2>4 DEF WriteResume, Follows, TimerOn
  <2> QED BY <1>5, <1>c, <2>5 DEF WriteResume
<1>6. CASE ClearDeadlines(r)
  <2>1. ~setting[req[r].of].enabled
    BY <1>6, <1>a DEF ClearDeadlines, Current
  <2>2. Follows'
    <3>1. CASE status = req[r].of
      <4>1. timer'.deadline = NoDay
        BY <1>6, <1>a, <3>1 DEF ClearDeadlines, Timers
      <4> QED BY <1>6, <2>1, <3>1, <4>1 DEF ClearDeadlines, Follows, TimerOn
    <3>2. CASE status # req[r].of
      <4>1. Follows
        BY <1>6, <1>d, <3>2 DEF ClearDeadlines, Repairing
      <4> QED BY <1>6, <3>2, <4>1, DeadlineKept DEF ClearDeadlines
    <3> QED BY <3>1, <3>2
  <2> QED BY <1>6, <1>c, <2>2 DEF ClearDeadlines
<1>7. CASE FindPending(r)
  <2>1. setting[req[r].of].enabled /\ req[r].of \in DeadlineSteps
    BY <1>7, <1>a, RequestKinds DEF FindPending, Current
  <2>2. CASE Pending(req[r].of)
    <3>0. PICK s : s = [step |-> "fill", started |-> timer.started, days |-> req[r].days]
      OBVIOUS
    <3>1. Current(s)' /\ Repairing(s)'
      BY <1>7, <2>1, <2>2, <3>0 DEF FindPending, Pending, Current, Repairing, TimerOn, HasDeadline
    <3>2. req' = [req EXCEPT ![r] = s] /\ cron' = cron
      BY <1>7, <2>2, <3>0 DEF FindPending, Goto
    <3> QED BY <1>b, <3>1, <3>2, GoesOn
  <2>3. CASE ~Pending(req[r].of)
    <3>1. Follows
      <4>1. CASE status = req[r].of
        BY <2>1, <2>3, <4>1 DEF Pending, Started, Follows, TimerOn, HasDeadline
      <4>2. CASE status # req[r].of
        BY <1>7, <1>d, <4>2 DEF FindPending, Repairing
      <4> QED BY <4>1, <4>2
    <3>2. Follows'
      BY <1>7, <3>1, DeadlineKept DEF FindPending
    <3> QED BY <1>7, <1>c, <2>3, <3>2 DEF FindPending
  <2> QED BY <2>2, <2>3
<1>8. CASE FillDeadline(r)
  <2>1. TimerOn
    BY <1>8, <1>a DEF FillDeadline, Current
  <2>2. AddBusinessDays(req[r].started, req[r].days) \in Int
    BY <1>8, RequestKinds, BusinessDays DEF FillDeadline
  <2>3. timer'.deadline # NoDay
    BY <1>8, <1>a, <2>2 DEF FillDeadline, Timers
  <2>4. Follows'
    BY <1>8, <2>1, <2>3 DEF FillDeadline, Follows, TimerOn
  <2> QED BY <1>8, <1>c, <2>4 DEF FillDeadline
<1>9. CASE AbortRequest(r)
  BY <1>9 DEF AbortRequest
<1> QED BY <1>1, <1>2, <1>3, <1>4, <1>5, <1>6, <1>7, <1>8, <1>9 DEF Advance

\* The cron run alone: it keeps the deadline, or puts off the one it has read.
LEMMA CronSerial ==
  ASSUME TypeOK, Serial, alone, Cron \/ AbortCron
  PROVE  Serial'
<1>a. NoDay \notin Int /\ timer \in Timers
  BY DeadlinesAssumption DEF TypeOK
<1>b. \A r \in Requests : req[r] = Idle
  <2>1. CronStart => Quiet
    BY DEF CronStart
  <2>2. CronResume \/ CronFind \/ CronNotify => cron.step \in {"resume", "find", "notify"}
    BY DEF CronResume, CronFind, CronNotify
  <2>3. ~AbortCron
    BY DEF AbortCron
  <2>4. Quiet \/ cron # Idle
    BY <2>1, <2>2, <2>3 DEF Cron, Idle
  <2> QED BY <2>4 DEF Serial, OneAtATime, Quiet
<1>c. Follows
  BY <1>b, IdleCurrent DEF Serial
<1>d. req' = req /\ UNCHANGED <<status, setting>>
  BY DEF Cron, CronStart, CronResume, CronFind, CronNotify, AbortCron
<1>e. OneAtATime' /\ \A r \in Requests : Current(req[r])'
  BY <1>b, <1>d, IdleCurrent DEF OneAtATime, Current, Idle
<1>f. Follows'
  <2>1. CASE CronResume
    <3>1. cron.deadline = timer.deadline /\ cron.deadline \in Dates /\ PauseSpan(cron) \in Int
      BY <2>1, CronKinds, Windows DEF Serial, CronResume
    <3>2. timer'.deadline # NoDay <=> timer.deadline # NoDay
      BY <1>a, <2>1, <3>1 DEF CronResume, Resumed, Shift, Timers, Dates
    <3> QED BY <1>c, <1>d, <3>2 DEF Follows, TimerOn
  <2>2. CASE ~CronResume
    <3>1. timer'.deadline = timer.deadline
      BY <1>a, <2>2 DEF Cron, CronStart, CronFind, CronNotify, AbortCron, Timers
    <3> QED BY <1>c, <1>d, <3>1, DeadlineKept
  <2> QED BY <2>1, <2>2
<1>g. (cron.step = "resume" => cron.deadline = timer.deadline)'
  <2>1. CASE CronStart
    BY <2>1 DEF CronStart
  <2>2. CronResume => cron'.step = "find"
    BY DEF CronResume
  <2>3. CronFind => cron'.step \in {"notify", "idle"}
    BY DEF CronFind, Idle
  <2>4. CronNotify \/ AbortCron => cron'.step = "idle"
    BY DEF CronNotify, AbortCron, Idle
  <2> QED BY <2>1, <2>2, <2>3, <2>4 DEF Cron
<1>h. (Follows \/ \E r \in Requests : Repairing(req[r]))'
  BY <1>f
<1>i. (\A r \in Requests : Current(req[r]))'
  BY <1>e
<1> QED BY <1>e, <1>g, <1>h, <1>i, Zenon DEF Serial

LEMMA SerialKept ==
  ASSUME TypeOK, Started, Serial, alone, [Next]_vars
  PROVE  Serial'
<1>1. CASE Tick \/ UNCHANGED vars
  <2>1. UNCHANGED <<status, timer, setting, cron, req>>
    BY <1>1 DEF Tick, vars
  <2>2. OneAtATime' /\ (cron.step = "resume" => cron.deadline = timer.deadline)'
    BY <2>1 DEF Serial, OneAtATime
  <2>3. ASSUME NEW r \in Requests PROVE Current(req[r])'
    <3>1. Current(req[r])
      BY DEF Serial
    <3> QED BY <2>1, <3>1 DEF Current, TimerOn
  <2>4. (Follows \/ \E r \in Requests : Repairing(req[r]))'
    BY <2>1 DEF Serial, Follows, TimerOn, Repairing
  <2> QED BY <2>2, <2>3, <2>4 DEF Serial
<1> QED BY <1>1, ReceiveSerial, AdvanceSerial, CronSerial DEF Next

-----------------------------------------------------------------------------
\* The inductive invariant holds.
THEOREM DeadlinesInductive == Spec => []DeadlinesInv
<1>1. Init => DeadlinesInv
  BY InitTypes, InitGeneral, InitSerial DEF DeadlinesInv
<1>2. DeadlinesInv /\ [Next]_vars => DeadlinesInv'
  <2> SUFFICES ASSUME DeadlinesInv, [Next]_vars PROVE DeadlinesInv'
    OBVIOUS
  <2>1. alone' = alone
    BY DEF Next, Tick, Receive, ReadForTransition, ReadForSign, ReadForPause, ReadForResume,
           WriteSetting, Advance, StepTimerData, CommitTransition, Sign, WritePause, WriteResume,
           ClearDeadlines, FindPending, FillDeadline, AbortRequest, Cron, CronStart, CronResume,
           CronFind, CronNotify, AbortCron, vars
  <2> QED BY <2>1, NextTypes, StartedKept, PausesKept, SerialKept DEF DeadlinesInv
<1> QED BY <1>1, <1>2, PTL DEF Spec

\* With no request running, a case in a deadline step has a deadline exactly when
\* the timer of the step is on: the administrator's change of a setting reaches
\* the case, and no transition, pause, resume or cron run undoes it
\* (updateDeadlines, stepTimerData).
THEOREM TimerFollows == Spec => []TimerFollowsSetting
<1>1. DeadlinesInv => TimerFollowsSetting
  BY QuietFollows DEF DeadlinesInv, TimerFollowsSetting, Follows, TimerOn
<1> QED BY <1>1, DeadlinesInductive, PTL

\* A pause is over no sooner than it began, so a resume only adds days.
LEMMA ShiftsForward ==
  ASSUME TypeOK, NEW s, s.paused \in Int, s.until \in Dates, InOrder(s.paused, s.until)
  PROVE  PauseSpan(s) \in Nat /\ ResumeShift(s) \in Nat
<1>1. now \in Int /\ NoDay \notin Int /\ PauseLimit \in Nat
  BY DeadlinesAssumption DEF TypeOK
<1> QED BY <1>1 DEF PauseSpan, ResumeShift, MinOf, InOrder, Dates

LEMMA StepNeverMovesBack ==
  ASSUME DeadlinesInv, Next, alone, status' = status, timer'.started = timer.started,
         timer.deadline # NoDay, timer'.deadline # NoDay
  PROVE  timer'.deadline >= timer.deadline
<1>a. TypeOK /\ PausesInOrder /\ Serial /\ timer \in Timers /\ NoDay \notin Int
  BY DeadlinesAssumption DEF DeadlinesInv, TypeOK
<1>b. timer.deadline \in Int
  BY <1>a DEF Timers, Dates
<1>1. ASSUME NEW r \in Requests, CommitTransition(r) PROVE FALSE
  BY <1>1, <1>a, RulesLead DEF CommitTransition, Serial, Current
<1>2. ASSUME NEW r \in Requests, WriteResume(r) PROVE timer'.deadline >= timer.deadline
  <2>1. req[r].deadline = timer.deadline
    BY <1>2, <1>a DEF WriteResume, Serial, Current
  <2>2. ResumeShift(req[r]) \in Nat
    BY <1>2, <1>a, RequestKinds, ShiftsForward DEF WriteResume, PausesInOrder
  <2>3. timer'.deadline = timer.deadline + ResumeShift(req[r])
    BY <1>2, <1>a, <2>1 DEF WriteResume, Resumed, Shift, Timers
  <2> QED BY <1>b, <2>2, <2>3
<1>3. CASE CronResume
  <2>1. cron.deadline = timer.deadline
    BY <1>3, <1>a DEF CronResume, Serial
  <2>2. PauseSpan(cron) \in Nat
    BY <1>3, <1>a, CronKinds, ShiftsForward DEF CronResume, PausesInOrder
  <2>3. timer'.deadline = timer.deadline + PauseSpan(cron)
    BY <1>3, <1>a, <2>1 DEF CronResume, Resumed, Shift, Timers
  <2> QED BY <1>b, <2>2, <2>3
<1>4. ASSUME NEW r \in Requests, FillDeadline(r) PROVE FALSE
  BY <1>4, <1>a DEF FillDeadline, Serial, Current
<1>5. ASSUME NEW r \in Requests, Sign(r) \/ ClearDeadlines(r)
      PROVE  timer'.deadline >= timer.deadline
  <2>1. timer'.deadline \in {timer.deadline, NoDay}
    BY <1>5, <1>a DEF Sign, ClearDeadlines, Timers
  <2> QED BY <1>b, <2>1
<1>6. ASSUME timer'.deadline = timer.deadline PROVE timer'.deadline >= timer.deadline
  BY <1>6, <1>b
<1>7. ASSUME NEW r \in Requests,
             Receive(r) \/ StepTimerData(r) \/ WritePause(r) \/ FindPending(r) \/ AbortRequest(r)
      PROVE  timer'.deadline >= timer.deadline
  <2>1. CASE Receive(r)
    BY <1>6, <2>1, Beginnings
  <2>2. CASE ~Receive(r)
    <3>1. timer'.deadline = timer.deadline
      BY <1>7, <1>a, <2>2 DEF StepTimerData, WritePause, FindPending, AbortRequest, Timers
    <3> QED BY <1>6, <3>1
  <2> QED BY <2>1, <2>2
<1>8. CASE Tick \/ CronStart \/ CronFind \/ CronNotify \/ AbortCron
  <2>1. timer'.deadline = timer.deadline
    BY <1>8, <1>a DEF Tick, CronStart, CronFind, CronNotify, AbortCron, Timers
  <2> QED BY <1>6, <2>1
<1>9. ASSUME NEW r \in Requests, Receive(r) \/ Advance(r) \/ AbortRequest(r)
      PROVE  timer'.deadline >= timer.deadline
  BY <1>1, <1>2, <1>4, <1>5, <1>7, <1>9 DEF Advance
<1> QED BY <1>3, <1>8, <1>9 DEF Next, Cron

\* Within a step a deadline is only ever put off: pause, resume and the cron job's
\* auto-resume never take working time from the staff.
THEOREM NeverMovesBack == Spec => DeadlineNeverMovesBack
<1>1. DeadlinesInv /\ [Next]_vars =>
        [alone /\ status' = status /\ timer'.started = timer.started
           /\ timer.deadline # NoDay /\ timer'.deadline # NoDay
         => timer'.deadline >= timer.deadline]_vars
  BY StepNeverMovesBack
<1> QED BY <1>1, DeadlinesInductive, PTL DEF Spec, DeadlineNeverMovesBack
=============================================================================
