------------------------------ MODULE Deadlines ------------------------------
(***************************************************************************)
(* The deadline timer of one case: the columns stepStartedAt,              *)
(* stepDeadlineAt, pausedAt, pauseUntil and overdueNotified, and all that  *)
(* write them: workflow transitions and the signed approval, pause and     *)
(* resume, the administrator's deadline settings, and the cron job of      *)
(* DeadlineService, which resumes elapsed pauses and announces late cases. *)
(* Cases share only the settings, so one case is modelled.                 *)
(*                                                                         *)
(* Time is in days; several steps may happen on one day.  As in            *)
(* CaseLifecycle a request keeps what it read and writes it later; so does *)
(* the cron job, whose `now' is the one it started with.                   *)
(***************************************************************************)
EXTENDS Workflow, Integers, FiniteSets

CONSTANTS
  FirstDay, LastDay,   \* the days modelled (bound, by alone); day 0 is a Monday
  DaysChoices,         \* business days an administrator may give a step, by alone
  PauseChoices,        \* business days a pause may be asked for, by alone
  SettingSteps,        \* steps whose setting may be changed
  PauseLimit,          \* maxPauseDays
  Requests,            \* requests the server may be handling at the same time
  NoDay                \* a null date

ASSUME DeadlinesAssumption ==
  /\ FirstDay \in Nat /\ LastDay \in [BOOLEAN -> Nat]
  /\ DaysChoices \in [BOOLEAN -> SUBSET (Nat \ {0})]
  /\ \A one \in BOOLEAN : FirstDay <= LastDay[one] /\ DaysChoices[one] # {}
  /\ PauseChoices \in [BOOLEAN -> SUBSET Int]
  /\ SettingSteps \subseteq DeadlineSteps
  /\ PauseLimit \in Nat
  /\ NoDay \notin Int

VARIABLES
  alone,     \* no request and no cron run overlaps another, and none dies
  now,
  status,
  timer,     \* the five columns of the case
  setting,   \* setting[step]: the step_settings rows
  told,      \* history: a notice about the step the case is in was sent since it came there
  cron,      \* what the cron run keeps between two awaits
  req        \* req[r]: what request r keeps between two awaits

vars == <<alone, now, status, timer, setting, told, cron, req>>

Dates == Int \union {NoDay}

Timers == [started : Dates, deadline : Dates, paused : Dates, until : Dates,
           notified : BOOLEAN]

Settings == [enabled : BOOLEAN, days : Nat \ {0}]

Idle == [step |-> "idle"]

CronStates ==
  {Idle}
  \union [step : {"resume"}, now : Int, deadline : Dates, paused : Int, until : Dates]
  \union [step : {"find"}, now : Int]
  \union [step : {"notify"}, status : DeadlineSteps]

RequestStates ==
  {Idle}
  \union [step : {"timer"}, to : Statuses]
  \union [step : {"move"}, to : Statuses, timer : Timers]
  \union [step : {"sign"}]
  \union [step : {"pause"}, days : Nat]
  \union [step : {"resume"}, deadline : Dates, paused : Int, until : Dates]
  \union [step : {"clear"}, of : DeadlineSteps]
  \union [step : {"pending"}, of : DeadlineSteps, days : Nat]
  \union [step : {"fill"}, started : Int, days : Nat]

MinOf(a, b) == IF a < b THEN a ELSE b

MaxOf(a, b) == IF a < b THEN b ELSE a

Weekend(day) == day % 7 \in {5, 6}

\* n working days after from; a step never lands on a weekend.
AddBusinessDays(from, n) ==
  IF n = 0 THEN from
  ELSE CHOOSE day \in from..(from + 3 * n) :
         ~Weekend(day) /\ Cardinality({d \in (from + 1)..day : ~Weekend(d)}) = n

Quiet == cron = Idle /\ \A r \in Requests : req[r] = Idle

Begin(r, state) ==
  /\ req[r] = Idle
  /\ alone => Quiet
  /\ req' = [req EXCEPT ![r] = state]

Goto(r, state) == req' = [req EXCEPT ![r] = state]

End(r) == req' = [req EXCEPT ![r] = Idle]

\* A case that entered moderation today, or one paused before pauseUntil existed.
Init ==
  /\ alone \in BOOLEAN
  /\ now = FirstDay
  /\ status = "MODERATION"
  /\ setting = [s \in DeadlineSteps |-> [enabled |-> TRUE, days |-> CHOOSE n \in DaysChoices[alone] : TRUE]]
  /\ \E paused \in {NoDay, now} :
       timer = [started |-> now, deadline |-> AddBusinessDays(now, setting[status].days),
                paused |-> paused, until |-> NoDay, notified |-> FALSE]
  /\ told = FALSE
  /\ cron = Idle
  /\ req = [r \in Requests |-> Idle]

Tick ==
  /\ now < LastDay[alone]
  /\ now' = now + 1
  /\ UNCHANGED <<alone, status, timer, setting, told, cron, req>>

-----------------------------------------------------------------------------
(***************************************************************************)
(* transition: the rule, then stepTimerData for the status it leads to,    *)
(* then the write.  commit of the signature writes its own columns.        *)
(***************************************************************************)

ReadForTransition(r) ==
  /\ \E rule \in Transitions :
       rule.from = status /\ Begin(r, [step |-> "timer", to |-> rule.to])
  /\ UNCHANGED <<alone, now, status, timer, setting, told, cron>>

\* pauseUntil is not among the columns stepTimerData sets.
StepTimer(to) ==
  [timer EXCEPT
     !.started = now,
     !.deadline = IF HasDeadline(to) /\ setting[to].enabled
                  THEN AddBusinessDays(now, setting[to].days)
                  ELSE NoDay,
     !.notified = FALSE,
     !.paused = NoDay]

StepTimerData(r) ==
  /\ req[r].step = "timer"
  /\ Goto(r, [step |-> "move", to |-> req[r].to, timer |-> StepTimer(req[r].to)])
  /\ UNCHANGED <<alone, now, status, timer, setting, told, cron>>

CommitTransition(r) ==
  /\ req[r].step = "move"
  /\ status' = req[r].to
  /\ timer' = [req[r].timer EXCEPT !.until = timer.until]
  /\ told' = FALSE
  /\ End(r)
  /\ UNCHANGED <<alone, now, setting, cron>>

ReadForSign(r) ==
  /\ \E rule \in FindTransition(status, "DIRECTOR", "APPROVE") : rule.to = "FINALIZED"
  /\ Begin(r, [step |-> "sign"])
  /\ UNCHANGED <<alone, now, status, timer, setting, told, cron>>

Sign(r) ==
  /\ req[r].step = "sign"
  /\ status' = "FINALIZED"
  /\ timer' = [timer EXCEPT !.started = NoDay, !.deadline = NoDay]
  /\ told' = FALSE
  /\ End(r)
  /\ UNCHANGED <<alone, now, setting, cron>>

-----------------------------------------------------------------------------
(***************************************************************************)
(* pause and resume.                                                       *)
(***************************************************************************)

\* The window asked for, at most the administrator's limit, at least a day.
PauseWindow(days) == MaxOf(1, MinOf(MaxOf(1, PauseLimit), days))

ReadForPause(r, days) ==
  /\ HasDeadline(status)
  /\ timer.paused = NoDay
  /\ Begin(r, [step |-> "pause", days |-> PauseWindow(days)])
  /\ UNCHANGED <<alone, now, status, timer, setting, told, cron>>

WritePause(r) ==
  /\ req[r].step = "pause"
  /\ timer' = [timer EXCEPT !.paused = now, !.until = AddBusinessDays(now, req[r].days)]
  /\ End(r)
  /\ UNCHANGED <<alone, now, status, setting, told, cron>>

\* The pause as chosen, or for one without a window the limit in calendar days.
PauseSpan(s) == IF s.until # NoDay THEN s.until - s.paused ELSE PauseLimit

Shift(deadline, by) == IF deadline = NoDay THEN NoDay ELSE deadline + by

Resumed(deadline) ==
  [timer EXCEPT !.paused = NoDay, !.until = NoDay, !.deadline = deadline, !.notified = FALSE]

ReadForResume(r) ==
  /\ timer.paused # NoDay
  /\ Begin(r, [step |-> "resume", deadline |-> timer.deadline, paused |-> timer.paused,
               until |-> timer.until])
  /\ UNCHANGED <<alone, now, status, timer, setting, told, cron>>

\* Mutant of ResumeShift: the operands of the span change places.
ResumeShiftBack(s) == s.paused - now

\* What resume adds to the deadline: the days paused, within the window.
ResumeShift(s) == MinOf(now - s.paused, PauseSpan(s))

WriteResume(r) ==
  /\ req[r].step = "resume"
  /\ timer' = Resumed(Shift(req[r].deadline, ResumeShift(req[r])))
  /\ End(r)
  /\ UNCHANGED <<alone, now, status, setting, told, cron>>

-----------------------------------------------------------------------------
(***************************************************************************)
(* updateDeadlines, for one item of its list: the setting, then the cases  *)
(* that are in the step.                                                   *)
(***************************************************************************)
WriteSetting(r, step, enabled, days) ==
  /\ setting' = [setting EXCEPT ![step] = [enabled |-> enabled, days |-> days]]
  /\ Begin(r, IF enabled THEN [step |-> "pending", of |-> step, days |-> days]
                         ELSE [step |-> "clear", of |-> step])
  /\ UNCHANGED <<alone, now, status, timer, told, cron>>

ClearDeadlines(r) ==
  /\ req[r].step = "clear"
  /\ timer' = IF status = req[r].of /\ timer.deadline # NoDay
              THEN [timer EXCEPT !.deadline = NoDay, !.notified = FALSE]
              ELSE timer
  /\ End(r)
  /\ UNCHANGED <<alone, now, status, setting, told, cron>>

\* Mutant of Pending: cases whose deadline is set are taken for the pending ones.
PendingSwapped(step) ==
  status = step /\ timer.deadline # NoDay /\ timer.started # NoDay

\* In the step, with the time it came there but no deadline.
Pending(step) == status = step /\ timer.deadline = NoDay /\ timer.started # NoDay

FindPending(r) ==
  /\ req[r].step = "pending"
  /\ IF Pending(req[r].of)
     THEN Goto(r, [step |-> "fill", started |-> timer.started, days |-> req[r].days])
     ELSE End(r)
  /\ UNCHANGED <<alone, now, status, timer, setting, told, cron>>

FillDeadline(r) ==
  /\ req[r].step = "fill"
  /\ timer' = [timer EXCEPT !.deadline = AddBusinessDays(req[r].started, req[r].days),
                            !.notified = FALSE]
  /\ End(r)
  /\ UNCHANGED <<alone, now, status, setting, told, cron>>

-----------------------------------------------------------------------------
(***************************************************************************)
(* checkOverdue, every thirty minutes: list the elapsed pauses, resume     *)
(* each, list the late cases, announce each.                               *)
(***************************************************************************)

\* Mutant of Elapsed: only pauses with a window of their own.
ElapsedTimed == timer.paused # NoDay /\ timer.until # NoDay /\ timer.until <= now

Elapsed ==
  /\ timer.paused # NoDay
  /\ IF timer.until # NoDay THEN timer.until <= now ELSE timer.paused < now - PauseLimit

CronStart ==
  /\ cron = Idle
  /\ alone => Quiet
  /\ cron' = IF Elapsed
             THEN [step |-> "resume", now |-> now, deadline |-> timer.deadline,
                   paused |-> timer.paused, until |-> timer.until]
             ELSE [step |-> "find", now |-> now]
  /\ UNCHANGED <<alone, now, status, timer, setting, told, req>>

CronResume ==
  /\ cron.step = "resume"
  /\ timer' = Resumed(Shift(cron.deadline, PauseSpan(cron)))
  /\ cron' = [step |-> "find", now |-> cron.now]
  /\ UNCHANGED <<alone, now, status, setting, told, req>>

LateAt(day) == HasDeadline(status) /\ timer.deadline # NoDay /\ timer.deadline < day

\* Mutant of Overdue: a paused case is waited for even when its pause is over.
OverdueNeverPaused(day) == LateAt(day) /\ ~timer.notified /\ timer.until = NoDay

Overdue(day) == LateAt(day) /\ ~timer.notified /\ timer.paused = NoDay

CronFind ==
  /\ cron.step = "find"
  /\ cron' = IF Overdue(cron.now) THEN [step |-> "notify", status |-> status] ELSE Idle
  /\ UNCHANGED <<alone, now, status, timer, setting, told, req>>

\* One transaction: the messages to the step's assignee and the director, and
\* the flag.  The notice is about the status that was listed.
CronNotify ==
  /\ cron.step = "notify"
  /\ timer' = [timer EXCEPT !.notified = TRUE]
  /\ told' = (told \/ cron.status = status)
  /\ cron' = Idle
  /\ UNCHANGED <<alone, now, status, setting, req>>

\* A request or the cron run dies; what was written stays.
AbortRequest(r) ==
  /\ ~alone
  /\ req[r] # Idle
  /\ End(r)
  /\ UNCHANGED <<alone, now, status, timer, setting, told, cron>>

AbortCron ==
  /\ ~alone
  /\ cron # Idle
  /\ cron' = Idle
  /\ UNCHANGED <<alone, now, status, timer, setting, told, req>>

-----------------------------------------------------------------------------
Receive(r) ==
  \/ ReadForTransition(r)
  \/ ReadForSign(r)
  \/ \E days \in PauseChoices[alone] : ReadForPause(r, days)
  \/ ReadForResume(r)
  \/ \E step \in SettingSteps, enabled \in BOOLEAN, days \in DaysChoices[alone] :
       WriteSetting(r, step, enabled, days)

Advance(r) ==
  \/ StepTimerData(r)
  \/ CommitTransition(r)
  \/ Sign(r)
  \/ WritePause(r)
  \/ WriteResume(r)
  \/ ClearDeadlines(r)
  \/ FindPending(r)
  \/ FillDeadline(r)

Cron == CronStart \/ CronResume \/ CronFind \/ CronNotify

Next ==
  \/ Tick
  \/ \E r \in Requests : Receive(r) \/ Advance(r) \/ AbortRequest(r)
  \/ Cron
  \/ AbortCron

Spec == Init /\ [][Next]_vars

(***************************************************************************)
(* Days pass, a request that was received is worked on, and the cron job   *)
(* runs again and again.  Its start is strongly fair because in a serial   *)
(* instance it waits for the server to be quiet, which requests may keep   *)
(* from lasting; its calls are strongly fair because a run may die at each *)
(* of them, but not every run at the same one.                             *)
(***************************************************************************)
FairSpec ==
  /\ Spec
  /\ WF_vars(Tick)
  /\ \A r \in Requests : WF_vars(Advance(r))
  /\ SF_vars(CronStart)
  /\ SF_vars(CronResume)
  /\ SF_vars(CronFind)
  /\ SF_vars(CronNotify)

-----------------------------------------------------------------------------
(***************************************************************************)
(* Properties.                                                             *)
(***************************************************************************)

\* Every variable keeps its type.
TypeOK ==
  /\ alone \in BOOLEAN
  /\ now \in FirstDay..LastDay[alone]
  /\ status \in Statuses
  /\ timer \in Timers
  /\ setting \in [DeadlineSteps -> Settings]
  /\ told \in BOOLEAN
  /\ cron \in CronStates
  /\ req \in [Requests -> RequestStates]

\* Bound: paused until a day of the model.
EndsInModel ==
  /\ timer.paused # NoDay
  /\ IF timer.until # NoDay THEN timer.until <= LastDay[alone]
     ELSE timer.paused + PauseLimit < LastDay[alone]

\* A pause ends: by a transition, by resume, or by the cron job once its window
\* is over, whatever order the three write in (checkOverdue's auto-resume).
PauseEnds == EndsInModel ~> ~EndsInModel

\* A case that stays late in its step and is not paused gets a notice about that
\* step (checkOverdue).
LateIsTold ==
  (alone /\ LateAt(now) /\ timer.paused = NoDay /\ ~told)
    ~> (told \/ ~LateAt(now) \/ timer.paused # NoDay)

(***************************************************************************)
(* Properties of the handlers one at a time.                               *)
(***************************************************************************)

\* With no request running, a case in a deadline step has a deadline exactly when
\* the timer of the step is on, and a case outside of them has none.
TimerFollowsSetting ==
  alone /\ Quiet => (timer.deadline # NoDay <=> HasDeadline(status) /\ setting[status].enabled)

\* Within a step the deadline is only ever put off: no pause, resume or cron run
\* takes time from the staff.
DeadlineNeverMovesBack ==
  [][alone /\ status' = status /\ timer'.started = timer.started
       /\ timer.deadline # NoDay /\ timer'.deadline # NoDay
     => timer'.deadline >= timer.deadline]_vars
=============================================================================
