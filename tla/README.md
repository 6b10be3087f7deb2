# Verification of credit-core

`credit-core` processes secured consumer credits. An operator enters a case, a
moderator and a director decide on it, the director signs the generated
documents with an E-IMZO key, and the case is closed. The backend is one NestJS
process over MySQL (Prisma); four browser applications talk to it over HTTP.

No handler of the backend locks a row. Each is an `async` function that reads,
decides on what it read, and writes some awaits later; Prisma transactions group
writes, they do not cover the reads before them. Between any two awaits another
request or the cron job may run, and the process may die. The pages have the same
shape: an answer arrives when the user is already elsewhere, and what is cached is
compared with nothing. That is the subject of these modules: what is
guaranteed whatever interleaves, what is guaranteed only while one request runs
at a time, and what the source promises and does not keep.

## Inventory

Paths are relative to `apps/backend/src` unless they begin with `packages`.

| Component | State | Operations | Hard parts | What makes it correct |
|---|---|---|---|---|
| Workflow table (`packages/shared/src/workflow.ts`) | none | `findTransition`, `hasDeadline` | every other part relies on it | a move is a rule of the table, of the mover's role |
| Case service (`credit-cases/credit-cases.service.ts`) | case row, workflow events, counters | create, Qayta MFL, save, archive, restore, submit, transition | stale reads before writes; numbers assigned in a transaction before the status | contract numbers unique, an MFL identifier one client's within a year, status and trail agree, four eyes |
| Sections, rate, split, stored score (same file) | section tables, case amount, score row | section save, `setRate`, `setSplit`, `persistScoring` | one total in two tables; the score is computed after the save | at rest the score and the money describe the case |
| Signature (`signing/`) | frozen files, challenges, signature row | prepare, commit, fail, download, verify | a remote director, a ten-minute challenge, files outside the database, retries | what is filed is what the key signed, once |
| Deadlines (`deadlines/`, `settings/`) | five timer columns, step settings | start, pause, resume, settings, half-hourly cron job | the cron job lists, then writes case by case | deadlines follow settings, pauses end, delays are told |
| Conversations (`messages/`) | messages with a comma-separated `readBy` | open, send, edit, delete, save, counts | read-modify-write of `readBy` | nobody sees another's message; readers are recorded in the end |
| Uploaded documents (`documents/`) | rows and files | upload, replace, remove, download | two stores in different orders | a row's file exists |
| Users and branches (`users/`, `branches/`) | accounts, moderators' branches | create, update, block | count-then-write guard | one active administrator remains |
| Authentication (`auth/`, `packages/ui/src/lib/auth.tsx`) | token and user in each tab | login, `/me`, profile, logout, routes | tabs share a token, answers come late | who is shown is who acts |
| Statistics (`stats/`, lists of the case service) | filters, pages, numbers | count, filter, list, archive | parallel queries, several bounds of time | a list shows what its number counts |
| Scoring, gate, schedule (`packages/shared/src`, `output/documents/schedule.ts`) | none | score, validation, schedule | boundaries; lists kept by hand in two packages | the wizard and the server call the same form complete, blanks score nothing, the schedule repays the loan |
| Wizard (`packages/ui/src/pages/origination`) | form, drafts, pledges, scans, uploads | type, save, refetch, scan, go on | saves, refetches and effects overtake each other | what was saved stays, a scan fills its own pledge |
| Page of a case (`packages/ui/src/pages/CaseView.tsx`) | cached case, panels | decide, pause, save a panel | the copy is old, answers are late | a decision takes effect at the step it was offered for |
| Chats page, staff pages, settings page, signing dialog, recognition, registry checks (`packages/ui`) | forms and requests under way | per page | dialogs, timers, answers after a change of subject | typed words and forms stay where they were typed |
| Templates, import, KATM, deployment | none that others read | render, parse | layout and text | not modelled |

The parts meet in the case row. `transition` writes status and timer; `commit`
of a signature writes status, timer and signature; the cron job writes timer columns
of any case; `updateDeadlines` writes the deadlines of all cases of a step; `fail` and
`prepare` write files that `commit`, the download and the verification read.
`PROJECT.json` lists every component with its status, and under `hazards` each place
where this can go wrong with the properties about it.

## Modules

| Module | What it is | Proofs |
|---|---|---|
| `Workflow` | roles, statuses, decisions, the table as a set of rules, `FindTransition` | |
| `CaseLedger` | abstract specification: a set of cases, each with a status and perhaps a number, and what one move may do | |
| `CaseLifecycle` | creation, edits, archive, submit and transitions; numbers and identifiers | `CaseLifecycleProofs` |
| `CaseSections` | section saves, rate, split, stored score | `ApplicationProofs` |
| `Origination`, `Scoring` | rules of a form, the two gates, derived values; the score | `ApplicationProofs` |
| `Schedule` | the repayment, as it is computed at four places | |
| `Signing` | prepare, commit, fail, expiry, download, verification, against transitions and edits | `SigningProofs` |
| `Deadlines` | timer columns, pauses, settings, the cron job, days passing | `DeadlinesProofs` |
| `Conversations` | messages, readers, the windows that poll them | `ConversationsProofs` |
| `Documents` | rows and files of uploads and attachments | `OfficeProofs` |
| `Accounts` | accounts and the lock-out guards | `PagesProofs` |
| `Session` | the tabs of one browser, the shared token | `OfficeProofs` |
| `Reports` | numbers, filters and lists under the moves of others | `OfficeProofs`, in part |
| `Wizard`, `Pledges`, `LineSteps` | the wizard as a whole, its step of pledges, its steps of the credit line | `FormsProofs` |
| `CaseView` | the page of a case and of its documents | `FormsProofs` |
| `ChatDesk`, `StaffDesk`, `SettingsDesk` | the chats page, the administrator's pages | `OfficeProofs` |
| `SignDialog`, `Scanning` | the signing dialog and E-IMZO, recognition | `PagesProofs` |
| `Registry` | registry checks | |
| `MCCaseLifecycle`, `MCCaseDesk`, `MCSigning`, `MCDeadlines`, `MCConversations` | instances: accounts and roles, symmetry, modes | |
| `MCOffice`, `MCForms`, `MCPages` | several parts that share no state, checked one at a time: `part` is chosen first. They have constants of their own for the parts they instantiate, which the `.cfg` gives small values (`<- MC...`) and the theorems leave open: a run checks the very property a theorem names | |

### How a handler becomes actions

A request is a process, `req[r]`. `req[r] = Idle` means the server is not working
on it. The first action of a handler reads the row, checks what the code checks
and stores in `req[r]` exactly what the code keeps in local variables; each
later database call or `$transaction` is one more action, and the last one
returns `req[r]` to `Idle`. A request the code refuses at once changes nothing and
is not a step. `AbortRequest` (`Abort`) ends a request at any await: a crash,
or a call that throws. What was written stays.

Some guarantees hold only while requests do not overlap. A module says so with a
variable that an instance chooses (`alone`, `serial`, `instance`, `calm`), or, in
`CaseSections`, with `apart`: no two requests have overlapped since the
server was last at rest. `agreed` there is a history variable: what the last request
that met no other one brought into agreement (the score, the money).

`CaseLifecycle`: `row[c]` holds the columns of `credit_cases` the properties
tell apart, `log[c]` the workflow events, `globalNo` and `yearlyNo` the counters.
`transition` is `ReadForTransition`, then for a submit the gate (a second read) and
`AssignNumber` (the transaction over the counters), then `CommitTransition` (status
and event). A number is what the row stores: the global number, the yearly number and the branch,
no year. `issued` is a history variable that no guard reads: which year's counter gave which
identifier to which client. `filled` abstracts the sections: `caseSubmitErrors` finds nothing.

`Signing`: one case, since the handlers for two cases share nothing. The bytes of a
document are told apart by the data it prints and the moment it was made; a manifest
is a function from documents to such bytes. `prepare` writes document after document,
`commit` reads them one by one. `browser` is what directors were handed: any of it may
be signed and committed at any later time, twice, or never.

`Deadlines`: one case; time is days, days 5 and 6 of each seven are the weekend.
`told` is a history variable: a notice about the step the case is in was sent. The
cron job is a second kind of process, `cron`.

The pages: what is typed is a version or a number that remembers where it was typed;
an answer is a step of its own and finds the page as it is then. Others
at work on the same rows are a bounded number of foreign moves.

## Runs

| Run | Question | Distinct states |
|---|---|---|
| `lifecycle_desk` | One request at a time on two cases: do the handlers implement `CaseLedger`, do repeats keep their MFL identifier? Two requests on one case: do four eyes hold under stale decisions? | 190 609 |
| `lifecycle_numbers` | Two requests on two cases across a new year, aborted anywhere: are application numbers gapless, contract numbers unique, MFL identifiers one client's within a year, cases past the draft numbered? | 1 075 264 |
| `signing` | One request at a time, two directors: are the issued files the signed ones, is a signed case locked? Two requests interleaved and aborted at every call: is what is filed what was signed, once, never for a closed attempt? And the invariant of the proofs. | 853 236 |
| `deadlines` | One handler at a time over a weekend, and a request against the cron job, both dying anywhere: does the timer follow the setting, is a deadline only put off, is every delay told, does every pause end? | 157 179 |
| `conversations` | Three windows: who is shown what, do readers that a race drops come back? | 45 810 |
| `office` | Six parts: files of rows; lists against numbers; words typed in chats; who is signed in; the administrator's pages of staff and of settings | 802 629 |
| `forms` | Eight parts: the stored score, the money and the raised rate of the sections; the wizard, its pledges, its credit line; forms, scores and schedules; the page of a case | 1 483 131 |
| `pages` | Four parts: the last administrator; the signing dialog, recognition, registry checks | 301 080 |
| `lifecycle_closed` | refutes `ClosedStaysClosed` | |
| `signing_rewritten` | refutes `IssuedFilesAreSigned` | |
| `wizard_attachments` | refutes `AttachmentsKept` | |
| `payment_day` | refutes `PaymentDayStored` | |

### Bounds, and why they are enough

- `lifecycle_desk`: serial, two cases and three workflow events (submit, return,
  submit again); interleaved, one case, two requests and five events, which lead from
  the draft to a final status with two decisions in flight. `lifecycle_numbers`: two
  cases are enough for two to share a number, two requests for every conflict of a read
  with a write, two years for a counter to begin again.
- `signing`: `LastDoc = 2`, so a set half written, half read or half removed exists; the
  code handles its thirty documents alike. `ChallengeIds` has two ids, the number of prepares that
  finish. Stamps and data have two values where two renderings must differ;
  interleaved, one director.
- `deadlines`: alone, days 3 to 8 from a Thursday with steps of one or two days, so that a weekend
  lies inside and a pause can end beyond it; interleaved, days 3 to 6, a step of one
  day, and pauses that end a day before or after.
- `conversations`: a thread of two parties and a bystander, two messages one at a time,
  one message when handlers interleave.
- `office`. Documents: two requests, three files. Lists: three cases, two branches, four roles,
  one foreign move, two choices of filters, pages of one row, two months. Chats: two case
  chats, a colleague, the saved thread, two words, two requests. Session: two tabs and
  accounts; calm, two changes by the administrator and two requests, racing, none and one.
  Staff: one account and a newcomer, two forms or foreign saves. Settings: two
  administrators, two saves, three typed fields (one when requests interleave).
- `forms`. Sections: four requests, two lines (one with a fixed insured sum), a copy and a
  form without a line. Forms: a complete one with up to three fields typed over (a rule relates at most three);
  cases: the best and the empty one with two answers typed over; loans: three fields typed
  over, terms up to four months, sums that keep the parts whole. Wizard: two edits, three saves.
  Pledges: two pledges, two scans. Line: two days, a date, terms 0 and 13, two typed values, one
  save. Page of a case: two cases, two requests, one foreign move.
- `pages`. Accounts: two accounts, as two administrators may lock each other out.
  Dialog: two keys, two probes, two tries. Scanning: two scans, three images,
  two passes, a gate of one. Registry: two registries, two identifiers, two cases.
- Symmetry is over cases, requests, challenge ids, directors and tabs, none of which a `CHOOSE`
  or an order depends on. Properties of liveness are checked without symmetry.
- `CHECK_DEADLOCK FALSE` stands where a bound ends an instance: the events, typed
  fields, files or tries are spent. The service itself never stops.

### Fairness

- `Deadlines`: days pass (`WF` of `Tick`), a request the server has received is worked
  on (`WF` of `Advance`), and the cron job runs every thirty minutes (`@Cron`): `SF` of
  its start and its calls, because requests may come for ever, and a run may die at each
  call but not every run dies at the same one.
- `Conversations`: an open window polls every eight seconds (`SF` of `OpenCase`), marks what
  it shows (`SF` of `MarkRead`), and begun writes are finished (`WF`).
- `SignDialog`: a call ends (`WF` of `Calls`): HTTP with an answer or an error, E-IMZO with
  an answer or after the 120 s of `CALL_TIMEOUT_MS`. Nobody has to type a password.
- `Scanning`: a running recognition goes on (`WF` of `Work`); the code sets it no
  timeout, so a recognition that hangs is outside the model. `Registry`: timers fire (`WF`).

Nothing is assumed of users: no one has to pause, resume, decide, read or type.

## What is proved

Eight modules hold the proofs; every theorem holds for all values of the constants,
from the named assumptions of its modules alone. Each has the shape: an inductive invariant
and one lemma per action or kind of step that it is kept. `OfficeProofs`, `FormsProofs` and
`PagesProofs` are about the specifications of `MCOffice`, `MCForms` and `MCPages`: one part of
many takes its steps, any part may be chosen.

| Theorem | Property | Invariant it rests on |
|---|---|---|
| `CaseLifecycleProofs`: `IdentifiersStayApart` (with `ContractNumbersUnique`, `MflIdsOneClientAYear`), `WorkflowCasesNumbered`, `FourEyes`, `LogTellsStatus` | `IdentifiersUnique`, `NumberedOutsideDraft`, `ModeratorApprovedFirst` | `LifecycleInv` (`LifecycleInductive`) |
| `CaseLifecycleProofs`: `ApplicationsNumbered` | `RegNosGapless` | `RegNosCounted` |
| `CaseLifecycleProofs`: `DeskImplementsLedger`, `ServiceIsLedger`, `RepeatsShareMfl` | `SerialLedgerSpec`, `RepeatKeepsMfl` | `SerialInv` (`SerialInductive`) |
| `SigningProofs`: `FiledIsSigned`, `SignedOnce`, `ClosedAttemptsStayClosed` | `SignatureCoversFiled`, `SignatureIsFinal`, `ClosedAttemptNeverSigns` | `SigningInv` (`SigningInductive`) |
| `SigningProofs`: `IssuedAlone`, `LockedAlone`, `OneAttemptAlone` | `IssuedFilesAreSignedAlone`, `SignedCaseIsLockedAlone` | `AloneInv` (`AloneInductive`) |
| `DeadlinesProofs`: `TimerFollows`, `NeverMovesBack` | `TimerFollowsSetting`, `DeadlineNeverMovesBack` | `DeadlinesInv` (`DeadlinesInductive`) |
| `PagesProofs`: `AdminAlwaysRemains` | `AdminRemains` | `AccountsInv` (`AccountsInductive`) |
| `OfficeProofs`: `SessionSound` | `SessionHolds` | `SessionInv` (`SessionInductive`) |
| `OfficeProofs`: `FilesStay` | `MissingOnlyWhileReplaced` | `DocumentsInv` (`DocumentsInductive`) |
| `ApplicationProofs`: `ScoreIsCurrent`, `MoneyStaysTogether`, `RaisedRateStays` | `ScoreDescribesCase`, `MoneyAgrees`, `RaisedRateKept` | `SectionsInv` (`SectionsInductive`) |
| `ApplicationProofs`: `GateIsWizard`, `BlankScores` | `GateMirrorsWizard`, `BlankScoresNothing` | none: of every form, of every case |
| `ConversationsProofs`: `SeenByPartiesOnly` | `WhatIsSeen` | `ConversationsInv` (`ConversationsInductive`) |
| `PagesProofs`: `KeysAreGivenBack`, `FirmKeySigns` | `NoKeyForgotten` | `DialogInv` (`DialogInductive`) |
| `PagesProofs`: `ReadingsAreVerified`, `GateAlwaysHolds` | `AppliedIsVerified` | `ScanInv` (`ScanningInductive`) |
| `FormsProofs`: `WordsAreOwn`, `DecidedAsShown`, `WorkIsAlwaysFound` | `OwnWords`, `ShownStepDecided`, `WorkIsFound` | `ViewInv` (`ViewInductive`) |
| `FormsProofs`: `LinesAgree` | `LineAgrees` | `LinesInv` (`LinesInductive`) |
| `FormsProofs`: `SavedIsKept` | `SavedStepsStay` | `WizardInv` (`WizardInductive`) |
| `FormsProofs`: `ScansAreOwn` | `ScansOwnPledge` | `PledgesInv` (`PledgesInductive`) |
| `OfficeProofs`: `WordsStay` | `WordsStayInPlace` | `ChatInv` (`ChatInductive`) |
| `OfficeProofs`: `AdminPagesAreSound` | `AdminPagesSound` | `StaffInv`, `SettingsInv` (`AdminInductive`) |
| `OfficeProofs`: `NumbersAreOwn` | the first half of `ListsAreComplete` | none: of any rows |

### Why the properties need more than themselves

A request acts on what it read long ago; the invariants say what may be relied
on however stale that is.

- `LifecycleInv`. `ReferencesExist`: rows are not removed. `NumbersIssued`: numbers given
  are at or below the counter, so the next is new. `IssuedOnce`: a year's counter gives
  a number once. `MflClaimsIssued`: an identifier on a row, or read by a transition in flight,
  was given to the client of that case. `CommitKnowsNumber`: a
  request past the gate has a numbered case under it; it survives an abort between the two
  transactions. `RulesHeld`: a request holds a rule of the table, and if it starts at the
  director's step an approval is in the log; without it a stale decision could carry a case
  to the end without one.
- `RegNosCounted`: `nextNumber` counts and the insert comes later; the number a request
  holds is at most one above the count, and the unique key refuses the second of two.
- `SerialInv`: alone, what a request read is still so, all others are at rest, and the counter
  equals the number of numbered cases; then every step is one move of the ledger or a
  stutter (`RefinesStep`, action by action).
- `SigningInv`: a challenge holds what a browser was handed under its id, an id is handed
  out once, and a commit past its read holds the challenge of the manifest its browser signed
  and reaches the transaction only with the documents of that manifest. `AloneInv`: alone, the files a
  request read are the files there, and after a signature only failure reports still run.
- `DeadlinesInv`: a step that is open began before now, a pause ends after it began, and alone
  what a request or the cron job read is what is stored, or a running `updateDeadlines` is still
  to repair the deadline (`Repairing`).
- `AccountsInv`: alone, a save that blocks or demotes an account has seen another active
  administrator, who is still there. With two saves at once the guard fails (below).
- `SessionInv`: in a browser where one tab is used (`Calm`) every answer under way is about
  the account the token names; a token is never left without a tab that attends to it; and a page
  that is open is the portal's own.
- `DocumentsInv`: a path belongs to one row for good; what a request has stored and not yet
  named, and what it is about to drop, is no other row's.
- `SectionsInv`: what an apart request read is still so; the score and the money agree, or the
  step a running request is at owes the agreement (`ScorePending`, `MoneyPending`). The
  arithmetic is proved beside it: a premium rounded up covers its rate (`RoundedUp`), and each of the
  three ways a line is written keeps total, kind and policy together (`BuiltAgrees`, `NestedAgrees`,
  `SplitAgrees`).
- `ConversationsInv`: whose a message is never changes and an id is used once, so what a
  request read of them before an await is still so; readers are parties of the message; and
  where one handler runs at a time, what is on a screen is what is stored.
- `DialogInv`: an attempt is at one of its steps, and its key is where that step has it; a
  late answer concerns the attempt it was asked for and never unlocks a key of another.
- `ScanInv`: the gate counts those that run and those that wait stand in its queue once; a candidate that
  is trusted has the weights of two check digits at least, whoever brought it and in whatever pass.
- `ViewInv`: what is typed, copied and sent names the case it is of, as the page is keyed by its
  path; and what is under way was offered for the status it carries.
- `LinesInv`: every line, in the form or stored, has its maturity from date and term, its total
  and kind from the two parts, its sum under the policy from the second part, and the tranche's day of payment
  from the day it was applied for; an effect that patches the line of one render must keep all of these at once.
- `WizardInv`: the wizard continues the case it knows of; what the last answer vouched for is in the draft;
  and neither form nor draft is older than that, section by section, while a save, a refetch or
  an upload is under way (`FormHolds`, `DraftHolds`, `NotNewer`).
- `PledgesInv`: until a pledge leaves the form, the n-th tab, the n-th row of the server and the uploads for
  it are the same vehicle, and a scan that runs has the pictures of its own tab. After a removal none of
  this holds, which is the divergence below, and the property says so (`gone`).
- `ChatInv`: composer, editor and dialog hold what was typed in the thread that is open; a request
  belongs to the thread it was asked from, and its answer finds that thread or changes nothing
  typed elsewhere; and each word has one place from which it may still become a message (`OnceInv`), until an
  answer is lost.
- `StaffInv`: a form, a save and a dialog are about one account, which exists, or about a login that is
  new; and a branch is sent for operators alone. `SettingsInv`: every copy of the configuration has rates
  that were typed or rounded once; alone, a save that ran so far has written what it no longer has to write, the
  last record and the row it read are what is stored, and the only form in use differs from it by what was typed.
- `GateIsWizard` compares the two lists test by test; `BlankScores` bounds each of
  the twenty factors by its best and adds up.

### Assumptions

`LifecycleAssumption`: the set of cases is finite, roles and branches are functions, null
values are none of the others. `SigningAssumption`: there is a document; null values. `DeadlinesAssumption`:
the horizon, the days and the limit are natural numbers, the steps with a setting are deadline steps.
`AccountsAssumption`: finitely many accounts, the first administrator is one. `SessionAssumption`:
the portals are of roles, one role has none of them. `DocumentsAssumption`: finitely many requests.
`SectionsAssumption`: minimum rates do not exceed maximum rates (`updateConfig` refuses it), null values, and
the total a page sends is the sum of its two parts, as `setLine` of the wizard computes it
(`LineSteps` checks the page). `OriginationAssumption`: the threshold is a natural number; null
values. `IsForm` and `IsCase` say what a form and a case are: numbers where the code compares
and adds them; `MCForms` evaluates them on the instances of the run.
`ConversationsAssumption`, `SentinelsAssumption`: every tab is a user's, every user has a role; null values.
`DialogAssumption`: the firm's keys are keys; null values. `ScanningAssumption`: finitely many
scans; the gate admits one at least; a candidate has digits of its own format. `LinesAssumption`:
the days lie in one month, sums and terms are natural numbers. `ViewAssumption`, `WizardAssumption`,
`PledgesAssumption`: the shape of what a user may do; bounds are natural numbers. `ChatAssumption`: the
threads of cases, colleagues and the saved one are apart, "all" is an addressee. `StaffAssumption`: null values.
`SettingsAssumption`: the steps are a sequence and not empty, what is stored at first has the minimum
rate at or below the maximum, numbers are typed; and no rate is typed halfway between two whole percents, since
how it is shown depends on its binary fraction.

### Only model-checked

Liveness (`LateIsTold`, `PauseEnds`, `ReadersRecorded`, `DialogEnds`, `WaitingScansRun`) and
`ENABLED` are out of the prover's reach, and so is induction over data. `ScheduleSound`
speaks of sums over a schedule of any length; the second half of `ListsAreComplete`, that the pages of a
table together are its rows, speaks of a sort and of a concatenation of sequences of any length. `Registry` has
a property of liveness alone (`CheckEnds`, a part of `WaitingScansRun`).

## Divergences

Four are runs with a counterexample; `findings` in `PROJECT.json` quotes the lines.

- *A closed case is reopened* (`lifecycle_closed`). Two decisions read the same
  status. One closes the case, the other writes its own target over it.
- *Issued files change* (`signing_rewritten`). A prepare or a failure report that
  started before the signature goes on after it.
- *Photographs lose their row* (`wizard_attachments`). Every save that carries the
  pledges deletes and inserts them anew.
- *No payment day* (`payment_day`). The three mount effects of the tranche step patch the
  line of one render and the last patch wins: date and number of the tranche are lost, and the
  server derives the payment day from the missing date.

What follows was met while modelling. The models contain it; the properties are
stated so that they hold beside it (an operand, or a mode of the instance, says where).

**Requests that overlap.** One draft submitted twice at once is numbered twice.
`Accounts`: two administrators who block each other at once both succeed; a stale branch form leaves
somebody who is no longer a moderator as its moderator. `CaseSections`: two saves at once store a score
of neither, two splits at once leave two totals, a Qayta MFL has no score until it is saved.
`Documents`: a replace that races a remove leaves a file without a row. `Conversations`
(`SeenStaysTrue`): a message is edited or removed after somebody read it, and a lost reader counts as
unread until the next poll. `Deadlines`: the cron job ends a pause that was
replaced since it listed it, and the notice flag may be dropped with a step that changes meanwhile.
`Signing` states `OneLiveAttempt`, `CancelledStopsVerifying` and `IssuedMatchesDatabase`: refuted when two
requests overlap, or when requisites are saved between prepare and commit.

**Without any overlap.** `Signing`: `FrozenServedIsSigned` (the download serves the frozen set,
`approved` included, before it is signed), `NoneLeftLying` (an abandoned prepare leaves its files),
`FinalizedIsSigned` (the plain transition accepts the director's approval). `CaseLifecycle`: `transition` checks
neither owner, branch nor archive; "913 PS" may be the identifier of two clients numbered in different
years, which the design accepts (`2026-07-09-contract-number-remfl-design.md:98`), since the global number differs. `Deadlines`: `pauseUntil` survives a transition, signing leaves a
pause, a case resumed late is announced again. Settings loop over steps with no
transaction; a failed audit write is silent, and of two racing changes the record may end on a value
that is not stored.

**Arithmetic.** `SCORE_MAX` says 100 (`scoring.ts:13`), at most 98 can be reached; a blank owner row counts as an
owner in the score and not in `resolveOwners`; the report marks a missing birth date as not met;
`minRequiredIncome` may overshoot by a double. The comments at `credit-cases.service.ts:96` and `777-781` speak of 2 % a
year up to 24 months, the code takes flat brackets up to 48. `setRate` leaves the tranche's payment at the old rate,
and drafts saved before the maturity was derived keep the stored one. `toISOString` gives the UTC
day: until five in the morning "today" is yesterday in Tashkent.

**Wizard.** The income of the affordability block is carried by no step, so a refetch overwrites it and
a draft above the threshold cannot be finished (`OriginationWizard.tsx:70` says every step is saved on its own).
A refetch also drops what came from "Hujjatlar tekshirish", what was typed meanwhile, new
pledges, and what was typed before Orqaga or a save that failed. `saveCollateralMedia` on a new form creates two
drafts; so does a create whose answer is lost (Qayta MFL as well). Applying a vehicle scan saves the form
rendered before the scan (`TexScan.tsx:100`, `CollateralMediaUpload.tsx:18`). The scanner is keyed by the index of the pledge,
so that after a removal it shows the removed vehicle. The amount shown stays after a split is cleared,
and the payment effect of Step4 may be overtaken.

**Page of a case.** A pause is offered in `ADMIN_FINALIZE` and refused; requisites on closed cases,
"To'ldirish" on an archived draft, and changes of others' files are offered; panels keep old values;
only the last decision under way disables its button; a lost answer does not refetch. Exports offered to the director are
`ADMIN` only in `output.controller.ts:15`.

**Signing dialog.** The wrong key may be offered when two probes overlap (`SignDialog.tsx:137`); a late
failure report removes the files of the retry; a lost commit answer looks like a failure; a password typed after the
timeout leaves the key unlocked in E-IMZO.

**Recognition.** Another passport dropped during a scan takes the first one's result
(`PassportScan.tsx:117`); an ID card is trusted at 5 of 8 weights although a digit of its own fails; worker pools leak. **Registry.** An edit does
not clear the pending timer, as the comment at `DocCheckPage.tsx:256` has it.

**Chats.** A case chat clears what was typed while a send ran; a retry after a lost answer
sends twice; a thread switch resets the addressee.

**Session.** After another tab signs in as somebody else, a tab shows A and acts as B; any failure of `/me` signs
out all tabs; a late profile answer shows the user again after logout; a 401 does not sign out; a login at the wrong
portal leaves token and user. **Staff and settings.** A stale form overwrites another
administrator's change; a late answer closes whichever form is open; an account created whose picture failed is
reported as not saved. A response overwrites what was typed; percents are rounded for display, so that saving writes 56 % over
55.6 %; 99 days typed are stored as 60 and shown as 99.

**Statistics.** Parallel queries count different moments; cancelled cases count as in progress; a custom range
leaves out its last day; numbers are not fetched again after a restore; a moderator's numbers include drafts.

## Plan

Done: all modules above, their runs, and the theorems listed. What would come next:

1. The sort and the pages of a table (`PagesShowAll`), by induction on the number of rows with
   a prover that can instantiate it.
2. `ScheduleSound` in the same way, month by month.
3. The patterns of recognised text and the import, should they grow rules of their own.

## Not modelled

Rendering and templates, the pattern matching of recognised text, import, deployment and the KATM placeholder (pure
input and output, or no state another part reads); password hashes and token signatures (library code); the WebSocket
protocol to the local key program and the cryptography of pkcs7 (external); decimal arithmetic of loans with
real powers (`Schedule` takes loans whose parts are whole, and a slip for what doubles lose); the request log and its purge
by age; several cases in one cron run, hours within a day, public holidays, which the step deadlines ignore; drawing:
charts, themes, languages, sounds.
