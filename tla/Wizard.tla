-------------------------------- MODULE Wizard --------------------------------
(***************************************************************************)
(* The origination wizard of the operator (packages/ui/src/pages/          *)
(* origination) on top of the section saves of the case service: one page, *)
(* seven steps, the drafts it leaves on the server and the media attached  *)
(* to their pledges.                                                       *)
(*                                                                         *)
(* The operator waits for a running save (the buttons spin) and for the    *)
(* form to be loaded again; a request may fail, or its answer get lost.    *)
(* Contents are versions: 0 is a section not filled as required, a larger  *)
(* number a later text.  Pledges are known by the save that inserted them. *)
(***************************************************************************)
EXTENDS Origination, Sequences

CONSTANTS
  MaxEdits,    \* how often the operator types
  MaxSaves     \* how often anything is saved

WizardAssumption == MaxEdits \in Nat \ {0} /\ MaxSaves \in Nat

VARIABLES
  page,      \* "new", or "draft": opened with the id of a case in its URL
  step,      \* 0 .. 6, or 7 when finished
  form,      \* the sections as they stand in the form
  known,     \* caseId of the form, 0 before the first answer
  cases,     \* drafts on the server: data, and the save that inserted the pledges
  media,     \* uploaded documents of pledges: [case, pledge]
  task,      \* what the page awaits
  reload,    \* the case is being fetched into the form again
  edits, saves,
  acked      \* by section: the version some answered save of its step carried

vars == <<page, step, form, known, cases, media, task, reload, edits, saves, acked>>

Blank == [s \in Sections |-> 0]

Free == [kind |-> "none"]

\* STEPS: the section a step saves, and the sections typed in it.
StepSection == <<"borrower", "employment", "creditLine", "creditLine", "creditLine",
                 "creditLine", "creditHistory">>

Typed == <<{"borrower"}, {"borrower", "employment", "affordability"}, {"creditLine"},
           {"creditLine"}, {"collaterals"}, {"creditLine"}, {"creditHistory"}>>

\* STEP_ERRORS of a small loan: what must be filled to leave a step by Next.
Required == <<{"borrower"}, {}, {"creditLine"}, {}, {"collaterals"}, {"creditLine"}, {"creditHistory"}>>

StepHasErrors(i) == \E s \in Required[i + 1] : form[s] = 0

Valid == \A i \in 0 .. 6 : ~StepHasErrors(i)

Init ==
  /\ page \in {"new", "draft"}
  /\ step = 0
  /\ form = Blank
  /\ known = IF page = "new" THEN 0 ELSE 1
  /\ edits \in IF page = "new" THEN {0} ELSE {0, 1}
  /\ cases = IF page = "new" THEN <<>>
             ELSE <<[data |-> [s \in Sections |-> edits], pledges |-> 0]>>
  /\ media = {}
  /\ task = Free
  /\ reload = (page = "draft")
  /\ saves = 0
  /\ acked = Blank

Ready == task = Free /\ ~reload /\ step # 7

-----------------------------------------------------------------------------
(***************************************************************************)
(* The operator.                                                           *)
(***************************************************************************)
Type(s) ==
  /\ Ready /\ edits < MaxEdits
  /\ s \in Typed[step + 1]
  /\ form' = [form EXCEPT ![s] = edits + 1]
  /\ edits' = edits + 1
  /\ UNCHANGED <<page, step, known, cases, media, task, reload, saves, acked>>

\* What a handler goes on with: the case it knew when it was called.
Start(kind, then) == task' = [kind |-> kind, closure |-> known, then |-> then]

\* next: "Saqlash va davom".
Next_ ==
  /\ Ready /\ step < 6
  /\ ~StepHasErrors(step)
  /\ Start("next", step + 1)
  /\ UNCHANGED <<page, step, form, known, cases, media, reload, edits, saves, acked>>

\* goTo: another step is opened; without a case nothing is saved.
GoTo(i) ==
  /\ Ready /\ i # step
  /\ IF known # 0 THEN Start("goTo", i) /\ UNCHANGED step
     ELSE step' = i /\ UNCHANGED task
  /\ UNCHANGED <<page, form, known, cases, media, reload, edits, saves, acked>>

\* "Orqaga" saves nothing.
Back ==
  /\ Ready /\ step > 0
  /\ step' = step - 1
  /\ UNCHANGED <<page, form, known, cases, media, task, reload, edits, saves, acked>>

\* "Yakunlash": the whole form, once it has no errors.
Finish ==
  /\ Ready /\ step = 6 /\ Valid
  /\ Start("finish", 7)
  /\ UNCHANGED <<page, step, form, known, cases, media, reload, edits, saves, acked>>

\* A scanned passport or a power of attorney is stored (ensureCase, upload).
Scan ==
  /\ Ready /\ known = 0
  /\ Start("ensure", step)
  /\ UNCHANGED <<page, step, form, known, cases, media, reload, edits, saves, acked>>

\* saveCollateralMedia: ensureCase, saveSection, load the case, upload.
Attach ==
  /\ Ready /\ step = 4 /\ form["collaterals"] # 0
  /\ Start(IF known = 0 THEN "attach" ELSE "attachSave", step)
  /\ UNCHANGED <<page, step, form, known, cases, media, reload, edits, saves, acked>>

-----------------------------------------------------------------------------
(***************************************************************************)
(* The server.                                                             *)
(***************************************************************************)
Created == Append(cases, [data |-> form, pledges |-> saves + 1])

\* applyUpdate: a section that is sent is replaced, the pledges deleted and inserted anew.
Saved(c, section) ==
  LET carried == {s \in Carries(section) : form[s] # 0 \/ s = "collaterals"}
  IN  [cases EXCEPT ![c] =
         [data |-> [s \in Sections |-> IF s \in carried THEN form[s] ELSE @.data[s]],
          pledges |-> IF "collaterals" \in carried THEN saves + 1 ELSE @.pledges]]

\* What the section of the step vouches for; the income has no step that saves it.
Vouched(section) ==
  [s \in Sections |->
     IF s \in Typed[step + 1] \ {"affordability"} \/ section = "all" THEN form[s] ELSE acked[s]]

\* The request of the task: createCase without a case, else the section or all of it.
Perform ==
  IF task.closure = 0 THEN cases' = Created
  ELSE cases' = Saved(task.closure, IF task.kind = "finish" THEN "all" ELSE StepSection[step + 1])

Running(kinds) == task.kind \in kinds /\ saves < MaxSaves /\ saves' = saves + 1

\* The answer of a save: the step is left, and an open draft is fetched again.
Serve ==
  /\ Running({"next", "goTo", "finish"})
  /\ Perform
  /\ known' = IF task.closure = 0 THEN Len(cases') ELSE known
  /\ step' = task.then
  /\ acked' = Vouched(IF task.kind = "finish" \/ task.closure = 0 THEN "all" ELSE "section")
  /\ task' = Free
  /\ reload' = (page = "draft")
  /\ UNCHANGED <<page, form, media, edits>>

\* ensureCase; a handler that goes on keeps the case it was called with.
ServeEnsure ==
  /\ Running({"ensure", "attach"})
  /\ cases' = Created
  /\ known' = Len(cases')
  /\ task' = IF task.kind = "ensure" THEN Free ELSE [task EXCEPT !.kind = "attachSave"]
  /\ UNCHANGED <<page, step, form, media, reload, edits, acked>>

\* saveSection inside saveCollateralMedia, then the upload to the pledge of
\* the case the handler ensured (the upload may fail).
ServeAttach ==
  /\ Running({"attachSave"})
  /\ Perform
  /\ known' = IF task.closure = 0 THEN Len(cases') ELSE known
  /\ media' \in {media, media \union {[case |-> known, pledge |-> cases'[known].pledges]}}
  /\ acked' = Vouched(IF task.closure = 0 THEN "all" ELSE "section")
  /\ task' = Free
  /\ reload' = (page = "draft")
  /\ UNCHANGED <<page, step, form, edits>>

\* The request fails or its answer is lost: an error, which goTo swallows.
Fail ==
  /\ Running({"next", "goTo", "finish", "ensure", "attach", "attachSave"})
  /\ Perform \/ UNCHANGED cases
  /\ step' = IF task.kind = "goTo" THEN task.then ELSE step
  /\ task' = Free
  /\ UNCHANGED <<page, form, known, media, reload, edits, acked>>

\* The query of the page answers: the form is what the server has.
Loaded ==
  /\ reload
  /\ form' = cases[known].data
  /\ reload' = FALSE
  /\ UNCHANGED <<page, step, known, cases, media, task, edits, saves, acked>>

Next ==
  \/ \E s \in Sections : Type(s)
  \/ Next_ \/ Back \/ Finish \/ Scan \/ Attach
  \/ \E i \in 0 .. 6 : GoTo(i)
  \/ Serve \/ ServeEnsure \/ ServeAttach \/ Fail \/ Loaded

Spec == Init /\ [][Next]_vars

-----------------------------------------------------------------------------
\* Types: a case the form knows is there, and nothing is newer than the edits.
TypeOK ==
  /\ known \in 0 .. Len(cases)
  /\ step \in 0 .. 7
  /\ \A s \in Sections :
       /\ form[s] \in 0 .. edits
       /\ \A c \in 1 .. Len(cases) : cases[c].data[s] \in 0 .. edits
  /\ \A d \in media : d.case \in 1 .. Len(cases)

(***************************************************************************)
(* "Har bosqich alohida saqlanadi" (every step is saved on its own): what  *)
(* the operator typed in a step and saw saved is in the draft the page     *)
(* goes on with, whatever is skipped, opened again, scanned, reloaded or   *)
(* lost afterwards - except the income, which no step's section carries.   *)
(***************************************************************************)
SavedStepsStay == known # 0 => \A s \in Sections : cases[known].data[s] >= acked[s]

(***************************************************************************)
(* "... so a later-step autosave can't wipe rows or reset collateral IDs"  *)
(* (applyUpdate): the media of a pledge hang on a pledge of their case.    *)
(***************************************************************************)
AttachmentsKept == \A d \in media : d.pledge = cases[d.case].pledges
=============================================================================
