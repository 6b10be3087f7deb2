------------------------------ MODULE StaffDesk ------------------------------
(***************************************************************************)
(* The administrator's pages of accounts and branches                      *)
(* (packages/ui/src/pages/UsersPage.tsx, BranchesPage.tsx), against the    *)
(* requests of apps/backend/src/users/ and branches/ they make.  What the  *)
(* server refuses and how its guards race is in Accounts; here a request   *)
(* is one step, and its answer may come when another form is open.         *)
(***************************************************************************)
EXTENDS Workflow, FiniteSets, Naturals

CONSTANTS
  Users,      \* logins that exist or may be created, without the administrator's own
  Newcomers,  \* those that do not exist yet
  Branches,   \* branches
  Given,      \* the roles that are given in the forms
  NoAccount,  \* a login that was not created yet
  NoBranch,   \* branchId is null; no branch chosen
  New,        \* the form of an account that has no id yet
  Nothing,    \* no form, picture, dialog or request; a login not typed yet
  MaxForms,   \* bound on forms and dialogs opened and what other administrators do
  MaxMoves    \* bound on what other administrators do


VARIABLES
  account,   \* account[u]: the row of u
  hands,     \* hands[u]: whose forms the fields and the picture of u came from
  list,      \* the accounts as the pages last fetched them
  stale,     \* a fetch is under way
  modal,     \* the open form
  saving,    \* the save under way
  dialog,    \* the account about to be blocked or let in
  toggling,  \* the block under way
  forms, moves  \* forms and dialogs opened, moves of others

vars == <<account, hands, list, stale, modal, saving, dialog, toggling, forms, moves>>

\* Edited, the rows and the forms a page may send.
A == INSTANCE Accounts WITH Tabs <- {}, Root <- Nothing, alone <- TRUE, req <- << >>

StaffAssumption ==
  /\ Newcomers \subseteq Users /\ Given \subseteq Roles
  /\ NoBranch \notin Branches /\ NoAccount \notin A!Account
  /\ MaxForms \in Nat /\ MaxMoves \in Nat

Existing(rows) == {u \in Users : rows[u] # NoAccount}

Entry == [role : Given, branch : Branches \union {NoBranch}, moderates : SUBSET Branches]

BlankForm == [role |-> "OPERATOR", branch |-> NoBranch, moderates |-> {}]

Init ==
  /\ account = [u \in Users |-> IF u \in Newcomers THEN NoAccount
                  ELSE [role |-> "MODERATOR", active |-> TRUE, branch |-> NoBranch,
                        moderates |-> Branches]]
  /\ hands = [u \in Users |-> {}]
  /\ list = account
  /\ stale = FALSE
  /\ modal = Nothing
  /\ saving = Nothing
  /\ dialog = Nothing
  /\ toggling = Nothing
  /\ forms = 0 /\ moves = 0

Server == <<account, hands>>
Cached == <<list, stale>>
Toggle == <<dialog, toggling>>

-----------------------------------------------------------------------------
\* The page a save was started on: nobody leaves it while the save runs (a bound).
OnPage(mode) ==
  /\ saving # Nothing => (saving.mode = "branch" <=> mode = "branch")
  /\ toggling # Nothing => mode # "branch"

\* openCreate and openEdit: only over the bare list.
OpenForm(form) ==
  /\ modal = Nothing /\ dialog = Nothing
  /\ OnPage(form.mode)
  /\ forms + moves < MaxForms
  /\ forms' = forms + 1
  /\ modal' = form
  /\ UNCHANGED <<Server, Cached, saving, Toggle, moves>>

OpenCreate ==
  OpenForm([mode |-> "create", for |-> New, id |-> Nothing, entry |-> BlankForm,
            picture |-> Nothing])

OpenEdit(u) ==
  /\ u \in Existing(list)
  /\ OpenForm([mode |-> "edit", for |-> u, id |-> u, picture |-> Nothing,
               entry |-> [role |-> list[u].role, branch |-> list[u].branch,
                          moderates |-> list[u].moderates]])

\* BranchesPage: the moderators of the branch are ticked.
OpenBranch(b) ==
  OpenForm([mode |-> "branch", for |-> b, id |-> b, picture |-> Nothing,
            entry |-> {u \in Existing(list) : b \in list[u].moderates}])

\* A field of the form; the login only while the account is new.
Type ==
  /\ modal # Nothing
  /\ \/ /\ modal.mode = "branch"
        /\ \E ticked \in SUBSET {u \in Existing(list) : list[u].role = "MODERATOR"} :
             modal' = [modal EXCEPT !.entry = ticked]
     \/ /\ modal.mode # "branch"
        /\ \E entry \in Entry : modal' = [modal EXCEPT !.entry = entry]
     \/ /\ modal.mode = "create"
        /\ \E u \in Users : modal' = [modal EXCEPT !.id = u]
  /\ UNCHANGED <<Server, Cached, saving, Toggle, forms, moves>>

\* Choosing a picture, or taking it back.
PickPicture ==
  /\ modal # Nothing
  /\ modal.mode # "branch"
  /\ \E picture \in {modal.for, Nothing} : modal' = [modal EXCEPT !.picture = picture]
  /\ UNCHANGED <<Server, Cached, saving, Toggle, forms, moves>>

\* Bekor qilish, Escape and a click beside the form, also while a save runs.
Close ==
  /\ modal # Nothing
  /\ modal' = Nothing
  /\ UNCHANGED <<Server, Cached, saving, Toggle, forms, moves>>

\* Mutant of BranchInvalid: the branch of an operator is no longer asked for.
BranchInvalidForModerators(entry) == entry.role = "MODERATOR" /\ entry.moderates = {}

BranchInvalid(entry) ==
  CASE entry.role = "OPERATOR" -> entry.branch = NoBranch
    [] entry.role = "MODERATOR" -> entry.moderates = {}
    [] OTHER -> FALSE

\* What the role does not have is sent empty.
Payload(entry) ==
  [entry EXCEPT !.branch = IF entry.role = "OPERATOR" THEN @ ELSE NoBranch,
                !.moderates = IF entry.role = "MODERATOR" THEN @ ELSE {}]

\* Save waits for the save before it, of whatever form.
Save ==
  /\ modal # Nothing /\ saving = Nothing
  /\ modal.id # Nothing
  /\ modal.mode # "branch" => ~BranchInvalid(modal.entry)
  /\ saving' = [step |-> "row", mode |-> modal.mode, for |-> modal.for, id |-> modal.id,
                picture |-> modal.picture,
                entry |-> IF modal.mode = "branch" THEN modal.entry ELSE Payload(modal.entry)]
  /\ UNCHANGED <<Server, Cached, modal, Toggle, forms, moves>>

-----------------------------------------------------------------------------
\* POST users, PUT users/:id; PUT branches/:id replaces the moderators.
Stored(s) ==
  CASE s.mode = "create" ->
         [account EXCEPT ![s.id] =
            [role |-> s.entry.role, active |-> TRUE, branch |-> s.entry.branch,
             moderates |-> s.entry.moderates]]
    [] s.mode = "edit" -> [account EXCEPT ![s.id] = A!Edited(@, s.entry)]
    [] s.mode = "branch" ->
         [u \in Users |->
            IF u \notin Existing(account) THEN account[u]
            ELSE [account[u] EXCEPT !.moderates =
                    IF u \in s.entry THEN @ \union {s.id} ELSE @ \ {s.id}]]

ServeRow ==
  /\ saving # Nothing
  /\ saving.step = "row"
  /\ saving.mode = "create" => saving.id \notin Existing(account)
  /\ account' = Stored(saving)
  /\ hands' = IF saving.mode = "branch" THEN hands
              ELSE [hands EXCEPT ![saving.id] = @ \union {saving.for}]
  /\ saving' = [saving EXCEPT !.step = IF saving.picture = Nothing THEN "done" ELSE "picture"]
  /\ UNCHANGED <<Cached, modal, Toggle, forms, moves>>

\* Mutant of Pictured: the upload reads the form that is open by then.
PicturedNow(s) == IF modal = Nothing \/ modal.id \notin Existing(account) THEN s.id ELSE modal.id

\* The account a chosen picture is uploaded to.
Pictured(s) == s.id

\* POST users/:id/avatar, after the row was saved.
ServePicture ==
  /\ saving # Nothing
  /\ saving.step = "picture"
  /\ hands' = [hands EXCEPT ![Pictured(saving)] = @ \union {saving.picture}]
  /\ saving' = [saving EXCEPT !.step = "done"]
  /\ UNCHANGED <<account, Cached, modal, Toggle, forms, moves>>

\* onSuccess fetches the list again and closes the form that is open, whichever it is.
Saved ==
  /\ saving # Nothing
  /\ saving.step = "done"
  /\ saving' = Nothing
  /\ modal' = Nothing
  /\ stale' = TRUE
  /\ UNCHANGED <<Server, list, Toggle, forms, moves>>

\* Refused or lost, before the row, between the row and the picture, or after both: the
\* form stays and the list is not fetched.
SaveFailed ==
  /\ saving # Nothing
  /\ saving' = Nothing
  /\ UNCHANGED <<Server, Cached, modal, Toggle, forms, moves>>

\* One of the two pages is opened: both lists are fetched.
Visit ==
  /\ modal = Nothing /\ dialog = Nothing /\ saving = Nothing /\ toggling = Nothing
  /\ ~stale
  /\ stale' = TRUE
  /\ UNCHANGED <<Server, list, modal, saving, Toggle, forms, moves>>

Fetched ==
  /\ stale
  /\ list' = account
  /\ stale' = FALSE
  /\ UNCHANGED <<Server, modal, saving, Toggle, forms, moves>>

-----------------------------------------------------------------------------
\* The lock of the list asks first.
AskToggle(u) ==
  /\ modal = Nothing /\ dialog = Nothing
  /\ OnPage("toggle")
  /\ u \in Existing(list)
  /\ forms + moves < MaxForms
  /\ forms' = forms + 1
  /\ dialog' = [id |-> u, active |-> list[u].active]
  /\ UNCHANGED <<Server, Cached, modal, saving, toggling, moves>>

CloseDialog ==
  /\ dialog # Nothing
  /\ dialog' = Nothing
  /\ UNCHANGED <<Server, Cached, modal, saving, toggling, forms, moves>>

Confirm ==
  /\ dialog # Nothing /\ toggling = Nothing
  /\ toggling' = [id |-> dialog.id, active |-> ~dialog.active, served |-> FALSE]
  /\ UNCHANGED <<Server, Cached, modal, saving, dialog, forms, moves>>

ServeToggle ==
  /\ toggling # Nothing
  /\ ~toggling.served
  /\ account' = [account EXCEPT ![toggling.id].active = toggling.active]
  /\ toggling' = [toggling EXCEPT !.served = TRUE]
  /\ UNCHANGED <<hands, Cached, modal, saving, dialog, forms, moves>>

Toggled ==
  /\ toggling # Nothing
  /\ \/ toggling.served /\ dialog' = Nothing /\ stale' = TRUE
     \/ UNCHANGED <<dialog, stale>>
  /\ toggling' = Nothing
  /\ UNCHANGED <<Server, list, modal, saving, forms, moves>>

\* Another administrator saves an account on a page of his own.
ForeignSave(u) ==
  /\ moves < MaxMoves /\ forms + moves < MaxForms
  /\ moves' = moves + 1
  /\ u \in Existing(account)
  /\ \E entry \in {f \in A!Forms : f.role \in Given} : account' = [account EXCEPT ![u] = A!Edited(@, entry)]
  /\ UNCHANGED <<hands, Cached, modal, saving, Toggle, forms>>

-----------------------------------------------------------------------------
Next ==
  \/ Visit \/ OpenCreate \/ \E b \in Branches : OpenBranch(b)
  \/ Type \/ PickPicture \/ Close \/ Save
  \/ ServeRow \/ ServePicture \/ Saved \/ SaveFailed \/ Fetched
  \/ \E u \in Users : OpenEdit(u) \/ AskToggle(u) \/ ForeignSave(u)
  \/ CloseDialog \/ Confirm \/ ServeToggle \/ Toggled

Spec == Init /\ [][Next]_vars

-----------------------------------------------------------------------------
\* What was entered for one account is never stored with another, whatever is opened and
\* closed while a save and its picture are under way (mutationFn of save).
FormsStayApart ==
  \A u \in Users : hands[u] \subseteq {u} \union (IF u \in Newcomers THEN {New} ELSE {})

\* "Operator aynan bitta filialga biriktiriladi": every operator has a branch, and nobody
\* else, after any sequence of forms, of forms overtaken by other administrators included.
OperatorsHaveBranch ==
  \A u \in Existing(account) : account[u].role = "OPERATOR" <=> account[u].branch # NoBranch
=============================================================================
