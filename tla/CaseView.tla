------------------------------- MODULE CaseView -------------------------------
(***************************************************************************)
(* The page of a case (pages/CaseView.tsx) and of its documents            *)
(* (CaseDocumentsPage.tsx) in one browser, against the server: what the    *)
(* page offers a role from the copy of the case it holds, and what becomes *)
(* of it when it is sent, while others move the same case.                 *)
(*                                                                         *)
(* AppShell keys its content by the path: going from one case to another   *)
(* (search, back) mounts the page anew, and what the page before had sent  *)
(* is answered to a page that is gone.  What is typed stands here for the  *)
(* case it was typed for.                                                  *)
(***************************************************************************)
EXTENDS Workflow, Naturals

CONSTANTS
  Cases,
  Traits,      \* what an instance says of its cases: own, inBranch, line, pledged
  Starts,      \* bound: Starts[c] is where case c may be at first
  Tried,       \* bound: the operations that are pressed
  MaxMoves,    \* bound: moves of other users
  MaxPressed,  \* bound: requests the page sends
  NoCase

Others == {"sign", "edit", "fill", "delete", "restore", "pause", "resume", "rate", "split", "katm",
           "act", "excel", "schedule", "requisites", "upload", "scan", "ownFile", "otherFile",
           "reviewDoc", "approvedDoc"}

\* traits: the user wrote the case, moderates its branch; it has a credit line, a collateral.
ViewAssumption ==
  /\ NoCase \notin Cases /\ Tried \subseteq Decisions \union Others /\ MaxMoves \in Nat /\ MaxPressed \in Nat
  /\ Starts \in [Cases -> SUBSET Statuses]
  /\ Traits \subseteq [own : BOOLEAN, inBranch : BOOLEAN, line : BOOLEAN, pledged : BOOLEAN]

VARIABLES
  role, traits,   \* of the user, of the cases to the user
  row,            \* the cases in the database
  cache,          \* the copies in the browser, NoCase where there is none
  shown,          \* the case the page shows
  fetching,
  panel,          \* requisites in the form of the page, by the case they are of
  comment,        \* the comment, by the case it was typed for
  sends,          \* requests on their way
  remarks,        \* history: case of the decisions taken, case the comment was typed for
  pressed, moved

vars == <<role, traits, row, cache, shown, fetching, panel, comment, sends, remarks, pressed, moved>>

user == <<role, traits>>
page == <<cache, shown, fetching, panel, comment>>

Row(c, status, archived) ==
  [status |-> status, archived |-> archived, signed |-> status = "FINALIZED", requisites |-> c]

Init ==
  /\ role \in Roles /\ traits \in Traits
  /\ row \in [Cases -> {Row(c, s, a) : c \in Cases, s \in Statuses \ {"REJECTED"}, a \in BOOLEAN}]
  /\ \A c \in Cases :
       /\ row[c].requisites = c
       /\ row[c].status \in Starts[c]
       /\ row[c].archived => row[c].status = "DRAFT"
  /\ cache = [c \in Cases |-> NoCase] /\ shown = NoCase /\ fetching = {}
  /\ panel = NoCase /\ comment = NoCase
  /\ sends = {} /\ remarks = {} /\ pressed = 0 /\ moved = 0

-----------------------------------------------------------------------------
(***************************************************************************)
(* What the page offers for the copy v of a case.                          *)
(***************************************************************************)
MyTransitions(v) ==
  IF v.archived THEN {}
  ELSE {r.decision : r \in {t \in Transitions : t.from = v.status /\ t.role = role}}

Inline(v) == MyTransitions(v) \ {"CANCEL", "REOPEN"}

\* "Bekor qilish" opens the dialog both are chosen in.
CancelDialog(v) ==
  IF "CANCEL" \in MyTransitions(v) THEN MyTransitions(v) \intersect {"CANCEL", "REOPEN"} ELSE {}

IsDirectorReview(v) == role = "DIRECTOR" /\ v.status = "DIRECTOR_REVIEW"

ActiveStep(v) == v.status \in {"MODERATION", "DIRECTOR_REVIEW", "ADMIN_FINALIZE"}

Approved(v) == v.status \in {"FINALIZED", "ADMIN_FINALIZE"}

\* The buttons beside the number of the case.
HeaderOffers(v) ==
  {op \in {"edit", "delete", "restore"} :
     CASE op = "edit"    -> role = "OPERATOR" /\ v.status = "DRAFT" /\ ~v.archived
       [] op = "delete"  -> role \in {"OPERATOR", "ADMIN"} /\ v.status = "DRAFT" /\ ~v.archived
       [] op = "restore" -> role \in {"OPERATOR", "ADMIN"} /\ v.archived}

\* Pauses are those of a step with a deadline, as an archived case is never paused.
PauseOffers(v) ==
  IF role \in {"MODERATOR", "DIRECTOR", "ADMIN"} /\ ActiveStep(v) THEN {"pause", "resume"} ELSE {}

\* "Amaliyot": the director's approval opens the signing dialog.
StepOffers(v) ==
  UNION {(Inline(v) \union CancelDialog(v)) \ (IF IsDirectorReview(v) THEN {"APPROVE"} ELSE {}),
         IF IsDirectorReview(v) THEN {"sign"} ELSE {},
         PauseOffers(v)}

\* AdminPanel
ExportOffers(v) == IF IsDirectorReview(v) THEN {"katm", "act", "excel", "schedule"} ELSE {}

\* CapturePanel
CaptureOffers(v) ==
  {op \in {"fill", "rate", "split"} :
     CASE op = "fill"  -> role \in {"OPERATOR", "ADMIN"} /\ v.status = "DRAFT"
       [] op = "rate"  -> role = "MODERATOR" /\ v.status = "MODERATION"
       [] op = "split" -> IsDirectorReview(v)}

\* The slots for what is scanned after the approval.
ScanOffers(v) ==
  IF Approved(v) /\ role \in {"OPERATOR", "MODERATOR", "DIRECTOR"} THEN {"scan"} ELSE {}

\* CollateralMedia, CollateralDocs
UploadOffers(v) == IF v.archived THEN {} ELSE {"upload"}

\* DocActions, ImgThumb: files of the user and those of others.
ManageOffers(v) == IF v.archived /\ role # "ADMIN" THEN {} ELSE {"ownFile", "otherFile"}

FileOffers(v) == UploadOffers(v) \union ManageOffers(v)

\* Documents made from the case; some wait for the approval.
DocumentOffers(v) ==
  (IF v.status = "DRAFT" THEN {} ELSE {"reviewDoc"}) \union (IF Approved(v) THEN {"approvedDoc"} ELSE {})

\* The requisites can always be saved.
Offers(v) ==
  UNION {HeaderOffers(v), StepOffers(v), ExportOffers(v), CaptureOffers(v), {"requisites"},
         ScanOffers(v), FileOffers(v), DocumentOffers(v)}

-----------------------------------------------------------------------------
(***************************************************************************)
(* What the server accepts.                                                *)
(***************************************************************************)
\* Mutant of MoveRules: the rule is looked up by role and decision alone.
MoveRulesByRole(r, decision) == {t \in Transitions : t.role = role /\ t.decision = decision}

MoveRules(r, decision) == FindTransition(r.status, role, decision)

Owner == role = "OPERATOR" => traits.own

\* credit-cases.controller and the service behind it.
CaseRoutes(r, op) ==
  CASE op \in Decisions -> MoveRules(r, op) # {}
    [] op \in {"edit", "fill"} -> role \in {"OPERATOR", "ADMIN"} /\ r.status = "DRAFT" /\ Owner
    [] op = "delete" -> /\ role \in {"OPERATOR", "ADMIN"} /\ r.status = "DRAFT" /\ ~r.archived
                        /\ Owner
    [] op = "restore" -> role \in {"OPERATOR", "ADMIN"} /\ r.archived /\ Owner
    [] op = "pause" -> role \in {"MODERATOR", "DIRECTOR", "ADMIN"} /\ HasDeadline(r.status)
    [] op = "resume" -> role \in {"MODERATOR", "DIRECTOR", "ADMIN"}
    [] op = "katm" -> role \in {"DIRECTOR", "ADMIN"}
    [] op = "rate" -> /\ role \in {"MODERATOR", "ADMIN"} /\ r.status = "MODERATION" /\ traits.line
                      /\ role = "MODERATOR" => traits.inBranch
    [] op = "split" -> /\ role \in {"DIRECTOR", "ADMIN"} /\ r.status = "DIRECTOR_REVIEW"
                       /\ traits.line
    [] op = "requisites" -> ~r.signed /\ r.status \notin TerminalStatuses
    [] OTHER -> FALSE

SignRoute(r, op) == op = "sign" /\ \E t \in MoveRules(r, "APPROVE") : t.to = "FINALIZED"

\* output.controller
ExportRoutes(op) == op \in {"act", "excel"} /\ role = "ADMIN" /\ traits.pledged

\* case-documents.controller
DocumentRoutes(r, op) ==
  \/ op \in {"schedule", "reviewDoc"} /\ r.status # "DRAFT"
  \/ op = "approvedDoc" /\ Approved(r)

\* documents.controller
FileRoutes(op) == op \in {"scan", "upload", "ownFile"} \/ (op = "otherFile" /\ role = "ADMIN")

Accepts(r, op) ==
  CaseRoutes(r, op) \/ SignRoute(r, op) \/ ExportRoutes(op) \/ DocumentRoutes(r, op) \/ FileRoutes(op)

\* What an accepted request makes of the case; the other columns are elsewhere.
Effects(r, q) ==
  CASE q.op \in Decisions -> {[r EXCEPT !.status = t.to] : t \in MoveRules(r, q.op)}
    [] q.op = "sign" -> {[r EXCEPT !.status = "FINALIZED", !.signed = TRUE]}
    [] q.op = "delete" -> {[r EXCEPT !.archived = TRUE]}
    [] q.op = "restore" -> {[r EXCEPT !.archived = FALSE]}
    [] q.op = "requisites" -> {[r EXCEPT !.requisites = q.panel]}
    [] OTHER -> {r}

\* Mutant of PipelineStatuses: the list of a moderator or director begins after their own step.
PipelineStatusesLater == {"ADMIN_FINALIZE", "FINALIZED", "CANCELLED"}

PipelineStatuses == {"MODERATION", "DIRECTOR_REVIEW", "ADMIN_FINALIZE", "FINALIZED", "CANCELLED"}

\* list: the cases of the first page; inbox narrows them to the step of the role.
Listed(r, inbox) ==
  /\ ~r.archived
  /\ CASE role = "OPERATOR" -> traits.own
       [] role = "MODERATOR" -> /\ r.status \in IF inbox THEN {"MODERATION"} ELSE PipelineStatuses
                                /\ traits.inBranch
       [] role = "DIRECTOR" -> r.status \in IF inbox THEN {"DIRECTOR_REVIEW"} ELSE PipelineStatuses
       [] OTHER -> TRUE

\* search: scopeWhere and not archived.
Found(r) ==
  /\ ~r.archived
  /\ role = "OPERATOR" => traits.own
  /\ role = "MODERATOR" => traits.inBranch
  /\ role \in {"MODERATOR", "DIRECTOR"} => r.status \in PipelineStatuses

-----------------------------------------------------------------------------
(***************************************************************************)
(* The page at work.                                                       *)
(***************************************************************************)
Rendered == shown # NoCase /\ cache[shown] # NoCase

\* The requests of a page that is left answer to nobody.
Left == {[q EXCEPT !.mine = FALSE] : q \in sends}

\* Mutant of Enter: the page is not keyed by the path and stays mounted.
EnterUnkeyed(c) ==
  /\ c # shown
  /\ shown' = c /\ fetching' = fetching \union {c}
  /\ panel' = IF cache[c] = NoCase THEN NoCase
              ELSE IF panel # NoCase THEN panel ELSE cache[c].requisites
  /\ UNCHANGED <<user, row, cache, comment, sends, remarks, pressed, moved>>

\* A copy is shown at once and fetched again; a form begins with what the copy has.
Enter(c) ==
  /\ c # shown
  /\ shown' = c /\ fetching' = fetching \union {c}
  /\ panel' = IF cache[c] = NoCase THEN NoCase ELSE cache[c].requisites
  /\ comment' = NoCase
  /\ sends' = Left
  /\ UNCHANGED <<user, row, cache, remarks, pressed, moved>>

LeavePage ==
  /\ shown # NoCase
  /\ shown' = NoCase /\ panel' = NoCase /\ comment' = NoCase
  /\ sends' = Left
  /\ UNCHANGED <<user, row, cache, fetching, remarks, pressed, moved>>

\* A request that fails is one that never ends here: the page keeps the copy it has.
Fetched(c) ==
  /\ c \in fetching /\ fetching' = fetching \ {c}
  /\ cache' = [cache EXCEPT ![c] = row[c]]
  /\ panel' = IF shown = c /\ panel = NoCase THEN row[c].requisites ELSE panel
  /\ UNCHANGED <<user, row, shown, comment, sends, remarks, pressed, moved>>

TypeRequisites ==
  /\ Rendered /\ panel' = shown
  /\ UNCHANGED <<user, row, cache, shown, fetching, comment, sends, remarks, pressed, moved>>

TypeComment ==
  /\ Rendered /\ MyTransitions(cache[shown]) # {}
  /\ comment' = shown
  /\ UNCHANGED <<user, row, cache, shown, fetching, panel, sends, remarks, pressed, moved>>

\* A button waits for its own request; of two decisions only the later is known to be
\* under way, and only the cancel button waits for any of them.
Waits(op) ==
  \E q \in {p \in sends : p.mine} :
    IF op \in Decisions
    THEN q.latest /\ (q.op = op \/ op \in {"CANCEL", "REOPEN"})
    ELSE q.op = op /\ op \notin {"katm", "act", "excel", "schedule", "reviewDoc", "approvedDoc"}

Press(op) ==
  /\ pressed < MaxPressed /\ pressed' = pressed + 1
  /\ Rendered /\ op \in Offers(cache[shown]) /\ ~Waits(op)
  /\ LET earlier == IF op \in Decisions THEN {[q EXCEPT !.latest = FALSE] : q \in sends} ELSE sends
     IN sends' = earlier \union
          {[op |-> op, case |-> shown, seen |-> cache[shown].status,
            comment |-> IF op \in Decisions THEN comment ELSE NoCase,
            panel |-> IF op = "requisites" THEN panel ELSE NoCase,
            latest |-> op \in Decisions, mine |-> TRUE]}
  /\ UNCHANGED <<user, row, page, remarks, moved>>

\* onSuccess: the case is fetched again if a page shows it; a deletion leaves any page.
Refreshed(q) ==
  IF q.op = "delete"
  THEN /\ shown' = NoCase /\ panel' = NoCase /\ comment' = NoCase
       /\ sends' = {[p EXCEPT !.mine = FALSE] : p \in sends \ {q}}
       /\ UNCHANGED <<cache, fetching>>
  ELSE /\ sends' = sends \ {q}
       /\ fetching' = fetching \union ({q.case} \intersect {shown})
       /\ comment' = IF q.mine /\ q.op \in Decisions THEN NoCase ELSE comment
       /\ UNCHANGED <<cache, shown, panel>>

\* The server's handlers are one step here; a refusal is told, and nothing is fetched.
Serve(q) ==
  /\ q \in sends
  /\ \/ /\ Accepts(row[q.case], q.op)
        /\ \E r \in Effects(row[q.case], q) : row' = [row EXCEPT ![q.case] = r]
        /\ remarks' = IF q.comment = NoCase THEN remarks ELSE remarks \union {<<q.case, q.comment>>}
        /\ Refreshed(q) \/ (sends' = sends \ {q} /\ UNCHANGED page)  \* or the answer is lost
     \/ sends' = sends \ {q} /\ UNCHANGED <<row, remarks, page>>
  /\ UNCHANGED <<user, pressed, moved>>

\* Another user moves a case; the page is not told.
MoveElsewhere(c) ==
  /\ moved < MaxMoves /\ moved' = moved + 1
  /\ ~row[c].archived
  /\ \E t \in Transitions :
       /\ t.from = row[c].status
       /\ row' = [row EXCEPT ![c].status = t.to, ![c].signed = @ \/ t.to = "FINALIZED"]
  /\ UNCHANGED <<user, page, sends, remarks, pressed>>

-----------------------------------------------------------------------------
Next ==
  \/ LeavePage \/ TypeRequisites \/ TypeComment
  \/ \E c \in Cases : Enter(c) \/ Fetched(c) \/ MoveElsewhere(c)
  \/ \E op \in Tried : Press(op)
  \/ \E q \in sends : Serve(q)

Spec == Init /\ [][Next]_vars

-----------------------------------------------------------------------------
(***************************************************************************)
(* A decision takes effect only at the step it was offered for, however    *)
(* old the copy on the page and whatever was pressed before; cancelling    *)
(* and reopening are the same from any step (MyTransitions against         *)
(* findTransition on the server).                                          *)
(***************************************************************************)
ShownStepDecided ==
  [][\A q \in sends :
       /\ q \notin sends'
       /\ row'[q.case].status # row[q.case].status
       => q.seen = row[q.case].status \/ q.op \in {"CANCEL", "REOPEN"}]_vars

(***************************************************************************)
(* A case that waits for a decision of the user is in the list the user    *)
(* starts from and in the inbox, and whatever is listed can be searched    *)
(* for (list, scopeWhere, search against the buttons of the page).         *)
(***************************************************************************)
WorkIsFound ==
  \A c \in Cases :
    /\ Inline(row[c]) # {} /\ Owner /\ (role = "MODERATOR" => traits.inBranch) =>
         Listed(row[c], FALSE) /\ Listed(row[c], TRUE)
    /\ Listed(row[c], FALSE) => Found(row[c])

(***************************************************************************)
(* What is saved and said about a case was entered for that case, however  *)
(* fast the operator goes on to another one and whatever is answered late  *)
(* (the comment of a decision, DisbursementPanel).                         *)
(***************************************************************************)
OwnWords == /\ \A c \in Cases : row[c].requisites = c
            /\ \A x \in remarks : x[1] = x[2]
=============================================================================
