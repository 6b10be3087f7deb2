----------------------------- MODULE FormsProofs -----------------------------
(***************************************************************************)
(* Proofs about the page of a case, the credit line, the drafts of the     *)
(* wizard and its pledges, for any cases, users, sums, dates and bounds.   *)
(***************************************************************************)
EXTENDS MCForms, TLAPS

-----------------------------------------------------------------------------
(***************************************************************************)
(* Page of a case: types.  What is typed, copied and sent names the case   *)
(* it is of.                                                               *)
(***************************************************************************)
RowTypes == [status : V!Statuses, archived : BOOLEAN, signed : BOOLEAN, requisites : Cases]

SendTypes == [op : Tried, case : Cases, seen : V!Statuses, comment : Cases \union {NoCase},
              panel : Cases \union {NoCase}, latest : BOOLEAN, mine : BOOLEAN]

ViewTypes ==
  /\ role \in V!Roles
  /\ row \in [Cases -> RowTypes]
  /\ cache \in [Cases -> RowTypes \union {NoCase}]
  /\ shown \in Cases \union {NoCase} /\ fetching \subseteq Cases
  /\ panel \in Cases \union {NoCase} /\ comment \in Cases \union {NoCase}
  /\ sends \subseteq SendTypes

\* A copy is of its case, and so is what stands on the page.
PageInv ==
  /\ \A c \in Cases : row[c].requisites = c
  /\ \A c \in Cases : cache[c] # NoCase => cache[c].requisites = c
  /\ panel \in {NoCase, shown} /\ comment \in {NoCase, shown}
  /\ shown # NoCase /\ cache[shown] # NoCase => panel = shown

\* Some rule lets the user take the decision where a case is at that status.
Offered(at, op) ==
  /\ op \in V!Decisions => \E t \in V!Transitions : t.from = at /\ t.role = role /\ t.decision = op
  /\ op = "sign" => role = "DIRECTOR" /\ at = "DIRECTOR_REVIEW"

SendsInv ==
  \A q \in sends :
    /\ q.comment \in {NoCase, q.case}
    /\ q.op = "requisites" => q.panel = q.case
    /\ Offered(q.seen, q.op)

RemarksInv == \A x \in remarks : x[1] = x[2]

ViewInv == ViewTypes /\ PageInv /\ SendsInv /\ RemarksInv

LEMMA TableTypes ==
  \A t \in V!Transitions :
    /\ t.from \in V!Statuses /\ t.to \in V!Statuses /\ t.role \in V!Roles
    /\ t.decision \in {"SUBMIT", "APPROVE", "RETURN", "CANCEL", "REOPEN"}
BY DEF V!Transitions, V!Rule, V!Statuses, V!Roles

\* A role takes a decision at one status only, but for cancelling and reopening.
LEMMA OneStatus ==
  ASSUME NEW t \in V!Transitions, NEW u \in V!Transitions,
         t.role = u.role, t.decision = u.decision, t.decision \notin {"CANCEL", "REOPEN"}
  PROVE  t.from = u.from
BY DEF V!Transitions, V!Rule

\* Only the director's approval ends in the signature.
LEMMA SignedFrom ==
  ASSUME NEW t \in V!Transitions, t.role = "DIRECTOR", t.decision = "APPROVE"
  PROVE  t.from = "DIRECTOR_REVIEW"
BY DEF V!Transitions, V!Rule

LEMMA ViewRowWritten ==
  ASSUME NEW r \in RowTypes
  PROVE  /\ \A x \in V!Statuses : /\ [r EXCEPT !.status = x] \in RowTypes
                                  /\ [r EXCEPT !.status = x].requisites = r.requisites
                                  /\ [r EXCEPT !.status = x].status = x
         /\ \A x \in BOOLEAN : /\ [r EXCEPT !.archived = x] \in RowTypes
                               /\ [r EXCEPT !.archived = x].requisites = r.requisites
                               /\ [r EXCEPT !.archived = x].status = r.status
         /\ \A x \in V!Statuses, y \in BOOLEAN :
              /\ [r EXCEPT !.status = x, !.signed = y] \in RowTypes
              /\ [r EXCEPT !.status = x, !.signed = y].requisites = r.requisites
         /\ \A x \in Cases : /\ [r EXCEPT !.requisites = x] \in RowTypes
                             /\ [r EXCEPT !.requisites = x].requisites = x
                             /\ [r EXCEPT !.requisites = x].status = r.status
<1>1. \A x \in V!Statuses : /\ [r EXCEPT !.status = x] \in RowTypes
                            /\ [r EXCEPT !.status = x].requisites = r.requisites
                            /\ [r EXCEPT !.status = x].status = x
  BY DEF RowTypes
<1>2. \A x \in BOOLEAN : /\ [r EXCEPT !.archived = x] \in RowTypes
                         /\ [r EXCEPT !.archived = x].requisites = r.requisites
                         /\ [r EXCEPT !.archived = x].status = r.status
  BY DEF RowTypes
<1>3. ASSUME NEW x \in V!Statuses, NEW y \in BOOLEAN
      PROVE  /\ [r EXCEPT !.status = x, !.signed = y] \in RowTypes
             /\ [r EXCEPT !.status = x, !.signed = y].requisites = r.requisites
  BY DEF RowTypes
<1>4. \A x \in Cases : /\ [r EXCEPT !.requisites = x] \in RowTypes
                       /\ [r EXCEPT !.requisites = x].requisites = x
                       /\ [r EXCEPT !.requisites = x].status = r.status
  BY DEF RowTypes
<1> QED BY <1>1, <1>2, <1>3, <1>4

\* Requests that lose their page, or their turn, stay what they are.
LEMMA SendWritten ==
  ASSUME NEW q \in SendTypes, NEW x \in BOOLEAN
  PROVE  /\ [q EXCEPT !.mine = x] \in SendTypes /\ [q EXCEPT !.latest = x] \in SendTypes
         /\ \A p \in {[q EXCEPT !.mine = x], [q EXCEPT !.latest = x]} :
              /\ p.op = q.op /\ p.case = q.case /\ p.seen = q.seen
              /\ p.comment = q.comment /\ p.panel = q.panel
BY DEF SendTypes

\* What is sent goes on being right while the user is the same, whatever becomes of mine
\* and latest.
LEMMA SendsStay ==
  ASSUME ViewInv, UNCHANGED role,
         \A p \in sends' : \/ p \in sends
                           \/ \E q \in sends : p \in {[q EXCEPT !.mine = FALSE],
                                                      [q EXCEPT !.latest = FALSE]}
  PROVE  sends' \subseteq SendTypes /\ SendsInv'
<1>1. ASSUME NEW p \in sends'
      PROVE  /\ p \in SendTypes
             /\ p.comment \in {NoCase, p.case}
             /\ p.op = "requisites" => p.panel = p.case
             /\ Offered(p.seen, p.op)
  <2>1. CASE p \in sends
    BY <2>1 DEF ViewInv, ViewTypes, SendsInv
  <2>2. ASSUME NEW q \in sends, p \in {[q EXCEPT !.mine = FALSE], [q EXCEPT !.latest = FALSE]}
        PROVE  /\ p \in SendTypes /\ p.op = q.op /\ p.case = q.case /\ p.seen = q.seen
               /\ p.comment = q.comment /\ p.panel = q.panel
    BY <2>2, SendWritten DEF ViewInv, ViewTypes
  <2> QED BY <1>1, <2>1, <2>2 DEF ViewInv, SendsInv
<1>2. ASSUME NEW x, NEW y, Offered(x, y) PROVE Offered(x, y)'
  BY <1>2 DEF Offered
<1> QED BY <1>1, <1>2 DEF SendsInv

LEMMA InitView ==
  ASSUME V!ViewAssumption, V!Init
  PROVE  ViewInv
<1>1. ASSUME NEW c \in Cases PROVE row[c] \in RowTypes
  <2>1. PICK d \in Cases, s \in V!Statuses, a \in BOOLEAN : row[c] = V!Row(d, s, a)
    BY DEF V!Init
  <2> QED BY <2>1 DEF V!Row, RowTypes
<1>2. row \in [Cases -> RowTypes]
  BY <1>1 DEF V!Init
<1> QED BY <1>2 DEF V!Init, ViewInv, ViewTypes, PageInv, SendsInv, RemarksInv

\* The page is entered, filled and left; nothing is sent or answered.
LEMMA BrowseStep ==
  ASSUME V!ViewAssumption, ViewInv,
         V!LeavePage \/ V!TypeRequisites \/ V!TypeComment
         \/ \E c \in Cases : V!Enter(c) \/ V!Fetched(c)
  PROVE  ViewInv'
<1>a. UNCHANGED <<role, row, remarks>> /\ UNCHANGED V!user
  BY DEF V!LeavePage, V!TypeRequisites, V!TypeComment, V!Enter, V!Fetched, V!user
<1>b. sends' \subseteq SendTypes /\ SendsInv' /\ RemarksInv'
  <2>1. sends' \in {sends, V!Left}
    BY DEF V!LeavePage, V!TypeRequisites, V!TypeComment, V!Enter, V!Fetched
  <2>2. \A p \in sends' : p \in sends \/ \E q \in sends : p = [q EXCEPT !.mine = FALSE]
    BY <2>1 DEF V!Left
  <2> QED BY <1>a, <2>2, SendsStay DEF ViewInv, RemarksInv
<1>c. NoCase \notin Cases
  BY DEF V!ViewAssumption
<1> DEFINE Paged == /\ cache' \in [Cases -> RowTypes \union {NoCase}]
                    /\ shown' \in Cases \union {NoCase} /\ fetching' \subseteq Cases
                    /\ panel' \in Cases \union {NoCase} /\ comment' \in Cases \union {NoCase}
                    /\ PageInv'
<1>1. ASSUME V!LeavePage PROVE Paged
  BY <1>1, <1>a DEF V!LeavePage, ViewInv, ViewTypes, PageInv
<1>2. ASSUME V!TypeRequisites PROVE Paged
  BY <1>2, <1>a DEF V!TypeRequisites, V!Rendered, ViewInv, ViewTypes, PageInv
<1>3. ASSUME V!TypeComment PROVE Paged
  BY <1>3, <1>a DEF V!TypeComment, V!Rendered, ViewInv, ViewTypes, PageInv
<1>4. ASSUME NEW c \in Cases, V!Enter(c) PROVE Paged
  BY <1>4, <1>a, <1>c DEF V!Enter, ViewInv, ViewTypes, PageInv
<1>5. ASSUME NEW c \in Cases, V!Fetched(c) PROVE Paged
  BY <1>5, <1>a, <1>c DEF V!Fetched, ViewInv, ViewTypes, PageInv
<1>6. Paged
  BY <1>1, <1>2, <1>3, <1>4, <1>5
<1> QED BY <1>a, <1>b, <1>6 DEF ViewInv, ViewTypes

\* Another user moves a case: its requisites stay.
LEMMA ElsewhereStep ==
  ASSUME V!ViewAssumption, ViewInv, NEW c \in Cases, V!MoveElsewhere(c)
  PROVE  ViewInv'
<1>1. PICK t \in V!Transitions :
        row' = [row EXCEPT ![c].status = t.to, ![c].signed = @ \/ t.to = "FINALIZED"]
  BY DEF V!MoveElsewhere
<1>2. UNCHANGED <<role, cache, shown, fetching, panel, comment, sends, remarks>>
  BY DEF V!MoveElsewhere, V!user, V!page
<1>3. PICK y \in BOOLEAN : y = (row[c].signed \/ t.to = "FINALIZED")
  BY Zenon
<1>4. row' = [row EXCEPT ![c] = [row[c] EXCEPT !.status = t.to, !.signed = y]]
  BY <1>1, <1>3
<1>5. row[c] \in RowTypes /\ t.to \in V!Statuses
  BY TableTypes DEF ViewInv, ViewTypes
<1> DEFINE r == [row[c] EXCEPT !.status = t.to, !.signed = y]
<1>6. r \in RowTypes /\ r.requisites = row[c].requisites
  BY <1>5, ViewRowWritten
<1>a. row' = [row EXCEPT ![c] = r]
  BY <1>4
<1> HIDE DEF r
<1>7. row' \in [Cases -> RowTypes] /\ \A d \in Cases : row'[d].requisites = d
  BY <1>a, <1>6 DEF ViewInv, ViewTypes, PageInv
<1>8. SendsInv' /\ sends' \subseteq SendTypes
  BY <1>2, SendsStay
<1> QED BY <1>2, <1>7, <1>8 DEF ViewInv, ViewTypes, PageInv, RemarksInv

\* What a page offers for a copy is offered by a rule.
LEMMA OffersOffered ==
  ASSUME NEW v \in RowTypes, NEW op \in V!Offers(v)
  PROVE  Offered(v.status, op)
<1>b. /\ V!HeaderOffers(v) \subseteq {"edit", "delete", "restore"}
      /\ V!CaptureOffers(v) \subseteq {"fill", "rate", "split"}
      /\ V!ExportOffers(v) \subseteq {"katm", "act", "excel", "schedule"}
      /\ V!ScanOffers(v) \subseteq {"scan"}
      /\ V!FileOffers(v) \subseteq {"upload", "ownFile", "otherFile"}
      /\ V!DocumentOffers(v) \subseteq {"reviewDoc", "approvedDoc"}
  BY DEF V!HeaderOffers, V!ExportOffers, V!CaptureOffers, V!ScanOffers, V!FileOffers,
     V!UploadOffers, V!ManageOffers, V!DocumentOffers
<1>a. V!StepOffers(v) \subseteq V!MyTransitions(v)
                                   \union (IF V!IsDirectorReview(v) THEN {"sign"} ELSE {})
                                   \union {"pause", "resume"}
  BY DEF V!StepOffers, V!PauseOffers, V!Inline, V!CancelDialog
<1>1. CASE op \in V!Decisions
  <2>1. op \in V!MyTransitions(v)
    <3>1. op \in {"SUBMIT", "APPROVE", "RETURN", "FINALIZE", "CANCEL", "REOPEN"}
      BY <1>1 DEF V!Decisions
    <3>2. op \in V!StepOffers(v)
      BY <1>b, <3>1 DEF V!Offers
    <3> QED BY <1>a, <3>1, <3>2
  <2>2. op # "sign"
    BY <1>1 DEF V!Decisions
  <2> QED BY <2>1, <2>2 DEF V!MyTransitions, Offered
<1>2. CASE op = "sign"
  <2>1. \A t \in V!Transitions : t.decision # "sign"
    BY TableTypes
  <2>2. "sign" \notin V!MyTransitions(v)
    BY <2>1 DEF V!MyTransitions
  <2>3. V!IsDirectorReview(v)
    BY <1>2, <1>b, <1>a, <2>2 DEF V!Offers
  <2>4. "sign" \notin V!Decisions
    BY DEF V!Decisions
  <2> QED BY <1>2, <2>3, <2>4 DEF V!IsDirectorReview, Offered
<1> QED BY <1>1, <1>2 DEF Offered

\* A button sends what the page shows and holds.
LEMMA PressStep ==
  ASSUME V!ViewAssumption, ViewInv, NEW op \in Tried, V!Press(op)
  PROVE  ViewInv'
<1> DEFINE new == [op |-> op, case |-> shown, seen |-> cache[shown].status,
                   comment |-> IF op \in V!Decisions THEN comment ELSE NoCase,
                   panel |-> IF op = "requisites" THEN panel ELSE NoCase,
                   latest |-> op \in V!Decisions, mine |-> TRUE]
           earlier == IF op \in V!Decisions THEN {[q EXCEPT !.latest = FALSE] : q \in sends}
                      ELSE sends
<1>1. sends' = earlier \union {new}
  BY DEF V!Press
<1>2. UNCHANGED <<role, row, cache, shown, fetching, panel, comment, remarks>>
  BY DEF V!Press, V!user, V!page
<1>3. shown \in Cases /\ cache[shown] \in RowTypes /\ op \in V!Offers(cache[shown])
  BY DEF V!Press, V!Rendered, ViewInv, ViewTypes
<1>4. /\ panel = shown /\ comment \in {NoCase, shown}
      /\ Offered(cache[shown].status, op)
      /\ cache[shown].status \in V!Statuses
  BY <1>3, OffersOffered DEF V!Press, V!Rendered, ViewInv, PageInv, RowTypes
<1>5. (op \in V!Decisions) \in BOOLEAN
  OBVIOUS
<1>6. /\ new \in SendTypes /\ new.op = op /\ new.seen = cache[shown].status
      /\ new.comment \in {NoCase, new.case}
      /\ new.op = "requisites" => new.panel = new.case
  BY <1>3, <1>4, <1>5 DEF SendTypes
<1> HIDE DEF new
<1>7. ASSUME NEW x, NEW y, Offered(x, y) PROVE Offered(x, y)'
  BY <1>2, <1>7 DEF Offered
<1>8. ASSUME NEW p \in earlier
      PROVE  /\ p \in SendTypes
             /\ p.comment \in {NoCase, p.case}
             /\ p.op = "requisites" => p.panel = p.case
             /\ Offered(p.seen, p.op)
  <2>1. CASE p \in sends
    BY <2>1 DEF ViewInv, ViewTypes, SendsInv
  <2>2. ASSUME NEW q \in sends, p = [q EXCEPT !.latest = FALSE]
        PROVE  /\ p \in SendTypes /\ p.op = q.op /\ p.case = q.case /\ p.seen = q.seen
               /\ p.comment = q.comment /\ p.panel = q.panel
    BY <2>2, SendWritten DEF ViewInv, ViewTypes
  <2> QED BY <2>1, <2>2 DEF ViewInv, SendsInv
<1> HIDE DEF earlier
<1>9. sends' \subseteq SendTypes /\ SendsInv'
  BY <1>1, <1>2, <1>4, <1>6, <1>7, <1>8 DEF SendsInv
<1> QED BY <1>2, <1>9 DEF ViewInv, ViewTypes, PageInv, RemarksInv

\* What an accepted request makes of a case: its requisites are those entered for it, and
\* its status moves only where the request was offered, or by cancelling and reopening.
LEMMA EffectsAgree ==
  ASSUME V!ViewAssumption, ViewInv, NEW q \in sends, V!Accepts(row[q.case], q.op),
         NEW s \in V!Effects(row[q.case], q)
  PROVE  /\ s \in RowTypes /\ s.requisites = q.case
         /\ s.status # row[q.case].status =>
              q.seen = row[q.case].status \/ q.op \in {"CANCEL", "REOPEN"}
<1> DEFINE r == row[q.case]
<1>1. /\ q \in SendTypes /\ q.case \in Cases /\ r \in RowTypes /\ r.requisites = q.case
      /\ Offered(q.seen, q.op) /\ (q.op = "requisites" => q.panel = q.case)
  BY DEF ViewInv, ViewTypes, PageInv, SendsInv, SendTypes
<1> HIDE DEF r
<1>2. V!Decisions = {"SUBMIT", "APPROVE", "RETURN", "FINALIZE", "CANCEL", "REOPEN"}
  BY DEF V!Decisions
<1>3. CASE q.op \in V!Decisions
  <2>1. V!Effects(r, q) = {[r EXCEPT !.status = t.to] : t \in V!MoveRules(r, q.op)}
    BY <1>2, <1>3 DEF V!Effects
  <2>2. PICK t \in V!MoveRules(r, q.op) : s = [r EXCEPT !.status = t.to]
    BY <2>1 DEF r
  <2>3. /\ t \in V!Transitions /\ t.from = r.status /\ t.role = role /\ t.decision = q.op
        /\ t.to \in V!Statuses
    BY <2>2, TableTypes DEF V!MoveRules, V!FindTransition
  <2>4. PICK u \in V!Transitions : u.from = q.seen /\ u.role = role /\ u.decision = q.op
    BY <1>1, <1>3 DEF Offered
  <2>5. q.op \notin {"CANCEL", "REOPEN"} => q.seen = r.status
    BY <2>3, <2>4, OneStatus
  <2>6. s \in RowTypes /\ s.requisites = r.requisites
    BY <1>1, <2>2, <2>3, ViewRowWritten
  <2> QED BY <1>1, <2>5, <2>6 DEF r
<1>4. CASE q.op = "sign"
  <2>1. V!Effects(r, q) = {[r EXCEPT !.status = "FINALIZED", !.signed = TRUE]}
    BY <1>2, <1>4 DEF V!Effects
  <2>2. s = [r EXCEPT !.status = "FINALIZED", !.signed = TRUE]
    BY <2>1 DEF r
  <2>3. s \in RowTypes /\ s.requisites = r.requisites
    <3>1. "FINALIZED" \in V!Statuses
      BY DEF V!Statuses
    <3> QED BY <1>1, <2>2, <3>1, ViewRowWritten
  <2>4. \E t \in V!MoveRules(r, "APPROVE") : t.to = "FINALIZED"
    <3>1. ~V!CaseRoutes(r, q.op) /\ ~V!ExportRoutes(q.op) /\ ~V!DocumentRoutes(r, q.op)
          /\ ~V!FileRoutes(q.op)
      BY <1>2, <1>4 DEF V!CaseRoutes, V!ExportRoutes, V!DocumentRoutes, V!FileRoutes
    <3> QED BY <3>1 DEF V!Accepts, V!SignRoute, r
  <2>5. role = "DIRECTOR" /\ q.seen = "DIRECTOR_REVIEW"
    BY <1>1, <1>4 DEF Offered
  <2>6. r.status = "DIRECTOR_REVIEW"
    BY <2>4, <2>5, SignedFrom DEF V!MoveRules, V!FindTransition
  <2> QED BY <1>1, <2>3, <2>5, <2>6 DEF r
<1>5. CASE q.op \in {"delete", "restore"}
  <2>1. PICK x \in BOOLEAN : s = [r EXCEPT !.archived = x]
    BY <1>2, <1>5 DEF V!Effects, r
  <2>2. s \in RowTypes /\ s.requisites = r.requisites /\ s.status = r.status
    BY <1>1, <2>1 DEF RowTypes
  <2> QED BY <1>1, <2>2 DEF r
<1>6. CASE q.op = "requisites"
  <2>1. s = [r EXCEPT !.requisites = q.case]
    BY <1>1, <1>2, <1>6 DEF V!Effects, r
  <2> QED BY <1>1, <2>1, ViewRowWritten DEF r
<1>7. CASE q.op \notin V!Decisions \union {"sign", "delete", "restore", "requisites"}
  <2>1. s = r
    BY <1>7 DEF V!Effects, r
  <2> QED BY <1>1, <2>1 DEF r
<1> QED BY <1>3, <1>4, <1>5, <1>6, <1>7

\* The server answers, or its answer is lost.
LEMMA ServeStep ==
  ASSUME V!ViewAssumption, ViewInv, NEW q \in sends, V!Serve(q)
  PROVE  ViewInv'
<1>a. UNCHANGED role
  BY DEF V!Serve, V!user
<1>b. NoCase \notin Cases /\ q \in SendTypes /\ q.case \in Cases
      /\ q.comment \in {NoCase, q.case}
  BY DEF V!ViewAssumption, ViewInv, ViewTypes, SendTypes, SendsInv
<1>1. /\ row' \in [Cases -> RowTypes] /\ \A c \in Cases : row'[c].requisites = c
  <2>1. CASE UNCHANGED row
    BY <2>1 DEF ViewInv, ViewTypes, PageInv
  <2>2. ASSUME NEW s \in V!Effects(row[q.case], q), V!Accepts(row[q.case], q.op),
               row' = [row EXCEPT ![q.case] = s]
        PROVE  /\ row' \in [Cases -> RowTypes] /\ \A c \in Cases : row'[c].requisites = c
    BY <1>b, <2>2, EffectsAgree DEF ViewInv, ViewTypes, PageInv
  <2> QED BY <2>1, <2>2 DEF V!Serve
<1>2. RemarksInv'
  <2>1. remarks' = remarks \/ (q.comment # NoCase /\ remarks' = remarks \union {<<q.case, q.comment>>})
    BY DEF V!Serve
  <2> QED BY <1>b, <2>1 DEF ViewInv, RemarksInv
<1>3. \/ V!Refreshed(q)
      \/ sends' = sends \ {q} /\ UNCHANGED <<cache, shown, fetching, panel, comment>>
  BY DEF V!Serve, V!page
<1>4. sends' \subseteq SendTypes /\ SendsInv'
  <2>1. \A p \in sends' : p \in sends \/ \E o \in sends : p = [o EXCEPT !.mine = FALSE]
    BY <1>3 DEF V!Refreshed
  <2> QED BY <1>a, <2>1, SendsStay
<1>5. UNCHANGED cache /\ fetching' \subseteq Cases
      /\ \/ UNCHANGED <<shown, panel>> /\ comment' \in {NoCase, comment}
         \/ shown' = NoCase /\ panel' = NoCase /\ comment' = NoCase
  BY <1>3 DEF V!Refreshed, ViewInv, ViewTypes
<1>6. PageInv'
  BY <1>1, <1>5 DEF ViewInv, PageInv
<1> QED BY <1>1, <1>2, <1>4, <1>5, <1>6, <1>a DEF ViewInv, ViewTypes

LEMMA ViewStep ==
  ASSUME V!ViewAssumption, ViewInv, [FormsNext]_formsVars
  PROVE  ViewInv'
<1>1. V!Next \/ UNCHANGED vVars
  BY DEF FormsNext, formsVars
<1>2. CASE V!Next
  BY <1>2, BrowseStep, ElsewhereStep, PressStep, ServeStep DEF V!Next
<1>3. CASE UNCHANGED vVars
  BY <1>3 DEF vVars, ViewInv, ViewTypes, PageInv, SendsInv, Offered, RemarksInv
<1> QED BY <1>1, <1>2, <1>3

-----------------------------------------------------------------------------
\* The invariant of the page holds in every reachable state: what is typed, copied and
\* sent names the case it is of, and what was pressed had been offered.
THEOREM ViewInductive ==
  ASSUME V!ViewAssumption
  PROVE  FormsSpec => []ViewInv
<1>1. FormsInit => ViewInv
  BY InitView DEF FormsInit
<1> QED BY <1>1, ViewStep, PTL DEF FormsSpec

\* What is saved and said about a case was entered for that case, however fast the user goes
\* from one to another and whatever is answered late (the page is keyed by its path), for
\* any cases and any number of requests on their way.
THEOREM WordsAreOwn ==
  ASSUME V!ViewAssumption
  PROVE  FormsSpec => []OwnWords
<1>1. ViewInv => OwnWords
  BY DEF ViewInv, PageInv, RemarksInv, OwnWords, V!OwnWords
<1> QED BY <1>1, ViewInductive, PTL

\* A decision takes effect only at the step it was offered for, however old the copy on the
\* page; only cancelling and reopening are the same from any step (MyTransitions against
\* findTransition).
THEOREM DecidedAsShown ==
  ASSUME V!ViewAssumption
  PROVE  FormsSpec => ShownStepDecided
<1> DEFINE Decided == \A q \in sends :
                        /\ q \notin sends'
                        /\ row'[q.case].status # row[q.case].status
                        => q.seen = row[q.case].status \/ q.op \in {"CANCEL", "REOPEN"}
<1>1. ASSUME ViewInv, [FormsNext]_formsVars PROVE [Decided]_V!vars
  <2> SUFFICES ASSUME NEW q \in sends, q \notin sends',
                      row'[q.case].status # row[q.case].status
               PROVE  q.seen = row[q.case].status \/ q.op \in {"CANCEL", "REOPEN"}
    OBVIOUS
  <2>1. V!Next
    BY <1>1 DEF FormsNext, formsVars, vVars
  <2>2. q.case \in Cases
    BY <1>1 DEF ViewInv, ViewTypes, SendTypes
  <2>3. PICK p \in sends : V!Serve(p)
    BY <2>1 DEF V!Next, V!LeavePage, V!TypeRequisites, V!TypeComment, V!Enter, V!Fetched,
       V!MoveElsewhere, V!Press
  <2>4. PICK s \in V!Effects(row[p.case], p) :
          V!Accepts(row[p.case], p.op) /\ row' = [row EXCEPT ![p.case] = s]
    BY <2>3 DEF V!Serve
  <2>5. p.case \in Cases
    BY <1>1 DEF ViewInv, ViewTypes, SendTypes
  <2>6. q.case = p.case /\ s.status # row[p.case].status
    BY <1>1, <2>2, <2>4, <2>5 DEF ViewInv, ViewTypes
  <2>7. p.op # "delete"
    <3>1. ASSUME p.op = "delete" PROVE FALSE
      <4>1. s = [row[p.case] EXCEPT !.archived = TRUE]
        BY <2>4, <3>1 DEF V!Effects, V!Decisions
      <4>2. s.status = row[p.case].status
        BY <1>1, <2>5, <4>1, ViewRowWritten DEF ViewInv, ViewTypes
      <4> QED BY <2>6, <4>2
    <3> QED BY <3>1
  <2>8. sends' = sends \ {p}
    BY <2>3, <2>7 DEF V!Serve, V!Refreshed
  <2>9. q = p
    BY <2>8
  <2> QED BY <1>1, <2>4, <2>6, <2>9, EffectsAgree
<1> QED BY <1>1, ViewInductive, PTL DEF FormsSpec, ShownStepDecided, V!ShownStepDecided

\* A case that waits for a decision of the user is in the list the user starts from and in
\* the inbox, and whatever is listed can be searched for, for any cases, whoever the user is
\* and whatever others do.
THEOREM WorkIsAlwaysFound ==
  ASSUME V!ViewAssumption
  PROVE  FormsSpec => []WorkIsFound
<1>1. ViewInv => WorkIsFound
  <2> SUFFICES ASSUME ViewInv, NEW c \in Cases
               PROVE  /\ /\ V!Inline(row[c]) # {} /\ V!Owner
                         /\ role = "MODERATOR" => traits.inBranch
                         => V!Listed(row[c], FALSE) /\ V!Listed(row[c], TRUE)
                      /\ V!Listed(row[c], FALSE) => V!Found(row[c])
    BY DEF WorkIsFound, V!WorkIsFound
  <2>1. role \in V!Roles
    BY DEF ViewInv, ViewTypes
  <2>2. ASSUME V!Inline(row[c]) # {}
        PROVE  /\ ~row[c].archived
               /\ role = "MODERATOR" => row[c].status = "MODERATION"
               /\ role = "DIRECTOR" => row[c].status = "DIRECTOR_REVIEW"
    <3>1. PICK t \in V!Transitions : /\ t.from = row[c].status /\ t.role = role
                                     /\ t.decision \notin {"CANCEL", "REOPEN"}
                                     /\ ~row[c].archived
      BY <2>2 DEF V!Inline, V!MyTransitions
    <3> QED BY <3>1 DEF V!Transitions, V!Rule
  <2>3. ASSUME V!Inline(row[c]) # {}, V!Owner, role = "MODERATOR" => traits.inBranch
        PROVE  V!Listed(row[c], FALSE) /\ V!Listed(row[c], TRUE)
    BY <2>1, <2>2, <2>3 DEF V!Owner, V!Listed, V!PipelineStatuses, V!Roles
  <2>4. V!Listed(row[c], FALSE) => V!Found(row[c])
    BY <2>1 DEF V!Listed, V!Found, V!Roles
  <2> QED BY <2>3, <2>4
<1> QED BY <1>1, ViewInductive, PTL

-----------------------------------------------------------------------------
(***************************************************************************)
(* The credit line in the wizard.  Each rule of what follows is kept by    *)
(* whatever is typed, by every step shown and by what the server stores.   *)
(***************************************************************************)
LineShape(l) ==
  l = [auto |-> l.auto, polis |-> l.polis, total |-> l.total, type |-> l.type, date |-> l.date,
       term |-> l.term, maturity |-> l.maturity, rate |-> l.rate, insured |-> l.insured,
       loanUnderPolicy |-> l.loanUnderPolicy, tranche |-> l.tranche]

TrancheShape(t) ==
  t = [principal |-> t.principal, method |-> t.method, term |-> t.term, monthly |-> t.monthly,
       no |-> t.no, applied |-> t.applied, payDay |-> t.payDay]

Ends(l) == L!Or0(l.term) # 0 => l.date # Null /\ l.maturity = L!Maturity(l)

FromSplit(l) == /\ l.total = L!OrNull(L!Or0(l.auto) + L!Or0(l.polis))
                /\ l.type = L!LoanTypeFor(l.total)

Covered(l) == l.loanUnderPolicy = l.polis

Paid(t) == t.applied # Null => t.payDay = L!PaymentDayFor(t.applied)

LineOk(l) == /\ LineShape(l) /\ TrancheShape(l.tranche)
             /\ Ends(l) /\ FromSplit(l) /\ Covered(l) /\ Paid(l.tranche)

LinesInv == LineOk(lLine) /\ LineOk(saved) /\ day \in Today .. LastDay

\* A line keeps its columns when one of them is set.
LEMMA ColumnSet ==
  ASSUME NEW l, LineShape(l), NEW x
  PROVE  /\ LineShape([l EXCEPT !.auto = x]) /\ LineShape([l EXCEPT !.polis = x])
         /\ LineShape([l EXCEPT !.total = x]) /\ LineShape([l EXCEPT !.type = x])
         /\ LineShape([l EXCEPT !.date = x]) /\ LineShape([l EXCEPT !.term = x])
         /\ LineShape([l EXCEPT !.maturity = x]) /\ LineShape([l EXCEPT !.rate = x])
         /\ LineShape([l EXCEPT !.insured = x]) /\ LineShape([l EXCEPT !.loanUnderPolicy = x])
         /\ LineShape([l EXCEPT !.tranche = x])
<1>1. LineShape([l EXCEPT !.auto = x]) /\ LineShape([l EXCEPT !.polis = x])
  BY DEF LineShape
<1>2. LineShape([l EXCEPT !.total = x]) /\ LineShape([l EXCEPT !.type = x])
  BY DEF LineShape
<1>3. LineShape([l EXCEPT !.date = x]) /\ LineShape([l EXCEPT !.term = x])
  BY DEF LineShape
<1>4. LineShape([l EXCEPT !.maturity = x]) /\ LineShape([l EXCEPT !.rate = x])
  BY DEF LineShape
<1>5. LineShape([l EXCEPT !.insured = x]) /\ LineShape([l EXCEPT !.loanUnderPolicy = x])
  BY DEF LineShape
<1>6. LineShape([l EXCEPT !.tranche = x])
  BY DEF LineShape
<1> QED BY <1>1, <1>2, <1>3, <1>4, <1>5, <1>6

\* The first of two values that is one.
LEMMA FirstOfTwo ==
  ASSUME NEW x, NEW y
  PROVE  L!First(<<x, y>>) = IF x # Null THEN x ELSE y
BY DEF L!First

\* setLine: after the split was typed the total and the kind of loan follow.
LEMMA SplitOk ==
  ASSUME NEW l, LineShape(l), TrancheShape(l.tranche), Ends(l), Covered(l), Paid(l.tranche)
  PROVE  LineOk(L!Split(l))
<1> DEFINE total == L!OrNull(L!Or0(l.auto) + L!Or0(l.polis))
           type == L!LoanTypeFor(total)
           m == [l EXCEPT !.total = total, !.type = type]
<1>1. L!Split(l) = m
  BY DEF L!Split
<1> HIDE DEF total, type
<1>2. m = [[l EXCEPT !.total = total] EXCEPT !.type = type]
  OBVIOUS
<1>3. LineShape(m)
  BY <1>2, ColumnSet
<1>4. /\ m.total = total /\ m.type = type /\ m.auto = l.auto /\ m.polis = l.polis
      /\ m.loanUnderPolicy = l.loanUnderPolicy /\ m.tranche = l.tranche
      /\ m.date = l.date /\ m.term = l.term /\ m.maturity = l.maturity
  BY DEF LineShape
<1> HIDE DEF m
<1>5. Ends(m)
  BY <1>4 DEF Ends, L!Maturity
<1>6. FromSplit(m)
  BY <1>4 DEF FromSplit, total, type
<1> QED BY <1>1, <1>3, <1>4, <1>5, <1>6 DEF LineOk, Covered

\* With a date the maturity follows from date and term.
LEMMA MaturedOk ==
  ASSUME NEW l, LineShape(l), TrancheShape(l.tranche), FromSplit(l), Covered(l), Paid(l.tranche),
         l.date # Null
  PROVE  LineOk(L!Matured(l))
<1>1. CASE L!Or0(l.term) = 0
  BY <1>1 DEF L!Matured, LineOk, Ends
<1>2. CASE L!Or0(l.term) # 0
  <2> DEFINE m == [l EXCEPT !.maturity = L!Maturity(l)]
  <2>1. L!Matured(l) = m
    BY <1>2 DEF L!Matured
  <2>2. LineShape(m)
    BY ColumnSet
  <2>3. /\ m.total = l.total /\ m.type = l.type /\ m.auto = l.auto /\ m.polis = l.polis
        /\ m.loanUnderPolicy = l.loanUnderPolicy /\ m.tranche = l.tranche
        /\ m.date = l.date /\ m.term = l.term /\ m.maturity = L!Maturity(l)
    BY DEF LineShape
  <2> HIDE DEF m
  <2>4. Ends(m)
    BY <2>3 DEF Ends, L!Maturity
  <2> QED BY <2>1, <2>2, <2>3, <2>4 DEF LineOk, FromSplit, Covered
<1> QED BY <1>1, <1>2

\* The effect of the step leaves a line that ends its term after its date.
LEMMA LineEffectOk ==
  ASSUME L!LinesAssumption, day \in Today .. LastDay,
         NEW l, LineShape(l), TrancheShape(l.tranche), FromSplit(l), Covered(l), Paid(l.tranche)
  PROVE  LineOk(L!LineEffect(l))
<1>1. CASE l.date # Null
  BY <1>1, MaturedOk DEF L!LineEffect
<1>2. CASE l.date = Null
  <2> DEFINE m == [l EXCEPT !.date = L!Now]
  <2>1. L!LineEffect(l) = L!Matured(m)
    BY <1>2 DEF L!LineEffect
  <2>2. LineShape(m)
    BY ColumnSet
  <2>3. /\ m.total = l.total /\ m.type = l.type /\ m.auto = l.auto /\ m.polis = l.polis
        /\ m.loanUnderPolicy = l.loanUnderPolicy /\ m.tranche = l.tranche /\ m.date = L!Now
    BY DEF LineShape
  <2>4. L!Now # Null
    BY DEF L!Now, L!LinesAssumption
  <2> HIDE DEF m
  <2> QED BY <2>1, <2>2, <2>3, <2>4, MaturedOk DEF FromSplit, Covered
<1> QED BY <1>1, <1>2

\* A field typed in the step of the line.
LEMMA TypedLineOk ==
  ASSUME L!LinesAssumption, LinesInv, NEW m \in L!TypedLines
  PROVE  LineOk(m)
<1> DEFINE l == lLine
<1>a. LineOk(l) /\ day \in Today .. LastDay
  BY DEF LinesInv
<1> HIDE DEF l
<1>1. ASSUME NEW x PROVE LineOk(L!Split([l EXCEPT !.auto = x]))
  <2> DEFINE n == [l EXCEPT !.auto = x]
  <2>1. LineShape(n)
    BY <1>a, ColumnSet DEF LineOk
  <2>2. /\ n.loanUnderPolicy = l.loanUnderPolicy /\ n.polis = l.polis /\ n.tranche = l.tranche
        /\ n.date = l.date /\ n.term = l.term /\ n.maturity = l.maturity
    BY <1>a DEF LineOk, LineShape
  <2> HIDE DEF n
  <2>3. Ends(n) /\ Covered(n) /\ Paid(n.tranche) /\ TrancheShape(n.tranche)
    BY <1>a, <2>2 DEF LineOk, Ends, L!Maturity, Covered
  <2> QED BY <2>1, <2>3, SplitOk DEF n
<1>2. ASSUME NEW x PROVE LineOk(L!Split([l EXCEPT !.polis = x, !.loanUnderPolicy = x]))
  <2> DEFINE n == [l EXCEPT !.polis = x, !.loanUnderPolicy = x]
  <2>1. n = [[l EXCEPT !.polis = x] EXCEPT !.loanUnderPolicy = x]
    OBVIOUS
  <2>2. LineShape(n)
    BY <1>a, <2>1, ColumnSet DEF LineOk
  <2>3. /\ n.loanUnderPolicy = x /\ n.polis = x /\ n.tranche = l.tranche
        /\ n.date = l.date /\ n.term = l.term /\ n.maturity = l.maturity
    BY <1>a DEF LineOk, LineShape
  <2> HIDE DEF n
  <2>4. Ends(n) /\ Covered(n) /\ Paid(n.tranche) /\ TrancheShape(n.tranche)
    BY <1>a, <2>3 DEF LineOk, Ends, L!Maturity, Covered
  <2> QED BY <2>2, <2>4, SplitOk DEF n
<1>3. ASSUME NEW n, LineShape(n),
             n.loanUnderPolicy = l.loanUnderPolicy, n.polis = l.polis, n.tranche = l.tranche,
             n.auto = l.auto, n.total = l.total, n.type = l.type
      PROVE  LineOk(L!LineEffect(n))
  <2>1. FromSplit(n) /\ Covered(n) /\ Paid(n.tranche) /\ TrancheShape(n.tranche)
    BY <1>a, <1>3 DEF LineOk, FromSplit, Covered
  <2> QED BY <1>a, <1>3, <2>1, LineEffectOk
<1>4. ASSUME NEW x PROVE LineOk(L!LineEffect([l EXCEPT !.term = x]))
  <2> DEFINE n == [l EXCEPT !.term = x]
  <2>1. LineShape(n)
    BY <1>a, ColumnSet DEF LineOk
  <2>2. /\ n.loanUnderPolicy = l.loanUnderPolicy /\ n.polis = l.polis /\ n.tranche = l.tranche
        /\ n.auto = l.auto /\ n.total = l.total /\ n.type = l.type
    BY <1>a DEF LineOk, LineShape
  <2> HIDE DEF n
  <2>3. LineOk(L!LineEffect(n))
    BY <2>1, <2>2, <1>3
  <2> QED BY <2>3 DEF n
<1>5. ASSUME NEW x PROVE LineOk(L!LineEffect([l EXCEPT !.date = x]))
  <2> DEFINE n == [l EXCEPT !.date = x]
  <2>1. LineShape(n)
    BY <1>a, ColumnSet DEF LineOk
  <2>2. /\ n.loanUnderPolicy = l.loanUnderPolicy /\ n.polis = l.polis /\ n.tranche = l.tranche
        /\ n.auto = l.auto /\ n.total = l.total /\ n.type = l.type
    BY <1>a DEF LineOk, LineShape
  <2> HIDE DEF n
  <2>3. LineOk(L!LineEffect(n))
    BY <2>1, <2>2, <1>3
  <2> QED BY <2>3 DEF n
<1> QED BY <1>1, <1>2, <1>4, <1>5 DEF L!TypedLines, l

\* The toggle insures what the policy's part of the line is.
LEMMA ToggledLineOk ==
  ASSUME LinesInv
  PROVE  LineOk(L!ToggledLine)
<1> DEFINE l == lLine
           cover == L!First(<<l.polis, l.loanUnderPolicy>>)
<1>a. LineOk(l)
  BY DEF LinesInv
<1>b. cover = l.polis
  BY <1>a, FirstOfTwo DEF LineOk, Covered
<1> HIDE DEF l, cover
<1>1. ASSUME NEW m, LineShape(m), m.loanUnderPolicy = l.polis, m.polis = l.polis,
             m.tranche = l.tranche, m.date = l.date, m.term = l.term, m.maturity = l.maturity,
             m.auto = l.auto, m.total = l.total, m.type = l.type
      PROVE  LineOk(m)
  BY <1>a, <1>1 DEF LineOk, FromSplit, Covered, Ends, L!Maturity
<1>2. LineOk([l EXCEPT !.insured = FALSE])
  <2> DEFINE m == [l EXCEPT !.insured = FALSE]
  <2>1. LineShape(m)
    BY <1>a, ColumnSet DEF LineOk
  <2>2. /\ m.loanUnderPolicy = l.polis /\ m.polis = l.polis /\ m.tranche = l.tranche
        /\ m.date = l.date /\ m.term = l.term /\ m.maturity = l.maturity
        /\ m.auto = l.auto /\ m.total = l.total /\ m.type = l.type
    BY <1>a DEF LineOk, LineShape, Covered
  <2> HIDE DEF m
  <2>3. LineOk(m)
    BY <1>1, <2>1, <2>2
  <2> QED BY <2>3 DEF m
<1>3. LineOk([l EXCEPT !.insured = TRUE, !.loanUnderPolicy = cover])
  <2> DEFINE m == [l EXCEPT !.insured = TRUE, !.loanUnderPolicy = cover]
  <2>1. m = [[l EXCEPT !.insured = TRUE] EXCEPT !.loanUnderPolicy = cover]
    OBVIOUS
  <2>2. LineShape([l EXCEPT !.insured = TRUE])
    BY <1>a, ColumnSet DEF LineOk
  <2>3. LineShape(m)
    BY <2>1, <2>2, ColumnSet
  <2>4. /\ m.loanUnderPolicy = cover /\ m.polis = l.polis /\ m.tranche = l.tranche
        /\ m.date = l.date /\ m.term = l.term /\ m.maturity = l.maturity
        /\ m.auto = l.auto /\ m.total = l.total /\ m.type = l.type
    BY <1>a DEF LineOk, LineShape
  <2> HIDE DEF m
  <2>5. LineOk(m)
    BY <1>1, <1>b, <2>3, <2>4
  <2> QED BY <2>5 DEF m
<1> QED BY <1>2, <1>3 DEF L!ToggledLine, l, cover

\* Whatever effects of a render run, and whichever of their patches wins, a tranche with a
\* date has its day: the defaults are never run without the day of payment.
LEMMA TrancheEffectsOk ==
  ASSUME NEW l, LineOk(l), NEW lowest, NEW run,
         run \in SUBSET {"payment", "payDay"} \/ run = L!Mounted
  PROVE  LineOk(L!TrancheEffects(l, lowest, run))
<1> DEFINE t == l.tranche
           WithPayment  == [t EXCEPT !.monthly = L!Monthly(l, lowest)]
           WithDefaults == [t EXCEPT !.no = L!First(<<t.no, 1>>), !.applied = L!First(<<t.applied, L!Now>>)]
           WithPayDay   == [t EXCEPT !.payDay = L!PayDay(l)]
           patches == <<<<"payment", WithPayment>>, <<"defaults", WithDefaults>>,
                        <<"payDay", WithPayDay>>>>
           Wins(i) == patches[i][1] \in run /\ patches[i][2] # t
           Last(i) == Wins(i) /\ \A j \in i + 1 .. 3 : ~Wins(j)
           new == IF \A i \in 1 .. 3 : ~Wins(i) THEN t ELSE patches[CHOOSE i \in 1 .. 3 : Last(i)][2]
<1>1. L!TrancheEffects(l, lowest, run) = [l EXCEPT !.tranche = new]
  BY DEF L!TrancheEffects
<1>2. TrancheShape(t) /\ Paid(t)
  BY DEF LineOk
<1>3. L!PayDay(l) = L!PaymentDayFor(IF t.applied # Null THEN t.applied ELSE L!Now)
  BY FirstOfTwo DEF L!PayDay
<1>4. WithPayment.applied = t.applied /\ WithPayment.payDay = t.payDay /\ TrancheShape(WithPayment)
  BY <1>2 DEF TrancheShape
<1>5. /\ WithDefaults.applied = (IF t.applied # Null THEN t.applied ELSE L!Now)
      /\ WithDefaults.payDay = t.payDay /\ TrancheShape(WithDefaults)
  <2> DEFINE no == L!First(<<t.no, 1>>)
             applied == L!First(<<t.applied, L!Now>>)
  <2>1. applied = IF t.applied # Null THEN t.applied ELSE L!Now
    BY FirstOfTwo
  <2>2. WithDefaults = [t EXCEPT !.no = no, !.applied = applied]
    OBVIOUS
  <2> HIDE DEF no, applied, WithDefaults
  <2>b. WithDefaults = [[t EXCEPT !.no = no] EXCEPT !.applied = applied]
    BY <2>2
  <2>3. ASSUME NEW u, TrancheShape(u), NEW x
        PROVE  TrancheShape([u EXCEPT !.no = x]) /\ TrancheShape([u EXCEPT !.applied = x])
    BY <2>3 DEF TrancheShape
  <2>4. TrancheShape(WithDefaults)
    <3>1. TrancheShape([t EXCEPT !.no = no])
      BY <1>2, <2>3
    <3> HIDE DEF t
    <3>2. TrancheShape([[t EXCEPT !.no = no] EXCEPT !.applied = applied])
      BY <3>1, <2>3
    <3> QED BY <2>b, <3>2
  <2>5. WithDefaults.applied = applied /\ WithDefaults.payDay = t.payDay
    BY <1>2, <2>2 DEF TrancheShape
  <2> QED BY <2>1, <2>4, <2>5
<1>6. WithPayDay.applied = t.applied /\ WithPayDay.payDay = L!PayDay(l) /\ TrancheShape(WithPayDay)
  BY <1>2 DEF TrancheShape
<1>7. /\ patches[1] = <<"payment", WithPayment>> /\ patches[2] = <<"defaults", WithDefaults>>
      /\ patches[3] = <<"payDay", WithPayDay>>
  OBVIOUS
<1> HIDE DEF WithPayment, WithDefaults, WithPayDay, patches
<1>8. \/ new = t
      \/ new = WithPayment
      \/ new = WithDefaults /\ Last(2)
      \/ new = WithPayDay
  <2>1. CASE \A i \in 1 .. 3 : ~Wins(i)
    BY <2>1
  <2>2. CASE \E i \in 1 .. 3 : Wins(i)
    <3>1. \E i \in 1 .. 3 : Last(i)
      <4>1. CASE Wins(3)
        BY <4>1
      <4>2. CASE ~Wins(3) /\ Wins(2)
        BY <4>2
      <4>3. CASE ~Wins(3) /\ ~Wins(2)
        BY <2>2, <4>3
      <4> QED BY <4>1, <4>2, <4>3
    <3> DEFINE k == CHOOSE i \in 1 .. 3 : Last(i)
    <3>2. k \in 1 .. 3 /\ Last(k)
      BY <3>1
    <3>3. new = patches[k][2]
      BY <2>2
    <3> HIDE DEF k, new, Last
    <3>4. k = 1 \/ k = 2 \/ k = 3
      BY <3>2
    <3> QED BY <1>7, <3>2, <3>3, <3>4
  <2> QED BY <2>1, <2>2
<1>9. ASSUME Last(2) PROVE WithPayDay = t
  <2>1. "defaults" \in run /\ ~Wins(3)
    BY <1>7, <1>9
  <2>2. "payDay" \in run
    BY <2>1 DEF L!Mounted
  <2> QED BY <1>7, <2>1, <2>2
<1>10. TrancheShape(new) /\ Paid(new)
  <2> HIDE DEF new, Last
  <2>1. CASE new = WithDefaults /\ Last(2)
    <3>1. t.payDay = L!PayDay(l)
      BY <1>6, <1>9, <2>1
    <3> QED BY <1>3, <1>5, <2>1, <3>1 DEF Paid
  <2>2. CASE new = WithPayDay
    BY <1>3, <1>6, <2>2 DEF Paid
  <2>3. CASE new \in {t, WithPayment}
    BY <1>2, <1>4, <2>3 DEF Paid
  <2> QED BY <1>8, <2>1, <2>2, <2>3
<1> HIDE DEF new
<1> DEFINE m == [l EXCEPT !.tranche = new]
<1>11. LineShape(m)
  BY ColumnSet DEF LineOk
<1>12. /\ m.loanUnderPolicy = l.loanUnderPolicy /\ m.polis = l.polis /\ m.tranche = new
       /\ m.date = l.date /\ m.term = l.term /\ m.maturity = l.maturity
       /\ m.auto = l.auto /\ m.total = l.total /\ m.type = l.type
  BY DEF LineOk, LineShape
<1> HIDE DEF m
<1>13. LineOk(m)
  BY <1>10, <1>11, <1>12 DEF LineOk, FromSplit, Covered, Ends, L!Maturity
<1> QED BY <1>1, <1>13 DEF m

\* A field typed in the step of the tranche, with the effects it causes.
LEMMA TypedTranchesOk ==
  ASSUME LinesInv, NEW m \in L!TypedTranches
  PROVE  LineOk(m)
<1> DEFINE l == lLine
           Effects(n) == L!TrancheEffects(n, minRate, L!Changed(n, minRate))
<1>a. LineOk(l)
  BY DEF LinesInv
<1> HIDE DEF l
<1>1. ASSUME NEW u, TrancheShape(u), u.applied = l.tranche.applied, u.payDay = l.tranche.payDay
      PROVE  LineOk(Effects([l EXCEPT !.tranche = u]))
  <2> DEFINE n == [l EXCEPT !.tranche = u]
  <2>1. LineShape(n)
    BY <1>a, ColumnSet DEF LineOk
  <2>2. /\ n.loanUnderPolicy = l.loanUnderPolicy /\ n.polis = l.polis /\ n.tranche = u
        /\ n.date = l.date /\ n.term = l.term /\ n.maturity = l.maturity
        /\ n.auto = l.auto /\ n.total = l.total /\ n.type = l.type
    BY <1>a DEF LineOk, LineShape
  <2> HIDE DEF n
  <2>3. LineOk(n)
    BY <1>a, <1>1, <2>1, <2>2 DEF LineOk, FromSplit, Covered, Ends, L!Maturity, Paid
  <2>4. L!Changed(n, minRate) \in SUBSET {"payment", "payDay"}
    BY DEF L!Changed
  <2>5. LineOk(Effects(n))
    BY <2>3, <2>4, TrancheEffectsOk
  <2> QED BY <2>5 DEF n
<1>2. TrancheShape(l.tranche)
  BY <1>a DEF LineOk
<1>3. ASSUME NEW x PROVE LineOk(Effects([l EXCEPT !.tranche.principal = x]))
  <2> DEFINE u == [l.tranche EXCEPT !.principal = x]
  <2>1. TrancheShape(u) /\ u.applied = l.tranche.applied /\ u.payDay = l.tranche.payDay
    BY <1>2 DEF TrancheShape
  <2>2. [l EXCEPT !.tranche.principal = x] = [l EXCEPT !.tranche = u]
    BY <1>a DEF LineOk, LineShape
  <2> HIDE DEF u, Effects
  <2> QED BY <1>1, <2>1, <2>2
<1>4. ASSUME NEW x PROVE LineOk(Effects([l EXCEPT !.tranche.method = x]))
  <2> DEFINE u == [l.tranche EXCEPT !.method = x]
  <2>1. TrancheShape(u) /\ u.applied = l.tranche.applied /\ u.payDay = l.tranche.payDay
    BY <1>2 DEF TrancheShape
  <2>2. [l EXCEPT !.tranche.method = x] = [l EXCEPT !.tranche = u]
    BY <1>a DEF LineOk, LineShape
  <2> HIDE DEF u, Effects
  <2> QED BY <1>1, <2>1, <2>2
<1>5. ASSUME NEW x PROVE LineOk(Effects([l EXCEPT !.tranche.term = x]))
  <2> DEFINE u == [l.tranche EXCEPT !.term = x]
  <2>1. TrancheShape(u) /\ u.applied = l.tranche.applied /\ u.payDay = l.tranche.payDay
    BY <1>2 DEF TrancheShape
  <2>2. [l EXCEPT !.tranche.term = x] = [l EXCEPT !.tranche = u]
    BY <1>a DEF LineOk, LineShape
  <2> HIDE DEF u, Effects
  <2> QED BY <1>1, <2>1, <2>2
<1> QED
  <2>1. PICK n, x : /\ m = Effects(n)
                    /\ \/ n = [l EXCEPT !.tranche.principal = x]
                       \/ n = [l EXCEPT !.tranche.method = x]
                       \/ n = [l EXCEPT !.tranche.term = x]
    <3> HIDE DEF Effects
    <3> QED BY DEF L!TypedTranches, Effects, l
  <2> HIDE DEF Effects
  <2> QED BY <1>3, <1>4, <1>5, <2>1

\* createCase and applyUpdate: the day of payment is of the date that is stored.
LEMMA StoredOk ==
  ASSUME NEW l, LineOk(l)
  PROVE  LineOk(L!Stored(l))
<1> DEFINE t == l.tranche
           no == L!First(<<t.no, 1>>)
           paid == L!PaymentDayFor(t.applied)
           u == IF t = L!NoTranche THEN t ELSE [t EXCEPT !.no = no, !.payDay = paid]
           rate == L!First(<<l.rate, LowestRate>>)
           m == [l EXCEPT !.rate = rate, !.tranche = u]
<1>1. L!Stored(l) = m
  BY DEF L!Stored
<1>2. TrancheShape(u) /\ Paid(u)
  <2>1. CASE t = L!NoTranche
    BY <2>1 DEF LineOk
  <2>2. CASE t # L!NoTranche
    <3> DEFINE v == [t EXCEPT !.no = no]
               w == [v EXCEPT !.payDay = paid]
    <3>1. u = [t EXCEPT !.no = no, !.payDay = paid]
      BY <2>2
    <3>2. TrancheShape(t)
      BY DEF LineOk
    <3> HIDE DEF u, t, no, paid
    <3>3. u = w
      BY <3>1
    <3>4. TrancheShape(v) /\ v.applied = t.applied
      BY <3>2 DEF TrancheShape
    <3> HIDE DEF v
    <3>5. TrancheShape(w) /\ w.applied = v.applied /\ w.payDay = paid
      BY <3>4 DEF TrancheShape
    <3> QED BY <3>3, <3>4, <3>5 DEF Paid, paid
  <2> QED BY <2>1, <2>2
<1> HIDE DEF u, rate
<1>3. LineShape(m)
  <2>1. m = [[l EXCEPT !.rate = rate] EXCEPT !.tranche = u]
    OBVIOUS
  <2>2. LineShape([l EXCEPT !.rate = rate])
    BY ColumnSet DEF LineOk
  <2> QED BY <2>1, <2>2, ColumnSet
<1>4. /\ m.loanUnderPolicy = l.loanUnderPolicy /\ m.polis = l.polis /\ m.tranche = u
      /\ m.date = l.date /\ m.term = l.term /\ m.maturity = l.maturity
      /\ m.auto = l.auto /\ m.total = l.total /\ m.type = l.type
  BY DEF LineOk, LineShape
<1> HIDE DEF m
<1> QED BY <1>1, <1>2, <1>3, <1>4 DEF LineOk, FromSplit, Covered, Ends, L!Maturity

\* An empty line agrees with itself.
LEMMA NoLineOk ==
  ASSUME L!OriginationAssumption
  PROVE  LineOk(L!NoLine)
<1>1. /\ L!NoLine.term = Null /\ L!NoLine.auto = Null /\ L!NoLine.polis = Null
      /\ L!NoLine.total = Null /\ L!NoLine.type = "MICROLOAN" /\ L!NoLine.loanUnderPolicy = Null
      /\ L!NoLine.tranche = L!NoTranche /\ L!NoTranche.applied = Null
  BY DEF L!NoLine, L!NoTranche
<1>2. LineShape(L!NoLine) /\ TrancheShape(L!NoTranche)
  BY DEF LineShape, TrancheShape, L!NoLine, L!NoTranche
<1>3. L!Or0(Null) = 0 /\ L!OrNull(0 + 0) = Null
  BY DEF L!Or0, L!OrNull
<1>4. L!LoanTypeFor(Null) = "MICROLOAN"
  BY <1>3 DEF L!LoanTypeFor, L!OriginationAssumption
<1> QED BY <1>1, <1>2, <1>3, <1>4 DEF LineOk, Ends, FromSplit, Covered, Paid

\* Every step of the page keeps the rules.
LEMMA LinesStep ==
  ASSUME L!LinesAssumption, LinesInv, L!Next
  PROVE  LinesInv'
<1> USE DEF LinesInv
<1>0. L!Changed(saved, minRate) \in SUBSET {"payment", "payDay"}
      /\ L!Changed(lLine, LowestRate) \in SUBSET {"payment", "payDay"}
  BY DEF L!Changed
<1>1. CASE L!Type
  BY <1>1, TypedLineOk, ToggledLineOk, TypedTranchesOk DEF L!Type
<1>2. CASE L!ConfigFetched
  BY <1>0, <1>2, TrancheEffectsOk DEF L!ConfigFetched
<1>3. CASE L!Save
  BY <1>3, StoredOk DEF L!Save
<1>4. CASE L!Loaded
  <2>1. LineOk(L!LineEffect(saved))
    BY LineEffectOk DEF LineOk
  <2>2. LineOk(L!TrancheEffects(saved, minRate, L!Changed(saved, minRate)))
    BY <1>0, TrancheEffectsOk
  <2> QED BY <1>4, <2>1, <2>2 DEF L!Loaded
<1>5. CASE L!NextDay
  BY <1>5 DEF L!NextDay, L!LinesAssumption
<1>6. ASSUME NEW i \in {"line", "insurance", "tranche", "other"}, L!Open(i)
      PROVE  LinesInv'
  <2>1. LineOk(L!LineEffect(lLine))
    BY LineEffectOk DEF LineOk
  <2>2. LineOk(L!TrancheEffects(lLine, minRate, L!Mounted))
    BY TrancheEffectsOk
  <2> QED BY <1>6, <2>1, <2>2 DEF L!Open
<1> QED BY <1>1, <1>2, <1>3, <1>4, <1>5, <1>6 DEF L!Next

\* Whatever is typed, shown, saved and loaded again: of the line in the form and of the one
\* on the server maturity, total, kind, cover and day of payment follow from what they say.
THEOREM LinesInductive == FormsSpec => []LinesInv
<1>1. FormsInit => LinesInv
  <2>1. L!OriginationAssumption
    BY FormsAssumption DEF OriginationAssumption, L!OriginationAssumption, Methods, L!Methods,
                           FormTranches, L!FormTranches, FormLines, L!FormLines
  <2>2. Today \in Today .. LastDay
    BY FormsAssumption DEF L!LinesAssumption
  <2> QED BY <2>1, <2>2, NoLineOk DEF FormsInit, L!Init, LinesInv
<1>2. LinesInv /\ [FormsNext]_formsVars => LinesInv'
  <2> SUFFICES ASSUME LinesInv, [FormsNext]_formsVars PROVE LinesInv'
    OBVIOUS
  <2>1. CASE L!Next
    BY <2>1, FormsAssumption, LinesStep
  <2>2. CASE UNCHANGED lVars
    BY <2>2 DEF LinesInv, lVars
  <2> QED BY <2>1, <2>2 DEF FormsNext, formsVars
<1> QED BY <1>1, <1>2, PTL DEF FormsSpec

\* "A contract stating a term and an end date that contradict each other" is never what the
\* form or the server holds (steps.tsx), for every set of sums, terms and dates.
THEOREM LinesAgree == FormsSpec => []LineAgrees
<1>1. LinesInv => LineAgrees
  BY DEF LinesInv, LineOk, Ends, FromSplit, Covered, Paid, LineAgrees, L!LineAgrees
<1> QED BY <1>1, LinesInductive, PTL

-----------------------------------------------------------------------------
(***************************************************************************)
(* The drafts of the wizard.  A handler goes on with the case it knew when *)
(* it was called, which is the one of the form or none; neither the form   *)
(* nor its draft is ever older than what was seen saved.                   *)
(***************************************************************************)
DraftTypes == [data : [W!Sections -> Nat], pledges : Nat]

WizardTypes ==
  /\ page \in {"new", "draft"} /\ step \in 0 .. 7
  /\ form \in [W!Sections -> Nat] /\ acked \in [W!Sections -> Nat]
  /\ cases \in Seq(DraftTypes) /\ known \in 0 .. Len(cases)
  /\ edits \in Nat /\ saves \in Nat

TaskInv ==
  task.kind # "none" => /\ step \in 0 .. 6 /\ task.then \in 0 .. 7
                        /\ task.closure \in IF task.kind = "attach" THEN {0} ELSE {0, known}

DraftKnown == (page = "draft" => known # 0) /\ (reload => page = "draft")

FormHolds == \A s \in W!Sections : form[s] >= acked[s]

DraftHolds == known # 0 => \A s \in W!Sections : cases[known].data[s] >= acked[s]

NotNewer == \A s \in W!Sections : form[s] <= edits /\ (known # 0 => cases[known].data[s] <= edits)

WizardInv == WizardTypes /\ TaskInv /\ DraftKnown /\ FormHolds /\ DraftHolds /\ NotNewer

\* What a step vouches for, its section carries.
LEMMA VouchedIsCarried ==
  ASSUME NEW i \in 0 .. 6
  PROVE  W!Typed[i + 1] \ {"affordability"} \subseteq W!Carries(W!StepSection[i + 1])
<1>1. i \in 2 .. 5 => W!Typed[i + 1] \subseteq {"creditLine", "collaterals"}
  BY DEF W!Typed
<1>2. CASE i = 0
  BY <1>2 DEF W!Typed, W!StepSection, W!Carries
<1>3. CASE i = 1
  BY <1>3 DEF W!Typed, W!StepSection, W!Carries
<1>4. CASE i \in 2 .. 5
  <2>1. W!StepSection[i + 1] = "creditLine"
    BY <1>4 DEF W!StepSection
  <2> QED BY <1>1, <1>4, <2>1 DEF W!Carries
<1>5. CASE i = 6
  BY <1>5 DEF W!Typed, W!StepSection, W!Carries
<1> QED BY <1>2, <1>3, <1>4, <1>5

LEMMA AllIsCarried == W!Carries("all") = W!Sections
BY DEF W!Carries

\* createCase: the new draft is the form, and the others stay.
LEMMA CreatedOk ==
  ASSUME WizardTypes, cases' = W!Created
  PROVE  /\ cases' \in Seq(DraftTypes) /\ Len(cases') = Len(cases) + 1
         /\ cases'[Len(cases')].data = form
         /\ known # 0 => cases'[known] = cases[known]
<1> DEFINE new == [data |-> form, pledges |-> saves + 1]
<1>1. new \in DraftTypes /\ new.data = form
  BY DEF WizardTypes, DraftTypes
<1>2. cases' = Append(cases, new)
  BY DEF W!Created
<1> HIDE DEF new
<1> QED BY <1>1, <1>2 DEF WizardTypes

\* applyUpdate: what is carried and not empty is the form's, the rest stays.
LEMMA SavedOk ==
  ASSUME WizardTypes, known # 0, NEW section, cases' = W!Saved(known, section)
  PROVE  /\ cases' \in Seq(DraftTypes) /\ Len(cases') = Len(cases)
         /\ \A s \in W!Sections : /\ \/ cases'[known].data[s] = form[s]
                                     \/ cases'[known].data[s] = cases[known].data[s]
                                  /\ s \in W!Carries(section) => cases'[known].data[s] >= form[s]
<1> DEFINE carried == {s \in W!Carries(section) : form[s] # 0 \/ s = "collaterals"}
           old == cases[known]
           data == [s \in W!Sections |-> IF s \in carried THEN form[s] ELSE old.data[s]]
           pledges == IF "collaterals" \in carried THEN saves + 1 ELSE old.pledges
           new == [data |-> data, pledges |-> pledges]
<1>1. cases' = [cases EXCEPT ![known] = new]
  BY DEF W!Saved
<1>2. known \in 1 .. Len(cases) /\ old \in DraftTypes
  BY DEF WizardTypes
<1>3. old.data \in [W!Sections -> Nat] /\ old.pledges \in Nat
  BY <1>2 DEF DraftTypes
<1> HIDE DEF carried, old
<1>4. data \in [W!Sections -> Nat] /\ pledges \in Nat
  BY <1>3 DEF WizardTypes
<1>5. \A s \in W!Sections : /\ data[s] = form[s] \/ data[s] = old.data[s]
                            /\ s \in carried => data[s] = form[s]
  OBVIOUS
<1>6. \A s \in W!Sections : s \in W!Carries(section) => data[s] >= form[s]
  <2> SUFFICES ASSUME NEW s \in W!Sections, s \in W!Carries(section) PROVE data[s] >= form[s]
    OBVIOUS
  <2>1. form[s] \in Nat /\ data[s] \in Nat
    BY <1>4 DEF WizardTypes
  <2>2. form[s] # 0 => s \in carried
    BY DEF carried
  <2> HIDE DEF data
  <2> QED BY <1>5, <2>1, <2>2
<1> HIDE DEF data, pledges
<1>7. new \in DraftTypes /\ new.data = data
  BY <1>4 DEF DraftTypes
<1> HIDE DEF new
<1>8. cases' \in Seq(DraftTypes) /\ Len(cases') = Len(cases) /\ cases'[known] = new
  BY <1>1, <1>2, <1>7 DEF WizardTypes
<1> QED BY <1>5, <1>6, <1>7, <1>8 DEF old

\* One request of a task: the draft the page goes on with does not get older than what was
\* seen saved; the one of a new page is the form, and in an old one the step's section is.
LEMMA PerformOk ==
  ASSUME WizardInv, task.kind # "none", W!Perform
  PROVE  /\ cases' \in Seq(DraftTypes) /\ Len(cases') >= Len(cases)
         /\ task.closure = 0 => /\ Len(cases') = Len(cases) + 1
                                /\ cases'[Len(cases')].data = form
         /\ known # 0 => \A s \in W!Sections : /\ cases'[known].data[s] >= acked[s]
                                               /\ cases'[known].data[s] <= edits
         /\ task.closure # 0 =>
              /\ known # 0 /\ Len(cases') = Len(cases)
              /\ \A s \in W!Sections :
                   s \in W!Typed[step + 1] \ {"affordability"} \/ task.kind = "finish"
                     => cases'[known].data[s] >= form[s]
<1>0. WizardTypes /\ Len(cases) \in Nat
  BY DEF WizardInv, WizardTypes
<1>1. CASE task.closure = 0
  <2>1. cases' = W!Created
    BY <1>1 DEF W!Perform
  <2> QED BY <1>0, <1>1, <2>1, CreatedOk DEF WizardInv, DraftHolds, NotNewer
<1>2. CASE task.closure # 0
  <2> DEFINE section == IF task.kind = "finish" THEN "all" ELSE W!StepSection[step + 1]
  <2>1. task.closure = known /\ known # 0 /\ step \in 0 .. 6
    BY <1>2 DEF WizardInv, TaskInv
  <2>2. cases' = W!Saved(known, section)
    BY <1>2, <2>1 DEF W!Perform
  <2>3. \A s \in W!Sections :
          s \in W!Typed[step + 1] \ {"affordability"} \/ task.kind = "finish"
            => s \in W!Carries(section)
    BY <2>1, VouchedIsCarried, AllIsCarried
  <2> HIDE DEF section
  <2>4. /\ cases' \in Seq(DraftTypes) /\ Len(cases') = Len(cases)
        /\ \A s \in W!Sections : /\ \/ cases'[known].data[s] = form[s]
                                    \/ cases'[known].data[s] = cases[known].data[s]
                                 /\ s \in W!Carries(section) => cases'[known].data[s] >= form[s]
    BY <1>0, <2>1, <2>2, SavedOk
  <2>5. \A s \in W!Sections : cases'[known].data[s] >= acked[s] /\ cases'[known].data[s] <= edits
    BY <2>1, <2>4 DEF WizardInv, FormHolds, DraftHolds, NotNewer
  <2> QED BY <1>0, <1>2, <2>1, <2>3, <2>4, <2>5
<1> QED BY <1>1, <1>2

\* Where a save was answered, the draft holds what it vouches for.
LEMMA AnsweredOk ==
  ASSUME WizardInv, task.kind # "none", W!Perform, NEW all,
         known' = (IF task.closure = 0 THEN Len(cases') ELSE known),
         all \in {"all", "section"}, all = "all" => task.kind = "finish" \/ task.closure = 0,
         acked' = W!Vouched(all), UNCHANGED <<form, edits>>
  PROVE  /\ cases' \in Seq(DraftTypes) /\ known' \in 1 .. Len(cases')
         /\ acked' \in [W!Sections -> Nat] /\ FormHolds' /\ DraftHolds' /\ NotNewer'
<1>0. /\ form \in [W!Sections -> Nat] /\ acked \in [W!Sections -> Nat]
      /\ Len(cases) \in Nat /\ known \in 0 .. Len(cases)
  BY DEF WizardInv, WizardTypes
<1>1. acked' \in [W!Sections -> Nat]
  BY <1>0 DEF W!Vouched
<1>2. cases' \in Seq(DraftTypes) /\ known' \in 1 .. Len(cases')
  <2>1. Len(cases') \in Nat
    BY PerformOk
  <2> QED BY <1>0, <2>1, PerformOk
<1>3. \A s \in W!Sections : /\ acked'[s] = form[s] \/ acked'[s] = acked[s]
                            /\ \/ acked'[s] = acked[s]
                               \/ s \in W!Typed[step + 1] \ {"affordability"} \/ all = "all"
  BY DEF W!Vouched
<1>4. FormHolds'
  BY <1>0, <1>3 DEF WizardInv, FormHolds
<1>5. DraftHolds'
  <2> SUFFICES ASSUME NEW s \in W!Sections PROVE cases'[known'].data[s] >= acked'[s]
    BY DEF DraftHolds
  <2>1. CASE task.closure = 0
    <3>1. cases'[known'].data[s] = form[s]
      BY <2>1, PerformOk
    <3> QED BY <1>0, <1>3, <3>1 DEF WizardInv, FormHolds
  <2>2. CASE task.closure # 0
    <3>1. known' = known /\ cases'[known].data[s] >= acked[s]
      BY <2>2, PerformOk
    <3>2. acked'[s] # acked[s] => cases'[known].data[s] >= form[s]
      BY <1>3, <2>2, PerformOk
    <3> QED BY <1>3, <3>1, <3>2
  <2> QED BY <2>1, <2>2
<1>6. NotNewer'
  <2> SUFFICES ASSUME NEW s \in W!Sections PROVE form[s] <= edits /\ cases'[known'].data[s] <= edits
    BY DEF NotNewer
  <2>1. CASE task.closure = 0
    BY <2>1, PerformOk DEF WizardInv, NotNewer
  <2>2. CASE task.closure # 0
    BY <2>2, PerformOk DEF WizardInv, NotNewer
  <2> QED BY <2>1, <2>2
<1> QED BY <1>1, <1>2, <1>4, <1>5, <1>6

LEMMA KnownDraft ==
  ASSUME WizardTypes, known # 0
  PROVE  cases[known].data \in [W!Sections -> Nat]
<1>1. known \in 1 .. Len(cases)
  BY DEF WizardTypes
<1>2. cases[known] \in DraftTypes
  BY <1>1 DEF WizardTypes
<1> QED BY <1>2 DEF DraftTypes

\* A handler is started with the case of the form.
LEMMA StartOk ==
  ASSUME WizardTypes, step \in 0 .. 6, NEW kind, NEW then \in 0 .. 7,
         W!Start(kind, then), kind = "attach" => known = 0, UNCHANGED <<step, known>>
  PROVE  TaskInv'
<1>1. task'.closure = known /\ task'.then = then /\ task'.kind = kind
  BY DEF W!Start
<1> QED BY <1>1 DEF TaskInv

\* Every step of the wizard keeps the invariant.
LEMMA WizardStep ==
  ASSUME WizardInv, W!Next
  PROVE  WizardInv'
<1> USE DEF WizardInv
<1>0. W!Free.kind = "none" /\ saves + 1 \in Nat
  BY DEF W!Free, WizardTypes
<1> DEFINE Same == UNCHANGED <<page, form, known, cases, reload, edits, acked>>
           kinds == {"next", "goTo", "finish", "ensure", "attach", "attachSave"}
<1>a. ASSUME Same, step' \in 0 .. 7, saves' \in Nat, TaskInv' PROVE WizardInv'
  BY <1>a DEF WizardTypes, DraftKnown, FormHolds, DraftHolds, NotNewer
<1>b. W!Ready => step \in 0 .. 6
  BY DEF W!Ready, WizardTypes
<1>1. ASSUME NEW s \in W!Sections, W!Type(s) PROVE WizardInv'
  <2>1. form' = [form EXCEPT ![s] = edits + 1] /\ edits' = edits + 1 /\ edits \in Nat
    BY <1>1 DEF W!Type, WizardTypes
  <2>2. form' \in [W!Sections -> Nat] /\ edits' \in Nat
    BY <2>1 DEF WizardTypes
  <2>3. \A t \in W!Sections : form'[t] >= acked[t] /\ form'[t] <= edits'
    <3> TAKE t \in W!Sections
    <3>1. form[t] \in Nat /\ acked[t] \in Nat /\ form[t] >= acked[t] /\ form[t] <= edits
      BY DEF WizardTypes, FormHolds, NotNewer
    <3> QED BY <2>1, <3>1 DEF WizardTypes
  <2>4. known # 0 => \A t \in W!Sections : cases[known].data[t] <= edits'
    <3> SUFFICES ASSUME known # 0, NEW t \in W!Sections PROVE cases[known].data[t] <= edits'
      OBVIOUS
    <3>1. cases[known].data[t] \in Nat
      BY KnownDraft
    <3> QED BY <2>1, <3>1 DEF NotNewer
  <2> QED BY <1>1, <2>2, <2>3, <2>4
        DEF W!Type, WizardTypes, TaskInv, DraftKnown, FormHolds, DraftHolds, NotNewer
<1>2. ASSUME W!Next_ \/ W!Finish \/ W!Scan \/ W!Attach PROVE WizardInv'
  <2>1. Same /\ UNCHANGED <<step, saves>> /\ step \in 0 .. 6
    BY <1>2, <1>b DEF W!Next_, W!Finish, W!Scan, W!Attach
  <2> HIDE DEF Same, kinds
  <2>2. \E i \in 0 .. 7, kind \in kinds : W!Start(kind, i) /\ (kind = "attach" => known = 0)
    <3>1. CASE W!Next_
      <4>1. W!Start("next", step + 1) /\ step + 1 \in 0 .. 7
        BY <2>1, <3>1 DEF W!Next_
      <4> QED BY <4>1 DEF kinds
    <3>2. CASE W!Finish
      BY <3>2 DEF W!Finish, kinds
    <3>3. CASE W!Scan \/ W!Attach
      <4>1. step \in 0 .. 7
        BY <2>1
      <4> QED BY <3>3, <4>1 DEF W!Scan, W!Attach, kinds
    <3> QED BY <1>2, <3>1, <3>2, <3>3
  <2>3. TaskInv'
    <3>1. PICK i \in 0 .. 7, kind \in kinds : W!Start(kind, i) /\ (kind = "attach" => known = 0)
      BY <2>2
    <3>2. UNCHANGED <<step, known>>
      BY <2>1 DEF Same
    <3> QED BY <2>1, <3>1, <3>2, StartOk
  <2> QED BY <1>a, <2>1, <2>3 DEF WizardTypes
<1>3. ASSUME W!Back PROVE WizardInv'
  <2>1. Same /\ UNCHANGED <<task, saves>> /\ step' = step - 1 /\ step' \in 0 .. 6
    BY <1>3, <1>b DEF W!Back
  <2>2. TaskInv'
    BY <2>1 DEF TaskInv
  <2> HIDE DEF Same
  <2> QED BY <1>a, <2>1, <2>2 DEF WizardTypes
<1>4. ASSUME NEW i \in 0 .. 6, W!GoTo(i) PROVE WizardInv'
  <2>1. Same /\ UNCHANGED saves /\ step \in 0 .. 6
    BY <1>4, <1>b DEF W!GoTo
  <2>2. TaskInv' /\ step' \in 0 .. 7
    <3>1. CASE known # 0
      BY <1>4, <2>1, <3>1, StartOk DEF W!GoTo
    <3>2. CASE known = 0
      BY <1>4, <2>1, <3>2 DEF W!GoTo, TaskInv
    <3> QED BY <3>1, <3>2
  <2> HIDE DEF Same
  <2> QED BY <1>a, <2>1, <2>2 DEF WizardTypes
<1>5. ASSUME W!Serve \/ W!ServeAttach PROVE WizardInv'
  <2>1. task.kind # "none" /\ task.kind \in kinds /\ saves' = saves + 1
    BY <1>5 DEF W!Serve, W!ServeAttach, W!Running
  <2>2. /\ W!Perform /\ known' = (IF task.closure = 0 THEN Len(cases') ELSE known)
        /\ UNCHANGED <<form, edits, page>> /\ reload' = (page = "draft") /\ task' = W!Free
        /\ step' \in {step, task.then}
    BY <1>5 DEF W!Serve, W!ServeAttach
  <2>3. PICK all \in {"all", "section"} :
          /\ all = "all" => task.kind = "finish" \/ task.closure = 0
          /\ acked' = W!Vouched(all)
    BY <1>5 DEF W!Serve, W!ServeAttach
  <2>4. /\ cases' \in Seq(DraftTypes) /\ known' \in 1 .. Len(cases')
        /\ acked' \in [W!Sections -> Nat] /\ FormHolds' /\ DraftHolds' /\ NotNewer'
    BY <2>1, <2>2, <2>3, AnsweredOk
  <2>5. step' \in 0 .. 7
    BY <2>1, <2>2 DEF TaskInv, WizardTypes
  <2>6. Len(cases') \in Nat
    BY <2>4
  <2>7. TaskInv'
    <3>1. task'.kind = "none"
      BY <1>0, <2>2
    <3> QED BY <3>1 DEF TaskInv
  <2>8. known' # 0 /\ known' \in 0 .. Len(cases')
    BY <2>4, <2>6
  <2>9. WizardTypes'
    BY <1>0, <2>1, <2>2, <2>4, <2>5, <2>8 DEF WizardTypes
  <2> QED BY <2>2, <2>4, <2>7, <2>8, <2>9 DEF DraftKnown
<1>6. ASSUME W!ServeEnsure PROVE WizardInv'
  <2>1. /\ cases' = W!Created /\ known' = Len(cases') /\ saves' = saves + 1
        /\ UNCHANGED <<page, step, form, reload, edits, acked>>
        /\ task.kind # "none"
    BY <1>6 DEF W!ServeEnsure, W!Running
  <2>2. /\ cases' \in Seq(DraftTypes) /\ Len(cases') = Len(cases) + 1
        /\ cases'[Len(cases')].data = form
    BY <2>1, CreatedOk
  <2>3. Len(cases') \in Nat /\ known' # 0 /\ known' \in 0 .. Len(cases')
    BY <2>1, <2>2 DEF WizardTypes
  <2>4. TaskInv'
    <3>1. CASE task.kind = "ensure"
      <4>1. task'.kind = "none"
        BY <1>0, <1>6, <3>1 DEF W!ServeEnsure
      <4> QED BY <4>1 DEF TaskInv
    <3>2. CASE task.kind = "attach"
      <4>1. task' = [task EXCEPT !.kind = "attachSave"]
        BY <1>6, <3>2 DEF W!ServeEnsure
      <4>2. task'.then = task.then /\ task'.closure = task.closure
        BY <4>1
      <4>3. task.closure = 0 /\ task.then \in 0 .. 7 /\ step \in 0 .. 6
        BY <3>2 DEF TaskInv
      <4> QED BY <2>1, <4>2, <4>3 DEF TaskInv
    <3> QED BY <1>6, <3>1, <3>2 DEF W!ServeEnsure, W!Running
  <2>5. cases'[known'].data = form /\ form \in [W!Sections -> Nat]
    BY <2>1, <2>2 DEF WizardTypes
  <2>6. FormHolds' /\ DraftHolds' /\ NotNewer'
    BY <2>1, <2>5 DEF FormHolds, DraftHolds, NotNewer
  <2> QED BY <1>0, <2>1, <2>2, <2>3, <2>4, <2>6 DEF WizardTypes, DraftKnown
<1>7. ASSUME W!Fail PROVE WizardInv'
  <2>1. /\ task.kind # "none" /\ saves' = saves + 1 /\ task' = W!Free
        /\ UNCHANGED <<page, form, known, reload, edits, acked>>
        /\ step' \in {step, task.then}
    BY <1>7 DEF W!Fail, W!Running
  <2>2. /\ cases' \in Seq(DraftTypes) /\ Len(cases') >= Len(cases)
        /\ known # 0 => \A s \in W!Sections : /\ cases'[known].data[s] >= acked[s]
                                              /\ cases'[known].data[s] <= edits
    <3>1. CASE W!Perform
      BY <2>1, <3>1, PerformOk
    <3>2. CASE UNCHANGED cases
      BY <3>2 DEF WizardTypes, DraftHolds, NotNewer
    <3> QED BY <1>7, <3>1, <3>2 DEF W!Fail
  <2>3. step' \in 0 .. 7 /\ Len(cases') \in Nat /\ Len(cases) \in Nat
    BY <2>1, <2>2 DEF TaskInv, WizardTypes
  <2> QED BY <1>0, <2>1, <2>2, <2>3
        DEF WizardTypes, TaskInv, DraftKnown, FormHolds, DraftHolds, NotNewer
<1>8. ASSUME W!Loaded PROVE WizardInv'
  <2>1. known # 0 /\ form' = cases[known].data /\ reload' = FALSE
        /\ UNCHANGED <<page, step, known, cases, task, edits, saves, acked>>
    BY <1>8 DEF W!Loaded, DraftKnown
  <2>2. form' \in [W!Sections -> Nat]
    BY <2>1, KnownDraft
  <2> QED BY <2>1, <2>2 DEF WizardTypes, TaskInv, DraftKnown, FormHolds, DraftHolds, NotNewer
<1> HIDE DEF WizardInv
<1> QED BY <1>1, <1>2, <1>3, <1>4, <1>5, <1>6, <1>7, <1>8 DEF W!Next

LEMMA WizardStart ==
  ASSUME W!Init
  PROVE  WizardInv
<1>1. /\ page \in {"new", "draft"} /\ step = 0 /\ saves = 0 /\ task.kind = "none"
      /\ reload = (page = "draft") /\ edits \in {0, 1}
      /\ form = [s \in W!Sections |-> 0] /\ acked = [s \in W!Sections |-> 0]
  BY DEF W!Init, W!Blank, W!Free
<1>2. CASE page = "new"
  <2>1. cases = << >> /\ known = 0
    BY <1>2 DEF W!Init
  <2>2. cases \in Seq(DraftTypes) /\ Len(cases) = 0
    BY <2>1
  <2>3. WizardTypes
    BY <1>1, <2>1, <2>2 DEF WizardTypes
  <2>4. TaskInv /\ DraftKnown
    BY <1>1, <1>2 DEF TaskInv, DraftKnown
  <2>5. FormHolds /\ DraftHolds /\ NotNewer
    BY <1>1, <2>1 DEF FormHolds, DraftHolds, NotNewer
  <2> QED BY <2>3, <2>4, <2>5 DEF WizardInv
<1>3. CASE page = "draft"
  <2> DEFINE data == [s \in W!Sections |-> edits]
             new == [data |-> data, pledges |-> 0]
  <2>1. cases = <<new>> /\ known = 1
    BY <1>3 DEF W!Init
  <2>2. data \in [W!Sections -> Nat] /\ \A s \in W!Sections : data[s] = edits
    BY <1>1
  <2> HIDE DEF data
  <2>3. new \in DraftTypes /\ new.data = data
    BY <2>2 DEF DraftTypes
  <2> HIDE DEF new
  <2>4. cases \in Seq(DraftTypes) /\ Len(cases) = 1 /\ cases[known] = new
    BY <2>1, <2>3
  <2>5. WizardTypes /\ TaskInv /\ DraftKnown
    BY <1>1, <1>3, <2>1, <2>4 DEF WizardTypes, TaskInv, DraftKnown
  <2>6. FormHolds /\ DraftHolds /\ NotNewer
    BY <1>1, <2>2, <2>3, <2>4 DEF FormHolds, DraftHolds, NotNewer
  <2> QED BY <2>5, <2>6 DEF WizardInv
<1> QED BY <1>1, <1>2, <1>3

\* The wizard goes on with the case it knows, and neither its form nor its draft is ever older
\* than what the operator saw saved, for any number of edits, saves, failures and reloads.
THEOREM WizardInductive == FormsSpec => []WizardInv
<1>1. FormsInit => WizardInv
  BY WizardStart DEF FormsInit
<1>2. WizardInv /\ [FormsNext]_formsVars => WizardInv'
  <2> SUFFICES ASSUME WizardInv, [FormsNext]_formsVars PROVE WizardInv'
    OBVIOUS
  <2>1. CASE W!Next
    BY <2>1, WizardStep
  <2>2. CASE UNCHANGED wVars
    BY <2>2 DEF WizardInv, WizardTypes, TaskInv, DraftKnown, FormHolds, DraftHolds, NotNewer, wVars
  <2> QED BY <2>1, <2>2 DEF FormsNext, formsVars
<1> QED BY <1>1, <1>2, PTL DEF FormsSpec

\* "Har bosqich alohida saqlanadi": what a step saved stays in the draft, whatever is skipped,
\* opened again, scanned, reloaded or lost afterwards (saveSection, goTo, next).
THEOREM SavedIsKept == FormsSpec => []SavedStepsStay
<1>1. WizardInv => SavedStepsStay
  BY DEF WizardInv, DraftHolds, SavedStepsStay, W!SavedStepsStay
<1> QED BY <1>1, WizardInductive, PTL

-----------------------------------------------------------------------------
(***************************************************************************)
(* The pledges of the wizard.  Until one leaves the form the n-th pledge   *)
(* is the one in the n-th tab, here, in an upload and on the server, and   *)
(* what the scanner of a tab has and reads is of that pledge.              *)
(***************************************************************************)
PledgeTypes == [id : Nat, auto : BOOLEAN, vehicle : Nat]

InOrder(q) == /\ q \in Seq(PledgeTypes) /\ Len(q) <= added
              /\ \A i \in 1 .. Len(q) : q[i].id = i /\ q[i].vehicle \in {0, i}

ColsInv == /\ added \in 0 .. MaxPledges /\ InOrder(cols) /\ Len(cols) = added
           /\ activeCol \in Nat \ {0}

ServerInv == InOrder(stored) /\ \A m \in files : m.shows = m.on

UploadInv == upload.step # "none" => InOrder(upload.cols) /\ upload.images = upload.index

ScanTypes == [images : Nat, result : Nat]

ScanOf(k, scan) == /\ scan \in ScanTypes
                   /\ scan.images \in {0, k} /\ scan.result \in {0, scan.images}

ScansInv == /\ scans \in [P!Tabs -> ScanTypes]
            /\ \A k \in P!Tabs : ScanOf(k, scans[k])

BusyInv == busy # 0 => /\ busy = P!Shown
                       /\ scans[busy].images = busy /\ scans[busy].result = 0

PledgesInv == gone \/ (ColsInv /\ ServerInv /\ UploadInv /\ ScansInv /\ BusyInv)

\* The pledge on screen is the one of its tab.
LEMMA OnScreen ==
  ASSUME ColsInv
  PROVE  /\ P!Active(cols, activeCol) \in 0 .. Len(cols) /\ Len(cols) \in Nat
         /\ cols # << >> => /\ P!Active(cols, activeCol) \in 1 .. Len(cols)
                            /\ P!Card \in PledgeTypes
                            /\ P!Card.id = P!Active(cols, activeCol)
         /\ P!Shown # 0 => /\ cols # << >> /\ P!Shown = P!Active(cols, activeCol)
                           /\ P!Shown \in P!Tabs /\ P!Card.id = P!Shown
         /\ ~open => P!Shown = 0
<1> DEFINE i == P!Active(cols, activeCol)
<1>1. Len(cols) \in Nat /\ Len(cols) <= MaxPledges /\ MaxPledges \in Nat
  BY FormsAssumption DEF ColsInv, InOrder, P!PledgesAssumption
<1>2. i \in 0 .. Len(cols)
  BY <1>1 DEF P!Active, ColsInv
<1>3. cols # << >> => i \in 1 .. Len(cols)
  BY <1>1 DEF P!Active, ColsInv, InOrder
<1>4. i \in 1 .. Len(cols) => cols # << >> /\ cols[i] \in PledgeTypes /\ cols[i].id = i
  BY <1>1 DEF ColsInv, InOrder
<1>5. P!Card = cols[i]
  BY DEF P!Card
<1>6. P!Shown # 0 => i # 0 /\ P!Shown = i
  BY DEF P!Shown, P!Scanner
<1>7. ~open => P!Shown = 0
  BY DEF P!Shown, P!Scanner
<1> HIDE DEF i
<1>8. P!Shown # 0 => P!Shown \in P!Tabs /\ i \in 1 .. Len(cols)
  BY <1>1, <1>2, <1>6 DEF P!Tabs
<1> QED BY <1>1, <1>2, <1>3, <1>4, <1>5, <1>6, <1>7, <1>8 DEF i

\* A scanner that goes on is the one of the same tab; another one reads nothing.
LEMMA RemountedOk ==
  ASSUME ScansInv, BusyInv, P!Remounted(cols', activeCol', open'), UNCHANGED scans
  PROVE  BusyInv'
<1>1. busy' = IF P!Shown' = P!Shown THEN busy ELSE 0
  BY DEF P!Remounted, P!Shown
<1> QED BY <1>1 DEF BusyInv

\* What a scanner writes stays under the key of its tab.
LEMMA MirrorOk ==
  ASSUME ScansInv, P!Shown \in P!Tabs, NEW state, ScanOf(P!Shown, state), P!Mirror(state)
  PROVE  ScansInv' /\ scans'[P!Shown] = state
<1>1. scans' = [scans EXCEPT ![P!Shown] = state]
  BY DEF P!Mirror, P!StoreKey
<1>2. state \in ScanTypes
  BY DEF ScanOf
<1>3. scans' \in [P!Tabs -> ScanTypes] /\ scans'[P!Shown] = state
  BY <1>1, <1>2 DEF ScansInv
<1>4. \A k \in P!Tabs : k # P!Shown => scans'[k] = scans[k]
  BY <1>1 DEF ScansInv
<1> QED BY <1>3, <1>4 DEF ScansInv, ScanOf

\* The keys of another case are empty; only what is on screen is written there.
LEMMA RekeyedOk ==
  ASSUME ScansInv, P!Rekeyed
  PROVE  ScansInv' /\ (P!Shown \in P!Tabs => scans'[P!Shown] = scans[P!Shown])
<1>1. P!NoScan \in ScanTypes /\ \A k \in P!Tabs : ScanOf(k, P!NoScan)
  BY DEF P!NoScan, ScanTypes, ScanOf
<1>2. CASE pKnown
  BY <1>2 DEF P!Rekeyed, ScansInv
<1>3. CASE ~pKnown
  <2>1. scans' = [k \in P!Tabs |-> IF P!Shown # 0 /\ k = P!Shown THEN scans[k] ELSE P!NoScan]
    BY <1>3 DEF P!Rekeyed, P!StoreKey
  <2>2. scans' \in [P!Tabs -> ScanTypes]
    BY <1>1, <2>1 DEF ScansInv
  <2>3. \A k \in P!Tabs : scans'[k] \in {scans[k], P!NoScan}
    BY <2>1
  <2>4. P!Shown \in P!Tabs => scans'[P!Shown] = scans[P!Shown]
    BY <2>1 DEF P!Tabs
  <2> QED BY <1>1, <2>2, <2>3, <2>4 DEF ScansInv
<1> QED BY <1>2, <1>3

\* setCol: the pledge on screen is given a vehicle of its own.
LEMMA CardWritten ==
  ASSUME ColsInv, ServerInv, UploadInv, cols # << >>, NEW v \in {0, P!Active(cols, activeCol)},
         P!SetCol([P!Card EXCEPT !.vehicle = v]), UNCHANGED <<activeCol, added, open>>
  PROVE  ColsInv' /\ P!Shown' = P!Shown
<1> DEFINE i == P!Active(cols, activeCol)
           new == [P!Card EXCEPT !.vehicle = v]
<1>1. i \in 1 .. Len(cols) /\ P!Card = cols[i] /\ P!Card \in PledgeTypes /\ P!Card.id = i
  BY OnScreen DEF P!Card
<1>2. cols' = [cols EXCEPT ![i] = new]
  BY DEF P!SetCol
<1>3. v \in Nat
  BY OnScreen
<1> HIDE DEF i
<1>4. new \in PledgeTypes /\ new.id = i /\ new.vehicle = v /\ new.auto = cols[i].auto
  BY <1>1, <1>3 DEF PledgeTypes
<1> HIDE DEF new
<1>5. cols' \in Seq(PledgeTypes) /\ Len(cols') = Len(cols) /\ cols'[i] = new
  BY <1>1, <1>2, <1>4 DEF ColsInv, InOrder
<1>6. \A j \in 1 .. Len(cols) : j # i => cols'[j] = cols[j]
  BY <1>1, <1>2 DEF ColsInv, InOrder
<1>7. ColsInv'
  BY <1>1, <1>4, <1>5, <1>6 DEF ColsInv, InOrder, i
<1>8. P!Active(cols', activeCol') = i
  BY <1>5 DEF P!Active, i
<1>9. P!Shown' = P!Shown
  <2>1. P!Shown' = (LET k == P!Active(cols', activeCol') IN IF open' /\ k # 0 /\ cols'[k].auto THEN k ELSE 0)
    BY DEF P!Shown, P!Scanner
  <2>2. P!Shown = IF open /\ i # 0 /\ cols[i].auto THEN i ELSE 0
    BY DEF P!Shown, P!Scanner, i
  <2> QED BY <1>4, <1>5, <1>8, <2>1, <2>2
<1> QED BY <1>7, <1>9

\* What the form, the server and a running upload have is left as it is.
LEMMA PledgesRest ==
  ASSUME UNCHANGED <<added, cols, activeCol, stored, files, upload>>, ColsInv, ServerInv, UploadInv
  PROVE  ColsInv' /\ ServerInv' /\ UploadInv'
BY DEF ColsInv, ServerInv, UploadInv, InOrder

\* The scanner on screen is left as it is.
LEMMA BusyStays ==
  ASSUME BusyInv, P!Shown' = P!Shown, UNCHANGED busy, busy # 0 => scans'[busy] = scans[busy]
  PROVE  BusyInv'
BY DEF BusyInv

\* The tabs: another one is chosen, or one is added.
LEMMA TabsStep ==
  ASSUME ColsInv, ServerInv, UploadInv, ScansInv, BusyInv,
         \/ \E auto \in BOOLEAN : P!AddCol(auto)
         \/ \E i \in P!Tabs : P!ChooseTab(i)
  PROVE  ColsInv' /\ ServerInv' /\ UploadInv' /\ ScansInv' /\ BusyInv'
<1>0. added \in Nat /\ Len(cols) \in Nat /\ MaxPledges \in Nat
  BY FormsAssumption DEF ColsInv, P!PledgesAssumption
<1>1. ASSUME NEW i \in P!Tabs, P!ChooseTab(i)
      PROVE  ColsInv' /\ ServerInv' /\ UploadInv' /\ ScansInv' /\ BusyInv'
  <2>1. UNCHANGED <<added, cols, open, stored, files, upload, scans>> /\ activeCol' = i
    BY <1>1 DEF P!ChooseTab
  <2>2. P!Remounted(cols', activeCol', open')
    BY <1>1 DEF P!ChooseTab
  <2>3. BusyInv'
    BY <2>1, <2>2, RemountedOk
  <2>4. i \in Nat \ {0}
    BY DEF P!Tabs
  <2> QED BY <2>1, <2>3, <2>4 DEF ColsInv, ServerInv, UploadInv, ScansInv, InOrder
<1>2. ASSUME NEW auto \in BOOLEAN, P!AddCol(auto)
      PROVE  ColsInv' /\ ServerInv' /\ UploadInv' /\ ScansInv' /\ BusyInv'
  <2> DEFINE new == [id |-> added + 1, auto |-> auto, vehicle |-> 0]
  <2>1. /\ added < MaxPledges /\ added' = added + 1 /\ cols' = Append(cols, new)
        /\ activeCol' = Len(cols') /\ UNCHANGED <<open, stored, files, upload, scans>>
    BY <1>2 DEF P!AddCol
  <2>2. P!Remounted(cols', activeCol', open')
    BY <1>2 DEF P!AddCol
  <2>3. BusyInv'
    BY <2>1, <2>2, RemountedOk
  <2>4. new \in PledgeTypes /\ new.id = added + 1 /\ new.vehicle = 0
    BY <1>0 DEF PledgeTypes
  <2> HIDE DEF new
  <2>5. /\ cols' \in Seq(PledgeTypes) /\ Len(cols') = added + 1 /\ cols'[added + 1] = new
        /\ \A i \in 1 .. added : cols'[i] = cols[i]
    BY <1>0, <2>1, <2>4 DEF ColsInv, InOrder
  <2>6. ColsInv'
    BY <1>0, <2>1, <2>4, <2>5 DEF ColsInv, InOrder
  <2>7. ASSUME NEW q, InOrder(q)
        PROVE  /\ q \in Seq(PledgeTypes) /\ Len(q) <= added'
               /\ \A i \in 1 .. Len(q) : q[i].id = i /\ q[i].vehicle \in {0, i}
    <3>1. Len(q) \in Nat /\ Len(q) <= added
      BY <2>7 DEF InOrder
    <3>2. Len(q) <= added'
      BY <1>0, <2>1, <3>1
    <3> QED BY <2>7, <3>2 DEF InOrder
  <2>8. ServerInv'
    <3>1. InOrder(stored)
      BY DEF ServerInv
    <3> QED BY <2>1, <2>7, <3>1 DEF ServerInv, InOrder
  <2>9. UploadInv'
    <3>1. CASE upload.step = "none"
      BY <2>1, <3>1 DEF UploadInv
    <3>2. CASE upload.step # "none"
      <4>1. InOrder(upload.cols) /\ upload.images = upload.index
        BY <3>2 DEF UploadInv
      <4> QED BY <2>1, <2>7, <4>1 DEF UploadInv, InOrder
    <3> QED BY <3>1, <3>2
  <2> QED BY <2>1, <2>3, <2>6, <2>8, <2>9 DEF ScansInv
<1> QED BY <1>1, <1>2

\* What the user does with the tabs besides, and leaving the step and coming back.
LEMMA StepsStep ==
  ASSUME ColsInv, ServerInv, UploadInv, ScansInv, BusyInv,
         \/ P!Type \/ P!AskRemove \/ P!KeepCol \/ P!Return
         \/ \E save \in BOOLEAN : P!Leave(save)
  PROVE  ColsInv' /\ ServerInv' /\ UploadInv' /\ ScansInv' /\ BusyInv'
<1>1. ASSUME P!Type PROVE ColsInv' /\ ServerInv' /\ UploadInv' /\ ScansInv' /\ BusyInv'
  <2>1. /\ UNCHANGED <<added, activeCol, open, stored, files, upload, scans, busy>>
        /\ cols # << >>
    BY <1>1 DEF P!Type
  <2>2. PICK v \in {0, P!Active(cols, activeCol)} : P!SetCol([P!Card EXCEPT !.vehicle = v])
    BY <1>1, <2>1, OnScreen DEF P!Type
  <2>3. ColsInv' /\ P!Shown' = P!Shown
    BY <2>1, <2>2, CardWritten
  <2> QED BY <2>1, <2>3, BusyStays DEF ServerInv, UploadInv, InOrder, ScansInv
<1>2. ASSUME P!AskRemove \/ P!KeepCol
      PROVE  ColsInv' /\ ServerInv' /\ UploadInv' /\ ScansInv' /\ BusyInv'
  <2>1. UNCHANGED <<added, cols, activeCol, open, stored, files, upload, scans, busy>>
    BY <1>2 DEF P!AskRemove, P!KeepCol
  <2>2. P!Shown' = P!Shown
    BY <2>1 DEF P!Shown
  <2> QED BY <2>1, <2>2, PledgesRest, BusyStays DEF ScansInv
<1>3. ASSUME P!Return PROVE ColsInv' /\ ServerInv' /\ UploadInv' /\ ScansInv' /\ BusyInv'
  <2>1. /\ UNCHANGED <<added, cols, stored, files, upload, scans, busy>>
        /\ activeCol' = 1 /\ ~open
    BY <1>3 DEF P!Return
  <2>2. busy' = 0
    BY <2>1, OnScreen DEF BusyInv
  <2> QED BY <2>1, <2>2 DEF ColsInv, ServerInv, UploadInv, ScansInv, BusyInv, InOrder
<1>4. ASSUME NEW save \in BOOLEAN, P!Leave(save)
      PROVE  ColsInv' /\ ServerInv' /\ UploadInv' /\ ScansInv' /\ BusyInv'
  <2>1. /\ UNCHANGED <<added, cols, activeCol, files, upload>>
        /\ busy' = 0 /\ stored' \in {stored, cols}
        /\ P!Rekeyed \/ UNCHANGED scans
    BY <1>4 DEF P!Leave
  <2>2. ScansInv'
    BY <2>1, RekeyedOk DEF ScansInv
  <2> QED BY <2>1, <2>2 DEF ColsInv, ServerInv, UploadInv, BusyInv, InOrder
<1> QED BY <1>1, <1>2, <1>3, <1>4

\* The scanner of the tab on screen, up to its result.
LEMMA ScannerStep ==
  ASSUME ColsInv, ServerInv, UploadInv, ScansInv, BusyInv,
         P!ChooseImages \/ P!Run \/ P!Again \/ \E good \in BOOLEAN : P!Read(good)
  PROVE  ColsInv' /\ ServerInv' /\ UploadInv' /\ ScansInv' /\ BusyInv'
<1>0. /\ UNCHANGED <<added, cols, activeCol, open, stored, files, upload>>
      /\ P!Shown' = P!Shown
  <2>1. UNCHANGED <<added, cols, activeCol, open, stored, files, upload>>
    BY DEF P!ChooseImages, P!Run, P!Again, P!Read
  <2> QED BY <2>1 DEF P!Shown
<1>1. ColsInv' /\ ServerInv' /\ UploadInv'
  BY <1>0, PledgesRest
<1>2. P!Shown # 0
  BY DEF P!ChooseImages, P!Run, P!Again, P!Read, BusyInv
<1>3. P!Shown \in P!Tabs /\ P!Card.id = P!Shown /\ P!Shown \in Nat
  BY <1>2, OnScreen DEF P!Tabs
<1> DEFINE scan == P!Scan
<1>4. scan = scans[P!Shown] /\ ScanOf(P!Shown, scan)
  BY <1>3 DEF P!Scan, P!StoreKey, ScansInv
<1> HIDE DEF scan
<1>5. CASE P!ChooseImages
  <2> DEFINE state == [scan EXCEPT !.images = P!Shown]
  <2>1. P!Mirror(state) /\ scan.result = 0 /\ UNCHANGED busy
    BY <1>3, <1>5 DEF P!ChooseImages, scan
  <2>2. ScanOf(P!Shown, state) /\ state.result = 0 /\ state.images = P!Shown
    BY <1>3, <1>4, <2>1 DEF ScanOf, ScanTypes
  <2> HIDE DEF state
  <2>3. ScansInv' /\ scans'[P!Shown] = state
    BY <1>3, <2>1, <2>2, MirrorOk
  <2>4. BusyInv'
    BY <1>0, <2>1, <2>2, <2>3 DEF BusyInv
  <2> QED BY <1>1, <2>3, <2>4
<1>6. CASE P!Run
  <2>1. scan.images # 0 /\ scan.result = 0 /\ busy' = scan.images /\ UNCHANGED scans
    BY <1>6 DEF P!Run, scan
  <2>2. scan.images = P!Shown
    BY <1>4, <2>1 DEF ScanOf
  <2> QED BY <1>0, <1>1, <1>4, <2>1, <2>2 DEF ScansInv, BusyInv
<1>7. CASE P!Again
  <2> DEFINE state == [scan EXCEPT !.result = 0]
  <2>1. P!Mirror(state) /\ scan.result # 0 /\ UNCHANGED busy
    BY <1>7 DEF P!Again, scan
  <2>2. ScanOf(P!Shown, state)
    BY <1>3, <1>4, <2>1 DEF ScanOf, ScanTypes
  <2> HIDE DEF state
  <2>3. ScansInv'
    BY <1>3, <2>1, <2>2, MirrorOk
  <2>4. busy = 0
    BY <1>4, <2>1 DEF BusyInv
  <2> QED BY <1>1, <2>1, <2>3, <2>4 DEF BusyInv
<1>8. ASSUME NEW good \in BOOLEAN, P!Read(good) PROVE ScansInv' /\ BusyInv'
  <2> DEFINE state == IF good THEN [scan EXCEPT !.result = busy] ELSE scan
  <2>1. P!Mirror(state) /\ busy # 0 /\ busy' = 0
    BY <1>8 DEF P!Read, scan
  <2>2. busy = P!Shown /\ scan.images = busy
    BY <1>4, <2>1 DEF BusyInv
  <2>3. ScanOf(P!Shown, state)
    BY <1>3, <1>4, <2>2 DEF ScanOf, ScanTypes
  <2> HIDE DEF state
  <2>4. ScansInv'
    BY <1>3, <2>1, <2>3, MirrorOk
  <2> QED BY <2>1, <2>4 DEF BusyInv
<1> QED BY <1>1, <1>5, <1>6, <1>7, <1>8

\* The result goes into the pledge on screen, and pictures and files go on their way for it;
\* then they are stored with the pledge of that number, and the form is fetched again.
LEMMA UploadStep ==
  ASSUME ColsInv, ServerInv, UploadInv, ScansInv, BusyInv,
         P!Apply \/ P!Attach \/ P!SaveLine \/ P!StoreFiles \/ P!Fail
  PROVE  ColsInv' /\ ServerInv' /\ UploadInv' /\ ScansInv' /\ BusyInv'
<1>0. P!NoUpload.step = "none"
  BY DEF P!NoUpload
<1>u. ASSUME NEW images, images = P!Active(cols, activeCol), P!Upload(images), UNCHANGED added
      PROVE  UploadInv'
  <2>1. upload'.cols = cols /\ upload'.images = upload'.index
    BY <1>u DEF P!Upload
  <2> QED BY <1>u, <2>1 DEF UploadInv, ColsInv, InOrder
<1>1. CASE P!Apply
  <2>1. /\ UNCHANGED <<added, activeCol, open, stored, files, busy>>
        /\ P!Shown # 0 /\ P!Scan.result # 0 /\ P!Mirror(P!NoScan)
        /\ P!SetCol([P!Card EXCEPT !.vehicle = P!Scan.result]) /\ P!Upload(P!Scan.images)
    BY <1>1 DEF P!Apply
  <2>2. P!Shown \in P!Tabs /\ cols # << >> /\ P!Shown = P!Active(cols, activeCol)
    BY <2>1, OnScreen
  <2>3. P!Scan = scans[P!Shown] /\ P!Scan.images = P!Shown /\ P!Scan.result = P!Shown
    <3>1. P!Scan = scans[P!Shown] /\ ScanOf(P!Shown, P!Scan)
      BY <2>2 DEF P!Scan, P!StoreKey, ScansInv
    <3> QED BY <2>1, <3>1 DEF ScanOf
  <2>4. ColsInv' /\ P!Shown' = P!Shown
    BY <2>1, <2>2, <2>3, CardWritten
  <2>5. UploadInv'
    BY <1>u, <2>1, <2>2, <2>3
  <2>6. ScansInv'
    <3>1. ScanOf(P!Shown, P!NoScan)
      BY DEF P!NoScan, ScanOf, ScanTypes
    <3> QED BY <2>1, <2>2, <3>1, MirrorOk
  <2>7. busy = 0
    BY <2>1, <2>3 DEF BusyInv
  <2> QED BY <2>1, <2>4, <2>5, <2>6, <2>7 DEF ServerInv, InOrder, BusyInv
<1>2. CASE P!Attach
  <2>1. /\ UNCHANGED <<added, cols, activeCol, open, stored, files, busy, scans>>
        /\ cols # << >> /\ P!Upload(P!Card.id)
    BY <1>2 DEF P!Attach
  <2>2. UploadInv'
    BY <1>u, <2>1, OnScreen
  <2>3. P!Shown' = P!Shown
    BY <2>1 DEF P!Shown
  <2>4. BusyInv' /\ ScansInv'
    BY <2>1, <2>3, BusyStays DEF ScansInv
  <2> QED BY <2>1, <2>2, <2>4 DEF ColsInv, ServerInv, InOrder
<1>3. CASE P!SaveLine
  <2>1. /\ UNCHANGED <<added, cols, activeCol, open, files, busy>>
        /\ upload.step = "save" /\ P!Rekeyed /\ stored' = upload.cols
        /\ upload' = [upload EXCEPT !.step = "files"]
    BY <1>3 DEF P!SaveLine
  <2>2. upload'.cols = upload.cols /\ upload'.images = upload.images /\ upload'.index = upload.index
    BY <2>1
  <2>3. P!Shown' = P!Shown
    BY <2>1 DEF P!Shown
  <2>4. ScansInv' /\ BusyInv'
    <3>1. ScansInv' /\ (P!Shown \in P!Tabs => scans'[P!Shown] = scans[P!Shown])
      BY <2>1, RekeyedOk
    <3>2. busy # 0 => scans'[busy] = scans[busy]
      BY <3>1, OnScreen DEF BusyInv
    <3> QED BY <2>1, <2>3, <3>1, <3>2, BusyStays
  <2> QED BY <2>1, <2>2, <2>4 DEF ColsInv, ServerInv, UploadInv, InOrder
<1>4. CASE P!StoreFiles
  <2>1. /\ UNCHANGED <<added, cols, activeCol, open, stored, busy, scans>>
        /\ upload.step = "files" /\ upload' = P!NoUpload
    BY <1>4 DEF P!StoreFiles
  <2>2. \A m \in files' : m \in files \/ m.shows = m.on
    <3> SUFFICES ASSUME NEW m \in files', m \notin files PROVE m.shows = m.on
      OBVIOUS
    <3>1. /\ upload.index \in DOMAIN stored
          /\ m = [shows |-> upload.images, on |-> stored[upload.index].id]
      BY <1>4 DEF P!StoreFiles
    <3>2. stored[upload.index].id = upload.index
      BY <3>1 DEF ServerInv, InOrder
    <3> QED BY <2>1, <3>1, <3>2 DEF UploadInv
  <2>3. P!Shown' = P!Shown
    BY <2>1 DEF P!Shown
  <2>4. BusyInv' /\ ScansInv'
    BY <2>1, <2>3, BusyStays DEF ScansInv
  <2> QED BY <1>0, <2>1, <2>2, <2>4 DEF ColsInv, ServerInv, UploadInv, InOrder
<1>5. CASE P!Fail
  <2>1. UNCHANGED <<added, cols, activeCol, open, stored, files, busy, scans>> /\ upload' = P!NoUpload
    BY <1>5 DEF P!Fail
  <2>2. P!Shown' = P!Shown
    BY <2>1 DEF P!Shown
  <2>3. BusyInv' /\ ScansInv'
    BY <2>1, <2>2, BusyStays DEF ScansInv
  <2> QED BY <1>0, <2>1, <2>3 DEF ColsInv, ServerInv, UploadInv, InOrder
<1> QED BY <1>1, <1>2, <1>3, <1>4, <1>5

LEMMA PledgesStep ==
  ASSUME PledgesInv, P!Next
  PROVE  PledgesInv'
<1>1. CASE gone
  <2>1. gone'
    BY <1>1 DEF P!Next, P!AddCol, P!ChooseTab, P!Type, P!AskRemove, P!RemoveCol, P!KeepCol,
       P!Leave, P!Return, P!ChooseImages, P!Run, P!Again, P!Apply, P!Attach, P!Read, P!SaveLine,
       P!StoreFiles, P!Fail, P!Loaded
  <2> QED BY <2>1 DEF PledgesInv
<1>2. CASE ~gone
  <2>0. ColsInv /\ ServerInv /\ UploadInv /\ ScansInv /\ BusyInv
    BY <1>2 DEF PledgesInv
  <2>1. CASE P!RemoveCol
    <3>1. gone'
      BY <2>1 DEF P!RemoveCol
    <3> QED BY <3>1 DEF PledgesInv
  <2>2. CASE P!Loaded
    <3>1. /\ UNCHANGED <<added, activeCol, open, stored, files, upload, scans>>
          /\ cols' = stored /\ P!Remounted(cols', activeCol', open')
          /\ gone' = (gone \/ Len(stored) < Len(cols))
      BY <2>2 DEF P!Loaded
    <3>2. BusyInv'
      BY <2>0, <3>1, RemountedOk
    <3>3. ServerInv' /\ UploadInv' /\ ScansInv'
      BY <2>0, <3>1 DEF ServerInv, UploadInv, ScansInv, InOrder
    <3>4. CASE Len(stored) < Len(cols)
      <4>1. gone'
        BY <3>1, <3>4
      <4> QED BY <4>1 DEF PledgesInv
    <3>5. CASE ~(Len(stored) < Len(cols))
      <4>1. Len(stored) = added
        BY <2>0, <3>5 DEF ServerInv, ColsInv, InOrder
      <4>2. ColsInv'
        BY <2>0, <3>1, <4>1 DEF ServerInv, ColsInv, InOrder
      <4> QED BY <3>2, <3>3, <4>2 DEF PledgesInv
    <3> QED BY <3>4, <3>5
  <2>3. CASE ~P!RemoveCol /\ ~P!Loaded
    <3>1. ColsInv' /\ ServerInv' /\ UploadInv' /\ ScansInv' /\ BusyInv'
      BY <2>0, <2>3, TabsStep, StepsStep, ScannerStep, UploadStep DEF P!Next
    <3> QED BY <3>1 DEF PledgesInv
  <2> QED BY <2>1, <2>2, <2>3
<1> QED BY <1>1, <1>2

LEMMA PledgesStart ==
  ASSUME P!Init
  PROVE  PledgesInv
<1>1. /\ cols = << >> /\ stored = << >> /\ added = 0 /\ activeCol = 1 /\ busy = 0 /\ files = {}
      /\ scans = [k \in P!Tabs |-> P!NoScan] /\ upload.step = "none"
  BY DEF P!Init, P!NoUpload
<1>2. InOrder(<< >>) /\ MaxPledges \in Nat
  BY <1>1, FormsAssumption DEF InOrder, P!PledgesAssumption
<1>3. P!NoScan \in ScanTypes /\ \A k \in P!Tabs : ScanOf(k, P!NoScan)
  BY DEF P!NoScan, ScanOf, ScanTypes
<1>4. ScansInv
  BY <1>1, <1>3 DEF ScansInv
<1> QED BY <1>1, <1>2, <1>4 DEF PledgesInv, ColsInv, ServerInv, UploadInv, BusyInv

\* Until a pledge leaves the form, tab, upload and server agree on the n-th one, and a scanner
\* has and reads the pictures of its own tab, for any number of pledges and scans.
THEOREM PledgesInductive == FormsSpec => []PledgesInv
<1>1. FormsInit => PledgesInv
  BY PledgesStart DEF FormsInit
<1>2. PledgesInv /\ [FormsNext]_formsVars => PledgesInv'
  <2> SUFFICES ASSUME PledgesInv, [FormsNext]_formsVars PROVE PledgesInv'
    OBVIOUS
  <2>1. CASE P!Next
    BY <2>1, PledgesStep
  <2>2. CASE UNCHANGED pVars
    BY <2>2 DEF PledgesInv, ColsInv, ServerInv, UploadInv, ScansInv, BusyInv, InOrder, pVars,
       P!Shown
  <2> QED BY <2>1, <2>2 DEF FormsNext, formsVars
<1> QED BY <1>1, <1>2, PTL DEF FormsSpec

\* "Keyed per collateral" (TexScan.tsx): as long as no pledge has left the form, what a scan
\* fills is of the vehicle pledged there and a pledge's files show it, however tabs are
\* changed, scans left and taken up again, uploads run and the form is fetched again.
THEOREM ScansAreOwn == FormsSpec => []ScansOwnPledge
<1>1. PledgesInv => ScansOwnPledge
  BY DEF PledgesInv, ColsInv, ServerInv, InOrder, ScansOwnPledge, P!ScansOwnPledge
<1> QED BY <1>1, PledgesInductive, PTL
=============================================================================
